------------------------------- MODULE SignIn -------------------------------
(***************************************************************************)
(* Signing in on the web (oidc/oidc.go, web/devlogin.go), the sessions it   *)
(* makes (oidc/session.go, storage/sessions.go) and the key that signs      *)
(* their cookies (storage/settings.go, cmd serve).  Requests run at once,   *)
(* each database call a step; server processes stop anywhere, are started   *)
(* again, and an old one may still run while the next one starts.           *)
(***************************************************************************)
EXTENDS Integers, FiniteSets

CONSTANTS
    Accounts,           \* users, as the provider knows them
    Developer,          \* the one the development login signs in
    Flows,              \* values of the state parameter, each drawn once
    SessionIds, Keys,   \* random values, each drawn once
    Processes, Requests,
    Overrides,          \* session keys that a configuration may give
    MaxStarts           \* bound: processes started

ASSUME SignInAssumption ==
    /\ Developer \in Accounts
    /\ MaxStarts \in Nat

NoKey == "no key"
NoFlow == "no flow"
None == [op |-> "none"]
Down == [phase |-> "down", key |-> NoKey]

ASSUME DrawnValues == NoKey \notin Keys \cup Overrides /\ NoFlow \notin Flows

VARIABLES
    flows,      \* rows of oidc_flows: "open", or "expired" by now
    sessions,   \* rows of sessions: whose, and whether expires_at has passed
    storedKey,  \* settings.session_key
    processes,  \* processes[p]: how far it has started, and its key
    requests,   \* requests[r]: what the handler has read and has left to do
    begunFlows, drawnKeys,  \* what has been drawn
    cookies,    \* history: signed session ids that browsers were given
    logins,     \* history: logins[i]: the flow and the account that made session i
    verified,   \* history: verified[f]: whom the provider vouched for
    disrupted,  \* history: two starts overlapped, or a configured key replaced another
    starts

signInVars == <<flows, sessions, storedKey, processes, requests, begunFlows, drawnKeys,
                cookies, logins, verified, disrupted, starts>>
keyVars == <<storedKey, drawnKeys, disrupted, starts>>
signInHistories == <<begunFlows, logins, verified>>

Row(table, key, row) == [k \in DOMAIN table \cup {key} |-> IF k = key THEN row ELSE table[k]]
Minus(table, key) == [k \in DOMAIN table \ {key} |-> table[k]]

Up(p) == processes[p].phase = "up"
Begins(r, state) == requests[r] = None /\ requests' = [requests EXCEPT ![r] = state]
Becomes(r, state) == requests' = [requests EXCEPT ![r] = state]
InPhase(r, op, phase) == requests[r].op = op /\ requests[r].phase = phase

SignInInit ==
    /\ flows = <<>> /\ sessions = <<>>
    /\ storedKey = NoKey
    /\ processes = [p \in Processes |-> Down]
    /\ requests = [r \in Requests |-> None]
    /\ begunFlows = {} /\ drawnKeys = {} /\ cookies = {}
    /\ logins = <<>> /\ verified = <<>>
    /\ disrupted = FALSE
    /\ starts = 0

----------------------------------------------------------------------------
(* Starting a server: persistedKey.                                         *)

Starting(p) == processes[p].phase \in {"read", "save"}

(* With a key from the configuration, which is stored and used; that others *)
(* were signed with the stored one is then given up on purpose.             *)
StartConfigured(p, k) ==
    /\ processes[p] = Down /\ starts < MaxStarts
    /\ storedKey' = k
    /\ processes' = [processes EXCEPT ![p] = [phase |-> "up", key |-> k]]
    /\ disrupted' = (disrupted \/ storedKey \notin {NoKey, k} \/ \E q \in Processes : Starting(q))
    /\ starts' = starts + 1
    /\ UNCHANGED <<flows, sessions, requests, drawnKeys, cookies, signInHistories>>

Start(p) ==
    /\ processes[p] = Down /\ starts < MaxStarts
    /\ processes' = [processes EXCEPT ![p].phase = "read"]
    /\ disrupted' = (disrupted \/ \E q \in Processes : Starting(q))
    /\ starts' = starts + 1
    /\ UNCHANGED <<flows, sessions, storedKey, requests, drawnKeys, cookies, signInHistories>>

ReadKey(p) ==
    /\ processes[p].phase = "read"
    /\ \/ /\ storedKey # NoKey
          /\ processes' = [processes EXCEPT ![p] = [phase |-> "up", key |-> storedKey]]
          /\ UNCHANGED drawnKeys
       \/ /\ storedKey = NoKey
          /\ \E k \in Keys \ drawnKeys :
               /\ processes' = [processes EXCEPT ![p] = [phase |-> "save", key |-> k]]
               /\ drawnKeys' = drawnKeys \cup {k}
    /\ UNCHANGED <<flows, sessions, storedKey, requests, disrupted, starts, cookies, signInHistories>>

(* Mutant: the fresh key is used and not stored.                            *)
SaveKeyMutant(p) ==
    /\ processes[p].phase = "save"
    /\ processes' = [processes EXCEPT ![p].phase = "up"]
    /\ UNCHANGED <<flows, sessions, requests, keyVars, cookies, signInHistories>>

(* The update does not look whether the column is still empty.              *)
SaveKey(p) ==
    /\ processes[p].phase = "save"
    /\ storedKey' = processes[p].key
    /\ processes' = [processes EXCEPT ![p].phase = "up"]
    /\ UNCHANGED <<flows, sessions, requests, drawnKeys, disrupted, starts, cookies, signInHistories>>

(* Stopped or dead, with the requests it served.                            *)
Stop(p) ==
    /\ processes[p] # Down
    /\ processes' = [processes EXCEPT ![p] = Down]
    /\ requests' = [r \in Requests |->
                      IF requests[r] # None /\ requests[r].process = p THEN None ELSE requests[r]]
    /\ UNCHANGED <<flows, sessions, keyVars, cookies, signInHistories>>

----------------------------------------------------------------------------
(* The code flow.                                                           *)

LoginStart(f) ==
    /\ f \notin begunFlows
    /\ \E p \in Processes : Up(p)
    /\ begunFlows' = begunFlows \cup {f}
    /\ flows' = Row(flows, f, "open")
    /\ UNCHANGED <<sessions, processes, requests, keyVars, cookies, logins, verified>>

FlowExpires(f) ==
    /\ f \in DOMAIN flows /\ flows[f] = "open"
    /\ flows' = [flows EXCEPT ![f] = "expired"]
    /\ UNCHANGED <<sessions, processes, requests, keyVars, cookies, signInHistories>>

(* Mutant: the row is read and stays.                                       *)
TakeFlowMutant(r, p, f) ==
    /\ Up(p)
    /\ f \in DOMAIN flows /\ flows[f] = "open"
    /\ Begins(r, [op |-> "login", phase |-> "exchange", process |-> p, flow |-> f])
    /\ UNCHANGED <<flows, sessions, processes, keyVars, cookies, signInHistories>>

(* TakeOIDCFlow, in Callback: one statement takes the row; a flow that has   *)
(* expired is gone as well, and the user starts again.                      *)
TakeFlow(r, p, f) ==
    /\ Up(p)
    /\ f \in DOMAIN flows
    /\ flows' = Minus(flows, f)
    /\ Begins(r, IF flows[f] = "open"
                 THEN [op |-> "login", phase |-> "exchange", process |-> p, flow |-> f]
                 ELSE None)
    /\ UNCHANGED <<sessions, processes, keyVars, cookies, signInHistories>>

(* The provider vouches for an account and the user is inserted or updated. *)
Exchange(r, a) ==
    /\ InPhase(r, "login", "exchange")
    /\ verified' = Row(verified, requests[r].flow, a)
    /\ Becomes(r, [op |-> "login", phase |-> "session", process |-> requests[r].process,
                   flow |-> requests[r].flow, account |-> a])
    /\ UNCHANGED <<flows, sessions, processes, keyVars, cookies, begunFlows, logins>>

(* The provider declines, the nonce is another's, or no e-mail is shared.   *)
ExchangeFails(r) ==
    /\ InPhase(r, "login", "exchange")
    /\ Becomes(r, None)
    /\ UNCHANGED <<flows, sessions, processes, keyVars, cookies, signInHistories>>

(* The development login needs no flow.                                     *)
DevLogin(r, p) ==
    /\ Up(p)
    /\ Begins(r, [op |-> "login", phase |-> "session", process |-> p, flow |-> NoFlow,
                  account |-> Developer])
    /\ UNCHANGED <<flows, sessions, processes, keyVars, cookies, signInHistories>>

CreateSession(i, a) == sessions' = Row(sessions, i, [account |-> a, live |-> TRUE])

(* What a successful login ends with: the row, and a cookie signed with the   *)
(* key of the process.                                                      *)
StartSession(r, i) ==
    /\ InPhase(r, "login", "session")
    /\ i \notin DOMAIN logins
    /\ CreateSession(i, requests[r].account)
    /\ logins' = Row(logins, i, [flow |-> requests[r].flow, account |-> requests[r].account])
    /\ cookies' = cookies \cup {[id |-> i, key |-> processes[requests[r].process].key]}
    /\ Becomes(r, None)
    /\ UNCHANGED <<flows, processes, keyVars, begunFlows, verified>>

----------------------------------------------------------------------------
(* Requests with a cookie.                                                  *)

Verifies(p, c) == Up(p) /\ c.key = processes[p].key

(* lookup: SessionByID.  Users are never deleted, so that UserByID finds     *)
(* the session's.                                                           *)
Lookup(r, p, c) ==
    /\ Verifies(p, c)
    /\ c.id \in DOMAIN sessions
    /\ Begins(r, [op |-> "page", phase |-> IF sessions[c.id].live THEN "touch" ELSE "delete",
                  process |-> p, id |-> c.id])
    /\ UNCHANGED <<flows, sessions, processes, keyVars, cookies, signInHistories>>

DeleteSession(i) == sessions' = Minus(sessions, i)

(* TouchSession slides expires_at of the row, if it is still there.         *)
Touch(r) ==
    /\ InPhase(r, "page", "touch")
    /\ sessions' = [i \in DOMAIN sessions |->
                      [sessions[i] EXCEPT !.live = @ \/ i = requests[r].id]]
    /\ Becomes(r, None)
    /\ UNCHANGED <<flows, processes, keyVars, cookies, signInHistories>>

(* One found expired is deleted.                                            *)
DeleteExpired(r) ==
    /\ InPhase(r, "page", "delete")
    /\ DeleteSession(requests[r].id)
    /\ Becomes(r, None)
    /\ UNCHANGED <<flows, processes, keyVars, cookies, signInHistories>>

(* ClearSession.                                                            *)
Logout(p, c) ==
    /\ Verifies(p, c)
    /\ DeleteSession(c.id)
    /\ UNCHANGED <<flows, processes, requests, keyVars, cookies, signInHistories>>

SessionExpires(i) ==
    /\ i \in DOMAIN sessions /\ sessions[i].live
    /\ sessions' = [sessions EXCEPT ![i].live = FALSE]
    /\ UNCHANGED <<flows, processes, requests, keyVars, cookies, signInHistories>>

SignInNext ==
    \/ \E p \in Processes :
         \/ \E k \in Overrides : StartConfigured(p, k)
         \/ Start(p) \/ ReadKey(p) \/ SaveKey(p) \/ Stop(p)
         \/ \E c \in cookies : Logout(p, c)
         \/ \E r \in Requests :
              \/ \E f \in Flows : TakeFlow(r, p, f)
              \/ DevLogin(r, p)
              \/ \E c \in cookies : Lookup(r, p, c)
    \/ \E f \in Flows : LoginStart(f) \/ FlowExpires(f)
    \/ \E r \in Requests :
         \/ \E a \in Accounts : Exchange(r, a)
         \/ ExchangeFails(r)
         \/ \E i \in SessionIds : StartSession(r, i)
         \/ Touch(r) \/ DeleteExpired(r)
    \/ \E i \in SessionIds : SessionExpires(i)

SignInSpec == SignInInit /\ [][SignInNext]_signInVars

----------------------------------------------------------------------------
SignInTypeOK ==
    /\ DOMAIN flows \subseteq begunFlows /\ begunFlows \subseteq Flows
    /\ \A f \in DOMAIN flows : flows[f] \in {"open", "expired"}
    /\ \A i \in DOMAIN sessions : sessions[i] \in [account : Accounts, live : BOOLEAN]
    /\ storedKey \in Keys \cup Overrides \cup {NoKey}
    /\ processes \in [Processes -> [phase : {"down", "read", "save", "up"},
                                    key : Keys \cup Overrides \cup {NoKey}]]
    /\ DOMAIN requests = Requests
    /\ drawnKeys \subseteq Keys /\ disrupted \in BOOLEAN /\ starts \in Nat

OneSessionForEachLogin ==
    \A i \in DOMAIN sessions :
      /\ i \in DOMAIN logins
      /\ sessions[i].account = logins[i].account
      /\ logins[i].flow # NoFlow =>
           /\ logins[i].flow \in DOMAIN verified
           /\ verified[logins[i].flow] = logins[i].account
           /\ \A j \in DOMAIN logins : logins[j].flow = logins[i].flow => j = i

GoneForGood == \A i \in DOMAIN logins : i \notin DOMAIN sessions => i \notin DOMAIN sessions'

(* A flow gives one session at most, to whom the provider vouched for in     *)
(* that flow, however often its callback comes; and a session that was       *)
(* ended, by its user or as expired, is not brought back by a request that    *)
(* had found it before.                                                     *)
SessionsHaveLogins == [][OneSessionForEachLogin' /\ GoneForGood]_signInVars

(* Who signed in before a restart is still signed in after it: a process     *)
(* verifies the cookies of those before it and beside it, as long as no two   *)
(* processes were starting at once and no configured key replaced another.   *)
KeysPersist ==
    ~disrupted => \A p \in Processes, c \in cookies : Up(p) => Verifies(p, c)
=============================================================================
