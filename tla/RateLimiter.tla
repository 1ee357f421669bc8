---------------------------- MODULE RateLimiter ----------------------------
(***************************************************************************)
(* The rate limiter of share links (share/ratelimit.go), in the memory of  *)
(* the server process: the recent requests of each token.  allow is called *)
(* with a time that was taken before the lock, so calls may come to the    *)
(* lock with their times out of order.                                     *)
(***************************************************************************)
EXTENDS Integers, FiniteSets

CONSTANTS
    TokenIds,
    MaxHits,    \* max, 60 in the code
    Window      \* window, 5 minutes in the code

ASSUME LimiterAssumption == MaxHits \in Nat \ {0} /\ Window \in Nat \ {0}

VARIABLES
    clock,
    hits,       \* hits[t]: the slice kept for token t; n gives the order
    granted,    \* history: what this process has let through, pruned or not
    latest      \* history: the latest time a call came with, or out of order

limiterVars == <<clock, hits, granted, latest>>

Hit == [n: Nat, at: Nat]
OutOfOrder == -1

Kept(t, now) == {h \in hits[t] : h.at > now - Window}

(* The element at the front of the slice.                                  *)
First(S) == CHOOSE h \in S : \A g \in S : h.n <= g.n

(* Mutant: one instant short.                                              *)
RetryMutant(t, now) ==
    LET wait == First(Kept(t, now)).at + Window - now - 1 IN
    IF wait < 0 THEN 0 ELSE wait

Retry(t, now) ==
    LET wait == First(Kept(t, now)).at + Window - now IN
    IF wait < 0 THEN 0 ELSE wait

Admits(t, now) == Cardinality(Kept(t, now)) < MaxHits

NextHit(t, now) == [n |-> Cardinality(granted[t]) + 1, at |-> now]

(* What the history records of a call for t that came with the time now.   *)
Called(t, now) ==
    latest' = [latest EXCEPT ![t] =
                 IF @ = OutOfOrder \/ now < @ THEN OutOfOrder ELSE now]

(* Mutant: one too many.                                                   *)
GrantMutant(t, now) ==
    /\ Cardinality(Kept(t, now)) <= MaxHits
    /\ hits' = [hits EXCEPT ![t] = Kept(t, now) \cup {NextHit(t, now)}]
    /\ granted' = [granted EXCEPT ![t] = @ \cup {NextHit(t, now)}]
    /\ Called(t, now)
    /\ UNCHANGED clock

(* allow, answering yes.                                                   *)
Grant(t, now) ==
    /\ Admits(t, now)
    /\ hits' = [hits EXCEPT ![t] = Kept(t, now) \cup {NextHit(t, now)}]
    /\ granted' = [granted EXCEPT ![t] = @ \cup {NextHit(t, now)}]
    /\ Called(t, now)
    /\ UNCHANGED clock

(* allow, answering no.                                                    *)
Refuse(t, now) ==
    /\ ~Admits(t, now)
    /\ hits' = [hits EXCEPT ![t] = Kept(t, now)]
    /\ Called(t, now)
    /\ UNCHANGED <<clock, granted>>

Tick == clock' = clock + 1 /\ UNCHANGED <<hits, granted, latest>>

(* A new process starts with an empty map.                                 *)
Forget ==
    /\ hits' = [t \in TokenIds |-> {}]
    /\ granted' = [t \in TokenIds |-> {}]
    /\ latest' = [t \in TokenIds |-> 0]
    /\ UNCHANGED clock

LimiterInit ==
    /\ clock = 0
    /\ hits = [t \in TokenIds |-> {}]
    /\ granted = [t \in TokenIds |-> {}]
    /\ latest = [t \in TokenIds |-> 0]

LimiterNext ==
    \/ \E t \in TokenIds, now \in 0 .. clock : Grant(t, now) \/ Refuse(t, now)
    \/ Tick
    \/ Forget

LimiterSpec == LimiterInit /\ [][LimiterNext]_limiterVars

----------------------------------------------------------------------------
LimiterTypeOK ==
    /\ clock \in Nat
    /\ hits \in [TokenIds -> SUBSET Hit]
    /\ granted \in [TokenIds -> SUBSET Hit]
    /\ latest \in [TokenIds -> Nat \cup {OutOfOrder}]

(* "At most max requests per window": among the requests of a token that    *)
(* one process lets through, no window ending with one of them holds more   *)
(* than max, as long as the calls reach the lock in the order of their      *)
(* times.                                                                   *)
AtMostMaxPerWindow ==
    \A t \in TokenIds : latest[t] # OutOfOrder =>
        \A g \in granted[t] :
            Cardinality({h \in granted[t] : g.at - Window < h.at /\ h.at <= g.at}) <= MaxHits

(* "How long until it would be": who is refused and waits that long finds   *)
(* room; and, if the calls came in the order of their times, nobody who     *)
(* waits less does.                                                        *)
RetryIsExact ==
    \A t \in TokenIds : ~Admits(t, clock) =>
        /\ Admits(t, clock + Retry(t, clock))
        /\ latest[t] # OutOfOrder =>
             \A wait \in 0 .. Window : wait < Retry(t, clock) => ~Admits(t, clock + wait)
=============================================================================
