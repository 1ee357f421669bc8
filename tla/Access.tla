------------------------------- MODULE Access -------------------------------
(***************************************************************************)
(* What users may do: the admin flag (oidc/oidc.go, cmd admin), app         *)
(* passwords and how CalDAV requests are let in with them                   *)
(* (storage/apppasswords.go, caldav/auth.go), and calendars shared with     *)
(* other users (web/calendar_detail.go, storage/acl.go, caldav/backend.go). *)
(* Rows are found by e-mail address and by id, each database call a step;   *)
(* addresses move between accounts and ids of calendars are given again.    *)
(***************************************************************************)
EXTENDS Integers, FiniteSets

CONSTANTS
    Subjects,           \* subjects of the provider
    Emails,
    AdminEmails,        \* those the configuration lists
    PasswordIds, CalendarIds,   \* naturals: a new row takes the id after the largest
    Handlers,           \* requests that may be in progress at once
    MaxBegun            \* bound: requests begun

ASSUME AccessAssumption ==
    /\ PasswordIds \subseteq Nat /\ CalendarIds \subseteq Nat
    /\ {1} \subseteq PasswordIds \cap CalendarIds
    /\ AdminEmails \subseteq Emails
    /\ MaxBegun \in Nat

Privileges == {"read", "read-write"}
NoAccess == ""
NoRequest == [op |-> "none"]

VARIABLES
    users,      \* users[a]: email and is_admin of the row with that subject
    passwords,  \* app_passwords
    calendars,  \* calendars[c]: the owner
    acl,        \* acl[<<c, a>>]: the privilege granted
    handlers,   \* handlers[h]: what the request has read and has left to do
    begun,
    listed,     \* history: accounts that signed in with a listed address
    appointed,  \* history: admins by "admin grant", not revoked since
    shares,     \* history: <<owner, calendar, account, privilege>>, the owner's own
                \*   and what she asked for
    overtaken   \* history: calendars deleted while a request to share them was in progress

accessVars == <<users, passwords, calendars, acl, handlers, begun, listed, appointed, shares,
                overtaken>>
accessTables == <<users, passwords, calendars, acl>>
rightsHistories == <<listed, appointed, shares, overtaken>>

IsNew(id, ids) == (\A i \in ids : i < id) /\ (id = 1 \/ id - 1 \in ids)
With(table, key, row) == [k \in DOMAIN table \cup {key} |-> IF k = key THEN row ELSE table[k]]
Drop(table, keys) == [k \in DOMAIN table \ keys |-> table[k]]

WithEmail(e) == {a \in DOMAIN users : users[a].email = e}

Counted == begun < MaxBegun /\ begun' = begun + 1

(* A request that its first step leaves with r to go on from.               *)
Open(h, r) == handlers[h] = NoRequest /\ Counted /\ handlers' = [handlers EXCEPT ![h] = r]

Turns(h, r) == handlers' = [handlers EXCEPT ![h] = r] /\ UNCHANGED begun
Ends(h) == Turns(h, NoRequest)

Is(h, op) == handlers[h].op = op

AccessInit ==
    /\ users = <<>> /\ passwords = <<>> /\ calendars = <<>> /\ acl = <<>>
    /\ handlers = [h \in Handlers |-> NoRequest]
    /\ begun = 0
    /\ listed = {} /\ appointed = {} /\ shares = {} /\ overtaken = {}

----------------------------------------------------------------------------
(* Users                                                                    *)

Admin(a) == a \in DOMAIN users /\ users[a].admin

(* UpsertUserOnLogin, at the end of Callback, with the address the provider *)
(* has by now.  The index refuses one that another row still has.           *)
UpsertUserOnLogin(h, a, e) ==
    /\ WithEmail(e) \subseteq {a}
    /\ users' = With(users, a, [email |-> e, admin |-> Admin(a)])
    /\ listed' = listed \cup ({a} \cap {b \in Subjects : e \in AdminEmails})
    /\ Open(h, IF e \in AdminEmails /\ ~Admin(a) THEN [op |-> "admin", email |-> e]
               ELSE NoRequest)
    /\ UNCHANGED <<passwords, calendars, acl, appointed, shares, overtaken>>

SetAdmin(e, flag) ==
    users' = [a \in DOMAIN users |->
                [users[a] EXCEPT !.admin = IF users[a].email = e THEN flag ELSE @]]

(* SetAdmin goes by the address, whoever has it now.                        *)
Promote(h) ==
    /\ Is(h, "admin")
    /\ SetAdmin(handlers[h].email, TRUE)
    /\ Ends(h)
    /\ UNCHANGED <<passwords, calendars, acl, rightsHistories>>

(* admin grant and admin revoke, on the command line.                       *)
AdminCommand(e, flag) ==
    /\ WithEmail(e) # {}
    /\ Counted
    /\ SetAdmin(e, flag)
    /\ appointed' = IF flag THEN appointed \cup WithEmail(e) ELSE appointed \ WithEmail(e)
    /\ UNCHANGED <<passwords, calendars, acl, handlers, listed, shares, overtaken>>

----------------------------------------------------------------------------
(* The pages                                                                *)

CreateAppPassword(a, i) ==
    /\ IsNew(i, DOMAIN passwords)
    /\ passwords' = With(passwords, i, [account |-> a, revoked |-> FALSE])

CreateDevice(a, i) ==
    /\ a \in DOMAIN users
    /\ Counted
    /\ CreateAppPassword(a, i)
    /\ UNCHANGED <<users, calendars, acl, handlers, rightsHistories>>

RevokeAppPassword(i) == passwords' = [passwords EXCEPT ![i].revoked = TRUE]

(* handleRevokeDevice: that the password is the user's stays true between   *)
(* the look and the update, for rows are never deleted.                     *)
RevokeDevice(a, i) ==
    /\ i \in DOMAIN passwords /\ passwords[i].account = a /\ ~passwords[i].revoked
    /\ Counted
    /\ RevokeAppPassword(i)
    /\ UNCHANGED <<users, calendars, acl, handlers, rightsHistories>>

CreateCalendar(a, c) ==
    /\ a \in DOMAIN users
    /\ IsNew(c, DOMAIN calendars)
    /\ Counted
    /\ calendars' = With(calendars, c, a)
    /\ shares' = shares \cup {<<a, c, a, "owner">>}
    /\ UNCHANGED <<users, passwords, acl, handlers, listed, appointed, overtaken>>

(* Mutant: whose calendar it is goes unchecked.                             *)
OwnsMutant(a, c) == c \in DOMAIN calendars

(* loadOwnedCalendar                                                        *)
Owns(a, c) == c \in DOMAIN calendars /\ calendars[c] = a

(* handleShareCalendar: the calendar, then the grantee by address, then the *)
(* grant.                                                                   *)
OpenShare(h, a, c, e, p) ==
    /\ Owns(a, c)
    /\ Open(h, [op |-> "find", owner |-> a, calendar |-> c, email |-> e, privilege |-> p])
    /\ UNCHANGED <<accessTables, rightsHistories>>

FindGrantee(h) ==
    LET r == handlers[h] IN
    /\ Is(h, "find")
    /\ \/ WithEmail(r.email) = {} /\ Ends(h) /\ UNCHANGED shares
       \/ \E b \in WithEmail(r.email) :
            /\ Turns(h, [op |-> "grant", calendar |-> r.calendar, account |-> b,
                         privilege |-> r.privilege])
            /\ shares' = shares \cup {<<r.owner, r.calendar, b, r.privilege>>}
    /\ UNCHANGED <<accessTables, listed, appointed, overtaken>>

(* The foreign key refuses a calendar that has gone.                        *)
GrantCalendarAccess(h) ==
    LET r == handlers[h] IN
    /\ Is(h, "grant")
    /\ acl' = IF r.calendar \in DOMAIN calendars
              THEN With(acl, <<r.calendar, r.account>>, r.privilege) ELSE acl
    /\ Ends(h)
    /\ UNCHANGED <<users, passwords, calendars, rightsHistories>>

(* handleUnshareCalendar and handleDeleteCalendar, which look first too.    *)
OpenOther(h, a, c, op, b) ==
    /\ Owns(a, c)
    /\ Open(h, [op |-> op, calendar |-> c, account |-> b])
    /\ UNCHANGED <<accessTables, rightsHistories>>

RevokeCalendarAccess(h) ==
    /\ Is(h, "unshare")
    /\ acl' = Drop(acl, {<<handlers[h].calendar, handlers[h].account>>})
    /\ Ends(h)
    /\ UNCHANGED <<users, passwords, calendars, rightsHistories>>

DeleteCalendar(h) ==
    LET c == handlers[h].calendar IN
    /\ Is(h, "delete")
    /\ calendars' = Drop(calendars, {c})
    /\ acl' = Drop(acl, {k \in DOMAIN acl : k[1] = c})
    /\ overtaken' = overtaken \cup
         {d \in {c} : \E x \in Handlers :
                        handlers[x].op \in {"find", "grant"} /\ handlers[x].calendar = d}
    /\ Ends(h)
    /\ UNCHANGED <<users, passwords, listed, appointed, shares>>

----------------------------------------------------------------------------
(* A CalDAV request for a calendar                                          *)

(* MatchAppPassword: UserByEmail, with the address of the Basic header.     *)
Authenticate(h, e, i) ==
    /\ \E a \in WithEmail(e) : Open(h, [op |-> "match", account |-> a, password |-> i])
    /\ UNCHANGED <<accessTables, rightsHistories>>

(* The passwords of that user which are not revoked; then the calendar at    *)
(* the path, if there is one.                                               *)
MatchAppPassword(h) ==
    LET r == handlers[h] IN
    /\ Is(h, "match")
    /\ \/ /\ r.password \in DOMAIN passwords
          /\ passwords[r.password] = [account |-> r.account, revoked |-> FALSE]
          /\ \E c \in DOMAIN calendars :
               Turns(h, [op |-> "level", account |-> r.account, password |-> r.password,
                         calendar |-> c])
       \/ Ends(h)
    /\ UNCHANGED <<accessTables, rightsHistories>>

WithOp(r, op) ==
    [op |-> op, account |-> r.account, password |-> r.password, calendar |-> r.calendar]

(* AccessLevel of that calendar: the owner, then the grant.                 *)
Level(h) ==
    LET r == handlers[h] IN
    /\ Is(h, "level")
    /\ \/ r.calendar \notin DOMAIN calendars /\ Ends(h)
       \/ /\ r.calendar \in DOMAIN calendars
          /\ Turns(h, WithOp(r, IF calendars[r.calendar] = r.account THEN "write" ELSE "privilege"))
    /\ UNCHANGED <<accessTables, rightsHistories>>

Privilege(h) ==
    LET r == handlers[h]
        key == <<r.calendar, r.account>> IN
    /\ Is(h, "privilege")
    /\ \/ key \notin DOMAIN acl /\ Ends(h)
       \/ /\ key \in DOMAIN acl
          /\ Turns(h, WithOp(r, IF acl[key] = "read-write" THEN "write" ELSE "read"))
    /\ UNCHANGED <<accessTables, rightsHistories>>

(* requireWrite and access let it through, and it does what it came for.    *)
Serve(h) ==
    /\ handlers[h].op \in {"read", "write"}
    /\ Ends(h)
    /\ UNCHANGED <<accessTables, rightsHistories>>

AccessNext ==
    \/ \E h \in Handlers :
         \/ \E a \in Subjects, e \in Emails : UpsertUserOnLogin(h, a, e)
         \/ \E a \in Subjects, c \in CalendarIds :
              \/ \E e \in Emails, p \in Privileges : OpenShare(h, a, c, e, p)
              \/ \E b \in Subjects : OpenOther(h, a, c, "unshare", b)
              \/ OpenOther(h, a, c, "delete", a)
         \/ \E e \in Emails, i \in PasswordIds : Authenticate(h, e, i)
         \/ Promote(h) \/ FindGrantee(h) \/ GrantCalendarAccess(h)
         \/ RevokeCalendarAccess(h) \/ DeleteCalendar(h)
         \/ MatchAppPassword(h) \/ Level(h) \/ Privilege(h) \/ Serve(h)
    \/ \E e \in Emails, flag \in BOOLEAN : AdminCommand(e, flag)
    \/ \E a \in Subjects :
         \/ \E i \in PasswordIds : CreateDevice(a, i) \/ RevokeDevice(a, i)
         \/ \E c \in CalendarIds : CreateCalendar(a, c)

AccessSpec == AccessInit /\ [][AccessNext]_accessVars

----------------------------------------------------------------------------
AccessTypeOK ==
    /\ DOMAIN users \subseteq Subjects
    /\ \A a \in DOMAIN users : users[a] \in [email : Emails, admin : BOOLEAN]
    /\ \A a, b \in DOMAIN users : users[a].email = users[b].email => a = b
    /\ DOMAIN passwords \subseteq PasswordIds
    /\ \A i \in DOMAIN passwords : passwords[i] \in [account : Subjects, revoked : BOOLEAN]
    /\ DOMAIN calendars \subseteq CalendarIds
    /\ \A c \in DOMAIN calendars : calendars[c] \in DOMAIN users
    /\ \A k \in DOMAIN acl : k \in (DOMAIN calendars) \X (DOMAIN users) /\ acl[k] \in Privileges
    /\ DOMAIN handlers = Handlers
    /\ listed \cup appointed \subseteq DOMAIN users

Shared(c, a, p) == <<calendars[c], c, a, p>> \in shares \/ c \in overtaken

AdminsAreEntitled == \A a \in DOMAIN users : users[a].admin => a \in listed \cup appointed

GrantsAreOwners == \A k \in DOMAIN acl : Shared(k[1], k[2], acl[k])

MayWrite(a, c) ==
    \/ c \in overtaken
    \/ \E s \in shares : s[2] = c /\ s[3] = a /\ s[4] \in {"owner", "read-write"}

RequestsMayAct ==
    \A h \in Handlers :
      LET r == handlers[h] IN
      /\ r.op \in {"level", "privilege", "read", "write"} =>
           passwords[r.password].account = r.account
      /\ r.op = "write" => MayWrite(r.account, r.calendar)

(* Every right was given by one who may give it, though addresses and ids   *)
(* change hands between the steps: admins have signed in with a listed       *)
(* address or were granted it and not revoked; a grant on a calendar is one   *)
(* its present owner asked for; a CalDAV request acts for the user who made   *)
(* the password, and writes only where an owner let that user.  Excepted are *)
(* calendars that were deleted while a request to share them was in progress. *)
RightsHaveGivers == AdminsAreEntitled /\ GrantsAreOwners /\ RequestsMayAct
=============================================================================
