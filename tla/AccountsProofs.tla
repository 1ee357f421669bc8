--------------------------- MODULE AccountsProofs ---------------------------
(***************************************************************************)
(* Sessions come from logins and outlive restarts, rights have givers: for  *)
(* any number of users, requests and processes.                            *)
(***************************************************************************)
EXTENDS SignIn, Access, TLAPS

----------------------------------------------------------------------------
(* Access                                                                   *)

(* A row that takes a new id takes one that no row has.                     *)
LEMMA NewIsNew ==
    ASSUME NEW ids, ids \subseteq Nat, NEW i \in Nat, IsNew(i, ids)
    PROVE  i \notin ids
  BY DEF IsNew

UserRow == [email : Emails, admin : BOOLEAN]

UsersOK ==
    /\ DOMAIN users \subseteq Subjects
    /\ \A a \in DOMAIN users : users[a] \in UserRow
    /\ listed \cup appointed \subseteq DOMAIN users

(* The addresses of rows are those of their last login, which listed tells  *)
(* of; a promotion in progress is by a listed address.                      *)
AdminInv ==
    /\ UsersOK
    /\ \A a \in DOMAIN users : users[a].email \in AdminEmails => a \in listed
    /\ \A h \in Handlers : Is(h, "admin") => handlers[h].email \in AdminEmails
    /\ DOMAIN handlers = Handlers
    /\ AdminsAreEntitled

(* Rows, and promotions, that stay as they were.                            *)
LEMMA AdminSame ==
    ASSUME AdminInv, UNCHANGED <<users, listed, appointed>>,
           NEW h \in Handlers, NEW r, r.op # "admin",
           handlers' = handlers \/ handlers' = [handlers EXCEPT ![h] = r]
    PROVE  AdminInv'
  <1>1. DOMAIN handlers' = Handlers
        /\ \A x \in Handlers : handlers'[x] = handlers[x] \/ handlers'[x] = r
    BY DEF AdminInv
  <1>2. \A x \in Handlers : Is(x, "admin")' => handlers'[x].email \in AdminEmails
    BY <1>1 DEF AdminInv, Is
  <1> QED BY <1>1, <1>2 DEF AdminInv, UsersOK, AdminsAreEntitled

(* A login or a command that changes rows.                                  *)
LEMMA SetAdminIs ==
    ASSUME UsersOK, NEW e, NEW flag \in BOOLEAN, SetAdmin(e, flag)
    PROVE  /\ DOMAIN users' = DOMAIN users
           /\ \A a \in DOMAIN users :
                /\ users'[a] \in UserRow
                /\ users'[a].email = users[a].email
                /\ users'[a].admin = IF users[a].email = e THEN flag ELSE users[a].admin
  BY DEF SetAdmin, UsersOK, UserRow

LEMMA AdminLogin ==
    ASSUME AdminInv, NEW h \in Handlers, NEW a \in Subjects, NEW e \in Emails,
           UpsertUserOnLogin(h, a, e)
    PROVE  AdminInv'
  <1> DEFINE row == [email |-> e, admin |-> Admin(a)]
  <1>1. row \in UserRow /\ row.email = e /\ (row.admin <=> Admin(a))
    BY DEF UserRow, Admin, AdminInv, UsersOK
  <1>2. /\ users' = With(users, a, row)
        /\ listed' = listed \cup ({a} \cap {b \in Subjects : e \in AdminEmails})
        /\ appointed' = appointed
    BY DEF UpsertUserOnLogin
  <1> HIDE DEF row
  <1>3. DOMAIN users' = DOMAIN users \cup {a} /\ users'[a] = row
        /\ \A b \in DOMAIN users \ {a} : users'[b] = users[b]
    BY <1>2 DEF With
  <1>4. UsersOK'
    BY <1>1, <1>2, <1>3 DEF AdminInv, UsersOK
  <1>5. \A b \in DOMAIN users' : users'[b].email \in AdminEmails => b \in listed'
    BY <1>1, <1>2, <1>3 DEF AdminInv
  <1>6. AdminsAreEntitled'
    BY <1>1, <1>2, <1>3 DEF AdminInv, AdminsAreEntitled, Admin
  <1>7. ASSUME NEW r, handlers' = [handlers EXCEPT ![h] = r], r.op = "admin" => r.email \in AdminEmails
        PROVE  /\ DOMAIN handlers' = Handlers
               /\ \A x \in Handlers : Is(x, "admin")' => handlers'[x].email \in AdminEmails
    BY <1>7 DEF AdminInv, Is
  <1>8. /\ DOMAIN handlers' = Handlers
        /\ \A x \in Handlers : Is(x, "admin")' => handlers'[x].email \in AdminEmails
    <2>1. CASE e \in AdminEmails /\ ~Admin(a)
      <3>1. handlers' = [handlers EXCEPT ![h] = [op |-> "admin", email |-> e]]
        BY <2>1 DEF UpsertUserOnLogin, Open
      <3> QED BY <1>7, <2>1, <3>1
    <2>2. CASE ~(e \in AdminEmails /\ ~Admin(a))
      <3>1. handlers' = [handlers EXCEPT ![h] = NoRequest]
        BY <2>2 DEF UpsertUserOnLogin, Open
      <3>2. NoRequest.op # "admin"
        BY DEF NoRequest
      <3> QED BY <1>7, <3>1, <3>2
    <2> QED BY <2>1, <2>2
  <1> QED BY <1>4, <1>5, <1>6, <1>8 DEF AdminInv

LEMMA AdminPromote ==
    ASSUME AdminInv, NEW h \in Handlers, Promote(h)
    PROVE  AdminInv'
  <1> DEFINE e == handlers[h].email
  <1>1. e \in AdminEmails /\ SetAdmin(e, TRUE) /\ UNCHANGED <<listed, appointed>>
        /\ handlers' = [handlers EXCEPT ![h] = NoRequest]
    BY DEF Promote, AdminInv, rightsHistories, Ends, Turns
  <1> HIDE DEF e
  <1>2. /\ DOMAIN users' = DOMAIN users
        /\ \A a \in DOMAIN users :
             /\ users'[a] \in UserRow
             /\ users'[a].email = users[a].email
             /\ users'[a].admin = IF users[a].email = e THEN TRUE ELSE users[a].admin
    BY <1>1, SetAdminIs DEF AdminInv
  <1>3. UsersOK' /\ \A a \in DOMAIN users' : users'[a].email \in AdminEmails => a \in listed'
    BY <1>1, <1>2 DEF AdminInv, UsersOK
  <1>4. AdminsAreEntitled'
    <2> SUFFICES ASSUME NEW a \in DOMAIN users', users'[a].admin
                 PROVE  a \in listed' \cup appointed'
      BY DEF AdminsAreEntitled
    <2>1. CASE users[a].email = e
      BY <1>1, <1>2, <2>1 DEF AdminInv
    <2>2. CASE users[a].email # e
      BY <1>1, <1>2, <2>2 DEF AdminInv, AdminsAreEntitled
    <2> QED BY <2>1, <2>2
  <1>5. DOMAIN handlers' = Handlers
        /\ \A x \in Handlers : Is(x, "admin")' => handlers'[x].email \in AdminEmails
    BY <1>1 DEF AdminInv, Is, NoRequest
  <1> QED BY <1>3, <1>4, <1>5 DEF AdminInv

LEMMA AdminByCommand ==
    ASSUME AdminInv, NEW e \in Emails, NEW flag \in BOOLEAN, AdminCommand(e, flag)
    PROVE  AdminInv'
  <1>1. /\ SetAdmin(e, flag) /\ UNCHANGED <<handlers, listed>>
        /\ appointed' = IF flag THEN appointed \cup WithEmail(e) ELSE appointed \ WithEmail(e)
    BY DEF AdminCommand
  <1>2. /\ DOMAIN users' = DOMAIN users
        /\ \A a \in DOMAIN users :
             /\ users'[a] \in UserRow
             /\ users'[a].email = users[a].email
             /\ users'[a].admin = IF users[a].email = e THEN flag ELSE users[a].admin
    BY <1>1, SetAdminIs DEF AdminInv
  <1>3. UsersOK' /\ \A a \in DOMAIN users' : users'[a].email \in AdminEmails => a \in listed'
    BY <1>1, <1>2 DEF AdminInv, UsersOK, WithEmail
  <1>4. AdminsAreEntitled'
    <2> SUFFICES ASSUME NEW a \in DOMAIN users', users'[a].admin
                 PROVE  a \in listed' \cup appointed'
      BY DEF AdminsAreEntitled
    <2>1. CASE users[a].email = e
      <3>1. flag /\ a \in WithEmail(e)
        BY <1>2, <2>1 DEF WithEmail
      <3> QED BY <1>1, <3>1
    <2>2. CASE users[a].email # e
      <3>1. users[a].admin /\ a \notin WithEmail(e)
        BY <1>2, <2>2 DEF WithEmail
      <3> QED BY <1>1, <1>2, <3>1 DEF AdminInv, AdminsAreEntitled
    <2> QED BY <2>1, <2>2
  <1> QED BY <1>1, <1>3, <1>4 DEF AdminInv, Is

LEMMA AdminStep == AdminInv /\ [AccessNext]_accessVars => AdminInv'
  <1> SUFFICES ASSUME AdminInv, [AccessNext]_accessVars PROVE AdminInv'
    OBVIOUS
  <1>1. ASSUME NEW h \in Handlers, NEW r, r.op # "admin", UNCHANGED <<users, listed, appointed>>,
               handlers' = [handlers EXCEPT ![h] = r]
        PROVE  AdminInv'
    BY <1>1, AdminSame
  <1>2. ASSUME UNCHANGED <<users, listed, appointed, handlers>> PROVE AdminInv'
    BY <1>2 DEF AdminInv, UsersOK, AdminsAreEntitled, Is
  <1> USE DEF Open, Turns, Ends, accessTables, rightsHistories
  <1>3. NoRequest.op # "admin"
    BY DEF NoRequest
  <1>4. ASSUME NEW h \in Handlers, NEW a \in Subjects, NEW c \in CalendarIds,
               NEW e \in Emails, NEW p \in Privileges, OpenShare(h, a, c, e, p)
        PROVE  AdminInv'
    <2> DEFINE r == [op |-> "find", owner |-> a, calendar |-> c, email |-> e, privilege |-> p]
    <2>1. handlers' = [handlers EXCEPT ![h] = r] /\ UNCHANGED <<users, listed, appointed>>
      BY <1>4 DEF OpenShare
    <2>2. r.op # "admin"
      OBVIOUS
    <2> HIDE DEF r
    <2> QED BY <1>1, <2>1, <2>2
  <1>5. ASSUME NEW h \in Handlers, NEW a \in Subjects, NEW c \in CalendarIds,
               NEW op \in {"unshare", "delete"}, NEW b \in Subjects, OpenOther(h, a, c, op, b)
        PROVE  AdminInv'
    <2> DEFINE r == [op |-> op, calendar |-> c, account |-> b]
    <2>1. handlers' = [handlers EXCEPT ![h] = r] /\ UNCHANGED <<users, listed, appointed>>
      BY <1>5 DEF OpenOther
    <2>2. r.op # "admin"
      OBVIOUS
    <2> HIDE DEF r
    <2> QED BY <1>1, <2>1, <2>2
  <1>6. ASSUME NEW h \in Handlers, NEW e \in Emails, NEW i \in PasswordIds, Authenticate(h, e, i)
        PROVE  AdminInv'
    <2>1. PICK a \in WithEmail(e) :
            handlers' = [handlers EXCEPT ![h] = [op |-> "match", account |-> a, password |-> i]]
      BY <1>6 DEF Authenticate
    <2> DEFINE r == [op |-> "match", account |-> a, password |-> i]
    <2>2. handlers' = [handlers EXCEPT ![h] = r] /\ UNCHANGED <<users, listed, appointed>>
      BY <1>6, <2>1 DEF Authenticate
    <2>3. r.op # "admin"
      OBVIOUS
    <2> HIDE DEF r
    <2> QED BY <1>1, <2>2, <2>3
  <1>7. ASSUME NEW h \in Handlers, FindGrantee(h) PROVE AdminInv'
    <2>1. UNCHANGED <<users, listed, appointed>>
      BY <1>7 DEF FindGrantee
    <2>2. CASE handlers' = [handlers EXCEPT ![h] = NoRequest]
      BY <1>1, <1>3, <2>1, <2>2
    <2>3. CASE handlers' # [handlers EXCEPT ![h] = NoRequest]
      <3>1. PICK b : handlers' = [handlers EXCEPT ![h] =
                       [op |-> "grant", calendar |-> handlers[h].calendar, account |-> b,
                        privilege |-> handlers[h].privilege]]
        BY <1>7, <2>3 DEF FindGrantee
      <3> DEFINE r == [op |-> "grant", calendar |-> handlers[h].calendar, account |-> b,
                       privilege |-> handlers[h].privilege]
      <3>2. r.op # "admin" /\ handlers' = [handlers EXCEPT ![h] = r]
        BY <3>1
      <3> HIDE DEF r
      <3> QED BY <1>1, <2>1, <3>2
    <2> QED BY <2>2, <2>3
  <1>8. ASSUME NEW h \in Handlers,
               GrantCalendarAccess(h) \/ RevokeCalendarAccess(h) \/ DeleteCalendar(h) \/ Serve(h)
        PROVE  AdminInv'
    <2>1. UNCHANGED <<users, listed, appointed>> /\ handlers' = [handlers EXCEPT ![h] = NoRequest]
      BY <1>8 DEF GrantCalendarAccess, RevokeCalendarAccess, DeleteCalendar, Serve
    <2> QED BY <1>1, <1>3, <2>1
  <1>9. ASSUME NEW h \in Handlers, MatchAppPassword(h) \/ Level(h) \/ Privilege(h)
        PROVE  AdminInv'
    <2>1. UNCHANGED <<users, listed, appointed>>
      BY <1>9 DEF MatchAppPassword, Level, Privilege
    <2>2. CASE handlers' = [handlers EXCEPT ![h] = NoRequest]
      BY <1>1, <1>3, <2>1, <2>2
    <2>3. CASE handlers' # [handlers EXCEPT ![h] = NoRequest]
      <3>1. PICK op, c :
              op \in {"level", "write", "privilege", "read"}
              /\ handlers' = [handlers EXCEPT ![h] =
                [op |-> op, account |-> handlers[h].account, password |-> handlers[h].password,
                 calendar |-> c]]
        BY <1>9, <2>3 DEF MatchAppPassword, Level, Privilege, WithOp
      <3> DEFINE r == [op |-> op, account |-> handlers[h].account,
                       password |-> handlers[h].password, calendar |-> c]
      <3>2. r.op # "admin" /\ handlers' = [handlers EXCEPT ![h] = r]
        BY <3>1
      <3> HIDE DEF r
      <3> QED BY <1>1, <2>1, <3>2
    <2> QED BY <2>2, <2>3
  <1>10. ASSUME NEW a \in Subjects, NEW i \in PasswordIds, CreateDevice(a, i) \/ RevokeDevice(a, i)
         PROVE  AdminInv'
    BY <1>2, <1>10 DEF CreateDevice, RevokeDevice
  <1>11. ASSUME NEW a \in Subjects, NEW c \in CalendarIds, CreateCalendar(a, c) PROVE AdminInv'
    BY <1>2, <1>11 DEF CreateCalendar
  <1>12. CASE UNCHANGED accessVars
    BY <1>2, <1>12 DEF accessVars
  <1> QED BY <1>4, <1>5, <1>6, <1>7, <1>8, <1>9, <1>10, <1>11, <1>12,
             AdminLogin, AdminPromote, AdminByCommand DEF AccessNext

----------------------------------------------------------------------------
(* Grants and CalDAV requests.                                              *)

HasPassword(r) == r.password \in DOMAIN passwords /\ passwords[r.password].account = r.account

(* The calendar a request to share is about is still the one it looked at,   *)
(* or has been deleted meanwhile.                                           *)
HandlerOK(r) ==
    \/ r.op \in {"none", "admin", "unshare", "delete"}
    \/ /\ r.op = "find" /\ r.privilege \in Privileges
       /\ r.calendar \in overtaken
            \/ (r.calendar \in DOMAIN calendars /\ calendars[r.calendar] = r.owner)
    \/ /\ r.op = "grant" /\ r.account \in DOMAIN users /\ r.privilege \in Privileges
       /\ r.calendar \in overtaken
            \/ (r.calendar \in DOMAIN calendars /\ Shared(r.calendar, r.account, r.privilege))
    \/ r.op = "match" /\ r.account \in DOMAIN users
    \/ r.op \in {"level", "privilege", "read"} /\ HasPassword(r)
    \/ r.op = "write" /\ HasPassword(r) /\ MayWrite(r.account, r.calendar)

OwnersShare == \A c \in DOMAIN calendars : <<calendars[c], c, calendars[c], "owner">> \in shares

RightsInv ==
    /\ AccessTypeOK
    /\ OwnersShare
    /\ GrantsAreOwners
    /\ \A h \in Handlers : HandlerOK(handlers[h])

(* What requests rest on only grows, except for calendars that go.          *)
Keeps ==
    /\ DOMAIN users \subseteq DOMAIN users'
    /\ \A i \in DOMAIN passwords :
         i \in DOMAIN passwords' /\ passwords'[i].account = passwords[i].account
    /\ shares \subseteq shares' /\ overtaken \subseteq overtaken'

KeepsCalendar(c) == c \in overtaken' \/ (c \in DOMAIN calendars' /\ calendars'[c] = calendars[c])

LEMMA HandlerKept ==
    ASSUME Keeps, NEW r, HandlerOK(r),
           r.op \in {"find", "grant"} /\ r.calendar \in DOMAIN calendars => KeepsCalendar(r.calendar)
    PROVE  HandlerOK(r)'
  <1>1. ASSUME HasPassword(r) PROVE HasPassword(r)'
    BY <1>1 DEF Keeps, HasPassword
  <1>2. ASSUME MayWrite(r.account, r.calendar) PROVE MayWrite(r.account, r.calendar)'
    BY <1>2 DEF Keeps, MayWrite
  <1>3. CASE r.op = "find"
    BY <1>3 DEF HandlerOK, Keeps, KeepsCalendar
  <1>4. CASE r.op = "grant"
    BY <1>4 DEF HandlerOK, Keeps, KeepsCalendar, Shared
  <1>5. CASE r.op \notin {"find", "grant"}
    BY <1>1, <1>2, <1>5 DEF HandlerOK, Keeps
  <1> QED BY <1>3, <1>4, <1>5

(* One request goes on and calendars stay.                                  *)
LEMMA HandlersKept ==
    ASSUME RightsInv, Keeps,
           \A x \in Handlers : handlers[x].op \in {"find", "grant"}
              /\ handlers[x].calendar \in DOMAIN calendars => KeepsCalendar(handlers[x].calendar),
           NEW h, NEW q, HandlerOK(q)',
           handlers' = handlers \/ handlers' = [handlers EXCEPT ![h] = q]
    PROVE  DOMAIN handlers' = Handlers /\ (\A x \in Handlers : HandlerOK(handlers[x]))'
  <1>1. DOMAIN handlers' = Handlers
        /\ \A x \in Handlers : handlers'[x] = handlers[x] \/ handlers'[x] = q
    BY DEF RightsInv, AccessTypeOK
  <1>2. ASSUME NEW x \in Handlers PROVE HandlerOK(handlers[x])'
    <2>1. CASE handlers'[x] = q
      BY <2>1 DEF HandlerOK, HasPassword
    <2>2. CASE handlers'[x] = handlers[x]
      <3>1. PICK r : r = handlers[x]
        OBVIOUS
      <3>2. HandlerOK(r)
        BY <3>1 DEF RightsInv
      <3>3. HandlerOK(r)'
        BY <3>1, <3>2, HandlerKept
      <3> QED BY <2>2, <3>1, <3>3 DEF HandlerOK, HasPassword
    <2> QED BY <1>1, <2>1, <2>2
  <1> QED BY <1>1, <1>2

(* A step of a request that writes no table.                                *)
LEMMA RightsSame ==
    ASSUME RightsInv, UNCHANGED <<accessTables, listed, appointed, overtaken>>,
           shares \subseteq shares', NEW h \in Handlers, NEW q, HandlerOK(q)',
           handlers' = handlers \/ handlers' = [handlers EXCEPT ![h] = q]
    PROVE  RightsInv'
  <1>1. Keeps /\ \A c \in DOMAIN calendars : KeepsCalendar(c)
    BY DEF Keeps, KeepsCalendar, accessTables
  <1>2. DOMAIN handlers' = Handlers /\ (\A x \in Handlers : HandlerOK(handlers[x]))'
    BY <1>1, HandlersKept
  <1>3. AccessTypeOK'
    BY <1>2 DEF RightsInv, AccessTypeOK, accessTables
  <1>4. OwnersShare' /\ GrantsAreOwners'
    BY DEF RightsInv, OwnersShare, GrantsAreOwners, Shared, accessTables
  <1> QED BY <1>2, <1>3, <1>4 DEF RightsInv

(* The steps of requests that write no table.                               *)
LEMMA RightsReads ==
    ASSUME RightsInv, NEW h \in Handlers,
           \/ \E a \in Subjects, c \in CalendarIds, e \in Emails, p \in Privileges :
                OpenShare(h, a, c, e, p)
           \/ \E a \in Subjects, c \in CalendarIds, op \in {"unshare", "delete"}, b \in Subjects :
                OpenOther(h, a, c, op, b)
           \/ \E e \in Emails, i \in PasswordIds : Authenticate(h, e, i)
           \/ FindGrantee(h) \/ MatchAppPassword(h) \/ Level(h) \/ Privilege(h) \/ Serve(h)
    PROVE  RightsInv'
  <1> USE DEF Open, Turns, Ends, rightsHistories
  <1>1. HandlerOK(NoRequest)'
    BY DEF HandlerOK, NoRequest
  <1>2. HandlerOK(handlers[h])
    BY DEF RightsInv
  <1>3. ASSUME NEW a \in Subjects, NEW c \in CalendarIds, NEW e \in Emails, NEW p \in Privileges,
               OpenShare(h, a, c, e, p)
        PROVE  RightsInv'
    <2> DEFINE r == [op |-> "find", owner |-> a, calendar |-> c, email |-> e, privilege |-> p]
    <2>1. handlers' = [handlers EXCEPT ![h] = r] /\ UNCHANGED <<accessTables, listed, appointed, shares, overtaken>>
          /\ c \in DOMAIN calendars /\ calendars[c] = a
      BY <1>3 DEF OpenShare, Owns
    <2>2. HandlerOK(r)'
      BY <2>1 DEF HandlerOK, accessTables
    <2> HIDE DEF r
    <2> QED BY <2>1, <2>2, RightsSame
  <1>4. ASSUME NEW a \in Subjects, NEW c \in CalendarIds, NEW op \in {"unshare", "delete"},
               NEW b \in Subjects, OpenOther(h, a, c, op, b)
        PROVE  RightsInv'
    <2> DEFINE r == [op |-> op, calendar |-> c, account |-> b]
    <2>1. handlers' = [handlers EXCEPT ![h] = r] /\ UNCHANGED <<accessTables, listed, appointed, shares, overtaken>>
      BY <1>4 DEF OpenOther
    <2>2. HandlerOK(r)'
      BY DEF HandlerOK
    <2> HIDE DEF r
    <2> QED BY <2>1, <2>2, RightsSame
  <1>5. ASSUME NEW e \in Emails, NEW i \in PasswordIds, Authenticate(h, e, i)
        PROVE  RightsInv'
    <2>1. PICK a \in WithEmail(e) :
            handlers' = [handlers EXCEPT ![h] = [op |-> "match", account |-> a, password |-> i]]
      BY <1>5 DEF Authenticate
    <2> DEFINE r == [op |-> "match", account |-> a, password |-> i]
    <2>2. handlers' = [handlers EXCEPT ![h] = r] /\ UNCHANGED <<accessTables, listed, appointed, shares, overtaken>>
      BY <1>5, <2>1 DEF Authenticate
    <2>3. HandlerOK(r)'
      BY <2>2 DEF HandlerOK, WithEmail, accessTables
    <2> HIDE DEF r
    <2> QED BY <2>2, <2>3, RightsSame
  <1>6. ASSUME FindGrantee(h) PROVE RightsInv'
    <2>1. UNCHANGED <<accessTables, listed, appointed, overtaken>> /\ handlers[h].op = "find"
          /\ shares \subseteq shares'
      BY <1>6 DEF FindGrantee, Is
    <2>2. CASE WithEmail(handlers[h].email) = {} /\ Ends(h)
      BY <1>1, <2>1, <2>2, RightsSame
    <2>3. ASSUME NEW b \in WithEmail(handlers[h].email),
                 handlers' = [handlers EXCEPT ![h] =
                   [op |-> "grant", calendar |-> handlers[h].calendar, account |-> b,
                    privilege |-> handlers[h].privilege]],
                 shares' = shares \cup {<<handlers[h].owner, handlers[h].calendar, b,
                                         handlers[h].privilege>>}
          PROVE  RightsInv'
      <3>1. PICK r : r = [op |-> "grant", calendar |-> handlers[h].calendar, account |-> b, privilege |-> handlers[h].privilege]
        OBVIOUS
      <3>2. HandlerOK(r)'
        BY <1>2, <2>1, <2>3, <3>1 DEF HandlerOK, WithEmail, Shared, accessTables
      <3>3. handlers' = [handlers EXCEPT ![h] = r]
        BY <2>3, <3>1
      <3> QED BY <2>1, <3>2, <3>3, RightsSame
    <2> QED BY <1>6, <2>2, <2>3 DEF FindGrantee
  <1>7. ASSUME MatchAppPassword(h) PROVE RightsInv'
    <2>1. UNCHANGED <<accessTables, listed, appointed, shares, overtaken>>
      BY <1>7 DEF MatchAppPassword
    <2>2. CASE Ends(h)
      BY <1>1, <2>1, <2>2, RightsSame
    <2>3. ASSUME NEW c, handlers[h].password \in DOMAIN passwords,
                 passwords[handlers[h].password] = [account |-> handlers[h].account, revoked |-> FALSE],
                 handlers' = [handlers EXCEPT ![h] =
                   [op |-> "level", account |-> handlers[h].account,
                    password |-> handlers[h].password, calendar |-> c]]
          PROVE  RightsInv'
      <3>1. PICK r : r = [op |-> "level", account |-> handlers[h].account, password |-> handlers[h].password, calendar |-> c]
        OBVIOUS
      <3>2. HandlerOK(r)'
        BY <2>1, <2>3, <3>1 DEF HandlerOK, HasPassword, accessTables
      <3>3. handlers' = [handlers EXCEPT ![h] = r]
        BY <2>3, <3>1
      <3> QED BY <2>1, <3>2, <3>3, RightsSame
    <2> QED BY <1>7, <2>2, <2>3 DEF MatchAppPassword
  <1>8. ASSUME NEW op \in {"write", "privilege", "read"},
               handlers' = [handlers EXCEPT ![h] = WithOp(handlers[h], op)],
               UNCHANGED <<accessTables, listed, appointed, shares, overtaken>>,
               HasPassword(handlers[h]),
               op = "write" => MayWrite(handlers[h].account, handlers[h].calendar)
        PROVE  RightsInv'
    <2>1. HandlerOK(WithOp(handlers[h], op))
      BY <1>8 DEF HandlerOK, HasPassword, WithOp
    <2>2. PICK q : q = WithOp(handlers[h], op)
      OBVIOUS
    <2>3. HandlerOK(q)'
      BY <1>8, <2>1, <2>2 DEF HandlerOK, HasPassword, MayWrite, Shared, accessTables
    <2> QED BY <1>8, <2>2, <2>3, RightsSame
  <1>9. ASSUME Level(h) PROVE RightsInv'
    <2>1. UNCHANGED <<accessTables, listed, appointed, shares, overtaken>> /\ HasPassword(handlers[h])
      BY <1>2, <1>9 DEF Level, Is, HandlerOK
    <2>2. CASE Ends(h)
      BY <1>1, <2>1, <2>2, RightsSame
    <2>3. CASE handlers[h].calendar \in DOMAIN calendars
               /\ calendars[handlers[h].calendar] = handlers[h].account
      <3>1. CASE Ends(h)
        BY <2>2, <3>1
      <3>2. CASE handlers' = [handlers EXCEPT ![h] = WithOp(handlers[h], "write")]
        <4>1. MayWrite(handlers[h].account, handlers[h].calendar)
          BY <2>3 DEF RightsInv, OwnersShare, MayWrite
        <4> QED BY <1>8, <2>1, <3>2, <4>1
      <3> QED BY <1>9, <2>3, <3>1, <3>2 DEF Level
    <2>4. CASE handlers' = [handlers EXCEPT ![h] = WithOp(handlers[h], "privilege")]
      BY <1>8, <2>1, <2>4
    <2> QED BY <1>9, <2>2, <2>3, <2>4 DEF Level
  <1>10. ASSUME Privilege(h) PROVE RightsInv'
    <2> DEFINE key == <<handlers[h].calendar, handlers[h].account>>
    <2>1. UNCHANGED <<accessTables, listed, appointed, shares, overtaken>> /\ HasPassword(handlers[h])
      BY <1>2, <1>10 DEF Privilege, Is, HandlerOK
    <2>2. CASE Ends(h)
      BY <1>1, <2>1, <2>2, RightsSame
    <2>3. CASE key \in DOMAIN acl /\ acl[key] = "read-write"
               /\ handlers' = [handlers EXCEPT ![h] = WithOp(handlers[h], "write")]
      <3>1. Shared(handlers[h].calendar, handlers[h].account, "read-write")
        BY <2>3 DEF RightsInv, GrantsAreOwners
      <3>2. MayWrite(handlers[h].account, handlers[h].calendar)
        BY <3>1 DEF MayWrite, Shared
      <3> QED BY <1>8, <2>1, <2>3, <3>2
    <2>4. CASE handlers' = [handlers EXCEPT ![h] = WithOp(handlers[h], "read")]
      BY <1>8, <2>1, <2>4
    <2> QED BY <1>10, <2>2, <2>3, <2>4 DEF Privilege
  <1>11. ASSUME Serve(h) PROVE RightsInv'
    BY <1>1, <1>11, RightsSame DEF Serve
  <1> QED BY <1>3, <1>4, <1>5, <1>6, <1>7, <1>9, <1>10, <1>11

(* Changed rows of users: those of before stay, and keep their places.       *)
LEMMA RightsUsers ==
    ASSUME RightsInv, NEW h, NEW q, HandlerOK(q)',
           handlers' = handlers \/ handlers' = [handlers EXCEPT ![h] = q],
           UNCHANGED <<passwords, calendars, acl, shares, overtaken>>,
           DOMAIN users \subseteq DOMAIN users', DOMAIN users' \subseteq Subjects,
           \A a \in DOMAIN users' : users'[a] \in UserRow,
           \A a, b \in DOMAIN users' : users'[a].email = users'[b].email => a = b,
           listed' \cup appointed' \subseteq DOMAIN users'
    PROVE  RightsInv'
  <1>1. Keeps /\ \A c \in DOMAIN calendars : KeepsCalendar(c)
    BY DEF Keeps, KeepsCalendar
  <1>2. DOMAIN handlers' = Handlers /\ (\A x \in Handlers : HandlerOK(handlers[x]))'
    BY <1>1, HandlersKept
  <1>3. AccessTypeOK'
    <2>1. \A c \in DOMAIN calendars' : calendars'[c] \in DOMAIN users'
      BY DEF RightsInv, AccessTypeOK
    <2>2. \A k \in DOMAIN acl' :
            k \in (DOMAIN calendars') \X (DOMAIN users') /\ acl'[k] \in Privileges
      BY DEF RightsInv, AccessTypeOK
    <2> QED BY <1>2, <2>1, <2>2 DEF RightsInv, AccessTypeOK, UserRow
  <1>4. OwnersShare' /\ GrantsAreOwners'
    BY DEF RightsInv, OwnersShare, GrantsAreOwners, Shared
  <1> QED BY <1>2, <1>3, <1>4 DEF RightsInv

LEMMA RightsWritesUsers ==
    ASSUME RightsInv, AdminInv, AdminInv',
           \/ \E h \in Handlers, a \in Subjects, e \in Emails : UpsertUserOnLogin(h, a, e)
           \/ \E h \in Handlers : Promote(h)
           \/ \E e \in Emails, flag \in BOOLEAN : AdminCommand(e, flag)
    PROVE  RightsInv'
  <1>1. HandlerOK(NoRequest)'
    BY DEF HandlerOK, NoRequest
  <1>2. UsersOK' /\ UsersOK
    BY DEF AdminInv
  <1>3. ASSUME NEW h \in Handlers, NEW a \in Subjects, NEW e \in Emails, UpsertUserOnLogin(h, a, e)
        PROVE  RightsInv'
    <2> DEFINE row == [email |-> e, admin |-> Admin(a)]
    <2>1. /\ DOMAIN users' = DOMAIN users \cup {a} /\ users'[a].email = e
          /\ \A b \in DOMAIN users \ {a} : users'[b] = users[b]
      BY <1>3 DEF UpsertUserOnLogin, With
    <2>2. \A b \in DOMAIN users \ {a} : users[b].email # e
      BY <1>3 DEF UpsertUserOnLogin, WithEmail
    <2>3. \A b, c \in DOMAIN users' : users'[b].email = users'[c].email => b = c
      BY <2>1, <2>2 DEF RightsInv, AccessTypeOK
    <2>4. UNCHANGED <<passwords, calendars, acl, shares, overtaken>>
      BY <1>3 DEF UpsertUserOnLogin
    <2>5. ASSUME NEW r, HandlerOK(r)', handlers' = [handlers EXCEPT ![h] = r] PROVE RightsInv'
      BY <1>2, <2>1, <2>3, <2>4, <2>5, RightsUsers DEF UsersOK
    <2>6. CASE e \in AdminEmails /\ ~Admin(a)
      <3> DEFINE r == [op |-> "admin", email |-> e]
      <3>1. handlers' = [handlers EXCEPT ![h] = r] /\ HandlerOK(r)'
        BY <1>3, <2>6 DEF UpsertUserOnLogin, Open, HandlerOK
      <3> HIDE DEF r
      <3> QED BY <2>5, <3>1
    <2>7. CASE ~(e \in AdminEmails /\ ~Admin(a))
      <3>1. handlers' = [handlers EXCEPT ![h] = NoRequest]
        BY <1>3, <2>7 DEF UpsertUserOnLogin, Open
      <3> QED BY <1>1, <2>5, <3>1
    <2> QED BY <2>6, <2>7
  <1>4. ASSUME NEW e, NEW flag \in BOOLEAN, SetAdmin(e, flag),
               UNCHANGED <<passwords, calendars, acl, shares, overtaken>>,
               NEW h, handlers' = handlers \/ handlers' = [handlers EXCEPT ![h] = NoRequest]
        PROVE  RightsInv'
    <2>1. DOMAIN users' = DOMAIN users /\ \A a \in DOMAIN users : users'[a].email = users[a].email
      BY <1>2, <1>4, SetAdminIs
    <2>2. \A a, b \in DOMAIN users' : users'[a].email = users'[b].email => a = b
      BY <2>1 DEF RightsInv, AccessTypeOK
    <2> QED BY <1>1, <1>2, <1>4, <2>1, <2>2, RightsUsers DEF UsersOK
  <1>5. ASSUME NEW h \in Handlers, Promote(h) PROVE RightsInv'
    <2>1. PICK e : e = handlers[h].email
      OBVIOUS
    <2>2. SetAdmin(e, TRUE)
      BY <1>5, <2>1 DEF Promote, SetAdmin
    <2>3. UNCHANGED <<passwords, calendars, acl, shares, overtaken>>
          /\ handlers' = [handlers EXCEPT ![h] = NoRequest]
      BY <1>5 DEF Promote, rightsHistories, Ends, Turns
    <2> QED BY <1>4, <2>2, <2>3
  <1>6. ASSUME NEW e \in Emails, NEW flag \in BOOLEAN, AdminCommand(e, flag) PROVE RightsInv'
    <2>1. SetAdmin(e, flag) /\ UNCHANGED <<passwords, calendars, acl, shares, overtaken>>
          /\ UNCHANGED handlers
      BY <1>6 DEF AdminCommand
    <2> QED BY <1>4, <2>1
  <1> QED BY <1>3, <1>5, <1>6

(* Calendars stay, and so do requests.                                      *)
LEMMA HandlersSame ==
    ASSUME RightsInv, Keeps, \A c \in DOMAIN calendars : KeepsCalendar(c), UNCHANGED handlers
    PROVE  (\A x \in Handlers : HandlerOK(handlers[x]))'
  <1> SUFFICES ASSUME NEW x \in Handlers PROVE HandlerOK(handlers[x])'
    OBVIOUS
  <1>1. PICK r : r = handlers[x]
    OBVIOUS
  <1>2. HandlerOK(r)'
    BY <1>1, HandlerKept DEF RightsInv
  <1> QED BY <1>1, <1>2

(* Passwords made and revoked, calendars made.                              *)
LEMMA RightsWritesRows ==
    ASSUME RightsInv,
           \/ \E a \in Subjects, i \in PasswordIds : CreateDevice(a, i) \/ RevokeDevice(a, i)
           \/ \E a \in Subjects, c \in CalendarIds : CreateCalendar(a, c)
    PROVE  RightsInv'
  <1>1. ASSUME NEW a \in Subjects, NEW i \in PasswordIds, CreateDevice(a, i) \/ RevokeDevice(a, i)
        PROVE  RightsInv'
    <2>1. UNCHANGED <<users, calendars, acl, handlers, listed, appointed, shares, overtaken>>
      BY <1>1 DEF CreateDevice, RevokeDevice, rightsHistories
    <2>2. /\ DOMAIN passwords \subseteq DOMAIN passwords' /\ DOMAIN passwords' \subseteq PasswordIds
          /\ \A j \in DOMAIN passwords' : passwords'[j] \in [account : Subjects, revoked : BOOLEAN]
          /\ \A j \in DOMAIN passwords : passwords'[j].account = passwords[j].account
      <3>1. CASE CreateDevice(a, i)
        <4>1. i \notin DOMAIN passwords
          BY <3>1, NewIsNew, AccessAssumption DEF CreateDevice, CreateAppPassword, RightsInv, AccessTypeOK
        <4> QED BY <3>1, <4>1 DEF CreateDevice, CreateAppPassword, With, RightsInv, AccessTypeOK
      <3>2. CASE RevokeDevice(a, i)
        BY <3>2 DEF RevokeDevice, RevokeAppPassword, RightsInv, AccessTypeOK
      <3> QED BY <1>1, <3>1, <3>2
    <2>3. Keeps /\ \A c \in DOMAIN calendars : KeepsCalendar(c)
      BY <2>1, <2>2 DEF Keeps, KeepsCalendar
    <2>4. (\A x \in Handlers : HandlerOK(handlers[x]))'
      BY <2>1, <2>3, HandlersSame
    <2>5. AccessTypeOK'
      BY <2>1, <2>2 DEF RightsInv, AccessTypeOK
    <2>6. OwnersShare' /\ GrantsAreOwners'
      BY <2>1 DEF RightsInv, OwnersShare, GrantsAreOwners, Shared
    <2> QED BY <2>4, <2>5, <2>6 DEF RightsInv
  <1>2. ASSUME NEW a \in Subjects, NEW c \in CalendarIds, CreateCalendar(a, c) PROVE RightsInv'
    <2>1. UNCHANGED <<users, passwords, acl, handlers, listed, appointed, overtaken>>
          /\ shares' = shares \cup {<<a, c, a, "owner">>} /\ a \in DOMAIN users
      BY <1>2 DEF CreateCalendar
    <2>2. c \notin DOMAIN calendars
      BY <1>2, NewIsNew, AccessAssumption DEF CreateCalendar, RightsInv, AccessTypeOK
    <2>3. DOMAIN calendars' = DOMAIN calendars \cup {c} /\ calendars'[c] = a
          /\ \A d \in DOMAIN calendars : calendars'[d] = calendars[d]
      BY <1>2, <2>2 DEF CreateCalendar, With
    <2>4. Keeps /\ \A d \in DOMAIN calendars : KeepsCalendar(d)
      BY <2>1, <2>3 DEF Keeps, KeepsCalendar
    <2>5. (\A x \in Handlers : HandlerOK(handlers[x]))'
      BY <2>1, <2>4, HandlersSame
    <2>6. AccessTypeOK'
      <3>1. \A k \in DOMAIN acl' :
              k \in (DOMAIN calendars') \X (DOMAIN users') /\ acl'[k] \in Privileges
        BY <2>1, <2>3 DEF RightsInv, AccessTypeOK
      <3> QED BY <2>1, <2>3, <3>1 DEF RightsInv, AccessTypeOK
    <2>7. OwnersShare'
      BY <2>1, <2>3 DEF RightsInv, OwnersShare
    <2>8. GrantsAreOwners'
      <3> SUFFICES ASSUME NEW k \in DOMAIN acl PROVE Shared(k[1], k[2], acl[k])'
        BY <2>1 DEF GrantsAreOwners
      <3>1. k[1] \in DOMAIN calendars /\ Shared(k[1], k[2], acl[k])
        BY DEF RightsInv, AccessTypeOK, GrantsAreOwners
      <3> QED BY <2>1, <2>3, <3>1 DEF Shared
    <2> QED BY <2>5, <2>6, <2>7, <2>8 DEF RightsInv
  <1> QED BY <1>1, <1>2

(* Grants made and taken back, calendars deleted with their grants.          *)
LEMMA RightsWritesGrants ==
    ASSUME RightsInv, NEW h \in Handlers,
           GrantCalendarAccess(h) \/ RevokeCalendarAccess(h) \/ DeleteCalendar(h)
    PROVE  RightsInv'
  <1>1. HandlerOK(NoRequest)'
    BY DEF HandlerOK, NoRequest
  <1>2. HandlerOK(handlers[h])
    BY DEF RightsInv
  <1>3. /\ UNCHANGED <<users, passwords, listed, appointed, shares>>
        /\ handlers' = [handlers EXCEPT ![h] = NoRequest]
    BY DEF GrantCalendarAccess, RevokeCalendarAccess, DeleteCalendar, rightsHistories, Ends, Turns
  <1>4. CASE GrantCalendarAccess(h)
    <2> DEFINE c == handlers[h].calendar
               a == handlers[h].account
               p == handlers[h].privilege
    <2>1. UNCHANGED <<calendars, overtaken>> /\ handlers[h].op = "grant"
          /\ acl' = IF c \in DOMAIN calendars THEN With(acl, <<c, a>>, p) ELSE acl
      BY <1>4 DEF GrantCalendarAccess, rightsHistories, Is
    <2>2. a \in DOMAIN users /\ p \in Privileges
          /\ (c \in DOMAIN calendars => Shared(c, a, p))
      BY <1>2, <2>1 DEF HandlerOK, Shared
    <2> HIDE DEF c, a, p
    <2>3. /\ \A k \in DOMAIN acl' : k \in DOMAIN acl \/ (k = <<c, a>> /\ c \in DOMAIN calendars)
          /\ \A k \in DOMAIN acl' :
               (k \in DOMAIN acl /\ acl'[k] = acl[k]) \/ (k = <<c, a>> /\ acl'[k] = p)
      BY <2>1 DEF With
    <2>4. Keeps /\ \A d \in DOMAIN calendars : KeepsCalendar(d)
      BY <1>3, <2>1 DEF Keeps, KeepsCalendar
    <2>5. DOMAIN handlers' = Handlers /\ (\A x \in Handlers : HandlerOK(handlers[x]))'
      BY <1>1, <1>3, <2>4, HandlersKept
    <2>6. AccessTypeOK'
      <3>1. \A k \in DOMAIN acl' :
              k \in (DOMAIN calendars') \X (DOMAIN users') /\ acl'[k] \in Privileges
        BY <1>3, <2>1, <2>2, <2>3 DEF RightsInv, AccessTypeOK
      <3> QED BY <1>3, <2>1, <2>5, <3>1 DEF RightsInv, AccessTypeOK
    <2>7. GrantsAreOwners'
      <3> SUFFICES ASSUME NEW k \in DOMAIN acl' PROVE Shared(k[1], k[2], acl'[k])
        BY <1>3, <2>1 DEF GrantsAreOwners, Shared
      <3>1. CASE k \in DOMAIN acl /\ acl'[k] = acl[k]
        BY <3>1 DEF RightsInv, GrantsAreOwners
      <3>2. CASE k \notin DOMAIN acl \/ acl'[k] # acl[k]
        <4>1. k = <<c, a>> /\ acl'[k] = p
          BY <2>3, <3>2
        <4>2. c \in DOMAIN calendars
          BY <2>1, <3>2
        <4>3. k[1] = c /\ k[2] = a
          BY <4>1
        <4> QED BY <2>2, <4>1, <4>2, <4>3
      <3> QED BY <3>1, <3>2
    <2>8. OwnersShare'
      BY <1>3, <2>1 DEF RightsInv, OwnersShare
    <2> QED BY <2>5, <2>6, <2>7, <2>8 DEF RightsInv
  <1>5. CASE RevokeCalendarAccess(h)
    <2>1. UNCHANGED <<calendars, overtaken>> /\ DOMAIN acl' \subseteq DOMAIN acl
          /\ \A k \in DOMAIN acl' : acl'[k] = acl[k]
      BY <1>5 DEF RevokeCalendarAccess, rightsHistories, Drop
    <2>2. Keeps /\ \A d \in DOMAIN calendars : KeepsCalendar(d)
      BY <1>3, <2>1 DEF Keeps, KeepsCalendar
    <2>3. DOMAIN handlers' = Handlers /\ (\A x \in Handlers : HandlerOK(handlers[x]))'
      BY <1>1, <1>3, <2>2, HandlersKept
    <2>4. AccessTypeOK'
      BY <1>3, <2>1, <2>3 DEF RightsInv, AccessTypeOK
    <2>5. OwnersShare' /\ GrantsAreOwners'
      BY <1>3, <2>1 DEF RightsInv, OwnersShare, GrantsAreOwners, Shared
    <2> QED BY <2>3, <2>4, <2>5 DEF RightsInv
  <1>6. CASE DeleteCalendar(h)
    <2> DEFINE c == handlers[h].calendar
    <2>1. /\ DOMAIN calendars' = DOMAIN calendars \ {c}
          /\ \A d \in DOMAIN calendars' : calendars'[d] = calendars[d]
          /\ \A k \in DOMAIN acl' : k \in DOMAIN acl /\ k[1] # c /\ acl'[k] = acl[k]
          /\ overtaken \subseteq overtaken'
          /\ \A x \in Handlers :
               handlers[x].op \in {"find", "grant"} /\ handlers[x].calendar = c => c \in overtaken'
      BY <1>6 DEF DeleteCalendar, Drop
    <2> HIDE DEF c
    <2>2. Keeps
      BY <1>3, <2>1 DEF Keeps
    <2>3. \A x \in Handlers : handlers[x].op \in {"find", "grant"}
             /\ handlers[x].calendar \in DOMAIN calendars => KeepsCalendar(handlers[x].calendar)
      BY <2>1 DEF KeepsCalendar
    <2>4. DOMAIN handlers' = Handlers /\ (\A x \in Handlers : HandlerOK(handlers[x]))'
      BY <1>1, <1>3, <2>2, <2>3, HandlersKept
    <2>5. \A k \in DOMAIN acl' : k[1] \in DOMAIN calendars'
      BY <2>1 DEF RightsInv, AccessTypeOK
    <2>6. AccessTypeOK'
      <3>1. \A k \in DOMAIN acl' :
              k \in (DOMAIN calendars') \X (DOMAIN users') /\ acl'[k] \in Privileges
        BY <1>3, <2>1, <2>5 DEF RightsInv, AccessTypeOK
      <3> QED BY <1>3, <2>1, <2>4, <3>1 DEF RightsInv, AccessTypeOK
    <2>7. OwnersShare'
      BY <1>3, <2>1 DEF RightsInv, OwnersShare
    <2>8. GrantsAreOwners'
      BY <1>3, <2>1, <2>5 DEF RightsInv, GrantsAreOwners, Shared
    <2> QED BY <2>4, <2>6, <2>7, <2>8 DEF RightsInv
  <1> QED BY <1>4, <1>5, <1>6

LEMMA RightsStep == RightsInv /\ AdminInv /\ [AccessNext]_accessVars => RightsInv'
  <1> SUFFICES ASSUME RightsInv, AdminInv, [AccessNext]_accessVars PROVE RightsInv'
    OBVIOUS
  <1>1. AdminInv'
    BY AdminStep
  <1>2. CASE UNCHANGED accessVars
    <2>1. AccessTypeOK'
      BY <1>2 DEF accessVars, RightsInv, AccessTypeOK
    <2>2. OwnersShare' /\ GrantsAreOwners'
      BY <1>2 DEF accessVars, RightsInv, OwnersShare, GrantsAreOwners, Shared
    <2>3. (\A x \in Handlers : HandlerOK(handlers[x]))'
      BY <1>2 DEF accessVars, RightsInv, HandlerOK, HasPassword, MayWrite, Shared
    <2> QED BY <2>1, <2>2, <2>3 DEF RightsInv
  <1>3. ASSUME AccessNext PROVE RightsInv'
    BY <1>1, <1>3, RightsReads, RightsWritesUsers, RightsWritesRows, RightsWritesGrants DEF AccessNext
  <1> QED BY <1>2, <1>3

LEMMA AccessStarts == AccessInit => AdminInv /\ RightsInv
  <1> SUFFICES ASSUME AccessInit PROVE AdminInv /\ RightsInv
    OBVIOUS
  <1>1. AdminInv
    BY DEF AccessInit, AdminInv, UsersOK, Is, NoRequest, AdminsAreEntitled
  <1>2. AccessTypeOK
    BY DEF AccessInit, AccessTypeOK
  <1>3. OwnersShare /\ GrantsAreOwners /\ \A h \in Handlers : HandlerOK(handlers[h])
    BY DEF AccessInit, OwnersShare, GrantsAreOwners, HandlerOK, NoRequest
  <1> QED BY <1>1, <1>2, <1>3 DEF RightsInv

(* Rows and foreign keys keep their shape: grants are for calendars and      *)
(* users there are, and no two users have one address.                      *)
THEOREM AccessTypeCorrect == AccessSpec => []AccessTypeOK
  <1>1. RightsInv => AccessTypeOK
    BY DEF RightsInv
  <1> QED BY <1>1, AccessStarts, AdminStep, RightsStep, PTL DEF AccessSpec

(* However addresses and ids change hands between the steps of logins,       *)
(* shares, deletions and requests, every right has its giver.               *)
THEOREM RightsAreGiven == AccessSpec => []RightsHaveGivers
  <1>1. AdminInv /\ RightsInv => RightsHaveGivers
    <2> SUFFICES ASSUME AdminInv, RightsInv PROVE RightsHaveGivers
      OBVIOUS
    <2>1. AdminsAreEntitled /\ GrantsAreOwners
      BY DEF AdminInv, RightsInv
    <2>2. RequestsMayAct
      BY DEF RightsInv, RequestsMayAct, HandlerOK, HasPassword
    <2> QED BY <2>1, <2>2 DEF RightsHaveGivers
  <1> QED BY <1>1, AccessStarts, AdminStep, RightsStep, PTL DEF AccessSpec

----------------------------------------------------------------------------
(* Signing in: types and keys.                                              *)

(* A request in progress is served by a process that runs, and a login that  *)
(* has got so far is one of a user's.                                       *)
Served(r) ==
    r # None =>
      /\ r.process \in Processes /\ Up(r.process)
      /\ r.op = "login" /\ r.phase = "session" => r.account \in Accounts

(* Without overlapping starts there is one key: the stored one is that of    *)
(* all that run and of all cookies; whoever is about to store one is alone.  *)
OneKey ==
    /\ storedKey = NoKey => cookies = {} /\ \A p \in Processes : ~Up(p)
    /\ \A p \in Processes : Up(p) => processes[p].key = storedKey
    /\ \A c \in cookies : c.key = storedKey
    /\ \A p, q \in Processes : Starting(p) /\ Starting(q) => p = q
    /\ \A p \in Processes : processes[p].phase = "save" => storedKey = NoKey

KeyInv ==
    /\ SignInTypeOK
    /\ \A p \in Processes : processes[p].phase = "save" => processes[p].key \in Keys
    /\ \A r \in Requests : Served(requests[r])
    /\ ~disrupted => OneKey

(* Steps that leave processes and keys alone.                               *)
LEMMA KeysSame ==
    ASSUME KeyInv, SignInTypeOK', UNCHANGED <<processes, keyVars>>,
           NEW r, NEW q, Served(q),
           requests' = requests \/ requests' = [requests EXCEPT ![r] = q],
           \A c \in cookies' : c \in cookies \/ (\E p \in Processes : Up(p) /\ c.key = processes[p].key)
    PROVE  KeyInv'
  <1>1. \A x \in Requests : requests'[x] = requests[x] \/ requests'[x] = q
    BY DEF KeyInv, SignInTypeOK
  <1>2. (\A x \in Requests : Served(requests[x]))'
    BY <1>1 DEF KeyInv, Served, Up
  <1>3. (~disrupted => OneKey)'
    BY DEF KeyInv, OneKey, Up, Starting, keyVars
  <1> QED BY <1>2, <1>3 DEF KeyInv

LEMMA TypesOfSignIn == KeyInv /\ [SignInNext]_signInVars => SignInTypeOK'
  <1> SUFFICES ASSUME KeyInv, [SignInNext]_signInVars PROVE SignInTypeOK'
    OBVIOUS
  <1> USE SignInAssumption, DrawnValues
  <1>0. SignInTypeOK
    BY DEF KeyInv
  <1>1. ASSUME NEW p \in Processes,
               \/ \E k \in Overrides : StartConfigured(p, k)
               \/ Start(p) \/ ReadKey(p) \/ SaveKey(p) \/ Stop(p)
        PROVE  SignInTypeOK'
    <2>1. UNCHANGED <<flows, sessions, cookies, begunFlows, logins, verified>> /\ DOMAIN requests' = Requests
      BY <1>0, <1>1 DEF SignInTypeOK, StartConfigured, Start, ReadKey, SaveKey, Stop, signInHistories
    <2> DEFINE Rows == [phase : {"down", "read", "save", "up"}, key : Keys \cup Overrides \cup {NoKey}]
    <2>2. ASSUME processes' \in [Processes -> Rows],
                 storedKey' \in Keys \cup Overrides \cup {NoKey},
                 drawnKeys' \subseteq Keys, disrupted' \in BOOLEAN, starts' \in Nat
          PROVE  SignInTypeOK'
      BY <1>0, <2>1, <2>2 DEF SignInTypeOK
    <2>3. processes \in [Processes -> Rows] /\ starts \in Nat /\ drawnKeys \subseteq Keys
          /\ storedKey \in Keys \cup Overrides \cup {NoKey} /\ disrupted \in BOOLEAN
      BY <1>0 DEF SignInTypeOK
    <2>4. ASSUME NEW k \in Overrides, StartConfigured(p, k) PROVE SignInTypeOK'
      <3>1. disrupted' \in BOOLEAN
        BY <2>4, Zenon DEF StartConfigured
      <3>2. processes' = [processes EXCEPT ![p] = [phase |-> "up", key |-> k]]
            /\ storedKey' = k /\ starts' = starts + 1 /\ drawnKeys' = drawnKeys
        BY <2>4 DEF StartConfigured
      <3>3. processes' \in [Processes -> Rows]
        BY <2>3, <3>2
      <3> QED BY <2>2, <2>3, <3>1, <3>2, <3>3
    <2>5. CASE Start(p)
      <3>1. disrupted' \in BOOLEAN
        BY <2>5, Zenon DEF Start
      <3>2. processes' = [processes EXCEPT ![p].phase = "read"]
            /\ storedKey' = storedKey /\ starts' = starts + 1 /\ drawnKeys' = drawnKeys
        BY <2>5 DEF Start
      <3>3. processes' \in [Processes -> Rows]
        BY <2>3, <3>2
      <3> QED BY <2>2, <2>3, <3>1, <3>2, <3>3
    <2>6. CASE ReadKey(p)
      <3>1. processes' \in [Processes -> Rows]
        BY <2>3, <2>6 DEF ReadKey
      <3> QED BY <2>2, <2>3, <2>6, <3>1 DEF ReadKey
    <2>7. CASE SaveKey(p)
      <3>1. processes' \in [Processes -> Rows]
        BY <2>3, <2>7 DEF SaveKey
      <3> QED BY <2>2, <2>3, <2>7, <3>1 DEF SaveKey
    <2>8. CASE Stop(p)
      <3>1. processes' \in [Processes -> Rows]
        BY <2>3, <2>8 DEF Stop, Down
      <3> QED BY <2>2, <2>3, <2>8, <3>1 DEF Stop, keyVars
    <2> QED BY <1>1, <2>4, <2>5, <2>6, <2>7, <2>8
  <1>2. ASSUME NEW p \in Processes, NEW c \in cookies, Logout(p, c) PROVE SignInTypeOK'
    BY <1>0, <1>2 DEF SignInTypeOK, Logout, DeleteSession, Minus, signInHistories, keyVars
  <1>3. ASSUME NEW p \in Processes, NEW r \in Requests, NEW f \in Flows, TakeFlow(r, p, f)
        PROVE  SignInTypeOK'
    BY <1>0, <1>3 DEF SignInTypeOK, TakeFlow, Begins, Minus, signInHistories, keyVars
  <1>4. ASSUME NEW p \in Processes, NEW r \in Requests,
               DevLogin(r, p) \/ \E c \in cookies : Lookup(r, p, c)
        PROVE  SignInTypeOK'
    BY <1>0, <1>4 DEF SignInTypeOK, DevLogin, Lookup, Begins, signInHistories, keyVars
  <1>5. ASSUME NEW f \in Flows, LoginStart(f) \/ FlowExpires(f) PROVE SignInTypeOK'
    BY <1>0, <1>5 DEF SignInTypeOK, LoginStart, FlowExpires, Row, signInHistories, keyVars
  <1>6. ASSUME NEW r \in Requests, (\E a \in Accounts : Exchange(r, a)) \/ ExchangeFails(r)
        PROVE  SignInTypeOK'
    BY <1>0, <1>6 DEF SignInTypeOK, Exchange, ExchangeFails, Becomes, signInHistories, keyVars
  <1>7. ASSUME NEW r \in Requests, Touch(r) \/ DeleteExpired(r) PROVE SignInTypeOK'
    <2>1. CASE Touch(r)
      <3>1. ASSUME NEW i \in DOMAIN sessions
            PROVE  [sessions[i] EXCEPT !.live = @ \/ i = requests[r].id] \in [account : Accounts, live : BOOLEAN]
        <4>1. PICK b \in BOOLEAN : b = (sessions[i].live \/ i = requests[r].id)
          BY Zenon
        <4>2. sessions[i] \in [account : Accounts, live : BOOLEAN]
          BY <1>0 DEF SignInTypeOK
        <4>3. [sessions[i] EXCEPT !.live = b] \in [account : Accounts, live : BOOLEAN]
          BY <4>2
        <4> QED BY <4>1, <4>3, Zenon
      <3>2. sessions' = [i \in DOMAIN sessions |-> [sessions[i] EXCEPT !.live = @ \/ i = requests[r].id]]
        BY <2>1 DEF Touch
      <3>3. \A i \in DOMAIN sessions' : sessions'[i] \in [account : Accounts, live : BOOLEAN]
        BY <3>1, <3>2, Zenon
      <3> QED BY <1>0, <2>1, <3>3 DEF SignInTypeOK, Touch, Becomes, signInHistories, keyVars
    <2>2. CASE DeleteExpired(r)
      BY <1>0, <2>2 DEF SignInTypeOK, DeleteExpired, DeleteSession, Minus, Becomes,
                        signInHistories, keyVars
    <2> QED BY <1>7, <2>1, <2>2
  <1>8. ASSUME NEW i \in SessionIds, SessionExpires(i) PROVE SignInTypeOK'
    BY <1>0, <1>8 DEF SignInTypeOK, SessionExpires, signInHistories, keyVars
  <1>9. CASE UNCHANGED signInVars
    BY <1>0, <1>9 DEF SignInTypeOK, signInVars
  <1>10. ASSUME NEW r \in Requests, NEW i \in SessionIds, StartSession(r, i) PROVE SignInTypeOK'
    <2>1. requests[r].account \in Accounts
      BY <1>10 DEF StartSession, InPhase, KeyInv, Served, None
    <2> QED BY <1>0, <1>10, <2>1 DEF SignInTypeOK, StartSession, CreateSession, Row, Becomes, keyVars
  <1> QED BY <1>1, <1>2, <1>3, <1>4, <1>5, <1>6, <1>7, <1>8, <1>9, <1>10 DEF SignInNext

(* Starts and stops.                                                        *)
LEMMA KeysProcess ==
    ASSUME KeyInv, SignInTypeOK', NEW p \in Processes,
           \/ \E k \in Overrides : StartConfigured(p, k)
           \/ Start(p) \/ ReadKey(p) \/ SaveKey(p) \/ Stop(p)
    PROVE  KeyInv'
  <1> USE SignInAssumption, DrawnValues
  <1>1. processes \in [Processes -> [phase : {"down", "read", "save", "up"},
                                     key : Keys \cup Overrides \cup {NoKey}]]
        /\ DOMAIN requests = Requests
    BY DEF KeyInv, SignInTypeOK
  <1>2. cookies' = cookies
    BY DEF StartConfigured, Start, ReadKey, SaveKey, Stop
  <1>3. \A q \in Processes \ {p} : processes'[q] = processes[q]
    BY <1>1 DEF StartConfigured, Start, ReadKey, SaveKey, Stop
  (* A process that serves a request is up and stays so, unless it stops and  *)
  (* the request with it.                                                   *)
  <1>4. (\A x \in Requests : Served(requests[x]))'
    <2> SUFFICES ASSUME NEW x \in Requests PROVE Served(requests[x])'
      OBVIOUS
    <2>0. Served(requests[x])
      BY DEF KeyInv
    <2>1. CASE Stop(p)
      BY <1>1, <1>3, <2>0, <2>1 DEF Stop, Served, Up
    <2>2. CASE ~Stop(p)
      <3>1. requests' = requests /\ ~Up(p)
        BY <2>2, <1>1 DEF StartConfigured, Start, ReadKey, SaveKey, Up, Down
      <3> QED BY <1>3, <2>0, <3>1 DEF Served, Up
    <2> QED BY <2>1, <2>2
  <1>5. (\A q \in Processes : processes[q].phase = "save" => processes[q].key \in Keys)'
    <2>1. processes'[p].phase = "save" => processes'[p].key \in Keys
      BY <1>1 DEF StartConfigured, Start, ReadKey, SaveKey, Stop, Down
    <2> QED BY <1>3, <2>1 DEF KeyInv
  <1>6. (~disrupted => OneKey)'
    <2> SUFFICES ASSUME ~disrupted' PROVE OneKey'
      OBVIOUS
    <2>1. CASE \E k \in Overrides : StartConfigured(p, k)
      <3>1. PICK k \in Overrides : StartConfigured(p, k)
        BY <2>1
      <3>2. ~disrupted /\ storedKey \in {NoKey, k} /\ \A q \in Processes : ~Starting(q)
        BY <3>1, Zenon DEF StartConfigured
      <3>3. storedKey' = k /\ k # NoKey /\ processes'[p].phase = "up" /\ processes'[p].key = k
        BY <1>1, <3>1 DEF StartConfigured
      <3>4. OneKey
        BY <3>2 DEF KeyInv
      <3> QED BY <1>2, <1>3, <3>2, <3>3, <3>4 DEF OneKey, Up, Starting
    <2>2. CASE Start(p)
      <3>1. ~disrupted /\ \A q \in Processes : ~Starting(q)
        BY <2>2, Zenon DEF Start
      <3>2. storedKey' = storedKey /\ processes'[p].phase = "read"
        BY <1>1, <2>2 DEF Start
      <3>3. OneKey
        BY <3>1 DEF KeyInv
      <3> QED BY <1>2, <1>3, <3>1, <3>2, <3>3 DEF OneKey, Up, Starting
    <2>3. CASE ReadKey(p)
      <3>1. ~disrupted /\ storedKey' = storedKey /\ processes[p].phase = "read"
        BY <2>3 DEF ReadKey
      <3>2. OneKey
        BY <3>1 DEF KeyInv
      <3>3. CASE storedKey = NoKey
        <4>1. processes'[p].phase = "save"
          BY <1>1, <2>3, <3>3 DEF ReadKey
        <4> QED BY <1>2, <1>3, <3>1, <3>2, <3>3, <4>1 DEF OneKey, Up, Starting
      <3>4. CASE storedKey # NoKey
        <4>1. processes'[p].phase = "up" /\ processes'[p].key = storedKey
          BY <1>1, <2>3, <3>4 DEF ReadKey
        <4> QED BY <1>2, <1>3, <3>1, <3>2, <3>4, <4>1 DEF OneKey, Up, Starting
      <3> QED BY <3>3, <3>4
    <2>4. CASE SaveKey(p)
      <3>1. ~disrupted /\ storedKey' = processes[p].key /\ processes[p].phase = "save"
            /\ processes'[p].phase = "up" /\ processes'[p].key = processes[p].key
        BY <1>1, <2>4 DEF SaveKey
      <3>2. OneKey /\ processes[p].key # NoKey
        BY <3>1 DEF KeyInv
      <3>3. storedKey = NoKey /\ cookies = {} /\ \A q \in Processes : ~Up(q)
        BY <3>1, <3>2 DEF OneKey
      <3>4. \A q \in Processes \ {p} : ~Starting(q)
        BY <3>1, <3>2 DEF OneKey, Starting
      <3> QED BY <1>2, <1>3, <3>1, <3>2, <3>3, <3>4 DEF OneKey, Up, Starting
    <2>5. CASE Stop(p)
      <3>1. ~disrupted /\ storedKey' = storedKey /\ processes'[p].phase = "down"
        BY <1>1, <2>5 DEF Stop, Down, keyVars
      <3>2. OneKey
        BY <3>1 DEF KeyInv
      <3> QED BY <1>2, <1>3, <3>1, <3>2 DEF OneKey, Up, Starting
    <2> QED BY <2>1, <2>2, <2>3, <2>4, <2>5
  <1> QED BY <1>4, <1>5, <1>6 DEF KeyInv

LEMMA KeyStep == KeyInv /\ [SignInNext]_signInVars => KeyInv'
  <1> SUFFICES ASSUME KeyInv, [SignInNext]_signInVars PROVE KeyInv'
    OBVIOUS
  <1>1. SignInTypeOK'
    BY TypesOfSignIn
  <1> USE SignInAssumption
  <1>2. Served(None)
    BY DEF Served
  <1>3. ASSUME UNCHANGED <<processes, keyVars, requests, cookies>> PROVE KeyInv'
    BY <1>1, <1>2, <1>3, KeysSame
  <1>4. ASSUME NEW r, NEW q, Served(q), UNCHANGED <<processes, keyVars, cookies>>,
               requests' = [requests EXCEPT ![r] = q]
        PROVE  KeyInv'
    BY <1>1, <1>4, KeysSame
  <1>5. ASSUME NEW p \in Processes, NEW r \in Requests, NEW f \in Flows, TakeFlow(r, p, f)
        PROVE  KeyInv'
    <2> DEFINE q == [op |-> "login", phase |-> "exchange", process |-> p, flow |-> f]
    <2>1. Served(q) /\ UNCHANGED <<processes, keyVars, cookies>>
          /\ (requests' = [requests EXCEPT ![r] = q] \/ requests' = [requests EXCEPT ![r] = None])
      BY <1>5 DEF TakeFlow, Begins, Served
    <2> HIDE DEF q
    <2> QED BY <1>2, <1>4, <2>1
  <1>6. ASSUME NEW p \in Processes, NEW r \in Requests, DevLogin(r, p) PROVE KeyInv'
    <2> DEFINE q == [op |-> "login", phase |-> "session", process |-> p, flow |-> NoFlow,
                     account |-> Developer]
    <2>1. Served(q) /\ UNCHANGED <<processes, keyVars, cookies>>
          /\ requests' = [requests EXCEPT ![r] = q]
      BY <1>6 DEF DevLogin, Begins, Served
    <2> HIDE DEF q
    <2> QED BY <1>4, <2>1
  <1>7. ASSUME NEW p \in Processes, NEW r \in Requests, NEW c \in cookies, Lookup(r, p, c)
        PROVE  KeyInv'
    <2>1. PICK q : q = [op |-> "page", phase |-> IF sessions[c.id].live THEN "touch" ELSE "delete",
                        process |-> p, id |-> c.id]
      OBVIOUS
    <2>2. Served(q)
      BY <1>7, <2>1 DEF Lookup, Verifies, Served
    <2>3. UNCHANGED <<processes, keyVars, cookies>> /\ requests' = [requests EXCEPT ![r] = q]
      BY <1>7, <2>1 DEF Lookup, Begins
    <2> QED BY <1>4, <2>2, <2>3
  <1>8. ASSUME NEW r \in Requests, NEW a \in Accounts, Exchange(r, a) PROVE KeyInv'
    <2>1. PICK q : q = [op |-> "login", phase |-> "session", process |-> requests[r].process,
                        flow |-> requests[r].flow, account |-> a]
      OBVIOUS
    <2>2. Served(q)
      BY <1>8, <2>1 DEF Exchange, InPhase, KeyInv, Served, None
    <2>3. UNCHANGED <<processes, keyVars, cookies>> /\ requests' = [requests EXCEPT ![r] = q]
      BY <1>8, <2>1 DEF Exchange, Becomes
    <2> QED BY <1>4, <2>2, <2>3
  <1>9. ASSUME NEW r \in Requests, ExchangeFails(r) \/ Touch(r) \/ DeleteExpired(r) PROVE KeyInv'
    <2>1. UNCHANGED <<processes, keyVars, cookies>> /\ requests' = [requests EXCEPT ![r] = None]
      BY <1>9 DEF ExchangeFails, Touch, DeleteExpired, Becomes
    <2> QED BY <1>2, <1>4, <2>1
  <1>10. ASSUME NEW r \in Requests, NEW i \in SessionIds, StartSession(r, i) PROVE KeyInv'
    <2>1. requests[r].process \in Processes /\ Up(requests[r].process)
      BY <1>10 DEF StartSession, InPhase, KeyInv, Served, None
    <2>2. /\ UNCHANGED <<processes, keyVars>> /\ requests' = [requests EXCEPT ![r] = None]
          /\ cookies' = cookies \cup {[id |-> i, key |-> processes[requests[r].process].key]}
      BY <1>10 DEF StartSession, Becomes
    <2>3. \A c \in cookies' :
            c \in cookies \/ (\E p \in Processes : Up(p) /\ c.key = processes[p].key)
      BY <2>1, <2>2
    <2>4. PICK q : q = None
      OBVIOUS
    <2>5. Served(q) /\ requests' = [requests EXCEPT ![r] = q]
      BY <1>2, <2>2, <2>4
    <2> QED BY <1>1, <2>2, <2>3, <2>5, KeysSame
  <1>11. ASSUME NEW p \in Processes, NEW c \in cookies, Logout(p, c) PROVE KeyInv'
    BY <1>3, <1>11 DEF Logout
  <1>12. ASSUME NEW f \in Flows, LoginStart(f) \/ FlowExpires(f) PROVE KeyInv'
    BY <1>3, <1>12 DEF LoginStart, FlowExpires
  <1>13. ASSUME NEW i \in SessionIds, SessionExpires(i) PROVE KeyInv'
    BY <1>3, <1>13 DEF SessionExpires
  <1>14. CASE UNCHANGED signInVars
    BY <1>3, <1>14 DEF signInVars, keyVars
  <1> QED BY <1>1, <1>5, <1>6, <1>7, <1>8, <1>9, <1>10, <1>11, <1>12, <1>13, <1>14, KeysProcess
          DEF SignInNext

LEMMA KeyStart == SignInInit => KeyInv
  <1> SUFFICES ASSUME SignInInit PROVE KeyInv
    OBVIOUS
  <1>1. processes = [p \in Processes |-> Down]
        /\ storedKey = NoKey /\ cookies = {}
    BY DEF SignInInit
  <1>2. \A p \in Processes : processes[p].phase = "down"
    BY <1>1 DEF Down
  <1>3. processes \in [Processes -> [phase : {"down", "read", "save", "up"},
                                    key : Keys \cup Overrides \cup {NoKey}]]
    BY <1>1 DEF Down
  <1>4. SignInTypeOK
    <2>1. DOMAIN flows = {} /\ DOMAIN sessions = {} /\ begunFlows = {} /\ drawnKeys = {}
      BY DEF SignInInit
    <2>2. DOMAIN requests = Requests /\ starts \in Nat
      BY DEF SignInInit
    <2>3. disrupted \in BOOLEAN
      BY Zenon DEF SignInInit
    <2> QED BY <1>1, <1>3, <2>1, <2>2, <2>3 DEF SignInTypeOK
  <1>5. \A r \in Requests : Served(requests[r])
    BY DEF SignInInit, Served
  <1>6. OneKey
    BY <1>1, <1>2 DEF OneKey, Up, Starting
  <1> QED BY <1>2, <1>4, <1>5, <1>6 DEF KeyInv

(* Flows, sessions, processes and keys keep their types.                     *)
THEOREM SignInTypeCorrect == SignInSpec => []SignInTypeOK
  <1>1. KeyInv => SignInTypeOK
    BY DEF KeyInv
  <1> QED BY <1>1, KeyStart, KeyStep, PTL DEF SignInSpec

(* However processes stop, start and overlap while they serve, every cookie  *)
(* they gave is one that each of them takes, unless two were starting at     *)
(* once or a configured key replaced another.                               *)
THEOREM KeysOutliveRestarts == SignInSpec => []KeysPersist
  <1>1. KeyInv => KeysPersist
    BY DEF KeyInv, OneKey, KeysPersist, Verifies
  <1> QED BY <1>1, KeyStart, KeyStep, PTL DEF SignInSpec

----------------------------------------------------------------------------
(* Signing in: sessions.                                                    *)

Spent(f) == f \in begunFlows /\ f \notin DOMAIN flows

SessionsAreLogins ==
    \A i \in DOMAIN sessions : i \in DOMAIN logins /\ sessions[i].account = logins[i].account

LoginsAreVouchedFor ==
    \A i \in DOMAIN logins : logins[i].flow # NoFlow =>
      /\ Spent(logins[i].flow)
      /\ logins[i].flow \in DOMAIN verified
      /\ verified[logins[i].flow] = logins[i].account
      /\ \A j \in DOMAIN logins : logins[j].flow = logins[i].flow => j = i

(* The flow of a login in progress is spent and has made no session yet.     *)
InProgressOK(q) ==
    q.op = "login" =>
      /\ q.phase = "exchange" => q.flow # NoFlow
      /\ q.flow # NoFlow =>
           /\ Spent(q.flow)
           /\ \A i \in DOMAIN logins : logins[i].flow # q.flow
           /\ q.phase = "session" => q.flow \in DOMAIN verified /\ verified[q.flow] = q.account

SharesFlow(q, s) == q.op = "login" /\ s.op = "login" /\ q.flow = s.flow /\ q.flow # NoFlow

LoginInv ==
    /\ DOMAIN requests = Requests
    /\ SessionsAreLogins
    /\ LoginsAreVouchedFor
    /\ \A r \in Requests : InProgressOK(requests[r])
    /\ \A r, s \in Requests : SharesFlow(requests[r], requests[s]) => r = s

(* Steps that make no login: flows are begun or spent, sessions go.          *)
LEMMA LoginsSame ==
    ASSUME LoginInv, UNCHANGED <<logins, verified>>,
           \A f : Spent(f) => Spent(f)',
           \A i \in DOMAIN sessions' :
             i \in DOMAIN sessions /\ sessions'[i].account = sessions[i].account,
           DOMAIN requests' = Requests,
           \A x \in Requests : requests'[x] = requests[x] \/ requests'[x].op # "login"
    PROVE  LoginInv' /\ GoneForGood
  <1>1. SessionsAreLogins' /\ GoneForGood
    BY DEF LoginInv, SessionsAreLogins, GoneForGood
  <1>2. LoginsAreVouchedFor'
    BY DEF LoginInv, LoginsAreVouchedFor
  <1>3. \A x \in Requests : requests'[x].op = "login" => requests'[x] = requests[x]
    OBVIOUS
  <1>4. (\A r \in Requests : InProgressOK(requests[r]))'
    BY <1>3 DEF LoginInv, InProgressOK
  <1>5. (\A r, s \in Requests : SharesFlow(requests[r], requests[s]) => r = s)'
    BY <1>3 DEF LoginInv, SharesFlow
  <1> QED BY <1>1, <1>2, <1>4, <1>5 DEF LoginInv

(* A login of a flow that no other request has.                             *)
LEMMA LoginGoesOn ==
    ASSUME LoginInv, UNCHANGED <<sessions, logins>>, NEW r \in Requests, NEW q,
           requests' = [requests EXCEPT ![r] = q],
           \A f : Spent(f) => Spent(f)',
           \A f \in DOMAIN verified :
             \/ f \in DOMAIN verified' /\ verified'[f] = verified[f]
             \/ (\A i \in DOMAIN logins : logins[i].flow # f) /\ q.flow = f /\ q.op = "login" /\ f # NoFlow,
           InProgressOK(q)',
           \A x \in Requests \ {r} : ~SharesFlow(q, requests[x])
    PROVE  LoginInv' /\ GoneForGood
  <1>1. SessionsAreLogins' /\ GoneForGood
    BY DEF LoginInv, SessionsAreLogins, GoneForGood
  <1>2. LoginsAreVouchedFor'
    BY DEF LoginInv, LoginsAreVouchedFor
  <1>3. requests'[r] = q /\ \A x \in Requests \ {r} : requests'[x] = requests[x]
    BY DEF LoginInv
  <1>4. ASSUME NEW x \in Requests PROVE InProgressOK(requests[x])'
    <2>1. CASE x = r
      BY <1>3, <2>1 DEF InProgressOK
    <2>2. CASE x # r
      BY <1>3, <2>2 DEF LoginInv, InProgressOK, SharesFlow
    <2> QED BY <2>1, <2>2
  <1>5. (\A x, s \in Requests : SharesFlow(requests[x], requests[s]) => x = s)'
    BY <1>3 DEF LoginInv, SharesFlow
  <1> QED BY <1>1, <1>2, <1>4, <1>5 DEF LoginInv

LEMMA LoginsOfRequests ==
    ASSUME LoginInv, SignInTypeOK, NEW r \in Requests,
           \/ \E p \in Processes :
                \/ \E f \in Flows : TakeFlow(r, p, f)
                \/ DevLogin(r, p)
                \/ \E c \in cookies : Lookup(r, p, c)
           \/ \E a \in Accounts : Exchange(r, a)
           \/ ExchangeFails(r) \/ Touch(r) \/ DeleteExpired(r)
    PROVE  LoginInv' /\ GoneForGood
  <1> USE DrawnValues
  <1>0. DOMAIN requests = Requests
    BY DEF LoginInv
  <1>1. ASSUME NEW p \in Processes, NEW f \in Flows, TakeFlow(r, p, f)
        PROVE  LoginInv' /\ GoneForGood
    <2>1. UNCHANGED <<sessions, logins, verified, begunFlows>> /\ DOMAIN flows' = DOMAIN flows \ {f}
          /\ f \in DOMAIN flows /\ f # NoFlow
      BY <1>1 DEF TakeFlow, Minus, signInHistories
    <2>2. \A g : Spent(g) => Spent(g)'
      BY <2>1 DEF Spent
    <2>3. CASE flows[f] # "open"
      <3>1. requests' = [requests EXCEPT ![r] = None]
        BY <1>1, <2>3 DEF TakeFlow, Begins
      <3>2. DOMAIN requests' = Requests
            /\ \A x \in Requests : requests'[x] = requests[x] \/ requests'[x].op # "login"
        BY <1>0, <3>1 DEF None
      <3> QED BY <2>1, <2>2, <3>2, LoginsSame
    <2>4. CASE flows[f] = "open"
      <3>1. PICK q : q = [op |-> "login", phase |-> "exchange", process |-> p, flow |-> f]
        OBVIOUS
      <3>2. requests' = [requests EXCEPT ![r] = q]
        BY <1>1, <2>4, <3>1 DEF TakeFlow, Begins
      <3>3. f \in begunFlows
        BY <1>1 DEF TakeFlow, SignInTypeOK
      <3>4. InProgressOK(q)'
        BY <2>1, <3>1, <3>3 DEF InProgressOK, Spent, LoginInv, LoginsAreVouchedFor
      <3>5. \A x \in Requests \ {r} : ~SharesFlow(q, requests[x])
        BY <2>1, <3>1 DEF SharesFlow, LoginInv, InProgressOK, Spent
      <3> QED BY <2>1, <2>2, <3>2, <3>4, <3>5, LoginGoesOn
    <2> QED BY <2>3, <2>4
  <1>2. ASSUME NEW p \in Processes, DevLogin(r, p) PROVE LoginInv' /\ GoneForGood
    <2>1. PICK q : q = [op |-> "login", phase |-> "session", process |-> p, flow |-> NoFlow,
                        account |-> Developer]
      OBVIOUS
    <2>2. UNCHANGED <<sessions, logins, verified, begunFlows, flows>>
          /\ requests' = [requests EXCEPT ![r] = q]
      BY <1>2, <2>1 DEF DevLogin, Begins, signInHistories
    <2>3. InProgressOK(q)' /\ \A x \in Requests \ {r} : ~SharesFlow(q, requests[x])
      BY <2>1 DEF InProgressOK, SharesFlow
    <2>4. \A g : Spent(g) => Spent(g)'
      BY <2>2 DEF Spent
    <2> QED BY <2>2, <2>3, <2>4, LoginGoesOn
  <1>3. ASSUME NEW a \in Accounts, Exchange(r, a) PROVE LoginInv' /\ GoneForGood
    <2>1. PICK g : g = requests[r].flow
      OBVIOUS
    <2>2. PICK q : q = [op |-> "login", phase |-> "session", process |-> requests[r].process,
                        flow |-> g, account |-> a]
      OBVIOUS
    <2>3. UNCHANGED <<sessions, logins, begunFlows, flows>>
          /\ requests' = [requests EXCEPT ![r] = q]
          /\ verified' = [k \in DOMAIN verified \cup {g} |-> IF k = g THEN a ELSE verified[k]]
          /\ requests[r].op = "login" /\ requests[r].phase = "exchange"
      BY <1>3, <2>1, <2>2 DEF Exchange, Becomes, Row, InPhase
    <2>4. g # NoFlow /\ Spent(g) /\ \A i \in DOMAIN logins : logins[i].flow # g
      BY <2>1, <2>3 DEF LoginInv, InProgressOK
    <2>5. \A f : Spent(f) => Spent(f)'
      BY <2>3 DEF Spent
    <2>6. InProgressOK(q)'
      BY <2>2, <2>3, <2>4, <2>5 DEF InProgressOK
    <2>7. \A x \in Requests \ {r} : ~SharesFlow(q, requests[x])
      BY <2>1, <2>2, <2>3 DEF LoginInv, SharesFlow
    <2> QED BY <2>2, <2>3, <2>4, <2>5, <2>6, <2>7, LoginGoesOn
  <1>4. ASSUME (\E p \in Processes, c \in cookies : Lookup(r, p, c))
               \/ ExchangeFails(r) \/ Touch(r) \/ DeleteExpired(r)
        PROVE  LoginInv' /\ GoneForGood
    <2>1. UNCHANGED <<logins, verified, begunFlows, flows>>
      BY <1>4 DEF Lookup, ExchangeFails, Touch, DeleteExpired, signInHistories
    <2>2. DOMAIN requests' = Requests
          /\ \A x \in Requests : requests'[x] = requests[x] \/ requests'[x].op # "login"
      BY <1>0, <1>4 DEF Lookup, ExchangeFails, Touch, DeleteExpired, Begins, Becomes, None
    <2>3. \A i \in DOMAIN sessions' :
            i \in DOMAIN sessions /\ sessions'[i].account = sessions[i].account
      <3>1. CASE Touch(r)
        <4>1. ASSUME NEW i \in DOMAIN sessions
              PROVE  [sessions[i] EXCEPT !.live = @ \/ i = requests[r].id].account = sessions[i].account
          <5>1. PICK b \in BOOLEAN : b = (sessions[i].live \/ i = requests[r].id)
            BY Zenon
          <5>2. sessions[i] \in [account : Accounts, live : BOOLEAN]
            BY DEF SignInTypeOK
          <5>3. [sessions[i] EXCEPT !.live = b].account = sessions[i].account
            BY <5>2
          <5> QED BY <5>1, <5>3, Zenon
        <4>2. sessions' = [i \in DOMAIN sessions |-> [sessions[i] EXCEPT !.live = @ \/ i = requests[r].id]]
          BY <3>1 DEF Touch
        <4> QED BY <4>1, <4>2, Zenon
      <3>2. CASE ~Touch(r)
        BY <1>4, <3>2 DEF Lookup, ExchangeFails, DeleteExpired, DeleteSession, Minus
      <3> QED BY <3>1, <3>2
    <2>4. \A f : Spent(f) => Spent(f)'
      BY <2>1 DEF Spent
    <2> QED BY <2>1, <2>2, <2>3, <2>4, LoginsSame
  <1> QED BY <1>1, <1>2, <1>3, <1>4

LEMMA LoginStarts ==
    ASSUME LoginInv, NEW r \in Requests, NEW i \in SessionIds, StartSession(r, i)
    PROVE  LoginInv' /\ GoneForGood
  <1>1. PICK g : g = requests[r].flow
    OBVIOUS
  <1>2. PICK a : a = requests[r].account
    OBVIOUS
  <1>3. PICK l : l = [flow |-> g, account |-> a]
    OBVIOUS
  <1>4. /\ UNCHANGED <<flows, begunFlows, verified>>
        /\ i \notin DOMAIN logins
        /\ requests[r].op = "login" /\ requests[r].phase = "session"
        /\ requests' = [requests EXCEPT ![r] = None]
        /\ logins' = [k \in DOMAIN logins \cup {i} |-> IF k = i THEN l ELSE logins[k]]
        /\ sessions' = [k \in DOMAIN sessions \cup {i} |->
                          IF k = i THEN [account |-> a, live |-> TRUE] ELSE sessions[k]]
    BY <1>1, <1>2, <1>3 DEF StartSession, CreateSession, Row, InPhase, Becomes
  <1>5. InProgressOK(requests[r]) /\ DOMAIN requests = Requests
    BY DEF LoginInv
  <1>6. SessionsAreLogins' /\ GoneForGood
    BY <1>3, <1>4 DEF LoginInv, SessionsAreLogins, GoneForGood
  <1>7. \A f : Spent(f)' = Spent(f)
    BY <1>4 DEF Spent
  <1>8. g # NoFlow => /\ Spent(g) /\ g \in DOMAIN verified /\ verified[g] = a
                      /\ \A j \in DOMAIN logins : logins[j].flow # g
    BY <1>1, <1>2, <1>4, <1>5 DEF InProgressOK
  <1>9. LoginsAreVouchedFor'
    BY <1>3, <1>4, <1>7, <1>8 DEF LoginInv, LoginsAreVouchedFor
  <1>10. requests'[r] = None /\ \A x \in Requests \ {r} : requests'[x] = requests[x]
    BY <1>4, <1>5
  <1>11. ASSUME NEW x \in Requests PROVE InProgressOK(requests[x])'
    <2>1. CASE x = r
      BY <1>10, <2>1 DEF InProgressOK, None
    <2>2. CASE x # r
      <3>1. InProgressOK(requests[x]) /\ ~SharesFlow(requests[r], requests[x])
        BY <2>2 DEF LoginInv
      <3>2. requests[x].op = "login" => requests[x].flow # g \/ g = NoFlow
        BY <1>1, <1>4, <3>1 DEF SharesFlow
      <3> QED BY <1>3, <1>4, <1>7, <1>10, <2>2, <3>1, <3>2 DEF InProgressOK
    <2> QED BY <2>1, <2>2
  <1>12. (\A x, s \in Requests : SharesFlow(requests[x], requests[s]) => x = s)'
    BY <1>10 DEF LoginInv, SharesFlow, None
  <1> QED BY <1>4, <1>5, <1>6, <1>9, <1>11, <1>12 DEF LoginInv

LEMMA LoginStep ==
    SignInTypeOK /\ LoginInv /\ [SignInNext]_signInVars
      => LoginInv' /\ (GoneForGood \/ UNCHANGED signInVars)
  <1> SUFFICES ASSUME SignInTypeOK, LoginInv, [SignInNext]_signInVars
               PROVE  LoginInv' /\ (GoneForGood \/ UNCHANGED signInVars)
    OBVIOUS
  <1>1. ASSUME UNCHANGED <<logins, verified>>, \A f : Spent(f) => Spent(f)',
               \A i \in DOMAIN sessions' :
                 i \in DOMAIN sessions /\ sessions'[i].account = sessions[i].account,
               DOMAIN requests' = Requests,
               \A x \in Requests : requests'[x] = requests[x] \/ requests'[x].op # "login"
        PROVE  LoginInv' /\ GoneForGood
    BY <1>1, LoginsSame
  <1>2. DOMAIN requests = Requests
    BY DEF LoginInv
  <1>3. ASSUME NEW p \in Processes,
               \/ \E k \in Overrides : StartConfigured(p, k)
               \/ Start(p) \/ ReadKey(p) \/ SaveKey(p) \/ Stop(p)
        PROVE  LoginInv' /\ GoneForGood
    <2>1. UNCHANGED <<logins, verified, begunFlows, flows, sessions>>
      BY <1>3 DEF StartConfigured, Start, ReadKey, SaveKey, Stop, signInHistories
    <2>2. DOMAIN requests' = Requests
          /\ \A x \in Requests : requests'[x] = requests[x] \/ requests'[x].op # "login"
      BY <1>2, <1>3 DEF StartConfigured, Start, ReadKey, SaveKey, Stop, None
    <2> QED BY <1>1, <2>1, <2>2 DEF Spent
  <1>4. ASSUME NEW p \in Processes, NEW c \in cookies, Logout(p, c)
        PROVE  LoginInv' /\ GoneForGood
    BY <1>1, <1>2, <1>4 DEF Logout, DeleteSession, Minus, signInHistories, Spent
  <1>5. ASSUME NEW f \in Flows, LoginStart(f) \/ FlowExpires(f) PROVE LoginInv' /\ GoneForGood
    <2>1. UNCHANGED <<logins, verified, sessions, requests>>
      BY <1>5 DEF LoginStart, FlowExpires, signInHistories
    <2>2. \A g : Spent(g) => Spent(g)'
      BY <1>5 DEF LoginStart, FlowExpires, signInHistories, Row, Spent
    <2> QED BY <1>1, <1>2, <2>1, <2>2
  <1>6. ASSUME NEW i \in SessionIds, SessionExpires(i) PROVE LoginInv' /\ GoneForGood
    <2>1. UNCHANGED <<flows, begunFlows, logins, verified, requests>>
          /\ \A j \in DOMAIN sessions' :
               j \in DOMAIN sessions /\ sessions'[j].account = sessions[j].account
      BY <1>6 DEF SessionExpires, signInHistories
    <2> QED BY <1>1, <1>2, <2>1 DEF Spent
  <1>7. CASE UNCHANGED signInVars
    <2>1. UNCHANGED <<flows, begunFlows, logins, verified, requests, sessions>>
      BY <1>7 DEF signInVars
    <2> QED BY <1>1, <1>2, <2>1 DEF Spent
  <1>8. CASE SignInNext
    <2>1. ASSUME NEW r \in Requests, NEW i \in SessionIds, StartSession(r, i)
          PROVE  LoginInv' /\ GoneForGood
      BY <2>1, LoginStarts
    <2>2. ASSUME NEW r \in Requests,
                 \/ \E p \in Processes :
                      \/ \E f \in Flows : TakeFlow(r, p, f)
                      \/ DevLogin(r, p)
                      \/ \E c \in cookies : Lookup(r, p, c)
                 \/ \E a \in Accounts : Exchange(r, a)
                 \/ ExchangeFails(r) \/ Touch(r) \/ DeleteExpired(r)
          PROVE  LoginInv' /\ GoneForGood
      BY <2>2, LoginsOfRequests
    <2> QED BY <1>3, <1>4, <1>5, <1>6, <1>8, <2>1, <2>2 DEF SignInNext
  <1> QED BY <1>7, <1>8

(* However callbacks are repeated, logins interleave and pages race with     *)
(* logouts and expiry, a flow makes one session, that of whom the provider   *)
(* vouched for in it, and what was ended stays so.                          *)
THEOREM SessionsComeFromLogins == SignInSpec => SessionsHaveLogins
  <1>1. SignInInit => LoginInv
    <2> SUFFICES ASSUME SignInInit PROVE LoginInv
      OBVIOUS
    <2>1. DOMAIN sessions = {} /\ DOMAIN logins = {}
      BY DEF SignInInit
    <2>2. DOMAIN requests = Requests /\ \A r \in Requests : requests[r].op # "login"
      BY DEF SignInInit, None
    <2> QED BY <2>1, <2>2 DEF LoginInv, SessionsAreLogins, LoginsAreVouchedFor, InProgressOK, SharesFlow
  <1>2. LoginInv => OneSessionForEachLogin
    BY DEF LoginInv, SessionsAreLogins, LoginsAreVouchedFor, OneSessionForEachLogin
  <1>3. SignInTypeOK /\ LoginInv /\ [SignInNext]_signInVars
        => LoginInv' /\ [OneSessionForEachLogin' /\ GoneForGood]_signInVars
    <2>1. LoginInv' => OneSessionForEachLogin'
      BY <1>2, PTL
    <2> QED BY <2>1, LoginStep
  <1> QED BY <1>1, <1>3, SignInTypeCorrect, PTL DEF SignInSpec, SessionsHaveLogins
=============================================================================
