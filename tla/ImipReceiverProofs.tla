------------------------ MODULE ImipReceiverProofs ------------------------
(***************************************************************************)
(* What the receiver does to answers, for any mails, events and attendees.  *)
(* The invariant says what the loop knows of the message at hand: it was     *)
(* not handled before, what process has looked at so far speaks for it, and  *)
(* the object it found is that of its event or has gone since.              *)
(***************************************************************************)
EXTENDS ImipReceiver, WellFoundedInduction, TLAPS

Phases == {"wait", "fetch", "check", "find", "update", "deposit", "mark"}
Outcomes == {"", "malformed", "no_match", "applied"}

LoopOK ==
    /\ recv \in [phase : Phases, uid : Nat, todo : SUBSET Nat, object : Nat, outcome : Outcomes]
    /\ recv.todo \subseteq Unseen
    /\ \A u \in handled : mailbox[u].seen
    /\ recv.uid # NoMail => recv.uid \notin handled /\ mailbox[recv.uid].seen

IsNews(m) == m.id = NoId \/ m.id \notin DOMAIN processed \/ "unchecked" \in doubts

FoundEvent ==
    \/ "object gone" \in doubts
    \/ recv.object \in DOMAIN objects /\ objects[recv.object] = Held.event

MessageOK ==
    /\ recv.phase \in {"find", "update", "deposit"} => Held.good
    /\ recv.phase \in {"find", "update"} => IsNews(Held)
    /\ recv.phase = "update" => FoundEvent

ReceiverInv == ReceiverTypeOK /\ LoopOK /\ MessageOK

----------------------------------------------------------------------------
(* Every nonempty set of naturals has a least element, the one that the      *)
(* loop and the database take.                                              *)
LEMMA LeastOfNaturals ==
    ASSUME NEW T, T \subseteq Nat, T # {}
    PROVE  \E x \in T : \A y \in T : x <= y
  <1> DEFINE LessThan == {p \in Nat \X Nat : p[1] < p[2]}
  <1>1. IsWellFoundedOn(LessThan, Nat)
    BY NatLessThanWellFounded, Zenon DEF OpToRel
  <1> HIDE DEF LessThan
  <1>2. PICK x \in T : \A y \in T : <<y, x>> \notin LessThan
    BY <1>1, WFMin, Zenon
  <1>3. \A y \in T : ~(y < x)
    BY <1>2 DEF LessThan
  <1> QED BY <1>3

(* What the types say of the messages.                                      *)
LEMMA MessagesOfMailbox ==
    ASSUME ReceiverInv
    PROVE  /\ Uids = 1 .. Len(mailbox) /\ Len(mailbox) \in Nat
           /\ \A u \in Uids : /\ mailbox[u].mail \in Mails /\ mailbox[u].seen \in BOOLEAN
                              /\ mailbox[u].mail.from \in Attendees
                              /\ mailbox[u].mail.answer \in Answers
           /\ recv.uid # NoMail => recv.uid \in Uids
  <1> DEFINE R == [mail : Mails, seen : BOOLEAN]
  <1>1. mailbox \in Seq(R) /\ (recv.uid # NoMail => recv.uid \in Uids)
    BY DEF ReceiverInv, ReceiverTypeOK
  <1>2. Uids = 1 .. Len(mailbox) /\ Len(mailbox) \in Nat /\ \A u \in Uids : mailbox[u] \in R
    <2> HIDE DEF R
    <2> QED BY <1>1 DEF Uids
  <1>3. \A x \in R : x.mail \in Mails /\ x.seen \in BOOLEAN
    OBVIOUS
  <1>4. \A m \in Mails : m.from \in Attendees /\ m.answer \in Answers
    <2>1. \A m \in Mail : m.from \in Attendees /\ m.answer \in Answers
      BY DEF Mail
    <2> QED BY <2>1, ReceiverAssumption
  <1> QED BY <1>1, <1>2, <1>3, <1>4

LEMMA NextIsDue ==
    ASSUME ReceiverInv, recv.todo # {}
    PROVE  NextUid \in recv.todo /\ NextUid \in Uids /\ NextUid # NoMail
  <1>1. recv.todo \subseteq Uids /\ Uids \subseteq Nat \ {0}
    BY MessagesOfMailbox DEF ReceiverInv, ReceiverTypeOK
  <1>2. \E u \in recv.todo : \A v \in recv.todo : u <= v
    BY <1>1, LeastOfNaturals
  <1>3. NextUid \in recv.todo
    BY <1>2 DEF NextUid
  <1> QED BY <1>1, <1>3 DEF NoMail

(* Setting \Seen changes that flag only.                                    *)
LEMMA SeenIsAllThatChanges ==
    ASSUME ReceiverInv, NEW u \in Uids, SetSeen(u)
    PROVE  /\ mailbox' \in Seq([mail : Mails, seen : BOOLEAN]) /\ Uids' = Uids
           /\ \A v \in Uids : mailbox'[v].mail = mailbox[v].mail
           /\ \A v \in Uids \ {u} : mailbox'[v] = mailbox[v]
           /\ mailbox'[u].seen
  <1> DEFINE R == [mail : Mails, seen : BOOLEAN]
  <1>1. PICK x : x = [mailbox[u] EXCEPT !.seen = TRUE]
    OBVIOUS
  <1>2. mailbox \in Seq(R) /\ mailbox[u] \in R
    <2>1. mailbox \in Seq(R)
      BY DEF ReceiverInv, ReceiverTypeOK
    <2> HIDE DEF R
    <2> QED BY <2>1 DEF Uids
  <1>3. x \in R /\ x.mail = mailbox[u].mail /\ x.seen
    BY <1>1, <1>2
  <1>4. mailbox' = [mailbox EXCEPT ![u] = x]
    BY <1>1 DEF SetSeen
  <1>5. mailbox' \in Seq(R)
    <2> HIDE DEF R
    <2> QED BY <1>2, <1>3, <1>4 DEF Uids
  <1>6. Uids' = Uids /\ mailbox'[u] = x /\ \A v \in Uids \ {u} : mailbox'[v] = mailbox[v]
    BY <1>4 DEF Uids
  <1> QED BY <1>3, <1>5, <1>6

----------------------------------------------------------------------------
(* Steps of others.                                                         *)
LEMMA OthersKeepReceiver ==
    ASSUME ReceiverInv,
           \/ \E m \in Mails : Arrive(m)
           \/ \E i \in ObjectIds, e \in Events : StoreEvent(i, e)
           \/ \E i \in ObjectIds, a \in Attendees, partstat \in Said : Invite(i, a, partstat)
           \/ \E i \in ObjectIds : DeleteEvent(i)
    PROVE  ReceiverInv'
  <1> USE ReceiverAssumption
  <1>1. ASSUME NEW m \in Mails, Arrive(m) PROVE ReceiverInv'
    <2>1. /\ mailbox' \in Seq([mail : Mails, seen : BOOLEAN])
          /\ Uids \subseteq Uids'
          /\ \A u \in Uids : mailbox'[u] = mailbox[u]
      BY <1>1 DEF ReceiverInv, ReceiverTypeOK, Arrive, Uids
    <2>2. UNCHANGED <<objects, answers, inbox, processed, recv, handled, lost, doubts>>
      BY <1>1 DEF Arrive, tables
    <2>3. ReceiverTypeOK'
      BY <2>1, <2>2 DEF ReceiverInv, ReceiverTypeOK
    <2>4. LoopOK'
      BY <2>1, <2>2, MessagesOfMailbox DEF ReceiverInv, ReceiverTypeOK, LoopOK, Unseen
    <2>5. MessageOK'
      <3>1. recv.phase \in {"find", "update", "deposit"} => recv.uid \in Uids
        BY DEF ReceiverInv, ReceiverTypeOK, NoMail
      <3> QED BY <2>1, <2>2, <3>1 DEF ReceiverInv, MessageOK, Held, IsNews, FoundEvent
    <2> QED BY <2>3, <2>4, <2>5 DEF ReceiverInv
  <1>2. ASSUME UNCHANGED <<mailbox, processed, recv, handled, lost>>,
               ReceiverTypeOK', doubts \subseteq doubts', FoundEvent => FoundEvent'
        PROVE  ReceiverInv'
    BY <1>2 DEF ReceiverInv, LoopOK, MessageOK, Unseen, Uids, Held, IsNews
  <1>3. ASSUME NEW i \in ObjectIds, NEW e \in Events, StoreEvent(i, e) PROVE ReceiverInv'
    <2>1. UNCHANGED <<mailbox, processed, recv, handled, lost, answers, doubts>>
          /\ objects' = [k \in DOMAIN objects \cup {i} |-> IF k = i THEN e ELSE objects[k]]
          /\ i \notin DOMAIN objects
      BY <1>3 DEF StoreEvent, With, ReceiverInv, ReceiverTypeOK
    <2>2. ReceiverTypeOK'
      BY <2>1 DEF ReceiverInv, ReceiverTypeOK, Uids
    <2>3. FoundEvent => FoundEvent'
      BY <2>1 DEF FoundEvent, Held
    <2> QED BY <1>2, <2>1, <2>2, <2>3
  <1>4. ASSUME NEW i \in ObjectIds, NEW a \in Attendees, NEW p \in Said,
               Invite(i, a, p)
        PROVE  ReceiverInv'
    <2>1. PICK r : r = <<i, a>>
      OBVIOUS
    <2>2. UNCHANGED <<mailbox, processed, recv, handled, lost, objects, doubts>>
          /\ answers' = [k \in DOMAIN answers \cup {r} |-> IF k = r THEN p ELSE answers[k]]
          /\ i \in DOMAIN objects
      BY <1>4, <2>1 DEF Invite, With
    <2>3. r \in (DOMAIN objects) \X Attendees /\ p \in Answers \cup {NeedsAction}
      BY <2>1, <2>2
    <2>4. ReceiverTypeOK'
      BY <2>2, <2>3 DEF ReceiverInv, ReceiverTypeOK, Uids
    <2> QED BY <1>2, <2>2, <2>4 DEF FoundEvent, Held
  <1>5. ASSUME NEW i \in ObjectIds, DeleteEvent(i) PROVE ReceiverInv'
    <2>1. /\ UNCHANGED <<mailbox, processed, recv, handled, lost>>
          /\ DOMAIN objects' = DOMAIN objects \ {i}
          /\ \A k \in DOMAIN objects' : objects'[k] = objects[k]
          /\ DOMAIN answers' = DOMAIN answers \ {k \in DOMAIN answers : k[1] = i}
          /\ \A k \in DOMAIN answers' : answers'[k] = answers[k]
          /\ doubts \subseteq doubts' /\ (recv.object = i => "object gone" \in doubts')
      BY <1>5 DEF DeleteEvent, Without
    <2>2. \A k \in DOMAIN answers' : k \in (DOMAIN objects') \X Attendees
      BY <2>1 DEF ReceiverInv, ReceiverTypeOK
    <2>3. ReceiverTypeOK'
      BY <2>1, <2>2 DEF ReceiverInv, ReceiverTypeOK, Uids
    <2>4. FoundEvent => FoundEvent'
      BY <2>1 DEF FoundEvent, Held
    <2> QED BY <1>2, <2>1, <2>3, <2>4
  <1> QED BY <1>1, <1>3, <1>4, <1>5

----------------------------------------------------------------------------
(* Steps of the loop that fetch.                                            *)
LEMMA FetchingKeepsReceiver ==
    ASSUME ReceiverInv, Search \/ Fetch \/ FetchFails \/ PollEnds \/ Dies
    PROVE  ReceiverInv'
  <1>1. recv \in [phase : Phases, uid : Nat, todo : SUBSET Nat, object : Nat, outcome : Outcomes]
    BY DEF ReceiverInv, LoopOK
  <1>2. ASSUME UNCHANGED <<mailbox, objects, answers, processed, handled>>,
               recv' \in [phase : {"wait", "fetch"}, uid : {NoMail}, todo : SUBSET Nat,
                          object : Nat, outcome : Outcomes],
               recv'.todo \subseteq Unseen, lost' \subseteq Uids
        PROVE  ReceiverInv'
    BY <1>2 DEF ReceiverInv, ReceiverTypeOK, LoopOK, MessageOK, Uids, Unseen, NoMail, Phases
  <1>3. Unseen \subseteq Uids /\ Uids \subseteq Nat
    BY MessagesOfMailbox DEF Unseen
  <1>4. lost \subseteq Uids /\ handled \subseteq Uids /\ (recv.uid # NoMail => recv.uid \in Uids)
    BY MessagesOfMailbox DEF ReceiverInv, ReceiverTypeOK
  <1>5. CASE Search
    <2>1. UNCHANGED <<mailbox, objects, answers, processed, handled, lost>>
          /\ recv' = [phase |-> "fetch", uid |-> NoMail, todo |-> Unseen, object |-> 0, outcome |-> ""]
      BY <1>5 DEF Search, Waiting, tables
    <2> QED BY <1>2, <1>3, <1>4, <2>1 DEF Outcomes
  <1>6. CASE PollEnds
    <2>1. UNCHANGED <<mailbox, objects, answers, processed, handled, lost>>
          /\ recv' = [phase |-> "wait", uid |-> NoMail, todo |-> {}, object |-> 0, outcome |-> ""]
      BY <1>6 DEF PollEnds, Waiting, tables
    <2> QED BY <1>2, <1>4, <2>1 DEF Outcomes
  <1>7. CASE Dies
    <2>1. UNCHANGED <<mailbox, objects, answers, processed, handled>> /\ lost' \subseteq Uids
          /\ recv' = [phase |-> "wait", uid |-> NoMail, todo |-> {}, object |-> 0, outcome |-> ""]
      BY <1>4, <1>7 DEF Dies, Waiting, tables
    <2> QED BY <1>2, <2>1 DEF Outcomes
  <1>8. recv.phase = "fetch" => recv.uid = NoMail
    BY DEF ReceiverInv, ReceiverTypeOK, NoMail
  <1>9. CASE Fetch
    <2>1. PICK u : u = NextUid
      OBVIOUS
    <2>2. u \in recv.todo /\ u \in Uids /\ u # NoMail /\ u \in Nat /\ ~mailbox[u].seen
      BY <1>3, <1>9, <2>1, NextIsDue DEF Fetch, ReceiverInv, LoopOK, Unseen
    <2>3. SetSeen(u) /\ UNCHANGED <<objects, answers, processed, handled, lost>>
      BY <1>9, <2>1 DEF Fetch, tables
    <2>4. recv' = [recv EXCEPT !.phase = "check", !.uid = u, !.todo = @ \ {u}]
      BY <1>9, <2>1 DEF Fetch
    <2>5. /\ recv' \in [phase : Phases, uid : Nat, todo : SUBSET Nat, object : Nat, outcome : Outcomes]
          /\ recv'.phase = "check" /\ recv'.uid = u /\ recv'.todo = recv.todo \ {u}
      BY <1>1, <2>2, <2>4 DEF Phases
    <2>6. /\ mailbox' \in Seq([mail : Mails, seen : BOOLEAN]) /\ Uids' = Uids
          /\ \A v \in Uids \ {u} : mailbox'[v] = mailbox[v]
          /\ mailbox'[u].seen
      BY <2>2, <2>3, SeenIsAllThatChanges
    <2>7. ReceiverTypeOK'
      BY <2>2, <2>3, <2>5, <2>6 DEF ReceiverInv, ReceiverTypeOK
    <2>8. LoopOK'
      <3>1. u \notin handled
        BY <2>2 DEF ReceiverInv, LoopOK
      <3>2. recv'.todo \subseteq Unseen'
        BY <2>5, <2>6 DEF ReceiverInv, LoopOK, Unseen
      <3>3. \A v \in handled : mailbox'[v].seen
        BY <1>4, <2>6, <3>1 DEF ReceiverInv, LoopOK
      <3> QED BY <2>3, <2>5, <2>6, <3>1, <3>2, <3>3 DEF LoopOK
    <2>9. MessageOK'
      BY <2>5 DEF MessageOK
    <2> QED BY <2>7, <2>8, <2>9 DEF ReceiverInv
  <1>10. CASE FetchFails
    <2>1. PICK u : u = NextUid
      OBVIOUS
    <2>2. u \in recv.todo /\ u \in Uids /\ ~mailbox[u].seen
      BY <1>10, <2>1, NextIsDue DEF FetchFails, ReceiverInv, LoopOK, Unseen
    <2>3. /\ UNCHANGED <<objects, answers, processed, handled>>
          /\ recv' = [recv EXCEPT !.todo = @ \ {u}]
          /\ recv.uid = NoMail /\ recv.phase = "fetch"
      BY <1>8, <1>10, <2>1 DEF FetchFails, At, tables
    <2>4. /\ recv' \in [phase : {"wait", "fetch"}, uid : {NoMail}, todo : SUBSET Nat,
                        object : Nat, outcome : Outcomes]
          /\ recv'.todo = recv.todo \ {u}
      BY <1>1, <2>3
    <2>5. CASE UNCHANGED <<mailbox, lost>>
      BY <1>2, <1>4, <2>3, <2>4, <2>5 DEF ReceiverInv, LoopOK
    <2>6. CASE SetSeen(u) /\ lost' = lost \cup {u}
      <3>1. /\ mailbox' \in Seq([mail : Mails, seen : BOOLEAN]) /\ Uids' = Uids
            /\ \A v \in Uids \ {u} : mailbox'[v] = mailbox[v]
            /\ mailbox'[u].seen
        BY <2>2, <2>6, SeenIsAllThatChanges
      <3>2. ReceiverTypeOK'
        BY <1>4, <2>2, <2>3, <2>4, <2>6, <3>1 DEF ReceiverInv, ReceiverTypeOK
      <3>3. LoopOK'
        <4>1. recv'.todo \subseteq Unseen'
          BY <2>4, <3>1 DEF ReceiverInv, LoopOK, Unseen
        <4>2. \A v \in handled : mailbox'[v].seen
          BY <1>4, <3>1 DEF ReceiverInv, LoopOK
        <4> QED BY <2>3, <2>4, <4>1, <4>2 DEF LoopOK, Phases, NoMail
      <3>4. MessageOK'
        BY <2>4 DEF MessageOK
      <3> QED BY <3>2, <3>3, <3>4 DEF ReceiverInv
    <2> QED BY <1>10, <2>1, <2>5, <2>6 DEF FetchFails
  <1> QED BY <1>5, <1>6, <1>7, <1>9, <1>10

----------------------------------------------------------------------------
(* Steps of the loop that handle a message.                                 *)
LEMMA HandlingKeepsReceiver ==
    ASSUME ReceiverInv,
           \/ Check \/ CheckFails \/ FindObject \/ UpdateAttendeePartstat \/ LookupFails
           \/ Deposit \/ Mark \/ MarkFails
    PROVE  ReceiverInv'
  <1>1. recv \in [phase : Phases, uid : Nat, todo : SUBSET Nat, object : Nat, outcome : Outcomes]
    BY DEF ReceiverInv, LoopOK
  <1>2. recv.uid \in Uids /\ recv.uid # NoMail
    <2>1. recv.phase \in {"check", "find", "update", "deposit", "mark"}
      BY DEF Check, CheckFails, FindObject, UpdateAttendeePartstat, LookupFails, Deposit, Mark,
             MarkFails, At
    <2> QED BY <2>1, MessagesOfMailbox DEF ReceiverInv, ReceiverTypeOK
  <1> DEFINE Records == [phase : Phases, uid : Nat, todo : SUBSET Nat, object : Nat, outcome : Outcomes]
  (* Steps that go on with the message.                                      *)
  <1>3. ASSUME UNCHANGED <<mailbox, objects, processed, handled, lost>>,
               DOMAIN answers' = DOMAIN answers,
               \A k \in DOMAIN answers : answers'[k] \in Answers \cup {NeedsAction},
               recv' \in Records, recv'.uid = recv.uid, recv'.todo = recv.todo,
               recv'.phase \in {"find", "update", "deposit", "mark"}, MessageOK'
        PROVE  ReceiverInv'
    <2>1. ReceiverTypeOK'
      BY <1>2, <1>3 DEF ReceiverInv, ReceiverTypeOK, Uids
    <2>2. LoopOK'
      BY <1>2, <1>3 DEF ReceiverInv, LoopOK, Unseen, Uids
    <2> QED BY <1>3, <2>1, <2>2 DEF ReceiverInv
  (* Steps that end with it.                                                *)
  <1>4. ASSUME UNCHANGED <<mailbox, objects, answers, lost>>,
               handled' = handled \/ handled' = handled \cup {recv.uid},
               recv' \in Records, recv'.uid = NoMail, recv'.todo = recv.todo,
               recv'.phase = "fetch"
        PROVE  ReceiverInv'
    <2>1. handled' \subseteq Uids /\ \A u \in handled' : mailbox[u].seen
      BY <1>2, <1>4 DEF ReceiverInv, ReceiverTypeOK, LoopOK
    <2>2. ReceiverTypeOK'
      BY <1>4, <2>1 DEF ReceiverInv, ReceiverTypeOK, Uids
    <2>3. LoopOK'
      BY <1>4, <2>1 DEF ReceiverInv, LoopOK, Unseen, Uids
    <2>4. MessageOK'
      BY <1>4 DEF MessageOK
    <2> QED BY <2>2, <2>3, <2>4 DEF ReceiverInv
  <1>5. \A k \in DOMAIN answers : answers[k] \in Answers \cup {NeedsAction}
    BY DEF ReceiverInv, ReceiverTypeOK
  <1>6. ASSUME UNCHANGED <<mailbox, objects, processed, handled, lost>>,
               DOMAIN answers' = DOMAIN answers,
               \A k \in DOMAIN answers : answers'[k] \in Answers \cup {NeedsAction},
               NEW o \in Outcomes, recv' = [recv EXCEPT !.phase = "mark", !.outcome = o]
        PROVE  ReceiverInv'
    <2>1. recv' \in Records /\ recv'.phase = "mark" /\ recv'.uid = recv.uid /\ recv'.todo = recv.todo
      BY <1>1, <1>6 DEF Phases
    <2>2. MessageOK'
      BY <2>1 DEF MessageOK
    <2> QED BY <1>3, <1>6, <2>1, <2>2
  <1>6a. ASSUME UNCHANGED <<mailbox, objects, processed, handled, lost, answers>>,
                \/ Concludes("malformed") \/ Concludes("no_match") \/ Concludes("applied")
         PROVE  ReceiverInv'
    <2>1. PICK o \in Outcomes : recv' = [recv EXCEPT !.phase = "mark", !.outcome = o]
      BY <1>6a DEF Concludes, Outcomes
    <2> QED BY <1>5, <1>6, <1>6a, <2>1
  <1>7. ASSUME UNCHANGED <<mailbox, tables, handled, lost>>, Parsed,
               IsNews(Held)'
        PROVE  ReceiverInv'
    <2>1. CASE Held.good
      <3>1. recv' = [recv EXCEPT !.phase = "find"]
        BY <1>7, <2>1 DEF Parsed, Goto
      <3>2. recv' \in Records /\ recv'.phase = "find" /\ recv'.uid = recv.uid /\ recv'.todo = recv.todo
        BY <1>1, <3>1 DEF Phases
      <3>3. MessageOK'
        BY <1>7, <2>1, <3>2 DEF MessageOK, Held
      <3> QED BY <1>3, <1>5, <1>7, <3>2, <3>3 DEF tables
    <2>2. CASE ~Held.good
      BY <1>7, <1>6a, <2>2 DEF Parsed, tables
    <2> QED BY <2>1, <2>2
  <1>8. CASE Check
    <2>1. UNCHANGED <<mailbox, tables, handled, lost, doubts>>
      BY <1>8 DEF Check
    <2>2. CASE Known(Held)
      <3>1. recv' = [recv EXCEPT !.phase = "fetch", !.uid = NoMail]
        BY <1>8, <2>2 DEF Check
      <3>2. recv' \in Records /\ recv'.phase = "fetch" /\ recv'.uid = NoMail /\ recv'.todo = recv.todo
        BY <1>1, <3>1 DEF Phases, NoMail
      <3> QED BY <1>4, <2>1, <3>2 DEF tables
    <2>3. CASE ~Known(Held)
      <3>1. Parsed /\ recv'.uid = recv.uid
        BY <1>1, <1>8, <2>3 DEF Check, Parsed, Goto, Concludes
      <3>2. IsNews(Held)'
        BY <2>1, <2>3, <3>1 DEF IsNews, Held, Known, tables
      <3> QED BY <1>7, <2>1, <3>1, <3>2
    <2> QED BY <2>2, <2>3
  <1>9. CASE CheckFails
    <2>1. UNCHANGED <<mailbox, tables, handled, lost>> /\ Parsed /\ IsNews(Held)'
      BY <1>9 DEF CheckFails, IsNews
    <2> QED BY <1>7, <2>1
  <1>10. CASE FindObject
    <2> DEFINE found == {i \in DOMAIN objects : objects[i] = Held.event}
    <2>1. UNCHANGED <<mailbox, tables, handled, lost, doubts>>
      BY <1>10 DEF FindObject
    <2>2. CASE found = {}
      BY <1>10, <1>6a, <2>1, <2>2 DEF FindObject, tables
    <2>3. CASE found # {}
      <3>1. PICK i : i = Min(found)
        OBVIOUS
      <3>2. found \subseteq Nat
        BY ReceiverAssumption DEF ReceiverInv, ReceiverTypeOK
      <3>3. \E x \in found : \A y \in found : x <= y
        BY <2>3, <3>2, LeastOfNaturals
      <3>4. i \in found
        <4> HIDE DEF found
        <4> QED BY <3>1, <3>3 DEF Min
      <3>5. recv' = [recv EXCEPT !.phase = "update", !.object = i]
        BY <1>10, <2>3, <3>1 DEF FindObject
      <3>6. /\ recv' \in Records /\ recv'.phase = "update" /\ recv'.uid = recv.uid
            /\ recv'.todo = recv.todo /\ recv'.object = i
        BY <1>1, <3>2, <3>4, <3>5 DEF Phases
      <3>7. Held' = Held /\ FoundEvent'
        BY <2>1, <3>4, <3>6 DEF Held, FoundEvent, tables
      <3>8. recv.phase = "find" /\ Held.good /\ IsNews(Held)
        BY <1>10 DEF FindObject, At, ReceiverInv, MessageOK
      <3>9. MessageOK'
        BY <2>1, <3>6, <3>7, <3>8 DEF MessageOK, IsNews, tables
      <3> QED BY <1>3, <1>5, <2>1, <3>6, <3>9 DEF tables
    <2> QED BY <2>2, <2>3
  <1>11. CASE UpdateAttendeePartstat
    <2> DEFINE row == <<recv.object, Held.from>>
    <2>1. UNCHANGED <<mailbox, objects, processed, handled, lost, doubts>>
      BY <1>11 DEF UpdateAttendeePartstat
    <2>2. CASE row \notin DOMAIN answers
      BY <1>11, <1>6a, <2>1, <2>2 DEF UpdateAttendeePartstat
    <2>3. CASE row \in DOMAIN answers
      <3>1. answers' = [answers EXCEPT ![row] = Held.answer] /\ recv' = [recv EXCEPT !.phase = "deposit"]
        BY <1>11, <2>3 DEF UpdateAttendeePartstat, Goto
      <3>2. Held.answer \in Answers
        BY <1>2, MessagesOfMailbox DEF Held
      <3> HIDE DEF row
      <3>3. DOMAIN answers' = DOMAIN answers
            /\ \A k \in DOMAIN answers : answers'[k] \in Answers \cup {NeedsAction}
        BY <1>5, <3>1, <3>2
      <3>4. recv' \in Records /\ recv'.phase = "deposit" /\ recv'.uid = recv.uid /\ recv'.todo = recv.todo
        BY <1>1, <3>1 DEF Phases
      <3>5. MessageOK'
        BY <1>11, <2>1, <3>4 DEF UpdateAttendeePartstat, At, ReceiverInv, MessageOK, Held
      <3> QED BY <1>3, <2>1, <3>3, <3>4, <3>5
    <2> QED BY <2>2, <2>3
  <1>12. CASE LookupFails
    BY <1>12, <1>6a DEF LookupFails, tables
  <1>13. CASE Deposit
    BY <1>13, <1>6a DEF Deposit
  <1>14. CASE Mark \/ MarkFails
    <2>1. UNCHANGED <<mailbox, objects, answers, lost>>
          /\ handled' = handled \cup {recv.uid}
          /\ recv' = [phase |-> "fetch", uid |-> NoMail, todo |-> recv.todo, object |-> 0, outcome |-> ""]
      BY <1>14 DEF Mark, MarkFails, tables, Waiting
    <2>2. recv' \in Records /\ recv'.phase = "fetch" /\ recv'.uid = NoMail /\ recv'.todo = recv.todo
      BY <1>1, <2>1 DEF Phases, Outcomes, NoMail
    <2> QED BY <1>4, <2>1, <2>2
  <1> QED BY <1>8, <1>9, <1>10, <1>11, <1>12, <1>13, <1>14

LEMMA ReceiverKeeps == ReceiverInv /\ [ReceiverNext]_receiverVars => ReceiverInv'
  <1>1. ASSUME ReceiverInv, ReceiverNext PROVE ReceiverInv'
    BY <1>1, OthersKeepReceiver, FetchingKeepsReceiver, HandlingKeepsReceiver
       DEF ReceiverNext, ReceiverStep
  <1>2. ASSUME ReceiverInv, UNCHANGED receiverVars PROVE ReceiverInv'
    BY <1>2 DEF receiverVars, ReceiverInv, ReceiverTypeOK, LoopOK, MessageOK, Uids, Unseen,
                Held, IsNews, FoundEvent
  <1> QED BY <1>1, <1>2

LEMMA ReceiverStarts == ReceiverInit => ReceiverInv
  <1> SUFFICES ASSUME ReceiverInit PROVE ReceiverInv
    OBVIOUS
  <1>1. recv = [phase |-> "wait", uid |-> 0, todo |-> {}, object |-> 0, outcome |-> ""]
        /\ mailbox = <<>> /\ handled = {} /\ lost = {}
    BY DEF ReceiverInit, Waiting, NoMail
  <1>2. DOMAIN objects \subseteq ObjectIds /\ (\A i \in DOMAIN objects : objects[i] \in Events)
        /\ \A k \in DOMAIN answers : k \in (DOMAIN objects) \X Attendees /\ answers[k] = NeedsAction
    BY ReceiverAssumption DEF ReceiverInit
  <1>3. ReceiverTypeOK
    <2> DEFINE R == [mail : Mails, seen : BOOLEAN]
    <2>1. mailbox \in Seq(R)
      <3> HIDE DEF R
      <3>1. <<>> \in Seq(R)
        OBVIOUS
      <3> QED BY <1>1, <3>1, Zenon
    <2>2. recv.todo = {} /\ recv.uid = NoMail /\ recv.phase = "wait"
      BY <1>1 DEF NoMail
    <2> QED BY <1>1, <1>2, <2>1, <2>2 DEF ReceiverTypeOK
  <1>4. LoopOK
    BY <1>1 DEF LoopOK, Phases, Outcomes, Unseen, NoMail
  <1>5. MessageOK
    BY <1>1 DEF MessageOK
  <1> QED BY <1>3, <1>4, <1>5 DEF ReceiverInv

----------------------------------------------------------------------------
(* The mailbox, the tables and the loop keep their types, and an attendee    *)
(* row belongs to an object there is.                                       *)
THEOREM ReceiverTypeCorrect == ReceiverSpec => []ReceiverTypeOK
  <1>1. ReceiverInv => ReceiverTypeOK
    BY DEF ReceiverInv
  <1> QED BY <1>1, ReceiverStarts, ReceiverKeeps, PTL DEF ReceiverSpec

(* Only UpdateAttendeePartstat sets an answer, and what the loop knows then  *)
(* is what the property asks for.                                           *)
THEOREM AnswersAreNews == ReceiverSpec => AnswersComeFromNewMail
  <1> DEFINE FromNewMail ==
        \A k \in DOMAIN answers \cap DOMAIN answers' :
         answers'[k] # answers[k] =>
           \/ Invite(k[1], k[2], answers'[k])
           \/ \E u \in Uids \ handled :
                LET m == mailbox[u].mail IN
                /\ m.good /\ m.from = k[2] /\ m.answer = answers'[k]
                /\ m.event = objects[k[1]] \/ "object gone" \in doubts
                /\ m.id = NoId \/ m.id \notin DOMAIN processed
                     \/ "unchecked" \in doubts
  <1>1. ReceiverInv /\ [ReceiverNext]_receiverVars => [FromNewMail]_receiverVars
    <2> SUFFICES ASSUME ReceiverInv, ReceiverNext,
                        NEW k \in DOMAIN answers \cap DOMAIN answers',
                        answers'[k] # answers[k],
                        ~Invite(k[1], k[2], answers'[k])
                 PROVE  \E u \in Uids \ handled :
                          LET m == mailbox[u].mail IN
                          /\ m.good /\ m.from = k[2] /\ m.answer = answers'[k]
                          /\ m.event = objects[k[1]] \/ "object gone" \in doubts
                          /\ m.id = NoId \/ m.id \notin DOMAIN processed \/ "unchecked" \in doubts
      OBVIOUS
    <2> DEFINE row == <<recv.object, Held.from>>
    <2>1. UpdateAttendeePartstat
      <3>1. answers' # answers
        OBVIOUS
      <3>2. ~(\E m \in Mails : Arrive(m)) /\ ~(\E i \in ObjectIds, e \in Events : StoreEvent(i, e))
        BY <3>1 DEF Arrive, StoreEvent, tables
      <3>3. ASSUME NEW i \in ObjectIds, NEW a \in Attendees, NEW p \in Said, Invite(i, a, p)
            PROVE  FALSE
        <4>1. PICK r : r = <<i, a>>
          OBVIOUS
        <4>2. answers' = [j \in DOMAIN answers \cup {r} |-> IF j = r THEN p ELSE answers[j]]
          BY <3>3, <4>1 DEF Invite, With
        <4>3. k = r /\ answers'[k] = p
          BY <4>2
        <4>4. k[1] = i /\ k[2] = a
          BY <4>1, <4>3
        <4> QED BY <3>3, <4>3, <4>4
      <3>4. ~(\E i \in ObjectIds : DeleteEvent(i))
        BY DEF DeleteEvent, Without
      <3>5. ~(Search \/ Fetch \/ PollEnds \/ Check \/ FindObject \/ FetchFails \/ CheckFails
              \/ LookupFails \/ MarkFails \/ Dies)
        BY <3>1 DEF Search, Fetch, PollEnds, Check, FindObject, FetchFails, CheckFails,
                    LookupFails, MarkFails, Dies, tables
      <3>6. ~(Deposit \/ Mark)
        BY <3>1 DEF Deposit, Mark
      <3> QED BY <3>2, <3>3, <3>4, <3>5, <3>6 DEF ReceiverNext, ReceiverStep
    <2>2. row \in DOMAIN answers /\ answers' = [answers EXCEPT ![row] = Held.answer]
      BY <2>1 DEF UpdateAttendeePartstat
    <2>3. k = row /\ answers'[k] = Held.answer
      <3> HIDE DEF row
      <3> QED BY <2>2
    <2>4. k[1] = recv.object /\ k[2] = Held.from
      BY <2>3
    <2>5. recv.phase = "update" /\ recv.uid # NoMail
      BY <2>1 DEF UpdateAttendeePartstat, At, ReceiverInv, ReceiverTypeOK
    <2>6. recv.uid \in Uids \ handled
      BY <2>5, MessagesOfMailbox DEF ReceiverInv, LoopOK
    <2>7. Held.good /\ IsNews(Held) /\ FoundEvent
      BY <2>5 DEF ReceiverInv, MessageOK
    <2> QED BY <2>3, <2>4, <2>6, <2>7 DEF Held, IsNews, FoundEvent
  <1> HIDE DEF FromNewMail
  <1>2. ReceiverSpec => [][FromNewMail]_receiverVars
    BY <1>1, ReceiverStarts, ReceiverKeeps, PTL DEF ReceiverSpec
  <1> QED BY <1>2 DEF AnswersComeFromNewMail, FromNewMail
=============================================================================
