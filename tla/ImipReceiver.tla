---------------------------- MODULE ImipReceiver ----------------------------
(***************************************************************************)
(* Answers that come by mail: the loop that polls an IMAP mailbox           *)
(* (imip/receiver.go) and what it does with a message (imip/reply.go), each *)
(* database call a step.  The organizer's side goes on meanwhile: events    *)
(* are stored and deleted, and a pass of the scheduler writes attendee      *)
(* rows (both modelled in full by AutoSchedule).                            *)
(***************************************************************************)
EXTENDS Integers, Sequences, FiniteSetsExt

CONSTANTS
    Attendees,      \* external addresses
    Events,         \* UIDs
    FirstEvent,     \* the one of them that is stored before the loop starts
    ObjectIds,      \* ids of rows of objects
    Mails,          \* the messages that may arrive, each any number of times
    Said,           \* what an event may say of an attendee when it is stored
    MaxMails,       \* bound: messages that arrive
    MaxChanges,     \* bound: what the organizer's side does
    ServesAfterLogout, \* whether the mail server serves commands behind a LOGOUT
    MaxFailures     \* bound: crashes, failed fetches and failed database calls

NoId == "no Message-ID"
Answers == {"ACCEPTED", "DECLINED"}
NeedsAction == "NEEDS-ACTION"
NoMail == 0

(* A well-formed message answers for one attendee of one event; a malformed *)
(* one has the rest for show.                                               *)
Mail == [id : STRING, good : BOOLEAN, from : Attendees, event : Events, answer : Answers]

ASSUME ReceiverAssumption ==
    /\ FirstEvent \in Events
    /\ ObjectIds \subseteq Nat \ {0} /\ 1 \in ObjectIds
    /\ Mails \subseteq Mail
    /\ \A m, n \in Mails : m.id = n.id /\ m.id # NoId => m = n
    /\ Said \subseteq Answers \cup {NeedsAction}
    /\ ServesAfterLogout \in BOOLEAN
    /\ MaxMails \in Nat /\ MaxChanges \in Nat /\ MaxFailures \in Nat

VARIABLES
    mailbox,    \* the messages in the order of their IMAP uids, and their \Seen flags
    objects,    \* objects[i]: the UID of the object with id i
    answers,    \* answers[<<i, a>>]: partstat of a's row for that object
    inbox,      \* inbox[e]: the reply in the organizer's Inbox, one for each UID
    processed,  \* outcomes by Message-ID, imip_inbound_processed
    recv,       \* what the loop is at
    handled,    \* history: uids of messages that came to an outcome
    lost,       \* history: uids that a fault cost after the server had set \Seen
    doubts,     \* history: what went wrong while the message at hand was handled
    changes, failures

receiverVars == <<mailbox, objects, answers, inbox, processed, recv, handled, lost, doubts,
                  changes, failures>>
tables == <<objects, answers, inbox, processed>>

Uids == DOMAIN mailbox
At(phase) == recv.phase = phase
Held == mailbox[recv.uid].mail
Waiting == [phase |-> "wait", uid |-> NoMail, todo |-> {}, object |-> 0, outcome |-> ""]

Failure == failures < MaxFailures /\ failures' = failures + 1

Goto(phase) == recv' = [recv EXCEPT !.phase = phase]
Concludes(outcome) == recv' = [recv EXCEPT !.phase = "mark", !.outcome = outcome]

With(table, key, row) == [k \in DOMAIN table \cup {key} |-> IF k = key THEN row ELSE table[k]]
Without(table, keys) == [k \in DOMAIN table \ keys |-> table[k]]

(* An event has been stored and its attendees have been invited.            *)
ReceiverInit ==
    /\ mailbox = <<>>
    /\ objects = [i \in {1} |-> FirstEvent]
    /\ answers = [k \in {1} \X Attendees |-> NeedsAction]
    /\ inbox = <<>> /\ processed = <<>>
    /\ recv = Waiting
    /\ handled = {} /\ lost = {} /\ doubts = {}
    /\ changes = 0 /\ failures = 0

----------------------------------------------------------------------------
(* The mailbox and the organizer's side.                                    *)

Arrive(m) ==
    /\ Len(mailbox) < MaxMails
    /\ mailbox' = Append(mailbox, [mail |-> m, seen |-> FALSE])
    /\ UNCHANGED <<tables, recv, handled, lost, doubts, changes, failures>>

Change == changes < MaxChanges /\ changes' = changes + 1

(* An event is stored, in whatever calendar: a UID may be in several, and   *)
(* the new row has an id above all others.                                  *)
StoreEvent(i, e) ==
    /\ Change
    /\ \A j \in DOMAIN objects : j < i
    /\ objects' = With(objects, i, e)
    /\ UNCHANGED <<mailbox, answers, inbox, processed, recv, handled, lost, doubts, failures>>

(* A pass of the scheduler over the object, for one attendee: it records    *)
(* what the event says of her, NEEDS-ACTION when it says nothing.           *)
Invite(i, a, partstat) ==
    /\ Change
    /\ i \in DOMAIN objects
    /\ answers' = With(answers, <<i, a>>, partstat)
    /\ UNCHANGED <<mailbox, objects, inbox, processed, recv, handled, lost, doubts, failures>>

(* The attendee rows go with the object.                                    *)
DeleteEvent(i) ==
    /\ Change
    /\ i \in DOMAIN objects
    /\ objects' = Without(objects, {i})
    /\ answers' = Without(answers, {k \in DOMAIN answers : k[1] = i})
    /\ doubts' = doubts \cup (IF recv.object = i THEN {"object gone"} ELSE {})
    /\ UNCHANGED <<mailbox, inbox, processed, recv, handled, lost, failures>>

----------------------------------------------------------------------------
(* The loop                                                                 *)

Unseen == {u \in Uids : ~mailbox[u].seen}

(* poll connects, logs in, selects the folder and searches; when it cannot,  *)
(* the next tick tries again.  LOGOUT goes out as the deferred call's        *)
(* receiver is evaluated, so SELECT and SEARCH come behind it.              *)
Search ==
    /\ At("wait")
    /\ ServesAfterLogout
    /\ Unseen # {}
    /\ recv' = [Waiting EXCEPT !.phase = "fetch", !.todo = Unseen]
    /\ UNCHANGED <<mailbox, tables, handled, lost, doubts, changes, failures>>

NextUid == CHOOSE u \in recv.todo : \A v \in recv.todo : u <= v

SetSeen(u) == mailbox' = [mailbox EXCEPT ![u].seen = TRUE]

(* BODY[] without PEEK: the server sets \Seen as it answers, so that the    *)
(* flag or the move after process adds nothing.                             *)
Fetch ==
    /\ At("fetch") /\ recv.todo # {}
    /\ SetSeen(NextUid)
    /\ recv' = [recv EXCEPT !.phase = "check", !.uid = NextUid, !.todo = @ \ {NextUid}]
    /\ doubts' = {}
    /\ UNCHANGED <<tables, handled, lost, changes, failures>>

(* The message is left for the next poll, unless the server got as far as   *)
(* setting \Seen.                                                           *)
FetchFails ==
    /\ At("fetch") /\ recv.todo # {}
    /\ Failure
    /\ recv' = [recv EXCEPT !.todo = @ \ {NextUid}]
    /\ \/ UNCHANGED <<mailbox, lost>>
       \/ SetSeen(NextUid) /\ lost' = lost \cup {NextUid}
    /\ UNCHANGED <<tables, handled, doubts, changes>>

PollEnds ==
    /\ At("fetch") /\ recv.todo = {}
    /\ recv' = Waiting
    /\ UNCHANGED <<mailbox, tables, handled, lost, doubts, changes, failures>>

(* Mutant: what IMIPProcessed says is not looked at.                        *)
KnownNeverMutant(m) == FALSE

Known(m) == m.id # NoId /\ m.id \in DOMAIN processed


(* ApplyReply, as far as it looks at the message alone.                     *)
Parsed == IF Held.good THEN Goto("find") ELSE Concludes("malformed")

(* IMIPProcessed.                                                           *)
Check ==
    /\ At("check")
    /\ IF Known(Held) THEN recv' = [recv EXCEPT !.phase = "fetch", !.uid = NoMail] ELSE Parsed
    /\ UNCHANGED <<mailbox, tables, handled, lost, doubts, changes, failures>>

(* The error is dropped, and not to know is taken for no.                   *)
CheckFails ==
    /\ At("check")
    /\ Failure
    /\ Parsed
    /\ doubts' = doubts \cup {"unchecked"}
    /\ UNCHANGED <<mailbox, tables, handled, lost, changes>>

(* ObjectByUIDAny: the lowest id, whoever's calendar it is in.              *)
FindObject ==
    LET found == {i \in DOMAIN objects : objects[i] = Held.event} IN
    /\ At("find")
    /\ IF found = {} THEN Concludes("no_match")
       ELSE recv' = [recv EXCEPT !.phase = "update", !.object = Min(found)]
    /\ UNCHANGED <<mailbox, tables, handled, lost, doubts, changes, failures>>

(* No row, no match.                                                        *)
UpdateAttendeePartstat ==
    LET row == <<recv.object, Held.from>> IN
    /\ At("update")
    /\ IF row \notin DOMAIN answers THEN Concludes("no_match") /\ UNCHANGED answers
       ELSE answers' = [answers EXCEPT ![row] = Held.answer] /\ Goto("deposit")
    /\ UNCHANGED <<mailbox, objects, inbox, processed, handled, lost, doubts, changes, failures>>

(* Any error of the two calls is no match as well.                          *)
LookupFails ==
    /\ (At("find") \/ At("update"))
    /\ Failure
    /\ Concludes("no_match")
    /\ UNCHANGED <<mailbox, tables, handled, lost, doubts, changes>>

(* CalendarOwner and CreateInboxObject, which replaces the reply before it. *)
Deposit ==
    /\ At("deposit")
    /\ \/ recv.object \in DOMAIN objects
          /\ inbox' = With(inbox, Held.event, [from |-> Held.from, answer |-> Held.answer])
          /\ UNCHANGED failures
       \/ recv.object \notin DOMAIN objects /\ UNCHANGED <<inbox, failures>>
       \/ Failure /\ UNCHANGED inbox
    /\ Concludes("applied")
    /\ UNCHANGED <<mailbox, objects, answers, processed, handled, lost, doubts, changes>>

(* MarkIMIPInbound: INSERT OR IGNORE.                                       *)
Mark ==
    /\ At("mark")
    /\ processed' = IF Held.id = NoId \/ Held.id \in DOMAIN processed THEN processed
                    ELSE With(processed, Held.id, recv.outcome)
    /\ handled' = handled \cup {recv.uid}
    /\ recv' = [Waiting EXCEPT !.phase = "fetch", !.todo = recv.todo]
    /\ UNCHANGED <<mailbox, objects, answers, inbox, lost, doubts, changes, failures>>

MarkFails ==
    /\ At("mark")
    /\ Failure
    /\ handled' = handled \cup {recv.uid}
    /\ recv' = [Waiting EXCEPT !.phase = "fetch", !.todo = recv.todo]
    /\ UNCHANGED <<mailbox, tables, lost, doubts, changes>>

(* The process dies and is started again.                                   *)
Dies ==
    /\ Failure
    /\ recv' = Waiting
    /\ lost' = lost \cup ({recv.uid} \ {NoMail})
    /\ UNCHANGED <<mailbox, tables, handled, doubts, changes>>

ReceiverStep ==
    \/ Fetch \/ PollEnds \/ Check \/ FindObject \/ UpdateAttendeePartstat
    \/ Deposit \/ Mark

ReceiverNext ==
    \/ \E m \in Mails : Arrive(m)
    \/ \E i \in ObjectIds, e \in Events : StoreEvent(i, e)
    \/ \E i \in ObjectIds, a \in Attendees, partstat \in Said : Invite(i, a, partstat)
    \/ \E i \in ObjectIds : DeleteEvent(i)
    \/ Search \/ ReceiverStep
    \/ FetchFails \/ CheckFails \/ LookupFails \/ MarkFails \/ Dies

(* The loop runs as long as the process does; the IMAP client has timeouts, *)
(* so that a fetch ends.  Nothing makes the mail server serve a poll.       *)
ReceiverFairness == WF_receiverVars(ReceiverStep)

ReceiverSpec == ReceiverInit /\ [][ReceiverNext]_receiverVars /\ ReceiverFairness

----------------------------------------------------------------------------
ReceiverTypeOK ==
    /\ mailbox \in Seq([mail : Mails, seen : BOOLEAN])
    /\ DOMAIN objects \subseteq ObjectIds /\ \A i \in DOMAIN objects : objects[i] \in Events
    /\ \A k \in DOMAIN answers :
         /\ k \in (DOMAIN objects) \X Attendees
         /\ answers[k] \in Answers \cup {NeedsAction}
    /\ recv.todo \subseteq Uids /\ recv.uid \in Uids \cup {NoMail}
    /\ (recv.phase \in {"check", "find", "update", "deposit", "mark"}) <=> (recv.uid # NoMail)
    /\ handled \subseteq Uids /\ lost \subseteq Uids

(* A recorded answer changes only by a pass of the organizer's side over    *)
(* that event, or by a message of that very attendee that says so, about    *)
(* that event, and that neither it nor a copy of it was handled before.     *)
(* Excepted are an object that was deleted, so that its id may be           *)
(* another's, while the message was at hand, and a copy the database could  *)
(* not be asked about.                                                      *)
AnswersComeFromNewMail ==
    [][\A k \in DOMAIN answers \cap DOMAIN answers' :
         answers'[k] # answers[k] =>
           \/ Invite(k[1], k[2], answers'[k])
           \/ \E u \in Uids \ handled :
                LET m == mailbox[u].mail IN
                /\ m.good /\ m.from = k[2] /\ m.answer = answers'[k]
                /\ m.event = objects[k[1]] \/ "object gone" \in doubts
                /\ m.id = NoId \/ m.id \notin DOMAIN processed
                     \/ "unchecked" \in doubts]_receiverVars

DealtWith(u) ==
    \/ u \in lost
    \/ \E v \in handled :
         v = u \/ (mailbox[v].mail.id = mailbox[u].mail.id /\ mailbox[u].mail.id # NoId)

=============================================================================
