---------------------------- MODULE AutoSchedule ----------------------------
(***************************************************************************)
(* RFC 6638 auto-scheduling: the handlers of PUT and DELETE on an event    *)
(* (caldav/backend.go), of "resend invitations" (web/admin.go) and of an   *)
(* Inbox answer (web/inbox.go), with the passes of scheduling/scheduler.go *)
(* they run, over the object store.                                        *)
(*                                                                         *)
(* Every handler is a goroutine of its own and the pool holds one          *)
(* connection, so a database call is one step and the calls of several     *)
(* handlers interleave.  A slot holds one handler in progress, that is its *)
(* local variables and the place it has come to.                           *)
(***************************************************************************)
EXTENDS ObjectStore, Sequences

CONSTANTS
    Users,          \* local accounts, by address
    Externals,      \* addresses that are no account's
    Titles,         \* what a client writes in an event
    ClientBodies,   \* the bodies clients send
    InboxHref,      \* the hrefs of Inbox items
    CalendarOwner,  \* the owner of each calendar
    Writers,        \* the users with write access to each calendar
    Conditions,     \* the preconditions PUTs come with
    Answers,        \* the PARTSTATs an answer can choose
    Slots,          \* handlers that may be in progress at once
    MaxRequests     \* bound: requests that are ever begun

Addresses == Users \cup Externals

Partstats == {"NEEDS-ACTION"} \cup Answers

(* A body: what the client wrote, the ATTENDEE lines, their PARTSTATs with  *)
(* the default filled in, those among them with SCHEDULE-AGENT CLIENT or    *)
(* NONE, and those with a SCHEDULE-STATUS.                                  *)
BodyShape ==
    [title: Titles, attendees: SUBSET Addresses, partstat: [Addresses -> Partstats],
     client: SUBSET Addresses, status: SUBSET Addresses]

ASSUME ScheduleAssumption ==
    /\ Users \cap Externals = {}
    /\ "NEEDS-ACTION" \notin Answers
    /\ Conditions \subseteq {"none", "If-None-Match", "If-Match"}
    /\ CalendarOwner \in [Calendars -> Users]
    /\ Writers \in [Calendars -> SUBSET Users]
    /\ Bodies \subseteq BodyShape
    /\ ClientBodies \subseteq Bodies
    /\ \A b \in Bodies : b.status \subseteq b.attendees
    /\ \A b \in Bodies : \A s \in SUBSET b.attendees : [b EXCEPT !.status = s] \in Bodies
    /\ MaxRequests \in Nat

VARIABLES
    attState,   \* rows of attendee_state
    inbox,      \* rows of schedule_inbox_objects
    sent,       \* sent[a]: the iTIP messages ever handed over for a, in order:
                \* imip_outbound_queue rows, or (history) inbox deposits
    req,        \* req[s]: the handler in slot s
    echoed,     \* history: the blobs clients sent that carry a SCHEDULE-STATUS
    begun       \* requests begun, bounded by MaxRequests

scheduleVars == <<attState, inbox, sent>>
vars == <<objects, syncSeq, changes, attState, inbox, sent, req, echoed, begun>>

----------------------------------------------------------------------------
(* What a handler reads off a blob.                                        *)

(* HasScheduling is set by ORGANIZER alone too, but a pass over an event    *)
(* without attendees, or over a VTODO, does nothing.                        *)
Attendees(blob) == IF blob.comp = "VEVENT" THEN blob.body.attendees ELSE {}

Invitees(blob, user) == Attendees(blob) \ {user}

ServerManaged(blob, user) == Invitees(blob, user) \ blob.body.client

Bare(blob) == [blob EXCEPT !.body.status = {}]

(* Mutant: the pass strips the stored event as it strips its messages.     *)
AnnotatedStripsAgentMutant(blob, noted) ==
    [blob EXCEPT !.body.status = @ \cup noted, !.body.client = {}]

Annotated(blob, noted) == [blob EXCEPT !.body.status = @ \cup noted]

Message(method, obj, user) ==
    [method |-> method, uid |-> obj.blob.uid, title |-> obj.blob.body.title, from |-> user]

HandedOver(a, m) == \E i \in DOMAIN sent[a] : sent[a][i] = m

(* CreateInboxObject replaces what has the same href in the same Inbox:     *)
(* <uid>.ics, <uid>-cancel.ics or <uid>-reply-<user>.ics.  sanitizeHref     *)
(* writes every other character as "-", so that UIDs may share an href.     *)
Href(m) == InboxHref[<<m.method, m.uid, IF m.method = "REPLY" THEN m.from ELSE "">>]

SameHref(m, n) == Href(m) = Href(n)

Deposited(a, m) ==
    {e \in inbox : ~(e.user = a /\ SameHref(e.msg, m))} \cup {[user |-> a, msg |-> m]}

(* A message for a: into the Inbox of a user, onto the queue for another.   *)
HandOver(a, m) ==
    /\ sent' = [sent EXCEPT ![a] = Append(@, m)]
    /\ inbox' = IF a \in Users THEN Deposited(a, m) ELSE inbox

----------------------------------------------------------------------------
Resting == {[pc |-> "idle"], [pc |-> "cut"]}

InProgress(s) == req[s] \notin Resting

(* What of a request is a client's claim that the server invited someone.  *)
Claims(r) == IF r.pc = "put" /\ r.blob.body.status # {} THEN {r.blob} ELSE {}

(* A slot takes up a new request.                                          *)
Begin(s, r) ==
    /\ ~InProgress(s)
    /\ begun < MaxRequests
    /\ begun' = begun + 1
    /\ echoed' = echoed \cup Claims(r)
    /\ req' = [req EXCEPT ![s] = r]

Continue(s, r) == req' = [req EXCEPT ![s] = r] /\ UNCHANGED <<echoed, begun>>

Finish(s) == Continue(s, [pc |-> "idle"])

(* OnPut as user over obj, with todo the attendees it has not recorded yet, *)
(* handed the one of them already handed over, and noted those to annotate. *)
(* seqAt is a history variable: the calendar's sync_seq at the step that    *)
(* stored or read obj.                                                      *)
Pass(obj, user, seqAt, todo, handed, noted) ==
    IF todo = {} /\ noted = {} THEN [pc |-> "idle"]
    ELSE [pc |-> "invite", user |-> user, obj |-> obj, seqAt |-> seqAt,
          todo |-> todo, handed |-> handed, noted |-> noted]

OnPut(obj, user, seqAt) == Pass(obj, user, seqAt, Invitees(obj.blob, user), {}, {})

----------------------------------------------------------------------------
(* PUT.                                                                    *)

(* PutCalendarObject up to its precondition check: a PUT without one, with *)
(* If-None-Match, or with an If-Match that names the stored version.  One  *)
(* that fails the check is answered 412 and leaves no trace.               *)
BeginPut(s, user, c, h, blob, cond) ==
    /\ user \in Writers[c]
    /\ blob.body \in ClientBodies
    /\ cond = "If-None-Match" => ObjectsAt(c, h) = {}
    /\ cond = "If-Match" => ObjectsAt(c, h) # {}
    /\ Begin(s, [pc |-> "put", user |-> user, cal |-> c, href |-> h, blob |-> blob,
                 cond |-> cond, seen |-> ETagAt(c, h)])
    /\ UNCHANGED <<storeVars, scheduleVars>>

(* Mutant: a refused PUT is scheduled all the same.                        *)
StorePutIgnoresRefusalMutant(s) ==
    LET r == req[s] IN
    /\ r.pc = "put"
    /\ UNCHANGED scheduleVars
    /\ Continue(s, OnPut(StoredObject(r.cal, r.href, r.blob), r.user, syncSeq[r.cal] + 1))
    /\ \/ PutObject(r.cal, r.href, r.blob)
       \/ ~PutAccepted(r.cal, r.href, r.blob) /\ UNCHANGED storeVars

(* db.PutObject, and into OnPut with what it stored.                       *)
StorePut(s) ==
    LET r == req[s] IN
    /\ r.pc = "put"
    /\ UNCHANGED scheduleVars
    /\ \/ /\ PutObject(r.cal, r.href, r.blob)
          /\ Continue(s, OnPut(StoredObject(r.cal, r.href, r.blob), r.user, syncSeq[r.cal] + 1))
       \/ /\ ~PutAccepted(r.cal, r.href, r.blob)
          /\ Finish(s)
          /\ UNCHANGED storeVars

(* handleResendInvite: OnPut again, on the stored row of an own calendar.  *)
Resend(s, o) ==
    /\ Invitees(o.blob, CalendarOwner[o.cal]) # {}
    /\ Begin(s, OnPut(o, CalendarOwner[o.cal], syncSeq[o.cal]))
    /\ UNCHANGED <<storeVars, scheduleVars>>

(* deliverLocal or queueExternal for one attendee.  The queue row refers   *)
(* to the object by id: when that is gone the insert fails, and the pass   *)
(* with it.                                                                *)
Invite(s, a) ==
    LET r == req[s] IN
    /\ r.pc = "invite" /\ r.handed = {}
    /\ a \in r.todo \cap ServerManaged(r.obj.blob, r.user)
    /\ UNCHANGED <<storeVars, attState>>
    /\ IF a \in Externals /\ r.obj.id \notin Ids
       THEN Finish(s) /\ UNCHANGED <<inbox, sent>>
       ELSE /\ HandOver(a, Message("REQUEST", r.obj, r.user))
            /\ Continue(s, [r EXCEPT !.handed = {a}])

Upserted(row) ==
    {x \in attState : ~(x.obj = row.obj /\ x.email = row.email)} \cup {row}

(* Mutant: the loop over the attendees ends after the first.               *)
RecordStopsMutant(s, a) ==
    LET r == req[s]
        status == IF a \in r.obj.blob.body.client THEN "" ELSE IF a \in Users THEN "1.2" ELSE "1.1"
    IN
    /\ r.pc = "invite"
    /\ IF status = "" THEN a \in r.todo /\ r.handed = {} ELSE r.handed = {a}
    /\ UNCHANGED <<storeVars, inbox, sent>>
    /\ IF r.obj.id \notin Ids
       THEN Finish(s) /\ UNCHANGED attState
       ELSE /\ attState' = Upserted([obj |-> r.obj.id, email |-> a,
                                     partstat |-> r.obj.blob.body.partstat[a], status |-> status])
            /\ Continue(s, Pass(r.obj, r.user, r.seqAt, {}, {}, r.noted \cup r.handed))

(* Mutant: attendees left to their client are annotated too.               *)
RecordNotesAllMutant(s, a) ==
    LET r == req[s]
        status == IF a \in r.obj.blob.body.client THEN "" ELSE IF a \in Users THEN "1.2" ELSE "1.1"
    IN
    /\ r.pc = "invite"
    /\ IF status = "" THEN a \in r.todo /\ r.handed = {} ELSE r.handed = {a}
    /\ UNCHANGED <<storeVars, inbox, sent>>
    /\ IF r.obj.id \notin Ids
       THEN Finish(s) /\ UNCHANGED attState
       ELSE /\ attState' = Upserted([obj |-> r.obj.id, email |-> a,
                                     partstat |-> r.obj.blob.body.partstat[a], status |-> status])
            /\ Continue(s, Pass(r.obj, r.user, r.seqAt, r.todo \ {a}, {}, r.noted \cup {a}))

(* UpsertAttendeeState for the attendee just invited, or for one whose     *)
(* client does the scheduling, with the PARTSTAT the event has.  The row   *)
(* refers to the object by id too.                                         *)
Record(s, a) ==
    LET r == req[s]
        status == IF a \in r.obj.blob.body.client THEN "" ELSE IF a \in Users THEN "1.2" ELSE "1.1"
    IN
    /\ r.pc = "invite"
    /\ IF status = "" THEN a \in r.todo /\ r.handed = {} ELSE r.handed = {a}
    /\ UNCHANGED <<storeVars, inbox, sent>>
    /\ IF r.obj.id \notin Ids
       THEN Finish(s) /\ UNCHANGED attState
       ELSE /\ attState' = Upserted([obj |-> r.obj.id, email |-> a,
                                     partstat |-> r.obj.blob.body.partstat[a], status |-> status])
            /\ Continue(s, Pass(r.obj, r.user, r.seqAt, r.todo \ {a}, {}, r.noted \cup r.handed))

(* writeScheduleStatus, its error ignored.                                 *)
Annotate(s) ==
    LET r == req[s]
        blob == Annotated(r.obj.blob, r.noted)
    IN
    /\ r.pc = "invite" /\ r.todo = {}
    /\ \/ PutObject(r.obj.cal, r.obj.href, blob)
       \/ ~PutAccepted(r.obj.cal, r.obj.href, blob) /\ UNCHANGED storeVars
    /\ UNCHANGED scheduleVars
    /\ Finish(s)

----------------------------------------------------------------------------
(* DELETE.                                                                 *)

(* The lookup of DeleteCalendarObject: OnDelete will go through the        *)
(* attendees of the object found.                                          *)
BeginDelete(s, user, c, h) ==
    /\ user \in Writers[c]
    /\ \/ /\ ObjectsAt(c, h) = {}
          /\ Begin(s, [pc |-> "delete", cal |-> c, href |-> h, todo |-> {}])
       \/ \E o \in ObjectsAt(c, h) :
            Begin(s, [pc |-> "delete", cal |-> c, href |-> h, todo |-> ServerManaged(o.blob, user),
                      user |-> user, obj |-> o, seqAt |-> syncSeq[c]])
    /\ UNCHANGED <<storeVars, scheduleVars>>

(* Mutant: the first CANCEL is the last.                                   *)
CancelStopsMutant(s, a) ==
    LET r == req[s] IN
    /\ r.pc = "delete" /\ a \in r.todo
    /\ IF a \in Externals /\ r.obj.id \notin Ids
       THEN UNCHANGED <<inbox, sent>>
       ELSE HandOver(a, Message("CANCEL", r.obj, r.user))
    /\ Continue(s, [r EXCEPT !.todo = {}])
    /\ UNCHANGED <<storeVars, attState>>

(* A CANCEL for one attendee; the error of a failed insert is ignored.     *)
Cancel(s, a) ==
    LET r == req[s] IN
    /\ r.pc = "delete" /\ a \in r.todo
    /\ IF a \in Externals /\ r.obj.id \notin Ids
       THEN UNCHANGED <<inbox, sent>>
       ELSE HandOver(a, Message("CANCEL", r.obj, r.user))
    /\ Continue(s, [r EXCEPT !.todo = @ \ {a}])
    /\ UNCHANGED <<storeVars, attState>>

(* Mutant: no ON DELETE CASCADE.                                           *)
RemoveKeepsRowsMutant(s) ==
    LET r == req[s] IN
    /\ r.pc = "delete" /\ r.todo = {}
    /\ \/ DeleteObject(r.cal, r.href)
       \/ ObjectsAt(r.cal, r.href) = {} /\ UNCHANGED storeVars
    /\ UNCHANGED scheduleVars
    /\ Finish(s)

(* db.DeleteObject, or 404.  The attendee rows go with the object.         *)
Remove(s) ==
    LET r == req[s] IN
    /\ r.pc = "delete" /\ r.todo = {}
    /\ \/ DeleteObject(r.cal, r.href)
       \/ ObjectsAt(r.cal, r.href) = {} /\ UNCHANGED storeVars
    /\ attState' = {x \in attState : \A o \in ObjectsAt(r.cal, r.href) : x.obj # o.id}
    /\ UNCHANGED <<inbox, sent>>
    /\ Finish(s)

----------------------------------------------------------------------------
(* An answer from the Inbox page: handleInboxRespond on a REQUEST shown     *)
(* there, with RespondLocal.                                                *)

(* ObjectByUIDAny: the object with the lowest id among those with the UID. *)
OldestWithUid(uid) ==
    {o \in objects : o.blob.uid = uid /\ \A p \in objects : p.blob.uid = uid => o.id <= p.id}

BeginAnswer(s, item, partstat) ==
    /\ item.msg.method = "REQUEST"
    /\ \/ /\ OldestWithUid(item.msg.uid) = {}
          /\ Begin(s, [pc |-> "dismiss", item |-> item])
       \/ \E o \in OldestWithUid(item.msg.uid) :
            Begin(s, [pc |-> "answer", item |-> item, obj |-> o, partstat |-> partstat])
    /\ UNCHANGED <<storeVars, scheduleVars>>

(* The page lets a user dismiss whatever asks for no answer.               *)
BeginDismiss(s, item) ==
    /\ item.msg.method # "REQUEST"
    /\ Begin(s, [pc |-> "dismiss", item |-> item])
    /\ UNCHANGED <<storeVars, scheduleVars>>

(* Mutant: an answer that finds no row is given up.                        *)
AnswerGivesUpMutant(s) ==
    LET r == req[s]
        mine(x) == x.obj = r.obj.id /\ x.email = r.item.user
    IN
    /\ r.pc = "answer"
    /\ attState' = {IF mine(x) THEN [x EXCEPT !.partstat = r.partstat, !.status = "2.0"] ELSE x :
                      x \in attState}
    /\ Continue(s, [r EXCEPT !.pc = IF \E x \in attState : mine(x) THEN "reply" ELSE "dismiss"])
    /\ UNCHANGED <<storeVars, inbox, sent>>

(* UpdateAttendeePartstat: no row, no change, and the error is ignored.    *)
(* For a VTODO the reply has no component, and go-ical refuses to encode   *)
(* it: there is none.                                                      *)
Answer(s) ==
    LET r == req[s]
        mine(x) == x.obj = r.obj.id /\ x.email = r.item.user
    IN
    /\ r.pc = "answer"
    /\ attState' = {IF mine(x) THEN [x EXCEPT !.partstat = r.partstat, !.status = "2.0"] ELSE x :
                      x \in attState}
    /\ Continue(s, [r EXCEPT !.pc = IF r.obj.blob.comp = "VEVENT" THEN "reply" ELSE "dismiss"])
    /\ UNCHANGED <<storeVars, inbox, sent>>

(* The REPLY into the Inbox of the owner of the calendar.                  *)
Reply(s) ==
    LET r == req[s] IN
    /\ r.pc = "reply"
    /\ HandOver(CalendarOwner[r.obj.cal], Message("REPLY", r.obj, r.item.user))
    /\ Continue(s, [r EXCEPT !.pc = "dismiss"])
    /\ UNCHANGED <<storeVars, attState>>

(* DeleteInboxObject, by href.                                             *)
Dismiss(s) ==
    LET r == req[s] IN
    /\ r.pc = "dismiss"
    /\ inbox' = {e \in inbox : ~(e.user = r.item.user /\ SameHref(e.msg, r.item.msg))}
    /\ Finish(s)
    /\ UNCHANGED <<storeVars, attState, sent>>

----------------------------------------------------------------------------
(* The client goes away and net/http cancels the request's context, or the *)
(* process dies: no further database call of this handler succeeds.        *)
Disconnect(s) ==
    /\ InProgress(s)
    /\ Continue(s, [pc |-> "cut"])
    /\ UNCHANGED <<storeVars, scheduleVars>>

Init ==
    /\ StoreInit
    /\ attState = {}
    /\ inbox = {}
    /\ sent = [a \in Addresses |-> <<>>]
    /\ req = [s \in Slots |-> [pc |-> "idle"]]
    /\ echoed = {}
    /\ begun = 0

Arrive(s) ==
    \/ \E user \in Users, c \in Calendars, h \in Hrefs :
         \/ \E blob \in Blob, cond \in Conditions :
              BeginPut(s, user, c, h, blob, cond)
         \/ BeginDelete(s, user, c, h)
    \/ \E o \in objects : Resend(s, o)
    \/ \E item \in inbox :
         \/ \E partstat \in Answers : BeginAnswer(s, item, partstat)
         \/ BeginDismiss(s, item)

Proceed(s) ==
    \/ StorePut(s)
    \/ \E a \in Addresses : Invite(s, a) \/ Record(s, a) \/ Cancel(s, a)
    \/ Annotate(s)
    \/ Remove(s)
    \/ Answer(s)
    \/ Reply(s)
    \/ Dismiss(s)

Next == \E s \in Slots : Arrive(s) \/ Proceed(s) \/ Disconnect(s)

(* A handler that was begun runs on: a goroutine whose database calls wait *)
(* for the one connection at most as long as another call holds it.        *)
Spec == Init /\ [][Next]_vars /\ \A s \in Slots : WF_vars(Proceed(s))

----------------------------------------------------------------------------
Etags == {ETag(b) : b \in Blob} \cup {NoETag}

AttRow ==
    [obj: Nat, email: Addresses, partstat: Partstats, status: {"", "1.1", "1.2", "2.0"}]

Msg == [method: {"REQUEST", "CANCEL", "REPLY"}, uid: Uids, title: Titles, from: Users]

InboxItem == [user: Users, msg: Msg]

Handler ==
    Resting
    \cup [pc: {"put"}, user: Users, cal: Calendars, href: Hrefs, blob: Blob,
          cond: Conditions, seen: Etags]
    \cup [pc: {"invite"}, user: Users, obj: Object, seqAt: Nat, todo: SUBSET Addresses,
          handed: SUBSET Addresses, noted: SUBSET Addresses]
    \cup [pc: {"delete"}, cal: Calendars, href: Hrefs, todo: {{}}]
    \cup [pc: {"delete"}, cal: Calendars, href: Hrefs, todo: SUBSET Addresses,
          user: Users, obj: Object, seqAt: Nat]
    \cup [pc: {"answer", "reply", "dismiss"}, item: InboxItem, obj: Object, partstat: Answers]
    \cup [pc: {"dismiss"}, item: InboxItem]

(* Shapes, the keys of attendee_state and of the Inbox, and the foreign    *)
(* key: no attendee row outlives its object.                               *)
ScheduleTypeOK ==
    /\ StoreTypeOK
    /\ attState \subseteq AttRow
    /\ inbox \subseteq InboxItem
    /\ sent \in [Addresses -> Seq(Msg)]
    /\ req \in [Slots -> Handler]
    /\ echoed \subseteq Blob
    /\ begun \in 0 .. MaxRequests
    /\ \A x \in attState : x.obj \in Ids
    /\ \A x, y \in attState : x.obj = y.obj /\ x.email = y.email => x = y
    /\ \A d, e \in inbox : d.user = e.user /\ SameHref(d.msg, e.msg) => d = e

(* A SCHEDULE-STATUS on a stored event is no invention of the server's:    *)
(* the attendee has been handed an invitation to the event as it stands    *)
(* there, or a client sent that version with the status on it.  (The pass  *)
(* annotates a copy of its own, and newer versions may come and go         *)
(* meanwhile.)                                                             *)
AnnotationsTrue ==
    \A o \in objects : \A a \in o.blob.body.status :
        \/ \E u \in Users : HandedOver(a, Message("REQUEST", o, u))
        \/ \E b \in echoed : Bare(b) = Bare(o.blob) /\ a \in b.body.status

(* When a pass annotates its event, it is done: every attendee whose        *)
(* scheduling the server does has a status there and the invitation to      *)
(* that version, whatever statuses the client had sent along.               *)
AnnotationIsComplete ==
    [][\A s \in Slots : req[s].pc = "invite" /\ Annotate(s) =>
        \A o \in objects' \ objects : \A a \in ServerManaged(o.blob, req[s].user) :
            /\ a \in o.blob.body.status
            /\ HandedOver(a, Message("REQUEST", o, req[s].user))]_vars

(* An invitation or a cancellation speaks of a version that was stored,    *)
(* as the journal tells, and goes to an attendee of that version whose     *)
(* scheduling the server does.  A refused PUT invites nobody.              *)
MessagesTellStoredVersions ==
    \A a \in Addresses : \A i \in DOMAIN sent[a] :
        sent[a][i].method # "REPLY" =>
            \E e \in changes \ {f \in changes : f.op = "deleted"} :
                LET blob == e.etag.sha256 IN
                /\ blob.uid = sent[a][i].uid /\ blob.body.title = sent[a][i].title
                /\ a \in ServerManaged(blob, sent[a][i].from)

(* The calendar has not changed since the handler in slot s read or stored *)
(* its object.                                                             *)
Undisturbed(s) == syncSeq[req[s].obj.cal] = req[s].seqAt

(* A DELETE that nothing interferes with leaves no attendee of the event   *)
(* it removes uncancelled: each of them has the CANCEL of that version     *)
(* before the event goes.                                                  *)
UndisturbedDeleteCancels ==
    \A s \in Slots :
        LET r == req[s] IN
        r.pc = "delete" /\ "obj" \in DOMAIN r /\ Undisturbed(s) =>
            \A a \in ServerManaged(r.obj.blob, r.user) \ r.todo :
                HandedOver(a, Message("CANCEL", r.obj, r.user))

Bared == {[o EXCEPT !.blob = Bare(@)] : o \in objects}

(* The last step of a pass, annotating the event, changes nothing else in  *)
(* the calendar, provided nothing was written there since the version the  *)
(* pass is about.                                                          *)
UndisturbedAnnotation ==
    [][\A s \in Slots : req[s].pc = "invite" /\ Undisturbed(s) /\ Annotate(s) => Bared' = Bared]_vars

(* The same with nothing provided: scheduler.go says of the pass that it   *)
(* annotates "the stored event" so that clients see the outcome.           *)
AnnotationOnlyAnnotates ==
    [][\A s \in Slots : Annotate(s) => Bared' = Bared]_vars

(* A PUT with If-Match replaces the version it names, and one with         *)
(* If-None-Match replaces nothing: "PutCalendarObject stores an object,    *)
(* honoring If-Match and If-None-Match".                                   *)
IfMatchHonored ==
    [][\A s \in Slots :
        req[s].pc = "put" /\ req[s].cond # "none" /\ StorePut(s) =>
            ETagAt(req[s].cal, req[s].href) = req[s].seen \/ UNCHANGED objects]_vars

(* An answer that was given (status 2.0) is not forgotten: "As people       *)
(* respond, their status updates on the event."                            *)
AnswersStick ==
    [][\A x \in attState, y \in attState' :
        x.obj = y.obj /\ x.email = y.email /\ x.status = "2.0" =>
            y.partstat # "NEEDS-ACTION"]_vars

(* A pass invites every attendee whose scheduling the server does, unless  *)
(* its handler is cut short or its event goes.                             *)
InvitationsGoOut ==
    \A s \in Slots :
        LET r == req[s] IN
        r.pc = "invite" ~>
            \/ r.pc = "cut"
            \/ /\ r.pc = "invite"
               /\ \/ r.obj.id \notin Ids
                  \/ \A a \in ServerManaged(r.obj.blob, r.user) :
                       HandedOver(a, Message("REQUEST", r.obj, r.user))

(* An answer to an invitation whose event is found reaches the owner of    *)
(* the event's calendar, unless its handler is cut short.                  *)
AnswersReachOwner ==
    \A s \in Slots :
        LET r == req[s] IN
        r.pc = "answer" /\ r.obj.blob.comp = "VEVENT" ~>
            \/ r.pc = "cut"
            \/ /\ r.pc = "dismiss" /\ "obj" \in DOMAIN r
               /\ HandedOver(CalendarOwner[r.obj.cal], Message("REPLY", r.obj, r.item.user))
=============================================================================
