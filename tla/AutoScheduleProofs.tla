------------------------- MODULE AutoScheduleProofs -------------------------
(***************************************************************************)
(* Proofs about AutoSchedule, however many handlers are in progress and    *)
(* however they interleave: what ObjectStoreProofs shows of the store      *)
(* holds of it under the handlers; a SCHEDULE-STATUS on a stored event is  *)
(* backed by an invitation that was handed over, or by the client that     *)
(* sent it; a pass that annotates has invited everybody; every message     *)
(* tells of a version that was stored; and a deletion or a pass that       *)
(* nothing disturbs cancels with everybody, or annotates and no more.      *)
(***************************************************************************)
EXTENDS AutoSchedule, ObjectStoreProofs

(* a has been handed an invitation to the event o stores. *)
Told(a, o) == \E u \in Users : HandedOver(a, Message("REQUEST", o, u))

(* Some client sent the event o stores with a status for a. *)
Claimed(a, o) == \E b \in echoed : Bare(b) = Bare(o.blob) /\ a \in b.body.status

Vouched(a, o) == Told(a, o) \/ Claimed(a, o)

(* What is always true of a handler by itself. *)
HandlerOK(r) ==
    /\ r.pc = "put" =>
         /\ r.user \in Users /\ r.cal \in Calendars /\ r.href \in Hrefs
         /\ r.blob \in Blob
    /\ r.pc = "invite" =>
         /\ r.user \in Users /\ r.obj \in Object
         /\ r.todo \subseteq Attendees(r.obj.blob)
         /\ r.handed \subseteq Attendees(r.obj.blob)
         /\ r.noted \subseteq Attendees(r.obj.blob)
    /\ r.pc = "delete" =>
         /\ r.cal \in Calendars /\ r.href \in Hrefs
         /\ r.todo # {} => /\ r.user \in Users /\ r.obj \in Object
                           /\ r.todo \subseteq Addresses
    /\ r.pc \in {"answer", "reply"} => r.item.user \in Users /\ r.obj \in Object

(* What a handler has behind it: a PUT with statuses is the client's own   *)
(* claim, and a pass annotates whom it has invited, which is everybody it   *)
(* is done with.                                                           *)
Backed(r) ==
    /\ r.pc = "put" /\ r.blob.body.status # {} => r.blob \in echoed
    /\ r.pc = "invite" =>
         /\ \A a \in r.noted \cup r.handed : HandedOver(a, Message("REQUEST", r.obj, r.user))
         /\ \A a \in r.obj.blob.body.status : Vouched(a, r.obj)
         /\ ServerManaged(r.obj.blob, r.user) \subseteq r.todo \cup r.noted

ScheduleInv ==
    /\ StoreInv
    /\ sent \in [Addresses -> Seq(Msg)]
    /\ inbox \subseteq InboxItem
    /\ echoed \subseteq Blob
    /\ req = [s \in Slots |-> req[s]]
    /\ \A s \in Slots : HandlerOK(req[s]) /\ Backed(req[s])
    /\ AnnotationsTrue

(* What every step must do: keep the invariant, and treat the store as its  *)
(* interface allows.                                                       *)
Kept == ScheduleInv' /\ [StoreNext]_storeVars

----------------------------------------------------------------------------
(* A message about a stored object is one. *)
LEMMA MessageTyped ==
    ASSUME NEW method \in {"REQUEST", "CANCEL", "REPLY"}, NEW o \in Object, NEW u \in Users
    PROVE  Message(method, o, u) \in Msg
<1>1. o.blob \in Blob
  BY DEF Object
<1>2. o.blob.body \in BodyShape /\ o.blob.uid \in Uids
  BY <1>1, ScheduleAssumption DEF Blob
<1> QED
  BY <1>2 DEF Message, Msg, BodyShape

(* What an event says of anyone is a PARTSTAT. *)
LEMMA PartstatTyped ==
    ASSUME NEW b \in Blob, NEW a \in Addresses
    PROVE  b.body.partstat[a] \in Partstats
<1>1. b.body \in BodyShape
  BY ScheduleAssumption DEF Blob
<1> QED
  BY <1>1 DEF BodyShape

(* The attendees of an event are addresses. *)
LEMMA AttendeesAreAddresses ==
    ASSUME NEW b \in Blob
    PROVE  /\ Attendees(b) \subseteq Addresses
           /\ Attendees(b) \subseteq b.body.attendees
           /\ b.body.status \subseteq b.body.attendees
           /\ b.body.attendees \subseteq Addresses
<1>1. b.body \in BodyShape /\ b.body.status \subseteq b.body.attendees
  BY ScheduleAssumption DEF Blob
<1> QED
  BY <1>1 DEF BodyShape, Attendees

(* Annotating an event yields a blob that says the same of the event. *)
LEMMA AnnotatedIsBlob ==
    ASSUME NEW b \in Blob, NEW noted, noted \subseteq Attendees(b)
    PROVE  /\ Annotated(b, noted) \in Blob
           /\ Annotated(b, noted).uid = b.uid
           /\ Annotated(b, noted).body.title = b.body.title
           /\ Annotated(b, noted).body.status = b.body.status \cup noted
<1>1. b.body \in Bodies /\ b.body \in BodyShape
  BY ScheduleAssumption DEF Blob
<1>2. b.body.status \cup noted \in SUBSET b.body.attendees
  BY AttendeesAreAddresses
<1>3. [b.body EXCEPT !.status = b.body.status \cup noted] \in Bodies
  BY <1>1, <1>2, ScheduleAssumption
<1>4. Annotated(b, noted) = [b EXCEPT !.body = [b.body EXCEPT !.status = b.body.status \cup noted]]
  BY DEF Annotated
<1>5. /\ [b.body EXCEPT !.status = b.body.status \cup noted].title = b.body.title
      /\ [b.body EXCEPT !.status = b.body.status \cup noted].status = b.body.status \cup noted
  BY <1>1 DEF BodyShape
<1> DEFINE body == [b.body EXCEPT !.status = b.body.status \cup noted]
<1>6. [b EXCEPT !.body = body] \in Blob /\ [b EXCEPT !.body = body].body = body
      /\ [b EXCEPT !.body = body].uid = b.uid
  BY <1>3 DEF Blob
<1> QED
  BY <1>4, <1>5, <1>6

(* Annotations apart, an annotated event is the event.                     *)
LEMMA BareOfAnnotated ==
    ASSUME NEW b \in Blob, NEW noted
    PROVE  Bare(Annotated(b, noted)) = Bare(b)
<1>1. b.body \in BodyShape
  BY ScheduleAssumption DEF Blob
<1>2. [[b.body EXCEPT !.status = b.body.status \cup noted] EXCEPT !.status = {}]
        = [b.body EXCEPT !.status = {}]
  BY <1>1 DEF BodyShape
<1> DEFINE body == [b.body EXCEPT !.status = b.body.status \cup noted]
<1>3. Annotated(b, noted) = [b EXCEPT !.body = body]
  BY DEF Annotated
<1>4. Bare(Annotated(b, noted)) = [[b EXCEPT !.body = body] EXCEPT !.body = [body EXCEPT !.status = {}]]
  BY <1>3 DEF Bare, Blob
<1>5. Bare(b) = [b EXCEPT !.body = [b.body EXCEPT !.status = {}]]
  BY DEF Bare
<1> HIDE DEF body
<1>6. [body EXCEPT !.status = {}] = [b.body EXCEPT !.status = {}]
  BY <1>2 DEF body
<1> QED
  BY <1>4, <1>5, <1>6 DEF Blob

(* Whom the server schedules does not depend on the annotations. *)
LEMMA ManagedOfAnnotated ==
    ASSUME NEW b \in Blob, NEW noted, noted \subseteq Attendees(b), NEW u
    PROVE  ServerManaged(Annotated(b, noted), u) = ServerManaged(b, u)
<1>1. b.body \in BodyShape
  BY ScheduleAssumption DEF Blob
<1>2. PICK body : body = [b.body EXCEPT !.status = b.body.status \cup noted]
  OBVIOUS
<1>3. body.attendees = b.body.attendees /\ body.client = b.body.client
  BY <1>1, <1>2 DEF BodyShape
<1>4. Annotated(b, noted) = [b EXCEPT !.body = body]
  BY <1>2 DEF Annotated
<1>5. [b EXCEPT !.body = body].body = body /\ [b EXCEPT !.body = body].comp = b.comp
  BY DEF Blob
<1> QED
  BY <1>3, <1>4, <1>5 DEF ServerManaged, Invitees, Attendees

(* A hand-over adds its message and takes none away. *)
LEMMA HandOverGrows ==
    ASSUME sent \in [Addresses -> Seq(Msg)], inbox \subseteq InboxItem,
           NEW a \in Addresses, NEW m \in Msg, HandOver(a, m)
    PROVE  /\ sent' \in [Addresses -> Seq(Msg)]
           /\ inbox' \subseteq InboxItem
           /\ HandedOver(a, m)'
           /\ \A b \in Addresses, n \in Msg : HandedOver(b, n) => HandedOver(b, n)'
<1>1. sent' = [sent EXCEPT ![a] = Append(@, m)]
  BY DEF HandOver
<1>2. sent' \in [Addresses -> Seq(Msg)]
  BY <1>1
<1>3. /\ sent'[a] = Append(sent[a], m)
      /\ \A b \in Addresses \ {a} : sent'[b] = sent[b]
  BY <1>1
<1>4. /\ sent[a] \in Seq(Msg)
      /\ DOMAIN sent[a] = 1 .. Len(sent[a]) /\ DOMAIN sent'[a] = 1 .. (Len(sent[a]) + 1)
      /\ sent'[a][Len(sent[a]) + 1] = m
      /\ \A i \in 1 .. Len(sent[a]) : sent'[a][i] = sent[a][i]
      /\ Len(sent[a]) \in Nat
  BY <1>3
<1>5. HandedOver(a, m)'
  <2>1. Len(sent[a]) + 1 \in DOMAIN sent'[a]
    BY <1>4
  <2> QED
    BY <1>4, <2>1 DEF HandedOver
<1>6. ASSUME NEW b \in Addresses, NEW n \in Msg, HandedOver(b, n) PROVE HandedOver(b, n)'
  <2>1. PICK i \in DOMAIN sent[b] : sent[b][i] = n
    BY <1>6 DEF HandedOver
  <2>2. CASE b = a
    <3>1. i \in DOMAIN sent'[b] /\ sent'[b][i] = n
      BY <1>4, <2>1, <2>2
    <3> QED
      BY <3>1 DEF HandedOver
  <2>3. CASE b # a
    BY <1>3, <2>1, <2>3 DEF HandedOver
  <2> QED
    BY <2>2, <2>3
<1>7. inbox' \subseteq InboxItem
  BY DEF HandOver, Deposited, InboxItem
<1> QED
  BY <1>2, <1>5, <1>6, <1>7

(* Once told, told. *)
LEMMA ToldStays ==
    ASSUME NEW a \in Addresses, NEW o \in Object, Told(a, o),
           \A b \in Addresses, n \in Msg : HandedOver(b, n) => HandedOver(b, n)'
    PROVE  Told(a, o)'
<1>1. PICK u \in Users : HandedOver(a, Message("REQUEST", o, u))
  BY DEF Told
<1>2. Message("REQUEST", o, u) \in Msg
  BY MessageTyped
<1> QED
  BY <1>1, <1>2 DEF Told

(* And what is vouched for stays so. *)
LEMMA VouchedStays ==
    ASSUME NEW a \in Addresses, NEW o \in Object, Vouched(a, o), echoed \subseteq echoed',
           \A b \in Addresses, n \in Msg : HandedOver(b, n) => HandedOver(b, n)'
    PROVE  Vouched(a, o)'
<1>1. CASE Told(a, o)
  BY <1>1, ToldStays DEF Vouched
<1>2. CASE Claimed(a, o)
  BY <1>2 DEF Vouched, Claimed
<1> QED
  BY <1>1, <1>2 DEF Vouched

(* Whether an attendee of an event is vouched for does not depend on the    *)
(* event's annotations.                                                    *)
LEMMA VouchedOfSame ==
    ASSUME NEW a, NEW o, NEW p, p.blob.uid = o.blob.uid, p.blob.body.title = o.blob.body.title,
           Bare(p.blob) = Bare(o.blob), Vouched(a, o)
    PROVE  Vouched(a, p)
<1>1. Told(a, o) => Told(a, p)
  BY DEF Told, Message
<1>2. Claimed(a, o) => Claimed(a, p)
  BY DEF Claimed
<1> QED
  BY <1>1, <1>2 DEF Vouched

----------------------------------------------------------------------------
(* A pass over a stored event is a handler as it should be. *)
LEMMA PassOK ==
    ASSUME NEW o \in Object, NEW u \in Users, NEW q,
           NEW todo, todo \subseteq Attendees(o.blob),
           NEW handed, handed \subseteq Attendees(o.blob),
           NEW noted, noted \subseteq Attendees(o.blob)
    PROVE  HandlerOK(Pass(o, u, q, todo, handed, noted))
BY DEF Pass, HandlerOK

(* A step that is a store step, hands over and takes nothing back, and      *)
(* leaves slot s as it should be keeps the invariant.                       *)
LEMMA Advance ==
    ASSUME ScheduleInv, [StoreNext]_storeVars,
           sent' \in [Addresses -> Seq(Msg)], inbox' \subseteq InboxItem,
           \A b \in Addresses, n \in Msg : HandedOver(b, n) => HandedOver(b, n)',
           echoed \subseteq echoed', echoed' \subseteq Blob,
           NEW s \in Slots, NEW r, req' = [req EXCEPT ![s] = r],
           HandlerOK(r), Backed(r)',
           \A o \in objects' \ objects : \A a \in o.blob.body.status : Vouched(a, o)'
    PROVE  Kept
<1>1. StoreInv'
  BY StoreStep DEF ScheduleInv
<1>2. req' = [t \in Slots |-> req'[t]]
  BY DEF ScheduleInv
<1>3. ASSUME NEW t \in Slots PROVE HandlerOK(req[t])' /\ Backed(req[t])'
  <2>1. CASE t = s
    <3>1. req'[s] = r
      BY DEF ScheduleInv
    <3>2. HandlerOK(req[t])'
      BY <2>1, <3>1 DEF HandlerOK
    <3>3. Backed(req[t])'
      BY <2>1, <3>1 DEF Backed
    <3> QED
      BY <3>2, <3>3
  <2>2. CASE t # s
    <3>1. req'[t] = req[t]
      BY <2>2 DEF ScheduleInv
    <3>2. PICK q : q = req[t]
      OBVIOUS
    <3>3. HandlerOK(q) /\ Backed(q)
      BY <3>2 DEF ScheduleInv
    <3>4. Backed(q)'
      <4>1. CASE q.pc # "invite"
        BY <3>3, <4>1 DEF Backed
      <4>2. CASE q.pc = "invite"
        <5>1. q.obj \in Object /\ q.obj.blob \in Blob /\ q.user \in Users
          BY <3>3, <4>2 DEF HandlerOK, Object
        <5>2. Message("REQUEST", q.obj, q.user) \in Msg
          BY <5>1, MessageTyped
        <5>3. q.noted \cup q.handed \subseteq Addresses /\ q.obj.blob.body.status \subseteq Addresses
          BY <3>3, <4>2, <5>1, AttendeesAreAddresses DEF HandlerOK
        <5>4. \A a \in q.noted \cup q.handed : HandedOver(a, Message("REQUEST", q.obj, q.user))'
          BY <3>3, <4>2, <5>2, <5>3 DEF Backed
        <5>5. \A a \in q.obj.blob.body.status : Vouched(a, q.obj)'
          BY <3>3, <4>2, <5>1, <5>3, VouchedStays DEF Backed
        <5> QED
          BY <3>3, <4>2, <5>4, <5>5 DEF Backed
      <4> QED
        BY <4>1, <4>2
    <3>5. HandlerOK(req[t])'
      BY <3>1, <3>2, <3>3 DEF HandlerOK
    <3>6. Backed(req[t])'
      BY <3>1, <3>2, <3>4 DEF Backed
    <3> QED
      BY <3>5, <3>6
  <2> QED
    BY <2>1, <2>2
<1>4. AnnotationsTrue'
  <2> SUFFICES ASSUME NEW o \in objects', NEW a \in o.blob.body.status
               PROVE  Vouched(a, o)'
    BY DEF AnnotationsTrue, Vouched, Told, Claimed
  <2>1. CASE o \in objects
    <3>1. o \in Object /\ o.blob \in Blob
      BY <2>1 DEF ScheduleInv, StoreInv, StoreTypeOK, Object
    <3>2. a \in Addresses
      BY <3>1, AttendeesAreAddresses
    <3>3. Vouched(a, o)
      BY <2>1 DEF ScheduleInv, AnnotationsTrue, Vouched, Told, Claimed
    <3> QED
      BY <3>1, <3>2, <3>3, VouchedStays
  <2>2. CASE o \notin objects
    BY <2>2
  <2> QED
    BY <2>1, <2>2
<1> QED
  BY <1>1, <1>2, <1>3, <1>4 DEF ScheduleInv, Kept

(* The same when nothing is stored and nothing handed over. *)
LEMMA AdvanceQuietly ==
    ASSUME ScheduleInv, UNCHANGED <<objects, syncSeq, changes, inbox, sent>>,
           echoed \subseteq echoed', echoed' \subseteq Blob,
           NEW s \in Slots, NEW r, req' = [req EXCEPT ![s] = r],
           HandlerOK(r), Backed(r)'
    PROVE  Kept
<1>1. UNCHANGED storeVars /\ objects' = objects
  BY DEF storeVars
<1>2. sent' \in [Addresses -> Seq(Msg)] /\ inbox' \subseteq InboxItem
  BY DEF ScheduleInv
<1>3. \A b \in Addresses, n \in Msg : HandedOver(b, n) => HandedOver(b, n)'
  BY DEF HandedOver
<1> QED
  BY <1>1, <1>2, <1>3, Advance

(* A handler at rest, or with no pass, has nothing to answer for. *)
LEMMA RestOK ==
    /\ HandlerOK([pc |-> "idle"]) /\ Backed([pc |-> "idle"])'
    /\ HandlerOK([pc |-> "cut"]) /\ Backed([pc |-> "cut"])'
BY DEF HandlerOK, Backed

(* A handler that goes on makes no claim. *)
LEMMA GoingOn ==
    ASSUME ScheduleInv, NEW s \in Slots, NEW r, Continue(s, r)
    PROVE  /\ echoed' = echoed /\ echoed \subseteq echoed' /\ echoed' \subseteq Blob
           /\ req' = [req EXCEPT ![s] = r]
BY DEF Continue, ScheduleInv

(* One that begins adds its claims. *)
LEMMA GoingIn ==
    ASSUME ScheduleInv, NEW s \in Slots, NEW r, Begin(s, r), r.pc = "put" => r.blob \in Blob
    PROVE  /\ echoed \subseteq echoed' /\ echoed' \subseteq Blob
           /\ r.pc = "put" /\ r.blob.body.status # {} => r.blob \in echoed'
           /\ req' = [req EXCEPT ![s] = r]
BY DEF Begin, Claims, ScheduleInv

----------------------------------------------------------------------------
(* What a put stores at an href is an event without annotations, if the    *)
(* blob has none; nothing else is new in the store.                        *)
LEMMA PutStores ==
    ASSUME ScheduleInv, NEW c \in Calendars, NEW h \in Hrefs, NEW b \in Blob,
           PutObject(c, h, b)
    PROVE  /\ [StoreNext]_storeVars
           /\ StoredObject(c, h, b) \in Object
           /\ StoredObject(c, h, b).blob = b
           /\ \A o \in objects' \ objects : o.blob = b
<1>1. [StoreNext]_storeVars
  BY DEF StoreNext
<1>2. StoredObject(c, h, b) \in Object /\ StoredObject(c, h, b).blob = b
  BY StoredObjectIsObject DEF ScheduleInv, StoreInv, StoredObject
<1>3. \A o \in objects' \ objects : o = StoredObject(c, h, b)
  BY DEF PutObject
<1> QED
  BY <1>1, <1>2, <1>3

(* A pass that begins has everybody to go through still. *)
LEMMA FreshPassBacked ==
    ASSUME NEW o, NEW u, NEW q, \A a \in o.blob.body.status : Vouched(a, o)'
    PROVE  Backed(OnPut(o, u, q))'
<1>1. PICK r : r = OnPut(o, u, q)
  OBVIOUS
<1>2. CASE r.pc # "invite"
  BY <1>1, <1>2 DEF OnPut, Pass, Backed
<1>3. CASE r.pc = "invite"
  <2>1. r.obj = o /\ r.user = u /\ r.todo = Invitees(o.blob, u) /\ r.handed = {} /\ r.noted = {}
    BY <1>1, <1>3 DEF OnPut, Pass
  <2>2. ServerManaged(o.blob, u) \subseteq Invitees(o.blob, u)
    BY DEF ServerManaged
  <2> QED
    BY <1>1, <1>3, <2>1, <2>2 DEF Backed
<1> QED
  BY <1>2, <1>3

(* The requests that begin: nothing is stored, nothing handed over. *)
LEMMA ArriveStep ==
    ASSUME ScheduleInv, NEW s \in Slots, Arrive(s)
    PROVE  Kept
<1>1. ASSUME NEW user \in Users, NEW c \in Calendars, NEW h \in Hrefs, NEW blob \in Blob,
             NEW cond \in Conditions, BeginPut(s, user, c, h, blob, cond)
      PROVE  Kept
  <2>1. PICK r : r = [pc |-> "put", user |-> user, cal |-> c, href |-> h, blob |-> blob,
                      cond |-> cond, seen |-> ETagAt(c, h)]
    OBVIOUS
  <2>2. Begin(s, r) /\ UNCHANGED <<objects, syncSeq, changes, inbox, sent>>
    BY <1>1, <2>1 DEF BeginPut, storeVars, scheduleVars
  <2>3. HandlerOK(r) /\ r.pc = "put" /\ r.blob \in Blob
    BY <1>1, <2>1 DEF BeginPut, HandlerOK
  <2>4. /\ echoed \subseteq echoed' /\ echoed' \subseteq Blob
        /\ r.blob.body.status # {} => r.blob \in echoed'
        /\ req' = [req EXCEPT ![s] = r]
    BY <2>2, <2>3, GoingIn
  <2>5. Backed(r)'
    BY <2>3, <2>4 DEF Backed
  <2> QED
    BY <2>2, <2>3, <2>4, <2>5, AdvanceQuietly
<1>2. ASSUME NEW user \in Users, NEW c \in Calendars, NEW h \in Hrefs, BeginDelete(s, user, c, h)
      PROVE  Kept
  <2>1. UNCHANGED <<objects, syncSeq, changes, inbox, sent>>
    BY <1>2 DEF BeginDelete, storeVars, scheduleVars
  <2>2. CASE Begin(s, [pc |-> "delete", cal |-> c, href |-> h, todo |-> {}])
    <3>1. PICK r : r = [pc |-> "delete", cal |-> c, href |-> h, todo |-> {}]
      OBVIOUS
    <3>2. HandlerOK(r) /\ Backed(r)' /\ r.pc # "put"
      BY <3>1 DEF HandlerOK, Backed
    <3> QED
      BY <2>1, <2>2, <3>1, <3>2, GoingIn, AdvanceQuietly
  <2>3. ASSUME NEW o \in ObjectsAt(c, h),
               Begin(s, [pc |-> "delete", cal |-> c, href |-> h, todo |-> ServerManaged(o.blob, user),
                         user |-> user, obj |-> o, seqAt |-> syncSeq[c]])
        PROVE  Kept
    <3>1. PICK r : r = [pc |-> "delete", cal |-> c, href |-> h, todo |-> ServerManaged(o.blob, user),
                        user |-> user, obj |-> o, seqAt |-> syncSeq[c]]
      OBVIOUS
    <3>2. o \in Object /\ o.blob \in Blob
      BY DEF ObjectsAt, ScheduleInv, StoreInv, StoreTypeOK, Object
    <3>3. ServerManaged(o.blob, user) \subseteq Addresses
      BY <3>2, AttendeesAreAddresses DEF ServerManaged, Invitees
    <3>4. HandlerOK(r) /\ Backed(r)' /\ r.pc # "put"
      BY <3>1, <3>2, <3>3 DEF HandlerOK, Backed
    <3> QED
      BY <2>1, <2>3, <3>1, <3>4, GoingIn, AdvanceQuietly
  <2> QED
    BY <1>2, <2>2, <2>3 DEF BeginDelete
<1>3. ASSUME NEW o \in objects, Resend(s, o) PROVE Kept
  <2>1. UNCHANGED <<objects, syncSeq, changes, inbox, sent>>
    BY <1>3 DEF Resend, storeVars, scheduleVars
  <2>2. PICK r : r = OnPut(o, CalendarOwner[o.cal], syncSeq[o.cal])
    OBVIOUS
  <2>3. o \in Object /\ o.blob \in Blob /\ CalendarOwner[o.cal] \in Users
    BY ScheduleAssumption DEF ScheduleInv, StoreInv, StoreTypeOK, Object
  <2>4. HandlerOK(r)
    BY <2>2, <2>3, PassOK DEF OnPut, Invitees
  <2>5. Begin(s, r) /\ r.pc # "put"
    BY <1>3, <2>2 DEF Resend, OnPut, Pass
  <2>6. /\ echoed \subseteq echoed' /\ echoed' \subseteq Blob
        /\ req' = [req EXCEPT ![s] = r]
    BY <2>5, GoingIn
  <2>7. \A a \in o.blob.body.status : Vouched(a, o)
    BY DEF ScheduleInv, AnnotationsTrue, Vouched, Told, Claimed
  <2>8. \A b \in Addresses, n \in Msg : HandedOver(b, n) => HandedOver(b, n)'
    BY <2>1 DEF HandedOver
  <2>9. \A a \in o.blob.body.status : Vouched(a, o)'
    <3>1. o.blob.body.status \subseteq Addresses
      BY <2>3, AttendeesAreAddresses
    <3> QED
      BY <2>3, <2>6, <2>7, <2>8, <3>1, VouchedStays
  <2>10. Backed(r)'
    BY <2>2, <2>9, FreshPassBacked
  <2> QED
    BY <2>1, <2>4, <2>6, <2>10, AdvanceQuietly
<1>4. ASSUME NEW item \in inbox, NEW partstat \in Answers, BeginAnswer(s, item, partstat)
      PROVE  Kept
  <2>1. UNCHANGED <<objects, syncSeq, changes, inbox, sent>>
    BY <1>4 DEF BeginAnswer, storeVars, scheduleVars
  <2>2. CASE Begin(s, [pc |-> "dismiss", item |-> item])
    <3>1. PICK r : r = [pc |-> "dismiss", item |-> item]
      OBVIOUS
    <3>2. HandlerOK(r) /\ Backed(r)' /\ r.pc # "put"
      BY <3>1 DEF HandlerOK, Backed
    <3> QED
      BY <2>1, <2>2, <3>1, <3>2, GoingIn, AdvanceQuietly
  <2>3. ASSUME NEW o \in OldestWithUid(item.msg.uid),
               Begin(s, [pc |-> "answer", item |-> item, obj |-> o, partstat |-> partstat])
        PROVE  Kept
    <3>1. PICK r : r = [pc |-> "answer", item |-> item, obj |-> o, partstat |-> partstat]
      OBVIOUS
    <3>2. o \in Object /\ item.user \in Users
      BY DEF OldestWithUid, ScheduleInv, StoreInv, StoreTypeOK, InboxItem
    <3>3. HandlerOK(r) /\ Backed(r)' /\ r.pc # "put"
      BY <3>1, <3>2 DEF HandlerOK, Backed
    <3> QED
      BY <2>1, <2>3, <3>1, <3>3, GoingIn, AdvanceQuietly
  <2> QED
    BY <1>4, <2>2, <2>3 DEF BeginAnswer
<1>5. ASSUME NEW item \in inbox, BeginDismiss(s, item) PROVE Kept
  <2>1. PICK r : r = [pc |-> "dismiss", item |-> item]
    OBVIOUS
  <2>2. Begin(s, r) /\ UNCHANGED <<objects, syncSeq, changes, inbox, sent>>
    BY <1>5, <2>1 DEF BeginDismiss, storeVars, scheduleVars
  <2>3. HandlerOK(r) /\ Backed(r)' /\ r.pc # "put"
    BY <2>1 DEF HandlerOK, Backed
  <2> QED
    BY <2>2, <2>3, GoingIn, AdvanceQuietly
<1> QED
  BY <1>1, <1>2, <1>3, <1>4, <1>5 DEF Arrive

(* A PUT stored, or refused. *)
LEMMA StorePutStep ==
    ASSUME ScheduleInv, NEW s \in Slots, StorePut(s)
    PROVE  Kept
<1>1. PICK r : r = req[s]
  OBVIOUS
<1>2. /\ r.pc = "put" /\ r.user \in Users /\ r.cal \in Calendars /\ r.href \in Hrefs
      /\ r.blob \in Blob
      /\ r.blob.body.status # {} => r.blob \in echoed
  BY <1>1 DEF StorePut, ScheduleInv, HandlerOK, Backed
<1>3. inbox' = inbox /\ sent' = sent
  BY DEF StorePut, scheduleVars
<1>4. CASE PutObject(r.cal, r.href, r.blob) /\
           Continue(s, OnPut(StoredObject(r.cal, r.href, r.blob), r.user, syncSeq[r.cal] + 1))
  <2>1. PICK o : o = StoredObject(r.cal, r.href, r.blob)
    OBVIOUS
  <2>2. PICK q : q = OnPut(o, r.user, syncSeq[r.cal] + 1)
    OBVIOUS
  <2>3. /\ [StoreNext]_storeVars
        /\ o \in Object /\ o.blob = r.blob
        /\ \A x \in objects' \ objects : x.blob = r.blob
    BY <1>2, <1>4, <2>1, PutStores
  <2>4. HandlerOK(q)
    BY <1>2, <2>2, <2>3, PassOK DEF OnPut, Invitees
  <2>5. Continue(s, q)
    BY <1>4, <2>1, <2>2
  <2>6. /\ echoed' = echoed /\ echoed \subseteq echoed' /\ echoed' \subseteq Blob
        /\ req' = [req EXCEPT ![s] = q]
    BY <2>5, GoingOn
  <2>7. ASSUME NEW x, x.blob = r.blob, NEW a \in x.blob.body.status PROVE Vouched(a, x)'
    BY <1>2, <2>6, <2>7 DEF Vouched, Claimed
  <2>8. Backed(q)'
    BY <2>2, <2>3, <2>7, FreshPassBacked
  <2>9. \A x \in objects' \ objects : \A a \in x.blob.body.status : Vouched(a, x)'
    BY <2>3, <2>7
  <2>10. /\ sent' \in [Addresses -> Seq(Msg)] /\ inbox' \subseteq InboxItem
         /\ \A b \in Addresses, n \in Msg : HandedOver(b, n) => HandedOver(b, n)'
    BY <1>3 DEF ScheduleInv, HandedOver
  <2> QED
    BY <2>3, <2>4, <2>6, <2>8, <2>9, <2>10, Advance
<1>5. CASE Finish(s) /\ UNCHANGED storeVars
  BY <1>3, <1>5, RestOK, GoingOn, AdvanceQuietly DEF Finish, storeVars
<1> QED
  BY <1>1, <1>4, <1>5 DEF StorePut

(* A hand-over by the handler in slot s. *)
LEMMA AdvanceTelling ==
    ASSUME ScheduleInv, UNCHANGED <<objects, syncSeq, changes>>,
           NEW a \in Addresses, NEW m \in Msg, HandOver(a, m),
           NEW s \in Slots, NEW r, Continue(s, r),
           HandlerOK(r), Backed(r)'
    PROVE  Kept
<1>1. [StoreNext]_storeVars /\ objects' = objects
  BY DEF storeVars
<1>2. /\ sent' \in [Addresses -> Seq(Msg)] /\ inbox' \subseteq InboxItem
      /\ \A b \in Addresses, n \in Msg : HandedOver(b, n) => HandedOver(b, n)'
  BY HandOverGrows DEF ScheduleInv
<1> QED
  BY <1>1, <1>2, GoingOn, Advance

(* An attendee invited. *)
LEMMA InviteStep ==
    ASSUME ScheduleInv, NEW s \in Slots, NEW a \in Addresses, Invite(s, a)
    PROVE  Kept
<1>1. PICK r : r = req[s]
  OBVIOUS
<1>2. PICK m : m = Message("REQUEST", r.obj, r.user)
  OBVIOUS
<1>3. /\ r.pc = "invite" /\ r.handed = {} /\ a \in r.todo
      /\ HandlerOK(r) /\ Backed(r)
      /\ UNCHANGED <<objects, syncSeq, changes>>
  BY <1>1 DEF Invite, ScheduleInv, storeVars
<1>4. r.user \in Users /\ r.obj \in Object /\ r.obj.blob \in Blob /\ m \in Msg
  BY <1>2, <1>3, MessageTyped DEF HandlerOK, Object
<1>5. CASE Finish(s) /\ UNCHANGED <<inbox, sent>>
  BY <1>3, <1>5, RestOK, GoingOn, AdvanceQuietly DEF Finish
<1>6. CASE HandOver(a, m) /\ Continue(s, [r EXCEPT !.handed = {a}])
  <2>1. PICK q : q = [r EXCEPT !.handed = {a}]
    OBVIOUS
  <2>2. /\ q.pc = "invite" /\ q.user = r.user /\ q.obj = r.obj /\ q.todo = r.todo
        /\ q.noted = r.noted /\ q.handed \subseteq {a}
    BY <1>3, <2>1
  <2>3. HandlerOK(q)
    BY <1>3, <2>2 DEF HandlerOK
  <2>4. HandedOver(a, m)' /\ \A b \in Addresses, n \in Msg : HandedOver(b, n) => HandedOver(b, n)'
    BY <1>4, <1>6, HandOverGrows DEF ScheduleInv
  <2>5. ASSUME NEW b \in r.noted PROVE HandedOver(b, m)'
    <3>1. b \in Addresses
      BY <1>3, <1>4, AttendeesAreAddresses DEF HandlerOK
    <3> QED
      BY <1>2, <1>3, <1>4, <2>4, <3>1 DEF Backed
  <2>6. Continue(s, q)
    BY <1>6, <2>1
  <2>7. ASSUME NEW b \in r.obj.blob.body.status PROVE Vouched(b, r.obj)'
    <3>1. b \in Addresses
      BY <1>4, AttendeesAreAddresses
    <3>2. Vouched(b, r.obj)
      BY <1>3 DEF Backed
    <3> QED
      BY <1>4, <2>4, <2>6, <3>1, <3>2, GoingOn, VouchedStays
  <2>8. ServerManaged(r.obj.blob, r.user) \subseteq r.todo \cup r.noted
    BY <1>3 DEF Backed
  <2>9. Backed(q)'
    BY <1>2, <2>2, <2>4, <2>5, <2>7, <2>8 DEF Backed
  <2> QED
    BY <1>3, <1>4, <1>6, <2>3, <2>6, <2>9, AdvanceTelling
<1> QED
  BY <1>1, <1>2, <1>5, <1>6 DEF Invite

(* An attendee recorded. *)
LEMMA RecordStep ==
    ASSUME ScheduleInv, NEW s \in Slots, NEW a \in Addresses, Record(s, a)
    PROVE  Kept
<1>1. PICK r : r = req[s]
  OBVIOUS
<1>2. /\ r.pc = "invite" /\ HandlerOK(r) /\ Backed(r)
      /\ UNCHANGED <<objects, syncSeq, changes, inbox, sent>>
  BY <1>1 DEF Record, ScheduleInv, storeVars
<1>3. CASE Finish(s)
  BY <1>2, <1>3, RestOK, GoingOn, AdvanceQuietly DEF Finish
<1>4. CASE Continue(s, Pass(r.obj, r.user, r.seqAt, r.todo \ {a}, {}, r.noted \cup r.handed))
  <2>1. PICK q : q = Pass(r.obj, r.user, r.seqAt, r.todo \ {a}, {}, r.noted \cup r.handed)
    OBVIOUS
  <2>2. HandlerOK(q)
    BY <1>2, <2>1, PassOK DEF HandlerOK
  <2>3. Continue(s, q)
    BY <1>4, <2>1
  <2>4. echoed' = echoed
    BY <2>3, GoingOn
  <2>5. \A b \in r.noted \cup r.handed : HandedOver(b, Message("REQUEST", r.obj, r.user))'
    BY <1>2 DEF Backed, HandedOver
  <2>6. \A b \in r.obj.blob.body.status : Vouched(b, r.obj)'
    BY <1>2, <2>4 DEF Backed, Vouched, Told, Claimed, HandedOver
  <2>7. ServerManaged(r.obj.blob, r.user) \subseteq (r.todo \ {a}) \cup (r.noted \cup r.handed)
    <3>1. ServerManaged(r.obj.blob, r.user) \subseteq r.todo \cup r.noted
      BY <1>2 DEF Backed
    <3>2. r.handed = {a} \/ a \in r.obj.blob.body.client
      BY <1>1 DEF Record
    <3> QED
      BY <3>1, <3>2 DEF ServerManaged
  <2>8. Backed(q)'
    <3>1. CASE q.pc # "invite"
      BY <2>1, <3>1 DEF Pass, Backed
    <3>2. CASE q.pc = "invite"
      <4>1. /\ q.obj = r.obj /\ q.user = r.user /\ q.todo = r.todo \ {a} /\ q.handed = {}
            /\ q.noted = r.noted \cup r.handed
        BY <2>1, <3>2 DEF Pass
      <4> QED
        BY <3>2, <4>1, <2>5, <2>6, <2>7 DEF Backed
    <3> QED
      BY <3>1, <3>2
  <2> QED
    BY <1>2, <2>2, <2>3, <2>8, GoingOn, AdvanceQuietly
<1> QED
  BY <1>1, <1>3, <1>4 DEF Record

(* The event annotated: with attendees that were handed their invitation. *)
LEMMA AnnotateStep ==
    ASSUME ScheduleInv, NEW s \in Slots, Annotate(s)
    PROVE  Kept
<1>1. PICK r : r = req[s]
  OBVIOUS
<1>2. PICK b : b = Annotated(r.obj.blob, r.noted)
  OBVIOUS
<1>3. /\ r.pc = "invite" /\ HandlerOK(r) /\ Backed(r)
      /\ inbox' = inbox /\ sent' = sent
      /\ Continue(s, [pc |-> "idle"])
  BY <1>1 DEF Annotate, ScheduleInv, scheduleVars, Finish
<1>4. /\ r.obj \in Object /\ r.obj.cal \in Calendars /\ r.obj.href \in Hrefs /\ r.obj.blob \in Blob
      /\ r.noted \subseteq Attendees(r.obj.blob)
  BY <1>3 DEF HandlerOK, Object
<1>5. /\ b \in Blob /\ b.uid = r.obj.blob.uid /\ b.body.title = r.obj.blob.body.title
      /\ b.body.status = r.obj.blob.body.status \cup r.noted
  BY <1>2, <1>4, AnnotatedIsBlob
<1>6. Bare(b) = Bare(r.obj.blob)
  BY <1>2, <1>4, BareOfAnnotated
<1>7. echoed' = echoed
  BY <1>3, GoingOn
<1>8. CASE PutObject(r.obj.cal, r.obj.href, b)
  <2>1. [StoreNext]_storeVars /\ \A x \in objects' \ objects : x.blob = b
    BY <1>4, <1>5, <1>8, PutStores
  <2>2. ASSUME NEW x \in objects' \ objects, NEW a \in x.blob.body.status
        PROVE  Vouched(a, x)'
    <3>1. a \in r.obj.blob.body.status \/ a \in r.noted
      BY <1>5, <2>1
    <3>2. Vouched(a, r.obj)
      <4>1. r.user \in Users
        BY <1>3 DEF HandlerOK
      <4> QED
        BY <1>3, <3>1, <4>1 DEF Backed, Vouched, Told
    <3>3. Vouched(a, x)
      BY <1>5, <1>6, <2>1, <3>2, VouchedOfSame
    <3> QED
      BY <1>3, <1>7, <3>3 DEF Vouched, Told, Claimed, HandedOver
  <2>3. /\ sent' \in [Addresses -> Seq(Msg)] /\ inbox' \subseteq InboxItem
        /\ \A y \in Addresses, n \in Msg : HandedOver(y, n) => HandedOver(y, n)'
    BY <1>3 DEF ScheduleInv, HandedOver
  <2> QED
    BY <1>3, <2>1, <2>2, <2>3, RestOK, GoingOn, Advance
<1>9. CASE UNCHANGED storeVars
  BY <1>3, <1>9, RestOK, GoingOn, AdvanceQuietly DEF storeVars
<1> QED
  BY <1>1, <1>2, <1>8, <1>9 DEF Annotate

(* A cancellation handed over, or lost. *)
LEMMA CancelStep ==
    ASSUME ScheduleInv, NEW s \in Slots, NEW a \in Addresses, Cancel(s, a)
    PROVE  Kept
<1>1. PICK r : r = req[s]
  OBVIOUS
<1>2. PICK m : m = Message("CANCEL", r.obj, r.user)
  OBVIOUS
<1>3. PICK q : q = [r EXCEPT !.todo = r.todo \ {a}]
  OBVIOUS
<1>4. /\ r.pc = "delete" /\ a \in r.todo /\ HandlerOK(r)
      /\ UNCHANGED <<objects, syncSeq, changes>>
      /\ Continue(s, q)
  BY <1>1, <1>3 DEF Cancel, ScheduleInv, storeVars
<1>5. HandlerOK(q) /\ Backed(q)'
  BY <1>3, <1>4 DEF HandlerOK, Backed
<1>6. m \in Msg
  BY <1>2, <1>4, MessageTyped DEF HandlerOK
<1>7. CASE UNCHANGED <<inbox, sent>>
  BY <1>4, <1>5, <1>7, GoingOn, AdvanceQuietly
<1>8. CASE HandOver(a, m)
  BY <1>4, <1>5, <1>6, <1>8, AdvanceTelling
<1> QED
  BY <1>1, <1>2, <1>7, <1>8 DEF Cancel

(* An event removed. *)
LEMMA RemoveStep ==
    ASSUME ScheduleInv, NEW s \in Slots, Remove(s)
    PROVE  Kept
<1>1. PICK r : r = req[s]
  OBVIOUS
<1>2. /\ r.cal \in Calendars /\ r.href \in Hrefs
      /\ inbox' = inbox /\ sent' = sent
      /\ Continue(s, [pc |-> "idle"])
  BY <1>1 DEF Remove, ScheduleInv, HandlerOK, Finish
<1>3. CASE DeleteObject(r.cal, r.href)
  <2>1. [StoreNext]_storeVars /\ objects' \ objects = {}
    BY <1>2, <1>3 DEF StoreNext, DeleteObject
  <2>2. /\ sent' \in [Addresses -> Seq(Msg)] /\ inbox' \subseteq InboxItem
        /\ \A y \in Addresses, n \in Msg : HandedOver(y, n) => HandedOver(y, n)'
    BY <1>2 DEF ScheduleInv, HandedOver
  <2> QED
    BY <1>2, <2>1, <2>2, RestOK, GoingOn, Advance
<1>4. CASE UNCHANGED storeVars
  BY <1>2, <1>4, RestOK, GoingOn, AdvanceQuietly DEF storeVars
<1> QED
  BY <1>1, <1>3, <1>4 DEF Remove

(* An answer: recorded, told the owner, dismissed. *)
LEMMA AnswerStep ==
    ASSUME ScheduleInv, NEW s \in Slots, Answer(s) \/ Reply(s) \/ Dismiss(s)
    PROVE  Kept
<1>1. PICK r : r = req[s]
  OBVIOUS
<1>2. HandlerOK(r) /\ UNCHANGED <<objects, syncSeq, changes>>
  BY <1>1 DEF ScheduleInv, Answer, Reply, Dismiss, storeVars
<1>3. CASE Answer(s)
  <2>1. PICK q : q = [r EXCEPT !.pc = IF r.obj.blob.comp = "VEVENT" THEN "reply" ELSE "dismiss"]
    OBVIOUS
  <2>2. r.pc = "answer" /\ Continue(s, q) /\ UNCHANGED <<inbox, sent>>
    BY <1>1, <1>3, <2>1 DEF Answer
  <2>3. HandlerOK(q) /\ Backed(q)'
    BY <1>2, <2>1, <2>2 DEF HandlerOK, Backed
  <2> QED
    BY <1>2, <2>2, <2>3, GoingOn, AdvanceQuietly
<1>4. CASE Reply(s)
  <2>1. PICK q : q = [r EXCEPT !.pc = "dismiss"]
    OBVIOUS
  <2>2. PICK m : m = Message("REPLY", r.obj, r.item.user)
    OBVIOUS
  <2>3. PICK a : a = CalendarOwner[r.obj.cal]
    OBVIOUS
  <2>4. r.pc = "reply" /\ Continue(s, q) /\ HandOver(a, m)
    BY <1>1, <1>4, <2>1, <2>2, <2>3 DEF Reply
  <2>5. HandlerOK(q) /\ Backed(q)'
    BY <1>2, <2>1, <2>4 DEF HandlerOK, Backed
  <2>6. m \in Msg /\ a \in Addresses
    BY <1>2, <2>2, <2>3, <2>4, MessageTyped, ScheduleAssumption DEF HandlerOK, Object, Addresses
  <2> QED
    BY <1>2, <2>4, <2>5, <2>6, AdvanceTelling
<1>5. CASE Dismiss(s)
  <2>1. /\ Continue(s, [pc |-> "idle"]) /\ sent' = sent
        /\ inbox' \subseteq inbox
    BY <1>5 DEF Dismiss, Finish
  <2>2. /\ sent' \in [Addresses -> Seq(Msg)] /\ inbox' \subseteq InboxItem
        /\ \A y \in Addresses, n \in Msg : HandedOver(y, n) => HandedOver(y, n)'
    BY <2>1 DEF ScheduleInv, HandedOver
  <2>3. [StoreNext]_storeVars /\ objects' \ objects = {}
    BY <1>2 DEF storeVars
  <2> QED
    BY <2>1, <2>2, <2>3, RestOK, GoingOn, Advance
<1> QED
  BY <1>3, <1>4, <1>5

----------------------------------------------------------------------------
(* Every step of every handler keeps the invariant and is a step of the    *)
(* store, or none.                                                         *)
LEMMA ScheduleStep == ScheduleInv /\ [Next]_vars => Kept
<1> SUFFICES ASSUME ScheduleInv, [Next]_vars PROVE Kept
  OBVIOUS
<1>1. ASSUME NEW s \in Slots, Proceed(s) PROVE Kept
  BY <1>1, StorePutStep, InviteStep, RecordStep, CancelStep, AnnotateStep, RemoveStep, AnswerStep
     DEF Proceed
<1>2. ASSUME NEW s \in Slots, Disconnect(s) PROVE Kept
  BY <1>2, RestOK, GoingOn, AdvanceQuietly DEF Disconnect, storeVars, scheduleVars
<1>3. CASE UNCHANGED vars
  <2>1. UNCHANGED storeVars /\ StoreInv'
    BY <1>3, StoreStutter DEF vars, storeVars, ScheduleInv
  <2>2. AnnotationsTrue'
    BY <1>3 DEF vars, ScheduleInv, AnnotationsTrue, HandedOver
  <2>3. \A s \in Slots : HandlerOK(req[s])' /\ Backed(req[s])'
    BY <1>3 DEF vars, ScheduleInv, HandlerOK, Backed, Vouched, Told, Claimed, HandedOver
  <2>4. /\ sent' \in [Addresses -> Seq(Msg)] /\ inbox' \subseteq InboxItem
        /\ echoed' \subseteq Blob
        /\ req' = [s \in Slots |-> req'[s]]
    BY <1>3 DEF vars, ScheduleInv
  <2> QED
    BY <2>1, <2>2, <2>3, <2>4 DEF Kept, ScheduleInv
<1> QED
  BY <1>1, <1>2, <1>3, ArriveStep DEF Next

(* The invariant holds at the start. *)
LEMMA ScheduleStart == Init => ScheduleInv
<1> SUFFICES ASSUME Init PROVE ScheduleInv
  OBVIOUS
<1>1. StoreInv
  BY StoreStart DEF Init
<1>2. req = [s \in Slots |-> req[s]] /\ \A s \in Slots : HandlerOK(req[s]) /\ Backed(req[s])
  BY DEF Init, HandlerOK, Backed
<1>3. /\ sent \in [Addresses -> Seq(Msg)] /\ inbox \subseteq InboxItem /\ echoed \subseteq Blob
      /\ AnnotationsTrue
  BY DEF Init, StoreInit, AnnotationsTrue
<1> QED
  BY <1>1, <1>2, <1>3 DEF ScheduleInv

(* The inductive invariant of the handlers and the store.                  *)
THEOREM ScheduleInvariant == Spec => []ScheduleInv
<1>1. ScheduleInv /\ [Next]_vars => ScheduleInv'
  BY ScheduleStep DEF Kept
<1> QED
  BY <1>1, ScheduleStart, PTL DEF Spec

(* A SCHEDULE-STATUS on a stored event is no invention of the server's:    *)
(* the attendee was handed an invitation to the event as it stands, or a   *)
(* client sent the status, for any number of handlers in progress, of      *)
(* users, of attendees and of events.                                      *)
THEOREM AnnotationsAreTrue == Spec => []AnnotationsTrue
<1>1. ScheduleInv => AnnotationsTrue
  BY DEF ScheduleInv
<1> QED
  BY <1>1, ScheduleInvariant, PTL

(* A pass that annotates its event is done with it: each attendee whose    *)
(* scheduling the server does has a status there and was handed the        *)
(* invitation to that version.                                             *)
THEOREM AnnotationsAreComplete == Spec => AnnotationIsComplete
<1>1. ASSUME ScheduleInv, NEW s \in Slots, req[s].pc = "invite", Annotate(s)
      PROVE  \A o \in objects' \ objects : \A a \in ServerManaged(o.blob, req[s].user) :
               /\ a \in o.blob.body.status
               /\ HandedOver(a, Message("REQUEST", o, req[s].user))
  <2>1. PICK r : r = req[s]
    OBVIOUS
  <2>2. PICK b : b = Annotated(r.obj.blob, r.noted)
    OBVIOUS
  <2>3. r.pc = "invite" /\ r.todo = {} /\ HandlerOK(r) /\ Backed(r)
    BY <1>1, <2>1 DEF Annotate, ScheduleInv
  <2>4. /\ r.obj.blob \in Blob /\ r.obj.cal \in Calendars /\ r.obj.href \in Hrefs
        /\ r.noted \subseteq Attendees(r.obj.blob)
    BY <2>3 DEF HandlerOK, Object
  <2>5. /\ b \in Blob /\ b.uid = r.obj.blob.uid /\ b.body.title = r.obj.blob.body.title
        /\ b.body.status = r.obj.blob.body.status \cup r.noted
        /\ ServerManaged(b, r.user) = ServerManaged(r.obj.blob, r.user)
    BY <2>2, <2>4, AnnotatedIsBlob, ManagedOfAnnotated
  <2>6. PutObject(r.obj.cal, r.obj.href, b) \/ UNCHANGED storeVars
    BY <1>1, <2>1, <2>2 DEF Annotate
  <2>7. \A o \in objects' \ objects : o.blob = b
    BY <1>1, <2>4, <2>5, <2>6, PutStores DEF storeVars
  <2> SUFFICES ASSUME NEW o \in objects' \ objects, NEW a \in ServerManaged(o.blob, r.user)
               PROVE  a \in o.blob.body.status /\ HandedOver(a, Message("REQUEST", o, r.user))
    BY <2>1
  <2>8. a \in r.noted
    BY <2>3, <2>5, <2>7 DEF Backed
  <2>9. Message("REQUEST", o, r.user) = Message("REQUEST", r.obj, r.user)
    BY <2>5, <2>7 DEF Message
  <2> QED
    BY <2>3, <2>5, <2>7, <2>8, <2>9 DEF Backed
<1>2. ScheduleInv /\ [Next]_vars =>
        [\A s \in Slots : req[s].pc = "invite" /\ Annotate(s) =>
          \A o \in objects' \ objects : \A a \in ServerManaged(o.blob, req[s].user) :
            /\ a \in o.blob.body.status
            /\ HandedOver(a, Message("REQUEST", o, req[s].user))]_vars
  BY <1>1
<1> QED
  BY <1>2, ScheduleInvariant, PTL DEF Spec, AnnotationIsComplete

(* What holds of the store holds of it under the handlers: keys stay       *)
(* unique and the journal keeps telling what is stored.                    *)
THEOREM StoreStaysRight == Spec => [](UniqueKeys /\ JournalTracksStore)
<1>1. ScheduleInv => UniqueKeys /\ JournalTracksStore
  BY DEF ScheduleInv, StoreInv, JournalInv
<1> QED
  BY <1>1, ScheduleInvariant, PTL

----------------------------------------------------------------------------
(* Types of the handlers, and the keys of attendee_state and the Inbox.     *)

Putting ==
    [pc: {"put"}, user: Users, cal: Calendars, href: Hrefs, blob: Blob,
     cond: Conditions, seen: Etags]
Inviting ==
    [pc: {"invite"}, user: Users, obj: Object, seqAt: Nat, todo: SUBSET Addresses,
     handed: SUBSET Addresses, noted: SUBSET Addresses]
Missing == [pc: {"delete"}, cal: Calendars, href: Hrefs, todo: {{}}]
Deleting ==
    [pc: {"delete"}, cal: Calendars, href: Hrefs, todo: SUBSET Addresses,
     user: Users, obj: Object, seqAt: Nat]
Answering ==
    [pc: {"answer", "reply", "dismiss"}, item: InboxItem, obj: Object, partstat: Answers]
Dismissing == [pc: {"dismiss"}, item: InboxItem]

RowsOK ==
    /\ attState \subseteq AttRow
    /\ \A x \in attState : x.obj \in Ids
    /\ \A x, y \in attState : x.obj = y.obj /\ x.email = y.email => x = y

InboxOK == \A d, e \in inbox : d.user = e.user /\ SameHref(d.msg, e.msg) => d = e

(* The shape of a handler follows from the place it has come to.            *)
LEMMA HandlerIsOneOf ==
    /\ Handler = Resting \cup Putting \cup Inviting \cup Missing \cup Deleting
                   \cup Answering \cup Dismissing
    /\ \A r \in Handler :
         /\ r.pc = "put" => r \in Putting
         /\ r.pc = "invite" => r \in Inviting
         /\ r.pc = "delete" => r \in Missing \cup Deleting
         /\ r.pc \in {"answer", "reply"} => r \in Answering
         /\ r.pc = "dismiss" => r \in Answering \cup Dismissing
<1>1. Handler = Resting \cup Putting \cup Inviting \cup Missing \cup Deleting
                  \cup Answering \cup Dismissing
  BY DEF Handler, Putting, Inviting, Missing, Deleting, Answering, Dismissing
<1>2. /\ \A r \in Resting : r.pc \in {"idle", "cut"}
      /\ \A r \in Putting : r.pc = "put"
      /\ \A r \in Inviting : r.pc = "invite"
      /\ \A r \in Missing \cup Deleting : r.pc = "delete"
      /\ \A r \in Answering : r.pc \in {"answer", "reply", "dismiss"}
      /\ \A r \in Dismissing : r.pc = "dismiss"
  BY DEF Resting, Putting, Inviting, Missing, Deleting, Answering, Dismissing
<1> QED
  BY <1>1, <1>2

(* A put keeps the ids there are.                                           *)
LEMMA PutKeepsIds ==
    ASSUME StoreInv, NEW c \in Calendars, NEW h \in Hrefs, NEW b \in Blob, PutObject(c, h, b)
    PROVE  Ids \subseteq Ids'
<1> SUFFICES ASSUME NEW o \in objects PROVE o.id \in Ids'
  BY DEF Ids
<1>1. CASE o \notin ObjectsAt(c, h)
  BY <1>1 DEF PutObject, Ids
<1>2. CASE o \in ObjectsAt(c, h)
  <2>1. ObjectsAt(c, h) = {o}
    BY <1>2, OneObjectPerHref DEF StoreInv
  <2>2. StoredObject(c, h, b).id = o.id
    BY <2>1 DEF StoredObject
  <2> QED
    BY <2>2 DEF PutObject, Ids
<1> QED
  BY <1>1, <1>2

(* A hand-over leaves one item per href in each Inbox.                      *)
LEMMA HandOverKeepsInbox ==
    ASSUME InboxOK, NEW a, NEW m, HandOver(a, m)
    PROVE  InboxOK'
<1>1. \A x, y : SameHref(x, y) => SameHref(y, x)
  BY DEF SameHref
<1>2. CASE inbox' = inbox
  BY <1>2 DEF InboxOK
<1>3. CASE inbox' = Deposited(a, m)
  <2>1. \A d \in inbox' : (d \in inbox /\ ~(d.user = a /\ SameHref(d.msg, m)))
                          \/ (d.user = a /\ d.msg = m /\ d = [user |-> a, msg |-> m])
    BY <1>3 DEF Deposited
  <2> QED
    BY <1>1, <2>1 DEF InboxOK
<1> QED
  BY <1>2, <1>3 DEF HandOver

(* What a step leaves to show once its handler is known to be one.          *)
LEMMA TypesAdvance ==
    ASSUME ScheduleTypeOK, ScheduleInv', NEW s \in Slots, NEW r \in Handler,
           req' = [req EXCEPT ![s] = r], begun' \in 0 .. MaxRequests, RowsOK', InboxOK'
    PROVE  ScheduleTypeOK'
<1>1. req' \in [Slots -> Handler]
  BY DEF ScheduleTypeOK
<1>2. /\ StoreTypeOK' /\ sent' \in [Addresses -> Seq(Msg)] /\ inbox' \subseteq InboxItem
      /\ echoed' \subseteq Blob
  BY DEF ScheduleInv, StoreInv
<1> QED
  BY <1>1, <1>2 DEF ScheduleTypeOK, RowsOK, InboxOK

(* The same when no row of attendee_state changes and no object goes.       *)
LEMMA TypesKept ==
    ASSUME ScheduleTypeOK, ScheduleInv', NEW s \in Slots, NEW r \in Handler,
           req' = [req EXCEPT ![s] = r], begun' \in 0 .. MaxRequests,
           attState' = attState, Ids \subseteq Ids',
           inbox' \subseteq inbox \/ \E a, m : HandOver(a, m)
    PROVE  ScheduleTypeOK'
<1>1. RowsOK'
  BY DEF ScheduleTypeOK, RowsOK
<1>2. InboxOK
  BY DEF ScheduleTypeOK, InboxOK
<1>3. InboxOK'
  BY <1>2, HandOverKeepsInbox DEF InboxOK
<1> QED
  BY <1>1, <1>3, TypesAdvance

(* A handler at rest is one.                                               *)
LEMMA RestIsHandler == [pc |-> "idle"] \in Handler /\ [pc |-> "cut"] \in Handler
BY HandlerIsOneOf DEF Resting

(* A pass over an object is a handler.                                      *)
LEMMA PassIsHandler ==
    ASSUME NEW o \in Object, NEW u \in Users, NEW q \in Nat,
           NEW todo \in SUBSET Addresses, NEW handed \in SUBSET Addresses,
           NEW noted \in SUBSET Addresses
    PROVE  Pass(o, u, q, todo, handed, noted) \in Handler
<1>1. [pc |-> "invite", user |-> u, obj |-> o, seqAt |-> q, todo |-> todo, handed |-> handed,
       noted |-> noted] \in Inviting
  BY DEF Inviting
<1> QED
  BY <1>1, HandlerIsOneOf, RestIsHandler DEF Pass

(* Whom a pass goes through.                                               *)
LEMMA InviteesAreAddresses ==
    ASSUME NEW b \in Blob, NEW u
    PROVE  Invitees(b, u) \in SUBSET Addresses /\ ServerManaged(b, u) \in SUBSET Addresses
BY AttendeesAreAddresses DEF Invitees, ServerManaged

(* Requests that begin.                                                     *)
LEMMA ArriveTypes ==
    ASSUME ScheduleTypeOK, ScheduleInv, ScheduleInv', NEW s \in Slots, Arrive(s)
    PROVE  ScheduleTypeOK'
<1>0. begun \in 0 .. MaxRequests /\ MaxRequests \in Nat /\ syncSeq \in [Calendars -> Nat]
      /\ objects \subseteq Object /\ inbox \subseteq InboxItem
  BY ScheduleAssumption DEF ScheduleTypeOK, StoreTypeOK
<1>1. ASSUME NEW r \in Handler, Begin(s, r), UNCHANGED <<storeVars, scheduleVars>>
      PROVE  ScheduleTypeOK'
  <2>1. begun' \in 0 .. MaxRequests /\ req' = [req EXCEPT ![s] = r]
    BY <1>0, <1>1 DEF Begin
  <2>2. attState' = attState /\ Ids' = Ids /\ inbox' = inbox
    BY <1>1 DEF storeVars, scheduleVars, Ids
  <2> QED
    BY <2>1, <2>2, TypesKept
<1>2. ASSUME NEW user \in Users, NEW c \in Calendars, NEW h \in Hrefs, NEW blob \in Blob,
             NEW cond \in Conditions, BeginPut(s, user, c, h, blob, cond)
      PROVE  ScheduleTypeOK'
  <2>1. PICK r : r = [pc |-> "put", user |-> user, cal |-> c, href |-> h, blob |-> blob,
                      cond |-> cond, seen |-> ETagAt(c, h)]
    OBVIOUS
  <2>2. ETagAt(c, h) \in Etags
    <3>1. CASE ObjectsAt(c, h) = {}
      BY <3>1 DEF ETagAt, Etags
    <3>2. CASE ObjectsAt(c, h) # {}
      <4>1. PICK o \in ObjectsAt(c, h) : TRUE
        BY <3>2
      <4>2. ETagAt(c, h) = ETag(o.blob) /\ o.blob \in Blob
        BY <1>0, OneObjectPerHref DEF ScheduleInv, StoreInv, ObjectsAt, Object
      <4> QED
        BY <4>2 DEF Etags
    <3> QED
      BY <3>1, <3>2
  <2>3. r \in Putting
    BY <2>1, <2>2 DEF Putting
  <2>4. r \in Handler
    BY <2>3, HandlerIsOneOf
  <2> QED
    BY <1>1, <1>2, <2>1, <2>4 DEF BeginPut
<1>3. ASSUME NEW user \in Users, NEW c \in Calendars, NEW h \in Hrefs, BeginDelete(s, user, c, h)
      PROVE  ScheduleTypeOK'
  <2>1. UNCHANGED <<storeVars, scheduleVars>>
    BY <1>3 DEF BeginDelete
  <2>2. CASE Begin(s, [pc |-> "delete", cal |-> c, href |-> h, todo |-> {}])
    <3>1. [pc |-> "delete", cal |-> c, href |-> h, todo |-> {}] \in Missing
      BY DEF Missing
    <3> QED
      BY <1>1, <2>1, <2>2, <3>1, HandlerIsOneOf
  <2>3. ASSUME NEW o \in ObjectsAt(c, h),
               Begin(s, [pc |-> "delete", cal |-> c, href |-> h, todo |-> ServerManaged(o.blob, user),
                         user |-> user, obj |-> o, seqAt |-> syncSeq[c]])
        PROVE  ScheduleTypeOK'
    <3>1. o \in Object /\ o.blob \in Blob /\ syncSeq[c] \in Nat
      BY <1>0 DEF ObjectsAt, Object
    <3>2. PICK r : r = [pc |-> "delete", cal |-> c, href |-> h, todo |-> ServerManaged(o.blob, user),
                        user |-> user, obj |-> o, seqAt |-> syncSeq[c]]
      OBVIOUS
    <3>3. r \in Deleting
      BY <3>1, <3>2, InviteesAreAddresses DEF Deleting
    <3>4. r \in Handler
      BY <3>3, HandlerIsOneOf
    <3> QED
      BY <1>1, <2>1, <2>3, <3>2, <3>4
  <2> QED
    BY <1>3, <2>2, <2>3 DEF BeginDelete
<1>4. ASSUME NEW o \in objects, Resend(s, o) PROVE ScheduleTypeOK'
  <2>1. o \in Object /\ o.blob \in Blob /\ o.cal \in Calendars
    BY <1>0 DEF Object
  <2>2. CalendarOwner[o.cal] \in Users /\ syncSeq[o.cal] \in Nat
    BY <1>0, <2>1, ScheduleAssumption
  <2>3. PICK r : r = OnPut(o, CalendarOwner[o.cal], syncSeq[o.cal])
    OBVIOUS
  <2>4. r \in Handler
    BY <2>1, <2>2, <2>3, PassIsHandler, InviteesAreAddresses DEF OnPut
  <2> QED
    BY <1>1, <1>4, <2>3, <2>4 DEF Resend
<1>5. ASSUME NEW item \in inbox, NEW partstat \in Answers, BeginAnswer(s, item, partstat)
      PROVE  ScheduleTypeOK'
  <2>1. UNCHANGED <<storeVars, scheduleVars>>
    BY <1>5 DEF BeginAnswer
  <2>2. CASE Begin(s, [pc |-> "dismiss", item |-> item])
    <3>1. [pc |-> "dismiss", item |-> item] \in Dismissing
      BY <1>0 DEF Dismissing
    <3> QED
      BY <1>1, <2>1, <2>2, <3>1, HandlerIsOneOf
  <2>3. ASSUME NEW o \in OldestWithUid(item.msg.uid),
               Begin(s, [pc |-> "answer", item |-> item, obj |-> o, partstat |-> partstat])
        PROVE  ScheduleTypeOK'
    <3>1. [pc |-> "answer", item |-> item, obj |-> o, partstat |-> partstat] \in Answering
      BY <1>0 DEF OldestWithUid, Answering
    <3> QED
      BY <1>1, <2>1, <2>3, <3>1, HandlerIsOneOf
  <2> QED
    BY <1>5, <2>2, <2>3 DEF BeginAnswer
<1>6. ASSUME NEW item \in inbox, BeginDismiss(s, item) PROVE ScheduleTypeOK'
  <2>1. [pc |-> "dismiss", item |-> item] \in Dismissing
    BY <1>0 DEF Dismissing
  <2> QED
    BY <1>1, <1>6, <2>1, HandlerIsOneOf DEF BeginDismiss
<1> QED
  BY <1>2, <1>3, <1>4, <1>5, <1>6 DEF Arrive

(* Steps of a PUT's handler, but for the rows it records.                   *)
LEMMA PutTypes ==
    ASSUME ScheduleTypeOK, ScheduleInv, ScheduleInv', NEW s \in Slots,
           StorePut(s) \/ Annotate(s) \/ \E a \in Addresses : Invite(s, a)
    PROVE  ScheduleTypeOK'
<1>1. PICK r \in Handler : r = req[s]
  BY DEF ScheduleTypeOK
<1>2. StoreInv /\ syncSeq \in [Calendars -> Nat] /\ begun \in 0 .. MaxRequests
  BY DEF ScheduleInv, ScheduleTypeOK, StoreTypeOK
<1>3. attState' = attState /\ begun' = begun
  BY DEF StorePut, Annotate, Invite, Continue, Finish, scheduleVars
<1>4. CASE StorePut(s)
  <2>1. r \in Putting
    BY <1>1, <1>4, HandlerIsOneOf DEF StorePut
  <2>2. r.cal \in Calendars /\ r.href \in Hrefs /\ r.blob \in Blob /\ r.user \in Users
    BY <2>1 DEF Putting
  <2>3. CASE PutObject(r.cal, r.href, r.blob) /\
             Continue(s, OnPut(StoredObject(r.cal, r.href, r.blob), r.user, syncSeq[r.cal] + 1))
    <3>1. PICK o : o = StoredObject(r.cal, r.href, r.blob)
      OBVIOUS
    <3>2. o \in Object /\ o.blob \in Blob
      BY <1>2, <2>2, <3>1, StoredObjectIsObject DEF StoreInv, Object
    <3>3. PICK q : q = OnPut(o, r.user, syncSeq[r.cal] + 1)
      OBVIOUS
    <3>4. syncSeq[r.cal] + 1 \in Nat
      BY <1>2, <2>2
    <3>5. q \in Handler
      BY <2>2, <3>2, <3>3, <3>4, PassIsHandler, InviteesAreAddresses DEF OnPut
    <3>6. Ids \subseteq Ids'
      BY <1>2, <2>2, <2>3, PutKeepsIds
    <3>7. req' = [req EXCEPT ![s] = q] /\ inbox' = inbox
      BY <1>4, <2>3, <3>1, <3>3 DEF Continue, StorePut, scheduleVars
    <3> QED
      BY <1>2, <1>3, <3>5, <3>6, <3>7, TypesKept
  <2>4. CASE Finish(s) /\ UNCHANGED storeVars
    <3>1. req' = [req EXCEPT ![s] = [pc |-> "idle"]] /\ inbox' = inbox /\ Ids' = Ids
      BY <1>4, <2>4 DEF Continue, Finish, StorePut, scheduleVars, storeVars, Ids
    <3> QED
      BY <1>2, <1>3, <3>1, RestIsHandler, TypesKept
  <2> QED
    BY <1>1, <1>4, <2>3, <2>4 DEF StorePut
<1>5. CASE Annotate(s)
  <2>1. r \in Inviting /\ HandlerOK(r) /\ r.pc = "invite"
    BY <1>1, <1>5, HandlerIsOneOf DEF Annotate, ScheduleInv
  <2>2. r.obj.cal \in Calendars /\ r.obj.href \in Hrefs /\ r.obj.blob \in Blob
    BY <2>1 DEF Inviting, Object
  <2>3. Annotated(r.obj.blob, r.noted) \in Blob
    BY <2>1, <2>2, AnnotatedIsBlob DEF HandlerOK
  <2>4. Ids \subseteq Ids'
    <3>1. CASE PutObject(r.obj.cal, r.obj.href, Annotated(r.obj.blob, r.noted))
      BY <1>2, <2>2, <2>3, <3>1, PutKeepsIds
    <3>2. CASE UNCHANGED storeVars
      BY <3>2 DEF storeVars, Ids
    <3> QED
      BY <1>1, <1>5, <3>1, <3>2 DEF Annotate
  <2>5. req' = [req EXCEPT ![s] = [pc |-> "idle"]] /\ inbox' = inbox
    BY <1>5 DEF Annotate, Finish, Continue, scheduleVars
  <2> QED
    BY <1>2, <1>3, <2>4, <2>5, RestIsHandler, TypesKept
<1>6. ASSUME NEW a \in Addresses, Invite(s, a) PROVE ScheduleTypeOK'
  <2>1. r \in Inviting
    BY <1>1, <1>6, HandlerIsOneOf DEF Invite
  <2>2. Ids' = Ids
    BY <1>6 DEF Invite, storeVars, Ids
  <2>3. CASE Finish(s) /\ inbox' = inbox
    BY <1>2, <1>3, <2>2, <2>3, RestIsHandler, TypesKept DEF Finish, Continue
  <2>4. CASE HandOver(a, Message("REQUEST", r.obj, r.user)) /\ Continue(s, [r EXCEPT !.handed = {a}])
    <3>1. PICK q : q = [r EXCEPT !.handed = {a}]
      OBVIOUS
    <3>2. q \in Inviting
      BY <2>1, <3>1 DEF Inviting
    <3>3. q \in Handler /\ req' = [req EXCEPT ![s] = q]
      BY <2>4, <3>1, <3>2, HandlerIsOneOf DEF Continue
    <3> QED
      BY <1>2, <1>3, <2>2, <2>4, <3>3, TypesKept
  <2> QED
    BY <1>1, <1>6, <2>3, <2>4 DEF Invite
<1> QED
  BY <1>4, <1>5, <1>6

(* An attendee's row, upserted under the id of an object there is.          *)
LEMMA UpsertKeepsRows ==
    ASSUME RowsOK, NEW row \in AttRow, row.obj \in Ids, attState' = Upserted(row), Ids' = Ids
    PROVE  RowsOK'
<1>1. \A x \in attState' : x = row \/ (x \in attState /\ ~(x.obj = row.obj /\ x.email = row.email))
  BY DEF Upserted
<1> QED
  BY <1>1 DEF RowsOK

(* An attendee recorded: under the id of an object that is there.          *)
LEMMA RecordTypes ==
    ASSUME ScheduleTypeOK, ScheduleInv, ScheduleInv', NEW s \in Slots,
           NEW a \in Addresses, Record(s, a)
    PROVE  ScheduleTypeOK'
<1>1. PICK r \in Handler : r = req[s]
  BY DEF ScheduleTypeOK
<1>2. r \in Inviting
  BY <1>1, HandlerIsOneOf DEF Record
<1>3. Ids' = Ids /\ inbox' = inbox /\ begun' = begun /\ begun \in 0 .. MaxRequests
  BY DEF Record, storeVars, Ids, Continue, Finish, ScheduleTypeOK
<1>4. RowsOK /\ InboxOK
  BY DEF ScheduleTypeOK, RowsOK, InboxOK
<1>5. InboxOK'
  BY <1>3, <1>4 DEF InboxOK
<1>6. CASE Finish(s) /\ UNCHANGED attState
  <2>1. RowsOK'
    BY <1>3, <1>4, <1>6 DEF RowsOK
  <2> QED
    BY <1>3, <1>5, <1>6, <2>1, RestIsHandler, TypesAdvance DEF Finish, Continue
<1>7. ASSUME NEW status \in {"", "1.1", "1.2"}, r.obj.id \in Ids,
             attState' = Upserted([obj |-> r.obj.id, email |-> a,
                                   partstat |-> r.obj.blob.body.partstat[a], status |-> status]),
             Continue(s, Pass(r.obj, r.user, r.seqAt, r.todo \ {a}, {}, r.noted \cup r.handed))
      PROVE  ScheduleTypeOK'
  <2>1. PICK row : row = [obj |-> r.obj.id, email |-> a, status |-> status,
                          partstat |-> r.obj.blob.body.partstat[a]]
    OBVIOUS
  <2>2. row \in AttRow /\ row.obj \in Ids
    <3>1. r.obj.id \in Nat /\ r.obj.blob \in Blob
      BY <1>2 DEF Inviting, Object
    <3>2. r.obj.blob.body.partstat[a] \in Partstats
      BY <3>1, PartstatTyped
    <3> QED
      BY <1>7, <2>1, <3>1, <3>2 DEF AttRow
  <2>3. RowsOK'
    BY <1>3, <1>4, <1>7, <2>1, <2>2, UpsertKeepsRows
  <2>4. PICK q : q = Pass(r.obj, r.user, r.seqAt, r.todo \ {a}, {}, r.noted \cup r.handed)
    OBVIOUS
  <2>5. /\ r.obj \in Object /\ r.user \in Users /\ r.seqAt \in Nat
        /\ r.todo \ {a} \in SUBSET Addresses /\ {} \in SUBSET Addresses
        /\ r.noted \cup r.handed \in SUBSET Addresses
    BY <1>2 DEF Inviting
  <2>6. q \in Handler
    BY <2>4, <2>5, PassIsHandler
  <2>7. req' = [req EXCEPT ![s] = q]
    BY <1>7, <2>4 DEF Continue
  <2> QED
    BY <1>3, <1>5, <2>3, <2>6, <2>7, TypesAdvance
<1> QED
  BY <1>1, <1>6, <1>7 DEF Record

(* One attendee less to cancel with.                                       *)
LEMMA CancelTypes ==
    ASSUME ScheduleTypeOK, ScheduleInv, ScheduleInv', NEW s \in Slots,
           NEW a \in Addresses, Cancel(s, a)
    PROVE  ScheduleTypeOK'
<1>1. PICK r \in Handler : r = req[s]
  BY DEF ScheduleTypeOK
<1>2. r \in Deleting
  BY <1>1, HandlerIsOneOf DEF Cancel, Missing
<1>3. Ids' = Ids /\ attState' = attState /\ begun' = begun /\ begun \in 0 .. MaxRequests
  BY DEF Cancel, storeVars, Ids, Continue, ScheduleTypeOK
<1>4. PICK q : q = [r EXCEPT !.todo = @ \ {a}]
  OBVIOUS
<1>5. q \in Deleting
  BY <1>2, <1>4 DEF Deleting
<1>6. q \in Handler /\ req' = [req EXCEPT ![s] = q]
  BY <1>1, <1>4, <1>5, HandlerIsOneOf DEF Cancel, Continue
<1>7. inbox' \subseteq inbox \/ \E b, m : HandOver(b, m)
  BY DEF Cancel
<1> QED
  BY <1>3, <1>6, <1>7, TypesKept

(* The rows go with their object, so those that stay have theirs.          *)
LEMMA RemoveTypes ==
    ASSUME ScheduleTypeOK, ScheduleInv, ScheduleInv', NEW s \in Slots, Remove(s)
    PROVE  ScheduleTypeOK'
<1>1. PICK r : r = req[s]
  OBVIOUS
<1>2. /\ inbox' = inbox /\ begun' = begun /\ begun \in 0 .. MaxRequests
      /\ req' = [req EXCEPT ![s] = [pc |-> "idle"]]
      /\ attState' = {x \in attState : \A o \in ObjectsAt(r.cal, r.href) : x.obj # o.id}
      /\ objects' = objects \ ObjectsAt(r.cal, r.href)
  BY <1>1 DEF Remove, DeleteObject, storeVars, Finish, Continue, ScheduleTypeOK
<1>3. InboxOK'
  BY <1>2 DEF ScheduleTypeOK, InboxOK
<1>4. ASSUME NEW x \in attState' PROVE x.obj \in Ids'
  <2>1. PICK o \in objects : x.obj = o.id
    BY <1>2 DEF ScheduleTypeOK, Ids
  <2>2. o \in objects'
    BY <1>2, <2>1
  <2> QED
    BY <2>1, <2>2 DEF Ids
<1>5. RowsOK'
  BY <1>2, <1>4 DEF ScheduleTypeOK, RowsOK
<1> QED
  BY <1>2, <1>3, <1>5, RestIsHandler, TypesAdvance

(* An answer rewrites rows and keeps their keys.                           *)
LEMMA AnswerTypes ==
    ASSUME ScheduleTypeOK, ScheduleInv, ScheduleInv', NEW s \in Slots, Answer(s)
    PROVE  ScheduleTypeOK'
<1>1. PICK r \in Handler : r = req[s]
  BY DEF ScheduleTypeOK
<1>2. r \in Answering /\ r.pc = "answer"
  BY <1>1, HandlerIsOneOf DEF Answer
<1> DEFINE mine(x) == x.obj = r.obj.id /\ x.email = r.item.user
<1>3. /\ inbox' = inbox /\ begun' = begun /\ begun \in 0 .. MaxRequests /\ Ids' = Ids
      /\ attState' = {IF mine(x) THEN [x EXCEPT !.partstat = r.partstat, !.status = "2.0"] ELSE x :
                        x \in attState}
  BY <1>1 DEF Answer, storeVars, Ids, Continue, ScheduleTypeOK
<1>4. InboxOK'
  BY <1>3 DEF ScheduleTypeOK, InboxOK
<1>5. ASSUME NEW x \in attState
      PROVE  LET y == IF mine(x) THEN [x EXCEPT !.partstat = r.partstat, !.status = "2.0"] ELSE x
             IN  y \in AttRow /\ y.obj = x.obj /\ y.email = x.email
  <2>1. x \in AttRow /\ r.partstat \in Partstats
    BY <1>2 DEF ScheduleTypeOK, Answering, Partstats
  <2> HIDE DEF mine
  <2> QED
    BY <2>1 DEF AttRow
<1>6. RowsOK'
  <2>1. \A y \in attState' :
          y \in AttRow /\ \E x \in attState :
            /\ y = IF mine(x) THEN [x EXCEPT !.partstat = r.partstat, !.status = "2.0"] ELSE x
            /\ y.obj = x.obj /\ y.email = x.email
    BY <1>3, <1>5
  <2>2. attState' \subseteq AttRow /\ \A y \in attState' : y.obj \in Ids'
    BY <1>3, <2>1 DEF ScheduleTypeOK
  <2>3. ASSUME NEW y \in attState', NEW z \in attState', y.obj = z.obj, y.email = z.email
        PROVE  y = z
    <3>1. PICK v \in attState :
            /\ y = IF mine(v) THEN [v EXCEPT !.partstat = r.partstat, !.status = "2.0"] ELSE v
            /\ y.obj = v.obj /\ y.email = v.email
      BY <2>1
    <3>2. PICK w \in attState :
            /\ z = IF mine(w) THEN [w EXCEPT !.partstat = r.partstat, !.status = "2.0"] ELSE w
            /\ z.obj = w.obj /\ z.email = w.email
      BY <2>1
    <3>3. v = w
      BY <2>3, <3>1, <3>2 DEF ScheduleTypeOK
    <3> QED
      BY <3>1, <3>2, <3>3
  <2> QED
    BY <2>2, <2>3 DEF RowsOK
<1>7. PICK pc \in {"reply", "dismiss"} : Continue(s, [r EXCEPT !.pc = pc])
  BY <1>1 DEF Answer
<1>8. PICK q : q = [r EXCEPT !.pc = pc]
  OBVIOUS
<1>9. q \in Answering
  BY <1>2, <1>8 DEF Answering
<1>10. q \in Handler /\ req' = [req EXCEPT ![s] = q]
  BY <1>7, <1>8, <1>9, HandlerIsOneOf DEF Continue
<1> QED
  BY <1>3, <1>4, <1>6, <1>10, TypesAdvance

(* The rest of an answer leaves attendee_state alone.                      *)
LEMMA ReplyTypes ==
    ASSUME ScheduleTypeOK, ScheduleInv, ScheduleInv', NEW s \in Slots, Reply(s) \/ Dismiss(s)
    PROVE  ScheduleTypeOK'
<1>1. PICK r \in Handler : r = req[s]
  BY DEF ScheduleTypeOK
<1>2. /\ begun' = begun /\ begun \in 0 .. MaxRequests /\ Ids' = Ids /\ attState' = attState
  BY DEF Reply, Dismiss, storeVars, Ids, Continue, Finish, ScheduleTypeOK
<1>3. CASE Reply(s)
  <2>1. PICK q : q = [r EXCEPT !.pc = "dismiss"]
    OBVIOUS
  <2>2. q \in Answering
    BY <1>1, <1>3, <2>1, HandlerIsOneOf DEF Reply, Answering
  <2>3. q \in Handler /\ req' = [req EXCEPT ![s] = q]
    BY <1>1, <1>3, <2>1, <2>2, HandlerIsOneOf DEF Reply, Continue
  <2>4. \E b, m : HandOver(b, m)
    BY <1>3 DEF Reply
  <2> QED
    BY <1>2, <2>3, <2>4, TypesKept
<1>4. CASE Dismiss(s)
  <2>1. req' = [req EXCEPT ![s] = [pc |-> "idle"]] /\ inbox' \subseteq inbox
    BY <1>4 DEF Dismiss, Finish, Continue
  <2> QED
    BY <1>2, <2>1, RestIsHandler, TypesKept
<1> QED
  BY <1>3, <1>4

(* Every step keeps the types.                                             *)
LEMMA TypesStep ==
    ASSUME ScheduleTypeOK, ScheduleInv, ScheduleInv', [Next]_vars
    PROVE  ScheduleTypeOK'
<1>1. ASSUME NEW s \in Slots, Proceed(s) PROVE ScheduleTypeOK'
  BY <1>1, PutTypes, RecordTypes, CancelTypes, RemoveTypes, AnswerTypes, ReplyTypes DEF Proceed
<1>2. ASSUME NEW s \in Slots, Disconnect(s) PROVE ScheduleTypeOK'
  <2>1. /\ begun' = begun /\ begun \in 0 .. MaxRequests /\ Ids' = Ids /\ attState' = attState
        /\ req' = [req EXCEPT ![s] = [pc |-> "cut"]] /\ inbox' = inbox
    BY <1>2 DEF Disconnect, Continue, storeVars, scheduleVars, Ids, ScheduleTypeOK
  <2> QED
    BY <2>1, RestIsHandler, TypesKept
<1>3. CASE UNCHANGED vars
  BY <1>3 DEF vars, ScheduleTypeOK, StoreTypeOK, Ids
<1> QED
  BY <1>1, <1>2, <1>3, ArriveTypes DEF Next

(* And they hold at the start.                                             *)
LEMMA TypesStart == Init => ScheduleTypeOK
<1> SUFFICES ASSUME Init PROVE ScheduleTypeOK
  OBVIOUS
<1>1. StoreTypeOK
  BY StoreStart DEF Init, StoreInv
<1>2. sent \in [Addresses -> Seq(Msg)]
  BY ScheduleStart DEF ScheduleInv
<1>3. req \in [Slots -> Handler]
  BY RestIsHandler DEF Init
<1> QED
  BY <1>1, <1>2, <1>3, ScheduleAssumption DEF Init, ScheduleTypeOK

(* Rows, messages, Inboxes and handlers have the shapes they should, an     *)
(* Inbox holds one item per href, attendee_state one row per object and    *)
(* attendee, and no such row outlives its object.                          *)
THEOREM ScheduleTypeCorrect == Spec => []ScheduleTypeOK
<1>1. ScheduleTypeOK /\ ScheduleInv /\ ScheduleInv' /\ [Next]_vars => ScheduleTypeOK'
  BY TypesStep
<1> QED
  BY <1>1, TypesStart, ScheduleInvariant, PTL DEF Spec

----------------------------------------------------------------------------
(* Versions: what a pass or a deletion works on was stored, as the journal  *)
(* tells, and is still there while the calendar's sync_seq stands.          *)

Journaled(b) ==
    \E e \in changes \ {f \in changes : f.op = "deleted"} : e.etag.sha256 = b

WorksOnVersion(r) ==
    r \in Inviting \cup Deleting =>
        /\ Journaled(r.obj.blob)
        /\ r.seqAt <= syncSeq[r.obj.cal]
        /\ r.seqAt = syncSeq[r.obj.cal] => r.obj \in objects

CancelsInvitees(r) ==
    r \in Deleting =>
        /\ r.todo \subseteq ServerManaged(r.obj.blob, r.user)
        /\ r.seqAt = syncSeq[r.obj.cal] =>
             \A a \in ServerManaged(r.obj.blob, r.user) \ r.todo :
                 HandedOver(a, Message("CANCEL", r.obj, r.user))

Tells(r) == WorksOnVersion(r) /\ CancelsInvitees(r)

(* What a message for a may say.                                            *)
MessageTrue(a, m) ==
    m.method # "REPLY" =>
        \E e \in changes \ {f \in changes : f.op = "deleted"} :
            LET blob == e.etag.sha256 IN
            /\ blob.uid = m.uid /\ blob.body.title = m.title
            /\ a \in ServerManaged(blob, m.from)

TellInv ==
    /\ \A s \in Slots : Tells(req[s])
    /\ MessagesTellStoredVersions

(* The journal only grows, and with it the sync_seq of whatever changed.    *)
LEMMA StoreMoves ==
    ASSUME StoreInv, [StoreNext]_storeVars
    PROVE  /\ changes \subseteq changes'
           /\ \A c \in Calendars :
                /\ syncSeq[c] \in Nat /\ syncSeq'[c] \in Nat /\ syncSeq[c] <= syncSeq'[c]
                /\ syncSeq'[c] = syncSeq[c] =>
                     \A o \in objects : o.cal = c => o \in objects'
<1>1. syncSeq \in [Calendars -> Nat]
  BY DEF StoreInv, StoreTypeOK
<1>2. CASE UNCHANGED storeVars
  BY <1>1, <1>2 DEF storeVars
<1>3. ASSUME NEW c \in Calendars, NEW h \in Hrefs, NEW op, NEW etag,
             Journal(c, op, h, etag),
             \A o \in objects : o.cal # c => o \in objects'
      PROVE  /\ changes \subseteq changes'
             /\ \A d \in Calendars :
                  /\ syncSeq[d] \in Nat /\ syncSeq'[d] \in Nat /\ syncSeq[d] <= syncSeq'[d]
                  /\ syncSeq'[d] = syncSeq[d] =>
                       \A o \in objects : o.cal = d => o \in objects'
  BY <1>1, <1>3 DEF Journal
<1>4. ASSUME NEW c \in Calendars, NEW h \in Hrefs, NEW b \in Blob, PutObject(c, h, b)
      PROVE  \A o \in objects : o.cal # c => o \in objects'
  BY <1>4 DEF PutObject, ObjectsAt
<1>5. ASSUME NEW c \in Calendars, NEW h \in Hrefs, DeleteObject(c, h)
      PROVE  \A o \in objects : o.cal # c => o \in objects'
  BY <1>5 DEF DeleteObject, ObjectsAt
<1>6. ASSUME NEW c \in Calendars, NEW h \in Hrefs, NEW b \in Blob, PutObject(c, h, b)
      PROVE  \E op, etag : Journal(c, op, h, etag)
  BY <1>6 DEF PutObject
<1>7. ASSUME NEW c \in Calendars, NEW h \in Hrefs, DeleteObject(c, h)
      PROVE  \E op, etag : Journal(c, op, h, etag)
  BY <1>7 DEF DeleteObject
<1> QED
  BY <1>2, <1>3, <1>4, <1>5, <1>6, <1>7 DEF StoreNext

(* What is stored is in the journal.                                        *)
LEMMA StoredIsJournaled ==
    ASSUME StoreInv, NEW o \in objects
    PROVE  Journaled(o.blob)
<1>1. o.cal \in Calendars /\ o.href \in Hrefs /\ o \in ObjectsAt(o.cal, o.href)
  BY DEF StoreInv, StoreTypeOK, Object, ObjectsAt
<1>2. ETagAt(o.cal, o.href) = ETag(o.blob) /\ ObjectsAt(o.cal, o.href) # {}
  BY <1>1, OneObjectPerHref DEF StoreInv
<1>3. PICK d \in ChangesOf(o.cal, o.href) : TRUE
  BY <1>1, <1>2 DEF StoreInv, JournalInv, JournalTracksStore
<1>4. PICK e \in ChangesOf(o.cal, o.href) : IsNewest(changes, e)
  BY <1>3 DEF StoreInv, JournalInv, NewestExists, ChangesOf
<1>5. e \in changes /\ e.etag = ETag(o.blob) /\ e.op # "deleted"
  BY <1>1, <1>2, <1>4 DEF StoreInv, JournalInv, JournalTracksStore, NewestOpTellsPresence, ChangesOf
<1> QED
  BY <1>5 DEF Journaled, ETag

(* What a put stores goes into the journal by the same step.                *)
LEMMA PutIsJournaled ==
    ASSUME StoreInv, NEW c \in Calendars, NEW h \in Hrefs, NEW b \in Blob, PutObject(c, h, b)
    PROVE  Journaled(b)' /\ syncSeq'[c] = syncSeq[c] + 1 /\ StoredObject(c, h, b) \in objects'
<1>1. PICK op \in {"added", "modified"} : Journal(c, op, h, ETag(b))
  BY DEF PutObject
<1>2. syncSeq'[c] = syncSeq[c] + 1
  BY <1>1 DEF Journal, StoreInv, StoreTypeOK
<1>3. PICK e : e = [cal |-> c, seq |-> syncSeq[c] + 1, op |-> op, href |-> h, etag |-> ETag(b)]
  OBVIOUS
<1>4. e \in changes' /\ e.op # "deleted" /\ e.etag.sha256 = b
  BY <1>1, <1>3 DEF Journal, ETag
<1>5. Journaled(b)'
  BY <1>4 DEF Journaled
<1>6. StoredObject(c, h, b) \in objects'
  BY DEF PutObject
<1> QED
  BY <1>2, <1>5, <1>6

(* An invitation or a cancellation of such a version is true.               *)
LEMMA MessageOfVersion ==
    ASSUME NEW method, NEW o, NEW u, Journaled(o.blob),
           NEW a \in ServerManaged(o.blob, u)
    PROVE  MessageTrue(a, Message(method, o, u))
<1>1. PICK e \in changes \ {f \in changes : f.op = "deleted"} : e.etag.sha256 = o.blob
  BY DEF Journaled
<1>2. PICK m : m = Message(method, o, u)
  OBVIOUS
<1>3. m.uid = o.blob.uid /\ m.title = o.blob.body.title /\ m.from = u
  BY <1>2 DEF Message
<1>4. MessageTrue(a, m)
  BY <1>1, <1>3 DEF MessageTrue
<1> QED
  BY <1>2, <1>4

(* The history of messages stays true when a true one joins it.             *)
LEMMA MessagesStayTrue ==
    ASSUME sent \in [Addresses -> Seq(Msg)], MessagesTellStoredVersions,
           changes \subseteq changes',
           sent' = sent \/ \E a \in Addresses, m \in Msg : HandOver(a, m) /\ MessageTrue(a, m)
    PROVE  MessagesTellStoredVersions'
<1>1. \A a \in Addresses : \A i \in DOMAIN sent[a] : MessageTrue(a, sent[a][i])
  BY DEF MessagesTellStoredVersions, MessageTrue
<1>2. ASSUME NEW a, NEW m, MessageTrue(a, m) PROVE MessageTrue(a, m)'
  BY <1>2 DEF MessageTrue
<1>3. \A a \in Addresses : \A i \in DOMAIN sent'[a] : MessageTrue(a, sent'[a][i])
  <2>1. CASE sent' = sent
    BY <1>1, <2>1
  <2>2. ASSUME NEW a \in Addresses, NEW m \in Msg, HandOver(a, m), MessageTrue(a, m)
        PROVE  \A b \in Addresses : \A i \in DOMAIN sent'[b] : MessageTrue(b, sent'[b][i])
    <3>1. sent' = [sent EXCEPT ![a] = Append(@, m)]
      BY <2>2 DEF HandOver
    <3>2. \A b \in Addresses \ {a} : sent'[b] = sent[b]
      BY <3>1
    <3>3. /\ DOMAIN sent[a] = 1 .. Len(sent[a]) /\ Len(sent[a]) \in Nat
          /\ DOMAIN sent'[a] = 1 .. (Len(sent[a]) + 1)
          /\ sent'[a][Len(sent[a]) + 1] = m
          /\ \A i \in 1 .. Len(sent[a]) : sent'[a][i] = sent[a][i]
      BY <3>1
    <3>4. \A i \in DOMAIN sent'[a] : i \in DOMAIN sent[a] \/ i = Len(sent[a]) + 1
      BY <3>3
    <3>5. \A i \in DOMAIN sent'[a] : MessageTrue(a, sent'[a][i])
      BY <1>1, <2>2, <3>3, <3>4
    <3> QED
      BY <1>1, <3>2, <3>5
  <2> QED
    BY <2>1, <2>2
<1>4. \A a \in Addresses : \A i \in DOMAIN sent'[a] :
        \A m : m = sent'[a][i] => MessageTrue(a, m)'
  BY <1>2, <1>3
<1> QED
  BY <1>4 DEF MessagesTellStoredVersions, MessageTrue

(* What a step leaves to show: what its handler is about now, and that the  *)
(* message it handed over, if any, is true.                                 *)
LEMMA TellAdvance ==
    ASSUME ScheduleInv, ScheduleTypeOK, TellInv, [StoreNext]_storeVars,
           sent' = sent \/ \E a \in Addresses, m \in Msg : HandOver(a, m) /\ MessageTrue(a, m),
           NEW s \in Slots, NEW r, req' = [req EXCEPT ![s] = r], Tells(r)'
    PROVE  TellInv'
<1>1. /\ changes \subseteq changes'
      /\ \A c \in Calendars :
           /\ syncSeq[c] \in Nat /\ syncSeq'[c] \in Nat /\ syncSeq[c] <= syncSeq'[c]
           /\ syncSeq'[c] = syncSeq[c] => \A o \in objects : o.cal = c => o \in objects'
  BY StoreMoves DEF ScheduleInv
<1>2. sent \in [Addresses -> Seq(Msg)] /\ inbox \subseteq InboxItem
  BY DEF ScheduleInv
<1>3. MessagesTellStoredVersions'
  BY <1>1, <1>2, MessagesStayTrue DEF TellInv
<1>4. \A b \in Addresses, n \in Msg : HandedOver(b, n) => HandedOver(b, n)'
  <2>1. CASE sent' = sent
    BY <2>1 DEF HandedOver
  <2> QED
    BY <1>2, <2>1, HandOverGrows
<1>5. ASSUME NEW t \in Slots PROVE Tells(req[t])'
  <2>1. CASE t = s
    <3>1. req'[t] = r
      BY <2>1 DEF ScheduleTypeOK
    <3> QED
      BY <3>1 DEF Tells, WorksOnVersion, CancelsInvitees
  <2>2. CASE t # s
    <3>1. PICK q : q = req[t]
      OBVIOUS
    <3>2. req'[t] = q /\ Tells(q)
      BY <2>2, <3>1 DEF ScheduleTypeOK, TellInv
    <3>3. q \in Inviting \cup Deleting =>
            q.obj \in Object /\ q.obj.blob \in Blob /\ q.obj.cal \in Calendars
            /\ q.seqAt \in Nat /\ q.user \in Users
      BY DEF Inviting, Deleting, Object
    <3>4. WorksOnVersion(q)'
      <4> SUFFICES ASSUME q \in Inviting \cup Deleting
                   PROVE  /\ Journaled(q.obj.blob)'
                          /\ q.seqAt <= syncSeq'[q.obj.cal]
                          /\ q.seqAt = syncSeq'[q.obj.cal] => q.obj \in objects'
        BY DEF WorksOnVersion
      <4>1. Journaled(q.obj.blob)'
        BY <1>1, <3>2 DEF Tells, WorksOnVersion, Journaled
      <4>2. /\ q.seqAt <= syncSeq[q.obj.cal]
            /\ q.seqAt = syncSeq[q.obj.cal] => q.obj \in objects
        BY <3>2 DEF Tells, WorksOnVersion
      <4> QED
        BY <1>1, <3>3, <4>1, <4>2
    <3>5. CancelsInvitees(q)'
      <4> SUFFICES ASSUME q \in Deleting
                   PROVE  /\ q.todo \subseteq ServerManaged(q.obj.blob, q.user)
                          /\ q.seqAt = syncSeq'[q.obj.cal] =>
                               \A a \in ServerManaged(q.obj.blob, q.user) \ q.todo :
                                   HandedOver(a, Message("CANCEL", q.obj, q.user))'
        BY DEF CancelsInvitees
      <4>1. q.seqAt <= syncSeq[q.obj.cal]
        BY <3>2 DEF Tells, WorksOnVersion
      <4>2. ASSUME q.seqAt = syncSeq'[q.obj.cal],
                   NEW a \in ServerManaged(q.obj.blob, q.user) \ q.todo
            PROVE  HandedOver(a, Message("CANCEL", q.obj, q.user))'
        <5>1. q.seqAt = syncSeq[q.obj.cal]
          BY <1>1, <3>3, <4>1, <4>2
        <5>2. HandedOver(a, Message("CANCEL", q.obj, q.user))
          BY <3>2, <5>1 DEF Tells, CancelsInvitees
        <5>3. a \in Addresses /\ Message("CANCEL", q.obj, q.user) \in Msg
          BY <3>3, MessageTyped, InviteesAreAddresses
        <5> QED
          BY <1>4, <5>2, <5>3
      <4> QED
        BY <3>2, <4>2 DEF Tells, CancelsInvitees
    <3> QED
      BY <3>2, <3>4, <3>5 DEF Tells, WorksOnVersion, CancelsInvitees
  <2> QED
    BY <2>1, <2>2
<1> QED
  BY <1>3, <1>5 DEF TellInv

(* A handler with no version in hand has nothing to answer for.             *)
LEMMA NothingToTell ==
    ASSUME NEW r, r.pc \notin {"invite", "delete"} \/ r \in Missing
    PROVE  Tells(r) /\ Tells(r)'
<1>1. r \notin Inviting \cup Deleting
  BY DEF Inviting, Deleting, Missing
<1> QED
  BY <1>1 DEF Tells, WorksOnVersion, CancelsInvitees

(* A step that stores nothing and hands over nothing.                       *)
LEMMA TellQuietly ==
    ASSUME ScheduleInv, ScheduleTypeOK, TellInv, UNCHANGED <<objects, syncSeq, changes, sent>>,
           NEW s \in Slots, NEW r, req' = [req EXCEPT ![s] = r], Tells(r)
    PROVE  TellInv'
<1>1. UNCHANGED storeVars
  BY DEF storeVars
<1>2. Tells(r)'
  BY DEF Tells, WorksOnVersion, CancelsInvitees, Journaled, HandedOver
<1> QED
  BY <1>1, <1>2, TellAdvance

(* A pass about a version that is journaled, and stored if undisturbed.     *)
LEMMA PassTells ==
    ASSUME NEW o \in Object, NEW u, NEW q, NEW todo, NEW handed, NEW noted,
           Journaled(o.blob), q <= syncSeq[o.cal], q = syncSeq[o.cal] => o \in objects
    PROVE  Tells(Pass(o, u, q, todo, handed, noted))
<1>1. PICK r : r = Pass(o, u, q, todo, handed, noted)
  OBVIOUS
<1>2. r.pc \in {"idle", "invite"} /\ (r.pc = "invite" => r.obj = o /\ r.seqAt = q)
  BY <1>1 DEF Pass
<1>3. r \notin Deleting /\ (r \in Inviting => r.pc = "invite")
  BY <1>2 DEF Deleting, Inviting
<1>4. Tells(r)
  BY <1>2, <1>3 DEF Tells, WorksOnVersion, CancelsInvitees
<1> QED
  BY <1>1, <1>4

(* A request begins with the version it reads, or with none.               *)
LEMMA ArriveTells ==
    ASSUME ScheduleInv, ScheduleTypeOK, TellInv, NEW s \in Slots, Arrive(s)
    PROVE  TellInv'
<1>0. StoreInv /\ objects \subseteq Object /\ syncSeq \in [Calendars -> Nat]
  BY DEF ScheduleInv, StoreInv, StoreTypeOK
<1>1. ASSUME NEW r, Begin(s, r), UNCHANGED <<storeVars, scheduleVars>>, Tells(r)
      PROVE  TellInv'
  BY <1>1, TellQuietly DEF Begin, storeVars, scheduleVars
<1>2. ASSUME NEW user \in Users, NEW c \in Calendars, NEW h \in Hrefs, NEW blob \in Blob,
             NEW cond \in Conditions, BeginPut(s, user, c, h, blob, cond)
      PROVE  TellInv'
  <2>1. PICK r : r = [pc |-> "put", user |-> user, cal |-> c, href |-> h, blob |-> blob,
                      cond |-> cond, seen |-> ETagAt(c, h)]
    OBVIOUS
  <2>2. Tells(r)
    BY <2>1, NothingToTell
  <2> QED
    BY <1>1, <1>2, <2>1, <2>2 DEF BeginPut
<1>3. ASSUME NEW user \in Users, NEW c \in Calendars, NEW h \in Hrefs, BeginDelete(s, user, c, h)
      PROVE  TellInv'
  <2>1. UNCHANGED <<storeVars, scheduleVars>>
    BY <1>3 DEF BeginDelete
  <2>2. CASE Begin(s, [pc |-> "delete", cal |-> c, href |-> h, todo |-> {}])
    <3>1. PICK r : r = [pc |-> "delete", cal |-> c, href |-> h, todo |-> {}]
      OBVIOUS
    <3>2. r \in Missing
      BY <3>1 DEF Missing
    <3> QED
      BY <1>1, <2>1, <2>2, <3>1, <3>2, NothingToTell
  <2>3. ASSUME NEW o \in ObjectsAt(c, h),
               Begin(s, [pc |-> "delete", cal |-> c, href |-> h, todo |-> ServerManaged(o.blob, user),
                         user |-> user, obj |-> o, seqAt |-> syncSeq[c]])
        PROVE  TellInv'
    <3>1. PICK r : r = [pc |-> "delete", cal |-> c, href |-> h, todo |-> ServerManaged(o.blob, user),
                        user |-> user, obj |-> o, seqAt |-> syncSeq[c]]
      OBVIOUS
    <3>2. o \in objects /\ o.cal = c /\ Journaled(o.blob) /\ syncSeq[c] \in Nat
      BY <1>0, StoredIsJournaled DEF ObjectsAt
    <3>3. /\ r.obj = o /\ r.seqAt = syncSeq[c] /\ r.user = user
          /\ r.todo = ServerManaged(o.blob, user)
      BY <3>1
    <3>4. Tells(r)
      BY <3>2, <3>3 DEF Tells, WorksOnVersion, CancelsInvitees
    <3> QED
      BY <1>1, <2>1, <2>3, <3>1, <3>4
  <2> QED
    BY <1>3, <2>2, <2>3 DEF BeginDelete
<1>4. ASSUME NEW o \in objects, Resend(s, o) PROVE TellInv'
  <2>1. Journaled(o.blob) /\ o \in Object /\ syncSeq[o.cal] \in Nat
    BY <1>0, StoredIsJournaled DEF Object
  <2>2. PICK r : r = OnPut(o, CalendarOwner[o.cal], syncSeq[o.cal])
    OBVIOUS
  <2>3. syncSeq[o.cal] <= syncSeq[o.cal]
    BY <2>1
  <2>4. Tells(r)
    BY <2>1, <2>2, <2>3, PassTells DEF OnPut
  <2> QED
    BY <1>1, <1>4, <2>2, <2>4 DEF Resend
<1>5. ASSUME NEW item \in inbox, NEW partstat \in Answers, BeginAnswer(s, item, partstat)
      PROVE  TellInv'
  <2>1. UNCHANGED <<storeVars, scheduleVars>>
    BY <1>5 DEF BeginAnswer
  <2>2. CASE Begin(s, [pc |-> "dismiss", item |-> item])
    <3>1. [pc |-> "dismiss", item |-> item].pc \notin {"invite", "delete"}
      OBVIOUS
    <3> QED
      BY <1>1, <2>1, <2>2, <3>1, NothingToTell
  <2>3. ASSUME NEW o \in OldestWithUid(item.msg.uid),
               Begin(s, [pc |-> "answer", item |-> item, obj |-> o, partstat |-> partstat])
        PROVE  TellInv'
    <3>1. [pc |-> "answer", item |-> item, obj |-> o, partstat |-> partstat].pc
            \notin {"invite", "delete"}
      OBVIOUS
    <3> QED
      BY <1>1, <2>1, <2>3, <3>1, NothingToTell
  <2> QED
    BY <1>5, <2>2, <2>3 DEF BeginAnswer
<1>6. ASSUME NEW item \in inbox, BeginDismiss(s, item) PROVE TellInv'
  <2>1. [pc |-> "dismiss", item |-> item].pc \notin {"invite", "delete"}
    OBVIOUS
  <2> QED
    BY <1>1, <1>6, <2>1, NothingToTell DEF BeginDismiss
<1> QED
  BY <1>2, <1>3, <1>4, <1>5, <1>6 DEF Arrive

(* What a PUT stored is the version its pass is about.                      *)
LEMMA StorePutTells ==
    ASSUME ScheduleInv, ScheduleTypeOK, TellInv, NEW s \in Slots, StorePut(s)
    PROVE  TellInv'
<1>1. PICK r : r = req[s]
  OBVIOUS
<1>2. /\ r.cal \in Calendars /\ r.href \in Hrefs /\ r.blob \in Blob
      /\ sent' = sent /\ StoreInv /\ syncSeq[r.cal] \in Nat
  BY <1>1 DEF StorePut, scheduleVars, ScheduleInv, HandlerOK, StoreInv, StoreTypeOK
<1>3. CASE PutObject(r.cal, r.href, r.blob) /\
           Continue(s, OnPut(StoredObject(r.cal, r.href, r.blob), r.user, syncSeq[r.cal] + 1))
  <2>1. PICK o : o = StoredObject(r.cal, r.href, r.blob)
    OBVIOUS
  <2>2. PICK q : q = OnPut(o, r.user, syncSeq[r.cal] + 1)
    OBVIOUS
  <2>3. /\ o.cal = r.cal /\ o.blob = r.blob /\ Journaled(r.blob)' /\ o \in objects'
        /\ syncSeq'[r.cal] = syncSeq[r.cal] + 1
    <3>1. o.cal = r.cal /\ o.blob = r.blob
      BY <2>1 DEF StoredObject
    <3> QED
      BY <1>2, <1>3, <2>1, <3>1, PutIsJournaled
  <2>4. q.pc \in {"idle", "invite"}
        /\ (q.pc = "invite" => q.obj = o /\ q.seqAt = syncSeq[r.cal] + 1)
    BY <2>2 DEF OnPut, Pass
  <2>5. q \notin Deleting /\ (q \in Inviting => q.pc = "invite")
    BY <2>4 DEF Deleting, Inviting
  <2>6. Tells(q)'
    BY <1>2, <2>3, <2>4, <2>5 DEF Tells, WorksOnVersion, CancelsInvitees
  <2>7. [StoreNext]_storeVars /\ req' = [req EXCEPT ![s] = q]
    BY <1>2, <1>3, <2>1, <2>2 DEF StoreNext, Continue
  <2> QED
    BY <1>2, <2>6, <2>7, TellAdvance
<1>4. CASE Finish(s) /\ UNCHANGED storeVars
  BY <1>2, <1>4, NothingToTell, TellQuietly DEF Finish, Continue, storeVars
<1> QED
  BY <1>1, <1>3, <1>4 DEF StorePut

(* An invitation tells of the version its pass is about.                    *)
LEMMA InviteTells ==
    ASSUME ScheduleInv, ScheduleTypeOK, TellInv, NEW s \in Slots, NEW a \in Addresses, Invite(s, a)
    PROVE  TellInv'
<1>1. PICK r \in Handler : r = req[s]
  BY DEF ScheduleTypeOK
<1>2. r \in Inviting /\ a \in ServerManaged(r.obj.blob, r.user) /\ Tells(r)
  BY <1>1, HandlerIsOneOf DEF Invite, TellInv
<1>3. UNCHANGED <<objects, syncSeq, changes>> /\ [StoreNext]_storeVars
  BY DEF Invite, storeVars
<1>4. CASE Finish(s) /\ UNCHANGED <<inbox, sent>>
  BY <1>3, <1>4, NothingToTell, TellQuietly DEF Finish, Continue
<1>5. CASE HandOver(a, Message("REQUEST", r.obj, r.user)) /\ Continue(s, [r EXCEPT !.handed = {a}])
  <2>1. PICK m : m = Message("REQUEST", r.obj, r.user)
    OBVIOUS
  <2>2. PICK q : q = [r EXCEPT !.handed = {a}]
    OBVIOUS
  <2>3. m \in Msg /\ MessageTrue(a, m)
    BY <1>2, <2>1, MessageTyped, MessageOfVersion DEF Inviting, Tells, WorksOnVersion
  <2>4. q.pc = "invite" /\ q.obj = r.obj /\ q.seqAt = r.seqAt
    BY <1>2, <2>2 DEF Inviting
  <2>5. Tells(q)'
    BY <1>2, <1>3, <2>4 DEF Tells, WorksOnVersion, CancelsInvitees, Journaled, Deleting
  <2> QED
    BY <1>3, <1>5, <2>1, <2>2, <2>3, <2>5, TellAdvance DEF Continue
<1> QED
  BY <1>1, <1>4, <1>5 DEF Invite

(* Recording leaves a pass at its version.                                 *)
LEMMA RecordTells ==
    ASSUME ScheduleInv, ScheduleTypeOK, TellInv, NEW s \in Slots, NEW a \in Addresses, Record(s, a)
    PROVE  TellInv'
<1>1. PICK r \in Handler : r = req[s]
  BY DEF ScheduleTypeOK
<1>2. r \in Inviting /\ Tells(r) /\ UNCHANGED <<objects, syncSeq, changes, sent>>
  BY <1>1, HandlerIsOneOf DEF Record, TellInv, storeVars
<1>3. CASE Finish(s)
  BY <1>2, <1>3, NothingToTell, TellQuietly DEF Finish, Continue
<1>4. CASE Continue(s, Pass(r.obj, r.user, r.seqAt, r.todo \ {a}, {}, r.noted \cup r.handed))
  <2>1. PICK q : q = Pass(r.obj, r.user, r.seqAt, r.todo \ {a}, {}, r.noted \cup r.handed)
    OBVIOUS
  <2>2. Tells(q)
    BY <1>2, <2>1, PassTells DEF Tells, WorksOnVersion, Inviting
  <2> QED
    BY <1>2, <1>4, <2>1, <2>2, TellQuietly DEF Continue
<1> QED
  BY <1>1, <1>3, <1>4 DEF Record

(* A cancellation tells of the version looked up; it fails only when the    *)
(* object is gone, and with it the undisturbed calendar.                    *)
LEMMA CancelTells ==
    ASSUME ScheduleInv, ScheduleTypeOK, TellInv, NEW s \in Slots, NEW a \in Addresses, Cancel(s, a)
    PROVE  TellInv'
<1>1. PICK r \in Handler : r = req[s]
  BY DEF ScheduleTypeOK
<1>2. r \in Deleting /\ a \in r.todo /\ Tells(r)
  BY <1>1, HandlerIsOneOf DEF Cancel, TellInv, Missing
<1>3. UNCHANGED <<objects, syncSeq, changes>> /\ [StoreNext]_storeVars
  BY DEF Cancel, storeVars
<1>4. PICK q : q = [r EXCEPT !.todo = @ \ {a}]
  OBVIOUS
<1>5. PICK m : m = Message("CANCEL", r.obj, r.user)
  OBVIOUS
<1>6. /\ q.obj = r.obj /\ q.seqAt = r.seqAt /\ q.user = r.user /\ q.pc = "delete"
      /\ q.todo = r.todo \ {a}
      /\ req' = [req EXCEPT ![s] = q]
  BY <1>1, <1>2, <1>4 DEF Cancel, Continue, Deleting
<1>7. m \in Msg /\ MessageTrue(a, m)
  BY <1>2, <1>5, MessageTyped, MessageOfVersion DEF Deleting, Tells, WorksOnVersion, CancelsInvitees
<1>8. WorksOnVersion(q)'
  BY <1>2, <1>3, <1>6 DEF Tells, WorksOnVersion, Journaled
<1>9. CASE UNCHANGED <<inbox, sent>> /\ r.obj.id \notin Ids
  <2>1. r.obj \notin objects
    BY <1>9 DEF Ids
  <2>2. r.seqAt # syncSeq[r.obj.cal]
    BY <1>2, <2>1 DEF Tells, WorksOnVersion
  <2>3. CancelsInvitees(q)'
    BY <1>2, <1>3, <1>6, <2>2 DEF Tells, CancelsInvitees
  <2> QED
    BY <1>3, <1>6, <1>8, <1>9, <2>3, TellAdvance DEF Tells
<1>10. CASE HandOver(a, m)
  <2>1. HandedOver(a, m)' /\ \A b \in Addresses, n \in Msg : HandedOver(b, n) => HandedOver(b, n)'
    BY <1>7, <1>10, HandOverGrows DEF ScheduleInv
  <2>2. ServerManaged(r.obj.blob, r.user) \subseteq Addresses
    BY <1>2, InviteesAreAddresses DEF Deleting, Object
  <2>3. r.seqAt = syncSeq[r.obj.cal] =>
          \A b \in ServerManaged(r.obj.blob, r.user) \ r.todo : HandedOver(b, m)
    BY <1>2, <1>5 DEF Tells, CancelsInvitees
  <2>4. r.seqAt = syncSeq[r.obj.cal] =>
          \A b \in ServerManaged(r.obj.blob, r.user) \ q.todo : HandedOver(b, m)'
    BY <1>6, <1>7, <2>1, <2>2, <2>3
  <2>5. CancelsInvitees(q)'
    BY <1>2, <1>3, <1>5, <1>6, <2>4 DEF Tells, CancelsInvitees
  <2> QED
    BY <1>3, <1>6, <1>7, <1>8, <1>10, <2>5, TellAdvance DEF Tells
<1> QED
  BY <1>1, <1>5, <1>9, <1>10 DEF Cancel

(* The last step of a pass and of a deletion.                               *)
LEMMA FinishTells ==
    ASSUME ScheduleInv, ScheduleTypeOK, TellInv, NEW s \in Slots, Annotate(s) \/ Remove(s)
    PROVE  TellInv'
<1>1. [StoreNext]_storeVars
  BY AnnotateStep, RemoveStep DEF Kept
<1>2. sent' = sent /\ req' = [req EXCEPT ![s] = [pc |-> "idle"]]
  BY DEF Annotate, Remove, Finish, Continue, scheduleVars
<1> QED
  BY <1>1, <1>2, NothingToTell, TellAdvance

(* An answer's reply is no message about a version.                         *)
LEMMA AnswerTells ==
    ASSUME ScheduleInv, ScheduleTypeOK, TellInv, NEW s \in Slots, Answer(s) \/ Reply(s) \/ Dismiss(s)
    PROVE  TellInv'
<1>1. PICK r \in Handler : r = req[s]
  BY DEF ScheduleTypeOK
<1>2. UNCHANGED <<objects, syncSeq, changes>> /\ [StoreNext]_storeVars
  BY DEF Answer, Reply, Dismiss, storeVars
<1>3. CASE Answer(s)
  <2>1. PICK pc \in {"reply", "dismiss"} : Continue(s, [r EXCEPT !.pc = pc])
    BY <1>1, <1>3 DEF Answer
  <2>2. PICK q : q = [r EXCEPT !.pc = pc]
    OBVIOUS
  <2>3. q.pc = pc
    BY <1>1, <1>3, <2>2, HandlerIsOneOf DEF Answer, Answering
  <2>4. Tells(q)
    BY <2>1, <2>3, NothingToTell
  <2> QED
    BY <1>2, <1>3, <2>1, <2>2, <2>4, TellQuietly DEF Answer, Continue
<1>4. CASE Reply(s)
  <2>1. PICK q : q = [r EXCEPT !.pc = "dismiss"]
    OBVIOUS
  <2>2. PICK m : m = Message("REPLY", r.obj, r.item.user)
    OBVIOUS
  <2>3. PICK a : a = CalendarOwner[r.obj.cal]
    OBVIOUS
  <2>4. r \in Answering
    BY <1>1, <1>4, HandlerIsOneOf DEF Reply
  <2>5. r.obj \in Object /\ r.obj.cal \in Calendars /\ r.item.user \in Users
    BY <2>4 DEF Answering, InboxItem, Object
  <2>6. m \in Msg /\ a \in Addresses
    BY <2>2, <2>3, <2>5, MessageTyped, ScheduleAssumption DEF Addresses
  <2>7. MessageTrue(a, m)
    BY <2>2 DEF MessageTrue, Message
  <2>8. q.pc = "dismiss"
    BY <2>1, <2>4 DEF Answering
  <2>9. Tells(q)'
    BY <2>8, NothingToTell
  <2>10. HandOver(a, m) /\ req' = [req EXCEPT ![s] = q]
    BY <1>1, <1>4, <2>1, <2>2, <2>3 DEF Reply, Continue
  <2> QED
    BY <1>2, <2>6, <2>7, <2>9, <2>10, TellAdvance
<1>5. CASE Dismiss(s)
  BY <1>2, <1>5, NothingToTell, TellQuietly DEF Dismiss, Finish, Continue
<1> QED
  BY <1>3, <1>4, <1>5

(* Every step leaves true messages only.                                   *)
LEMMA TellStep ==
    ASSUME ScheduleInv, ScheduleTypeOK, TellInv, [Next]_vars
    PROVE  TellInv'
<1>1. ASSUME NEW s \in Slots, Proceed(s) PROVE TellInv'
  BY <1>1, StorePutTells, InviteTells, RecordTells, CancelTells, FinishTells, AnswerTells
     DEF Proceed
<1>2. ASSUME NEW s \in Slots, Disconnect(s) PROVE TellInv'
  BY <1>2, NothingToTell, TellQuietly DEF Disconnect, Continue, storeVars, scheduleVars
<1>3. CASE UNCHANGED vars
  BY <1>3 DEF vars, TellInv, Tells, WorksOnVersion, CancelsInvitees, Journaled, HandedOver,
              MessagesTellStoredVersions
<1> QED
  BY <1>1, <1>2, <1>3, ArriveTells DEF Next

(* At the start there are none.                                            *)
LEMMA TellStart == Init => TellInv
<1> SUFFICES ASSUME Init PROVE TellInv
  OBVIOUS
<1>1. \A s \in Slots : req[s] = [pc |-> "idle"]
  BY DEF Init
<1>2. \A s \in Slots : Tells(req[s])
  BY <1>1, NothingToTell
<1>3. \A a \in Addresses : DOMAIN sent[a] = {}
  BY DEF Init
<1> QED
  BY <1>2, <1>3 DEF TellInv, MessagesTellStoredVersions

(* Whatever a pass or a deletion works on was stored and journaled, is     *)
(* stored still if its calendar has not changed, and every message handed  *)
(* over is about such a version.                                           *)
THEOREM TellInvariant == Spec => []TellInv
<1>1. ScheduleTypeOK /\ ScheduleInv /\ TellInv /\ [Next]_vars => TellInv'
  BY TellStep
<1> QED
  BY <1>1, TellStart, ScheduleInvariant, ScheduleTypeCorrect, PTL DEF Spec

(* Every invitation and cancellation ever handed over tells of a version    *)
(* that was stored, and goes to an attendee of that version whom the server *)
(* schedules.                                                               *)
THEOREM MessagesAreTrue == Spec => []MessagesTellStoredVersions
<1>1. TellInv => MessagesTellStoredVersions
  BY DEF TellInv
<1> QED
  BY <1>1, TellInvariant, PTL

(* While nothing else is written to the calendar, a deletion has cancelled  *)
(* with every attendee it is done with: none is left without the CANCEL     *)
(* when the event goes.                                                     *)
THEOREM UndisturbedDeletesCancel == Spec => []UndisturbedDeleteCancels
<1>1. TellInv /\ ScheduleTypeOK => UndisturbedDeleteCancels
  <2> SUFFICES ASSUME TellInv, ScheduleTypeOK, NEW s \in Slots,
                      req[s].pc = "delete", "obj" \in DOMAIN req[s], Undisturbed(s)
               PROVE  \A a \in ServerManaged(req[s].obj.blob, req[s].user) \ req[s].todo :
                          HandedOver(a, Message("CANCEL", req[s].obj, req[s].user))
    BY DEF UndisturbedDeleteCancels
  <2>1. PICK r \in Handler : r = req[s]
    BY DEF ScheduleTypeOK
  <2>2. r \in Deleting
    BY <2>1, HandlerIsOneOf DEF Missing
  <2> QED
    BY <2>1, <2>2 DEF TellInv, Tells, CancelsInvitees, Undisturbed
<1> QED
  BY <1>1, TellInvariant, ScheduleTypeCorrect, PTL

(* A pass that is undisturbed annotates the version it is about, and that   *)
(* changes nothing but the annotations.                                     *)
THEOREM UndisturbedAnnotations == Spec => UndisturbedAnnotation
<1>1. ASSUME TellInv, ScheduleTypeOK, ScheduleInv, NEW s \in Slots,
             req[s].pc = "invite", Undisturbed(s), Annotate(s)
      PROVE  Bared' = Bared
  <2>1. PICK r \in Handler : r = req[s]
    BY <1>1 DEF ScheduleTypeOK
  <2>2. r \in Inviting /\ r.obj \in objects /\ r.obj \in Object /\ r.obj.blob \in Blob
    BY <1>1, <2>1, HandlerIsOneOf
       DEF TellInv, Tells, WorksOnVersion, Undisturbed, Inviting, Object
  <2>3. PICK b : b = Annotated(r.obj.blob, r.noted)
    OBVIOUS
  <2>4. PICK n : n = StoredObject(r.obj.cal, r.obj.href, b)
    OBVIOUS
  <2>5. CASE PutObject(r.obj.cal, r.obj.href, b)
    <3>1. ObjectsAt(r.obj.cal, r.obj.href) = {r.obj}
      <4>1. r.obj \in ObjectsAt(r.obj.cal, r.obj.href)
        BY <2>2 DEF ObjectsAt
      <4> QED
        BY <1>1, <4>1, OneObjectPerHref DEF ScheduleInv, StoreInv
    <3>2. n = [r.obj EXCEPT !.blob = b]
      BY <2>2, <2>4, <3>1 DEF StoredObject, Object
    <3>3. objects' = (objects \ {r.obj}) \cup {n}
      BY <2>4, <2>5, <3>1 DEF PutObject
    <3>4. Bare(b) = Bare(r.obj.blob)
      BY <2>2, <2>3, BareOfAnnotated
    <3>5. [n EXCEPT !.blob = Bare(n.blob)] = [r.obj EXCEPT !.blob = Bare(r.obj.blob)]
      BY <2>2, <3>2, <3>4 DEF Object
    <3> QED
      BY <2>2, <3>3, <3>5 DEF Bared
  <2>6. CASE UNCHANGED storeVars
    BY <2>6 DEF storeVars, Bared
  <2> QED
    BY <1>1, <2>1, <2>3, <2>5, <2>6 DEF Annotate
<1>2. TellInv /\ ScheduleTypeOK /\ ScheduleInv /\ [Next]_vars =>
        [\A s \in Slots : req[s].pc = "invite" /\ Undisturbed(s) /\ Annotate(s) => Bared' = Bared]_vars
  BY <1>1
<1> QED
  BY <1>2, TellInvariant, ScheduleTypeCorrect, ScheduleInvariant, PTL
     DEF Spec, UndisturbedAnnotation
=============================================================================
