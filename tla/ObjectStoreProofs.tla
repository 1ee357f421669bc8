------------------------- MODULE ObjectStoreProofs -------------------------
(***************************************************************************)
(* The journal is right for every number of calendars, hrefs, UIDs and     *)
(* bodies.  The inductive invariant adds three facts to the properties of  *)
(* ObjectStore: the ids in use are bounded (so that NextId, a maximum, is  *)
(* well defined), an href the journal mentions has a last row, and the op  *)
(* of that row says whether the href holds an object.                      *)
(***************************************************************************)
EXTENDS ObjectStore, WellFoundedInduction, TLAPS

IdsBounded == \E n \in Nat : \A o \in objects : o.id <= n

NewestExists ==
    \A e \in changes : \E f \in ChangesOf(e.cal, e.href) : IsNewest(changes, f)

NewestOpTellsPresence ==
    \A c \in Calendars, h \in Hrefs : \A e \in ChangesOf(c, h) :
        IsNewest(changes, e) => (e.op = "deleted" <=> ObjectsAt(c, h) = {})

JournalInv ==
    /\ JournalDense
    /\ NewestExists
    /\ JournalTracksStore
    /\ NewestOpTellsPresence
    /\ OpsTellHistory

StoreInv == StoreTypeOK /\ IdsBounded /\ UniqueKeys /\ JournalInv

----------------------------------------------------------------------------
(* Every nonempty set of naturals has a least element.                     *)
LEMMA LeastNatural ==
    ASSUME NEW T, T \subseteq Nat, T # {}
    PROVE  \E x \in T : \A y \in T : x <= y
<1> DEFINE LessThan == {p \in Nat \X Nat : p[1] < p[2]}
<1>1. IsWellFoundedOn(LessThan, Nat)
    BY NatLessThanWellFounded, Zenon DEF OpToRel
<1> HIDE DEF LessThan
<1>2. PICK x \in T : \A y \in T : <<y, x>> \notin LessThan
    BY <1>1, WFMin, Zenon
<1>3. \A y \in T : ~(y < x)
    BY <1>2 DEF LessThan
<1> QED  BY <1>3

(* A nonempty bounded set of naturals has a maximum, the one Max chooses.  *)
LEMMA MaxOfBounded ==
    ASSUME NEW S, S \subseteq Nat, S # {},
           NEW n \in Nat, \A i \in S : i <= n
    PROVE  Max(S) \in S /\ \A i \in S : Max(S) >= i
<1> DEFINE Bounds == {m \in Nat : \A i \in S : i <= m}
<1>1. PICK m \in Bounds : \A k \in Bounds : m <= k
    <2>1. Bounds \subseteq Nat /\ n \in Bounds
        OBVIOUS
    <2> HIDE DEF Bounds
    <2> QED  BY <2>1, LeastNatural
<1>2. m \in S
    <2> SUFFICES ASSUME m \notin S PROVE FALSE
        OBVIOUS
    <2>1. \A i \in S : i < m
        OBVIOUS
    <2>2. PICK i \in S : i < m
        BY <2>1
    <2>3. m - 1 \in Bounds
        BY <2>1, <2>2
    <2> QED  BY <2>3, <1>1
<1>3. \E x \in S : \A y \in S : x >= y
    BY <1>2
<1> QED  BY <1>3 DEF Max

(* The id an insert gets is a positive number no row has.                  *)
LEMMA NextIdFresh ==
    ASSUME StoreTypeOK, IdsBounded
    PROVE  NextId \in Nat \ {0} /\ \A o \in objects : o.id < NextId
<1>1. Ids \subseteq Nat \ {0}
    BY DEF StoreTypeOK, Ids, Object
<1>2. CASE Ids = {}
    BY <1>2 DEF NextId, Ids
<1>3. CASE Ids # {}
    <2>1. PICK n \in Nat : \A i \in Ids : i <= n
        BY DEF IdsBounded, Ids
    <2>2. Max(Ids) \in Ids /\ \A i \in Ids : Max(Ids) >= i
        BY <1>1, <1>3, <2>1, MaxOfBounded
    <2>3. NextId = Max(Ids) + 1 /\ Max(Ids) \in Nat
        BY <1>1, <1>3, <2>2 DEF NextId
    <2>4. \A o \in objects : o.id \in Ids /\ o.id \in Nat
        BY <1>1 DEF Ids
    <2> HIDE DEF Ids
    <2> QED  BY <2>2, <2>3, <2>4
<1> QED  BY <1>2, <1>3

(* At most one object is stored at an href.                                *)
LEMMA OneObjectPerHref ==
    ASSUME UniqueKeys, NEW c, NEW h, NEW o \in ObjectsAt(c, h)
    PROVE  ObjectsAt(c, h) = {o} /\ ETagAt(c, h) = ETag(o.blob)
BY DEF UniqueKeys, ObjectsAt, ETagAt

(* The row a put leaves is an object with an id of its own.                *)
LEMMA StoredObjectIsObject ==
    ASSUME StoreTypeOK, IdsBounded, UniqueKeys,
           NEW c \in Calendars, NEW h \in Hrefs, NEW b \in Blob
    PROVE  /\ StoredObject(c, h, b) \in Object
           /\ \A o \in objects \ ObjectsAt(c, h) : o.id # StoredObject(c, h, b).id
<1>1. CASE ObjectsAt(c, h) = {}
    BY <1>1, NextIdFresh DEF StoredObject, Object, StoreTypeOK
<1>2. CASE ObjectsAt(c, h) # {}
    <2> PICK p \in ObjectsAt(c, h) : TRUE
        BY <1>2
    <2>1. p \in objects /\ p.id \in Nat \ {0}
        BY DEF ObjectsAt, StoreTypeOK, Object
    <2>2. StoredObject(c, h, b).id = p.id
        BY OneObjectPerHref DEF StoredObject
    <2> QED  BY <2>1, <2>2, OneObjectPerHref DEF StoredObject, Object, UniqueKeys
<1> QED  BY <1>1, <1>2

----------------------------------------------------------------------------
(* A journaling write adds one row, the last one of its calendar, and      *)
(* changes which row is last for its own href only.                        *)
LEMMA JournalStep ==
    ASSUME StoreTypeOK, JournalDense, NewestExists,
           NEW c \in Calendars, NEW h \in Hrefs,
           NEW op \in {"added", "modified", "deleted"},
           NEW etag \in {ETag(b) : b \in Blob} \cup {NoETag},
           Journal(c, op, h, etag)
    PROVE  \E n \in Change :
             /\ n.cal = c /\ n.href = h /\ n.op = op /\ n.etag = etag
             /\ n.seq = syncSeq[c] + 1
             /\ changes' = changes \cup {n}
             /\ \A e \in changes : e.cal = c => e.seq < n.seq
             /\ syncSeq' \in [Calendars -> Nat] /\ changes' \subseteq Change
             /\ JournalDense' /\ NewestExists'
             /\ IsNewest(changes', n)
             /\ \A e \in changes :
                  IsNewest(changes', e) <=>
                    IsNewest(changes, e) /\ ~(e.cal = c /\ e.href = h)
<1> DEFINE n == [cal |-> c, seq |-> syncSeq[c] + 1, op |-> op, href |-> h, etag |-> etag]
<1>1. /\ n \in Change /\ n.cal = c /\ n.href = h /\ n.op = op /\ n.etag = etag
      /\ n.seq = syncSeq[c] + 1
      /\ changes' = changes \cup {n}
      /\ syncSeq' = [syncSeq EXCEPT ![c] = @ + 1]
      /\ syncSeq \in [Calendars -> Nat]
      /\ changes \subseteq Change
    BY DEF Journal, StoreTypeOK, Change
<1> HIDE DEF n
<1>2. \A e \in changes : e.cal = c => e.seq < n.seq
    BY <1>1 DEF JournalDense, Change
<1>3. JournalDense'
    <2>1. \A e \in changes' : e.seq \in 1 .. syncSeq'[e.cal]
        BY <1>1 DEF JournalDense, Change
    <2>2. \A e, f \in changes' : e.cal = f.cal /\ e.seq = f.seq => e = f
        BY <1>1, <1>2 DEF JournalDense, Change
    <2>3. ASSUME NEW d \in Calendars, NEW i \in 1 .. syncSeq'[d]
          PROVE  \E e \in changes' : e.cal = d /\ e.seq = i
        <3>1. CASE d = c /\ i = n.seq
            BY <3>1, <1>1
        <3>2. CASE ~(d = c /\ i = n.seq)
            <4>1. i \in 1 .. syncSeq[d]
                BY <3>2, <1>1
            <4> QED  BY <4>1, <1>1 DEF JournalDense
        <3> QED  BY <3>1, <3>2
    <2> QED  BY <2>1, <2>2, <2>3 DEF JournalDense
<1>4. IsNewest(changes', n)
    BY <1>1, <1>2 DEF IsNewest, Change
<1>5. \A e \in changes :
        IsNewest(changes', e) <=>
          IsNewest(changes, e) /\ ~(e.cal = c /\ e.href = h)
    BY <1>1, <1>2 DEF IsNewest, Change
<1>6. NewestExists'
    <2> SUFFICES ASSUME NEW e \in changes'
                 PROVE  \E f \in changes' :
                          f.cal = e.cal /\ f.href = e.href /\ IsNewest(changes', f)
        BY DEF NewestExists, ChangesOf
    <2>1. CASE e.cal = c /\ e.href = h
        BY <2>1, <1>1, <1>4
    <2>2. CASE ~(e.cal = c /\ e.href = h)
        <3>1. e \in changes
            BY <2>2, <1>1
        <3>2. PICK f \in changes :
                f.cal = e.cal /\ f.href = e.href /\ IsNewest(changes, f)
            BY <3>1 DEF NewestExists, ChangesOf
        <3> QED  BY <3>2, <2>2, <1>1, <1>5
    <2> QED  BY <2>1, <2>2
<1>7. syncSeq' \in [Calendars -> Nat] /\ changes' \subseteq Change
    BY <1>1
<1> QED  BY <1>1, <1>2, <1>3, <1>4, <1>5, <1>6, <1>7

(* What the two writes have in common: only (c, h) changes, its journal    *)
(* row carries the etag now stored there, and the op says whether there    *)
(* was an object before and whether there is one now.                      *)
Writes(c, h, op, etag) ==
    /\ Journal(c, op, h, etag)
    /\ \A d \in Calendars, g \in Hrefs :
         d # c \/ g # h => ObjectsAt(d, g)' = ObjectsAt(d, g) /\ ETagAt(d, g)' = ETagAt(d, g)
    /\ ETagAt(c, h)' = etag
    /\ op = "added" <=> ObjectsAt(c, h) = {}
    /\ op = "deleted" <=> ObjectsAt(c, h)' = {}

(* The row written is preceded by the last row its href had before.        *)
LEMMA JournalInvStep ==
    ASSUME StoreTypeOK, JournalInv,
           NEW c \in Calendars, NEW h \in Hrefs,
           NEW op \in {"added", "modified", "deleted"},
           NEW etag \in {ETag(b) : b \in Blob} \cup {NoETag},
           Writes(c, h, op, etag)
    PROVE  JournalInv'
<1>1. PICK n \in Change :
         /\ n.cal = c /\ n.href = h /\ n.op = op /\ n.etag = etag
         /\ n.seq = syncSeq[c] + 1
         /\ changes' = changes \cup {n}
         /\ \A e \in changes : e.cal = c => e.seq < n.seq
         /\ JournalDense' /\ NewestExists'
         /\ IsNewest(changes', n)
         /\ \A e \in changes :
              IsNewest(changes', e) <=>
                IsNewest(changes, e) /\ ~(e.cal = c /\ e.href = h)
    BY JournalStep DEF JournalInv, Writes
<1>2. \A e \in changes' : IsNewest(changes', e) /\ e.cal = c /\ e.href = h => e = n
    BY <1>1
<1>3. changes \subseteq Change
    BY DEF StoreTypeOK
<1>4. JournalTracksStore'
    <2> SUFFICES ASSUME NEW d \in Calendars, NEW g \in Hrefs
                 PROVE  /\ ChangesOf(d, g)' = {} => ObjectsAt(d, g)' = {}
                        /\ \A e \in ChangesOf(d, g)' :
                             IsNewest(changes', e) => e.etag = ETagAt(d, g)'
        BY DEF JournalTracksStore
    <2>1. CASE d = c /\ g = h
        BY <2>1, <1>1, <1>2 DEF ChangesOf, Writes
    <2>2. CASE d # c \/ g # h
        <3>1. ObjectsAt(d, g)' = ObjectsAt(d, g) /\ ETagAt(d, g)' = ETagAt(d, g)
            BY <2>2 DEF Writes
        <3>2. ChangesOf(d, g)' = ChangesOf(d, g)
            BY <2>2, <1>1 DEF ChangesOf
        <3>3. \A e \in ChangesOf(d, g) : IsNewest(changes', e) => IsNewest(changes, e)
            BY <1>1 DEF ChangesOf
        <3> QED  BY <3>1, <3>2, <3>3 DEF JournalInv, JournalTracksStore
    <2> QED  BY <2>1, <2>2
<1>5. NewestOpTellsPresence'
    <2> SUFFICES ASSUME NEW d \in Calendars, NEW g \in Hrefs, NEW e \in ChangesOf(d, g)',
                        IsNewest(changes', e)
                 PROVE  e.op = "deleted" <=> ObjectsAt(d, g)' = {}
        BY DEF NewestOpTellsPresence
    <2>1. CASE d = c /\ g = h
        BY <2>1, <1>1, <1>2 DEF ChangesOf, Writes
    <2>2. CASE d # c \/ g # h
        <3>1. ObjectsAt(d, g)' = ObjectsAt(d, g)
            BY <2>2 DEF Writes
        <3>2. e \in ChangesOf(d, g) /\ IsNewest(changes, e)
            BY <2>2, <1>1 DEF ChangesOf
        <3> QED  BY <3>1, <3>2 DEF JournalInv, NewestOpTellsPresence
    <2> QED  BY <2>1, <2>2
<1>6. OpsTellHistory'
    <2>1. \A e, f \in changes : Precedes(e, f)' <=> Precedes(e, f)
        BY <1>1, <1>3 DEF Precedes, Change
    <2>2. \A f \in changes' : ~Precedes(n, f)'
        BY <1>1, <1>3 DEF Precedes, Change
    <2>3. \A e \in changes :
            Precedes(e, n)' <=> e.cal = c /\ e.href = h /\ IsNewest(changes, e)
        <3> SUFFICES ASSUME NEW e \in changes
                     PROVE  Precedes(e, n)' <=>
                              e.cal = c /\ e.href = h /\ IsNewest(changes, e)
            OBVIOUS
        <3>1. e \in Change /\ (e.cal = c => e.seq < n.seq)
            BY <1>1, <1>3
        <3>2. Precedes(e, n)' => e.cal = c /\ e.href = h /\ IsNewest(changes, e)
            <4>1. \A x \in changes : x.cal = c => ~(x.seq >= n.seq)
                BY <1>1, <1>3 DEF Change
            <4> QED  BY <1>1, <4>1 DEF Precedes, IsNewest
        <3>3. e.cal = c /\ e.href = h /\ IsNewest(changes, e) => Precedes(e, n)'
            BY <1>1, <3>1 DEF Precedes, IsNewest, Change
        <3> QED  BY <3>2, <3>3
    <2>4. \A e \in changes : Precedes(e, n)' => (n.op = "added" <=> e.op = "deleted")
        BY <2>3, <1>1 DEF JournalInv, NewestOpTellsPresence, ChangesOf, Writes
    <2>5. (\A e \in changes : ~Precedes(e, n)') => n.op = "added"
        <3> SUFFICES ASSUME \A e \in changes : ~Precedes(e, n)'
                     PROVE  n.op = "added"
            OBVIOUS
        <3>1. ChangesOf(c, h) = {}
            BY <2>3 DEF JournalInv, NewestExists, ChangesOf
        <3> QED  BY <3>1, <1>1 DEF JournalInv, JournalTracksStore, Writes
    <2>6. \A e, f \in changes' :
            Precedes(e, f)' => (f.op = "added" <=> e.op = "deleted")
        BY <2>1, <2>2, <2>4, <1>1 DEF JournalInv, OpsTellHistory
    <2>7. \A f \in changes' : (\A e \in changes' : ~Precedes(e, f)') => f.op = "added"
        BY <2>1, <2>5, <1>1 DEF JournalInv, OpsTellHistory
    <2> QED  BY <2>6, <2>7 DEF OpsTellHistory
<1> QED  BY <1>1, <1>4, <1>5, <1>6 DEF JournalInv

----------------------------------------------------------------------------
(* A put leaves exactly the new row at its href and nothing else changed.  *)
LEMMA PutWrites ==
    ASSUME StoreInv, NEW c \in Calendars, NEW h \in Hrefs, NEW b \in Blob,
           PutObject(c, h, b)
    PROVE  Writes(c, h, IF ObjectsAt(c, h) = {} THEN "added" ELSE "modified", ETag(b))
<1> DEFINE new == StoredObject(c, h, b)
           op == IF ObjectsAt(c, h) = {} THEN "added" ELSE "modified"
<1>1. new \in Object /\ \A o \in objects \ ObjectsAt(c, h) : o.id # new.id
    BY StoredObjectIsObject DEF StoreInv
<1>2. new.cal = c /\ new.href = h /\ new.blob = b
    BY DEF StoredObject
<1>3. objects' = (objects \ ObjectsAt(c, h)) \cup {new} /\ Journal(c, op, h, ETag(b))
    BY DEF PutObject
<1> HIDE DEF new
<1>4. ObjectsAt(c, h)' = {new} /\ ETagAt(c, h)' = ETag(b)
    <2>1. ObjectsAt(c, h)' = {new}
        BY <1>2, <1>3 DEF ObjectsAt
    <2> QED  BY <2>1, <1>2 DEF ETagAt
<1>5. \A d \in Calendars, g \in Hrefs :
        d # c \/ g # h => ObjectsAt(d, g)' = ObjectsAt(d, g)
    BY <1>2, <1>3 DEF ObjectsAt
<1>6. ASSUME NEW d \in Calendars, NEW g \in Hrefs, d # c \/ g # h
      PROVE  ETagAt(d, g)' = ETagAt(d, g)
    <2>1. ObjectsAt(d, g)' = ObjectsAt(d, g)
        BY <1>5, <1>6
    <2> QED  BY <2>1 DEF ETagAt, ETag, NoETag
<1> QED  BY <1>3, <1>4, <1>5, <1>6 DEF Writes

(* What a put or a deletion journals has the shape of a journal row.       *)
LEMMA WriteStep ==
    ASSUME StoreInv, NEW c \in Calendars, NEW h \in Hrefs,
           NEW op \in {"added", "modified", "deleted"},
           NEW etag \in {ETag(x) : x \in Blob} \cup {NoETag},
           Writes(c, h, op, etag)
    PROVE  syncSeq' \in [Calendars -> Nat] /\ changes' \subseteq Change /\ JournalInv'
BY JournalStep, JournalInvStep DEF StoreInv, JournalInv, Writes

(* PutObject keeps the invariant.                                          *)
LEMMA PutStep ==
    ASSUME StoreInv, NEW c \in Calendars, NEW h \in Hrefs, NEW b \in Blob,
           PutObject(c, h, b)
    PROVE  StoreInv'
<1> DEFINE new == StoredObject(c, h, b)
           op == IF ObjectsAt(c, h) = {} THEN "added" ELSE "modified"
<1>1. new \in Object /\ \A o \in objects \ ObjectsAt(c, h) : o.id # new.id
    BY StoredObjectIsObject DEF StoreInv
<1>2. new.cal = c /\ new.href = h /\ new.blob = b
    BY DEF StoredObject
<1>3. objects' = (objects \ ObjectsAt(c, h)) \cup {new}
    BY DEF PutObject
<1>4. syncSeq' \in [Calendars -> Nat] /\ changes' \subseteq Change /\ JournalInv'
    <2>1. op \in {"added", "modified", "deleted"} /\ ETag(b) \in {ETag(x) : x \in Blob} \cup {NoETag}
        OBVIOUS
    <2>2. Writes(c, h, op, ETag(b))
        BY PutWrites
    <2> HIDE DEF op
    <2> QED  BY <2>1, <2>2, WriteStep
<1> HIDE DEF new
<1>5. StoreTypeOK'
    BY <1>1, <1>3, <1>4 DEF StoreTypeOK, StoreInv
<1>6. IdsBounded'
    <2>1. PICK n \in Nat : \A o \in objects : o.id <= n
        BY DEF StoreInv, IdsBounded
    <2>2. new.id \in Nat /\ \A o \in objects : o.id \in Nat
        BY <1>1 DEF Object, StoreInv, StoreTypeOK
    <2>3. n + new.id \in Nat /\ \A o \in objects' : o.id <= n + new.id
        BY <1>3, <2>1, <2>2
    <2> QED  BY <2>3 DEF IdsBounded
<1>7. UniqueKeys'
    <2>1. \A o \in objects \ ObjectsAt(c, h) :
            ~(o.cal = c /\ (o.href = h \/ o.blob.uid = b.uid))
        BY DEF PutObject, PutAccepted, UidOwnedElsewhere, ObjectsAt
    <2>2. \A o \in objects \ ObjectsAt(c, h) :
            /\ o.id # new.id
            /\ ~(o.cal = new.cal /\ (o.href = new.href \/ o.blob.uid = new.blob.uid))
        BY <1>1, <1>2, <2>1
    <2> QED  BY <1>3, <2>2 DEF UniqueKeys, StoreInv
<1> QED  BY <1>4, <1>5, <1>6, <1>7 DEF StoreInv

(* A deletion leaves nothing at its href and nothing else changed.         *)
LEMMA DeleteWrites ==
    ASSUME NEW c \in Calendars, NEW h \in Hrefs, DeleteObject(c, h)
    PROVE  Writes(c, h, "deleted", NoETag)
<1>1. objects' = objects \ ObjectsAt(c, h) /\ ObjectsAt(c, h) # {}
      /\ Journal(c, "deleted", h, NoETag)
    BY DEF DeleteObject
<1>2. ObjectsAt(c, h)' = {} /\ ETagAt(c, h)' = NoETag
    BY <1>1 DEF ObjectsAt, ETagAt
<1>3. \A d \in Calendars, g \in Hrefs :
        d # c \/ g # h => ObjectsAt(d, g)' = ObjectsAt(d, g)
    BY <1>1 DEF ObjectsAt
<1>4. ASSUME NEW d \in Calendars, NEW g \in Hrefs, d # c \/ g # h
      PROVE  ETagAt(d, g)' = ETagAt(d, g)
    <2>1. ObjectsAt(d, g)' = ObjectsAt(d, g)
        BY <1>3, <1>4
    <2> QED  BY <2>1 DEF ETagAt, ETag, NoETag
<1> QED  BY <1>1, <1>2, <1>3, <1>4 DEF Writes

(* DeleteObject keeps the invariant.                                       *)
LEMMA DeleteStep ==
    ASSUME StoreInv, NEW c \in Calendars, NEW h \in Hrefs, DeleteObject(c, h)
    PROVE  StoreInv'
<1>1. objects' = objects \ ObjectsAt(c, h)
    BY DEF DeleteObject
<1>2. syncSeq' \in [Calendars -> Nat] /\ changes' \subseteq Change /\ JournalInv'
    BY DeleteWrites, WriteStep
<1>3. StoreTypeOK' /\ IdsBounded' /\ UniqueKeys'
    BY <1>1, <1>2 DEF StoreTypeOK, IdsBounded, UniqueKeys, StoreInv
<1> QED  BY <1>2, <1>3 DEF StoreInv

(* So does a step that leaves the three tables alone.                      *)
LEMMA StoreStutter == StoreInv /\ UNCHANGED storeVars => StoreInv'
BY DEF storeVars, StoreInv, StoreTypeOK, IdsBounded, UniqueKeys, JournalInv,
       JournalDense, NewestExists, JournalTracksStore, NewestOpTellsPresence,
       OpsTellHistory, Precedes, IsNewest, ChangesOf, ObjectsAt, ETagAt

(* Hence every step of the store keeps it.                                 *)
LEMMA StoreStep == StoreInv /\ [StoreNext]_storeVars => StoreInv'
BY PutStep, DeleteStep, StoreStutter DEF StoreNext

(* The empty database satisfies the invariant.                             *)
LEMMA StoreStart == StoreInit => StoreInv
<1> SUFFICES ASSUME StoreInit PROVE StoreInv
    OBVIOUS
<1>1. StoreTypeOK /\ UniqueKeys
    BY DEF StoreInit, StoreTypeOK, UniqueKeys
<1>2. IdsBounded
    BY DEF StoreInit, IdsBounded
<1>3. JournalInv
    BY DEF StoreInit, JournalInv, JournalDense, NewestExists, JournalTracksStore,
           NewestOpTellsPresence, OpsTellHistory, ChangesOf, ObjectsAt
<1> QED  BY <1>1, <1>2, <1>3 DEF StoreInv

(* The inductive invariant of the object store.                            *)
THEOREM StoreInvariant == StoreSpec => []StoreInv
BY StoreStart, StoreStep, PTL DEF StoreSpec

(* Rows and journal entries always have the shape the schema allows.       *)
THEOREM StoreTypeCorrect == StoreSpec => []StoreTypeOK
<1>1. StoreInv => StoreTypeOK
    BY DEF StoreInv
<1> QED  BY <1>1, StoreInvariant, PTL

(* PutObject's UID check and its choice between update and insert keep     *)
(* ids, hrefs and UIDs unique, ids being reused after a delete.            *)
THEOREM KeysUnique == StoreSpec => []UniqueKeys
<1>1. StoreInv => UniqueKeys
    BY DEF StoreInv
<1> QED  BY <1>1, StoreInvariant, PTL

(* bumpSync and the journal insert never lose or repeat a number.          *)
THEOREM JournalIsDense == StoreSpec => []JournalDense
<1>1. StoreInv => JournalDense
    BY DEF StoreInv, JournalInv
<1> QED  BY <1>1, StoreInvariant, PTL

(* After any sequence of puts and deletes the last journal row of an href  *)
(* tells what is stored there.                                             *)
THEOREM JournalTracks == StoreSpec => []JournalTracksStore
<1>1. StoreInv => JournalTracksStore
    BY DEF StoreInv, JournalInv
<1> QED  BY <1>1, StoreInvariant, PTL

(* The ops of one href alternate as its history does: added, then any      *)
(* number of modified, then deleted, and again.                            *)
THEOREM HistoryTold == StoreSpec => []OpsTellHistory
<1>1. StoreInv => OpsTellHistory
    BY DEF StoreInv, JournalInv
<1> QED  BY <1>1, StoreInvariant, PTL
=============================================================================
