---------------------------- MODULE ObjectStore ----------------------------
(***************************************************************************)
(* The objects table, the calendars' sync sequences and the change journal *)
(* of the SQLite database (internal/storage/objects.go, bumpSync of        *)
(* calendars.go).  The pool holds one connection, so each of the two       *)
(* writing operations is one transaction and one step here.                *)
(*                                                                         *)
(* A blob is a parsed iCalendar body: its UID, its component type and the  *)
(* rest of it, left to the module that extends this one.  The columns uid, *)
(* component_type and etag of a row are computed from the blob by the same *)
(* statement that stores it, and are read off the blob here.               *)
(***************************************************************************)
EXTENDS Integers, FiniteSetsExt

CONSTANTS
    Calendars,  \* calendar ids
    Hrefs,      \* resource names inside a calendar
    Uids,       \* iCalendar UIDs
    Comps,      \* component types: VEVENT, VTODO
    Bodies      \* what else a blob says

VARIABLES
    objects,    \* rows of the objects table
    syncSeq,    \* calendars.sync_seq (ctag is its decimal form)
    changes     \* rows of object_changes, the journal of every calendar

storeVars == <<objects, syncSeq, changes>>

Blob == [uid: Uids, comp: Comps, body: Bodies]

(* ETag hashes the stored bytes; hashes of different bodies differ. *)
ETag(blob) == [sha256 |-> blob]

(* The NULL etag of a deletion's journal row, and the etag of no object. *)
NoETag == [null |-> TRUE]

Object == [id: Nat \ {0}, cal: Calendars, href: Hrefs, blob: Blob]

Change == [cal: Calendars, seq: Nat \ {0}, op: {"added", "modified", "deleted"},
           href: Hrefs, etag: {ETag(b) : b \in Blob} \cup {NoETag}]

----------------------------------------------------------------------------
(* Reading. *)

ObjectsAt(c, h) == {o \in objects : o.cal = c /\ o.href = h}

ETagAt(c, h) ==
    IF ObjectsAt(c, h) = {} THEN NoETag
    ELSE ETag((CHOOSE o \in ObjectsAt(c, h) : TRUE).blob)

ChangesSince(c, seq) == {e \in changes : e.cal = c /\ e.seq > seq}

ChangesOf(c, h) == {e \in changes : e.cal = c /\ e.href = h}

(* e is the last word of a set of journal rows on e's href. *)
IsNewest(rows, e) ==
    /\ e \in rows
    /\ \A f \in rows : f.cal = e.cal /\ f.href = e.href => f.seq <= e.seq

----------------------------------------------------------------------------
(* Writing. *)

Ids == {o.id : o \in objects}

(* INTEGER PRIMARY KEY without AUTOINCREMENT: one more than the largest id  *)
(* in the table, so the id of a deleted last row is given out again.        *)
NextId == IF Ids = {} THEN 1 ELSE Max(Ids) + 1

(* Mutant: the query compares the hrefs the wrong way round.               *)
UidOwnerGuardOffMutant(c, h, blob) ==
    \E o \in objects : o.cal = c /\ o.href = h /\ o.blob.uid # blob.uid

(* A different href of this calendar already owns the UID. *)
UidOwnedElsewhere(c, h, blob) ==
    \E o \in objects : o.cal = c /\ o.href # h /\ o.blob.uid = blob.uid

PutAccepted(c, h, blob) ==
    /\ ~UidOwnedElsewhere(c, h, blob)
    /\ \A o \in ObjectsAt(c, h) : o.blob.comp = blob.comp

(* Mutant: an op the schema does not know.                                 *)
JournalWrongOpMutant(c, op, h, etag) ==
    /\ syncSeq' = [syncSeq EXCEPT ![c] = @ + 1]
    /\ changes' = changes \cup
         {[cal |-> c, seq |-> syncSeq[c] + 1, href |-> h, etag |-> etag,
           op |-> IF op = "deleted" THEN "removed" ELSE op]}

(* Mutant: the row takes the number from before the bump.                  *)
JournalStaleSeqMutant(c, op, h, etag) ==
    /\ syncSeq' = [syncSeq EXCEPT ![c] = @ + 1]
    /\ changes' = changes \cup
         {[cal |-> c, seq |-> syncSeq[c], op |-> op, href |-> h, etag |-> etag]}

(* bumpSync and the insert into object_changes that follows it. *)
Journal(c, op, h, etag) ==
    /\ syncSeq' = [syncSeq EXCEPT ![c] = @ + 1]
    /\ changes' = changes \cup
         {[cal |-> c, seq |-> syncSeq[c] + 1, op |-> op, href |-> h, etag |-> etag]}

(* The row the accepted put leaves at (c, h): an update keeps the id. *)
StoredObject(c, h, blob) ==
    [id |-> IF ObjectsAt(c, h) = {} THEN NextId
            ELSE (CHOOSE o \in ObjectsAt(c, h) : TRUE).id,
     cal |-> c, href |-> h, blob |-> blob]

(* Mutant: an update is journaled as an insert.                            *)
PutObjectAlwaysAddedMutant(c, h, blob) ==
    /\ PutAccepted(c, h, blob)
    /\ objects' = (objects \ ObjectsAt(c, h)) \cup {StoredObject(c, h, blob)}
    /\ Journal(c, "added", h, ETag(blob))

PutObject(c, h, blob) ==
    /\ PutAccepted(c, h, blob)
    /\ objects' = (objects \ ObjectsAt(c, h)) \cup {StoredObject(c, h, blob)}
    /\ Journal(c, IF ObjectsAt(c, h) = {} THEN "added" ELSE "modified", h, ETag(blob))

(* Mutant: a deletion leaves no journal row.                               *)
DeleteObjectUnjournaledMutant(c, h) ==
    /\ ObjectsAt(c, h) # {}
    /\ objects' = objects \ ObjectsAt(c, h)
    /\ UNCHANGED <<syncSeq, changes>>

DeleteObject(c, h) ==
    /\ ObjectsAt(c, h) # {}
    /\ objects' = objects \ ObjectsAt(c, h)
    /\ Journal(c, "deleted", h, NoETag)

----------------------------------------------------------------------------
StoreInit ==
    /\ objects = {}
    /\ syncSeq = [c \in Calendars |-> 0]
    /\ changes = {}

StoreNext ==
    \E c \in Calendars, h \in Hrefs :
        \/ \E blob \in Blob : PutObject(c, h, blob)
        \/ DeleteObject(c, h)

StoreSpec == StoreInit /\ [][StoreNext]_storeVars

----------------------------------------------------------------------------
(* Rows and journal entries have the shape the schema's CHECKs allow.      *)
StoreTypeOK ==
    /\ objects \subseteq Object
    /\ syncSeq \in [Calendars -> Nat]
    /\ changes \subseteq Change

(* What the schema's keys demand and the puts must respect: an id, an      *)
(* (href) and a UID of a calendar each name one object.                    *)
UniqueKeys ==
    \A o, p \in objects :
        \/ o.id = p.id
        \/ o.cal = p.cal /\ (o.href = p.href \/ o.blob.uid = p.blob.uid)
        => o = p

(* The journal of a calendar numbers its rows 1 .. sync_seq, one row per   *)
(* number: no change is lost and no two share a number, so a token is a    *)
(* place in the journal.                                                   *)
JournalDense ==
    /\ \A e \in changes : e.seq \in 1 .. syncSeq[e.cal]
    /\ \A e, f \in changes : e.cal = f.cal /\ e.seq = f.seq => e = f
    /\ \A c \in Calendars : \A n \in 1 .. syncSeq[c] :
         \E e \in changes : e.cal = c /\ e.seq = n

(* The last journal row of an href tells what is stored there: its etag,   *)
(* or that nothing is; an href the journal is silent about holds nothing.  *)
JournalTracksStore ==
    \A c \in Calendars, h \in Hrefs :
        /\ ChangesOf(c, h) = {} => ObjectsAt(c, h) = {}
        /\ \A e \in ChangesOf(c, h) :
             IsNewest(changes, e) => e.etag = ETagAt(c, h)

(* Consecutive rows e, f of one href: f adds exactly when e deleted, and   *)
(* the first row of an href adds.                                          *)
Precedes(e, f) ==
    /\ e.cal = f.cal /\ e.href = f.href /\ e.seq < f.seq
    /\ \A g \in changes :
         g.cal = e.cal /\ g.href = e.href => g.seq <= e.seq \/ g.seq >= f.seq

OpsTellHistory ==
    /\ \A e, f \in changes : Precedes(e, f) => (f.op = "added" <=> e.op = "deleted")
    /\ \A f \in changes : (\A e \in changes : ~Precedes(e, f)) => f.op = "added"
=============================================================================
