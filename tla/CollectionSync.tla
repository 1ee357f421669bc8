--------------------------- MODULE CollectionSync ---------------------------
(***************************************************************************)
(* The object store together with the consumers its journal is kept for    *)
(* (migrations/001_init.up.sql: "Per-collection change journal that powers *)
(* sync-collection").  A replica holds the etags it has seen and the       *)
(* number of the last change it was given, and asks ChangesSince for more. *)
(***************************************************************************)
EXTENDS ObjectStore

CONSTANTS
    Replicas,   \* sync clients
    Follows,    \* the calendar each of them mirrors
    MaxChanges  \* bound: rows in the journal

ASSUME SyncAssumption ==
    /\ Follows \in [Replicas -> Calendars]
    /\ MaxChanges \in Nat

VARIABLES
    token,      \* token[k]: seq of the newest change k was given
    known       \* known[k][h]: etag k holds for h, or NoETag

vars == <<objects, syncSeq, changes, token, known>>

ETags == {ETag(b) : b \in Blob}

(* The etag a set of journal rows leaves at h, starting from before. *)
Replayed(rows, h, before) ==
    IF \E e \in rows : e.href = h
    THEN (CHOOSE e \in rows : e.href = h /\ IsNewest(rows, e)).etag
    ELSE before

NewestSeq(rows, seq) == IF rows = {} THEN seq ELSE Max({e.seq : e \in rows})

SyncInit ==
    /\ StoreInit
    /\ token = [k \in Replicas |-> 0]
    /\ known = [k \in Replicas |-> [h \in Hrefs |-> NoETag]]

Put(c, h, blob) ==
    /\ Cardinality(changes) < MaxChanges
    /\ PutObject(c, h, blob)
    /\ UNCHANGED <<token, known>>

Delete(c, h) ==
    /\ Cardinality(changes) < MaxChanges
    /\ DeleteObject(c, h)
    /\ UNCHANGED <<token, known>>

(* Mutant: the change after the token is passed over.                      *)
PullSkipsOneMutant(k) ==
    LET rows == ChangesSince(Follows[k], token[k] + 1) IN
    /\ known' = [known EXCEPT ![k] = [h \in Hrefs |-> Replayed(rows, h, @[h])]]
    /\ token' = [token EXCEPT ![k] = NewestSeq(rows, @)]
    /\ UNCHANGED storeVars

(* One sync-collection exchange: everything after the token, applied.      *)
Pull(k) ==
    LET rows == ChangesSince(Follows[k], token[k]) IN
    /\ known' = [known EXCEPT ![k] = [h \in Hrefs |-> Replayed(rows, h, @[h])]]
    /\ token' = [token EXCEPT ![k] = NewestSeq(rows, @)]
    /\ UNCHANGED storeVars

SyncNext ==
    \/ \E c \in Calendars, h \in Hrefs :
         \/ \E blob \in Blob : Put(c, h, blob)
         \/ Delete(c, h)
    \/ \E k \in Replicas : Pull(k)

SyncSpec == SyncInit /\ [][SyncNext]_vars

----------------------------------------------------------------------------
SyncTypeOK ==
    /\ StoreTypeOK
    /\ token \in [Replicas -> Nat]
    /\ known \in [Replicas -> [Hrefs -> ETags \cup {NoETag}]]

(* What a replica holds, brought up to date with the changes after its     *)
(* token, is the collection as stored: a token never skips a change.       *)
PendingChangesSuffice ==
    \A k \in Replicas, h \in Hrefs :
        Replayed(ChangesSince(Follows[k], token[k]), h, known[k][h])
            = ETagAt(Follows[k], h)

(* The stored collections, as etags.                                       *)
Held == [c \in Calendars |-> [h \in Hrefs |-> ETagAt(c, h)]]

Live == INSTANCE LiveCollection WITH held <- Held

(* Pulling from the journal is as good as reading the collection.          *)
ImplementsLiveCollection == Live!Spec
=============================================================================
