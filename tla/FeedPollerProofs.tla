-------------------------- MODULE FeedPollerProofs --------------------------
(***************************************************************************)
(* Proofs about FeedPoller, for any number of feeds, pollers and clients:  *)
(* types and the wait after failures;                                      *)
(* the store sees puts and deletes only; a poll deletes nothing the feed   *)
(* has always had; a poll whose writes nobody mixed with leaves the        *)
(* calendar showing its feed; and a stored validator is that of what the   *)
(* calendar shows.                                                         *)
(***************************************************************************)
EXTENDS FeedPoller, ObjectStoreProofs, FiniteSetTheorems

(* The events of r.doc that r is done with, and has not skipped, are there. *)
Placed(r, done) ==
    \A b \in done \ r.skipped : \E o \in ObjectsAt(r.cal, Href(b)) : o.blob \in r.doc

(* What is always true of a poll: it works from a version the feed has had, *)
(* and knows how far it has come while nobody else writes.                  *)
PollOK(r) ==
    /\ r.pc \in {"idle", "fetch", "sync", "prune", "record"}
    /\ r.pc # "idle" =>
         /\ r.cal \in Calendars
         /\ \A q \in r.rest : q.cal \in Calendars
    /\ r.pc \in {"sync", "prune"} =>
         /\ r.doc \in published[r.cal] \ {{}}
         /\ r.seqAt \in Nat /\ r.seqAt <= syncSeq[r.cal]
    /\ r.pc = "sync" =>
         /\ r.todo \subseteq r.doc
         /\ r.seqAt = syncSeq[r.cal] => Placed(r, r.doc \ r.todo)
    /\ r.pc = "prune" =>
         /\ r.todo \subseteq Hrefs \ HrefsOf(r.doc)
         /\ r.seqAt = syncSeq[r.cal] =>
              /\ Placed(r, r.doc)
              /\ \A o \in objects : o.cal = r.cal => o.href \in HrefsOf(r.doc) \cup r.todo

FeedInv ==
    /\ StoreInv
    /\ feed = [c \in Calendars |-> feed[c]]
    /\ published \in [Calendars -> SUBSET Documents]
    /\ \A c \in Calendars : feed[c].doc \in published[c]
    /\ poll = [p \in Pollers |-> poll[p]]
    /\ \A p \in Pollers : PollOK(poll[p])

(* What a step of a poll may take away.                                    *)
Standing ==
    \A o \in objects :
        \/ \E p \in objects' : p.cal = o.cal /\ p.href = o.href
        \/ \E doc \in published[o.cal] \ {{}} : o.href \notin HrefsOf(doc)

Kept == FeedInv' /\ [StoreNext]_storeVars /\ (poll' # poll => Standing)

(* Calendar c alone is written to, and counts it.                          *)
Wrote(c) ==
    /\ syncSeq' = [syncSeq EXCEPT ![c] = @ + 1]
    /\ \A o : o.cal # c => (o \in objects' <=> o \in objects)

----------------------------------------------------------------------------
(* The events of a document are blobs, and have names.                     *)
LEMMA DocumentBlobs ==
    ASSUME NEW doc \in Documents
    PROVE  doc \subseteq Blob /\ HrefsOf(doc) \subseteq Hrefs /\ \A b \in doc : Href(b) \in HrefsOf(doc)
BY FeedAssumption DEF Blob, HrefsOf, Href

(* A put writes to its calendar, one row, in the place of at most one.     *)
LEMMA PutWrote ==
    ASSUME StoreInv, NEW c \in Calendars, NEW h \in Hrefs, NEW b \in Blob, PutObject(c, h, b)
    PROVE  /\ Wrote(c) /\ StoreNext
           /\ \E n \in objects' : n.cal = c /\ n.href = h /\ n.blob = b
           /\ \A o \in objects' : o \in objects \/ (o.cal = c /\ o.href = h /\ o.blob = b)
           /\ \A o \in objects : o \in objects' \/ (o.cal = c /\ o.href = h)
<1>1. PICK n : n = StoredObject(c, h, b)
  OBVIOUS
<1>2. n.cal = c /\ n.href = h /\ n.blob = b
  BY <1>1 DEF StoredObject
<1>3. objects' = (objects \ ObjectsAt(c, h)) \cup {n}
  BY <1>1 DEF PutObject
<1>4. syncSeq' = [syncSeq EXCEPT ![c] = @ + 1]
  BY DEF PutObject, Journal
<1>5. StoreNext
  BY DEF StoreNext
<1> QED
  BY <1>2, <1>3, <1>4, <1>5 DEF Wrote, ObjectsAt

(* So does a deletion.                                                     *)
LEMMA DeleteWrote ==
    ASSUME NEW c \in Calendars, NEW h \in Hrefs, DeleteObject(c, h)
    PROVE  /\ Wrote(c) /\ StoreNext
           /\ \A o : o \in objects' <=> o \in objects /\ ~(o.cal = c /\ o.href = h)
<1>1. objects' = objects \ ObjectsAt(c, h) /\ syncSeq' = [syncSeq EXCEPT ![c] = @ + 1]
  BY DEF DeleteObject, Journal
<1>2. StoreNext
  BY DEF StoreNext
<1> QED
  BY <1>1, <1>2 DEF Wrote, ObjectsAt

(* Whatever others write, a poll stays as it should be: one that is        *)
(* interfered with stops claiming how far it has come.                     *)
LEMMA OthersKept ==
    ASSUME StoreInv, published \in [Calendars -> SUBSET Documents],
           \A c \in Calendars : published[c] \subseteq published'[c],
           UNCHANGED <<objects, syncSeq>> \/ \E c \in Calendars : Wrote(c),
           NEW r, PollOK(r)
    PROVE  PollOK(r)'
<1>1. syncSeq \in [Calendars -> Nat]
  BY DEF StoreInv, StoreTypeOK
<1>2. CASE UNCHANGED <<objects, syncSeq>>
  BY <1>2 DEF PollOK, Placed, ObjectsAt
<1>3. ASSUME NEW c \in Calendars, Wrote(c) PROVE PollOK(r)'
  <2>1. CASE r.pc \in {"sync", "prune"} /\ r.cal = c
    <3>1. syncSeq'[c] = syncSeq[c] + 1 /\ r.seqAt \in Nat /\ r.seqAt <= syncSeq[c]
      BY <1>1, <1>3, <2>1 DEF Wrote, PollOK
    <3>2. r.seqAt <= syncSeq'[c] /\ r.seqAt # syncSeq'[c]
      BY <1>1, <3>1
    <3> QED
      BY <2>1, <3>2 DEF PollOK
  <2>2. CASE r.pc \in {"sync", "prune"} /\ r.cal # c
    <3>1. r.cal \in Calendars /\ syncSeq'[r.cal] = syncSeq[r.cal]
      BY <1>1, <1>3, <2>2 DEF Wrote, PollOK
    <3>2. \A o : o.cal = r.cal => (o \in objects' <=> o \in objects)
      BY <1>3, <2>2 DEF Wrote
    <3>3. \A h : ObjectsAt(r.cal, h)' = ObjectsAt(r.cal, h)
      BY <3>2 DEF ObjectsAt
    <3> QED
      BY <2>2, <3>1, <3>2, <3>3 DEF PollOK, Placed
  <2>3. CASE r.pc \notin {"sync", "prune"}
    BY <2>3 DEF PollOK
  <2> QED
    BY <2>1, <2>2, <2>3
<1> QED
  BY <1>2, <1>3

(* Hence a step keeps the invariant if the poll that takes it does.        *)
LEMMA PollMoves ==
    ASSUME FeedInv, [StoreNext]_storeVars,
           UNCHANGED <<objects, syncSeq>> \/ \E c \in Calendars : Wrote(c),
           UNCHANGED <<feed, published>>,
           NEW p \in Pollers, NEW r, poll' = [poll EXCEPT ![p] = r], PollOK(r)',
           Standing
    PROVE  Kept
<1>1. StoreInv'
  BY StoreStep DEF FeedInv
<1>2. ASSUME NEW q \in Pollers PROVE PollOK(poll[q])'
  <2>1. CASE q = p
    <3>1. poll'[q] = r
      BY <2>1 DEF FeedInv
    <3> QED
      BY <3>1 DEF PollOK, Placed
  <2>2. CASE q # p
    <3>1. PICK x : x = poll[q]
      OBVIOUS
    <3>2. PollOK(x)
      BY <3>1 DEF FeedInv
    <3>3. PollOK(x)'
      BY <3>2, OthersKept DEF FeedInv
    <3>4. poll'[q] = x
      BY <2>2, <3>1 DEF FeedInv
    <3> QED
      BY <3>3, <3>4 DEF PollOK, Placed
  <2> QED
    BY <2>1, <2>2
<1>3. poll' = [q \in Pollers |-> poll'[q]]
  BY DEF FeedInv
<1>4. FeedInv'
  BY <1>1, <1>2, <1>3 DEF FeedInv
<1> QED
  BY <1>4 DEF Kept

----------------------------------------------------------------------------
(* A sweep turns to a calendar it has not polled yet.                      *)
LEMMA NextOfIs ==
    ASSUME NEW rest, \A q \in rest : q.cal \in Calendars, rest # {}
    PROVE  \E r \in rest :
             NextOf(rest) = [pc |-> "fetch", cal |-> r.cal, row |-> r.row, rest |-> rest \ {r}]
<1>1. {q.cal : q \in rest} \subseteq Nat /\ {q.cal : q \in rest} # {}
  <2>1. \A q \in rest : q.cal \in Nat
    BY FeedAssumption
  <2>2. PICK q \in rest : TRUE
    OBVIOUS
  <2>3. q.cal \in {x.cal : x \in rest}
    BY <2>2
  <2> QED
    BY <2>1, <2>3
<1>2. \E x \in {q.cal : q \in rest} : \A y \in {q.cal : q \in rest} : x <= y
  BY <1>1, LeastNatural
<1>3. \E r \in rest : \A q \in rest : r.cal <= q.cal
  BY <1>2
<1>4. PICK r : r = CHOOSE x \in rest : \A q \in rest : x.cal <= q.cal
  OBVIOUS
<1>5. r \in rest
  BY <1>3, <1>4, Zenon
<1> QED
  BY <1>4, <1>5 DEF NextOf

(* What a sweep or a handler turns to is as it should be.                  *)
LEMMA NextOfOK ==
    ASSUME NEW rest, \A q \in rest : q.cal \in Calendars
    PROVE  PollOK(NextOf(rest))'
<1>1. CASE rest = {}
  BY <1>1 DEF NextOf, Idle, PollOK
<1>2. CASE rest # {}
  BY <1>2, NextOfIs DEF PollOK
<1> QED
  BY <1>1, <1>2

(* A step that stores nothing and moves one poll.                          *)
LEMMA PollMovesQuietly ==
    ASSUME FeedInv, UNCHANGED <<objects, syncSeq, changes, feed, published>>,
           NEW p \in Pollers, NEW r, poll' = [poll EXCEPT ![p] = r], PollOK(r)'
    PROVE  Kept
<1>1. UNCHANGED storeVars /\ Standing
  BY DEF storeVars, Standing
<1> QED
  BY <1>1, PollMoves

(* The beginning and the end of polls.                                     *)
LEMMA BeginStep ==
    ASSUME FeedInv,
           \/ BeginSweep
           \/ \E p \in Pollers : Record(p) \/ Disconnect(p) \/ \E c \in Calendars : BeginPoll(p, c)
    PROVE  Kept
<1>1. CASE BeginSweep
  <2>1. PICK rest : rest = {[cal |-> c, row |-> state[c]] : c \in {d \in Calendars : Due(d)}}
    OBVIOUS
  <2>2. PollOK(NextOf(rest))'
    BY <2>1, NextOfOK
  <2>3. /\ poll' = [poll EXCEPT ![Sweeper] = NextOf(rest)]
        /\ UNCHANGED <<objects, syncSeq, changes, feed, published>>
    BY <1>1, <2>1 DEF BeginSweep, storeVars
  <2> QED
    BY <2>2, <2>3, FeedAssumption, PollMovesQuietly
<1>2. ASSUME NEW p \in Pollers, NEW c \in Calendars, BeginPoll(p, c) PROVE Kept
  <2>1. PICK rest : rest = {[cal |-> c, row |-> state[c]]}
    OBVIOUS
  <2>2. PollOK(NextOf(rest))'
    BY <2>1, NextOfOK
  <2>3. /\ poll' = [poll EXCEPT ![p] = NextOf(rest)]
        /\ UNCHANGED <<objects, syncSeq, changes, feed, published>>
    BY <1>2, <2>1 DEF BeginPoll, storeVars
  <2> QED
    BY <2>2, <2>3, PollMovesQuietly
<1>3. ASSUME NEW p \in Pollers, Record(p) PROVE Kept
  <2>1. PICK rest : rest = poll[p].rest
    OBVIOUS
  <2>2. \A q \in rest : q.cal \in Calendars
    BY <1>3, <2>1 DEF Record, Synced, FeedInv, PollOK
  <2>3. PollOK(NextOf(rest))'
    BY <2>2, NextOfOK
  <2>4. /\ poll' = [poll EXCEPT ![p] = NextOf(rest)]
        /\ UNCHANGED <<objects, syncSeq, changes, feed, published>>
    BY <1>3, <2>1 DEF Record, storeVars
  <2> QED
    BY <2>3, <2>4, PollMovesQuietly
<1>4. ASSUME NEW p \in Pollers, Disconnect(p) PROVE Kept
  <2>1. PollOK(Idle)'
    BY DEF PollOK, Idle
  <2>2. /\ poll' = [poll EXCEPT ![p] = Idle]
        /\ UNCHANGED <<objects, syncSeq, changes, feed, published>>
    BY <1>4 DEF Disconnect, storeVars
  <2> QED
    BY <2>1, <2>2, PollMovesQuietly
<1> QED
  BY <1>1, <1>2, <1>3, <1>4

(* A response: what is synced is a version with events.                    *)
LEMMA FetchStep ==
    ASSUME FeedInv, NEW p \in Pollers, Fetch(p)
    PROVE  Kept
<1>1. PICK r : r = poll[p]
  OBVIOUS
<1>2. r.pc = "fetch" /\ r.cal \in Calendars /\ \A q \in r.rest : q.cal \in Calendars
  BY <1>1 DEF Fetch, FeedInv, PollOK
<1>3. UNCHANGED <<objects, syncSeq, changes, feed, published>>
  BY DEF Fetch, storeVars
<1>4. ASSUME NEW tag, NEW fails, poll' = [poll EXCEPT ![p] = ToRecord(r, tag, fails)] PROVE Kept
  <2>1. PICK q : q = ToRecord(r, tag, fails)
    OBVIOUS
  <2>2. PollOK(q)'
    BY <1>2, <2>1 DEF PollOK, ToRecord
  <2> QED
    BY <1>3, <1>4, <2>1, <2>2, PollMovesQuietly
<1>5. ASSUME NEW tag, feed[r.cal].doc # {},
             poll' = [poll EXCEPT ![p] = ToSync(r, feed[r.cal].doc, tag)]
      PROVE  Kept
  <2>1. PICK doc : doc = feed[r.cal].doc
    OBVIOUS
  <2>2. PICK q : q = ToSync(r, doc, tag)
    OBVIOUS
  <2>3. doc \in published[r.cal] \ {{}} /\ syncSeq[r.cal] \in Nat
    BY <1>2, <1>5, <2>1 DEF FeedInv, StoreInv, StoreTypeOK
  <2>4. /\ q.pc = "sync" /\ q.cal = r.cal /\ q.rest = r.rest /\ q.doc = doc /\ q.todo = doc
        /\ q.skipped = {} /\ q.seqAt = syncSeq[r.cal]
    BY <2>2 DEF ToSync
  <2>5. PollOK(q)'
    BY <1>2, <1>3, <2>3, <2>4 DEF PollOK, Placed
  <2> QED
    BY <1>3, <1>5, <2>1, <2>2, <2>5, PollMovesQuietly
<1> QED
  BY <1>1, <1>4, <1>5 DEF Fetch

----------------------------------------------------------------------------
(* A row at an href keeps an event standing.                               *)
LEMMA PutStands ==
    ASSUME StoreInv, NEW c \in Calendars, NEW h \in Hrefs, NEW b \in Blob, PutObject(c, h, b)
    PROVE  Standing
BY PutWrote DEF Standing

(* One event of the feed.                                                  *)
LEMMA UpsertStep ==
    ASSUME FeedInv, NEW p \in Pollers, NEW b \in Blob, Upsert(p, b)
    PROVE  Kept
<1>1. PICK r : r = poll[p]
  OBVIOUS
<1>2. /\ r.pc = "sync" /\ b \in r.todo /\ r.cal \in Calendars
      /\ r.doc \in published[r.cal] \ {{}}
      /\ r.seqAt \in Nat /\ r.seqAt <= syncSeq[r.cal] /\ r.todo \subseteq r.doc
      /\ r.seqAt = syncSeq[r.cal] => Placed(r, r.doc \ r.todo)
      /\ \A q \in r.rest : q.cal \in Calendars
  BY <1>1 DEF Upsert, FeedInv, PollOK
<1>3. UNCHANGED <<feed, published>> /\ syncSeq \in [Calendars -> Nat]
  BY DEF Upsert, FeedInv, StoreInv, StoreTypeOK
<1>4. Href(b) \in Hrefs /\ b \in r.doc
  BY <1>2, FeedAssumption DEF Href, Blob
<1>5. CASE /\ PutObject(r.cal, Href(b), b)
           /\ poll' = [poll EXCEPT ![p] = [r EXCEPT !.todo = r.todo \ {b}, !.seqAt = Advanced(r)]]
  <2>1. PICK n : n = Advanced(r)
    OBVIOUS
  <2>2. PICK q : q = [r EXCEPT !.todo = r.todo \ {b}, !.seqAt = n]
    OBVIOUS
  <2>3. Wrote(r.cal) /\ StoreNext /\ Standing
    BY <1>2, <1>4, <1>5, PutWrote, PutStands DEF FeedInv
  <2>4. /\ \E x \in objects' : x.cal = r.cal /\ x.href = Href(b) /\ x.blob = b
        /\ \A o \in objects : o \in objects' \/ (o.cal = r.cal /\ o.href = Href(b))
    BY <1>2, <1>4, <1>5, PutWrote DEF FeedInv
  <2>5. syncSeq'[r.cal] = syncSeq[r.cal] + 1
    BY <1>2, <1>3, <2>3 DEF Wrote
  <2>6. /\ n \in Nat /\ n <= syncSeq'[r.cal]
        /\ n = syncSeq'[r.cal] => r.seqAt = syncSeq[r.cal]
    BY <1>2, <1>3, <2>1, <2>5 DEF Advanced
  <2>7. ASSUME r.seqAt = syncSeq[r.cal], NEW d \in (r.doc \ (r.todo \ {b})) \ r.skipped
        PROVE  \E o \in ObjectsAt(r.cal, Href(d))' : o.blob \in r.doc
    <3>1. CASE Href(d) = Href(b)
      BY <1>4, <2>4, <3>1 DEF ObjectsAt
    <3>2. CASE Href(d) # Href(b)
      <4>1. d \in (r.doc \ r.todo) \ r.skipped
        BY <2>7, <3>2
      <4>2. PICK o \in ObjectsAt(r.cal, Href(d)) : o.blob \in r.doc
        BY <1>2, <2>7, <4>1 DEF Placed
      <4>3. o \in objects'
        BY <2>4, <3>2, <4>2 DEF ObjectsAt
      <4> QED
        BY <4>2, <4>3 DEF ObjectsAt
    <3> QED
      BY <3>1, <3>2
  <2>8. /\ q.pc = "sync" /\ q.cal = r.cal /\ q.rest = r.rest /\ q.doc = r.doc
        /\ q.todo = r.todo \ {b} /\ q.skipped = r.skipped /\ q.seqAt = n
    BY <1>2, <2>2
  <2>9. PollOK(q)'
    <3>1. n = syncSeq'[r.cal] => Placed(q, q.doc \ q.todo)'
      BY <2>6, <2>7, <2>8 DEF Placed
    <3> QED
      BY <1>2, <1>3, <2>6, <2>8, <3>1 DEF PollOK
  <2>10. poll' = [poll EXCEPT ![p] = q]
    BY <1>5, <2>1, <2>2
  <2> QED
    BY <1>2, <1>3, <2>3, <2>9, <2>10, PollMoves
<1>6. CASE /\ poll' = [poll EXCEPT ![p] = [r EXCEPT !.todo = r.todo \ {b},
                                                    !.skipped = r.skipped \cup {b}]]
           /\ UNCHANGED storeVars
  <2>1. PICK q : q = [r EXCEPT !.todo = r.todo \ {b}, !.skipped = r.skipped \cup {b}]
    OBVIOUS
  <2>2. /\ q.pc = "sync" /\ q.cal = r.cal /\ q.rest = r.rest /\ q.doc = r.doc
        /\ q.todo = r.todo \ {b} /\ q.skipped = r.skipped \cup {b} /\ q.seqAt = r.seqAt
    BY <1>2, <2>1
  <2>3. UNCHANGED <<objects, syncSeq, changes, feed, published>>
    BY <1>3, <1>6 DEF storeVars
  <2>4. PollOK(q)'
    BY <1>2, <2>2, <2>3 DEF PollOK, Placed, ObjectsAt
  <2>5. poll' = [poll EXCEPT ![p] = q]
    BY <1>6, <2>1
  <2> QED
    BY <2>3, <2>4, <2>5, PollMovesQuietly
<1> QED
  BY <1>1, <1>5, <1>6 DEF Upsert

(* The listing: all that does not go is named by the feed.                 *)
LEMMA ListStep ==
    ASSUME FeedInv, NEW p \in Pollers, List(p)
    PROVE  Kept
<1>1. PICK r : r = poll[p]
  OBVIOUS
<1>2. /\ r.pc = "sync" /\ r.todo = {} /\ r.cal \in Calendars
      /\ r.doc \in published[r.cal] \ {{}} /\ r.seqAt \in Nat /\ r.seqAt <= syncSeq[r.cal]
      /\ r.seqAt = syncSeq[r.cal] => Placed(r, r.doc \ r.todo)
      /\ \A q \in r.rest : q.cal \in Calendars
  BY <1>1 DEF List, FeedInv, PollOK
<1>3. UNCHANGED <<objects, syncSeq, changes, feed, published>>
  BY DEF List, storeVars
<1>4. PICK gone : gone = {o.href : o \in {x \in objects : x.cal = r.cal}} \ HrefsOf(r.doc)
  OBVIOUS
<1>5. PICK q : q = [r EXCEPT !.pc = "prune", !.todo = gone]
  OBVIOUS
<1>6. /\ q.pc = "prune" /\ q.cal = r.cal /\ q.rest = r.rest /\ q.doc = r.doc
      /\ q.todo = gone /\ q.skipped = r.skipped /\ q.seqAt = r.seqAt
  BY <1>5
<1>7. gone \subseteq Hrefs \ HrefsOf(r.doc)
  BY <1>4 DEF FeedInv, StoreInv, StoreTypeOK, Object
<1>8. \A o \in objects : o.cal = r.cal => o.href \in HrefsOf(r.doc) \cup gone
  BY <1>4
<1>9. PollOK(q)'
  <2>1. r.seqAt = syncSeq[r.cal] => Placed(q, q.doc)'
    BY <1>2, <1>3, <1>6 DEF Placed, ObjectsAt
  <2> QED
    BY <1>2, <1>3, <1>6, <1>7, <1>8, <2>1 DEF PollOK
<1>10. poll' = [poll EXCEPT ![p] = q]
  BY <1>1, <1>4, <1>5 DEF List
<1> QED
  BY <1>3, <1>9, <1>10, PollMovesQuietly

(* A deletion: of an href a version of the feed did not name.              *)
LEMMA PruneStep ==
    ASSUME FeedInv, NEW p \in Pollers, NEW h \in Hrefs, Prune(p, h)
    PROVE  Kept
<1>1. PICK r : r = poll[p]
  OBVIOUS
<1>2. /\ r.pc = "prune" /\ h \in r.todo /\ r.cal \in Calendars
      /\ r.doc \in published[r.cal] \ {{}} /\ r.seqAt \in Nat /\ r.seqAt <= syncSeq[r.cal]
      /\ r.todo \subseteq Hrefs \ HrefsOf(r.doc)
      /\ r.seqAt = syncSeq[r.cal] =>
           /\ Placed(r, r.doc)
           /\ \A o \in objects : o.cal = r.cal => o.href \in HrefsOf(r.doc) \cup r.todo
      /\ \A q \in r.rest : q.cal \in Calendars
  BY <1>1 DEF Prune, FeedInv, PollOK
<1>3. UNCHANGED <<feed, published>> /\ syncSeq \in [Calendars -> Nat]
  BY DEF Prune, FeedInv, StoreInv, StoreTypeOK
<1>4. CASE /\ DeleteObject(r.cal, h)
           /\ poll' = [poll EXCEPT ![p] = [r EXCEPT !.todo = r.todo \ {h}, !.seqAt = Advanced(r)]]
  <2>1. PICK n : n = Advanced(r)
    OBVIOUS
  <2>2. PICK q : q = [r EXCEPT !.todo = r.todo \ {h}, !.seqAt = n]
    OBVIOUS
  <2>3. /\ Wrote(r.cal) /\ StoreNext
        /\ \A o : o \in objects' <=> o \in objects /\ ~(o.cal = r.cal /\ o.href = h)
    BY <1>2, <1>4, DeleteWrote
  <2>4. Standing
    BY <1>2, <2>3 DEF Standing
  <2>5. syncSeq'[r.cal] = syncSeq[r.cal] + 1
    BY <1>2, <1>3, <2>3 DEF Wrote
  <2>6. /\ n \in Nat /\ n <= syncSeq'[r.cal]
        /\ n = syncSeq'[r.cal] => r.seqAt = syncSeq[r.cal]
    BY <1>2, <1>3, <2>1, <2>5 DEF Advanced
  <2>7. /\ q.pc = "prune" /\ q.cal = r.cal /\ q.rest = r.rest /\ q.doc = r.doc
        /\ q.todo = r.todo \ {h} /\ q.skipped = r.skipped /\ q.seqAt = n
    BY <1>2, <2>2
  <2>8. ASSUME r.seqAt = syncSeq[r.cal]
        PROVE  /\ Placed(q, q.doc)'
               /\ \A o \in objects' : o.cal = r.cal => o.href \in HrefsOf(r.doc) \cup (r.todo \ {h})
    <3>1. ASSUME NEW d \in r.doc \ r.skipped
          PROVE  \E o \in ObjectsAt(r.cal, Href(d))' : o.blob \in r.doc
      <4>1. PICK o \in ObjectsAt(r.cal, Href(d)) : o.blob \in r.doc
        BY <1>2, <2>8, <3>1 DEF Placed
      <4>2. Href(d) # h
        BY <1>2 DEF HrefsOf
      <4>3. o \in objects'
        BY <2>3, <4>1, <4>2 DEF ObjectsAt
      <4> QED
        BY <4>1, <4>3 DEF ObjectsAt
    <3>2. Placed(q, q.doc)'
      BY <2>7, <3>1 DEF Placed
    <3> QED
      BY <1>2, <2>3, <2>8, <3>2
  <2>9. PollOK(q)'
    BY <1>2, <1>3, <2>6, <2>7, <2>8 DEF PollOK
  <2>10. poll' = [poll EXCEPT ![p] = q]
    BY <1>4, <2>1, <2>2
  <2> QED
    BY <1>2, <1>3, <2>3, <2>4, <2>9, <2>10, PollMoves
<1>5. CASE /\ ObjectsAt(r.cal, h) = {}
           /\ poll' = [poll EXCEPT ![p] = [r EXCEPT !.todo = r.todo \ {h}]]
           /\ UNCHANGED storeVars
  <2>1. PICK q : q = [r EXCEPT !.todo = r.todo \ {h}]
    OBVIOUS
  <2>2. /\ q.pc = "prune" /\ q.cal = r.cal /\ q.rest = r.rest /\ q.doc = r.doc
        /\ q.todo = r.todo \ {h} /\ q.skipped = r.skipped /\ q.seqAt = r.seqAt
    BY <1>2, <2>1
  <2>3. UNCHANGED <<objects, syncSeq, changes, feed, published>>
    BY <1>3, <1>5 DEF storeVars
  <2>4. \A o \in objects : ~(o.cal = r.cal /\ o.href = h)
    BY <1>5 DEF ObjectsAt
  <2>5. r.seqAt = syncSeq[r.cal] => Placed(q, q.doc)'
    BY <1>2, <2>2, <2>3 DEF Placed, ObjectsAt
  <2>6. PollOK(q)'
    BY <1>2, <2>2, <2>3, <2>4, <2>5 DEF PollOK
  <2>7. poll' = [poll EXCEPT ![p] = q]
    BY <1>5, <2>1
  <2> QED
    BY <2>3, <2>6, <2>7, PollMovesQuietly
<1> QED
  BY <1>1, <1>4, <1>5 DEF Prune

----------------------------------------------------------------------------
(* A step that moves no poll, except to stop them all.                     *)
LEMMA OthersMove ==
    ASSUME FeedInv, [StoreNext]_storeVars,
           UNCHANGED <<objects, syncSeq>> \/ \E c \in Calendars : Wrote(c),
           feed' = [c \in Calendars |-> feed'[c]],
           published' \in [Calendars -> SUBSET Documents],
           \A c \in Calendars : published[c] \subseteq published'[c],
           \A c \in Calendars : feed'[c].doc \in published'[c],
           \/ poll' = poll
           \/ poll' = [p \in Pollers |-> Idle] /\ UNCHANGED objects
    PROVE  Kept
<1>1. StoreInv'
  BY StoreStep DEF FeedInv
<1>2. ASSUME NEW p \in Pollers PROVE PollOK(poll[p])'
  <2>1. CASE poll' = poll
    <3>1. PICK x : x = poll[p]
      OBVIOUS
    <3>2. PollOK(x)
      BY <3>1 DEF FeedInv
    <3>3. PollOK(x)'
      BY <3>2, OthersKept DEF FeedInv
    <3> QED
      BY <2>1, <3>1, <3>3 DEF PollOK, Placed
  <2>2. CASE poll' = [q \in Pollers |-> Idle]
    BY <2>2 DEF PollOK, Idle
  <2> QED
    BY <2>1, <2>2
<1>3. poll' = [q \in Pollers |-> poll'[q]]
  BY DEF FeedInv
<1>4. FeedInv'
  BY <1>1, <1>2, <1>3 DEF FeedInv
<1>5. poll' # poll => Standing
  BY DEF Standing
<1> QED
  BY <1>4, <1>5 DEF Kept

(* The steps of the surroundings.                                          *)
LEMMA AroundStep ==
    ASSUME FeedInv,
           \/ Tick \/ Crash \/ UNCHANGED vars
           \/ \E c \in Calendars : \/ \E doc \in Documents : Publish(c, doc)
                                   \/ \E h \in Hrefs : Edit(c, h)
    PROVE  Kept
<1>1. CASE Tick \/ Crash \/ UNCHANGED vars
  <2>1. UNCHANGED <<objects, syncSeq, changes, feed, published>>
    BY <1>1 DEF Tick, Crash, vars, storeVars
  <2>2. poll' = poll \/ poll' = [p \in Pollers |-> Idle]
    BY <1>1 DEF Tick, Crash, vars
  <2>3. UNCHANGED storeVars
    BY <2>1 DEF storeVars
  <2> QED
    BY <2>1, <2>2, <2>3, OthersMove DEF FeedInv
<1>2. ASSUME NEW c \in Calendars, NEW doc \in Documents, Publish(c, doc) PROVE Kept
  <2>1. UNCHANGED <<objects, syncSeq>> /\ UNCHANGED storeVars /\ poll' = poll
    BY <1>2 DEF Publish, storeVars
  <2>2. PICK f : f = [version |-> feed[c].version + 1, doc |-> doc]
    OBVIOUS
  <2>3. /\ feed' = [feed EXCEPT ![c] = f] /\ f.doc = doc
        /\ published' = [published EXCEPT ![c] = published[c] \cup {doc}]
    BY <1>2, <2>2 DEF Publish
  <2>4. /\ feed' = [d \in Calendars |-> feed'[d]]
        /\ published' \in [Calendars -> SUBSET Documents]
        /\ \A d \in Calendars : published[d] \subseteq published'[d]
        /\ \A d \in Calendars : feed'[d].doc \in published'[d]
    BY <2>3 DEF FeedInv
  <2> QED
    BY <2>1, <2>4, OthersMove
<1>3. ASSUME NEW c \in Calendars, NEW h \in Hrefs, Edit(c, h) PROVE Kept
  <2>1. UNCHANGED <<feed, published, poll>>
    BY <1>3 DEF Edit
  <2>2. Wrote(c) /\ StoreNext
    <3>1. CASE DeleteObject(c, h)
      BY <3>1, DeleteWrote
    <3>2. ASSUME NEW b \in Storable, PutObject(c, h, b) PROVE Wrote(c) /\ StoreNext
      <4>1. b \in Blob
        BY FeedAssumption
      <4> QED
        BY <3>2, <4>1, PutWrote DEF FeedInv
    <3> QED
      BY <1>3, <3>1, <3>2 DEF Edit
  <2> QED
    BY <2>1, <2>2, OthersMove DEF FeedInv
<1> QED
  BY <1>1, <1>2, <1>3

(* So every step keeps the invariant.                                      *)
LEMMA FeedStep == FeedInv /\ [Next]_vars => Kept
BY BeginStep, FetchStep, UpsertStep, ListStep, PruneStep, AroundStep DEF Next, Proceed

LEMMA FeedStart == Init => FeedInv /\ StoreInit
<1> SUFFICES ASSUME Init PROVE FeedInv /\ StoreInit
  OBVIOUS
<1>1. StoreInit /\ StoreInv
  BY StoreStart DEF Init
<1>2. /\ feed \in [Calendars -> [version : {1}, doc : Documents]]
      /\ published = [c \in Calendars |-> {feed[c].doc}]
      /\ poll = [p \in Pollers |-> Idle]
  BY DEF Init
<1>3. /\ feed = [c \in Calendars |-> feed[c]]
      /\ published \in [Calendars -> SUBSET Documents]
      /\ \A c \in Calendars : feed[c].doc \in published[c]
  BY <1>2
<1>4. poll = [p \in Pollers |-> poll[p]] /\ \A p \in Pollers : PollOK(poll[p])
  BY <1>2 DEF PollOK, Idle
<1> QED
  BY <1>1, <1>3, <1>4 DEF FeedInv

(* The invariant of the polls of poller.go holds throughout.               *)
THEOREM FeedInvariant == Spec => []FeedInv
<1>1. Init => FeedInv
  BY FeedStart
<1>2. FeedInv /\ [Next]_vars => FeedInv'
  BY FeedStep DEF Kept
<1> QED
  BY <1>1, <1>2, PTL DEF Spec

(* No poll of poller.go deletes an event that every version of the feed    *)
(* with events in it has named, whatever fails and whatever it meets.      *)
THEOREM StandingEventsAreKept == Spec => StandingEventsStay
<1>1. FeedInv /\ [Next]_vars =>
        [poll' # poll =>
           \A o \in objects :
             \/ \E p \in objects' : p.cal = o.cal /\ p.href = o.href
             \/ \E doc \in published[o.cal] \ {{}} : o.href \notin HrefsOf(doc)]_vars
  BY FeedStep DEF Kept, Standing
<1> QED
  BY <1>1, FeedInvariant, PTL DEF Spec, StandingEventsStay

(* A poll of poller.go that nobody mixed with has made the calendar show   *)
(* the version of the feed it fetched.                                     *)
THEOREM UndisturbedPollsShow == Spec => []UndisturbedPollShowsFeed
<1>1. FeedInv => UndisturbedPollShowsFeed
  <2> SUFFICES ASSUME FeedInv, NEW p \in Pollers, Synced(p), poll[p].seqAt = syncSeq[poll[p].cal]
               PROVE  Shows(poll[p].cal, poll[p].doc, poll[p].skipped)
    BY DEF UndisturbedPollShowsFeed
  <2>1. PollOK(poll[p]) /\ poll[p].pc = "prune" /\ poll[p].todo = {}
    BY DEF FeedInv, Synced
  <2>2. /\ Placed(poll[p], poll[p].doc)
        /\ \A o \in objects : o.cal = poll[p].cal => o.href \in HrefsOf(poll[p].doc)
    BY <2>1 DEF PollOK
  <2> QED
    BY <2>2 DEF Shows, Placed
<1> QED
  BY <1>1, FeedInvariant, PTL

----------------------------------------------------------------------------
(* The rest is about validators.  A tag is known of calendar c if it is in *)
(* the calendar's row, in a copy of the row that a poll works from, or on  *)
(* its way into the row without a sync.                                    *)
Clean(c) == c \notin overlapped \cup edited

Syncing(r, c) == r.pc \in {"sync", "prune"} /\ r.cal = c

Acting(r, c) == r.pc \in {"sync", "prune", "record"} /\ r.cal = c

Holds(r, c, t) ==
    /\ r.pc \in {"fetch", "sync", "prune", "record"}
    /\ \/ \E q \in r.rest : q.cal = c /\ q.row.tag = t
       \/ r.pc = "fetch" /\ r.cal = c /\ r.row.tag = t
       \/ r.pc = "record" /\ r.cal = c /\ r.tag = t

Known(c, t) == state[c].tag = t \/ \E p \in Pollers : Holds(poll[p], c, t)

VersionsOK ==
    /\ state = [c \in Calendars |-> state[c]]
    /\ \A c \in Calendars : feed[c].version \in Nat \ {0}
    /\ \A c \in Calendars : \A t : Known(c, t) => t \in Nat /\ t <= feed[c].version

(* A sync whose tag is that of the feed has the feed's events.             *)
SyncTagsOK ==
    \A c \in Calendars, p \in Pollers : Syncing(poll[p], c) =>
        /\ poll[p].tag \in Nat /\ poll[p].tag <= feed[c].version
        /\ poll[p].tag = feed[c].version => poll[p].doc = feed[c].doc

(* Once the tag of the current version is known, the calendar shows that    *)
(* version, and whoever still writes to the calendar writes that version.   *)
KnownIsShown ==
    \A c \in Calendars : Clean(c) /\ Known(c, feed[c].version) =>
        /\ feed[c].doc # {} => Shows(c, feed[c].doc, feed[c].doc \ Storable)
        /\ \A p \in Pollers : Syncing(poll[p], c) => poll[p].doc = feed[c].doc

(* A clean calendar has one poll acting on it at a time, and what that poll *)
(* skips it could not have stored.                                          *)
OneActs ==
    \A c \in Calendars : Clean(c) =>
        /\ \A p, q \in Pollers : Acting(poll[p], c) /\ Acting(poll[q], c) => p = q
        /\ \A p \in Pollers : Syncing(poll[p], c) =>
             poll[p].seqAt = syncSeq[c] /\ poll[p].skipped \cap Storable = {}

(* In a calendar no client has written to, events are where polls put them. *)
NamesOK ==
    \A o \in objects : o.cal \notin edited => o.href = Href(o.blob) /\ o.blob.comp = "VEVENT"

TagInv == VersionsOK /\ SyncTagsOK /\ KnownIsShown /\ OneActs /\ NamesOK

(* A step that stores nothing, makes no tag known and begins no sync.      *)
LEMMA TagsKept ==
    ASSUME FeedInv, TagInv, UNCHANGED <<objects, syncSeq, feed>>,
           overlapped \subseteq overlapped', edited \subseteq edited',
           state' = [c \in Calendars |-> state'[c]],
           \A c \in Calendars : \A t : Known(c, t)' => Known(c, t),
           \A p \in Pollers, c \in Calendars : Acting(poll'[p], c) => Acting(poll[p], c),
           \A p \in Pollers, c \in Calendars : Syncing(poll'[p], c) =>
               /\ Syncing(poll[p], c)
               /\ poll'[p].doc = poll[p].doc /\ poll'[p].tag = poll[p].tag
               /\ poll'[p].seqAt = poll[p].seqAt
               /\ Clean(c) => poll'[p].skipped \cap Storable = poll[p].skipped \cap Storable
    PROVE  TagInv'
<1>1. VersionsOK'
  BY DEF TagInv, VersionsOK
<1>2. SyncTagsOK'
  BY DEF TagInv, SyncTagsOK, Syncing
<1>3. \A c \in Calendars : Clean(c)' => Clean(c)
  BY DEF Clean
<1>4. KnownIsShown'
  <2>1. \A c, doc, skipped : Shows(c, doc, skipped)' <=> Shows(c, doc, skipped)
    BY DEF Shows, ObjectsAt
  <2> SUFFICES ASSUME NEW c \in Calendars, Clean(c)', Known(c, feed[c].version)'
               PROVE  /\ feed[c].doc # {} => Shows(c, feed[c].doc, feed[c].doc \ Storable)
                      /\ \A p \in Pollers : Syncing(poll'[p], c) => poll'[p].doc = feed[c].doc
    BY <2>1 DEF KnownIsShown, Syncing
  <2>2. Clean(c) /\ Known(c, feed[c].version)
    BY <1>3 DEF Known
  <2> QED
    BY <2>2 DEF TagInv, KnownIsShown
<1>5. OneActs'
  BY <1>3 DEF TagInv, OneActs, Acting, Syncing
<1>6. NamesOK'
  BY DEF TagInv, NamesOK
<1> QED
  BY <1>1, <1>2, <1>4, <1>5, <1>6 DEF TagInv

(* The same for a step that moves one poll.                                *)
LEMMA TagsKeptMoving ==
    ASSUME FeedInv, TagInv, UNCHANGED <<objects, syncSeq, feed, overlapped, edited>>,
           state' = [c \in Calendars |-> state'[c]],
           \A c \in Calendars : Known(c, state'[c].tag),
           NEW p \in Pollers, NEW r, poll' = [poll EXCEPT ![p] = r],
           \A c \in Calendars : \A t : Holds(r, c, t) => Known(c, t),
           \A c \in Calendars : Acting(r, c) => Acting(poll[p], c),
           \A c \in Calendars : Syncing(r, c) =>
               /\ Syncing(poll[p], c)
               /\ r.doc = poll[p].doc /\ r.tag = poll[p].tag
               /\ r.seqAt = poll[p].seqAt
               /\ Clean(c) => r.skipped \cap Storable = poll[p].skipped \cap Storable
    PROVE  TagInv'
<1>1. \A q \in Pollers : poll'[q] = IF q = p THEN r ELSE poll[q]
  BY DEF FeedInv
<1>2. ASSUME NEW c \in Calendars, NEW t, Known(c, t)' PROVE Known(c, t)
  <2>1. CASE state'[c].tag = t
    BY <2>1
  <2>2. ASSUME NEW q \in Pollers, Holds(poll'[q], c, t) PROVE Known(c, t)
    BY <1>1, <2>2 DEF Known
  <2> QED
    BY <1>2, <2>1, <2>2 DEF Known, Holds
<1> QED
  BY <1>1, <1>2, TagsKept

(* A poll that turns to the next calendar holds what it held.              *)
LEMMA NextOfHolds ==
    ASSUME NEW rest, \A q \in rest : q.cal \in Calendars
    PROVE  /\ \A c, t : Holds(NextOf(rest), c, t) => \E q \in rest : q.cal = c /\ q.row.tag = t
           /\ NextOf(rest).pc \in {"idle", "fetch"}
<1>1. CASE rest = {}
  BY <1>1 DEF NextOf, Idle, Holds
<1>2. CASE rest # {}
  <2>1. PICK r \in rest :
          NextOf(rest) = [pc |-> "fetch", cal |-> r.cal, row |-> r.row, rest |-> rest \ {r}]
    BY <1>2, NextOfIs
  <2> QED
    BY <2>1 DEF Holds
<1> QED
  BY <1>1, <1>2

(* The steps that only move polls on, or stop them, and the clock.         *)
LEMMA TagQuietStep ==
    ASSUME FeedInv, TagInv,
           \/ BeginSweep \/ Tick \/ Crash \/ UNCHANGED vars
           \/ \E p \in Pollers : \/ Disconnect(p) \/ List(p)
                                 \/ Record(p) /\ poll[p].pc = "record"
                                 \/ \E c \in Calendars : BeginPoll(p, c)
    PROVE  TagInv'
<1>0. \A c \in Calendars : Known(c, state[c].tag)
  BY DEF Known
<1>1. CASE BeginSweep
  <2>1. PICK rest : rest = {[cal |-> c, row |-> state[c]] : c \in {d \in Calendars : Due(d)}}
    OBVIOUS
  <2>2. /\ poll' = [poll EXCEPT ![Sweeper] = NextOf(rest)] /\ Sweeper \in Pollers
        /\ UNCHANGED <<objects, syncSeq, feed, overlapped, edited, state>>
    BY <1>1, <2>1, FeedAssumption DEF BeginSweep, storeVars
  <2>3. \A q \in rest : q.cal \in Calendars /\ q.row.tag = state[q.cal].tag
    BY <2>1
  <2>4. \A c \in Calendars : \A t : Holds(NextOf(rest), c, t) => Known(c, t)
    BY <2>3, NextOfHolds DEF Known
  <2>5. \A c : ~Acting(NextOf(rest), c) /\ ~Syncing(NextOf(rest), c)
    BY <2>3, NextOfHolds DEF Acting, Syncing
  <2> QED
    BY <1>0, <2>2, <2>4, <2>5, TagsKeptMoving DEF TagInv, VersionsOK
<1>2. ASSUME NEW p \in Pollers, NEW d \in Calendars, BeginPoll(p, d) PROVE TagInv'
  <2>1. PICK rest : rest = {[cal |-> d, row |-> state[d]]}
    OBVIOUS
  <2>2. /\ poll' = [poll EXCEPT ![p] = NextOf(rest)]
        /\ UNCHANGED <<objects, syncSeq, feed, overlapped, edited, state>>
    BY <1>2, <2>1 DEF BeginPoll, storeVars
  <2>3. \A q \in rest : q.cal \in Calendars /\ q.row.tag = state[q.cal].tag
    BY <2>1
  <2>4. \A c \in Calendars : \A t : Holds(NextOf(rest), c, t) => Known(c, t)
    BY <2>3, NextOfHolds DEF Known
  <2>5. \A c : ~Acting(NextOf(rest), c) /\ ~Syncing(NextOf(rest), c)
    BY <2>3, NextOfHolds DEF Acting, Syncing
  <2> QED
    BY <1>0, <2>2, <2>4, <2>5, TagsKeptMoving DEF TagInv, VersionsOK
<1>3. ASSUME NEW p \in Pollers, Record(p), poll[p].pc = "record" PROVE TagInv'
  <2>1. PICK r : r = poll[p]
    OBVIOUS
  <2>2. r.pc = "record" /\ r.cal \in Calendars /\ \A q \in r.rest : q.cal \in Calendars
    BY <1>3, <2>1 DEF FeedInv, PollOK
  <2>3. PICK row : row = [tag |-> r.tag, fails |-> r.fails, wait |-> Interval(r.cal, r.fails)]
    OBVIOUS
  <2>4. /\ poll' = [poll EXCEPT ![p] = NextOf(r.rest)] /\ row.tag = r.tag
        /\ state' = [state EXCEPT ![r.cal] = row]
        /\ UNCHANGED <<objects, syncSeq, feed, overlapped, edited>>
    BY <1>3, <2>1, <2>3 DEF Record, storeVars
  <2>5. state' = [c \in Calendars |-> state'[c]]
    BY <2>4 DEF TagInv, VersionsOK
  <2>6. \A c \in Calendars : state'[c].tag = IF c = r.cal THEN r.tag ELSE state[c].tag
    BY <2>4 DEF TagInv, VersionsOK
  <2>7. Holds(poll[p], r.cal, r.tag) /\ \A q \in r.rest : Holds(poll[p], q.cal, q.row.tag)
    BY <2>1, <2>2 DEF Holds
  <2>8. \A c \in Calendars : Known(c, state'[c].tag)
    BY <2>6, <2>7 DEF Known
  <2>9. \A c \in Calendars : \A t : Holds(NextOf(r.rest), c, t) => Known(c, t)
    BY <2>2, <2>7, NextOfHolds DEF Known
  <2>10. \A c : ~Acting(NextOf(r.rest), c) /\ ~Syncing(NextOf(r.rest), c)
    BY <2>2, NextOfHolds DEF Acting, Syncing
  <2> QED
    BY <2>4, <2>5, <2>8, <2>9, <2>10, TagsKeptMoving
<1>4. ASSUME NEW p \in Pollers, Disconnect(p) PROVE TagInv'
  <2>1. /\ poll' = [poll EXCEPT ![p] = Idle]
        /\ UNCHANGED <<objects, syncSeq, feed, overlapped, edited, state>>
    BY <1>4 DEF Disconnect, storeVars
  <2>2. \A c : ~Acting(Idle, c) /\ ~Syncing(Idle, c) /\ \A t : ~Holds(Idle, c, t)
    BY DEF Acting, Syncing, Holds, Idle
  <2> QED
    BY <1>0, <2>1, <2>2, TagsKeptMoving DEF TagInv, VersionsOK
<1>5. ASSUME NEW p \in Pollers, List(p) PROVE TagInv'
  <2>1. PICK r : r = poll[p]
    OBVIOUS
  <2>2. PICK gone : gone = {o.href : o \in {x \in objects : x.cal = r.cal}} \ HrefsOf(r.doc)
    OBVIOUS
  <2>3. PICK q : q = [r EXCEPT !.pc = "prune", !.todo = gone]
    OBVIOUS
  <2>4. /\ q.pc = "prune" /\ q.cal = r.cal /\ q.rest = r.rest /\ q.doc = r.doc /\ q.tag = r.tag
        /\ q.skipped = r.skipped /\ q.seqAt = r.seqAt
    BY <2>3
  <2>5. /\ poll' = [poll EXCEPT ![p] = q] /\ r.pc = "sync"
        /\ UNCHANGED <<objects, syncSeq, feed, overlapped, edited, state>>
    BY <1>5, <2>1, <2>2, <2>3 DEF List, storeVars
  <2>6. \A c \in Calendars : \A t : Holds(q, c, t) => Known(c, t)
    BY <2>1, <2>4, <2>5 DEF Holds, Known
  <2>7. \A c \in Calendars : /\ Acting(q, c) => Acting(poll[p], c)
                             /\ Syncing(q, c) => Syncing(poll[p], c)
    BY <2>1, <2>4, <2>5 DEF Acting, Syncing
  <2>8. state' = [c \in Calendars |-> state'[c]] /\ \A c \in Calendars : Known(c, state'[c].tag)
    BY <1>0, <2>5 DEF TagInv, VersionsOK
  <2> QED
    BY <2>1, <2>4, <2>5, <2>6, <2>7, <2>8, TagsKeptMoving
<1>6. CASE Tick \/ Crash \/ UNCHANGED vars
  <2>1. UNCHANGED <<objects, syncSeq, feed, overlapped, edited>>
    BY <1>6 DEF Tick, Crash, vars, storeVars
  <2>2. /\ state' = [c \in Calendars |-> state'[c]]
        /\ \A c \in Calendars : state'[c].tag = state[c].tag
    <3>1. CASE Tick
      <4>1. state' = [c \in Calendars |-> [state[c] EXCEPT !.wait = IF @ > 0 THEN @ - 1 ELSE 0]]
        BY <3>1 DEF Tick
      <4>2. ASSUME NEW c \in Calendars PROVE state'[c].tag = state[c].tag
        <5>1. PICK w : state'[c] = [state[c] EXCEPT !.wait = w]
          BY <4>1
        <5> QED
          BY <5>1
      <4> QED
        BY <4>1, <4>2
    <3>2. CASE UNCHANGED state
      BY <3>2 DEF TagInv, VersionsOK
    <3> QED
      BY <1>6, <3>1, <3>2 DEF Crash, vars
  <2>3. \A p \in Pollers : poll'[p] = poll[p] \/ poll'[p] = Idle
    BY <1>6 DEF Tick, Crash, vars
  <2>4. \A c : ~Acting(Idle, c) /\ ~Syncing(Idle, c) /\ \A t : ~Holds(Idle, c, t)
    BY DEF Acting, Syncing, Holds, Idle
  <2>5. ASSUME NEW c \in Calendars, NEW t, Known(c, t)' PROVE Known(c, t)
    <3>1. state'[c].tag = t \/ \E p \in Pollers : Holds(poll'[p], c, t)
      BY <2>5 DEF Known, Holds
    <3> QED
      BY <2>2, <2>3, <2>4, <3>1 DEF Known
  <2> QED
    BY <2>1, <2>2, <2>3, <2>4, <2>5, TagsKept
<1> QED
  BY <1>1, <1>2, <1>3, <1>4, <1>5, <1>6

(* What KnownIsShown asks of a step that neither stores nor publishes.     *)
LEMMA ShownFrom ==
    ASSUME UNCHANGED <<objects, feed>>,
           ASSUME NEW c \in Calendars, Clean(c)', NEW t, t = feed[c].version, Known(c, t)'
           PROVE  /\ feed[c].doc # {} => Shows(c, feed[c].doc, feed[c].doc \ Storable)
                  /\ \A q \in Pollers : Syncing(poll'[q], c) => poll'[q].doc = feed[c].doc
    PROVE  KnownIsShown'
<1> SUFFICES ASSUME NEW c \in Calendars, Clean(c)', Known(c, feed[c].version)'
             PROVE  (/\ feed[c].doc # {} => Shows(c, feed[c].doc, feed[c].doc \ Storable)
                     /\ \A q \in Pollers : Syncing(poll[q], c) => poll[q].doc = feed[c].doc)'
  BY DEF KnownIsShown
<1>1. PICK t : t = feed[c].version
  OBVIOUS
<1>2. Known(c, t)'
  BY <1>1 DEF Known, Holds
<1>3. /\ feed[c].doc # {} => Shows(c, feed[c].doc, feed[c].doc \ Storable)
      /\ \A q \in Pollers : Syncing(poll'[q], c) => poll'[q].doc = feed[c].doc
  BY <1>1, <1>2
<1> QED
  BY <1>3 DEF Shows, ObjectsAt, Syncing

(* A poll whose response comes: a calendar stays clean only if no other    *)
(* poll acts on it.                                                        *)
LEMMA TagResponse ==
    ASSUME FeedInv, TagInv, UNCHANGED <<objects, syncSeq, feed, state, edited>>,
           NEW p \in Pollers, NEW d \in Calendars, poll[p].pc = "fetch", poll[p].cal = d,
           overlapped' = overlapped \cup {c \in {d} : \E q \in Pollers \ {p} : Working(q, c)},
           NEW x, poll' = [poll EXCEPT ![p] = x],
           x.pc \in {"record", "sync"}, x.cal = d, x.rest = poll[p].rest,
           x.tag \in Nat, x.tag <= feed[d].version,
           x.pc = "record" => Known(d, x.tag) \/ x.tag # feed[d].version \/ feed[d].doc = {},
           x.pc = "sync" => x.doc = feed[d].doc /\ x.seqAt = syncSeq[d] /\ x.skipped = {}
    PROVE  TagInv'
<1>1. \A q \in Pollers : poll'[q] = IF q = p THEN x ELSE poll[q]
  BY DEF FeedInv
<1>2. \A c \in Calendars : Clean(c)' => Clean(c)
  BY DEF Clean
<1>3. ASSUME Clean(d)', NEW q \in Pollers, q # p PROVE ~Acting(poll[q], d)
  BY <1>3 DEF Clean, Working, Acting
<1>4. ASSUME NEW c \in Calendars, NEW t, Known(c, t)'
      PROVE  Known(c, t) \/ (c = d /\ x.pc = "record" /\ t = x.tag)
  <2>1. CASE state'[c].tag = t
    BY <2>1 DEF Known
  <2>2. ASSUME NEW q \in Pollers, Holds(poll'[q], c, t)
        PROVE  Known(c, t) \/ (c = d /\ x.pc = "record" /\ t = x.tag)
    <3>1. CASE q # p
      BY <1>1, <2>2, <3>1 DEF Known
    <3>2. CASE q = p
      <4>1. Holds(x, c, t)
        BY <1>1, <2>2, <3>2
      <4>2. (\E y \in poll[p].rest : y.cal = c /\ y.row.tag = t) \/ (c = d /\ x.pc = "record" /\ t = x.tag)
        BY <4>1 DEF Holds
      <4> QED
        BY <4>2 DEF Known, Holds
    <3> QED
      BY <3>1, <3>2
  <2> QED
    BY <1>4, <2>1, <2>2 DEF Known, Holds
<1>5. VersionsOK'
  BY <1>4 DEF TagInv, VersionsOK
<1>6. SyncTagsOK'
  BY <1>1 DEF TagInv, SyncTagsOK, Syncing
<1>7. KnownIsShown'
  <2> SUFFICES ASSUME NEW c \in Calendars, Clean(c)', NEW t, t = feed[c].version, Known(c, t)'
               PROVE  /\ feed[c].doc # {} => Shows(c, feed[c].doc, feed[c].doc \ Storable)
                      /\ \A q \in Pollers : Syncing(poll'[q], c) => poll'[q].doc = feed[c].doc
    BY ShownFrom
  <2>3. Known(c, feed[c].version) \/ (c = d /\ x.pc = "record" /\ feed[c].version = x.tag)
    BY <1>4
  <2>4. feed[c].doc # {} => Known(c, feed[c].version)
    BY <2>3
  <2>5. feed[c].doc # {} => Shows(c, feed[c].doc, feed[c].doc \ Storable)
    BY <1>2, <2>4 DEF TagInv, KnownIsShown
  <2>6. ASSUME NEW q \in Pollers, Syncing(poll'[q], c) PROVE poll'[q].doc = feed[c].doc
    <3>1. CASE q = p
      BY <1>1, <2>6, <3>1 DEF Syncing
    <3>2. CASE q # p
      <4>1. Syncing(poll[q], c) /\ poll'[q] = poll[q]
        BY <1>1, <2>6, <3>2
      <4>2. c # d
        BY <1>3, <3>2, <4>1 DEF Acting, Syncing
      <4> QED
        BY <1>2, <2>3, <4>1, <4>2 DEF TagInv, KnownIsShown
    <3> QED
      BY <3>1, <3>2
  <2> QED
    BY <2>5, <2>6
<1>8. OneActs'
  <2> SUFFICES ASSUME NEW c \in Calendars, Clean(c)'
               PROVE  /\ \A a, q \in Pollers : Acting(poll'[a], c) /\ Acting(poll'[q], c) => a = q
                      /\ \A q \in Pollers : Syncing(poll'[q], c) =>
                           poll'[q].seqAt = syncSeq[c] /\ poll'[q].skipped \cap Storable = {}
    BY DEF OneActs, Acting, Syncing
  <2>1. \A q \in Pollers \ {p} : poll'[q] = poll[q] /\ (c = d => ~Acting(poll[q], c))
    BY <1>1, <1>3
  <2>2. c # d => ~Acting(poll'[p], c) /\ ~Syncing(poll'[p], c)
    BY <1>1 DEF Acting, Syncing
  <2>3. \A a, q \in Pollers : Acting(poll'[a], c) /\ Acting(poll'[q], c) => a = q
    BY <1>2, <2>1, <2>2 DEF TagInv, OneActs
  <2>4. ASSUME NEW q \in Pollers, Syncing(poll'[q], c)
        PROVE  poll'[q].seqAt = syncSeq[c] /\ poll'[q].skipped \cap Storable = {}
    <3>1. CASE q = p
      BY <1>1, <2>4, <3>1 DEF Syncing
    <3>2. CASE q # p
      BY <1>2, <2>1, <2>4, <3>2 DEF TagInv, OneActs
    <3> QED
      BY <3>1, <3>2
  <2> QED
    BY <2>3, <2>4
<1>9. NamesOK'
  BY DEF TagInv, NamesOK
<1> QED
  BY <1>5, <1>6, <1>7, <1>8, <1>9 DEF TagInv

LEMMA TagFetchStep ==
    ASSUME FeedInv, TagInv, NEW p \in Pollers, Fetch(p)
    PROVE  TagInv'
<1>1. PICK r : r = poll[p]
  OBVIOUS
<1>2. PICK d : d = r.cal
  OBVIOUS
<1>3. poll[p].pc = "fetch" /\ poll[p].cal = d /\ d \in Calendars
  BY <1>1, <1>2 DEF Fetch, FeedInv, PollOK
<1>4. /\ UNCHANGED <<objects, syncSeq, feed, state, edited>>
      /\ overlapped' = overlapped \cup {c \in {d} : \E q \in Pollers \ {p} : Working(q, c)}
  BY <1>1, <1>2 DEF Fetch, storeVars
<1>5. feed[d].version \in Nat \ {0} /\ NoTag \in Nat /\ NoTag < feed[d].version
  BY <1>3 DEF TagInv, VersionsOK, NoTag
<1>6. Known(d, r.row.tag) /\ r.row.tag \in Nat /\ r.row.tag <= feed[d].version
  <2>1. Known(d, r.row.tag)
    BY <1>1, <1>3 DEF Known, Holds
  <2> QED
    BY <1>3, <2>1 DEF TagInv, VersionsOK
<1>7. ASSUME NEW fails, poll' = [poll EXCEPT ![p] = ToRecord(r, r.row.tag, fails)] PROVE TagInv'
  <2>1. PICK x : x = ToRecord(r, r.row.tag, fails)
    OBVIOUS
  <2>2. x.pc = "record" /\ x.cal = d /\ x.rest = poll[p].rest /\ x.tag = r.row.tag
    BY <1>1, <1>2, <2>1 DEF ToRecord
  <2> QED
    BY <1>3, <1>4, <1>6, <1>7, <2>1, <2>2, TagResponse
<1>8. ASSUME NEW tag \in {feed[d].version, NoTag}, feed[d].doc = {},
             poll' = [poll EXCEPT ![p] = ToRecord(r, tag, 0)]
      PROVE  TagInv'
  <2>1. PICK x : x = ToRecord(r, tag, 0)
    OBVIOUS
  <2>2. x.pc = "record" /\ x.cal = d /\ x.rest = poll[p].rest /\ x.tag = tag
    BY <1>1, <1>2, <2>1 DEF ToRecord
  <2>3. x.tag \in Nat /\ x.tag <= feed[d].version
    BY <1>5, <2>2
  <2> QED
    BY <1>3, <1>4, <1>8, <2>1, <2>2, <2>3, TagResponse
<1>9. ASSUME NEW tag \in {feed[d].version, NoTag},
             poll' = [poll EXCEPT ![p] = ToSync(r, feed[d].doc, tag)]
      PROVE  TagInv'
  <2>1. PICK x : x = ToSync(r, feed[d].doc, tag)
    OBVIOUS
  <2>2. /\ x.pc = "sync" /\ x.cal = d /\ x.rest = poll[p].rest /\ x.tag = tag
        /\ x.doc = feed[d].doc /\ x.seqAt = syncSeq[d] /\ x.skipped = {}
    BY <1>1, <1>2, <2>1 DEF ToSync
  <2>3. x.tag \in Nat /\ x.tag <= feed[d].version
    BY <1>5, <2>2
  <2> QED
    BY <1>3, <1>4, <1>9, <2>1, <2>2, <2>3, TagResponse
<1> QED
  BY <1>1, <1>2, <1>7, <1>8, <1>9 DEF Fetch

(* A write to one calendar leaves what the others show as it is.           *)
LEMMA OthersShow ==
    ASSUME NEW d, Wrote(d), NEW c, c # d, NEW doc, NEW skipped
    PROVE  Shows(c, doc, skipped)' <=> Shows(c, doc, skipped)
<1>1. \A o : o.cal = c => (o \in objects' <=> o \in objects)
  BY DEF Wrote
<1>2. \A h : ObjectsAt(c, h)' = ObjectsAt(c, h)
  BY <1>1 DEF ObjectsAt
<1> QED
  BY <1>1, <1>2 DEF Shows

(* A write of a sync that keeps a calendar showing what it is to show.     *)
LEMMA TagStore ==
    ASSUME FeedInv, TagInv, UNCHANGED <<feed, state, overlapped, edited>>,
           NEW p \in Pollers, NEW d \in Calendars, Syncing(poll[p], d), Wrote(d), NamesOK',
           NEW x, poll' = [poll EXCEPT ![p] = x],
           x.pc = poll[p].pc, x.cal = d, x.rest = poll[p].rest, x.tag = poll[p].tag,
           x.doc = poll[p].doc, x.skipped = poll[p].skipped,
           poll[p].seqAt = syncSeq[d] => x.seqAt = syncSeq'[d],
           \A doc : doc = poll[p].doc /\ Shows(d, doc, doc \ Storable) => Shows(d, doc, doc \ Storable)'
    PROVE  TagInv'
<1>1. \A q \in Pollers : poll'[q] = IF q = p THEN x ELSE poll[q]
  BY DEF FeedInv
<1>2. \A c \in Calendars : Clean(c)' <=> Clean(c)
  BY DEF Clean
<1>3. \A q \in Pollers, c \in Calendars :
        /\ Acting(poll'[q], c) <=> Acting(poll[q], c)
        /\ Syncing(poll'[q], c) <=> Syncing(poll[q], c)
        /\ Syncing(poll[q], c) => poll'[q].doc = poll[q].doc /\ poll'[q].tag = poll[q].tag
  BY <1>1 DEF Acting, Syncing
<1>4. \A q \in Pollers, c \in Calendars : \A t : Holds(poll'[q], c, t) <=> Holds(poll[q], c, t)
  BY <1>1 DEF Holds, Syncing
<1>5. \A c \in Calendars : \A t : Known(c, t)' <=> Known(c, t)
  <2> SUFFICES ASSUME NEW c \in Calendars, NEW t PROVE Known(c, t)' <=> Known(c, t)
    OBVIOUS
  <2>1. Known(c, t)' <=> state[c].tag = t \/ \E q \in Pollers : Holds(poll'[q], c, t)
    BY DEF Known, Holds
  <2> QED
    BY <1>4, <2>1 DEF Known
<1>6. VersionsOK'
  BY <1>5 DEF TagInv, VersionsOK
<1>7. SyncTagsOK'
  <2> SUFFICES ASSUME NEW c \in Calendars, NEW q \in Pollers, Syncing(poll'[q], c)
               PROVE  /\ poll'[q].tag \in Nat /\ poll'[q].tag <= feed[c].version
                      /\ poll'[q].tag = feed[c].version => poll'[q].doc = feed[c].doc
    BY DEF SyncTagsOK, Syncing
  <2> QED
    BY <1>3 DEF TagInv, SyncTagsOK
<1>8. KnownIsShown'
  <2> SUFFICES ASSUME NEW c \in Calendars, Clean(c)', Known(c, feed[c].version)'
               PROVE  (/\ feed[c].doc # {} => Shows(c, feed[c].doc, feed[c].doc \ Storable)
                       /\ \A q \in Pollers : Syncing(poll[q], c) => poll[q].doc = feed[c].doc)'
    BY DEF KnownIsShown
  <2>1. PICK t : t = feed[c].version
    OBVIOUS
  <2>2. Known(c, t)'
    BY <2>1 DEF Known, Holds
  <2>3. /\ feed[c].doc # {} => Shows(c, feed[c].doc, feed[c].doc \ Storable)
        /\ \A q \in Pollers : Syncing(poll[q], c) => poll[q].doc = feed[c].doc
    BY <1>2, <1>5, <2>1, <2>2 DEF TagInv, KnownIsShown
  <2>4. PICK doc : doc = feed[c].doc
    OBVIOUS
  <2>5. doc # {} => Shows(c, doc, doc \ Storable)'
    <3>1. CASE c = d
      BY <2>3, <2>4, <3>1
    <3>2. CASE c # d
      BY <2>3, <2>4, <3>2, OthersShow
    <3> QED
      BY <3>1, <3>2
  <2>6. \A q \in Pollers : Syncing(poll'[q], c) => poll'[q].doc = doc
    BY <1>3, <2>3, <2>4
  <2> QED
    BY <2>4, <2>5, <2>6 DEF Shows, ObjectsAt, Syncing
<1>9. OneActs'
  <2> SUFFICES ASSUME NEW c \in Calendars, Clean(c)'
               PROVE  /\ \A a, q \in Pollers : Acting(poll'[a], c) /\ Acting(poll'[q], c) => a = q
                      /\ \A q \in Pollers : Syncing(poll'[q], c) =>
                           poll'[q].seqAt = syncSeq'[c] /\ poll'[q].skipped \cap Storable = {}
    BY DEF OneActs, Acting, Syncing
  <2>1. \A a, q \in Pollers : Acting(poll'[a], c) /\ Acting(poll'[q], c) => a = q
    BY <1>2, <1>3 DEF TagInv, OneActs
  <2>2. ASSUME NEW q \in Pollers, Syncing(poll'[q], c)
        PROVE  poll'[q].seqAt = syncSeq'[c] /\ poll'[q].skipped \cap Storable = {}
    <3>1. poll[q].seqAt = syncSeq[c] /\ poll[q].skipped \cap Storable = {}
      BY <1>2, <1>3, <2>2 DEF TagInv, OneActs
    <3>2. CASE q = p
      BY <1>1, <2>2, <3>1, <3>2 DEF Syncing
    <3>3. CASE q # p
      <4>1. c # d
        <5>1. Acting(poll[q], c) /\ Acting(poll[p], d)
          BY <1>3, <2>2 DEF Acting, Syncing
        <5> QED
          BY <1>2, <3>3, <5>1 DEF TagInv, OneActs
      <4>2. syncSeq'[c] = syncSeq[c]
        BY <4>1 DEF Wrote, FeedInv, StoreInv, StoreTypeOK
      <4> QED
        BY <1>1, <3>1, <3>3, <4>2
    <3> QED
      BY <3>2, <3>3
  <2> QED
    BY <2>1, <2>2
<1> QED
  BY <1>6, <1>7, <1>8, <1>9 DEF TagInv

(* In a calendar only polls write to, the store refuses no event of a feed. *)
LEMMA EventsAccepted ==
    ASSUME NamesOK, NEW c, c \notin edited, NEW doc \in Documents, NEW b \in doc
    PROVE  PutAccepted(c, Href(b), b)
<1>1. b.comp = "VEVENT"
  BY FeedAssumption
<1>2. \A o \in objects : o.cal = c => o.href = Href(o.blob) /\ o.blob.comp = "VEVENT"
  BY DEF NamesOK
<1> QED
  BY <1>1, <1>2 DEF PutAccepted, UidOwnedElsewhere, ObjectsAt, Href

LEMMA TagUpsertStep ==
    ASSUME FeedInv, TagInv, NEW p \in Pollers, NEW b \in Blob, Upsert(p, b)
    PROVE  TagInv'
<1>1. PICK r : r = poll[p]
  OBVIOUS
<1>2. PICK d : d = r.cal
  OBVIOUS
<1>3. /\ r.pc = "sync" /\ b \in r.todo /\ d \in Calendars /\ r.todo \subseteq r.doc
      /\ r.doc \in published[d]
  BY <1>1, <1>2 DEF Upsert, FeedInv, PollOK
<1>4. /\ UNCHANGED <<feed, state, overlapped, edited>> /\ r.doc \in Documents /\ b \in r.doc
      /\ state = [c \in Calendars |-> state[c]]
  BY <1>3 DEF Upsert, FeedInv, TagInv, VersionsOK
<1>5. Syncing(poll[p], d)
  BY <1>1, <1>2, <1>3 DEF Syncing
<1>6. CASE /\ PutObject(r.cal, Href(b), b)
           /\ poll' = [poll EXCEPT ![p] = [r EXCEPT !.todo = r.todo \ {b}, !.seqAt = Advanced(r)]]
  <2>1. PICK n : n = Advanced(r)
    OBVIOUS
  <2>2. PICK x : x = [r EXCEPT !.todo = r.todo \ {b}, !.seqAt = n]
    OBVIOUS
  <2>3. /\ x.pc = r.pc /\ x.cal = d /\ x.rest = r.rest /\ x.tag = r.tag /\ x.doc = r.doc
        /\ x.skipped = r.skipped /\ x.seqAt = n
    BY <1>2, <2>2
  <2>4. Href(b) \in Hrefs /\ b.comp = "VEVENT"
    BY <1>4, FeedAssumption DEF Href
  <2>5. /\ Wrote(d)
        /\ \E o \in objects' : o.cal = d /\ o.href = Href(b) /\ o.blob = b
        /\ \A o \in objects' : o \in objects \/ (o.cal = d /\ o.href = Href(b) /\ o.blob = b)
        /\ \A o \in objects : o \in objects' \/ (o.cal = d /\ o.href = Href(b))
    BY <1>2, <1>3, <1>6, <2>4, PutWrote DEF FeedInv
  <2>6. NamesOK'
    BY <1>4, <2>4, <2>5 DEF NamesOK, TagInv
  <2>7. r.seqAt = syncSeq[d] => n = syncSeq'[d]
    BY <1>2, <2>1 DEF Advanced
  <2>8. ASSUME NEW doc, doc = r.doc, Shows(d, doc, doc \ Storable)
        PROVE  Shows(d, doc, doc \ Storable)'
    <3>1. \A o \in objects' : o.cal = d => o.href \in HrefsOf(doc)
      BY <1>4, <2>5, <2>8 DEF Shows, HrefsOf
    <3>2. ASSUME NEW e \in doc \ (doc \ Storable)
          PROVE  \E o \in objects' : o.cal = d /\ o.href = Href(e) /\ o.blob \in doc
      <4>1. PICK o \in objects : o.cal = d /\ o.href = Href(e) /\ o.blob \in doc
        BY <2>8 DEF Shows, ObjectsAt
      <4> QED
        BY <1>4, <2>5, <2>8, <4>1
    <3> QED
      BY <3>1, <3>2 DEF Shows, ObjectsAt
  <2>9. poll' = [poll EXCEPT ![p] = x]
    BY <1>6, <2>1, <2>2
  <2> QED
    BY <1>1, <1>3, <1>4, <1>5, <2>3, <2>5, <2>6, <2>7, <2>8, <2>9, TagStore
<1>7. CASE /\ b \notin Storable \/ ~PutAccepted(r.cal, Href(b), b)
           /\ poll' = [poll EXCEPT ![p] = [r EXCEPT !.todo = r.todo \ {b},
                                                    !.skipped = r.skipped \cup {b}]]
           /\ UNCHANGED storeVars
  <2>1. PICK x : x = [r EXCEPT !.todo = r.todo \ {b}, !.skipped = r.skipped \cup {b}]
    OBVIOUS
  <2>2. /\ x.pc = "sync" /\ x.cal = d /\ x.rest = r.rest /\ x.tag = r.tag /\ x.doc = r.doc
        /\ x.skipped = r.skipped \cup {b} /\ x.seqAt = r.seqAt
    BY <1>2, <1>3, <2>1
  <2>3. poll' = [poll EXCEPT ![p] = x] /\ UNCHANGED <<objects, syncSeq>>
    BY <1>7, <2>1 DEF storeVars
  <2>4. Clean(d) => b \notin Storable
    BY <1>2, <1>4, <1>7, EventsAccepted DEF Clean, TagInv
  <2>5. \A c \in Calendars : \A t : Holds(x, c, t) => Known(c, t)
    BY <1>1, <1>3, <2>2 DEF Holds, Known
  <2>6. \A c \in Calendars : /\ Acting(x, c) => Acting(poll[p], c)
                             /\ Syncing(x, c) => c = d
    BY <1>1, <1>2, <1>3, <2>2 DEF Acting, Syncing
  <2>7. \A c \in Calendars : Known(c, state'[c].tag)
    BY <1>4 DEF Known
  <2>8. Clean(d) => x.skipped \cap Storable = r.skipped \cap Storable
    BY <2>2, <2>4
  <2> QED
    BY <1>1, <1>4, <1>5, <2>2, <2>3, <2>5, <2>6, <2>7, <2>8, TagsKeptMoving, ZenonT(30)
<1> QED
  BY <1>1, <1>6, <1>7 DEF Upsert

LEMMA TagPruneStep ==
    ASSUME FeedInv, TagInv, NEW p \in Pollers, NEW h \in Hrefs, Prune(p, h)
    PROVE  TagInv'
<1>1. PICK r : r = poll[p]
  OBVIOUS
<1>2. PICK d : d = r.cal
  OBVIOUS
<1>3. r.pc = "prune" /\ h \in r.todo /\ d \in Calendars /\ h \notin HrefsOf(r.doc)
  BY <1>1, <1>2 DEF Prune, FeedInv, PollOK
<1>4. UNCHANGED <<feed, state, overlapped, edited>> /\ state = [c \in Calendars |-> state[c]]
  BY DEF Prune, TagInv, VersionsOK
<1>5. Syncing(poll[p], d)
  BY <1>1, <1>2, <1>3 DEF Syncing
<1>6. CASE /\ DeleteObject(r.cal, h)
           /\ poll' = [poll EXCEPT ![p] = [r EXCEPT !.todo = r.todo \ {h}, !.seqAt = Advanced(r)]]
  <2>1. PICK n : n = Advanced(r)
    OBVIOUS
  <2>2. PICK x : x = [r EXCEPT !.todo = r.todo \ {h}, !.seqAt = n]
    OBVIOUS
  <2>3. /\ x.pc = r.pc /\ x.cal = d /\ x.rest = r.rest /\ x.tag = r.tag /\ x.doc = r.doc
        /\ x.skipped = r.skipped /\ x.seqAt = n
    BY <1>2, <2>2
  <2>4. Wrote(d) /\ \A o : o \in objects' <=> o \in objects /\ ~(o.cal = d /\ o.href = h)
    BY <1>2, <1>3, <1>6, DeleteWrote
  <2>5. NamesOK'
    BY <1>4, <2>4 DEF NamesOK, TagInv
  <2>6. r.seqAt = syncSeq[d] => n = syncSeq'[d]
    BY <1>2, <2>1 DEF Advanced
  <2>7. ASSUME NEW doc, doc = r.doc, Shows(d, doc, doc \ Storable)
        PROVE  Shows(d, doc, doc \ Storable)'
    <3>1. \A o \in objects' : o.cal = d => o.href \in HrefsOf(doc)
      BY <2>4, <2>7 DEF Shows
    <3>2. ASSUME NEW e \in doc \ (doc \ Storable)
          PROVE  \E o \in objects' : o.cal = d /\ o.href = Href(e) /\ o.blob \in doc
      <4>1. PICK o \in objects : o.cal = d /\ o.href = Href(e) /\ o.blob \in doc
        BY <2>7 DEF Shows, ObjectsAt
      <4>2. Href(e) # h
        BY <1>3, <2>7 DEF HrefsOf
      <4> QED
        BY <2>4, <4>1, <4>2
    <3> QED
      BY <3>1, <3>2 DEF Shows, ObjectsAt
  <2>8. poll' = [poll EXCEPT ![p] = x]
    BY <1>6, <2>1, <2>2
  <2> QED
    BY <1>1, <1>3, <1>4, <1>5, <2>3, <2>4, <2>5, <2>6, <2>7, <2>8, TagStore
<1>7. CASE /\ poll' = [poll EXCEPT ![p] = [r EXCEPT !.todo = r.todo \ {h}]]
           /\ UNCHANGED storeVars
  <2>1. PICK x : x = [r EXCEPT !.todo = r.todo \ {h}]
    OBVIOUS
  <2>2. /\ x.pc = "prune" /\ x.cal = d /\ x.rest = r.rest /\ x.tag = r.tag /\ x.doc = r.doc
        /\ x.skipped = r.skipped /\ x.seqAt = r.seqAt
    BY <1>2, <1>3, <2>1
  <2>3. poll' = [poll EXCEPT ![p] = x] /\ UNCHANGED <<objects, syncSeq>>
    BY <1>7, <2>1 DEF storeVars
  <2>4. \A c \in Calendars : \A t : Holds(x, c, t) => Known(c, t)
    BY <1>1, <1>3, <2>2 DEF Holds, Known
  <2>5. \A c \in Calendars : /\ Acting(x, c) => Acting(poll[p], c)
                             /\ Syncing(x, c) => c = d
    BY <1>1, <1>2, <1>3, <2>2 DEF Acting, Syncing
  <2>6. \A c \in Calendars : Known(c, state'[c].tag)
    BY <1>4 DEF Known
  <2> QED
    BY <1>1, <1>4, <1>5, <2>2, <2>3, <2>4, <2>5, <2>6, TagsKeptMoving
<1> QED
  BY <1>1, <1>6, <1>7 DEF Prune

(* The end of a sync: its tag becomes known, and the calendar shows it.    *)
LEMMA TagRecordStep ==
    ASSUME FeedInv, TagInv, NEW p \in Pollers, Record(p), Synced(p)
    PROVE  TagInv'
<1>1. PICK r : r = poll[p]
  OBVIOUS
<1>2. PICK d : d = r.cal
  OBVIOUS
<1>3. /\ r.pc = "prune" /\ d \in Calendars /\ \A q \in r.rest : q.cal \in Calendars
      /\ r.seqAt = syncSeq[d] =>
           Placed(r, r.doc) /\ \A o \in objects : o.cal = d => o.href \in HrefsOf(r.doc)
  BY <1>1, <1>2 DEF Synced, FeedInv, PollOK
<1>4. PICK row : row = [tag |-> r.tag, fails |-> r.fails, wait |-> Interval(r.cal, r.fails)]
  OBVIOUS
<1>5. PICK x : x = NextOf(r.rest)
  OBVIOUS
<1>6. /\ poll' = [poll EXCEPT ![p] = x] /\ row.tag = r.tag
      /\ state' = [state EXCEPT ![d] = row]
      /\ UNCHANGED <<objects, syncSeq, feed, overlapped, edited>>
  BY <1>1, <1>2, <1>4, <1>5 DEF Record, storeVars
<1>7. /\ state' = [c \in Calendars |-> state'[c]]
      /\ \A c \in Calendars : state'[c].tag = IF c = d THEN r.tag ELSE state[c].tag
  BY <1>6 DEF TagInv, VersionsOK
<1>8. \A q \in Pollers : poll'[q] = IF q = p THEN x ELSE poll[q]
  BY <1>6 DEF FeedInv
<1>9. \A c : ~Acting(x, c) /\ ~Syncing(x, c)
  BY <1>3, <1>5, NextOfHolds DEF Acting, Syncing
<1>10. \A c \in Calendars : \A t : Holds(x, c, t) => Known(c, t)
  <2>1. \A q \in r.rest : Holds(poll[p], q.cal, q.row.tag)
    BY <1>1, <1>3 DEF Holds
  <2> QED
    BY <1>3, <1>5, <2>1, NextOfHolds DEF Known
<1>11. ASSUME NEW c \in Calendars, NEW t, Known(c, t)' PROVE Known(c, t) \/ (c = d /\ t = r.tag)
  <2>1. state'[c].tag = t \/ \E q \in Pollers : Holds(poll'[q], c, t)
    BY <1>11 DEF Known, Holds
  <2>2. CASE state'[c].tag = t
    BY <1>7, <2>2 DEF Known
  <2>3. CASE \E q \in Pollers : Holds(poll'[q], c, t)
    BY <1>8, <1>10, <2>3 DEF Known
  <2> QED
    BY <2>1, <2>2, <2>3
<1>12. /\ r.tag \in Nat /\ r.tag <= feed[d].version
       /\ r.tag = feed[d].version => r.doc = feed[d].doc
  BY <1>1, <1>2, <1>3 DEF TagInv, SyncTagsOK, Syncing
<1>13. \A c \in Calendars : Clean(c)' <=> Clean(c)
  BY <1>6 DEF Clean
<1>14. VersionsOK'
  BY <1>6, <1>7, <1>11, <1>12 DEF TagInv, VersionsOK
<1>15. SyncTagsOK'
  BY <1>6, <1>8, <1>9 DEF TagInv, SyncTagsOK, Syncing
<1>16. KnownIsShown'
  <2> SUFFICES ASSUME NEW c \in Calendars, Clean(c)', NEW t, t = feed[c].version, Known(c, t)'
               PROVE  /\ feed[c].doc # {} => Shows(c, feed[c].doc, feed[c].doc \ Storable)
                      /\ \A q \in Pollers : Syncing(poll'[q], c) => poll'[q].doc = feed[c].doc
    BY <1>6, ShownFrom
  <2>1. CASE Known(c, t)
    BY <1>8, <1>9, <1>13, <2>1 DEF TagInv, KnownIsShown
  <2>2. CASE c = d /\ t = r.tag
    <3>1. r.seqAt = syncSeq[d] /\ r.skipped \cap Storable = {}
      BY <1>1, <1>2, <1>3, <1>13, <2>2 DEF TagInv, OneActs, Syncing
    <3>2. r.doc = feed[c].doc
      BY <1>12, <2>2
    <3>3. Shows(c, r.doc, r.doc \ Storable)
      BY <1>2, <1>3, <2>2, <3>1 DEF Shows, Placed
    <3>4. \A q \in Pollers : ~Syncing(poll'[q], c)
      BY <1>1, <1>2, <1>3, <1>8, <1>9, <1>13, <2>2 DEF TagInv, OneActs, Acting, Syncing
    <3> QED
      BY <3>2, <3>3, <3>4
  <2> QED
    BY <1>11, <2>1, <2>2
<1>17. OneActs'
  <2> SUFFICES ASSUME NEW c \in Calendars, Clean(c)'
               PROVE  /\ \A a, q \in Pollers : Acting(poll'[a], c) /\ Acting(poll'[q], c) => a = q
                      /\ \A q \in Pollers : Syncing(poll'[q], c) =>
                           poll'[q].seqAt = syncSeq[c] /\ poll'[q].skipped \cap Storable = {}
    BY <1>6 DEF OneActs, Acting, Syncing
  <2> QED
    BY <1>8, <1>9, <1>13 DEF TagInv, OneActs
<1>18. NamesOK'
  BY <1>6 DEF TagInv, NamesOK
<1> QED
  BY <1>14, <1>15, <1>16, <1>17, <1>18 DEF TagInv

(* A new version: nobody knows its tag yet.                                *)
LEMMA TagPublishStep ==
    ASSUME FeedInv, TagInv, NEW d \in Calendars, NEW doc \in Documents, Publish(d, doc)
    PROVE  TagInv'
<1>1. UNCHANGED <<objects, syncSeq, state, poll, overlapped, edited>>
  BY DEF Publish, storeVars
<1>2. PICK f : f = [version |-> feed[d].version + 1, doc |-> doc]
  OBVIOUS
<1>3. feed' = [feed EXCEPT ![d] = f] /\ f.version = feed[d].version + 1
  BY <1>2 DEF Publish
<1>4. \A c \in Calendars : feed'[c] = IF c = d THEN f ELSE feed[c]
  BY <1>3 DEF FeedInv
<1>5. \A c, t : Known(c, t)' <=> Known(c, t)
  BY <1>1 DEF Known, Holds
<1>6. \A c \in Calendars : feed[c].version \in Nat \ {0}
  BY DEF TagInv, VersionsOK
<1>7. VersionsOK'
  <2>1. \A c \in Calendars : feed'[c].version \in Nat \ {0} /\ feed[c].version <= feed'[c].version
    BY <1>3, <1>4, <1>6
  <2>2. ASSUME NEW c \in Calendars, NEW t, Known(c, t) PROVE t \in Nat /\ t <= feed'[c].version
    <3>1. t \in Nat /\ t <= feed[c].version
      BY <2>2 DEF TagInv, VersionsOK
    <3> QED
      BY <1>6, <2>1, <3>1
  <2>3. (\A c \in Calendars : \A t : Known(c, t) => t \in Nat /\ t <= feed[c].version)'
    BY <1>5, <2>2
  <2> QED
    BY <1>1, <2>1, <2>3 DEF TagInv, VersionsOK
<1>8. SyncTagsOK'
  <2> SUFFICES ASSUME NEW c \in Calendars, NEW p \in Pollers, Syncing(poll[p], c)
               PROVE  /\ poll[p].tag \in Nat /\ poll[p].tag <= feed'[c].version
                      /\ poll[p].tag = feed'[c].version => poll[p].doc = feed'[c].doc
    BY <1>1 DEF SyncTagsOK, Syncing
  <2>1. /\ poll[p].tag \in Nat /\ poll[p].tag <= feed[c].version
        /\ poll[p].tag = feed[c].version => poll[p].doc = feed[c].doc
    BY DEF TagInv, SyncTagsOK
  <2> QED
    BY <1>3, <1>4, <1>6, <2>1
<1>9. KnownIsShown'
  <2> SUFFICES ASSUME NEW c \in Calendars, Clean(c)', Known(c, feed[c].version)'
               PROVE  (/\ feed[c].doc # {} => Shows(c, feed[c].doc, feed[c].doc \ Storable)
                       /\ \A q \in Pollers : Syncing(poll[q], c) => poll[q].doc = feed[c].doc)'
    BY DEF KnownIsShown
  <2>1. PICK t : t = feed'[c].version
    OBVIOUS
  <2>2. Known(c, t)
    BY <1>1, <2>1 DEF Known, Holds
  <2>3. t \in Nat /\ t <= feed[c].version
    BY <2>2 DEF TagInv, VersionsOK
  <2>4. c # d
    BY <1>3, <1>4, <1>6, <2>1, <2>3
  <2>5. feed'[c] = feed[c] /\ Clean(c)
    BY <1>1, <1>4, <2>4 DEF Clean
  <2>6. /\ feed[c].doc # {} => Shows(c, feed[c].doc, feed[c].doc \ Storable)
        /\ \A q \in Pollers : Syncing(poll[q], c) => poll[q].doc = feed[c].doc
    BY <2>1, <2>2, <2>5 DEF TagInv, KnownIsShown
  <2> QED
    BY <1>1, <2>5, <2>6 DEF Shows, ObjectsAt, Syncing
<1>10. OneActs'
  BY <1>1 DEF TagInv, OneActs, Clean, Acting, Syncing
<1>11. NamesOK'
  BY <1>1 DEF TagInv, NamesOK
<1> QED
  BY <1>7, <1>8, <1>9, <1>10, <1>11 DEF TagInv

(* A client's write: the calendar is clean no more.                        *)
LEMMA TagEditStep ==
    ASSUME FeedInv, TagInv, NEW d \in Calendars, NEW h \in Hrefs, Edit(d, h)
    PROVE  TagInv'
<1>1. UNCHANGED <<feed, state, poll, overlapped>> /\ edited' = edited \cup {d}
  BY DEF Edit
<1>2. Wrote(d)
  BY PutWrote, DeleteWrote, FeedAssumption DEF Edit, FeedInv
<1>3. \A c \in Calendars : Clean(c)' => Clean(c) /\ c # d
  BY <1>1 DEF Clean
<1>4. \A c, t : Known(c, t)' <=> Known(c, t)
  BY <1>1 DEF Known, Holds
<1>5. VersionsOK'
  BY <1>1, <1>4 DEF TagInv, VersionsOK
<1>6. SyncTagsOK'
  BY <1>1 DEF TagInv, SyncTagsOK, Syncing
<1>7. KnownIsShown'
  <2> SUFFICES ASSUME NEW c \in Calendars, Clean(c)', Known(c, feed[c].version)'
               PROVE  (/\ feed[c].doc # {} => Shows(c, feed[c].doc, feed[c].doc \ Storable)
                       /\ \A q \in Pollers : Syncing(poll[q], c) => poll[q].doc = feed[c].doc)'
    BY DEF KnownIsShown
  <2>1. Known(c, feed[c].version)
    BY <1>1 DEF Known, Holds
  <2>2. /\ feed[c].doc # {} => Shows(c, feed[c].doc, feed[c].doc \ Storable)
        /\ \A q \in Pollers : Syncing(poll[q], c) => poll[q].doc = feed[c].doc
    BY <1>3, <2>1 DEF TagInv, KnownIsShown
  <2>3. PICK doc : doc = feed[c].doc
    OBVIOUS
  <2>4. doc # {} => Shows(c, doc, doc \ Storable)'
    BY <1>2, <1>3, <2>2, <2>3, OthersShow
  <2> QED
    BY <1>1, <2>2, <2>3, <2>4 DEF Shows, ObjectsAt, Syncing
<1>8. OneActs'
  <2>1. \A c \in Calendars : c # d => syncSeq'[c] = syncSeq[c]
    BY <1>2 DEF Wrote, FeedInv, StoreInv, StoreTypeOK
  <2> QED
    BY <1>1, <1>3, <2>1 DEF TagInv, OneActs, Acting, Syncing
<1>9. NamesOK'
  BY <1>1, <1>2 DEF TagInv, NamesOK, Wrote
<1> QED
  BY <1>5, <1>6, <1>7, <1>8, <1>9 DEF TagInv

LEMMA TagStep == FeedInv /\ TagInv /\ [Next]_vars => TagInv'
BY TagQuietStep, TagFetchStep, TagUpsertStep, TagPruneStep, TagRecordStep, TagPublishStep,
   TagEditStep DEF Next, Proceed, Record

LEMMA TagStart == Init => TagInv
<1> SUFFICES ASSUME Init PROVE TagInv
  OBVIOUS
<1>1. /\ \A p \in Pollers : poll[p] = Idle
      /\ state = [c \in Calendars |-> [tag |-> NoTag, fails |-> 0, wait |-> 0]]
      /\ \A c \in Calendars : feed[c].version = 1
      /\ objects = {}
  BY DEF Init, StoreInit
<1>2. \A c \in Calendars : \A t : Known(c, t) => t = 0
  BY <1>1 DEF Known, Holds, Idle, NoTag
<1>3. VersionsOK
  BY <1>1, <1>2 DEF VersionsOK
<1>4. SyncTagsOK /\ OneActs
  BY <1>1 DEF SyncTagsOK, OneActs, Acting, Syncing, Idle
<1>5. KnownIsShown
  BY <1>1, <1>2 DEF KnownIsShown
<1> QED
  BY <1>1, <1>3, <1>4, <1>5 DEF TagInv, NamesOK

(* Through crashes, cut requests and stale rows: the validator that        *)
(* UpdateICSPollState stores is that of what the calendar shows, if no two  *)
(* polls of poller.go acted on the calendar at once and no client wrote to  *)
(* it.                                                                     *)
THEOREM UnchangedFeedsAreShown == Spec => []UnchangedIsShown
<1>1. Spec => []TagInv
  <2>1. Init => TagInv
    BY TagStart
  <2>2. FeedInv /\ TagInv /\ [Next]_vars => TagInv'
    BY TagStep
  <2> QED
    BY <2>1, <2>2, FeedInvariant, PTL DEF Spec
<1>2. TagInv => UnchangedIsShown
  BY DEF TagInv, KnownIsShown, Known, Clean, UnchangedIsShown, WouldSkip
<1> QED
  BY <1>1, <1>2, PTL

----------------------------------------------------------------------------
(* Types: what a poll holds at each place, and the waits there can be.      *)

FetchPoll == [pc: {"fetch"}, cal: Calendars, row: Row, rest: SUBSET Rows]
RecordPoll == [pc: {"record"}, cal: Calendars, rest: SUBSET Rows, tag: Nat, fails: Nat]
SyncPoll ==
    [pc: {"sync"}, cal: Calendars, rest: SUBSET Rows, tag: Nat, fails: {0},
     doc: Documents, todo: Doc, skipped: Doc, seqAt: Nat]
PrunePoll ==
    [pc: {"prune"}, cal: Calendars, rest: SUBSET Rows, tag: Nat, fails: {0},
     doc: Documents, todo: SUBSET Hrefs, skipped: Doc, seqAt: Nat]

(* The shape of a poll follows from the place it has come to.               *)
LEMMA PollIsOneOf ==
    /\ Poll = {Idle} \cup FetchPoll \cup RecordPoll \cup SyncPoll \cup PrunePoll
    /\ \A r \in Poll :
         /\ r.pc = "fetch" => r \in FetchPoll
         /\ r.pc = "record" => r \in RecordPoll
         /\ r.pc = "sync" => r \in SyncPoll
         /\ r.pc = "prune" => r \in PrunePoll
<1>1. Poll = {Idle} \cup FetchPoll \cup RecordPoll \cup SyncPoll \cup PrunePoll
  BY DEF Poll, FetchPoll, RecordPoll, SyncPoll, PrunePoll
<1>2. /\ Idle.pc = "idle"
      /\ \A r \in FetchPoll : r.pc = "fetch"
      /\ \A r \in RecordPoll : r.pc = "record"
      /\ \A r \in SyncPoll : r.pc = "sync"
      /\ \A r \in PrunePoll : r.pc = "prune"
  BY DEF Idle, FetchPoll, RecordPoll, SyncPoll, PrunePoll
<1> QED
  BY <1>1, <1>2

(* Powers of two are naturals, as they count subsets.                       *)
LEMMA PowerIsNatural ==
    ASSUME NEW n \in Nat
    PROVE  2 ^ n \in Nat
<1>1. IsFiniteSet(1 .. n) /\ Cardinality(1 .. n) = n
  <2>1. IsFiniteSet(1 .. n) /\ Cardinality(1 .. n) = IF 1 > n THEN 0 ELSE n - 1 + 1
    BY FS_Interval
  <2> QED
    BY <2>1
<1>2. IsFiniteSet(SUBSET (1 .. n)) /\ Cardinality(SUBSET (1 .. n)) = 2 ^ n
  BY <1>1, FS_SUBSET
<1>3. Cardinality(SUBSET (1 .. n)) \in Nat
  BY <1>2, FS_CardinalityType
<1> QED
  BY <1>2, <1>3

(* The wait after any number of failures is a number of minutes, no longer  *)
(* than the feed's own interval or the cap.                                 *)
LEMMA IntervalBounded ==
    ASSUME NEW c \in Calendars, NEW fails \in Nat
    PROVE  /\ Interval(c, fails) \in Nat
           /\ Interval(c, fails) <= BaseInterval[c] \/ Interval(c, fails) <= MaxBackoff
<1>1. PICK n : n = IF fails > 20 THEN 20 ELSE fails
  OBVIOUS
<1>2. PICK power : power = 2 ^ n
  OBVIOUS
<1>3. n \in Nat
  BY <1>1
<1>4. power \in Nat
  BY <1>2, <1>3, PowerIsNatural
<1>5. BaseInterval[c] \in Nat /\ MaxBackoff \in Nat
  BY FeedAssumption
<1>6. PICK backoff : backoff = BaseInterval[c] * power
  OBVIOUS
<1>7. backoff \in Nat
  BY <1>4, <1>5, <1>6
<1>8. Interval(c, fails) = IF fails = 0 THEN BaseInterval[c]
                           ELSE IF backoff > MaxBackoff THEN MaxBackoff ELSE backoff
  BY <1>1, <1>2, <1>6 DEF Interval
<1> QED
  BY <1>5, <1>7, <1>8

(* The calendars a sweep has before it are rows, and so is what it turns to.*)
LEMMA NextOfTyped ==
    ASSUME NEW rest, rest \subseteq Rows
    PROVE  NextOf(rest) \in Poll
<1>1. CASE rest = {}
  BY <1>1, PollIsOneOf DEF NextOf
<1>2. CASE rest # {}
  <2>1. \A q \in rest : q.cal \in Calendars
    BY DEF Rows
  <2>2. PICK r \in rest :
          NextOf(rest) = [pc |-> "fetch", cal |-> r.cal, row |-> r.row, rest |-> rest \ {r}]
    BY <1>2, <2>1, NextOfIs
  <2>3. r.cal \in Calendars /\ r.row \in Row /\ rest \ {r} \in SUBSET Rows
    BY DEF Rows
  <2>4. NextOf(rest) \in FetchPoll
    BY <2>2, <2>3 DEF FetchPoll
  <2> QED
    BY <2>4, PollIsOneOf
<1> QED
  BY <1>1, <1>2

(* A step that moves one poll on and leaves the feeds and rows alone.       *)
LEMMA TypesMoving ==
    ASSUME FeedTypeOK, FeedInv', UNCHANGED <<feed, state>>,
           overlapped' \subseteq Calendars, UNCHANGED edited, incidents' \in 0 .. MaxIncidents,
           NEW p \in Pollers, NEW r \in Poll, poll' = [poll EXCEPT ![p] = r]
    PROVE  FeedTypeOK'
<1>1. StoreTypeOK' /\ published' \in [Calendars -> SUBSET Documents]
  BY DEF FeedInv, StoreInv
<1>2. poll' \in [Pollers -> Poll]
  BY DEF FeedTypeOK
<1> QED
  BY <1>1, <1>2 DEF FeedTypeOK

(* Incidents are counted to their bound.                                    *)
LEMMA IncidentTyped ==
    ASSUME FeedTypeOK, Incident \/ UNCHANGED incidents
    PROVE  incidents' \in 0 .. MaxIncidents
BY FeedAssumption DEF FeedTypeOK, Incident

(* The beginnings of polls.                                                 *)
LEMMA BeginTypes ==
    ASSUME FeedTypeOK, FeedInv',
           \/ BeginSweep
           \/ \E p \in Pollers : Disconnect(p) \/ \E c \in Calendars : BeginPoll(p, c)
    PROVE  FeedTypeOK'
<1>0. state \in [Calendars -> Row] /\ overlapped \subseteq Calendars /\ Idle \in Poll
  BY PollIsOneOf DEF FeedTypeOK
<1>1. CASE BeginSweep
  <2>1. PICK rest : rest = {[cal |-> c, row |-> state[c]] : c \in {d \in Calendars : Due(d)}}
    OBVIOUS
  <2>2. rest \subseteq Rows
    BY <1>0, <2>1 DEF Rows
  <2>3. NextOf(rest) \in Poll /\ poll' = [poll EXCEPT ![Sweeper] = NextOf(rest)]
    BY <1>1, <2>1, <2>2, NextOfTyped DEF BeginSweep
  <2>4. UNCHANGED <<feed, state, overlapped, edited, incidents>>
    BY <1>1 DEF BeginSweep
  <2> QED
    BY <1>0, <2>3, <2>4, IncidentTyped, FeedAssumption, TypesMoving
<1>2. ASSUME NEW p \in Pollers, NEW c \in Calendars, BeginPoll(p, c) PROVE FeedTypeOK'
  <2>1. PICK rest : rest = {[cal |-> c, row |-> state[c]]}
    OBVIOUS
  <2>2. rest \subseteq Rows
    BY <1>0, <2>1 DEF Rows
  <2>3. NextOf(rest) \in Poll /\ poll' = [poll EXCEPT ![p] = NextOf(rest)]
    BY <1>2, <2>1, <2>2, NextOfTyped DEF BeginPoll
  <2>4. UNCHANGED <<feed, state, overlapped, edited>> /\ Incident
    BY <1>2 DEF BeginPoll
  <2> QED
    BY <1>0, <2>3, <2>4, IncidentTyped, TypesMoving
<1>3. ASSUME NEW p \in Pollers, Disconnect(p) PROVE FeedTypeOK'
  BY <1>0, <1>3, IncidentTyped, TypesMoving DEF Disconnect
<1> QED
  BY <1>1, <1>2, <1>3

(* A response.                                                              *)
LEMMA FetchTypes ==
    ASSUME FeedTypeOK, FeedInv, FeedInv', NEW p \in Pollers, Fetch(p)
    PROVE  FeedTypeOK'
<1>1. PICK r \in Poll : r = poll[p]
  BY DEF FeedTypeOK
<1>2. r \in FetchPoll
  BY <1>1, PollIsOneOf DEF Fetch
<1>3. /\ r.cal \in Calendars /\ r.row \in Row /\ r.rest \in SUBSET Rows
      /\ r.row.tag \in Nat /\ r.row.fails \in Nat
  BY <1>2 DEF FetchPoll, Row
<1>4. /\ feed[r.cal].doc \in Documents /\ feed[r.cal].version \in Nat
      /\ syncSeq[r.cal] \in Nat
  BY <1>3 DEF FeedTypeOK, StoreTypeOK
<1>5. /\ UNCHANGED <<feed, state, edited>> /\ overlapped' \subseteq Calendars
      /\ Incident \/ UNCHANGED incidents
  BY <1>1, <1>3 DEF Fetch, FeedTypeOK, Incident
<1>6. ASSUME NEW tag \in Nat, NEW fails \in Nat, poll' = [poll EXCEPT ![p] = ToRecord(r, tag, fails)]
      PROVE  FeedTypeOK'
  <2>1. ToRecord(r, tag, fails) \in RecordPoll
    BY <1>3 DEF ToRecord, RecordPoll
  <2> QED
    BY <1>5, <1>6, <2>1, PollIsOneOf, IncidentTyped, TypesMoving
<1>7. ASSUME NEW tag \in Nat, poll' = [poll EXCEPT ![p] = ToSync(r, feed[r.cal].doc, tag)]
      PROVE  FeedTypeOK'
  <2>1. PICK doc : doc = feed[r.cal].doc
    OBVIOUS
  <2>2. doc \in Documents /\ doc \in Doc /\ {} \in Doc
    BY <1>4, <2>1, DocumentBlobs DEF Doc
  <2>3. ToSync(r, doc, tag) \in SyncPoll
    BY <1>3, <1>4, <2>2 DEF ToSync, SyncPoll
  <2> QED
    BY <1>5, <1>7, <2>1, <2>3, PollIsOneOf, IncidentTyped, TypesMoving
<1>8. NoTag \in Nat /\ r.row.fails + 1 \in Nat /\ 0 \in Nat
  BY <1>3 DEF NoTag
<1> QED
  BY <1>1, <1>3, <1>4, <1>6, <1>7, <1>8 DEF Fetch

(* One event stored or skipped, the stored ones listed, one taken away.     *)
LEMMA SyncTypes ==
    ASSUME FeedTypeOK, FeedInv, FeedInv', NEW p \in Pollers,
           (\E b \in Blob : Upsert(p, b)) \/ List(p) \/ (\E h \in Hrefs : Prune(p, h))
    PROVE  FeedTypeOK'
<1>1. PICK r \in Poll : r = poll[p]
  BY DEF FeedTypeOK
<1>2. /\ UNCHANGED <<feed, state, edited, incidents>> /\ overlapped' \subseteq Calendars
  BY DEF Upsert, List, Prune, FeedTypeOK
<1>3. ASSUME NEW q \in Poll, poll' = [poll EXCEPT ![p] = q] PROVE FeedTypeOK'
  BY <1>2, <1>3, IncidentTyped, TypesMoving
<1>4. syncSeq \in [Calendars -> Nat] /\ syncSeq' \in [Calendars -> Nat]
  BY DEF FeedInv, StoreInv, StoreTypeOK
<1>5. ASSUME NEW b \in Blob, Upsert(p, b) PROVE FeedTypeOK'
  <2>1. r \in SyncPoll
    BY <1>1, <1>5, PollIsOneOf DEF Upsert
  <2>2. Advanced(r) \in Nat
    BY <1>4, <2>1 DEF Advanced, SyncPoll
  <2>3. r.todo \ {b} \in Doc /\ r.skipped \cup {b} \in Doc
    BY <2>1 DEF SyncPoll, Doc
  <2>4. PICK q : /\ poll' = [poll EXCEPT ![p] = q]
                 /\ \/ q = [r EXCEPT !.todo = r.todo \ {b}, !.seqAt = Advanced(r)]
                    \/ q = [r EXCEPT !.todo = r.todo \ {b}, !.skipped = r.skipped \cup {b}]
    BY <1>1, <1>5 DEF Upsert
  <2>5. q \in SyncPoll
    BY <2>1, <2>2, <2>3, <2>4 DEF SyncPoll
  <2> QED
    BY <1>3, <2>4, <2>5, PollIsOneOf
<1>6. CASE List(p)
  <2>1. r \in SyncPoll
    BY <1>1, <1>6, PollIsOneOf DEF List
  <2>2. PICK gone : gone = {o.href : o \in {x \in objects : x.cal = r.cal}} \ HrefsOf(r.doc)
    OBVIOUS
  <2>3. gone \in SUBSET Hrefs
    BY <2>2 DEF FeedTypeOK, StoreTypeOK, Object
  <2>4. PICK q : q = [r EXCEPT !.pc = "prune", !.todo = gone]
    OBVIOUS
  <2>5. q \in PrunePoll
    BY <2>1, <2>3, <2>4 DEF SyncPoll, PrunePoll
  <2>6. poll' = [poll EXCEPT ![p] = q]
    BY <1>1, <1>6, <2>2, <2>4 DEF List
  <2> QED
    BY <1>3, <2>5, <2>6, PollIsOneOf
<1>7. ASSUME NEW h \in Hrefs, Prune(p, h) PROVE FeedTypeOK'
  <2>1. r \in PrunePoll
    BY <1>1, <1>7, PollIsOneOf DEF Prune
  <2>2. Advanced(r) \in Nat
    BY <1>4, <2>1 DEF Advanced, PrunePoll
  <2>3. PICK q : /\ poll' = [poll EXCEPT ![p] = q]
                 /\ \/ q = [r EXCEPT !.todo = r.todo \ {h}, !.seqAt = Advanced(r)]
                    \/ q = [r EXCEPT !.todo = r.todo \ {h}]
    BY <1>1, <1>7 DEF Prune
  <2>4. q \in PrunePoll
    BY <2>1, <2>2, <2>3 DEF PrunePoll
  <2> QED
    BY <1>3, <2>3, <2>4, PollIsOneOf
<1> QED
  BY <1>5, <1>6, <1>7

(* The row of a calendar written: with a wait inside the bounds.            *)
LEMMA RecordTypes ==
    ASSUME FeedTypeOK, FeedInv', NEW p \in Pollers, Record(p)
    PROVE  FeedTypeOK'
<1>1. PICK r \in Poll : r = poll[p]
  BY DEF FeedTypeOK
<1>2. r \in RecordPoll \cup PrunePoll
  BY <1>1, PollIsOneOf DEF Record, Synced
<1>3. r.cal \in Calendars /\ r.tag \in Nat /\ r.fails \in Nat /\ r.rest \subseteq Rows
  BY <1>2 DEF RecordPoll, PrunePoll
<1>4. PICK row : row = [tag |-> r.tag, fails |-> r.fails, wait |-> Interval(r.cal, r.fails)]
  OBVIOUS
<1>5. row \in Row /\ (row.wait <= BaseInterval[r.cal] \/ row.wait <= MaxBackoff)
  BY <1>3, <1>4, IntervalBounded DEF Row
<1>6. /\ state' = [state EXCEPT ![r.cal] = row]
      /\ poll' = [poll EXCEPT ![p] = NextOf(r.rest)]
      /\ UNCHANGED <<feed, overlapped, edited, incidents>>
  BY <1>1, <1>4 DEF Record
<1>7. state' \in [Calendars -> Row] /\ poll' \in [Pollers -> Poll]
  BY <1>3, <1>5, <1>6, NextOfTyped DEF FeedTypeOK
<1>8. \A c \in Calendars : state'[c].wait <= BaseInterval[c] \/ state'[c].wait <= MaxBackoff
  BY <1>3, <1>5, <1>6 DEF FeedTypeOK
<1>9. StoreTypeOK' /\ published' \in [Calendars -> SUBSET Documents]
  BY DEF FeedInv, StoreInv
<1> QED
  BY <1>6, <1>7, <1>8, <1>9 DEF FeedTypeOK

(* The surroundings.                                                        *)
LEMMA AroundTypes ==
    ASSUME FeedTypeOK, FeedInv',
           \/ Tick \/ Crash \/ UNCHANGED vars
           \/ \E c \in Calendars : \/ \E doc \in Documents : Publish(c, doc)
                                   \/ \E h \in Hrefs : Edit(c, h)
    PROVE  FeedTypeOK'
<1>1. StoreTypeOK' /\ published' \in [Calendars -> SUBSET Documents]
  BY DEF FeedInv, StoreInv
<1>2. CASE Tick
  <2>1. state' = [c \in Calendars |-> [state[c] EXCEPT !.wait = IF @ > 0 THEN @ - 1 ELSE 0]]
    BY <1>2 DEF Tick
  <2>2. ASSUME NEW c \in Calendars
        PROVE  /\ state'[c] \in Row
               /\ state'[c].wait <= BaseInterval[c] \/ state'[c].wait <= MaxBackoff
    <3>1. /\ state[c] \in Row /\ BaseInterval[c] \in Nat /\ MaxBackoff \in Nat
          /\ state[c].wait <= BaseInterval[c] \/ state[c].wait <= MaxBackoff
      BY FeedAssumption DEF FeedTypeOK
    <3>2. PICK w : w = IF state[c].wait > 0 THEN state[c].wait - 1 ELSE 0
      OBVIOUS
    <3>3. w \in Nat /\ w <= state[c].wait /\ state[c].wait \in Nat
      BY <3>1, <3>2 DEF Row
    <3>4. state'[c] = [state[c] EXCEPT !.wait = w]
      BY <2>1, <3>2
    <3>5. state'[c] \in Row /\ state'[c].wait = w
      BY <3>1, <3>3, <3>4 DEF Row
    <3> QED
      BY <3>1, <3>3, <3>5
  <2>3. state' \in [Calendars -> Row]
    BY <2>1, <2>2
  <2> QED
    BY <1>1, <1>2, <2>2, <2>3 DEF Tick, FeedTypeOK
<1>3. CASE Crash
  <2>1. poll' \in [Pollers -> Poll] /\ incidents' \in 0 .. MaxIncidents
    BY <1>3, PollIsOneOf, IncidentTyped DEF Crash
  <2> QED
    BY <1>1, <1>3, <2>1 DEF Crash, FeedTypeOK
<1>4. CASE UNCHANGED vars
  BY <1>1, <1>4 DEF vars, FeedTypeOK
<1>5. ASSUME NEW c \in Calendars, NEW doc \in Documents, Publish(c, doc) PROVE FeedTypeOK'
  <2>1. PICK f : f = [version |-> feed[c].version + 1, doc |-> doc]
    OBVIOUS
  <2>2. f \in [version: 1 .. MaxVersions, doc: Documents]
    BY <1>5, <2>1, FeedAssumption DEF Publish, FeedTypeOK
  <2>3. feed' = [feed EXCEPT ![c] = f]
    BY <1>5, <2>1 DEF Publish
  <2>4. feed' \in [Calendars -> [version: 1 .. MaxVersions, doc: Documents]]
    BY <2>2, <2>3 DEF FeedTypeOK
  <2> QED
    BY <1>1, <1>5, <2>4 DEF Publish, FeedTypeOK
<1>6. ASSUME NEW c \in Calendars, NEW h \in Hrefs, Edit(c, h) PROVE FeedTypeOK'
  <2>1. /\ edited' \subseteq Calendars /\ incidents' \in 0 .. MaxIncidents
        /\ UNCHANGED <<feed, state, poll, overlapped>>
    BY <1>6, IncidentTyped DEF Edit, FeedTypeOK
  <2> QED
    BY <1>1, <2>1 DEF FeedTypeOK
<1> QED
  BY <1>2, <1>3, <1>4, <1>5, <1>6

(* And they hold at the start.                                             *)
LEMMA FeedTypesStart == Init => FeedTypeOK
<1> SUFFICES ASSUME Init PROVE FeedTypeOK
  OBVIOUS
<1>1. StoreTypeOK /\ published \in [Calendars -> SUBSET Documents]
  BY FeedStart DEF FeedInv, StoreInv
<1>2. feed \in [Calendars -> [version: 1 .. MaxVersions, doc: Documents]]
  <2>1. \A f \in [version: {1}, doc: Documents] : f \in [version: 1 .. MaxVersions, doc: Documents]
    BY FeedAssumption
  <2> QED
    BY <2>1 DEF Init
<1>3. [tag |-> NoTag, fails |-> 0, wait |-> 0] \in Row
  BY DEF Row, NoTag
<1>4. state \in [Calendars -> Row] /\ \A c \in Calendars : state[c].wait = 0
  BY <1>3 DEF Init
<1>5. \A c \in Calendars : state[c].wait <= BaseInterval[c]
  BY <1>4, FeedAssumption
<1>6. poll \in [Pollers -> Poll]
  BY PollIsOneOf DEF Init
<1> QED
  BY <1>1, <1>2, <1>4, <1>5, <1>6, FeedAssumption DEF Init, FeedTypeOK

(* Rows, feeds and polls have the shapes they should, and no wait that the  *)
(* backoff of poller.go asks for exceeds both the feed's interval and the   *)
(* cap, whatever the number of failures.                                    *)
THEOREM FeedTypeCorrect == Spec => []FeedTypeOK
<1>1. FeedTypeOK /\ FeedInv /\ FeedInv' /\ [Next]_vars => FeedTypeOK'
  BY BeginTypes, FetchTypes, SyncTypes, RecordTypes, AroundTypes DEF Next, Proceed
<1> QED
  BY <1>1, FeedTypesStart, FeedInvariant, PTL DEF Spec
=============================================================================
