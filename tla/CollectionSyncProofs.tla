----------------------- MODULE CollectionSyncProofs -----------------------
(***************************************************************************)
(* Synchronising from the journal implements LiveCollection, for any       *)
(* number of replicas, calendars and changes.  Beside the store's own      *)
(* invariant the argument needs one fact per replica: its token is a place *)
(* in the journal, and an href with no change after the token is known     *)
(* with the etag it has.                                                   *)
(***************************************************************************)
EXTENDS CollectionSync, ObjectStoreProofs

Pending(k) == ChangesSince(Follows[k], token[k])

ReplicaInv ==
    \A k \in Replicas :
        /\ token[k] <= syncSeq[Follows[k]]
        /\ \A h \in Hrefs : (\A e \in Pending(k) : e.href # h)
                              => known[k][h] = ETagAt(Follows[k], h)

SyncInv == StoreInv /\ SyncTypeOK /\ ReplicaInv

----------------------------------------------------------------------------
(* The last pending change of an href is the last change of the href.      *)
LEMMA PendingNewest ==
    ASSUME StoreInv, SyncTypeOK, NEW k \in Replicas, NEW h \in Hrefs,
           \E e \in Pending(k) : e.href = h
    PROVE  \A before : Replayed(Pending(k), h, before) = ETagAt(Follows[k], h)
<1> DEFINE c == Follows[k]
           P == Pending(k)
<1>1. c \in Calendars /\ token[k] \in Nat /\ changes \subseteq Change
    BY SyncAssumption DEF SyncTypeOK, StoreTypeOK
<1>2. PICK e \in changes : e.cal = c /\ e.seq > token[k] /\ e.href = h
    BY DEF Pending, ChangesSince
<1>3. PICK f \in changes : f.cal = c /\ f.href = h /\ IsNewest(changes, f)
    BY <1>2 DEF StoreInv, JournalInv, NewestExists, ChangesOf
<1>4. f \in P /\ IsNewest(P, f)
    BY <1>1, <1>2, <1>3 DEF Pending, ChangesSince, IsNewest, Change
<1>5. \A g \in P : g.href = h /\ IsNewest(P, g) => g = f
    <2> SUFFICES ASSUME NEW g \in P, g.href = h, IsNewest(P, g) PROVE g = f
        OBVIOUS
    <2>1. g \in changes /\ g.cal = c
        BY DEF Pending, ChangesSince
    <2>2. g.seq = f.seq
        BY <1>1, <1>3, <1>4, <2>1 DEF IsNewest, Change
    <2> QED  BY <1>3, <2>1, <2>2 DEF StoreInv, JournalInv, JournalDense
<1>6. f.etag = ETagAt(c, h)
    BY <1>1, <1>3 DEF StoreInv, JournalInv, JournalTracksStore, ChangesOf
<1> HIDE DEF P
<1>7. (CHOOSE g \in P : g.href = h /\ IsNewest(P, g)) = f
    BY <1>3, <1>4, <1>5
<1> QED  BY <1>3, <1>4, <1>6, <1>7 DEF Replayed, P

(* Hence what a replica knows plus what is pending is what is stored.      *)
LEMMA ReplayCatchesUp ==
    ASSUME SyncInv, NEW k \in Replicas, NEW h \in Hrefs
    PROVE  Replayed(Pending(k), h, known[k][h]) = ETagAt(Follows[k], h)
<1>1. CASE \E e \in Pending(k) : e.href = h
    BY <1>1, PendingNewest DEF SyncInv
<1>2. CASE \A e \in Pending(k) : e.href # h
    BY <1>2 DEF SyncInv, ReplicaInv, Replayed
<1> QED  BY <1>1, <1>2

(* Everything in the pending rows is at most the calendar's sync_seq, and  *)
(* the token returned is exactly that.                                     *)
LEMMA PulledToken ==
    ASSUME SyncInv, NEW k \in Replicas
    PROVE  NewestSeq(Pending(k), token[k]) = syncSeq[Follows[k]]
<1> DEFINE c == Follows[k]
           seqs == {e.seq : e \in Pending(k)}
<1>1. /\ c \in Calendars /\ token[k] \in Nat /\ syncSeq[c] \in Nat
      /\ token[k] <= syncSeq[c] /\ changes \subseteq Change
    BY SyncAssumption DEF SyncInv, SyncTypeOK, StoreTypeOK, ReplicaInv
<1>2. \A e \in Pending(k) : e.seq \in Nat /\ e.seq <= syncSeq[c]
    BY <1>1 DEF Pending, ChangesSince, SyncInv, StoreInv, JournalInv, JournalDense, Change
<1>3. CASE token[k] < syncSeq[c]
    <2>1. PICK e \in changes : e.cal = c /\ e.seq = syncSeq[c]
        BY <1>1, <1>3 DEF SyncInv, StoreInv, JournalInv, JournalDense
    <2>2. e \in Pending(k)
        BY <1>1, <1>3, <2>1 DEF Pending, ChangesSince
    <2>3. syncSeq[c] \in seqs /\ seqs # {} /\ seqs \subseteq Nat /\ \A i \in seqs : i <= syncSeq[c]
        BY <1>2, <2>1, <2>2
    <2>4. Pending(k) # {}
        BY <2>2
    <2>5. Max(seqs) \in seqs /\ \A i \in seqs : Max(seqs) >= i
        <3> HIDE DEF seqs
        <3> QED  BY <1>1, <2>3, MaxOfBounded
    <2>6. Max(seqs) = syncSeq[c]
        <3> HIDE DEF seqs
        <3>1. Max(seqs) \in Nat /\ Max(seqs) <= syncSeq[c] /\ Max(seqs) >= syncSeq[c]
            BY <2>3, <2>5
        <3> QED  BY <3>1, <1>1
    <2> QED  BY <2>4, <2>6 DEF NewestSeq
<1>4. CASE token[k] = syncSeq[c]
    <2>1. Pending(k) = {}
        BY <1>1, <1>2, <1>4 DEF Pending, ChangesSince
    <2> QED  BY <2>1, <1>4 DEF NewestSeq
<1> QED  BY <1>1, <1>3, <1>4

----------------------------------------------------------------------------
(* A write leaves every replica right: what it changed is now pending.     *)
LEMMA WriteKeepsReplicas ==
    ASSUME SyncInv, NEW c \in Calendars, NEW h \in Hrefs,
           NEW op \in {"added", "modified", "deleted"},
           NEW etag \in ETags \cup {NoETag},
           Writes(c, h, op, etag), UNCHANGED <<token, known>>
    PROVE  ReplicaInv'
<1>1. PICK n \in Change :
         /\ n.cal = c /\ n.href = h /\ n.seq = syncSeq[c] + 1
         /\ changes' = changes \cup {n}
    BY JournalStep DEF SyncInv, StoreInv, JournalInv, Writes, ETags
<1>2. syncSeq' = [syncSeq EXCEPT ![c] = @ + 1] /\ syncSeq \in [Calendars -> Nat]
    BY DEF Writes, Journal, SyncInv, SyncTypeOK, StoreTypeOK
<1> SUFFICES ASSUME NEW k \in Replicas
             PROVE  /\ token[k] <= syncSeq'[Follows[k]]
                    /\ \A g \in Hrefs : (\A e \in Pending(k)' : e.href # g)
                                          => known[k][g] = ETagAt(Follows[k], g)'
    BY DEF ReplicaInv
<1>3. /\ Follows[k] \in Calendars /\ token[k] \in Nat
      /\ token[k] <= syncSeq[Follows[k]]
    BY SyncAssumption DEF SyncInv, SyncTypeOK, ReplicaInv
<1>4. token[k] <= syncSeq'[Follows[k]]
    BY <1>2, <1>3
<1>5. ASSUME NEW g \in Hrefs, \A e \in Pending(k)' : e.href # g
      PROVE  known[k][g] = ETagAt(Follows[k], g)'
    <2>1. Follows[k] # c \/ g # h
        <3> SUFFICES ASSUME Follows[k] = c, g = h PROVE FALSE
            OBVIOUS
        <3>1. n \in Pending(k)'
            BY <1>1, <1>2, <1>3 DEF Pending, ChangesSince
        <3> QED  BY <3>1, <1>1, <1>5
    <2>2. Pending(k) \subseteq Pending(k)'
        BY <1>1 DEF Pending, ChangesSince
    <2>3. known[k][g] = ETagAt(Follows[k], g)
        BY <1>5, <2>2 DEF SyncInv, ReplicaInv
    <2> QED  BY <1>3, <2>1, <2>3 DEF Writes
<1> QED  BY <1>4, <1>5

(* A put keeps the store right and every replica's pending changes right.  *)
LEMMA PutKeepsSync ==
    ASSUME SyncInv, NEW c \in Calendars, NEW h \in Hrefs, NEW b \in Blob, Put(c, h, b)
    PROVE  SyncInv'
<1>1. PutObject(c, h, b) /\ UNCHANGED <<token, known>> /\ StoreInv
    BY DEF Put, SyncInv
<1>2. StoreInv'
    BY <1>1, PutStep
<1>3. ReplicaInv'
    <2> DEFINE op == IF ObjectsAt(c, h) = {} THEN "added" ELSE "modified"
    <2>1. op \in {"added", "modified", "deleted"} /\ ETag(b) \in ETags \cup {NoETag}
        BY DEF ETags
    <2>2. Writes(c, h, op, ETag(b))
        BY <1>1, PutWrites
    <2> HIDE DEF op
    <2> QED  BY <1>1, <2>1, <2>2, WriteKeepsReplicas
<1>4. SyncTypeOK'
    BY <1>1, <1>2 DEF SyncInv, SyncTypeOK, StoreInv
<1> QED  BY <1>2, <1>3, <1>4 DEF SyncInv

(* So does a deletion.                                                     *)
LEMMA DeleteKeepsSync ==
    ASSUME SyncInv, NEW c \in Calendars, NEW h \in Hrefs, Delete(c, h)
    PROVE  SyncInv'
<1>1. DeleteObject(c, h) /\ UNCHANGED <<token, known>> /\ StoreInv
    BY DEF Delete, SyncInv
<1>2. StoreInv'
    BY <1>1, DeleteStep
<1>3. ReplicaInv'
    BY <1>1, DeleteWrites, WriteKeepsReplicas
<1>4. SyncTypeOK'
    BY <1>1, <1>2 DEF SyncInv, SyncTypeOK, StoreInv
<1> QED  BY <1>2, <1>3, <1>4 DEF SyncInv

(* Pulling leaves the replica with the collection as stored.               *)
LEMMA PullEffect ==
    ASSUME SyncInv, NEW k \in Replicas, Pull(k)
    PROVE  /\ known' = [known EXCEPT ![k] = [h \in Hrefs |-> ETagAt(Follows[k], h)]]
           /\ token' = [token EXCEPT ![k] = syncSeq[Follows[k]]]
           /\ UNCHANGED storeVars
<1>1. /\ known' = [known EXCEPT ![k] =
                      [h \in Hrefs |-> Replayed(Pending(k), h, known[k][h])]]
      /\ token' = [token EXCEPT ![k] = NewestSeq(Pending(k), token[k])]
      /\ UNCHANGED storeVars
    BY DEF Pull, Pending, SyncInv, SyncTypeOK
<1>2. [h \in Hrefs |-> Replayed(Pending(k), h, known[k][h])]
        = [h \in Hrefs |-> ETagAt(Follows[k], h)]
    BY ReplayCatchesUp
<1> QED  BY <1>1, <1>2, PulledToken

(* An etag read from the store is an etag.                                 *)
LEMMA ETagAtType ==
    ASSUME StoreTypeOK, NEW c, NEW h
    PROVE  ETagAt(c, h) \in ETags \cup {NoETag}
<1>1. CASE ObjectsAt(c, h) = {}
    BY <1>1 DEF ETagAt
<1>2. CASE ObjectsAt(c, h) # {}
    <2>1. (CHOOSE o \in ObjectsAt(c, h) : TRUE) \in Object
        BY <1>2 DEF StoreTypeOK, ObjectsAt
    <2> QED  BY <1>2, <2>1 DEF ETagAt, ETags, Object
<1> QED  BY <1>1, <1>2

(* A pull keeps the invariant: the replica that pulled has nothing pending *)
(* and holds what is stored, the others are untouched.                     *)
LEMMA PullKeepsSync ==
    ASSUME SyncInv, NEW k \in Replicas, Pull(k)
    PROVE  SyncInv'
<1>1. /\ known' = [known EXCEPT ![k] = [h \in Hrefs |-> ETagAt(Follows[k], h)]]
      /\ token' = [token EXCEPT ![k] = syncSeq[Follows[k]]]
      /\ UNCHANGED storeVars
    BY PullEffect
<1>2. StoreInv' /\ (\A c, h : ETagAt(c, h)' = ETagAt(c, h))
    BY <1>1, StoreStutter DEF SyncInv, storeVars, ETagAt, ObjectsAt, ETag, NoETag
<1>3. SyncTypeOK'
    <2>1. [h \in Hrefs |-> ETagAt(Follows[k], h)] \in [Hrefs -> ETags \cup {NoETag}]
        BY ETagAtType DEF SyncInv, SyncTypeOK
    <2>2. syncSeq[Follows[k]] \in Nat
        BY SyncAssumption DEF SyncInv, SyncTypeOK, StoreTypeOK
    <2> QED  BY <1>1, <1>2, <2>1, <2>2 DEF SyncInv, SyncTypeOK, StoreInv
<1>4. ReplicaInv'
    <2> SUFFICES ASSUME NEW r \in Replicas
                 PROVE  /\ token'[r] <= syncSeq'[Follows[r]]
                        /\ \A h \in Hrefs : (\A e \in Pending(r)' : e.href # h)
                                              => known'[r][h] = ETagAt(Follows[r], h)'
        BY DEF ReplicaInv
    <2>1. CASE r = k
        <3>1. syncSeq[Follows[k]] \in Nat /\ syncSeq' = syncSeq
            BY <1>1, SyncAssumption DEF SyncInv, SyncTypeOK, StoreTypeOK, storeVars
        <3>2. token'[k] = syncSeq[Follows[k]]
            BY <1>1 DEF SyncInv, SyncTypeOK
        <3>3. known'[k] = [h \in Hrefs |-> ETagAt(Follows[k], h)]
            BY <1>1 DEF SyncInv, SyncTypeOK
        <3> QED  BY <2>1, <1>2, <3>1, <3>2, <3>3
    <2>2. CASE r # k
        <3>1. token'[r] = token[r] /\ known'[r] = known[r] /\ Pending(r)' = Pending(r)
            BY <2>2, <1>1 DEF SyncInv, SyncTypeOK, Pending, ChangesSince, storeVars
        <3> QED  BY <3>1, <1>1, <1>2 DEF SyncInv, ReplicaInv, storeVars
    <2> QED  BY <2>1, <2>2
<1> QED  BY <1>2, <1>3, <1>4 DEF SyncInv

(* Empty collections, and replicas that know of nothing.                   *)
LEMMA SyncStart == SyncInit => SyncInv
<1> SUFFICES ASSUME SyncInit PROVE SyncInv
    OBVIOUS
<1>1. StoreInv /\ StoreTypeOK
    BY StoreStart DEF SyncInit, StoreInv
<1>2. SyncTypeOK
    BY <1>1 DEF SyncInit, SyncTypeOK
<1>3. ReplicaInv
    BY SyncAssumption DEF SyncInit, StoreInit, ReplicaInv, ETagAt, ObjectsAt
<1> QED  BY <1>1, <1>2, <1>3 DEF SyncInv

(* Nothing changes, nothing breaks.                                        *)
LEMMA SyncStutter == SyncInv /\ UNCHANGED vars => SyncInv'
<1> SUFFICES ASSUME SyncInv, UNCHANGED vars PROVE SyncInv'
    OBVIOUS
<1>1. StoreInv'
    BY StoreStutter DEF SyncInv, vars, storeVars
<1>2. SyncTypeOK' /\ ReplicaInv'
    BY DEF SyncInv, SyncTypeOK, StoreTypeOK, ReplicaInv, Pending, ChangesSince,
           ETagAt, ObjectsAt, ETag, NoETag, vars
<1> QED  BY <1>1, <1>2 DEF SyncInv

(* Every step of the store and its replicas keeps the invariant.           *)
LEMMA SyncStep == SyncInv /\ [SyncNext]_vars => SyncInv'
BY PutKeepsSync, DeleteKeepsSync, PullKeepsSync, SyncStutter DEF SyncNext

(* The inductive invariant of the store with its replicas.                 *)
THEOREM SyncInvariant == SyncSpec => []SyncInv
BY SyncStart, SyncStep, PTL DEF SyncSpec

(* Rows, tokens and what replicas hold keep their types.                   *)
THEOREM SyncTypeCorrect == SyncSpec => []SyncTypeOK
<1>1. SyncInv => SyncTypeOK
    BY DEF SyncInv
<1> QED  BY <1>1, SyncInvariant, PTL

(* A token never skips a change: the changes ChangesSince gives for it     *)
(* turn what the replica holds into what is stored.                        *)
THEOREM NoChangeSkipped == SyncSpec => []PendingChangesSuffice
<1>1. SyncInv => PendingChangesSuffice
    BY ReplayCatchesUp DEF PendingChangesSuffice, Pending
<1> QED  BY <1>1, SyncInvariant, PTL

----------------------------------------------------------------------------
(* A put or a deletion is a Change of the collection.                      *)
LEMMA WriteIsChange ==
    ASSUME NEW c \in Calendars, NEW h \in Hrefs, NEW op,
           NEW etag \in ETags \cup {NoETag},
           Writes(c, h, op, etag), UNCHANGED known
    PROVE  Live!Next
<1>1. Held' = [Held EXCEPT ![c][h] = etag]
    <2>1. [Held EXCEPT ![c][h] = etag]
            = [d \in Calendars |-> [g \in Hrefs |->
                 IF d = c /\ g = h THEN etag ELSE ETagAt(d, g)]]
        BY DEF Held
    <2>2. \A d \in Calendars, g \in Hrefs :
            ETagAt(d, g)' = IF d = c /\ g = h THEN etag ELSE ETagAt(d, g)
        BY DEF Writes
    <2>3. Held' = [d \in Calendars |-> [g \in Hrefs |-> ETagAt(d, g)']]
        BY DEF Held
    <2> QED  BY <2>1, <2>2, <2>3
<1>2. Live!Change(c, h)
    BY <1>1 DEF Live!Change, Held
<1> QED  BY <1>2 DEF Live!Next

(* Every step of the journal's clients is a step of LiveCollection: a pull *)
(* is a Refresh.                                                           *)
LEMMA StepImplements ==
    ASSUME SyncInv, [SyncNext]_vars
    PROVE  [Live!Next]_<<Held, known>>
<1>1. ASSUME NEW c \in Calendars, NEW h \in Hrefs, NEW b \in Blob, Put(c, h, b)
      PROVE  Live!Next
    <2>1. Writes(c, h, IF ObjectsAt(c, h) = {} THEN "added" ELSE "modified", ETag(b))
        BY <1>1, PutWrites DEF Put, SyncInv
    <2>2. ETag(b) \in ETags \cup {NoETag} /\ UNCHANGED known
        BY <1>1 DEF ETags, Put
    <2> QED  BY <2>1, <2>2, WriteIsChange
<1>2. ASSUME NEW c \in Calendars, NEW h \in Hrefs, Delete(c, h)
      PROVE  Live!Next
    BY <1>2, DeleteWrites, WriteIsChange DEF Delete
<1>3. ASSUME NEW k \in Replicas, Pull(k)
      PROVE  Live!Next
    <2>1. known' = [known EXCEPT ![k] = Held[Follows[k]]]
        BY <1>3, PullEffect, SyncAssumption DEF Held
    <2>2. UNCHANGED Held
        BY <1>3 DEF Pull, storeVars, Held, ETagAt, ObjectsAt, ETag, NoETag
    <2> QED  BY <2>1, <2>2 DEF Live!Next, Live!Refresh, Held
<1>4. UNCHANGED vars => UNCHANGED <<Held, known>>
    BY DEF vars, Held, ETagAt, ObjectsAt, ETag, NoETag
<1> QED  BY <1>1, <1>2, <1>3, <1>4 DEF SyncNext

(* The initial states are initial states of LiveCollection.                *)
LEMMA StartImplements == SyncInit => Live!Init
BY DEF SyncInit, StoreInit, Live!Init, Live!Empty, Held, ETagAt, ObjectsAt

(* Synchronising from the journal implements reading the live collection.  *)
THEOREM SyncImplements == SyncSpec => ImplementsLiveCollection
<1>1. SyncInv /\ [SyncNext]_vars => [Live!Next]_<<Held, known>>
    BY StepImplements
<1>2. SyncSpec => Live!Init /\ [][Live!Next]_<<Held, known>>
    BY <1>1, StartImplements, SyncInvariant, PTL DEF SyncSpec
<1> QED  BY <1>2 DEF ImplementsLiveCollection, Live!Spec
=============================================================================
