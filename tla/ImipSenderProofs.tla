-------------------------- MODULE ImipSenderProofs --------------------------
(***************************************************************************)
(* Proofs about ImipSender.  What a drain decides, it decides from its     *)
(* copy of the rows; SenderInv says that with one drainer the copy is      *)
(* always as good as the rows, and accounts for every delivery: by a row   *)
(* marked sent, an outcome still to be marked, a late error or a fault.    *)
(***************************************************************************)
EXTENDS ImipSender, FiniteSetTheorems, TLAPS

(* One process drains the queue. *)
OneDrainer == Drainers = {Server}

(* The relay took m and d has yet to mark it. *)
OkToMark(d, m) ==
    outcome[d] = "ok" /\ \E e \in batch[d] : IsCurrent(d, e) /\ e.id = m

AcceptedIfOk ==
    \A d \in Drainers : \A e \in batch[d] :
        outcome[d] = "ok" /\ IsCurrent(d, e) => accepted[e.id] > 0

(* An outcome is that of an entry still in the batch. *)
OutcomeInBatch == \A d \in Drainers : batch[d] = {} => outcome[d] = "none"

UntriedAtZero ==
    \A m \in Messages : queue[m].status \in {"absent", "pending"} => queue[m].attempts = 0

DeliveriesAccounted ==
    \A m \in Messages :
        \/ accepted[m] <= lateErrors[m] + faults
        \/ /\ accepted[m] <= 1 + lateErrors[m] + faults
           /\ queue[m].status = "sent" \/ OkToMark(Server, m)

SenderInv ==
    /\ TypeOK
    /\ SentWasAccepted
    /\ AcceptedIfOk
    /\ OutcomeInBatch

SettledNotWaiting ==
    \A m \in Messages : queue[m].status \in Settled => queue[m].wait = 0

OneDrainerInv ==
    /\ SettledNotWaiting
    /\ BatchFresh
    /\ UntriedAtZero
    /\ GivenUpAtLimit
    /\ DeliveriesAccounted

----------------------------------------------------------------------------
(* The backoff of sender.go:120 is a number of minutes: a power of two is  *)
(* a natural number, being the number of subsets of an interval.           *)
LEMMA BackoffIsNat == ASSUME NEW n \in Nat PROVE Backoff(n) \in Nat
<1>1. IsFiniteSet(1 .. n) /\ Cardinality(1 .. n) = n
  BY FS_Interval
<1>2. IsFiniteSet(SUBSET (1 .. n)) /\ Cardinality(SUBSET (1 .. n)) = 2 ^ n
  BY <1>1, FS_SUBSET
<1> QED
  BY <1>2, FS_CardinalityType DEF Backoff

(* The head of a batch is one entry: what d works on is determined.        *)
LEMMA CurrentUnique ==
    ASSUME TypeOK, BatchFresh, NEW d \in Drainers,
           NEW e, NEW f, IsCurrent(d, e), f \in batch[d], f.id = e.id
    PROVE  f = e
<1>1. e \in batch[d] /\ e \in [id : Messages, attempts : Nat] /\ f \in [id : Messages, attempts : Nat]
  BY DEF TypeOK, IsCurrent
<1>2. e.attempts = f.attempts
  BY <1>1 DEF BatchFresh
<1> QED
  BY <1>1, <1>2

----------------------------------------------------------------------------
(* Nothing is queued, read or sent at the start.                           *)
LEMMA SenderStart == Init => SenderInv
BY SenderAssumption DEF Init, SenderInv, TypeOK, SentWasAccepted, AcceptedIfOk, OutcomeInBatch, Statuses

(* Whoever drains, a step keeps the types and lets a row be marked sent    *)
(* only after the relay took the message.                                  *)
LEMMA SenderStep == SenderInv /\ [Next]_vars => SenderInv'
<1> SUFFICES ASSUME SenderInv, [Next]_vars PROVE SenderInv'
  OBVIOUS
<1> USE DEF SenderInv
<1>1. ASSUME NEW m \in Messages, Enqueue(m) PROVE SenderInv'
  BY <1>1 DEF Enqueue, TypeOK, SentWasAccepted, AcceptedIfOk, OutcomeInBatch, IsCurrent, Statuses
<1>2. CASE Tick
  <2>1. queue' = [m \in Messages |-> [queue[m] EXCEPT !.wait = IF @ > 0 THEN @ - 1 ELSE 0]]
    BY <1>2 DEF Tick
  <2>2. \A m \in Messages : queue'[m].status = queue[m].status
    BY <2>1 DEF TypeOK
  <2>3. TypeOK'
    BY <1>2, <2>1 DEF Tick, TypeOK
  <2> QED
    BY <1>2, <2>2, <2>3 DEF Tick, SentWasAccepted, AcceptedIfOk, OutcomeInBatch, IsCurrent
<1>3. ASSUME NEW d \in Drainers, DueIMIP(d) PROVE SenderInv'
  <2>1. {[id |-> m, attempts |-> queue[m].attempts] : m \in OldestDue}
          \subseteq [id : Messages, attempts : Nat]
    <3> SUFFICES ASSUME NEW m \in OldestDue
                 PROVE  [id |-> m, attempts |-> queue[m].attempts] \in [id : Messages, attempts : Nat]
      OBVIOUS
    <3>1. m \in Messages
      BY DEF OldestDue, Due
    <3> QED
      BY <3>1 DEF TypeOK
  <2>2. TypeOK'
    BY <1>3, <2>1 DEF DueIMIP, TypeOK
  <2>3. outcome[d] = "none" /\ outcome' = outcome /\ accepted' = accepted
        /\ \A c \in Drainers \ {d} : batch'[c] = batch[c]
    BY <1>3 DEF DueIMIP, OutcomeInBatch, TypeOK
  <2>4. AcceptedIfOk' /\ OutcomeInBatch'
    BY <2>3 DEF AcceptedIfOk, OutcomeInBatch, IsCurrent
  <2> QED
    BY <1>3, <2>2, <2>4 DEF DueIMIP, SentWasAccepted
<1>4. ASSUME NEW d \in Drainers, NEW e \in batch[d], SendOne(d, e) PROVE SenderInv'
  <2>1. /\ TypeOK'
        /\ UNCHANGED <<queue, batch, accepted>>
        /\ outcome'[d] = "sending" /\ batch[d] # {}
        /\ \A c \in Drainers \ {d} : outcome'[c] = outcome[c]
    BY <1>4 DEF SendOne, TypeOK
  <2>2. AcceptedIfOk' /\ OutcomeInBatch'
    BY <2>1 DEF AcceptedIfOk, OutcomeInBatch, IsCurrent
  <2> QED
    BY <2>1, <2>2 DEF SentWasAccepted
<1>4a. ASSUME NEW d \in Drainers, NEW e \in batch[d], RelayEnds(d, e) PROVE SenderInv'
  <2>1. e \in [id : Messages, attempts : Nat]
    BY DEF TypeOK
  <2>2. TypeOK'
    BY <1>4a, <2>1 DEF RelayEnds, TypeOK
  <2>3. /\ \A m \in Messages : accepted'[m] >= accepted[m]
        /\ outcome'[d] = "ok" => accepted'[e.id] > 0
        /\ \A c \in Drainers \ {d} : outcome'[c] = outcome[c]
        /\ batch' = batch /\ queue' = queue
    BY <1>4a, <2>1 DEF RelayEnds, TypeOK
  <2>4. AcceptedIfOk'
    <3> SUFFICES ASSUME NEW c \in Drainers, NEW f \in batch[c],
                        outcome'[c] = "ok", IsCurrent(c, f)
                 PROVE  accepted'[f.id] > 0
      BY <2>3 DEF AcceptedIfOk, IsCurrent
    <3>1. f \in [id : Messages, attempts : Nat]
      BY DEF TypeOK
    <3>2. CASE c = d
      <4>1. e.id <= f.id /\ f.id <= e.id
        BY <1>4a, <3>2 DEF RelayEnds, IsCurrent
      <4>2. e.id \in Nat /\ f.id \in Nat
        <5>1. e.id \in Messages /\ f.id \in Messages
          BY <2>1, <3>1
        <5> QED
          BY <5>1, SenderAssumption
      <4>3. e.id = f.id
        BY <4>1, <4>2
      <4> QED
        BY <2>3, <3>2, <4>3
    <3>3. CASE c # d
      <4>1. accepted[f.id] > 0
        BY <2>3, <3>3 DEF AcceptedIfOk
      <4> QED
        BY <2>2, <2>3, <3>1, <4>1 DEF TypeOK
    <3> QED
      BY <3>2, <3>3
  <2>5. SentWasAccepted'
    BY <2>2, <2>3 DEF SentWasAccepted, TypeOK
  <2>6. OutcomeInBatch'
    <3>1. batch[d] # {}
      OBVIOUS
    <3> QED
      BY <2>3, <3>1 DEF OutcomeInBatch
  <2> QED
    BY <2>2, <2>4, <2>5, <2>6
<1>5. ASSUME NEW d \in Drainers, NEW e \in batch[d], MoveOn(d, e),
             queue' \in [Messages -> [status : Statuses, attempts : Nat, wait : Nat]],
             \A m \in Messages : queue'[m].status = "sent" =>
                 queue[m].status = "sent" \/ (m = e.id /\ outcome[d] = "ok" /\ IsCurrent(d, e)),
             faults' \in 0 .. MaxFaults
      PROVE  SenderInv'
  <2>1. /\ TypeOK'
        /\ accepted' = accepted
        /\ outcome'[d] = "none"
        /\ \A c \in Drainers \ {d} : outcome'[c] = outcome[c] /\ batch'[c] = batch[c]
    BY <1>5 DEF MoveOn, TypeOK
  <2>2. AcceptedIfOk' /\ OutcomeInBatch'
    BY <2>1 DEF AcceptedIfOk, OutcomeInBatch, IsCurrent
  <2>3. SentWasAccepted'
    BY <1>5, <2>1 DEF SentWasAccepted, AcceptedIfOk
  <2> QED
    BY <2>1, <2>2, <2>3
<1>6. ASSUME NEW d \in Drainers, NEW e \in batch[d],
             MarkIMIPSent(d, e) \/ HandleFailure(d, e) \/ MarkRefused(d, e)
      PROVE  SenderInv'
  <2>1. e \in [id : Messages, attempts : Nat] /\ MoveOn(d, e)
    BY <1>6 DEF TypeOK, MarkIMIPSent, HandleFailure, MarkRefused
  <2>2. CASE MarkIMIPSent(d, e)
    BY <1>5, <2>1, <2>2 DEF MarkIMIPSent, TypeOK, Statuses
  <2>3. CASE HandleFailure(d, e)
    <3>1. Backoff(e.attempts) \in Nat
      BY <2>1, BackoffIsNat
    <3>2. /\ queue' \in [Messages -> [status : Statuses, attempts : Nat, wait : Nat]]
          /\ \A m \in Messages : queue'[m].status = "sent" =>
                 queue[m].status = "sent" \/ (m = e.id /\ outcome[d] = "ok" /\ IsCurrent(d, e))
      BY <2>1, <2>3, <3>1 DEF HandleFailure, Failed, TypeOK, Statuses
    <3>3. faults' \in 0 .. MaxFaults
      BY <2>3 DEF HandleFailure, TypeOK
    <3> QED
      BY <1>5, <2>1, <3>2, <3>3
  <2>4. CASE MarkRefused(d, e)
    <3>1. faults' \in 0 .. MaxFaults
      BY <2>4, SenderAssumption DEF MarkRefused, TypeOK
    <3>2. queue' \in [Messages -> [status : Statuses, attempts : Nat, wait : Nat]]
          /\ \A m \in Messages : queue'[m].status = "sent" =>
                 queue[m].status = "sent" \/ (m = e.id /\ outcome[d] = "ok" /\ IsCurrent(d, e))
      BY <2>4 DEF MarkRefused, TypeOK
    <3> QED
      BY <1>5, <2>1, <3>1, <3>2
  <2> QED
    BY <1>6, <2>2, <2>3, <2>4
<1>7. ASSUME NEW d \in Drainers, Crash(d) PROVE SenderInv'
  <2>1. /\ TypeOK'
        /\ accepted' = accepted /\ queue' = queue
        /\ outcome'[d] = "none"
        /\ \A c \in Drainers \ {d} : outcome'[c] = outcome[c] /\ batch'[c] = batch[c]
    BY <1>7, SenderAssumption DEF Crash, TypeOK
  <2> QED
    BY <2>1 DEF AcceptedIfOk, OutcomeInBatch, IsCurrent, SentWasAccepted
<1>8. CASE UNCHANGED vars
  BY <1>8 DEF vars, TypeOK, SentWasAccepted, AcceptedIfOk, OutcomeInBatch, IsCurrent
<1> QED
  BY <1>1, <1>2, <1>3, <1>4, <1>4a, <1>6, <1>7, <1>8 DEF Next, Drain, RelayAnswers

(* Types hold in every state, for any number of drainers and messages.     *)
THEOREM SenderInvariant == Spec => []SenderInv
<1>1. Init => SenderInv
  BY SenderStart
<1>2. SenderInv /\ [Next]_vars => SenderInv'
  BY SenderStep
<1> QED
  BY <1>1, <1>2, PTL DEF Spec

(* The queue, the batches and the outcomes keep their types.               *)
THEOREM SenderTypeCorrect == Spec => []TypeOK
BY SenderInvariant, PTL DEF SenderInv

(* MarkIMIPSent follows only on a send that went through: no message is    *)
(* marked sent that the relay has not taken, whoever drains.               *)
THEOREM SentMeansAccepted == Spec => []SentWasAccepted
BY SenderInvariant, PTL DEF SenderInv

----------------------------------------------------------------------------
(* With one drainer, what the rows and the outcome must say before and     *)
(* after a mark: only the entry at the head of the batch is at stake.      *)
LEMMA MarkStep ==
    ASSUME OneDrainer, SenderInv, OneDrainerInv,
           NEW e \in batch[Server], IsCurrent(Server, e), MoveOn(Server, e),
           NEW row \in [status : Statuses, attempts : Nat, wait : Nat],
           queue' = [queue EXCEPT ![e.id] = row],
           row.status \notin {"absent", "pending"} \/ row = queue[e.id],
           row.status \in Settled => row.wait = 0,
           row.attempts <= MaxAttempts,
           row.status = "failed_final" => row.attempts = MaxAttempts,
           row.status = "failed_retry" => row.attempts < MaxAttempts,
           faults' \in Nat, faults' >= faults,
           outcome[Server] = "ok" => row.status = "sent" \/ faults' = faults + 1
    PROVE  OneDrainerInv'
<1> USE DEF OneDrainerInv, SenderInv
<1>1. /\ e \in [id : Messages, attempts : Nat]
      /\ Server \in Drainers
      /\ batch[Server] \subseteq [id : Messages, attempts : Nat]
  BY SenderAssumption DEF TypeOK
<1>2. /\ batch' = [batch EXCEPT ![Server] = @ \ {e}]
      /\ outcome' = [outcome EXCEPT ![Server] = "none"]
      /\ accepted' = accepted /\ lateErrors' = lateErrors
  BY DEF MoveOn
<1>3. batch'[Server] = batch[Server] \ {e} /\ outcome'[Server] = "none"
  BY <1>1, <1>2 DEF TypeOK
<1>4. queue'[e.id] = row /\ \A m \in Messages \ {e.id} : queue'[m] = queue[m]
  BY <1>1 DEF TypeOK
<1>5. BatchFresh'
  <2> SUFFICES ASSUME NEW f \in batch[Server] \ {e}
               PROVE  /\ queue'[f.id].status \in {"pending", "failed_retry"}
                      /\ queue'[f.id].wait = 0
                      /\ queue'[f.id].attempts = f.attempts
    BY <1>3 DEF BatchFresh, OneDrainer
  <2>1. f.id # e.id
    BY <1>1, CurrentUnique
  <2>2. f.id \in Messages
    BY <1>1
  <2> QED
    BY <1>1, <1>4, <2>1, <2>2 DEF BatchFresh
<1>6. UntriedAtZero' /\ GivenUpAtLimit' /\ SettledNotWaiting'
  BY <1>1, <1>4 DEF UntriedAtZero, GivenUpAtLimit, SettledNotWaiting
<1>7. DeliveriesAccounted'
  <2> SUFFICES ASSUME NEW m \in Messages
               PROVE  \/ accepted[m] <= lateErrors[m] + faults'
                      \/ /\ accepted[m] <= 1 + lateErrors[m] + faults'
                         /\ queue'[m].status = "sent"
    BY <1>2 DEF DeliveriesAccounted
  <2>1. accepted[m] \in Nat /\ lateErrors[m] \in Nat /\ faults \in Nat
    BY DEF TypeOK
  <2>2. CASE accepted[m] <= lateErrors[m] + faults
    BY <2>1, <2>2
  <2>3. CASE accepted[m] <= 1 + lateErrors[m] + faults /\ queue[m].status = "sent"
    <3>1. queue[e.id].status # "sent"
      BY <1>1 DEF BatchFresh
    <3>2. queue'[m].status = "sent"
      BY <1>4, <2>3, <3>1
    <3> QED
      BY <2>1, <2>3, <3>2
  <2>4. CASE accepted[m] <= 1 + lateErrors[m] + faults /\ OkToMark(Server, m)
    <3>1. PICK f \in batch[Server] : IsCurrent(Server, f) /\ f.id = m
      BY <2>4 DEF OkToMark
    <3>2. f.id <= e.id /\ e.id <= f.id
      BY <3>1 DEF IsCurrent
    <3>3. f.id \in Nat /\ e.id \in Nat
      BY <1>1, SenderAssumption
    <3>4. m = e.id
      BY <3>1, <3>2, <3>3
    <3>5. row.status = "sent" \/ faults' = faults + 1
      BY <2>4 DEF OkToMark
    <3> QED
      BY <1>4, <2>1, <2>4, <3>4, <3>5
  <2> QED
    BY <2>2, <2>3, <2>4 DEF DeliveriesAccounted
<1> QED
  BY <1>5, <1>6, <1>7

(* With one drainer, every step keeps its batch as good as the rows and    *)
(* every delivery accounted for.                                           *)
LEMMA OneDrainerStep ==
    ASSUME OneDrainer, SenderInv, OneDrainerInv, [Next]_vars
    PROVE  OneDrainerInv'
<1> USE DEF OneDrainerInv, SenderInv
<1>0. SenderInv' /\ Server \in Drainers
  BY SenderStep, SenderAssumption
<1>1. ASSUME NEW m \in Messages, Enqueue(m) PROVE OneDrainerInv'
  <2>1. /\ queue[m].status = "absent" /\ queue[m].attempts = 0
        /\ queue'[m] = [queue[m] EXCEPT !.status = "pending"]
        /\ \A n \in Messages \ {m} : queue'[n] = queue[n]
        /\ batch' = batch /\ outcome' = outcome /\ faults' = faults
        /\ accepted' = accepted /\ lateErrors' = lateErrors
    BY <1>1 DEF Enqueue, TypeOK, UntriedAtZero
  <2>2. queue'[m].status = "pending" /\ queue'[m].attempts = 0
    BY <2>1 DEF TypeOK
  <2>3. BatchFresh'
    <3> SUFFICES ASSUME NEW d \in Drainers, NEW e \in batch[d]
                 PROVE  /\ queue'[e.id].status \in {"pending", "failed_retry"}
                        /\ queue'[e.id].wait = 0
                        /\ queue'[e.id].attempts = e.attempts
      BY <2>1 DEF BatchFresh
    <3>1. e.id \in Messages \ {m}
      BY <2>1 DEF BatchFresh, TypeOK
    <3> QED
      BY <2>1, <3>1 DEF BatchFresh
  <2>4. UntriedAtZero' /\ GivenUpAtLimit' /\ SettledNotWaiting'
    <3>1. 0 <= MaxAttempts
      BY SenderAssumption
    <3>2. UntriedAtZero'
      BY <2>1, <2>2 DEF UntriedAtZero
    <3>3. GivenUpAtLimit'
      BY <2>1, <2>2, <3>1 DEF GivenUpAtLimit
    <3>4. SettledNotWaiting'
      BY <2>1, <2>2 DEF SettledNotWaiting, Settled
    <3> QED
      BY <3>2, <3>3, <3>4
  <2>5. DeliveriesAccounted'
    <3>1. \A n \in Messages : queue[n].status = "sent" => queue'[n].status = "sent"
      BY <2>1
    <3> QED
      BY <2>1, <3>1 DEF DeliveriesAccounted, OkToMark, IsCurrent
  <2> QED
    BY <2>3, <2>4, <2>5
<1>2. CASE Tick
  <2>1. /\ queue' = [m \in Messages |-> [queue[m] EXCEPT !.wait = IF @ > 0 THEN @ - 1 ELSE 0]]
        /\ batch' = batch /\ outcome' = outcome /\ faults' = faults
        /\ accepted' = accepted /\ lateErrors' = lateErrors
    BY <1>2 DEF Tick
  <2>2. \A m \in Messages :
          /\ queue'[m].status = queue[m].status
          /\ queue'[m].attempts = queue[m].attempts
          /\ queue[m].wait = 0 => queue'[m].wait = 0
    BY <2>1 DEF TypeOK
  <2>3. BatchFresh'
    BY <2>1, <2>2 DEF BatchFresh, TypeOK
  <2>4. UntriedAtZero' /\ GivenUpAtLimit' /\ SettledNotWaiting'
    BY <2>2 DEF UntriedAtZero, GivenUpAtLimit, SettledNotWaiting
  <2>5. DeliveriesAccounted'
    BY <2>1, <2>2 DEF DeliveriesAccounted, OkToMark, IsCurrent
  <2> QED
    BY <2>3, <2>4, <2>5
<1>3. ASSUME NEW d \in Drainers, DueIMIP(d) PROVE OneDrainerInv'
  <2>1. /\ d = Server /\ outcome[Server] = "none"
        /\ batch'[Server] = {[id |-> m, attempts |-> queue[m].attempts] : m \in OldestDue}
        /\ queue' = queue /\ outcome' = outcome /\ faults' = faults
        /\ accepted' = accepted /\ lateErrors' = lateErrors
    BY <1>3 DEF DueIMIP, OneDrainer, TypeOK, OutcomeInBatch
  <2>2. BatchFresh'
    <3> SUFFICES ASSUME NEW m \in OldestDue
                 PROVE  /\ queue[m].status \in {"pending", "failed_retry"}
                        /\ queue[m].wait = 0
      BY <2>1 DEF BatchFresh, OneDrainer
    <3> QED
      BY DEF OldestDue, Due
  <2>3. UntriedAtZero' /\ GivenUpAtLimit' /\ SettledNotWaiting' /\ DeliveriesAccounted'
    BY <2>1 DEF UntriedAtZero, GivenUpAtLimit, SettledNotWaiting, DeliveriesAccounted, OkToMark
  <2> QED
    BY <2>2, <2>3
<1>4. ASSUME NEW d \in Drainers, NEW e \in batch[d], SendOne(d, e) PROVE OneDrainerInv'
  <2>1. /\ d = Server /\ outcome[Server] = "none"
        /\ UNCHANGED <<queue, batch, accepted, lateErrors, faults>>
    BY <1>4 DEF SendOne, OneDrainer
  <2>2. BatchFresh' /\ UntriedAtZero' /\ GivenUpAtLimit' /\ SettledNotWaiting'
    BY <2>1 DEF BatchFresh, UntriedAtZero, GivenUpAtLimit, SettledNotWaiting
  <2>3. DeliveriesAccounted'
    BY <2>1 DEF DeliveriesAccounted, OkToMark
  <2> QED
    BY <2>2, <2>3
<1>4a. ASSUME NEW d \in Drainers, NEW e \in batch[d], RelayEnds(d, e) PROVE OneDrainerInv'
  <2>1. /\ d = Server /\ outcome[Server] = "sending" /\ IsCurrent(Server, e)
        /\ e.id \in Messages
        /\ queue' = queue /\ batch' = batch /\ faults' = faults
    BY <1>4a DEF RelayEnds, OneDrainer, TypeOK
  <2>2. BatchFresh' /\ UntriedAtZero' /\ GivenUpAtLimit' /\ SettledNotWaiting'
    BY <2>1 DEF BatchFresh, UntriedAtZero, GivenUpAtLimit, SettledNotWaiting
  <2>3. DeliveriesAccounted'
    <3> SUFFICES ASSUME NEW m \in Messages
                 PROVE  \/ accepted'[m] <= lateErrors'[m] + faults
                        \/ /\ accepted'[m] <= 1 + lateErrors'[m] + faults
                           /\ queue[m].status = "sent" \/ OkToMark(Server, m)'
      BY <2>1 DEF DeliveriesAccounted
    <3>1. accepted[m] \in Nat /\ lateErrors[m] \in Nat /\ faults \in Nat
      BY DEF TypeOK
    <3>2. ~OkToMark(Server, m)
      BY <2>1 DEF OkToMark
    <3>3. CASE m # e.id
      <4>1. accepted'[m] = accepted[m] /\ lateErrors'[m] = lateErrors[m]
        BY <1>4a, <2>1, <3>3 DEF RelayEnds, TypeOK
      <4> QED
        BY <3>2, <4>1 DEF DeliveriesAccounted
    <3>4. CASE m = e.id
      <4>1. queue[m].status # "sent"
        BY <2>1, <3>4 DEF BatchFresh
      <4>2. accepted[m] <= lateErrors[m] + faults
        BY <3>2, <4>1 DEF DeliveriesAccounted
      <4>3. CASE outcome'[Server] = "ok"
        <5>1. OkToMark(Server, m)'
          BY <2>1, <3>4, <4>3 DEF OkToMark, IsCurrent
        <5>2. accepted'[m] = accepted[m] + 1 /\ lateErrors'[m] = lateErrors[m]
          BY <1>0, <1>4a, <2>1, <3>4, <4>3 DEF RelayEnds, TypeOK
        <5> QED
          BY <3>1, <4>2, <5>1, <5>2
      <4>4. CASE outcome'[Server] # "ok"
        <5>1. \/ accepted'[m] = accepted[m] /\ lateErrors'[m] = lateErrors[m]
              \/ accepted'[m] = accepted[m] + 1 /\ lateErrors'[m] = lateErrors[m] + 1
          BY <1>0, <1>4a, <2>1, <3>4, <4>4 DEF RelayEnds, TypeOK
        <5> QED
          BY <3>1, <4>2, <5>1
      <4> QED
        BY <4>3, <4>4
    <3> QED
      BY <3>3, <3>4
  <2> QED
    BY <2>2, <2>3
<1>5. ASSUME NEW d \in Drainers, NEW e \in batch[d],
             MarkIMIPSent(d, e) \/ HandleFailure(d, e) \/ MarkRefused(d, e)
      PROVE  OneDrainerInv'
  <2>1. /\ d = Server /\ e \in batch[Server] /\ MoveOn(Server, e) /\ IsCurrent(Server, e)
        /\ e \in [id : Messages, attempts : Nat]
    BY <1>5 DEF MarkIMIPSent, HandleFailure, MarkRefused, OneDrainer, TypeOK
  <2>2. /\ queue[e.id] \in [status : Statuses, attempts : Nat, wait : Nat]
        /\ queue[e.id].status \in {"pending", "failed_retry"}
        /\ queue[e.id].wait = 0
        /\ queue[e.id].attempts = e.attempts
    BY <2>1, SenderAssumption DEF TypeOK, BatchFresh
  <2>9. /\ e.attempts < MaxAttempts
         /\ MaxAttempts \in Nat \ {0} /\ e.attempts \in Nat
         /\ faults \in Nat
    <3>1. e.id \in Messages /\ e.attempts \in Nat
      BY <2>1
    <3>2. MaxAttempts \in Nat \ {0} /\ faults \in Nat
      BY SenderAssumption DEF TypeOK
    <3>3. CASE queue[e.id].status = "pending"
      BY <2>2, <3>1, <3>2, <3>3 DEF UntriedAtZero
    <3>4. CASE queue[e.id].status = "failed_retry"
      BY <2>2, <3>1, <3>2, <3>4 DEF GivenUpAtLimit
    <3> QED
      BY <2>2, <3>1, <3>2, <3>3, <3>4
  <2>3. CASE MarkIMIPSent(Server, e)
    <3> DEFINE row == [status |-> "sent", attempts |-> queue[e.id].attempts + 1, wait |-> queue[e.id].wait]
    <3>1. queue' = [queue EXCEPT ![e.id] = row] /\ faults' = faults
      BY <2>1, <2>3 DEF MarkIMIPSent, TypeOK
    <3>2. /\ row \in [status : Statuses, attempts : Nat, wait : Nat]
          /\ row.status = "sent" /\ row.wait = 0 /\ row.attempts <= MaxAttempts
      <4>1. row = [status |-> "sent", attempts |-> e.attempts + 1, wait |-> 0]
        BY <2>2
      <4>2. e.attempts + 1 \in Nat /\ e.attempts + 1 <= MaxAttempts
        BY <2>9
      <4> HIDE DEF row
      <4> QED
        BY <4>1, <4>2 DEF Statuses
    <3> HIDE DEF row, SenderInv, OneDrainerInv
    <3>3. /\ row.status \notin {"absent", "pending"} \/ row = queue[e.id]
          /\ row.status \in Settled => row.wait = 0
          /\ row.status = "failed_final" => row.attempts = MaxAttempts
          /\ row.status = "failed_retry" => row.attempts < MaxAttempts
          /\ faults' \in Nat /\ faults' >= faults
          /\ outcome[Server] = "ok" => row.status = "sent" \/ faults' = faults + 1
      BY <2>9, <3>1, <3>2
    <3> QED
      BY <2>1, <3>1, <3>2, <3>3, MarkStep
  <2>4. CASE HandleFailure(Server, e)
    <3> DEFINE row == Failed(queue[e.id], e.attempts)
    <3>1. /\ queue' = [queue EXCEPT ![e.id] = row] /\ faults' = faults
          /\ outcome[Server] = "error"
      BY <2>4 DEF HandleFailure
    <3>2. Backoff(e.attempts) \in Nat
      BY <2>1, BackoffIsNat
    <3>3. /\ row \in [status : Statuses, attempts : Nat, wait : Nat]
          /\ row.status \in {"failed_final", "failed_retry"}
          /\ row.status = "failed_final" => row.attempts = MaxAttempts /\ row.wait = 0
          /\ row.status = "failed_retry" => row.attempts < MaxAttempts
          /\ row.attempts <= MaxAttempts
      BY <2>2, <2>9, <3>2 DEF Failed, Statuses
    <3> HIDE DEF row, SenderInv, OneDrainerInv
    <3>4. /\ row.status \notin {"absent", "pending"} \/ row = queue[e.id]
          /\ row.status \in Settled => row.wait = 0
          /\ row.status = "failed_final" => row.attempts = MaxAttempts
          /\ faults' \in Nat /\ faults' >= faults
          /\ outcome[Server] = "ok" => row.status = "sent" \/ faults' = faults + 1
      BY <2>9, <3>1, <3>3 DEF Settled
    <3> QED
      BY <2>1, <3>1, <3>3, <3>4, MarkStep
  <2>5. CASE MarkRefused(Server, e)
    <3> DEFINE row == queue[e.id]
    <3>1. queue' = [queue EXCEPT ![e.id] = row] /\ faults' = faults + 1
      BY <2>5 DEF MarkRefused, TypeOK
    <3>2. /\ row \in [status : Statuses, attempts : Nat, wait : Nat]
          /\ row = queue[e.id] /\ row.wait = 0 /\ row.attempts < MaxAttempts
          /\ row.status # "failed_final" /\ row.attempts <= MaxAttempts
      BY <2>2, <2>9
    <3> HIDE DEF row, SenderInv, OneDrainerInv
    <3>3. /\ row.status \notin {"absent", "pending"} \/ row = queue[e.id]
          /\ row.status \in Settled => row.wait = 0
          /\ row.status = "failed_final" => row.attempts = MaxAttempts
          /\ row.status = "failed_retry" => row.attempts < MaxAttempts
          /\ faults' \in Nat /\ faults' >= faults
          /\ outcome[Server] = "ok" => row.status = "sent" \/ faults' = faults + 1
      BY <2>9, <3>1, <3>2
    <3> QED
      BY <2>1, <3>1, <3>2, <3>3, MarkStep
  <2> QED
    BY <1>5, <2>1, <2>3, <2>4, <2>5
<1>6. ASSUME NEW d \in Drainers, Crash(d) PROVE OneDrainerInv'
  <2>1. /\ d = Server /\ batch'[Server] = {} /\ faults' = faults + 1
        /\ queue' = queue /\ accepted' = accepted /\ lateErrors' = lateErrors
    BY <1>6 DEF Crash, OneDrainer, TypeOK
  <2>2. BatchFresh' /\ UntriedAtZero' /\ GivenUpAtLimit' /\ SettledNotWaiting'
    BY <2>1 DEF BatchFresh, UntriedAtZero, GivenUpAtLimit, SettledNotWaiting, OneDrainer
  <2>3. \A m \in Messages : accepted[m] \in Nat /\ lateErrors[m] \in Nat /\ faults \in Nat
    BY DEF TypeOK
  <2>4. DeliveriesAccounted'
    BY <2>1, <2>3 DEF DeliveriesAccounted
  <2> QED
    BY <2>2, <2>4
<1>7. CASE UNCHANGED vars
  BY <1>7 DEF vars, BatchFresh, UntriedAtZero, GivenUpAtLimit, SettledNotWaiting,
              DeliveriesAccounted, OkToMark, IsCurrent
<1> QED
  BY <1>1, <1>2, <1>3, <1>4, <1>4a, <1>5, <1>6, <1>7 DEF Next, Drain, RelayAnswers

(* The invariant of the single drainer. *)
THEOREM OneDrainerInvariant == ASSUME OneDrainer PROVE Spec => [](SenderInv /\ OneDrainerInv)
<1>1. Init => SenderInv /\ OneDrainerInv
  <2>1. Init => SenderInv
    BY SenderStart
  <2>2. Init => OneDrainerInv
    BY SenderAssumption DEF Init, OneDrainerInv, BatchFresh, UntriedAtZero, GivenUpAtLimit,
                            SettledNotWaiting, Settled, DeliveriesAccounted
  <2> QED
    BY <2>1, <2>2
<1>2. (SenderInv /\ OneDrainerInv) /\ [Next]_vars => (SenderInv /\ OneDrainerInv)'
  BY SenderStep, OneDrainerStep
<1> QED
  BY <1>1, <1>2, PTL DEF Spec

(* With one drainer, the attempt count a drain decides on is the row's, and *)
(* the row is still due: nothing it decides rests on a stale read.          *)
THEOREM CopiesAreFresh == ASSUME OneDrainer PROVE Spec => []BatchFresh
BY OneDrainerInvariant, PTL DEF OneDrainerInv

(* With one drainer, a message is given up after exactly MaxAttempts        *)
(* recorded failures.                                                       *)
THEOREM GivenUpExactly == ASSUME OneDrainer PROVE Spec => []GivenUpAtLimit
BY OneDrainerInvariant, PTL DEF OneDrainerInv

(* With one drainer, a message reaches the relay more than once only for a  *)
(* cause: an error reported late, a crash or a lost mark.                   *)
THEOREM DuplicatesAccounted == ASSUME OneDrainer PROVE Spec => []DuplicatesHaveCauses
<1>1. SenderInv /\ OneDrainerInv => DuplicatesHaveCauses
  <2> SUFFICES ASSUME SenderInv, OneDrainerInv, NEW m \in Messages
               PROVE  accepted[m] <= 1 + lateErrors[m] + faults
    BY DEF DuplicatesHaveCauses
  <2>1. accepted[m] \in Nat /\ lateErrors[m] \in Nat /\ faults \in Nat
    BY DEF SenderInv, TypeOK
  <2> QED
    BY <2>1 DEF OneDrainerInv, DeliveriesAccounted
<1> QED
  BY <1>1, OneDrainerInvariant, PTL

(* With one drainer, no message that was sent or given up is touched again. *)
THEOREM SettledForGood == ASSUME OneDrainer PROVE Spec => SettledStays
<1>1. ASSUME SenderInv, OneDrainerInv, [Next]_vars, NEW m \in Messages,
             queue[m].status \in Settled
      PROVE  queue'[m] = queue[m]
  <2> USE DEF SenderInv, OneDrainerInv
  <2>1. /\ queue[m] \in [status : Statuses, attempts : Nat, wait : Nat]
        /\ queue[m].wait = 0
        /\ queue[m].status \notin {"absent", "pending", "failed_retry"}
    BY <1>1 DEF TypeOK, SettledNotWaiting, Settled
  <2>2. ASSUME NEW n \in Messages, Enqueue(n) PROVE queue'[m] = queue[m]
    BY <1>1, <2>1, <2>2 DEF Enqueue, TypeOK
  <2>3. CASE Tick
    BY <1>1, <2>1, <2>3 DEF Tick, TypeOK
  <2>4. ASSUME NEW d \in Drainers, NEW e \in batch[d],
               SendOne(d, e) \/ RelayEnds(d, e) \/ MarkIMIPSent(d, e)
               \/ HandleFailure(d, e) \/ MarkRefused(d, e)
        PROVE  queue'[m] = queue[m]
    <3>1. e.id # m
      BY <1>1, <2>1 DEF BatchFresh
    <3> QED
      BY <1>1, <2>4, <3>1 DEF SendOne, RelayEnds, MarkIMIPSent, HandleFailure, MarkRefused, TypeOK
  <2>5. ASSUME NEW d \in Drainers, DueIMIP(d) \/ Crash(d) PROVE queue'[m] = queue[m]
    BY <2>5 DEF DueIMIP, Crash
  <2>6. CASE UNCHANGED vars
    BY <2>6 DEF vars
  <2> QED
    BY <1>1, <2>2, <2>3, <2>4, <2>5, <2>6 DEF Next, Drain, RelayAnswers
<1>2. SenderInv /\ OneDrainerInv /\ [Next]_vars =>
        [\A m \in Messages : queue[m].status \in Settled => queue'[m] = queue[m]]_vars
  BY <1>1
<1> QED
  BY <1>2, OneDrainerInvariant, PTL DEF Spec, SettledStays
=============================================================================
