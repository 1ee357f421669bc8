----------------------------- MODULE ImipSender -----------------------------
(***************************************************************************)
(* The outbound iMIP queue (storage/scheduling.go) and those who drain it  *)
(* (imip/sender.go): the server's loop and, as a process of its own on the *)
(* same database, the command "imip drain" (cmd/caldav-share/imip.go).     *)
(* A drain reads a batch of due rows and works through that copy: between  *)
(* the read, the SMTP exchange and the update that follows it, anything    *)
(* may happen to the rows and to the drainer.                              *)
(***************************************************************************)
EXTENDS Integers, FiniteSetsExt

CONSTANTS
    Messages,       \* ids of queue rows
    Drainers,       \* the processes that drain
    Server,         \* the one of them that keeps draining, on its ticker
    Limit,          \* rows a drain reads at most (20)
    MaxAttempts,    \* maxAttempts (5)
    MaxFaults       \* bound: crashes, and marks the database refused

ASSUME SenderAssumption ==
    /\ Messages \subseteq Nat
    /\ Server \in Drainers
    /\ Limit \in Nat \ {0} /\ MaxAttempts \in Nat \ {0} /\ MaxFaults \in Nat

VARIABLES
    queue,      \* queue[m]: status, attempt_count, and minutes to next_attempt_at
    batch,      \* batch[d]: what is left of d's batch: ids and attempt counts as read
    outcome,    \* outcome[d]: of the send whose mark is due, or "none"
    accepted,   \* history: accepted[m]: times the relay took m
    lateErrors, \* history: lateErrors[m]: times it took m, yet the send failed
    faults      \* history: crashes and refused marks so far

vars == <<queue, batch, outcome, accepted, lateErrors, faults>>

Statuses == {"absent", "pending", "failed_retry", "sent", "failed_final"}

Settled == {"sent", "failed_final"}

Backoff(attempts) == 2 ^ attempts

----------------------------------------------------------------------------
Init ==
    /\ queue = [m \in Messages |-> [status |-> "absent", attempts |-> 0, wait |-> 0]]
    /\ batch = [d \in Drainers |-> {}]
    /\ outcome = [d \in Drainers |-> "none"]
    /\ accepted = [m \in Messages |-> 0]
    /\ lateErrors = [m \in Messages |-> 0]
    /\ faults = 0

(* EnqueueIMIP: rows get ids in the order they come.                       *)
Enqueue(m) ==
    /\ queue[m].status = "absent"
    /\ \A n \in Messages : n < m => queue[n].status # "absent"
    /\ queue' = [queue EXCEPT ![m].status = "pending"]
    /\ UNCHANGED <<batch, outcome, accepted, lateErrors, faults>>

(* A minute passes, when anything waits for it.                            *)
Tick ==
    /\ \E m \in Messages : queue[m].wait > 0
    /\ queue' = [m \in Messages |-> [queue[m] EXCEPT !.wait = IF @ > 0 THEN @ - 1 ELSE 0]]
    /\ UNCHANGED <<batch, outcome, accepted, lateErrors, faults>>

(* Mutant: the query does not ask when the next attempt is due.            *)
DueEarlyMutant == {m \in Messages : queue[m].status \in {"pending", "failed_retry"}}

(* Mutant: the query asks for the time only.                               *)
DueSettledMutant == {m \in Messages : queue[m].status # "absent" /\ queue[m].wait = 0}

Due == {m \in Messages : queue[m].status \in {"pending", "failed_retry"} /\ queue[m].wait = 0}

(* ORDER BY id LIMIT Limit *)
OldestDue == {m \in Due : Cardinality({n \in Due : n < m}) < Limit}

(* Drain reads its batch.  With nothing due it ends at once.               *)
DueIMIP(d) ==
    /\ batch[d] = {}
    /\ Due # {}
    /\ batch' = [batch EXCEPT ![d] =
                   {[id |-> m, attempts |-> queue[m].attempts] : m \in OldestDue}]
    /\ UNCHANGED <<queue, outcome, accepted, lateErrors, faults>>

(* The loop takes the batch in the order of ids. *)
IsCurrent(d, e) == e \in batch[d] /\ \A f \in batch[d] : e.id <= f.id

(* sendOne turns to the relay, and waits for it with no deadline: neither  *)
(* the dial nor the exchange has a timeout, and ctx does not reach them.   *)
SendOne(d, e) ==
    /\ IsCurrent(d, e)
    /\ outcome[d] = "none"
    /\ outcome' = [outcome EXCEPT ![d] = "sending"]
    /\ UNCHANGED <<queue, batch, accepted, lateErrors, faults>>

(* The exchange ends: the relay takes the message or does not, and it may  *)
(* fail after it has (QUIT follows the end of DATA).                       *)
RelayEnds(d, e) ==
    /\ IsCurrent(d, e)
    /\ outcome[d] = "sending"
    /\ \/ /\ outcome' = [outcome EXCEPT ![d] = "ok"]
          /\ accepted' = [accepted EXCEPT ![e.id] = @ + 1]
          /\ UNCHANGED lateErrors
       \/ /\ outcome' = [outcome EXCEPT ![d] = "error"]
          /\ UNCHANGED <<accepted, lateErrors>>
       \/ /\ outcome' = [outcome EXCEPT ![d] = "error"]
          /\ accepted' = [accepted EXCEPT ![e.id] = @ + 1]
          /\ lateErrors' = [lateErrors EXCEPT ![e.id] = @ + 1]
    /\ UNCHANGED <<queue, batch, faults>>

(* The loop goes on to the rest of the batch. *)
MoveOn(d, e) ==
    /\ batch' = [batch EXCEPT ![d] = @ \ {e}]
    /\ outcome' = [outcome EXCEPT ![d] = "none"]
    /\ UNCHANGED <<accepted, lateErrors>>

(* Mutant: the outcome of the send is not looked at.                       *)
MarkIMIPSentAlwaysMutant(d, e) ==
    /\ IsCurrent(d, e) /\ outcome[d] \in {"ok", "error"}
    /\ queue' = [queue EXCEPT ![e.id] =
         [status |-> "sent", attempts |-> @.attempts + 1, wait |-> @.wait]]
    /\ MoveOn(d, e)
    /\ UNCHANGED faults

(* Mutant: the attempt is counted and the status left.                     *)
MarkIMIPSentKeepsStatusMutant(d, e) ==
    /\ IsCurrent(d, e) /\ outcome[d] = "ok"
    /\ queue' = [queue EXCEPT ![e.id].attempts = @ + 1]
    /\ MoveOn(d, e)
    /\ UNCHANGED faults

MarkIMIPSent(d, e) ==
    /\ IsCurrent(d, e) /\ outcome[d] = "ok"
    /\ queue' = [queue EXCEPT ![e.id] =
         [status |-> "sent", attempts |-> @.attempts + 1, wait |-> @.wait]]
    /\ MoveOn(d, e)
    /\ UNCHANGED faults

(* Mutant: one attempt too many.                                           *)
FailedOffByOneMutant(row, asRead) ==
    IF asRead >= MaxAttempts
    THEN [status |-> "failed_final", attempts |-> row.attempts + 1, wait |-> row.wait]
    ELSE [status |-> "failed_retry", attempts |-> row.attempts + 1, wait |-> Backoff(asRead)]

(* Mutant: a retry does not count.                                         *)
FailedUncountedMutant(row, asRead) ==
    IF asRead + 1 >= MaxAttempts
    THEN [status |-> "failed_final", attempts |-> row.attempts + 1, wait |-> row.wait]
    ELSE [status |-> "failed_retry", attempts |-> row.attempts, wait |-> Backoff(asRead)]

(* Mutant: a status the schema does not know.                              *)
FailedUnknownStatusMutant(row, asRead) ==
    IF asRead + 1 >= MaxAttempts
    THEN [status |-> "failed_final", attempts |-> row.attempts + 1, wait |-> row.wait]
    ELSE [status |-> "failed", attempts |-> row.attempts + 1, wait |-> Backoff(asRead)]

(* A row after MarkIMIPFinal or MarkIMIPRetry.  Which of them, and the     *)
(* backoff, follow from the attempt count as read; the update increments   *)
(* the one in the row.                                                     *)
Failed(row, asRead) ==
    IF asRead + 1 >= MaxAttempts
    THEN [status |-> "failed_final", attempts |-> row.attempts + 1, wait |-> row.wait]
    ELSE [status |-> "failed_retry", attempts |-> row.attempts + 1, wait |-> Backoff(asRead)]

HandleFailure(d, e) ==
    /\ IsCurrent(d, e) /\ outcome[d] = "error"
    /\ queue' = [queue EXCEPT ![e.id] = Failed(@, e.attempts)]
    /\ MoveOn(d, e)
    /\ UNCHANGED faults

(* The update fails, the error is ignored: another process holds the       *)
(* database beyond the busy timeout, or the drain is being cancelled.      *)
MarkRefused(d, e) ==
    /\ IsCurrent(d, e) /\ outcome[d] \in {"ok", "error"}
    /\ faults < MaxFaults
    /\ faults' = faults + 1
    /\ MoveOn(d, e)
    /\ UNCHANGED queue

(* The process dies with what it holds in memory. *)
Crash(d) ==
    /\ batch[d] # {}
    /\ faults < MaxFaults
    /\ faults' = faults + 1
    /\ batch' = [batch EXCEPT ![d] = {}]
    /\ outcome' = [outcome EXCEPT ![d] = "none"]
    /\ UNCHANGED <<queue, accepted, lateErrors>>

Drain(d) ==
    \/ DueIMIP(d)
    \/ \E e \in batch[d] :
         SendOne(d, e) \/ MarkIMIPSent(d, e) \/ HandleFailure(d, e) \/ MarkRefused(d, e)

RelayAnswers(d) == \E e \in batch[d] : RelayEnds(d, e)

Next ==
    \/ \E m \in Messages : Enqueue(m)
    \/ Tick
    \/ \E d \in Drainers : Drain(d) \/ RelayAnswers(d) \/ Crash(d)

(* The server drains on a ticker for as long as it runs, and time passes.  *)
(* Nothing makes the relay answer.                                         *)
Spec == Init /\ [][Next]_vars /\ WF_vars(Drain(Server)) /\ WF_vars(Tick)

----------------------------------------------------------------------------
TypeOK ==
    /\ queue \in [Messages -> [status: Statuses, attempts: Nat, wait: Nat]]
    /\ batch \in [Drainers -> SUBSET [id: Messages, attempts: Nat]]
    /\ outcome \in [Drainers -> {"none", "sending", "ok", "error"}]
    /\ accepted \in [Messages -> Nat]
    /\ lateErrors \in [Messages -> Nat]
    /\ faults \in 0 .. MaxFaults

(* A message is marked sent only if the relay took it.                     *)
SentWasAccepted ==
    \A m \in Messages : queue[m].status = "sent" => accepted[m] > 0

(* With one drainer, no copy in a batch is stale: the row is as it was     *)
(* read, and still due.  The decisions taken from the copy rest on it.     *)
BatchFresh ==
    \A d \in Drainers : \A e \in batch[d] :
        /\ queue[e.id].status \in {"pending", "failed_retry"}
        /\ queue[e.id].wait = 0
        /\ queue[e.id].attempts = e.attempts

(* A message is given up after MaxAttempts failures, neither sooner nor    *)
(* later, and no message is tried more often than that, but for attempts   *)
(* whose mark was lost.                                                    *)
GivenUpAtLimit ==
    \A m \in Messages :
        /\ queue[m].attempts <= MaxAttempts
        /\ queue[m].status = "failed_final" => queue[m].attempts = MaxAttempts
        /\ queue[m].status = "failed_retry" => queue[m].attempts < MaxAttempts

(* Every delivery beyond the first has a cause: an error reported after    *)
(* the relay had accepted, a crash, or a lost mark.                        *)
DuplicatesHaveCauses ==
    \A m \in Messages : accepted[m] <= 1 + lateErrors[m] + faults

(* What is settled stays settled: a sent message is never tried again and  *)
(* a permanent failure is permanent.                                       *)
SettledStays ==
    [][\A m \in Messages : queue[m].status \in Settled => queue'[m] = queue[m]]_vars

(* "MarkIMIPFinal flags a message as permanently failed": whoever drains,  *)
(* it stays that.                                                          *)
FinalIsPermanent ==
    [][\A m \in Messages :
        queue[m].status = "failed_final" => queue'[m].status = "failed_final"]_vars

(* Given a relay that ends every exchange somehow, each queued message is  *)
(* sent or given up in the end, whatever the relay answers: a failing      *)
(* message does not hold back those behind it.                             *)
EverythingSettles ==
    WF_vars(RelayAnswers(Server)) =>
        \A m \in Messages : queue[m].status = "pending" ~> queue[m].status \in Settled
=============================================================================
