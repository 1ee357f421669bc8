------------------------------- MODULE MCImip -------------------------------
(* The two loops of the imip package share no table: in a behaviour one of   *)
(* the two is at work, and the run checks both.                             *)
EXTENDS ImipSender, ImipReceiver

VARIABLE loop

MailInit == loop \in {"sender", "receiver"} /\ Init /\ ReceiverInit

MailNext ==
    \/ loop = "sender" /\ Next /\ UNCHANGED <<loop, receiverVars>>
    \/ loop = "receiver" /\ ReceiverNext /\ UNCHANGED <<loop, vars>>

MailSpec ==
    /\ MailInit /\ [][MailNext]_<<loop, vars, receiverVars>>
    /\ WF_vars(Drain(Server)) /\ WF_vars(Tick)
    /\ ReceiverFairness

Answer(id, good, from, answer) ==
    [id |-> id, good |-> good, from |-> from, event |-> "e", answer |-> answer]

MCMails ==
    {Answer("1", TRUE, "ann", "ACCEPTED"), Answer("2", TRUE, "ann", "DECLINED"),
     Answer(NoId, TRUE, "bob", "ACCEPTED"), Answer("3", FALSE, "ann", "ACCEPTED")}
=============================================================================
