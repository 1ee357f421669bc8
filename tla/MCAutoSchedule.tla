--------------------------- MODULE MCAutoSchedule ---------------------------
(* One event of ann's, to which she invites bob, who has an account, and    *)
(* eve, who has not.  The second version leaves eve to ann's client and     *)
(* says that bob has accepted; a client may send it with the annotation of  *)
(* bob's that it has read on the first.                                     *)
EXTENDS AutoSchedule, TLC

CONSTANTS ann, bob, eve, s1, s2

MCBody(title, answer, client, status) ==
    [title |-> title, attendees |-> {bob, eve},
     partstat |-> [a \in Addresses |-> IF a = bob THEN answer ELSE "NEEDS-ACTION"],
     client |-> client, status |-> status]

First(status) == MCBody("t1", "NEEDS-ACTION", {}, status)
Second(status) == MCBody("t2", "ACCEPTED", {eve}, status)

MCBodies == UNION {{First(n), Second(n)} : n \in SUBSET {bob, eve}}
MCClientBodies == {First({}), Second({bob})}
MCPlainBodies == {First({}), Second({})}

MCInboxHref ==
    [k \in {"REQUEST", "CANCEL", "REPLY"} \X Uids \X (Users \cup {""}) |-> k]

MCOwner == [c \in Calendars |-> ann]
MCWriters == [c \in Calendars |-> {ann}]
=============================================================================
