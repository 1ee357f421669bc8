--------------------------- MODULE LiveCollection ---------------------------
(***************************************************************************)
(* What collection synchronisation promises, without journal or tokens: a  *)
(* client that asks gets the collection as it is at that moment.           *)
(***************************************************************************)
CONSTANTS Calendars, Hrefs, ETags, NoETag, Replicas, Follows

VARIABLES
    held,   \* held[c][h]: etag stored at h in calendar c, or NoETag
    known   \* known[k][h]: what replica k believes is at h

Empty == [h \in Hrefs |-> NoETag]

Init ==
    /\ held = [c \in Calendars |-> Empty]
    /\ known = [k \in Replicas |-> Empty]

Change(c, h) ==
    /\ \E e \in ETags \cup {NoETag} : held' = [held EXCEPT ![c][h] = e]
    /\ UNCHANGED known

Refresh(k) ==
    /\ known' = [known EXCEPT ![k] = held[Follows[k]]]
    /\ UNCHANGED held

Next ==
    \/ \E c \in Calendars, h \in Hrefs : Change(c, h)
    \/ \E k \in Replicas : Refresh(k)

Spec == Init /\ [][Next]_<<held, known>>
=============================================================================
