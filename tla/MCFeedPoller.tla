---------------------------- MODULE MCFeedPoller ----------------------------
(* A feed has one event, then two others instead, with UIDs that sanitize   *)
(* to one name, or comes up empty.                                          *)
EXTENDS FeedPoller, TLC

CONSTANTS u1, u2, u3, h1, h2

MCHrefOf == u1 :> h1 @@ u2 :> h1 @@ u3 :> h2

Event(u) == [uid |-> u, comp |-> "VEVENT", body |-> "b"]

MCDocuments == {{}, {Event(u3)}, {Event(u1), Event(u2)}}

(* u2 cannot be encoded.                                                    *)
MCStorable == {Event(u1), Event(u3)}

MCInterval == [c \in Calendars |-> 1]
=============================================================================
