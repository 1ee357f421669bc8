----------------------------- MODULE MCSharing -----------------------------
(* Seven instants; the window of a link is the third to the fifth.         *)
EXTENDS Sharing, TLC

CONSTANTS ann, bob, s1, s2

Event(kinds, start, dur, rule) ==
    [rid |-> NoRid, zone |-> "utc", start |-> start, dur |-> dur, dtend |-> TRUE, rule |-> rule,
     count |-> 3, rdates |-> {}, exdates |-> {}, kinds |-> kinds, alarm |-> TRUE,
     props |-> {"DTSTAMP", "SUMMARY", "LOCATION", "X-ALT-DESC"}]

Changed(c, rid, kinds, start) ==
    [c EXCEPT !.rid = rid, !.kinds = kinds, !.start = start, !.rule = "once",
              !.dtend = FALSE, !.rdates = {}, !.exdates = {}, !.props = {"DTSTAMP", "SUMMARY", "CLASS"}]

Series(kinds) == [Event(kinds, 3, 1, "endless") EXCEPT !.rdates = {2}, !.exdates = {4}]

Daily == Event({}, 1, 1, "count")

Dated(c) == [c EXCEPT !.zone = AllDay, !.dtend = FALSE]

MCResources ==
    {[uid |-> "e", comps |-> <<Event({"private"}, 3, 2, "once")>>],
     [uid |-> "e", comps |-> <<Dated(Event({"tentative", "transparent"}, 1, 3, "once"))>>],
     [uid |-> "e", comps |-> <<Series({}), Changed(Series({}), 3, {"private"}, 2)>>],
     [uid |-> "e", comps |-> <<Changed(Series({"private"}), 2, {}, 5), Series({"private"})>>],
     [uid |-> "f", comps |-> <<Daily>>],
     [uid |-> "f", comps |-> <<Daily, Changed(Daily, 2, {"private"}, 3)>>]}

MCSettings ==
    {[preset |-> "titles", include |-> {"tentative"}],
     [preset |-> "busy", include |-> {"private", "transparent", "cancelled"}]}

Pick(f, x) == [g \in ManagedFields |-> IF g = f THEN x ELSE "other"]

MCFieldForms ==
    {[g \in ManagedFields |-> "keep"],
     Pick("SUMMARY", "replace") ,
     Pick("DTSTAMP", "strip"),
     [g \in ManagedFields |-> IF g \in {"LOCATION", "DTSTAMP"} THEN "replace" ELSE "strip"]}

MCLifetimes == {Never, 0}

(* Users and slots are treated alike.                                      *)
Symmetry == Permutations(Users) \cup Permutations(Slots)
=============================================================================
