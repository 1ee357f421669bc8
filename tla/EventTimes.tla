----------------------------- MODULE EventTimes -----------------------------
(***************************************************************************)
(* When an event happens (ical/parse.go, ical/recur.go): the bounds stored *)
(* with an object, the expansion of its RRULE, whether a share link's      *)
(* window meets it, and the busy periods of a free-busy report.            *)
(*                                                                         *)
(* A resource is the sequence of its components, one for the event or      *)
(* series and one for each instance changed by itself (RECURRENCE-ID).     *)
(* Times count the periods of the recurrence.                              *)
(***************************************************************************)
EXTENDS Integers, FiniteSets, Sequences

CONSTANTS
    Uids,
    Zones,      \* the time zones a component's times are written in
    Names,      \* property names other than the times and the UID
    Times,      \* the instants a calendar app looks at
    Wide        \* length of wideWindow, a hundred years in the code

ASSUME TimesAssumption == Times \subseteq Int /\ Wide \in Nat

NoRid == -1

AllDay == "date"    \* the zone of times that are dates

Kinds == {"private", "cancelled", "tentative", "transparent"}

(* rid: RECURRENCE-ID; dur: how long the event lasts, and dtend: whether    *)
(* DTEND says so, and not DURATION or a start that is a date; kinds: what   *)
(* CLASS, STATUS and TRANSP say.                                           *)
Component ==
    [rid: {NoRid} \cup Times, zone: Zones, start: Times, dur: Nat, dtend: BOOLEAN,
     rule: {"once", "count", "endless"}, count: Nat, rdates: SUBSET Times,
     exdates: SUBSET Times, kinds: SUBSET Kinds, props: SUBSET Names, alarm: BOOLEAN]

Resource == [uid: Uids, comps: Seq(Component) \ {<<>>}]

Components(comps) == {comps[i] : i \in DOMAIN comps}

Masters(comps) == {i \in DOMAIN comps : comps[i].rid = NoRid}

(* The first component without RECURRENCE-ID, or the first of all.          *)
Master(comps) ==
    comps[IF Masters(comps) = {} THEN 1
          ELSE CHOOSE i \in Masters(comps) : \A j \in Masters(comps) : i <= j]

MaxOf(S) == CHOOSE x \in S : \A y \in S : y <= x

Span(start, end) == start .. end - 1

InRule(c, t) ==
    CASE c.rule = "once" -> t = c.start
      [] c.rule = "count" -> t \in Span(c.start, c.start + c.count)
      [] c.rule = "endless" -> t >= c.start

ExpandRRULE(c, window) == {t \in window : InRule(c, t)} \ c.exdates

(* durationOf reads DTEND only.                                            *)
DurationOf(c) == IF c.dtend THEN c.dur ELSE 0

(* First and last of an object; open is a nil Last.  Only a single event's *)
(* bounds are widened by its other components.                             *)
ComputeBounds(comps) ==
    LET m == Master(comps)
        occ == ExpandRRULE(m, Span(m.start, m.start + Wide))
    IN
    CASE m.rule = "endless" -> [first |-> m.start, open |-> TRUE, last |-> m.start]
      [] m.rule = "count" ->
           [first |-> m.start, open |-> FALSE,
            last |-> DurationOf(m) + IF occ = {} THEN m.start ELSE MaxOf(occ)]
      [] m.rule = "once" ->
           [first |-> m.start, open |-> FALSE,
            last |-> MaxOf({c.start + DurationOf(c) : c \in Components(comps)})]

(* overlaps: both ends count.                                              *)
Overlaps(obj, from, to) ==
    LET b == ComputeBounds(obj.comps) IN
    b.open \/ (b.first <= to /\ from <= b.last)

Occurrences(comps, window) ==
    LET m == Master(comps) IN
    IF m.rule = "once" THEN {m.start} \cap window ELSE ExpandRRULE(m, window)

(* Mutant: private events count for everybody who may read.                *)
FreeBusyShowsPrivateMutant(objs, level, from, to) ==
    UNION {LET m == Master(obj.comps)
               dur == DurationOf(m)
           IN
           IF m.kinds \cap {"transparent", "cancelled"} # {} THEN {}
           ELSE {[from |-> t, to |-> IF t + dur > to THEN to ELSE t + dur] :
                   t \in {u \in Occurrences(obj.comps, Span(from, to)) : dur > 0}} :
             obj \in objs}

(* The periods handleFreeBusy reports of a calendar's objects: one for each *)
(* occurrence that starts in [from, to), cut off at the end.                *)
FreeBusy(objs, level, from, to) ==
    UNION {LET m == Master(obj.comps)
               dur == DurationOf(m)
           IN
           IF \/ m.kinds \cap {"transparent", "cancelled"} # {}
              \/ "private" \in m.kinds /\ level # "owner"
           THEN {}
           ELSE {[from |-> t, to |-> IF t + dur > to THEN to ELSE t + dur] :
                   t \in {u \in Occurrences(obj.comps, Span(from, to)) : dur > 0}} :
             obj \in objs}

----------------------------------------------------------------------------
(* What a resource means, as a calendar app reads it: an instance for each *)
(* time of the rule and of RDATE that is not excepted and not changed by   *)
(* itself, and one for each component of a changed instance.               *)

Happens(c) == ({t \in Times : InRule(c, t)} \cup c.rdates) \ c.exdates

Instance(c, t) == [at |-> t, dur |-> c.dur, comp |-> c]

Instances(comps) ==
    LET changed == {c \in Components(comps) : c.rid # NoRid} IN
    {Instance(c, c.start) : c \in changed}
    \cup UNION {{Instance(c, t) : t \in Happens(c) \ {o.rid : o \in changed}} :
                  c \in Components(comps) \ changed}

(* The instances that start in [from, to), or started before and last into  *)
(* it by what DTEND says.                                                  *)
During(insts, from, to) ==
    {i \in insts : i.at < to /\ (from <= i.at \/ from < i.at + DurationOf(i.comp))}

(* No instance of a series has been changed by itself.                      *)
Plain(obj) == \A c \in Components(obj.comps) : c.rid = NoRid

(* There is one event or series at most; what is changed by itself are      *)
(* instances, one each, of a series that an RRULE makes; and neither such   *)
(* an instance nor a single event is excepted.                             *)
Regular(obj) ==
    /\ \A i, j \in Masters(obj.comps) : i = j
    /\ \A c \in Components(obj.comps) :
         /\ c.rid # NoRid => c.rdates = {}
         /\ c.rid # NoRid \/ c.rule = "once" => c.start \notin c.exdates
         /\ c.rid = NoRid /\ c.rule = "once" => Plain(obj)

(* DTSTART, DTEND and RRULE say all of its times: the code reads no others. *)
ReadInFull(obj) ==
    \A c \in Components(obj.comps) : (c.dtend \/ c.dur = 0) /\ c.rdates = {}
=============================================================================
