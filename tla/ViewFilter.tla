----------------------------- MODULE ViewFilter -----------------------------
(***************************************************************************)
(* What a view lets through (internal/views): the rules of its preset with *)
(* its overrides, the include flags, and the filter that share links apply *)
(* to every event.                                                         *)
(***************************************************************************)
EXTENDS EventTimes

Rules == {"keep", "strip", "replace"}
Presets == {"full", "titles", "busy"}

(* What titles and busy strip.                                             *)
Details ==
    {"DESCRIPTION", "LOCATION", "URL", "ATTENDEE", "ORGANIZER", "CATEGORIES", "GEO", "ATTACH",
     "COMMENT", "RESOURCES", "PRIORITY", "CLASS", "CREATED"}

ManagedFields ==
    Details \cup {"SUMMARY", "STATUS", "TRANSP", "VALARM", "LAST-MODIFIED", "DTSTAMP", "SEQUENCE"}

PresetRules(preset) ==
    [f \in ManagedFields |->
        CASE f = "VALARM" -> "strip"
          [] f = "SUMMARY" /\ preset = "busy" -> "replace"
          [] f \in Details /\ preset \in {"titles", "busy"} -> "strip"
          [] OTHER -> "keep"]

(* A partial function on the managed fields laid over another.             *)
Override(rules, fields) ==
    [f \in DOMAIN rules |-> IF f \in DOMAIN fields THEN fields[f] ELSE rules[f]]

(* buildSpec and effectiveRules.  No code writes a preset or rules for one  *)
(* calendar of a view, so those branches of buildSpec never apply.         *)
EffectiveRules(view) == Override(PresetRules(view.preset), view.fields)

(* view.include: the kinds a view lets through.                            *)
DropByFlags(c, view) == c.kinds \ view.include # {}

RuleOf(rules, name) == IF name \in ManagedFields THEN rules[name] ELSE "strip"

(* filterEvent: the times and the UID stay; of the rest, own are the        *)
(* properties with their own value, and label says that SUMMARY is the     *)
(* view's busy label.  An EXDATE is a value read in the zone tzid, which    *)
(* was written in another if zone differs.                                 *)
FilterEvent(uid, c, rules) ==
    [uid |-> <<uid>>, rid |-> c.rid, start |-> c.start, dur |-> c.dur, rule |-> c.rule,
     count |-> c.count, rdates |-> c.rdates,
     exdates |-> {[at |-> t, zone |-> c.zone, tzid |-> c.zone] : t \in c.exdates},
     own |-> {n \in c.props : \/ RuleOf(rules, n) = "keep"
                              \/ RuleOf(rules, n) = "replace" /\ n # "SUMMARY"},
     label |-> rules["SUMMARY"] = "replace",
     alarm |-> c.alarm /\ rules["VALARM"] # "strip"]

NoZone == "none"

(* addExdate: the override's RECURRENCE-ID, in the zone of the master.  Of a *)
(* date it does not say that it is one (VALUE=DATE), so that it is in none.  *)
AddExdates(kept, m, hidden) ==
    [kept EXCEPT !.exdates = @ \cup
        {[at |-> o.rid, zone |-> o.zone, tzid |-> IF m.zone = AllDay THEN NoZone ELSE m.zone] : o \in hidden}]

Promoted(f, o) == [f EXCEPT !.uid = Append(@, o.rid), !.rid = NoRid, !.rule = "once"]

(* Mutant: a hidden instance is left out, but not excepted.                *)
FilterSeriesMutant(obj, view) ==
    LET rules == EffectiveRules(view)
        m == Master(obj.comps)
        filtered(S) == {FilterEvent(obj.uid, c, rules) : c \in S}
        overrides == {c \in Components(obj.comps) : c.rid # NoRid}
        hidden == {c \in Components(obj.comps) : DropByFlags(c, view)}
    IN
    CASE m.rid # NoRid \/ m.rule = "once" -> filtered(Components(obj.comps) \ hidden)
      [] m.rid = NoRid /\ m.rule # "once" /\ m \notin hidden ->
           {FilterEvent(obj.uid, m, rules)} \cup filtered(overrides \ hidden)
      [] m.rid = NoRid /\ m.rule # "once" /\ m \in hidden ->
           {Promoted(FilterEvent(obj.uid, o, rules), o) : o \in overrides \ hidden}

(* filterSeries, on the components of one UID.                             *)
FilterSeries(obj, view) ==
    LET rules == EffectiveRules(view)
        m == Master(obj.comps)
        filtered(S) == {FilterEvent(obj.uid, c, rules) : c \in S}
        overrides == {c \in Components(obj.comps) : c.rid # NoRid}
        hidden == {c \in Components(obj.comps) : DropByFlags(c, view)}
    IN
    CASE m.rid # NoRid \/ m.rule = "once" -> filtered(Components(obj.comps) \ hidden)
      [] m.rid = NoRid /\ m.rule # "once" /\ m \notin hidden ->
           {AddExdates(FilterEvent(obj.uid, m, rules), m, overrides \cap hidden)}
           \cup filtered(overrides \ hidden)
      [] m.rid = NoRid /\ m.rule # "once" /\ m \in hidden ->
           {Promoted(FilterEvent(obj.uid, o, rules), o) : o \in overrides \ hidden}

(* Apply: the UIDs of a calendar's objects are distinct.                   *)
Apply(objs, view) == UNION {FilterSeries(obj, view) : obj \in objs}

(* Emit: the encoder refuses an event without DTSTAMP, and the body with it. *)
Emits(body) == \A f \in body : "DTSTAMP" \in f.own

----------------------------------------------------------------------------
(* What the recipient of a body sees, and what a view means to show.       *)

Sight(own, label, alarm) == [own |-> own, label |-> label, alarm |-> alarm]

SightAt(t, dur, f) ==
    [at |-> t, dur |-> dur, sight |-> Sight(f.own, f.label, f.alarm)]

(* A calendar app takes an EXDATE for the instance it names only if its     *)
(* value is in the zone it says.                                           *)
SeenIn(body) ==
    UNION {LET changed == {o.rid : o \in {g \in body : g.uid = f.uid /\ g.rid # NoRid}}
               excepted == {x.at : x \in {y \in f.exdates : y.zone = y.tzid}}
           IN
           IF f.rid # NoRid THEN {SightAt(f.start, f.dur, f)}
           ELSE {SightAt(t, f.dur, f) :
                   t \in ({u \in Times : InRule(f, u)} \cup f.rdates) \ (changed \cup excepted)} :
             f \in body}

(* Told by name: SUMMARY is hidden under the label, and a name that no rule *)
(* keeps is not told.                                                      *)
Meant(view, comp) ==
    LET rule(n) == IF n \in DOMAIN view.fields THEN view.fields[n] ELSE PresetRules(view.preset)[n]
        told == {n \in comp.props \cap ManagedFields : rule(n) # "strip"}
    IN
    IF rule("SUMMARY") = "replace" THEN Sight(told \ {"SUMMARY"}, TRUE, comp.alarm /\ rule("VALARM") # "strip")
    ELSE Sight(told, FALSE, comp.alarm /\ rule("VALARM") # "strip")

(* Every instance that is of no kind the view leaves out.                  *)
MeantOf(insts, view) ==
    {[at |-> i.at, dur |-> i.dur, sight |-> Meant(view, i.comp)] :
       i \in {j \in insts : j.comp.kinds \subseteq view.include}}

(* The RECURRENCE-IDs of a resource are in the zone of its series, and are   *)
(* not dates.                                                              *)
OneZone(obj) ==
    /\ \A c, d \in Components(obj.comps) : c.zone = d.zone
    /\ Plain(obj) \/ \A c \in Components(obj.comps) : c.zone # AllDay
=============================================================================
