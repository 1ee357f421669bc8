------------------------------ MODULE Sharing ------------------------------
(***************************************************************************)
(* Share links (share/share.go) and the pages that set them up             *)
(* (web/views_handlers.go, web/handlers.go): a recipient's GET of a link    *)
(* and the owner's forms run at the same time, each database call a step.  *)
(* The times of the limiter are those of the clock that expires links.     *)
(***************************************************************************)
EXTENDS ViewFilter, RateLimiter

CONSTANTS
    Users, Slots,
    ViewIds, CalendarIds,   \* naturals: a new row takes the id after the largest
    Resources,              \* the objects a CalDAV client may store
    Settings,               \* what the settings form sends: preset and include
    FieldForms,             \* what the fields form sends: a choice for each field
    Lifetimes,              \* expires_at of a link, or Never
    From, To,               \* the window of render
    MaxRequests, MaxClock   \* bounds

ASSUME SharingAssumption ==
    /\ ViewIds \subseteq Nat /\ CalendarIds \subseteq Nat /\ TokenIds \subseteq Nat
    /\ {1} \subseteq ViewIds \cap CalendarIds \cap TokenIds
    /\ Resources \subseteq Resource
    /\ \A o \in Resources : \A c \in Components(o.comps) : "DTSTAMP" \in c.props
    /\ Settings \subseteq [preset : Presets, include : SUBSET Kinds]
    /\ MaxRequests \in Nat
    /\ From \in Int /\ To \in Int /\ Span(From, To) \subseteq Times

Never == -1
Idle == [op |-> "idle"]

VARIABLES
    views, members, tokens, calendars,      \* tables
    req,        \* req[s]: what the handler in slot s has read and has left to do
    begun,
    disturbed,  \* history: slots during whose handler a page or client wrote
    retired     \* history: ids of calendars that were deleted, and may be given again

tables == <<views, members, tokens, calendars>>
histories == <<begun, disturbed, retired>>
vars == <<tables, req, histories, limiterVars>>

IsNewId(id, ids) == (\A i \in ids : i < id) /\ (id = 1 \/ id - 1 \in ids)

With(table, id, row) == [i \in DOMAIN table \cup {id} |-> IF i = id THEN row ELSE table[i]]

Starts == begun < MaxRequests /\ begun' = begun + 1

Begin(s, r) ==
    /\ req[s] = Idle
    /\ Starts
    /\ req' = [req EXCEPT ![s] = r]
    /\ disturbed' = disturbed \ {s}

Continue(s, r) == req' = [req EXCEPT ![s] = r] /\ UNCHANGED histories

(* A statement that changes what links show, by the handler of slot s, which *)
(* is then done.                                                           *)
Writes(s) ==
    /\ req' = [req EXCEPT ![s] = Idle]
    /\ disturbed' = {x \in Slots \ {s} : req[x] # Idle}
    /\ UNCHANGED <<begun, limiterVars>>

(* The same by a handler or client whose only step with an effect it is.   *)
WritesAtOnce ==
    /\ Starts
    /\ disturbed' = {x \in Slots : req[x] # Idle}
    /\ UNCHANGED <<req, limiterVars>>

----------------------------------------------------------------------------
(* GET /share/<token>.ics                                                  *)

Usable(token) ==
    ~token.revoked /\ (token.expires = Never \/ ~(clock > token.expires))

(* The checks of serve up to the limiter, all on the row read first.       *)
GetLink(s, t, knows) ==
    /\ t \in DOMAIN tokens
    /\ Begin(s, IF Usable(tokens[t]) /\ (tokens[t].password => knows)
                THEN [op |-> "get", phase |-> "limit", token |-> t, at |-> clock]
                ELSE Idle)
    /\ UNCHANGED <<tables, retired, limiterVars>>

InPhase(s, phase) == req[s] # Idle /\ req[s].op = "get" /\ req[s].phase = phase

(* allow, with a time taken since.                                         *)
Allow(s) ==
    /\ InPhase(s, "limit")
    /\ \E now \in req[s].at .. clock :
         \/ /\ Grant(req[s].token, now)
            /\ Continue(s, [op |-> "get", phase |-> "view", token |-> req[s].token])
         \/ Refuse(req[s].token, now) /\ Continue(s, Idle)
    /\ UNCHANGED tables

ReadView(s) ==
    LET v == tokens[req[s].token].view IN
    /\ InPhase(s, "view")
    /\ req' = [req EXCEPT ![s] = [op |-> "get", phase |-> "members", token |-> req[s].token,
                                  view |-> v, row |-> views[v]]]
    /\ disturbed' = disturbed \ {s}
    /\ UNCHANGED <<tables, begun, retired, limiterVars>>

MembersOf(v) == {m[2] : m \in {n \in members : n[1] = v}}

ReadMembers(s) ==
    /\ InPhase(s, "members")
    /\ Continue(s, [op |-> "get", phase |-> "calendars", token |-> req[s].token,
                    view |-> req[s].view, row |-> req[s].row,
                    todo |-> MembersOf(req[s].view), body |-> {}])
    /\ UNCHANGED <<tables, limiterVars>>

InWindow(objs) == {o \in objs : Overlaps(o, From, To)}

(* CalendarByID, ListObjects and the filter, for one calendar in render's   *)
(* loop.  That the calendar goes between the two calls has the effect of it *)
(* having gone before.                                                     *)
RenderCalendar(s) ==
    /\ InPhase(s, "calendars")
    /\ \E c \in req[s].todo :
         Continue(s, [op |-> "get", phase |-> "calendars", token |-> req[s].token,
                      view |-> req[s].view, row |-> req[s].row, todo |-> req[s].todo \ {c},
                      body |-> req[s].body \cup
                                 IF c \in DOMAIN calendars
                                 THEN Apply(InWindow(calendars[c].objs), req[s].row)
                                 ELSE {}])
    /\ UNCHANGED <<tables, limiterVars>>

Rendered(s) == InPhase(s, "calendars") /\ req[s].todo = {}

TouchShareToken(t) == tokens' = [tokens EXCEPT ![t].accessed = TRUE]

(* The calendar is encoded, the access is recorded, and the response goes   *)
(* out.                                                                    *)
Respond(s) ==
    /\ Rendered(s)
    /\ Emits(req[s].body)
    /\ TouchShareToken(req[s].token)
    /\ Continue(s, Idle)
    /\ UNCHANGED <<views, members, calendars, limiterVars>>

(* It cannot be: the whole request fails, whatever else is in the calendar.  *)
RenderFails(s) ==
    /\ Rendered(s)
    /\ ~Emits(req[s].body)
    /\ Continue(s, Idle)
    /\ UNCHANGED <<tables, limiterVars>>

----------------------------------------------------------------------------
(* The pages.  loadOwnedView's check is one on a column that never changes.  *)

(* handleCreateView: CreateView puts titles for an empty preset.           *)
CreateView(u, v, preset) ==
    /\ IsNewId(v, DOMAIN views)
    /\ views' = With(views, v,
         [owner |-> u, preset |-> IF preset = "" THEN "titles" ELSE preset,
          include |-> {"tentative"}, fields |-> <<>>])
    /\ WritesAtOnce
    /\ UNCHANGED <<members, tokens, calendars, retired>>

(* handleUpdateView reads the row; the form sends all but the fields.      *)
OpenSettings(s, v, form) ==
    /\ v \in DOMAIN views
    /\ Begin(s, [op |-> "settings", view |-> v, form |-> form,
                 row |-> [owner |-> views[v].owner, preset |-> form.preset,
                          include |-> form.include, fields |-> views[v].fields]])
    /\ UNCHANGED <<tables, retired, limiterVars>>

Choice(preset, form, f) ==
    CASE form[f] = "replace" /\ f # "SUMMARY" -> "keep"
      [] form[f] \notin Rules -> PresetRules(preset)[f]
      [] OTHER -> form[f]

(* Mutant: what the form leaves at the preset keeps the rule of before.    *)
OverridesMutant(row, form) ==
    LET differing == {f \in ManagedFields :
                        Choice(row.preset, form, f) # PresetRules(row.preset)[f]}
    IN [f \in differing \cup DOMAIN row.fields |->
          IF f \in differing THEN Choice(row.preset, form, f) ELSE row.fields[f]]

(* handleUpdateFields stores what differs from the preset.                 *)
Overrides(row, form) ==
    [f \in {g \in ManagedFields :
              Choice(row.preset, form, g) # PresetRules(row.preset)[g]} |->
       Choice(row.preset, form, f)]

OpenFields(s, v, form) ==
    /\ v \in DOMAIN views
    /\ Begin(s, [op |-> "fields", view |-> v, form |-> form,
                 row |-> [owner |-> views[v].owner, preset |-> views[v].preset,
                          include |-> views[v].include, fields |-> Overrides(views[v], form)]])
    /\ UNCHANGED <<tables, retired, limiterVars>>

(* UpdateView, which writes every column, of both handlers.                *)
SaveView(s) ==
    /\ req[s].op \in {"settings", "fields"}
    /\ views' = [views EXCEPT ![req[s].view] = req[s].row]
    /\ Writes(s)
    /\ UNCHANGED <<members, tokens, calendars, retired>>

(* handleToggleViewCalendar, up to its look at the calendar.               *)
Toggle(s, v, c) ==
    /\ v \in DOMAIN views
    /\ c \in DOMAIN calendars
    /\ calendars[c].owner = views[v].owner
    /\ Begin(s, [op |-> "toggle", phase |-> "members", view |-> v, calendar |-> c])
    /\ UNCHANGED <<tables, retired, limiterVars>>

ToggleReads(s) ==
    /\ req[s].op = "toggle" /\ req[s].phase = "members"
    /\ Continue(s, [op |-> "toggle",
                    phase |-> IF req[s].calendar \in MembersOf(req[s].view) THEN "remove" ELSE "add",
                    view |-> req[s].view, calendar |-> req[s].calendar])
    /\ UNCHANGED <<tables, limiterVars>>

(* RemoveViewCalendar or SetViewCalendar; the foreign key refuses a         *)
(* calendar that has gone, and nobody looks at the error.                  *)
ToggleWrites(s) ==
    LET pair == <<req[s].view, req[s].calendar>> IN
    /\ req[s].op = "toggle" /\ req[s].phase # "members"
    /\ members' =
         IF req[s].phase = "remove" THEN members \ {pair}
         ELSE members \cup {p \in {pair} : p[2] \in DOMAIN calendars}
    /\ Writes(s)
    /\ UNCHANGED <<views, tokens, calendars, retired>>

CreateShareToken(t, v, expires, password) ==
    tokens' = With(tokens, t, [view |-> v, expires |-> expires, password |-> password,
                               revoked |-> FALSE, accessed |-> FALSE])

(* handleCreateToken, whose password and expiry are the form's.            *)
CreateToken(v, t, expires, password) ==
    /\ v \in DOMAIN views
    /\ IsNewId(t, DOMAIN tokens)
    /\ Starts
    /\ CreateShareToken(t, v, expires, password)
    /\ UNCHANGED <<views, members, calendars, req, disturbed, retired, limiterVars>>

RevokeShareToken(t) == tokens' = [tokens EXCEPT ![t].revoked = TRUE]

(* handleRevokeToken, whose look at the owner is one on columns that never  *)
(* change, and the command that revokes.                                   *)
RevokeToken(t) ==
    /\ t \in DOMAIN tokens
    /\ Starts
    /\ RevokeShareToken(t)
    /\ UNCHANGED <<views, members, calendars, req, disturbed, retired, limiterVars>>

----------------------------------------------------------------------------
(* Calendars                                                               *)

CreateCalendar(u, c) ==
    /\ IsNewId(c, DOMAIN calendars)
    /\ calendars' = With(calendars, c, [owner |-> u, objs |-> {}])
    /\ WritesAtOnce
    /\ UNCHANGED <<views, members, tokens, retired>>

(* handleDeleteCalendar, up to its look at the owner.                      *)
AskDelete(s, u, c) ==
    /\ c \in DOMAIN calendars
    /\ calendars[c].owner = u
    /\ Begin(s, [op |-> "delete", calendar |-> c])
    /\ UNCHANGED <<tables, retired, limiterVars>>

(* Mutant: the foreign keys of the views' calendars do not cascade.        *)
DeleteCalendarMutant(s) ==
    LET c == req[s].calendar IN
    /\ req[s].op = "delete"
    /\ calendars' = [d \in DOMAIN calendars \ {c} |-> calendars[d]]
    /\ retired' = retired \cup ({c} \cap DOMAIN calendars)
    /\ Writes(s)
    /\ UNCHANGED <<views, members, tokens>>

(* DeleteCalendar deletes by id, with the rows that refer to it.           *)
DeleteCalendar(s) ==
    LET c == req[s].calendar IN
    /\ req[s].op = "delete"
    /\ calendars' = [d \in DOMAIN calendars \ {c} |-> calendars[d]]
    /\ members' = {m \in members : m[2] # c}
    /\ retired' = retired \cup ({c} \cap DOMAIN calendars)
    /\ Writes(s)
    /\ UNCHANGED <<views, tokens>>

Others(c, uid) == {o \in calendars[c].objs : o.uid # uid}

(* PutObject and DeleteObject, by CalDAV clients of the calendar.          *)
StoreObjects(c, objs) ==
    /\ calendars' = [calendars EXCEPT ![c].objs = objs]
    /\ WritesAtOnce
    /\ UNCHANGED <<views, members, tokens, retired>>

ClientPuts == \E c \in DOMAIN calendars, o \in Resources : StoreObjects(c, Others(c, o.uid) \cup {o})

ClientDeletes ==
    \E c \in DOMAIN calendars : \E o \in calendars[c].objs : StoreObjects(c, Others(c, o.uid))

----------------------------------------------------------------------------
TimePasses == clock < MaxClock /\ Tick /\ UNCHANGED <<tables, req, histories>>

(* The process ends and another starts.                                    *)
Restart ==
    /\ req' = [s \in Slots |-> Idle]
    /\ disturbed' = {}
    /\ Forget
    /\ UNCHANGED <<tables, begun, retired>>

(* Some state of the tables: a view with one calendar, and a link to it.    *)
Init ==
    /\ \E u \in Users, set \in Settings, o \in Resources :
         /\ views = With(<<>>, 1, [owner |-> u, preset |-> set.preset, include |-> set.include,
                                   fields |-> <<>>])
         /\ calendars = With(<<>>, 1, [owner |-> u, objs |-> {o}])
    /\ tokens = With(<<>>, 1, [view |-> 1, expires |-> Never, password |-> FALSE,
                               revoked |-> FALSE, accessed |-> FALSE])
    /\ members = {<<1, 1>>}
    /\ req = [s \in Slots |-> Idle]
    /\ begun = 0 /\ disturbed = {} /\ retired = {}
    /\ LimiterInit

Handle(s) ==
    \/ Allow(s) \/ ReadView(s) \/ ReadMembers(s) \/ RenderCalendar(s) \/ Respond(s) \/ RenderFails(s)
    \/ SaveView(s) \/ ToggleReads(s) \/ ToggleWrites(s) \/ DeleteCalendar(s)

Arrive(s) ==
    \/ \E t \in TokenIds, knows \in BOOLEAN : GetLink(s, t, knows)
    \/ \E v \in ViewIds, form \in Settings : OpenSettings(s, v, form)
    \/ \E v \in ViewIds, form \in FieldForms : OpenFields(s, v, form)
    \/ \E v \in ViewIds, c \in CalendarIds : Toggle(s, v, c)
    \/ \E u \in Users, c \in CalendarIds : AskDelete(s, u, c)

AtOnce ==
    \/ \E u \in Users, v \in ViewIds, preset \in {set.preset : set \in Settings} \cup {""} : CreateView(u, v, preset)
    \/ \E v \in ViewIds, t \in TokenIds, expires \in Lifetimes, password \in BOOLEAN :
         CreateToken(v, t, expires, password)
    \/ \E t \in TokenIds : RevokeToken(t)
    \/ \E u \in Users, c \in CalendarIds : CreateCalendar(u, c)
    \/ ClientPuts
    \/ ClientDeletes

Next ==
    \/ \E s \in Slots : Handle(s) \/ Arrive(s)
    \/ AtOnce
    \/ TimePasses
    \/ Restart

Spec == Init /\ [][Next]_vars

----------------------------------------------------------------------------
FieldsOK(fields) == DOMAIN fields \subseteq ManagedFields /\ \A f \in DOMAIN fields : fields[f] \in Rules

ViewOK(v) ==
    /\ v.owner \in Users /\ v.preset \in Presets /\ v.include \subseteq Kinds
    /\ FieldsOK(v.fields)

TokenRow == [view : DOMAIN views, expires : Lifetimes \cup {Never}, password : BOOLEAN,
             revoked : BOOLEAN, accessed : BOOLEAN]

(* The row that a handler has read, or writes, has the view's owner.        *)
RowOK(r) == r.view \in DOMAIN views /\ ViewOK(r.row) /\ r.row.owner = views[r.view].owner

ReqOK(r) ==
    \/ r = Idle
    \/ /\ r.op = "get" /\ r.token \in DOMAIN tokens
       /\ \/ r.phase = "limit" /\ r.at \in 0 .. clock
          \/ r.phase = "view"
          \/ r.phase = "members" /\ RowOK(r)
          \/ r.phase = "calendars" /\ RowOK(r) /\ r.todo \subseteq CalendarIds
    \/ r.op \in {"settings", "fields"} /\ RowOK(r)
    \/ /\ r.op = "toggle" /\ r.phase \in {"members", "add", "remove"}
       /\ r.view \in DOMAIN views /\ r.calendar \in CalendarIds
    \/ r.op = "delete" /\ r.calendar \in CalendarIds

SharingTypeOK ==
    /\ DOMAIN views \subseteq ViewIds /\ \A v \in DOMAIN views : ViewOK(views[v])
    /\ DOMAIN calendars \subseteq CalendarIds
    /\ \A c \in DOMAIN calendars : calendars[c] \in [owner : Users, objs : SUBSET Resources]
    /\ DOMAIN tokens \subseteq TokenIds /\ \A t \in DOMAIN tokens : tokens[t] \in TokenRow
    /\ members \subseteq (DOMAIN views) \X CalendarIds
    /\ DOMAIN req = Slots /\ \A s \in Slots : ReqOK(req[s])
    /\ begun \in 0 .. MaxRequests /\ disturbed \subseteq Slots /\ retired \subseteq CalendarIds
    /\ LimiterTypeOK

(* The objects whose changed instances and RDATEs are within the bounds     *)
(* that are stored for the series, which leave them out, and whose series   *)
(* ends within the time that is looked at for its end.                     *)
Bounded(o) ==
    LET b == ComputeBounds(o.comps) IN
    /\ Master(o.comps).rule = "count" => Master(o.comps).count <= Wide
    /\ \A c \in Components(o.comps) : \A t \in IF c.rid = NoRid THEN c.rdates ELSE {c.start} :
          b.open \/ (b.first <= t /\ t + DurationOf(c) <= b.last)

(* A link shows what its view allows: a recipient who gets a response        *)
(* during which nobody wrote sees nothing that the view does not mean to    *)
(* show of the view's calendars; and, if the view keeps DTSTAMP, without     *)
(* which there is no response, sees all of that which happens in the window. *)
(* Of irregular resources, and of those whose changed instances are named in *)
(* another zone than the series or by a date, this is not said; and the      *)
(* second not of instances outside the bounds stored for their series, nor  *)
(* if two calendars have resources of one UID, for the changed instances of  *)
(* one replace those of the other.                                         *)
LinkShowsWhatTheViewAllows ==
    \A s \in Slots : Rendered(s) /\ s \notin disturbed =>
        LET objs == UNION {calendars[c].objs : c \in MembersOf(req[s].view)}
            row == views[req[s].view]
            insts == UNION {Instances(o.comps) : o \in objs}
            seen == IF Emits(req[s].body) THEN SeenIn(req[s].body) ELSE {}
        IN
        (\A o \in objs : OneZone(o) /\ Regular(o)) =>
            /\ seen \subseteq MeantOf(insts, row)
            /\ (/\ EffectiveRules(row)["DTSTAMP"] # "strip"
                /\ \A o, p \in objs : Bounded(o) /\ (o.uid = p.uid => o = p)) =>
                 MeantOf(During(insts, From, To), row) \subseteq seen

(* "Only deltas from the preset are stored": a fields form that nobody      *)
(* disturbs makes the view's rules those it chose, with the preset's for     *)
(* what it does not say, and keeps the settings; a settings form keeps the  *)
(* fields.                                                                 *)
FormTakesEffect ==
    [][\A s \in Slots :
         (req[s].op \in {"fields", "settings"} /\ s \notin disturbed /\ req'[s] = Idle /\ views' # views) =>
           LET v == req[s].view
               form == req[s].form
           IN
           IF req[s].op = "fields"
           THEN /\ \A f \in ManagedFields : EffectiveRules(views'[v])[f] = Choice(views[v].preset, form, f)
                /\ views'[v].preset = views[v].preset /\ views'[v].include = views[v].include
           ELSE /\ views'[v].preset = form.preset /\ views'[v].include = form.include
                /\ views'[v].fields = views[v].fields]_vars

Covered(periods) == UNION {Span(p.from, p.to) : p \in periods}

(* The instances of a calendar's events that block time, as far as the      *)
(* asker may know.                                                         *)
Blocking(objs, level) ==
    {i \in UNION {Instances(o.comps) : o \in objs} :
       i.comp.kinds \cap ({"transparent", "cancelled"} \cup
         IF level = "owner" THEN {} ELSE {"private"}) = {}}

Levels == {"owner", "read-write", "read"}

(* A free-busy report covers the time of a calendar's events that block it  *)
(* and that the asker may know of, and no other: of the events not changed  *)
(* instance by instance, whose times DTSTART, DTEND and RRULE say, none of   *)
(* them in progress when the window starts.                                *)
BusyTimeIsReported ==
    \A c \in DOMAIN calendars, level \in Levels :
        LET plain == {o \in calendars[c].objs : Plain(o) /\ Regular(o) /\ ReadInFull(o)}
            blocking == Blocking(plain, level)
        IN
        (\A i \in blocking : i.at >= From \/ i.at + i.dur <= From) =>
            Covered(FreeBusy(plain, level, From, To)) =
                Covered({[from |-> i.at, to |-> i.at + i.dur] : i \in blocking}) \cap Span(From, To)

(* A view shows calendars of its owner: every calendar in a view exists and *)
(* is the owner's, whatever deletions and toggles ran at once, unless its   *)
(* id was another calendar's before.                                       *)
MembersAreOwn ==
    \A m \in members :
        /\ m[2] \in DOMAIN calendars
        /\ m[2] \notin retired => calendars[m[2]].owner = views[m[1]].owner
=============================================================================
