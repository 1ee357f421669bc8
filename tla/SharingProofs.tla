--------------------------- MODULE SharingProofs ---------------------------
(***************************************************************************)
(* The limiter keeps its bound and its word for every maximum and window,   *)
(* and the links use it as specified; views show calendars of their owner;  *)
(* forms take effect; a link shows what its view allows; free-busy reports  *)
(* cover the time that is busy.                                            *)
(***************************************************************************)
EXTENDS Sharing, FiniteSetTheorems, WellFoundedInduction, TLAPS

WindowOf(G, at) == {h \in G : at - Window < h.at /\ h.at <= at}

(* The slice is what was granted less what a window has left behind, as     *)
(* long as the calls come in the order of their times; then each grant has  *)
(* found room in the window that ends with it.                             *)
TokenOK(t) ==
    /\ IsFiniteSet(granted[t])
    /\ hits[t] \subseteq granted[t]
    /\ latest[t] # OutOfOrder =>
         /\ \A h \in granted[t] : h.at <= latest[t]
         /\ \A h \in granted[t] : h.at > latest[t] - Window => h \in hits[t]
         /\ \A g \in granted[t] : Cardinality(WindowOf(granted[t], g.at)) <= MaxHits

LimiterInv == LimiterTypeOK /\ \A t \in TokenIds : TokenOK(t)

(* A set within another and one more element has at most one more.         *)
LEMMA OneMore ==
    ASSUME NEW S, NEW T, NEW x, IsFiniteSet(T), S \subseteq T \cup {x}
    PROVE  IsFiniteSet(S) /\ Cardinality(S) <= Cardinality(T) + 1
  <1>1. IsFiniteSet(T \cup {x}) /\ Cardinality(T \cup {x}) <= Cardinality(T) + 1
    <2>1. Cardinality(T) \in Nat
      BY FS_CardinalityType
    <2>2. IsFiniteSet(T \cup {x})
          /\ (Cardinality(T \cup {x}) = Cardinality(T) \/ Cardinality(T \cup {x}) = Cardinality(T) + 1)
      BY FS_AddElement, Zenon
    <2> QED BY <2>1, <2>2
  <1>2. IsFiniteSet(S) /\ Cardinality(S) <= Cardinality(T \cup {x})
    BY <1>1, FS_Subset
  <1> QED BY <1>1, <1>2, FS_CardinalityType

LEMMA LimiterInitInv == LimiterInit => LimiterInv
  <1> SUFFICES ASSUME LimiterInit PROVE LimiterInv
    OBVIOUS
  <1>1. LimiterTypeOK
    BY DEF LimiterInit, LimiterTypeOK
  <1>2. \A t \in TokenIds : TokenOK(t)
    BY FS_EmptySet DEF LimiterInit, TokenOK
  <1> QED BY <1>1, <1>2 DEF LimiterInv

(* A grant finds room, so the window that ends with it holds at most the    *)
(* maximum, and so does every window that it joins.                        *)
LEMMA GrantInv ==
    ASSUME LimiterInv, NEW t \in TokenIds, NEW now \in 0 .. clock, Grant(t, now)
    PROVE  LimiterInv'
  <1> DEFINE x == NextHit(t, now)
  <1> USE LimiterAssumption
  <1>1. clock \in Nat /\ now \in Nat /\ hits[t] \subseteq granted[t] /\ IsFiniteSet(granted[t])
        /\ granted[t] \subseteq Hit /\ latest[t] \in Nat \cup {OutOfOrder}
    BY DEF LimiterInv, LimiterTypeOK, TokenOK
  <1>2. x \in Hit /\ x.at = now
    BY <1>1, FS_CardinalityType DEF NextHit, Hit
  <1>3. Kept(t, now) \subseteq hits[t] /\ IsFiniteSet(Kept(t, now))
    BY <1>1, FS_Subset DEF Kept
  <1>4. Cardinality(Kept(t, now)) \in Nat /\ Cardinality(Kept(t, now)) < MaxHits
    BY <1>3, FS_CardinalityType DEF Grant, Admits
  <1>5. /\ hits' = [hits EXCEPT ![t] = Kept(t, now) \cup {x}]
        /\ granted' = [granted EXCEPT ![t] = granted[t] \cup {x}]
        /\ latest' = [latest EXCEPT ![t] =
                        IF latest[t] = OutOfOrder \/ now < latest[t] THEN OutOfOrder ELSE now]
        /\ clock' = clock
    BY DEF Grant, Called
  <1>6. LimiterTypeOK'
    <2>1. Kept(t, now) \cup {x} \in SUBSET Hit /\ granted[t] \cup {x} \in SUBSET Hit
      BY <1>1, <1>2, <1>3
    <2> QED BY <1>1, <1>5, <2>1 DEF LimiterInv, LimiterTypeOK
  <1>7. ASSUME NEW u \in TokenIds PROVE TokenOK(u)'
    <2>1. CASE u # t
      BY <1>5, <2>1 DEF LimiterInv, LimiterTypeOK, TokenOK, WindowOf
    <2>2. CASE u = t
      <3>1. hits'[t] = Kept(t, now) \cup {x} /\ granted'[t] = granted[t] \cup {x}
            /\ latest'[t] = IF latest[t] = OutOfOrder \/ now < latest[t] THEN OutOfOrder ELSE now
        BY <1>5 DEF LimiterInv, LimiterTypeOK
      <3>2. IsFiniteSet(granted'[t]) /\ hits'[t] \subseteq granted'[t]
        BY <1>1, <1>3, <3>1, FS_AddElement
      <3>3. ASSUME latest'[t] # OutOfOrder
            PROVE  /\ \A h \in granted'[t] : h.at <= latest'[t]
                   /\ \A h \in granted'[t] : h.at > latest'[t] - Window => h \in hits'[t]
                   /\ \A g \in granted'[t] : Cardinality(WindowOf(granted'[t], g.at)) <= MaxHits
        <4>1. latest[t] \in Nat /\ latest[t] <= now /\ latest'[t] = now
          BY <1>1, <3>1, <3>3
        <4>2. \A h \in granted[t] : h.at \in Nat /\ h.at <= latest[t]
          BY <1>1, <4>1 DEF LimiterInv, TokenOK, OutOfOrder, Hit
        <4>3. \A h \in granted[t] : h.at > now - Window => h \in Kept(t, now)
          BY <1>1, <4>1, <4>2 DEF LimiterInv, TokenOK, OutOfOrder, Kept
        <4>4. Cardinality(WindowOf(granted'[t], now)) <= MaxHits
          <5>1. WindowOf(granted'[t], now) \subseteq Kept(t, now) \cup {x}
            BY <3>1, <4>3 DEF WindowOf
          <5>2. /\ IsFiniteSet(WindowOf(granted'[t], now))
                /\ Cardinality(WindowOf(granted'[t], now)) <= Cardinality(Kept(t, now)) + 1
            BY <1>3, <5>1, OneMore
          <5> QED BY <1>4, <5>2, FS_CardinalityType
        <4>5. ASSUME NEW g \in granted[t], g.at # now
              PROVE  Cardinality(WindowOf(granted'[t], g.at)) <= MaxHits
          <5>1. g.at < now
            BY <1>1, <4>1, <4>2, <4>5
          <5>2. WindowOf(granted'[t], g.at) = WindowOf(granted[t], g.at)
            BY <1>1, <1>2, <3>1, <4>2, <5>1 DEF WindowOf
          <5> QED BY <4>1, <5>2 DEF LimiterInv, TokenOK, OutOfOrder
        <4>6. \A g \in granted'[t] : g.at = now \/ g \in granted[t]
          BY <1>2, <3>1
        <4>7. \A g \in granted'[t] : Cardinality(WindowOf(granted'[t], g.at)) <= MaxHits
          BY <4>4, <4>5, <4>6
        <4>8. \A h \in granted'[t] : h.at <= latest'[t]
          BY <1>1, <1>2, <3>1, <4>1, <4>2
        <4>9. \A h \in granted'[t] : h.at > latest'[t] - Window => h \in hits'[t]
          BY <3>1, <4>1, <4>3
        <4> QED BY <4>7, <4>8, <4>9
      <3> QED BY <2>2, <3>2, <3>3 DEF TokenOK, WindowOf
    <2> QED BY <2>1, <2>2
  <1> QED BY <1>6, <1>7 DEF LimiterInv

(* A refusal drops from the slice only what the window has left behind.     *)
LEMMA RefuseInv ==
    ASSUME LimiterInv, NEW t \in TokenIds, NEW now \in 0 .. clock, Refuse(t, now)
    PROVE  LimiterInv'
  <1> USE LimiterAssumption
  <1>1. clock \in Nat /\ now \in Nat /\ hits[t] \subseteq granted[t]
        /\ granted[t] \subseteq Hit /\ latest[t] \in Nat \cup {OutOfOrder}
    BY DEF LimiterInv, LimiterTypeOK, TokenOK
  <1>2. /\ hits' = [hits EXCEPT ![t] = Kept(t, now)]
        /\ granted' = granted
        /\ latest' = [latest EXCEPT ![t] =
                        IF latest[t] = OutOfOrder \/ now < latest[t] THEN OutOfOrder ELSE now]
        /\ clock' = clock
    BY DEF Refuse, Called
  <1>3. LimiterTypeOK'
    BY <1>1, <1>2 DEF LimiterInv, LimiterTypeOK, Kept
  <1>4. ASSUME NEW u \in TokenIds PROVE TokenOK(u)'
    <2>1. CASE u # t
      BY <1>2, <2>1 DEF LimiterInv, LimiterTypeOK, TokenOK, WindowOf
    <2>2. CASE u = t
      <3>1. hits'[t] = Kept(t, now)
            /\ latest'[t] = IF latest[t] = OutOfOrder \/ now < latest[t] THEN OutOfOrder ELSE now
        BY <1>2 DEF LimiterInv, LimiterTypeOK
      <3>2. IsFiniteSet(granted[t]) /\ Kept(t, now) \subseteq granted[t]
        BY <1>1 DEF LimiterInv, TokenOK, Kept
      <3>3. ASSUME latest'[t] # OutOfOrder
            PROVE  /\ \A h \in granted[t] : h.at <= latest'[t]
                   /\ \A h \in granted[t] : h.at > latest'[t] - Window => h \in Kept(t, now)
                   /\ \A g \in granted[t] : Cardinality(WindowOf(granted[t], g.at)) <= MaxHits
        <4>1. latest[t] \in Nat /\ latest[t] <= now /\ latest'[t] = now
          BY <1>1, <3>1, <3>3
        <4>2. \A h \in granted[t] : h.at \in Nat /\ h.at <= latest[t]
          BY <1>1, <4>1 DEF LimiterInv, TokenOK, OutOfOrder, Hit
        <4>3. \A h \in granted[t] : h.at > now - Window => h \in Kept(t, now)
          BY <1>1, <4>1, <4>2 DEF LimiterInv, TokenOK, OutOfOrder, Kept
        <4>4. \A g \in granted[t] : Cardinality(WindowOf(granted[t], g.at)) <= MaxHits
          BY <4>1 DEF LimiterInv, TokenOK, OutOfOrder
        <4> QED BY <1>1, <4>1, <4>2, <4>3, <4>4
      <3> QED BY <1>2, <2>2, <3>1, <3>2, <3>3 DEF TokenOK, WindowOf
    <2> QED BY <2>1, <2>2
  <1> QED BY <1>3, <1>4 DEF LimiterInv

LEMMA LimiterNextInv == LimiterInv /\ [LimiterNext]_limiterVars => LimiterInv'
  <1> SUFFICES ASSUME LimiterInv, [LimiterNext]_limiterVars PROVE LimiterInv'
    OBVIOUS
  <1>1. ASSUME NEW t \in TokenIds, NEW now \in 0 .. clock, Grant(t, now) \/ Refuse(t, now)
        PROVE  LimiterInv'
    BY <1>1, GrantInv, RefuseInv
  <1>2. CASE Tick
    BY <1>2 DEF Tick, LimiterInv, LimiterTypeOK, TokenOK, WindowOf
  <1>3. CASE Forget
    <2>1. LimiterTypeOK'
      BY <1>3 DEF Forget, LimiterInv, LimiterTypeOK
    <2>2. \A t \in TokenIds : TokenOK(t)'
      BY <1>3, FS_EmptySet DEF Forget, TokenOK
    <2> QED BY <2>1, <2>2 DEF LimiterInv
  <1>4. CASE UNCHANGED limiterVars
    BY <1>4 DEF limiterVars, LimiterInv, LimiterTypeOK, TokenOK, WindowOf
  <1> QED BY <1>1, <1>2, <1>3, <1>4 DEF LimiterNext

LEMMA LimiterInvAlways == LimiterSpec => []LimiterInv
  BY LimiterInitInv, LimiterNextInv, PTL DEF LimiterSpec

(* The limiter by itself lets at most max requests of a token through in    *)
(* any window, for any order of calls that respects their times.           *)
THEOREM LimiterKeepsBound == LimiterSpec => []AtMostMaxPerWindow
  <1>1. LimiterInv => AtMostMaxPerWindow
    BY DEF LimiterInv, TokenOK, WindowOf, AtMostMaxPerWindow
  <1> QED BY <1>1, LimiterInvAlways, PTL

----------------------------------------------------------------------------
(* The links use the limiter.                                              *)

LEMMA UsesLimiterStep == SharingTypeOK /\ [Next]_vars => [LimiterNext]_limiterVars
  <1> SUFFICES ASSUME SharingTypeOK, [Next]_vars PROVE [LimiterNext]_limiterVars
    OBVIOUS
  <1> USE DEF Begin, Continue, Writes, WritesAtOnce
  <1>1. ASSUME NEW s \in Slots, Allow(s) PROVE LimiterNext
    <2>1. req[s].token \in TokenIds /\ req[s].at \in 0 .. clock /\ clock \in Nat
      BY <1>1 DEF Allow, InPhase, SharingTypeOK, ReqOK, LimiterTypeOK
    <2>2. PICK now \in req[s].at .. clock : Grant(req[s].token, now) \/ Refuse(req[s].token, now)
      BY <1>1 DEF Allow
    <2>3. now \in 0 .. clock
      BY <2>1, <2>2
    <2> QED BY <2>1, <2>2, <2>3 DEF LimiterNext
  <1>2. ASSUME NEW s \in Slots, Handle(s), ~Allow(s) PROVE UNCHANGED limiterVars
    BY <1>2 DEF Handle, ReadView, ReadMembers, RenderCalendar, Respond, RenderFails, TouchShareToken, SaveView, ToggleReads,
                ToggleWrites, DeleteCalendar
  <1>3. ASSUME NEW s \in Slots, Arrive(s) PROVE UNCHANGED limiterVars
    BY <1>3 DEF Arrive, GetLink, OpenSettings, OpenFields, Toggle, AskDelete
  <1>4. CASE AtOnce
    BY <1>4 DEF AtOnce, CreateView, CreateToken, CreateShareToken, RevokeToken, RevokeShareToken, CreateCalendar, ClientPuts,
                ClientDeletes, StoreObjects
  <1>5. CASE TimePasses
    BY <1>5 DEF TimePasses, LimiterNext
  <1>6. CASE Restart
    BY <1>6 DEF Restart, LimiterNext
  <1>7. CASE UNCHANGED vars
    BY <1>7 DEF vars, limiterVars
  <1> QED BY <1>1, <1>2, <1>3, <1>4, <1>5, <1>6, <1>7 DEF Next

----------------------------------------------------------------------------
(* Types                                                                   *)

(* ReqOK of given tables.                                                  *)
RowIn(r, vs) == r.view \in DOMAIN vs /\ ViewOK(r.row) /\ r.row.owner = vs[r.view].owner

ReqIn(r, vs, ts, now) ==
    \/ r = Idle
    \/ /\ r.op = "get" /\ r.token \in DOMAIN ts
       /\ \/ r.phase = "limit" /\ r.at \in 0 .. now
          \/ r.phase = "view"
          \/ r.phase = "members" /\ RowIn(r, vs)
          \/ r.phase = "calendars" /\ RowIn(r, vs) /\ r.todo \subseteq CalendarIds
    \/ r.op \in {"settings", "fields"} /\ RowIn(r, vs)
    \/ /\ r.op = "toggle" /\ r.phase \in {"members", "add", "remove"}
       /\ r.view \in DOMAIN vs /\ r.calendar \in CalendarIds
    \/ r.op = "delete" /\ r.calendar \in CalendarIds

Grows ==
    /\ DOMAIN views \subseteq DOMAIN views'
    /\ \A v \in DOMAIN views : views'[v].owner = views[v].owner
    /\ DOMAIN tokens \subseteq DOMAIN tokens'
    /\ clock \in Nat /\ clock' \in Nat /\ clock <= clock'

LEMMA ReqIs ==
    /\ (\A s \in Slots : ReqOK(req[s])) <=> \A s \in Slots : ReqIn(req[s], views, tokens, clock)
    /\ (\A s \in Slots : ReqOK(req[s]))' <=> \A s \in Slots : ReqIn(req'[s], views', tokens', clock')
  BY DEF ReqOK, ReqIn, RowOK, RowIn, ViewOK, FieldsOK

(* What a handler has read stays true of the tables as they grow.           *)
LEMMA ReqStays ==
    ASSUME NEW r, ReqIn(r, views, tokens, clock), Grows
    PROVE  ReqIn(r, views', tokens', clock')
  <1>1. RowIn(r, views) => RowIn(r, views')
    BY DEF RowIn, Grows
  <1> QED BY <1>1 DEF ReqIn, Grows

(* A step that gives one slot something good to do.                         *)
LEMMA ReqStep ==
    ASSUME SharingTypeOK, Grows, NEW s, NEW r, ReqIn(r, views', tokens', clock'),
           req' = [req EXCEPT ![s] = r] \/ req' = req
    PROVE  (DOMAIN req = Slots /\ \A x \in Slots : ReqOK(req[x]))'
  <1>1. DOMAIN req' = Slots
    BY DEF SharingTypeOK
  <1>2. ASSUME NEW x \in Slots PROVE ReqIn(req'[x], views', tokens', clock')
    <2>1. ReqIn(req[x], views, tokens, clock)
      BY ReqIs DEF SharingTypeOK
    <2>2. ReqIn(req[x], views', tokens', clock')
      BY <2>1, ReqStays
    <2>3. req'[x] = r \/ req'[x] = req[x]
      BY DEF SharingTypeOK
    <2> QED BY <2>2, <2>3
  <1> QED BY <1>1, <1>2, ReqIs

TablesOK ==
    /\ DOMAIN views \subseteq ViewIds /\ \A v \in DOMAIN views : ViewOK(views[v])
    /\ DOMAIN calendars \subseteq CalendarIds
    /\ \A c \in DOMAIN calendars : calendars[c] \in [owner : Users, objs : SUBSET Resources]
    /\ DOMAIN tokens \subseteq TokenIds /\ \A t \in DOMAIN tokens : tokens[t] \in TokenRow
    /\ members \subseteq (DOMAIN views) \X CalendarIds

HistoriesOK == begun \in 0 .. MaxRequests /\ disturbed \subseteq Slots /\ retired \subseteq CalendarIds

LEMMA Split ==
    /\ SharingTypeOK <=> /\ TablesOK /\ HistoriesOK /\ LimiterTypeOK
                         /\ DOMAIN req = Slots /\ \A s \in Slots : ReqOK(req[s])
    /\ SharingTypeOK' <=> /\ TablesOK' /\ HistoriesOK' /\ LimiterTypeOK'
                          /\ (DOMAIN req = Slots /\ \A s \in Slots : ReqOK(req[s]))'
  BY DEF SharingTypeOK, TablesOK, HistoriesOK

LEMMA HistoriesStep ==
    ASSUME SharingTypeOK, [Next]_vars
    PROVE  HistoriesOK'
  <1> USE SharingAssumption DEF Begin, Continue, Writes, WritesAtOnce, Starts, histories
  <1>0. HistoriesOK
    BY DEF SharingTypeOK, HistoriesOK
  <1>1. ASSUME NEW s \in Slots, Handle(s) PROVE HistoriesOK'
    <2>1. CASE DeleteCalendar(s)
      <3>1. DOMAIN calendars \subseteq CalendarIds
        BY DEF SharingTypeOK
      <3> QED BY <1>0, <2>1, <3>1 DEF DeleteCalendar, HistoriesOK
    <2>2. CASE Allow(s) \/ ReadMembers(s) \/ RenderCalendar(s) \/ Respond(s) \/ RenderFails(s) \/ ToggleReads(s)
      <3>1. UNCHANGED histories
        BY <2>2 DEF Allow, ReadMembers, RenderCalendar, Respond, RenderFails, TouchShareToken, ToggleReads
      <3> QED BY <1>0, <3>1 DEF HistoriesOK
    <2>3. CASE ReadView(s) \/ SaveView(s) \/ ToggleWrites(s)
      <3>1. UNCHANGED <<begun, retired>> /\ disturbed' \subseteq Slots \cup disturbed
        BY <2>3 DEF ReadView, SaveView, ToggleWrites
      <3> QED BY <1>0, <3>1 DEF HistoriesOK
    <2> QED BY <1>1, <2>1, <2>2, <2>3 DEF Handle
  <1>2. ASSUME NEW s \in Slots, Arrive(s) PROVE HistoriesOK'
    <2>1. Starts /\ disturbed' \subseteq disturbed /\ retired' = retired
      BY <1>2 DEF Arrive, GetLink, OpenSettings, OpenFields, Toggle, AskDelete
    <2> QED BY <1>0, <2>1 DEF HistoriesOK
  <1>3. CASE AtOnce
    <2>1. Starts /\ disturbed' \subseteq Slots \cup disturbed /\ retired' = retired
      BY <1>3 DEF AtOnce, CreateView, CreateToken, CreateShareToken, RevokeToken, RevokeShareToken, CreateCalendar, ClientPuts,
                  ClientDeletes, StoreObjects
    <2> QED BY <1>0, <2>1 DEF HistoriesOK
  <1>4. CASE TimePasses
    BY <1>0, <1>4 DEF TimePasses, HistoriesOK
  <1>5. CASE Restart
    BY <1>0, <1>5 DEF Restart, HistoriesOK
  <1>6. CASE UNCHANGED vars
    BY <1>0, <1>6 DEF vars, HistoriesOK
  <1> QED BY <1>1, <1>2, <1>3, <1>4, <1>5, <1>6 DEF Next

(* The rules of a preset, and what a fields form makes of them.             *)
LEMMA OverridesTyped ==
    ASSUME NEW row, NEW form PROVE FieldsOK(Overrides(row, form))
  <1>1. \A f \in ManagedFields : PresetRules(row.preset)[f] \in Rules
    BY DEF PresetRules, Rules
  <1>2. \A f \in ManagedFields : Choice(row.preset, form, f) \in Rules
    BY <1>1 DEF Choice, Rules
  <1> QED BY <1>2 DEF FieldsOK, Overrides

LEMMA ClockGrows ==
    ASSUME SharingTypeOK, [Next]_vars
    PROVE  clock \in Nat /\ clock' \in Nat /\ clock <= clock'
  <1>1. clock \in Nat /\ [LimiterNext]_limiterVars
    BY UsesLimiterStep DEF SharingTypeOK, LimiterTypeOK
  <1>2. clock' = clock \/ clock' = clock + 1
    BY <1>1 DEF LimiterNext, Grant, Refuse, Tick, Forget, limiterVars
  <1> QED BY <1>1, <1>2

(* A handler that only reads.                                              *)
LEMMA SameTables ==
    ASSUME SharingTypeOK, [Next]_vars, UNCHANGED tables
    PROVE  TablesOK' /\ Grows
  <1>1. TablesOK
    BY Split
  <1>2. TablesOK'
    BY <1>1 DEF TablesOK, tables, TokenRow, ViewOK, FieldsOK
  <1> QED BY <1>2, ClockGrows DEF tables, Grows

LEMMA ArriveTyped ==
    ASSUME SharingTypeOK, [Next]_vars, NEW s \in Slots, Arrive(s)
    PROVE  TablesOK' /\ (DOMAIN req = Slots /\ \A x \in Slots : ReqOK(req[x]))'
  <1>1. UNCHANGED tables /\ clock' = clock
    BY DEF Arrive, GetLink, OpenSettings, OpenFields, Toggle, AskDelete, limiterVars
  <1>2. TablesOK /\ TablesOK' /\ Grows
    BY <1>1, SameTables, Split
  <1>3. ASSUME NEW t \in TokenIds, NEW knows \in BOOLEAN, GetLink(s, t, knows)
        PROVE  \E r : ReqIn(r, views, tokens, clock) /\ req' = [req EXCEPT ![s] = r]
    <2>1. ReqIn([op |-> "get", phase |-> "limit", token |-> t, at |-> clock], views, tokens, clock)
      BY <1>3, ClockGrows DEF GetLink, ReqIn
    <2>2. ReqIn(Idle, views, tokens, clock)
      BY DEF ReqIn
    <2> QED BY <1>3, <2>1, <2>2 DEF GetLink, Begin
  <1>4. ASSUME NEW v \in ViewIds, NEW form \in Settings, OpenSettings(s, v, form)
        PROVE  \E r : ReqIn(r, views, tokens, clock) /\ req' = [req EXCEPT ![s] = r]
    <2> DEFINE r == [op |-> "settings", view |-> v, form |-> form,
                     row |-> [owner |-> views[v].owner, preset |-> form.preset,
                              include |-> form.include, fields |-> views[v].fields]]
    <2>1. v \in DOMAIN views /\ req' = [req EXCEPT ![s] = r]
      BY <1>4 DEF OpenSettings, Begin
    <2>2. ViewOK(views[v]) /\ form.preset \in Presets /\ form.include \subseteq Kinds
      BY <1>2, <2>1, SharingAssumption DEF TablesOK
    <2>3. ReqIn(r, views, tokens, clock)
      BY <2>1, <2>2 DEF ReqIn, RowIn, ViewOK
    <2> QED BY <2>1, <2>3
  <1>5. ASSUME NEW v \in ViewIds, NEW form \in FieldForms, OpenFields(s, v, form)
        PROVE  \E r : ReqIn(r, views, tokens, clock) /\ req' = [req EXCEPT ![s] = r]
    <2> DEFINE r == [op |-> "fields", view |-> v, form |-> form,
                     row |-> [owner |-> views[v].owner, preset |-> views[v].preset,
                              include |-> views[v].include, fields |-> Overrides(views[v], form)]]
    <2>1. v \in DOMAIN views /\ req' = [req EXCEPT ![s] = r]
      BY <1>5 DEF OpenFields, Begin
    <2>2. ViewOK(views[v]) /\ FieldsOK(Overrides(views[v], form))
      BY <1>2, <2>1, OverridesTyped DEF TablesOK
    <2>3. ReqIn(r, views, tokens, clock)
      BY <2>1, <2>2 DEF ReqIn, RowIn, ViewOK
    <2> QED BY <2>1, <2>3
  <1>6. ASSUME NEW v \in ViewIds, NEW c \in CalendarIds, Toggle(s, v, c)
        PROVE  \E r : ReqIn(r, views, tokens, clock) /\ req' = [req EXCEPT ![s] = r]
    BY <1>6 DEF Toggle, Begin, ReqIn
  <1>7. ASSUME NEW u \in Users, NEW c \in CalendarIds, AskDelete(s, u, c)
        PROVE  \E r : ReqIn(r, views, tokens, clock) /\ req' = [req EXCEPT ![s] = r]
    BY <1>7 DEF AskDelete, Begin, ReqIn
  <1>8. PICK r : ReqIn(r, views, tokens, clock) /\ req' = [req EXCEPT ![s] = r]
    BY <1>3, <1>4, <1>5, <1>6, <1>7 DEF Arrive
  <1>9. ReqIn(r, views', tokens', clock')
    BY <1>2, <1>8, ReqStays
  <1> QED BY <1>2, <1>8, <1>9, ReqStep

LEMMA HandleTyped ==
    ASSUME SharingTypeOK, [Next]_vars, NEW s \in Slots, Handle(s)
    PROVE  TablesOK' /\ (DOMAIN req = Slots /\ \A x \in Slots : ReqOK(req[x]))'
  <1>1. TablesOK /\ ReqIn(req[s], views, tokens, clock)
    BY Split, ReqIs
  <1>2. ReqIn(Idle, views', tokens', clock')
    BY DEF ReqIn
  <1> DEFINE Reads == UNCHANGED tables
                      /\ \E r : ReqIn(r, views, tokens, clock) /\ req' = [req EXCEPT ![s] = r]
  <1>3. ASSUME Reads PROVE TablesOK' /\ (DOMAIN req = Slots /\ \A x \in Slots : ReqOK(req[x]))'
    <2>1. TablesOK' /\ Grows
      BY <1>3, SameTables
    <2>2. PICK r : ReqIn(r, views, tokens, clock) /\ req' = [req EXCEPT ![s] = r]
      BY <1>3
    <2>3. ReqIn(r, views', tokens', clock')
      BY <2>1, <2>2, ReqStays
    <2> QED BY <2>1, <2>2, <2>3, ReqStep
  <1>4. CASE Allow(s)
    <2> DEFINE r == [op |-> "get", phase |-> "view", token |-> req[s].token]
    <2>1. req[s].op = "get" /\ req[s] # Idle /\ UNCHANGED tables
          /\ (req' = [req EXCEPT ![s] = r] \/ req' = [req EXCEPT ![s] = Idle])
      BY <1>4 DEF Allow, InPhase, Continue
    <2>2. req[s].token \in DOMAIN tokens
      BY <1>1, <2>1 DEF ReqIn, Idle
    <2>3. ReqIn(r, views, tokens, clock) /\ ReqIn(Idle, views, tokens, clock)
      BY <2>2 DEF ReqIn
    <2> QED BY <1>3, <2>1, <2>3
  <1>5. CASE ReadView(s)
    <2> DEFINE v == tokens[req[s].token].view
               r == [op |-> "get", phase |-> "members", token |-> req[s].token,
                     view |-> v, row |-> views[v]]
    <2>1. req[s].op = "get" /\ UNCHANGED tables /\ req' = [req EXCEPT ![s] = r]
      BY <1>5 DEF ReadView, InPhase
    <2>2. req[s].token \in DOMAIN tokens
      BY <1>1, <2>1 DEF ReqIn, Idle
    <2>3. v \in DOMAIN views
      BY <1>1, <2>2 DEF TablesOK, TokenRow
    <2>4. ViewOK(views[v])
      BY <1>1, <2>3 DEF TablesOK
    <2>5. ReqIn(r, views, tokens, clock)
      BY <2>2, <2>3, <2>4 DEF ReqIn, RowIn
    <2> QED BY <1>3, <2>1, <2>5
  <1>6. CASE ReadMembers(s)
    <2> DEFINE r == [op |-> "get", phase |-> "calendars", token |-> req[s].token,
                     view |-> req[s].view, row |-> req[s].row,
                     todo |-> MembersOf(req[s].view), body |-> {}]
    <2>1. req[s].op = "get" /\ req[s].phase = "members" /\ UNCHANGED tables
          /\ req' = [req EXCEPT ![s] = r]
      BY <1>6 DEF ReadMembers, InPhase, Continue
    <2>2. req[s].token \in DOMAIN tokens /\ RowIn(req[s], views)
      BY <1>1, <2>1 DEF ReqIn, Idle
    <2>3. MembersOf(req[s].view) \subseteq CalendarIds
      BY <1>1 DEF TablesOK, MembersOf
    <2>4. ReqIn(r, views, tokens, clock)
      BY <2>2, <2>3 DEF ReqIn, RowIn
    <2> QED BY <1>3, <2>1, <2>4
  <1>7. CASE RenderCalendar(s)
    <2>1. PICK c \in req[s].todo :
            Continue(s, [op |-> "get", phase |-> "calendars", token |-> req[s].token,
                         view |-> req[s].view, row |-> req[s].row, todo |-> req[s].todo \ {c},
                         body |-> req[s].body \cup
                                    IF c \in DOMAIN calendars
                                    THEN Apply(InWindow(calendars[c].objs), req[s].row)
                                    ELSE {}])
      BY <1>7 DEF RenderCalendar
    <2> DEFINE b == req[s].body \cup IF c \in DOMAIN calendars
                                     THEN Apply(InWindow(calendars[c].objs), req[s].row)
                                     ELSE {}
               r == [op |-> "get", phase |-> "calendars", token |-> req[s].token,
                     view |-> req[s].view, row |-> req[s].row, todo |-> req[s].todo \ {c},
                     body |-> b]
    <2>2. req[s].op = "get" /\ req[s].phase = "calendars" /\ UNCHANGED tables
          /\ req' = [req EXCEPT ![s] = r]
      BY <1>7, <2>1 DEF RenderCalendar, InPhase, Continue
    <2>3. req[s].token \in DOMAIN tokens /\ RowIn(req[s], views) /\ req[s].todo \subseteq CalendarIds
      BY <1>1, <2>2 DEF ReqIn, Idle
    <2> HIDE DEF b
    <2>4. ReqIn(r, views, tokens, clock)
      BY <2>3 DEF ReqIn, RowIn
    <2> QED BY <1>3, <2>2, <2>4
  <1>8. CASE Respond(s)
    <2>1. req[s].op = "get" /\ UNCHANGED <<views, members, calendars>>
          /\ tokens' = [tokens EXCEPT ![req[s].token].accessed = TRUE]
          /\ req' = [req EXCEPT ![s] = Idle]
      BY <1>8 DEF Respond, TouchShareToken, Rendered, InPhase, Continue
    <2>2. TablesOK'
      BY <1>1, <2>1, ZenonT(30) DEF TablesOK, TokenRow, ViewOK, FieldsOK
    <2>3. Grows
      BY <2>1, ClockGrows DEF Grows
    <2> QED BY <1>2, <2>1, <2>2, <2>3, ReqStep
  <1>9. CASE SaveView(s)
    <2>1. req[s].op \in {"settings", "fields"} /\ UNCHANGED <<members, tokens, calendars>>
          /\ views' = [views EXCEPT ![req[s].view] = req[s].row]
          /\ req' = [req EXCEPT ![s] = Idle]
      BY <1>9 DEF SaveView, Writes
    <2>2. RowIn(req[s], views)
      BY <1>1, <2>1 DEF ReqIn, Idle
    <2>3. DOMAIN views' = DOMAIN views
          /\ \A v \in DOMAIN views : ViewOK(views'[v]) /\ views'[v].owner = views[v].owner
      BY <1>1, <2>1, <2>2 DEF RowIn, TablesOK
    <2>4. TablesOK'
      BY <1>1, <2>1, <2>3 DEF TablesOK, TokenRow, ViewOK, FieldsOK
    <2>5. Grows
      BY <2>1, <2>3, ClockGrows DEF Grows
    <2> QED BY <1>2, <2>1, <2>4, <2>5, ReqStep
  <1>10. CASE ToggleReads(s)
    <2> DEFINE p == IF req[s].calendar \in MembersOf(req[s].view) THEN "remove" ELSE "add"
               r == [op |-> "toggle", phase |-> p, view |-> req[s].view,
                     calendar |-> req[s].calendar]
    <2>1. req[s].op = "toggle" /\ UNCHANGED tables /\ req' = [req EXCEPT ![s] = r]
      BY <1>10 DEF ToggleReads, Continue
    <2>2. req[s].view \in DOMAIN views /\ req[s].calendar \in CalendarIds
      BY <1>1, <2>1 DEF ReqIn, Idle
    <2>3. ReqIn(r, views, tokens, clock)
      BY <2>2 DEF ReqIn
    <2> QED BY <1>3, <2>1, <2>3
  <1>11. CASE ToggleWrites(s)
    <2>1. req[s].op = "toggle" /\ UNCHANGED <<views, tokens, calendars>>
          /\ members' \subseteq members \cup {<<req[s].view, req[s].calendar>>}
          /\ req' = [req EXCEPT ![s] = Idle]
      BY <1>11 DEF ToggleWrites, Writes
    <2>2. req[s].view \in DOMAIN views /\ req[s].calendar \in CalendarIds
      BY <1>1, <2>1 DEF ReqIn, Idle
    <2>3. TablesOK'
      BY <1>1, <2>1, <2>2 DEF TablesOK, TokenRow, ViewOK, FieldsOK
    <2>4. Grows
      BY <2>1, ClockGrows DEF Grows
    <2> QED BY <1>2, <2>1, <2>3, <2>4, ReqStep
  <1>12. CASE DeleteCalendar(s)
    <2>1. UNCHANGED <<views, tokens>> /\ members' \subseteq members
          /\ calendars' = [d \in DOMAIN calendars \ {req[s].calendar} |-> calendars[d]]
          /\ req' = [req EXCEPT ![s] = Idle]
      BY <1>12 DEF DeleteCalendar, Writes
    <2>2. TablesOK'
      BY <1>1, <2>1 DEF TablesOK, TokenRow, ViewOK, FieldsOK
    <2>3. Grows
      BY <2>1, ClockGrows DEF Grows
    <2> QED BY <1>2, <2>1, <2>2, <2>3, ReqStep
  <1>13. CASE RenderFails(s)
    <2>1. UNCHANGED tables /\ req' = [req EXCEPT ![s] = Idle]
      BY <1>13 DEF RenderFails, Continue
    <2>2. ReqIn(Idle, views, tokens, clock)
      BY DEF ReqIn
    <2> QED BY <1>3, <2>1, <2>2
  <1> QED BY <1>4, <1>5, <1>6, <1>7, <1>8, <1>9, <1>10, <1>11, <1>12, <1>13 DEF Handle

LEMMA IdIsNew == ASSUME NEW id \in Nat, NEW ids, IsNewId(id, ids) PROVE id \notin ids
  BY DEF IsNewId

LEMMA EmptyFields == FieldsOK(<<>>)
  <1>1. DOMAIN <<>> = {}
    OBVIOUS
  <1> QED BY <1>1 DEF FieldsOK

LEMMA AtOnceTyped ==
    ASSUME SharingTypeOK, [Next]_vars, AtOnce
    PROVE  TablesOK' /\ (DOMAIN req = Slots /\ \A x \in Slots : ReqOK(req[x]))'
  <1>1. TablesOK /\ req' = req
    BY Split DEF AtOnce, CreateView, CreateToken, CreateShareToken, RevokeToken, RevokeShareToken, CreateCalendar, ClientPuts,
                 ClientDeletes, StoreObjects, WritesAtOnce
  <1>2. ASSUME TablesOK', Grows
        PROVE  TablesOK' /\ (DOMAIN req = Slots /\ \A x \in Slots : ReqOK(req[x]))'
    BY <1>1, <1>2, ReqStep, ReqIs DEF ReqIn
  <1>3. ASSUME NEW u \in Users, NEW v \in ViewIds,
               NEW preset \in {set.preset : set \in Settings} \cup {""}, CreateView(u, v, preset)
        PROVE  TablesOK' /\ Grows
    <2> DEFINE row == [owner |-> u, preset |-> IF preset = "" THEN "titles" ELSE preset,
                       include |-> {"tentative"}, fields |-> <<>>]
    <2>1. views' = With(views, v, row) /\ v \notin DOMAIN views /\ UNCHANGED <<members, tokens, calendars>>
      <3>1. v \in Nat
        BY SharingAssumption
      <3>2. views' = With(views, v, row) /\ IsNewId(v, DOMAIN views)
            /\ UNCHANGED <<members, tokens, calendars>>
        BY <1>3 DEF CreateView
      <3>3. v \notin DOMAIN views
        <4> HIDE DEF row
        <4> QED BY <3>1, <3>2, IdIsNew
      <3> QED BY <3>2, <3>3
    <2>2. FieldsOK(<<>>)
      BY EmptyFields
    <2>3. row.preset \in Presets
      BY SharingAssumption DEF Presets
    <2>4. ViewOK(row)
      BY <2>2, <2>3 DEF ViewOK, Kinds
    <2> HIDE DEF row
    <2>5. DOMAIN views' = DOMAIN views \cup {v} /\ views'[v] = row
          /\ \A w \in DOMAIN views : views'[w] = views[w]
      BY <2>1 DEF With
    <2>6. TablesOK'
      BY <1>1, <2>1, <2>4, <2>5 DEF TablesOK, TokenRow, ViewOK, FieldsOK
    <2> QED BY <2>1, <2>5, <2>6, ClockGrows DEF Grows
  <1>4. ASSUME NEW v \in ViewIds, NEW t \in TokenIds, NEW expires \in Lifetimes,
               NEW password \in BOOLEAN, CreateToken(v, t, expires, password)
        PROVE  TablesOK' /\ Grows
    <2> DEFINE row == [view |-> v, expires |-> expires, password |-> password,
                       revoked |-> FALSE, accessed |-> FALSE]
    <2>1. tokens' = With(tokens, t, row) /\ v \in DOMAIN views /\ UNCHANGED <<views, members, calendars>>
      BY <1>4 DEF CreateToken, CreateShareToken
    <2>2. row \in TokenRow
      BY <2>1 DEF TokenRow
    <2> HIDE DEF row
    <2>3. DOMAIN tokens' = DOMAIN tokens \cup {t} /\ tokens'[t] = row
          /\ \A w \in DOMAIN tokens : w # t => tokens'[w] = tokens[w]
      BY <2>1 DEF With
    <2>4. TablesOK'
      BY <1>1, <2>1, <2>2, <2>3 DEF TablesOK, TokenRow, ViewOK, FieldsOK
    <2> QED BY <2>1, <2>3, <2>4, ClockGrows DEF Grows
  <1>5. ASSUME NEW t \in TokenIds, RevokeToken(t) PROVE TablesOK' /\ Grows
    <2>1. t \in DOMAIN tokens /\ tokens' = [tokens EXCEPT ![t].revoked = TRUE]
          /\ UNCHANGED <<views, members, calendars>>
      BY <1>5 DEF RevokeToken, RevokeShareToken
    <2>2. TablesOK'
      BY <1>1, <2>1 DEF TablesOK, TokenRow, ViewOK, FieldsOK
    <2> QED BY <2>1, <2>2, ClockGrows DEF Grows
  <1>6. ASSUME NEW u \in Users, NEW c \in CalendarIds, CreateCalendar(u, c) PROVE TablesOK' /\ Grows
    <2>1. calendars' = With(calendars, c, [owner |-> u, objs |-> {}])
          /\ UNCHANGED <<views, members, tokens>>
      BY <1>6 DEF CreateCalendar
    <2>2. TablesOK'
      BY <1>1, <2>1 DEF With, TablesOK, TokenRow, ViewOK, FieldsOK
    <2> QED BY <2>1, <2>2, ClockGrows DEF Grows
  <1>7. ASSUME NEW c \in DOMAIN calendars, NEW objs \in SUBSET Resources, StoreObjects(c, objs)
        PROVE  TablesOK' /\ Grows
    <2>1. calendars' = [calendars EXCEPT ![c].objs = objs] /\ UNCHANGED <<views, members, tokens>>
      BY <1>7 DEF StoreObjects
    <2>2. TablesOK'
      BY <1>1, <2>1 DEF TablesOK, TokenRow, ViewOK, FieldsOK
    <2> QED BY <2>1, <2>2, ClockGrows DEF Grows
  <1>8. CASE ClientPuts
    <2>1. PICK c \in DOMAIN calendars, o \in Resources : StoreObjects(c, Others(c, o.uid) \cup {o})
      BY <1>8 DEF ClientPuts
    <2>2. Others(c, o.uid) \cup {o} \in SUBSET Resources
      BY <1>1 DEF TablesOK, Others
    <2> QED BY <1>2, <1>7, <2>1, <2>2
  <1>9. CASE ClientDeletes
    <2>1. PICK c \in DOMAIN calendars : \E o \in calendars[c].objs : StoreObjects(c, Others(c, o.uid))
      BY <1>9 DEF ClientDeletes
    <2>2. PICK o \in calendars[c].objs : StoreObjects(c, Others(c, o.uid))
      BY <2>1
    <2>3. Others(c, o.uid) \in SUBSET Resources
      BY <1>1 DEF TablesOK, Others
    <2> QED BY <1>2, <1>7, <2>2, <2>3
  <1> QED BY <1>2, <1>3, <1>4, <1>5, <1>6, <1>8, <1>9 DEF AtOnce

LEMMA NextTyped ==
    ASSUME SharingTypeOK, LimiterInv, [Next]_vars
    PROVE  SharingTypeOK' /\ LimiterInv'
  <1>1. HistoriesOK' /\ LimiterInv' /\ LimiterTypeOK'
    BY HistoriesStep, UsesLimiterStep, LimiterNextInv DEF LimiterInv
  <1>2. TablesOK' /\ (DOMAIN req = Slots /\ \A x \in Slots : ReqOK(req[x]))'
    <2>1. ASSUME NEW s \in Slots, Handle(s) \/ Arrive(s)
          PROVE  TablesOK' /\ (DOMAIN req = Slots /\ \A x \in Slots : ReqOK(req[x]))'
      BY <2>1, HandleTyped, ArriveTyped
    <2>2. CASE AtOnce
      BY <2>2, AtOnceTyped
    <2>3. CASE TimePasses \/ UNCHANGED vars
      <3>1. UNCHANGED tables /\ req' = req
        BY <2>3 DEF TimePasses, vars
      <3> QED BY <3>1, SameTables, ReqStep, ReqIs DEF ReqIn
    <2>4. CASE Restart
      <3>1. UNCHANGED tables /\ req' = [s \in Slots |-> Idle]
        BY <2>4 DEF Restart
      <3> QED BY <3>1, SameTables DEF ReqOK
    <2> QED BY <2>1, <2>2, <2>3, <2>4 DEF Next
  <1> QED BY <1>1, <1>2, Split

LEMMA InitTyped == Init => SharingTypeOK /\ LimiterInv
  <1> SUFFICES ASSUME Init PROVE SharingTypeOK /\ LimiterInv
    OBVIOUS
  <1>1. LimiterInv /\ LimiterTypeOK
    BY LimiterInitInv DEF Init, LimiterInv
  <1>2. PICK u \in Users, set \in Settings, o \in Resources :
          /\ views = With(<<>>, 1, [owner |-> u, preset |-> set.preset, include |-> set.include,
                                    fields |-> <<>>])
          /\ calendars = With(<<>>, 1, [owner |-> u, objs |-> {o}])
    BY DEF Init
  <1>3. DOMAIN views = {1} /\ ViewOK(views[1])
    BY <1>2, SharingAssumption DEF With, ViewOK, FieldsOK
  <1>4. DOMAIN calendars = {1} /\ calendars[1] \in [owner : Users, objs : SUBSET Resources]
    BY <1>2 DEF With
  <1>5. DOMAIN tokens = {1} /\ tokens[1] \in TokenRow
    BY <1>3 DEF Init, With, TokenRow
  <1>6. TablesOK
    <2>1. 1 \in ViewIds /\ 1 \in CalendarIds /\ 1 \in TokenIds /\ members = {<<1, 1>>}
      BY SharingAssumption DEF Init
    <2> QED BY <1>3, <1>4, <1>5, <2>1 DEF TablesOK
  <1>7. HistoriesOK /\ DOMAIN req = Slots /\ \A s \in Slots : ReqOK(req[s])
    BY SharingAssumption DEF Init, HistoriesOK, ReqOK
  <1> QED BY <1>1, <1>6, <1>7, Split

(* The tables hold rows of their kinds, and what a handler has read is of    *)
(* a row that is still there and has the same owner.                       *)
THEOREM TypeCorrect == Spec => [](SharingTypeOK /\ LimiterInv)
  <1>1. SharingTypeOK /\ LimiterInv /\ [Next]_vars => (SharingTypeOK /\ LimiterInv)'
    BY NextTyped
  <1> QED BY <1>1, InitTyped, PTL DEF Spec

(* What holds of the limiter by itself holds of the links: each GET calls     *)
(* allow with a time that has passed, and its memory goes with the process. *)
LEMMA LinksUseLimiter == Spec => LimiterSpec
  <1>1. Init => LimiterInit
    BY DEF Init
  <1> QED BY <1>1, TypeCorrect, UsesLimiterStep, PTL DEF Spec, LimiterSpec

(* No link is served more than max times in a window by one process.        *)
THEOREM LinksKeepBound == Spec => []AtMostMaxPerWindow
  BY LinksUseLimiter, LimiterKeepsBound, PTL

----------------------------------------------------------------------------
(* Views show calendars of their owner.                                    *)

(* The calendar of a toggle in progress was the owner's when it was looked  *)
(* at, so it still is, unless it was deleted since.                        *)
OwnToggle(r) ==
    r.op = "toggle" =>
        /\ r.calendar \in DOMAIN calendars \cup retired
        /\ r.calendar \in (DOMAIN calendars) \ retired =>
             calendars[r.calendar].owner = views[r.view].owner

OwnInv == MembersAreOwn /\ \A s \in Slots : OwnToggle(req[s])

LEMMA OwnSame ==
    ASSUME OwnInv, UNCHANGED <<views, members, calendars, retired>>,
           \A s \in Slots : req'[s] = req[s] \/ req'[s].op # "toggle"
                            \/ (/\ req[s].op = "toggle"
                                /\ req'[s].calendar = req[s].calendar /\ req'[s].view = req[s].view)
    PROVE  OwnInv'
  BY DEF OwnInv, MembersAreOwn, OwnToggle

LEMMA ReqOther ==
    ASSUME SharingTypeOK, NEW s \in Slots, NEW r, req' = [req EXCEPT ![s] = r]
    PROVE  req'[s] = r /\ \A x \in Slots : x # s => req'[x] = req[x]
  BY DEF SharingTypeOK

LEMMA OwnHandle ==
    ASSUME SharingTypeOK, OwnInv, NEW s \in Slots, Handle(s)
    PROVE  OwnInv'
  <1> USE DEF Continue, Writes, histories, Idle
  <1>1. CASE Allow(s) \/ ReadView(s) \/ ReadMembers(s) \/ RenderCalendar(s) \/ Respond(s) \/ RenderFails(s)
    <2> DEFINE Other == \A x \in Slots : req'[x] = req[x] \/ req'[x].op # "toggle"
    <2>0. DOMAIN req = Slots
      BY DEF SharingTypeOK
    <2>1. ASSUME Allow(s) PROVE Other
      BY <2>0, <2>1 DEF Allow
    <2>2. ASSUME ReadView(s) PROVE Other
      BY <2>0, <2>2 DEF ReadView
    <2>3. ASSUME ReadMembers(s) PROVE Other
      BY <2>0, <2>3 DEF ReadMembers
    <2>4. ASSUME RenderCalendar(s) PROVE Other
      <3>1. PICK c \in req[s].todo :
              Continue(s, [op |-> "get", phase |-> "calendars", token |-> req[s].token,
                           view |-> req[s].view, row |-> req[s].row, todo |-> req[s].todo \ {c},
                           body |-> req[s].body \cup
                                      IF c \in DOMAIN calendars
                                      THEN Apply(InWindow(calendars[c].objs), req[s].row)
                                      ELSE {}])
        BY <2>4 DEF RenderCalendar
      <3> QED BY <2>0, <3>1
    <2>5. ASSUME Respond(s) \/ RenderFails(s) PROVE Other
      BY <2>0, <2>5 DEF Respond, RenderFails, TouchShareToken
    <2>6. UNCHANGED <<views, members, calendars, retired>>
      BY <1>1 DEF Allow, ReadView, ReadMembers, RenderCalendar, Respond, RenderFails, TouchShareToken, tables
    <2>7. Other
      BY <1>1, <2>1, <2>2, <2>3, <2>4, <2>5
    <2> QED BY <2>6, <2>7, OwnSame
  <1>2. CASE ToggleReads(s)
    <2> DEFINE r == [op |-> "toggle",
                     phase |-> IF req[s].calendar \in MembersOf(req[s].view) THEN "remove" ELSE "add",
                     view |-> req[s].view, calendar |-> req[s].calendar]
    <2>1. UNCHANGED <<views, members, calendars, retired>>
          /\ req' = [req EXCEPT ![s] = r] /\ req[s].op = "toggle"
      BY <1>2 DEF ToggleReads, tables
    <2>2. req'[s] = r /\ \A x \in Slots : x # s => req'[x] = req[x]
      BY <2>1, ReqOther
    <2>3. req'[s].calendar = req[s].calendar /\ req'[s].view = req[s].view
      BY <2>2
    <2> QED BY <2>1, <2>2, <2>3, OwnSame
  <1>3. CASE SaveView(s)
    <2>1. UNCHANGED <<members, calendars, retired>>
          /\ views' = [views EXCEPT ![req[s].view] = req[s].row]
          /\ req' = [req EXCEPT ![s] = Idle] /\ req[s].op \in {"settings", "fields"}
      BY <1>3 DEF SaveView
    <2>2. RowIn(req[s], views)
      BY <2>1, ReqIs DEF SharingTypeOK, ReqIn
    <2>3. \A v \in DOMAIN views : views'[v].owner = views[v].owner
      BY <2>1, <2>2 DEF RowIn
    <2>4. \A x \in Slots : req'[x] = req[x] \/ req'[x].op # "toggle"
      BY <2>1, ReqOther
    <2>5. \A x \in Slots : req[x].op = "toggle" => req[x].view \in DOMAIN views
      BY DEF SharingTypeOK, ReqOK
    <2>6. \A m \in members : m[1] \in DOMAIN views
      BY DEF SharingTypeOK
    <2> QED BY <2>1, <2>3, <2>4, <2>5, <2>6 DEF OwnInv, MembersAreOwn, OwnToggle
  <1>4. CASE ToggleWrites(s)
    <2> DEFINE pair == <<req[s].view, req[s].calendar>>
    <2>1. /\ UNCHANGED <<views, calendars, retired>> /\ req[s].op = "toggle"
          /\ req' = [req EXCEPT ![s] = Idle]
          /\ \A m \in members' : m \in members \/ (m = pair /\ pair[2] \in DOMAIN calendars)
      BY <1>4 DEF ToggleWrites
    <2>2. \A x \in Slots : req'[x] = req[x] \/ req'[x].op # "toggle"
      BY <2>1, ReqOther
    <2>3. \A m \in members' : /\ m[2] \in DOMAIN calendars
                              /\ m[2] \notin retired => calendars[m[2]].owner = views[m[1]].owner
      BY <2>1 DEF OwnInv, MembersAreOwn, OwnToggle
    <2> QED BY <2>1, <2>2, <2>3 DEF OwnInv, MembersAreOwn, OwnToggle
  <1>5. CASE DeleteCalendar(s)
    <2> DEFINE c == req[s].calendar
    <2>1. /\ UNCHANGED views /\ members' = {m \in members : m[2] # c}
          /\ calendars' = [d \in DOMAIN calendars \ {c} |-> calendars[d]]
          /\ retired' = retired \cup ({c} \cap DOMAIN calendars)
          /\ req' = [req EXCEPT ![s] = Idle]
      BY <1>5 DEF DeleteCalendar
    <2>2. \A x \in Slots : req'[x] = req[x] \/ req'[x].op # "toggle"
      BY <2>1, ReqOther
    <2> QED BY <2>1, <2>2 DEF OwnInv, MembersAreOwn, OwnToggle
  <1> QED BY <1>1, <1>2, <1>3, <1>4, <1>5 DEF Handle

LEMMA OwnArrive ==
    ASSUME SharingTypeOK, OwnInv, NEW s \in Slots, Arrive(s)
    PROVE  OwnInv'
  <1>1. UNCHANGED <<views, members, calendars, retired>>
    BY DEF Arrive, GetLink, OpenSettings, OpenFields, Toggle, AskDelete, tables
  <1>2. PICK r : /\ req' = [req EXCEPT ![s] = r]
                 /\ r.op = "toggle" => /\ r.calendar \in DOMAIN calendars
                                       /\ calendars[r.calendar].owner = views[r.view].owner
    BY DEF Arrive, GetLink, OpenSettings, OpenFields, Toggle, AskDelete, Begin, Idle
  <1>3. req'[s] = r /\ \A x \in Slots : x # s => req'[x] = req[x]
    BY <1>2, ReqOther
  <1> QED BY <1>1, <1>2, <1>3 DEF OwnInv, MembersAreOwn, OwnToggle

LEMMA OwnAtOnce ==
    ASSUME SharingTypeOK, OwnInv, AtOnce
    PROVE  OwnInv'
  <1>1. req' = req /\ retired' = retired
    BY DEF AtOnce, CreateView, CreateToken, CreateShareToken, RevokeToken, RevokeShareToken, CreateCalendar, ClientPuts,
           ClientDeletes, StoreObjects, WritesAtOnce
  <1>2. \A m \in members : m[1] \in DOMAIN views
    BY DEF SharingTypeOK
  <1>3. \A x \in Slots : req[x].op = "toggle" => req[x].view \in DOMAIN views
    BY DEF SharingTypeOK, ReqOK, Idle
  <1>4. ASSUME members' = members, DOMAIN calendars \subseteq DOMAIN calendars',
               \A c \in DOMAIN calendars : calendars'[c].owner = calendars[c].owner,
               \A v \in DOMAIN views : views'[v].owner = views[v].owner
        PROVE  OwnInv'
    <2>1. ASSUME NEW x \in Slots PROVE OwnToggle(req[x])'
      <3>1. OwnToggle(req[x])
        BY DEF OwnInv
      <3> QED BY <1>1, <1>3, <1>4, <3>1 DEF OwnToggle
    <2>2. MembersAreOwn'
      BY <1>1, <1>2, <1>4 DEF OwnInv, MembersAreOwn
    <2> QED BY <2>1, <2>2 DEF OwnInv
  <1>5. ASSUME NEW u \in Users, NEW v \in ViewIds, NEW preset, CreateView(u, v, preset)
        PROVE  OwnInv'
    <2>1. v \notin DOMAIN views
      BY <1>5, IdIsNew, SharingAssumption DEF CreateView
    <2>2. \A w \in DOMAIN views : views'[w] = views[w]
      BY <1>5, <2>1 DEF CreateView, With
    <2> QED BY <1>4, <1>5, <2>2 DEF CreateView
  <1>6. ASSUME NEW u \in Users, NEW c \in CalendarIds, CreateCalendar(u, c)
        PROVE  OwnInv'
    <2>1. c \notin DOMAIN calendars
      BY <1>6, IdIsNew, SharingAssumption DEF CreateCalendar
    <2>2. DOMAIN calendars' = DOMAIN calendars \cup {c}
          /\ \A w \in DOMAIN calendars : calendars'[w] = calendars[w]
      BY <1>6, <2>1 DEF CreateCalendar, With
    <2> QED BY <1>4, <1>6, <2>2 DEF CreateCalendar
  <1>7. ASSUME NEW c \in DOMAIN calendars, NEW objs, StoreObjects(c, objs)
        PROVE  OwnInv'
    <2>1. \A w \in DOMAIN calendars : calendars[w] \in [owner : Users, objs : SUBSET Resources]
      BY DEF SharingTypeOK
    <2>2. calendars' = [calendars EXCEPT ![c].objs = objs] /\ UNCHANGED <<views, members>>
      BY <1>7 DEF StoreObjects
    <2>3. \A w \in DOMAIN calendars : calendars'[w].owner = calendars[w].owner
      BY <2>1, <2>2
    <2> QED BY <1>4, <2>2, <2>3
  <1>8. ASSUME NEW v, NEW t, NEW expires, NEW password, CreateToken(v, t, expires, password)
        PROVE  OwnInv'
    BY <1>4, <1>8 DEF CreateToken, CreateShareToken
  <1>9. ASSUME NEW t, RevokeToken(t) PROVE OwnInv'
    BY <1>4, <1>9 DEF RevokeToken, RevokeShareToken
  <1>10. CASE ClientPuts \/ ClientDeletes
    BY <1>7, <1>10 DEF ClientPuts, ClientDeletes
  <1> QED BY <1>5, <1>6, <1>8, <1>9, <1>10 DEF AtOnce

(* Whatever toggles, deletions and new calendars run at once, a view shows  *)
(* only calendars that exist and are its owner's, unless an id was given    *)
(* again.                                                                  *)
THEOREM MembersStayOwn == Spec => []MembersAreOwn
  <1>1. Init => OwnInv
    <2> SUFFICES ASSUME Init PROVE OwnInv
      OBVIOUS
    <2>1. PICK u \in Users, set \in Settings, o \in Resources :
          /\ views = With(<<>>, 1, [owner |-> u, preset |-> set.preset, include |-> set.include,
                                    fields |-> <<>>])
          /\ calendars = With(<<>>, 1, [owner |-> u, objs |-> {o}])
      BY DEF Init
    <2>2. DOMAIN calendars = {1} /\ calendars[1].owner = u /\ views[1].owner = u
      BY <2>1 DEF With
    <2> QED BY <2>2 DEF Init, OwnInv, MembersAreOwn, OwnToggle, Idle
  <1>2. SharingTypeOK /\ OwnInv /\ [Next]_vars => OwnInv'
    <2> SUFFICES ASSUME SharingTypeOK, OwnInv, [Next]_vars PROVE OwnInv'
      OBVIOUS
    <2>1. ASSUME NEW s \in Slots, Handle(s) \/ Arrive(s) PROVE OwnInv'
      BY <2>1, OwnHandle, OwnArrive
    <2>2. CASE AtOnce
      BY <2>2, OwnAtOnce
    <2>3. CASE TimePasses \/ Restart \/ UNCHANGED vars
      <3>1. UNCHANGED <<views, members, calendars, retired>>
            /\ \A s \in Slots : req'[s] = req[s] \/ req'[s].op # "toggle"
        BY <2>3 DEF TimePasses, Restart, vars, tables, histories, Idle
      <3> QED BY <3>1, OwnSame
    <2> QED BY <2>1, <2>2, <2>3 DEF Next
  <1>3. OwnInv => MembersAreOwn
    BY DEF OwnInv
  <1> QED BY <1>1, <1>2, <1>3, TypeCorrect, PTL DEF Spec
----------------------------------------------------------------------------
(* Every nonempty set of naturals has a least element.                     *)
LEMMA LeastNatural ==
    ASSUME NEW T, T \subseteq Nat, T # {}
    PROVE  \E x \in T : \A y \in T : x <= y
  <1> DEFINE LessThan == {p \in Nat \X Nat : p[1] < p[2]}
  <1>1. IsWellFoundedOn(LessThan, Nat)
    BY NatLessThanWellFounded, Zenon DEF OpToRel
  <1> HIDE DEF LessThan
  <1>2. PICK x \in T : \A y \in T : <<y, x>> \notin LessThan
    BY <1>1, WFMin, Zenon
  <1>3. \A y \in T : ~(y < x)
    BY <1>2 DEF LessThan
  <1> QED BY <1>3

----------------------------------------------------------------------------
(* The wait that a refusal asks for.                                       *)

(* The slice never holds more than the maximum; n numbers the grants, and   *)
(* tells the order of their times if the calls kept it.                    *)
OrderOK(t) ==
    /\ Cardinality(hits[t]) <= MaxHits
    /\ \A h \in granted[t] : h.n <= Cardinality(granted[t])
    /\ latest[t] # OutOfOrder =>
         \A g, h \in granted[t] : g.n <= h.n => g.at <= h.at

OrderInv == LimiterInv /\ \A t \in TokenIds : OrderOK(t)

LEMMA OrderInit == LimiterInit => OrderInv
  <1> SUFFICES ASSUME LimiterInit PROVE OrderInv
    OBVIOUS
  <1>1. Cardinality({}) = 0
    BY FS_EmptySet
  <1>2. \A t \in TokenIds : OrderOK(t)
    BY <1>1, LimiterAssumption DEF LimiterInit, OrderOK
  <1> QED BY <1>2, LimiterInitInv DEF OrderInv

(* A grant takes the next number and a time no earlier than the last.       *)
LEMMA GrantOrder ==
    ASSUME OrderInv, NEW t \in TokenIds, NEW now \in 0 .. clock, Grant(t, now)
    PROVE  \A u \in TokenIds : OrderOK(u)'
  <1> SUFFICES ASSUME NEW u \in TokenIds PROVE OrderOK(u)'
    OBVIOUS
  <1>1. clock \in Nat /\ now \in Nat /\ hits[t] \subseteq granted[t] /\ IsFiniteSet(granted[t])
        /\ granted[t] \subseteq Hit /\ latest[t] \in Nat \cup {OutOfOrder} /\ MaxHits \in Nat
    BY LimiterAssumption DEF OrderInv, LimiterInv, LimiterTypeOK, TokenOK
  <1>2. PICK x : x = NextHit(t, now)
    OBVIOUS
  <1>3. /\ hits' = [hits EXCEPT ![t] = Kept(t, now) \cup {x}]
        /\ granted' = [granted EXCEPT ![t] = granted[t] \cup {x}]
        /\ latest' = [latest EXCEPT ![t] =
                        IF latest[t] = OutOfOrder \/ now < latest[t] THEN OutOfOrder ELSE now]
    BY <1>2 DEF Grant, Called
  <1>4. CASE u # t
    BY <1>3, <1>4 DEF OrderInv, LimiterInv, LimiterTypeOK, OrderOK
  <1>5. CASE u = t
    <2>1. hits'[t] = Kept(t, now) \cup {x} /\ granted'[t] = granted[t] \cup {x}
          /\ latest'[t] = IF latest[t] = OutOfOrder \/ now < latest[t] THEN OutOfOrder ELSE now
      BY <1>3 DEF OrderInv, LimiterInv, LimiterTypeOK
    <2>2. Cardinality(granted[t]) \in Nat /\ x.n = Cardinality(granted[t]) + 1 /\ x.at = now
      BY <1>1, <1>2, FS_CardinalityType DEF NextHit
    <2>3. \A h \in granted[t] : h.n \in Nat /\ h.at \in Nat /\ h.n <= Cardinality(granted[t]) /\ h.n < x.n
      <3>1. \A h \in granted[t] : h.n \in Nat /\ h.at \in Nat /\ h.n <= Cardinality(granted[t])
        BY <1>1 DEF OrderInv, OrderOK, Hit
      <3> QED BY <2>2, <3>1
    <2>4. Cardinality(granted'[t]) = Cardinality(granted[t]) + 1
      <3>1. x \notin granted[t]
        BY <2>2, <2>3
      <3>2. IsFiniteSet(granted[t])
        BY <1>1
      <3>3. Cardinality(granted[t] \cup {x}) = Cardinality(granted[t]) + 1
        BY <3>1, <3>2, FS_AddElement, ZenonT(20)
      <3> QED BY <2>1, <3>3, Zenon
    <2>5. Cardinality(hits'[t]) <= MaxHits
      <3>1. IsFiniteSet(Kept(t, now))
        BY <1>1, FS_Subset DEF Kept
      <3>2. Cardinality(Kept(t, now)) \in Nat /\ Cardinality(Kept(t, now)) < MaxHits
        BY <3>1, FS_CardinalityType DEF Grant, Admits
      <3>3. /\ IsFiniteSet(hits'[t])
            /\ Cardinality(hits'[t]) <= Cardinality(Kept(t, now)) + 1
        BY <2>1, <3>1, OneMore
      <3> QED BY <1>1, <3>2, <3>3, FS_CardinalityType
    <2>6. \A h \in granted'[t] : h.n <= Cardinality(granted'[t])
      BY <2>1, <2>2, <2>3, <2>4
    <2>7. ASSUME latest'[t] # OutOfOrder, NEW g \in granted'[t], NEW h \in granted'[t], g.n <= h.n
          PROVE  g.at <= h.at
      <3>1. latest[t] # OutOfOrder /\ latest[t] \in Nat /\ latest[t] <= now
        BY <1>1, <2>1, <2>7
      <3>2. \A y \in granted[t] : y.at <= now
        BY <1>1, <2>3, <3>1 DEF OrderInv, LimiterInv, TokenOK
      <3>3. CASE g \in granted[t] /\ h \in granted[t]
        BY <2>7, <3>1, <3>3 DEF OrderInv, OrderOK
      <3>4. CASE g \in granted[t] /\ h = x
        BY <2>2, <3>2, <3>4
      <3>5. CASE g = x /\ h = x
        BY <1>1, <2>2, <3>5
      <3>6. CASE g = x /\ h \in granted[t]
        BY <2>2, <2>3, <2>7, <3>6
      <3> QED BY <2>1, <3>3, <3>4, <3>5, <3>6
    <2> QED BY <1>5, <2>5, <2>6, <2>7 DEF OrderOK
  <1> QED BY <1>4, <1>5

(* A refusal only shortens the slice.                                      *)
LEMMA RefuseOrder ==
    ASSUME OrderInv, NEW t \in TokenIds, NEW now \in 0 .. clock, Refuse(t, now)
    PROVE  \A u \in TokenIds : OrderOK(u)'
  <1> SUFFICES ASSUME NEW u \in TokenIds PROVE OrderOK(u)'
    OBVIOUS
  <1>1. /\ hits' = [hits EXCEPT ![t] = Kept(t, now)] /\ granted' = granted
        /\ latest' = [latest EXCEPT ![t] =
                        IF latest[t] = OutOfOrder \/ now < latest[t] THEN OutOfOrder ELSE now]
    BY DEF Refuse, Called
  <1>2. CASE u # t
    BY <1>1, <1>2 DEF OrderInv, LimiterInv, LimiterTypeOK, OrderOK
  <1>3. CASE u = t
    <2>1. hits'[t] = Kept(t, now) /\ (latest'[t] # OutOfOrder => latest[t] # OutOfOrder)
      BY <1>1 DEF OrderInv, LimiterInv, LimiterTypeOK
    <2>2. IsFiniteSet(hits[t])
      BY FS_Subset DEF OrderInv, LimiterInv, TokenOK
    <2>3. IsFiniteSet(Kept(t, now)) /\ Cardinality(Kept(t, now)) <= Cardinality(hits[t])
      BY <2>2, FS_Subset DEF Kept
    <2>4. Cardinality(hits[t]) <= MaxHits /\ MaxHits \in Nat
      BY LimiterAssumption DEF OrderInv, OrderOK
    <2>5. Cardinality(Kept(t, now)) <= MaxHits
      BY <2>2, <2>3, <2>4, FS_CardinalityType
    <2> QED BY <1>1, <1>3, <2>1, <2>5 DEF OrderInv, OrderOK
  <1> QED BY <1>2, <1>3

LEMMA OrderNext == OrderInv /\ [LimiterNext]_limiterVars => OrderInv'
  <1> SUFFICES ASSUME OrderInv, [LimiterNext]_limiterVars PROVE OrderInv'
    OBVIOUS
  <1>1. LimiterInv'
    BY LimiterNextInv DEF OrderInv
  <1>2. ASSUME NEW t \in TokenIds, NEW now \in 0 .. clock, Grant(t, now) \/ Refuse(t, now)
        PROVE  \A u \in TokenIds : OrderOK(u)'
    BY <1>2, GrantOrder, RefuseOrder
  <1>3. ASSUME Tick \/ UNCHANGED limiterVars
        PROVE  \A u \in TokenIds : OrderOK(u)'
    BY <1>3 DEF Tick, limiterVars, OrderInv, OrderOK
  <1>4. ASSUME Forget
        PROVE  \A u \in TokenIds : OrderOK(u)'
    <2>1. Cardinality({}) = 0
      BY FS_EmptySet
    <2> QED BY <1>4, <2>1, LimiterAssumption DEF Forget, OrderOK
  <1> QED BY <1>1, <1>2, <1>3, <1>4 DEF LimiterNext, OrderInv

(* What a refused token keeps has a first element, the earliest if the      *)
(* calls kept the order of their times; the wait lasts until it goes.      *)
LEMMA RefusedFirst ==
    ASSUME OrderInv, NEW t \in TokenIds, ~Admits(t, clock)
    PROVE  LET K == Kept(t, clock) IN
           /\ IsFiniteSet(K) /\ Cardinality(K) = MaxHits
           /\ First(K) \in K
           /\ latest[t] # OutOfOrder => \A h \in K : First(K).at <= h.at
           /\ \A h \in K : h.at \in Nat
           /\ Retry(t, clock) \in Nat /\ clock + Retry(t, clock) = First(K).at + Window
  <1> DEFINE K == Kept(t, clock)
  <1>1. K \subseteq hits[t] /\ hits[t] \subseteq granted[t] /\ hits[t] \subseteq Hit /\ clock \in Nat
        /\ IsFiniteSet(hits[t])
    BY FS_Subset DEF OrderInv, LimiterInv, LimiterTypeOK, TokenOK, Kept
  <1>2. IsFiniteSet(K) /\ Cardinality(K) <= Cardinality(hits[t])
    BY <1>1, FS_Subset
  <1>3. Cardinality(K) = MaxHits
    <2>1. Cardinality(hits[t]) <= MaxHits /\ MaxHits \in Nat
      BY LimiterAssumption DEF OrderInv, OrderOK
    <2>2. Cardinality(K) \in Nat /\ Cardinality(hits[t]) \in Nat /\ ~(Cardinality(K) < MaxHits)
      BY <1>1, <1>2, FS_CardinalityType DEF Admits
    <2> QED BY <1>2, <2>1, <2>2
  <1>4. K # {}
    BY <1>3, FS_EmptySet, LimiterAssumption
  <1>5. First(K) \in K /\ \A g \in K : First(K).n <= g.n
    <2>1. {h.n : h \in K} \subseteq Nat /\ {h.n : h \in K} # {}
      BY <1>1, <1>4 DEF Hit
    <2>2. \E m \in {h.n : h \in K} : \A k \in {h.n : h \in K} : m <= k
      BY <2>1, LeastNatural
    <2>3. \E h \in K : \A g \in K : h.n <= g.n
      BY <2>2
    <2> QED BY <2>3, Zenon DEF First
  <1>6. latest[t] # OutOfOrder => \A h \in K : First(K).at <= h.at
    BY <1>1, <1>5 DEF OrderInv, OrderOK
  <1>7. PICK first : first = First(K)
    OBVIOUS
  <1>8. first.at \in Nat /\ first.at > clock - Window /\ Window \in Nat
    BY <1>1, <1>5, <1>7, LimiterAssumption DEF Kept, Hit
  <1>9. Retry(t, clock) = first.at + Window - clock
    <2>1. ~(first.at + Window - clock < 0)
      BY <1>1, <1>8
    <2> QED BY <1>7, <2>1 DEF Retry
  <1>10. Retry(t, clock) \in Nat /\ clock + Retry(t, clock) = First(K).at + Window
    BY <1>1, <1>7, <1>8, <1>9
  <1>11. \A h \in K : h.at \in Nat
    BY <1>1 DEF Hit
  <1> QED BY <1>2, <1>3, <1>5, <1>6, <1>10, <1>11

(* The limiter by itself: who waits as long as allow says finds room, and   *)
(* if the calls kept the order of their times, nobody does before.         *)
THEOREM LimiterRetryIsExact == LimiterSpec => []RetryIsExact
  <1>1. OrderInv => RetryIsExact
    <2> SUFFICES ASSUME OrderInv, NEW t \in TokenIds, ~Admits(t, clock)
                 PROVE  /\ Admits(t, clock + Retry(t, clock))
                        /\ latest[t] # OutOfOrder =>
                             \A wait \in 0 .. Window : wait < Retry(t, clock) => ~Admits(t, clock + wait)
      BY DEF RetryIsExact
    <2> DEFINE K == Kept(t, clock)
    <2>1. PICK first : first = First(K)
      OBVIOUS
    <2>2. PICK retry : retry = Retry(t, clock)
      OBVIOUS
    <2>3. /\ IsFiniteSet(K) /\ Cardinality(K) = MaxHits /\ first \in K
          /\ latest[t] # OutOfOrder => \A h \in K : first.at <= h.at
          /\ \A h \in K : h.at \in Nat
          /\ retry \in Nat /\ clock + retry = first.at + Window
          /\ clock \in Nat /\ Window \in Nat /\ MaxHits \in Nat \ {0}
          /\ \A h \in hits[t] : h.at \in Nat
      BY <2>1, <2>2, RefusedFirst, LimiterAssumption DEF OrderInv, LimiterInv, LimiterTypeOK, Hit
    <2>4. Admits(t, clock + retry)
      <3>1. Kept(t, clock + retry) \subseteq K \ {first}
        BY <2>3 DEF Kept
      <3>2. IsFiniteSet(K \ {first}) /\ Cardinality(K \ {first}) = MaxHits - 1
        BY <2>3, FS_RemoveElement
      <3>3. Cardinality(Kept(t, clock + retry)) <= MaxHits - 1
            /\ Cardinality(Kept(t, clock + retry)) \in Nat
        BY <3>1, <3>2, FS_Subset, FS_CardinalityType
      <3> QED BY <2>3, <3>3 DEF Admits
    <2>5. ASSUME latest[t] # OutOfOrder, NEW wait \in 0 .. Window, wait < retry
          PROVE  ~Admits(t, clock + wait)
      <3>1. Kept(t, clock + wait) = K
        <4>1. \A h \in hits[t] : h.at > (clock + wait) - Window => h.at > clock - Window
          BY <2>3
        <4>2. \A h \in K : h.at > (clock + wait) - Window
          BY <2>3, <2>5
        <4> QED BY <4>1, <4>2 DEF Kept
      <3> QED BY <2>3, <3>1 DEF Admits
    <2> QED BY <2>2, <2>4, <2>5
  <1> QED BY <1>1, OrderInit, OrderNext, PTL DEF LimiterSpec

(* So it is with the Retry-After of share links.                           *)
THEOREM LinksRetryIsExact == Spec => []RetryIsExact
  BY LinksUseLimiter, LimiterRetryIsExact, PTL
----------------------------------------------------------------------------
(* What a request has read.                                                *)

(* The row that a form writes, of the row that its handler read.           *)
FormRow(r, view) ==
    IF r.op = "fields"
    THEN [owner |-> view.owner, preset |-> view.preset, include |-> view.include,
          fields |-> Overrides(view, r.form)]
    ELSE [owner |-> view.owner, preset |-> r.form.preset, include |-> r.form.include,
          fields |-> view.fields]

IsForm(r) == r.op \in {"settings", "fields"}

CalendarsIn(ms, v) == {m[2] : m \in {n \in ms : n[1] = v}}

(* What render has made of some calendars.                                 *)
Rendering(ids, cs, row) ==
    UNION {IF c \in DOMAIN cs THEN Apply(InWindow(cs[c].objs), row) ELSE {} : c \in ids}

(* What a form or a GET has read, and made of it, is what it would be now.  *)
FreshIn(r, vs, ms, cs) ==
    /\ IsForm(r) => r.view \in DOMAIN vs /\ r.row = FormRow(r, vs[r.view])
    /\ r.op = "get" /\ r.phase \in {"members", "calendars"} => r.row = vs[r.view]
    /\ r.op = "get" /\ r.phase = "calendars" =>
         /\ r.todo \subseteq CalendarsIn(ms, r.view)
         /\ r.body = Rendering(CalendarsIn(ms, r.view) \ r.todo, cs, r.row)

(* It is, for those whom nobody disturbed.                                  *)
FreshInv == \A s \in Slots : s \notin disturbed => FreshIn(req[s], views, members, calendars)

LEMMA IdleIsFresh == ASSUME NEW vs, NEW ms, NEW cs PROVE FreshIn(Idle, vs, ms, cs)
  BY DEF FreshIn, IsForm, Idle

(* A step of one slot that writes nothing which links show.                 *)
LEMMA ReadStep ==
    ASSUME SharingTypeOK, FreshInv, NEW s \in Slots, NEW r, req' = [req EXCEPT ![s] = r],
           UNCHANGED <<views, members, calendars>>, disturbed \ {s} \subseteq disturbed',
           s \notin disturbed' => FreshIn(r, views, members, calendars)
    PROVE  FreshInv'
  <1>1. req'[s] = r /\ \A x \in Slots : x # s => req'[x] = req[x]
    BY ReqOther
  <1> SUFFICES ASSUME NEW x \in Slots, x \notin disturbed'
               PROVE  FreshIn(req'[x], views', members', calendars')
    BY DEF FreshInv
  <1>2. CASE x = s
    BY <1>1, <1>2
  <1>3. CASE x # s
    BY <1>1, <1>3 DEF FreshInv
  <1> QED BY <1>2, <1>3

(* A step that writes disturbs everybody else.                             *)
LEMMA WriteStep ==
    ASSUME SharingTypeOK,
           \/ \E s \in Slots : req' = [req EXCEPT ![s] = Idle]
                               /\ disturbed' = {x \in Slots \ {s} : req[x] # Idle}
           \/ req' = req /\ disturbed' = {x \in Slots : req[x] # Idle}
    PROVE  FreshInv'
  <1>1. DOMAIN req = Slots
    BY DEF SharingTypeOK
  <1>2. \A x \in Slots : x \notin disturbed' => req'[x] = Idle
    BY <1>1
  <1> SUFFICES ASSUME NEW x \in Slots, x \notin disturbed'
               PROVE  FreshIn(req'[x], views', members', calendars')
    BY DEF FreshInv
  <1> QED BY <1>2, IdleIsFresh

LEMMA FreshHandle ==
    ASSUME SharingTypeOK, FreshInv, NEW s \in Slots, Handle(s)
    PROVE  FreshInv'
  <1>1. CASE SaveView(s) \/ ToggleWrites(s) \/ DeleteCalendar(s)
    <2>1. req' = [req EXCEPT ![s] = Idle] /\ disturbed' = {x \in Slots \ {s} : req[x] # Idle}
      BY <1>1 DEF SaveView, ToggleWrites, DeleteCalendar, Writes
    <2> QED BY <2>1, WriteStep
  <1>2. CASE Allow(s) \/ ReadView(s) \/ ReadMembers(s) \/ RenderCalendar(s) \/ Respond(s) \/ RenderFails(s)
             \/ ToggleReads(s)
    <2> DEFINE Read == \E r : /\ s \notin disturbed' => FreshIn(r, views, members, calendars)
                              /\ req' = [req EXCEPT ![s] = r]
    <2>0. s \notin disturbed => FreshIn(req[s], views, members, calendars)
      BY DEF FreshInv
    <2>1. ASSUME Allow(s) PROVE Read
      <3> DEFINE r == [op |-> "get", phase |-> "view", token |-> req[s].token]
      <3>1. FreshIn(r, views, members, calendars) /\ FreshIn(Idle, views, members, calendars)
        BY IdleIsFresh DEF FreshIn, IsForm
      <3>2. req' = [req EXCEPT ![s] = r] \/ req' = [req EXCEPT ![s] = Idle]
        BY <2>1 DEF Allow, Continue
      <3> QED BY <3>1, <3>2
    <2>2. ASSUME ReadView(s) PROVE Read
      <3> DEFINE v == tokens[req[s].token].view
                 r == [op |-> "get", phase |-> "members", token |-> req[s].token,
                       view |-> v, row |-> views[v]]
      <3>1. FreshIn(r, views, members, calendars)
        BY DEF FreshIn, IsForm
      <3>2. req' = [req EXCEPT ![s] = r]
        BY <2>2 DEF ReadView
      <3> QED BY <3>1, <3>2
    <2>3. ASSUME ReadMembers(s) PROVE Read
      <3> DEFINE r == [op |-> "get", phase |-> "calendars", token |-> req[s].token,
                       view |-> req[s].view, row |-> req[s].row,
                       todo |-> MembersOf(req[s].view), body |-> {}]
      <3>1. req' = [req EXCEPT ![s] = r] /\ disturbed' = disturbed
            /\ req[s].op = "get" /\ req[s].phase = "members"
        BY <2>3 DEF ReadMembers, Continue, InPhase, histories
      <3>2. ASSUME s \notin disturbed PROVE FreshIn(r, views, members, calendars)
        <4>1. req[s].row = views[req[s].view]
          BY <2>0, <3>1, <3>2 DEF FreshIn
        <4>2. MembersOf(req[s].view) = CalendarsIn(members, req[s].view)
          BY DEF MembersOf, CalendarsIn
        <4>3. Rendering({}, calendars, req[s].row) = {}
          BY DEF Rendering
        <4>4. PICK cs : cs = CalendarsIn(members, req[s].view)
          OBVIOUS
        <4>5. cs \ cs = {}
          OBVIOUS
        <4> QED BY <4>1, <4>2, <4>3, <4>4, <4>5 DEF FreshIn, IsForm
      <3> QED BY <3>1, <3>2
    <2>4. ASSUME RenderCalendar(s) PROVE Read
      <3> DEFINE part(c) == IF c \in DOMAIN calendars
                            THEN Apply(InWindow(calendars[c].objs), req[s].row)
                            ELSE {}
                 r(c) == [op |-> "get", phase |-> "calendars", token |-> req[s].token,
                          view |-> req[s].view, row |-> req[s].row, todo |-> req[s].todo \ {c},
                          body |-> req[s].body \cup part(c)]
      <3>1. PICK c \in req[s].todo : req' = [req EXCEPT ![s] = r(c)] /\ disturbed' = disturbed
        BY <2>4 DEF RenderCalendar, Continue, histories
      <3>2. req[s].op = "get" /\ req[s].phase = "calendars"
        BY <2>4 DEF RenderCalendar, InPhase
      <3>3. ASSUME s \notin disturbed PROVE FreshIn(r(c), views, members, calendars)
        <4>1. PICK cs : cs = CalendarsIn(members, req[s].view)
          OBVIOUS
        <4>2. /\ req[s].row = views[req[s].view] /\ req[s].todo \subseteq cs
              /\ req[s].body = Rendering(cs \ req[s].todo, calendars, req[s].row)
          BY <2>0, <3>2, <3>3, <4>1 DEF FreshIn
        <4>3. cs \ (req[s].todo \ {c}) = (cs \ req[s].todo) \cup {c}
          BY <4>2
        <4>4. Rendering((cs \ req[s].todo) \cup {c}, calendars, req[s].row) =
                Rendering(cs \ req[s].todo, calendars, req[s].row) \cup part(c)
          BY DEF Rendering
        <4> HIDE DEF part
        <4>5. /\ r(c).row = views[r(c).view] /\ r(c).todo \subseteq cs /\ r(c).view = req[s].view
              /\ r(c).body = Rendering(cs \ r(c).todo, calendars, r(c).row)
              /\ r(c).op = "get"
          BY <4>2, <4>3, <4>4
        <4> HIDE DEF r
        <4> QED BY <4>1, <4>5 DEF FreshIn, IsForm
      <3> QED BY <3>1, <3>3
    <2>5. ASSUME Respond(s) \/ RenderFails(s) PROVE Read
      BY <2>5, IdleIsFresh DEF Respond, RenderFails, Continue
    <2>6. ASSUME ToggleReads(s) PROVE Read
      <3> DEFINE p == IF req[s].calendar \in MembersOf(req[s].view) THEN "remove" ELSE "add"
                 r == [op |-> "toggle", phase |-> p, view |-> req[s].view, calendar |-> req[s].calendar]
      <3>1. req' = [req EXCEPT ![s] = r]
        BY <2>6 DEF ToggleReads, Continue
      <3>2. FreshIn(r, views, members, calendars)
        <4> HIDE DEF p
        <4> QED BY DEF FreshIn, IsForm
      <3> QED BY <3>1, <3>2
    <2>7. UNCHANGED <<views, members, calendars>> /\ disturbed \ {s} \subseteq disturbed'
      BY <1>2 DEF Allow, ReadView, ReadMembers, RenderCalendar, Respond, RenderFails, ToggleReads, Continue, tables,
                  histories
    <2>8. Read
      BY <1>2, <2>1, <2>2, <2>3, <2>4, <2>5, <2>6
    <2> QED BY <2>7, <2>8, ReadStep
  <1> QED BY <1>1, <1>2 DEF Handle

LEMMA FreshArrive ==
    ASSUME SharingTypeOK, FreshInv, NEW s \in Slots, Arrive(s)
    PROVE  FreshInv'
  <1>1. UNCHANGED <<views, members, calendars>> /\ disturbed \ {s} \subseteq disturbed'
    BY DEF Arrive, GetLink, OpenSettings, OpenFields, Toggle, AskDelete, Begin, tables
  <1> DEFINE Fresh == \E r : req' = [req EXCEPT ![s] = r] /\ FreshIn(r, views, members, calendars)
  <1>2. ASSUME NEW t \in TokenIds, NEW knows \in BOOLEAN, GetLink(s, t, knows) PROVE Fresh
    <2> DEFINE r == IF Usable(tokens[t]) /\ (tokens[t].password => knows)
                    THEN [op |-> "get", phase |-> "limit", token |-> t, at |-> clock]
                    ELSE Idle
    <2>1. req' = [req EXCEPT ![s] = r]
      BY <1>2 DEF GetLink, Begin
    <2>2. FreshIn(r, views, members, calendars)
      BY DEF FreshIn, IsForm, Idle
    <2> QED BY <2>1, <2>2
  <1>3. ASSUME NEW v \in ViewIds, NEW form \in Settings, OpenSettings(s, v, form) PROVE Fresh
    <2> DEFINE r == [op |-> "settings", view |-> v, form |-> form,
                     row |-> [owner |-> views[v].owner, preset |-> form.preset,
                              include |-> form.include, fields |-> views[v].fields]]
    <2>1. v \in DOMAIN views /\ req' = [req EXCEPT ![s] = r]
      BY <1>3 DEF OpenSettings, Begin
    <2>2. r.row = FormRow(r, views[r.view])
      BY DEF FormRow
    <2>3. FreshIn(r, views, members, calendars)
      BY <2>1, <2>2 DEF FreshIn
    <2> QED BY <2>1, <2>3
  <1>4. ASSUME NEW v \in ViewIds, NEW form \in FieldForms, OpenFields(s, v, form) PROVE Fresh
    <2> DEFINE r == [op |-> "fields", view |-> v, form |-> form,
                     row |-> [owner |-> views[v].owner, preset |-> views[v].preset,
                              include |-> views[v].include, fields |-> Overrides(views[v], form)]]
    <2>1. v \in DOMAIN views /\ req' = [req EXCEPT ![s] = r]
      BY <1>4 DEF OpenFields, Begin
    <2>2. r.row = FormRow(r, views[r.view])
      BY DEF FormRow
    <2>3. FreshIn(r, views, members, calendars)
      BY <2>1, <2>2 DEF FreshIn
    <2> QED BY <2>1, <2>3
  <1>5. ASSUME NEW v \in ViewIds, NEW c \in CalendarIds, Toggle(s, v, c) PROVE Fresh
    <2> DEFINE r == [op |-> "toggle", phase |-> "members", view |-> v, calendar |-> c]
    <2>1. req' = [req EXCEPT ![s] = r] /\ FreshIn(r, views, members, calendars)
      BY <1>5 DEF Toggle, Begin, IsForm, FreshIn
    <2> QED BY <2>1
  <1>6. ASSUME NEW u \in Users, NEW c \in CalendarIds, AskDelete(s, u, c) PROVE Fresh
    <2> DEFINE r == [op |-> "delete", calendar |-> c]
    <2>1. req' = [req EXCEPT ![s] = r] /\ FreshIn(r, views, members, calendars)
      BY <1>6 DEF AskDelete, Begin, IsForm, FreshIn
    <2> QED BY <2>1
  <1>7. Fresh
    BY <1>2, <1>3, <1>4, <1>5, <1>6 DEF Arrive
  <1> QED BY <1>1, <1>7, ReadStep

LEMMA FreshNext == SharingTypeOK /\ FreshInv /\ [Next]_vars => FreshInv'
  <1> SUFFICES ASSUME SharingTypeOK, FreshInv, [Next]_vars PROVE FreshInv'
    OBVIOUS
  <1>1. ASSUME NEW s \in Slots, Handle(s) \/ Arrive(s) PROVE FreshInv'
    BY <1>1, FreshHandle, FreshArrive
  <1>2. ASSUME UNCHANGED <<views, members, calendars, req, disturbed>> PROVE FreshInv'
    <2> SUFFICES ASSUME NEW x \in Slots, x \notin disturbed'
                 PROVE  FreshIn(req'[x], views', members', calendars')
      BY DEF FreshInv
    <2> QED BY <1>2 DEF FreshInv
  <1>3. CASE AtOnce
    <2>1. \/ UNCHANGED <<views, members, calendars, req, disturbed>>
          \/ req' = req /\ disturbed' = {x \in Slots : req[x] # Idle}
      BY <1>3 DEF AtOnce, CreateView, CreateToken, RevokeToken, CreateCalendar, ClientPuts,
                  ClientDeletes, StoreObjects, WritesAtOnce
    <2> QED BY <1>2, <2>1, WriteStep
  <1>4. CASE TimePasses \/ UNCHANGED vars
    BY <1>2, <1>4 DEF TimePasses, vars, tables, histories
  <1>5. CASE Restart
    <2> SUFFICES ASSUME NEW x \in Slots
                 PROVE  FreshIn(req'[x], views', members', calendars')
      BY DEF FreshInv
    <2>1. req'[x] = Idle
      BY <1>5 DEF Restart
    <2> QED BY <2>1, IdleIsFresh
  <1> QED BY <1>1, <1>3, <1>4, <1>5 DEF Next

LEMMA FreshInit == Init => FreshInv
  <1> SUFFICES ASSUME Init, NEW x \in Slots PROVE FreshIn(req[x], views, members, calendars)
    BY DEF FreshInv
  <1>1. req[x] = Idle
    BY DEF Init
  <1> QED BY <1>1, IdleIsFresh

(* What is stored of a choice, laid over the preset, gives the choice back.  *)
LEMMA DeltasGiveChoice ==
    ASSUME NEW row, NEW form, NEW f \in ManagedFields, NEW made,
           made.preset = row.preset, made.fields = Overrides(row, form)
    PROVE  EffectiveRules(made)[f] = Choice(row.preset, form, f)
  <1>1. DOMAIN PresetRules(row.preset) = ManagedFields
    BY DEF PresetRules
  <1>2. EffectiveRules(made)[f] =
          IF f \in DOMAIN made.fields THEN made.fields[f] ELSE PresetRules(row.preset)[f]
    BY <1>1 DEF EffectiveRules, Override
  <1>3. DOMAIN made.fields =
          {g \in ManagedFields : Choice(row.preset, form, g) # PresetRules(row.preset)[g]}
    BY DEF Overrides
  <1>4. f \in DOMAIN made.fields => made.fields[f] = Choice(row.preset, form, f)
    BY <1>3 DEF Overrides
  <1> QED BY <1>2, <1>3, <1>4

(* Only the form's own write ends it and changes a view.                    *)
LEMMA FormSaves ==
    ASSUME SharingTypeOK, [Next]_vars, NEW s \in Slots, IsForm(req[s]), req'[s] = Idle, views' # views
    PROVE  SaveView(s)
  <1>1. req[s] # Idle /\ ~UNCHANGED vars /\ ~Restart /\ ~TimePasses
    BY DEF IsForm, Idle, vars, tables, Restart, TimePasses
  <1>2. ~AtOnce
    BY <1>1 DEF AtOnce, CreateView, CreateToken, RevokeToken, CreateCalendar, ClientPuts,
                ClientDeletes, StoreObjects, WritesAtOnce
  <1>3. PICK x \in Slots : Handle(x) \/ Arrive(x)
    BY <1>1, <1>2 DEF Next
  <1>4. SaveView(x)
    BY <1>3 DEF Handle, Arrive, GetLink, OpenSettings, OpenFields, Toggle, AskDelete, tables,
                Allow, ReadView, ReadMembers, RenderCalendar, Respond, RenderFails, ToggleReads, ToggleWrites,
                DeleteCalendar
  <1>5. req' = [req EXCEPT ![x] = Idle]
    BY <1>4 DEF SaveView, Writes
  <1> QED BY <1>1, <1>4, <1>5, ReqOther

(* Only deltas from the preset are stored, and they say what was chosen: a  *)
(* fields form that nobody disturbs makes the rules those it chose and      *)
(* keeps the settings, a settings form keeps the fields.                   *)
THEOREM FormsTakeEffect == Spec => FormTakesEffect
  <1>2. ASSUME SharingTypeOK, FreshInv, [Next]_vars, NEW s \in Slots,
               req[s].op \in {"fields", "settings"}, s \notin disturbed, req'[s] = Idle, views' # views
        PROVE  LET v == req[s].view
                   form == req[s].form
               IN
               IF req[s].op = "fields"
               THEN /\ \A f \in ManagedFields : EffectiveRules(views'[v])[f] = Choice(views[v].preset, form, f)
                    /\ views'[v].preset = views[v].preset /\ views'[v].include = views[v].include
               ELSE /\ views'[v].preset = form.preset /\ views'[v].include = form.include
                    /\ views'[v].fields = views[v].fields
    <2> DEFINE v == req[s].view
               form == req[s].form
    <2>1. IsForm(req[s])
      BY <1>2 DEF IsForm
    <2>2. SaveView(s)
      BY <1>2, <2>1, FormSaves
    <2>3. v \in DOMAIN views /\ req[s].row = FormRow(req[s], views[v])
      BY <1>2, <2>1 DEF FreshInv, FreshIn
    <2>4. views'[v] = FormRow(req[s], views[v])
      BY <2>2, <2>3 DEF SaveView
    <2>5. CASE req[s].op = "fields"
      <3>1. /\ views'[v].preset = views[v].preset /\ views'[v].include = views[v].include
            /\ views'[v].fields = Overrides(views[v], form)
        BY <2>4, <2>5 DEF FormRow
      <3>2. \A f \in ManagedFields : EffectiveRules(views'[v])[f] = Choice(views[v].preset, form, f)
        BY <3>1, DeltasGiveChoice
      <3> QED BY <2>5, <3>1, <3>2
    <2>6. CASE req[s].op # "fields"
      BY <2>4, <2>6 DEF FormRow
    <2> QED BY <2>5, <2>6
  <1>3. SharingTypeOK /\ FreshInv /\ [Next]_vars =>
          [\A s \in Slots :
             (req[s].op \in {"fields", "settings"} /\ s \notin disturbed /\ req'[s] = Idle /\ views' # views) =>
               LET v == req[s].view
                   form == req[s].form
               IN
               IF req[s].op = "fields"
               THEN /\ \A f \in ManagedFields : EffectiveRules(views'[v])[f] = Choice(views[v].preset, form, f)
                    /\ views'[v].preset = views[v].preset /\ views'[v].include = views[v].include
               ELSE /\ views'[v].preset = form.preset /\ views'[v].include = form.include
                    /\ views'[v].fields = views[v].fields]_vars
    BY <1>2
  <1> QED BY FreshInit, <1>3, FreshNext, TypeCorrect, PTL DEF Spec, FormTakesEffect

----------------------------------------------------------------------------
(* When events happen.                                                     *)

(* The component that stands for a resource: the only one without           *)
(* RECURRENCE-ID, if there is one.                                         *)
LEMMA MasterIs ==
    ASSUME NEW o \in Resource
    PROVE  /\ Master(o.comps) \in Components(o.comps)
           /\ Master(o.comps) \in Component
           /\ Components(o.comps) \subseteq Component
           /\ Master(o.comps).rid # NoRid => \A c \in Components(o.comps) : c.rid # NoRid
           /\ Regular(o) => \A c \in Components(o.comps) : c.rid = NoRid => c = Master(o.comps)
  <1> DEFINE S == Masters(o.comps)
  <1>1. o.comps \in Seq(Component) /\ o.comps # <<>>
    BY DEF Resource
  <1>2. 1 \in DOMAIN o.comps /\ DOMAIN o.comps \subseteq Nat
        /\ \A i \in DOMAIN o.comps : o.comps[i] \in Component
    BY <1>1
  <1>3. PICK k : /\ k \in DOMAIN o.comps
                 /\ Master(o.comps) = o.comps[k]
                 /\ S # {} => k \in S
    <2>1. CASE S = {}
      BY <1>2, <2>1 DEF Master
    <2>2. CASE S # {}
      <3>1. S \subseteq Nat
        BY <1>2 DEF Masters
      <3>2. \E i \in S : \A j \in S : i <= j
        BY <2>2, <3>1, LeastNatural
      <3>3. PICK k : k = CHOOSE i \in S : \A j \in S : i <= j
        OBVIOUS
      <3>4. k \in S
        BY <3>2, <3>3
      <3>5. Master(o.comps) = o.comps[k]
        BY <2>2, <3>3 DEF Master
      <3> QED BY <3>4, <3>5 DEF Masters
    <2> QED BY <2>1, <2>2
  <1>4. Master(o.comps) \in Components(o.comps) /\ Components(o.comps) \subseteq Component
    BY <1>2, <1>3 DEF Components
  <1>5. Master(o.comps).rid # NoRid => \A c \in Components(o.comps) : c.rid # NoRid
    BY <1>3 DEF Components, Masters
  <1>6. Regular(o) => \A c \in Components(o.comps) : c.rid = NoRid => c = Master(o.comps)
    BY <1>3 DEF Components, Masters, Regular
  <1> QED BY <1>4, <1>5, <1>6

(* A bounded set of integers has a maximum, the one MaxOf chooses.          *)
LEMMA MaxOfIs ==
    ASSUME NEW S, S \subseteq Int, S # {}, NEW n \in Int, \A x \in S : x <= n
    PROVE  MaxOf(S) \in S /\ \A x \in S : x <= MaxOf(S)
  <1> DEFINE Below == {n - x : x \in S}
  <1>1. Below \subseteq Nat /\ Below # {}
    <2>1. \A x \in S : n - x \in Nat
      <3> SUFFICES ASSUME NEW x \in S PROVE n - x \in Nat
        OBVIOUS
      <3>1. x \in Int /\ x <= n
        OBVIOUS
      <3> QED BY <3>1
    <2> QED BY <2>1
  <1>2. PICK d \in Below : \A e \in Below : d <= e
    BY <1>1, LeastNatural
  <1>3. PICK m \in S : d = n - m
    BY <1>2
  <1>4. \A x \in S : x <= m
    <2> SUFFICES ASSUME NEW x \in S PROVE x <= m
      OBVIOUS
    <2>1. d <= n - x
      BY <1>2
    <2> QED BY <1>3, <2>1
  <1>5. \E m1 \in S : \A x \in S : x <= m1
    BY <1>4
  <1> QED BY <1>5, Zenon DEF MaxOf

LEMMA DurationTyped == ASSUME NEW c \in Component PROVE DurationOf(c) \in Nat
  BY DEF Component, DurationOf

(* The last end of an event's components.                                  *)
LEMMA LastEnd ==
    ASSUME NEW o \in Resource, NEW c \in Components(o.comps)
    PROVE  /\ MaxOf({d.start + DurationOf(d) : d \in Components(o.comps)}) \in Int
           /\ c.start + DurationOf(c) <= MaxOf({d.start + DurationOf(d) : d \in Components(o.comps)})
  <1> DEFINE S == {d.start + DurationOf(d) : d \in Components(o.comps)}
             n == Len(o.comps)
             End(i) == o.comps[i].start + DurationOf(o.comps[i])
             Boundless == {k \in 1 .. n : ~\E b \in Int : \A i \in 1 .. k : End(i) <= b}
  <1>1. o.comps \in Seq(Component) /\ o.comps # <<>>
    BY DEF Resource
  <1>2. /\ n \in Nat /\ n > 0 /\ DOMAIN o.comps = 1 .. n
        /\ \A i \in 1 .. n : o.comps[i] \in Component
    BY <1>1
  <1>3. \A i \in 1 .. n : End(i) \in Int
    <2> SUFFICES ASSUME NEW i \in 1 .. n PROVE End(i) \in Int
      OBVIOUS
    <2>1. o.comps[i] \in Component
      BY <1>2
    <2>2. o.comps[i].start \in Int /\ DurationOf(o.comps[i]) \in Nat
      BY <2>1, TimesAssumption, DurationTyped DEF Component
    <2> QED BY <2>2
  <1> HIDE DEF n, End
  <1>4. Boundless = {}
    <2> SUFFICES ASSUME Boundless # {} PROVE FALSE
      OBVIOUS
    <2>1. PICK k \in Boundless : \A j \in Boundless : k <= j
      <3>1. Boundless \subseteq Nat
        BY <1>2
      <3> QED BY <3>1, LeastNatural
    <2>2. k \in 1 .. n /\ ~\E b \in Int : \A i \in 1 .. k : End(i) <= b
      BY <2>1
    <2>3. CASE k = 1
      <3>1. End(1) \in Int /\ \A i \in 1 .. k : End(i) <= End(1)
        BY <1>2, <1>3, <2>3
      <3> QED BY <2>2, <3>1
    <2>4. CASE k # 1
      <3>0. k \in Nat /\ 1 < k /\ k <= n /\ n \in Nat
        <4>1. n \in Nat /\ k \in 1 .. n
          BY <1>2, <2>2
        <4> QED BY <2>4, <4>1
      <3>1. k - 1 \in 1 .. n /\ k - 1 \notin Boundless
        <4>1. ~(k <= k - 1)
          BY <3>0
        <4>2. k - 1 \notin Boundless
          BY <2>1, <4>1
        <4> QED BY <3>0, <4>2
      <3>2. PICK b \in Int : \A i \in 1 .. (k - 1) : End(i) <= b
        BY <3>1
      <3>3. PICK e \in Int : e = End(k)
        BY <1>3, <2>2
      <3>4. PICK top \in Int : b <= top /\ e <= top
        <4>1. b <= b /\ e <= e /\ (b <= e \/ e <= b)
          OBVIOUS
        <4> QED BY <4>1
      <3>5. \A i \in 1 .. k : End(i) <= top
        <4> SUFFICES ASSUME NEW i \in 1 .. k PROVE End(i) <= top
          OBVIOUS
        <4>1. CASE i = k
          BY <3>3, <3>4, <4>1
        <4>2. CASE i # k
          <5>1. i \in 1 .. (k - 1) /\ i \in 1 .. n
            BY <3>0, <4>2
          <5>2. PICK x \in Int : x = End(i)
            BY <1>3, <5>1
          <5>3. x <= b
            BY <3>2, <5>1, <5>2
          <5> QED BY <3>4, <5>2, <5>3
        <4> QED BY <4>1, <4>2
      <3> QED BY <2>2, <3>5
    <2> QED BY <2>3, <2>4
  <1>5. PICK b \in Int : \A i \in 1 .. n : End(i) <= b
    <2>1. n \in 1 .. n
      BY <1>2
    <2> QED BY <1>4, <2>1
  <1>6. S \subseteq Int /\ c.start + DurationOf(c) \in S /\ \A x \in S : x <= b
    BY <1>2, <1>3, <1>5 DEF Components, End
  <1> HIDE DEF S
  <1>7. MaxOf(S) \in S /\ \A x \in S : x <= MaxOf(S)
    BY <1>6, MaxOfIs
  <1> QED BY <1>6, <1>7 DEF S

(* The bounds of a single event and of a bounded series.                    *)
LEMMA BoundsAre ==
    ASSUME NEW o \in Resource, NEW m, m = Master(o.comps), m.rule # "endless"
    PROVE  /\ Overlaps(o, From, To) =
                (m.start <= To /\ From <= ComputeBounds(o.comps).last)
           /\ ComputeBounds(o.comps).open = FALSE /\ ComputeBounds(o.comps).first = m.start
           /\ ComputeBounds(o.comps).last \in Int
           /\ m.rule = "once" => m.start + DurationOf(m) <= ComputeBounds(o.comps).last
           /\ m.rule = "count" => \A t \in Times : InRule(m, t) /\ t \notin m.exdates /\ m.count <= Wide
                                    => t + DurationOf(m) <= ComputeBounds(o.comps).last
  <1>1. /\ m \in Components(o.comps) /\ m \in Component
    BY MasterIs
  <1>2. m.start \in Int /\ DurationOf(m) \in Nat /\ m.count \in Nat /\ m.rule \in {"once", "count"}
        /\ Wide \in Nat /\ Times \subseteq Int
    BY <1>1, TimesAssumption, DurationTyped DEF Component
  <1>3. CASE m.rule = "once"
    <2> DEFINE last == MaxOf({d.start + DurationOf(d) : d \in Components(o.comps)})
    <2>1. last \in Int /\ m.start + DurationOf(m) <= last
      BY <1>1, LastEnd
    <2>2. ComputeBounds(o.comps) = [first |-> m.start, open |-> FALSE, last |-> last]
      BY <1>3 DEF ComputeBounds
    <2> HIDE DEF last
    <2> QED BY <1>3, <2>1, <2>2 DEF Overlaps
  <1>4. CASE m.rule = "count"
    <2> DEFINE occ == ExpandRRULE(m, Span(m.start, m.start + Wide))
               last == DurationOf(m) + IF occ = {} THEN m.start ELSE MaxOf(occ)
    <2>1. ComputeBounds(o.comps) = [first |-> m.start, open |-> FALSE, last |-> last]
      BY <1>4 DEF ComputeBounds
    <2>2. occ \subseteq Int /\ m.start + Wide \in Int /\ \A x \in occ : x <= m.start + Wide
      BY <1>2 DEF ExpandRRULE, Span
    <2>3. occ # {} => MaxOf(occ) \in Int /\ \A x \in occ : x <= MaxOf(occ)
      <3> HIDE DEF occ
      <3> QED BY <2>2, MaxOfIs
    <2>4. ASSUME NEW t \in Times, InRule(m, t), t \notin m.exdates, m.count <= Wide
          PROVE  t \in occ
      BY <1>2, <1>4, <2>4 DEF ExpandRRULE, Span, InRule
    <2> HIDE DEF occ
    <2>5. last \in Int
      BY <1>2, <2>3
    <2>6. ASSUME NEW t \in Times, InRule(m, t), t \notin m.exdates, m.count <= Wide
          PROVE  t + DurationOf(m) <= last
      <3>1. t \in occ
        BY <2>4, <2>6
      <3>2. occ # {} /\ MaxOf(occ) \in Int /\ t <= MaxOf(occ) /\ t \in Int
        BY <1>2, <2>3, <3>1
      <3> QED BY <1>2, <3>2
    <2> HIDE DEF last
    <2> QED BY <1>4, <2>1, <2>5, <2>6 DEF Overlaps
  <1> QED BY <1>2, <1>3, <1>4

(* An instance that the window meets is of an object that it meets, if the  *)
(* changed instances and RDATEs are within the object's bounds.            *)
LEMMA WindowMeets ==
    ASSUME NEW o \in Resource, Regular(o), Bounded(o), NEW i \in During(Instances(o.comps), From, To)
    PROVE  Overlaps(o, From, To)
  <1>1. PICK m : m = Master(o.comps)
    OBVIOUS
  <1>2. /\ m \in Components(o.comps) /\ m \in Component /\ Components(o.comps) \subseteq Component
        /\ \A c \in Components(o.comps) : c.rid = NoRid => c = m
    BY <1>1, MasterIs
  <1>3. m.start \in Int /\ DurationOf(m) \in Nat /\ m.count \in Nat
        /\ m.rule \in {"once", "count", "endless"}
        /\ From \in Int /\ To \in Int /\ Wide \in Nat
    BY <1>2, TimesAssumption, SharingAssumption, DurationTyped DEF Component
  <1>4. CASE m.rule = "endless"
    <2>1. ComputeBounds(o.comps).open = TRUE
      BY <1>1, <1>4 DEF ComputeBounds
    <2> QED BY <2>1 DEF Overlaps
  <1>5. ASSUME m.rule # "endless", NEW c \in Component, NEW t \in Int, i = Instance(c, t),
               NEW last \in Int, last = ComputeBounds(o.comps).last,
               m.start <= t, t + DurationOf(c) <= last
        PROVE  Overlaps(o, From, To)
    <2>1. DurationOf(c) \in Nat
      BY DurationTyped
    <2>2. t < To /\ (From <= t \/ From < t + DurationOf(c))
      BY <1>5 DEF During, Instance
    <2>3. m.start <= To /\ From <= last
      BY <1>3, <1>5, <2>1, <2>2
    <2> QED BY <1>1, <1>5, <2>3, BoundsAre
  <1>6. ASSUME m.rule # "endless" PROVE Overlaps(o, From, To)
    <2>1. PICK last \in Int : last = ComputeBounds(o.comps).last
      BY <1>1, <1>6, BoundsAre
    <2>2. /\ ComputeBounds(o.comps).open = FALSE /\ ComputeBounds(o.comps).first = m.start
      BY <1>1, <1>6, BoundsAre
    <2>3. ASSUME NEW c \in Components(o.comps), c.rid # NoRid, i = Instance(c, c.start)
          PROVE  Overlaps(o, From, To)
      <3>1. c \in Component /\ c.start \in Int
        BY <1>2, TimesAssumption DEF Component
      <3>2. m.start <= c.start /\ c.start + DurationOf(c) <= last
        BY <2>1, <2>2, <2>3 DEF Bounded
      <3> QED BY <1>5, <1>6, <2>1, <2>3, <3>1, <3>2
    <2>4. ASSUME NEW t \in m.rdates, m.rid = NoRid, i = Instance(m, t)
          PROVE  Overlaps(o, From, To)
      <3>1. t \in Int
        BY <1>2, TimesAssumption DEF Component
      <3>2. m.start <= t /\ t + DurationOf(m) <= last
        BY <1>2, <2>1, <2>2, <2>4 DEF Bounded
      <3> QED BY <1>2, <1>5, <1>6, <2>1, <2>4, <3>1, <3>2
    <2>5. ASSUME NEW t \in Times, InRule(m, t), t \notin m.exdates, i = Instance(m, t)
          PROVE  Overlaps(o, From, To)
      <3>1. t \in Int
        BY TimesAssumption
      <3>2. m.start <= t
        <4>1. m.rule = "once" => t = m.start
          BY <2>5 DEF InRule
        <4>2. m.rule = "count" => m.start <= t
          BY <1>3, <2>5, <3>1, SMT DEF InRule, Span
        <4> QED BY <1>3, <1>6, <3>1, <4>1, <4>2
      <3>3. t + DurationOf(m) <= last
        <4>1. m.rule = "once" => t = m.start /\ m.start + DurationOf(m) <= last
          BY <1>1, <1>6, <2>1, <2>5, BoundsAre DEF InRule
        <4>2. m.rule = "count" => m.count <= Wide
          BY <1>1 DEF Bounded
        <4>3. m.rule = "count" => t + DurationOf(m) <= last
          BY <1>1, <1>6, <2>1, <2>5, <4>2, BoundsAre
        <4> QED BY <1>3, <1>6, <4>1, <4>3
      <3> QED BY <1>2, <1>5, <1>6, <2>1, <2>5, <3>1, <3>2, <3>3
    <2>6. \/ \E c \in Components(o.comps) : c.rid # NoRid /\ i = Instance(c, c.start)
          \/ \E t \in m.rdates : m.rid = NoRid /\ i = Instance(m, t)
          \/ \E t \in Times : i = Instance(m, t) /\ InRule(m, t) /\ t \notin m.exdates
      <3>1. i \in Instances(o.comps)
        BY DEF During
      <3> QED BY <1>2, <3>1 DEF Instances, Happens
    <2> QED BY <2>3, <2>4, <2>5, <2>6
  <1> QED BY <1>4, <1>6

(* Without changed instances, those of the only component are all.          *)
LEMMA PlainInstances ==
    ASSUME NEW o \in Resource, Plain(o), Regular(o), NEW m, m = Master(o.comps)
    PROVE  Instances(o.comps) = {Instance(m, t) : t \in Happens(m)}
  <1>1. Components(o.comps) = {m}
    BY MasterIs DEF Plain
  <1>2. m.rid = NoRid
    BY <1>1 DEF Plain
  <1>3. {c \in Components(o.comps) : c.rid # NoRid} = {}
    BY <1>1, <1>2
  <1> QED BY <1>1, <1>3 DEF Instances

Blocks(comp, level) ==
    comp.kinds \cap ({"transparent", "cancelled"} \cup IF level = "owner" THEN {} ELSE {"private"}) = {}

(* Of a resource that the code reads in full, the occurrences are the times *)
(* of its instances, and they last as long as it thinks.                   *)
LEMMA OccurrencesAre ==
    ASSUME NEW o \in Resource, Plain(o), Regular(o), ReadInFull(o), NEW m, m = Master(o.comps)
    PROVE  /\ DurationOf(m) = m.dur
           /\ Occurrences(o.comps, Span(From, To)) = {t \in Happens(m) : t \in Span(From, To)}
  <1>1. m \in Components(o.comps) /\ m \in Component /\ m.rid = NoRid
    BY MasterIs DEF Plain
  <1>2. m.dur \in Nat /\ m.rule \in {"once", "count", "endless"}
    BY <1>1 DEF Component
  <1>3. DurationOf(m) = m.dur
    BY <1>1, <1>2 DEF ReadInFull, DurationOf
  <1>4. Happens(m) = {t \in Times : InRule(m, t)} \ m.exdates /\ Span(From, To) \subseteq Times
    BY <1>1, SharingAssumption DEF ReadInFull, Happens
  <1>5. CASE m.rule = "once"
    <2>1. m.start \notin m.exdates
      BY <1>1, <1>5 DEF Regular
    <2>2. Occurrences(o.comps, Span(From, To)) = {m.start} \cap Span(From, To)
      BY <1>5 DEF Occurrences
    <2>3. \A t : InRule(m, t) <=> t = m.start
      BY <1>5 DEF InRule
    <2> QED BY <1>3, <1>4, <2>1, <2>2, <2>3
  <1>6. CASE m.rule # "once"
    <2>1. Occurrences(o.comps, Span(From, To)) = ExpandRRULE(m, Span(From, To))
      BY <1>6 DEF Occurrences
    <2> QED BY <1>3, <1>4, <2>1 DEF ExpandRRULE
  <1> QED BY <1>5, <1>6

(* A free-busy report has a period for each instance that starts in the     *)
(* window, blocks time and lasts.                                          *)
LEMMA PeriodsAre ==
    ASSUME NEW objs, objs \subseteq Resource,
           \A o \in objs : Plain(o) /\ Regular(o) /\ ReadInFull(o),
           NEW level
    PROVE  FreeBusy(objs, level, From, To) =
             UNION {{[from |-> i.at, to |-> IF i.at + i.dur > To THEN To ELSE i.at + i.dur] :
                       i \in {j \in Instances(o.comps) :
                                Blocks(j.comp, level) /\ j.dur > 0 /\ j.at \in Span(From, To)}} : o \in objs}
  <1> DEFINE P(o) ==
               {[from |-> i.at, to |-> IF i.at + i.dur > To THEN To ELSE i.at + i.dur] :
                  i \in {j \in Instances(o.comps) :
                           Blocks(j.comp, level) /\ j.dur > 0 /\ j.at \in Span(From, To)}}
             Q(o) ==
               LET m == Master(o.comps)
                   dur == DurationOf(m)
               IN
               IF \/ m.kinds \cap {"transparent", "cancelled"} # {}
                  \/ "private" \in m.kinds /\ level # "owner"
               THEN {}
               ELSE {[from |-> t, to |-> IF t + dur > To THEN To ELSE t + dur] :
                       t \in {u \in Occurrences(o.comps, Span(From, To)) : dur > 0}}
  <1>1. ASSUME NEW o \in objs PROVE P(o) = Q(o)
    <2>1. PICK m : m = Master(o.comps)
      OBVIOUS
    <2>2. Instances(o.comps) = {Instance(m, t) : t \in Happens(m)}
      BY <2>1, PlainInstances
    <2>3. DurationOf(m) = m.dur
          /\ Occurrences(o.comps, Span(From, To)) = {t \in Happens(m) : t \in Span(From, To)}
      BY <2>1, OccurrencesAre
    <2>4. Blocks(m, level) <=> ~(m.kinds \cap {"transparent", "cancelled"} # {}
                                 \/ ("private" \in m.kinds /\ level # "owner"))
      BY DEF Blocks
    <2>5. {j \in Instances(o.comps) : Blocks(j.comp, level) /\ j.dur > 0 /\ j.at \in Span(From, To)} =
          IF Blocks(m, level)
          THEN {Instance(m, t) : t \in {u \in Occurrences(o.comps, Span(From, To)) : m.dur > 0}}
          ELSE {}
      <3>1. \A t : Instance(m, t).comp = m /\ Instance(m, t).at = t /\ Instance(m, t).dur = m.dur
        BY DEF Instance
      <3> QED BY <2>2, <2>3, <3>1
    <2>6. CASE Blocks(m, level)
      <3>1. Q(o) = {[from |-> t, to |-> IF t + m.dur > To THEN To ELSE t + m.dur] :
                      t \in {u \in Occurrences(o.comps, Span(From, To)) : m.dur > 0}}
        <4>1. Q(o) = IF Blocks(m, level)
                     THEN {[from |-> t, to |-> IF t + m.dur > To THEN To ELSE t + m.dur] :
                             t \in {u \in Occurrences(o.comps, Span(From, To)) : m.dur > 0}}
                     ELSE {}
          BY <2>1, <2>3, <2>4
        <4> HIDE DEF Q
        <4> QED BY <2>6, <4>1
      <3>2. P(o) = {[from |-> i.at, to |-> IF i.at + i.dur > To THEN To ELSE i.at + i.dur] :
                      i \in {Instance(m, t) : t \in {u \in Occurrences(o.comps, Span(From, To)) : m.dur > 0}}}
        BY <2>5, <2>6
      <3>3. \A t : Instance(m, t).at = t /\ Instance(m, t).dur = m.dur
        BY DEF Instance
      <3> DEFINE T == {u \in Occurrences(o.comps, Span(From, To)) : m.dur > 0}
                 Cut(a, b) == [from |-> a, to |-> IF a + b > To THEN To ELSE a + b]
      <3>4. Q(o) = {Cut(t, m.dur) : t \in T} /\ P(o) = {Cut(i.at, i.dur) : i \in {Instance(m, t) : t \in T}}
        BY <3>1, <3>2
      <3> HIDE DEF T, Cut
      <3>5. {Cut(i.at, i.dur) : i \in {Instance(m, t) : t \in T}} = {Cut(t, m.dur) : t \in T}
        BY <3>3
      <3> HIDE DEF P, Q
      <3> QED BY <3>4, <3>5
    <2>7. CASE ~Blocks(m, level)
      <3>1. Q(o) = {}
        BY <2>1, <2>4, <2>7
      <3>2. P(o) = {}
        BY <2>5, <2>7
      <3> HIDE DEF P, Q
      <3> QED BY <3>1, <3>2
    <2> QED BY <2>6, <2>7
  <1>2. FreeBusy(objs, level, From, To) = UNION {Q(o) : o \in objs}
    BY DEF FreeBusy
  <1> HIDE DEF P, Q
  <1>3. UNION {P(o) : o \in objs} = UNION {Q(o) : o \in objs}
    BY <1>1
  <1> QED BY <1>2, <1>3 DEF P

(* What a resource's instances are made of.                                *)
LEMMA InstancesTyped ==
    ASSUME NEW o \in Resource, NEW i \in Instances(o.comps)
    PROVE  i.at \in Int /\ i.dur \in Nat /\ i.comp \in Components(o.comps)
  <1>1. Components(o.comps) \subseteq Component
    BY MasterIs
  <1>2. \A c \in Components(o.comps) : c.start \in Times /\ c.rdates \subseteq Times
    BY <1>1 DEF Component
  <1>3. PICK c \in Components(o.comps), t \in Times : i = Instance(c, t)
    BY <1>2 DEF Instances, Happens
  <1>4. c.dur \in Nat /\ t \in Int
    BY <1>1, <1>3, TimesAssumption DEF Component
  <1> QED BY <1>3, <1>4 DEF Instance

(* A free-busy report covers the time that the events block and the asker   *)
(* may know of, and no other, of the events whose times DTSTART, DTEND and  *)
(* RRULE say.                                                              *)
THEOREM BusyTimeTold == Spec => []BusyTimeIsReported
  <1>1. SharingTypeOK => BusyTimeIsReported
    <2> SUFFICES ASSUME SharingTypeOK, NEW c \in DOMAIN calendars, NEW level \in Levels
                 PROVE  LET plain == {o \in calendars[c].objs : Plain(o) /\ Regular(o) /\ ReadInFull(o)}
                            blocking == Blocking(plain, level)
                        IN
                        (\A i \in blocking : i.at >= From \/ i.at + i.dur <= From) =>
                            Covered(FreeBusy(plain, level, From, To)) =
                                Covered({[from |-> i.at, to |-> i.at + i.dur] : i \in blocking}) \cap Span(From, To)
      BY DEF BusyTimeIsReported
    <2> DEFINE plain == {o \in calendars[c].objs : Plain(o) /\ Regular(o) /\ ReadInFull(o)}
               blocking == {i \in UNION {Instances(o.comps) : o \in plain} : Blocks(i.comp, level)}
               whole == {[from |-> i.at, to |-> i.at + i.dur] : i \in blocking}
               periods == FreeBusy(plain, level, From, To)
    <2>0. Blocking(plain, level) = blocking
      BY DEF Blocking, Blocks
    <2>1. plain \subseteq Resource
      BY SharingAssumption DEF SharingTypeOK
    <2>2. From \in Int /\ To \in Int
      BY SharingAssumption
    <2>3. \A i \in blocking : i.at \in Int /\ i.dur \in Nat
      BY <2>1, InstancesTyped
    <2>4. periods = {[from |-> i.at, to |-> IF i.at + i.dur > To THEN To ELSE i.at + i.dur] :
                       i \in {j \in blocking : j.dur > 0 /\ j.at \in Span(From, To)}}
      BY <2>1, PeriodsAre
    <2> HIDE DEF blocking, periods
    <2>5. ASSUME \A i \in blocking : i.at >= From \/ i.at + i.dur <= From
          PROVE  Covered(periods) = Covered(whole) \cap Span(From, To)
      <3>1. ASSUME NEW x \in Covered(periods) PROVE x \in Covered(whole) \cap Span(From, To)
        <4>1. PICK i \in blocking :
                /\ i.dur > 0 /\ i.at \in Span(From, To)
                /\ x \in Span(i.at, IF i.at + i.dur > To THEN To ELSE i.at + i.dur)
          BY <2>4, <3>1 DEF Covered
        <4>2. x \in Span(i.at, i.at + i.dur) /\ x \in Span(From, To)
          BY <2>2, <2>3, <4>1 DEF Span
        <4>3. [from |-> i.at, to |-> i.at + i.dur] \in whole
          OBVIOUS
        <4> QED BY <4>2, <4>3 DEF Covered
      <3>2. ASSUME NEW x \in Covered(whole) \cap Span(From, To) PROVE x \in Covered(periods)
        <4>1. PICK i \in blocking : x \in Span(i.at, i.at + i.dur)
          BY <3>2 DEF Covered
        <4>2. x \in Span(From, To)
          BY <3>2
        <4>3. i.dur > 0 /\ i.at \in Span(From, To)
          BY <2>2, <2>3, <2>5, <4>1, <4>2 DEF Span
        <4>4. x \in Span(i.at, IF i.at + i.dur > To THEN To ELSE i.at + i.dur)
          BY <2>2, <2>3, <4>1, <4>2 DEF Span
        <4> DEFINE p == [from |-> i.at, to |-> IF i.at + i.dur > To THEN To ELSE i.at + i.dur]
        <4>5. p \in periods
          BY <2>4, <4>3
        <4> QED BY <4>4, <4>5 DEF Covered
      <3> QED BY <3>1, <3>2
    <2>6. \A B : B = blocking =>
            ((\A i \in B : i.at >= From \/ i.at + i.dur <= From) =>
               Covered(periods) = Covered({[from |-> i.at, to |-> i.at + i.dur] : i \in B}) \cap Span(From, To))
      BY <2>5
    <2> QED BY <2>0, <2>6 DEF periods
  <1> QED BY <1>1, TypeCorrect, PTL

----------------------------------------------------------------------------
(* What the filter lets through.                                           *)

(* What a filtered component tells is what the view means of it.            *)
LEMMA TellsMeant ==
    ASSUME NEW view, FieldsOK(view.fields), NEW uid, NEW c,
           NEW f, f = FilterEvent(uid, c, EffectiveRules(view))
    PROVE  Sight(f.own, f.label, f.alarm) = Meant(view, c)
  <1> DEFINE rule(n) == IF n \in DOMAIN view.fields THEN view.fields[n] ELSE PresetRules(view.preset)[n]
             rules == EffectiveRules(view)
             told == {n \in c.props \cap ManagedFields : rule(n) # "strip"}
  <1>1. \A n \in ManagedFields : rule(n) \in Rules
    <2>1. \A n \in ManagedFields : PresetRules(view.preset)[n] \in Rules
      BY DEF PresetRules, Rules
    <2> QED BY <2>1 DEF FieldsOK
  <1>2. \A n \in ManagedFields : rules[n] = rule(n)
    BY DEF EffectiveRules, Override, PresetRules
  <1>3. "SUMMARY" \in ManagedFields /\ "VALARM" \in ManagedFields
    BY DEF ManagedFields
  <1>4. /\ f.own = {n \in c.props : \/ RuleOf(rules, n) = "keep"
                                    \/ RuleOf(rules, n) = "replace" /\ n # "SUMMARY"}
        /\ f.label = (rules["SUMMARY"] = "replace")
        /\ f.alarm = (c.alarm /\ rules["VALARM"] # "strip")
    BY DEF FilterEvent
  <1> HIDE DEF rules, rule
  <1>5. \A n \in c.props : n \in ManagedFields => RuleOf(rules, n) = rule(n)
    BY <1>2 DEF RuleOf
  <1>6. \A n \in c.props : n \notin ManagedFields => RuleOf(rules, n) = "strip"
    BY DEF RuleOf
  <1>7. f.own = IF rule("SUMMARY") = "replace" THEN told \ {"SUMMARY"} ELSE told
    BY <1>1, <1>4, <1>5, <1>6 DEF Rules
  <1>8. /\ f.label = (rule("SUMMARY") = "replace")
        /\ f.alarm = (c.alarm /\ rule("VALARM") # "strip")
    BY <1>2, <1>3, <1>4, Zenon
  <1>9. Meant(view, c) =
          IF rule("SUMMARY") = "replace"
          THEN Sight(told \ {"SUMMARY"}, TRUE, c.alarm /\ rule("VALARM") # "strip")
          ELSE Sight(told, FALSE, c.alarm /\ rule("VALARM") # "strip")
    BY DEF Meant, rule
  <1> HIDE DEF told
  <1>10. CASE rule("SUMMARY") = "replace"
    BY <1>7, <1>8, <1>9, <1>10, Zenon
  <1>11. CASE rule("SUMMARY") # "replace"
    <2>1. f.label = FALSE
      BY <1>8, <1>11, Zenon
    <2> QED BY <1>7, <1>8, <1>9, <1>11, <2>1, Zenon
  <1> QED BY <1>10, <1>11

(* The three forms in which a component is shown: as it is, as a series     *)
(* with its hidden instances excepted, and as an event of its own.         *)
Shown(o, row) == {c \in Components(o.comps) : c.kinds \subseteq row.include}
Overriding(o) == {c \in Components(o.comps) : c.rid # NoRid}

AsItIs(o, c, row) == FilterEvent(o.uid, c, EffectiveRules(row))
AsSeries(o, m, row) == AddExdates(AsItIs(o, m, row), m, Overriding(o) \ Shown(o, row))
AsEvent(o, c, row) == Promoted(AsItIs(o, c, row), c)

LEMMA SeriesIsShown ==
    ASSUME NEW o \in Resource, Regular(o), NEW row, NEW m, m = Master(o.comps)
    PROVE  FilterSeries(o, row) =
             IF m.rid = NoRid /\ m \notin Shown(o, row)
             THEN {AsEvent(o, c, row) : c \in Overriding(o) \cap Shown(o, row)}
             ELSE {AsItIs(o, c, row) : c \in Overriding(o) \cap Shown(o, row)}
                  \cup {AsSeries(o, d, row) : d \in {x \in {m} : x.rid = NoRid}}
  <1> DEFINE C == Components(o.comps)
             hidden == {c \in C : DropByFlags(c, row)}
             F(S) == {AsItIs(o, c, row) : c \in S}
  <1>1. /\ m \in C
        /\ m.rid # NoRid => \A c \in C : c.rid # NoRid
        /\ \A c \in C : c.rid = NoRid => c = m
    BY MasterIs
  <1>2. C \ hidden = Shown(o, row) /\ Overriding(o) \cap hidden = Overriding(o) \ Shown(o, row)
        /\ Overriding(o) \ hidden = Overriding(o) \cap Shown(o, row)
    BY DEF Shown, Overriding, DropByFlags
  <1>3. ASSUME m.rid # NoRid \/ m.rule = "once" PROVE FilterSeries(o, row) = F(C \ hidden)
    BY <1>3 DEF FilterSeries, AsItIs
  <1>4. ASSUME m.rid = NoRid, m.rule # "once", m \notin hidden
        PROVE  FilterSeries(o, row) = {AddExdates(AsItIs(o, m, row), m, Overriding(o) \cap hidden)}
                                      \cup F(Overriding(o) \ hidden)
    BY <1>4 DEF FilterSeries, AsItIs, Overriding
  <1>5. ASSUME m.rid = NoRid, m.rule # "once", m \in hidden
        PROVE  FilterSeries(o, row) = {AsEvent(o, c, row) : c \in Overriding(o) \ hidden}
    BY <1>5 DEF FilterSeries, AsItIs, AsEvent, Overriding
  <1>6. m \in hidden <=> m \notin Shown(o, row)
    BY <1>1, <1>2
  <1>7. CASE m.rid = NoRid /\ m.rule # "once"
    BY <1>2, <1>4, <1>5, <1>6, <1>7 DEF AsSeries
  <1>8. CASE m.rid # NoRid
    <2>1. Shown(o, row) = Overriding(o) \cap Shown(o, row)
      BY <1>1, <1>8 DEF Shown, Overriding
    <2>2. {x \in {m} : x.rid = NoRid} = {}
      BY <1>8
    <2> QED BY <1>2, <1>3, <1>8, <2>1, <2>2
  <1>9. CASE m.rid = NoRid /\ m.rule = "once"
    <2>1. \A c \in C : c.rid = NoRid
      BY <1>1, <1>9 DEF Regular, Plain
    <2>2. C = {m} /\ Overriding(o) = {}
      BY <1>1, <2>1 DEF Overriding
    <2>3. FilterSeries(o, row) = F(Shown(o, row))
      BY <1>2, <1>3, <1>9
    <2>4. CASE m \notin Shown(o, row)
      <3>1. Shown(o, row) = {}
        BY <2>2, <2>4 DEF Shown
      <3> QED BY <1>9, <2>2, <2>3, <2>4, <3>1
    <2>5. CASE m \in Shown(o, row)
      <3>1. Shown(o, row) = {m} /\ {x \in {m} : x.rid = NoRid} = {m}
        BY <1>9, <2>2, <2>5 DEF Shown
      <3>2. AsSeries(o, m, row) = AsItIs(o, m, row)
        <4>1. Overriding(o) \ Shown(o, row) = {}
          BY <2>2
        <4> DEFINE f == AsItIs(o, m, row)
                   none == {[at |-> d.rid, zone |-> d.zone,
                             tzid |-> IF m.zone = AllDay THEN NoZone ELSE m.zone] : d \in {}}
        <4>2. AsSeries(o, m, row) = [f EXCEPT !.exdates = f.exdates \cup none]
          BY <4>1 DEF AsSeries, AddExdates
        <4>3. f.exdates \cup none = f.exdates
          OBVIOUS
        <4>4. [f EXCEPT !.exdates = f.exdates] = f
          BY DEF AsItIs, FilterEvent
        <4> HIDE DEF f, none
        <4>5. AsSeries(o, m, row) = f
          BY <4>2, <4>3, <4>4
        <4> QED BY <4>5 DEF f
      <3> QED BY <1>9, <2>2, <2>3, <2>5, <3>1, <3>2
    <2> QED BY <2>4, <2>5
  <1> QED BY <1>7, <1>8, <1>9

(* What the recipient sees of one event of a body.                         *)
SeenOf(f, body) ==
    LET changed == {o.rid : o \in {g \in body : g.uid = f.uid /\ g.rid # NoRid}}
        excepted == {x.at : x \in {y \in f.exdates : y.zone = y.tzid}}
    IN
    IF f.rid # NoRid THEN {SightAt(f.start, f.dur, f)}
    ELSE {SightAt(t, f.dur, f) :
            t \in ({u \in Times : InRule(f, u)} \cup f.rdates) \ (changed \cup excepted)}

LEMMA SeenIs == ASSUME NEW body PROVE SeenIn(body) = UNION {SeenOf(f, body) : f \in body}
  BY DEF SeenIn, SeenOf

(* What the view means of an instance.                                     *)
Meaning(i, row) == [at |-> i.at, dur |-> i.dur, sight |-> Meant(row, i.comp)]

LEMMA ItIsSeen ==
    ASSUME NEW o, NEW row, FieldsOK(row.fields), NEW c, c.rid # NoRid, NEW body
    PROVE  SeenOf(AsItIs(o, c, row), body) = {Meaning(Instance(c, c.start), row)}
  <1>1. PICK f : f = AsItIs(o, c, row)
    OBVIOUS
  <1>2. f.rid = c.rid /\ f.start = c.start /\ f.dur = c.dur
    BY <1>1 DEF AsItIs, FilterEvent
  <1>3. Sight(f.own, f.label, f.alarm) = Meant(row, c)
    BY <1>1, TellsMeant DEF AsItIs
  <1>4. SeenOf(f, body) = {SightAt(c.start, c.dur, f)}
    BY <1>2 DEF SeenOf
  <1> QED BY <1>1, <1>3, <1>4 DEF SightAt, Meaning, Instance

(* An event of its own is seen at its time, as no component of the body      *)
(* changes an instance of its UID.                                         *)
LEMMA EventIsSeen ==
    ASSUME NEW o, NEW row, FieldsOK(row.fields), NEW c \in Component, c.start \notin c.exdates,
           c.rdates = {},
           NEW body, \A g \in body : g.rid # NoRid => Len(g.uid) = 1
    PROVE  SeenOf(AsEvent(o, c, row), body) = {Meaning(Instance(c, c.start), row)}
  <1> DEFINE e == AsItIs(o, c, row)
             f == AsEvent(o, c, row)
  <1>1. /\ e.start = c.start /\ e.dur = c.dur /\ e.uid = <<o.uid>>
        /\ e.exdates = {[at |-> t, zone |-> c.zone, tzid |-> c.zone] : t \in c.exdates}
        /\ e.rdates = c.rdates
        /\ DOMAIN e = {"uid", "rid", "start", "dur", "rule", "count", "rdates", "exdates", "own", "label", "alarm"}
    BY DEF AsItIs, FilterEvent
  <1>2. Sight(e.own, e.label, e.alarm) = Meant(row, c)
    BY TellsMeant DEF AsItIs
  <1>3. f = [e EXCEPT !.uid = Append(e.uid, c.rid), !.rid = NoRid, !.rule = "once"]
    BY DEF AsEvent, Promoted
  <1> HIDE DEF e
  <1>5. /\ f.uid = Append(<<o.uid>>, c.rid) /\ f.rid = NoRid /\ f.rule = "once"
        /\ f.start = c.start /\ f.dur = c.dur /\ f.exdates = e.exdates /\ f.rdates = {}
        /\ f.own = e.own /\ f.label = e.label /\ f.alarm = e.alarm
    BY <1>1, <1>3
  <1> HIDE DEF f
  <1>6. Len(f.uid) = 2
    BY <1>5
  <1>7. {g \in body : g.uid = f.uid /\ g.rid # NoRid} = {}
    BY <1>6
  <1>8. c.start \notin {x.at : x \in {y \in f.exdates : y.zone = y.tzid}}
    BY <1>1, <1>5
  <1>9. {u \in Times : InRule(f, u)} \cup f.rdates = {c.start}
    BY <1>5 DEF InRule, Component
  <1>10. SeenOf(f, body) = {SightAt(c.start, f.dur, f)}
    <2> DEFINE changed == {d.rid : d \in {g \in body : g.uid = f.uid /\ g.rid # NoRid}}
               excepted == {x.at : x \in {y \in f.exdates : y.zone = y.tzid}}
    <2>1. changed = {} /\ c.start \notin excepted
      BY <1>7, <1>8
    <2>2. SeenOf(f, body) = {SightAt(t, f.dur, f) :
                               t \in ({u \in Times : InRule(f, u)} \cup f.rdates) \ (changed \cup excepted)}
      BY <1>5 DEF SeenOf
    <2> HIDE DEF changed, excepted
    <2>3. ({u \in Times : InRule(f, u)} \cup f.rdates) \ (changed \cup excepted) = {c.start}
      BY <1>9, <2>1
    <2> QED BY <2>2, <2>3
  <1>11. SightAt(c.start, f.dur, f) = Meaning(Instance(c, c.start), row)
    BY <1>2, <1>5 DEF SightAt, Meaning, Instance
  <1> QED BY <1>10, <1>11 DEF f

(* A series is seen at the times it happens that are neither excepted nor    *)
(* those of hidden instances, nor changed by what the body has of its UID. *)
SeriesSights(o, m, row, body) ==
    {Meaning(Instance(m, t), row) : t \in
       Happens(m) \ ({d.rid : d \in Overriding(o) \ Shown(o, row)}
                      \cup {g.rid : g \in {h \in body : h.uid = <<o.uid>> /\ h.rid # NoRid}})}

LEMMA SeriesIsSeen ==
    ASSUME NEW o \in Resource, OneZone(o), NEW row, FieldsOK(row.fields),
           NEW m \in Components(o.comps), m.rid = NoRid, NEW body
    PROVE  SeenOf(AsSeries(o, m, row), body) = SeriesSights(o, m, row, body)
  <1> DEFINE e == AsItIs(o, m, row)
             f == AsSeries(o, m, row)
             hidden == Overriding(o) \ Shown(o, row)
             changed == {g.rid : g \in {h \in body : h.uid = <<o.uid>> /\ h.rid # NoRid}}
             tzid == IF m.zone = AllDay THEN NoZone ELSE m.zone
             excepted == {x.at : x \in {y \in f.exdates : y.zone = y.tzid}}
  <1>1. /\ e.start = m.start /\ e.dur = m.dur /\ e.uid = <<o.uid>> /\ e.rid = NoRid
        /\ e.rule = m.rule /\ e.count = m.count
        /\ e.exdates = {[at |-> t, zone |-> m.zone, tzid |-> m.zone] : t \in m.exdates}
        /\ e.rdates = m.rdates
        /\ DOMAIN e = {"uid", "rid", "start", "dur", "rule", "count", "rdates", "exdates", "own", "label", "alarm"}
    BY DEF AsItIs, FilterEvent
  <1>2. Sight(e.own, e.label, e.alarm) = Meant(row, m)
    BY TellsMeant DEF AsItIs
  <1>3. f = [e EXCEPT !.exdates = e.exdates \cup {[at |-> d.rid, zone |-> d.zone, tzid |-> tzid] : d \in hidden}]
    BY DEF AsSeries, AddExdates
  <1> HIDE DEF e
  <1>4. /\ f.uid = <<o.uid>> /\ f.rid = NoRid /\ f.rule = m.rule /\ f.count = m.count
        /\ f.start = m.start /\ f.dur = m.dur /\ f.rdates = m.rdates
        /\ f.exdates = e.exdates \cup {[at |-> d.rid, zone |-> d.zone, tzid |-> tzid] : d \in hidden}
        /\ f.own = e.own /\ f.label = e.label /\ f.alarm = e.alarm
    BY <1>1, <1>3
  <1> HIDE DEF f
  <1>5. \A d \in hidden : d.zone = tzid
    <2> SUFFICES ASSUME NEW d \in hidden PROVE d.zone = tzid
      OBVIOUS
    <2>1. d \in Components(o.comps) /\ d.rid # NoRid
      BY DEF Overriding
    <2>2. m.zone # AllDay
      BY <2>1 DEF OneZone, Plain
    <2> QED BY <2>1, <2>2 DEF OneZone
  <1>6. excepted = m.exdates \cup {d.rid : d \in hidden}
    <2> HIDE DEF hidden, tzid
    <2>1. f.exdates = {[at |-> t, zone |-> m.zone, tzid |-> m.zone] : t \in m.exdates}
                      \cup {[at |-> d.rid, zone |-> d.zone, tzid |-> tzid] : d \in hidden}
      BY <1>1, <1>4
    <2>2. \A y \in f.exdates : y.zone = y.tzid
      BY <1>5, <2>1
    <2>3. excepted = {x.at : x \in f.exdates}
      BY <2>2
    <2> HIDE DEF excepted
    <2>4. \A y \in f.exdates : y.at \in m.exdates \cup {d.rid : d \in hidden}
      BY <2>1
    <2>5. ASSUME NEW t \in m.exdates PROVE t \in excepted
      <3>1. [at |-> t, zone |-> m.zone, tzid |-> m.zone] \in f.exdates
        BY <2>1
      <3> QED BY <2>3, <3>1
    <2>6. ASSUME NEW d \in hidden PROVE d.rid \in excepted
      <3>1. [at |-> d.rid, zone |-> d.zone, tzid |-> tzid] \in f.exdates
        BY <2>1
      <3> QED BY <2>3, <3>1
    <2> QED BY <2>3, <2>4, <2>5, <2>6
  <1>7. \A u : InRule(f, u) <=> InRule(m, u)
    BY <1>4 DEF InRule
  <1>8. SeenOf(f, body) = {SightAt(t, f.dur, f) :
                             t \in ({u \in Times : InRule(f, u)} \cup f.rdates) \ (changed \cup excepted)}
    BY <1>4 DEF SeenOf
  <1>9. ({u \in Times : InRule(f, u)} \cup f.rdates) \ (changed \cup excepted) =
          Happens(m) \ ({d.rid : d \in hidden} \cup changed)
    <2> HIDE DEF excepted, changed, hidden
    <2> QED BY <1>4, <1>6, <1>7 DEF Happens
  <1>10. \A t : SightAt(t, f.dur, f) = Meaning(Instance(m, t), row)
    BY <1>2, <1>4 DEF SightAt, Meaning, Instance
  <1> HIDE DEF excepted, changed, hidden
  <1>11. SeenOf(f, body) = {Meaning(Instance(m, t), row) : t \in
                             Happens(m) \ ({d.rid : d \in hidden} \cup changed)}
    BY <1>8, <1>9, <1>10
  <1> QED BY <1>11 DEF f, hidden, changed, SeriesSights

(* The events of a body that is made of whole resources.                    *)
LEMMA BodyOf ==
    ASSUME NEW objs, objs \subseteq Resource, \A o \in objs : Regular(o), NEW row
    PROVE  /\ \A g \in Apply(objs, row) : g.rid # NoRid =>
                /\ Len(g.uid) = 1
                /\ \E o \in objs : \E d \in Overriding(o) \cap Shown(o, row) : g.uid = <<o.uid>> /\ g.rid = d.rid
           /\ \A o \in objs : \A m \in Shown(o, row) : m.rid = NoRid =>
                \A d \in Overriding(o) \cap Shown(o, row) :
                  d.rid \in {g.rid : g \in {h \in Apply(objs, row) : h.uid = <<o.uid>> /\ h.rid # NoRid}}
  <1>1. ASSUME NEW o, NEW c
        PROVE  /\ AsItIs(o, c, row).uid = <<o.uid>> /\ AsItIs(o, c, row).rid = c.rid
               /\ AsEvent(o, c, row).rid = NoRid
               /\ AsSeries(o, c, row).rid = c.rid
    BY DEF AsItIs, AsEvent, AsSeries, FilterEvent, Promoted, AddExdates
  <1>2. ASSUME NEW o \in objs, NEW g \in FilterSeries(o, row), g.rid # NoRid
        PROVE  \E d \in Overriding(o) \cap Shown(o, row) : g = AsItIs(o, d, row)
    <2>1. PICK m : m = Master(o.comps)
      OBVIOUS
    <2>2. \A c : AsEvent(o, c, row).rid = NoRid /\ AsSeries(o, c, row).rid = c.rid
      BY <1>1
    <2> QED BY <1>2, <2>1, <2>2, SeriesIsShown
  <1>3. ASSUME NEW g \in Apply(objs, row), g.rid # NoRid
        PROVE  /\ Len(g.uid) = 1
               /\ \E o \in objs : \E d \in Overriding(o) \cap Shown(o, row) : g.uid = <<o.uid>> /\ g.rid = d.rid
    <2>1. PICK o \in objs : g \in FilterSeries(o, row)
      BY DEF Apply
    <2>2. PICK d \in Overriding(o) \cap Shown(o, row) : g = AsItIs(o, d, row)
      BY <1>2, <1>3, <2>1
    <2>3. g.uid = <<o.uid>> /\ g.rid = d.rid
      BY <1>1, <2>2
    <2> QED BY <2>3
  <1>4. ASSUME NEW o \in objs, NEW m \in Shown(o, row), m.rid = NoRid,
               NEW d \in Overriding(o) \cap Shown(o, row)
        PROVE  d.rid \in {g.rid : g \in {h \in Apply(objs, row) : h.uid = <<o.uid>> /\ h.rid # NoRid}}
    <2>1. m = Master(o.comps)
      BY <1>4, MasterIs DEF Shown
    <2>2. AsItIs(o, d, row) \in FilterSeries(o, row)
      BY <1>4, <2>1, SeriesIsShown
    <2>3. AsItIs(o, d, row) \in Apply(objs, row)
      BY <2>2 DEF Apply
    <2>4. AsItIs(o, d, row).uid = <<o.uid>> /\ AsItIs(o, d, row).rid = d.rid /\ d.rid # NoRid
      BY <1>1 DEF Overriding
    <2> QED BY <2>3, <2>4
  <1> QED BY <1>3, <1>4

LEMMA MeantIs ==
    ASSUME NEW insts, NEW row
    PROVE  MeantOf(insts, row) = {Meaning(i, row) : i \in {j \in insts : j.comp.kinds \subseteq row.include}}
  BY DEF MeantOf, Meaning

(* The recipient sees nothing that is not meant.                           *)
LEMMA SeenIsMeant ==
    ASSUME NEW objs, objs \subseteq Resource, \A o \in objs : Regular(o) /\ OneZone(o),
           NEW row, FieldsOK(row.fields), NEW x \in SeenIn(Apply(objs, row))
    PROVE  \E o \in objs : x \in MeantOf(Instances(o.comps), row)
  <1> DEFINE body == Apply(objs, row)
  <1>1. PICK f \in body : x \in SeenOf(f, body)
    BY SeenIs
  <1>2. PICK o \in objs : f \in FilterSeries(o, row)
    BY <1>1 DEF Apply
  <1>3. PICK m : m = Master(o.comps)
    OBVIOUS
  <1>4. /\ m \in Components(o.comps) /\ Components(o.comps) \subseteq Component
        /\ m.rid # NoRid => \A c \in Components(o.comps) : c.rid # NoRid
        /\ \A c \in Components(o.comps) : c.rid = NoRid => c = m
    BY <1>3, MasterIs
  <1>5. ASSUME NEW c \in Overriding(o) \cap Shown(o, row), x = Meaning(Instance(c, c.start), row)
        PROVE  x \in MeantOf(Instances(o.comps), row)
    <2>1. Instance(c, c.start) \in Instances(o.comps)
      BY DEF Instances, Overriding
    <2>2. Instance(c, c.start).comp.kinds \subseteq row.include
      BY DEF Instance, Shown
    <2> QED BY <1>5, <2>1, <2>2, MeantIs
  <1>6. ASSUME NEW c \in Overriding(o) \cap Shown(o, row), f = AsItIs(o, c, row)
        PROVE  x \in MeantOf(Instances(o.comps), row)
    <2>1. c.rid # NoRid
      BY DEF Overriding
    <2> QED BY <1>1, <1>5, <1>6, <2>1, ItIsSeen
  <1>7. ASSUME NEW c \in Overriding(o) \cap Shown(o, row), f = AsEvent(o, c, row), m.rid = NoRid
        PROVE  x \in MeantOf(Instances(o.comps), row)
    <2>1. c \in Component /\ c.start \notin c.exdates /\ c.rdates = {}
      BY <1>4, <1>7 DEF Overriding, Regular
    <2>2. \A g \in body : g.rid # NoRid => Len(g.uid) = 1
      BY BodyOf
    <2>3. SeenOf(f, body) = {Meaning(Instance(c, c.start), row)}
      <3> HIDE DEF body
      <3> QED BY <1>7, <2>1, <2>2, EventIsSeen
    <2> QED BY <1>1, <1>5, <2>3
  <1>8. ASSUME m.rid = NoRid, m \in Shown(o, row), f = AsSeries(o, m, row)
        PROVE  x \in MeantOf(Instances(o.comps), row)
    <2> DEFINE changed == {g.rid : g \in {h \in body : h.uid = <<o.uid>> /\ h.rid # NoRid}}
    <2>1. PICK t \in Happens(m) \ ({d.rid : d \in Overriding(o) \ Shown(o, row)} \cup changed) :
            x = Meaning(Instance(m, t), row)
      <3>1. x \in SeriesSights(o, m, row, body)
        <4> HIDE DEF body
        <4> QED BY <1>1, <1>4, <1>8, SeriesIsSeen
      <3> HIDE DEF body
      <3> QED BY <3>1 DEF SeriesSights
    <2>2. \A d \in Overriding(o) \cap Shown(o, row) : d.rid \in changed
      BY <1>8, BodyOf
    <2> HIDE DEF changed
    <2>3. \A d \in Overriding(o) : t # d.rid
      BY <2>1, <2>2
    <2>4. t \in Happens(m) \ {d.rid : d \in Overriding(o)}
      BY <2>1, <2>3
    <2>5. Instance(m, t) \in Instances(o.comps)
      BY <1>4, <1>8, <2>4 DEF Instances, Overriding
    <2>6. Instance(m, t).comp.kinds \subseteq row.include
      BY <1>8 DEF Instance, Shown
    <2> QED BY <2>1, <2>5, <2>6, MeantIs
  <1>9. \/ \E c \in Overriding(o) \cap Shown(o, row) : f = AsItIs(o, c, row)
        \/ m.rid = NoRid /\ \E c \in Overriding(o) \cap Shown(o, row) : f = AsEvent(o, c, row)
        \/ m.rid = NoRid /\ m \in Shown(o, row) /\ f = AsSeries(o, m, row)
    BY <1>2, <1>3, SeriesIsShown
  <1> QED BY <1>6, <1>7, <1>8, <1>9

(* If no two resources have a UID in common, an instance that is meant, of   *)
(* a resource that the body is made of, is seen.                           *)
LEMMA MeantIsSeen ==
    ASSUME NEW objs, objs \subseteq Resource, \A o \in objs : Regular(o) /\ OneZone(o),
           NEW row, FieldsOK(row.fields),
           NEW o \in objs, \A p \in objs : o.uid = p.uid => o = p,
           NEW i \in Instances(o.comps), i.comp.kinds \subseteq row.include
    PROVE  Meaning(i, row) \in SeenIn(Apply(objs, row))
  <1> DEFINE body == Apply(objs, row)
  <1>0. o \in Resource /\ Regular(o) /\ OneZone(o) /\ \A p \in objs : Regular(p)
    OBVIOUS
  <1>1. PICK m : m = Master(o.comps)
    OBVIOUS
  <1>2. /\ m \in Components(o.comps) /\ Components(o.comps) \subseteq Component
        /\ \A c \in Components(o.comps) : c.rid = NoRid => c = m
    BY <1>1, MasterIs
  <1>3. ASSUME NEW f \in FilterSeries(o, row), Meaning(i, row) \in SeenOf(f, body)
        PROVE  Meaning(i, row) \in SeenIn(body)
    <2>1. f \in body
      BY DEF Apply
    <2> HIDE DEF body
    <2> QED BY <1>3, <2>1, SeenIs
  <1>4. ASSUME NEW c \in Overriding(o), i = Instance(c, c.start)
        PROVE  Meaning(i, row) \in SeenIn(body)
    <2>1. c \in Overriding(o) \cap Shown(o, row) /\ c.rid # NoRid
      BY <1>4 DEF Overriding, Shown, Instance
    <2>2. CASE m.rid = NoRid /\ m \notin Shown(o, row)
      <3>1. AsEvent(o, c, row) \in FilterSeries(o, row)
        BY <1>1, <2>1, <2>2, SeriesIsShown
      <3>2. c \in Component /\ c.start \notin c.exdates /\ c.rdates = {}
        BY <1>2, <2>1, <2>2 DEF Overriding, Regular
      <3>3. \A g \in body : g.rid # NoRid => Len(g.uid) = 1
        BY BodyOf
      <3>4. SeenOf(AsEvent(o, c, row), body) = {Meaning(i, row)}
        <4> HIDE DEF body
        <4> QED BY <1>4, <3>2, <3>3, EventIsSeen
      <3> QED BY <1>3, <3>1, <3>4
    <2>3. CASE ~(m.rid = NoRid /\ m \notin Shown(o, row))
      <3>1. AsItIs(o, c, row) \in FilterSeries(o, row)
        BY <1>1, <2>1, <2>3, SeriesIsShown
      <3>2. SeenOf(AsItIs(o, c, row), body) = {Meaning(i, row)}
        BY <1>4, <2>1, ItIsSeen
      <3> QED BY <1>3, <3>1, <3>2
    <2> QED BY <2>2, <2>3
  <1>5. ASSUME m.rid = NoRid, NEW t \in Happens(m) \ {d.rid : d \in Overriding(o)}, i = Instance(m, t)
        PROVE  Meaning(i, row) \in SeenIn(body)
    <2>1. m \in Shown(o, row)
      BY <1>2, <1>5 DEF Shown, Instance
    <2>2. AsSeries(o, m, row) \in FilterSeries(o, row)
      BY <1>1, <1>5, <2>1, SeriesIsShown
    <2> DEFINE changed == {g.rid : g \in {h \in body : h.uid = <<o.uid>> /\ h.rid # NoRid}}
               hidden == {d.rid : d \in Overriding(o) \ Shown(o, row)}
    <2>3. ASSUME NEW g \in body, g.uid = <<o.uid>>, g.rid # NoRid PROVE g.rid # t
      <3>1. PICK p \in objs : \E d \in Overriding(p) \cap Shown(p, row) : g.uid = <<p.uid>> /\ g.rid = d.rid
        BY <1>0, <2>3, BodyOf
      <3>2. o.uid = p.uid
        BY <2>3, <3>1
      <3>3. o = p
        BY <3>2
      <3> QED BY <1>5, <3>1, <3>3
    <2>4. t \notin changed /\ t \notin hidden /\ t \in Happens(m)
      <3> HIDE DEF body
      <3> QED BY <1>5, <2>3
    <2>5. Meaning(i, row) \in SeriesSights(o, m, row, body)
      <3> HIDE DEF body
      <3> QED BY <1>5, <2>4 DEF SeriesSights
    <2>6. SeenOf(AsSeries(o, m, row), body) = SeriesSights(o, m, row, body)
      <3> HIDE DEF body
      <3> QED BY <1>0, <1>2, <1>5, SeriesIsSeen
    <2> QED BY <1>3, <2>2, <2>5, <2>6
  <1>6. \/ \E c \in Overriding(o) : i = Instance(c, c.start)
        \/ m.rid = NoRid /\ \E t \in Happens(m) \ {d.rid : d \in Overriding(o)} : i = Instance(m, t)
    BY <1>2 DEF Instances, Overriding
  <1> QED BY <1>4, <1>5, <1>6

(* What render makes of calendars that exist is the filter's, of those of    *)
(* their objects that the window meets.                                    *)
LEMMA RenderingIs ==
    ASSUME NEW ids, NEW cs, ids \subseteq DOMAIN cs, NEW row
    PROVE  Rendering(ids, cs, row) = Apply(InWindow(UNION {cs[c].objs : c \in ids}), row)
  <1>1. Rendering(ids, cs, row) = UNION {Apply(InWindow(cs[c].objs), row) : c \in ids}
    BY DEF Rendering
  <1>2. \A x : x \in Rendering(ids, cs, row) <=>
                \E c \in ids : \E o \in cs[c].objs : Overlaps(o, From, To) /\ x \in FilterSeries(o, row)
    BY <1>1 DEF Apply, InWindow
  <1>3. \A x : x \in Apply(InWindow(UNION {cs[c].objs : c \in ids}), row) <=>
                \E c \in ids : \E o \in cs[c].objs : Overlaps(o, From, To) /\ x \in FilterSeries(o, row)
    BY DEF Apply, InWindow
  <1> QED BY <1>2, <1>3

(* Of stored events, all of which have a DTSTAMP, the filter makes such as   *)
(* can be encoded, if the view keeps it.                                   *)
LEMMA KeptStampEmits ==
    ASSUME NEW objs, objs \subseteq Resources, \A o \in objs : Regular(o),
           NEW row, FieldsOK(row.fields), EffectiveRules(row)["DTSTAMP"] # "strip"
    PROVE  Emits(Apply(objs, row))
  <1> DEFINE rules == EffectiveRules(row)
  <1>1. rules["DTSTAMP"] \in {"keep", "replace"} /\ "DTSTAMP" \in ManagedFields
    <2>1. "DTSTAMP" \in ManagedFields
      BY DEF ManagedFields
    <2>2. PresetRules(row.preset)["DTSTAMP"] \in Rules
      BY <2>1 DEF PresetRules, Rules
    <2>3. DOMAIN PresetRules(row.preset) = ManagedFields
      BY DEF PresetRules
    <2>4. rules["DTSTAMP"] = IF "DTSTAMP" \in DOMAIN row.fields THEN row.fields["DTSTAMP"]
                             ELSE PresetRules(row.preset)["DTSTAMP"]
      BY <2>1, <2>3 DEF EffectiveRules, Override
    <2>5. rules["DTSTAMP"] \in Rules
      BY <2>2, <2>4 DEF FieldsOK
    <2> QED BY <2>1, <2>5 DEF Rules
  <1>2. ASSUME NEW o \in objs, NEW c \in Components(o.comps)
        PROVE  /\ "DTSTAMP" \in AsItIs(o, c, row).own
               /\ "DTSTAMP" \in AsSeries(o, c, row).own
               /\ "DTSTAMP" \in AsEvent(o, c, row).own
    <2>1. "DTSTAMP" \in c.props
      BY <1>2, SharingAssumption
    <2>2. RuleOf(rules, "DTSTAMP") \in {"keep", "replace"}
      BY <1>1 DEF RuleOf
    <2>3. "DTSTAMP" \in AsItIs(o, c, row).own
      <3>1. AsItIs(o, c, row).own = {n \in c.props : \/ RuleOf(rules, n) = "keep"
                                                     \/ RuleOf(rules, n) = "replace" /\ n # "SUMMARY"}
        BY DEF AsItIs, FilterEvent
      <3> HIDE DEF rules
      <3> QED BY <2>1, <2>2, <3>1
    <2>4. AsSeries(o, c, row).own = AsItIs(o, c, row).own /\ AsEvent(o, c, row).own = AsItIs(o, c, row).own
      BY DEF AsSeries, AsEvent, AddExdates, Promoted, AsItIs, FilterEvent
    <2> QED BY <2>3, <2>4
  <1>3. ASSUME NEW o \in objs, NEW f \in FilterSeries(o, row) PROVE "DTSTAMP" \in f.own
    <2>1. o \in Resource
      BY SharingAssumption
    <2>2. PICK m : m = Master(o.comps)
      OBVIOUS
    <2>3. m \in Components(o.comps) /\ Overriding(o) \subseteq Components(o.comps)
      BY <2>1, <2>2, MasterIs DEF Overriding
    <2>4. \/ \E c \in Overriding(o) : f = AsItIs(o, c, row) \/ f = AsEvent(o, c, row)
          \/ f = AsSeries(o, m, row)
      BY <1>3, <2>1, <2>2, SeriesIsShown
    <2> QED BY <1>2, <2>3, <2>4
  <1> QED BY <1>3 DEF Emits, Apply

InstancesOf(objs) == UNION {Instances(o.comps) : o \in objs}

(* What a recipient gets of a body.                                        *)
Answer(body) == IF Emits(body) THEN SeenIn(body) ELSE {}

(* A link shows what its view allows, and all of that which happens in the   *)
(* window, if the view keeps DTSTAMP.                                      *)
THEOREM LinksShowWhatViewsAllow == Spec => []LinkShowsWhatTheViewAllows
  <1>1. ASSUME SharingTypeOK, FreshInv, MembersAreOwn,
               NEW s \in Slots, Rendered(s), s \notin disturbed,
               NEW row, row = views[req[s].view],
               NEW objs, objs = UNION {calendars[c].objs : c \in MembersOf(req[s].view)},
               \A o \in objs : OneZone(o) /\ Regular(o)
        PROVE  /\ Answer(req[s].body) \subseteq MeantOf(InstancesOf(objs), row)
               /\ (/\ EffectiveRules(row)["DTSTAMP"] # "strip"
                   /\ \A o, p \in objs : Bounded(o) /\ (o.uid = p.uid => o = p)) =>
                    MeantOf(During(InstancesOf(objs), From, To), row) \subseteq Answer(req[s].body)
    <2>1. req[s].op = "get" /\ req[s].phase = "calendars" /\ req[s].todo = {} /\ req[s] # Idle
      BY <1>1 DEF Rendered, InPhase
    <2>2. PICK ids : ids = MembersOf(req[s].view)
      OBVIOUS
    <2>3. req[s].row = row /\ req[s].body = Rendering(ids, calendars, row)
      <3>1. ids = CalendarsIn(members, req[s].view)
        BY <2>2 DEF MembersOf, CalendarsIn
      <3>2. FreshIn(req[s], views, members, calendars)
        BY <1>1 DEF FreshInv
      <3>3. req[s].row = row /\ req[s].body = Rendering(ids \ req[s].todo, calendars, req[s].row)
        BY <1>1, <2>1, <3>1, <3>2 DEF FreshIn
      <3>4. ids \ req[s].todo = ids
        BY <2>1
      <3> QED BY <3>3, <3>4
    <2>4. FieldsOK(row.fields)
      <3>1. RowOK(req[s])
        <4>1. ReqOK(req[s])
          BY <1>1 DEF SharingTypeOK
        <4> QED BY <2>1, <4>1 DEF ReqOK
      <3> QED BY <2>3, <3>1 DEF RowOK, ViewOK
    <2>5. ids \subseteq DOMAIN calendars
      BY <1>1, <2>2 DEF MembersAreOwn, MembersOf
    <2>6. objs \subseteq Resources /\ objs \subseteq Resource
      <3>1. objs \subseteq Resources
        BY <1>1, <2>2, <2>5 DEF SharingTypeOK
      <3> QED BY <3>1, SharingAssumption
    <2>7. req[s].body = Apply(InWindow(objs), row)
      BY <1>1, <2>2, <2>3, <2>5, RenderingIs
    <2>8. PICK near : near = InWindow(objs)
      OBVIOUS
    <2>9. /\ near \subseteq objs /\ near \subseteq Resources /\ near \subseteq Resource
          /\ \A o \in near : Regular(o) /\ OneZone(o)
      BY <1>1, <2>6, <2>8 DEF InWindow
    <2>10. ASSUME NEW x \in Answer(req[s].body) PROVE x \in MeantOf(InstancesOf(objs), row)
      <3>1. x \in SeenIn(Apply(near, row))
        BY <2>7, <2>8, <2>10 DEF Answer
      <3>2. PICK o \in near : x \in MeantOf(Instances(o.comps), row)
        BY <2>4, <2>9, <3>1, SeenIsMeant
      <3>3. Instances(o.comps) \subseteq InstancesOf(objs)
        BY <2>9 DEF InstancesOf
      <3> QED BY <3>2, <3>3, MeantIs
    <2>11. ASSUME EffectiveRules(row)["DTSTAMP"] # "strip",
                  \A o, p \in objs : Bounded(o) /\ (o.uid = p.uid => o = p),
                  NEW x \in MeantOf(During(InstancesOf(objs), From, To), row)
           PROVE  x \in Answer(req[s].body)
      <3>1. PICK i \in During(InstancesOf(objs), From, To) : x = Meaning(i, row) /\ i.comp.kinds \subseteq row.include
        BY MeantIs
      <3>2. PICK o \in objs : i \in Instances(o.comps)
        BY DEF During, InstancesOf
      <3>3. i \in During(Instances(o.comps), From, To)
        BY <3>2 DEF During
      <3>4. Overlaps(o, From, To)
        BY <1>1, <2>6, <2>11, <3>3, WindowMeets
      <3>5. o \in near /\ \A p \in near : o.uid = p.uid => o = p
        BY <2>8, <2>9, <2>11, <3>4 DEF InWindow
      <3>6. Meaning(i, row) \in SeenIn(Apply(near, row))
        BY <2>4, <2>9, <3>1, <3>2, <3>5, MeantIsSeen
      <3>7. Emits(Apply(near, row))
        BY <2>4, <2>9, <2>11, KeptStampEmits
      <3> QED BY <2>7, <2>8, <3>1, <3>6, <3>7 DEF Answer
    <2> QED BY <2>10, <2>11
  <1>2. SharingTypeOK /\ FreshInv /\ MembersAreOwn => LinkShowsWhatTheViewAllows
    <2> SUFFICES ASSUME SharingTypeOK, FreshInv, MembersAreOwn,
                        NEW s \in Slots, Rendered(s), s \notin disturbed
                 PROVE  LET objs == UNION {calendars[c].objs : c \in MembersOf(req[s].view)}
                            row == views[req[s].view]
                            insts == UNION {Instances(o.comps) : o \in objs}
                            seen == IF Emits(req[s].body) THEN SeenIn(req[s].body) ELSE {}
                        IN
                        (\A o \in objs : OneZone(o) /\ Regular(o)) =>
                            /\ seen \subseteq MeantOf(insts, row)
                            /\ (/\ EffectiveRules(row)["DTSTAMP"] # "strip"
                                /\ \A o, p \in objs : Bounded(o) /\ (o.uid = p.uid => o = p)) =>
                                 MeantOf(During(insts, From, To), row) \subseteq seen
      BY DEF LinkShowsWhatTheViewAllows
    <2> DEFINE row == views[req[s].view]
               objs == UNION {calendars[c].objs : c \in MembersOf(req[s].view)}
               insts == UNION {Instances(o.comps) : o \in objs}
               seen == IF Emits(req[s].body) THEN SeenIn(req[s].body) ELSE {}
    <2>1. insts = InstancesOf(objs) /\ seen = Answer(req[s].body)
      BY DEF InstancesOf, Answer
    <2>2. \A r, os : r = row /\ os = objs /\ (\A o \in os : OneZone(o) /\ Regular(o)) =>
            /\ Answer(req[s].body) \subseteq MeantOf(InstancesOf(os), r)
            /\ (/\ EffectiveRules(r)["DTSTAMP"] # "strip"
                /\ \A o, p \in os : Bounded(o) /\ (o.uid = p.uid => o = p)) =>
                 MeantOf(During(InstancesOf(os), From, To), r) \subseteq Answer(req[s].body)
      BY <1>1
    <2> SUFFICES (\A o \in objs : OneZone(o) /\ Regular(o)) =>
                     /\ seen \subseteq MeantOf(insts, row)
                     /\ (/\ EffectiveRules(row)["DTSTAMP"] # "strip"
                         /\ \A o, p \in objs : Bounded(o) /\ (o.uid = p.uid => o = p)) =>
                          MeantOf(During(insts, From, To), row) \subseteq seen
      OBVIOUS
    <2> HIDE DEF insts, seen, objs, row
    <2> QED BY <2>1, <2>2
  <1> QED BY <1>2, FreshInit, FreshNext, TypeCorrect, MembersStayOwn, PTL DEF Spec
=============================================================================
