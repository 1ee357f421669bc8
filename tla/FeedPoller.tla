----------------------------- MODULE FeedPoller -----------------------------
(***************************************************************************)
(* Subscriptions to external ICS feeds: the poller (sources/poller.go), the *)
(* poll state of a calendar (storage/calendars.go) and the "poll now" and   *)
(* "add" handlers (web/sources_handlers.go), over the object store.         *)
(*                                                                         *)
(* The sweep and the handlers are goroutines that may poll one calendar at  *)
(* the same time.  Each works from the calendar row it has read, one        *)
(* database call at a step.  A calendar of this module is a subscription;   *)
(* nothing keeps its CalDAV clients from writing to it.                     *)
(***************************************************************************)
EXTENDS ObjectStore

CONSTANTS
    Pollers,        \* goroutines that poll
    Sweeper,        \* the one of them that runs the sweep
    HrefOf,         \* the resource name sanitizeHref makes of a UID
    Documents,      \* what feeds can say: sets of events
    Storable,       \* the events that can be encoded and parsed again
    BaseInterval,   \* minutes between polls of a calendar's feed
    MaxBackoff,     \* maxBackoff, in minutes
    MaxVersions,    \* bound: versions of a feed
    MaxIncidents    \* bound: polls begun by handlers, failed fetches, feeds sent
                    \* in full for nothing, writes of clients and crashes

ASSUME FeedAssumption ==
    /\ Calendars \subseteq Nat
    /\ Sweeper \in Pollers
    /\ HrefOf \in [Uids -> Hrefs]
    /\ Documents \subseteq SUBSET [uid: Uids, comp: {"VEVENT"}, body: Bodies]
    /\ \A doc \in Documents : \A a, b \in doc : a.uid = b.uid => a = b
    /\ Storable \subseteq Blob
    /\ "VEVENT" \in Comps
    /\ BaseInterval \in [Calendars -> Nat \ {0}]
    /\ MaxBackoff \in Nat \ {0}
    /\ MaxVersions \in Nat \ {0} /\ MaxIncidents \in Nat

VARIABLES
    feed,       \* feed[c]: the version the upstream server publishes
    state,      \* state[c]: the validator, fail count and wait of calendar c
    poll,       \* poll[p]: what p is at
    published,  \* history: published[c]: every document the feed has had
    overlapped, \* history: calendars two polls have acted on at once
    edited,     \* history: calendars clients have written to
    incidents   \* counted against MaxIncidents

vars == <<objects, syncSeq, changes, feed, state, poll, published, overlapped,
          edited, incidents>>

----------------------------------------------------------------------------
Href(blob) == HrefOf[blob.uid]

HrefsOf(doc) == {Href(b) : b \in doc}

(* No validator: an empty ETag and Last-Modified.                          *)
NoTag == 0

(* Mutant: no cap.                                                         *)
IntervalUncappedMutant(c, fails) == BaseInterval[c] * 2 ^ fails

(* The wait before the next poll, stretched by doubling after failures.    *)
Interval(c, fails) ==
    LET backoff == BaseInterval[c] * 2 ^ (IF fails > 20 THEN 20 ELSE fails) IN
    IF fails = 0 THEN BaseInterval[c]
    ELSE IF backoff > MaxBackoff THEN MaxBackoff ELSE backoff

(* Mutant: a feed that has failed is left alone.                           *)
DueUnlessFailedMutant(c) == state[c].wait = 0 /\ state[c].fails = 0

Due(c) == state[c].wait = 0

Idle == [pc |-> "idle"]

(* Mutant: the rest of a sweep is lost.                                    *)
NextOfDropsRestMutant(rest) ==
    IF rest = {} THEN Idle
    ELSE LET r == CHOOSE r \in rest : \A q \in rest : r.cal <= q.cal IN
         [pc |-> "fetch", cal |-> r.cal, row |-> r.row, rest |-> {}]

(* On to the least of the calendars a sweep has read and not polled yet.   *)
NextOf(rest) ==
    IF rest = {} THEN Idle
    ELSE LET r == CHOOSE r \in rest : \A q \in rest : r.cal <= q.cal IN
         [pc |-> "fetch", cal |-> r.cal, row |-> r.row, rest |-> rest \ {r}]

(* A poll whose response has come and that acts on it.                     *)
Working(p, c) == poll[p].pc \in {"sync", "prune", "record"} /\ poll[p].cal = c

(* sync has come to its end.                                               *)
Synced(p) == poll[p].pc = "prune" /\ poll[p].todo = {}

----------------------------------------------------------------------------
Incident == incidents < MaxIncidents /\ incidents' = incidents + 1

(* The surroundings.                                                       *)

Publish(c, doc) ==
    /\ feed[c].version < MaxVersions
    /\ feed' = [feed EXCEPT ![c] = [version |-> @.version + 1, doc |-> doc]]
    /\ published' = [published EXCEPT ![c] = @ \cup {doc}]
    /\ UNCHANGED <<storeVars, state, poll, overlapped, edited, incidents>>

(* A minute passes, when anything waits for it.                            *)
Tick ==
    /\ \E c \in Calendars : ~Due(c)
    /\ state' = [c \in Calendars |-> [state[c] EXCEPT !.wait = IF @ > 0 THEN @ - 1 ELSE 0]]
    /\ UNCHANGED <<storeVars, feed, poll, published, overlapped, edited, incidents>>

(* A CalDAV client's PUT or DELETE: requireWrite lets the owner through.    *)
Edit(c, h) ==
    /\ Incident
    /\ edited' = edited \cup {c}
    /\ \/ \E blob \in Storable : PutObject(c, h, blob)
       \/ DeleteObject(c, h)
    /\ UNCHANGED <<feed, state, poll, published, overlapped>>

----------------------------------------------------------------------------
(* Polling.                                                                *)

(* sweep: the rows are read once, and those due then are polled in turn.   *)
BeginSweep ==
    /\ poll[Sweeper] = Idle
    /\ \E c \in Calendars : Due(c)
    /\ poll' = [poll EXCEPT ![Sweeper] =
                  NextOf({[cal |-> c, row |-> state[c]] : c \in {d \in Calendars : Due(d)}})]
    /\ UNCHANGED <<storeVars, feed, state, published, overlapped, edited, incidents>>

(* A handler's poll: of the row it reads, or has just inserted.            *)
BeginPoll(p, c) ==
    /\ p # Sweeper /\ poll[p] = Idle
    /\ Incident
    /\ poll' = [poll EXCEPT ![p] = NextOf({[cal |-> c, row |-> state[c]]})]
    /\ UNCHANGED <<storeVars, feed, state, published, overlapped, edited>>

(* What is left to do is UpdateICSPollState with this validator and count. *)
ToRecord(r, tag, fails) ==
    [pc |-> "record", cal |-> r.cal, rest |-> r.rest, tag |-> tag, fails |-> fails]

(* What is left to do is sync, and then to record the new validator.       *)
(* seqAt is a history variable: the calendar's sync_seq after the last     *)
(* step of this poll, while nobody else has written to the calendar.       *)
ToSync(r, doc, tag) ==
    [pc |-> "sync", cal |-> r.cal, rest |-> r.rest, tag |-> tag, fails |-> 0,
     doc |-> doc, todo |-> doc, skipped |-> {}, seqAt |-> syncSeq[r.cal]]

(* Mutant: a feed without events is acted on like any other.               *)
FetchSyncsEmptyMutant(p) ==
    LET r == poll[p]
        f == feed[r.cal]
    IN
    /\ r.pc = "fetch"
    /\ poll' = [poll EXCEPT ![p] = ToSync(r, f.doc, f.version)]
    /\ overlapped' = overlapped \cup {c \in {r.cal} : \E q \in Pollers \ {p} : Working(q, c)}
    /\ UNCHANGED <<storeVars, feed, state, published, edited, incidents>>

(* Mutant: the validator of a response that does not parse is kept.        *)
FetchKeepsTagMutant(p) ==
    LET r == poll[p]
        f == feed[r.cal]
    IN
    /\ r.pc = "fetch"
    /\ \/ poll' = [poll EXCEPT ![p] = ToSync(r, f.doc, f.version)] /\ UNCHANGED incidents
       \/ poll' = [poll EXCEPT ![p] = ToRecord(r, f.version, r.row.fails + 1)] /\ Incident
    /\ overlapped' = overlapped \cup {c \in {r.cal} : \E q \in Pollers \ {p} : Working(q, c)}
    /\ UNCHANGED <<storeVars, feed, state, published, edited>>

(* The answer of the server to the conditional request: not modified, the  *)
(* feed with or without a validator, an error status, a body that breaks   *)
(* off or does not parse, or none.  A feed without events is not acted on. *)
Fetch(p) ==
    LET r == poll[p]
        f == feed[r.cal]
        current == r.row.tag = f.version
        gets(q) == poll' = [poll EXCEPT ![p] = q]
    IN
    /\ r.pc = "fetch"
    /\ \/ current /\ gets(ToRecord(r, r.row.tag, 0)) /\ UNCHANGED incidents
       \/ \E tag \in {f.version, NoTag} :
            /\ gets(IF f.doc = {} THEN ToRecord(r, tag, 0) ELSE ToSync(r, f.doc, tag))
            /\ IF current \/ tag = NoTag THEN Incident ELSE UNCHANGED incidents
       \/ gets(ToRecord(r, r.row.tag, r.row.fails + 1)) /\ Incident
    /\ overlapped' = overlapped \cup {c \in {r.cal} : \E q \in Pollers \ {p} : Working(q, c)}
    /\ UNCHANGED <<storeVars, feed, state, published, edited>>

(* The place of a poll after a write of its own.                           *)
Advanced(r) == IF r.seqAt = syncSeq[r.cal] THEN syncSeq'[r.cal] ELSE r.seqAt

(* One event of the feed, in no particular order: stored, or skipped if it *)
(* cannot be encoded or the store refuses it.                              *)
Upsert(p, blob) ==
    LET r == poll[p] IN
    /\ r.pc = "sync" /\ blob \in r.todo
    /\ \/ /\ blob \in Storable
          /\ PutObject(r.cal, Href(blob), blob)
          /\ poll' = [poll EXCEPT ![p] = [r EXCEPT !.todo = r.todo \ {blob},
                                                   !.seqAt = Advanced(r)]]
       \/ /\ blob \notin Storable \/ ~PutAccepted(r.cal, Href(blob), blob)
          /\ poll' = [poll EXCEPT ![p] = [r EXCEPT !.todo = r.todo \ {blob},
                                                   !.skipped = r.skipped \cup {blob}]]
          /\ UNCHANGED storeVars
    /\ UNCHANGED <<feed, state, published, overlapped, edited, incidents>>

(* Mutant: what no poll has stored is spared.                              *)
ListSparesEditsMutant(p) ==
    LET r == poll[p]
        mine == {x \in objects : x.cal = r.cal /\ x.href = Href(x.blob)}
    IN
    /\ r.pc = "sync" /\ r.todo = {}
    /\ poll' = [poll EXCEPT ![p] = [r EXCEPT !.pc = "prune",
                                             !.todo = {o.href : o \in mine} \ HrefsOf(r.doc)]]
    /\ UNCHANGED <<storeVars, feed, state, published, overlapped, edited, incidents>>

(* ListObjects: what the feed does not name is to go.                      *)
List(p) ==
    LET r == poll[p]
        gone == {o.href : o \in {x \in objects : x.cal = r.cal}} \ HrefsOf(r.doc)
    IN
    /\ r.pc = "sync" /\ r.todo = {}
    /\ poll' = [poll EXCEPT ![p] = [r EXCEPT !.pc = "prune", !.todo = gone]]
    /\ UNCHANGED <<storeVars, feed, state, published, overlapped, edited, incidents>>

(* One DeleteObject, its error ignored.                                    *)
Prune(p, h) ==
    LET r == poll[p] IN
    /\ r.pc = "prune" /\ h \in r.todo
    /\ \/ /\ DeleteObject(r.cal, h)
          /\ poll' = [poll EXCEPT ![p] = [r EXCEPT !.todo = r.todo \ {h},
                                                   !.seqAt = Advanced(r)]]
       \/ /\ ObjectsAt(r.cal, h) = {}
          /\ poll' = [poll EXCEPT ![p] = [r EXCEPT !.todo = r.todo \ {h}]]
          /\ UNCHANGED storeVars
    /\ UNCHANGED <<feed, state, published, overlapped, edited, incidents>>

(* UpdateICSPollState, sync done or not called for, and the next calendar  *)
(* of a sweep.                                                             *)
Record(p) ==
    LET r == poll[p] IN
    /\ r.pc = "record" \/ Synced(p)
    /\ state' = [state EXCEPT ![r.cal] =
                   [tag |-> r.tag, fails |-> r.fails, wait |-> Interval(r.cal, r.fails)]]
    /\ poll' = [poll EXCEPT ![p] = NextOf(r.rest)]
    /\ UNCHANGED <<storeVars, feed, published, overlapped, edited, incidents>>

(* The browser goes away and the request's context is cancelled: no further *)
(* database call of the handler succeeds, that of UpdateICSPollState        *)
(* included.                                                                *)
Disconnect(p) ==
    /\ p # Sweeper /\ poll[p] # Idle
    /\ poll' = [poll EXCEPT ![p] = Idle]
    /\ UNCHANGED <<storeVars, feed, state, published, overlapped, edited, incidents>>

(* The server dies and is started again.                                   *)
Crash ==
    /\ Incident
    /\ poll' = [p \in Pollers |-> Idle]
    /\ UNCHANGED <<storeVars, feed, state, published, overlapped, edited>>

----------------------------------------------------------------------------
Init ==
    /\ StoreInit
    /\ feed \in [Calendars -> [version: {1}, doc: Documents]]
    /\ state = [c \in Calendars |-> [tag |-> NoTag, fails |-> 0, wait |-> 0]]
    /\ poll = [p \in Pollers |-> Idle]
    /\ published = [c \in Calendars |-> {feed[c].doc}]
    /\ overlapped = {} /\ edited = {}
    /\ incidents = 0

Proceed(p) ==
    \/ Fetch(p)
    \/ \E blob \in Blob : Upsert(p, blob)
    \/ List(p)
    \/ \E h \in Hrefs : Prune(p, h)
    \/ Record(p)

Next ==
    \/ \E c \in Calendars :
         \/ \E doc \in Documents : Publish(c, doc)
         \/ \E h \in Hrefs : Edit(c, h)
         \/ \E p \in Pollers : BeginPoll(p, c)
    \/ \E p \in Pollers : Proceed(p) \/ Disconnect(p)
    \/ Tick \/ BeginSweep \/ Crash

(* Time passes; the ticker fires whatever the last sweep met; and a poll    *)
(* goes on, as requests time out and database calls wait for the one        *)
(* connection at most as long as another call holds it.                     *)
Spec ==
    /\ Init /\ [][Next]_vars
    /\ WF_vars(Tick) /\ WF_vars(BeginSweep)
    /\ \A p \in Pollers : WF_vars(Proceed(p))

----------------------------------------------------------------------------
Row == [tag: Nat, fails: Nat, wait: Nat]
Rows == [cal: Calendars, row: Row]
Doc == SUBSET Blob

Poll ==
    {Idle}
    \cup [pc: {"fetch"}, cal: Calendars, row: Row, rest: SUBSET Rows]
    \cup [pc: {"record"}, cal: Calendars, rest: SUBSET Rows, tag: Nat, fails: Nat]
    \cup [pc: {"sync"}, cal: Calendars, rest: SUBSET Rows, tag: Nat, fails: {0},
          doc: Documents, todo: Doc, skipped: Doc, seqAt: Nat]
    \cup [pc: {"prune"}, cal: Calendars, rest: SUBSET Rows, tag: Nat, fails: {0},
          doc: Documents, todo: SUBSET Hrefs, skipped: Doc, seqAt: Nat]

(* Shapes; and no wait exceeds the base interval and the cap.              *)
FeedTypeOK ==
    /\ StoreTypeOK
    /\ feed \in [Calendars -> [version: 1 .. MaxVersions, doc: Documents]]
    /\ state \in [Calendars -> Row]
    /\ \A c \in Calendars : state[c].wait <= BaseInterval[c] \/ state[c].wait <= MaxBackoff
    /\ poll \in [Pollers -> Poll]
    /\ published \in [Calendars -> SUBSET Documents]
    /\ overlapped \subseteq Calendars /\ edited \subseteq Calendars
    /\ incidents \in 0 .. MaxIncidents

(* A poll takes an event away only because some version of the feed that   *)
(* had events did not have it.  No failed fetch, no response that did not  *)
(* parse, no empty feed and no crash in between makes a poll delete what   *)
(* the feed has always had: "never deletes existing events on a transport  *)
(* error".                                                                 *)
StandingEventsStay ==
    [][poll' # poll =>
         \A o \in objects :
             \/ \E p \in objects' : p.cal = o.cal /\ p.href = o.href
             \/ \E doc \in published[o.cal] \ {{}} : o.href \notin HrefsOf(doc)]_vars

(* Calendar c shows doc: nothing else, and at the name of each of its      *)
(* events that could be stored an event of doc.  (Two UIDs may have one    *)
(* name.)                                                                  *)
Shows(c, doc, skipped) ==
    /\ \A o \in objects : o.cal = c => o.href \in HrefsOf(doc)
    /\ \A b \in doc \ skipped : \E o \in ObjectsAt(c, Href(b)) : o.blob \in doc

(* A poll that has synced a feed and finds the calendar as its own last    *)
(* write left it has made it show the feed, whatever was in the calendar   *)
(* before, but for the events it logged a warning for.                     *)
UndisturbedPollShowsFeed ==
    \A p \in Pollers :
        LET r == poll[p] IN
        Synced(p) /\ r.seqAt = syncSeq[r.cal] =>
            Shows(r.cal, r.doc, r.skipped)

(* The upstream server would answer the stored validator with 304, and no  *)
(* poll is about to act on an earlier answer.                              *)
WouldSkip(c) ==
    /\ state[c].tag = feed[c].version /\ feed[c].doc # {}
    /\ \A p \in Pollers : ~Working(p, c)

(* The stored validator is that of what the calendar shows: a feed is not  *)
(* refetched only if the calendar has it, whichever polls were cut short   *)
(* and whatever row a poll was begun with, provided no two acted on the    *)
(* calendar at once and no client wrote to it.                             *)
UnchangedIsShown ==
    \A c \in Calendars \ (overlapped \cup edited) :
        WouldSkip(c) => Shows(c, feed[c].doc, feed[c].doc \ Storable)

(* The same for polls that may meet: the validators are there "to avoid    *)
(* refetching unchanged feeds", and those only.                            *)
SkipsOnlyUnchanged ==
    \A c \in Calendars \ edited : WouldSkip(c) => Shows(c, feed[c].doc, feed[c].doc \ Storable)

(* The calendar comes to show the last version of its feed and goes on     *)
(* showing it, through failures, their backoff and restarts, if that       *)
(* version has events and nothing disturbs the calendar.                   *)
FeedArrives ==
    \A c \in Calendars :
        <>[](\/ c \in overlapped \cup edited \/ feed[c].doc = {}
             \/ Shows(c, feed[c].doc, feed[c].doc \ Storable))
=============================================================================
