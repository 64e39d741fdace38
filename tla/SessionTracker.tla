----------------------------- MODULE SessionTracker -----------------------------
(***************************************************************************)
(* The session tracker (src/src/hooks/session-tracker.ts and                *)
(* session-tracker-helpers.ts) as the hooks use it (src/src/runtime/        *)
(* provenance.ts and the register-*-hooks files): which record a hook's     *)
(* identifiers lead to, when records merge, and which route a tool event    *)
(* is given.  The host runs sessions that share the runtime alias           *)
(* agent:<id>:main of one agent; the tracker only sees the identifiers of   *)
(* its hooks, the model also knows the session they are from.               *)
(***************************************************************************)
EXTENDS Naturals, FiniteSets, FiniteSetsExt, Functions

CONSTANTS Sessions,     \* sessions of one agent
          Nobody,       \* no session: whose the shared alias is
          Runs, NoRun,  \* run ids
          RunOf,        \* the session of a run
          Routes, NoRoute,
          RouteOf,      \* the session of a route key
          KeyKind,      \* what a session's own key tells when it is parsed: a "thread", its
                        \* "channel" or nothing of its route ("plain")
          KeyRoute,     \* the route that a thread-scoped key tells by itself
          Hooks,        \* what hooks carry: see AllHooks
          RouteTtl,     \* routeTtlMs
          MaxRecords,   \* bound: records and index entries at a time
          MaxHooks,     \* bound: hooks that start
          MaxLate,      \* bound: handlers that await something before they call the tracker
          MaxClock      \* bound: time

VARIABLES
  tracker,    \* records by record id and the three indexes
  late,       \* handlers that await something before they call the tracker
  hooks,      \* hooks started so far
  clock,
  answer,     \* what the last tool hook was told
  aliasAsId,  \* history: the shared alias was taken for a session id
  adopted,    \* history: unknown strong identifiers joined a record by the alias alone
  ended,      \* history: sessions whose session_end was handled
  scattered,  \* history: of those, the ones known under several records, or ended by a hook
              \* that was not read for their id and key
  revived     \* history: of those, the ones a late handler observed again

vars == <<tracker, late, hooks, clock, answer, aliasAsId, adopted, ended, scattered, revived>>

-----------------------------------------------------------------------------
(* Identifiers.  A session id is opaque, a strong key is the session's own,   *)
(* the alias is the key all sessions of the agent share.  The route that a    *)
(* thread-scoped key tells is part of the hook's route (pickParsedRoute).     *)

Id(s) == <<"id", s>>
Key(s) == <<"key", s>>
Alias == <<"alias", Nobody>>
Names == {Alias} \cup {Id(s) : s \in Sessions} \cup {Key(s) : s \in Sessions}

\* Mutant: agent:<id>:main counts as a key like any other.
WeakNever(n) == FALSE

\* isSharedRuntimeSessionKey
Weak(n) == n = Alias
\* looksLikeSessionKey
LooksLikeKey(n) == n[1] # "id"

\* parseSessionKey: the keys that are thread-scoped, and those that tell anything of a route.
ThreadScoped(n) == n[1] = "key" /\ KeyKind[n[2]] = "thread"
TellsRoute(n) == n[1] = "key" /\ KeyKind[n[2]] # "plain"

\* What a hook can carry: its session's id and keys, a run and a route.
AllHooks ==
  UNION {{h \in [by: {s}, ids: SUBSET {Id(s)}, keys: SUBSET {Key(s), Alias},
                 run: {NoRun} \cup {r \in Runs : RunOf[r] = s},
                 route: {NoRoute} \cup {r \in Routes : RouteOf[r] = s}] :
            h.ids \cup h.keys # {} /\ (KeyKind[s] = "thread" /\ Key(s) \in h.keys => h.route # NoRoute)} :
           s \in Sessions}

\* What the two subagent hooks say of a child: its key.
Child(s) == [by |-> s, ids |-> {}, keys |-> {Key(s)}, run |-> NoRun, route |-> KeyRoute[s]]

ASSUME SessionConstants ==
  /\ Nobody \notin Sessions /\ NoRun \notin Runs /\ NoRoute \notin Routes
  /\ RunOf \in [Runs -> Sessions] /\ RouteOf \in [Routes -> Sessions]
  /\ KeyKind \in [Sessions -> {"thread", "channel", "plain"}]
  /\ KeyRoute \in [Sessions -> Routes \cup {NoRoute}]
  /\ \A s \in Sessions : IF KeyKind[s] = "thread" THEN KeyRoute[s] \in Routes /\ RouteOf[KeyRoute[s]] = s
                         ELSE KeyRoute[s] = NoRoute
  /\ Hooks \subseteq AllHooks
  /\ RouteTtl \in Nat /\ MaxRecords \in Nat /\ MaxHooks \in Nat /\ MaxLate \in Nat /\ MaxClock \in Nat

\* resolveSessionRefs: a hook without a session id gets a key for one, which of them
\* depends on where the host put it; one without a key gets its id for a key.
ResolveSessionRefs(h) ==
  {[ids |-> i, keys |-> IF h.keys = {} THEN h.ids ELSE h.keys, run |-> h.run] :
     i \in IF h.ids = {} THEN {{k} : k \in h.keys} ELSE {h.ids}}

-----------------------------------------------------------------------------
(* The tracker: a record [rec, byId, byKey, byRun]                            *)

Recs == 1..MaxRecords

EmptyTracker ==
  [rec   |-> [r \in {} |-> {}],
   byId  |-> [n \in Names |-> {}],
   byKey |-> [n \in Names |-> {}],
   byRun |-> [r \in Runs |-> {}]]

\* A key given as a session id is looked up as a key, too.
AllKeys(q) == q.keys \cup {n \in q.ids : LooksLikeKey(n)}

\* findMatchingRecords, strongOnly true: ids, strong keys and the run.
StrongMatches(t, q) ==
  (UNION ({t.byId[n] : n \in q.ids} \cup {t.byKey[k] : k \in {n \in AllKeys(q) : ~Weak(n)}}
            \cup {t.byRun[r] : r \in {q.run} \cap Runs})) \cap DOMAIN t.rec

\* strongOnly false: the shared alias.
WeakMatches(t, q) == (UNION {t.byKey[n] : n \in {k \in AllKeys(q) : Weak(k)}}) \cap DOMAIN t.rec

Ambiguous(t, q) == StrongMatches(t, q) = {} /\ Cardinality(WeakMatches(t, q)) > 1

\* resolveUniqueRecord: the records that may become the primary one.
Candidates(t, q) == IF StrongMatches(t, q) # {} THEN StrongMatches(t, q) ELSE WeakMatches(t, q)

\* addIndexEntry and removeIndexEntry for a set of names.
Replaced(index, names, old, new) ==
  [n \in DOMAIN index |-> IF n \in names THEN (index[n] \ old) \cup new ELSE index[n]]

\* Several maps of route observations in one: last seen, by which runs.
MergedRoutes(maps) ==
  [o \in UNION {DOMAIN m : m \in maps} |->
     LET found == {m[o] : m \in {x \in maps : o \in DOMAIN x}}
     IN [seen |-> Max({f.seen : f \in found}), runs |-> UNION {f.runs : f \in found}]]

AllOf(t, R, field) == UNION {t.rec[r][field] : r \in R}

\* removeRecord of every record of R.
Removed(t, R) ==
  [rec   |-> Restrict(t.rec, DOMAIN t.rec \ R),
   byId  |-> Replaced(t.byId, AllOf(t, R, "ids"), R, {}),
   byKey |-> Replaced(t.byKey, AllOf(t, R, "keys"), R, {}),
   byRun |-> Replaced(t.byRun, AllOf(t, R, "runs"), R, {})]

\* The record that several become.
Combined(t, p, R) ==
  [ids |-> AllOf(t, R, "ids"), keys |-> AllOf(t, R, "keys"), runs |-> AllOf(t, R, "runs"),
   routes |-> MergedRoutes({t.rec[r].routes : r \in R})]

\* mergeRecords: the others of R go into p, and their index entries now name p.
Merged(t, p, R) ==
  LET rest == R \ {p}
      moved(index, field) == Replaced(index, AllOf(t, rest, field), rest, {p})
  IN [rec   |-> [r \in DOMAIN t.rec \ rest |-> IF r = p THEN Combined(t, p, R) ELSE t.rec[r]],
      byId  |-> moved(t.byId, "ids"),
      byKey |-> moved(t.byKey, "keys"),
      byRun |-> moved(t.byRun, "runs")]

\* Record ids are never used twice: no record and no index entry has a fresh one.
Fresh(t) ==
  Recs \ (DOMAIN t.rec \cup (UNION {t.byId[n] \cup t.byKey[n] : n \in Names})
                       \cup (UNION {t.byRun[r] : r \in Runs}))

\* createRecord
Created(t, p) ==
  [t EXCEPT !.rec = [r \in DOMAIN @ \cup {p} |->
     IF r = p THEN [ids |-> {}, keys |-> {}, runs |-> {}, routes |-> [o \in {} |-> {}]] ELSE @[r]]]

\* The rest of observeSession: record p gets the identifiers, the run and the route.
Noted(t, p, q, route) ==
  LET runs == {q.run} \cap Runs
      seen == [o \in {route} \cap Routes |-> [seen |-> clock, runs |-> runs]]
  IN [rec   |-> [t.rec EXCEPT ![p] =
                   [ids |-> @.ids \cup q.ids, keys |-> @.keys \cup AllKeys(q),
                    runs |-> @.runs \cup runs, routes |-> MergedRoutes({@.routes, seen})]],
      byId  |-> Replaced(t.byId, q.ids, {}, {p}),
      byKey |-> Replaced(t.byKey, AllKeys(q), {}, {p}),
      byRun |-> Replaced(t.byRun, runs, {}, {p})]

\* hasStrongIdentifiers, or the run is known.
Observable(t, q) ==
  q.ids # {} \/ (\E k \in q.keys : ~Weak(k)) \/ \E r \in {q.run} \cap Runs : t.byRun[r] # {}

\* Mutant: records that share an identifier stay apart.
ObserveSessionUnmerged(t, q, route) ==
  IF ~Observable(t, q) \/ Ambiguous(t, q) THEN {t}
  ELSE IF Candidates(t, q) = {}
       THEN IF Fresh(t) = {} THEN {} ELSE LET p == Min(Fresh(t)) IN {Noted(Created(t, p), p, q, route)}
       ELSE {Noted(t, p, q, route) : p \in Candidates(t, q)}

\* observeSession: what the tracker may be afterwards (which record comes first in a
\* merge depends on the order of insertion); ambiguous hooks leave no trace.
ObserveSession(t, q, route) ==
  IF ~Observable(t, q) \/ Ambiguous(t, q) THEN {t}
  ELSE IF Candidates(t, q) = {}
       THEN IF Fresh(t) = {} THEN {} ELSE LET p == Min(Fresh(t)) IN {Noted(Created(t, p), p, q, route)}
       ELSE {Noted(Merged(t, p, Candidates(t, q)), p, q, route) : p \in Candidates(t, q)}

-----------------------------------------------------------------------------
(* getSessionProvenance *)

\* Mutant: routes do not expire.
PrunedNothing(record) == record

\* pruneExpiredRoutes
Pruned(record) ==
  [record EXCEPT !.routes = Restrict(@, {o \in DOMAIN @ : clock - @[o].seen <= RouteTtl})]

\* selectRouteCandidates: those the run was seen on, if any.
RouteCandidates(record, run) ==
  LET byRun == {o \in DOMAIN record.routes : run \in record.routes[o].runs}
  IN IF byRun # {} THEN byRun ELSE DOMAIN record.routes

\* The tracker after the call and the answer, for one primary record.
Provenance(t, p, q) ==
  LET u == [Merged(t, p, Candidates(t, q)) EXCEPT !.rec[p] = Pruned(@)]
      found == RouteCandidates(u.rec[p], q.run)
  IN [tracker |-> u,
      resolution |-> IF Cardinality(found) = 1 THEN "resolved"
                     ELSE IF found = {} THEN "unavailable" ELSE "ambiguous",
      route |-> IF Cardinality(found) = 1 THEN CHOOSE o \in found : TRUE ELSE NoRoute,
      age |-> IF Cardinality(found) = 1
              THEN clock - u.rec[p].routes[CHOOSE o \in found : TRUE].seen ELSE 0]

NoProvenance(t, resolution) == [tracker |-> t, resolution |-> resolution, route |-> NoRoute, age |-> 0]

\* Ambiguous: the expired routes of every match are pruned, no route is told.
GetSessionProvenance(t, q) ==
  IF Ambiguous(t, q)
  THEN {NoProvenance([t EXCEPT !.rec = [r \in DOMAIN @ |->
          IF r \in WeakMatches(t, q) THEN Pruned(@[r]) ELSE @[r]]], "ambiguous")}
  ELSE IF Candidates(t, q) = {} THEN {NoProvenance(t, "unavailable")}
  ELSE {Provenance(t, p, q) : p \in Candidates(t, q)}

\* The session key it answers with, whatever its age: the one asked for when that tells of a
\* route, else one of the record, a thread-scoped one before the others
\* (pickPreferredParsedSession).  A strong key that was never a key is a session id.
ParsedSession(t, q) ==
  LET known == IF Ambiguous(t, q) THEN {} ELSE {n \in AllOf(t, Candidates(t, q), "keys") : ~Weak(n)}
      threads == {n \in known : ThreadScoped(n)}
  IN UNION {IF TellsRoute(n) THEN {n} ELSE IF threads # {} THEN threads
            ELSE IF known # {} THEN known ELSE {n} : n \in q.keys}

-----------------------------------------------------------------------------
(* The hooks *)

Init ==
  /\ tracker = EmptyTracker
  /\ late = {} /\ hooks = 0 /\ clock = 0
  /\ answer = [by |-> Nobody, resolution |-> "unavailable", route |-> NoRoute, age |-> 0, parsed |-> Alias]
  /\ aliasAsId = FALSE /\ adopted = FALSE
  /\ ended = {} /\ scattered = {} /\ revived = {}

\* The two ways in which the alias alone leads a hook to a record.
Doors(q) ==
  /\ aliasAsId' = (aliasAsId \/ Alias \in q.ids)
  /\ adopted' = (adopted \/ (Cardinality(WeakMatches(tracker, q)) = 1 /\ StrongMatches(tracker, q) = {}))

Starts == hooks < MaxHooks /\ hooks' = hooks + 1

\* observeSessionProvenance, called before the handler's first await.
Observe(h) ==
  /\ Starts
  /\ \E q \in ResolveSessionRefs(h) :
       tracker' \in ObserveSession(tracker, q, h.route) /\ Doors(q)
  /\ UNCHANGED <<late, clock, answer, ended, scattered, revived>>

\* The other handlers await first, and any of these steps comes between.
Awaits(handler, h) ==
  /\ Starts /\ Cardinality(late) < MaxLate
  /\ late' = late \cup {[handler |-> handler, hook |-> h]}
  /\ UNCHANGED <<tracker, clock, answer, aliasAsId, adopted, ended, scattered, revived>>

\* A late handler goes on for its session, which may have ended.
Resumes(w, handler) ==
  /\ w.handler = handler /\ late' = late \ {w}
  /\ UNCHANGED <<hooks, clock, ended, scattered>>
Revives(s) == revived' = IF s \in ended THEN revived \cup {s} ELSE revived

\* handleMessageReceived and its siblings await their broadcast ...
MessageHook(h) == Awaits("message", h)

\* ... and observe when it is done.
MessageObserved(w) ==
  /\ Resumes(w, "message") /\ Revives(w.hook.by)
  /\ \E q \in ResolveSessionRefs(w.hook) :
       tracker' \in ObserveSession(tracker, q, w.hook.route) /\ Doors(q)
  /\ UNCHANGED answer

\* observeSessionProvenance and buildToolEventProvenance in one go (after_tool_call asks with
\* the id and key its call began with, here those of the hook).  mergeParsedRoute: what the
\* resolved route lacks of provider, surface, account and thread is told from the parsed key.
ObserveAndAsk(h) ==
  \E q \in ResolveSessionRefs(h) :
  \E t \in ObserveSession(tracker, q, h.route) :
  \E a \in GetSessionProvenance(t, q) : \E n \in ParsedSession(t, q) :
    /\ Doors(q)
    /\ tracker' = a.tracker
    /\ answer' = [by |-> h.by, resolution |-> a.resolution, route |-> a.route, age |-> a.age, parsed |-> n]

\* after_tool_call and tool_result_persist do so at once ...
ToolHook(h) == Starts /\ ObserveAndAsk(h) /\ UNCHANGED <<late, clock, ended, scattered, revived>>

\* ... before_tool_call when the tool guard has decided.
BeforeToolCall(h) == Awaits("tool", h)
GuardDecided(w) == Resumes(w, "tool") /\ Revives(w.hook.by) /\ ObserveAndAsk(w.hook)

\* subagent_spawned: after two broadcasts, touchSession with the key of the child.
SubagentSpawned(s) == Awaits("spawned", Child(s))
ChildTouched(w) ==
  LET q == [ids |-> {}, keys |-> w.hook.keys, run |-> NoRun]
  IN /\ Resumes(w, "spawned") /\ Revives(w.hook.by)
     /\ tracker' \in ObserveSession(tracker, q, w.hook.route) /\ Doors(q)
     /\ UNCHANGED answer

\* endSession of one identifier, taken for an id and for a key: what resolves goes.
Lookup(n) == [ids |-> {n}, keys |-> {n}, run |-> NoRun]
EndSession(t, n) ==
  IF Ambiguous(t, Lookup(n)) THEN t ELSE Removed(t, Candidates(t, Lookup(n)))

\* The records that hold an identifier of session s.
RecordsOf(t, s) == {r \in DOMAIN t.rec : {Id(s), Key(s)} \cap (t.rec[r].ids \cup t.rec[r].keys) # {}}

\* Mutant: the session id is tried, the key is not.
EndSessionRefsIdOnly(t, i, k) == EndSession(t, i)

\* The key is tried only when the id found nothing.
EndSessionRefs(t, i, k) == IF EndSession(t, i) # t THEN EndSession(t, i) ELSE EndSession(t, k)

\* session_end
SessionEnd(h) ==
  /\ Starts
  /\ \E q \in ResolveSessionRefs(h) : \E i \in q.ids, k \in q.keys :
       /\ tracker' = EndSessionRefs(tracker, i, k)
       /\ scattered' = IF Cardinality(RecordsOf(tracker, h.by)) > 1 \/ i # Id(h.by) \/ k # Key(h.by)
                       THEN scattered \cup {h.by} ELSE scattered
  /\ ended' = ended \cup {h.by}
  /\ UNCHANGED <<late, clock, answer, aliasAsId, adopted, revived>>

\* subagent_ended: after its broadcast, endSession with the key of the child.
SubagentEnded(s) == Awaits("ended", Child(s))
ChildEnded(w) ==
  /\ Resumes(w, "ended")
  /\ tracker' = EndSession(tracker, Key(w.hook.by))
  /\ UNCHANGED <<answer, aliasAsId, adopted, revived>>

\* deactivate: clear().
Clear ==
  /\ Starts
  /\ tracker' = EmptyTracker
  /\ UNCHANGED <<late, clock, answer, aliasAsId, adopted, ended, scattered, revived>>

Tick ==
  /\ clock < MaxClock
  /\ clock' = clock + 1
  /\ UNCHANGED <<tracker, late, hooks, answer, aliasAsId, adopted, ended, scattered, revived>>

\* A session that has ended starts no more hooks; subagent_ended is one of its parent.
Next ==
  \/ \E s \in Sessions \ ended :
       \/ \E h \in Hooks :
            h.by = s /\ (Observe(h) \/ MessageHook(h) \/ ToolHook(h) \/ BeforeToolCall(h) \/ SessionEnd(h))
       \/ SubagentSpawned(s)
  \/ \E s \in Sessions : SubagentEnded(s)
  \/ \E w \in late : MessageObserved(w) \/ GuardDecided(w) \/ ChildTouched(w) \/ ChildEnded(w)
  \/ Clear \/ Tick

Spec == Init /\ [][Next]_vars

-----------------------------------------------------------------------------

Waiting ==
  [handler : {"message", "tool"}, hook : Hooks]
    \cup [handler : {"spawned", "ended"}, hook : {Child(s) : s \in Sessions}]

\* The identifiers and routes of every record belong together, with the values that
\* the hooks have given so far.
RecordsSound ==
  /\ DOMAIN tracker.rec \subseteq Recs /\ late \subseteq Waiting
  /\ \A r \in DOMAIN tracker.rec :
       LET record == tracker.rec[r] IN
       /\ record.ids \subseteq Names /\ record.keys \subseteq Names /\ record.runs \subseteq Runs
       /\ record.ids \cup record.keys # {} /\ \A n \in record.ids : LooksLikeKey(n) => n \in record.keys
       /\ DOMAIN record.routes \subseteq Routes
       /\ \A o \in DOMAIN record.routes : record.routes[o] \in [seen: 0..clock, runs: SUBSET record.runs]

\* The indexes say what the records say, after any mix of merges, aliases and removals:
\* a lookup finds every record that holds the identifier and no other.
IndexAgrees ==
  \A r \in Recs :
    LET held(field) == IF r \in DOMAIN tracker.rec THEN tracker.rec[r][field] ELSE {} IN
    /\ \A n \in Names : (r \in tracker.byId[n] <=> n \in held("ids"))
                        /\ (r \in tracker.byKey[n] <=> n \in held("keys"))
    /\ \A n \in Runs : r \in tracker.byRun[n] <=> n \in held("runs")

\* A session id, a strong key or a run leads to one record at most: two records that
\* hold the same one would give every caller only half of what is known.
OneRecordPerIdentifier ==
  \A p, r \in DOMAIN tracker.rec :
    p # r =>
      LET a == tracker.rec[p]
          b == tracker.rec[r]
      IN a.ids \cap b.ids = {} /\ a.keys \cap b.keys \subseteq {Alias} /\ a.runs \cap b.runs = {}

\* All at once: every lookup of an identifier finds all that is known of it.
LookupsAgree == RecordsSound /\ IndexAgrees /\ OneRecordPerIdentifier

SessionsIn(record) == {s \in Sessions : {Id(s), Key(s)} \cap (record.ids \cup record.keys) # {}}

\* session-tracker-helpers.ts:260-261: shared aliases "are not safe enough to collapse
\* concurrent sessions on their own": no record holds identifiers of two sessions.  (The code breaks it.)
AliasNeverCollapses == \A r \in DOMAIN tracker.rec : Cardinality(SessionsIn(tracker.rec[r])) <= 1

\* Records of two sessions are mixed only through the alias: because a hook without a
\* session id made it one, or because a hook whose strong identifiers are all new was led
\* by it to the one record that had it.  Runs, merges, ends and late observations do not.
SeparateUnlessAliased == aliasAsId \/ adopted \/ AliasNeverCollapses

\* The session a name is of.
OwnerOf(n) == n[2]

\* The route a tool event is told was last seen within routeTtlMs, also by a guard that took
\* long; what it lacks is told from a session key, which may be older; and both are of
\* another session only through the same two doors.
RouteOwnAndFresh ==
  /\ answer.route # NoRoute => answer.age <= RouteTtl
  /\ \/ aliasAsId \/ adopted
     \/ /\ answer.route # NoRoute => RouteOf[answer.route] = answer.by
        /\ OwnerOf(answer.parsed) \in {answer.by, Nobody}

\* The tracker forgets a session at its session_end, for good.  The doors: its identifiers
\* were spread over records that no hook had linked, the hook was not read for both, or a
\* handler that still awaited its broadcast or the tool guard observed it afterwards, and
\* nothing will remove it again.
EndedForgotten == \A s \in ended \ (scattered \cup revived) : RecordsOf(tracker, s) = {}
=============================================================================
