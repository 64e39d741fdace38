--------------------------- MODULE HookBridgeDispatch ---------------------------
(***************************************************************************)
(* The asynchronous hook bridge: HookBridge.onEvent and stop                *)
(* (src/src/runtime/hook-bridge.ts) and the dispatch engine with its        *)
(* bounded queue, coalescing, workers and telemetry flags                   *)
(* (src/src/runtime/hook-bridge-dispatch-engine.ts).  An action             *)
(* (hook-bridge-actions.ts) is started and ends well, ends with an error    *)
(* or, a script whose pipes stay open, never.                               *)
(***************************************************************************)
EXTENDS Naturals, FiniteSets, Sequences, SequencesExt, Functions

CONSTANTS Rules,        \* config.rules: [id, cooldown, coalesce, window] in order
          Kinds,        \* events: [rules that match, coalesce key]
          Keys, NoKey,  \* coalesce keys; none when the fields are missing
          MaxPending,   \* runtime.maxPendingEvents
          DropPolicies, \* values of runtime.dropPolicy
          Concurrency,  \* runtime.concurrency
          Saturation,   \* telemetry.saturationWindowMs
          Window, MinSamples, ThresholdPct,  \* telemetry.failureRate*
          MaxTriggers,  \* bound: triggers
          MaxClock,     \* bound: time
          MaxHangs      \* bound: actions that never end

ASSUME DispatchConstants ==
  /\ Rules \in Seq([id: STRING, cooldown: Nat, coalesce: {"off", "latest", "first"}, window: Nat])
  /\ Kinds \subseteq [rules: SUBSET DOMAIN Rules, key: Keys \cup {NoKey}] /\ NoKey \notin Keys
  /\ MaxPending \in Nat \ {0} /\ Concurrency \in Nat \ {0}
  /\ DropPolicies \subseteq {"drop_newest", "drop_oldest"}
  /\ Saturation \in Nat /\ Window \in Nat /\ MinSamples \in Nat \ {0} /\ ThresholdPct \in 0..100
  /\ MaxTriggers \in Nat /\ MaxClock \in Nat /\ MaxHangs \in Nat

VARIABLES
  policy,       \* runtime.dropPolicy
  engine,       \* the dispatch engine, see InitEngine
  lastTrigger,  \* lastTriggerByRule: 0 before the first trigger
  triggers,     \* triggers so far; a task is numbered by its first one
  accepting,    \* acceptingEvents
  stop,         \* stop(): "no", "waiting" for the drain, "done"
  stuck,        \* tasks whose action will never end
  clock,        \* starts at 1
  log,          \* history: outcomes of all actions
  executed,     \* history: the tasks whose action was begun
  latest        \* history: the triggers of rules whose strategy is "latest"

vars == <<policy, engine, lastTrigger, triggers, accepting, stop, stuck, clock, log, executed, latest>>

Ids == {Rules[i].id : i \in DOMAIN Rules}
Triggers == 1..MaxTriggers
CoalesceKeys == Ids \X Keys

\* The queue, queuedTaskById, queuedTaskIdByCoalesceKey (0 for none), the tasks of the
\* workers, the full-queue and failure-rate state, the dropped triggers (history).
InitEngine ==
  [queue |-> <<>>, byId |-> {}, byKey |-> [k \in CoalesceKeys |-> 0], running |-> {},
   fullSince |-> 0, backpressure |-> FALSE, outcomes |-> <<>>, alert |-> FALSE,
   dropped |-> {}, begun |-> {}]

Init ==
  /\ policy \in DropPolicies
  /\ engine = InitEngine
  /\ lastTrigger = [r \in Ids |-> 0]
  /\ triggers = 0 /\ accepting = TRUE /\ stop = "no" /\ stuck = {}
  /\ clock = 1 /\ log = <<>> /\ executed = {} /\ latest = {}

-----------------------------------------------------------------------------
(* The dispatch engine: operators from an engine to the next one              *)

\* evaluateQueuePressure, called at every change of the queue.
EvaluateQueuePressure(e) ==
  IF Len(e.queue) >= MaxPending
  THEN LET since == IF e.fullSince = 0 THEN clock ELSE e.fullSince
       IN [e EXCEPT !.fullSince = since,
                    !.backpressure = @ \/ clock - since >= Saturation]
  ELSE [e EXCEPT !.fullSince = 0, !.backpressure = FALSE]

\* Tasks leave the indexes; the entry of a key only if it names one of them.
Without(e, tasks) ==
  LET ids == {task.id : task \in tasks}
  IN [e EXCEPT !.byId = @ \ ids, !.byKey = [k \in CoalesceKeys |-> IF @[k] \in ids THEN 0 ELSE @[k]]]

\* The number of tasks that find a free worker.
Takeable(e) ==
  LET free == Concurrency - Cardinality(e.running)
  IN IF Len(e.queue) < free THEN Len(e.queue) ELSE free

\* pumpWorkers: as long as there are fewer workers than concurrency, another one takes the
\* head of the queue and starts its action.
PumpWorkers(e) ==
  LET n == Takeable(e)
      taken == {e.queue[i] : i \in 1..n}
  IN IF n = 0 THEN e
     ELSE EvaluateQueuePressure(
            [Without([e EXCEPT !.queue = SubSeq(@, n + 1, Len(@))], taken)
               EXCEPT !.running = @ \cup taken, !.begun = @ \cup taken])

\* Where the queued task of this key is, if it may absorb another trigger.
Absorbing(e, k, window) ==
  {i \in DOMAIN e.queue : e.queue[i].id = e.byKey[k] /\ clock - e.queue[i].at <= window}

\* Mutant: the event of the queued task is replaced whatever the strategy says.
CoalesceLatest(e, i, task, strategy) ==
  [e EXCEPT !.queue[i].carries = @ \cup task.carries,
            !.queue[i].event = task.event, !.queue[i].at = task.at]

\* tryCoalesceTask when it finds one: the newer event replaces the older, or not.
Coalesce(e, i, task, strategy) ==
  [e EXCEPT !.queue[i].carries = @ \cup task.carries,
            !.queue[i].event = IF strategy = "latest" THEN task.event ELSE @,
            !.queue[i].at = IF strategy = "latest" THEN task.at ELSE @]

\* Mutant: the oldest task leaves the queue and not the indexes.
DropOldestFromQueue(e) ==
  [e EXCEPT !.queue = Tail(@), !.dropped = @ \cup Head(e.queue).carries]

\* Mutant: the oldest task is reported and stays.
DropOldestReported(e) == [e EXCEPT !.dropped = @ \cup Head(e.queue).carries]

\* drop_oldest: the oldest task goes with all it had absorbed.
DropOldest(e) ==
  [Without([e EXCEPT !.queue = Tail(@)], {Head(e.queue)}) EXCEPT !.dropped = @ \cup Head(e.queue).carries]

Full(e) == Len(e.queue) >= MaxPending

\* The rest of enqueueTask: at the limit the new task or the oldest one is dropped.
Push(e, task) ==
  IF Full(e) /\ policy = "drop_newest"
  THEN EvaluateQueuePressure([e EXCEPT !.dropped = @ \cup task.carries])
  ELSE LET room == IF Full(e) THEN DropOldest(e) ELSE e
       IN PumpWorkers(EvaluateQueuePressure(
            [room EXCEPT !.queue = Append(@, task), !.byId = @ \cup {task.id},
                         !.byKey = [k \in CoalesceKeys |-> IF k = task.key THEN task.id ELSE @[k]]]))

\* enqueueTask for rule i; an expired entry of its key is deleted first.
EnqueueTask(e, i, key, n) ==
  LET rule == Rules[i]
      coalesces == rule.coalesce # "off" /\ key # NoKey
      k == <<rule.id, key>>
      task == [id |-> n, key |-> IF coalesces THEN k ELSE <<rule.id, NoKey>>, rule |-> i,
               event |-> n, at |-> clock, carries |-> {n}]
  IN IF ~coalesces THEN Push(e, task)
     ELSE LET found == Absorbing(e, k, rule.window)
          IN IF found # {} THEN Coalesce(e, CHOOSE j \in found : TRUE, task, rule.coalesce)
             ELSE Push([e EXCEPT !.byKey[k] = 0], task)

\* Outcomes are shifted until the first one is young enough.
Shifted(outcomes) ==
  SubSeq(outcomes, Min({i \in DOMAIN outcomes : outcomes[i].at + Window >= clock}), Len(outcomes))

RecordOutcome(e, ok) ==
  [e EXCEPT !.outcomes = Shifted(Append(@, [at |-> clock, ok |-> ok]))]

Failures(outcomes) == Cardinality({i \in DOMAIN outcomes : ~outcomes[i].ok})

\* Mutant: the number of samples is not looked at.
EvaluateFailureRateAlways(e) ==
  [e EXCEPT !.alert = Failures(e.outcomes) * 100 >= ThresholdPct * Len(e.outcomes)]

\* evaluateFailureRate: few samples recover the alert.
EvaluateFailureRate(e) ==
  [e EXCEPT !.alert = Len(e.outcomes) >= MinSamples
                      /\ Failures(e.outcomes) * 100 >= ThresholdPct * Len(e.outcomes)]

-----------------------------------------------------------------------------
(* The hook bridge *)

\* canTrigger
CanTrigger(i, last) ==
  Rules[i].cooldown = 0 \/ last[Rules[i].id] = 0 \/ clock - last[Rules[i].id] >= Rules[i].cooldown

\* One rule of onEvent's loop, applied to [engine, last, n, latest].
ApplyRule(x, i, kind) ==
  IF i \notin kind.rules \/ ~CanTrigger(i, x.last) THEN x
  ELSE [engine |-> EnqueueTask(x.engine, i, kind.key, x.n + 1),
        last |-> [x.last EXCEPT ![Rules[i].id] = clock],
        n |-> x.n + 1,
        latest |-> IF Rules[i].coalesce = "latest" THEN x.latest \cup {x.n + 1} ELSE x.latest]

\* onEvent: every rule that matches and is not cooling down, in order, in one go.
OnEvent(kind) ==
  /\ accepting
  /\ LET Loop[i \in 0..Len(Rules)] ==
           IF i = 0 THEN [engine |-> engine, last |-> lastTrigger, n |-> triggers, latest |-> latest]
           ELSE ApplyRule(Loop[i - 1], i, kind)
         x == Loop[Len(Rules)]
     IN /\ x.n <= MaxTriggers
        /\ engine' = [x.engine EXCEPT !.begun = {}]
        /\ executed' = executed \cup x.engine.begun
        /\ lastTrigger' = x.last /\ triggers' = x.n /\ latest' = x.latest
  /\ UNCHANGED <<policy, accepting, stop, stuck, clock, log>>

\* Mutant: a worker ends with its task and leaves the queue to the others.
RunWorkerOnce(e, task) == [e EXCEPT !.running = @ \ {task}]

\* A worker goes on with the next task or ends; the last one resolves the drain.
RunWorker(e, task) == PumpWorkers([e EXCEPT !.running = @ \ {task}])

\* The action of a task ends: the rest of executeTask and of the worker's loop.
ExecuteTask(task, ok) ==
  /\ task.id \notin stuck
  /\ LET e == RunWorker(EvaluateFailureRate(RecordOutcome(engine, ok)), task)
     IN /\ engine' = [e EXCEPT !.begun = {}]
        /\ executed' = executed \cup e.begun
        /\ stop' = IF stop = "waiting" /\ e.running = {} /\ e.queue = <<>> THEN "done" ELSE stop
  /\ log' = Append(log, [at |-> clock, ok |-> ok])
  /\ UNCHANGED <<policy, lastTrigger, triggers, accepting, stuck, clock, latest>>

\* A script that was killed may leave its pipes open in a child of its own: 'close'
\* is not emitted and the action neither resolves nor rejects.
Hang(task) ==
  /\ task.id \notin stuck /\ Cardinality(stuck) < MaxHangs
  /\ stuck' = stuck \cup {task.id}
  /\ UNCHANGED <<policy, engine, lastTrigger, triggers, accepting, stop, clock, log, executed, latest>>

\* stop: no more events; done at once if nothing runs.
Stop ==
  /\ stop = "no"
  /\ accepting' = FALSE
  /\ stop' = IF engine.running = {} /\ engine.queue = <<>> THEN "done" ELSE "waiting"
  /\ UNCHANGED <<policy, engine, lastTrigger, triggers, stuck, clock, log, executed, latest>>

Tick ==
  /\ clock < MaxClock
  /\ clock' = clock + 1
  /\ UNCHANGED <<policy, engine, lastTrigger, triggers, accepting, stop, stuck, log, executed, latest>>

Next ==
  \/ \E kind \in Kinds : OnEvent(kind)
  \/ \E task \in engine.running : Hang(task) \/ \E ok \in BOOLEAN : ExecuteTask(task, ok)
  \/ Stop \/ Tick

Spec == Init /\ [][Next]_vars

\* An action that does not hang ends.
FairSpec ==
  /\ Spec
  /\ \A n \in Triggers :
       WF_vars(\E task \in engine.running : task.id = n /\ \E ok \in BOOLEAN : ExecuteTask(task, ok))

-----------------------------------------------------------------------------

Tasks == ToSet(engine.queue) \cup engine.running

\* The queue stays within maxPendingEvents, nothing waits in it while a worker is free, and
\* the two indexes say what it says, whatever was coalesced, expired, dropped or taken: a
\* key leads to a queued task of that key, and to the youngest of them.
QueueCoherent ==
  /\ Len(engine.queue) <= MaxPending /\ Cardinality(engine.running) <= Concurrency
  /\ engine.queue # <<>> => Cardinality(engine.running) = Concurrency
  /\ engine.byId = {task.id : task \in ToSet(engine.queue)}
  /\ \A k \in CoalesceKeys :
       engine.byKey[k] # 0 =>
         \E task \in ToSet(engine.queue) :
           /\ task.id = engine.byKey[k] /\ task.key = k
           /\ \A other \in ToSet(engine.queue) : other.key = k => other.id <= task.id

\* The event an action gets is one of those that coalesced in its task: the newest that
\* came under "latest", or the oldest when none did, also when rules of different
\* strategies share an id and so a key (tryCoalesceTask).
EventOfStrategy ==
  \A task \in executed \cup ToSet(engine.queue) :
    LET under == task.carries \cap latest
    IN IF under # {} THEN task.event \in under /\ \A n \in under : n <= task.event
       ELSE task.event \in task.carries /\ \A n \in task.carries : task.event <= n

\* The failure-rate alert after an action is the one that all outcomes of the window,
\* and no older ones, call for.
AlertFollowsWindow ==
  log # <<>> =>
    LET recent == {i \in DOMAIN log : log[i].at + Window >= log[Len(log)].at}
        failed == {i \in recent : ~log[i].ok}
    IN engine.alert <=> /\ Cardinality(recent) >= MinSamples
                        /\ Cardinality(failed) * 100 >= ThresholdPct * Cardinality(recent)

\* stop() resolves when the last action has ended, unless one hangs, and not before.
Drains == (stop = "waiting") ~> (stop = "done" \/ stuck # {})

\* The engine implements ActionPool: no trigger is lost, run twice or dropped once its
\* action runs, and none comes in after stop().
Union(tasks) == UNION {t.carries : t \in tasks}
Pool == INSTANCE ActionPool WITH
  Workers <- Concurrency,
  waiting <- Union(ToSet(engine.queue)),
  active <- Union(engine.running),
  finished <- Union(executed) \ Union(engine.running),
  dropped <- engine.dropped,
  slots <- Cardinality(engine.running),
  open <- accepting
ImplementsPool == Pool!Spec
=============================================================================
