---------------------------- MODULE AgentActivity ----------------------------
(***************************************************************************)
(* The statuses of agents and the idleness of subagents, told to clients as *)
(* agent.status and subagent.idle events (src/src/runtime/runtime-events.ts *)
(* over src/src/hooks/status-reducer.ts and subagent-tracker.ts): hooks and *)
(* the status timer mark, evaluate and tell, and await a broadcast after    *)
(* every event, where the others go on.  Time is kept as ages that stop at  *)
(* the longest window.                                                      *)
(***************************************************************************)
EXTENDS Naturals, FiniteSets, FiniteSetsExt

CONSTANTS Agents, NoAgent,
          Sessions, NoSession,
          AgentOf,          \* the agent of a session
          Children,         \* sessions of subagents
          Hooks,            \* hooks the host calls: see AHook
          WorkingWindow, SleepingWindow, IdleWindow,
          Slots,            \* bound: handlers and ticks under way at a time
          MaxHooks          \* bound: hooks of the host

VARIABLES
  agents,     \* AgentStatusReducer: what is known of an agent but its sessions
  age,        \* time since a session was active in the reducer
  subs,       \* SubagentTracker
  run,        \* what each slot is doing
  hooks,      \* hooks so far
  told,       \* the last agent.status told of an agent
  toldIdle,   \* children told idle and not seen active since
  overtaken,  \* history: agents evaluated anew while a transition of theirs waited to be told
  over,       \* history: children whose subagent_ended was handled
  mistold,    \* history: children told idle when they were over, or active again
  lateSpawn,  \* history: children registered when they were over
  lateIdle    \* history: children whose idle event waited until others were told

histories == <<overtaken, over, mistold, lateSpawn, lateIdle>>
vars == <<agents, age, subs, run, hooks, told, toldIdle, histories>>

\* A hook with the session and agent it is resolved to; subagent hooks name a child.
AHook(h) ==
  /\ h.kind \in {"activity", "error", "stop", "session_end", "spawned", "ended"}
  /\ \/ h.agent = NoAgent /\ h.session = NoSession
     \/ h.session \in Sessions /\ h.agent = AgentOf[h.session]
  /\ IF h.kind \in {"spawned", "ended"} THEN h.child \in Children ELSE h.child = NoSession

ASSUME AgentActivityConstants ==
  /\ NoAgent \notin Agents /\ NoSession \notin Sessions
  /\ AgentOf \in [Sessions -> Agents] /\ Children \subseteq Sessions
  /\ \A h \in Hooks : AHook(h)
  /\ {WorkingWindow, SleepingWindow, IdleWindow, MaxHooks} \subseteq Nat
  /\ WorkingWindow <= SleepingWindow
  /\ Slots \subseteq Nat /\ IsFiniteSet(Slots)

\* The age from which on, or without any session, an agent sleeps.
Gone == SleepingWindow + 1

-----------------------------------------------------------------------------
(* AgentStatusReducer: m is agents, t is age.                                 *)

Latest(t, a) == Min({Gone} \cup {t[s] : s \in {x \in Sessions : AgentOf[x] = a}})

\* Mutant: an agent never falls asleep.
ComputeStatusSleepless(m, t, a) ==
  IF m[a].offline THEN "offline"
  ELSE IF m[a].error THEN "error"
  ELSE IF Latest(t, a) <= WorkingWindow THEN "working" ELSE "idle"

\* computeStatus
ComputeStatus(m, t, a) ==
  IF m[a].offline THEN "offline"
  ELSE IF m[a].error THEN "error"
  ELSE IF Latest(t, a) <= WorkingWindow THEN "working"
  ELSE IF Latest(t, a) <= SleepingWindow THEN "idle" ELSE "sleeping"

\* The transitions of evaluateTransitions, and the reducer after it.
Transitions(m, t) ==
  {<<a, ComputeStatus(m, t, a)>> : a \in {b \in Agents : m[b].known /\ m[b].last # ComputeStatus(m, t, b)}}

Evaluated(m, t) ==
  [a \in Agents |-> IF m[a].known THEN [m[a] EXCEPT !.last = ComputeStatus(m, t, a)] ELSE m[a]]

\* ensureAgent and both marks.
Marked(a, offline, error) ==
  [agents EXCEPT ![a].known = TRUE, ![a].offline = offline, ![a].error = error]

-----------------------------------------------------------------------------
(* SubagentTracker *)

\* Mutant: it does not matter that a subagent has ended.
IdleTransitionsOfAll ==
  {c \in Children : subs[c].registered /\ ~subs[c].idle /\ subs[c].age >= IdleWindow}

\* evaluateIdleTransitions
IdleTransitions ==
  {c \in Children : /\ subs[c].registered /\ ~subs[c].ended /\ ~subs[c].idle
                   /\ subs[c].age >= IdleWindow}

\* observeActivity
Observed(table, s) ==
  [c \in Children |->
     IF c = s /\ table[c].registered /\ ~table[c].ended
     THEN [table[c] EXCEPT !.age = 0, !.idle = FALSE] ELSE table[c]]

\* registerSpawn: also a record that has ended lives again.
Spawned(c) == [subs EXCEPT ![c] = [registered |-> TRUE, ended |-> FALSE, idle |-> FALSE, age |-> 0]]

\* markEnded
Ended(c) == [subs EXCEPT ![c].ended = @ \/ subs[c].registered]

-----------------------------------------------------------------------------
(* Telling.  A slot does nothing, or a hook's first broadcast is under way    *)
(* ("open"), its agent.activity is ("acting"), or transitions are told one by *)
(* one ("statuses", "idles") while the rest waits.                            *)

Free == [stage |-> "free", kind |-> "none", agent |-> NoAgent, session |-> NoSession,
         child |-> NoSession, rest |-> {}]

Init ==
  /\ agents = [a \in Agents |-> [known |-> FALSE, offline |-> FALSE, error |-> FALSE, last |-> "none"]]
  /\ age = [s \in Sessions |-> Gone]
  /\ subs = [c \in Children |-> [registered |-> FALSE, ended |-> FALSE, idle |-> FALSE, age |-> 0]]
  /\ run = [n \in Slots |-> Free]
  /\ hooks = 0
  /\ told = [a \in Agents |-> "none"] /\ toldIdle = {}
  /\ overtaken = {} /\ over = {} /\ mistold = {} /\ lateSpawn = {} /\ lateIdle = {}

Waiting == UNION {run[n].rest : n \in {k \in Slots : run[k].stage = "statuses"}}

\* Mutant: what follows the first transition is forgotten.
TellStatusOnce(n, h, batch) ==
  IF batch = {} THEN told' = told /\ run' = [run EXCEPT ![n] = [h EXCEPT !.rest = {}]]
  ELSE \E x \in batch : /\ told' = [told EXCEPT ![x[1]] = x[2]]
                        /\ run' = [run EXCEPT ![n] = [h EXCEPT !.rest = {}]]

\* The first of a batch is told, the rest waits; in any order, where the code takes
\* that in which it met the agents.
TellStatus(n, h, batch) ==
  IF batch = {} THEN told' = told /\ run' = [run EXCEPT ![n] = [h EXCEPT !.rest = {}]]
  ELSE \E x \in batch : /\ told' = [told EXCEPT ![x[1]] = x[2]]
                        /\ run' = [run EXCEPT ![n] = [h EXCEPT !.rest = batch \ {x}]]

\* emitAgentStatusTransitions up to its first await, by slot n with record h, when the
\* reducer holds m and t.
EmitStatuses(n, h, m, t) ==
  LET batch == Transitions(m, t)
  IN /\ agents' = Evaluated(m, t) /\ age' = t
     /\ TellStatus(n, [h EXCEPT !.stage = "statuses"], batch)
     /\ overtaken' = overtaken \cup ({x[1] : x \in batch} \cap {x[1] : x \in Waiting})

\* The same for the children.
TellIdle(n, h, batch) ==
  IF batch = {} THEN run' = [run EXCEPT ![n] = [h EXCEPT !.rest = {}]] /\ UNCHANGED <<toldIdle, mistold>>
  ELSE \E c \in batch : /\ toldIdle' = toldIdle \cup {c}
                        /\ mistold' = IF c \in over \/ ~subs'[c].idle THEN mistold \cup {c} ELSE mistold
                        /\ run' = [run EXCEPT ![n] = [h EXCEPT !.rest = batch \ {c}]]

\* emitSubagentIdleTransitions up to its first await.
EmitIdles(n, h) ==
  /\ subs' = [c \in Children |-> IF c \in IdleTransitions THEN [subs[c] EXCEPT !.idle = TRUE] ELSE subs[c]]
  /\ TellIdle(n, [h EXCEPT !.stage = "idles"], IdleTransitions)
  /\ lateIdle' = lateIdle \cup run'[n].rest

-----------------------------------------------------------------------------
(* Hooks *)

\* The slot that what starts next takes.
Opens(n) == run[n].stage = "free" /\ \A k \in Slots : k < n => run[k].stage # "free"

\* A hook begins to broadcast its own event; only session_end makes the reducer forget
\* its session before.  A child that is over is not spawned again.
HookStarts(n, h) ==
  /\ Opens(n) /\ hooks < MaxHooks
  /\ h.kind = "spawned" => h.child \notin over
  /\ hooks' = hooks + 1
  /\ run' = [run EXCEPT ![n] = [Free EXCEPT !.stage = "open", !.kind = h.kind, !.agent = h.agent,
                                           !.session = h.session, !.child = h.child]]
  /\ age' = [s \in Sessions |-> IF h.kind = "session_end" /\ s = h.session THEN Gone ELSE age[s]]
  /\ UNCHANGED <<agents, subs, told, toldIdle, histories>>

\* emitAgentActivity up to its first await, after changes to the subagents and ages:
\* the activity is observed and ends an error or being offline, then agent.activity
\* is broadcast.  Without an agent the hook is done.
EmitActivity(n, table, t) ==
  LET h == run[n]
  IN IF h.agent = NoAgent
     THEN /\ run' = [run EXCEPT ![n] = Free]
          /\ subs' = table /\ age' = t /\ UNCHANGED <<agents, toldIdle>>
     ELSE /\ run' = [run EXCEPT ![n].stage = "acting"]
          /\ agents' = Marked(h.agent, FALSE, FALSE)
          /\ age' = [t EXCEPT ![h.session] = 0]
          /\ subs' = Observed(table, h.session)
          /\ toldIdle' = toldIdle \ {c \in Children : ~subs'[c].idle}

\* The first broadcast of an activity hook is done; a session_end that found no agent
\* only tells the transitions.
ActivityOpened(n) ==
  /\ run[n].stage = "open" /\ run[n].kind \in {"activity", "session_end"}
  /\ IF run[n].kind = "session_end" /\ run[n].agent = NoAgent
     THEN EmitStatuses(n, run[n], agents, age) /\ UNCHANGED <<subs, toldIdle>>
     ELSE EmitActivity(n, subs, age) /\ UNCHANGED <<told, overtaken>>
  /\ UNCHANGED <<hooks, over, mistold, lateSpawn, lateIdle>>

\* The broadcasts of subagent_spawned are done: only now is the child registered.
SpawnOpened(n) ==
  /\ run[n].stage = "open" /\ run[n].kind = "spawned"
  /\ EmitActivity(n, Spawned(run[n].child), age)
  /\ lateSpawn' = IF run[n].child \in over THEN lateSpawn \cup {run[n].child} ELSE lateSpawn
  /\ UNCHANGED <<hooks, told, overtaken, over, mistold, lateIdle>>

\* That of subagent_ended is: markEnded, and removeSession if the session tracker knows
\* the child's agent.
EndOpened(n) ==
  /\ run[n].stage = "open" /\ run[n].kind = "ended"
  /\ \E t \in {age, [age EXCEPT ![run[n].child] = Gone]} : EmitActivity(n, Ended(run[n].child), t)
  /\ over' = over \cup {run[n].child}
  /\ UNCHANGED <<hooks, told, overtaken, mistold, lateSpawn, lateIdle>>

\* That of agent.error is: the error is classified by its text.
ErrorOpened(n) ==
  /\ run[n].stage = "open" /\ run[n].kind = "error"
  /\ IF run[n].agent = NoAgent
     THEN run' = [run EXCEPT ![n] = Free] /\ UNCHANGED <<agents, age, told, overtaken>>
     ELSE LET a == run[n].agent IN
          \E m \in {Marked(a, TRUE, agents[a].error), Marked(a, agents[a].offline, TRUE)} :
             EmitStatuses(n, run[n], m, age)
  /\ UNCHANGED <<subs, hooks, toldIdle, over, mistold, lateSpawn, lateIdle>>

\* That of gateway_stop is: markAllOffline.
StopOpened(n) ==
  /\ run[n].stage = "open" /\ run[n].kind = "stop"
  /\ EmitStatuses(n, run[n], [a \in Agents |-> [agents[a] EXCEPT !.offline = @ \/ agents[a].known]], age)
  /\ UNCHANGED <<subs, hooks, toldIdle, over, mistold, lateSpawn, lateIdle>>

\* agent.activity is broadcast: on with the transitions.
Acted(n) ==
  /\ run[n].stage = "acting"
  /\ EmitStatuses(n, run[n], agents, age)
  /\ UNCHANGED <<subs, hooks, toldIdle, over, mistold, lateSpawn, lateIdle>>

\* The status timer starts both loops, and waits for neither.
TimerStatuses(n) ==
  /\ Opens(n) /\ Transitions(agents, age) # {}
  /\ EmitStatuses(n, [Free EXCEPT !.kind = "timer"], agents, age)
  /\ UNCHANGED <<subs, hooks, toldIdle, over, mistold, lateSpawn, lateIdle>>

TimerIdles(n) ==
  /\ Opens(n) /\ IdleTransitions # {}
  /\ EmitIdles(n, [Free EXCEPT !.kind = "timer"])
  /\ UNCHANGED <<agents, age, hooks, told, overtaken, over, lateSpawn>>

\* The broadcast of an agent.status is done: the next of the batch, or the children's
\* turn, if a hook's activity is behind it.
StatusTold(n) ==
  LET h == run[n] IN
  /\ h.stage = "statuses"
  /\ \/ /\ h.rest # {}
        /\ TellStatus(n, h, h.rest)
        /\ UNCHANGED <<subs, toldIdle, mistold, lateIdle>>
     \/ /\ h.rest = {} /\ h.kind \in {"activity", "session_end", "spawned", "ended"} /\ h.agent # NoAgent
        /\ EmitIdles(n, h) /\ UNCHANGED told
     \/ /\ h.rest = {} /\ (h.kind \in {"error", "stop", "timer"} \/ h.agent = NoAgent)
        /\ run' = [run EXCEPT ![n] = Free]
        /\ UNCHANGED <<subs, told, toldIdle, mistold, lateIdle>>
  /\ UNCHANGED <<agents, age, hooks, overtaken, over, lateSpawn>>

\* The broadcasts about an idle child are done: the next one, or the end.
IdleTold(n) ==
  LET h == run[n] IN
  /\ h.stage = "idles"
  /\ subs' = subs
  /\ IF h.rest # {} THEN TellIdle(n, h, h.rest)
     ELSE run' = [run EXCEPT ![n] = Free] /\ UNCHANGED <<toldIdle, mistold>>
  /\ UNCHANGED <<agents, age, hooks, told, overtaken, over, lateSpawn, lateIdle>>

\* Time passes; ages stop where they make no more difference.
Tick ==
  /\ age' = [s \in Sessions |-> Min({Gone, age[s] + 1})]
  /\ subs' = [c \in Children |-> [subs[c] EXCEPT !.age = Min({IdleWindow, @ + 1})]]
  /\ UNCHANGED <<agents, run, hooks, told, toldIdle, histories>>

Step(n) ==
  \/ ActivityOpened(n) \/ SpawnOpened(n) \/ EndOpened(n) \/ ErrorOpened(n) \/ StopOpened(n)
  \/ Acted(n) \/ StatusTold(n) \/ IdleTold(n)

Next ==
  \/ \E n \in Slots :
       \/ \E h \in Hooks : HookStarts(n, h)
       \/ Step(n) \/ TimerStatuses(n) \/ TimerIdles(n)
  \/ Tick

Spec == Init /\ [][Next]_vars

\* Time passes, broadcasts end, and the status timer fires until the plugin is deactivated.
FairSpec ==
  /\ Spec
  /\ WF_vars(Tick)
  /\ WF_vars(\E n \in Slots : Step(n))
  /\ WF_vars(\E n \in Slots : TimerStatuses(n) \/ TimerIdles(n))

-----------------------------------------------------------------------------
(* Properties *)

\* Clients that take agent.status for state transitions (docs/ui.md:25) end up with the
\* status the reducer holds, unless an agent was evaluated anew while an earlier
\* transition of it waited behind another agent's (runtime-events.ts, the loop of
\* emitAgentStatusTransitions).
ToldWhatHolds ==
  \A a \in Agents \ overtaken :
    LET waiting == {x[2] : x \in {y \in Waiting : y[1] = a}}
    IN IF waiting = {} THEN told[a] = agents[a].last ELSE waiting = {agents[a].last}

\* A subagent is told idle only while it is neither over nor active again, unless its
\* spawn was registered after its end had been handled (register-subagent-hooks.ts:114)
\* or its idle event waited behind those of others.
IdleIsIdle == mistold \subseteq lateSpawn \cup lateIdle

\* When the host calls no more hooks, every agent is told asleep, offline or in error,
\* and every subagent that lives is told idle, in the end and for good; agents and
\* children of which events were told out of order excepted.
ActivitySettles ==
  <>[]/\ \A a \in Agents \ overtaken :
           agents[a].known => told[a] \in {"sleeping", "offline", "error"}
      /\ \A c \in Children \ lateIdle :
           subs[c].registered /\ ~subs[c].ended => c \in toldIdle

=============================================================================
