---------------------- MODULE ActivityAndQueue_proofs -----------------------
(***************************************************************************)
(* What the owner tells of its agents, and the queue that sends what it     *)
(* tells to the webhooks: proofs about AgentActivity, then about EventQueue.*)
(*                                                                         *)
(* Agents, for any agents, sessions, hooks, windows and any number of       *)
(* handlers under way: ToldInv says what the transitions that wait are good *)
(* for, IdleInv of which children an idle event may be told late.           *)
(*                                                                         *)
(* The queue, for any instances, bounds and batch size: QueueInv says of    *)
(* each instance what a flush knows of the places of the items it waits for *)
(* and of those it will remove, and where the last snapshot is.             *)
(***************************************************************************)
EXTENDS AgentActivity, EventQueue, SequenceTheorems, WellFoundedInduction, TLAPS

-----------------------------------------------------------------------------
(* Agents and subagents *)

Statuses == {"offline", "error", "working", "idle", "sleeping"}
Stages == {"free", "open", "acting", "statuses", "idles"}
Kinds == {"none", "timer", "activity", "error", "stop", "session_end", "spawned", "ended"}
Pairs == Agents \X Statuses

\* What a slot holds: transitions or children wait only in the stage that tells them.
Handlers ==
  {h \in [stage : Stages, kind : Kinds, agent : Agents \cup {NoAgent},
          session : Sessions \cup {NoSession}, child : Children \cup {NoSession},
          rest : SUBSET (Pairs \cup Children)] :
     /\ h.stage = "statuses" => h.rest \subseteq Pairs
     /\ h.stage = "idles" => h.rest \subseteq Children
     /\ h.stage \notin {"statuses", "idles"} => h.rest = {}}

AgentTable ==
  [Agents -> [known : BOOLEAN, offline : BOOLEAN, error : BOOLEAN, last : Statuses \cup {"none"}]]

SubTable == [Children -> [registered : BOOLEAN, ended : BOOLEAN, idle : BOOLEAN, age : Nat]]

Typed ==
  /\ agents \in AgentTable /\ subs \in SubTable
  /\ run \in [Slots -> Handlers]
  /\ told \in [Agents -> Statuses \cup {"none"}]

\* What waits to be told of an agent is the status the reducer holds, and that status
\* was told last or waits.
Waits(n, a, s) == run[n].stage = "statuses" /\ <<a, s>> \in run[n].rest
ToldInv ==
  \A a \in Agents \ overtaken :
    /\ \A n \in Slots, s \in Statuses : Waits(n, a, s) => s = agents[a].last
    /\ told[a] = agents[a].last \/ \E n \in Slots : Waits(n, a, agents[a].last)

\* A child that is over lives in the tracker only through a late registration, and the
\* children that wait in a batch are those of lateIdle.
IdleInv ==
  /\ mistold \subseteq lateSpawn \cup lateIdle
  /\ \A c \in Children : c \in over /\ subs[c].registered /\ ~subs[c].ended => c \in lateSpawn
  /\ \A n \in Slots : run[n].stage = "idles" => run[n].rest \subseteq lateIdle

-----------------------------------------------------------------------------
(* What the operators yield *)

\* computeStatus yields a status whatever the ages are.
LEMMA StatusComputed ==
  ASSUME NEW m, NEW t, NEW a
  PROVE  ComputeStatus(m, t, a) \in Statuses
BY DEF ComputeStatus, Statuses

\* evaluateTransitions: a transition for every agent whose status has changed, after
\* which the reducer holds the computed statuses.
LEMMA Evaluation ==
  ASSUME NEW m \in AgentTable, NEW t
  PROVE  /\ Transitions(m, t) \subseteq Pairs
         /\ Evaluated(m, t) \in AgentTable
         /\ \A x \in Transitions(m, t) : x[2] = Evaluated(m, t)[x[1]].last
         /\ \A a \in Agents : \/ <<a, Evaluated(m, t)[a].last>> \in Transitions(m, t)
                              \/ /\ Evaluated(m, t)[a].last = m[a].last
                                 /\ \A x \in Transitions(m, t) : x[1] # a
<1> DEFINE S(a) == ComputeStatus(m, t, a)
<1>1. \A a \in Agents : S(a) \in Statuses
  BY StatusComputed
<1>2. Transitions(m, t) = {<<a, S(a)>> : a \in {b \in Agents : m[b].known /\ m[b].last # S(b)}}
  BY DEF Transitions
<1>3. Evaluated(m, t) = [a \in Agents |-> IF m[a].known THEN [m[a] EXCEPT !.last = S(a)] ELSE m[a]]
  BY DEF Evaluated
<1> HIDE DEF S
<1>4. \A a \in Agents : Evaluated(m, t)[a].last = IF m[a].known THEN S(a) ELSE m[a].last
  BY <1>3 DEF AgentTable
<1>5. Transitions(m, t) \subseteq Pairs
  BY <1>1, <1>2 DEF Pairs
<1>6. Evaluated(m, t) \in AgentTable
  BY <1>1, <1>3 DEF AgentTable
<1>7. \A x \in Transitions(m, t) : x[2] = Evaluated(m, t)[x[1]].last
  BY <1>2, <1>4
<1>8. ASSUME NEW a \in Agents
      PROVE  \/ <<a, Evaluated(m, t)[a].last>> \in Transitions(m, t)
             \/ /\ Evaluated(m, t)[a].last = m[a].last
                /\ \A x \in Transitions(m, t) : x[1] # a
  BY <1>2, <1>4
<1>9. QED
  BY <1>5, <1>6, <1>7, <1>8

\* A slot's record as it moves from stage to stage, and as its batch shrinks.
LEMMA HandlerStage ==
  ASSUME NEW h \in Handlers, h.rest = {}, NEW s \in {"acting", "statuses", "idles"}
  PROVE  /\ [h EXCEPT !.stage = s] \in Handlers
         /\ [h EXCEPT !.stage = s].stage = s /\ [h EXCEPT !.stage = s].rest = {}
BY DEF Handlers, Stages

LEMMA HandlerRest ==
  ASSUME NEW h \in Handlers, NEW B,
         \/ h.stage = "statuses" /\ B \subseteq Pairs
         \/ h.stage = "idles" /\ B \subseteq Children
  PROVE  /\ [h EXCEPT !.rest = B] \in Handlers
         /\ [h EXCEPT !.rest = B].stage = h.stage /\ [h EXCEPT !.rest = B].rest = B
BY DEF Handlers, Stages

\* A slot that nothing runs in.
LEMMA FreeHandler == Free \in Handlers /\ Free.rest = {} /\ Free.stage = "free"
BY DEF Free, Handlers, Stages, Kinds

-----------------------------------------------------------------------------
(* The loop over transitions *)

\* One transition is told and the rest waits.
TellsOne(n, h, batch, rest) ==
  /\ run' = [run EXCEPT ![n] = [h EXCEPT !.rest = rest]]
  /\ \/ batch = {} /\ rest = {} /\ told' = told
     \/ \E x \in batch : rest = batch \ {x} /\ told' = [told EXCEPT ![x[1]] = x[2]]

\* TellStatus, as one step of the loop.
LEMMA TellSplit ==
  ASSUME NEW n, NEW h, NEW batch, TellStatus(n, h, batch)
  PROVE  \E rest \in SUBSET batch : TellsOne(n, h, batch, rest)
BY DEF TellStatus, TellsOne

\* The step keeps ToldInv when what it has to tell is what the reducer holds.
LEMMA TellKeeps ==
  ASSUME Typed, NEW n \in Slots, NEW h \in Handlers, h.stage = "statuses",
         NEW batch \in SUBSET Pairs, TellStatus(n, h, batch),
         agents' \in AgentTable,
         \A a \in Agents \ overtaken' :
           /\ \A k \in Slots \ {n}, s \in Statuses : Waits(k, a, s) => s = agents'[a].last
           /\ \A x \in batch : x[1] = a => x[2] = agents'[a].last
           /\ \/ told[a] = agents'[a].last \/ <<a, agents'[a].last>> \in batch
              \/ \E k \in Slots \ {n} : Waits(k, a, agents'[a].last)
  PROVE  ToldInv' /\ run' \in [Slots -> Handlers] /\ told' \in [Agents -> Statuses \cup {"none"}]
<1>1. PICK rest \in SUBSET batch : TellsOne(n, h, batch, rest)
  BY TellSplit
<1> DEFINE r == [h EXCEPT !.rest = rest]
<1>3. r \in Handlers /\ r.rest = rest /\ r.stage = "statuses"
  BY HandlerRest
<1>4. run' = [run EXCEPT ![n] = r]
  BY <1>1 DEF TellsOne
<1> HIDE DEF r
<1>5. run' \in [Slots -> Handlers] /\ run'[n] = r /\ \A k \in Slots \ {n} : run'[k] = run[k]
  BY <1>3, <1>4 DEF Typed
<1>6. told' \in [Agents -> Statuses \cup {"none"}]
  BY <1>1 DEF TellsOne, Typed, Pairs
<1>7. ASSUME NEW a \in Agents \ overtaken'
      PROVE  /\ \A k \in Slots, s \in Statuses : Waits(k, a, s)' => s = agents'[a].last
             /\ told'[a] = agents'[a].last \/ \E k \in Slots : Waits(k, a, agents[a].last)'
  <2>1. ASSUME NEW k \in Slots, NEW s \in Statuses, Waits(k, a, s)' PROVE s = agents'[a].last
    <3>1. CASE k = n
      BY <1>3, <1>5, <2>1, <3>1 DEF Waits
    <3>2. CASE k # n
      BY <1>5, <2>1, <3>2 DEF Waits
    <3>3. QED BY <3>1, <3>2
  <2>2. ASSUME NEW k \in Slots \ {n}, Waits(k, a, agents'[a].last)
        PROVE  Waits(k, a, agents[a].last)'
    BY <1>5, <2>2 DEF Waits
  <2>3. CASE batch = {} /\ told' = told
    BY <1>7, <2>1, <2>2, <2>3
  <2>4. ASSUME NEW x \in batch, rest = batch \ {x}, told' = [told EXCEPT ![x[1]] = x[2]]
        PROVE  told'[a] = agents'[a].last \/ \E k \in Slots : Waits(k, a, agents[a].last)'
    <3>1. CASE x[1] = a
      BY <2>4, <3>1 DEF Typed
    <3>2. CASE x[1] # a
      <4>1. told'[a] = told[a]
        BY <2>4, <3>2 DEF Typed, Pairs
      <4>2. <<a, agents'[a].last>> \in batch => Waits(n, a, agents[a].last)'
        BY <1>3, <1>5, <2>4, <3>2 DEF Waits
      <4>3. QED BY <1>7, <2>2, <4>1, <4>2
    <3>3. QED BY <3>1, <3>2
  <2>5. QED
    BY <1>1, <2>1, <2>3, <2>4 DEF TellsOne
<1>8. QED
  BY <1>5, <1>6, <1>7 DEF ToldInv

\* emitAgentStatusTransitions keeps ToldInv, and says of which agents it overtakes the
\* transitions that wait.
LEMMA EmitKeeps ==
  ASSUME Typed, ToldInv, NEW n \in Slots, run[n].stage # "statuses", NEW h \in Handlers, h.rest = {},
         NEW m \in AgentTable, \A a \in Agents : m[a].last = agents[a].last,
         NEW t, EmitStatuses(n, h, m, t)
  PROVE  /\ ToldInv' /\ agents' \in AgentTable
         /\ run' \in [Slots -> Handlers] /\ told' \in [Agents -> Statuses \cup {"none"}]
<1> DEFINE batch == Transitions(m, t)
           g == [h EXCEPT !.stage = "statuses"]
<1>1. /\ agents' = Evaluated(m, t) /\ TellStatus(n, g, batch)
      /\ overtaken' = overtaken \cup ({x[1] : x \in batch} \cap {x[1] : x \in Waiting})
  BY DEF EmitStatuses
<1>2. batch \in SUBSET Pairs /\ agents' \in AgentTable
  BY <1>1, Evaluation
<1>3. \A x \in batch : x[2] = agents'[x[1]].last
  BY <1>1, Evaluation
<1>4. \A a \in Agents : \/ <<a, agents'[a].last>> \in batch
                        \/ agents'[a].last = agents[a].last /\ \A x \in batch : x[1] # a
  BY <1>1, Evaluation
<1>5. g \in Handlers /\ g.stage = "statuses"
  BY HandlerStage
<1> HIDE DEF batch, g
<1>6. ASSUME NEW a \in Agents \ overtaken'
      PROVE  /\ \A k \in Slots \ {n}, s \in Statuses : Waits(k, a, s) => s = agents'[a].last
             /\ \A x \in batch : x[1] = a => x[2] = agents'[a].last
             /\ \/ told[a] = agents'[a].last \/ <<a, agents'[a].last>> \in batch
                \/ \E k \in Slots \ {n} : Waits(k, a, agents'[a].last)
  <2>1. a \notin overtaken
    BY <1>1, <1>6
  <2>2. ASSUME NEW k \in Slots, NEW s \in Statuses, Waits(k, a, s), NEW x \in batch, x[1] = a
        PROVE  FALSE
    <3>1. <<a, s>> \in Waiting
      BY <2>2 DEF Waiting, Waits
    <3>2. a \in {y[1] : y \in Waiting}
      BY <3>1
    <3>3. QED BY <1>1, <1>6, <2>2, <3>2
  <2>3. CASE \A x \in batch : x[1] # a
    <3>1. agents'[a].last = agents[a].last
      BY <1>4, <2>3
    <3>2. \A k \in Slots : Waits(k, a, agents[a].last) => k # n
      BY DEF Waits
    <3>3. QED BY <2>1, <2>3, <3>1, <3>2 DEF ToldInv
  <2>4. CASE \E x \in batch : x[1] = a
    <3>1. \A k \in Slots, s \in Statuses : ~Waits(k, a, s)
      BY <2>2, <2>4
    <3>2. <<a, agents'[a].last>> \in batch
      BY <1>4, <2>4
    <3>3. QED BY <1>3, <3>1, <3>2
  <2>5. QED BY <2>3, <2>4
<1>7. QED
  BY <1>1, <1>2, <1>5, <1>6, TellKeeps
-----------------------------------------------------------------------------
(* The other steps *)

\* A slot that tells no transition of its own takes another record that tells none.
LEMMA OthersKeepTold ==
  ASSUME Typed, ToldInv, UNCHANGED <<told, overtaken>>,
         agents' \in AgentTable, \A a \in Agents : agents'[a].last = agents[a].last,
         NEW n \in Slots, run[n].stage # "statuses" \/ run[n].rest = {},
         NEW r \in Handlers, run' = [run EXCEPT ![n] = r], r.stage # "statuses"
  PROVE  ToldInv'
<1>1. run'[n] = r /\ \A k \in Slots \ {n} : run'[k] = run[k]
  BY DEF Typed
<1>2. ASSUME NEW a \in Agents, NEW k \in Slots, NEW s
      PROVE  Waits(k, a, s)' <=> Waits(k, a, s)
  BY <1>1, <1>2 DEF Waits
<1>3. QED
  BY <1>2 DEF ToldInv

\* Nothing is told and nothing waits anew.
LEMMA NothingTold ==
  ASSUME ToldInv, UNCHANGED <<told, overtaken, run>>, \A a \in Agents : agents'[a].last = agents[a].last
  PROVE  ToldInv'
<1>1. ASSUME NEW a, NEW k \in Slots, NEW s
      PROVE  Waits(k, a, s)' <=> Waits(k, a, s)
  BY DEF Waits
<1>2. QED
  BY <1>1 DEF ToldInv

\* The children of the tracker after observeActivity.
LEMMA ObservedTable ==
  ASSUME NEW table \in SubTable, NEW s
  PROVE  /\ Observed(table, s) \in SubTable
         /\ \A c \in Children : /\ Observed(table, s)[c].registered = table[c].registered
                                /\ Observed(table, s)[c].ended = table[c].ended
BY DEF Observed, SubTable

\* An age that stops at a bound.
LEMMA MinOfTwo ==
  ASSUME NEW a \in Nat, NEW b \in Nat
  PROVE  Min({a, b}) \in Nat
<1>1. \E x \in {a, b} : \A y \in {a, b} : x <= y
  OBVIOUS
<1>2. Min({a, b}) \in {a, b}
  BY <1>1 DEF Min
<1>3. QED
  BY <1>2

\* emitAgentActivity up to its first await, from a slot whose first broadcast is done.
LEMMA ActivityKeeps ==
  ASSUME Typed, ToldInv, NEW n \in Slots, run[n].stage = "open", NEW table \in SubTable,
         NEW t, EmitActivity(n, table, t), UNCHANGED <<told, overtaken>>
  PROVE  /\ Typed' /\ ToldInv'
         /\ \A c \in Children : /\ subs'[c].registered = table[c].registered
                                /\ subs'[c].ended = table[c].ended
         /\ \A k \in Slots : run'[k].stage = "idles" => run'[k] = run[k]
<1>1. run[n] \in Handlers /\ run[n].rest = {}
  BY DEF Typed, Handlers
<1>2. CASE run[n].agent = NoAgent
  <2>1. run' = [run EXCEPT ![n] = Free] /\ subs' = table /\ UNCHANGED agents
    BY <1>2 DEF EmitActivity
  <2>2. run' \in [Slots -> Handlers] /\ run'[n] = Free /\ \A k \in Slots \ {n} : run'[k] = run[k]
    BY <2>1, FreeHandler DEF Typed
  <2>3. ToldInv'
    BY <1>1, <2>1, FreeHandler, OthersKeepTold DEF Typed
  <2>4. QED BY <2>1, <2>2, <2>3, FreeHandler DEF Typed
<1>3. CASE run[n].agent # NoAgent
  <2> DEFINE r == [run[n] EXCEPT !.stage = "acting"]
             a == run[n].agent
  <2>1. /\ run' = [run EXCEPT ![n] = r] /\ agents' = Marked(a, FALSE, FALSE)
        /\ subs' = Observed(table, run[n].session)
    BY <1>3 DEF EmitActivity
  <2>2. r \in Handlers /\ r.stage = "acting"
    BY <1>1, HandlerStage
  <2>3. a \in Agents
    BY <1>1, <1>3 DEF Handlers
  <2> HIDE DEF r, a
  <2>4. agents' \in AgentTable /\ \A b \in Agents : agents'[b].last = agents[b].last
    BY <2>1, <2>3, ZenonT(30) DEF Marked, Typed, AgentTable
  <2>5. run' \in [Slots -> Handlers] /\ run'[n] = r /\ \A k \in Slots \ {n} : run'[k] = run[k]
    BY <2>1, <2>2 DEF Typed
  <2>6. ToldInv'
    BY <1>1, <2>1, <2>2, <2>4, OthersKeepTold
  <2>7. /\ subs' \in SubTable
        /\ \A c \in Children : subs'[c].registered = table[c].registered /\ subs'[c].ended = table[c].ended
    BY <2>1, ObservedTable
  <2>8. QED BY <2>2, <2>4, <2>5, <2>6, <2>7 DEF Typed
<1>4. QED BY <1>2, <1>3

\* One child is told idle and the rest waits.
TellsIdle(n, h, batch, rest) ==
  /\ run' = [run EXCEPT ![n] = [h EXCEPT !.rest = rest]]
  /\ \/ mistold' = mistold
     \/ \E c \in batch : mistold' \subseteq mistold \cup {c} /\ (mistold' = mistold \/ c \in over \/ ~subs'[c].idle)

\* TellIdle, as one step of the loop.
LEMMA IdleSplit ==
  ASSUME NEW n, NEW h, NEW batch, TellIdle(n, h, batch)
  PROVE  \E rest \in SUBSET batch : TellsIdle(n, h, batch, rest)
<1>1. CASE batch = {}
  <2>1. TellsIdle(n, h, batch, {})
    BY <1>1 DEF TellIdle, TellsIdle
  <2>2. QED BY <2>1
<1>2. CASE batch # {}
  <2>1. PICK c \in batch :
          /\ mistold' = IF c \in over \/ ~subs'[c].idle THEN mistold \cup {c} ELSE mistold
          /\ run' = [run EXCEPT ![n] = [h EXCEPT !.rest = batch \ {c}]]
    BY <1>2 DEF TellIdle
  <2>2. mistold' \subseteq mistold \cup {c} /\ (mistold' = mistold \/ c \in over \/ ~subs'[c].idle)
    BY <2>1
  <2>3. TellsIdle(n, h, batch, batch \ {c})
    BY <2>1, <2>2 DEF TellsIdle
  <2>4. QED BY <2>3
<1>3. QED BY <1>1, <1>2

\* emitSubagentIdleTransitions up to its first await.
LEMMA IdlesKeep ==
  ASSUME Typed, ToldInv, IdleInv, NEW n \in Slots, run[n].rest = {},
         NEW h \in Handlers, h.rest = {}, EmitIdles(n, h),
         UNCHANGED <<agents, told, overtaken, over, lateSpawn>>
  PROVE  Typed' /\ ToldInv' /\ IdleInv'
<1> DEFINE batch == IdleTransitions
           g == [h EXCEPT !.stage = "idles"]
<1>1. /\ subs' = [c \in Children |-> IF c \in batch THEN [subs[c] EXCEPT !.idle = TRUE] ELSE subs[c]]
      /\ TellIdle(n, g, batch) /\ lateIdle' = lateIdle \cup run'[n].rest
  BY DEF EmitIdles
<1>2. g \in Handlers /\ g.stage = "idles"
  BY HandlerStage
<1>3. batch \subseteq Children
      /\ \A c \in batch : subs[c].registered /\ ~subs[c].ended
  BY DEF IdleTransitions
<1> HIDE DEF batch, g
<1>4. PICK rest \in SUBSET batch : TellsIdle(n, g, batch, rest)
  BY <1>1, IdleSplit
<1> DEFINE r == [g EXCEPT !.rest = rest]
<1>5. r \in Handlers /\ r.stage = "idles" /\ r.rest = rest
  BY <1>2, <1>3, HandlerRest
<1>6. run' = [run EXCEPT ![n] = r]
  BY <1>4 DEF TellsIdle
<1> HIDE DEF r
<1>7. run' \in [Slots -> Handlers] /\ run'[n] = r /\ \A k \in Slots \ {n} : run'[k] = run[k]
  BY <1>5, <1>6 DEF Typed
<1>8. /\ subs' \in SubTable
      /\ \A c \in Children : subs'[c].registered = subs[c].registered /\ subs'[c].ended = subs[c].ended
      /\ \A c \in batch : subs'[c].idle
  BY <1>1, <1>3 DEF Typed, SubTable
<1>9. ToldInv'
  BY <1>5, <1>6, OthersKeepTold DEF Typed
<1>10. mistold' \subseteq mistold \cup (over \cap batch)
  BY <1>4, <1>8 DEF TellsIdle
<1>11. over \cap batch \subseteq lateSpawn
  BY <1>3 DEF IdleInv
<1>12. IdleInv'
  BY <1>1, <1>5, <1>7, <1>8, <1>10, <1>11 DEF IdleInv
<1>13. QED
  BY <1>7, <1>8, <1>9, <1>12 DEF Typed

-----------------------------------------------------------------------------
(* Every step *)

\* All that is proved of the two loops and the tracker.
ActivityInv == Typed /\ ToldInv /\ IdleInv

\* A step that tells statuses leaves the children to themselves.
LEMMA ChildrenLeft ==
  ASSUME Typed, IdleInv, NEW n \in Slots, NEW r \in Handlers, r.stage # "idles",
         UNCHANGED <<subs, mistold, over, lateSpawn, lateIdle>>, run' = [run EXCEPT ![n] = r]
  PROVE  IdleInv'
<1>1. run'[n] = r /\ \A k \in Slots \ {n} : run'[k] = run[k]
  BY DEF Typed
<1>2. QED
  BY <1>1 DEF IdleInv

\* emitAgentStatusTransitions from a slot that tells nothing.
LEMMA StatusesStep ==
  ASSUME ActivityInv, NEW n \in Slots, run[n].stage # "statuses", NEW h \in Handlers, h.rest = {},
         NEW m \in AgentTable, \A a \in Agents : m[a].last = agents[a].last,
         NEW t, EmitStatuses(n, h, m, t), UNCHANGED <<subs, mistold, over, lateSpawn, lateIdle>>
  PROVE  ActivityInv'
<1>1. /\ ToldInv' /\ agents' \in AgentTable
      /\ run' \in [Slots -> Handlers] /\ told' \in [Agents -> Statuses \cup {"none"}]
  BY EmitKeeps DEF ActivityInv
<1> DEFINE g == [h EXCEPT !.stage = "statuses"]
<1>2. TellStatus(n, g, Transitions(m, t))
  BY DEF EmitStatuses
<1>3. g \in Handlers /\ g.stage = "statuses"
  BY HandlerStage
<1> HIDE DEF g
<1>4. PICK rest \in SUBSET Transitions(m, t) : TellsOne(n, g, Transitions(m, t), rest)
  BY <1>2, TellSplit
<1>5. rest \subseteq Pairs
  BY <1>4, Evaluation
<1>6. [g EXCEPT !.rest = rest] \in Handlers /\ [g EXCEPT !.rest = rest].stage = "statuses"
  BY <1>3, <1>5, HandlerRest
<1>7. run' = [run EXCEPT ![n] = [g EXCEPT !.rest = rest]]
  BY <1>4 DEF TellsOne
<1>8. IdleInv'
  BY <1>6, <1>7, ChildrenLeft DEF ActivityInv
<1>9. QED
  BY <1>1, <1>8 DEF ActivityInv, Typed

\* Every turn of a handler, of the timer or of the clock keeps what is proved.
LEMMA ActivityStep == ActivityInv /\ [Next]_vars => ActivityInv'
<1> SUFFICES ASSUME ActivityInv, [Next]_vars PROVE ActivityInv'
  OBVIOUS
<1>a. Typed /\ ToldInv /\ IdleInv
  BY DEF ActivityInv
<1>b. ASSUME NEW n \in Slots, run[n].stage \in {"free", "open", "acting"} \/ run[n].rest = {}
      PROVE  run[n] \in Handlers /\ run[n].rest = {}
  BY <1>a, <1>b DEF Typed, Handlers
<1>c. agents \in AgentTable /\ subs \in SubTable
  BY <1>a DEF Typed
\* The two activity steps that change the children.
<1>d. ASSUME NEW n \in Slots, run[n].stage = "open", NEW table \in SubTable, NEW t,
             EmitActivity(n, table, t), UNCHANGED <<told, overtaken, mistold, lateIdle>>,
             lateSpawn \subseteq lateSpawn',
             \A c \in Children : c \in over' /\ table[c].registered /\ ~table[c].ended => c \in lateSpawn'
      PROVE  ActivityInv'
  <2>1. /\ Typed' /\ ToldInv'
        /\ \A c \in Children : /\ subs'[c].registered = table[c].registered
                               /\ subs'[c].ended = table[c].ended
        /\ \A k \in Slots : run'[k].stage = "idles" => run'[k] = run[k]
    BY <1>a, <1>d, ActivityKeeps
  <2>2. IdleInv'
    BY <1>a, <1>d, <2>1 DEF IdleInv
  <2>3. QED BY <2>1, <2>2 DEF ActivityInv
<1>1. ASSUME NEW n \in Slots, NEW h \in Hooks, HookStarts(n, h) PROVE ActivityInv'
  <2> DEFINE r == [Free EXCEPT !.stage = "open", !.kind = h.kind, !.agent = h.agent,
                               !.session = h.session, !.child = h.child]
  <2>1. run' = [run EXCEPT ![n] = r] /\ run[n].stage = "free"
        /\ UNCHANGED <<agents, subs, told, overtaken, over, mistold, lateSpawn, lateIdle>>
    BY <1>1 DEF HookStarts, Opens, histories
  <2>2. /\ h.kind \in Kinds /\ h.agent \in Agents \cup {NoAgent}
        /\ h.session \in Sessions \cup {NoSession} /\ h.child \in Children \cup {NoSession}
    BY AgentActivityConstants DEF AHook, Kinds
  <2>3. r \in Handlers /\ r.stage = "open"
    BY <2>2 DEF Free, Handlers, Stages
  <2> HIDE DEF r
  <2>4. run' \in [Slots -> Handlers]
    BY <1>a, <2>1, <2>3 DEF Typed
  <2>5. ToldInv'
    BY <1>a, <1>c, <2>1, <2>3, OthersKeepTold
  <2>6. IdleInv'
    BY <1>a, <2>1, <2>3, ChildrenLeft
  <2>7. QED BY <1>a, <2>1, <2>4, <2>5, <2>6 DEF ActivityInv, Typed
<1>2. ASSUME NEW n \in Slots, ActivityOpened(n) PROVE ActivityInv'
  <2>1. run[n].stage = "open" /\ UNCHANGED <<over, mistold, lateSpawn, lateIdle>>
    BY <1>2 DEF ActivityOpened
  <2>2. CASE EmitStatuses(n, run[n], agents, age) /\ UNCHANGED <<subs, toldIdle>>
    BY <1>b, <1>c, <2>1, <2>2, StatusesStep
  <2>3. CASE EmitActivity(n, subs, age) /\ UNCHANGED <<told, overtaken>>
    BY <1>a, <1>c, <1>d, <2>1, <2>3 DEF IdleInv
  <2>4. QED BY <1>2, <2>2, <2>3 DEF ActivityOpened
<1>3. ASSUME NEW n \in Slots, SpawnOpened(n) PROVE ActivityInv'
  <2> DEFINE child == run[n].child
             table == Spawned(child)
  <2>1. /\ run[n].stage = "open" /\ EmitActivity(n, table, age)
        /\ lateSpawn' = IF child \in over THEN lateSpawn \cup {child} ELSE lateSpawn
        /\ UNCHANGED <<told, overtaken, over, mistold, lateIdle>>
    BY <1>3 DEF SpawnOpened
  <2>2. table \in SubTable /\ \A c \in Children \ {child} : table[c] = subs[c]
    BY <1>c DEF Spawned, SubTable
  <2> HIDE DEF table, child
  <2>3. \A c \in Children : c \in over' /\ table[c].registered /\ ~table[c].ended => c \in lateSpawn'
    BY <1>a, <2>1, <2>2 DEF IdleInv
  <2>4. QED BY <1>d, <2>1, <2>2, <2>3
<1>4. ASSUME NEW n \in Slots, EndOpened(n) PROVE ActivityInv'
  <2> DEFINE child == run[n].child
             table == Ended(child)
  <2>1. PICK t : EmitActivity(n, table, t)
    BY <1>4 DEF EndOpened
  <2>2. /\ run[n].stage = "open" /\ over' = over \cup {child}
        /\ UNCHANGED <<told, overtaken, mistold, lateSpawn, lateIdle>>
    BY <1>4 DEF EndOpened
  <2>3. table \in SubTable /\ (\A c \in Children \ {child} : table[c] = subs[c])
        /\ (child \in Children => table[child].registered = subs[child].registered
                                 /\ (subs[child].registered => table[child].ended))
    BY <1>c DEF Ended, SubTable
  <2> HIDE DEF table, child
  <2>4. \A c \in Children : c \in over' /\ table[c].registered /\ ~table[c].ended => c \in lateSpawn'
    BY <1>a, <2>2, <2>3 DEF IdleInv
  <2>5. QED BY <1>d, <2>1, <2>2, <2>3, <2>4
<1>5. ASSUME NEW n \in Slots, ErrorOpened(n) PROVE ActivityInv'
  <2>1. run[n].stage = "open" /\ UNCHANGED <<subs, over, mistold, lateSpawn, lateIdle>>
    BY <1>5 DEF ErrorOpened
  <2>2. CASE run[n].agent = NoAgent
    <3>1. run' = [run EXCEPT ![n] = Free] /\ UNCHANGED <<agents, told, overtaken>>
      BY <1>5, <2>2 DEF ErrorOpened
    <3>2. run' \in [Slots -> Handlers]
      BY <1>a, <3>1, FreeHandler DEF Typed
    <3>3. ToldInv' /\ IdleInv'
      BY <1>a, <1>c, <2>1, <3>1, FreeHandler, OthersKeepTold, ChildrenLeft
    <3>4. QED BY <1>a, <2>1, <3>1, <3>2, <3>3 DEF ActivityInv, Typed
  <2>3. CASE run[n].agent # NoAgent
    <3> DEFINE a == run[n].agent
    <3>1. PICK m \in {Marked(a, TRUE, agents[a].error), Marked(a, agents[a].offline, TRUE)} :
            EmitStatuses(n, run[n], m, age)
      BY <1>5, <2>3 DEF ErrorOpened
    <3>2. run[n] \in Handlers /\ run[n].rest = {}
      BY <1>b, <2>1
    <3>3. a \in Agents
      BY <2>3, <3>2 DEF Handlers
    <3> HIDE DEF a
    <3>4. m \in AgentTable /\ \A b \in Agents : m[b].last = agents[b].last
      <4>1. agents[a].error \in BOOLEAN /\ agents[a].offline \in BOOLEAN
        BY <1>c, <3>3 DEF AgentTable
      <4>2. ASSUME NEW offline \in BOOLEAN, NEW error \in BOOLEAN
            PROVE  /\ Marked(a, offline, error) \in AgentTable
                   /\ \A b \in Agents : Marked(a, offline, error)[b].last = agents[b].last
        <5> DEFINE e == [agents[a] EXCEPT !.known = TRUE, !.offline = offline, !.error = error]
        <5>1. /\ e \in [known : BOOLEAN, offline : BOOLEAN, error : BOOLEAN, last : Statuses \cup {"none"}]
              /\ e.last = agents[a].last
          BY <1>c, <3>3 DEF AgentTable
        <5>2. Marked(a, offline, error) = [agents EXCEPT ![a] = e]
          BY <1>c, <3>3 DEF Marked, AgentTable
        <5> HIDE DEF e
        <5>3. QED BY <1>c, <3>3, <5>1, <5>2 DEF AgentTable
      <4>3. CASE m = Marked(a, TRUE, agents[a].error)
        BY <4>1, <4>2, <4>3
      <4>4. CASE m = Marked(a, agents[a].offline, TRUE)
        BY <4>1, <4>2, <4>4
      <4>5. QED BY <3>1, <4>3, <4>4
    <3>5. QED BY <2>1, <3>1, <3>2, <3>4, StatusesStep
  <2>4. QED BY <2>2, <2>3
<1>6. ASSUME NEW n \in Slots, StopOpened(n) PROVE ActivityInv'
  <2> DEFINE m == [a \in Agents |-> [agents[a] EXCEPT !.offline = @ \/ agents[a].known]]
  <2>1. /\ run[n].stage = "open" /\ EmitStatuses(n, run[n], m, age)
        /\ UNCHANGED <<subs, over, mistold, lateSpawn, lateIdle>>
    BY <1>6 DEF StopOpened
  <2>2. m \in AgentTable /\ \A b \in Agents : m[b].last = agents[b].last
    BY <1>c DEF AgentTable
  <2> HIDE DEF m
  <2>3. QED BY <1>b, <2>1, <2>2, StatusesStep
<1>7. ASSUME NEW n \in Slots, Acted(n) PROVE ActivityInv'
  <2>1. /\ run[n].stage = "acting" /\ EmitStatuses(n, run[n], agents, age)
        /\ UNCHANGED <<subs, over, mistold, lateSpawn, lateIdle>>
    BY <1>7 DEF Acted
  <2>2. QED BY <1>b, <1>c, <2>1, StatusesStep
<1>8. ASSUME NEW n \in Slots, TimerStatuses(n) PROVE ActivityInv'
  <2> DEFINE h == [Free EXCEPT !.kind = "timer"]
  <2>1. /\ run[n].stage = "free" /\ EmitStatuses(n, h, agents, age)
        /\ UNCHANGED <<subs, over, mistold, lateSpawn, lateIdle>>
    BY <1>8 DEF TimerStatuses, Opens
  <2>2. h \in Handlers /\ h.rest = {}
    BY DEF Free, Handlers, Stages, Kinds
  <2> HIDE DEF h
  <2>3. QED BY <1>c, <2>1, <2>2, StatusesStep
<1>9. ASSUME NEW n \in Slots, TimerIdles(n) PROVE ActivityInv'
  <2> DEFINE h == [Free EXCEPT !.kind = "timer"]
  <2>1. /\ run[n].stage = "free" /\ EmitIdles(n, h)
        /\ UNCHANGED <<agents, told, overtaken, over, lateSpawn>>
    BY <1>9 DEF TimerIdles, Opens
  <2>2. h \in Handlers /\ h.rest = {}
    BY DEF Free, Handlers, Stages, Kinds
  <2> HIDE DEF h
  <2>3. QED BY <1>a, <1>b, <2>1, <2>2, IdlesKeep DEF ActivityInv
<1>10. ASSUME NEW n \in Slots, StatusTold(n) PROVE ActivityInv'
  <2>1. run[n].stage = "statuses" /\ UNCHANGED <<agents, overtaken, over, lateSpawn>>
    BY <1>10 DEF StatusTold
  <2>2. run[n] \in Handlers /\ run[n].rest \subseteq Pairs
    BY <1>a, <2>1 DEF Typed, Handlers
  <2>3. CASE run[n].rest # {} /\ TellStatus(n, run[n], run[n].rest)
             /\ UNCHANGED <<subs, toldIdle, mistold, lateIdle>>
    <3>1. ASSUME NEW a \in Agents \ overtaken
          PROVE  /\ \A k \in Slots \ {n}, s \in Statuses : Waits(k, a, s) => s = agents[a].last
                 /\ \A x \in run[n].rest : x[1] = a => x[2] = agents[a].last
                 /\ \/ told[a] = agents[a].last \/ <<a, agents[a].last>> \in run[n].rest
                    \/ \E k \in Slots \ {n} : Waits(k, a, agents[a].last)
      <4>1. \A x \in run[n].rest : x[1] = a => x[2] \in Statuses /\ Waits(n, a, x[2])
        BY <2>1, <2>2 DEF Waits, Pairs
      <4>2. Waits(n, a, agents[a].last) => <<a, agents[a].last>> \in run[n].rest
        BY DEF Waits
      <4>3. QED BY <1>a, <3>1, <4>1, <4>2 DEF ToldInv
    <3>2. ToldInv' /\ run' \in [Slots -> Handlers] /\ told' \in [Agents -> Statuses \cup {"none"}]
      BY <1>a, <1>c, <2>1, <2>2, <2>3, <3>1, TellKeeps
    <3>3. PICK rest \in SUBSET run[n].rest : TellsOne(n, run[n], run[n].rest, rest)
      BY <2>3, TellSplit
    <3>4. /\ [run[n] EXCEPT !.rest = rest] \in Handlers
          /\ [run[n] EXCEPT !.rest = rest].stage = "statuses"
      BY <2>1, <2>2, HandlerRest
    <3>5. run' = [run EXCEPT ![n] = [run[n] EXCEPT !.rest = rest]]
      BY <3>3 DEF TellsOne
    <3>6. IdleInv'
      BY <1>a, <2>1, <2>3, <3>4, <3>5, ChildrenLeft
    <3>7. QED BY <1>c, <2>1, <2>3, <3>2, <3>6 DEF ActivityInv, Typed
  <2>4. CASE run[n].rest = {} /\ EmitIdles(n, run[n]) /\ UNCHANGED told
    BY <1>a, <2>1, <2>2, <2>4, IdlesKeep DEF ActivityInv
  <2>5. CASE /\ run[n].rest = {} /\ run' = [run EXCEPT ![n] = Free]
             /\ UNCHANGED <<subs, told, toldIdle, mistold, lateIdle>>
    <3>1. run' \in [Slots -> Handlers]
      BY <1>a, <2>5, FreeHandler DEF Typed
    <3>2. ToldInv' /\ IdleInv'
      BY <1>a, <1>c, <2>1, <2>5, FreeHandler, OthersKeepTold, ChildrenLeft
    <3>3. QED BY <1>a, <2>1, <2>5, <3>1, <3>2 DEF ActivityInv, Typed
  <2>6. QED BY <1>10, <2>3, <2>4, <2>5 DEF StatusTold
<1>11. ASSUME NEW n \in Slots, IdleTold(n) PROVE ActivityInv'
  <2>1. run[n].stage = "idles" /\ UNCHANGED <<agents, subs, told, overtaken, over, lateSpawn, lateIdle>>
    BY <1>11 DEF IdleTold
  <2>2. run[n] \in Handlers /\ run[n].rest \subseteq Children /\ run[n].rest \subseteq lateIdle
    BY <1>a, <2>1 DEF Typed, Handlers, IdleInv
  <2>3. CASE TellIdle(n, run[n], run[n].rest)
    <3>1. PICK rest \in SUBSET run[n].rest : TellsIdle(n, run[n], run[n].rest, rest)
      BY <2>3, IdleSplit
    <3> DEFINE r == [run[n] EXCEPT !.rest = rest]
    <3>2. r \in Handlers /\ r.stage = "idles" /\ r.rest = rest
      BY <2>1, <2>2, HandlerRest
    <3>3. run' = [run EXCEPT ![n] = r]
      BY <3>1 DEF TellsIdle
    <3> HIDE DEF r
    <3>4. run' \in [Slots -> Handlers] /\ run'[n] = r /\ \A k \in Slots \ {n} : run'[k] = run[k]
      BY <1>a, <3>2, <3>3 DEF Typed
    <3>5. ToldInv'
      BY <1>a, <1>c, <2>1, <3>2, <3>3, OthersKeepTold
    <3>6. mistold' \subseteq mistold \cup run[n].rest
      BY <3>1 DEF TellsIdle
    <3>7. IdleInv'
      BY <1>a, <2>1, <2>2, <3>2, <3>4, <3>6 DEF IdleInv
    <3>8. QED BY <1>a, <2>1, <3>4, <3>5, <3>7 DEF ActivityInv, Typed
  <2>4. CASE run' = [run EXCEPT ![n] = Free] /\ UNCHANGED <<toldIdle, mistold>>
    <3>1. run' \in [Slots -> Handlers]
      BY <1>a, <2>4, FreeHandler DEF Typed
    <3>2. ToldInv' /\ IdleInv'
      BY <1>a, <1>c, <2>1, <2>4, FreeHandler, OthersKeepTold, ChildrenLeft
    <3>3. QED BY <1>a, <2>1, <3>1, <3>2 DEF ActivityInv, Typed
  <2>5. QED BY <1>11, <2>3, <2>4 DEF IdleTold
<1>12. CASE Tick
  <2>1. UNCHANGED <<agents, run, told, overtaken, over, mistold, lateSpawn, lateIdle>>
        /\ subs' = [c \in Children |-> [subs[c] EXCEPT !.age = Min({IdleWindow, @ + 1})]]
    BY <1>12 DEF Tick, histories
  <2>2. \A c \in Children : Min({IdleWindow, subs[c].age + 1}) \in Nat
    BY <1>c, AgentActivityConstants, MinOfTwo DEF SubTable
  <2>3. subs' \in SubTable
        /\ \A c \in Children : subs'[c].registered = subs[c].registered /\ subs'[c].ended = subs[c].ended
    BY <1>c, <2>1, <2>2 DEF SubTable
  <2>4. ToldInv'
    BY <1>a, <2>1, NothingTold
  <2>5. IdleInv'
    BY <1>a, <2>1, <2>3 DEF IdleInv
  <2>6. QED BY <1>a, <2>1, <2>3, <2>4, <2>5 DEF ActivityInv, Typed
<1>13. CASE UNCHANGED vars
  <2>1. UNCHANGED <<agents, subs, run, told, overtaken, over, mistold, lateSpawn, lateIdle>>
    BY <1>13 DEF vars, histories
  <2>2. ToldInv'
    BY <1>a, <2>1, NothingTold
  <2>3. QED BY <1>a, <2>1, <2>2 DEF ActivityInv, Typed, IdleInv
<1>14. QED
  BY <1>1, <1>2, <1>3, <1>4, <1>5, <1>6, <1>7, <1>8, <1>9, <1>10, <1>11, <1>12, <1>13 DEF Next, Step

\* Nothing is known, told or running at first.
LEMMA ActivityInit == Init => ActivityInv
<1> SUFFICES ASSUME Init PROVE ActivityInv
  OBVIOUS
<1>1. Typed
  BY FreeHandler DEF Init, Typed, AgentTable, SubTable
<1>2. ToldInv
  BY FreeHandler DEF Init, ToldInv, Waits
<1>3. IdleInv
  BY FreeHandler DEF Init, IdleInv
<1>4. QED BY <1>1, <1>2, <1>3 DEF ActivityInv

\* What is proved of the two loops holds throughout.
THEOREM ActivityInvariance == Spec => []ActivityInv
BY ActivityInit, ActivityStep, PTL DEF Spec

\* Clients end up with the status the reducer holds, unless an agent was evaluated
\* anew while an earlier transition of it waited (emitAgentStatusTransitions).
THEOREM StatusesTold == Spec => []ToldWhatHolds
<1>1. ActivityInv => ToldWhatHolds
  <2> SUFFICES ASSUME ActivityInv, NEW a \in Agents \ overtaken
               PROVE  LET toTell == {x[2] : x \in {y \in Waiting : y[1] = a}}
                      IN IF toTell = {} THEN told[a] = agents[a].last ELSE toTell = {agents[a].last}
    BY DEF ToldWhatHolds
  <2> DEFINE toTell == {x[2] : x \in {y \in Waiting : y[1] = a}}
  <2>1. \A s : s \in toTell => s \in Statuses /\ \E n \in Slots : Waits(n, a, s)
    BY DEF Waiting, Waits, ActivityInv, Typed, Handlers, Pairs
  <2>2. \A n \in Slots : Waits(n, a, agents[a].last) => agents[a].last \in toTell
    BY DEF Waiting, Waits
  <2>3. \A s \in toTell : s = agents[a].last
    BY <2>1 DEF ActivityInv, ToldInv
  <2>4. told[a] = agents[a].last \/ agents[a].last \in toTell
    BY <2>2 DEF ActivityInv, ToldInv
  <2>5. QED BY <2>3, <2>4
<1>2. QED
  BY <1>1, ActivityInvariance, PTL

\* A child is told idle only while it is neither over nor active again, but for a spawn
\* registered late and for a batch whose children waited (emitSubagentIdleTransitions).
THEOREM IdleTrue == Spec => []IdleIsIdle
<1>1. ActivityInv => IdleIsIdle
  BY DEF ActivityInv, IdleInv, IdleIsIdle
<1>2. QED
  BY <1>1, ActivityInvariance, PTL

-----------------------------------------------------------------------------
(* The loops over lists of items *)

Entry == [ev : Nat, n : 0..MaxAttempts]

\* No event is in the list twice.
Distinct(q) == \A j, k \in DOMAIN q : q[j].ev = q[k].ev => j = k

\* A list of distinct items whose events are among the first a.
Held(q, a) ==
  /\ q \in Seq(Entry) /\ Len(q) <= MaxSize /\ Distinct(q) /\ Events(q) \subseteq 1..a

\* A set of natural numbers has a least element.
LEMMA LeastElement == ASSUME NEW T, T \subseteq Nat, T # {} PROVE \E x \in T : \A y \in T : ~(y < x)
<1> DEFINE R == OpToRel(<, Nat)
<1>1. IsWellFoundedOn(R, Nat)
  BY NatLessThanWellFounded, Zenon
<1>2. \A x, y \in Nat : y < x => <<y, x>> \in R
  BY DEF OpToRel
<1>3. \E x \in T : \A y \in T : ~(<<y, x>> \in R)
  <2> HIDE DEF R
  <2> QED
    BY <1>1, WFMin
<1>4. QED
  BY <1>2, <1>3

\* Induction over the rounds of a loop.
LEMMA Rounds ==
  ASSUME NEW N \in Nat, NEW T, T \subseteq 0..N, 0 \in T, \A k \in T : k < N => k + 1 \in T
  PROVE  \A k \in 0..N : k \in T
<1> DEFINE U == {k \in 0..N : k \notin T}
<1>1. SUFFICES ASSUME U # {} PROVE FALSE
  OBVIOUS
<1>2. U \subseteq Nat
  OBVIOUS
<1>3. PICK x \in U : \A y \in U : ~(y < x)
  <2> HIDE DEF U
  <2> QED
    BY <1>1, <1>2, LeastElement
<1>4. x \in 0..N /\ x # 0 /\ x - 1 \in 0..N /\ x - 1 < x
  BY <1>3
<1>5. x - 1 \in T
  BY <1>3, <1>4
<1>6. QED
  BY <1>3, <1>4, <1>5

\* splice(x, 1) takes out the item at x, counted from 0, if there is one.
LEMMA Spliced ==
  ASSUME NEW q \in Seq(Entry), Distinct(q), NEW x \in Nat
  PROVE  LET r == Splice(x, q)
         IN /\ r \in Seq(Entry) /\ Distinct(r)
            /\ x >= Len(q) => r = q
            /\ x < Len(q) => /\ Len(r) = Len(q) - 1 /\ \A k \in 1..x : r[k] = q[k]
                             /\ Events(r) = Events(q) \ {q[x + 1].ev}
<1> DEFINE r == Splice(x, q)
<1>0. Len(q) \in Nat /\ DOMAIN q = 1..Len(q)
  OBVIOUS
<1>1. CASE x >= Len(q)
  <2>1. ~(x < Len(q))
    BY <1>0, <1>1
  <2>2. r = q
    BY <2>1 DEF Splice
  <2> HIDE DEF r
  <2>3. QED
    BY <2>1, <2>2 DEF r
<1>2. CASE x < Len(q)
  <2> DEFINE s == SubSeq(q, 1, x)
             t == SubSeq(q, x + 2, Len(q))
             y == Len(q)
  <2>1. s \in Seq(Entry) /\ Len(s) = x /\ \A k \in 1..x : s[k] = q[k]
    BY <1>0, <1>2
  <2>2. t \in Seq(Entry) /\ Len(t) = Len(q) - (x + 1) /\ \A k \in 1..Len(t) : t[k] = q[k + (x + 1)]
    <3> DEFINE a == x + 2
               n == Len(q)
    <3>1. a \in Int /\ n \in Int /\ \A k \in a..n : q[k] \in Entry
      BY <1>0
    <3> HIDE DEF a, n, t
    <3>2. /\ SubSeq(q, a, n) \in Seq(Entry)
          /\ Len(SubSeq(q, a, n)) = IF a <= n THEN n - a + 1 ELSE 0
          /\ \A k \in 1..n - a + 1 : SubSeq(q, a, n)[k] = q[a + k - 1]
      BY <3>1, SubSeqProperties
    <3>3. t = SubSeq(q, a, n)
      BY DEF t, a, n
    <3>4. n - a + 1 = Len(q) - (x + 1) /\ (IF a <= n THEN n - a + 1 ELSE 0) = Len(q) - (x + 1)
      <4>1. n \in Nat /\ x < n /\ a = x + 2
        BY <1>0, <1>2 DEF a, n
      <4>2. n - a + 1 = n - (x + 1) /\ (IF a <= n THEN n - a + 1 ELSE 0) = n - (x + 1)
        BY <4>1
      <4>3. QED
        BY <4>2 DEF n
    <3>5. \A k \in 1..Len(q) - (x + 1) : a + k - 1 = k + (x + 1)
      BY <1>0 DEF a
    <3> HIDE DEF a, n
    <3>6. QED
      BY <3>2, <3>3, <3>4, <3>5
  <2>3. r = s \o t
    BY <1>2 DEF Splice
  <2> HIDE DEF s, t, r
  <2>a. /\ r \in Seq(Entry) /\ Len(r) = Len(s) + Len(t)
        /\ \A k \in 1..Len(s) + Len(t) : r[k] = IF k <= Len(s) THEN s[k] ELSE t[k - Len(s)]
    BY <2>1, <2>2, <2>3, ConcatProperties
  <2>4. r \in Seq(Entry) /\ Len(r) = Len(q) - 1 /\ DOMAIN r = 1..Len(r)
    <3>1. Len(r) = Len(q) - 1
      BY <1>0, <2>1, <2>2, <2>a
    <3>2. QED
      BY <2>a, <3>1
  <2>5. \A k \in 1..x : k \in 1..Len(r) /\ r[k] = q[k]
    <3>1. ASSUME NEW k \in 1..x PROVE k \in 1..Len(r) /\ r[k] = q[k]
      <4>1. k \in 1..Len(r) /\ k <= Len(s) /\ k \in 1..Len(s) + Len(t)
        BY <1>0, <1>2, <2>1, <2>2, <2>4, <2>a
      <4>2. QED
        BY <2>1, <2>a, <4>1
    <3>2. QED
      BY <3>1
  <2>6. \A k \in 1..Len(r) : k > x => r[k] = q[k + 1]
    <3>1. ASSUME NEW k \in 1..Len(r), k > x PROVE r[k] = q[k + 1]
      <4>1. k - x \in 1..Len(t) /\ (k - x) + (x + 1) = k + 1
        BY <1>0, <1>2, <2>2, <2>4, <3>1
      <4>2. ~(k <= Len(s)) /\ k \in 1..Len(s) + Len(t)
        BY <1>0, <2>1, <2>4, <2>a, <3>1
      <4>a. r[k] = t[k - x]
        BY <2>1, <2>a, <4>2
      <4>3. QED
        BY <2>2, <4>1, <4>a
    <3>2. QED
      BY <3>1
  <2>7. Distinct(r)
    <3>1. ASSUME NEW j \in DOMAIN r, NEW k \in DOMAIN r, r[j].ev = r[k].ev PROVE j = k
      <4>1. \A m \in 1..Len(r) : m \in DOMAIN q /\ m + 1 \in DOMAIN q
        BY <1>0, <2>4
      <4>2. j \in 1..Len(r) /\ k \in 1..Len(r) /\ j \in Nat /\ k \in Nat
        BY <2>4
      <4>3. \E m \in DOMAIN q : r[j] = q[m] /\ m = (IF j > x THEN j + 1 ELSE j)
        BY <2>5, <2>6, <4>1, <4>2
      <4>4. \E m \in DOMAIN q : r[k] = q[m] /\ m = (IF k > x THEN k + 1 ELSE k)
        BY <2>5, <2>6, <4>1, <4>2
      <4>5. (IF j > x THEN j + 1 ELSE j) = (IF k > x THEN k + 1 ELSE k)
        BY <3>1, <4>3, <4>4 DEF Distinct
      <4>6. QED
        BY <4>2, <4>5
    <3>2. QED
      BY <3>1 DEF Distinct
  <2>8. x + 1 \in DOMAIN q
    BY <1>0, <1>2
  <2>9. Events(r) = Events(q) \ {q[x + 1].ev}
    <3>1. ASSUME NEW k \in DOMAIN r PROVE r[k].ev \in Events(q) /\ r[k].ev # q[x + 1].ev
      <4>1. CASE k > x
        <5>1. r[k] = q[k + 1] /\ k + 1 \in DOMAIN q /\ k + 1 # x + 1
          BY <1>0, <2>4, <2>6, <4>1
        <5>2. QED
          BY <2>8, <5>1 DEF Distinct, Events
      <4>2. CASE ~(k > x)
        <5>1. r[k] = q[k] /\ k \in DOMAIN q /\ k # x + 1
          BY <1>0, <2>4, <2>5, <4>2
        <5>2. QED
          BY <2>8, <5>1 DEF Distinct, Events
      <4>3. QED
        BY <4>1, <4>2
    <3>2. ASSUME NEW m \in DOMAIN q, q[m].ev # q[x + 1].ev PROVE \E k \in DOMAIN r : r[k].ev = q[m].ev
      <4>1. m # x + 1 /\ m \in 1..Len(q)
        BY <1>0, <3>2
      <4>2. CASE m <= x
        BY <2>4, <2>5, <4>1, <4>2
      <4>3. CASE m > x
        <5>1. m - 1 \in 1..Len(r) /\ m - 1 > x /\ (m - 1) + 1 = m
          BY <1>0, <2>4, <4>1, <4>3
        <5>2. QED
          BY <2>4, <2>6, <5>1
      <4>4. QED
        BY <4>1, <4>2, <4>3
    <3>3. QED
      BY <3>1, <3>2 DEF Events
  <2>10. QED
    BY <1>0, <1>2, <2>4, <2>5, <2>7, <2>9 DEF r
<1>3. x >= Len(q) \/ x < Len(q)
  BY <1>0
<1>4. QED
  BY <1>1, <1>2, <1>3

\* List g[k] is q after k rounds of the removal loop.
Splices(g, indices, q) ==
  /\ g[0] = q
  /\ \A k \in 1..Len(indices) : g[k] = Splice(indices[Len(indices) + 1 - k], g[k - 1])

\* The removal loop of flush is defined.
LEMMA RemovedLoop ==
  ASSUME NEW indices \in Seq(Nat), NEW q
  PROVE  \E g : Splices(g, indices, q) /\ Removed(indices, q) = g[Len(indices)]
<1> DEFINE N == Len(indices)
           Up(f, n) == f = [k \in 0..n |-> IF k = 0 THEN q ELSE Splice(indices[N + 1 - k], f[k - 1])]
           loop == CHOOSE f : f = [k \in 0..N |-> IF k = 0 THEN q ELSE Splice(indices[N + 1 - k], f[k - 1])]
<1>0. N \in Nat
  OBVIOUS
<1>a. Removed(indices, q) = loop[N]
  BY DEF Removed
<1> HIDE DEF N
<1>1. \E f : Up(f, N)
  <2> DEFINE T == {n \in 0..N : \E f : Up(f, n)}
  <2>1. 0 \in T
    <3> DEFINE f == [k \in 0..0 |-> q]
    <3>1. Up(f, 0)
      OBVIOUS
    <3>2. 0 \in 0..N
      BY <1>0
    <3> HIDE DEF f, Up
    <3>3. QED
      BY <3>1, <3>2
  <2>2. ASSUME NEW m \in T, m < N PROVE m + 1 \in T
    <3>1. PICK f : Up(f, m)
      BY <2>2
    <3> DEFINE g == [k \in 0..m + 1 |-> IF k = m + 1 THEN Splice(indices[N + 1 - k], f[m]) ELSE f[k]]
    <3>2. m \in 0..N
      BY <2>2
    <3>3. ASSUME NEW k \in 0..m + 1
          PROVE  g[k] = IF k = 0 THEN q ELSE Splice(indices[N + 1 - k], g[k - 1])
      BY <1>0, <3>1, <3>2, <3>3
    <3>4. Up(g, m + 1)
      BY <3>3
    <3>5. m + 1 \in 0..N
      BY <1>0, <2>2, <3>2
    <3>6. QED
      BY <3>4, <3>5
  <2>3. \A k \in 0..N : k \in T
    <3>1. T \subseteq 0..N
      OBVIOUS
    <3> HIDE DEF T
    <3>2. QED
      BY <1>0, <2>1, <2>2, <3>1, Rounds
  <2> HIDE DEF Up
  <2>4. QED
    BY <1>0, <2>3
<1>2. Up(loop, N)
  BY <1>1
<1>3. loop[0] = q /\ \A k \in 1..N : loop[k] = Splice(indices[N + 1 - k], loop[k - 1])
  <2> HIDE DEF loop
  <2> QED
    BY <1>0, <1>2
<1>4. Splices(loop, indices, q)
  <2> HIDE DEF loop
  <2> QED
    BY <1>3 DEF N, Splices
<1>5. QED
  <2> HIDE DEF loop
  <2> QED
    BY <1>a, <1>4 DEF N

\* Whatever indices are spliced out, what remains was in the list.
LEMMA RemovedSound ==
  ASSUME NEW indices \in Seq(Nat), NEW q \in Seq(Entry), Distinct(q)
  PROVE  LET r == Removed(indices, q)
         IN r \in Seq(Entry) /\ Distinct(r) /\ Len(r) <= Len(q) /\ Events(r) \subseteq Events(q)
<1> DEFINE N == Len(indices)
           Sound(s) == s \in Seq(Entry) /\ Distinct(s) /\ Len(s) <= Len(q) /\ Events(s) \subseteq Events(q)
<1>0. N \in Nat /\ \A k \in 1..N : indices[k] \in Nat
  OBVIOUS
<1>a. PICK g : Splices(g, indices, q) /\ Removed(indices, q) = g[Len(indices)]
  BY RemovedLoop
<1>1. /\ g[0] = q /\ Removed(indices, q) = g[N]
      /\ \A k \in 1..N : g[k] = Splice(indices[N + 1 - k], g[k - 1])
  BY <1>a DEF Splices
<1> HIDE DEF N
<1> DEFINE T == {n \in 0..N : Sound(g[n])}
<1>2. 0 \in T
  <2>1. Sound(q)
    OBVIOUS
  <2>2. QED
    BY <1>0, <1>1, <2>1
<1>3. ASSUME NEW n \in T, n < N PROVE n + 1 \in T
  <2>1. n \in 0..N /\ n + 1 \in 1..N /\ n + 1 \in 0..N /\ N + 1 - (n + 1) \in 1..N /\ (n + 1) - 1 = n
    BY <1>0, <1>3
  <2>2. PICK x \in Nat : g[n + 1] = Splice(x, g[n])
    BY <1>0, <1>1, <2>1
  <2>3. Sound(g[n])
    BY <1>3
  <2> DEFINE s == g[n]
             r == Splice(x, s)
  <2>4. /\ r \in Seq(Entry) /\ Distinct(r)
        /\ x >= Len(s) => r = s
        /\ x < Len(s) => Len(r) = Len(s) - 1 /\ Events(r) = Events(s) \ {s[x + 1].ev}
    BY <2>3, Spliced
  <2>5. s \in Seq(Entry) /\ Distinct(s) /\ Len(s) <= Len(q) /\ Events(s) \subseteq Events(q)
    BY <2>3
  <2>a. g[n + 1] = r
    BY <2>2
  <2>b. Sound(s)
    BY <2>3
  <2> HIDE DEF s, r, Sound
  <2>6. CASE x >= Len(s)
    BY <2>1, <2>4, <2>6, <2>a, <2>b
  <2>7. CASE x < Len(s)
    <3>1. Len(s) \in Nat /\ Len(q) \in Nat
      BY <2>5
    <3>2. Len(r) <= Len(q)
      BY <2>4, <2>5, <2>7, <3>1
    <3>3. Events(r) \subseteq Events(q)
      BY <2>4, <2>5, <2>7
    <3>4. Sound(r)
      BY <2>4, <3>2, <3>3 DEF Sound
    <3>5. QED
      BY <2>1, <2>a, <3>4
  <2>8. x >= Len(s) \/ x < Len(s)
    BY <2>5
  <2>9. QED
    BY <2>6, <2>7, <2>8
<1>4. \A n \in 0..N : n \in T
  <2>1. T \subseteq 0..N
    OBVIOUS
  <2> HIDE DEF T
  <2>2. QED
    BY <1>0, <1>2, <1>3, <2>1, Rounds
<1>5. QED
  BY <1>0, <1>1, <1>4

\* Ascending indices of the list are removed exactly: an item goes if its index is among them.
LEMMA RemovedExact ==
  ASSUME NEW indices \in Seq(Nat), NEW q \in Seq(Entry), Distinct(q),
         \A j, k \in DOMAIN indices : j < k => indices[j] < indices[k],
         \A j \in DOMAIN indices : indices[j] < Len(q)
  PROVE  \A k \in DOMAIN q :
           q[k].ev \in Events(Removed(indices, q)) <=> \A m \in DOMAIN indices : indices[m] # k - 1
<1> DEFINE N == Len(indices)
<1>0. /\ N \in Nat /\ DOMAIN indices = 1..N /\ \A k \in 1..N : indices[k] \in Nat
      /\ Len(q) \in Nat /\ DOMAIN q = 1..Len(q)
  OBVIOUS
<1>a. PICK g : Splices(g, indices, q) /\ Removed(indices, q) = g[Len(indices)]
  BY RemovedLoop
<1>1. /\ g[0] = q /\ Removed(indices, q) = g[N]
      /\ \A k \in 1..N : g[k] = Splice(indices[N + 1 - k], g[k - 1])
  BY <1>a DEF Splices
<1> HIDE DEF N
<1> DEFINE Out(k, n) == \E m \in 1..N : m > N - n /\ indices[m] = k - 1
           Kept(n) == /\ g[n] \in Seq(Entry) /\ Distinct(g[n])
                      /\ n < N => /\ indices[N - n] < Len(g[n])
                                  /\ \A k \in 1..indices[N - n] + 1 : g[n][k] = q[k]
                      /\ \A k \in DOMAIN q : q[k].ev \in Events(g[n]) <=> ~Out(k, n)
           T == {n \in 0..N : Kept(n)}
<1>2. 0 \in T
  <2>1. \A k \in DOMAIN q : ~Out(k, 0)
    BY <1>0
  <2>2. 0 < N => indices[N - 0] < Len(q)
    BY <1>0
  <2>3. \A k \in DOMAIN q : q[k].ev \in Events(q)
    BY DEF Events
  <2> HIDE DEF Out
  <2>4. Kept(0)
    BY <1>1, <2>1, <2>2, <2>3
  <2> HIDE DEF Kept
  <2>5. QED
    BY <1>0, <2>4
<1>3. ASSUME NEW n \in T, n < N PROVE n + 1 \in T
  <2> DEFINE x == indices[N - n]
             s == g[n]
             r == g[n + 1]
  <2>1. /\ n \in 0..N /\ n + 1 \in 1..N /\ n + 1 \in 0..N /\ N - n \in 1..N
        /\ N + 1 - (n + 1) = N - n /\ (n + 1) - 1 = n
    BY <1>0, <1>3
  <2>2. r = Splice(x, s) /\ x \in Nat
    BY <1>0, <1>1, <2>1
  <2>3. /\ s \in Seq(Entry) /\ Distinct(s) /\ x < Len(s) /\ \A k \in 1..x + 1 : s[k] = q[k]
        /\ \A k \in DOMAIN q : q[k].ev \in Events(s) <=> ~Out(k, n)
    BY <1>3
  <2>4. /\ r \in Seq(Entry) /\ Distinct(r) /\ Len(r) = Len(s) - 1
        /\ \A k \in 1..x : r[k] = s[k]
        /\ Events(r) = Events(s) \ {s[x + 1].ev}
    <3> HIDE DEF x, s, r
    <3>1. QED
      BY <2>2, <2>3, Spliced
  <2>5. x + 1 \in DOMAIN q /\ s[x + 1] = q[x + 1]
    <3>1. x < Len(q)
      BY <1>0, <2>1
    <3>2. x + 1 \in 1..x + 1 /\ x + 1 \in 1..Len(q)
      BY <1>0, <2>2, <3>1
    <3> HIDE DEF x, s
    <3>3. QED
      BY <1>0, <2>3, <3>2
  <2>6. n + 1 < N => /\ indices[N - (n + 1)] < Len(r)
                     /\ \A k \in 1..indices[N - (n + 1)] + 1 : r[k] = q[k]
    <3>1. ASSUME n + 1 < N
          PROVE  /\ indices[N - (n + 1)] < Len(r)
                 /\ \A k \in 1..indices[N - (n + 1)] + 1 : r[k] = q[k]
      <4> DEFINE y == indices[N - (n + 1)]
      <4>1. N - (n + 1) \in 1..N /\ N - (n + 1) < N - n
        BY <1>0, <2>1, <3>1
      <4>2. y < x /\ y \in Nat
        BY <1>0, <2>1, <4>1
      <4>3. Len(s) \in Nat
        BY <2>3
      <4> HIDE DEF x, y, s, r
      <4>4. y < Len(r)
        BY <2>2, <2>3, <2>4, <4>2, <4>3
      <4>5. \A k \in 1..y + 1 : k \in 1..x /\ k \in 1..x + 1
        BY <2>2, <4>2
      <4>6. \A k \in 1..y + 1 : r[k] = q[k]
        BY <2>3, <2>4, <4>5
      <4>7. QED
        BY <4>4, <4>6 DEF y, r
    <3>2. QED
      BY <3>1
  <2>7. ASSUME NEW k \in DOMAIN q PROVE q[k].ev \in Events(r) <=> ~Out(k, n + 1)
    <3>1. Out(k, n + 1) <=> Out(k, n) \/ x = k - 1
      <4>1. \A m \in 1..N : m > N - (n + 1) <=> m > N - n \/ m = N - n
        BY <1>0, <2>1
      <4>2. QED
        BY <2>1, <4>1
    <3> HIDE DEF Out, x, s, r
    <3>2. q[k].ev = q[x + 1].ev <=> k = x + 1
      BY <2>5 DEF Distinct
    <3>3. k = x + 1 <=> x = k - 1
      BY <1>0, <2>2
    <3>4. QED
      BY <2>3, <2>4, <2>5, <3>1, <3>2, <3>3
  <2>8. Kept(n + 1)
    <3> HIDE DEF Out
    <3> QED
      BY <2>4, <2>6, <2>7
  <2> HIDE DEF Kept
  <2>9. QED
    BY <2>1, <2>8
<1>4. \A n \in 0..N : n \in T
  <2>1. T \subseteq 0..N
    OBVIOUS
  <2> HIDE DEF T
  <2>2. QED
    BY <1>0, <1>2, <1>3, <2>1, Rounds
<1>5. Kept(N)
  <2> HIDE DEF Kept
  <2> QED
    BY <1>0, <1>4
<1>6. \A k \in DOMAIN q : Out(k, N) <=> \E m \in 1..N : indices[m] = k - 1
  BY <1>0
<1> HIDE DEF Out
<1>7. QED
  BY <1>0, <1>1, <1>5, <1>6

\* An item whose event is not in the list yet goes to its end.
LEMMA Pushed ==
  ASSUME NEW q \in Seq(Entry), Distinct(q), NEW e \in Entry, e.ev \notin Events(q)
  PROVE  LET r == Append(q, e)
         IN /\ r \in Seq(Entry) /\ Distinct(r) /\ Len(r) = Len(q) + 1
            /\ Events(r) = Events(q) \cup {e.ev}
            /\ \A k \in 1..Len(q) : r[k] = q[k]
            /\ r[Len(q) + 1] = e
<1> DEFINE r == Append(q, e)
<1>0. Len(q) \in Nat /\ DOMAIN q = 1..Len(q)
  OBVIOUS
<1>1. /\ r \in Seq(Entry) /\ Len(r) = Len(q) + 1 /\ r[Len(q) + 1] = e
      /\ \A k \in 1..Len(q) : r[k] = q[k]
  OBVIOUS
<1>2. DOMAIN r = 1..Len(q) + 1
  BY <1>1
<1> HIDE DEF r
<1>3. \A k \in DOMAIN r : (k \in DOMAIN q /\ r[k] = q[k]) \/ k = Len(q) + 1
  BY <1>0, <1>1, <1>2
<1>4. Events(r) = Events(q) \cup {e.ev}
  <2>1. \A k \in DOMAIN r : r[k].ev \in Events(q) \cup {e.ev}
    BY <1>1, <1>3 DEF Events
  <2>2. \A k \in DOMAIN q : k \in DOMAIN r /\ r[k] = q[k]
    BY <1>0, <1>1, <1>2
  <2>3. Len(q) + 1 \in DOMAIN r
    BY <1>0, <1>2
  <2>4. QED
    BY <1>1, <2>1, <2>2, <2>3 DEF Events
<1>5. Distinct(r)
  <2>1. ASSUME NEW j \in DOMAIN r, NEW k \in DOMAIN r, r[j].ev = r[k].ev PROVE j = k
    <3>1. \A m \in DOMAIN q : q[m].ev # e.ev
      BY DEF Events
    <3>2. QED
      BY <1>1, <1>3, <2>1, <3>1 DEF Distinct
  <2>2. QED
    BY <2>1 DEF Distinct
<1>6. QED
  BY <1>1, <1>4, <1>5 DEF r

\* The first m items of a list, and the others.
LEMMA Sliced ==
  ASSUME NEW q \in Seq(Entry), Distinct(q), NEW m \in 0..Len(q)
  PROVE  LET r == SubSeq(q, m + 1, Len(q))
         IN /\ r \in Seq(Entry) /\ Distinct(r) /\ Len(r) = Len(q) - m
            /\ Events(q) = Events(SubSeq(q, 1, m)) \cup Events(r)
            /\ m = 0 => r = q
<1> DEFINE r == SubSeq(q, m + 1, Len(q))
           s == SubSeq(q, 1, m)
<1>0. Len(q) \in Nat /\ DOMAIN q = 1..Len(q) /\ m \in Nat /\ m <= Len(q)
  OBVIOUS
<1>1. /\ r \in Seq(Entry) /\ Len(r) = Len(q) - m
      /\ \A k \in 1..Len(q) - m : r[k] = q[k + m]
  <2> DEFINE a == m + 1
             n == Len(q)
  <2>1. a \in Int /\ n \in Int /\ \A k \in a..n : q[k] \in Entry
    BY <1>0
  <2> HIDE DEF a, n, r
  <2>2. /\ SubSeq(q, a, n) \in Seq(Entry)
        /\ Len(SubSeq(q, a, n)) = IF a <= n THEN n - a + 1 ELSE 0
        /\ \A k \in 1..n - a + 1 : SubSeq(q, a, n)[k] = q[a + k - 1]
    BY <2>1, SubSeqProperties
  <2>3. r = SubSeq(q, a, n)
    BY DEF r, a, n
  <2>4. n - a + 1 = Len(q) - m /\ (IF a <= n THEN n - a + 1 ELSE 0) = Len(q) - m
    <3>1. n \in Nat /\ m \in Nat /\ m <= n /\ a = m + 1
      BY <1>0 DEF a, n
    <3>2. n - a + 1 = n - m /\ (IF a <= n THEN n - a + 1 ELSE 0) = n - m
      BY <3>1
    <3>3. QED
      BY <3>2 DEF n
  <2>5. \A k \in 1..Len(q) - m : a + k - 1 = k + m
    BY <1>0 DEF a
  <2>6. QED
    BY <2>2, <2>3, <2>4, <2>5
<1>2. s \in Seq(Entry) /\ Len(s) = m /\ \A k \in 1..m : s[k] = q[k]
  BY <1>0
<1>3. m = 0 => r = q
  BY <1>0, SubSeqFull
<1> HIDE DEF r, s
<1>4. DOMAIN r = 1..Len(q) - m /\ DOMAIN s = 1..m
  BY <1>1, <1>2
<1>5. \A k \in DOMAIN r : k + m \in DOMAIN q /\ r[k] = q[k + m]
  BY <1>0, <1>1, <1>4
<1>6. Distinct(r)
  <2>1. ASSUME NEW j \in DOMAIN r, NEW k \in DOMAIN r, r[j].ev = r[k].ev PROVE j = k
    <3>1. j + m = k + m
      BY <1>5, <2>1 DEF Distinct
    <3>2. QED
      BY <1>0, <1>4, <3>1
  <2>2. QED
    BY <2>1 DEF Distinct
<1>7. Events(q) = Events(s) \cup Events(r)
  <2>1. ASSUME NEW k \in DOMAIN q PROVE q[k].ev \in Events(s) \cup Events(r)
    <3>1. CASE k <= m
      <4>1. k \in DOMAIN s
        BY <1>0, <1>4, <3>1
      <4>2. QED
        BY <1>2, <1>4, <4>1 DEF Events
    <3>2. CASE k > m
      <4>1. k - m \in DOMAIN r /\ (k - m) + m = k
        BY <1>0, <1>4, <3>2
      <4>2. QED
        BY <1>5, <4>1 DEF Events
    <3>3. QED
      BY <1>0, <3>1, <3>2
  <2>2. \A k \in DOMAIN s : k \in DOMAIN q
    BY <1>0, <1>4
  <2>3. QED
    BY <1>2, <1>4, <1>5, <2>1, <2>2 DEF Events
<1>8. QED
  BY <1>1, <1>3, <1>6, <1>7 DEF r, s

\* The oldest item of a list is shifted off.
LEMMA Shifted ==
  ASSUME NEW q \in Seq(Entry), Distinct(q), q # <<>>
  PROVE  /\ Tail(q) \in Seq(Entry) /\ Distinct(Tail(q)) /\ Len(Tail(q)) = Len(q) - 1
         /\ Events(q) = {Head(q).ev} \cup Events(Tail(q))
<1> DEFINE r == Tail(q)
<1>0. Len(q) \in Nat /\ DOMAIN q = 1..Len(q) /\ Len(q) >= 1
  OBVIOUS
<1>1. /\ r \in Seq(Entry) /\ Len(r) = Len(q) - 1 /\ \A k \in 1..Len(r) : r[k] = q[k + 1]
      /\ Head(q) = q[1]
  BY HeadTailProperties
<1> HIDE DEF r
<1>2. DOMAIN r = 1..Len(q) - 1
  BY <1>1
<1>3. \A k \in DOMAIN r : k + 1 \in DOMAIN q /\ r[k] = q[k + 1]
  BY <1>0, <1>1, <1>2
<1>4. Distinct(r)
  <2>1. ASSUME NEW j \in DOMAIN r, NEW k \in DOMAIN r, r[j].ev = r[k].ev PROVE j = k
    <3>1. j + 1 = k + 1
      BY <1>3, <2>1 DEF Distinct
    <3>2. QED
      BY <1>0, <1>2, <3>1
  <2>2. QED
    BY <2>1 DEF Distinct
<1>5. Events(q) = {q[1].ev} \cup Events(r)
  <2>1. ASSUME NEW k \in DOMAIN q, k # 1 PROVE q[k].ev \in Events(r)
    <3>1. k - 1 \in DOMAIN r /\ (k - 1) + 1 = k
      BY <1>0, <1>2, <2>1
    <3>2. QED
      BY <1>3, <3>1 DEF Events
  <2>2. 1 \in DOMAIN q
    BY <1>0
  <2>3. QED
    BY <1>3, <2>1, <2>2 DEF Events
<1>6. QED
  BY <1>1, <1>4, <1>5 DEF r

\* An item is changed in place, its event is not.
LEMMA Retried ==
  ASSUME NEW q \in Seq(Entry), Distinct(q), NEW ev \in Nat, NEW n \in 0..MaxAttempts, n < MaxAttempts
  PROVE  LET r == [k \in DOMAIN q |-> IF q[k] = [ev |-> ev, n |-> n]
                                      THEN [ev |-> ev, n |-> n + 1] ELSE q[k]]
         IN /\ r \in Seq(Entry) /\ Distinct(r) /\ Len(r) = Len(q) /\ Events(r) = Events(q)
            /\ DOMAIN r = DOMAIN q /\ \A k \in DOMAIN q : r[k].ev = q[k].ev
<1> DEFINE e == [ev |-> ev, n |-> n + 1]
           d == [ev |-> ev, n |-> n]
           r == [k \in DOMAIN q |-> IF q[k] = d THEN e ELSE q[k]]
<1>0. Len(q) \in Nat /\ DOMAIN q = 1..Len(q) /\ MaxAttempts \in Nat
  BY QueueConstants
<1>1. e \in Entry /\ e.ev = ev /\ d.ev = ev
  BY <1>0 DEF Entry
<1> HIDE DEF e, d
<1>2. r \in Seq(Entry) /\ Len(r) = Len(q)
  <2>1. \A k \in 1..Len(q) : r[k] \in Entry
    BY <1>0, <1>1
  <2>2. r \in [1..Len(q) -> Entry]
    BY <1>0, <2>1
  <2> HIDE DEF r
  <2>3. QED
    BY <1>0, <2>2
<1>3. DOMAIN r = DOMAIN q /\ \A k \in DOMAIN q : r[k].ev = q[k].ev
  BY <1>1
<1> HIDE DEF r
<1>4. Distinct(r) /\ Events(r) = Events(q)
  BY <1>3 DEF Distinct, Events
<1>5. QED
  BY <1>2, <1>3, <1>4 DEF r, d, e

\* List g[k] is q after k rounds of the loop that merges items.
Pushes(g, q, items) ==
  /\ g[0] = q
  /\ \A k \in 1..Len(items) :
       g[k] = IF items[k].ev \in Events(q) THEN g[k - 1] ELSE Append(g[k - 1], items[k])

\* The loop of mergeRestoredQueue is defined.
LEMMA MergedLoop ==
  ASSUME NEW items \in Seq(Entry), NEW q
  PROVE  \E g : Pushes(g, q, items) /\ Merged(q, items) = g[Len(items)]
<1> DEFINE N == Len(items)
           Push(s, k) == IF items[k].ev \in Events(q) THEN s ELSE Append(s, items[k])
           Up(f, n) == f = [k \in 0..n |-> IF k = 0 THEN q ELSE Push(f[k - 1], k)]
           loop == CHOOSE f : f = [k \in 0..N |-> IF k = 0 THEN q ELSE Push(f[k - 1], k)]
<1>0. N \in Nat
  OBVIOUS
<1>a. Merged(q, items) = loop[N]
  BY DEF Merged
<1> HIDE DEF N, Push
<1>1. \E f : Up(f, N)
  <2> DEFINE T == {n \in 0..N : \E f : Up(f, n)}
  <2>1. 0 \in T
    <3> DEFINE f == [k \in 0..0 |-> q]
    <3>1. Up(f, 0)
      OBVIOUS
    <3>2. 0 \in 0..N
      BY <1>0
    <3> HIDE DEF f, Up
    <3>3. QED
      BY <3>1, <3>2
  <2>2. ASSUME NEW m \in T, m < N PROVE m + 1 \in T
    <3>1. PICK f : Up(f, m)
      BY <2>2
    <3> DEFINE g == [k \in 0..m + 1 |-> IF k = m + 1 THEN Push(f[m], k) ELSE f[k]]
    <3>2. m \in 0..N
      BY <2>2
    <3>3. ASSUME NEW k \in 0..m + 1
          PROVE  g[k] = IF k = 0 THEN q ELSE Push(g[k - 1], k)
      BY <1>0, <3>1, <3>2, <3>3
    <3>4. Up(g, m + 1)
      BY <3>3
    <3>5. m + 1 \in 0..N
      BY <1>0, <2>2, <3>2
    <3>6. QED
      BY <3>4, <3>5
  <2>3. \A k \in 0..N : k \in T
    <3>1. T \subseteq 0..N
      OBVIOUS
    <3> HIDE DEF T
    <3>2. QED
      BY <1>0, <2>1, <2>2, <3>1, Rounds
  <2> HIDE DEF Up
  <2>4. QED
    BY <1>0, <2>3
<1>2. Up(loop, N)
  BY <1>1
<1>3. loop[0] = q /\ \A k \in 1..N : loop[k] = Push(loop[k - 1], k)
  <2> HIDE DEF loop
  <2> QED
    BY <1>0, <1>2
<1>4. Pushes(loop, q, items)
  <2> HIDE DEF loop
  <2> QED
    BY <1>3 DEF N, Push, Pushes
<1>5. QED
  <2> HIDE DEF loop
  <2> QED
    BY <1>a, <1>4 DEF N

\* Merging adds at the end what was not in the list; an empty list becomes what was restored.
LEMMA MergedSound ==
  ASSUME NEW q \in Seq(Entry), Distinct(q), NEW items \in Seq(Entry), Distinct(items)
  PROVE  LET r == Merged(q, items)
         IN /\ r \in Seq(Entry) /\ Distinct(r) /\ Len(q) <= Len(r)
            /\ Events(r) = Events(q) \cup Events(items)
            /\ \A k \in 1..Len(q) : r[k] = q[k]
            /\ q = <<>> => r = items
<1> DEFINE N == Len(items)
<1>0. /\ N \in Nat /\ DOMAIN items = 1..N /\ Len(q) \in Nat /\ DOMAIN q = 1..Len(q)
      /\ \A k \in 1..N : items[k] \in Entry
  OBVIOUS
<1>a. PICK g : Pushes(g, q, items) /\ Merged(q, items) = g[Len(items)]
  BY MergedLoop
<1>1. /\ g[0] = q /\ Merged(q, items) = g[N]
      /\ \A k \in 1..N : g[k] = IF items[k].ev \in Events(q) THEN g[k - 1] ELSE Append(g[k - 1], items[k])
  BY <1>a DEF Pushes
<1> HIDE DEF N
<1> DEFINE First(n) == {items[m].ev : m \in 1..n}
           Grown(n) == /\ g[n] \in Seq(Entry) /\ Distinct(g[n]) /\ Len(q) <= Len(g[n])
                       /\ Events(g[n]) = Events(q) \cup First(n)
                       /\ \A k \in 1..Len(q) : g[n][k] = q[k]
                       /\ q = <<>> => Len(g[n]) = n /\ \A k \in 1..n : g[n][k] = items[k]
           T == {n \in 0..N : Grown(n)}
<1>2. 0 \in T
  <2>1. First(0) = {}
    OBVIOUS
  <2>2. q = <<>> => Len(q) = 0
    OBVIOUS
  <2> HIDE DEF First
  <2>3. Grown(0)
    BY <1>0, <1>1, <2>1, <2>2
  <2> HIDE DEF Grown
  <2>4. QED
    BY <1>0, <2>3
<1>3. ASSUME NEW n \in T, n < N PROVE n + 1 \in T
  <2> DEFINE e == items[n + 1]
             s == g[n]
             r == g[n + 1]
  <2>1. n \in 0..N /\ n + 1 \in 1..N /\ n + 1 \in 0..N /\ (n + 1) - 1 = n
    BY <1>0, <1>3
  <2>2. r = IF e.ev \in Events(q) THEN s ELSE Append(s, e)
    BY <1>1, <2>1
  <2>3. First(n + 1) = First(n) \cup {e.ev}
    <3>1. 1..n + 1 = 1..n \cup {n + 1}
      BY <2>1
    <3>2. QED
      BY <3>1
  <2>4. e.ev \notin First(n)
    <3>1. ASSUME NEW m \in 1..n PROVE items[m].ev # e.ev
      <4>1. m \in 1..N /\ m # n + 1
        BY <1>0, <2>1
      <4>2. QED
        BY <1>0, <2>1, <4>1 DEF Distinct
    <3>2. QED
      BY <3>1
  <2>5. e \in Entry
    BY <1>0, <2>1
  <2>6. /\ s \in Seq(Entry) /\ Distinct(s) /\ Len(q) <= Len(s)
        /\ Events(s) = Events(q) \cup First(n)
        /\ \A k \in 1..Len(q) : s[k] = q[k]
        /\ q = <<>> => Len(s) = n /\ \A k \in 1..n : s[k] = items[k]
    BY <1>3
  <2>7. q = <<>> => Events(q) = {}
    BY DEF Events
  <2> HIDE DEF First, e, s, r
  <2>8. CASE e.ev \in Events(q)
    <3>1. r = s /\ q # <<>> /\ Events(r) = Events(q) \cup First(n + 1)
      BY <2>2, <2>3, <2>6, <2>7, <2>8
    <3>2. Grown(n + 1)
      BY <2>6, <3>1 DEF r
    <3> HIDE DEF Grown
    <3>3. QED
      BY <2>1, <3>2
  <2>9. CASE e.ev \notin Events(q)
    <3>1. r = Append(s, e) /\ e.ev \notin Events(s)
      BY <2>2, <2>4, <2>6, <2>9
    <3>2. /\ r \in Seq(Entry) /\ Distinct(r) /\ Len(r) = Len(s) + 1
          /\ Events(r) = Events(s) \cup {e.ev}
          /\ \A k \in 1..Len(s) : r[k] = s[k]
          /\ r[Len(s) + 1] = e
      BY <2>5, <2>6, <3>1, Pushed
    <3>3. Len(q) <= Len(r) /\ \A k \in 1..Len(q) : r[k] = q[k]
      <4>1. Len(s) \in Nat
        BY <2>6
      <4>2. \A k \in 1..Len(q) : k \in 1..Len(s)
        BY <1>0, <2>6, <4>1
      <4>3. Len(q) <= Len(r)
        BY <1>0, <2>6, <3>2, <4>1
      <4>4. QED
        BY <2>6, <3>2, <4>2, <4>3
    <3>4. Events(r) = Events(q) \cup First(n + 1)
      BY <2>3, <2>6, <3>2
    <3>5. q = <<>> => Len(r) = n + 1 /\ \A k \in 1..n + 1 : r[k] = items[k]
      <4>1. SUFFICES ASSUME q = <<>> PROVE Len(r) = n + 1 /\ \A k \in 1..n + 1 : r[k] = items[k]
        OBVIOUS
      <4>2. Len(s) = n /\ \A k \in 1..n : s[k] = items[k]
        BY <2>6, <4>1
      <4>3. \A k \in 1..n + 1 : k \in 1..n \/ k = n + 1
        BY <2>1
      <4>4. QED
        BY <3>2, <4>2, <4>3 DEF e
    <3>6. Grown(n + 1)
      BY <3>2, <3>3, <3>4, <3>5 DEF r
    <3> HIDE DEF Grown
    <3>7. QED
      BY <2>1, <3>6
  <2>10. QED
    BY <2>8, <2>9
<1>4. \A n \in 0..N : n \in T
  <2>1. T \subseteq 0..N
    OBVIOUS
  <2> HIDE DEF T
  <2>2. QED
    BY <1>0, <1>2, <1>3, <2>1, Rounds
<1>5. Grown(N)
  <2> HIDE DEF Grown
  <2> QED
    BY <1>0, <1>4
<1>6. First(N) = Events(items)
  BY <1>0 DEF Events
<1>7. q = <<>> => g[N] = items
  <2>1. q = <<>> => Len(g[N]) = Len(items) /\ \A k \in 1..Len(items) : g[N][k] = items[k]
    BY <1>5 DEF N
  <2>2. g[N] \in Seq(Entry)
    BY <1>5
  <2>3. QED
    BY <2>1, <2>2, SeqEqual
<1> HIDE DEF First
<1>8. QED
  BY <1>1, <1>5, <1>6, <1>7

-----------------------------------------------------------------------------
(* The invariant *)

\* A delivery that is not answered.
Call == [at : Nat, ev : Nat, n : 0..MaxAttempts]

\* The values of the variables; the timers do not matter.
QueueTypes ==
  /\ persist \in BOOLEAN /\ early \in BOOLEAN /\ overrun \in BOOLEAN
  /\ accepted \in 0..MaxEvents /\ faults \in 0..MaxFaults
  /\ life \in [Instances -> {"new", "live", "stopped", "dead"}]
  /\ load \in [Instances -> {"none", "reading", "read"}]
  /\ flush \in [Instances -> {"idle", "batch", "saving"}]
  /\ queue \in [Instances -> Seq(Entry)] /\ restored \in [Instances -> Seq(Entry)]
  /\ chain \in [Instances -> Seq(Seq(Entry))] /\ left \in [Instances -> Nat]
  /\ base \in [Instances -> Nat] /\ toRemove \in [Instances -> Seq(Nat)]
  /\ waiting \in [Instances -> SUBSET Call]
  /\ got \in [Instances -> SUBSET Nat] /\ sent \in [Instances -> SUBSET Nat]
  /\ gone \in [Instances -> SUBSET Nat]
  /\ unsaved \in [Instances -> BOOLEAN] /\ disturbed \in [Instances -> BOOLEAN]

\* Instances are made one after the other, the next when its predecessor was stopped.
OneByOne ==
  \A i, j \in Instances : i < j /\ life[i] \in {"new", "live"} => life[j] = "new"

\* Every list of items is one the queue may be, and a batch has deliveries to wait for.
Bounded(i) ==
  /\ Held(queue[i], accepted) /\ Held(restored[i], accepted)
  /\ \A k \in DOMAIN chain[i] : Held(chain[i][k], accepted)
  /\ \A w \in waiting[i] : w.ev \in 1..accepted
  /\ left[i] <= Len(chain[i]) /\ (flush[i] = "batch" <=> waiting[i] # {})
  /\ got[i] \cup sent[i] \cup gone[i] \subseteq 1..accepted

\* An instance that was not made has done nothing.
Unmade(i) ==
  life[i] = "new" =>
    /\ load[i] = "none" /\ restored[i] = <<>> /\ queue[i] = <<>> /\ flush[i] = "idle"
    /\ chain[i] = <<>> /\ got[i] = {} /\ sent[i] = {} /\ ~unsaved[i]

\* A flush that nothing disturbs knows the places of what it waits for and of what it is
\* to remove, and removes in the order of the queue.
Aligned(i) ==
  life[i] = "live" /\ ~disturbed[i] /\ flush[i] = "batch" =>
    /\ \A r \in DOMAIN toRemove[i] :
         /\ toRemove[i][r] < Len(queue[i]) /\ toRemove[i][r] < base[i] + BatchSize
         /\ queue[i][toRemove[i][r] + 1].ev \in sent[i] \cup gone[i]
    /\ \A r, s \in DOMAIN toRemove[i] : r < s => toRemove[i][r] < toRemove[i][s]
    /\ \A w \in waiting[i] :
         /\ base[i] <= w.at /\ w.at < base[i] + BatchSize /\ w.at < Len(queue[i])
         /\ queue[i][w.at + 1].ev = w.ev
         /\ \A r \in DOMAIN toRemove[i] : toRemove[i][r] # w.at
    /\ \A w, x \in waiting[i] : w.at = x.at => w = x

\* What came and did not leave is in the queue.
NoneLost(i) ==
  life[i] = "live" /\ ~disturbed[i] => got[i] \subseteq Events(queue[i]) \cup sent[i] \cup gone[i]

\* What was delivered and is still in the queue is marked for removal.
SentMarked(i) ==
  life[i] = "live" /\ ~disturbed[i] /\ ~early =>
    \A k \in DOMAIN queue[i] :
      queue[i][k].ev \in sent[i] =>
        flush[i] = "batch" /\ \E r \in DOMAIN toRemove[i] : toRemove[i][r] = k - 1

\* A queue whose file is being loaded has done nothing, unless events came early.
Untouched(i) ==
  life[i] = "live" /\ load[i] # "none" /\ ~early =>
    /\ queue[i] = <<>> /\ sent[i] = {} /\ flush[i] = "idle" /\ chain[i] = <<>> /\ ~unsaved[i]
    /\ load[i] = "read" /\ ~overrun => restored[i] = disk

EventsOf(q) == [k \in DOMAIN q |-> q[k].ev]

\* The last snapshot, written or to be written, has the events of the queue.
Snapped(i) ==
  persist /\ life[i] = "live" /\ load[i] = "none" /\ ~early /\ ~overrun =>
    IF chain[i] # <<>> THEN EventsOf(chain[i][Len(chain[i])]) = EventsOf(queue[i])
    ELSE ~unsaved[i] => EventsOf(disk) = EventsOf(queue[i])

Sound(i) ==
  Bounded(i) /\ Unmade(i) /\ Aligned(i) /\ NoneLost(i) /\ SentMarked(i) /\ Untouched(i) /\ Snapped(i)

QueueInv == QueueTypes /\ OneByOne /\ Held(disk, accepted) /\ \A i \in Instances : Sound(i)

\* No answer is got without the HTTP client, so a flush that throws has nothing to remove.
ClientInv ==
  /\ client \in {"unknown", "loaded", "failed"}
  /\ \A i \in Instances : client # "loaded" \/ life[i] = "new" => toRemove[i] = <<>>

-----------------------------------------------------------------------------
(* Steps of other instances *)

\* A step that is not one of instance j leaves what belongs to it.
Apart(j) ==
  /\ life'[j] = life[j] /\ load'[j] = load[j] /\ flush'[j] = flush[j]
  /\ queue'[j] = queue[j] /\ restored'[j] = restored[j] /\ chain'[j] = chain[j]
  /\ left'[j] = left[j] /\ base'[j] = base[j] /\ toRemove'[j] = toRemove[j]
  /\ waiting'[j] = waiting[j] /\ got'[j] = got[j] /\ sent'[j] = sent[j]
  /\ gone'[j] = gone[j] /\ unsaved'[j] = unsaved[j] /\ disturbed'[j] = disturbed[j]

\* A list keeps its bounds when more events are accepted.
LEMMA HeldOn ==
  ASSUME NEW q, NEW a \in Nat, NEW b \in Nat, a <= b, Held(q, a)
  PROVE  Held(q, b)
<1>1. 1..a \subseteq 1..b
  OBVIOUS
<1>2. QED
  BY <1>1 DEF Held

\* What holds of an instance holds on, whatever the others do.
LEMMA OthersSound ==
  ASSUME QueueTypes, NEW j \in Instances, Sound(j), Apart(j), accepted' \in Nat, accepted <= accepted',
         persist' = persist, early => early', overrun => overrun',
         disk' = disk \/ (life[j] = "live" => overrun')
  PROVE  Sound(j)'
<1>1. Bounded(j)'
  <2>0. accepted \in Nat /\ 1..accepted \subseteq 1..accepted'
    BY DEF QueueTypes
  <2>1. Held(queue'[j], accepted') /\ Held(restored'[j], accepted')
    BY <2>0, HeldOn DEF Sound, Bounded, Apart
  <2>2. \A k \in DOMAIN chain'[j] : Held(chain'[j][k], accepted')
    BY <2>0, HeldOn DEF Sound, Bounded, Apart
  <2>3. /\ \A w \in waiting'[j] : w.ev \in 1..accepted'
        /\ left'[j] <= Len(chain'[j]) /\ (flush'[j] = "batch" <=> waiting'[j] # {})
        /\ got'[j] \cup sent'[j] \cup gone'[j] \subseteq 1..accepted'
    BY <2>0 DEF Sound, Bounded, Apart
  <2>4. QED
    BY <2>1, <2>2, <2>3 DEF Bounded, Held, Distinct, Events
<1>2. Unmade(j)'
  BY DEF Sound, Unmade, Apart
<1>3. Aligned(j)'
  BY DEF Sound, Aligned, Apart
<1>4. NoneLost(j)' /\ SentMarked(j)'
  BY DEF Sound, NoneLost, SentMarked, Apart, Events
<1>5. Untouched(j)' /\ Snapped(j)'
  BY DEF Sound, Untouched, Snapped, Apart, EventsOf
<1>6. QED
  BY <1>1, <1>2, <1>3, <1>4, <1>5 DEF Sound

-----------------------------------------------------------------------------
(* Construction, loading and shutdown *)

\* Nothing has happened yet.
LEMMA QueueInitInv == QueueInit => QueueInv
<1> SUFFICES ASSUME QueueInit PROVE QueueInv
  OBVIOUS
<1>1. Held(<<>>, 0) /\ Events(<<>>) = {}
  BY QueueConstants DEF Held, Distinct, Events
<1>2. QueueTypes
  <2>1. persist \in BOOLEAN /\ early \in BOOLEAN /\ overrun \in BOOLEAN
    BY QueueConstants DEF QueueInit
  <2>2. accepted \in 0..MaxEvents /\ faults \in 0..MaxFaults
    BY QueueConstants DEF QueueInit
  <2>3. \A S, x : x \in S => [i \in Instances |-> x] \in [Instances -> S]
    OBVIOUS
  <2>4. /\ \A S : <<>> \in Seq(S) /\ {} \in SUBSET S
        /\ 0 \in Nat /\ FALSE \in BOOLEAN
    OBVIOUS
  <2>5. /\ queue \in [Instances -> Seq(Entry)] /\ restored \in [Instances -> Seq(Entry)]
        /\ chain \in [Instances -> Seq(Seq(Entry))] /\ toRemove \in [Instances -> Seq(Nat)]
        /\ waiting \in [Instances -> SUBSET Call]
        /\ got \in [Instances -> SUBSET Nat] /\ sent \in [Instances -> SUBSET Nat]
        /\ gone \in [Instances -> SUBSET Nat]
    BY <2>3, <2>4 DEF QueueInit
  <2>6. /\ life \in [Instances -> {"new", "live", "stopped", "dead"}]
        /\ load \in [Instances -> {"none", "reading", "read"}]
        /\ flush \in [Instances -> {"idle", "batch", "saving"}]
        /\ left \in [Instances -> Nat] /\ base \in [Instances -> Nat]
        /\ unsaved \in [Instances -> BOOLEAN] /\ disturbed \in [Instances -> BOOLEAN]
    BY <2>3 DEF QueueInit
  <2>7. QED
    BY <2>1, <2>2, <2>5, <2>6 DEF QueueTypes
<1>3. OneByOne /\ Held(disk, accepted)
  BY <1>1 DEF QueueInit, OneByOne
<1>4. ASSUME NEW i \in Instances PROVE Sound(i)
  <2>1. Bounded(i)
    BY <1>1 DEF QueueInit, Bounded
  <2>2. Unmade(i) /\ Aligned(i) /\ NoneLost(i) /\ SentMarked(i) /\ Untouched(i) /\ Snapped(i)
    BY DEF QueueInit, Unmade, Aligned, NoneLost, SentMarked, Untouched, Snapped
  <2>3. QED
    BY <2>1, <2>2 DEF Sound
<1>5. QED
  BY <1>2, <1>3, <1>4 DEF QueueInv

\* The instance that is made has been idle, and its file is not read yet.
LEMMA ConstructInv == ASSUME QueueInv, NEW i \in Instances, Construct(i) PROVE QueueInv'
<1>1. QueueTypes /\ Sound(i) /\ life[i] = "new"
  BY DEF QueueInv, Construct
<1>2. QueueTypes'
  BY <1>1 DEF Construct, QueueTypes, loading, flushing, saving, history
<1>3. OneByOne'
  <2>1. ASSUME NEW a \in Instances, NEW b \in Instances, a < b, life'[a] \in {"new", "live"}
        PROVE  life'[b] = "new"
    <3>1. a # b
      BY <2>1, QueueConstants
    <3>2. CASE a = i
      BY <1>1, <2>1, <3>1, <3>2 DEF Construct, QueueTypes, QueueInv, OneByOne
    <3>3. CASE a # i
      BY <1>1, <2>1, <3>1, <3>3 DEF Construct, QueueTypes, QueueInv, OneByOne
    <3>4. QED
      BY <3>2, <3>3
  <2>2. QED
    BY <2>1 DEF OneByOne
<1>4. Held(disk', accepted')
  BY DEF Construct, QueueInv
<1>5. Sound(i)'
  <2>1. /\ queue[i] = <<>> /\ restored[i] = <<>> /\ chain[i] = <<>> /\ flush[i] = "idle"
        /\ got[i] = {} /\ sent[i] = {} /\ ~unsaved[i]
    BY <1>1 DEF Sound, Unmade
  <2>2. /\ life'[i] = "live" /\ load'[i] = IF persist THEN "reading" ELSE "none"
        /\ UNCHANGED <<queue, restored, flushing, saving, history, persist, disk, accepted>>
    BY <1>1 DEF Construct, QueueTypes
  <2>3. Bounded(i)'
    BY <1>1, <2>2 DEF Sound, Bounded, Held, Distinct, Events, flushing, saving, history
  <2>4. Unmade(i)' /\ Aligned(i)' /\ NoneLost(i)'
    BY <2>1, <2>2 DEF Unmade, Aligned, NoneLost, flushing, history
  <2>5. SentMarked(i)' /\ Untouched(i)' /\ Snapped(i)'
    BY <2>1, <2>2 DEF SentMarked, Untouched, Snapped, flushing, saving, history
  <2>6. QED
    BY <2>3, <2>4, <2>5 DEF Sound
<1>6. ASSUME NEW j \in Instances, j # i PROVE Sound(j)'
  <2>1. Apart(j)
    BY <1>1, <1>6 DEF Construct, QueueTypes, Apart, flushing, saving, history
  <2>2. accepted' = accepted /\ accepted \in Nat /\ persist' = persist /\ early' = early /\ overrun' = overrun /\ disk' = disk
    BY <1>1, QueueConstants DEF Construct, QueueTypes, history
  <2>3. QED
    BY <1>1, <2>1, <2>2, OthersSound DEF QueueInv
<1>7. QED
  BY <1>2, <1>3, <1>4, <1>5, <1>6 DEF QueueInv, Held, Distinct, Events

\* What is read is the file as it is.
LEMMA ReadFileInv == ASSUME QueueInv, NEW i \in Instances, ReadFile(i) PROVE QueueInv'
<1>1. QueueTypes /\ Sound(i) /\ load[i] = "reading"
  BY DEF QueueInv, ReadFile
<1>2. QueueTypes'
  <2>1. restored' \in [Instances -> Seq(Entry)]
    BY <1>1 DEF ReadFile, QueueTypes, QueueInv, Held
  <2>2. QED
    BY <1>1, <2>1 DEF ReadFile, QueueTypes, flushing, saving, history
<1>3. OneByOne'
  BY DEF ReadFile, OneByOne, QueueInv
<1>4. Held(disk', accepted') /\ Held(disk, accepted)
  BY DEF ReadFile, QueueInv
<1>5. Sound(i)'
  <2>1. /\ load'[i] = "read" /\ restored'[i] = disk
        /\ UNCHANGED <<life, queue, flushing, saving, history, persist, disk, accepted>>
    BY <1>1 DEF ReadFile, QueueTypes
  <2>2. Bounded(i)'
    BY <1>1, <1>4, <2>1 DEF Sound, Bounded, Held, Distinct, Events, flushing, saving, history
  <2>3. Unmade(i)' /\ Aligned(i)' /\ NoneLost(i)'
    BY <1>1, <2>1 DEF Sound, Unmade, Aligned, NoneLost, Events, flushing, history
  <2>4. SentMarked(i)' /\ Untouched(i)' /\ Snapped(i)'
    BY <1>1, <2>1 DEF Sound, SentMarked, Untouched, Snapped, flushing, saving, history
  <2>5. QED
    BY <2>2, <2>3, <2>4 DEF Sound
<1>6. ASSUME NEW j \in Instances, j # i PROVE Sound(j)'
  <2>1. Apart(j)
    BY <1>1, <1>6 DEF ReadFile, QueueTypes, Apart, flushing, saving, history
  <2>2. accepted' = accepted /\ accepted \in Nat /\ persist' = persist /\ early' = early /\ overrun' = overrun /\ disk' = disk
    BY <1>1, QueueConstants DEF ReadFile, QueueTypes, history
  <2>3. QED
    BY <1>1, <2>1, <2>2, OthersSound DEF QueueInv
<1>7. QED
  BY <1>2, <1>3, <1>4, <1>5, <1>6 DEF QueueInv, Held, Distinct, Events

\* Nothing is read, and the file stays as it is.
LEMMA ReadFailsInv == ASSUME QueueInv, NEW i \in Instances, ReadFails(i) PROVE QueueInv'
<1>1. QueueTypes /\ Sound(i) /\ load[i] = "reading"
  BY DEF QueueInv, ReadFails
<1>2. QueueTypes'
  <2>1. faults' \in 0..MaxFaults
    BY <1>1, QueueConstants DEF ReadFails, Fault, QueueTypes
  <2>2. unsaved' \in [Instances -> BOOLEAN] /\ load' \in [Instances -> {"none", "reading", "read"}]
    BY <1>1 DEF ReadFails, QueueTypes
  <2>3. QED
    BY <1>1, <2>1, <2>2 DEF ReadFails, QueueTypes, flushing, saving
<1>3. OneByOne'
  BY DEF ReadFails, OneByOne, QueueInv
<1>4. Held(disk', accepted')
  BY DEF ReadFails, QueueInv
<1>5. Sound(i)'
  <2>1. /\ load'[i] = "none" /\ unsaved'[i] = (life[i] = "live")
        /\ UNCHANGED <<life, restored, queue, flushing, saving, persist, disk, accepted,
                       got, sent, gone, disturbed, early, overrun>>
    BY <1>1 DEF ReadFails, QueueTypes
  <2>2. Bounded(i)'
    BY <1>1, <2>1 DEF Sound, Bounded, Held, Distinct, Events, flushing, saving
  <2>3. Unmade(i)' /\ Aligned(i)' /\ NoneLost(i)'
    BY <1>1, <2>1 DEF Sound, Unmade, Aligned, NoneLost, Events, flushing
  <2>4. SentMarked(i)' /\ Untouched(i)'
    BY <1>1, <2>1 DEF Sound, SentMarked, Untouched, flushing
  <2>5. Snapped(i)'
    BY <1>1, <2>1 DEF Sound, Untouched, Snapped, saving
  <2>6. QED
    BY <2>2, <2>3, <2>4, <2>5 DEF Sound
<1>6. ASSUME NEW j \in Instances, j # i PROVE Sound(j)'
  <2>1. Apart(j)
    BY <1>1, <1>6 DEF ReadFails, QueueTypes, Apart, flushing, saving
  <2>2. accepted' = accepted /\ accepted \in Nat /\ persist' = persist /\ early' = early /\ overrun' = overrun /\ disk' = disk
    BY <1>1, QueueConstants DEF ReadFails, QueueTypes
  <2>3. QED
    BY <1>1, <2>1, <2>2, OthersSound DEF QueueInv
<1>7. QED
  BY <1>2, <1>3, <1>4, <1>5, <1>6 DEF QueueInv, Held, Distinct, Events

\* A flush that throws forgets its batch; nothing of it was answered.
LEMMA FlushThrowsInv ==
  ASSUME QueueInv, ClientInv, NEW i \in Instances, FlushThrows(i)
  PROVE  QueueInv'
<1>1. QueueTypes /\ Sound(i) /\ flush[i] = "batch" /\ toRemove[i] = <<>>
  BY DEF QueueInv, ClientInv, FlushThrows
<1>2. QueueTypes'
  <2>1. faults' \in 0..MaxFaults
    <3>1. faults' = faults \/ (faults < MaxFaults /\ faults' = faults + 1)
      BY DEF FlushThrows, Fault
    <3>2. QED
      BY <1>1, <3>1, QueueConstants DEF QueueTypes
  <2>2. QED
    BY <1>1, <2>1 DEF FlushThrows, QueueTypes, loading, saving, history
<1>3. OneByOne'
  BY DEF FlushThrows, OneByOne, QueueInv
<1>4. Held(disk', accepted')
  BY DEF FlushThrows, QueueInv
<1>5. Sound(i)'
  <2>1. /\ flush'[i] = "idle" /\ waiting'[i] = {}
        /\ UNCHANGED <<life, loading, queue, saving, persist, disk, accepted, history>>
    BY <1>1 DEF FlushThrows, QueueTypes
  <2>2. Bounded(i)'
    BY <1>1, <2>1 DEF Sound, Bounded, Held, Distinct, Events, loading, saving, history
  <2>3. Unmade(i)' /\ Aligned(i)' /\ NoneLost(i)'
    BY <1>1, <2>1 DEF Sound, Unmade, Aligned, NoneLost, Events, loading, saving, history
  <2>4. SentMarked(i)'
    BY <1>1, <2>1 DEF Sound, SentMarked, history
  <2>5. Untouched(i)' /\ Snapped(i)'
    BY <1>1, <2>1 DEF Sound, Untouched, Snapped, EventsOf, loading, saving, history
  <2>6. QED
    BY <2>2, <2>3, <2>4, <2>5 DEF Sound
<1>6. ASSUME NEW j \in Instances, j # i PROVE Sound(j)'
  <2>1. Apart(j)
    BY <1>1, <1>6 DEF FlushThrows, QueueTypes, Apart, loading, saving, history
  <2>2. accepted' = accepted /\ accepted \in Nat /\ persist' = persist /\ early' = early /\ overrun' = overrun /\ disk' = disk
    BY <1>1, QueueConstants DEF FlushThrows, QueueTypes, history
  <2>3. QED
    BY <1>1, <2>1, <2>2, OthersSound DEF QueueInv
<1>7. QED
  BY <1>2, <1>3, <1>4, <1>5, <1>6 DEF QueueInv, Held, Distinct, Events

\* A queue that is stopped is written once more.
LEMMA StopInv == ASSUME QueueInv, NEW i \in Instances, Stop(i) PROVE QueueInv'
<1>1. QueueTypes /\ Sound(i) /\ life[i] = "live"
  BY DEF QueueInv, Stop
<1>2. QueueTypes'
  <2>1. chain' \in [Instances -> Seq(Seq(Entry))]
    BY <1>1 DEF Stop, Save, QueueTypes
  <2>2. QED
    BY <1>1, <2>1 DEF Stop, QueueTypes, loading, flushing
<1>3. OneByOne'
  BY <1>1 DEF Stop, QueueTypes, OneByOne, QueueInv
<1>4. Held(disk', accepted')
  BY DEF Stop, QueueInv
<1>5. Sound(i)'
  <2>1. /\ life'[i] = "stopped" /\ chain'[i] = IF persist THEN Append(chain[i], queue[i]) ELSE chain[i]
        /\ got'[i] = {} /\ sent'[i] = {} /\ gone'[i] = {}
        /\ UNCHANGED <<loading, queue, flushing, left, accepted>>
    BY <1>1 DEF Stop, Save, QueueTypes
  <2>2. Bounded(i)'
    <3>1. chain[i] \in Seq(Seq(Entry)) /\ queue[i] \in Seq(Entry) /\ left[i] \in Nat
      BY <1>1 DEF QueueTypes
    <3>2. left'[i] <= Len(chain'[i])
      BY <1>1, <2>1, <3>1 DEF Sound, Bounded
    <3>3. \A k \in DOMAIN chain'[i] : Held(chain'[i][k], accepted')
      <4>1. Held(queue[i], accepted) /\ \A k \in DOMAIN chain[i] : Held(chain[i][k], accepted)
        BY <1>1 DEF Sound, Bounded
      <4>2. QED
        BY <2>1, <3>1, <4>1
    <3>4. QED
      BY <1>1, <2>1, <3>2, <3>3 DEF Sound, Bounded, Held, Distinct, Events, loading, flushing
  <2>3. Unmade(i)' /\ Aligned(i)' /\ NoneLost(i)' /\ SentMarked(i)' /\ Untouched(i)' /\ Snapped(i)'
    BY <2>1 DEF Unmade, Aligned, NoneLost, SentMarked, Untouched, Snapped
  <2>4. QED
    BY <2>2, <2>3 DEF Sound
<1>6. ASSUME NEW j \in Instances, j # i PROVE Sound(j)'
  <2>1. Apart(j)
    BY <1>1, <1>6 DEF Stop, Save, QueueTypes, Apart, loading, flushing
  <2>2. accepted' = accepted /\ accepted \in Nat /\ persist' = persist /\ early' = early /\ overrun' = overrun /\ disk' = disk
    BY <1>1, QueueConstants DEF Stop, QueueTypes
  <2>3. QED
    BY <1>1, <2>1, <2>2, OthersSound DEF QueueInv
<1>7. QED
  BY <1>2, <1>3, <1>4, <1>5, <1>6 DEF QueueInv, Held, Distinct, Events

\* The next snapshot replaces the file, or is lost and leaves it.
LEMMA WriteInv == ASSUME QueueInv, NEW i \in Instances, Write(i) PROVE QueueInv'
<1> DEFINE c == chain[i]
<1>1. QueueTypes /\ Sound(i) /\ c # <<>> /\ Held(disk, accepted)
  BY DEF QueueInv, Write
<1>2. /\ c \in Seq(Seq(Entry)) /\ left[i] \in Nat
      /\ \A k \in DOMAIN c : Held(c[k], accepted)
  BY <1>1 DEF QueueTypes, Sound, Bounded
<1>3. /\ Tail(c) \in Seq(Seq(Entry)) /\ Len(Tail(c)) = Len(c) - 1 /\ Len(c) \in Nat \ {0}
      /\ \A k \in 1..Len(Tail(c)) : Tail(c)[k] = c[k + 1]
      /\ Head(c) = c[1] /\ 1 \in DOMAIN c /\ DOMAIN c = 1..Len(c) /\ DOMAIN Tail(c) = 1..Len(Tail(c))
  BY <1>1, <1>2
<1>4. /\ chain'[i] = Tail(c) /\ left'[i] = IF left[i] = 0 THEN 0 ELSE left[i] - 1
      /\ flush'[i] = IF flush[i] = "saving" /\ left[i] = 1 THEN "idle" ELSE flush[i]
      /\ UNCHANGED <<persist, life, loading, queue, base, waiting, toRemove, accepted,
                     got, sent, gone, disturbed, early>>
  BY <1>1 DEF Write, QueueTypes
<1>5. \/ disk' = c[1] /\ overrun' = (overrun \/ \E j \in Instances : j > i /\ life[j] # "new")
      \/ disk' = disk /\ overrun' = overrun /\ (life[i] = "live" => unsaved'[i])
  BY <1>1, <1>3 DEF Write, QueueTypes
<1> HIDE DEF c
<1>6. QueueTypes'
  <2>1. chain' \in [Instances -> Seq(Seq(Entry))]
    BY <1>1, <1>3 DEF Write, QueueTypes, c
  <2>2. left' \in [Instances -> Nat]
    <3>1. left' = [left EXCEPT ![i] = IF left[i] = 0 THEN 0 ELSE left[i] - 1]
      BY DEF Write
    <3>2. left \in [Instances -> Nat] /\ (IF left[i] = 0 THEN 0 ELSE left[i] - 1) \in Nat
      BY <1>1 DEF QueueTypes
    <3>3. QED
      BY <3>1, <3>2
  <2>3. faults' \in 0..MaxFaults
    <3>1. faults' = faults \/ (faults < MaxFaults /\ faults' = faults + 1)
      BY DEF Write, Fault
    <3>2. faults \in 0..MaxFaults
      BY <1>1 DEF QueueTypes
    <3>3. QED
      BY <3>1, <3>2, QueueConstants
  <2>4. unsaved' \in [Instances -> BOOLEAN] /\ overrun' \in BOOLEAN
    BY <1>1, <1>5 DEF Write, QueueTypes
  <2>5. flush' \in [Instances -> {"idle", "batch", "saving"}]
    BY <1>1 DEF Write, QueueTypes
  <2>6. QED
    BY <1>1, <1>4, <2>1, <2>2, <2>3, <2>4, <2>5 DEF QueueTypes, loading
<1>7. OneByOne'
  BY <1>4 DEF OneByOne, QueueInv
<1>8. Held(disk', accepted')
  BY <1>1, <1>2, <1>3, <1>4, <1>5
<1>9. Sound(i)'
  <2>1. Bounded(i)'
    <3>1. \A k \in DOMAIN chain'[i] : Held(chain'[i][k], accepted)
      <4>1. \A k \in 1..Len(Tail(c)) : k + 1 \in DOMAIN c
        BY <1>3
      <4>2. QED
        BY <1>2, <1>3, <1>4, <4>1
    <3>2. left'[i] <= Len(chain'[i])
      <4>1. left[i] <= Len(c)
        BY <1>1 DEF Sound, Bounded, c
      <4>2. QED
        BY <1>2, <1>3, <1>4, <4>1
    <3>3. flush'[i] = "batch" <=> flush[i] = "batch"
      BY <1>4
    <3>4. QED
      BY <1>1, <1>4, <3>1, <3>2, <3>3 DEF Sound, Bounded, Held, Distinct, Events, loading
  <2>2. flush'[i] = "batch" <=> flush[i] = "batch"
    BY <1>4
  <2>3. Unmade(i)' /\ Untouched(i)'
    <3>1. life[i] # "new" /\ ~(life[i] = "live" /\ load[i] # "none" /\ ~early)
      BY <1>1 DEF Sound, Unmade, Untouched, c
    <3>2. QED
      BY <1>4, <3>1 DEF Unmade, Untouched, loading
  <2>4. Aligned(i)'
    BY <1>1, <1>4, <2>2 DEF Sound, Aligned
  <2>5. NoneLost(i)' /\ SentMarked(i)'
    BY <1>1, <1>4, <2>2 DEF Sound, NoneLost, SentMarked, Events
  <2>6. Snapped(i)'
    <3>1. SUFFICES ASSUME persist, life[i] = "live", load[i] = "none", ~early, ~overrun'
                   PROVE  IF chain'[i] # <<>> THEN EventsOf(chain'[i][Len(chain'[i])]) = EventsOf(queue[i])
                          ELSE ~unsaved'[i] => EventsOf(disk') = EventsOf(queue[i])
      BY <1>4 DEF Snapped, EventsOf, loading
    <3>2. ~overrun
      BY <1>5, <3>1
    <3>3. EventsOf(c[Len(c)]) = EventsOf(queue[i])
      BY <1>1, <3>1, <3>2 DEF Sound, Snapped, c
    <3>4. CASE Tail(c) # <<>>
      <4>1. Len(Tail(c)) \in 1..Len(Tail(c)) /\ Len(Tail(c)) + 1 = Len(c)
        BY <1>3, <3>4
      <4>2. QED
        BY <1>3, <1>4, <3>3, <3>4, <4>1
    <3>5. CASE Tail(c) = <<>>
      <4>1. Len(c) = 1
        <5> DEFINE d == Tail(c)
        <5>1. d = <<>> /\ Len(d) = Len(c) - 1 /\ Len(c) \in Nat
          BY <1>3, <3>5
        <5> HIDE DEF d
        <5>2. QED
          BY <5>1
      <4>2. QED
        BY <1>4, <1>5, <3>1, <3>3, <3>5, <4>1
    <3>6. QED
      BY <3>4, <3>5
  <2>7. QED
    BY <2>1, <2>3, <2>4, <2>5, <2>6 DEF Sound
<1>10. ASSUME NEW j \in Instances, j # i PROVE Sound(j)'
  <2>1. Apart(j)
    BY <1>1, <1>10 DEF Write, QueueTypes, Apart, loading
  <2>2. disk' = disk \/ (life[j] = "live" => overrun')
    <3>1. ASSUME life[j] = "live", disk' # disk PROVE overrun'
      <4>1. life[i] # "new"
        BY <1>1 DEF Sound, Unmade, c
      <4>2. ~(j < i)
        BY <3>1, <4>1 DEF QueueInv, OneByOne
      <4>3. j > i
        BY <1>10, <4>2, QueueConstants
      <4>4. QED
        BY <1>5, <3>1, <4>3
    <3>2. QED
      BY <3>1
  <2>3. accepted' = accepted /\ accepted \in Nat /\ persist' = persist /\ early' = early
    BY <1>1, <1>4, QueueConstants DEF QueueTypes
  <2>4. overrun => overrun'
    BY <1>5
  <2>5. QED
    BY <1>1, <2>1, <2>2, <2>3, <2>4, OthersSound DEF QueueInv
<1>11. QED
  BY <1>6, <1>7, <1>8, <1>9, <1>10 DEF QueueInv, Held, Distinct, Events

\* A crash leaves the file and forgets all else.
LEMMA CrashInv == ASSUME QueueInv, Crash PROVE QueueInv'
<1>0. QueueTypes /\ Held(<<>>, accepted)
  <2>1. QueueTypes
    BY DEF QueueInv
  <2>2. accepted \in Nat
    BY <2>1, QueueConstants DEF QueueTypes
  <2>3. Held(<<>>, accepted)
    BY QueueConstants DEF Held, Distinct, Events
  <2>4. QED
    BY <2>1, <2>3
<1>1. UNCHANGED <<persist, disk, accepted, early, overrun>> /\ accepted \in Nat
  <2>1. accepted \in Nat
    BY <1>0, QueueConstants DEF QueueTypes
  <2>2. QED
    BY <2>1 DEF Crash
<1>2. QueueTypes'
  <2>1. /\ life' \in [Instances -> {"new", "live", "stopped", "dead"}]
        /\ load' \in [Instances -> {"none", "reading", "read"}]
        /\ flush' \in [Instances -> {"idle", "batch", "saving"}]
    BY <1>0 DEF Crash, QueueTypes
  <2>2. /\ queue' \in [Instances -> Seq(Entry)] /\ restored' \in [Instances -> Seq(Entry)]
        /\ chain' \in [Instances -> Seq(Seq(Entry))] /\ toRemove' \in [Instances -> Seq(Nat)]
    BY <1>0 DEF Crash, QueueTypes
  <2>3. /\ waiting' \in [Instances -> SUBSET Call] /\ got' \in [Instances -> SUBSET Nat]
        /\ sent' \in [Instances -> SUBSET Nat] /\ gone' \in [Instances -> SUBSET Nat]
    BY <1>0 DEF Crash, QueueTypes
  <2>4. left' \in [Instances -> Nat] /\ base' \in [Instances -> Nat]
    BY <1>0 DEF Crash, QueueTypes
  <2>5. unsaved' \in [Instances -> BOOLEAN] /\ disturbed' \in [Instances -> BOOLEAN]
    BY <1>0 DEF Crash, QueueTypes
  <2>6. faults' \in 0..MaxFaults
    BY <1>0, QueueConstants DEF Crash, Fault, QueueTypes
  <2>7. QED
    BY <1>0, <1>1, <2>1, <2>2, <2>3, <2>4, <2>5, <2>6 DEF QueueTypes
<1>3. ASSUME NEW j \in Instances PROVE IF life[j] = "new" THEN life'[j] = "new" ELSE life'[j] = "dead"
  BY <1>0 DEF Crash
<1>4. OneByOne'
  BY <1>3 DEF OneByOne, QueueInv
<1>5. ASSUME NEW j \in Instances PROVE Sound(j)'
  <2>1. CASE life[j] = "new"
    <3>1. Apart(j)
      BY <2>1 DEF Crash, Apart
    <3>2. QED
      BY <1>0, <1>1, <3>1, OthersSound DEF QueueInv
  <2>2. CASE life[j] # "new"
    <3>1. /\ life'[j] = "dead" /\ restored'[j] = <<>> /\ queue'[j] = <<>>
          /\ flush'[j] = "idle" /\ waiting'[j] = {} /\ chain'[j] = <<>> /\ left'[j] = 0
          /\ got'[j] = {} /\ sent'[j] = {} /\ gone'[j] = {}
      BY <2>2 DEF Crash
    <3>2. Bounded(j)'
      BY <1>0, <1>1, <3>1 DEF Bounded, Held, Distinct, Events
    <3>3. Unmade(j)' /\ Aligned(j)' /\ NoneLost(j)' /\ SentMarked(j)' /\ Untouched(j)' /\ Snapped(j)'
      BY <3>1 DEF Unmade, Aligned, NoneLost, SentMarked, Untouched, Snapped
    <3>4. QED
      BY <3>2, <3>3 DEF Sound
  <2>3. QED
    BY <2>1, <2>2
<1>6. QED
  BY <1>1, <1>2, <1>4, <1>5 DEF QueueInv, Held, Distinct, Events

-----------------------------------------------------------------------------
(* Enqueueing and flushing *)

\* The deliveries of a batch are for items of the queue, one for each place.
LEMMA BatchOf ==
  ASSUME NEW q \in Seq(Entry), NEW b \in Nat, b < Len(q)
  PROVE  /\ Batch(q, b) \subseteq Call /\ Batch(q, b) # {}
         /\ \A w \in Batch(q, b) : /\ b <= w.at /\ w.at < b + BatchSize /\ w.at < Len(q)
                                   /\ q[w.at + 1].ev = w.ev /\ w.ev \in Events(q)
         /\ \A w, x \in Batch(q, b) : w.at = x.at => w = x
<1> DEFINE P == {j \in DOMAIN q : b < j /\ j <= b + BatchSize}
           W(k) == [at |-> k - 1, ev |-> q[k].ev, n |-> q[k].n]
<1>0. Len(q) \in Nat /\ DOMAIN q = 1..Len(q) /\ BatchSize \in Nat \ {0}
  BY QueueConstants
<1>1. Batch(q, b) = {W(k) : k \in P}
  BY DEF Batch
<1>2. ASSUME NEW k \in P
      PROVE  /\ W(k) \in Call /\ W(k).at = k - 1 /\ W(k).ev = q[k].ev
             /\ b <= k - 1 /\ k - 1 < b + BatchSize /\ k - 1 < Len(q) /\ (k - 1) + 1 = k
             /\ k \in DOMAIN q
  <2>1. k \in 1..Len(q) /\ b < k /\ k <= b + BatchSize
    BY <1>0
  <2>2. q[k] \in Entry
    BY <1>0, <2>1
  <2>3. k - 1 \in Nat /\ q[k].ev \in Nat /\ q[k].n \in 0..MaxAttempts
    BY <2>1, <2>2 DEF Entry
  <2>4. W(k) \in Call
    BY <2>3 DEF Call
  <2>5. QED
    BY <1>0, <2>1, <2>4
<1>3. b + 1 \in P
  BY <1>0
<1> HIDE DEF P
<1>4. Batch(q, b) \subseteq Call /\ Batch(q, b) # {}
  <2> HIDE DEF W
  <2> QED
    BY <1>1, <1>2, <1>3
<1>5. ASSUME NEW w \in Batch(q, b)
      PROVE  /\ b <= w.at /\ w.at < b + BatchSize /\ w.at < Len(q)
             /\ q[w.at + 1].ev = w.ev /\ w.ev \in Events(q)
  <2>1. PICK k \in P : w = W(k)
    BY <1>1
  <2> HIDE DEF W
  <2>2. QED
    BY <1>2, <2>1 DEF Events
<1>6. ASSUME NEW w \in Batch(q, b), NEW x \in Batch(q, b), w.at = x.at PROVE w = x
  <2>1. PICK k \in P : w = W(k)
    BY <1>1
  <2>2. PICK l \in P : x = W(l)
    BY <1>1
  <2>3. k = l
    <3> HIDE DEF W
    <3>1. k - 1 = l - 1 /\ (k - 1) + 1 = k /\ (l - 1) + 1 = l
      BY <1>2, <1>6, <2>1, <2>2
    <3>2. QED
      BY <3>1
  <2>4. QED
    BY <2>1, <2>2, <2>3
<1>7. QED
  BY <1>4, <1>5, <1>6

\* The flush interval begins a flush, with the items of the queue in their places.
LEMMA FlushTimerInv == ASSUME QueueInv, NEW i \in Instances, FlushTimer(i) PROVE QueueInv'
<1>1. QueueTypes /\ Sound(i) /\ queue[i] # <<>> /\ flush[i] = "idle"
  BY DEF QueueInv, FlushTimer
<1>2. /\ flush' = [flush EXCEPT ![i] = "batch"] /\ base' = [base EXCEPT ![i] = 0]
      /\ waiting' = [waiting EXCEPT ![i] = Batch(queue[i], 0)]
      /\ toRemove' = [toRemove EXCEPT ![i] = <<>>]
      /\ UNCHANGED <<persist, life, loading, queue, timer, saving, disk, accepted, history, faults>>
  BY DEF FlushTimer, BeginFlush
<1>3. queue[i] \in Seq(Entry) /\ 0 < Len(queue[i]) /\ 0 \in Nat
  BY <1>1 DEF QueueTypes
<1>4. /\ Batch(queue[i], 0) \subseteq Call /\ Batch(queue[i], 0) # {}
      /\ \A w \in Batch(queue[i], 0) : /\ 0 <= w.at /\ w.at < 0 + BatchSize /\ w.at < Len(queue[i])
                                       /\ queue[i][w.at + 1].ev = w.ev /\ w.ev \in Events(queue[i])
      /\ \A w, x \in Batch(queue[i], 0) : w.at = x.at => w = x
  BY <1>3, BatchOf
<1>5. QueueTypes'
  BY <1>1, <1>2, <1>4 DEF QueueTypes, loading, saving, history
<1>6. OneByOne'
  BY <1>2 DEF OneByOne, QueueInv
<1>7. Held(disk', accepted')
  BY <1>2 DEF QueueInv
<1>8. Sound(i)'
  <2>1. /\ flush'[i] = "batch" /\ base'[i] = 0 /\ waiting'[i] = Batch(queue[i], 0) /\ toRemove'[i] = <<>>
        /\ UNCHANGED <<persist, life, load, restored, queue, chain, left, disk, accepted,
                       got, sent, gone, unsaved, disturbed, early, overrun>>
    BY <1>1, <1>2 DEF QueueTypes, loading, saving, history
  <2>2. Bounded(i)'
    <3>1. \A w \in waiting'[i] : w.ev \in 1..accepted'
      BY <1>1, <1>4, <2>1 DEF Sound, Bounded, Held
    <3>2. QED
      BY <1>1, <1>4, <2>1, <3>1 DEF Sound, Bounded, Held, Distinct, Events
  <2>3. life[i] # "new"
    BY <1>1 DEF Sound, Unmade
  <2>4. Aligned(i)'
    BY <1>4, <2>1 DEF Aligned
  <2>5. Unmade(i)' /\ NoneLost(i)' /\ SentMarked(i)'
    BY <1>1, <2>1, <2>3 DEF Sound, Unmade, NoneLost, SentMarked, Events
  <2>6. Untouched(i)' /\ Snapped(i)'
    BY <1>1, <2>1 DEF Sound, Untouched, Snapped, EventsOf
  <2>7. QED
    BY <2>2, <2>4, <2>5, <2>6 DEF Sound
<1>9. ASSUME NEW j \in Instances, j # i PROVE Sound(j)'
  <2>1. Apart(j)
    BY <1>1, <1>2, <1>9 DEF QueueTypes, Apart, loading, saving, history
  <2>2. accepted' = accepted /\ accepted \in Nat /\ persist' = persist /\ early' = early /\ overrun' = overrun /\ disk' = disk
    BY <1>1, <1>2, QueueConstants DEF QueueTypes, history
  <2>3. QED
    BY <1>1, <2>1, <2>2, OthersSound DEF QueueInv
<1>10. QED
  BY <1>5, <1>6, <1>7, <1>8, <1>9 DEF QueueInv, Held, Distinct, Events

\* A flush keeps its places while the queue grows at its end only.
LEMMA AlignedOn ==
  ASSUME QueueTypes, NEW i \in Instances, Aligned(i), life'[i] = life[i], flush'[i] = flush[i],
         base'[i] = base[i], toRemove'[i] = toRemove[i], waiting'[i] = waiting[i], ~disturbed[i],
         Len(queue[i]) \in Nat, Len(queue'[i]) \in Nat, Len(queue[i]) <= Len(queue'[i]),
         \A k \in 1..Len(queue[i]) : queue'[i][k] = queue[i][k],
         sent[i] \subseteq sent'[i], gone[i] \subseteq gone'[i]
  PROVE  Aligned(i)'
<1>1. SUFFICES ASSUME life[i] = "live", flush[i] = "batch" PROVE Aligned(i)'
  BY DEF Aligned
<1>2. \A n \in Nat : n < Len(queue[i]) => n < Len(queue'[i]) /\ queue'[i][n + 1] = queue[i][n + 1]
  <2>1. TAKE n \in Nat
  <2>2. n < Len(queue[i]) => n + 1 \in 1..Len(queue[i]) /\ n < Len(queue'[i])
    OBVIOUS
  <2>3. QED
    BY <2>2
<1>3. /\ \A r \in DOMAIN toRemove[i] : toRemove[i][r] \in Nat
      /\ \A w \in waiting[i] : w.at \in Nat
  BY DEF QueueTypes, Call
<1>4. /\ \A r \in DOMAIN toRemove[i] :
           /\ toRemove[i][r] < Len(queue'[i]) /\ toRemove[i][r] < base[i] + BatchSize
           /\ queue'[i][toRemove[i][r] + 1].ev \in sent'[i] \cup gone'[i]
      /\ \A r, s \in DOMAIN toRemove[i] : r < s => toRemove[i][r] < toRemove[i][s]
  BY <1>1, <1>2, <1>3 DEF Aligned
<1>5. /\ \A w \in waiting[i] :
           /\ base[i] <= w.at /\ w.at < base[i] + BatchSize /\ w.at < Len(queue'[i])
           /\ queue'[i][w.at + 1].ev = w.ev
           /\ \A r \in DOMAIN toRemove[i] : toRemove[i][r] # w.at
      /\ \A w, x \in waiting[i] : w.at = x.at => w = x
  BY <1>1, <1>2, <1>3 DEF Aligned
<1>6. QED
  BY <1>4, <1>5 DEF Aligned

\* An event goes to the end of the queue; a full queue shifts, and a flush then goes astray.
LEMMA EnqueueInv == ASSUME QueueInv, NEW i \in Instances, Enqueue(i) PROVE QueueInv'
<1> DEFINE p == queue[i]
           full == Len(p) >= MaxSize
           s == IF full THEN Tail(p) ELSE p
           e == [ev |-> accepted + 1, n |-> 0]
           q == Append(s, e)
           off == IF full THEN {Head(p).ev} ELSE {}
           due == 10 * Len(q) >= 8 * MaxSize /\ flush[i] = "idle"
<1>1. QueueTypes /\ Sound(i) /\ life[i] = "live"
  BY DEF QueueInv, Enqueue
<1>2. accepted \in Nat /\ accepted < MaxEvents /\ MaxSize \in Nat \ {0} /\ MaxAttempts \in Nat
  BY <1>1, QueueConstants DEF QueueTypes, Enqueue
<1>3. /\ accepted' = accepted + 1 /\ queue' = [queue EXCEPT ![i] = q]
      /\ got' = [got EXCEPT ![i] = @ \cup {accepted + 1}]
      /\ gone' = [gone EXCEPT ![i] = @ \cup off]
      /\ chain' = [chain EXCEPT ![i] = IF persist THEN Append(@, q) ELSE @]
      /\ disturbed' = [disturbed EXCEPT ![i] = @ \/ (full /\ flush[i] = "batch")]
      /\ early' = (early \/ load[i] # "none")
      /\ UNCHANGED <<persist, life, load, restored, timer, left, disk, sent, unsaved, overrun, faults>>
  BY <1>1 DEF Enqueue, Note, Save, Disturb, loading
<1>4. IF due THEN BeginFlush(i, q) ELSE UNCHANGED flushing
  BY DEF Enqueue
<1>5. Held(p, accepted) /\ p \in Seq(Entry) /\ Distinct(p) /\ Len(p) \in Nat
  BY <1>1 DEF Sound, Bounded, Held
<1>6. /\ s \in Seq(Entry) /\ Distinct(s) /\ Len(s) < MaxSize /\ Len(s) \in Nat
      /\ Events(p) = Events(s) \cup off /\ Events(s) \subseteq 1..accepted
      /\ (~full => s = p)
  <2>1. CASE full
    <3>1. p # <<>>
      BY <1>2, <2>1
    <3>2. /\ Tail(p) \in Seq(Entry) /\ Distinct(Tail(p)) /\ Len(Tail(p)) = Len(p) - 1
          /\ Events(p) = {Head(p).ev} \cup Events(Tail(p))
      BY <1>5, <3>1, Shifted
    <3>3. s = Tail(p) /\ off = {Head(p).ev}
      BY <2>1
    <3> HIDE DEF s, off
    <3>4. Len(s) < MaxSize
      <4>1. Len(s) = Len(p) - 1 /\ Len(p) <= MaxSize
        BY <1>5, <3>2, <3>3 DEF Held
      <4>2. QED
        BY <1>2, <1>5, <4>1
    <3>5. QED
      BY <1>5, <2>1, <3>2, <3>3, <3>4 DEF Held
  <2>2. CASE ~full
    <3>1. s = p /\ off = {}
      BY <2>2
    <3> HIDE DEF s, off
    <3>2. Len(s) < MaxSize
      BY <1>2, <1>5, <2>2, <3>1
    <3>3. QED
      BY <1>5, <3>1, <3>2 DEF Held
  <2>3. QED
    BY <2>1, <2>2
<1>7. e \in Entry /\ e.ev = accepted + 1
  BY <1>2 DEF Entry
<1> HIDE DEF s, e, off
<1>8. /\ q \in Seq(Entry) /\ Distinct(q) /\ Len(q) = Len(s) + 1
      /\ Events(q) = Events(s) \cup {accepted + 1}
      /\ \A k \in 1..Len(s) : q[k] = s[k]
  <2>1. e.ev \notin Events(s)
    BY <1>2, <1>6, <1>7
  <2>2. QED
    BY <1>6, <1>7, <2>1, Pushed
<1> HIDE DEF q
<1>9. Held(q, accepted + 1) /\ 0 < Len(q) /\ DOMAIN q = 1..Len(q) /\ Len(q) \in Nat
  <2>1. 1..accepted \cup {accepted + 1} \subseteq 1..accepted + 1
    BY <1>2
  <2>2. Events(q) \subseteq 1..accepted + 1
    BY <1>6, <1>8, <2>1
  <2>3. Len(q) <= MaxSize /\ 0 < Len(q)
    BY <1>2, <1>6, <1>8
  <2>4. QED
    BY <1>8, <2>2, <2>3 DEF Held
<1>10. /\ Batch(q, 0) \subseteq Call /\ Batch(q, 0) # {}
       /\ \A w \in Batch(q, 0) : /\ 0 <= w.at /\ w.at < 0 + BatchSize /\ w.at < Len(q)
                                 /\ q[w.at + 1].ev = w.ev /\ w.ev \in Events(q)
       /\ \A w, x \in Batch(q, 0) : w.at = x.at => w = x
  BY <1>8, <1>9, BatchOf
<1> HIDE DEF p, full, due
<1>11. QueueTypes'
  <2>1. queue' \in [Instances -> Seq(Entry)] /\ chain' \in [Instances -> Seq(Seq(Entry))]
    BY <1>1, <1>3, <1>8 DEF QueueTypes
  <2>2. got' \in [Instances -> SUBSET Nat]
    BY <1>1, <1>2, <1>3 DEF QueueTypes
  <2>3. off \subseteq Nat
    BY <1>5, <1>6 DEF Held
  <2>4. gone' \in [Instances -> SUBSET Nat]
    BY <1>1, <1>3, <2>3 DEF QueueTypes
  <2>5. disturbed' \in [Instances -> BOOLEAN] /\ early' \in BOOLEAN
    BY <1>1, <1>3 DEF QueueTypes
  <2>6. accepted' \in 0..MaxEvents
    BY <1>2, <1>3, QueueConstants
  <2>7. /\ flush' \in [Instances -> {"idle", "batch", "saving"}] /\ base' \in [Instances -> Nat]
        /\ waiting' \in [Instances -> SUBSET Call] /\ toRemove' \in [Instances -> Seq(Nat)]
    <3>1. CASE BeginFlush(i, q)
      BY <1>1, <1>10, <3>1 DEF QueueTypes, BeginFlush
    <3>2. CASE UNCHANGED flushing
      BY <1>1, <3>2 DEF QueueTypes, flushing
    <3>3. QED
      BY <1>4, <3>1, <3>2
  <2>8. QED
    BY <1>1, <1>3, <2>1, <2>2, <2>4, <2>5, <2>6, <2>7 DEF QueueTypes
<1>12. OneByOne'
  BY <1>3 DEF OneByOne, QueueInv
<1>13. Held(disk', accepted')
  BY <1>2, <1>3, HeldOn DEF QueueInv
<1>14. Sound(i)'
  <2>1. /\ queue'[i] = q /\ got'[i] = got[i] \cup {accepted + 1} /\ gone'[i] = gone[i] \cup off
        /\ chain'[i] = (IF persist THEN Append(chain[i], q) ELSE chain[i])
        /\ disturbed'[i] = (disturbed[i] \/ (full /\ flush[i] = "batch"))
    BY <1>1, <1>3 DEF QueueTypes
  <2>2. \/ /\ flush[i] = "idle" /\ flush'[i] = "batch" /\ base'[i] = 0
           /\ waiting'[i] = Batch(q, 0) /\ toRemove'[i] = <<>>
        \/ /\ flush'[i] = flush[i] /\ base'[i] = base[i]
           /\ waiting'[i] = waiting[i] /\ toRemove'[i] = toRemove[i]
    BY <1>1, <1>4 DEF QueueTypes, BeginFlush, flushing, due
  <2>3. Bounded(i)'
    <3>1. \A k \in DOMAIN chain'[i] : Held(chain'[i][k], accepted')
      <4>1. chain[i] \in Seq(Seq(Entry))
        BY <1>1 DEF QueueTypes
      <4>2. \A k \in DOMAIN chain[i] : Held(chain[i][k], accepted + 1)
        BY <1>1, <1>2, HeldOn DEF Sound, Bounded
      <4>3. QED
        BY <1>3, <1>9, <2>1, <4>1, <4>2
    <3>2. left'[i] <= Len(chain'[i])
      <4>1. chain[i] \in Seq(Seq(Entry)) /\ left[i] \in Nat /\ left[i] <= Len(chain[i]) /\ left'[i] = left[i]
        BY <1>1, <1>3 DEF QueueTypes, Sound, Bounded
      <4>2. QED
        BY <2>1, <4>1
    <3>3. flush'[i] = "batch" <=> waiting'[i] # {}
      BY <1>1, <1>10, <2>2 DEF Sound, Bounded
    <3>4. \A w \in waiting'[i] : w.ev \in 1..accepted'
      <4>1. \A w \in waiting[i] : w.ev \in 1..accepted + 1
        BY <1>1, <1>2 DEF Sound, Bounded
      <4>2. QED
        BY <1>3, <1>9, <1>10, <2>2, <4>1 DEF Held
    <3>5. got'[i] \cup sent'[i] \cup gone'[i] \subseteq 1..accepted'
      <4>1. 1..accepted \cup {accepted + 1} \subseteq 1..accepted + 1
        BY <1>2
      <4>2. off \subseteq 1..accepted
        BY <1>5, <1>6 DEF Held
      <4>3. QED
        BY <1>1, <1>3, <2>1, <4>1, <4>2 DEF Sound, Bounded
    <3>6. Held(restored'[i], accepted')
      BY <1>1, <1>2, <1>3, HeldOn DEF Sound, Bounded
    <3>7. QED
      BY <1>3, <1>9, <2>1, <3>1, <3>2, <3>3, <3>4, <3>5, <3>6 DEF Bounded, Held, Distinct, Events
  <2>4. Unmade(i)' /\ Untouched(i)'
    BY <1>1, <1>3 DEF Unmade, Untouched
  <2>5. Aligned(i)'
    <3>1. CASE flush[i] = "idle" /\ waiting'[i] = Batch(q, 0) /\ toRemove'[i] = <<>> /\ base'[i] = 0
      BY <1>10, <2>1, <3>1 DEF Aligned
    <3>2. CASE ~disturbed'[i] /\ flush[i] = "batch" /\ flush'[i] = flush[i] /\ base'[i] = base[i]
               /\ waiting'[i] = waiting[i] /\ toRemove'[i] = toRemove[i]
      <4>1. ~disturbed[i] /\ s = p
        BY <1>6, <2>1, <3>2
      <4>2. /\ Len(queue[i]) \in Nat /\ Len(queue'[i]) \in Nat /\ Len(queue[i]) <= Len(queue'[i])
            /\ \A k \in 1..Len(queue[i]) : queue'[i][k] = queue[i][k]
        BY <1>5, <1>8, <2>1, <4>1 DEF p
      <4>3. Aligned(i)
        BY <1>1 DEF Sound
      <4>4. sent[i] \subseteq sent'[i] /\ gone[i] \subseteq gone'[i] /\ life'[i] = life[i]
        BY <1>3, <2>1
      <4>5. QED
        BY <1>1, <3>2, <4>1, <4>2, <4>3, <4>4, AlignedOn
    <3>3. QED
      BY <2>2, <3>1, <3>2 DEF Aligned
  <2>6. NoneLost(i)'
    <3>1. SUFFICES ASSUME ~disturbed'[i] PROVE got'[i] \subseteq Events(q) \cup sent'[i] \cup gone'[i]
      BY <2>1 DEF NoneLost, Events
    <3>2. ~disturbed[i]
      BY <2>1, <3>1
    <3>3. got[i] \subseteq Events(p) \cup sent[i] \cup gone[i]
      BY <1>1, <3>2 DEF Sound, NoneLost, p
    <3>4. QED
      BY <1>3, <1>6, <1>8, <2>1, <3>3
  <2>7. SentMarked(i)'
    <3>1. SUFFICES ASSUME ~disturbed'[i], ~early', NEW k \in DOMAIN q, q[k].ev \in sent[i]
                   PROVE  flush'[i] = "batch" /\ \E r \in DOMAIN toRemove'[i] : toRemove'[i][r] = k - 1
      BY <1>3, <2>1 DEF SentMarked
    <3>2. q[k].ev \in 1..accepted
      BY <1>1, <3>1 DEF Sound, Bounded
    <3>3. k \in 1..Len(s) /\ q[k] = s[k]
      BY <1>2, <1>6, <1>7, <1>8, <1>9, <3>2 DEF q
    <3>4. s[k].ev \in Events(p)
      <4>1. k \in DOMAIN s
        BY <1>6, <3>3
      <4>2. s[k].ev \in Events(s)
        BY <4>1 DEF Events
      <4>3. QED
        BY <1>6, <4>2
    <3>5. PICK l \in DOMAIN p : p[l].ev = q[k].ev
      BY <3>3, <3>4 DEF Events
    <3>6. flush[i] = "batch"
      BY <1>1, <1>3, <2>1, <3>1, <3>5 DEF Sound, SentMarked, p
    <3>7. s = p
      BY <1>6, <2>1, <3>1, <3>6
    <3>8. \E r \in DOMAIN toRemove[i] : toRemove[i][r] = k - 1
      <4>1. k \in DOMAIN queue[i] /\ queue[i][k].ev \in sent[i]
        BY <1>5, <3>1, <3>3, <3>7 DEF p
      <4>2. ~disturbed[i] /\ ~early /\ SentMarked(i)
        BY <1>1, <1>3, <2>1, <3>1 DEF Sound
      <4>3. QED
        BY <1>1, <4>1, <4>2 DEF SentMarked
    <3>9. QED
      BY <2>2, <3>6, <3>8
  <2>8. Snapped(i)'
    <3>1. chain[i] \in Seq(Seq(Entry))
      BY <1>1 DEF QueueTypes
    <3>2. /\ Append(chain[i], q) # <<>>
          /\ Append(chain[i], q)[Len(Append(chain[i], q))] = q
      BY <3>1
    <3>3. QED
      <4>1. persist => chain'[i] = Append(chain[i], q)
        BY <2>1
      <4>2. persist' = persist /\ queue'[i] = q
        BY <1>3, <2>1
      <4>3. QED
        BY <3>2, <4>1, <4>2 DEF Snapped, EventsOf
  <2>9. QED
    BY <2>3, <2>4, <2>5, <2>6, <2>7, <2>8 DEF Sound
<1>15. ASSUME NEW j \in Instances, j # i PROVE Sound(j)'
  <2>1. Apart(j)
    BY <1>1, <1>3, <1>4, <1>15 DEF QueueTypes, Apart, BeginFlush, flushing
  <2>2. accepted' \in Nat /\ accepted <= accepted'
    <3>1. accepted' = accepted + 1
      BY <1>3
    <3>2. QED
      BY <1>2, <3>1
  <2>3. persist' = persist /\ (early => early') /\ overrun' = overrun /\ disk' = disk
    BY <1>3
  <2>4. QED
    BY <1>1, <2>1, <2>2, <2>3, OthersSound DEF QueueInv
<1>16. QED
  BY <1>11, <1>12, <1>13, <1>14, <1>15 DEF QueueInv, Held, Distinct, Events

\* What the file held comes after what the queue holds; over the bound, the oldest go.
LEMMA MergeInv == ASSUME QueueInv, NEW i \in Instances, Merge(i) PROVE QueueInv'
<1> DEFINE p == queue[i]
           items == restored[i]
           all == Merged(p, items)
           excess == IF Len(all) > MaxSize THEN Len(all) - MaxSize ELSE 0
           rest == SubSeq(all, excess + 1, Len(all))
           cut == SubSeq(all, 1, excess)
           live == life[i] = "live"
<1>1. QueueTypes /\ Sound(i) /\ load[i] = "read" /\ life[i] # "new"
  BY DEF QueueInv, Merge, Sound, Unmade
<1>2. accepted \in Nat /\ MaxSize \in Nat \ {0}
  BY <1>1, QueueConstants DEF QueueTypes
<1>3. /\ load' = [load EXCEPT ![i] = "none"] /\ restored' = [restored EXCEPT ![i] = <<>>]
      /\ queue' = [queue EXCEPT ![i] = rest]
      /\ got' = Note(got, i, Events(all)) /\ gone' = Note(gone, i, Events(cut))
      /\ Disturb(i, excess > 0 /\ flush[i] = "batch")
      /\ UNCHANGED <<persist, life, flush, base, waiting, toRemove, chain, left, disk, accepted,
                     sent, unsaved, early, overrun, faults>>
  BY DEF Merge, flushing, saving
<1>4. Held(p, accepted) /\ Held(items, accepted)
  BY <1>1 DEF Sound, Bounded
<1> HIDE DEF p, items
<1>5. /\ all \in Seq(Entry) /\ Distinct(all) /\ Len(p) <= Len(all)
      /\ Events(all) = Events(p) \cup Events(items)
      /\ \A k \in 1..Len(p) : all[k] = p[k]
      /\ p = <<>> => all = items
  BY <1>4, MergedSound DEF Held
<1>6. Len(p) \in Nat /\ Len(items) \in Nat /\ Len(items) <= MaxSize
  BY <1>4 DEF Held
<1> HIDE DEF all
<1>7. /\ Len(all) \in Nat /\ excess \in 0..Len(all) /\ Len(all) - excess <= MaxSize
      /\ Len(all) <= MaxSize => excess = 0
  BY <1>2, <1>5
<1> HIDE DEF excess
<1>8. /\ rest \in Seq(Entry) /\ Distinct(rest) /\ Len(rest) = Len(all) - excess
      /\ Events(all) = Events(cut) \cup Events(rest)
      /\ excess = 0 => rest = all
  BY <1>5, <1>7, Sliced
<1> HIDE DEF rest, cut
<1>9. Held(rest, accepted) /\ Held(<<>>, accepted) /\ Events(all) \subseteq 1..accepted
  <2>1. Events(all) \subseteq 1..accepted
    BY <1>4, <1>5 DEF Held
  <2>2. Len(rest) <= MaxSize
    BY <1>7, <1>8
  <2>3. Held(<<>>, accepted)
    BY <1>2 DEF Held, Distinct, Events
  <2>4. QED
    BY <1>8, <2>1, <2>2, <2>3 DEF Held
<1>10. /\ got' = [got EXCEPT ![i] = IF live THEN @ \cup Events(all) ELSE @]
       /\ gone' = [gone EXCEPT ![i] = IF live THEN @ \cup Events(cut) ELSE @]
       /\ disturbed' = [disturbed EXCEPT ![i] = @ \/ (excess > 0 /\ flush[i] = "batch" /\ live)]
  <2>1. got' = [got EXCEPT ![i] = IF live THEN @ \cup Events(all) ELSE @]
    BY <1>1, <1>3 DEF Note, QueueTypes
  <2>2. gone' = [gone EXCEPT ![i] = IF live THEN @ \cup Events(cut) ELSE @]
    BY <1>1, <1>3 DEF Note, QueueTypes
  <2>3. disturbed' = [disturbed EXCEPT ![i] = @ \/ (excess > 0 /\ flush[i] = "batch" /\ live)]
    BY <1>1, <1>3 DEF Disturb, QueueTypes
  <2>4. QED
    BY <2>1, <2>2, <2>3
<1> HIDE DEF live
<1>11. QueueTypes'
  <2>1. queue' \in [Instances -> Seq(Entry)] /\ restored' \in [Instances -> Seq(Entry)]
    BY <1>1, <1>3, <1>8 DEF QueueTypes
  <2>2. load' \in [Instances -> {"none", "reading", "read"}]
    BY <1>1, <1>3 DEF QueueTypes
  <2>3. Events(all) \subseteq Nat /\ Events(cut) \subseteq Nat
    BY <1>8, <1>9
  <2>4. got' \in [Instances -> SUBSET Nat] /\ gone' \in [Instances -> SUBSET Nat]
    BY <1>1, <1>10, <2>3 DEF QueueTypes
  <2>5. disturbed' \in [Instances -> BOOLEAN]
    BY <1>1, <1>10 DEF QueueTypes
  <2>6. QED
    BY <1>1, <1>3, <2>1, <2>2, <2>4, <2>5 DEF QueueTypes
<1>12. OneByOne'
  BY <1>3 DEF OneByOne, QueueInv
<1>13. Held(disk', accepted')
  BY <1>3 DEF QueueInv
<1>14. Sound(i)'
  <2>1. /\ load'[i] = "none" /\ restored'[i] = <<>> /\ queue'[i] = rest
        /\ got'[i] = (IF live THEN got[i] \cup Events(all) ELSE got[i])
        /\ gone'[i] = (IF live THEN gone[i] \cup Events(cut) ELSE gone[i])
        /\ disturbed'[i] = (disturbed[i] \/ (excess > 0 /\ flush[i] = "batch" /\ live))
    BY <1>1, <1>3, <1>10 DEF QueueTypes
  <2>2. Bounded(i)'
    <3>1. got'[i] \cup sent'[i] \cup gone'[i] \subseteq 1..accepted
      BY <1>1, <1>3, <1>8, <1>9, <2>1 DEF Sound, Bounded
    <3>2. Held(queue'[i], accepted') /\ Held(restored'[i], accepted')
      BY <1>3, <1>9, <2>1
    <3>3. /\ \A k \in DOMAIN chain'[i] : Held(chain'[i][k], accepted')
          /\ \A w \in waiting'[i] : w.ev \in 1..accepted'
          /\ left'[i] <= Len(chain'[i]) /\ (flush'[i] = "batch" <=> waiting'[i] # {})
      BY <1>1, <1>3 DEF Sound, Bounded
    <3>4. QED
      BY <1>3, <3>1, <3>2, <3>3 DEF Bounded, Held, Distinct, Events
  <2>3. Unmade(i)' /\ Untouched(i)'
    BY <1>1, <1>3, <2>1 DEF Unmade, Untouched
  <2>4. Aligned(i)'
    <3>1. SUFFICES ASSUME life[i] = "live", ~disturbed'[i], flush[i] = "batch" PROVE Aligned(i)'
      BY <1>3 DEF Aligned
    <3>2. ~disturbed[i] /\ ~(excess > 0)
      BY <2>1, <3>1 DEF live
    <3>3. rest = all
      BY <1>7, <1>8, <3>2
    <3>4. /\ Len(queue[i]) \in Nat /\ Len(queue'[i]) \in Nat /\ Len(queue[i]) <= Len(queue'[i])
          /\ \A k \in 1..Len(queue[i]) : queue'[i][k] = queue[i][k]
      BY <1>5, <1>6, <1>7, <2>1, <3>3 DEF p
    <3>5. sent[i] \subseteq sent'[i] /\ gone[i] \subseteq gone'[i] /\ Aligned(i)
      BY <1>1, <1>3, <2>1 DEF Sound
    <3>6. QED
      BY <1>1, <1>3, <3>2, <3>4, <3>5, AlignedOn
  <2>5. NoneLost(i)'
    <3>1. SUFFICES ASSUME life[i] = "live", ~disturbed'[i]
                   PROVE  got'[i] \subseteq Events(rest) \cup sent'[i] \cup gone'[i]
      BY <1>3, <2>1 DEF NoneLost, Events
    <3>2. ~disturbed[i]
      BY <2>1, <3>1
    <3>3. got[i] \subseteq Events(p) \cup sent[i] \cup gone[i]
      BY <1>1, <3>1, <3>2 DEF Sound, NoneLost, p
    <3>4. QED
      BY <1>3, <1>5, <1>8, <2>1, <3>1, <3>3 DEF live
  <2>6. SentMarked(i)' /\ Snapped(i)'
    <3>1. SUFFICES ASSUME life[i] = "live", ~early PROVE SentMarked(i)' /\ Snapped(i)'
      BY <1>3 DEF SentMarked, Snapped
    <3>2. /\ p = <<>> /\ sent[i] = {} /\ chain[i] = <<>> /\ (~overrun => items = disk)
      BY <1>1, <3>1 DEF Sound, Untouched, p, items
    <3>3. rest = items
      BY <1>5, <1>6, <1>7, <1>8, <3>2
    <3>4. QED
      BY <1>3, <2>1, <3>2, <3>3 DEF SentMarked, Snapped, EventsOf
  <2>7. QED
    BY <2>2, <2>3, <2>4, <2>5, <2>6 DEF Sound
<1>15. ASSUME NEW j \in Instances, j # i PROVE Sound(j)'
  <2>1. Apart(j)
    BY <1>1, <1>3, <1>10, <1>15 DEF QueueTypes, Apart
  <2>2. accepted' = accepted /\ persist' = persist /\ early' = early /\ overrun' = overrun /\ disk' = disk
    BY <1>3
  <2>3. QED
    BY <1>1, <1>2, <2>1, <2>2, OthersSound DEF QueueInv
<1>16. QED
  BY <1>11, <1>12, <1>13, <1>14, <1>15 DEF QueueInv, Held, Distinct, Events

-----------------------------------------------------------------------------
(* Answers *)

\* The same events in the same places.
Like(q, p) ==
  /\ q \in Seq(Entry) /\ Distinct(q) /\ Len(q) = Len(p) /\ DOMAIN q = DOMAIN p
  /\ \A k \in DOMAIN p : q[k].ev = p[k].ev

\* Delivery w is answered: S was delivered, T given up, and if any its index is pushed.
Answered(i, w, q, indices, S, T) ==
  /\ Like(q, queue[i])
  /\ \/ indices = toRemove[i] /\ S = {} /\ T = {}
     \/ indices = Append(toRemove[i], w.at) /\ S \cup T = {w.ev}
  /\ Answer(i, w, q, indices)
  /\ sent' = Note(sent, i, S) /\ gone' = Note(gone, i, T)
  /\ UNCHANGED <<persist, life, loading, timer, disk, accepted, got, unsaved, early, overrun, faults>>

\* Lists with the same events in the same places have the same events.
LEMMA LikeEvents == ASSUME NEW q, NEW p, Like(q, p) PROVE Events(q) = Events(p) /\ EventsOf(q) = EventsOf(p)
BY DEF Like, Events, EventsOf

\* After an answer that disturbs nothing, the indices are those of what left, in the order of
\* the queue, and the other deliveries are in their places.
LEMMA AnswerMarks ==
  ASSUME QueueTypes, NEW i \in Instances, Sound(i), NEW w \in waiting[i], NEW q, NEW indices, NEW S, NEW T,
         Answered(i, w, q, indices, S, T), life[i] = "live", ~disturbed'[i]
  PROVE  /\ \A r \in DOMAIN indices :
              /\ indices[r] < Len(q) /\ indices[r] < base[i] + BatchSize
              /\ q[indices[r] + 1].ev \in sent'[i] \cup gone'[i]
         /\ \A r, s \in DOMAIN indices : r < s => indices[r] < indices[s]
         /\ \A x \in waiting[i] \ {w} :
              /\ base[i] <= x.at /\ x.at < base[i] + BatchSize /\ x.at < Len(q)
              /\ q[x.at + 1].ev = x.ev
              /\ \A r \in DOMAIN indices : indices[r] # x.at
         /\ \A x, y \in waiting[i] \ {w} : x.at = y.at => x = y
         /\ got[i] \subseteq Events(q) \cup sent'[i] \cup gone'[i]
         /\ ~early => \A k \in DOMAIN q :
              q[k].ev \in sent'[i] => \E r \in DOMAIN indices : indices[r] = k - 1
<1> DEFINE p == queue[i]
           t == toRemove[i]
           pushed == indices = Append(t, w.at) /\ S \cup T = {w.ev}
<1>1. /\ Like(q, p) /\ sent'[i] = sent[i] \cup S /\ gone'[i] = gone[i] \cup T
      /\ (indices = t /\ S = {} /\ T = {}) \/ pushed
  BY DEF Answered, Note, QueueTypes
<1>2. ~disturbed[i] /\ ~(Len(indices) > Len(t) /\ \E k \in DOMAIN t : t[k] > w.at)
  BY DEF Answered, Answer, Disturb, QueueTypes
<1>3. flush[i] = "batch" /\ Aligned(i) /\ NoneLost(i) /\ SentMarked(i)
  BY DEF Sound, Bounded
<1>4. /\ t \in Seq(Nat) /\ w.at \in Nat /\ p \in Seq(Entry) /\ Len(p) \in Nat /\ DOMAIN p = 1..Len(p)
      /\ Len(t) \in Nat /\ DOMAIN t = 1..Len(t)
      /\ base[i] \in Nat /\ \A x \in waiting[i] : x.at \in Nat
  BY DEF QueueTypes, Call
<1>5. /\ q \in Seq(Entry) /\ Distinct(q) /\ Len(q) = Len(p) /\ DOMAIN q = DOMAIN p
      /\ \A k \in DOMAIN p : q[k].ev = p[k].ev
      /\ Events(q) = Events(p)
  BY <1>1, LikeEvents DEF Like
<1>6. \A n \in Nat : n < Len(p) => n + 1 \in DOMAIN p /\ q[n + 1].ev = p[n + 1].ev
  BY <1>4, <1>5
<1>7. /\ \A r \in DOMAIN t : /\ t[r] \in Nat /\ t[r] < Len(p) /\ t[r] < base[i] + BatchSize
                             /\ p[t[r] + 1].ev \in sent[i] \cup gone[i]
      /\ \A r, s \in DOMAIN t : r < s => t[r] < t[s]
      /\ \A x \in waiting[i] : /\ base[i] <= x.at /\ x.at < base[i] + BatchSize /\ x.at < Len(p)
                               /\ p[x.at + 1].ev = x.ev /\ \A r \in DOMAIN t : t[r] # x.at
      /\ \A x, y \in waiting[i] : x.at = y.at => x = y
  BY <1>2, <1>3, <1>4 DEF Aligned
<1> HIDE DEF p, t
<1>8. pushed => /\ DOMAIN indices = 1..Len(t) + 1 /\ indices[Len(t) + 1] = w.at
                /\ \A r \in DOMAIN t : indices[r] = t[r]
                /\ \A r \in DOMAIN t : t[r] < w.at
  <2>1. SUFFICES ASSUME pushed
                 PROVE  /\ DOMAIN indices = 1..Len(t) + 1 /\ indices[Len(t) + 1] = w.at
                        /\ \A r \in DOMAIN t : indices[r] = t[r]
                        /\ \A r \in DOMAIN t : t[r] < w.at
    OBVIOUS
  <2>2. /\ DOMAIN indices = 1..Len(t) + 1 /\ indices[Len(t) + 1] = w.at
        /\ \A r \in DOMAIN t : indices[r] = t[r]
        /\ Len(indices) = Len(t) + 1
    BY <1>4, <2>1
  <2>3. \A r \in DOMAIN t : t[r] < w.at
    BY <1>2, <1>4, <1>7, <2>2
  <2>4. QED
    BY <2>2, <2>3
<1>9. \A r \in DOMAIN indices :
        \/ r \in DOMAIN t /\ indices[r] = t[r]
        \/ pushed /\ r = Len(t) + 1 /\ indices[r] = w.at
  <2>1. CASE indices = t
    BY <2>1
  <2>2. CASE pushed
    <3> HIDE DEF pushed
    <3>1. QED
      BY <1>4, <1>8, <2>2
  <2>3. QED
    BY <1>1, <2>1, <2>2
<1>10. /\ \A r \in DOMAIN t : r \in DOMAIN indices /\ indices[r] = t[r]
       /\ S # {} => pushed /\ S = {w.ev} /\ \E r \in DOMAIN indices : indices[r] = w.at
       /\ pushed => w.ev \in sent'[i] \cup gone'[i]
  <2>1. CASE indices = t /\ S = {} /\ T = {}
    <3>1. ~pushed
      <4> DEFINE a == Append(t, w.at)
      <4>1. Len(a) = Len(t) + 1
        BY <1>4
      <4> HIDE DEF a
      <4>2. a # t
        BY <1>4, <4>1
      <4>3. QED
        BY <2>1, <4>2 DEF a
    <3> HIDE DEF pushed
    <3>2. QED
      BY <2>1, <3>1
  <2>2. CASE pushed
    <3>1. w.ev \in sent'[i] \cup gone'[i] /\ (S # {} => S = {w.ev})
      BY <1>1, <2>2
    <3> HIDE DEF pushed
    <3>2. Len(t) + 1 \in DOMAIN indices /\ \A r \in DOMAIN t : r \in DOMAIN indices
      BY <1>4, <1>8, <2>2
    <3>3. QED
      BY <1>8, <2>2, <3>1, <3>2
  <2>3. QED
    BY <1>1, <2>1, <2>2
<1> HIDE DEF pushed
<1>11. ASSUME NEW r \in DOMAIN indices
       PROVE  /\ indices[r] < Len(q) /\ indices[r] < base[i] + BatchSize
              /\ q[indices[r] + 1].ev \in sent'[i] \cup gone'[i]
  <2>1. CASE r \in DOMAIN t /\ indices[r] = t[r]
    BY <1>1, <1>5, <1>6, <1>7, <2>1
  <2>2. CASE pushed /\ indices[r] = w.at
    BY <1>4, <1>5, <1>6, <1>7, <1>10, <2>2
  <2>3. QED
    BY <1>9, <2>1, <2>2
<1>12. ASSUME NEW r \in DOMAIN indices, NEW s \in DOMAIN indices, r < s PROVE indices[r] < indices[s]
  <2>1. CASE r \in DOMAIN t /\ indices[r] = t[r] /\ s \in DOMAIN t /\ indices[s] = t[s]
    BY <1>7, <1>12, <2>1
  <2>2. CASE r \in DOMAIN t /\ indices[r] = t[r] /\ pushed /\ indices[s] = w.at
    BY <1>8, <2>2
  <2>3. CASE r = Len(t) + 1 /\ (s \in DOMAIN t \/ s = Len(t) + 1)
    BY <1>4, <1>12, <2>3
  <2>4. QED
    BY <1>9, <2>1, <2>2, <2>3
<1>13. ASSUME NEW x \in waiting[i] \ {w}
       PROVE  /\ base[i] <= x.at /\ x.at < base[i] + BatchSize /\ x.at < Len(q)
              /\ q[x.at + 1].ev = x.ev
              /\ \A r \in DOMAIN indices : indices[r] # x.at
  <2>1. x.at # w.at
    BY <1>7
  <2>2. QED
    BY <1>4, <1>5, <1>6, <1>7, <1>9, <2>1
<1>14. got[i] \subseteq Events(q) \cup sent'[i] \cup gone'[i]
  BY <1>1, <1>2, <1>3, <1>5 DEF NoneLost, p
<1>15. ASSUME ~early, NEW k \in DOMAIN q, q[k].ev \in sent'[i]
       PROVE  \E r \in DOMAIN indices : indices[r] = k - 1
  <2>1. CASE q[k].ev \in sent[i]
    <3>1. \E r \in DOMAIN t : t[r] = k - 1
      BY <1>2, <1>3, <1>5, <1>15, <2>1 DEF SentMarked, p, t
    <3>2. QED
      BY <1>10, <3>1
  <2>2. CASE q[k].ev \in S
    <3>1. q[k].ev = w.ev /\ \E r \in DOMAIN indices : indices[r] = w.at
      BY <1>10, <2>2
    <3>2. w.at + 1 \in DOMAIN q /\ q[w.at + 1].ev = w.ev
      BY <1>4, <1>5, <1>6, <1>7
    <3>3. k = w.at + 1
      BY <1>5, <3>1, <3>2 DEF Distinct
    <3>4. k - 1 = w.at
      BY <1>4, <3>3
    <3>5. QED
      BY <3>1, <3>4
  <2>3. QED
    BY <1>1, <1>15, <2>1, <2>2
<1>16. QED
  BY <1>7, <1>11, <1>12, <1>13, <1>14, <1>15

\* An answer keeps what holds of the queue: the batch goes on, the next one begins, or the
\* flush ends with the removal and a write.
LEMMA AnsweredInv ==
  ASSUME QueueInv, NEW i \in Instances, NEW w \in waiting[i], NEW q, NEW indices, NEW S, NEW T,
         Answered(i, w, q, indices, S, T)
  PROVE  QueueInv'
<1> DEFINE next == base[i] + BatchSize
           rest == Removed(indices, q)
           live == life[i] = "live"
           More == /\ waiting' = [waiting EXCEPT ![i] = @ \ {w}] /\ queue' = [queue EXCEPT ![i] = q]
                   /\ toRemove' = [toRemove EXCEPT ![i] = indices] /\ waiting[i] # {w}
                   /\ UNCHANGED <<flush, base, chain, left>>
           Again == /\ waiting' = [waiting EXCEPT ![i] = Batch(q, next)] /\ next < Len(q)
                    /\ queue' = [queue EXCEPT ![i] = q] /\ base' = [base EXCEPT ![i] = next]
                    /\ toRemove' = [toRemove EXCEPT ![i] = indices]
                    /\ UNCHANGED <<flush, chain, left>>
           Over == /\ waiting' = [waiting EXCEPT ![i] = {}] /\ queue' = [queue EXCEPT ![i] = rest]
                   /\ toRemove' = [toRemove EXCEPT ![i] = <<>>] /\ base' = [base EXCEPT ![i] = 0]
                   /\ flush' = [flush EXCEPT ![i] = IF persist THEN "saving" ELSE "idle"]
                   /\ chain' = [chain EXCEPT ![i] = IF persist THEN Append(@, rest) ELSE @]
                   /\ left' = [left EXCEPT ![i] = Len(chain'[i])]
<1>1. QueueTypes /\ Sound(i) /\ flush[i] = "batch"
  BY DEF QueueInv, Sound, Bounded
<1>2. More \/ Again \/ Over
  <2>1. CASE waiting[i] # {w}
    BY <2>1 DEF Answered, Answer, saving
  <2>2. CASE waiting[i] = {w}
    BY <2>2 DEF Answered, Answer, BatchDone, Save, saving
  <2>3. QED
    BY <2>1, <2>2
<1>3. /\ Like(q, queue[i])
      /\ disturbed' = [disturbed EXCEPT ![i] = disturbed'[i]] /\ disturbed'[i] \in BOOLEAN
      /\ sent' = [sent EXCEPT ![i] = IF live THEN @ \cup S ELSE @]
      /\ gone' = [gone EXCEPT ![i] = IF live THEN @ \cup T ELSE @]
      /\ S \cup T \subseteq {w.ev}
      /\ UNCHANGED <<persist, life, load, restored, timer, disk, accepted, got, unsaved, early, overrun, faults>>
  <2>1. disturbed' = [disturbed EXCEPT ![i] = disturbed'[i]] /\ disturbed'[i] \in BOOLEAN
    BY <1>1 DEF Answered, Answer, Disturb, QueueTypes
  <2>2. sent' = [sent EXCEPT ![i] = IF live THEN @ \cup S ELSE @]
    BY <1>1 DEF Answered, Note, QueueTypes
  <2>3. gone' = [gone EXCEPT ![i] = IF live THEN @ \cup T ELSE @]
    BY <1>1 DEF Answered, Note, QueueTypes
  <2>4. QED
    BY <2>1, <2>2, <2>3 DEF Answered, loading
<1>4. Held(queue[i], accepted) /\ w.ev \in 1..accepted
  BY <1>1 DEF Sound, Bounded
<1>5. /\ q \in Seq(Entry) /\ Distinct(q) /\ Held(q, accepted) /\ Len(q) \in Nat /\ DOMAIN q = 1..Len(q)
      /\ Events(q) = Events(queue[i]) /\ EventsOf(q) = EventsOf(queue[i]) /\ Len(q) = Len(queue[i])
  <2>1. q \in Seq(Entry) /\ Distinct(q) /\ Len(q) = Len(queue[i])
    BY <1>3 DEF Like
  <2>2. Events(q) = Events(queue[i]) /\ EventsOf(q) = EventsOf(queue[i])
    BY <1>3, LikeEvents
  <2>3. QED
    BY <1>4, <2>1, <2>2 DEF Held
<1>6. indices \in Seq(Nat)
  <2>1. toRemove[i] \in Seq(Nat) /\ w.at \in Nat
    BY <1>1 DEF QueueTypes, Call
  <2> DEFINE t == toRemove[i]
             a == w.at
  <2>2. indices = t \/ indices = Append(t, a)
    BY DEF Answered
  <2>3. t \in Seq(Nat) /\ a \in Nat
    BY <2>1
  <2> HIDE DEF t, a
  <2>4. QED
    BY <2>2, <2>3
<1>7. rest \in Seq(Entry) /\ Held(rest, accepted) /\ Events(rest) \subseteq Events(q)
  <2>1. rest \in Seq(Entry) /\ Distinct(rest) /\ Len(rest) <= Len(q) /\ Events(rest) \subseteq Events(q)
    BY <1>5, <1>6, RemovedSound
  <2> HIDE DEF rest
  <2>2. Len(rest) \in Nat /\ MaxSize \in Nat
    BY <2>1, QueueConstants
  <2>3. Len(q) <= MaxSize /\ Events(q) \subseteq 1..accepted
    BY <1>5 DEF Held
  <2>4. QED
    BY <1>5, <2>1, <2>2, <2>3 DEF Held
<1>8. next \in Nat /\ base[i] \in Nat /\ next = base[i] + BatchSize /\ BatchSize \in Nat \ {0} /\ base[i] < next
  BY <1>1, QueueConstants DEF QueueTypes
<1> HIDE DEF rest, next, live
<1>9. next < Len(q) =>
        /\ Batch(q, next) \subseteq Call /\ Batch(q, next) # {}
        /\ \A x \in Batch(q, next) : /\ next <= x.at /\ x.at < next + BatchSize /\ x.at < Len(q)
                                     /\ q[x.at + 1].ev = x.ev /\ x.ev \in Events(q)
        /\ \A x, y \in Batch(q, next) : x.at = y.at => x = y
  BY <1>5, <1>8, BatchOf
<1>10. QueueTypes'
  <2>1. queue' \in [Instances -> Seq(Entry)]
    BY <1>1, <1>2, <1>5, <1>7 DEF QueueTypes
  <2>2. waiting' \in [Instances -> SUBSET Call]
    <3>1. waiting[i] \ {w} \subseteq Call
      BY <1>1 DEF QueueTypes
    <3>2. QED
      BY <1>1, <1>2, <1>9, <3>1 DEF QueueTypes
  <2>3. toRemove' \in [Instances -> Seq(Nat)]
    <3>1. toRemove' = [toRemove EXCEPT ![i] = indices] \/ toRemove' = [toRemove EXCEPT ![i] = <<>>]
      BY <1>2
    <3>2. indices \in Seq(Nat) /\ <<>> \in Seq(Nat) /\ toRemove \in [Instances -> Seq(Nat)]
      BY <1>1, <1>6 DEF QueueTypes
    <3>3. QED
      BY <3>1, <3>2
  <2>a. base' \in [Instances -> Nat]
    <3>1. base' = base \/ base' = [base EXCEPT ![i] = next] \/ base' = [base EXCEPT ![i] = 0]
      BY <1>2
    <3>2. base \in [Instances -> Nat] /\ 0 \in Nat
      BY <1>1 DEF QueueTypes
    <3>3. QED
      BY <1>8, <3>1, <3>2
  <2>4. flush' \in [Instances -> {"idle", "batch", "saving"}]
    BY <1>1, <1>2 DEF QueueTypes
  <2>5. chain' \in [Instances -> Seq(Seq(Entry))]
    <3>1. chain \in [Instances -> Seq(Seq(Entry))]
      BY <1>1 DEF QueueTypes
    <3>2. chain' = chain \/ chain' = [chain EXCEPT ![i] = Append(@, rest)]
      BY <1>2, <3>1
    <3>3. Append(chain[i], rest) \in Seq(Seq(Entry))
      BY <1>7, <3>1
    <3>4. QED
      BY <3>1, <3>2, <3>3
  <2>6. left' \in [Instances -> Nat]
    <3>1. Len(chain'[i]) \in Nat
      BY <2>5
    <3>2. left' = left \/ left' = [left EXCEPT ![i] = Len(chain'[i])]
      BY <1>2
    <3>3. QED
      BY <1>1, <3>1, <3>2 DEF QueueTypes
  <2>7. disturbed' \in [Instances -> BOOLEAN]
    BY <1>1, <1>3 DEF QueueTypes
  <2>8. S \subseteq Nat /\ T \subseteq Nat
    BY <1>3, <1>4
  <2>9. sent' \in [Instances -> SUBSET Nat] /\ gone' \in [Instances -> SUBSET Nat]
    BY <1>1, <1>3, <2>8 DEF QueueTypes
  <2>10. QED
    BY <1>1, <1>3, <2>1, <2>2, <2>3, <2>a, <2>4, <2>5, <2>6, <2>7, <2>9 DEF QueueTypes
<1>11. OneByOne'
  BY <1>3 DEF OneByOne, QueueInv
<1>12. Held(disk', accepted')
  BY <1>3 DEF QueueInv
<1>13. Sound(i)'
  <2>1. ~(live /\ load[i] # "none" /\ ~early) /\ life[i] # "new"
    BY <1>1 DEF Sound, Untouched, Unmade, live
  <2>2. Unmade(i)' /\ Untouched(i)'
    BY <1>3, <2>1 DEF Unmade, Untouched, live
  <2>3. got'[i] \cup sent'[i] \cup gone'[i] \subseteq 1..accepted'
    <3>1. sent'[i] \subseteq sent[i] \cup S /\ gone'[i] \subseteq gone[i] \cup T
      BY <1>1, <1>3 DEF QueueTypes
    <3>2. QED
      BY <1>1, <1>3, <1>4, <3>1 DEF Sound, Bounded
  <2>4. Held(restored'[i], accepted')
    BY <1>1, <1>3 DEF Sound, Bounded
  <2> DEFINE marks ==
        /\ \A r \in DOMAIN indices :
             /\ indices[r] < Len(q) /\ indices[r] < base[i] + BatchSize
             /\ q[indices[r] + 1].ev \in sent'[i] \cup gone'[i]
        /\ \A r, s \in DOMAIN indices : r < s => indices[r] < indices[s]
      others ==
        /\ \A x \in waiting[i] \ {w} :
             /\ base[i] <= x.at /\ x.at < base[i] + BatchSize /\ x.at < Len(q)
             /\ q[x.at + 1].ev = x.ev
             /\ \A r \in DOMAIN indices : indices[r] # x.at
        /\ \A x, y \in waiting[i] \ {w} : x.at = y.at => x = y
      none == got[i] \subseteq Events(q) \cup sent'[i] \cup gone'[i]
      marked == ~early => \A k \in DOMAIN q :
                  q[k].ev \in sent'[i] => \E r \in DOMAIN indices : indices[r] = k - 1
  <2>5. life[i] = "live" /\ ~disturbed'[i] => marks /\ others /\ none /\ marked
    <3>1. SUFFICES ASSUME life[i] = "live", ~disturbed'[i] PROVE marks /\ others /\ none /\ marked
      OBVIOUS
    <3> HIDE DEF marks, others, none, marked
    <3>2. QED
      BY <1>1, <3>1, AnswerMarks DEF marks, others, none, marked
  <2> HIDE DEF marks, others, none, marked
  <2>6. CASE queue'[i] = q /\ flush'[i] = "batch" /\ toRemove'[i] = indices
             /\ chain'[i] = chain[i] /\ left'[i] = left[i] /\ waiting'[i] # {}
    <3>1. (\A x \in waiting'[i] : x.ev \in 1..accepted') => Bounded(i)'
      <4>1. SUFFICES ASSUME \A x \in waiting'[i] : x.ev \in 1..accepted' PROVE Bounded(i)'
        OBVIOUS
      <4>2. Held(queue'[i], accepted')
        BY <1>3, <1>5, <2>6
      <4>3. /\ \A k \in DOMAIN chain'[i] : Held(chain'[i][k], accepted')
            /\ left'[i] <= Len(chain'[i])
        BY <1>1, <1>3, <2>6 DEF Sound, Bounded
      <4>4. QED
        BY <2>3, <2>4, <2>6, <4>1, <4>2, <4>3 DEF Bounded, Held, Distinct, Events
    <3>2. NoneLost(i)'
      BY <1>3, <2>5, <2>6 DEF NoneLost, Events, none
    <3>3. SentMarked(i)'
      BY <1>3, <2>5, <2>6 DEF SentMarked, marked
    <3>4. Snapped(i)'
      <4>1. EventsOf(queue'[i]) = EventsOf(queue[i])
        BY <1>5, <2>6
      <4>2. QED
        BY <1>1, <1>3, <2>6, <4>1 DEF Sound, Snapped, EventsOf
    <3>5. CASE More
      <4>1. waiting'[i] = waiting[i] \ {w} /\ base'[i] = base[i]
        BY <1>1, <3>5 DEF QueueTypes
      <4>2. Bounded(i)'
        BY <1>1, <1>3, <3>1, <4>1 DEF Sound, Bounded
      <4>3. Aligned(i)'
        BY <1>3, <2>5, <2>6, <4>1 DEF Aligned, marks, others
      <4>4. QED
        BY <2>2, <3>2, <3>3, <3>4, <4>2, <4>3 DEF Sound
    <3>6. CASE Again
      <4>1. waiting'[i] = Batch(q, next) /\ base'[i] = next /\ next < Len(q)
        BY <1>1, <3>6 DEF QueueTypes
      <4>2. Bounded(i)'
        BY <1>3, <1>5, <1>9, <3>1, <4>1 DEF Held
      <4>3. Aligned(i)'
        <5>1. SUFFICES ASSUME life[i] = "live", ~disturbed'[i] PROVE Aligned(i)'
          BY <1>3 DEF Aligned
        <5>2. \A r \in DOMAIN indices : indices[r] \in Nat
          BY <1>6
        <5>3. \A r \in DOMAIN indices : indices[r] < next /\ indices[r] < next + BatchSize
          BY <1>8, <2>5, <5>1, <5>2 DEF marks
        <5>4. /\ \A r \in DOMAIN indices : indices[r] < Len(q) /\ q[indices[r] + 1].ev \in sent'[i] \cup gone'[i]
              /\ \A r, s \in DOMAIN indices : r < s => indices[r] < indices[s]
          BY <2>5, <5>1 DEF marks
        <5>5. \A x \in Batch(q, next) : x.at \in Nat
          BY <1>9, <4>1 DEF Call
        <5>6. \A x \in Batch(q, next), r \in DOMAIN indices : indices[r] # x.at
          BY <1>8, <1>9, <4>1, <5>2, <5>3, <5>5
        <5>7. QED
          BY <1>9, <2>6, <4>1, <5>3, <5>4, <5>6 DEF Aligned
      <4>4. QED
        BY <2>2, <3>2, <3>3, <3>4, <4>2, <4>3 DEF Sound
    <3>7. CASE Over
      BY <1>1, <2>6, <3>7 DEF QueueTypes
    <3>8. QED
      BY <1>2, <3>5, <3>6, <3>7
  <2>7. CASE Over
    <3>1. /\ waiting'[i] = {} /\ queue'[i] = rest /\ toRemove'[i] = <<>>
          /\ flush'[i] # "batch" /\ left'[i] = Len(chain'[i])
          /\ chain'[i] = IF persist THEN Append(chain[i], rest) ELSE chain[i]
      BY <1>1, <2>7 DEF QueueTypes
    <3>2. chain[i] \in Seq(Seq(Entry)) /\ chain'[i] \in Seq(Seq(Entry))
      BY <1>1, <1>10 DEF QueueTypes
    <3>3. Bounded(i)'
      <4>1. Held(queue'[i], accepted')
        BY <1>3, <1>7, <3>1
      <4>2. \A k \in DOMAIN chain'[i] : Held(chain'[i][k], accepted')
        <5>1. \A k \in DOMAIN chain[i] : Held(chain[i][k], accepted)
          BY <1>1 DEF Sound, Bounded
        <5>2. QED
          BY <1>3, <1>7, <3>1, <3>2, <5>1
      <4>3. left'[i] <= Len(chain'[i])
        BY <3>1, <3>2
      <4>4. QED
        BY <2>3, <2>4, <3>1, <4>1, <4>2, <4>3 DEF Bounded, Held, Distinct, Events
    <3>4. Aligned(i)'
      BY <3>1 DEF Aligned
    <3>5. life[i] = "live" /\ ~disturbed'[i] =>
            \A k \in DOMAIN q : q[k].ev \in Events(rest) <=> \A m \in DOMAIN indices : indices[m] # k - 1
      BY <1>5, <1>6, <2>5, RemovedExact DEF marks, rest
    <3>6. NoneLost(i)'
      <4>1. SUFFICES ASSUME life[i] = "live", ~disturbed'[i]
                     PROVE  got'[i] \subseteq Events(rest) \cup sent'[i] \cup gone'[i]
        BY <1>3, <3>1 DEF NoneLost, Events
      <4>2. ASSUME NEW k \in DOMAIN q, q[k].ev \notin Events(rest)
            PROVE  q[k].ev \in sent'[i] \cup gone'[i]
        <5>1. PICK m \in DOMAIN indices : indices[m] = k - 1
          BY <3>5, <4>1, <4>2
        <5>2. indices[m] + 1 = k
          BY <1>5, <5>1
        <5>3. QED
          BY <2>5, <4>1, <5>2 DEF marks
      <4>3. Events(q) \subseteq Events(rest) \cup sent'[i] \cup gone'[i]
        BY <4>2 DEF Events
      <4>4. QED
        BY <1>3, <2>5, <4>1, <4>3 DEF none
    <3>7. SentMarked(i)'
      <4>1. SUFFICES ASSUME life[i] = "live", ~disturbed'[i], ~early, NEW n \in DOMAIN rest, rest[n].ev \in sent'[i]
                     PROVE  FALSE
        BY <1>3, <3>1 DEF SentMarked
      <4>2. rest[n].ev \in Events(rest)
        BY DEF Events
      <4>3. PICK k \in DOMAIN q : q[k].ev = rest[n].ev
        BY <1>7, <4>2 DEF Events
      <4>4. \E r \in DOMAIN indices : indices[r] = k - 1
        BY <2>5, <4>1, <4>3 DEF marked
      <4>5. QED
        BY <3>5, <4>1, <4>2, <4>3, <4>4
    <3>8. Snapped(i)'
      <4>1. /\ Append(chain[i], rest) # <<>>
            /\ Append(chain[i], rest)[Len(Append(chain[i], rest))] = rest
        <5>1. chain[i] \in Seq(Seq(Entry)) /\ rest \in Seq(Entry)
          BY <1>7, <3>2
        <5>2. QED
          BY <5>1
      <4>2. persist => chain'[i] = Append(chain[i], rest)
        BY <3>1
      <4>3. QED
        BY <1>3, <3>1, <4>1, <4>2 DEF Snapped, EventsOf
    <3>9. QED
      BY <2>2, <3>3, <3>4, <3>6, <3>7, <3>8 DEF Sound
  <2>8. CASE More \/ Again
    <3>1. queue'[i] = q /\ flush'[i] = "batch" /\ toRemove'[i] = indices
          /\ chain'[i] = chain[i] /\ left'[i] = left[i]
      BY <1>1, <2>8 DEF QueueTypes
    <3>2. waiting'[i] # {}
      BY <1>1, <1>9, <2>8 DEF QueueTypes
    <3>3. QED
      BY <2>6, <3>1, <3>2
  <2>9. QED
    BY <1>2, <2>7, <2>8
<1>14. ASSUME NEW j \in Instances, j # i PROVE Sound(j)'
  <2>1. /\ queue'[j] = queue[j] /\ waiting'[j] = waiting[j] /\ toRemove'[j] = toRemove[j]
        /\ base'[j] = base[j] /\ flush'[j] = flush[j] /\ chain'[j] = chain[j] /\ left'[j] = left[j]
    BY <1>1, <1>2, <1>14 DEF QueueTypes
  <2>2. sent'[j] = sent[j] /\ gone'[j] = gone[j] /\ disturbed'[j] = disturbed[j]
    BY <1>1, <1>3, <1>14 DEF QueueTypes
  <2>3. Apart(j)
    BY <1>3, <2>1, <2>2 DEF Apart
  <2>4. accepted' = accepted /\ accepted \in Nat /\ persist' = persist /\ early' = early /\ overrun' = overrun /\ disk' = disk
    BY <1>1, <1>3, QueueConstants DEF QueueTypes
  <2>5. QED
    BY <1>1, <2>3, <2>4, OthersSound DEF QueueInv
<1>15. QED
  BY <1>10, <1>11, <1>12, <1>13, <1>14 DEF QueueInv, Held, Distinct, Events

\* A delivery is answered: by a webhook, by none with attempts left, or for the last time.
LEMMA DeliverInv == ASSUME QueueInv, NEW i \in Instances, Deliver(i) PROVE QueueInv'
<1>1. QueueTypes /\ Sound(i)
  BY DEF QueueInv
<1>2. UNCHANGED <<persist, life, loading, timer, disk, accepted, got, unsaved, early, overrun, faults>>
  BY DEF Deliver
<1>3. PICK w \in waiting[i] : Delivered(i, w) \/ Failed(i, w)
  BY DEF Deliver
<1>4. Like(queue[i], queue[i])
  BY <1>1 DEF Like, Sound, Bounded, Held
<1>5. Note(gone, i, {}) = gone /\ Note(sent, i, {}) = sent
  BY <1>1 DEF Note, QueueTypes
<1>6. CASE Delivered(i, w)
  <2>1. {w.ev} \cup {} = {w.ev}
    OBVIOUS
  <2>2. Answered(i, w, queue[i], Append(toRemove[i], w.at), {w.ev}, {})
    BY <1>2, <1>4, <1>5, <1>6, <2>1 DEF Delivered, Answered
  <2>3. QED
    BY <2>2, AnsweredInv
<1>7. CASE Failed(i, w) /\ w.n < MaxAttempts
  <2> DEFINE q == [k \in DOMAIN queue[i] |-> IF queue[i][k] = [ev |-> w.ev, n |-> w.n]
                                             THEN [ev |-> w.ev, n |-> w.n + 1] ELSE queue[i][k]]
  <2>1. w.ev \in Nat /\ w.n \in 0..MaxAttempts /\ queue[i] \in Seq(Entry) /\ Distinct(queue[i])
    BY <1>1 DEF QueueTypes, Call, Sound, Bounded, Held
  <2>2. Like(q, queue[i])
    <3> DEFINE p == queue[i]
               ev == w.ev
               n == w.n
               r == [k \in DOMAIN p |-> IF p[k] = [ev |-> ev, n |-> n]
                                        THEN [ev |-> ev, n |-> n + 1] ELSE p[k]]
    <3>1. p \in Seq(Entry) /\ Distinct(p) /\ ev \in Nat /\ n \in 0..MaxAttempts /\ n < MaxAttempts
      BY <1>7, <2>1
    <3>2. r = q
      OBVIOUS
    <3> HIDE DEF p, ev, n, q
    <3>3. /\ r \in Seq(Entry) /\ Distinct(r) /\ Len(r) = Len(p)
          /\ DOMAIN r = DOMAIN p /\ \A k \in DOMAIN p : r[k].ev = p[k].ev
      BY <3>1, Retried
    <3> HIDE DEF r
    <3>4. QED
      BY <3>2, <3>3 DEF Like, p
  <2>3. Answer(i, w, q, toRemove[i]) /\ gone' = gone /\ sent' = sent
    BY <1>7 DEF Failed
  <2> HIDE DEF q
  <2>4. Answered(i, w, q, toRemove[i], {}, {})
    BY <1>2, <1>5, <2>2, <2>3 DEF Answered
  <2>5. QED
    BY <2>4, AnsweredInv
<1>8. CASE Failed(i, w) /\ ~(w.n < MaxAttempts)
  <2>1. Answer(i, w, queue[i], Append(toRemove[i], w.at)) /\ gone' = Note(gone, i, {w.ev}) /\ sent' = sent
    BY <1>8 DEF Failed
  <2>2. {} \cup {w.ev} = {w.ev}
    OBVIOUS
  <2>3. Answered(i, w, queue[i], Append(toRemove[i], w.at), {}, {w.ev})
    BY <1>2, <1>4, <1>5, <2>1, <2>2 DEF Answered
  <2>4. QED
    BY <2>3, AnsweredInv
<1>9. QED
  BY <1>3, <1>6, <1>7, <1>8

-----------------------------------------------------------------------------
(* The queue is sound *)

\* Every step keeps the invariant.
LEMMA QueueNextInv == QueueInv /\ ClientInv /\ [QueueNext]_queueVars => QueueInv'
<1> SUFFICES ASSUME QueueInv, ClientInv, [QueueNext]_queueVars PROVE QueueInv'
  OBVIOUS
<1>1. ASSUME NEW i \in Instances, Construct(i) PROVE QueueInv'
  BY <1>1, ConstructInv
<1>2. ASSUME NEW i \in Instances, ReadFile(i) PROVE QueueInv'
  BY <1>2, ReadFileInv
<1>3. ASSUME NEW i \in Instances, Merge(i) PROVE QueueInv'
  BY <1>3, MergeInv
<1>4. ASSUME NEW i \in Instances, Enqueue(i) PROVE QueueInv'
  BY <1>4, EnqueueInv
<1>5. ASSUME NEW i \in Instances, FlushTimer(i) PROVE QueueInv'
  BY <1>5, FlushTimerInv
<1>6. ASSUME NEW i \in Instances, Deliver(i) PROVE QueueInv'
  BY <1>6, DeliverInv
<1>7. ASSUME NEW i \in Instances, FlushThrows(i) PROVE QueueInv'
  BY <1>7, FlushThrowsInv
<1>8. ASSUME NEW i \in Instances, Write(i) PROVE QueueInv'
  BY <1>8, WriteInv
<1>9. ASSUME NEW i \in Instances, Stop(i) PROVE QueueInv'
  BY <1>9, StopInv
<1>10. CASE Crash
  BY <1>10, CrashInv
<1>11. CASE UNCHANGED queueVars
  <2>1. UNCHANGED <<persist, life, load, restored, queue, flush, base, waiting, toRemove, chain, left,
                    disk, accepted, got, sent, gone, unsaved, disturbed, early, overrun, faults>>
    BY <1>11 DEF queueVars, loading, flushing, saving, history
  <2>2. QueueTypes'
    BY <2>1 DEF QueueInv, QueueTypes
  <2>3. OneByOne' /\ Held(disk', accepted')
    BY <2>1 DEF QueueInv, OneByOne
  <2>4. ASSUME NEW j \in Instances PROVE Sound(j)'
    <3>1. Apart(j)
      BY <2>1 DEF Apart
    <3>2. accepted' \in Nat /\ accepted <= accepted'
      BY <2>1, QueueConstants DEF QueueInv, QueueTypes
    <3>3. QED
      BY <2>1, <3>1, <3>2, OthersSound DEF QueueInv
  <2>5. QED
    BY <2>2, <2>3, <2>4 DEF QueueInv, Held, Distinct, Events
<1>12. ASSUME NEW i \in Instances, ReadFails(i) PROVE QueueInv'
  BY <1>12, ReadFailsInv
<1>13. QED
  BY <1>1, <1>2, <1>3, <1>4, <1>5, <1>6, <1>7, <1>8, <1>9, <1>10, <1>11, <1>12 DEF QueueNext

\* Indices to remove are pushed by deliveries only, and these have the client.
LEMMA ClientStep == QueueInv /\ ClientInv /\ [QueueNext]_queueVars => ClientInv'
<1> SUFFICES ASSUME QueueInv, ClientInv, [QueueNext]_queueVars PROVE ClientInv'
  OBVIOUS
<1>1. QueueTypes
  BY DEF QueueInv
<1>2. CASE UNCHANGED <<client, life, toRemove>>
  BY <1>2 DEF ClientInv
<1>3. CASE UNCHANGED <<client, life>> /\ \E i \in Instances : toRemove' = [toRemove EXCEPT ![i] = <<>>]
  <2>1. \A j \in Instances : toRemove'[j] = toRemove[j] \/ toRemove'[j] = <<>>
    BY <1>1, <1>3 DEF QueueTypes
  <2>2. QED
    BY <1>3, <2>1 DEF ClientInv
<1>4. ASSUME NEW i \in Instances, Construct(i) \/ Stop(i) PROVE ClientInv'
  <2>1. UNCHANGED <<client, toRemove>> /\ \A j \in Instances : life'[j] = "new" => life[j] = "new"
    BY <1>1, <1>4 DEF Construct, Stop, QueueTypes, flushing
  <2>2. QED
    BY <2>1 DEF ClientInv
<1>5. ASSUME NEW i \in Instances, ReadFile(i) \/ ReadFails(i) \/ Merge(i) \/ Write(i) PROVE ClientInv'
  <2>1. UNCHANGED <<client, life, toRemove>>
    BY <1>5 DEF ReadFile, ReadFails, Merge, Write, flushing
  <2>2. QED
    BY <1>2, <2>1
<1>6. ASSUME NEW i \in Instances, Enqueue(i) \/ FlushTimer(i) PROVE ClientInv'
  <2>1. UNCHANGED <<client, life>> /\ (toRemove' = toRemove \/ toRemove' = [toRemove EXCEPT ![i] = <<>>])
    BY <1>6 DEF Enqueue, FlushTimer, BeginFlush, flushing
  <2>2. QED
    BY <1>2, <1>3, <2>1
<1>7. ASSUME NEW i \in Instances, Deliver(i) PROVE ClientInv'
  <2>1. client' = "loaded" /\ life' = life /\ life[i] # "new"
    BY <1>7 DEF Deliver, QueueInv, Sound, Bounded, Unmade
  <2>2. \A j \in Instances : j # i => toRemove'[j] = toRemove[j]
    BY <1>1, <1>7 DEF Deliver, Delivered, Failed, Answer, BatchDone, QueueTypes
  <2>3. QED
    BY <2>1, <2>2 DEF ClientInv
<1>8. ASSUME NEW i \in Instances, FlushThrows(i) PROVE ClientInv'
  <2>1. client # "loaded" /\ client' = "failed" /\ life' = life
    BY <1>8 DEF FlushThrows
  <2>2. \A j \in Instances : toRemove'[j] = toRemove[j] \/ toRemove'[j] = <<>>
    BY <1>1, <1>8 DEF FlushThrows, QueueTypes
  <2>3. QED
    BY <2>1, <2>2 DEF ClientInv
<1>9. CASE Crash
  <2>1. client' = "unknown"
    BY <1>9 DEF Crash
  <2>2. \A j \in Instances : IF life[j] = "new" THEN toRemove'[j] = toRemove[j] ELSE toRemove'[j] = <<>>
    BY <1>9 DEF Crash
  <2>3. QED
    BY <2>1, <2>2 DEF ClientInv
<1>10. CASE UNCHANGED queueVars
  <2>1. UNCHANGED <<client, life, toRemove>>
    BY <1>10 DEF queueVars, flushing
  <2>2. QED
    BY <1>2, <2>1
<1>11. QED
  BY <1>4, <1>5, <1>6, <1>7, <1>8, <1>9, <1>10 DEF QueueNext

\* The invariant holds.
THEOREM QueueInvariant == QueueSpec => [](QueueInv /\ ClientInv)
<1>1. QueueInit => ClientInv
  BY DEF QueueInit, ClientInv
<1>2. QueueInv /\ ClientInv /\ [QueueNext]_queueVars => QueueInv' /\ ClientInv'
  BY QueueNextInv, ClientStep
<1>3. QED
  BY QueueInitInv, <1>1, <1>2, PTL DEF QueueSpec

\* An item of a list is one that was enqueued, tried at most MaxAttempts times.
LEMMA HeldItems == ASSUME QueueTypes, NEW q, Held(q, accepted) PROVE Len(q) <= MaxSize /\ ToSet(q) \subseteq Items
<1>1. 1..accepted \subseteq 1..MaxEvents
  BY QueueConstants DEF QueueTypes
<1>2. ASSUME NEW k \in DOMAIN q PROVE q[k] \in Items
  <2>1. q[k] \in Entry
    BY DEF Held
  <2>2. q[k].ev \in 1..MaxEvents
    BY <1>1 DEF Held, Events
  <2>3. QED
    BY <2>1, <2>2 DEF Entry, Items
<1>3. QED
  BY <1>2 DEF Held, ToSet

\* The values of the variables: a queue, what was read for it and every snapshot of it hold
\* at most maxSize items, and the queue holds no event twice.
THEOREM QueueTyped == QueueSpec => []TypeOK
<1>1. QueueInv /\ ClientInv => TypeOK
  <2> SUFFICES ASSUME QueueInv, ClientInv PROVE TypeOK
    OBVIOUS
  <2>1. QueueTypes
    BY DEF QueueInv
  <2>2. ASSUME NEW i \in Instances, NEW q \in {queue[i], restored[i]} \cup ToSet(chain[i])
        PROVE  Len(q) <= MaxSize /\ ToSet(q) \subseteq Items
    <3>1. Held(q, accepted)
      BY DEF QueueInv, Sound, Bounded, ToSet
    <3>2. QED
      BY <2>1, <3>1, HeldItems
  <2>3. ASSUME NEW i \in Instances
        PROVE  /\ IsInjective([k \in DOMAIN queue[i] |-> queue[i][k].ev])
               /\ (flush[i] = "batch") = (waiting[i] # {}) /\ left[i] <= Len(chain[i])
    BY DEF QueueInv, Sound, Bounded, Held, Distinct, IsInjective
  <2>4. QED
    BY <2>1, <2>2, <2>3 DEF QueueTypes, ClientInv, TypeOK
<1>2. QED
  BY <1>1, QueueInvariant, PTL

\* The removal at the end of a flush takes out what was answered and nothing else, unless
\* answers were out of order or the queue shifted under the flush.
THEOREM RemovalIsExact == QueueSpec => []RemovalExactUnlessDisturbed
<1>1. QueueInv => RemovalExactUnlessDisturbed
  <2> SUFFICES ASSUME QueueInv PROVE RemovalExactUnlessDisturbed
    OBVIOUS
  <2>1. NoLossUnlessDisturbed
    BY DEF QueueInv, Sound, NoneLost, NoLossUnlessDisturbed
  <2>2. ASSUME NEW i \in Instances, life[i] = "live", flush[i] # "batch", ~disturbed[i], ~early
        PROVE  Events(queue[i]) \cap sent[i] = {}
    BY <2>2 DEF QueueInv, Sound, SentMarked, Events
  <2>3. QED
    BY <2>1, <2>2 DEF RemovalExactUnlessDisturbed, DeliveredLeaves
<1>2. QED
  BY <1>1, QueueInvariant, PTL

\* With nothing left to write the file holds the events of the queue, also during a flush,
\* unless one came before the file was loaded, a predecessor wrote late, or the read of the
\* file or the last write failed.
THEOREM QueueIsSaved == QueueSpec => []SavedWhenQuiet
<1>1. QueueInv => SavedWhenQuiet
  BY DEF QueueInv, Sound, Snapped, EventsOf, SavedWhenQuiet
<1>2. QED
  BY <1>1, QueueInvariant, PTL
=============================================================================
