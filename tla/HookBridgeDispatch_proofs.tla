---------------------- MODULE HookBridgeDispatch_proofs ----------------------
(***************************************************************************)
(* What the dispatch engine of the hook bridge guarantees for any rules,    *)
(* events, queue limit, concurrency and drop policy: the queue and its      *)
(* indexes agree, a task carries the event its coalesce strategy calls for, *)
(* and the engine implements ActionPool.  One inductive invariant,          *)
(* EngineInv, about the engine between two steps and, because onEvent       *)
(* enqueues for one rule after the other, between two rules.                *)
(***************************************************************************)
EXTENDS HookBridgeDispatch, FiniteSetTheorems, FunctionTheorems, SequenceTheorems, WellFoundedInduction, TLAPS

\* What the proofs need of the constants.
LEMMA Limits == MaxPending \in Nat /\ MaxPending >= 1 /\ Concurrency \in Nat /\ NoKey \notin Keys
BY DispatchConstants
USE Limits

\* A task of the queue or of a worker.
Task ==
  [id : Nat, key : Ids \X (Keys \cup {NoKey}), rule : DOMAIN Rules, event : Nat, at : Nat,
   carries : SUBSET Nat]

\* The event task t acts on is its first one, or the newest of those in L.
Chosen(t, L) ==
  /\ t.event = t.id \/ t.event \in L
  /\ \A n \in t.carries : t.id <= n /\ (n \in L => n <= t.event)

\* Queued tasks Q and begun tasks B, dropped triggers D, when n triggers have come: a trigger
\* is at one place, and every trigger is at some place.
Placed(Q, B, D, n) ==
  /\ Q \subseteq Task /\ B \subseteq Task /\ D \subseteq 1..n
  /\ \A t \in Q : t \notin B
  /\ \A t \in Q \cup B :
       /\ t.id \in t.carries /\ t.event \in t.carries
       /\ t.key[1] = Rules[t.rule].id
       /\ \A m \in t.carries : m \in 1..n /\ m \notin D
  /\ \A t, u \in Q \cup B : t # u => \A m \in t.carries : m \notin u.carries
  /\ \A m \in 1..n : m \in D \/ \E t \in Q \cup B : m \in t.carries

\* The indexes of the queued tasks.
Indexed(Q, byId, byKey) ==
  /\ byId = {t.id : t \in Q}
  /\ byKey \in [CoalesceKeys -> Nat]
  /\ \A k \in CoalesceKeys :
       byKey[k] # 0 =>
         \E t \in Q : t.id = byKey[k] /\ t.key = k /\ \A u \in Q : u.key = k => u.id <= t.id

\* A queue of different tasks.
Line(q) == q \in Seq(Task) /\ \A i, j \in DOMAIN q : i # j => q[i] # q[j]

-----------------------------------------------------------------------------
(* Tasks as sets *)

\* A new task, or trigger that is dropped at once.
LEMMA PlaceNew ==
  ASSUME NEW Q, NEW B, NEW D, NEW n \in Nat, Placed(Q, B, D, n), NEW t \in Task,
         t.id = n + 1, t.event = n + 1, t.carries = {n + 1}, t.key[1] = Rules[t.rule].id
  PROVE  Placed(Q \cup {t}, B, D, n + 1) /\ Placed(Q, B, D \cup {n + 1}, n + 1) /\ t \notin Q
<1>1. \A u \in Q \cup B : n + 1 \notin u.carries /\ u # t
  BY DEF Placed
<1>2. n + 1 \notin D
  BY DEF Placed
<1>3. Placed(Q \cup {t}, B, D, n + 1)
  <2>1. /\ Q \cup {t} \subseteq Task /\ B \subseteq Task /\ D \subseteq 1..(n + 1)
        /\ \A u \in Q \cup {t} : u \notin B
    BY <1>1 DEF Placed
  <2>2. \A u \in (Q \cup {t}) \cup B :
          /\ u.id \in u.carries /\ u.event \in u.carries
          /\ u.key[1] = Rules[u.rule].id
          /\ \A m \in u.carries : m \in 1..(n + 1) /\ m \notin D
    BY <1>2 DEF Placed
  <2>3. \A u, v \in (Q \cup {t}) \cup B : u # v => \A m \in u.carries : m \notin v.carries
    BY <1>1 DEF Placed
  <2>4. ASSUME NEW m \in 1..(n + 1) PROVE m \in D \/ \E u \in (Q \cup {t}) \cup B : m \in u.carries
    <3>1. CASE m = n + 1
      BY <3>1
    <3>2. CASE m \in 1..n
      BY <3>2 DEF Placed
    <3>3. QED
      BY <3>1, <3>2
  <2>5. QED
    BY <2>1, <2>2, <2>3, <2>4 DEF Placed
<1>4. Placed(Q, B, D \cup {n + 1}, n + 1)
  BY <1>1 DEF Placed
<1>5. QED
  BY <1>1, <1>3, <1>4

\* A queued task is begun, or dropped with all it had absorbed.
LEMMA PlaceLeaving ==
  ASSUME NEW Q, NEW B, NEW D, NEW n \in Nat, Placed(Q, B, D, n), NEW t \in Q
  PROVE  Placed(Q \ {t}, B \cup {t}, D, n) /\ Placed(Q \ {t}, B, D \cup t.carries, n)
<1>1. Placed(Q \ {t}, B \cup {t}, D, n)
  BY DEF Placed
<1>2. Placed(Q \ {t}, B, D \cup t.carries, n)
  <2>1. \A u \in (Q \ {t}) \cup B : \A m \in u.carries : m \notin t.carries
    BY DEF Placed
  <2>2. QED
    BY <2>1 DEF Placed
<1>3. QED
  BY <1>1, <1>2

\* A queued task absorbs a trigger.
LEMMA PlaceAbsorbed ==
  ASSUME NEW Q, NEW B, NEW D, NEW n \in Nat, Placed(Q, B, D, n), NEW t \in Q, NEW u \in Task,
         u.id = t.id, u.key = t.key, u.rule = t.rule, u.carries = t.carries \cup {n + 1},
         u.event = t.event \/ u.event = n + 1
  PROVE  Placed((Q \ {t}) \cup {u}, B, D, n + 1) /\ u \notin Q
<1>1. \A v \in Q \cup B : n + 1 \notin v.carries /\ v # u
  BY DEF Placed
<1>2. n + 1 \notin D
  BY DEF Placed
<1>3. \A v \in ((Q \ {t}) \cup {u}) \cup B : v # u => v \in Q \cup B /\ v # t
  BY DEF Placed
<1>4. /\ (Q \ {t}) \cup {u} \subseteq Task /\ B \subseteq Task /\ D \subseteq 1..(n + 1)
      /\ \A v \in (Q \ {t}) \cup {u} : v \notin B
  BY <1>1 DEF Placed
<1>5. \A v \in ((Q \ {t}) \cup {u}) \cup B :
        /\ v.id \in v.carries /\ v.event \in v.carries
        /\ v.key[1] = Rules[v.rule].id
        /\ \A m \in v.carries : m \in 1..(n + 1) /\ m \notin D
  BY <1>2, <1>3 DEF Placed
<1>6. ASSUME NEW v \in ((Q \ {t}) \cup {u}) \cup B, NEW w \in ((Q \ {t}) \cup {u}) \cup B, v # w
      PROVE  \A m \in v.carries : m \notin w.carries
  <2>1. \A x, y \in Q \cup B : x # y => \A m \in x.carries : m \notin y.carries
    BY DEF Placed
  <2>2. CASE v # u /\ w # u
    BY <1>3, <1>6, <2>1, <2>2
  <2>3. CASE v = u
    BY <1>1, <1>3, <1>6, <2>1, <2>3
  <2>4. CASE w = u
    BY <1>1, <1>3, <1>6, <2>1, <2>4
  <2>5. QED
    BY <2>2, <2>3, <2>4
<1>7. ASSUME NEW m \in 1..(n + 1)
      PROVE  m \in D \/ \E v \in ((Q \ {t}) \cup {u}) \cup B : m \in v.carries
  <2>1. CASE m = n + 1
    BY <2>1
  <2>2. CASE m \in 1..n
    <3>1. m \in D \/ \E v \in Q \cup B : m \in v.carries
      BY <2>2 DEF Placed
    <3>2. QED
      BY <3>1
  <2>3. QED
    BY <2>1, <2>2
<1>8. QED
  BY <1>1, <1>4, <1>5, <1>6, <1>7 DEF Placed

\* What the indexes become when a task comes, goes and absorbs.
Keyed(byKey, t) == [k \in CoalesceKeys |-> IF k = t.key THEN t.id ELSE byKey[k]]

\* The indexes when a task is queued.
LEMMA IndexNew ==
  ASSUME NEW Q, NEW byId, NEW byKey, Indexed(Q, byId, byKey), NEW t \in Task, t.id # 0,
         \A u \in Q : u.id <= t.id
  PROVE  Indexed(Q \cup {t}, byId \cup {t.id}, Keyed(byKey, t))
<1> DEFINE new == Keyed(byKey, t)
<1>1. new \in [CoalesceKeys -> Nat]
  BY DEF Indexed, Task, Keyed
<1>2. byId \cup {t.id} = {u.id : u \in Q \cup {t}}
  BY DEF Indexed
<1>3. ASSUME NEW k \in CoalesceKeys, new[k] # 0
      PROVE  \E u \in Q \cup {t} :
               u.id = new[k] /\ u.key = k /\ \A v \in Q \cup {t} : v.key = k => v.id <= u.id
  <2>1. CASE k = t.key
    BY <2>1 DEF Task, Keyed
  <2>2. CASE k # t.key
    BY <1>3, <2>2 DEF Indexed, Keyed
  <2>3. QED
    BY <2>1, <2>2
<1>4. QED
  BY <1>1, <1>2, <1>3 DEF Indexed

Unkeyed(byKey, t) == [k \in CoalesceKeys |-> IF byKey[k] \in {t.id} THEN 0 ELSE byKey[k]]

\* The indexes when a task leaves the queue.
LEMMA IndexLeaving ==
  ASSUME NEW Q, NEW byId, NEW byKey, Indexed(Q, byId, byKey), NEW t \in Q,
         \A u \in Q : u # t => u.id # t.id
  PROVE  Indexed(Q \ {t}, byId \ {t.id}, Unkeyed(byKey, t))
BY DEF Indexed, Unkeyed

\* The indexes when a task absorbs a trigger.
LEMMA IndexAbsorbed ==
  ASSUME NEW Q, NEW byId, NEW byKey, Indexed(Q, byId, byKey), NEW t \in Q, NEW u,
         u.id = t.id, u.key = t.key
  PROVE  Indexed((Q \ {t}) \cup {u}, byId, byKey)
BY DEF Indexed

-----------------------------------------------------------------------------
(* The queue as a sequence *)

\* A queue with one more task at its end.
LEMMA LineAppended ==
  ASSUME NEW q, Line(q), NEW t \in Task, t \notin ToSet(q)
  PROVE  /\ Line(Append(q, t)) /\ ToSet(Append(q, t)) = ToSet(q) \cup {t}
         /\ Len(Append(q, t)) = Len(q) + 1 /\ Len(q) \in Nat
<1>1. /\ q \in Seq(Task) /\ DOMAIN q = 1..Len(q) /\ Len(q) \in Nat
      /\ Append(q, t) \in Seq(Task) /\ Len(Append(q, t)) = Len(q) + 1
      /\ DOMAIN Append(q, t) = 1..(Len(q) + 1) /\ Append(q, t)[Len(q) + 1] = t
      /\ \A i \in DOMAIN q : Append(q, t)[i] = q[i]
  BY AppendProperties DEF Line
<1>2. \A i \in 1..(Len(q) + 1) : i \in DOMAIN q \/ i = Len(q) + 1
  BY <1>1
<1>3. Line(Append(q, t))
  BY <1>1, <1>2 DEF Line, ToSet
<1>4. ToSet(Append(q, t)) = ToSet(q) \cup {t}
  BY <1>1, <1>2 DEF ToSet
<1>5. QED
  BY <1>1, <1>3, <1>4

\* A queue without its head.
LEMMA LineTail ==
  ASSUME NEW q, Line(q), q # <<>>
  PROVE  /\ Line(Tail(q)) /\ ToSet(Tail(q)) = ToSet(q) \ {Head(q)}
         /\ Head(q) \in ToSet(q) /\ Head(q) = q[1] /\ Len(Tail(q)) = Len(q) - 1
         /\ SubSeq(q, 2, Len(q)) = Tail(q) /\ Len(q) \in Nat /\ Len(q) >= 1
<1>1. q \in Seq(Task) /\ DOMAIN q = 1..Len(q) /\ Len(q) \in Nat /\ Len(q) >= 1
      /\ Head(q) = q[1] /\ Head(q) \in ToSet(q)
  BY DEF Line, ToSet
<1>2. /\ Tail(q) \in Seq(Task) /\ Len(Tail(q)) = Len(q) - 1
      /\ DOMAIN Tail(q) = 1..(Len(q) - 1)
      /\ \A i \in 1..(Len(q) - 1) : Tail(q)[i] = q[i + 1]
  BY <1>1
<1>3. Line(Tail(q))
  BY <1>1, <1>2 DEF Line
<1>4. ASSUME NEW i \in DOMAIN q, i # 1 PROVE q[i] \in ToSet(Tail(q))
  <2>1. i - 1 \in DOMAIN Tail(q) /\ Tail(q)[i - 1] = q[i]
    BY <1>1, <1>2, <1>4
  <2>2. QED
    BY <2>1 DEF ToSet
<1>5. ToSet(Tail(q)) = ToSet(q) \ {Head(q)}
  BY <1>1, <1>2, <1>4 DEF Line, ToSet
<1>6. SubSeq(q, 2, Len(q)) = Tail(q)
  <2>1. /\ SubSeq(q, 2, Len(q)) \in Seq(Task) /\ Len(SubSeq(q, 2, Len(q))) = Len(q) - 1
        /\ \A i \in 1..(Len(q) - 1) : SubSeq(q, 2, Len(q))[i] = q[i + 1]
    BY <1>1
  <2>2. QED
    BY <1>1, <1>2, <2>1, SeqEqual
<1>7. QED
  BY <1>1, <1>2, <1>3, <1>5, <1>6

\* A queue in which a task is another one.
LEMMA LineReplaced ==
  ASSUME NEW q, Line(q), NEW i \in DOMAIN q, NEW t \in Task, t \notin ToSet(q)
  PROVE  LET r == [q EXCEPT ![i] = t]
         IN Line(r) /\ Len(r) = Len(q) /\ ToSet(r) = (ToSet(q) \ {q[i]}) \cup {t}
<1> DEFINE r == [q EXCEPT ![i] = t]
<1>1. /\ r \in Seq(Task) /\ Len(r) = Len(q) /\ DOMAIN r = DOMAIN q
      /\ r[i] = t /\ \A j \in DOMAIN q : j # i => r[j] = q[j]
  BY ExceptSeq DEF Line
<1> HIDE DEF r
<1>2. Line(r)
  BY <1>1 DEF Line, ToSet
<1>3. ToSet(r) = (ToSet(q) \ {q[i]}) \cup {t}
  BY <1>1 DEF Line, ToSet
<1>4. QED
  BY <1>1, <1>2, <1>3 DEF r

-----------------------------------------------------------------------------
(* The engine as a record *)

\* An engine has these fields.
Fields ==
  {"queue", "byId", "byKey", "running", "fullSince", "backpressure", "outcomes", "alert",
   "dropped", "begun"}
Engine(e) == e = [x \in Fields |-> e[x]]

\* Two engines that differ in their telemetry only.
Alike(e, f) ==
  /\ f.queue = e.queue /\ f.byId = e.byId /\ f.byKey = e.byKey
  /\ f.running = e.running /\ f.dropped = e.dropped /\ f.begun = e.begun

\* Telemetry (evaluateQueuePressure, recordOutcome, evaluateFailureRate) leaves the tasks alone.
LEMMA PressureAlike ==
  ASSUME NEW e, Engine(e)
  PROVE  Engine(EvaluateQueuePressure(e)) /\ Alike(e, EvaluateQueuePressure(e))
<1> DEFINE since == IF e.fullSince = 0 THEN clock ELSE e.fullSince
           full == [e EXCEPT !.fullSince = since,
                             !.backpressure = @ \/ clock - since >= Saturation]
           rest == [e EXCEPT !.fullSince = 0, !.backpressure = FALSE]
<1>1. Engine(full) /\ Alike(e, full)
  BY DEF Engine, Fields, Alike
<1>2. Engine(rest) /\ Alike(e, rest)
  BY DEF Engine, Fields, Alike
<1>3. EvaluateQueuePressure(e) = full \/ EvaluateQueuePressure(e) = rest
  BY DEF EvaluateQueuePressure
<1>4. QED
  BY <1>1, <1>2, <1>3

\* The bookkeeping of outcomes and their rate leaves queue, indexes and workers alone.
LEMMA OutcomeAlike ==
  ASSUME NEW e, Engine(e), NEW ok
  PROVE  LET f == EvaluateFailureRate(RecordOutcome(e, ok)) IN Engine(f) /\ Alike(e, f)
<1> DEFINE f == RecordOutcome(e, ok)
<1>1. Engine(f) /\ Alike(e, f)
  BY DEF Engine, Fields, Alike, RecordOutcome
<1> HIDE DEF f
<1>2. Engine(EvaluateFailureRate(f)) /\ Alike(f, EvaluateFailureRate(f))
  BY <1>1 DEF Engine, Fields, Alike, EvaluateFailureRate
<1>3. QED
  BY <1>1, <1>2 DEF Alike, f

\* A task leaves the queue and its indexes.
Leaving(e, q, t) == Without([e EXCEPT !.queue = q], {t})

\* What a removal leaves of the engine.
LEMMA WithoutFields ==
  ASSUME NEW e, Engine(e), NEW q, NEW t
  PROVE  LET f == Leaving(e, q, t)
         IN /\ Engine(f) /\ f.queue = q /\ f.byId = e.byId \ {t.id} /\ f.byKey = Unkeyed(e.byKey, t)
            /\ f.running = e.running /\ f.dropped = e.dropped /\ f.begun = e.begun
<1> DEFINE s == [e EXCEPT !.queue = q]
           ids == {x.id : x \in {t}}
<1>1. Engine(s) /\ s.queue = q /\ s.byId = e.byId /\ s.byKey = e.byKey
      /\ s.running = e.running /\ s.dropped = e.dropped /\ s.begun = e.begun
  BY DEF Engine, Fields
<1>2. ids = {t.id}
  OBVIOUS
<1> HIDE DEF s
<1>3. Without(s, {t}) =
        [s EXCEPT !.byId = s.byId \ ids,
                  !.byKey = [k \in CoalesceKeys |-> IF s.byKey[k] \in ids THEN 0 ELSE s.byKey[k]]]
  BY DEF Without
<1>4. Without(s, {t}) =
        [s EXCEPT !.byId = e.byId \ {t.id},
                  !.byKey = Unkeyed(e.byKey, t)]
  BY <1>1, <1>2, <1>3 DEF Unkeyed
<1>5. QED
  BY <1>1, <1>4 DEF Engine, Fields, s, Leaving

-----------------------------------------------------------------------------
(* The inductive invariant of the engine *)

\* What holds of the engine when n triggers have come and the tasks of ex were begun before.
EngineInv(e, ex, n) ==
  /\ Engine(e) /\ n \in Nat
  /\ Line(e.queue) /\ Len(e.queue) <= MaxPending
  /\ IsFiniteSet(e.running) /\ Cardinality(e.running) <= Concurrency
  /\ e.running \subseteq ex \cup e.begun
  /\ \A t \in e.begun : t \notin ex
  /\ Placed(ToSet(e.queue), ex \cup e.begun, e.dropped, n)
  /\ Indexed(ToSet(e.queue), e.byId, e.byKey)

\* No task waits while a worker is free.
Staffed(e) == e.queue # <<>> => Cardinality(e.running) = Concurrency

\* Engines alike satisfy the invariant alike.
LEMMA AlikeInv ==
  ASSUME NEW e, NEW f, NEW ex, NEW n, Engine(f), Alike(e, f), EngineInv(e, ex, n)
  PROVE  EngineInv(f, ex, n)
BY DEF Alike, EngineInv

\* Tasks of different ids.
LEMMA DifferentIds ==
  ASSUME NEW Q, NEW B, NEW D, NEW n, Placed(Q, B, D, n), NEW t \in Q, NEW u \in Q, t # u
  PROVE  t.id # u.id
BY DEF Placed

\* The oldest task makes room for another one.
LEMMA DropInv ==
  ASSUME NEW e, NEW ex, NEW n, EngineInv(e, ex, n), e.queue # <<>>
  PROVE  LET f == DropOldest(e)
         IN /\ EngineInv(f, ex, n) /\ Len(f.queue) = Len(e.queue) - 1 /\ f.running = e.running
            /\ f.begun = e.begun /\ e.dropped \subseteq f.dropped
            /\ ToSet(f.queue) \subseteq ToSet(e.queue)
<1> DEFINE t == Head(e.queue)
           s == Leaving(e, Tail(e.queue), t)
           f == [s EXCEPT !.dropped = s.dropped \cup t.carries]
<1>0. /\ Engine(e) /\ Line(e.queue) /\ n \in Nat
      /\ Placed(ToSet(e.queue), ex \cup e.begun, e.dropped, n)
      /\ Indexed(ToSet(e.queue), e.byId, e.byKey)
  BY DEF EngineInv
<1>1. f = DropOldest(e)
  BY DEF DropOldest, Leaving
<1>2. /\ Engine(s) /\ s.queue = Tail(e.queue) /\ s.byId = e.byId \ {t.id}
      /\ s.byKey = Unkeyed(e.byKey, t)
      /\ s.running = e.running /\ s.dropped = e.dropped /\ s.begun = e.begun
  BY <1>0, WithoutFields
<1> HIDE DEF s
<1>3. /\ Engine(f) /\ f.queue = Tail(e.queue) /\ f.byId = e.byId \ {t.id}
      /\ f.byKey = Unkeyed(e.byKey, t)
      /\ f.running = e.running /\ f.dropped = e.dropped \cup t.carries /\ f.begun = e.begun
  BY <1>2 DEF Engine, Fields
<1>4. /\ Line(Tail(e.queue)) /\ ToSet(Tail(e.queue)) = ToSet(e.queue) \ {t}
      /\ t \in ToSet(e.queue) /\ Len(Tail(e.queue)) = Len(e.queue) - 1 /\ Len(e.queue) \in Nat
  BY <1>0, LineTail
<1> HIDE DEF f, t
<1>5. Placed(ToSet(f.queue), ex \cup f.begun, f.dropped, n)
  <2>1. Placed(ToSet(e.queue) \ {t}, ex \cup e.begun, e.dropped \cup t.carries, n)
    BY <1>0, <1>4, PlaceLeaving
  <2>2. QED
    BY <1>3, <1>4, <2>1
<1>6. \A u \in ToSet(e.queue) : u # t => u.id # t.id
  BY <1>0, <1>4, DifferentIds
<1>7. Indexed(ToSet(f.queue), f.byId, f.byKey)
  <2>1. Indexed(ToSet(e.queue) \ {t}, e.byId \ {t.id},
                Unkeyed(e.byKey, t))
    BY <1>0, <1>4, <1>6, IndexLeaving
  <2>2. QED
    BY <1>3, <1>4, <2>1
<1>8. EngineInv(f, ex, n)
  BY <1>3, <1>4, <1>5, <1>7 DEF EngineInv
<1>9. QED
  BY <1>1, <1>3, <1>4, <1>8

\* At most one task finds a free worker, and then none waits while one is free.  R is what
\* ran before.
LEMMA PumpInv ==
  ASSUME NEW e, NEW ex, NEW n, EngineInv(e, ex, n), NEW R, e.running = R \cup e.begun,
         Len(e.queue) <= 1 \/ Cardinality(e.running) + 1 >= Concurrency
  PROVE  LET f == PumpWorkers(e)
         IN /\ EngineInv(f, ex, n) /\ Staffed(f) /\ f.running = R \cup f.begun
            /\ f.dropped = e.dropped /\ ToSet(f.queue) \subseteq ToSet(e.queue)
            /\ f.begun \subseteq ToSet(e.queue) \cup e.begun
            /\ Cardinality(f.running) \in {Cardinality(e.running), Cardinality(e.running) + 1}
<1>0. /\ Engine(e) /\ Line(e.queue) /\ n \in Nat
      /\ Placed(ToSet(e.queue), ex \cup e.begun, e.dropped, n)
      /\ Indexed(ToSet(e.queue), e.byId, e.byKey)
      /\ IsFiniteSet(e.running) /\ Cardinality(e.running) <= Concurrency
  BY DEF EngineInv
<1>1. Cardinality(e.running) \in Nat /\ Len(e.queue) \in Nat
      /\ (Len(e.queue) = 0 <=> e.queue = <<>>)
  BY <1>0, FS_CardinalityType DEF Line
<1>2. /\ Takeable(e) \in {0, 1}
      /\ Takeable(e) = 0 => Staffed(e)
      /\ Takeable(e) = 1 => /\ e.queue # <<>> /\ Cardinality(e.running) + 1 <= Concurrency
                            /\ Len(e.queue) = 1 \/ Cardinality(e.running) + 1 = Concurrency
  <2> DEFINE c == Cardinality(e.running)
             m == Len(e.queue)
             free == Concurrency - c
  <2>1. Takeable(e) = IF m < free THEN m ELSE free
    BY DEF Takeable
  <2>2. /\ c \in Nat /\ m \in Nat /\ (m = 0 <=> e.queue = <<>>) /\ c <= Concurrency
        /\ m <= 1 \/ c + 1 >= Concurrency
    BY <1>0, <1>1
  <2>3. Staffed(e) <=> (m # 0 => c = Concurrency)
    BY <1>1 DEF Staffed
  <2> HIDE DEF c, m
  <2>4. /\ Takeable(e) \in {0, 1}
        /\ Takeable(e) = 0 => Staffed(e)
        /\ Takeable(e) = 1 => m # 0 /\ c + 1 <= Concurrency /\ (m = 1 \/ c + 1 = Concurrency)
    BY <2>1, <2>2, <2>3
  <2>5. QED
    BY <2>2, <2>4 DEF c, m
<1>3. CASE Takeable(e) = 0
  BY <1>1, <1>2, <1>3 DEF PumpWorkers
<1>4. CASE Takeable(e) = 1
  <2> DEFINE t == Head(e.queue)
             s == Leaving(e, Tail(e.queue), t)
             g == [s EXCEPT !.running = s.running \cup {t}, !.begun = s.begun \cup {t}]
             f == EvaluateQueuePressure(g)
  <2>1. /\ Line(Tail(e.queue)) /\ ToSet(Tail(e.queue)) = ToSet(e.queue) \ {t}
        /\ t \in ToSet(e.queue) /\ Len(Tail(e.queue)) = Len(e.queue) - 1 /\ t = e.queue[1]
        /\ SubSeq(e.queue, 2, Len(e.queue)) = Tail(e.queue)
    BY <1>0, <1>2, <1>4, LineTail
  <2>2. f = PumpWorkers(e)
    <3> DEFINE taken == {e.queue[i] : i \in 1..Takeable(e)}
               rest == SubSeq(e.queue, Takeable(e) + 1, Len(e.queue))
    <3>1. taken = {t} /\ rest = Tail(e.queue)
      BY <1>4, <2>1
    <3>2. PumpWorkers(e) =
            EvaluateQueuePressure(
              [Without([e EXCEPT !.queue = rest], taken)
                 EXCEPT !.running = @ \cup taken, !.begun = @ \cup taken])
      BY <1>4 DEF PumpWorkers
    <3> HIDE DEF taken, rest
    <3>3. QED
      BY <3>1, <3>2 DEF Leaving
  <2>3. /\ Engine(s) /\ s.queue = Tail(e.queue) /\ s.byId = e.byId \ {t.id}
        /\ s.byKey = Unkeyed(e.byKey, t)
        /\ s.running = e.running /\ s.dropped = e.dropped /\ s.begun = e.begun
    BY <1>0, WithoutFields
  <2> HIDE DEF s
  <2>4. /\ Engine(g) /\ g.queue = Tail(e.queue) /\ g.byId = e.byId \ {t.id}
        /\ g.byKey = Unkeyed(e.byKey, t)
        /\ g.running = e.running \cup {t} /\ g.dropped = e.dropped /\ g.begun = e.begun \cup {t}
    BY <2>3 DEF Engine, Fields
  <2> HIDE DEF g, t
  <2>5. t \notin ex \cup e.begun /\ t \notin e.running
    BY <2>1 DEF EngineInv, Placed
  <2>6. /\ IsFiniteSet(g.running) /\ Cardinality(g.running) = Cardinality(e.running) + 1
    <3>1. IsFiniteSet(e.running \cup {t})
          /\ Cardinality(e.running \cup {t}) = Cardinality(e.running) + 1
      BY <1>0, <2>5, FS_AddElement
    <3>2. QED
      BY <2>4, <3>1
  <2>7. ex \cup g.begun = (ex \cup e.begun) \cup {t}
    BY <2>4
  <2>8. Placed(ToSet(g.queue), ex \cup g.begun, g.dropped, n)
    <3>1. Placed(ToSet(e.queue) \ {t}, (ex \cup e.begun) \cup {t}, e.dropped, n)
      BY <1>0, <2>1, PlaceLeaving
    <3>2. QED
      BY <2>1, <2>4, <2>7, <3>1
  <2>9. \A u \in ToSet(e.queue) : u # t => u.id # t.id
    BY <1>0, <2>1, DifferentIds
  <2>10. Indexed(ToSet(g.queue), g.byId, g.byKey)
    <3>1. Indexed(ToSet(e.queue) \ {t}, e.byId \ {t.id},
                  Unkeyed(e.byKey, t))
      BY <1>0, <2>1, <2>9, IndexLeaving
    <3>2. QED
      BY <2>1, <2>4, <3>1
  <2>11. EngineInv(g, ex, n)
    BY <1>1, <1>2, <1>4, <2>1, <2>4, <2>5, <2>6, <2>8, <2>10 DEF EngineInv
  <2>12. /\ Staffed(g) /\ g.running = R \cup g.begun /\ ToSet(g.queue) \subseteq ToSet(e.queue)
         /\ g.begun \subseteq ToSet(e.queue) \cup e.begun
    BY <1>1, <1>2, <1>4, <2>1, <2>4, <2>6 DEF Staffed, Line
  <2>13. Engine(f) /\ Alike(g, f)
    BY <2>4, PressureAlike
  <2> HIDE DEF f
  <2>14. EngineInv(f, ex, n)
    BY <2>11, <2>13, AlikeInv
  <2>15. QED
    BY <2>2, <2>4, <2>6, <2>12, <2>13, <2>14 DEF Alike, Staffed
<1>5. QED
  BY <1>2, <1>3, <1>4

\* The number of the next trigger.
Follows(m, n) == m = n + 1

\* The first task of trigger m.
Fresh(t, m) ==
  t \in Task /\ t.id = m /\ t.event = m /\ t.carries = {m} /\ t.key[1] = Rules[t.rule].id

\* A task at the end of the queue and in the indexes.
Added(e, t) ==
  [e EXCEPT !.queue = Append(e.queue, t), !.byId = e.byId \cup {t.id}, !.byKey = Keyed(e.byKey, t)]

\* There is room for one, and it is the only one or at most one worker is missing.
HasRoom(e) ==
  /\ Len(e.queue) < MaxPending
  /\ Len(e.queue) = 0 \/ Cardinality(e.running) + 1 >= Concurrency

\* A task comes in and, if it finds room, the indexes and the workers follow.
LEMMA AddInv ==
  ASSUME NEW e, NEW ex, NEW n, EngineInv(e, ex, n), HasRoom(e),
         NEW R, e.running = R \cup e.begun, NEW m, Follows(m, n), NEW t, Fresh(t, m)
  PROVE  LET f == PumpWorkers(EvaluateQueuePressure(Added(e, t)))
         IN /\ EngineInv(f, ex, m) /\ Staffed(f) /\ f.running = R \cup f.begun
            /\ f.dropped = e.dropped
            /\ ToSet(f.queue) \cup f.begun \subseteq ToSet(e.queue) \cup e.begun \cup {t}
<1> DEFINE s == Added(e, t)
           g == EvaluateQueuePressure(s)
<1>0. /\ Engine(e) /\ Line(e.queue) /\ n \in Nat /\ m \in Nat /\ Len(e.queue) \in Nat
      /\ Placed(ToSet(e.queue), ex \cup e.begun, e.dropped, n)
      /\ Indexed(ToSet(e.queue), e.byId, e.byKey)
      /\ t \in Task /\ t.id = m /\ t.id # 0 /\ HasRoom(e) /\ m = n + 1
  BY DEF EngineInv, Line, Fresh, Follows
<1>1. /\ Engine(s) /\ s.queue = Append(e.queue, t) /\ s.byId = e.byId \cup {t.id}
      /\ s.byKey = Keyed(e.byKey, t) /\ s.running = e.running /\ s.dropped = e.dropped
      /\ s.begun = e.begun
  BY <1>0 DEF Engine, Fields, Added
<1> HIDE DEF s
<1>2. Placed(ToSet(e.queue) \cup {t}, ex \cup e.begun, e.dropped, n + 1) /\ t \notin ToSet(e.queue)
  BY <1>0, PlaceNew DEF Fresh
<1>3. /\ Line(s.queue) /\ ToSet(s.queue) = ToSet(e.queue) \cup {t} /\ Len(s.queue) = Len(e.queue) + 1
  BY <1>0, <1>1, <1>2, LineAppended
<1>4. \A u \in ToSet(e.queue) : u.id <= t.id
  BY <1>0 DEF Placed
<1>5. Indexed(ToSet(e.queue) \cup {t}, e.byId \cup {t.id}, Keyed(e.byKey, t))
  BY <1>0, <1>4, IndexNew
<1>6. EngineInv(s, ex, m)
  BY <1>0, <1>1, <1>2, <1>3, <1>5 DEF EngineInv, HasRoom
<1>7. Engine(g) /\ Alike(s, g)
  BY <1>1, PressureAlike
<1> HIDE DEF g
<1>8. EngineInv(g, ex, m)
  BY <1>6, <1>7, AlikeInv
<1>9. g.running = R \cup g.begun /\ g.dropped = e.dropped
      /\ (Len(g.queue) <= 1 \/ Cardinality(g.running) + 1 >= Concurrency)
  BY <1>0, <1>1, <1>3, <1>7 DEF Alike, HasRoom
<1>10. ToSet(g.queue) = ToSet(e.queue) \cup {t} /\ g.begun = e.begun
  BY <1>1, <1>3, <1>7 DEF Alike
<1> DEFINE f == PumpWorkers(g)
<1>11. /\ EngineInv(f, ex, m) /\ Staffed(f) /\ f.running = R \cup f.begun
       /\ f.dropped = g.dropped /\ ToSet(f.queue) \subseteq ToSet(g.queue)
       /\ f.begun \subseteq ToSet(g.queue) \cup g.begun
  BY <1>8, <1>9, PumpInv
<1>12. f = PumpWorkers(EvaluateQueuePressure(Added(e, t)))
  BY DEF g, s
<1> HIDE DEF f
<1>13. QED
  BY <1>9, <1>10, <1>11, <1>12

\* enqueueTask of a task that does not coalesce.
LEMMA PushInv ==
  ASSUME NEW e, NEW ex, NEW n, EngineInv(e, ex, n), Staffed(e),
         NEW R, e.running = R \cup e.begun, NEW m, Follows(m, n), NEW t, Fresh(t, m)
  PROVE  LET f == Push(e, t)
         IN /\ EngineInv(f, ex, m) /\ Staffed(f) /\ f.running = R \cup f.begun
            /\ e.dropped \subseteq f.dropped
            /\ ToSet(f.queue) \cup f.begun \subseteq ToSet(e.queue) \cup e.begun \cup {t}
<1>0. /\ Engine(e) /\ Line(e.queue) /\ n \in Nat /\ m \in Nat /\ Len(e.queue) \in Nat
      /\ Len(e.queue) <= MaxPending /\ (Len(e.queue) = 0 <=> e.queue = <<>>)
      /\ Placed(ToSet(e.queue), ex \cup e.begun, e.dropped, n)
      /\ t \in Task /\ t.carries = {m} /\ m = n + 1
  BY DEF EngineInv, Line, Fresh, Follows
<1>1. Full(e) <=> Len(e.queue) = MaxPending
  BY <1>0 DEF Full
<1>2. CASE Full(e) /\ policy = "drop_newest"
  <2> DEFINE s == [e EXCEPT !.dropped = e.dropped \cup t.carries]
             f == EvaluateQueuePressure(s)
  <2>1. f = Push(e, t)
    BY <1>2 DEF Push
  <2>2. /\ Engine(s) /\ s.queue = e.queue /\ s.byId = e.byId /\ s.byKey = e.byKey
        /\ s.running = e.running /\ s.dropped = e.dropped \cup {m} /\ s.begun = e.begun
    BY <1>0 DEF Engine, Fields
  <2> HIDE DEF s
  <2>3. Placed(ToSet(e.queue), ex \cup e.begun, e.dropped \cup {n + 1}, n + 1)
    BY <1>0, PlaceNew DEF Fresh
  <2>4. EngineInv(s, ex, m)
    BY <1>0, <2>2, <2>3 DEF EngineInv
  <2>5. Engine(f) /\ Alike(s, f)
    BY <2>2, PressureAlike
  <2> HIDE DEF f
  <2>6. EngineInv(f, ex, m)
    BY <2>4, <2>5, AlikeInv
  <2>7. QED
    BY <2>1, <2>2, <2>5, <2>6 DEF Alike, Staffed
<1>3. CASE ~(Full(e) /\ policy = "drop_newest")
  <2> DEFINE room == IF Full(e) THEN DropOldest(e) ELSE e
  <2>1. /\ EngineInv(room, ex, n) /\ room.running = e.running /\ room.begun = e.begun
        /\ e.dropped \subseteq room.dropped /\ HasRoom(room)
        /\ ToSet(room.queue) \subseteq ToSet(e.queue)
    <3>1. CASE Full(e)
      <4>1. e.queue # <<>>
        BY <1>0, <1>1, <3>1
      <4>2. Cardinality(e.running) = Concurrency
        BY <4>1 DEF Staffed
      <4>3. room = DropOldest(e)
        BY <3>1
      <4> HIDE DEF room
      <4>4. /\ EngineInv(room, ex, n) /\ Len(room.queue) = Len(e.queue) - 1
            /\ room.running = e.running /\ room.begun = e.begun /\ e.dropped \subseteq room.dropped
            /\ ToSet(room.queue) \subseteq ToSet(e.queue)
        BY <4>1, <4>3, DropInv
      <4>5. QED
        BY <1>0, <4>2, <4>4 DEF HasRoom
    <3>2. CASE ~Full(e)
      <4>1. room = e
        BY <3>2
      <4>2. Len(e.queue) < MaxPending
        BY <1>0, <1>1, <3>2
      <4>3. Len(e.queue) = 0 \/ Cardinality(e.running) + 1 >= Concurrency
        BY <1>0 DEF Staffed
      <4> HIDE DEF room
      <4>4. QED
        BY <4>1, <4>2, <4>3 DEF HasRoom
    <3>3. QED
      BY <3>1, <3>2
  <2>2. Push(e, t) = PumpWorkers(EvaluateQueuePressure(Added(room, t)))
    BY <1>3 DEF Push, Keyed, Added
  <2> HIDE DEF room
  <2>3. room.running = R \cup room.begun
    BY <2>1
  <2> DEFINE f == PumpWorkers(EvaluateQueuePressure(Added(room, t)))
  <2>4. /\ EngineInv(f, ex, m) /\ Staffed(f) /\ f.running = R \cup f.begun
        /\ f.dropped = room.dropped
        /\ ToSet(f.queue) \cup f.begun \subseteq ToSet(room.queue) \cup room.begun \cup {t}
    BY <2>1, <2>3, AddInv
  <2> HIDE DEF f
  <2>5. f = PumpWorkers(EvaluateQueuePressure(Added(room, t)))
    BY DEF f
  <2>6. QED
    BY <2>1, <2>2, <2>4, <2>5
<1>4. QED
  BY <1>2, <1>3

-----------------------------------------------------------------------------
(* enqueueTask and onEvent *)

\* A queued task of engine e that absorbed trigger m under a strategy.
Absorbed(v, e, m, strategy) ==
  \E q \in ToSet(e.queue) :
    /\ v.id = q.id /\ v.carries = q.carries \cup {m}
    /\ v.event = IF strategy = "latest" THEN m ELSE q.event

\* A queued task absorbs a trigger (tryCoalesceTask).
LEMMA CoalesceInv ==
  ASSUME NEW e, NEW ex, NEW n, EngineInv(e, ex, n), Staffed(e), NEW i \in DOMAIN e.queue,
         NEW m, Follows(m, n), NEW t, Fresh(t, m), NEW strategy
  PROVE  LET f == Coalesce(e, i, t, strategy)
         IN /\ EngineInv(f, ex, m) /\ Staffed(f) /\ f.running = e.running
            /\ f.begun = e.begun /\ f.dropped = e.dropped
            /\ \A v \in ToSet(f.queue) : v \in ToSet(e.queue) \/ Absorbed(v, e, m, strategy)
<1> DEFINE q == e.queue[i]
           u == [q EXCEPT !.carries = q.carries \cup t.carries,
                          !.event = IF strategy = "latest" THEN t.event ELSE q.event,
                          !.at = IF strategy = "latest" THEN t.at ELSE q.at]
           f == [e EXCEPT !.queue = [e.queue EXCEPT ![i] = u]]
<1>0. /\ Engine(e) /\ Line(e.queue) /\ n \in Nat /\ m \in Nat
      /\ Placed(ToSet(e.queue), ex \cup e.begun, e.dropped, n)
      /\ Indexed(ToSet(e.queue), e.byId, e.byKey)
      /\ t \in Task /\ t.event = m /\ t.carries = {m} /\ t.at \in Nat
      /\ m = n + 1
  BY DEF EngineInv, Fresh, Task, Follows
<1>q. q \in Task /\ q \in ToSet(e.queue)
  BY <1>0 DEF Line, ToSet
<1>1. f = Coalesce(e, i, t, strategy)
  BY <1>0, <1>q DEF Coalesce, Engine, Fields, Line, Task
<1>2. Engine(f) /\ f.queue = [e.queue EXCEPT ![i] = u] /\ f.byId = e.byId
      /\ f.byKey = e.byKey /\ f.running = e.running /\ f.dropped = e.dropped /\ f.begun = e.begun
  BY <1>0, <1>q DEF Engine, Fields
<1>3. /\ u \in Task /\ u.id = q.id /\ u.key = q.key /\ u.rule = q.rule
      /\ u.carries = q.carries \cup {m}
      /\ u.event = IF strategy = "latest" THEN m ELSE q.event
  BY <1>0, <1>q DEF Task
<1>4. Absorbed(u, e, m, strategy)
  BY <1>q, <1>3 DEF Absorbed
<1> HIDE DEF f, u
<1>5. /\ Placed((ToSet(e.queue) \ {q}) \cup {u}, ex \cup e.begun, e.dropped, n + 1)
      /\ u \notin ToSet(e.queue)
  <2>1. u.event = q.event \/ u.event = n + 1
    BY <1>0, <1>3
  <2> HIDE DEF q
  <2>2. QED
    BY <1>0, <1>q, <1>3, <2>1, PlaceAbsorbed
<1>6. /\ Line(f.queue) /\ Len(f.queue) = Len(e.queue)
      /\ ToSet(f.queue) = (ToSet(e.queue) \ {q}) \cup {u}
  BY <1>0, <1>q, <1>2, <1>3, <1>5, LineReplaced
<1>7. Indexed((ToSet(e.queue) \ {q}) \cup {u}, e.byId, e.byKey)
  <2> HIDE DEF q
  <2> QED
    BY <1>0, <1>q, <1>3, IndexAbsorbed
<1>8. EngineInv(f, ex, m)
  BY <1>0, <1>q, <1>2, <1>5, <1>6, <1>7 DEF EngineInv
<1>9. Staffed(f)
  BY <1>0, <1>q, <1>2, <1>6 DEF Staffed, Line
<1>10. \A v \in ToSet(f.queue) : v \in ToSet(e.queue) \/ Absorbed(v, e, m, strategy)
  BY <1>4, <1>6
<1>11. QED
  BY <1>1, <1>2, <1>8, <1>9, <1>10

\* An engine a task can be pushed to, and the engine f that a push of t makes of e.
Ready(e, ex, n, R) == EngineInv(e, ex, n) /\ Staffed(e) /\ e.running = R \cup e.begun
Pushed(e, f, ex, R, m, t) ==
  /\ EngineInv(f, ex, m) /\ Staffed(f) /\ f.running = R \cup f.begun
  /\ e.dropped \subseteq f.dropped
  /\ ToSet(f.queue) \cup f.begun \subseteq ToSet(e.queue) \cup e.begun \cup {t}

\* The same in these words.
LEMMA PushReady ==
  ASSUME NEW e, NEW ex, NEW n, NEW R, Ready(e, ex, n, R), NEW m, Follows(m, n), NEW t, Fresh(t, m)
  PROVE  Pushed(e, Push(e, t), ex, R, m, t)
BY PushInv DEF Ready, Pushed

\* enqueueTask.
LEMMA EnqueueInv ==
  ASSUME NEW e, NEW ex, NEW n, EngineInv(e, ex, n), Staffed(e), clock \in Nat,
         NEW R, e.running = R \cup e.begun, NEW m, Follows(m, n),
         NEW i \in DOMAIN Rules, NEW key \in Keys \cup {NoKey}
  PROVE  LET f == EnqueueTask(e, i, key, m)
         IN /\ EngineInv(f, ex, m) /\ Staffed(f) /\ f.running = R \cup f.begun
            /\ e.dropped \subseteq f.dropped
            /\ \A v \in ToSet(f.queue) \cup f.begun :
                 \/ v \in ToSet(e.queue) \cup e.begun
                 \/ v.id = m /\ v.event = m /\ v.carries = {m}
                 \/ Absorbed(v, e, m, Rules[i].coalesce)
<1> DEFINE rule == Rules[i]
           coalesces == rule.coalesce # "off" /\ key # NoKey
           k == <<rule.id, key>>
           t == [id |-> m, key |-> IF coalesces THEN k ELSE <<rule.id, NoKey>>, rule |-> i,
                 event |-> m, at |-> clock, carries |-> {m}]
           found == Absorbing(e, k, rule.window)
           s == [e EXCEPT !.byKey = [e.byKey EXCEPT ![k] = 0]]
<1>0. /\ Engine(e) /\ Line(e.queue) /\ n \in Nat /\ m \in Nat
      /\ Placed(ToSet(e.queue), ex \cup e.begun, e.dropped, n)
      /\ Indexed(ToSet(e.queue), e.byId, e.byKey)
      /\ m = n + 1
  BY DEF EngineInv, Follows
<1>1. Fresh(t, m)
  <2>1. rule.id \in Ids
    BY DEF Ids
  <2>2. t \in Task
    BY <1>0, <2>1 DEF Task
  <2>3. QED
    BY <2>2 DEF Fresh
<1>2. EnqueueTask(e, i, key, m) =
        IF ~coalesces THEN Push(e, t)
        ELSE IF found # {} THEN Coalesce(e, CHOOSE j \in found : TRUE, t, rule.coalesce)
        ELSE Push([e EXCEPT !.byKey[k] = 0], t)
  BY DEF EnqueueTask
<1>3. CASE ~coalesces
  <2>1. EnqueueTask(e, i, key, m) = Push(e, t)
    BY <1>2, <1>3
  <2> HIDE DEF t
  <2> DEFINE f == Push(e, t)
  <2>2. Pushed(e, f, ex, R, m, t)
    BY <1>1, PushReady DEF Ready
  <2> HIDE DEF f
  <2>3. EnqueueTask(e, i, key, m) = f
    BY <2>1 DEF f
  <2>4. QED
    BY <1>1, <2>2, <2>3 DEF Fresh, Pushed
<1>4. CASE coalesces /\ found # {}
  <2> DEFINE j == CHOOSE j \in found : TRUE
  <2>1. j \in found
    BY <1>4
  <2>2. j \in DOMAIN e.queue
    BY <2>1 DEF Absorbing
  <2>3. EnqueueTask(e, i, key, m) = Coalesce(e, j, t, rule.coalesce)
    BY <1>2, <1>4
  <2> HIDE DEF j, t
  <2> DEFINE f == Coalesce(e, j, t, rule.coalesce)
  <2>4. /\ EngineInv(f, ex, m) /\ Staffed(f) /\ f.running = e.running
        /\ f.begun = e.begun /\ f.dropped = e.dropped
        /\ \A v \in ToSet(f.queue) : v \in ToSet(e.queue) \/ Absorbed(v, e, m, rule.coalesce)
    BY <1>1, <2>2, CoalesceInv
  <2> HIDE DEF f
  <2>5. EnqueueTask(e, i, key, m) = f
    BY <2>3 DEF f
  <2>6. QED
    BY <2>4, <2>5
<1>5. CASE coalesces /\ found = {}
  <2>1. Engine(s) /\ s.queue = e.queue /\ s.byId = e.byId /\ s.byKey = [e.byKey EXCEPT ![k] = 0]
        /\ s.running = e.running /\ s.dropped = e.dropped /\ s.begun = e.begun
    BY <1>0 DEF Engine, Fields
  <2>2. EnqueueTask(e, i, key, m) = Push(s, t)
    BY <1>0, <1>2, <1>5 DEF Engine, Fields
  <2>3. Indexed(ToSet(e.queue), e.byId, [e.byKey EXCEPT ![k] = 0])
    BY <1>0 DEF Indexed
  <2> HIDE DEF s, t
  <2>4. EngineInv(s, ex, n)
    BY <1>0, <2>1, <2>3 DEF EngineInv
  <2>5. Staffed(s) /\ s.running = R \cup s.begun
    BY <2>1 DEF Staffed
  <2> DEFINE f == Push(s, t)
  <2>6. Pushed(s, f, ex, R, m, t)
    BY <1>1, <2>4, <2>5, PushReady DEF Ready
  <2> HIDE DEF f
  <2>7. EnqueueTask(e, i, key, m) = f
    BY <2>2 DEF f
  <2>8. QED
    BY <1>1, <2>1, <2>6, <2>7 DEF Fresh, Pushed
<1>6. QED
  BY <1>3, <1>4, <1>5

-----------------------------------------------------------------------------
(* What has nothing to do with outcomes *)

\* Engine f has the outcomes and the alert of engine e.
Mute(e, f) == Engine(f) /\ f.outcomes = e.outcomes /\ f.alert = e.alert

\* The telemetry of the queue is another one (evaluateQueuePressure).
LEMMA PressureMute == ASSUME NEW e, Engine(e) PROVE Mute(e, EvaluateQueuePressure(e))
<1> DEFINE since == IF e.fullSince = 0 THEN clock ELSE e.fullSince
           full == [e EXCEPT !.fullSince = since,
                             !.backpressure = @ \/ clock - since >= Saturation]
           rest == [e EXCEPT !.fullSince = 0, !.backpressure = FALSE]
<1>1. Mute(e, full)
  BY DEF Engine, Fields, Mute
<1>2. Mute(e, rest)
  BY DEF Engine, Fields, Mute
<1>3. EvaluateQueuePressure(e) = full \/ EvaluateQueuePressure(e) = rest
  BY DEF EvaluateQueuePressure
<1>4. QED
  BY <1>1, <1>2, <1>3

\* Tasks leave the indexes.
LEMMA WithoutMute == ASSUME NEW e, Engine(e), NEW T PROVE Mute(e, Without(e, T))
<1> DEFINE ids == {task.id : task \in T}
           I == e.byId \ ids
           K == [k \in CoalesceKeys |-> IF e.byKey[k] \in ids THEN 0 ELSE e.byKey[k]]
<1>1. Without(e, T) = [e EXCEPT !.byId = I, !.byKey = K]
  BY DEF Without
<1> HIDE DEF I, K
<1>2. QED
  BY <1>1 DEF Engine, Fields, Mute

\* A worker takes a task.
LEMMA PumpMute == ASSUME NEW e, Engine(e) PROVE Mute(e, PumpWorkers(e))
<1> DEFINE n == Takeable(e)
           taken == {e.queue[i] : i \in 1..n}
           q == SubSeq(e.queue, n + 1, Len(e.queue))
           s == [e EXCEPT !.queue = q]
           w == Without(s, taken)
           v == [w EXCEPT !.running = w.running \cup taken, !.begun = w.begun \cup taken]
<1>1. PumpWorkers(e) = IF n = 0 THEN e ELSE EvaluateQueuePressure(v)
  BY DEF PumpWorkers
<1>2. Mute(e, s)
  <2> HIDE DEF q
  <2> QED
    BY DEF Engine, Fields, Mute
<1>3. Mute(s, w)
  <2> HIDE DEF s, taken
  <2> QED
    BY <1>2, WithoutMute DEF Mute
<1>4. Mute(w, v)
  <2> HIDE DEF w, taken
  <2> QED
    BY <1>3 DEF Engine, Fields, Mute
<1>5. Mute(v, EvaluateQueuePressure(v))
  <2> HIDE DEF v
  <2> QED
    BY <1>4, PressureMute DEF Mute
<1> HIDE DEF n, v, w, s
<1>6. QED
  BY <1>1, <1>2, <1>3, <1>4, <1>5 DEF Mute

\* A task is queued, or a task is dropped.
LEMMA PushMute == ASSUME NEW e, Engine(e), NEW t PROVE Mute(e, Push(e, t))
<1> DEFINE s == [e EXCEPT !.dropped = e.dropped \cup t.carries]
           room == IF Full(e) THEN DropOldest(e) ELSE e
           a == Added(room, t)
           p == EvaluateQueuePressure(a)
<1>1. Mute(e, s)
  BY DEF Engine, Fields, Mute
<1>2. Mute(e, room)
  <2> DEFINE u == [e EXCEPT !.queue = Tail(e.queue)]
             w == Without(u, {Head(e.queue)})
             v == [w EXCEPT !.dropped = w.dropped \cup Head(e.queue).carries]
  <2>1. Mute(e, u)
    BY DEF Engine, Fields, Mute
  <2>2. DropOldest(e) = v
    BY DEF DropOldest
  <2> HIDE DEF u
  <2>3. Mute(u, w)
    BY <2>1, WithoutMute DEF Mute
  <2> HIDE DEF w
  <2>4. Mute(w, v)
    BY <2>3 DEF Engine, Fields, Mute
  <2> HIDE DEF v
  <2>5. QED
    BY <2>1, <2>2, <2>3, <2>4 DEF Mute
<1>3. /\ Push(e, t) = EvaluateQueuePressure(s) \/ Push(e, t) = PumpWorkers(p)
  BY DEF Push, Added, Keyed
<1> HIDE DEF s, room
<1>4. Mute(room, a)
  <2> DEFINE Q == Append(room.queue, t)
             I == room.byId \cup {t.id}
             K == Keyed(room.byKey, t)
  <2>1. a = [room EXCEPT !.queue = Q, !.byId = I, !.byKey = K]
    BY DEF Added
  <2> HIDE DEF a, Q, I, K
  <2>2. QED
    BY <1>2, <2>1 DEF Engine, Fields, Mute
<1> HIDE DEF a
<1>5. Mute(a, p)
  BY <1>4, PressureMute DEF Mute
<1> HIDE DEF p
<1>6. Mute(p, PumpWorkers(p))
  BY <1>5, PumpMute DEF Mute
<1>7. Mute(s, EvaluateQueuePressure(s))
  BY <1>1, PressureMute DEF Mute
<1>8. QED
  BY <1>1, <1>2, <1>3, <1>4, <1>5, <1>6, <1>7 DEF Mute

\* A task absorbs a trigger.
LEMMA CoalesceMute ==
  ASSUME NEW e, Engine(e), NEW i, NEW t, NEW strategy
  PROVE  Mute(e, Coalesce(e, i, t, strategy))
BY DEF Coalesce, Engine, Fields, Mute

\* enqueueTask tells nothing of outcomes.
LEMMA EnqueueMute ==
  ASSUME NEW e, Engine(e), NEW i, NEW key, NEW m
  PROVE  Mute(e, EnqueueTask(e, i, key, m))
<1> DEFINE rule == Rules[i]
           coalesces == rule.coalesce # "off" /\ key # NoKey
           k == <<rule.id, key>>
           t == [id |-> m, key |-> IF coalesces THEN k ELSE <<rule.id, NoKey>>, rule |-> i,
                 event |-> m, at |-> clock, carries |-> {m}]
           found == Absorbing(e, k, rule.window)
           s == [e EXCEPT !.byKey = [e.byKey EXCEPT ![k] = 0]]
           c == Coalesce(e, CHOOSE j \in found : TRUE, t, rule.coalesce)
<1>1. EnqueueTask(e, i, key, m) = IF ~coalesces THEN Push(e, t) ELSE IF found # {} THEN c ELSE Push(s, t)
  BY DEF EnqueueTask
<1>2. Mute(e, s)
  BY DEF Engine, Fields, Mute
<1> HIDE DEF s, t, found, coalesces, k
<1>3. Mute(e, c) /\ Mute(e, Push(e, t)) /\ Mute(s, Push(s, t))
  BY <1>2, PushMute, CoalesceMute DEF Mute
<1> HIDE DEF c
<1>4. QED
  BY <1>1, <1>2, <1>3 DEF Mute

-----------------------------------------------------------------------------
(* onEvent *)

\* Every task of engine e acts on the event its strategies call for, when n triggers have
\* come, those of L under "latest".
AllChosen(e, ex, L, n) ==
  L \subseteq 1..n /\ \A t \in ToSet(e.queue) \cup e.begun \cup ex : Chosen(t, L)

\* One more trigger keeps it so.
LEMMA NextChosen ==
  ASSUME NEW e, NEW f, NEW ex, NEW n, EngineInv(e, ex, n), NEW L, AllChosen(e, ex, L, n),
         NEW m, Follows(m, n), NEW strategy,
         \A v \in ToSet(f.queue) \cup f.begun :
           \/ v \in ToSet(e.queue) \cup e.begun
           \/ v.id = m /\ v.event = m /\ v.carries = {m}
           \/ Absorbed(v, e, m, strategy)
  PROVE  AllChosen(f, ex, IF strategy = "latest" THEN L \cup {m} ELSE L, m)
<1> DEFINE K == IF strategy = "latest" THEN L \cup {m} ELSE L
<1>1. /\ n \in Nat /\ m = n + 1 /\ L \subseteq 1..n
      /\ \A t \in ToSet(e.queue) \cup (ex \cup e.begun) :
           /\ t.id \in t.carries /\ t.event \in t.carries /\ t.carries \subseteq 1..n /\ Chosen(t, L)
  BY DEF Follows, AllChosen, EngineInv, Placed
<1>2. K \subseteq 1..m
  BY <1>1
<1>3. ASSUME NEW t \in ToSet(e.queue) \cup (ex \cup e.begun)
      PROVE  Chosen(t, K)
  <2>1. \A k \in t.carries : k \in K => k \in L
    BY <1>1
  <2>2. L \subseteq K
    OBVIOUS
  <2> HIDE DEF K
  <2>3. QED
    BY <1>1, <2>1, <2>2 DEF Chosen
<1>4. ASSUME NEW v, v.id = m, v.event = m, v.carries = {m} PROVE Chosen(v, K)
  BY <1>1, <1>4 DEF Chosen
<1>5. ASSUME NEW v, Absorbed(v, e, m, strategy) PROVE Chosen(v, K)
  <2>1. PICK q \in ToSet(e.queue) :
          /\ v.id = q.id /\ v.carries = q.carries \cup {m}
          /\ v.event = IF strategy = "latest" THEN m ELSE q.event
    BY <1>5 DEF Absorbed
  <2>2. /\ q.id \in 1..n /\ q.event \in 1..n /\ q.carries \subseteq 1..n
        /\ q.event = q.id \/ q.event \in L
        /\ \A k \in q.carries : q.id <= k /\ (k \in L => k <= q.event)
    BY <1>1 DEF Chosen
  <2>3. CASE strategy = "latest"
    BY <1>1, <2>1, <2>2, <2>3 DEF Chosen
  <2>4. CASE strategy # "latest"
    BY <1>1, <2>1, <2>2, <2>4 DEF Chosen
  <2>5. QED
    BY <2>3, <2>4
<1> HIDE DEF K
<1>6. \A v \in ToSet(f.queue) \cup f.begun \cup ex : Chosen(v, K)
  BY <1>3, <1>4, <1>5
<1>7. QED
  BY <1>2, <1>6 DEF AllChosen, K

\* Where onEvent has got to: x is the engine and the number of triggers between two rules.
Reached(x) ==
  /\ EngineInv(x.engine, executed, x.n) /\ Staffed(x.engine)
  /\ x.engine.running = engine.running \cup x.engine.begun
  /\ engine.dropped \subseteq x.engine.dropped /\ triggers \in 0..x.n
  /\ Mute(engine, x.engine) /\ AllChosen(x.engine, executed, x.latest, x.n)

\* The inductive invariant: no action is being begun between two steps.
DispatchInv ==
  /\ EngineInv(engine, executed, triggers) /\ Staffed(engine) /\ engine.begun = {}
  /\ AllChosen(engine, executed, latest, triggers)
  /\ clock \in Nat

\* One rule of onEvent's loop.
LEMMA RuleInv ==
  ASSUME NEW x, Reached(x), clock \in Nat, NEW kind \in Kinds, NEW i \in DOMAIN Rules
  PROVE  Reached(ApplyRule(x, i, kind))
<1>1. CASE i \notin kind.rules \/ ~CanTrigger(i, x.last)
  BY <1>1 DEF ApplyRule
<1>2. CASE ~(i \notin kind.rules \/ ~CanTrigger(i, x.last))
  <2> DEFINE m == x.n + 1
             f == EnqueueTask(x.engine, i, kind.key, m)
             L == IF Rules[i].coalesce = "latest" THEN x.latest \cup {m} ELSE x.latest
             y == [engine |-> f, last |-> [x.last EXCEPT ![Rules[i].id] = clock], n |-> m, latest |-> L]
  <2>1. kind.key \in Keys \cup {NoKey}
    BY DispatchConstants
  <2>2. EngineInv(x.engine, executed, x.n) /\ Staffed(x.engine)
        /\ x.engine.running = engine.running \cup x.engine.begun
    BY DEF Reached
  <2>3. ApplyRule(x, i, kind) = y
    BY <1>2 DEF ApplyRule
  <2>4. y.engine = f /\ y.n = m /\ y.latest = L
    OBVIOUS
  <2>5. Follows(m, x.n)
    BY DEF Follows
  <2> HIDE DEF m, y
  <2>6. /\ EngineInv(f, executed, m) /\ Staffed(f) /\ f.running = engine.running \cup f.begun
        /\ x.engine.dropped \subseteq f.dropped
        /\ \A v \in ToSet(f.queue) \cup f.begun :
             \/ v \in ToSet(x.engine.queue) \cup x.engine.begun
             \/ v.id = m /\ v.event = m /\ v.carries = {m}
             \/ Absorbed(v, x.engine, m, Rules[i].coalesce)
    BY <2>1, <2>2, <2>5, EnqueueInv
  <2>7. AllChosen(f, executed, L, m)
    <3>1. AllChosen(x.engine, executed, x.latest, x.n)
      BY DEF Reached
    <3> HIDE DEF f
    <3>2. QED
      BY <2>2, <2>5, <2>6, <3>1, NextChosen
  <2> HIDE DEF L
  <2>8. QED
    <3>1. triggers \in 0..m
      BY DEF Reached, EngineInv, m
    <3>2. Mute(engine, f)
      BY EnqueueMute DEF Reached, Mute
    <3>3. QED
      BY <2>3, <2>4, <2>6, <2>7, <3>1, <3>2 DEF Reached
<1>3. QED
  BY <1>1, <1>2

\* Every nonempty set of naturals has a least element.
LEMMA LeastElement == ASSUME NEW T, T \subseteq Nat, T # {} PROVE \E x \in T : \A y \in T : ~(y < x)
<1> DEFINE R == OpToRel(<, Nat)
<1>1. IsWellFoundedOn(R, Nat)
  BY NatLessThanWellFounded
<1>2. \A x, y \in Nat : y < x => <<y, x>> \in R
  BY DEF OpToRel
<1>3. \E x \in T : \A y \in T : ~(<<y, x>> \in R)
  <2> HIDE DEF R
  <2> QED
    BY <1>1, WFMin
<1>4. QED
  BY <1>2, <1>3

\* Induction over an interval, about the set of the numbers that have the property.
LEMMA IntervalInduction ==
  ASSUME NEW N \in Nat, NEW T, T \subseteq 0..N, 0 \in T, \A k \in T : k < N => k + 1 \in T
  PROVE  \A k \in 0..N : k \in T
<1> DEFINE U == {k \in 0..N : k \notin T}
<1>1. SUFFICES ASSUME U # {} PROVE FALSE
  OBVIOUS
<1>2. U \subseteq Nat
  OBVIOUS
<1>3. PICK x \in U : \A y \in U : ~(y < x)
  <2> HIDE DEF U
  <2> QED
    BY <1>1, <1>2, LeastElement
<1>4. x \in 0..N /\ x # 0 /\ x - 1 \in 0..N /\ x - 1 < x
  BY <1>3
<1>5. x - 1 \in T
  BY <1>3, <1>4
<1>6. QED
  BY <1>3, <1>4, <1>5

\* The loop of onEvent is defined, and comes to an engine with the invariant.
LEMMA LoopInv ==
  ASSUME DispatchInv, NEW kind \in Kinds
  PROVE  LET Loop[i \in 0..Len(Rules)] ==
               IF i = 0 THEN [engine |-> engine, last |-> lastTrigger, n |-> triggers, latest |-> latest]
               ELSE ApplyRule(Loop[i - 1], i, kind)
         IN Reached(Loop[Len(Rules)])
<1> DEFINE N == Len(Rules)
           start == [engine |-> engine, last |-> lastTrigger, n |-> triggers, latest |-> latest]
           Up(f, n) == f = [i \in 0..n |-> IF i = 0 THEN start ELSE ApplyRule(f[i - 1], i, kind)]
           loop == CHOOSE f : f = [i \in 0..N |-> IF i = 0 THEN start ELSE ApplyRule(f[i - 1], i, kind)]
<1>0. N \in Nat /\ DOMAIN Rules = 1..N
  BY DispatchConstants
<1>1. Reached(start)
  <2>1. triggers \in 0..triggers
    BY DEF DispatchInv, EngineInv
  <2>2. engine.running = engine.running \cup engine.begun
    BY DEF DispatchInv
  <2>3. Mute(engine, engine)
    BY DEF Mute, DispatchInv, EngineInv
  <2>4. QED
    BY <2>1, <2>2, <2>3 DEF Reached, DispatchInv
<1>2. \E f : Up(f, N)
  <2> HIDE DEF start, N
  <2> DEFINE T == {n \in 0..N : \E f : Up(f, n)}
  <2>1. 0 \in T
    <3> DEFINE g == [i \in 0..0 |-> start]
    <3>1. Up(g, 0)
      OBVIOUS
    <3>2. 0 \in 0..N
      BY <1>0
    <3>3. QED
      BY <3>1, <3>2
  <2>2. ASSUME NEW k \in T, k < N PROVE k + 1 \in T
    <3>1. PICK f : Up(f, k)
      BY <2>2
    <3> DEFINE g == [i \in 0..k + 1 |-> IF i = k + 1 THEN ApplyRule(f[k], k + 1, kind) ELSE f[i]]
    <3>2. k \in 0..N
      BY <2>2
    <3>3. ASSUME NEW i \in 0..k + 1
          PROVE  g[i] = IF i = 0 THEN start ELSE ApplyRule(g[i - 1], i, kind)
      BY <1>0, <3>1, <3>2, <3>3
    <3>4. Up(g, k + 1)
      BY <3>3
    <3>5. k + 1 \in 0..N
      BY <1>0, <2>2, <3>2
    <3>6. QED
      BY <3>4, <3>5
  <2>3. \A k \in 0..N : k \in T
    <3>1. T \subseteq 0..N
      OBVIOUS
    <3> HIDE DEF T
    <3>2. QED
      BY <1>0, <2>1, <2>2, <3>1, IntervalInduction
  <2>4. QED
    BY <1>0, <2>3
<1>3. Up(loop, N)
  <2> HIDE DEF start, N
  <2> QED
    BY <1>2
<1>4. loop[0] = start /\ \A i \in 1..N : loop[i] = ApplyRule(loop[i - 1], i, kind)
  <2> HIDE DEF start, N, loop
  <2> QED
    BY <1>0, <1>3
<1>5. Reached(loop[N])
  <2> HIDE DEF start, N, loop
  <2> DEFINE T == {n \in 0..N : Reached(loop[n])}
  <2>1. 0 \in T
    BY <1>0, <1>1, <1>4
  <2>2. ASSUME NEW k \in T, k < N PROVE k + 1 \in T
    <3>1. k + 1 \in 1..N /\ loop[k + 1] = ApplyRule(loop[k], k + 1, kind)
      BY <1>0, <1>4, <2>2
    <3>2. Reached(ApplyRule(loop[k], k + 1, kind))
      BY <1>0, <2>2, <3>1, RuleInv DEF DispatchInv
    <3>3. QED
      BY <1>0, <3>1, <3>2
  <2>3. \A k \in 0..N : k \in T
    <3>1. T \subseteq 0..N
      OBVIOUS
    <3> HIDE DEF T
    <3>2. QED
      BY <1>0, <2>1, <2>2, <3>1, IntervalInduction
  <2>4. QED
    BY <1>0, <2>3
<1>6. QED
  BY <1>5

-----------------------------------------------------------------------------
(* The steps *)

\* What a step of onEvent comes to.
LEMMA OnEventStep ==
  ASSUME DispatchInv, NEW kind \in Kinds, OnEvent(kind)
  PROVE  \E e, n :
           /\ EngineInv(e, executed, n) /\ Staffed(e) /\ e.running = engine.running \cup e.begun
           /\ engine.dropped \subseteq e.dropped
           /\ engine' = [e EXCEPT !.begun = {}] /\ executed' = executed \cup e.begun
           /\ triggers' = n /\ accepting /\ accepting' = accepting /\ clock' = clock /\ triggers <= n
           /\ AllChosen(e, executed, latest', n)
<1> DEFINE Loop == LET L[i \in 0..Len(Rules)] ==
                         IF i = 0 THEN [engine |-> engine, last |-> lastTrigger, n |-> triggers, latest |-> latest]
                         ELSE ApplyRule(L[i - 1], i, kind)
                   IN L
           x == Loop[Len(Rules)]
<1>1. Reached(x)
  BY LoopInv
<1>2. /\ engine' = [x.engine EXCEPT !.begun = {}] /\ executed' = executed \cup x.engine.begun
      /\ triggers' = x.n /\ accepting /\ accepting' = accepting /\ clock' = clock
      /\ latest' = x.latest
  BY DEF OnEvent
<1> HIDE DEF x
<1>3. triggers <= x.n
  BY <1>1 DEF Reached, EngineInv
<1>4. QED
  BY <1>1, <1>2, <1>3 DEF Reached

\* What a step that ends an action comes to.
LEMMA ExecuteTaskStep ==
  ASSUME DispatchInv, NEW task \in engine.running, NEW ok, ExecuteTask(task, ok)
  PROVE  \E e :
           /\ EngineInv(e, executed, triggers) /\ Staffed(e)
           /\ e.running = (engine.running \ {task}) \cup e.begun
           /\ e.dropped = engine.dropped /\ ToSet(e.queue) \subseteq ToSet(engine.queue)
           /\ Cardinality(e.running) \in {Cardinality(engine.running) - 1, Cardinality(engine.running)}
           /\ engine' = [e EXCEPT !.begun = {}] /\ executed' = executed \cup e.begun
           /\ triggers' = triggers /\ accepting' = accepting /\ clock' = clock
           /\ AllChosen(e, executed, latest', triggers)
<1> DEFINE told == EvaluateFailureRate(RecordOutcome(engine, ok))
           left == [told EXCEPT !.running = told.running \ {task}]
           e == PumpWorkers(left)
           R == engine.running \ {task}
<1>1. Engine(told) /\ Alike(engine, told)
  BY OutcomeAlike DEF DispatchInv, EngineInv
<1>2. EngineInv(told, executed, triggers)
  BY <1>1, AlikeInv DEF DispatchInv
<1>3. /\ engine' = [e EXCEPT !.begun = {}] /\ executed' = executed \cup e.begun
      /\ triggers' = triggers /\ accepting' = accepting /\ clock' = clock /\ latest' = latest
  BY DEF ExecuteTask, RunWorker
<1> HIDE DEF told
<1>4. /\ Engine(left) /\ left.queue = engine.queue /\ left.byId = engine.byId
      /\ left.byKey = engine.byKey /\ left.running = R /\ left.dropped = engine.dropped
      /\ left.begun = {}
  BY <1>1 DEF Engine, Fields, Alike, DispatchInv
<1>5. /\ IsFiniteSet(engine.running) /\ Cardinality(engine.running) \in Nat
      /\ Cardinality(engine.running) <= Concurrency
      /\ IsFiniteSet(R) /\ Cardinality(R) = Cardinality(engine.running) - 1
  BY FS_RemoveElement, FS_CardinalityType DEF DispatchInv, EngineInv
<1>6. Len(engine.queue) <= 1 \/ Cardinality(R) + 1 >= Concurrency
  BY <1>5 DEF DispatchInv, EngineInv, Staffed, Line
<1> HIDE DEF left, R
<1>7. EngineInv(left, executed, triggers)
  <2>1. Cardinality(R) <= Concurrency /\ R \subseteq executed
    BY <1>5 DEF DispatchInv, EngineInv, R
  <2>2. QED
    BY <1>4, <1>5, <2>1 DEF DispatchInv, EngineInv
<1>8. left.running = R \cup left.begun
  BY <1>4
<1>9. Len(left.queue) <= 1 \/ Cardinality(left.running) + 1 >= Concurrency
  BY <1>4, <1>6
<1>10. /\ EngineInv(e, executed, triggers) /\ Staffed(e) /\ e.running = R \cup e.begun
       /\ e.dropped = left.dropped /\ ToSet(e.queue) \subseteq ToSet(left.queue)
       /\ e.begun \subseteq ToSet(left.queue) \cup left.begun
       /\ Cardinality(e.running) \in {Cardinality(left.running), Cardinality(left.running) + 1}
  BY <1>7, <1>8, <1>9, PumpInv
<1> HIDE DEF e
<1>11. Cardinality(e.running) \in {Cardinality(engine.running) - 1, Cardinality(engine.running)}
  BY <1>4, <1>5, <1>10
<1>12. AllChosen(e, executed, latest', triggers)
  BY <1>3, <1>4, <1>10 DEF DispatchInv, AllChosen
<1>13. QED
  BY <1>3, <1>4, <1>10, <1>11, <1>12 DEF R

\* What is left of an engine when its step ends.
LEMMA StepEnds ==
  ASSUME NEW e, NEW ex, NEW n, EngineInv(e, ex, n), Staffed(e)
  PROVE  LET f == [e EXCEPT !.begun = {}]
         IN /\ EngineInv(f, ex \cup e.begun, n) /\ Staffed(f) /\ f.begun = {}
            /\ f.queue = e.queue /\ f.running = e.running /\ f.dropped = e.dropped
            /\ \A L : AllChosen(e, ex, L, n) => AllChosen(f, ex \cup e.begun, L, n)
<1> DEFINE f == [e EXCEPT !.begun = {}]
<1>1. /\ Engine(f) /\ f.queue = e.queue /\ f.byId = e.byId /\ f.byKey = e.byKey
      /\ f.running = e.running /\ f.dropped = e.dropped /\ f.begun = {}
  BY DEF EngineInv, Engine, Fields
<1> HIDE DEF f
<1>2. (ex \cup e.begun) \cup f.begun = ex \cup e.begun
  BY <1>1
<1>3. EngineInv(f, ex \cup e.begun, n)
  BY <1>1, <1>2 DEF EngineInv
<1>4. \A L : AllChosen(e, ex, L, n) => AllChosen(f, ex \cup e.begun, L, n)
  BY <1>1 DEF AllChosen
<1>5. QED
  BY <1>1, <1>3, <1>4 DEF Staffed, f

\* The engine starts with nothing.
LEMMA InitInv == Init => DispatchInv
<1> SUFFICES ASSUME Init PROVE DispatchInv
  OBVIOUS
<1>1. /\ Engine(engine) /\ engine.queue = <<>> /\ engine.byId = {} /\ engine.running = {}
      /\ engine.byKey = [k \in CoalesceKeys |-> 0] /\ engine.dropped = {} /\ engine.begun = {}
      /\ executed = {} /\ triggers = 0 /\ clock = 1 /\ latest = {}
  BY DEF Init, InitEngine, Engine, Fields
<1>2. ToSet(engine.queue) = {} /\ Line(engine.queue) /\ Len(engine.queue) = 0
  BY <1>1 DEF ToSet, Line
<1>3. Placed({}, {}, {}, 0)
  BY DEF Placed
<1>4. Indexed({}, {}, [k \in CoalesceKeys |-> 0])
  BY DEF Indexed
<1>5. IsFiniteSet({}) /\ Cardinality({}) = 0
  BY FS_EmptySet
<1>6. executed \cup engine.begun = {}
  BY <1>1
<1>7. EngineInv(engine, executed, triggers)
  <2>1. /\ Len(engine.queue) <= MaxPending /\ IsFiniteSet(engine.running)
        /\ Cardinality(engine.running) <= Concurrency
        /\ engine.running \subseteq executed \cup engine.begun /\ triggers \in Nat
        /\ \A t \in engine.begun : t \notin executed
    BY <1>1, <1>2, <1>5
  <2>2. Placed(ToSet(engine.queue), executed \cup engine.begun, engine.dropped, triggers)
    BY <1>1, <1>2, <1>3, <1>6
  <2>3. Indexed(ToSet(engine.queue), engine.byId, engine.byKey)
    BY <1>1, <1>2, <1>4
  <2>4. QED
    BY <1>1, <1>2, <2>1, <2>2, <2>3 DEF EngineInv
<1>8. AllChosen(engine, executed, latest, triggers)
  BY <1>1, <1>2 DEF AllChosen
<1>9. QED
  BY <1>1, <1>7, <1>8 DEF DispatchInv, Staffed

\* Every step keeps the invariant.
LEMMA NextInv == DispatchInv /\ [Next]_vars => DispatchInv'
<1> SUFFICES ASSUME DispatchInv, [Next]_vars PROVE DispatchInv'
  OBVIOUS
<1>1. ASSUME NEW kind \in Kinds, OnEvent(kind) PROVE DispatchInv'
  <2>1. PICK e, n :
          /\ EngineInv(e, executed, n) /\ Staffed(e)
          /\ engine' = [e EXCEPT !.begun = {}] /\ executed' = executed \cup e.begun
          /\ triggers' = n /\ clock' = clock /\ AllChosen(e, executed, latest', n)
    BY <1>1, OnEventStep
  <2>2. /\ EngineInv(engine', executed', n) /\ Staffed(engine') /\ engine'.begun = {}
        /\ AllChosen(engine', executed', latest', n)
    BY <2>1, StepEnds
  <2>3. QED
    BY <2>1, <2>2 DEF DispatchInv, EngineInv, Staffed, AllChosen
<1>2. ASSUME NEW task \in engine.running, NEW ok \in BOOLEAN, ExecuteTask(task, ok)
      PROVE  DispatchInv'
  <2>1. PICK e :
          /\ EngineInv(e, executed, triggers) /\ Staffed(e)
          /\ engine' = [e EXCEPT !.begun = {}] /\ executed' = executed \cup e.begun
          /\ triggers' = triggers /\ clock' = clock /\ AllChosen(e, executed, latest', triggers)
    BY <1>2, ExecuteTaskStep
  <2>2. /\ EngineInv(engine', executed', triggers) /\ Staffed(engine') /\ engine'.begun = {}
        /\ AllChosen(engine', executed', latest', triggers)
    BY <2>1, StepEnds
  <2>3. QED
    BY <2>1, <2>2 DEF DispatchInv, EngineInv, Staffed, AllChosen
<1>3. ASSUME NEW task \in engine.running, Hang(task) PROVE DispatchInv'
  BY <1>3 DEF Hang, DispatchInv, EngineInv, Staffed, AllChosen
<1>4. ASSUME Stop PROVE DispatchInv'
  BY <1>4 DEF Stop, DispatchInv, EngineInv, Staffed, AllChosen
<1>5. ASSUME Tick PROVE DispatchInv'
  <2>1. /\ engine' = engine /\ executed' = executed /\ triggers' = triggers /\ clock' \in Nat
        /\ latest' = latest
    BY <1>5 DEF Tick, DispatchInv
  <2>2. QED
    BY <2>1 DEF DispatchInv, EngineInv, Staffed, AllChosen
<1>6. ASSUME UNCHANGED vars PROVE DispatchInv'
  BY <1>6 DEF vars, DispatchInv, EngineInv, Staffed, AllChosen
<1>7. QED
  BY <1>1, <1>2, <1>3, <1>4, <1>5, <1>6 DEF Next

\* The invariant holds in every reachable state.
LEMMA DispatchInvariant == Spec => []DispatchInv
BY InitInv, NextInv, PTL DEF Spec

-----------------------------------------------------------------------------
(* The results *)

\* The queue stays within its limit, no task waits while a worker is free, and the indexes
\* by id and by coalesce key say what the queue says (enqueueTask, tryCoalesceTask,
\* pumpWorkers), for any limit, concurrency, rules and drop policy.
THEOREM QueueSound == Spec => []QueueCoherent
<1>1. DispatchInv => QueueCoherent
  BY DEF DispatchInv, EngineInv, Staffed, Indexed, QueueCoherent
<1>2. QED
  BY <1>1, DispatchInvariant, PTL

\* For any rules, also rules of different strategies under one id, which the validation of
\* the configuration lets pass: an action gets the newest of the events of its task that came
\* under "latest", and the oldest when none did (tryCoalesceTask).
THEOREM EventSound == Spec => []EventOfStrategy
<1>1. DispatchInv => EventOfStrategy
  <2> SUFFICES ASSUME DispatchInv, NEW t \in executed \cup ToSet(engine.queue)
               PROVE  LET under == t.carries \cap latest
                      IN IF under # {} THEN t.event \in under /\ \A n \in under : n <= t.event
                         ELSE t.event \in t.carries /\ \A n \in t.carries : t.event <= n
    BY DEF EventOfStrategy
  <2>1. /\ t.id \in t.carries /\ t.event \in t.carries
        /\ \A n \in t.carries : n \in Nat
    BY DEF DispatchInv, EngineInv, Placed
  <2>2. Chosen(t, latest)
    BY DEF DispatchInv, AllChosen
  <2>3. ASSUME NEW n \in t.carries, n \in latest PROVE t.event \in latest
    <3>1. t.id <= n /\ n <= t.event /\ (t.event = t.id \/ t.event \in latest)
      BY <2>2, <2>3 DEF Chosen
    <3>2. t.event = t.id => n = t.event
      BY <2>1, <3>1
    <3>3. QED
      BY <2>3, <3>1, <3>2
  <2>4. QED
    BY <2>1, <2>2, <2>3 DEF Chosen
<1>2. QED
  BY <1>1, DispatchInvariant, PTL

\* Where the triggers of queued tasks Q, begun tasks B of which those of R run, and dropped
\* triggers D are.
LEMMA PlacesOfPool ==
  ASSUME NEW Q, NEW B, NEW D, NEW n, Placed(Q, B, D, n), NEW R, R \subseteq B
  PROVE  LET W == Union(Q)
             A == Union(R)
             F == Union(B) \ A
         IN /\ W \cup A \cup F \cup D = 1..n
            /\ W \cap (A \cup F \cup D) = {} /\ A \cap (F \cup D) = {} /\ F \cap D = {}
<1>1. Union(R) \subseteq Union(B)
  BY DEF Union
<1>2. Union(Q) \cap Union(B) = {}
  BY DEF Placed, Union
<1>3. Union(Q) \cap D = {} /\ Union(B) \cap D = {}
  BY DEF Placed, Union
<1>4. Union(Q) \cup Union(B) \cup D = 1..n
  <2>1. Union(Q) \subseteq 1..n /\ Union(B) \subseteq 1..n /\ D \subseteq 1..n
    BY DEF Placed, Union
  <2>2. \A m \in 1..n : m \in D \/ m \in Union(Q) \/ m \in Union(B)
    BY DEF Placed, Union
  <2>3. QED
    BY <2>1, <2>2
<1>5. QED
  BY <1>1, <1>2, <1>3, <1>4

\* Two sets of tasks that share none have no trigger in common.
LEMMA ApartInPool ==
  ASSUME NEW Q, NEW B, NEW D, NEW n, Placed(Q, B, D, n),
         NEW S, NEW T, S \subseteq B, T \subseteq B, \A t \in S : t \notin T
  PROVE  Union(S) \cap Union(T) = {}
BY DEF Placed, Union

\* What the tasks of two sets carry.
LEMMA UnionOfTasks == ASSUME NEW S, NEW T PROVE Union(S \cup T) = Union(S) \cup Union(T)
BY DEF Union

\* onEvent accepts.
LEMMA AcceptStep ==
  ASSUME DispatchInv, NEW kind \in Kinds, OnEvent(kind)
  PROVE  Pool!Accept
<1>1. PICK e, n :
        /\ EngineInv(e, executed, n) /\ Staffed(e) /\ e.running = engine.running \cup e.begun
        /\ engine.dropped \subseteq e.dropped
        /\ engine' = [e EXCEPT !.begun = {}] /\ executed' = executed \cup e.begun
        /\ triggers' = n /\ accepting /\ accepting' = accepting /\ triggers <= n
  BY OnEventStep
<1>2. engine'.queue = e.queue /\ engine'.running = e.running /\ engine'.dropped = e.dropped
  BY <1>1, StepEnds
<1> DEFINE Q == ToSet(engine.queue)
           R == engine.running
           D == engine.dropped
           Q1 == ToSet(e.queue)
           R1 == e.running
           D1 == e.dropped
           B1 == executed \cup e.begun
<1>3. /\ Placed(Q, executed, D, triggers) /\ R \subseteq executed
      /\ Placed(Q1, B1, D1, n) /\ R1 \subseteq B1 /\ R1 = R \cup e.begun
      /\ \A t \in e.begun : t \notin executed
      /\ n \in Nat /\ triggers \in Nat /\ D \subseteq D1
      /\ IsFiniteSet(R) /\ IsFiniteSet(R1) /\ Cardinality(R1) <= Concurrency
  <2>1. executed \cup engine.begun = executed
    BY DEF DispatchInv
  <2>2. QED
    BY <1>1, <2>1 DEF DispatchInv, EngineInv
<1>4. Cardinality(R1) \in Cardinality(R)..Concurrency
  <2>1. R \subseteq R1
    BY <1>3
  <2>2. Cardinality(R) <= Cardinality(R1) /\ Cardinality(R) \in Nat /\ Cardinality(R1) \in Nat
    BY <1>3, <2>1, FS_Subset, FS_CardinalityType
  <2>3. QED
    BY <1>3, <2>2
<1>5. executed' = B1 /\ ToSet(engine'.queue) = Q1 /\ engine'.running = R1 /\ engine'.dropped = D1
  BY <1>1, <1>2
<1> DEFINE F == Union(executed) \ Union(R)
           F1 == Union(B1) \ Union(R1)
<1> HIDE DEF Q, R, D, Q1, R1, D1, B1
<1>6. Union(R1) = Union(R) \cup Union(e.begun) /\ Union(B1) = Union(executed) \cup Union(e.begun)
  BY <1>3, UnionOfTasks DEF B1
<1>7. Union(e.begun) \cap Union(executed) = {}
  BY <1>3, ApartInPool DEF B1
<1>8. Union(R) \subseteq Union(R1) /\ F1 = F
  BY <1>6, <1>7
<1>9. /\ Union(Q) \cup Union(R) \cup F \cup D = 1..triggers
      /\ Union(Q1) \cup Union(R1) \cup F1 \cup D1 = 1..n
      /\ Union(Q1) \cap (Union(R1) \cup F1 \cup D1) = {} /\ Union(R1) \cap (F1 \cup D1) = {}
      /\ F1 \cap D1 = {}
  <2>1. Union(Q) \cup Union(R) \cup F \cup D = 1..triggers
    BY <1>3, PlacesOfPool
  <2>2. /\ Union(Q1) \cup Union(R1) \cup F1 \cup D1 = 1..n
        /\ Union(Q1) \cap (Union(R1) \cup F1 \cup D1) = {} /\ Union(R1) \cap (F1 \cup D1) = {}
        /\ F1 \cap D1 = {}
    BY <1>3, PlacesOfPool
  <2>3. QED
    BY <2>1, <2>2
<1>10. Union(Q) \cup Union(R) \cup F \cup D \subseteq Union(Q1) \cup Union(R1) \cup F1 \cup D1
  <2>1. 1..triggers \subseteq 1..n
    BY <1>1, <1>3
  <2>2. QED
    BY <1>9, <2>1
<1>12. /\ Union(executed) \ Union(engine.running) = F
       /\ (Union(executed) \ Union(engine.running))' = F1
       /\ Union(ToSet(engine.queue)) = Union(Q) /\ Union(ToSet(engine.queue))' = Union(Q1)
       /\ Union(engine.running) = Union(R) /\ Union(engine.running)' = Union(R1)
       /\ engine.dropped = D /\ (engine.dropped)' = D1
       /\ Cardinality(engine.running) = Cardinality(R)
       /\ Cardinality(engine.running)' = Cardinality(R1)
  BY <1>5 DEF Q, R, D
<1>13. QED
  <2>1. Pool!All \subseteq Pool!All'
    <3> HIDE DEF F, F1
    <3> QED
      BY <1>10, <1>12 DEF Pool!All
  <2>2. Pool!Partition'
    <3> HIDE DEF F, F1
    <3> QED
      BY <1>9, <1>12 DEF Pool!Partition
  <2>3. QED
    BY <1>1, <1>3, <1>4, <1>8, <1>12, <2>1, <2>2 DEF Pool!Accept

\* The end of an action completes it.
LEMMA CompleteStep ==
  ASSUME DispatchInv, NEW task \in engine.running, NEW ok, ExecuteTask(task, ok)
  PROVE  Pool!Complete
<1>1. PICK e :
        /\ EngineInv(e, executed, triggers) /\ Staffed(e)
        /\ e.running = (engine.running \ {task}) \cup e.begun
        /\ e.dropped = engine.dropped /\ ToSet(e.queue) \subseteq ToSet(engine.queue)
        /\ Cardinality(e.running) \in {Cardinality(engine.running) - 1, Cardinality(engine.running)}
        /\ engine' = [e EXCEPT !.begun = {}] /\ executed' = executed \cup e.begun
        /\ accepting' = accepting
  BY ExecuteTaskStep
<1>2. engine'.queue = e.queue /\ engine'.running = e.running /\ engine'.dropped = e.dropped
  BY <1>1, StepEnds
<1> DEFINE Q == ToSet(engine.queue)
           R == engine.running
           D == engine.dropped
           Q1 == ToSet(e.queue)
           R1 == e.running
           B1 == executed \cup e.begun
           T == {task}
<1>3. /\ Placed(Q, executed, D, triggers) /\ R \subseteq executed
      /\ Placed(Q1, B1, D, triggers) /\ R1 \subseteq B1 /\ R1 = (R \ T) \cup e.begun
      /\ \A t \in e.begun : t \notin executed
      /\ Q1 \subseteq Q /\ IsFiniteSet(R) /\ task \in R
      /\ Cardinality(R1) \in {Cardinality(R) - 1, Cardinality(R)}
  <2>1. executed \cup engine.begun = executed
    BY DEF DispatchInv
  <2>2. QED
    BY <1>1, <2>1 DEF DispatchInv, EngineInv
<1>4. Cardinality(R) > 0
  BY <1>3, FS_CardinalityType, FS_EmptySet
<1>5. executed' = B1 /\ ToSet(engine'.queue) = Q1 /\ engine'.running = R1 /\ engine'.dropped = D
  BY <1>1, <1>2
<1> DEFINE F == Union(executed) \ Union(R)
           F1 == Union(B1) \ Union(R1)
<1>6. task.id \in Union(T) /\ Union(T) \subseteq Union(executed)
  BY <1>3 DEF Placed, Union
<1> HIDE DEF Q, R, D, Q1, R1, T, B1
<1>7. /\ Union(R1) = Union(R \ T) \cup Union(e.begun)
      /\ Union(B1) = Union(executed) \cup Union(e.begun)
      /\ Union(R) = Union(R \ T) \cup Union(T)
  <2>1. R = (R \ T) \cup T
    BY <1>3 DEF T
  <2>2. QED
    BY <1>3, <2>1, UnionOfTasks DEF B1
<1>8. Union(e.begun) \cap Union(executed) = {}
  BY <1>3, ApartInPool DEF B1
<1>9. Union(R \ T) \cap Union(T) = {}
  <2>1. T \subseteq R /\ \A t \in R \ T : t \notin T
    BY <1>3 DEF T
  <2>2. QED
    BY <1>3, <2>1, ApartInPool
<1>10. F1 = F \cup Union(T) /\ Union(T) \subseteq Union(R) /\ task.id \notin F
  BY <1>6, <1>7, <1>8, <1>9
<1>11. Union(Q1) \subseteq Union(Q)
  BY <1>3 DEF Union
<1>12. /\ Union(Q) \cup Union(R) \cup F \cup D = 1..triggers
       /\ Union(Q1) \cup Union(R1) \cup F1 \cup D = 1..triggers
       /\ Union(Q1) \cap (Union(R1) \cup F1 \cup D) = {} /\ Union(R1) \cap (F1 \cup D) = {}
       /\ F1 \cap D = {}
  BY <1>3, PlacesOfPool
<1>14. /\ Union(executed) \ Union(engine.running) = F
       /\ (Union(executed) \ Union(engine.running))' = F1
       /\ Union(ToSet(engine.queue)) = Union(Q) /\ Union(ToSet(engine.queue))' = Union(Q1)
       /\ Union(engine.running) = Union(R) /\ Union(engine.running)' = Union(R1)
       /\ engine.dropped = D /\ (engine.dropped)' = D
       /\ Cardinality(engine.running) = Cardinality(R)
       /\ Cardinality(engine.running)' = Cardinality(R1)
  BY <1>5 DEF Q, R, D
<1>15. F \subseteq F1 /\ F1 # F /\ F1 \subseteq F \cup Union(R)
  BY <1>6, <1>10
<1>16. QED
  <2> HIDE DEF F, F1
  <2>1. Pool!All' = Pool!All
    BY <1>12, <1>14 DEF Pool!All
  <2>2. Pool!Partition'
    BY <1>12, <1>14 DEF Pool!Partition
  <2>3. QED
    BY <1>1, <1>3, <1>4, <1>11, <1>14, <1>15, <2>1, <2>2 DEF Pool!Complete

\* What does not touch the tasks leaves the pool as it is.
LEMMA PoolUnchanged ==
  ASSUME engine' = engine, executed' = executed, accepting' = accepting
  PROVE  UNCHANGED Pool!poolVars
BY DEF Pool!poolVars

\* The dispatch engine implements ActionPool: no trigger is lost or acted upon twice, none is
\* dropped once its action runs, at most so many actions run at a time, and nothing comes in
\* after stop(), whatever is coalesced, dropped, ends, fails or hangs.
THEOREM PoolImplemented == Spec => ImplementsPool
<1>1. Init => Pool!Init
  <2> SUFFICES ASSUME Init PROVE Pool!Init
    OBVIOUS
  <2>1. engine.queue = <<>> /\ engine.running = {} /\ engine.dropped = {} /\ executed = {} /\ accepting = TRUE
    BY DEF Init, InitEngine
  <2>2. ToSet(engine.queue) = {} /\ Union({}) = {} /\ Cardinality({}) = 0
    BY <2>1, FS_EmptySet DEF ToSet, Union
  <2>3. QED
    BY <2>1, <2>2 DEF Pool!Init
<1>2. DispatchInv /\ [Next]_vars => [Pool!Next]_(Pool!poolVars)
  <2> SUFFICES ASSUME DispatchInv, [Next]_vars PROVE [Pool!Next]_(Pool!poolVars)
    OBVIOUS
  <2>1. ASSUME NEW kind \in Kinds, OnEvent(kind) PROVE Pool!Next
    BY <2>1, AcceptStep DEF Pool!Next
  <2>2. ASSUME NEW task \in engine.running, NEW ok \in BOOLEAN, ExecuteTask(task, ok) PROVE Pool!Next
    BY <2>2, CompleteStep DEF Pool!Next
  <2>3. ASSUME NEW task \in engine.running, Hang(task) PROVE UNCHANGED Pool!poolVars
    BY <2>3, PoolUnchanged DEF Hang
  <2>4. ASSUME Stop PROVE Pool!Next
    <3>1. accepting' = FALSE /\ engine' = engine /\ executed' = executed
      BY <2>4 DEF Stop
    <3>2. QED
      BY <3>1 DEF Pool!Next, Pool!Close
  <2>5. ASSUME Tick PROVE UNCHANGED Pool!poolVars
    BY <2>5, PoolUnchanged DEF Tick
  <2>6. ASSUME UNCHANGED vars PROVE UNCHANGED Pool!poolVars
    BY <2>6, PoolUnchanged DEF vars
  <2>7. QED
    BY <2>1, <2>2, <2>3, <2>4, <2>5, <2>6 DEF Next
<1>3. QED
  BY <1>1, <1>2, DispatchInvariant, PTL DEF Spec, ImplementsPool, Pool!Spec

-----------------------------------------------------------------------------
(* The failure-rate alert *)

Outcome == [at : Nat, ok : BOOLEAN]

\* An outcome is recorded at the time it comes.
Timed(l) == \A i, j \in DOMAIN l : i <= j => l[i].at <= l[j].at

\* Outcomes o are those of history l from position k + 1 on, and those are the ones that
\* are young enough when the last one comes.
Recent(o, l, k) ==
  /\ o \in Seq(Outcome) /\ Len(o) = Len(l) - k /\ \A i \in DOMAIN o : o[i] = l[i + k]
  /\ \A i \in DOMAIN l : l[i].at + Window >= l[Len(l)].at <=> i > k

\* The alert that outcomes o call for.
Called(o) == Len(o) >= MinSamples /\ Failures(o) * 100 >= ThresholdPct * Len(o)

AlertInv ==
  /\ log \in Seq(Outcome) /\ Timed(log) /\ \A i \in DOMAIN log : log[i].at <= clock
  /\ \E k \in 0..Len(log) : Recent(engine.outcomes, log, k)
  /\ log # <<>> => (engine.alert <=> Called(engine.outcomes))

\* The outcomes that are shifted are those that are too old for the new one (recordOutcome).
LEMMA OutcomeRecorded ==
  ASSUME NEW l \in Seq(Outcome), Timed(l), clock \in Nat, \A i \in DOMAIN l : l[i].at <= clock,
         NEW o, NEW k \in 0..Len(l), Recent(o, l, k), NEW ok \in BOOLEAN
  PROVE  LET new == [at |-> clock, ok |-> ok]
             l2 == Append(l, new)
         IN /\ l2 \in Seq(Outcome) /\ Timed(l2) /\ \A i \in DOMAIN l2 : l2[i].at <= clock
            /\ \E m \in 0..Len(l2) : Recent(Shifted(Append(o, new)), l2, m)
<1> DEFINE new == [at |-> clock, ok |-> ok]
           l2 == Append(l, new)
           a == Append(o, new)
           young == {i \in DOMAIN a : a[i].at + Window >= clock}
           f == Min(young)
           s == SubSeq(a, f, Len(a))
           m == k + f - 1
<1>0. Window \in Nat
  BY DispatchConstants
<1>1. new \in Outcome /\ new.at = clock
  BY DEF Outcome
<1> HIDE DEF new
<1>2. /\ l2 \in Seq(Outcome) /\ Len(l2) = Len(l) + 1 /\ l2[Len(l2)] = new
      /\ \A i \in 1..Len(l) : l2[i] = l[i]
  BY <1>1
<1>3. /\ a \in Seq(Outcome) /\ Len(a) = Len(o) + 1 /\ a[Len(a)] = new /\ Len(o) = Len(l) - k
      /\ \A i \in 1..Len(o) : a[i] = o[i] /\ o[i] = l[i + k]
  BY <1>1 DEF Recent
<1> HIDE DEF l2, a
<1>4. \A i \in 1..Len(a) : a[i] = l2[i + k]
  <2>1. ASSUME NEW i \in 1..Len(a) PROVE a[i] = l2[i + k]
    <3>1. CASE i = Len(a)
      BY <1>2, <1>3, <3>1
    <3>2. CASE i # Len(a)
      <4>1. i \in 1..Len(o) /\ i + k \in 1..Len(l)
        BY <1>3, <3>2
      <4>2. QED
        BY <1>2, <1>3, <4>1
    <3>3. QED
      BY <3>1, <3>2
  <2>2. QED
    BY <2>1
<1>5. Timed(l2) /\ \A i \in DOMAIN l2 : l2[i].at <= clock
  <2>1. \A i \in DOMAIN l2 : l2[i].at <= clock
    BY <1>1, <1>2
  <2>2. ASSUME NEW i \in DOMAIN l2, NEW j \in DOMAIN l2, i <= j PROVE l2[i].at <= l2[j].at
    <3>1. CASE j = Len(l2)
      BY <1>1, <1>2, <2>1, <3>1
    <3>2. CASE j # Len(l2)
      <4>1. i \in 1..Len(l) /\ j \in 1..Len(l)
        BY <1>2, <2>2, <3>2
      <4>2. QED
        BY <1>2, <2>2, <4>1 DEF Timed
    <3>3. QED
      BY <3>1, <3>2
  <2>3. QED
    BY <2>1, <2>2 DEF Timed
<1>6. /\ f \in 1..Len(a) /\ a[f].at + Window >= clock
      /\ \A i \in 1..Len(a) : i < f => ~(a[i].at + Window >= clock)
  <2>1. Len(a) \in young /\ young \subseteq Nat
    BY <1>0, <1>1, <1>3
  <2>2. \E x \in young : \A y \in young : x <= y
    <3>1. PICK x \in young : \A y \in young : ~(y < x)
      <4> HIDE DEF young
      <4> QED
        BY <2>1, LeastElement
    <3>2. \A y \in young : x <= y
      <4> HIDE DEF young
      <4> QED
        BY <2>1, <3>1
    <3>3. QED
      BY <3>2
  <2>3. f \in young /\ \A y \in young : f <= y
    <3> HIDE DEF young
    <3> QED
      BY <2>2 DEF Min
  <2> HIDE DEF f
  <2>4. QED
    BY <1>3, <2>3
<1>7. Shifted(a) = s
  BY DEF Shifted
<1> HIDE DEF f
<1>8. m \in 0..Len(l2) /\ m + 1 = k + f /\ m >= k
  BY <1>2, <1>3, <1>6
<1>9. s \in Seq(Outcome) /\ Len(s) = Len(l2) - m /\ \A i \in DOMAIN s : s[i] = l2[i + m]
  <2>1. s \in Seq(Outcome) /\ Len(s) = Len(a) - f + 1
    BY <1>3, <1>6
  <2>2. \A i \in 1..Len(s) : s[i] = a[i + f - 1] /\ i + f - 1 \in 1..Len(a)
    BY <1>3, <1>6, <2>1
  <2> HIDE DEF s
  <2>3. Len(s) = Len(l2) - m
    BY <1>2, <1>3, <1>6, <2>1
  <2>4. \A i \in 1..Len(s) : s[i] = l2[i + m]
    <3>1. ASSUME NEW i \in 1..Len(s) PROVE s[i] = l2[i + m]
      <4>1. (i + f - 1) + k = i + m
        BY <1>6, <1>8
      <4>2. s[i] = l2[(i + f - 1) + k]
        BY <1>4, <2>2
      <4>3. QED
        BY <4>1, <4>2
    <3>2. QED
      BY <3>1
  <2>5. QED
    BY <2>1, <2>3, <2>4
<1> HIDE DEF m, s, young
<1>a. /\ DOMAIN l2 = 1..Len(l2) /\ Len(l2) \in Nat /\ l2[Len(l2)].at = clock
      /\ \A i \in 1..Len(l2) : l2[i].at \in Nat
  <2>1. DOMAIN l2 = 1..Len(l2) /\ Len(l2) \in Nat /\ l2[Len(l2)].at = clock
    BY <1>1, <1>2
  <2>2. \A i \in 1..Len(l2) : l2[i] \in Outcome
    BY <1>2
  <2>3. \A x \in Outcome : x.at \in Nat
    BY DEF Outcome
  <2>4. QED
    BY <2>1, <2>2, <2>3
<1>b. /\ Len(a) \in Nat /\ Len(l2) = Len(a) + k /\ Len(l) \in Nat
      /\ m \in Int /\ k \in Nat /\ f \in Nat
  <2>1. Len(a) \in Nat /\ Len(l) \in Nat /\ Len(l2) \in Nat
    BY <1>2, <1>3
  <2>2. k \in Nat
    BY <2>1
  <2>3. m \in Int /\ f \in Nat
    BY <1>6, <1>8, <2>1
  <2>4. Len(l2) = Len(a) + k
    BY <1>2, <1>3, <2>1, <2>2
  <2>5. QED
    BY <2>1, <2>2, <2>3, <2>4
<1>10. ASSUME NEW i \in 1..Len(l2)
       PROVE  l2[i].at + Window >= clock <=> i > m
  <2>1. CASE i > m
    <3>1. f + k \in 1..Len(l2) /\ f + k <= i
      BY <1>6, <1>8, <1>b, <2>1
    <3>2. l2[f + k].at <= l2[i].at
      BY <1>5, <1>a, <3>1 DEF Timed
    <3>3. l2[f + k] = a[f]
      BY <1>4, <1>6
    <3>4. l2[f + k].at + Window >= clock
      BY <1>6, <3>3
    <3>5. l2[f + k].at \in Nat /\ l2[i].at \in Nat
      BY <1>a, <3>1
    <3>6. QED
      BY <1>0, <2>1, <3>2, <3>4, <3>5
  <2>2. CASE ~(i > m) /\ i > k
    <3>1. i - k \in 1..Len(a) /\ i - k < f /\ (i - k) + k = i
      BY <1>8, <1>b, <2>2
    <3>2. a[i - k] = l2[i]
      BY <1>4, <3>1
    <3>3. ~(a[i - k].at + Window >= clock)
      BY <1>6, <3>1
    <3>4. QED
      BY <2>2, <3>2, <3>3
  <2>3. CASE ~(i > k)
    <3>1. i \in 1..Len(l) /\ Len(l) \in 1..Len(l)
      BY <1>b, <2>3
    <3>2. l2[i] = l[i] /\ DOMAIN l = 1..Len(l)
      BY <1>2, <3>1
    <3>3. ~(l[i].at + Window >= l[Len(l)].at)
      BY <2>3, <3>1, <3>2 DEF Recent
    <3>4. l[Len(l)].at <= clock /\ l[Len(l)].at \in Nat /\ l[i].at \in Nat
      <4>1. l[Len(l)] \in Outcome /\ l[i] \in Outcome /\ l[Len(l)].at <= clock
        BY <3>1, <3>2
      <4>2. QED
        BY <4>1 DEF Outcome
    <3>5. ~(l[i].at + Window >= clock)
      BY <1>0, <3>3, <3>4
    <3>6. ~(i > m)
      BY <1>8, <1>b, <2>3
    <3>7. QED
      BY <3>2, <3>5, <3>6
  <2>4. QED
    BY <2>1, <2>2, <2>3
<1>11. Recent(s, l2, m)
  BY <1>9, <1>10, <1>a DEF Recent
<1>12. \E n \in 0..Len(l2) : Recent(Shifted(a), l2, n)
  BY <1>7, <1>8, <1>11
<1>13. QED
  BY <1>2, <1>5, <1>12 DEF l2, a, new

\* What a step of onEvent leaves of the outcomes.
LEMMA OnEventMute ==
  ASSUME DispatchInv, NEW kind \in Kinds, OnEvent(kind)
  PROVE  \E e : Mute(engine, e) /\ engine' = [e EXCEPT !.begun = {}] /\ log' = log /\ clock' = clock
<1> DEFINE Loop == LET L[i \in 0..Len(Rules)] ==
                         IF i = 0 THEN [engine |-> engine, last |-> lastTrigger, n |-> triggers, latest |-> latest]
                         ELSE ApplyRule(L[i - 1], i, kind)
                   IN L
           x == Loop[Len(Rules)]
<1>1. Reached(x)
  BY LoopInv
<1>2. engine' = [x.engine EXCEPT !.begun = {}] /\ log' = log /\ clock' = clock
  BY DEF OnEvent
<1> HIDE DEF x
<1>3. QED
  BY <1>1, <1>2 DEF Reached

\* What is recent in the history is counted as what the engine keeps.
LEMMA RecentCounted ==
  ASSUME NEW l \in Seq(Outcome), NEW o, NEW k \in 0..Len(l), Recent(o, l, k)
  PROVE  LET recent == {i \in DOMAIN l : l[i].at + Window >= l[Len(l)].at}
             failed == {i \in recent : ~l[i].ok}
         IN Cardinality(recent) = Len(o) /\ Cardinality(failed) = Failures(o)
<1> DEFINE recent == {i \in DOMAIN l : l[i].at + Window >= l[Len(l)].at}
           failed == {i \in recent : ~l[i].ok}
           lost == {i \in DOMAIN o : ~o[i].ok}
           f == [i \in lost |-> i + k]
<1>0. /\ Len(l) \in Nat /\ DOMAIN l = 1..Len(l) /\ k \in Nat /\ k <= Len(l)
      /\ Len(o) \in Nat /\ DOMAIN o = 1..Len(o) /\ Len(o) = Len(l) - k
  BY DEF Recent
<1>1. recent = (k + 1)..Len(l)
  BY <1>0 DEF Recent
<1>2. Cardinality(recent) = Len(o)
  <2>1. k + 1 \in Int /\ Len(l) \in Int
    BY <1>0
  <2>2. Cardinality((k + 1)..Len(l)) = IF k + 1 > Len(l) THEN 0 ELSE Len(l) - (k + 1) + 1
    BY <2>1, FS_Interval
  <2> DEFINE n == Len(l)
             c == Len(o)
  <2>3. n \in Nat /\ k \in Nat /\ k <= n /\ c = n - k
    BY <1>0
  <2> HIDE DEF n, c
  <2>4. (IF k + 1 > n THEN 0 ELSE n - (k + 1) + 1) = c
    BY <2>3
  <2>5. QED
    BY <1>1, <2>2, <2>4 DEF n, c
<1>3. lost \subseteq 1..Len(o) /\ IsFiniteSet(1..Len(o)) /\ Len(o) \in Nat
  <2>1. 1 \in Int /\ Len(o) \in Int
    BY <1>0
  <2>2. IsFiniteSet(1..Len(o))
    BY <2>1, FS_Interval
  <2>3. QED
    BY <1>0, <2>2
<1>4. IsFiniteSet(lost)
  <2> HIDE DEF lost
  <2> QED
    BY <1>3, FS_Subset
<1>5. f \in [lost -> failed]
  BY <1>1 DEF Recent
<1>6. \A i, j \in lost : f[i] = f[j] => i = j
  BY <1>3
<1>7. ASSUME NEW j \in failed PROVE \E i \in lost : f[i] = j
  <2>1. j - k \in DOMAIN o /\ (j - k) + k = j
    BY <1>1 DEF Recent
  <2>2. j - k \in lost
    BY <2>1 DEF Recent
  <2>3. QED
    BY <2>1, <2>2
<1>8. f \in Bijection(lost, failed)
  <2> HIDE DEF f, lost, failed
  <2> QED
    BY <1>5, <1>6, <1>7, Fun_IsBij
<1>9. Cardinality(failed) = Cardinality(lost)
  <2> HIDE DEF f, lost, failed
  <2> QED
    BY <1>4, <1>8, FS_Bijection DEF ExistsBijection
<1>10. QED
  BY <1>2, <1>9 DEF Failures

\* What the end of an action does to outcomes and alert.
LEMMA OutcomeTold ==
  ASSUME NEW e, Engine(e), NEW ok
  PROVE  LET f == EvaluateFailureRate(RecordOutcome(e, ok))
         IN /\ Engine(f) /\ f.outcomes = Shifted(Append(e.outcomes, [at |-> clock, ok |-> ok]))
            /\ f.alert = Called(f.outcomes)
<1> DEFINE s == Shifted(Append(e.outcomes, [at |-> clock, ok |-> ok]))
           r == [e EXCEPT !.outcomes = s]
           f == [r EXCEPT !.alert = Called(r.outcomes)]
<1>1. EvaluateFailureRate(RecordOutcome(e, ok)) = f
  BY DEF EvaluateFailureRate, RecordOutcome, Called
<1> HIDE DEF s
<1>2. Engine(r) /\ r.outcomes = s
  BY DEF Engine, Fields
<1> HIDE DEF r
<1>3. Engine(f) /\ f.outcomes = s /\ f.alert = Called(r.outcomes)
  BY <1>2 DEF Engine, Fields
<1>4. QED
  BY <1>1, <1>2, <1>3 DEF s

\* Nothing has ended yet.
LEMMA AlertInit == Init => AlertInv
<1> SUFFICES ASSUME Init PROVE AlertInv
  OBVIOUS
<1>1. log = <<>> /\ engine.outcomes = <<>>
  BY DEF Init, InitEngine
<1>2. Recent(<<>>, <<>>, 0)
  BY DEF Recent
<1>3. QED
  BY <1>1, <1>2 DEF AlertInv, Timed

\* A step that ends no action leaves outcomes and alert alone.
LEMMA AlertLeft ==
  ASSUME AlertInv, clock \in Nat, clock' \in Nat, clock' >= clock, log' = log,
         engine'.outcomes = engine.outcomes, engine'.alert = engine.alert
  PROVE  AlertInv'
<1>1. \A i \in DOMAIN log : log[i].at <= clock'
  <2>1. ASSUME NEW i \in DOMAIN log PROVE log[i].at <= clock'
    <3>1. log[i] \in Outcome /\ log[i].at <= clock
      BY DEF AlertInv
    <3>2. log[i].at \in Nat
      BY <3>1 DEF Outcome
    <3>3. QED
      BY <3>1, <3>2
  <2>2. QED
    BY <2>1
<1>2. Timed(log)' /\ log' \in Seq(Outcome)
  BY DEF AlertInv, Timed
<1>5. \E k \in 0..Len(log') : Recent(engine'.outcomes, log', k)
  BY DEF AlertInv
<1>3. log' # <<>> => (engine'.alert <=> Called(engine'.outcomes))
  BY DEF AlertInv
<1>4. QED
  BY <1>1, <1>2, <1>3, <1>5 DEF AlertInv, Timed, Recent, Called, Failures

\* The window and the alert follow every step.
LEMMA AlertNext == DispatchInv /\ DispatchInv' /\ AlertInv /\ [Next]_vars => AlertInv'
<1> SUFFICES ASSUME DispatchInv, DispatchInv', AlertInv, [Next]_vars PROVE AlertInv'
  OBVIOUS
<1>0. clock \in Nat /\ clock' \in Nat /\ Engine(engine)
  BY DEF DispatchInv, EngineInv
<1>1. ASSUME NEW kind \in Kinds, OnEvent(kind) PROVE AlertInv'
  <2>1. PICK e : Mute(engine, e) /\ engine' = [e EXCEPT !.begun = {}] /\ log' = log /\ clock' = clock
    BY <1>1, OnEventMute
  <2>2. engine'.outcomes = engine.outcomes /\ engine'.alert = engine.alert
    BY <2>1 DEF Mute, Engine, Fields
  <2>3. QED
    BY <1>0, <2>1, <2>2, AlertLeft
<1>2. ASSUME NEW task \in engine.running, NEW ok \in BOOLEAN, ExecuteTask(task, ok) PROVE AlertInv'
  <2> DEFINE new == [at |-> clock, ok |-> ok]
             told == EvaluateFailureRate(RecordOutcome(engine, ok))
             left == [told EXCEPT !.running = told.running \ {task}]
             e == PumpWorkers(left)
  <2>1. /\ Engine(told) /\ told.outcomes = Shifted(Append(engine.outcomes, new))
        /\ told.alert = Called(told.outcomes)
    BY <1>0, OutcomeTold
  <2>2. engine' = [e EXCEPT !.begun = {}] /\ log' = Append(log, new) /\ clock' = clock
    BY <1>2 DEF ExecuteTask, RunWorker
  <2> HIDE DEF told
  <2>3. Mute(told, left)
    BY <2>1 DEF Engine, Fields, Mute
  <2> HIDE DEF left
  <2>4. Mute(left, e)
    BY <2>3, PumpMute DEF Mute
  <2> HIDE DEF e
  <2>5. engine'.outcomes = told.outcomes /\ engine'.alert = Called(told.outcomes)
    BY <2>1, <2>2, <2>3, <2>4 DEF Mute, Engine, Fields
  <2>6. PICK k \in 0..Len(log) : Recent(engine.outcomes, log, k)
    BY DEF AlertInv
  <2>7. /\ log \in Seq(Outcome) /\ Timed(log) /\ \A i \in DOMAIN log : log[i].at <= clock
    BY DEF AlertInv
  <2>8. /\ log' \in Seq(Outcome) /\ Timed(log') /\ \A i \in DOMAIN log' : log'[i].at <= clock
        /\ \E m \in 0..Len(log') : Recent(told.outcomes, log', m)
    BY <1>0, <2>1, <2>2, <2>6, <2>7, OutcomeRecorded
  <2>9. engine'.alert <=> Called(engine'.outcomes)
    BY <2>5
  <2>10. \E m \in 0..Len(log') : Recent(engine'.outcomes, log', m)
    BY <2>5, <2>8
  <2>11. QED
    BY <2>2, <2>8, <2>9, <2>10 DEF AlertInv, Timed, Recent, Called, Failures
<1>3. ASSUME NEW task \in engine.running, Hang(task) PROVE AlertInv'
  BY <1>0, <1>3, AlertLeft DEF Hang
<1>4. CASE Stop
  BY <1>0, <1>4, AlertLeft DEF Stop
<1>5. CASE Tick
  BY <1>0, <1>5, AlertLeft DEF Tick
<1>6. CASE UNCHANGED vars
  BY <1>0, <1>6, AlertLeft DEF vars
<1>7. QED
  BY <1>1, <1>2, <1>3, <1>4, <1>5, <1>6 DEF Next

\* After an action the failure-rate alert is the one that the outcomes of the window call
\* for, however many there were (recordOutcome, evaluateFailureRate).
THEOREM AlertSound == Spec => []AlertFollowsWindow
<1>1. AlertInv => AlertFollowsWindow
  <2> SUFFICES ASSUME AlertInv, log # <<>> PROVE AlertFollowsWindow
    BY DEF AlertFollowsWindow
  <2>1. log \in Seq(Outcome) /\ (engine.alert <=> Called(engine.outcomes))
    BY DEF AlertInv
  <2>2. PICK k \in 0..Len(log) : Recent(engine.outcomes, log, k)
    BY DEF AlertInv
  <2> DEFINE recent == {i \in DOMAIN log : log[i].at + Window >= log[Len(log)].at}
             failed == {i \in recent : ~log[i].ok}
  <2>3. Cardinality(recent) = Len(engine.outcomes) /\ Cardinality(failed) = Failures(engine.outcomes)
    BY <2>1, <2>2, RecentCounted
  <2>4. AlertFollowsWindow <=>
          (engine.alert <=> /\ Cardinality(recent) >= MinSamples
                            /\ Cardinality(failed) * 100 >= ThresholdPct * Cardinality(recent))
    BY DEF AlertFollowsWindow
  <2> HIDE DEF recent, failed
  <2>5. QED
    BY <2>1, <2>3, <2>4 DEF Called
<1>2. QED
  BY <1>1, AlertInit, AlertNext, DispatchInvariant, PTL DEF Spec

=============================================================================
