--------------------------- MODULE ToolGuard_proofs ---------------------------
(***************************************************************************)
(* What the tool guard guarantees for any rules, configurations, calls and  *)
(* interleavings of their handlers.  Typed says what the variables hold;    *)
(* PairInv relates the calls to the tables that pair their hooks; WalkInv   *)
(* says which rules an evaluation has dealt with; MemoryInv relates what    *)
(* the guard remembers to the decisions recorded so far.                    *)
(***************************************************************************)
EXTENDS ToolGuard, WellFoundedInduction, TLAPS

Stages == {"asking", "decided", "told", "done"}
Decisions == {"none", "allow", "patch", "block"}
Sources ==
  {"off", "unmatched", "missing", "stop", "rule", "action", "failure", "backoff", "cache"}

Calls ==
  [scope : Scopes, matches : SUBSET Nat, id : Ids \cup {NoId}, ctx : Ctxs \cup {NoCtx},
   began : Nat, stage : Stages, at : Nat, decision : Decisions, src : Sources, from : Nat,
   triggered : SUBSET Nat, cooling : SUBSET Nat, failed : BOOLEAN, known : Seq(Nat),
   started : BOOLEAN, threw : BOOLEAN, carried : Nat]

Memory(ids) ==
  [last : [ids -> Nat], blocked : [Scopes -> [at : Nat, by : Nat]],
   cache : [Scopes -> [until : Nat, by : Nat]]]

Typed ==
  /\ config \in Configs /\ on \in BOOLEAN
  /\ guard \in Memory(RuleIds)
  /\ calls \in Seq(Calls) /\ recorded \in Seq(Nat)
  /\ byId \in [Ids -> Nat] /\ byCtx \in [Ctxs -> Nat]
  /\ clock \in Nat \ {0}

-----------------------------------------------------------------------------
(* Numbers and sequences *)

\* A set of numbers that is not empty has a least one.
LEMMA LeastNumber ==
  ASSUME NEW S, S \subseteq Nat, S # {}
  PROVE  Min(S) \in S /\ \A x \in S : Min(S) <= x
<1> DEFINE R == OpToRel(<, Nat)
<1>1. IsWellFoundedOn(R, Nat)
  BY NatLessThanWellFounded, Zenon
<1>2. \A x, y \in Nat : y < x => <<y, x>> \in R
  BY DEF OpToRel
<1>3. \E x \in S : \A y \in S : ~(<<y, x>> \in R)
  <2> HIDE DEF R
  <2> QED
    BY <1>1, WFMin
<1>4. \E x \in S : \A y \in S : x <= y
  <2>1. PICK x \in S : \A y \in S : ~(y < x)
    BY <1>2, <1>3
  <2>2. \A y \in S : x <= y
    BY <2>1
  <2>3. QED BY <2>2
<1>5. QED
  BY <1>4 DEF Min

\* A sequence with one element more.
LEMMA SeqGrows ==
  ASSUME NEW S, NEW s \in Seq(S), NEW e \in S
  PROVE  /\ Append(s, e) \in Seq(S) /\ Len(Append(s, e)) = Len(s) + 1
         /\ DOMAIN s = 1..Len(s) /\ Len(s) \in Nat /\ DOMAIN Append(s, e) = 1..(Len(s) + 1)
         /\ Append(s, e)[Len(s) + 1] = e
         /\ \A k \in DOMAIN s : Append(s, e)[k] = s[k] /\ s[k] \in S /\ k \in DOMAIN Append(s, e)
OBVIOUS

\* A sequence with one element replaced.
LEMMA SeqChanges ==
  ASSUME NEW S, NEW s \in Seq(S), NEW e \in S, NEW k \in DOMAIN s
  PROVE  /\ [s EXCEPT ![k] = e] \in Seq(S) /\ DOMAIN [s EXCEPT ![k] = e] = DOMAIN s
         /\ Len([s EXCEPT ![k] = e]) = Len(s) /\ [s EXCEPT ![k] = e][k] = e
         /\ \A j \in DOMAIN s : j # k => [s EXCEPT ![k] = e][j] = s[j]
OBVIOUS

\* What the constants say of the configuration in use.
LEMMA ConfigFacts ==
  ASSUME config \in Configs
  PROVE  /\ config.rules \in Seq(Rules) /\ Len(config.rules) \in Nat
         /\ config.backoff \in Nat /\ config.ttl \in Nat
         /\ DOMAIN config.rules \subseteq Nat
         /\ \A c \in config.calls : ACall(c) /\ c.matches \subseteq DOMAIN config.rules
BY ToolGuardConstants DEF AConfig

-----------------------------------------------------------------------------
(* The walk over the rules *)

Met(g, c, from) == UpTo(Fires(g, c, from), Halting(g, c, from))
Cool(g, c, from) == UpTo(Matching(c, from), Halting(g, c, from)) \ Met(g, c, from)

\* The call's record when the walk has gone over the rules it met.
Walked(c, met, cool) == [c EXCEPT !.triggered = @ \cup met, !.cooling = @ \cup cool]

\* Walk, with its parts named.
LEMMA WalkParts ==
  ASSUME NEW g, NEW n, NEW c, NEW from
  PROVE  Walk(g, n, c, from) =
           IF Halting(g, c, from) = {}
           THEN Outcome(Trigger(g, Met(g, c, from)), Walked(c, Met(g, c, from), Cool(g, c, from)),
                        "none", "unmatched")
           ELSE Halted(Trigger(g, Met(g, c, from)), n, Walked(c, Met(g, c, from), Cool(g, c, from)),
                       Min(Halting(g, c, from)))
BY DEF Walk, Met, Cool, Walked

\* Where the walk halts, and that it has dealt with every matching rule before.
LEMMA WalkCovers ==
  ASSUME config \in Configs, NEW g, NEW c, NEW from \in Nat,
         NEW halt, halt = Halting(g, c, from)
  PROVE  /\ Matching(c, from) \subseteq Nat /\ \A k \in Matching(c, from) : k >= from
         /\ Met(g, c, from) \subseteq Fires(g, c, from)
         /\ Fires(g, c, from) \subseteq Matching(c, from)
         /\ Cool(g, c, from) \subseteq Matching(c, from) \ Fires(g, c, from)
         /\ halt = {} => Matching(c, from) = Met(g, c, from) \cup Cool(g, c, from)
         /\ halt # {} =>
              /\ Min(halt) \in Met(g, c, from) /\ Halts(Min(halt)) /\ Min(halt) \in Nat
              /\ \A k \in Met(g, c, from) \cup Cool(g, c, from) : k <= Min(halt)
              /\ \A k \in Matching(c, from) :
                   k <= Min(halt) => k \in Met(g, c, from) \cup Cool(g, c, from)
<1>1. Len(config.rules) \in Nat
  BY ConfigFacts
<1>2. Matching(c, from) \subseteq Nat /\ \A k \in Matching(c, from) : k >= from
  BY <1>1 DEF Matching
<1>3. Fires(g, c, from) \subseteq Matching(c, from)
  BY DEF Fires
<1>4. halt \subseteq Fires(g, c, from) /\ \A k \in halt : Halts(k)
  BY DEF Halting
<1>5. Met(g, c, from) \subseteq Fires(g, c, from)
  BY DEF Met, UpTo
<1>6. Cool(g, c, from) \subseteq Matching(c, from) \ Fires(g, c, from)
  BY <1>3 DEF Cool, UpTo, Met
<1>7. halt = {} => Matching(c, from) = Met(g, c, from) \cup Cool(g, c, from)
  BY <1>3 DEF Cool, UpTo, Met
<1>8. ASSUME halt # {}
      PROVE  /\ Min(halt) \in halt /\ Min(halt) \in Nat
             /\ Min(halt) \in Met(g, c, from)
             /\ \A k \in Met(g, c, from) \cup Cool(g, c, from) : k <= Min(halt)
             /\ \A k \in Matching(c, from) :
                   k <= Min(halt) => k \in Met(g, c, from) \cup Cool(g, c, from)
  <2>1. Min(halt) \in halt
    BY <1>2, <1>3, <1>4, <1>8, LeastNumber
  <2>2. Min(halt) \in Nat
    BY <1>2, <1>3, <1>4, <2>1
  <2>3. /\ Met(g, c, from) = {i \in Fires(g, c, from) : i <= Min(halt)}
        /\ Cool(g, c, from) = {i \in Matching(c, from) : i <= Min(halt)} \ Met(g, c, from)
    BY <1>8 DEF Met, Cool, UpTo
  <2>4. Min(halt) \in Met(g, c, from)
    BY <1>4, <2>1, <2>2, <2>3
  <2>5. QED BY <2>1, <2>2, <2>3, <2>4
<1>9. QED
  BY <1>2, <1>3, <1>4, <1>5, <1>6, <1>7, <1>8

-----------------------------------------------------------------------------
(* The records of a call and of an evaluation's step *)

\* What an evaluation leaves alone in the record of its call.
Keeps(c, e) ==
  /\ e.scope = c.scope /\ e.matches = c.matches /\ e.id = c.id /\ e.ctx = c.ctx
  /\ e.began = c.began /\ e.known = c.known /\ e.failed = c.failed
  /\ e.started = c.started /\ e.threw = c.threw /\ e.carried = c.carried

\* A step of an evaluation of call record c.
Step(step, c) ==
  /\ step.guard \in Memory(RuleIds) /\ step.call \in Calls /\ step.records \in BOOLEAN
  /\ Keeps(c, step.call) /\ step.call.stage \in {"asking", "decided"}

\* What Outcome and Recording make of memory g and call record c.
Ended(step, c, d, src) ==
  /\ Step(step, c) /\ step.call.stage = "decided" /\ step.call.decision = d /\ step.call.src = src
  /\ step.call.triggered = c.triggered /\ step.call.cooling = c.cooling

OutcomeIs(step, g, c, d, src) == Ended(step, c, d, src) /\ step.guard = g /\ ~step.records

RecordingIs(step, g, n, c, d, src) ==
  /\ Ended(step, c, d, src) /\ step.guard = Remember(g, n, c, d) /\ step.guard.last = g.last
  /\ step.records /\ step.call.from = n

Walks(e, c, met, cool) ==
  /\ e \in Calls /\ Keeps(c, e) /\ e.stage = c.stage /\ e.decision = c.decision
  /\ e.src = c.src /\ e.from = c.from
  /\ e.triggered = c.triggered \cup met /\ e.cooling = c.cooling \cup cool

Asking(e, c, i) ==
  /\ e \in Calls /\ Keeps(c, e) /\ e.stage = "asking" /\ e.at = i
  /\ e.decision = c.decision /\ e.src = c.src /\ e.from = c.from
  /\ e.triggered = c.triggered /\ e.cooling = c.cooling

\* A decision changes what it decides, and nothing else.
LEMMA DecidedRecord ==
  ASSUME NEW c \in Calls, NEW d \in Decisions, NEW src \in Sources, NEW from \in Nat,
         NEW e, e = Decided(c, d, src, from)
  PROVE  /\ e \in Calls /\ Keeps(c, e)
         /\ e.stage = "decided" /\ e.decision = d /\ e.src = src /\ e.from = from
         /\ e.triggered = c.triggered /\ e.cooling = c.cooling
BY DEF Decided, Calls, Keeps, Stages

\* The walk adds rules that were met and rules that cool down.
LEMMA WalkedRecord ==
  ASSUME NEW c \in Calls, NEW met, met \subseteq Nat, NEW cool, cool \subseteq Nat,
         NEW e, e = Walked(c, met, cool)
  PROVE  Walks(e, c, met, cool)
BY DEF Walked, Calls, Keeps, Walks

\* An action is asked.
LEMMA AskingRecord ==
  ASSUME NEW c \in Calls, NEW i \in Nat,
         NEW e, e = [c EXCEPT !.stage = "asking", !.at = i]
  PROVE  Asking(e, c, i)
BY DEF Calls, Keeps, Stages, Asking

\* The new call of before_tool_call.
LEMMA NewRecord ==
  ASSUME Typed, NEW input \in config.calls, NEW c, c = NewCall(input)
  PROVE  /\ c \in Calls /\ c.stage = "decided" /\ c.id = input.id /\ c.ctx = input.ctx
         /\ c.scope = input.scope /\ c.matches \subseteq DOMAIN config.rules /\ c.began = clock /\ c.known = recorded
         /\ c.decision = "none" /\ c.src = "off" /\ c.from = NoCall /\ c.at = 0
         /\ c.triggered = {} /\ c.cooling = {} /\ ~c.failed /\ ~c.started /\ ~c.threw
         /\ c.carried = NoCall
<1>1. /\ input.scope \in Scopes /\ input.matches \subseteq Nat
      /\ input.id \in Ids \cup {NoId} /\ input.ctx \in Ctxs \cup {NoCtx}
      /\ input.matches \subseteq DOMAIN config.rules
  BY ConfigFacts DEF Typed, ACall
<1>2. clock \in Nat /\ recorded \in Seq(Nat)
  BY DEF Typed
<1>3. QED
  BY <1>1, <1>2 DEF NewCall, Calls, Stages, Decisions, Sources, NoCall

\* What the guard remembers keeps its form.
LEMMA MemoryKept ==
  ASSUME Typed, NEW g \in Memory(RuleIds)
  PROVE  /\ Tidy(g) \in Memory(RuleIds) /\ Tidy(g).last = g.last
         /\ \A met : /\ Trigger(g, met) \in Memory(RuleIds)
                     /\ Trigger(g, met).blocked = g.blocked /\ Trigger(g, met).cache = g.cache
                     /\ \A x \in RuleIds : Trigger(g, met).last[x] =
                          IF \E k \in met : Rule(k).id = x THEN clock ELSE g.last[x]
         /\ \A d : \A n \in Nat, c \in Calls :
              Remember(g, n, c, d) \in Memory(RuleIds) /\ Remember(g, n, c, d).last = g.last
<1>0. clock \in Nat /\ config.ttl \in Nat
  BY ConfigFacts DEF Typed
<1>1. Tidy(g) \in Memory(RuleIds) /\ Tidy(g).last = g.last
  <2> DEFINE fresh == [s \in Scopes |-> IF g.cache[s].until <= clock
                                        THEN [until |-> Never, by |-> NoCall] ELSE g.cache[s]]
             held == [s \in Scopes |->
                        IF config.backoff = 0 \/ clock - g.blocked[s].at >= config.backoff
                        THEN [at |-> Never, by |-> NoCall] ELSE g.blocked[s]]
  <2>1. fresh \in [Scopes -> [until : Nat, by : Nat]] /\ held \in [Scopes -> [at : Nat, by : Nat]]
    BY DEF Memory, Never, NoCall
  <2>2. Tidy(g) = [g EXCEPT !.cache = fresh, !.blocked = held]
    BY DEF Tidy
  <2> HIDE DEF fresh, held
  <2>3. QED BY <2>1, <2>2 DEF Memory
<1>2. ASSUME NEW met
      PROVE  /\ Trigger(g, met) \in Memory(RuleIds)
             /\ Trigger(g, met).blocked = g.blocked /\ Trigger(g, met).cache = g.cache
             /\ \A x \in RuleIds : Trigger(g, met).last[x] =
                  IF \E k \in met : Rule(k).id = x THEN clock ELSE g.last[x]
  <2> DEFINE times == [x \in RuleIds |-> IF \E k \in met : Rule(k).id = x THEN clock ELSE g.last[x]]
  <2>1. times \in [RuleIds -> Nat]
    BY <1>0 DEF Memory
  <2>2. \A x \in RuleIds : times[x] = IF \E k \in met : Rule(k).id = x THEN clock ELSE g.last[x]
    OBVIOUS
  <2>3. Trigger(g, met) = [g EXCEPT !.last = times]
    BY DEF Trigger
  <2> HIDE DEF times
  <2>4. QED BY <2>1, <2>2, <2>3 DEF Memory
<1>3. ASSUME NEW n \in Nat, NEW c \in Calls, NEW d
      PROVE  Remember(g, n, c, d) \in Memory(RuleIds) /\ Remember(g, n, c, d).last = g.last
  <2>1. c.began \in Nat /\ c.scope \in Scopes
    BY DEF Calls
  <2>2. [at |-> c.began, by |-> n] \in [at : Nat, by : Nat]
        /\ [until |-> c.began + config.ttl, by |-> n] \in [until : Nat, by : Nat]
    BY <1>0, <2>1
  <2>3. QED BY <2>1, <2>2 DEF Remember, Memory
<1>4. QED BY <1>1, <1>2, <1>3

-----------------------------------------------------------------------------
(* What a step of an evaluation does *)

\* The rules it fires are those that set the time of their id, and what it finds cooling
\* down was fired before, by its id.
Fired(step, g, c) ==
  LET e == step.call IN
  /\ c.triggered \subseteq e.triggered
  /\ \A i \in e.cooling \ c.cooling :
       /\ i \notin c.triggered /\ Rule(i).id \in RuleIds
       /\ \/ g.last[Rule(i).id] # Never
          \/ \E k \in e.triggered : Rule(k).id = Rule(i).id /\ k # i
  /\ \A x \in RuleIds : step.guard.last[x] # Never =>
       g.last[x] # Never \/ \E k \in e.triggered : Rule(k).id = x

\* A walk that waits has dealt with every rule so far; one that ended without a block
\* has a reason.
Passed(c) ==
  \/ c.src \in {"off", "cache", "rule", "action"}
  \/ /\ config.onError = "block" => ~c.failed
     /\ \A i \in Matching(c, 1) :
          \/ i \in c.triggered \cup c.cooling
          \/ c.src = "stop" /\ \E j \in c.triggered : j < i /\ Rule(j).stop

\* Every matching rule before position to was met, and none from there on.
Dealt(c, to) ==
  /\ \A i \in Matching(c, 1) : i < to => i \in c.triggered \cup c.cooling
  /\ \A k \in c.triggered \cup c.cooling : k < to

Verdict(c) ==
  /\ c.stage = "asking" => /\ c.at \in c.triggered /\ Dealt(c, c.at + 1)
                           /\ config.onError = "block" => ~c.failed
  /\ c.stage # "asking" /\ c.decision # "block" => c.threw \/ Passed(c)

\* What it makes the guard remember.
Recalls(step, g, n, c) ==
  LET e == step.call IN
  /\ step.records =>
       /\ e.stage = "decided" /\ e.decision # "none" /\ e.src \in {"rule", "action", "failure"}
       /\ step.guard.blocked = IF e.decision = "block"
                               THEN [g.blocked EXCEPT ![c.scope] = [at |-> c.began, by |-> n]]
                               ELSE g.blocked
       /\ step.guard.cache = IF e.decision = "block" \/ config.ttl = 0 THEN g.cache
                             ELSE [g.cache EXCEPT ![c.scope] = [until |-> c.began + config.ttl, by |-> n]]
  /\ ~step.records =>
       /\ step.guard.blocked = g.blocked /\ step.guard.cache = g.cache
       /\ e.stage = "decided" => e.src \in {"unmatched", "missing", "stop"}
       /\ e.stage = "asking" => e.src = c.src

Evaluates(step, g, n, c) ==
  Step(step, c) /\ Fired(step, g, c) /\ Verdict(step.call) /\ Recalls(step, g, n, c)

\* Outcome, as a step.
LEMMA OutcomeStep ==
  ASSUME NEW g \in Memory(RuleIds), NEW c \in Calls, NEW d \in Decisions, NEW src \in Sources,
         NEW step, step = Outcome(g, c, d, src)
  PROVE  OutcomeIs(step, g, c, d, src)
<1>1. step.guard = g /\ step.call = Decided(c, d, src, NoCall) /\ step.records = FALSE
  BY DEF Outcome
<1> DEFINE e == Decided(c, d, src, NoCall)
<1>2. NoCall \in Nat
  BY DEF NoCall
<1>3. /\ e \in Calls /\ Keeps(c, e)
      /\ e.stage = "decided" /\ e.decision = d /\ e.src = src
      /\ e.triggered = c.triggered /\ e.cooling = c.cooling
  BY <1>2, DecidedRecord
<1>4. step.call = e
  BY <1>1
<1> HIDE DEF e
<1>5. step.guard \in Memory(RuleIds) /\ step.records \in BOOLEAN
  BY <1>1
<1>6. Step(step, c)
  BY <1>3, <1>4, <1>5 DEF Step
<1>7. Ended(step, c, d, src)
  BY <1>3, <1>4, <1>6 DEF Ended
<1>8. QED
  BY <1>1, <1>7 DEF OutcomeIs

\* Recording, as a step.
LEMMA RecordingStep ==
  ASSUME Typed, NEW g \in Memory(RuleIds), NEW n \in Nat, NEW c \in Calls,
         NEW d \in {"allow", "patch", "block"}, NEW src \in {"rule", "action", "failure"},
         NEW step, step = Recording(g, n, c, d, src)
  PROVE  RecordingIs(step, g, n, c, d, src)
<1>1. step.guard = Remember(g, n, c, d) /\ step.call = Decided(c, d, src, n) /\ step.records = TRUE
  BY DEF Recording
<1>2. d \in Decisions /\ src \in Sources
  BY DEF Decisions, Sources
<1>3. Remember(g, n, c, d) \in Memory(RuleIds) /\ Remember(g, n, c, d).last = g.last
  BY MemoryKept
<1> DEFINE e == Decided(c, d, src, n)
<1>4. /\ e \in Calls /\ Keeps(c, e)
      /\ e.stage = "decided" /\ e.decision = d /\ e.src = src /\ e.from = n
      /\ e.triggered = c.triggered /\ e.cooling = c.cooling
  BY <1>2, DecidedRecord
<1>5. step.call = e
  BY <1>1
<1> HIDE DEF e
<1>6. step.guard \in Memory(RuleIds) /\ step.records \in BOOLEAN
  BY <1>1, <1>3
<1>7. Step(step, c)
  BY <1>4, <1>5, <1>6 DEF Step
<1>8. Ended(step, c, d, src)
  BY <1>4, <1>5, <1>7 DEF Ended
<1>9. QED
  BY <1>1, <1>3, <1>4, <1>5, <1>8 DEF RecordingIs

\* A recorded decision is what the guard remembers.
LEMMA RecordingRecalls ==
  ASSUME Typed, NEW g \in Memory(RuleIds), NEW h \in Memory(RuleIds),
         h.blocked = g.blocked, h.cache = g.cache,
         NEW n \in Nat, NEW c \in Calls, NEW b \in Calls, Keeps(b, c),
         NEW d \in {"allow", "patch", "block"}, NEW src \in {"rule", "action", "failure"},
         NEW step, step = Recording(h, n, c, d, src)
  PROVE  Recalls(step, g, n, b)
<1>1. /\ step.guard = Remember(h, n, c, d) /\ step.records = TRUE
      /\ step.call.stage = "decided" /\ step.call.decision = d /\ step.call.src = src
  BY DEF Recording, Decided, Calls
<1>2. c.scope = b.scope /\ c.began = b.began
  BY DEF Keeps
<1>3. /\ step.guard.blocked = IF d = "block"
                              THEN [g.blocked EXCEPT ![b.scope] = [at |-> b.began, by |-> n]]
                              ELSE g.blocked
      /\ step.guard.cache = IF d = "block" \/ config.ttl = 0 THEN g.cache
                            ELSE [g.cache EXCEPT ![b.scope] = [until |-> b.began + config.ttl, by |-> n]]
  BY <1>1, <1>2 DEF Remember, Memory
<1>4. QED
  BY <1>1, <1>3 DEF Recalls

\* A rule that is cooling down was fired before, or another one of its id is, in this walk.
LEMMA CoolReason ==
  ASSUME config \in Configs, NEW g, NEW c, NEW from \in Nat, NEW i \in Cool(g, c, from)
  PROVE  g.last[Rule(i).id] # Never \/ \E k \in Met(g, c, from) : Rule(k).id = Rule(i).id /\ k # i
<1> DEFINE M == Matching(c, from)
           F == Fires(g, c, from)
           T == {k \in M : k < i /\ Rule(k).id = Rule(i).id /\ CanTrigger(g, k)}
           halt == Halting(g, c, from)
<1>1. /\ M \subseteq Nat /\ F \subseteq M /\ i \in M \ F
      /\ halt = {} => M = Met(g, c, from) \cup Cool(g, c, from)
      /\ halt # {} => /\ i <= Min(halt) /\ Min(halt) \in Nat
                      /\ \A k \in M : k <= Min(halt) => k \in Met(g, c, from) \cup Cool(g, c, from)
      /\ Cool(g, c, from) \cap F = {}
  BY WalkCovers
<1>2. CASE ~CanTrigger(g, i)
  BY <1>2 DEF CanTrigger
<1>3. CASE CanTrigger(g, i)
  <2>1. T # {} /\ T \subseteq Nat
    BY <1>1, <1>3 DEF Fires
  <2> HIDE DEF T
  <2>2. PICK k \in T : \A y \in T : k <= y
    BY <2>1, LeastNumber
  <2>3. k \in M /\ k < i /\ Rule(k).id = Rule(i).id /\ CanTrigger(g, k) /\ k \in Nat /\ i \in Nat
    BY <1>1, <2>2 DEF T
  <2>4. \A y \in M : y < k /\ Rule(y).id = Rule(k).id => ~CanTrigger(g, y)
    <3>1. SUFFICES ASSUME NEW y \in M, y < k, Rule(y).id = Rule(k).id, CanTrigger(g, y) PROVE FALSE
      OBVIOUS
    <3>2. y \in Nat
      BY <1>1
    <3>3. y \in T
      BY <2>3, <3>1, <3>2 DEF T
    <3>4. QED BY <2>2, <2>3, <3>1, <3>2, <3>3
  <2>5. k \in F
    BY <2>3, <2>4 DEF Fires
  <2>6. k \in Met(g, c, from)
    <3>1. CASE halt = {}
      BY <1>1, <2>3, <2>5, <3>1
    <3>2. CASE halt # {}
      <4>1. k <= Min(halt)
        BY <1>1, <2>3, <3>2
      <4>2. QED BY <1>1, <2>3, <2>5, <3>2, <4>1
    <3>3. QED BY <3>1, <3>2
  <2>7. QED BY <2>3, <2>6
<1>4. QED BY <1>2, <1>3

\* The rules of a step that goes on from what the walk made of memory and call.
LEMMA WalkFired ==
  ASSUME Typed, NEW g \in Memory(RuleIds), NEW c \in Calls, c.matches \subseteq DOMAIN config.rules,
         NEW from \in Nat, Dealt(c, from), NEW step,
         step.guard.last = Trigger(g, Met(g, c, from)).last,
         step.call.triggered = c.triggered \cup Met(g, c, from),
         step.call.cooling = c.cooling \cup Cool(g, c, from)
  PROVE  Fired(step, g, c)
<1>0. config \in Configs
  BY DEF Typed
<1>1. \A x \in RuleIds : step.guard.last[x] # Never =>
        g.last[x] # Never \/ \E k \in step.call.triggered : Rule(k).id = x
  BY MemoryKept
<1>2. ASSUME NEW i \in step.call.cooling \ c.cooling
      PROVE  /\ i \notin c.triggered /\ Rule(i).id \in RuleIds
             /\ g.last[Rule(i).id] # Never \/ \E k \in step.call.triggered : Rule(k).id = Rule(i).id /\ k # i
  <2>1. i \in Cool(g, c, from)
    BY <1>2
  <2>2. i \in Matching(c, from) /\ i >= from /\ i \in Nat
    BY <1>0, <2>1, WalkCovers
  <2>3. Order[i] \in DOMAIN config.rules
    BY <2>2 DEF Matching
  <2>4. Rule(i).id \in RuleIds
    BY <2>3 DEF Rule, RuleIds
  <2>5. i \notin c.triggered
    BY <2>2 DEF Dealt, Calls
  <2>6. g.last[Rule(i).id] # Never \/ \E k \in step.call.triggered : Rule(k).id = Rule(i).id /\ k # i
    BY <1>0, <2>1, CoolReason
  <2>7. QED BY <2>4, <2>5, <2>6
<1>3. QED
  BY <1>1, <1>2 DEF Fired

\* What the walk leaves for the rest of it.
LEMMA WalkDealt ==
  ASSUME Typed, NEW g, NEW c \in Calls, NEW from \in Nat, Dealt(c, from),
         NEW halt, halt = Halting(g, c, from),
         NEW e, e.matches = c.matches, e.triggered = c.triggered \cup Met(g, c, from),
         e.cooling = c.cooling \cup Cool(g, c, from)
  PROVE  /\ halt = {} => \A i \in Matching(e, 1) : i \in e.triggered \cup e.cooling
         /\ halt # {} => Min(halt) \in e.triggered /\ Dealt(e, Min(halt) + 1)
<1>0. config \in Configs /\ Len(config.rules) \in Nat
  BY ConfigFacts DEF Typed
<1>1. \A i \in Matching(e, 1) : i \in Nat /\ i \in Matching(c, 1) /\ (i >= from => i \in Matching(c, from))
  BY <1>0 DEF Matching
<1>2. ASSUME NEW i \in Matching(e, 1), i \notin Matching(c, from)
      PROVE  i \in e.triggered \cup e.cooling
  BY <1>1, <1>2 DEF Dealt
<1>3. ASSUME halt = {}
      PROVE  \A i \in Matching(e, 1) : i \in e.triggered \cup e.cooling
  <2>1. Matching(c, from) = Met(g, c, from) \cup Cool(g, c, from)
    BY <1>0, <1>3, WalkCovers
  <2>2. QED BY <1>2, <2>1
<1>4. ASSUME halt # {}
      PROVE  Min(halt) \in e.triggered /\ Dealt(e, Min(halt) + 1)
  <2>1. /\ Min(halt) \in Met(g, c, from) /\ Min(halt) \in Nat /\ Min(halt) >= from
        /\ \A k \in Met(g, c, from) \cup Cool(g, c, from) : k <= Min(halt)
        /\ Met(g, c, from) \cup Cool(g, c, from) \subseteq Nat
        /\ \A k \in Matching(c, from) :
             k <= Min(halt) => k \in Met(g, c, from) \cup Cool(g, c, from)
    BY <1>0, <1>4, WalkCovers
  <2>2. ASSUME NEW i \in Matching(e, 1), i < Min(halt) + 1
        PROVE  i \in e.triggered \cup e.cooling
    <3>1. i <= Min(halt)
      BY <1>1, <2>1, <2>2
    <3>2. QED BY <1>2, <2>1, <3>1
  <2>3. ASSUME NEW k \in e.triggered \cup e.cooling
        PROVE  k < Min(halt) + 1
    <3>1. CASE k \in c.triggered \cup c.cooling
      <4>1. k \in Nat /\ k < from
        BY <3>1 DEF Dealt, Calls
      <4>2. QED BY <2>1, <4>1
    <3>2. CASE k \in Met(g, c, from) \cup Cool(g, c, from)
      BY <2>1, <3>2
    <3>3. QED BY <2>3, <3>1, <3>2
  <2>4. QED BY <2>1, <2>2, <2>3 DEF Dealt
<1>5. QED
  BY <1>3, <1>4

\* The walk is a step of the evaluation.
LEMMA WalkStep ==
  ASSUME Typed, NEW g \in Memory(RuleIds), NEW n \in Nat, NEW c \in Calls,
         c.matches \subseteq DOMAIN config.rules, NEW from \in Nat, Dealt(c, from),
         config.onError = "block" => ~c.failed, NEW step, step = Walk(g, n, c, from)
  PROVE  Evaluates(step, g, n, c)
<1> DEFINE met == Met(g, c, from)
           cool == Cool(g, c, from)
           halt == Halting(g, c, from)
           h == Trigger(g, met)
           d == Walked(c, met, cool)
           i == Min(halt)
<1>0. config \in Configs
  BY DEF Typed
<1>1. met \subseteq Nat /\ cool \subseteq Nat
  BY <1>0, WalkCovers
<1>2. h \in Memory(RuleIds) /\ h.blocked = g.blocked /\ h.cache = g.cache
  BY MemoryKept
<1>3. /\ d \in Calls /\ Keeps(c, d) /\ d.stage = c.stage /\ d.decision = c.decision
      /\ d.src = c.src /\ d.from = c.from
      /\ d.triggered = c.triggered \cup met /\ d.cooling = c.cooling \cup cool
  <2>1. d = Walked(c, met, cool)
    OBVIOUS
  <2> HIDE DEF met, cool, d
  <2>2. Walks(d, c, met, cool)
    BY <1>1, <2>1, WalkedRecord
  <2>3. QED BY <2>2 DEF Walks
<1>4. step = IF halt = {} THEN Outcome(h, d, "none", "unmatched") ELSE Halted(h, n, d, i)
  BY WalkParts
<1>5. /\ halt = {} => \A k \in Matching(d, 1) : k \in d.triggered \cup d.cooling
      /\ halt # {} => i \in d.triggered /\ Dealt(d, i + 1)
  BY <1>3, WalkDealt DEF Keeps
<1>6. halt # {} => Halts(i) /\ i \in Nat
  BY <1>0, WalkCovers
\* A step whose call has the rules of d.
<1>7. ASSUME step.guard.last = h.last, step.call.triggered = d.triggered, step.call.cooling = d.cooling
      PROVE  Fired(step, g, c)
  BY <1>3, <1>7, WalkFired
<1>8. \A e : Keeps(d, e) => Keeps(c, e) /\ e.matches = d.matches /\ e.failed = c.failed
  BY <1>3 DEF Keeps
<1>9. \A e : e.matches = d.matches => Matching(e, 1) = Matching(d, 1)
  BY DEF Matching
<1> HIDE DEF met, cool, halt, h, d, i
<1>b. /\ "none" \in Decisions /\ "block" \in Decisions
      /\ "unmatched" \in Sources /\ "missing" \in Sources /\ "stop" \in Sources
  BY DEF Decisions, Sources
<1>10. CASE halt = {}
  <2>1. step = Outcome(h, d, "none", "unmatched")
    BY <1>4, <1>10
  <2>0. OutcomeIs(step, h, d, "none", "unmatched")
    BY <1>2, <1>3, <1>b, <2>1, OutcomeStep
  <2>2. /\ Step(step, d) /\ step.guard = h /\ ~step.records
        /\ step.call.triggered = d.triggered /\ step.call.cooling = d.cooling
        /\ step.call.stage = "decided" /\ step.call.decision = "none" /\ step.call.src = "unmatched"
    BY <2>0 DEF OutcomeIs, Ended
  <2>3. Step(step, c) /\ step.call.matches = d.matches /\ step.call.failed = c.failed
    BY <1>8, <2>2 DEF Step
  <2>4. Fired(step, g, c)
    BY <1>7, <2>2
  <2>5. Passed(step.call)
    BY <1>5, <1>9, <1>10, <2>2, <2>3 DEF Passed
  <2>6. Recalls(step, g, n, c)
    BY <1>2, <2>2 DEF Recalls
  <2>7. QED BY <2>2, <2>3, <2>4, <2>5, <2>6 DEF Evaluates, Verdict
<1>11. CASE halt # {} /\ Rule(i).kind = "action"
  <2> DEFINE e == [d EXCEPT !.stage = "asking", !.at = i]
  <2>1. step.guard = h /\ step.call = e /\ step.records = FALSE
    BY <1>4, <1>11 DEF Halted
  <2>0. Asking(e, d, i)
    BY <1>3, <1>6, <1>11, AskingRecord
  <2>2. /\ e \in Calls /\ Keeps(d, e) /\ e.stage = "asking" /\ e.at = i
        /\ e.triggered = d.triggered /\ e.cooling = d.cooling /\ e.src = c.src
    BY <1>3, <2>0 DEF Asking
  <2> HIDE DEF e
  <2>3. Step(step, c) /\ e.matches = d.matches /\ e.failed = c.failed
    BY <1>2, <1>8, <2>1, <2>2 DEF Step
  <2>4. Fired(step, g, c)
    BY <1>7, <2>1, <2>2
  <2>5. Dealt(e, i + 1)
    BY <1>5, <1>9, <1>11, <2>2, <2>3 DEF Dealt
  <2>6. Verdict(e)
    BY <1>5, <1>11, <2>2, <2>3, <2>5 DEF Verdict
  <2>7. Recalls(step, g, n, c)
    BY <1>2, <2>1, <2>2 DEF Recalls
  <2>8. QED BY <2>1, <2>3, <2>4, <2>6, <2>7 DEF Evaluates
<1>12. CASE halt # {} /\ Rule(i).kind = "missing"
  <2>1. step = Outcome(h, d, "block", "missing")
    BY <1>4, <1>12 DEF Halted
  <2>0. OutcomeIs(step, h, d, "block", "missing")
    BY <1>2, <1>3, <1>b, <2>1, OutcomeStep
  <2>2. /\ Step(step, d) /\ step.guard = h /\ ~step.records
        /\ step.call.triggered = d.triggered /\ step.call.cooling = d.cooling
        /\ step.call.stage = "decided" /\ step.call.decision = "block" /\ step.call.src = "missing"
    BY <2>0 DEF OutcomeIs, Ended
  <2>3. Step(step, c)
    BY <1>8, <2>2 DEF Step
  <2>4. Fired(step, g, c)
    BY <1>7, <2>2
  <2>5. Recalls(step, g, n, c)
    BY <1>2, <2>2 DEF Recalls
  <2>6. QED BY <2>2, <2>3, <2>4, <2>5 DEF Evaluates, Verdict
<1>13. CASE halt # {} /\ Rule(i).kind \notin {"action", "missing"} /\ config.dryRun
  <2>1. step = Outcome(h, d, "none", "stop")
    BY <1>4, <1>13 DEF Halted
  <2>0. OutcomeIs(step, h, d, "none", "stop")
    BY <1>2, <1>3, <1>b, <2>1, OutcomeStep
  <2>2. /\ Step(step, d) /\ step.guard = h /\ ~step.records
        /\ step.call.triggered = d.triggered /\ step.call.cooling = d.cooling
        /\ step.call.stage = "decided" /\ step.call.decision = "none" /\ step.call.src = "stop"
    BY <2>0 DEF OutcomeIs, Ended
  <2>3. Step(step, c) /\ step.call.matches = d.matches /\ step.call.failed = c.failed
    BY <1>8, <2>2 DEF Step
  <2>4. Fired(step, g, c)
    BY <1>7, <2>2
  <2>5. Rule(i).stop
    BY <1>6, <1>13 DEF Halts
  <2>6. \A k \in Matching(d, 1) : k \in Nat
    BY <1>0, ConfigFacts DEF Matching
  <2>7. \A k \in Matching(d, 1) : k < i + 1 \/ i < k
    BY <1>6, <1>13, <2>6
  <2>8. Passed(step.call)
    BY <1>5, <1>9, <1>13, <2>2, <2>3, <2>5, <2>7 DEF Passed, Dealt
  <2>9. Recalls(step, g, n, c)
    BY <1>2, <2>2 DEF Recalls
  <2>10. QED BY <2>2, <2>3, <2>4, <2>8, <2>9 DEF Evaluates, Verdict
<1>14. CASE halt # {} /\ Rule(i).kind \notin {"action", "missing"} /\ ~config.dryRun
  <2>1. step = Recording(h, n, d, Rule(i).kind, "rule")
    BY <1>4, <1>14 DEF Halted
  <2>2. Rule(i).kind \in {"allow", "patch", "block"}
    <3>1. i \in Matching(c, from)
      BY <1>0, <1>14, WalkCovers DEF halt, i
    <3>2. Order[i] \in DOMAIN config.rules
      BY <3>1 DEF Matching
    <3>3. Rule(i) \in Rules
      BY <1>0, <3>2, ConfigFacts DEF Rule
    <3>4. QED BY <1>14, <3>3 DEF Rules
  <2>0. RecordingIs(step, h, n, d, Rule(i).kind, "rule")
    BY <1>2, <1>3, <2>1, <2>2, RecordingStep
  <2>3. /\ Step(step, d) /\ step.records /\ step.guard.last = h.last
        /\ step.call.triggered = d.triggered /\ step.call.cooling = d.cooling
        /\ step.call.stage = "decided" /\ step.call.src = "rule"
    BY <2>0 DEF RecordingIs, Ended
  <2>4. Step(step, c)
    BY <1>8, <2>3 DEF Step
  <2>5. Fired(step, g, c)
    BY <1>7, <2>3
  <2>6. Recalls(step, g, n, c)
    BY <1>2, <1>3, <2>1, <2>2, RecordingRecalls
  <2>7. Verdict(step.call)
    BY <2>3 DEF Verdict, Passed
  <2>8. QED BY <2>4, <2>5, <2>6, <2>7 DEF Evaluates
<1>15. QED
  BY <1>10, <1>11, <1>12, <1>13, <1>14

\* Going on after an awaited action is one.
LEMMA AnsweredStep ==
  ASSUME Typed, NEW g \in Memory(RuleIds), NEW n \in Nat, NEW c \in Calls,
         c.matches \subseteq DOMAIN config.rules, c.at \in c.triggered, Dealt(c, c.at + 1),
         NEW answer, config.onError = "block" => ~c.failed \/ answer = "error",
         NEW step, step = Answered(g, n, c, answer)
  PROVE  Evaluates(step, g, n, c)
<1>0. Keeps(c, c) /\ c.at \in Nat /\ config \in Configs
  BY DEF Keeps, Calls, Typed
<1>b. "none" \in Decisions /\ "stop" \in Sources
  BY DEF Decisions, Sources
<1>1. ASSUME NEW d \in {"allow", "patch", "block"}, NEW src \in {"rule", "action", "failure"},
             src = "failure" => d = "block", step = Recording(g, n, c, d, src)
      PROVE  Evaluates(step, g, n, c)
  <2>0. RecordingIs(step, g, n, c, d, src)
    BY <1>1, RecordingStep
  <2>1. /\ Step(step, c) /\ step.records /\ step.guard.last = g.last
        /\ step.call.triggered = c.triggered /\ step.call.cooling = c.cooling
        /\ step.call.stage = "decided" /\ step.call.decision = d /\ step.call.src = src
    BY <2>0 DEF RecordingIs, Ended
  <2>2. Fired(step, g, c)
    BY <2>1 DEF Fired
  <2>3. Recalls(step, g, n, c)
    BY <1>0, <1>1, RecordingRecalls
  <2>4. Verdict(step.call)
    BY <1>1, <2>1 DEF Verdict, Passed
  <2>5. QED BY <2>1, <2>2, <2>3, <2>4 DEF Evaluates
<1>2. CASE answer \in {"allow", "patch", "block"} /\ ~config.dryRun
  <2>1. step = Recording(g, n, c, answer, "action")
    BY <1>2 DEF Answered
  <2>2. QED BY <1>1, <1>2, <2>1
<1>3. CASE ~(answer \in {"allow", "patch", "block"} /\ ~config.dryRun)
           /\ answer = "error" /\ config.onError = "block"
  <2>1. step = Recording(g, n, c, "block", "failure")
    BY <1>3 DEF Answered
  <2>2. QED BY <1>1, <2>1
<1>4. CASE ~(answer \in {"allow", "patch", "block"} /\ ~config.dryRun)
           /\ ~(answer = "error" /\ config.onError = "block") /\ Rule(c.at).stop
  <2>1. step = Outcome(g, c, "none", "stop")
    BY <1>4 DEF Answered
  <2>0. OutcomeIs(step, g, c, "none", "stop")
    BY <1>b, <2>1, OutcomeStep
  <2>2. /\ Step(step, c) /\ step.guard = g /\ ~step.records
        /\ step.call.triggered = c.triggered /\ step.call.cooling = c.cooling
        /\ step.call.stage = "decided" /\ step.call.decision = "none" /\ step.call.src = "stop"
    BY <2>0 DEF OutcomeIs, Ended
  <2>3. step.call.matches = c.matches /\ step.call.failed = c.failed
    BY <2>2 DEF Step, Keeps
  <2>4. Matching(step.call, 1) = Matching(c, 1) /\ Matching(c, 1) \subseteq Nat
    BY <1>0, <2>3, ConfigFacts DEF Matching
  <2>5. \A k \in Matching(c, 1) : k < c.at + 1 \/ c.at < k
    BY <1>0, <2>4
  <2>6. Passed(step.call)
    BY <1>4, <2>2, <2>3, <2>4, <2>5 DEF Passed, Dealt
  <2>7. Fired(step, g, c)
    BY <2>2 DEF Fired
  <2>8. Recalls(step, g, n, c)
    BY <2>2 DEF Recalls
  <2>9. QED BY <2>2, <2>6, <2>7, <2>8 DEF Evaluates, Verdict
<1>5. CASE ~(answer \in {"allow", "patch", "block"} /\ ~config.dryRun)
           /\ ~(answer = "error" /\ config.onError = "block") /\ ~Rule(c.at).stop
  <2>1. step = Walk(g, n, c, c.at + 1)
    BY <1>5 DEF Answered
  <2>2. c.at + 1 \in Nat /\ (config.onError = "block" => ~c.failed)
    BY <1>0, <1>5
  <2>3. QED BY <2>1, <2>2, WalkStep
<1>6. QED
  BY <1>2, <1>3, <1>4, <1>5

\* What the memory decides without the rules: the backoff, then a cached approval.
HeldOff(g, c) == config.backoff > 0 /\ g.blocked[c.scope].at # Never
Approved(g, c) == g.cache[c.scope].until > clock

Borrows(step, g, c) ==
  /\ step.guard = g /\ ~step.records
  /\ HeldOff(g, c) => Ended(step, c, "block", "backoff")
  /\ ~HeldOff(g, c) => /\ Ended(step, c, "allow", "cache")
                       /\ step.call.from = g.cache[c.scope].by

\* The evaluation of a call whose record is new.
Starting(c) ==
  /\ c \in Calls /\ c.matches \subseteq DOMAIN config.rules
  /\ c.triggered = {} /\ c.cooling = {} /\ ~c.failed

\* What is borrowed from another call is an outcome too.
LEMMA BorrowedRecord ==
  ASSUME NEW g \in Memory(RuleIds), NEW c \in Calls, NEW d \in Decisions, NEW src \in Sources,
         NEW b \in Nat, NEW step, step = [Outcome(g, c, d, src) EXCEPT !.call.from = b]
  PROVE  OutcomeIs(step, g, c, d, src) /\ step.call.from = b
<1> DEFINE o == Outcome(g, c, d, src)
           e == [o.call EXCEPT !.from = b]
<1>1. OutcomeIs(o, g, c, d, src)
  BY OutcomeStep
<1>2. /\ o.call \in Calls /\ Keeps(c, o.call) /\ o.call.stage = "decided"
      /\ o.call.decision = d /\ o.call.src = src
      /\ o.call.triggered = c.triggered /\ o.call.cooling = c.cooling
  BY <1>1 DEF OutcomeIs, Ended, Step
<1>3. o.guard = g /\ ~o.records
  BY <1>1 DEF OutcomeIs
<1>4. step.guard = g /\ step.call = e /\ step.records = o.records
  BY <1>3 DEF Outcome
<1> HIDE DEF o
<1>5. /\ e \in Calls /\ Keeps(c, e) /\ e.stage = "decided" /\ e.decision = d /\ e.src = src
      /\ e.triggered = c.triggered /\ e.cooling = c.cooling /\ e.from = b
  BY <1>2 DEF Calls, Keeps
<1> HIDE DEF e
<1>6. ~step.records /\ step.records \in BOOLEAN
  BY <1>3, <1>4 DEF o, Outcome
<1>7. Step(step, c)
  BY <1>4, <1>5, <1>6 DEF Step
<1>8. Ended(step, c, d, src)
  BY <1>4, <1>5, <1>7 DEF Ended
<1>9. QED
  BY <1>4, <1>5, <1>6, <1>8 DEF OutcomeIs

\* evaluateBeforeToolCall up to its first await is a step, or borrows.
LEMMA EvaluateStep ==
  ASSUME Typed, NEW g \in Memory(RuleIds), NEW n \in Nat, NEW c, Starting(c),
         NEW step, step = Evaluate(g, n, c)
  PROVE  /\ HeldOff(g, c) \/ Approved(g, c) => Borrows(step, g, c)
         /\ ~HeldOff(g, c) /\ ~Approved(g, c) => Evaluates(step, g, n, c)
<1>1. /\ c \in Calls /\ c.scope \in Scopes /\ c.matches \subseteq DOMAIN config.rules
      /\ "block" \in Decisions /\ "allow" \in Decisions
      /\ "backoff" \in Sources /\ "cache" \in Sources
  BY DEF Starting, Calls, Decisions, Sources
<1>2. g.blocked[c.scope].by \in Nat /\ g.cache[c.scope].by \in Nat
  BY <1>1 DEF Memory
<1>3. CASE HeldOff(g, c)
  <2>1. step = [Outcome(g, c, "block", "backoff") EXCEPT !.call.from = g.blocked[c.scope].by]
    BY <1>3 DEF Evaluate, HeldOff
  <2>2. OutcomeIs(step, g, c, "block", "backoff")
    BY <1>1, <1>2, <2>1, BorrowedRecord
  <2>3. QED BY <1>3, <2>2 DEF OutcomeIs, Borrows
<1>4. CASE ~HeldOff(g, c) /\ Approved(g, c)
  <2>1. step = [Outcome(g, c, "allow", "cache") EXCEPT !.call.from = g.cache[c.scope].by]
    BY <1>4 DEF Evaluate, HeldOff, Approved
  <2>2. OutcomeIs(step, g, c, "allow", "cache")
    BY <1>1, <1>2, <2>1, BorrowedRecord
  <2>3. step.call.from = g.cache[c.scope].by
    BY <1>1, <2>1 DEF Outcome, Decided, Calls
  <2>4. QED BY <1>4, <2>2, <2>3 DEF OutcomeIs, Borrows
<1>5. CASE ~HeldOff(g, c) /\ ~Approved(g, c)
  <2>1. step = Walk(g, n, c, 1)
    BY <1>5 DEF Evaluate, HeldOff, Approved
  <2>2. Dealt(c, 1)
    <3>1. \A i \in Matching(c, 1) : i >= 1 /\ i \in Nat
      BY ConfigFacts DEF Matching, Typed
    <3>2. QED BY <3>1 DEF Dealt, Starting
  <2>3. config.onError = "block" => ~c.failed
    BY DEF Starting
  <2>4. QED BY <1>1, <1>5, <2>1, <2>2, <2>3, WalkStep
<1>6. QED
  BY <1>3, <1>4, <1>5

-----------------------------------------------------------------------------
(* What the steps do *)

\* An evaluation that goes on: what the invariants need of any of them.
Advances(step, g, c) == Step(step, c) /\ Fired(step, g, c) /\ Verdict(step.call)

\* An outcome without a walk is as good as a step of one.
LEMMA BorrowedAdvances ==
  ASSUME NEW step, NEW g, NEW c, NEW d, NEW src, OutcomeIs(step, g, c, d, src),
         d = "block" \/ src \in {"off", "cache"}
  PROVE  Advances(step, g, c)
<1>1. /\ Step(step, c) /\ step.guard = g
      /\ step.call.triggered = c.triggered /\ step.call.cooling = c.cooling
      /\ step.call.stage = "decided" /\ step.call.decision = d /\ step.call.src = src
  BY DEF OutcomeIs, Ended
<1>2. Fired(step, g, c)
  BY <1>1 DEF Fired
<1>3. Verdict(step.call)
  BY <1>1 DEF Verdict, Passed
<1>4. QED
  BY <1>1, <1>2, <1>3 DEF Advances

\* As long as the configuration is the same, so are the rules.
LEMMA SameRules ==
  ASSUME config' = config
  PROVE  /\ Order' = Order /\ RuleIds' = RuleIds
         /\ \A i : Rule(i)' = Rule(i)
         /\ \A c : Verdict(c)' <=> Verdict(c)
<1>1. Order' = Order /\ RuleIds' = RuleIds
  BY DEF Order, RuleIds
<1>2. \A i : Rule(i)' = Rule(i)
  BY <1>1 DEF Rule
<1>3. \A c : Matching(c, 1)' = Matching(c, 1)
  BY <1>1 DEF Matching
<1>4. \A c : Passed(c)' <=> Passed(c)
  BY <1>2, <1>3 DEF Passed
<1>5. \A c, i : Dealt(c, i)' <=> Dealt(c, i)
  BY <1>3 DEF Dealt
<1>6. \A c : Verdict(c)' <=> Verdict(c)
  BY <1>4, <1>5 DEF Verdict
<1>7. QED BY <1>1, <1>2, <1>6

\* t is s with record e at n.
Sets(s, t, n, e) ==
  /\ t \in Seq(Calls) /\ DOMAIN t = DOMAIN s \cup {n} /\ t[n] = e
  /\ \A m \in DOMAIN s : m # n => t[m] = s[m]

\* One more call, or another record of one.
LEMMA CallSet ==
  ASSUME NEW s \in Seq(Calls), NEW n \in 1..(Len(s) + 1), NEW e \in Calls, NEW t,
         t = IF n > Len(s) THEN Append(s, e) ELSE [s EXCEPT ![n] = e]
  PROVE  Sets(s, t, n, e)
<1>1. Len(s) \in Nat /\ DOMAIN s = 1..Len(s) /\ n \in Nat /\ n >= 1 /\ n <= Len(s) + 1
  OBVIOUS
<1>2. CASE n > Len(s)
  <2>1. n = Len(s) + 1 /\ n \notin DOMAIN s
    BY <1>1, <1>2
  <2>2. t = Append(s, e)
    BY <1>2
  <2>3. /\ t \in Seq(Calls) /\ DOMAIN t = 1..(Len(s) + 1) /\ t[Len(s) + 1] = e
        /\ \A m \in DOMAIN s : t[m] = s[m]
    BY <2>2, SeqGrows
  <2>4. DOMAIN t = DOMAIN s \cup {n}
    BY <1>1, <2>1, <2>3
  <2>5. QED BY <2>1, <2>3, <2>4 DEF Sets
<1>3. CASE ~(n > Len(s))
  <2>1. n \in DOMAIN s
    BY <1>1, <1>3
  <2>2. t = [s EXCEPT ![n] = e]
    BY <1>3
  <2>3. t \in Seq(Calls) /\ DOMAIN t = DOMAIN s /\ t[n] = e /\ \A m \in DOMAIN s : m # n => t[m] = s[m]
    BY <2>1, <2>2, SeqChanges
  <2>4. QED BY <2>1, <2>3 DEF Sets
<1>4. QED BY <1>2, <1>3

-----------------------------------------------------------------------------
(* Which rules an evaluation has dealt with *)

\* A call that the host has not been told about has neither started nor failed.
Untold(c) == c.stage \in {"asking", "decided"} => ~c.started /\ ~c.threw

\* Something set the time of the rules with this id.
Charged(x) == x \in config.eventIds \/ \E m \in DOMAIN calls : \E k \in calls[m].triggered : Rule(k).id = x

WalkInv ==
  /\ Typed
  /\ \A n \in DOMAIN calls :
       /\ calls[n].matches \subseteq DOMAIN config.rules
       /\ Verdict(calls[n]) /\ Untold(calls[n])
       /\ \A i \in calls[n].cooling : CooledElsewhere(n, i)
  /\ \A x \in RuleIds : guard.last[x] # Never => Charged(x)

\* The evaluation's step becomes the state's, as a change of the sequence of calls.
Settled(n, step) ==
  /\ Sets(calls, calls', n, step.call) /\ guard' = step.guard
  /\ recorded' = IF step.records THEN Append(recorded, n) ELSE recorded

\* An evaluation of call n takes a step from record c and memory g.
Moves(n, c, g, step) ==
  /\ n \in 1..(Len(calls) + 1) /\ c \in Calls /\ c.matches \subseteq DOMAIN config.rules
  /\ ~c.started /\ ~c.threw
  /\ IF n \in DOMAIN calls
     THEN /\ calls[n].scope = c.scope /\ calls[n].id = c.id /\ calls[n].ctx = c.ctx
          /\ calls[n].began = c.began /\ calls[n].known = c.known
          /\ calls[n].triggered = c.triggered /\ calls[n].cooling = c.cooling
          /\ calls[n].stage = "asking" /\ calls[n].src = c.src
     ELSE c.triggered = {} /\ c.cooling = {}
  /\ g.last = guard.last /\ Advances(step, g, c)

\* What a new call's evaluation starts from, and what it makes of it.
Comes(n, c, step) ==
  LET g == IF on THEN Tidy(guard) ELSE guard IN
  /\ n = Len(calls) + 1 /\ n \notin DOMAIN calls /\ Moves(n, c, g, step)
  /\ c.began = clock /\ c.known = recorded /\ c.src = "off"
  /\ ~on => OutcomeIs(step, g, c, "none", "off")
  /\ on /\ (HeldOff(g, c) \/ Approved(g, c)) => Borrows(step, g, c)
  /\ on /\ ~HeldOff(g, c) /\ ~Approved(g, c) => Evaluates(step, g, n, c)

\* Settle, as a change of the sequence of calls.
LEMMA SettleSets ==
  ASSUME Typed, NEW n \in 1..(Len(calls) + 1), NEW step, step.call \in Calls, Settle(n, step)
  PROVE  Settled(n, step)
<1>1. calls' = IF n > Len(calls) THEN Append(calls, step.call) ELSE [calls EXCEPT ![n] = step.call]
  BY DEF Settle
<1>2. Sets(calls, calls', n, step.call)
  BY <1>1, CallSet DEF Typed
<1>3. QED
  BY <1>2 DEF Settle, Settled

\* before_tool_call.
LEMMA BeforeEffect ==
  ASSUME WalkInv, NEW input \in config.calls, BeforeToolCall(input)
  PROVE  /\ \E c, step : Comes(Len(calls) + 1, c, step) /\ Settled(Len(calls) + 1, step)
         /\ UNCHANGED <<config, on, byId, byCtx, active, clock, faults>>
<1> DEFINE n == Len(calls) + 1
           c == NewCall(input)
           g == IF on THEN Tidy(guard) ELSE guard
           step == IF on THEN Evaluate(Tidy(guard), n, c) ELSE Outcome(guard, c, "none", "off")
<1>0. Typed /\ guard \in Memory(RuleIds) /\ on \in BOOLEAN
  BY DEF WalkInv, Typed
<1>1. n \in Nat /\ n \in 1..(Len(calls) + 1) /\ n \notin DOMAIN calls
  BY <1>0 DEF Typed
<1>2. /\ c \in Calls /\ c.matches \subseteq DOMAIN config.rules
      /\ c.triggered = {} /\ c.cooling = {} /\ ~c.failed /\ ~c.started /\ ~c.threw
      /\ c.began = clock /\ c.known = recorded /\ c.src = "off"
  BY <1>0, NewRecord
<1>3. g \in Memory(RuleIds) /\ g.last = guard.last
  BY <1>0, MemoryKept
<1>4. Starting(c)
  BY <1>2 DEF Starting
<1>5. Settle(n, step) /\ UNCHANGED <<config, on, byId, byCtx, active, clock, faults>>
  BY DEF BeforeToolCall
<1>6. on => step = Evaluate(g, n, c)
  OBVIOUS
<1>7. ~on => step = Outcome(g, c, "none", "off")
  OBVIOUS
<1>8. "none" \in Decisions /\ "off" \in Sources /\ "backoff" \in Sources /\ "cache" \in Sources
      /\ "block" \in Decisions /\ "allow" \in Decisions
  BY DEF Decisions, Sources
<1> HIDE DEF n, c, g, step
<1>9. ~on => OutcomeIs(step, g, c, "none", "off")
  BY <1>2, <1>3, <1>7, <1>8, OutcomeStep
<1>10. /\ on /\ (HeldOff(g, c) \/ Approved(g, c)) => Borrows(step, g, c)
       /\ on /\ ~HeldOff(g, c) /\ ~Approved(g, c) => Evaluates(step, g, n, c)
  BY <1>0, <1>1, <1>3, <1>4, <1>6, EvaluateStep
<1>11. Advances(step, g, c)
  <2>1. CASE ~on
    BY <1>9, <2>1, BorrowedAdvances
  <2>2. CASE on /\ HeldOff(g, c)
    <3>1. OutcomeIs(step, g, c, "block", "backoff")
      BY <1>10, <2>2 DEF Borrows, OutcomeIs
    <3>2. QED BY <3>1, BorrowedAdvances
  <2>3. CASE on /\ ~HeldOff(g, c) /\ Approved(g, c)
    <3>1. OutcomeIs(step, g, c, "allow", "cache")
      BY <1>10, <2>3 DEF Borrows, OutcomeIs
    <3>2. QED BY <3>1, BorrowedAdvances
  <2>4. CASE on /\ ~HeldOff(g, c) /\ ~Approved(g, c)
    BY <1>10, <2>4 DEF Evaluates, Advances
  <2>5. QED BY <1>0, <2>1, <2>2, <2>3, <2>4
<1>12. Moves(n, c, g, step)
  BY <1>1, <1>2, <1>3, <1>11 DEF Moves
<1>13. Comes(n, c, step)
  BY <1>1, <1>2, <1>9, <1>10, <1>12 DEF Comes, g, n
<1>14. Settled(n, step)
  BY <1>0, <1>1, <1>5, <1>11, SettleSets DEF Advances, Step
<1>15. QED
  BY <1>5, <1>13, <1>14 DEF n

\* An action that was awaited has answered.
LEMMA AnsweredEffect ==
  ASSUME WalkInv, NEW n \in DOMAIN calls, ActionAnswers(n)
  PROVE  /\ \E c, step : /\ Moves(n, c, guard, step) /\ Evaluates(step, guard, n, c)
                         /\ Settled(n, step) /\ n \in Nat
         /\ UNCHANGED <<config, on, byId, byCtx, active, clock, faults>>
<1>0. Typed /\ guard \in Memory(RuleIds) /\ calls \in Seq(Calls) /\ calls[n] \in Calls
      /\ n \in Nat /\ n \in 1..(Len(calls) + 1)
  BY DEF WalkInv, Typed
<1>1. /\ calls[n].stage = "asking"
      /\ UNCHANGED <<config, on, byId, byCtx, active, clock, faults>>
  BY DEF ActionAnswers
<1>2. PICK answer \in Answers :
        Settle(n, Answered(guard, n, [calls[n] EXCEPT !.failed = @ \/ answer = "error"], answer))
  BY DEF ActionAnswers
<1> DEFINE c == [calls[n] EXCEPT !.failed = @ \/ answer = "error"]
           step == Answered(guard, n, c, answer)
<1>3. /\ calls[n].matches \subseteq DOMAIN config.rules
      /\ calls[n].at \in calls[n].triggered /\ Dealt(calls[n], calls[n].at + 1)
      /\ config.onError = "block" => ~calls[n].failed
      /\ ~calls[n].started /\ ~calls[n].threw
  BY <1>1 DEF WalkInv, Verdict, Untold
<1>4. /\ c \in Calls /\ c.scope = calls[n].scope /\ c.id = calls[n].id /\ c.ctx = calls[n].ctx
      /\ c.began = calls[n].began /\ c.known = calls[n].known /\ c.matches = calls[n].matches
      /\ c.triggered = calls[n].triggered /\ c.cooling = calls[n].cooling /\ c.at = calls[n].at
      /\ c.started = calls[n].started /\ c.threw = calls[n].threw /\ c.src = calls[n].src
      /\ answer # "error" => (c.failed <=> calls[n].failed)
  BY <1>0 DEF Calls
<1>5. Settle(n, step)
  BY <1>2
<1> HIDE DEF c
<1>6. Dealt(c, c.at + 1)
  BY <1>3, <1>4 DEF Dealt, Matching
<1>7. config.onError = "block" => ~c.failed \/ answer = "error"
  BY <1>3, <1>4
<1>8. c.matches \subseteq DOMAIN config.rules /\ c.at \in c.triggered
  BY <1>3, <1>4
<1>9. Evaluates(step, guard, n, c)
  BY <1>0, <1>4, <1>6, <1>7, <1>8, AnsweredStep
<1> HIDE DEF step
<1>10. Advances(step, guard, c) /\ step.call \in Calls
  BY <1>9 DEF Evaluates, Advances, Step
<1>11. Settled(n, step)
  BY <1>0, <1>5, <1>10, SettleSets
<1>12. ~c.started /\ ~c.threw
  BY <1>3, <1>4
<1>13. Moves(n, c, guard, step)
  BY <1>0, <1>1, <1>4, <1>8, <1>10, <1>12 DEF Moves
<1>14. QED
  BY <1>0, <1>1, <1>9, <1>11, <1>13

\* The rest of the two hooks touches only what the host was told of the call.
Evaluated(c, e) ==
  /\ e.scope = c.scope /\ e.matches = c.matches /\ e.id = c.id /\ e.ctx = c.ctx
  /\ e.began = c.began /\ e.known = c.known /\ e.failed = c.failed /\ e.at = c.at
  /\ e.decision = c.decision /\ e.src = c.src /\ e.from = c.from
  /\ e.triggered = c.triggered /\ e.cooling = c.cooling

Telling(s, n, starts, throws) ==
  [s EXCEPT ![n].stage = "told", ![n].started = starts, ![n].threw = throws]
Finishing(s, n, p) == [s EXCEPT ![n].stage = "done", ![n].carried = p]

TellsOf(s, t, n, starts) ==
  /\ Sets(s, t, n, t[n]) /\ t[n] \in Calls /\ Evaluated(s[n], t[n])
  /\ t[n].stage = "told" /\ (t[n].started <=> starts)

FinishesWith(s, t, n, p) ==
  /\ Sets(s, t, n, t[n]) /\ t[n] \in Calls /\ Evaluated(s[n], t[n])
  /\ t[n].started = s[n].started /\ t[n].threw = s[n].threw
  /\ t[n].stage = "done" /\ t[n].carried = p

\* The record of a call whose host has been told.
LEMMA ToldSets ==
  ASSUME NEW s \in Seq(Calls), NEW n \in DOMAIN s, NEW starts \in BOOLEAN, NEW throws \in BOOLEAN,
         NEW t, t = Telling(s, n, starts, throws)
  PROVE  TellsOf(s, t, n, starts)
<1> DEFINE e == [s[n] EXCEPT !.stage = "told", !.started = starts, !.threw = throws]
<1>1. s[n] \in Calls
  OBVIOUS
<1>2. t = [s EXCEPT ![n] = e]
  BY DEF Telling
<1>3. /\ e \in Calls /\ Evaluated(s[n], e)
      /\ e.stage = "told" /\ e.started = starts
  BY <1>1 DEF Calls, Stages, Evaluated
<1> HIDE DEF e
<1>4. e \in Calls
  BY <1>3
<1>5. t \in Seq(Calls) /\ DOMAIN t = DOMAIN s /\ t[n] = e /\ \A m \in DOMAIN s : m # n => t[m] = s[m]
  BY <1>2, <1>4, SeqChanges
<1>6. QED
  BY <1>3, <1>5 DEF Sets, TellsOf

\* The record of a call whose second hook has come.
LEMMA DoneSets ==
  ASSUME NEW s \in Seq(Calls), NEW n \in DOMAIN s, NEW p \in Nat,
         NEW t, t = Finishing(s, n, p)
  PROVE  FinishesWith(s, t, n, p)
<1> DEFINE e == [s[n] EXCEPT !.stage = "done", !.carried = p]
<1>1. s[n] \in Calls
  OBVIOUS
<1>2. t = [s EXCEPT ![n] = e]
  BY DEF Finishing
<1>3. /\ e \in Calls /\ Evaluated(s[n], e) /\ e.started = s[n].started /\ e.threw = s[n].threw
      /\ e.stage = "done" /\ e.carried = p
  BY <1>1 DEF Calls, Stages, Evaluated
<1> HIDE DEF e
<1>4. e \in Calls
  BY <1>3
<1>5. t \in Seq(Calls) /\ DOMAIN t = DOMAIN s /\ t[n] = e /\ \A m \in DOMAIN s : m # n => t[m] = s[m]
  BY <1>2, <1>4, SeqChanges
<1>6. QED
  BY <1>3, <1>5 DEF Sets, FinishesWith

\* What the tables hold are calls or none.
LEMMA PendingType ==
  ASSUME Typed, NEW n \in DOMAIN calls, NEW x \in Ctxs \cup {NoCtx}
  PROVE  Pending(n, x) \in Nat
<1>1. calls[n] \in Calls
  BY DEF Typed
<1>2. calls[n].id \in Ids \cup {NoId}
  BY <1>1 DEF Calls
<1>3. QED
  BY <1>2 DEF Typed, Pending, PendingById, PendingByCtx, NoCall

\* A step of a hook that is not the evaluation's: call n, its record from c to e.
Hooked(n, e) ==
  /\ Sets(calls, calls', n, e) /\ Evaluated(calls[n], e) /\ e \in Calls
  /\ e.stage \in {"told", "done"} /\ calls[n].stage \in {"decided", "told"}
  /\ calls[n].stage = "told" => e.threw = calls[n].threw
  /\ UNCHANGED <<config, on, guard, recorded, clock>>

\* The broadcasts that end before_tool_call.
LEMMA ToldEffect ==
  ASSUME WalkInv, NEW n \in DOMAIN calls, NEW starts \in BOOLEAN, NEW throws \in BOOLEAN,
         Told(n, starts, throws)
  PROVE  /\ Hooked(n, calls'[n]) /\ calls[n].stage = "decided"
         /\ calls'[n].stage = "told" /\ (calls'[n].started <=> starts)
<1>1. /\ calls \in Seq(Calls) /\ calls[n].stage = "decided"
      /\ calls' = Telling(calls, n, starts, throws)
      /\ UNCHANGED <<config, on, guard, recorded, clock>>
  BY DEF WalkInv, Typed, Told, Telling
<1>2. TellsOf(calls, calls', n, starts)
  BY <1>1, ToldSets
<1>3. QED
  BY <1>1, <1>2 DEF Hooked, TellsOf

\* after_tool_call.
LEMMA AfterEffect ==
  ASSUME WalkInv, NEW n \in DOMAIN calls, NEW x \in Ctxs \cup {NoCtx}, AfterToolCall(n, x)
  PROVE  /\ Hooked(n, calls'[n]) /\ calls[n].stage = "told" /\ x \in {calls[n].ctx, NoCtx}
         /\ calls'[n].stage = "done" /\ calls'[n].started = calls[n].started
         /\ calls'[n].carried = Pending(n, x)
<1>1. /\ calls \in Seq(Calls) /\ calls[n].stage = "told"
      /\ calls' = Finishing(calls, n, Pending(n, x))
      /\ x \in {calls[n].ctx, NoCtx}
      /\ UNCHANGED <<config, on, guard, recorded, clock>>
  BY DEF WalkInv, Typed, AfterToolCall, Finishing
<1>2. Pending(n, x) \in Nat
  BY PendingType DEF WalkInv
<1>3. FinishesWith(calls, calls', n, Pending(n, x))
  BY <1>1, <1>2, DoneSets
<1>4. QED
  BY <1>1, <1>3 DEF Hooked, FinishesWith

\* Triggered rules stay so, and so do their reasons.
LEMMA ChargedStays ==
  ASSUME config' = config, DOMAIN calls \subseteq DOMAIN calls',
         \A m \in DOMAIN calls : calls[m].triggered \subseteq calls'[m].triggered
  PROVE  /\ \A x : Charged(x) => Charged(x)'
         /\ \A n, i : CooledElsewhere(n, i) => CooledElsewhere(n, i)'
<1>1. \A k : Rule(k)' = Rule(k)
  BY SameRules
<1>2. \A x : Charged(x) => Charged(x)'
  BY <1>1 DEF Charged
<1>3. \A n, i : CooledElsewhere(n, i) => CooledElsewhere(n, i)'
  BY <1>1 DEF CooledElsewhere
<1>4. QED BY <1>2, <1>3

\* An evaluation's step keeps the invariant.
LEMMA WalkKept ==
  ASSUME WalkInv, NEW n, NEW c, NEW g, NEW step, Moves(n, c, g, step), Settled(n, step), n \in Nat,
         UNCHANGED <<config, on, byId, byCtx, active, clock>>
  PROVE  WalkInv'
<1> DEFINE e == step.call
<1>1. /\ Sets(calls, calls', n, e) /\ guard' = step.guard
      /\ recorded' = IF step.records THEN Append(recorded, n) ELSE recorded
  BY DEF Settled
<1>2. /\ Step(step, c) /\ Fired(step, g, c) /\ Verdict(e) /\ g.last = guard.last
      /\ c.matches \subseteq DOMAIN config.rules /\ ~c.started /\ ~c.threw
  BY DEF Moves, Advances
<1>3. e \in Calls /\ Keeps(c, e) /\ step.guard \in Memory(RuleIds) /\ step.records \in BOOLEAN
  BY <1>2 DEF Step
<1> HIDE DEF e
<1>4. /\ DOMAIN calls' = DOMAIN calls \cup {n} /\ calls'[n] = e
      /\ \A m \in DOMAIN calls : m # n => calls'[m] = calls[m]
      /\ calls' \in Seq(Calls)
  BY <1>1 DEF Sets
<1>5. c.triggered \subseteq e.triggered
  BY <1>2 DEF Fired, e
<1>6. \A m \in DOMAIN calls : calls[m].triggered \subseteq calls'[m].triggered
  <2>1. n \in DOMAIN calls => calls[n].triggered = c.triggered
    BY DEF Moves
  <2>2. QED BY <1>4, <1>5, <2>1
<1>7. /\ \A k : Rule(k)' = Rule(k)
      /\ \A d : Verdict(d)' <=> Verdict(d)
      /\ RuleIds' = RuleIds
  BY SameRules
<1>8. /\ \A x : Charged(x) => Charged(x)'
      /\ \A m, i : CooledElsewhere(m, i) => CooledElsewhere(m, i)'
  BY <1>4, <1>6, ChargedStays
<1>9. \A x \in RuleIds : g.last[x] # Never => Charged(x)
  BY <1>2 DEF WalkInv
<1>10. Typed'
  <2>1. recorded' \in Seq(Nat)
    BY <1>1, SeqGrows DEF WalkInv, Typed
  <2>2. guard' \in Memory(RuleIds')
    BY <1>1, <1>3, <1>7
  <2>3. QED BY <1>4, <2>1, <2>2 DEF WalkInv, Typed, Memory
<1>11. ASSUME NEW i \in e.cooling PROVE CooledElsewhere(n, i)'
  <2>1. CASE i \in c.cooling
    <3>1. n \in DOMAIN calls /\ i \in calls[n].cooling
      BY <2>1 DEF Moves
    <3>2. QED BY <1>8, <3>1 DEF WalkInv
  <2>2. CASE i \notin c.cooling
    <3>1. /\ i \notin c.triggered /\ Rule(i).id \in RuleIds
          /\ \/ g.last[Rule(i).id] # Never
             \/ \E k \in e.triggered : Rule(k).id = Rule(i).id /\ k # i
      BY <1>2, <1>11, <2>2 DEF Fired, e
    <3>2. CASE \E k \in e.triggered : Rule(k).id = Rule(i).id /\ k # i
      <4>1. PICK k \in e.triggered : Rule(k).id = Rule(i).id /\ k # i
        BY <3>2
      <4>2. n \in DOMAIN calls' /\ k \in calls'[n].triggered /\ Rule(k)'.id = Rule(i)'.id /\ <<n, k>> # <<n, i>>
        BY <1>4, <1>7, <4>1
      <4>3. QED BY <4>2 DEF CooledElsewhere
    <3>3. CASE g.last[Rule(i).id] # Never
      <4>1. Charged(Rule(i).id)
        BY <1>9, <3>1, <3>3
      <4>2. CooledElsewhere(n, i)
        <5>1. CASE Rule(i).id \in config.eventIds
          BY <5>1 DEF CooledElsewhere
        <5>2. CASE \E m \in DOMAIN calls : \E k \in calls[m].triggered : Rule(k).id = Rule(i).id
          <6>1. PICK m \in DOMAIN calls : \E k \in calls[m].triggered : Rule(k).id = Rule(i).id
            BY <5>2
          <6>2. PICK k \in calls[m].triggered : Rule(k).id = Rule(i).id
            BY <6>1
          <6>3. m = n => k # i
            BY <3>1, <6>2 DEF Moves
          <6>4. <<m, k>> # <<n, i>>
            BY <6>3
          <6>5. QED BY <6>2, <6>4 DEF CooledElsewhere
        <5>3. QED BY <4>1, <5>1, <5>2 DEF Charged
      <4>3. QED BY <1>8, <4>2
    <3>4. QED BY <3>1, <3>2, <3>3
  <2>3. QED BY <2>1, <2>2
<1>12. ASSUME NEW m \in DOMAIN calls'
       PROVE  /\ calls'[m].matches \subseteq DOMAIN config'.rules
              /\ Verdict(calls[m])' /\ Untold(calls'[m])
              /\ \A i \in calls'[m].cooling : CooledElsewhere(m, i)'
  <2>1. CASE m = n
    <3>1. Verdict(calls[m])'
      BY <1>2, <1>4, <1>7, <2>1 DEF e
    <3>2. e.matches \subseteq DOMAIN config'.rules /\ ~e.started /\ ~e.threw
      BY <1>2, <1>3 DEF Keeps
    <3>3. QED BY <1>4, <1>11, <2>1, <3>1, <3>2 DEF Untold
  <2>2. CASE m # n
    <3>1. m \in DOMAIN calls /\ calls'[m] = calls[m]
      BY <1>4, <2>2
    <3>2. /\ calls[m].matches \subseteq DOMAIN config.rules /\ Verdict(calls[m]) /\ Untold(calls[m])
          /\ \A i \in calls[m].cooling : CooledElsewhere(m, i)
      BY <3>1 DEF WalkInv
    <3>3. Verdict(calls[m])'
      BY <1>7, <3>1, <3>2
    <3>4. QED BY <1>8, <3>1, <3>2, <3>3
  <2>3. QED BY <2>1, <2>2
<1>13. ASSUME NEW x \in RuleIds', guard'.last[x] # Never PROVE Charged(x)'
  <2>1. x \in RuleIds /\ step.guard.last[x] # Never
    BY <1>1, <1>7, <1>13
  <2>2. g.last[x] # Never \/ \E k \in e.triggered : Rule(k).id = x
    BY <1>2, <2>1 DEF Fired, e
  <2>3. CASE g.last[x] # Never
    BY <1>8, <1>9, <2>1, <2>3
  <2>4. CASE \E k \in e.triggered : Rule(k).id = x
    <3>1. n \in DOMAIN calls' /\ \E k \in calls'[n].triggered : Rule(k)'.id = x
      BY <1>4, <1>7, <2>4
    <3>2. QED BY <3>1 DEF Charged
  <2>5. QED BY <2>2, <2>3, <2>4
<1>14. Never' = Never
  BY DEF Never
<1>15. QED
  BY <1>10, <1>12, <1>13, <1>14 DEF WalkInv, Untold

\* A hook's step that is not the evaluation's keeps it too.
LEMMA WalkHooked ==
  ASSUME WalkInv, NEW n \in DOMAIN calls, NEW e, Hooked(n, e),
         byId' \in [Ids -> Nat], byCtx' \in [Ctxs -> Nat]
  PROVE  WalkInv'
<1>1. /\ Evaluated(calls[n], e) /\ e \in Calls /\ e.stage \in {"told", "done"}
      /\ calls[n].stage \in {"decided", "told"} /\ (calls[n].stage = "told" => e.threw = calls[n].threw)
      /\ UNCHANGED <<config, on, guard, recorded, clock>>
  BY DEF Hooked
<1>2. /\ DOMAIN calls' = DOMAIN calls /\ calls'[n] = e /\ calls' \in Seq(Calls)
      /\ \A m \in DOMAIN calls : m # n => calls'[m] = calls[m]
  BY DEF Hooked, Sets
<1>3. \A m \in DOMAIN calls : /\ calls'[m].triggered = calls[m].triggered
                              /\ calls'[m].cooling = calls[m].cooling
                              /\ calls'[m].matches = calls[m].matches
  BY <1>1, <1>2 DEF Evaluated
<1>4. /\ \A d : Verdict(d)' <=> Verdict(d)
      /\ RuleIds' = RuleIds
  BY <1>1, SameRules
<1>5. /\ \A x : Charged(x) => Charged(x)'
      /\ \A m, i : CooledElsewhere(m, i) => CooledElsewhere(m, i)'
  BY <1>1, <1>2, <1>3, ChargedStays
<1>6. Typed'
  BY <1>1, <1>2, <1>4 DEF WalkInv, Typed, Memory
<1>7. Verdict(e)
  <2>1. Verdict(calls[n]) /\ Untold(calls[n])
    BY DEF WalkInv
  <2>2. calls[n].decision # "block" => calls[n].threw \/ Passed(calls[n])
    BY <1>1, <2>1 DEF Verdict
  <2>3. calls[n].threw => e.threw
    BY <1>1, <2>1 DEF Untold
  <2>4. Passed(calls[n]) => Passed(e)
    BY <1>1 DEF Evaluated, Passed, Matching
  <2>5. e.decision = calls[n].decision
    BY <1>1 DEF Evaluated
  <2>6. QED BY <1>1, <2>2, <2>3, <2>4, <2>5 DEF Verdict
<1>8. ASSUME NEW m \in DOMAIN calls'
      PROVE  /\ calls'[m].matches \subseteq DOMAIN config'.rules
             /\ Verdict(calls[m])' /\ Untold(calls'[m])
             /\ \A i \in calls'[m].cooling : CooledElsewhere(m, i)'
  <2>1. m \in DOMAIN calls
    BY <1>2
  <2>2. /\ calls[m].matches \subseteq DOMAIN config.rules /\ Verdict(calls[m]) /\ Untold(calls[m])
        /\ \A i \in calls[m].cooling : CooledElsewhere(m, i)
    BY <2>1 DEF WalkInv
  <2>3. Verdict(calls'[m]) /\ Untold(calls'[m])
    BY <1>1, <1>2, <1>7, <2>1, <2>2 DEF Untold
  <2>4. Verdict(calls[m])'
    BY <1>4, <2>3
  <2>5. QED BY <1>1, <1>3, <1>5, <2>1, <2>2, <2>3, <2>4
<1>9. \A x \in RuleIds' : guard'.last[x] # Never => Charged(x)'
  BY <1>1, <1>4, <1>5 DEF WalkInv
<1>10. Never' = Never
  BY DEF Never
<1>11. QED
  BY <1>6, <1>8, <1>9, <1>10 DEF WalkInv, Untold

\* So does a step that no call takes part in: time passes, the plugin is deactivated, or
\* a rule for events fires.
LEMMA WalkElse ==
  ASSUME WalkInv, UNCHANGED <<config, calls, recorded>>, on' \in BOOLEAN, clock' \in Nat \ {0},
         byId' \in [Ids -> Nat], byCtx' \in [Ctxs -> Nat], guard' \in Memory(RuleIds),
         \A x \in RuleIds : guard'.last[x] = guard.last[x] \/ x \in config.eventIds
  PROVE  WalkInv'
<1>1. /\ \A d : Verdict(d)' <=> Verdict(d)
      /\ RuleIds' = RuleIds
  BY SameRules
<1>2. /\ \A x : Charged(x) => Charged(x)'
      /\ \A m, i : CooledElsewhere(m, i) => CooledElsewhere(m, i)'
  BY ChargedStays
<1>3. Typed'
  BY <1>1 DEF WalkInv, Typed, Memory
<1>4. ASSUME NEW m \in DOMAIN calls'
      PROVE  /\ calls'[m].matches \subseteq DOMAIN config'.rules
             /\ Verdict(calls[m])' /\ Untold(calls'[m])
             /\ \A i \in calls'[m].cooling : CooledElsewhere(m, i)'
  <2>1. /\ calls[m].matches \subseteq DOMAIN config.rules /\ Verdict(calls[m]) /\ Untold(calls[m])
        /\ \A i \in calls[m].cooling : CooledElsewhere(m, i)
    BY DEF WalkInv
  <2>2. Verdict(calls[m])'
    BY <1>1, <2>1
  <2>3. QED BY <1>2, <2>1, <2>2
<1>5. ASSUME NEW x \in RuleIds', guard'.last[x] # Never PROVE Charged(x)'
  <2>1. CASE x \in config.eventIds
    BY <2>1 DEF Charged
  <2>2. CASE guard'.last[x] = guard.last[x]
    BY <1>1, <1>2, <1>5, <2>2 DEF WalkInv
  <2>3. QED BY <1>1, <2>1, <2>2
<1>6. Never' = Never
  BY DEF Never
<1>7. QED
  BY <1>3, <1>4, <1>5, <1>6 DEF WalkInv, Untold

\* The tables hold numbers.
LEMMA TableTypes ==
  ASSUME Typed, NEW n \in DOMAIN calls,
         \/ ToolCalled(n) \/ ToolNotCalled(n)
         \/ \E x \in Ctxs \cup {NoCtx} : AfterToolCall(n, x)
  PROVE  byId' \in [Ids -> Nat] /\ byCtx' \in [Ctxs -> Nat]
<1>1. n \in Nat /\ byId \in [Ids -> Nat] /\ byCtx \in [Ctxs -> Nat] /\ NoCall \in Nat
  BY DEF Typed, NoCall
<1>2. CASE ToolCalled(n)
  <2>1. /\ byId' = [i \in Ids |-> IF i = calls[n].id THEN n ELSE byId[i]]
        /\ byCtx' = [x \in Ctxs |-> IF x = calls[n].ctx THEN n ELSE byCtx[x]]
    BY <1>2 DEF ToolCalled
  <2>2. QED BY <1>1, <2>1
<1>3. CASE ToolNotCalled(n)
  BY <1>1, <1>3 DEF ToolNotCalled
<1>4. CASE \E x \in Ctxs \cup {NoCtx} : AfterToolCall(n, x)
  <2>1. PICK x \in Ctxs \cup {NoCtx} : AfterToolCall(n, x)
    BY <1>4
  <2>2. /\ byId' = [i \in Ids |-> IF i = calls[n].id THEN NoCall ELSE byId[i]]
        /\ byCtx' = [y \in Ctxs |-> IF y = x THEN NoCall ELSE byCtx[y]]
    BY <2>1 DEF AfterToolCall
  <2>3. QED BY <1>1, <2>2
<1>5. QED BY <1>2, <1>3, <1>4

\* The invariant holds at first.
LEMMA WalkInit == Init => WalkInv
<1> SUFFICES ASSUME Init PROVE WalkInv
  OBVIOUS
<1>1. guard \in Memory(RuleIds)
  <2>1. guard = [last |-> [x \in RuleIds |-> Never],
                 blocked |-> [s \in Scopes |-> [at |-> Never, by |-> NoCall]],
                 cache   |-> [s \in Scopes |-> [until |-> Never, by |-> NoCall]]]
    BY DEF Init
  <2>2. QED BY <2>1 DEF Memory, Never, NoCall
<1>2. Typed
  BY <1>1 DEF Init, Typed, NoCall
<1>3. \A x \in RuleIds : guard.last[x] = Never
  BY DEF Init
<1>4. DOMAIN calls = {}
  BY DEF Init
<1>5. QED
  BY <1>2, <1>3, <1>4 DEF WalkInv

\* Every step keeps it.
LEMMA WalkNext == WalkInv /\ [Next]_vars => WalkInv'
<1> SUFFICES ASSUME WalkInv, [Next]_vars PROVE WalkInv'
  OBVIOUS
<1>0. /\ Typed /\ byId \in [Ids -> Nat] /\ byCtx \in [Ctxs -> Nat] /\ on \in BOOLEAN
      /\ clock \in Nat \ {0} /\ guard \in Memory(RuleIds)
  BY DEF WalkInv, Typed
<1>1. ASSUME NEW input \in config.calls, BeforeToolCall(input) PROVE WalkInv'
  <2>1. PICK c, step : Comes(Len(calls) + 1, c, step) /\ Settled(Len(calls) + 1, step)
    BY <1>1, BeforeEffect
  <2>2. UNCHANGED <<config, on, byId, byCtx, active, clock, faults>>
    BY <1>1, BeforeEffect
  <2>3. Len(calls) + 1 \in Nat
    BY <1>0 DEF Typed
  <2>4. PICK g : Moves(Len(calls) + 1, c, g, step)
    BY <2>1 DEF Comes
  <2>5. QED BY <2>1, <2>2, <2>3, <2>4, WalkKept
<1>2. ASSUME NEW n \in DOMAIN calls, ActionAnswers(n) PROVE WalkInv'
  <2>1. PICK c, step : Moves(n, c, guard, step) /\ Settled(n, step) /\ n \in Nat
    BY <1>2, AnsweredEffect
  <2>2. UNCHANGED <<config, on, byId, byCtx, active, clock, faults>>
    BY <1>2, AnsweredEffect
  <2>3. QED BY <2>1, <2>2, WalkKept
<1>3. ASSUME NEW n \in DOMAIN calls, ToolCalled(n) PROVE WalkInv'
  <2>1. PICK throws \in BOOLEAN : Told(n, TRUE, throws)
    BY <1>3 DEF ToolCalled
  <2>2. Hooked(n, calls'[n])
    BY <2>1, ToldEffect
  <2>3. QED BY <1>0, <1>3, <2>2, TableTypes, WalkHooked
<1>4. ASSUME NEW n \in DOMAIN calls, ToolNotCalled(n) PROVE WalkInv'
  <2>1. Hooked(n, calls'[n])
    BY <1>4, ToldEffect DEF ToolNotCalled
  <2>2. QED BY <1>0, <1>4, <2>1, TableTypes, WalkHooked
<1>5. ASSUME NEW n \in DOMAIN calls, NEW x \in Ctxs \cup {NoCtx}, AfterToolCall(n, x) PROVE WalkInv'
  <2>1. Hooked(n, calls'[n])
    BY <1>5, AfterEffect
  <2>2. QED BY <1>0, <1>5, <2>1, TableTypes, WalkHooked
<1>6. ASSUME NEW x \in config.eventIds, EventRuleFires(x) PROVE WalkInv'
  <2>1. /\ UNCHANGED <<config, on, calls, recorded, byId, byCtx, active, clock, faults>>
        /\ guard' = [guard EXCEPT !.last[x] = clock]
    BY <1>6 DEF EventRuleFires
  <2>2. guard' \in Memory(RuleIds) /\ \A y \in RuleIds : y # x => guard'.last[y] = guard.last[y]
    BY <1>0, <2>1 DEF Memory
  <2>3. QED BY <1>0, <2>1, <2>2, WalkElse
<1>7. CASE Deactivate
  <2>1. /\ UNCHANGED <<config, guard, calls, recorded, clock>> /\ on' = FALSE
        /\ byId' \in [Ids -> Nat] /\ byCtx' \in [Ctxs -> Nat]
    BY <1>7 DEF Deactivate, NoCall
  <2>2. QED BY <1>0, <2>1, WalkElse
<1>8. CASE Tick
  BY <1>0, <1>8, WalkElse DEF Tick
<1>9. CASE UNCHANGED vars
  BY <1>0, <1>9, WalkElse DEF vars
<1>10. QED
  BY <1>1, <1>2, <1>3, <1>4, <1>5, <1>6, <1>7, <1>8, <1>9 DEF Next

\* For all rules, configurations, calls and interleavings: what the guard remembers and
\* the calls keep their form, and each evaluation has dealt with the rules it passed
\* (hook-bridge.ts, evaluateBeforeToolCall).
THEOREM WalkInvariance == Spec => []WalkInv
<1> QED BY WalkInit, WalkNext, PTL DEF Spec

\* The host runs a call only for one of the reasons PassedForAReason lists, however the
\* evaluations of calls overlap and whichever rules share an id (hook-bridge.ts, the
\* loop of evaluateBeforeToolCall, and runHookSafely around it).
THEOREM CallsPassForAReason == Spec => []PassedForAReason
<1>1. WalkInv => PassedForAReason
  <2>1. SUFFICES ASSUME WalkInv, NEW n \in DOMAIN calls, calls[n].stage \in {"told", "done"},
                        calls[n].decision # "block", ~calls[n].threw,
                        calls[n].src \notin {"off", "cache", "rule", "action"}
                 PROVE  /\ config.onError = "block" => ~calls[n].failed
                        /\ \A i \in Matching(calls[n], 1) :
                             \/ i \in calls[n].triggered
                             \/ i \in calls[n].cooling /\ CooledElsewhere(n, i)
                             \/ calls[n].src = "stop" /\ \E j \in calls[n].triggered : j < i /\ Rule(j).stop
    BY DEF PassedForAReason
  <2>2. Verdict(calls[n]) /\ \A i \in calls[n].cooling : CooledElsewhere(n, i)
    BY <2>1 DEF WalkInv
  <2>3. Passed(calls[n])
    BY <2>1, <2>2 DEF Verdict
  <2>4. QED BY <2>1, <2>2, <2>3 DEF Passed
<1>2. QED BY <1>1, WalkInvariance, PTL

-----------------------------------------------------------------------------
(* The two hooks of a call *)

\* The tables name calls by the identifiers they have.
Tables ==
  /\ \A i \in Ids : byId[i] # NoCall => byId[i] \in DOMAIN calls /\ calls[byId[i]].id = i
  /\ \A x \in Ctxs : byCtx[x] # NoCall => byCtx[x] \in DOMAIN calls /\ calls[byCtx[x]].ctx = x
  /\ \A a \in active : a.of \in DOMAIN calls /\ a.id = CallId(a.of)

\* A call with an id of its own is found by it until its second hook, which leaves
\* nothing of it behind.
OwnId(n) == calls[n].id # NoId /\ SameId(n) = {} /\ calls[n].started /\ on

Paired(n) ==
  /\ calls[n].stage = "told" /\ OwnId(n) => byId[calls[n].id] = n
  /\ calls[n].stage = "done" =>
       /\ calls[n].carried \in {n, NoCall} \cup Twins(n)
       /\ OwnId(n) => /\ calls[n].carried = n /\ \A a \in active : a.of # n
                      /\ \A i \in Ids : byId[i] # n

PairInv == Tables /\ \A n \in DOMAIN calls : Paired(n)

\* Calls keep their identifiers.
Identified ==
  /\ DOMAIN calls \subseteq DOMAIN calls'
  /\ \A m \in DOMAIN calls : calls'[m].id = calls[m].id /\ calls'[m].ctx = calls[m].ctx

\* Calls that share an identifier go on sharing it.
LEMMA TwinsGrow ==
  ASSUME Identified, NEW n \in DOMAIN calls
  PROVE  /\ Twins(n) \subseteq Twins(n)' /\ SameId(n) \subseteq SameId(n)'
         /\ CallId(n)' = CallId(n)
<1>1. Twins(n) \subseteq Twins(n)'
  BY DEF Identified, Twins
<1>2. SameId(n) \subseteq SameId(n)'
  BY <1>1 DEF Identified, SameId, Twins
<1>3. CallId(n)' = CallId(n)
  BY DEF Identified, CallId
<1>4. QED
  BY <1>1, <1>2, <1>3

\* What is unchanged about another call stays paired.
LEMMA PairedStays ==
  ASSUME Identified, NEW m \in DOMAIN calls, Paired(m), calls'[m] = calls[m],
         on' => on,
         on' /\ calls[m].stage = "told" /\ OwnId(m) /\ SameId(m)' = {} => byId'[calls[m].id] = byId[calls[m].id],
         on' => /\ \A a \in active' : a \in active \/ a.of # m
                /\ \A i \in Ids : byId'[i] = byId[i] \/ byId'[i] # m
  PROVE  Paired(m)'
<1>1. Twins(m) \subseteq Twins(m)' /\ SameId(m) \subseteq SameId(m)'
  BY TwinsGrow
<1>2. OwnId(m)' => OwnId(m) /\ on' /\ SameId(m)' = {}
  BY <1>1 DEF OwnId
<1>3. NoCall' = NoCall
  BY DEF NoCall
<1>4. ASSUME calls'[m].stage = "told" /\ OwnId(m)' PROVE byId'[calls'[m].id] = m
  BY <1>2, <1>4 DEF Paired
<1>5. ASSUME calls'[m].stage = "done"
      PROVE  /\ calls'[m].carried \in {m, NoCall} \cup Twins(m)'
             /\ OwnId(m)' => /\ calls'[m].carried = m /\ \A a \in active' : a.of # m
                             /\ \A i \in Ids : byId'[i] # m
  <2>1. /\ calls[m].carried \in {m, NoCall} \cup Twins(m)
        /\ OwnId(m) => /\ calls[m].carried = m /\ \A a \in active : a.of # m
                       /\ \A i \in Ids : byId[i] # m
    BY <1>5 DEF Paired
  <2>2. calls'[m].carried \in {m, NoCall} \cup Twins(m)'
    BY <1>1, <2>1
  <2>3. ASSUME OwnId(m)'
        PROVE  /\ calls'[m].carried = m /\ \A a \in active' : a.of # m
               /\ \A i \in Ids : byId'[i] # m
    BY <1>2, <2>1, <2>3
  <2>4. QED BY <2>2, <2>3
<1>6. QED
  BY <1>3, <1>4, <1>5 DEF Paired

\* The evaluation does not touch the tables.
LEMMA PairMoves ==
  ASSUME WalkInv, PairInv, NEW n, NEW c, NEW g, NEW step, Moves(n, c, g, step), Settled(n, step),
         UNCHANGED <<on, byId, byCtx, active>>
  PROVE  PairInv'
<1> DEFINE e == step.call
<1>1. Sets(calls, calls', n, e) /\ Keeps(c, e) /\ e.stage \in {"asking", "decided"}
  BY DEF Settled, Moves, Advances, Step
<1>2. n \in DOMAIN calls => calls[n].id = c.id /\ calls[n].ctx = c.ctx
  BY DEF Moves
<1> HIDE DEF e
<1>3. /\ DOMAIN calls' = DOMAIN calls \cup {n} /\ calls'[n] = e
      /\ \A m \in DOMAIN calls : m # n => calls'[m] = calls[m]
  BY <1>1 DEF Sets
<1>4. Identified
  BY <1>1, <1>2, <1>3 DEF Identified, Keeps
<1>5. NoCall' = NoCall /\ \A m \in DOMAIN calls : CallId(m)' = CallId(m)
  BY <1>4, TwinsGrow DEF NoCall
<1>6. Tables'
  BY <1>4, <1>5 DEF PairInv, Tables, Identified
<1>7. ASSUME NEW m \in DOMAIN calls' PROVE Paired(m)'
  <2>1. CASE m = n
    BY <1>1, <1>3, <2>1 DEF Paired
  <2>2. CASE m # n
    <3>1. m \in DOMAIN calls /\ calls'[m] = calls[m] /\ Paired(m)
      BY <1>3, <2>2 DEF PairInv
    <3>2. QED BY <1>4, <3>1, PairedStays
  <2>3. QED BY <2>1, <2>2
<1>8. QED BY <1>6, <1>7 DEF PairInv

\* What the two hooks have in common.
LEMMA PairHooked ==
  ASSUME NEW n \in DOMAIN calls, NEW e, Hooked(n, e)
  PROVE  /\ Identified /\ DOMAIN calls' = DOMAIN calls /\ calls'[n] = e
         /\ e.id = calls[n].id /\ e.ctx = calls[n].ctx
         /\ \A m \in DOMAIN calls : m # n => calls'[m] = calls[m]
         /\ \A m \in DOMAIN calls : CallId(m)' = CallId(m)
<1>1. /\ DOMAIN calls' = DOMAIN calls /\ calls'[n] = e
      /\ \A m \in DOMAIN calls : m # n => calls'[m] = calls[m]
      /\ e.id = calls[n].id /\ e.ctx = calls[n].ctx
  BY DEF Hooked, Sets, Evaluated
<1>2. Identified
  BY <1>1 DEF Identified
<1>3. QED BY <1>1, <1>2, TwinsGrow

\* tool.called files the call.
LEMMA PairCalled ==
  ASSUME WalkInv, PairInv, NEW n \in DOMAIN calls, ToolCalled(n)
  PROVE  PairInv'
<1>1. PICK throws \in BOOLEAN : Told(n, TRUE, throws)
  BY DEF ToolCalled
<1> DEFINE e == calls'[n]
<1>2. /\ Hooked(n, e) /\ calls[n].stage = "decided" /\ e.stage = "told" /\ on' = on
  BY <1>1, ToldEffect DEF Hooked
<1>3. /\ Identified /\ DOMAIN calls' = DOMAIN calls
      /\ e.id = calls[n].id /\ e.ctx = calls[n].ctx
      /\ \A m \in DOMAIN calls : m # n => calls'[m] = calls[m]
      /\ \A m \in DOMAIN calls : CallId(m)' = CallId(m)
  BY <1>2, PairHooked
<1>4. /\ active' = {a \in active : a.id # CallId(n)} \cup {[id |-> CallId(n), of |-> n]}
      /\ byId' = [i \in Ids |-> IF i = calls[n].id THEN n ELSE byId[i]]
      /\ byCtx' = [x \in Ctxs |-> IF x = calls[n].ctx THEN n ELSE byCtx[x]]
  BY DEF ToolCalled
<1>5. /\ calls[n].id \in Ids \cup {NoId}
      /\ \A m \in DOMAIN calls : calls[m].id \in Ids \cup {NoId}
  <2>1. \A m \in DOMAIN calls : calls[m] \in Calls
    BY DEF WalkInv, Typed
  <2>2. QED BY <2>1 DEF Calls
<1> HIDE DEF e
<1>6. Tables'
  <2>1. NoCall' = NoCall
    BY DEF NoCall
  <2>2. ASSUME NEW i \in Ids, byId'[i] # NoCall PROVE byId'[i] \in DOMAIN calls' /\ calls'[byId'[i]].id = i
    BY <1>3, <1>4, <2>2 DEF PairInv, Tables, Identified, e
  <2>3. ASSUME NEW x \in Ctxs, byCtx'[x] # NoCall PROVE byCtx'[x] \in DOMAIN calls' /\ calls'[byCtx'[x]].ctx = x
    BY <1>3, <1>4, <2>3 DEF PairInv, Tables, Identified, e
  <2>4. ASSUME NEW a \in active' PROVE a.of \in DOMAIN calls' /\ a.id = CallId(a.of)'
    <3>1. CASE a \in active
      <4>1. a.of \in DOMAIN calls /\ a.id = CallId(a.of)
        BY <3>1 DEF PairInv, Tables
      <4>2. QED BY <1>3, <4>1
    <3>2. CASE a \notin active
      <4>1. a.of = n /\ a.id = CallId(n)
        BY <1>4, <2>4, <3>2
      <4>2. QED BY <1>3, <4>1
    <3>3. QED BY <3>1, <3>2
  <2>5. QED BY <2>1, <2>2, <2>3, <2>4 DEF Tables
<1>7. ASSUME NEW m \in DOMAIN calls' PROVE Paired(m)'
  <2>1. CASE m = n
    <3>1. OwnId(n)' => byId'[e.id] = n
      BY <1>3, <1>4, <1>5 DEF OwnId, e
    <3>2. QED BY <1>2, <2>1, <3>1 DEF Paired, e
  <2>2. CASE m # n
    <3>1. m \in DOMAIN calls /\ calls'[m] = calls[m] /\ Paired(m)
      BY <1>3, <2>2 DEF PairInv
    <3>2. n # m /\ calls[n].id = calls[m].id /\ calls[m].id # NoId => n \in SameId(m)
      BY DEF SameId, Twins
    <3>3. OwnId(m) /\ SameId(m)' = {} => byId'[calls[m].id] = byId[calls[m].id]
      BY <1>4, <1>5, <2>2, <3>1, <3>2 DEF OwnId
    <3>4. \A a \in active' : a \in active \/ a.of # m
      BY <1>4, <2>2
    <3>5. \A i \in Ids : byId'[i] = byId[i] \/ byId'[i] # m
      BY <1>4, <2>2
    <3>6. QED BY <1>2, <1>3, <3>1, <3>3, <3>4, <3>5, PairedStays
  <2>3. QED BY <2>1, <2>2
<1>8. QED BY <1>6, <1>7 DEF PairInv

\* after_tool_call takes the call from the tables, whichever it finds there.
LEMMA PairAfter ==
  ASSUME WalkInv, PairInv, NEW n \in DOMAIN calls, NEW x \in Ctxs \cup {NoCtx}, AfterToolCall(n, x)
  PROVE  PairInv'
<1> DEFINE e == calls'[n]
           p == Pending(n, x)
<1>1. /\ Hooked(n, e) /\ calls[n].stage = "told" /\ x \in {calls[n].ctx, NoCtx}
      /\ e.stage = "done" /\ e.started = calls[n].started /\ e.carried = p /\ on' = on
  BY AfterEffect DEF Hooked
<1>2. /\ Identified /\ DOMAIN calls' = DOMAIN calls
      /\ e.id = calls[n].id /\ e.ctx = calls[n].ctx
      /\ \A m \in DOMAIN calls : m # n => calls'[m] = calls[m]
      /\ \A m \in DOMAIN calls : CallId(m)' = CallId(m)
  BY <1>1, PairHooked
<1>3. /\ active' = {a \in active : p = NoCall \/ a.id # CallId(p)}
      /\ byId' = [i \in Ids |-> IF i = calls[n].id THEN NoCall ELSE byId[i]]
      /\ byCtx' = [y \in Ctxs |-> IF y = x THEN NoCall ELSE byCtx[y]]
  BY DEF AfterToolCall
<1>4. /\ \A m \in DOMAIN calls : calls[m].id \in Ids \cup {NoId} /\ calls[m].ctx \in Ctxs \cup {NoCtx}
      /\ DOMAIN calls \subseteq Nat \ {NoCall}
  <2>1. \A m \in DOMAIN calls : calls[m] \in Calls
    BY DEF WalkInv, Typed
  <2>2. DOMAIN calls \subseteq Nat \ {NoCall}
    BY DEF WalkInv, Typed, NoCall
  <2>3. QED BY <2>1, <2>2 DEF Calls
<1> HIDE DEF e
<1>5. p \in {n, NoCall} \cup Twins(n)
  <2>1. CASE p = PendingById(n) /\ p # NoCall
    <3>1. calls[n].id \in Ids /\ p = byId[calls[n].id]
      BY <1>4, <2>1 DEF PendingById
    <3>2. p \in DOMAIN calls /\ calls[p].id = calls[n].id /\ calls[n].id # NoId
      BY <2>1, <3>1 DEF PairInv, Tables, PendingById
    <3>3. QED BY <3>2 DEF Twins
  <2>2. CASE p = PendingByCtx(x) /\ p # NoCall
    <3>1. x \in Ctxs /\ x # NoCtx /\ p = byCtx[x]
      BY <2>2 DEF PendingByCtx
    <3>2. p \in DOMAIN calls /\ calls[p].ctx = x /\ calls[n].ctx = x
      BY <1>1, <2>2, <3>1 DEF PairInv, Tables
    <3>3. QED BY <3>1, <3>2 DEF Twins
  <2>3. QED BY <2>1, <2>2 DEF Pending
<1>6. OwnId(n) => p = n
  <2>1. SUFFICES ASSUME OwnId(n) PROVE p = n
    OBVIOUS
  <2>2. byId[calls[n].id] = n /\ calls[n].id # NoId
    BY <1>1, <2>1 DEF PairInv, Paired, OwnId
  <2>3. PendingById(n) = n /\ n # NoCall
    BY <1>4, <2>2 DEF PendingById
  <2>4. QED BY <2>3 DEF Pending
<1> HIDE DEF p
<1>7. NoCall' = NoCall
  BY DEF NoCall
<1>8. Tables'
  <2>1. ASSUME NEW i \in Ids, byId'[i] # NoCall PROVE byId'[i] \in DOMAIN calls' /\ calls'[byId'[i]].id = i
    <3>1. byId'[i] = byId[i]
      BY <1>3, <2>1
    <3>2. byId[i] \in DOMAIN calls /\ calls[byId[i]].id = i
      BY <2>1, <3>1 DEF PairInv, Tables
    <3>3. QED BY <1>2, <3>1, <3>2 DEF Identified
  <2>2. ASSUME NEW y \in Ctxs, byCtx'[y] # NoCall PROVE byCtx'[y] \in DOMAIN calls' /\ calls'[byCtx'[y]].ctx = y
    <3>1. byCtx'[y] = byCtx[y]
      BY <1>3, <2>2
    <3>2. byCtx[y] \in DOMAIN calls /\ calls[byCtx[y]].ctx = y
      BY <2>2, <3>1 DEF PairInv, Tables
    <3>3. QED BY <1>2, <3>1, <3>2 DEF Identified
  <2>3. \A a \in active' : a.of \in DOMAIN calls' /\ a.id = CallId(a.of)'
    BY <1>2, <1>3 DEF PairInv, Tables
  <2>4. QED BY <1>7, <2>1, <2>2, <2>3 DEF Tables
<1>9. ASSUME NEW m \in DOMAIN calls' PROVE Paired(m)'
  <2>1. CASE m = n
    <3>1. Twins(n) \subseteq Twins(n)' /\ SameId(n) \subseteq SameId(n)'
      BY <1>2, TwinsGrow
    <3>2. OwnId(n)' => OwnId(n)
      BY <1>1, <1>2, <3>1 DEF OwnId, e
    <3>3. ASSUME OwnId(n)'
          PROVE  e.carried = n /\ (\A a \in active' : a.of # n) /\ \A i \in Ids : byId'[i] # n
      <4>1. p = n
        BY <1>6, <3>2, <3>3
      <4>2. \A a \in active' : a.of # n
        BY <1>3, <1>4, <4>1 DEF PairInv, Tables
      <4>3. ASSUME NEW i \in Ids, byId'[i] = n PROVE FALSE
        <5>1. byId[i] = n /\ i # calls[n].id
          BY <1>3, <1>4, <4>3
        <5>2. calls[n].id = i
          BY <1>4, <5>1 DEF PairInv, Tables
        <5>3. QED BY <5>1, <5>2
      <4>4. QED BY <1>1, <4>1, <4>2, <4>3
    <3>4. e.carried \in {n, NoCall} \cup Twins(n)'
      BY <1>1, <1>5, <3>1
    <3>5. QED BY <1>1, <1>7, <2>1, <3>3, <3>4 DEF Paired, e
  <2>2. CASE m # n
    <3>1. m \in DOMAIN calls /\ calls'[m] = calls[m] /\ Paired(m)
      BY <1>2, <2>2 DEF PairInv
    <3>2. n # m /\ calls[n].id = calls[m].id /\ calls[m].id # NoId => n \in SameId(m)
      BY DEF SameId, Twins
    <3>3. SameId(m) \subseteq SameId(m)'
      BY <1>2, <3>1, TwinsGrow
    <3>4. OwnId(m) => byId'[calls[m].id] = byId[calls[m].id]
      BY <1>3, <1>4, <2>2, <3>1, <3>2 DEF OwnId
    <3>5. \A a \in active' : a \in active
      BY <1>3
    <3>6. \A i \in Ids : byId'[i] = byId[i] \/ byId'[i] # m
      BY <1>3, <1>4, <3>1
    <3>7. QED BY <1>1, <1>2, <3>1, <3>4, <3>5, <3>6, PairedStays
  <2>3. QED BY <2>1, <2>2
<1>10. QED BY <1>8, <1>9 DEF PairInv

\* A step of no call's: the tables stay, or are cleared when the plugin is deactivated.
LEMMA PairElse ==
  ASSUME WalkInv, PairInv, UNCHANGED calls,
         \/ UNCHANGED <<on, byId, byCtx, active>>
         \/ /\ on' = FALSE /\ active' = {}
            /\ byId' = [i \in Ids |-> NoCall] /\ byCtx' = [y \in Ctxs |-> NoCall]
  PROVE  PairInv'
<1>1. Identified /\ NoCall' = NoCall
  BY DEF Identified, NoCall
<1>2. \A m \in DOMAIN calls : CallId(m)' = CallId(m)
  BY <1>1, TwinsGrow
<1>3. Tables'
  <2>1. CASE UNCHANGED <<on, byId, byCtx, active>>
    BY <1>1, <1>2, <2>1 DEF PairInv, Tables
  <2>2. CASE /\ on' = FALSE /\ active' = {}
             /\ byId' = [i \in Ids |-> NoCall] /\ byCtx' = [y \in Ctxs |-> NoCall]
    BY <1>1, <2>2 DEF Tables
  <2>3. QED BY <2>1, <2>2
<1>4. ASSUME NEW m \in DOMAIN calls' PROVE Paired(m)'
  <2>1. m \in DOMAIN calls /\ calls'[m] = calls[m] /\ Paired(m)
    BY DEF PairInv
  <2>2. CASE UNCHANGED <<on, byId, byCtx, active>>
    BY <1>1, <2>1, <2>2, PairedStays
  <2>3. CASE on' = FALSE
    BY <1>1, <2>1, <2>3, PairedStays
  <2>4. QED BY <2>2, <2>3
<1>5. QED BY <1>3, <1>4 DEF PairInv

\* Every step keeps the hooks paired.
LEMMA PairNext == WalkInv /\ PairInv /\ [Next]_vars => PairInv'
<1> SUFFICES ASSUME WalkInv, PairInv, [Next]_vars PROVE PairInv'
  OBVIOUS
<1>1. ASSUME NEW input \in config.calls, BeforeToolCall(input) PROVE PairInv'
  <2>1. PICK c, step : Comes(Len(calls) + 1, c, step) /\ Settled(Len(calls) + 1, step)
    BY <1>1, BeforeEffect
  <2>2. UNCHANGED <<on, byId, byCtx, active>>
    BY <1>1, BeforeEffect
  <2>3. PICK g : Moves(Len(calls) + 1, c, g, step)
    BY <2>1 DEF Comes
  <2>4. QED BY <2>1, <2>2, <2>3, PairMoves
<1>2. ASSUME NEW n \in DOMAIN calls, ActionAnswers(n) PROVE PairInv'
  <2>1. PICK c, step : Moves(n, c, guard, step) /\ Settled(n, step)
    BY <1>2, AnsweredEffect
  <2>2. UNCHANGED <<on, byId, byCtx, active>>
    BY <1>2, AnsweredEffect
  <2>3. QED BY <2>1, <2>2, PairMoves
<1>3. ASSUME NEW n \in DOMAIN calls, ToolCalled(n) PROVE PairInv'
  BY <1>3, PairCalled
<1>4. ASSUME NEW n \in DOMAIN calls, ToolNotCalled(n) PROVE PairInv'
  <2>1. /\ Hooked(n, calls'[n]) /\ calls'[n].stage = "told" /\ ~calls'[n].started
        /\ UNCHANGED <<on, byId, byCtx, active>>
    BY <1>4, ToldEffect DEF ToolNotCalled, Hooked
  <2>2. /\ Identified /\ DOMAIN calls' = DOMAIN calls
        /\ \A m \in DOMAIN calls : m # n => calls'[m] = calls[m]
        /\ \A m \in DOMAIN calls : CallId(m)' = CallId(m)
    BY <2>1, PairHooked
  <2>3. Tables'
    BY <2>1, <2>2 DEF PairInv, Tables, Identified, NoCall
  <2>4. ASSUME NEW m \in DOMAIN calls' PROVE Paired(m)'
    <3>1. CASE m = n
      BY <2>1, <3>1 DEF Paired, OwnId
    <3>2. CASE m # n
      BY <2>1, <2>2, <3>2, PairedStays DEF PairInv
    <3>3. QED BY <3>1, <3>2
  <2>5. QED BY <2>3, <2>4 DEF PairInv
<1>5. ASSUME NEW n \in DOMAIN calls, NEW x \in Ctxs \cup {NoCtx}, AfterToolCall(n, x) PROVE PairInv'
  BY <1>5, PairAfter
<1>6. ASSUME NEW x \in config.eventIds, EventRuleFires(x) PROVE PairInv'
  BY <1>6, PairElse DEF EventRuleFires
<1>7. CASE Deactivate
  BY <1>7, PairElse DEF Deactivate
<1>8. CASE Tick
  BY <1>8, PairElse DEF Tick
<1>9. CASE UNCHANGED vars
  BY <1>9, PairElse DEF vars
<1>10. QED
  BY <1>1, <1>2, <1>3, <1>4, <1>5, <1>6, <1>7, <1>8, <1>9 DEF Next

\* The second hook of a call finds the first one's: the event it sends carries the
\* correlation id of the call itself, or of one the call shares an identifier with, and
\* a call with an id of its own leaves nothing behind (tool-hooks.ts, pendingToolCalls
\* and pendingToolCallsByContext).
THEOREM HooksFindEachOther == Spec => []HooksPaired
<1>1. Init => PairInv
  BY DEF Init, PairInv, Tables, Paired
<1>2. PairInv => HooksPaired
  BY DEF PairInv, Paired, OwnId, HooksPaired
<1>3. QED
  BY <1>1, <1>2, WalkInvariance, PairNext, PTL DEF Spec

-----------------------------------------------------------------------------
(* What the guard remembers, and the decisions recorded so far *)

\* A call whose evaluation is over: what it decided does not change any more.
Over(m) == m \in DOMAIN calls /\ calls[m].stage # "asking"

\* Call m's evaluation began after p's decision was recorded.
Saw(m, p) == \E k \in DOMAIN calls[m].known : calls[m].known[k] = p

Blocks(i) == calls[recorded[i]].decision = "block"

\* A recorded block is over, or gave way to one that is older, or is remembered, itself
\* or one that is no older.
HoldsBack(g) ==
  \A i \in DOMAIN recorded : Blocks(i) =>
    LET b == calls[recorded[i]] IN
    \/ clock >= b.began + config.backoff
    \/ \E j \in DOMAIN recorded : /\ j > i /\ Blocks(j) /\ calls[recorded[j]].scope = b.scope
                                  /\ calls[recorded[j]].began < b.began
    \/ g.blocked[b.scope].at >= b.began

\* A cached approval is a recorded one, and no evaluation that began after it has
\* blocked its scope.
Approves(g, s, i) ==
  /\ recorded[i] = g.cache[s].by /\ calls[recorded[i]].scope = s /\ ~Blocks(i)
  /\ g.cache[s].until = calls[recorded[i]].began + config.ttl
  /\ \A j \in DOMAIN recorded : j > i /\ Blocks(j) /\ calls[recorded[j]].scope = s =>
       ~Saw(recorded[j], recorded[i])

Approvals(g) ==
  \A s \in Scopes : g.cache[s].until > clock => \E i \in DOMAIN recorded : Approves(g, s, i)

\* An evaluation that waits for its action did not find an approval to borrow.
Unapproved(g, known, s) ==
  (\E k \in DOMAIN known : known[k] = g.cache[s].by) => g.cache[s].until <= clock

Waiting(g) ==
  \A m \in DOMAIN calls : calls[m].stage = "asking" => Unapproved(g, calls[m].known, calls[m].scope)

Memorised(g) == HoldsBack(g) /\ Approvals(g) /\ Waiting(g)

\* BackoffHolds of one call, also while it waits.
HeldBack(n) ==
  \A i \in Known(n, "block") :
    /\ calls[n].src # "off" \/ calls[n].stage = "asking"
    /\ calls[n].began < calls[calls[n].known[i]].began + config.backoff
    => \/ calls[n].src = "backoff" /\ calls[n].stage # "asking"
       \/ \E j \in Known(n, "block") :
            j > i /\ calls[calls[n].known[j]].began < calls[calls[n].known[i]].began

\* ApprovalsFresh of one call.
Fresh(n) ==
  calls[n].src = "cache" =>
    \E i \in Known(n, "allow") :
      /\ calls[n].known[i] = calls[n].from
      /\ calls[n].began < calls[calls[n].from].began + config.ttl
      /\ \A j \in Known(n, "block") : j > i => ~After(n, j, i)

\* What a call knows of.
Past(n) ==
  /\ calls[n].began >= 1 /\ calls[n].began <= clock
  /\ \A k \in DOMAIN calls[n].known : Over(calls[n].known[k])
  /\ calls[n].stage = "asking" => calls[n].src = "off"

MemoryInv ==
  /\ \A i \in DOMAIN recorded : Over(recorded[i])
  /\ \A n \in DOMAIN calls : Past(n) /\ HeldBack(n) /\ Fresh(n)
  /\ Memorised(guard)

\* Calls keep what their evaluation began with and, when it is over, what it decided.
Lasts ==
  /\ DOMAIN calls \subseteq DOMAIN calls'
  /\ \A m \in DOMAIN calls :
       /\ calls'[m].scope = calls[m].scope /\ calls'[m].began = calls[m].began
       /\ calls'[m].known = calls[m].known
       /\ calls[m].stage # "asking" =>
            /\ calls'[m].stage # "asking" /\ calls'[m].decision = calls[m].decision
            /\ calls'[m].src = calls[m].src /\ calls'[m].from = calls[m].from

\* What is over stays over.
LEMMA LastsOver ==
  ASSUME Lasts, NEW m, Over(m)
  PROVE  /\ Over(m)' /\ m \in DOMAIN calls /\ m \in DOMAIN calls'
         /\ calls'[m].decision = calls[m].decision /\ calls'[m].scope = calls[m].scope
         /\ calls'[m].began = calls[m].began /\ calls'[m].known = calls[m].known
         /\ calls'[m].src = calls[m].src /\ calls'[m].from = calls[m].from
BY DEF Lasts, Over

\* What a call knows of, and what was decided there, stays as it is.
LEMMA KnownLasts ==
  ASSUME Lasts, NEW n \in DOMAIN calls, Past(n)
  PROVE  /\ \A d : Known(n, d)' = Known(n, d)
         /\ \A i, j \in DOMAIN calls[n].known : After(n, i, j)' <=> After(n, i, j)
         /\ \A k \in DOMAIN calls[n].known :
              calls'[calls[n].known[k]].began = calls[calls[n].known[k]].began
<1>1. calls'[n].known = calls[n].known /\ calls'[n].scope = calls[n].scope
  BY DEF Lasts
<1>2. \A k \in DOMAIN calls[n].known : Over(calls[n].known[k])
  BY DEF Past
<1>3. \A k \in DOMAIN calls[n].known :
        LET m == calls[n].known[k] IN
        /\ calls'[m].scope = calls[m].scope /\ calls'[m].decision = calls[m].decision
        /\ calls'[m].began = calls[m].began /\ calls'[m].known = calls[m].known
  BY <1>2, LastsOver
<1>4. \A d : Known(n, d)' = Known(n, d)
  BY <1>1, <1>3 DEF Known, RecordedAs
<1>5. \A i, j \in DOMAIN calls[n].known : After(n, i, j)' <=> After(n, i, j)
  BY <1>1, <1>3 DEF After
<1>6. QED BY <1>3, <1>4, <1>5

\* The judgement of a call stays, and holds when a waiting evaluation ends.
LEMMA HeldBackLasts ==
  ASSUME Lasts, NEW n \in DOMAIN calls, Past(n), HeldBack(n), config' = config
  PROVE  HeldBack(n)'
<1>1. /\ Known(n, "block")' = Known(n, "block")
      /\ \A k \in DOMAIN calls[n].known :
           calls'[calls[n].known[k]].began = calls[calls[n].known[k]].began
  BY KnownLasts
<1>2. calls'[n].known = calls[n].known /\ calls'[n].began = calls[n].began
  BY DEF Lasts
<1>3. Known(n, "block") \subseteq DOMAIN calls[n].known
  BY DEF Known
<1>4. /\ calls'[n].src # "off" \/ calls'[n].stage = "asking" => calls[n].src # "off" \/ calls[n].stage = "asking"
      /\ calls[n].src = "backoff" /\ calls[n].stage # "asking" => calls'[n].src = "backoff" /\ calls'[n].stage # "asking"
  BY DEF Lasts
<1>5. QED
  BY <1>1, <1>2, <1>3, <1>4 DEF HeldBack

\* So does what was borrowed.
LEMMA FreshLasts ==
  ASSUME Lasts, NEW n \in DOMAIN calls, Past(n), Fresh(n), config' = config,
         calls[n].stage = "asking" => calls'[n].src # "cache"
  PROVE  Fresh(n)'
<1>1. SUFFICES ASSUME calls'[n].src = "cache" PROVE Fresh(n)'
  BY DEF Fresh
<1>2. calls[n].src = "cache" /\ calls'[n].from = calls[n].from
  BY <1>1 DEF Lasts
<1>3. PICK i \in Known(n, "allow") :
        /\ calls[n].known[i] = calls[n].from
        /\ calls[n].began < calls[calls[n].from].began + config.ttl
        /\ \A j \in Known(n, "block") : j > i => ~After(n, j, i)
  BY <1>2 DEF Fresh
<1>4. /\ Known(n, "allow")' = Known(n, "allow") /\ Known(n, "block")' = Known(n, "block")
      /\ \A k, j \in DOMAIN calls[n].known : After(n, k, j)' <=> After(n, k, j)
      /\ \A k \in DOMAIN calls[n].known :
           calls'[calls[n].known[k]].began = calls[calls[n].known[k]].began
  BY KnownLasts
<1>5. Known(n, "allow") \subseteq DOMAIN calls[n].known /\ Known(n, "block") \subseteq DOMAIN calls[n].known
  BY DEF Known
<1>6. calls'[n].known = calls[n].known /\ calls'[n].began = calls[n].began
  BY DEF Lasts
<1>7. /\ i \in Known(n, "allow")' /\ calls'[n].known[i] = calls'[n].from
      /\ calls'[n].began < calls'[calls'[n].from].began + config'.ttl
  BY <1>2, <1>3, <1>4, <1>5, <1>6
<1>8. \A j \in Known(n, "block")' : j > i => ~After(n, j, i)'
  BY <1>3, <1>4, <1>5
<1>9. QED BY <1>7, <1>8 DEF Fresh

\* Memory that stays as it is stays true while calls come and go and time passes.
LEMMA MemorisedStays ==
  ASSUME Lasts, config' = config, recorded' = recorded, NEW g, NEW h, Memorised(g),
         h.blocked = g.blocked, h.cache = g.cache,
         clock \in Nat, clock' \in Nat, clock' >= clock, config.backoff \in Nat,
         g \in Memory(RuleIds), calls \in Seq(Calls), calls' \in Seq(Calls), recorded \in Seq(Nat),
         \A i \in DOMAIN recorded : Over(recorded[i]),
         \A m \in DOMAIN calls' : calls'[m].stage = "asking" =>
           \/ m \in DOMAIN calls /\ calls[m].stage = "asking"
           \/ Unapproved(g, calls'[m].known, calls'[m].scope)
  PROVE  Memorised(h)'
<1>0. \A s \in Scopes : g.cache[s].until \in Nat
  BY DEF Memory
<1>1. \A i \in DOMAIN recorded :
        LET m == recorded[i] IN
        /\ m \in DOMAIN calls /\ calls'[m].scope = calls[m].scope /\ calls'[m].decision = calls[m].decision
        /\ calls'[m].began = calls[m].began /\ calls'[m].known = calls[m].known
  BY LastsOver
<1>2. \A i \in DOMAIN recorded : Blocks(i)' <=> Blocks(i)
  BY <1>1 DEF Blocks
<1>3. HoldsBack(h)'
  <2>1. ASSUME NEW i \in DOMAIN recorded, Blocks(i)
        PROVE  LET b == calls[recorded[i]] IN
               \/ clock' >= b.began + config.backoff
               \/ \E j \in DOMAIN recorded : /\ j > i /\ Blocks(j) /\ calls[recorded[j]].scope = b.scope
                                             /\ calls[recorded[j]].began < b.began
               \/ h.blocked[b.scope].at >= b.began
    <3> DEFINE b == calls[recorded[i]]
               gave == \E j \in DOMAIN recorded : /\ j > i /\ Blocks(j) /\ calls[recorded[j]].scope = b.scope
                                                 /\ calls[recorded[j]].began < b.began
    <3>1. b \in Calls
      BY <1>1
    <3>2. b.began \in Nat
      BY <3>1 DEF Calls
    <3>3. clock >= b.began + config.backoff \/ gave \/ g.blocked[b.scope].at >= b.began
      BY <2>1 DEF Memorised, HoldsBack
    <3> HIDE DEF b, gave
    <3>4. clock >= b.began + config.backoff => clock' >= b.began + config.backoff
      BY <3>2
    <3>5. clock' >= b.began + config.backoff \/ gave \/ h.blocked[b.scope].at >= b.began
      BY <3>3, <3>4
    <3>6. QED BY <3>5 DEF b, gave
  <2>2. ASSUME NEW i \in DOMAIN recorded, Blocks(i)
        PROVE  LET b == calls'[recorded[i]] IN
               \/ clock' >= b.began + config.backoff
               \/ \E j \in DOMAIN recorded : /\ j > i /\ Blocks(j)' /\ calls'[recorded[j]].scope = b.scope
                                             /\ calls'[recorded[j]].began < b.began
               \/ h.blocked[b.scope].at >= b.began
    BY <1>1, <1>2, <2>1, <2>2
  <2>3. QED BY <1>2, <2>2 DEF HoldsBack
<1>4. Approvals(h)'
  <2>1. ASSUME NEW s \in Scopes, h.cache[s].until > clock'
        PROVE  \E i \in DOMAIN recorded' : Approves(h, s, i)'
    <3>1. g.cache[s].until > clock
      BY <1>0, <2>1
    <3>2. PICK i \in DOMAIN recorded : Approves(g, s, i)
      BY <3>1 DEF Memorised, Approvals
    <3>3. \A j \in DOMAIN recorded : Saw(recorded[j], recorded[i])' <=> Saw(recorded[j], recorded[i])
      BY <1>1 DEF Saw
    <3>4. Approves(h, s, i)'
      BY <1>1, <1>2, <3>2, <3>3 DEF Approves
    <3>5. QED BY <3>4
  <2>2. QED BY <2>1 DEF Approvals
<1>5. Waiting(h)'
  <2>1. ASSUME NEW m \in DOMAIN calls', calls'[m].stage = "asking"
        PROVE  Unapproved(h, calls[m].known, calls[m].scope)'
    <3>1. Unapproved(g, calls'[m].known, calls'[m].scope)
      <4>1. CASE m \in DOMAIN calls /\ calls[m].stage = "asking"
        BY <4>1 DEF Lasts, Memorised, Waiting
      <4>2. QED BY <2>1, <4>1
    <3>2. calls'[m] \in Calls
      OBVIOUS
    <3>3. g.cache[calls'[m].scope].until \in Nat
      BY <1>0, <3>2 DEF Calls
    <3>4. QED BY <3>1, <3>3 DEF Unapproved
  <2>2. QED BY <2>1 DEF Waiting
<1>6. QED BY <1>3, <1>4, <1>5 DEF Memorised

\* cleanupToolGuardState drops what is over.
LEMMA TidyDrops ==
  ASSUME Typed, NEW g \in Memory(RuleIds), NEW t, t = Tidy(g), NEW s \in Scopes
  PROVE  /\ t.cache[s] = g.cache[s] \/ (g.cache[s].until <= clock /\ t.cache[s].until <= clock)
         /\ \/ t.blocked[s] = g.blocked[s] /\ config.backoff > 0 /\ clock < g.blocked[s].at + config.backoff
            \/ config.backoff = 0 \/ clock >= g.blocked[s].at + config.backoff
<1>1. /\ t.cache[s] = IF g.cache[s].until <= clock THEN [until |-> Never, by |-> NoCall] ELSE g.cache[s]
      /\ t.blocked[s] = IF config.backoff = 0 \/ clock - g.blocked[s].at >= config.backoff
                        THEN [at |-> Never, by |-> NoCall] ELSE g.blocked[s]
  BY DEF Tidy, Memory
<1>2. /\ clock \in Nat /\ config.backoff \in Nat
      /\ g.cache[s].until \in Nat /\ g.blocked[s].at \in Nat
  BY ConfigFacts DEF Typed, Memory
<1>3. t.cache[s] = g.cache[s] \/ (g.cache[s].until <= clock /\ t.cache[s].until <= clock)
  <2>1. CASE g.cache[s].until <= clock
    <3>1. t.cache[s] = [until |-> 0, by |-> NoCall]
      BY <1>1, <2>1 DEF Never
    <3>2. t.cache[s].until = 0
      BY <3>1
    <3>3. QED BY <1>2, <2>1, <3>2
  <2>2. CASE ~(g.cache[s].until <= clock)
    <3>1. t.cache[s] = g.cache[s]
      BY <1>1, <2>2
    <3>2. QED BY <3>1
  <2>3. QED BY <2>1, <2>2
<1>4. \/ t.blocked[s] = g.blocked[s] /\ config.backoff > 0 /\ clock < g.blocked[s].at + config.backoff
      \/ config.backoff = 0 \/ clock >= g.blocked[s].at + config.backoff
  BY <1>1, <1>2
<1>5. QED BY <1>3, <1>4

\* A tidy memory holds what matters.
LEMMA MemorisedTidy ==
  ASSUME WalkInv, MemoryInv, NEW t, t = Tidy(guard)
  PROVE  Memorised(t)
<1>1. /\ Typed /\ guard \in Memory(RuleIds) /\ calls \in Seq(Calls) /\ clock \in Nat
      /\ config.backoff \in Nat
  BY ConfigFacts DEF WalkInv, Typed
<1>2. t \in Memory(RuleIds)
  BY <1>1, MemoryKept
<1>3. ASSUME NEW s \in Scopes
      PROVE  /\ t.cache[s] = guard.cache[s] \/ (guard.cache[s].until <= clock /\ t.cache[s].until <= clock)
             /\ \/ t.blocked[s] = guard.blocked[s]
                \/ config.backoff = 0 \/ clock >= guard.blocked[s].at + config.backoff
             /\ t.cache[s].until \in Nat /\ guard.cache[s].until \in Nat
             /\ t.blocked[s].at \in Nat /\ guard.blocked[s].at \in Nat
  BY <1>1, <1>2, TidyDrops DEF Memory
<1>4. HoldsBack(t)
  <2>1. SUFFICES ASSUME NEW i \in DOMAIN recorded, Blocks(i)
                 PROVE  LET b == calls[recorded[i]] IN
                        \/ clock >= b.began + config.backoff
                        \/ \E j \in DOMAIN recorded : /\ j > i /\ Blocks(j) /\ calls[recorded[j]].scope = b.scope
                                                      /\ calls[recorded[j]].began < b.began
                        \/ t.blocked[b.scope].at >= b.began
    BY DEF HoldsBack
  <2> DEFINE b == calls[recorded[i]]
             gave == \E j \in DOMAIN recorded : /\ j > i /\ Blocks(j) /\ calls[recorded[j]].scope = b.scope
                                               /\ calls[recorded[j]].began < b.began
  <2>2. recorded[i] \in DOMAIN calls
    BY DEF MemoryInv, Over
  <2>3. b \in Calls /\ b.began <= clock
    BY <1>1, <2>2 DEF MemoryInv, Past
  <2>4. b.began \in Nat /\ b.scope \in Scopes
    BY <2>3 DEF Calls
  <2>5. clock >= b.began + config.backoff \/ gave \/ guard.blocked[b.scope].at >= b.began
    BY <2>1 DEF MemoryInv, Memorised, HoldsBack
  <2> HIDE DEF b, gave
  <2>6. guard.blocked[b.scope].at >= b.began =>
          t.blocked[b.scope].at >= b.began \/ clock >= b.began + config.backoff
    BY <1>1, <1>3, <2>3, <2>4
  <2>7. clock >= b.began + config.backoff \/ gave \/ t.blocked[b.scope].at >= b.began
    BY <2>5, <2>6
  <2>8. QED BY <2>7 DEF b, gave
<1>5. Approvals(t)
  <2>1. SUFFICES ASSUME NEW s \in Scopes, t.cache[s].until > clock
                 PROVE  \E i \in DOMAIN recorded : Approves(t, s, i)
    BY DEF Approvals
  <2>2. t.cache[s] = guard.cache[s]
    BY <1>1, <1>3, <2>1
  <2>3. PICK i \in DOMAIN recorded : Approves(guard, s, i)
    BY <2>1, <2>2 DEF MemoryInv, Memorised, Approvals
  <2>4. QED BY <2>2, <2>3 DEF Approves
<1>6. Waiting(t)
  <2>1. SUFFICES ASSUME NEW m \in DOMAIN calls, calls[m].stage = "asking"
                 PROVE  Unapproved(t, calls[m].known, calls[m].scope)
    BY DEF Waiting
  <2>2. calls[m] \in Calls
    BY <1>1
  <2>3. calls[m].scope \in Scopes
    BY <2>2 DEF Calls
  <2>4. Unapproved(guard, calls[m].known, calls[m].scope)
    BY <2>1 DEF MemoryInv, Memorised, Waiting
  <2>5. CASE t.cache[calls[m].scope] = guard.cache[calls[m].scope]
    BY <2>4, <2>5 DEF Unapproved
  <2>6. CASE t.cache[calls[m].scope].until <= clock
    BY <2>6 DEF Unapproved
  <2>7. QED BY <1>3, <2>3, <2>5, <2>6
<1>7. QED BY <1>4, <1>5, <1>6 DEF Memorised

\* What one more element changes.
LEMMA RecordedGrows ==
  ASSUME NEW r \in Seq(Nat), NEW n \in Nat, NEW q, q = Append(r, n), NEW l, l = Len(r) + 1
  PROVE  /\ DOMAIN q = DOMAIN r \cup {l} /\ q[l] = n /\ l \notin DOMAIN r /\ l \in Nat
         /\ \A i \in DOMAIN r : q[i] = r[i] /\ i < l /\ i \in Nat
<1>1. Len(r) \in Nat /\ DOMAIN r = 1..Len(r) /\ DOMAIN q = 1..(Len(r) + 1)
  OBVIOUS
<1>2. \A i \in DOMAIN r : i \in Nat /\ i < l
  BY <1>1
<1>3. q[l] = n /\ \A i \in DOMAIN r : q[i] = r[i]
  OBVIOUS
<1>4. l \notin DOMAIN r /\ l \in Nat /\ DOMAIN q = DOMAIN r \cup {l}
  BY <1>1
<1>5. QED BY <1>2, <1>3, <1>4

\* The judgement that call n's evaluation records, and that it did not borrow one.
Judges(n, c, g, step) ==
  /\ Step(step, c) /\ Recalls(step, g, n, c) /\ step.records
  /\ Unapproved(g, c.known, c.scope) /\ ~Over(n)

\* Recorded, a judgement is remembered.
LEMMA MemorisedJudges ==
  ASSUME WalkInv, MemoryInv, WalkInv', Lasts, UNCHANGED <<config, clock>>,
         NEW n \in Nat, NEW c \in Calls, NEW g \in Memory(RuleIds), NEW step,
         Memorised(g), Judges(n, c, g, step), Settled(n, step), c.began <= clock
  PROVE  Memorised(step.guard)'
<1> DEFINE e == step.call
           h == step.guard
           s == c.scope
<1>0. PICK l : l = Len(recorded) + 1
  OBVIOUS
<1>1. /\ e \in Calls /\ h \in Memory(RuleIds) /\ e.stage \in {"asking", "decided"}
      /\ e.scope = s /\ e.began = c.began /\ e.known = c.known
      /\ s \in Scopes /\ c.began \in Nat
  BY DEF Judges, Step, Keeps, Calls
<1>2. /\ e.stage = "decided"
      /\ h.blocked = IF e.decision = "block"
                     THEN [g.blocked EXCEPT ![s] = [at |-> c.began, by |-> n]] ELSE g.blocked
      /\ h.cache = IF e.decision = "block" \/ config.ttl = 0 THEN g.cache
                   ELSE [g.cache EXCEPT ![s] = [until |-> c.began + config.ttl, by |-> n]]
  BY DEF Judges, Recalls
<1>3. /\ DOMAIN calls' = DOMAIN calls \cup {n} /\ calls'[n] = e
      /\ \A m \in DOMAIN calls : m # n => calls'[m] = calls[m]
      /\ recorded' = Append(recorded, n)
  BY DEF Settled, Sets, Judges
<1>4. /\ recorded \in Seq(Nat) /\ clock \in Nat /\ calls \in Seq(Calls)
      /\ config.backoff \in Nat /\ config.ttl \in Nat
  BY ConfigFacts DEF WalkInv, Typed
<1>5. /\ DOMAIN recorded' = DOMAIN recorded \cup {l} /\ recorded'[l] = n /\ l \notin DOMAIN recorded
      /\ \A i \in DOMAIN recorded : recorded'[i] = recorded[i] /\ i < l
      /\ DOMAIN recorded \subseteq Nat /\ l \in Nat
  BY <1>0, <1>3, <1>4, RecordedGrows
<1>6. ~Over(n) /\ Unapproved(g, c.known, s)
  BY DEF Judges
<1>7. \A i \in DOMAIN recorded :
        LET m == recorded[i] IN
        /\ m # n /\ m \in DOMAIN calls /\ calls'[m] = calls[m]
        /\ calls[m].began \in Nat /\ calls[m].scope \in Scopes
  <2>1. \A i \in DOMAIN recorded : Over(recorded[i])
    BY DEF MemoryInv
  <2>2. \A i \in DOMAIN recorded : recorded[i] # n /\ recorded[i] \in DOMAIN calls
    BY <1>6, <2>1 DEF Over
  <2>3. \A i \in DOMAIN recorded : calls[recorded[i]] \in Calls
    BY <1>4, <2>2
  <2>4. \A i \in DOMAIN recorded : calls[recorded[i]].began \in Nat /\ calls[recorded[i]].scope \in Scopes
    BY <2>3 DEF Calls
  <2>5. QED BY <1>3, <2>2, <2>4
<1>8. /\ \A i \in DOMAIN recorded : Blocks(i)' <=> Blocks(i)
      /\ Blocks(l)' <=> e.decision = "block"
  BY <1>3, <1>5, <1>7 DEF Blocks
<1>9. /\ \A z \in Scopes : g.blocked[z].at \in Nat /\ g.cache[z].until \in Nat
      /\ \A z \in Scopes : z # s => h.blocked[z] = g.blocked[z] /\ h.cache[z] = g.cache[z]
      /\ e.decision = "block" => h.blocked[s].at = c.began /\ h.cache = g.cache
      /\ e.decision # "block" => h.blocked = g.blocked
      /\ e.decision # "block" /\ config.ttl # 0 =>
           h.cache[s].until = c.began + config.ttl /\ h.cache[s].by = n
      /\ e.decision # "block" /\ config.ttl = 0 => h.cache = g.cache
  BY <1>1, <1>2 DEF Memory
<1> HIDE DEF e, h, s
\* The blocks.
<1>10. HoldsBack(h)'
  <2>1. SUFFICES ASSUME NEW i \in DOMAIN recorded', Blocks(i)'
                 PROVE  LET b == calls'[recorded'[i]] IN
                        \/ clock >= b.began + config.backoff
                        \/ \E j \in DOMAIN recorded' : /\ j > i /\ Blocks(j)'
                                                       /\ calls'[recorded'[j]].scope = b.scope
                                                       /\ calls'[recorded'[j]].began < b.began
                        \/ h.blocked[b.scope].at >= b.began
    BY DEF HoldsBack
  <2>2. CASE i = l
    <3>1. calls'[recorded'[i]] = e /\ e.decision = "block"
      BY <1>3, <1>5, <1>8, <2>1, <2>2
    <3>2. h.blocked[e.scope].at >= e.began
      BY <1>1, <1>9, <3>1
    <3>3. QED BY <3>1, <3>2
  <2>3. CASE i # l
    <3> DEFINE b == calls[recorded[i]]
    <3>1. /\ i \in DOMAIN recorded /\ recorded'[i] = recorded[i] /\ i < l
          /\ calls'[recorded'[i]] = b /\ b.began \in Nat /\ b.scope \in Scopes
      BY <1>5, <1>7, <2>3
    <3>2. Blocks(i)
      BY <1>8, <2>1, <3>1
    <3>3. \/ clock >= b.began + config.backoff
          \/ \E j \in DOMAIN recorded : /\ j > i /\ Blocks(j) /\ calls[recorded[j]].scope = b.scope
                                        /\ calls[recorded[j]].began < b.began
          \/ g.blocked[b.scope].at >= b.began
      BY <3>1, <3>2 DEF Memorised, HoldsBack
    <3>4. CASE clock >= b.began + config.backoff
      BY <3>1, <3>4
    <3>5. CASE \E j \in DOMAIN recorded : /\ j > i /\ Blocks(j) /\ calls[recorded[j]].scope = b.scope
                                          /\ calls[recorded[j]].began < b.began
      <4>1. PICK j \in DOMAIN recorded : /\ j > i /\ Blocks(j) /\ calls[recorded[j]].scope = b.scope
                                         /\ calls[recorded[j]].began < b.began
        BY <3>5
      <4>2. /\ j \in DOMAIN recorded' /\ Blocks(j)' /\ calls'[recorded'[j]] = calls[recorded[j]]
        BY <1>5, <1>7, <1>8, <4>1
      <4>3. QED BY <3>1, <4>1, <4>2
    <3>6. CASE g.blocked[b.scope].at >= b.began
      <4>1. CASE h.blocked[b.scope].at >= b.began
        BY <3>1, <4>1
      <4>2. CASE ~(h.blocked[b.scope].at >= b.began)
        <5>1. b.scope = s /\ e.decision = "block" /\ h.blocked[s].at = c.began
          BY <1>9, <3>1, <3>6, <4>2
        <5>2. c.began < b.began
          BY <1>1, <3>1, <4>2, <5>1
        <5>3. l \in DOMAIN recorded' /\ l > i /\ Blocks(l)' /\ calls'[recorded'[l]] = e
          BY <1>3, <1>5, <1>8, <3>1, <5>1
        <5>4. e.scope = b.scope /\ e.began < b.began
          BY <1>1, <5>1, <5>2
        <5>5. QED BY <3>1, <5>3, <5>4
      <4>3. QED BY <4>1, <4>2
    <3>7. QED BY <3>3, <3>4, <3>5, <3>6
  <2>4. QED BY <2>2, <2>3
\* The approvals.
<1>11. Approvals(h)'
  <2>1. SUFFICES ASSUME NEW z \in Scopes, h.cache[z].until > clock
                 PROVE  \E i \in DOMAIN recorded' : Approves(h, z, i)'
    BY DEF Approvals
  <2>2. CASE z = s /\ e.decision # "block" /\ config.ttl # 0
    <3>1. recorded'[l] = h.cache[z].by /\ calls'[recorded'[l]].scope = z /\ ~Blocks(l)'
      BY <1>1, <1>3, <1>5, <1>8, <1>9, <2>2
    <3>2. h.cache[z].until = calls'[recorded'[l]].began + config'.ttl
      BY <1>1, <1>3, <1>5, <1>9, <2>2
    <3>3. \A j \in DOMAIN recorded' : ~(j > l)
      BY <1>5
    <3>4. Approves(h, z, l)'
      BY <3>1, <3>2, <3>3 DEF Approves
    <3>5. QED BY <1>5, <3>4
  <2>3. CASE ~(z = s /\ e.decision # "block" /\ config.ttl # 0)
    <3>1. h.cache[z] = g.cache[z]
      BY <1>9, <2>3
    <3>2. PICK i \in DOMAIN recorded : Approves(g, z, i)
      BY <2>1, <3>1 DEF Memorised, Approvals
    <3>3. /\ i \in DOMAIN recorded' /\ recorded'[i] = recorded[i] /\ recorded[i] = g.cache[z].by
          /\ calls'[recorded[i]] = calls[recorded[i]]
          /\ calls[recorded[i]].scope = z /\ ~Blocks(i)'
          /\ g.cache[z].until = calls[recorded[i]].began + config.ttl
      BY <1>5, <1>7, <1>8, <3>2 DEF Approves
    <3>4. ASSUME NEW j \in DOMAIN recorded', j > i, Blocks(j)', calls'[recorded'[j]].scope = z
          PROVE  ~Saw(recorded[j], recorded[i])'
      <4>1. CASE j = l
        <5>1. s = z
          BY <1>1, <1>3, <1>5, <3>4, <4>1
        <5>2. ~(\E k \in DOMAIN c.known : c.known[k] = recorded[i])
          BY <1>6, <1>9, <2>1, <1>4, <3>1, <3>3, <5>1 DEF Unapproved
        <5>3. calls'[recorded'[j]].known = c.known
          BY <1>1, <1>3, <1>5, <4>1
        <5>4. QED BY <3>3, <5>2, <5>3 DEF Saw
      <4>2. CASE j # l
        <5>1. j \in DOMAIN recorded /\ Blocks(j) /\ calls[recorded[j]].scope = z
          BY <1>5, <1>7, <1>8, <3>4, <4>2
        <5>2. ~Saw(recorded[j], recorded[i])
          BY <3>2, <3>4, <5>1 DEF Approves
        <5>3. calls'[recorded'[j]].known = calls[recorded[j]].known
          BY <1>5, <1>7, <5>1
        <5>4. QED BY <3>3, <5>2, <5>3 DEF Saw
      <4>3. QED BY <4>1, <4>2
    <3>5. Approves(h, z, i)'
      BY <3>1, <3>3, <3>4 DEF Approves
    <3>6. QED BY <3>3, <3>5
  <2>4. QED BY <2>2, <2>3
\* Those who wait.
<1>12. Waiting(h)'
  <2>1. SUFFICES ASSUME NEW m \in DOMAIN calls', calls'[m].stage = "asking"
                 PROVE  Unapproved(h, calls[m].known, calls[m].scope)'
    BY DEF Waiting
  <2>2. m # n /\ m \in DOMAIN calls /\ calls'[m] = calls[m] /\ calls[m].stage = "asking"
    BY <1>2, <1>3, <2>1 DEF e
  <2>3. Unapproved(g, calls[m].known, calls[m].scope)
    BY <2>2 DEF Memorised, Waiting
  <2>4. calls[m] \in Calls
    BY <1>4, <2>2
  <2>5. calls[m].scope \in Scopes
    BY <2>4 DEF Calls
  <2>6. CASE h.cache[calls[m].scope] = g.cache[calls[m].scope]
    BY <2>2, <2>3, <2>6 DEF Unapproved
  <2>7. CASE h.cache[calls[m].scope] # g.cache[calls[m].scope]
    <3>1. h.cache[calls[m].scope].by = n
      BY <1>9, <2>5, <2>7
    <3>2. \A k \in DOMAIN calls[m].known : calls[m].known[k] # n
      BY <1>6, <2>2 DEF MemoryInv, Past
    <3>3. QED BY <2>2, <3>1, <3>2 DEF Unapproved
  <2>8. QED BY <2>6, <2>7
<1>13. QED BY <1>10, <1>11, <1>12 DEF Memorised, h

\* What a call knows of stays decided.
LEMMA PastLasts ==
  ASSUME Lasts, NEW n \in DOMAIN calls, Past(n), clock \in Nat, clock' \in Nat, clock' >= clock,
         calls[n].began \in Nat, calls'[n].stage = "asking" => calls'[n].src = "off"
  PROVE  Past(n)'
<1>1. calls'[n].began = calls[n].began /\ calls'[n].known = calls[n].known
  BY DEF Lasts
<1>2. \A k \in DOMAIN calls[n].known : Over(calls[n].known[k])
  BY DEF Past
<1>3. ASSUME NEW k \in DOMAIN calls'[n].known PROVE Over(calls[n].known[k])'
  <2>1. PICK m : m = calls[n].known[k]
    OBVIOUS
  <2>2. Over(m)'
    BY <1>1, <1>2, <2>1, LastsOver
  <2>3. calls'[n].known[k] = m
    BY <1>1, <2>1
  <2>4. QED BY <2>2, <2>3 DEF Over
<1>4. calls'[n].began >= 1 /\ calls'[n].began <= clock'
  BY <1>1 DEF Past
<1>5. QED BY <1>3, <1>4 DEF Past

\* A step keeps the invariant when it does for the call that takes it, and for what the
\* guard remembers.
LEMMA MemoryKeeps ==
  ASSUME WalkInv, MemoryInv, Lasts, config' = config, clock' \in Nat, clock' >= clock, NEW n,
         \/ recorded' = recorded
         \/ recorded' = Append(recorded, n) /\ Over(n)' /\ n \in Nat,
         DOMAIN calls' \subseteq DOMAIN calls \cup {n},
         \A m \in DOMAIN calls : m # n => calls'[m] = calls[m],
         n \in DOMAIN calls' => Past(n)' /\ HeldBack(n)' /\ Fresh(n)',
         Memorised(guard)'
  PROVE  MemoryInv'
<1>0. recorded \in Seq(Nat) /\ clock \in Nat /\ \A m \in DOMAIN calls : calls[m].began \in Nat
  <2>1. \A m \in DOMAIN calls : calls[m] \in Calls
    BY DEF WalkInv, Typed
  <2>2. QED BY <2>1 DEF WalkInv, Typed, Calls
<1>1. ASSUME NEW i \in DOMAIN recorded' PROVE Over(recorded[i])'
  <2>1. PICK m : m = recorded'[i]
    OBVIOUS
  <2>2. \A k \in DOMAIN recorded : Over(recorded[k])
    BY DEF MemoryInv
  <2>3. Over(m)'
    <3>1. CASE recorded' = recorded
      BY <2>1, <2>2, <3>1, LastsOver
    <3>2. CASE recorded' = Append(recorded, n) /\ Over(n)' /\ n \in Nat
      <4>1. m = n \/ \E k \in DOMAIN recorded : m = recorded[k]
        BY <1>0, <2>1, <3>2, RecordedGrows
      <4>2. QED BY <2>2, <3>2, <4>1, LastsOver
    <3>3. QED BY <3>1, <3>2
  <2>4. QED BY <2>1, <2>3 DEF Over
<1>2. ASSUME NEW m \in DOMAIN calls', m # n PROVE Past(m)' /\ HeldBack(m)' /\ Fresh(m)'
  <2>1. m \in DOMAIN calls /\ calls'[m] = calls[m] /\ Past(m) /\ HeldBack(m) /\ Fresh(m)
    BY <1>2 DEF MemoryInv
  <2>2. calls[m].stage = "asking" => calls[m].src = "off"
    BY <2>1 DEF Past
  <2>3. Past(m)'
    BY <1>0, <2>1, <2>2, PastLasts
  <2>4. HeldBack(m)'
    BY <2>1, HeldBackLasts
  <2>5. Fresh(m)'
    BY <2>1, <2>2, FreshLasts
  <2>6. QED BY <2>3, <2>4, <2>5
<1>3. QED BY <1>1, <1>2 DEF MemoryInv

\* What an evaluation's step leaves of the calls.
Lasting(n, c, step) ==
  /\ Lasts /\ DOMAIN calls' = DOMAIN calls \cup {n} /\ calls'[n] = step.call
  /\ \A m \in DOMAIN calls : m # n => calls'[m] = calls[m]
  /\ step.call.scope = c.scope /\ step.call.began = c.began /\ step.call.known = c.known
  /\ ~Over(n)

\* Calls last through it.
LEMMA MovesLast ==
  ASSUME NEW n, NEW c, NEW g, NEW step, Moves(n, c, g, step), Settled(n, step)
  PROVE  Lasting(n, c, step)
<1>1. /\ DOMAIN calls' = DOMAIN calls \cup {n} /\ calls'[n] = step.call
      /\ \A m \in DOMAIN calls : m # n => calls'[m] = calls[m]
  BY DEF Settled, Sets
<1>2. step.call.scope = c.scope /\ step.call.began = c.began /\ step.call.known = c.known
  BY DEF Moves, Advances, Step, Keeps
<1>3. n \in DOMAIN calls => /\ calls[n].scope = c.scope /\ calls[n].began = c.began
                            /\ calls[n].known = c.known /\ calls[n].stage = "asking"
  BY DEF Moves
<1>4. Lasts
  BY <1>1, <1>2, <1>3 DEF Lasts
<1>5. ~Over(n)
  BY <1>3 DEF Over
<1>6. QED BY <1>1, <1>2, <1>4, <1>5 DEF Lasting

\* What step makes of the memory: it records a judgement, or leaves it alone.
LEMMA MemoryMoves ==
  ASSUME WalkInv, MemoryInv, WalkInv', UNCHANGED <<config, clock>>,
         NEW n \in Nat, NEW c, NEW g \in Memory(RuleIds), NEW step,
         Moves(n, c, g, step), Settled(n, step), Memorised(g), c.began <= clock,
         \/ ~step.records /\ step.guard = g /\ step.call.stage # "asking"
         \/ Recalls(step, g, n, c) /\ Unapproved(g, c.known, c.scope)
  PROVE  /\ Memorised(guard)'
         /\ \/ recorded' = recorded
            \/ recorded' = Append(recorded, n) /\ Over(n)'
<1>1. /\ Lasts /\ DOMAIN calls' = DOMAIN calls \cup {n} /\ calls'[n] = step.call
      /\ \A m \in DOMAIN calls : m # n => calls'[m] = calls[m]
      /\ step.call.scope = c.scope /\ step.call.began = c.began /\ step.call.known = c.known
      /\ ~Over(n)
  <2>1. Lasting(n, c, step)
    BY MovesLast
  <2>2. QED BY <2>1 DEF Lasting
<1>2. /\ guard' = step.guard /\ recorded' = IF step.records THEN Append(recorded, n) ELSE recorded
  BY DEF Settled
<1>3. /\ calls \in Seq(Calls) /\ calls' \in Seq(Calls) /\ recorded \in Seq(Nat)
      /\ clock \in Nat /\ clock' \in Nat /\ clock' >= clock /\ config.backoff \in Nat
  BY ConfigFacts DEF WalkInv, Typed
<1>4. \A i \in DOMAIN recorded : Over(recorded[i])
  BY DEF MemoryInv
<1>5. Step(step, c) /\ c \in Calls
  BY DEF Moves, Advances
<1>6. CASE step.records
  <2>1. Recalls(step, g, n, c) /\ Unapproved(g, c.known, c.scope)
    BY <1>6
  <2>2. Judges(n, c, g, step)
    BY <1>1, <1>5, <1>6, <2>1 DEF Judges
  <2>3. Memorised(step.guard)'
    BY <1>1, <1>5, <2>2, MemorisedJudges
  <2>4. step.call.stage # "asking"
    BY <1>6, <2>1 DEF Recalls
  <2>5. Over(n)'
    BY <1>1, <2>4 DEF Over
  <2>6. Memorised(guard)'
    BY <1>2, <2>3, ZenonT(30) DEF Memorised, HoldsBack, Approvals, Approves, Waiting, Unapproved
  <2>7. QED BY <1>2, <1>6, <2>5, <2>6
<1>7. CASE ~step.records
  <2>1. step.guard.blocked = g.blocked /\ step.guard.cache = g.cache
    BY <1>7 DEF Recalls
  <2>2. \A m \in DOMAIN calls' : calls'[m].stage = "asking" =>
          \/ m \in DOMAIN calls /\ calls[m].stage = "asking"
          \/ Unapproved(g, calls'[m].known, calls'[m].scope)
    BY <1>1, <1>7
  <2>3. Memorised(step.guard)'
    BY <1>1, <1>2, <1>3, <1>4, <1>7, <2>1, <2>2, MemorisedStays
  <2>4. Memorised(guard)'
    BY <1>2, <2>3, ZenonT(30) DEF Memorised, HoldsBack, Approvals, Approves, Waiting, Unapproved
  <2>5. QED BY <1>2, <1>7, <2>4
<1>8. step.records \in BOOLEAN
  BY <1>5 DEF Step
<1>9. QED BY <1>6, <1>7, <1>8

\* An awaited action's answer keeps what is remembered.
LEMMA MemoryAnswered ==
  ASSUME WalkInv, MemoryInv, WalkInv', NEW n \in DOMAIN calls, ActionAnswers(n)
  PROVE  MemoryInv'
<1>1. PICK c, step : /\ Moves(n, c, guard, step) /\ Evaluates(step, guard, n, c)
                     /\ Settled(n, step) /\ n \in Nat
  BY AnsweredEffect
<1>2. UNCHANGED <<config, clock>>
  BY AnsweredEffect
<1>3. /\ Lasts /\ DOMAIN calls' = DOMAIN calls \cup {n} /\ calls'[n] = step.call
      /\ \A m \in DOMAIN calls : m # n => calls'[m] = calls[m]
  <2>1. Lasting(n, c, step)
    BY <1>1, MovesLast
  <2>2. QED BY <2>1 DEF Lasting
<1>4. /\ calls[n].stage = "asking" /\ calls[n].scope = c.scope /\ calls[n].known = c.known
      /\ calls[n].began = c.began /\ calls[n].src = c.src
  BY <1>1 DEF Moves
<1>5. Past(n) /\ HeldBack(n) /\ Fresh(n) /\ Memorised(guard)
  BY DEF MemoryInv
<1>6. Unapproved(guard, c.known, c.scope) /\ c.began <= clock /\ c.src = "off"
  BY <1>4, <1>5 DEF Memorised, Waiting, Past
<1>7. Recalls(step, guard, n, c) /\ step.records \in BOOLEAN /\ step.call.stage \in {"asking", "decided"}
  BY <1>1 DEF Evaluates, Step
<1>8. step.call.src # "cache" /\ (step.call.stage = "asking" => step.call.src = "off")
  BY <1>6, <1>7 DEF Recalls
<1>9. /\ guard \in Memory(RuleIds) /\ clock \in Nat /\ clock' \in Nat /\ clock' >= clock
      /\ calls[n].began \in Nat
  <2>1. calls[n] \in Calls
    BY DEF WalkInv, Typed
  <2>2. QED BY <1>2, <2>1 DEF WalkInv, Typed, Calls
<1>10. /\ Memorised(guard)'
       /\ \/ recorded' = recorded
          \/ recorded' = Append(recorded, n) /\ Over(n)'
  BY <1>1, <1>2, <1>5, <1>6, <1>7, <1>9, MemoryMoves
<1>11. Past(n)' /\ HeldBack(n)' /\ Fresh(n)'
  <2>1. Past(n)'
    BY <1>3, <1>5, <1>8, <1>9, PastLasts
  <2>2. HeldBack(n)'
    BY <1>2, <1>3, <1>5, HeldBackLasts
  <2>3. Fresh(n)'
    BY <1>2, <1>3, <1>5, <1>8, FreshLasts
  <2>4. QED BY <2>1, <2>2, <2>3
<1>12. QED
  BY <1>1, <1>2, <1>3, <1>9, <1>10, <1>11, MemoryKeeps

\* What a new call knows of is what is recorded.
LEMMA KnownOfNew ==
  ASSUME Lasts, \A i \in DOMAIN recorded : Over(recorded[i]), NEW n, NEW e, e = calls'[n],
         e.known = recorded
  PROVE  /\ Known(n, "block")' = {i \in DOMAIN recorded : calls[recorded[i]].scope = e.scope /\ Blocks(i)}
         /\ Known(n, "allow")' = {i \in DOMAIN recorded : calls[recorded[i]].scope = e.scope /\ ~Blocks(i)}
         /\ \A i \in DOMAIN recorded : calls'[recorded[i]].began = calls[recorded[i]].began
         /\ \A i, j \in DOMAIN recorded : After(n, j, i)' <=> Saw(recorded[j], recorded[i])
<1>1. \A i \in DOMAIN recorded :
        LET m == recorded[i] IN
        /\ calls'[m].scope = calls[m].scope /\ calls'[m].decision = calls[m].decision
        /\ calls'[m].began = calls[m].began /\ calls'[m].known = calls[m].known
  BY LastsOver
<1>2. Known(n, "block")' = {i \in DOMAIN recorded : calls[recorded[i]].scope = e.scope /\ Blocks(i)}
  BY <1>1 DEF Known, RecordedAs, Blocks
<1>3. Known(n, "allow")' = {i \in DOMAIN recorded : calls[recorded[i]].scope = e.scope /\ ~Blocks(i)}
  BY <1>1 DEF Known, RecordedAs, Blocks
<1>4. \A i, j \in DOMAIN recorded : After(n, j, i)' <=> Saw(recorded[j], recorded[i])
  BY <1>1 DEF After, Saw
<1>5. QED BY <1>1, <1>2, <1>3, <1>4

\* A new call is held off as long as a block asks for it.
LEMMA NewHeldBack ==
  ASSUME WalkInv, MemoryInv, Lasts, config' = config, NEW n, NEW c \in Calls,
         NEW g \in Memory(RuleIds), Memorised(g), c.began = clock,
         NEW e, e = calls'[n], e.known = recorded, e.scope = c.scope, e.began = clock,
         \/ e.src = "off" /\ e.stage # "asking"
         \/ HeldOff(g, c) /\ e.src = "backoff" /\ e.stage # "asking"
         \/ ~HeldOff(g, c)
  PROVE  HeldBack(n)'
<1>1. /\ Known(n, "block")' = {i \in DOMAIN recorded : calls[recorded[i]].scope = e.scope /\ Blocks(i)}
      /\ \A i \in DOMAIN recorded : calls'[recorded[i]].began = calls[recorded[i]].began
  BY KnownOfNew DEF MemoryInv
<1>2. SUFFICES ASSUME ~HeldOff(g, c) PROVE HeldBack(n)'
  BY DEF HeldBack
<1>3. c.scope \in Scopes /\ config.backoff \in Nat /\ clock \in Nat /\ g.blocked[c.scope].at \in Nat
  BY ConfigFacts DEF WalkInv, Typed, Calls, Memory
<1>4. ASSUME NEW i \in Known(n, "block")', clock < calls[recorded[i]].began + config.backoff
      PROVE  \E j \in Known(n, "block")' : j > i /\ calls[recorded[j]].began < calls[recorded[i]].began
  <2> DEFINE b == calls[recorded[i]]
  <2>1. i \in DOMAIN recorded /\ b.scope = c.scope /\ Blocks(i)
    BY <1>1, <1>4
  <2>2. recorded[i] \in DOMAIN calls /\ b.began >= 1 /\ b.began <= clock
    BY <2>1 DEF MemoryInv, Past, Over
  <2>3. b \in Calls
    BY <2>2 DEF WalkInv, Typed
  <2>4. b.began \in Nat
    BY <2>3 DEF Calls
  <2>5. \/ clock >= b.began + config.backoff
        \/ \E j \in DOMAIN recorded : /\ j > i /\ Blocks(j) /\ calls[recorded[j]].scope = b.scope
                                      /\ calls[recorded[j]].began < b.began
        \/ g.blocked[b.scope].at >= b.began
    BY <2>1 DEF Memorised, HoldsBack
  <2>6. ~(clock >= b.began + config.backoff)
    BY <1>3, <1>4, <2>4
  <2>7. ~(g.blocked[b.scope].at >= b.began)
    <3>1. config.backoff > 0
      BY <1>3, <2>2, <2>4, <2>6
    <3>2. g.blocked[c.scope].at = Never
      BY <1>2, <3>1 DEF HeldOff
    <3>3. QED BY <2>1, <2>2, <2>4, <3>2 DEF Never
  <2>8. PICK j \in DOMAIN recorded : /\ j > i /\ Blocks(j) /\ calls[recorded[j]].scope = b.scope
                                     /\ calls[recorded[j]].began < b.began
    BY <2>5, <2>6, <2>7
  <2>9. j \in Known(n, "block")'
    BY <1>1, <2>1, <2>8
  <2>10. QED BY <2>8, <2>9
<1>5. \A i \in Known(n, "block")' : i \in DOMAIN recorded
  BY <1>1
<1>6. QED BY <1>1, <1>4, <1>5 DEF HeldBack

\* A new call borrows an approval that is fresh.
LEMMA NewFresh ==
  ASSUME WalkInv, MemoryInv, Lasts, config' = config, NEW n, NEW c \in Calls,
         NEW g, Memorised(g), c.began = clock,
         NEW e, e = calls'[n], e.known = recorded, e.scope = c.scope, e.began = clock,
         e.src # "cache" \/ (Approved(g, c) /\ e.from = g.cache[c.scope].by)
  PROVE  Fresh(n)'
<1>1. /\ Known(n, "block")' = {i \in DOMAIN recorded : calls[recorded[i]].scope = e.scope /\ Blocks(i)}
      /\ Known(n, "allow")' = {i \in DOMAIN recorded : calls[recorded[i]].scope = e.scope /\ ~Blocks(i)}
      /\ \A i \in DOMAIN recorded : calls'[recorded[i]].began = calls[recorded[i]].began
      /\ \A i, j \in DOMAIN recorded : After(n, j, i)' <=> Saw(recorded[j], recorded[i])
  BY KnownOfNew DEF MemoryInv
<1>2. SUFFICES ASSUME Approved(g, c) /\ e.from = g.cache[c.scope].by PROVE Fresh(n)'
  BY DEF Fresh
<1>3. c.scope \in Scopes
  BY DEF Calls
<1>4. PICK i \in DOMAIN recorded : Approves(g, c.scope, i)
  BY <1>2, <1>3 DEF Memorised, Approvals, Approved
<1>5. i \in Known(n, "allow")' /\ recorded[i] = e.from
  BY <1>1, <1>2, <1>4 DEF Approves
<1>6. clock < calls[recorded[i]].began + config.ttl
  <2>1. g.cache[c.scope].until > clock /\ g.cache[c.scope].until = calls[recorded[i]].began + config.ttl
    BY <1>2, <1>4 DEF Approved, Approves
  <2>2. QED BY <2>1
<1>7. e.began < calls'[e.from].began + config.ttl
  BY <1>1, <1>5, <1>6
<1>8. ASSUME NEW j \in Known(n, "block")', j > i PROVE ~After(n, j, i)'
  BY <1>1, <1>4, <1>8 DEF Approves
<1>9. QED BY <1>5, <1>7, <1>8 DEF Fresh

\* before_tool_call keeps the memory true.
LEMMA MemoryBefore ==
  ASSUME WalkInv, MemoryInv, WalkInv', NEW input \in config.calls, BeforeToolCall(input)
  PROVE  MemoryInv'
<1>1. PICK n : n = Len(calls) + 1
  OBVIOUS
<1>2. PICK c, step : Comes(n, c, step) /\ Settled(n, step)
  BY <1>1, BeforeEffect
<1>3. UNCHANGED <<config, clock>>
  BY BeforeEffect
<1>4. PICK g : g = IF on THEN Tidy(guard) ELSE guard
  OBVIOUS
<1>5. /\ n \notin DOMAIN calls /\ Moves(n, c, g, step)
      /\ c.began = clock /\ c.known = recorded /\ c.src = "off"
      /\ ~on => OutcomeIs(step, g, c, "none", "off")
      /\ on /\ (HeldOff(g, c) \/ Approved(g, c)) => Borrows(step, g, c)
      /\ on /\ ~HeldOff(g, c) /\ ~Approved(g, c) => Evaluates(step, g, n, c)
  BY <1>2, <1>4 DEF Comes
<1>6. /\ Lasts /\ DOMAIN calls' = DOMAIN calls \cup {n} /\ calls'[n] = step.call
      /\ \A m \in DOMAIN calls : m # n => calls'[m] = calls[m]
      /\ step.call.scope = c.scope /\ step.call.began = clock /\ step.call.known = recorded
  <2>1. Lasting(n, c, step)
    BY <1>2, <1>5, MovesLast
  <2>2. QED BY <1>5, <2>1 DEF Lasting
<1>7. /\ Typed /\ n \in Nat /\ clock \in Nat /\ clock' \in Nat /\ clock' >= clock /\ clock >= 1
      /\ guard \in Memory(RuleIds) /\ on \in BOOLEAN
  BY <1>1, <1>3 DEF WalkInv, Typed
<1>8. g \in Memory(RuleIds) /\ Memorised(g) /\ c \in Calls
  <2>1. c \in Calls
    BY <1>5 DEF Moves
  <2>2. CASE on
    BY <1>4, <1>7, <2>1, <2>2, MemoryKept, MemorisedTidy
  <2>3. CASE ~on
    BY <1>4, <1>7, <2>1, <2>3 DEF MemoryInv
  <2>4. QED BY <2>2, <2>3
\* The four ways an evaluation begins.
<1>9. /\ \/ ~step.records /\ step.guard = g /\ step.call.stage # "asking"
         \/ Recalls(step, g, n, c) /\ Unapproved(g, c.known, c.scope)
      /\ step.call.stage = "asking" => step.call.src = "off"
      /\ \/ step.call.src = "off" /\ step.call.stage # "asking"
         \/ HeldOff(g, c) /\ step.call.src = "backoff" /\ step.call.stage # "asking"
         \/ ~HeldOff(g, c)
      /\ step.call.src # "cache" \/ (Approved(g, c) /\ step.call.from = g.cache[c.scope].by)
  <2>1. CASE ~on
    BY <1>5, <2>1 DEF OutcomeIs, Ended
  <2>2. CASE on /\ HeldOff(g, c)
    BY <1>5, <2>2 DEF Borrows, Ended
  <2>3. CASE on /\ ~HeldOff(g, c) /\ Approved(g, c)
    BY <1>5, <2>3 DEF Borrows, Ended
  <2>4. CASE on /\ ~HeldOff(g, c) /\ ~Approved(g, c)
    <3>1. Recalls(step, g, n, c) /\ step.call.stage \in {"asking", "decided"} /\ step.records \in BOOLEAN
      BY <1>5, <2>4 DEF Evaluates, Step
    <3>2. c.scope \in Scopes /\ g.cache[c.scope].until \in Nat
      BY <1>8 DEF Calls, Memory
    <3>3. Unapproved(g, c.known, c.scope)
      BY <1>7, <2>4, <3>2 DEF Approved, Unapproved
    <3>4. step.call.src # "cache" /\ (step.call.stage = "asking" => step.call.src = "off")
      BY <1>5, <3>1 DEF Recalls
    <3>5. QED BY <2>4, <3>1, <3>3, <3>4
  <2>5. QED BY <1>7, <2>1, <2>2, <2>3, <2>4
<1>10. /\ Memorised(guard)'
       /\ \/ recorded' = recorded
          \/ recorded' = Append(recorded, n) /\ Over(n)'
  BY <1>2, <1>3, <1>5, <1>7, <1>8, <1>9, MemoryMoves
<1>11. Past(n)'
  <2>1. \A k \in DOMAIN recorded : Over(recorded[k])
    BY DEF MemoryInv
  <2>2. ASSUME NEW k \in DOMAIN recorded PROVE Over(calls[n].known[k])'
    <3>1. PICK m : m = recorded[k]
      OBVIOUS
    <3>2. Over(m)'
      BY <1>6, <2>1, <3>1, LastsOver
    <3>3. QED BY <1>6, <3>1, <3>2 DEF Over
  <2>3. QED BY <1>3, <1>6, <1>7, <1>9, <2>2 DEF Past
<1>12. HeldBack(n)'
  BY <1>3, <1>5, <1>6, <1>8, <1>9, NewHeldBack
<1>13. Fresh(n)'
  BY <1>3, <1>5, <1>6, <1>8, <1>9, NewFresh
<1>14. QED
  BY <1>3, <1>6, <1>7, <1>10, <1>11, <1>12, <1>13, MemoryKeeps

\* The other steps leave memory and records alone.
LEMMA MemoryElse ==
  ASSUME WalkInv, MemoryInv, WalkInv', config' = config, recorded' = recorded,
         guard'.blocked = guard.blocked, guard'.cache = guard.cache,
         clock' \in Nat, clock' >= clock,
         NEW n, UNCHANGED calls \/ (n \in DOMAIN calls /\ Hooked(n, calls'[n]))
  PROVE  MemoryInv'
<1>1. /\ Lasts /\ DOMAIN calls' = DOMAIN calls /\ \A m \in DOMAIN calls : m # n => calls'[m] = calls[m]
      /\ \A m \in DOMAIN calls : calls'[m].stage = "asking" => calls[m].stage = "asking"
      /\ n \in DOMAIN calls => \/ calls'[n] = calls[n]
                               \/ calls'[n].stage # "asking" /\ calls[n].stage # "asking" /\ calls'[n].src = calls[n].src
  <2>1. CASE UNCHANGED calls
    BY <2>1 DEF Lasts
  <2>2. CASE n \in DOMAIN calls /\ Hooked(n, calls'[n])
    <3>1. /\ DOMAIN calls' = DOMAIN calls /\ \A m \in DOMAIN calls : m # n => calls'[m] = calls[m]
          /\ Evaluated(calls[n], calls'[n]) /\ calls'[n].stage # "asking" /\ calls[n].stage # "asking"
      BY <2>2 DEF Hooked, Sets
    <3>2. QED BY <3>1 DEF Lasts, Evaluated
  <2>3. QED BY <2>1, <2>2
<1>2. /\ calls \in Seq(Calls) /\ calls' \in Seq(Calls) /\ recorded \in Seq(Nat) /\ clock \in Nat
      /\ config.backoff \in Nat /\ guard \in Memory(RuleIds)
  BY ConfigFacts DEF WalkInv, Typed
<1>3. \A i \in DOMAIN recorded : Over(recorded[i])
  BY DEF MemoryInv
<1>4. PICK h : h = guard'
  OBVIOUS
<1>5. \A m \in DOMAIN calls' : calls'[m].stage = "asking" =>
        \/ m \in DOMAIN calls /\ calls[m].stage = "asking"
        \/ Unapproved(guard, calls'[m].known, calls'[m].scope)
  BY <1>1
<1>6. Memorised(h)'
  BY <1>1, <1>2, <1>3, <1>4, <1>5, MemorisedStays DEF MemoryInv
<1>7. Memorised(guard)'
  BY <1>4, <1>6 DEF Memorised, HoldsBack, Approvals, Approves, Waiting, Unapproved
<1>8. ASSUME n \in DOMAIN calls PROVE Past(n)' /\ HeldBack(n)' /\ Fresh(n)'
  <2>1. Past(n) /\ HeldBack(n) /\ Fresh(n)
    BY <1>8 DEF MemoryInv
  <2>2. calls[n] \in Calls
    BY <1>2, <1>8
  <2>3. calls[n].began \in Nat
    BY <2>2 DEF Calls
  <2>4. /\ calls'[n].stage = "asking" => calls'[n].src = "off"
        /\ calls[n].stage = "asking" => calls'[n].src # "cache"
    BY <1>1, <1>8, <2>1 DEF Past
  <2>5. Past(n)'
    BY <1>1, <1>2, <1>8, <2>1, <2>3, <2>4, PastLasts
  <2>6. HeldBack(n)'
    BY <1>1, <1>8, <2>1, HeldBackLasts
  <2>7. Fresh(n)'
    BY <1>1, <1>8, <2>1, <2>4, FreshLasts
  <2>8. QED BY <2>5, <2>6, <2>7
<1>9. QED
  BY <1>1, <1>7, <1>8, MemoryKeeps

\* So does a step of no call.
LEMMA MemoryIdle ==
  ASSUME WalkInv, MemoryInv, WalkInv', UNCHANGED <<config, calls, recorded>>,
         guard'.blocked = guard.blocked, guard'.cache = guard.cache,
         clock' \in Nat, clock' >= clock
  PROVE  MemoryInv'
<1>1. PICK n : n = 0
  OBVIOUS
<1>2. UNCHANGED calls \/ (n \in DOMAIN calls /\ Hooked(n, calls'[n]))
  OBVIOUS
<1>3. QED BY <1>2, MemoryElse

\* The memory is true at first.
LEMMA MemoryInit == Init => MemoryInv
<1> SUFFICES ASSUME Init PROVE MemoryInv
  OBVIOUS
<1>1. DOMAIN calls = {} /\ DOMAIN recorded = {} /\ clock = 1
  BY DEF Init
<1>2. \A s \in Scopes : guard.cache[s].until = 0
  BY DEF Init, Never
<1>3. Memorised(guard)
  BY <1>1, <1>2 DEF Memorised, HoldsBack, Approvals, Waiting
<1>4. QED
  BY <1>1, <1>3 DEF MemoryInv

\* Every step keeps the memory true.
LEMMA MemoryNext == WalkInv /\ MemoryInv /\ WalkInv' /\ [Next]_vars => MemoryInv'
<1> SUFFICES ASSUME WalkInv, MemoryInv, WalkInv', [Next]_vars PROVE MemoryInv'
  OBVIOUS
<1>0. clock \in Nat /\ guard \in Memory(RuleIds) /\ clock <= clock
  BY DEF WalkInv, Typed
<1>1. ASSUME NEW input \in config.calls, BeforeToolCall(input) PROVE MemoryInv'
  BY <1>1, MemoryBefore
<1>2. ASSUME NEW n \in DOMAIN calls, ActionAnswers(n) PROVE MemoryInv'
  BY <1>2, MemoryAnswered
<1>3. ASSUME NEW n \in DOMAIN calls, NEW starts \in BOOLEAN, NEW throws \in BOOLEAN,
             Told(n, starts, throws)
      PROVE  MemoryInv'
  <2>1. Hooked(n, calls'[n]) /\ UNCHANGED <<config, guard, recorded, clock>>
    BY <1>3, ToldEffect DEF Hooked
  <2>2. QED BY <1>0, <2>1, MemoryElse
<1>4. ASSUME NEW n \in DOMAIN calls, NEW x \in Ctxs \cup {NoCtx}, AfterToolCall(n, x) PROVE MemoryInv'
  <2>1. Hooked(n, calls'[n]) /\ UNCHANGED <<config, guard, recorded, clock>>
    BY <1>4, AfterEffect DEF Hooked
  <2>2. QED BY <1>0, <2>1, MemoryElse
<1>5. ASSUME NEW x \in config.eventIds, EventRuleFires(x) PROVE MemoryInv'
  <2>1. /\ UNCHANGED <<config, calls, recorded, clock>>
        /\ guard' = [guard EXCEPT !.last[x] = clock]
    BY <1>5 DEF EventRuleFires
  <2>2. guard'.blocked = guard.blocked /\ guard'.cache = guard.cache
    BY <1>0, <2>1 DEF Memory
  <2>3. QED BY <1>0, <2>1, <2>2, MemoryIdle
<1>6. CASE Deactivate
  BY <1>0, <1>6, MemoryIdle DEF Deactivate
<1>7. CASE Tick
  BY <1>0, <1>7, MemoryIdle DEF Tick
<1>8. CASE UNCHANGED vars
  BY <1>0, <1>8, MemoryIdle DEF vars
<1>9. QED
  BY <1>1, <1>2, <1>3, <1>4, <1>5, <1>6, <1>7, <1>8 DEF Next, ToolCalled, ToolNotCalled

\* A block holds the calls of its scope off until the backoff ends, and an approval is
\* borrowed only while it is fresh, whatever the order in which overlapping evaluations
\* end (hook-bridge.ts, cleanupToolGuardState, recordToolGuardDecision and the checks
\* that open evaluateBeforeToolCall).
THEOREM DecisionsAreReused == Spec => []DecisionsReused
<1>1. MemoryInv => DecisionsReused
  BY DEF MemoryInv, HeldBack, Fresh, DecisionsReused, BackoffHolds, ApprovalsFresh
<1>2. QED
  BY <1>1, MemoryInit, MemoryNext, WalkInvariance, PTL DEF Spec
=============================================================================
