------------------------------ MODULE ToolGuard ------------------------------
(***************************************************************************)
(* Tool calls under the tool guard: before_tool_call and after_tool_call    *)
(* (src/src/runtime/register-tool-hooks.ts) around the evaluation of the    *)
(* guard's rules (src/src/runtime/hook-bridge.ts with its actions and       *)
(* matchers), and the tables that pair the two hooks of a call              *)
(* (src/src/hooks/tool-hooks.ts).  Handlers of different calls interleave   *)
(* wherever the code awaits: a rule's action, a broadcast.                  *)
(***************************************************************************)
EXTENDS Naturals, Sequences, FiniteSets, FiniteSetsExt, SequencesExt

CONSTANTS Scopes,       \* scope keys: a tool, or a tool and its parameters
          Ids, NoId,    \* tool call ids
          Ctxs, NoCtx,  \* context objects of the host
          Configs       \* tool guard configurations, calls the host makes and bounds: see AConfig

VARIABLES
  config,     \* the configuration the plugin was activated with
  on,         \* there is a hook bridge, and it takes events
  guard,      \* lastTriggerByRule, blockedRetryStateByScope, approvalCacheByScope
  calls,      \* the calls so far and where their handlers are
  recorded,   \* history: calls in the order their decisions were recorded
  byId,       \* pendingToolCalls
  byCtx,      \* pendingToolCallsByContext
  active,     \* ToolCallTracker.activeCalls: call ids and whose they are
  clock,
  faults

vars == <<config, on, guard, calls, recorded, byId, byCtx, active, clock, faults>>

\* A rule as this module sees it: a static decision, an action to ask, or neither.
\* Rules may share an id (validate-hook-bridge.ts:193 only asks for one).
Rules ==
  [id : STRING, kind : {"allow", "patch", "block", "action", "missing"},
   priority : Nat, cooldown : Nat, stop : BOOLEAN]

\* A call: its scope, the rules whose matcher holds for it, its id and context object.
ACall(c) ==
  /\ c.scope \in Scopes
  /\ c.id \in Ids \cup {NoId} /\ c.ctx \in Ctxs \cup {NoCtx}

AConfig(f) ==
  /\ f.rules \in Seq(Rules)
  /\ f.eventIds \subseteq STRING   \* ids of the rules for events, which may be the same
  /\ f.onError \in {"allow", "block"} /\ f.dryRun \in BOOLEAN
  /\ f.backoff \in Nat /\ f.ttl \in Nat
  /\ \A c \in f.calls : ACall(c) /\ c.matches \subseteq DOMAIN f.rules
  /\ f.maxCalls \in Nat      \* bound: calls
  /\ f.maxClock \in Nat      \* bound: time
  /\ f.maxFaults \in Nat     \* bound: handlers that throw

ASSUME ToolGuardConstants ==
  /\ NoId \notin Ids /\ NoCtx \notin Ctxs
  /\ \A f \in Configs : AConfig(f)

\* The clock starts at 1: 0 is a time that was never set, and 0 is no call.
Never == 0
NoCall == 0

-----------------------------------------------------------------------------
(* The rules *)

\* By priority, then by declaration.
Sorted(rules) ==
  SetToSortSeq(DOMAIN rules,
    LAMBDA a, b : \/ rules[a].priority > rules[b].priority
                  \/ rules[a].priority = rules[b].priority /\ a < b)

Order == Sorted(config.rules)

Rule(i) == config.rules[Order[i]]

Matching(c, from) == {i \in from..Len(config.rules) : Order[i] \in c.matches}

RuleIds == {config.rules[r].id : r \in DOMAIN config.rules}

CanTrigger(g, i) ==
  \/ Rule(i).cooldown = 0 \/ g.last[Rule(i).id] = Never
  \/ clock - g.last[Rule(i).id] >= Rule(i).cooldown

\* A rule with a cooldown does not fire behind one of its id that does.
Fires(g, c, from) ==
  {i \in Matching(c, from) :
     /\ CanTrigger(g, i)
     /\ Rule(i).cooldown = 0 \/ \A k \in Matching(c, from) :
                                   k < i /\ Rule(k).id = Rule(i).id => ~CanTrigger(g, k)}

\* Rules at which the walk halts: it awaits an action, or it has an outcome.
Halts(i) ==
  CASE Rule(i).kind = "action"  -> TRUE
    [] Rule(i).kind = "missing" -> config.onError = "block"
    [] OTHER                    -> ~config.dryRun \/ Rule(i).stop

-----------------------------------------------------------------------------
(* What the guard remembers *)

\* cleanupToolGuardState
Tidy(g) ==
  [g EXCEPT
     !.cache = [s \in Scopes |-> IF @[s].until <= clock THEN [until |-> Never, by |-> NoCall] ELSE @[s]],
     !.blocked = [s \in Scopes |->
        IF config.backoff = 0 \/ clock - @[s].at >= config.backoff THEN [at |-> Never, by |-> NoCall]
        ELSE @[s]]]

\* recordToolGuardDecision: the time is the one read when the evaluation began.
Remember(g, n, c, d) ==
  IF d = "block" THEN [g EXCEPT !.blocked[c.scope] = [at |-> c.began, by |-> n]]
  ELSE IF config.ttl = 0 THEN g
  ELSE [g EXCEPT !.cache[c.scope] = [until |-> c.began + config.ttl, by |-> n]]

-----------------------------------------------------------------------------
(* Evaluation: each step yields the guard's memory and the call's record.     *)

\* The outcome of an evaluation: decision, where it is from, the call it is borrowed from.
Decided(c, d, src, from) == [c EXCEPT !.stage = "decided", !.decision = d, !.src = src, !.from = from]

Outcome(g, c, d, src) == [guard |-> g, call |-> Decided(c, d, src, NoCall), records |-> FALSE]

Recording(g, n, c, d, src) ==
  [guard |-> Remember(g, n, c, d), call |-> Decided(c, d, src, n), records |-> TRUE]

\* Where the walk from position from halts, and what it meets of S until then.
Halting(g, c, from) == {i \in Fires(g, c, from) : Halts(i)}
UpTo(S, halt) == IF halt = {} THEN S ELSE {i \in S : i <= Min(halt)}

Trigger(g, met) ==
  [g EXCEPT !.last = [x \in RuleIds |-> IF \E k \in met : Rule(k).id = x THEN clock ELSE @[x]]]

\* The walk has come to rule i, an action to await or an outcome.
Halted(g, n, c, i) ==
  CASE Rule(i).kind = "action"  -> [guard |-> g, call |-> [c EXCEPT !.stage = "asking", !.at = i],
                                    records |-> FALSE]
    [] Rule(i).kind = "missing" -> Outcome(g, c, "block", "missing")
    [] OTHER                    -> IF config.dryRun THEN Outcome(g, c, "none", "stop")
                                   ELSE Recording(g, n, c, Rule(i).kind, "rule")

\* The loop over the rules, from position from to the next await or outcome: matching
\* rules that are not cooling down are triggered on the way.
Walk(g, n, c, from) ==
  LET halt == Halting(g, c, from)
      met  == UpTo(Fires(g, c, from), halt)
      cool == UpTo(Matching(c, from), halt) \ met
      h    == Trigger(g, met)
      d    == [c EXCEPT !.triggered = @ \cup met, !.cooling = @ \cup cool]
  IN IF halt = {} THEN Outcome(h, d, "none", "unmatched") ELSE Halted(h, n, d, Min(halt))

\* Mutant: the approval cache is asked before the backoff.
EvaluateCacheFirst(g, n, c) ==
  IF g.cache[c.scope].until > clock
  THEN Outcome(g, c, "allow", "cache")
  ELSE IF config.backoff > 0 /\ g.blocked[c.scope].at # Never
       THEN [Outcome(g, c, "block", "backoff") EXCEPT !.call.from = g.blocked[c.scope].by]
       ELSE Walk(g, n, c, 1)

\* evaluateBeforeToolCall up to its first await; g is tidy.
Evaluate(g, n, c) ==
  IF config.backoff > 0 /\ g.blocked[c.scope].at # Never
  THEN [Outcome(g, c, "block", "backoff") EXCEPT !.call.from = g.blocked[c.scope].by]
  ELSE IF g.cache[c.scope].until > clock
       THEN [Outcome(g, c, "allow", "cache") EXCEPT !.call.from = g.cache[c.scope].by]
       ELSE Walk(g, n, c, 1)

\* Mutant: an action that fails is passed over whatever onError says.
AnsweredOpen(g, n, c, answer) ==
  IF answer \in {"allow", "patch", "block"} /\ ~config.dryRun THEN Recording(g, n, c, answer, "action")
  ELSE IF Rule(c.at).stop THEN Outcome(g, c, "none", "stop")
  ELSE Walk(g, n, c, c.at + 1)

\* The rest of the loop's body when the awaited action has answered or failed.
Answered(g, n, c, answer) ==
  IF answer \in {"allow", "patch", "block"} /\ ~config.dryRun THEN Recording(g, n, c, answer, "action")
  ELSE IF answer = "error" /\ config.onError = "block" THEN Recording(g, n, c, "block", "failure")
  ELSE IF Rule(c.at).stop THEN Outcome(g, c, "none", "stop")
  ELSE Walk(g, n, c, c.at + 1)

-----------------------------------------------------------------------------
(* The hooks *)

Init ==
  /\ config \in Configs
  /\ on = TRUE
  /\ guard = [last    |-> [x \in RuleIds |-> Never],
              blocked |-> [s \in Scopes |-> [at |-> Never, by |-> NoCall]],
              cache   |-> [s \in Scopes |-> [until |-> Never, by |-> NoCall]]]
  /\ calls = <<>> /\ recorded = <<>>
  /\ byId = [i \in Ids |-> NoCall] /\ byCtx = [x \in Ctxs |-> NoCall] /\ active = {}
  /\ clock = 1 /\ faults = 0

NewCall(input) ==
  [scope |-> input.scope, matches |-> input.matches, id |-> input.id, ctx |-> input.ctx,
   began |-> clock, stage |-> "decided", at |-> 0, decision |-> "none", src |-> "off", from |-> NoCall,
   triggered |-> {}, cooling |-> {}, failed |-> FALSE, known |-> recorded,
   started |-> FALSE, threw |-> FALSE, carried |-> NoCall]

\* The evaluation's step becomes the state's.
Settle(n, step) ==
  /\ guard' = step.guard
  /\ calls' = IF n > Len(calls) THEN Append(calls, step.call) ELSE [calls EXCEPT ![n] = step.call]
  /\ recorded' = IF step.records THEN Append(recorded, n) ELSE recorded

\* before_tool_call up to its first await.
BeforeToolCall(input) ==
  LET n == Len(calls) + 1
      c == NewCall(input)
  IN /\ n <= config.maxCalls
     /\ Settle(n, IF on THEN Evaluate(Tidy(guard), n, c) ELSE Outcome(guard, c, "none", "off"))
     /\ UNCHANGED <<config, on, byId, byCtx, active, clock, faults>>

\* What parseHookBridgeDecision makes of an answer, or that there is none to parse.
Answers == {"allow", "patch", "block", "silent", "error"}

\* executeBridgeGuardAction: a decision, none, or an error (a timeout, a failed or
\* forbidden script, a response that is not ok).
ActionAnswers(n) ==
  /\ calls[n].stage = "asking"
  /\ \E answer \in Answers :
       Settle(n, Answered(guard, n, [calls[n] EXCEPT !.failed = @ \/ answer = "error"], answer))
  /\ UNCHANGED <<config, on, byId, byCtx, active, clock, faults>>

\* The id startCall files a call under; without a tool call id it is drawn.
CallId(n) == IF calls[n].id # NoId THEN <<"id", calls[n].id>> ELSE <<"drawn", n>>

\* runHookSafely: when a broadcast throws the host is told nothing, and the call runs.
Told(n, starts, throws) ==
  /\ calls[n].stage = "decided"
  /\ throws => faults < config.maxFaults
  /\ faults' = IF throws THEN faults + 1 ELSE faults
  /\ calls' = [calls EXCEPT ![n].stage = "told", ![n].started = starts, ![n].threw = throws]
  /\ UNCHANGED <<config, on, guard, recorded, clock>>

\* tool.called is broadcast: startCall, and the call is pending by id and by context.
\* The broadcasts that report the decision follow, one of which may throw, and touch
\* none of this.
ToolCalled(n) ==
  /\ \E throws \in BOOLEAN : Told(n, TRUE, throws)
  /\ active' = {a \in active : a.id # CallId(n)} \cup {[id |-> CallId(n), of |-> n]}
  /\ byId' = [i \in Ids |-> IF i = calls[n].id THEN n ELSE byId[i]]
  /\ byCtx' = [x \in Ctxs |-> IF x = calls[n].ctx THEN n ELSE byCtx[x]]

\* The broadcast of tool.called throws.
ToolNotCalled(n) == Told(n, FALSE, TRUE) /\ UNCHANGED <<byId, byCtx, active>>

PendingById(n) == IF calls[n].id = NoId THEN NoCall ELSE byId[calls[n].id]
PendingByCtx(x) == IF x = NoCtx THEN NoCall ELSE byCtx[x]

\* Mutant: the context object is trusted before the id.
PendingCtxFirst(n, x) == IF PendingByCtx(x) # NoCall THEN PendingByCtx(x) ELSE PendingById(n)

Pending(n, x) == IF PendingById(n) # NoCall THEN PendingById(n) ELSE PendingByCtx(x)

\* after_tool_call, with the context object of the first hook or another one.
AfterToolCall(n, x) ==
  /\ calls[n].stage = "told" /\ x \in {calls[n].ctx, NoCtx}
  /\ calls' = [calls EXCEPT ![n].stage = "done", ![n].carried = Pending(n, x)]
  /\ active' = {a \in active : Pending(n, x) = NoCall \/ a.id # CallId(Pending(n, x))}
  /\ byId' = [i \in Ids |-> IF i = calls[n].id THEN NoCall ELSE byId[i]]
  /\ byCtx' = [y \in Ctxs |-> IF y = x THEN NoCall ELSE byCtx[y]]
  /\ UNCHANGED <<config, on, guard, recorded, clock, faults>>

\* deactivate: resetState drops the bridge and clears the tables; handlers go on.
Deactivate ==
  /\ on
  /\ on' = FALSE
  /\ byId' = [i \in Ids |-> NoCall] /\ byCtx' = [x \in Ctxs |-> NoCall] /\ active' = {}
  /\ UNCHANGED <<config, guard, calls, recorded, clock, faults>>

\* onEvent: a rule for events fires, and its id is looked up in the same table.
EventRuleFires(x) ==
  /\ on /\ x \in config.eventIds \cap RuleIds
  /\ guard' = [guard EXCEPT !.last[x] = clock]
  /\ UNCHANGED <<config, on, calls, recorded, byId, byCtx, active, clock, faults>>

Tick ==
  /\ clock < config.maxClock
  /\ clock' = clock + 1
  /\ UNCHANGED <<config, on, guard, calls, recorded, byId, byCtx, active, faults>>

Next ==
  \/ \E input \in config.calls : BeforeToolCall(input)
  \/ \E n \in DOMAIN calls :
       \/ ActionAnswers(n) \/ ToolCalled(n) \/ ToolNotCalled(n)
       \/ \E x \in Ctxs \cup {NoCtx} : AfterToolCall(n, x)
  \/ \E x \in config.eventIds : EventRuleFires(x)
  \/ Deactivate \/ Tick

Spec == Init /\ [][Next]_vars

-----------------------------------------------------------------------------
(* Properties *)

RecordedAs(n, d) == (calls[n].decision = "block") <=> (d = "block")

\* Recorded decisions of call n's scope that n's evaluation could know of.
Known(n, d) ==
  {i \in DOMAIN calls[n].known :
     LET m == calls[n].known[i] IN calls[m].scope = calls[n].scope /\ RecordedAs(m, d)}

\* Decision i of call n's past was made by an evaluation that began when decision j was
\* recorded already.
After(n, i, j) == \E k \in DOMAIN calls[calls[n].known[i]].known :
                    calls[calls[n].known[i]].known[k] = calls[n].known[j]

\* A block holds off the calls of its scope until the backoff ends (register-tool-hooks
\* asks the guard for every call), unless an evaluation that began before it and ended
\* after it took its place with an older time.
BackoffHolds ==
  \A n \in DOMAIN calls : \A i \in Known(n, "block") :
    calls[n].src # "off" /\ calls[n].began < calls[calls[n].known[i]].began + config.backoff =>
      \/ calls[n].src = "backoff"
      \/ \E j \in Known(n, "block") :
           j > i /\ calls[calls[n].known[j]].began < calls[calls[n].known[i]].began

\* An approval is borrowed within its ttl, and over a later block of the scope only
\* when the evaluation that blocked began before the approval was recorded.
ApprovalsFresh ==
  \A n \in DOMAIN calls : calls[n].src = "cache" =>
    \E i \in Known(n, "allow") :
      /\ calls[n].known[i] = calls[n].from
      /\ calls[n].began < calls[calls[n].from].began + config.ttl
      /\ \A j \in Known(n, "block") : j > i => ~After(n, j, i)

\* What was decided about one call is applied to others of its scope for as long as it
\* is meant to be, whatever the order in which overlapping evaluations end
\* (hook-bridge.ts: cleanupToolGuardState, recordToolGuardDecision and the checks that
\* open evaluateBeforeToolCall).
DecisionsReused == BackoffHolds /\ ApprovalsFresh

\* Something else than asking rule i about call n that starts the cooldown of i: a rule
\* of its id that is asked, or that is for events.
CooledElsewhere(n, i) ==
  \/ Rule(i).id \in config.eventIds
  \/ \E m \in DOMAIN calls : \E k \in calls[m].triggered :
       Rule(k).id = Rule(i).id /\ <<m, k>> # <<n, i>>

\* The host runs a call for one of these reasons and no other: it was decided so, the
\* handler threw, there was no guard, or no rule had a say: each matching rule was
\* asked about this call, or is cooling down for another call or rule of its id, or
\* comes after a rule that ends the walk.  With onError = "block" (docs/security.md:93)
\* a failed action is no reason (hook-bridge.ts, the loop of evaluateBeforeToolCall).
PassedForAReason ==
  \A n \in DOMAIN calls :
    LET c == calls[n] IN
    c.stage \in {"told", "done"} /\ c.decision # "block" =>
      \/ c.threw \/ c.src \in {"off", "cache", "rule", "action"}
      \/ /\ config.onError = "block" => ~c.failed
         /\ \A i \in Matching(c, 1) :
              \/ i \in c.triggered
              \/ i \in c.cooling /\ CooledElsewhere(n, i)
              \/ c.src = "stop" /\ \E j \in c.triggered : j < i /\ Rule(j).stop

\* Calls that the identifiers of call n may be taken for.
Twins(n) ==
  {m \in DOMAIN calls \ {n} :
     \/ calls[m].id = calls[n].id /\ calls[n].id # NoId
     \/ calls[m].ctx = calls[n].ctx /\ calls[n].ctx # NoCtx}

\* Calls with the same tool call id.
SameId(n) == {m \in Twins(n) : calls[m].id = calls[n].id /\ calls[n].id # NoId}

\* The two hooks of a call find each other (pendingToolCalls, pendingToolCallsByContext):
\* the second event carries the correlation id of the first one or none, or the call
\* shares an identifier with another; a call with an id of its own always finds its own
\* if the first handler came so far and the plugin stayed active, and then leaves
\* nothing behind in the tracker.
HooksPaired ==
  \A n \in DOMAIN calls :
    LET c == calls[n] IN
    c.stage = "done" =>
      /\ c.carried \in {n, NoCall} \cup Twins(n)
      /\ c.id # NoId /\ SameId(n) = {} /\ c.started /\ on =>
           c.carried = n /\ (\A a \in active : a.of # n) /\ n \notin {byId[i] : i \in Ids}

=============================================================================
