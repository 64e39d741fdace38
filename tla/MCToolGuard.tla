----------------------------- MODULE MCToolGuard -----------------------------
(* Three calls of one scope or two under six configurations: an approval       *)
(* script with its memory, a chain of rules that cool down and stop the walk,  *)
(* a dry run that fails closed, a rule without an action, rules that share an  *)
(* id with one another or with a rule for events, and no rule at all for calls *)
(* that share identifiers.                                                     *)
EXTENDS ToolGuard

CONSTANTS shell, read, i1, i2, x1

MCScopes == {shell, read}
MCIds == {i1, i2}
MCCtxs == {x1}

R(id, priority, kind, stop, cooldown) ==
  [id |-> id, priority |-> priority, kind |-> kind, stop |-> stop, cooldown |-> cooldown]

Call(scope, matches, id, ctx) == [scope |-> scope, matches |-> matches, id |-> id, ctx |-> ctx]

MCConfigs ==
  {[rules |-> <<R("a", 0, "action", FALSE, 0)>>, eventIds |-> {},
    onError |-> "allow", dryRun |-> FALSE, backoff |-> 2, ttl |-> 3,
    maxCalls |-> 3, maxClock |-> 4, maxFaults |-> 0,
    calls |-> {Call(shell, {1}, NoId, NoCtx)}],
   [rules |-> <<R("a", 0, "patch", FALSE, 0), R("b", 1, "action", TRUE, 2), R("c", 2, "missing", FALSE, 0)>>,
    eventIds |-> {},
    onError |-> "allow", dryRun |-> FALSE, backoff |-> 0, ttl |-> 2,
    maxCalls |-> 2, maxClock |-> 3, maxFaults |-> 1,
    calls |-> {Call(shell, {1, 2, 3}, NoId, NoCtx), Call(read, {2}, NoId, NoCtx)}],
   [rules |-> <<R("a", 1, "action", FALSE, 2), R("b", 0, "block", TRUE, 0)>>, eventIds |-> {},
    onError |-> "block", dryRun |-> TRUE, backoff |-> 1, ttl |-> 0,
    maxCalls |-> 2, maxClock |-> 3, maxFaults |-> 0,
    calls |-> {Call(shell, {1, 2}, NoId, NoCtx), Call(read, {1}, NoId, NoCtx)}],
   [rules |-> <<R("a", 0, "missing", FALSE, 0)>>, eventIds |-> {},
    onError |-> "block", dryRun |-> FALSE, backoff |-> 2, ttl |-> 0,
    maxCalls |-> 2, maxClock |-> 2, maxFaults |-> 1,
    calls |-> {Call(shell, {1}, NoId, NoCtx)}],
   [rules |-> <<R("a", 2, "action", FALSE, 1), R("a", 1, "allow", FALSE, 2), R("b", 0, "block", FALSE, 1)>>,
    eventIds |-> {"b"},
    onError |-> "block", dryRun |-> FALSE, backoff |-> 0, ttl |-> 0,
    maxCalls |-> 2, maxClock |-> 3, maxFaults |-> 0,
    calls |-> {Call(shell, {1, 2, 3}, NoId, NoCtx), Call(read, {2}, NoId, NoCtx)}],
   [rules |-> <<>>, eventIds |-> {},
    onError |-> "allow", dryRun |-> FALSE, backoff |-> 0, ttl |-> 0,
    maxCalls |-> 3, maxClock |-> 1, maxFaults |-> 1,
    calls |-> {Call(shell, {}, i1, x1), Call(shell, {}, i2, x1),
               Call(shell, {}, NoId, x1), Call(shell, {}, NoId, NoCtx)}]}

=============================================================================
