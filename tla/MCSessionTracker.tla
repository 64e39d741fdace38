--------------------------- MODULE MCSessionTracker ---------------------------
(* Model-checking instance of SessionTracker: two sessions of one agent, the first with
   a thread-scoped key, a run and two routes, the second with a channel and one route. *)
EXTENDS SessionTracker

CONSTANTS s, t, run, east, west, other

MCRunOf == [r \in {run} |-> s]
MCRouteOf == [r \in {east, west, other} |-> IF r = other THEN t ELSE s]
MCKeyKind == [x \in {s, t} |-> IF x = s THEN "thread" ELSE "channel"]
MCKeyRoute == [x \in {s, t} |-> IF x = s THEN east ELSE NoRoute]

Hook(x, ids, keys, r, o) == [by |-> x, ids |-> ids, keys |-> keys, run |-> r, route |-> o]

\* The host may tell the id, the alias or both, or name the thread, its run and a route.
MCHooks ==
  UNION {{Hook(x, {Id(x)}, {}, NoRun, NoRoute), Hook(x, {}, {Alias}, NoRun, NoRoute),
          Hook(x, {Id(x)}, {Alias}, NoRun, NoRoute)} : x \in Sessions}
  \cup {Hook(s, {Id(s)}, {Key(s)}, run, east), Hook(s, {}, {Key(s), Alias}, NoRun, west),
        Hook(s, {}, {Alias}, run, NoRoute),
        Hook(t, {Id(t)}, {Key(t)}, NoRun, other)}
=============================================================================
