--------------------------- MODULE MCAgentActivity ---------------------------
(* A session of one agent spawns two sessions of another one.  The two         *)
(* children are alike; what one of them does the other need not.               *)
EXTENDS AgentActivity

CONSTANTS main, worker, sMain, sOne, sTwo

MCAgents == {main, worker}
MCSessions == {sMain, sOne, sTwo}
MCChildren == {sOne, sTwo}
MCAgentOf == [s \in MCSessions |-> IF s = sMain THEN main ELSE worker]

Hook(kind, s, c) ==
  [kind |-> kind, agent |-> IF s = NoSession THEN NoAgent ELSE MCAgentOf[s], session |-> s, child |-> c]

MCHooks ==
  {Hook("activity", sMain, NoSession), Hook("activity", sOne, NoSession),
   Hook("error", sMain, NoSession),
   Hook("session_end", sOne, NoSession), Hook("session_end", NoSession, NoSession),
   Hook("stop", NoSession, NoSession),
   Hook("spawned", sMain, sOne), Hook("spawned", NoSession, sTwo), Hook("ended", sMain, sOne)}

=============================================================================
