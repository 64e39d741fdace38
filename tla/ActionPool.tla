------------------------------- MODULE ActionPool -------------------------------
(***************************************************************************)
(* What the hook bridge promises of the events its rules trigger on: every   *)
(* trigger is at one place at a time, waiting for an action, in an action,   *)
(* finished or dropped, it only moves forward, nothing is dropped while in   *)
(* an action, and nothing new comes in once the bridge was stopped.          *)
(* HookBridgeDispatch implements it.                                         *)
(***************************************************************************)
EXTENDS Naturals, FiniteSets

CONSTANT Workers   \* actions that may run at a time

VARIABLES
  waiting, active,     \* triggers that wait, triggers of the actions that run
  finished, dropped,
  slots,               \* actions that run
  open                 \* the bridge takes events

poolVars == <<waiting, active, finished, dropped, slots, open>>

All == waiting \cup active \cup finished \cup dropped

Init ==
  /\ waiting = {} /\ active = {} /\ finished = {} /\ dropped = {}
  /\ slots = 0 /\ open = TRUE

\* A trigger is in one place.
Partition ==
  /\ waiting \cap (active \cup finished \cup dropped) = {}
  /\ active \cap (finished \cup dropped) = {}
  /\ finished \cap dropped = {}

\* An event comes: its triggers wait, run or are dropped, and may drop or release others.
Accept ==
  /\ open /\ open' = open
  /\ All \subseteq All'
  /\ active \subseteq active' /\ finished' = finished /\ dropped \subseteq dropped'
  /\ slots' \in slots..Workers
  /\ Partition'

\* One action ends; waiting triggers may take its place.
Complete ==
  /\ slots > 0
  /\ All' = All /\ waiting' \subseteq waiting
  /\ finished \subseteq finished' /\ finished' # finished /\ finished' \subseteq finished \cup active
  /\ dropped' = dropped /\ slots' \in {slots - 1, slots} /\ open' = open
  /\ Partition'

Close == open' = FALSE /\ UNCHANGED <<waiting, active, finished, dropped, slots>>

Next == Accept \/ Complete \/ Close

Spec == Init /\ [][Next]_poolVars
=============================================================================
