--------------------------- MODULE BroadcastServer ---------------------------
(***************************************************************************)
(* The WebSocket server (broadcast/websocketServer.ts) and the event log   *)
(* (EventFileLogger) of a runtime as the plugin starts and stops them on   *)
(* activation, role changes and deactivation (index.ts).  The two share    *)
(* nothing else, so a runtime is configured for one of them: for the       *)
(* server without the log, or for the log with EVENT_PLUGIN_DISABLE_WS.    *)
(*                                                                         *)
(* stop() waits for the clients of the server; the module-level singleton  *)
(* is forgotten only then.  Whatever happens during that wait meets the    *)
(* instance that is still closing.  An instance has at most one server     *)
(* that is not closed (this.wss); a closed one only completes its stop().  *)
(* startupGeneration is abstracted: callbacks of a server that is not      *)
(* this.wss and timers of an older startup have no effect, and a timer is  *)
(* always cleared before the generation changes.                           *)
(***************************************************************************)
EXTENDS EventFileLogger

CONSTANTS NPorts,     \* number of configured ports
          MaxTerms,   \* bound: promotions
          MaxCycles,  \* bound: deactivations
          MaxMoves,   \* bound: ports other processes take or free
          MaxFaults   \* bound: server errors other than a port in use

ASSUME BroadcastConstants ==
  /\ NPorts \in Nat \ {0} /\ MaxTerms \in Nat
  /\ MaxCycles \in Nat /\ MaxMoves \in Nat /\ MaxFaults \in Nat

VARIABLES
  phase,      \* off, disabled, follower, owner, or stopping (deactivate awaits)
  service,    \* what the runtime is configured to serve: "websocket" or "log"
  wsEnabled,  \* state.websocketEnabled
  queue,      \* state.queue is defined
  singleton,  \* broadcastServer: an instance, or 0 for null
  inst,       \* the instances constructed so far, in order
  taken,      \* ports other processes hold
  terms, cycles, moves, faults,
  early       \* history: a promotion met a server that was still closing

plugin == <<service, phase, wsEnabled, queue>>
servers == <<singleton, inst>>
counts == <<terms, cycles, moves, faults>>
rest == <<plugin, servers, taken, counts, early>>
vars == <<rest, logVars>>

Ports == 1..NPorts
configuredPorts == [p \in Ports |-> p]

\* wss is the server that is not closed yet; closing counts stop() calls that wait.
NewInstance ==
  [wss |-> "none", port |-> 0, left |-> <<>>, running |-> FALSE,
   retry |-> FALSE, closing |-> 0]

Init ==
  /\ service \in {"websocket", "log"}
  /\ phase = "off" /\ wsEnabled = TRUE /\ queue = FALSE
  /\ singleton = 0 /\ inst = <<>>
  /\ taken \in IF service = "log" THEN {{}} ELSE SUBSET Ports
  /\ LogInit
  /\ terms = 0 /\ cycles = 0 /\ moves = 0 /\ faults = 0
  /\ early = FALSE

\* Mutant: the port after the last configured one is tried as well.
TryStartNextPortAnyPort(s) ==
  IF s.left = <<>> /\ s.port = NPorts THEN [s EXCEPT !.wss = "binding", !.port = NPorts + 1]
  ELSE IF s.left = <<>> THEN [s EXCEPT !.running = FALSE, !.retry = TRUE]
  ELSE [s EXCEPT !.wss = "binding", !.port = Head(s.left), !.left = Tail(s.left)]

\* tryStartNextPort, with scheduleRetry when no port is left.
TryStartNextPort(s) ==
  IF s.left = <<>> THEN [s EXCEPT !.running = FALSE, !.retry = TRUE]
  ELSE [s EXCEPT !.wss = "binding", !.port = Head(s.left), !.left = Tail(s.left)]

\* start()
Started(s) ==
  IF s.running \/ s.wss # "none" THEN s
  ELSE TryStartNextPort([s EXCEPT !.retry = FALSE, !.left = configuredPorts])

\* startBroadcastServer, which constructs the singleton when there is none.
StartBroadcastServer ==
  LET known == IF singleton = 0 THEN Append(inst, NewInstance) ELSE inst
      i == IF singleton = 0 THEN Len(known) ELSE singleton
  IN singleton' = i /\ inst' = [known EXCEPT ![i] = Started(@)]

\* Mutant: stop() without a server leaves the retry timer armed.
StopKeepsRetry ==
  IF singleton = 0 THEN UNCHANGED servers
  ELSE LET s == inst[singleton] IN
       IF s.wss = "none" THEN singleton' = 0 /\ UNCHANGED inst
       ELSE IF s.wss = "listening"
       THEN /\ inst' = [inst EXCEPT ![singleton].retry = FALSE, ![singleton].wss = "none",
                                    ![singleton].closing = @ + 1]
            /\ UNCHANGED singleton
       ELSE /\ inst' = [inst EXCEPT ![singleton].retry = FALSE, ![singleton].wss = "none",
                                    ![singleton].running = FALSE]
            /\ singleton' = 0

\* stopBroadcastServer.  A server that does not listen has nobody to wait for and
\* closes before anything else happens; one that listens closes when its clients left.
StopBroadcastServer ==
  IF singleton = 0 THEN UNCHANGED servers
  ELSE LET s == inst[singleton]
           stopped == [s EXCEPT !.retry = FALSE, !.wss = "none"]
       IN CASE s.wss = "none" ->
                 inst' = [inst EXCEPT ![singleton] = stopped] /\ singleton' = 0
            [] s.wss = "listening" ->
                 /\ inst' = [inst EXCEPT ![singleton] = [stopped EXCEPT !.closing = @ + 1]]
                 /\ UNCHANGED singleton
            [] OTHER ->
                 /\ inst' = [inst EXCEPT ![singleton] = [stopped EXCEPT !.running = FALSE]]
                 /\ singleton' = 0

-----------------------------------------------------------------------------
(* Activation, role changes, deactivation                                  *)

\* maybeStartWebSocketServer
MaybeStartWebSocketServer ==
  /\ wsEnabled' = (service = "websocket")
  /\ IF service = "websocket" THEN StartBroadcastServer ELSE StopBroadcastServer

\* onRoleChange('owner'), with maybeInitializeQueue.
BecomeOwner ==
  /\ terms < MaxTerms /\ terms' = terms + 1
  /\ phase' = "owner" /\ queue' = TRUE
  /\ IF service = "log" /\ current = 0 THEN StartLog ELSE UNCHANGED logVars
  /\ MaybeStartWebSocketServer
  /\ early' = (early \/ \E i \in DOMAIN inst : inst[i].closing > 0)

\* activate() of a plugin that is not initialized: the manager may own at once.
\* A manager that starts as follower reports no role change.
Activate ==
  /\ phase = "off"
  /\ \/ BecomeOwner
     \/ phase' = "follower" /\ UNCHANGED <<wsEnabled, queue, servers, terms, early, logVars>>
     \/ /\ phase' = "disabled" /\ wsEnabled' = FALSE
        /\ StopBroadcastServer
        /\ UNCHANGED <<queue, terms, early, logVars>>
  /\ UNCHANGED <<service, taken, cycles, moves, faults>>

Promote ==
  /\ phase = "follower"
  /\ BecomeOwner
  /\ UNCHANGED <<service, taken, cycles, moves, faults>>

\* onRoleChange('follower')
Demote ==
  /\ phase = "owner"
  /\ phase' = "follower" /\ wsEnabled' = FALSE /\ queue' = FALSE
  /\ StopBroadcastServer
  /\ StopLog
  /\ UNCHANGED <<service, taken, counts, early>>

\* deactivate() until the manager has stopped: the server still serves.
Deactivate ==
  /\ phase \in {"disabled", "follower", "owner"}
  /\ cycles < MaxCycles /\ cycles' = cycles + 1
  /\ phase' = "stopping"
  /\ UNCHANGED <<service, wsEnabled, queue, servers, taken, terms, moves, faults, early, logVars>>

\* The rest of deactivate(): resetState, then stopBroadcastServer.
ResetState ==
  /\ phase = "stopping"
  /\ phase' = "off" /\ wsEnabled' = TRUE /\ queue' = FALSE
  /\ StopBroadcastServer
  /\ StopLog
  /\ UNCHANGED <<service, taken, counts, early>>

-----------------------------------------------------------------------------
(* Callbacks and timers of server instance i                               *)

InUse(p) ==
  \/ p \in taken
  \/ \E j \in DOMAIN inst : inst[j].wss = "listening" /\ inst[j].port = p

Listening(i) ==
  /\ inst[i].wss = "binding" /\ ~InUse(inst[i].port)
  /\ inst' = [inst EXCEPT ![i].wss = "listening", ![i].running = TRUE]
  /\ UNCHANGED <<plugin, singleton, taken, counts, early, logVars>>

\* 'error' with EADDRINUSE: the next port.
AddressInUse(i) ==
  /\ inst[i].wss = "binding" /\ InUse(inst[i].port)
  /\ inst' = [inst EXCEPT ![i] = TryStartNextPort([@ EXCEPT !.wss = "none"])]
  /\ UNCHANGED <<plugin, singleton, taken, counts, early, logVars>>

\* Any other 'error': the server object stays, listening or not.
ServerError(i) ==
  /\ inst[i].wss \in {"binding", "listening"}
  /\ faults < MaxFaults /\ faults' = faults + 1
  /\ inst' = [inst EXCEPT ![i].wss = IF @ = "binding" THEN "failed" ELSE @,
                          ![i].running = FALSE]
  /\ UNCHANGED <<plugin, singleton, taken, terms, cycles, moves, early, logVars>>

\* A stop() of i completes, and the stopBroadcastServer that awaited it goes on:
\* it forgets the singleton, whichever instance that is by now.
Closed(i) ==
  /\ inst[i].closing > 0
  /\ inst' = [inst EXCEPT ![i].closing = @ - 1, ![i].running = FALSE]
  /\ singleton' = 0
  /\ UNCHANGED <<plugin, taken, counts, early, logVars>>

\* Mutant: the ports that were tried are not offered again.
RetryTimerKeepsPorts(i) ==
  /\ inst[i].retry
  /\ inst' = [inst EXCEPT ![i] =
       IF @.wss # "none" \/ @.running THEN [@ EXCEPT !.retry = FALSE]
       ELSE TryStartNextPort([@ EXCEPT !.retry = FALSE])]
  /\ UNCHANGED <<plugin, singleton, taken, counts, early, logVars>>

RetryTimer(i) ==
  /\ inst[i].retry
  /\ inst' = [inst EXCEPT ![i] =
       IF @.wss # "none" \/ @.running THEN [@ EXCEPT !.retry = FALSE]
       ELSE TryStartNextPort([@ EXCEPT !.retry = FALSE, !.left = configuredPorts])]
  /\ UNCHANGED <<plugin, singleton, taken, counts, early, logVars>>

\* Another process takes a free port or frees one.
PortMoves ==
  /\ service = "websocket"
  /\ moves < MaxMoves /\ moves' = moves + 1
  /\ \/ \E p \in Ports : ~InUse(p) /\ taken' = taken \cup {p}
     \/ \E p \in taken : taken' = taken \ {p}
  /\ UNCHANGED <<plugin, servers, terms, cycles, faults, early, logVars>>

\* Events reach transportEvent while the runtime owns the transport.
LogEvent == service = "log" /\ EventComes /\ UNCHANGED rest

LogOpened(i) == Opened(i) /\ UNCHANGED rest
LogStartFails(i) == StartFails(i) /\ UNCHANGED rest
LogGoesOn(i) == (Truncated(i) \/ Written(i)) /\ UNCHANGED rest

Next ==
  \/ Activate \/ Promote \/ Demote \/ Deactivate \/ ResetState
  \/ \E i \in DOMAIN inst :
       Listening(i) \/ AddressInUse(i) \/ ServerError(i) \/ Closed(i) \/ RetryTimer(i)
  \/ PortMoves
  \/ phase = "owner" /\ LogEvent
  \/ \E i \in DOMAIN logs : LogOpened(i) \/ LogStartFails(i) \/ LogGoesOn(i)

Spec == Init /\ [][Next]_vars

\* The operating system answers listen and file system calls, clients leave a closing
\* server, timers fire.
\* Instances are constructed at most once per promotion.
FairSpec ==
  /\ Spec
  /\ \A i \in 1..MaxTerms :
       /\ WF_vars(i \in DOMAIN inst /\ (Listening(i) \/ AddressInUse(i)))
       /\ WF_vars(i \in DOMAIN inst /\ Closed(i))
       /\ WF_vars(i \in DOMAIN inst /\ RetryTimer(i))
  /\ WF_vars(\E i \in DOMAIN logs : LogOpened(i) \/ LogGoesOn(i))

-----------------------------------------------------------------------------

\* The values of the variables.
TypeOK ==
  /\ phase \in {"off", "disabled", "follower", "owner", "stopping"}
  /\ {wsEnabled, queue, early} \subseteq BOOLEAN
  /\ singleton \in 0..Len(inst) /\ Len(inst) <= terms
  /\ \A i \in DOMAIN inst :
       inst[i] \in [wss : {"none", "binding", "listening", "failed"}, port : 0..NPorts,
                    left : Seq(Ports), running : BOOLEAN, retry : BOOLEAN,
                    closing : 0..MaxTerms]
  /\ taken \subseteq Ports
  /\ terms \in 0..MaxTerms /\ cycles \in 0..MaxCycles
  /\ moves \in 0..MaxMoves /\ faults \in 0..MaxFaults
  /\ service = "websocket" => logs = <<>>
  /\ service = "log" => inst = <<>>
  /\ {current, readyOf} \subseteq {0, Len(logs)} /\ (current = 0 <=> readyOf = 0)
  /\ written \subseteq 1..events /\ excused \subseteq 1..events

Serving ==
  wsEnabled /\ singleton # 0 /\ inst[singleton].running /\ inst[singleton].wss = "listening"

Silent ==
  /\ \A i \in DOMAIN inst : inst[i].wss # "listening"
  /\ ~queue /\ current = 0

\* "A demoted owner must release the singleton WebSocket server immediately so
\* followers never continue serving broadcast traffic." (index.ts:263).  Not so after a
\* stop() that completes late: it makes the plugin forget the next server, which no
\* later demotion can stop.
FollowerSilent == phase \in {"off", "disabled", "follower"} => Silent

\* As long as no promotion met a server that was still closing, FollowerSilent holds,
\* only the singleton has a server or a retry pending, and the singleton of an owner
\* always has one of them: no startup dies out (tryStartNextPort, scheduleRetry) and none
\* survives its stop (stopBroadcastServer, onRoleChange, deactivate).  An owner has its
\* log unless a start failed, of this log or of an earlier one (initializeEventFileLogger).
RoleFollowedUnlessEarly ==
  ~early =>
    /\ FollowerSilent
    /\ \A i \in DOMAIN inst : i # singleton => inst[i].wss = "none" /\ ~inst[i].retry
    /\ service = "websocket" /\ phase = "owner" =>
         singleton # 0 /\ (inst[singleton].wss # "none" \/ inst[singleton].retry)
    /\ service = "log" /\ phase = "owner" /\ failures = 0 => current # 0

\* A runtime that stays owner while some port stays free broadcasts from some time on
\* (fallback ports, scheduleRetry), unless it was promoted while closing or the
\* server reported another error, after which the code does not start again.
OwnerServes ==
  <>[](service = "websocket" /\ phase = "owner" /\ taken # Ports /\ ~early /\ faults = 0) => <>[]Serving

=============================================================================
