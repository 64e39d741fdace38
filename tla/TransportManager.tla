--------------------------- MODULE TransportManager ---------------------------
(***************************************************************************)
(* One TransportManager (src/src/transport/manager.ts): its role, its three *)
(* timers, its relay servers and the queue of events it relays to the owner.*)
(* An action is one JavaScript turn: a call, a timer or socket callback, or *)
(* the part of flushPendingFollowerEvents between two awaits.  The lock and *)
(* the other runtimes are reduced to one bit, rival: another runtime owns   *)
(* the transport.  TransportLock is where that bit comes from.              *)
(***************************************************************************)
EXTENDS Naturals, Sequences

CONSTANTS Modes,       \* values of config.mode the instance starts from
          MaxPending,  \* config.maxPendingEvents
          MaxEvents,   \* bound: events dispatched
          MaxFaults,   \* bound: failures, and comings and goings of the rival
          Drains       \* possible values of drainsFast

ASSUME ManagerConstants ==
  /\ Modes \subseteq {"owner", "follower", "auto"}
  /\ MaxPending \in Nat \ {0} /\ MaxEvents \in Nat /\ MaxFaults \in Nat
  /\ Drains \subseteq BOOLEAN

VARIABLES
  mode,       \* config.mode
  drainsFast, \* a closed server has always drained when the recovery timer fires
  life,       \* "new", "running", "stopping" (stop awaits its server), "stopped"
  role,
  ownsLock,
  server,     \* this.server is set
  closing,    \* servers that were closed and still have open connections
  heartbeat, retry, recovery,   \* the timers that are armed
  pending,    \* pendingEvents
  flush,      \* what flushPendingFollowerEvents awaits: "idle", "local" or "relay"
  inflight,   \* the event sendToOwner was called with, 0 for none
  rival,      \* another runtime owns the transport
  dispatched, \* events 1..dispatched were handed to dispatch()
  processed,  \* history: events given to onOwnerEvent
  remote,     \* history: events a rival processed
  dropped,    \* history: events the overflow policy shifted
  raced,      \* history: the overflow policy shifted an event being relayed
  faults

timers == <<heartbeat, retry, recovery>>
ownership == <<role, ownsLock, server>>
relaying == <<pending, flush, inflight>>
history == <<dispatched, processed, remote, dropped, raced>>
config == <<mode, drainsFast>>
vars == <<config, life, ownership, closing, timers, relaying, rival, history, faults>>

Init ==
  /\ mode \in Modes /\ drainsFast \in Drains
  /\ life = "new"
  /\ role = "follower" /\ ownsLock = FALSE /\ server = FALSE /\ closing = 0
  /\ heartbeat = FALSE /\ retry = FALSE /\ recovery = FALSE
  /\ pending = <<>> /\ flush = "idle" /\ inflight = 0
  /\ rival \in BOOLEAN
  /\ dispatched = 0 /\ processed = {} /\ remote = {} /\ dropped = {} /\ raced = FALSE
  /\ faults = 0

stopped == life \in {"stopping", "stopped"}

Fault == faults < MaxFaults /\ faults' = faults + 1

-----------------------------------------------------------------------------
(* Ownership *)

\* acquireLock: exclusive while the rival lives; otherwise it may still fail.
\* The heartbeat timer is armed only when the first heartbeat could be written.
BecomeOwner ==
  /\ ~rival
  /\ role' = "owner" /\ ownsLock' = TRUE /\ server' = TRUE /\ recovery' = FALSE
  /\ \/ heartbeat' = TRUE /\ UNCHANGED faults
     \/ heartbeat' = FALSE /\ Fault

AcquireFails ==
  /\ \/ rival /\ UNCHANGED faults
     \/ ~rival /\ Fault
  /\ role' = "follower"
  /\ UNCHANGED <<ownsLock, server, heartbeat>>

\* Mutant: the heartbeat interval of the lost term is not cleared.
HandleOwnerFailureKeepsBeat(c) ==
  IF stopped \/ role # "owner"
  THEN closing' = c /\ UNCHANGED <<ownership, timers>>
  ELSE /\ closing' = c + (IF server THEN 1 ELSE 0)
       /\ role' = "follower" /\ ownsLock' = FALSE /\ server' = FALSE
       /\ recovery' = (recovery \/ mode # "follower")
       /\ retry' = (retry \/ pending # <<>>)
       /\ UNCHANGED heartbeat

\* handleOwnerFailure, from any callback; c servers remain to be drained besides.
HandleOwnerFailure(c) ==
  IF stopped \/ role # "owner"
  THEN closing' = c /\ UNCHANGED <<ownership, timers>>
  ELSE /\ closing' = c + (IF server THEN 1 ELSE 0)
       /\ role' = "follower" /\ ownsLock' = FALSE /\ server' = FALSE /\ heartbeat' = FALSE
       /\ recovery' = (recovery \/ mode # "follower")
       /\ retry' = (retry \/ pending # <<>>)

Start ==
  /\ life = "new"
  /\ life' = "running"
  /\ \/ mode = "follower" /\ UNCHANGED <<ownership, heartbeat, recovery, faults>>
     \/ mode # "follower" /\ BecomeOwner
     \/ mode # "follower" /\ AcquireFails /\ recovery' = TRUE
  /\ UNCHANGED <<config, closing, retry, relaying, rival, history>>

\* Mutant: a failed attempt is not followed by another one.
RecoveryTimerOnce ==
  /\ recovery
  /\ drainsFast => closing = 0
  /\ \/ /\ stopped \/ role = "owner"
        /\ recovery' = FALSE /\ UNCHANGED <<ownership, heartbeat, faults>>
     \/ ~stopped /\ role # "owner" /\ BecomeOwner
     \/ ~stopped /\ role # "owner" /\ AcquireFails /\ recovery' = FALSE
  /\ UNCHANGED <<config, life, closing, retry, relaying, rival, history>>

\* scheduleOwnerRecovery's timer.
RecoveryTimer ==
  /\ recovery
  /\ drainsFast => closing = 0
  /\ \/ /\ stopped \/ role = "owner"
        /\ recovery' = FALSE /\ UNCHANGED <<ownership, heartbeat, faults>>
     \/ ~stopped /\ role # "owner" /\ BecomeOwner
     \/ ~stopped /\ role # "owner" /\ AcquireFails /\ recovery' = TRUE
  /\ UNCHANGED <<config, life, closing, retry, relaying, rival, history>>

\* The heartbeat interval cannot write the lock, or the server reports an error.
OwnerFails ==
  /\ heartbeat \/ server
  /\ Fault
  /\ HandleOwnerFailure(closing)
  /\ UNCHANGED <<config, life, relaying, rival, history>>

\* 'close' of a server that was closed earlier, whichever server is current.
ServerClosed ==
  /\ closing > 0
  /\ HandleOwnerFailure(closing - 1)
  /\ UNCHANGED <<config, life, relaying, rival, history, faults>>

\* Mutant: stop() leaves the recovery timer armed.
StopKeepsRecovery ==
  /\ life = "running"
  /\ life' = IF server THEN "stopping" ELSE "stopped"
  /\ heartbeat' = FALSE /\ retry' = FALSE /\ server' = FALSE
  /\ ownsLock' = (server /\ ownsLock)
  /\ UNCHANGED <<config, role, recovery, closing, relaying, rival, history, faults>>

\* stop(): timers and server go at once, the lock when the server has drained.
Stop ==
  /\ life = "running"
  /\ life' = IF server THEN "stopping" ELSE "stopped"
  /\ heartbeat' = FALSE /\ retry' = FALSE /\ recovery' = FALSE /\ server' = FALSE
  /\ ownsLock' = (server /\ ownsLock)
  /\ UNCHANGED <<config, role, closing, relaying, rival, history, faults>>

\* Its server has drained: stop() goes on to release the lock.
StopClosed ==
  /\ life = "stopping"
  /\ life' = "stopped" /\ ownsLock' = FALSE
  /\ UNCHANGED <<config, role, server, closing, timers, relaying, rival, history, faults>>

-----------------------------------------------------------------------------
(* Events *)

\* Mutant: the capacity check is off by one.
EnqueueOffByOne(e) ==
  IF Len(pending) > MaxPending
  THEN /\ pending' = Append(Tail(pending), e)
       /\ dropped' = dropped \cup {Head(pending)}
       /\ raced' = (raced \/ flush = "relay")
  ELSE pending' = Append(pending, e) /\ UNCHANGED <<dropped, raced>>

\* enqueueForFollowerRelay: a full queue loses its head, in flight or not.
Enqueue(e) ==
  IF Len(pending) >= MaxPending
  THEN /\ pending' = Append(Tail(pending), e)
       /\ dropped' = dropped \cup {Head(pending)}
       /\ raced' = (raced \/ flush = "relay")
  ELSE pending' = Append(pending, e) /\ UNCHANGED <<dropped, raced>>

Dispatch ==
  /\ life # "new" /\ dispatched < MaxEvents
  /\ dispatched' = dispatched + 1
  /\ \/ /\ role = "owner"
        /\ processed' = processed \cup {dispatched'}
        /\ UNCHANGED <<pending, dropped, raced, retry>>
     \/ /\ role # "owner"
        /\ Enqueue(dispatched')
        /\ retry' = (retry \/ ~stopped)
        /\ UNCHANGED processed
  /\ UNCHANGED <<config, life, ownership, closing, heartbeat, recovery, flush, inflight,
                 rival, remote, faults>>

\* Mutant: the event is shifted off the queue before it is sent.
ContinueShiftsFirst(q, currentRole) ==
  IF q = <<>> \/ stopped
  THEN flush' = "idle" /\ inflight' = 0 /\ pending' = q /\ UNCHANGED processed
  ELSE IF currentRole = "owner"
  THEN /\ flush' = "local" /\ inflight' = 0 /\ pending' = Tail(q)
       /\ processed' = processed \cup {Head(q)}
  ELSE flush' = "relay" /\ inflight' = Head(q) /\ pending' = Tail(q) /\ UNCHANGED processed

\* The loop of flushPendingFollowerEvents up to its next await, with the queue q
\* and the role as they are now; without more to do it ends.
Continue(q, currentRole) ==
  IF q = <<>> \/ stopped
  THEN flush' = "idle" /\ inflight' = 0 /\ pending' = q /\ UNCHANGED processed
  ELSE IF currentRole = "owner"
  THEN /\ flush' = "local" /\ inflight' = 0 /\ pending' = Tail(q)
       /\ processed' = processed \cup {Head(q)}
  ELSE flush' = "relay" /\ inflight' = Head(q) /\ pending' = q /\ UNCHANGED processed

RetryTimer ==
  /\ retry
  /\ retry' = FALSE
  /\ IF flush # "idle" THEN UNCHANGED <<relaying, processed>> ELSE Continue(pending, role)
  /\ UNCHANGED <<config, life, ownership, closing, heartbeat, recovery, rival,
                 dispatched, remote, dropped, raced, faults>>

\* Mutant: the loop ends after one event that was processed locally.
LocalDoneStops ==
  /\ flush = "local"
  /\ flush' = "idle"
  /\ UNCHANGED <<config, life, ownership, closing, timers, pending, inflight, rival,
                 history, faults>>

\* onOwnerEvent resolves.
LocalDone ==
  /\ flush = "local"
  /\ Continue(pending, role)
  /\ UNCHANGED <<config, life, ownership, closing, timers, rival,
                 dispatched, remote, dropped, raced, faults>>

\* sendToOwner resolves: the head of the queue is shifted, whatever it is now.
RelayAcked ==
  /\ flush = "relay" /\ rival
  /\ remote' = remote \cup {inflight}
  /\ Continue(Tail(pending), role)
  /\ UNCHANGED <<config, life, ownership, closing, timers, rival,
                 dispatched, dropped, raced, faults>>

\* sendToOwner rejects: nobody listens, or the answer is late or lost, with or
\* without the rival having processed the event.  Only mode "auto" promotes here.
RelayFails ==
  /\ flush = "relay"
  /\ remote' \in {remote} \cup (IF rival THEN {remote \cup {inflight}} ELSE {})
  /\ \/ /\ mode = "auto" /\ role = "follower" /\ BecomeOwner
        /\ Continue(pending, "owner")
        /\ UNCHANGED retry
     \/ /\ \/ rival /\ Fault /\ UNCHANGED <<ownership, heartbeat>>
           \/ ~rival /\ mode = "auto" /\ role = "follower" /\ AcquireFails
           \/ /\ ~rival /\ (mode # "auto" \/ role # "follower")
              /\ UNCHANGED <<ownership, heartbeat, faults>>
        /\ flush' = "idle" /\ inflight' = 0 /\ UNCHANGED <<pending, processed, recovery>>
        /\ retry' = (retry \/ ~stopped)
  /\ UNCHANGED <<config, life, closing, rival, dispatched, dropped, raced>>

-----------------------------------------------------------------------------
(* The other runtimes *)

RivalComesOrGoes ==
  /\ Fault
  /\ rival \/ ~ownsLock
  /\ rival' = ~rival
  /\ UNCHANGED <<config, life, ownership, closing, timers, relaying, history>>

Next ==
  \/ Start \/ RecoveryTimer \/ OwnerFails \/ ServerClosed \/ Stop \/ StopClosed
  \/ Dispatch \/ RetryTimer \/ LocalDone \/ RelayAcked \/ RelayFails
  \/ RivalComesOrGoes

Spec == Init /\ [][Next]_vars

\* Timers fire, connections drain, and every await is answered or timed out.
FairSpec ==
  /\ Spec
  /\ WF_vars(RecoveryTimer) /\ WF_vars(RetryTimer) /\ WF_vars(ServerClosed)
  /\ WF_vars(StopClosed) /\ WF_vars(LocalDone) /\ WF_vars(RelayAcked \/ RelayFails)

-----------------------------------------------------------------------------

\* The values of the variables.
TypeOK ==
  /\ mode \in {"owner", "follower", "auto"}
  /\ life \in {"new", "running", "stopping", "stopped"}
  /\ role \in {"owner", "follower"}
  /\ {drainsFast, ownsLock, server, heartbeat, retry, recovery, rival, raced} \subseteq BOOLEAN
  /\ closing \in 0..MaxFaults + 1
  /\ pending \in Seq(1..MaxEvents) /\ Len(pending) <= MaxPending
  /\ flush \in {"idle", "local", "relay"} /\ inflight \in 0..MaxEvents
  /\ dispatched \in 0..MaxEvents /\ faults \in 0..MaxFaults
  /\ processed \cup remote \cup dropped \subseteq 1..dispatched

\* Role, lock, server and timers agree between any two turns: a follower holds
\* nothing, a running owner holds the lock, serves and has no recovery pending.
RoleConsistent ==
  /\ role = "follower" => ~ownsLock /\ ~server /\ ~heartbeat
  /\ role = "owner" /\ life = "running" => ownsLock /\ server /\ ~recovery

\* A runtime meant to own the transport is never left a follower without a timer
\* that will try again, whichever callback demoted it or lost the race.
RecoveryArmed ==
  life = "running" /\ mode # "follower" /\ role = "follower" => recovery

\* Queued events are never forgotten: a flush is under way or a timer will start one.
FlushArmed == life = "running" /\ pending # <<>> => retry \/ flush # "idle"

\* Both: what is meant to happen later always has a timer or a flush that will do it.
TimersArmed == RecoveryArmed /\ FlushArmed

Elements(s) == {s[i] : i \in DOMAIN s}

\* The log of a failed relay says the event remains queued (manager.ts:199), and
\* the only loss the docs know is the oldest event of a full queue
\* (docs/transport.md:113).  Broken: the ack shifts the event behind the one sent.
NoSilentLoss ==
  1..dispatched \subseteq Elements(pending) \cup processed \cup remote \cup dropped

\* The overflow of a queue whose head is being relayed is the only way to lose an
\* event silently; failures, promotions, demotions and timeouts never do.
NoSilentLossUnlessRaced == raced \/ NoSilentLoss

\* The queue keeps the order of dispatch, through retries and role changes.
QueueInOrder == \A i, j \in DOMAIN pending : i < j => pending[i] < pending[j]

\* After stop() nothing is armed, held or served any more.  Not in mode "auto",
\* where a relay that fails after stop() promotes the stopped manager (manager.ts:209);
\* the plugin itself resolves "auto" away before it makes a manager.
StopIsFinal ==
  life = "stopped" /\ mode # "auto" =>
    ~ownsLock /\ ~server /\ ~heartbeat /\ ~retry /\ ~recovery

\* An event that waits is processed by some owner or dropped by the overflow policy,
\* unless the runtime is stopped first or a follower has no owner to relay to.
\* Without drainsFast one failure can demote every later term of the owner and the
\* queue may never empty.
Settled(e) ==
  e \in processed \cup remote \cup dropped \/ raced \/ stopped \/ (mode = "follower" /\ ~rival)

EventsSettle ==
  drainsFast => \A e \in 1..MaxEvents : (e \in Elements(pending)) ~> Settled(e)
=============================================================================
