----------------------- MODULE TransportManager_proofs -----------------------
(***************************************************************************)
(* What one TransportManager guarantees for every capacity of its relay    *)
(* queue, any number of events and any number of failures.  Two inductive  *)
(* invariants: Control, about role, lock, server and timers, and Queue,    *)
(* about the events, which needs nothing of Control but the types.         *)
(***************************************************************************)
EXTENDS TransportManager, TLAPS

USE ManagerConstants

\* The flags and program counters; the queue and the histories are typed in Queue.
Flags ==
  /\ mode \in {"owner", "follower", "auto"}
  /\ life \in {"new", "running", "stopping", "stopped"}
  /\ role \in {"owner", "follower"}
  /\ flush \in {"idle", "local", "relay"}
  /\ ownsLock \in BOOLEAN /\ server \in BOOLEAN /\ heartbeat \in BOOLEAN
  /\ retry \in BOOLEAN /\ recovery \in BOOLEAN

\* A manager that was not started has done nothing.
Fresh ==
  life = "new" =>
    role = "follower" /\ pending = <<>> /\ flush = "idle" /\ ~retry /\ ~recovery

\* stop() disarms and closes at once; only the lock is kept until the server drained.
StopDisarms ==
  stopped /\ mode # "auto" => ~server /\ ~heartbeat /\ ~retry /\ ~recovery

Control ==
  /\ Flags /\ Fresh /\ RoleConsistent /\ RecoveryArmed /\ FlushArmed
  /\ StopDisarms /\ StopIsFinal

\* A turn of handleOwnerFailure keeps role, lock, server and timers consistent.
LEMMA FailureKeepsControl ==
  ASSUME Control, NEW c, HandleOwnerFailure(c),
         UNCHANGED <<config, life, relaying, rival, history>>
  PROVE  Control'
<1> USE DEF Control, Flags, Fresh, RoleConsistent, RecoveryArmed, FlushArmed,
            StopDisarms, StopIsFinal, stopped, config, relaying, history
<1>1. CASE stopped \/ role # "owner"
  BY <1>1 DEF HandleOwnerFailure, ownership, timers
<1>2. CASE ~(stopped \/ role # "owner")
  BY <1>2 DEF HandleOwnerFailure
<1>3. QED
  BY <1>1, <1>2

\* Every turn of the manager keeps Control.
LEMMA ControlStep == Control /\ [Next]_vars => Control'
<1> SUFFICES ASSUME Control, [Next]_vars PROVE Control'
  OBVIOUS
<1>1. CASE OwnerFails
  BY <1>1, FailureKeepsControl DEF OwnerFails
<1>2. CASE ServerClosed
  BY <1>2, FailureKeepsControl DEF ServerClosed
<1> USE DEF Control, Flags, Fresh, RoleConsistent, RecoveryArmed, FlushArmed,
            StopDisarms, StopIsFinal, stopped, config, relaying, history, ownership, timers
<1>3. CASE UNCHANGED vars
  BY <1>3 DEF vars
<1>4. CASE Start
  <2>1. CASE mode = "follower" /\ UNCHANGED <<ownership, heartbeat, recovery, faults>>
    BY <1>4, <2>1 DEF Start
  <2>2. CASE mode # "follower" /\ BecomeOwner
    BY <1>4, <2>2 DEF Start, BecomeOwner
  <2>3. CASE mode # "follower" /\ AcquireFails /\ recovery' = TRUE
    BY <1>4, <2>3 DEF Start, AcquireFails
  <2>4. QED
    BY <1>4, <2>1, <2>2, <2>3 DEF Start
<1>5. CASE RecoveryTimer
  <2>1. CASE /\ stopped \/ role = "owner"
             /\ recovery' = FALSE /\ UNCHANGED <<ownership, heartbeat, faults>>
    BY <1>5, <2>1 DEF RecoveryTimer
  <2>2. CASE ~stopped /\ role # "owner" /\ BecomeOwner
    BY <1>5, <2>2 DEF RecoveryTimer, BecomeOwner
  <2>3. CASE ~stopped /\ role # "owner" /\ AcquireFails /\ recovery' = TRUE
    BY <1>5, <2>3 DEF RecoveryTimer, AcquireFails
  <2>4. QED
    BY <1>5, <2>1, <2>2, <2>3 DEF RecoveryTimer
<1>6. CASE Stop
  BY <1>6 DEF Stop
<1>7. CASE StopClosed
  BY <1>7 DEF StopClosed
<1>8. CASE Dispatch
  <2>1. life' = life /\ life # "new" /\ flush' = flush
        /\ UNCHANGED <<config, ownership, heartbeat, recovery>>
    BY <1>8 DEF Dispatch
  <2>2. CASE role = "owner" /\ UNCHANGED <<pending, retry>>
    BY <2>1, <2>2
  <2>3. CASE retry' = (retry \/ ~stopped)
    BY <2>1, <2>3
  <2>4. QED
    BY <1>8, <2>2, <2>3 DEF Dispatch
<1>9. CASE RetryTimer
  BY <1>9 DEF RetryTimer, Continue
<1>10. CASE LocalDone
  BY <1>10 DEF LocalDone, Continue
<1>11. CASE RelayAcked
  BY <1>11 DEF RelayAcked, Continue
<1>12. CASE RelayFails
  <2>1. life' = life /\ flush = "relay" /\ UNCHANGED config
    BY <1>12 DEF RelayFails
  <2>2. CASE mode = "auto" /\ BecomeOwner /\ Continue(pending, "owner") /\ UNCHANGED retry
    BY <2>1, <2>2 DEF BecomeOwner, Continue
  <2>3. CASE flush' = "idle" /\ UNCHANGED <<pending, recovery>> /\ retry' = (retry \/ ~stopped)
             /\ UNCHANGED <<ownership, heartbeat>>
    BY <2>1, <2>3
  <2>4. CASE flush' = "idle" /\ UNCHANGED <<pending, recovery>> /\ retry' = (retry \/ ~stopped)
             /\ role = "follower" /\ AcquireFails
    BY <2>1, <2>4 DEF AcquireFails
  <2>5. QED
    BY <1>12, <2>2, <2>3, <2>4 DEF RelayFails
<1>13. CASE RivalComesOrGoes
  BY <1>13 DEF RivalComesOrGoes
<1>14. QED
  BY <1>1, <1>2, <1>3, <1>4, <1>5, <1>6, <1>7, <1>8, <1>9, <1>10, <1>11, <1>12, <1>13
     DEF Next

\* Control holds in every reachable state.
THEOREM ControlInvariance == Spec => []Control
<1>1. Init => Control
  BY DEF Init, Control, Flags, Fresh, RoleConsistent, RecoveryArmed, FlushArmed,
         StopDisarms, StopIsFinal, stopped
<1>2. QED
  BY <1>1, ControlStep, PTL DEF Spec

\* Role, lock, server and timers agree after every turn (manager.ts:238, 399).
THEOREM RolesAgree == Spec => []RoleConsistent
<1>1. Control => RoleConsistent
  BY DEF Control
<1>2. QED
  BY <1>1, ControlInvariance, PTL

\* A runtime meant to own the transport always has its next attempt armed
\* (scheduleOwnerRecovery).
THEOREM RecoveryIsArmed == Spec => []RecoveryArmed
<1>1. Control => RecoveryArmed
  BY DEF Control
<1>2. QED
  BY <1>1, ControlInvariance, PTL

\* Queued events always have a flush or a timer that will start one (scheduleFlush).
THEOREM FlushIsArmed == Spec => []FlushArmed
<1>1. Control => FlushArmed
  BY DEF Control
<1>2. QED
  BY <1>1, ControlInvariance, PTL

\* Whatever is meant to happen later is armed (scheduleOwnerRecovery, scheduleFlush).
THEOREM TimersAreArmed == Spec => []TimersArmed
<1>1. RecoveryArmed /\ FlushArmed => TimersArmed
  BY DEF TimersArmed
<1>2. QED
  BY <1>1, RecoveryIsArmed, FlushIsArmed, PTL

\* After stop() nothing is armed, held or served (stop).
THEOREM StopStays == Spec => []StopIsFinal
<1>1. Control => StopIsFinal
  BY DEF Control
<1>2. QED
  BY <1>1, ControlInvariance, PTL

-----------------------------------------------------------------------------

\* What Append and Tail do to the elements of a queue.
LEMMA AppendElements ==
  ASSUME NEW q \in Seq(Nat), NEW e \in Nat
  PROVE  Elements(Append(q, e)) = Elements(q) \cup {e}
<1>1. /\ DOMAIN q = 1..Len(q) /\ DOMAIN Append(q, e) = 1..Len(q) + 1
      /\ Len(q) \in Nat
      /\ \A i \in 1..Len(q) : Append(q, e)[i] = q[i]
      /\ Append(q, e)[Len(q) + 1] = e
  OBVIOUS
<1>2. \A i \in 1..Len(q) + 1 : i \in 1..Len(q) \/ i = Len(q) + 1
  BY <1>1
<1>3. /\ Len(q) + 1 \in 1..Len(q) + 1
      /\ \A i \in 1..Len(q) : i \in 1..Len(q) + 1
  BY <1>1
<1>4. ASSUME NEW x \in Elements(Append(q, e)) PROVE x \in Elements(q) \cup {e}
  BY <1>1, <1>2, <1>4 DEF Elements
<1>5. ASSUME NEW x \in Elements(q) \cup {e} PROVE x \in Elements(Append(q, e))
  BY <1>1, <1>3, <1>5 DEF Elements
<1>6. QED
  BY <1>4, <1>5

\* The elements behind the head of a queue.
LEMMA TailElements ==
  ASSUME NEW q \in Seq(Nat), q # <<>>
  PROVE  Elements(q) = {Head(q)} \cup Elements(Tail(q))
<1>1. ASSUME NEW x \in Elements(Tail(q)) PROVE x \in Elements(q)
  BY <1>1 DEF Elements
<1>2. ASSUME NEW x \in Elements(q), x # Head(q) PROVE x \in Elements(Tail(q))
  <2>1. PICK i \in 1..Len(q) : x = q[i]
    BY DEF Elements
  <2>2. i # 1
    BY <1>2, <2>1
  <2>3. i - 1 \in DOMAIN Tail(q) /\ Tail(q)[i - 1] = x
    BY <2>1, <2>2
  <2>4. QED
    BY <2>3 DEF Elements
<1>3. Head(q) \in Elements(q)
  BY DEF Elements
<1>4. QED
  BY <1>1, <1>2, <1>3

\* The relay queue as the code fills it: an increasing sequence of dispatched events,
\* whose head is the one in flight unless the overflow policy has shifted that.
QueueTyped ==
  /\ flush \in {"idle", "local", "relay"}
  /\ dispatched \in Nat /\ inflight \in Nat
  /\ raced \in BOOLEAN
  /\ pending \in Seq(Nat)
  /\ \A i \in DOMAIN pending : pending[i] <= dispatched

HeadInFlight ==
  flush = "relay" => pending # <<>> /\ (raced \/ inflight = Head(pending))

Queue == QueueTyped /\ HeadInFlight /\ QueueInOrder /\ NoSilentLossUnlessRaced

\* The part of Queue that the loop of a flush must find true of its queue q.
Relayable(q) ==
  /\ q \in Seq(Nat)
  /\ \A i \in DOMAIN q : q[i] <= dispatched
  /\ \A i, j \in DOMAIN q : i < j => q[i] < q[j]

\* Running the loop on to its next await keeps Queue, when the events that are
\* neither in q nor accounted for are none.
LEMMA ContinueKeepsQueue ==
  ASSUME Queue, NEW q, Relayable(q), NEW r, Continue(q, r),
         UNCHANGED <<dispatched, dropped, raced>>,
         remote \subseteq remote',
         raced \/ 1..dispatched \subseteq Elements(q) \cup processed \cup remote' \cup dropped
  PROVE  Queue'
<1> USE DEF Queue, QueueTyped, HeadInFlight, QueueInOrder, NoSilentLossUnlessRaced,
            NoSilentLoss, Relayable
<1>1. CASE q = <<>> \/ stopped
  <2>1. flush' = "idle" /\ inflight' = 0 /\ pending' = q /\ processed' = processed
    BY <1>1 DEF Continue
  <2>2. QED
    BY <2>1 DEF Elements
<1>2. CASE ~(q = <<>> \/ stopped) /\ r = "owner"
  <2>1. /\ flush' = "local" /\ inflight' = 0 /\ pending' = Tail(q)
        /\ processed' = processed \cup {Head(q)}
    BY <1>2 DEF Continue
  <2>2. Elements(q) = {Head(q)} \cup Elements(Tail(q))
    BY <1>2, TailElements
  <2>3. /\ Tail(q) \in Seq(Nat)
        /\ \A i \in DOMAIN Tail(q) : i + 1 \in DOMAIN q /\ Tail(q)[i] = q[i + 1]
        /\ \A i \in DOMAIN Tail(q) : i \in Nat
    BY <1>2
  <2>4. QueueTyped' /\ HeadInFlight'
    BY <2>1, <2>3
  <2>5. QueueInOrder'
    BY <2>1, <2>3
  <2>6. NoSilentLossUnlessRaced'
    BY <2>1, <2>2 DEF Elements
  <2>7. QED
    BY <2>4, <2>5, <2>6
<1>3. CASE ~(q = <<>> \/ stopped) /\ r # "owner"
  <2>1. flush' = "relay" /\ inflight' = Head(q) /\ pending' = q /\ processed' = processed
    BY <1>3 DEF Continue
  <2>2. QED
    BY <1>3, <2>1 DEF Elements
<1>4. QED
  BY <1>1, <1>2, <1>3

\* A new event goes to the end; a full queue loses its head to "dropped".
LEMMA DispatchKeepsQueue == Queue /\ Dispatch => Queue'
<1> SUFFICES ASSUME Queue, Dispatch PROVE Queue'
  OBVIOUS
<1> USE DEF Queue, QueueTyped, HeadInFlight, QueueInOrder, NoSilentLossUnlessRaced, NoSilentLoss
<1>1. /\ dispatched' = dispatched + 1 /\ 1..dispatched' = 1..dispatched \cup {dispatched'}
      /\ UNCHANGED <<flush, inflight, remote>>
  BY DEF Dispatch
<1>2. CASE processed' = processed \cup {dispatched'} /\ UNCHANGED <<pending, dropped, raced>>
  BY <1>1, <1>2 DEF Elements
<1>3. CASE Enqueue(dispatched') /\ UNCHANGED processed
  <2>1. CASE Len(pending) >= MaxPending
    <3> DEFINE rest == Tail(pending)
    <3>1. pending # <<>> /\ rest \in Seq(Nat)
      BY <2>1
    <3>2. /\ pending' = Append(rest, dispatched')
          /\ dropped' = dropped \cup {Head(pending)}
          /\ raced' = (raced \/ flush = "relay")
      BY <1>3, <2>1 DEF Enqueue
    <3>3. Elements(pending) = {Head(pending)} \cup Elements(rest)
      BY <3>1, TailElements
    <3>4. Elements(pending') = Elements(rest) \cup {dispatched'}
      <4> HIDE DEF rest
      <4>1. rest \in Seq(Nat) /\ dispatched' \in Nat /\ pending' = Append(rest, dispatched')
        BY <1>1, <3>1, <3>2
      <4>2. QED
        BY <4>1, AppendElements
    <3>5. /\ raced' \in BOOLEAN
          /\ raced => raced'
          /\ flush = "relay" => raced'
      BY <3>2
    <3>6. /\ pending' \in Seq(Nat) /\ Len(pending') = Len(pending) /\ pending' # <<>>
          /\ DOMAIN pending = 1..Len(pending) /\ DOMAIN pending' = 1..Len(pending)
          /\ \A i \in 1..Len(pending) - 1 : pending'[i] = pending[i + 1]
          /\ pending'[Len(pending)] = dispatched + 1
      BY <1>1, <3>1, <3>2
    <3>7. QueueTyped'
      <4>1. ASSUME NEW i \in DOMAIN pending' PROVE pending'[i] <= dispatched'
        <5>1. CASE i = Len(pending)
          BY <1>1, <3>6, <5>1
        <5>2. CASE i # Len(pending)
          <6>1. i \in 1..Len(pending) - 1 /\ i + 1 \in DOMAIN pending
            BY <3>6, <4>1, <5>2
          <6>2. QED
            BY <1>1, <3>6, <6>1
        <5>3. QED
          BY <5>1, <5>2
      <4>2. QED
        BY <1>1, <3>5, <3>6, <4>1
    <3>8. HeadInFlight'
      <4>1. CASE flush = "relay"
        BY <1>1, <3>5, <3>6, <4>1, Zenon
      <4>2. CASE flush # "relay"
        BY <1>1, <4>2
      <4>3. QED
        BY <4>1, <4>2
    <3>9. ASSUME NEW i \in DOMAIN pending', NEW j \in DOMAIN pending', i < j
          PROVE  pending'[i] < pending'[j]
      <4>1. i \in 1..Len(pending) - 1 /\ i + 1 \in DOMAIN pending
        BY <3>6, <3>9
      <4>2. CASE j = Len(pending)
        BY <3>6, <4>1, <4>2
      <4>3. CASE j # Len(pending)
        <5>1. j \in 1..Len(pending) - 1 /\ j + 1 \in DOMAIN pending /\ i + 1 < j + 1
          BY <3>6, <3>9, <4>3, SMTT(30)
        <5>2. QED
          BY <3>6, <4>1, <5>1
      <4>4. QED
        BY <4>2, <4>3
    <3>10. NoSilentLossUnlessRaced'
      BY <1>1, <1>3, <3>2, <3>3, <3>4, <3>5
    <3>11. QED
      BY <3>7, <3>8, <3>9, <3>10
  <2>2. CASE ~(Len(pending) >= MaxPending)
    <3>1. pending' = Append(pending, dispatched') /\ UNCHANGED <<dropped, raced>>
      BY <1>3, <2>2 DEF Enqueue
    <3>2. Elements(pending') = Elements(pending) \cup {dispatched'}
      BY <1>1, <3>1, AppendElements
    <3>3. NoSilentLossUnlessRaced'
      BY <1>1, <1>3, <3>1, <3>2
    <3>4. (QueueTyped /\ HeadInFlight /\ QueueInOrder)'
      BY <1>1, <3>1
    <3>5. QED
      BY <3>3, <3>4
  <2>3. QED
    BY <2>1, <2>2
<1>4. QED
  BY <1>2, <1>3 DEF Dispatch

\* Every turn of the manager keeps Queue.
LEMMA QueueStep == Queue /\ [Next]_vars => Queue'
<1> SUFFICES ASSUME Queue, [Next]_vars PROVE Queue'
  OBVIOUS
<1>a. Relayable(pending)
  BY DEF Queue, QueueTyped, QueueInOrder, Relayable
<1>b. raced \/ 1..dispatched \subseteq Elements(pending) \cup processed \cup remote \cup dropped
  BY DEF Queue, NoSilentLossUnlessRaced, NoSilentLoss
<1>c. CASE UNCHANGED <<relaying, history>>
  BY <1>c DEF Queue, QueueTyped, HeadInFlight, QueueInOrder, NoSilentLossUnlessRaced,
              NoSilentLoss, Elements, relaying, history
<1>1. CASE UNCHANGED vars \/ Start \/ RecoveryTimer \/ OwnerFails \/ ServerClosed
           \/ Stop \/ StopClosed \/ RivalComesOrGoes
  BY <1>1, <1>c DEF vars, Start, RecoveryTimer, OwnerFails, ServerClosed, Stop, StopClosed,
                    RivalComesOrGoes
<1>2. CASE Dispatch
  BY <1>2, DispatchKeepsQueue
<1>3. CASE RetryTimer
  <2>1. CASE flush # "idle"
    BY <1>3, <2>1, <1>c DEF RetryTimer, history
  <2>2. CASE flush = "idle"
    BY <1>3, <2>2, <1>a, <1>b, ContinueKeepsQueue DEF RetryTimer
  <2>3. QED
    BY <2>1, <2>2
<1>4. CASE LocalDone
  BY <1>4, <1>a, <1>b, ContinueKeepsQueue DEF LocalDone
<1>5. CASE RelayAcked
  <2>1. pending # <<>> /\ pending \in Seq(Nat) /\ (raced \/ inflight = Head(pending))
    BY <1>5 DEF RelayAcked, Queue, QueueTyped, HeadInFlight
  <2>2. Elements(pending) = {Head(pending)} \cup Elements(Tail(pending))
    BY <2>1, TailElements
  <2>3. Relayable(Tail(pending))
    BY <1>a, <2>1, SMTT(30) DEF Relayable, Queue, QueueTyped
  <2>4. remote' = remote \cup {inflight}
    BY <1>5 DEF RelayAcked
  <2>5. raced \/ 1..dispatched
          \subseteq Elements(Tail(pending)) \cup processed \cup remote' \cup dropped
    BY <1>b, <2>1, <2>2, <2>4
  <2>6. QED
    BY <1>5, <2>3, <2>4, <2>5, ContinueKeepsQueue DEF RelayAcked
<1>6. CASE RelayFails
  <2>1. remote \subseteq remote' /\ UNCHANGED <<dispatched, dropped, raced>>
    BY <1>6 DEF RelayFails
  <2>2. CASE Continue(pending, "owner")
    BY <2>1, <2>2, <1>a, <1>b, ContinueKeepsQueue
  <2>3. CASE flush' = "idle" /\ inflight' = 0 /\ UNCHANGED <<pending, processed>>
    BY <2>1, <2>3, <1>b DEF Queue, QueueTyped, HeadInFlight, QueueInOrder,
                             NoSilentLossUnlessRaced, NoSilentLoss, Elements
  <2>4. QED
    BY <1>6, <2>2, <2>3 DEF RelayFails
<1>7. QED
  BY <1>1, <1>2, <1>3, <1>4, <1>5, <1>6 DEF Next

\* Queue holds in every reachable state.
THEOREM QueueInvariance == Spec => []Queue
<1>1. ASSUME Init PROVE Queue
  <2>1. 1..0 = {}
    OBVIOUS
  <2>2. pending = <<>> /\ dispatched = 0 /\ flush = "idle" /\ inflight = 0 /\ raced = FALSE
    BY <1>1 DEF Init
  <2>3. NoSilentLoss
    BY <2>1, <2>2, Zenon DEF NoSilentLoss
  <2>4. QueueTyped /\ HeadInFlight /\ QueueInOrder
    <3>1. pending \in Seq(Nat) /\ DOMAIN pending = {}
      BY <2>2
    <3>2. QueueTyped
      BY <2>2, <3>1 DEF QueueTyped
    <3>3. QED
      BY <2>2, <3>1, <3>2 DEF HeadInFlight, QueueInOrder
  <2>5. QED
    BY <2>3, <2>4 DEF Queue, NoSilentLossUnlessRaced
<1>2. QED
  BY <1>1, QueueStep, PTL DEF Spec

\* The relay queue keeps the order of dispatch (enqueueForFollowerRelay,
\* flushPendingFollowerEvents).
THEOREM OrderIsKept == Spec => []QueueInOrder
<1>1. Queue => QueueInOrder
  BY DEF Queue
<1>2. QED
  BY <1>1, QueueInvariance, PTL

\* Only the overflow of a queue whose head is in flight loses an event silently.
THEOREM LossesAreKnown == Spec => []NoSilentLossUnlessRaced
<1>1. Queue => NoSilentLossUnlessRaced
  BY DEF Queue
<1>2. QED
  BY <1>1, QueueInvariance, PTL

-----------------------------------------------------------------------------
(* The types *)

\* Bounds and types: each failure leaves at most one server draining, and only
\* dispatched events are queued, sent, processed or dropped.
Dispatched == 1..dispatched
Bounded ==
  /\ drainsFast \in BOOLEAN /\ rival \in BOOLEAN /\ raced \in BOOLEAN
  /\ faults \in 0..MaxFaults /\ closing \in 0..faults
  /\ dispatched \in 0..MaxEvents
  /\ pending \in Seq(Dispatched) /\ Len(pending) <= MaxPending
  /\ inflight \in Dispatched \cup {0} /\ (flush = "relay" => inflight \in Dispatched /\ pending # <<>>)
  /\ processed \cup remote \cup dropped \subseteq Dispatched

\* A queue without its head, or with one event more.
LEMMA QueueParts ==
  ASSUME NEW S, NEW q \in Seq(S)
  PROVE  /\ Len(q) \in Nat
         /\ q # <<>> => Tail(q) \in Seq(S) /\ Len(Tail(q)) = Len(q) - 1 /\ Head(q) \in S
         /\ \A e \in S : /\ Append(q, e) \in Seq(S) /\ Append(q, e) # <<>>
                          /\ Len(Append(q, e)) = Len(q) + 1
         /\ Len(q) > 0 => q # <<>>
OBVIOUS

\* A sequence over a set is one over any larger set.
LEMMA SeqOfMore ==
  ASSUME NEW S, NEW T, S \subseteq T, NEW q \in Seq(S)
  PROVE  q \in Seq(T)
<1>1. q \in [1..Len(q) -> S] /\ Len(q) \in Nat
  OBVIOUS
<1>2. q \in [1..Len(q) -> T]
  BY <1>1
<1>3. QED
  BY <1>1, <1>2

\* The loop of a flush keeps the bounds, when its queue has them.
LEMMA ContinueKeepsBounds ==
  ASSUME Bounded, NEW q \in Seq(Dispatched), Len(q) <= MaxPending, NEW r, Continue(q, r),
         UNCHANGED <<drainsFast, rival, raced, closing, dispatched, dropped>>,
         faults' \in faults..MaxFaults, remote' \subseteq Dispatched
  PROVE  Bounded'
<1>1. faults' \in 0..MaxFaults /\ closing' \in 0..faults'
  BY DEF Bounded
<1>a. Dispatched' = Dispatched
  BY DEF Dispatched
<1>2. CASE q = <<>> \/ stopped
  <2>1. flush' = "idle" /\ inflight' = 0 /\ pending' = q /\ processed' = processed
    BY <1>2 DEF Continue
  <2>2. QED BY <1>1, <1>a, <2>1 DEF Bounded
<1>3. CASE ~(q = <<>> \/ stopped)
  <2>1. Tail(q) \in Seq(Dispatched) /\ Len(Tail(q)) <= MaxPending /\ Head(q) \in Dispatched
    BY <1>3, QueueParts
  <2>2. CASE r = "owner"
    <3>1. /\ flush' = "local" /\ inflight' = 0 /\ pending' = Tail(q)
          /\ processed' = processed \cup {Head(q)}
      BY <1>3, <2>2 DEF Continue
    <3>2. QED BY <1>1, <1>a, <2>1, <3>1 DEF Bounded
  <2>3. CASE r # "owner"
    <3>1. flush' = "relay" /\ inflight' = Head(q) /\ pending' = q /\ processed' = processed
      BY <1>3, <2>3 DEF Continue
    <3>2. QED BY <1>1, <1>3, <1>a, <2>1, <3>1 DEF Bounded
  <2>4. QED BY <2>2, <2>3
<1>4. QED
  BY <1>2, <1>3

\* Every turn of the manager keeps the bounds.
LEMMA BoundedStep == Bounded /\ [Next]_vars => Bounded'
<1> SUFFICES ASSUME Bounded, [Next]_vars PROVE Bounded'
  OBVIOUS
<1>a. /\ faults \in 0..MaxFaults /\ closing \in 0..faults /\ dispatched \in 0..MaxEvents
      /\ pending \in Seq(Dispatched) /\ Len(pending) <= MaxPending
  BY DEF Bounded
\* The queue and its flush are not touched.
<1>1. ASSUME UNCHANGED <<drainsFast, relaying, history>>, rival' \in BOOLEAN,
             faults' \in 0..MaxFaults, closing' \in 0..faults'
      PROVE  Bounded'
  <2>1. UNCHANGED <<drainsFast, pending, flush, inflight, dispatched, processed, remote, dropped, raced>>
    BY <1>1 DEF relaying, history
  <2>2. Dispatched' = Dispatched
    BY <2>1 DEF Dispatched
  <2>3. QED BY <1>1, <2>1, <2>2 DEF Bounded
<1>2. ASSUME Fault PROVE faults' = faults + 1 /\ faults' \in 0..MaxFaults
  BY <1>2, <1>a DEF Fault
<1>3. ASSUME BecomeOwner \/ AcquireFails PROVE faults' \in faults..MaxFaults
  BY <1>2, <1>3, <1>a DEF BecomeOwner, AcquireFails
<1>4. CASE Start \/ RecoveryTimer
  <2>1. faults' \in faults..MaxFaults /\ closing' = closing /\ rival' = rival
    BY <1>3, <1>4, <1>a DEF Start, RecoveryTimer
  <2>2. UNCHANGED <<drainsFast, relaying, history>> /\ rival \in BOOLEAN
    BY <1>4 DEF Start, RecoveryTimer, config, Bounded
  <2>3. QED BY <1>1, <1>a, <2>1, <2>2
<1>5. CASE OwnerFails
  <2>1. faults' = faults + 1 /\ faults' \in 0..MaxFaults /\ closing' \in {closing, closing + 1}
    BY <1>2, <1>5, <1>a DEF OwnerFails, HandleOwnerFailure
  <2>2. UNCHANGED <<drainsFast, relaying, history>> /\ rival' \in BOOLEAN
    BY <1>5 DEF OwnerFails, config, Bounded
  <2>3. QED BY <1>1, <1>a, <2>1, <2>2
<1>6. CASE ServerClosed
  <2>1. faults' = faults /\ closing > 0 /\ closing' \in {closing - 1, closing}
    BY <1>6, <1>a DEF ServerClosed, HandleOwnerFailure
  <2>2. UNCHANGED <<drainsFast, relaying, history>> /\ rival' \in BOOLEAN
    BY <1>6 DEF ServerClosed, config, Bounded
  <2>3. QED BY <1>1, <1>a, <2>1, <2>2
<1>7. CASE Stop \/ StopClosed \/ RivalComesOrGoes \/ UNCHANGED vars
  <2>1. faults' \in {faults, faults + 1} /\ faults' <= MaxFaults /\ closing' = closing
    BY <1>2, <1>7, <1>a DEF Stop, StopClosed, RivalComesOrGoes, vars
  <2>2. UNCHANGED <<drainsFast, relaying, history>> /\ rival' \in BOOLEAN
    BY <1>7 DEF Stop, StopClosed, RivalComesOrGoes, vars, config, Bounded
  <2>3. QED BY <1>1, <1>a, <2>1, <2>2
<1>8. CASE Dispatch
  <2>1. dispatched' = dispatched + 1 /\ dispatched' \in 0..MaxEvents
        /\ UNCHANGED <<drainsFast, rival, closing, faults, flush, inflight, remote>>
    BY <1>8, <1>a DEF Dispatch, config
  <2>2. Dispatched \subseteq Dispatched' /\ dispatched' \in Dispatched'
    BY <1>a, <2>1 DEF Dispatched
  <2>3. pending \in Seq(Dispatched')
    BY <1>a, <2>2, SeqOfMore
  <2>4. CASE processed' = processed \cup {dispatched'} /\ UNCHANGED <<pending, dropped, raced>>
    BY <2>1, <2>2, <2>3, <2>4 DEF Bounded
  <2>5. CASE Enqueue(dispatched') /\ UNCHANGED processed
    <3>1. pending' \in Seq(Dispatched') /\ Len(pending') <= MaxPending /\ pending' # <<>>
      <4>1. CASE Len(pending) >= MaxPending
        <5>1. pending' = Append(Tail(pending), dispatched')
          BY <2>5, <4>1 DEF Enqueue
        <5>2. Tail(pending) \in Seq(Dispatched') /\ Len(Tail(pending)) = Len(pending) - 1
          BY <2>3, <4>1, QueueParts
        <5>3. pending' \in Seq(Dispatched') /\ pending' # <<>> /\ Len(pending') = Len(Tail(pending)) + 1
          BY <2>2, <5>1, <5>2, QueueParts
        <5>4. Len(pending) \in Nat
          BY <2>3, QueueParts
        <5>5. QED BY <1>a, <5>2, <5>3, <5>4
      <4>2. CASE ~(Len(pending) >= MaxPending)
        <5>1. pending' = Append(pending, dispatched')
          BY <2>5, <4>2 DEF Enqueue
        <5>2. pending' \in Seq(Dispatched') /\ pending' # <<>> /\ Len(pending') = Len(pending) + 1
              /\ Len(pending) \in Nat
          BY <2>2, <2>3, <5>1, QueueParts
        <5>3. QED BY <4>2, <5>2
      <4>3. QED BY <4>1, <4>2
    <3>2. dropped' \subseteq Dispatched' /\ raced' \in BOOLEAN
      <4>1. dropped \subseteq Dispatched
        BY DEF Bounded
      <4>2. Len(pending) >= MaxPending => Head(pending) \in Dispatched
        BY <1>a, QueueParts
      <4>3. dropped' \subseteq Dispatched'
        BY <2>2, <2>5, <4>1, <4>2 DEF Enqueue
      <4>4. raced' \in BOOLEAN
        BY <2>5 DEF Enqueue, Bounded
      <4>5. QED BY <4>3, <4>4
    <3>a. inflight \in Dispatched' \cup {0} /\ (flush = "relay" => inflight \in Dispatched')
          /\ processed \cup remote \subseteq Dispatched'
      BY <2>2 DEF Bounded
    <3>3. QED BY <2>1, <2>5, <3>1, <3>2, <3>a DEF Bounded
  <2>6. QED BY <1>8, <2>4, <2>5 DEF Dispatch
<1>9. remote \subseteq Dispatched /\ (flush = "relay" => inflight \in Dispatched)
  BY DEF Bounded
<1>10. CASE RetryTimer
  <2>1. CASE flush # "idle"
    <3>1. UNCHANGED <<drainsFast, relaying, history, rival, closing, faults>>
      BY <1>10, <2>1 DEF RetryTimer, config, history
    <3>2. QED BY <1>1, <1>a, <3>1 DEF Bounded
  <2>2. CASE flush = "idle"
    <3>1. Continue(pending, role) /\ UNCHANGED <<drainsFast, rival, raced, closing, dispatched, dropped, remote, faults>>
      BY <1>10, <2>2 DEF RetryTimer, config
    <3>2. QED BY <1>9, <1>a, <3>1, ContinueKeepsBounds
  <2>3. QED BY <2>1, <2>2
<1>11. CASE LocalDone
  <2>1. Continue(pending, role) /\ UNCHANGED <<drainsFast, rival, raced, closing, dispatched, dropped, remote, faults>>
    BY <1>11 DEF LocalDone, config
  <2>2. QED BY <1>9, <1>a, <2>1, ContinueKeepsBounds
<1>12. CASE RelayAcked
  <2>1. Continue(Tail(pending), role) /\ UNCHANGED <<drainsFast, rival, raced, closing, dispatched, dropped, faults>>
        /\ remote' = remote \cup {inflight} /\ flush = "relay"
    BY <1>12 DEF RelayAcked, config
  <2>2. Tail(pending) \in Seq(Dispatched) /\ Len(Tail(pending)) <= MaxPending
    <3>1. pending # <<>>
      BY <2>1 DEF Bounded
    <3>2. Len(Tail(pending)) = Len(pending) - 1 /\ Len(pending) \in Nat /\ Tail(pending) \in Seq(Dispatched)
      BY <1>a, <3>1, QueueParts
    <3>3. Len(pending) - 1 <= MaxPending
      BY <1>a, <3>2, ManagerConstants
    <3>4. QED BY <3>2, <3>3
  <2>3. faults' \in faults..MaxFaults
    BY <1>a, <2>1
  <2>4. remote' \subseteq Dispatched
    BY <1>9, <2>1
  <2>5. QED BY <2>1, <2>2, <2>3, <2>4, ContinueKeepsBounds
<1>13. CASE RelayFails
  <2>1. UNCHANGED <<drainsFast, rival, raced, closing, dispatched, dropped>> /\ flush = "relay"
        /\ remote' \subseteq Dispatched
    <3>1. remote' \in {remote, remote \cup {inflight}} /\ flush = "relay"
      BY <1>13 DEF RelayFails
    <3>2. QED BY <1>13, <1>9, <3>1 DEF RelayFails, config
  <2>2. CASE BecomeOwner /\ Continue(pending, "owner")
    BY <1>3, <1>a, <2>1, <2>2, ContinueKeepsBounds
  <2>3. CASE flush' = "idle" /\ inflight' = 0 /\ UNCHANGED <<pending, processed>>
             /\ (Fault \/ AcquireFails \/ UNCHANGED faults)
    <3>1. faults' \in 0..MaxFaults /\ closing' \in 0..faults'
      BY <1>2, <1>3, <1>a, <2>1, <2>3
    <3>2. Dispatched' = Dispatched
      BY <2>1 DEF Dispatched
    <3>3. QED BY <2>1, <2>3, <3>1, <3>2 DEF Bounded
  <2>4. QED BY <1>13, <2>2, <2>3 DEF RelayFails
<1>14. QED
  BY <1>4, <1>5, <1>6, <1>7, <1>8, <1>10, <1>11, <1>12, <1>13 DEF Next

\* The values of the variables; in particular no failure leaves more than one closed
\* server draining (handleOwnerFailure) and the queue stays within maxPendingEvents.
THEOREM ManagerTypes == Spec => []TypeOK
<1>1. Init => Bounded
  <2>1. SUFFICES ASSUME Init PROVE Bounded
    OBVIOUS
  <2>2. <<>> \in Seq(Dispatched) /\ Len(<<>>) = 0
    OBVIOUS
  <2>3. 0 \in 0..MaxFaults /\ 0 \in 0..0 /\ 0 \in 0..MaxEvents /\ 0 <= MaxPending
    BY ManagerConstants
  <2>4. faults \in 0..MaxFaults /\ closing \in 0..faults /\ dispatched \in 0..MaxEvents
    BY <2>1, <2>3 DEF Init
  <2>5. /\ drainsFast \in BOOLEAN /\ rival \in BOOLEAN /\ raced \in BOOLEAN
        /\ processed \cup remote \cup dropped \subseteq Dispatched
    BY <2>1, ManagerConstants DEF Init
  <2>6. /\ pending \in Seq(Dispatched) /\ Len(pending) <= MaxPending
        /\ inflight = 0 /\ flush # "relay"
    BY <2>1, <2>2, <2>3 DEF Init
  <2>7. QED BY <2>4, <2>5, <2>6 DEF Bounded
<1>2. Bounded /\ Control => TypeOK
  <2> SUFFICES ASSUME Bounded, Control PROVE TypeOK
    OBVIOUS
  <2>1. dispatched \in 0..MaxEvents /\ pending \in Seq(Dispatched)
    BY DEF Bounded
  <2>2. Dispatched \subseteq 1..MaxEvents
    BY <2>1 DEF Dispatched
  <2>3. pending \in Seq(1..MaxEvents)
    BY <2>1, <2>2, SeqOfMore
  <2>4. closing \in 0..MaxFaults + 1 /\ inflight \in 0..MaxEvents
    BY <2>1, <2>2 DEF Bounded
  <2>a. processed \cup remote \cup dropped \subseteq 1..dispatched
    BY DEF Bounded, Dispatched
  <2>5. QED
    BY <2>3, <2>4, <2>a DEF Bounded, Control, Flags, TypeOK
<1>3. QED
  BY <1>1, <1>2, BoundedStep, ControlInvariance, PTL DEF Spec
=============================================================================
