----------------------------- MODULE RelayDelivery -----------------------------
(***************************************************************************)
(* The way of an event from the runtime that saw it to onOwnerEvent of the  *)
(* runtime that owns the transport: the relay client and server             *)
(* (src/src/transport/relay-client.ts, relay-server.ts), the envelope and   *)
(* semantic key (protocol.ts), the dedupe windows of each runtime           *)
(* (manager-dedupe.ts) and the relay loop that uses them (manager.ts).      *)
(* TransportManager follows one manager through its timers and roles; here  *)
(* several runtimes share the socket path, an answer can come late or       *)
(* never, and the owner can change, crash or throw.  Who owns the transport *)
(* (at most one runtime) is TransportLock's subject and a step here.        *)
(***************************************************************************)
EXTENDS Naturals, Sequences, FiniteSetsExt, SequencesExt

CONSTANTS Runtimes,    \* the runtimes of one host
          Intended,    \* those of mode "owner"; the others never own the transport
          Trusted,     \* those configured with the authToken of the owners
          NoOne,       \* nobody owns the transport
          Keys,        \* semantic keys of buildSemanticKey
          NoKey,       \* an event without identifiers has no semantic key
          Kinds,       \* the events that occur: their key, and whether too large to relay
          Semantic,    \* config.semanticDedupeEnabled
          Ttl,         \* config.dedupeTtlMs
          Capacities,  \* values of config.maxPendingEvents
          MaxEvents,   \* bound: events dispatched
          MaxConns,    \* bound: relay connections open at a time
          MaxClock,    \* bound: time
          MaxFaults    \* bound: late answers, crashes, demotions and throws

ASSUME RelayConstants ==
  /\ Intended \subseteq Runtimes /\ Trusted \subseteq Runtimes /\ NoOne \notin Runtimes
  /\ Keys \cap (1..MaxEvents) = {}   \* ids and semantic keys are kept in separate maps
  /\ NoKey \notin Keys /\ Kinds \subseteq [key: Keys \cup {NoKey}, large: BOOLEAN]
  /\ Semantic \in BOOLEAN
  /\ Ttl \in Nat \ {0} /\ Capacities \subseteq Nat \ {0} /\ MaxConns \in Nat \ {0}
  /\ MaxEvents \in Nat /\ MaxClock \in Nat /\ MaxFaults \in Nat

VARIABLES
  capacity,   \* config.maxPendingEvents
  event,      \* event e: the runtime that dispatched it, its key, too large to relay
  owner,      \* the runtime that owns the transport and listens
  queue,      \* pendingEvents of each runtime
  flush,      \* what its relay loop awaits: "idle", "relay" or "local"
  attempt,    \* the connection its loop awaits, 0 when it could not be made
  conns,      \* relay connections: number, event, ends, how far the owner got
  jobs,       \* onOwnerEvent calls under way: event, runtime, who awaits it
  seen,       \* seenEventIds and seenSemanticKeys of each runtime: expiry, 0 for none
  boot,       \* incarnation of each runtime
  clock,
  log,        \* history: the calls of onOwnerEvent
  completed,  \* history: events for which it resolved
  failed,     \* history: events for which it threw
  early,      \* history: events answered as duplicates of one still being processed
  doubted,    \* history: events relayed without an answer that the sender saw
  gone,       \* history: events lost with their process or to a full queue
  raced,      \* history: runtimes whose full queue lost an event being relayed
  overtaken,  \* history: owners that processed an event before older ones of theirs
  faults

sending == <<queue, flush, attempt>>
receiving == <<conns, jobs, seen>>
history == <<log, completed, failed, early, doubted, gone, raced, overtaken>>
vars == <<capacity, event, owner, sending, receiving, boot, clock, history, faults>>

Events == DOMAIN event
Markers == (1..MaxEvents) \cup Keys
Inline == MaxConns + 1   \* awaited by the relay loop itself
Caller == 0              \* awaited by the caller of dispatch

Init ==
  /\ capacity \in Capacities
  /\ event = <<>>
  /\ owner = NoOne
  /\ queue = [r \in Runtimes |-> <<>>]
  /\ flush = [r \in Runtimes |-> "idle"]
  /\ attempt = [r \in Runtimes |-> 0]
  /\ conns = {} /\ jobs = {}
  /\ seen = [r \in Runtimes |-> [m \in Markers |-> 0]]
  /\ boot = [r \in Runtimes |-> 0]
  /\ clock = 0
  /\ log = <<>> /\ completed = {} /\ failed = {} /\ early = {} /\ doubted = {}
  /\ gone = {} /\ raced = {} /\ overtaken = {}
  /\ faults = 0

Fault == faults < MaxFaults /\ faults' = faults + 1

-----------------------------------------------------------------------------
(* shouldProcessTransportEvent *)

\* pruneTransportDedupeEntries: what has expired is deleted on every call.
Pruned(r) == [m \in Markers |-> IF seen[r][m] <= clock THEN 0 ELSE seen[r][m]]

\* buildSemanticKey, when semantic dedupe is on and the event has an identifier.
HasKey(k) == Semantic /\ k # NoKey

\* The owner has met the event, or one that says the same, within the window.
Known(r, e, k) == Pruned(r)[e] > 0 \/ (HasKey(k) /\ Pruned(r)[k] > 0)

\* The markers after the call: the id first, the key only if neither was known.
Marked(r, e, k) ==
  [m \in Markers |->
     IF (m = e /\ Pruned(r)[e] = 0) \/ (HasKey(k) /\ m = k /\ ~Known(r, e, k))
     THEN clock + Ttl ELSE Pruned(r)[m]]

\* Whether what is known is a call of onOwnerEvent that has not resolved yet.
StillBusy(r, e, k) ==
  \E j \in jobs : j.at = r /\ (j.ev = e \/ (HasKey(k) /\ event[j.ev].key = k))

Call(r, e, k, via) ==
  /\ jobs' = jobs \cup {[ev |-> e, at |-> r, via |-> via]}
  /\ log' = Append(log, [ev |-> e, key |-> k, at |-> <<r, boot[r]>>, time |-> clock])

\* Mutant: the markers are set when the event has been processed, not before.
ProcessOwnerEventUnmarked(r, e, k, via) ==
  /\ seen' = [seen EXCEPT ![r] = Pruned(r)]
  /\ IF Known(r, e, k)
     THEN /\ early' = IF StillBusy(r, e, k) THEN early \cup {e} ELSE early
          /\ UNCHANGED <<jobs, log>>
     ELSE Call(r, e, k, via) /\ UNCHANGED early

\* processOwnerEvent up to its await; it does not look at the role.
ProcessOwnerEvent(r, e, k, via) ==
  /\ seen' = [seen EXCEPT ![r] = Marked(r, e, k)]
  /\ IF Known(r, e, k)
     THEN /\ early' = IF StillBusy(r, e, k) THEN early \cup {e} ELSE early
          /\ UNCHANGED <<jobs, log>>
     ELSE Call(r, e, k, via) /\ UNCHANGED early

-----------------------------------------------------------------------------
(* The sender *)

\* Connections of pool that can be told apart, so one more can be opened.
FreeNumber(pool) == Min((1..MaxConns) \ {c.n : c \in pool})

\* sendRelayEvent up to its await: too large an event throws at once, nobody
\* listening refuses the connection; both leave the attempt without one.
SendRelayEvent(r, e, pool) ==
  IF event[e].large \/ owner = NoOne
  THEN attempt' = [attempt EXCEPT ![r] = 0] /\ conns' = pool
  ELSE /\ Cardinality(pool) < MaxConns
       /\ attempt' = [attempt EXCEPT ![r] = FreeNumber(pool)]
       /\ conns' = pool \cup {[n |-> FreeNumber(pool), ev |-> e, from |-> r, to |-> owner,
                               st |-> "unread"]}

\* The loop of flushPendingFollowerEvents up to its next await: queue q is left.
Continue(r, q, pool) ==
  IF q = <<>>
  THEN /\ flush' = [flush EXCEPT ![r] = "idle"] /\ queue' = [queue EXCEPT ![r] = q]
       /\ attempt' = [attempt EXCEPT ![r] = 0] /\ conns' = pool
       /\ UNCHANGED <<jobs, seen, log, early>>
  ELSE IF owner = r
  THEN /\ flush' = [flush EXCEPT ![r] = "local"] /\ queue' = [queue EXCEPT ![r] = Tail(q)]
       /\ attempt' = [attempt EXCEPT ![r] = 0] /\ conns' = pool
       /\ ProcessOwnerEvent(r, Head(q), event[Head(q)].key, Inline)
  ELSE /\ flush' = [flush EXCEPT ![r] = "relay"] /\ queue' = [queue EXCEPT ![r] = q]
       /\ SendRelayEvent(r, Head(q), pool)
       /\ UNCHANGED <<jobs, seen, log, early>>

Push(r, e) ==
  queue' = [queue EXCEPT ![r] = Append(@, e)] /\ UNCHANGED <<gone, raced>>

Evict(r, e) ==
  /\ queue' = [queue EXCEPT ![r] = Append(Tail(@), e)]
  /\ gone' = gone \cup {Head(queue[r])}
  /\ raced' = IF flush[r] = "relay" THEN raced \cup {r} ELSE raced

\* Mutant: the limit is passed before anything is dropped.
EnqueueLate(r, e) == IF Len(queue[r]) <= capacity THEN Push(r, e) ELSE Evict(r, e)

\* enqueueForFollowerRelay: a full queue loses its head, even one being relayed.
Enqueue(r, e) == IF Len(queue[r]) < capacity THEN Push(r, e) ELSE Evict(r, e)

\* dispatch: the owner processes at once, even before events that wait in its
\* queue from the time it was a follower.
Dispatch(r) ==
  /\ Len(event) < MaxEvents
  /\ \E kind \in Kinds :
       LET e == Len(event) + 1
           k == kind.key
       IN
       /\ event' = Append(event, [home |-> r, key |-> k, large |-> kind.large])
       /\ IF owner = r
          THEN /\ ProcessOwnerEvent(r, e, k, Caller)
               /\ overtaken' = IF queue[r] # <<>> THEN overtaken \cup {r} ELSE overtaken
               /\ UNCHANGED <<queue, gone, raced>>
          ELSE Enqueue(r, e) /\ UNCHANGED <<seen, jobs, log, early, overtaken>>
  /\ UNCHANGED <<capacity, owner, flush, attempt, conns, boot, clock, completed, failed,
                 doubted, faults>>

\* The timer that scheduleFlush keeps armed while events wait.
RetryTimer(r) ==
  /\ flush[r] = "idle" /\ queue[r] # <<>>
  /\ Continue(r, queue[r], conns)
  /\ UNCHANGED <<capacity, event, owner, boot, clock, completed, failed, doubted, gone, raced,
                 overtaken, faults>>

\* The loop goes on when the event it processed itself is done (or was known).
LocalDone(r) ==
  /\ flush[r] = "local" /\ ~ \E j \in jobs : j.at = r /\ j.via = Inline
  /\ Continue(r, queue[r], conns)
  /\ UNCHANGED <<capacity, event, owner, boot, clock, completed, failed, doubted, gone, raced,
                 overtaken, faults>>

\* sendToOwner resolved: the head of the queue is shifted, whatever it is now.
Acked(c) == Continue(c.from, Tail(queue[c.from]), conns \ {c})

\* Mutant: an event whose relay failed is dropped.
GiveUpShifts(r) ==
  /\ flush' = [flush EXCEPT ![r] = "idle"]
  /\ attempt' = [attempt EXCEPT ![r] = 0]
  /\ queue' = [queue EXCEPT ![r] = IF @ = <<>> THEN @ ELSE Tail(@)]

\* Mutant: an event whose relay failed is tried again after the others.
GiveUpRotates(r) ==
  /\ flush' = [flush EXCEPT ![r] = "idle"]
  /\ attempt' = [attempt EXCEPT ![r] = 0]
  /\ queue' = [queue EXCEPT ![r] = IF @ = <<>> THEN @ ELSE Append(Tail(@), Head(@))]

\* Mutant: flushInFlight is not reset when a relay fails.
GiveUpInFlight(r) ==
  /\ attempt' = [attempt EXCEPT ![r] = 0]
  /\ UNCHANGED <<flush, queue>>

\* The loop ends, the event stays at the head and the timer is armed again.
GiveUp(r) ==
  /\ flush' = [flush EXCEPT ![r] = "idle"]
  /\ attempt' = [attempt EXCEPT ![r] = 0]
  /\ UNCHANGED queue

\* 'close' with the answer in responseBuffer, at the client that awaits it.
Answer(c) ==
  /\ c.st \in {"ok", "refused"}
  /\ IF attempt[c.from] # c.n
     THEN conns' = conns \ {c} /\ UNCHANGED <<sending, jobs, seen, log, early>>
     ELSE \/ c.st = "ok" /\ Acked(c)
          \/ c.st = "refused" /\ GiveUp(c.from) /\ conns' = conns \ {c}
             /\ UNCHANGED <<jobs, seen, log, early>>
  /\ UNCHANGED <<capacity, event, owner, boot, clock, completed, failed, doubted, gone, raced,
                 overtaken, faults>>

\* The connection was refused or has ended without acknowledgement.
NoAnswer(r) ==
  /\ flush[r] = "relay" /\ attempt[r] = 0
  /\ GiveUp(r)
  /\ UNCHANGED <<capacity, event, owner, receiving, boot, clock, history, faults>>

\* relayTimeoutMs: the client destroys its socket.  What it wrote may reach the
\* owner all the same.
Timeout(c) ==
  /\ attempt[c.from] = c.n /\ Fault
  /\ GiveUp(c.from)
  /\ \/ UNCHANGED conns
     \/ c.st = "unread" /\ conns' = conns \ {c}
  /\ doubted' = doubted \cup {c.ev}
  /\ UNCHANGED <<capacity, event, owner, jobs, seen, boot, clock, log, completed, failed, early,
                 gone, raced, overtaken>>

-----------------------------------------------------------------------------
(* The owner's relay server *)

\* handleIncomingSocket and processIncomingEnvelope up to the await of onEvent: a
\* wrong token is refused, a known event is acknowledged without being processed.
ProcessIncomingEnvelope(c) ==
  LET k == event[c.ev].key
      GoesTo(st) == conns' = (conns \ {c}) \cup {[c EXCEPT !.st = st]}
  IN
  /\ c.st = "unread"
  /\ IF c.from \notin Trusted
     THEN GoesTo("refused") /\ UNCHANGED <<jobs, seen, log, early>>
     ELSE /\ GoesTo(IF Known(c.to, c.ev, k) THEN "ok" ELSE "busy")
          /\ ProcessOwnerEvent(c.to, c.ev, k, c.n)
  /\ UNCHANGED <<capacity, event, owner, sending, boot, clock, completed, failed, doubted, gone, raced,
                 overtaken, faults>>

Answered(j, answer) ==
  conns' = {IF c.n = j.via THEN [c EXCEPT !.st = answer] ELSE c : c \in conns}

\* onOwnerEvent resolves.
OwnerEventDone(j) ==
  /\ jobs' = jobs \ {j}
  /\ completed' = completed \cup {j.ev}
  /\ Answered(j, "ok")
  /\ UNCHANGED <<capacity, event, owner, sending, seen, boot, clock, log, failed, early, doubted,
                 gone, raced, overtaken, faults>>

\* onOwnerEvent throws: the sender is told, but the markers stay.  In the relay
\* loop of the owner itself nothing catches it: the event is already shifted.
OwnerEventThrows(j) ==
  /\ Fault
  /\ jobs' = jobs \ {j}
  /\ failed' = failed \cup {j.ev}
  /\ Answered(j, "refused")
  /\ flush' = IF j.via = Inline THEN [flush EXCEPT ![j.at] = "idle"] ELSE flush
  /\ UNCHANGED <<capacity, event, owner, queue, attempt, seen, boot, clock, log, completed, early,
                 doubted, gone, raced, overtaken>>

-----------------------------------------------------------------------------
(* The host *)

\* A runtime of mode "owner" acquires the free lock and listens.
BecomeOwner(r) ==
  /\ owner = NoOne /\ r \in Intended
  /\ owner' = r
  /\ UNCHANGED <<capacity, event, sending, receiving, boot, clock, history, faults>>

\* handleOwnerFailure: nobody listens any more, but open connections stay open.
Demote ==
  /\ owner # NoOne /\ Fault
  /\ owner' = NoOne
  /\ UNCHANGED <<capacity, event, sending, receiving, boot, clock, history>>

\* The process dies and is started again: its queue, calls and markers are gone,
\* its peers see their connections close; what it had written may still be read.
Crash(r) ==
  /\ Fault
  /\ owner' = IF owner = r THEN NoOne ELSE owner
  /\ gone' = gone \cup ToSet(queue[r]) \cup {j.ev : j \in {i \in jobs : i.at = r /\ event[i.ev].home = r}}
  /\ queue' = [queue EXCEPT ![r] = <<>>]
  /\ flush' = [flush EXCEPT ![r] = "idle"]
  /\ attempt' = [s \in Runtimes |->
                   IF s = r \/ \E c \in conns : c.to = r /\ attempt[s] = c.n THEN 0 ELSE attempt[s]]
  /\ doubted' = doubted \cup {c.ev : c \in {d \in conns : d.to = r}}
  /\ conns' = {c \in conns : c.to # r}
  /\ jobs' = {j \in jobs : j.at # r}
  /\ seen' = [seen EXCEPT ![r] = [m \in Markers |-> 0]]
  /\ boot' = [boot EXCEPT ![r] = @ + 1]
  /\ UNCHANGED <<capacity, event, clock, log, completed, failed, early, raced,
                 overtaken>>

\* Data that has arrived is read long before dedupeTtlMs has passed.
Tick ==
  /\ clock < MaxClock /\ \A c \in conns : c.st # "unread"
  /\ clock' = clock + 1
  /\ UNCHANGED <<capacity, event, owner, sending, receiving, boot, history, faults>>

Next ==
  \/ \E r \in Runtimes : \/ Dispatch(r) \/ RetryTimer(r) \/ LocalDone(r) \/ NoAnswer(r)
                         \/ BecomeOwner(r) \/ Crash(r)
  \/ \E c \in conns : Answer(c) \/ Timeout(c) \/ ProcessIncomingEnvelope(c)
  \/ \E j \in jobs : OwnerEventDone(j) \/ OwnerEventThrows(j)
  \/ Demote \/ Tick

Spec == Init /\ [][Next]_vars

\* The relay loop of a runtime goes on: its timer fires, what it awaits ends.
LoopStep(r) ==
  \/ RetryTimer(r) \/ LocalDone(r) \/ NoAnswer(r)
  \/ \E c \in conns : attempt[r] = c.n /\ (Answer(c) \/ ProcessIncomingEnvelope(c))

\* Relay loops go on, connections nobody awaits end, calls of onOwnerEvent end,
\* and a free lock is taken.
FairSpec ==
  /\ Spec
  /\ \A r \in Runtimes : WF_vars(LoopStep(r))
  /\ WF_vars(\E c \in conns : attempt[c.from] # c.n /\ (Answer(c) \/ ProcessIncomingEnvelope(c)))
  /\ WF_vars(\E j \in jobs : OwnerEventDone(j))
  /\ WF_vars(\E r \in Runtimes : BecomeOwner(r))

-----------------------------------------------------------------------------

\* The values of the variables.
TypeOK ==
  /\ capacity \in Capacities
  /\ event \in Seq([home: Runtimes, key: Keys \cup {NoKey}, large: BOOLEAN])
  /\ owner \in Intended \cup {NoOne}
  /\ \A r \in Runtimes : queue[r] \in Seq(Events) /\ Len(queue[r]) <= capacity
  /\ flush \in [Runtimes -> {"idle", "relay", "local"}]
  /\ attempt \in [Runtimes -> 0..MaxConns]
  /\ conns \subseteq [n: 1..MaxConns, ev: Events, from: Runtimes, to: Runtimes,
                     st: {"unread", "busy", "ok", "refused"}]
  /\ jobs \subseteq [ev: Events, at: Runtimes, via: 0..Inline]
  /\ seen \in [Runtimes -> [Markers -> 0..MaxClock + Ttl]]
  /\ completed \cup failed \cup early \cup doubted \cup gone \subseteq Events
  /\ raced \cup overtaken \subseteq Runtimes
  /\ clock \in 0..MaxClock /\ faults \in 0..MaxFaults

SameContent(e, f) == e = f \/ (HasKey(event[e].key) /\ event[e].key = event[f].key)

\* docs/transport.md:97: within dedupeTtlMs one runtime processes an event, and any
\* event of the same semantic key, once, however often it is sent, while it is
\* being processed and after it was processed, as owner or demoted since.
OncePerWindow ==
  \A i, j \in DOMAIN log :
    i < j /\ log[i].at = log[j].at /\ SameContent(log[i].ev, log[j].ev)
      => log[j].time - log[i].time >= Ttl

\* An event is processed again, by whichever runtime, only if an answer to it was
\* late, died with its owner or said that onOwnerEvent threw: an acknowledged event
\* is never sent again.
RepeatOnlyWhenDoubted ==
  \A i, j \in DOMAIN log : i < j /\ log[i].ev = log[j].ev => log[i].ev \in doubted \cup failed

\* Both: every second call of onOwnerEvent has one of the two reasons.
RepeatsExplained == OncePerWindow /\ RepeatOnlyWhenDoubted

Waits(e) == e \in ToSet(queue[event[e].home]) \/ \E j \in jobs : SameContent(e, j.ev)

\* An event that its runtime no longer keeps has been processed, or another that says
\* the same.  The doors: it died with its process or fell out of a full queue (gone),
\* the full queue made an acknowledgement shift another event (raced), onOwnerEvent
\* threw, or it was acknowledged as known while the first call was still under way.
NothingLost ==
  \A e \in Events :
    \/ Waits(e)
    \/ e \in gone \/ event[e].home \in raced
    \/ \E f \in Events : SameContent(e, f) /\ f \in completed \cup failed \cup early

Started(e) == \E i \in DOMAIN log : log[i].ev = e

\* The events of one runtime are processed in the order of their dispatch, over retries,
\* stale connections and changes of the owner: when one is processed, no older one waits
\* in the queue any more, and an older one that is ever processed says nothing that had
\* not been processed by then.  (A stale connection can deliver an event late to a second
\* owner, after the first had met another event of the same key and gone on.)  The door: a
\* new owner processes what it dispatches itself before what still waits in its queue.
InOrderUnlessOvertaken ==
  \A e, f \in Events :
    /\ e < f /\ event[e].home = event[f].home /\ Started(f)
    /\ e \notin gone /\ event[e].home \notin overtaken
    => /\ e \notin ToSet(queue[event[e].home])
       /\ Started(e) => \A j \in DOMAIN log :
            log[j].ev = f => \E i \in 1..j : SameContent(e, log[i].ev)

\* The queue of a runtime whose token the owners accept drains in the end, or an event
\* too large for the relay is at its head, which fails on every attempt: no change of
\* owner, crash, late answer or reused connection leaves it waiting for ever.
QueueDrains ==
  \A r \in Trusted :
    (queue[r] # <<>>) ~> (queue[r] = <<>> \/ event[Head(queue[r])].large)
=============================================================================
