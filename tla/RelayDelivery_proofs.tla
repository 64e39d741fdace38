------------------------- MODULE RelayDelivery_proofs -------------------------
(***************************************************************************)
(* What the relay guarantees for any runtimes, keys, capacities, bounds and *)
(* any number of events.  The inductive invariant comes in layers, each     *)
(* proved with those before it: TypeInv (types and connections), QueueInv   *)
(* (the queues), CallInv (calls of onOwnerEvent), WindowInv (the dedupe     *)
(* windows), OnceInv (what an acknowledgement settles), KeptInv (where an   *)
(* event is) and OrderInv (what has been processed before what).            *)
(***************************************************************************)
EXTENDS RelayDelivery, FiniteSetTheorems, WellFoundedInduction, TLAPS

Conn(c) == /\ c.n \in 1..MaxConns /\ c.ev \in Events /\ c.from \in Runtimes /\ c.to \in Runtimes
           /\ c.st \in {"unread", "busy", "ok", "refused"}

\* Open connections have numbers of their own.
Numbered(pool) ==
  /\ \A c \in pool : c.n \in 1..MaxConns
  /\ \A c, d \in pool : c.n = d.n => c = d

\* The relay loop awaits at most one call of its own.
InlineAlone ==
  /\ \A j \in jobs : j.via = Inline => flush[j.at] = "local"
  /\ \A i, j \in jobs : i.via = Inline /\ j.via = Inline /\ i.at = j.at => i = j

TypeInv ==
  /\ TypeOK
  /\ queue \in [Runtimes -> Seq(Events)]
  /\ boot \in [Runtimes -> Nat]
  /\ Len(event) <= MaxEvents
  /\ log \in Seq([ev: Events, key: Keys \cup {NoKey}, at: Runtimes \X Nat, time: 0..MaxClock])
  /\ Numbered(conns) /\ InlineAlone
  /\ \A r \in Runtimes : /\ attempt[r] # 0 => flush[r] = "relay"
                         /\ flush[r] = "relay" => queue[r] # <<>>

-----------------------------------------------------------------------------
(* Sequences, numbers of connections *)

\* A sequence and its elements.
LEMMA SeqFacts ==
  ASSUME NEW S, NEW s \in Seq(S)
  PROVE  DOMAIN s = 1..Len(s) /\ Len(s) \in Nat /\ \A i \in DOMAIN s : s[i] \in S
OBVIOUS

\* A sequence with one element appended.
LEMMA AppendFacts ==
  ASSUME NEW S, NEW s \in Seq(S), NEW e \in S
  PROVE  /\ Append(s, e) \in Seq(S) /\ Len(Append(s, e)) = Len(s) + 1
         /\ DOMAIN s = 1..Len(s) /\ Len(s) \in Nat
         /\ DOMAIN Append(s, e) = 1..(Len(s) + 1)
         /\ Append(s, e)[Len(s) + 1] = e
         /\ \A k \in 1..Len(s) : Append(s, e)[k] = s[k] /\ s[k] \in S
OBVIOUS

\* A sequence without its head.
LEMMA TailFacts ==
  ASSUME NEW S, NEW s \in Seq(S), s # <<>>
  PROVE  /\ Tail(s) \in Seq(S) /\ Head(s) = s[1] /\ Head(s) \in S
         /\ DOMAIN s = 1..Len(s) /\ Len(s) \in Nat \ {0} /\ 1 \in DOMAIN s
         /\ DOMAIN Tail(s) = 1..(Len(s) - 1) /\ Len(Tail(s)) = Len(s) - 1
         /\ \A k \in DOMAIN Tail(s) : k + 1 \in DOMAIN s /\ Tail(s)[k] = s[k + 1]
OBVIOUS

\* Every nonempty set of naturals has a least element.
LEMMA LeastElement == ASSUME NEW T, T \subseteq Nat, T # {} PROVE \E x \in T : \A y \in T : ~(y < x)
<1> DEFINE R == OpToRel(<, Nat)
<1>1. IsWellFoundedOn(R, Nat)
  BY NatLessThanWellFounded, Zenon
<1>2. \A x, y \in Nat : y < x => <<y, x>> \in R
  BY DEF OpToRel
<1>3. \E x \in T : \A y \in T : ~(<<y, x>> \in R)
  <2> HIDE DEF R
  <2> QED
    BY <1>1, WFMin
<1>4. QED
  BY <1>2, <1>3

\* The number of one more connection is that of no other (sendRelayEvent).
LEMMA FreeFacts ==
  ASSUME NEW pool, Numbered(pool), Cardinality(pool) < MaxConns
  PROVE  FreeNumber(pool) \in 1..MaxConns /\ \A c \in pool : c.n # FreeNumber(pool)
<1> DEFINE f == [c \in pool |-> c.n]
           U == (1..MaxConns) \ {c.n : c \in pool}
<1>1. MaxConns \in Nat \ {0}
  BY RelayConstants
<1>2. IsFiniteSet(1..MaxConns) /\ Cardinality(1..MaxConns) = MaxConns
  BY <1>1, FS_Interval
<1>3. f \in Injection(pool, 1..MaxConns)
  BY DEF Injection, IsInjective, Numbered
<1>4. U # {}
  <2>1. SUFFICES ASSUME U = {} PROVE FALSE
    OBVIOUS
  <2>2. f \in Surjection(pool, 1..MaxConns)
    <3>1. ASSUME NEW n \in 1..MaxConns PROVE \E c \in pool : f[c] = n
      BY <2>1
    <3>2. QED
      BY <1>3, <3>1 DEF Surjection, Injection
  <2> HIDE DEF f
  <2>3. Cardinality(pool) = Cardinality(1..MaxConns)
    BY <1>2, <1>3, <2>2, FS_Injection
  <2>4. QED
    BY <1>1, <1>2, <2>3
<1>5. U \subseteq Nat
  OBVIOUS
<1>6. PICK x \in U : \A y \in U : ~(y < x)
  <2> HIDE DEF U
  <2> QED BY <1>4, <1>5, LeastElement
<1>7. \A y \in U : x <= y
  BY <1>5, <1>6
<1>8. FreeNumber(pool) \in U
  BY <1>7 DEF FreeNumber, Min
<1>9. QED
  BY <1>8

-----------------------------------------------------------------------------
(* The steps *)

\* The relay loop of r goes on with queue q, when connections pool are left.
Resumes(r, q, pool) ==
  \/ /\ flush[r] # "relay" /\ q = queue[r] /\ pool = conns
     /\ flush[r] = "local" => ~ \E j \in jobs : j.at = r /\ j.via = Inline
  \/ \E c \in conns : /\ c.from = r /\ c.st = "ok" /\ attempt[r] = c.n
                      /\ q = Tail(queue[r]) /\ pool = conns \ {c}

Elsewhere == UNCHANGED <<capacity, event, owner, boot, clock, completed, failed, doubted, gone,
                         raced, overtaken, faults>>
NoCall == UNCHANGED <<jobs, seen, log, early>>

\* It ends, or its attempt to relay fails at once.
Parked(r, q, pool) ==
  /\ Resumes(r, q, pool) /\ queue' = [queue EXCEPT ![r] = q]
  /\ \E f \in {"idle", "relay"} : /\ flush' = [flush EXCEPT ![r] = f]
                                  /\ f = "relay" => q # <<>>
  /\ attempt' = [attempt EXCEPT ![r] = 0] /\ conns' = pool
  /\ NoCall /\ Elsewhere

\* It processes the head of the queue itself.
Served(r, q, pool) ==
  /\ Resumes(r, q, pool) /\ q # <<>> /\ queue' = [queue EXCEPT ![r] = Tail(q)]
  /\ flush' = [flush EXCEPT ![r] = "local"]
  /\ attempt' = [attempt EXCEPT ![r] = 0] /\ conns' = pool
  /\ ProcessOwnerEvent(r, Head(q), event[Head(q)].key, Inline) /\ Elsewhere

\* It opens a connection.
NewConn(r, q, pool) ==
  [n |-> FreeNumber(pool), ev |-> Head(q), from |-> r, to |-> owner, st |-> "unread"]
Opened(r, q, pool) ==
  /\ Resumes(r, q, pool) /\ q # <<>> /\ queue' = [queue EXCEPT ![r] = q]
  /\ flush' = [flush EXCEPT ![r] = "relay"]
  /\ owner # NoOne /\ Cardinality(pool) < MaxConns
  /\ attempt' = [attempt EXCEPT ![r] = FreeNumber(pool)]
  /\ conns' = pool \cup {NewConn(r, q, pool)}
  /\ NoCall /\ Elsewhere

\* A connection that nobody awaits ends.
Dropped(c) ==
  /\ attempt[c.from] # c.n /\ c.st \in {"ok", "refused"} /\ conns' = conns \ {c}
  /\ UNCHANGED <<queue, flush, attempt>> /\ NoCall /\ Elsewhere

\* The attempt of r fails, at once, with an answer or after relayTimeoutMs.
GivenUp(r) ==
  /\ flush[r] = "relay" /\ GiveUp(r) /\ conns' \subseteq conns /\ doubted \subseteq doubted' /\ doubted' \subseteq Events
  /\ \A c \in conns : c.from = r /\ attempt[r] = c.n =>
       \/ c.ev \in doubted'
       \/ c \notin conns' /\ c.st = "refused"
  /\ \A c \in conns \ conns' : c.from = r /\ attempt[r] = c.n
  /\ \A c \in conns \ conns' : c.st \in {"refused", "unread"}
  /\ faults' \in 0..MaxFaults /\ NoCall
  /\ UNCHANGED <<capacity, event, owner, boot, clock, completed, failed, gone, raced, overtaken>>

Answers(c, st) == conns' = (conns \ {c}) \cup {[c EXCEPT !.st = st]}

\* The owner reads a connection and refuses its token.
Rejected(c) ==
  /\ c.st = "unread" /\ Answers(c, "refused")
  /\ UNCHANGED <<queue, flush, attempt>> /\ NoCall /\ Elsewhere

\* ... or accepts it.
Incoming(c) ==
  /\ c.st = "unread" /\ Answers(c, IF Known(c.to, c.ev, event[c.ev].key) THEN "ok" ELSE "busy")
  /\ ProcessOwnerEvent(c.to, c.ev, event[c.ev].key, c.n)
  /\ UNCHANGED <<queue, flush, attempt>> /\ Elsewhere

\* The owner processes its own event, or another runtime keeps its event.
DispatchOwn(r) ==
  /\ Len(event) < MaxEvents
  /\ \E kind \in Kinds :
       /\ event' = Append(event, [home |-> r, key |-> kind.key, large |-> kind.large])
       /\ ProcessOwnerEvent(r, Len(event) + 1, kind.key, Caller)
  /\ overtaken' = IF queue[r] # <<>> THEN overtaken \cup {r} ELSE overtaken
  /\ UNCHANGED <<capacity, owner, queue, flush, attempt, conns, boot, clock, completed, failed,
                 doubted, gone, raced, faults>>
DispatchWait(r) ==
  /\ Len(event) < MaxEvents
  /\ \E kind \in Kinds :
       event' = Append(event, [home |-> r, key |-> kind.key, large |-> kind.large])
  /\ Enqueue(r, Len(event) + 1) /\ NoCall
  /\ UNCHANGED <<capacity, owner, flush, attempt, conns, boot, clock, completed, failed, doubted,
                 overtaken, faults>>

\* The owner changes, or nothing does.
Elected ==
  /\ owner' \in Intended \cup {NoOne} /\ faults' \in 0..MaxFaults
  /\ UNCHANGED <<capacity, event, sending, receiving, boot, clock, history>>

Step ==
  \/ \E r \in Runtimes : \/ DispatchOwn(r) \/ DispatchWait(r) \/ GivenUp(r) \/ Crash(r)
  \/ \E r \in Runtimes : \E q \in Seq(Events), pool \in SUBSET conns :
       Parked(r, q, pool) \/ Served(r, q, pool) \/ Opened(r, q, pool)
  \/ \E c \in conns : Dropped(c) \/ Rejected(c) \/ Incoming(c)
  \/ \E j \in jobs : OwnerEventDone(j) \/ OwnerEventThrows(j)
  \/ Elected \/ Tick

\* What is typed.
LEMMA Typing ==
  ASSUME TypeInv
  PROVE  /\ \A c \in conns : Conn(c) /\ c = [n |-> c.n, ev |-> c.ev, from |-> c.from, to |-> c.to,
                                             st |-> c.st]
         /\ \A j \in jobs : j.ev \in Events /\ j.at \in Runtimes /\ j.via \in 0..Inline
         /\ \A r \in Runtimes : queue[r] \in Seq(Events) /\ Len(queue[r]) <= capacity
         /\ Events = 1..Len(event) /\ Len(event) \in Nat
         /\ \A e \in Events : event[e] \in [home : Runtimes, key : Keys \cup {NoKey}, large : BOOLEAN]
         /\ capacity \in Nat \ {0} /\ MaxConns \in Nat \ {0} /\ MaxFaults \in Nat /\ faults \in 0..MaxFaults
         /\ MaxEvents \in Nat /\ Ttl \in Nat \ {0} /\ MaxClock \in Nat
<1>1. MaxConns \in Nat \ {0} /\ MaxFaults \in Nat /\ MaxEvents \in Nat /\ Ttl \in Nat \ {0} /\ MaxClock \in Nat
  BY RelayConstants
<1>2. conns \subseteq [n: 1..MaxConns, ev: Events, from: Runtimes, to: Runtimes,
                       st: {"unread", "busy", "ok", "refused"}]
  BY DEF TypeInv, TypeOK
<1>3. jobs \subseteq [ev: Events, at: Runtimes, via: 0..Inline]
  BY DEF TypeInv, TypeOK
<1>4. event \in Seq([home: Runtimes, key: Keys \cup {NoKey}, large: BOOLEAN])
  BY DEF TypeInv, TypeOK
<1>5. capacity \in Nat \ {0} /\ faults \in 0..MaxFaults
  BY RelayConstants DEF TypeInv, TypeOK
<1>6. \A r \in Runtimes : queue[r] \in Seq(Events) /\ Len(queue[r]) <= capacity
  BY DEF TypeInv, TypeOK
<1>7. Events = 1..Len(event) /\ Len(event) \in Nat
  BY <1>4, SeqFacts DEF Events
<1>8. \A e \in Events : event[e] \in [home : Runtimes, key : Keys \cup {NoKey}, large : BOOLEAN]
  BY <1>4, SeqFacts DEF Events
<1>9. \A c \in conns : Conn(c) /\ c = [n |-> c.n, ev |-> c.ev, from |-> c.from, to |-> c.to, st |-> c.st]
  BY <1>2 DEF Conn
<1>10. \A j \in jobs : j.ev \in Events /\ j.at \in Runtimes /\ j.via \in 0..Inline
  BY <1>3
<1>11. QED
  BY <1>1, <1>5, <1>6, <1>7, <1>8, <1>9, <1>10

\* The loop of flushPendingFollowerEvents, step by step.
LEMMA ContinueCases ==
  ASSUME TypeInv, NEW r \in Runtimes, NEW q \in Seq(Events), NEW pool, Resumes(r, q, pool),
         Continue(r, q, pool), Elsewhere
  PROVE  Parked(r, q, pool) \/ Served(r, q, pool) \/ Opened(r, q, pool)
<1>1. CASE q = <<>>
  BY <1>1 DEF Continue, Parked, NoCall
<1>2. CASE q # <<>> /\ owner = r
  BY <1>2 DEF Continue, Served
<1>3. CASE q # <<>> /\ owner # r
  <2>1. CASE event[Head(q)].large \/ owner = NoOne
    BY <1>3, <2>1 DEF Continue, Parked, NoCall, SendRelayEvent
  <2>2. CASE ~(event[Head(q)].large \/ owner = NoOne)
    BY <1>3, <2>2 DEF Continue, Opened, NoCall, SendRelayEvent, NewConn
  <2>3. QED
    BY <2>1, <2>2
<1>4. QED
  BY <1>1, <1>2, <1>3

\* Every step is one of these.
LEMMA NextCases ==
  ASSUME TypeInv, [Next]_vars
  PROVE  Step
<1>0. /\ \A r \in Runtimes : queue[r] \in Seq(Events) /\ (flush[r] = "relay" => queue[r] # <<>>)
      /\ \A r \in Runtimes : attempt[r] # 0 => flush[r] = "relay"
      /\ \A c \in conns : Conn(c)
      /\ faults \in Nat /\ MaxFaults \in Nat /\ faults <= MaxFaults
      /\ owner \in Intended \cup {NoOne} /\ doubted \subseteq Events
      /\ \A c, d \in conns : c.n = d.n => c = d
  <2>1. \A c, d \in conns : c.n = d.n => c = d
    BY DEF TypeInv, Numbered
  <2>2. /\ owner \in Intended \cup {NoOne} /\ doubted \subseteq Events
        /\ \A r \in Runtimes : (flush[r] = "relay" => queue[r] # <<>>) /\ (attempt[r] # 0 => flush[r] = "relay")
    BY DEF TypeInv, TypeOK
  <2>3. QED
    BY Typing, <2>1, <2>2
<1>1. ASSUME NEW r \in Runtimes, Dispatch(r) PROVE Step
  <2>1. CASE owner = r
    <3>1. DispatchOwn(r)
      BY <1>1, <2>1 DEF Dispatch, DispatchOwn
    <3>2. QED BY <3>1 DEF Step
  <2>2. CASE owner # r
    <3>1. DispatchWait(r)
      BY <1>1, <2>2 DEF Dispatch, DispatchWait, NoCall
    <3>2. QED BY <3>1 DEF Step
  <2>3. QED BY <2>1, <2>2
<1>2. ASSUME NEW r \in Runtimes, NEW q \in Seq(Events), NEW pool \in SUBSET conns,
             Resumes(r, q, pool), Continue(r, q, pool), Elsewhere
      PROVE  Step
  BY <1>2, ContinueCases DEF Step
<1>3. ASSUME NEW r \in Runtimes, RetryTimer(r) \/ LocalDone(r) PROVE Step
  <2>1. Resumes(r, queue[r], conns)
    BY <1>3 DEF Resumes, RetryTimer, LocalDone
  <2>2. Continue(r, queue[r], conns) /\ Elsewhere
    BY <1>3 DEF RetryTimer, LocalDone, Elsewhere
  <2>3. QED
    BY <1>0, <1>2, <2>1, <2>2
<1>4. ASSUME NEW c \in conns, Answer(c) PROVE Step
  <2>1. CASE attempt[c.from] # c.n
    <3>1. Dropped(c)
      BY <1>4, <2>1 DEF Answer, Dropped, NoCall, Elsewhere, sending
    <3>2. QED BY <3>1 DEF Step
  <2>2. CASE attempt[c.from] = c.n /\ c.st = "ok" /\ Acked(c)
    <3>1. Tail(queue[c.from]) \in Seq(Events) /\ c.from \in Runtimes
      <4>1. c.from \in Runtimes /\ attempt[c.from] # 0
        BY <1>0, <2>2 DEF Conn
      <4>2. QED BY <1>0, <4>1, TailFacts
    <3>2. Resumes(c.from, Tail(queue[c.from]), conns \ {c})
      BY <2>2 DEF Resumes
    <3>3. Continue(c.from, Tail(queue[c.from]), conns \ {c}) /\ Elsewhere
      BY <1>4, <2>2 DEF Acked, Answer, Elsewhere
    <3>4. QED
      BY <1>2, <3>1, <3>2, <3>3
  <2>3. CASE /\ attempt[c.from] = c.n /\ c.st = "refused" /\ GiveUp(c.from) /\ conns' = conns \ {c}
             /\ NoCall
    <3>1. c.from \in Runtimes /\ flush[c.from] = "relay"
      BY <1>0, <2>3 DEF Conn
    <3>2. GivenUp(c.from)
      BY <1>0, <1>4, <2>3, <3>1 DEF Answer, GivenUp
    <3>3. QED BY <3>1, <3>2 DEF Step
  <2>4. QED
    BY <1>4, <2>1, <2>2, <2>3 DEF Answer, NoCall
<1>5. ASSUME NEW r \in Runtimes, NoAnswer(r) PROVE Step
  <2>1. \A c \in conns : c.n # 0
    BY <1>0 DEF Conn
  <2>2. GivenUp(r)
    BY <1>0, <1>5, <2>1 DEF NoAnswer, GivenUp, NoCall, receiving, history
  <2>3. QED BY <2>2 DEF Step
<1>6. ASSUME NEW c \in conns, Timeout(c) PROVE Step
  <2>1. c.from \in Runtimes /\ c.ev \in Events /\ c.n # 0 BY <1>0 DEF Conn
  <2>2. flush[c.from] = "relay"
    BY <1>0, <1>6, <2>1 DEF Timeout
  <2>4. GivenUp(c.from)
    BY <1>0, <1>6, <2>1, <2>2 DEF Timeout, GivenUp, NoCall, Fault
  <2>3. QED BY <2>1, <2>4 DEF Step
<1>7. ASSUME NEW c \in conns, ProcessIncomingEnvelope(c) PROVE Step
  <2>1. CASE c.from \notin Trusted
    <3>1. Rejected(c)
      BY <1>7, <2>1 DEF ProcessIncomingEnvelope, Rejected, NoCall, Elsewhere, sending, Answers
    <3>2. QED BY <3>1 DEF Step
  <2>2. CASE c.from \in Trusted
    <3>1. Incoming(c)
      BY <1>7, <2>2 DEF ProcessIncomingEnvelope, Incoming, Elsewhere, sending, Answers
    <3>2. QED BY <3>1 DEF Step
  <2>3. QED BY <2>1, <2>2
<1>8. ASSUME (\E r \in Runtimes : BecomeOwner(r)) \/ Demote \/ UNCHANGED vars PROVE Elected
  BY <1>0, <1>8 DEF BecomeOwner, Demote, Fault, Elected, vars, sending, receiving, history
<1>9. QED
  BY <1>1, <1>3, <1>4, <1>5, <1>6, <1>7, <1>8 DEF Step, Next

-----------------------------------------------------------------------------
(* Types *)

EventRecord == [home: Runtimes, key: Keys \cup {NoKey}, large: BOOLEAN]
Entry == [ev: Events, key: Keys \cup {NoKey}, at: Runtimes \X Nat, time: 0..MaxClock]
Stamps == 0..MaxClock + Ttl

GeneralTypes ==
  /\ capacity \in Capacities /\ event \in Seq(EventRecord) /\ Len(event) <= MaxEvents
  /\ owner \in Intended \cup {NoOne} /\ boot \in [Runtimes -> Nat]
  /\ clock \in 0..MaxClock /\ faults \in 0..MaxFaults
  /\ completed \subseteq Events /\ failed \subseteq Events /\ doubted \subseteq Events
  /\ gone \subseteq Events /\ raced \subseteq Runtimes /\ overtaken \subseteq Runtimes
SenderTypes ==
  /\ queue \in [Runtimes -> Seq(Events)] /\ \A r \in Runtimes : Len(queue[r]) <= capacity
  /\ flush \in [Runtimes -> {"idle", "relay", "local"}]
  /\ attempt \in [Runtimes -> 0..MaxConns]
  /\ \A r \in Runtimes : /\ attempt[r] # 0 => flush[r] = "relay"
                         /\ flush[r] = "relay" => queue[r] # <<>>
ConnTypes ==
  /\ conns \subseteq [n: 1..MaxConns, ev: Events, from: Runtimes, to: Runtimes,
                      st: {"unread", "busy", "ok", "refused"}]
  /\ Numbered(conns)
CallTypes ==
  /\ jobs \subseteq [ev: Events, at: Runtimes, via: 0..Inline]
  /\ seen \in [Runtimes -> [Markers -> Stamps]]
  /\ log \in Seq(Entry) /\ early \subseteq Events

\* TypeInv in four parts.
LEMMA TypeParts ==
  TypeInv <=> GeneralTypes /\ SenderTypes /\ ConnTypes /\ CallTypes /\ InlineAlone
<1>1. TypeInv => GeneralTypes
  BY DEF TypeInv, TypeOK, GeneralTypes, EventRecord
<1>2. TypeInv => SenderTypes
  BY DEF TypeInv, TypeOK, SenderTypes
<1>3. TypeInv => ConnTypes
  BY DEF TypeInv, TypeOK, ConnTypes
<1>4. TypeInv => CallTypes
  BY DEF TypeInv, TypeOK, CallTypes, Entry, Stamps
<1>5. GeneralTypes /\ SenderTypes /\ ConnTypes /\ CallTypes => TypeOK
  BY DEF GeneralTypes, SenderTypes, ConnTypes, CallTypes, TypeOK, EventRecord, Stamps
<1>6. GeneralTypes /\ SenderTypes /\ ConnTypes /\ CallTypes /\ TypeOK /\ InlineAlone => TypeInv
  BY DEF GeneralTypes, SenderTypes, ConnTypes, CallTypes, TypeInv, Entry
<1>7. TypeInv => InlineAlone
  BY DEF TypeInv
<1>8. QED
  BY <1>1, <1>2, <1>3, <1>4, <1>5, <1>6, <1>7

\* Events stay what they are, and a dispatch adds one.
LEMMA EventsKept ==
  ASSUME TypeInv, Step
  PROVE  /\ Events \subseteq Events' /\ \A e \in Events : event'[e] = event[e]
         /\ event' \in Seq(EventRecord) /\ Len(event') <= MaxEvents
<1>0. event \in Seq(EventRecord) /\ Len(event) <= MaxEvents
  BY DEF TypeInv, TypeOK, EventRecord
<1>1. ASSUME NEW r \in Runtimes, NEW kind \in Kinds, Len(event) < MaxEvents,
             event' = Append(event, [home |-> r, key |-> kind.key, large |-> kind.large])
      PROVE  /\ Events \subseteq Events' /\ \A e \in Events : event'[e] = event[e]
             /\ event' \in Seq(EventRecord) /\ Len(event') <= MaxEvents
  <2> DEFINE x == [home |-> r, key |-> kind.key, large |-> kind.large]
  <2>1. x \in EventRecord
    BY RelayConstants DEF EventRecord
  <2> HIDE DEF x
  <2>2. event' = Append(event, x)
    BY <1>1 DEF x
  <2>3. MaxEvents \in Nat
    BY RelayConstants
  <2>4. QED
    BY <1>0, <1>1, <2>1, <2>2, <2>3, AppendFacts DEF Events
<1>2. CASE UNCHANGED event
  BY <1>0, <1>2 DEF Events
<1>3. UNCHANGED event \/ \E r \in Runtimes : DispatchOwn(r) \/ DispatchWait(r)
  BY DEF Step, GivenUp, Crash, Parked, Served, Opened, Dropped, Rejected, Incoming, Elsewhere,
         OwnerEventDone, OwnerEventThrows, Elected, Tick
<1>4. QED
  BY <1>1, <1>2, <1>3 DEF DispatchOwn, DispatchWait

\* processOwnerEvent, as owner or for one.
LEMMA ProcessTypes ==
  ASSUME TypeInv, NEW r \in Runtimes, NEW e \in Events', NEW k \in Keys \cup {NoKey},
         NEW via \in 0..Inline, ProcessOwnerEvent(r, e, k, via), Events \subseteq Events'
  PROVE  CallTypes'
<1>0. /\ jobs \subseteq [ev: Events, at: Runtimes, via: 0..Inline]
      /\ seen \in [Runtimes -> [Markers -> Stamps]]
      /\ log \in Seq(Entry) /\ early \subseteq Events
  BY TypeParts DEF CallTypes
<1>1. clock \in 0..MaxClock /\ Ttl \in Nat /\ MaxClock \in Nat /\ boot \in [Runtimes -> Nat]
  BY TypeParts, RelayConstants DEF GeneralTypes
<1>2. Marked(r, e, k) \in [Markers -> Stamps]
  <2>1. Pruned(r) \in [Markers -> Stamps]
    BY <1>0, <1>1 DEF Pruned, Stamps
  <2>2. clock + Ttl \in Stamps
    BY <1>1 DEF Stamps
  <2>3. QED
    BY <2>1, <2>2 DEF Marked
<1>3. seen' \in [Runtimes -> [Markers -> Stamps]]
  BY <1>0, <1>2 DEF ProcessOwnerEvent
<1>4. Entry \subseteq Entry'
  BY DEF Entry
<1>5. log \in Seq(Entry')
  BY <1>0, <1>4
<1>6. CASE Known(r, e, k)
  BY <1>0, <1>3, <1>5, <1>6 DEF ProcessOwnerEvent, CallTypes
<1>7. CASE ~Known(r, e, k)
  <2> DEFINE x == [ev |-> e, key |-> k, at |-> <<r, boot[r]>>, time |-> clock]
             j == [ev |-> e, at |-> r, via |-> via]
  <2>1. x \in Entry' /\ j \in [ev: Events', at: Runtimes, via: 0..Inline]
    BY <1>1 DEF Entry
  <2>2. log' = Append(log, x) /\ jobs' = jobs \cup {j} /\ early' = early
    BY <1>7 DEF ProcessOwnerEvent, Call
  <2> HIDE DEF x, j
  <2>3. log' \in Seq(Entry')
    BY <1>5, <2>1, <2>2, AppendFacts
  <2>4. jobs' \subseteq [ev: Events', at: Runtimes, via: 0..Inline]
    BY <1>0, <2>1, <2>2
  <2>5. QED
    BY <1>0, <1>3, <2>2, <2>3, <2>4 DEF CallTypes
<1>8. QED
  BY <1>6, <1>7

\* What the loop goes on with.
LEMMA ResumeTypes ==
  ASSUME TypeInv, NEW r \in Runtimes, NEW q \in Seq(Events), NEW pool \in SUBSET conns,
         Resumes(r, q, pool)
  PROVE  /\ Len(q) <= capacity /\ Len(q) \in Nat
         /\ Numbered(pool)
         /\ \A i \in DOMAIN q : \E k \in DOMAIN queue[r] : q[i] = queue[r][k]
<1>1. queue[r] \in Seq(Events) /\ Len(queue[r]) <= capacity /\ capacity \in Nat
  BY Typing
<1>2. q = queue[r] \/ (queue[r] # <<>> /\ q = Tail(queue[r]))
  <2>1. ASSUME NEW c \in conns, c.from = r, attempt[r] = c.n PROVE queue[r] # <<>>
    BY <2>1, Typing DEF TypeInv, Conn
  <2>2. QED
    BY <2>1 DEF Resumes
<1>3. Numbered(pool)
  BY DEF TypeInv, Numbered
<1>4. QED
  BY <1>1, <1>2, <1>3, TailFacts

\* Configuration, roles, bounds and the histories of events keep their types.
LEMMA GeneralStep == ASSUME TypeInv, Step PROVE GeneralTypes'
<1>0. GeneralTypes
  BY TypeParts
<1>1. /\ Events \subseteq Events' /\ event' \in Seq(EventRecord) /\ Len(event') <= MaxEvents
  BY EventsKept
<1>2. CASE Elsewhere
  BY <1>0, <1>1, <1>2 DEF Elsewhere, GeneralTypes
<1>3. ASSUME NEW r \in Runtimes, DispatchOwn(r) PROVE GeneralTypes'
  BY <1>0, <1>1, <1>3 DEF DispatchOwn, GeneralTypes
<1>4. ASSUME NEW r \in Runtimes, DispatchWait(r) PROVE GeneralTypes'
  <2>1. Len(queue[r]) < capacity \/ queue[r] # <<>>
    BY Typing
  <2>2. queue[r] # <<>> => Head(queue[r]) \in Events
    BY Typing, TailFacts
  <2>3. gone' \subseteq Events' /\ raced' \subseteq Runtimes
    BY <1>0, <1>1, <1>4, <2>1, <2>2 DEF DispatchWait, Enqueue, Push, Evict, GeneralTypes
  <2>4. QED
    BY <1>0, <1>1, <1>4, <2>3 DEF DispatchWait, GeneralTypes
<1>5. ASSUME NEW r \in Runtimes, GivenUp(r) PROVE GeneralTypes'
  BY <1>0, <1>1, <1>5 DEF GivenUp, GeneralTypes
<1>6. ASSUME NEW r \in Runtimes, Crash(r) PROVE GeneralTypes'
  <2>1. ToSet(queue[r]) \subseteq Events
    BY Typing, SeqFacts DEF ToSet
  <2>2. /\ {j.ev : j \in {i \in jobs : i.at = r /\ event[i.ev].home = r}} \subseteq Events
        /\ {c.ev : c \in {d \in conns : d.to = r}} \subseteq Events
    BY Typing DEF Conn
  <2>3. gone' \subseteq Events' /\ doubted' \subseteq Events'
    BY <1>0, <1>1, <1>6, <2>1, <2>2 DEF Crash, GeneralTypes
  <2>4. boot' \in [Runtimes -> Nat] /\ faults' \in 0..MaxFaults /\ owner' \in Intended \cup {NoOne}
    BY <1>0, <1>6, Typing DEF Crash, Fault, GeneralTypes
  <2>5. QED
    BY <1>0, <1>1, <1>6, <2>3, <2>4 DEF Crash, GeneralTypes
<1>7. ASSUME NEW j \in jobs, OwnerEventDone(j) PROVE GeneralTypes'
  BY <1>0, <1>1, <1>7, Typing DEF OwnerEventDone, GeneralTypes
<1>8. ASSUME NEW j \in jobs, OwnerEventThrows(j) PROVE GeneralTypes'
  <2>1. faults' \in 0..MaxFaults
    BY <1>8, Typing DEF OwnerEventThrows, Fault
  <2>2. QED
    BY <1>0, <1>1, <1>8, <2>1, Typing DEF OwnerEventThrows, GeneralTypes
<1>9. CASE Elected
  BY <1>0, <1>1, <1>9 DEF Elected, GeneralTypes, history
<1>10. CASE Tick
  <2>1. clock' \in 0..MaxClock
    BY <1>0, <1>10, Typing DEF Tick, GeneralTypes
  <2>2. QED
    BY <1>0, <1>1, <1>10, <2>1 DEF Tick, GeneralTypes, history
<1>11. QED
  BY <1>2, <1>3, <1>4, <1>5, <1>6, <1>7, <1>8, <1>9, <1>10
     DEF Step, Parked, Served, Opened, Dropped, Rejected, Incoming

\* Calls, markers and the log keep their types.
LEMMA CallStep == ASSUME TypeInv, Step PROVE CallTypes'
<1>0. CallTypes /\ Events \subseteq Events'
  BY TypeParts, EventsKept
<1>a. Entry \subseteq Entry'
  BY <1>0 DEF Entry
<1>b. log \in Seq(Entry')
  BY <1>0, <1>a DEF CallTypes
<1>c. Inline \in 0..Inline /\ Caller \in 0..Inline /\ \A n \in 1..MaxConns : n \in 0..Inline
  BY Typing DEF Inline, Caller
<1>1. CASE UNCHANGED log /\ jobs' \subseteq jobs /\ UNCHANGED <<seen, early>>
  BY <1>0, <1>b, <1>1 DEF CallTypes
<1>2. ASSUME NEW r \in Runtimes, DispatchOwn(r) PROVE CallTypes'
  <2>1. PICK kind \in Kinds :
          /\ event' = Append(event, [home |-> r, key |-> kind.key, large |-> kind.large])
          /\ ProcessOwnerEvent(r, Len(event) + 1, kind.key, Caller)
    BY <1>2 DEF DispatchOwn
  <2>2. kind.key \in Keys \cup {NoKey}
    BY RelayConstants
  <2>3. Len(event) + 1 \in Events'
    BY <2>1, Typing DEF Events
  <2>4. QED
    BY <1>0, <1>c, <2>1, <2>2, <2>3, ProcessTypes
<1>3. ASSUME NEW r \in Runtimes, NEW q \in Seq(Events), NEW pool \in SUBSET conns, Served(r, q, pool)
      PROVE  CallTypes'
  <2>1. Head(q) \in Events
    BY <1>3, TailFacts DEF Served
  <2>2. event[Head(q)].key \in Keys \cup {NoKey}
    BY <2>1, Typing
  <2>3. QED
    BY <1>0, <1>c, <1>3, <2>1, <2>2, ProcessTypes DEF Served
<1>4. ASSUME NEW c \in conns, Incoming(c) PROVE CallTypes'
  <2>1. Conn(c) /\ event[c.ev].key \in Keys \cup {NoKey}
    BY Typing DEF Conn
  <2>2. QED
    BY <1>0, <1>c, <1>4, <2>1, ProcessTypes DEF Incoming, Conn
<1>5. ASSUME NEW r \in Runtimes, Crash(r) PROVE CallTypes'
  <2>1. seen' \in [Runtimes -> [Markers -> Stamps]]
    BY <1>0, <1>5, Typing DEF Crash, CallTypes, Stamps
  <2>2. QED
    BY <1>0, <1>b, <1>5, <2>1 DEF Crash, CallTypes
<1>6. ASSUME NEW j \in jobs, OwnerEventDone(j) \/ OwnerEventThrows(j)
      PROVE UNCHANGED log /\ jobs' \subseteq jobs /\ UNCHANGED <<seen, early>>
  BY <1>6 DEF OwnerEventDone, OwnerEventThrows
<1>7. ASSUME Elected \/ Tick PROVE UNCHANGED log /\ jobs' \subseteq jobs /\ UNCHANGED <<seen, early>>
  BY <1>7 DEF Elected, Tick, history, receiving
<1>8. ASSUME NoCall PROVE UNCHANGED log /\ jobs' \subseteq jobs /\ UNCHANGED <<seen, early>>
  BY <1>8 DEF NoCall
<1>9. QED
  BY <1>1, <1>2, <1>3, <1>4, <1>5, <1>6, <1>7, <1>8
     DEF Step, Parked, Opened, Dropped, Rejected, DispatchWait, GivenUp

\* enqueueForFollowerRelay: the new event comes last, and a full queue loses its head.
LEMMA EnqueueFacts ==
  ASSUME TypeInv, NEW r \in Runtimes, NEW e \in Events', Events \subseteq Events', Enqueue(r, e)
  PROVE  /\ queue' = [queue EXCEPT ![r] = queue'[r]]
         /\ queue'[r] \in Seq(Events') /\ Len(queue'[r]) <= capacity
         /\ DOMAIN queue'[r] = 1..Len(queue'[r]) /\ Len(queue'[r]) \in Nat \ {0}
         /\ queue'[r][Len(queue'[r])] = e
         /\ \/ /\ queue'[r] = Append(queue[r], e) /\ Len(queue'[r]) = Len(queue[r]) + 1
               /\ \A k \in DOMAIN queue[r] : queue'[r][k] = queue[r][k]
               /\ UNCHANGED <<gone, raced>>
            \/ /\ queue[r] # <<>> /\ Len(queue'[r]) = Len(queue[r])
               /\ \A k \in 1..(Len(queue[r]) - 1) : queue'[r][k] = queue[r][k + 1]
               /\ gone' = gone \cup {Head(queue[r])}
               /\ raced' = IF flush[r] = "relay" THEN raced \cup {r} ELSE raced
<1>1. /\ queue \in [Runtimes -> Seq(Events)] /\ capacity \in Nat \ {0}
      /\ queue[r] \in Seq(Events) /\ Len(queue[r]) <= capacity
  BY Typing DEF TypeInv
<1>2. queue[r] \in Seq(Events') /\ Len(queue[r]) \in Nat
  BY <1>1
<1>3. CASE Len(queue[r]) < capacity
  <2>1. queue'[r] = Append(queue[r], e) /\ queue' = [queue EXCEPT ![r] = queue'[r]] /\ UNCHANGED <<gone, raced>>
    BY <1>1, <1>3 DEF Enqueue, Push
  <2>2. QED
    BY <1>1, <1>2, <1>3, <2>1, AppendFacts
<1>4. CASE ~(Len(queue[r]) < capacity)
  <2>1. queue[r] # <<>>
    BY <1>1, <1>4
  <2> DEFINE t == Tail(queue[r])
  <2>2. /\ t \in Seq(Events') /\ Len(t) = Len(queue[r]) - 1 /\ DOMAIN t = 1..(Len(queue[r]) - 1)
        /\ \A k \in DOMAIN t : t[k] = queue[r][k + 1]
    BY <1>2, <2>1, TailFacts
  <2>3. /\ queue'[r] = Append(t, e) /\ queue' = [queue EXCEPT ![r] = queue'[r]]
        /\ gone' = gone \cup {Head(queue[r])}
        /\ raced' = IF flush[r] = "relay" THEN raced \cup {r} ELSE raced
    BY <1>1, <1>4 DEF Enqueue, Evict
  <2> HIDE DEF t
  <2>4. /\ queue'[r] \in Seq(Events') /\ Len(queue'[r]) = Len(t) + 1
        /\ DOMAIN queue'[r] = 1..(Len(t) + 1) /\ queue'[r][Len(t) + 1] = e
        /\ \A k \in 1..Len(t) : queue'[r][k] = t[k]
    BY <2>2, <2>3, AppendFacts
  <2>5. Len(queue[r]) \in Nat \ {0}
    BY <1>2, <2>1, TailFacts
  <2>6. /\ Len(t) + 1 = Len(queue[r]) /\ Len(queue'[r]) = Len(queue[r])
        /\ DOMAIN queue'[r] = 1..Len(queue'[r]) /\ queue'[r][Len(queue'[r])] = e
    BY <2>2, <2>4, <2>5
  <2>7. \A k \in 1..(Len(queue[r]) - 1) : queue'[r][k] = queue[r][k + 1]
    BY <2>2, <2>4
  <2>8. QED
    BY <1>1, <2>1, <2>3, <2>4, <2>5, <2>6, <2>7
<1>5. QED
  BY <1>3, <1>4

\* Queues and relay loops keep their types.
LEMMA SenderStep == ASSUME TypeInv, Step PROVE SenderTypes'
<1>0. SenderTypes /\ Events \subseteq Events' /\ InlineAlone /\ ConnTypes
  BY TypeParts, EventsKept
<1>a. capacity' = capacity /\ capacity \in Nat
  BY Typing DEF Step, GivenUp, Crash, Parked, Served, Opened, Dropped, Rejected, Incoming, Elsewhere,
         OwnerEventDone, OwnerEventThrows, Elected, Tick, DispatchOwn, DispatchWait
<1>b. \A s \in Runtimes : queue[s] \in Seq(Events')
  BY <1>0 DEF SenderTypes
<1>1. CASE UNCHANGED <<queue, flush, attempt>>
  BY <1>0, <1>a, <1>b, <1>1 DEF SenderTypes
<1>2. ASSUME NEW r \in Runtimes, NEW q \in Seq(Events'), Len(q) <= capacity,
             NEW f \in {"idle", "relay", "local"}, NEW n \in 0..MaxConns,
             n # 0 => f = "relay", f = "relay" => q # <<>>,
             queue' = [queue EXCEPT ![r] = q], flush' = [flush EXCEPT ![r] = f],
             attempt' = [attempt EXCEPT ![r] = n]
      PROVE SenderTypes'
  BY <1>0, <1>a, <1>b, <1>2 DEF SenderTypes
<1>3. ASSUME NEW r \in Runtimes, DispatchWait(r) PROVE SenderTypes'
  <2>1. Len(event) + 1 \in Events'
    BY <1>3, Typing DEF DispatchWait, Events
  <2>2. /\ queue' = [queue EXCEPT ![r] = queue'[r]] /\ queue'[r] \in Seq(Events')
        /\ Len(queue'[r]) <= capacity /\ queue'[r] # <<>>
    BY <1>0, <1>3, <2>1, EnqueueFacts DEF DispatchWait
  <2>3. flush' = [flush EXCEPT ![r] = flush[r]] /\ attempt' = [attempt EXCEPT ![r] = attempt[r]]
    BY <1>0, <1>3 DEF DispatchWait, SenderTypes
  <2>4. QED
    <3>1. /\ flush[r] \in {"idle", "relay", "local"} /\ attempt[r] \in 0..MaxConns
          /\ attempt[r] # 0 => flush[r] = "relay"
      BY <1>0 DEF SenderTypes
    <3>2. QED BY <1>2, <2>2, <2>3, <3>1
<1>4. ASSUME NEW r \in Runtimes, NEW q \in Seq(Events), NEW pool \in SUBSET conns,
             Resumes(r, q, pool)
      PROVE  /\ Parked(r, q, pool) => SenderTypes'
             /\ Served(r, q, pool) => SenderTypes'
             /\ Opened(r, q, pool) => SenderTypes'
  <2>1. q \in Seq(Events') /\ Len(q) <= capacity /\ Numbered(pool) /\ 0 \in 0..MaxConns
    BY <1>0, <1>4, ResumeTypes, Typing, SMTT(30)
  <2>2. ASSUME Parked(r, q, pool) PROVE SenderTypes'
    BY <1>2, <2>1, <2>2 DEF Parked
  <2>3. ASSUME Served(r, q, pool) PROVE SenderTypes'
    <3>1. Tail(q) \in Seq(Events') /\ Len(Tail(q)) <= capacity
      BY <1>a, <2>1, <2>3, TailFacts DEF Served
    <3>2. QED BY <1>2, <2>1, <2>3, <3>1 DEF Served
  <2>4. ASSUME Opened(r, q, pool) PROVE SenderTypes'
    <3>1. FreeNumber(pool) \in 0..MaxConns
      BY <2>1, <2>4, FreeFacts DEF Opened
    <3>2. QED BY <1>2, <2>1, <2>4, <3>1 DEF Opened
  <2>5. QED BY <2>2, <2>3, <2>4
<1>5. ASSUME NEW r \in Runtimes, GivenUp(r) PROVE SenderTypes'
  BY <1>0, <1>a, <1>b, <1>5, Typing DEF GivenUp, GiveUp, SenderTypes
<1>6. ASSUME NEW r \in Runtimes, Crash(r) PROVE SenderTypes'
  <2>1. /\ \A s \in Runtimes : queue'[s] = IF s = r THEN <<>> ELSE queue[s]
        /\ \A s \in Runtimes : flush'[s] = IF s = r THEN "idle" ELSE flush[s]
        /\ \A s \in Runtimes : attempt'[s] = attempt[s] \/ attempt'[s] = 0
        /\ attempt'[r] = 0
        /\ queue' = [queue EXCEPT ![r] = <<>>] /\ DOMAIN attempt' = Runtimes
        /\ flush' \in [Runtimes -> {"idle", "relay", "local"}]
    BY <1>0, <1>6 DEF Crash, SenderTypes
  <2>2. attempt' \in [Runtimes -> 0..MaxConns]
    BY <1>0, <1>6, Typing DEF Crash, SenderTypes
  <2>3. queue' \in [Runtimes -> Seq(Events')] /\ \A s \in Runtimes : Len(queue'[s]) <= capacity'
    BY <1>0, <1>a, <1>b, <2>1 DEF SenderTypes
  <2>4. QED
    BY <1>0, <2>1, <2>2, <2>3 DEF SenderTypes
<1>7. ASSUME NEW j \in jobs, OwnerEventDone(j) \/ OwnerEventThrows(j) PROVE SenderTypes'
  <2>1. UNCHANGED <<queue, attempt>>
    BY <1>7 DEF OwnerEventDone, OwnerEventThrows, sending
  <2>2. CASE UNCHANGED flush
    BY <1>1, <2>1, <2>2
  <2>3. CASE j.via = Inline /\ flush' = [flush EXCEPT ![j.at] = "idle"]
    <3>1. flush[j.at] = "local" /\ j.at \in Runtimes
      BY <1>0, <2>3, Typing DEF InlineAlone
    <3>2. attempt[j.at] = 0
      BY <1>0, <3>1 DEF SenderTypes
    <3>3. queue' = [queue EXCEPT ![j.at] = queue[j.at]] /\ attempt' = [attempt EXCEPT ![j.at] = 0]
      BY <1>0, <2>1, <3>1, <3>2 DEF SenderTypes
    <3>4. /\ queue[j.at] \in Seq(Events') /\ Len(queue[j.at]) <= capacity /\ 0 \in 0..MaxConns
      BY <1>b, <3>1, Typing
    <3>5. QED
      BY <1>2, <2>3, <3>1, <3>3, <3>4
  <2>4. QED
    BY <1>7, <2>2, <2>3 DEF OwnerEventDone, OwnerEventThrows, sending
<1>8. CASE Elected \/ Tick
  BY <1>1, <1>8 DEF Elected, Tick, sending
<1>9. QED
  <2>1. ASSUME NEW r \in Runtimes, DispatchOwn(r) PROVE SenderTypes'
    BY <1>1, <2>1 DEF DispatchOwn
  <2>2. ASSUME NEW c \in conns, Dropped(c) \/ Rejected(c) \/ Incoming(c) PROVE SenderTypes'
    BY <1>1, <2>2 DEF Dropped, Rejected, Incoming
  <2>3. ASSUME NEW r \in Runtimes, NEW q \in Seq(Events), NEW pool \in SUBSET conns,
               Parked(r, q, pool) \/ Served(r, q, pool) \/ Opened(r, q, pool)
        PROVE  SenderTypes'
    BY <1>4, <2>3 DEF Parked, Served, Opened
  <2>4. QED
    BY <1>3, <1>5, <1>6, <1>7, <1>8, <2>1, <2>2, <2>3 DEF Step

\* The same connection, in whatever state.
Same(c, d) == d.n = c.n /\ d.ev = c.ev /\ d.from = c.from /\ d.to = c.to
ConnRecord == [n: 1..MaxConns, ev: Events, from: Runtimes, to: Runtimes,
               st: {"unread", "busy", "ok", "refused"}]

\* One connection moves on to another state.
Moved(c, st) ==
  /\ conns' \subseteq ConnRecord
  /\ \A d \in conns' : \E b \in conns : Same(b, d) /\ d.st = IF b = c THEN st ELSE b.st
  /\ \A b \in conns : \E d \in conns' : Same(b, d) /\ d.st = IF b = c THEN st ELSE b.st
LEMMA AnswersFacts ==
  ASSUME TypeInv, NEW c \in conns, NEW st \in {"unread", "busy", "ok", "refused"}, Answers(c, st)
  PROVE  Moved(c, st)
<1> DEFINE x == [c EXCEPT !.st = st]
<1>1. conns \subseteq ConnRecord
  BY TypeParts DEF ConnTypes, ConnRecord
<1>2. x \in ConnRecord /\ Same(c, x) /\ x.st = st
  BY <1>1 DEF ConnRecord, Same
<1>3. conns' = (conns \ {c}) \cup {x}
  BY DEF Answers
<1> HIDE DEF x
<1>4. conns' \subseteq ConnRecord
  BY <1>1, <1>2, <1>3
<1>5. ASSUME NEW d \in conns'
      PROVE  \E b \in conns : Same(b, d) /\ d.st = IF b = c THEN st ELSE b.st
  <2>1. CASE d = x
    BY <1>2, <2>1
  <2>2. CASE d \in conns /\ d # c
    BY <2>2 DEF Same
  <2>3. QED BY <1>3, <2>1, <2>2
<1>6. ASSUME NEW b \in conns
      PROVE  \E d \in conns' : Same(b, d) /\ d.st = IF b = c THEN st ELSE b.st
  <2>1. CASE b = c
    BY <1>2, <1>3, <2>1
  <2>2. CASE b # c
    BY <1>3, <2>2 DEF Same
  <2>3. QED BY <2>1, <2>2
<1>7. QED
  BY <1>4, <1>5, <1>6 DEF Moved

\* The connection that awaits a call is answered.
LEMMA AnsweredFacts ==
  ASSUME TypeInv, NEW j \in jobs, NEW st \in {"unread", "busy", "ok", "refused"}, Answered(j, st)
  PROVE  /\ conns' \subseteq ConnRecord
         /\ \A d \in conns' : \E b \in conns : Same(b, d) /\ d.st = IF b.n = j.via THEN st ELSE b.st
         /\ \A b \in conns : \E d \in conns' : Same(b, d) /\ d.st = IF b.n = j.via THEN st ELSE b.st
<1> DEFINE X(c) == IF c.n = j.via THEN [c EXCEPT !.st = st] ELSE c
<1>1. conns \subseteq ConnRecord
  BY TypeParts DEF ConnTypes, ConnRecord
<1>2. conns' = {X(c) : c \in conns}
  BY DEF Answered
<1>3. ASSUME NEW c \in conns
      PROVE  X(c) \in ConnRecord /\ Same(c, X(c)) /\ X(c).st = IF c.n = j.via THEN st ELSE c.st
  BY <1>1 DEF ConnRecord, Same
<1> HIDE DEF X
<1>4. QED
  BY <1>2, <1>3

\* Connections keep their types and numbers of their own.
LEMMA ConnStep == ASSUME TypeInv, Step PROVE ConnTypes'
<1>0. ConnTypes /\ Events \subseteq Events'
  BY TypeParts, EventsKept
<1>a. conns \subseteq ConnRecord /\ ConnRecord \subseteq ConnRecord' /\ Numbered(conns)
  BY <1>0 DEF ConnTypes, ConnRecord
<1>1. CASE conns' \subseteq conns
  BY <1>a, <1>1 DEF ConnTypes, ConnRecord, Numbered
<1>2. ASSUME conns' \subseteq ConnRecord,
             \A d \in conns' : \E b \in conns : Same(b, d) /\ \A e \in conns' : Same(b, e) => d = e
      PROVE  ConnTypes'
  <2>1. Numbered(conns')
    <3>1. \A d \in conns' : d.n \in 1..MaxConns
      BY <1>2 DEF ConnRecord
    <3>2. ASSUME NEW d \in conns', NEW e \in conns', d.n = e.n PROVE d = e
      <4>1. PICK b \in conns : Same(b, d) /\ \A f \in conns' : Same(b, f) => d = f
        BY <1>2
      <4>2. PICK g \in conns : Same(g, e)
        BY <1>2
      <4>3. b = g
        BY <1>a, <3>2, <4>1, <4>2 DEF Numbered, Same
      <4>4. QED
        BY <4>1, <4>2, <4>3
    <3>3. QED
      BY <3>1, <3>2 DEF Numbered
  <2>2. QED
    BY <1>a, <1>2, <2>1 DEF ConnTypes, ConnRecord, Numbered
<1>3. ASSUME NEW c \in conns, NEW st \in {"unread", "busy", "ok", "refused"}, Answers(c, st)
      PROVE  ConnTypes'
  <2>0. \A d \in conns' : \E b \in conns : Same(b, d) /\ d.st = IF b = c THEN st ELSE b.st
    BY <1>3, AnswersFacts DEF Moved
  <2>1. ASSUME NEW d \in conns'
        PROVE  \E b \in conns : Same(b, d) /\ \A e \in conns' : Same(b, e) => d = e
    <3>1. PICK b \in conns : Same(b, d) /\ d.st = IF b = c THEN st ELSE b.st
      BY <2>0
    <3>2. ASSUME NEW e \in conns', Same(b, e) PROVE d = e
      <4>1. PICK g \in conns : Same(g, e) /\ e.st = IF g = c THEN st ELSE g.st
        BY <2>0
      <4>2. g = b
        BY <1>a, <3>2, <4>1 DEF Numbered, Same
      <4>3. Same(d, e) /\ d.st = e.st /\ d \in ConnRecord /\ e \in ConnRecord
        BY <1>3, <3>1, <3>2, <4>1, <4>2, AnswersFacts DEF Moved, Same
      <4>4. QED
        BY <4>3 DEF Same, ConnRecord
    <3>3. QED BY <3>1, <3>2
  <2>2. QED
    BY <1>2, <1>3, <2>1, AnswersFacts DEF Moved
<1>4. ASSUME NEW j \in jobs, NEW st \in {"unread", "busy", "ok", "refused"}, Answered(j, st)
      PROVE  ConnTypes'
  <2>1. ASSUME NEW d \in conns'
        PROVE  \E b \in conns : Same(b, d) /\ \A e \in conns' : Same(b, e) => d = e
    <3>1. PICK b \in conns : Same(b, d) /\ d.st = IF b.n = j.via THEN st ELSE b.st
      BY <1>4, AnsweredFacts
    <3>2. ASSUME NEW e \in conns', Same(b, e) PROVE d = e
      <4>1. PICK g \in conns : Same(g, e) /\ e.st = IF g.n = j.via THEN st ELSE g.st
        BY <1>4, AnsweredFacts
      <4>2. g = b
        BY <1>a, <3>2, <4>1 DEF Numbered, Same
      <4>3. Same(d, e) /\ d.st = e.st /\ d \in ConnRecord /\ e \in ConnRecord
        BY <1>4, <3>1, <3>2, <4>1, <4>2, AnsweredFacts DEF Same
      <4>4. QED
        BY <4>3 DEF Same, ConnRecord
    <3>3. QED BY <3>1, <3>2
  <2>2. QED
    BY <1>2, <1>4, <2>1, AnsweredFacts
<1>5. ASSUME NEW r \in Runtimes, NEW q \in Seq(Events), NEW pool \in SUBSET conns, Opened(r, q, pool)
      PROVE  ConnTypes'
  <2> DEFINE x == NewConn(r, q, pool)
  <2>1. Numbered(pool) /\ Cardinality(pool) < MaxConns /\ Head(q) \in Events /\ owner \in Runtimes
    BY <1>5, ResumeTypes, TypeParts, TailFacts, RelayConstants DEF Opened, GeneralTypes
  <2>2. FreeNumber(pool) \in 1..MaxConns /\ \A c \in pool : c.n # FreeNumber(pool)
    BY <2>1, FreeFacts
  <2>3. x \in ConnRecord /\ x.n = FreeNumber(pool)
    BY <2>1, <2>2 DEF ConnRecord, NewConn
  <2>4. conns' = pool \cup {x}
    BY <1>5 DEF Opened
  <2> HIDE DEF x
  <2>5. QED
    BY <1>a, <2>1, <2>2, <2>3, <2>4 DEF ConnTypes, ConnRecord, Numbered
<1>6. ASSUME NEW r \in Runtimes, DispatchOwn(r) \/ DispatchWait(r) \/ GivenUp(r) \/ Crash(r)
      PROVE  conns' \subseteq conns
  BY <1>6 DEF DispatchOwn, DispatchWait, GivenUp, Crash
<1>7. ASSUME NEW r \in Runtimes, NEW q \in Seq(Events), NEW pool \in SUBSET conns,
             Parked(r, q, pool) \/ Served(r, q, pool)
      PROVE  conns' \subseteq conns
  BY <1>7 DEF Parked, Served
<1>8. ASSUME NEW c \in conns, Dropped(c) \/ Rejected(c) \/ Incoming(c)
      PROVE  ConnTypes'
  BY <1>1, <1>3, <1>8 DEF Dropped, Rejected, Incoming
<1>9. ASSUME NEW j \in jobs, OwnerEventDone(j) \/ OwnerEventThrows(j)
      PROVE  ConnTypes'
  BY <1>4, <1>9 DEF OwnerEventDone, OwnerEventThrows
<1>10. CASE Elected \/ Tick
  BY <1>1, <1>10 DEF Elected, Tick, receiving
<1>11. QED
  BY <1>1, <1>5, <1>6, <1>7, <1>8, <1>9, <1>10 DEF Step

\* The calls that the relay loops make themselves stay apart.
LEMMA InlineStep == ASSUME TypeInv, Step PROVE InlineAlone'
<1>0. InlineAlone /\ SenderTypes /\ \A j \in jobs : j.at \in Runtimes
  BY TypeParts, Typing
<1>1. CASE jobs' \subseteq jobs /\ UNCHANGED flush
  BY <1>0, <1>1 DEF InlineAlone
<1>2. ASSUME NEW r \in Runtimes, NEW e, NEW k, NEW via \in 0..MaxConns, ProcessOwnerEvent(r, e, k, via),
             UNCHANGED flush
      PROVE  InlineAlone'
  <2>1. via # Inline
    BY Typing DEF Inline
  <2>2. CASE jobs' = jobs
    BY <1>1, <1>2, <2>2
  <2>3. CASE jobs' = jobs \cup {[ev |-> e, at |-> r, via |-> via]}
    BY <1>0, <1>2, <2>1, <2>3 DEF InlineAlone
  <2>4. QED
    BY <1>2, <2>2, <2>3 DEF ProcessOwnerEvent, Call
<1>3. ASSUME NEW r \in Runtimes, NEW q \in Seq(Events), NEW pool \in SUBSET conns, Resumes(r, q, pool)
      PROVE  \A j \in jobs : j.via = Inline => j.at # r
  <2>1. ASSUME NEW j \in jobs, j.via = Inline, j.at = r PROVE FALSE
    <3>1. flush[r] = "local"
      BY <1>0, <2>1 DEF InlineAlone
    <3>2. PICK c \in conns : attempt[r] = c.n
      BY <1>3, <2>1, <3>1 DEF Resumes
    <3>3. c.n # 0
      BY Typing DEF Conn
    <3>4. QED
      BY <1>0, <3>1, <3>2, <3>3 DEF SenderTypes
  <2>2. QED BY <2>1
<1>4. ASSUME NEW r \in Runtimes, NEW q \in Seq(Events), NEW pool \in SUBSET conns,
             Parked(r, q, pool) \/ Opened(r, q, pool)
      PROVE  InlineAlone'
  <2>1. \A j \in jobs : j.via = Inline => j.at # r
    BY <1>3, <1>4 DEF Parked, Opened
  <2>2. jobs' = jobs /\ \A s \in Runtimes : s # r => flush'[s] = flush[s]
    BY <1>0, <1>4 DEF Parked, Opened, NoCall, SenderTypes
  <2>3. QED
    BY <1>0, <2>1, <2>2 DEF InlineAlone
<1>5. ASSUME NEW r \in Runtimes, NEW q \in Seq(Events), NEW pool \in SUBSET conns, Served(r, q, pool)
      PROVE  InlineAlone'
  <2>1. \A j \in jobs : j.via = Inline => j.at # r
    BY <1>3, <1>5 DEF Served
  <2>2. flush' = [flush EXCEPT ![r] = "local"] /\ DOMAIN flush = Runtimes
    BY <1>0, <1>5 DEF Served, SenderTypes
  <2>3. jobs' = jobs \/ \E e : jobs' = jobs \cup {[ev |-> e, at |-> r, via |-> Inline]}
    BY <1>5 DEF Served, ProcessOwnerEvent, Call
  <2>4. QED
    BY <1>0, <2>1, <2>2, <2>3 DEF InlineAlone
<1>6. ASSUME NEW r \in Runtimes, GivenUp(r) PROVE InlineAlone'
  <2>1. jobs' = jobs /\ \A s \in Runtimes : s # r => flush'[s] = flush[s]
    BY <1>0, <1>6 DEF GivenUp, GiveUp, NoCall, SenderTypes
  <2>2. \A j \in jobs : j.via = Inline => j.at # r
    BY <1>0, <1>6 DEF InlineAlone, GivenUp
  <2>3. QED
    BY <1>0, <2>1, <2>2 DEF InlineAlone
<1>7. ASSUME NEW r \in Runtimes, Crash(r) PROVE InlineAlone'
  <2>1. jobs' = {j \in jobs : j.at # r} /\ \A s \in Runtimes : s # r => flush'[s] = flush[s]
    BY <1>0, <1>7 DEF Crash, SenderTypes
  <2>2. QED
    BY <1>0, <2>1 DEF InlineAlone
<1>8. ASSUME NEW j \in jobs, OwnerEventThrows(j) PROVE InlineAlone'
  <2>1. /\ jobs' = jobs \ {j} /\ DOMAIN flush = Runtimes
        /\ flush' = IF j.via = Inline THEN [flush EXCEPT ![j.at] = "idle"] ELSE flush
    BY <1>0, <1>8 DEF OwnerEventThrows, SenderTypes
  <2>2. QED
    BY <1>0, <2>1 DEF InlineAlone
<1>9. ASSUME NEW r \in Runtimes, DispatchOwn(r) PROVE InlineAlone'
  <2>1. 0 \in 0..MaxConns
    BY Typing
  <2>2. PICK e, k : ProcessOwnerEvent(r, e, k, 0)
    BY <1>9 DEF DispatchOwn, Caller
  <2>3. QED
    BY <1>2, <1>9, <2>1, <2>2 DEF DispatchOwn
<1>10. ASSUME NEW c \in conns, Incoming(c) PROVE InlineAlone'
  <2>1. c.n \in 0..MaxConns /\ c.to \in Runtimes
    BY Typing DEF Conn
  <2>2. QED
    BY <1>2, <1>10, <2>1 DEF Incoming
<1>11. ASSUME NEW c \in conns, Dropped(c) \/ Rejected(c) PROVE InlineAlone'
  BY <1>1, <1>11 DEF Dropped, Rejected, NoCall
<1>12. ASSUME NEW r \in Runtimes, DispatchWait(r) PROVE InlineAlone'
  BY <1>1, <1>12 DEF DispatchWait, NoCall
<1>13. ASSUME NEW j \in jobs, OwnerEventDone(j) PROVE InlineAlone'
  BY <1>1, <1>13 DEF OwnerEventDone, sending
<1>14. CASE Elected \/ Tick
  BY <1>1, <1>14 DEF Elected, Tick, sending, receiving
<1>15. QED
  BY <1>4, <1>5, <1>6, <1>7, <1>8, <1>9, <1>10, <1>11, <1>12, <1>13, <1>14 DEF Step

\* Types are kept, and what one step does.
LEMMA TypeStep == TypeInv /\ [Next]_vars => TypeInv' /\ Step
<1> SUFFICES ASSUME TypeInv, [Next]_vars PROVE TypeInv' /\ Step
  OBVIOUS
<1>1. Step
  BY NextCases
<1>2. GeneralTypes' /\ SenderTypes' /\ ConnTypes' /\ CallTypes' /\ InlineAlone'
  BY <1>1, GeneralStep, SenderStep, ConnStep, CallStep, InlineStep
<1>3. (GeneralTypes /\ SenderTypes /\ ConnTypes /\ CallTypes /\ InlineAlone)' => TypeInv'
  BY TypeParts, PTL
<1>4. QED
  BY <1>1, <1>2, <1>3

\* At the start nothing has been dispatched.
LEMMA TypeInit == Init => TypeInv
<1> SUFFICES ASSUME Init PROVE TypeInv
  OBVIOUS
<1>1. /\ 0 \in 0..MaxFaults /\ 0 \in 0..MaxClock /\ 0 \in 0..MaxConns /\ 0 \in Stamps
      /\ Capacities \subseteq Nat /\ MaxEvents \in Nat
  BY RelayConstants DEF Stamps
<1>2. GeneralTypes
  BY <1>1 DEF Init, GeneralTypes
<1>3. SenderTypes
  <2>1. \A r \in Runtimes : queue[r] = <<>> /\ Len(queue[r]) = 0 /\ attempt[r] = 0 /\ flush[r] = "idle"
    BY DEF Init
  <2>2. capacity \in Nat
    BY <1>1 DEF Init
  <2>3. QED
    BY <1>1, <2>1, <2>2 DEF Init, SenderTypes
<1>4. ConnTypes
  BY DEF Init, ConnTypes, Numbered
<1>5. CallTypes
  BY <1>1 DEF Init, CallTypes
<1>6. InlineAlone
  BY DEF Init, InlineAlone
<1>7. QED
  BY <1>2, <1>3, <1>4, <1>5, <1>6, TypeParts

\* Queues never pass their capacity, every event is one that was dispatched, and every
\* other variable of the relay has its type: TypeOK.
THEOREM RelayTypes == Spec => []TypeOK
<1>1. Spec => []TypeInv
  BY TypeInit, TypeStep, PTL DEF Spec
<1>2. TypeInv => TypeOK
  BY DEF TypeInv
<1>3. QED
  BY <1>1, <1>2, PTL

-----------------------------------------------------------------------------
(* The dedupe windows *)

\* Marker m stands for event f, by its id or by its semantic key.
Marks(m, f) == m = f \/ (HasKey(m) /\ event[f].key = m)

\* Runtime r was given event e.
Processed(r, e, via) ==
  ProcessOwnerEvent(r, e, event'[e].key, via) /\ UNCHANGED <<boot, clock, completed, failed>>

\* A dispatch adds one event, of its runtime.
LEMMA NewEvent ==
  ASSUME TypeInv, NEW r \in Runtimes, DispatchOwn(r) \/ DispatchWait(r)
  PROVE  /\ Len(event) + 1 \in Events' /\ Len(event) + 1 \notin Events
         /\ Events' = Events \cup {Len(event) + 1}
         /\ \A x \in Events : x < Len(event) + 1
         /\ event'[Len(event) + 1].home = r
         /\ DispatchOwn(r) => Processed(r, Len(event) + 1, Caller)
<1>1. PICK kind \in Kinds :
        /\ event' = Append(event, [home |-> r, key |-> kind.key, large |-> kind.large])
        /\ DispatchOwn(r) => ProcessOwnerEvent(r, Len(event) + 1, kind.key, Caller)
  BY DEF DispatchOwn, DispatchWait
<1> DEFINE x == [home |-> r, key |-> kind.key, large |-> kind.large]
<1>2. x \in EventRecord /\ event \in Seq(EventRecord) /\ x.key = kind.key /\ x.home = r
  BY RelayConstants DEF EventRecord, TypeInv, TypeOK
<1>3. event' = Append(event, x)
  BY <1>1
<1> HIDE DEF x
<1>4. /\ Events' = 1..(Len(event) + 1) /\ event'[Len(event) + 1] = x
      /\ Events = 1..Len(event) /\ Len(event) \in Nat
  BY <1>2, <1>3, AppendFacts DEF Events
<1>5. DispatchOwn(r) => Processed(r, Len(event) + 1, Caller)
  BY <1>1, <1>2, <1>4 DEF DispatchOwn, Processed
<1>6. QED
  BY <1>2, <1>4, <1>5

\* The loop of the owner processes the head of its queue.
LEMMA ServedProcessed ==
  ASSUME TypeInv, Step, NEW r \in Runtimes, NEW q \in Seq(Events), NEW pool \in SUBSET conns,
         Served(r, q, pool)
  PROVE  Head(q) \in Events /\ Head(q) \in Events' /\ Processed(r, Head(q), Inline)
<1>0. Events \subseteq Events' /\ \A e \in Events : event'[e] = event[e]
  BY EventsKept
<1>1. Head(q) \in Events
  BY TailFacts DEF Served
<1>2. QED
  BY <1>0, <1>1 DEF Served, Processed, Elsewhere

\* The owner processes what a connection brought.
LEMMA IncomingProcessed ==
  ASSUME TypeInv, Step, NEW c \in conns, Incoming(c)
  PROVE  c.ev \in Events /\ c.ev \in Events' /\ Processed(c.to, c.ev, c.n)
<1>0. Events \subseteq Events' /\ \A e \in Events : event'[e] = event[e]
  BY EventsKept
<1>1. c.ev \in Events /\ c.to \in Runtimes /\ c.n \in 1..MaxConns
  BY Typing DEF Conn
<1>2. QED
  BY <1>0, <1>1 DEF Incoming, Processed, Elsewhere

\* What a step does to markers and log: all of it in processOwnerEvent, or in a crash.
Quiet == UNCHANGED <<log, seen, boot, clock>>
LEMMA ReceiverCases ==
  ASSUME TypeInv, Step
  PROVE  \/ \E r \in Runtimes, e \in Events', via \in 0..Inline : Processed(r, e, via)
         \/ Quiet \/ Tick \/ \E r \in Runtimes : Crash(r)
<1>a. Inline \in 0..Inline /\ Caller \in 0..Inline /\ \A n \in 1..MaxConns : n \in 0..Inline
  BY Typing DEF Inline, Caller
<1>1. ASSUME NEW r \in Runtimes, DispatchOwn(r)
      PROVE  \E e \in Events' : Processed(r, e, Caller)
  BY <1>1, NewEvent
<1>2. ASSUME NEW r \in Runtimes, NEW q \in Seq(Events), NEW pool \in SUBSET conns, Served(r, q, pool)
      PROVE  \E e \in Events' : Processed(r, e, Inline)
  BY <1>2, ServedProcessed
<1>3. ASSUME NEW c \in conns, Incoming(c)
      PROVE  \E e \in Events' : Processed(c.to, e, c.n) /\ c.to \in Runtimes /\ c.n \in 1..MaxConns
  BY <1>3, IncomingProcessed, Typing DEF Conn
<1>4. ASSUME NEW r \in Runtimes, DispatchWait(r) \/ GivenUp(r) PROVE Quiet
  BY <1>4 DEF DispatchWait, GivenUp, NoCall, Quiet
<1>5. ASSUME NEW r \in Runtimes, NEW q \in Seq(Events), NEW pool \in SUBSET conns,
             Parked(r, q, pool) \/ Opened(r, q, pool)
      PROVE  Quiet
  BY <1>5 DEF Parked, Opened, NoCall, Elsewhere, Quiet
<1>6. ASSUME NEW c \in conns, Dropped(c) \/ Rejected(c) PROVE Quiet
  BY <1>6 DEF Dropped, Rejected, NoCall, Elsewhere, Quiet
<1>7. ASSUME NEW j \in jobs, OwnerEventDone(j) \/ OwnerEventThrows(j) PROVE Quiet
  BY <1>7 DEF OwnerEventDone, OwnerEventThrows, Quiet
<1>8. CASE Elected
  BY <1>8 DEF Elected, receiving, history, Quiet
<1>9. QED
  BY <1>a, <1>1, <1>2, <1>3, <1>4, <1>5, <1>6, <1>7, <1>8 DEF Step

\* The log after a call of onOwnerEvent.
LogEntry(r, e) == [ev |-> e, key |-> event'[e].key, at |-> <<r, boot[r]>>, time |-> clock]
LEMMA LogFacts ==
  ASSUME TypeInv, TypeInv', NEW r \in Runtimes, NEW e \in Events', NEW via \in 0..Inline,
         Processed(r, e, via)
  PROVE  /\ Known(r, e, event'[e].key) => UNCHANGED <<log, jobs>>
         /\ ~Known(r, e, event'[e].key) =>
              /\ log' = Append(log, LogEntry(r, e)) /\ early' = early
              /\ jobs' = jobs \cup {[ev |-> e, at |-> r, via |-> via]}
              /\ DOMAIN log = 1..Len(log) /\ Len(log) \in Nat
              /\ DOMAIN log' = 1..(Len(log) + 1)
              /\ log'[Len(log) + 1] = LogEntry(r, e)
              /\ \A i \in DOMAIN log : log'[i] = log[i]
<1>1. CASE Known(r, e, event'[e].key)
  BY <1>1 DEF Processed, ProcessOwnerEvent
<1>2. CASE ~Known(r, e, event'[e].key)
  <2>1. /\ log' = Append(log, LogEntry(r, e)) /\ early' = early
        /\ jobs' = jobs \cup {[ev |-> e, at |-> r, via |-> via]}
    BY <1>2 DEF Processed, ProcessOwnerEvent, Call, LogEntry
  <2>2. log \in Seq(Entry)
    BY TypeParts DEF CallTypes
  <2>3. DOMAIN log = 1..Len(log) /\ Len(log) \in Nat
    BY <2>2, SeqFacts
  <2>4. /\ DOMAIN log' = 1..(Len(log) + 1) /\ log'[Len(log) + 1] = LogEntry(r, e)
        /\ \A i \in 1..Len(log) : log'[i] = log[i]
    <3>1. log \in Seq({log[i] : i \in DOMAIN log} \cup {LogEntry(r, e)})
      BY <2>2, <2>3
    <3>2. QED
      BY <2>1, <3>1, AppendFacts
  <2>5. QED
    BY <1>2, <2>1, <2>3, <2>4
<1>3. QED
  BY <1>1, <1>2

\* The markers after it.
LEMMA SeenFacts ==
  ASSUME TypeInv, TypeInv', Step, NEW r \in Runtimes, NEW e \in Events', NEW via \in 0..Inline,
         Processed(r, e, via)
  PROVE  /\ \A s \in Runtimes : s # r => seen'[s] = seen[s]
         /\ \A m \in Markers : seen[r][m] > clock => seen'[r][m] = seen[r][m]
         /\ \A m \in Markers : seen'[r][m] > 0 => seen[r][m] > clock \/ Marks(m, e)'
         /\ ~Known(r, e, event'[e].key) =>
              \A m \in Markers : Marks(m, e)' => seen[r][m] <= clock /\ seen'[r][m] = clock + Ttl
         /\ Known(r, e, event'[e].key) => \E m \in Markers : Marks(m, e)' /\ seen[r][m] > clock
<1> DEFINE k == event'[e].key
<1>0. seen \in [Runtimes -> [Markers -> Stamps]]
  BY TypeParts DEF CallTypes
<1>1. clock \in Nat /\ Ttl \in Nat \ {0} /\ MaxClock \in Nat
  BY TypeParts, RelayConstants DEF GeneralTypes
<1>a. \A m \in Markers : seen[r][m] \in Nat
  BY <1>0, <1>1 DEF Stamps
<1>b. \A m \in Markers : Pruned(r)[m] = IF seen[r][m] <= clock THEN 0 ELSE seen[r][m]
  BY DEF Pruned
<1>2. e \in Markers /\ k \in Keys \cup {NoKey}
  <2>1. Events' = 1..Len(event') /\ Len(event') \in Nat /\ MaxEvents \in Nat /\ Len(event') <= MaxEvents
        /\ event'[e] \in EventRecord
    BY EventsKept, RelayConstants, SeqFacts DEF Events
  <2>2. QED
    BY <2>1 DEF Markers, EventRecord
<1>3. HasKey(k) => k \in Markers
  BY <1>2 DEF HasKey, Markers
<1>4. \A m : Marks(m, e)' <=> m = e \/ (HasKey(m) /\ k = m)
  BY DEF Marks, HasKey
<1>5. seen' = [seen EXCEPT ![r] = Marked(r, e, k)]
  BY DEF Processed, ProcessOwnerEvent
<1> HIDE DEF k
<1>6. seen'[r] = Marked(r, e, k) /\ \A s \in Runtimes : s # r => seen'[s] = seen[s]
  BY <1>0, <1>5
<1>7. \A m \in Markers :
        seen'[r][m] = IF (m = e /\ Pruned(r)[e] = 0) \/ (HasKey(k) /\ m = k /\ ~Known(r, e, k))
                      THEN clock + Ttl ELSE Pruned(r)[m]
  BY <1>6 DEF Marked
<1>8. Known(r, e, k) <=> Pruned(r)[e] > 0 \/ (HasKey(k) /\ Pruned(r)[k] > 0)
  BY DEF Known
<1>9. \A m \in Markers : seen[r][m] > clock => seen'[r][m] = seen[r][m]
  BY <1>1, <1>a, <1>b, <1>2, <1>3, <1>7, <1>8
<1>10. \A m \in Markers : seen'[r][m] > 0 => seen[r][m] > clock \/ Marks(m, e)'
  BY <1>1, <1>a, <1>b, <1>4, <1>7
<1>11. ASSUME ~Known(r, e, k), NEW m \in Markers, Marks(m, e)'
       PROVE  seen[r][m] <= clock /\ seen'[r][m] = clock + Ttl
  BY <1>1, <1>a, <1>b, <1>2, <1>3, <1>4, <1>7, <1>8, <1>11
<1>12. ASSUME Known(r, e, k) PROVE \E m \in Markers : Marks(m, e)' /\ seen[r][m] > clock
  <2>1. CASE Pruned(r)[e] > 0
    BY <1>1, <1>a, <1>b, <1>2, <1>4, <2>1
  <2>2. CASE HasKey(k) /\ Pruned(r)[k] > 0
    BY <1>1, <1>a, <1>b, <1>3, <1>4, <2>2
  <2>3. QED BY <1>8, <1>12, <2>1, <2>2
<1>13. QED
  BY <1>6, <1>9, <1>10, <1>11, <1>12 DEF k

\* A call of onOwnerEvent in this life of its runtime is remembered for the window.
Remembered ==
  \A i \in DOMAIN log : \A m \in Markers :
    log[i].at[2] = boot[log[i].at[1]] /\ Marks(m, log[i].ev)
      => \/ seen[log[i].at[1]][m] >= log[i].time + Ttl
         \/ clock >= log[i].time + Ttl
WindowInv ==
  /\ \A i \in DOMAIN log : log[i].at[2] <= boot[log[i].at[1]] /\ log[i].time <= clock
  /\ Remembered /\ OncePerWindow

\* Two events say the same when one marker stands for both.
MarkersTell ==
  \A e, f \in Events : SameContent(e, f) <=> \E m \in Markers : Marks(m, e) /\ Marks(m, f)
LEMMA SameMarks == TypeInv => MarkersTell
<1> SUFFICES ASSUME TypeInv, NEW e \in Events, NEW f \in Events
             PROVE  SameContent(e, f) <=> \E m \in Markers : Marks(m, e) /\ Marks(m, f)
  BY DEF MarkersTell
<1>1. /\ \A x \in Events : event[x].key \in Keys \cup {NoKey}
      /\ e \in Markers /\ f \in Markers /\ Keys \subseteq Markers
  <2>1. Events = 1..Len(event) /\ Len(event) <= MaxEvents /\ Len(event) \in Nat /\ MaxEvents \in Nat
    BY Typing DEF TypeInv
  <2>2. QED
    BY Typing, <2>1 DEF Markers
<1>2. ASSUME SameContent(e, f) PROVE \E m \in Markers : Marks(m, e) /\ Marks(m, f)
  BY <1>1, <1>2 DEF SameContent, Marks, HasKey
<1>3. ASSUME NEW m \in Markers, Marks(m, e), Marks(m, f) PROVE SameContent(e, f)
  <2>1. ~(HasKey(m) /\ (event[e].key = m \/ event[f].key = m) /\ m \in Events)
    <3>1. Keys \cap (1..MaxEvents) = {}
      BY RelayConstants
    <3>2. Events \subseteq 1..MaxEvents
      BY Typing, SMTT(30) DEF TypeInv
    <3>3. QED
      BY <1>1, <3>1, <3>2 DEF HasKey
  <2>2. QED
    BY <1>3, <2>1 DEF SameContent, Marks
<1>4. QED
  BY <1>2, <1>3

\* What an event says does not change.
LEMMA ContentKept ==
  ASSUME TypeInv, Step
  PROVE  /\ \A e, f \in Events : SameContent(e, f)' <=> SameContent(e, f)
         /\ \A m : \A e \in Events : Marks(m, e)' <=> Marks(m, e)
<1>1. Events \subseteq Events' /\ \A e \in Events : event'[e] = event[e]
  BY EventsKept
<1>2. ASSUME NEW e \in Events, NEW f \in Events PROVE SameContent(e, f)' <=> SameContent(e, f)
  BY <1>1 DEF SameContent, HasKey
<1>3. ASSUME NEW m, NEW e \in Events PROVE Marks(m, e)' <=> Marks(m, e)
  BY <1>1 DEF Marks, HasKey
<1>4. QED
  BY <1>2, <1>3

\* The entries of the log.
LEMMA LogTyping ==
  ASSUME TypeInv
  PROVE  /\ DOMAIN log = 1..Len(log) /\ Len(log) \in Nat
         /\ \A i \in DOMAIN log : /\ log[i].ev \in Events /\ log[i].time \in Nat
                                  /\ log[i].at \in Runtimes \X Nat
                                  /\ log[i].at[1] \in Runtimes /\ log[i].at[2] \in Nat
         /\ boot \in [Runtimes -> Nat] /\ clock \in Nat /\ Ttl \in Nat \ {0}
         /\ \A r \in Runtimes : \A m \in Markers : seen[r][m] \in Nat
<1>1. /\ log \in Seq(Entry) /\ seen \in [Runtimes -> [Markers -> Stamps]]
      /\ boot \in [Runtimes -> Nat] /\ clock \in 0..MaxClock
  BY TypeParts DEF CallTypes, GeneralTypes
<1>2. DOMAIN log = 1..Len(log) /\ Len(log) \in Nat /\ \A i \in DOMAIN log : log[i] \in Entry
  BY <1>1, SeqFacts
<1>3. MaxClock \in Nat /\ Ttl \in Nat \ {0}
  BY RelayConstants
<1>4. QED
  BY <1>1, <1>2, <1>3 DEF Entry, Stamps

\* Whatever happens, a runtime calls onOwnerEvent for one content once in a window.
LEMMA WindowStep ==
  ASSUME TypeInv, TypeInv', Step, WindowInv
  PROVE  WindowInv'
<1>0. /\ \A i \in DOMAIN log : log[i].at[2] <= boot[log[i].at[1]] /\ log[i].time <= clock
      /\ Remembered /\ OncePerWindow
  BY DEF WindowInv
<1>a. /\ DOMAIN log = 1..Len(log) /\ Len(log) \in Nat
      /\ \A i \in DOMAIN log : /\ log[i].ev \in Events /\ log[i].time \in Nat
                               /\ log[i].at \in Runtimes \X Nat
                               /\ log[i].at[1] \in Runtimes /\ log[i].at[2] \in Nat
      /\ boot \in [Runtimes -> Nat] /\ clock \in Nat /\ Ttl \in Nat \ {0}
      /\ \A r \in Runtimes : \A m \in Markers : seen[r][m] \in Nat
  BY LogTyping
<1>b. UNCHANGED Ttl /\ Markers' = Markers
  BY DEF Markers
<1>1. CASE log' = log /\ clock' = clock /\ boot' = boot /\ seen' = seen
  BY <1>0, <1>a, <1>1, ContentKept DEF WindowInv, Remembered, OncePerWindow
<1>2. CASE Tick
  <2>1. log' = log /\ clock' = clock + 1 /\ boot' = boot /\ seen' = seen
    BY <1>2 DEF Tick, receiving, history
  <2>2. OncePerWindow'
    BY <1>0, <1>a, <2>1, ContentKept DEF OncePerWindow
  <2>3. Remembered'
    BY <1>0, <1>a, <2>1, ContentKept, SMTT(30) DEF Remembered
  <2>4. QED
    BY <1>0, <1>a, <2>1, <2>2, <2>3 DEF WindowInv
<1>3. ASSUME NEW r \in Runtimes, Crash(r) PROVE WindowInv'
  <2>1. /\ log' = log /\ clock' = clock
        /\ \A s \in Runtimes : boot'[s] = IF s = r THEN boot[s] + 1 ELSE boot[s]
        /\ \A s \in Runtimes : s # r => seen'[s] = seen[s]
    BY <1>3, <1>a, TypeParts DEF Crash, CallTypes
  <2>2. OncePerWindow'
    BY <1>0, <1>a, <2>1, ContentKept DEF OncePerWindow
  <2>3. Remembered'
    <3>1. SUFFICES ASSUME NEW i \in DOMAIN log, NEW m \in Markers,
                          log[i].at[2] = boot'[log[i].at[1]], Marks(m, log[i].ev)'
                   PROVE  \/ seen'[log[i].at[1]][m] >= log[i].time + Ttl
                          \/ clock >= log[i].time + Ttl
      BY <2>1 DEF Remembered, Markers
    <3>2. log[i].at[1] # r
      BY <1>0, <1>a, <2>1, <3>1
    <3>3. QED
      BY <1>0, <1>a, <2>1, <3>1, <3>2, ContentKept DEF Remembered
  <2>4. QED
    BY <1>0, <1>a, <2>1, <2>2, <2>3 DEF WindowInv
<1>4. ASSUME NEW r \in Runtimes, NEW e \in Events', NEW via \in 0..Inline, Processed(r, e, via)
      PROVE  WindowInv'
  <2>1. boot' = boot /\ clock' = clock
    BY <1>4 DEF Processed
  <2>2. /\ \A s \in Runtimes : s # r => seen'[s] = seen[s]
        /\ \A m \in Markers : seen[r][m] > clock => seen'[r][m] = seen[r][m]
    BY <1>4, SeenFacts
  <2>3. ASSUME NEW i \in DOMAIN log, NEW m \in Markers,
               log[i].at[2] = boot[log[i].at[1]], NEW x, x = log[i].ev, Marks(m, x)'
        PROVE  \/ seen'[log[i].at[1]][m] >= log[i].time + Ttl
               \/ clock >= log[i].time + Ttl
    <3>1. \/ seen[log[i].at[1]][m] >= log[i].time + Ttl
          \/ clock >= log[i].time + Ttl
      <4>1. x \in Events
        BY <1>a, <2>3
      <4>2. Marks(m, x)
        BY <2>3, <4>1, ContentKept
      <4>3. QED
        BY <1>0, <2>3, <4>2 DEF Remembered
    <3>2. CASE log[i].at[1] # r
      BY <1>a, <2>2, <3>1, <3>2
    <3>3. CASE log[i].at[1] = r
      BY <1>a, <2>2, <3>1, <3>3
    <3>4. QED BY <3>2, <3>3
  <2>4. CASE Known(r, e, event'[e].key)
    <3>1. log' = log
      BY <1>4, <2>4, LogFacts
    <3>2. Remembered'
      BY <2>1, <2>3, <3>1 DEF Remembered, Markers
    <3>3. OncePerWindow'
      BY <1>0, <1>a, <3>1, ContentKept DEF OncePerWindow
    <3>4. QED
      BY <1>0, <2>1, <3>1, <3>2, <3>3 DEF WindowInv
  <2>5. CASE ~Known(r, e, event'[e].key)
    <3>1. /\ DOMAIN log' = 1..(Len(log) + 1) /\ log'[Len(log) + 1] = LogEntry(r, e)
          /\ \A i \in DOMAIN log : log'[i] = log[i]
      BY <1>4, <2>5, LogFacts
    <3>2. \A m \in Markers : Marks(m, e)' => seen[r][m] <= clock /\ seen'[r][m] = clock + Ttl
      BY <1>4, <2>5, SeenFacts
    <3> DEFINE n == Len(log) + 1
    <3>3. /\ log'[n].ev = e /\ log'[n].at = <<r, boot[r]>> /\ log'[n].time = clock
          /\ log'[n].at[1] = r /\ log'[n].at[2] = boot[r]
      BY <3>1 DEF LogEntry
    <3>4. n \in Nat /\ \A i \in DOMAIN log' : i \in DOMAIN log \/ i = n
      BY <1>a, <3>1
    <3> HIDE DEF n
    <3>5. Remembered'
      <4>1. ASSUME NEW i \in DOMAIN log', NEW m \in Markers,
                   log'[i].at[2] = boot[log'[i].at[1]], NEW x, x = log'[i].ev, Marks(m, x)'
            PROVE  \/ seen'[log'[i].at[1]][m] >= log'[i].time + Ttl
                   \/ clock >= log'[i].time + Ttl
        <5>1. CASE i \in DOMAIN log
          BY <2>3, <3>1, <4>1, <5>1
        <5>2. CASE i = n
          BY <1>a, <3>2, <3>3, <4>1, <5>2
        <5>3. QED BY <3>4, <5>1, <5>2
      <4>2. QED
        BY <2>1, <4>1 DEF Remembered, Markers
    <3>6. OncePerWindow'
      <4>1. SUFFICES ASSUME NEW i \in DOMAIN log', NEW j \in DOMAIN log', i < j,
                            log'[i].at = log'[j].at, NEW x, x = log'[i].ev,
                            NEW y, y = log'[j].ev, SameContent(x, y)'
                     PROVE  log'[j].time - log'[i].time >= Ttl
        BY DEF OncePerWindow
      <4>2. i \in DOMAIN log
        BY <1>a, <3>1, <4>1
      <4>3. CASE j \in DOMAIN log
        <5>1. /\ x = log[i].ev /\ y = log[j].ev /\ log[i].at = log[j].at
              /\ x \in Events /\ y \in Events
          BY <1>a, <3>1, <4>1, <4>2, <4>3
        <5>2. SameContent(x, y)
          BY <4>1, <5>1, ContentKept
        <5>3. log[j].time - log[i].time >= Ttl
          BY <1>0, <4>1, <4>2, <4>3, <5>1, <5>2 DEF OncePerWindow
        <5>4. QED
          BY <3>1, <4>2, <4>3, <5>3
      <4>4. CASE j = n
        <5>1. log[i].at = <<r, boot[r]>> /\ x = log[i].ev /\ x \in Events /\ x \in Events' /\ y = e
          BY <1>a, <3>1, <3>3, <4>1, <4>2, <4>4, EventsKept
        <5>2. \A f, g \in Events' :
                SameContent(f, g)' <=> \E m \in Markers' : Marks(m, f)' /\ Marks(m, g)'
          <6>1. TypeInv' => MarkersTell'
            BY SameMarks, PTL
          <6>2. QED
            BY <6>1 DEF MarkersTell
        <5>3. PICK m \in Markers : Marks(m, x)' /\ Marks(m, e)'
          BY <1>b, <4>1, <5>1, <5>2
        <5>4. seen[r][m] <= clock
          BY <3>2, <5>3
        <5>5. seen[r][m] >= log[i].time + Ttl \/ clock >= log[i].time + Ttl
          <6>1. Marks(m, x)
            BY <5>1, <5>3, ContentKept
          <6>2. log[i].at[1] = r /\ log[i].at[2] = boot[log[i].at[1]]
            BY <5>1
          <6>3. QED
            BY <1>0, <4>2, <5>1, <6>1, <6>2 DEF Remembered
        <5>6. QED
          BY <1>a, <3>1, <3>3, <4>2, <4>4, <5>4, <5>5
      <4>5. QED BY <3>4, <4>3, <4>4
    <3>7. \A i \in DOMAIN log' : log'[i].at[2] <= boot'[log'[i].at[1]] /\ log'[i].time <= clock'
      BY <1>0, <1>a, <2>1, <3>1, <3>3, <3>4
    <3>8. QED
      BY <3>5, <3>6, <3>7 DEF WindowInv
  <2>6. QED BY <2>4, <2>5
<1>5. QED
  BY <1>1, <1>2, <1>3, <1>4, ReceiverCases DEF Quiet

-----------------------------------------------------------------------------
(* Queues and connections *)

\* A runtime queues and relays events of its own, the oldest first.
QueueInv ==
  /\ \A r \in Runtimes : \A i \in DOMAIN queue[r] : event[queue[r][i]].home = r
  /\ \A r \in Runtimes : \A i, j \in DOMAIN queue[r] : i < j => queue[r][i] < queue[r][j]
  /\ \A c \in conns : event[c.ev].home = c.from
  /\ \A c \in conns : \A i \in DOMAIN queue[c.from] : c.ev <= queue[c.from][i]

\* Sequence t is s without its first n elements.
Suffix(t, s, n) == \A i \in DOMAIN t : i + n \in DOMAIN s /\ t[i] = s[i + n]

\* The loop goes on with a suffix of its queue.
LEMMA ResumeSuffix ==
  ASSUME TypeInv, NEW r \in Runtimes, NEW q \in Seq(Events), NEW pool \in SUBSET conns,
         Resumes(r, q, pool)
  PROVE  /\ \E n \in Nat : Suffix(q, queue[r], n)
         /\ q # <<>> => \E n \in Nat : Suffix(Tail(q), queue[r], n)
<1>1. queue[r] \in Seq(Events)
  BY Typing
<1>2. q = queue[r] \/ (queue[r] # <<>> /\ q = Tail(queue[r]))
  <2>1. ASSUME NEW c \in conns, c.from = r, attempt[r] = c.n PROVE queue[r] # <<>>
    BY <2>1, Typing DEF TypeInv, Conn
  <2>2. QED
    BY <2>1 DEF Resumes
<1>3. PICK n \in 0..1 : Suffix(q, queue[r], n)
  <2>1. CASE q = queue[r]
    <3>1. \A i \in DOMAIN q : i + 0 = i
      BY SeqFacts
    <3>2. Suffix(q, queue[r], 0)
      BY <2>1, <3>1 DEF Suffix
    <3>3. QED BY <3>2
  <2>2. CASE queue[r] # <<>> /\ q = Tail(queue[r])
    <3>1. Suffix(q, queue[r], 1)
      BY <1>1, <2>2, TailFacts DEF Suffix
    <3>2. QED BY <3>1
  <2>3. QED BY <1>2, <2>1, <2>2
<1>4. ASSUME q # <<>> PROVE Suffix(Tail(q), queue[r], n + 1)
  <2>1. SUFFICES ASSUME NEW i \in DOMAIN Tail(q)
                 PROVE  i + (n + 1) \in DOMAIN queue[r] /\ Tail(q)[i] = queue[r][i + (n + 1)]
    BY DEF Suffix
  <2>2. i + 1 \in DOMAIN q /\ Tail(q)[i] = q[i + 1] /\ i \in Int
    BY <1>4, TailFacts
  <2>3. (i + 1) + n \in DOMAIN queue[r] /\ q[i + 1] = queue[r][(i + 1) + n]
    BY <1>3, <2>2 DEF Suffix
  <2>4. (i + 1) + n = i + (n + 1)
    BY <2>2
  <2>5. QED BY <2>2, <2>3, <2>4
<1>5. n \in Nat /\ n + 1 \in Nat
  OBVIOUS
<1>6. QED
  BY <1>3, <1>4, <1>5

\* A queue gets shorter at its head, or one event longer.
LEMMA QueueCases ==
  ASSUME TypeInv, Step, NEW s \in Runtimes
  PROVE  DispatchWait(s) \/ \E n \in Nat : Suffix(queue'[s], queue[s], n)
<1>0. queue \in [Runtimes -> Seq(Events)]
  BY TypeParts DEF SenderTypes
<1>1. ASSUME queue'[s] = queue[s] PROVE \E n \in Nat : Suffix(queue'[s], queue[s], n)
  <2>1. \A i \in DOMAIN queue[s] : i + 0 = i
    BY <1>0, SeqFacts
  <2>2. Suffix(queue'[s], queue[s], 0)
    BY <1>1, <2>1 DEF Suffix
  <2>3. QED BY <2>2
<1>2. ASSUME NEW r \in Runtimes, NEW q \in Seq(Events), NEW pool \in SUBSET conns,
             Parked(r, q, pool) \/ Served(r, q, pool) \/ Opened(r, q, pool)
      PROVE  \E n \in Nat : Suffix(queue'[s], queue[s], n)
  <2>1. CASE s # r
    <3>1. queue'[s] = queue[s]
      BY <1>0, <1>2, <2>1 DEF Parked, Served, Opened
    <3>2. QED BY <1>1, <3>1
  <2>2. CASE s = r
    <3>1. queue'[r] = q \/ (q # <<>> /\ queue'[r] = Tail(q))
      BY <1>0, <1>2 DEF Parked, Served, Opened
    <3>2. Resumes(r, q, pool)
      BY <1>2 DEF Parked, Served, Opened
    <3>3. QED BY <2>2, <3>1, <3>2, ResumeSuffix
  <2>3. QED BY <2>1, <2>2
<1>3. ASSUME NEW r \in Runtimes, Crash(r) PROVE \E n \in Nat : Suffix(queue'[s], queue[s], n)
  <2>1. CASE s # r
    <3>1. queue'[s] = queue[s]
      BY <1>0, <1>3, <2>1 DEF Crash
    <3>2. QED BY <1>1, <3>1
  <2>2. CASE s = r
    <3>1. queue'[s] = <<>>
      BY <1>0, <1>3, <2>2 DEF Crash
    <3>2. Suffix(queue'[s], queue[s], 0)
      BY <3>1 DEF Suffix
    <3>3. QED BY <3>2
  <2>3. QED BY <2>1, <2>2
<1>4. ASSUME NEW r \in Runtimes, DispatchWait(r), r # s PROVE queue'[s] = queue[s]
  BY <1>0, <1>4 DEF DispatchWait, Enqueue, Push, Evict
<1>5. ASSUME NEW r \in Runtimes, DispatchOwn(r) \/ GivenUp(r) PROVE queue' = queue
  BY <1>5 DEF DispatchOwn, GivenUp, GiveUp
<1>6. ASSUME NEW c \in conns, Dropped(c) \/ Rejected(c) \/ Incoming(c) PROVE queue' = queue
  BY <1>6 DEF Dropped, Rejected, Incoming
<1>7. ASSUME NEW j \in jobs, OwnerEventDone(j) \/ OwnerEventThrows(j) PROVE queue' = queue
  BY <1>7 DEF OwnerEventDone, OwnerEventThrows, sending
<1>8. ASSUME Elected \/ Tick PROVE queue' = queue
  BY <1>8 DEF Elected, Tick, sending
<1>9. QED
  BY <1>1, <1>2, <1>3, <1>4, <1>5, <1>6, <1>7, <1>8 DEF Step

\* A connection was open before, or the loop of its runtime has just opened it.
LEMMA ConnCases ==
  ASSUME TypeInv, Step, NEW d \in conns'
  PROVE  \/ \E c \in conns : Same(c, d)
         \/ \E r \in Runtimes : \E q \in Seq(Events), pool \in SUBSET conns :
              Opened(r, q, pool) /\ d = NewConn(r, q, pool)
<1>1. ASSUME conns' \subseteq conns PROVE \E c \in conns : Same(c, d)
  BY <1>1 DEF Same
<1>2. ASSUME NEW r \in Runtimes, DispatchOwn(r) \/ DispatchWait(r) \/ GivenUp(r) \/ Crash(r)
      PROVE  conns' \subseteq conns
  BY <1>2 DEF DispatchOwn, DispatchWait, GivenUp, Crash
<1>3. ASSUME NEW r \in Runtimes, NEW q \in Seq(Events), NEW pool \in SUBSET conns,
             Parked(r, q, pool) \/ Served(r, q, pool)
      PROVE  conns' \subseteq conns
  BY <1>3 DEF Parked, Served
<1>4. ASSUME NEW r \in Runtimes, NEW q \in Seq(Events), NEW pool \in SUBSET conns, Opened(r, q, pool)
      PROVE  (\E c \in conns : Same(c, d)) \/ d = NewConn(r, q, pool)
  BY <1>4 DEF Opened, Same
<1>5. ASSUME NEW c \in conns, NEW st \in {"unread", "busy", "ok", "refused"}, Answers(c, st)
      PROVE  \E b \in conns : Same(b, d)
  BY <1>5, AnswersFacts DEF Moved
<1>6. ASSUME NEW c \in conns, Dropped(c) PROVE conns' \subseteq conns
  BY <1>6 DEF Dropped
<1>7. ASSUME NEW c \in conns, Rejected(c) \/ Incoming(c) PROVE \E b \in conns : Same(b, d)
  BY <1>5, <1>7 DEF Rejected, Incoming
<1>8. ASSUME NEW j \in jobs, OwnerEventDone(j) \/ OwnerEventThrows(j)
      PROVE  \E b \in conns : Same(b, d)
  BY <1>8, AnsweredFacts DEF OwnerEventDone, OwnerEventThrows
<1>9. ASSUME Elected \/ Tick PROVE conns' \subseteq conns
  BY <1>9 DEF Elected, Tick, receiving
<1>10. QED
  BY <1>1, <1>2, <1>3, <1>4, <1>6, <1>7, <1>8, <1>9 DEF Step

\* Queues and connections stay in order.
LEMMA QueueStep ==
  ASSUME TypeInv, TypeInv', Step, QueueInv
  PROVE  QueueInv'
<1>0. /\ \A r \in Runtimes : \A i \in DOMAIN queue[r] : event[queue[r][i]].home = r
      /\ \A r \in Runtimes : \A i, j \in DOMAIN queue[r] : i < j => queue[r][i] < queue[r][j]
      /\ \A c \in conns : event[c.ev].home = c.from
      /\ \A c \in conns : \A i \in DOMAIN queue[c.from] : c.ev <= queue[c.from][i]
  BY DEF QueueInv
<1>a. /\ Events \subseteq Events' /\ \A e \in Events : event'[e] = event[e]
      /\ Events = 1..Len(event) /\ Len(event) \in Nat
  BY EventsKept, Typing
<1>b. \A r \in Runtimes : /\ DOMAIN queue[r] = 1..Len(queue[r]) /\ Len(queue[r]) \in Nat
                          /\ \A i \in DOMAIN queue[r] : queue[r][i] \in Events
  BY Typing, SeqFacts
<1>c. \A r \in Runtimes : /\ DOMAIN queue'[r] = 1..Len(queue'[r]) /\ Len(queue'[r]) \in Nat
                          /\ \A i \in DOMAIN queue'[r] : queue'[r][i] \in Events'
  <2>1. \A r \in Runtimes : queue'[r] \in Seq(Events')
    BY TypeParts DEF TypeInv
  <2>2. QED BY <2>1, SeqFacts
<1>1. ASSUME NEW r \in Runtimes, DispatchWait(r)
      PROVE  /\ event'[Len(event) + 1].home = r
             /\ \A i \in DOMAIN queue'[r] : queue'[r][i] = Len(event) + 1 \/ queue'[r][i] \in Events
             /\ \A i \in DOMAIN queue'[r] : queue'[r][i] \in Events => event'[queue'[r][i]].home = r
             /\ \A i, j \in DOMAIN queue'[r] : i < j => queue'[r][i] < queue'[r][j]
             /\ \A i \in DOMAIN queue'[r] : queue'[r][i] \in Events =>
                  \E k \in DOMAIN queue[r] : queue'[r][i] = queue[r][k]
  <2> DEFINE e == Len(event) + 1
             n == Len(queue'[r])
  <2>1. PICK kind \in Kinds :
          event' = Append(event, [home |-> r, key |-> kind.key, large |-> kind.large])
    BY <1>1 DEF DispatchWait
  <2> DEFINE x == [home |-> r, key |-> kind.key, large |-> kind.large]
  <2>2. x \in EventRecord /\ event \in Seq(EventRecord) /\ x.home = r
    BY RelayConstants DEF EventRecord, TypeInv, TypeOK
  <2>3. event' = Append(event, x)
    BY <2>1
  <2> HIDE DEF x
  <2>4. e \in Events' /\ event'[e] = x
    BY <2>2, <2>3, AppendFacts DEF Events
  <2>5. Enqueue(r, e)
    BY <1>1 DEF DispatchWait
  <2> HIDE DEF e
  <2>6. /\ DOMAIN queue'[r] = 1..n /\ n \in Nat \ {0} /\ queue'[r][n] = e
        /\ \/ n = Len(queue[r]) + 1 /\ \A k \in DOMAIN queue[r] : queue'[r][k] = queue[r][k]
           \/ n = Len(queue[r]) /\ \A k \in 1..(Len(queue[r]) - 1) : queue'[r][k] = queue[r][k + 1]
    BY <1>a, <2>4, <2>5, EnqueueFacts
  <2> HIDE DEF n
  <2>7. PICK m \in 0..1 : \A i \in 1..(n - 1) : i + m \in DOMAIN queue[r] /\ queue'[r][i] = queue[r][i + m]
    <3>1. CASE n = Len(queue[r]) + 1 /\ \A k \in DOMAIN queue[r] : queue'[r][k] = queue[r][k]
      <4>1. \A i \in 1..(n - 1) : i + 0 \in DOMAIN queue[r] /\ queue'[r][i] = queue[r][i + 0]
        <5>1. \A i \in 1..(n - 1) : i + 0 = i /\ i \in DOMAIN queue[r]
          BY <1>b, <2>6, <3>1
        <5>2. QED BY <3>1, <5>1
      <4>2. QED BY <4>1
    <3>2. CASE n = Len(queue[r]) /\ \A k \in 1..(Len(queue[r]) - 1) : queue'[r][k] = queue[r][k + 1]
      <4>1. \A i \in 1..(n - 1) : i + 1 \in DOMAIN queue[r] /\ queue'[r][i] = queue[r][i + 1]
        BY <1>b, <2>6, <3>2
      <4>2. QED BY <4>1
    <3>3. QED BY <2>6, <3>1, <3>2
  <2>8. \A i \in 1..(n - 1) : queue'[r][i] \in Events /\ queue'[r][i] < e
    <3>1. \A x1 \in Events : x1 < e
      BY <1>a DEF e
    <3>2. QED BY <1>b, <2>7, <3>1
  <2>9. \A i \in DOMAIN queue'[r] : i = n \/ i \in 1..(n - 1)
    BY <2>6
  <2>10. e \notin Events
    BY <1>a DEF e
  <2>11. ASSUME NEW i \in 1..(n - 1) PROVE event'[queue'[r][i]].home = r
    <3>1. i + m \in DOMAIN queue[r] /\ queue'[r][i] = queue[r][i + m]
      BY <2>7
    <3>2. event[queue[r][i + m]].home = r /\ queue[r][i + m] \in Events
      BY <1>0, <1>b, <3>1
    <3>3. QED BY <1>a, <3>1, <3>2
  <2>12. ASSUME NEW i \in DOMAIN queue'[r], NEW j \in DOMAIN queue'[r], i < j
         PROVE  queue'[r][i] < queue'[r][j]
    <3>1. i \in 1..(n - 1) /\ i \in Int /\ j \in Int
      BY <2>6, <2>12
    <3>2. CASE j = n
      BY <2>6, <2>8, <3>1, <3>2
    <3>3. CASE j \in 1..(n - 1)
      <4>1. i + m < j + m /\ i + m \in DOMAIN queue[r] /\ j + m \in DOMAIN queue[r]
        BY <2>7, <2>12, <3>1, <3>3
      <4>2. QED BY <1>0, <2>7, <3>1, <3>3, <4>1
    <3>4. QED BY <2>9, <3>2, <3>3
  <2>13. /\ \A i \in DOMAIN queue'[r] : queue'[r][i] = e \/ queue'[r][i] \in Events
         /\ \A i \in DOMAIN queue'[r] : queue'[r][i] \in Events =>
              /\ event'[queue'[r][i]].home = r
              /\ \E k \in DOMAIN queue[r] : queue'[r][i] = queue[r][k]
    BY <2>6, <2>7, <2>8, <2>9, <2>10, <2>11
  <2>14. event'[e].home = r
    BY <2>2, <2>4
  <2>15. QED
    BY <2>12, <2>13, <2>14 DEF e
<1>2. ASSUME NEW r \in Runtimes, NEW n \in Nat, Suffix(queue'[r], queue[r], n)
      PROVE  /\ \A i \in DOMAIN queue'[r] : event'[queue'[r][i]].home = r
             /\ \A i, j \in DOMAIN queue'[r] : i < j => queue'[r][i] < queue'[r][j]
  <2>1. \A i \in DOMAIN queue'[r] : i + n \in DOMAIN queue[r] /\ queue'[r][i] = queue[r][i + n]
    BY <1>2 DEF Suffix
  <2>2. \A i, j \in DOMAIN queue'[r] : i < j => i + n < j + n
    BY <1>c
  <2>3. QED
    BY <1>0, <1>a, <1>b, <2>1, <2>2
<1>3. ASSUME NEW r \in Runtimes, NEW i \in DOMAIN queue'[r] PROVE event'[queue'[r][i]].home = r
  BY <1>1, <1>2, QueueCases
<1>4. ASSUME NEW r \in Runtimes, NEW i \in DOMAIN queue'[r], NEW j \in DOMAIN queue'[r], i < j
      PROVE queue'[r][i] < queue'[r][j]
  BY <1>1, <1>2, <1>4, QueueCases
<1>d. \A c \in conns : Conn(c)
  BY Typing
<1>5. ASSUME NEW d \in conns'
      PROVE  /\ event'[d.ev].home = d.from
             /\ \A i \in DOMAIN queue'[d.from] : d.ev <= queue'[d.from][i]
  <2>1. ASSUME NEW c \in conns, Same(c, d)
        PROVE  /\ event'[d.ev].home = d.from
               /\ \A i \in DOMAIN queue'[d.from] : d.ev <= queue'[d.from][i]
    <3>1. d.ev = c.ev /\ d.from = c.from /\ c.ev \in Events /\ c.from \in Runtimes
      BY <1>d, <2>1 DEF Same, Conn
    <3>2. event'[c.ev].home = c.from
      BY <1>0, <1>a, <3>1
    <3>3. ASSUME NEW i \in DOMAIN queue'[c.from] PROVE c.ev <= queue'[c.from][i]
      <4>1. CASE DispatchWait(c.from)
        <5>1. queue'[c.from][i] = Len(event) + 1 \/ \E k \in DOMAIN queue[c.from] : queue'[c.from][i] = queue[c.from][k]
          BY <1>1, <3>1, <4>1
        <5>2. QED
          BY <1>0, <1>a, <3>1, <5>1
      <4>2. ASSUME NEW n \in Nat, Suffix(queue'[c.from], queue[c.from], n)
            PROVE  c.ev <= queue'[c.from][i]
        BY <1>0, <4>2 DEF Suffix
      <4>3. QED BY <3>1, <4>1, <4>2, QueueCases
    <3>4. QED BY <3>1, <3>2, <3>3
  <2>2. ASSUME NEW r \in Runtimes, NEW q \in Seq(Events), NEW pool \in SUBSET conns,
               Opened(r, q, pool), d = NewConn(r, q, pool)
        PROVE  /\ event'[d.ev].home = d.from
               /\ \A i \in DOMAIN queue'[d.from] : d.ev <= queue'[d.from][i]
    <3>1. d.ev = Head(q) /\ d.from = r
      BY <2>2 DEF NewConn
    <3>2. q # <<>> /\ queue'[r] = q
      BY <2>2, TypeParts DEF Opened, SenderTypes
    <3>3. Head(q) = q[1] /\ 1 \in DOMAIN q /\ DOMAIN q = 1..Len(q) /\ \A i \in DOMAIN q : q[i] \in Nat
      <4>1. Events \subseteq Nat
        BY <1>a
      <4>2. QED BY <3>2, <4>1, TailFacts, SeqFacts
    <3>4. ASSUME NEW i \in DOMAIN q PROVE q[1] <= q[i]
      <4>1. CASE i = 1
        BY <3>3, <4>1
      <4>2. CASE 1 < i
        BY <1>4, <3>2, <3>3, <4>2
      <4>3. QED BY <3>3, <4>1, <4>2
    <3>5. QED BY <1>3, <3>1, <3>2, <3>3, <3>4
  <2>3. QED BY <2>1, <2>2, ConnCases
<1>6. QED
  BY <1>3, <1>4, <1>5 DEF QueueInv

-----------------------------------------------------------------------------
(* Calls of onOwnerEvent *)

\* A call under way is in the log, and who awaits it has an open connection.
CallInv ==
  /\ \A j \in jobs : Started(j.ev)
  /\ \A j \in jobs : j.via \in 1..MaxConns =>
       \E c \in conns : c.n = j.via /\ c.st = "busy" /\ c.ev = j.ev /\ c.to = j.at

\* The log only grows, by the event that is processed.
LEMMA LogGrows ==
  ASSUME TypeInv, TypeInv', Step
  PROVE  /\ \A i \in DOMAIN log : i \in DOMAIN log' /\ log'[i] = log[i]
         /\ \A x : Started(x) => Started(x)'
         /\ \/ log' = log
            \/ \E r \in Runtimes, e \in Events', via \in 0..Inline :
                 Processed(r, e, via) /\ ~Known(r, e, event'[e].key)
<1>1. CASE log' = log
  BY <1>1 DEF Started
<1>2. ASSUME NEW r \in Runtimes, NEW e \in Events', NEW via \in 0..Inline, Processed(r, e, via),
             ~Known(r, e, event'[e].key)
      PROVE  /\ \A i \in DOMAIN log : i \in DOMAIN log' /\ log'[i] = log[i]
             /\ \A x : Started(x) => Started(x)'
  <2>1. \A i \in DOMAIN log : i \in DOMAIN log' /\ log'[i] = log[i]
    BY <1>2, LogFacts
  <2>2. QED
    BY <2>1 DEF Started
<1>3. log' = log \/ \E r \in Runtimes, e \in Events', via \in 0..Inline :
                       Processed(r, e, via) /\ ~Known(r, e, event'[e].key)
  BY ReceiverCases, LogFacts DEF Quiet, Tick, Crash, history
<1>4. QED
  BY <1>1, <1>2, <1>3

\* What has been processed after one more call.
LEMMA StartedFacts ==
  ASSUME TypeInv, TypeInv', NEW r \in Runtimes, NEW e \in Events', NEW via \in 0..Inline,
         Processed(r, e, via)
  PROVE  /\ Known(r, e, event'[e].key) => \A x : Started(x)' <=> Started(x)
         /\ ~Known(r, e, event'[e].key) => \A x : Started(x)' <=> Started(x) \/ x = e
<1>1. CASE Known(r, e, event'[e].key)
  BY <1>1, LogFacts DEF Started
<1>2. CASE ~Known(r, e, event'[e].key)
  <2>1. /\ DOMAIN log = 1..Len(log) /\ Len(log) \in Nat
        /\ DOMAIN log' = 1..(Len(log) + 1)
        /\ log'[Len(log) + 1] = LogEntry(r, e)
        /\ \A i \in DOMAIN log : log'[i] = log[i]
    BY <1>2, LogFacts
  <2>a. LogEntry(r, e).ev = e
    BY DEF LogEntry
  <2>2. \A i \in DOMAIN log' : i \in DOMAIN log \/ i = Len(log) + 1
    BY <2>1
  <2>3. Len(log) + 1 \in DOMAIN log' /\ DOMAIN log \subseteq DOMAIN log'
    BY <2>1
  <2>4. QED
    BY <1>2, <2>1, <2>a, <2>2, <2>3 DEF Started
<1>3. QED
  BY <1>1, <1>2

\* Connections stay open while the call they await is under way.
LEMMA CallInvStep ==
  ASSUME TypeInv, TypeInv', Step, CallInv
  PROVE  CallInv'
<1>0. /\ \A j \in jobs : Started(j.ev)
      /\ \A j \in jobs : j.via \in 1..MaxConns =>
           \E c \in conns : c.n = j.via /\ c.st = "busy" /\ c.ev = j.ev /\ c.to = j.at
  BY DEF CallInv
<1>a. \A x : Started(x) => Started(x)'
  BY LogGrows
<1>b. /\ \A c \in conns : Conn(c)
      /\ \A c, d \in conns : c.n = d.n => c = d
      /\ \A j \in jobs : j.ev \in Events /\ j.at \in Runtimes /\ j.via \in 0..Inline
  BY Typing DEF TypeInv, Numbered
<1>1. ASSUME jobs' \subseteq jobs,
             \A j \in jobs' : \A c \in conns :
               c.n = j.via /\ c.st = "busy" /\ c.ev = j.ev /\ c.to = j.at => c \in conns'
      PROVE  CallInv'
  <2>1. \A j \in jobs' : Started(j.ev)'
    BY <1>0, <1>1, <1>a
  <2>2. ASSUME NEW j \in jobs', j.via \in 1..MaxConns
        PROVE  \E c \in conns' : c.n = j.via /\ c.st = "busy" /\ c.ev = j.ev /\ c.to = j.at
    BY <1>0, <1>1, <2>2
  <2>3. QED
    BY <2>1, <2>2 DEF CallInv
<1>2. ASSUME NEW r \in Runtimes, NEW e \in Events', NEW via \in 0..Inline, Processed(r, e, via),
             \A c \in conns : c.st = "busy" => \E d \in conns' : Same(c, d) /\ d.st = c.st,
             /\ via \in 1..MaxConns
             /\ ~Known(r, e, event'[e].key)
             => \E c \in conns' : c.n = via /\ c.st = "busy" /\ c.ev = e /\ c.to = r
      PROVE  CallInv'
  <2>1. jobs' \subseteq jobs \cup {[ev |-> e, at |-> r, via |-> via]}
    BY <1>2, LogFacts
  <2>2. ASSUME NEW j \in jobs, j.via \in 1..MaxConns
        PROVE  \E c \in conns' : c.n = j.via /\ c.st = "busy" /\ c.ev = j.ev /\ c.to = j.at
    BY <1>0, <1>2, <2>2 DEF Same
  <2>3. CASE Known(r, e, event'[e].key)
    <3>1. jobs' = jobs
      BY <1>2, <2>3, LogFacts
    <3>2. \A j \in jobs' : Started(j.ev)'
      BY <1>0, <1>a, <3>1
    <3>3. QED
      BY <2>2, <3>1, <3>2 DEF CallInv
  <2>4. CASE ~Known(r, e, event'[e].key)
    <3>1. Started(e)'
      BY <1>2, <2>4, StartedFacts
    <3> DEFINE k == [ev |-> e, at |-> r, via |-> via]
    <3>2. k.ev = e /\ k.at = r /\ k.via = via /\ jobs' \subseteq jobs \cup {k}
      BY <2>1
    <3> HIDE DEF k
    <3>3. \A j \in jobs' : Started(j.ev)'
      BY <1>0, <1>a, <3>1, <3>2
    <3>4. ASSUME NEW j \in jobs', j.via \in 1..MaxConns
          PROVE  \E c \in conns' : c.n = j.via /\ c.st = "busy" /\ c.ev = j.ev /\ c.to = j.at
      BY <1>2, <2>2, <2>4, <3>2, <3>4
    <3>5. QED
      BY <3>3, <3>4 DEF CallInv
  <2>5. QED BY <2>3, <2>4
<1>3. ASSUME NEW r \in Runtimes, DispatchOwn(r) PROVE CallInv'
  <2>1. Len(event) + 1 \in Events' /\ Processed(r, Len(event) + 1, 0)
    BY <1>3, NewEvent DEF Caller
  <2>2. conns' = conns /\ 0 \in 0..Inline /\ 0 \notin 1..MaxConns
    BY <1>3, Typing DEF DispatchOwn, Inline
  <2>3. \A c \in conns : c.st = "busy" => \E d \in conns' : Same(c, d) /\ d.st = c.st
    BY <2>2 DEF Same
  <2>4. QED
    BY <1>2, <2>1, <2>2, <2>3
<1>4. ASSUME NEW r \in Runtimes, NEW q \in Seq(Events), NEW pool \in SUBSET conns, Served(r, q, pool)
      PROVE  CallInv'
  <2>1. Head(q) \in Events' /\ Processed(r, Head(q), Inline)
    BY <1>4, ServedProcessed
  <2>2. conns' = pool /\ Inline \in 0..Inline /\ Inline \notin 1..MaxConns
    BY <1>4, Typing DEF Served, Inline
  <2>3. \A c \in conns : c.st = "busy" => \E d \in conns' : Same(c, d) /\ d.st = c.st
    BY <1>4, <2>2 DEF Served, Resumes, Same
  <2>4. QED
    BY <1>2, <2>1, <2>2, <2>3
<1>5. ASSUME NEW c \in conns, Incoming(c) PROVE CallInv'
  <2>1. c.ev \in Events' /\ Processed(c.to, c.ev, c.n)
    BY <1>5, IncomingProcessed
  <2>2. c.to \in Runtimes /\ c.n \in 1..MaxConns /\ c.n \in 0..Inline /\ c.ev \in Events
    BY Typing DEF Conn, Inline
  <2> DEFINE st == IF Known(c.to, c.ev, event[c.ev].key) THEN "ok" ELSE "busy"
  <2>3. Answers(c, st) /\ c.st = "unread" /\ st \in {"unread", "busy", "ok", "refused"}
    BY <1>5 DEF Incoming
  <2> HIDE DEF st
  <2>4. \A b \in conns : \E d \in conns' : Same(b, d) /\ d.st = IF b = c THEN st ELSE b.st
    <3>1. Moved(c, st)
      BY <2>3, AnswersFacts
    <3>2. QED BY <3>1 DEF Moved
  <2>5. \A b \in conns : b.st = "busy" => \E d \in conns' : Same(b, d) /\ d.st = b.st
    BY <2>3, <2>4
  <2>6. event'[c.ev] = event[c.ev]
    BY <2>2, EventsKept
  <2>7. ASSUME ~Known(c.to, c.ev, event'[c.ev].key)
        PROVE  \E d \in conns' : d.n = c.n /\ d.st = "busy" /\ d.ev = c.ev /\ d.to = c.to
    <3>1. st = "busy"
      BY <2>6, <2>7 DEF st
    <3>2. QED
      BY <2>4, <3>1 DEF Same
  <2>8. QED
    BY <1>2, <2>1, <2>2, <2>5, <2>7
<1>6. ASSUME NEW r \in Runtimes, Crash(r) PROVE CallInv'
  BY <1>1, <1>6 DEF Crash
<1>7. ASSUME NEW r \in Runtimes, DispatchWait(r) \/ GivenUp(r) PROVE CallInv'
  BY <1>1, <1>7 DEF DispatchWait, GivenUp, NoCall
<1>8. ASSUME NEW r \in Runtimes, NEW q \in Seq(Events), NEW pool \in SUBSET conns,
             Parked(r, q, pool) \/ Opened(r, q, pool)
      PROVE  CallInv'
  <2>1. jobs' = jobs /\ pool \subseteq conns'
    BY <1>8 DEF Parked, Opened, NoCall
  <2>2. \A c \in conns : c.st = "busy" => c \in pool
    BY <1>8 DEF Parked, Opened, Resumes
  <2>3. QED
    BY <1>1, <2>1, <2>2
<1>9. ASSUME NEW c \in conns, Dropped(c) PROVE CallInv'
  BY <1>1, <1>9 DEF Dropped, NoCall
<1>10. ASSUME NEW c \in conns, Rejected(c) PROVE CallInv'
  BY <1>1, <1>10 DEF Rejected, NoCall, Answers
<1>11. ASSUME NEW j \in jobs, OwnerEventDone(j) \/ OwnerEventThrows(j) PROVE CallInv'
  <2>1. PICK st \in {"unread", "busy", "ok", "refused"} : Answered(j, st) /\ jobs' = jobs \ {j}
    BY <1>11 DEF OwnerEventDone, OwnerEventThrows
  <2>2. \A b \in conns : \E d \in conns' : Same(b, d) /\ d.st = IF b.n = j.via THEN st ELSE b.st
    BY <2>1, AnsweredFacts
  <2>3. \A i \in jobs' : Started(i.ev)'
    BY <1>0, <1>a, <2>1
  <2>4. ASSUME NEW i \in jobs', i.via \in 1..MaxConns
        PROVE  \E c \in conns' : c.n = i.via /\ c.st = "busy" /\ c.ev = i.ev /\ c.to = i.at
    <3>1. i \in jobs /\ i # j
      BY <2>1
    <3>2. PICK c \in conns : c.n = i.via /\ c.st = "busy" /\ c.ev = i.ev /\ c.to = i.at
      BY <1>0, <2>4, <3>1
    <3>3. c.n # j.via
      <4>1. SUFFICES ASSUME c.n = j.via PROVE FALSE
        OBVIOUS
      <4>2. PICK b \in conns : b.n = j.via /\ b.ev = j.ev /\ b.to = j.at
        BY <1>0, <2>4, <3>2, <4>1
      <4>3. i.ev = j.ev /\ i.at = j.at /\ i.via = j.via
        BY <1>b, <3>2, <4>1, <4>2
      <4>4. \A x \in jobs : x \in [ev: Events, at: Runtimes, via: 0..Inline]
        BY TypeParts DEF CallTypes
      <4>5. QED
        BY <3>1, <4>3, <4>4
    <3>4. QED
      BY <2>2, <3>2, <3>3 DEF Same
  <2>5. QED
    BY <2>3, <2>4 DEF CallInv
<1>12. CASE Elected \/ Tick
  BY <1>1, <1>12 DEF Elected, Tick, receiving
<1>13. QED
  BY <1>3, <1>4, <1>5, <1>6, <1>7, <1>8, <1>9, <1>10, <1>11, <1>12 DEF Step

-----------------------------------------------------------------------------
(* What an acknowledgement settles *)

\* No answer about event e was late, lost or said that onOwnerEvent threw.
Sure(e) == e \notin doubted /\ e \notin failed

\* Of an event that is sure there is at most one connection, and its sender awaits it
\* while the event is queued; what was refused or not read has not been processed, and
\* what was processed while it is queued still has its connection.
Settling ==
  /\ \A c, d \in conns : Sure(c.ev) /\ c.ev = d.ev => c = d
  /\ \A c \in conns : Sure(c.ev) /\ c.st \in {"unread", "refused"} => ~Started(c.ev)
  /\ \A c \in conns : \A i \in DOMAIN queue[c.from] :
       Sure(c.ev) /\ queue[c.from][i] = c.ev => attempt[c.from] = c.n
  /\ \A r \in Runtimes : \A i \in DOMAIN queue[r] :
       Sure(queue[r][i]) /\ Started(queue[r][i]) => \E c \in conns : c.ev = queue[r][i]
OnceInv == RepeatOnlyWhenDoubted /\ Settling

\* What the loop goes on with has no connection left and has not been processed.
LEMMA ResumeFresh ==
  ASSUME TypeInv, QueueInv, OnceInv, NEW r \in Runtimes, NEW q \in Seq(Events),
         NEW pool \in SUBSET conns, Resumes(r, q, pool), NEW i \in DOMAIN q, Sure(q[i])
  PROVE  ~Started(q[i]) /\ \A c \in pool : c.ev # q[i]
<1>0. /\ \A c \in conns : event[c.ev].home = c.from
      /\ \A s \in Runtimes : \A k \in DOMAIN queue[s] : event[queue[s][k]].home = s
      /\ \A s \in Runtimes : \A k, l \in DOMAIN queue[s] : k < l => queue[s][k] < queue[s][l]
      /\ \A c \in conns : \A k \in DOMAIN queue[c.from] : c.ev <= queue[c.from][k]
  BY DEF QueueInv
<1>1. /\ \A c \in conns : \A k \in DOMAIN queue[c.from] :
           Sure(c.ev) /\ queue[c.from][k] = c.ev => attempt[c.from] = c.n
      /\ \A s \in Runtimes : \A k \in DOMAIN queue[s] :
           Sure(queue[s][k]) /\ Started(queue[s][k]) => \E c \in conns : c.ev = queue[s][k]
  BY DEF OnceInv, Settling
<1>2. /\ \A c \in conns : Conn(c) /\ \A d \in conns : c.n = d.n => c = d
      /\ attempt[r] # 0 => flush[r] = "relay"
  BY Typing DEF TypeInv, Numbered
<1>3. queue[r] \in Seq(Events) /\ Events \subseteq Nat
  BY Typing
<1>4. CASE flush[r] # "relay" /\ q = queue[r] /\ pool = conns
  <2>1. ASSUME NEW c \in conns, c.ev = q[i] PROVE FALSE
    <3>1. c.from = r
      BY <1>0, <1>4, <2>1
    <3>2. attempt[r] = c.n
      BY <1>1, <1>4, <2>1, <3>1
    <3>3. QED
      BY <1>2, <1>4, <3>2 DEF Conn
  <2>2. QED
    BY <1>1, <1>4, <2>1
<1>5. ASSUME NEW b \in conns, b.from = r, attempt[r] = b.n, q = Tail(queue[r]), pool = conns \ {b}
      PROVE  ~Started(q[i]) /\ \A c \in pool : c.ev # q[i]
  <2>1. queue[r] # <<>>
    BY <1>2, <1>5 DEF Conn, TypeInv
  <2>2. /\ 1 \in DOMAIN queue[r] /\ i + 1 \in DOMAIN queue[r] /\ q[i] = queue[r][i + 1]
        /\ 1 < i + 1 /\ \A k \in DOMAIN queue[r] : queue[r][k] \in Nat
    BY <1>3, <1>5, <2>1, TailFacts, SeqFacts
  <2>3. b.ev # q[i]
    <3>1. b.ev <= queue[r][1] /\ queue[r][1] < queue[r][i + 1] /\ b.ev \in Nat
      BY <1>0, <1>2, <1>3, <1>5, <2>2 DEF Conn
    <3>2. QED
      BY <2>2, <3>1
  <2>4. ASSUME NEW c \in conns, c.ev = q[i] PROVE c = b
    <3>1. c.from = r
      BY <1>0, <2>2, <2>4
    <3>2. attempt[r] = c.n
      BY <1>1, <2>2, <2>4, <3>1
    <3>3. QED
      BY <1>2, <1>5, <3>2
  <2>5. \A c \in conns : c.ev # q[i]
    BY <2>3, <2>4
  <2>6. ~Started(q[i])
    BY <1>1, <2>2, <2>5
  <2>7. QED
    BY <1>5, <2>5, <2>6
<1>6. QED
  BY <1>4, <1>5 DEF Resumes

\* A waiting queue has its old events and the new one.
LEMMA WaitElements ==
  ASSUME TypeInv, Step, NEW r \in Runtimes, DispatchWait(r), NEW i \in DOMAIN queue'[r]
  PROVE  \/ queue'[r][i] = Len(event) + 1
         \/ \E k \in DOMAIN queue[r] : queue'[r][i] = queue[r][k]
<1> DEFINE e == Len(event) + 1
           n == Len(queue'[r])
<1>1. e \in Events' /\ Events \subseteq Events'
  BY NewEvent, EventsKept
<1>2. Enqueue(r, e)
  BY DEF DispatchWait
<1> HIDE DEF e
<1>3. DOMAIN queue[r] = 1..Len(queue[r]) /\ Len(queue[r]) \in Nat
  BY Typing, SeqFacts
<1>4. /\ DOMAIN queue'[r] = 1..n /\ n \in Nat \ {0} /\ queue'[r][n] = e
      /\ \/ n = Len(queue[r]) + 1 /\ \A k \in DOMAIN queue[r] : queue'[r][k] = queue[r][k]
         \/ n = Len(queue[r]) /\ \A k \in 1..(Len(queue[r]) - 1) : queue'[r][k] = queue[r][k + 1]
  BY <1>1, <1>2, EnqueueFacts
<1> HIDE DEF n
<1>5. i = n \/ i \in 1..(n - 1)
  BY <1>4
<1>6. CASE i \in 1..(n - 1)
  <2>1. i \in DOMAIN queue[r]
    BY <1>3, <1>4, <1>6
  <2>2. CASE n = Len(queue[r]) + 1 /\ \A k \in DOMAIN queue[r] : queue'[r][k] = queue[r][k]
    BY <2>1, <2>2
  <2>3. CASE n = Len(queue[r]) /\ \A k \in 1..(Len(queue[r]) - 1) : queue'[r][k] = queue[r][k + 1]
    <3>1. i \in 1..(Len(queue[r]) - 1) /\ i + 1 \in DOMAIN queue[r]
      BY <1>3, <1>6, <2>3
    <3>2. QED BY <2>3, <3>1
  <2>4. QED BY <1>4, <2>2, <2>3
<1>7. QED
  BY <1>4, <1>5, <1>6 DEF e

\* What has once happened to an event or a runtime stays so.
LEMMA HistoryGrows ==
  ASSUME Step
  PROVE  /\ completed \subseteq completed' /\ failed \subseteq failed' /\ early \subseteq early'
         /\ doubted \subseteq doubted' /\ gone \subseteq gone' /\ raced \subseteq raced'
         /\ overtaken \subseteq overtaken'
<1>1. ASSUME NEW r, NEW e, NEW k, NEW via, ProcessOwnerEvent(r, e, k, via) PROVE early \subseteq early'
  BY <1>1 DEF ProcessOwnerEvent
<1>2. ASSUME NEW r \in Runtimes, DispatchOwn(r) PROVE early \subseteq early'
  BY <1>1, <1>2 DEF DispatchOwn
<1>3. ASSUME NEW r \in Runtimes, DispatchOwn(r)
      PROVE  /\ UNCHANGED <<completed, failed, doubted, gone, raced>> /\ overtaken \subseteq overtaken'
  BY <1>3 DEF DispatchOwn
<1>4. ASSUME NEW r \in Runtimes, DispatchWait(r)
      PROVE  /\ UNCHANGED <<completed, failed, early, doubted, overtaken>>
             /\ gone \subseteq gone' /\ raced \subseteq raced'
  BY <1>4 DEF DispatchWait, NoCall, Enqueue, Push, Evict
<1>5. ASSUME NEW r \in Runtimes, GivenUp(r)
      PROVE  /\ UNCHANGED <<completed, failed, early, gone, raced, overtaken>>
             /\ doubted \subseteq doubted'
  BY <1>5 DEF GivenUp, NoCall
<1>6. ASSUME NEW r \in Runtimes, Crash(r)
      PROVE  /\ UNCHANGED <<completed, failed, early, raced, overtaken>>
             /\ doubted \subseteq doubted' /\ gone \subseteq gone'
  BY <1>6 DEF Crash
<1>7. ASSUME NEW r \in Runtimes, NEW q \in Seq(Events), NEW pool \in SUBSET conns,
             Parked(r, q, pool) \/ Served(r, q, pool) \/ Opened(r, q, pool)
      PROVE  Elsewhere /\ early \subseteq early'
  BY <1>1, <1>7 DEF Parked, Served, Opened, NoCall
<1>8. ASSUME NEW c \in conns, Dropped(c) \/ Rejected(c) \/ Incoming(c)
      PROVE  Elsewhere /\ early \subseteq early'
  BY <1>1, <1>8 DEF Dropped, Rejected, Incoming, NoCall
<1>9. ASSUME NEW j \in jobs, OwnerEventDone(j) \/ OwnerEventThrows(j)
      PROVE  /\ UNCHANGED <<early, doubted, gone, raced, overtaken>>
             /\ completed \subseteq completed' /\ failed \subseteq failed'
  BY <1>9 DEF OwnerEventDone, OwnerEventThrows
<1>10. ASSUME Elected \/ Tick
       PROVE  UNCHANGED <<completed, failed, early, doubted, gone, raced, overtaken>>
  BY <1>10 DEF Elected, Tick, history
<1>11. QED
  BY <1>2, <1>3, <1>4, <1>5, <1>6, <1>7, <1>8, <1>9, <1>10 DEF Step, Elsewhere

\* An event that is processed again is not sure.
LEMMA RepeatStep ==
  ASSUME TypeInv, TypeInv', Step, RepeatOnlyWhenDoubted, NEW r \in Runtimes, NEW e \in Events',
         NEW via \in 0..Inline, Processed(r, e, via), Sure(e) => ~Started(e)
  PROVE  RepeatOnlyWhenDoubted'
<1>0. doubted \subseteq doubted' /\ failed \subseteq failed'
  BY HistoryGrows
<1>1. CASE Known(r, e, event'[e].key)
  <2>1. log' = log
    BY <1>1, LogFacts
  <2>2. QED
    BY <1>0, <2>1 DEF RepeatOnlyWhenDoubted
<1>2. CASE ~Known(r, e, event'[e].key)
  <2>1. /\ DOMAIN log = 1..Len(log) /\ Len(log) \in Nat
        /\ DOMAIN log' = 1..(Len(log) + 1)
        /\ log'[Len(log) + 1] = LogEntry(r, e)
        /\ \A i \in DOMAIN log : log'[i] = log[i]
    BY <1>2, LogFacts
  <2>2. LogEntry(r, e).ev = e
    BY DEF LogEntry
  <2>3. SUFFICES ASSUME NEW i \in DOMAIN log', NEW j \in DOMAIN log', i < j, log'[i].ev = log'[j].ev
                 PROVE  log'[i].ev \in doubted' \cup failed'
    BY DEF RepeatOnlyWhenDoubted
  <2>4. i \in DOMAIN log /\ (j \in DOMAIN log \/ j = Len(log) + 1)
    BY <2>1, <2>3
  <2>5. CASE j \in DOMAIN log
    BY <1>0, <2>1, <2>3, <2>4, <2>5 DEF RepeatOnlyWhenDoubted
  <2>6. CASE j = Len(log) + 1
    <3>1. log[i].ev = e
      BY <2>1, <2>2, <2>3, <2>4, <2>6
    <3>2. Started(e)
      BY <2>4, <3>1 DEF Started
    <3>3. QED
      BY <1>0, <2>1, <2>4, <3>1, <3>2 DEF Sure
  <2>7. QED BY <2>4, <2>5, <2>6
<1>3. QED
  BY <1>1, <1>2

\* Dispatch and processing keep what acknowledgements settle.
LEMMA SettlingStep ==
  ASSUME TypeInv, TypeInv', Step, QueueInv, QueueInv', CallInv, OnceInv
  PROVE  Settling'
<1>0. /\ \A c, d \in conns : Sure(c.ev) /\ c.ev = d.ev => c = d
      /\ \A c \in conns : Sure(c.ev) /\ c.st \in {"unread", "refused"} => ~Started(c.ev)
      /\ \A c \in conns : \A i \in DOMAIN queue[c.from] :
           Sure(c.ev) /\ queue[c.from][i] = c.ev => attempt[c.from] = c.n
      /\ \A r \in Runtimes : \A i \in DOMAIN queue[r] :
           Sure(queue[r][i]) /\ Started(queue[r][i]) => \E c \in conns : c.ev = queue[r][i]
  BY DEF OnceInv, Settling
<1>a. \A x : Sure(x)' => Sure(x)
  BY HistoryGrows DEF Sure
<1>b. /\ \A c \in conns : Conn(c)
      /\ \A c, d \in conns : c.n = d.n => c = d
      /\ \A r \in Runtimes : /\ \A i \in DOMAIN queue[r] : queue[r][i] \in Events
                             /\ attempt[r] # 0 => flush[r] = "relay"
  BY Typing, SeqFacts DEF TypeInv, Numbered
<1>c. /\ \A c \in conns : event[c.ev].home = c.from
      /\ \A s \in Runtimes : \A k \in DOMAIN queue[s] : event[queue[s][k]].home = s
      /\ \A s \in Runtimes : \A k, l \in DOMAIN queue[s] : k < l => queue[s][k] < queue[s][l]
  BY DEF QueueInv
<1>d. \A x : Started(x) => x \in Events
  BY LogTyping DEF Started
<1>e. /\ queue \in [Runtimes -> Seq(Events)] /\ DOMAIN attempt = Runtimes
  BY TypeParts DEF SenderTypes
\* A step that only takes connections and queued events away.
<1>1. ASSUME \A x : Started(x)' => Started(x), conns' \subseteq conns,
             \A r \in Runtimes : \A i \in DOMAIN queue'[r] :
               \/ queue'[r][i] \notin Events
               \/ \E k \in DOMAIN queue[r] : queue'[r][i] = queue[r][k],
             \A c \in conns' : \A i \in DOMAIN queue'[c.from] :
               Sure(c.ev)' /\ queue'[c.from][i] = c.ev => attempt'[c.from] = attempt[c.from],
             \A r \in Runtimes : \A i \in DOMAIN queue'[r] : \A c \in conns :
               Sure(c.ev)' /\ Started(c.ev) /\ c.ev = queue'[r][i] => c \in conns'
      PROVE  Settling'
  <2>1. \A c, d \in conns' : Sure(c.ev)' /\ c.ev = d.ev => c = d
    BY <1>0, <1>a, <1>1
  <2>2. \A c \in conns' : Sure(c.ev)' /\ c.st \in {"unread", "refused"} => ~Started(c.ev)'
    BY <1>0, <1>a, <1>1
  <2>3. ASSUME NEW c \in conns', NEW i \in DOMAIN queue'[c.from], Sure(c.ev)', queue'[c.from][i] = c.ev
        PROVE  attempt'[c.from] = c.n
    <3>1. c \in conns /\ c.ev \in Events /\ c.from \in Runtimes
      BY <1>1, <1>b DEF Conn
    <3>2. \E k \in DOMAIN queue[c.from] : c.ev = queue[c.from][k]
      BY <1>1, <2>3, <3>1
    <3>3. QED
      BY <1>0, <1>1, <1>a, <2>3, <3>1, <3>2
  <2>4. ASSUME NEW r \in Runtimes, NEW i \in DOMAIN queue'[r], NEW x, x = queue'[r][i], Sure(x)', Started(x)'
        PROVE  \E c \in conns' : c.ev = x
    <3>1. Started(x) /\ x \in Events
      BY <1>1, <1>d, <2>4
    <3>2. PICK k \in DOMAIN queue[r] : x = queue[r][k]
      BY <1>1, <2>4, <3>1
    <3>3. PICK c \in conns : c.ev = x
      BY <1>0, <1>a, <2>4, <3>1, <3>2
    <3>4. QED
      BY <1>1, <2>4, <3>1, <3>3
  <2>5. QED
    BY <2>1, <2>2, <2>3, <2>4 DEF Settling
\* The loop of r goes on.
<1>2. ASSUME NEW r \in Runtimes, NEW q \in Seq(Events), NEW pool \in SUBSET conns, Resumes(r, q, pool)
      PROVE  /\ \A i \in DOMAIN q : Sure(q[i]) => ~Started(q[i]) /\ \A c \in pool : c.ev # q[i]
             /\ \A c \in conns : c.from # r => c \in pool
  <2>1. \A i \in DOMAIN q : Sure(q[i]) => ~Started(q[i]) /\ \A c \in pool : c.ev # q[i]
    BY <1>2, ResumeFresh
  <2>2. \A c \in conns : c.from # r => c \in pool
    BY <1>2 DEF Resumes
  <2>3. QED BY <2>1, <2>2
<1>3. ASSUME NEW r \in Runtimes, NEW q \in Seq(Events), NEW pool \in SUBSET conns, Parked(r, q, pool)
      PROVE  Settling'
  <2>1. /\ \A i \in DOMAIN q : Sure(q[i]) => ~Started(q[i]) /\ \A c \in pool : c.ev # q[i]
        /\ \A c \in conns : c.from # r => c \in pool
    BY <1>2, <1>3 DEF Parked
  <2>2. /\ log' = log /\ conns' = pool /\ queue'[r] = q /\ \A s \in Runtimes : s # r => queue'[s] = queue[s]
        /\ \A s \in Runtimes : s # r => attempt'[s] = attempt[s]
    BY <1>3, <1>e DEF Parked, NoCall
  <2>3. \A x : Started(x)' <=> Started(x)
    BY <2>2 DEF Started
  <2>4. PICK n \in Nat : Suffix(q, queue[r], n)
    BY <1>3, ResumeSuffix DEF Parked
  <2>5. \A s \in Runtimes : \A i \in DOMAIN queue'[s] : \E k \in DOMAIN queue[s] : queue'[s][i] = queue[s][k]
    BY <2>2, <2>4 DEF Suffix
  <2>6. \A c \in conns' : \A i \in DOMAIN queue'[c.from] :
          Sure(c.ev)' /\ queue'[c.from][i] = c.ev => attempt'[c.from] = attempt[c.from]
    BY <1>a, <1>b, <2>1, <2>2 DEF Conn
  <2>7. ASSUME NEW s \in Runtimes, NEW i \in DOMAIN queue'[s], NEW c \in conns,
               Sure(c.ev)', Started(c.ev), c.ev = queue'[s][i]
        PROVE  c \in conns'
    <3>1. CASE s = r
      BY <1>a, <2>1, <2>2, <2>7, <3>1
    <3>2. CASE s # r
      BY <1>c, <2>1, <2>2, <2>7, <3>2
    <3>3. QED BY <3>1, <3>2
  <2>8. QED
    <3>1. conns' \subseteq conns
      BY <2>2
    <3>2. QED BY <1>1, <2>3, <2>5, <2>6, <2>7, <3>1
<1>4. ASSUME NEW r \in Runtimes, NEW q \in Seq(Events), NEW pool \in SUBSET conns, Served(r, q, pool)
      PROVE  Settling'
  <2>1. /\ \A i \in DOMAIN q : Sure(q[i]) => ~Started(q[i]) /\ \A c \in pool : c.ev # q[i]
        /\ \A c \in conns : c.from # r => c \in pool
    BY <1>2, <1>4 DEF Served
  <2> DEFINE h == Head(q)
  <2>2. /\ conns' = pool /\ queue'[r] = Tail(q) /\ \A s \in Runtimes : s # r => queue'[s] = queue[s]
        /\ \A s \in Runtimes : s # r => attempt'[s] = attempt[s]
        /\ q # <<>>
    BY <1>4, <1>e DEF Served
  <2>3. h \in Events' /\ h \in Events /\ Processed(r, h, Inline) /\ Inline \in 0..Inline
    BY <1>4, ServedProcessed, Typing DEF Inline
  <2>4. h = q[1] /\ 1 \in DOMAIN q
        /\ \A i \in DOMAIN Tail(q) : i + 1 \in DOMAIN q /\ Tail(q)[i] = q[i + 1]
    BY <2>2, TailFacts
  <2> HIDE DEF h
  <2>5. \A x : Started(x)' => Started(x) \/ x = h
    BY <2>3, StartedFacts
  <2>6. PICK n \in Nat : Suffix(q, queue[r], n)
    BY <1>4, ResumeSuffix DEF Served
  <2>7. event[h].home = r
    BY <1>c, <2>4, <2>6 DEF Suffix
  <2>8. \A c \in conns' : Sure(c.ev)' => c.ev # h
    BY <1>a, <2>1, <2>2, <2>4
  <2>9. \A c, d \in conns' : Sure(c.ev)' /\ c.ev = d.ev => c = d
    BY <1>0, <1>a, <2>2
  <2>10. \A c \in conns' : Sure(c.ev)' /\ c.st \in {"unread", "refused"} => ~Started(c.ev)'
    BY <1>0, <1>a, <2>2, <2>5, <2>8
  <2>11. ASSUME NEW c \in conns', NEW i \in DOMAIN queue'[c.from], Sure(c.ev)', queue'[c.from][i] = c.ev
         PROVE  attempt'[c.from] = c.n
    <3>1. c.from # r
      BY <1>a, <2>1, <2>2, <2>4, <2>11
    <3>2. QED
      BY <1>0, <1>a, <1>b, <2>2, <2>11, <3>1 DEF Conn
  <2>12. ASSUME NEW s \in Runtimes, NEW i \in DOMAIN queue'[s], NEW x, x = queue'[s][i], Sure(x)', Started(x)'
         PROVE  \E c \in conns' : c.ev = x
    <3>1. CASE s # r
      <4>1. x # h /\ x = queue[s][i] /\ i \in DOMAIN queue[s]
        BY <1>c, <2>2, <2>7, <2>12, <3>1
      <4>2. PICK c \in conns : c.ev = x
        BY <1>0, <1>a, <2>5, <2>12, <4>1
      <4>3. c.from # r
        BY <1>c, <3>1, <4>1, <4>2
      <4>4. QED BY <2>1, <2>2, <4>2, <4>3
    <3>2. CASE s = r
      <4>1. i + 1 \in DOMAIN q /\ x = q[i + 1]
        BY <2>2, <2>4, <2>12, <3>2
      <4>2. x # h
        <5>1. i \in DOMAIN Tail(q) /\ DOMAIN Tail(q) = 1..(Len(q) - 1) /\ DOMAIN q = 1..Len(q) /\ Len(q) \in Nat
          BY <2>2, <2>12, <3>2, TailFacts
        <5>2. 1 + n < (i + 1) + n /\ 1 + n \in DOMAIN queue[r] /\ (i + 1) + n \in DOMAIN queue[r]
              /\ q[1] = queue[r][1 + n] /\ q[i + 1] = queue[r][(i + 1) + n]
          BY <2>4, <2>6, <4>1, <5>1 DEF Suffix
        <5>3. q[1] < q[i + 1] /\ q[1] \in Nat
          <6>1. Events \subseteq Nat
            BY Typing
          <6>2. QED
            BY <1>b, <1>c, <5>2, <6>1
        <5>4. QED
          BY <2>4, <4>1, <5>3
      <4>3. ~Started(x)
        BY <1>a, <2>1, <2>12, <4>1
      <4>4. QED
        BY <2>5, <2>12, <4>2, <4>3
    <3>3. QED BY <3>1, <3>2
  <2>13. QED
    BY <2>9, <2>10, <2>11, <2>12 DEF Settling
<1>5. ASSUME NEW r \in Runtimes, NEW q \in Seq(Events), NEW pool \in SUBSET conns, Opened(r, q, pool)
      PROVE  Settling'
  <2>1. /\ \A i \in DOMAIN q : Sure(q[i]) => ~Started(q[i]) /\ \A c \in pool : c.ev # q[i]
        /\ \A c \in conns : c.from # r => c \in pool
    BY <1>2, <1>5 DEF Opened
  <2> DEFINE x == NewConn(r, q, pool)
  <2>2. /\ log' = log /\ conns' = pool \cup {x} /\ queue'[r] = q /\ q # <<>>
        /\ \A s \in Runtimes : s # r => queue'[s] = queue[s]
        /\ \A s \in Runtimes : s # r => attempt'[s] = attempt[s]
        /\ attempt'[r] = x.n /\ x.from = r /\ x.ev = Head(q)
    BY <1>5, <1>e DEF Opened, NoCall, NewConn
  <2> HIDE DEF x
  <2>3. \A y : Started(y)' <=> Started(y)
    BY <2>2 DEF Started
  <2>4. x.ev = q[1] /\ 1 \in DOMAIN q
    BY <2>2, TailFacts
  <2>5. \A c, d \in conns' : Sure(c.ev)' /\ c.ev = d.ev => c = d
    BY <1>0, <1>a, <2>1, <2>2, <2>4
  <2>6. \A c \in conns' : Sure(c.ev)' /\ c.st \in {"unread", "refused"} => ~Started(c.ev)'
    BY <1>0, <1>a, <2>1, <2>2, <2>3, <2>4
  <2>7. ASSUME NEW c \in conns', NEW i \in DOMAIN queue'[c.from], Sure(c.ev)', queue'[c.from][i] = c.ev
        PROVE  attempt'[c.from] = c.n
    <3>1. CASE c = x
      BY <2>2, <3>1
    <3>2. CASE c \in pool
      <4>1. c.from # r
        BY <1>a, <2>1, <2>2, <2>7, <3>2
      <4>2. QED
        BY <1>0, <1>a, <1>b, <2>2, <2>7, <3>2, <4>1 DEF Conn
    <3>3. QED BY <2>2, <3>1, <3>2
  <2>8. ASSUME NEW s \in Runtimes, NEW i \in DOMAIN queue'[s], NEW y, y = queue'[s][i], Sure(y)', Started(y)'
        PROVE  \E c \in conns' : c.ev = y
    <3>1. s # r
      BY <1>a, <2>1, <2>2, <2>3, <2>8
    <3>2. PICK c \in conns : c.ev = y
      BY <1>0, <1>a, <2>2, <2>3, <2>8, <3>1
    <3>3. c.from # r
      BY <1>c, <2>2, <2>8, <3>1, <3>2
    <3>4. QED
      BY <2>1, <2>2, <3>2, <3>3
  <2>9. QED
    BY <2>5, <2>6, <2>7, <2>8 DEF Settling
<1>6. ASSUME NEW c \in conns, Dropped(c) PROVE Settling'
  <2>1. log' = log /\ conns' = conns \ {c} /\ queue' = queue /\ attempt' = attempt /\ attempt[c.from] # c.n
    BY <1>6 DEF Dropped, NoCall
  <2>2. \A x : Started(x)' <=> Started(x)
    BY <2>1 DEF Started
  <2>3. ASSUME NEW s \in Runtimes, NEW i \in DOMAIN queue'[s], NEW d \in conns,
               Sure(d.ev)', Started(d.ev), d.ev = queue'[s][i]
        PROVE  d \in conns'
    <3>1. d.from = s
      BY <1>c, <2>1, <2>3
    <3>2. d # c
      BY <1>0, <1>a, <2>1, <2>3, <3>1
    <3>3. QED BY <2>1, <3>2
  <2>4. QED
    BY <1>1, <2>1, <2>2, <2>3
<1>7. ASSUME NEW r \in Runtimes, GivenUp(r) PROVE Settling'
  <2>1. /\ log' = log /\ queue' = queue /\ conns' \subseteq conns
        /\ \A s \in Runtimes : s # r => attempt'[s] = attempt[s]
    BY <1>7, <1>e DEF GivenUp, GiveUp, NoCall
  <2>2. /\ \A c \in conns : c.from = r /\ attempt[r] = c.n =>
             \/ c.ev \in doubted'
             \/ c \notin conns' /\ c.st = "refused"
        /\ \A c \in conns \ conns' : c.from = r /\ attempt[r] = c.n
    BY <1>7 DEF GivenUp
  <2>3. \A x : Started(x)' <=> Started(x)
    BY <2>1 DEF Started
  <2>4. ASSUME NEW c \in conns', NEW i \in DOMAIN queue'[c.from],
               Sure(c.ev)', queue'[c.from][i] = c.ev
        PROVE  attempt'[c.from] = attempt[c.from]
    <3>1. attempt[c.from] = c.n /\ c.from \in Runtimes
      BY <1>0, <1>a, <1>b, <2>1, <2>4 DEF Conn
    <3>2. c.from # r
      BY <2>1, <2>2, <2>4, <3>1 DEF Sure
    <3>3. QED BY <2>1, <3>1, <3>2
  <2>5. ASSUME NEW s \in Runtimes, NEW i \in DOMAIN queue'[s], NEW c \in conns,
               Sure(c.ev)', Started(c.ev), c.ev = queue'[s][i]
        PROVE  c \in conns'
    <3>1. SUFFICES ASSUME c \notin conns' PROVE FALSE
      OBVIOUS
    <3>2. c.from = r /\ attempt[r] = c.n /\ c.ev \notin doubted'
      BY <2>2, <2>5, <3>1 DEF Sure
    <3>3. c.st = "refused"
      BY <2>2, <3>2
    <3>4. QED
      BY <1>0, <1>a, <2>5, <3>3
  <2>6. QED
    BY <1>1, <2>1, <2>3, <2>4, <2>5
<1>8. ASSUME NEW r \in Runtimes, Crash(r) PROVE Settling'
  <2>1. /\ log' = log /\ conns' = {c \in conns : c.to # r} /\ queue'[r] = <<>>
        /\ \A s \in Runtimes : s # r => queue'[s] = queue[s]
        /\ \A c \in conns : c.to = r => c.ev \in doubted'
        /\ \A s \in Runtimes : attempt'[s] =
             IF s = r \/ \E c \in conns : c.to = r /\ attempt[s] = c.n THEN 0 ELSE attempt[s]
    BY <1>8, <1>e DEF Crash
  <2>2. \A x : Started(x)' <=> Started(x)
    BY <2>1 DEF Started
  <2>3. \A s \in Runtimes : \A i \in DOMAIN queue'[s] : s # r /\ i \in DOMAIN queue[s] /\ queue'[s][i] = queue[s][i]
    BY <2>1
  <2>4. ASSUME NEW c \in conns', NEW i \in DOMAIN queue'[c.from],
               Sure(c.ev)', queue'[c.from][i] = c.ev
        PROVE  attempt'[c.from] = attempt[c.from]
    <3>1. c \in conns /\ c.to # r /\ c.from \in Runtimes /\ c.from # r
      BY <1>b, <2>1, <2>3 DEF Conn
    <3>2. attempt[c.from] = c.n
      BY <1>0, <1>a, <2>3, <2>4, <3>1
    <3>3. ~ \E d \in conns : d.to = r /\ attempt[c.from] = d.n
      BY <1>b, <3>1, <3>2
    <3>4. QED BY <2>1, <3>1, <3>3
  <2>5. ASSUME NEW s \in Runtimes, NEW i \in DOMAIN queue'[s], NEW c \in conns,
               Sure(c.ev)', Started(c.ev), c.ev = queue'[s][i]
        PROVE  c \in conns'
    BY <2>1, <2>5 DEF Sure
  <2>6. conns' \subseteq conns
    BY <2>1
  <2>7. QED
    BY <1>1, <2>2, <2>3, <2>4, <2>5, <2>6
<1>9. ASSUME NEW r \in Runtimes, DispatchWait(r) PROVE Settling'
  <2>1. log' = log /\ conns' = conns /\ attempt' = attempt
    BY <1>9 DEF DispatchWait, NoCall
  <2>2. \A x : Started(x)' <=> Started(x)
    BY <2>1 DEF Started
  <2>3. \A s \in Runtimes : s # r => queue'[s] = queue[s]
    BY <1>9, <1>e DEF DispatchWait, Enqueue, Push, Evict
  <2>4. \A i \in DOMAIN queue'[r] :
          queue'[r][i] \notin Events \/ \E k \in DOMAIN queue[r] : queue'[r][i] = queue[r][k]
    BY <1>9, WaitElements, NewEvent
  <2>5. \A s \in Runtimes : \A i \in DOMAIN queue'[s] :
          queue'[s][i] \notin Events \/ \E k \in DOMAIN queue[s] : queue'[s][i] = queue[s][k]
    BY <2>3, <2>4
  <2>6. QED
    BY <1>1, <2>1, <2>2, <2>5
<1>10. ASSUME NEW r \in Runtimes, DispatchOwn(r) PROVE Settling'
  <2> DEFINE e == Len(event) + 1
  <2>1. e \in Events' /\ e \notin Events /\ Processed(r, e, Caller) /\ Caller \in 0..Inline
    BY <1>10, NewEvent, Typing DEF Caller, Inline
  <2> HIDE DEF e
  <2>2. conns' = conns /\ queue' = queue /\ attempt' = attempt
    BY <1>10 DEF DispatchOwn
  <2>3. \A x \in Events : Started(x)' => Started(x)
    BY <2>1, StartedFacts
  <2>4. \A c \in conns : c.ev \in Events /\ c.from \in Runtimes
    BY <1>b DEF Conn
  <2>5. QED
    BY <1>0, <1>a, <1>b, <2>2, <2>3, <2>4 DEF Settling
\* A connection moves on.
<1>11. ASSUME queue' = queue, attempt' = attempt,
              \A x : Sure(x)' /\ Started(x)' => Started(x) \/ \E c \in conns : c.ev = x,
              \A d \in conns' : \E b \in conns : Same(b, d) /\
                (Sure(d.ev)' /\ d.st \in {"unread", "refused"} =>
                   b.st \in {"unread", "refused"} /\ (Started(d.ev)' => Started(d.ev))),
              \A b \in conns : \E d \in conns' : Same(b, d)
       PROVE  Settling'
  <2>1. \A c, d \in conns' : c.n = d.n => c = d
    BY ConnStep DEF ConnTypes, Numbered
  <2>2. ASSUME NEW c \in conns', NEW d \in conns', Sure(c.ev)', c.ev = d.ev PROVE c = d
    <3>1. PICK b \in conns : Same(b, c)
      BY <1>11
    <3>2. PICK g \in conns : Same(g, d)
      BY <1>11
    <3>3. b = g
      BY <1>0, <1>a, <2>2, <3>1, <3>2 DEF Same
    <3>4. QED
      BY <2>1, <3>1, <3>2, <3>3 DEF Same
  <2>3. ASSUME NEW c \in conns', Sure(c.ev)', c.st \in {"unread", "refused"} PROVE ~Started(c.ev)'
    <3>1. PICK b \in conns : Same(b, c) /\ b.st \in {"unread", "refused"} /\ (Started(c.ev)' => Started(c.ev))
      BY <1>11, <2>3
    <3>2. ~Started(c.ev)
      BY <1>0, <1>a, <2>3, <3>1 DEF Same
    <3>3. QED BY <3>1, <3>2
  <2>4. ASSUME NEW c \in conns', NEW i \in DOMAIN queue'[c.from], Sure(c.ev)', queue'[c.from][i] = c.ev
        PROVE  attempt'[c.from] = c.n
    <3>1. PICK b \in conns : Same(b, c)
      BY <1>11
    <3>2. b.ev = c.ev /\ b.from = c.from /\ b.n = c.n
      BY <3>1 DEF Same
    <3>3. i \in DOMAIN queue[b.from] /\ queue[b.from][i] = b.ev
      BY <1>11, <2>4, <3>2
    <3>4. Sure(b.ev)
      BY <1>a, <2>4, <3>2
    <3>5. attempt[b.from] = b.n
      BY <1>0, <3>3, <3>4
    <3>6. QED
      BY <1>11, <3>2, <3>5
  <2>5. ASSUME NEW s \in Runtimes, NEW i \in DOMAIN queue'[s], NEW x, x = queue'[s][i], Sure(x)', Started(x)'
        PROVE  \E c \in conns' : c.ev = x
    <3>1. \E b \in conns : b.ev = x
      BY <1>0, <1>11, <1>a, <2>5
    <3>2. QED BY <1>11, <3>1 DEF Same
  <2>6. QED
    BY <2>2, <2>3, <2>4, <2>5 DEF Settling
<1>12. ASSUME NEW c \in conns, Rejected(c) PROVE Settling'
  <2>1. Moved(c, "refused") /\ c.st = "unread"
    BY <1>12, AnswersFacts DEF Rejected
  <2>2. log' = log /\ queue' = queue /\ attempt' = attempt
    BY <1>12 DEF Rejected, NoCall
  <2>3. \A x : Started(x)' <=> Started(x)
    BY <2>2 DEF Started
  <2>4. QED
    BY <1>11, <2>1, <2>2, <2>3 DEF Moved
<1>13. ASSUME NEW c \in conns, Incoming(c) PROVE Settling'
  <2> DEFINE st == IF Known(c.to, c.ev, event[c.ev].key) THEN "ok" ELSE "busy"
  <2>1. Answers(c, st) /\ c.st = "unread" /\ st \in {"busy", "ok"} /\ queue' = queue /\ attempt' = attempt
    BY <1>13 DEF Incoming
  <2> HIDE DEF st
  <2>2. Moved(c, st)
    BY <2>1, AnswersFacts
  <2>3. c.ev \in Events' /\ Processed(c.to, c.ev, c.n) /\ c.to \in Runtimes /\ c.n \in 0..Inline
    BY <1>13, <1>b, IncomingProcessed, Typing DEF Conn, Inline
  <2>4. \A x : Started(x)' => Started(x) \/ x = c.ev
    BY <2>3, StartedFacts
  <2>5. ASSUME NEW d \in conns'
        PROVE  \E b \in conns : Same(b, d) /\
                 (Sure(d.ev)' /\ d.st \in {"unread", "refused"} =>
                    b.st \in {"unread", "refused"} /\ (Started(d.ev)' => Started(d.ev)))
    <3>1. PICK b \in conns : Same(b, d) /\ d.st = IF b = c THEN st ELSE b.st
      BY <2>2 DEF Moved
    <3>2. ASSUME Sure(d.ev)', d.st \in {"unread", "refused"}
          PROVE  b.st \in {"unread", "refused"} /\ (Started(d.ev)' => Started(d.ev))
      <4>1. b # c
        BY <2>1, <3>1, <3>2
      <4>2. b.ev # c.ev
        BY <1>0, <1>a, <3>1, <3>2, <4>1 DEF Same
      <4>3. QED
        BY <2>4, <3>1, <3>2, <4>1, <4>2 DEF Same
    <3>3. QED BY <3>1, <3>2
  <2>6. \A b \in conns : \E d \in conns' : Same(b, d)
    BY <2>2 DEF Moved
  <2>7. QED
    BY <1>11, <2>1, <2>4, <2>5, <2>6
<1>14. ASSUME NEW j \in jobs, OwnerEventDone(j) PROVE Settling'
  <2>1. Answered(j, "ok") /\ log' = log /\ queue' = queue /\ attempt' = attempt
    BY <1>14 DEF OwnerEventDone, sending
  <2>2. \A x : Started(x)' <=> Started(x)
    BY <2>1 DEF Started
  <2>3. /\ \A d \in conns' : \E b \in conns : Same(b, d) /\ d.st = IF b.n = j.via THEN "ok" ELSE b.st
        /\ \A b \in conns : \E d \in conns' : Same(b, d)
    BY <2>1, AnsweredFacts
  <2>4. \A d \in conns' : \E b \in conns : Same(b, d) /\
          (d.st \in {"unread", "refused"} => b.st \in {"unread", "refused"})
    BY <2>3
  <2>5. QED
    BY <1>11, <2>1, <2>2, <2>3, <2>4
<1>15. ASSUME NEW j \in jobs, OwnerEventThrows(j) PROVE Settling'
  <2>1. Answered(j, "refused") /\ log' = log /\ queue' = queue /\ attempt' = attempt /\ j.ev \in failed'
    BY <1>15 DEF OwnerEventThrows
  <2>2. \A x : Started(x)' <=> Started(x)
    BY <2>1 DEF Started
  <2>3. /\ \A d \in conns' : \E b \in conns : Same(b, d) /\ d.st = IF b.n = j.via THEN "refused" ELSE b.st
        /\ \A b \in conns : \E d \in conns' : Same(b, d)
    BY <2>1, AnsweredFacts
  <2>4. \A b \in conns : b.n = j.via => b.ev = j.ev
    BY <1>b DEF CallInv, Conn
  <2>5. \A d \in conns' : \E b \in conns : Same(b, d) /\
          (Sure(d.ev)' /\ d.st \in {"unread", "refused"} => b.st \in {"unread", "refused"})
    BY <2>1, <2>3, <2>4 DEF Sure, Same
  <2>6. QED
    BY <1>11, <2>1, <2>2, <2>3, <2>5
<1>16. CASE Elected \/ Tick
  <2>1. log' = log /\ conns' = conns /\ queue' = queue /\ attempt' = attempt
    BY <1>16 DEF Elected, Tick, history, receiving, sending
  <2>2. \A x : Started(x)' <=> Started(x)
    BY <2>1 DEF Started
  <2>3. QED
    BY <1>11, <2>1, <2>2 DEF Same
<1>17. QED
  BY <1>3, <1>4, <1>5, <1>6, <1>7, <1>8, <1>9, <1>10, <1>12, <1>13, <1>14, <1>15, <1>16 DEF Step

\* Nothing sure is processed a second time.
LEMMA OnceStep ==
  ASSUME TypeInv, TypeInv', Step, QueueInv, QueueInv', CallInv, OnceInv
  PROVE  OnceInv'
<1>0. RepeatOnlyWhenDoubted /\ doubted \subseteq doubted' /\ failed \subseteq failed'
  BY HistoryGrows DEF OnceInv
<1>1. Settling'
  BY SettlingStep
<1>2. ASSUME log' = log PROVE RepeatOnlyWhenDoubted'
  BY <1>0, <1>2 DEF RepeatOnlyWhenDoubted
<1>3. ASSUME NEW r \in Runtimes, DispatchOwn(r) PROVE RepeatOnlyWhenDoubted'
  <2>1. /\ Len(event) + 1 \in Events' /\ Len(event) + 1 \notin Events
        /\ Processed(r, Len(event) + 1, Caller) /\ Caller \in 0..Inline
    BY <1>3, NewEvent, Typing DEF Caller, Inline
  <2>2. ~Started(Len(event) + 1)
    BY <2>1, LogTyping DEF Started
  <2>3. QED
    BY <1>0, <2>1, <2>2, RepeatStep
<1>4. ASSUME NEW r \in Runtimes, NEW q \in Seq(Events), NEW pool \in SUBSET conns, Served(r, q, pool)
      PROVE  RepeatOnlyWhenDoubted'
  <2>1. Head(q) \in Events' /\ Processed(r, Head(q), Inline) /\ Inline \in 0..Inline
    BY <1>4, ServedProcessed, Typing DEF Inline
  <2>2. Head(q) = q[1] /\ 1 \in DOMAIN q /\ Resumes(r, q, pool)
    BY <1>4, TailFacts DEF Served
  <2>3. Sure(Head(q)) => ~Started(Head(q))
    BY <2>2, ResumeFresh
  <2>4. QED
    BY <1>0, <2>1, <2>3, RepeatStep
<1>5. ASSUME NEW c \in conns, Incoming(c) PROVE RepeatOnlyWhenDoubted'
  <2>1. c.ev \in Events' /\ Processed(c.to, c.ev, c.n) /\ c.to \in Runtimes /\ c.n \in 0..Inline
    BY <1>5, IncomingProcessed, Typing DEF Conn, Inline
  <2>2. Sure(c.ev) => ~Started(c.ev)
    BY <1>5 DEF Incoming, OnceInv, Settling
  <2>3. QED
    BY <1>0, <2>1, <2>2, RepeatStep
<1>6. log' = log \/ (\E r \in Runtimes : DispatchOwn(r)) \/ (\E c \in conns : Incoming(c))
        \/ \E r \in Runtimes, q \in Seq(Events), pool \in SUBSET conns : Served(r, q, pool)
  BY DEF Step, DispatchWait, GivenUp, Crash, Parked, Opened, Dropped, Rejected, NoCall, OwnerEventDone,
         OwnerEventThrows, Elected, Tick, history
<1>7. QED
  BY <1>1, <1>2, <1>3, <1>4, <1>5, <1>6 DEF OnceInv

\* The three invariants hold at the start, where nothing has been dispatched.
LEMMA RepeatsInit == Init => QueueInv /\ CallInv /\ WindowInv /\ OnceInv
<1> SUFFICES ASSUME Init PROVE QueueInv /\ CallInv /\ WindowInv /\ OnceInv
  OBVIOUS
<1>1. log = <<>> /\ conns = {} /\ jobs = {} /\ \A r \in Runtimes : queue[r] = <<>>
  BY DEF Init
<1>2. DOMAIN log = {} /\ \A r \in Runtimes : DOMAIN queue[r] = {}
  BY <1>1
<1>3. QueueInv /\ CallInv
  BY <1>1, <1>2 DEF QueueInv, CallInv
<1>4. WindowInv
  BY <1>2 DEF WindowInv, Remembered, OncePerWindow
<1>5. OnceInv
  BY <1>1, <1>2 DEF OnceInv, Settling, RepeatOnlyWhenDoubted
<1>6. QED
  BY <1>3, <1>4, <1>5

\* What an acknowledgement settles, kept by every step.
OnceBase == TypeInv /\ QueueInv /\ CallInv /\ WindowInv /\ OnceInv
LEMMA OnceBaseStep == OnceBase /\ [Next]_vars => OnceBase' /\ Step
<1> SUFFICES ASSUME OnceBase, [Next]_vars PROVE OnceBase' /\ Step
  OBVIOUS
<1>0. TypeInv /\ QueueInv /\ CallInv /\ WindowInv /\ OnceInv
  BY DEF OnceBase
<1>1. TypeInv' /\ Step
  BY <1>0, TypeStep
<1>2. QueueInv'
  BY <1>0, <1>1, QueueStep
<1>3. CallInv'
  BY <1>0, <1>1, CallInvStep
<1>4. WindowInv'
  BY <1>0, <1>1, WindowStep
<1>5. OnceInv'
  BY <1>0, <1>1, <1>2, OnceStep
<1>6. QED
  BY <1>1, <1>2, <1>3, <1>4, <1>5 DEF OnceBase

\* Every second call of onOwnerEvent for what says the same has a reason: the window has
\* passed or another runtime owns the transport, and the same event comes again only if an
\* answer to it was doubtful (processOwnerEvent, sendRelayEvent): RepeatsExplained.
THEOREM RelayRepeats == Spec => []RepeatsExplained
<1>1. Init => OnceBase
  BY TypeInit, RepeatsInit DEF OnceBase
<1>2. OnceBase => RepeatsExplained
  BY DEF OnceBase, RepeatsExplained, WindowInv, OnceInv
<1>3. QED
  BY <1>1, <1>2, OnceBaseStep, PTL DEF Spec

-----------------------------------------------------------------------------
(* Where an event is *)

\* Saying the same is an equivalence.
LEMMA SameContentFacts ==
  /\ \A e : SameContent(e, e)
  /\ \A e, f : SameContent(e, f) => SameContent(f, e)
  /\ \A e, f, g : SameContent(e, f) /\ SameContent(f, g) => SameContent(e, g)
BY DEF SameContent

\* What e says has been processed, or acknowledged while it was being processed.
Settled(e) == \E f \in Events : SameContent(e, f) /\ f \in completed \cup failed \cup early

\* Runtime r is processing what e says.
Busy(r, e) == \E j \in jobs : j.at = r /\ SameContent(e, j.ev)

Queued(e) == \E r \in Runtimes : \E i \in DOMAIN queue[r] : queue[r][i] = e
AtHome(e) == \E j \in jobs : j.ev = e /\ j.at = event[e].home
Kept(e) == Queued(e) \/ AtHome(e) \/ Settled(e) \/ e \in gone \/ event[e].home \in raced

\* The dedupe markers, the acknowledgements and the queues know where an event is.
Explained ==
  \A r \in Runtimes : \A m \in Markers : seen[r][m] > 0 =>
    \E f \in Events : Marks(m, f) /\ (Busy(r, f) \/ Settled(f))
Awaited ==
  \A c \in conns : attempt[c.from] = c.n /\ c.from \notin raced => Head(queue[c.from]) = c.ev
Acknowledged == \A c \in conns : c.st = "ok" => Settled(c.ev)
KeptInv == Explained /\ Awaited /\ Acknowledged /\ \A e \in Events : Kept(e)

\* What is settled stays so.
LEMMA SettledGrows ==
  ASSUME TypeInv, Step, NEW e \in Events, Settled(e)
  PROVE  Settled(e)'
BY ContentKept, EventsKept, HistoryGrows DEF Settled

\* What is completed, failed or answered early settles itself.
LEMMA SettledItself ==
  ASSUME NEW e \in Events', e \in completed' \cup failed' \cup early'
  PROVE  Settled(e)'
BY DEF Settled, SameContent

\* A call of onOwnerEvent ends by itself or with its runtime.
LEMMA JobsFate ==
  ASSUME TypeInv, Step, NEW j \in jobs
  PROVE  j \in jobs' \/ j.ev \in completed' \cup failed' \/ (j.at \in Runtimes /\ Crash(j.at))
<1>1. ASSUME NEW r, NEW e, NEW k, NEW via, ProcessOwnerEvent(r, e, k, via) PROVE jobs \subseteq jobs'
  BY <1>1 DEF ProcessOwnerEvent, Call
<1>2. ASSUME NEW r \in Runtimes, DispatchOwn(r) \/ DispatchWait(r) \/ GivenUp(r) PROVE jobs \subseteq jobs'
  BY <1>1, <1>2 DEF DispatchOwn, DispatchWait, GivenUp, NoCall
<1>3. ASSUME NEW r \in Runtimes, NEW q \in Seq(Events), NEW pool \in SUBSET conns,
             Parked(r, q, pool) \/ Served(r, q, pool) \/ Opened(r, q, pool)
      PROVE  jobs \subseteq jobs'
  BY <1>1, <1>3 DEF Parked, Served, Opened, NoCall
<1>4. ASSUME NEW c \in conns, Dropped(c) \/ Rejected(c) \/ Incoming(c) PROVE jobs \subseteq jobs'
  BY <1>1, <1>4 DEF Dropped, Rejected, Incoming, NoCall
<1>5. ASSUME NEW i \in jobs, OwnerEventDone(i) \/ OwnerEventThrows(i)
      PROVE  j \in jobs' \/ j.ev \in completed' \cup failed'
  BY <1>5 DEF OwnerEventDone, OwnerEventThrows
<1>6. ASSUME NEW r \in Runtimes, Crash(r) PROVE j \in jobs' \/ j.at = r
  BY <1>6 DEF Crash
<1>7. CASE Elected \/ Tick
  BY <1>7 DEF Elected, Tick, receiving
<1>8. QED
  BY <1>2, <1>3, <1>4, <1>5, <1>6, <1>7 DEF Step

\* An event that is processed is settled or has a call of its own.
LEMMA ProcessedFate ==
  ASSUME TypeInv, TypeInv', Step, Explained, NEW r \in Runtimes, NEW e \in Events',
         NEW via \in 0..Inline, Processed(r, e, via)
  PROVE  IF Known(r, e, event'[e].key) THEN Settled(e)' ELSE \E j \in jobs' : j.ev = e /\ j.at = r
<1>1. CASE ~Known(r, e, event'[e].key)
  <2>1. [ev |-> e, at |-> r, via |-> via] \in jobs'
    BY <1>1, LogFacts
  <2>2. \E j \in jobs' : j.ev = e /\ j.at = r
    BY <2>1
  <2>3. QED BY <1>1, <2>2
<1>2. CASE Known(r, e, event'[e].key)
  <2>1. PICK m \in Markers : Marks(m, e)' /\ seen[r][m] > clock
    BY <1>2, SeenFacts
  <2>2. seen[r][m] > 0
    BY <2>1, LogTyping
  <2>3. PICK f \in Events : Marks(m, f) /\ (Busy(r, f) \/ Settled(f))
    BY <2>2 DEF Explained
  <2>4. Marks(m, f)' /\ f \in Events'
    BY <2>3, ContentKept, EventsKept
  <2>5. SameContent(e, f)'
    <3>1. TypeInv' => MarkersTell'
      BY SameMarks, PTL
    <3>2. \A x, y \in Events' :
            SameContent(x, y)' <=> \E l \in Markers' : Marks(l, x)' /\ Marks(l, y)'
      BY <3>1 DEF MarkersTell
    <3>3. Markers' = Markers
      BY DEF Markers
    <3>4. QED
      BY <2>1, <2>4, <3>2, <3>3
  <2>6. CASE Settled(f)
    <3>1. Settled(f)'
      BY <2>6, SettledGrows
    <3>2. PICK g \in Events' : SameContent(f, g)' /\ g \in completed' \cup failed' \cup early'
      BY <3>1 DEF Settled
    <3>3. SameContent(e, g)'
      BY <2>5, <3>2 DEF SameContent
    <3>4. QED
      BY <1>2, <3>2, <3>3 DEF Settled
  <2>7. CASE Busy(r, f)
    <3>1. PICK j \in jobs : j.at = r /\ SameContent(f, j.ev)
      BY <2>7 DEF Busy
    <3>2. j.ev \in Events /\ event'[j.ev] = event[j.ev]
      BY Typing, EventsKept
    <3>3. SameContent(f, j.ev)'
      BY <3>1, <3>2, ContentKept
    <3>4. SameContent(e, j.ev)'
      BY <2>5, <3>3 DEF SameContent
    <3>5. StillBusy(r, e, event'[e].key)
      BY <3>1, <3>2, <3>4 DEF StillBusy, SameContent
    <3>6. e \in early'
      BY <1>2, <3>5 DEF Processed, ProcessOwnerEvent
    <3>7. QED
      BY <1>2, <3>6, SettledItself
  <2>8. QED
    BY <2>3, <2>6, <2>7
<1>3. QED
  BY <1>1, <1>2

\* The markers of a runtime name what it processes or has processed.
LEMMA ExplainedStep ==
  ASSUME TypeInv, TypeInv', Step, Explained
  PROVE  Explained'
<1>1. SUFFICES ASSUME NEW r \in Runtimes, NEW m \in Markers, seen'[r][m] > 0
               PROVE  \E f \in Events' : Marks(m, f)' /\ (Busy(r, f)' \/ Settled(f)')
  BY DEF Explained, Markers
<1>2. ~Crash(r)
  <2>1. ASSUME Crash(r) PROVE seen'[r][m] = 0
    BY <2>1, TypeParts DEF Crash, CallTypes
  <2>2. QED BY <1>1, <2>1
<1>3. ASSUME seen[r][m] > 0 PROVE \E f \in Events' : Marks(m, f)' /\ (Busy(r, f)' \/ Settled(f)')
  <2>1. PICK f \in Events : Marks(m, f) /\ (Busy(r, f) \/ Settled(f))
    BY <1>3 DEF Explained
  <2>2. Marks(m, f)' /\ f \in Events'
    BY <2>1, ContentKept, EventsKept
  <2>3. CASE Settled(f)
    BY <2>2, <2>3, SettledGrows
  <2>4. CASE Busy(r, f)
    <3>1. PICK j \in jobs : j.at = r /\ SameContent(f, j.ev)
      BY <2>4 DEF Busy
    <3>2. j.ev \in Events /\ j.ev \in Events'
      BY Typing, EventsKept
    <3>3. SameContent(f, j.ev)'
      BY <3>1, <3>2, ContentKept
    <3>4. CASE j \in jobs'
      BY <2>2, <3>1, <3>3, <3>4 DEF Busy
    <3>5. CASE j.ev \in completed' \cup failed'
      <4>1. Settled(f)'
        BY <3>2, <3>3, <3>5 DEF Settled
      <4>2. QED BY <2>2, <4>1
    <3>6. QED
      BY <1>2, <3>1, <3>4, <3>5, JobsFate
  <2>5. QED
    BY <2>1, <2>3, <2>4
<1>4. seen[r][m] \in Nat /\ clock \in Nat
  BY LogTyping
<1>5. ASSUME NEW s \in Runtimes, NEW e \in Events', NEW via \in 0..Inline, Processed(s, e, via)
      PROVE  \E f \in Events' : Marks(m, f)' /\ (Busy(r, f)' \/ Settled(f)')
  <2>1. CASE r # s
    BY <1>1, <1>3, <1>5, <2>1, SeenFacts
  <2>2. CASE r = s /\ seen[r][m] > clock
    BY <1>3, <1>4, <2>2
  <2>3. CASE r = s /\ Marks(m, e)'
    <3>1. Busy(r, e)' \/ Settled(e)'
      BY <1>5, <2>3, ProcessedFate DEF Busy, SameContent
    <3>2. QED BY <2>3, <3>1
  <2>4. QED
    BY <1>1, <1>5, <2>1, <2>2, <2>3, SeenFacts
<1>6. ASSUME NEW s \in Runtimes, Crash(s)
      PROVE  \E f \in Events' : Marks(m, f)' /\ (Busy(r, f)' \/ Settled(f)')
  <2>1. seen'[r] = seen[r]
    BY <1>2, <1>6, TypeParts DEF Crash, CallTypes
  <2>2. QED BY <1>1, <1>3, <2>1
<1>7. CASE Quiet \/ Tick
  <2>1. seen' = seen
    BY <1>7 DEF Quiet, Tick, receiving
  <2>2. QED BY <1>1, <1>3, <2>1
<1>8. QED
  BY <1>5, <1>6, <1>7, ReceiverCases

\* Unless a full queue lost it, the head of the queue is the event whose answer is awaited.
LEMMA AwaitedStep ==
  ASSUME TypeInv, TypeInv', Step, Awaited
  PROVE  Awaited'
<1>0. \A c \in conns : attempt[c.from] = c.n /\ c.from \notin raced => Head(queue[c.from]) = c.ev
  BY DEF Awaited
<1>a. /\ \A c \in conns : Conn(c)
      /\ \A r \in Runtimes : attempt[r] # 0 => flush[r] = "relay" /\ queue[r] # <<>>
      /\ queue \in [Runtimes -> Seq(Events)] /\ DOMAIN attempt = Runtimes
  BY Typing, TypeParts DEF TypeInv, SenderTypes
<1>b. raced \subseteq raced'
  BY HistoryGrows
\* Nothing is sent: an attempt goes on with its queue or is over.
<1>1. ASSUME \A d \in conns' : \E b \in conns : Same(b, d),
             \A r \in Runtimes : attempt'[r] = 0 \/ (attempt'[r] = attempt[r] /\ queue'[r] = queue[r])
      PROVE  Awaited'
  <2>1. SUFFICES ASSUME NEW d \in conns', attempt'[d.from] = d.n, d.from \notin raced'
                 PROVE  Head(queue'[d.from]) = d.ev
    BY DEF Awaited
  <2>2. PICK b \in conns : Same(b, d)
    BY <1>1
  <2>3. b.n = d.n /\ b.ev = d.ev /\ b.from = d.from /\ b.n # 0 /\ b.from \in Runtimes
    BY <1>a, <2>2 DEF Same, Conn
  <2>4. attempt[b.from] = b.n /\ queue'[b.from] = queue[b.from]
    BY <1>1, <2>1, <2>3
  <2>5. QED
    BY <1>0, <1>b, <2>1, <2>3, <2>4
<1>2. ASSUME NEW r \in Runtimes, NEW q \in Seq(Events), NEW pool \in SUBSET conns,
             Parked(r, q, pool) \/ Served(r, q, pool)
      PROVE  Awaited'
  <2>1. conns' \subseteq conns /\ attempt'[r] = 0
        /\ \A s \in Runtimes : s # r => attempt'[s] = attempt[s] /\ queue'[s] = queue[s]
    BY <1>2, <1>a DEF Parked, Served
  <2>2. QED
    BY <1>1, <2>1 DEF Same
<1>3. ASSUME NEW r \in Runtimes, NEW q \in Seq(Events), NEW pool \in SUBSET conns, Opened(r, q, pool)
      PROVE  Awaited'
  <2>1. SUFFICES ASSUME NEW d \in conns', attempt'[d.from] = d.n, d.from \notin raced'
                 PROVE  Head(queue'[d.from]) = d.ev
    BY DEF Awaited
  <2>2. conns' = pool \cup {NewConn(r, q, pool)} /\ attempt'[r] = FreeNumber(pool) /\ queue'[r] = q
        /\ \A s \in Runtimes : s # r => attempt'[s] = attempt[s] /\ queue'[s] = queue[s]
    BY <1>3, <1>a DEF Opened
  <2>3. \A c \in pool : c.n # FreeNumber(pool)
    <3>1. Numbered(pool) /\ Cardinality(pool) < MaxConns
      BY <1>3 DEF TypeInv, Numbered, Opened
    <3>2. QED BY <3>1, FreeFacts
  <2>4. CASE d = NewConn(r, q, pool)
    BY <2>2, <2>4 DEF NewConn
  <2>5. CASE d \in pool
    <3>1. d \in conns /\ d.from \in Runtimes /\ d.from # r
      BY <1>a, <2>1, <2>2, <2>3, <2>5 DEF Conn
    <3>2. QED
      BY <1>0, <1>b, <2>1, <2>2, <3>1
  <2>6. QED
    BY <2>2, <2>4, <2>5
<1>4. ASSUME NEW r \in Runtimes, DispatchWait(r) PROVE Awaited'
  <2>1. SUFFICES ASSUME NEW d \in conns', attempt'[d.from] = d.n, d.from \notin raced'
                 PROVE  Head(queue'[d.from]) = d.ev
    BY DEF Awaited
  <2>2. conns' = conns /\ attempt' = attempt /\ Enqueue(r, Len(event) + 1)
    BY <1>4 DEF DispatchWait
  <2>3. d.from \in Runtimes /\ attempt[d.from] # 0 /\ queue[d.from] # <<>> /\ flush[d.from] = "relay"
    <3>1. Conn(d) /\ attempt[d.from] = d.n
      BY <1>a, <2>1, <2>2
    <3>2. d.from \in Runtimes /\ attempt[d.from] # 0
      BY <3>1 DEF Conn
    <3>3. QED BY <1>a, <3>2
  <2>4. CASE d.from # r
    <3>1. queue'[d.from] = queue[d.from]
      BY <1>a, <2>2, <2>3, <2>4 DEF Enqueue, Push, Evict
    <3>2. QED BY <1>0, <1>b, <2>1, <2>2, <3>1
  <2>5. CASE d.from = r
    <3>1. queue'[r] = Append(queue[r], Len(event) + 1)
      BY <1>a, <2>1, <2>2, <2>3, <2>5 DEF Enqueue, Push, Evict
    <3>2. Len(event) + 1 \in Events' /\ queue[r] \in Seq(Events')
      BY <1>4, <1>a, NewEvent
    <3>3. Append(queue[r], Len(event) + 1)[1] = queue[r][1] /\ queue[r][1] = Head(queue[r])
          /\ Append(queue[r], Len(event) + 1) # <<>>
      <4>1. queue[r] # <<>>
        BY <2>3, <2>5
      <4>2. 1 \in 1..Len(queue[r]) /\ queue[r][1] = Head(queue[r])
        BY <3>2, <4>1, TailFacts
      <4>3. QED BY <3>2, <4>1, <4>2, AppendFacts
    <3>4. Head(queue'[r]) = Head(queue[r])
      BY <3>1, <3>3
    <3>5. QED
      BY <1>0, <1>b, <2>1, <2>2, <2>5, <3>4
  <2>6. QED BY <2>4, <2>5
<1>5. ASSUME NEW r \in Runtimes, GivenUp(r) PROVE Awaited'
  <2>1. conns' \subseteq conns /\ queue' = queue
        /\ \A s \in Runtimes : attempt'[s] = 0 \/ attempt'[s] = attempt[s]
    BY <1>5, <1>a DEF GivenUp, GiveUp
  <2>2. QED
    BY <1>1, <2>1 DEF Same
<1>6. ASSUME NEW r \in Runtimes, Crash(r) PROVE Awaited'
  <2>1. conns' \subseteq conns
        /\ \A s \in Runtimes : attempt'[s] = 0 \/ (attempt'[s] = attempt[s] /\ queue'[s] = queue[s])
    BY <1>6, <1>a DEF Crash
  <2>2. QED
    BY <1>1, <2>1 DEF Same
<1>7. ASSUME NEW r \in Runtimes, DispatchOwn(r) PROVE Awaited'
  <2>1. conns' = conns /\ queue' = queue /\ attempt' = attempt
    BY <1>7 DEF DispatchOwn
  <2>2. QED BY <1>1, <2>1 DEF Same
<1>8. ASSUME NEW c \in conns, Dropped(c) \/ Rejected(c) \/ Incoming(c) PROVE Awaited'
  <2>1. queue' = queue /\ attempt' = attempt
    BY <1>8 DEF Dropped, Rejected, Incoming
  <2>2. CASE Dropped(c)
    BY <1>1, <2>1, <2>2 DEF Dropped, Same
  <2>3. CASE Rejected(c) \/ Incoming(c)
    <3>1. PICK st \in {"busy", "ok", "refused"} : Answers(c, st)
      BY <2>3 DEF Rejected, Incoming
    <3>2. Moved(c, st)
      BY <3>1, AnswersFacts
    <3>3. QED BY <1>1, <2>1, <3>2 DEF Moved
  <2>4. QED BY <1>8, <2>2, <2>3
<1>9. ASSUME NEW j \in jobs, OwnerEventDone(j) \/ OwnerEventThrows(j) PROVE Awaited'
  <2>1. queue' = queue /\ attempt' = attempt
    BY <1>9 DEF OwnerEventDone, OwnerEventThrows, sending
  <2>2. PICK st \in {"ok", "refused"} : Answered(j, st)
    BY <1>9 DEF OwnerEventDone, OwnerEventThrows
  <2>3. \A d \in conns' : \E b \in conns : Same(b, d)
    BY <2>2, AnsweredFacts
  <2>4. QED BY <1>1, <2>1, <2>3
<1>10. CASE Elected \/ Tick
  <2>1. conns' = conns /\ queue' = queue /\ attempt' = attempt
    BY <1>10 DEF Elected, Tick, receiving, sending
  <2>2. QED BY <1>1, <2>1 DEF Same
<1>11. QED
  BY <1>2, <1>3, <1>4, <1>5, <1>6, <1>7, <1>8, <1>9, <1>10 DEF Step

\* An acknowledged event is settled.
LEMMA AcknowledgedStep ==
  ASSUME TypeInv, TypeInv', Step, Explained, Acknowledged, CallInv
  PROVE  Acknowledged'
<1>0. \A c \in conns : c.st = "ok" => Settled(c.ev)
  BY DEF Acknowledged
<1>a. \A c \in conns : Conn(c)
  BY Typing
<1>1. SUFFICES ASSUME NEW d \in conns', d.st = "ok" PROVE Settled(d.ev)'
  BY DEF Acknowledged
<1>2. ASSUME NEW b \in conns, Same(b, d), b.st = "ok" PROVE Settled(d.ev)'
  <2>1. b.ev \in Events /\ Settled(b.ev) /\ b.ev = d.ev
    BY <1>0, <1>a, <1>2 DEF Conn, Same
  <2>2. Settled(b.ev)'
    BY <2>1, SettledGrows
  <2>3. QED BY <2>1, <2>2
<1>3. CASE d \in conns
  BY <1>1, <1>2, <1>3 DEF Same
<1>4. ASSUME NEW c \in conns, Rejected(c) PROVE Settled(d.ev)'
  <2>1. Moved(c, "refused")
    BY <1>4, AnswersFacts DEF Rejected
  <2>2. QED BY <1>1, <1>2, <2>1 DEF Moved
<1>5. ASSUME NEW c \in conns, Incoming(c) PROVE Settled(d.ev)'
  <2> DEFINE st == IF Known(c.to, c.ev, event[c.ev].key) THEN "ok" ELSE "busy"
  <2>1. Answers(c, st) /\ st \in {"busy", "ok"}
    BY <1>5 DEF Incoming
  <2>2. st = "ok" <=> Known(c.to, c.ev, event[c.ev].key)
    OBVIOUS
  <2> HIDE DEF st
  <2>3. Moved(c, st)
    BY <2>1, AnswersFacts
  <2>4. PICK b \in conns : Same(b, d) /\ d.st = IF b = c THEN st ELSE b.st
    BY <2>3 DEF Moved
  <2>5. CASE b = c
    <3>1. Known(c.to, c.ev, event[c.ev].key) /\ d.ev = c.ev
      BY <1>1, <2>2, <2>4, <2>5 DEF Same
    <3>2. c.ev \in Events' /\ Processed(c.to, c.ev, c.n) /\ c.to \in Runtimes /\ c.n \in 0..Inline
          /\ event'[c.ev] = event[c.ev]
      BY <1>5, <1>a, IncomingProcessed, EventsKept, Typing DEF Conn, Inline
    <3>3. Settled(c.ev)'
      BY <3>1, <3>2, ProcessedFate
    <3>4. QED BY <3>1, <3>3
  <2>6. CASE b # c
    BY <1>1, <1>2, <2>4, <2>6
  <2>7. QED BY <2>5, <2>6
<1>6. ASSUME NEW j \in jobs, OwnerEventDone(j) \/ OwnerEventThrows(j) PROVE Settled(d.ev)'
  <2>1. j.ev \in completed' \cup failed' /\ j.ev \in Events'
    BY <1>6, Typing, EventsKept DEF OwnerEventDone, OwnerEventThrows
  <2>2. PICK st \in {"ok", "refused"} : Answered(j, st)
    BY <1>6 DEF OwnerEventDone, OwnerEventThrows
  <2>3. PICK b \in conns : Same(b, d) /\ d.st = IF b.n = j.via THEN st ELSE b.st
    BY <2>2, AnsweredFacts
  <2>4. CASE b.n = j.via
    <3>1. b.ev = j.ev
      <4>1. j.via \in 1..MaxConns
        BY <1>a, <2>4 DEF Conn
      <4>2. PICK c \in conns : c.n = j.via /\ c.ev = j.ev
        BY <4>1 DEF CallInv
      <4>3. c = b
        BY <2>4, <4>2 DEF TypeInv, Numbered
      <4>4. QED BY <4>2, <4>3
    <3>2. d.ev = j.ev
      BY <2>3, <3>1 DEF Same
    <3>3. QED BY <2>1, <3>2, SettledItself
  <2>5. CASE b.n # j.via
    BY <1>1, <1>2, <2>3, <2>5
  <2>6. QED BY <2>4, <2>5
<1>7. ASSUME NEW r \in Runtimes, NEW q \in Seq(Events), NEW pool \in SUBSET conns, Opened(r, q, pool)
      PROVE  d \in conns
  BY <1>1, <1>7 DEF Opened, NewConn
<1>8. ASSUME \/ \E r \in Runtimes : DispatchOwn(r) \/ DispatchWait(r) \/ GivenUp(r) \/ Crash(r)
             \/ \E r \in Runtimes : \E q \in Seq(Events), pool \in SUBSET conns :
                  Parked(r, q, pool) \/ Served(r, q, pool)
             \/ \E c \in conns : Dropped(c)
             \/ Elected \/ Tick
      PROVE  d \in conns
  BY <1>8 DEF DispatchOwn, DispatchWait, GivenUp, Crash, Parked, Served, Dropped, Elected, Tick, receiving
<1>9. QED
  BY <1>3, <1>4, <1>5, <1>6, <1>7, <1>8 DEF Step

\* The relay loop goes on with its queue, or without the head when it was acknowledged.
LEMMA ResumeKeeps ==
  ASSUME TypeInv, NEW r \in Runtimes, NEW q \in Seq(Events), NEW pool \in SUBSET conns,
         Resumes(r, q, pool), NEW i \in DOMAIN queue[r]
  PROVE  \/ \E k \in DOMAIN q : q[k] = queue[r][i]
         \/ Head(queue[r]) = queue[r][i] /\ \E c \in conns : c.from = r /\ c.st = "ok" /\ attempt[r] = c.n
<1>0. queue[r] \in Seq(Events) /\ queue[r] # <<>>
  BY TypeParts DEF SenderTypes
<1>1. CASE q = queue[r]
  BY <1>1
<1>2. ASSUME NEW c \in conns, c.from = r, c.st = "ok", attempt[r] = c.n, q = Tail(queue[r])
      PROVE  \/ \E k \in DOMAIN q : q[k] = queue[r][i]
             \/ Head(queue[r]) = queue[r][i] /\ \E b \in conns : b.from = r /\ b.st = "ok" /\ attempt[r] = b.n
  <2>1. CASE i = 1
    BY <1>0, <1>2, <2>1, TailFacts
  <2>2. CASE i # 1
    <3>1. i \in 1..Len(queue[r]) /\ Len(queue[r]) \in Nat
      BY <1>0, SeqFacts
    <3>2. DOMAIN q = 1..(Len(queue[r]) - 1) /\ \A k \in DOMAIN q : q[k] = queue[r][k + 1]
      BY <1>0, <1>2, TailFacts
    <3>3. i - 1 \in DOMAIN q /\ (i - 1) + 1 = i
      BY <2>2, <3>1, <3>2
    <3>4. q[i - 1] = queue[r][i]
      BY <3>2, <3>3
    <3>5. QED BY <3>3, <3>4
  <2>3. QED BY <2>1, <2>2
<1>3. QED
  BY <1>1, <1>2 DEF Resumes

\* How an event leaves its queue: it is acknowledged, processed, dropped or dies.
Leaves(r, e) ==
  \/ e \in gone'
  \/ Processed(r, e, Inline)
  \/ Head(queue[r]) = e /\ \E c \in conns : c.from = r /\ c.st = "ok" /\ attempt[r] = c.n
LEMMA QueueLeft ==
  ASSUME TypeInv, TypeInv', Step, NEW r \in Runtimes, NEW i \in DOMAIN queue[r],
         NEW e, e = queue[r][i]
  PROVE  Queued(e)' \/ Leaves(r, e)
<1>1. queue[r] # <<>> /\ i \in 1..Len(queue[r]) /\ Len(queue[r]) \in Nat
      /\ queue \in [Runtimes -> Seq(Events)] /\ queue[r] \in Seq(Events)
  <2>1. queue \in [Runtimes -> Seq(Events)]
    BY TypeParts DEF SenderTypes
  <2>2. queue[r] \in Seq(Events)
    BY <2>1
  <2>3. QED BY <2>1, <2>2, SeqFacts
<1>c. e = queue[r][i]
  OBVIOUS
<1>2. ASSUME NEW k \in DOMAIN queue'[r], queue'[r][k] = e PROVE Queued(e)' \/ Leaves(r, e)
  BY <1>2 DEF Queued
<1>3. ASSUME Head(queue[r]) = e, NEW c \in conns, c.from = r, c.st = "ok", attempt[r] = c.n
      PROVE  Leaves(r, e)
  BY <1>3 DEF Leaves
<1>4. ASSUME Processed(r, e, Inline) PROVE Leaves(r, e)
  BY <1>4 DEF Leaves
<1>5. ASSUME e \in gone' PROVE Queued(e)' \/ Leaves(r, e)
  BY <1>5 DEF Leaves
<1>6. ASSUME queue'[r] = queue[r] PROVE Queued(e)' \/ Leaves(r, e)
  BY <1>2, <1>6, <1>c
<1>7. ASSUME NEW s \in Runtimes, NEW q \in Seq(Events), NEW pool \in SUBSET conns,
             Resumes(s, q, pool), queue' = [queue EXCEPT ![s] = q]
      PROVE  Queued(e)' \/ Leaves(r, e)
  <2>1. CASE s = r
    <3>1. queue'[r] = q
      BY <1>1, <1>7, <2>1
    <3>2. \/ \E k \in DOMAIN q : q[k] = e
          \/ Head(queue[r]) = e /\ \E c \in conns : c.from = r /\ c.st = "ok" /\ attempt[r] = c.n
      BY <1>7, <1>c, <2>1, ResumeKeeps
    <3>3. QED BY <1>2, <1>3, <3>1, <3>2
  <2>2. CASE s # r
    BY <1>1, <1>6, <1>7, <2>2
  <2>3. QED BY <2>1, <2>2
<1>8. ASSUME NEW s \in Runtimes, NEW q \in Seq(Events), NEW pool \in SUBSET conns, Served(s, q, pool)
      PROVE  Queued(e)' \/ Leaves(r, e)
  <2>0. queue' = [queue EXCEPT ![s] = Tail(q)] /\ q # <<>> /\ Resumes(s, q, pool)
    BY <1>8 DEF Served
  <2>1. CASE s = r
    <3>1. queue'[r] = Tail(q)
      BY <1>1, <2>0, <2>1
    <3>2. \/ \E k \in DOMAIN q : q[k] = e
          \/ Head(queue[r]) = e /\ \E c \in conns : c.from = r /\ c.st = "ok" /\ attempt[r] = c.n
      BY <1>c, <2>0, <2>1, ResumeKeeps
    <3>3. ASSUME NEW k \in DOMAIN q, q[k] = e PROVE Queued(e)' \/ Leaves(r, e)
      <4>1. DOMAIN q = 1..Len(q) /\ Len(q) \in Nat /\ Head(q) = q[1]
            /\ DOMAIN Tail(q) = 1..(Len(q) - 1) /\ \A l \in DOMAIN Tail(q) : Tail(q)[l] = q[l + 1]
        BY <2>0, TailFacts
      <4>2. CASE k = 1
        <5>a. e = Head(q)
          BY <3>3, <4>1, <4>2
        <5>b. Processed(s, Head(q), Inline)
          BY <1>8, ServedProcessed
        <5>c. QED
          BY <1>4, <2>1, <5>a, <5>b
      <4>3. CASE k # 1
        <5>1. k - 1 \in DOMAIN Tail(q) /\ (k - 1) + 1 = k
          BY <4>1, <4>3
        <5>2. Tail(q)[k - 1] = e
          BY <3>3, <4>1, <5>1
        <5>3. QED BY <1>2, <3>1, <5>1, <5>2
      <4>4. QED BY <4>2, <4>3
    <3>4. QED BY <1>3, <3>2, <3>3
  <2>2. CASE s # r
    BY <1>1, <1>6, <2>0, <2>2
  <2>3. QED BY <2>1, <2>2
<1>9. ASSUME NEW s \in Runtimes, NEW q \in Seq(Events), NEW pool \in SUBSET conns,
             Parked(s, q, pool) \/ Opened(s, q, pool)
      PROVE  Queued(e)' \/ Leaves(r, e)
  BY <1>7, <1>9 DEF Parked, Opened
<1>10. ASSUME NEW s \in Runtimes, DispatchWait(s) PROVE Queued(e)' \/ Leaves(r, e)
  <2>0. Enqueue(s, Len(event) + 1) /\ Len(event) + 1 \in Events' /\ Events \subseteq Events'
    BY <1>10, NewEvent, EventsKept DEF DispatchWait
  <2>1. CASE s # r
    BY <1>1, <1>6, <2>0, <2>1 DEF Enqueue, Push, Evict
  <2>2. CASE s = r
    <3> DEFINE n == Len(event) + 1
    <3>1. \/ /\ \A k \in DOMAIN queue[r] : queue'[r][k] = queue[r][k]
             /\ Len(queue'[r]) = Len(queue[r]) + 1
          \/ /\ Len(queue'[r]) = Len(queue[r])
             /\ \A k \in 1..(Len(queue[r]) - 1) : queue'[r][k] = queue[r][k + 1]
             /\ gone' = gone \cup {Head(queue[r])}
      BY <2>0, <2>2, EnqueueFacts
    <3>2. DOMAIN queue'[r] = 1..Len(queue'[r])
      BY <2>0, <2>2, EnqueueFacts
    <3>3. CASE /\ \A k \in DOMAIN queue[r] : queue'[r][k] = queue[r][k]
               /\ Len(queue'[r]) = Len(queue[r]) + 1
      <4>1. i \in DOMAIN queue'[r] /\ queue'[r][i] = e
        BY <1>1, <1>c, <3>2, <3>3
      <4>2. QED BY <1>2, <4>1
    <3>4. CASE /\ Len(queue'[r]) = Len(queue[r])
               /\ \A k \in 1..(Len(queue[r]) - 1) : queue'[r][k] = queue[r][k + 1]
               /\ gone' = gone \cup {Head(queue[r])}
      <4>1. CASE i = 1
        <5>1. Head(queue[r]) = queue[r][1]
          BY <1>1, TailFacts
        <5>2. QED BY <1>5, <1>c, <3>4, <4>1, <5>1
      <4>2. CASE i # 1
        <5>1. i - 1 \in 1..(Len(queue[r]) - 1) /\ (i - 1) + 1 = i /\ i - 1 \in DOMAIN queue'[r]
          BY <1>1, <3>2, <3>4, <4>2
        <5>2. queue'[r][i - 1] = e
          BY <1>c, <3>4, <5>1
        <5>3. QED BY <1>2, <5>1, <5>2
      <4>3. QED BY <4>1, <4>2
    <3>5. QED BY <3>1, <3>3, <3>4
  <2>3. QED BY <2>1, <2>2
<1>11. ASSUME NEW s \in Runtimes, Crash(s) PROVE Queued(e)' \/ Leaves(r, e)
  <2>1. CASE s = r
    <3>1. e \in ToSet(queue[r])
      BY <1>c DEF ToSet
    <3>2. e \in gone'
      BY <1>11, <2>1, <3>1 DEF Crash
    <3>3. QED BY <1>5, <3>2
  <2>2. CASE s # r
    <3>1. queue'[r] = queue[r]
      BY <1>1, <1>11, <2>2 DEF Crash
    <3>2. QED BY <1>6, <3>1
  <2>3. QED BY <2>1, <2>2
<1>12. ASSUME \/ \E s \in Runtimes : DispatchOwn(s) \/ GivenUp(s)
              \/ \E c \in conns : Dropped(c) \/ Rejected(c) \/ Incoming(c)
              \/ \E j \in jobs : OwnerEventDone(j) \/ OwnerEventThrows(j)
              \/ Elected \/ Tick
       PROVE  queue' = queue
  BY <1>12 DEF DispatchOwn, GivenUp, GiveUp, Dropped, Rejected, Incoming, OwnerEventDone,
               OwnerEventThrows, Elected, Tick, sending
<1>13. QED
  BY <1>6, <1>8, <1>9, <1>10, <1>11, <1>12 DEF Step

\* An event that is dispatched is kept.
LEMMA NewKept ==
  ASSUME TypeInv, TypeInv', Step, Explained, NEW r \in Runtimes, DispatchOwn(r) \/ DispatchWait(r),
         NEW e, e = Len(event) + 1
  PROVE  Kept(e)'
<1>1. e \in Events' /\ event'[e].home = r /\ Caller \in 0..Inline
  BY NewEvent, Typing DEF Caller, Inline
<1>2. CASE DispatchOwn(r)
  <2>1. Processed(r, e, Caller)
    BY <1>2, NewEvent
  <2>2. Settled(e)' \/ \E j \in jobs' : j.ev = e /\ j.at = r
    BY <1>1, <2>1, ProcessedFate
  <2>3. Kept(e)'
    BY <1>1, <2>2 DEF Kept, AtHome
  <2>4. QED BY <2>3
<1>3. CASE DispatchWait(r)
  <2>1. Enqueue(r, e) /\ Events \subseteq Events'
    BY <1>3, EventsKept DEF DispatchWait
  <2>2. Len(queue'[r]) \in DOMAIN queue'[r] /\ queue'[r][Len(queue'[r])] = e
    BY <1>1, <2>1, EnqueueFacts
  <2>3. Queued(e)'
    BY <2>2 DEF Queued
  <2>4. Kept(e)'
    BY <2>3 DEF Kept
  <2>5. QED BY <2>4
<1>4. QED
  BY <1>2, <1>3

\* An event in a queue stays kept.
LEMMA QueuedKept ==
  ASSUME TypeInv, TypeInv', Step, QueueInv, KeptInv, NEW r \in Runtimes,
         NEW i \in DOMAIN queue[r], NEW e, e = queue[r][i]
  PROVE  Kept(e)'
<1>a. Explained /\ Awaited /\ Acknowledged
  BY DEF KeptInv
<1>1. e \in Events /\ event[e].home = r
  BY TypeParts, SeqFacts DEF SenderTypes, QueueInv
<1>b. event'[e].home = r /\ e \in Events' /\ Inline \in 0..Inline
  <2>1. event'[e] = event[e] /\ e \in Events'
    BY <1>1, EventsKept
  <2>2. Inline \in 0..Inline
    BY Typing DEF Inline
  <2>3. QED BY <1>1, <2>1, <2>2
<1>2. CASE Processed(r, e, Inline)
  <2>1. Settled(e)' \/ \E j \in jobs' : j.ev = e /\ j.at = r
    BY <1>2, <1>a, <1>b, ProcessedFate
  <2>2. QED BY <1>b, <2>1 DEF Kept, AtHome
<1>3. ASSUME Head(queue[r]) = e, NEW c \in conns, c.from = r, c.st = "ok", attempt[r] = c.n
      PROVE  Kept(e)'
  <2>1. r \in raced \/ (c.ev = e /\ Settled(c.ev))
    BY <1>3, <1>a DEF Awaited, Acknowledged
  <2>2. r \in raced' \/ Settled(e)'
    BY <1>1, <2>1, SettledGrows, HistoryGrows
  <2>3. QED BY <1>b, <2>2 DEF Kept
<1>4. QED
  BY <1>2, <1>3, QueueLeft DEF Leaves, Kept

\* Every event stays kept.
LEMMA KeptStep ==
  ASSUME TypeInv, TypeInv', Step, QueueInv, CallInv, KeptInv
  PROVE  KeptInv'
<1>a. Explained /\ Awaited /\ Acknowledged /\ \A e \in Events : Kept(e)
  BY DEF KeptInv
<1>1. Explained'
  BY <1>a, ExplainedStep
<1>2. Awaited'
  BY <1>a, AwaitedStep
<1>3. Acknowledged'
  BY <1>a, AcknowledgedStep
<1>4. ASSUME NEW e \in Events' PROVE Kept(e)'
  <2>1. CASE e \notin Events
    <3>1. PICK r \in Runtimes : DispatchOwn(r) \/ DispatchWait(r)
      <4>1. event' # event
        BY <2>1, <1>4 DEF Events
      <4>2. QED
        BY <4>1 DEF Step, GivenUp, Crash, Parked, Served, Opened, Dropped, Rejected, Incoming, Elsewhere,
                    OwnerEventDone, OwnerEventThrows, Elected, Tick
    <3>2. e = Len(event) + 1
      BY <1>4, <2>1, <3>1, NewEvent
    <3>3. QED
      BY <1>a, <3>1, <3>2, NewKept
  <2>2. CASE e \in Events /\ Queued(e)
    <3>r. PICK r \in Runtimes : \E i \in DOMAIN queue[r] : queue[r][i] = e
      BY <2>2 DEF Queued
    <3>1. PICK i \in DOMAIN queue[r] : queue[r][i] = e
      BY <3>r
    <3>2. QED
      BY <3>1, QueuedKept
  <2>3. CASE e \in Events /\ AtHome(e)
    <3>1. PICK j \in jobs : j.ev = e /\ j.at = event[e].home
      BY <2>3 DEF AtHome
    <3>2. event'[e] = event[e]
      BY <2>3, EventsKept
    <3>3. CASE j \in jobs'
      BY <3>1, <3>2, <3>3 DEF Kept, AtHome
    <3>4. CASE j.ev \in completed' \cup failed'
      BY <1>4, <3>1, <3>4, SettledItself DEF Kept
    <3>5. CASE j.at \in Runtimes /\ Crash(j.at)
      <4>1. j \in {i \in jobs : i.at = j.at /\ event[i.ev].home = j.at}
        BY <3>1
      <4>2. e \in gone'
        BY <3>1, <3>5, <4>1 DEF Crash
      <4>3. QED BY <4>2 DEF Kept
    <3>6. QED
      BY <3>3, <3>4, <3>5, JobsFate
  <2>4. CASE e \in Events /\ Settled(e)
    BY <2>4, SettledGrows DEF Kept
  <2>5. CASE e \in Events /\ (e \in gone \/ event[e].home \in raced)
    BY <2>5, HistoryGrows, EventsKept DEF Kept
  <2>6. QED
    BY <1>a, <2>1, <2>2, <2>3, <2>4, <2>5 DEF Kept
<1>5. QED
  BY <1>1, <1>2, <1>3, <1>4 DEF KeptInv

\* What the relay keeps, together.
KeptBase == OnceBase /\ KeptInv
LEMMA KeptBaseStep == KeptBase /\ [Next]_vars => KeptBase'
<1> SUFFICES ASSUME KeptBase, [Next]_vars PROVE KeptBase'
  OBVIOUS
<1>1. OnceBase /\ KeptInv
  BY DEF KeptBase
<1>2. OnceBase' /\ Step
  BY <1>1, OnceBaseStep
<1>3. TypeInv /\ QueueInv /\ CallInv /\ TypeInv'
  BY <1>1, <1>2 DEF OnceBase
<1>4. KeptInv'
  BY <1>1, <1>2, <1>3, KeptStep
<1>5. QED
  BY <1>2, <1>4 DEF KeptBase

\* An event that the relay no longer keeps has been processed or acknowledged, or left by
\* a door that is named: its process died, its queue was full, onOwnerEvent threw, or a
\* duplicate was acknowledged while the first call was under way: NothingLost.
THEOREM RelayKeeps == Spec => []NothingLost
<1>1. Init => KeptBase
  <2> SUFFICES ASSUME Init PROVE KeptBase
    OBVIOUS
  <2>1. OnceBase
    BY TypeInit, RepeatsInit DEF OnceBase
  <2>2. conns = {} /\ event = <<>> /\ \A r \in Runtimes : \A m \in Markers : seen[r][m] = 0
    BY DEF Init
  <2>3. Events = {}
    BY <2>2 DEF Events
  <2>4. ~ (0 > 0)
    OBVIOUS
  <2>5. KeptInv
    BY <2>2, <2>3, <2>4 DEF KeptInv, Explained, Awaited, Acknowledged
  <2>6. QED
    BY <2>1, <2>5 DEF KeptBase
<1>2. KeptBase => NothingLost
  <2> SUFFICES ASSUME KeptBase, NEW e \in Events
               PROVE  \/ Waits(e) \/ e \in gone \/ event[e].home \in raced
                      \/ \E f \in Events : SameContent(e, f) /\ f \in completed \cup failed \cup early
    BY DEF NothingLost
  <2>1. Kept(e) /\ QueueInv
    BY DEF KeptBase, KeptInv, OnceBase
  <2>2. CASE Queued(e)
    <3>r. PICK r \in Runtimes : \E i \in DOMAIN queue[r] : queue[r][i] = e
      BY <2>2 DEF Queued
    <3>1. PICK i \in DOMAIN queue[r] : queue[r][i] = e
      BY <3>r
    <3>2. event[e].home = r
      BY <2>1, <3>1 DEF QueueInv
    <3>3. Waits(e)
      BY <3>1, <3>2 DEF Waits, ToSet
    <3>4. QED BY <3>3
  <2>3. CASE AtHome(e)
    BY <2>3 DEF AtHome, Waits, SameContent
  <2>4. QED
    BY <2>1, <2>2, <2>3 DEF Kept, Settled
<1>3. QED
  BY <1>1, <1>2, KeptBaseStep, PTL DEF Spec

-----------------------------------------------------------------------------
(* What has been processed before what *)

\* What e says has been processed.
ContentStarted(e) == \E f \in Events : SameContent(e, f) /\ Started(f)

\* ... before f was, each time.
Covered(e, f) ==
  \A j \in DOMAIN log : log[j].ev = f =>
    \E i \in 1..j : \E g \in Events : g = log[i].ev /\ SameContent(e, g)

\* The dedupe markers, the answers and the connections tell what has been processed.
MarkersStarted ==
  \A r \in Runtimes : \A m \in Markers : seen[r][m] > 0 =>
    \E f \in Events : Marks(m, f) /\ ContentStarted(f)
Newest == \A c, d \in conns : attempt[c.from] = c.n /\ d.from = c.from => d.ev <= c.ev
AnsweredStarted == \A c \in conns : c.st \in {"busy", "ok"} => ContentStarted(c.ev)
ConnsHeld == \A c \in conns : c.ev \in gone \/ ContentStarted(c.ev) \/ Queued(c.ev)

\* Of two events of one runtime the younger is processed.
InOrder(e, f) ==
  e < f /\ event[e].home = event[f].home /\ Started(f) /\ e \notin gone /\ event[e].home \notin overtaken
    => ~Queued(e) /\ (Covered(e, f) \/ (~Started(e) /\ \A c \in conns : c.ev # e))
OrderInv ==
  /\ MarkersStarted /\ Newest /\ AnsweredStarted /\ ConnsHeld
  /\ \A e, f \in Events : InOrder(e, f)

\* What has been processed stays so.
LEMMA ContentGrows ==
  ASSUME TypeInv, TypeInv', Step, NEW e \in Events, ContentStarted(e)
  PROVE  ContentStarted(e)'
<1>1. PICK f \in Events : SameContent(e, f) /\ Started(f)
  BY DEF ContentStarted
<1>2. f \in Events' /\ SameContent(e, f)' /\ Started(f)'
  BY <1>1, ContentKept, EventsKept, LogGrows
<1>3. QED
  BY <1>2 DEF ContentStarted

\* What the receiver meets has been processed, now or before.
LEMMA ProcessedContent ==
  ASSUME TypeInv, TypeInv', Step, MarkersStarted, NEW r \in Runtimes, NEW e \in Events',
         NEW via \in 0..Inline, Processed(r, e, via)
  PROVE  ContentStarted(e)'
<1>1. CASE ~Known(r, e, event'[e].key)
  <2>1. Started(e)'
    BY <1>1, StartedFacts
  <2>2. QED BY <2>1 DEF ContentStarted, SameContent
<1>2. CASE Known(r, e, event'[e].key)
  <2>1. PICK m \in Markers : Marks(m, e)' /\ seen[r][m] > clock
    BY <1>2, SeenFacts
  <2>2. seen[r][m] > 0
    BY <2>1, LogTyping
  <2>3. PICK f \in Events : Marks(m, f) /\ ContentStarted(f)
    BY <2>2 DEF MarkersStarted
  <2>4. Marks(m, f)' /\ f \in Events' /\ ContentStarted(f)'
    BY <2>3, ContentKept, EventsKept, ContentGrows
  <2>5. SameContent(e, f)'
    <3>1. TypeInv' => MarkersTell'
      BY SameMarks, PTL
    <3>2. \A x, y \in Events' :
            SameContent(x, y)' <=> \E l \in Markers' : Marks(l, x)' /\ Marks(l, y)'
      BY <3>1 DEF MarkersTell
    <3>3. Markers' = Markers
      BY DEF Markers
    <3>4. QED
      BY <2>1, <2>4, <3>2, <3>3
  <2>6. PICK g \in Events' : SameContent(f, g)' /\ Started(g)'
    BY <2>4 DEF ContentStarted
  <2>7. SameContent(e, g)'
    BY <2>5, <2>6 DEF SameContent
  <2>8. QED
    BY <2>6, <2>7 DEF ContentStarted
<1>3. QED
  BY <1>1, <1>2

\* A marker is set for what has been processed.
LEMMA MarkersStep ==
  ASSUME TypeInv, TypeInv', Step, MarkersStarted
  PROVE  MarkersStarted'
<1>1. SUFFICES ASSUME NEW r \in Runtimes, NEW m \in Markers, seen'[r][m] > 0
               PROVE  \E f \in Events' : Marks(m, f)' /\ ContentStarted(f)'
  BY DEF MarkersStarted, Markers
<1>2. ASSUME seen[r][m] > 0 PROVE \E f \in Events' : Marks(m, f)' /\ ContentStarted(f)'
  <2>1. PICK f \in Events : Marks(m, f) /\ ContentStarted(f)
    BY <1>2 DEF MarkersStarted
  <2>2. QED
    BY <2>1, ContentKept, EventsKept, ContentGrows
<1>3. seen[r][m] \in Nat /\ clock \in Nat
  BY LogTyping
<1>4. ASSUME NEW s \in Runtimes, NEW e \in Events', NEW via \in 0..Inline, Processed(s, e, via)
      PROVE  \E f \in Events' : Marks(m, f)' /\ ContentStarted(f)'
  <2>1. CASE r # s
    BY <1>1, <1>2, <1>4, <2>1, SeenFacts
  <2>2. CASE r = s /\ seen[r][m] > clock
    BY <1>2, <1>3, <2>2
  <2>3. CASE r = s /\ Marks(m, e)'
    BY <1>4, <2>3, ProcessedContent
  <2>4. QED
    BY <1>1, <1>4, <2>1, <2>2, <2>3, SeenFacts
<1>5. ASSUME NEW s \in Runtimes, Crash(s) PROVE \E f \in Events' : Marks(m, f)' /\ ContentStarted(f)'
  <2>1. seen'[r] = seen[r] \/ seen'[r][m] = 0
    BY <1>5, TypeParts DEF Crash, CallTypes
  <2>2. QED BY <1>1, <1>2, <2>1
<1>6. CASE Quiet \/ Tick
  <2>1. seen' = seen
    BY <1>6 DEF Quiet, Tick, receiving
  <2>2. QED BY <1>1, <1>2, <2>1
<1>7. QED
  BY <1>4, <1>5, <1>6, ReceiverCases

\* No connection of a runtime carries a younger event than the one whose answer it awaits.
LEMMA NewestStep ==
  ASSUME TypeInv, TypeInv', Step, QueueInv', Newest
  PROVE  Newest'
<1>0. \A c, d \in conns : attempt[c.from] = c.n /\ d.from = c.from => d.ev <= c.ev
  BY DEF Newest
<1>a. /\ \A c \in conns : Conn(c)
      /\ queue \in [Runtimes -> Seq(Events)] /\ DOMAIN attempt = Runtimes
  BY Typing, TypeParts DEF SenderTypes
<1>1. ASSUME NEW r \in Runtimes, NEW q \in Seq(Events), NEW pool \in SUBSET conns, Opened(r, q, pool)
      PROVE  Newest'
  <2>1. conns' = pool \cup {NewConn(r, q, pool)} /\ attempt'[r] = FreeNumber(pool) /\ queue'[r] = q
        /\ q # <<>> /\ \A s \in Runtimes : s # r => attempt'[s] = attempt[s]
    BY <1>1, <1>a DEF Opened
  <2>2. \A c \in pool : c.n # FreeNumber(pool)
    <3>1. Numbered(pool) /\ Cardinality(pool) < MaxConns
      BY <1>1 DEF TypeInv, Numbered, Opened
    <3>2. QED BY <3>1, FreeFacts
  <2>3. SUFFICES ASSUME NEW c \in conns', NEW d \in conns', attempt'[c.from] = c.n, d.from = c.from
                 PROVE  d.ev <= c.ev
    BY DEF Newest
  <2>4. CASE c = NewConn(r, q, pool)
    <3>1. c.ev = q[1] /\ d.from = r /\ 1 \in DOMAIN queue'[r]
      BY <2>1, <2>3, <2>4, TailFacts DEF NewConn
    <3>2. d.ev <= queue'[r][1]
      BY <3>1 DEF QueueInv
    <3>3. QED BY <2>1, <3>1, <3>2
  <2>5. CASE c # NewConn(r, q, pool)
    <3>1. c \in pool /\ c \in conns /\ c.from \in Runtimes /\ c.from # r
      BY <1>a, <2>1, <2>2, <2>3, <2>5 DEF Conn
    <3>2. d \in conns
      BY <2>1, <2>3, <3>1 DEF NewConn
    <3>3. QED BY <1>0, <2>1, <2>3, <3>1, <3>2
  <2>6. QED BY <2>4, <2>5
<1>2. ASSUME \A d \in conns' : \E b \in conns : Same(b, d),
             \A s \in Runtimes : attempt'[s] = 0 \/ attempt'[s] = attempt[s]
      PROVE  Newest'
  <2>1. SUFFICES ASSUME NEW c \in conns', NEW d \in conns', attempt'[c.from] = c.n, d.from = c.from
                 PROVE  d.ev <= c.ev
    BY DEF Newest
  <2>2. PICK b \in conns : Same(b, c)
    BY <1>2
  <2>3. PICK g \in conns : Same(g, d)
    BY <1>2
  <2>4. b.n # 0 /\ b.from \in Runtimes /\ b.n = c.n /\ b.from = c.from /\ b.ev = c.ev
        /\ g.from = d.from /\ g.ev = d.ev
    BY <1>a, <2>2, <2>3 DEF Conn, Same
  <2>5. attempt[b.from] = b.n
    BY <1>2, <2>1, <2>4
  <2>6. QED BY <1>0, <2>1, <2>4, <2>5
<1>3. ASSUME NEW r \in Runtimes, NEW q \in Seq(Events), NEW pool \in SUBSET conns,
             Parked(r, q, pool) \/ Served(r, q, pool)
      PROVE  conns' \subseteq conns /\ \A s \in Runtimes : attempt'[s] = 0 \/ attempt'[s] = attempt[s]
  BY <1>3, <1>a DEF Parked, Served
<1>4. ASSUME NEW r \in Runtimes, GivenUp(r) \/ Crash(r)
      PROVE  conns' \subseteq conns /\ \A s \in Runtimes : attempt'[s] = 0 \/ attempt'[s] = attempt[s]
  BY <1>4, <1>a DEF GivenUp, GiveUp, Crash
<1>5. ASSUME \/ \E r \in Runtimes : DispatchOwn(r) \/ DispatchWait(r)
             \/ \E c \in conns : Dropped(c)
             \/ Elected \/ Tick
      PROVE  conns' \subseteq conns /\ attempt' = attempt
  BY <1>5 DEF DispatchOwn, DispatchWait, Dropped, Elected, Tick, receiving, sending
<1>6. ASSUME conns' \subseteq conns, \A s \in Runtimes : attempt'[s] = 0 \/ attempt'[s] = attempt[s]
      PROVE  Newest'
  BY <1>2, <1>6 DEF Same
<1>7. ASSUME NEW c \in conns, Rejected(c) \/ Incoming(c) PROVE Newest'
  <2>1. PICK st \in {"busy", "ok", "refused"} : Answers(c, st)
    BY <1>7 DEF Rejected, Incoming
  <2>2. Moved(c, st) /\ attempt' = attempt
    BY <1>7, <2>1, AnswersFacts DEF Rejected, Incoming
  <2>3. QED BY <1>2, <2>2 DEF Moved
<1>8. ASSUME NEW j \in jobs, OwnerEventDone(j) \/ OwnerEventThrows(j) PROVE Newest'
  <2>1. PICK st \in {"ok", "refused"} : Answered(j, st)
    BY <1>8 DEF OwnerEventDone, OwnerEventThrows
  <2>2. attempt' = attempt
    BY <1>8 DEF OwnerEventDone, OwnerEventThrows, sending
  <2>3. \A d \in conns' : \E b \in conns : Same(b, d)
    BY <2>1, AnsweredFacts
  <2>4. QED BY <1>2, <2>2, <2>3
<1>9. QED
  BY <1>1, <1>3, <1>4, <1>5, <1>6, <1>7, <1>8 DEF Step

\* A connection is accepted when what it carries has been processed.
LEMMA AnsweredStep ==
  ASSUME TypeInv, TypeInv', Step, CallInv, MarkersStarted, AnsweredStarted
  PROVE  AnsweredStarted'
<1>0. \A c \in conns : c.st \in {"busy", "ok"} => ContentStarted(c.ev)
  BY DEF AnsweredStarted
<1>a. \A c \in conns : Conn(c)
  BY Typing
<1>1. SUFFICES ASSUME NEW d \in conns', d.st \in {"busy", "ok"} PROVE ContentStarted(d.ev)'
  BY DEF AnsweredStarted
<1>2. ASSUME NEW b \in conns, Same(b, d), b.st \in {"busy", "ok"} PROVE ContentStarted(d.ev)'
  <2>1. b.ev \in Events /\ ContentStarted(b.ev) /\ b.ev = d.ev
    BY <1>0, <1>a, <1>2 DEF Conn, Same
  <2>2. ContentStarted(b.ev)'
    BY <2>1, ContentGrows
  <2>3. QED BY <2>1, <2>2
<1>3. CASE d \in conns
  BY <1>1, <1>2, <1>3 DEF Same
<1>4. ASSUME NEW c \in conns, Rejected(c) PROVE ContentStarted(d.ev)'
  <2>1. Moved(c, "refused")
    BY <1>4, AnswersFacts DEF Rejected
  <2>2. QED BY <1>1, <1>2, <2>1 DEF Moved
<1>5. ASSUME NEW c \in conns, Incoming(c) PROVE ContentStarted(d.ev)'
  <2>1. PICK st \in {"busy", "ok"} : Answers(c, st)
    BY <1>5 DEF Incoming
  <2>2. Moved(c, st)
    BY <2>1, AnswersFacts
  <2>3. PICK b \in conns : Same(b, d) /\ d.st = IF b = c THEN st ELSE b.st
    BY <2>2 DEF Moved
  <2>4. CASE b = c
    <3>1. c.ev \in Events' /\ Processed(c.to, c.ev, c.n) /\ c.to \in Runtimes /\ c.n \in 0..Inline
      BY <1>5, <1>a, IncomingProcessed, Typing DEF Conn, Inline
    <3>2. ContentStarted(c.ev)'
      BY <3>1, ProcessedContent
    <3>3. d.ev = c.ev
      BY <2>3, <2>4 DEF Same
    <3>4. QED BY <3>2, <3>3
  <2>5. CASE b # c
    BY <1>1, <1>2, <2>3, <2>5
  <2>6. QED BY <2>4, <2>5
<1>6. ASSUME NEW j \in jobs, OwnerEventDone(j) \/ OwnerEventThrows(j) PROVE ContentStarted(d.ev)'
  <2>1. PICK st \in {"ok", "refused"} : Answered(j, st)
    BY <1>6 DEF OwnerEventDone, OwnerEventThrows
  <2>2. PICK b \in conns : Same(b, d) /\ d.st = IF b.n = j.via THEN st ELSE b.st
    BY <2>1, AnsweredFacts
  <2>3. CASE b.n = j.via
    <3>1. j.via \in 1..MaxConns
      BY <1>a, <2>3 DEF Conn
    <3>2. PICK c \in conns : c.n = j.via /\ c.st = "busy"
      BY <3>1 DEF CallInv
    <3>3. c = b
      BY <2>3, <3>2 DEF TypeInv, Numbered
    <3>4. QED BY <1>2, <2>2, <3>2, <3>3
  <2>4. CASE b.n # j.via
    BY <1>1, <1>2, <2>2, <2>4
  <2>5. QED BY <2>3, <2>4
<1>7. ASSUME NEW r \in Runtimes, NEW q \in Seq(Events), NEW pool \in SUBSET conns, Opened(r, q, pool)
      PROVE  d \in conns
  BY <1>1, <1>7 DEF Opened, NewConn
<1>8. ASSUME \/ \E r \in Runtimes : DispatchOwn(r) \/ DispatchWait(r) \/ GivenUp(r) \/ Crash(r)
             \/ \E r \in Runtimes : \E q \in Seq(Events), pool \in SUBSET conns :
                  Parked(r, q, pool) \/ Served(r, q, pool)
             \/ \E c \in conns : Dropped(c)
             \/ Elected \/ Tick
      PROVE  d \in conns
  BY <1>8 DEF DispatchOwn, DispatchWait, GivenUp, Crash, Parked, Served, Dropped, Elected, Tick, receiving
<1>9. QED
  BY <1>3, <1>4, <1>5, <1>6, <1>7, <1>8 DEF Step

\* What a connection carries waits in its queue until it has been processed.
LEMMA HeldStep ==
  ASSUME TypeInv, TypeInv', Step, QueueInv, MarkersStarted, Newest, AnsweredStarted, ConnsHeld
  PROVE  ConnsHeld'
<1>a. \A c \in conns : Conn(c)
  BY Typing
<1>1. SUFFICES ASSUME NEW d \in conns'
               PROVE  d.ev \in gone' \/ ContentStarted(d.ev)' \/ Queued(d.ev)'
  BY DEF ConnsHeld
<1>2. ASSUME NEW b \in conns, Same(b, d) PROVE d.ev \in gone' \/ ContentStarted(d.ev)' \/ Queued(d.ev)'
  <2>1. b.ev = d.ev /\ b.ev \in Events /\ event[b.ev].home = b.from
    BY <1>a, <1>2 DEF Conn, Same, QueueInv
  <2>2. CASE b.ev \in gone
    BY <2>1, <2>2, HistoryGrows
  <2>3. CASE ContentStarted(b.ev)
    <3>1. ContentStarted(b.ev)'
      BY <2>1, <2>3, ContentGrows
    <3>2. QED BY <2>1, <3>1
  <2>4. CASE Queued(b.ev)
    <3>r. PICK r \in Runtimes : \E i \in DOMAIN queue[r] : queue[r][i] = d.ev
      BY <2>1, <2>4 DEF Queued
    <3>1. PICK i \in DOMAIN queue[r] : queue[r][i] = d.ev
      BY <3>r
    <3>2. r = b.from
      BY <2>1, <3>1 DEF QueueInv
    <3>3. CASE Processed(r, d.ev, Inline)
      <4>1. d.ev \in Events' /\ Inline \in 0..Inline
        BY <2>1, EventsKept, Typing, SMTT(30) DEF Inline
      <4>2. ContentStarted(d.ev)'
        BY <3>3, <4>1, ProcessedContent
      <4>3. QED BY <4>2
    <3>4. ASSUME Head(queue[r]) = d.ev, NEW c \in conns, c.from = r, c.st = "ok", attempt[r] = c.n
          PROVE  ContentStarted(d.ev)'
      <4>1. b.ev <= c.ev
        BY <3>2, <3>4 DEF Newest
      <4>2. c.ev <= queue[r][i]
        BY <3>1, <3>4 DEF QueueInv
      <4>3. b.ev \in Nat /\ c.ev \in Nat
        BY <1>a, <2>1, Typing, SMTT(30) DEF Conn
      <4>4. c.ev = d.ev
        BY <2>1, <3>1, <4>1, <4>2, <4>3
      <4>5. ContentStarted(d.ev)
        BY <3>4, <4>4 DEF AnsweredStarted
      <4>6. QED BY <2>1, <4>5, ContentGrows
    <3>5. QED
      BY <3>1, <3>3, <3>4, QueueLeft DEF Leaves
  <2>5. QED
    BY <2>2, <2>3, <2>4 DEF ConnsHeld
<1>3. ASSUME NEW r \in Runtimes, NEW q \in Seq(Events), NEW pool \in SUBSET conns,
             Opened(r, q, pool), d = NewConn(r, q, pool)
      PROVE  Queued(d.ev)'
  <2>1. queue'[r] = q /\ q # <<>> /\ d.ev = q[1] /\ 1 \in DOMAIN q
    BY <1>3, TypeParts, TailFacts DEF Opened, NewConn, SenderTypes
  <2>2. QED BY <2>1 DEF Queued
<1>4. QED
  BY <1>2, <1>3, ConnCases

\* What was covered stays so, also when f is processed again.
LEMMA CoveredKept ==
  ASSUME TypeInv, TypeInv', Step, NEW e \in Events, NEW f \in Events, Covered(e, f), Started(f)
  PROVE  Covered(e, f)'
<1>0. DOMAIN log = 1..Len(log) /\ Len(log) \in Nat
  BY LogTyping
<1>a. Events \subseteq Events' /\ \A g \in Events : SameContent(e, g)' <=> SameContent(e, g)
  BY EventsKept, ContentKept
<1>b. \A i \in DOMAIN log : i \in DOMAIN log' /\ log'[i] = log[i]
  BY LogGrows
<1>1. SUFFICES ASSUME NEW j \in DOMAIN log', log'[j].ev = f
               PROVE  \E i \in 1..j : \E g \in Events' : g = log'[i].ev /\ SameContent(e, g)'
  BY DEF Covered
<1>2. \E k \in DOMAIN log : log[k].ev = f /\ k <= j
  <2>1. CASE j \in DOMAIN log
    BY <1>0, <1>1, <1>b, <2>1
  <2>2. CASE j \notin DOMAIN log
    <3>1. PICK k \in DOMAIN log : log[k].ev = f
      BY DEF Started
    <3>2. DOMAIN log' = 1..Len(log')
      <4>1. TypeInv' => log' \in Seq(Entry)'
        BY DEF TypeInv, Entry
      <4>2. QED BY <4>1
    <3>3. QED BY <1>0, <2>2, <3>1, <3>2
  <2>3. QED BY <2>1, <2>2
<1>3. PICK k \in DOMAIN log : log[k].ev = f /\ k <= j
  BY <1>2
<1>4. PICK i \in 1..k : \E g \in Events : g = log[i].ev /\ SameContent(e, g)
  BY <1>3 DEF Covered
<1>5. i \in 1..j /\ i \in DOMAIN log /\ log'[i] = log[i]
  <2>1. DOMAIN log' \subseteq Nat
    <3>1. TypeInv' => log' \in Seq(Entry)'
      BY DEF TypeInv, Entry
    <3>2. QED BY <3>1
  <2>2. QED BY <1>0, <1>3, <1>b, <2>1
<1>6. QED
  BY <1>4, <1>5, <1>a

\* The first call for f covers what has been processed by then.
LEMMA CoveredFirst ==
  ASSUME TypeInv, TypeInv', Step, NEW e \in Events', NEW f \in Events', ContentStarted(e)', ~Started(f)
  PROVE  Covered(e, f)'
<1>0. DOMAIN log = 1..Len(log) /\ Len(log) \in Nat
  BY LogTyping
<1>1. SUFFICES ASSUME NEW j \in DOMAIN log', log'[j].ev = f
               PROVE  \E i \in 1..j : \E g \in Events' : g = log'[i].ev /\ SameContent(e, g)'
  BY DEF Covered
<1>2. j \notin DOMAIN log
  BY <1>1, LogGrows DEF Started
<1>3. DOMAIN log' = 1..(Len(log) + 1)
  BY <1>2, LogGrows, LogFacts
<1>4. PICK g \in Events' : SameContent(e, g)' /\ Started(g)'
  BY DEF ContentStarted
<1>5. PICK i \in DOMAIN log' : log'[i].ev = g
  BY <1>4 DEF Started
<1>6. i \in 1..j
  BY <1>0, <1>2, <1>3, <1>5
<1>7. QED
  BY <1>4, <1>5, <1>6

\* The first call of onOwnerEvent for an event.
LEMMA FirstCall ==
  ASSUME TypeInv, TypeInv', Step, NEW f, Started(f)', ~Started(f)
  PROVE  \/ \E r \in Runtimes : DispatchOwn(r) /\ f = Len(event) + 1
         \/ \E r \in Runtimes, q \in Seq(Events), pool \in SUBSET conns : Served(r, q, pool) /\ f = Head(q)
         \/ \E c \in conns : Incoming(c) /\ f = c.ev
<1>1. log' # log
  BY DEF Started
<1>2. Inline \in 0..Inline /\ Caller \in 0..Inline /\ \A c \in conns : c.n \in 0..Inline /\ c.to \in Runtimes
  BY Typing DEF Inline, Caller, Conn
<1>3. ASSUME NEW r \in Runtimes, DispatchOwn(r) PROVE f = Len(event) + 1
  <2>1. Len(event) + 1 \in Events' /\ Processed(r, Len(event) + 1, Caller)
    BY <1>3, NewEvent
  <2>2. QED BY <1>2, <2>1, StartedFacts
<1>4. ASSUME NEW r \in Runtimes, NEW q \in Seq(Events), NEW pool \in SUBSET conns, Served(r, q, pool)
      PROVE  f = Head(q)
  <2>1. Head(q) \in Events' /\ Processed(r, Head(q), Inline)
    BY <1>4, ServedProcessed
  <2>2. QED BY <1>2, <2>1, StartedFacts
<1>5. ASSUME NEW c \in conns, Incoming(c) PROVE f = c.ev
  <2>1. c.ev \in Events' /\ Processed(c.to, c.ev, c.n)
    BY <1>5, IncomingProcessed
  <2>2. QED BY <1>2, <2>1, StartedFacts
<1>6. (\E r \in Runtimes : DispatchOwn(r)) \/ (\E c \in conns : Incoming(c))
        \/ \E r \in Runtimes, q \in Seq(Events), pool \in SUBSET conns : Served(r, q, pool)
  BY <1>1 DEF Step, DispatchWait, GivenUp, Crash, Parked, Opened, Dropped, Rejected, NoCall, OwnerEventDone,
              OwnerEventThrows, Elected, Tick, history
<1>7. QED
  BY <1>3, <1>4, <1>5, <1>6

\* No old event comes into a queue.
LEMMA QueuedBefore ==
  ASSUME TypeInv, TypeInv', Step, NEW e \in Events, Queued(e)'
  PROVE  Queued(e)
<1>r. PICK r \in Runtimes : \E i \in DOMAIN queue'[r] : queue'[r][i] = e
  BY DEF Queued
<1>1. PICK i \in DOMAIN queue'[r] : queue'[r][i] = e
  BY <1>r
<1>2. CASE DispatchWait(r)
  <2>1. e # Len(event) + 1
    BY <1>2, NewEvent
  <2>2. \E k \in DOMAIN queue[r] : queue'[r][i] = queue[r][k]
    BY <1>1, <1>2, <2>1, WaitElements
  <2>3. QED BY <1>1, <2>2 DEF Queued
<1>3. ASSUME NEW n \in Nat, Suffix(queue'[r], queue[r], n) PROVE Queued(e)
  BY <1>1, <1>3 DEF Suffix, Queued
<1>4. QED
  BY <1>2, <1>3, QueueCases

\* What the relay loop goes on with was queued.
LEMMA HeadQueued ==
  ASSUME TypeInv, NEW r \in Runtimes, NEW q \in Seq(Events), NEW pool \in SUBSET conns,
         Resumes(r, q, pool), q # <<>>
  PROVE  Queued(Head(q))
<1>1. PICK n \in Nat : Suffix(q, queue[r], n)
  BY ResumeSuffix
<1>2. 1 \in DOMAIN q /\ Head(q) = q[1]
  BY TailFacts
<1>3. QED
  BY <1>1, <1>2 DEF Suffix, Queued

\* The younger event is processed for the first time: no older one waits any more.
LEMMA FirstInOrder ==
  ASSUME TypeInv, TypeInv', Step, QueueInv, QueueInv', ConnsHeld, ConnsHeld', NEW e \in Events,
         NEW f \in Events', e < f, event'[e].home = event'[f].home, Started(f)', ~Started(f),
         e \notin gone', event'[e].home \notin overtaken'
  PROVE  ~Queued(e)'
<1>0. event'[e] = event[e] /\ \A x \in Events' : x \in Nat
  <2>1. Events' = 1..Len(event') /\ Len(event') \in Nat
    BY EventsKept, SeqFacts DEF Events
  <2>2. QED BY <2>1, EventsKept
<1>1. ASSUME NEW r \in Runtimes, DispatchOwn(r), f = Len(event) + 1 PROVE ~Queued(e)'
  <2>1. event[e].home = r
    BY <1>0, <1>1, NewEvent
  <2>2. queue' = queue /\ queue[r] = <<>>
    BY <1>0, <1>1, <2>1 DEF DispatchOwn
  <2>3. ~Queued(e)
    <3>1. SUFFICES ASSUME NEW s \in Runtimes, NEW i \in DOMAIN queue[s], queue[s][i] = e PROVE FALSE
      BY DEF Queued
    <3>2. s = r
      BY <2>1, <3>1 DEF QueueInv
    <3>3. QED BY <2>2, <3>1, <3>2
  <2>4. QED BY <2>3, QueuedBefore
<1>2. ASSUME NEW r \in Runtimes, NEW q \in Seq(Events), NEW pool \in SUBSET conns, Served(r, q, pool),
             f = Head(q)
      PROVE  ~Queued(e)'
  <2>0. queue'[r] = Tail(q) /\ q # <<>> /\ Resumes(r, q, pool)
    BY <1>2, TypeParts DEF Served, SenderTypes
  <2>1. PICK n \in Nat : Suffix(q, queue[r], n)
    BY <2>0, ResumeSuffix
  <2>2. DOMAIN q = 1..Len(q) /\ Len(q) \in Nat /\ 1 \in DOMAIN q /\ f = q[1]
        /\ \A k \in DOMAIN Tail(q) : k + 1 \in DOMAIN q /\ Tail(q)[k] = q[k + 1]
        /\ DOMAIN Tail(q) = 1..(Len(q) - 1)
    BY <1>2, <2>0, TailFacts
  <2>3. \A k \in DOMAIN Tail(q) : f < Tail(q)[k]
    <3>1. SUFFICES ASSUME NEW k \in DOMAIN Tail(q) PROVE f < Tail(q)[k]
      OBVIOUS
    <3>2. 1 + n \in DOMAIN queue[r] /\ (k + 1) + n \in DOMAIN queue[r] /\ 1 + n < (k + 1) + n
          /\ f = queue[r][1 + n] /\ Tail(q)[k] = queue[r][(k + 1) + n]
      BY <2>1, <2>2 DEF Suffix
    <3>3. QED BY <3>2 DEF QueueInv
  <2>4. event[f].home = r
    BY <2>1, <2>2 DEF Suffix, QueueInv
  <2>5. event'[f].home = r
    BY <1>2, <2>4, TailFacts, <2>0, EventsKept
  <2>6. SUFFICES ASSUME NEW s \in Runtimes, NEW i \in DOMAIN queue'[s], queue'[s][i] = e PROVE FALSE
    BY DEF Queued
  <2>7. s = r
    BY <2>5, <2>6 DEF QueueInv
  <2>8. f < e
    BY <2>0, <2>3, <2>6, <2>7
  <2>9. QED BY <1>0, <2>8, EventsKept
<1>3. ASSUME NEW c \in conns, Incoming(c), f = c.ev PROVE ~Queued(e)'
  <2>1. queue' = queue /\ c.ev \in Events /\ event[c.ev].home = c.from
    BY <1>3, IncomingProcessed DEF Incoming, QueueInv
  <2>2. event[e].home = c.from
    BY <1>0, <1>3, <2>1, EventsKept
  <2>3. ~Queued(e)
    <3>1. SUFFICES ASSUME NEW s \in Runtimes, NEW i \in DOMAIN queue[s], queue[s][i] = e PROVE FALSE
      BY DEF Queued
    <3>2. s = c.from
      BY <2>2, <3>1 DEF QueueInv
    <3>3. f <= e
      BY <1>3, <3>1, <3>2 DEF QueueInv
    <3>4. QED BY <1>0, <3>3, EventsKept
  <2>4. QED BY <2>3, QueuedBefore
<1>4. QED
  BY <1>1, <1>2, <1>3, FirstCall

\* The order of two events is kept.
LEMMA InOrderStep ==
  ASSUME TypeInv, TypeInv', Step, QueueInv, QueueInv', OrderInv, ConnsHeld', NEW e \in Events', NEW f \in Events'
  PROVE  InOrder(e, f)'
<1>a. ConnsHeld /\ \A x, y \in Events : InOrder(x, y)
  BY DEF OrderInv
<1>1. SUFFICES ASSUME e < f, event'[e].home = event'[f].home, Started(f)', e \notin gone',
                      event'[e].home \notin overtaken'
               PROVE  ~Queued(e)' /\ (Covered(e, f)' \/ (~Started(e)' /\ \A c \in conns' : c.ev # e))
  BY DEF InOrder
<1>2. e \in Events
  <2>1. SUFFICES ASSUME e \notin Events PROVE FALSE
    OBVIOUS
  <2>2. PICK r \in Runtimes : DispatchOwn(r) \/ DispatchWait(r)
    <3>1. event' # event
      BY <2>1 DEF Events
    <3>2. QED
      BY <3>1 DEF Step, GivenUp, Crash, Parked, Served, Opened, Dropped, Rejected, Incoming, Elsewhere,
                  OwnerEventDone, OwnerEventThrows, Elected, Tick
  <2>3. e = Len(event) + 1 /\ (f \in Events => f < e) /\ (f \in Events \/ f = e)
    BY <2>1, <2>2, NewEvent
  <2>4. e \in Nat /\ f \in Nat
    <3>1. Events' = 1..Len(event') /\ Len(event') \in Nat
      BY EventsKept, SeqFacts DEF Events
    <3>2. QED BY <3>1
  <2>5. QED BY <1>1, <2>3, <2>4
<1>3. CASE Started(f)
  <2>1. f \in Events
    BY <1>3, LogTyping DEF Started
  <2>2. e \notin gone /\ event[e].home = event[f].home /\ event[e].home \notin overtaken
    BY <1>1, <1>2, <2>1, EventsKept, HistoryGrows
  <2>3. ~Queued(e) /\ (Covered(e, f) \/ (~Started(e) /\ \A c \in conns : c.ev # e))
    BY <1>1, <1>2, <1>3, <1>a, <2>1, <2>2 DEF InOrder
  <2>4. ~Queued(e)'
    BY <1>2, <2>3, QueuedBefore
  <2>5. CASE Covered(e, f)
    BY <1>2, <1>3, <2>1, <2>4, <2>5, CoveredKept
  <2>6. CASE ~Started(e) /\ \A c \in conns : c.ev # e
    <3>1. ASSUME NEW r \in Runtimes, NEW q \in Seq(Events), NEW pool \in SUBSET conns,
                 Served(r, q, pool) \/ Opened(r, q, pool)
          PROVE  e # Head(q)
      BY <2>3, <3>1, HeadQueued DEF Served, Opened
    <3>2. ~Started(e)'
      <4>1. \A r \in Runtimes : DispatchOwn(r) => e # Len(event) + 1
        BY <1>2, NewEvent
      <4>2. QED BY <2>6, <3>1, <4>1, FirstCall
    <3>3. \A c \in conns' : c.ev # e
      <4>1. SUFFICES ASSUME NEW c \in conns' PROVE c.ev # e
        OBVIOUS
      <4>2. ASSUME NEW b \in conns, Same(b, c) PROVE c.ev # e
        BY <2>6, <4>2 DEF Same
      <4>3. ASSUME NEW r \in Runtimes, NEW q \in Seq(Events), NEW pool \in SUBSET conns,
                   Opened(r, q, pool), c = NewConn(r, q, pool)
            PROVE  c.ev # e
        BY <3>1, <4>3 DEF NewConn
      <4>4. QED BY <4>2, <4>3, ConnCases
    <3>4. QED BY <2>4, <3>2, <3>3
  <2>7. QED BY <2>3, <2>5, <2>6
<1>4. CASE ~Started(f)
  <2>1. ~Queued(e)'
    BY <1>1, <1>2, <1>4, <1>a, FirstInOrder
  <2>2. CASE ContentStarted(e)'
    BY <1>4, <2>1, <2>2, CoveredFirst
  <2>3. CASE ~ContentStarted(e)'
    <3>1. ~Started(e)'
      BY <2>3 DEF ContentStarted, SameContent
    <3>2. \A c \in conns' : c.ev # e
      BY <1>1, <2>1, <2>3 DEF ConnsHeld
    <3>3. QED BY <2>1, <3>1, <3>2
  <2>4. QED BY <2>2, <2>3
<1>5. QED
  BY <1>3, <1>4

\* The order, together with what it rests on.
OrderBase == OnceBase /\ OrderInv
LEMMA OrderBaseStep == OrderBase /\ [Next]_vars => OrderBase'
<1> SUFFICES ASSUME OrderBase, [Next]_vars PROVE OrderBase'
  OBVIOUS
<1>1. OnceBase /\ OrderInv
  BY DEF OrderBase
<1>2. OnceBase' /\ Step
  BY <1>1, OnceBaseStep
<1>3. TypeInv /\ QueueInv /\ CallInv /\ TypeInv' /\ QueueInv'
  BY <1>1, <1>2 DEF OnceBase
<1>4. MarkersStarted /\ Newest /\ AnsweredStarted /\ ConnsHeld
  BY <1>1 DEF OrderInv
<1>5. MarkersStarted'
  BY <1>2, <1>3, <1>4, MarkersStep
<1>6. Newest'
  BY <1>2, <1>3, <1>4, NewestStep
<1>7. AnsweredStarted'
  BY <1>2, <1>3, <1>4, AnsweredStep
<1>8. ConnsHeld'
  BY <1>2, <1>3, <1>4, HeldStep
<1>9. \A e, f \in Events' : InOrder(e, f)'
  BY <1>1, <1>2, <1>3, <1>8, InOrderStep
<1>10. QED
  BY <1>2, <1>5, <1>6, <1>7, <1>8, <1>9 DEF OrderBase, OrderInv

\* When an event of a runtime is processed, no older one of it waits, and an older one
\* that is ever processed says what had been processed by then, unless a new owner
\* processed what it dispatched before its queue: InOrderUnlessOvertaken.
THEOREM RelayInOrder == Spec => []InOrderUnlessOvertaken
<1>1. Init => OrderBase
  <2> SUFFICES ASSUME Init PROVE OrderBase
    OBVIOUS
  <2>1. OnceBase
    BY TypeInit, RepeatsInit DEF OnceBase
  <2>2. conns = {} /\ event = <<>> /\ \A r \in Runtimes : \A m \in Markers : seen[r][m] = 0
    BY DEF Init
  <2>3. Events = {}
    BY <2>2 DEF Events
  <2>4. ~ (0 > 0)
    OBVIOUS
  <2>5. OrderInv
    BY <2>2, <2>3, <2>4 DEF OrderInv, MarkersStarted, Newest, AnsweredStarted, ConnsHeld
  <2>6. QED
    BY <2>1, <2>5 DEF OrderBase
<1>2. OrderBase => InOrderUnlessOvertaken
  <2> SUFFICES ASSUME OrderBase, NEW e \in Events, NEW f \in Events, e < f,
                      event[e].home = event[f].home, Started(f), e \notin gone,
                      event[e].home \notin overtaken
               PROVE  /\ e \notin ToSet(queue[event[e].home])
                      /\ Started(e) => \A j \in DOMAIN log :
                           log[j].ev = f => \E i \in 1..j : SameContent(e, log[i].ev)
    BY DEF InOrderUnlessOvertaken
  <2>1. ~Queued(e) /\ (Covered(e, f) \/ ~Started(e)) /\ event[e].home \in Runtimes
    BY Typing DEF OrderBase, OnceBase, OrderInv, InOrder
  <2>2. e \notin ToSet(queue[event[e].home])
    BY <2>1 DEF Queued, ToSet
  <2>3. Started(e) => \A j \in DOMAIN log : log[j].ev = f => \E i \in 1..j : SameContent(e, log[i].ev)
    BY <2>1 DEF Covered
  <2>4. QED
    BY <2>2, <2>3
<1>3. QED
  BY <1>1, <1>2, OrderBaseStep, PTL DEF Spec
=============================================================================
