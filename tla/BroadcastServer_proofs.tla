----------------------- MODULE BroadcastServer_proofs -----------------------
(***************************************************************************)
(* What the WebSocket server and the event log of a runtime guarantee for   *)
(* any number of ports, promotions, deactivations, events and failures, and *)
(* any sizes of lines and of the log file.  Two inductive invariants: LogInv, about the   *)
(* loggers and their file, which needs nothing of the rest of the plugin,   *)
(* and RoleInv, about roles, server instances, retries and stops that wait. *)
(***************************************************************************)
EXTENDS BroadcastServer, SequenceTheorems, TLAPS

USE LoggerConstants, BroadcastConstants

\* The records of loggers, and below those of server instances.
Logger ==
  [start : {"opening", "done", "failed"}, stream : {"none", "append", "write"},
   at : Nat, size : Nat, chain : Seq(Nat), busy : {"no", "ending", "writing"},
   stop : BOOLEAN, held : Seq(Nat)]

\* Events in the order in which they came, events so far, and events of one sequence that
\* all came before those of another.
Ascending(s) == \A j, k \in DOMAIN s : j < k => s[j] < s[k]
Within(s, n) == \A k \in DOMAIN s : 1 <= s[k] /\ s[k] <= n
Before(s, t) == \A j \in DOMAIN s : \A k \in DOMAIN t : s[j] < t[k]

\* The same of the parts of lines that a file holds.
Part == [ev : Nat, part : Nat]
FileWithin(f, n) == \A k \in DOMAIN f : 1 <= f[k].ev /\ f[k].ev <= n
FileBefore(f, t) == \A j \in DOMAIN f : \A k \in DOMAIN t : f[j].ev < t[k]

\* What one logger keeps to itself, when n events have come.
Coherent(l, n) ==
  /\ Within(l.chain, n) /\ Within(l.held, n)
  /\ l.busy = "no" <=> l.chain = <<>>
  /\ l.busy = "writing" => l.stream # "none"
  /\ l.busy = "ending" => l.stream = "none"
  /\ l.start = "opening" => l.chain = <<>> /\ l.stream = "none" /\ l.at = 0
  /\ l.start # "opening" => l.held = <<>>

\* The values of the variables of the log.
LogTypes ==
  /\ logs \in Seq(Logger) /\ file \in Seq(Part) /\ events \in Nat /\ events <= MaxEvents
  /\ failures \in Nat
  /\ overlapped \in BOOLEAN
  /\ {current, readyOf} \subseteq {0, Len(logs)} /\ (current = 0 <=> readyOf = 0)
  /\ written \subseteq 1..events /\ excused \subseteq 1..events
  /\ \A i \in DOMAIN logs : Coherent(logs[i], events)

\* Logger l knows where it stands in file f, and f ends where its events begin.
InStep(l, f) ==
  /\ l.stream # "none" => l.size = Len(f)
  /\ l.stream = "write" => l.at = l.size
  /\ l.busy = "writing" => l.size = 0 \/ l.size + LineSize[Head(l.chain)] <= MaxFileSize
  /\ Ascending(l.chain) /\ Ascending(l.held)
  /\ FileBefore(f, l.chain) /\ FileBefore(f, l.held)

\* What FileSoundUnlessOverlapped says of the file.
SoundFile(f) == WithinLimit(f) /\ InOrder(f) /\ WholeLines(f)

\* Only the last logger works; it is in step with a file that is in order.
InStepUnlessOverlapped ==
  ~overlapped =>
    /\ SoundFile(file) /\ FileWithin(file, events)
    /\ \A i \in DOMAIN logs : IF i = Len(logs) THEN InStep(logs[i], file) ELSE Idle(logs[i])

LogInv == LogTypes /\ InStepUnlessOverlapped

\* A sequence with one element replaced.
LEMMA Replaced ==
  ASSUME NEW S, NEW s \in Seq(S), NEW i \in DOMAIN s, NEW e \in S
  PROVE  LET t == [s EXCEPT ![i] = e]
         IN /\ t \in Seq(S) /\ Len(t) = Len(s) /\ DOMAIN t = DOMAIN s
            /\ t[i] = e /\ \A j \in DOMAIN s : j # i => t[j] = s[j]
BY ExceptSeq

\* A sequence with one element appended.
LEMMA AppendFacts ==
  ASSUME NEW S, NEW s \in Seq(S), NEW e \in S
  PROVE  /\ Append(s, e) \in Seq(S) /\ Len(Append(s, e)) = Len(s) + 1
         /\ DOMAIN s = 1..Len(s) /\ Len(s) \in Nat
         /\ DOMAIN Append(s, e) = 1..(Len(s) + 1)
         /\ Append(s, e)[Len(s) + 1] = e
         /\ \A k \in 1..Len(s) : Append(s, e)[k] = s[k] /\ s[k] \in S
         /\ Append(s, e) = [k \in 1..(Len(s) + 1) |-> IF k = Len(s) + 1 THEN e ELSE s[k]]
<1> DEFINE t == [k \in 1..(Len(s) + 1) |-> IF k = Len(s) + 1 THEN e ELSE s[k]]
<1>1. t \in Seq(S) /\ Len(t) = Len(s) + 1
  OBVIOUS
<1>2. Append(s, e) = t
  <2>1. Append(s, e) \in Seq(S) /\ Len(Append(s, e)) = Len(t)
        /\ \A k \in 1..Len(t) : Append(s, e)[k] = t[k]
    BY <1>1, AppendProperties
  <2>2. QED
    BY <1>1, <2>1, SeqEqual
<1>3. QED
  BY <1>2, AppendProperties

\* A sequence without its first element.
LEMMA TailFacts ==
  ASSUME NEW S, NEW s \in Seq(S), s # <<>>
  PROVE  /\ Tail(s) \in Seq(S) /\ Head(s) = s[1] /\ Head(s) \in S
         /\ DOMAIN s = 1..Len(s) /\ Len(s) \in Nat /\ 1 \in DOMAIN s
         /\ DOMAIN Tail(s) = 1..(Len(s) - 1)
         /\ \A k \in DOMAIN Tail(s) : k + 1 \in DOMAIN s /\ Tail(s)[k] = s[k + 1]
OBVIOUS

\* stop() keeps what a logger keeps to itself.
LEMMA StoppedCoherent ==
  ASSUME NEW l \in Logger, NEW n, Coherent(l, n)
  PROVE  Stopped(l) \in Logger /\ Coherent(Stopped(l), n)
BY DEF Logger, Stopped, Coherent, Within

\* Two sequences of events, one after the other (enqueueWrite).
LEMMA Appended ==
  ASSUME NEW s \in Seq(Nat), NEW t \in Seq(Nat), NEW n \in Nat, Within(s, n), Within(t, n)
  PROVE  s \o t \in Seq(Nat) /\ Within(s \o t, n) /\ (t # <<>> => s \o t # <<>>)
         /\ (Ascending(s) /\ Ascending(t) /\ Before(s, t) => Ascending(s \o t))
<1> DEFINE u == s \o t
           m == Len(s)
           n2 == Len(t)
<1>1. /\ u \in Seq(Nat) /\ m \in Nat /\ n2 \in Nat /\ Len(u) = m + n2
      /\ DOMAIN s = 1..m /\ DOMAIN t = 1..n2 /\ DOMAIN u = 1..(m + n2)
      /\ \A k \in 1..m : u[k] = s[k]
      /\ \A k \in (m + 1)..(m + n2) : u[k] = t[k - m]
  BY SMTT(30)
<1> HIDE DEF u, m, n2
<1>2. ASSUME NEW k \in DOMAIN u
      PROVE  (k \in DOMAIN s /\ u[k] = s[k]) \/ (k - m \in DOMAIN t /\ u[k] = t[k - m] /\ k > m)
  <2>1. CASE k <= m
    BY <1>1, <2>1
  <2>2. CASE k > m
    <3>1. k \in (m + 1)..(m + n2) /\ k - m \in 1..n2
      BY <1>1, <2>2
    <3>2. QED
      BY <1>1, <2>2, <3>1
  <2>3. k \in Int
    BY <1>1
  <2>4. QED
    BY <1>1, <2>1, <2>2, <2>3
<1>3. Within(u, n)
  BY <1>2 DEF Within
<1>4. t # <<>> => u # <<>>
  <2>1. SUFFICES ASSUME t # <<>> PROVE u # <<>>
    OBVIOUS
  <2>2. n2 > 0
    BY <2>1, <1>1 DEF n2
  <2>3. 1 \in DOMAIN u
    BY <1>1, <2>2
  <2>4. QED
    BY <2>3
<1>5. ASSUME Ascending(s), Ascending(t), Before(s, t)
      PROVE  Ascending(u)
  <2>1. SUFFICES ASSUME NEW j \in DOMAIN u, NEW k \in DOMAIN u, j < k PROVE u[j] < u[k]
    BY DEF Ascending
  <2>2. CASE k \in DOMAIN s
    <3>1. j \in DOMAIN s
      BY <1>1, <2>1, <2>2
    <3>2. QED
      BY <1>1, <1>5, <2>1, <2>2, <3>1 DEF Ascending
  <2>3. CASE k \notin DOMAIN s /\ j \in DOMAIN s
    BY <1>1, <1>2, <1>5, <2>3 DEF Before
  <2>4. CASE k \notin DOMAIN s /\ j \notin DOMAIN s
    <3>1. /\ j - m \in DOMAIN t /\ k - m \in DOMAIN t /\ j - m < k - m
          /\ u[j] = t[j - m] /\ u[k] = t[k - m]
      BY <1>1, <1>2, <2>1, <2>4
    <3>2. QED
      BY <1>5, <3>1 DEF Ascending
  <2>5. QED
    BY <2>2, <2>3, <2>4
<1>6. QED
  BY <1>1, <1>3, <1>4, <1>5 DEF u

\* The next link of a chain, of a logger that waits for nothing, is coherent.
LEMMA WriteLineCoherent ==
  ASSUME NEW l \in Logger, NEW n, Within(l.chain, n), Within(l.held, n),
         l.busy = "no", l.start # "opening", l.held = <<>>, l.chain # <<>> => l.stream # "none"
  PROVE  WriteLine(l) \in Logger /\ Coherent(WriteLine(l), n)
BY DEF Logger, WriteLine, Stopped, Coherent, Within

\* logEvent keeps what a logger keeps to itself.
LEMMA LoggedCoherent ==
  ASSUME NEW l \in Logger, NEW n \in Nat, Coherent(l, n), NEW evs \in Seq(Nat), Within(evs, n)
  PROVE  Logged(l, evs) \in Logger /\ Coherent(Logged(l, evs), n)
<1>1. CASE l.stream = "none" \/ evs = <<>>
  BY <1>1 DEF Logged
<1>2. CASE ~(l.stream = "none" \/ evs = <<>>)
  <2> DEFINE longer == [l EXCEPT !.chain = @ \o evs]
  <2>1. l.chain \o evs \in Seq(Nat) /\ Within(l.chain \o evs, n) /\ l.chain \o evs # <<>>
    BY <1>2, Appended DEF Coherent, Logger
  <2>2. longer \in Logger /\ longer.chain = l.chain \o evs
        /\ longer.busy = l.busy /\ longer.stream = l.stream /\ longer.start = l.start /\ longer.held = l.held
    BY <2>1 DEF Logger
  <2>3. Logged(l, evs) = IF l.busy = "no" THEN WriteLine(longer) ELSE longer
    BY <1>2, <2>2 DEF Logged
  <2> HIDE DEF longer
  <2>4. CASE l.busy = "no"
    BY <1>2, <2>1, <2>2, <2>3, <2>4, WriteLineCoherent DEF Coherent
  <2>5. CASE l.busy # "no"
    BY <1>2, <2>1, <2>2, <2>3, <2>5 DEF Coherent
  <2>6. QED
    BY <2>4, <2>5
<1>3. QED
  BY <1>1, <1>2

\* A stopped logger is still in step with its file.
LEMMA StoppedInStep ==
  ASSUME NEW l \in Logger, NEW f, InStep(l, f), NEW n, Coherent(l, n)
  PROVE  InStep(Stopped(l), f)
BY DEF Logger, Stopped, InStep, Coherent

\* A line is only under way when the file has room for it or is empty (writeLine).
LEMMA WriteLineInStep ==
  ASSUME NEW l \in Logger, NEW f, InStep(l, f), l.busy = "no",
         NEW n \in Nat, n <= MaxEvents, Within(l.chain, n)
  PROVE  InStep(WriteLine(l), f)
<1>1. CASE l.chain = <<>>
  BY <1>1 DEF Logger, WriteLine, Stopped, InStep
<1>2. CASE l.chain # <<>>
  <2>1. Head(l.chain) \in 1..MaxEvents
    <3>1. l.chain \in Seq(Nat)
      BY DEF Logger
    <3>2. Head(l.chain) = l.chain[1] /\ 1 \in DOMAIN l.chain /\ Head(l.chain) \in Nat
      BY <1>2, <3>1, TailFacts
    <3>3. QED
      BY <3>2 DEF Within
  <2>2. LineSize[Head(l.chain)] \in Nat /\ l.size \in Nat
    BY <2>1 DEF Logger
  <2>3. CASE l.size + LineSize[Head(l.chain)] > MaxFileSize
    BY <1>2, <2>3 DEF Logger, WriteLine, InStep
  <2>4. CASE l.size + LineSize[Head(l.chain)] <= MaxFileSize
    <3>1. WriteLine(l) = [l EXCEPT !.busy = "writing"]
      BY <1>2, <2>2, <2>4 DEF WriteLine
    <3>2. QED
      BY <2>4, <3>1 DEF Logger, InStep
  <2>5. QED
    BY <2>2, <2>3, <2>4
<1>3. QED
  BY <1>1, <1>2

\* Events that come after all that the file and the chain hold keep a logger in step.
LEMMA LoggedInStep ==
  ASSUME NEW l \in Logger, NEW n \in Nat, n <= MaxEvents, Coherent(l, n), NEW f, InStep(l, f),
         NEW evs \in Seq(Nat), Within(evs, n), Ascending(evs),
         Before(l.chain, evs), FileBefore(f, evs)
  PROVE  InStep(Logged(l, evs), f)
<1>1. CASE l.stream = "none" \/ evs = <<>>
  BY <1>1 DEF Logged
<1>2. CASE ~(l.stream = "none" \/ evs = <<>>)
  <2> DEFINE c == l.chain
             d == c \o evs
             longer == [l EXCEPT !.chain = d]
  <2>0. c \in Seq(Nat) /\ Within(c, n) /\ Ascending(c) /\ FileBefore(f, c)
    BY DEF Coherent, Logger, InStep
  <2>1. d \in Seq(Nat) /\ Ascending(d) /\ Within(d, n)
    BY <2>0, Appended
  <2>2. FileBefore(f, d)
    BY <2>0 DEF FileBefore
  <2>3. c # <<>> => Head(d) = Head(c)
    BY <2>0
  <2> HIDE DEF d
  <2>4. longer \in Logger /\ longer.busy = l.busy /\ longer.chain = d
    BY <2>1 DEF Logger
  <2>5. InStep(longer, f)
    BY <2>1, <2>2, <2>3 DEF Logger, InStep, Coherent
  <2>6. Logged(l, evs) = IF l.busy = "no" THEN WriteLine(longer) ELSE longer
    BY <1>2, <2>4 DEF Logged, d
  <2> HIDE DEF longer
  <2>7. QED
    BY <2>1, <2>4, <2>5, <2>6, WriteLineInStep
<1>3. QED
  BY <1>1, <1>2

\* initializeEventFileLogger: a new logger is in step with the file as it is, and the
\* ones before are idle unless the loggers overlap.
LEMMA StartLogKeeps ==
  ASSUME LogInv, StartLog
  PROVE  LogInv'
<1> USE DEF LogInv, LogTypes, StartLog
<1>1. NewLogger \in Logger /\ Coherent(NewLogger, events) /\ InStep(NewLogger, file)
  BY DEF NewLogger, Logger, Coherent, Within, InStep, Ascending, FileBefore
<1>2. /\ logs' \in Seq(Logger) /\ Len(logs') = Len(logs) + 1
      /\ logs'[Len(logs) + 1] = NewLogger
      /\ \A i \in DOMAIN logs : logs'[i] = logs[i]
  BY <1>1, AppendProperties
<1>3. DOMAIN logs = 1..Len(logs) /\ DOMAIN logs' = 1..(Len(logs) + 1) /\ Len(logs) \in Nat
  BY <1>2
<1>4. LogTypes'
  BY <1>1, <1>2, <1>3
<1>5. ASSUME ~overlapped'
      PROVE  \A i \in DOMAIN logs' : IF i = Len(logs') THEN InStep(logs'[i], file) ELSE Idle(logs'[i])
  <2>1. \A i \in DOMAIN logs : Idle(logs[i])
    BY <1>5
  <2>2. QED
    BY <1>1, <1>2, <1>3, <2>1
<1>6. InStepUnlessOverlapped'
  BY <1>5 DEF InStepUnlessOverlapped
<1>7. QED
  BY <1>4, <1>6

\* stopEventFileLogger keeps the invariant of the log.
LEMMA StopLogKeeps ==
  ASSUME LogInv, StopLog
  PROVE  LogInv'
<1> USE DEF LogInv, LogTypes, StopLog
<1>1. CASE current = 0
  BY <1>1 DEF InStepUnlessOverlapped
<1>2. CASE current # 0
  <2>1. current = Len(logs) /\ current \in DOMAIN logs /\ logs[current] \in Logger
    BY <1>2
  <2>2. /\ Stopped(logs[current]) \in Logger /\ Coherent(Stopped(logs[current]), events)
        /\ InStep(logs[current], file) => InStep(Stopped(logs[current]), file)
    BY <2>1, StoppedCoherent, StoppedInStep
  <2>3. /\ logs' \in Seq(Logger) /\ Len(logs') = Len(logs) /\ DOMAIN logs' = DOMAIN logs
        /\ logs'[current] = Stopped(logs[current])
        /\ \A j \in DOMAIN logs : j # current => logs'[j] = logs[j]
    <3>1. logs' = [logs EXCEPT ![current] = Stopped(logs[current])]
      BY <1>2
    <3>2. QED
      BY <3>1, <2>1, <2>2, Replaced
  <2>4. LogTypes'
    BY <2>2, <2>3
  <2>5. InStepUnlessOverlapped'
    BY <2>1, <2>2, <2>3 DEF InStepUnlessOverlapped
  <2>6. QED
    BY <2>4, <2>5
<1>3. QED
  BY <1>1, <1>2

\* What passing events on to one logger changes (transportEvent).
LEMMA PassedOn ==
  ASSUME NEW table \in Seq(Logger), Len(table) = Len(logs),
         NEW n \in Nat, \A i \in DOMAIN table : Coherent(table[i], n),
         NEW c \in {0, Len(logs)}, NEW for, NEW evs \in Seq(Nat), Within(evs, n),
         excused \subseteq 1..n, PassOn(table, c, for, evs)
  PROVE  /\ logs' \in Seq(Logger) /\ Len(logs') = Len(table) /\ DOMAIN logs' = DOMAIN table
         /\ \A i \in DOMAIN table :
              /\ Coherent(logs'[i], n)
              /\ logs'[i] = IF i = c THEN Logged(table[i], evs) ELSE table[i]
         /\ excused' \subseteq 1..n
<1>1. excused' \subseteq 1..n
  BY DEF PassOn, ToSet, Within
<1>2. CASE c = 0
  BY <1>1, <1>2 DEF PassOn
<1>3. CASE c # 0
  <2>1. c \in DOMAIN table /\ table[c] \in Logger
    BY <1>3
  <2>2. Logged(table[c], evs) \in Logger /\ Coherent(Logged(table[c], evs), n)
    BY <2>1, LoggedCoherent
  <2>3. logs' = [table EXCEPT ![c] = Logged(table[c], evs)]
    BY <1>3 DEF PassOn
  <2>4. QED
    BY <1>1, <2>1, <2>2, <2>3, Replaced
<1>4. QED
  BY <1>2, <1>3

\* One more event: what was within the events so far is within them still, and the new
\* one comes after it.
LEMMA Grown ==
  ASSUME NEW s \in Seq(Nat), NEW n \in Nat, NEW m \in Nat, m = n + 1, Within(s, n)
  PROVE  /\ Within(s, m) /\ Before(s, <<m>>)
         /\ Append(s, m) \in Seq(Nat) /\ Within(Append(s, m), m)
         /\ Ascending(s) => Ascending(Append(s, m))
<1>1. DOMAIN s = 1..Len(s) /\ Len(s) \in Nat /\ \A k \in DOMAIN s : s[k] \in Nat
  OBVIOUS
<1>2. Within(s, m) /\ Before(s, <<m>>)
  BY <1>1 DEF Within, Before
<1>3. LET t == Append(s, m)
      IN /\ t \in Seq(Nat) /\ DOMAIN t = 1..(Len(s) + 1)
         /\ t[Len(s) + 1] = m /\ \A k \in DOMAIN s : t[k] = s[k]
  BY <1>1, AppendProperties
<1>4. QED
  BY <1>1, <1>2, <1>3 DEF Within, Ascending, Before

\* The same of a file, which the new event comes after.
LEMMA GrownFile ==
  ASSUME NEW f \in Seq(Part), NEW n \in Nat, NEW m \in Nat, m = n + 1, FileWithin(f, n),
         NEW s \in Seq(Nat), FileBefore(f, s)
  PROVE  FileWithin(f, m) /\ FileBefore(f, <<m>>) /\ FileBefore(f, Append(s, m))
<1>1. \A k \in DOMAIN f : f[k].ev \in Nat /\ f[k].ev <= n /\ 1 <= f[k].ev
  <2>1. \A k \in DOMAIN f : f[k] \in Part
    OBVIOUS
  <2>2. QED
    BY <2>1 DEF FileWithin, Part
<1>2. LET t == Append(s, m)
      IN /\ DOMAIN t = 1..(Len(s) + 1) /\ Len(s) \in Nat /\ DOMAIN s = 1..Len(s)
         /\ t[Len(s) + 1] = m /\ \A k \in DOMAIN s : t[k] = s[k]
  BY AppendProperties
<1>3. FileWithin(f, m)
  BY <1>1 DEF FileWithin
<1>4. FileBefore(f, <<m>>)
  <2>1. DOMAIN <<m>> = {1} /\ <<m>>[1] = m
    OBVIOUS
  <2>2. QED
    BY <1>1, <2>1 DEF FileBefore
<1>5. FileBefore(f, Append(s, m))
  <2> DEFINE t == Append(s, m)
  <2>1. \A j \in DOMAIN f, k \in DOMAIN t : f[j].ev < t[k]
    <3>1. SUFFICES ASSUME NEW j \in DOMAIN f, NEW k \in DOMAIN t PROVE f[j].ev < t[k]
      OBVIOUS
    <3> HIDE DEF t
    <3>2. CASE k = Len(s) + 1
      BY <1>1, <1>2, <3>1, <3>2 DEF t
    <3>3. CASE k # Len(s) + 1
      <4>1. k \in DOMAIN s /\ t[k] = s[k]
        BY <1>2, <3>1, <3>3 DEF t
      <4>2. QED
        BY <3>1, <4>1 DEF FileBefore
    <3>4. QED
      BY <3>2, <3>3
  <2>2. QED
    BY <2>1 DEF FileBefore
<1>6. QED
  BY <1>3, <1>4, <1>5

\* One more event leaves a logger coherent.
LEMMA GrownCoherent ==
  ASSUME NEW l \in Logger, NEW n \in Nat, NEW m \in Nat, m = n + 1, Coherent(l, n)
  PROVE  Coherent(l, m) /\ Before(l.chain, <<m>>)
<1>1. l.chain \in Seq(Nat) /\ l.held \in Seq(Nat)
  BY DEF Logger
<1>2. Within(l.chain, n) /\ Within(l.held, n)
  BY DEF Coherent
<1>3. Within(l.chain, m) /\ Within(l.held, m) /\ Before(l.chain, <<m>>)
  BY <1>1, <1>2, Grown
<1>4. QED
  BY <1>3 DEF Coherent

\* An event that is passed on, or that waits for a start, keeps the invariant of the log.
LEMMA EventComesKeeps ==
  ASSUME LogInv, EventComes
  PROVE  LogInv'
<1> USE DEF LogInv, LogTypes
<1> DEFINE n == events + 1
<1>a. \A i \in DOMAIN logs : Coherent(logs[i], n)
  <2>1. n \in Nat /\ n = events + 1 /\ events \in Nat
    OBVIOUS
  <2>2. \A i \in DOMAIN logs : logs[i] \in Logger /\ Coherent(logs[i], events)
    OBVIOUS
  <2> HIDE DEF n, LogInv
  <2>3. QED
    BY <2>1, <2>2, GrownCoherent
<1>0. /\ events' = n /\ n \in Nat /\ n <= MaxEvents /\ \A i \in DOMAIN logs : Coherent(logs[i], n)
      /\ excused \subseteq 1..n /\ written \subseteq 1..n /\ n \in 1..n
      /\ UNCHANGED <<file, current, readyOf, failures, written, overlapped>>
  BY <1>a, SMTT(30) DEF EventComes
<1>1. CASE readyOf # 0 /\ logs[readyOf].start = "opening"
  <2> DEFINE l == logs[readyOf]
             m == [l EXCEPT !.held = Append(@, n)]
  <2>1. readyOf = Len(logs) /\ readyOf \in DOMAIN logs /\ l \in Logger
    BY <1>1
  <2>2. l.held \in Seq(Nat)
    BY <2>1 DEF Logger
  <2>3. /\ Append(l.held, n) \in Seq(Nat)
        /\ Within(Append(l.held, n), n)
        /\ Ascending(l.held) => Ascending(Append(l.held, n))
        /\ FileWithin(file, events) /\ FileBefore(file, l.held) => FileBefore(file, Append(l.held, n))
    <3>1. events \in Nat /\ n \in Nat /\ file \in Seq(Part) /\ n = events + 1
          /\ Within(l.held, events)
      BY <2>1 DEF Coherent
    <3> HIDE DEF n, l, LogInv
    <3>2. QED
      BY <2>2, <3>1, Grown, GrownFile
  <2>4. m \in Logger /\ Coherent(m, n)
    BY <2>1, <2>3, <1>0, <1>1 DEF Logger, Coherent
  <2>5. FileWithin(file, events) /\ InStep(l, file) => InStep(m, file)
    BY <2>1, <2>3 DEF Logger, Coherent, InStep
  <2>6. logs' = [logs EXCEPT ![readyOf] = m] /\ excused' = excused
    BY <1>1 DEF EventComes
  <2> HIDE DEF m
  <2>7. /\ logs' \in Seq(Logger) /\ Len(logs') = Len(logs) /\ DOMAIN logs' = DOMAIN logs
        /\ logs'[readyOf] = m /\ \A j \in DOMAIN logs : j # readyOf => logs'[j] = logs[j]
    BY <2>1, <2>4, <2>6, Replaced
  <2> HIDE DEF n, l
  <2>8. LogTypes'
    BY <2>4, <2>6, <2>7, <1>0
  <2>9. ASSUME ~overlapped
        PROVE  InStepUnlessOverlapped'
    <3>1. FileWithin(file, events) => FileWithin(file', events')
      <4>1. SUFFICES ASSUME FileWithin(file, events) PROVE FileWithin(file, events')
        BY <1>0
      <4>2. FileBefore(file, <<>>) /\ <<>> \in Seq(Nat)
        BY DEF FileBefore
      <4>3. file \in Seq(Part) /\ events \in Nat /\ events' \in Nat /\ events' = events + 1
        BY <1>0 DEF n
      <4> HIDE DEF LogInv
      <4>4. QED
        BY <4>1, <4>2, <4>3, GrownFile
    <3>2. QED
      BY <2>1, <2>5, <2>7, <2>9, <3>1, <1>0 DEF InStepUnlessOverlapped, l
  <2>10. QED
    BY <2>8, <2>9, <1>0 DEF InStepUnlessOverlapped
<1>2. CASE ~(readyOf # 0 /\ logs[readyOf].start = "opening")
  <2>1. PassOn(logs, current, readyOf, <<n>>)
    BY <1>2 DEF EventComes
  <2>2. <<n>> \in Seq(Nat) /\ Within(<<n>>, n) /\ Ascending(<<n>>)
    BY <1>0 DEF Within, Ascending
  <2> HIDE DEF n
  <2>3. /\ logs' \in Seq(Logger) /\ Len(logs') = Len(logs) /\ DOMAIN logs' = DOMAIN logs
        /\ \A i \in DOMAIN logs :
             /\ Coherent(logs'[i], n)
             /\ logs'[i] = IF i = current THEN Logged(logs[i], <<n>>) ELSE logs[i]
        /\ excused' \subseteq 1..n
    BY <1>0, <2>1, <2>2, PassedOn
  <2>4. LogTypes'
    BY <2>3, <1>0
  <2>5. ASSUME ~overlapped
        PROVE  InStepUnlessOverlapped'
    <3>1. FileWithin(file', events') /\ FileBefore(file, <<n>>)
      <4>1. FileWithin(file, events)
        BY <2>5 DEF InStepUnlessOverlapped
      <4>2. FileBefore(file, <<>>) /\ <<>> \in Seq(Nat)
        BY DEF FileBefore
      <4>3. file \in Seq(Part) /\ events \in Nat /\ n \in Nat /\ n = events + 1
        BY <1>0 DEF n
      <4> HIDE DEF LogInv
      <4>4. FileWithin(file, n) /\ FileBefore(file, <<n>>)
        BY <4>1, <4>2, <4>3, GrownFile
      <4>5. QED
        BY <4>4, <1>0
    <3>2. \A i \in DOMAIN logs : logs[i] \in Logger /\ Before(logs[i].chain, <<n>>)
      BY GrownCoherent DEF n
    <3>3. \A i \in DOMAIN logs : InStep(logs[i], file) => InStep(Logged(logs[i], <<n>>), file)
      BY <3>1, <3>2, <2>2, <2>5, <1>0, LoggedInStep DEF InStepUnlessOverlapped
    <3>4. /\ SoundFile(file) /\ current \in {0, Len(logs)} /\ current \in Nat
          /\ \A i \in DOMAIN logs : IF i = Len(logs) THEN InStep(logs[i], file) ELSE Idle(logs[i])
      BY <2>5 DEF InStepUnlessOverlapped
    <3>5. file' = file /\ overlapped' = overlapped /\ DOMAIN logs \subseteq Nat \ {0}
      BY <1>0
    <3> HIDE DEF LogInv, LogTypes
    <3>6. ASSUME NEW i \in DOMAIN logs
          PROVE  IF i = Len(logs) THEN InStep(logs'[i], file) ELSE Idle(logs'[i])
      <4>1. CASE i = current
        <5>1. i = Len(logs) /\ logs'[i] = Logged(logs[i], <<n>>) /\ InStep(logs[i], file)
          BY <4>1, <3>4, <3>5, <2>3
        <5>2. QED
          BY <5>1, <3>3
      <4>2. CASE i # current
        <5>1. logs'[i] = logs[i]
          BY <4>2, <2>3
        <5>2. QED
          BY <5>1, <3>4
      <4>3. QED
        BY <4>1, <4>2
    <3>7. QED
      BY <2>3, <3>1, <3>4, <3>5, <3>6 DEF InStepUnlessOverlapped
  <2>6. QED
    BY <2>4, <2>5, <1>0 DEF InStepUnlessOverlapped
<1>3. QED
  BY <1>1, <1>2

\* What a logger keeps to itself when it opens its stream over a file of size n.
LEMMA OpenKeeps ==
  ASSUME NEW l \in Logger, NEW e, Coherent(l, e), l.start = "opening", NEW n \in Nat
  PROVE  /\ Opens(l, n) \in Logger /\ Coherent(Opens(l, n), e)
         /\ Opens(l, n).chain = <<>> /\ Opens(l, n).held = <<>>
         /\ Opens(l, n).busy = "no" /\ Opens(l, n).at = 0
         /\ Opens(l, n).stream = IF n >= MaxFileSize THEN "write" ELSE "append"
         /\ Opens(l, n).size = IF n >= MaxFileSize THEN 0 ELSE n
BY DEF Coherent, Logger, Within, Opens

\* What a logger keeps to itself when its start fails.
LEMMA FailKeeps ==
  ASSUME NEW l \in Logger, NEW e, Coherent(l, e), l.start = "opening"
  PROVE  LET m == [l EXCEPT !.start = "failed", !.held = <<>>]
         IN /\ m \in Logger /\ Coherent(m, e) /\ Idle(m)
            /\ \A f : InStep(l, f) => InStep(m, f)
BY DEF Coherent, Logger, Within, Idle, InStep, Ascending, FileBefore

\* What a logger keeps to itself when its stream opens the file anew.
LEMMA TruncateKeeps ==
  ASSUME NEW l \in Logger, NEW e, Coherent(l, e), l.busy = "ending"
  PROVE  LET m == [l EXCEPT !.stream = "write", !.at = 0, !.size = 0, !.busy = "writing"]
         IN /\ m \in Logger /\ Coherent(m, e)
            /\ \A f : InStep(l, f) => InStep(m, <<>>)
<1> DEFINE m == [l EXCEPT !.stream = "write", !.at = 0, !.size = 0, !.busy = "writing"]
<1>1. /\ m \in Logger /\ m.chain = l.chain /\ m.held = l.held /\ m.start = l.start
      /\ m.stream = "write" /\ m.at = 0 /\ m.size = 0 /\ m.busy = "writing"
  BY DEF Logger
<1> HIDE DEF m
<1>2. Coherent(m, e)
  BY <1>1 DEF Coherent
<1>3. \A f : InStep(l, f) => InStep(m, <<>>)
  BY <1>1 DEF InStep, FileBefore
<1>4. QED
  BY <1>1, <1>2, <1>3 DEF m

\* An empty file is sound.
LEMMA EmptySound ==
  SoundFile(<<>>) /\ \A n : FileWithin(<<>>, n) /\ \A t : FileBefore(<<>>, t)
BY DEF SoundFile, WithinLimit, InOrder, WholeLines, FileWithin, FileBefore

\* The end of a start, with the events that awaited it, keeps the invariant of the log.
LEMMA OpenedKeeps ==
  ASSUME LogInv, NEW i \in DOMAIN logs, Opened(i)
  PROVE  LogInv'
<1> USE DEF LogInv, LogTypes
<1> DEFINE l == logs[i]
           m == Opens(l, Len(file))
           table == [logs EXCEPT ![i] = m]
<1>1. /\ l \in Logger /\ Coherent(l, events) /\ l.start = "opening" /\ Len(file) \in Nat
      /\ events \in Nat /\ current \in {0, Len(logs)} /\ logs \in Seq(Logger)
  BY DEF Opened
<1>a. l.held \in Seq(Nat) /\ Within(l.held, events)
  BY <1>1 DEF Coherent, Logger
<1>2. /\ m \in Logger /\ Coherent(m, events)
      /\ m.chain = <<>> /\ m.held = <<>> /\ m.busy = "no" /\ m.at = 0
      /\ m.stream = IF Len(file) >= MaxFileSize THEN "write" ELSE "append"
      /\ m.size = IF Len(file) >= MaxFileSize THEN 0 ELSE Len(file)
  <2> HIDE DEF LogInv, l
  <2>1. QED
    BY <1>1, OpenKeeps
<1>3. /\ PassOn(table, current, i, l.held)
      /\ file' = IF Len(file) >= MaxFileSize THEN <<>> ELSE file
      /\ UNCHANGED <<current, readyOf, events, failures, written, overlapped>>
  BY DEF Opened
<1> HIDE DEF m
<1>4. /\ table \in Seq(Logger) /\ Len(table) = Len(logs) /\ DOMAIN table = DOMAIN logs
      /\ table[i] = m /\ \A j \in DOMAIN logs : j # i => table[j] = logs[j]
  BY <1>2, Replaced
<1>5. \A j \in DOMAIN table : Coherent(table[j], events)
  BY <1>2, <1>4
<1> HIDE DEF table, l
<1>6. /\ logs' \in Seq(Logger) /\ Len(logs') = Len(logs) /\ DOMAIN logs' = DOMAIN logs
      /\ \A j \in DOMAIN logs :
           /\ Coherent(logs'[j], events)
           /\ logs'[j] = IF j = current THEN Logged(table[j], l.held) ELSE table[j]
      /\ excused' \subseteq 1..events
  <2> HIDE DEF LogInv
  <2>1. excused \subseteq 1..events
    BY DEF LogInv
  <2>2. /\ logs' \in Seq(Logger) /\ Len(logs') = Len(table) /\ DOMAIN logs' = DOMAIN table
        /\ \A j \in DOMAIN table :
             /\ Coherent(logs'[j], events)
             /\ logs'[j] = IF j = current THEN Logged(table[j], l.held) ELSE table[j]
        /\ excused' \subseteq 1..events
    <3>1. PassOn(table, current, i, l.held)
      BY <1>3
    <3>2. table \in Seq(Logger) /\ Len(table) = Len(logs)
      BY <1>4
    <3>3. current \in {0, Len(logs)} /\ events \in Nat
      BY <1>1
    <3>4. QED
      BY <1>a, <1>5, <2>1, <3>1, <3>2, <3>3, PassedOn
  <2>3. QED
    BY <1>4, <2>2
<1>7. LogTypes'
  BY <1>3, <1>6
<1>8. ASSUME ~overlapped
      PROVE  InStepUnlessOverlapped'
  <2>1. i = Len(logs) /\ InStep(l, file) /\ SoundFile(file) /\ FileWithin(file, events)
    BY <1>1, <1>8 DEF InStepUnlessOverlapped, Idle, l
  <2>2. /\ SoundFile(file') /\ FileWithin(file', events)
        /\ FileBefore(file', l.held) /\ Before(<<>>, l.held) /\ Ascending(l.held)
    BY <2>1, <1>3, EmptySound DEF Before, InStep
  <2>3. InStep(m, file')
    BY <1>2, <1>3, <2>1 DEF InStep, Ascending, FileBefore
  <2>4. InStep(Logged(m, l.held), file')
    BY <1>1, <1>a, <1>2, <2>2, <2>3, LoggedInStep
  <2>5. \A j \in DOMAIN logs : j # i => logs'[j] = logs[j] /\ Idle(logs[j])
    <3>1. \A j \in DOMAIN logs : j # i => Idle(logs[j]) /\ j # current
      BY <1>1, <1>8, <2>1 DEF InStepUnlessOverlapped
    <3>2. QED
      BY <1>4, <1>6, <3>1
  <2>6. InStep(logs'[i], file')
    BY <1>4, <1>6, <2>3, <2>4
  <2>7. QED
    BY <1>3, <1>6, <2>1, <2>2, <2>5, <2>6 DEF InStepUnlessOverlapped
<1>9. QED
  BY <1>3, <1>7, <1>8 DEF InStepUnlessOverlapped

\* A start that fails keeps the invariant of the log.
LEMMA StartFailsKeeps ==
  ASSUME LogInv, NEW i \in DOMAIN logs, StartFails(i)
  PROVE  LogInv'
<1> USE DEF LogInv, LogTypes
<1> DEFINE m == [logs[i] EXCEPT !.start = "failed", !.held = <<>>]
<1>1. logs[i] \in Logger /\ Coherent(logs[i], events) /\ logs[i].start = "opening"
  BY DEF StartFails
<1>a. logs[i].held \in Seq(Nat) /\ Within(logs[i].held, events)
  BY <1>1 DEF Coherent, Logger
<1>2. /\ m \in Logger /\ Coherent(m, events) /\ Idle(m)
      /\ \A f : InStep(logs[i], f) => InStep(m, f)
  <2> HIDE DEF LogInv
  <2>1. QED
    BY <1>1, FailKeeps
<1>3. /\ logs' = [logs EXCEPT ![i] = m] /\ excused' = excused \cup ToSet(logs[i].held)
      /\ failures' = failures + 1 /\ current' = 0 /\ readyOf' = 0
      /\ UNCHANGED <<file, events, written, overlapped>>
  BY DEF StartFails, PassOn, Excuses
<1>4. excused' \subseteq 1..events
  BY <1>a, <1>3, SMTT(30) DEF ToSet, Within
<1> HIDE DEF m
<1>5. /\ logs' \in Seq(Logger) /\ Len(logs') = Len(logs) /\ DOMAIN logs' = DOMAIN logs
      /\ logs'[i] = m /\ \A j \in DOMAIN logs : j # i => logs'[j] = logs[j]
  BY <1>2, <1>3, Replaced
<1>6. LogTypes'
  BY <1>2, <1>3, <1>4, <1>5, SMTT(30)
<1>7. InStepUnlessOverlapped'
  BY <1>2, <1>3, <1>5 DEF InStepUnlessOverlapped
<1>8. QED
  BY <1>6, <1>7

\* truncateLogFile keeps the invariant of the log.
LEMMA TruncatedKeeps ==
  ASSUME LogInv, NEW i \in DOMAIN logs, Truncated(i)
  PROVE  LogInv'
<1> USE DEF LogInv, LogTypes
<1> DEFINE m == [logs[i] EXCEPT !.stream = "write", !.at = 0, !.size = 0, !.busy = "writing"]
<1>1. logs[i] \in Logger /\ Coherent(logs[i], events) /\ logs[i].busy = "ending"
  BY DEF Truncated, Truncating
<1>2. /\ m \in Logger /\ Coherent(m, events)
      /\ \A f : InStep(logs[i], f) => InStep(m, <<>>)
  <2> HIDE DEF LogInv
  <2>1. QED
    BY <1>1, TruncateKeeps
<1>3. /\ logs' = [logs EXCEPT ![i] = m] /\ file' = <<>>
      /\ UNCHANGED <<current, readyOf, events, failures, written, excused, overlapped>>
  BY DEF Truncated
<1> HIDE DEF m
<1>4. /\ logs' \in Seq(Logger) /\ Len(logs') = Len(logs) /\ DOMAIN logs' = DOMAIN logs
      /\ logs'[i] = m /\ \A j \in DOMAIN logs : j # i => logs'[j] = logs[j]
  BY <1>2, <1>3, Replaced
<1>5. LogTypes'
  BY <1>2, <1>3, <1>4
<1>6. ASSUME ~overlapped
      PROVE  InStepUnlessOverlapped'
  <2>1. i = Len(logs) /\ InStep(logs[i], file)
    BY <1>1, <1>6 DEF InStepUnlessOverlapped, Idle, Coherent
  <2>2. SoundFile(<<>>) /\ FileWithin(<<>>, events)
    BY EmptySound
  <2>3. QED
    BY <1>2, <1>3, <1>4, <1>6, <2>1, <2>2 DEF InStepUnlessOverlapped
<1>7. QED
  BY <1>3, <1>5, <1>6 DEF InStepUnlessOverlapped

\* The file g is the file f with the line of event ev at its end.
Extended(f, ev, g) ==
  /\ g \in Seq(Part) /\ Len(g) = Len(f) + LineSize[ev]
  /\ \A k \in 1..Len(f) : g[k] = f[k]
  /\ \A k \in (Len(f) + 1)..Len(g) : g[k] = [ev |-> ev, part |-> k - Len(f)]

\* Whatever the stream, the file stays a sequence of parts of lines.
LEMMA TakenIsSequence ==
  ASSUME file \in Seq(Part), NEW l \in Logger, NEW ev \in 1..MaxEvents
  PROVE  Taken(l, ev) \in Seq(Part)
<1> DEFINE from == IF l.stream = "append" THEN Len(file) ELSE l.at
           to == from + LineSize[ev]
           n == IF Len(file) > to THEN Len(file) ELSE to
           g == [k \in 1..n |-> IF from < k /\ k <= to THEN [ev |-> ev, part |-> k - from]
                                ELSE IF k <= Len(file) THEN file[k] ELSE [ev |-> 0, part |-> 0]]
<1>1. from \in Nat /\ LineSize[ev] \in Nat /\ to \in Nat /\ n \in Nat /\ Taken(l, ev) = g
  BY DEF Taken, Logger
<1> HIDE DEF from, to, n
<1>2. ASSUME NEW k \in 1..n PROVE g[k] \in Part
  <2>1. CASE from < k /\ k <= to
    BY <1>1, <2>1 DEF Part
  <2>2. CASE ~(from < k /\ k <= to) /\ k <= Len(file)
    BY <1>1, <2>2
  <2>3. CASE ~(from < k /\ k <= to) /\ ~(k <= Len(file))
    BY <1>1, <2>3 DEF Part
  <2>4. QED
    BY <2>1, <2>2, <2>3
<1>3. g \in [1..n -> Part]
  BY <1>2
<1> HIDE DEF g
<1>4. QED
  BY <1>1, <1>3

\* A stream in step with the file writes at its end.
LEMMA TakenAppends ==
  ASSUME file \in Seq(Part), NEW l \in Logger, InStep(l, file), l.stream # "none", NEW ev \in 1..MaxEvents
  PROVE  Extended(file, ev, Taken(l, ev))
<1> DEFINE n == Len(file) + LineSize[ev]
           g == Taken(l, ev)
<1>1. /\ Len(file) \in Nat /\ LineSize[ev] \in Nat \ {0} /\ n \in Nat /\ n > Len(file)
      /\ l.stream # "append" => l.at = Len(file)
  BY DEF InStep, Logger
<1>2. g = [k \in 1..n |-> IF Len(file) < k /\ k <= n THEN [ev |-> ev, part |-> k - Len(file)]
                          ELSE IF k <= Len(file) THEN file[k] ELSE [ev |-> 0, part |-> 0]]
  <2>1. (IF l.stream = "append" THEN Len(file) ELSE l.at) = Len(file)
    BY <1>1
  <2>2. (IF Len(file) > n THEN Len(file) ELSE n) = n
    BY <1>1
  <2>3. QED
    BY <2>1, <2>2 DEF Taken
<1>3. g \in Seq(Part)
  BY TakenIsSequence
<1>4. DOMAIN g = 1..n /\ Len(g) = n
  <2>1. DOMAIN g = 1..n
    BY <1>2
  <2> HIDE DEF g, n
  <2>2. QED
    BY <1>1, <1>3, <2>1
<1>5. \A k \in 1..Len(file) : g[k] = file[k]
  BY <1>1, <1>2
<1>6. \A k \in (Len(file) + 1)..n : g[k] = [ev |-> ev, part |-> k - Len(file)]
  BY <1>1, <1>2
<1>7. QED
  BY <1>3, <1>4, <1>5, <1>6 DEF Extended

\* A line at the end of a sound file, which it exceeds only if the file was empty, makes a
\* sound file.
LEMMA ExtendedSound ==
  ASSUME NEW f \in Seq(Part), NEW e \in Nat, e <= MaxEvents, NEW ev \in 1..e, NEW g, Extended(f, ev, g),
         SoundFile(f), FileWithin(f, e), \A k \in DOMAIN f : f[k].ev < ev,
         Len(f) = 0 \/ Len(f) + LineSize[ev] <= MaxFileSize
  PROVE  /\ SoundFile(g) /\ FileWithin(g, e)
         /\ \A k \in DOMAIN g : g[k].ev \in Nat /\ g[k].ev <= ev
<1> DEFINE m == Len(f)
           n == LineSize[ev]
<1>1. /\ m \in Nat /\ n \in Nat \ {0} /\ DOMAIN f = 1..m /\ ev \in Nat /\ ev \in 1..MaxEvents
      /\ 1 <= ev /\ ev <= e
      /\ \A k \in 1..m : f[k].ev \in Nat /\ f[k].part \in Nat /\ f[k].ev < ev
  <2>1. m \in Nat /\ DOMAIN f = 1..m /\ ev \in Nat /\ ev \in 1..MaxEvents /\ 1 <= ev /\ ev <= e
    OBVIOUS
  <2>2. n \in Nat \ {0}
    BY <2>1, LoggerConstants
  <2>3. \A k \in 1..m : f[k] \in Part /\ f[k].ev < ev
    BY <2>1
  <2> HIDE DEF m, n
  <2>4. QED
    BY <2>1, <2>2, <2>3 DEF Part
<1>2. /\ DOMAIN g = 1..(m + n) /\ Len(g) = m + n
      /\ \A k \in 1..m : g[k] = f[k]
      /\ \A k \in (m + 1)..(m + n) : g[k].ev = ev /\ g[k].part = k - m /\ g[k] = [ev |-> ev, part |-> k - m]
  <2>1. g \in Seq(Part) /\ Len(g) = m + n
    BY DEF Extended
  <2>2. DOMAIN g = 1..(m + n)
    BY <2>1
  <2>3. \A k \in 1..m : g[k] = f[k]
    BY DEF Extended
  <2>4. \A k \in (m + 1)..(m + n) : g[k] = [ev |-> ev, part |-> k - m]
    BY DEF Extended
  <2> HIDE DEF m, n
  <2>5. QED
    BY <2>1, <2>2, <2>3, <2>4
<1> HIDE DEF m, n
<1>3. ASSUME NEW k \in DOMAIN g PROVE k \in 1..m \/ k \in (m + 1)..(m + n)
  BY <1>1, <1>2
<1>4. InOrder(g)
  <2>1. SUFFICES ASSUME NEW j \in DOMAIN g, NEW k \in DOMAIN g, j < k
                 PROVE  g[j].ev < g[k].ev \/ (g[j].ev = g[k].ev /\ g[j].part < g[k].part)
    BY DEF InOrder
  <2>2. CASE k \in 1..m
    <3>1. j \in 1..m
      BY <1>1, <1>2, <2>1, <2>2
    <3>2. j \in DOMAIN f /\ k \in DOMAIN f /\ g[j] = f[j] /\ g[k] = f[k]
      BY <1>1, <1>2, <2>2, <3>1
    <3>3. f[j].ev < f[k].ev \/ (f[j].ev = f[k].ev /\ f[j].part < f[k].part)
      BY <2>1, <3>2 DEF SoundFile, InOrder
    <3>4. QED
      BY <3>2, <3>3
  <2>3. CASE j \in 1..m /\ k \in (m + 1)..(m + n)
    <3>1. g[j].ev < ev /\ g[k].ev = ev
      BY <1>1, <1>2, <2>3
    <3>2. QED
      BY <3>1
  <2>4. CASE j \in (m + 1)..(m + n) /\ k \in (m + 1)..(m + n)
    <3>1. g[j].ev = ev /\ g[k].ev = ev /\ g[j].part = j - m /\ g[k].part = k - m
      BY <1>2, <2>4
    <3>2. j - m < k - m
      BY <1>1, <2>1, <2>4
    <3>3. QED
      BY <3>1, <3>2
  <2>5. QED
    BY <1>3, <2>2, <2>3, <2>4
<1>5. WholeLines(g)
  <2>1. SUFFICES ASSUME NEW k \in DOMAIN g, NEW p \in 1..LineSize[g[k].ev]
                 PROVE  k + p - g[k].part \in DOMAIN g /\ g[k + p - g[k].part] = [ev |-> g[k].ev, part |-> p]
    BY DEF WholeLines
  <2>2. CASE k \in 1..m
    <3>1. g[k] = f[k]
      BY <1>2, <2>2
    <3>2. k + p - f[k].part \in 1..m /\ f[k + p - f[k].part] = [ev |-> f[k].ev, part |-> p]
      BY <1>1, <2>1, <2>2, <3>1 DEF SoundFile, WholeLines
    <3> DEFINE q == k + p - f[k].part
    <3>3. q \in 1..m /\ f[q] = [ev |-> f[k].ev, part |-> p]
      BY <3>2
    <3>4. q \in DOMAIN g /\ g[q] = f[q]
      <4> HIDE DEF q
      <4>1. QED
        BY <1>1, <1>2, <3>3
    <3>5. QED
      BY <3>1, <3>3, <3>4
  <2>3. CASE k \in (m + 1)..(m + n)
    <3>1. g[k].ev = ev /\ g[k].part = k - m /\ p \in 1..n
      BY <1>2, <2>1, <2>3 DEF n
    <3>2. k + p - (k - m) = m + p /\ m + p \in (m + 1)..(m + n) /\ (m + p) - m = p
      <4>1. m \in Nat /\ n \in Nat /\ k \in Int /\ p \in Nat /\ 1 <= p /\ p <= n
        BY <1>1, <2>3, <3>1
      <4>2. k + p - (k - m) = m + p /\ (m + p) - m = p
        BY <4>1
      <4>3. m + p \in Int /\ m + 1 <= m + p /\ m + p <= m + n
        BY <4>1
      <4>4. QED
        BY <4>1, <4>2, <4>3
    <3>3. m + p \in DOMAIN g /\ g[m + p] = [ev |-> ev, part |-> p]
      BY <1>1, <1>2, <3>2
    <3>4. QED
      BY <3>1, <3>2, <3>3
  <2>4. QED
    BY <1>3, <2>2, <2>3
<1>6. WithinLimit(g)
  <2>1. CASE m = 0
    <3>1. \A k \in DOMAIN g : g[k].ev = ev
      BY <1>1, <1>2, <2>1
    <3>2. QED
      BY <3>1 DEF WithinLimit
  <2>2. CASE m + n <= MaxFileSize
    BY <1>2, <2>2 DEF WithinLimit
  <2>3. QED
    BY <2>1, <2>2 DEF m, n
<1>7. ASSUME NEW k \in DOMAIN g PROVE g[k].ev \in Nat /\ g[k].ev <= ev
  <2>1. CASE k \in 1..m
    <3>1. g[k] = f[k] /\ f[k].ev \in Nat /\ f[k].ev < ev
      BY <1>1, <1>2, <2>1
    <3>2. QED
      BY <1>1, <3>1
  <2>2. CASE k \in (m + 1)..(m + n)
    <3>1. g[k].ev = ev
      BY <1>2, <2>2
    <3>2. QED
      BY <1>1, <3>1
  <2>3. QED
    BY <1>3, <2>1, <2>2
<1>8. FileWithin(g, e)
  <2>1. SUFFICES ASSUME NEW k \in DOMAIN g PROVE 1 <= g[k].ev /\ g[k].ev <= e
    BY DEF FileWithin
  <2>2. CASE k \in 1..m
    <3>1. g[k] = f[k] /\ k \in DOMAIN f
      BY <1>1, <1>2, <2>2
    <3>2. QED
      BY <3>1 DEF FileWithin
  <2>3. CASE k \in (m + 1)..(m + n)
    <3>1. g[k].ev = ev
      BY <1>2, <2>3
    <3>2. QED
      BY <1>1, <3>1
  <2>4. QED
    BY <1>3, <2>2, <2>3
<1>9. QED
  BY <1>4, <1>5, <1>6, <1>7, <1>8 DEF SoundFile

\* What a logger keeps to itself when the first line of its chain is written.
LEMMA WriteKeeps ==
  ASSUME NEW l \in Logger, NEW e \in Nat, e <= MaxEvents, Coherent(l, e), l.busy = "writing"
  PROVE  LET m == LineWritten(l)
         IN /\ Head(l.chain) \in 1..e /\ l.stream # "none"
            /\ m \in Logger /\ m.busy = "no" /\ m.chain = Tail(l.chain)
            /\ m.size = l.size + LineSize[Head(l.chain)] /\ m.at = l.at + LineSize[Head(l.chain)]
            /\ m.stream = l.stream /\ m.held = <<>> /\ Within(m.chain, e)
            /\ WriteLine(m) \in Logger /\ Coherent(WriteLine(m), e)
<1> DEFINE m == LineWritten(l)
           n == LineSize[Head(l.chain)]
<1>1. /\ l.chain \in Seq(Nat) /\ l.chain # <<>> /\ l.start # "opening" /\ l.held = <<>>
      /\ l.stream # "none" /\ Within(l.chain, e)
  BY DEF Logger, Coherent
<1>2. Tail(l.chain) \in Seq(Nat) /\ Head(l.chain) \in 1..e /\ Within(Tail(l.chain), e) /\ Within(<<>>, e)
  BY <1>1, TailFacts DEF Within
<1>3. /\ m \in Logger /\ m.busy = "no" /\ m.chain = Tail(l.chain) /\ m.start = l.start
      /\ m.size = l.size + n /\ m.at = l.at + n /\ m.stream = l.stream /\ m.held = l.held
  <2>1. Tail(l.chain) \in Seq(Nat) /\ n \in Nat
    BY <1>2
  <2> DEFINE t == Tail(l.chain)
  <2>2. LineWritten(l) = [l EXCEPT !.busy = "no", !.chain = t, !.size = @ + n, !.at = @ + n]
    BY DEF LineWritten
  <2> HIDE DEF t, n
  <2>3. LineWritten(l) = [start |-> l.start, stream |-> l.stream, at |-> l.at + n, size |-> l.size + n,
               chain |-> t, busy |-> "no", stop |-> l.stop, held |-> l.held]
    BY <2>2 DEF Logger
  <2>4. l.at + n \in Nat /\ l.size + n \in Nat /\ l.start \in {"opening", "done", "failed"}
        /\ l.stream \in {"none", "append", "write"} /\ l.stop \in BOOLEAN /\ l.held \in Seq(Nat) /\ t \in Seq(Nat)
    BY <2>1 DEF Logger, t
  <2>5. m = LineWritten(l)
    OBVIOUS
  <2> HIDE DEF m
  <2>6. QED
    BY <2>3, <2>4, <2>5 DEF Logger, t
<1> HIDE DEF m
<1>4. WriteLine(m) \in Logger /\ Coherent(WriteLine(m), e)
  BY <1>1, <1>2, <1>3, WriteLineCoherent
<1>5. QED
  BY <1>1, <1>2, <1>3, <1>4 DEF m, n

\* The events that a chain still holds come after its first one.
LEMMA AfterHead ==
  ASSUME NEW c \in Seq(Nat), c # <<>>, Ascending(c)
  PROVE  /\ Head(c) = c[1] /\ 1 \in DOMAIN c /\ Head(c) \in Nat
         /\ Ascending(Tail(c)) /\ \A k \in DOMAIN Tail(c) : Tail(c)[k] \in Nat /\ Head(c) < Tail(c)[k]
<1>1. /\ Head(c) = c[1] /\ Head(c) \in Nat /\ 1 \in DOMAIN c
      /\ DOMAIN Tail(c) \subseteq Nat \ {0} /\ \A k \in DOMAIN c : c[k] \in Nat
      /\ \A k \in DOMAIN Tail(c) : k + 1 \in DOMAIN c /\ Tail(c)[k] = c[k + 1]
  BY TailFacts
<1>2. \A k \in DOMAIN Tail(c) : Tail(c)[k] \in Nat /\ c[1] < Tail(c)[k]
  BY <1>1 DEF Ascending
<1>3. Ascending(Tail(c))
  BY <1>1 DEF Ascending
<1>4. QED
  BY <1>1, <1>2, <1>3

\* A line of the chain, written at the end of a file that is in step.
LEMMA WrittenInStep ==
  ASSUME NEW l \in Logger, NEW e \in Nat, e <= MaxEvents, Coherent(l, e), l.busy = "writing",
         NEW ev, ev = Head(l.chain), ev \in 1..e,
         NEW m \in Logger, m.busy = "no", m.chain = Tail(l.chain), m.held = <<>>,
         m.size = l.size + LineSize[ev], m.at = l.at + LineSize[ev], m.stream = l.stream,
         NEW f \in Seq(Part), InStep(l, f), SoundFile(f), FileWithin(f, e),
         NEW g, Extended(f, ev, g)
  PROVE  SoundFile(g) /\ FileWithin(g, e) /\ InStep(m, g)
<1>1. /\ l.chain \in Seq(Nat) /\ l.chain # <<>> /\ Ascending(l.chain) /\ FileBefore(f, l.chain)
  BY DEF Logger, Coherent, InStep
<1>2. /\ l.size = Len(f) /\ (l.size = 0 \/ l.size + LineSize[ev] <= MaxFileSize) /\ l.size \in Nat
      /\ l.stream = "write" => l.at = l.size
  BY DEF Logger, Coherent, InStep
<1> DEFINE t == Tail(l.chain)
<1>3. /\ ev = l.chain[1] /\ 1 \in DOMAIN l.chain /\ Ascending(t)
      /\ \A k \in DOMAIN t : t[k] \in Nat /\ ev < t[k]
  BY <1>1, AfterHead
<1> HIDE DEF t
<1>4. \A k \in DOMAIN f : f[k].ev < ev
  BY <1>1, <1>3 DEF FileBefore
<1>5. /\ SoundFile(g) /\ FileWithin(g, e)
      /\ \A k \in DOMAIN g : g[k].ev \in Nat /\ g[k].ev <= ev
  BY <1>2, <1>4, ExtendedSound
<1>6. FileBefore(g, t) /\ FileBefore(g, <<>>) /\ Ascending(<<>>)
  BY <1>3, <1>5 DEF FileBefore, Ascending
<1>7. m.size = Len(g) /\ (m.stream = "write" => m.at = m.size)
  BY <1>2 DEF Extended
<1>8. InStep(m, g)
  BY <1>3, <1>6, <1>7 DEF InStep, t
<1>9. QED
  BY <1>5, <1>8

\* A line that is written keeps the invariant of the log: it goes to the end of the file.
LEMMA WrittenKeeps ==
  ASSUME LogInv, NEW i \in DOMAIN logs, Written(i)
  PROVE  LogInv'
<1> USE DEF LogInv, LogTypes
<1> DEFINE l == logs[i]
           ev == Head(l.chain)
           m == LineWritten(l)
<1>1. /\ l \in Logger /\ Coherent(l, events) /\ l.busy = "writing"
      /\ events \in Nat /\ events <= MaxEvents /\ logs \in Seq(Logger) /\ file \in Seq(Part)
  BY DEF Written
<1>2. /\ file' = Taken(l, ev) /\ written' = written \cup {ev}
      /\ logs' = [logs EXCEPT ![i] = WriteLine(m)]
      /\ UNCHANGED <<current, readyOf, events, failures, excused, overlapped>>
  BY DEF Written
<1> HIDE DEF l, m, LogInv
<1>3. /\ ev \in 1..events /\ l.stream # "none"
      /\ m \in Logger /\ m.busy = "no" /\ m.chain = Tail(l.chain)
      /\ m.size = l.size + LineSize[ev] /\ m.at = l.at + LineSize[ev]
      /\ m.stream = l.stream /\ m.held = <<>> /\ Within(m.chain, events)
      /\ WriteLine(m) \in Logger /\ Coherent(WriteLine(m), events)
  BY <1>1, WriteKeeps DEF m, ev
<1>e. ev = Head(l.chain) /\ ev \in 1..MaxEvents
  BY <1>1, <1>3
<1> HIDE DEF ev
<1>4. /\ logs' \in Seq(Logger) /\ Len(logs') = Len(logs) /\ DOMAIN logs' = DOMAIN logs
      /\ logs'[i] = WriteLine(m) /\ \A j \in DOMAIN logs : j # i => logs'[j] = logs[j]
  BY <1>1, <1>2, <1>3, Replaced
<1>5. file' \in Seq(Part)
  BY <1>1, <1>2, <1>e, TakenIsSequence
<1>6. LogTypes'
  BY <1>2, <1>3, <1>4, <1>5 DEF LogInv
<1>7. ASSUME ~overlapped
      PROVE  InStepUnlessOverlapped'
  <2>1. i = Len(logs) /\ InStep(l, file) /\ SoundFile(file) /\ FileWithin(file, events)
    BY <1>1, <1>7 DEF InStepUnlessOverlapped, Idle, Coherent, LogInv, l
  <2>2. Extended(file, ev, file')
    BY <1>1, <1>2, <1>3, <1>e, <2>1, TakenAppends
  <2>3. SoundFile(file') /\ FileWithin(file', events) /\ InStep(m, file')
    BY <1>1, <1>3, <1>e, <2>1, <2>2, WrittenInStep
  <2>4. InStep(WriteLine(m), file')
    BY <1>1, <1>3, <2>3, WriteLineInStep
  <2>5. QED
    BY <1>2, <1>4, <1>7, <2>1, <2>3, <2>4 DEF InStepUnlessOverlapped, LogInv
<1>8. QED
  BY <1>2, <1>6, <1>7 DEF InStepUnlessOverlapped, LogInv

Instance ==
  [wss : {"none", "binding", "listening", "failed"}, port : 0..NPorts, left : Seq(Ports),
   running : BOOLEAN, retry : BOOLEAN, closing : Nat]

\* A server or a retry pending: what a start leaves behind and a stop takes away.
Active(s) == s.wss # "none" \/ s.retry

Settled == phase \in {"off", "disabled", "follower"}

\* The values of the other variables.
RoleTypes ==
  /\ phase \in {"off", "disabled", "follower", "owner", "stopping"}
  /\ service \in {"websocket", "log"}
  /\ wsEnabled \in BOOLEAN /\ queue \in BOOLEAN /\ early \in BOOLEAN
  /\ inst \in Seq(Instance) /\ singleton \in 0..Len(inst) /\ Len(inst) <= terms
  /\ taken \subseteq Ports
  /\ terms \in 0..MaxTerms /\ cycles \in 0..MaxCycles
  /\ moves \in 0..MaxMoves /\ faults \in 0..MaxFaults
  /\ service = "log" => inst = <<>>
  /\ service = "websocket" => logs = <<>>

\* A retry is pending only on an instance without a server that may start.
RetryIdle == \A i \in DOMAIN inst : inst[i].retry => inst[i].wss = "none" /\ ~inst[i].running

\* Every stop() that waits is that of a promotion of its own.
StopsPaid ==
  \A i \in DOMAIN inst :
    inst[i].closing <= terms /\ (Active(inst[i]) => inst[i].closing < terms)

\* Unless a promotion was early: nothing is active outside owner and stopping, and a
\* singleton is then one whose clients are waited for; nobody waits while the runtime owns.
RoleFollowed ==
  ~early =>
    /\ Settled => ~queue /\ current = 0 /\ \A i \in DOMAIN inst : ~Active(inst[i])
    /\ Settled /\ singleton # 0 => inst[singleton].closing > 0
    /\ \A i \in DOMAIN inst : i # singleton => ~Active(inst[i])
    /\ (\E i \in DOMAIN inst : inst[i].closing > 0) =>
         phase # "owner" /\ \A i \in DOMAIN inst : ~Active(inst[i])
    /\ service = "websocket" /\ phase = "owner" => singleton # 0 /\ Active(inst[singleton])
    /\ service = "log" /\ phase = "owner" /\ failures = 0 => current # 0

RoleInv == RoleTypes /\ RetryIdle /\ StopsPaid /\ RoleFollowed

\* tryStartNextPort leaves an instance active: with a server, or with a retry.
LEMMA NextPortTried ==
  ASSUME NEW s \in Instance, s.wss = "none", ~s.retry
  PROVE  LET t == TryStartNextPort(s)
         IN /\ t \in Instance /\ Active(t) /\ t.closing = s.closing
            /\ t.retry => t.wss = "none" /\ ~t.running
<1>1. CASE s.left = <<>>
  BY <1>1 DEF TryStartNextPort, Instance, Active
<1>2. CASE s.left # <<>>
  <2>1. s.left \in Seq(Ports)
    BY DEF Instance
  <2>2. Head(s.left) \in Ports /\ Tail(s.left) \in Seq(Ports)
    BY <1>2, <2>1, HeadTailProperties
  <2>3. Head(s.left) \in 0..NPorts
    BY <2>2 DEF Ports
  <2> DEFINE p == Head(s.left)
             q == Tail(s.left)
  <2>4. TryStartNextPort(s) = [s EXCEPT !.wss = "binding", !.port = p, !.left = q]
    BY <1>2 DEF TryStartNextPort
  <2> HIDE DEF p, q
  <2>5. QED
    BY <2>2, <2>3, <2>4 DEF Instance, Active, p, q
<1>3. QED
  BY <1>1, <1>2

\* start() of an instance that neither runs nor has a server leaves it active.
LEMMA StartTried ==
  ASSUME NEW s \in Instance, s.retry => s.wss = "none" /\ ~s.running
  PROVE  LET t == Started(s)
         IN /\ t \in Instance /\ t.closing = s.closing
            /\ t.retry => t.wss = "none" /\ ~t.running
            /\ s.wss = "none" /\ ~s.running => Active(t)
<1>1. CASE s.running \/ s.wss # "none"
  BY <1>1 DEF Started
<1>2. CASE ~(s.running \/ s.wss # "none")
  <2> DEFINE r == [s EXCEPT !.retry = FALSE, !.left = configuredPorts]
  <2>1. configuredPorts \in Seq(Ports)
    BY DEF configuredPorts, Ports
  <2>2. r \in Instance /\ r.wss = "none" /\ ~r.retry /\ r.closing = s.closing
    BY <1>2, <2>1 DEF Instance
  <2>3. Started(s) = TryStartNextPort(r)
    BY <1>2 DEF Started
  <2> HIDE DEF r
  <2>4. QED
    BY <2>2, <2>3, NextPortTried
<1>3. QED
  BY <1>1, <1>2

\* What stopBroadcastServer leaves behind.
LEMMA ServerStopped ==
  ASSUME inst \in Seq(Instance), singleton \in 0..Len(inst), StopBroadcastServer
  PROVE  /\ inst' \in Seq(Instance) /\ Len(inst') = Len(inst) /\ DOMAIN inst' = DOMAIN inst
         /\ singleton' \in {0, singleton}
         /\ \A j \in DOMAIN inst : j # singleton => inst'[j] = inst[j]
         /\ singleton # 0 =>
              /\ ~Active(inst'[singleton])
              /\ inst'[singleton].closing \in Nat
              /\ IF inst[singleton].wss = "listening"
                 THEN inst'[singleton].closing = inst[singleton].closing + 1
                 ELSE inst'[singleton].closing = inst[singleton].closing /\ singleton' = 0
<1>1. CASE singleton = 0
  BY <1>1 DEF StopBroadcastServer, servers
<1>2. CASE singleton # 0
  <2> DEFINE s == inst[singleton]
             stopped == [s EXCEPT !.retry = FALSE, !.wss = "none"]
  <2>1. singleton \in DOMAIN inst /\ s \in Instance
    BY <1>2
  <2>2. stopped \in Instance /\ ~Active(stopped) /\ stopped.closing = s.closing /\ s.closing \in Nat
    <3> HIDE DEF s
    <3>1. QED
      BY <2>1 DEF Instance, Active
  <2>3. CASE s.wss = "none"
    <3>1. inst' = [inst EXCEPT ![singleton] = stopped] /\ singleton' = 0
      BY <1>2, <2>3 DEF StopBroadcastServer
    <3> HIDE DEF stopped
    <3>2. QED
      BY <2>1, <2>2, <2>3, <3>1, Replaced
  <2>4. CASE s.wss = "listening"
    <3> DEFINE t == [stopped EXCEPT !.closing = @ + 1]
    <3>1. inst' = [inst EXCEPT ![singleton] = t] /\ singleton' = singleton
      BY <1>2, <2>4 DEF StopBroadcastServer
    <3> HIDE DEF stopped, s
    <3>2. t \in Instance /\ ~Active(t) /\ t.closing = s.closing + 1
      <4> DEFINE n == stopped.closing + 1
      <4>1. n \in Nat /\ n = s.closing + 1 /\ t = [stopped EXCEPT !.closing = n]
        BY <2>2
      <4> HIDE DEF n, t
      <4>2. QED
        BY <2>2, <4>1 DEF Instance, Active
    <3> HIDE DEF t
    <3>3. QED
      BY <2>1, <2>2, <2>4, <3>1, <3>2, Replaced DEF s
  <2>5. CASE s.wss \notin {"none", "listening"}
    <3> DEFINE t == [stopped EXCEPT !.running = FALSE]
    <3>1. inst' = [inst EXCEPT ![singleton] = t] /\ singleton' = 0
      BY <1>2, <2>5 DEF StopBroadcastServer
    <3> HIDE DEF stopped, s
    <3>2. t \in Instance /\ ~Active(t) /\ t.closing = s.closing
      BY <2>2 DEF Instance, Active
    <3> HIDE DEF t
    <3>3. QED
      BY <2>1, <2>2, <2>5, <3>1, <3>2, Replaced DEF s
  <2>6. QED
    BY <2>3, <2>4, <2>5
<1>3. QED
  BY <1>1, <1>2

\* The instances of a sequence of instances.
LEMMA InstanceFacts ==
  ASSUME NEW s \in Seq(Instance)
  PROVE  \A i \in DOMAIN s : s[i] \in Instance /\ s[i].closing \in Nat
<1>1. \A i \in DOMAIN s : s[i] \in Instance
  OBVIOUS
<1>2. QED
  BY <1>1 DEF Instance

\* A callback of one instance that neither begins nor ends its activity.
LEMMA CallbackKeeps ==
  ASSUME RoleInv, NEW i \in DOMAIN inst, NEW t \in Instance,
         t.retry => t.wss = "none" /\ ~t.running,
         t.closing = inst[i].closing, Active(t) <=> Active(inst[i]),
         inst' = [inst EXCEPT ![i] = t],
         faults' \in 0..MaxFaults,
         UNCHANGED <<plugin, singleton, taken, terms, cycles, moves, early, logVars>>
  PROVE  RoleInv'
<1>1. /\ inst' \in Seq(Instance) /\ Len(inst') = Len(inst) /\ DOMAIN inst' = DOMAIN inst
      /\ inst'[i] = t /\ \A j \in DOMAIN inst : j # i => inst'[j] = inst[j]
  BY Replaced DEF RoleInv, RoleTypes
<1>2. /\ \A j \in DOMAIN inst :
           inst'[j].closing = inst[j].closing /\ (Active(inst'[j]) <=> Active(inst[j]))
  BY <1>1
<1>3. RoleTypes'
  BY <1>1 DEF RoleInv, RoleTypes, plugin, logVars
<1>4. RetryIdle'
  BY <1>1 DEF RoleInv, RetryIdle
<1>5. StopsPaid'
  BY <1>1, <1>2 DEF RoleInv, StopsPaid
<1>6. RoleFollowed'
  <2>1. singleton # 0 => singleton \in DOMAIN inst
    BY DEF RoleInv, RoleTypes
  <2>2. QED
    BY <1>1, <1>2, <2>1 DEF RoleInv, RoleFollowed, Settled, plugin, logVars
<1>7. QED
  BY <1>3, <1>4, <1>5, <1>6 DEF RoleInv

\* A stop() that completes late keeps the invariant of the roles: unless a promotion was
\* early, the singleton it makes the plugin forget has nothing left to stop.
LEMMA ClosedKeeps ==
  ASSUME RoleInv, NEW i \in DOMAIN inst, Closed(i)
  PROVE  RoleInv'
<1> DEFINE n == inst[i].closing - 1
           t == [inst[i] EXCEPT !.closing = n, !.running = FALSE]
<1>1. /\ inst[i] \in Instance /\ n \in Nat /\ inst[i].closing \in Nat /\ inst[i].closing > 0
      /\ inst' = [inst EXCEPT ![i] = t] /\ singleton' = 0
      /\ UNCHANGED <<plugin, taken, counts, early, logVars>>
  <2>1. inst[i] \in Instance /\ inst[i].closing \in Nat
    BY InstanceFacts DEF RoleInv, RoleTypes
  <2>2. inst[i].closing > 0 /\ inst' = [inst EXCEPT ![i] = t] /\ singleton' = 0
        /\ UNCHANGED <<plugin, taken, counts, early, logVars>>
    BY DEF Closed
  <2>3. QED
    BY <2>1, <2>2
<1> HIDE DEF n
<1>2. /\ t \in Instance /\ (Active(t) <=> Active(inst[i])) /\ t.closing = n
      /\ t.retry = inst[i].retry /\ t.wss = inst[i].wss /\ ~t.running
  BY <1>1 DEF Instance, Active
<1> HIDE DEF t
<1>3. /\ inst' \in Seq(Instance) /\ Len(inst') = Len(inst) /\ DOMAIN inst' = DOMAIN inst
      /\ inst'[i] = t /\ \A j \in DOMAIN inst : j # i => inst'[j] = inst[j]
  BY <1>1, <1>2, Replaced DEF RoleInv, RoleTypes
<1>4. RoleTypes'
  BY <1>1, <1>3 DEF RoleInv, RoleTypes, plugin, counts, logVars
<1>5. RetryIdle'
  BY <1>2, <1>3 DEF RoleInv, RetryIdle
<1>6. StopsPaid'
  <2>1. terms \in Nat /\ terms' = terms
    BY <1>1 DEF RoleInv, RoleTypes, counts
  <2>2. n < inst[i].closing /\ \A j \in DOMAIN inst : inst[j].closing \in Nat
    BY <1>1, InstanceFacts, SMTT(30) DEF n, RoleInv, RoleTypes
  <2>3. \A j \in DOMAIN inst' :
          inst'[j].closing <= inst[j].closing /\ inst'[j].closing \in Nat
          /\ (Active(inst'[j]) <=> Active(inst[j]))
    BY <1>1, <1>2, <1>3, <2>2
  <2>4. QED
    BY <1>3, <2>1, <2>2, <2>3 DEF RoleInv, StopsPaid
<1>7. RoleFollowed'
  <2>1. ~early => phase # "owner" /\ \A j \in DOMAIN inst : ~Active(inst[j])
    BY <1>1 DEF RoleInv, RoleFollowed
  <2>2. ~early => \A j \in DOMAIN inst : ~Active(inst'[j])
    BY <1>2, <1>3, <2>1
  <2>3. QED
    BY <1>1, <1>3, <2>1, <2>2 DEF RoleInv, RoleFollowed, Settled, plugin, logVars
<1>8. QED
  BY <1>4, <1>5, <1>6, <1>7 DEF RoleInv

\* A server of an instance that just stopped: what stopBroadcastServer leaves of the
\* invariant, whatever the phase becomes.
LEMMA StopKeeps ==
  ASSUME RoleTypes, RetryIdle, StopsPaid, StopBroadcastServer, terms' >= terms, terms' \in Nat
  PROVE  RetryIdle' /\ StopsPaid' /\ inst' \in Seq(Instance) /\ Len(inst') = Len(inst)
         /\ singleton' \in 0..Len(inst')
<1>1. /\ inst \in Seq(Instance) /\ singleton \in 0..Len(inst) /\ terms \in Nat
      /\ singleton # 0 => singleton \in DOMAIN inst
      /\ \A i \in DOMAIN inst : inst[i].closing \in Nat
  BY InstanceFacts DEF RoleTypes
<1>2. /\ inst' \in Seq(Instance) /\ Len(inst') = Len(inst) /\ DOMAIN inst' = DOMAIN inst
      /\ singleton' \in {0, singleton}
      /\ \A j \in DOMAIN inst : j # singleton => inst'[j] = inst[j]
      /\ singleton # 0 =>
           /\ ~Active(inst'[singleton])
           /\ IF inst[singleton].wss = "listening"
              THEN inst'[singleton].closing = inst[singleton].closing + 1
              ELSE inst'[singleton].closing = inst[singleton].closing
  BY <1>1, ServerStopped
<1>3. singleton # 0 /\ inst[singleton].wss = "listening" => inst[singleton].closing < terms
  BY <1>1 DEF StopsPaid, Active
<1>4. RetryIdle'
  BY <1>2 DEF RetryIdle, Active
<1>5. StopsPaid'
  BY <1>1, <1>2, <1>3 DEF StopsPaid
<1>6. QED
  BY <1>1, <1>2, <1>4, <1>5

\* A demotion or the end of a deactivation: everything is stopped at once, except for
\* the clients that are waited for.
LEMMA LeaveKeeps ==
  ASSUME RoleInv, StopBroadcastServer, StopLog,
         phase' \in {"off", "follower"}, wsEnabled' \in BOOLEAN, queue' = FALSE,
         UNCHANGED <<service, taken, counts, early>>
  PROVE  RoleInv'
<1> USE DEF counts
<1>1. /\ inst \in Seq(Instance) /\ singleton \in 0..Len(inst) /\ terms' = terms /\ terms \in Nat
  BY DEF RoleInv, RoleTypes
<1>2. RetryIdle' /\ StopsPaid' /\ inst' \in Seq(Instance) /\ Len(inst') = Len(inst)
      /\ singleton' \in 0..Len(inst')
  BY <1>1, StopKeeps DEF RoleInv
<1>3. inst' = <<>> <=> inst = <<>>
  BY <1>1, <1>2
<1>4. logs' = <<>> <=> logs = <<>>
  BY DEF StopLog
<1>5. RoleTypes'
  BY <1>2, <1>3, <1>4 DEF RoleInv, RoleTypes
<1>6. ASSUME ~early
      PROVE  RoleFollowed'
  <2>1. DOMAIN inst' = DOMAIN inst /\ \A i \in DOMAIN inst' : ~Active(inst'[i])
    BY <1>1, <1>6, ServerStopped DEF RoleInv, RoleFollowed
  <2>2. singleton' # 0 => inst'[singleton'].closing > 0
    <3>1. CASE singleton = 0
      BY <1>1, <3>1, ServerStopped
    <3>2. CASE singleton # 0
      <4>1. inst[singleton].closing \in Nat
        BY <1>1, <3>2, InstanceFacts
      <4>2. QED
        BY <1>1, <3>2, <4>1, ServerStopped
    <3>3. QED
      BY <3>1, <3>2
  <2>3. current' = 0
    BY DEF StopLog
  <2>4. QED
    BY <2>1, <2>2, <2>3 DEF RoleFollowed, Settled
<1>7. RoleFollowed'
  BY <1>6 DEF RoleFollowed
<1>8. QED
  BY <1>2, <1>5, <1>7 DEF RoleInv

\* A plugin that is turned off by its configuration stops what an earlier life left.
LEMMA DisableKeeps ==
  ASSUME RoleInv, phase = "off", StopBroadcastServer,
         phase' = "disabled", wsEnabled' = FALSE,
         UNCHANGED <<service, queue, taken, counts, early, logVars>>
  PROVE  RoleInv'
<1> USE DEF counts, logVars
<1>1. /\ inst \in Seq(Instance) /\ singleton \in 0..Len(inst) /\ terms' = terms /\ terms \in Nat
  BY DEF RoleInv, RoleTypes
<1>2. RetryIdle' /\ StopsPaid' /\ inst' \in Seq(Instance) /\ Len(inst') = Len(inst)
      /\ singleton' \in 0..Len(inst')
  BY <1>1, StopKeeps DEF RoleInv
<1>3. inst' = <<>> <=> inst = <<>>
  BY <1>1, <1>2
<1>4. RoleTypes'
  BY <1>2, <1>3 DEF RoleInv, RoleTypes
<1>5. ASSUME ~early
      PROVE  RoleFollowed'
  <2>1. DOMAIN inst' = DOMAIN inst /\ \A i \in DOMAIN inst' : ~Active(inst'[i])
    BY <1>1, <1>5, ServerStopped DEF RoleInv, RoleFollowed
  <2>2. singleton # 0 => inst[singleton].wss = "none"
    BY <1>1, <1>5 DEF RoleInv, RoleFollowed, Settled, Active
  <2>3. singleton' = 0
    BY <1>1, <2>2, ServerStopped
  <2>4. ~queue /\ current = 0
    BY <1>5 DEF RoleInv, RoleFollowed, Settled
  <2>5. QED
    BY <2>1, <2>3, <2>4 DEF RoleFollowed, Settled
<1>6. RoleFollowed'
  BY <1>5 DEF RoleFollowed
<1>7. QED
  BY <1>2, <1>4, <1>6 DEF RoleInv

\* What startBroadcastServer leaves behind.
LEMMA ServerStarted ==
  ASSUME inst \in Seq(Instance), singleton \in 0..Len(inst), RetryIdle, StartBroadcastServer
  PROVE  /\ inst' \in Seq(Instance) /\ Len(inst') \in {Len(inst), Len(inst) + 1}
         /\ singleton' \in DOMAIN inst'
         /\ singleton' = IF singleton = 0 THEN Len(inst) + 1 ELSE singleton
         /\ Len(inst') = IF singleton = 0 THEN Len(inst) + 1 ELSE Len(inst)
         /\ \A j \in DOMAIN inst' : j # singleton' => j \in DOMAIN inst /\ inst'[j] = inst[j]
         /\ inst'[singleton'].retry => inst'[singleton'].wss = "none" /\ ~inst'[singleton'].running
         /\ inst'[singleton'].closing = IF singleton = 0 THEN 0 ELSE inst[singleton].closing
         /\ singleton = 0 => Active(inst'[singleton'])
<1>1. CASE singleton = 0
  <2> DEFINE known == Append(inst, NewInstance)
             i == Len(inst) + 1
  <2>1. NewInstance \in Instance /\ NewInstance.closing = 0 /\ ~NewInstance.retry
        /\ NewInstance.wss = "none" /\ ~NewInstance.running
    BY DEF NewInstance, Instance
  <2>2. /\ known \in Seq(Instance) /\ Len(known) = i /\ DOMAIN known = 1..i /\ i \in DOMAIN known
        /\ known[i] = NewInstance /\ \A j \in 1..Len(inst) : known[j] = inst[j]
        /\ DOMAIN inst = 1..Len(inst) /\ Len(inst) \in Nat
    BY <2>1, AppendFacts
  <2>3. singleton' = i /\ inst' = [known EXCEPT ![i] = Started(NewInstance)]
    BY <1>1, <2>2 DEF StartBroadcastServer
  <2> HIDE DEF known
  <2>4. LET t == Started(NewInstance)
        IN t \in Instance /\ t.closing = 0 /\ Active(t)
           /\ (t.retry => t.wss = "none" /\ ~t.running)
    BY <2>1, StartTried
  <2>5. /\ inst' \in Seq(Instance) /\ Len(inst') = Len(known) /\ DOMAIN inst' = DOMAIN known
        /\ inst'[i] = Started(NewInstance) /\ \A j \in DOMAIN known : j # i => inst'[j] = known[j]
    BY <2>2, <2>3, <2>4, Replaced
  <2>6. \A j \in DOMAIN inst' : j # singleton' => j \in DOMAIN inst /\ inst'[j] = inst[j]
    BY <2>2, <2>3, <2>5
  <2>7. singleton' \in DOMAIN inst' /\ singleton' = Len(inst) + 1 /\ Len(inst') = Len(inst) + 1
    BY <2>2, <2>3, <2>5
  <2> HIDE DEF i
  <2>8. inst'[singleton'] = Started(NewInstance)
    BY <2>3, <2>5
  <2>9. QED
    BY <1>1, <2>4, <2>5, <2>6, <2>7, <2>8
<1>2. CASE singleton # 0
  <2> DEFINE t == Started(inst[singleton])
  <2>1. singleton \in DOMAIN inst /\ inst[singleton] \in Instance /\ Len(inst) \in Nat
    BY <1>2
  <2>2. singleton' = singleton /\ inst' = [inst EXCEPT ![singleton] = t]
    BY <1>2 DEF StartBroadcastServer
  <2>3. t \in Instance /\ t.closing = inst[singleton].closing
        /\ (t.retry => t.wss = "none" /\ ~t.running)
    BY <2>1, StartTried DEF RetryIdle
  <2> HIDE DEF t
  <2>4. /\ inst' \in Seq(Instance) /\ Len(inst') = Len(inst) /\ DOMAIN inst' = DOMAIN inst
        /\ inst'[singleton] = t /\ \A j \in DOMAIN inst : j # singleton => inst'[j] = inst[j]
    BY <2>1, <2>2, <2>3, Replaced
  <2>5. QED
    BY <1>2, <2>1, <2>2, <2>3, <2>4
<1>3. QED
  BY <1>1, <1>2

\* A promotion.
LEMMA PromotionKeeps ==
  ASSUME RoleInv, LogInv, phase \in {"off", "follower"}, BecomeOwner,
         UNCHANGED <<service, taken, cycles, moves, faults>>
  PROVE  RoleInv'
<1>1. /\ inst \in Seq(Instance) /\ singleton \in 0..Len(inst) /\ terms \in Nat
      /\ terms' = terms + 1 /\ terms' \in 0..MaxTerms /\ Len(inst) <= terms
      /\ phase' = "owner" /\ queue' = TRUE /\ wsEnabled' \in BOOLEAN /\ early' \in BOOLEAN
  BY DEF RoleInv, RoleTypes, BecomeOwner, MaybeStartWebSocketServer
<1>2. Settled
  BY DEF Settled
<1>3. ASSUME ~early'
      PROVE  /\ ~early /\ singleton = 0
             /\ \A i \in DOMAIN inst : inst[i].closing = 0 /\ ~Active(inst[i])
  <2>1. ~early /\ \A i \in DOMAIN inst : ~(inst[i].closing > 0)
    BY <1>3 DEF BecomeOwner
  <2>2. \A i \in DOMAIN inst : inst[i].closing = 0
    BY <1>1, <2>1, InstanceFacts
  <2>3. singleton = 0
    BY <1>1, <1>2, <2>1 DEF RoleInv, RoleFollowed
  <2>4. QED
    BY <1>2, <2>1, <2>2, <2>3 DEF RoleInv, RoleFollowed
<1>4. CASE service = "websocket"
  <2>1. StartBroadcastServer /\ UNCHANGED logVars
    BY <1>4 DEF BecomeOwner, MaybeStartWebSocketServer
  <2>2. /\ inst' \in Seq(Instance)
        /\ singleton' \in DOMAIN inst'
        /\ singleton' = IF singleton = 0 THEN Len(inst) + 1 ELSE singleton
        /\ Len(inst') = IF singleton = 0 THEN Len(inst) + 1 ELSE Len(inst)
        /\ \A j \in DOMAIN inst' : j # singleton' => j \in DOMAIN inst /\ inst'[j] = inst[j]
        /\ inst'[singleton'].retry => inst'[singleton'].wss = "none" /\ ~inst'[singleton'].running
        /\ inst'[singleton'].closing = IF singleton = 0 THEN 0 ELSE inst[singleton].closing
        /\ singleton = 0 => Active(inst'[singleton'])
    BY <1>1, <2>1, ServerStarted DEF RoleInv
  <2>3. RoleTypes'
    BY <1>1, <1>4, <2>1, <2>2 DEF RoleInv, RoleTypes, logVars
  <2>4. RetryIdle'
    BY <2>2 DEF RoleInv, RetryIdle
  <2>5. StopsPaid'
    <3>1. ASSUME NEW j \in DOMAIN inst'
          PROVE  inst'[j].closing <= terms
      <4>1. CASE j # singleton'
        BY <2>2, <4>1 DEF RoleInv, StopsPaid
      <4>2. CASE j = singleton' /\ singleton = 0
        BY <1>1, <2>2, <4>2
      <4>3. CASE j = singleton' /\ singleton # 0
        BY <1>1, <2>2, <4>3 DEF RoleInv, StopsPaid
      <4>4. QED
        BY <4>1, <4>2, <4>3
    <3>2. \A j \in DOMAIN inst' : inst'[j].closing \in Nat
      BY <2>2, InstanceFacts
    <3>3. QED
      BY <1>1, <3>1, <3>2 DEF StopsPaid
  <2>6. RoleFollowed'
    <3>1. SUFFICES ASSUME ~early' PROVE RoleFollowed'
      BY DEF RoleFollowed
    <3>2. /\ \A j \in DOMAIN inst' : j # singleton' => ~Active(inst'[j])
          /\ \A j \in DOMAIN inst' : ~(inst'[j].closing > 0)
          /\ Active(inst'[singleton'])
      BY <1>3, <2>2, <3>1
    <3>3. QED
      BY <1>1, <1>4, <2>2, <3>2 DEF RoleFollowed, Settled
  <2>7. QED
    BY <2>3, <2>4, <2>5, <2>6 DEF RoleInv
<1>5. CASE service = "log"
  <2>1. StopBroadcastServer /\ (IF current = 0 THEN StartLog ELSE UNCHANGED logVars)
    BY <1>5 DEF BecomeOwner, MaybeStartWebSocketServer
  <2>2. inst = <<>> /\ singleton = 0
    BY <1>5, <1>1 DEF RoleInv, RoleTypes
  <2>3. inst' = <<>> /\ singleton' = 0
    BY <2>1, <2>2 DEF StopBroadcastServer, servers
  <2>4. current' # 0
    BY <2>1 DEF StartLog, logVars, LogInv, LogTypes
  <2>5. RoleTypes'
    BY <1>1, <1>5, <2>3 DEF RoleInv, RoleTypes
  <2>6. RetryIdle' /\ StopsPaid'
    BY <2>3 DEF RetryIdle, StopsPaid
  <2>7. RoleFollowed'
    BY <1>1, <1>5, <2>3, <2>4 DEF RoleFollowed, Settled
  <2>8. QED
    BY <2>5, <2>6, <2>7 DEF RoleInv
<1>6. QED
  BY <1>4, <1>5 DEF RoleInv, RoleTypes

\* A callback of a logger, or an event that comes.
LEMMA LoggerKeeps ==
  ASSUME RoleInv, LogInv, UNCHANGED rest,
         \/ service = "log" /\ EventComes
         \/ \E i \in DOMAIN logs : Opened(i) \/ StartFails(i) \/ Truncated(i) \/ Written(i)
  PROVE  RoleInv'
<1> USE DEF rest, plugin, servers, counts
<1>1. service = "log"
  BY DEF RoleInv, RoleTypes
<1>2. \/ current' = current /\ failures' = failures
      \/ current' = 0 /\ failures' > 0
  <2>1. CASE EventComes \/ \E i \in DOMAIN logs : Opened(i) \/ Truncated(i) \/ Written(i)
    BY <2>1 DEF EventComes, Opened, Truncated, Written
  <2>2. CASE \E i \in DOMAIN logs : StartFails(i)
    <3>1. failures \in Nat
      BY DEF LogInv, LogTypes
    <3>2. current' = 0 /\ failures' = failures + 1
      BY <2>2 DEF StartFails
    <3>3. QED
      BY <3>1, <3>2
  <2>3. QED
    BY <2>1, <2>2
<1>3. RoleTypes' /\ RetryIdle' /\ StopsPaid'
  BY <1>1 DEF RoleInv, RoleTypes, RetryIdle, StopsPaid
<1>4. RoleFollowed'
  BY <1>1, <1>2 DEF RoleInv, RoleFollowed, Settled
<1>5. QED
  BY <1>3, <1>4 DEF RoleInv

\* Every step keeps what is known of the loggers.
LEMMA LogStep == LogInv /\ [Next]_vars => LogInv'
<1> SUFFICES ASSUME LogInv, [Next]_vars PROVE LogInv'
  OBVIOUS
<1>1. CASE UNCHANGED logVars
  BY <1>1 DEF logVars, LogInv, LogTypes, InStepUnlessOverlapped
<1>2. CASE StartLog
  BY <1>2, StartLogKeeps
<1>3. CASE StopLog
  BY <1>3, StopLogKeeps
<1>4. CASE EventComes
  BY <1>4, EventComesKeeps
<1>5. CASE \E i \in DOMAIN logs : Opened(i)
  BY <1>5, OpenedKeeps
<1>6. CASE \E i \in DOMAIN logs : StartFails(i)
  BY <1>6, StartFailsKeeps
<1>7. CASE \E i \in DOMAIN logs : Truncated(i)
  BY <1>7, TruncatedKeeps
<1>8. CASE \E i \in DOMAIN logs : Written(i)
  BY <1>8, WrittenKeeps
<1>9. CASE BecomeOwner
  BY <1>1, <1>2, <1>9 DEF BecomeOwner
<1>10. CASE Activate \/ Promote \/ Demote \/ Deactivate \/ ResetState
  BY <1>1, <1>3, <1>9, <1>10 DEF Activate, Promote, Demote, Deactivate, ResetState
<1>11. CASE \E i \in DOMAIN inst :
             Listening(i) \/ AddressInUse(i) \/ ServerError(i) \/ Closed(i) \/ RetryTimer(i)
  BY <1>1, <1>11 DEF Listening, AddressInUse, ServerError, Closed, RetryTimer
<1>12. CASE PortMoves
  BY <1>1, <1>12 DEF PortMoves
<1>13. CASE phase = "owner" /\ LogEvent
  BY <1>4, <1>13 DEF LogEvent
<1>14. CASE \E i \in DOMAIN logs : LogOpened(i) \/ LogStartFails(i) \/ LogGoesOn(i)
  BY <1>5, <1>6, <1>7, <1>8, <1>14 DEF LogOpened, LogStartFails, LogGoesOn
<1>15. CASE UNCHANGED vars
  BY <1>1, <1>15 DEF vars
<1>16. QED
  BY <1>10, <1>11, <1>12, <1>13, <1>14, <1>15 DEF Next

\* Every step keeps role, servers and retries in step.
LEMMA RoleStep == RoleInv /\ LogInv /\ [Next]_vars => RoleInv'
<1> SUFFICES ASSUME RoleInv, LogInv, [Next]_vars PROVE RoleInv'
  OBVIOUS
<1>1. CASE Activate
  <2>1. CASE BecomeOwner
    BY <1>1, <2>1, PromotionKeeps DEF Activate
  <2>2. CASE phase' = "follower" /\ UNCHANGED <<wsEnabled, queue, servers, terms, early, logVars>>
    BY <1>1, <2>2 DEF Activate, servers, logVars, RoleInv, RoleTypes, RetryIdle, StopsPaid,
                      RoleFollowed, Settled
  <2>3. CASE /\ phase' = "disabled" /\ wsEnabled' = FALSE
             /\ StopBroadcastServer
             /\ UNCHANGED <<queue, terms, early, logVars>>
    BY <1>1, <2>3, DisableKeeps DEF Activate, counts
  <2>4. QED
    BY <1>1, <2>1, <2>2, <2>3 DEF Activate
<1>2. CASE Promote
  BY <1>2, PromotionKeeps DEF Promote
<1>3. CASE Demote
  BY <1>3, LeaveKeeps DEF Demote
<1>4. CASE Deactivate
  BY <1>4 DEF Deactivate, servers, logVars, RoleInv, RoleTypes, RetryIdle, StopsPaid,
              RoleFollowed, Settled
<1>5. CASE ResetState
  BY <1>5, LeaveKeeps DEF ResetState
<1>6. ASSUME NEW i \in DOMAIN inst, Listening(i)
      PROVE  RoleInv'
  <2> DEFINE t == [inst[i] EXCEPT !.wss = "listening", !.running = TRUE]
  <2>1. inst[i] \in Instance /\ inst[i].wss = "binding" /\ ~inst[i].retry
    BY <1>6, InstanceFacts DEF Listening, RoleInv, RoleTypes, RetryIdle
  <2>2. inst' = [inst EXCEPT ![i] = t] /\ UNCHANGED <<plugin, singleton, taken, counts, early, logVars>>
    BY <1>6 DEF Listening
  <2>3. /\ t \in Instance /\ t.closing = inst[i].closing /\ (Active(t) <=> Active(inst[i]))
        /\ ~t.retry
    BY <2>1 DEF Instance, Active
  <2> HIDE DEF t
  <2>4. QED
    BY <2>2, <2>3, CallbackKeeps DEF counts, RoleInv, RoleTypes
<1>7. ASSUME NEW i \in DOMAIN inst, AddressInUse(i)
      PROVE  RoleInv'
  <2> DEFINE r == [inst[i] EXCEPT !.wss = "none"]
             t == TryStartNextPort(r)
  <2>1. inst[i] \in Instance /\ inst[i].wss = "binding" /\ ~inst[i].retry
    BY <1>7, InstanceFacts DEF AddressInUse, RoleInv, RoleTypes, RetryIdle
  <2>2. inst' = [inst EXCEPT ![i] = t] /\ UNCHANGED <<plugin, singleton, taken, counts, early, logVars>>
    BY <1>7 DEF AddressInUse
  <2>3. r \in Instance /\ r.wss = "none" /\ ~r.retry /\ r.closing = inst[i].closing /\ Active(inst[i])
    BY <2>1 DEF Instance, Active
  <2> HIDE DEF r
  <2>4. /\ t \in Instance /\ t.closing = inst[i].closing /\ Active(t)
        /\ t.retry => t.wss = "none" /\ ~t.running
    BY <2>3, NextPortTried
  <2> HIDE DEF t
  <2>5. QED
    BY <2>2, <2>3, <2>4, CallbackKeeps DEF counts, RoleInv, RoleTypes
<1>8. ASSUME NEW i \in DOMAIN inst, ServerError(i)
      PROVE  RoleInv'
  <2> DEFINE w == IF inst[i].wss = "binding" THEN "failed" ELSE inst[i].wss
             t == [inst[i] EXCEPT !.wss = w, !.running = FALSE]
  <2>1. inst[i] \in Instance /\ inst[i].wss \in {"binding", "listening"} /\ ~inst[i].retry
    BY <1>8, InstanceFacts DEF ServerError, RoleInv, RoleTypes, RetryIdle
  <2>2. /\ inst' = [inst EXCEPT ![i] = t] /\ faults < MaxFaults /\ faults' = faults + 1
        /\ UNCHANGED <<plugin, singleton, taken, terms, cycles, moves, early, logVars>>
    BY <1>8 DEF ServerError
  <2>3. w \in {"failed", "listening"}
    BY <2>1
  <2> HIDE DEF w
  <2>4. /\ t \in Instance /\ t.closing = inst[i].closing /\ (Active(t) <=> Active(inst[i]))
        /\ ~t.retry
    BY <2>1, <2>3 DEF Instance, Active
  <2>5. faults' \in 0..MaxFaults
    BY <2>2 DEF RoleInv, RoleTypes
  <2> HIDE DEF t
  <2>6. QED
    BY <2>2, <2>4, <2>5, CallbackKeeps
<1>9. ASSUME NEW i \in DOMAIN inst, Closed(i)
      PROVE  RoleInv'
  BY <1>9, ClosedKeeps
<1>10. ASSUME NEW i \in DOMAIN inst, RetryTimer(i)
       PROVE  RoleInv'
  <2> DEFINE r == [inst[i] EXCEPT !.retry = FALSE, !.left = configuredPorts]
             t == TryStartNextPort(r)
  <2>1. inst[i] \in Instance /\ inst[i].retry /\ inst[i].wss = "none" /\ ~inst[i].running
    BY <1>10, InstanceFacts DEF RetryTimer, RoleInv, RoleTypes, RetryIdle
  <2>2. inst' = [inst EXCEPT ![i] = t] /\ UNCHANGED <<plugin, singleton, taken, counts, early, logVars>>
    BY <1>10, <2>1 DEF RetryTimer
  <2>3. configuredPorts \in Seq(Ports)
    BY DEF configuredPorts, Ports
  <2>4. r \in Instance /\ r.wss = "none" /\ ~r.retry /\ r.closing = inst[i].closing /\ Active(inst[i])
    BY <2>1, <2>3 DEF Instance, Active
  <2> HIDE DEF r
  <2>5. /\ t \in Instance /\ t.closing = inst[i].closing /\ Active(t)
        /\ t.retry => t.wss = "none" /\ ~t.running
    BY <2>4, NextPortTried
  <2> HIDE DEF t
  <2>6. QED
    BY <2>2, <2>4, <2>5, CallbackKeeps DEF counts, RoleInv, RoleTypes
<1>11. CASE PortMoves
  <2>1. taken' \subseteq Ports /\ moves' \in 0..MaxMoves
    BY <1>11 DEF PortMoves, RoleInv, RoleTypes
  <2>2. QED
    BY <1>11, <2>1 DEF PortMoves, plugin, servers, logVars, RoleInv, RoleTypes, RetryIdle,
                       StopsPaid, RoleFollowed, Settled
<1>12. CASE phase = "owner" /\ LogEvent
  BY <1>12, LoggerKeeps DEF LogEvent
<1>13. CASE \E i \in DOMAIN logs : LogOpened(i) \/ LogStartFails(i) \/ LogGoesOn(i)
  BY <1>13, LoggerKeeps DEF LogOpened, LogStartFails, LogGoesOn
<1>14. CASE UNCHANGED vars
  BY <1>14 DEF vars, rest, plugin, servers, counts, logVars, RoleInv, RoleTypes, RetryIdle,
               StopsPaid, RoleFollowed, Settled
<1>15. QED
  BY <1>1, <1>2, <1>3, <1>4, <1>5, <1>6, <1>7, <1>8, <1>9, <1>10, <1>11, <1>12, <1>13, <1>14
     DEF Next

\* Both invariants hold initially.
LEMMA InitHolds == Init => LogInv /\ RoleInv
<1> SUFFICES ASSUME Init PROVE LogInv /\ RoleInv
  OBVIOUS
<1>1. LogInv
  <2>1. /\ logs = <<>> /\ file = <<>> /\ current = 0 /\ readyOf = 0 /\ events = 0 /\ failures = 0
        /\ written = {} /\ excused = {} /\ overlapped = FALSE
    BY DEF Init, LogInit
  <2>2. /\ logs \in Seq(Logger) /\ file \in Seq(Part) /\ DOMAIN logs = {} /\ Len(logs) = 0
    BY <2>1
  <2>3. LogTypes
    <3>1. \A i \in DOMAIN logs : Coherent(logs[i], events)
      BY <2>2
    <3>2. written \subseteq 1..events /\ excused \subseteq 1..events
      BY <2>1
    <3>3. events \in Nat /\ events <= MaxEvents /\ failures \in Nat
      BY <2>1
    <3>4. overlapped \in BOOLEAN
      BY <2>1
    <3>5. {current, readyOf} \subseteq {0, Len(logs)} /\ (current = 0 <=> readyOf = 0)
      BY <2>1
    <3>6. QED
      BY <2>2, <3>1, <3>2, <3>3, <3>4, <3>5 DEF LogTypes
  <2>4. SoundFile(file) /\ FileWithin(file, events)
    BY <2>1, EmptySound
  <2>5. InStepUnlessOverlapped
    BY <2>2, <2>4 DEF InStepUnlessOverlapped
  <2>6. QED
    BY <2>3, <2>5 DEF LogInv
<1>2. /\ taken \subseteq Ports /\ inst \in Seq(Instance) /\ Len(inst) = 0 /\ DOMAIN inst = {}
  <2>1. taken \subseteq Ports /\ inst = <<>>
    BY DEF Init
  <2>2. QED
    BY <2>1
<1>3. RoleInv
  <2>1. /\ service \in {"websocket", "log"} /\ phase = "off" /\ wsEnabled = TRUE /\ queue = FALSE
        /\ singleton = 0 /\ inst = <<>> /\ logs = <<>> /\ current = 0 /\ early = FALSE
        /\ terms = 0 /\ cycles = 0 /\ moves = 0 /\ faults = 0
    BY DEF Init, LogInit
  <2>2. RoleTypes
    <3>1. inst \in Seq(Instance) /\ singleton \in 0..Len(inst) /\ Len(inst) <= terms
      BY <1>2, <2>1
    <3>2. /\ terms \in 0..MaxTerms /\ cycles \in 0..MaxCycles
          /\ moves \in 0..MaxMoves /\ faults \in 0..MaxFaults
      BY <2>1
    <3>3. /\ phase \in {"off", "disabled", "follower", "owner", "stopping"}
          /\ service \in {"websocket", "log"}
          /\ wsEnabled \in BOOLEAN /\ queue \in BOOLEAN /\ early \in BOOLEAN
          /\ service = "log" => inst = <<>>
          /\ service = "websocket" => logs = <<>>
      BY <2>1
    <3>4. QED
      BY <1>2, <3>1, <3>2, <3>3 DEF RoleTypes
  <2>3. RetryIdle /\ StopsPaid
    BY <1>2 DEF RetryIdle, StopsPaid
  <2>4. RoleFollowed
    BY <1>2, <2>1 DEF RoleFollowed, Settled
  <2>5. QED
    BY <2>2, <2>3, <2>4 DEF RoleInv
<1>4. QED
  BY <1>1, <1>3

\* Both invariants hold in every reachable state.
LEMMA Inductive == Spec => [](LogInv /\ RoleInv)
<1>1. LogInv /\ RoleInv /\ [Next]_vars => (LogInv /\ RoleInv)'
  BY LogStep, RoleStep
<1>2. QED
  BY <1>1, InitHolds, PTL DEF Spec

\* The variables keep their values, and no instance ever waits for more stop() calls than
\* there were promotions.
THEOREM TypeCorrect == Spec => []TypeOK
<1>1. LogInv /\ RoleInv => TypeOK
  <2> SUFFICES ASSUME LogInv, RoleInv PROVE TypeOK
    OBVIOUS
  <2>1. ASSUME NEW i \in DOMAIN inst
        PROVE  inst[i] \in [wss : {"none", "binding", "listening", "failed"}, port : 0..NPorts,
                            left : Seq(Ports), running : BOOLEAN, retry : BOOLEAN,
                            closing : 0..MaxTerms]
    <3>1. inst[i] \in Instance /\ inst[i].closing \in Nat
      BY InstanceFacts DEF RoleInv, RoleTypes
    <3>2. inst[i].closing \in 0..MaxTerms
      BY <3>1 DEF RoleInv, RoleTypes, StopsPaid
    <3> DEFINE s == inst[i]
    <3> HIDE DEF s
    <3>3. QED
      BY <3>1, <3>2 DEF Instance
  <2>2. /\ phase \in {"off", "disabled", "follower", "owner", "stopping"}
        /\ {wsEnabled, queue, early} \subseteq BOOLEAN
        /\ singleton \in 0..Len(inst) /\ Len(inst) <= terms
        /\ taken \subseteq Ports
        /\ terms \in 0..MaxTerms /\ cycles \in 0..MaxCycles
        /\ moves \in 0..MaxMoves /\ faults \in 0..MaxFaults
        /\ service = "websocket" => logs = <<>>
        /\ service = "log" => inst = <<>>
    BY DEF RoleInv, RoleTypes
  <2>3. /\ {current, readyOf} \subseteq {0, Len(logs)} /\ (current = 0 <=> readyOf = 0)
        /\ written \subseteq 1..events /\ excused \subseteq 1..events
    BY DEF LogInv, LogTypes
  <2>4. QED
    BY <2>1, <2>2, <2>3 DEF TypeOK
<1>2. QED
  BY <1>1, Inductive, PTL

\* As long as no promotion met a server that was still closing, a runtime that is not owner
\* is silent, nothing but the singleton can come back to life, and an owner has a server or
\* a retry pending, or its log.
THEOREM RolesFollowed == Spec => []RoleFollowedUnlessEarly
<1>1. RoleInv => RoleFollowedUnlessEarly
  <2> SUFFICES ASSUME RoleInv, ~early PROVE RoleFollowedUnlessEarly
    BY DEF RoleFollowedUnlessEarly
  <2>1. FollowerSilent
    BY DEF RoleInv, RoleFollowed, Settled, Active, FollowerSilent, Silent
  <2>2. QED
    BY <2>1 DEF RoleInv, RoleFollowed, Active, RoleFollowedUnlessEarly
<1>2. QED
  BY <1>1, Inductive, PTL

\* Whatever the limit and the sizes of the lines: as long as no logger was made before the
\* last one had finished, the file holds whole lines in the order of their events, more than
\* its limit only when it is a single line, and the logger knows its size.
THEOREM FileSound == Spec => []FileSoundUnlessOverlapped
<1>1. LogInv => FileSoundUnlessOverlapped
  <2> SUFFICES ASSUME LogInv, ~overlapped PROVE FileSoundUnlessOverlapped
    BY DEF FileSoundUnlessOverlapped
  <2>1. current # 0 => current = Len(logs) /\ current \in DOMAIN logs
    BY DEF LogInv, LogTypes
  <2>2. QED
    BY <2>1 DEF LogInv, InStepUnlessOverlapped, InStep, SoundFile, FileSoundUnlessOverlapped
<1>2. QED
  BY <1>1, Inductive, PTL
=============================================================================
