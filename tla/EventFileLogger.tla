---------------------------- MODULE EventFileLogger ----------------------------
(***************************************************************************)
(* The event log (src/src/logging/event-file-logger.ts): loggers that the   *)
(* plugin makes one after the other, over one file.  A logger opens its     *)
(* stream after awaiting the file system, chains its writes, and truncates  *)
(* the file when the next line would exceed the limit; a line over the      *)
(* limit is written all the same.  stop() waits for the chain, but neither  *)
(* for a start that is under way nor for the logger before.  A line of size *)
(* n has n parts, a file is a sequence of parts and its length is its size. *)
(* BroadcastServer starts and stops the loggers.                            *)
(***************************************************************************)
EXTENDS Naturals, Sequences, SequencesExt

CONSTANTS MaxFileSize,  \* maxFileSizeBytes
          LineSize,     \* the byte length of the line of an event
          MaxEvents,    \* bound: events
          MaxFailures   \* bound: starts that fail

ASSUME LoggerConstants ==
  /\ MaxFileSize \in Nat \ {0} /\ MaxEvents \in Nat /\ MaxFailures \in Nat
  /\ LineSize \in [1..MaxEvents -> Nat \ {0}]

VARIABLES
  logs,       \* the loggers constructed so far, in order: see NewLogger
  file,
  current,    \* state.eventFileLogger: a logger, or 0
  readyOf,    \* state.eventFileLoggerReady: the logger whose start it is, or 0
  events,     \* events so far
  failures,
  written,    \* history: events a stream took
  excused,    \* history: events the log did not take for a known reason
  overlapped  \* history: a logger was made while an earlier one had not finished

logVars == <<logs, file, current, readyOf, events, failures, written, excused, overlapped>>

\* stream is the kind of this.stream, at its position if it does not append; chain is the
\* events of writeChain, busy what its first one is waiting for; stop is a stop() that waits;
\* held are the events that await its start.
NewLogger ==
  [start |-> "opening", stream |-> "none", at |-> 0, size |-> 0,
   chain |-> <<>>, busy |-> "no", stop |-> FALSE, held |-> <<>>]

LogInit ==
  /\ logs = <<>> /\ file = <<>> /\ current = 0 /\ readyOf = 0
  /\ events = 0 /\ failures = 0 /\ written = {} /\ excused = {} /\ overlapped = FALSE

Truncating(l) == l.busy = "ending"

Idle(l) == l.start # "opening" /\ l.chain = <<>>

-----------------------------------------------------------------------------
(* One logger: what its record becomes                                       *)

\* Mutant: a logger takes the file for empty.
OpensEmpty(l, n) ==
  [l EXCEPT !.start = "done", !.held = <<>>,
            !.stream = IF n >= MaxFileSize THEN "write" ELSE "append"]

\* start() over a file of size n: a full one is emptied.
Opens(l, n) ==
  [l EXCEPT !.start = "done", !.held = <<>>,
            !.stream = IF n >= MaxFileSize THEN "write" ELSE "append",
            !.size = IF n >= MaxFileSize THEN 0 ELSE n]

\* Mutant: stop() does not wait for the chain.
StoppedAtOnce(l) == [l EXCEPT !.stop = FALSE, !.stream = "none", !.chain = <<>>, !.busy = "no"]

\* stop(): the stream is ended when the chain is.  A logger that is still opening has
\* none yet, and its start goes on.
Stopped(l) ==
  IF l.chain # <<>> THEN [l EXCEPT !.stop = TRUE]
  ELSE [l EXCEPT !.stop = FALSE, !.stream = "none"]

\* A line of the chain is in the file.
LineWritten(l) ==
  LET n == LineSize[Head(l.chain)]
  IN [l EXCEPT !.busy = "no", !.chain = Tail(@), !.size = @ + n, !.at = @ + n]

\* The next link of the chain: writeLine up to its first await.  What the file holds makes
\* room for a line, but nothing does for a line that is larger than the limit.
WriteLine(l) ==
  IF l.chain = <<>> THEN IF l.stop THEN Stopped(l) ELSE l
  ELSE IF l.size + LineSize[Head(l.chain)] > MaxFileSize THEN [l EXCEPT !.stream = "none", !.busy = "ending"]
  ELSE [l EXCEPT !.busy = "writing"]

\* logEvent, enqueueWrite: nothing is written without a stream, also while the file
\* is being truncated.
Logged(l, evs) ==
  IF l.stream = "none" \/ evs = <<>> THEN l
  ELSE LET longer == [l EXCEPT !.chain = @ \o evs]
       IN IF l.busy = "no" THEN WriteLine(longer) ELSE longer

\* What the file becomes when stream l takes a line: an appending stream writes at the
\* end, a truncating one where it stands, over whatever others wrote there; what it skips
\* is filled with zeros.
Taken(l, ev) ==
  LET from == IF l.stream = "append" THEN Len(file) ELSE l.at
      to == from + LineSize[ev]
  IN [k \in 1..(IF Len(file) > to THEN Len(file) ELSE to) |->
        IF from < k /\ k <= to THEN [ev |-> ev, part |-> k - from]
        ELSE IF k <= Len(file) THEN file[k] ELSE [ev |-> 0, part |-> 0]]

-----------------------------------------------------------------------------
(* The plugin's part (src/src/index.ts, src/src/runtime/runtime-events.ts)   *)

\* initializeEventFileLogger
StartLog ==
  /\ logs' = Append(logs, NewLogger)
  /\ current' = Len(logs) + 1 /\ readyOf' = Len(logs) + 1
  /\ overlapped' = (overlapped \/ \E i \in DOMAIN logs : ~Idle(logs[i]))
  /\ UNCHANGED <<file, events, failures, written, excused>>

\* stopEventFileLogger
StopLog ==
  /\ logs' = IF current = 0 THEN logs ELSE [logs EXCEPT ![current] = Stopped(@)]
  /\ current' = 0 /\ readyOf' = 0
  /\ UNCHANGED <<file, events, failures, written, excused, overlapped>>

\* Reasons why an event that awaited the start of logger for need not be in log c: no
\* logger is there (any more), or another one, or the file is being truncated.
Excuses(c, for) == c = 0 \/ for # c \/ Truncating(logs[c])

\* transportEvent from its await on, where table are the loggers by now: evs go to logger
\* c, if there is one.
PassOn(table, c, for, evs) ==
  /\ logs' = IF c = 0 THEN table ELSE [table EXCEPT ![c] = Logged(@, evs)]
  /\ excused' = IF Excuses(c, for) THEN excused \cup ToSet(evs) ELSE excused

\* An event comes: transportEvent awaits the start that state.eventFileLoggerReady is.
EventComes ==
  /\ events < MaxEvents /\ events' = events + 1
  /\ UNCHANGED <<file, current, readyOf, failures, written, overlapped>>
  /\ IF readyOf # 0 /\ logs[readyOf].start = "opening"
     THEN logs' = [logs EXCEPT ![readyOf].held = Append(@, events + 1)] /\ UNCHANGED excused
     ELSE PassOn(logs, current, readyOf, <<events + 1>>)

-----------------------------------------------------------------------------
(* Callbacks of logger i                                                     *)

\* start() goes on after mkdir and stat, also when the logger was stopped meanwhile; then
\* the events that awaited it.
Opened(i) ==
  /\ logs[i].start = "opening"
  /\ file' = IF Len(file) >= MaxFileSize THEN <<>> ELSE file
  /\ PassOn([logs EXCEPT ![i] = Opens(@, Len(file))], current, i, logs[i].held)
  /\ UNCHANGED <<current, readyOf, events, failures, written, overlapped>>

\* mkdir rejects: state.eventFileLogger is forgotten, whichever logger that is by now.
StartFails(i) ==
  /\ logs[i].start = "opening" /\ failures < MaxFailures
  /\ failures' = failures + 1
  /\ current' = 0 /\ readyOf' = 0
  /\ PassOn([logs EXCEPT ![i].start = "failed", ![i].held = <<>>], 0, i, logs[i].held)
  /\ UNCHANGED <<file, events, written, overlapped>>

\* truncateLogFile: the stream has ended, another one opens the file for writing.
Truncated(i) ==
  /\ Truncating(logs[i])
  /\ logs' = [logs EXCEPT ![i].stream = "write", ![i].at = 0, ![i].size = 0, ![i].busy = "writing"]
  /\ file' = <<>>
  /\ UNCHANGED <<current, readyOf, events, failures, written, excused, overlapped>>

\* The write of the first line of the chain is done; the chain goes on.
Written(i) ==
  LET l == logs[i]
      ev == Head(l.chain)
  IN /\ l.busy = "writing"
     /\ file' = Taken(l, ev) /\ written' = written \cup {ev}
     /\ logs' = [logs EXCEPT ![i] = WriteLine(LineWritten(l))]
     /\ UNCHANGED <<current, readyOf, events, failures, excused, overlapped>>

-----------------------------------------------------------------------------
(* Properties                                                                *)

\* The parts of a file are in the order of the events, and none is there twice.
InOrder(f) ==
  \A j, k \in DOMAIN f :
    j < k => f[j].ev < f[k].ev \/ (f[j].ev = f[k].ev /\ f[j].part < f[k].part)

\* Every part is in its place in a line that is there from end to end.
WholeLines(f) ==
  \A k \in DOMAIN f : \A p \in 1..LineSize[f[k].ev] :
    k + p - f[k].part \in DOMAIN f /\ f[k + p - f[k].part] = [ev |-> f[k].ev, part |-> p]

\* No more than the limit, or a single line.
WithinLimit(f) == Len(f) <= MaxFileSize \/ \A j, k \in DOMAIN f : f[j].ev = f[k].ev

\* As long as no logger was made before the last one had finished, the file holds whole
\* lines in the order in which their events came, never more than its limit unless it is
\* one line that is larger, and the logger knows its size: over restarts that find an old
\* file, truncations and stops (start, writeLine, truncateLogFile).
FileSoundUnlessOverlapped ==
  ~overlapped =>
    /\ WithinLimit(file) /\ InOrder(file) /\ WholeLines(file)
    /\ current # 0 /\ logs[current].stream # "none" => logs[current].size = Len(file)

\* An event that the owner passes on is written in the end, also when it awaited the
\* start of the log or the log is stopped right after it, except for the reasons listed
\* in Excuses (transportEvent, enqueueWrite, stop).
EventsLogged == \A ev \in 1..MaxEvents : (ev <= events) ~> (ev \in written \cup excused)

=============================================================================
