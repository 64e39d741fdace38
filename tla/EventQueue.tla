------------------------------ MODULE EventQueue ------------------------------
(***************************************************************************)
(* The webhook queue of the owner (src/src/broadcast/queue.ts): the queue   *)
(* itself, the flush that delivers it batch by batch across awaits, and the *)
(* copy on disk.  A demotion stops the queue and a promotion makes a new    *)
(* one (src/src/index.ts:253-286), so instances follow each other; the old  *)
(* one may still be flushing, writing or even loading, and all share a file.*)
(***************************************************************************)
EXTENDS Integers, Sequences, SequencesExt

CONSTANTS Instances,    \* 1..n, constructed in this order
          MaxSize,      \* config.maxSize
          BatchSize,    \* the local batchSize of flush, 10 in the code
          MaxAttempts,  \* retryConfig.maxAttempts
          Persists,     \* possible values of config.persistToDisk
          MaxEvents,    \* bound: events enqueued
          MaxFaults     \* bound: crashes, failed reads and writes, clients that do not load

ASSUME QueueConstants ==
  /\ Instances \subseteq Nat /\ MaxSize \in Nat \ {0} /\ BatchSize \in Nat \ {0}
  /\ MaxAttempts \in Nat /\ MaxEvents \in Nat /\ MaxFaults \in Nat
  /\ Persists \subseteq BOOLEAN

VARIABLES
  persist,
  client,    \* axiosImport of the process: "unknown", "loaded" or "failed", for good
  life,      \* "new", "live", "stopped", or "dead" with its process
  load,      \* loadPersistedQueue: "none", "reading", or "read" but not merged yet
  restored,  \* what it read
  queue,     \* items [ev, n]: the event and its attempts
  timer,     \* flushTimer is armed
  flush,     \* isFlushing, and for what: "idle", "batch" or "saving"
  base,      \* the loop variable i of flush
  waiting,   \* deliveries of the batch not answered: index, event, attempts
  toRemove,  \* indicesToRemove, in the order pushed
  chain,     \* snapshots persistChain has yet to write
  left,      \* writes before the one flush awaits is done
  disk,
  accepted,  \* events 1..accepted were enqueued
  got,       \* history of a live instance: events that were put into its queue
  sent,      \* history of a live instance: events it delivered
  gone,      \* history of a live instance: events given up or shifted off when full
  unsaved,   \* history of a live instance: its read or its last write failed
  disturbed, \* history of a live instance: the indices of a flush went astray
  early,     \* history: an event was enqueued while the file was being loaded
  overrun,   \* history: an instance wrote the file after its successor was made
  faults

loading == <<load, restored>>
flushing == <<flush, base, waiting, toRemove>>
saving == <<chain, left>>
history == <<got, sent, gone, unsaved, disturbed, early, overrun>>
queueVars == <<persist, client, life, loading, queue, timer, flushing, saving, disk, accepted,
          history, faults>>

QueueInit ==
  /\ persist \in Persists /\ client = "unknown"
  /\ life = [i \in Instances |-> "new"]
  /\ load = [i \in Instances |-> "none"] /\ restored = [i \in Instances |-> <<>>]
  /\ queue = [i \in Instances |-> <<>>] /\ timer = [i \in Instances |-> FALSE]
  /\ flush = [i \in Instances |-> "idle"] /\ base = [i \in Instances |-> 0]
  /\ waiting = [i \in Instances |-> {}] /\ toRemove = [i \in Instances |-> <<>>]
  /\ chain = [i \in Instances |-> <<>>] /\ left = [i \in Instances |-> 0]
  /\ disk = <<>> /\ accepted = 0 /\ faults = 0
  /\ got = [i \in Instances |-> {}] /\ sent = [i \in Instances |-> {}]
  /\ unsaved = [i \in Instances |-> FALSE] /\ disturbed = [i \in Instances |-> FALSE]
  /\ gone = [i \in Instances |-> {}] /\ early = FALSE /\ overrun = FALSE

Fault == faults < MaxFaults /\ faults' = faults + 1

Events(q) == {q[k].ev : k \in DOMAIN q}

\* The histories are kept for the instance in use only.
Note(f, i, S) == IF life[i] = "live" THEN [f EXCEPT ![i] = @ \cup S] ELSE f

Disturb(i, b) == disturbed' = [disturbed EXCEPT ![i] = @ \/ (b /\ life[i] = "live")]

\* persistQueue with q the queue at the call.
Save(i, q) == chain' = [chain EXCEPT ![i] = IF persist THEN Append(@, q) ELSE @]

-----------------------------------------------------------------------------
(* Construction and loading *)

\* The constructor: maybeInitializeQueue makes one only while there is none.
Construct(i) ==
  /\ life[i] = "new"
  /\ \A j \in Instances : life[j] # "live" /\ (j < i => life[j] # "new")
  /\ life' = [life EXCEPT ![i] = "live"]
  /\ load' = [load EXCEPT ![i] = IF persist THEN "reading" ELSE "none"]
  /\ timer' = [timer EXCEPT ![i] = ~persist]
  /\ UNCHANGED <<persist, client, restored, queue, flushing, saving, disk, accepted, history, faults>>

\* readFile sees the file as it is at some moment before its promise resolves.
ReadFile(i) ==
  /\ load[i] = "reading"
  /\ load' = [load EXCEPT ![i] = "read"]
  /\ restored' = [restored EXCEPT ![i] = disk]
  /\ UNCHANGED <<persist, client, life, queue, timer, flushing, saving, disk, accepted, history, faults>>

\* Mutant: then instead of finally: no timer after a failed read.
ReadFailsUntimed(i) ==
  /\ load[i] = "reading" /\ Fault
  /\ load' = [load EXCEPT ![i] = "none"]
  /\ unsaved' = [unsaved EXCEPT ![i] = life[i] = "live"]
  /\ UNCHANGED <<persist, client, life, restored, queue, timer, flushing, saving, disk, accepted,
                 got, sent, gone, disturbed, early, overrun>>

\* The catch of loadPersistedQueue: the queue starts empty while the file keeps its
\* events, until something is written over them.
ReadFails(i) ==
  /\ load[i] = "reading" /\ Fault
  /\ load' = [load EXCEPT ![i] = "none"]
  /\ timer' = [timer EXCEPT ![i] = TRUE]
  /\ unsaved' = [unsaved EXCEPT ![i] = life[i] = "live"]
  /\ UNCHANGED <<persist, client, life, restored, queue, flushing, saving, disk, accepted,
                 got, sent, gone, disturbed, early, overrun>>

\* The loop of mergeRestoredQueue: what q does not hold yet is pushed.
Merged(q, items) ==
  LET all[k \in 0..Len(items)] ==
        IF k = 0 THEN q
        ELSE IF items[k].ev \in Events(q) THEN all[k - 1] ELSE Append(all[k - 1], items[k])
  IN all[Len(items)]

\* Mutant: what was restored may exceed maxSize.
MergeUnbounded(i) ==
  LET all == Merged(queue[i], restored[i])
  IN /\ load[i] = "read"
     /\ load' = [load EXCEPT ![i] = "none"]
     /\ restored' = [restored EXCEPT ![i] = <<>>]
     /\ queue' = [queue EXCEPT ![i] = all]
     /\ timer' = [timer EXCEPT ![i] = TRUE]
     /\ got' = Note(got, i, Events(all))
     /\ UNCHANGED <<persist, client, life, flushing, saving, disk, accepted,
                    sent, gone, unsaved, disturbed, early, overrun, faults>>

\* mergeRestoredQueue keeps the newest MaxSize; then the timer, stopped or not.
Merge(i) ==
  LET all == Merged(queue[i], restored[i])
      over == IF Len(all) > MaxSize THEN Len(all) - MaxSize ELSE 0
  IN /\ load[i] = "read"
     /\ load' = [load EXCEPT ![i] = "none"]
     /\ restored' = [restored EXCEPT ![i] = <<>>]
     /\ queue' = [queue EXCEPT ![i] = SubSeq(all, over + 1, Len(all))]
     /\ timer' = [timer EXCEPT ![i] = TRUE]
     /\ got' = Note(got, i, Events(all))
     /\ gone' = Note(gone, i, Events(SubSeq(all, 1, over)))
     /\ Disturb(i, over > 0 /\ flush[i] = "batch")
     /\ UNCHANGED <<persist, client, life, flushing, saving, disk, accepted,
                    sent, unsaved, early, overrun, faults>>
-----------------------------------------------------------------------------
(* Enqueueing and flushing *)

\* The next batch of flush, from index b of the queue q: its items, by reference.
Batch(q, b) ==
  {[at |-> k - 1, ev |-> q[k].ev, n |-> q[k].n] : k \in {j \in DOMAIN q : b < j /\ j <= b + BatchSize}}

\* flush up to its first await.
BeginFlush(i, q) ==
  /\ flush' = [flush EXCEPT ![i] = "batch"]
  /\ base' = [base EXCEPT ![i] = 0]
  /\ waiting' = [waiting EXCEPT ![i] = Batch(q, 0)]
  /\ toRemove' = [toRemove EXCEPT ![i] = <<>>]

\* Mutant: the change is not written to disk.
EnqueueUnsaved(i) ==
  LET full == Len(queue[i]) >= MaxSize
      q == Append(IF full THEN Tail(queue[i]) ELSE queue[i], [ev |-> accepted + 1, n |-> 0])
  IN /\ life[i] = "live" /\ accepted < MaxEvents
     /\ accepted' = accepted + 1
     /\ queue' = [queue EXCEPT ![i] = q]
     /\ got' = Note(got, i, {accepted + 1})
     /\ gone' = Note(gone, i, IF full THEN {Head(queue[i]).ev} ELSE {})
     /\ IF 10 * Len(q) >= 8 * MaxSize /\ flush[i] = "idle"
        THEN BeginFlush(i, q) ELSE UNCHANGED flushing
     /\ Disturb(i, full /\ flush[i] = "batch")
     /\ early' = (early \/ load[i] # "none")
     /\ UNCHANGED <<persist, client, life, loading, timer, saving, disk, sent, unsaved, overrun, faults>>

\* A full queue loses its oldest event; a queue that is getting large is flushed.
Enqueue(i) ==
  LET full == Len(queue[i]) >= MaxSize
      q == Append(IF full THEN Tail(queue[i]) ELSE queue[i], [ev |-> accepted + 1, n |-> 0])
  IN /\ life[i] = "live" /\ accepted < MaxEvents
     /\ accepted' = accepted + 1
     /\ queue' = [queue EXCEPT ![i] = q]
     /\ got' = Note(got, i, {accepted + 1})
     /\ gone' = Note(gone, i, IF full THEN {Head(queue[i]).ev} ELSE {})
     /\ IF 10 * Len(q) >= 8 * MaxSize /\ flush[i] = "idle"
        THEN BeginFlush(i, q) ELSE UNCHANGED flushing
     /\ Save(i, q)
     /\ Disturb(i, full /\ flush[i] = "batch")
     /\ early' = (early \/ load[i] # "none")
     /\ UNCHANGED <<persist, client, life, loading, timer, left, disk, sent, unsaved, overrun, faults>>

\* The flush interval.
FlushTimer(i) ==
  /\ timer[i] /\ flush[i] = "idle" /\ queue[i] # <<>>
  /\ BeginFlush(i, queue[i])
  /\ UNCHANGED <<persist, client, life, loading, queue, timer, saving, disk, accepted, history, faults>>

\* splice(index, 1) counts from 0 and ignores an index beyond the end.
Splice(index, q) ==
  IF index < Len(q) THEN SubSeq(q, 1, index) \o SubSeq(q, index + 2, Len(q)) ELSE q

\* Mutant: the indices are removed first to last.
RemovedForward(indices, q) ==
  LET rest[k \in 0..Len(indices)] == IF k = 0 THEN q ELSE Splice(indices[k], rest[k - 1])
  IN rest[Len(indices)]

\* The removal loop: last pushed, first removed.
Removed(indices, q) ==
  LET rest[k \in 0..Len(indices)] ==
        IF k = 0 THEN q ELSE Splice(indices[Len(indices) + 1 - k], rest[k - 1])
  IN rest[Len(indices)]

\* All deliveries of the batch are answered: the loop takes the next batch of the
\* queue as it is now, or the removal ends it and the queue is written.
BatchDone(i, q, indices) ==
  LET next == base[i] + BatchSize
      rest == Removed(indices, q)
  IN IF next < Len(q)
     THEN /\ base' = [base EXCEPT ![i] = next]
          /\ waiting' = [waiting EXCEPT ![i] = Batch(q, next)]
          /\ queue' = [queue EXCEPT ![i] = q]
          /\ toRemove' = [toRemove EXCEPT ![i] = indices]
          /\ UNCHANGED <<flush, saving>>
     ELSE /\ queue' = [queue EXCEPT ![i] = rest]
          /\ Save(i, rest)
          /\ left' = [left EXCEPT ![i] = Len(chain'[i])]
          /\ flush' = [flush EXCEPT ![i] = IF persist THEN "saving" ELSE "idle"]
          /\ base' = [base EXCEPT ![i] = 0]
          /\ waiting' = [waiting EXCEPT ![i] = {}]
          /\ toRemove' = [toRemove EXCEPT ![i] = <<>>]

\* An answer of broadcastToWebhooks: item w leaves, or stays for another attempt.
Answer(i, w, q, indices) ==
  /\ IF waiting[i] = {w}
     THEN BatchDone(i, q, indices)
     ELSE /\ waiting' = [waiting EXCEPT ![i] = @ \ {w}]
          /\ queue' = [queue EXCEPT ![i] = q]
          /\ toRemove' = [toRemove EXCEPT ![i] = indices]
          /\ UNCHANGED <<flush, base, saving>>
  /\ Disturb(i, Len(indices) > Len(toRemove[i]) /\ \E k \in DOMAIN toRemove[i] : toRemove[i][k] > w.at)

\* Some webhook took it, or there is none.
Delivered(i, w) ==
  /\ Answer(i, w, queue[i], Append(toRemove[i], w.at))
  /\ sent' = Note(sent, i, {w.ev})
  /\ UNCHANGED gone

\* All webhooks failed: attempts goes up by reference, wherever the item is now (a
\* copy restored from the file is another object than one that was shifted out).
Failed(i, w) ==
  /\ IF w.n < MaxAttempts
     THEN /\ Answer(i, w, [k \in DOMAIN queue[i] |->
                             IF queue[i][k] = [ev |-> w.ev, n |-> w.n]
                             THEN [ev |-> w.ev, n |-> w.n + 1] ELSE queue[i][k]], toRemove[i])
          /\ UNCHANGED gone
     ELSE Answer(i, w, queue[i], Append(toRemove[i], w.at)) /\ gone' = Note(gone, i, {w.ev})
  /\ UNCHANGED sent

\* The delivery got the HTTP client.  A queue whose webhooks need none (there is none, or
\* no valid URL) is one that has it.
Deliver(i) ==
  /\ client # "failed" /\ client' = "loaded"
  /\ \E w \in waiting[i] : Delivered(i, w) \/ Failed(i, w)
  /\ UNCHANGED <<persist, life, loading, timer, disk, accepted, got, unsaved, early, overrun, faults>>

\* The HTTP client cannot be loaded, which getAxios never tries again: every delivery of
\* the batch throws, finally ends the flush, and the next one fares no better.
FlushThrows(i) ==
  /\ flush[i] = "batch" /\ client # "loaded" /\ client' = "failed"
  /\ IF client = "failed" THEN UNCHANGED faults ELSE Fault
  /\ flush' = [flush EXCEPT ![i] = "idle"] /\ base' = [base EXCEPT ![i] = 0]
  /\ waiting' = [waiting EXCEPT ![i] = {}] /\ toRemove' = [toRemove EXCEPT ![i] = <<>>]
  /\ UNCHANGED <<persist, life, loading, queue, timer, saving, disk, accepted, history>>

-----------------------------------------------------------------------------
(* Disk, shutdown and crash *)

\* writeQueueAtomically: the rename replaces the file, a failure leaves it.
Write(i) ==
  /\ chain[i] # <<>>
  /\ chain' = [chain EXCEPT ![i] = Tail(@)]
  /\ left' = [left EXCEPT ![i] = IF @ = 0 THEN 0 ELSE @ - 1]
  /\ flush' = [flush EXCEPT ![i] = IF @ = "saving" /\ left[i] = 1 THEN "idle" ELSE @]
  /\ \/ /\ disk' = Head(chain[i]) /\ unsaved' = [unsaved EXCEPT ![i] = FALSE]
        /\ overrun' = (overrun \/ \E j \in Instances : j > i /\ life[j] # "new")
        /\ UNCHANGED faults
     \/ Fault /\ unsaved' = [unsaved EXCEPT ![i] = life[i] = "live"] /\ UNCHANGED <<disk, overrun>>
  /\ UNCHANGED <<persist, client, life, loading, queue, timer, base, waiting, toRemove, accepted,
                 got, sent, gone, disturbed, early>>

\* stop(), on demotion or deactivation: a flush, a load and writes go on.
Stop(i) ==
  /\ life[i] = "live"
  /\ life' = [life EXCEPT ![i] = "stopped"]
  /\ timer' = [timer EXCEPT ![i] = FALSE]
  /\ Save(i, queue[i])
  /\ got' = [got EXCEPT ![i] = {}] /\ sent' = [sent EXCEPT ![i] = {}]
  /\ gone' = [gone EXCEPT ![i] = {}] /\ unsaved' = [unsaved EXCEPT ![i] = FALSE]
  /\ disturbed' = [disturbed EXCEPT ![i] = FALSE]
  /\ UNCHANGED <<persist, client, loading, queue, flushing, left, disk, accepted, early, overrun, faults>>

\* The process ends with all its instances; only the file survives.
Crash ==
  LET dead == {i \in Instances : life[i] # "new"}
      Reset(f, v) == [i \in Instances |-> IF i \in dead THEN v ELSE f[i]]
  IN /\ \E i \in Instances : life[i] \in {"live", "stopped"}
     /\ Fault /\ client' = "unknown"
     /\ life' = Reset(life, "dead") /\ load' = Reset(load, "none")
     /\ restored' = Reset(restored, <<>>) /\ queue' = Reset(queue, <<>>)
     /\ timer' = Reset(timer, FALSE) /\ flush' = Reset(flush, "idle")
     /\ base' = Reset(base, 0) /\ waiting' = Reset(waiting, {})
     /\ toRemove' = Reset(toRemove, <<>>) /\ chain' = Reset(chain, <<>>)
     /\ left' = Reset(left, 0)
     /\ got' = Reset(got, {}) /\ sent' = Reset(sent, {}) /\ gone' = Reset(gone, {})
     /\ unsaved' = Reset(unsaved, FALSE) /\ disturbed' = Reset(disturbed, FALSE)
     /\ UNCHANGED <<persist, disk, accepted, early, overrun>>

QueueNext ==
  \/ \E i \in Instances :
       \/ Construct(i) \/ ReadFile(i) \/ ReadFails(i) \/ Merge(i) \/ Enqueue(i) \/ FlushTimer(i)
       \/ Deliver(i) \/ FlushThrows(i) \/ Write(i) \/ Stop(i)
  \/ Crash

QueueSpec == QueueInit /\ [][QueueNext]_queueVars

\* Timers fire, and every read, write and delivery is answered or throws (webhook.ts
\* gives each request a timeout and a bounded number of attempts).
FairQueueSpec ==
  /\ QueueSpec
  /\ \A i \in Instances :
       /\ WF_queueVars(ReadFile(i) \/ ReadFails(i)) /\ WF_queueVars(Merge(i)) /\ WF_queueVars(FlushTimer(i))
       /\ WF_queueVars(Deliver(i) \/ FlushThrows(i)) /\ WF_queueVars(Write(i))

-----------------------------------------------------------------------------

Items == [ev : 1..MaxEvents, n : 0..MaxAttempts]

\* The values of the variables.
TypeOK ==
  /\ client \in {"unknown", "loaded", "failed"}
  /\ life \in [Instances -> {"new", "live", "stopped", "dead"}]
  /\ load \in [Instances -> {"none", "reading", "read"}]
  /\ \A i \in Instances :
       /\ \A q \in {queue[i], restored[i]} \cup ToSet(chain[i]) :
            Len(q) <= MaxSize /\ ToSet(q) \subseteq Items
       /\ IsInjective([k \in DOMAIN queue[i] |-> queue[i][k].ev])
  /\ flush \in [Instances -> {"idle", "batch", "saving"}]
  /\ \A i \in Instances : (flush[i] = "batch") = (waiting[i] # {})
  /\ \A i \in Instances : left[i] <= Len(chain[i])
  /\ accepted \in 0..MaxEvents /\ faults \in 0..MaxFaults

\* Indices are removed "in reverse order to preserve indices" (queue.ts:157), so
\* what leaves the queue was delivered, given up, or the oldest of a full queue.
\* Broken: they are pushed in the order the answers arrive, and a full queue
\* shifts while a flush holds indices, so another event is spliced out.
NoLoss ==
  \A i \in Instances :
    life[i] = "live" => got[i] \subseteq Events(queue[i]) \cup sent[i] \cup gone[i]

\* With answers in order of the queue and no shift during the flush, the removal is
\* exact: nothing else leaves, whatever was enqueued, retried or restored meanwhile, and
\* however many flushes throw ...
NoLossUnlessDisturbed ==
  \A i \in Instances :
    life[i] = "live" /\ ~disturbed[i] => got[i] \subseteq Events(queue[i]) \cup sent[i] \cup gone[i]

\* ... and what was delivered does leave: no event is delivered twice by an instance,
\* unless one came so early that the queue reads it back from its own file.
DeliveredLeaves ==
  \A i \in Instances :
    life[i] = "live" /\ flush[i] # "batch" /\ ~disturbed[i] /\ ~early => Events(queue[i]) \cap sent[i] = {}

\* Both: the splice at the end of a flush removes exactly what was answered.
RemovalExactUnlessDisturbed == NoLossUnlessDisturbed /\ DeliveredLeaves

\* Once all is written the file holds what the queue holds, also in the middle of a
\* flush, so a crash now loses nothing.  The doors: the queue could not read the file when it
\* was made and has not written since, or its last write failed; an event came before the
\* file was loaded; a predecessor was still writing.
SavedWhenQuiet ==
  \A i \in Instances :
    /\ persist /\ life[i] = "live" /\ load[i] = "none"
    /\ chain[i] = <<>> /\ ~unsaved[i] /\ ~early /\ ~overrun
    => [k \in DOMAIN disk |-> disk[k].ev] = [k \in DOMAIN queue[i] |-> queue[i][k].ev]

\* When no more events come, a queue in use empties, even if every delivery fails,
\* answers are reordered or its file cannot be read or written.  The door: the HTTP client
\* did not load; it is not tried again, every flush of the process throws and nothing leaves.
QueueDrains ==
  \A i \in Instances :
    (life[i] = "live" /\ accepted = MaxEvents) ~>
      (life[i] # "live" \/ queue[i] = <<>> \/ client = "failed")
=============================================================================
