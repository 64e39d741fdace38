---------------------------- MODULE TransportLock ----------------------------
(***************************************************************************)
(* Ownership of the transport: the lock file and the relay socket path that *)
(* the runtimes of one host share (src/src/transport/ownership.ts, lock.ts  *)
(* and the parts of manager.ts that call them).                             *)
(*                                                                          *)
(* Every runtime is an operating system process.  All of an attempt to own  *)
(* the transport runs in one JavaScript turn, so a runtime is sequential    *)
(* (pc), but the file system calls of different processes interleave, so an *)
(* action is one call: openSync, writeFileSync, readFileSync, statSync,     *)
(* unlinkSync, listen.  A process may die between any two calls.            *)
(***************************************************************************)
EXTENDS Naturals

CONSTANTS Runtimes,    \* owner-intended runtimes (mode "owner"), one process each
          NoOne,       \* no runtime
          Absent,      \* the path does not exist
          Dead,        \* made by a process that no longer exists
          Foreign,     \* a recorded pid that now belongs to an unrelated process
          Unreadable,  \* empty or malformed lock file: parseLockPayload is null
          MaxFaults,   \* bound: crashes, failed writes and owner failures
          PidReuse,    \* whether the pid of a dead owner may be given out again
          Aging        \* whether lockStaleMs may pass while nobody writes the lock

ASSUME LockConstants ==
  /\ MaxFaults \in Nat
  /\ PidReuse \in BOOLEAN /\ Aging \in BOOLEAN
  /\ NoOne \notin Runtimes /\ Absent \notin Runtimes /\ Dead \notin Runtimes
  /\ Foreign \notin Runtimes /\ Unreadable \notin Runtimes
  /\ Absent # Dead /\ Absent # Foreign /\ Absent # Unreadable
  /\ Dead # Foreign /\ Dead # Unreadable /\ Foreign # Unreadable

VARIABLES
  pc,       \* what each runtime is about to do
  lock,     \* the file at lockPath: whose payload, who created it, older than lockStaleMs
  fdLive,   \* runtimes whose open descriptor is the file linked at lockPath
  sock,     \* whose listening socket is linked at socketPath
  evicted,  \* history: what was removed while another runtime was using it
  faults    \* faults so far

vars == <<pc, lock, fdLive, sock, evicted, faults>>

\* Between the exclusive create and the removal of the lock on release.
Claiming == {"fill", "refill", "bind", "listen", "firstBeat", "firstWrite", "owner",
             "refresh", "demote", "demoteUnlink", "stopClose", "stopUnlink"}

\* The relay server of the runtime is bound to socketPath.
Serving == {"firstBeat", "firstWrite", "owner", "refresh"}

PCs == Claiming \cup {"down", "stopped", "follower", "create", "inspect", "stale",
                      "stat", "unlink", "recreate", "stopClean"}

NoLock == [body |-> Absent, by |-> NoOne, age |-> "fresh"]

\* A lock file left by a previous boot may be there before any runtime is.
Init ==
  /\ pc = [r \in Runtimes |-> "down"]
  /\ lock \in {NoLock} \cup [body: {Dead, Unreadable}, by: {NoOne}, age: {"fresh", "old"}]
  /\ fdLive = {}
  /\ sock \in {Absent, Dead}
  /\ evicted = {}
  /\ faults = 0

Goto(r, l) == pc' = [pc EXCEPT ![r] = l]

Fault == faults < MaxFaults /\ faults' = faults + 1

\* isProcessAlive of the recorded pid: EPERM counts as alive.
ProcessAlive(body) == body \in Runtimes \cup {Foreign}

\* unlinkSync(lockPath): descriptors of the file stay open, but not at the path.
RemoveLock(r) ==
  /\ lock' = NoLock
  /\ fdLive' = {}
  /\ evicted' = IF \E s \in Runtimes \ {r} : lock.by = s /\ pc[s] \in Claiming
                THEN evicted \cup {"lock"} ELSE evicted

\* unlinkSync(socketPath) or rmSync(socketPath): whatever is linked there goes.
RemoveSocket(r) ==
  /\ sock' = Absent
  /\ evicted' = IF \E s \in Runtimes \ {r} : sock = s /\ pc[s] \in Serving
                THEN evicted \cup {"sock"} ELSE evicted

-----------------------------------------------------------------------------
(* acquireTransportLock *)

\* start() of a new manager: owner mode tries for the lock at once.
Activate(r) ==
  /\ pc[r] \in {"down", "stopped"}
  /\ Goto(r, "create")
  /\ UNCHANGED <<lock, fdLive, sock, evicted, faults>>

\* The owner recovery timer fires.
Attempt(r) ==
  /\ pc[r] = "follower"
  /\ Goto(r, "create")
  /\ UNCHANGED <<lock, fdLive, sock, evicted, faults>>

\* Mutant: opened with 'w', the file need not be absent.
OpenTruncating(r) ==
  /\ lock' = [body |-> Unreadable, by |-> r, age |-> "fresh"]
  /\ fdLive' = {r}

\* openSync(lockPath, 'wx'): the file exists, empty, before its payload does.
OpenExclusive(r) ==
  /\ lock.body = Absent
  /\ lock' = [body |-> Unreadable, by |-> r, age |-> "fresh"]
  /\ fdLive' = {r}

Create(r) ==
  /\ pc[r] = "create"
  /\ \/ OpenExclusive(r) /\ Goto(r, "fill")
     \/ lock.body # Absent /\ Goto(r, "inspect") /\ UNCHANGED <<lock, fdLive>>
  /\ UNCHANGED <<sock, evicted, faults>>

\* Mutant: the second creation after a reclaim takes over whatever is there.
RecreateTruncating(r) ==
  /\ pc[r] = "recreate"
  /\ OpenTruncating(r) /\ Goto(r, "refill")
  /\ UNCHANGED <<sock, evicted, faults>>

\* After the unlink a lock that is there again is an error, not a reason to look.
Recreate(r) ==
  /\ pc[r] = "recreate"
  /\ \/ OpenExclusive(r) /\ Goto(r, "refill")
     \/ lock.body # Absent /\ Goto(r, "follower") /\ UNCHANGED <<lock, fdLive>>
  /\ UNCHANGED <<sock, evicted, faults>>

\* Mutant: the payload is written without a runtime id.
WriteAnonymous(r) ==
  /\ lock' = [body |-> IF r \in fdLive THEN NoOne ELSE lock.body, by |-> lock.by,
              age |-> lock.age]
  /\ fdLive' = fdLive \ {r}

\* writeFileSync on the descriptor.  Over the payload of another writer, which
\* no truncation of r's preceded, what remains may be malformed.
WritePayload(r) ==
  /\ IF r \in fdLive
     THEN \E b \in {r} \cup (IF lock.body = Unreadable THEN {} ELSE {Unreadable}) :
            lock' = [body |-> b, by |-> lock.by, age |-> "fresh"]
     ELSE UNCHANGED lock
  /\ fdLive' = fdLive \ {r}

Fill(r) ==
  /\ pc[r] \in {"fill", "refill"}
  /\ \/ WritePayload(r) /\ Goto(r, "bind") /\ UNCHANGED faults
     \/ Fault /\ Goto(r, "follower") /\ fdLive' = fdLive \ {r} /\ UNCHANGED lock
  /\ UNCHANGED <<sock, evicted>>

\* readLockPayload: a live pid ends the attempt (live_owner), whatever its age.
Inspect(r) ==
  /\ pc[r] = "inspect"
  /\ Goto(r, IF ProcessAlive(lock.body) THEN "follower" ELSE "stale")
  /\ UNCHANGED <<lock, fdLive, sock, evicted, faults>>

\* Mutant: a lock without a payload is never stale.
IsLockStaleReadable(r) ==
  /\ pc[r] = "stale"
  /\ Goto(r, IF lock.body = Dead \/ (lock.age = "old" /\ lock.body # Unreadable)
             THEN "unlink" ELSE "follower")
  /\ UNCHANGED <<lock, fdLive, sock, evicted, faults>>

\* isLockStale reads the file again; only without a payload it asks for its mtime.
IsLockStale(r) ==
  /\ pc[r] = "stale"
  /\ Goto(r, IF lock.body \in {Absent, Unreadable} THEN "stat"
             ELSE IF lock.body = Dead \/ lock.age = "old" THEN "unlink"
             ELSE "follower")
  /\ UNCHANGED <<lock, fdLive, sock, evicted, faults>>

\* statSync: a file that has gone counts as stale.
StatLock(r) ==
  /\ pc[r] = "stat"
  /\ Goto(r, IF lock.body = Absent \/ lock.age = "old" THEN "unlink" ELSE "follower")
  /\ UNCHANGED <<lock, fdLive, sock, evicted, faults>>

\* unlinkSync of whatever is at lockPath now.
Unlink(r) ==
  /\ pc[r] = "unlink"
  /\ \/ lock.body # Absent /\ RemoveLock(r) /\ Goto(r, "recreate")
     \/ lock.body = Absent /\ Goto(r, "follower") /\ UNCHANGED <<lock, fdLive, evicted>>
  /\ UNCHANGED <<sock, faults>>

-----------------------------------------------------------------------------
(* The owner: relay socket and heartbeat *)

\* prepareTransportSocketPath.
BindClear(r) ==
  /\ pc[r] = "bind"
  /\ RemoveSocket(r)
  /\ Goto(r, "listen")
  /\ UNCHANGED <<lock, fdLive, faults>>

\* Mutant: the error of listen is ignored and the runtime goes on as the owner.
ListenUnheard(r) ==
  /\ pc[r] = "listen"
  /\ \/ sock = Absent /\ sock' = r /\ UNCHANGED faults
     \/ Fault /\ UNCHANGED sock
  /\ Goto(r, "firstBeat")
  /\ UNCHANGED <<lock, fdLive, evicted>>

\* server.listen: a path that exists is EADDRINUSE and ends in handleOwnerFailure.
Listen(r) ==
  /\ pc[r] = "listen"
  /\ \/ sock = Absent /\ sock' = r /\ Goto(r, "firstBeat") /\ UNCHANGED faults
     \/ sock # Absent /\ Goto(r, "demote") /\ UNCHANGED <<sock, faults>>
     \/ Fault /\ Goto(r, "demote") /\ UNCHANGED sock
  /\ UNCHANGED <<lock, fdLive, evicted>>

\* overwriteLock opens with 'w': truncates the file at the path, or creates one.
BeatOpen(r) ==
  /\ pc[r] \in {"firstBeat", "owner"}
  /\ Goto(r, IF pc[r] = "owner" THEN "refresh" ELSE "firstWrite")
  /\ lock' = [body |-> Unreadable, age |-> "fresh",
              by |-> IF lock.body = Absent THEN r ELSE lock.by]
  /\ fdLive' = fdLive \cup {r}
  /\ UNCHANGED <<sock, evicted, faults>>

BeatWrite(r) ==
  /\ pc[r] \in {"firstWrite", "refresh"}
  /\ WritePayload(r)
  /\ Goto(r, "owner")
  /\ UNCHANGED <<sock, evicted, faults>>

\* A failed heartbeat of the timer demotes; the first one only returns early
\* and leaves an owner whose lock file stays empty.
BeatFails(r) ==
  /\ pc[r] \in {"firstWrite", "refresh"}
  /\ Fault
  /\ Goto(r, IF pc[r] = "refresh" THEN "demote" ELSE "owner")
  /\ fdLive' = fdLive \ {r}
  /\ UNCHANGED <<lock, sock, evicted>>

-----------------------------------------------------------------------------
(* Leaving: handleOwnerFailure and stop *)

\* A server error or close, or a heartbeat that cannot open the file.
OwnerFails(r) ==
  /\ pc[r] = "owner"
  /\ Fault
  /\ Goto(r, "demote")
  /\ UNCHANGED <<lock, fdLive, sock, evicted>>

\* removeLockIfOwned reads first: only a readable payload of another is spared; if
\* the read fails, the unlink follows all the same.
SparesLock(r) == lock.body \notin {r, Unreadable, Absent}

\* handleOwnerFailure: the socket path goes, then the lock, then the role.
Demote(r) ==
  /\ pc[r] = "demote"
  /\ RemoveSocket(r)
  /\ Goto(r, IF SparesLock(r) THEN "follower" ELSE "demoteUnlink")
  /\ UNCHANGED <<lock, fdLive, faults>>

DemoteUnlink(r) ==
  /\ pc[r] = "demoteUnlink"
  /\ RemoveLock(r)
  /\ Goto(r, "follower")
  /\ UNCHANGED <<sock, faults>>

\* stop() of an owner: server.close() unlinks the path and is awaited.
Stop(r) ==
  /\ pc[r] \in {"owner", "follower"}
  /\ \/ pc[r] = "owner" /\ RemoveSocket(r) /\ Goto(r, "stopClose")
     \/ pc[r] = "follower" /\ Goto(r, "stopped") /\ UNCHANGED <<sock, evicted>>
  /\ UNCHANGED <<lock, fdLive, faults>>

StopClosed(r) ==
  /\ pc[r] = "stopClose"
  /\ Goto(r, IF SparesLock(r) THEN "stopClean" ELSE "stopUnlink")
  /\ UNCHANGED <<lock, fdLive, sock, evicted, faults>>

StopUnlink(r) ==
  /\ pc[r] = "stopUnlink"
  /\ RemoveLock(r)
  /\ Goto(r, "stopClean")
  /\ UNCHANGED <<sock, faults>>

\* cleanupTransportSocketPath runs last, when the lock is already free.
StopClean(r) ==
  /\ pc[r] = "stopClean"
  /\ RemoveSocket(r)
  /\ Goto(r, "stopped")
  /\ UNCHANGED <<lock, fdLive, faults>>

-----------------------------------------------------------------------------
(* The host *)

\* The process of r ends: its pid, descriptors and connections go, files stay.
Die(r) ==
  /\ Goto(r, "down")
  /\ lock' = [body |-> IF lock.body = r THEN Dead ELSE lock.body,
              by |-> IF lock.by = r THEN NoOne ELSE lock.by, age |-> lock.age]
  /\ fdLive' = fdLive \ {r}
  /\ sock' = IF sock = r THEN Dead ELSE sock
  /\ UNCHANGED evicted

Crash(r) == pc[r] \notin {"down", "stopped"} /\ Fault /\ Die(r)

Exit(r) == pc[r] = "stopped" /\ Die(r) /\ UNCHANGED faults

\* lockStaleMs passes since updatedAt, or since mtime of an unreadable file.
Age ==
  /\ Aging /\ lock.body # Absent /\ lock.age = "fresh"
  /\ lock' = [lock EXCEPT !.age = "old"]
  /\ UNCHANGED <<pc, fdLive, sock, evicted, faults>>

ReusePid ==
  /\ PidReuse /\ lock.body = Dead
  /\ lock' = [lock EXCEPT !.body = Foreign]
  /\ UNCHANGED <<pc, fdLive, sock, evicted, faults>>

-----------------------------------------------------------------------------

\* The calls a running process makes on its own account.
Step(r) ==
  \/ Attempt(r) \/ Create(r) \/ Recreate(r) \/ Fill(r)
  \/ Inspect(r) \/ IsLockStale(r) \/ StatLock(r) \/ Unlink(r)
  \/ BindClear(r) \/ Listen(r) \/ BeatWrite(r)
  \/ Demote(r) \/ DemoteUnlink(r) \/ StopClosed(r) \/ StopUnlink(r) \/ StopClean(r)

Next ==
  \/ \E r \in Runtimes : \/ Step(r)
                         \/ Activate(r) \/ BeatOpen(r) \/ BeatFails(r) \/ OwnerFails(r)
                         \/ Stop(r) \/ Crash(r) \/ Exit(r)
  \/ Age \/ ReusePid

Spec == Init /\ [][Next]_vars

\* A process that is not stopped by the host goes on, timers fire, time passes.
FairSpec == Spec /\ WF_vars(Age) /\ \A r \in Runtimes : WF_vars(Step(r)) /\ WF_vars(BeatOpen(r))

-----------------------------------------------------------------------------

\* The values of the variables.
TypeOK ==
  /\ pc \in [Runtimes -> PCs]
  /\ lock \in [body: Runtimes \cup {Absent, Dead, Foreign, Unreadable},
               by: Runtimes \cup {NoOne}, age: {"fresh", "old"}]
  /\ fdLive \in SUBSET Runtimes
  /\ sock \in Runtimes \cup {Absent, Dead}
  /\ evicted \in SUBSET {"lock", "sock"}
  /\ faults \in 0..MaxFaults

\* ownsLock of the manager: from the return of acquireTransportLock to releaseLock.
Owns(r) == pc[r] \in Claiming \ {"fill", "refill"}

\* One owner per host (docs/transport.md:5).  Stated without any condition: the
\* reclaim of a stale lock breaks it, because the file that is unlinked need not
\* be the file that was found stale.
OneOwner == \A r, s \in Runtimes : Owns(r) /\ Owns(s) => r = s

\* As long as no process unlinked a lock that another live runtime was using,
\* there is one owner: exclusive create, heartbeats, release and crashes of any
\* interleaving keep it.  The removal is thus the only door to two owners.
OneOwnerUnlessEvicted == "lock" \in evicted \/ OneOwner

\* Under the same condition the lock file is the one its owner made, and names
\* nobody else: what contenders read of a live owner is never wrong.
LockNamesOwner ==
  "lock" \in evicted \/
    \A r \in Runtimes : pc[r] \in Claiming => lock.by = r /\ lock.body \in {r, Unreadable}

\* While the lock is respected, the socket path leads to the owner that serves
\* it.  stop() breaks it: it frees the lock first and unlinks the path after.
OwnerReachable ==
  "lock" \in evicted \/ \A r \in Runtimes : pc[r] \in Serving => sock = r

\* The late unlink of stop() is the only way to lose a serving owner's socket.
OwnerReachableUnlessEvicted == "sock" \in evicted \/ OwnerReachable

\* A contender is never kept out for good: whatever lock was left behind, dead or half
\* written, some runtime ends up owner unless none is left to try.  One lock defeats them
\* all: its pid was given to a process of somebody else, and lockStaleMs is not consulted
\* for a process that lives (ownership.ts:90).
OwnerRecovers ==
  (\E r \in Runtimes : pc[r] \notin {"down", "stopped"})
    ~> (\/ \E r \in Runtimes : Owns(r)
        \/ \A r \in Runtimes : pc[r] \in {"down", "stopped"}
        \/ lock.body = Foreign)
=============================================================================
