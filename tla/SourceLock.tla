----------------------------- MODULE SourceLock -----------------------------
(***************************************************************************)
(* The source write lock of brainlib/locking.py: a lock file created with  *)
(* O_EXCL, serialised by an flock on its parent directory, with recovery   *)
(* of stale entries by quarantine-and-verify.                              *)
(*                                                                         *)
(* A file is an inode; the canonical name (entry) and the quarantine names *)
(* (quarantined) link to inodes.  Cooperating processes hold the directory *)
(* flock from GetFlock to the end of the attempt; uncooperative writers    *)
(* (an editor, rm, a sync tool) ignore it.  The kernel drops the flock of  *)
(* a process that dies.                                                    *)
(***************************************************************************)
EXTENDS Integers, FiniteSets

CONSTANTS
    Procs,          \* processes that run lock-taking commands
    Hosts,          \* machines sharing the repository directory
    HostOf,         \* [Procs -> Hosts], socket.gethostname()
    Offset,         \* [Hosts -> Int], each host's wall clock minus true time
    MaxSkew,        \* bound on the difference of two hosts' clocks
    StaleAfter,     \* stale_after, in ticks
    Inodes,         \* inode numbers the file system can hand out
    NoFile,         \* no inode: the name does not exist
    NoProc,         \* nobody holds the flock
    Foreign,        \* the owner written by an uncooperative process
    MaxRetries,     \* _MAX_REPLACEMENT_RETRIES
    MaxTime,        \* bound: ticks of the true clock
    MaxCrashes,     \* bound: process deaths
    MaxFaults,      \* bound: failing system calls
    MaxExternals    \* bound: interventions of uncooperative writers

ASSUME LockConstants ==
    /\ HostOf \in [Procs -> Hosts]
    /\ Offset \in [Hosts -> Int]
    /\ MaxSkew \in Nat
    /\ \A g, h \in Hosts : Offset[g] - Offset[h] <= MaxSkew
    /\ StaleAfter \in Nat \ {0}
    /\ NoFile \notin Inodes
    /\ NoProc \notin Procs
    /\ Foreign \notin Procs
    /\ MaxRetries \in Nat \ {0}
    /\ MaxTime \in Nat /\ MaxCrashes \in Nat
    /\ MaxFaults \in Nat /\ MaxExternals \in Nat

VARIABLES
    clock,          \* true time
    entry,          \* the inode named source-write.lock, or NoFile
    quarantined,    \* how many .quarantine-<pid>-<uuid> names an inode has
    inode,          \* contents and ctime of every inode
    flock,          \* who holds LOCK_EX on the parent directory
    pc,             \* where each process is
    mode,           \* why it is claiming: recovery, release or cleanup
    now,            \* current_time, read once at the start of acquire()
    mine,           \* the inode this process created, or has just claimed
    expected,       \* the observation a claim must match: inode and ctime
    retries,        \* replacements
    crashes, faults, externals

vars == <<clock, entry, quarantined, inode, flock, pc, mode, now, mine,
          expected, retries, crashes, faults, externals>>

bounds == <<crashes, faults, externals>>
files  == <<entry, quarantined, inode>>
locals == <<mode, now, mine, expected, retries>>

-----------------------------------------------------------------------------
Contents == [owner : Procs \union {Foreign}, startedAt : Int,
             complete : BOOLEAN, touched : BOOLEAN]

Observation == [file : Inodes \union {NoFile}, touched : BOOLEAN]

Nothing == [file |-> NoFile, touched |-> FALSE]

\* Program counters between GetFlock and the end of an attempt.
Serialised == {"create", "write", "confirm", "observe", "recheck", "claim",
               "settle"}

Counters == Serialised \union {"idle", "blocked", "holding", "returning", "dead"}

TypeOK ==
    /\ clock \in Nat
    /\ entry \in Inodes \union {NoFile}
    /\ quarantined \in [Inodes -> Nat]
    /\ inode \in [Inodes -> Contents]
    /\ flock \in Procs \union {NoProc}
    /\ pc \in [Procs -> Counters]
    /\ mode \in [Procs -> {"recover", "release", "cleanup"}]
    /\ now \in [Procs -> Int]
    /\ mine \in [Procs -> Inodes \union {NoFile}]
    /\ expected \in [Procs -> Observation]
    /\ retries \in [Procs -> Nat]
    /\ crashes \in Nat /\ faults \in Nat /\ externals \in Nat

Init ==
    /\ clock = 0
    /\ entry = NoFile
    /\ quarantined = [i \in Inodes |-> 0]
    /\ inode = [i \in Inodes |-> [owner |-> Foreign, startedAt |-> 0,
                                  complete |-> FALSE, touched |-> FALSE]]
    /\ flock = NoProc
    /\ pc = [p \in Procs |-> "idle"]
    /\ mode = [p \in Procs |-> "recover"]
    /\ now = [p \in Procs |-> 0]
    /\ mine = [p \in Procs |-> NoFile]
    /\ expected = [p \in Procs |-> Nothing]
    /\ retries = [p \in Procs |-> 0]
    /\ crashes = 0 /\ faults = 0 /\ externals = 0

-----------------------------------------------------------------------------
(* Helpers.                                                                *)

WallClock(h) == clock + Offset[h]

\* An inode number is handed out again only when nothing refers to it; a
\* remembered identity also carries mtime and ctime, so it never matches a
\* later file of the same number.
Fresh(i) ==
    /\ i # entry
    /\ quarantined[i] = 0
    /\ \A p \in Procs : i # mine[p] /\ i # expected[p].file

Observe(i) == [file |-> i, touched |-> inode[i].touched]

\* os.kill(pid, 0): a process that died and was restarted under the same
\* pid answers as alive.
ProcessIsAlive(p) == pc[p] # "dead"

\* Mutants of MayRecover: the age of the entry is not looked at; entries of
\* other machines are never recovered.
MayRecoverYoung(p, i) ==
    \/ inode[i].owner = Foreign
    \/ HostOf[inode[i].owner] # HostOf[p]
    \/ ~ProcessIsAlive(inode[i].owner)

MayRecoverLocal(p, i) ==
    /\ now[p] - inode[i].startedAt >= StaleAfter
    /\ inode[i].owner # Foreign
    /\ HostOf[inode[i].owner] = HostOf[p] /\ ~ProcessIsAlive(inode[i].owner)

\* An uncooperative writer may put any hostname and pid in the entry.
MayRecover(p, i) ==
    /\ now[p] - inode[i].startedAt >= StaleAfter
    /\ IF inode[i].owner = Foreign
       THEN TRUE
       ELSE \/ HostOf[inode[i].owner] # HostOf[p]
            \/ ~ProcessIsAlive(inode[i].owner)

\* The locals of the call are gone.
Forget(p) ==
    /\ mode' = [mode EXCEPT ![p] = "recover"]
    /\ now' = [now EXCEPT ![p] = 0]
    /\ mine' = [mine EXCEPT ![p] = NoFile]
    /\ expected' = [expected EXCEPT ![p] = Nothing]
    /\ retries' = [retries EXCEPT ![p] = 0]

\* The end of an attempt: every descriptor is closed, which drops the flock.
Leave(p) ==
    /\ pc' = [pc EXCEPT ![p] = "idle"]
    /\ flock' = NoProc
    /\ Forget(p)

\* Where a claim that removed nothing continues: recovery counts it and
\* loops, up to the retry limit; release() returns False; a cleanup
\* re-raises the error that started it.
ClaimRefused(p) ==
    IF mode[p] = "recover" /\ retries[p] + 1 < MaxRetries
    THEN /\ retries' = [retries EXCEPT ![p] = @ + 1]
         /\ pc' = [pc EXCEPT ![p] = "create"]
         /\ expected' = [expected EXCEPT ![p] = Nothing]
         /\ UNCHANGED <<flock, mode, now, mine>>
    ELSE Leave(p)

-----------------------------------------------------------------------------
(* acquire().                                                              *)

\* current_time is read before the process waits for the flock.
StartAcquire(p) ==
    /\ pc[p] = "idle"
    /\ pc' = [pc EXCEPT ![p] = "blocked"]
    /\ now' = [now EXCEPT ![p] = WallClock(HostOf[p])]
    /\ UNCHANGED <<clock, files, flock, mode, mine, expected, retries, bounds>>

GetFlock(p) ==
    /\ pc[p] \in {"blocked", "returning"}
    /\ flock = NoProc
    /\ flock' = p
    /\ pc' = [pc EXCEPT ![p] = IF @ = "blocked" THEN "create" ELSE "observe"]
    /\ UNCHANGED <<clock, files, locals, bounds>>

\* Mutant of ExclusiveCreate: O_EXCL is dropped.
CreateOrReplace(p) ==
    /\ pc[p] = "create"
    /\ \E i \in Inodes :
        /\ Fresh(i)
        /\ entry' = i
        /\ inode' = [inode EXCEPT ![i] =
                       [owner |-> p, startedAt |-> now[p],
                        complete |-> FALSE, touched |-> FALSE]]
        /\ mine' = [mine EXCEPT ![p] = i]
    /\ pc' = [pc EXCEPT ![p] = "write"]
    /\ UNCHANGED <<clock, quarantined, flock, mode, now, expected, retries,
                   bounds>>

\* os.open(O_CREAT | O_EXCL): an empty file, not yet a lock.
ExclusiveCreate(p) ==
    /\ pc[p] = "create"
    /\ entry = NoFile
    /\ \E i \in Inodes :
        /\ Fresh(i)
        /\ entry' = i
        /\ inode' = [inode EXCEPT ![i] =
                       [owner |-> p, startedAt |-> now[p],
                        complete |-> FALSE, touched |-> FALSE]]
        /\ mine' = [mine EXCEPT ![p] = i]
    /\ pc' = [pc EXCEPT ![p] = "write"]
    /\ UNCHANGED <<clock, quarantined, flock, mode, now, expected, retries,
                   bounds>>

CreateFindsEntry(p) ==
    /\ pc[p] = "create"
    /\ entry # NoFile
    /\ pc' = [pc EXCEPT ![p] = "observe"]
    /\ UNCHANGED <<clock, files, flock, locals, bounds>>

WritePayload(p) ==
    /\ pc[p] = "write"
    /\ inode' = [inode EXCEPT ![mine[p]].complete = TRUE]
    /\ pc' = [pc EXCEPT ![p] = "confirm"]
    /\ UNCHANGED <<clock, entry, quarantined, flock, locals, bounds>>

\* The name still shows the file just written: the lock is held.
ConfirmCreate(p) ==
    /\ pc[p] = "confirm"
    /\ entry = mine[p]
    /\ pc' = [pc EXCEPT ![p] = "holding"]
    /\ flock' = NoProc
    /\ UNCHANGED <<clock, files, locals, bounds>>

\* The last parent.validate(), after _create_lock returned, raises: nothing
\* removes the entry just written.
ConfirmFault(p) ==
    /\ pc[p] = "confirm"
    /\ faults < MaxFaults
    /\ faults' = faults + 1
    /\ Leave(p)
    /\ UNCHANGED <<clock, files, crashes, externals>>

\* An error after the exclusive create: claim our own inode back and re-raise.
BeginCleanup(p) ==
    /\ mode' = [mode EXCEPT ![p] = "cleanup"]
    /\ expected' = [expected EXCEPT ![p] = [file |-> mine[p], touched |-> FALSE]]
    /\ pc' = [pc EXCEPT ![p] = "claim"]

ConfirmFails(p) ==
    /\ pc[p] = "confirm"
    /\ entry # mine[p]
    /\ BeginCleanup(p)
    /\ UNCHANGED <<clock, files, flock, now, mine, retries, bounds>>

CreateFault(p) ==
    /\ pc[p] \in {"write", "confirm"}
    /\ faults < MaxFaults
    /\ faults' = faults + 1
    /\ BeginCleanup(p)
    /\ UNCHANGED <<clock, files, flock, now, mine, retries, crashes, externals>>

\* LockHeldError: torn metadata, or an owner that may not be displaced; or
\* the entry vanished before it was read.  Nothing is changed.
LockHeld(p) ==
    /\ pc[p] = "observe" /\ mode[p] = "recover"
    /\ ~ /\ entry # NoFile
         /\ inode[entry].complete
         /\ inode[entry].owner # Foreign
         /\ MayRecover(p, entry)
    /\ Leave(p)
    /\ UNCHANGED <<clock, files, bounds>>

ObserveStale(p) ==
    /\ pc[p] = "observe" /\ mode[p] = "recover"
    /\ entry # NoFile
    /\ inode[entry].complete
    /\ MayRecover(p, entry)
    /\ expected' = [expected EXCEPT ![p] = Observe(entry)]
    /\ pc' = [pc EXCEPT ![p] = "recheck"]
    /\ UNCHANGED <<clock, files, flock, mode, now, mine, retries, bounds>>

-----------------------------------------------------------------------------
(* release().                                                              *)

StartRelease(p) ==
    /\ pc[p] = "holding"
    /\ mode' = [mode EXCEPT ![p] = "release"]
    /\ pc' = [pc EXCEPT ![p] = "returning"]
    /\ UNCHANGED <<clock, files, flock, now, mine, expected, retries, bounds>>

\* Same metadata and the same identity, ctime included, as at acquisition.
OwnEntry(p) == entry = mine[p] /\ inode[entry].complete /\ ~inode[entry].touched

ReleaseObserves(p) ==
    /\ pc[p] = "observe" /\ mode[p] = "release"
    /\ entry # NoFile
    /\ OwnEntry(p)
    /\ expected' = [expected EXCEPT ![p] = Observe(entry)]
    /\ pc' = [pc EXCEPT ![p] = "recheck"]
    /\ UNCHANGED <<clock, files, flock, mode, now, mine, retries, bounds>>

\* release() returns False and the context manager raises LockCleanupError.
ReleaseUnproved(p) ==
    /\ pc[p] = "observe" /\ mode[p] = "release"
    /\ ~(entry # NoFile /\ OwnEntry(p))
    /\ Leave(p)
    /\ UNCHANGED <<clock, files, bounds>>

-----------------------------------------------------------------------------
(* The second read and _claim_and_remove(), shared by both.                *)

RecheckSame(p) ==
    /\ pc[p] = "recheck"
    /\ entry # NoFile
    /\ Observe(entry) = expected[p]
    /\ pc' = [pc EXCEPT ![p] = "claim"]
    /\ UNCHANGED <<clock, files, flock, locals, bounds>>

RecheckDiffers(p) ==
    /\ pc[p] = "recheck"
    /\ entry # NoFile
    /\ Observe(entry) # expected[p]
    /\ ClaimRefused(p)
    /\ UNCHANGED <<clock, files, bounds>>

\* The second read, or the rename, raises FileNotFoundError.
EntryVanished(p) ==
    /\ pc[p] \in {"recheck", "claim"}
    /\ entry = NoFile
    /\ Leave(p)
    /\ UNCHANGED <<clock, files, bounds>>

\* renameat2(RENAME_NOREPLACE) to a fresh quarantine name; it moves whatever
\* the canonical name shows now, and changes that inode's ctime.
Claim(p) ==
    /\ pc[p] = "claim"
    /\ entry # NoFile
    /\ entry' = NoFile
    /\ quarantined' = [quarantined EXCEPT ![entry] = @ + 1]
    /\ inode' = [inode EXCEPT ![entry].touched = TRUE]
    /\ mine' = [mine EXCEPT ![p] = entry]
    /\ pc' = [pc EXCEPT ![p] = "settle"]
    /\ UNCHANGED <<clock, flock, mode, now, expected, retries, bounds>>

\* The claimed inode; _same_claimed_lock leaves ctime out of the comparison.
Claimed(p) == mine[p]

\* Mutant of Unlink: the quarantine name is removed a second time.
UnlinkTwice(p) == quarantined' = [quarantined EXCEPT ![Claimed(p)] = @ - 2]

Unlink(p) == quarantined' = [quarantined EXCEPT ![Claimed(p)] = @ - 1]

\* Mutant of SettleMatch: whatever was captured is unlinked.
SettleUnverified(p) ==
    /\ pc[p] = "settle"
    /\ Unlink(p)
    /\ IF mode[p] = "recover"
       THEN /\ pc' = [pc EXCEPT ![p] = "create"]
            /\ expected' = [expected EXCEPT ![p] = Nothing]
            /\ UNCHANGED <<flock, mode, now, mine, retries>>
       ELSE Leave(p)
    /\ UNCHANGED <<clock, entry, inode, bounds>>

\* The verified entry is unlinked: recovery tries the create again, release
\* has succeeded, cleanup re-raises.
SettleMatch(p) ==
    /\ pc[p] = "settle"
    /\ Claimed(p) = expected[p].file
    /\ Unlink(p)
    /\ IF mode[p] = "recover"
       THEN /\ pc' = [pc EXCEPT ![p] = "create"]
            /\ expected' = [expected EXCEPT ![p] = Nothing]
            /\ UNCHANGED <<flock, mode, now, mine, retries>>
       ELSE Leave(p)
    /\ UNCHANGED <<clock, entry, inode, bounds>>

\* Mutant of SettleRestores: the capture is renamed back over the name.
SettleOverwrites(p) ==
    /\ pc[p] = "settle"
    /\ Claimed(p) # expected[p].file
    /\ entry' = Claimed(p)
    /\ ClaimRefused(p)
    /\ UNCHANGED <<clock, quarantined, inode, bounds>>

\* Somebody else's file was captured: link it back under the canonical name
\* and keep the quarantine link.
SettleRestores(p) ==
    /\ pc[p] = "settle"
    /\ Claimed(p) # expected[p].file
    /\ entry = NoFile
    /\ entry' = Claimed(p)
    /\ ClaimRefused(p)
    /\ UNCHANGED <<clock, quarantined, inode, bounds>>

\* The canonical name was repopulated meanwhile: the capture is retained in
\* quarantine and the attempt fails.
SettleRepopulated(p) ==
    /\ pc[p] = "settle"
    /\ Claimed(p) # expected[p].file
    /\ entry # NoFile
    /\ Leave(p)
    /\ UNCHANGED <<clock, files, bounds>>

\* A failing system call after the rename: the quarantined file cannot be
\* read (it is linked back if the name is free), or the unlink fails (it
\* stays in quarantine), or the final fsync fails (it is already removed).
\* Each raises out of the attempt.
SettleFault(p) ==
    /\ pc[p] = "settle"
    /\ faults < MaxFaults
    /\ faults' = faults + 1
    /\ \/ /\ entry' = IF entry = NoFile THEN Claimed(p) ELSE entry
          /\ UNCHANGED quarantined
       \/ /\ Claimed(p) = expected[p].file
          /\ UNCHANGED <<entry, quarantined>>
       \/ /\ Claimed(p) = expected[p].file
          /\ Unlink(p)
          /\ UNCHANGED entry
    /\ Leave(p)
    /\ UNCHANGED <<clock, inode, crashes, externals>>

\* Any other failing call: the flock, a read, or the rename.  It raises out
\* of the attempt and leaves every file where it is.
AttemptFault(p) ==
    /\ pc[p] \in {"create", "observe", "recheck", "claim"}
    /\ faults < MaxFaults
    /\ faults' = faults + 1
    /\ Leave(p)
    /\ UNCHANGED <<clock, files, crashes, externals>>

-----------------------------------------------------------------------------
(* The environment.                                                        *)

Tick ==
    /\ clock < MaxTime
    /\ clock' = clock + 1
    /\ UNCHANGED <<files, flock, pc, locals, bounds>>

Crash(p) ==
    /\ pc[p] # "dead"
    /\ crashes < MaxCrashes
    /\ crashes' = crashes + 1
    /\ pc' = [pc EXCEPT ![p] = "dead"]
    /\ flock' = IF flock = p THEN NoProc ELSE flock
    /\ Forget(p)
    /\ UNCHANGED <<clock, files, faults, externals>>

\* A new process that got the dead one's pid.
Restart(p) ==
    /\ pc[p] = "dead"
    /\ pc' = [pc EXCEPT ![p] = "idle"]
    /\ UNCHANGED <<clock, files, flock, locals, bounds>>

\* An uncooperative writer removes the entry or replaces it with a file.
Intrude ==
    /\ externals < MaxExternals
    /\ externals' = externals + 1
    /\ \/ /\ entry # NoFile
          /\ entry' = NoFile
          /\ UNCHANGED inode
       \/ \E i \in Inodes, whole \in BOOLEAN :
            /\ Fresh(i)
            /\ entry' = i
            /\ inode' = [inode EXCEPT ![i] =
                           [owner |-> Foreign, startedAt |-> clock,
                            complete |-> whole, touched |-> FALSE]]
    /\ UNCHANGED <<clock, quarantined, flock, pc, locals, crashes, faults>>

\* What a live process does by itself once it has started an attempt.
Proceed(p) ==
    \/ ExclusiveCreate(p) \/ CreateFindsEntry(p)
    \/ WritePayload(p) \/ ConfirmCreate(p) \/ ConfirmFails(p)
    \/ LockHeld(p) \/ ObserveStale(p)
    \/ StartRelease(p) \/ ReleaseObserves(p) \/ ReleaseUnproved(p)
    \/ RecheckSame(p) \/ RecheckDiffers(p) \/ EntryVanished(p)
    \/ Claim(p) \/ SettleMatch(p) \/ SettleRestores(p) \/ SettleRepopulated(p)

Next ==
    \/ \E p \in Procs :
        \/ StartAcquire(p) \/ GetFlock(p) \/ Proceed(p)
        \/ CreateFault(p) \/ ConfirmFault(p) \/ SettleFault(p) \/ AttemptFault(p)
        \/ Crash(p) \/ Restart(p)
    \/ Tick
    \/ Intrude

Spec == Init /\ [][Next]_vars

\* flock(2) queues its waiters, the scheduler runs every live process, and
\* somebody keeps running commands.
FairSpec ==
    /\ Spec
    /\ WF_clock(Tick)
    /\ \A p \in Procs :
        /\ WF_vars(Proceed(p))
        /\ SF_vars(GetFlock(p))
        /\ WF_vars(StartAcquire(p))

-----------------------------------------------------------------------------
(* Properties.                                                             *)

Holders == {p \in Procs : pc[p] = "holding"}

\* When the process stamped its lock, in true time.
StampedAt(p) == now[p] - Offset[HostOf[p]]

\* Long enough in the body for another machine's clock to call it stale.
Lapsed(p) ==
    /\ clock - StampedAt(p) >= StaleAfter - MaxSkew
    /\ \E q \in Procs : HostOf[q] # HostOf[p]

\* Two processes are in the body of the lock together only when one of them
\* has outlived stale_after (less the clock skew) and the other machine took
\* its entry for stale; on one machine never, however long the body runs.
MutualExclusion ==
    \A p, q \in Holders : p # q => Lapsed(p) \/ Lapsed(q)

\* The lease this lock implements when nobody bypasses it.
Lease == INSTANCE Lease WITH
            Clients <- Procs,
            holders <- Holders,
            lapsed <- {p \in Holders : Lapsed(p)}

ImplementsLease == Lease!Spec

Linked(i) == i = entry \/ quarantined[i] > 0

MayRemove(p, i) ==
    \/ inode[i].owner = p
    \/ inode[i].complete /\ now[p] - inode[i].startedAt >= StaleAfter

\* acquire() and release() take the last name of a file away only when it is
\* their own or a whole entry past stale_after, even when an uncooperative
\* writer swaps entries between the second read and the rename: a torn entry
\* fails closed and a captured successor keeps a name.
VerifiedRemoval ==
    [][\A i \in Inodes :
         Linked(i) /\ ~Linked(i)' /\ externals' = externals
           => \E p \in Procs : pc[p] = "settle" /\ MayRemove(p, i)]_vars

\* The canonical name never shows a second file over a first one: every
\* cooperating step leaves the entry, removes it or fills the free name.
NeverOverwritten ==
    [][externals' = externals /\ entry # NoFile => entry' \in {entry, NoFile}]_vars

\* The entry was left by a process that is gone, early enough for every
\* clock to reach its expiry inside the modelled time.
Orphaned(p, i) ==
    /\ entry = i /\ inode[i].complete
    /\ inode[i].owner = p /\ pc[p] = "dead"
    /\ \A h \in Hosts : MaxTime + Offset[h] - inode[i].startedAt >= StaleAfter

\* A complete lock left behind by a process that died is eventually removed
\* by a later acquire(), unless its pid comes back to life.
OrphanRecovered ==
    \A p \in Procs, i \in Inodes :
        Orphaned(p, i) ~> (entry # i \/ pc[p] # "dead")
=============================================================================
