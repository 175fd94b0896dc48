-------------------------- MODULE SourceLockProofs --------------------------
(* Theorems about SourceLock, for any number of processes and machines.    *)
EXTENDS SourceLock, TLAPS

-----------------------------------------------------------------------------
(* The inductive invariant of every behaviour, with or without intruders.  *)

\* Only the holder of the directory flock is inside an attempt.
FlockHeld == \A p \in Procs : pc[p] \in Serialised => flock = p

\* The reason for claiming fits the place in the program.
ModeMatches ==
    \A p \in Procs :
        /\ pc[p] \in {"idle", "blocked", "create", "write", "confirm",
                      "holding", "dead"} => mode[p] = "recover"
        /\ pc[p] = "returning" => mode[p] = "release"
        /\ pc[p] \in {"observe", "recheck"} => mode[p] \in {"recover", "release"}

\* From the exclusive create to the end of the claim of its own entry, the
\* file a process remembers is the one it stamped.
Remembers(p) ==
    \/ pc[p] \in {"write", "confirm", "holding", "returning"}
    \/ mode[p] # "recover" /\ pc[p] \in {"observe", "recheck", "claim"}

Stamped ==
    \A p \in Procs : Remembers(p) =>
        /\ mine[p] \in Inodes
        /\ inode[mine[p]].owner = p
        /\ inode[mine[p]].startedAt = now[p]

\* A claimed file has a quarantine name until it is settled.
Captured ==
    \A p \in Procs : pc[p] = "settle" =>
        mine[p] \in Inodes /\ quarantined[mine[p]] > 0

\* What a process is about to claim is its own, or whole and past its term.
Justified ==
    \A p \in Procs : pc[p] \in {"recheck", "claim", "settle"} =>
        /\ expected[p].file \in Inodes
        /\ MayRemove(p, expected[p].file)

Inv ==
    /\ TypeOK
    /\ FlockHeld
    /\ ModeMatches
    /\ Stamped
    /\ Captured
    /\ Justified

-----------------------------------------------------------------------------
\* The initial states satisfy the inductive invariant of the protocol.
LEMMA InvInit == Init => Inv
BY LockConstants DEF Init, Inv, TypeOK, FlockHeld, ModeMatches, Stamped,
   Captured, Justified, Remembers, Contents, Observation, Nothing, Counters,
   Serialised

\* Every step of a process or of an intruder keeps every variable in its type;
\* a settled claim always has the quarantine name it unlinks.
LEMMA TypeStep == Inv /\ [Next]_vars => TypeOK'
<1> SUFFICES ASSUME Inv, [Next]_vars PROVE TypeOK'
  OBVIOUS
<1> USE LockConstants DEF Inv, TypeOK, Counters, Serialised, bounds, files,
        locals
<1>a. /\ Nothing \in Observation
      /\ \A i \in Inodes \union {NoFile} :
           [file |-> i, touched |-> FALSE] \in Observation
      /\ \A i \in Inodes : Observe(i) \in Observation
  BY DEF Nothing, Observation, Observe, Contents
<1>b. \A i \in Inodes :
        /\ [inode EXCEPT ![i].complete = TRUE] \in [Inodes -> Contents]
        /\ [inode EXCEPT ![i].touched = TRUE] \in [Inodes -> Contents]
  BY DEF Contents
<1>c. ASSUME NEW p \in Procs, Forget(p)
      PROVE  /\ mode' \in [Procs -> {"recover", "release", "cleanup"}]
             /\ now' \in [Procs -> Int]
             /\ mine' \in [Procs -> Inodes \union {NoFile}]
             /\ expected' \in [Procs -> Observation]
             /\ retries' \in [Procs -> Nat]
  BY <1>a, <1>c DEF Forget
<1>d. ASSUME NEW p \in Procs, Leave(p)
      PROVE  /\ pc' \in [Procs -> Counters]
             /\ flock' \in Procs \union {NoProc}
             /\ Forget(p)
  BY <1>d DEF Leave
<1>e. ASSUME NEW p \in Procs, ClaimRefused(p)
      PROVE  /\ pc' \in [Procs -> Counters]
             /\ flock' \in Procs \union {NoProc}
             /\ mode' \in [Procs -> {"recover", "release", "cleanup"}]
             /\ now' \in [Procs -> Int]
             /\ mine' \in [Procs -> Inodes \union {NoFile}]
             /\ expected' \in [Procs -> Observation]
             /\ retries' \in [Procs -> Nat]
  <2>1. CASE mode[p] = "recover" /\ retries[p] + 1 < MaxRetries
    <3>1. retries[p] + 1 \in Nat
      OBVIOUS
    <3> QED
      BY <2>1, <3>1, <1>a, <1>e DEF ClaimRefused
  <2>2. CASE ~(mode[p] = "recover" /\ retries[p] + 1 < MaxRetries)
    <3>1. Leave(p)
      BY <2>2, <1>e DEF ClaimRefused
    <3> QED
      BY <3>1, <1>c, <1>d
  <2> QED
    BY <2>1, <2>2
<1>1. ASSUME NEW p \in Procs, StartAcquire(p) PROVE TypeOK'
  BY <1>1 DEF StartAcquire, WallClock
<1>2. ASSUME NEW p \in Procs, GetFlock(p) PROVE TypeOK'
  BY <1>2 DEF GetFlock
<1>3. ASSUME NEW p \in Procs, ExclusiveCreate(p) PROVE TypeOK'
  <2>1. PICK i \in Inodes :
          /\ entry' = i
          /\ inode' = [inode EXCEPT ![i] =
                         [owner |-> p, startedAt |-> now[p],
                          complete |-> FALSE, touched |-> FALSE]]
          /\ mine' = [mine EXCEPT ![p] = i]
    BY <1>3 DEF ExclusiveCreate
  <2>2. inode' \in [Inodes -> Contents]
    BY <2>1 DEF Contents
  <2> QED
    BY <1>3, <2>1, <2>2 DEF ExclusiveCreate
<1>4. ASSUME NEW p \in Procs, CreateFindsEntry(p) PROVE TypeOK'
  BY <1>4 DEF CreateFindsEntry
<1>5. ASSUME NEW p \in Procs, WritePayload(p) PROVE TypeOK'
  BY <1>5, <1>b DEF WritePayload, Inv, Stamped, Remembers
<1>6. ASSUME NEW p \in Procs, ConfirmCreate(p) PROVE TypeOK'
  BY <1>6 DEF ConfirmCreate
<1>7. ASSUME NEW p \in Procs, ConfirmFails(p) \/ CreateFault(p) PROVE TypeOK'
  <2>1. expected' \in [Procs -> Observation]
    <3>1. [file |-> mine[p], touched |-> FALSE] \in Observation
      BY <1>a
    <3> QED
      BY <1>7, <3>1 DEF ConfirmFails, CreateFault, BeginCleanup
  <2>2. CASE ConfirmFails(p)
    BY <2>1, <2>2 DEF ConfirmFails, BeginCleanup
  <2>3. CASE CreateFault(p)
    BY <2>1, <2>3 DEF CreateFault, BeginCleanup
  <2> QED
    BY <1>7, <2>2, <2>3
<1>8. ASSUME NEW p \in Procs,
             LockHeld(p) \/ ReleaseUnproved(p) \/ EntryVanished(p)
               \/ SettleRepopulated(p) \/ ConfirmFault(p) \/ AttemptFault(p)
      PROVE  TypeOK'
  BY <1>8, <1>c, <1>d DEF LockHeld, ReleaseUnproved, EntryVanished,
     SettleRepopulated, ConfirmFault, AttemptFault
<1>9. ASSUME NEW p \in Procs, ObserveStale(p) \/ ReleaseObserves(p) PROVE TypeOK'
  BY <1>9, <1>a DEF ObserveStale, ReleaseObserves
<1>10. ASSUME NEW p \in Procs, StartRelease(p) PROVE TypeOK'
  BY <1>10 DEF StartRelease
<1>11. ASSUME NEW p \in Procs, RecheckSame(p) PROVE TypeOK'
  BY <1>11 DEF RecheckSame
<1>12. ASSUME NEW p \in Procs, RecheckDiffers(p) PROVE TypeOK'
  BY <1>12, <1>e DEF RecheckDiffers
<1>13. ASSUME NEW p \in Procs, Claim(p) PROVE TypeOK'
  <2>1. entry \in Inodes /\ inode' \in [Inodes -> Contents]
    BY <1>13, <1>b DEF Claim
  <2> QED
    BY <1>13, <2>1 DEF Claim
<1>14. ASSUME NEW p \in Procs, Captured, Unlink(p), pc[p] = "settle"
       PROVE  quarantined' \in [Inodes -> Nat]
  BY <1>14 DEF Unlink, Claimed, Captured
<1>15. ASSUME NEW p \in Procs, SettleMatch(p) PROVE TypeOK'
  <2>1. quarantined' \in [Inodes -> Nat]
    BY <1>15, <1>14 DEF SettleMatch
  <2>2. CASE mode[p] = "recover"
    BY <1>15, <2>1, <2>2, <1>a DEF SettleMatch
  <2>3. CASE mode[p] # "recover"
    BY <1>15, <2>1, <2>3, <1>c, <1>d DEF SettleMatch
  <2> QED
    BY <2>2, <2>3
<1>16. ASSUME NEW p \in Procs, SettleRestores(p) PROVE TypeOK'
  BY <1>16, <1>e DEF SettleRestores, Claimed
<1>17. ASSUME NEW p \in Procs, SettleFault(p) PROVE TypeOK'
  BY <1>17, <1>14, <1>c, <1>d DEF SettleFault, Claimed
<1>21. ASSUME NEW p \in Procs, Crash(p) \/ Restart(p) PROVE TypeOK'
  BY <1>21, <1>c DEF Crash, Restart
<1>18. ASSUME Tick PROVE TypeOK'
  BY <1>18 DEF Tick
<1>19. ASSUME Intrude PROVE TypeOK'
  <2>1. inode' \in [Inodes -> Contents] /\ entry' \in Inodes \union {NoFile}
    <3>1. CASE entry' = NoFile /\ UNCHANGED inode
      BY <3>1
    <3>2. ASSUME NEW i \in Inodes, NEW whole \in BOOLEAN, entry' = i,
                 inode' = [inode EXCEPT ![i] =
                             [owner |-> Foreign, startedAt |-> clock,
                              complete |-> whole, touched |-> FALSE]]
          PROVE  inode' \in [Inodes -> Contents] /\ entry' \in Inodes
      BY <3>2 DEF Contents
    <3> QED
      BY <1>19, <3>1, <3>2 DEF Intrude
  <2> QED
    BY <1>19, <2>1 DEF Intrude
<1>20. ASSUME UNCHANGED vars PROVE TypeOK'
  BY <1>20 DEF vars
<1> QED
  BY <1>1, <1>2, <1>3, <1>4, <1>5, <1>6, <1>7, <1>8, <1>9, <1>10, <1>11,
     <1>12, <1>13, <1>15, <1>16, <1>17, <1>18, <1>19, <1>20, <1>21
     DEF Next, Proceed

\* A file something refers to keeps its stamp, and once whole stays whole.
LEMMA InodeStep ==
  Inv /\ [Next]_vars =>
    \A i \in Inodes : ~Fresh(i) =>
      /\ inode'[i].owner = inode[i].owner
      /\ inode'[i].startedAt = inode[i].startedAt
      /\ inode[i].complete => inode'[i].complete
<1> SUFFICES ASSUME Inv, [Next]_vars, NEW i \in Inodes, ~Fresh(i)
             PROVE  /\ inode'[i].owner = inode[i].owner
                    /\ inode'[i].startedAt = inode[i].startedAt
                    /\ inode[i].complete => inode'[i].complete
  OBVIOUS
<1>t. inode \in [Inodes -> Contents] /\ inode[i] \in Contents
  BY DEF Inv, TypeOK
<1>1. CASE inode' = inode
  BY <1>1
<1>2. ASSUME NEW p \in Procs, ExclusiveCreate(p)
      PROVE  inode'[i] = inode[i]
  BY <1>2, <1>t DEF ExclusiveCreate
<1>3. ASSUME Intrude
      PROVE  inode'[i] = inode[i]
  BY <1>3, <1>t DEF Intrude
<1>4. ASSUME NEW p \in Procs, WritePayload(p)
      PROVE  /\ inode'[i].owner = inode[i].owner
             /\ inode'[i].startedAt = inode[i].startedAt
             /\ inode'[i].complete \in {TRUE, inode[i].complete}
  BY <1>4, <1>t DEF WritePayload, Contents
<1>5. ASSUME NEW p \in Procs, Claim(p)
      PROVE  /\ inode'[i].owner = inode[i].owner
             /\ inode'[i].startedAt = inode[i].startedAt
             /\ inode'[i].complete = inode[i].complete
  BY <1>5, <1>t DEF Claim, Contents
<1>6. \/ inode' = inode \/ Intrude
      \/ \E p \in Procs : ExclusiveCreate(p) \/ WritePayload(p) \/ Claim(p)
  BY DEF Next, Proceed, vars, files, StartAcquire, GetFlock, CreateFindsEntry,
     ConfirmCreate, ConfirmFails, CreateFault, ConfirmFault, LockHeld,
     ObserveStale, StartRelease, ReleaseObserves, ReleaseUnproved, RecheckSame,
     RecheckDiffers, EntryVanished, SettleMatch, SettleRestores,
     SettleRepopulated, SettleFault, AttemptFault, Crash, Restart, Tick
<1> QED
  BY <1>1, <1>2, <1>3, <1>4, <1>5, <1>6, <1>t

\* Whoever is between GetFlock and the end of an attempt holds the directory
\* flock, and its mode agrees with where it is.
LEMMA ControlStep == Inv /\ [Next]_vars => FlockHeld' /\ ModeMatches'
<1> SUFFICES ASSUME Inv, [Next]_vars PROVE FlockHeld' /\ ModeMatches'
  OBVIOUS
<1>t. /\ pc \in [Procs -> Counters]
      /\ mode \in [Procs -> {"recover", "release", "cleanup"}]
      /\ FlockHeld /\ ModeMatches /\ NoProc \notin Procs
  BY LockConstants DEF Inv, TypeOK
<1> USE <1>t DEF FlockHeld, ModeMatches, Serialised, locals
<1>1. ASSUME NEW p \in Procs,
             StartAcquire(p) \/ GetFlock(p)
      PROVE  FlockHeld' /\ ModeMatches'
  BY <1>1 DEF StartAcquire, GetFlock
<1>2. ASSUME NEW p \in Procs,
             ExclusiveCreate(p) \/ CreateFindsEntry(p) \/ WritePayload(p)
      PROVE  FlockHeld' /\ ModeMatches'
  BY <1>2 DEF ExclusiveCreate, CreateFindsEntry, WritePayload
<1>3. ASSUME NEW p \in Procs,
             ConfirmCreate(p) \/ StartRelease(p)
      PROVE  FlockHeld' /\ ModeMatches'
  BY <1>3 DEF ConfirmCreate, StartRelease
<1>4. ASSUME NEW p \in Procs,
             ConfirmFails(p) \/ CreateFault(p)
      PROVE  FlockHeld' /\ ModeMatches'
  BY <1>4 DEF ConfirmFails, CreateFault, BeginCleanup
<1>5. ASSUME NEW p \in Procs,
             LockHeld(p) \/ ReleaseUnproved(p) \/ EntryVanished(p) \/
             SettleRepopulated(p) \/ ConfirmFault(p) \/ AttemptFault(p)
             \/ SettleFault(p)
      PROVE  FlockHeld' /\ ModeMatches'
  BY <1>5 DEF LockHeld, ReleaseUnproved, EntryVanished, SettleRepopulated,
     ConfirmFault, AttemptFault, SettleFault, Leave, Forget
<1>6. ASSUME NEW p \in Procs,
             ObserveStale(p) \/ ReleaseObserves(p) \/ RecheckSame(p) \/
             Claim(p)
      PROVE  FlockHeld' /\ ModeMatches'
  BY <1>6 DEF ObserveStale, ReleaseObserves, RecheckSame, Claim
<1>7. ASSUME NEW p \in Procs,
             RecheckDiffers(p) \/ SettleRestores(p)
      PROVE  FlockHeld' /\ ModeMatches'
  BY <1>7 DEF RecheckDiffers, SettleRestores, ClaimRefused, Leave, Forget
<1>8. ASSUME NEW p \in Procs,
             SettleMatch(p)
      PROVE  FlockHeld' /\ ModeMatches'
  BY <1>8 DEF SettleMatch, Leave, Forget
<1>9. ASSUME NEW p \in Procs,
             Crash(p) \/ Restart(p)
      PROVE  FlockHeld' /\ ModeMatches'
  BY <1>9 DEF Crash, Restart, Forget
<1>10. ASSUME Tick \/ Intrude \/ UNCHANGED vars
      PROVE  FlockHeld' /\ ModeMatches'
  BY <1>10 DEF Tick, Intrude, vars, locals
<1> QED
  BY <1>1, <1>2, <1>3, <1>4, <1>5, <1>6, <1>7, <1>8, <1>9, <1>10 DEF Next, Proceed

\* The steps of one process.
Acts(p) ==
    \/ StartAcquire(p) \/ GetFlock(p) \/ Proceed(p)
    \/ CreateFault(p) \/ ConfirmFault(p) \/ SettleFault(p) \/ AttemptFault(p)
    \/ Crash(p) \/ Restart(p)

Still(q) ==
    /\ pc'[q] = pc[q] /\ mode'[q] = mode[q] /\ now'[q] = now[q]
    /\ mine'[q] = mine[q] /\ expected'[q] = expected[q]

\* A step of one process leaves the locals of the others alone.
LEMMA OneActs ==
  ASSUME Inv, NEW p \in Procs, Acts(p), NEW q \in Procs, p # q
  PROVE  Still(q)
<1>t. /\ pc \in [Procs -> Counters]
      /\ mode \in [Procs -> {"recover", "release", "cleanup"}]
      /\ now \in [Procs -> Int]
      /\ mine \in [Procs -> Inodes \union {NoFile}]
      /\ expected \in [Procs -> Observation]
  BY DEF Inv, TypeOK
<1> USE <1>t DEF Still, locals
<1>1. CASE StartAcquire(p) \/ GetFlock(p) \/ ExclusiveCreate(p)
             \/ CreateFindsEntry(p) \/ WritePayload(p) \/ ConfirmCreate(p)
             \/ StartRelease(p) \/ RecheckSame(p) \/ Claim(p) \/ Restart(p)
  BY <1>1 DEF StartAcquire, GetFlock, ExclusiveCreate,
     CreateFindsEntry, WritePayload, ConfirmCreate, StartRelease,
     RecheckSame, Claim, Restart
<1>2. CASE ConfirmFails(p) \/ CreateFault(p) \/ ObserveStale(p)
             \/ ReleaseObserves(p)
  BY <1>2 DEF ConfirmFails, CreateFault, BeginCleanup, ObserveStale,
     ReleaseObserves
<1>3. CASE LockHeld(p) \/ ReleaseUnproved(p) \/ EntryVanished(p)
             \/ SettleRepopulated(p) \/ ConfirmFault(p) \/ AttemptFault(p)
             \/ SettleFault(p) \/ Crash(p)
  BY <1>3 DEF LockHeld, ReleaseUnproved, EntryVanished,
     SettleRepopulated, ConfirmFault, AttemptFault, SettleFault, Crash,
     Leave, Forget
<1>4. CASE RecheckDiffers(p) \/ SettleRestores(p)
  BY <1>4 DEF RecheckDiffers, SettleRestores, ClaimRefused, Leave,
     Forget
<1>5. CASE SettleMatch(p)
  BY <1>5 DEF SettleMatch, Leave, Forget
<1> QED
  BY <1>1, <1>2, <1>3, <1>4, <1>5 DEF Acts, Proceed

\* In a step every process either acts itself or is left exactly as it was.
LEMMA OthersStill ==
  Inv /\ [Next]_vars => \A q \in Procs : Acts(q) \/ Still(q)
<1> SUFFICES ASSUME Inv, [Next]_vars, NEW q \in Procs
             PROVE  Acts(q) \/ Still(q)
  OBVIOUS
<1>1. CASE Tick \/ Intrude \/ UNCHANGED vars
  BY <1>1 DEF Tick, Intrude, vars, locals, Still
<1>2. (\E p \in Procs : Acts(p)) \/ Tick \/ Intrude \/ UNCHANGED vars
  BY DEF Next, Acts
<1> QED
  BY <1>1, <1>2, OneActs

\* What a process created carries its own name and its own current_time.
LEMMA StampedStep == Inv /\ [Next]_vars => Stamped'
<1> SUFFICES ASSUME Inv, [Next]_vars, NEW q \in Procs, Remembers(q)'
             PROVE  /\ mine'[q] \in Inodes
                    /\ inode'[mine'[q]].owner = q
                    /\ inode'[mine'[q]].startedAt = now'[q]
  BY DEF Stamped
<1>t. /\ pc \in [Procs -> Counters]
      /\ mode \in [Procs -> {"recover", "release", "cleanup"}]
      /\ now \in [Procs -> Int]
      /\ mine \in [Procs -> Inodes \union {NoFile}]
      /\ inode \in [Inodes -> Contents]
      /\ Stamped /\ ModeMatches
  BY DEF Inv, TypeOK
<1>1. ASSUME Remembers(q), mine'[q] = mine[q], now'[q] = now[q]
      PROVE  /\ mine'[q] \in Inodes
             /\ inode'[mine'[q]].owner = q
             /\ inode'[mine'[q]].startedAt = now'[q]
  <2>1. mine[q] \in Inodes /\ ~Fresh(mine[q])
    BY <1>1, <1>t DEF Stamped, Fresh
  <2> QED
    BY <1>1, <1>t, <2>1, InodeStep DEF Stamped
<1>2. CASE Still(q)
  BY <1>1, <1>2 DEF Still, Remembers
<1>3. CASE ExclusiveCreate(q)
  BY <1>3, <1>t DEF ExclusiveCreate, Contents
<1>4. CASE GetFlock(q) \/ WritePayload(q) \/ ConfirmCreate(q) \/ StartRelease(q)
             \/ ReleaseObserves(q) \/ RecheckSame(q) \/ ConfirmFails(q)
             \/ CreateFault(q)
  <2>1. mine'[q] = mine[q] /\ now'[q] = now[q]
    BY <1>4, <1>t DEF GetFlock, WritePayload, ConfirmCreate, StartRelease,
       ReleaseObserves, RecheckSame, ConfirmFails, CreateFault, BeginCleanup,
       locals
  <2>2. Remembers(q)
    BY <1>4, <1>t DEF GetFlock, WritePayload, ConfirmCreate, StartRelease,
       ReleaseObserves, RecheckSame, ConfirmFails, CreateFault, BeginCleanup,
       locals, Remembers, ModeMatches
  <2> QED
    BY <2>1, <2>2, <1>1
<1>5. ASSUME Leave(q) \/ StartAcquire(q) \/ CreateFindsEntry(q)
               \/ ObserveStale(q) \/ ClaimRefused(q) \/ Claim(q)
               \/ SettleMatch(q) \/ Crash(q) \/ Restart(q)
      PROVE  FALSE
  BY <1>5, <1>t DEF Leave, Forget, StartAcquire, CreateFindsEntry,
     ObserveStale, ClaimRefused, Claim, SettleMatch, Crash, Restart, locals,
     Remembers, ModeMatches
<1> QED
  BY <1>2, <1>3, <1>4, <1>5, OthersStill DEF Acts, Proceed, LockHeld,
     ReleaseUnproved, EntryVanished, SettleRepopulated, ConfirmFault,
     AttemptFault, SettleFault, RecheckDiffers, SettleRestores

\* An observation kept for a claim names a file the process may remove.
LEMMA JustifiedStep == Inv /\ [Next]_vars => Justified'
<1> SUFFICES ASSUME Inv, [Next]_vars, NEW q \in Procs,
                    pc'[q] \in {"recheck", "claim", "settle"}
             PROVE  /\ expected'[q].file \in Inodes
                    /\ MayRemove(q, expected[q].file)'
  BY DEF Justified
<1>t. /\ pc \in [Procs -> Counters]
      /\ mode \in [Procs -> {"recover", "release", "cleanup"}]
      /\ now \in [Procs -> Int]
      /\ mine \in [Procs -> Inodes \union {NoFile}]
      /\ expected \in [Procs -> Observation]
      /\ inode \in [Inodes -> Contents]
      /\ Stamped /\ ModeMatches /\ Justified
  BY DEF Inv, TypeOK
<1>1. ASSUME NEW i \in Inodes, ~Fresh(i), MayRemove(q, i),
             expected'[q].file = i, now'[q] = now[q]
      PROVE  /\ expected'[q].file \in Inodes
             /\ MayRemove(q, expected[q].file)'
  BY <1>1, InodeStep DEF MayRemove
<1>2. ASSUME pc[q] \in {"recheck", "claim", "settle"},
             expected'[q] = expected[q], now'[q] = now[q]
      PROVE  /\ expected'[q].file \in Inodes
             /\ MayRemove(q, expected[q].file)'
  <2>1. expected[q].file \in Inodes /\ ~Fresh(expected[q].file)
    BY <1>2, <1>t DEF Justified, Fresh
  <2> QED
    BY <2>1, <1>1, <1>2, <1>t DEF Justified
<1>3. CASE Still(q)
  BY <1>2, <1>3 DEF Still
<1>4. CASE RecheckSame(q) \/ Claim(q)
  BY <1>2, <1>4 DEF RecheckSame, Claim, locals
<1>5. CASE ObserveStale(q)
  <2>1. entry \in Inodes /\ ~Fresh(entry) /\ MayRemove(q, entry)
    BY <1>5 DEF ObserveStale, MayRemove, MayRecover, Inv, TypeOK, Fresh
  <2>2. expected'[q].file = entry /\ now'[q] = now[q]
    BY <1>5, <1>t DEF ObserveStale, Observe
  <2> QED
    BY <2>1, <2>2, <1>1
<1>6. CASE ReleaseObserves(q)
  <2>1. entry \in Inodes /\ ~Fresh(entry) /\ MayRemove(q, entry)
    BY <1>6, <1>t DEF ReleaseObserves, OwnEntry, MayRemove, Stamped, Remembers,
       Fresh
  <2>2. expected'[q].file = entry /\ now'[q] = now[q]
    BY <1>6, <1>t DEF ReleaseObserves, Observe
  <2> QED
    BY <2>1, <2>2, <1>1
<1>7. CASE ConfirmFails(q) \/ CreateFault(q)
  <2>1. pc[q] \in {"write", "confirm"}
    BY <1>7 DEF ConfirmFails, CreateFault
  <2>2. mine[q] \in Inodes /\ ~Fresh(mine[q]) /\ MayRemove(q, mine[q])
    BY <2>1, <1>t DEF MayRemove, Stamped, Remembers, Fresh
  <2>3. expected'[q].file = mine[q] /\ now'[q] = now[q]
    BY <1>7, <1>t DEF ConfirmFails, CreateFault, BeginCleanup
  <2> QED
    BY <2>2, <2>3, <1>1
<1>8. ASSUME Leave(q) \/ StartAcquire(q) \/ GetFlock(q) \/ ExclusiveCreate(q)
               \/ CreateFindsEntry(q) \/ WritePayload(q) \/ ConfirmCreate(q)
               \/ StartRelease(q) \/ ClaimRefused(q)
               \/ SettleMatch(q) \/ Crash(q) \/ Restart(q)
      PROVE  FALSE
  BY <1>8, <1>t DEF Leave, Forget, StartAcquire, GetFlock, ExclusiveCreate,
     CreateFindsEntry, WritePayload, ConfirmCreate, StartRelease, ClaimRefused,
     SettleMatch, Crash, Restart
<1> QED
  BY <1>3, <1>4, <1>5, <1>6, <1>7, <1>8, OthersStill DEF Acts, Proceed,
     LockHeld, ReleaseUnproved, EntryVanished, SettleRepopulated, ConfirmFault,
     AttemptFault, SettleFault, RecheckDiffers, SettleRestores

\* A process about to settle has the claimed file under a quarantine name.
LEMMA CapturedStep == Inv /\ [Next]_vars => Captured'
<1> SUFFICES ASSUME Inv, [Next]_vars, NEW q \in Procs, pc'[q] = "settle"
             PROVE  mine'[q] \in Inodes /\ quarantined'[mine'[q]] > 0
  BY DEF Captured
<1>t. /\ pc \in [Procs -> Counters]
      /\ mine \in [Procs -> Inodes \union {NoFile}]
      /\ entry \in Inodes \union {NoFile}
      /\ quarantined \in [Inodes -> Nat]
      /\ Captured /\ FlockHeld
  BY DEF Inv, TypeOK
<1>1. ASSUME pc[q] = "settle", mine'[q] = mine[q]
      PROVE  mine'[q] \in Inodes /\ quarantined'[mine'[q]] > 0
  <2>1. \A p \in Procs : pc[p] \in {"claim", "settle"} => p = q
    BY <1>1, <1>t DEF FlockHeld, Serialised
  <2>2. \/ quarantined' = quarantined
        \/ \E p \in Procs : Claim(p) \/ SettleMatch(p) \/ SettleFault(p)
    BY DEF Next, Proceed, vars, files, StartAcquire, GetFlock, ExclusiveCreate,
       CreateFindsEntry, WritePayload, ConfirmCreate, ConfirmFails, CreateFault,
       ConfirmFault, LockHeld, ObserveStale, StartRelease, ReleaseObserves,
       ReleaseUnproved, RecheckSame, RecheckDiffers, EntryVanished,
       SettleRestores, SettleRepopulated, AttemptFault, Crash, Restart, Tick,
       Intrude
  <2>3. ASSUME NEW p \in Procs, Claim(p) \/ SettleMatch(p) \/ SettleFault(p)
        PROVE  FALSE
    <3>1. p = q
      BY <2>1, <2>3 DEF Claim, SettleMatch, SettleFault
    <3> QED
      BY <3>1, <2>3, <1>1, <1>t DEF Claim, SettleMatch, SettleFault, Leave
  <2> QED
    BY <2>2, <2>3, <1>1, <1>t DEF Captured
<1>2. CASE Still(q)
  BY <1>1, <1>2 DEF Still
<1>3. CASE Claim(q)
  BY <1>3, <1>t DEF Claim
<1>4. ASSUME Leave(q) \/ StartAcquire(q) \/ GetFlock(q) \/ ExclusiveCreate(q)
               \/ CreateFindsEntry(q) \/ WritePayload(q) \/ ConfirmCreate(q)
               \/ ConfirmFails(q) \/ CreateFault(q) \/ ObserveStale(q)
               \/ ReleaseObserves(q) \/ RecheckSame(q)
               \/ StartRelease(q) \/ ClaimRefused(q)
               \/ SettleMatch(q) \/ Crash(q) \/ Restart(q)
      PROVE  FALSE
  BY <1>4, <1>t DEF Leave, StartAcquire, GetFlock, ExclusiveCreate,
     CreateFindsEntry, WritePayload, ConfirmCreate, ConfirmFails, CreateFault,
     BeginCleanup, ObserveStale, ReleaseObserves, RecheckSame, StartRelease,
     ClaimRefused, SettleMatch, Crash, Restart
<1> QED
  BY <1>2, <1>3, <1>4, OthersStill DEF Acts, Proceed,
     LockHeld, ReleaseUnproved, EntryVanished, SettleRepopulated, ConfirmFault,
     AttemptFault, SettleFault, RecheckDiffers, SettleRestores

\* The conjunction of the protocol's invariants is inductive.
LEMMA InvStep == Inv /\ [Next]_vars => Inv'
BY TypeStep, ControlStep, StampedStep, JustifiedStep, CapturedStep DEF Inv

\* The protocol's inductive invariant holds in every reachable state, whatever
\* crashes, faults and intruders do.
LEMMA Invariance == Spec => []Inv
BY InvInit, InvStep, PTL DEF Spec

-----------------------------------------------------------------------------
\* Every variable of the lock keeps its type; in particular a quarantine name
\* is never unlinked that does not exist.
THEOREM TypeCorrect == Spec => []TypeOK
<1>1. Inv => TypeOK
  BY DEF Inv
<1> QED
  BY <1>1, Invariance, PTL

\* acquire() and release() unlink the last name of a file only when it is
\* their own or a whole entry past stale_after, whatever intruders do.
THEOREM RemovalVerified == Spec => VerifiedRemoval
<1>1. Inv /\ [Next]_vars =>
        [\A i \in Inodes :
           Linked(i) /\ ~Linked(i)' /\ externals' = externals
             => \E p \in Procs : pc[p] = "settle" /\ MayRemove(p, i)]_vars
  <2> SUFFICES ASSUME Inv, [Next]_vars, NEW i \in Inodes,
                      Linked(i), ~Linked(i)', externals' = externals
               PROVE  \E p \in Procs : pc[p] = "settle" /\ MayRemove(p, i)
    OBVIOUS
  <2>t. /\ quarantined \in [Inodes -> Nat]
        /\ entry \in Inodes \union {NoFile}
        /\ externals \in Nat
    BY DEF Inv, TypeOK
  <2>1. ~UNCHANGED <<entry, quarantined>>
    BY DEF Linked
  <2>2. ~Intrude
    BY <2>t DEF Intrude
  <2>3. ASSUME NEW p \in Procs,
               ExclusiveCreate(p) \/ SettleRestores(p) PROVE FALSE
    <3>1. entry = NoFile /\ quarantined' = quarantined
      BY <2>3 DEF ExclusiveCreate, SettleRestores
    <3> QED
      BY <3>1, <2>t, LockConstants DEF Linked
  <2>4. ASSUME NEW p \in Procs, Claim(p) PROVE FALSE
    BY <2>4, <2>t DEF Claim, Linked
  <2>5. PICK p \in Procs : SettleMatch(p) \/ SettleFault(p)
    BY <2>1, <2>2, <2>3, <2>4 DEF Next, Proceed, vars, files, StartAcquire,
       GetFlock, CreateFindsEntry, WritePayload, ConfirmCreate, ConfirmFails,
       CreateFault, ConfirmFault, LockHeld, ObserveStale, StartRelease,
       ReleaseObserves, ReleaseUnproved, RecheckSame, RecheckDiffers,
       EntryVanished, SettleRepopulated, AttemptFault, Crash, Restart, Tick
  <2>6. pc[p] = "settle"
    BY <2>5 DEF SettleMatch, SettleFault
  <2>7. Claimed(p) = expected[p].file /\ i = Claimed(p)
    <3>1. \/ Claimed(p) = expected[p].file /\ Unlink(p) /\ entry' = entry
          \/ quarantined' = quarantined /\ entry' = (IF entry = NoFile THEN Claimed(p) ELSE entry)
          \/ UNCHANGED <<entry, quarantined>>
      BY <2>5 DEF SettleMatch, SettleFault
    <3>2. CASE quarantined' = quarantined
                 /\ entry' = (IF entry = NoFile THEN Claimed(p) ELSE entry)
      BY <3>2, <2>t, LockConstants DEF Linked
    <3>3. CASE Claimed(p) = expected[p].file /\ Unlink(p) /\ entry' = entry
      BY <3>3, <2>t DEF Linked, Unlink
    <3> QED
      BY <3>1, <3>2, <3>3, <2>1
  <2> QED
    BY <2>6, <2>7 DEF Inv, Justified
<1> QED
  BY <1>1, Invariance, PTL DEF Spec, VerifiedRemoval

-----------------------------------------------------------------------------
(* Mutual exclusion, when every process takes the lock through acquire().  *)

\* The name shows the file being written, and the file about to be claimed.
OnEntry ==
    \A p \in Procs :
        /\ pc[p] \in {"write", "confirm"} => entry = mine[p]
        /\ pc[p] \in {"recheck", "claim"} =>
               /\ entry = expected[p].file
               /\ mode[p] # "recover" => entry = mine[p]

\* The time a process read is not in the future of its own clock.
StampPast ==
    \A p \in Procs :
        pc[p] \notin {"idle", "dead"} => now[p] <= WallClock(HostOf[p])

\* Whoever is about to be displaced has lapsed.
Displaces ==
    \A p, q \in Procs :
        /\ pc[p] \in {"recheck", "claim"} /\ mode[p] = "recover"
        /\ pc[q] = "holding" /\ mine[q] = entry
        => Lapsed(q)

\* A holder whose file no longer has the name has lapsed.
Supported ==
    \A q \in Procs : pc[q] = "holding" => entry = mine[q] \/ Lapsed(q)

ExclusionInv == Inv /\ OnEntry /\ StampPast /\ Displaces /\ Supported

\* The initial states satisfy the invariant behind mutual exclusion.
LEMMA ExclusionInit == Init => ExclusionInv
BY InvInit DEF Init, ExclusionInv, OnEntry, StampPast, Displaces, Supported

\* Time only runs forward: a lapsed holder stays lapsed while it holds.
LEMMA LapsedStays ==
  ASSUME Inv, [Next]_vars, NEW q \in Procs, Still(q), Lapsed(q)
  PROVE  Lapsed(q)'
<1>1. clock \in Nat /\ now[q] \in Int /\ Offset[HostOf[q]] \in Int
  BY LockConstants DEF Inv, TypeOK
<1>2. clock' \in {clock, clock + 1}
  BY DEF Next, Proceed, vars, StartAcquire, GetFlock, ExclusiveCreate,
     CreateFindsEntry, WritePayload, ConfirmCreate, ConfirmFails, CreateFault,
     ConfirmFault, LockHeld, ObserveStale, StartRelease, ReleaseObserves,
     ReleaseUnproved, RecheckSame, RecheckDiffers, EntryVanished, Claim,
     SettleMatch, SettleRestores, SettleRepopulated, SettleFault, AttemptFault,
     Crash, Restart, Tick, Intrude
<1> QED
  BY <1>1, <1>2, LockConstants DEF Still, Lapsed, StampedAt

\* Only the holder of the flock changes what the name shows.
LEMMA EntryStep ==
  ASSUME MaxExternals = 0, Inv, [Next]_vars, entry' # entry
  PROVE  \E p \in Procs :
            /\ flock = p
            /\ ExclusiveCreate(p) \/ Claim(p) \/ SettleRestores(p)
                 \/ SettleFault(p)
<1>1. ~Intrude
  BY DEF Intrude, Inv, TypeOK
<1>2. PICK p \in Procs : ExclusiveCreate(p) \/ Claim(p) \/ SettleRestores(p)
                            \/ SettleFault(p)
  BY <1>1 DEF Next, Proceed, vars, files, StartAcquire, GetFlock,
     CreateFindsEntry, WritePayload, ConfirmCreate, ConfirmFails, CreateFault,
     ConfirmFault, LockHeld, ObserveStale, StartRelease, ReleaseObserves,
     ReleaseUnproved, RecheckSame, RecheckDiffers, EntryVanished, SettleMatch,
     SettleRepopulated, AttemptFault, Crash, Restart, Tick
<1> QED
  BY <1>2 DEF Inv, FlockHeld, Serialised, ExclusiveCreate, Claim,
     SettleRestores, SettleFault

\* Without intruders the canonical name keeps showing the file being written,
\* and the file about to be claimed.
LEMMA OnEntryStep ==
  ASSUME MaxExternals = 0, ExclusionInv, [Next]_vars
  PROVE  OnEntry'
<1> SUFFICES ASSUME NEW q \in Procs
             PROVE  (/\ pc[q] \in {"write", "confirm"} => entry = mine[q]
                     /\ pc[q] \in {"recheck", "claim"} =>
                           /\ entry = expected[q].file
                           /\ mode[q] # "recover" => entry = mine[q])'
  BY DEF OnEntry
<1>t. /\ pc \in [Procs -> Counters]
      /\ mode \in [Procs -> {"recover", "release", "cleanup"}]
      /\ mine \in [Procs -> Inodes \union {NoFile}]
      /\ expected \in [Procs -> Observation]
      /\ inode \in [Inodes -> Contents]
      /\ OnEntry /\ FlockHeld /\ ModeMatches /\ Inv
  BY DEF ExclusionInv, Inv, TypeOK
<1>1. CASE Still(q) /\ pc[q] \in {"write", "confirm", "recheck", "claim"}
  <2>1. flock = q
    BY <1>1, <1>t DEF FlockHeld, Serialised
  <2>2. CASE entry' = entry
    BY <1>1, <2>2, <1>t DEF Still, OnEntry
  <2>3. CASE entry' # entry
    <3>1. ExclusiveCreate(q) \/ Claim(q) \/ SettleRestores(q) \/ SettleFault(q)
      BY <2>1, <2>3, <1>t, EntryStep
    <3>2. Claim(q)
      BY <3>1, <1>1 DEF ExclusiveCreate, SettleRestores, SettleFault
    <3> QED
      BY <3>2, <1>1, <1>t DEF Claim, Still
  <2> QED
    BY <2>2, <2>3
<1>2. CASE Still(q) /\ pc[q] \notin {"write", "confirm", "recheck", "claim"}
  BY <1>2 DEF Still
<1>3. CASE ExclusiveCreate(q)
  BY <1>3, <1>t DEF ExclusiveCreate
<1>4. CASE WritePayload(q) \/ RecheckSame(q)
  BY <1>4, <1>t DEF WritePayload, RecheckSame, OnEntry, Observe, locals, files
<1>5. CASE ConfirmFails(q) \/ CreateFault(q)
  BY <1>5, <1>t DEF ConfirmFails, CreateFault, BeginCleanup, OnEntry, files
<1>6. CASE ObserveStale(q)
  BY <1>6, <1>t DEF ObserveStale, Observe, files
<1>7. CASE ReleaseObserves(q)
  BY <1>7, <1>t DEF ReleaseObserves, Observe, OwnEntry, files
<1>8. CASE Leave(q) \/ StartAcquire(q) \/ GetFlock(q) \/ CreateFindsEntry(q)
             \/ ConfirmCreate(q) \/ StartRelease(q) \/ ClaimRefused(q)
             \/ Claim(q) \/ SettleMatch(q) \/ Crash(q) \/ Restart(q)
  BY <1>8, <1>t DEF Leave, StartAcquire, GetFlock, CreateFindsEntry,
     ConfirmCreate, StartRelease, ClaimRefused, Claim, SettleMatch, Crash,
     Restart
<1> QED
  BY <1>1, <1>2, <1>3, <1>4, <1>5, <1>6, <1>7, <1>8, <1>t, OthersStill
     DEF Acts, Proceed, LockHeld, ReleaseUnproved, EntryVanished,
     SettleRepopulated, ConfirmFault, AttemptFault, SettleFault,
     RecheckDiffers, SettleRestores

\* The current_time a live process read is never ahead of its host's clock.
LEMMA StampPastStep ==
  ASSUME ExclusionInv, [Next]_vars
  PROVE  StampPast'
<1> SUFFICES ASSUME NEW q \in Procs, pc'[q] \notin {"idle", "dead"}
             PROVE  now'[q] <= clock' + Offset[HostOf[q]]
  BY DEF StampPast, WallClock
<1>t. /\ pc \in [Procs -> Counters] /\ now \in [Procs -> Int]
      /\ clock \in Nat /\ Offset[HostOf[q]] \in Int
      /\ Inv /\ StampPast
  BY LockConstants DEF ExclusionInv, Inv, TypeOK
<1>1. clock' \in {clock, clock + 1}
  BY DEF Next, Proceed, vars, StartAcquire, GetFlock, ExclusiveCreate,
     CreateFindsEntry, WritePayload, ConfirmCreate, ConfirmFails, CreateFault,
     ConfirmFault, LockHeld, ObserveStale, StartRelease, ReleaseObserves,
     ReleaseUnproved, RecheckSame, RecheckDiffers, EntryVanished, Claim,
     SettleMatch, SettleRestores, SettleRepopulated, SettleFault, AttemptFault,
     Crash, Restart, Tick, Intrude
<1>2. ASSUME pc[q] \notin {"idle", "dead"}, now'[q] = now[q]
      PROVE  now'[q] <= clock' + Offset[HostOf[q]]
  BY <1>1, <1>2, <1>t DEF StampPast, WallClock
<1>3. CASE Still(q)
  BY <1>2, <1>3 DEF Still
<1>4. CASE StartAcquire(q)
  BY <1>4, <1>t DEF StartAcquire, WallClock
<1>5. CASE Acts(q) /\ ~StartAcquire(q)
  <2>1. CASE Leave(q) \/ Crash(q) \/ Restart(q)
    BY <2>1, <1>t DEF Leave, Crash, Restart
  <2>2. CASE GetFlock(q) \/ ExclusiveCreate(q) \/ CreateFindsEntry(q)
               \/ WritePayload(q) \/ ConfirmCreate(q) \/ ConfirmFails(q)
               \/ CreateFault(q) \/ ObserveStale(q) \/ StartRelease(q)
               \/ ReleaseObserves(q) \/ RecheckSame(q) \/ Claim(q)
    BY <2>2, <1>2 DEF GetFlock, ExclusiveCreate, CreateFindsEntry,
       WritePayload, ConfirmCreate, ConfirmFails, CreateFault, BeginCleanup,
       ObserveStale, StartRelease, ReleaseObserves, RecheckSame, Claim, locals
  <2>3. CASE ClaimRefused(q) /\ pc[q] \in {"recheck", "settle"}
    BY <2>1, <2>3, <1>2 DEF ClaimRefused
  <2>4. CASE SettleMatch(q)
    BY <2>1, <2>4, <1>2 DEF SettleMatch
  <2> QED
    BY <1>5, <2>1, <2>2, <2>3, <2>4 DEF Acts, Proceed, LockHeld,
       ReleaseUnproved, EntryVanished, SettleRepopulated, ConfirmFault,
       AttemptFault, SettleFault, RecheckDiffers, SettleRestores
<1> QED
  BY <1>3, <1>4, <1>5, <1>t, OthersStill

\* A process enters or stays in the body.
LEMMA HoldingStep ==
  ASSUME Inv, [Next]_vars, NEW q \in Procs, pc'[q] = "holding"
  PROVE  (Still(q) /\ pc[q] = "holding") \/ ConfirmCreate(q)
<1>t. pc \in [Procs -> Counters]
  BY DEF Inv, TypeOK
<1>1. CASE Still(q)
  BY <1>1 DEF Still
<1>2. CASE Acts(q)
  BY <1>2, <1>t DEF Acts, Proceed, Leave, StartAcquire, GetFlock,
     ExclusiveCreate, CreateFindsEntry, WritePayload, ConfirmFails, CreateFault,
     BeginCleanup, LockHeld, ObserveStale, StartRelease, ReleaseObserves,
     ReleaseUnproved, RecheckSame, EntryVanished, Claim, ClaimRefused,
     SettleMatch, SettleRepopulated, ConfirmFault, AttemptFault, SettleFault,
     RecheckDiffers, SettleRestores, Crash, Restart
<1> QED
  BY <1>1, <1>2, OthersStill

\* A holder either still shows under the canonical name or has lapsed.
LEMMA SupportedStep ==
  ASSUME MaxExternals = 0, ExclusionInv, [Next]_vars
  PROVE  Supported'
<1> SUFFICES ASSUME NEW q \in Procs, pc'[q] = "holding"
             PROVE  entry' = mine'[q] \/ Lapsed(q)'
  BY DEF Supported
<1>t. /\ Inv /\ OnEntry /\ Displaces /\ Supported /\ Stamped /\ FlockHeld
      /\ mode \in [Procs -> {"recover", "release", "cleanup"}]
  BY DEF ExclusionInv, Inv, TypeOK
<1>1. CASE ConfirmCreate(q)
  BY <1>1 DEF ConfirmCreate, files, locals
<1>2. CASE Still(q) /\ pc[q] = "holding"
  <2>1. CASE Lapsed(q)
    BY <1>2, <2>1, <1>t, LapsedStays
  <2>2. CASE ~Lapsed(q) /\ entry' = entry
    BY <1>2, <2>2, <1>t DEF Supported, Still
  <2>3. CASE ~Lapsed(q) /\ entry' # entry
    <3>1. entry = mine[q] /\ mine[q] \in Inodes /\ inode[mine[q]].owner = q
      BY <1>2, <2>3, <1>t DEF Supported, Stamped, Remembers
    <3>2. PICK p \in Procs : ExclusiveCreate(p) \/ Claim(p)
                                \/ SettleRestores(p) \/ SettleFault(p)
      BY <2>3, <1>t, EntryStep
    <3>3. Claim(p)
      BY <3>1, <3>2, <2>3, LockConstants DEF ExclusiveCreate, SettleRestores,
         SettleFault
    <3>4. mode[p] # "recover"
      BY <3>1, <3>3, <1>2, <2>3, <1>t DEF Claim, Displaces
    <3>5. mine[p] = mine[q] /\ inode[mine[p]].owner = p
      BY <3>1, <3>3, <3>4, <1>t DEF Claim, OnEntry, Stamped, Remembers
    <3> QED
      BY <3>1, <3>3, <3>5, <1>2 DEF Claim
  <2> QED
    BY <2>1, <2>2, <2>3
<1> QED
  BY <1>1, <1>2, <1>t, HoldingStep

\* A claim about to move a holder's file was justified by a lapsed lease.
LEMMA DisplacesStep ==
  ASSUME MaxExternals = 0, ExclusionInv, [Next]_vars
  PROVE  Displaces'
<1> SUFFICES ASSUME NEW p \in Procs, NEW q \in Procs,
                    pc'[p] \in {"recheck", "claim"}, mode'[p] = "recover",
                    pc'[q] = "holding", mine'[q] = entry'
             PROVE  Lapsed(q)'
  BY DEF Displaces
<1>t. /\ Inv /\ OnEntry /\ Displaces /\ Stamped /\ FlockHeld /\ StampPast
      /\ pc \in [Procs -> Counters]
      /\ mode \in [Procs -> {"recover", "release", "cleanup"}]
      /\ Inv' /\ FlockHeld'
  BY InvStep DEF ExclusionInv, Inv, TypeOK
<1>1. flock' = p /\ p # q
  BY <1>t DEF FlockHeld, Serialised
<1>2. Still(q) /\ pc[q] = "holding"
  BY <1>1, <1>t, HoldingStep, LockConstants DEF ConfirmCreate
<1>3. CASE Still(p) \/ RecheckSame(p)
  <2>1. pc[p] \in {"recheck", "claim"} /\ mode[p] = "recover" /\ flock = p
    BY <1>3, <1>t DEF Still, RecheckSame, locals, FlockHeld, Serialised
  <2>2. CASE entry' = entry
    BY <2>1, <2>2, <1>2, <1>t, LapsedStays DEF Displaces, Still
  <2>3. CASE entry' # entry
    <3>1. ExclusiveCreate(p) \/ Claim(p) \/ SettleRestores(p) \/ SettleFault(p)
      BY <2>1, <2>3, <1>t, EntryStep
    <3>2. Claim(p)
      BY <3>1, <2>1 DEF ExclusiveCreate, SettleRestores, SettleFault
    <3> QED
      BY <3>2, <1>t DEF Claim
  <2> QED
    BY <2>2, <2>3
<1>4. CASE ObserveStale(p)
  <2>1. /\ entry \in Inodes /\ entry = mine[q] /\ MayRecover(p, entry)
        /\ pc[p] = "observe"
    BY <1>2, <1>4, <1>t DEF ObserveStale, Still, files, Inv, TypeOK
  <2>2. inode[entry].owner = q /\ inode[entry].startedAt = now[q]
    BY <2>1, <1>2, <1>t DEF Stamped, Remembers
  <2>3. HostOf[q] # HostOf[p] /\ now[p] - now[q] >= StaleAfter
    BY <2>1, <2>2, <1>2, LockConstants DEF MayRecover, ProcessIsAlive
  <2>4. now[p] <= clock + Offset[HostOf[p]]
    BY <2>1, <1>t DEF StampPast, WallClock
  <2>5. /\ now[p] \in Int /\ now[q] \in Int /\ clock \in Int
        /\ Offset[HostOf[p]] \in Int /\ Offset[HostOf[q]] \in Int
        /\ Offset[HostOf[p]] - Offset[HostOf[q]] <= MaxSkew
        /\ MaxSkew \in Int /\ StaleAfter \in Int
    BY LockConstants, <1>t DEF Inv, TypeOK
  <2>6. clock - (now[q] - Offset[HostOf[q]]) >= StaleAfter - MaxSkew
    BY <2>3, <2>4, <2>5
  <2>7. Lapsed(q)
    BY <2>3, <2>6 DEF Lapsed, StampedAt
  <2> QED
    BY <2>7, <1>2, <1>t, LapsedStays
<1>5. ASSUME Leave(p) \/ StartAcquire(p) \/ GetFlock(p) \/ ExclusiveCreate(p)
               \/ CreateFindsEntry(p) \/ WritePayload(p) \/ ConfirmCreate(p)
               \/ ConfirmFails(p) \/ CreateFault(p) \/ ReleaseObserves(p)
               \/ StartRelease(p) \/ ClaimRefused(p) \/ Claim(p)
               \/ SettleMatch(p) \/ Crash(p) \/ Restart(p)
      PROVE  FALSE
  BY <1>5, <1>t DEF Leave, StartAcquire, GetFlock, ExclusiveCreate,
     CreateFindsEntry, WritePayload, ConfirmCreate, ConfirmFails, CreateFault,
     BeginCleanup, ReleaseObserves, StartRelease, ClaimRefused, Claim,
     SettleMatch, Crash, Restart
<1> QED
  BY <1>3, <1>4, <1>5, <1>t, OthersStill DEF Acts, Proceed, LockHeld,
     ReleaseUnproved, EntryVanished, SettleRepopulated, ConfirmFault,
     AttemptFault, SettleFault, RecheckDiffers, SettleRestores

\* Without intruders the invariant behind mutual exclusion holds for ever.
LEMMA ExclusionInvariance == ASSUME MaxExternals = 0 PROVE Spec => []ExclusionInv
<1>1. ExclusionInv /\ [Next]_vars => ExclusionInv'
  BY InvStep, OnEntryStep, StampPastStep, DisplacesStep, SupportedStep
     DEF ExclusionInv
<1> QED
  BY <1>1, ExclusionInit, PTL DEF Spec

\* Two processes share the body of the lock only when one of them has
\* outlived stale_after, less the skew, and runs on another machine than
\* somebody else: the lease cannot be taken from a live local holder.
THEOREM Exclusion == ASSUME MaxExternals = 0 PROVE Spec => []MutualExclusion
<1>1. ExclusionInv => MutualExclusion
  <2> SUFFICES ASSUME ExclusionInv, NEW p \in Holders, NEW q \in Holders, p # q
               PROVE  Lapsed(p) \/ Lapsed(q)
    BY DEF MutualExclusion
  <2>1. inode[mine[p]].owner = p /\ inode[mine[q]].owner = q
    BY DEF ExclusionInv, Inv, Stamped, Remembers, Holders
  <2> QED
    BY <2>1 DEF ExclusionInv, Supported, Holders
<1> QED
  BY <1>1, ExclusionInvariance, PTL

\* The lock file protocol implements the abstract lease: a grant happens only
\* when every remaining holder has lapsed.
THEOREM LeaseRefinement == ASSUME MaxExternals = 0 PROVE Spec => ImplementsLease
<1> DEFINE lapsed == {p \in Holders : Lapsed(p)}
<1>1. Init => Lease!Init
  BY DEF Init, Lease!Init, Holders
<1>2. ASSUME ExclusionInv, [Next]_vars
      PROVE  [Lease!Next]_<<Holders, lapsed>>
  <2>t. /\ Inv /\ FlockHeld /\ Stamped /\ Supported /\ OnEntry
        /\ pc \in [Procs -> Counters]
        /\ now \in [Procs -> Int] /\ clock \in Nat
    BY <1>2 DEF ExclusionInv, Inv, TypeOK
  <2>1. ASSUME NEW p \in Procs, ConfirmCreate(p)
        PROVE  Lease!Grant(p)
    <3>1. p \notin Holders /\ Holders' = Holders \union {p}
      BY <2>1, <2>t DEF ConfirmCreate, Holders
    <3>2. \A q \in Procs : Lapsed(q)' <=> Lapsed(q)
      BY <2>1 DEF ConfirmCreate, Lapsed, StampedAt, locals
    <3>3. \A q \in Holders : Lapsed(q)
      <4> SUFFICES ASSUME NEW q \in Holders PROVE Lapsed(q)
        OBVIOUS
      <4>1. q \in Procs /\ pc[q] = "holding" /\ pc[p] = "confirm" /\ entry = mine[p]
        BY <2>1 DEF Holders, ConfirmCreate
      <4>2. inode[mine[p]].owner = p /\ inode[mine[q]].owner = q
        BY <4>1, <2>t DEF Stamped, Remembers
      <4> QED
        BY <4>1, <4>2, <2>t DEF Supported
    <3>4. lapsed = Holders
      BY <3>3
    <3>5. lapsed' = IF Lapsed(p) THEN lapsed \union {p} ELSE lapsed
      <4>1. Holders \subseteq Procs /\ lapsed' = {q \in Holders' : Lapsed(q)'}
        BY DEF Holders
      <4>2. lapsed' = {q \in Holders \union {p} : Lapsed(q)}
        BY <4>1, <3>1, <3>2
      <4> QED
        BY <4>2, <3>3
    <3> QED
      BY <3>1, <3>4, <3>5 DEF Lease!Grant
  <2>2. ASSUME NEW p \in Procs, pc[p] = "holding",
               \A q \in Procs \ {p} : Still(q), pc'[p] # "holding",
               clock' = clock
        PROVE  Lease!Return(p)
    <3>1. Holders' = Holders \ {p} /\ p \in Holders
      BY <2>2 DEF Holders, Still
    <3>2. \A q \in Holders' : Lapsed(q)' <=> Lapsed(q)
      BY <2>2 DEF Holders, Still, Lapsed, StampedAt
    <3> QED
      BY <3>1, <3>2 DEF Lease!Return
  <2>3. ASSUME \A q \in Holders : Still(q), Holders' = Holders, clock' = clock
        PROVE  UNCHANGED <<Holders, lapsed>>
    <3>1. \A q \in Holders : Lapsed(q)' <=> Lapsed(q)
      BY <2>3 DEF Holders, Still, Lapsed, StampedAt
    <3> QED
      BY <2>3, <3>1
  <2>4. ASSUME Tick PROVE Lease!Next
    <3>1. \A q \in Procs : Still(q)
      BY <2>4 DEF Tick, Still, locals
    <3>2. Holders' = Holders
      BY <3>1 DEF Holders, Still
    <3>3. lapsed \subseteq lapsed' /\ lapsed' \subseteq Holders
      BY <3>1, <3>2, <1>2, <2>t, LapsedStays DEF Holders
    <3>4. Lease!Lapse(lapsed')
      BY <3>2, <3>3 DEF Lease!Lapse
    <3> QED
      BY <3>3, <3>4 DEF Lease!Next
  <2>5. CASE clock' = clock
    <3>1. CASE \E p \in Procs : ConfirmCreate(p)
      BY <3>1, <2>1 DEF Lease!Next
    <3>2. CASE ~(\E p \in Procs : ConfirmCreate(p)) /\ \A q \in Holders : Still(q)
      <4>1. Holders' = Holders
        BY <3>2, <1>2, <2>t, HoldingStep DEF Holders, Still
      <4> QED
        BY <4>1, <3>2, <2>3, <2>5
    <3>3. CASE ~(\E p \in Procs : ConfirmCreate(p)) /\ \E q \in Holders : ~Still(q)
      <4>1. PICK p \in Holders : ~Still(p)
        BY <3>3
      <4>2. p \in Procs /\ pc[p] = "holding" /\ Acts(p)
        BY <4>1, <1>2, <2>t, OthersStill DEF Holders
      <4>3. \A q \in Procs \ {p} : Still(q)
        BY <4>1, <4>2, <1>2, <2>t, OneActs
      <4>4. pc'[p] # "holding"
        BY <4>1, <4>2, <3>3, <1>2, <2>t, HoldingStep
      <4> QED
        BY <4>2, <4>3, <4>4, <2>2, <2>5 DEF Lease!Next
    <3> QED
      BY <3>1, <3>2, <3>3
  <2>6. clock' = clock \/ Tick
    BY <1>2 DEF Next, Proceed, vars, StartAcquire, GetFlock, ExclusiveCreate,
       CreateFindsEntry, WritePayload, ConfirmCreate, ConfirmFails, CreateFault,
       ConfirmFault, LockHeld, ObserveStale, StartRelease, ReleaseObserves,
       ReleaseUnproved, RecheckSame, RecheckDiffers, EntryVanished, Claim,
       SettleMatch, SettleRestores, SettleRepopulated, SettleFault,
       AttemptFault, Crash, Restart, Intrude
  <2> QED
    BY <2>4, <2>5, <2>6
<1> QED
  BY <1>1, <1>2, ExclusionInvariance, PTL DEF Spec, ImplementsLease, Lease!Spec

=============================================================================
