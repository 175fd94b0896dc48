----------------------- MODULE WikiTransactionProofs -----------------------
(* Theorems about WikiTransaction, for any wiki, manifests and processes.  *)
EXTENDS WikiTransaction, TLAPS

-----------------------------------------------------------------------------
(* Types, and the journal a working command holds on to.                   *)

Working == {"verify", "observe", "claim", "check", "publish", "confirm", "retire"}

\* Between its first verification and its end a command has a journal, and
\* what it has still to do are entries of it.
Engaged(p) ==
    pc[p] \in Working =>
        /\ seen[p] \in Journals
        /\ todo[p] \subseteq seen[p].entries

Typed == TypeOK /\ \A p \in Procs : Engaged(p)

\* The initial states are well typed.
LEMMA TypeInit == Init => TypeOK
BY WikiConstants DEF Init, TypeOK, Wikis, Content, NoChange, Empty, Counters,
   Lease!Init

\* The postimage of a command and the wanted bytes of an entry are contents.
LEMMA WantType ==
  ASSUME TypeOK, NEW p \in Procs
  PROVE  /\ Postimage(p) \in Wikis
         /\ seen[p] \in Journals => \A t \in Paths : Want(p, t) \in Content
<1>1. /\ manifest[p] \in [Paths -> Content \union {Keep}]
      /\ before[p] \in Wikis
      /\ seen[p] \in Journals \union {NoJournal}
  BY WikiConstants DEF TypeOK, NoChange
<1>2. Postimage(p) \in Wikis
  BY <1>1 DEF Postimage, Wikis
<1>3. ASSUME seen[p] \in Journals, NEW t \in Paths
      PROVE  Want(p, t) \in Content
  BY <1>3 DEF Want, Journals, Wikis
<1> QED
  BY <1>1, <1>2, <1>3

\* The journal a publisher writes is well typed, holds the preimage and the
\* postimage of what it plans, and is what the publisher goes on with.
LEMMA JournalWritten ==
  ASSUME TypeOK, NEW p \in Procs, WriteJournal(p), journal = NoJournal
  PROVE  /\ journal' \in Journals
         /\ journal'.entries = Planned(p)
         /\ \A t \in Planned(p) : /\ journal'.old[t] = before[p][t]
                                  /\ journal'.new[t] = Postimage(p)[t]
         /\ seen' = [seen EXCEPT ![p] = journal']
         /\ todo' = [todo EXCEPT ![p] = Planned(p)]
         /\ job' = [job EXCEPT ![p] = "apply"]
         /\ pc' = [pc EXCEPT ![p] = "verify"]
         /\ UNCHANGED <<lease, manifest, before, target, live, claims, env>>
<1> DEFINE within(w) == [t \in Paths |-> IF t \in Planned(p) THEN w[t] ELSE Absent]
           j == [by |-> p, entries |-> Planned(p),
                 old |-> within(before[p]), new |-> within(Postimage(p))]
<1>1. Postimage(p) \in Wikis /\ before[p] \in Wikis
  BY WantType DEF TypeOK
<1>2. within(before[p]) \in Wikis /\ within(Postimage(p)) \in Wikis
  BY <1>1 DEF Wikis, Content
<1>3. j \in Journals /\ j.entries = Planned(p)
  BY <1>2 DEF Journals, Planned
<1>4. \A t \in Planned(p) : j.old[t] = before[p][t] /\ j.new[t] = Postimage(p)[t]
  BY DEF Planned
<1>5. /\ journal' = j
      /\ seen' = [seen EXCEPT ![p] = j]
      /\ todo' = [todo EXCEPT ![p] = Planned(p)]
      /\ job' = [job EXCEPT ![p] = "apply"]
      /\ pc' = [pc EXCEPT ![p] = "verify"]
      /\ UNCHANGED <<lease, manifest, before, target, live, claims, env>>
  BY DEF WriteJournal
<1> HIDE DEF j
<1> QED
  BY <1>3, <1>4, <1>5

\* The end of a command resets its locals to well typed values.
LEMMA FinishType ==
  ASSUME TypeOK, NEW p \in Procs, Finish(p)
  PROVE  /\ pc' \in [Procs -> Counters]
         /\ job' \in [Procs -> {"recover", "apply"}]
         /\ manifest' \in [Procs -> Manifests \union {NoChange}]
         /\ before' \in [Procs -> Wikis]
         /\ seen' \in [Procs -> Journals \union {NoJournal}]
         /\ todo' \in [Procs -> SUBSET Paths]
         /\ expect' \in [Procs -> Content]
         /\ captured' \in [Procs -> Content]
         /\ holders' \subseteq Procs /\ lapsed' \subseteq holders'
<1>1. Empty \in Wikis
  BY DEF Empty, Wikis, Content
<1> QED
  BY <1>1 DEF Finish, TypeOK, Lease!Return, Counters, Content

\* Settling a target keeps the locals it changes well typed.
LEMMA SettleType ==
  ASSUME TypeOK, NEW p \in Procs, NEW t \in Paths, Settle(p, t)
  PROVE  /\ pc' \in [Procs -> Counters]
         /\ todo' \in [Procs -> SUBSET Paths]
         /\ expect' \in [Procs -> Content]
         /\ captured' \in [Procs -> Content]
BY DEF Settle, TypeOK, Counters, Content

\* Every step keeps every variable in its type, whatever editors do and
\* however many commands run together.
LEMMA TypeStep == Typed /\ [Next]_vars => TypeOK'
<1> SUFFICES ASSUME TypeOK, Typed, [Next]_vars PROVE TypeOK'
  BY DEF Typed
<1> USE DEF lease, plan, target, env
<1>1. ASSUME NEW p \in Procs, Begin(p) PROVE TypeOK'
  BY <1>1 DEF Begin, Lease!Grant, TypeOK, Counters
<1>2. ASSUME NEW p \in Procs, NoPending(p) PROVE TypeOK'
  <2>1. CASE Finish(p)
    BY <1>2, <2>1, FinishType DEF NoPending, TypeOK
  <2> QED
    BY <1>2, <2>1 DEF NoPending, TypeOK, Counters
<1>3. ASSUME NEW p \in Procs, StartRecovery(p) PROVE TypeOK'
  <2>1. journal.entries \in SUBSET Paths
    BY <1>3 DEF StartRecovery, TypeOK, Journals
  <2> QED
    BY <1>3, <2>1 DEF StartRecovery, TypeOK, Counters
<1>4. ASSUME NEW p \in Procs, RefuseRecovery(p) \/ Decline(p) \/ Crash(p)
      PROVE  TypeOK'
  BY <1>4, FinishType DEF RefuseRecovery, Decline, Crash, TypeOK
<1>5. ASSUME NEW p \in Procs, Preflight(p) PROVE TypeOK'
  BY <1>5 DEF Preflight, TypeOK, Counters
<1>6. ASSUME NEW p \in Procs, Snapshot(p) PROVE TypeOK'
  <2>1. CASE Finish(p)
    BY <1>6, <2>1, FinishType DEF Snapshot, TypeOK
  <2> QED
    BY <1>6, <2>1 DEF Snapshot, TypeOK, Counters
<1>7. ASSUME NEW p \in Procs, WriteJournal(p) PROVE TypeOK'
  <2>1. CASE Finish(p) /\ journal' = journal
    BY <1>7, <2>1, FinishType DEF WriteJournal, TypeOK
  <2>2. CASE journal = NoJournal
    BY <1>7, <2>2, JournalWritten DEF TypeOK, Counters, Planned
  <2> QED
    BY <1>7, <2>1, <2>2 DEF WriteJournal
<1>8. ASSUME NEW p \in Procs, Verify(p) PROVE TypeOK'
  <2>1. CASE Finish(p)
    BY <1>8, <2>1, FinishType DEF Verify, TypeOK
  <2>2. ASSUME NEW t \in Paths, expect' = [expect EXCEPT ![p] = Expected(p, t)]
        PROVE  expect' \in [Procs -> Content]
    <3>1. seen[p] \in Journals
      BY <1>8 DEF Verify, Typed, Engaged, Working
    <3>2. Expected(p, t) \in Content
      BY <3>1 DEF Expected, TypeOK, Journals, Wikis
    <3> QED
      BY <2>2, <3>2 DEF TypeOK
  <2> QED
    BY <1>8, <2>1, <2>2 DEF Verify, TypeOK, Counters
<1>9. ASSUME NEW p \in Procs, Observe(p) PROVE TypeOK'
  <2>1. CASE Finish(p)
    BY <1>9, <2>1, FinishType DEF Observe, TypeOK
  <2>2. CASE (\E t \in Paths : Settle(p, t)) /\ UNCHANGED <<lease, plan>>
    BY <1>9, <2>2, SettleType DEF Observe, TypeOK
  <2> QED
    BY <1>9, <2>1, <2>2 DEF Observe, TypeOK, Counters
<1>10. ASSUME NEW p \in Procs, Claim(p) PROVE TypeOK'
  <2>1. CASE Finish(p) /\ UNCHANGED <<live, claims>>
    BY <1>10, <2>1, FinishType DEF Claim, TypeOK
  <2>2. ASSUME NEW t \in Paths, live[t] # Absent,
               captured' = [captured EXCEPT ![p] = live[t]],
               claims' = claims \union {live[t]},
               live' = [live EXCEPT ![t] = Absent],
               pc' = [pc EXCEPT ![p] = "check"],
               UNCHANGED <<lease, plan, todo, expect>>
        PROVE  TypeOK'
    <3>1. live[t] \in Bytes
      BY <2>2 DEF TypeOK, Wikis, Content
    <3>2. live' \in Wikis
      BY <2>2 DEF TypeOK, Wikis, Content
    <3> QED
      BY <1>10, <2>2, <3>1, <3>2 DEF Claim, TypeOK, Counters, Content
  <2> QED
    BY <1>10, <2>1, <2>2 DEF Claim
<1>11. ASSUME NEW p \in Procs, NEW t \in Paths
       PROVE  Restored(p, t) \in Wikis
  BY DEF Restored, TypeOK, Wikis
<1>12. ASSUME NEW p \in Procs, CheckClaim(p) PROVE TypeOK'
  <2>1. CASE Finish(p) /\ \E t \in Paths : live' = Restored(p, t)
    BY <1>11, <1>12, <2>1, FinishType DEF CheckClaim, TypeOK
  <2>2. CASE (\E t \in Paths : Settle(p, t)) /\ UNCHANGED <<live, lease, plan>>
    BY <1>12, <2>2, SettleType DEF CheckClaim, TypeOK
  <2> QED
    BY <1>12, <2>1, <2>2 DEF CheckClaim, TypeOK, Counters
<1>13. ASSUME NEW p \in Procs, Publish(p) PROVE TypeOK'
  <2>1. CASE Finish(p) /\ UNCHANGED live
    BY <1>13, <2>1, FinishType DEF Publish, TypeOK
  <2>2. ASSUME NEW t \in Paths, live' = [live EXCEPT ![t] = Want(p, t)],
               pc' = [pc EXCEPT ![p] = "confirm"],
               UNCHANGED <<lease, plan, todo, target>>
        PROVE  TypeOK'
    <3>1. Want(p, t) \in Content
      BY <1>13, WantType DEF Publish, Typed, Engaged, Working
    <3>2. live' \in Wikis
      BY <2>2, <3>1 DEF TypeOK, Wikis
    <3> QED
      BY <1>13, <2>2, <3>2 DEF Publish, TypeOK, Counters
  <2> QED
    BY <1>13, <2>1, <2>2 DEF Publish
<1>14. ASSUME NEW p \in Procs, PublishFault(p) PROVE TypeOK'
  BY <1>11, <1>14, FinishType DEF PublishFault, TypeOK
<1>15. ASSUME NEW p \in Procs, Confirm(p) PROVE TypeOK'
  <2>1. CASE Finish(p) /\ \E t \in Paths : live' = Restored(p, t)
    BY <1>11, <1>15, <2>1, FinishType DEF Confirm, TypeOK
  <2>2. CASE (\E t \in Paths : Settle(p, t)) /\ UNCHANGED <<live, lease, plan>>
    BY <1>15, <2>2, SettleType DEF Confirm, TypeOK
  <2> QED
    BY <1>15, <2>1, <2>2 DEF Confirm
<1>16. ASSUME NEW p \in Procs, VerifyAll(p) PROVE TypeOK'
  <2>1. CASE Finish(p)
    BY <1>16, <2>1, FinishType DEF VerifyAll, TypeOK
  <2> QED
    BY <1>16, <2>1 DEF VerifyAll, TypeOK, Counters
<1>17. ASSUME NEW p \in Procs, Retire(p) PROVE TypeOK'
  <2>1. CASE Finish(p)
    BY <1>17, <2>1, FinishType DEF Retire, TypeOK
  <2> QED
    BY <1>17, <2>1 DEF Retire, TypeOK, Counters
<1>18. ASSUME Lapse PROVE TypeOK'
  BY <1>18 DEF Lapse, Lease!Lapse, TypeOK
<1>19. ASSUME Edit PROVE TypeOK'
  <2>1. live' \in Wikis
    BY <1>19, WikiConstants DEF Edit, TypeOK, Wikis, Content
  <2>2. edits' \subseteq Edits /\ standing' \subseteq edits'
    BY <1>19 DEF Edit, TypeOK
  <2> QED
    BY <1>19, <2>1, <2>2 DEF Edit, TypeOK
<1>20. CASE UNCHANGED vars
  BY <1>20 DEF vars, TypeOK
<1> QED
  BY <1>1, <1>2, <1>3, <1>4, <1>5, <1>6, <1>7, <1>8, <1>9, <1>10, <1>12, <1>13,
     <1>14, <1>15, <1>16, <1>17, <1>18, <1>19, <1>20 DEF Next, Proceed

-----------------------------------------------------------------------------
(* What the locals of a command say of each other, whatever the files show. *)

\* Only wiki apply gets as far as planning a publication.
Planner(p) ==
    pc[p] \in {"preflight", "snapshot", "journal"} => manifest[p] # NoChange

\* A publisher's journal is its plan: the preimage and the postimage of every
\* path that changes.
Sourced(p) ==
    job[p] = "apply" =>
        /\ pc[p] \in Working
        /\ manifest[p] # NoChange
        /\ seen[p].entries = Planned(p)
        /\ \A t \in Planned(p) : /\ seen[p].old[t] = before[p][t]
                                 /\ seen[p].new[t] = Postimage(p)[t]

\* The bytes a command expects of a target are its transaction's.
Expecting(p) ==
    pc[p] \in {"observe", "claim", "check", "publish", "confirm"} =>
        \A t \in Paths : Target(p, t) =>
            expect[p] \in {Absent, seen[p].old[t], seen[p].new[t]}

\* Once checked, what was captured is what was expected.
Capturing(p) ==
    /\ pc[p] \in {"publish", "confirm"} => captured[p] \in {Absent, expect[p]}
    /\ pc[p] \notin {"check", "publish", "confirm"} => captured[p] = Absent

Local(p) ==
    Engaged(p) /\ Planner(p) /\ Sourced(p) /\ Expecting(p) /\ Capturing(p)

LocalInv == TypeOK /\ \A p \in Procs : Local(p)

\* The initial states satisfy the invariant of the locals.
LEMMA LocalInit == Init => LocalInv
BY TypeInit DEF Init, LocalInv, Local, Engaged, Planner, Sourced, Expecting,
   Capturing, Working

\* The steps of one command.
Moves(p) == Begin(p) \/ Proceed(p) \/ PublishFault(p) \/ Crash(p)

Unmoved(q) ==
    /\ pc'[q] = pc[q] /\ job'[q] = job[q] /\ manifest'[q] = manifest[q]
    /\ before'[q] = before[q] /\ seen'[q] = seen[q] /\ todo'[q] = todo[q]
    /\ expect'[q] = expect[q] /\ captured'[q] = captured[q]

\* A step of one command leaves the locals of the others alone.
LEMMA OthersStay ==
  ASSUME TypeOK, NEW q \in Procs, NEW p \in Procs, p # q, Moves(p)
  PROVE  Unmoved(q)
<1> USE DEF lease, plan, target, env
<1>t. /\ q \in DOMAIN pc /\ q \in DOMAIN job /\ q \in DOMAIN manifest
      /\ q \in DOMAIN before /\ q \in DOMAIN seen /\ q \in DOMAIN todo
      /\ q \in DOMAIN expect /\ q \in DOMAIN captured
  BY DEF TypeOK
<1>1. ASSUME Finish(p) PROVE Unmoved(q)
  BY <1>1, <1>t DEF Finish, Unmoved
<1>2. ASSUME NEW t \in Paths, Settle(p, t),
             UNCHANGED plan
      PROVE  Unmoved(q)
  BY <1>2, <1>t DEF Settle, Unmoved
<1>3. ASSUME Begin(p) PROVE Unmoved(q)
  BY <1>3, <1>t DEF Begin, Unmoved
<1>4. ASSUME NoPending(p) PROVE Unmoved(q)
  BY <1>1, <1>4, <1>t DEF NoPending, Unmoved
<1>5. ASSUME StartRecovery(p) PROVE Unmoved(q)
  BY <1>5, <1>t DEF StartRecovery, Unmoved
<1>6. ASSUME RefuseRecovery(p) \/ Decline(p) \/ Crash(p) \/ PublishFault(p)
      PROVE  Unmoved(q)
  BY <1>1, <1>6 DEF RefuseRecovery, Decline, Crash, PublishFault
<1>7. ASSUME Preflight(p) \/ Snapshot(p) PROVE Unmoved(q)
  BY <1>1, <1>7, <1>t DEF Preflight, Snapshot, Unmoved
<1>8. ASSUME WriteJournal(p) PROVE Unmoved(q)
  <2>1. CASE journal = NoJournal
    BY <1>8, <1>t, <2>1 DEF WriteJournal, Unmoved
  <2> QED
    BY <1>1, <1>8, <2>1 DEF WriteJournal
<1>9. ASSUME Verify(p) PROVE Unmoved(q)
  BY <1>1, <1>9, <1>t DEF Verify, Unmoved
<1>10. ASSUME Observe(p) PROVE Unmoved(q)
  BY <1>1, <1>2, <1>10, <1>t DEF Observe, Unmoved
<1>11. ASSUME Claim(p) PROVE Unmoved(q)
  BY <1>1, <1>11, <1>t DEF Claim, Unmoved
<1>12. ASSUME CheckClaim(p) PROVE Unmoved(q)
  BY <1>1, <1>2, <1>12, <1>t DEF CheckClaim, Unmoved
<1>13. ASSUME Publish(p) PROVE Unmoved(q)
  BY <1>1, <1>13, <1>t DEF Publish, Unmoved
<1>14. ASSUME Confirm(p) PROVE Unmoved(q)
  BY <1>1, <1>2, <1>14, <1>t DEF Confirm, Unmoved
<1>15. ASSUME VerifyAll(p) PROVE Unmoved(q)
  BY <1>1, <1>15, <1>t DEF VerifyAll, Unmoved
<1>16. ASSUME Retire(p) PROVE Unmoved(q)
  BY <1>1, <1>16, <1>t DEF Retire, Unmoved
<1> QED
  BY <1>3, <1>4, <1>5, <1>6, <1>7, <1>8, <1>9, <1>10, <1>11, <1>12, <1>13,
     <1>14, <1>15, <1>16 DEF Proceed, Moves

\* In a step every command either moves itself or keeps its locals.
LEMMA OthersUnmoved ==
  ASSUME TypeOK, [Next]_vars, NEW q \in Procs
  PROVE  Moves(q) \/ Unmoved(q)
<1>1. CASE Lapse \/ Edit \/ UNCHANGED vars
  BY <1>1 DEF Lapse, Edit, vars, plan, target, Unmoved
<1>2. (\E p \in Procs : Moves(p)) \/ Lapse \/ Edit \/ UNCHANGED vars
  BY DEF Next, Moves
<1> QED
  BY <1>1, <1>2, OthersStay

\* A command that ends has nothing left to be wrong about.
LEMMA FinishLocal ==
  ASSUME LocalInv, NEW q \in Procs, Finish(q)
  PROVE  Local(q)'
<1>1. pc'[q] = "idle" /\ job'[q] = "recover" /\ captured'[q] = Absent
  BY DEF Finish, LocalInv, TypeOK
<1> QED
  BY <1>1 DEF Local, Engaged, Planner, Sourced, Expecting, Capturing, Working

\* A publisher goes on with the plan it has.
LEMMA SourcedStays ==
  ASSUME NEW q \in Procs, Sourced(q), pc'[q] \in Working,
         job'[q] = job[q], manifest'[q] = manifest[q], before'[q] = before[q],
         seen'[q] = seen[q]
  PROVE  Sourced(q)'
BY DEF Sourced, Planned, Postimage

\* Nothing has changed for a command that did not move.
LEMMA UnmovedLocal ==
  ASSUME NEW q \in Procs, Local(q), Unmoved(q)
  PROVE  Local(q)'
BY DEF Local, Unmoved, Engaged, Planner, Sourced, Expecting, Capturing, Planned,
   Postimage, Target

\* A settled target leaves a command with fewer entries and empty hands.
LEMMA SettleLocal ==
  ASSUME LocalInv, NEW q \in Procs, NEW t \in Paths, Settle(q, t),
         pc[q] \in Working, UNCHANGED plan
  PROVE  Local(q)'
<1>1. /\ pc'[q] = "verify" /\ captured'[q] = Absent
      /\ todo'[q] \subseteq todo[q]
      /\ job'[q] = job[q] /\ manifest'[q] = manifest[q]
      /\ before'[q] = before[q] /\ seen'[q] = seen[q]
  BY DEF Settle, plan, LocalInv, TypeOK
<1>2. Sourced(q)'
  BY <1>1, SourcedStays DEF LocalInv, Local, Working
<1>3. Engaged(q)'
  BY <1>1 DEF LocalInv, Local, Engaged
<1> QED
  BY <1>1, <1>2, <1>3 DEF Local, Planner, Expecting, Capturing

\* The first half of a command: up to the journal it works under.
LEMMA PlanLocal ==
  ASSUME LocalInv, NEW q \in Procs,
         \/ Begin(q) \/ NoPending(q) \/ StartRecovery(q) \/ Preflight(q)
         \/ Snapshot(q) \/ WriteJournal(q)
  PROVE  Local(q)'
<1> USE DEF lease, plan, target, env
<1>t. TypeOK /\ Local(q)
  BY DEF LocalInv
<1>r. ASSUME pc'[q] \in Counters \ Working, job'[q] = "recover",
             captured'[q] = Absent, Planner(q)'
      PROVE  Local(q)'
  BY <1>r DEF Local, Engaged, Sourced, Expecting, Capturing, Working
<1>j. pc[q] \notin Working => job[q] = "recover" /\ captured[q] = Absent
  BY <1>t DEF Local, Sourced, Capturing, Working, TypeOK
<1>1. ASSUME Begin(q) PROVE Local(q)'
  <2>1. pc'[q] = "read" /\ job'[q] = "recover" /\ captured'[q] = Absent
    BY <1>1, <1>t, <1>j DEF Begin, Working, TypeOK
  <2> QED
    BY <1>r, <2>1 DEF Planner, Counters, Working
<1>2. ASSUME NoPending(q) PROVE Local(q)'
  <2>1. CASE Finish(q)
    BY <2>1, FinishLocal
  <2>2. CASE ~Finish(q)
    <3>1. /\ pc'[q] = "preflight" /\ manifest'[q] # NoChange
          /\ job'[q] = "recover" /\ captured'[q] = Absent
      BY <1>2, <1>t, <1>j, <2>2 DEF NoPending, Working, TypeOK
    <3> QED
      BY <1>r, <3>1 DEF Planner, Counters, Working
  <2> QED
    BY <2>1, <2>2
<1>3. ASSUME StartRecovery(q) PROVE Local(q)'
  <2>1. /\ pc'[q] = "verify" /\ job'[q] = "recover" /\ captured'[q] = Absent
        /\ seen'[q] = journal /\ todo'[q] = journal.entries
    BY <1>3, <1>t, <1>j DEF StartRecovery, Working, TypeOK
  <2>2. journal \in Journals
    BY <1>3, <1>t DEF StartRecovery, TypeOK
  <2> QED
    BY <2>1, <2>2 DEF Local, Engaged, Planner, Sourced, Expecting, Capturing
<1>4. ASSUME Preflight(q) PROVE Local(q)'
  <2>1. /\ pc'[q] = "snapshot" /\ manifest'[q] # NoChange
        /\ job'[q] = "recover" /\ captured'[q] = Absent
    BY <1>4, <1>t, <1>j DEF Preflight, Working, TypeOK, Local, Planner
  <2> QED
    BY <1>r, <2>1 DEF Planner, Counters, Working
<1>5. ASSUME Snapshot(q) PROVE Local(q)'
  <2>1. CASE Finish(q)
    BY <2>1, FinishLocal
  <2>2. CASE ~Finish(q)
    <3>1. /\ pc'[q] = "journal" /\ manifest'[q] # NoChange
          /\ job'[q] = "recover" /\ captured'[q] = Absent
      BY <1>5, <1>t, <1>j, <2>2 DEF Snapshot, Working, TypeOK, Local, Planner
    <3> QED
      BY <1>r, <3>1 DEF Planner, Counters, Working
  <2> QED
    BY <2>1, <2>2
<1>6. ASSUME WriteJournal(q) PROVE Local(q)'
  <2>1. CASE journal # NoJournal
    BY <1>6, <2>1, FinishLocal DEF WriteJournal
  <2>2. CASE journal = NoJournal
    <3>1. /\ seen'[q] = journal' /\ todo'[q] = Planned(q) /\ job'[q] = "apply"
          /\ pc'[q] = "verify" /\ captured'[q] = Absent
          /\ manifest' = manifest /\ before' = before /\ manifest[q] # NoChange
      BY <1>6, <1>t, <1>j, <2>2, JournalWritten
      DEF WriteJournal, Working, TypeOK, Local, Planner
    <3>2. Planned(q)' = Planned(q) /\ Postimage(q)' = Postimage(q)
      BY <3>1 DEF Planned, Postimage
    <3> QED
      BY <1>6, <1>t, <2>2, <3>1, <3>2, JournalWritten
      DEF Local, Engaged, Planner, Sourced, Expecting, Capturing, Working
  <2> QED
    BY <2>1, <2>2
<1> QED
  BY <1>1, <1>2, <1>3, <1>4, <1>5, <1>6

\* The second half: target after target, and the retirement.
LEMMA WorkLocal ==
  ASSUME LocalInv, NEW q \in Procs,
         \/ Verify(q) \/ Observe(q) \/ Claim(q) \/ CheckClaim(q)
         \/ Publish(q) \/ Confirm(q) \/ VerifyAll(q) \/ Retire(q)
  PROVE  Local(q)'
<1> USE DEF lease, plan, target, env
<1>t. TypeOK /\ Local(q)
  BY DEF LocalInv
<1>w. pc[q] \in Working
  BY DEF Verify, Observe, Claim, CheckClaim, Publish, Confirm, VerifyAll,
     Retire, Working
<1>f. CASE Finish(q)
  BY <1>f, FinishLocal
<1>s. ASSUME NEW t \in Paths, Settle(q, t), UNCHANGED plan PROVE Local(q)'
  BY <1>s, <1>w, SettleLocal
\* The command stays with its journal and its entries.
<1>k. ASSUME pc'[q] \in Working, UNCHANGED <<plan, todo>>,
             Expecting(q)', Capturing(q)'
      PROVE  Local(q)'
  <2>1. Sourced(q)'
    BY <1>k, <1>t, SourcedStays DEF Local
  <2> QED
    BY <1>k, <1>t, <1>w, <2>1 DEF Local, Engaged, Planner, Working
<1>1. ASSUME Verify(q), ~Finish(q) PROVE Local(q)'
  <2>1. PICK t \in Paths : Target(q, t) /\ Verified(q, t)
                           /\ expect' = [expect EXCEPT ![q] = Expected(q, t)]
                           /\ pc' = [pc EXCEPT ![q] = "observe"]
                           /\ UNCHANGED <<plan, todo, captured>>
    BY <1>1 DEF Verify
  <2>2. /\ pc'[q] = "observe" /\ expect'[q] = Expected(q, t)
        /\ captured'[q] = Absent
    BY <1>1, <1>t, <2>1 DEF TypeOK, Local, Capturing, Verify
  <2>3. Expected(q, t) \in {Absent, seen[q].old[t], seen[q].new[t]}
    BY <2>1 DEF Expected, Verified, Recoverable
  <2>4. \A u \in Paths : Target(q, u)' => u = t
    BY <2>1, WikiConstants DEF Target
  <2> QED
    BY <1>k, <2>1, <2>2, <2>3, <2>4 DEF Expecting, Capturing, Working
<1>2. ASSUME Observe(q), ~Finish(q), \A t \in Paths : ~Settle(q, t)
      PROVE  Local(q)'
  <2>1. pc'[q] \in {"publish", "claim"} /\ UNCHANGED <<plan, todo, target>>
    BY <1>2, <1>t DEF Observe, TypeOK
  <2> QED
    BY <1>k, <1>2, <1>t, <2>1
    DEF Observe, Local, Expecting, Capturing, Working, Target
<1>3. ASSUME Claim(q), ~Finish(q) PROVE Local(q)'
  <2>1. pc'[q] = "check" /\ UNCHANGED <<plan, todo, expect>>
    BY <1>3, <1>t DEF Claim, TypeOK
  <2> QED
    BY <1>k, <1>3, <1>t, <2>1
    DEF Claim, Local, Expecting, Capturing, Working, Target
<1>4. ASSUME CheckClaim(q), ~Finish(q), \A t \in Paths : ~Settle(q, t)
      PROVE  Local(q)'
  <2>1. /\ pc'[q] = "publish" /\ captured[q] = expect[q]
        /\ UNCHANGED <<plan, todo, target>>
    BY <1>4, <1>t DEF CheckClaim, TypeOK
  <2> QED
    BY <1>k, <1>4, <1>t, <2>1
    DEF CheckClaim, Local, Expecting, Capturing, Working, Target
<1>5. ASSUME Publish(q), ~Finish(q) PROVE Local(q)'
  <2>1. pc'[q] = "confirm" /\ UNCHANGED <<plan, todo, target>>
    BY <1>5, <1>t DEF Publish, TypeOK
  <2> QED
    BY <1>k, <1>5, <1>t, <2>1
    DEF Publish, Local, Expecting, Capturing, Working, Target
<1>6. ASSUME VerifyAll(q), ~Finish(q) PROVE Local(q)'
  <2>1. pc'[q] = "retire" /\ UNCHANGED <<plan, todo, target>>
    BY <1>6, <1>t DEF VerifyAll, TypeOK
  <2> QED
    BY <1>k, <1>6, <1>t, <2>1 DEF VerifyAll, Local, Expecting, Capturing, Working
<1>7. ASSUME Retire(q), ~Finish(q) PROVE Local(q)'
  <2>1. /\ pc'[q] = "preflight" /\ job'[q] = "recover" /\ captured'[q] = Absent
        /\ manifest'[q] # NoChange
    BY <1>7, <1>t DEF Retire, TypeOK, Local, Capturing
  <2> QED
    BY <2>1 DEF Local, Engaged, Planner, Sourced, Expecting, Capturing, Working
<1> QED
  BY <1>f, <1>s, <1>1, <1>2, <1>3, <1>4, <1>5, <1>6, <1>7
  DEF Observe, CheckClaim, Confirm

\* Every step of every command, editor and lapse keeps the locals consistent.
LEMMA LocalStep == LocalInv /\ [Next]_vars => LocalInv'
<1> SUFFICES ASSUME LocalInv, [Next]_vars PROVE LocalInv'
  OBVIOUS
<1>1. TypeOK'
  BY TypeStep DEF LocalInv, Local, Typed
<1>2. ASSUME NEW q \in Procs PROVE Local(q)'
  <2>1. CASE Unmoved(q)
    BY <2>1, UnmovedLocal DEF LocalInv
  <2>2. CASE RefuseRecovery(q) \/ Decline(q) \/ Crash(q) \/ PublishFault(q)
    BY <2>2, FinishLocal DEF RefuseRecovery, Decline, Crash, PublishFault
  <2>3. CASE Moves(q)
    BY <2>2, <2>3, PlanLocal, WorkLocal DEF Moves, Proceed
  <2> QED
    BY <2>1, <2>3, OthersUnmoved DEF LocalInv
<1> QED
  BY <1>1, <1>2 DEF LocalInv

\* The locals are consistent in every reachable state.
LEMMA LocalInvariance == Spec => []LocalInv
BY LocalInit, LocalStep, PTL DEF Spec

\* Every variable of the transaction keeps its type; in particular what moves
\* into the claims area was a file.
THEOREM TypeCorrect == Spec => []TypeOK
BY LocalInvariance, PTL DEF LocalInv

\* A command publishes over a captured file only when its bytes were the
\* transaction's own, however many commands run and whatever editors do.
THEOREM StrangersKept == Spec => StrangerNeverReplaced
<1> DEFINE Step == \A p \in Procs, t \in Paths :
             pc[p] = "publish" /\ pc'[p] = "confirm" /\ Target(p, t)
               => captured[p] \in {Absent, seen[p].old[t], seen[p].new[t]}
<1>1. LocalInv /\ [Next]_vars => [Step]_vars
  BY DEF LocalInv, Local, Expecting, Capturing
<1> QED
  BY <1>1, LocalInvariance, PTL DEF Spec, StrangerNeverReplaced

-----------------------------------------------------------------------------
(* What editors write.                                                     *)

\* A name that is not free is only ever emptied into the claims area, except
\* by an editor; the claims area only grows.
LEMMA FilesKept ==
  ASSUME TypeOK, [Next]_vars
  PROVE  \/ Edit
         \/ /\ \A t \in Paths : live[t] \in {live'[t], Absent} \union claims'
            /\ claims \subseteq claims' /\ standing' = standing
<1> DEFINE Kept == /\ \A t \in Paths : live[t] \in {live'[t], Absent} \union claims'
                   /\ claims \subseteq claims' /\ standing' = standing
<1> USE DEF lease, plan, target, env
<1>0. ASSUME UNCHANGED <<live, claims, standing>> PROVE Kept
  BY <1>0
<1>1. ASSUME NEW p \in Procs, NEW t \in Paths, live' = Restored(p, t),
             UNCHANGED <<claims, standing>>
      PROVE  Kept
  BY <1>1 DEF Restored, TypeOK, Wikis
<1>2. ASSUME NEW p \in Procs, Claim(p) PROVE Kept
  BY <1>2 DEF Claim, TypeOK, Wikis
<1>3. ASSUME NEW p \in Procs, Publish(p) PROVE Kept
  BY <1>3 DEF Publish, TypeOK, Wikis
<1>4. ASSUME NEW p \in Procs, CheckClaim(p) \/ Confirm(p) \/ PublishFault(p)
      PROVE  Kept
  BY <1>0, <1>1, <1>4 DEF CheckClaim, Confirm, PublishFault
<1>5. ASSUME NEW p \in Procs,
             \/ Begin(p) \/ NoPending(p) \/ StartRecovery(p) \/ RefuseRecovery(p)
             \/ Preflight(p) \/ Decline(p) \/ Snapshot(p) \/ WriteJournal(p)
             \/ Verify(p) \/ Observe(p) \/ VerifyAll(p) \/ Retire(p) \/ Crash(p)
      PROVE  Kept
  BY <1>0, <1>5 DEF Begin, NoPending, StartRecovery, RefuseRecovery, Preflight,
     Decline, Snapshot, WriteJournal, Verify, Observe, VerifyAll, Retire, Crash
<1>6. CASE Lapse \/ UNCHANGED vars
  BY <1>0, <1>6 DEF Lapse, vars
<1> QED
  BY <1>2, <1>3, <1>4, <1>5, <1>6 DEF Next, Proceed

\* What an editor writes stays live or in the claims area, whether leases last
\* or lapse, until an editor replaces it.
THEOREM EditsKept == Spec => []NoEditDestroyed
<1>1. Init => NoEditDestroyed
  BY DEF Init, NoEditDestroyed
<1>2. TypeOK /\ NoEditDestroyed /\ [Next]_vars => NoEditDestroyed'
  <2> SUFFICES ASSUME TypeOK, NoEditDestroyed, [Next]_vars, NEW c \in standing'
               PROVE  c \in claims' \/ \E t \in Paths : live'[t] = c
    BY DEF NoEditDestroyed
  <2>1. CASE Edit
    BY <2>1 DEF Edit, NoEditDestroyed, TypeOK, Wikis
  <2>2. CASE ~Edit
    <3>1. c \in standing /\ c # Absent
      BY <2>2, FilesKept, WikiConstants DEF TypeOK
    <3>2. c \in claims \/ \E t \in Paths : live[t] = c
      BY <3>1 DEF NoEditDestroyed
    <3> QED
      BY <2>2, <3>1, <3>2, FilesKept
  <2> QED
    BY <2>1, <2>2
<1> QED
  BY <1>1, <1>2, TypeCorrect, PTL DEF Spec

-----------------------------------------------------------------------------
(* Atomicity, while leases last and nobody edits the wiki: one command at a *)
(* time works, and the files agree with what it believes of them.           *)

Alone ==
    /\ lapsed = {}
    /\ holders = {p \in Procs : pc[p] # "idle"}
    /\ \A p, q \in holders : p = q

\* Before its own journal a command sees none, and the preimage it read is
\* the wiki; from then on the journal on disk is the one it works under, and
\* at the end every target is in place.
Held(p) ==
    /\ pc[p] \in {"preflight", "snapshot", "journal"} => journal = NoJournal
    /\ pc[p] \in {"snapshot", "journal"} => before[p] = live
    /\ pc[p] \in Working => journal = seen[p]
    /\ pc[p] = "retire" => AllInPlace(p)

AtomicInv ==
    LocalInv /\ Alone /\ JournalRecoverable /\ \A p \in Procs : Held(p)

\* The initial states satisfy the invariant behind atomicity.
LEMMA AtomicInit == Init => AtomicInv
BY LocalInit DEF Init, AtomicInv, Alone, Held, JournalRecoverable, Working,
   Lease!Init

\* The lease admits one command at a time.
LEMMA AloneStep ==
  ASSUME MayLapse = FALSE, LocalInv, Alone, [Next]_vars
  PROVE  Alone'
<1> USE DEF lease, plan, target, env
<1>t. /\ pc \in [Procs -> Counters] /\ holders \subseteq Procs
      /\ lapsed = {} /\ holders = {p \in Procs : pc[p] # "idle"}
      /\ \A p, q \in holders : p = q
  BY DEF LocalInv, TypeOK, Alone
<1>1. ASSUME NEW p \in Procs, Finish(p) PROVE Alone'
  <2>1. pc' = [pc EXCEPT ![p] = "idle"] /\ holders' = holders \ {p} /\ lapsed' = {}
    BY <1>1, <1>t DEF Finish, Lease!Return
  <2> QED
    BY <1>t, <2>1 DEF Alone
<1>2. ASSUME NEW p \in Procs, Begin(p) PROVE Alone'
  <2>1. /\ pc' = [pc EXCEPT ![p] = "read"] /\ holders' = {p} /\ lapsed' = {}
        /\ \A q \in Procs : pc[q] = "idle"
    BY <1>2, <1>t DEF Begin, Lease!Grant
  <2> QED
    BY <1>t, <2>1 DEF Alone
<1>3. ASSUME NEW p \in Procs, pc[p] # "idle", NEW c \in Counters, c # "idle",
             pc' = [pc EXCEPT ![p] = c], UNCHANGED lease
      PROVE  Alone'
  <2>1. {q \in Procs : pc'[q] # "idle"} = {q \in Procs : pc[q] # "idle"}
    BY <1>3, <1>t
  <2> QED
    BY <1>3, <1>t, <2>1 DEF Alone
<1>4. ASSUME UNCHANGED <<pc, lease>> PROVE Alone'
  BY <1>4, <1>t DEF Alone
<1>5. ASSUME NEW p \in Procs, Proceed(p), ~Finish(p)
      PROVE  pc[p] # "idle" /\ UNCHANGED lease
             /\ \E c \in Counters \ {"idle"} : pc' = [pc EXCEPT ![p] = c]
  <2>1. CASE NoPending(p) \/ StartRecovery(p) \/ RefuseRecovery(p)
             \/ Preflight(p) \/ Decline(p) \/ Snapshot(p) \/ WriteJournal(p)
    BY <1>5, <2>1 DEF NoPending, StartRecovery, RefuseRecovery, Preflight,
       Decline, Snapshot, WriteJournal, Counters
  <2>2. CASE Verify(p) \/ Observe(p) \/ Claim(p) \/ CheckClaim(p)
             \/ Publish(p) \/ Confirm(p) \/ VerifyAll(p) \/ Retire(p)
    BY <1>5, <2>2 DEF Verify, Observe, Claim, CheckClaim, Publish, Confirm,
       VerifyAll, Retire, Settle, Counters
  <2> QED
    BY <1>5, <2>1, <2>2 DEF Proceed
<1>6. ASSUME NEW p \in Procs, Proceed(p) PROVE Alone'
  BY <1>1, <1>3, <1>5, <1>6
<1>7. ASSUME NEW p \in Procs, PublishFault(p) \/ Crash(p) PROVE Alone'
  BY <1>1, <1>7 DEF PublishFault, Crash
<1>8. CASE Lapse \/ Edit \/ UNCHANGED vars
  BY <1>4, <1>8 DEF Lapse, Edit, vars
<1> QED
  BY <1>2, <1>6, <1>7, <1>8 DEF Next

\* What a step of a command may do to a target: empty it, or give it the old
\* or the new bytes of its journal entry.
Rewritten ==
    \E t \in journal.entries :
        \E v \in {Absent, journal.old[t], journal.new[t]} :
            live' = [live EXCEPT ![t] = v]

\* The steps that touch wiki files work under the pending journal and stay
\* within its entries.
LEMMA TargetWritten ==
  ASSUME AtomicInv, NEW p \in Procs,
         Claim(p) \/ CheckClaim(p) \/ Publish(p) \/ Confirm(p) \/ PublishFault(p)
  PROVE  /\ journal # NoJournal /\ journal' = journal
         /\ live' = live \/ Rewritten
<1>1. /\ pc[p] \in {"claim", "check", "publish", "confirm"}
      /\ journal' = journal
  BY DEF Claim, CheckClaim, Publish, Confirm, PublishFault
<1>2. journal \in Journals /\ journal = seen[p] /\ todo[p] \subseteq journal.entries
  BY <1>1 DEF AtomicInv, LocalInv, Local, Engaged, Held, Working
<1>3. \A t \in Paths : Target(p, t) =>
          /\ t \in journal.entries
          /\ expect[p] \in {Absent, journal.old[t], journal.new[t]}
          /\ Want(p, t) \in {Absent, journal.old[t], journal.new[t]}
  BY <1>1, <1>2 DEF AtomicInv, LocalInv, Local, Expecting, Target, Want
<1>4. ASSUME NEW t \in Paths, Target(p, t), live' = Restored(p, t)
      PROVE  live' = live \/ Rewritten
  BY <1>3, <1>4 DEF Restored, Rewritten
<1>5. ASSUME Claim(p) PROVE live' = live \/ Rewritten
  BY <1>3, <1>5 DEF Claim, Rewritten
<1>6. ASSUME Publish(p) PROVE live' = live \/ Rewritten
  BY <1>3, <1>6 DEF Publish, Rewritten
<1>7. ASSUME CheckClaim(p) \/ Confirm(p) \/ PublishFault(p)
      PROVE  live' = live \/ Rewritten
  BY <1>4, <1>7 DEF CheckClaim, Confirm, PublishFault
<1> QED
  BY <1>1, <1>2, <1>5, <1>6, <1>7, NoJournalIsNone

\* Every other step of a command leaves the wiki files alone; only the write
\* of a journal and its retirement change the journal.
LEMMA FilesStill ==
  ASSUME Edits = {}, MayLapse = FALSE, [Next]_vars
  PROVE  \/ UNCHANGED <<live, journal>>
         \/ \E p \in Procs : \/ Claim(p) \/ CheckClaim(p) \/ Publish(p)
                             \/ Confirm(p) \/ PublishFault(p)
         \/ \E p \in Procs : (WriteJournal(p) \/ Retire(p)) /\ live' = live
BY DEF Next, Proceed, Begin, NoPending, StartRecovery, RefuseRecovery, Preflight,
   Decline, Snapshot, WriteJournal, Verify, Observe, VerifyAll, Retire, Crash,
   Lapse, Edit, vars, lease, plan, target, env

\* A crash at any point leaves a journal that recovery accepts.
LEMMA RecoverableStep ==
  ASSUME Edits = {}, MayLapse = FALSE, AtomicInv, [Next]_vars
  PROVE  JournalRecoverable'
<1>t. /\ TypeOK /\ JournalRecoverable
      /\ live \in Wikis /\ journal \in Journals \union {NoJournal}
  BY DEF AtomicInv, LocalInv, TypeOK
<1>1. CASE UNCHANGED <<live, journal>>
  BY <1>1, <1>t DEF JournalRecoverable, Recoverable
<1>2. ASSUME journal # NoJournal, journal' = journal, live' = live \/ Rewritten
      PROVE  JournalRecoverable'
  BY <1>2, <1>t DEF Rewritten, JournalRecoverable, Recoverable, Wikis, Journals
<1>3. ASSUME NEW p \in Procs, Retire(p), live' = live
      PROVE  JournalRecoverable'
  BY <1>3, <1>t DEF Retire, JournalRecoverable, Recoverable
<1>4. ASSUME NEW p \in Procs, WriteJournal(p), live' = live
      PROVE  JournalRecoverable'
  <2>1. CASE journal = NoJournal
    <3>1. before[p] = live
      BY <1>4 DEF WriteJournal, AtomicInv, Held
    <3> QED
      BY <1>4, <1>t, <2>1, <3>1, JournalWritten DEF JournalRecoverable, Recoverable
  <2>2. CASE journal # NoJournal
    BY <1>1, <1>4, <2>2 DEF WriteJournal
  <2> QED
    BY <2>1, <2>2
<1> QED
  BY <1>1, <1>2, <1>3, <1>4, FilesStill, TargetWritten

\* A command at work finds the files as it left them.
LEMMA HeldStep ==
  ASSUME Edits = {}, MayLapse = FALSE, AtomicInv, [Next]_vars, NEW q \in Procs
  PROVE  Held(q)'
<1> USE DEF lease, plan, target, env
<1>t. /\ TypeOK /\ Local(q) /\ Held(q) /\ Alone
  BY DEF AtomicInv, LocalInv
<1>0. ASSUME pc'[q] \notin Working \union {"preflight", "snapshot", "journal"}
      PROVE  Held(q)'
  BY <1>0 DEF Held, Working
<1>f. CASE Finish(q)
  <2>1. pc'[q] = "idle"
    BY <1>f, <1>t DEF Finish, TypeOK
  <2> QED
    BY <1>0, <2>1 DEF Working
\* A command that does not move, while another one works, is idle.
<1>1. CASE Unmoved(q) /\ UNCHANGED <<live, journal>>
  BY <1>1, <1>t DEF Unmoved, Held, AllInPlace, Want
<1>2. ASSUME NEW p \in Procs, p # q, Moves(p) PROVE Unmoved(q)
  BY <1>2, OthersStay, <1>t
<1>3. ASSUME NEW p \in Procs, p # q, Moves(p) PROVE pc[q] = "idle" \/ Begin(p)
  <2>1. pc[p] # "idle" \/ Begin(p)
    BY <1>3 DEF Moves, Proceed, NoPending, StartRecovery, RefuseRecovery,
       Preflight, Decline, Snapshot, WriteJournal, Verify, Observe, Claim,
       CheckClaim, Publish, PublishFault, Confirm, VerifyAll, Retire, Crash
  <2> QED
    BY <1>3, <1>t, <2>1 DEF Alone
<1>4. ASSUME NEW p \in Procs, p # q, Moves(p) PROVE Held(q)'
  <2>1. CASE pc[q] = "idle"
    BY <1>0, <1>2, <1>4, <2>1 DEF Unmoved, Working
  <2>2. CASE Begin(p)
    BY <1>1, <1>2, <1>4, <2>2 DEF Begin
  <2> QED
    BY <1>3, <1>4, <2>1, <2>2
<1>5. CASE Begin(q)
  <2>1. pc'[q] = "read"
    BY <1>5, <1>t DEF Begin, TypeOK
  <2> QED
    BY <1>0, <2>1 DEF Working
<1>6. CASE NoPending(q) /\ ~Finish(q)
  <2>1. pc'[q] = "preflight" /\ journal' = NoJournal
    BY <1>6, <1>t DEF NoPending, TypeOK
  <2> QED
    BY <2>1 DEF Held, Working
<1>7. CASE StartRecovery(q)
  <2>1. pc'[q] = "verify" /\ journal' = seen'[q]
    BY <1>7, <1>t DEF StartRecovery, TypeOK
  <2> QED
    BY <2>1 DEF Held
<1>8. CASE Preflight(q)
  <2>1. /\ pc'[q] = "snapshot" /\ journal' = NoJournal
        /\ before'[q] = live'
    BY <1>8, <1>t DEF Preflight, TypeOK, Held
  <2> QED
    BY <2>1 DEF Held, Working
<1>9. CASE Snapshot(q) /\ ~Finish(q)
  <2>1. /\ pc'[q] = "journal" /\ journal' = NoJournal
        /\ before'[q] = live'
    BY <1>9, <1>t DEF Snapshot, TypeOK, Held
  <2> QED
    BY <2>1 DEF Held, Working
<1>10. CASE WriteJournal(q) /\ ~Finish(q)
  <2>1. journal = NoJournal
    BY <1>10 DEF WriteJournal
  <2>2. pc'[q] = "verify" /\ seen'[q] = journal'
    BY <1>10, <1>t, <2>1, JournalWritten DEF TypeOK
  <2> QED
    BY <2>2 DEF Held
<1>11. ASSUME \/ Verify(q) \/ Observe(q) \/ Claim(q) \/ CheckClaim(q)
              \/ Publish(q) \/ Confirm(q),
              ~Finish(q)
       PROVE  Held(q)'
  <2>1. /\ pc[q] \in Working /\ pc'[q] \in Working \ {"retire"}
        /\ seen'[q] = seen[q] /\ journal' = journal
    BY <1>11, <1>t DEF Verify, Observe, Claim, CheckClaim, Publish, Confirm,
       Settle, TypeOK, Working
  <2> QED
    BY <1>t, <2>1 DEF Held, Working
<1>12. CASE VerifyAll(q) /\ ~Finish(q)
  <2>1. /\ AllInPlace(q) /\ pc'[q] = "retire"
        /\ UNCHANGED <<plan, live, journal>>
    BY <1>12, <1>t DEF VerifyAll, TypeOK
  <2> QED
    BY <2>1 DEF Held, AllInPlace, Want, Working
<1>13. CASE Retire(q) /\ ~Finish(q)
  <2>1. pc'[q] = "preflight" /\ journal' = NoJournal
    BY <1>13, <1>t DEF Retire, TypeOK
  <2> QED
    BY <2>1 DEF Held, Working
<1>14. CASE Moves(q)
  BY <1>f, <1>5, <1>6, <1>7, <1>8, <1>9, <1>10, <1>11, <1>12, <1>13, <1>14
  DEF Moves, Proceed, RefuseRecovery, Decline, Crash, PublishFault
<1>15. CASE UNCHANGED vars
  BY <1>1, <1>15 DEF vars, Unmoved
<1> QED
  BY <1>4, <1>14, <1>15 DEF Next, Lapse, Edit, Moves

\* The invariant behind atomicity is inductive.
LEMMA AtomicStep ==
  ASSUME Edits = {}, MayLapse = FALSE
  PROVE  AtomicInv /\ [Next]_vars => AtomicInv'
<1> SUFFICES ASSUME AtomicInv, [Next]_vars PROVE AtomicInv'
  OBVIOUS
<1> QED
  BY LocalStep, AloneStep, RecoverableStep, HeldStep DEF AtomicInv

\* The invariant behind atomicity holds in every reachable state.
LEMMA AtomicInvariance ==
  ASSUME Edits = {}, MayLapse = FALSE
  PROVE  Spec => []AtomicInv
BY AtomicInit, AtomicStep, PTL DEF Spec

\* Whatever crashed where, the journal on disk can be rolled back, by wiki
\* recover or by the next wiki apply.
THEOREM AlwaysRecoverable ==
  ASSUME Edits = {}, MayLapse = FALSE
  PROVE  Spec => []JournalRecoverable
<1>1. AtomicInv => JournalRecoverable
  BY DEF AtomicInv
<1> QED
  BY <1>1, AtomicInvariance, PTL

\* A step leaves the wiki a reader is owed alone, except for the retirement of
\* a publisher's journal, which changes it by the whole manifest.
LEMMA WikiStep ==
  ASSUME Edits = {}, MayLapse = FALSE, AtomicInv, [Next]_vars
  PROVE  Atomic!Next \/ Logical' = Logical
<1>t. /\ TypeOK /\ live \in Wikis /\ journal \in Journals \union {NoJournal}
  BY DEF AtomicInv, LocalInv, TypeOK
<1>1. ASSUME UNCHANGED <<live, journal>> PROVE Logical' = Logical
  BY <1>1 DEF Logical
<1>2. ASSUME journal # NoJournal, journal' = journal, live' = live \/ Rewritten
      PROVE  Logical' = Logical
  BY <1>2, <1>t DEF Logical, Rewritten, Wikis
<1>3. ASSUME NEW p \in Procs, WriteJournal(p), live' = live
      PROVE  Logical' = Logical
  <2>1. CASE journal = NoJournal
    <3>1. before[p] = live
      BY <1>3 DEF WriteJournal, AtomicInv, Held
    <3>2. /\ journal' # NoJournal
          /\ \A t \in journal'.entries : journal'.old[t] = live[t]
      BY <1>3, <1>t, <2>1, <3>1, JournalWritten, NoJournalIsNone
    <3>3. Logical' = [t \in Paths |-> live[t]]
      BY <1>3, <3>2 DEF Logical
    <3> QED
      BY <1>t, <2>1, <3>3 DEF Logical, Wikis
  <2>2. CASE journal # NoJournal
    BY <1>1, <1>3, <2>2 DEF WriteJournal
  <2> QED
    BY <2>1, <2>2
<1>4. ASSUME NEW p \in Procs, Retire(p), live' = live
      PROVE  Atomic!Next \/ Logical' = Logical
  <2>1. /\ journal = seen[p] /\ AllInPlace(p) /\ seen[p] \in Journals
        /\ journal # NoJournal /\ journal' = NoJournal
    BY <1>4, NoJournalIsNone
    DEF Retire, AtomicInv, LocalInv, Local, Engaged, Held, Working
  <2>2. Logical' = live
    BY <1>4, <2>1 DEF Logical
  <2>3. CASE job[p] = "recover"
    <3>1. \A t \in journal.entries : live[t] = journal.old[t]
      BY <2>1, <2>3 DEF AllInPlace, Want
    <3>2. Logical = [t \in Paths |-> live[t]]
      BY <2>1, <3>1 DEF Logical
    <3> QED
      BY <1>t, <2>2, <3>2 DEF Wikis
  <2>4. CASE job[p] = "apply"
    <3>1. /\ manifest[p] # NoChange /\ journal.entries = Planned(p)
          /\ \A t \in Planned(p) : /\ journal.old[t] = before[p][t]
                                   /\ journal.new[t] = Postimage(p)[t]
      BY <2>1, <2>4 DEF AtomicInv, LocalInv, Local, Sourced
    <3>2. \A t \in Paths : live[t] = Postimage(p)[t]
      BY <2>1, <2>4, <3>1 DEF AllInPlace, Want, Planned
    <3>3. \A t \in Paths : Logical[t] = before[p][t]
      BY <2>1, <2>4, <3>1, <3>2 DEF AllInPlace, Logical
    <3>4. \A t \in Paths : live[t] = Atomic!Overlay(Logical, manifest[p])[t]
      BY <3>2, <3>3 DEF Atomic!Overlay, Postimage
    <3>5. live = Atomic!Overlay(Logical, manifest[p])
      BY <1>t, <3>4 DEF Atomic!Overlay, Wikis
    <3>6. manifest[p] \in Manifests
      BY <1>t, <3>1 DEF TypeOK
    <3> QED
      BY <2>2, <3>5, <3>6 DEF Atomic!Next, Atomic!Publish
  <2> QED
    BY <1>t, <2>3, <2>4 DEF TypeOK
<1> QED
  BY <1>1, <1>2, <1>3, <1>4, FilesStill, TargetWritten

\* Under crashes and errors at every point a wiki apply takes place as a whole
\* or not at all, as long as leases last and nobody edits the wiki.
THEOREM AtomicRefinement ==
  ASSUME Edits = {}, MayLapse = FALSE
  PROVE  Spec => ImplementsAtomicWiki
<1>1. Init => Atomic!Init
  BY DEF Init, Logical, Atomic!Init, Atomic!Wikis, Content
<1>2. AtomicInv /\ [Next]_vars => [Atomic!Next]_Logical
  BY WikiStep
<1> QED
  BY <1>1, <1>2, AtomicInvariance, PTL
  DEF Spec, ImplementsAtomicWiki, Atomic!Spec
=============================================================================
