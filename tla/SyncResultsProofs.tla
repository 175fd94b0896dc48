-------------------------- MODULE SyncResultsProofs --------------------------
(* Theorems about SyncResults, for any sources, contents, commands and bounds. *)
EXTENDS SyncResults, TLAPS

-----------------------------------------------------------------------------
(* Types of what is durable and of the memory of a command.                *)

Guards == [before : Records, after : Records]

Requests == [source : Sources, record : Records, rewrites : BOOLEAN]

Steps ==
    [do : {"emit", "commit"}, event : EventSet]
        \union [do : {"save", "clear"}, source : Sources, record : Records]
        \union [do : {"guard"}, source : Sources, before : Records, after : Records]
        \union [do : {"check"}, source : Sources]

Ops == {"sync", "register", "acknowledge", "reacknowledge"}

Phases ==
    {"recover", "header", "hash", "reconcile", "observe", "published", "finalize",
     "save_pending", "drop_journal", "drop_staged", "acknowledge", "drop_pending",
     "finish", "failing"}

CommandSet ==
    [op : Ops, name : Commands \union {"none"}, phase : Phases, plan : Seq(Steps),
     todo : SUBSET Sources, batch : SUBSET Requests, jobs : SUBSET Sources,
     seen : [Sources -> Files] \union {<<>>}, at : 0 .. MaxTime, resumed : BOOLEAN,
     target : manifests \union Items \union {NoResult}]

\* Every variable, and a running command, has its type.
Typed ==
    /\ TypeOK
    /\ ledger \in [Sources -> Records \union {NoRecord}]
    /\ guard \in [Sources -> Guards \union {NoGuard}]
    /\ journal \in Journals \union {NoJournal}
    /\ command \in CommandSet \union {Idle}

-----------------------------------------------------------------------------
(* What a phase of a command relies on.                                    *)

Working == {"header", "hash", "reconcile", "observe", "published"}

\* Between its opening and its result a sync has a journal; it goes on to its
\* result only from there.
PhaseOf(c) ==
    c # Idle =>
        /\ c.phase \in Working => c.op = "sync" /\ journal \in Journals
        /\ c.phase \in {"header", "hash", "reconcile"} => c.seen \in [Sources -> Files]
        /\ c.phase \in {"recover", "header", "hash"} => c.jobs = {}
        /\ c.phase = "observe" => \A s \in c.todo : ledger[s] \in Records
        /\ c.phase \in {"finalize", "save_pending"} => c.op = "sync"
        /\ c.phase = "save_pending" => c.target \in manifests
        /\ c.op = "sync" => c.name \in Commands
        /\ c.op = "acknowledge" => c.target \in receipts
        /\ c.phase \in {"acknowledge", "drop_pending"} => c.op = "acknowledge"
        /\ c.op = "register" => c.target \in Items
        /\ c.op = "sync" /\ c.phase = "recover" /\ Unspooled /\ journal = NoJournal
              => clock < MaxTime

PhaseHolds == PhaseOf(command)

-----------------------------------------------------------------------------
(* Why an active derivation without a guard is proved.                     *)

\* The input of an active record was revalidated.
Earned(s, r) == r.active => \E p \in proved : p[1] = s /\ p[2].content = r.content

\* An active record is saved when it is earned, or under its guard.
SaveEarned(plan, i) ==
    plan[i].do = "save" =>
        \/ Earned(plan[i].source, plan[i].record)
        \/ i = 1 /\ guard[plan[i].source] # NoGuard
        \/ i > 1 /\ plan[i - 1].do = "guard" /\ plan[i - 1].source = plan[i].source

\* Before a guard is cleared the input is checked, and before that the record
\* saved, and before that the guard set: as far as these steps are still to come.
ClearEarned(plan, i) ==
    plan[i].do = "clear" =>
        \/ Earned(plan[i].source, plan[i].record)
        \/ /\ i > 1
           /\ plan[i - 1].do = "check" /\ plan[i - 1].source = plan[i].source
           /\ i = 2 => /\ guard[plan[i].source] # NoGuard
                       /\ ledger[plan[i].source] = plan[i].record
           /\ i > 2 => /\ plan[i - 2].do = "save" /\ plan[i - 2].source = plan[i].source
                       /\ plan[i - 2].record = plan[i].record
           /\ i = 3 => guard[plan[i].source] # NoGuard
           /\ i > 3 => plan[i - 3].do = "guard" /\ plan[i - 3].source = plan[i].source

PlanEarned(plan) ==
    \A i \in 1 .. Len(plan) : SaveEarned(plan, i) /\ ClearEarned(plan, i)

\* While a sync works, a guard is cleared by the plan that has set it.
GuardCleared(plan) ==
    /\ \A i \in 1 .. Len(plan) : plan[i].do = "guard" =>
          /\ i + 3 <= Len(plan)
          /\ plan[i + 3].do = "clear" /\ plan[i + 3].source = plan[i].source
    /\ \A s \in Sources : guard[s] # NoGuard =>
          \E i \in 1 .. Len(plan) : plan[i].do = "clear" /\ plan[i].source = s

\* An extraction that is under way has its record, or is about to save it.
JobSaved(jobs, plan) ==
    \A s \in jobs :
        \/ ledger[s] \in Records
        \/ \E i \in 1 .. Len(plan) : plan[i].do = "save" /\ plan[i].source = s

PlanOf(c) ==
    c # Idle =>
        /\ PlanEarned(c.plan)
        /\ \A request \in c.batch : Earned(request.source, request.record)
        /\ c.phase \in Working => GuardCleared(c.plan)
        /\ c.phase = "reconcile" => JobSaved(c.jobs, c.plan)
        /\ c.phase \notin {"reconcile", "observe"} =>
              \A i \in 1 .. Len(c.plan) : c.plan[i].do \notin {"emit", "commit"}

PlanHolds == PlanOf(command)

LedgerEarned ==
    \A s \in Sources : guard[s] = NoGuard /\ ledger[s] \in Records => Earned(s, ledger[s])

Inv == Typed /\ PhaseHolds /\ PlanHolds /\ LedgerEarned

-----------------------------------------------------------------------------
(* Records.                                                                *)

\* The functions on records give records, and none makes a record active.
LEMMA RecordsStay ==
  ASSUME NEW r \in Records, NEW now \in Nat, NEW bytes \in Bytes \union {r.content}
  PROVE  /\ \A n \in {RecoverStale(r, now), MarkIntegrityError(r, bytes, now), MarkMissing(r, now),
                      RefreshMatchingBytes(r, now), ExtractingRecord(r, now), HandedOff(r)} :
               n \in Records /\ n.content = r.content /\ n.active = r.active
         /\ Activated(r) \in Records /\ Activated(r).content = r.content
         /\ Rollback(r) \in Records /\ ~Rollback(r).active
<1> bytes \in Bytes
  BY DEF Records
<1>1. RestoredState(r) \in States
  BY DEF RestoredState, States
<1>2. RefreshMatchingBytes(r, now) \in Records
      /\ RefreshMatchingBytes(r, now).content = r.content
      /\ RefreshMatchingBytes(r, now).active = r.active
  BY <1>1 DEF RefreshMatchingBytes, Records, Diagnostics
<1>3. MarkMissing(r, now) \in Records
      /\ MarkMissing(r, now).content = r.content
      /\ MarkMissing(r, now).active = r.active
  BY DEF MarkMissing, Records, Diagnostics, States
<1>4. MarkIntegrityError(r, bytes, now) \in Records
      /\ MarkIntegrityError(r, bytes, now).content = r.content
      /\ MarkIntegrityError(r, bytes, now).active = r.active
  BY DEF MarkIntegrityError, Records, States
<1>5. RecoverStale(r, now) \in Records
      /\ RecoverStale(r, now).content = r.content
      /\ RecoverStale(r, now).active = r.active
  BY DEF RecoverStale, Records, States, Diagnostics
<1>6. /\ ExtractingRecord(r, now) \in Records
      /\ ExtractingRecord(r, now).content = r.content
      /\ ExtractingRecord(r, now).active = r.active
      /\ HandedOff(r) \in Records /\ HandedOff(r).content = r.content /\ HandedOff(r).active = r.active
  BY DEF ExtractingRecord, HandedOff, Records, States, Attempts
<1>7. /\ Activated(r) \in Records /\ Activated(r).content = r.content
      /\ Rollback(r) \in Records /\ ~Rollback(r).active
  BY DEF Activated, Rollback, Records, States, Attempts
<1> QED
  BY <1>2, <1>3, <1>4, <1>5, <1>6, <1>7

\* The record of a new source and that of a renamed one.
LEMMA RecordsOfFiles ==
  ASSUME NEW f \in Files, f # Gone, NEW now \in Nat
  PROVE  /\ NewRecord(f, now) \in Records /\ ~NewRecord(f, now).active
         /\ \A r \in Records : /\ RenameRecord(r, f, now) \in Records
                               /\ RenameRecord(r, f, now).content = r.content
                               /\ RenameRecord(r, f, now).active = r.active
<1>1. f.path \in Paths /\ f.bytes \in Bytes
  BY DEF Files
<1>2. NewRecord(f, now) \in Records /\ ~NewRecord(f, now).active
  BY <1>1 DEF NewRecord, Records, States, Attempts
<1>3. ASSUME NEW r \in Records
      PROVE  /\ RenameRecord(r, f, now) \in Records
             /\ RenameRecord(r, f, now).content = r.content
             /\ RenameRecord(r, f, now).active = r.active
  BY <1>1 DEF RenameRecord, Records
<1> QED
  BY <1>2, <1>3

-----------------------------------------------------------------------------
(* One durable step.                                                       *)

\* The fields of a step that is of one kind.
LEMMA StepFields ==
  ASSUME NEW step \in Steps
  PROVE  /\ step.do \in {"emit", "commit", "save", "clear", "guard", "check"}
         /\ step.do \in {"emit", "commit"} => step.event \in EventSet
         /\ step.do \in {"save", "clear"} => step.source \in Sources /\ step.record \in Records
         /\ step.do = "guard" =>
               step.source \in Sources /\ step.before \in Records /\ step.after \in Records
         /\ step.do = "check" => step.source \in Sources
BY DEF Steps

\* What taking a step does to the records, their guards and the history.
Effect(step) ==
    /\ ledger' = IF step.do = "save" THEN [ledger EXCEPT ![step.source] = step.record] ELSE ledger
    /\ guard' = IF step.do = "guard"
                THEN [guard EXCEPT ![step.source] = [before |-> step.before, after |-> step.after]]
                ELSE IF step.do = "clear" THEN [guard EXCEPT ![step.source] = NoGuard] ELSE guard
    /\ step.do = "clear" => ledger[step.source] = step.record
    /\ proved \subseteq proved'
    /\ step.do = "check" /\ guard[step.source] # NoGuard =>
          <<step.source, ledger[step.source]>> \in proved'

\* What was earned stays earned.
LEMMA EarnedGrows ==
  ASSUME proved \subseteq proved', NEW s, NEW r, Earned(s, r)
  PROVE  Earned(s, r)'
BY DEF Earned

\* The rest of a plan.
LEMMA RestOfPlan ==
  ASSUME NEW plan \in Seq(Steps), plan # <<>>
  PROVE  /\ Len(plan) \in Nat /\ Len(plan) >= 1
         /\ Head(plan) = plan[1] /\ \A i \in 1 .. Len(plan) : plan[i] \in Steps
         /\ Tail(plan) \in Seq(Steps) /\ Len(Tail(plan)) = Len(plan) - 1
         /\ \A i \in 1 .. Len(plan) - 1 : Tail(plan)[i] = plan[i + 1]
OBVIOUS

\* After a step the rest of the plan is still earned.
LEMMA EarnedAdvances ==
  ASSUME NEW plan \in Seq(Steps), plan # <<>>, NEW q, q = Tail(plan), PlanEarned(plan),
         ledger \in [Sources -> Records \union {NoRecord}],
         guard \in [Sources -> Guards \union {NoGuard}],
         Effect(plan[1])
  PROVE  PlanEarned(q)'
<1>1. /\ Len(plan) \in Nat /\ Len(plan) >= 1 /\ \A i \in 1 .. Len(plan) : plan[i] \in Steps
      /\ Len(q) = Len(plan) - 1 /\ \A i \in 1 .. Len(q) : q[i] = plan[i + 1]
  BY RestOfPlan
<1>2. plan[1].do = "guard" => plan[1].source \in Sources /\ guard'[plan[1].source] # NoGuard
  BY <1>1, StepFields, NoGuardIsNone DEF Effect, Guards
<1>3. ASSUME NEW i \in 1 .. Len(q)
      PROVE  SaveEarned(q, i)'
  <2>1. SaveEarned(plan, i + 1) /\ q[i] = plan[i + 1] /\ i + 1 # 1
    BY <1>1 DEF PlanEarned
  <2>2. CASE Earned(q[i].source, q[i].record)
    BY <2>2, EarnedGrows DEF SaveEarned, Effect
  <2>3. CASE plan[i].do = "guard" /\ plan[i].source = q[i].source /\ i = 1
    BY <2>3, <1>2 DEF SaveEarned
  <2>4. CASE plan[i].do = "guard" /\ plan[i].source = q[i].source /\ i > 1
    <3>1. q[i - 1] = plan[i]
      BY <1>1, <2>4
    <3> QED
      BY <2>4, <3>1 DEF SaveEarned
  <2>5. CASE q[i].do # "save"
    BY <2>5 DEF SaveEarned
  <2>6. \/ Earned(q[i].source, q[i].record)
        \/ plan[i].do = "guard" /\ plan[i].source = q[i].source /\ i = 1
        \/ plan[i].do = "guard" /\ plan[i].source = q[i].source /\ i > 1
        \/ q[i].do # "save"
    BY <2>1 DEF SaveEarned
  <2> QED
    BY <2>2, <2>3, <2>4, <2>5, <2>6
<1>4. ASSUME NEW i \in 1 .. Len(q)
      PROVE  ClearEarned(q, i)'
  <2>1. ClearEarned(plan, i + 1) /\ q[i] = plan[i + 1] /\ i + 1 # 1
    BY <1>1 DEF PlanEarned
  <2>2. CASE Earned(q[i].source, q[i].record)
    BY <2>2, EarnedGrows DEF ClearEarned, Effect
  <2>3. CASE q[i].do # "clear"
    BY <2>3 DEF ClearEarned
  <2> SUFFICES ASSUME q[i].do = "clear", ~Earned(q[i].source, q[i].record)
               PROVE  ClearEarned(q, i)'
    BY <2>2, <2>3
  <2>4. /\ plan[i].do = "check" /\ plan[i].source = q[i].source
        /\ i = 1 => /\ guard[q[i].source] # NoGuard
                    /\ ledger[q[i].source] = q[i].record
        /\ i > 1 => /\ plan[i - 1].do = "save" /\ plan[i - 1].source = q[i].source
                    /\ plan[i - 1].record = q[i].record
        /\ i = 2 => guard[q[i].source] # NoGuard
        /\ i > 2 => plan[i - 2].do = "guard" /\ plan[i - 2].source = q[i].source
    BY <2>1 DEF ClearEarned
  <2>5. CASE i = 1
    <3>1. <<q[i].source, q[i].record>> \in proved'
      BY <2>4, <2>5 DEF Effect
    <3> QED
      BY <3>1 DEF ClearEarned, Earned
  <2>6. CASE i = 2
    <3>1. q[1] = plan[2]
      BY <1>1, <2>6
    <3>2. plan[1].source \in Sources
      BY <1>1, <2>4, <2>6, StepFields
    <3>3. guard' = guard /\ ledger'[q[i].source] = q[i].record
      BY <2>4, <2>6, <3>2 DEF Effect
    <3> QED
      BY <2>4, <2>6, <3>1, <3>3 DEF ClearEarned
  <2>7. CASE i = 3
    <3>1. q[2] = plan[3] /\ q[1] = plan[2]
      BY <1>1, <2>7
    <3> QED
      BY <2>4, <2>7, <1>2, <3>1 DEF ClearEarned
  <2>8. CASE i > 3
    <3>1. /\ i \in Nat /\ i > 1 /\ i # 2 /\ i # 3 /\ i > 2
          /\ q[i - 1] = plan[i] /\ q[i - 2] = plan[i - 1] /\ q[i - 3] = plan[i - 2]
      BY <1>1, <2>8
    <3>2. /\ plan[i].do = "check" /\ plan[i].source = q[i].source
          /\ plan[i - 1].do = "save" /\ plan[i - 1].source = q[i].source
          /\ plan[i - 1].record = q[i].record
          /\ plan[i - 2].do = "guard" /\ plan[i - 2].source = q[i].source
      BY <2>4, <3>1
    <3> QED
      BY <3>1, <3>2 DEF ClearEarned
  <2> QED
    BY <2>5, <2>6, <2>7, <2>8
<1> QED
  BY <1>3, <1>4 DEF PlanEarned

\* A guard that the plan has set is still cleared by the rest of it.
LEMMA ClearedAdvances ==
  ASSUME NEW plan \in Seq(Steps), plan # <<>>, NEW q, q = Tail(plan), GuardCleared(plan),
         guard \in [Sources -> Guards \union {NoGuard}],
         Effect(plan[1])
  PROVE  GuardCleared(q)'
<1>1. /\ Len(plan) \in Nat /\ Len(plan) >= 1 /\ \A i \in 1 .. Len(plan) : plan[i] \in Steps
      /\ Len(q) = Len(plan) - 1 /\ \A i \in 1 .. Len(q) : q[i] = plan[i + 1]
  BY RestOfPlan
<1>2. ASSUME NEW i \in 1 .. Len(q), q[i].do = "guard"
      PROVE  i + 3 <= Len(q) /\ q[i + 3].do = "clear" /\ q[i + 3].source = q[i].source
  <2>1. i + 1 \in 1 .. Len(plan) /\ q[i] = plan[i + 1]
    BY <1>1
  <2>2. (i + 1) + 3 <= Len(plan)
        /\ plan[(i + 1) + 3].do = "clear" /\ plan[(i + 1) + 3].source = plan[i + 1].source
    BY <1>2, <2>1 DEF GuardCleared
  <2>3. i + 3 <= Len(q) /\ q[i + 3] = plan[(i + 1) + 3]
    BY <1>1, <2>2
  <2> QED
    BY <2>1, <2>2, <2>3
<1>3. ASSUME NEW s \in Sources, guard'[s] # NoGuard
      PROVE  \E i \in 1 .. Len(q) : q[i].do = "clear" /\ q[i].source = s
  <2>1. CASE plan[1].do = "guard" /\ plan[1].source = s
    <3>1. 4 <= Len(plan) /\ plan[4].do = "clear" /\ plan[4].source = s
      BY <1>1, <2>1 DEF GuardCleared
    <3>2. 3 \in 1 .. Len(q) /\ q[3] = plan[4]
      BY <1>1, <3>1
    <3> QED
      BY <3>1, <3>2
  <2>2. CASE ~(plan[1].do = "guard" /\ plan[1].source = s)
    <3>1. guard[s] # NoGuard /\ ~(plan[1].do = "clear" /\ plan[1].source = s)
      <4>1. plan[1] \in Steps
        BY <1>1
      <4> QED
        BY <1>3, <2>2, <4>1, StepFields DEF Effect
    <3>2. PICK i \in 1 .. Len(plan) : plan[i].do = "clear" /\ plan[i].source = s
      BY <3>1 DEF GuardCleared
    <3>3. i # 1
      BY <3>1, <3>2
    <3>4. i - 1 \in 1 .. Len(q) /\ q[i - 1] = plan[i]
      BY <1>1, <3>3
    <3> QED
      BY <3>2, <3>4
  <2> QED
    BY <2>1, <2>2
<1> QED
  BY <1>2, <1>3 DEF GuardCleared

\* A record that is about to be saved is saved, or still about to be.
LEMMA JobAdvances ==
  ASSUME NEW plan \in Seq(Steps), plan # <<>>, NEW q, q = Tail(plan),
         NEW jobs \in SUBSET Sources, JobSaved(jobs, plan),
         ledger \in [Sources -> Records \union {NoRecord}],
         Effect(plan[1])
  PROVE  JobSaved(jobs, q)'
<1>1. /\ Len(plan) \in Nat /\ Len(plan) >= 1 /\ \A i \in 1 .. Len(plan) : plan[i] \in Steps
      /\ Len(q) = Len(plan) - 1 /\ \A i \in 1 .. Len(q) : q[i] = plan[i + 1]
  BY RestOfPlan
<1>2. ASSUME NEW s \in jobs
      PROVE  \/ ledger'[s] \in Records
             \/ \E i \in 1 .. Len(q) : q[i].do = "save" /\ q[i].source = s
  <2>1. plan[1] \in Steps /\ s \in Sources
    BY <1>1
  <2>2. CASE ledger[s] \in Records \/ (plan[1].do = "save" /\ plan[1].source = s)
    BY <2>1, <2>2, StepFields DEF Effect
  <2>3. CASE ~(ledger[s] \in Records) /\ ~(plan[1].do = "save" /\ plan[1].source = s)
    <3>1. PICK i \in 1 .. Len(plan) : plan[i].do = "save" /\ plan[i].source = s
      BY <2>3 DEF JobSaved
    <3>2. i # 1
      BY <2>3, <3>1
    <3>3. i - 1 \in 1 .. Len(q) /\ q[i - 1] = plan[i]
      BY <1>1, <3>2
    <3> QED
      BY <3>1, <3>3
  <2> QED
    BY <2>2, <2>3
<1> QED
  BY <1>2 DEF JobSaved

\* A step leaves the ledger with earned records.
LEMMA LedgerAdvances ==
  ASSUME NEW plan \in Seq(Steps), plan # <<>>, PlanEarned(plan), LedgerEarned,
         ledger \in [Sources -> Records \union {NoRecord}],
         guard \in [Sources -> Guards \union {NoGuard}],
         Effect(plan[1])
  PROVE  /\ LedgerEarned'
         /\ ledger' \in [Sources -> Records \union {NoRecord}]
         /\ guard' \in [Sources -> Guards \union {NoGuard}]
         /\ \A s \in Sources : ledger[s] \in Records => ledger'[s] \in Records
<1> PICK step : step = plan[1]
  OBVIOUS
<1>1. step \in Steps /\ 1 \in 1 .. Len(plan)
  BY RestOfPlan
<1>2. /\ ledger' \in [Sources -> Records \union {NoRecord}]
      /\ guard' \in [Sources -> Guards \union {NoGuard}]
      /\ \A s \in Sources : ledger[s] \in Records => ledger'[s] \in Records
  BY <1>1, StepFields DEF Effect, Guards
<1>3. ASSUME NEW s \in Sources, guard'[s] = NoGuard, ledger'[s] \in Records
      PROVE  Earned(s, ledger[s])'
  <2>1. CASE step.do = "save" /\ step.source = s
    <3>1. guard[s] = NoGuard /\ ledger'[s] = step.record
      BY <1>1, <1>3, <2>1, StepFields DEF Effect
    <3>2. Earned(s, step.record)
      BY <1>1, <2>1, <3>1 DEF PlanEarned, SaveEarned
    <3> QED
      BY <3>1, <3>2 DEF Earned, Effect
  <2>2. CASE step.do = "clear" /\ step.source = s
    <3>1. Earned(s, step.record)
      BY <1>1, <2>2 DEF PlanEarned, ClearEarned
    <3>2. ledger'[s] = step.record
      BY <1>1, <2>2, StepFields DEF Effect
    <3> QED
      BY <3>1, <3>2 DEF Earned, Effect
  <2>3. CASE step.do = "guard" /\ step.source = s
    <3>1. guard'[s] \in Guards
      BY <1>1, <2>3, StepFields DEF Effect, Guards
    <3> QED
      BY <1>3, <3>1, NoGuardIsNone DEF Guards
  <2>4. CASE step.do \notin {"save", "clear", "guard"} \/ step.source # s
    <3>1. guard[s] = NoGuard /\ ledger'[s] = ledger[s]
      BY <1>1, <1>3, <2>4, StepFields DEF Effect
    <3>2. Earned(s, ledger[s])
      BY <1>3, <3>1 DEF LedgerEarned
    <3> QED
      BY <3>1, <3>2 DEF Earned, Effect
  <2> QED
    BY <2>1, <2>2, <2>3, <2>4
<1> QED
  BY <1>2, <1>3 DEF LedgerEarned

\* Taking the head of the plan keeps the invariant.
LEMMA StepKeeps ==
  ASSUME Inv, command # Idle, command.plan # <<>>, Advance, Effect(Head(command.plan)),
         journal' \in Journals \union {NoJournal},
         journal \in Journals => journal' \in Journals,
         command.phase = "recover" => journal' = journal,
         UNCHANGED <<raw, staged, manifests, pending, receipts, acknowledged, handoffs,
                     clock, faults, edits, taken>>
  PROVE  Inv'
<1> PICK plan : plan = command.plan
  OBVIOUS
<1>1. /\ command \in CommandSet /\ plan \in Seq(Steps) /\ plan # <<>>
      /\ ledger \in [Sources -> Records \union {NoRecord}]
      /\ guard \in [Sources -> Guards \union {NoGuard}]
      /\ command.jobs \subseteq Sources /\ command.todo \subseteq Sources
  BY DEF Inv, Typed, CommandSet
<1>2. Effect(plan[1]) /\ Len(plan) \in Nat /\ Len(plan) >= 1
      /\ Tail(plan) \in Seq(Steps) /\ Len(Tail(plan)) = Len(plan) - 1
      /\ \A i \in 1 .. Len(Tail(plan)) : Tail(plan)[i] = plan[i + 1]
  BY <1>1, RestOfPlan
<1>3. PlanEarned(plan) /\ LedgerEarned
  BY <1>1 DEF Inv, PlanHolds, PlanOf
<1>4. /\ LedgerEarned'
      /\ ledger' \in [Sources -> Records \union {NoRecord}]
      /\ guard' \in [Sources -> Guards \union {NoGuard}]
      /\ \A s \in Sources : ledger[s] \in Records => ledger'[s] \in Records
  BY <1>1, <1>2, <1>3, LedgerAdvances
<1> PICK q : q = Tail(plan)
  OBVIOUS
<1>5. PlanEarned(q)'
  BY <1>1, <1>2, <1>3, EarnedAdvances
<1>6. command' = Idle \/ command' = [command EXCEPT !.plan = q]
  BY DEF Advance
<1>7. (command \in CommandSet \union {Idle})'
  <2>1. CASE command' = Idle
    BY <2>1
  <2>2. CASE command' = [command EXCEPT !.plan = q]
    BY <1>1, <1>2, <2>2 DEF CommandSet
  <2> QED
    BY <1>6, <2>1, <2>2
<1>8. TypeOK'
  <2>1. \A s \in Sources : ledger'[s] \in Records \union {NoRecord}
    BY <1>4
  <2>2. \A s \in Sources : guard'[s] # NoGuard =>
            guard'[s].before \in Records /\ guard'[s].after \in Records
    BY <1>4 DEF Guards
  <2>3. journal' # NoJournal => journal'.command \in Commands /\ journal'.at \in 0 .. MaxTime
    BY DEF Journals
  <2> QED
    BY <2>1, <2>2, <2>3 DEF Inv, Typed, TypeOK
<1>9. CASE command' = Idle
  BY <1>4, <1>7, <1>8, <1>9 DEF Inv, Typed, PhaseHolds, PhaseOf, PlanHolds, PlanOf
<1>10. CASE command' # Idle
  <2>1. command' = [command EXCEPT !.plan = q]
    BY <1>6, <1>10
  <2>2. /\ command'.plan = q /\ command'.op = command.op /\ command'.phase = command.phase
        /\ command'.todo = command.todo /\ command'.batch = command.batch
        /\ command'.jobs = command.jobs /\ command'.seen = command.seen
        /\ command'.name = command.name /\ command'.target = command.target
    BY <1>1, <2>1 DEF CommandSet
  <2>3. PhaseHolds'
    <3>1. PhaseHolds
      BY DEF Inv
    <3>2. Unspooled' = Unspooled
      BY DEF Unspooled
    <3>3. command'.phase \in Working => command'.op = "sync" /\ journal' \in Journals
      BY <2>2, <3>1 DEF PhaseHolds, PhaseOf
    <3>4. command'.phase = "observe" => \A s \in command'.todo : ledger'[s] \in Records
      BY <1>1, <1>4, <2>2, <3>1 DEF PhaseHolds, PhaseOf
    <3>5. command'.op = "sync" /\ command'.phase = "recover" /\ Unspooled' /\ journal' = NoJournal
             => clock' < MaxTime
      BY <2>2, <3>1, <3>2 DEF PhaseHolds, PhaseOf
    <3>6. command'.phase \in {"header", "hash", "reconcile"} => command'.seen \in [Sources -> Files]
      BY <2>2, <3>1 DEF PhaseHolds, PhaseOf
    <3>7. /\ command'.phase \in {"recover", "header", "hash"} => command'.jobs = {}
          /\ command'.phase \in {"finalize", "save_pending"} => command'.op = "sync"
          /\ command'.phase = "save_pending" => command'.target \in manifests'
          /\ command'.op = "sync" => command'.name \in Commands
          /\ command'.op = "acknowledge" => command'.target \in receipts'
          /\ command'.phase \in {"acknowledge", "drop_pending"} => command'.op = "acknowledge"
          /\ command'.op = "register" => command'.target \in Items
      BY <2>2, <3>1 DEF PhaseHolds, PhaseOf
    <3> QED
      BY <3>3, <3>4, <3>5, <3>6, <3>7 DEF PhaseHolds, PhaseOf
  <2>4. PlanEarned(command.plan)'
    <3>1. \A i \in 1 .. Len(q) : SaveEarned(q, i)' /\ ClearEarned(q, i)'
      BY <1>5 DEF PlanEarned
    <3>2. ASSUME NEW i \in 1 .. Len(q)
          PROVE  SaveEarned(command.plan, i)'
      <4>1. SaveEarned(q, i)'
        BY <3>1
      <4> QED
        BY <2>2, <4>1 DEF SaveEarned
    <3>3. ASSUME NEW i \in 1 .. Len(q)
          PROVE  ClearEarned(command.plan, i)'
      <4>1. ClearEarned(q, i)'
        BY <3>1
      <4> QED
        BY <2>2, <4>1 DEF ClearEarned
    <3> QED
      BY <2>2, <3>2, <3>3 DEF PlanEarned
  <2>5. \A request \in command'.batch : Earned(request.source, request.record)'
    <3>1. \A request \in command.batch : Earned(request.source, request.record)
      BY DEF Inv, PlanHolds, PlanOf
    <3> QED
      BY <1>1, <2>2, <3>1, EarnedGrows DEF Effect
  <2>6. command'.phase \in Working => GuardCleared(command.plan)'
    <3>1. command.phase \in Working => GuardCleared(plan)
      BY DEF Inv, PlanHolds, PlanOf
    <3>2. command.phase \in Working => GuardCleared(q)'
      BY <1>1, <1>2, <3>1, ClearedAdvances
    <3> SUFFICES ASSUME command.phase \in Working
                 PROVE  GuardCleared(command.plan)'
      BY <2>2
    <3>3. \A i \in 1 .. Len(q) : q[i].do = "guard" =>
             i + 3 <= Len(q) /\ q[i + 3].do = "clear" /\ q[i + 3].source = q[i].source
      BY <3>2 DEF GuardCleared
    <3>4. \A s \in Sources : guard'[s] # NoGuard =>
             \E i \in 1 .. Len(q) : q[i].do = "clear" /\ q[i].source = s
      BY <3>2 DEF GuardCleared
    <3>5. command'.plan = q
      BY <2>2
    <3>6. \A i \in 1 .. Len(command'.plan) : command'.plan[i].do = "guard" =>
             /\ i + 3 <= Len(command'.plan)
             /\ command'.plan[i + 3].do = "clear"
             /\ command'.plan[i + 3].source = command'.plan[i].source
      BY <3>3, <3>5
    <3>7. \A s \in Sources : guard'[s] # NoGuard =>
             \E i \in 1 .. Len(command'.plan) :
                command'.plan[i].do = "clear" /\ command'.plan[i].source = s
      BY <3>4, <3>5
    <3> QED
      BY <3>6, <3>7 DEF GuardCleared
  <2>7. command'.phase = "reconcile" => JobSaved(command.jobs, command.plan)'
    <3> PICK jobs : jobs = command.jobs
      OBVIOUS
    <3>1. command.phase = "reconcile" => JobSaved(jobs, plan)
      BY DEF Inv, PlanHolds, PlanOf
    <3>2. command.phase = "reconcile" => JobSaved(jobs, q)'
      BY <1>1, <1>2, <3>1, JobAdvances
    <3> QED
      BY <2>2, <3>2 DEF JobSaved
  <2>8. command'.phase \notin {"reconcile", "observe"} =>
           \A i \in 1 .. Len(command'.plan) : command'.plan[i].do \notin {"emit", "commit"}
    <3>1. command.phase \notin {"reconcile", "observe"} =>
             \A i \in 1 .. Len(plan) : plan[i].do \notin {"emit", "commit"}
      BY DEF Inv, PlanHolds, PlanOf
    <3> QED
      BY <1>2, <2>2, <3>1
  <2>9. PlanHolds'
    BY <2>4, <2>5, <2>6, <2>7, <2>8 DEF PlanHolds, PlanOf
  <2> QED
    BY <1>4, <1>7, <1>8, <2>3, <2>9 DEF Inv, Typed
<1> QED
  BY <1>9, <1>10

\* The steps of a plan that go on keep the invariant.
LEMMA PlanStepKeeps ==
  ASSUME Inv, EmitStep \/ CommitStep \/ SaveStep \/ GuardStep \/ CheckStep \/ ClearStep
  PROVE  Inv'
<1>1. command # Idle /\ command.plan # <<>> /\ Advance
  BY DEF EmitStep, CommitStep, SaveStep, GuardStep, CheckStep, ClearStep, NextIs
<1> PICK step : step = Head(command.plan)
  OBVIOUS
<1>2. /\ command \in CommandSet /\ command.plan \in Seq(Steps)
      /\ step \in Steps /\ step = command.plan[1] /\ 1 \in 1 .. Len(command.plan)
      /\ journal \in Journals \union {NoJournal}
  <2>1. command \in CommandSet /\ command.plan \in Seq(Steps)
        /\ journal \in Journals \union {NoJournal}
    BY <1>1 DEF Inv, Typed, CommandSet
  <2> QED
    BY <1>1, <2>1, RestOfPlan
<1>3. CASE EmitStep \/ CommitStep
  <2>1. step.do \in {"emit", "commit"} /\ step.event \in EventSet
    BY <1>2, <1>3, StepFields DEF EmitStep, CommitStep, NextIs
  <2>2. command.phase \in {"reconcile", "observe"}
    BY <1>1, <1>2, <2>1 DEF Inv, PlanHolds, PlanOf
  <2>3. journal \in Journals
    BY <1>1, <2>2 DEF Inv, PhaseHolds, PhaseOf, Working
  <2>4. Prepared(step.event) \in FrameSet /\ Committed(step.event) \in FrameSet
    BY <2>1 DEF Prepared, Committed, FrameSet
  <2>5. \A frame \in FrameSet : [journal EXCEPT !.log = Append(@, frame)] \in Journals
    BY <2>3 DEF Journals
  <2>6. journal' \in Journals
    BY <1>3, <2>3, <2>4, <2>5 DEF EmitStep, CommitStep
  <2>7. Effect(step)
    BY <1>3, <2>1 DEF EmitStep, CommitStep, Effect, history
  <2>8. UNCHANGED <<raw, staged, manifests, pending, receipts, acknowledged, handoffs,
                    clock, faults, edits, taken>>
    BY <1>3 DEF EmitStep, CommitStep, history
  <2> QED
    BY <1>1, <2>2, <2>6, <2>7, <2>8, StepKeeps
<1>4. CASE SaveStep \/ GuardStep \/ ClearStep \/ CheckStep
  <2>1. Effect(step)
    BY <1>4 DEF SaveStep, GuardStep, ClearStep, CheckStep, NextIs, Effect, history, disk
  <2>2. journal' = journal
        /\ UNCHANGED <<raw, staged, manifests, pending, receipts, acknowledged, handoffs,
                       clock, faults, edits, taken>>
    BY <1>4 DEF SaveStep, GuardStep, ClearStep, CheckStep, history, disk
  <2> QED
    BY <1>1, <1>2, <2>1, <2>2, StepKeeps
<1> QED
  BY <1>3, <1>4
-----------------------------------------------------------------------------
(* Steps that leave the ledger and its guards alone.                       *)

\* A step that changes neither the records, nor their guards, nor what was
\* checked keeps the invariant when the command's new memory is sound.
LEMMA QuietKeeps ==
  ASSUME Inv, UNCHANGED <<ledger, guard, proved>>, TypeOK',
         journal' \in Journals \union {NoJournal},
         NEW c, command' = c, (c \in CommandSet \union {Idle})',
         PhaseOf(c)', PlanOf(c)
  PROVE  Inv'
<1>1. LedgerEarned'
  BY DEF Inv, LedgerEarned, Earned
<1>2. Typed'
  BY DEF Inv, Typed
<1>3. PhaseHolds'
  BY DEF PhaseHolds, PhaseOf
<1>4. PlanHolds'
  <2>1. CASE c = Idle
    BY <2>1 DEF PlanHolds, PlanOf
  <2>2. CASE c # Idle
    <3>1. PlanEarned(command.plan)'
      <4>1. PlanEarned(c.plan)
        BY <2>2 DEF PlanOf
      <4> QED
        BY <4>1 DEF PlanEarned, SaveEarned, ClearEarned, Earned
    <3>2. \A request \in command'.batch : Earned(request.source, request.record)'
      BY <2>2 DEF PlanOf, Earned
    <3>3. command'.phase \in Working => GuardCleared(command.plan)'
      BY <2>2 DEF PlanOf, GuardCleared
    <3>4. command'.phase = "reconcile" => JobSaved(command.jobs, command.plan)'
      BY <2>2 DEF PlanOf, JobSaved
    <3>5. command'.phase \notin {"reconcile", "observe"} =>
             \A i \in 1 .. Len(command'.plan) : command'.plan[i].do \notin {"emit", "commit"}
      BY <2>2 DEF PlanOf
    <3> QED
      BY <3>1, <3>2, <3>3, <3>4, <3>5 DEF PlanHolds, PlanOf
  <2> QED
    BY <2>1, <2>2
<1> QED
  BY <1>1, <1>2, <1>3, <1>4 DEF Inv

\* A step of the command's memory alone.
LEMMA MemoryKeeps ==
  ASSUME Inv, UNCHANGED <<raw, disk, clock, edits, history>>, faults' \in 0 .. MaxFaults,
         NEW c, command' = c, c \in CommandSet \union {Idle}, PhaseOf(c), PlanOf(c)
  PROVE  Inv'
<1>1. TypeOK'
  BY DEF Inv, Typed, TypeOK, disk, history
<1>2. journal' \in Journals \union {NoJournal}
  BY DEF Inv, Typed, disk
<1>3. (c \in CommandSet \union {Idle})'
  BY DEF CommandSet, disk
<1>4. PhaseOf(c)'
  BY DEF PhaseOf, Unspooled, disk
<1>5. UNCHANGED <<ledger, guard, proved>>
  BY DEF disk, history
<1> QED
  BY <1>1, <1>2, <1>3, <1>4, <1>5, QuietKeeps

\* A command that ends leaves nothing to hold.
LEMMA IdleHolds ==
  PhaseOf(Idle) /\ PlanOf(Idle) /\ Idle \in CommandSet \union {Idle}
BY DEF PhaseOf, PlanOf

\* A command without a plan has nothing to earn, and works with no guard set.
LEMMA EmptyPlan ==
  /\ <<>> \in Seq(Steps) /\ PlanEarned(<<>>)
  /\ GuardCleared(<<>>) <=> NoActivationGuard
  /\ \A jobs : JobSaved(jobs, <<>>) <=> \A s \in jobs : ledger[s] \in Records
  /\ \A i \in 1 .. Len(<<>>) : FALSE
<1>1. <<>> \in Seq(Steps) /\ \A i \in 1 .. Len(<<>>) : FALSE
  OBVIOUS
<1> QED
  BY <1>1 DEF PlanEarned, GuardCleared, NoActivationGuard, JobSaved

\* What the invariant says of a command that is between two plans.
LEMMA Paused ==
  ASSUME Inv, command # Idle, command.plan = <<>>
  PROVE  /\ command \in CommandSet /\ PhaseOf(command) /\ PlanOf(command)
         /\ command.phase \in Working =>
               NoActivationGuard /\ command.op = "sync" /\ journal \in Journals
         /\ command.phase = "reconcile" => \A s \in command.jobs : ledger[s] \in Records
         /\ \A request \in command.batch :
               request \in Requests /\ Earned(request.source, request.record)
<1>1. command \in CommandSet /\ PhaseOf(command) /\ PlanOf(command)
  BY DEF Inv, Typed, PhaseHolds, PlanHolds
<1>2. command.batch \subseteq Requests
  BY <1>1 DEF CommandSet
<1>3. command.phase \in Working => GuardCleared(<<>>) /\ command.op = "sync" /\ journal \in Journals
  BY <1>1 DEF PhaseOf, PlanOf
<1>4. command.phase = "reconcile" => JobSaved(command.jobs, <<>>)
  BY <1>1 DEF PlanOf
<1>5. \A request \in command.batch : Earned(request.source, request.record)
  BY <1>1 DEF PlanOf
<1> QED
  BY <1>1, <1>2, <1>3, <1>4, <1>5, EmptyPlan

\* A command is sound without a plan when no guard is set while it works, and
\* its extractions have their records.
LEMMA NoPlanHolds ==
  ASSUME NEW c, c.plan = <<>>,
         \A request \in c.batch : Earned(request.source, request.record),
         c.phase \in Working => NoActivationGuard,
         c.phase = "reconcile" => \A s \in c.jobs : ledger[s] \in Records
  PROVE  PlanOf(c)
BY EmptyPlan DEF PlanOf

\* Ending a command, and starting one.
LEMMA EndsKeep ==
  ASSUME Inv, command' = Idle, UNCHANGED <<raw, disk, clock, edits, history>>,
         faults' \in 0 .. MaxFaults
  PROVE  Inv'
BY IdleHolds, MemoryKeeps

\* Starting a sync or an init keeps the invariant.
LEMMA StartSyncKeeps ==
  ASSUME Inv, NEW name \in Commands, StartSync(name)
  PROVE  Inv'
<1> PICK c : c = NewCommand("sync", name, "recover", Sources, NoResult)
  OBVIOUS
<1>1. command' = c /\ UNCHANGED <<raw, disk, clock, edits, history>> /\ faults' \in 0 .. MaxFaults
  BY DEF StartSync, Inv, Typed, TypeOK
<1>2. c \in CommandSet
  BY BoundsAreNaturals DEF NewCommand, CommandSet, Ops, Phases
<1>3. PhaseOf(c)
  BY DEF PhaseOf, NewCommand, Working, Unspooled, StartSync
<1>4. PlanOf(c)
  BY NoPlanHolds DEF NewCommand, Working
<1> QED
  BY <1>1, <1>2, <1>3, <1>4, MemoryKeeps

\* A sync that finds a pending result replays it.
LEMMA OpenPendingKeeps ==
  ASSUME Inv, OpenPending
  PROVE  Inv'
<1> PICK c : c = [command EXCEPT !.phase = "drop_journal", !.target = pending]
  OBVIOUS
<1>1. /\ command' = c /\ UNCHANGED <<raw, disk, clock, edits, history>> /\ faults' \in 0 .. MaxFaults
      /\ command # Idle /\ command.plan = <<>> /\ command.op = "sync" /\ pending \in manifests
  BY DEF OpenPending, Opening, InPhase, Inv, Typed, TypeOK
<1>2. command \in CommandSet /\ PhaseOf(command) /\ PlanOf(command)
  BY <1>1, Paused
<1>3. c \in CommandSet
  BY <1>1, <1>2 DEF CommandSet, Phases
<1>4. PhaseOf(c)
  BY <1>1, <1>2 DEF PhaseOf, CommandSet, Working
<1>5. PlanOf(c)
  BY <1>1, <1>2, NoPlanHolds DEF PlanOf, CommandSet, Working
<1> QED
  BY <1>1, <1>3, <1>4, <1>5, MemoryKeeps

\* A sync that finds a staged result goes on to publish it.
LEMMA OpenStagedKeeps ==
  ASSUME Inv, OpenStaged
  PROVE  Inv'
<1> PICK c : c = [command EXCEPT !.phase = "finalize"]
  OBVIOUS
<1>1. /\ command' = c /\ UNCHANGED <<raw, disk, clock, edits, history>> /\ faults' \in 0 .. MaxFaults
      /\ command # Idle /\ command.plan = <<>> /\ command.op = "sync"
  BY DEF OpenStaged, Opening, InPhase, Inv, Typed, TypeOK
<1>2. command \in CommandSet /\ PhaseOf(command) /\ PlanOf(command)
  BY <1>1, Paused
<1>3. c \in CommandSet
  BY <1>1, <1>2 DEF CommandSet, Phases
<1>4. PhaseOf(c)
  BY <1>1, <1>2 DEF PhaseOf, CommandSet, Working
<1>5. PlanOf(c)
  BY <1>1, <1>2, NoPlanHolds DEF PlanOf, CommandSet, Working
<1> QED
  BY <1>1, <1>3, <1>4, <1>5, MemoryKeeps

\* A sync that finds nothing creates its journal.
LEMMA OpenNewKeeps ==
  ASSUME Inv, OpenNew
  PROVE  Inv'
<1> PICK c : c = [command EXCEPT !.phase = "header", !.seen = raw, !.at = clock']
  OBVIOUS
<1>1. /\ command' = c /\ clock' = clock + 1 /\ command.phase = "recover"
      /\ UNCHANGED <<raw, ledger, guard, staged, manifests, pending, receipts,
                     acknowledged, handoffs, faults, edits, history>>
      /\ command # Idle /\ command.plan = <<>> /\ command.op = "sync" /\ NoActivationGuard
      /\ Unspooled /\ journal = NoJournal
      /\ journal' = [command |-> command.name, at |-> clock', header |-> FALSE, log |-> <<>>]
  BY DEF OpenNew, Opening, InPhase
<1>2. command \in CommandSet /\ PhaseOf(command) /\ PlanOf(command)
  BY <1>1, Paused
<1>3. clock' \in 0 .. MaxTime /\ raw \in [Sources -> Files]
  BY <1>1, <1>2, BoundsAreNaturals DEF PhaseOf, Inv, Typed, TypeOK
<1>4. journal' \in Journals /\ journal'.command \in Commands /\ journal'.at \in 0 .. MaxTime
  <2>1. command.name \in Commands
    BY <1>1, <1>2 DEF PhaseOf
  <2>2. <<>> \in Seq(FrameSet)
    OBVIOUS
  <2> QED
    BY <1>1, <1>3, <2>1, <2>2 DEF Journals
<1>5. TypeOK'
  BY <1>1, <1>3, <1>4 DEF Inv, Typed, TypeOK, history
<1>6. (c \in CommandSet)'
  BY <1>1, <1>2, <1>3 DEF CommandSet, Phases
<1>7. PhaseOf(c)'
  BY <1>1, <1>2, <1>3, <1>4 DEF PhaseOf, CommandSet, Working
<1>8. PlanOf(c)
  BY <1>1, <1>2, NoPlanHolds DEF PlanOf, CommandSet, Working
<1> QED
  BY <1>1, <1>4, <1>5, <1>6, <1>7, <1>8, QuietKeeps DEF history

\* The header makes the journal one that a crash leaves readable.
LEMMA WriteHeaderKeeps ==
  ASSUME Inv, WriteHeader
  PROVE  Inv'
<1> PICK c : c = [command EXCEPT !.phase = "hash"]
  OBVIOUS
<1>1. /\ command' = c /\ command.phase = "header"
      /\ UNCHANGED <<raw, ledger, guard, staged, manifests, pending, receipts,
                     acknowledged, handoffs, clock, faults, edits, history>>
      /\ command # Idle /\ command.plan = <<>>
      /\ journal' = [journal EXCEPT !.header = TRUE]
  BY DEF WriteHeader, InPhase
<1>2. /\ command \in CommandSet /\ PhaseOf(command) /\ PlanOf(command)
      /\ NoActivationGuard /\ command.op = "sync" /\ journal \in Journals
  BY <1>1, Paused DEF Working
<1>3. journal' \in Journals /\ journal'.command \in Commands /\ journal'.at \in 0 .. MaxTime
  BY <1>1, <1>2 DEF Journals
<1>4. TypeOK'
  BY <1>1, <1>3 DEF Inv, Typed, TypeOK, history
<1>5. (c \in CommandSet)'
  BY <1>1, <1>2 DEF CommandSet, Phases
<1>6. command.seen \in [Sources -> Files]
  BY <1>1, <1>2 DEF PhaseOf
<1>7. PhaseOf(c)'
  BY <1>1, <1>2, <1>3, <1>6 DEF PhaseOf, CommandSet, Working
<1>8. PlanOf(c)
  BY <1>1, <1>2, NoPlanHolds DEF PlanOf, CommandSet, Working
<1>9. (c \in CommandSet \union {Idle})'
  BY <1>5
<1> QED
  BY <1>1, <1>3, <1>4, <1>7, <1>8, <1>9, QuietKeeps DEF history

\* A sync that finds a journal goes on with it.
LEMMA OpenResumedKeeps ==
  ASSUME Inv, OpenResumed
  PROVE  Inv'
<1> PICK c : c = [command EXCEPT !.phase = "hash", !.seen = raw,
                                 !.at = journal.at, !.resumed = TRUE]
  OBVIOUS
<1>1. /\ command' = c /\ UNCHANGED <<raw, disk, clock, edits, history>> /\ faults' \in 0 .. MaxFaults
      /\ command # Idle /\ command.plan = <<>> /\ command.op = "sync" /\ NoActivationGuard
      /\ journal \in Journals /\ journal.at \in 0 .. MaxTime /\ raw \in [Sources -> Files]
      /\ command.phase = "recover"
  BY DEF OpenResumed, Opening, InPhase, Inv, Typed, TypeOK
<1>2. command \in CommandSet /\ PhaseOf(command) /\ PlanOf(command)
  BY <1>1, Paused
<1>3. c \in CommandSet
  BY <1>1, <1>2 DEF CommandSet, Phases
<1>4. PhaseOf(c)
  BY <1>1, <1>2 DEF PhaseOf, CommandSet, Working
<1>5. PlanOf(c)
  BY <1>1, <1>2, NoPlanHolds DEF PlanOf, CommandSet, Working
<1> QED
  BY <1>1, <1>3, <1>4, <1>5, MemoryKeeps

\* Hashing the raw files fixes what the sync has seen.
LEMMA HashUnmatchedKeeps ==
  ASSUME Inv, HashUnmatched
  PROVE  Inv'
<1> PICK seen : seen = [s \in Sources |->
        IF Unmatched(s) /\ raw[s] # command.seen[s] THEN Gone ELSE command.seen[s]]
  OBVIOUS
<1> PICK c : c = [command EXCEPT !.phase = "reconcile", !.seen = seen]
  OBVIOUS
<1>1. /\ command # Idle /\ command.plan = <<>> /\ command.phase = "hash"
      /\ UNCHANGED <<raw, disk, clock, edits, history>> /\ faults' \in 0 .. MaxFaults
  BY DEF HashUnmatched, InPhase, Inv, Typed, TypeOK
<1>2. /\ command \in CommandSet /\ PhaseOf(command) /\ PlanOf(command)
      /\ NoActivationGuard /\ command.op = "sync" /\ journal \in Journals
  BY <1>1, Paused DEF Working
<1>3. command' = c
  BY <1>1, <1>2 DEF HashUnmatched, CommandSet
<1>4. seen \in [Sources -> Files]
  BY <1>1, <1>2 DEF PhaseOf, Files
<1>5. c \in CommandSet
  BY <1>1, <1>2, <1>4 DEF CommandSet, Phases
<1>6. PhaseOf(c)
  BY <1>1, <1>2, <1>4 DEF PhaseOf, CommandSet, Working
<1>7. PlanOf(c)
  BY <1>1, <1>2, NoPlanHolds DEF PlanOf, PhaseOf, CommandSet, Working
<1> QED
  BY <1>1, <1>3, <1>5, <1>6, <1>7, MemoryKeeps

\* A source is out of the way: nothing but the list of sources changes.
LEMMA ReconcileUnverifiedKeeps ==
  ASSUME Inv, NEW s \in Sources, ReconcileUnverified(s)
  PROVE  Inv'
<1> PICK todo : todo = command.todo \ {s}
  OBVIOUS
<1> PICK c : c = [command EXCEPT !.todo = todo]
  OBVIOUS
<1>1. /\ command # Idle /\ command.plan = <<>> /\ command.phase = "reconcile"
      /\ UNCHANGED <<raw, disk, clock, edits, history>> /\ faults' \in 0 .. MaxFaults
  BY DEF ReconcileUnverified, Reconciling, InPhase, Inv, Typed, TypeOK
<1>2. command \in CommandSet /\ PhaseOf(command) /\ PlanOf(command)
  BY <1>1, Paused
<1>3. command' = c
  BY <1>1, <1>2 DEF ReconcileUnverified, CommandSet
<1>4. c \in CommandSet
  BY <1>1, <1>2 DEF CommandSet
<1>5. PhaseOf(c)
  BY <1>1, <1>2 DEF PhaseOf, CommandSet
<1>6. PlanOf(c)
  <2>1. c.plan = <<>> /\ c.batch = command.batch /\ c.jobs = command.jobs /\ c.phase = "reconcile"
    BY <1>1, <1>2 DEF CommandSet
  <2> QED
    BY <1>1, <2>1, Paused, NoPlanHolds DEF Working
<1> QED
  BY <1>1, <1>3, <1>4, <1>5, <1>6, MemoryKeeps

\* The end of the reconciliation leaves extractions with their records.
LEMMA ReconciledKeeps ==
  ASSUME Inv, Reconciled
  PROVE  Inv'
<1> PICK todo : todo = {s \in Sources : NeedsAgent(s)}
  OBVIOUS
<1> PICK c : c = [command EXCEPT !.phase = "observe", !.todo = todo]
  OBVIOUS
<1>1. /\ command # Idle /\ command.plan = <<>> /\ command.phase = "reconcile"
      /\ UNCHANGED <<raw, disk, clock, edits, history>> /\ faults' \in 0 .. MaxFaults
      /\ command' = c
  BY DEF Reconciled, BatchDone, FilesReconciled, InPhase, Inv, Typed, TypeOK
<1>2. command \in CommandSet /\ PhaseOf(command) /\ PlanOf(command)
  BY <1>1, Paused
<1>3. c \in CommandSet
  BY <1>1, <1>2 DEF CommandSet, Phases
<1>4. \A s \in todo : ledger[s] \in Records
  BY DEF NeedsAgent, Inv, Typed
<1>5. PhaseOf(c)
  BY <1>1, <1>2, <1>4 DEF PhaseOf, CommandSet, Working
<1>6. PlanOf(c)
  <2>1. c.plan = <<>> /\ c.batch = command.batch /\ c.phase = "observe"
    BY <1>1, <1>2 DEF CommandSet
  <2> QED
    BY <1>1, <2>1, Paused, NoPlanHolds DEF Working
<1> QED
  BY <1>1, <1>3, <1>5, <1>6, MemoryKeeps

\* The items of the sources that need an agent.
LEMMA ItemsOfRecords ==
  ASSUME Inv
  PROVE  DurableItems \subseteq Items
<1>1. ASSUME NEW s \in Sources, NeedsAgent(s)
      PROVE  Item(s, ledger[s]) \in Items
  <2>1. ledger[s] \in Records
    BY <1>1 DEF NeedsAgent, Inv, Typed
  <2> QED
    BY <2>1 DEF Item, Items, Records
<1> QED
  BY <1>1 DEF DurableItems

\* The items of the handoffs are written, for the sources that need an agent.
LEMMA PublishHandoffsKeeps ==
  ASSUME Inv, PublishHandoffs
  PROVE  Inv'
<1> PICK c : c = [command EXCEPT !.phase = "published"]
  OBVIOUS
<1>1. /\ command # Idle /\ command.plan = <<>> /\ command.phase = "observe"
      /\ UNCHANGED <<raw, ledger, guard, journal, staged, manifests, pending, receipts,
                     acknowledged, clock, faults, edits, history>>
      /\ command' = c /\ handoffs' = handoffs \union DurableItems
  BY DEF PublishHandoffs, Publishing, InPhase
<1>2. command \in CommandSet /\ PhaseOf(command) /\ PlanOf(command)
  BY <1>1, Paused
<1>3. (c \in CommandSet \union {Idle})'
  BY <1>1, <1>2 DEF CommandSet, Phases
<1>4. PhaseOf(c)'
  BY <1>1, <1>2 DEF PhaseOf, CommandSet, Working
<1>5. PlanOf(c)
  <2>1. c.plan = <<>> /\ c.batch = command.batch /\ c.phase = "published"
    BY <1>1, <1>2 DEF CommandSet
  <2> QED
    BY <1>1, <2>1, Paused, NoPlanHolds DEF Working
<1>6. TypeOK'
  BY <1>1, ItemsOfRecords DEF Inv, Typed, TypeOK, history
<1>7. journal' \in Journals \union {NoJournal}
  BY <1>1 DEF Inv, Typed
<1> QED
  BY <1>1, <1>3, <1>4, <1>5, <1>6, <1>7, QuietKeeps DEF history

\* The staged result is written beside its journal.
LEMMA StageKeeps ==
  ASSUME Inv, Stage
  PROVE  Inv'
<1> PICK c : c = [command EXCEPT !.phase = "finalize"]
  OBVIOUS
<1>1. /\ command # Idle /\ command.plan = <<>> /\ command.phase = "published"
      /\ UNCHANGED <<raw, ledger, guard, journal, manifests, pending, receipts,
                     acknowledged, handoffs, clock, faults, edits, history>>
      /\ command' = c
      /\ staged' = [command |-> command.name, at |-> journal.at, corpus |-> CorpusRevision,
                    checkpoint |-> ledger, log |-> journal.log]
  BY DEF Stage, InPhase
<1>2. /\ command \in CommandSet /\ PhaseOf(command) /\ PlanOf(command)
      /\ command.op = "sync" /\ journal \in Journals
  BY <1>1, Paused DEF Working
<1>3. (c \in CommandSet \union {Idle})'
  BY <1>1, <1>2 DEF CommandSet, Phases
<1>4. PhaseOf(c)'
  BY <1>1, <1>2 DEF PhaseOf, CommandSet, Working
<1>5. PlanOf(c)
  <2>1. c.plan = <<>> /\ c.batch = command.batch /\ c.phase = "finalize"
    BY <1>1, <1>2 DEF CommandSet
  <2> QED
    BY <1>1, <2>1, Paused, NoPlanHolds DEF Working
<1>6. staged'.command \in Commands /\ staged'.at \in 0 .. MaxTime
  BY <1>1, <1>2 DEF PhaseOf, Journals
<1>7. TypeOK'
  BY <1>1, <1>6 DEF Inv, Typed, TypeOK, history
<1>8. journal' \in Journals \union {NoJournal}
  BY <1>1 DEF Inv, Typed
<1> QED
  BY <1>1, <1>3, <1>4, <1>5, <1>7, <1>8, QuietKeeps DEF history

\* The staged result gets its manifest.
LEMMA FinalizeKeeps ==
  ASSUME Inv, Finalize
  PROVE  Inv'
<1> PICK m : m = Manifest(journal.command, journal.at, staged.corpus, journal.log)
  OBVIOUS
<1> PICK c : c = [command EXCEPT !.phase = "save_pending", !.target = m]
  OBVIOUS
<1>1. /\ command # Idle /\ command.plan = <<>> /\ command.phase = "finalize"
      /\ UNCHANGED <<raw, ledger, guard, journal, staged, pending, receipts,
                     acknowledged, handoffs, clock, faults, edits, history>>
      /\ command' = c /\ manifests' = manifests \union {m}
  BY DEF Finalize, InPhase
<1>2. command \in CommandSet /\ PhaseOf(command) /\ PlanOf(command)
  BY <1>1, Paused
<1>3. (c \in CommandSet \union {Idle})'
  BY <1>1, <1>2 DEF CommandSet, Phases
<1>4. PhaseOf(c)'
  BY <1>1, <1>2 DEF PhaseOf, CommandSet, Working
<1>5. PlanOf(c)
  <2>1. c.plan = <<>> /\ c.batch = command.batch /\ c.phase = "save_pending"
    BY <1>1, <1>2 DEF CommandSet
  <2> QED
    BY <1>1, <2>1, Paused, NoPlanHolds DEF Working
<1>6. TypeOK'
  BY <1>1 DEF Inv, Typed, TypeOK, history
<1>7. journal' \in Journals \union {NoJournal}
  BY <1>1 DEF Inv, Typed
<1> QED
  BY <1>1, <1>3, <1>4, <1>5, <1>6, <1>7, QuietKeeps DEF history

\* The manifest becomes the pending result.
LEMMA SavePendingKeeps ==
  ASSUME Inv, SavePending
  PROVE  Inv'
<1> PICK c : c = [command EXCEPT !.phase = "drop_journal"]
  OBVIOUS
<1>1. /\ command # Idle /\ command.plan = <<>> /\ command.phase = "save_pending"
      /\ UNCHANGED <<raw, ledger, guard, journal, staged, manifests, receipts,
                     acknowledged, handoffs, clock, faults, edits, history>>
      /\ command' = c /\ pending' = command.target
  BY DEF SavePending, InPhase
<1>2. command \in CommandSet /\ PhaseOf(command) /\ PlanOf(command)
  BY <1>1, Paused
<1>3. (c \in CommandSet \union {Idle})'
  BY <1>1, <1>2 DEF CommandSet, Phases
<1>4. PhaseOf(c)'
  BY <1>1, <1>2 DEF PhaseOf, CommandSet, Working
<1>5. PlanOf(c)
  <2>1. c.plan = <<>> /\ c.batch = command.batch /\ c.phase = "drop_journal"
    BY <1>1, <1>2 DEF CommandSet
  <2> QED
    BY <1>1, <2>1, Paused, NoPlanHolds DEF Working
<1>6. TypeOK'
  <2>1. pending' \in manifests
    BY <1>1, <1>2 DEF PhaseOf
  <2> QED
    BY <1>1, <2>1 DEF Inv, Typed, TypeOK, history
<1>7. journal' \in Journals \union {NoJournal}
  BY <1>1 DEF Inv, Typed
<1> QED
  BY <1>1, <1>3, <1>4, <1>5, <1>6, <1>7, QuietKeeps DEF history

\* The journal of a pending result goes.
LEMMA DropJournalKeeps ==
  ASSUME Inv, DropJournal
  PROVE  Inv'
<1> PICK c : c = [command EXCEPT !.phase = "drop_staged"]
  OBVIOUS
<1>1. /\ command # Idle /\ command.plan = <<>> /\ command.phase = "drop_journal"
      /\ UNCHANGED <<raw, ledger, guard, staged, manifests, pending, receipts,
                     acknowledged, handoffs, clock, faults, edits, history>>
      /\ command' = c /\ journal' = NoJournal
  BY DEF DropJournal, InPhase
<1>2. command \in CommandSet /\ PhaseOf(command) /\ PlanOf(command)
  BY <1>1, Paused
<1>3. (c \in CommandSet \union {Idle})'
  BY <1>1, <1>2 DEF CommandSet, Phases
<1>4. PhaseOf(c)'
  BY <1>1, <1>2 DEF PhaseOf, CommandSet, Working
<1>5. PlanOf(c)
  <2>1. c.plan = <<>> /\ c.batch = command.batch /\ c.phase = "drop_staged"
    BY <1>1, <1>2 DEF CommandSet
  <2> QED
    BY <1>1, <2>1, Paused, NoPlanHolds DEF Working
<1>6. TypeOK'
  BY <1>1 DEF Inv, Typed, TypeOK, history
<1> QED
  BY <1>1, <1>3, <1>4, <1>5, <1>6, QuietKeeps DEF history

\* The staged result goes, and the sync ends.
LEMMA DropStagedKeeps ==
  ASSUME Inv, DropStaged
  PROVE  Inv'
<1>1. /\ command # Idle /\ command.plan = <<>> /\ command.phase = "drop_staged"
      /\ UNCHANGED <<raw, ledger, guard, journal, manifests, pending, receipts,
                     acknowledged, handoffs, clock, faults, edits, history>>
      /\ staged' = NoResult
  BY DEF DropStaged, InPhase
<1>2. command \in CommandSet /\ PhaseOf(command) /\ PlanOf(command)
  BY <1>1, Paused
<1>3. TypeOK'
  BY <1>1 DEF Inv, Typed, TypeOK, history
<1>4. journal' \in Journals \union {NoJournal}
  BY <1>1 DEF Inv, Typed
<1>5. CASE command.op = "acknowledge"
  <2> PICK c : c = [command EXCEPT !.phase = "acknowledge"]
    OBVIOUS
  <2>1. command' = c
    BY <1>5 DEF DropStaged
  <2>2. (c \in CommandSet \union {Idle})'
    BY <1>1, <1>2 DEF CommandSet, Phases
  <2>3. PhaseOf(c)'
    BY <1>1, <1>2, <1>5 DEF PhaseOf, CommandSet, Working
  <2>4. PlanOf(c)
    <3>1. c.plan = <<>> /\ c.batch = command.batch /\ c.phase = "acknowledge"
      BY <1>1, <1>2 DEF CommandSet
    <3> QED
      BY <1>1, <3>1, Paused, NoPlanHolds DEF Working
  <2> QED
    BY <1>1, <1>3, <1>4, <2>1, <2>2, <2>3, <2>4, QuietKeeps DEF history
<1>6. CASE command.op # "acknowledge"
  <2>1. command' = Idle
    BY <1>6 DEF DropStaged
  <2>2. PhaseOf(Idle)' /\ PlanOf(Idle)
    BY DEF PhaseOf, PlanOf
  <2> QED
    BY <1>1, <1>3, <1>4, <2>1, <2>2, QuietKeeps DEF history
<1> QED
  BY <1>5, <1>6

\* An acknowledgement starts with a consumed result, which is pending.
LEMMA StartAcknowledgeKeeps ==
  ASSUME Inv, NEW m \in manifests, StartAcknowledge(m)
  PROVE  Inv'
<1> PICK phase : phase = IF staged # NoResult THEN "drop_journal" ELSE "acknowledge"
  OBVIOUS
<1> PICK c : c = NewCommand("acknowledge", "none", phase, {}, m)
  OBVIOUS
<1>1. /\ command' = c /\ UNCHANGED <<raw, disk, clock, edits, history>> /\ faults' \in 0 .. MaxFaults
      /\ m \in receipts
  BY DEF StartAcknowledge, Inv, Typed, TypeOK
<1>2. c \in CommandSet
  BY BoundsAreNaturals DEF NewCommand, CommandSet, Ops, Phases
<1>3. PhaseOf(c)
  BY <1>1 DEF PhaseOf, NewCommand, Working
<1>4. PlanOf(c)
  BY NoPlanHolds DEF NewCommand, Working
<1> QED
  BY <1>1, <1>2, <1>3, <1>4, MemoryKeeps

\* A repeated acknowledgement goes on to finish the completion.
LEMMA StartReacknowledgeKeeps ==
  ASSUME Inv, NEW m \in manifests, StartReacknowledge(m)
  PROVE  Inv'
<1> PICK c : c = NewCommand("reacknowledge", "none", "drop_journal", {}, m)
  OBVIOUS
<1>1. command' = c /\ UNCHANGED <<raw, disk, clock, edits, history>> /\ faults' \in 0 .. MaxFaults
  BY DEF StartReacknowledge, Inv, Typed, TypeOK
<1>2. c \in CommandSet
  BY BoundsAreNaturals DEF NewCommand, CommandSet, Ops, Phases
<1>3. PhaseOf(c)
  BY <1>1 DEF PhaseOf, NewCommand, Working
<1>4. PlanOf(c)
  BY NoPlanHolds DEF NewCommand, Working
<1> QED
  BY <1>1, <1>2, <1>3, <1>4, MemoryKeeps

\* The acknowledged result is recorded.
LEMMA AcknowledgeKeeps ==
  ASSUME Inv, Acknowledge
  PROVE  Inv'
<1> PICK c : c = [command EXCEPT !.phase = "drop_pending"]
  OBVIOUS
<1>1. /\ command # Idle /\ command.plan = <<>> /\ command.phase = "acknowledge"
      /\ UNCHANGED <<raw, ledger, guard, journal, staged, manifests, pending, receipts, handoffs,
                     clock, faults, edits, history>>
      /\ command' = c /\ acknowledged' = command.target
  BY DEF Acknowledge, InPhase
<1>2. command \in CommandSet /\ PhaseOf(command) /\ PlanOf(command)
  BY <1>1, Paused
<1>3. (c \in CommandSet \union {Idle})'
  BY <1>1, <1>2 DEF CommandSet, Phases
<1>4. PhaseOf(c)'
  BY <1>1, <1>2 DEF PhaseOf, CommandSet, Working
<1>5. PlanOf(c)
  <2>1. c.plan = <<>> /\ c.batch = command.batch /\ c.phase = "drop_pending"
    BY <1>1, <1>2 DEF CommandSet
  <2> QED
    BY <1>1, <2>1, Paused, NoPlanHolds DEF Working
<1>6. TypeOK'
  <2>1. acknowledged' \in receipts
    BY <1>1, <1>2 DEF PhaseOf
  <2> QED
    BY <1>1, <2>1 DEF Inv, Typed, TypeOK, history
<1>7. journal' \in Journals \union {NoJournal}
  BY <1>1 DEF Inv, Typed
<1> QED
  BY <1>1, <1>3, <1>4, <1>5, <1>6, <1>7, QuietKeeps DEF history

\* The pointer to the acknowledged result goes, and the command ends.
LEMMA DropPendingKeeps ==
  ASSUME Inv, DropPending
  PROVE  Inv'
<1>1. /\ command # Idle /\ command.plan = <<>> /\ command.phase = "drop_pending"
      /\ UNCHANGED <<raw, ledger, guard, journal, staged, manifests, receipts,
                     acknowledged, handoffs, clock, faults, edits, committed, proved>>
      /\ command' = Idle /\ pending' = NoResult /\ taken' = taken \union {command.target}
  BY DEF DropPending, InPhase
<1>2. PhaseOf(command)
  BY <1>1, Paused
<1>3. TypeOK'
  <2>1. command.target \in receipts
    BY <1>1, <1>2 DEF PhaseOf
  <2> QED
    BY <1>1, <2>1 DEF Inv, Typed, TypeOK
<1>4. journal' \in Journals \union {NoJournal}
  BY <1>1 DEF Inv, Typed
<1>5. PhaseOf(Idle)' /\ PlanOf(Idle)
  BY DEF PhaseOf, PlanOf
<1> QED
  BY <1>1, <1>3, <1>4, <1>5, QuietKeeps

\* Consuming a result writes its receipt.
LEMMA ConsumeKeeps ==
  ASSUME Inv, NEW m \in manifests, Consume(m)
  PROVE  Inv'
<1>1. /\ command = Idle /\ receipts' = receipts \union {m}
      /\ UNCHANGED <<raw, ledger, guard, journal, staged, manifests, pending,
                     acknowledged, handoffs, command, clock, faults, edits, history>>
  BY DEF Consume
<1>2. TypeOK'
  BY <1>1 DEF Inv, Typed, TypeOK, history
<1>3. journal' \in Journals \union {NoJournal}
  BY <1>1 DEF Inv, Typed
<1>4. PhaseOf(Idle)' /\ PlanOf(Idle)
  BY DEF PhaseOf, PlanOf
<1> QED
  BY <1>1, <1>2, <1>3, <1>4, QuietKeeps DEF history

\* register-extraction starts with an item that it can load.
LEMMA StartRegisterKeeps ==
  ASSUME Inv, NEW item \in Items, StartRegister(item)
  PROVE  Inv'
<1> PICK new : new = NewCommand("register", "none", "recover", {}, item)
  OBVIOUS
<1> PICK c : c = [new EXCEPT !.at = clock']
  OBVIOUS
<1>1. /\ command' = c /\ clock' = clock + 1 /\ clock < MaxTime
      /\ UNCHANGED <<raw, disk, faults, edits, history>>
  BY DEF StartRegister
<1>2. clock' \in 0 .. MaxTime
  BY <1>1, BoundsAreNaturals DEF Inv, Typed, TypeOK
<1>3. new \in CommandSet
  BY BoundsAreNaturals DEF NewCommand, CommandSet, Ops, Phases
<1>4. /\ (c \in CommandSet \union {Idle})'
      /\ c.plan = <<>> /\ c.batch = {} /\ c.jobs = {} /\ c.phase = "recover"
      /\ c.op = "register" /\ c.target = item
  BY <1>1, <1>2, <1>3 DEF CommandSet, NewCommand, disk
<1>5. PhaseOf(c)'
  BY <1>4 DEF PhaseOf, Working
<1>6. PlanOf(c)
  BY <1>4, NoPlanHolds DEF Working
<1>7. TypeOK'
  BY <1>1, <1>2 DEF Inv, Typed, TypeOK, history, disk
<1>8. journal' \in Journals \union {NoJournal}
  BY <1>1 DEF Inv, Typed, disk
<1> QED
  BY <1>1, <1>4, <1>5, <1>6, <1>7, <1>8, QuietKeeps DEF history, disk

\* An edit under the raw tree changes no record.
LEMMA EditKeeps ==
  ASSUME Inv, NEW s \in Sources, Edit(s)
  PROVE  Inv'
<1> PICK f \in Files : raw' = [raw EXCEPT ![s] = f]
  BY DEF Edit
<1>1. UNCHANGED <<disk, command, clock, faults, history>> /\ edits' = edits + 1 /\ edits < MaxEdits
  BY DEF Edit
<1>2. TypeOK'
  <2>1. raw' \in [Sources -> Files] /\ edits' \in 0 .. MaxEdits
    BY <1>1, BoundsAreNaturals DEF Inv, Typed, TypeOK
  <2> QED
    BY <1>1, <2>1 DEF Inv, Typed, TypeOK, disk, history
<1>3. journal' \in Journals \union {NoJournal}
  BY <1>1 DEF Inv, Typed, disk
<1> PICK c : c = command
  OBVIOUS
<1>4. c \in CommandSet \union {Idle} /\ PhaseOf(c) /\ PlanOf(c)
  BY DEF Inv, Typed, PhaseHolds, PlanHolds
<1>5. (c \in CommandSet \union {Idle})'
  BY <1>1, <1>4 DEF CommandSet, disk
<1>6. PhaseOf(c)'
  BY <1>1, <1>4 DEF PhaseOf, Unspooled, disk
<1>7. command' = c /\ UNCHANGED <<ledger, guard, proved>>
  BY <1>1 DEF disk, history
<1> QED
  BY <1>2, <1>3, <1>4, <1>5, <1>6, <1>7, QuietKeeps

\* A crash among the handoffs leaves items and a temporary name.
LEMMA StopKeeps ==
  ASSUME Inv, Stop
  PROVE  Inv'
<1>1. /\ command' = Idle /\ faults' = faults + 1 /\ faults < MaxFaults
      /\ UNCHANGED <<raw, ledger, guard, journal, staged, manifests, pending, receipts,
                     acknowledged, clock, edits, history>>
  BY DEF Stop
<1>2. handoffs' \subseteq handoffs \union DurableItems \union {Litter}
  BY DEF Stop
<1>3. TypeOK'
  <2>1. handoffs' \subseteq Items \union {Litter}
    BY <1>2, ItemsOfRecords DEF Inv, Typed, TypeOK
  <2>2. faults' \in 0 .. MaxFaults
    BY <1>1, BoundsAreNaturals DEF Inv, Typed, TypeOK
  <2> QED
    BY <1>1, <2>1, <2>2 DEF Inv, Typed, TypeOK, history
<1>4. journal' \in Journals \union {NoJournal}
  BY <1>1 DEF Inv, Typed
<1>5. PhaseOf(Idle)' /\ PlanOf(Idle)
  BY DEF PhaseOf, PlanOf
<1> QED
  BY <1>1, <1>3, <1>4, <1>5, QuietKeeps DEF history

\* An adopted version has no derivation yet.
LEMMA AdoptKeeps ==
  ASSUME Inv, NEW s \in Sources, Adopt(s)
  PROVE  Inv'
<1> PICK r : r = AdoptVersion(ledger[s], raw[s], clock')
  OBVIOUS
<1>1. /\ command = Idle /\ clock < MaxTime /\ clock' = clock + 1
      /\ ledger[s] # NoRecord /\ raw[s] # Gone
      /\ ledger' = [ledger EXCEPT ![s] = r]
      /\ UNCHANGED <<raw, guard, journal, staged, manifests, pending, receipts,
                     acknowledged, handoffs, command, faults, edits, history>>
  BY DEF Adopt
<1>2. clock' \in 0 .. MaxTime /\ clock' \in Nat
  BY <1>1, BoundsAreNaturals DEF Inv, Typed, TypeOK
<1>3. r \in Records /\ ~r.active
  <2>1. ledger[s] \in Records /\ raw[s].bytes \in Bytes
    BY <1>1 DEF Inv, Typed, TypeOK, Files
  <2> QED
    BY <1>2, <2>1 DEF AdoptVersion, Records, States, Attempts
<1>4. ledger' \in [Sources -> Records \union {NoRecord}]
  BY <1>1, <1>3 DEF Inv, Typed
<1>5. TypeOK'
  <2>1. \A x \in Sources : ledger'[x] \in Records \union {NoRecord}
    BY <1>4
  <2> QED
    BY <1>1, <1>2, <2>1 DEF Inv, Typed, TypeOK, history
<1>6. Typed'
  BY <1>1, <1>4, <1>5 DEF Inv, Typed
<1>7. LedgerEarned'
  <2>1. ASSUME NEW x \in Sources, guard'[x] = NoGuard, ledger'[x] \in Records
        PROVE  Earned(x, ledger[x])'
    <3>1. CASE x = s
      <4>1. ledger'[x] = r
        BY <1>1, <3>1 DEF Inv, Typed
      <4> QED
        BY <1>3, <4>1 DEF Earned
    <3>2. CASE x # s
      <4>1. ledger'[x] = ledger[x] /\ guard'[x] = guard[x] /\ proved' = proved
        BY <1>1, <3>2 DEF Inv, Typed, history
      <4>2. Earned(x, ledger[x])
        BY <2>1, <4>1 DEF Inv, LedgerEarned
      <4> QED
        BY <4>1, <4>2 DEF Earned
    <3> QED
      BY <3>1, <3>2
  <2> QED
    BY <2>1 DEF LedgerEarned
<1>8. PhaseHolds' /\ PlanHolds'
  BY <1>1 DEF PhaseHolds, PhaseOf, PlanHolds, PlanOf
<1> QED
  BY <1>6, <1>7, <1>8 DEF Inv

-----------------------------------------------------------------------------
(* Steps that lay a new plan.                                              *)

\* Rolling an activation back needs no earning: its record is not active.
LEMMA RestoreEarned ==
  ASSUME Inv, NEW s \in Sources, guard[s] # NoGuard
  PROVE  /\ Restore(s) \in Seq(Steps) /\ PlanEarned(Restore(s))
         /\ \A i \in 1 .. Len(Restore(s)) : Restore(s)[i].do \notin {"emit", "commit"}
<1> PICK r : r = Rollback(guard[s].before)
  OBVIOUS
<1>1. r \in Records /\ ~r.active
  <2>1. guard[s].before \in Records
    BY DEF Inv, Typed, TypeOK
  <2> QED
    BY <2>1 DEF Rollback, Records
<1>2. Restore(s) = <<Save(s, r), Clear(s, r)>>
  BY DEF Restore
<1>3. Save(s, r) \in Steps /\ Clear(s, r) \in Steps
  BY <1>1 DEF Save, Clear, Steps
<1>4. Restore(s) \in Seq(Steps)
  BY <1>2, <1>3
<1>5. /\ Len(Restore(s)) = 2
      /\ Restore(s)[1] = Save(s, r) /\ Restore(s)[2] = Clear(s, r)
  BY <1>2
<1>6. \A i \in 1 .. Len(Restore(s)) :
         /\ Restore(s)[i].do \in {"save", "clear"}
         /\ Restore(s)[i].source = s /\ Restore(s)[i].record = r
  BY <1>5 DEF Save, Clear
<1>7. Earned(s, r)
  BY <1>1 DEF Earned
<1> QED
  BY <1>4, <1>6, <1>7 DEF PlanEarned, SaveEarned, ClearEarned

\* Recovering a guard puts the record before the activation back.
LEMMA RecoverGuardKeeps ==
  ASSUME Inv, NEW s \in Sources, RecoverGuard(s)
  PROVE  Inv'
<1> PICK plan : plan = Restore(s)
  OBVIOUS
<1> PICK c : c = [command EXCEPT !.plan = plan]
  OBVIOUS
<1>1. /\ command # Idle /\ command.plan = <<>> /\ command.phase = "recover"
      /\ UNCHANGED <<raw, disk, clock, edits, history>> /\ faults' \in 0 .. MaxFaults
      /\ command' = c /\ guard[s] # NoGuard
  BY DEF RecoverGuard, InPhase, Inv, Typed, TypeOK
<1>2. command \in CommandSet /\ PhaseOf(command) /\ PlanOf(command)
  BY <1>1, Paused
<1>3. plan \in Seq(Steps) /\ PlanEarned(plan)
      /\ \A i \in 1 .. Len(plan) : plan[i].do \notin {"emit", "commit"}
  <2>1. Restore(s) \in Seq(Steps) /\ PlanEarned(Restore(s))
        /\ \A i \in 1 .. Len(Restore(s)) : Restore(s)[i].do \notin {"emit", "commit"}
    BY <1>1, RestoreEarned
  <2> QED
    BY <2>1
<1>4. c \in CommandSet
  BY <1>2, <1>3 DEF CommandSet
<1>5. PhaseOf(c)
  BY <1>1, <1>2 DEF PhaseOf, CommandSet
<1>6. PlanOf(c)
  <2>1. c.plan = plan /\ c.batch = command.batch /\ c.phase = "recover"
    BY <1>1, <1>2 DEF CommandSet
  <2> QED
    BY <1>1, <1>2, <1>3, <2>1 DEF PlanOf, Working
<1> QED
  BY <1>1, <1>4, <1>5, <1>6, MemoryKeeps

\* A failed command rolls back the activation whose guard it finds, or just ends.
LEMMA UnwindKeeps ==
  ASSUME Inv, command # Idle, Unwind, UNCHANGED <<raw, disk, clock, edits, history>>,
         faults' \in 0 .. MaxFaults
  PROVE  Inv'
<1>1. CASE \E s \in Sources : guard[s] # NoGuard
  <2> PICK t : t = CHOOSE s \in Sources : guard[s] # NoGuard
    OBVIOUS
  <2>1. t \in Sources /\ guard[t] # NoGuard
    BY <1>1
  <2> PICK plan : plan = Restore(t)
    OBVIOUS
  <2> PICK c : c = [command EXCEPT !.phase = "failing", !.plan = plan]
    OBVIOUS
  <2>2. command' = c
    BY <1>1 DEF Unwind
  <2>3. command \in CommandSet /\ PhaseOf(command) /\ PlanOf(command)
    BY DEF Inv, Typed, PhaseHolds, PlanHolds
  <2>4. plan \in Seq(Steps) /\ PlanEarned(plan)
        /\ \A i \in 1 .. Len(plan) : plan[i].do \notin {"emit", "commit"}
    <3>1. Restore(t) \in Seq(Steps) /\ PlanEarned(Restore(t))
          /\ \A i \in 1 .. Len(Restore(t)) : Restore(t)[i].do \notin {"emit", "commit"}
      BY <2>1, RestoreEarned
    <3> QED
      BY <3>1
  <2>5. c \in CommandSet
    BY <2>3, <2>4 DEF CommandSet, Phases
  <2>6. c.plan = plan /\ c.batch = command.batch /\ c.phase = "failing"
        /\ c.op = command.op /\ c.name = command.name /\ c.target = command.target
    BY <2>3 DEF CommandSet
  <2>7. PhaseOf(c)
    BY <2>3, <2>6 DEF PhaseOf, Working
  <2>8. PlanOf(c)
    BY <2>3, <2>4, <2>6 DEF PlanOf, Working
  <2> QED
    BY <2>2, <2>5, <2>7, <2>8, MemoryKeeps
<1>2. CASE ~ \E s \in Sources : guard[s] # NoGuard
  <2>1. command' = Idle
    BY <1>2 DEF Unwind
  <2> QED
    BY <2>1, EndsKeep
<1> QED
  BY <1>1, <1>2

\* A command that fails or crashes, wherever it is, keeps the invariant.
LEMMA FailuresKeep ==
  ASSUME Inv, CheckFails \/ StepFails
  PROVE  Inv'
<1>1. CASE CheckFails
  <2>1. /\ command # Idle /\ Unwind /\ UNCHANGED <<raw, disk, clock, edits, history>>
        /\ faults' \in 0 .. MaxFaults
    BY <1>1 DEF CheckFails, NextIs, Inv, Typed, TypeOK
  <2> QED
    BY <2>1, UnwindKeeps
<1>2. CASE StepFails
  <2>1. /\ command # Idle /\ Unwind /\ UNCHANGED <<raw, disk, clock, edits, history>>
        /\ faults' = faults + 1 /\ faults < MaxFaults
    BY <1>2 DEF StepFails, NextIs
  <2>2. faults' \in 0 .. MaxFaults
    BY <2>1, BoundsAreNaturals DEF Inv, Typed, TypeOK
  <2> QED
    BY <2>1, <2>2, UnwindKeeps
<1> QED
  BY <1>1, <1>2

\* The record that a plan writes inherits what was earned by the one before.
LEMMA EarnedStays ==
  ASSUME NEW s, NEW r, NEW n, n.content = r.content, n.active = r.active, Earned(s, r)
  PROVE  Earned(s, n)
BY DEF Earned

\* Plans that only announce and save, and save only what is earned.
PlainStep(step) ==
    /\ step \in Steps /\ step.do \in {"emit", "save", "commit"}
    /\ step.do = "save" => Earned(step.source, step.record)

Plain(plan) == plan \in Seq(Steps) /\ \A i \in 1 .. Len(plan) : PlainStep(plan[i])

\* A plan that saves only earned records, and guards and clears nothing, is earned.
LEMMA PlainEarned ==
  ASSUME NEW plan, Plain(plan)
  PROVE  /\ plan \in Seq(Steps) /\ PlanEarned(plan)
         /\ NoActivationGuard => GuardCleared(plan)
<1>1. \A i \in 1 .. Len(plan) :
         /\ plan[i].do \in {"emit", "save", "commit"}
         /\ plan[i].do = "save" => Earned(plan[i].source, plan[i].record)
  BY DEF Plain, PlainStep
<1>2. PlanEarned(plan)
  BY <1>1 DEF PlanEarned, SaveEarned, ClearEarned
<1>3. NoActivationGuard => GuardCleared(plan)
  BY <1>1 DEF GuardCleared, NoActivationGuard
<1> QED
  BY <1>2, <1>3 DEF Plain

\* Two such plans make one.
LEMMA PlainConcat ==
  ASSUME NEW p, NEW q, Plain(p), Plain(q)
  PROVE  Plain(p \o q)
<1>1. p \in Seq(Steps) /\ q \in Seq(Steps) /\ Len(p) \in Nat /\ Len(q) \in Nat
  BY DEF Plain
<1>2. /\ p \o q \in Seq(Steps) /\ Len(p \o q) = Len(p) + Len(q)
      /\ \A i \in 1 .. Len(p \o q) :
            (p \o q)[i] = IF i <= Len(p) THEN p[i] ELSE q[i - Len(p)]
  BY <1>1
<1>3. ASSUME NEW i \in 1 .. Len(p \o q)
      PROVE  PlainStep((p \o q)[i])
  <2>1. CASE i <= Len(p)
    <3>1. i \in 1 .. Len(p) /\ (p \o q)[i] = p[i]
      BY <1>1, <1>2, <2>1
    <3> QED
      BY <3>1 DEF Plain
  <2>2. CASE i > Len(p)
    <3>1. i - Len(p) \in 1 .. Len(q) /\ (p \o q)[i] = q[i - Len(p)]
      BY <1>1, <1>2, <2>2
    <3> QED
      BY <3>1 DEF Plain
  <2> QED
    BY <1>1, <2>1, <2>2
<1> QED
  BY <1>2, <1>3 DEF Plain

\* The steps that such plans are made of.
LEMMA PlainSteps ==
  ASSUME NEW s \in Sources, NEW r \in Records
  PROVE  /\ Plain(<<>>)
         /\ Earned(s, r) => Plain(<<Save(s, r)>>)
         /\ \A kind \in {"new_active_representation", "citation_rewrite", "handoff_source_id"} :
               LET e == Event(kind, s, r)
               IN e \in EventSet /\ Plain(<<Emit(e)>>) /\ Plain(<<Commit(e)>>)
<1>1. Plain(<<>>)
  BY DEF Plain
<1>2. \A step \in Steps : PlainStep(step) => Plain(<<step>>)
  <2>1. ASSUME NEW step \in Steps, PlainStep(step)
        PROVE  Plain(<<step>>)
    <3>1. <<step>> \in Seq(Steps) /\ Len(<<step>>) = 1 /\ <<step>>[1] = step
      OBVIOUS
    <3> QED
      BY <2>1, <3>1 DEF Plain
  <2> QED
    BY <2>1
<1>3. Earned(s, r) => Plain(<<Save(s, r)>>)
  <2>1. Save(s, r) \in Steps /\ (Earned(s, r) => PlainStep(Save(s, r)))
    BY DEF Save, Steps, PlainStep
  <2> QED
    BY <1>2, <2>1
<1>4. ASSUME NEW kind \in {"new_active_representation", "citation_rewrite", "handoff_source_id"}
      PROVE  LET e == Event(kind, s, r)
             IN e \in EventSet /\ Plain(<<Emit(e)>>) /\ Plain(<<Commit(e)>>)
  <2> DEFINE e == Event(kind, s, r)
  <2>1. e \in EventSet
    BY DEF Event, EventSet
  <2> HIDE DEF e
  <2>2. Emit(e) \in Steps /\ PlainStep(Emit(e)) /\ Commit(e) \in Steps /\ PlainStep(Commit(e))
    BY <2>1 DEF Emit, Commit, Steps, PlainStep
  <2>3. Plain(<<Emit(e)>>) /\ Plain(<<Commit(e)>>)
    BY <1>2, <2>2
  <2> QED
    BY <2>1, <2>3 DEF e
<1> QED
  BY <1>1, <1>3, <1>4

\* The plan that publishes events is such a plan.
LEMMA PlainPublish ==
  ASSUME NEW s \in Sources, NEW r \in Records, Earned(s, r), NEW rewrites \in BOOLEAN
  PROVE  /\ Plain(Publish(s, r, rewrites))
         /\ \E i \in 1 .. Len(Publish(s, r, rewrites)) :
               Publish(s, r, rewrites)[i].do = "save" /\ Publish(s, r, rewrites)[i].source = s
<1> DEFINE e == Event("citation_rewrite", s, r)
<1>1. Plain(<<Save(s, r)>>) /\ Plain(<<Emit(e)>>) /\ Plain(<<Commit(e)>>)
  BY PlainSteps
<1>2. CASE rewrites
  <2> PICK p : p = <<Emit(e), Save(s, r), Commit(e)>>
    OBVIOUS
  <2>1. Publish(s, r, rewrites) = p
    BY <1>2 DEF Publish
  <2>2. Len(p) = 3 /\ p[1] = Emit(e) /\ p[2] = Save(s, r) /\ p[3] = Commit(e)
    OBVIOUS
  <2>3. PlainStep(Emit(e)) /\ PlainStep(Save(s, r)) /\ PlainStep(Commit(e))
    BY <1>1 DEF Plain
  <2>4. p \in Seq(Steps)
    BY <2>3 DEF PlainStep
  <2>5. \A i \in 1 .. Len(p) : PlainStep(p[i])
    BY <2>2, <2>3
  <2>6. p[2].do = "save" /\ p[2].source = s /\ 2 \in 1 .. Len(p)
    BY <2>2 DEF Save
  <2> QED
    BY <2>1, <2>4, <2>5, <2>6 DEF Plain
<1>3. CASE ~rewrites
  <2> PICK p : p = <<Save(s, r)>>
    OBVIOUS
  <2>1. Publish(s, r, rewrites) = p
    BY <1>3 DEF Publish
  <2>2. p[1].do = "save" /\ p[1].source = s /\ 1 \in 1 .. Len(p)
    BY DEF Save
  <2> QED
    BY <1>1, <2>1, <2>2
<1> QED
  BY <1>2, <1>3

\* What a sync may lay as its next plan while it reconciles.
LEMMA PlanKeeps ==
  ASSUME Inv, command # Idle, command.plan = <<>>, command.phase = "reconcile",
         UNCHANGED <<raw, disk, clock, edits, history, faults>>,
         NEW plan \in Seq(Steps), PlanEarned(plan), GuardCleared(plan),
         NEW todo \in SUBSET Sources, NEW batch \in SUBSET Requests,
         \A request \in batch : Earned(request.source, request.record),
         NEW jobs \in SUBSET Sources, JobSaved(jobs, plan),
         command' = [command EXCEPT !.todo = todo, !.batch = batch, !.jobs = jobs, !.plan = plan]
  PROVE  Inv'
<1> PICK c : c = [command EXCEPT !.todo = todo, !.batch = batch, !.jobs = jobs, !.plan = plan]
  OBVIOUS
<1>1. command \in CommandSet /\ PhaseOf(command) /\ PlanOf(command)
  BY Paused
<1>2. c \in CommandSet
  BY <1>1 DEF CommandSet
<1>3. /\ c.plan = plan /\ c.batch = batch /\ c.jobs = jobs /\ c.todo = todo
      /\ c.phase = "reconcile" /\ c.op = command.op /\ c.name = command.name
      /\ c.target = command.target /\ c.seen = command.seen
  BY <1>1 DEF CommandSet
<1>4. PhaseOf(c)
  BY <1>1, <1>3 DEF PhaseOf
<1>5. PlanOf(c)
  BY <1>3 DEF PlanOf
<1>6. faults' \in 0 .. MaxFaults
  BY DEF Inv, Typed, TypeOK
<1> QED
  BY <1>2, <1>4, <1>5, <1>6, MemoryKeeps

\* An extraction that has its record has it whatever is planned.
LEMMA JobsKeepRecords ==
  ASSUME NEW jobs, \A s \in jobs : ledger[s] \in Records, NEW plan
  PROVE  JobSaved(jobs, plan)
BY DEF JobSaved

\* A file in its place, a moved one and a new one: what is saved has the content
\* and the derivation of the record that was there, or none.
LEMMA ReconcileFileKeeps ==
  ASSUME Inv, NEW s \in Sources, ReconcileFile(s)
  PROVE  Inv'
<1>f. PICK f : f = FileOf(s)
  OBVIOUS
<1>now. PICK now : now = command.at
  OBVIOUS
<1>created. PICK created \in BOOLEAN : created = (ledger[s] = NoRecord)
  OBVIOUS
<1>renamed. PICK renamed \in BOOLEAN : renamed = (~created /\ ledger[s].path # f.path)
  OBVIOUS
<1>r. PICK r : r = IF created THEN NewRecord(f, now)
                 ELSE IF renamed THEN RenameRecord(ledger[s], f, now) ELSE ledger[s]
  OBVIOUS
<1>stale. PICK stale \in BOOLEAN : stale = (r.state = "extracting")
  OBVIOUS
<1>awake. PICK awake : awake = IF stale THEN RecoverStale(r, now) ELSE r
  OBVIOUS
<1>same. PICK same \in BOOLEAN : same = (f.bytes = r.content)
  OBVIOUS
<1>next. PICK next : next = IF same THEN RefreshMatchingBytes(awake, now)
                       ELSE MarkIntegrityError(awake, f.bytes, now)
  OBVIOUS
<1>process. PICK process \in BOOLEAN : process = (same /\ MustProcess(next))
  OBVIOUS
<1>rewrites. PICK rewrites \in BOOLEAN : rewrites = (renamed /\ ~stale)
  OBVIOUS
<1>changed. PICK changed \in BOOLEAN : changed = (next # awake \/ ((created \/ renamed) /\ ~stale))
  OBVIOUS
<1>recovery. PICK recovery : recovery = IF stale THEN Publish(s, awake, renamed) ELSE <<>>
  OBVIOUS
<1>outcome. PICK outcome : outcome = IF ~process /\ changed THEN Publish(s, next, rewrites) ELSE <<>>
  OBVIOUS
<1>request. PICK request : request = [source |-> s, record |-> next, rewrites |-> rewrites]
  OBVIOUS
<1>batch. PICK batch : batch = IF process THEN command.batch \union {request} ELSE command.batch
  OBVIOUS
<1>1. /\ command # Idle /\ command.plan = <<>> /\ command.phase = "reconcile"
      /\ UNCHANGED <<raw, disk, clock, edits, history, faults>> /\ f # Gone
  BY <1>f DEF ReconcileFile, Reconciling, InPhase
<1>2. command' = [command EXCEPT !.todo = @ \ {s}, !.batch = batch, !.plan = recovery \o outcome]
  BY <1>f, <1>now, <1>created, <1>renamed, <1>r, <1>stale, <1>awake, <1>same,
     <1>next, <1>process, <1>rewrites, <1>changed,
     <1>recovery, <1>outcome, <1>request, <1>batch DEF ReconcileFile
<1>3. /\ command \in CommandSet /\ PhaseOf(command) /\ NoActivationGuard
      /\ \A x \in command.jobs : ledger[x] \in Records
      /\ \A x \in command.batch : x \in Requests /\ Earned(x.source, x.record)
  BY <1>1, Paused DEF Working
<1>4. f \in Files /\ f.bytes \in Bytes /\ now \in Nat
  <2>1. command.seen[s] \in Files
    BY <1>1, <1>3 DEF PhaseOf
  <2>2. f \in Files
    BY <1>f, <2>1 DEF FileOf, Files
  <2> QED
    BY <1>1, <1>3, <1>now, <2>2, BoundsAreNaturals DEF Files, CommandSet
<1>5. r \in Records /\ Earned(s, r)
  <2>1. CASE created
    <3>1. r \in Records /\ ~r.active
      BY <1>1, <1>4, <1>r, <2>1, RecordsOfFiles
    <3> QED
      BY <3>1 DEF Earned
  <2>2. CASE ~created
    <3>1. ledger[s] \in Records /\ Earned(s, ledger[s])
      BY <1>3, <1>created, <2>2 DEF Inv, Typed, LedgerEarned, NoActivationGuard
    <3>2. r \in Records /\ r.content = ledger[s].content /\ r.active = ledger[s].active
      BY <1>1, <1>4, <1>r, <2>2, <3>1, RecordsOfFiles
    <3> QED
      BY <3>1, <3>2, EarnedStays
  <2> QED
    BY <2>1, <2>2
<1>6. awake \in Records /\ Earned(s, awake)
  <2>1. awake \in Records /\ awake.content = r.content /\ awake.active = r.active
    <3>1. RecoverStale(r, now) \in Records /\ RecoverStale(r, now).content = r.content
          /\ RecoverStale(r, now).active = r.active
      BY <1>4, <1>5, RecordsStay
    <3> QED
      BY <1>5, <1>awake, <3>1
  <2> QED
    BY <1>5, <2>1, EarnedStays
<1>7. next \in Records /\ Earned(s, next)
  <2>1. next \in Records /\ next.content = awake.content /\ next.active = awake.active
    <3>1. /\ RefreshMatchingBytes(awake, now) \in Records
          /\ RefreshMatchingBytes(awake, now).content = awake.content
          /\ RefreshMatchingBytes(awake, now).active = awake.active
          /\ MarkIntegrityError(awake, f.bytes, now) \in Records
          /\ MarkIntegrityError(awake, f.bytes, now).content = awake.content
          /\ MarkIntegrityError(awake, f.bytes, now).active = awake.active
      BY <1>4, <1>6, RecordsStay
    <3> QED
      BY <1>next, <3>1
  <2> QED
    BY <1>6, <2>1, EarnedStays
<1>8. Plain(recovery) /\ Plain(outcome)
  BY <1>6, <1>7, <1>recovery, <1>outcome, PlainSteps, PlainPublish
<1>plan. PICK plan : plan = recovery \o outcome
  OBVIOUS
<1>9. plan \in Seq(Steps) /\ PlanEarned(plan) /\ GuardCleared(plan)
  <2>1. Plain(plan)
    BY <1>8, <1>plan, PlainConcat
  <2> QED
    BY <1>3, <2>1, PlainEarned
<1>10. batch \in SUBSET Requests /\ \A x \in batch : Earned(x.source, x.record)
  <2>1. request \in Requests /\ request.source = s /\ request.record = next
    BY <1>7, <1>request DEF Requests
  <2> QED
    BY <1>3, <1>7, <1>batch, <2>1
<1>11. JobSaved(command.jobs, plan)
  BY <1>3, JobsKeepRecords
<1>12. command.todo \ {s} \in SUBSET Sources /\ command.jobs \in SUBSET Sources
  BY <1>3 DEF CommandSet
<1>13. command' = [command EXCEPT !.todo = command.todo \ {s}, !.batch = batch,
                                  !.jobs = command.jobs, !.plan = plan]
  BY <1>2, <1>3, <1>plan DEF CommandSet
<1> QED
  BY <1>1, <1>9, <1>10, <1>11, <1>12, <1>13, PlanKeeps

\* A source without its file: its record is recovered and marked missing.
LEMMA ReconcileAbsentKeeps ==
  ASSUME Inv, NEW s \in Sources, ReconcileAbsent(s)
  PROVE  Inv'
<1>r. PICK r : r = ledger[s]
  OBVIOUS
<1>stale. PICK stale \in BOOLEAN : stale = (r # NoRecord /\ r.state = "extracting")
  OBVIOUS
<1>awake. PICK awake : awake = IF stale THEN RecoverStale(r, command.at) ELSE r
  OBVIOUS
<1>recovery. PICK recovery : recovery = IF stale THEN <<Save(s, awake)>> ELSE <<>>
  OBVIOUS
<1>outcome. PICK outcome :
    outcome = IF r = NoRecord \/ MarkMissing(awake, command.at) = awake
              THEN <<>> ELSE <<Save(s, MarkMissing(awake, command.at))>>
  OBVIOUS
<1>plan. PICK plan : plan = recovery \o outcome
  OBVIOUS
<1>1. /\ command # Idle /\ command.plan = <<>> /\ command.phase = "reconcile"
      /\ UNCHANGED <<raw, disk, clock, edits, history, faults>>
  BY DEF ReconcileAbsent, BatchDone, FilesReconciled, InPhase
<1>2. command' = [command EXCEPT !.todo = @ \ {s}, !.plan = plan]
  BY <1>r, <1>stale, <1>awake, <1>recovery, <1>outcome, <1>plan DEF ReconcileAbsent
<1>3. /\ command \in CommandSet /\ NoActivationGuard
      /\ \A x \in command.jobs : ledger[x] \in Records
      /\ \A x \in command.batch : x \in Requests /\ Earned(x.source, x.record)
  BY <1>1, Paused DEF Working
<1>4. Plain(plan)
  <2>1. CASE r = NoRecord
    <3>1. recovery = <<>> /\ outcome = <<>>
      BY <1>stale, <1>recovery, <1>outcome, <2>1
    <3>2. plan = <<>>
      BY <1>plan, <3>1
    <3> QED
      BY <3>2 DEF Plain
  <2>2. CASE r # NoRecord
    <3>1. r \in Records /\ Earned(s, r) /\ command.at \in Nat
      BY <1>3, <1>r, <2>2, BoundsAreNaturals
         DEF Inv, Typed, LedgerEarned, NoActivationGuard, CommandSet
    <3>2. awake \in Records /\ Earned(s, awake)
      <4>1. RecoverStale(r, command.at) \in Records
            /\ RecoverStale(r, command.at).content = r.content
            /\ RecoverStale(r, command.at).active = r.active
        BY <3>1, RecordsStay
      <4>2. awake \in Records /\ awake.content = r.content /\ awake.active = r.active
        BY <1>awake, <3>1, <4>1
      <4> QED
        BY <3>1, <4>2, EarnedStays
    <3>3. MarkMissing(awake, command.at) \in Records /\ Earned(s, MarkMissing(awake, command.at))
      <4>1. MarkMissing(awake, command.at) \in Records
            /\ MarkMissing(awake, command.at).content = awake.content
            /\ MarkMissing(awake, command.at).active = awake.active
        BY <3>1, <3>2, RecordsStay
      <4> QED
        BY <3>2, <4>1, EarnedStays
    <3>4. Plain(recovery) /\ Plain(outcome)
      BY <1>recovery, <1>outcome, <3>2, <3>3, PlainSteps
    <3> QED
      BY <1>plan, <3>4, PlainConcat
  <2> QED
    BY <2>1, <2>2
<1>5. plan \in Seq(Steps) /\ PlanEarned(plan) /\ GuardCleared(plan)
  BY <1>3, <1>4, PlainEarned
<1>6. JobSaved(command.jobs, plan)
  BY <1>3, JobsKeepRecords
<1>7. /\ command.todo \ {s} \in SUBSET Sources /\ command.jobs \in SUBSET Sources
      /\ command.batch \in SUBSET Requests
  BY <1>3 DEF CommandSet
<1>8. command' = [command EXCEPT !.todo = command.todo \ {s}, !.batch = command.batch,
                                 !.jobs = command.jobs, !.plan = plan]
  BY <1>2, <1>3 DEF CommandSet
<1> QED
  BY <1>1, <1>3, <1>5, <1>6, <1>7, <1>8, PlanKeeps

\* A plan that checks the input before it goes on.
LEMMA CheckedPlan ==
  ASSUME NEW s \in Sources, NEW plan, Plain(plan)
  PROVE  /\ <<Check(s)>> \o plan \in Seq(Steps) /\ PlanEarned(<<Check(s)>> \o plan)
         /\ NoActivationGuard => GuardCleared(<<Check(s)>> \o plan)
         /\ Len(<<Check(s)>> \o plan) = Len(plan) + 1
         /\ \A i \in 1 .. Len(plan) : (<<Check(s)>> \o plan)[i + 1] = plan[i]
<1>q. PICK q : q = <<Check(s)>> \o plan
  OBVIOUS
<1>1. Check(s) \in Steps /\ Check(s).do = "check" /\ plan \in Seq(Steps) /\ Len(plan) \in Nat
  BY DEF Check, Steps, Plain
<1>2. /\ q \in Seq(Steps) /\ Len(q) = Len(plan) + 1 /\ q[1] = Check(s)
      /\ \A i \in 1 .. Len(plan) : q[i + 1] = plan[i]
  BY <1>1, <1>q
<1>3. \A i \in 1 .. Len(q) :
         /\ q[i].do \in {"check", "emit", "save", "commit"}
         /\ q[i].do = "save" => Earned(q[i].source, q[i].record)
  <2>1. ASSUME NEW i \in 1 .. Len(q)
        PROVE  i = 1 \/ (i - 1 \in 1 .. Len(plan) /\ q[i] = plan[i - 1])
    BY <1>1, <1>2
  <2>2. \A i \in 1 .. Len(plan) : PlainStep(plan[i])
    BY DEF Plain
  <2> QED
    BY <1>1, <1>2, <2>1, <2>2 DEF PlainStep
<1>4. PlanEarned(q)
  BY <1>3 DEF PlanEarned, SaveEarned, ClearEarned
<1>5. NoActivationGuard => GuardCleared(q)
  BY <1>3 DEF GuardCleared, NoActivationGuard
<1> QED
  BY <1>q, <1>2, <1>4, <1>5

\* An extraction starts with the record of its request, whose input is checked.
LEMMA StartJobKeeps ==
  ASSUME Inv, command # Idle, NEW request \in command.batch, StartJob(request)
  PROVE  Inv'
<1>s. PICK s : s = request.source
  OBVIOUS
<1>r. PICK r : r = ExtractingRecord(request.record, command.at)
  OBVIOUS
<1>rest. PICK rest : rest = Publish(s, r, request.rewrites)
  OBVIOUS
<1>plan. PICK plan : plan = <<Check(s)>> \o rest
  OBVIOUS
<1>1. /\ command.plan = <<>> /\ command.phase = "reconcile"
      /\ UNCHANGED <<raw, disk, clock, edits, history, faults>>
  BY DEF StartJob, FilesReconciled, InPhase
<1>2. command' = [command EXCEPT !.batch = @ \ {request}, !.jobs = @ \union {s}, !.plan = plan]
  BY <1>s, <1>r, <1>rest, <1>plan DEF StartJob
<1>3. /\ command \in CommandSet /\ NoActivationGuard
      /\ \A x \in command.jobs : ledger[x] \in Records
      /\ \A x \in command.batch : x \in Requests /\ Earned(x.source, x.record)
  BY <1>1, Paused DEF Working
<1>4. s \in Sources /\ request.record \in Records /\ request.rewrites \in BOOLEAN
      /\ command.at \in Nat /\ Earned(s, request.record)
  BY <1>3, <1>s, BoundsAreNaturals DEF Requests, CommandSet
<1>5. r \in Records /\ Earned(s, r)
  <2>1. r \in Records /\ r.content = request.record.content /\ r.active = request.record.active
    <3>1. ExtractingRecord(request.record, command.at) \in Records
          /\ ExtractingRecord(request.record, command.at).content = request.record.content
          /\ ExtractingRecord(request.record, command.at).active = request.record.active
      BY <1>4, RecordsStay
    <3> QED
      BY <1>r, <3>1
  <2> QED
    BY <1>4, <2>1, EarnedStays
<1>6. Plain(rest) /\ \E i \in 1 .. Len(rest) : rest[i].do = "save" /\ rest[i].source = s
  BY <1>4, <1>5, <1>rest, PlainPublish
<1>7. /\ plan \in Seq(Steps) /\ PlanEarned(plan) /\ GuardCleared(plan)
      /\ Len(plan) = Len(rest) + 1 /\ Len(rest) \in Nat
      /\ \A i \in 1 .. Len(rest) : plan[i + 1] = rest[i]
  BY <1>3, <1>4, <1>6, <1>plan, CheckedPlan DEF Plain
<1>jobs. PICK jobs : jobs = command.jobs \union {s}
  OBVIOUS
<1>8. JobSaved(jobs, plan)
  <2>1. PICK i \in 1 .. Len(rest) : rest[i].do = "save" /\ rest[i].source = s
    BY <1>6
  <2>2. i + 1 \in 1 .. Len(plan) /\ plan[i + 1].do = "save" /\ plan[i + 1].source = s
    BY <1>7, <2>1
  <2> QED
    BY <1>3, <1>jobs, <2>2 DEF JobSaved
<1>9. /\ command.todo \in SUBSET Sources /\ jobs \in SUBSET Sources
      /\ command.batch \ {request} \in SUBSET Requests
      /\ \A x \in command.batch \ {request} : Earned(x.source, x.record)
  BY <1>3, <1>4, <1>jobs DEF CommandSet
<1>10. command' = [command EXCEPT !.todo = command.todo, !.batch = command.batch \ {request},
                                  !.jobs = jobs, !.plan = plan]
  BY <1>2, <1>3, <1>jobs DEF CommandSet
<1> QED
  BY <1>1, <1>7, <1>8, <1>9, <1>10, PlanKeeps

\* The guarded save of a record, its check and the end of its guard, as the steps
\* k, ..., k + 3 of a plan that has no other guard.
Guarded(plan, k, s, r, final) ==
    /\ plan[k] = Guard(s, r, final) /\ plan[k + 1] = Save(s, final)
    /\ plan[k + 2] = Check(s) /\ plan[k + 3] = Clear(s, final)

\* A step is earned by the plan that leads to it.
LEMMA GuardedEarned ==
  ASSUME NEW plan, Len(plan) \in Nat, NEW k \in Nat \ {0}, k + 3 <= Len(plan),
         NEW s \in Sources, NEW r, NEW final, Guarded(plan, k, s, r, final),
         \A i \in 1 .. Len(plan) : i < k \/ i > k + 3 =>
             /\ plan[i].do \in {"emit", "check", "save", "commit"}
             /\ plan[i].do = "save" => Earned(plan[i].source, plan[i].record)
  PROVE  PlanEarned(plan) /\ (NoActivationGuard => GuardCleared(plan))
<1>1. /\ plan[k].do = "guard" /\ plan[k].source = s
      /\ plan[k + 1].do = "save" /\ plan[k + 1].source = s /\ plan[k + 1].record = final
      /\ plan[k + 2].do = "check" /\ plan[k + 2].source = s
      /\ plan[k + 3].do = "clear" /\ plan[k + 3].source = s /\ plan[k + 3].record = final
  BY DEF Guarded, Guard, Save, Check, Clear
<1>2. ASSUME NEW i \in 1 .. Len(plan)
      PROVE  i < k \/ i = k \/ i = k + 1 \/ i = k + 2 \/ i = k + 3 \/ i > k + 3
  OBVIOUS
<1>3. ASSUME NEW i \in 1 .. Len(plan)
      PROVE  SaveEarned(plan, i)
  <2>1. CASE i < k \/ i > k + 3
    BY <2>1 DEF SaveEarned
  <2>2. CASE i = k + 1
    <3>1. i > 1 /\ i - 1 = k
      BY <2>2
    <3> QED
      BY <1>1, <2>2, <3>1 DEF SaveEarned
  <2>3. CASE i = k \/ i = k + 2 \/ i = k + 3
    BY <1>1, <2>3 DEF SaveEarned
  <2> QED
    BY <1>2, <2>1, <2>2, <2>3
<1>4. ASSUME NEW i \in 1 .. Len(plan)
      PROVE  ClearEarned(plan, i)
  <2>1. CASE i < k \/ i > k + 3
    BY <2>1 DEF ClearEarned
  <2>2. CASE i = k + 3
    <3>1. i > 3 /\ i - 1 = k + 2 /\ i - 2 = k + 1 /\ i - 3 = k
      BY <2>2
    <3> QED
      BY <1>1, <2>2, <3>1 DEF ClearEarned
  <2>3. CASE i = k \/ i = k + 1 \/ i = k + 2
    BY <1>1, <2>3 DEF ClearEarned
  <2> QED
    BY <1>2, <2>1, <2>2, <2>3
<1>5. ASSUME NEW i \in 1 .. Len(plan), plan[i].do = "guard"
      PROVE  i = k
  BY <1>1, <1>2, <1>5
<1>6. NoActivationGuard => GuardCleared(plan)
  BY <1>1, <1>5 DEF GuardCleared, NoActivationGuard
<1> QED
  BY <1>3, <1>4, <1>6 DEF PlanEarned

\* The steps of two plans that are taken one after the other.
LEMMA ConcatSteps ==
  ASSUME NEW p \in Seq(Steps), NEW q \in Seq(Steps)
  PROVE  /\ p \o q \in Seq(Steps) /\ Len(p \o q) = Len(p) + Len(q)
         /\ \A i \in 1 .. Len(p) : (p \o q)[i] = p[i]
         /\ \A i \in 1 .. Len(q) : (p \o q)[Len(p) + i] = q[i]
OBVIOUS

\* The four steps of a guarded activation, and what they are made of.
LEMMA ActivationSteps ==
  ASSUME NEW s \in Sources, NEW r \in Records
  PROVE  LET final == Activated(r)
             four == <<Guard(s, r, final), Save(s, final), Check(s), Clear(s, final)>>
             e == Event("new_active_representation", s, final)
         IN /\ four \in Seq(Steps) /\ Len(four) = 4
            /\ four[1] = Guard(s, r, final) /\ four[2] = Save(s, final)
            /\ four[3] = Check(s) /\ four[4] = Clear(s, final)
            /\ <<Emit(e)>> \in Seq(Steps) /\ <<Commit(e)>> \in Seq(Steps)
            /\ <<Check(s)>> \in Seq(Steps)
            /\ Emit(e).do = "emit" /\ Commit(e).do = "commit" /\ Check(s).do = "check"
<1>f. PICK final : final = Activated(r)
  OBVIOUS
<1>e. PICK e : e = Event("new_active_representation", s, final)
  OBVIOUS
<1>1. final \in Records
  BY <1>f DEF Activated, Records, States, Attempts
<1>2. e \in EventSet
  BY <1>1, <1>e DEF Event, EventSet
<1>3. /\ Check(s) \in Steps /\ Check(s).do = "check"
      /\ Emit(e) \in Steps /\ Emit(e).do = "emit"
      /\ Commit(e) \in Steps /\ Commit(e).do = "commit"
      /\ Guard(s, r, final) \in Steps /\ Save(s, final) \in Steps /\ Clear(s, final) \in Steps
  BY <1>1, <1>2 DEF Check, Emit, Commit, Guard, Save, Clear, Steps
<1>4. \A w, x, y, z \in Steps :
         /\ <<w, x, y, z>> \in Seq(Steps) /\ Len(<<w, x, y, z>>) = 4
         /\ <<w, x, y, z>>[1] = w /\ <<w, x, y, z>>[2] = x
         /\ <<w, x, y, z>>[3] = y /\ <<w, x, y, z>>[4] = z
  OBVIOUS
<1>5. \A x \in Steps : <<x>> \in Seq(Steps)
  OBVIOUS
<1> QED
  BY <1>f, <1>e, <1>3, <1>4, <1>5

\* The plan of a sync's activation.
LEMMA SyncActivation ==
  ASSUME NEW s \in Sources, NEW r \in Records
  PROVE  LET plan == <<Check(s)>> \o Activation(s, r, TRUE)
         IN plan \in Seq(Steps) /\ PlanEarned(plan) /\ (NoActivationGuard => GuardCleared(plan))
<1>f. PICK final : final = Activated(r)
  OBVIOUS
<1>e. PICK e : e = Event("new_active_representation", s, final)
  OBVIOUS
<1>four. PICK four : four = <<Guard(s, r, final), Save(s, final), Check(s), Clear(s, final)>>
  OBVIOUS
<1>check. PICK check : check = <<Check(s)>>
  OBVIOUS
<1>emit. PICK emit : emit = <<Emit(e)>>
  OBVIOUS
<1>commit. PICK commit : commit = <<Commit(e)>>
  OBVIOUS
<1>1. /\ four \in Seq(Steps) /\ Len(four) = 4
      /\ four[1] = Guard(s, r, final) /\ four[2] = Save(s, final)
      /\ four[3] = Check(s) /\ four[4] = Clear(s, final)
      /\ check \in Seq(Steps) /\ emit \in Seq(Steps) /\ commit \in Seq(Steps)
      /\ Emit(e).do = "emit" /\ Commit(e).do = "commit" /\ Check(s).do = "check"
  BY <1>f, <1>e, <1>four, <1>check, <1>emit, <1>commit, ActivationSteps
<1>2. /\ Len(check) = 1 /\ check[1] = Check(s) /\ Len(emit) = 1 /\ emit[1] = Emit(e)
      /\ Len(commit) = 1 /\ commit[1] = Commit(e)
  BY <1>check, <1>emit, <1>commit
<1>five. PICK five : five = emit \o four
  OBVIOUS
<1>3. five \in Seq(Steps) /\ Len(five) = 5 /\ five[1] = Emit(e)
      /\ five[2] = four[1] /\ five[3] = four[2] /\ five[4] = four[3] /\ five[5] = four[4]
  <2>1. emit \in Seq(Steps) /\ four \in Seq(Steps)
    BY <1>1, <1>2
  <2>2. /\ five \in Seq(Steps) /\ Len(five) = Len(emit) + Len(four)
        /\ \A i \in 1 .. Len(emit) : five[i] = emit[i]
        /\ \A i \in 1 .. Len(four) : five[Len(emit) + i] = four[i]
    BY <1>five, <2>1, ConcatSteps
  <2>3. five[1] = emit[1] /\ five[1 + 1] = four[1] /\ five[1 + 2] = four[2]
        /\ five[1 + 3] = four[3] /\ five[1 + 4] = four[4]
    BY <1>1, <1>2, <2>2
  <2> QED
    BY <1>1, <1>2, <2>2, <2>3
<1>six. PICK six : six = five \o commit
  OBVIOUS
<1>4. six \in Seq(Steps) /\ Len(six) = 6 /\ six[6] = Commit(e)
      /\ \A i \in 1 .. 5 : six[i] = five[i]
  <2>1. five \in Seq(Steps) /\ commit \in Seq(Steps)
    BY <1>1, <1>2, <1>3
  <2>2. /\ six \in Seq(Steps) /\ Len(six) = Len(five) + Len(commit)
        /\ \A i \in 1 .. Len(five) : six[i] = five[i]
        /\ \A i \in 1 .. Len(commit) : six[Len(five) + i] = commit[i]
    BY <1>six, <2>1, ConcatSteps
  <2>3. six[5 + 1] = commit[1]
    BY <1>1, <1>2, <1>3, <2>2
  <2> QED
    BY <1>1, <1>2, <1>3, <2>2, <2>3
<1>p. PICK p : p = check \o six
  OBVIOUS
<1>5. p \in Seq(Steps) /\ Len(p) = 7 /\ p[1] = Check(s)
      /\ p[2] = six[1] /\ p[3] = six[2] /\ p[4] = six[3]
      /\ p[5] = six[4] /\ p[6] = six[5] /\ p[7] = six[6]
  <2>1. check \in Seq(Steps) /\ six \in Seq(Steps)
    BY <1>1, <1>2, <1>4
  <2>2. /\ p \in Seq(Steps) /\ Len(p) = Len(check) + Len(six)
        /\ \A i \in 1 .. Len(check) : p[i] = check[i]
        /\ \A i \in 1 .. Len(six) : p[Len(check) + i] = six[i]
    BY <1>p, <2>1, ConcatSteps
  <2>3. p[1] = check[1] /\ p[1 + 1] = six[1] /\ p[1 + 2] = six[2] /\ p[1 + 3] = six[3]
        /\ p[1 + 4] = six[4] /\ p[1 + 5] = six[5] /\ p[1 + 6] = six[6]
    BY <1>1, <1>2, <1>4, <2>2
  <2> QED
    BY <1>1, <1>2, <1>4, <2>2, <2>3
<1>6. /\ p[2] = Emit(e) /\ p[3] = Guard(s, r, final)
      /\ p[4] = Save(s, final) /\ p[5] = Check(s) /\ p[6] = Clear(s, final) /\ p[7] = Commit(e)
  BY <1>1, <1>3, <1>4, <1>5
<1>7. Guarded(p, 3, s, r, final)
  BY <1>6 DEF Guarded
<1>8. \A i \in 1 .. Len(p) : i < 3 \/ i > 3 + 3 =>
          /\ p[i].do \in {"emit", "check", "save", "commit"}
          /\ p[i].do = "save" => Earned(p[i].source, p[i].record)
  <2>1. \A i \in 1 .. Len(p) : i < 3 \/ i > 3 + 3 => i = 1 \/ i = 2 \/ i = 7
    BY <1>5
  <2> QED
    BY <1>1, <1>5, <1>6, <2>1
<1>9. PlanEarned(p) /\ (NoActivationGuard => GuardCleared(p))
  <2>1. 3 \in Nat \ {0} /\ Len(p) \in Nat /\ 3 + 3 <= Len(p)
    BY <1>5
  <2> QED
    BY <1>7, <1>8, <2>1, GuardedEarned
<1>10. p = <<Check(s)>> \o Activation(s, r, TRUE)
  <2>1. Activation(s, r, TRUE) = six
    BY <1>f, <1>e, <1>four, <1>emit, <1>commit, <1>five, <1>six DEF Activation
  <2> QED
    BY <1>check, <1>p, <2>1
<1> QED
  BY <1>5, <1>9, <1>10

\* A result comes back: a derivation is activated under a guard, a handoff saved.
LEMMA JobDoneKeeps ==
  ASSUME Inv, NEW s \in Sources, NEW activates \in BOOLEAN, JobDone(s, activates)
  PROVE  Inv'
<1>h. PICK handed : handed = <<Check(s)>> \o <<Save(s, HandedOff(ledger[s]))>>
  OBVIOUS
<1>a. PICK activation : activation = <<Check(s)>> \o Activation(s, ledger[s], TRUE)
  OBVIOUS
<1>plan. PICK plan : plan = IF activates THEN activation ELSE handed
  OBVIOUS
<1>jobs. PICK jobs : jobs = command.jobs \ {s}
  OBVIOUS
<1>1. /\ command # Idle /\ command.plan = <<>> /\ command.phase = "reconcile"
      /\ UNCHANGED <<raw, disk, clock, edits, history, faults>> /\ s \in command.jobs
  BY DEF JobDone, FilesReconciled, InPhase
<1>2. command' = [command EXCEPT !.jobs = jobs, !.plan = plan]
  BY <1>h, <1>a, <1>plan, <1>jobs DEF JobDone
<1>3. /\ command \in CommandSet /\ NoActivationGuard
      /\ \A x \in command.jobs : ledger[x] \in Records
      /\ \A x \in command.batch : x \in Requests /\ Earned(x.source, x.record)
  BY <1>1, Paused DEF Working
<1>4. ledger[s] \in Records /\ Earned(s, ledger[s])
  BY <1>1, <1>3 DEF Inv, LedgerEarned, NoActivationGuard
<1>5. activation \in Seq(Steps) /\ PlanEarned(activation) /\ GuardCleared(activation)
  BY <1>3, <1>4, <1>a, SyncActivation
<1>6. handed \in Seq(Steps) /\ PlanEarned(handed) /\ GuardCleared(handed)
  <2>1. HandedOff(ledger[s]) \in Records /\ Earned(s, HandedOff(ledger[s]))
    <3>1. HandedOff(ledger[s]) \in Records /\ HandedOff(ledger[s]).content = ledger[s].content
          /\ HandedOff(ledger[s]).active = ledger[s].active
      BY <1>4 DEF HandedOff, Records, States, Attempts
    <3> QED
      BY <1>4, <3>1, EarnedStays
  <2>2. Plain(<<Save(s, HandedOff(ledger[s]))>>)
    BY <2>1, PlainSteps
  <2> QED
    BY <1>3, <1>h, <2>2, CheckedPlan
<1>7. plan \in Seq(Steps) /\ PlanEarned(plan) /\ GuardCleared(plan)
  BY <1>5, <1>6, <1>plan
<1>8. JobSaved(jobs, plan)
  BY <1>3, <1>jobs, JobsKeepRecords
<1>9. /\ command.todo \in SUBSET Sources /\ jobs \in SUBSET Sources
      /\ command.batch \in SUBSET Requests
  BY <1>3, <1>jobs DEF CommandSet
<1>10. command' = [command EXCEPT !.todo = command.todo, !.batch = command.batch,
                                  !.jobs = jobs, !.plan = plan]
  BY <1>2, <1>3 DEF CommandSet
<1> QED
  BY <1>1, <1>3, <1>7, <1>8, <1>9, <1>10, PlanKeeps

\* The plan of register-extraction: the record is saved before its guard is set.
LEMMA RegisterActivation ==
  ASSUME NEW s \in Sources, NEW r \in Records, Earned(s, r)
  PROVE  LET plan == <<Save(s, r)>> \o Activation(s, r, FALSE)
         IN /\ plan \in Seq(Steps) /\ PlanEarned(plan)
            /\ \A i \in 1 .. Len(plan) : plan[i].do \notin {"emit", "commit"}
<1>f. PICK final : final = Activated(r)
  OBVIOUS
<1>four. PICK four : four = <<Guard(s, r, final), Save(s, final), Check(s), Clear(s, final)>>
  OBVIOUS
<1>1. /\ four \in Seq(Steps) /\ Len(four) = 4
      /\ four[1] = Guard(s, r, final) /\ four[2] = Save(s, final)
      /\ four[3] = Check(s) /\ four[4] = Clear(s, final)
  BY <1>f, <1>four, ActivationSteps
<1>one. PICK one : one = <<Save(s, r)>>
  OBVIOUS
<1>2. /\ one \in Seq(Steps) /\ Len(one) = 1 /\ one[1] = Save(s, r)
      /\ <<>> \in Seq(Steps) /\ Len(<<>>) = 0
  <2>1. Save(s, r) \in Steps
    BY DEF Save, Steps
  <2> QED
    BY <1>one, <2>1
<1>left. PICK left : left = <<>> \o four
  OBVIOUS
<1>3. left \in Seq(Steps) /\ Len(left) = 4 /\ \A i \in 1 .. 4 : left[i] = four[i]
  BY <1>1, <1>2, <1>left, ConcatSteps
<1>both. PICK both : both = left \o <<>>
  OBVIOUS
<1>4. both \in Seq(Steps) /\ Len(both) = 4 /\ \A i \in 1 .. 4 : both[i] = four[i]
  BY <1>2, <1>3, <1>both, ConcatSteps
<1>p. PICK p : p = one \o both
  OBVIOUS
<1>5. p \in Seq(Steps) /\ Len(p) = 5 /\ p[1] = Save(s, r)
      /\ p[2] = both[1] /\ p[3] = both[2] /\ p[4] = both[3] /\ p[5] = both[4]
  <2>1. /\ p \in Seq(Steps) /\ Len(p) = 1 + 4
        /\ \A i \in 1 .. 1 : p[i] = one[i]
        /\ \A i \in 1 .. 4 : p[1 + i] = both[i]
    BY <1>2, <1>4, <1>p, ConcatSteps
  <2>2. p[1] = one[1] /\ p[1 + 1] = both[1] /\ p[1 + 2] = both[2] /\ p[1 + 3] = both[3]
        /\ p[1 + 4] = both[4]
    BY <2>1
  <2> QED
    BY <1>2, <2>1, <2>2
<1>6. /\ p[2] = Guard(s, r, final) /\ p[3] = Save(s, final)
      /\ p[4] = Check(s) /\ p[5] = Clear(s, final)
  BY <1>1, <1>4, <1>5
<1>7. Guarded(p, 2, s, r, final)
  BY <1>6 DEF Guarded
<1>8. \A i \in 1 .. Len(p) : i < 2 \/ i > 2 + 3 =>
          /\ p[i].do \in {"emit", "check", "save", "commit"}
          /\ p[i].do = "save" => Earned(p[i].source, p[i].record)
  <2>1. \A i \in 1 .. Len(p) : i < 2 \/ i > 2 + 3 => i = 1
    BY <1>5
  <2>2. p[1].do = "save" /\ p[1].source = s /\ p[1].record = r
    BY <1>5 DEF Save
  <2> QED
    BY <2>1, <2>2
<1>9. PlanEarned(p)
  <2>1. 2 \in Nat \ {0} /\ Len(p) \in Nat /\ 2 + 3 <= Len(p)
    BY <1>5
  <2> QED
    BY <1>7, <1>8, <2>1, GuardedEarned
<1>10. \A i \in 1 .. Len(p) : p[i].do \notin {"emit", "commit"}
  <2>1. \A i \in 1 .. Len(p) : i = 1 \/ i = 2 \/ i = 3 \/ i = 4 \/ i = 5
    BY <1>5
  <2> QED
    BY <1>5, <1>6, <2>1 DEF Guard, Save, Check, Clear
<1>11. p = <<Save(s, r)>> \o Activation(s, r, FALSE)
  <2>1. Activation(s, r, FALSE) = both
    BY <1>f, <1>four, <1>left, <1>both DEF Activation
  <2> QED
    BY <1>one, <1>p, <2>1
<1> QED
  BY <1>5, <1>9, <1>10, <1>11

\* register-extraction plans the activation of the item that it loaded.
LEMMA RegisterKeeps ==
  ASSUME Inv, Register
  PROVE  Inv'
<1>1. /\ command # Idle /\ command.plan = <<>> /\ command.phase = "recover"
      /\ command.op = "register" /\ NoActivationGuard
      /\ UNCHANGED <<raw, disk, clock, edits, history>> /\ faults' \in 0 .. MaxFaults
  BY DEF Register, InPhase, Inv, Typed, TypeOK
<1>2. command \in CommandSet /\ PhaseOf(command) /\ PlanOf(command)
  BY <1>1, Paused
<1>s. PICK s : s = command.target.source
  OBVIOUS
<1>r. PICK r : r = ExtractingRecord(ledger[s], command.at)
  OBVIOUS
<1>plan. PICK plan : plan = <<Save(s, r)>> \o Activation(s, r, FALSE)
  OBVIOUS
<1>c. PICK c : c = [command EXCEPT !.phase = "finish", !.plan = plan]
  OBVIOUS
<1>3. CASE ~MayRegister(command.target)
  <2>1. command' = Idle
    BY <1>3 DEF Register
  <2> QED
    BY <1>1, <2>1, EndsKeep
<1>4. CASE MayRegister(command.target)
  <2>1. command' = c
    BY <1>4, <1>s, <1>r, <1>plan, <1>c DEF Register
  <2>2. s \in Sources /\ ledger[s] \in Records /\ Earned(s, ledger[s]) /\ command.at \in Nat
    <3>1. s \in Sources
      BY <1>1, <1>2, <1>s DEF PhaseOf, Items
    <3>2. ledger[s] \in Records
      BY <1>4, <1>s, <3>1 DEF MayRegister, NeedsAgent, Inv, Typed
    <3>3. Earned(s, ledger[s])
      BY <1>1, <3>1, <3>2 DEF Inv, LedgerEarned, NoActivationGuard
    <3> QED
      BY <1>2, <3>1, <3>2, <3>3, BoundsAreNaturals DEF CommandSet
  <2>3. r \in Records /\ Earned(s, r)
    <3>1. r \in Records /\ r.content = ledger[s].content /\ r.active = ledger[s].active
      BY <1>r, <2>2 DEF ExtractingRecord, Records, States, Attempts
    <3> QED
      BY <2>2, <3>1, EarnedStays
  <2>4. /\ plan \in Seq(Steps) /\ PlanEarned(plan)
        /\ \A i \in 1 .. Len(plan) : plan[i].do \notin {"emit", "commit"}
    BY <1>plan, <2>2, <2>3, RegisterActivation
  <2>5. c \in CommandSet
    BY <1>2, <1>c, <2>4 DEF CommandSet, Phases
  <2>6. c.plan = plan /\ c.batch = command.batch /\ c.phase = "finish"
        /\ c.op = command.op /\ c.name = command.name /\ c.target = command.target
    BY <1>2, <1>c DEF CommandSet
  <2>7. PhaseOf(c)
    BY <1>1, <1>2, <2>6 DEF PhaseOf, Working
  <2>8. PlanOf(c)
    BY <1>1, <1>2, <2>4, <2>6 DEF PlanOf, Working
  <2> QED
    BY <1>1, <2>1, <2>5, <2>7, <2>8, MemoryKeeps
<1> QED
  BY <1>3, <1>4

\* A handoff is only announced.
LEMMA ObserveKeeps ==
  ASSUME Inv, NEW s \in Sources, Observe(s)
  PROVE  Inv'
<1>plan. PICK plan : plan = <<Emit(Event("handoff_source_id", s, ledger[s]))>>
  OBVIOUS
<1>todo. PICK todo : todo = command.todo \ {s}
  OBVIOUS
<1>c. PICK c : c = [command EXCEPT !.todo = todo, !.plan = plan]
  OBVIOUS
<1>1. /\ command # Idle /\ command.plan = <<>> /\ command.phase = "observe" /\ s \in command.todo
      /\ UNCHANGED <<raw, disk, clock, edits, history>> /\ faults' \in 0 .. MaxFaults
  BY DEF Observe, InPhase, Inv, Typed, TypeOK
<1>2. command \in CommandSet /\ PhaseOf(command) /\ PlanOf(command) /\ NoActivationGuard
  BY <1>1, Paused DEF Working
<1>3. command' = c
  BY <1>2, <1>plan, <1>todo, <1>c DEF Observe, CommandSet
<1>4. ledger[s] \in Records
  BY <1>1, <1>2 DEF PhaseOf
<1>5. plan \in Seq(Steps) /\ PlanEarned(plan) /\ GuardCleared(plan)
  <2>1. Plain(plan)
    BY <1>4, <1>plan, PlainSteps
  <2> QED
    BY <1>2, <2>1, PlainEarned
<1>6. c \in CommandSet
  BY <1>2, <1>c, <1>todo, <1>5 DEF CommandSet
<1>7. c.plan = plan /\ c.batch = command.batch /\ c.phase = "observe" /\ c.todo \subseteq command.todo
      /\ c.op = command.op /\ c.name = command.name /\ c.target = command.target
  BY <1>1, <1>2, <1>c, <1>todo DEF CommandSet
<1>8. PhaseOf(c)
  BY <1>1, <1>2, <1>7 DEF PhaseOf, Working
<1>9. PlanOf(c)
  BY <1>1, <1>2, <1>5, <1>7 DEF PlanOf
<1> QED
  BY <1>1, <1>3, <1>6, <1>8, <1>9, MemoryKeeps

-----------------------------------------------------------------------------
(* The theorems.                                                           *)

\* The invariant holds initially.
LEMMA InitHolds ==
  ASSUME Init
  PROVE  Inv
<1>1. TypeOK
  BY BoundsAreNaturals DEF Init, TypeOK
<1>2. Typed
  BY <1>1 DEF Init, Typed
<1>3. PhaseHolds /\ PlanHolds
  BY DEF Init, PhaseHolds, PlanHolds, PhaseOf, PlanOf
<1>4. LedgerEarned
  <2>1. ASSUME NEW s \in Sources, ledger[s] \in Records
        PROVE  Earned(s, ledger[s])
    <3>1. ledger[s] = NoRecord
      BY DEF Init
    <3> QED
      BY <2>1, <3>1, NoRecordIsNone DEF Records
  <2> QED
    BY <2>1 DEF LedgerEarned
<1> QED
  BY <1>2, <1>3, <1>4 DEF Inv

\* Every step keeps the invariant.
LEMMA NextKeeps ==
  ASSUME Inv, [Next]_vars
  PROVE  Inv'
<1>1. CASE UNCHANGED vars
  <2>1. UNCHANGED <<raw, disk, command, clock, faults, edits, history>>
    BY <1>1 DEF vars
  <2>2. command \in CommandSet \union {Idle} /\ PhaseOf(command) /\ PlanOf(command)
        /\ faults' \in 0 .. MaxFaults
    BY <2>1 DEF Inv, Typed, TypeOK, PhaseHolds, PlanHolds
  <2> PICK c : c = command
    OBVIOUS
  <2>3. c \in CommandSet \union {Idle} /\ PhaseOf(c) /\ PlanOf(c) /\ command' = c
    BY <2>1, <2>2
  <2> QED
    BY <2>1, <2>2, <2>3, MemoryKeeps
<1>2. CASE PlanStep
  BY <1>2, PlanStepKeeps, FailuresKeep DEF PlanStep
<1>3. CASE SyncStep
  <2>1. CASE OpenPending \/ OpenStaged \/ OpenNew \/ WriteHeader \/ OpenResumed
    BY <2>1, OpenPendingKeeps, OpenStagedKeeps, OpenNewKeeps, WriteHeaderKeeps, OpenResumedKeeps
  <2>2. CASE Refuse \/ \E s \in Sources : ReconcileFails(s)
    <3>1. command' = Idle /\ UNCHANGED <<raw, disk, clock, edits, history>>
          /\ faults' \in 0 .. MaxFaults
      BY <2>2 DEF Refuse, ReconcileFails, Inv, Typed, TypeOK
    <3> QED
      BY <3>1, EndsKeep
  <2>3. CASE HashUnmatched \/ Reconciled \/ PublishHandoffs \/ Stage \/ Finalize \/ SavePending
             \/ Register
    BY <2>3, HashUnmatchedKeeps, ReconciledKeeps, PublishHandoffsKeeps, StageKeeps,
       FinalizeKeeps, SavePendingKeeps, RegisterKeeps
  <2>4. ASSUME NEW s \in Sources,
               RecoverGuard(s) \/ ReconcileAbsent(s) \/ ReconcileFile(s)
                  \/ ReconcileUnverified(s) \/ Observe(s)
        PROVE  Inv'
    BY <2>4, RecoverGuardKeeps, ReconcileAbsentKeeps, ReconcileFileKeeps,
       ReconcileUnverifiedKeeps, ObserveKeeps
  <2>5. ASSUME NEW s \in Sources, NEW activates \in BOOLEAN, JobDone(s, activates)
        PROVE  Inv'
    BY <2>5, JobDoneKeeps
  <2>6. ASSUME command # Idle, NEW request \in command.batch, StartJob(request)
        PROVE  Inv'
    BY <2>6, StartJobKeeps
  <2> QED
    BY <1>3, <2>1, <2>2, <2>3, <2>4, <2>5, <2>6 DEF SyncStep
<1>4. CASE SpoolStep
  <2>1. CASE DropRefused
    <3>1. command' = Idle /\ UNCHANGED <<raw, disk, clock, edits, history>>
          /\ faults' \in 0 .. MaxFaults
      BY <2>1 DEF DropRefused, Inv, Typed, TypeOK
    <3> QED
      BY <3>1, EndsKeep
  <2> QED
    BY <1>4, <2>1, DropJournalKeeps, DropStagedKeeps, AcknowledgeKeeps, DropPendingKeeps
       DEF SpoolStep
<1>5. CASE StepFails \/ Stop
  BY <1>5, FailuresKeep, StopKeeps
<1>6. ASSUME NEW name \in Commands, StartSync(name)
      PROVE  Inv'
  BY <1>6, StartSyncKeeps
<1>7. ASSUME NEW m \in manifests, Consume(m) \/ StartAcknowledge(m) \/ StartReacknowledge(m)
      PROVE  Inv'
  BY <1>7, ConsumeKeeps, StartAcknowledgeKeeps, StartReacknowledgeKeeps
<1>8. ASSUME NEW s \in Sources, Adopt(s) \/ Edit(s)
      PROVE  Inv'
  BY <1>8, AdoptKeeps, EditKeeps
<1>9. ASSUME NEW item \in Items, StartRegister(item)
      PROVE  Inv'
  BY <1>9, StartRegisterKeeps
<1> QED
  BY <1>1, <1>2, <1>3, <1>4, <1>5, <1>6, <1>7, <1>8, <1>9 DEF Next

\* An active record without a guard is earned.
LEMMA InvProves ==
  ASSUME Inv
  PROVE  TypeOK /\ ActiveIsProved
<1>1. TypeOK
  BY DEF Inv, Typed
<1>2. ASSUME NEW s \in Sources, ledger[s] # NoRecord, ledger[s].active, guard[s] = NoGuard
      PROVE  \E p \in proved : p[1] = s /\ p[2].content = ledger[s].content
  <2>1. ledger[s] \in Records
    BY <1>1, <1>2 DEF TypeOK
  <2>2. Earned(s, ledger[s])
    BY <1>2, <2>1 DEF Inv, LedgerEarned
  <2> QED
    BY <1>2, <2>2 DEF Earned
<1> QED
  BY <1>1, <1>2 DEF ActiveIsProved

\* Whatever crashes, failing calls and edits there are, what the commands leave on
\* disk is well formed: records, guards and journals are what the next command
\* can read, and pending, acknowledged and consumed results are manifests.
THEOREM TypeCorrect == Spec => []TypeOK
<1>1. Spec => []Inv
  BY InitHolds, NextKeeps, PTL DEF Spec
<1>2. Inv => TypeOK
  BY InvProves
<1> QED
  BY <1>1, <1>2, PTL

\* No command, crash, failed check or rollback leaves an active derivation whose
\* input was not revalidated, unless its guard stands beside it: for any number
\* of sources, extractions under way, faults and edits.
THEOREM ActiveProved == Spec => []ActiveIsProved
<1>1. Spec => []Inv
  BY InitHolds, NextKeeps, PTL DEF Spec
<1>2. Inv => ActiveIsProved
  BY InvProves
<1> QED
  BY <1>1, <1>2, PTL
=============================================================================
