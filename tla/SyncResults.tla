----------------------------- MODULE SyncResults -----------------------------
(***************************************************************************)
(* init and sync, source adopt-version and register-extraction, source     *)
(* consume-sync-result and acknowledge-sync-result: the ledger shards,     *)
(* their activation guards, the in-flight journal, the staged and pending  *)
(* results, the manifests, the consumption receipts and the                *)
(* acknowledgement.  Every command holds the source write lock (module     *)
(* SourceLock), so one runs at a time; it takes one durable step per       *)
(* action and may stop after any of them.                                  *)
(***************************************************************************)
EXTENDS SourceRecords, Selections, FiniteSets

CONSTANTS
    Sources,        \* source IDs
    Commands,       \* "init", "sync"
    Workers,        \* extractions a batch has under way
    NoGuard, NoJournal, NoResult, Idle,
    Litter,         \* a temporary name a crash has left among the handoffs
    MaxTime,        \* bound: commands that take a fresh timestamp
    MaxFaults,      \* bound: crashes and failing system calls
    MaxEdits,       \* bound: changes of raw files
    MayTear,        \* a crash may fall between creating the journal and its header
    Obedient        \* adopt and register run only when every result is acknowledged

ASSUME BoundsAreNaturals ==
    /\ MaxTime \in Nat /\ MaxFaults \in Nat /\ MaxEdits \in Nat
    /\ Workers \in Nat \ {0}
    /\ MayTear \in BOOLEAN /\ Obedient \in BOOLEAN

ASSUME NoGuardIsNone == NoGuard \notin [before : Records, after : Records]

VARIABLES
    raw,            \* sources/raw: the file of each source
    ledger,         \* sources/ledger/<id>.json
    guard,          \* sources/ledger/<id>.activation-pending
    journal,        \* inflight.jsonl
    staged,         \* staged.json
    manifests,      \* sync_<sha256>.jsonl, content-addressed
    pending,        \* pending.json
    receipts,       \* consumed_<id>.json
    acknowledged,   \* acknowledged.json
    handoffs,       \* sources/ledger/handoffs: the items of its manifests
    command,        \* the command that holds the lock, and its memory
    clock, faults, edits,
    committed,      \* history: events whose commit frame was written
    taken,          \* history: results whose pending pointer was removed
    proved          \* history: activations whose input was revalidated

disk == <<ledger, guard, journal, staged, manifests, pending, receipts, acknowledged, handoffs>>
history == <<committed, taken, proved>>
vars == <<raw, disk, command, clock, faults, edits, history>>

-----------------------------------------------------------------------------
(* Events, journals and results.                                           *)

EventSet ==
    [kind : {"new_active_representation", "citation_rewrite", "handoff_source_id"},
     source : Sources, record : Records]

FrameSet == [frame : {"event", "commit"}, event : EventSet]

Journals ==
    [command : Commands, at : 0 .. MaxTime, header : BOOLEAN, log : Seq(FrameSet)]

Corpora == [Sources -> {<<>>} \union (Bytes \X BOOLEAN)]

Staged ==
    [command : Commands, at : 0 .. MaxTime, corpus : Corpora,
     checkpoint : [Sources -> Records \union {NoRecord}], log : Seq(FrameSet)]

Results ==
    [command : Commands, at : 0 .. MaxTime, corpus : Corpora, events : Seq(FrameSet)]

ASSUME NoResultIsNone == NoResult \notin Results \union Staged

ASSUME NoJournalIsNone == NoJournal \notin Journals

Event(kind, s, r) == [kind |-> kind, source |-> s, record |-> r]

\* Coupled to a shard checkpoint by prepare and commit frames.
ShardCoupled(e) == e.kind \in {"new_active_representation", "citation_rewrite"}

Prepared(e) == [frame |-> "event", event |-> e]
Committed(e) == [frame |-> "commit", event |-> e]
Frames(log) == {log[i] : i \in DOMAIN log}

Events(m) == {m.events[i].event : i \in DOMAIN m.events}
EffectsOf(m) == {e \in Events(m) : ShardCoupled(e)}

CorpusRevision == [s \in Sources |-> CorpusRow(ledger[s])]

NoActivationGuard == \A s \in Sources : guard[s] = NoGuard

\* _event_checkpoint_is_current
IsCurrent(e) == ledger[e.source] = e.record

\* Mutant: every prepared event is kept, its commit frame or record unseen.
KeptPrepared(f, log) == f.frame = "event"

\* Mutant: a committed event is dropped once its record has changed again.
KeptCurrent(f, log) == f.frame = "event" /\ IsCurrent(f.event)

\* Mutant: an event without a commit frame is dropped, current or not.
KeptCommitted(f, log) ==
    /\ f.frame = "event"
    /\ IF ShardCoupled(f.event) THEN Committed(f.event) \in Frames(log) ELSE IsCurrent(f.event)

\* What finalize keeps: committed shard-coupled events, and the events whose
\* record the ledger still holds.
Kept(f, log) ==
    /\ f.frame = "event"
    /\ \/ IsCurrent(f.event)
       \/ ShardCoupled(f.event) /\ Committed(f.event) \in Frames(log)

Manifest(name, at, corpus, log) ==
    [command |-> name, at |-> at, corpus |-> corpus,
     events |-> SelectIn(log, {f \in Frames(log) : Kept(f, log)})]

-----------------------------------------------------------------------------
(* The durable steps a command still has to take, in order.                *)

Emit(e) == [do |-> "emit", event |-> e]
Save(s, r) == [do |-> "save", source |-> s, record |-> r]
Commit(e) == [do |-> "commit", event |-> e]
Guard(s, before, after) == [do |-> "guard", source |-> s, before |-> before, after |-> after]
Check(s) == [do |-> "check", source |-> s]
Clear(s, r) == [do |-> "clear", source |-> s, record |-> r]

\* reconcile_inventory's publish(): a renamed record carries its rewrite.
Publish(s, r, rewrites) ==
    IF rewrites
    THEN LET e == Event("citation_rewrite", s, r) IN <<Emit(e), Save(s, r), Commit(e)>>
    ELSE <<Save(s, r)>>

\* Mutant: the guard is cleared before the input has been revalidated.
ActivationClearedEarly(s, extracting, emits) ==
    LET final == Activated(extracting)
        e == Event("new_active_representation", s, final)
    IN (IF emits THEN <<Emit(e)>> ELSE <<>>)
       \o <<Guard(s, extracting, final), Save(s, final), Clear(s, final), Check(s)>>
       \o (IF emits THEN <<Commit(e)>> ELSE <<>>)

\* The guarded activation of _process_record and of register-extraction.
Activation(s, extracting, emits) ==
    LET final == Activated(extracting)
        e == Event("new_active_representation", s, final)
    IN (IF emits THEN <<Emit(e)>> ELSE <<>>)
       \o <<Guard(s, extracting, final), Save(s, final), Check(s), Clear(s, final)>>
       \o (IF emits THEN <<Commit(e)>> ELSE <<>>)

Restore(s) ==
    LET r == Rollback(guard[s].before) IN <<Save(s, r), Clear(s, r)>>

-----------------------------------------------------------------------------
(* Work items for agents.  An item has the digest of its fields as its ID.  *)

Items == [source : Sources, content : Bytes, path : Paths]

Item(s, r) == [source |-> s, content |-> r.content, path |-> r.path]

\* load_handoff_item: every entry of the directory has to be a manifest.
Loads(item) == item \in handoffs /\ Litter \notin handoffs

NeedsAgent(s) == ledger[s] # NoRecord /\ ledger[s].state = "needs_agent"

\* collect_durable_handoffs
DurableItems == {Item(s, ledger[s]) : s \in {t \in Sources : NeedsAgent(t)}}

-----------------------------------------------------------------------------
TypeOK ==
    /\ raw \in [Sources -> Files]
    /\ \A s \in Sources : ledger[s] \in Records \union {NoRecord}
    /\ \A s \in Sources : guard[s] # NoGuard =>
          guard[s].before \in Records /\ guard[s].after \in Records
    /\ journal # NoJournal => journal.command \in Commands /\ journal.at \in 0 .. MaxTime
    /\ staged # NoResult => staged.command \in Commands /\ staged.at \in 0 .. MaxTime
    /\ pending \in manifests \union {NoResult}
    /\ acknowledged \in manifests \union {NoResult}
    /\ receipts \subseteq manifests
    /\ handoffs \subseteq Items \union {Litter}
    /\ taken \subseteq receipts
    /\ clock \in 0 .. MaxTime /\ faults \in 0 .. MaxFaults /\ edits \in 0 .. MaxEdits

Init ==
    /\ raw \in [Sources -> Files]
    /\ ledger = [s \in Sources |-> NoRecord]
    /\ guard = [s \in Sources |-> NoGuard]
    /\ journal = NoJournal /\ staged = NoResult /\ manifests = {}
    /\ pending = NoResult /\ receipts = {} /\ acknowledged = NoResult
    /\ handoffs = {}
    /\ command = Idle
    /\ clock = 0 /\ faults = 0 /\ edits = 0
    /\ committed = {} /\ taken = {} /\ proved = {}

Running(op, phase) == command # Idle /\ command.op = op /\ command.phase = phase
InPhase(phase) == command # Idle /\ command.phase = phase /\ command.plan = <<>>

Publishing == InPhase("observe") /\ command.todo = {}

NewCommand(op, name, phase, todo, target) ==
    [op |-> op, name |-> name, phase |-> phase, plan |-> <<>>, todo |-> todo,
     batch |-> {}, jobs |-> {}, seen |-> <<>>, at |-> 0, resumed |-> FALSE, target |-> target]

\* Take the head of the plan; a command ends with its last step.
Advance ==
    command' = IF Len(command.plan) = 1 /\ command.phase \in {"finish", "failing"}
               THEN Idle
               ELSE [command EXCEPT !.plan = Tail(@)]

NextIs(kind) == command # Idle /\ command.plan # <<>> /\ Head(command.plan).do = kind

-----------------------------------------------------------------------------
(* One durable step of a running command.                                  *)

\* Mutant: a resumed writer appends what its predecessor already prepared.
EmitAgain ==
    /\ NextIs("emit")
    /\ journal' = [journal EXCEPT !.log = Append(@, Prepared(Head(command.plan).event))]
    /\ Advance
    /\ UNCHANGED <<raw, ledger, guard, staged, manifests, pending, receipts,
                   acknowledged, handoffs, clock, faults, edits, history>>

\* Only a resumed writer looks for the event before it appends it.
EmitStep ==
    /\ NextIs("emit")
    /\ LET frame == Prepared(Head(command.plan).event)
       IN journal' = IF command.resumed /\ frame \in Frames(journal.log)
                     THEN journal
                     ELSE [journal EXCEPT !.log = Append(@, frame)]
    /\ Advance
    /\ UNCHANGED <<raw, ledger, guard, staged, manifests, pending, receipts,
                   acknowledged, handoffs, clock, faults, edits, history>>

CommitStep ==
    /\ NextIs("commit")
    /\ LET frame == Committed(Head(command.plan).event)
       IN journal' = IF frame \in Frames(journal.log)
                     THEN journal
                     ELSE [journal EXCEPT !.log = Append(@, frame)]
    /\ committed' = committed \union {Head(command.plan).event}
    /\ Advance
    /\ UNCHANGED <<raw, ledger, guard, staged, manifests, pending, receipts,
                   acknowledged, handoffs, clock, faults, edits, taken, proved>>

SaveStep ==
    /\ NextIs("save")
    /\ LET step == Head(command.plan)
       IN ledger' = [ledger EXCEPT ![step.source] = step.record]
    /\ Advance
    /\ UNCHANGED <<raw, guard, journal, staged, manifests, pending, receipts,
                   acknowledged, handoffs, clock, faults, edits, history>>

GuardStep ==
    /\ NextIs("guard")
    /\ LET step == Head(command.plan)
       IN guard' = [guard EXCEPT ![step.source] =
                       [before |-> step.before, after |-> step.after]]
    /\ Advance
    /\ UNCHANGED <<raw, ledger, journal, staged, manifests, pending, receipts,
                   acknowledged, handoffs, clock, faults, edits, history>>

\* use_stable_file: the raw file is still the one the inventory saw.
Stable(s) == command.op = "sync" => raw[s] = command.seen[s]

CheckStep ==
    /\ NextIs("check")
    /\ LET s == Head(command.plan).source
       IN /\ Stable(s)
          /\ proved' = IF guard[s] = NoGuard THEN proved
                       ELSE proved \union {<<s, ledger[s]>>}
    /\ Advance
    /\ UNCHANGED <<raw, disk, clock, faults, edits, committed, taken>>

ClearStep ==
    /\ NextIs("clear")
    /\ LET step == Head(command.plan)
       IN /\ ledger[step.source] = step.record
          /\ guard' = [guard EXCEPT ![step.source] = NoGuard]
    /\ Advance
    /\ UNCHANGED <<raw, ledger, journal, staged, manifests, pending, receipts,
                   acknowledged, handoffs, clock, faults, edits, history>>

\* The exception handlers of _process_record: an activation whose guard stands
\* is rolled back, any other failure just ends the command.
Unwind ==
    command' = IF \E s \in Sources : guard[s] # NoGuard
               THEN [command EXCEPT !.phase = "failing",
                        !.plan = Restore(CHOOSE s \in Sources : guard[s] # NoGuard)]
               ELSE Idle

CheckFails ==
    /\ NextIs("check")
    /\ ~Stable(Head(command.plan).source)
    /\ Unwind
    /\ UNCHANGED <<raw, disk, clock, faults, edits, history>>

\* A failing call while an activation is under way: before or after its save.
StepFails ==
    /\ faults < MaxFaults
    /\ NextIs("save") \/ NextIs("check")
    /\ command.phase \in {"reconcile", "finish"}
    /\ \E s \in Sources : guard[s] # NoGuard
    /\ Unwind
    /\ faults' = faults + 1
    /\ UNCHANGED <<raw, disk, clock, edits, history>>

\* A crash, or an error nothing rolls back: memory is lost, the disk stays. A
\* manifest of handoffs is linked to its name before its temporary name is removed.
Stop ==
    /\ command # Idle
    /\ faults < MaxFaults
    /\ command.phase = "header" => MayTear
    /\ command' = Idle
    /\ faults' = faults + 1
    /\ \/ UNCHANGED handoffs
       \/ /\ Publishing /\ DurableItems # {}
          /\ \E linked \in {{}, DurableItems} : handoffs' = handoffs \union linked \union {Litter}
    /\ UNCHANGED <<raw, ledger, guard, journal, staged, manifests, pending, receipts,
                   acknowledged, clock, edits, history>>

-----------------------------------------------------------------------------
(* init and sync.                                                          *)

StartSync(name) ==
    /\ command = Idle
    /\ pending = NoResult /\ staged = NoResult /\ journal = NoJournal => clock < MaxTime
    /\ command' = NewCommand("sync", name, "recover", Sources, NoResult)
    /\ UNCHANGED <<raw, disk, clock, faults, edits, history>>

\* Mutant: recovery knows only the record from before the activation.
RecoverGuardBefore(s) ==
    /\ InPhase("recover")
    /\ guard[s] # NoGuard
    /\ ledger[s] = guard[s].before
    /\ command' = [command EXCEPT !.plan = Restore(s)]
    /\ UNCHANGED <<raw, disk, clock, faults, edits, history>>

\* recover_activation_guards; init, sync and register-extraction start with it.
RecoverGuard(s) ==
    /\ InPhase("recover")
    /\ guard[s] # NoGuard
    /\ ledger[s] \in {guard[s].before, Rollback(guard[s].before), guard[s].after}
    /\ command' = [command EXCEPT !.plan = Restore(s)]
    /\ UNCHANGED <<raw, disk, clock, faults, edits, history>>

Opening == InPhase("recover") /\ NoActivationGuard /\ command.op = "sync"

\* A pending result is completed and returned again.
OpenPending ==
    /\ Opening /\ pending # NoResult
    /\ pending.command = command.name
    /\ pending.corpus = CorpusRevision
    /\ command' = [command EXCEPT !.phase = "drop_journal", !.target = pending]
    /\ UNCHANGED <<raw, disk, clock, faults, edits, history>>

\* Mutant: the staged result is taken up whatever the ledger holds by now.
StagedWithoutCheckpoint ==
    staged.command = command.name /\ journal # NoJournal /\ journal.log = staged.log

StagedIsCurrent ==
    /\ staged.command = command.name
    /\ staged.checkpoint = ledger
    /\ journal # NoJournal
    /\ journal.log = staged.log

OpenStaged ==
    /\ Opening /\ pending = NoResult /\ staged # NoResult
    /\ StagedIsCurrent
    /\ command' = [command EXCEPT !.phase = "finalize"]
    /\ UNCHANGED <<raw, disk, clock, faults, edits, history>>

Unspooled == pending = NoResult /\ staged = NoResult

\* O_EXCL creation of the journal; its header is a write of its own.
OpenNew ==
    /\ Opening /\ Unspooled /\ journal = NoJournal
    /\ clock' = clock + 1
    /\ journal' = [command |-> command.name, at |-> clock', header |-> FALSE, log |-> <<>>]
    /\ command' = [command EXCEPT !.phase = "header", !.seen = raw, !.at = clock']
    /\ UNCHANGED <<raw, ledger, guard, staged, manifests, pending, receipts,
                   acknowledged, handoffs, faults, edits, history>>

WriteHeader ==
    /\ InPhase("header")
    /\ journal' = [journal EXCEPT !.header = TRUE]
    /\ command' = [command EXCEPT !.phase = "hash"]
    /\ UNCHANGED <<raw, ledger, guard, staged, manifests, pending, receipts,
                   acknowledged, handoffs, clock, faults, edits, history>>

\* The resumed run keeps the timestamp of the run that died.
OpenResumed ==
    /\ Opening /\ Unspooled /\ journal # NoJournal
    /\ journal.header /\ journal.command = command.name
    /\ command' = [command EXCEPT !.phase = "hash", !.seen = raw,
                                  !.at = journal.at, !.resumed = TRUE]
    /\ UNCHANGED <<raw, disk, clock, faults, edits, history>>

Refused ==
    \/ /\ pending # NoResult
       /\ pending.command # command.name \/ pending.corpus # CorpusRevision
    \/ pending = NoResult /\ staged # NoResult /\ ~StagedIsCurrent
    \/ /\ Unspooled /\ journal # NoJournal
       /\ ~journal.header \/ journal.command # command.name

Refuse ==
    /\ Opening /\ Refused
    /\ command' = Idle
    /\ UNCHANGED <<raw, disk, clock, faults, edits, history>>

Unmatched(s) ==
    /\ command.seen[s] # Gone
    /\ ledger[s] # NoRecord => ledger[s].path # command.seen[s].path

\* Files at paths no record has are hashed first; one that changed since the
\* inventory is left out.
HashUnmatched ==
    /\ InPhase("hash")
    /\ command' = [command EXCEPT !.phase = "reconcile",
          !.seen = [s \in Sources |->
              IF Unmatched(s) /\ raw[s] # @[s] THEN Gone ELSE @[s]]]
    /\ UNCHANGED <<raw, disk, clock, faults, edits, history>>

\* The file reconcile takes for the source's: one both moved and changed is a
\* new source of its own.
FileOf(s) ==
    LET f == command.seen[s] r == ledger[s]
    IN IF f # Gone /\ r # NoRecord /\ f.path # r.path /\ f.bytes # r.content
       THEN Gone ELSE f

Reconciling(s) == InPhase("reconcile") /\ s \in command.todo

\* A file in its place is hashed again only if something about it is new.
Verified(s) ==
    LET f == FileOf(s) r == ledger[s]
    IN ~Unmatched(s) /\ (f.bytes # r.content \/ ContinuityBroken(r)) => raw[s] = f

ReconcileUnverified(s) ==
    /\ Reconciling(s)
    /\ FileOf(s) # Gone /\ ~Verified(s)
    /\ command' = [command EXCEPT !.todo = @ \ {s}]
    /\ UNCHANGED <<raw, disk, clock, faults, edits, history>>

\* Sources with a file come first, then the extractions, then the missing.
ReconcileFile(s) ==
    /\ Reconciling(s)
    /\ FileOf(s) # Gone /\ Verified(s)
    /\ ledger[s] # NoRecord => ~Collides(ledger[s])
    /\ LET f == FileOf(s)
           now == command.at
           created == ledger[s] = NoRecord
           renamed == ~created /\ ledger[s].path # f.path
           r == IF created THEN NewRecord(f, now)
                ELSE IF renamed THEN RenameRecord(ledger[s], f, now) ELSE ledger[s]
           stale == r.state = "extracting"
           awake == IF stale THEN RecoverStale(r, now) ELSE r
           same == f.bytes = r.content
           next == IF same THEN RefreshMatchingBytes(awake, now)
                   ELSE MarkIntegrityError(awake, f.bytes, now)
           process == same /\ MustProcess(next)
           rewrites == renamed /\ ~stale
           changed == next # awake \/ ((created \/ renamed) /\ ~stale)
       IN command' = [command EXCEPT !.todo = @ \ {s},
              !.batch = IF process
                        THEN @ \union {[source |-> s, record |-> next, rewrites |-> rewrites]}
                        ELSE @,
              !.plan = (IF stale THEN Publish(s, awake, renamed) ELSE <<>>)
                       \o (IF ~process /\ changed THEN Publish(s, next, rewrites) ELSE <<>>)]
    /\ UNCHANGED <<raw, disk, clock, faults, edits, history>>

FilesReconciled == InPhase("reconcile") /\ \A s \in command.todo : FileOf(s) = Gone

\* staged_jobs: a free worker takes the next request of the batch.
StartJob(request) ==
    /\ FilesReconciled
    /\ request \in command.batch
    /\ Cardinality(command.jobs) < Workers
    /\ command' = [command EXCEPT !.batch = @ \ {request},
          !.jobs = @ \union {request.source},
          !.plan = <<Check(request.source)>>
                   \o Publish(request.source, ExtractingRecord(request.record, command.at),
                              request.rewrites)]
    /\ UNCHANGED <<raw, disk, clock, faults, edits, history>>

\* A worker's result comes back, in any order, as a derivation or a handoff;
\* iter_batch waits for one only when no further job can start.
JobDone(s, activates) ==
    /\ FilesReconciled
    /\ s \in command.jobs
    /\ Cardinality(command.jobs) = Workers \/ command.batch = {}
    /\ command' = [command EXCEPT !.jobs = @ \ {s},
          !.plan = <<Check(s)>> \o
                   (IF activates THEN Activation(s, ledger[s], TRUE)
                    ELSE <<Save(s, HandedOff(ledger[s]))>>)]
    /\ UNCHANGED <<raw, disk, clock, faults, edits, history>>

BatchDone == FilesReconciled /\ command.batch = {} /\ command.jobs = {}

ReconcileAbsent(s) ==
    /\ BatchDone /\ s \in command.todo
    /\ ledger[s] # NoRecord => ~Collides(ledger[s])
    /\ LET r == ledger[s]
           stale == r # NoRecord /\ r.state = "extracting"
           awake == IF stale THEN RecoverStale(r, command.at) ELSE r
       IN command' = [command EXCEPT !.todo = @ \ {s},
              !.plan = (IF stale THEN <<Save(s, awake)>> ELSE <<>>)
                       \o (IF r = NoRecord \/ MarkMissing(awake, command.at) = awake
                           THEN <<>> ELSE <<Save(s, MarkMissing(awake, command.at))>>)]
    /\ UNCHANGED <<raw, disk, clock, faults, edits, history>>

\* recover_stale_extraction raises and the command fails.
ReconcileFails(s) ==
    /\ Reconciling(s) /\ (IF FileOf(s) = Gone THEN BatchDone ELSE Verified(s))
    /\ ledger[s] # NoRecord /\ Collides(ledger[s])
    /\ command' = Idle
    /\ UNCHANGED <<raw, disk, clock, faults, edits, history>>

Reconciled ==
    /\ BatchDone /\ command.todo = {}
    /\ command' = [command EXCEPT !.phase = "observe",
          !.todo = {s \in Sources : NeedsAgent(s)}]
    /\ UNCHANGED <<raw, disk, clock, faults, edits, history>>

Observe(s) ==
    /\ InPhase("observe") /\ s \in command.todo
    /\ command' = [command EXCEPT !.todo = @ \ {s},
                      !.plan = <<Emit(Event("handoff_source_id", s, ledger[s]))>>]
    /\ UNCHANGED <<raw, disk, clock, faults, edits, history>>

\* Mutant: a resumed run takes its predecessor's items for published.
PublishOnce ==
    /\ Publishing
    /\ handoffs' = IF command.resumed THEN handoffs ELSE handoffs \union DurableItems
    /\ command' = [command EXCEPT !.phase = "published"]
    /\ UNCHANGED <<raw, ledger, guard, journal, staged, manifests, pending, receipts,
                   acknowledged, clock, faults, edits, history>>

\* publish_handoff_data: one manifest of all items, also of those that an earlier
\* attempt left.
PublishHandoffs ==
    /\ Publishing
    /\ handoffs' = handoffs \union DurableItems
    /\ command' = [command EXCEPT !.phase = "published"]
    /\ UNCHANGED <<raw, ledger, guard, journal, staged, manifests, pending, receipts,
                   acknowledged, clock, faults, edits, history>>

Stage ==
    /\ InPhase("published")
    /\ NoActivationGuard
    /\ staged' = [command |-> command.name, at |-> journal.at, corpus |-> CorpusRevision,
                  checkpoint |-> ledger, log |-> journal.log]
    /\ command' = [command EXCEPT !.phase = "finalize"]
    /\ UNCHANGED <<raw, ledger, guard, journal, manifests, pending, receipts,
                   acknowledged, handoffs, clock, faults, edits, history>>

\* Mutant: the manifest is named but never linked to its name.
FinalizeUnlinked ==
    /\ InPhase("finalize")
    /\ command' = [command EXCEPT !.phase = "save_pending",
          !.target = Manifest(journal.command, journal.at, staged.corpus, journal.log)]
    /\ UNCHANGED <<raw, disk, clock, faults, edits, history>>

Finalize ==
    /\ InPhase("finalize")
    /\ LET m == Manifest(journal.command, journal.at, staged.corpus, journal.log)
       IN /\ manifests' = manifests \union {m}
          /\ command' = [command EXCEPT !.phase = "save_pending", !.target = m]
    /\ UNCHANGED <<raw, ledger, guard, journal, staged, pending, receipts,
                   acknowledged, handoffs, clock, faults, edits, history>>

SavePending ==
    /\ InPhase("save_pending")
    /\ pending' = command.target
    /\ command' = [command EXCEPT !.phase = "drop_journal"]
    /\ UNCHANGED <<raw, ledger, guard, journal, staged, manifests, receipts,
                   acknowledged, handoffs, clock, faults, edits, history>>

-----------------------------------------------------------------------------
(* complete_inflight: the journal goes first, then the staged result.      *)

\* Mutant: whatever is staged is taken to belong to the result.
MayCompleteAny(m) == staged # NoResult => staged.checkpoint = ledger

\* Mutant: a completion interrupted between its two removals is not finished.
MayCompleteOnce(m) ==
    staged # NoResult =>
        /\ staged.checkpoint = ledger
        /\ staged.command = m.command /\ staged.at = m.at /\ staged.corpus = m.corpus
        /\ journal # NoJournal
        /\ journal.header /\ journal.log = staged.log

MayComplete(m) ==
    /\ staged # NoResult =>
          /\ staged.checkpoint = ledger
          /\ staged.command = m.command /\ staged.at = m.at /\ staged.corpus = m.corpus
    /\ journal # NoJournal => journal.header
    /\ staged # NoResult /\ journal # NoJournal =>
          /\ journal.command = staged.command /\ journal.at = staged.at
          /\ journal.log = staged.log

DropJournal ==
    /\ InPhase("drop_journal")
    /\ MayComplete(command.target)
    /\ journal' = NoJournal
    /\ command' = [command EXCEPT !.phase = "drop_staged"]
    /\ UNCHANGED <<raw, ledger, guard, staged, manifests, pending, receipts,
                   acknowledged, handoffs, clock, faults, edits, history>>

DropRefused ==
    /\ InPhase("drop_journal")
    /\ ~MayComplete(command.target)
    /\ command' = Idle
    /\ UNCHANGED <<raw, disk, clock, faults, edits, history>>

DropStaged ==
    /\ InPhase("drop_staged")
    /\ staged' = NoResult
    /\ command' = IF command.op = "acknowledge"
                  THEN [command EXCEPT !.phase = "acknowledge"] ELSE Idle
    /\ UNCHANGED <<raw, ledger, guard, journal, manifests, pending, receipts,
                   acknowledged, handoffs, clock, faults, edits, history>>

-----------------------------------------------------------------------------
(* consume-sync-result and acknowledge-sync-result.                        *)

Handoffs(m) == {e \in Events(m) : e.kind = "handoff_source_id"}

\* The items of a result, as its delivery has them.
Deliverable(m) == \A e \in Handoffs(m) : Loads(Item(e.source, e.record))

\* A result with handoffs is delivered only while its sources are current.
DeliveryIsCurrent(m) ==
    Handoffs(m) # {} =>
        /\ NoActivationGuard /\ m.corpus = CorpusRevision
        /\ \A e \in Handoffs(m) : IsCurrent(e)
        /\ Deliverable(m)

\* _handoff_sources refuses a source that is named twice.
NamedOnce(m) ==
    \A i, j \in DOMAIN m.events :
        m.events[i].event.kind = "handoff_source_id" /\ m.events[i].event = m.events[j].event => i = j

Consume(m) ==
    /\ command = Idle
    /\ pending = m
    /\ NamedOnce(m) /\ DeliveryIsCurrent(m)
    /\ receipts' = receipts \union {m}
    /\ UNCHANGED <<raw, ledger, guard, journal, staged, manifests, pending,
                   acknowledged, handoffs, command, clock, faults, edits, history>>

StartAcknowledge(m) ==
    /\ command = Idle
    /\ pending = m
    /\ m \in receipts /\ DeliveryIsCurrent(m)
    /\ staged # NoResult => NoActivationGuard
    /\ command' = NewCommand("acknowledge", "none",
                     IF staged # NoResult THEN "drop_journal" ELSE "acknowledge", {}, m)
    /\ UNCHANGED <<raw, disk, clock, faults, edits, history>>

\* The last acknowledged ID again: nothing to do but to finish a completion.
StartReacknowledge(m) ==
    /\ command = Idle
    /\ pending # m /\ acknowledged = m /\ m \in receipts /\ Deliverable(m)
    /\ staged # NoResult /\ NoActivationGuard
    /\ command' = NewCommand("reacknowledge", "none", "drop_journal", {}, m)
    /\ UNCHANGED <<raw, disk, clock, faults, edits, history>>

\* clear_pending records the acknowledgement before it removes the pointer.
Acknowledge ==
    /\ InPhase("acknowledge")
    /\ acknowledged' = command.target
    /\ command' = [command EXCEPT !.phase = "drop_pending"]
    /\ UNCHANGED <<raw, ledger, guard, journal, staged, manifests, pending, receipts, handoffs,
                   clock, faults, edits, history>>

DropPending ==
    /\ InPhase("drop_pending")
    /\ pending' = NoResult
    /\ taken' = taken \union {command.target}
    /\ command' = Idle
    /\ UNCHANGED <<raw, ledger, guard, journal, staged, manifests, receipts,
                   acknowledged, handoffs, clock, faults, edits, committed, proved>>

-----------------------------------------------------------------------------
(* adopt-version and register-extraction.                                  *)

AllAcknowledged == pending = NoResult /\ staged = NoResult /\ journal = NoJournal

\* The archives and the summary aside, one save.
Adopt(s) ==
    /\ command = Idle
    /\ Obedient => AllAcknowledged
    /\ clock < MaxTime
    /\ NoActivationGuard
    /\ ledger[s] # NoRecord /\ ledger[s].state = "integrity_error"
    /\ raw[s] # Gone /\ raw[s].path = ledger[s].path
    /\ raw[s].bytes \notin ledger[s].versions
    /\ clock' = clock + 1
    /\ ledger' = [ledger EXCEPT ![s] = AdoptVersion(@, raw[s], clock')]
    /\ UNCHANGED <<raw, guard, journal, staged, manifests, pending, receipts,
                   acknowledged, handoffs, command, faults, edits, history>>

StartRegister(item) ==
    /\ command = Idle
    /\ Obedient => AllAcknowledged
    /\ clock < MaxTime
    /\ Loads(item)
    /\ clock' = clock + 1
    /\ command' = [NewCommand("register", "none", "recover", {}, item) EXCEPT !.at = clock']
    /\ UNCHANGED <<raw, disk, faults, edits, history>>

\* require_current_recipe; a registration that is repeated finds its derivation
\* active and changes nothing.
MayRegister(item) ==
    NeedsAgent(item.source) /\ Item(item.source, ledger[item.source]) = item

Register ==
    /\ InPhase("recover") /\ NoActivationGuard /\ command.op = "register"
    /\ LET s == command.target.source
       IN command' =
             IF ~MayRegister(command.target) THEN Idle
             ELSE LET r == ExtractingRecord(ledger[s], command.at)
                  IN [command EXCEPT !.phase = "finish",
                         !.plan = <<Save(s, r)>> \o Activation(s, r, FALSE)]
    /\ UNCHANGED <<raw, disk, clock, faults, edits, history>>

\* People move, change, remove and restore raw files at any time.
Edit(s) ==
    /\ edits < MaxEdits
    /\ \E f \in Files \ {raw[s]} : raw' = [raw EXCEPT ![s] = f]
    /\ edits' = edits + 1
    /\ UNCHANGED <<disk, command, clock, faults, history>>

-----------------------------------------------------------------------------
PlanStep == EmitStep \/ CommitStep \/ SaveStep \/ GuardStep \/ CheckStep \/ ClearStep \/ CheckFails

SyncStep ==
    \/ OpenPending \/ OpenStaged \/ OpenNew \/ WriteHeader \/ OpenResumed \/ Refuse
    \/ HashUnmatched \/ Reconciled \/ PublishHandoffs \/ Stage \/ Finalize \/ SavePending
    \/ Register
    \/ \E s \in Sources :
          \/ RecoverGuard(s) \/ ReconcileAbsent(s) \/ ReconcileFile(s)
          \/ ReconcileUnverified(s) \/ ReconcileFails(s) \/ Observe(s)
          \/ \E activates \in BOOLEAN : JobDone(s, activates)
    \/ command # Idle /\ \E request \in command.batch : StartJob(request)

SpoolStep == DropJournal \/ DropRefused \/ DropStaged \/ Acknowledge \/ DropPending

Next ==
    \/ PlanStep \/ SyncStep \/ SpoolStep \/ StepFails \/ Stop
    \/ \E name \in Commands : StartSync(name)
    \/ \E m \in manifests : Consume(m) \/ StartAcknowledge(m) \/ StartReacknowledge(m)
    \/ \E s \in Sources : Adopt(s) \/ Edit(s)
    \/ \E item \in Items : StartRegister(item)

Spec == Init /\ [][Next]_vars

-----------------------------------------------------------------------------
(* Fairness: a running command goes on until it ends, and the client keeps *)
(* retrying each command it is waiting for.                                *)

Fairness ==
    /\ WF_vars(PlanStep \/ SyncStep \/ SpoolStep)
    /\ \A name \in Commands : SF_vars(StartSync(name))
    /\ SF_vars(\E m \in manifests : Consume(m))
    /\ SF_vars(\E m \in manifests : StartAcknowledge(m))

FairSpec == Spec /\ Fairness

-----------------------------------------------------------------------------
(* Properties.                                                             *)

\* A consumer is told of a new active representation only if the raw input
\* was revalidated after the activating save: a crash, a rollback or a failed
\* check between the prepared event and its commit frame never lets the
\* announcement into a manifest (_process_record, _existing_event, finalize).
AnnouncedWasActive ==
    \A m \in manifests : \A e \in Events(m) :
        e.kind = "new_active_representation" => <<e.source, e.record>> \in proved

\* Without a guard beside it, an active derivation in the ledger is one whose
\* input was revalidated: every unproved activation stays under its guard until
\* the next command has rolled it back (ActivationGuard, recover_activation_guards).
ActiveIsProved ==
    \A s \in Sources :
        ledger[s] # NoRecord /\ ledger[s].active /\ guard[s] = NoGuard =>
            \E p \in proved : p[1] = s /\ p[2].content = ledger[s].content

\* At most one manifest is waiting for its acknowledgement, and it is not
\* replaced by another before that: finalize runs once for a journal however
\* often it is interrupted and resumed (load_staged, clear_pending).
OneOutstandingResult ==
    \A m, n \in manifests \ taken : m = n

\* A manifest has no event twice, and announces no representation and hands
\* over no source twice, even as different records of it: a resumed run finds
\* what its predecessor prepared, and drops what it did again (_existing_event,
\* _event_checkpoint_is_current; consumers see events without their record).
EveryEventOnce ==
    \A m \in manifests : \A i, j \in DOMAIN m.events :
        LET e == m.events[i].event f == m.events[j].event
        IN i # j =>
              /\ e # f
              /\ e.kind = f.kind /\ e.source = f.source /\ e.kind # "citation_rewrite" =>
                    e.record.content # f.record.content

\* When every result is acknowledged, each active derivation has been announced,
\* or the client was handed the source to derive it: a crash between the cleared
\* guard and the commit frame loses no announcement (_finalize_recoverable). It
\* holds while nobody touches the raw files in between.
ActiveIsAnnounced ==
    command = Idle /\ AllAcknowledged /\ NoActivationGuard =>
        \A s \in Sources : ledger[s] # NoRecord /\ ledger[s].active =>
            \E m \in taken : \E e \in Events(m) :
                /\ e.kind # "citation_rewrite"
                /\ e.source = s /\ e.record.content = ledger[s].content

Delivered == UNION {EffectsOf(m) : m \in taken}
Owed == committed \ Delivered

Delivery == INSTANCE ResultDelivery WITH owed <- Owed, offered <- pending

\* The spool keeps the delivery promise: a committed representation or rewrite
\* is in exactly one result, and stays owed until that result is acknowledged.
ImplementsResultDelivery == Delivery!Spec

\* Every source a result hands over has its work item in the directory, however
\* often the run was interrupted and by whichever attempt the item was left
\* (publish_handoff_data before save_staged).
HandoffsAreDurable ==
    \A m \in manifests : \A e \in Handoffs(m) : Item(e.source, e.record) \in handoffs

\* A crash in publish_handoff_data leaves a temporary name among the manifests,
\* and load_handoff_item refuses the directory from then on.
Undeliverable == pending # NoResult /\ Handoffs(pending) # {} /\ Litter \in handoffs

\* What has been committed is eventually acknowledged, with a crash or a
\* failing call anywhere, when the client keeps running its commands; except for
\* a result with handoffs after a crash among their manifests.
OwedDelivered == Owed # {} ~> Owed = {} \/ Undeliverable

Extracting(s) == ledger[s] # NoRecord /\ ledger[s].state = "extracting"

\* An extraction a sync was interrupted in is retried by a later one: the source
\* does not stay in the state extracting for ever (recover_stale_extraction).
InterruptedRetried ==
    \A s \in Sources : Extracting(s) /\ journal # NoJournal ~> ~Extracting(s)

\* An interrupted journal is recovered: a later sync turns it into a pending
\* result (recover, _validate_inflight_file).
JournalAnswered == journal # NoJournal ~> pending # NoResult
=============================================================================
