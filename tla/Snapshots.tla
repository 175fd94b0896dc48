----------------------------- MODULE Snapshots -----------------------------
(***************************************************************************)
(* source snapshot-url: one approved capture of a page, from the network   *)
(* or from a file a browser rendered, becomes a retained version of a URL  *)
(* source, a derivation and one result.  Before the last checkpoint of its *)
(* ledger record the command writes down what it is about to return, the   *)
(* continuation; a later command with the same arguments finishes exactly  *)
(* that, or refuses, and captures nothing.                                 *)
(*                                                                         *)
(* The record of the one URL source stands for the ledger: no other source *)
(* is written while a continuation stands.  The in-flight journal, the     *)
(* staged and the pending result are those of module SyncResults, as this  *)
(* command uses them.  Commands hold the source write lock (module         *)
(* SourceLock), so one runs at a time; it may stop after any durable step. *)
(***************************************************************************)
EXTENDS Integers, Selections

CONSTANTS
    Bodies,         \* bytes a capture may return
    Shells,         \* those that need a browser to show anything
    Unsupported,    \* those no extractor takes
    Urls,           \* the URL the descriptor may hold
    Requests,       \* [event, scope, rendered]: an approval and the form of capture
    NoBody, NoRecord, NoGuard, NoJournal, NoResult, NoPlan, NoEvent, Idle,
    MaxTime,        \* bound: captures
    MaxFaults,      \* bound: crashes and failing system calls
    MaxEdits        \* bound: damaged evidence and edited descriptors

ASSUME BoundsAreNaturals == MaxTime \in Nat /\ MaxFaults \in Nat /\ MaxEdits \in Nat
ASSUME KindsOfBodies ==
    Shells \subseteq Bodies /\ Unsupported \subseteq Bodies /\ NoBody \notin Bodies

VARIABLES
    url,            \* what the descriptor holds
    ledger,         \* the source's record
    guard,          \* its activation guard
    archive,        \* sources/raw/_web/<source>/<sha256>/...
    output,         \* the extracted representation of each version
    journal,        \* inflight.jsonl
    staged, manifests, pending, receipts, acknowledged,
    continuation,   \* the snapshot continuation
    command,        \* the command that holds the lock, and its memory
    clock, faults, edits,
    planned,        \* history: continuations that were saved
    proved,         \* history: records whose evidence was read after their checkpoint
    intact          \* history: the evidence was whole since the command began

evidence == <<archive, output>>
spool == <<journal, staged, manifests, pending, receipts, acknowledged>>
bounds == <<clock, faults, edits>>
vars == <<url, ledger, guard, evidence, spool, continuation, command, bounds,
          planned, proved, intact>>

-----------------------------------------------------------------------------
(* The record.  A record value stands for its canonical bytes.             *)

Identities == [request : Requests, url : Urls]
Captures == [body : Bodies, identity : Identities, at : 1 .. MaxTime]
States == {"awaiting_approval", "pending", "extracting", "ok", "needs_agent",
           "failed", "unsupported"}

Records ==
    [url : Urls, captures : SUBSET Captures, content : Bodies \union {NoBody},
     active : BOOLEAN, derived : SUBSET Bodies, state : States, at : 0 .. MaxTime]

ASSUME NoRecordIsNone == NoRecord \notin Records

Guards == [before : Records, rollback : Records, after : Records]

ASSUME NoGuardIsNone == NoGuard \notin Guards

Versions(r) == {c.body : c \in r.captures}

NewRecord(now) ==
    [url |-> url, captures |-> {}, content |-> NoBody, active |-> FALSE,
     derived |-> {}, state |-> "awaiting_approval", at |-> now]

\* _reconcile_url_descriptor: another URL takes the content out of use.
Reconciled(r, now) ==
    IF r.url = url THEN r
    ELSE [r EXCEPT !.url = url, !.content = NoBody, !.active = FALSE,
                   !.state = "awaiting_approval", !.at = now]

\* What the capture has made of the record: one more retrieval.
Updated(r, body, identity, now) ==
    [r EXCEPT !.captures = @ \union {[body |-> body, identity |-> identity, at |-> now]},
              !.content = body, !.active = FALSE, !.state = "pending", !.at = now]

Extracting(r) == [r EXCEPT !.state = "extracting"]
Activated(r) ==
    [r EXCEPT !.derived = @ \union {r.content}, !.active = TRUE, !.state = "ok"]

CorpusRow(r) == <<r.content, r.active>>

\* The version's bytes, and the bytes derived from them if the record names any.
Whole(r) ==
    r.content # NoBody =>
        archive[r.content] = "kept" /\ (r.active => output[r.content] = "kept")

\* approval_recorded_at_for: an approval event has one scope.
ClaimConflicts(r, request) ==
    \E c \in r.captures : c.identity.request.event = request.event
                          /\ c.identity.request.scope # request.scope

-----------------------------------------------------------------------------
(* Events, the journal and the result.                                     *)

Activation(r) == [kind |-> "new_active_representation", record |-> r]
Handoff(r) == [kind |-> "handoff_source_id", record |-> r]
Handoffs(r) == IF r.state = "needs_agent" THEN <<Handoff(r)>> ELSE <<>>

Events == [kind : {"new_active_representation", "handoff_source_id"}, record : Records]
Logs == Seq([frame : {"event", "commit"}, event : Events])

ASSUME NoEventIsNone == NoEvent \notin Events

Prepared(e) == [frame |-> "event", event |-> e]
Committed(e) == [frame |-> "commit", event |-> e]
Frames(log) == {log[i] : i \in DOMAIN log}

Journals == [command : {"snapshot", "sync"}, at : 0 .. MaxTime, log : Logs]

ASSUME NoJournalIsNone == NoJournal \notin Journals

Journal(at, log) == [command |-> "snapshot", at |-> at, log |-> log]

\* snapshot_journal_digests: the journal before and after its one commit frame;
\* empty when the event is not prepared or something follows its commit.
Digests(log, e) ==
    IF e = NoEvent THEN <<log, log>>
    ELSE IF Prepared(e) \notin Frames(log) THEN <<>>
    ELSE IF Committed(e) \notin Frames(log) THEN <<log, Append(log, Committed(e))>>
    ELSE IF log[Len(log)] # Committed(e) THEN <<>>
    ELSE <<SubSeq(log, 1, Len(log) - 1), log>>

Continuations ==
    [identity : Identities, at : 0 .. MaxTime, candidate : Records,
     before : Logs, after : Logs, event : Events \union {NoEvent}]

ASSUME NoPlanIsNone == NoPlan \notin Continuations \union Identities

\* SnapshotContinuation.prepare.
Continuation(identity, at, candidate, log, e) ==
    LET digests == Digests(log, e)
    IN [identity |-> identity, at |-> at, candidate |-> candidate,
        before |-> digests[1], after |-> digests[2], event |-> e]

\* restore_response: the response is rebuilt from the planned record or not at all.
Restores(c, r) == r = c.candidate

\* Mutant: every prepared event is kept.
KeptPrepared(f, log) == f.frame = "event"

\* finalize: committed events, and those whose record the ledger still holds.
Kept(f, log) ==
    /\ f.frame = "event"
    /\ Committed(f.event) \in Frames(log) \/ f.event.record = ledger

\* Consumers see what is active, not the digest of the record.
Public(e) == [kind |-> e.kind, content |-> e.record.content]

Manifest(at, corpus, log) ==
    LET kept == SelectIn(log, {f \in Frames(log) : Kept(f, log)})
    IN [at |-> at, corpus |-> corpus,
        events |-> [i \in DOMAIN kept |-> Public(kept[i].event)]]

Results ==
    [at : 0 .. MaxTime, corpus : (Bodies \union {NoBody}) \X BOOLEAN,
     events : Seq([kind : {"new_active_representation", "handoff_source_id"},
                   content : Bodies \union {NoBody}])]
Staged == [of : Continuations, checkpoint : Records, log : Logs]
Acknowledgements == [result : Results, of : Continuations]

ASSUME NoResultIsNone == NoResult \notin Results \union Staged \union Acknowledgements

\* _require_snapshot_reference: the only manifest that answers the continuation.
Result(c) ==
    LET events == (IF c.event = NoEvent THEN <<>> ELSE <<c.event>>) \o Handoffs(c.candidate)
    IN [at |-> c.at, corpus |-> CorpusRow(c.candidate),
        events |-> [i \in DOMAIN events |-> Public(events[i])]]

\* _require_snapshot_receipt, for the staged and for the pending result.
StagedIsBound ==
    staged # NoResult =>
        /\ continuation # NoPlan /\ staged.of = continuation
        /\ staged.log = continuation.after
PendingIsBound ==
    pending # NoResult => continuation # NoPlan /\ pending = Result(continuation)

-----------------------------------------------------------------------------
(* A command: the steps a capture still has to take, in order, and what it *)
(* remembers.                                                              *)

Steps ==
    [do : {"emit", "commit"}, event : Events]
    \union [do : {"plan"}, record : Records, event : Events \union {NoEvent}]
    \union [do : {"guard"}, guard : Guards]
    \union [do : {"save", "prove", "clear"}, record : Records]
    \union [do : {"read"}, parts : SUBSET {"raw", "output"}, body : Bodies]

Phases ==
    {"recover", "journal", "capture", "captured", "extract", "reuse", "process", "failing",
     "finish", "publish", "stage", "finalize", "save_pending", "drop_journal", "drop_staged",
     "acknowledge", "drop_pending", "drop_plan"}

Commands ==
    [phase : Phases, identity : Identities \union {NoPlan}, at : 0 .. MaxTime,
     body : Bodies \union {NoBody}, before : Records \union {NoRecord}, todo : Seq(Steps),
     live : BOOLEAN, result : Results \union {NoResult}]

ASSUME IdleIsNone == Idle \notin Commands

Emit(e) == [do |-> "emit", event |-> e]
Plan(r, e) == [do |-> "plan", record |-> r, event |-> e]
Guard(before, rollback, after) ==
    [do |-> "guard", guard |-> [before |-> before, rollback |-> rollback, after |-> after]]
Save(r) == [do |-> "save", record |-> r]
Read(parts, body) == [do |-> "read", parts |-> parts, body |-> body]
Prove(r) == [do |-> "prove", record |-> r]
Clear(r) == [do |-> "clear", record |-> r]
Commit(e) == [do |-> "commit", event |-> e]

\* Mutant: the guard is cleared before the evidence has been read again.
ActivationClearedEarly(before, rollback, final) ==
    LET e == Activation(final)
    IN <<Emit(e), Plan(final, e), Guard(before, rollback, final), Save(final),
         Clear(final), Prove(final), Commit(e)>>

\* Mutant: the plan is written when everything is done.
ActivationPlannedLate(before, rollback, final) ==
    LET e == Activation(final)
    IN <<Emit(e), Guard(before, rollback, final), Save(final), Prove(final),
         Clear(final), Plan(final, e), Commit(e)>>

\* The guarded activation of _reuse_derivation and of _process_web_record.
GuardedActivation(before, rollback, final) ==
    LET e == Activation(final)
    IN <<Emit(e), Plan(final, e), Guard(before, rollback, final), Save(final),
         Prove(final), Clear(final), Commit(e)>>

\* What the files hold: "kept" is what the ledger describes, "other" is not.
Files == {"none", "kept", "other"}

TypeOK ==
    /\ url \in Urls
    /\ ledger \in Records \union {NoRecord}
    /\ guard \in Guards \union {NoGuard}
    /\ archive \in [Bodies -> Files] /\ output \in [Bodies -> Files]
    /\ journal \in Journals \union {NoJournal}
    /\ staged \in Staged \union {NoResult} /\ (staged # NoResult => staged.of \in planned)
    /\ manifests \subseteq Results
    /\ pending \in manifests \union {NoResult}
    /\ receipts \subseteq manifests
    /\ acknowledged \in Acknowledgements \union {NoResult}
    /\ acknowledged # NoResult => acknowledged.result \in receipts
    /\ planned \subseteq Continuations /\ continuation \in planned \union {NoPlan}
    /\ command \in Commands \union {Idle}
    /\ clock \in 0 .. MaxTime /\ faults \in 0 .. MaxFaults /\ edits \in 0 .. MaxEdits
    /\ proved \subseteq Records
    /\ intact \in BOOLEAN

Init ==
    /\ url \in Urls
    /\ ledger = NoRecord /\ guard = NoGuard
    /\ archive = [b \in Bodies |-> "none"] /\ output = [b \in Bodies |-> "none"]
    /\ journal = NoJournal /\ staged = NoResult /\ manifests = {} /\ pending = NoResult
    /\ receipts = {} /\ acknowledged = NoResult /\ continuation = NoPlan
    /\ command = Idle
    /\ clock = 0 /\ faults = 0 /\ edits = 0
    /\ planned = {} /\ proved = {} /\ intact = FALSE

InPhase(phase) == command # Idle /\ command.phase = phase /\ command.todo = <<>>
NextIs(kind) == command # Idle /\ command.todo # <<>> /\ Head(command.todo).do = kind
Enter(phase) == command' = [command EXCEPT !.phase = phase]

\* Take the head of the steps; a failing command ends with its last one.
Advance ==
    command' = IF Len(command.todo) = 1 /\ command.phase = "failing"
               THEN Idle ELSE [command EXCEPT !.todo = Tail(@)]

-----------------------------------------------------------------------------
(* One durable step of a running capture.                                  *)

\* emit: a resumed journal may have the event already.
EmitStep ==
    /\ NextIs("emit")
    /\ LET frame == Prepared(Head(command.todo).event)
       IN journal' = IF frame \in Frames(journal.log) THEN journal
                     ELSE [journal EXCEPT !.log = Append(@, frame)]
    /\ Advance
    /\ UNCHANGED <<url, ledger, guard, evidence, staged, manifests, pending, receipts,
                   acknowledged, continuation, bounds, planned, proved>>

\* prepare(): the handoffs go into the journal, then the continuation is saved,
\* which is refused while there is another.
PlanStep ==
    /\ NextIs("plan")
    /\ continuation = NoPlan
    /\ LET r == Head(command.todo).record
           e == Head(command.todo).event
           log == journal.log \o [i \in DOMAIN Handoffs(r) |-> Prepared(Handoffs(r)[i])]
           c == Continuation(command.identity, journal.at, r, log, e)
       IN /\ journal' = [journal EXCEPT !.log = log]
          /\ continuation' = c
          /\ planned' = planned \union {c}
    /\ Advance
    /\ UNCHANGED <<url, ledger, guard, evidence, staged, manifests, pending, receipts,
                   acknowledged, bounds, proved>>

GuardStep ==
    /\ NextIs("guard")
    /\ guard = NoGuard
    /\ guard' = Head(command.todo).guard
    /\ Advance
    /\ UNCHANGED <<url, ledger, evidence, spool, continuation, bounds, planned, proved>>

\* A checkpoint, read back.
SaveStep ==
    /\ NextIs("save")
    /\ ledger' = Head(command.todo).record
    /\ Advance
    /\ UNCHANGED <<url, guard, evidence, spool, continuation, bounds, planned, proved>>

Readable(step) ==
    CASE step.do = "read" ->
            /\ "raw" \in step.parts => archive[step.body] = "kept"
            /\ "output" \in step.parts => output[step.body] = "kept"
      [] step.do = "prove" -> Whole(step.record)
      [] OTHER -> TRUE

\* use_stable_file around the callback that plans and saves.
ReadStep ==
    /\ NextIs("read") \/ NextIs("prove")
    /\ LET step == Head(command.todo)
       IN /\ Readable(step)
          /\ proved' = IF step.do = "prove" THEN proved \union {ledger} ELSE proved
    /\ Advance
    /\ UNCHANGED <<url, ledger, guard, evidence, spool, continuation, bounds, planned>>

ClearStep ==
    /\ NextIs("clear")
    /\ ledger = Head(command.todo).record
    /\ guard' = NoGuard
    /\ Advance
    /\ UNCHANGED <<url, ledger, evidence, spool, continuation, bounds, planned, proved>>

CommitStep ==
    /\ NextIs("commit")
    /\ LET frame == Committed(Head(command.todo).event)
       IN journal' = IF frame \in Frames(journal.log) THEN journal
                     ELSE [journal EXCEPT !.log = Append(@, frame)]
    /\ Advance
    /\ UNCHANGED <<url, ledger, guard, evidence, staged, manifests, pending, receipts,
                   acknowledged, continuation, bounds, planned, proved>>

CapturedRecord == Updated(command.before, command.body, command.identity, command.at)

\* The handlers of _reuse_derivation and _process_web_record: a guarded
\* checkpoint is taken back under its guard, an unguarded one of a retained
\* derivation loses its active pointer.
Unwind ==
    command' =
       IF guard # NoGuard
       THEN [command EXCEPT !.phase = "failing",
                            !.todo = <<Save(guard.rollback), Clear(guard.rollback)>>]
       ELSE IF command.phase = "reuse" /\ (NextIs("save") \/ NextIs("prove"))
       THEN [command EXCEPT !.phase = "failing", !.todo = <<Save(CapturedRecord)>>]
       ELSE Idle

ReadFails ==
    /\ NextIs("read") \/ NextIs("prove")
    /\ ~Readable(Head(command.todo))
    /\ Unwind
    /\ UNCHANGED <<url, ledger, guard, evidence, spool, continuation, bounds, planned, proved>>

\* A call that fails under the guard, or around the checkpoint of a reuse, before
\* or after what it was to do.
StepFails ==
    /\ faults < MaxFaults
    /\ command # Idle /\ command.phase \in {"reuse", "process"}
    /\ guard # NoGuard \/ command.phase = "reuse"
    /\ NextIs("save") \/ NextIs("prove") \/ NextIs("clear")
    /\ Unwind
    /\ faults' = faults + 1
    /\ UNCHANGED <<url, ledger, guard, evidence, spool, continuation, clock, edits,
                   planned, proved>>

\* A crash, or an error nothing takes back: memory is lost, the disk stays.
Stop ==
    /\ command # Idle
    /\ faults < MaxFaults
    /\ command' = Idle
    /\ faults' = faults + 1
    /\ UNCHANGED <<url, ledger, guard, evidence, spool, continuation, clock, edits,
                   planned, proved>>

-----------------------------------------------------------------------------
(* snapshot_source_url: recovery, the claim, the continuation.             *)

NewCommand(phase, identity, result) ==
    [phase |-> phase, identity |-> identity, at |-> 0, body |-> NoBody,
     before |-> NoRecord, todo |-> <<>>, live |-> FALSE, result |-> result]

\* The identity of a request holds the URL the descriptor has now.
Start(request) ==
    /\ command = Idle
    /\ command' = NewCommand("recover", [request |-> request, url |-> url], NoResult)
    /\ UNCHANGED <<url, ledger, guard, evidence, spool, continuation, bounds, planned, proved>>

Recover ==
    /\ InPhase("recover") /\ guard # NoGuard
    /\ ledger \in {guard.before, guard.rollback, guard.after}
    /\ command' = [command EXCEPT !.todo = <<Save(guard.rollback), Clear(guard.rollback)>>]
    /\ UNCHANGED <<url, ledger, guard, evidence, spool, continuation, bounds, planned, proved>>

Opening == InPhase("recover") /\ guard = NoGuard

Conflicting ==
    ledger # NoRecord /\ ClaimConflicts(ledger, command.identity.request)

Resume ==
    /\ Opening /\ ~Conflicting
    /\ continuation # NoPlan /\ continuation.identity = command.identity
    /\ Enter("finish")
    /\ UNCHANGED <<url, ledger, guard, evidence, spool, continuation, bounds, planned, proved>>

MayCapture == continuation = NoPlan /\ pending = NoResult /\ staged = NoResult

\* A new record, or one reconciled with its descriptor, is saved before anything
\* is captured.
Open ==
    /\ Opening /\ ~Conflicting /\ MayCapture
    /\ clock < MaxTime
    /\ clock' = clock + 1
    /\ ledger' = IF ledger = NoRecord THEN NewRecord(clock') ELSE Reconciled(ledger, clock')
    /\ command' = [command EXCEPT !.phase = "journal", !.at = clock', !.before = ledger']
    /\ UNCHANGED <<url, guard, evidence, spool, continuation, faults, edits, planned, proved>>

Refuse ==
    /\ Opening
    /\ \/ Conflicting
       \/ continuation # NoPlan /\ continuation.identity # command.identity
    /\ command' = Idle
    /\ UNCHANGED <<url, ledger, guard, evidence, spool, continuation, bounds, planned, proved>>

\* The journal of an earlier capture that failed is taken over with its time.
OpenJournal ==
    /\ InPhase("journal")
    /\ journal # NoJournal => journal.command = "snapshot"
    /\ journal' = IF journal = NoJournal THEN Journal(command.at, <<>>) ELSE journal
    /\ Enter("capture")
    /\ UNCHANGED <<url, ledger, guard, evidence, staged, manifests, pending, receipts,
                   acknowledged, continuation, bounds, planned, proved>>

\* An init or a sync must finish its journal first.
OtherJournal ==
    /\ InPhase("journal")
    /\ journal # NoJournal /\ journal.command # "snapshot"
    /\ command' = Idle
    /\ UNCHANGED <<url, ledger, guard, evidence, spool, continuation, bounds, planned, proved>>

-----------------------------------------------------------------------------
(* snapshot_url: the capture, its retained version and its derivation.     *)

\* _verify_web_version of a retained version, _atomic_write_archive of a new one.
Archivable(body) ==
    IF body \in Versions(ledger) THEN archive[body] = "kept" ELSE archive[body] # "other"

\* The bytes are archived, or found to be what is retained.
Capture(body) ==
    /\ InPhase("capture")
    /\ Archivable(body)
    /\ archive' = [archive EXCEPT ![body] = "kept"]
    /\ command' = [command EXCEPT !.phase = "captured", !.body = body]
    /\ UNCHANGED <<url, ledger, guard, output, spool, continuation, bounds, planned, proved>>

\* The network, the staging file, an archive that differs.
CaptureFails ==
    /\ InPhase("capture")
    /\ command' = Idle
    /\ UNCHANGED <<url, ledger, guard, evidence, spool, continuation, bounds, planned, proved>>

Reusable == command.body \in command.before.derived /\ output[command.body] = "kept"

\* The derivation of these bytes is the active one already.
StillActive == command.before.active /\ command.before.content = command.body

Reuse ==
    /\ InPhase("captured") /\ Reusable
    /\ LET final == Activated(CapturedRecord)
       IN command' = [command EXCEPT !.phase = "reuse", !.live = TRUE,
             !.todo = <<Read({"raw", "output"}, command.body)>> \o
                IF StillActive
                THEN <<Plan(final, NoEvent), Save(final), Prove(final)>>
                ELSE GuardedActivation(command.before, CapturedRecord, final)]
    /\ UNCHANGED <<url, ledger, guard, evidence, spool, continuation, bounds, planned, proved>>

\* The capture is in the ledger before anything is made of it.
Retain ==
    /\ InPhase("captured") /\ ~Reusable
    /\ LET unsupported == [CapturedRecord EXCEPT !.state = "unsupported"]
       IN command' =
            IF command.body \in Unsupported
            THEN [command EXCEPT !.phase = "process", !.live = TRUE,
                    !.todo = <<Save(CapturedRecord), Plan(unsupported, NoEvent),
                               Save(unsupported)>>]
            ELSE [command EXCEPT !.phase = "extract",
                    !.todo = <<Save(CapturedRecord), Read({"raw"}, command.body),
                               Save(Extracting(CapturedRecord))>>]
    /\ UNCHANGED <<url, ledger, guard, evidence, spool, continuation, bounds, planned, proved>>

\* An attempt that leaves no derivation is planned and saved as it is.
Underived(state) ==
    LET final == [ledger EXCEPT !.state = state]
    IN command' = [command EXCEPT !.phase = "process", !.live = TRUE,
          !.todo = <<Read({"raw"}, command.body), Plan(final, NoEvent), Save(final)>>]

\* A shell from the network goes to a browser, other bytes to the agent or nowhere.
HandOver ==
    /\ InPhase("extract")
    /\ Underived("needs_agent")
    /\ UNCHANGED <<url, ledger, guard, evidence, spool, continuation, bounds, planned, proved>>

NeedsBrowser == command.body \in Shells /\ ~command.identity.request.rendered

Fail ==
    /\ InPhase("extract") /\ ~NeedsBrowser
    /\ Underived("failed")
    /\ UNCHANGED <<url, ledger, guard, evidence, spool, continuation, bounds, planned, proved>>

\* The artifact is linked to its name, which nothing else may hold.
Derive ==
    /\ InPhase("extract") /\ ~NeedsBrowser
    /\ command.body \notin ledger.derived
    /\ output[command.body] # "other"
    /\ output' = [output EXCEPT ![command.body] = "kept"]
    /\ command' = [command EXCEPT !.phase = "process", !.live = TRUE,
          !.todo = <<Read({"output"}, command.body)>>
                   \o GuardedActivation(ledger, ledger, Activated(ledger))]
    /\ UNCHANGED <<url, ledger, guard, archive, spool, continuation, bounds, planned, proved>>

\* A retained derivation is not replaced: activate_derivation raises.
DeriveAgain ==
    /\ InPhase("extract") /\ ~NeedsBrowser
    /\ command.body \in ledger.derived
    /\ output' = [output EXCEPT ![command.body] = IF @ = "none" THEN "other" ELSE @]
    /\ command' = Idle
    /\ UNCHANGED <<url, ledger, guard, archive, spool, continuation, bounds, planned, proved>>

Captured ==
    /\ InPhase("reuse") \/ InPhase("process")
    /\ Enter("finish")
    /\ UNCHANGED <<url, ledger, guard, evidence, spool, continuation, bounds, planned, proved>>

-----------------------------------------------------------------------------
(* _finish_snapshot_continuation: exactly the planned result, or nothing.  *)

FinishStops ==
    /\ command' = Idle
    /\ UNCHANGED <<url, ledger, guard, evidence, spool, continuation, bounds, planned, proved>>

\* Mutant: the evidence was proved when the capture ran.
FinishUnproved == Restores(continuation, ledger)

\* The checkpoint became durable and the evidence is still what it describes.
MayFinish == Restores(continuation, ledger) /\ Whole(ledger)

\* The pending result, if there is one, must be the planned one.
Finish ==
    /\ InPhase("finish")
    /\ MayFinish
    /\ PendingIsBound
    /\ command' = [command EXCEPT !.phase = IF pending # NoResult THEN "drop_journal" ELSE "publish",
                                  !.result = pending]
    /\ proved' = proved \union {ledger}
    /\ UNCHANGED <<url, ledger, guard, evidence, spool, continuation, bounds, planned>>

\* snapshot_interrupted, or evidence that is not what it was.
FinishRefused ==
    /\ InPhase("finish")
    /\ ~(MayFinish /\ PendingIsBound)
    /\ FinishStops

\* A writer takes the journal over; it creates one, with the planned time, when
\* there is none.
PublishAnew ==
    /\ InPhase("publish") /\ ~command.live
    /\ journal # NoJournal => journal.command = "snapshot"
    /\ journal' = IF journal = NoJournal THEN Journal(continuation.at, <<>>) ELSE journal
    /\ command' = [command EXCEPT !.live = TRUE]
    /\ UNCHANGED <<url, ledger, guard, evidence, staged, manifests, pending, receipts,
                   acknowledged, continuation, bounds, planned, proved>>

\* Mutant: whatever the journal holds is published.
MayPublishAny(c) == journal.at = c.at

\* The journal is the planned one, with or without its commit.
MayPublish(c) ==
    /\ journal.at = c.at
    /\ Digests(journal.log, c.event) = <<c.before, c.after>>
    /\ StagedIsBound
    /\ staged # NoResult => staged.log = journal.log

Publish ==
    /\ InPhase("publish") /\ command.live
    /\ MayPublish(continuation)
    /\ command' = [command EXCEPT !.phase = "stage",
          !.todo = IF continuation.event = NoEvent THEN <<>> ELSE <<Commit(continuation.event)>>]
    /\ UNCHANGED <<url, ledger, guard, evidence, spool, continuation, bounds, planned, proved>>

PublishRefused ==
    /\ InPhase("publish")
    /\ IF command.live THEN ~MayPublish(continuation)
       ELSE journal # NoJournal /\ journal.command # "snapshot"
    /\ FinishStops

Stage ==
    /\ InPhase("stage")
    /\ staged' = [of |-> continuation, checkpoint |-> ledger, log |-> journal.log]
    /\ Enter("finalize")
    /\ UNCHANGED <<url, ledger, guard, evidence, journal, manifests, pending, receipts,
                   acknowledged, continuation, bounds, planned, proved>>

Finalize ==
    /\ InPhase("finalize")
    /\ LET m == Manifest(journal.at, CorpusRow(ledger), journal.log)
       IN /\ manifests' = manifests \union {m}
          /\ command' = [command EXCEPT !.phase = "save_pending", !.result = m]
    /\ UNCHANGED <<url, ledger, guard, evidence, journal, staged, pending, receipts,
                   acknowledged, continuation, bounds, planned, proved>>

SavePending ==
    /\ InPhase("save_pending")
    /\ pending' = command.result
    /\ Enter("drop_journal")
    /\ UNCHANGED <<url, ledger, guard, evidence, journal, staged, manifests, receipts,
                   acknowledged, continuation, bounds, planned, proved>>

-----------------------------------------------------------------------------
(* complete_inflight, then the acknowledgement.                            *)

MayComplete(m) ==
    /\ StagedIsBound
    /\ staged # NoResult =>
          /\ staged.checkpoint = ledger
          /\ staged.of.at = m.at /\ CorpusRow(staged.of.candidate) = m.corpus
    /\ staged # NoResult /\ journal # NoJournal =>
          journal = Journal(staged.of.at, staged.log)

DropJournal ==
    /\ InPhase("drop_journal")
    /\ MayComplete(command.result)
    /\ journal' = NoJournal
    /\ Enter("drop_staged")
    /\ UNCHANGED <<url, ledger, guard, evidence, staged, manifests, pending, receipts,
                   acknowledged, continuation, bounds, planned, proved>>

DropRefused ==
    /\ InPhase("drop_journal")
    /\ ~MayComplete(command.result)
    /\ FinishStops

DropStaged ==
    /\ InPhase("drop_staged")
    /\ staged' = NoResult
    /\ command' = IF command.identity # NoPlan THEN Idle
                  ELSE [command EXCEPT !.phase = "acknowledge"]
    /\ UNCHANGED <<url, ledger, guard, evidence, journal, manifests, pending, receipts,
                   acknowledged, continuation, bounds, planned, proved>>

\* A result with a handoff is delivered only while its source is current.
DeliveryIsCurrent(m) ==
    (\E i \in DOMAIN m.events : m.events[i].kind = "handoff_source_id") =>
        guard = NoGuard /\ CorpusRow(ledger) = m.corpus

Consume(m) ==
    /\ command = Idle
    /\ pending = m /\ PendingIsBound
    /\ DeliveryIsCurrent(m)
    /\ receipts' = receipts \union {m}
    /\ UNCHANGED <<url, ledger, guard, evidence, journal, staged, manifests, pending,
                   acknowledged, continuation, command, bounds, planned, proved>>

\* Mutant: what nobody has read is acknowledged.
MayAcknowledgeUnread(m) == DeliveryIsCurrent(m)

\* clear_pending asks for the receipt of a consumption.
MayAcknowledge(m) == m \in receipts /\ DeliveryIsCurrent(m)

StartAcknowledge(m) ==
    /\ command = Idle
    /\ pending = m /\ PendingIsBound
    /\ MayAcknowledge(m)
    /\ command' = NewCommand(IF staged # NoResult THEN "drop_journal" ELSE "acknowledge",
                             NoPlan, m)
    /\ UNCHANGED <<url, ledger, guard, evidence, spool, continuation, bounds, planned, proved>>

\* The last acknowledged ID again: what was interrupted is finished.
StartReacknowledge(m) ==
    /\ command = Idle
    /\ pending # m /\ PendingIsBound
    /\ acknowledged # NoResult /\ acknowledged.result = m
    /\ command' = NewCommand(IF staged # NoResult THEN "drop_journal" ELSE "drop_plan",
                             NoPlan, m)
    /\ UNCHANGED <<url, ledger, guard, evidence, spool, continuation, bounds, planned, proved>>

\* clear_pending writes the acknowledgement before it removes the pointer; one
\* that was acknowledged before has no pointer any more.
Acknowledge ==
    /\ InPhase("acknowledge")
    /\ acknowledged' = IF pending = command.result
                       THEN [result |-> pending, of |-> continuation] ELSE acknowledged
    /\ Enter(IF pending = command.result THEN "drop_pending" ELSE "drop_plan")
    /\ UNCHANGED <<url, ledger, guard, evidence, journal, staged, manifests, pending,
                   receipts, continuation, bounds, planned, proved>>

DropPending ==
    /\ InPhase("drop_pending")
    /\ pending' = NoResult
    /\ Enter("drop_plan")
    /\ UNCHANGED <<url, ledger, guard, evidence, journal, staged, manifests, receipts,
                   acknowledged, continuation, bounds, planned, proved>>

\* Mutant: the acknowledgement of any result ends the continuation.
MayDropAny == continuation # NoPlan

\* clear_snapshot_continuation: only its own result's acknowledgement ends it.
MayDrop ==
    /\ continuation # NoPlan
    /\ acknowledged.of = continuation
    /\ command.result = Result(continuation)

DropPlan ==
    /\ InPhase("drop_plan")
    /\ continuation' = IF MayDrop THEN NoPlan ELSE continuation
    /\ command' = Idle
    /\ UNCHANGED <<url, ledger, guard, evidence, spool, bounds, planned, proved>>

-----------------------------------------------------------------------------
(* Everybody else.                                                         *)

NoContinuation == continuation = NoPlan

\* register-extraction, whole: its own steps are those of module SyncResults.
Register ==
    /\ command = Idle
    /\ NoContinuation
    /\ guard = NoGuard /\ ledger # NoRecord /\ ledger.state = "needs_agent"
    /\ output[ledger.content] # "other" /\ archive[ledger.content] = "kept"
    /\ output' = [output EXCEPT ![ledger.content] = "kept"]
    /\ ledger' = Activated(ledger)
    /\ proved' = proved \union {ledger'}
    /\ UNCHANGED <<url, guard, archive, spool, continuation, command, bounds, planned>>

\* An init or a sync that is interrupted leaves its journal, and one that is not
\* delivers its result and removes it.
SyncInterrupted ==
    /\ command = Idle
    /\ NoContinuation
    /\ faults < MaxFaults
    /\ journal = NoJournal /\ pending = NoResult /\ staged = NoResult
    /\ journal' = [command |-> "sync", at |-> 0, log |-> <<>>]
    /\ faults' = faults + 1
    /\ UNCHANGED <<url, ledger, guard, evidence, staged, manifests, pending, receipts,
                   acknowledged, continuation, command, clock, edits, planned, proved>>

SyncRecovers ==
    /\ command = Idle
    /\ NoContinuation
    /\ journal # NoJournal /\ journal.command = "sync"
    /\ journal' = NoJournal
    /\ UNCHANGED <<url, ledger, guard, evidence, staged, manifests, pending, receipts,
                   acknowledged, continuation, command, bounds, planned, proved>>

\* People damage or remove retained files and edit the descriptor.
Edit ==
    /\ edits < MaxEdits
    /\ edits' = edits + 1
    /\ \/ \E b \in Bodies, file \in {"none", "other"} :
             /\ archive[b] = "kept"
             /\ archive' = [archive EXCEPT ![b] = file]
             /\ UNCHANGED <<url, output>>
       \/ \E b \in Bodies, file \in {"none", "other"} :
             /\ output[b] = "kept"
             /\ output' = [output EXCEPT ![b] = file]
             /\ UNCHANGED <<url, archive>>
       \/ /\ url' \in Urls \ {url}
          /\ UNCHANGED evidence
    /\ UNCHANGED <<ledger, guard, spool, continuation, command, clock, faults, planned, proved>>

-----------------------------------------------------------------------------
PlanSteps ==
    \/ EmitStep \/ PlanStep \/ GuardStep \/ SaveStep \/ ReadStep \/ ClearStep \/ CommitStep
    \/ ReadFails

CommandStep ==
    \/ Recover \/ Resume \/ Open \/ Refuse \/ OpenJournal \/ OtherJournal
    \/ CaptureFails \/ Reuse \/ Retain \/ HandOver \/ Fail \/ Derive \/ DeriveAgain \/ Captured
    \/ \E b \in Bodies : Capture(b)
    \/ Finish \/ FinishRefused \/ PublishAnew \/ Publish \/ PublishRefused
    \/ Stage \/ Finalize \/ SavePending \/ DropJournal \/ DropRefused \/ DropStaged
    \/ Acknowledge \/ DropPending \/ DropPlan

Step ==
    \/ PlanSteps \/ CommandStep \/ StepFails \/ Stop
    \/ \E request \in Requests : Start(request)
    \/ \E m \in manifests : Consume(m) \/ StartAcknowledge(m) \/ StartReacknowledge(m)
    \/ Register \/ SyncInterrupted \/ SyncRecovers \/ Edit

\* Was the planned evidence whole at some moment of the running command?
Watch ==
    intact' = /\ command' # Idle /\ continuation' # NoPlan
              /\ \/ command # Idle /\ continuation = continuation' /\ intact
                 \/ Whole(continuation.candidate)'

Next == Step /\ Watch

Spec == Init /\ [][Next]_vars

-----------------------------------------------------------------------------
(* Fairness: a running command goes on until it ends; the client replays   *)
(* the planned request, consumes and acknowledges the pending result, and  *)
(* repeats an acknowledgement that was interrupted.                        *)

Replay == continuation # NoPlan /\ Start(continuation.identity.request)

Fairness ==
    /\ WF_vars((PlanSteps \/ CommandStep) /\ Watch)
    /\ SF_vars(Replay /\ Watch)
    /\ SF_vars((\E m \in manifests : Consume(m) \/ StartAcknowledge(m)) /\ Watch)
    /\ SF_vars((\E m \in manifests : StartReacknowledge(m)) /\ Watch)

FairSpec == Spec /\ Fairness

-----------------------------------------------------------------------------
(* Properties.                                                             *)

\* Every result is one that was planned before its last checkpoint, to the event:
\* what an earlier, failed capture left in the journal it was resumed from is in
\* no result, and a journal made anew publishes none (snapshot_journal_digests,
\* _require_snapshot_reference).
ResultIsThePlanned == \A m \in manifests : \E c \in planned : m = Result(c)

\* An active derivation without a guard beside it is one whose raw bytes and
\* whose output were read after the checkpoint that made it active, through
\* every failure of the capture and its compensation (_compensate, _reuse_derivation).
ActiveIsProved ==
    command = Idle /\ ledger # NoRecord /\ ledger.active /\ guard = NoGuard =>
        \E r \in proved : r.active /\ r.content = ledger.content

\* When no continuation stands, what is active was in a result its client has
\* consumed, as a representation or as a handoff: no crash between a checkpoint
\* and its commit loses the announcement (_finish_snapshot_continuation).
ActiveIsAnnounced ==
    continuation = NoPlan /\ guard = NoGuard /\ ledger # NoRecord /\ ledger.active =>
        \E m \in receipts : \E i \in DOMAIN m.events : m.events[i].content = ledger.content

\* While a continuation stands, the record is only its candidate or what the
\* guard or the failed capture falls back to: nothing is captured again, no
\* other command writes the source, and only its own acknowledged result ends it
\* (snapshot_request_mismatch, require_no_snapshot_continuation,
\* clear_snapshot_continuation).
PlanStands ==
    [][continuation # NoPlan =>
          /\ continuation' \in {continuation, NoPlan}
          /\ continuation' = NoPlan => acknowledged.of = continuation
          /\ ledger' # ledger =>
                \/ ledger' = continuation.candidate
                \/ ledger' = [continuation.candidate EXCEPT !.active = FALSE,
                                 !.derived = ledger'.derived, !.state = ledger'.state]]_vars

\* A result becomes pending only when all its evidence was seen whole during the
\* very command that offers it, not merely when it was captured
\* (_finish_snapshot_continuation reads it again).
OfferedIsWhole == [][pending' # pending /\ pending' # NoResult => intact']_vars

\* The checkpoint is durable, its guard is gone and nothing runs.
Settled ==
    /\ continuation # NoPlan /\ command = Idle
    /\ guard = NoGuard /\ ledger = continuation.candidate

\* A planned result whose checkpoint became durable is delivered and acknowledged,
\* crashes and failing calls notwithstanding, by the same request, consumption and
\* acknowledgement tried again; unless its evidence was damaged or the URL edited.
SettledIsDelivered ==
    Settled ~> \/ continuation = NoPlan
               \/ ~Whole(continuation.candidate)
               \/ url # continuation.identity.url
=============================================================================
