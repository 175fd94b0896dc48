# Models and proofs of brainlib's protocols

TLA+ modules for the parts of `src/brainlib/` where several processes, crashes
or writers outside the program meet: the source write lock, the wiki
transaction, synchronization with its result spool and work items, the capture
of web pages, retained search runs, and the reading of the raw tree. TLC checks
small instances, TLAPS proves the central results for every instance.

    tlc -workers 2 -config SourceLockOrphan.cfg MCSourceLock.tla
    tlapm SourceLockProofs.tla

## 1. The system

brainlib is a command-line program. Every command is one process: it takes the
repository's lock, reads files, writes files, returns JSON. There is no server
and no memory shared between commands; everything that must survive is in the
repository directory, which may be shared by several machines. People and other
programs edit files under `sources/raw/` and `wiki/` at any time.

| component | source | state it keeps | operations | what makes it correct |
|---|---|---|---|---|
| source write lock | `locking.py` | `.brain/source-write.lock` (JSON metadata), an flock on its directory, quarantine names | acquire, release, stale recovery, cleanup of a partial create | one holder inside the stale period; nothing removed that was not proved removable; an orphan is recovered |
| wiki transaction | `wiki_transaction.py` | `wiki/**`, `.brain/wiki-transaction.json`, `.brain/wiki-transaction-claims` | wiki apply, wiki recover | all of a manifest or none of it; a crash at any step is recoverable; an editor's bytes survive |
| sync result spool | `sync_results.py` | `.brain/sync-results/`: in-flight spool, staged, pending, published manifests, receipts | append, stage, finalize, publish, consume, acknowledge | an event is published once; the same result is replayed until acknowledged; only a consumed result is acknowledged |
| synchronize command | `commands.py` | none of its own | synchronize, consume, acknowledge, adopt-version, register-extraction, snapshot-url | commands compose with the spool and the ledger under crashes |
| reconciliation, activation | `sync.py` | source records in the ledger | add, change, rename, extract, activate, roll back | readers never see a half-activated representation |
| ledger | `ledger.py` | `sources/ledger/` shards, activation guards | load_all, save, prepare and clear guards, recover guards | a shard is whole; a guard blocks readers until resolved |
| search runs | `search_runs.py` | `.brain` search spools and cursors | start, resume, prove, clean up | a resumed run covers the same corpus or is refused |
| handoffs | `extractors/handoff.py` | handoff manifests, staged agent files | publish, load, register | a registered extraction belongs to the current recipe and record |
| processors, adapters | `extractors/` | staged inputs | run converters in a bounded pool | every job is answered once |
| web snapshots | `sources/web.py`, `dns_driver.py` | raw files and URL descriptors | capture, publish | approved hosts only, immutable snapshots |
| inventory | `inventory.py` | none | walk and hash raw files | a file is read from one stable inode |
| registry, contracts | `registry.py`, `contracts.py`, `capabilities.py` | none | validation | - |
| search, evidence | `search.py`, `evidence.py`, `wiki_evidence.py`, `wiki_interpretations.py` | none | scoring, packets | - |
| citations, markdown, graph | `citations.py`, `markdown.py`, `graph.py`, `wiki_models.py`, `frontmatter.py` | none | parsing, cross reference | - |
| validation | `validation.py`, `validators/`, `instructions.py` | a checksum cache | read-only checks | - |
| command line | `cli.py`, `output.py`, `diagnostics.py`, `layout.py` | none | argument parsing, envelopes | - |

Interaction: every command that changes sources takes the source write lock;
wiki apply and wiki recover take a wiki lock of the same class and the source
lock inside it. Synchronize drives reconciliation, which writes the ledger and
appends events to the result spool; consume and acknowledge close the result.
Everything else reads the ledger and the wiki under the same locks.

The hard behaviours: a lock whose owner is dead, paused, on another machine or
restarted under the same pid; a process that dies between any two file
operations, also while it recovers from an earlier death; files replaced under
the program's hands; a result delivered, replayed and acknowledged across
crashes. `PROJECT.json` lists them line by line as hazards.

## 2. Modules

| module | what it is |
|---|---|
| `Lease` | abstract: what a lock with a stale period promises |
| `SourceLock` | the lock file protocol |
| `MCSourceLock` | hosts, clocks and symmetry for TLC |
| `SourceLockProofs` | theorems about `SourceLock` |
| `AtomicWiki` | abstract: the wiki changes by whole manifests |
| `WikiTransaction` | journal, publication and recovery; uses `Lease` for its locks |
| `MCWikiTransaction` | manifests and symmetry for TLC |
| `WikiTransactionProofs` | theorems about `WikiTransaction` |
| `SourceRecords` | the record functions of `sync.py` and `ledger.py` |
| `ResultDelivery` | abstract: what the result spool promises its consumer |
| `SyncResults` | init, sync, consume, acknowledge, adopt-version, register-extraction; composes the records, the guards and the spool |
| `MCSyncResults` | sources and symmetry for TLC |
| `SyncResultsProofs` | theorems about `SyncResults`: types and activation |
| `SyncDeliveryProofs` | theorems about `SyncResults`: the spool, its consumer, and what it announces |
| `Selections` | `SelectIn`, the elements of a sequence that are wanted, as a recursive function |
| `SelectionProofs` | lemmas about `SelectIn`, and the induction they rest on |
| `Snapshots` | `source snapshot-url`: capture, continuation, completion, delivery |
| `MCSnapshots` | approvals for TLC |
| `SnapshotsProofs` | theorems about `Snapshots` |
| `SearchRuns` | search runs: building, serving, proving, removing them |
| `MCSearchRuns` | a run for TLC |
| `SearchRunsProofs` | theorems about `SearchRuns` |
| `RawInventory` | the walk of `sources/raw` and the stable use of a file in it |
| `MCRawInventory` | two trees for TLC |
| `RawInventoryProofs` | theorems about `RawInventory` |

`SourceLock` implements `Lease`, `WikiTransaction` is built on `Lease` and
implements `AtomicWiki`, `SyncResults` implements `ResultDelivery`. `SyncResults`,
`Snapshots` and `SearchRuns` run their commands one at a time because of the
lock. `Snapshots` has the spool of `SyncResults` as that command uses it; the
stable use of a file, a step of `SyncResults` (`CheckStep`) and of `Snapshots`
(`ReadStep`), is what `RawInventory` shows in detail.

### SourceLock

State: `entry` is the inode that has the name `source-write.lock`;
`quarantined` counts an inode's quarantine names; `inode` holds a file's owner,
its `started_at` stamp, whether its payload is complete, and `touched` (its
ctime changed since it was created: a rename or link does that). `flock` is the
directory flock. `pc`, `mode`, `now`, `mine`, `expected`, `retries` are the
locals of `acquire()` and `release()`.

| actions | code |
|---|---|
| `StartAcquire`, `GetFlock` | `acquire` reads `current_time`, then waits for the flock |
| `ExclusiveCreate`, `WritePayload`, `ConfirmCreate` | `_create_lock`: `O_EXCL`, payload, identity check |
| `ConfirmFails`, `CreateFault` | cleanup of a partial create through `_remove_owned_partial` |
| `LockHeld`, `ObserveStale`, `RecheckSame`, `RecheckDiffers`, `EntryVanished` | the two reads of an existing entry |
| `StartRelease`, `ReleaseObserves`, `ReleaseUnproved` | `release` |
| `Claim`, `SettleMatch`, `SettleRestores`, `SettleRepopulated`, `SettleFault` | `_claim_and_remove`, `_restore_claimed_entry` |
| `AttemptFault`, `ConfirmFault` | a failing system call elsewhere |
| `Crash`, `Restart`, `Tick`, `Intrude` | the environment |

An action is one system call, because an uncooperative writer can act between
any two; cooperating processes are serialised by the flock. Clocks differ by
`Offset`, bounded by `MaxSkew`.

### WikiTransaction

State: `live` maps a wiki path to its contents or `Absent`, `claims` the
contents kept in the claims area, `journal` the pending journal with old and new
bytes of its entries. Each process has its manifest (`NoChange` for wiki
recover), the preimage it read, the journal it works under and the entries left.
`holders` and `lapsed` are the variables of `Lease`: `Begin` is a `Grant` and
`Finish` a `Return`.

| actions | code |
|---|---|
| `Begin`, `NoPending`, `StartRecovery`, `RefuseRecovery` | `apply_wiki_manifest`, `_recover_locked` |
| `Preflight`, `Decline`, `Snapshot`, `WriteJournal` | `_preflight_postimage`, `_planned_publication`, `_snapshot_journal_entries`, `_write_journal` |
| `Verify`, `Observe`, `Claim`, `CheckClaim`, `Publish`, `Confirm` | one target: `_write_live_bytes`, `_delete_live_target`, for publication and for rollback |
| `VerifyAll`, `Retire` | `_verify_live_postimages`, `_remove_journal` |
| `PublishFault`, `Crash`, `Lapse`, `Edit` | errors, deaths, the lease, editors |

`Decline` stands for every rejection of the candidate postimage (no change, no
approval, another corpus revision, an invalid reference): which one is data that
the protocol does not look at. File contents are model values.

### SyncResults

All its commands hold the source write lock, so one runs at a time: `command`
is that command with its memory, `Idle` when there is none. What survives it is
in nine variables, one per kind of file: `ledger` (shards), `guard`
(activation guards), `journal` (`inflight.jsonl` with its frames), `staged`,
`manifests`, `pending`, `receipts`, `acknowledged`, `handoffs` (the work items
in the manifests of `sources/ledger/handoffs`). `raw` is the source tree,
which `Edit` changes at any time. A record value stands for its canonical
bytes, so equal values are equal digests.

A step that has several durable writes puts them in `command.plan`, in the
order the code makes them, and one action takes one of them: `EmitStep`,
`SaveStep`, `CommitStep`, `GuardStep`, `CheckStep` (the revalidation at the end
of `use_stable_file`), `ClearStep`. `Stop` may come between any two; `StepFails`
and `CheckFails` run the rollback `Restore` of the exception handlers.

| actions | code |
|---|---|
| `StartSync`, `RecoverGuard` | `_synchronize`, `recover_activation_guards` |
| `OpenPending`, `OpenStaged`, `OpenNew`, `WriteHeader`, `OpenResumed`, `Refuse` | the branches of `_synchronize`, `SyncResultWriter.__init__`, `_resume_state` |
| `HashUnmatched`, `ReconcileFile`, `ReconcileUnverified`, `ReconcileFails`, `ReconcileAbsent` | `reconcile_inventory` for one source |
| `StartJob`, `JobDone` | `staged_jobs`, `iter_batch`, `_process_record` |
| `Reconciled`, `Observe`, `PublishHandoffs` | handoff events, `collect_durable_handoffs`, `publish_handoff_data` |
| `Stage`, `Finalize`, `SavePending` | `save_staged`, `_finalize_recoverable`, `save_pending` |
| `DropJournal`, `DropRefused`, `DropStaged` | `complete_inflight` |
| `Consume`, `StartAcknowledge`, `StartReacknowledge`, `Acknowledge`, `DropPending` | `consume_pending`, `acknowledge_sync_result_id`, `clear_pending` |
| `Adopt`, `StartRegister`, `Register` | `_adopt_source_version_unlocked`, `register_source_extraction` with `load_handoff_item` and `require_current_recipe` |

`committed`, `taken` and `proved` are history: events with a commit frame,
results whose pending pointer was removed, activations whose input was
revalidated. `ResultDelivery` is implemented with `owed` = committed and not yet
taken, `offered` = the pending result. A file is a path and its bytes: an
unchanged fingerprint and unchanged bytes are the same thing. Each source has
paths of its own, so a rename is never ambiguous. A work item is the source, the
content and the path it was made for, which is what its ID is the digest of as
long as recipes do not change. `Stop` inside the publication of a manifest may
leave its temporary name (`Litter`), before or after the manifest has its own.

### Snapshots

State: `ledger` and `guard` are the record of one URL source and its activation
guard, `url` what its descriptor says, `archive` and `output` the raw bytes and
the representation of each version. `journal`, `staged`, `manifests`, `pending`,
`receipts`, `acknowledged` are the spool, `continuation` what
`SnapshotContinuation` keeps. As in `SyncResults` the durable writes of a step
are in `command.todo`, taken one at a time.

| actions | code |
|---|---|
| `Start`, `Recover`, `Resume`, `Open`, `OpenJournal`, `OtherJournal`, `Refuse` | `snapshot_source_url` up to the capture |
| `Capture`, `CaptureFails` | `snapshot_url`: fetch or read the rendered file, archive the bytes |
| `Reuse`, `Retain`, `HandOver`, `Fail`, `Derive`, `DeriveAgain`, `Captured` | `_reuse_derivation`, `_process_web_record` and its outcomes |
| `EmitStep`, `PlanStep`, `GuardStep`, `SaveStep`, `ReadStep`, `ReadFails`, `ClearStep`, `CommitStep` | one durable write or proof; `PlanStep` is `SnapshotContinuation.prepare` |
| `StepFails`, `Stop` | `_compensate`; a crash |
| `Finish`, `FinishStops`, `FinishRefused`, `PublishAnew`, `Publish`, `PublishRefused` | `_finish_snapshot_continuation` |
| `Stage`, `Finalize`, `SavePending`, `DropJournal`, `DropRefused`, `DropStaged` | the spool, `complete_inflight` |
| `Consume`, `StartAcknowledge`, `StartReacknowledge`, `Acknowledge`, `DropPending`, `DropPlan` | consumption and `clear_snapshot_continuation` |
| `Register`, `SyncInterrupted`, `SyncRecovers` | the other commands, which `require_no_snapshot_continuation` keeps away |
| `Edit` | damaged evidence, an edited descriptor |

A capture returns any of a few bodies: one that shows nothing without a browser,
one that no extractor takes. What the transport does to get it is not modelled.

### SearchRuns

State: `files` are the documents (a content is the number of its lines that
match, the stamp its size and modification time), `active` the derivation the
ledger has for each extract. Of a run there is `directory`, `metadata` and
`spool`: the candidates, the results, and the index, which has for every page of
results where it ends (`PageStart` is where it begins). Times are relative and count
down, so that no state depends on an absolute clock. A page is counted and saved
(`Serve`) before it is returned (`Return`); `answers` is a history of both: a
page that was returned, or one that was counted by a command that then stopped.

| actions | code |
|---|---|
| `Start`, `ListFolder`, `ObserveOperand`, `BindFails` | `start_search`, `bind_operands`, `bind_link_candidate_operands` |
| `MakeDirectory`, `FillDirectory`, `Describe` | `_Run.create` |
| `FindCandidate`, `FilenamesDone`, `ReadMatches`, `IndexLastPage`, `SpoolLimit`, `RipgrepFails` | `_build`, `_build_link_candidates`: the two passes and the spool |
| `Finish`, `GiveUp` | `_Run.finish`, the handlers of `start_search` |
| `Resume`, `LoadExpired`, `LoadBlocked`, `Load`, `Validated`, `FoundStale` | `resume_search`, `validate_current`, `block` |
| `Serve`, `Return`, `PageLost`, `OutOfOrder` | `page`, `_candidate_page` |
| `Verify`, `ProofRefused`, `ProofAccepted` | `verify_search_run_proof` |
| `BuildPacket`, `Captured`, `Use` | `build_wiki_evidence_packet` |
| `StartCleanup`, `CleanBlocks`, `CleanKeeps`, `CleanUnlinks`, `CleanRemoves` | `cleanup_search_runs` |
| `Edit`, `Activate`, `Damage`, `Tick`, `Stop` | the environment |

An action reads one file or lists one folder, because people edit between any
two reads.

### RawInventory

State: `entry` says which inode a name of a directory stands for, `stamp` and
`written` are the ctime and the size with the modification time of an inode;
`items` and `skipped` the last inventory. `command` is a reader with the
descriptors it has open and what it has seen.

| actions | code |
|---|---|
| `StartWalk`, `ListDirectory`, `NextEntry`, `DirectoryMoved`, `LeaveDirectory`, `AddItem`, `EndWalk` | `inventory_raw_sources`, `_walk_raw_directory` |
| `StartUse`, `NextComponent`, `EndUse` | `use_stable_file` |
| `OpenDirectory`, `OpenFile`, `CannotOpen` | `_open_directory_entry`, `_open_regular_entry` |
| `ReadLink`, `ResolveLink`, `ResolveUp`, `ResolveName`, `ResolveFails`, `LinkRefused` | `_read_stable_link`, `_open_symlink_target` |
| `BeginChecks`, `CheckHolds`, `CheckFails`, `Checked`, `Read`, `ReadFails` | `_open_content_is_unchanged`, and the reading between two of them |
| `Write`, `Move` | people |

An action is one system call. A change gives the inode a stamp of its own, and a
rename gives one to the inode and to both directories, as file systems do.

## 3. Runs

| run | what it checks | bounds |
|---|---|---|
| `SourceLockIntruder` | `VerifiedRemoval`, `NeverOverwritten` | two processes, two interventions, stale after one tick |
| `SourceLockOrphan` | `TypeOK`, `MutualExclusion`, `ImplementsLease`, `OrphanRecovered` | a process on each of two machines, clocks one tick apart, three ticks with a stale period of two, a crash, a restart and a failing call, fairness |
| `WikiTransactionAtomic` | `JournalRecoverable`, `ImplementsAtomicWiki`, `PendingCleared` | two processes, three paths, a manifest that rewrites, adds and leaves a path and one that removes and rewrites, three crashes, fairness |
| `WikiTransactionEdited` | `TypeOK`, `NoEditDestroyed`, `StrangerNeverReplaced` | two processes, one path, an edit, a crash, a lease that lapses at any time |
| `WikiTransactionLapsed` | `PublishedOrRecoverable`, violated | two paths, no crash, a lease that lapses |
| `SyncResultsEdited` | `TypeOK`, `AnnouncedWasActive`, `ActiveIsProved`, `OneOutstandingResult`, `EveryEventOnce`, `HandoffsAreDurable`, `ImplementsResultDelivery` | one source, two paths, two contents, two edits, two crashes or failing calls, three timestamps |
| `SyncResultsDelivered` | `ActiveIsAnnounced`, `OwedDelivered`, `JournalAnswered` | two sources, two workers, init and sync, one crash or failing call, an obedient client, fairness |
| `SyncResultsInterruptedTwice` | `InterruptedRetried`, violated | one source, two crashes |
| `SyncResultsTornHeader` | `JournalAnswered`, violated | one source, one crash after the creation of the journal |
| `SnapshotsPlanned` | `TypeOK`, `ResultIsThePlanned`, `ActiveIsProved`, `ActiveIsAnnounced`, `PlanStands`, `OfferedIsWhole`, `SettledIsDelivered` | two bodies (one needs a browser, one has no extractor), two URLs, three requests (network, rendered, another claim of the same approval), two captures, one crash or failing call, one edit, fairness |
| `SearchRunsEdited` | `TypeOK`, `ResultsAreOneMoment`, `PacketIsOneMoment`, `AcceptedWasServed`, `BlockedForGood`, `RemovalPutOffOnce` | one run, a page, a question and an extract, no or two matching lines each, one match to a result page, two edits, one tick of waiting, crash or damaged spool |
| `RawInventoryEdited` | `TypeOK`, `AcceptedWasThere`, `BytesAreOneVersion`, `UsedIsInventoried`, `PresentIsAccounted` | a directory in `sources/raw` and one elsewhere, two files, two links, three names, one of them ignored, two links followed, two changes between any two system calls |

The bounds. One crash leaves an orphan of the lock; one more would only repeat
it. The stale period is crossed when `MaxTime >= StaleAfter`, which every run
allows, and in `SourceLockOrphan` the skew is what makes it early. Two inodes
give each process a file, four let two processes and two intruders each have
one. A third process that competes with the one that recovers an entry, two of
them on one machine, any number of crashes and failing calls: these the theorems
cover. An editor's danger is at one path and one edit, between the claim and
the publication of a command and of another one after a lapse; the theorems
again hold for every number of paths and edits. For the
wiki, a crash of the publication, one of the recovery, and one of the recovery
that a second apply performs are the three ways a transaction is interrupted;
three paths give a target already replaced, one in progress and one untouched.
Deadlock is checked except in the lock runs, where bounded time and crashes let
every process be dead or waiting, and in the runs of `SyncResults` and
`Snapshots`, where the timestamps run out (`MaxTime`; only a command that begins
new work takes one, so the recovery of old work is never bounded by it). There
two edits move a file and bring it back or change it and restore it; two crashes
interrupt a sync and its recovery; a second timestamp is a second result, and
the third one is for an adoption or a registration between them. Two sources let
one extraction fail or be interrupted while another is committed.

In `Snapshots` the second capture meets what the first one left: a retained
version to reuse, a claim to conflict with, a failed capture whose journal is
resumed; one fault puts a continuation at every point of its life. In
`SearchRuns` a run ID is random and never used again, so one run is all runs:
nothing relates two of them. Two edits take a document away and bring it back,
or change two documents in turn, which is what a search that reads one after
the other could mix up; two matching lines of three documents make runs of
several pages. The tick that a command waits for the lock counts with the
faults. In `RawInventory` two renames take the directory of an open file out of
`sources/raw` and put something in its place, or swap two entries; the two trees
have a file that is reached by three paths, and a link that would leave
`sources/raw`. `AcceptedWasThere` is about paths that pass through the directory
under one name only (`OneWay`): the edges of a path are compared one after the
other and without their ctime. With five changes, which is more than this run
has, the directory of a path `1/1` that is a link to `../2/2` is moved to and fro
between its two names, is under the right one at each comparison, and the file
is accepted although the path never led to it. Restricted to `OneWay` the
property holds for such a tree with five renames of the directory as well.

Fairness (`FairSpec` of `SourceLock`): weak fairness of a live process's own
steps and of starting a command (somebody keeps running commands), strong
fairness of getting the flock (flock(2) queues its waiters), and time passes.
`FairSpec` of `WikiTransaction`: weak fairness of a command's own steps and of
beginning some command. `FairSpec` of `SyncResults`: weak fairness of a running
command, strong fairness of each retried `init` or `sync`, of consuming and of
acknowledging the pending result: the client repeats what it is told to repeat,
and somebody else's command may hold the lock in between, again and again.
`FairSpec` of `Snapshots`: weak fairness of a running command, strong fairness
of the planned request tried again, of consuming or acknowledging the pending
result, and of repeating the last acknowledgement. `SearchRuns` and
`RawInventory` promise nothing in time: a caller that gives up loses nothing.
Crashes, faults, edits and lapses are never fair. `Obedient` says that
adopt-version and register-extraction run only when every result is
acknowledged, as the skill documents demand; the liveness run needs it, the
safety runs do without.

## 4. What the runs show

- The lock excludes on one machine for as long as the body runs: recovery needs
  a dead owner. Across machines it is a lease: `MayRecover` looks only at the
  age, so a body longer than the stale period (less the skew) can be joined by
  another. `Lease` is exactly that promise.
- An uncooperative writer can make an attempt fail but never loses a file to the
  lock: the capture is unlinked only when it is the observed inode.
- A wiki transaction is atomic under crashes at any step of publication and of
  recovery while its lease lasts. `Logical` is the refinement mapping: the live
  files with the originals of a pending journal in place.
- Once the lease lapses under a live publisher it is not
  (`WikiTransactionLapsed`): the publisher verifies the journal and writes the
  target in two steps, and another command can roll back and retire the journal
  in between. The docstring of `apply_wiki_manifest` promises to "atomically
  publish or leave recovery data"; the run ends with one of the manifest's two
  targets live and no journal. The refinement fails the other way round as well:
  a publisher commits by retiring its journal, and a recovery that began before
  then writes old bytes back.
- An editor's bytes survive even then: no step publishes over an existing name,
  and a captured file is kept.

- A sync may die, fail and be resumed anywhere: no representation is announced
  whose input was not revalidated, none stays active unproved without its guard,
  there is one result at a time, nothing is in it twice, and what was committed
  is in exactly one result. This needs no obedient client.
- A journal that one interruption left behind becomes a result, and the result
  is delivered, as long as the client finishes with a result before it adopts or
  registers. If it does not, a staged result or one with handoffs can be refused
  for ever (`StagedIsCurrent`, `DeliveryIsCurrent`), without a safety property
  being lost.
- Two interruptions of one extraction are one too many
  (`SyncResultsInterruptedTwice`): the retry keeps the diagnostic of the first
  recovery, and `recover_stale_extraction` refuses a record that has it. Every
  later init and sync fails at that source.
- A crash between the creation of `inflight.jsonl` and its header leaves a
  journal that no command recovers (`SyncResultsTornHeader`).
- Whatever attempt left a source to an agent, its work item is in the directory
  before a result names the source (`HandoffsAreDurable`); a stale item is
  refused. But a crash inside the publication of a manifest leaves a temporary
  name beside it, and the loader refuses the whole directory for it: a result
  with handoffs is then undeliverable until a person removes the name.
  `OwedDelivered` allows for this case (`Undeliverable`) and shows that there is
  no other.
- A captured page is returned as it was planned, or not at all: the continuation
  fixes the event before the last checkpoint, everything else is kept away while
  it stands, and once the checkpoint is durable the same request tried again
  ends in an acknowledged result, as long as nobody damages the evidence or
  edits the URL.
- A page of search results that is returned, and a proof that is accepted, is of
  the wiki at one moment, though the files are listed, found, read and validated
  one after the other while people edit. For active sources this is not claimed:
  their representations are immutable. A blocked run stays blocked, even when
  the wiki returns to what it was.
- Pages are counted in order, and counted before they are returned. A crash or a
  failing call in between loses a page that counts as served (an `answers` entry
  with `got = FALSE`): a caller that makes its own cursor then gets the next one,
  and the run can be accepted as a proof. `AcceptedWasServed` is what holds: there
  is no other way to an accepted run with a page nobody has seen.
- A file that is accepted is what its path led to, in one version, while people
  write it, replace and restore links and files, and move one directory that
  paths pass through under one name (`OneWay`, section 3); nothing is claimed of
  trees where several directories, or nested ones, are moved during one check.
  What is at its place all through a walk is not reported missing. A source moved from a directory not yet listed to one
  already listed is in neither listing and is taken for missing by this sync;
  the next one finds it.

## 5. Proofs

`SourceLockProofs`, for any number of processes, machines, inodes and any bounds
(only `LockConstants` is assumed, plus `MaxExternals = 0` where said):

- `TypeCorrect`: `Spec => []TypeOK`. It needs the protocol invariant `Inv`,
  because `Unlink` keeps `quarantined` in `Nat` only when the settled claim has
  a quarantine name (`Captured`).
- `RemovalVerified`: `Spec => VerifiedRemoval`, with intruders. `Inv` says who
  is inside an attempt (`FlockHeld`), that a created file keeps its creator's
  stamp (`Stamped`) and that an observation kept for a claim is of a file the
  process may remove (`Justified`), which stays true as long as it is kept
  because a referenced inode is not handed out again (`InodeStep`).
- `Exclusion`: with `MaxExternals = 0`, `Spec => []MutualExclusion`.
  `ExclusionInv` adds that the name shows the file being written or claimed
  (`OnEntry`), that stamps are not in the future (`StampPast`), that whoever is
  about to be displaced has lapsed (`Displaces`), and that a holder has the name
  or has lapsed (`Supported`). Two unlapsed holders would both have the name.
- `LeaseRefinement`: with `MaxExternals = 0`, the protocol implements `Lease`.

`WikiTransactionProofs`, for any wiki, contents, manifests and processes:

- `TypeCorrect`, `StrangersKept`, `EditsKept`: type correctness and the two
  properties about editors, with any edits, crashes and lapsed leases. The
  invariant `LocalInv` relates the locals of a command: a working command has a
  journal and its remaining entries belong to it (`Engaged`), a publisher's
  journal is its plan (`Sourced`), what it expects of a target is one of the
  transaction's contents (`Expecting`) and what it captured and checked is what
  it expected (`Capturing`). `EditsKept` rests on `FilesKept`: a name is emptied
  only into the claims area, and filled only when free.
- `AlwaysRecoverable`, `AtomicRefinement`: with `Edits = {}` and `MayLapse =
  FALSE`, `Spec => []JournalRecoverable` and `Spec => ImplementsAtomicWiki`.
  `AtomicInv` adds that one command works at a time (`Alone`) and that the files
  are as it left them (`Held`). Under it the wiki a reader is owed changes in
  one step only, the retirement of a publisher's journal (`WikiStep`). Both
  assumptions are needed: without the second one, `WikiTransactionLapsed` has
  a write that no journal covers.

`SyncResultsProofs`, for any sources, paths, contents and bounds, so for any
number of parallel extractions, edits, crashes and failing calls:

- `TypeCorrect`: `Spec => []TypeOK`. What a command takes for its target, the
  manifest it has finalized or the consumed result it acknowledges, has to be one
  in that phase only (`PhaseHolds`), and what a plan saves has to be a record.
- `ActiveProved`: `Spec => []ActiveIsProved`: readers are never shown a
  derivation whose input was not revalidated. An active record is written
  before its input is checked, so the property is not inductive: what holds is
  that the record is behind its guard until the check (`LedgerEarned`), and that
  the plan of the command still has the steps that lead there. `PlanHolds` says
  so for every suffix of a plan: an active record is saved only when it was
  earned before or its guard comes right before it (`SaveEarned`), a guard is
  cleared only after the check of a record that is saved behind it
  (`ClearEarned`), and a guard that stands while a sync works is one that its
  plan clears (`GuardCleared`), so that no plan finds the guard of another.
  A crash drops the plan and leaves the guard; `RestoreEarned` shows that rolling
  the activation back is safe whatever was written behind it. `EarnedAdvances`,
  `ClearedAdvances`, `JobAdvances` and `LedgerAdvances` are about the head of any
  plan; the actions need to show only that the plan they lay is a sound one.

These rest on `BoundsAreNaturals`, and on `NoRecordIsNone` and `NoGuardIsNone`,
by which the value for an absent shard or guard is not one of theirs.

`SyncDeliveryProofs`, again for any sources and bounds, and with no obedience
asked of the client:

- `OneOutstanding`: `Spec => []OneOutstandingResult`. Several files may describe
  one run after a crash: its journal, the staged copy, a manifest, the pending
  pointer. `SpoolAgrees` says that whichever of them exist are of the same run,
  and that a manifest nobody has taken yet is `Outstanding`: the pending one or
  the one the staged run leads to (`ResultOf`). That a second finalization leads
  to the same result needs `EndSpooled`: the ledger is still the checkpoint.
- `HandoffsDurable`: `Spec => []HandoffsAreDurable`. The items are published
  before the run is staged, and a staged run keeps what it hands over
  (`SpoolHandoffs`); an event hands over a record in the state it waits in
  (`StepSpooled`, for every step of a plan).
- `DeliveryRefinement`: `Spec => ImplementsResultDelivery`. What is owed is at
  any time in the journal, the staged run or the pending result (`Carried`), and
  a commit frame follows the event it commits, from this run or an interrupted
  one. A result carries the time of its run, later than every result taken
  before (`SpoolOrdered`, `EffectsAt`), so nothing is taken twice.

- `AnnouncedActive`: `Spec => []AnnouncedWasActive`. The event of an activation is
  journaled before its record is saved, so the journal of a run that died may
  announce a record that never was active, and a later run finalizes that
  journal. An event without a commit frame is kept if the ledger ends with its
  record, so the invariant keeps such a record out of the ledger, except behind
  its guard (`LedgerUnannounced`), and what a guard rolls back to must be none
  either (`GuardUnannounced`). A record is past an announcement (`Past`) for one
  of two reasons. Either what was announced has come about and is at rest until
  another version is adopted (`Settled`: no command extracts those bytes again).
  Or the extraction that announced it was found dead (`Revoked`), which leaves the
  diagnostic `stale_extracting_recovered`; it stays with its source, and the record
  announced before lacks it, so the same record is not produced again. Of two
  announcements of one content in a journal, one is revoked and not committed
  (`LogApart`). A command is reconciling, has laid out one activation, of which a
  suffix is left (`Activating`, `ActivatingBy`), or does nothing that announces
  (`QuietPlan`); and no source is at once to do, requested and extracted
  (`InFlight`), by which no second activation finds the record of the first.
- `EventsOnce`: `Spec => []EveryEventOnce`, from the same invariant and one about
  journals. A resumed run looks for an event before it appends it; a first attempt
  does not, and relies on preparing no event twice. `Spent` says of an event that
  the rest of a first attempt does not prepare it: its source is reconciled, its
  request is gone from the batch, its extraction has come back, it was observed.
  Every event in the journal is spent, and a plan emits one at most, which is not
  there (`PlansOnce`); so no journal has an event frame twice (`LogOnce`), and a
  selection from it has none twice (`ResultOnce`). That leaves events that differ
  in their records only, which a consumer does not see: two of one handoff cannot
  both be the record the run ended with, and two of one representation are ruled
  out by `LogApart`.
- `ActiveTold`: `Spec /\ [][Undisturbed]_vars => []ActiveIsAnnounced`, assuming
  `Obedient`. A record owes a message when its last attempt was a derivation or a
  handoff (`Owes`). It was told by a result that was taken (`Told`), or the message
  is `OnItsWay`: in the one outstanding result; or, before a run is staged, the
  journal stands, the raw file is the one the record describes, the record is in
  its derived state, and an announcement of exactly this record is in the journal.
  `LedgerTells` says so of every record without a guard, `GuardTells` that a
  rollback leads to a record that owes nothing, `CommandTells` of each record the
  running command is going to save, of its requests and running extractions
  (`InHand`) and of waiting sources it has yet to hand over (`HandedOver`). Every
  step but one keeps what is on its way (`NextGrows`, `SafeStays`); staging turns
  it into the result (`StagedTells`), because an untold record is the one the
  announcement was prepared for and finalize keeps that. Reconciliation must leave
  it untouched for this (`ReconciledSafe`).
  Both hypotheses are needed; TLC has a counterexample without either. When the raw
  file goes after a crash between the cleared guard and the commit frame, the
  resumed run saves the record as missing, and drops the announcement: its record is
  no longer current. `Undisturbed` forbids changes of raw files only from the opening
  of a journal until its run is staged. adopt-version and register-extraction
  change records too, and an obedient client runs them between acknowledged results.
- `ActiveToldUnedited`: with `MaxEdits = 0`, as in `SyncResultsDelivered`,
  `Undisturbed` follows, and the property holds of `Spec`.

They add `NoResultIsNone` and `NoJournalIsNone`. `DeliveryInv` contains the
invariant of `SyncResultsProofs`.

`SelectionProofs` holds lemmas only, about `SelectIn`, the loop that keeps the
wanted elements of a sequence (`Selection`: the selection has an element exactly
if it is wanted and was there; of two sequences joined it is the selections
joined, `SelectConcat`). They say nothing of the program; the theorems of
`SearchRunsProofs`, `RawInventoryProofs` and `SnapshotsProofs` rest on them. The induction is over lengths, carried out with sets: the least
length that fails, if there is one (`LeastElement`), has a predecessor that does
not. `SelectIn` is a recursive function because `SelectSeq` of the standard
modules is a recursive operator.

`SearchRunsProofs`, for any documents, scopes, number of runs, and bounds on
edits, waiting, crashes and damage:

- `TypeCorrect`: `Spec => []TypeOK`. That the index of a run reaches its last
  promised page is not a matter of types: it holds because pages are promised
  after they are written, and a building command is alone with its run
  (`Phased`: `Building`, `Unfinished`).
- `AcceptedServed`: `Spec => []AcceptedWasServed`: every page of an accepted run
  was returned, or lost by a command that had counted it. `Accounted` relates the
  metadata of a run to `answers`: each page up to `highest` is among them
  (`Settled`), except the one that the running command has counted and not yet
  returned (`Due`). A command that has accepted a proof found the run fully
  served, and is not in that phase. That every page was *returned* is not true of
  the code.
- `BlockedStays`: `Spec => BlockedForGood`. `Obeys` is what every writer of
  metadata does; `MetadataObeys` shows it for each of them. A building command
  might clear a block by finishing: `Unfinished` excludes it. Until its run is
  hashed, only that command may unblock it, so a run whose command failed or
  died before that stays blocked.
- `RemovalOnce`: `Spec => RemovalPutOffOnce`, from the same lemma.
- `ServedOneMoment`: `Spec => []ResultsAreOneMoment`. A record is read up to three
  times (identity, file names, lines) and compared once more, each time as it is
  by then, so no step establishes the property. `Moments` says what can be relied
  on in between. A record that still is as the run recorded it was so at every
  moment since (`NoReturn`: each write has its own stamp, `Stamped`). So what is
  true of the recorded records *that have not changed* lasts (`Truthful`,
  `StaysTruthful`): a built run is `Truthful` (`Built`), and one that is being
  built is so of the files it is past (`Progress`). A validation makes it
  unconditional: the records it has compared, and those that nobody has changed,
  were as recorded at one moment it has lived through (`Covered`: the moment is
  when the command began to look, for a record that changes later was compared
  before or will be refused), and a record it did not list was absent at some moment (`Unlisted`).
- `PacketOneMoment`: `Spec => []PacketIsOneMoment`. A document captured in a state
  that differs from the record has changed since the run was built, so the second
  validation refuses (`Captures`).

`Within` is needed for types: what is observed is among the documents of the
scope. Assumed are `BoundsAreNaturals`, that contents count lines
(`ContentsAreCounts`), that paths are ordered (`PathsAreOrdered`; a candidate is
chosen by its least path) and that the values for an absent document and absent
metadata and for no command are none of theirs (`AbsentIsNone`,
`NoMetadataIsNone`, `IdleIsNone`).

`RawInventoryProofs`, for any trees, names, links and texts of links, and any
number of changes between any two system calls:

- `TypeCorrect`: `Spec => []TypeOK`; the tree part is `MovesInTree`, the part on
  links needs that one is counted before it is followed (`Looking`).
- `BytesOneVersion`, `UsedInventoried`: `Spec => []BytesAreOneVersion` and `Spec
  => []UsedIsInventoried`. Bytes of several versions may well have been read; what
  is invariant (`Reading`) is that they are of the version remembered *if* the
  stamp of the file is as it was, which every edit preserves because it sets a
  stamp newer than any other (`Edited`). A validation has the open file among its
  checks (`ChecksTyped`), and until it has come to it the file is still on its
  list (`CheckHoldsKeeps`); after that the condition is gone. An item's bytes are
  those of its fingerprint (`Reported`), so those of a later use with the same
  fingerprint are the item's.
- `PresentAccounted`: `Spec => []PresentIsAccounted`. A walk partitions the paths
  (`Walked`): those `Ahead` of it are not reported yet, all others are an item,
  under a diagnostic, or did not lead to a file at some moment since the walk
  began. `GoesOn` is what a step of the walk has to show. A name that is missing
  from a listing, is a directory when it is looked at or is none led nowhere then
  (`Leads`), and this is remembered until the entry is done with (`Misled`), by
  when it may be something else.

Assumed are `BoundsAreNaturals`, `NamesAreOrdered` (finitely many, the next one
is the least), `InodesAreDistinct`, `LinksHaveTargets`, `TreesAreTrees` (before
the first command) and `NothingIsSeen`.

`SnapshotsProofs`, for any bodies, URLs, requests and claims, and any number of
captures, crashes, failing calls, damaged files and edited URLs:

- `TypeCorrect`: `Spec => []TypeOK`.
- `PlannedResults`: `Spec => []ResultIsThePlanned`. A capture may resume the
  journal of one that failed, so a journal holds more than its plan says. When
  the plan is made, all frames before those of this capture are events of earlier
  captures (`Older`): their records have an earlier time, so they are not the
  record the ledger will hold, and no commit frame is theirs. `WellPlanned` says
  what follows: selected from the planned journal, with the candidate in the
  ledger, come exactly the planned events (`ActivationYields`, `HandoffsYield`).
  From then on the journal is published only if it is the planned one, with its
  commit or without (`CommitFollows`), so `FinalizedIsPlanned` applies.
- `ActiveProved`: `Spec => []ActiveIsProved`. The property speaks of the moments
  when no command runs; what is invariant (`ActiveWasProved`) does so always: an
  active record is written behind its guard, or when the same content was active
  before (`StillActive`), and the guard goes after the proof (`ActivationHolds`).
- `ActiveConsumed`: `Spec => []ActiveIsAnnounced`. The continuation ends only
  when its result was consumed, and that result has an event of the candidate's
  content, unless the derivation was active already and the content announced
  then (`LiveIsAnnounced`, `PlannedAnnounces`). A record left to an agent was
  handed over, so what is registered for it later is announced too.
- `PlanKept`: `Spec => PlanStands`. A guard that stands is the plan's, and rolls
  back to a record whose activation is the candidate (`GuardIsPlanned`); nothing
  else is saved while there is a plan (`PlannedSaves`).
- `OfferedWhole`: `Spec => OfferedIsWhole`: the evidence was seen by this command
  from the phase `publish` on (`Offering`).

The invariant `Inv` has two halves. `Stored` is what files say about each other
whatever runs: a staged and a pending result are the continuation's, and what is
left of the journal behind them can publish nothing (`SpoolIsBound`). `Phased`
says where the running command is: which suffix of which script it still has to
take (`Activating`, `Still`, `Plain`, `InExtract`) and what is stored at that
step. A crash forgets the second half, so `Stored` alone must be enough to begin
again. `Kinds` finds, for a step that is next, the positions it can be at. Each
action has a lemma. Assumed are `BoundsAreNaturals`, `KindsOfBodies` and that
the values for an absent record, guard, journal, event, plan, result and command
are none of theirs.

Only model-checked: liveness (`OrphanRecovered`, `PendingCleared`,
`OwedDelivered`, `JournalAnswered`, `SettledIsDelivered`; fairness and ENABLED
are outside the prover), and `AcceptedWasThere` of `RawInventory`.
What a path means is a recursive function of the texts of links (`Follow`), and
what it yields for all of them is an induction over data.

## 6. Not modelled, and the plan

Pure text processing, validation, network and converter I/O are left out: they
keep no state between calls, or what can go wrong in them is not a matter of
order. `PROJECT.json` gives the reason per component. Inside `SyncResults` the
following is left out: URL descriptors and web approval, ambiguous renames and
unsupported files, the attempt outcomes failed and warning (they differ from a
handoff only in that nothing is handed over), the events `hashed_path` and
`coverage_gap`, the generated summary `sources/ledger.md`, changes of the recipe
between a work item and its registration; the handoff delivery file is written
in one step with the receipt. `Snapshots` leaves out redirects, name resolution
and pinned connections; `SearchRuns` the terms and the context of a match, and
the MAC of a cursor; `RawInventory` media detection, the parsing of descriptors
and packages, and directories nested deeper than one.

Some steps of the code are one step of a model, and some refusals are missing:

- `WikiTransaction`: `Retire` checks the journal and renames it in one step.
- `SyncResults`: `FileOf` goes on where two paths get the same source ID, which
  the code refuses.
- `Snapshots`: `PlanStep` publishes the handoff manifest, appends its event and
  saves the continuation. A crash between the first two and the last leaves an
  older event without commit, which the model has from failed captures.
- `SourceLock`: `SettleFault` leaves out a parent directory that no longer
  validates, and a failing link, while the name is still free after a capture.
- `RawInventory`: `ListDirectory` is one step, though a long listing is several
  system calls. A fingerprint (`Version`) is the inode with its size and
  modification time; the code compares the latter two only, which is the same as
  long as no two files in play share both.

What the code accepts, and no property is stated against: a torn lock entry fails
closed until a person removes it, a reused pid keeps an orphan of the lock alive,
and an entry that was captured and put back is no longer recognised by its owner's
release. Recovery of a wiki transaction refuses bytes its journal does not know.
adopt-version refuses to run while an activation guard stands, until a sync has
cleared it. A continuation whose checkpoint never became durable, or whose URL was
edited, ends with no command; a failed capture leaves a journal that init and sync
refuse until another capture has succeeded. A crash that leaves a temporary file
in the directory of a search run keeps that directory for good. Edits that restore
both size and modification time are not seen by anything.

Next, in this order:

1. `AcceptedWasThere` for paths without links, where no recursion is met.
2. URL records and ambiguous renames in `SourceRecords`.
3. The extraction pool with its deadlines and staged inputs.
