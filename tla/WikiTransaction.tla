-------------------------- MODULE WikiTransaction --------------------------
(***************************************************************************)
(* wiki apply and wiki recover of brainlib/wiki_transaction.py: a manifest *)
(* is published target by target under a journal of the original bytes;    *)
(* the journal's retirement is the commit point, and until then any later  *)
(* command rolls the targets back.                                         *)
(*                                                                         *)
(* The two nested locks are one lease (Lease.tla, which SourceLock         *)
(* implements); a lease may lapse under a process that goes on.  Editors   *)
(* outside the program write live files without any lock.                  *)
(***************************************************************************)
EXTENDS Integers

CONSTANTS
    Procs,          \* processes running wiki apply or wiki recover
    Paths,          \* logical wiki paths, numbered in sorted order
    Bytes,          \* file contents
    Edits,          \* bound: one content per intervention of an editor
    Absent,         \* the path does not exist
    Keep,           \* the manifest leaves the path alone
    Manifests,      \* the changes users ask for
    NoJournal,
    MaxCrashes,     \* bound: deaths and errors that unwind a command
    MayLapse        \* whether a lease may lapse under a live holder

Content == Bytes \union {Absent}

ASSUME WikiConstants ==
    /\ Paths \subseteq Nat
    /\ Edits \subseteq Bytes
    /\ Absent \notin Bytes /\ Keep \notin Content
    /\ Manifests \subseteq [Paths -> Content \union {Keep}]
    /\ MaxCrashes \in Nat /\ MayLapse \in BOOLEAN

VARIABLES
    live,           \* the wiki files
    claims,         \* contents retained in wiki-transaction-claims
    journal,        \* wiki-transaction.json
    holders, lapsed,    \* the lease
    pc, job,        \* where each process is; rolling back or publishing
    manifest,       \* what it applies; NoChange for wiki recover
    before,         \* the preimage its preflight read
    seen,           \* the journal it works under
    todo,           \* entries it has still to handle
    expect,         \* the bytes the current target must show
    captured,       \* the bytes it moved into the claims area
    crashes,
    edits,          \* interventions of editors so far
    standing        \* contents an editor wrote and no editor replaced

vars == <<live, claims, journal, holders, lapsed, pc, job, manifest, before,
          seen, todo, expect, captured, crashes, edits, standing>>

lease  == <<holders, lapsed>>
plan   == <<job, manifest, before, seen>>
target == <<expect, captured>>
env    == <<crashes, edits, standing>>

Lease == INSTANCE Lease WITH Clients <- Procs

-----------------------------------------------------------------------------
Wikis    == [Paths -> Content]
NoChange == [t \in Paths |-> Keep]
Empty    == [t \in Paths |-> Absent]

\* Originals and new bytes of the entries; Absent everywhere else.
Journals == [by : Procs, entries : SUBSET Paths, old : Wikis, new : Wikis]

ASSUME NoJournalIsNone == NoJournal \notin Journals

Counters == {"idle", "read", "preflight", "snapshot", "journal", "verify",
             "observe", "claim", "check", "publish", "confirm", "retire"}

TypeOK ==
    /\ live \in Wikis
    /\ claims \subseteq Bytes
    /\ journal \in Journals \union {NoJournal}
    /\ holders \subseteq Procs /\ lapsed \subseteq holders
    /\ pc \in [Procs -> Counters]
    /\ job \in [Procs -> {"recover", "apply"}]
    /\ manifest \in [Procs -> Manifests \union {NoChange}]
    /\ before \in [Procs -> Wikis]
    /\ seen \in [Procs -> Journals \union {NoJournal}]
    /\ todo \in [Procs -> SUBSET Paths]
    /\ expect \in [Procs -> Content]
    /\ captured \in [Procs -> Content]
    /\ crashes \in Nat /\ edits \subseteq Edits /\ standing \subseteq edits

Init ==
    /\ live \in [Paths -> (Bytes \ Edits) \union {Absent}]
    /\ claims = {}
    /\ journal = NoJournal
    /\ Lease!Init
    /\ pc = [p \in Procs |-> "idle"]
    /\ job = [p \in Procs |-> "recover"]
    /\ manifest = [p \in Procs |-> NoChange]
    /\ before = [p \in Procs |-> Empty]
    /\ seen = [p \in Procs |-> NoJournal]
    /\ todo = [p \in Procs |-> {}]
    /\ expect = [p \in Procs |-> Absent]
    /\ captured = [p \in Procs |-> Absent]
    /\ crashes = 0 /\ edits = {} /\ standing = {}

-----------------------------------------------------------------------------
(* Helpers.                                                                *)

\* The complete postimage preflight builds from the manifest.
Postimage(p) ==
    [t \in Paths |-> IF manifest[p][t] = Keep THEN before[p][t]
                                              ELSE manifest[p][t]]

\* Mutant of Planned: deletions are forgotten.
PlannedWrites(p) == {t \in Paths : Postimage(p)[t] \notin {before[p][t], Absent}}

Planned(p) == {t \in Paths : Postimage(p)[t] # before[p][t]}

\* Mutant of Want: a rollback inside wiki apply publishes its own manifest.
WantOfCommand(p, t) ==
    IF manifest[p] = NoChange THEN seen[p].old[t] ELSE Postimage(p)[t]

\* The bytes a target is to have in the end.
Want(p, t) == IF job[p] = "recover" THEN seen[p].old[t] ELSE seen[p].new[t]

\* Entries are handled in sorted order.
Target(p, t) == t \in todo[p] /\ \A u \in todo[p] : t <= u

\* Mutant of Recoverable: a target may not be absent half-way.
RecoverablePresent(j, t) == live[t] \in {j.old[t], j.new[t]}

\* _validate_journal_current_entry: a target may be absent, old or new.
Recoverable(j, t) == live[t] \in {Absent, j.old[t], j.new[t]}

\* Leaving the two lock contexts, by return or by exception.
Finish(p) ==
    /\ pc' = [pc EXCEPT ![p] = "idle"]
    /\ job' = [job EXCEPT ![p] = "recover"]
    /\ manifest' = [manifest EXCEPT ![p] = NoChange]
    /\ before' = [before EXCEPT ![p] = Empty]
    /\ seen' = [seen EXCEPT ![p] = NoJournal]
    /\ todo' = [todo EXCEPT ![p] = {}]
    /\ expect' = [expect EXCEPT ![p] = Absent]
    /\ captured' = [captured EXCEPT ![p] = Absent]
    /\ Lease!Return(p)

\* The current target is settled: on to the next entry.
Settle(p, t) ==
    /\ pc' = [pc EXCEPT ![p] = "verify"]
    /\ todo' = [todo EXCEPT ![p] = @ \ {t}]
    /\ expect' = [expect EXCEPT ![p] = Absent]
    /\ captured' = [captured EXCEPT ![p] = Absent]

-----------------------------------------------------------------------------
(* apply_wiki_manifest(), recover_wiki_transaction().                      *)

Begin(p) ==
    /\ pc[p] = "idle"
    /\ Lease!Grant(p)
    /\ MayLapse \/ lapsed' = lapsed
    /\ \E m \in Manifests \union {NoChange} :
          manifest' = [manifest EXCEPT ![p] = m]
    /\ pc' = [pc EXCEPT ![p] = "read"]
    /\ UNCHANGED <<live, claims, journal, job, before, seen, todo, target, env>>

\* _recover_locked: nothing to recover.
NoPending(p) ==
    /\ pc[p] = "read"
    /\ journal = NoJournal
    /\ IF manifest[p] = NoChange
       THEN Finish(p)
       ELSE /\ pc' = [pc EXCEPT ![p] = "preflight"]
            /\ UNCHANGED <<lease, plan, todo, target>>
    /\ UNCHANGED <<live, claims, journal, env>>

\* Every entry is proved recoverable before the first target is touched.
StartRecovery(p) ==
    /\ pc[p] = "read"
    /\ journal # NoJournal
    /\ \A t \in journal.entries : Recoverable(journal, t)
    /\ seen' = [seen EXCEPT ![p] = journal]
    /\ todo' = [todo EXCEPT ![p] = journal.entries]
    /\ pc' = [pc EXCEPT ![p] = "verify"]
    /\ UNCHANGED <<live, claims, journal, lease, job, manifest, before, target,
                   env>>

\* InvalidWikiJournal: a target has bytes the transaction never wrote.
RefuseRecovery(p) ==
    /\ pc[p] = "read"
    /\ journal # NoJournal
    /\ \E t \in journal.entries : ~Recoverable(journal, t)
    /\ Finish(p)
    /\ UNCHANGED <<live, claims, journal, env>>

\* _preflight_postimage and _planned_publication: there is something to
\* publish, and what the manifest deletes exists.
Preflight(p) ==
    /\ pc[p] = "preflight"
    /\ before' = [before EXCEPT ![p] = live]
    /\ \E t \in Paths : manifest[p][t] \notin {Keep, live[t]}
    /\ \A t \in Paths : manifest[p][t] = Absent => live[t] # Absent
    /\ pc' = [pc EXCEPT ![p] = "snapshot"]
    /\ UNCHANGED <<live, claims, journal, lease, job, manifest, seen, todo,
                   target, env>>

\* Nothing to publish, or the manifest, its approval, its corpus revision or
\* its candidate postimage is rejected.
Decline(p) ==
    /\ pc[p] = "preflight"
    /\ Finish(p)
    /\ UNCHANGED <<live, claims, journal, env>>

\* _snapshot_journal_entries: the preimage is still what preflight read.
Snapshot(p) ==
    /\ pc[p] = "snapshot"
    /\ IF live = before[p]
       THEN /\ pc' = [pc EXCEPT ![p] = "journal"]
            /\ UNCHANGED <<lease, plan, todo, target>>
       ELSE Finish(p)
    /\ UNCHANGED <<live, claims, journal, env>>

\* _write_journal: written to a temporary name, renamed without replacing.
WriteJournal(p) ==
    /\ pc[p] = "journal"
    /\ IF journal = NoJournal
       THEN LET within(w) == [t \in Paths |->
                                IF t \in Planned(p) THEN w[t] ELSE Absent]
                j == [by |-> p, entries |-> Planned(p),
                      old |-> within(before[p]), new |-> within(Postimage(p))]
            IN  /\ journal' = j
                /\ seen' = [seen EXCEPT ![p] = j]
                /\ todo' = [todo EXCEPT ![p] = Planned(p)]
                /\ job' = [job EXCEPT ![p] = "apply"]
                /\ pc' = [pc EXCEPT ![p] = "verify"]
                /\ UNCHANGED <<lease, manifest, before, target>>
       ELSE Finish(p) /\ UNCHANGED journal
    /\ UNCHANGED <<live, claims, env>>

-----------------------------------------------------------------------------
(* One target: _write_live_bytes and _delete_live_target.                  *)

\* The journal is still this process's; a publisher also rereads every
\* existing preimage it has not replaced yet, a recovery the current entry.
Verified(p, t) ==
    /\ journal = seen[p]
    /\ IF job[p] = "apply"
       THEN \A u \in todo[p] \union (Paths \ seen[p].entries) :
               before[p][u] # Absent => live[u] = before[p][u]
       ELSE Recoverable(seen[p], t)

\* A publisher expects its preimage, a recovery what it has just read.
Expected(p, t) == IF job[p] = "apply" THEN seen[p].old[t] ELSE live[t]

Verify(p) ==
    /\ pc[p] = "verify"
    /\ \E t \in Paths :
        /\ Target(p, t)
        /\ IF Verified(p, t)
           THEN /\ expect' = [expect EXCEPT ![p] = Expected(p, t)]
                /\ pc' = [pc EXCEPT ![p] = "observe"]
                /\ UNCHANGED <<lease, plan, todo, captured>>
           ELSE Finish(p)
    /\ UNCHANGED <<live, claims, journal, env>>

\* The target is read once more; it must show the expected bytes.
Observe(p) ==
    /\ pc[p] = "observe"
    /\ \E t \in Paths :
        /\ Target(p, t)
        /\ IF live[t] # expect[p]
           THEN Finish(p)
           ELSE IF live[t] = Absent /\ Want(p, t) = Absent
           THEN Settle(p, t) /\ UNCHANGED <<lease, plan>>
           ELSE /\ pc' = [pc EXCEPT ![p] =
                            IF live[t] = Absent THEN "publish" ELSE "claim"]
                /\ UNCHANGED <<lease, plan, todo, target>>
    /\ UNCHANGED <<live, claims, journal, env>>

\* Mutant of Claim: a target that vanished is taken for captured.
ClaimAnyway(p) ==
    /\ pc[p] = "claim"
    /\ \E t \in Paths :
        /\ Target(p, t)
        /\ captured' = [captured EXCEPT ![p] = live[t]]
        /\ claims' = claims \union {live[t]}
        /\ live' = [live EXCEPT ![t] = Absent]
        /\ pc' = [pc EXCEPT ![p] = "check"]
        /\ UNCHANGED <<lease, plan, todo, expect>>
    /\ UNCHANGED <<journal, env>>

\* _claim_regular: a rename without replacing, of whatever has the name now.
Claim(p) ==
    /\ pc[p] = "claim"
    /\ \E t \in Paths :
        /\ Target(p, t)
        /\ IF live[t] = Absent
           THEN Finish(p) /\ UNCHANGED <<live, claims>>
           ELSE /\ captured' = [captured EXCEPT ![p] = live[t]]
                /\ claims' = claims \union {live[t]}
                /\ live' = [live EXCEPT ![t] = Absent]
                /\ pc' = [pc EXCEPT ![p] = "check"]
                /\ UNCHANGED <<lease, plan, todo, expect>>
    /\ UNCHANGED <<journal, env>>

\* Mutant of Restored: the original is put back over whatever is there.
RestoredOver(p, t) == [live EXCEPT ![t] = expect[p]]

\* The verified original put back under a name that is still free.
Restored(p, t) ==
    IF live[t] = Absent THEN [live EXCEPT ![t] = expect[p]] ELSE live

\* Mutant of CheckClaim: the captured bytes are not compared.
CheckNothing(p) ==
    /\ pc[p] = "check"
    /\ \E t \in Paths :
        /\ Target(p, t)
        /\ IF Want(p, t) = Absent
           THEN Settle(p, t)
           ELSE /\ pc' = [pc EXCEPT ![p] = "publish"]
                /\ UNCHANGED <<todo, target>>
        /\ UNCHANGED <<live, lease, plan>>
    /\ UNCHANGED <<claims, journal, env>>

\* The claimed file is compared with the verified one; a stranger's stays in
\* the claims area and the original is restored from memory.
CheckClaim(p) ==
    /\ pc[p] = "check"
    /\ \E t \in Paths :
        /\ Target(p, t)
        /\ IF captured[p] # expect[p]
           THEN Finish(p) /\ live' = Restored(p, t)
           ELSE /\ IF Want(p, t) = Absent
                   THEN Settle(p, t)
                   ELSE /\ pc' = [pc EXCEPT ![p] = "publish"]
                        /\ UNCHANGED <<todo, target>>
                /\ UNCHANGED <<live, lease, plan>>
    /\ UNCHANGED <<claims, journal, env>>

\* Mutant of Publish: the clone replaces the name.
PublishOver(p) ==
    /\ pc[p] = "publish"
    /\ \E t \in Paths : Target(p, t) /\ live' = [live EXCEPT ![t] = Want(p, t)]
    /\ pc' = [pc EXCEPT ![p] = "confirm"]
    /\ UNCHANGED <<claims, journal, lease, plan, todo, target, env>>

\* _fclone_from_descriptor never replaces a name.
Publish(p) ==
    /\ pc[p] = "publish"
    /\ \E t \in Paths :
        /\ Target(p, t)
        /\ IF live[t] = Absent
           THEN /\ live' = [live EXCEPT ![t] = Want(p, t)]
                /\ pc' = [pc EXCEPT ![p] = "confirm"]
                /\ UNCHANGED <<lease, plan, todo, target>>
           ELSE Finish(p) /\ UNCHANGED live
    /\ UNCHANGED <<claims, journal, env>>

\* The clone fails: the claimed original is restored, best effort.
PublishFault(p) ==
    /\ pc[p] = "publish"
    /\ crashes < MaxCrashes
    /\ crashes' = crashes + 1
    /\ \E t \in Paths : Target(p, t) /\ live' = Restored(p, t)
    /\ Finish(p)
    /\ UNCHANGED <<claims, journal, edits, standing>>

\* The published name is read back.
Confirm(p) ==
    /\ pc[p] = "confirm"
    /\ \E t \in Paths :
        /\ Target(p, t)
        /\ IF live[t] = Want(p, t)
           THEN Settle(p, t) /\ UNCHANGED <<live, lease, plan>>
           ELSE Finish(p) /\ live' = Restored(p, t)
    /\ UNCHANGED <<claims, journal, env>>

-----------------------------------------------------------------------------
(* All targets are handled.                                                *)

\* _verify_live_postimages: a publisher proves the whole wiki, a recovery
\* the entries it restored.
AllInPlace(p) ==
    /\ journal = seen[p]
    /\ \A t \in seen[p].entries : live[t] = Want(p, t)
    /\ job[p] = "apply" =>
          \A t \in Paths \ seen[p].entries : live[t] = before[p][t]

VerifyAll(p) ==
    /\ pc[p] = "verify"
    /\ todo[p] = {}
    /\ IF AllInPlace(p)
       THEN /\ pc' = [pc EXCEPT ![p] = "retire"]
            /\ UNCHANGED <<lease, plan, todo, target>>
       ELSE Finish(p)
    /\ UNCHANGED <<live, claims, journal, env>>

\* _remove_journal: the move to a tombstone is the commit point.  After a
\* rollback, wiki apply goes on with its own manifest.
Retire(p) ==
    /\ pc[p] = "retire"
    /\ journal' = IF journal = seen[p] THEN NoJournal ELSE journal
    /\ IF journal = seen[p] /\ job[p] = "recover" /\ manifest[p] # NoChange
       THEN /\ pc' = [pc EXCEPT ![p] = "preflight"]
            /\ seen' = [seen EXCEPT ![p] = NoJournal]
            /\ UNCHANGED <<lease, job, manifest, before, todo, target>>
       ELSE Finish(p)
    /\ UNCHANGED <<live, claims, env>>

-----------------------------------------------------------------------------
(* The environment.                                                        *)

\* The process dies, or an error unwinds it, with every file as it is.
Crash(p) ==
    /\ pc[p] # "idle"
    /\ crashes < MaxCrashes
    /\ crashes' = crashes + 1
    /\ Finish(p)
    /\ UNCHANGED <<live, claims, journal, edits, standing>>

Lapse ==
    /\ MayLapse
    /\ \E ps \in SUBSET holders : Lease!Lapse(ps)
    /\ UNCHANGED <<live, claims, journal, pc, plan, todo, target, env>>

\* An editor replaces or removes a wiki file.
Edit ==
    /\ \E c \in Edits \ edits, t \in Paths :
        /\ edits' = edits \union {c}
        /\ \/ /\ live' = [live EXCEPT ![t] = c]
              /\ standing' = (standing \ {live[t]}) \union {c}
           \/ /\ live[t] # Absent
              /\ live' = [live EXCEPT ![t] = Absent]
              /\ standing' = standing \ {live[t]}
    /\ UNCHANGED <<claims, journal, lease, pc, plan, todo, target, crashes>>

Proceed(p) ==
    \/ NoPending(p) \/ StartRecovery(p) \/ RefuseRecovery(p)
    \/ Preflight(p) \/ Decline(p) \/ Snapshot(p) \/ WriteJournal(p)
    \/ Verify(p) \/ Observe(p) \/ Claim(p) \/ CheckClaim(p)
    \/ Publish(p) \/ Confirm(p) \/ VerifyAll(p) \/ Retire(p)

Next ==
    \/ \E p \in Procs : Begin(p) \/ Proceed(p) \/ PublishFault(p) \/ Crash(p)
    \/ Lapse
    \/ Edit

Spec == Init /\ [][Next]_vars

\* The scheduler runs every command to its end, and somebody keeps running
\* wiki commands.
FairSpec ==
    /\ Spec
    /\ \A p \in Procs : WF_vars(Proceed(p))
    /\ WF_vars(\E p \in Procs : Begin(p))

-----------------------------------------------------------------------------
(* Properties.                                                             *)

\* The wiki a reader is owed: the live files, with the journal's originals in
\* place of every entry of a pending transaction.
Logical ==
    IF journal = NoJournal THEN live
    ELSE [t \in Paths |-> IF t \in journal.entries THEN journal.old[t]
                                                   ELSE live[t]]

Atomic == INSTANCE AtomicWiki WITH wiki <- Logical

\* Under crashes and errors at every point, the wiki is only ever changed by
\* a whole manifest: what is torn on disk is always owed back by a journal.
ImplementsAtomicWiki == Atomic!Spec

\* Whatever a transaction left behind, the next command can roll it back: no
\* crash leaves bytes recovery would refuse.
JournalRecoverable ==
    journal # NoJournal =>
        \A t \in journal.entries : Recoverable(journal, t)

\* What an editor writes is never destroyed: it is in a live file or retained
\* in the claims area until an editor replaces it.
NoEditDestroyed ==
    \A c \in standing : c \in claims \/ \E t \in Paths : live[t] = c

\* A file with bytes that are neither the journal's old nor its new ones loses
\* its name only to be captured, and the command that captured it publishes
\* nothing over it.
StrangerNeverReplaced ==
    [][\A p \in Procs, t \in Paths :
         pc[p] = "publish" /\ pc'[p] = "confirm" /\ Target(p, t)
           => captured[p] \in {Absent, seen[p].old[t], seen[p].new[t]}]_vars

\* What the docstring of apply_wiki_manifest says: it publishes one complete
\* postimage or leaves recovery data.  When a publisher writes a target and
\* there is no journal, the write completes its postimage.
PublishedOrRecoverable ==
    [][\A p \in Procs :
         job[p] = "apply" /\ pc[p] = "publish" /\ pc'[p] = "confirm"
         /\ journal = NoJournal
           => \A t \in seen[p].entries : live'[t] = seen[p].new[t]]_vars

\* A pending transaction is eventually rolled back or committed, whatever
\* crashed, once nothing edits the wiki behind the program's back.
PendingCleared == journal # NoJournal ~> journal = NoJournal
=============================================================================
