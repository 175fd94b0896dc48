--------------------------- MODULE SourceRecords ---------------------------
(***************************************************************************)
(* The ledger record of one file source and the functions sync.py and      *)
(* ledger.py compute on it.  A record value stands for its canonical       *)
(* bytes: two records are equal exactly when their digests are.            *)
(***************************************************************************)
EXTENDS Naturals

CONSTANTS
    Paths,          \* paths a source file may have below sources/raw
    Bytes,          \* contents a source file may have
    Gone,           \* there is no such file
    NoRecord        \* the source has no ledger shard

ASSUME GoneIsNoFile == Gone \notin [path : Paths, bytes : Bytes]

Files == [path : Paths, bytes : Bytes] \union {Gone}

States == {"pending", "extracting", "ok", "needs_agent", "integrity_error", "missing"}

\* The outcome of the last attempt: none, running, a derivation, a handoff.
Attempts == {"none", "extracting", "ok", "needs_agent"}

Diagnostics == {"stale_extracting_recovered", "raw_missing"}

\* active: the derivation of the active content is the active one.  "missing"
\* is the state WARNING together with the diagnostic raw_missing; mismatch holds
\* the observed bytes of the diagnostic raw_checksum_mismatch.
Records ==
    [path : Paths, versions : SUBSET Bytes, content : Bytes, active : BOOLEAN,
     state : States, attempt : Attempts, diagnostics : SUBSET Diagnostics,
     mismatch : SUBSET Bytes, at : Nat]

ASSUME NoRecordIsNone == NoRecord \notin Records

NewRecord(file, now) ==
    [path |-> file.path, versions |-> {file.bytes}, content |-> file.bytes,
     active |-> FALSE, state |-> "pending", attempt |-> "none",
     diagnostics |-> {}, mismatch |-> {}, at |-> now]

RenameRecord(r, file, now) == [r EXCEPT !.path = file.path, !.at = now]

\* recover_stale_extraction refuses a record that already has its diagnostic.
Collides(r) == r.state = "extracting" /\ "stale_extracting_recovered" \in r.diagnostics

RecoverStale(r, now) ==
    [r EXCEPT !.state = "pending", !.at = now,
              !.diagnostics = @ \union {"stale_extracting_recovered"}]

MarkIntegrityError(r, bytes, now) ==
    IF r.state = "integrity_error" /\ r.mismatch = {bytes}
    THEN r
    ELSE [r EXCEPT !.state = "integrity_error", !.mismatch = {bytes}, !.at = now]

MarkMissing(r, now) ==
    IF r.state = "missing" /\ "raw_missing" \in r.diagnostics
    THEN r
    ELSE [r EXCEPT !.state = "missing", !.at = now,
                   !.diagnostics = @ \union {"raw_missing"}]

RestoredState(r) ==
    IF r.attempt = "needs_agent" THEN "needs_agent"
    ELSE IF r.active THEN "ok" ELSE "pending"

\* The raw file was missing or changed when it was last looked at.
ContinuityBroken(r) == r.state = "integrity_error" \/ "raw_missing" \in r.diagnostics

RefreshMatchingBytes(r, now) ==
    IF ContinuityBroken(r)
    THEN [r EXCEPT !.state = RestoredState(r), !.at = now,
                   !.diagnostics = @ \ {"raw_missing"}, !.mismatch = {}]
    ELSE r

\* Neither current nor barred by an earlier attempt on the same bytes.
MustProcess(r) == ~(r.state = "ok" /\ r.active) /\ r.attempt \in {"none", "extracting"}

ExtractingRecord(r, now) ==
    [r EXCEPT !.state = "extracting", !.attempt = "extracting", !.at = now]

Activated(r) == [r EXCEPT !.state = "ok", !.attempt = "ok", !.active = TRUE]

HandedOff(r) == [r EXCEPT !.state = "needs_agent", !.attempt = "needs_agent"]

\* The post-image an activation guard restores.
Rollback(r) == [r EXCEPT !.active = FALSE]

AdoptVersion(r, file, now) ==
    [r EXCEPT !.content = file.bytes, !.versions = @ \union {file.bytes},
              !.active = FALSE, !.state = "pending", !.attempt = "none",
              !.mismatch = {}, !.at = now]

\* What the corpus revision tells apart.
CorpusRow(r) == IF r = NoRecord THEN <<>> ELSE <<r.content, r.active>>
=============================================================================
