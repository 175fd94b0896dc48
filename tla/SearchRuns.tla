----------------------------- MODULE SearchRuns -----------------------------
(***************************************************************************)
(* Retained search runs: .brain/search-runs/<run>/ holds the authenticated *)
(* metadata, the candidates, the results and the page index of one search  *)
(* of the wiki or of the active sources, or of one link-candidate search.  *)
(* A run is bound to the operands it was built from, served page by page,  *)
(* and later accepted as a proof that everything was searched.  Commands   *)
(* hold the source write lock (module SourceLock), so one runs at a time;  *)
(* people edit the wiki between any two of its steps.                      *)
(*                                                                         *)
(* Times are relative: expires and retain count down, and waited is how    *)
(* long ago the running command read its clock, which it does before it    *)
(* waits for the lock.                                                     *)
(***************************************************************************)
EXTENDS Integers, FiniteSetsExt, Selections

CONSTANTS
    RunIds,         \* random, so none is ever used again
    Pages, Questions,  \* paths of wiki records, numbered in canonical order
    Extracts,       \* paths of extracted representations, likewise
    Contents,       \* contents of a document: the number of lines that match
    PageSize,
    TTL,            \* SEARCH_RUN_TTL
    Absent, NoMetadata, Never, Idle,
    MaxEdits,       \* bound: changes of documents and of the corpus
    MaxFaults       \* bound: crashes, damaged spools and ticks a command lives through

ASSUME BoundsAreNaturals ==
    /\ PageSize \in Nat \ {0} /\ TTL \in Nat \ {0}
    /\ MaxEdits \in Nat /\ MaxFaults \in Nat

Records == Pages \union Questions
Docs == Records \union Extracts

ASSUME ContentsAreCounts == Contents \subseteq Nat

ASSUME PathsAreOrdered ==
    /\ Docs \subseteq Nat
    /\ Pages \intersect Questions = {} /\ Records \intersect Extracts = {}

Documents == [content : Contents, stamp : 0 .. MaxEdits]

Files == Documents \union {Absent}

ASSUME AbsentIsNone == Absent \notin Documents

VARIABLES
    files,          \* the documents; stamp is size and modification time
    active,         \* the derivation the ledger has active for each extract, 0 if none
    directory,      \* what there is of .brain/search-runs/<run>
    spare,          \* runs whose directory has a temporary metadata file besides
    metadata,       \* metadata.json
    spool,          \* candidates.jsonl, results.jsonl and page-index.jsonl
    command,        \* the command that holds the lock, and its memory
    edits, faults,
    answers,        \* history: pages that were counted as served, and whether they were returned
    lived           \* history: the documents as they stood since the command began

store == <<directory, spare, metadata, spool>>
world == <<files, active, edits>>
history == <<answers, lived>>
vars == <<world, store, command, faults, history>>

-----------------------------------------------------------------------------
(* Searching a set of documents.                                           *)

\* The matching lines ripgrep reports of a document.
Hits(d, file) == [i \in 1 .. file.content |-> [doc |-> d, line |-> i, content |-> file.content]]

Present(docs, at) == {d \in docs : at[d] # Absent}

\* context_hits of every file, and the first of link_candidate_hits.
Matched(purpose, d, file) ==
    LET hits == Hits(d, file)
    IN IF purpose = "links" /\ hits # <<>> THEN <<Head(hits)>> ELSE hits

\* The directories that are listed, one after the other, and what is listed.
Folders(scope) == IF scope = "wiki" THEN <<Pages, Questions>> ELSE <<Extracts>>

Listed(folder) ==
    IF folder = Extracts THEN {d \in Extracts : active[d] # 0} ELSE Present(folder, files)

-----------------------------------------------------------------------------
(* Metadata.  A digest is the value it is taken of.                        *)

Codes == {"none", "incomplete", "limit", "failed", "stale", "expired"}

NewMetadata(request, revision, seen, waited) ==
    [purpose |-> request.purpose, scope |-> request.scope, excluded |-> request.excluded,
     expires |-> TTL - waited, retain |-> Never, revision |-> revision, identity |-> seen,
     candidates |-> 0, matches |-> 0, pages |-> 0, hashed |-> FALSE, highest |-> -1,
     blocked |-> "incomplete"]

\* Mutant: a file that has its recorded content again counts as unchanged.
IdentityOfContent(scope, seen) ==
    IF scope = "wiki" THEN [d \in DOMAIN seen |-> seen[d].content] ELSE [d \in DOMAIN seen |-> active[d]]

\* A wiki record counts with its size, time and checksum, an extracted
\* representation with what the ledger says of it.
Identity(scope, seen) ==
    IF scope = "wiki" THEN seen ELSE [d \in DOMAIN seen |-> active[d]]

Revision == active

\* The secret and the metadata can be read; a cleanup may have begun.
Opens(r) == directory[r] \in {"whole", "gutted"}
Loads(r) == Opens(r) /\ metadata[r] # NoMetadata

\* now >= expires_at, by the clock the command has read.
Expired(r) == metadata[r].expires + command.waited <= 0

FullyServed(m) == m.highest = m.pages - 1

-----------------------------------------------------------------------------
Requests ==
    [purpose : {"search"}, scope : {"wiki", "sources"}, excluded : {{}}]
        \union [purpose : {"links"}, scope : {"wiki"}, excluded : {{p} : p \in Records}]

Matches == [doc : Docs, line : Nat, content : Contents]

\* The index says where each page ends in the results.
NoSpool == [candidates |-> {}, results |-> <<>>, index |-> <<>>, damaged |-> FALSE]

Countdown == -(MaxFaults) .. TTL

\* What is remembered of a set of documents, or of representations.
Observations == UNION {[D -> Documents] : D \in SUBSET Docs}

Identities == Observations \union UNION {[D -> 0 .. MaxEdits + 1] : D \in SUBSET Docs}

MetadataSet ==
    [purpose : {"search", "links"}, scope : {"wiki", "sources"}, excluded : SUBSET Records,
     expires : Countdown, retain : Countdown \union {Never},
     revision : [Extracts -> 0 .. MaxEdits + 1], identity : Identities,
     candidates : {Cardinality(S) : S \in SUBSET Docs}, matches : Nat, pages : Nat,
     hashed : BOOLEAN, highest : Int, blocked : Codes]

ASSUME NoMetadataIsNone == NoMetadata \notin MetadataSet

Validations == {"page", "accept", "capture", "packet"}
Failures == {"limit", "failed", "stale"}
Goals == {"create", "captured", "none"} \union Validations \union Failures

Phases ==
    {"observe", "vanished", "fill", "describe", "filenames", "context", "finish", "give_up",
     "load", "page", "return", "compare", "capture", "accepted", "clean", "rmdir"}

\* A command and what it remembers.
Commands ==
    [op : {"start", "resume", "verify", "evidence", "cleanup"}, run : RunIds,
     request : Requests \union {Idle}, phase : Phases, goal : Goals, waited : 0 .. MaxFaults,
     folders : Seq({Pages, Questions, Extracts}), todo : SUBSET Docs,
     seen : Observations, index : Nat, captured : Observations]

ASSUME IdleIsNone == Idle \notin Commands

TypeOK ==
    /\ files \in [Docs -> Files]
    /\ active \in [Extracts -> 0 .. MaxEdits + 1]
    /\ directory \in [RunIds -> {"none", "partial", "whole", "gutted", "removed"}]
    /\ spare \subseteq RunIds
    /\ \A r \in RunIds : metadata[r] # NoMetadata =>
          /\ metadata[r].blocked \in Codes
          /\ metadata[r].expires \in Countdown
          /\ metadata[r].retain \in Countdown \union {Never}
          /\ metadata[r].highest \in -1 .. metadata[r].pages
          /\ spool[r].results \in Seq(Matches) /\ spool[r].index \in Seq(Nat)
          /\ Len(spool[r].index) >= metadata[r].pages
    /\ edits \in 0 .. MaxEdits /\ faults \in 0 .. MaxFaults

Init ==
    /\ files \in [Docs -> [content : Contents, stamp : {0}] \union {Absent}]
    /\ active \in [Extracts -> {0, 1}]
    \* An active extract without matches comes with Activate.
    /\ \A d \in Extracts : files[d] # Absent /\ files[d].content # 0
    /\ directory = [r \in RunIds |-> "none"]
    /\ spare = {}
    /\ metadata = [r \in RunIds |-> NoMetadata]
    /\ spool = [r \in RunIds |-> NoSpool]
    /\ command = Idle
    /\ edits = 0 /\ faults = 0
    /\ answers = {} /\ lived = {}

InPhase(phase) == command # Idle /\ command.phase = phase

\* goal: what the command does once the operands have been observed; waited: how
\* long it has waited for the lock, which counts among the faults.
Begin(op, r, request, phase, goal, folders, index, waited) ==
    /\ command' = [op |-> op, run |-> r, request |-> request, phase |-> phase, goal |-> goal,
                   waited |-> waited, folders |-> folders, todo |-> {}, seen |-> <<>>, index |-> index,
                   captured |-> <<>>]
    /\ faults + waited <= MaxFaults
    /\ faults' = faults + waited
    /\ lived' = {files}

End == command' = Idle /\ lived' = {}

Goto(phase) == command' = [command EXCEPT !.phase = phase] /\ UNCHANGED lived

Meta == metadata[command.run]

SaveMetadata(m) == metadata' = [metadata EXCEPT ![command.run] = m]

-----------------------------------------------------------------------------
(* Observing the operands: bind_operands, bind_link_candidate_operands.    *)

ToObserve(phase, goal, scope) ==
    [command EXCEPT !.phase = phase, !.goal = goal, !.folders = Folders(scope), !.seen = <<>>]

\* graph._load_live_documents captures the records the same way.
Looking == InPhase("observe") \/ InPhase("capture")

ListFolder ==
    /\ Looking
    /\ command.todo = {} /\ command.folders # <<>>
    /\ command' = [command EXCEPT !.todo = Listed(Head(command.folders)), !.folders = Tail(@)]
    /\ UNCHANGED <<world, store, faults, history>>

\* _regular_identity; a file that has gone fails the command or the validation.
ObserveOperand ==
    /\ Looking /\ command.todo # {}
    /\ LET d == Min(command.todo)
       IN command' = IF files[d] = Absent
                     THEN [command EXCEPT !.phase = "vanished", !.todo = {}]
                     ELSE [command EXCEPT !.todo = @ \ {d}, !.seen = [x \in DOMAIN @ \union {d} |->
                                                       IF x = d THEN files[d] ELSE @[x]]]
    /\ UNCHANGED <<world, store, faults, history>>

Observed == InPhase("observe") /\ command.todo = {} /\ command.folders = <<>>

BindFails ==
    /\ InPhase("vanished") /\ command.goal \in {"create", "captured"}
    /\ End
    /\ UNCHANGED <<world, store, faults, answers>>

-----------------------------------------------------------------------------
(* start_search and _start_link_candidate_run.                             *)

Start(r, request, waited) ==
    /\ command = Idle
    /\ directory[r] = "none"
    /\ Begin("start", r, request, "observe", "create", Folders(request.scope), 0, waited)
    /\ UNCHANGED <<world, store, answers>>

\* The directory, its five files, the secret among them last, ...
MakeDirectory ==
    /\ Observed /\ command.goal = "create"
    /\ directory' = [directory EXCEPT ![command.run] = "partial"]
    /\ Goto("fill")
    /\ UNCHANGED <<world, spare, metadata, spool, faults, answers>>

FillDirectory ==
    /\ InPhase("fill")
    /\ directory' = [directory EXCEPT ![command.run] = "whole"]
    /\ Goto("describe")
    /\ UNCHANGED <<world, spare, metadata, spool, faults, answers>>

\* ... and the metadata, which say that the run is incomplete.
Describe ==
    /\ InPhase("describe")
    /\ LET request == command.request
       IN SaveMetadata(NewMetadata(request, Revision, Identity(request.scope, command.seen),
                                   command.waited))
    /\ command' = [command EXCEPT !.phase = IF command.request.purpose = "links"
                                            THEN "context" ELSE "filenames",
                                  !.todo = DOMAIN command.seen \ command.request.excluded]
    /\ UNCHANGED <<world, directory, spare, spool, faults, history>>

\* Files are given to ripgrep, and searched by it, in the order of their paths.
NextFile == Min(command.todo)

\* filename_hits: every file is read, whatever it is by now.
FindCandidate ==
    /\ InPhase("filenames") /\ command.todo # {}
    /\ LET d == NextFile
           hit == files[d] # Absent /\ Hits(d, files[d]) # <<>>
       IN /\ files[d] # Absent
          /\ spool' = IF hit THEN [spool EXCEPT ![command.run].candidates = @ \union {d}] ELSE spool
          /\ command' = [command EXCEPT !.todo = @ \ {d}]
    /\ UNCHANGED <<world, directory, spare, metadata, faults, history>>

FilenamesDone ==
    /\ InPhase("filenames") /\ command.todo = {}
    /\ command' = [command EXCEPT !.phase = "context", !.todo = spool[command.run].candidates]
    /\ UNCHANGED <<world, store, faults, history>>

PageStart(index) == IF index = <<>> THEN 0 ELSE index[Len(index)]

\* A page is indexed when it is full.
IndexPages(index, results) ==
    LET start == PageStart(index)
    IN index \o [i \in 1 .. (Len(results) - start) \div PageSize |-> start + i * PageSize]

SpoolMatches(s, matches) ==
    [s EXCEPT !.results = @ \o matches, !.index = IndexPages(@, s.results \o matches)]

\* context_hits and link_candidate_hits: the file is read again.
ReadMatches ==
    /\ InPhase("context") /\ command.todo # {}
    /\ LET d == NextFile
           purpose == command.request.purpose
           s == SpoolMatches(spool[command.run], Matched(purpose, d, files[d]))
       IN /\ files[d] # Absent
          /\ spool' = [spool EXCEPT ![command.run] =
                 IF purpose = "links" /\ Hits(d, files[d]) # <<>>
                 THEN [s EXCEPT !.candidates = @ \union {d}] ELSE s]
          /\ command' = [command EXCEPT !.todo = @ \ {d}]
    /\ UNCHANGED <<world, directory, spare, metadata, faults, history>>

\* The last page, which is empty when nothing matched.
MustIndex ==
    LET s == spool[command.run]
    IN PageStart(s.index) # Len(s.results) \/ s.index = <<>>

IndexLastPage ==
    /\ InPhase("context") /\ command.todo = {}
    /\ spool' = IF MustIndex
                THEN [spool EXCEPT ![command.run].index = Append(@, Len(spool[command.run].results))]
                ELSE spool
    /\ Goto("finish")
    /\ UNCHANGED <<world, directory, spare, metadata, faults, answers>>

Abandon(code) == command' = [command EXCEPT !.phase = "give_up", !.goal = code, !.todo = {}]

\* _Spool.append: whatever is written next may exceed the byte limit.
SpoolLimit ==
    /\ InPhase("filenames") \/ InPhase("context")
    /\ IF command.todo = {} THEN InPhase("context") /\ MustIndex
       ELSE files[NextFile] # Absent /\ Hits(NextFile, files[NextFile]) # <<>>
    /\ Abandon("limit")
    /\ UNCHANGED <<world, store, faults, history>>

\* ripgrep exits with an error, for a file that has gone or that it calls binary;
\* or there is no ripgrep.
RipgrepFails ==
    /\ InPhase("filenames") \/ InPhase("context")
    /\ command.todo # {}
    /\ Abandon("failed")
    /\ UNCHANGED <<world, store, faults, history>>

\* Mutant: an empty last page is counted that was never indexed.
FinishedWithOneMore(code) ==
    LET s == spool[command.run]
    IN [Meta EXCEPT !.hashed = TRUE, !.blocked = code, !.pages = Len(s.index) + 1,
           !.candidates = Cardinality(s.candidates), !.matches = Len(s.results)]

\* _Run.finish
Finished(code) ==
    LET s == spool[command.run]
    IN [Meta EXCEPT !.hashed = TRUE, !.blocked = code, !.pages = Len(s.index),
           !.candidates = Cardinality(s.candidates), !.matches = Len(s.results)]

Finish ==
    /\ InPhase("finish")
    /\ SaveMetadata(Finished("none"))
    /\ command' = ToObserve("observe", "page", Meta.scope)
    /\ UNCHANGED <<world, directory, spare, spool, faults, history>>

\* Mutant: the handler of a failed start finishes the run as if all were well.
GiveUpUnblocked ==
    /\ InPhase("give_up")
    /\ SaveMetadata(Finished("none"))
    /\ End
    /\ UNCHANGED <<world, directory, spare, spool, faults, answers>>

\* A page 0 with a coverage gap is all that such a run ever returns.
GiveUp ==
    /\ InPhase("give_up")
    /\ SaveMetadata(Finished(command.goal))
    /\ End
    /\ UNCHANGED <<world, directory, spare, spool, faults, answers>>

-----------------------------------------------------------------------------
(* _Run.validate_current, with load() before it.                           *)

RequestOf(m) == [purpose |-> m.purpose, scope |-> m.scope, excluded |-> m.excluded]

\* Mutant: every look at an expired run puts its removal off again.
RetainAgain(m, waited) == IF FullyServed(m) THEN m.retain ELSE TTL - waited

\* The first to see a half-served run expired gives it another term.
Retained(m, waited) ==
    IF FullyServed(m) \/ m.retain # Never THEN m.retain ELSE TTL - waited

LoadExpired ==
    /\ InPhase("load") /\ Expired(command.run)
    /\ SaveMetadata([Meta EXCEPT !.retain = Retained(Meta, command.waited),
                                 !.blocked = "expired"])
    /\ End
    /\ UNCHANGED <<world, directory, spare, spool, faults, answers>>

LoadBlocked ==
    /\ InPhase("load") /\ ~Expired(command.run)
    /\ Meta.blocked # "none"
    /\ End
    /\ UNCHANGED <<world, store, faults, answers>>

Load ==
    /\ InPhase("load") /\ ~Expired(command.run)
    /\ Meta.blocked = "none"
    /\ command' = ToObserve("observe", command.goal, Meta.scope)
    /\ UNCHANGED <<world, store, faults, history>>

IsCurrent ==
    /\ Revision = Meta.revision
    /\ Identity(Meta.scope, command.seen) = Meta.identity
    /\ Meta.hashed /\ ~spool[command.run].damaged

Validated ==
    /\ Observed /\ command.goal # "create"
    /\ IsCurrent
    /\ Goto(IF command.goal = "page" THEN "page" ELSE "compare")
    /\ UNCHANGED <<world, store, faults, answers>>

\* block(SearchRunStale); a start goes on to its handler.
FoundStale ==
    /\ command # Idle /\ command.goal \notin {"create", "captured"}
    /\ InPhase("vanished") \/ (Observed /\ ~IsCurrent)
    /\ SaveMetadata([Meta EXCEPT !.blocked = "stale"])
    /\ IF command.op = "start" THEN Abandon("stale") /\ UNCHANGED lived ELSE End
    /\ UNCHANGED <<world, directory, spare, spool, faults, answers>>

-----------------------------------------------------------------------------
(* _Run.page and _candidate_page.                                          *)

PageLost ==
    /\ InPhase("page") /\ spool[command.run].damaged
    /\ SaveMetadata([Meta EXCEPT !.blocked = "stale"])
    /\ End
    /\ UNCHANGED <<world, directory, spare, spool, faults, answers>>

\* Mutant: any page of the run is returned, whatever was returned before.
MayServeAny(index) == index < Meta.pages

\* Pages are served in order, one that was served before at any time.
MayServe(index) == index < Meta.pages /\ index <= Meta.highest + 1

OutOfOrder ==
    /\ InPhase("page") /\ ~spool[command.run].damaged
    /\ ~MayServe(command.index)
    /\ End
    /\ UNCHANGED <<world, store, faults, answers>>

\* The page is counted, durably, before the caller has it.
Serve ==
    /\ InPhase("page") /\ ~spool[command.run].damaged
    /\ MayServe(command.index)
    /\ SaveMetadata([Meta EXCEPT !.highest = IF command.index > @ THEN command.index ELSE @])
    /\ Goto("return")
    /\ UNCHANGED <<world, directory, spare, spool, faults, answers>>

Answer(got) ==
    answers' = answers \union {[run |-> command.run, index |-> command.index, got |-> got]}

\* The page, and the cursor of the next one.
Return ==
    /\ InPhase("return")
    /\ Answer(TRUE)
    /\ End
    /\ UNCHANGED <<world, store, faults>>

\* resume_search, _resume_link_candidate_run: any cursor that has the run's
\* expiry and a valid MAC, which does not show that the page before was returned.
CursorIndex(r, index) == index \in 1 .. metadata[r].pages - 1

Resume(r, index, waited) ==
    /\ command = Idle
    /\ Loads(r)
    /\ CursorIndex(r, index)
    /\ Begin("resume", r, RequestOf(metadata[r]), "load", "page", <<>>, index, waited)
    /\ UNCHANGED <<world, store, answers>>

-----------------------------------------------------------------------------
(* Proofs: verify_search_run_proof, wiki apply, build_wiki_evidence_packet. *)

\* The clock is read under the lock.
Verify(r) ==
    /\ command = Idle
    /\ Loads(r)
    /\ Begin("verify", r, RequestOf(metadata[r]), "load", "accept", <<>>, 0, 0)
    /\ UNCHANGED <<world, store, answers>>

\* complete_search_run: the caller has every page of a wiki run.
HasEveryPage(r) ==
    \A i \in 0 .. metadata[r].pages - 1 : [run |-> r, index |-> i, got |-> TRUE] \in answers

BuildPacket(r) ==
    /\ command = Idle
    /\ Loads(r)
    /\ metadata[r].purpose = "search" /\ metadata[r].scope = "wiki"
    /\ metadata[r].pages > 0 /\ HasEveryPage(r)
    /\ Begin("evidence", r, RequestOf(metadata[r]), "load", "capture", <<>>, 0, 0)
    /\ UNCHANGED <<world, store, answers>>

Proves(m) ==
    /\ FullyServed(m)
    /\ m.purpose = "links" => m.matches = m.candidates /\ m.pages >= 1

\* _verify_captured_wiki_documents
CapturedAsRecorded ==
    /\ DOMAIN command.captured = DOMAIN Meta.identity
    /\ \A d \in DOMAIN command.captured :
          command.captured[d].content = Meta.identity[d].content

ProofRefused ==
    /\ InPhase("compare")
    /\ ~Proves(Meta) \/ (command.goal = "packet" /\ ~CapturedAsRecorded)
    /\ End
    /\ UNCHANGED <<world, store, faults, answers>>

ProofAccepted ==
    /\ InPhase("compare")
    /\ Proves(Meta)
    /\ command.goal = "packet" => CapturedAsRecorded
    /\ IF command.goal = "capture"
       THEN command' = ToObserve("capture", "captured", "wiki") /\ UNCHANGED lived
       ELSE Goto("accepted")
    /\ UNCHANGED <<world, store, faults, answers>>

\* Mutant: the documents read are taken for those of the proof.
CapturedUnverified ==
    /\ InPhase("capture") /\ command.todo = {} /\ command.folders = <<>>
    /\ command' = [command EXCEPT !.phase = "accepted", !.goal = "packet", !.captured = command.seen]
    /\ UNCHANGED <<world, store, faults, history>>

\* Every record has been read; the proof is verified once more with them.
Captured ==
    /\ InPhase("capture") /\ command.todo = {} /\ command.folders = <<>>
    /\ command' = [command EXCEPT !.phase = "load", !.goal = "packet", !.waited = 0,
                                  !.captured = command.seen]
    /\ UNCHANGED <<world, store, faults, history>>

\* The proof is used; a packet besides compares the corpus once more, and its
\* citations may be refused.
Use ==
    /\ InPhase("accepted")
    /\ End
    /\ UNCHANGED <<world, store, faults, answers>>

-----------------------------------------------------------------------------
(* cleanup_search_runs; every search and links command begins with it.     *)

\* A cleanup visits one run after the other; this is one visit.
StartCleanup(r, waited) ==
    /\ command = Idle
    /\ Begin("cleanup", r, Idle, "clean", "none", <<>>, 0, waited)
    /\ UNCHANGED <<world, store, answers>>

Skip == End /\ UNCHANGED <<world, store, faults, answers>>

Blocked(m) == m.blocked # "none"

\* An expired run that was not served to its end gets another term.
CleanBlocks ==
    /\ InPhase("clean") /\ Loads(command.run) /\ Expired(command.run)
    /\ ~Blocked(Meta) /\ ~FullyServed(Meta)
    /\ SaveMetadata([Meta EXCEPT !.retain = TTL - command.waited, !.blocked = "expired"])
    /\ End
    /\ UNCHANGED <<world, directory, spare, spool, faults, answers>>

PastHorizon(m) == (IF m.retain = Never THEN m.expires ELSE m.retain) + command.waited <= 0

Removable ==
    /\ Loads(command.run) /\ Expired(command.run)
    /\ Blocked(Meta) \/ FullyServed(Meta)
    /\ PastHorizon(Meta)
    /\ directory[command.run] = "whole" /\ command.run \notin spare

CleanKeeps ==
    /\ InPhase("clean")
    /\ ~Removable
    /\ Loads(command.run) /\ Expired(command.run) => Blocked(Meta) \/ FullyServed(Meta)
    /\ Skip

\* The five files are unlinked one by one, in no particular order.
CleanUnlinks ==
    /\ InPhase("clean") /\ Removable
    /\ \E left \in {"gutted", "partial"} : directory' = [directory EXCEPT ![command.run] = left]
    /\ Goto("rmdir")
    /\ UNCHANGED <<world, spare, metadata, spool, faults, answers>>

CleanRemoves ==
    /\ InPhase("rmdir")
    /\ directory' = [directory EXCEPT ![command.run] = "removed"]
    /\ metadata' = [metadata EXCEPT ![command.run] = NoMetadata]
    /\ spool' = [spool EXCEPT ![command.run] = NoSpool]
    /\ End
    /\ UNCHANGED <<world, spare, faults, answers>>

-----------------------------------------------------------------------------
(* Crashes, editors, other commands and the passing of time.               *)

MaySave == command.phase \in {"describe", "finish", "give_up", "load", "observe", "page", "clean"}

\* A crash, or a call that fails once the command has begun to save or to return.
\* A crash while metadata is written leaves the temporary file, one after a page
\* was counted leaves the caller without the page.
Stop ==
    /\ command # Idle
    /\ faults < MaxFaults
    /\ \/ spare' = spare
       \/ MaySave /\ Opens(command.run) /\ spare' = spare \union {command.run}
    /\ IF InPhase("return") THEN Answer(FALSE) ELSE UNCHANGED answers
    /\ End
    /\ faults' = faults + 1
    /\ UNCHANGED <<world, directory, metadata, spool>>

\* The bytes of a retained spool are changed by something else.
Damage(r) ==
    /\ faults < MaxFaults
    /\ Loads(r) /\ metadata[r].hashed
    /\ spool' = [spool EXCEPT ![r].damaged = TRUE]
    /\ faults' = faults + 1
    /\ UNCHANGED <<world, directory, spare, metadata, command, history>>

Lives == lived' = IF command = Idle THEN {} ELSE lived \union {files'}

\* Every write of a document gives it another size or time.
Edit(d) ==
    /\ edits < MaxEdits
    /\ \E file \in [content : Contents, stamp : {edits + 1}] \union {Absent} :
          files' = [files EXCEPT ![d] = file]
    /\ edits' = edits + 1
    /\ Lives
    /\ UNCHANGED <<active, store, command, faults, answers>>

\* A source command, which takes the lock, activates another derivation.
Activate(d) ==
    /\ command = Idle
    /\ edits < MaxEdits
    /\ active' = [active EXCEPT ![d] = edits + 2]
    /\ \E c \in Contents : files' = [files EXCEPT ![d] = [content |-> c, stamp |-> edits + 1]]
    /\ edits' = edits + 1
    /\ UNCHANGED <<store, command, faults, history>>

Down(time) == IF time = Never THEN Never ELSE IF time > -MaxFaults THEN time - 1 ELSE time

\* A command that builds a packet reads the clock twice; the time that any other
\* runs comes to the same as time it has waited.
Tick ==
    /\ command # Idle => InPhase("capture") /\ faults < MaxFaults
    /\ metadata' = [r \in RunIds |->
           IF metadata[r] = NoMetadata THEN NoMetadata
           ELSE [metadata[r] EXCEPT !.expires = Down(@), !.retain = Down(@)]]
    /\ faults' = IF command = Idle THEN faults ELSE faults + 1
    /\ UNCHANGED <<world, directory, spare, spool, command, history>>

-----------------------------------------------------------------------------
BuildStep ==
    \/ ListFolder \/ ObserveOperand \/ BindFails \/ MakeDirectory \/ FillDirectory \/ Describe
    \/ FindCandidate \/ FilenamesDone \/ ReadMatches \/ IndexLastPage \/ SpoolLimit
    \/ RipgrepFails \/ Finish \/ GiveUp

ServeStep ==
    \/ LoadExpired \/ LoadBlocked \/ Load \/ Validated \/ FoundStale
    \/ PageLost \/ OutOfOrder \/ Serve \/ Return

ProofStep == ProofRefused \/ ProofAccepted \/ Captured \/ Use

CleanStep == CleanBlocks \/ CleanKeeps \/ CleanUnlinks \/ CleanRemoves

CommandStep == BuildStep \/ ServeStep \/ ProofStep \/ CleanStep

Next ==
    \/ CommandStep \/ Stop \/ Tick
    \/ \E r \in RunIds :
          \/ Verify(r) \/ BuildPacket(r) \/ Damage(r)
          \/ \E waited \in 0 .. MaxFaults :
                \/ StartCleanup(r, waited)
                \/ \E request \in Requests : Start(r, request, waited)
                \/ \E index \in 1 .. Len(spool[r].index) : Resume(r, index, waited)
    \/ \E d \in Records : Edit(d)
    \/ \E d \in Extracts : Activate(d)

Spec == Init /\ [][Next]_vars

-----------------------------------------------------------------------------
(* Properties.                                                             *)

Reported(r, d) == SelectIn(spool[r].results, [doc : {d}, line : Nat, content : Contents])

\* What a search of the documents as they stood at one time has to say of d.
HitsAt(m, d, at) == IF at[d] = Absent \/ d \in m.excluded THEN <<>> ELSE Matched(m.purpose, d, at[d])

Steady(d) == \A one, other \in lived : one[d] = other[d]

Relied == command # Idle /\ command.phase \in {"page", "return", "accepted"}

\* A page of a wiki run is returned, and a proof of one accepted, only for
\* results that mix no two states of the wiki: there is one moment since the
\* command began at which every reported record had just the lines reported of
\* it, and no record that stood unchanged meanwhile is missing, whatever is
\* edited between the listing, the two passes of ripgrep and the validation
\* (_build, validate_current, bind_operands).
ResultsAreOneMoment ==
    Relied /\ Meta.scope = "wiki" =>
        \E at \in lived : \A d \in Records :
            /\ Reported(command.run, d) \in {<<>>, HitsAt(Meta, d, at)}
            /\ Steady(d) => Reported(command.run, d) = HitsAt(Meta, d, at)

\* The documents an evidence packet is built from were the wiki at one moment
\* since the command began, they are all the documents that stood meanwhile, and
\* the matches of the search are theirs (build_wiki_evidence_packet).
PacketIsOneMoment ==
    InPhase("accepted") /\ command.goal = "packet" =>
        \E at \in lived :
            /\ \A d \in DOMAIN command.captured : command.captured[d] = at[d]
            /\ \A d \in Records :
                  /\ Steady(d) /\ at[d] # Absent => d \in DOMAIN command.captured
                  /\ Reported(command.run, d) =
                        IF d \in DOMAIN command.captured
                        THEN Hits(d, command.captured[d]) ELSE <<>>

\* A proof is accepted only of a run whose every page was returned, or had its
\* command stop between counting and returning it: nothing else makes up for a
\* page, not even a cursor that the caller has made itself (page, _candidate_page,
\* _verify_search_run_proof_locked, _verify_link_candidate_run_locked).
AcceptedWasServed ==
    InPhase("accepted") =>
        \A i \in 0 .. Meta.pages - 1 : \E got \in BOOLEAN :
            [run |-> command.run, index |-> i, got |-> got] \in answers

BeingBuilt(r) == command # Idle /\ command.op = "start" /\ command.run = r

\* A run that was found stale or expired, or whose building failed or died, is
\* never served or accepted again, even when the wiki returns to the state the
\* run recorded (block, finish).
BlockedForGood ==
    [][\A r \in RunIds :
          /\ Loads(r) /\ Blocked(metadata[r]) /\ Loads(r)'
          /\ metadata[r].hashed \/ ~BeingBuilt(r)
          => Blocked(metadata[r])']_vars

\* The removal of an expired run is put off once: however often clients look at
\* it, with whatever clock, the term it was given then runs out, and a run that
\* has been served to its end is given none (validate_current, cleanup_search_runs).
RemovalPutOffOnce ==
    [][\A r \in RunIds : Loads(r) /\ Loads(r)' =>
          /\ metadata[r].retain # Never =>
                metadata'[r].retain \in {metadata[r].retain, Down(metadata[r].retain)}
          /\ FullyServed(metadata[r]) /\ ~Blocked(metadata[r]) => metadata'[r].retain = metadata[r].retain]_vars
=============================================================================
