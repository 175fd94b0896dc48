-------------------------- MODULE SearchRunsProofs --------------------------
(***************************************************************************)
(* Theorems about SearchRuns, for any documents, runs and bounds.          *)
(*                                                                         *)
(* The first part is about runs and commands: Inv, their types and what    *)
(* each phase of a command says of its run, and what a step may do to the  *)
(* metadata.  The second is about the documents: Moments, what a run says  *)
(* of them, and of which moment a command that validates it knows that.    *)
(***************************************************************************)
EXTENDS SearchRuns, SelectionProofs, FiniteSetTheorems

Spools == [candidates : SUBSET Docs, results : Seq(Matches), index : Seq(Nat), damaged : BOOLEAN]

Typed ==
    /\ TypeOK
    /\ metadata \in [RunIds -> MetadataSet \union {NoMetadata}]
    /\ spool \in [RunIds -> Spools]
    /\ command # Idle => command \in Commands
    /\ lived \subseteq [Docs -> Files]

\* What is stored of a run, at any time.
Sound(r) ==
    /\ directory[r] = "none" => metadata[r] = NoMetadata
    /\ metadata[r] = NoMetadata => spool[r] = NoSpool
    /\ metadata[r] # NoMetadata =>
          /\ ~metadata[r].hashed => metadata[r].blocked # "none"
          /\ metadata[r].retain # Never => metadata[r].blocked = "expired"
          /\ RequestOf(metadata[r]) \in Requests

\* The phases of a command.
Fresh(c) == c.goal = "create" /\ c.phase \in {"observe", "vanished", "fill", "describe"}
Building(c) == c.goal = "create" /\ c.phase \in {"filenames", "context", "finish"}
GivingUp(c) == c.goal \in Failures /\ c.phase = "give_up"
Loading(c) == c.goal \in Validations /\ c.phase = "load"
Validating(c) == c.goal \in Validations /\ c.phase \in {"observe", "vanished"}
Passed(c) ==
    \/ c.goal = "page" /\ c.phase \in {"page", "return"}
    \/ c.goal \in {"accept", "capture", "packet"} /\ c.phase = "compare"
    \/ c.goal = "captured" /\ c.phase \in {"capture", "vanished"}
    \/ c.goal \in {"accept", "packet"} /\ c.phase = "accepted"
Cleaning(c) == c.goal = "none" /\ c.phase \in {"clean", "rmdir"}

Unfinished(r) ==
    /\ metadata[r] # NoMetadata
    /\ metadata[r].blocked \in {"incomplete", "none", "stale"}
    /\ metadata[r].highest = -1

\* What each of them says of the run.
Phased(c) ==
    /\ \/ Fresh(c) \/ Building(c) \/ GivingUp(c) \/ Loading(c) \/ Validating(c) \/ Passed(c)
       \/ Cleaning(c)
    /\ Fresh(c) \/ Building(c) \/ GivingUp(c) => c.op = "start"
    /\ ~Cleaning(c) => c.request \in Requests
    /\ Fresh(c) =>
          /\ metadata[c.run] = NoMetadata
          /\ c.phase \in {"observe", "vanished"} => directory[c.run] = "none"
          /\ c.phase = "fill" => directory[c.run] = "partial"
          /\ c.phase = "describe" => directory[c.run] = "whole"
    /\ ~Fresh(c) /\ ~Cleaning(c) =>
          metadata[c.run] # NoMetadata /\ c.request = RequestOf(metadata[c.run])
    /\ Building(c) =>
          /\ directory[c.run] # "none" /\ Unfinished(c.run)
          /\ ~metadata[c.run].hashed /\ metadata[c.run].pages = 0
    /\ GivingUp(c) => Unfinished(c.run) /\ directory[c.run] # "none"
    /\ c.op = "start" /\ ~Fresh(c) /\ c.phase # "return" => Unfinished(c.run)
    /\ Validating(c) \/ Passed(c) => metadata[c.run].blocked = "none"
    /\ c.phase = "accepted" => FullyServed(metadata[c.run])

ScopeDocs(scope) == IF scope = "wiki" THEN Records ELSE Extracts

\* What a command looks at is what its run searches.
Within(c) ==
    /\ c.phase \in {"observe", "capture", "fill", "describe"} =>
          /\ DOMAIN c.seen \union c.todo \subseteq ScopeDocs(c.request.scope)
          /\ \A i \in DOMAIN c.folders : c.folders[i] \subseteq ScopeDocs(c.request.scope)
    /\ c.phase \in {"finish", "load", "compare"} => c.todo = {}
    /\ c.goal \in {"capture", "captured", "packet"} =>
          c.request = [purpose |-> "search", scope |-> "wiki", excluded |-> {}]

Inv ==
    /\ Typed
    /\ \A r \in RunIds : Sound(r)
    /\ command # Idle => Phased(command) /\ Within(command)
-----------------------------------------------------------------------------
LEMMA InitHolds == Init => Inv
<1> SUFFICES ASSUME Init
             PROVE  Inv
  OBVIOUS
<1> USE BoundsAreNaturals DEF Init
<1>1. TypeOK
  BY DEF TypeOK, Files, Documents
<1>2. NoSpool \in Spools
  BY DEF NoSpool, Spools
<1> QED
  BY <1>1, <1>2 DEF Inv, Typed, Sound

-----------------------------------------------------------------------------
(* What a step has to show.                                                *)

\* What is remembered of the run a command works on.
Recorded(m) ==
    /\ m.highest \in -1 .. m.pages
    /\ ~m.hashed => m.blocked # "none"
    /\ m.retain # Never => m.blocked = "expired"
    /\ RequestOf(m) \in Requests

\* A step that leaves the runs alone has to show what it makes of the command.
LEMMA StoreStays ==
  ASSUME Inv, UNCHANGED <<directory, metadata, spool, active>>, spare' \subseteq RunIds,
         files' \in [Docs -> Files], edits' \in 0 .. MaxEdits, faults' \in 0 .. MaxFaults,
         lived' \subseteq [Docs -> Files],
         command' # Idle => command' \in Commands /\ (Phased(command) /\ Within(command))'
  PROVE  Inv'
<1>2. TypeOK'
  BY DEF Inv, Typed, TypeOK
<1>3. \A r \in RunIds : Sound(r)'
  BY DEF Inv, Sound
<1> QED
  BY <1>2, <1>3 DEF Inv, Typed

\* A step that ends its command, or goes on with it, after it has saved metadata.
LEMMA RunSaved ==
  ASSUME Inv, NEW r \in RunIds, NEW m \in MetadataSet, Recorded(m),
         metadata' = [metadata EXCEPT ![r] = m],
         directory[r] # "none", Len(spool[r].index) >= m.pages,
         UNCHANGED <<world, directory, spare, spool>>, faults' = faults,
         lived' \subseteq [Docs -> Files],
         command' # Idle => command' \in Commands /\ (Phased(command) /\ Within(command))'
  PROVE  Inv'
<1>1. metadata' \in [RunIds -> MetadataSet \union {NoMetadata}] /\ m # NoMetadata
  BY NoMetadataIsNone DEF Inv, Typed
<1>2. metadata'[r] = m /\ \A q \in RunIds \ {r} : metadata'[q] = metadata[q]
  BY DEF Inv, Typed
<1>3. TypeOK'
  <2>1. ASSUME NEW q \in RunIds, metadata'[q] # NoMetadata
        PROVE  /\ metadata'[q].blocked \in Codes
               /\ metadata'[q].expires \in Countdown
               /\ metadata'[q].retain \in Countdown \union {Never}
               /\ metadata'[q].highest \in -1 .. metadata'[q].pages
               /\ spool'[q].results \in Seq(Matches) /\ spool'[q].index \in Seq(Nat)
               /\ Len(spool'[q].index) >= metadata'[q].pages
    <3>1. CASE q = r
      BY <1>2, <2>1, <3>1 DEF MetadataSet, Recorded, Inv, Typed, Spools
    <3>2. CASE q # r
      BY <1>2, <2>1, <3>2 DEF Inv, Typed, TypeOK
    <3> QED
      BY <3>1, <3>2
  <2> QED
    BY <2>1 DEF Inv, Typed, TypeOK, world
<1>4. ASSUME NEW q \in RunIds
      PROVE  Sound(q)'
  <2>1. CASE q = r
    BY <1>1, <1>2, <2>1 DEF Sound, Recorded
  <2>2. CASE q # r
    BY <1>2, <2>2 DEF Inv, Sound
  <2> QED
    BY <2>1, <2>2
<1> QED
  BY <1>1, <1>3, <1>4 DEF Inv, Typed

\* The metadata of a run that has some.
LEMMA MetaOf ==
  ASSUME Inv, command # Idle, Meta # NoMetadata
  PROVE  /\ command \in Commands /\ command.run \in RunIds
         /\ Meta \in MetadataSet /\ Recorded(Meta) /\ directory[command.run] # "none"
         /\ Len(spool[command.run].index) >= Meta.pages
<1>1. command \in Commands /\ command.run \in RunIds
  BY DEF Inv, Typed, Commands
<1> QED
  BY <1>1 DEF Inv, Typed, TypeOK, Sound, Recorded, Meta

\* A command that ends leaves nothing to show.
LEMMA Ends ==
  ASSUME End
  PROVE  command' = Idle /\ lived' \subseteq [Docs -> Files]
BY DEF End

-----------------------------------------------------------------------------
(* Observing the operands.                                                 *)

\* The folders are sequences of sets of documents.
LEMMA FoldersTyped ==
  ASSUME NEW scope
  PROVE  /\ Folders(scope) \in Seq({Pages, Questions, Extracts})
         /\ \A i \in DOMAIN Folders(scope) : Folders(scope)[i] \subseteq ScopeDocs(scope)
<1> PICK F : F = {Pages, Questions, Extracts}
  OBVIOUS
<1>1. Pages \in F /\ Questions \in F /\ Extracts \in F
  OBVIOUS
<1>2. <<Pages, Questions>> \in Seq(F) /\ <<Extracts>> \in Seq(F)
  BY <1>1
<1>3. \A i \in 1 .. 2 : <<Pages, Questions>>[i] \subseteq Records
  BY DEF Records
<1>4. DOMAIN <<Pages, Questions>> = 1 .. 2 /\ DOMAIN <<Extracts>> = 1 .. 1
  OBVIOUS
<1>5. CASE scope = "wiki"
  BY <1>2, <1>3, <1>4, <1>5 DEF Folders, ScopeDocs
<1>6. CASE scope # "wiki"
  <2>1. Folders(scope) = <<Extracts>> /\ ScopeDocs(scope) = Extracts
    BY <1>6 DEF Folders, ScopeDocs
  <2>2. \A i \in DOMAIN <<Extracts>> : <<Extracts>>[i] \subseteq Extracts
    BY <1>4
  <2> QED
    BY <1>2, <2>1, <2>2
<1> QED
  BY <1>5, <1>6

LEMMA NothingSeen == <<>> \in Observations
<1>1. DOMAIN << >> = {} /\ <<>> = [d \in {} |-> d]
  OBVIOUS
<1>2. [d \in {} |-> d] \in [{} -> Documents]
  OBVIOUS
<1> QED
  BY <1>1, <1>2 DEF Observations

LEMMA ListFolderKeeps == Inv /\ ListFolder => Inv'
<1> SUFFICES ASSUME Inv, ListFolder
             PROVE  Inv'
  OBVIOUS
<1>1. /\ command \in Commands /\ command # Idle /\ command.folders # <<>>
      /\ Phased(command) /\ Within(command) /\ command.phase \in {"observe", "capture"}
  BY DEF ListFolder, Looking, InPhase, Inv, Typed
<1>2. Listed(Head(command.folders)) \subseteq Docs
      /\ Listed(Head(command.folders)) \subseteq ScopeDocs(command.request.scope)
  <2>1. Head(command.folders) \in {Pages, Questions, Extracts}
        /\ Head(command.folders) = command.folders[1] /\ 1 \in DOMAIN command.folders
    BY <1>1 DEF Commands
  <2>2. Listed(Head(command.folders)) \subseteq Head(command.folders)
    BY DEF Listed, Present
  <2> QED
    BY <1>1, <2>1, <2>2 DEF Docs, Records, Within
<1>a. /\ command' = [command EXCEPT !.todo = Listed(Head(command.folders)), !.folders = Tail(@)]
      /\ Tail(command.folders) \in Seq({Pages, Questions, Extracts})
      /\ \A i \in DOMAIN Tail(command.folders) : \E j \in DOMAIN command.folders :
            Tail(command.folders)[i] = command.folders[j]
  BY <1>1 DEF ListFolder, Commands
<1>3. command' \in Commands /\ command'.phase = command.phase /\ command'.goal = command.goal
      /\ command'.run = command.run /\ command'.op = command.op
      /\ command'.request = command.request
  BY <1>1, <1>2, <1>a DEF Commands
<1>4. UNCHANGED <<world, store, faults, history>>
  BY DEF ListFolder
<1>5. Phased(command)'
  BY <1>1, <1>3, <1>4 DEF Phased, Fresh, Building, GivingUp, Loading, Validating, Passed, Cleaning,
     Unfinished, store
<1>6. Within(command)'
  BY <1>1, <1>2, <1>a DEF Within, Commands
<1> QED
  BY <1>3, <1>4, <1>5, <1>6, StoreStays DEF store, Inv, Typed, TypeOK, world, history

\* The first of a set of paths is one of them.
LEMMA FirstPath ==
  ASSUME NEW T \in SUBSET Docs, T # {}
  PROVE  Min(T) \in T
<1>1. T \in SUBSET Nat
  BY PathsAreOrdered
<1>2. PICK n \in T : \A m \in T : ~ (m < n)
  BY <1>1, LeastElement
<1>3. \E x \in T : \A y \in T : x <= y
  BY <1>1, <1>2
<1> QED
  BY <1>3 DEF Min

LEMMA ObserveOperandKeeps == Inv /\ ObserveOperand => Inv'
<1> SUFFICES ASSUME Inv, ObserveOperand
             PROVE  Inv'
  OBVIOUS
<1>1. /\ command \in Commands /\ command # Idle /\ command.todo # {}
      /\ Phased(command) /\ Within(command)
      /\ command.phase \in {"observe", "capture"}
  BY DEF ObserveOperand, Looking, InPhase, Inv, Typed
<1> DEFINE d == Min(command.todo)
<1>2. d \in command.todo /\ d \in Docs
  BY <1>1, FirstPath DEF Commands
<1>3. UNCHANGED <<world, store, faults, history>>
  BY DEF ObserveOperand
<1>4. CASE files[d] = Absent
  <2>1. command' = [command EXCEPT !.phase = "vanished", !.todo = {}]
    BY <1>4 DEF ObserveOperand
  <2>2. command' \in Commands
    BY <1>1, <2>1 DEF Commands, Phases
  <2>3. Phased(command)'
    BY <1>1, <1>3, <2>1 DEF Commands, Phased, Fresh, Building, GivingUp, Loading, Validating, Passed,
       Cleaning, Unfinished, store
  <2>4. Within(command)'
    BY <1>1, <2>1 DEF Within, Commands
  <2> QED
    BY <1>3, <2>2, <2>3, <2>4, StoreStays DEF store, Inv, Typed, TypeOK, world, history
<1>5. CASE files[d] # Absent
  <2>1. files[d] \in Documents
    BY <1>2, <1>5 DEF Inv, Typed, TypeOK, Files
  <2> DEFINE s == [x \in DOMAIN command.seen \union {d} |->
                       IF x = d THEN files[d] ELSE command.seen[x]]
  <2>a. s \in Observations
    <3>1. PICK D \in SUBSET Docs : command.seen \in [D -> Documents]
      BY <1>1 DEF Commands, Observations
    <3>2. s \in [D \union {d} -> Documents]
      BY <2>1, <3>1
    <3> QED
      BY <1>2, <3>2 DEF Observations
  <2>2. command' = [command EXCEPT !.todo = @ \ {d}, !.seen = s]
    BY <1>5 DEF ObserveOperand
  <2> HIDE DEF s
  <2>3. command' \in Commands
    BY <1>1, <2>a, <2>2 DEF Commands
  <2>4. Phased(command)'
    BY <1>1, <1>3, <2>2 DEF Commands, Phased, Fresh, Building, GivingUp, Loading, Validating, Passed,
       Cleaning, Unfinished, store
  <2>5. Within(command)'
    <3>1. DOMAIN s = DOMAIN command.seen \union {d}
      BY DEF s
    <3> QED
      BY <1>1, <1>2, <2>2, <3>1 DEF Within, Commands
  <2> QED
    BY <1>3, <2>3, <2>4, <2>5, StoreStays DEF store, Inv, Typed, TypeOK, world, history
<1> QED
  BY <1>4, <1>5

-----------------------------------------------------------------------------
(* Starting a run.                                                         *)

\* What a command begins with.
LEMMA NewCommand ==
  ASSUME NEW op \in {"start", "resume", "verify", "evidence", "cleanup"}, NEW r \in RunIds,
         NEW request \in Requests \union {Idle}, NEW phase \in Phases, NEW goal \in Goals,
         NEW folders \in Seq({Pages, Questions, Extracts}), NEW index \in Nat,
         NEW waited \in 0 .. MaxFaults
  PROVE  [op |-> op, run |-> r, request |-> request, phase |-> phase, goal |-> goal,
          waited |-> waited, folders |-> folders, todo |-> {}, seen |-> <<>>,
          index |-> index, captured |-> <<>>] \in Commands
BY NothingSeen DEF Commands

LEMMA StartKeeps ==
  ASSUME Inv, NEW r \in RunIds, NEW request \in Requests, NEW waited \in 0 .. MaxFaults,
         Start(r, request, waited)
  PROVE  Inv'
<1>1. /\ directory[r] = "none" /\ metadata[r] = NoMetadata
      /\ Begin("start", r, request, "observe", "create", Folders(request.scope), 0, waited)
      /\ UNCHANGED <<world, store>>
  BY DEF Start, Inv, Sound
<1>2. /\ command' \in Commands /\ command'.op = "start" /\ command'.run = r
      /\ command'.request = request /\ command'.phase = "observe" /\ command'.goal = "create"
      /\ faults' \in 0 .. MaxFaults /\ lived' \subseteq [Docs -> Files]
      /\ Within(command)'
  <2> PICK folders : folders = Folders(request.scope)
    OBVIOUS
  <2>1. folders \in Seq({Pages, Questions, Extracts}) /\ 0 \in Nat
        /\ "observe" \in Phases /\ "create" \in Goals
    BY FoldersTyped DEF Phases, Goals
  <2>2. command' = [op |-> "start", run |-> r, request |-> request, phase |-> "observe",
                    goal |-> "create", waited |-> waited, folders |-> folders, todo |-> {},
                    seen |-> <<>>, index |-> 0, captured |-> <<>>]
    BY <1>1 DEF Begin
  <2>3. command' \in Commands
    BY <2>1, <2>2, NewCommand
  <2>4. faults' \in 0 .. MaxFaults /\ lived' \subseteq [Docs -> Files]
    BY <1>1, BoundsAreNaturals DEF Begin, Inv, Typed, TypeOK
  <2>5. \A i \in DOMAIN folders : folders[i] \subseteq ScopeDocs(request.scope)
    BY FoldersTyped
  <2> QED
    BY <2>2, <2>3, <2>4, <2>5 DEF Within
<1>3. Phased(command)'
  BY <1>1, <1>2 DEF Phased, Fresh, Building, GivingUp, Loading, Validating, Passed, Cleaning,
     Unfinished, store, Validations, Failures
<1> QED
  BY <1>1, <1>2, <1>3, StoreStays DEF store, Inv, Typed, TypeOK, world

LEMMA BeginOthersKeep ==
  ASSUME Inv, NEW r \in RunIds, NEW waited \in 0 .. MaxFaults, NEW index \in Nat,
         Resume(r, index, waited) \/ Verify(r) \/ BuildPacket(r) \/ StartCleanup(r, waited)
  PROVE  Inv'
<1>1. UNCHANGED <<world, store>>
  BY DEF Resume, Verify, BuildPacket, StartCleanup
<1>2. ASSUME StartCleanup(r, waited)
      PROVE  /\ command' \in Commands /\ faults' \in 0 .. MaxFaults /\ lived' \subseteq [Docs -> Files]
             /\ Phased(command)' /\ Within(command)'
  <2>1. /\ command' \in Commands /\ command'.op = "cleanup"
        /\ command'.phase = "clean" /\ command'.goal = "none"
        /\ faults' \in 0 .. MaxFaults /\ lived' \subseteq [Docs -> Files]
    <3>1. 0 \in Nat /\ "clean" \in Phases /\ "none" \in Goals /\ <<>> \in Seq({Pages, Questions, Extracts})
      BY DEF Phases, Goals
    <3>2. command' = [op |-> "cleanup", run |-> r, request |-> Idle, phase |-> "clean",
                      goal |-> "none", waited |-> waited, folders |-> <<>>, todo |-> {},
                      seen |-> <<>>, index |-> 0, captured |-> <<>>]
      BY <1>2 DEF StartCleanup, Begin
    <3>3. command' \in Commands
      BY <3>1, <3>2, NewCommand
    <3>4. faults' \in 0 .. MaxFaults /\ lived' \subseteq [Docs -> Files]
      BY <1>2, BoundsAreNaturals DEF StartCleanup, Begin, Inv, Typed, TypeOK
    <3> QED
      BY <3>2, <3>3, <3>4
  <2> QED
    BY <2>1 DEF Phased, Within, Fresh, Building, GivingUp, Loading, Validating, Passed, Cleaning,
       Validations, Failures
<1>3. ASSUME Resume(r, index, waited) \/ Verify(r) \/ BuildPacket(r)
      PROVE  /\ command' \in Commands /\ faults' \in 0 .. MaxFaults /\ lived' \subseteq [Docs -> Files]
             /\ Phased(command)' /\ Within(command)'
  <2>1. metadata[r] # NoMetadata
    BY <1>3 DEF Resume, Verify, BuildPacket, Loads
  <2> PICK request : request = RequestOf(metadata[r])
    OBVIOUS
  <2>3. request \in Requests
    BY <2>1 DEF Inv, Sound
  <2>2. /\ command' \in Commands /\ command'.op \in {"resume", "verify", "evidence"}
        /\ command'.run = r /\ command'.request = request
        /\ command'.phase = "load" /\ command'.goal \in Validations /\ command'.todo = {}
        /\ faults' \in 0 .. MaxFaults /\ lived' \subseteq [Docs -> Files]
    <3>1. \A op \in {"resume", "verify", "evidence"}, goal \in Validations, i \in Nat, w \in 0 .. MaxFaults :
             [op |-> op, run |-> r, request |-> request, phase |-> "load", goal |-> goal,
              waited |-> w, folders |-> <<>>, todo |-> {}, seen |-> <<>>,
              index |-> i, captured |-> <<>>] \in Commands
      <4>1. "load" \in Phases /\ <<>> \in Seq({Pages, Questions, Extracts}) /\ Validations \subseteq Goals
        BY DEF Phases, Goals
      <4> QED
        BY <2>3, <4>1, NewCommand
    <3>2. \E op \in {"resume", "verify", "evidence"}, goal \in Validations, i \in Nat, w \in 0 .. MaxFaults :
             /\ command' = [op |-> op, run |-> r, request |-> request, phase |-> "load",
                            goal |-> goal, waited |-> w, folders |-> <<>>, todo |-> {},
                            seen |-> <<>>, index |-> i, captured |-> <<>>]
             /\ faults + w <= MaxFaults /\ faults' = faults + w /\ lived' = {files}
      BY <1>3, BoundsAreNaturals DEF Resume, Verify, BuildPacket, Begin, Validations
    <3>3. faults' \in 0 .. MaxFaults /\ lived' \subseteq [Docs -> Files]
      BY <3>2, BoundsAreNaturals DEF Inv, Typed, TypeOK
    <3> QED
      BY <3>1, <3>2, <3>3
  <2>4. Within(command)'
    <3>1. command'.goal \in {"capture", "captured", "packet"} => BuildPacket(r)
      BY <1>3 DEF Resume, Verify, Begin
    <3>2. BuildPacket(r) => request = [purpose |-> "search", scope |-> "wiki", excluded |-> {}]
      BY <2>3 DEF BuildPacket, Requests, RequestOf
    <3> QED
      BY <2>2, <3>1, <3>2 DEF Within
  <2>5. Phased(command)'
    BY <1>1, <2>1, <2>2, <2>3 DEF Phased, Fresh, Building, GivingUp, Loading, Validating, Passed,
       Cleaning, Validations, Failures, store
  <2> QED
    BY <2>2, <2>4, <2>5
<1> QED
  BY <1>1, <1>2, <1>3, StoreStays DEF store, Inv, Typed, TypeOK, world

\* The directory is made step by step, and metadata come last.
LEMMA MakesDirectory == Inv /\ (MakeDirectory \/ FillDirectory) => Inv'
<1> SUFFICES ASSUME Inv, MakeDirectory \/ FillDirectory
             PROVE  Inv'
  OBVIOUS
<1>1. /\ command \in Commands /\ command # Idle /\ Phased(command) /\ Within(command)
      /\ command.run \in RunIds /\ Fresh(command) /\ metadata[command.run] = NoMetadata
  BY DEF MakeDirectory, FillDirectory, Observed, InPhase, Inv, Typed, Commands, Phased, Fresh,
     Building, GivingUp, Loading, Validating, Passed, Cleaning, Validations, Failures
<1>2. PICK dir \in {"partial", "whole"}, phase \in {"fill", "describe"} :
         /\ directory' = [directory EXCEPT ![command.run] = dir]
         /\ command' = [command EXCEPT !.phase = phase]
         /\ phase = "fill" => dir = "partial" /\ command.phase = "observe"
         /\ phase = "describe" => dir = "whole" /\ command.phase = "fill"
  BY DEF MakeDirectory, FillDirectory, Goto, Observed, InPhase
<1>3. UNCHANGED <<world, spare, metadata, spool, faults, lived>>
  BY DEF MakeDirectory, FillDirectory, Goto
<1>4. TypeOK' /\ Typed'
  <2>1. command' \in Commands
    BY <1>1, <1>2 DEF Commands, Phases
  <2> QED
    BY <1>1, <1>2, <1>3, <2>1 DEF Inv, Typed, TypeOK, world
<1>5. ASSUME NEW r \in RunIds
      PROVE  Sound(r)'
  BY <1>1, <1>2, <1>3, <1>5 DEF Inv, Typed, TypeOK, Sound
<1>6. Phased(command)'
  BY <1>1, <1>2, <1>3 DEF Commands, Inv, Typed, TypeOK, Phased, Fresh, Building, GivingUp, Loading,
     Validating, Passed, Cleaning, Validations, Failures
<1>7. Within(command)'
  BY <1>1, <1>2 DEF Within, Commands, Fresh
<1> QED
  BY <1>4, <1>5, <1>6, <1>7 DEF Inv

\* What an incomplete run says of itself.
LEMMA DescribeKeeps == Inv /\ Describe => Inv'
<1> SUFFICES ASSUME Inv, Describe
             PROVE  Inv'
  OBVIOUS
<1>1. /\ command \in Commands /\ command # Idle /\ Phased(command) /\ Within(command)
      /\ command.run \in RunIds /\ Fresh(command) /\ metadata[command.run] = NoMetadata
      /\ command.phase = "describe" /\ directory[command.run] = "whole"
      /\ command.request \in Requests /\ command.op = "start"
      /\ DOMAIN command.seen \subseteq ScopeDocs(command.request.scope)
  BY DEF Describe, InPhase, Inv, Typed, Commands, Phased, Within, Fresh, Building, GivingUp, Loading,
     Validating, Passed, Cleaning, Validations, Failures
<1> PICK request, seen, r, waited : /\ request = command.request /\ seen = command.seen
                                    /\ r = command.run /\ waited = command.waited
  OBVIOUS
<1> PICK m : m = NewMetadata(request, Revision, Identity(request.scope, seen), waited)
  OBVIOUS
<1>2. /\ request.purpose \in {"search", "links"} /\ request.scope \in {"wiki", "sources"}
      /\ request.excluded \in SUBSET Records
      /\ request = [purpose |-> request.purpose, scope |-> request.scope,
                    excluded |-> request.excluded]
  BY <1>1 DEF Requests
<1>3. Identity(request.scope, seen) \in Identities
  <2>1. PICK D \in SUBSET Docs : seen \in [D -> Documents]
    BY <1>1 DEF Commands, Observations
  <2>2. CASE request.scope = "wiki"
    BY <1>1, <2>2 DEF Identity, Identities, Commands
  <2>3. CASE request.scope # "wiki"
    <3>1. D \subseteq Extracts
      BY <1>1, <2>1, <2>3 DEF ScopeDocs
    <3>2. [d \in DOMAIN seen |-> active[d]] \in [D -> 0 .. MaxEdits + 1]
      BY <2>1, <3>1 DEF Inv, Typed, TypeOK
    <3> QED
      BY <2>3, <3>2 DEF Identity, Identities
  <2> QED
    BY <2>2, <2>3
<1>4. m \in MetadataSet
  <2>1. 0 \in {Cardinality(S) : S \in SUBSET Docs}
    BY FS_EmptySet
  <2>2. TTL - waited \in Countdown
    BY <1>1, BoundsAreNaturals DEF Countdown, Commands
  <2>3. Revision \in [Extracts -> 0 .. MaxEdits + 1]
    BY DEF Revision, Inv, Typed, TypeOK
  <2> QED
    BY <1>2, <1>3, <2>1, <2>2, <2>3 DEF NewMetadata, MetadataSet, Codes
<1>5. /\ Recorded(m) /\ RequestOf(m) = request /\ m.pages = 0 /\ m.highest = -1
      /\ m.blocked = "incomplete" /\ ~m.hashed
  BY <1>1, <1>2 DEF NewMetadata, Recorded, RequestOf
<1>6. metadata' = [metadata EXCEPT ![r] = m]
  BY DEF Describe, SaveMetadata
<1>7. /\ command' \in Commands /\ command'.phase \in {"context", "filenames"}
      /\ command'.goal = "create" /\ command'.op = "start" /\ command'.run = r
      /\ command'.request = request
  <2>1. PICK phase \in {"context", "filenames"} :
           command' = [command EXCEPT !.phase = phase,
                                      !.todo = DOMAIN command.seen \ command.request.excluded]
    BY DEF Describe
  <2>2. DOMAIN command.seen \subseteq Docs
    BY <1>1 DEF Commands, Observations
  <2> QED
    BY <1>1, <2>1, <2>2 DEF Commands, Phases, Fresh
<1>8. m # NoMetadata /\ metadata'[r] = m
  BY <1>1, <1>4, <1>6, NoMetadataIsNone DEF Inv, Typed
<1>9. Phased(command)' /\ Within(command)'
  <2>1. Unfinished(r)'
    BY <1>5, <1>8 DEF Unfinished
  <2>2. UNCHANGED directory
    BY DEF Describe
  <2> QED
    BY <1>1, <1>5, <1>7, <1>8, <2>1, <2>2 DEF Phased, Within, Fresh, Building, GivingUp, Loading,
       Validating, Passed, Cleaning, Validations, Failures
<1>10. UNCHANGED <<world, directory, spare, spool, faults, lived>>
  BY DEF Describe, history
<1>11. r \in RunIds /\ directory[r] # "none" /\ Len(spool[r].index) >= m.pages
  <2>1. spool[r].index \in Seq(Nat)
    BY <1>1 DEF Inv, Typed, Spools
  <2> QED
    BY <1>1, <1>5, <2>1
<1>12. lived' \subseteq [Docs -> Files]
  BY <1>10 DEF Inv, Typed
<1> QED
  BY <1>4, <1>5, <1>6, <1>7, <1>9, <1>10, <1>11, <1>12, RunSaved

-----------------------------------------------------------------------------
(* Building a run.                                                         *)

\* A step that writes the spool of one run, or damages it.
LEMMA RunSpooled ==
  ASSUME Inv, NEW r \in RunIds, NEW s \in Spools, metadata[r] # NoMetadata,
         Len(s.index) >= metadata[r].pages,
         spool' = [spool EXCEPT ![r] = s],
         UNCHANGED <<world, directory, spare, metadata>>, faults' \in 0 .. MaxFaults,
         lived' \subseteq [Docs -> Files],
         command' # Idle => command' \in Commands /\ (Phased(command) /\ Within(command))'
  PROVE  Inv'
<1>1. spool' \in [RunIds -> Spools] /\ spool'[r] = s
      /\ \A q \in RunIds \ {r} : spool'[q] = spool[q]
  BY DEF Inv, Typed
<1>2. TypeOK'
  <2>1. ASSUME NEW q \in RunIds, metadata'[q] # NoMetadata
        PROVE  /\ metadata'[q].blocked \in Codes
               /\ metadata'[q].expires \in Countdown
               /\ metadata'[q].retain \in Countdown \union {Never}
               /\ metadata'[q].highest \in -1 .. metadata'[q].pages
               /\ spool'[q].results \in Seq(Matches) /\ spool'[q].index \in Seq(Nat)
               /\ Len(spool'[q].index) >= metadata'[q].pages
    <3>1. CASE q = r
      BY <1>1, <2>1, <3>1 DEF Inv, Typed, TypeOK, Spools
    <3>2. CASE q # r
      BY <1>1, <2>1, <3>2 DEF Inv, Typed, TypeOK
    <3> QED
      BY <3>1, <3>2
  <2> QED
    BY <2>1 DEF Inv, Typed, TypeOK, world
<1>3. ASSUME NEW q \in RunIds
      PROVE  Sound(q)'
  <2>1. CASE q = r
    BY <2>1 DEF Inv, Sound
  <2>2. CASE q # r
    BY <1>1, <2>2 DEF Inv, Sound
  <2> QED
    BY <2>1, <2>2
<1> QED
  BY <1>1, <1>2, <1>3 DEF Inv, Typed

\* The matches of a document are a sequence of matches.
LEMMA MatchesTyped ==
  ASSUME NEW purpose, NEW d \in Docs, NEW file \in Documents
  PROVE  Hits(d, file) \in Seq(Matches) /\ Matched(purpose, d, file) \in Seq(Matches)
<1>1. file.content \in Nat /\ file.content \in Contents
  BY ContentsAreCounts DEF Documents
<1>2. \A i \in 1 .. file.content : [doc |-> d, line |-> i, content |-> file.content] \in Matches
  BY <1>1 DEF Matches
<1>3. Hits(d, file) \in Seq(Matches)
  BY <1>1, <1>2 DEF Hits
<1> HIDE DEF Matches
<1>4. Hits(d, file) # <<>> => <<Head(Hits(d, file))>> \in Seq(Matches)
  BY <1>3
<1> QED
  BY <1>3, <1>4 DEF Matched

\* Pages are added to the index.
LEMMA PagesIndexed ==
  ASSUME NEW index \in Seq(Nat), NEW results \in Seq(Matches)
  PROVE  IndexPages(index, results) \in Seq(Nat) /\ Len(IndexPages(index, results)) >= Len(index)
<1> PICK start : start = PageStart(index)
  OBVIOUS
<1>1. start \in Nat
  BY DEF PageStart
<1>2. PageSize \in Nat /\ PageSize > 0 /\ Len(results) \in Nat
  BY BoundsAreNaturals
<1>3. (Len(results) - start) \div PageSize \in Int
  BY <1>1, <1>2
<1> PICK n \in Int : n = (Len(results) - start) \div PageSize
  BY <1>3
<1> DEFINE ends == [i \in 1 .. n |-> start + i * PageSize]
<1>4. ends \in Seq(Nat)
  <2>1. \A i \in 1 .. n : start + i * PageSize \in Nat
    BY <1>1, <1>2
  <2>2. CASE n >= 0
    BY <2>1, <2>2
  <2>3. CASE n < 0
    <3>1. 1 .. n = 1 .. 0
      BY <2>3
    <3>2. ends \in [1 .. 0 -> Nat]
      BY <2>1, <3>1
    <3> QED
      BY <3>2
  <2> QED
    BY <2>2, <2>3
<1>5. IndexPages(index, results) = index \o ends
  BY DEF IndexPages
<1> HIDE DEF ends
<1> QED
  BY <1>4, <1>5

\* A command that builds.
LEMMA BuildingFacts ==
  ASSUME Inv, InPhase("filenames") \/ InPhase("context") \/ InPhase("finish")
  PROVE  /\ command \in Commands /\ command # Idle /\ Phased(command) /\ Within(command)
         /\ Building(command) /\ ~Fresh(command) /\ command.op = "start"
         /\ command.run \in RunIds /\ spool[command.run] \in Spools
         /\ Meta # NoMetadata /\ Unfinished(command.run) /\ directory[command.run] # "none"
         /\ ~Meta.hashed /\ Meta.pages = 0 /\ command.request = RequestOf(Meta)
<1>1. /\ command \in Commands /\ command # Idle /\ Phased(command) /\ Within(command)
      /\ command.phase \in {"filenames", "context", "finish"} /\ command.run \in RunIds
  BY DEF InPhase, Inv, Typed, Commands
<1>2. Building(command) /\ ~Fresh(command)
  BY <1>1 DEF Phased, Fresh, Building, GivingUp, Loading, Validating, Passed, Cleaning
<1> QED
  BY <1>1, <1>2 DEF Phased, Inv, Typed, Meta, Fresh, Building, Cleaning

\* A command that goes on building.
LEMMA StillBuilding ==
  ASSUME Inv, InPhase("filenames") \/ InPhase("context"),
         NEW phase \in {"filenames", "context", "finish"}, NEW todo \in SUBSET Docs,
         phase = "finish" => todo = {},
         command' = [command EXCEPT !.phase = phase, !.todo = todo],
         UNCHANGED <<directory, metadata>>
  PROVE  command' \in Commands /\ (Phased(command) /\ Within(command))'
<1>1. /\ command \in Commands /\ command.op = "start" /\ command.goal = "create"
      /\ Phased(command) /\ Building(command) /\ ~Fresh(command)
  BY BuildingFacts DEF Building
<1>2. /\ command' \in Commands /\ command'.op = "start" /\ command'.goal = "create"
      /\ command'.phase = phase /\ command'.run = command.run
      /\ command'.request = command.request
  BY <1>1 DEF Commands, Phases
<1>3. Phased(command)'
  BY <1>1, <1>2 DEF Phased, Fresh, Building, GivingUp, Loading, Validating, Passed, Cleaning,
     Unfinished, Validations, Failures
<1> QED
  BY <1>1, <1>2, <1>3 DEF Within, Commands

LEMMA FindCandidateKeeps == Inv /\ FindCandidate => Inv'
<1> SUFFICES ASSUME Inv, FindCandidate
             PROVE  Inv'
  OBVIOUS
<1> PICK r, d : r = command.run /\ d = NextFile
  OBVIOUS
<1>1. /\ command \in Commands /\ command.phase = "filenames"
      /\ r \in RunIds /\ spool[r] \in Spools /\ metadata[r] # NoMetadata /\ metadata[r].pages = 0
  BY BuildingFacts DEF FindCandidate, InPhase, Meta
<1>2. d \in Docs /\ command.todo \in SUBSET Docs
  BY <1>1, FirstPath DEF FindCandidate, NextFile, Commands
<1>3. UNCHANGED <<world, directory, spare, metadata, faults, history>>
  BY DEF FindCandidate
<1>4. command' \in Commands /\ (Phased(command) /\ Within(command))'
  <2>1. command' = [command EXCEPT !.phase = "filenames", !.todo = command.todo \ {d}]
    BY <1>1 DEF FindCandidate, Commands
  <2>2. command.todo \ {d} \in SUBSET Docs
    BY <1>2
  <2> QED
    BY <1>3, <2>1, <2>2, StillBuilding DEF FindCandidate
<1>5. PICK s \in Spools : s.index = spool[r].index /\ spool' = [spool EXCEPT ![r] = s]
  <2>1. CASE spool' = spool
    BY <1>1, <2>1 DEF Inv, Typed
  <2>2. CASE spool' = [spool EXCEPT ![r].candidates = @ \union {d}]
    <3>1. [spool[r] EXCEPT !.candidates = @ \union {d}] \in Spools
      BY <1>1, <1>2 DEF Spools
    <3> QED
      BY <1>1, <2>2, <3>1 DEF Spools
  <2> QED
    BY <2>1, <2>2 DEF FindCandidate
<1>6. Len(s.index) >= metadata[r].pages
  BY <1>1, <1>5 DEF Spools
<1> QED
  BY <1>1, <1>3, <1>4, <1>5, <1>6, RunSpooled DEF Inv, Typed, TypeOK, history

LEMMA FilenamesDoneKeeps == Inv /\ FilenamesDone => Inv'
<1> SUFFICES ASSUME Inv, FilenamesDone
             PROVE  Inv'
  OBVIOUS
<1>1. spool[command.run].candidates \in SUBSET Docs
  BY BuildingFacts DEF FilenamesDone, Spools
<1>2. UNCHANGED <<world, store, faults, history>>
      /\ command' = [command EXCEPT !.phase = "context", !.todo = spool[command.run].candidates]
  BY DEF FilenamesDone
<1>3. command' \in Commands /\ (Phased(command) /\ Within(command))'
  BY <1>1, <1>2, StillBuilding DEF FilenamesDone, store
<1> QED
  BY <1>2, <1>3, StoreStays DEF store, Inv, Typed, TypeOK, world, history

LEMMA ReadMatchesKeeps == Inv /\ ReadMatches => Inv'
<1> SUFFICES ASSUME Inv, ReadMatches
             PROVE  Inv'
  OBVIOUS
<1> PICK r, d, purpose : r = command.run /\ d = NextFile /\ purpose = command.request.purpose
  OBVIOUS
<1>1. /\ command \in Commands /\ command.phase = "context"
      /\ r \in RunIds /\ spool[r] \in Spools /\ metadata[r] # NoMetadata /\ metadata[r].pages = 0
  BY BuildingFacts DEF ReadMatches, InPhase, Meta
<1>2. d \in Docs /\ command.todo \in SUBSET Docs /\ files[d] \in Documents
  BY <1>1, FirstPath DEF ReadMatches, NextFile, Commands, Inv, Typed, TypeOK, Files
<1>3. UNCHANGED <<world, directory, spare, metadata, faults, history>>
  BY DEF ReadMatches
<1>4. command' \in Commands /\ (Phased(command) /\ Within(command))'
  <2>1. command' = [command EXCEPT !.phase = "context", !.todo = command.todo \ {d}]
    BY <1>1 DEF ReadMatches, Commands
  <2>2. command.todo \ {d} \in SUBSET Docs
    BY <1>2
  <2> QED
    BY <1>3, <2>1, <2>2, StillBuilding DEF ReadMatches
<1> PICK matches : matches = Matched(purpose, d, files[d])
  OBVIOUS
<1>5. matches \in Seq(Matches)
  BY <1>2, MatchesTyped
<1> PICK s : s = SpoolMatches(spool[r], matches)
  OBVIOUS
<1>6. s \in Spools
  <2>1. spool[r].results \o matches \in Seq(Matches) /\ spool[r].index \in Seq(Nat)
    BY <1>1, <1>5 DEF Spools
  <2>2. IndexPages(spool[r].index, spool[r].results \o matches) \in Seq(Nat)
    BY <2>1, PagesIndexed
  <2> QED
    BY <1>1, <2>1, <2>2 DEF SpoolMatches, Spools
<1>7. PICK t \in Spools : spool' = [spool EXCEPT ![r] = t]
  <2>1. [s EXCEPT !.candidates = @ \union {d}] \in Spools
    BY <1>2, <1>6 DEF Spools
  <2> QED
    BY <1>6, <2>1 DEF ReadMatches
<1>8. Len(t.index) >= metadata[r].pages
  BY <1>1, <1>7 DEF Spools
<1> QED
  BY <1>1, <1>3, <1>4, <1>7, <1>8, RunSpooled DEF Inv, Typed, TypeOK, history

LEMMA IndexLastPageKeeps == Inv /\ IndexLastPage => Inv'
<1> SUFFICES ASSUME Inv, IndexLastPage
             PROVE  Inv'
  OBVIOUS
<1> PICK r : r = command.run
  OBVIOUS
<1>1. /\ command \in Commands /\ command.phase = "context"
      /\ r \in RunIds /\ spool[r] \in Spools /\ metadata[r] # NoMetadata /\ metadata[r].pages = 0
  BY BuildingFacts DEF IndexLastPage, InPhase, Meta
<1>3. UNCHANGED <<world, directory, spare, metadata, faults, history>>
  BY DEF IndexLastPage, Goto, history
<1>4. command' \in Commands /\ (Phased(command) /\ Within(command))'
  <2>1. command' = [command EXCEPT !.phase = "finish", !.todo = command.todo]
    BY <1>1 DEF IndexLastPage, Goto, Commands
  <2>2. command.todo \in SUBSET Docs /\ command.todo = {}
    BY <1>1 DEF Commands, IndexLastPage
  <2> QED
    BY <1>3, <2>1, <2>2, StillBuilding DEF IndexLastPage
<1>5. PICK s \in Spools : spool' = [spool EXCEPT ![r] = s]
  <2>1. CASE spool' = spool
    BY <1>1, <2>1 DEF Inv, Typed
  <2>2. CASE spool' = [spool EXCEPT ![r].index = Append(@, Len(spool[r].results))]
    <3>1. Len(spool[r].results) \in Nat /\ spool[r].index \in Seq(Nat)
      BY <1>1 DEF Spools
    <3>2. Append(spool[r].index, Len(spool[r].results)) \in Seq(Nat)
      BY <3>1
    <3>3. [spool[r] EXCEPT !.index = Append(@, Len(spool[r].results))] \in Spools
      BY <1>1, <3>2 DEF Spools
    <3> QED
      BY <2>2, <3>3
  <2> QED
    BY <2>1, <2>2 DEF IndexLastPage
<1>6. Len(s.index) >= metadata[r].pages
  BY <1>1, <1>5 DEF Spools
<1> QED
  BY <1>1, <1>3, <1>4, <1>5, <1>6, RunSpooled DEF Inv, Typed, TypeOK, history

LEMMA AbandonKeeps == Inv /\ (SpoolLimit \/ RipgrepFails) => Inv'
<1> SUFFICES ASSUME Inv, SpoolLimit \/ RipgrepFails
             PROVE  Inv'
  OBVIOUS
<1>1. /\ command \in Commands /\ Phased(command) /\ Building(command) /\ ~Fresh(command)
      /\ command.op = "start" /\ Unfinished(command.run) /\ directory[command.run] # "none"
      /\ command.request \in Requests /\ command.request = RequestOf(metadata[command.run])
      /\ metadata[command.run] # NoMetadata
  BY BuildingFacts DEF SpoolLimit, RipgrepFails, Meta, Phased, Building, Cleaning
<1>2. PICK code \in Failures :
         command' = [command EXCEPT !.phase = "give_up", !.goal = code, !.todo = {}]
  BY DEF SpoolLimit, RipgrepFails, Abandon, Failures
<1>3. UNCHANGED <<world, store, faults, history>>
  BY DEF SpoolLimit, RipgrepFails
<1>4. /\ command' \in Commands /\ command'.op = "start" /\ command'.run = command.run
      /\ command'.phase = "give_up" /\ command'.goal \in Failures
      /\ command'.request = command.request
  BY <1>1, <1>2 DEF Commands, Phases, Goals
<1>5. Phased(command)' /\ Within(command)'
  BY <1>1, <1>3, <1>4 DEF Phased, Within, Fresh, Building, GivingUp, Loading, Validating, Passed,
     Cleaning, Unfinished, Validations, Failures, store
<1> QED
  BY <1>3, <1>4, <1>5, StoreStays DEF store, Inv, Typed, TypeOK, world, history

-----------------------------------------------------------------------------
(* Steps that end their command.                                           *)

\* The command of a step, with what is known of it.
LEMMA CommandFacts ==
  ASSUME Inv, command # Idle
  PROVE  /\ command \in Commands /\ command.run \in RunIds /\ Phased(command) /\ Within(command)
         /\ spool[command.run] \in Spools
BY DEF Inv, Typed, Commands

\* A command ends and has stored nothing.
LEMMA EndsKeep ==
  \/ BindFails \/ LoadBlocked \/ OutOfOrder \/ Return \/ ProofRefused \/ Use \/ CleanKeeps
  => (Inv => Inv')
<1> SUFFICES ASSUME Inv, \/ BindFails \/ LoadBlocked \/ OutOfOrder \/ Return
                         \/ ProofRefused \/ Use \/ CleanKeeps
             PROVE  Inv'
  OBVIOUS
<1>1. End /\ UNCHANGED <<world, store, faults>>
  BY DEF BindFails, LoadBlocked, OutOfOrder, Return, ProofRefused, Use, CleanKeeps, Skip
<1> QED
  BY <1>1, Ends, StoreStays DEF store, Inv, Typed, TypeOK, world

\* A command ends and has saved metadata of its run.
LEMMA EndsSaved ==
  ASSUME Inv, command # Idle, Meta # NoMetadata, NEW m \in MetadataSet, Recorded(m),
         SaveMetadata(m), End, Len(spool[command.run].index) >= m.pages,
         UNCHANGED <<world, directory, spare, spool, faults>>
  PROVE  Inv'
<1> PICK r : r = command.run
  OBVIOUS
<1>1. r \in RunIds /\ directory[r] # "none"
  BY MetaOf
<1>2. metadata' = [metadata EXCEPT ![r] = m]
  BY DEF SaveMetadata
<1> QED
  BY <1>1, <1>2, Ends, RunSaved

\* What is saved when a run is finished.
LEMMA FinishedTyped ==
  ASSUME Inv, command # Idle, Meta # NoMetadata, Unfinished(command.run),
         NEW code \in Failures \union {"none"}
  PROVE  /\ Finished(code) \in MetadataSet /\ Recorded(Finished(code))
         /\ RequestOf(Finished(code)) = RequestOf(Meta)
         /\ Finished(code).highest = -1 /\ Finished(code).blocked = code /\ Finished(code).hashed
         /\ Finished(code).retain = Meta.retain /\ Finished(code).scope = Meta.scope
         /\ Finished(code).identity = Meta.identity
         /\ Len(spool[command.run].index) = Finished(code).pages
<1> PICK s, m : s = spool[command.run] /\ m = Meta
  OBVIOUS
<1>1. s \in Spools /\ m \in MetadataSet /\ Recorded(m)
  BY MetaOf, CommandFacts
<1>2. m.blocked \in {"incomplete", "none", "stale"} /\ m.highest = -1
  BY DEF Unfinished, Meta
<1>3. Cardinality(s.candidates) \in {Cardinality(S) : S \in SUBSET Docs}
      /\ Len(s.results) \in Nat /\ Len(s.index) \in Nat
  <2>1. s.candidates \in SUBSET Docs /\ s.results \in Seq(Matches) /\ s.index \in Seq(Nat)
    BY <1>1 DEF Spools
  <2>2. Cardinality(s.candidates) \in {Cardinality(S) : S \in SUBSET Docs}
    BY <2>1, Zenon
  <2> HIDE DEF Matches
  <2> QED
    BY <2>1, <2>2
<1>4. Finished(code) = [m EXCEPT !.hashed = TRUE, !.blocked = code, !.pages = Len(s.index),
                                 !.candidates = Cardinality(s.candidates), !.matches = Len(s.results)]
  BY Zenon DEF Finished
<1> PICK cardinality, matches, pages : /\ cardinality = Cardinality(s.candidates)
                                       /\ matches = Len(s.results) /\ pages = Len(s.index)
  OBVIOUS
<1> PICK f : f = [m EXCEPT !.hashed = TRUE, !.blocked = code, !.pages = pages,
                           !.candidates = cardinality, !.matches = matches]
  OBVIOUS
<1>5. f \in MetadataSet
  BY <1>1, <1>3 DEF MetadataSet, Codes, Failures
<1>6. /\ RequestOf(f) = RequestOf(m) /\ f.highest = -1 /\ f.blocked = code /\ f.hashed
      /\ f.retain = m.retain /\ f.pages = pages /\ f.scope = m.scope /\ f.identity = m.identity
  BY <1>1, <1>2 DEF MetadataSet, RequestOf
<1>7. m.retain = Never
  BY <1>1, <1>2 DEF Recorded
<1>8. Recorded(f)
  BY <1>1, <1>3, <1>6, <1>7 DEF Recorded
<1> QED
  BY <1>4, <1>5, <1>6, <1>8

LEMMA FinishKeeps == Inv /\ Finish => Inv'
<1> SUFFICES ASSUME Inv, Finish
             PROVE  Inv'
  OBVIOUS
<1> PICK r, m : r = command.run /\ m = Finished("none")
  OBVIOUS
<1>1. /\ command \in Commands /\ command # Idle /\ command.op = "start" /\ Meta # NoMetadata
      /\ command.request = RequestOf(Meta) /\ Unfinished(r) /\ r \in RunIds /\ directory[r] # "none"
      /\ command.phase = "finish" /\ Within(command) /\ Phased(command) /\ Building(command)
  BY BuildingFacts DEF Finish, InPhase
<1>2. /\ m \in MetadataSet /\ Recorded(m) /\ RequestOf(m) = RequestOf(Meta)
      /\ m.highest = -1 /\ m.blocked = "none" /\ Len(spool[r].index) = m.pages
  BY <1>1, FinishedTyped
<1>3. metadata' = [metadata EXCEPT ![r] = m]
  BY DEF Finish, SaveMetadata
<1>4. metadata'[r] = m /\ m # NoMetadata
  BY <1>1, <1>2, <1>3, NoMetadataIsNone DEF Inv, Typed
<1> PICK folders : folders = Folders(Meta.scope)
  OBVIOUS
<1>5. folders \in Seq({Pages, Questions, Extracts})
      /\ \A i \in DOMAIN folders : folders[i] \subseteq ScopeDocs(Meta.scope)
  BY FoldersTyped
<1>6. command' = [command EXCEPT !.phase = "observe", !.goal = "page", !.folders = folders,
                                 !.seen = <<>>]
  BY DEF Finish, ToObserve
<1>7. /\ command' \in Commands /\ command'.phase = "observe" /\ command'.goal = "page"
      /\ command'.op = "start" /\ command'.run = r /\ command'.request = command.request
      /\ command'.todo = {} /\ command'.folders = folders /\ command'.seen = <<>>
  BY <1>1, <1>5, <1>6, NothingSeen DEF Commands, Phases, Goals, Validations, Within
<1>8. command.request.scope = Meta.scope /\ command.request \in Requests
  BY <1>1 DEF RequestOf, Phased, Building, Cleaning
<1>9. Within(command)'
  BY <1>5, <1>7, <1>8 DEF Within
<1>10. Phased(command)'
  <2>1. Unfinished(r)'
    BY <1>2, <1>4 DEF Unfinished
  <2> QED
    BY <1>1, <1>2, <1>4, <1>7, <1>8, <2>1 DEF Phased, Fresh, Building, GivingUp, Loading, Validating,
       Passed, Cleaning, Validations, Failures
<1>11. UNCHANGED <<world, directory, spare, spool, faults, history>>
  BY DEF Finish
<1>12. Len(spool[r].index) >= m.pages
  <2>1. spool[r].index \in Seq(Nat)
    BY <1>1, CommandFacts DEF Spools
  <2> QED
    BY <1>2, <2>1
<1>13. lived' \subseteq [Docs -> Files]
  BY <1>11 DEF history, Inv, Typed
<1> QED
  BY <1>1, <1>2, <1>3, <1>7, <1>9, <1>10, <1>11, <1>12, <1>13, RunSaved

LEMMA GiveUpKeeps == Inv /\ GiveUp => Inv'
<1> SUFFICES ASSUME Inv, GiveUp
             PROVE  Inv'
  OBVIOUS
<1> PICK m : m = Finished(command.goal)
  OBVIOUS
<1>1. /\ command # Idle /\ command.goal \in Failures /\ Unfinished(command.run)
      /\ Meta # NoMetadata
  BY CommandFacts DEF GiveUp, InPhase, Phased, Fresh, Building, GivingUp, Loading, Validating, Passed,
     Cleaning, Unfinished, Meta
<1>2. /\ m \in MetadataSet /\ Recorded(m) /\ m.highest = -1
      /\ Len(spool[command.run].index) = m.pages
  BY <1>1, FinishedTyped
<1>3. Len(spool[command.run].index) >= m.pages
  <2>1. spool[command.run].index \in Seq(Nat)
    BY <1>1, CommandFacts DEF Spools
  <2> QED
    BY <1>2, <2>1
<1>4. SaveMetadata(m) /\ End /\ UNCHANGED <<world, directory, spare, spool, faults>>
  BY DEF GiveUp
<1> QED
  BY <1>1, <1>2, <1>3, <1>4, EndsSaved

LEMMA EndsBlocked == Inv /\ (LoadExpired \/ PageLost \/ CleanBlocks) => Inv'
<1> SUFFICES ASSUME Inv, LoadExpired \/ PageLost \/ CleanBlocks
             PROVE  Inv'
  OBVIOUS
<1>1. command # Idle /\ Meta # NoMetadata
  BY CommandFacts DEF LoadExpired, PageLost, CleanBlocks, Loads, InPhase, Phased, Fresh, Building,
     GivingUp, Loading, Validating, Passed, Cleaning, Meta
<1> PICK m : m = Meta
  OBVIOUS
<1>2. /\ m \in MetadataSet /\ Recorded(m) /\ Len(spool[command.run].index) >= m.pages
      /\ command.waited \in 0 .. MaxFaults
  BY <1>1, MetaOf DEF Commands
<1>3. End /\ UNCHANGED <<world, directory, spare, spool, faults>>
  BY DEF LoadExpired, PageLost, CleanBlocks
<1>4. PICK code \in Codes \ {"none"}, retain \in Countdown \union {Never} :
         /\ retain # Never => code = "expired"
         /\ SaveMetadata([m EXCEPT !.retain = retain, !.blocked = code])
  <2>1. TTL - command.waited \in Countdown /\ m.retain \in Countdown \union {Never}
    BY <1>2, BoundsAreNaturals DEF Countdown, MetadataSet
  <2>2. "expired" \in Codes \ {"none"} /\ "stale" \in Codes \ {"none"}
    BY DEF Codes
  <2>3. CASE LoadExpired
    <3>1. Retained(m, command.waited) \in Countdown \union {Never}
      BY <2>1 DEF Retained
    <3> QED
      BY <2>2, <2>3, <3>1 DEF LoadExpired
  <2>4. CASE CleanBlocks
    BY <2>1, <2>2, <2>4 DEF CleanBlocks
  <2>5. CASE PageLost
    <3>1. m.blocked = "none"
      BY <1>1, <2>5, CommandFacts DEF PageLost, InPhase, Phased, Fresh, Building, GivingUp, Loading,
         Validating, Passed, Cleaning, Meta
    <3>2. m.retain = Never /\ [m EXCEPT !.retain = Never, !.blocked = "stale"] = [m EXCEPT !.blocked = "stale"]
      BY <1>2, <3>1 DEF Recorded, MetadataSet
    <3> QED
      BY <2>1, <2>2, <2>5, <3>2 DEF PageLost
  <2> QED
    BY <2>3, <2>4, <2>5
<1> PICK b : b = [m EXCEPT !.retain = retain, !.blocked = code]
  OBVIOUS
<1>5. b \in MetadataSet /\ Recorded(b) /\ b.highest = m.highest /\ b.pages = m.pages
  BY <1>2, <1>4 DEF MetadataSet, Recorded, RequestOf
<1>6. SaveMetadata(b)
  BY <1>4
<1>7. Len(spool[command.run].index) >= b.pages
  BY <1>2, <1>3, <1>5
<1> QED
  BY <1>1, <1>3, <1>5, <1>6, <1>7, EndsSaved

LEMMA ServeKeeps == Inv /\ Serve => Inv'
<1> SUFFICES ASSUME Inv, Serve
             PROVE  Inv'
  OBVIOUS
<1> PICK m, index, r : m = Meta /\ index = command.index /\ r = command.run
  OBVIOUS
<1>1. /\ command \in Commands /\ command # Idle /\ Passed(command) /\ command.goal = "page"
      /\ Phased(command) /\ Within(command) /\ r \in RunIds /\ command.request \in Requests
      /\ m # NoMetadata /\ m.blocked = "none" /\ command.request = RequestOf(m)
  BY CommandFacts DEF Serve, InPhase, Phased, Fresh, Building, GivingUp, Loading, Validating, Passed,
     Cleaning, Meta
<1>2. /\ m \in MetadataSet /\ Recorded(m) /\ Len(spool[r].index) >= m.pages
      /\ index \in Nat /\ directory[r] # "none"
  BY <1>1, MetaOf DEF Commands
<1> PICK highest : highest = IF index > m.highest THEN index ELSE m.highest
  OBVIOUS
<1> PICK s : s = [m EXCEPT !.highest = highest]
  OBVIOUS
<1>3. metadata' = [metadata EXCEPT ![r] = s] /\ UNCHANGED <<world, directory, spare, spool, faults>>
      /\ command' = [command EXCEPT !.phase = "return"] /\ lived' = lived
  BY DEF Serve, SaveMetadata, Goto
<1>4. index < m.pages /\ index <= m.highest + 1
  BY DEF Serve, MayServe
<1>5. m.highest \in Int /\ m.pages \in Nat /\ m.highest \in -1 .. m.pages
  BY <1>2 DEF MetadataSet, Recorded
<1>6. highest \in -1 .. m.pages /\ highest \in Int
  BY <1>2, <1>4, <1>5
<1>7. /\ s \in MetadataSet /\ s.highest = highest /\ s.pages = m.pages /\ Recorded(s)
      /\ s.blocked = m.blocked /\ RequestOf(s) = RequestOf(m)
  BY <1>2, <1>5, <1>6 DEF MetadataSet, Recorded, RequestOf
<1>8. metadata'[r] = s /\ s # NoMetadata
  BY <1>1, <1>3, <1>7, NoMetadataIsNone DEF Inv, Typed
<1>9. /\ command' \in Commands /\ command'.phase = "return" /\ command'.goal = "page"
      /\ command'.run = r /\ command'.op = command.op /\ command'.request = command.request
  BY <1>1, <1>3 DEF Commands, Phases
<1>10. Phased(command)' /\ Within(command)'
  <2>1. Passed(command')
    BY <1>9 DEF Passed
  <2>2. ~Fresh(command') /\ ~Building(command') /\ ~GivingUp(command')
    BY <1>9 DEF Fresh, Building, GivingUp, Failures
  <2>3. metadata'[r] # NoMetadata /\ RequestOf(metadata'[r]) = command'.request
        /\ metadata'[r].blocked = "none"
    BY <1>1, <1>7, <1>8, <1>9
  <2>4. Phased(command)'
    BY <1>1, <1>9, <2>1, <2>2, <2>3 DEF Phased, Fresh, Building, GivingUp, Passed, Failures
  <2>5. Within(command)'
    BY <1>9 DEF Within
  <2> QED
    BY <2>4, <2>5
<1>11. lived' \subseteq [Docs -> Files] /\ Len(spool[r].index) >= s.pages
  BY <1>2, <1>3, <1>7 DEF Inv, Typed
<1> QED
  BY <1>1, <1>2, <1>3, <1>7, <1>9, <1>10, <1>11, RunSaved

-----------------------------------------------------------------------------
(* Steps of a validation and of a proof.                                   *)

\* A command that looks at the operands, or at the records, from the beginning.
LEMMA LooksAgain ==
  ASSUME Inv, command # Idle, command.todo = {}, NEW phase \in {"observe", "capture"},
         NEW goal \in Goals, NEW folders \in Seq({Pages, Questions, Extracts}),
         command.request \in Requests,
         \A i \in DOMAIN folders : folders[i] \subseteq ScopeDocs(command.request.scope),
         command' = [command EXCEPT !.phase = phase, !.goal = goal, !.folders = folders,
                                    !.seen = <<>>],
         goal \in {"capture", "captured", "packet"} =>
            command.request = [purpose |-> "search", scope |-> "wiki", excluded |-> {}]
  PROVE  /\ command' \in Commands /\ Within(command)' /\ command'.phase = phase
         /\ command'.goal = goal /\ command'.run = command.run /\ command'.op = command.op
         /\ command'.request = command.request
<1>1. command \in Commands
  BY CommandFacts
<1>2. phase \in Phases
  BY DEF Phases
<1>3. /\ command' \in Commands /\ command'.phase = phase
      /\ command'.goal = goal /\ command'.run = command.run /\ command'.op = command.op
      /\ command'.request = command.request /\ command'.todo = {}
      /\ command'.folders = folders /\ command'.seen = <<>>
  BY <1>1, <1>2, NothingSeen DEF Commands
<1>4. Within(command)'
  BY <1>3 DEF Within
<1> QED
  BY <1>3, <1>4

LEMMA LoadKeeps == Inv /\ Load => Inv'
<1> SUFFICES ASSUME Inv, Load
             PROVE  Inv'
  OBVIOUS
<1>1. /\ command # Idle /\ command.phase = "load" /\ command.todo = {} /\ Loading(command)
      /\ Phased(command) /\ Within(command) /\ Meta # NoMetadata /\ Meta.blocked = "none"
      /\ command.request \in Requests /\ command.request = RequestOf(Meta)
  BY CommandFacts DEF Load, InPhase, Phased, Within, Fresh, Building, GivingUp, Loading, Validating,
     Passed, Cleaning, Meta
<1> PICK folders : folders = Folders(Meta.scope)
  OBVIOUS
<1>2. folders \in Seq({Pages, Questions, Extracts})
      /\ \A i \in DOMAIN folders : folders[i] \subseteq ScopeDocs(command.request.scope)
  BY <1>1, FoldersTyped DEF RequestOf
<1>3. command' = [command EXCEPT !.phase = "observe", !.goal = command.goal, !.folders = folders,
                                 !.seen = <<>>]
      /\ UNCHANGED <<world, store, faults, history>>
  BY DEF Load, ToObserve
<1>4. /\ command' \in Commands /\ Within(command)' /\ command'.phase = "observe"
      /\ command'.goal = command.goal /\ command'.run = command.run /\ command'.op = command.op
      /\ command'.request = command.request
  <2>1. command.goal \in Goals
    BY <1>1, CommandFacts DEF Commands
  <2> QED
    BY <1>1, <1>2, <1>3, <2>1, LooksAgain DEF Within
<1>5. Phased(command)'
  BY <1>1, <1>3, <1>4 DEF Phased, Fresh, Building, GivingUp, Loading, Validating, Passed, Cleaning,
     Unfinished, Validations, Failures, store, Meta
<1> QED
  BY <1>3, <1>4, <1>5, StoreStays DEF store, Inv, Typed, TypeOK, world, history

LEMMA ValidatedKeeps == Inv /\ Validated => Inv'
<1> SUFFICES ASSUME Inv, Validated
             PROVE  Inv'
  OBVIOUS
<1>1. /\ command \in Commands /\ command.phase = "observe" /\ command.todo = {} /\ Validating(command)
      /\ Phased(command) /\ Within(command)
  BY CommandFacts DEF Validated, Observed, InPhase, Phased, Fresh, Building, GivingUp, Loading,
     Validating, Passed, Cleaning
<1>2. PICK phase \in {"page", "compare"} :
         /\ command' = [command EXCEPT !.phase = phase]
         /\ phase = "page" <=> command.goal = "page"
  BY DEF Validated, Goto
<1>3. UNCHANGED <<world, store, faults, lived>>
  BY DEF Validated, Goto
<1>4. /\ command' \in Commands /\ command'.phase = phase /\ command'.goal = command.goal
      /\ command'.run = command.run /\ command'.op = command.op /\ command'.todo = {}
      /\ command'.request = command.request
  BY <1>1, <1>2 DEF Commands, Phases
<1>5. Phased(command)' /\ Within(command)'
  BY <1>1, <1>2, <1>3, <1>4 DEF Phased, Within, Fresh, Building, GivingUp, Loading, Validating, Passed,
     Cleaning, Unfinished, Validations, Failures, store
<1> QED
  BY <1>3, <1>4, <1>5, StoreStays DEF store, Inv, Typed, TypeOK, world

LEMMA FoundStaleKeeps == Inv /\ FoundStale => Inv'
<1> SUFFICES ASSUME Inv, FoundStale
             PROVE  Inv'
  OBVIOUS
<1> PICK m, r : m = Meta /\ r = command.run
  OBVIOUS
<1>1. /\ command \in Commands /\ command # Idle /\ Validating(command) /\ Phased(command)
      /\ m # NoMetadata /\ m.blocked = "none" /\ command.request = RequestOf(m)
      /\ command.request \in Requests /\ r \in RunIds
      /\ command.op = "start" => Unfinished(r)
  BY CommandFacts DEF FoundStale, Observed, InPhase, Phased, Fresh, Building, GivingUp, Loading,
     Validating, Passed, Cleaning, Meta
<1>2. /\ m \in MetadataSet /\ Recorded(m) /\ Len(spool[r].index) >= m.pages
      /\ directory[r] # "none"
  BY <1>1, MetaOf
<1> PICK b : b = [m EXCEPT !.blocked = "stale"]
  OBVIOUS
<1>3. m.retain = Never
  BY <1>1, <1>2 DEF Recorded
<1>4. /\ b \in MetadataSet /\ Recorded(b) /\ b.highest = m.highest /\ b.pages = m.pages
      /\ b.blocked = "stale" /\ RequestOf(b) = RequestOf(m)
  BY <1>2, <1>3 DEF MetadataSet, Recorded, RequestOf, Codes
<1>5. SaveMetadata(b) /\ UNCHANGED <<world, directory, spare, spool, faults>>
  BY DEF FoundStale
<1>6. Len(spool[r].index) >= b.pages
  BY <1>2, <1>4, <1>5
<1>7. CASE command.op = "start"
  <2>1. metadata' = [metadata EXCEPT ![r] = b]
    BY <1>5 DEF SaveMetadata
  <2>2. metadata'[r] = b /\ b # NoMetadata
    BY <1>1, <1>4, <2>1, NoMetadataIsNone DEF Inv, Typed
  <2>3. command' = [command EXCEPT !.phase = "give_up", !.goal = "stale", !.todo = {}]
        /\ UNCHANGED lived
    BY <1>7 DEF FoundStale, Abandon
  <2>4. /\ command' \in Commands /\ command'.op = "start" /\ command'.run = r
        /\ command'.phase = "give_up" /\ command'.goal = "stale"
        /\ command'.request = command.request
    BY <1>1, <1>7, <2>3 DEF Commands, Phases, Goals, Failures
  <2>5. Unfinished(r)'
    BY <1>1, <1>4, <1>7, <2>2 DEF Unfinished, Meta
  <2>6. Phased(command)' /\ Within(command)'
    BY <1>1, <1>2, <1>4, <1>5, <2>2, <2>4, <2>5 DEF Phased, Within, Fresh, Building, GivingUp, Loading,
       Validating, Passed, Cleaning, Validations, Failures
  <2>7. lived' \subseteq [Docs -> Files]
    BY <2>3 DEF Inv, Typed
  <2> QED
    BY <1>1, <1>2, <1>4, <1>5, <1>6, <2>1, <2>4, <2>6, <2>7, RunSaved
<1>8. CASE command.op # "start"
  <2>1. End
    BY <1>8 DEF FoundStale
  <2> QED
    BY <1>1, <1>4, <1>5, <1>6, <2>1, EndsSaved
<1> QED
  BY <1>7, <1>8

LEMMA ProofAcceptedKeeps == Inv /\ ProofAccepted => Inv'
<1> SUFFICES ASSUME Inv, ProofAccepted
             PROVE  Inv'
  OBVIOUS
<1>1. /\ command \in Commands /\ command # Idle /\ command.phase = "compare" /\ Passed(command)
      /\ command.todo = {} /\ Phased(command) /\ Within(command)
      /\ command.goal \in {"accept", "capture", "packet"} /\ command.request \in Requests
      /\ metadata[command.run].blocked = "none"
  BY CommandFacts DEF ProofAccepted, InPhase, Phased, Within, Fresh, Building, GivingUp, Loading,
     Validating, Passed, Cleaning
<1>2. UNCHANGED <<world, store, faults, lived>>
  BY DEF ProofAccepted, Goto
<1>3. CASE command.goal = "capture"
  <2> PICK folders : folders = Folders("wiki")
    OBVIOUS
  <2>1. command' = [command EXCEPT !.phase = "capture", !.goal = "captured", !.folders = folders,
                                   !.seen = <<>>]
    BY <1>3 DEF ProofAccepted, ToObserve
  <2>2. command.request = [purpose |-> "search", scope |-> "wiki", excluded |-> {}]
    BY <1>1, <1>3 DEF Within
  <2>3. folders \in Seq({Pages, Questions, Extracts})
        /\ \A i \in DOMAIN folders : folders[i] \subseteq ScopeDocs(command.request.scope)
    BY <2>2, FoldersTyped
  <2>4. /\ command' \in Commands /\ Within(command)' /\ command'.phase = "capture"
        /\ command'.goal = "captured" /\ command'.run = command.run /\ command'.op = command.op
        /\ command'.request = command.request
    BY <1>1, <2>1, <2>2, <2>3, LooksAgain DEF Goals
  <2>5. Phased(command)'
    BY <1>1, <1>2, <2>4 DEF Phased, Fresh, Building, GivingUp, Loading, Validating, Passed, Cleaning,
       Unfinished, Validations, Failures, store
  <2> QED
    BY <1>2, <2>4, <2>5, StoreStays DEF store, Inv, Typed, TypeOK, world
<1>4. CASE command.goal # "capture"
  <2>1. command' = [command EXCEPT !.phase = "accepted"] /\ FullyServed(metadata[command.run])
    BY <1>4 DEF ProofAccepted, Goto, Proves, Meta
  <2>2. /\ command' \in Commands /\ command'.phase = "accepted" /\ command'.goal = command.goal
        /\ command'.run = command.run /\ command'.op = command.op
        /\ command'.request = command.request
    BY <1>1, <2>1 DEF Commands, Phases
  <2>3. Phased(command)' /\ Within(command)'
    BY <1>1, <1>2, <1>4, <2>1, <2>2 DEF Phased, Within, Fresh, Building, GivingUp, Loading, Validating,
       Passed, Cleaning, Unfinished, Validations, Failures, store, FullyServed
  <2> QED
    BY <1>2, <2>2, <2>3, StoreStays DEF store, Inv, Typed, TypeOK, world
<1> QED
  BY <1>3, <1>4

LEMMA CapturedKeeps == Inv /\ Captured => Inv'
<1> SUFFICES ASSUME Inv, Captured
             PROVE  Inv'
  OBVIOUS
<1>1. /\ command \in Commands /\ command # Idle /\ command.phase = "capture" /\ Passed(command)
      /\ command.todo = {} /\ Phased(command) /\ Within(command) /\ command.goal = "captured"
  BY CommandFacts DEF Captured, InPhase, Phased, Within, Fresh, Building, GivingUp, Loading,
     Validating, Passed, Cleaning, Validations, Failures
<1>2. UNCHANGED <<world, store, faults, history>>
      /\ command' = [command EXCEPT !.phase = "load", !.goal = "packet", !.waited = 0,
                                    !.captured = command.seen]
  BY DEF Captured
<1>3. /\ command' \in Commands /\ command'.phase = "load" /\ command'.goal = "packet"
      /\ command'.run = command.run /\ command'.op = command.op /\ command'.todo = {}
      /\ command'.request = command.request
  <2>1. "load" \in Phases /\ "packet" \in Goals /\ 0 \in 0 .. MaxFaults
    BY BoundsAreNaturals DEF Phases, Goals, Validations
  <2> QED
    BY <1>1, <1>2, <2>1 DEF Commands
<1>4. Phased(command)' /\ Within(command)'
  BY <1>1, <1>2, <1>3 DEF Phased, Within, Fresh, Building, GivingUp, Loading, Validating,
     Passed, Cleaning, Unfinished, Validations, Failures, store
<1> QED
  BY <1>2, <1>3, <1>4, StoreStays DEF store, Inv, Typed, TypeOK, world, history

-----------------------------------------------------------------------------
(* Cleaning up, crashes, editors and time.                                 *)

LEMMA CleanUnlinksKeeps == Inv /\ CleanUnlinks => Inv'
<1> SUFFICES ASSUME Inv, CleanUnlinks
             PROVE  Inv'
  OBVIOUS
<1>1. /\ command \in Commands /\ command # Idle /\ command.run \in RunIds /\ Cleaning(command)
      /\ Phased(command) /\ Within(command)
  BY CommandFacts DEF CleanUnlinks, InPhase, Phased, Fresh, Building, GivingUp, Loading,
     Validating, Passed, Cleaning
<1>2. PICK left \in {"gutted", "partial"} : directory' = [directory EXCEPT ![command.run] = left]
  BY DEF CleanUnlinks
<1>3. UNCHANGED <<world, spare, metadata, spool, faults, lived>>
      /\ command' = [command EXCEPT !.phase = "rmdir"]
  BY DEF CleanUnlinks, Goto
<1>4. /\ command' \in Commands /\ command'.phase = "rmdir" /\ command'.goal = command.goal
      /\ command'.run = command.run /\ command'.op = command.op
      /\ command'.request = command.request
  BY <1>1, <1>3 DEF Commands, Phases
<1>5. Phased(command)' /\ Within(command)'
  BY <1>1, <1>3, <1>4 DEF Phased, Within, Fresh, Building, GivingUp, Loading, Validating,
     Passed, Cleaning, Unfinished, Validations, Failures
<1>6. TypeOK' /\ Typed'
  BY <1>1, <1>2, <1>3, <1>4 DEF Inv, Typed, TypeOK, world
<1>7. \A r \in RunIds : Sound(r)'
  BY <1>1, <1>2, <1>3 DEF Inv, Typed, TypeOK, Sound
<1> QED
  BY <1>5, <1>6, <1>7 DEF Inv

LEMMA CleanRemovesKeeps == Inv /\ CleanRemoves => Inv'
<1> SUFFICES ASSUME Inv, CleanRemoves
             PROVE  Inv'
  OBVIOUS
<1> PICK r : r = command.run
  OBVIOUS
<1>1. command # Idle /\ r \in RunIds
  BY CommandFacts DEF CleanRemoves, InPhase
<1>2. /\ directory' = [directory EXCEPT ![r] = "removed"]
      /\ metadata' = [metadata EXCEPT ![r] = NoMetadata]
      /\ spool' = [spool EXCEPT ![r] = NoSpool]
      /\ UNCHANGED <<world, spare, faults>> /\ command' = Idle /\ lived' = {}
  BY DEF CleanRemoves, End
<1>3. NoSpool \in Spools
  BY DEF NoSpool, Spools
<1>4. TypeOK'
  <2>1. ASSUME NEW q \in RunIds, metadata'[q] # NoMetadata
        PROVE  q # r /\ metadata'[q] = metadata[q] /\ spool'[q] = spool[q] /\ metadata[q] # NoMetadata
    BY <1>1, <1>2, <2>1 DEF Inv, Typed
  <2> QED
    BY <1>1, <1>2, <2>1 DEF Inv, Typed, TypeOK, world
<1>5. Typed'
  BY <1>1, <1>2, <1>3, <1>4 DEF Inv, Typed
<1>6. ASSUME NEW q \in RunIds
      PROVE  Sound(q)'
  <2>1. CASE q = r
    BY <1>1, <1>2, <2>1 DEF Inv, Typed, TypeOK, Sound
  <2>2. CASE q # r
    BY <1>1, <1>2, <2>2 DEF Inv, Typed, TypeOK, Sound
  <2> QED
    BY <2>1, <2>2
<1> QED
  BY <1>2, <1>5, <1>6 DEF Inv

LEMMA StopKeeps == Inv /\ Stop => Inv'
<1> SUFFICES ASSUME Inv, Stop
             PROVE  Inv'
  OBVIOUS
<1>1. command.run \in RunIds
  BY CommandFacts DEF Stop
<1>2. spare' \subseteq RunIds /\ faults' \in 0 .. MaxFaults
  BY <1>1, BoundsAreNaturals DEF Stop, Inv, Typed, TypeOK
<1>3. End /\ UNCHANGED <<world, directory, metadata, spool>>
  BY DEF Stop
<1> QED
  BY <1>2, <1>3, Ends, StoreStays DEF Inv, Typed, TypeOK, world

LEMMA DamageKeeps == ASSUME Inv, NEW r \in RunIds, Damage(r) PROVE Inv'
<1>1. metadata[r] # NoMetadata /\ faults' \in 0 .. MaxFaults
  BY BoundsAreNaturals DEF Damage, Loads, Inv, Typed, TypeOK
<1>2. UNCHANGED <<world, directory, spare, metadata, command, history>>
      /\ spool' = [spool EXCEPT ![r].damaged = TRUE]
  BY DEF Damage
<1>3. PICK s \in Spools : s.index = spool[r].index /\ spool' = [spool EXCEPT ![r] = s]
  <2>1. spool[r] \in Spools
    BY DEF Inv, Typed
  <2>2. [spool[r] EXCEPT !.damaged = TRUE] \in Spools
    BY <2>1 DEF Spools
  <2> QED
    BY <1>2, <2>1, <2>2 DEF Spools
<1>4. Len(s.index) >= metadata[r].pages
  BY <1>1, <1>3 DEF Inv, Typed, TypeOK
<1>5. command' # Idle => command' \in Commands /\ (Phased(command) /\ Within(command))'
  BY <1>2 DEF Inv, Typed, Phased, Within, Unfinished, Fresh, Building, GivingUp, Loading, Validating,
     Passed, Cleaning
<1> QED
  BY <1>1, <1>2, <1>3, <1>4, <1>5, RunSpooled DEF Inv, Typed, history

LEMMA EditKeeps == ASSUME Inv, NEW d \in Records, Edit(d) PROVE Inv'
<1>1. files' \in [Docs -> Files] /\ edits' \in 0 .. MaxEdits
  <2>1. PICK file \in [content : Contents, stamp : {edits + 1}] \union {Absent} :
           files' = [files EXCEPT ![d] = file]
    BY DEF Edit
  <2>2. edits + 1 \in 0 .. MaxEdits
    BY BoundsAreNaturals DEF Edit, Inv, Typed, TypeOK
  <2>3. file \in Files
    BY <2>1, <2>2 DEF Files, Documents
  <2> QED
    BY <2>1, <2>2, <2>3 DEF Edit, Inv, Typed, TypeOK
<1>2. UNCHANGED <<active, store, command, faults>>
  BY DEF Edit
<1>3. lived' \subseteq [Docs -> Files]
  BY <1>1 DEF Edit, Lives, Inv, Typed
<1>4. command' # Idle => command' \in Commands /\ (Phased(command) /\ Within(command))'
  BY <1>2 DEF Inv, Typed, Phased, Within, Unfinished, Fresh, Building, GivingUp, Loading, Validating,
     Passed, Cleaning, store
<1>5. spare' \subseteq RunIds /\ faults' \in 0 .. MaxFaults
  BY <1>2 DEF store, Inv, Typed, TypeOK
<1> QED
  BY <1>1, <1>2, <1>3, <1>4, <1>5, StoreStays DEF store

LEMMA ActivateKeeps == ASSUME Inv, NEW d \in Extracts, Activate(d) PROVE Inv'
<1>1. edits + 1 \in 0 .. MaxEdits /\ edits + 2 \in 0 .. MaxEdits + 1 /\ edits' = edits + 1
  BY BoundsAreNaturals DEF Activate, Inv, Typed, TypeOK
<1>2. files' \in [Docs -> Files] /\ active' \in [Extracts -> 0 .. MaxEdits + 1]
  <2>1. PICK c \in Contents : files' = [files EXCEPT ![d] = [content |-> c, stamp |-> edits + 1]]
    BY DEF Activate
  <2>2. [content |-> c, stamp |-> edits + 1] \in Files
    BY <1>1 DEF Files, Documents
  <2> QED
    BY <1>1, <2>1, <2>2 DEF Activate, Inv, Typed, TypeOK
<1>3. UNCHANGED <<store, command, faults, history>> /\ command = Idle
  BY DEF Activate
<1>4. TypeOK' /\ Typed'
  BY <1>1, <1>2, <1>3 DEF Inv, Typed, TypeOK, store, history
<1>5. \A r \in RunIds : Sound(r)'
  BY <1>3 DEF Inv, Sound, store, history
<1> QED
  BY <1>3, <1>4, <1>5 DEF Inv

\* What time leaves of a run's metadata.
LEMMA Ticks ==
  ASSUME Inv, Tick, NEW r \in RunIds
  PROVE  /\ metadata[r] = NoMetadata => metadata'[r] = NoMetadata
         /\ metadata[r] # NoMetadata =>
               /\ metadata'[r] \in MetadataSet /\ metadata'[r] # NoMetadata
               /\ metadata'[r].retain = Down(metadata[r].retain)
               /\ \A f \in {"purpose", "scope", "excluded", "revision", "identity", "candidates",
                            "matches", "pages", "hashed", "highest", "blocked"} :
                     metadata'[r][f] = metadata[r][f]
<1>1. metadata'[r] = IF metadata[r] = NoMetadata THEN NoMetadata
                     ELSE [metadata[r] EXCEPT !.expires = Down(@), !.retain = Down(@)]
  BY DEF Tick
<1>2. CASE metadata[r] = NoMetadata
  BY <1>1, <1>2
<1>3. CASE metadata[r] # NoMetadata
  <2>1. metadata[r] \in MetadataSet
    BY <1>3 DEF Inv, Typed
  <2> PICK m, expires, retain : /\ m = metadata[r] /\ expires = Down(m.expires)
                                /\ retain = Down(m.retain)
    OBVIOUS
  <2>2. metadata'[r] = [m EXCEPT !.expires = expires, !.retain = retain]
    BY <1>1, <1>3
  <2>3. \A time \in Countdown \union {Never} : Down(time) \in Countdown \union {Never}
    BY BoundsAreNaturals DEF Countdown, Down
  <2>4. expires \in Countdown
    <3>1. m.expires \in Countdown
      BY <2>1 DEF MetadataSet
    <3> QED
      BY <3>1, BoundsAreNaturals DEF Countdown, Down
  <2>5. retain \in Countdown \union {Never}
    BY <2>1, <2>3 DEF MetadataSet
  <2>6. metadata'[r] \in MetadataSet
    BY <2>1, <2>2, <2>4, <2>5 DEF MetadataSet
  <2> QED
    BY <1>3, <2>1, <2>2, <2>6, NoMetadataIsNone DEF MetadataSet
<1> QED
  BY <1>2, <1>3

LEMMA TickKeeps == Inv /\ Tick => Inv'
<1> SUFFICES ASSUME Inv, Tick
             PROVE  Inv'
  OBVIOUS
<1>1. UNCHANGED <<world, directory, spare, spool, command, history>> /\ faults' \in 0 .. MaxFaults
  <2>1. faults \in 0 .. MaxFaults
    BY DEF Inv, Typed, TypeOK
  <2>2. UNCHANGED <<world, directory, spare, spool, command, history>>
        /\ (command # Idle => faults < MaxFaults)
        /\ faults' = IF command = Idle THEN faults ELSE faults + 1
    BY DEF Tick
  <2> QED
    BY <2>1, <2>2, BoundsAreNaturals
<1>2. ASSUME NEW r \in RunIds
      PROVE  /\ metadata'[r] = NoMetadata <=> metadata[r] = NoMetadata
             /\ metadata[r] # NoMetadata =>
                   /\ metadata'[r] \in MetadataSet
                   /\ metadata'[r].retain = Down(metadata[r].retain)
                   /\ metadata'[r].pages = metadata[r].pages
                   /\ metadata'[r].hashed = metadata[r].hashed
                   /\ metadata'[r].highest = metadata[r].highest
                   /\ metadata'[r].blocked = metadata[r].blocked
                   /\ RequestOf(metadata'[r]) = RequestOf(metadata[r])
  BY Ticks DEF RequestOf
<1>3. metadata' \in [RunIds -> MetadataSet \union {NoMetadata}]
  <2>1. metadata' = [r \in RunIds |-> metadata'[r]]
    BY DEF Tick
  <2>2. \A r \in RunIds : metadata'[r] \in MetadataSet \union {NoMetadata}
    BY <1>2
  <2> QED
    BY <2>1, <2>2
<1>4. TypeOK'
  <2>1. ASSUME NEW r \in RunIds, metadata'[r] # NoMetadata
        PROVE  /\ metadata'[r].blocked \in Codes
               /\ metadata'[r].expires \in Countdown
               /\ metadata'[r].retain \in Countdown \union {Never}
               /\ metadata'[r].highest \in -1 .. metadata'[r].pages
               /\ spool'[r].results \in Seq(Matches) /\ spool'[r].index \in Seq(Nat)
               /\ Len(spool'[r].index) >= metadata'[r].pages
    <3>1. metadata[r] # NoMetadata /\ metadata'[r] \in MetadataSet
          /\ metadata'[r].pages = metadata[r].pages /\ metadata'[r].highest = metadata[r].highest
      BY <1>2, <2>1
    <3>2. metadata'[r].blocked \in Codes /\ metadata'[r].expires \in Countdown
          /\ metadata'[r].retain \in Countdown \union {Never}
      BY <3>1 DEF MetadataSet
    <3> QED
      BY <1>1, <3>1, <3>2 DEF Inv, Typed, TypeOK
  <2> QED
    BY <1>1, <2>1 DEF Inv, Typed, TypeOK, world
<1>5. ASSUME NEW r \in RunIds
      PROVE  Sound(r)'
  BY <1>1, <1>2 DEF Inv, Sound, history, Down
<1>6. command # Idle => Phased(command)' /\ Within(command)'
  <2> SUFFICES ASSUME command # Idle
               PROVE  Phased(command)' /\ Within(command)'
    OBVIOUS
  <2>1. command.run \in RunIds /\ Phased(command) /\ Within(command)
    BY CommandFacts
  <2>2. Unfinished(command.run)' <=> Unfinished(command.run)
    BY <1>1, <1>2, <2>1 DEF Unfinished
  <2>3. Phased(command)'
    BY <1>1, <1>2, <2>1, <2>2 DEF Phased, Fresh, Building, GivingUp, Loading, Validating, Passed,
       Cleaning, FullyServed
  <2> QED
    BY <1>1, <2>1, <2>3 DEF Within
<1> QED
  BY <1>1, <1>3, <1>4, <1>5, <1>6 DEF Inv, Typed, history

-----------------------------------------------------------------------------
LEMMA NextKeeps == Inv /\ [Next]_vars => Inv'
<1> SUFFICES ASSUME Inv, [Next]_vars
             PROVE  Inv'
  OBVIOUS
<1>1. CASE BuildStep
  BY <1>1, ListFolderKeeps, ObserveOperandKeeps, EndsKeep, MakesDirectory, DescribeKeeps,
     FindCandidateKeeps, FilenamesDoneKeeps, ReadMatchesKeeps, IndexLastPageKeeps, AbandonKeeps,
     FinishKeeps, GiveUpKeeps DEF BuildStep
<1>2. CASE ServeStep
  BY <1>2, EndsBlocked, EndsKeep, LoadKeeps, ValidatedKeeps, FoundStaleKeeps, ServeKeeps
     DEF ServeStep
<1>3. CASE ProofStep
  BY <1>3, EndsKeep, ProofAcceptedKeeps, CapturedKeeps DEF ProofStep
<1>4. CASE CleanStep
  BY <1>4, EndsBlocked, EndsKeep, CleanUnlinksKeeps, CleanRemovesKeeps DEF CleanStep
<1>5. CASE Stop \/ Tick
  BY <1>5, StopKeeps, TickKeeps
<1>6. ASSUME NEW r \in RunIds, Verify(r) \/ BuildPacket(r)
      PROVE  Inv'
  <2>1. 0 \in Nat /\ 0 \in 0 .. MaxFaults
    BY BoundsAreNaturals
  <2> QED
    BY <1>6, <2>1, BeginOthersKeep
<1>7. ASSUME NEW r \in RunIds, NEW waited \in 0 .. MaxFaults,
             \/ StartCleanup(r, waited)
             \/ \E request \in Requests : Start(r, request, waited)
             \/ \E index \in 1 .. Len(spool[r].index) : Resume(r, index, waited)
      PROVE  Inv'
  <2>1. CASE StartCleanup(r, waited)
    <3>1. 0 \in Nat
      OBVIOUS
    <3> QED
      BY <2>1, <3>1, BeginOthersKeep
  <2>2. CASE \E request \in Requests : Start(r, request, waited)
    BY <2>2, StartKeeps
  <2>3. CASE \E index \in 1 .. Len(spool[r].index) : Resume(r, index, waited)
    <3>1. \A index \in 1 .. Len(spool[r].index) : index \in Nat
      OBVIOUS
    <3> QED
      BY <2>3, <3>1, BeginOthersKeep
  <2> QED
    BY <1>7, <2>1, <2>2, <2>3
<1>8. ASSUME NEW r \in RunIds, Damage(r)
      PROVE  Inv'
  BY <1>8, DamageKeeps
<1>9. CASE (\E d \in Records : Edit(d)) \/ (\E d \in Extracts : Activate(d))
  BY <1>9, EditKeeps, ActivateKeeps
<1>10. CASE UNCHANGED vars
  <2>1. UNCHANGED <<files, active, edits, directory, spare, metadata, spool, command, faults, lived>>
    BY <1>10 DEF vars, world, store, history
  <2>2. Typed'
    BY <2>1 DEF Inv, Typed, TypeOK
  <2>3. \A r \in RunIds : Sound(r)'
    BY <2>1 DEF Inv, Sound
  <2>4. command' # Idle => (Phased(command) /\ Within(command))'
    BY <2>1 DEF Inv, Phased, Within, Unfinished, Fresh, Building, GivingUp, Loading, Validating,
       Passed, Cleaning
  <2> QED
    BY <2>2, <2>3, <2>4 DEF Inv
<1> QED
  BY <1>1, <1>2, <1>3, <1>4, <1>5, <1>6, <1>7, <1>8, <1>9, <1>10 DEF Next, CommandStep

\* Inv is an invariant of the specification.
LEMMA Invariant == Spec => []Inv
<1>1. Init => Inv
  BY InitHolds
<1>2. Inv /\ [Next]_vars => Inv'
  BY NextKeeps
<1> QED
  BY <1>1, <1>2, PTL DEF Spec

\* Whatever documents, editors and bounds there are, the stored runs and the
\* command have their types: the pages that are counted were indexed, and the
\* cursor never passes them.
THEOREM TypeCorrect == Spec => []TypeOK
<1>1. Inv => TypeOK
  BY DEF Inv, Typed
<1> QED
  BY <1>1, Invariant, PTL

-----------------------------------------------------------------------------
(* What a step may do to the metadata of a run.                            *)

\* Metadata that describe the same search of the same documents.
Same(m, n) ==
    m.purpose = n.purpose /\ m.scope = n.scope /\ m.excluded = n.excluded /\ m.identity = n.identity

\* What no writer of metadata does otherwise.
Obeys(m, n) ==
    /\ Same(m, n)
    /\ m.hashed /\ m.blocked # "none" => n.blocked # "none"
    /\ m.retain # Never => n.retain \in {m.retain, Down(m.retain)}
    /\ FullyServed(m) /\ m.blocked = "none" => n.retain = m.retain

Unblocks(m, n) == m.blocked # "none" /\ n.blocked = "none"

\* A step that saves the metadata of the command's run.
LEMMA SavedObeys ==
  ASSUME Inv, command # Idle, NEW m, SaveMetadata(m), NEW r \in RunIds, NEW done \in BOOLEAN,
         metadata[r] # NoMetadata,
         Meta # NoMetadata => Obeys(Meta, m) /\ (Unblocks(Meta, m) => done)
  PROVE  /\ Obeys(metadata[r], metadata'[r])
         /\ Unblocks(metadata[r], metadata'[r]) => done /\ r = command.run
<1>1. metadata' = [metadata EXCEPT ![command.run] = m] /\ command.run \in RunIds
      /\ metadata \in [RunIds -> MetadataSet \union {NoMetadata}]
  BY CommandFacts DEF SaveMetadata, Inv, Typed
<1>2. CASE r = command.run
  <2>1. metadata'[r] = m
    BY <1>1, <1>2
  <2> QED
    BY <1>2, <2>1 DEF Meta
<1>3. CASE r # command.run
  <2>1. metadata'[r] = metadata[r]
    BY <1>1, <1>3
  <2> QED
    BY <2>1 DEF Obeys, Same, Unblocks
<1> QED
  BY <1>2, <1>3

\* Only the end of a successful build unblocks a run.
LEMMA MetadataObeys ==
  ASSUME Inv, [Next]_vars, NEW r \in RunIds, metadata[r] # NoMetadata, metadata'[r] # NoMetadata
  PROVE  /\ Obeys(metadata[r], metadata'[r])
         /\ Unblocks(metadata[r], metadata'[r]) => Finish /\ r = command.run
<1>1. CASE metadata' = metadata
  BY <1>1 DEF Obeys, Same, Unblocks
<1>2. CASE Describe
  <2>1. command # Idle /\ Meta = NoMetadata
    BY <1>2, CommandFacts DEF Describe, InPhase, Phased, Fresh, Building, GivingUp, Loading,
       Validating, Passed, Cleaning, Meta, Validations, Failures
  <2>2. PICK m : SaveMetadata(m)
    BY <1>2 DEF Describe
  <2>3. Obeys(metadata[r], metadata'[r])
        /\ (Unblocks(metadata[r], metadata'[r]) => FALSE /\ r = command.run)
    BY <2>1, <2>2, SavedObeys
  <2> QED
    BY <2>3
<1>3. CASE Finish
  <2>1. command # Idle /\ Meta # NoMetadata /\ ~Meta.hashed /\ Unfinished(command.run)
    BY <1>3, BuildingFacts DEF Finish
  <2>2. Recorded(Meta) /\ Meta.blocked \in {"incomplete", "none", "stale"}
    BY <2>1, MetaOf DEF Unfinished, Meta
  <2> PICK m : m = Finished("none")
    OBVIOUS
  <2>3. m.retain = Meta.retain /\ RequestOf(m) = RequestOf(Meta) /\ m.identity = Meta.identity
    BY <2>1, FinishedTyped
  <2>4. Obeys(Meta, m) /\ (Unblocks(Meta, m) => TRUE)
    BY <2>1, <2>3 DEF Obeys, Same, RequestOf
  <2>5. SaveMetadata(m)
    BY <1>3 DEF Finish
  <2>6. Obeys(metadata[r], metadata'[r])
        /\ (Unblocks(metadata[r], metadata'[r]) => TRUE /\ r = command.run)
    BY <2>1, <2>4, <2>5, SavedObeys
  <2> QED
    BY <1>3, <2>6
<1>4. CASE GiveUp
  <2>1. command # Idle /\ command.goal \in Failures /\ Unfinished(command.run) /\ Meta # NoMetadata
    BY <1>4, CommandFacts DEF GiveUp, InPhase, Phased, Fresh, Building, GivingUp, Loading,
       Validating, Passed, Cleaning, Unfinished, Meta
  <2> PICK m, code : code = command.goal /\ m = Finished(code)
    OBVIOUS
  <2>2. m.retain = Meta.retain /\ m.blocked = code /\ RequestOf(m) = RequestOf(Meta)
        /\ m.identity = Meta.identity
    BY <2>1, FinishedTyped
  <2>3. Obeys(Meta, m) /\ (Unblocks(Meta, m) => FALSE)
    BY <2>1, <2>2 DEF Obeys, Failures, Same, RequestOf, Unblocks
  <2>4. SaveMetadata(m)
    BY <1>4 DEF GiveUp
  <2>5. Obeys(metadata[r], metadata'[r])
        /\ (Unblocks(metadata[r], metadata'[r]) => FALSE /\ r = command.run)
    BY <2>1, <2>3, <2>4, SavedObeys
  <2> QED
    BY <2>5
<1>5. CASE LoadExpired \/ FoundStale \/ PageLost \/ CleanBlocks
  <2>1. command # Idle /\ Meta # NoMetadata
    BY <1>5, CommandFacts DEF LoadExpired, FoundStale, PageLost, CleanBlocks, Loads, InPhase, Observed,
       Phased, Fresh, Building, GivingUp, Loading, Validating, Passed, Cleaning, Meta
  <2> PICK m : m = Meta
    OBVIOUS
  <2>2. m \in MetadataSet /\ Recorded(m)
    BY <2>1, MetaOf
  <2>3. PICK n : /\ SaveMetadata(n) /\ n.blocked # "none" /\ Same(m, n)
                 /\ \/ n.retain = m.retain
                    \/ m.retain = Never /\ ~(FullyServed(m) /\ m.blocked = "none")
    <3>1. CASE LoadExpired
      <4> PICK retain : retain = Retained(m, command.waited)
        OBVIOUS
      <4> PICK n : n = [m EXCEPT !.retain = retain, !.blocked = "expired"]
        OBVIOUS
      <4>1. n.blocked # "none" /\ n.retain = retain /\ Same(m, n)
        BY <2>2 DEF MetadataSet, Same
      <4>2. retain = m.retain \/ (m.retain = Never /\ ~FullyServed(m))
        BY DEF Retained
      <4>3. SaveMetadata(n)
        BY <3>1 DEF LoadExpired
      <4> QED
        BY <4>1, <4>2, <4>3
    <3>2. CASE FoundStale \/ PageLost
      <4> PICK n : n = [m EXCEPT !.blocked = "stale"]
        OBVIOUS
      <4>1. n.blocked # "none" /\ n.retain = m.retain /\ Same(m, n)
        BY <2>2 DEF MetadataSet, Same
      <4>2. SaveMetadata(n)
        BY <3>2 DEF FoundStale, PageLost
      <4> QED
        BY <4>1, <4>2
    <3>3. CASE CleanBlocks
      <4> PICK retain : retain = TTL - command.waited
        OBVIOUS
      <4> PICK n : n = [m EXCEPT !.retain = retain, !.blocked = "expired"]
        OBVIOUS
      <4>1. n.blocked # "none" /\ n.retain = retain /\ Same(m, n)
        BY <2>2 DEF MetadataSet, Same
      <4>2. ~FullyServed(m) /\ m.blocked = "none" /\ m.retain = Never
        BY <2>2, <3>3 DEF CleanBlocks, Blocked, Recorded
      <4>3. SaveMetadata(n)
        BY <3>3 DEF CleanBlocks
      <4> QED
        BY <4>1, <4>2, <4>3
    <3> QED
      BY <1>5, <3>1, <3>2, <3>3
  <2>4. Obeys(m, n) /\ (Unblocks(m, n) => FALSE)
    BY <2>3 DEF Obeys, Unblocks
  <2>5. Obeys(metadata[r], metadata'[r])
        /\ (Unblocks(metadata[r], metadata'[r]) => FALSE /\ r = command.run)
    BY <2>1, <2>3, <2>4, SavedObeys
  <2> QED
    BY <2>5
<1>6. CASE Serve
  <2>1. command # Idle /\ Meta # NoMetadata
    BY <1>6, CommandFacts DEF Serve, InPhase, Phased, Fresh, Building, GivingUp, Loading, Validating,
       Passed, Cleaning, Meta
  <2> PICK m : m = Meta
    OBVIOUS
  <2>2. m \in MetadataSet
    BY <2>1, MetaOf
  <2> PICK highest : highest = IF command.index > m.highest THEN command.index ELSE m.highest
    OBVIOUS
  <2> PICK n : n = [m EXCEPT !.highest = highest]
    OBVIOUS
  <2>3. n.blocked = m.blocked /\ n.retain = m.retain /\ Same(m, n)
    BY <2>2 DEF MetadataSet, Same
  <2>4. Obeys(m, n) /\ (Unblocks(m, n) => FALSE)
    BY <2>3 DEF Obeys, Unblocks
  <2>5. SaveMetadata(n)
    BY <1>6 DEF Serve
  <2>6. Obeys(metadata[r], metadata'[r])
        /\ (Unblocks(metadata[r], metadata'[r]) => FALSE /\ r = command.run)
    BY <2>1, <2>4, <2>5, SavedObeys
  <2> QED
    BY <2>6
<1>7. CASE CleanRemoves
  <2>1. metadata' = [metadata EXCEPT ![command.run] = NoMetadata]
        /\ metadata \in [RunIds -> MetadataSet \union {NoMetadata}]
    BY <1>7 DEF CleanRemoves, Inv, Typed
  <2>2. metadata'[r] = metadata[r]
    BY <2>1
  <2> QED
    BY <2>2 DEF Obeys, Same, Unblocks
<1>8. CASE Tick
  <2>1. /\ metadata[r] \in MetadataSet /\ metadata'[r].retain = Down(metadata[r].retain)
        /\ metadata'[r].blocked = metadata[r].blocked /\ Recorded(metadata[r])
    BY <1>8, Ticks DEF Inv, Typed, TypeOK, Sound, Recorded
  <2>2. metadata[r].blocked = "none" => metadata[r].retain = Never
    BY <2>1 DEF Recorded
  <2>3. Same(metadata[r], metadata'[r])
    BY <1>8, Ticks DEF Same
  <2> QED
    BY <2>1, <2>2, <2>3 DEF Obeys, Down, Unblocks
<1> QED
  <2>1. CASE BuildStep
    BY <2>1, <1>1, <1>2, <1>3, <1>4 DEF BuildStep, ListFolder, ObserveOperand, BindFails,
       MakeDirectory, FillDirectory, FindCandidate, FilenamesDone, ReadMatches, IndexLastPage,
       SpoolLimit, RipgrepFails, store
  <2>2. CASE ServeStep
    BY <2>2, <1>1, <1>5, <1>6 DEF ServeStep, LoadBlocked, Load, Validated, OutOfOrder, Return, store
  <2>3. CASE ProofStep
    BY <2>3, <1>1 DEF ProofStep, ProofRefused, ProofAccepted, Captured, Use, store
  <2>4. CASE CleanStep
    BY <2>4, <1>1, <1>5, <1>7 DEF CleanStep, CleanKeeps, CleanUnlinks, Skip, store
  <2>5. CASE Stop \/ UNCHANGED vars
    BY <2>5, <1>1 DEF Stop, vars, store
  <2>6. ASSUME NEW q \in RunIds,
               \/ Verify(q) \/ BuildPacket(q) \/ Damage(q)
               \/ \E waited \in 0 .. MaxFaults :
                     \/ StartCleanup(q, waited)
                     \/ \E request \in Requests : Start(q, request, waited)
                     \/ \E index \in 1 .. Len(spool[q].index) : Resume(q, index, waited)
        PROVE  metadata' = metadata
    BY <2>6 DEF Verify, BuildPacket, Damage, StartCleanup, Start, Resume, store
  <2>7. CASE (\E d \in Records : Edit(d)) \/ (\E d \in Extracts : Activate(d))
    BY <2>7, <1>1 DEF Edit, Activate, store
  <2> QED
    BY <1>1, <1>8, <2>1, <2>2, <2>3, <2>4, <2>5, <2>6, <2>7 DEF Next, CommandStep

\* A run that was found stale or expired is blocked for as long as it can be
\* loaded, and so is one whose building failed or died, whatever becomes of the
\* wiki: only the command that is building a run unblocks it, once.
THEOREM BlockedStays == Spec => BlockedForGood
<1> DEFINE Stays(r) == /\ Loads(r) /\ Blocked(metadata[r]) /\ Loads(r)'
                       /\ metadata[r].hashed \/ ~BeingBuilt(r)
                       => Blocked(metadata[r])'
<1>1. Inv /\ [Next]_vars => [\A r \in RunIds : Stays(r)]_vars
  <2> SUFFICES ASSUME Inv, [Next]_vars, NEW r \in RunIds,
                      Loads(r), Blocked(metadata[r]), Loads(r)',
                      metadata[r].hashed \/ ~BeingBuilt(r)
               PROVE  Blocked(metadata[r])'
    OBVIOUS
  <2>1. metadata[r] # NoMetadata /\ metadata'[r] # NoMetadata /\ metadata[r].blocked # "none"
    BY DEF Loads, Blocked
  <2>2. /\ Obeys(metadata[r], metadata'[r])
        /\ Unblocks(metadata[r], metadata'[r]) => Finish /\ r = command.run
    BY <2>1, MetadataObeys
  <2>3. CASE metadata[r].hashed
    BY <2>1, <2>2, <2>3 DEF Obeys, Blocked
  <2>4. CASE ~BeingBuilt(r)
    <3>1. Finish => command # Idle /\ command.op = "start"
      BY BuildingFacts DEF Finish, InPhase
    <3> QED
      BY <2>1, <2>2, <2>4, <3>1 DEF Unblocks, Blocked, BeingBuilt
  <2> QED
    BY <2>3, <2>4
<1> QED
  BY <1>1, Invariant, PTL DEF BlockedForGood, Spec

\* The term that an expired run was given is never prolonged, by any number of
\* looks at it, and a run that was served to its end is given none.
THEOREM RemovalOnce == Spec => RemovalPutOffOnce
<1> DEFINE Once(r) == Loads(r) /\ Loads(r)' =>
          /\ metadata[r].retain # Never =>
                metadata'[r].retain \in {metadata[r].retain, Down(metadata[r].retain)}
          /\ FullyServed(metadata[r]) /\ ~Blocked(metadata[r]) => metadata'[r].retain = metadata[r].retain
<1>1. Inv /\ [Next]_vars => [\A r \in RunIds : Once(r)]_vars
  <2> SUFFICES ASSUME Inv, [Next]_vars, NEW r \in RunIds, Loads(r), Loads(r)'
               PROVE  Once(r)
    OBVIOUS
  <2>1. metadata[r] # NoMetadata /\ metadata'[r] # NoMetadata
    BY DEF Loads
  <2>2. Obeys(metadata[r], metadata'[r])
    BY <2>1, MetadataObeys
  <2> QED
    BY <2>2 DEF Obeys, Blocked
<1> QED
  BY <1>1, Invariant, PTL DEF RemovalPutOffOnce, Spec

-----------------------------------------------------------------------------
(* The pages that are counted as served.                                   *)

Settled(r, i) == \E got \in BOOLEAN : [run |-> r, index |-> i, got |-> got] \in answers

\* The running command has counted the page and is about to return it.
Due(r, i) ==
    command # Idle /\ command.phase = "return" /\ command.run = r /\ command.index = i

Accounted ==
    \A r \in RunIds : metadata[r] # NoMetadata =>
        \A i \in 0 .. metadata[r].highest : Settled(r, i) \/ Due(r, i)

\* Only Serve counts a page.
LEMMA HighestStays ==
  ASSUME Inv, [Next]_vars, ~Serve, NEW r \in RunIds, metadata'[r] # NoMetadata
  PROVE  \/ metadata'[r].highest = -1
         \/ metadata[r] # NoMetadata /\ metadata'[r].highest = metadata[r].highest
<1>1. CASE metadata' = metadata
  BY <1>1
<1>2. ASSUME NEW m, command # Idle, SaveMetadata(m),
             m.highest = -1 \/ (Meta # NoMetadata /\ m.highest = Meta.highest)
      PROVE  \/ metadata'[r].highest = -1
             \/ metadata[r] # NoMetadata /\ metadata'[r].highest = metadata[r].highest
  <2>1. metadata' = [metadata EXCEPT ![command.run] = m] /\ command.run \in RunIds
        /\ metadata \in [RunIds -> MetadataSet \union {NoMetadata}]
    BY <1>2, CommandFacts DEF SaveMetadata, Inv, Typed
  <2>2. CASE r = command.run
    BY <1>2, <2>1, <2>2 DEF Meta
  <2>3. CASE r # command.run
    <3>1. metadata'[r] = metadata[r]
      BY <2>1, <2>3
    <3> QED
      BY <3>1
  <2> QED
    BY <2>2, <2>3
<1>3. CASE Describe
  <2> PICK m : m = NewMetadata(command.request, Revision,
                               Identity(command.request.scope, command.seen), command.waited)
    OBVIOUS
  <2>1. command # Idle /\ SaveMetadata(m)
    BY <1>3 DEF Describe, InPhase
  <2>2. m.highest = -1
    BY DEF NewMetadata
  <2> QED
    BY <1>2, <2>1, <2>2
<1>4. CASE Finish \/ GiveUp
  <2>1. PICK code \in Failures \union {"none"} :
           command # Idle /\ Unfinished(command.run) /\ Meta # NoMetadata /\ SaveMetadata(Finished(code))
    <3>1. CASE Finish
      BY <3>1, BuildingFacts DEF Finish, InPhase
    <3>2. CASE GiveUp
      BY <3>2, CommandFacts DEF GiveUp, InPhase, Phased, Fresh, Building, GivingUp, Loading,
         Validating, Passed, Cleaning, Unfinished, Meta
    <3> QED
      BY <1>4, <3>1, <3>2
  <2> PICK m : m = Finished(code)
    OBVIOUS
  <2>2. m.highest = -1
    BY <2>1, FinishedTyped
  <2> QED
    BY <1>2, <2>1, <2>2
<1>5. CASE LoadExpired \/ FoundStale \/ PageLost \/ CleanBlocks
  <2>1. command # Idle /\ Meta # NoMetadata
    BY <1>5, CommandFacts DEF LoadExpired, FoundStale, PageLost, CleanBlocks, Loads, InPhase, Observed,
       Phased, Fresh, Building, GivingUp, Loading, Validating, Passed, Cleaning, Meta
  <2> PICK m : m = Meta
    OBVIOUS
  <2>2. m \in MetadataSet
    BY <2>1, MetaOf
  <2>3. PICK code, retain :
           \/ SaveMetadata([m EXCEPT !.retain = retain, !.blocked = code])
           \/ SaveMetadata([m EXCEPT !.blocked = code])
    BY <1>5 DEF LoadExpired, FoundStale, PageLost, CleanBlocks
  <2>4. PICK n : SaveMetadata(n) /\ n.highest = m.highest
    <3>1. [m EXCEPT !.retain = retain, !.blocked = code].highest = m.highest
          /\ [m EXCEPT !.blocked = code].highest = m.highest
      BY <2>2 DEF MetadataSet
    <3> QED
      BY <2>3, <3>1
  <2> QED
    BY <1>2, <2>1, <2>4
<1>6. CASE CleanRemoves
  <2>1. metadata' = [metadata EXCEPT ![command.run] = NoMetadata]
        /\ metadata \in [RunIds -> MetadataSet \union {NoMetadata}]
    BY <1>6 DEF CleanRemoves, Inv, Typed
  <2>2. metadata'[r] = metadata[r]
    BY <2>1
  <2> QED
    BY <2>2
<1>7. CASE Tick
  BY <1>7, Ticks
<1> QED
  <2>1. CASE BuildStep
    BY <2>1, <1>1, <1>3, <1>4 DEF BuildStep, ListFolder, ObserveOperand, BindFails,
       MakeDirectory, FillDirectory, FindCandidate, FilenamesDone, ReadMatches, IndexLastPage,
       SpoolLimit, RipgrepFails, store
  <2>2. CASE ServeStep
    BY <2>2, <1>1, <1>5 DEF ServeStep, LoadBlocked, Load, Validated, OutOfOrder, Return, store
  <2>3. CASE ProofStep
    BY <2>3, <1>1 DEF ProofStep, ProofRefused, ProofAccepted, Captured, Use, store
  <2>4. CASE CleanStep
    BY <2>4, <1>1, <1>5, <1>6 DEF CleanStep, CleanKeeps, CleanUnlinks, Skip, store
  <2>5. CASE Stop \/ UNCHANGED vars
    BY <2>5, <1>1 DEF Stop, vars, store
  <2>6. ASSUME NEW q \in RunIds,
               \/ Verify(q) \/ BuildPacket(q) \/ Damage(q)
               \/ \E waited \in 0 .. MaxFaults :
                     \/ StartCleanup(q, waited)
                     \/ \E request \in Requests : Start(q, request, waited)
                     \/ \E index \in 1 .. Len(spool[q].index) : Resume(q, index, waited)
        PROVE  metadata' = metadata
    BY <2>6 DEF Verify, BuildPacket, Damage, StartCleanup, Start, Resume, store
  <2>7. CASE (\E d \in Records : Edit(d)) \/ (\E d \in Extracts : Activate(d))
    BY <2>7, <1>1 DEF Edit, Activate, store
  <2> QED
    BY <1>1, <1>7, <2>1, <2>2, <2>3, <2>4, <2>5, <2>6, <2>7 DEF Next, CommandStep

\* Nothing is forgotten of the answers, and what is due is answered next.
LEMMA AnswersGrow ==
  ASSUME Inv, [Next]_vars
  PROVE  /\ answers \subseteq answers'
         /\ \A r, i : Due(r, i) => Settled(r, i)' \/ Due(r, i)'
<1>1. CASE Return \/ (Stop /\ InPhase("return"))
  <2>1. PICK got \in BOOLEAN :
           answers' = answers \union {[run |-> command.run, index |-> command.index, got |-> got]}
    BY <1>1 DEF Return, Stop, Answer
  <2> QED
    BY <2>1 DEF Due, Settled
<1>2. CASE answers' = answers /\ ~InPhase("return")
  BY <1>2 DEF Due, InPhase
<1>3. CASE answers' = answers /\ command' = command
  BY <1>3 DEF Due
<1> QED
  <2>1. CASE BuildStep
    BY <2>1, <1>2 DEF BuildStep, ListFolder, ObserveOperand, BindFails, MakeDirectory, FillDirectory,
       Describe, FindCandidate, FilenamesDone, ReadMatches, IndexLastPage, SpoolLimit, RipgrepFails,
       Finish, GiveUp, Looking, Observed, InPhase, history
  <2>2. CASE ServeStep
    BY <2>2, <1>1, <1>2 DEF ServeStep, LoadExpired, LoadBlocked, Load, Validated, FoundStale, PageLost,
       OutOfOrder, Serve, Observed, InPhase, history
  <2>3. CASE ProofStep
    BY <2>3, <1>2 DEF ProofStep, ProofRefused, ProofAccepted, Captured, Use, InPhase, history
  <2>4. CASE CleanStep
    BY <2>4, <1>2 DEF CleanStep, CleanBlocks, CleanKeeps, CleanUnlinks, CleanRemoves, Skip, InPhase
  <2>5. CASE Stop
    BY <2>5, <1>1, <1>2 DEF Stop
  <2>6. CASE Tick \/ UNCHANGED vars
    BY <2>6, <1>3 DEF Tick, vars, history
  <2>7. ASSUME NEW q \in RunIds,
               \/ Verify(q) \/ BuildPacket(q) \/ Damage(q)
               \/ \E waited \in 0 .. MaxFaults :
                     \/ StartCleanup(q, waited)
                     \/ \E request \in Requests : Start(q, request, waited)
                     \/ \E index \in 1 .. Len(spool[q].index) : Resume(q, index, waited)
        PROVE  answers' = answers /\ (command' = command \/ command = Idle)
    BY <2>7 DEF Verify, BuildPacket, Damage, StartCleanup, Start, Resume, history
  <2>8. CASE (\E d \in Records : Edit(d)) \/ (\E d \in Extracts : Activate(d))
    BY <2>8, <1>3 DEF Edit, Activate, history
  <2> QED
    BY <1>2, <1>3, <2>1, <2>2, <2>3, <2>4, <2>5, <2>6, <2>7, <2>8 DEF Next, CommandStep, InPhase

LEMMA AccountedKeeps == Inv /\ Accounted /\ [Next]_vars => Accounted'
<1> SUFFICES ASSUME Inv, Accounted, [Next]_vars, NEW r \in RunIds, metadata'[r] # NoMetadata,
                    NEW i \in 0 .. metadata'[r].highest
             PROVE  Settled(r, i)' \/ Due(r, i)'
  BY DEF Accounted
<1>1. Settled(r, i) \/ Due(r, i) => Settled(r, i)' \/ Due(r, i)'
  BY AnswersGrow DEF Settled
<1>2. ASSUME metadata[r] # NoMetadata, i \in 0 .. metadata[r].highest
      PROVE  Settled(r, i) \/ Due(r, i)
  BY <1>2 DEF Accounted
<1>3. CASE ~Serve
  <2>1. CASE metadata'[r].highest = -1
    BY <2>1
  <2> QED
    BY <1>1, <1>2, <1>3, <2>1, HighestStays
<1>4. CASE Serve
  <2> PICK m, index : m = Meta /\ index = command.index
    OBVIOUS
  <2>1. command # Idle /\ m # NoMetadata /\ command \in Commands
    BY <1>4, CommandFacts DEF Serve, InPhase, Phased, Fresh, Building, GivingUp, Loading, Validating,
       Passed, Cleaning, Meta
  <2>2. m \in MetadataSet /\ command.run \in RunIds /\ index \in Nat
    BY <2>1, MetaOf DEF Commands
  <2> PICK highest : highest = IF index > m.highest THEN index ELSE m.highest
    OBVIOUS
  <2>3. /\ metadata' = [metadata EXCEPT ![command.run] = [m EXCEPT !.highest = highest]]
        /\ command' = [command EXCEPT !.phase = "return"] /\ index <= m.highest + 1
        /\ metadata \in [RunIds -> MetadataSet \union {NoMetadata}]
    BY <1>4 DEF Serve, SaveMetadata, Goto, MayServe, Inv, Typed
  <2>4. CASE r # command.run
    <3>1. metadata'[r] = metadata[r]
      BY <2>3, <2>4
    <3> QED
      BY <1>1, <1>2, <3>1
  <2>5. CASE r = command.run
    <3>1. metadata'[r].highest = highest
      BY <2>2, <2>3, <2>5 DEF MetadataSet
    <3>2. i \in 0 .. m.highest \/ i = index
      BY <2>2, <2>3, <3>1 DEF MetadataSet
    <3>3. CASE i = index
      <4>1. command' # Idle
        BY <2>1, <2>3, IdleIsNone DEF Commands, Phases
      <4>2. command'.phase = "return" /\ command'.run = r /\ command'.index = i
        BY <2>1, <2>3, <2>5, <3>3 DEF Commands
      <4> QED
        BY <4>1, <4>2 DEF Due
    <3> QED
      BY <1>1, <1>2, <2>1, <2>5, <3>2, <3>3 DEF Meta
  <2> QED
    BY <2>4, <2>5
<1> QED
  BY <1>3, <1>4

\* A proof is accepted only of a run whose every page was returned, or had its
\* command stop between counting and returning it, however many runs, commands,
\* crashes and edits there are.
THEOREM AcceptedServed == Spec => []AcceptedWasServed
<1>1. Init => Accounted
  BY DEF Init, Accounted
<1>2. Inv /\ Accounted /\ [Next]_vars => Accounted'
  BY AccountedKeeps
<1>3. Inv /\ Accounted => AcceptedWasServed
  <2> SUFFICES ASSUME Inv, Accounted, InPhase("accepted"), NEW i \in 0 .. Meta.pages - 1
               PROVE  Settled(command.run, i)
    BY DEF AcceptedWasServed, Settled
  <2>1. /\ command # Idle /\ Meta # NoMetadata /\ FullyServed(Meta) /\ command.run \in RunIds
    BY CommandFacts DEF InPhase, Phased, Fresh, Building, GivingUp, Loading, Validating, Passed,
       Cleaning, Meta
  <2>2. Settled(command.run, i) \/ Due(command.run, i)
    BY <2>1 DEF Accounted, FullyServed, Meta
  <2> QED
    BY <2>2 DEF Due, InPhase
<1> QED
  BY <1>1, <1>2, <1>3, Invariant, PTL DEF Spec

-----------------------------------------------------------------------------
(* What a run says of the documents, and of which moment.                  *)

\* What results report of a document.
ReportedIn(results, d) == SelectIn(results, [doc : {d}, line : Nat, content : Contents])

\* What a run has to report of a document it recorded.
Expected(m, d) == IF d \in m.excluded THEN <<>> ELSE Matched(m.purpose, d, m.identity[d])

\* Results are right about each record that still is as the run recorded it,
\* and say nothing of the others and of those it has still to read.
Truthful(m, results, now, todo) ==
    \A d \in Records :
        IF d \in DOMAIN m.identity \ todo
        THEN now[d] = m.identity[d] => ReportedIn(results, d) = Expected(m, d)
        ELSE ReportedIn(results, d) = <<>>

\* A wiki run records documents.
RecordsWiki(m) ==
    DOMAIN m.identity \subseteq Records /\ \A d \in DOMAIN m.identity : m.identity[d] \in Documents

WikiRun(r) == metadata[r] # NoMetadata /\ metadata[r].scope = "wiki"

\* Whatever is remembered of a document is not younger than the last edit.
Stamped ==
    /\ \A d \in Docs : files[d] # Absent => files[d].stamp <= edits
    /\ \A r \in RunIds : WikiRun(r) =>
          /\ RecordsWiki(metadata[r])
          /\ \A d \in DOMAIN metadata[r].identity : metadata[r].identity[d].stamp <= edits
    /\ command # Idle =>
          /\ \A d \in DOMAIN command.seen : command.seen[d].stamp <= edits
          /\ \A d \in DOMAIN command.captured : command.captured[d].stamp <= edits

\* A run that was built tells the truth.
Built ==
    \A r \in RunIds :
        WikiRun(r) /\ metadata[r].blocked = "none" =>
            Truthful(metadata[r], spool[r].results, files, {})

\* One that is being built does so far.
Progress(c, m, s, now) ==
    /\ c.phase \in {"filenames", "context"} => c.todo \subseteq DOMAIN m.identity \ m.excluded
    /\ c.phase = "filenames" =>
          /\ s.results = <<>> /\ m.purpose = "search"
          /\ s.candidates \subseteq DOMAIN m.identity \ m.excluded
          /\ \A d \in (DOMAIN m.identity \ m.excluded) \ c.todo :
                now[d] = m.identity[d] => d \in s.candidates \/ Hits(d, m.identity[d]) = <<>>
    /\ c.phase = "context" => Truthful(m, s.results, now, c.todo)
    /\ c.phase = "finish" => Truthful(m, s.results, now, {})

\* A validation has found a record to be as the run recorded it, has found all
\* of them to be, or one of these.
Checked(c, m, d) ==
    /\ c.goal \in Validations /\ c.phase = "observe"
    /\ d \in DOMAIN c.seen \intersect DOMAIN m.identity /\ c.seen[d] = m.identity[d]

Vouched(c) == Passed(c) \/ c.goal = "packet"

Sure(c, m, d) == Vouched(c) \/ Checked(c, m, d)

\* What was captured for a packet is as the run recorded it, or will be found not
\* to be.
Captures(c, m, now) ==
    /\ c.goal = "captured" =>
          \A d \in DOMAIN c.seen \intersect DOMAIN m.identity :
              c.seen[d] # m.identity[d] => now[d] # m.identity[d]
    /\ c.goal = "packet" =>
          \A d \in DOMAIN c.captured \intersect DOMAIN m.identity :
              c.captured[d] # m.identity[d] =>
                  now[d] # m.identity[d] /\ ~Checked(c, m, d) /\ c.phase \notin {"compare", "accepted"}
    /\ c.goal = "packet" /\ c.phase = "accepted" => DOMAIN c.captured = DOMAIN m.identity

\* At one moment since the command began, the records that were compared, and
\* those that nobody has changed, were as the run recorded them.
Covered(c, m, results, now, past) ==
    /\ \E at \in past : \A d \in DOMAIN m.identity :
          Sure(c, m, d) \/ now[d] = m.identity[d] => at[d] = m.identity[d]
    /\ \A d \in DOMAIN m.identity : Sure(c, m, d) => ReportedIn(results, d) = Expected(m, d)
    /\ Vouched(c) => \A d \in Records \ DOMAIN m.identity :
          (\E at \in past : at[d] = Absent) /\ ReportedIn(results, d) = <<>>
    /\ Captures(c, m, now)

\* A record that a validation does not see was absent since the command began.
Unlisted(c, past) ==
    c.goal \in Validations /\ c.phase = "observe" /\ c.request.scope = "wiki" =>
        \A d \in Records :
            \/ d \in DOMAIN c.seen \union c.todo
            \/ \E i \in DOMAIN c.folders : d \in c.folders[i]
            \/ \E at \in past : at[d] = Absent

\* What a command knows.
Knows(c) ==
    /\ files \in lived
    /\ Unlisted(c, lived)
    /\ WikiRun(c.run) =>
          /\ Progress(c, metadata[c.run], spool[c.run], files)
          /\ Covered(c, metadata[c.run], spool[c.run].results, files, lived)

Moments == Stamped /\ Built /\ (command # Idle => Knows(command))

-----------------------------------------------------------------------------
(* Steps that leave what is known alone.                                   *)

\* Metadata that ask the same make the same facts true.
LEMMA SameExpected ==
  ASSUME NEW m, NEW n, Same(m, n), NEW d
  PROVE  Expected(m, d) = Expected(n, d)
BY DEF Same, Expected

\* What is true of some documents is true of later ones, when none has become what it was not.
LEMMA StaysTruthful ==
  ASSUME NEW m, NEW n, Same(m, n), NEW results, NEW now, NEW next, NEW todo,
         \A d \in DOMAIN m.identity : next[d] = m.identity[d] => now[d] = m.identity[d],
         Truthful(m, results, now, todo)
  PROVE  Truthful(n, results, next, todo)
<1>1. m.identity = n.identity
  BY DEF Same
<1> SUFFICES ASSUME NEW d \in Records
             PROVE  IF d \in DOMAIN n.identity \ todo
                    THEN next[d] = n.identity[d] => ReportedIn(results, d) = Expected(n, d)
                    ELSE ReportedIn(results, d) = <<>>
  BY DEF Truthful
<1> QED
  BY <1>1, SameExpected DEF Truthful

LEMMA StaysCovered ==
  ASSUME NEW c, NEW m, NEW n, Same(m, n), NEW results, NEW now, NEW next, NEW past, NEW later,
         past \subseteq later,
         \A d \in DOMAIN m.identity : next[d] = m.identity[d] => now[d] = m.identity[d],
         Covered(c, m, results, now, past)
  PROVE  Covered(c, n, results, next, later)
<1>1. m.identity = n.identity /\ \A d : Expected(m, d) = Expected(n, d)
  BY SameExpected DEF Same
<1>2. \A d : Checked(c, m, d) <=> Checked(c, n, d)
  BY <1>1 DEF Checked
<1>3. \A d : Sure(c, m, d) <=> Sure(c, n, d)
  BY <1>2 DEF Sure
<1>4. \E at \in later : \A d \in DOMAIN n.identity :
         Sure(c, n, d) \/ next[d] = n.identity[d] => at[d] = n.identity[d]
  <2>1. PICK at \in past : \A d \in DOMAIN m.identity :
          Sure(c, m, d) \/ now[d] = m.identity[d] => at[d] = m.identity[d]
    BY DEF Covered
  <2> WITNESS at \in later
  <2> QED
    BY <1>1, <1>3, <2>1
<1>5. \A d \in DOMAIN n.identity : Sure(c, n, d) => ReportedIn(results, d) = Expected(n, d)
  BY <1>1, <1>3 DEF Covered
<1>6. Vouched(c) => \A d \in Records \ DOMAIN n.identity :
          (\E at \in later : at[d] = Absent) /\ ReportedIn(results, d) = <<>>
  BY <1>1 DEF Covered
<1>7. Captures(c, m, now)
  BY DEF Covered
<1>8. Captures(c, n, next)
  BY <1>1, <1>2, <1>7 DEF Captures
<1> QED
  BY <1>4, <1>5, <1>6, <1>8 DEF Covered

\* A command that has compared nothing yet knows only what is there.
Quiet(c) ==
    /\ c.goal \notin {"captured", "packet"} /\ ~Passed(c)
    /\ c.phase = "observe" /\ c.goal \in Validations => c.seen = <<>>

LEMMA QuietCovers ==
  ASSUME NEW c, Quiet(c), NEW m, NEW results, NEW now, NEW past, now \in past
  PROVE  Covered(c, m, results, now, past)
<1>1. ~Vouched(c)
  BY DEF Quiet, Vouched
<1>2. \A d : ~Checked(c, m, d)
  <2>1. DOMAIN << >> = {}
    OBVIOUS
  <2> QED
    BY <2>1 DEF Quiet, Checked
<1>3. \A d : ~Sure(c, m, d)
  BY <1>1, <1>2 DEF Sure
<1>4. Captures(c, m, now)
  BY DEF Captures, Quiet
<1> QED
  BY <1>1, <1>3, <1>4 DEF Covered

\* A command that goes on, without having compared another record.
LEMMA MovesCovered ==
  ASSUME NEW c, NEW b, NEW m, NEW results, NEW now, NEW past,
         Covered(c, m, results, now, past),
         Vouched(b) => Vouched(c), \A d : Checked(b, m, d) => Sure(c, m, d), Captures(b, m, now)
  PROVE  Covered(b, m, results, now, past)
<1>1. \A d : Sure(b, m, d) => Sure(c, m, d)
  BY DEF Sure
<1>2. \E at \in past : \A d \in DOMAIN m.identity :
         Sure(b, m, d) \/ now[d] = m.identity[d] => at[d] = m.identity[d]
  <2>1. PICK at \in past : \A d \in DOMAIN m.identity :
          Sure(c, m, d) \/ now[d] = m.identity[d] => at[d] = m.identity[d]
    BY DEF Covered
  <2> WITNESS at \in past
  <2> QED
    BY <1>1, <2>1
<1>3. \A d \in DOMAIN m.identity : Sure(b, m, d) => ReportedIn(results, d) = Expected(m, d)
  BY <1>1 DEF Covered
<1> QED
  BY <1>2, <1>3 DEF Covered

\* A validation compares another record.
LEMMA ChecksOne ==
  ASSUME NEW c, NEW b, NEW m, NEW results, NEW now, NEW past, NEW e,
         Covered(c, m, results, now, past),
         Vouched(b) => Vouched(c), \A d : Checked(b, m, d) => Sure(c, m, d) \/ d = e,
         now[e] = b.seen[e], Captures(b, m, now), Truthful(m, results, now, {}),
         DOMAIN m.identity \subseteq Records
  PROVE  Covered(b, m, results, now, past)
<1>1. \A d \in DOMAIN m.identity : Sure(b, m, d) => Sure(c, m, d) \/ now[d] = m.identity[d]
  BY DEF Sure, Checked
<1>2. \E at \in past : \A d \in DOMAIN m.identity :
         Sure(b, m, d) \/ now[d] = m.identity[d] => at[d] = m.identity[d]
  <2>1. PICK at \in past : \A d \in DOMAIN m.identity :
          Sure(c, m, d) \/ now[d] = m.identity[d] => at[d] = m.identity[d]
    BY DEF Covered
  <2> WITNESS at \in past
  <2> QED
    BY <1>1, <2>1
<1>3. \A d \in DOMAIN m.identity : Sure(b, m, d) => ReportedIn(results, d) = Expected(m, d)
  BY <1>1 DEF Covered, Truthful
<1> QED
  BY <1>2, <1>3 DEF Covered

\* A validation that has compared all records.
LEMMA ChecksAll ==
  ASSUME NEW c, NEW b, NEW m, NEW results, NEW now, NEW past,
         Covered(c, m, results, now, past),
         c.goal \in Validations, c.phase = "observe", c.seen = m.identity,
         c.todo = {}, c.folders = <<>>, c.request.scope = "wiki", Unlisted(c, past),
         Truthful(m, results, now, {}), Captures(b, m, now)
  PROVE  Covered(b, m, results, now, past)
<1>1. \A d \in DOMAIN m.identity : Sure(c, m, d)
  BY DEF Sure, Checked
<1>2. \E at \in past : \A d \in DOMAIN m.identity : at[d] = m.identity[d]
  BY <1>1 DEF Covered
<1>3. \A d \in DOMAIN m.identity : ReportedIn(results, d) = Expected(m, d)
  BY <1>1 DEF Covered
<1>4. ASSUME NEW d \in Records \ DOMAIN m.identity
      PROVE  (\E at \in past : at[d] = Absent) /\ ReportedIn(results, d) = <<>>
  <2>1. DOMAIN << >> = {}
    OBVIOUS
  <2>2. \E at \in past : at[d] = Absent
    BY <1>4, <2>1 DEF Unlisted
  <2> QED
    BY <1>4, <2>2 DEF Truthful
<1> QED
  BY <1>2, <1>3, <1>4 DEF Covered

-----------------------------------------------------------------------------
(* Documents and their stamps.                                             *)

\* What of the world a step may change.
LEMMA WorldSteps ==
  ASSUME [Next]_vars
  PROVE  \/ UNCHANGED world
         \/ \E d \in Records : Edit(d)
         \/ \E d \in Extracts : Activate(d)
<1>1. CASE BuildStep
  BY <1>1 DEF BuildStep, ListFolder, ObserveOperand, BindFails, MakeDirectory, FillDirectory, Describe,
     FindCandidate, FilenamesDone, ReadMatches, IndexLastPage, SpoolLimit, RipgrepFails, Finish, GiveUp
<1>2. CASE ServeStep
  BY <1>2 DEF ServeStep, LoadExpired, LoadBlocked, Load, Validated, FoundStale, PageLost, OutOfOrder,
     Serve, Return
<1>3. CASE ProofStep \/ CleanStep
  BY <1>3 DEF ProofStep, ProofRefused, ProofAccepted, Captured, Use, CleanStep, CleanBlocks, CleanKeeps,
     CleanUnlinks, CleanRemoves, Skip
<1>4. CASE Stop \/ Tick \/ UNCHANGED vars
  BY <1>4 DEF Stop, Tick, vars
<1>5. ASSUME NEW r \in RunIds,
             \/ Verify(r) \/ BuildPacket(r) \/ Damage(r)
             \/ \E waited \in 0 .. MaxFaults :
                   \/ StartCleanup(r, waited)
                   \/ \E request \in Requests : Start(r, request, waited)
                   \/ \E index \in 1 .. Len(spool[r].index) : Resume(r, index, waited)
      PROVE  UNCHANGED world
  BY <1>5 DEF Verify, BuildPacket, Damage, StartCleanup, Start, Resume
<1> QED
  BY <1>1, <1>2, <1>3, <1>4, <1>5 DEF Next, CommandStep

\* No document becomes again what it was: a write gives it a stamp of its own.
LEMMA NoReturn ==
  ASSUME Inv, [Next]_vars, NEW d \in Docs, NEW f \in Documents, f.stamp <= edits, files'[d] = f
  PROVE  files[d] = f
<1>1. f.stamp \in Nat /\ edits \in Nat /\ f # Absent /\ files \in [Docs -> Files]
  BY AbsentIsNone DEF Inv, Typed, TypeOK, Documents
<1>2. ASSUME NEW e \in Docs, NEW file, files' = [files EXCEPT ![e] = file],
             file = Absent \/ file.stamp = edits + 1
      PROVE  files[d] = f
  BY <1>1, <1>2
<1>3. CASE UNCHANGED world
  BY <1>3 DEF world
<1>4. ASSUME NEW e \in Records, Edit(e)
      PROVE  files[d] = f
  <2>1. PICK file \in [content : Contents, stamp : {edits + 1}] \union {Absent} :
           files' = [files EXCEPT ![e] = file]
    BY <1>4 DEF Edit
  <2> QED
    BY <1>2, <2>1 DEF Docs
<1>5. ASSUME NEW e \in Extracts, Activate(e)
      PROVE  files[d] = f
  <2>1. PICK c : files' = [files EXCEPT ![e] = [content |-> c, stamp |-> edits + 1]]
    BY <1>5 DEF Activate
  <2> PICK file : file = [content |-> c, stamp |-> edits + 1]
    OBVIOUS
  <2>2. file.stamp = edits + 1
    OBVIOUS
  <2> QED
    BY <1>2, <2>1, <2>2 DEF Docs
<1> QED
  BY <1>3, <1>4, <1>5, WorldSteps

\* Stamps stay in the past.
LEMMA FilesStamped ==
  ASSUME Inv, Stamped, [Next]_vars
  PROVE  edits <= edits' /\ \A d \in Docs : files'[d] # Absent => files'[d].stamp <= edits'
<1>1. edits \in Nat /\ files \in [Docs -> Files]
  BY DEF Inv, Typed, TypeOK
<1>a. \A d \in Docs : files[d] # Absent => files[d].stamp \in Nat
  BY <1>1 DEF Files, Documents
<1>2. ASSUME NEW e \in Docs, NEW file, files' = [files EXCEPT ![e] = file],
             file = Absent \/ file.stamp = edits + 1, edits' = edits + 1
      PROVE  edits <= edits' /\ \A d \in Docs : files'[d] # Absent => files'[d].stamp <= edits'
  <2> SUFFICES ASSUME NEW d \in Docs, files'[d] # Absent
               PROVE  files'[d].stamp <= edits'
    BY <1>1, <1>2
  <2>1. CASE d = e
    BY <1>1, <1>2, <2>1
  <2>2. CASE d # e
    BY <1>1, <1>a, <1>2, <2>2 DEF Stamped
  <2> QED
    BY <2>1, <2>2
<1>3. CASE UNCHANGED world
  BY <1>1, <1>3 DEF world, Stamped
<1>4. ASSUME NEW e \in Records, Edit(e)
      PROVE  edits <= edits' /\ \A d \in Docs : files'[d] # Absent => files'[d].stamp <= edits'
  <2>1. PICK file \in [content : Contents, stamp : {edits + 1}] \union {Absent} :
           files' = [files EXCEPT ![e] = file]
    BY <1>4 DEF Edit
  <2>2. e \in Docs /\ edits' = edits + 1 /\ (file = Absent \/ file.stamp = edits + 1)
    BY <1>4 DEF Edit, Docs
  <2> QED
    BY <1>2, <2>1, <2>2
<1>5. ASSUME NEW e \in Extracts, Activate(e)
      PROVE  edits <= edits' /\ \A d \in Docs : files'[d] # Absent => files'[d].stamp <= edits'
  <2>1. PICK c : files' = [files EXCEPT ![e] = [content |-> c, stamp |-> edits + 1]]
    BY <1>5 DEF Activate
  <2> PICK file : file = [content |-> c, stamp |-> edits + 1]
    OBVIOUS
  <2>2. e \in Docs /\ edits' = edits + 1 /\ file.stamp = edits + 1
    BY <1>5 DEF Activate, Docs
  <2> QED
    BY <1>2, <2>1, <2>2
<1> QED
  BY <1>3, <1>4, <1>5, WorldSteps

-----------------------------------------------------------------------------
(* Runs.                                                                   *)

\* A run that has metadata after a step had the same question before it, or was just
\* described.
LEMMA RunSteps ==
  ASSUME Inv, [Next]_vars, NEW r \in RunIds, metadata'[r] # NoMetadata
  PROVE  \/ Describe /\ r = command.run
         \/ /\ metadata[r] # NoMetadata /\ Same(metadata[r], metadata'[r])
            /\ Unblocks(metadata[r], metadata'[r]) => Finish /\ r = command.run
<1>1. CASE metadata[r] # NoMetadata
  BY <1>1, MetadataObeys DEF Obeys
<1>2. CASE metadata[r] = NoMetadata /\ ~(Describe /\ r = command.run)
  <2>0. metadata \in [RunIds -> MetadataSet \union {NoMetadata}]
    BY DEF Inv, Typed
  <2>1. ASSUME NEW m, command # Idle, SaveMetadata(m), Meta # NoMetadata \/ r # command.run
        PROVE  FALSE
    BY <1>2, <2>0, <2>1, CommandFacts DEF SaveMetadata, Meta
  <2>2. metadata' # metadata
    BY <1>2
  <2>3. ~Describe
    <3> SUFFICES ASSUME Describe
                 PROVE  FALSE
      OBVIOUS
    <3>1. command # Idle /\ r # command.run /\ \E m : SaveMetadata(m)
      BY <1>2 DEF Describe, InPhase
    <3> QED
      BY <2>1, <3>1
  <2>4. ~Finish
    <3> SUFFICES ASSUME Finish
                 PROVE  FALSE
      OBVIOUS
    <3>1. command # Idle /\ Meta # NoMetadata /\ \E m : SaveMetadata(m)
      BY BuildingFacts DEF Finish
    <3> QED
      BY <2>1, <3>1
  <2>5. ~(GiveUp \/ LoadExpired \/ FoundStale \/ PageLost \/ Serve \/ CleanBlocks)
    <3> SUFFICES ASSUME GiveUp \/ LoadExpired \/ FoundStale \/ PageLost \/ Serve \/ CleanBlocks
                 PROVE  FALSE
      OBVIOUS
    <3>1. command # Idle /\ Meta # NoMetadata
      BY CommandFacts DEF GiveUp, LoadExpired, FoundStale, PageLost, Serve, CleanBlocks, Loads, InPhase,
         Observed, Phased, Fresh, Building, GivingUp, Loading, Validating, Passed, Cleaning, Meta
    <3>2. \E m : SaveMetadata(m)
      BY DEF GiveUp, LoadExpired, FoundStale, PageLost, Serve, CleanBlocks
    <3> QED
      BY <2>1, <3>1, <3>2
  <2>6. ~CleanRemoves
    <3> SUFFICES ASSUME CleanRemoves
                 PROVE  FALSE
      OBVIOUS
    <3>1. metadata' = [metadata EXCEPT ![command.run] = NoMetadata]
      BY DEF CleanRemoves
    <3> QED
      BY <1>2, <2>0, <3>1
  <2>7. ~Tick
    BY <1>2, Ticks
  <2>8. CASE BuildStep
    BY <2>8, <2>2, <2>3, <2>4, <2>5 DEF BuildStep, ListFolder, ObserveOperand, BindFails,
       MakeDirectory, FillDirectory, FindCandidate, FilenamesDone, ReadMatches, IndexLastPage,
       SpoolLimit, RipgrepFails, store
  <2>9. CASE ServeStep
    BY <2>9, <2>2, <2>5 DEF ServeStep, LoadBlocked, Load, Validated, OutOfOrder, Return, store
  <2>10. CASE ProofStep
    BY <2>10, <2>2 DEF ProofStep, ProofRefused, ProofAccepted, Captured, Use, store
  <2>11. CASE CleanStep
    BY <2>11, <2>2, <2>5, <2>6 DEF CleanStep, CleanKeeps, CleanUnlinks, Skip, store
  <2>12. CASE Stop \/ UNCHANGED vars
    BY <2>12, <2>2 DEF Stop, vars, store
  <2>13. ASSUME NEW q \in RunIds,
               \/ Verify(q) \/ BuildPacket(q) \/ Damage(q)
               \/ \E waited \in 0 .. MaxFaults :
                     \/ StartCleanup(q, waited)
                     \/ \E request \in Requests : Start(q, request, waited)
                     \/ \E index \in 1 .. Len(spool[q].index) : Resume(q, index, waited)
        PROVE  metadata' = metadata
    BY <2>13 DEF Verify, BuildPacket, Damage, StartCleanup, Start, Resume, store
  <2>14. CASE (\E d \in Records : Edit(d)) \/ (\E d \in Extracts : Activate(d))
    BY <2>14, <2>2 DEF Edit, Activate, store
  <2> QED
    BY <2>2, <2>7, <2>8, <2>9, <2>10, <2>11, <2>12, <2>13, <2>14 DEF Next, CommandStep
<1> QED
  BY <1>1, <1>2

\* The results of a run change while it is built, when its removal ends, and never else.
LEMMA SpoolSteps ==
  ASSUME Inv, [Next]_vars, NEW r \in RunIds, metadata'[r] # NoMetadata
  PROVE  \/ ReadMatches /\ r = command.run
         \/ spool'[r].results = spool[r].results
<1>0. spool \in [RunIds -> Spools]
  BY DEF Inv, Typed
<1>1. CASE spool' = spool
  BY <1>1
<1>2. CASE FindCandidate
  <2> PICK d, q : d = NextFile /\ q = command.run
    OBVIOUS
  <2>1. CASE spool' = spool
    BY <2>1
  <2>2. CASE spool' = [spool EXCEPT ![q].candidates = @ \union {d}]
    <3>1. q \in RunIds
      BY <1>2, BuildingFacts DEF FindCandidate
    <3> PICK s, candidates : s = spool[q] /\ candidates = s.candidates \union {d}
      OBVIOUS
    <3>2. PICK t : t = [s EXCEPT !.candidates = candidates]
      OBVIOUS
    <3>3. t.results = s.results /\ spool' = [spool EXCEPT ![q] = t]
      BY <1>0, <2>2, <3>1, <3>2 DEF Spools
    <3> QED
      BY <1>0, <3>1, <3>3
  <2> QED
    BY <1>2, <2>1, <2>2 DEF FindCandidate
<1>3. CASE ReadMatches /\ r # command.run
  <2>1. \E s : spool' = [spool EXCEPT ![command.run] = s]
    BY <1>3 DEF ReadMatches
  <2> QED
    BY <1>0, <1>3, <2>1
<1>4. CASE IndexLastPage
  <2> PICK n : n = Len(spool[command.run].results)
    OBVIOUS
  <2>1. spool' = spool \/ spool' = [spool EXCEPT ![command.run].index = Append(@, n)]
    BY <1>4 DEF IndexLastPage
  <2> QED
    BY <1>0, <2>1 DEF Spools
<1>5. CASE CleanRemoves
  <2>1. metadata' = [metadata EXCEPT ![command.run] = NoMetadata]
        /\ spool' = [spool EXCEPT ![command.run] = NoSpool]
        /\ metadata \in [RunIds -> MetadataSet \union {NoMetadata}]
    BY <1>5 DEF CleanRemoves, Inv, Typed
  <2>2. r # command.run
    BY <2>1
  <2> QED
    BY <1>0, <2>1, <2>2
<1>6. ASSUME NEW q \in RunIds, Damage(q)
      PROVE  spool'[r].results = spool[r].results
  <2>1. spool' = [spool EXCEPT ![q].damaged = TRUE]
    BY <1>6 DEF Damage
  <2> QED
    BY <1>0, <2>1 DEF Spools
<1> QED
  <2>1. CASE BuildStep
    BY <2>1, <1>1, <1>2, <1>3, <1>4 DEF BuildStep, ListFolder, ObserveOperand, BindFails,
       MakeDirectory, FillDirectory, Describe, FilenamesDone, SpoolLimit, RipgrepFails, Finish, GiveUp,
       store
  <2>2. CASE ServeStep
    BY <2>2, <1>1 DEF ServeStep, LoadExpired, LoadBlocked, Load, Validated, FoundStale, PageLost,
       OutOfOrder, Serve, Return, store
  <2>3. CASE ProofStep
    BY <2>3, <1>1 DEF ProofStep, ProofRefused, ProofAccepted, Captured, Use, store
  <2>4. CASE CleanStep
    BY <2>4, <1>1, <1>5 DEF CleanStep, CleanBlocks, CleanKeeps, CleanUnlinks, Skip, store
  <2>5. CASE Stop \/ Tick \/ UNCHANGED vars
    BY <2>5, <1>1 DEF Stop, Tick, vars, store
  <2>6. ASSUME NEW q \in RunIds,
               \/ Verify(q) \/ BuildPacket(q)
               \/ \E waited \in 0 .. MaxFaults :
                     \/ StartCleanup(q, waited)
                     \/ \E request \in Requests : Start(q, request, waited)
                     \/ \E index \in 1 .. Len(spool[q].index) : Resume(q, index, waited)
        PROVE  spool' = spool
    BY <2>6 DEF Verify, BuildPacket, StartCleanup, Start, Resume, store
  <2>7. CASE (\E d \in Records : Edit(d)) \/ (\E d \in Extracts : Activate(d))
    BY <2>7, <1>1 DEF Edit, Activate, store
  <2> QED
    BY <1>1, <1>6, <2>1, <2>2, <2>3, <2>4, <2>5, <2>6, <2>7 DEF Next, CommandStep

-----------------------------------------------------------------------------
(* Building a run.                                                         *)

\* Nothing is reported of any document by no results.
LEMMA NothingReported ==
  ASSUME NEW d
  PROVE  ReportedIn(<<>>, d) = <<>>
<1> DEFINE wanted == [doc : {d}, line : Nat, content : Contents]
<1>1. <<>> \in Seq(Matches) /\ Len(<<>>) = 0
  OBVIOUS
<1>2. \A i \in 1 .. Len(<<>>) : <<>>[i] \notin wanted
  BY <1>1
<1> HIDE DEF wanted
<1>3. SelectIn(<<>>, wanted) = <<>>
  BY <1>1, <1>2, SelectNone
<1> QED
  BY <1>3 DEF ReportedIn, wanted

\* The matches of a document are reported of it, and of no other.
LEMMA MatchesReported ==
  ASSUME NEW purpose, NEW d \in Docs, NEW file \in Documents,
         NEW old \in Seq(Matches), NEW more, more = Matched(purpose, d, file),
         NEW all, Joined(old, more, all), ReportedIn(old, d) = <<>>
  PROVE  ReportedIn(all, d) = more /\ \A e : e # d => ReportedIn(all, e) = ReportedIn(old, e)
<1>1. more \in Seq(Matches)
  BY MatchesTyped
<1>2. \A i \in 1 .. Len(more) : more[i] \in [doc : {d}, line : Nat, content : Contents]
  <2>1. file.content \in Nat /\ file.content \in Contents
    BY ContentsAreCounts DEF Documents
  <2> PICK hits : hits = Hits(d, file)
    OBVIOUS
  <2>2. hits = [i \in 1 .. file.content |-> [doc |-> d, line |-> i, content |-> file.content]]
    BY DEF Hits
  <2>3. hits \in Seq(Matches) /\ Len(hits) = file.content
    <3>1. hits \in Seq(Matches)
      BY MatchesTyped
    <3>2. Len(hits) = file.content
      BY <2>1, <2>2
    <3> QED
      BY <3>1, <3>2
  <2>4. \A i \in 1 .. Len(hits) : hits[i] \in [doc : {d}, line : Nat, content : Contents]
    BY <2>1, <2>2, <2>3
  <2>5. more = hits \/ (hits # <<>> /\ more = <<Head(hits)>>)
    BY DEF Matched
  <2> HIDE DEF Matches
  <2>6. CASE more = hits
    BY <2>4, <2>6
  <2>7. CASE hits # <<>> /\ more = <<Head(hits)>>
    <3>1. Len(hits) \in Nat /\ Len(hits) # 0 /\ Head(hits) = hits[1]
      BY <2>3, <2>7
    <3>2. Len(more) = 1 /\ more[1] = hits[1]
      BY <2>7, <3>1
    <3> QED
      BY <2>4, <3>1, <3>2
  <2> QED
    BY <2>5, <2>6, <2>7
<1>3. ReportedIn(all, d) = more
  <2> PICK wanted : wanted = [doc : {d}, line : Nat, content : Contents]
    OBVIOUS
  <2>1. SelectIn(more, wanted) = more
    BY <1>1, <1>2, SelectAll
  <2>2. SelectIn(old, wanted) = <<>>
    BY DEF ReportedIn
  <2>3. Joined(SelectIn(old, wanted), SelectIn(more, wanted), SelectIn(all, wanted))
    BY <1>1, SelectConcat
  <2>4. <<>> \o more = more
    BY <1>1
  <2> QED
    BY <2>1, <2>2, <2>3, <2>4 DEF ReportedIn, Joined
<1>4. ASSUME NEW e, e # d
      PROVE  ReportedIn(all, e) = ReportedIn(old, e)
  <2> PICK wanted : wanted = [doc : {e}, line : Nat, content : Contents]
    OBVIOUS
  <2>1. SelectIn(more, wanted) = <<>>
    <3>1. \A i \in 1 .. Len(more) : more[i] \notin wanted
      <4> TAKE i \in 1 .. Len(more)
      <4>1. more[i].doc = d
        BY <1>2
      <4>2. \A x \in wanted : x.doc = e
        OBVIOUS
      <4> QED
        BY <1>4, <4>1, <4>2
    <3> QED
      BY <1>1, <3>1, SelectNone
  <2>2. Joined(SelectIn(old, wanted), SelectIn(more, wanted), SelectIn(all, wanted))
    BY <1>1, SelectConcat
  <2>3. SelectIn(old, wanted) \in Seq(Matches)
    BY Selection
  <2> PICK x \in Seq(Matches) : x = SelectIn(old, wanted)
    BY <2>3
  <2>4. x \o <<>> = x
    OBVIOUS
  <2> QED
    BY <2>1, <2>2, <2>4 DEF ReportedIn, Joined
<1> QED
  BY <1>3, <1>4

\* A file is read, as it is.
LEMMA ReadsTruthfully ==
  ASSUME NEW m, NEW now, NEW todo, NEW d \in todo, d \in Docs, now[d] \in Documents,
         todo \subseteq DOMAIN m.identity \ m.excluded,
         NEW old \in Seq(Matches), NEW more, more = Matched(m.purpose, d, now[d]),
         NEW all, Joined(old, more, all), Truthful(m, old, now, todo), d \in Records
  PROVE  Truthful(m, all, now, todo \ {d})
<1>1. ReportedIn(old, d) = <<>>
  BY DEF Truthful
<1>2. ReportedIn(all, d) = more /\ \A e : e # d => ReportedIn(all, e) = ReportedIn(old, e)
  BY <1>1, MatchesReported
<1>3. now[d] = m.identity[d] => more = Expected(m, d)
  BY DEF Expected
<1> SUFFICES ASSUME NEW e \in Records
             PROVE  IF e \in DOMAIN m.identity \ (todo \ {d})
                    THEN now[e] = m.identity[e] => ReportedIn(all, e) = Expected(m, e)
                    ELSE ReportedIn(all, e) = <<>>
  BY DEF Truthful
<1>4. CASE e = d
  BY <1>2, <1>3, <1>4
<1>5. CASE e # d
  BY <1>2, <1>5 DEF Truthful
<1> QED
  BY <1>4, <1>5

\* Of files that are not read any more nothing has to be reported, as long as they
\* are what they were.
LEMMA UnreadTruthful ==
  ASSUME NEW m, NEW now, NEW todo, todo \subseteq DOMAIN m.identity \ m.excluded,
         \A d \in (DOMAIN m.identity \ m.excluded) \ todo :
             now[d] = m.identity[d] => m.purpose = "search" /\ Hits(d, m.identity[d]) = <<>>
  PROVE  Truthful(m, <<>>, now, todo)
<1>1. ASSUME NEW d \in DOMAIN m.identity \ todo, now[d] = m.identity[d]
      PROVE  Expected(m, d) = <<>>
  BY <1>1 DEF Expected, Matched
<1> QED
  BY <1>1, NothingReported DEF Truthful

\* What was found while a run is built stays right.
LEMMA StaysProgress ==
  ASSUME NEW c, NEW m, NEW n, Same(m, n), NEW s, NEW t, NEW now, NEW next,
         s.results = t.results, s.candidates = t.candidates,
         \A d \in DOMAIN m.identity : next[d] = m.identity[d] => now[d] = m.identity[d],
         Progress(c, m, s, now)
  PROVE  Progress(c, n, t, next)
<1>1. n.identity = m.identity /\ n.excluded = m.excluded /\ n.purpose = m.purpose
  BY DEF Same
<1>2. \A todo : Truthful(m, s.results, now, todo) => Truthful(n, s.results, next, todo)
  BY StaysTruthful
<1>3. c.phase = "context" => Truthful(n, t.results, next, c.todo)
  BY <1>2 DEF Progress
<1>4. c.phase = "finish" => Truthful(n, t.results, next, {})
  BY <1>2 DEF Progress
<1> QED
  BY <1>1, <1>3, <1>4 DEF Progress

-----------------------------------------------------------------------------
(* Commands that have compared nothing.                                    *)

LEMMA QuietKnows ==
  ASSUME command' # Idle, (files \in lived)', Quiet(command'), Unlisted(command', lived'),
         WikiRun(command.run)' =>
            Progress(command', metadata'[command'.run], spool'[command'.run], files')
  PROVE  Knows(command)'
<1> PICK c, m, results, now, past : /\ c = command' /\ m = metadata'[c.run]
                                    /\ results = spool'[c.run].results /\ now = files' /\ past = lived'
  OBVIOUS
<1>1. Covered(c, m, results, now, past)
  BY QuietCovers
<1> QED
  BY <1>1 DEF Knows

\* A command in a phase that says nothing of the documents.
LEMMA PlainKnows ==
  ASSUME command' # Idle, (files \in lived)', command'.goal \notin {"captured", "packet"},
         \/ command'.phase \in {"fill", "describe", "give_up", "rmdir", "load", "clean", "vanished"}
         \/ command'.phase = "observe" /\ command'.goal = "create"
  PROVE  Knows(command)'
<1> PICK c : c = command'
  OBVIOUS
<1>1. Quiet(c)
  BY DEF Quiet, Passed, Validations
<1>2. Unlisted(c, lived')
  BY DEF Unlisted, Validations
<1>3. Progress(c, metadata'[c.run], spool'[c.run], files')
  BY DEF Progress
<1> QED
  BY <1>1, <1>2, <1>3, QuietKnows

LEMMA BeginsKnow ==
  ASSUME Inv, command' # Idle, NEW r \in RunIds, NEW waited,
         \/ Verify(r) \/ BuildPacket(r) \/ StartCleanup(r, waited)
         \/ \E request \in Requests : Start(r, request, waited)
         \/ \E index \in 1 .. Len(spool[r].index) : Resume(r, index, waited)
  PROVE  Knows(command)'
<1>1. PICK op, request, phase, goal, folders, index, time :
         /\ Begin(op, r, request, phase, goal, folders, index, time)
         /\ UNCHANGED files
         /\ \/ phase = "load" /\ goal \in {"page", "accept", "capture"}
            \/ phase = "clean" /\ goal = "none"
            \/ phase = "observe" /\ goal = "create"
  BY DEF Verify, BuildPacket, StartCleanup, Start, Resume, world
<1>2. lived' = {files} /\ files' = files /\ command'.phase = phase /\ command'.goal = goal
  BY <1>1 DEF Begin
<1> QED
  BY <1>1, <1>2, PlainKnows

LEMMA PlainSteps ==
  ASSUME Inv, command # Idle, Knows(command), command' # Idle,
         \/ MakeDirectory \/ FillDirectory \/ SpoolLimit \/ RipgrepFails \/ CleanUnlinks
         \/ FoundStale
  PROVE  Knows(command)'
<1>0. command \in Commands /\ Phased(command)
  BY CommandFacts
<1>1. UNCHANGED <<files, lived>>
  BY DEF MakeDirectory, FillDirectory, SpoolLimit, RipgrepFails, CleanUnlinks, FoundStale, Goto,
     End, world, history
<1>2. CASE MakeDirectory \/ FillDirectory \/ CleanUnlinks
  <2>1. PICK phase \in {"fill", "describe", "rmdir"} : command' = [command EXCEPT !.phase = phase]
    BY <1>2 DEF MakeDirectory, FillDirectory, CleanUnlinks, Goto
  <2>2. command.goal \notin {"captured", "packet"}
    BY <1>0, <1>2 DEF MakeDirectory, FillDirectory, CleanUnlinks, InPhase, Phased, Fresh, Building,
       GivingUp, Loading, Validating, Passed, Cleaning, Validations, Failures
  <2>3. command'.phase = phase /\ command'.goal = command.goal
    BY <1>0, <2>1 DEF Commands
  <2> QED
    BY <1>1, <2>1, <2>2, <2>3, PlainKnows DEF Knows
<1>3. CASE SpoolLimit \/ RipgrepFails \/ FoundStale
  <2>1. PICK code \in Failures :
           command' = [command EXCEPT !.phase = "give_up", !.goal = code, !.todo = {}]
    BY <1>3 DEF SpoolLimit, RipgrepFails, FoundStale, Abandon, Failures, End
  <2>2. command'.phase = "give_up" /\ command'.goal = code
    BY <1>0, <2>1 DEF Commands
  <2> QED
    BY <1>1, <2>2, PlainKnows DEF Knows, Failures
<1> QED
  BY <1>2, <1>3

\* A command is about to list every folder.
LEMMA ListsAll ==
  ASSUME NEW c, c.folders = Folders(c.request.scope), NEW past
  PROVE  Unlisted(c, past)
<1>1. CASE c.request.scope = "wiki"
  <2>1. c.folders = <<Pages, Questions>>
    BY <1>1 DEF Folders
  <2>2. 1 \in DOMAIN c.folders /\ 2 \in DOMAIN c.folders
        /\ c.folders[1] = Pages /\ c.folders[2] = Questions
    BY <2>1
  <2> QED
    BY <2>2 DEF Unlisted, Records
<1> QED
  BY <1>1 DEF Unlisted

LEMMA LooksKnow ==
  ASSUME Inv, command # Idle, Knows(command), command' # Idle, Finish \/ (Load /\ command.goal # "packet")
  PROVE  Knows(command)'
<1>0. command \in Commands /\ Phased(command) /\ Meta # NoMetadata
      /\ command.request = RequestOf(Meta) /\ command.goal # "captured"
  BY CommandFacts, BuildingFacts DEF Finish, Load, InPhase, Phased, Fresh, Building, GivingUp, Loading,
     Validating, Passed, Cleaning, Validations, Failures, Meta
<1>1. UNCHANGED <<files, lived>>
  BY DEF Finish, Load, world, history
<1>2. PICK goal : goal \notin {"captured", "packet"} /\ command' = ToObserve("observe", goal, Meta.scope)
  BY <1>0 DEF Finish, Load
<1> PICK folders : folders = Folders(Meta.scope)
  OBVIOUS
<1>3. command'.phase = "observe" /\ command'.goal = goal /\ command'.seen = <<>>
      /\ command'.folders = folders /\ command'.request = command.request
  BY <1>0, <1>2 DEF ToObserve, Commands
<1>4. command'.request.scope = Meta.scope
  BY <1>0, <1>3 DEF RequestOf
<1>5. Unlisted(command', lived')
  BY <1>3, <1>4, ListsAll
<1>6. Quiet(command')
  BY <1>2, <1>3 DEF Quiet, Passed
<1>7. Progress(command', metadata'[command'.run], spool'[command'.run], files')
  BY <1>3 DEF Progress
<1> QED
  BY <1>1, <1>5, <1>6, <1>7, QuietKnows DEF Knows

-----------------------------------------------------------------------------
(* Commands that build a run.                                              *)

LEMMA BuildsKnow ==
  ASSUME command' # Idle, (files \in lived)', command'.goal = "create",
         command'.phase \in {"filenames", "context", "finish"},
         WikiRun(command.run)' =>
            Progress(command', metadata'[command'.run], spool'[command'.run], files')
  PROVE  Knows(command)'
<1> PICK c : c = command'
  OBVIOUS
<1>1. Quiet(c)
  BY DEF Quiet, Passed
<1>2. Unlisted(c, lived')
  BY DEF Unlisted
<1> QED
  BY <1>1, <1>2, QuietKnows

LEMMA DescribeKnows ==
  ASSUME Inv, command # Idle, Knows(command), command' # Idle, Describe
  PROVE  Knows(command)'
<1>1. /\ command \in Commands /\ Phased(command) /\ command.goal = "create"
      /\ command.run \in RunIds /\ metadata[command.run] = NoMetadata
      /\ command.request \in Requests /\ spool[command.run] = NoSpool
  BY CommandFacts DEF Inv, Sound, Describe, InPhase, Phased, Fresh, Building, GivingUp, Loading,
     Validating, Passed, Cleaning, Validations, Failures
<1> PICK request, seen, r, waited, s : /\ request = command.request /\ seen = command.seen
                                       /\ r = command.run /\ waited = command.waited /\ s = NoSpool
  OBVIOUS
<1> PICK m : m = NewMetadata(request, Revision, Identity(request.scope, seen), waited)
  OBVIOUS
<1>2. /\ m.purpose = request.purpose /\ m.scope = request.scope /\ m.excluded = request.excluded
      /\ m.identity = Identity(request.scope, seen)
  BY DEF NewMetadata
<1>3. metadata'[r] = m /\ spool'[r] = s
  BY <1>1 DEF Describe, SaveMetadata, Inv, Typed
<1>4. UNCHANGED <<files, lived>>
  BY DEF Describe, world, history
<1>5. PICK phase : /\ phase = IF request.purpose = "links" THEN "context" ELSE "filenames"
                   /\ command' = [command EXCEPT !.phase = phase,
                                                 !.todo = DOMAIN seen \ request.excluded]
  BY DEF Describe
<1>6. /\ command'.phase = phase /\ command'.goal = "create" /\ command'.run = r
      /\ command'.todo = DOMAIN seen \ request.excluded
  BY <1>1, <1>5 DEF Commands
<1>7. m.scope = "wiki" => Progress(command', m, s, files')
  <2> SUFFICES ASSUME m.scope = "wiki"
               PROVE  Progress(command', m, s, files')
    OBVIOUS
  <2>1. m.identity = seen /\ command'.todo = DOMAIN m.identity \ m.excluded
    BY <1>2, <1>6 DEF Identity
  <2>2. s.results = <<>> /\ s.candidates = {}
    BY DEF NoSpool
  <2>3. Truthful(m, <<>>, files', command'.todo)
    BY <2>1, UnreadTruthful
  <2>4. phase = "filenames" => m.purpose = "search"
    BY <1>1, <1>2, <1>5 DEF Requests
  <2> QED
    BY <1>5, <1>6, <2>1, <2>2, <2>3, <2>4 DEF Progress
<1>8. WikiRun(command.run)' => Progress(command', metadata'[command'.run], spool'[command'.run], files')
  BY <1>3, <1>6, <1>7 DEF WikiRun
<1> QED
  BY <1>4, <1>5, <1>6, <1>8, BuildsKnow DEF Knows

\* What is known of the command that builds a wiki run.
LEMMA WikiBuild ==
  ASSUME Inv, Stamped, InPhase("filenames") \/ InPhase("context"), Knows(command), WikiRun(command.run)
  PROVE  /\ Progress(command, Meta, spool[command.run], files)
         /\ RecordsWiki(Meta) /\ Meta.purpose = command.request.purpose
<1>1. command # Idle /\ command.run \in RunIds /\ command.request = RequestOf(Meta)
  BY BuildingFacts
<1>2. Meta.purpose = command.request.purpose
  BY <1>1 DEF RequestOf
<1> QED
  BY <1>1, <1>2 DEF Knows, Stamped, Meta

LEMMA FindCandidateKnows ==
  ASSUME Inv, Stamped, Knows(command), command' # Idle, FindCandidate
  PROVE  Knows(command)'
<1> PICK r, d, c : r = command.run /\ d = NextFile /\ c = command
  OBVIOUS
<1>1. c \in Commands /\ c.goal = "create" /\ c.phase = "filenames" /\ r \in RunIds
      /\ spool[r] \in Spools /\ d \in c.todo /\ spool \in [RunIds -> Spools]
  BY BuildingFacts, FirstPath DEF FindCandidate, InPhase, Building, NextFile, Commands, Inv, Typed
<1>2. UNCHANGED <<files, lived, metadata>>
  BY DEF FindCandidate, world, history
<1>3. /\ command'.phase = "filenames" /\ command'.goal = "create" /\ command'.run = r
      /\ command'.todo = c.todo \ {d}
  BY <1>1 DEF FindCandidate, Commands
<1> PICK s : s = spool[r]
  OBVIOUS
<1>4. PICK t : /\ t = spool'[r] /\ t.results = s.results
               /\ t.candidates = IF Hits(d, files[d]) # <<>> THEN s.candidates \union {d} ELSE s.candidates
  <2>1. CASE Hits(d, files[d]) # <<>>
    <3>1. spool' = [spool EXCEPT ![r].candidates = @ \union {d}]
      BY <2>1 DEF FindCandidate
    <3> PICK candidates : candidates = s.candidates \union {d}
      OBVIOUS
    <3> PICK u : u = [s EXCEPT !.candidates = candidates]
      OBVIOUS
    <3>2. u.results = s.results /\ u.candidates = candidates
      BY <1>1 DEF Spools
    <3>3. spool'[r] = u
      BY <1>1, <3>1
    <3> QED
      BY <2>1, <3>2, <3>3
  <2>2. CASE Hits(d, files[d]) = <<>>
    BY <2>2 DEF FindCandidate
  <2> QED
    BY <2>1, <2>2
<1>5. ASSUME WikiRun(r)
      PROVE  Progress(command', Meta, t, files)
  <2> PICK m, now : m = Meta /\ now = files
    OBVIOUS
  <2>1. Progress(c, m, s, now)
    BY <1>1, <1>5, WikiBuild DEF FindCandidate
  <2>2. command'.todo \subseteq DOMAIN m.identity \ m.excluded
        /\ t.candidates \subseteq DOMAIN m.identity \ m.excluded
    BY <1>1, <1>3, <1>4, <2>1 DEF Progress
  <2>3. ASSUME NEW e \in (DOMAIN m.identity \ m.excluded) \ command'.todo, now[e] = m.identity[e]
        PROVE  e \in t.candidates \/ Hits(e, m.identity[e]) = <<>>
    <3>1. CASE e = d
      BY <1>4, <2>3, <3>1
    <3>2. CASE e # d
      BY <1>1, <1>3, <1>4, <2>1, <2>3, <3>2 DEF Progress
    <3> QED
      BY <3>1, <3>2
  <2> QED
    BY <1>1, <1>3, <1>4, <2>1, <2>2, <2>3 DEF Progress
<1>6. WikiRun(command.run)' => Progress(command', metadata'[command'.run], spool'[command'.run], files')
  BY <1>2, <1>3, <1>4, <1>5 DEF WikiRun, Meta
<1> QED
  BY <1>2, <1>3, <1>6, BuildsKnow DEF Knows

LEMMA FilenamesDoneKnows ==
  ASSUME Inv, Stamped, Knows(command), command' # Idle, FilenamesDone
  PROVE  Knows(command)'
<1> PICK r, c, s : r = command.run /\ c = command /\ s = spool[r]
  OBVIOUS
<1>1. c \in Commands /\ c.goal = "create" /\ c.phase = "filenames" /\ r \in RunIds /\ c.todo = {}
  BY BuildingFacts DEF FilenamesDone, InPhase, Building
<1>2. UNCHANGED <<files, lived, metadata, spool>>
  BY DEF FilenamesDone, world, history, store
<1>3. /\ command'.phase = "context" /\ command'.goal = "create" /\ command'.run = r
      /\ command'.todo = s.candidates
  BY <1>1 DEF FilenamesDone, Commands
<1>4. ASSUME WikiRun(r)
      PROVE  Progress(command', Meta, s, files)
  <2> PICK m, now : m = Meta /\ now = files
    OBVIOUS
  <2>1. Progress(c, m, s, now)
    BY <1>1, <1>4, WikiBuild DEF FilenamesDone
  <2>2. Truthful(m, <<>>, now, s.candidates)
    BY <1>1, <2>1, UnreadTruthful DEF Progress
  <2> QED
    BY <1>1, <1>3, <2>1, <2>2 DEF Progress
<1>5. WikiRun(command.run)' => Progress(command', metadata'[command'.run], spool'[command'.run], files')
  BY <1>2, <1>3, <1>4 DEF WikiRun, Meta
<1> QED
  BY <1>2, <1>3, <1>5, BuildsKnow DEF Knows

LEMMA ReadMatchesKnows ==
  ASSUME Inv, Stamped, Knows(command), command' # Idle, ReadMatches
  PROVE  Knows(command)'
<1> PICK r, d, c, s, purpose : /\ r = command.run /\ d = NextFile /\ c = command /\ s = spool[r]
                               /\ purpose = command.request.purpose
  OBVIOUS
<1>1. c \in Commands /\ c.goal = "create" /\ c.phase = "context" /\ r \in RunIds
      /\ s \in Spools /\ d \in c.todo /\ spool \in [RunIds -> Spools]
  BY BuildingFacts, FirstPath DEF ReadMatches, InPhase, Building, NextFile, Commands, Inv, Typed
<1>2. UNCHANGED <<files, lived, metadata>>
  BY DEF ReadMatches, world, history
<1>3. /\ command'.phase = "context" /\ command'.goal = "create" /\ command'.run = r
      /\ command'.todo = c.todo \ {d}
  BY <1>1 DEF ReadMatches, Commands
<1>4. d \in Docs /\ files[d] \in Documents
  BY <1>1 DEF ReadMatches, Commands, Inv, Typed, TypeOK, Files
<1> PICK more, all : more = Matched(purpose, d, files[d]) /\ all = s.results \o more
  OBVIOUS
<1>5. spool'[r].results = all
  <2> PICK index : index = IndexPages(s.index, all)
    OBVIOUS
  <2> PICK t : t = [s EXCEPT !.results = all, !.index = index]
    OBVIOUS
  <2>1. SpoolMatches(s, more) = t
    BY DEF SpoolMatches
  <2>2. t.results = all /\ t.candidates = s.candidates
    BY <1>1 DEF Spools
  <2> PICK candidates : candidates = t.candidates \union {d}
    OBVIOUS
  <2> PICK u : u = [t EXCEPT !.candidates = candidates]
    OBVIOUS
  <2>3. u.results = t.results
    BY <1>1 DEF Spools
  <2>4. spool' = [spool EXCEPT ![r] = t] \/ spool' = [spool EXCEPT ![r] = u]
    BY <2>1 DEF ReadMatches
  <2> QED
    BY <1>1, <2>2, <2>3, <2>4
<1>6. ASSUME WikiRun(r)
      PROVE  Progress(command', Meta, spool'[r], files)
  <2> PICK m, now, todo, old : m = Meta /\ now = files /\ todo = c.todo /\ old = s.results
    OBVIOUS
  <2>1. Progress(c, m, s, now) /\ RecordsWiki(m) /\ m.purpose = purpose
    BY <1>1, <1>6, WikiBuild DEF ReadMatches
  <2>2. todo \subseteq DOMAIN m.identity \ m.excluded /\ Truthful(m, old, now, todo)
    BY <1>1, <2>1 DEF Progress
  <2>3. d \in Records /\ old \in Seq(Matches) /\ Joined(old, more, all)
    BY <1>1, <2>1, <2>2 DEF RecordsWiki, Spools, Joined
  <2>4. Truthful(m, all, now, todo \ {d})
    BY <1>1, <1>4, <2>1, <2>2, <2>3, ReadsTruthfully
  <2> QED
    BY <1>3, <1>5, <2>2, <2>4 DEF Progress
<1>7. WikiRun(command.run)' => Progress(command', metadata'[command'.run], spool'[command'.run], files')
  BY <1>2, <1>3, <1>6 DEF WikiRun, Meta
<1> QED
  BY <1>2, <1>3, <1>7, BuildsKnow DEF Knows

LEMMA IndexLastPageKnows ==
  ASSUME Inv, Stamped, Knows(command), command' # Idle, IndexLastPage, [Next]_vars
  PROVE  Knows(command)'
<1> PICK r, c, s : r = command.run /\ c = command /\ s = spool[r]
  OBVIOUS
<1>1. c \in Commands /\ c.goal = "create" /\ c.phase = "context" /\ r \in RunIds /\ c.todo = {}
      /\ metadata[r] # NoMetadata
  BY BuildingFacts DEF IndexLastPage, InPhase, Building, Meta
<1>2. UNCHANGED <<files, lived, metadata>>
  BY DEF IndexLastPage, world, Goto
<1>3. command'.phase = "finish" /\ command'.goal = "create" /\ command'.run = r /\ command'.todo = {}
  BY <1>1 DEF IndexLastPage, Goto, Commands
<1>4. spool'[r].results = s.results
  <2>1. command'.phase # "context"
    BY <1>3
  <2>2. ~ReadMatches
    BY <1>1, <2>1 DEF ReadMatches, Commands
  <2> QED
    BY <1>1, <1>2, <2>2, SpoolSteps
<1>5. ASSUME WikiRun(r)
      PROVE  Progress(command', Meta, spool'[r], files)
  BY <1>1, <1>3, <1>4, <1>5, WikiBuild DEF Progress, IndexLastPage
<1>6. WikiRun(command.run)' => Progress(command', metadata'[command'.run], spool'[command'.run], files')
  BY <1>2, <1>3, <1>5 DEF WikiRun, Meta
<1> QED
  BY <1>2, <1>3, <1>6, BuildsKnow DEF Knows

-----------------------------------------------------------------------------
(* Commands that validate a run.                                           *)

\* A command goes on to something else than building.
LEMMA CoversKnow ==
  ASSUME Knows(command), command' # Idle, UNCHANGED <<files, metadata, spool, lived>>,
         command'.run = command.run, command'.phase \notin {"filenames", "context", "finish"},
         Unlisted(command', lived),
         WikiRun(command.run) =>
            Covered(command', Meta, spool[command.run].results, files, lived)
  PROVE  Knows(command)'
<1> PICK c : c = command'
  OBVIOUS
<1>1. Progress(c, metadata'[c.run], spool'[c.run], files')
  BY DEF Progress
<1> QED
  BY <1>1 DEF Knows, WikiRun, Meta

LEMMA ListFolderKnows ==
  ASSUME Inv, Knows(command), command' # Idle, ListFolder
  PROVE  Knows(command)'
<1> PICK c, b : c = command /\ b = command'
  OBVIOUS
<1>1. /\ c \in Commands /\ c # Idle /\ c.folders # <<>> /\ c.todo = {}
      /\ Phased(c) /\ Within(c) /\ c.phase \in {"observe", "capture"}
  BY CommandFacts DEF ListFolder, Looking, InPhase
<1>2. UNCHANGED <<files, metadata, spool, lived>>
  BY DEF ListFolder, world, store, history
<1>3. /\ b.todo = Listed(Head(c.folders)) /\ b.folders = Tail(c.folders)
      /\ b.phase = c.phase /\ b.goal = c.goal /\ b.run = c.run /\ b.seen = c.seen
      /\ b.captured = c.captured /\ b.request = c.request
  BY <1>1 DEF ListFolder, Commands
<1>4. CASE c.goal = "create"
  <2>1. c.phase = "observe"
    BY <1>1, <1>4 DEF Phased, Fresh, Building, GivingUp, Loading, Validating, Passed, Cleaning,
       Validations, Failures
  <2> QED
    BY <1>2, <1>3, <1>4, <2>1, PlainKnows DEF Knows
<1>5. CASE c.goal # "create"
  <2>1. Unlisted(b, lived)
    <3> SUFFICES ASSUME b.goal \in Validations, b.phase = "observe", b.request.scope = "wiki",
                        NEW d \in Records, d \notin DOMAIN b.seen
                 PROVE  \/ d \in b.todo
                        \/ \E i \in DOMAIN b.folders : d \in b.folders[i]
                        \/ \E at \in lived : at[d] = Absent
      BY DEF Unlisted
    <3>1. (\E i \in DOMAIN c.folders : d \in c.folders[i]) \/ \E at \in lived : at[d] = Absent
      BY <1>1, <1>3 DEF Knows, Unlisted
    <3>2. CASE \E i \in DOMAIN c.folders : d \in c.folders[i]
      <4>1. PICK i \in DOMAIN c.folders : d \in c.folders[i]
        BY <3>2
      <4>2. CASE i = 1
        <5>1. Head(c.folders) = c.folders[1] /\ d \notin Extracts
          BY <1>1, PathsAreOrdered DEF Commands
        <5>2. d \in Listed(Head(c.folders)) \/ files[d] = Absent
          BY <4>1, <4>2, <5>1 DEF Listed, Present
        <5> QED
          BY <1>3, <5>2 DEF Knows
      <4>3. CASE i # 1
        <5>1. c.folders \in Seq({Pages, Questions, Extracts}) /\ i \in 1 .. Len(c.folders)
          BY <1>1 DEF Commands
        <5>2. i - 1 \in DOMAIN b.folders /\ b.folders[i - 1] = c.folders[i]
          BY <1>1, <1>3, <4>3, <5>1
        <5> QED
          BY <4>1, <5>2
      <4> QED
        BY <4>2, <4>3
    <3> QED
      BY <3>1, <3>2
  <2>2. ASSUME WikiRun(c.run)
        PROVE  Covered(b, Meta, spool[c.run].results, files, lived)
    <3> PICK m, results, now : m = Meta /\ results = spool[c.run].results /\ now = files
      OBVIOUS
    <3>1. Covered(c, m, results, now, lived)
      BY <2>2 DEF Knows, Meta
    <3>2. \A d : Checked(b, m, d) <=> Checked(c, m, d)
      BY <1>3 DEF Checked
    <3>3. Captures(b, m, now)
      BY <1>3, <3>1, <3>2 DEF Covered, Captures
    <3>4. Vouched(b) => Vouched(c)
      BY <1>3 DEF Vouched, Passed
    <3> QED
      BY <3>1, <3>2, <3>3, <3>4, MovesCovered DEF Sure
  <2> QED
    BY <1>1, <1>2, <1>3, <2>1, <2>2, CoversKnow
<1> QED
  BY <1>4, <1>5

\* What a validation and a command that has passed one know of a wiki run.
LEMMA WikiChecks ==
  ASSUME Inv, Stamped, Built, command # Idle, Knows(command), WikiRun(command.run),
         Validating(command) \/ Passed(command)
  PROVE  /\ Covered(command, Meta, spool[command.run].results, files, lived)
         /\ Truthful(Meta, spool[command.run].results, files, {})
         /\ DOMAIN Meta.identity \subseteq Records /\ Meta # NoMetadata
         /\ command.request = RequestOf(Meta) /\ command.request.scope = "wiki" /\ Meta.scope = "wiki"
<1>1. /\ command.run \in RunIds /\ Phased(command) /\ ~Fresh(command) /\ ~Cleaning(command)
      /\ Meta # NoMetadata
  BY CommandFacts DEF WikiRun, Meta, Validating, Passed, Fresh, Cleaning, Validations
<1>2. Meta.blocked = "none" /\ command.request = RequestOf(Meta)
  BY <1>1 DEF Phased, Meta
<1> QED
  BY <1>1, <1>2 DEF Knows, Built, Stamped, RecordsWiki, WikiRun, Meta, RequestOf

LEMMA ObserveOperandKnows ==
  ASSUME Inv, Stamped, Built, Knows(command), command' # Idle, ObserveOperand
  PROVE  Knows(command)'
<1> PICK c, b, e : c = command /\ b = command' /\ e = Min(command.todo)
  OBVIOUS
<1>1. /\ c \in Commands /\ c # Idle /\ c.todo # {} /\ Phased(c) /\ Within(c)
      /\ c.phase \in {"observe", "capture"} /\ e \in c.todo
  BY CommandFacts, FirstPath DEF ObserveOperand, Looking, InPhase, Commands
<1>2. UNCHANGED <<files, metadata, spool, lived>>
  BY DEF ObserveOperand, world, store, history
<1>a. (c.phase = "observe" /\ c.goal = "create") \/ Validating(c) \/ Passed(c)
  BY <1>1 DEF Phased, Fresh, Building, GivingUp, Loading, Validating, Passed, Cleaning
<1>3. CASE files[e] = Absent
  <2>1. /\ b.phase = "vanished" /\ b.todo = {} /\ b.goal = c.goal /\ b.run = c.run /\ b.seen = c.seen
        /\ b.captured = c.captured
    BY <1>1, <1>3 DEF ObserveOperand, Commands
  <2>2. CASE c.goal = "create"
    BY <1>2, <2>1, <2>2, PlainKnows DEF Knows
  <2>3. CASE c.goal # "create"
    <3>1. Unlisted(b, lived)
      BY <2>1 DEF Unlisted
    <3>2. ASSUME WikiRun(c.run)
          PROVE  Covered(b, Meta, spool[c.run].results, files, lived)
      <4> PICK m, results, now : m = Meta /\ results = spool[c.run].results /\ now = files
        OBVIOUS
      <4>1. Covered(c, m, results, now, lived)
        BY <3>2 DEF Knows, Meta
      <4>2. \A d : ~Checked(b, m, d)
        BY <2>1 DEF Checked
      <4>3. Captures(b, m, now)
        BY <2>1, <4>1, <4>2 DEF Covered, Captures
      <4>4. Vouched(b) => Vouched(c)
        BY <1>1, <1>a, <2>1 DEF Vouched, Passed, Validating, Validations
      <4> QED
        BY <4>1, <4>2, <4>3, <4>4, MovesCovered
    <3> QED
      BY <1>2, <2>1, <3>1, <3>2, CoversKnow
  <2> QED
    BY <2>2, <2>3
<1>4. CASE files[e] # Absent
  <2> DEFINE s == [x \in DOMAIN c.seen \union {e} |-> IF x = e THEN files[e] ELSE c.seen[x]]
  <2>1. DOMAIN s = DOMAIN c.seen \union {e} /\ s[e] = files[e]
        /\ \A x \in DOMAIN c.seen : x # e => s[x] = c.seen[x]
    OBVIOUS
  <2>a. b = [c EXCEPT !.todo = @ \ {e}, !.seen = s]
    BY <1>4 DEF ObserveOperand
  <2> HIDE DEF s
  <2>2. /\ b.phase = c.phase /\ b.goal = c.goal /\ b.run = c.run /\ b.request = c.request
        /\ b.folders = c.folders /\ b.todo = c.todo \ {e} /\ b.seen = s /\ b.captured = c.captured
    BY <1>1, <2>a DEF Commands
  <2>3. CASE c.goal = "create"
    <3>1. c.phase = "observe"
      BY <1>1, <1>a, <2>3 DEF Passed, Validating, Validations
    <3> QED
      BY <1>2, <2>2, <2>3, <3>1, PlainKnows DEF Knows
  <2>4. CASE c.goal # "create"
    <3>1. Unlisted(b, lived)
      BY <2>1, <2>2 DEF Unlisted, Knows
    <3>2. ASSUME WikiRun(c.run)
          PROVE  Covered(b, Meta, spool[c.run].results, files, lived)
      <4> PICK m, results, now : m = Meta /\ results = spool[c.run].results /\ now = files
        OBVIOUS
      <4>1. Covered(c, m, results, now, lived) /\ Truthful(m, results, now, {})
            /\ DOMAIN m.identity \subseteq Records
        BY <1>1, <1>a, <2>4, <3>2, WikiChecks
      <4>2. \A d : Checked(b, m, d) => Checked(c, m, d) \/ d = e
        BY <2>1, <2>2 DEF Checked
      <4>3. Vouched(b) => Vouched(c)
        BY <2>2 DEF Vouched, Passed
      <4>4. now[e] = b.seen[e]
        BY <2>1, <2>2
      <4>5. Captures(b, m, now)
        <5>1. Captures(c, m, now)
          BY <4>1 DEF Covered
        <5>2. ASSUME NEW d \in DOMAIN b.seen \intersect DOMAIN m.identity,
                     b.goal = "captured", b.seen[d] # m.identity[d]
              PROVE  now[d] # m.identity[d]
          <6>1. CASE d = e
            BY <4>4, <5>2, <6>1
          <6>2. CASE d # e
            BY <2>1, <2>2, <5>1, <5>2, <6>2 DEF Captures
          <6> QED
            BY <6>1, <6>2
        <5>3. ASSUME NEW d \in DOMAIN b.captured \intersect DOMAIN m.identity,
                     b.goal = "packet", b.captured[d] # m.identity[d]
              PROVE  now[d] # m.identity[d] /\ ~Checked(b, m, d) /\ b.phase \notin {"compare", "accepted"}
          <6>1. now[d] # m.identity[d] /\ ~Checked(c, m, d) /\ c.phase \notin {"compare", "accepted"}
            BY <2>2, <5>1, <5>3 DEF Captures
          <6>2. d = e => b.seen[d] # m.identity[d]
            BY <4>4, <6>1
          <6> QED
            BY <2>2, <4>2, <6>1, <6>2 DEF Checked
        <5>4. b.phase # "accepted"
          BY <1>1, <2>2
        <5> QED
          BY <5>2, <5>3, <5>4 DEF Captures
      <4> QED
        BY <4>1, <4>2, <4>3, <4>4, <4>5, ChecksOne DEF Sure
    <3> QED
      BY <1>1, <1>2, <2>2, <3>1, <3>2, CoversKnow
  <2> QED
    BY <2>3, <2>4
<1> QED
  BY <1>3, <1>4

LEMMA ValidatedKnows ==
  ASSUME Inv, Stamped, Built, Knows(command), command' # Idle, Validated
  PROVE  Knows(command)'
<1> PICK c, b : c = command /\ b = command'
  OBVIOUS
<1>1. /\ c \in Commands /\ c # Idle /\ c.todo = {} /\ c.folders = <<>> /\ Phased(c)
      /\ c.phase = "observe" /\ c.goal # "create"
  BY CommandFacts DEF Validated, Observed, InPhase
<1>2. UNCHANGED <<files, metadata, spool, lived>>
  BY DEF Validated, Goto, world, store
<1>3. Validating(c) /\ c.goal \in Validations
  BY <1>1 DEF Phased, Fresh, Building, GivingUp, Loading, Validating, Passed, Cleaning
<1>4. /\ b.phase \in {"page", "compare"} /\ b.goal = c.goal /\ b.run = c.run
      /\ b.captured = c.captured
  BY <1>1 DEF Validated, Goto, Commands
<1>5. Unlisted(b, lived)
  BY <1>4 DEF Unlisted
<1>6. ASSUME WikiRun(c.run)
      PROVE  Covered(b, Meta, spool[c.run].results, files, lived)
  <2> PICK m, results, now : m = Meta /\ results = spool[c.run].results /\ now = files
    OBVIOUS
  <2>1. Covered(c, m, results, now, lived) /\ Truthful(m, results, now, {})
        /\ c.request.scope = "wiki" /\ m.scope = "wiki"
    BY <1>1, <1>3, <1>6, WikiChecks
  <2>2. c.seen = m.identity
    BY <2>1 DEF Validated, IsCurrent, Identity
  <2>3. \A d \in DOMAIN m.identity : Checked(c, m, d)
    BY <1>1, <1>3, <2>2 DEF Checked
  <2>4. Captures(b, m, now)
    BY <1>3, <1>4, <2>1, <2>3 DEF Covered, Captures, Validations
  <2>5. Unlisted(c, lived)
    BY DEF Knows
  <2> QED
    BY <1>1, <1>3, <2>1, <2>2, <2>4, <2>5, ChecksAll
<1> QED
  BY <1>1, <1>2, <1>4, <1>5, <1>6, CoversKnow

\* A page that is counted is the page that was to be returned.
LEMMA ServeKnows ==
  ASSUME Inv, [Next]_vars, Knows(command), Serve
  PROVE  Knows(command)'
<1> PICK c, b, r, m, n : c = command /\ b = command' /\ r = c.run /\ m = Meta /\ n = metadata'[r]
  OBVIOUS
<1>1. /\ c \in Commands /\ c # Idle /\ Passed(c) /\ c.goal = "page" /\ r \in RunIds
      /\ m # NoMetadata
  BY CommandFacts DEF Serve, InPhase, Phased, Fresh, Building, GivingUp, Loading, Validating, Passed,
     Cleaning, Meta
<1>2. b = [c EXCEPT !.phase = "return"] /\ UNCHANGED <<files, spool, lived>>
  BY DEF Serve, Goto, world
<1>3. b.phase = "return" /\ b.goal = "page" /\ b.run = r /\ Passed(b)
  BY <1>1, <1>2 DEF Commands, Passed
<1>4. Unlisted(b, lived) /\ \A s, now : Progress(b, n, s, now)
  BY <1>3 DEF Unlisted, Progress
<1>5. ASSUME WikiRun(r)'
      PROVE  Covered(b, n, spool[r].results, files, lived)
  <2>1. n # NoMetadata
    BY <1>5 DEF WikiRun
  <2>2. Same(m, n)
    BY <1>1, <2>1, MetadataObeys DEF Obeys, Meta
  <2> PICK results, now, past : results = spool[r].results /\ now = files /\ past = lived
    OBVIOUS
  <2>3. Covered(c, m, results, now, past)
    BY <1>1, <1>5, <2>2 DEF Knows, WikiRun, Same, Meta
  <2>4. Vouched(c) /\ Vouched(b) /\ \A d : Sure(c, m, d) /\ Sure(b, m, d)
    BY <1>1, <1>3 DEF Vouched, Sure
  <2>5. Captures(b, m, now)
    BY <1>3 DEF Captures
  <2>6. Covered(b, m, results, now, past)
    BY <2>3, <2>4, <2>5 DEF Covered
  <2>7. Covered(b, n, results, now, past)
    BY <2>2, <2>6, StaysCovered
  <2> QED
    BY <2>7
<1> QED
  BY <1>2, <1>3, <1>4, <1>5 DEF Knows

LEMMA ProofAcceptedKnows ==
  ASSUME Inv, Stamped, Built, Knows(command), command' # Idle, ProofAccepted
  PROVE  Knows(command)'
<1> PICK c, b : c = command /\ b = command'
  OBVIOUS
<1>1. c \in Commands /\ c # Idle /\ Phased(c) /\ c.phase = "compare"
  BY CommandFacts DEF ProofAccepted, InPhase
<1>2. UNCHANGED <<files, metadata, spool, lived>>
  BY DEF ProofAccepted, Goto, world, store
<1>3. Passed(c) /\ c.goal \in {"accept", "capture", "packet"}
  BY <1>1 DEF Phased, Fresh, Building, GivingUp, Loading, Validating, Passed, Cleaning
<1>4. /\ b.run = c.run
      /\ \/ b.phase = "capture" /\ b.goal = "captured" /\ b.seen = <<>>
         \/ b.phase = "accepted" /\ b.goal = c.goal /\ b.captured = c.captured
  BY <1>1, <1>3 DEF ProofAccepted, Goto, ToObserve, Commands
<1>5. Unlisted(b, lived)
  BY <1>4 DEF Unlisted
<1>6. ASSUME WikiRun(c.run)
      PROVE  Covered(b, Meta, spool[c.run].results, files, lived)
  <2> PICK m, results, now : m = Meta /\ results = spool[c.run].results /\ now = files
    OBVIOUS
  <2>1. Covered(c, m, results, now, lived)
    BY <1>1, <1>3, <1>6, WikiChecks
  <2>2. \A d : ~Checked(b, m, d)
    BY <1>4 DEF Checked
  <2>3. Captures(b, m, now)
    <3>1. CASE b.goal = "captured"
      <4>1. DOMAIN << >> = {}
        OBVIOUS
      <4> QED
        BY <1>3, <1>4, <3>1, <4>1 DEF Captures
    <3>2. CASE b.goal = "packet"
      <4>1. c.goal = "packet" /\ b.captured = c.captured
        BY <1>4, <3>2
      <4>2. \A d \in DOMAIN c.captured \intersect DOMAIN m.identity : c.captured[d] = m.identity[d]
        BY <1>1, <2>1, <4>1 DEF Covered, Captures
      <4>3. DOMAIN c.captured = DOMAIN m.identity
        BY <4>1 DEF ProofAccepted, CapturedAsRecorded
      <4> QED
        BY <3>2, <4>1, <4>2, <4>3 DEF Captures
    <3>3. CASE b.goal \notin {"captured", "packet"}
      BY <3>3 DEF Captures
    <3> QED
      BY <3>1, <3>2, <3>3
  <2>4. Vouched(c)
    BY <1>3 DEF Vouched
  <2> QED
    BY <2>1, <2>2, <2>3, <2>4, MovesCovered
<1> QED
  BY <1>1, <1>2, <1>4, <1>5, <1>6, CoversKnow

LEMMA CapturedKnows ==
  ASSUME Inv, Stamped, Built, Knows(command), command' # Idle, Captured
  PROVE  Knows(command)'
<1> PICK c, b : c = command /\ b = command'
  OBVIOUS
<1>1. c \in Commands /\ c # Idle /\ Phased(c) /\ c.phase = "capture"
  BY CommandFacts DEF Captured, InPhase
<1>2. UNCHANGED <<files, metadata, spool, lived>>
  BY DEF Captured, world, store, history
<1>3. Passed(c) /\ c.goal = "captured"
  BY <1>1 DEF Phased, Fresh, Building, GivingUp, Loading, Validating, Passed, Cleaning
<1>4. b.run = c.run /\ b.phase = "load" /\ b.goal = "packet" /\ b.captured = c.seen
  BY <1>1 DEF Captured, Commands
<1>5. Unlisted(b, lived)
  BY <1>4 DEF Unlisted
<1>6. ASSUME WikiRun(c.run)
      PROVE  Covered(b, Meta, spool[c.run].results, files, lived)
  <2> PICK m, results, now : m = Meta /\ results = spool[c.run].results /\ now = files
    OBVIOUS
  <2>1. Covered(c, m, results, now, lived)
    BY <1>1, <1>3, <1>6, WikiChecks
  <2>2. \A d : ~Checked(b, m, d)
    BY <1>4 DEF Checked
  <2>3. Captures(b, m, now)
    BY <1>3, <1>4, <2>1, <2>2 DEF Covered, Captures
  <2>4. Vouched(c)
    BY <1>3 DEF Vouched
  <2> QED
    BY <2>1, <2>2, <2>3, <2>4, MovesCovered
<1> QED
  BY <1>1, <1>2, <1>4, <1>5, <1>6, CoversKnow

\* A packet validates its proof once more.
LEMMA LoadPacketKnows ==
  ASSUME Inv, Knows(command), command' # Idle, Load, command.goal = "packet"
  PROVE  Knows(command)'
<1> PICK c, b, folders : c = command /\ b = command' /\ folders = Folders(Meta.scope)
  OBVIOUS
<1>1. c \in Commands /\ c # Idle /\ Phased(c) /\ c.phase = "load"
  BY CommandFacts DEF Load, InPhase
<1>2. UNCHANGED <<files, metadata, spool, lived>>
  BY DEF Load, world, store, history
<1>3. c.request = RequestOf(Meta)
  BY <1>1 DEF Phased, Fresh, Cleaning, Meta
<1>4. /\ b.run = c.run /\ b.phase = "observe" /\ b.goal = "packet" /\ b.captured = c.captured
      /\ b.seen = <<>> /\ b.folders = folders /\ b.request = c.request
  BY <1>1 DEF Load, ToObserve, Commands
<1>5. Unlisted(b, lived)
  <2>1. b.request.scope = Meta.scope
    BY <1>3, <1>4 DEF RequestOf
  <2> QED
    BY <1>4, <2>1, ListsAll
<1>6. ASSUME WikiRun(c.run)
      PROVE  Covered(b, Meta, spool[c.run].results, files, lived)
  <2> PICK m, results, now : m = Meta /\ results = spool[c.run].results /\ now = files
    OBVIOUS
  <2>1. Covered(c, m, results, now, lived)
    BY <1>6 DEF Knows, Meta
  <2>2. \A d : ~Checked(b, m, d)
    <3>1. DOMAIN << >> = {}
      OBVIOUS
    <3> QED
      BY <1>4, <3>1 DEF Checked
  <2>3. Captures(b, m, now)
    BY <1>4, <2>1, <2>2 DEF Covered, Captures
  <2>4. Vouched(c)
    BY DEF Vouched
  <2> QED
    BY <2>1, <2>2, <2>3, <2>4, MovesCovered
<1> QED
  BY <1>1, <1>2, <1>4, <1>5, <1>6, CoversKnow

-----------------------------------------------------------------------------
(* What is known lasts.                                                    *)

\* A record that is as a run recorded it was so before the step.
LEMMA RecordsStay ==
  ASSUME Inv, Stamped, [Next]_vars, NEW r \in RunIds, WikiRun(r)
  PROVE  \A d \in DOMAIN metadata[r].identity :
            files'[d] = metadata[r].identity[d] => files[d] = metadata[r].identity[d]
<1> PICK identity : identity = metadata[r].identity
  OBVIOUS
<1> SUFFICES ASSUME NEW d \in DOMAIN identity, files'[d] = identity[d]
             PROVE  files[d] = identity[d]
  OBVIOUS
<1>1. d \in Docs /\ identity[d] \in Documents /\ identity[d].stamp <= edits
  BY DEF Stamped, RecordsWiki, Docs
<1> QED
  BY <1>1, NoReturn

\* Steps that leave the command alone.
LEMMA StaysKnows ==
  ASSUME Inv, Stamped, [Next]_vars, command # Idle, Knows(command), UNCHANGED command,
         lived \subseteq lived', files' \in lived',
         metadata[command.run] = NoMetadata \/ Same(Meta, metadata'[command.run]),
         metadata[command.run] = NoMetadata => metadata'[command.run] = NoMetadata,
         spool'[command.run].results = spool[command.run].results,
         spool'[command.run].candidates = spool[command.run].candidates
  PROVE  Knows(command)'
<1> PICK c, r, m, n, s, t, now, next, past, later :
      /\ c = command /\ r = command.run /\ m = Meta /\ n = metadata'[r] /\ s = spool[r] /\ t = spool'[r]
      /\ now = files /\ next = files' /\ past = lived /\ later = lived'
  OBVIOUS
<1>1. r \in RunIds
  BY CommandFacts
<1>2. Unlisted(c, later)
  BY DEF Knows, Unlisted
<1>3. ASSUME WikiRun(r)'
      PROVE  Progress(c, n, t, next) /\ Covered(c, n, t.results, next, later)
  <2>1. WikiRun(r) /\ Same(m, n)
    BY <1>3 DEF WikiRun, Same, Meta
  <2>2. \A d \in DOMAIN m.identity : next[d] = m.identity[d] => now[d] = m.identity[d]
    BY <1>1, <2>1, RecordsStay DEF Meta
  <2>3. Progress(c, m, s, now) /\ Covered(c, m, s.results, now, past)
    BY <2>1 DEF Knows, Meta
  <2>4. Progress(c, n, t, next)
    BY <2>1, <2>2, <2>3, StaysProgress
  <2>5. Covered(c, n, s.results, next, later)
    BY <2>1, <2>2, <2>3, StaysCovered
  <2> QED
    BY <2>4, <2>5
<1> QED
  BY <1>2, <1>3 DEF Knows

\* Time, damage and editors change nothing that a command knows.
LEMMA OthersKnow ==
  ASSUME Inv, Stamped, [Next]_vars, command # Idle, Knows(command),
         \/ Tick
         \/ \E r \in RunIds : Damage(r)
         \/ \E d \in Records : Edit(d)
         \/ UNCHANGED vars
  PROVE  Knows(command)'
<1> PICK q : q = command.run
  OBVIOUS
<1>0. q \in RunIds /\ files \in lived /\ spool \in [RunIds -> Spools]
  BY CommandFacts DEF Knows, Inv, Typed
<1>a. metadata[q] = NoMetadata \/ Same(Meta, metadata[q])
  BY DEF Same, Meta
<1>1. CASE Tick
  <2>1. UNCHANGED <<files, lived, command, spool>>
    BY <1>1 DEF Tick, world, history
  <2>2. metadata[q] = NoMetadata => metadata'[q] = NoMetadata
    BY <1>0, <1>1, Ticks
  <2>3. metadata[q] = NoMetadata \/ Same(Meta, metadata'[q])
    BY <1>0, <1>1, Ticks DEF Same, Meta
  <2> QED
    BY <1>0, <2>1, <2>2, <2>3, StaysKnows
<1>2. ASSUME NEW r \in RunIds, Damage(r)
      PROVE  Knows(command)'
  <2>1. UNCHANGED <<files, lived, command, metadata>> /\ spool' = [spool EXCEPT ![r].damaged = TRUE]
    BY <1>2 DEF Damage, history, world
  <2>2. spool'[q].results = spool[q].results /\ spool'[q].candidates = spool[q].candidates
    BY <1>0, <2>1 DEF Spools
  <2> QED
    BY <1>0, <1>a, <2>1, <2>2, StaysKnows
<1>3. ASSUME NEW d \in Records, Edit(d)
      PROVE  Knows(command)'
  <2>1. UNCHANGED <<command, metadata, spool>> /\ lived' = lived \union {files'}
    BY <1>3 DEF Edit, store, Lives
  <2> QED
    BY <1>0, <1>a, <2>1, StaysKnows
<1>4. CASE UNCHANGED vars
  <2>1. UNCHANGED <<files, lived, command, metadata, spool>>
    BY <1>4 DEF vars, world, store, history
  <2> QED
    BY <1>0, <1>a, <2>1, StaysKnows
<1> QED
  BY <1>1, <1>2, <1>3, <1>4

-----------------------------------------------------------------------------
(* What is remembered is not younger than the last edit.                   *)

\* What becomes of the documents a command has seen and captured.
LEMMA MemorySteps ==
  ASSUME Inv, [Next]_vars, command' # Idle
  PROVE  /\ \/ command'.seen = <<>>
            \/ command # Idle /\ command'.seen = command.seen
            \/ ObserveOperand /\ command # Idle
         /\ \/ command'.captured = <<>>
            \/ command # Idle /\ command'.captured \in {command.captured, command.seen}
<1>0. command # Idle => command \in Commands
  BY DEF Inv, Typed
<1>1. CASE UNCHANGED command
  BY <1>1
<1>2. ASSUME NEW r \in RunIds,
             \/ Verify(r) \/ BuildPacket(r)
             \/ \E waited \in 0 .. MaxFaults :
                   \/ StartCleanup(r, waited)
                   \/ \E request \in Requests : Start(r, request, waited)
                   \/ \E index \in 1 .. Len(spool[r].index) : Resume(r, index, waited)
      PROVE  command'.seen = <<>> /\ command'.captured = <<>>
  <2>1. PICK op, request, phase, goal, folders, index, time :
           Begin(op, r, request, phase, goal, folders, index, time)
    BY <1>2 DEF Verify, BuildPacket, StartCleanup, Start, Resume
  <2> QED
    BY <2>1 DEF Begin
<1>3. CASE ListFolder \/ Describe \/ FindCandidate \/ FilenamesDone \/ ReadMatches
  BY <1>0, <1>3 DEF ListFolder, Looking, Describe, FindCandidate, FilenamesDone, ReadMatches, InPhase,
     Commands
<1>4. CASE MakeDirectory \/ FillDirectory \/ IndexLastPage \/ CleanUnlinks \/ Validated \/ Serve
  BY <1>0, <1>4 DEF MakeDirectory, FillDirectory, IndexLastPage, CleanUnlinks, Validated, Serve, Observed,
     InPhase, Goto, Commands
<1>5. CASE SpoolLimit \/ RipgrepFails \/ FoundStale
  BY <1>0, <1>5 DEF SpoolLimit, RipgrepFails, FoundStale, End, Abandon, InPhase, Commands
<1>6. CASE Finish \/ Load \/ ProofAccepted
  <2>1. command # Idle
    BY <1>6 DEF Finish, Load, ProofAccepted, InPhase
  <2>2. \/ \E phase, goal, scope : command' = ToObserve(phase, goal, scope)
        \/ \E phase : command' = [command EXCEPT !.phase = phase]
    BY <1>6 DEF Finish, Load, ProofAccepted, Goto
  <2> QED
    BY <1>0, <2>1, <2>2 DEF ToObserve, Commands
<1>7. CASE Captured
  BY <1>0, <1>7 DEF Captured, InPhase, Commands
<1>8. CASE ObserveOperand
  BY <1>0, <1>8 DEF ObserveOperand, Looking, InPhase, Commands
<1> QED
  <2>1. CASE BuildStep
    BY <2>1, <1>3, <1>4, <1>5, <1>6, <1>8 DEF BuildStep, BindFails, GiveUp, End
  <2>2. CASE ServeStep
    BY <2>2, <1>4, <1>5, <1>6 DEF ServeStep, LoadExpired, LoadBlocked, PageLost, OutOfOrder, Return, End
  <2>3. CASE ProofStep
    BY <2>3, <1>6, <1>7 DEF ProofStep, ProofRefused, Use, End
  <2>4. CASE CleanStep
    BY <2>4, <1>4 DEF CleanStep, CleanBlocks, CleanKeeps, Skip, CleanRemoves, End
  <2>5. CASE Stop \/ Tick \/ UNCHANGED vars
    BY <2>5, <1>1 DEF Stop, Tick, vars, End
  <2>6. ASSUME NEW r \in RunIds, Damage(r)
        PROVE  UNCHANGED command
    BY <2>6 DEF Damage
  <2>7. CASE (\E d \in Records : Edit(d)) \/ (\E d \in Extracts : Activate(d))
    BY <2>7, <1>1 DEF Edit, Activate
  <2> QED
    BY <1>1, <1>2, <2>1, <2>2, <2>3, <2>4, <2>5, <2>6, <2>7 DEF Next, CommandStep

\* What a command has seen are documents.
LEMMA SeenTyped ==
  ASSUME NEW seen \in Observations, NEW d \in DOMAIN seen
  PROVE  seen[d] \in Documents /\ seen[d].stamp \in Nat
<1>1. seen[d] \in Documents
  BY DEF Observations
<1> QED
  BY <1>1 DEF Documents

\* No step remembers a document that is younger than the last edit.
LEMMA StampedKeeps ==
  ASSUME Inv, Stamped, [Next]_vars
  PROVE  Stamped'
<1>1. /\ edits <= edits' /\ edits \in Nat /\ edits' \in Nat
      /\ \A d \in Docs : files'[d] # Absent => files'[d].stamp <= edits'
  <2>1. Inv'
    BY NextKeeps
  <2> QED
    BY <2>1, FilesStamped, BoundsAreNaturals DEF Inv, Typed, TypeOK
<1>a. command # Idle => command \in Commands /\ command.seen \in Observations /\ command.captured \in Observations
  BY DEF Inv, Typed, Commands
<1>2. ASSUME NEW r \in RunIds, WikiRun(r)'
      PROVE  /\ RecordsWiki(metadata'[r])
             /\ \A d \in DOMAIN metadata'[r].identity : metadata'[r].identity[d].stamp <= edits'
  <2>1. CASE Describe /\ r = command.run
    <3>1. /\ command # Idle /\ command.phase = "describe" /\ command.run \in RunIds /\ Within(command)
      BY <2>1, CommandFacts DEF Describe, InPhase
    <3> PICK request, seen, waited : request = command.request /\ seen = command.seen /\ waited = command.waited
      OBVIOUS
    <3>2. metadata'[r] = NewMetadata(request, Revision, Identity(request.scope, seen), waited)
      BY <2>1, <3>1 DEF Describe, SaveMetadata, Inv, Typed
    <3>3. metadata'[r].scope = request.scope /\ metadata'[r].identity = Identity(request.scope, seen)
      BY <3>2 DEF NewMetadata
    <3>4. request.scope = "wiki" /\ metadata'[r].identity = seen
      BY <1>2, <3>3 DEF WikiRun, Identity
    <3>5. DOMAIN seen \subseteq Records /\ seen \in Observations
      BY <1>a, <3>1, <3>4 DEF Within, ScopeDocs
    <3>6. \A d \in DOMAIN seen : seen[d] \in Documents /\ seen[d].stamp \in Nat /\ seen[d].stamp <= edits
      BY <3>1, <3>5, SeenTyped DEF Stamped
    <3> QED
      BY <1>1, <3>4, <3>5, <3>6 DEF RecordsWiki
  <2>2. CASE metadata[r] # NoMetadata /\ Same(metadata[r], metadata'[r])
    <3> PICK identity : identity = metadata[r].identity
      OBVIOUS
    <3>1. WikiRun(r) /\ metadata'[r].identity = identity
      BY <1>2, <2>2 DEF WikiRun, Same
    <3>2. /\ DOMAIN identity \subseteq Records
          /\ \A d \in DOMAIN identity : identity[d] \in Documents /\ identity[d].stamp <= edits
      BY <3>1 DEF Stamped, RecordsWiki
    <3>3. \A d \in DOMAIN identity : identity[d].stamp \in Nat
      BY <3>2 DEF Documents
    <3> QED
      BY <1>1, <3>1, <3>2, <3>3 DEF RecordsWiki
  <2> QED
    BY <1>2, <2>1, <2>2, RunSteps DEF WikiRun
<1>b. DOMAIN << >> = {}
  OBVIOUS
<1>c. ASSUME NEW seen, command # Idle, seen \in {command.seen, command.captured}, NEW d \in DOMAIN seen
      PROVE  seen[d].stamp <= edits'
  <2>1. seen[d].stamp \in Nat
    BY <1>a, <1>c, SeenTyped
  <2>2. seen[d].stamp <= edits
    BY <1>c DEF Stamped
  <2> QED
    BY <1>1, <2>1, <2>2
<1>3. ASSUME command' # Idle
      PROVE  \A d \in DOMAIN command'.seen : command'.seen[d].stamp <= edits'
  <2>1. CASE command'.seen = <<>>
    BY <1>b, <2>1
  <2>2. CASE command # Idle /\ command'.seen = command.seen
    BY <1>c, <2>2
  <2>3. CASE ObserveOperand /\ command # Idle
    <3> PICK e, file, seen : e = Min(command.todo) /\ file = files[e] /\ seen = command.seen
      OBVIOUS
    <3>1. e \in Docs
      <4>1. command.todo # {} /\ command.todo \subseteq Docs
        BY <1>a, <2>3 DEF ObserveOperand, Commands
      <4> QED
        BY <4>1, FirstPath
    <3>2. CASE file = Absent
      <4>1. command' = [command EXCEPT !.phase = "vanished", !.todo = {}]
        BY <2>3, <3>2 DEF ObserveOperand
      <4>2. command'.seen = command.seen
        BY <1>a, <2>3, <4>1 DEF Commands
      <4> QED
        BY <1>c, <2>3, <4>2
    <3>3. CASE file # Absent
      <4> PICK s : s = [x \in DOMAIN seen \union {e} |-> IF x = e THEN file ELSE seen[x]]
        OBVIOUS
      <4>1. command' = [command EXCEPT !.todo = @ \ {e}, !.seen = s]
        BY <2>3, <3>3 DEF ObserveOperand
      <4>2. command'.seen = s
        BY <1>a, <2>3, <4>1 DEF Commands
      <4>3. file.stamp <= edits'
        <5>1. UNCHANGED files
          BY <2>3 DEF ObserveOperand, world
        <5> QED
          BY <1>1, <3>1, <3>3, <5>1
      <4>4. \A d \in DOMAIN seen : seen[d].stamp <= edits'
        BY <1>c, <2>3
      <4> QED
        BY <4>2, <4>3, <4>4
    <3> QED
      BY <3>2, <3>3
  <2> QED
    BY <1>3, <2>1, <2>2, <2>3, MemorySteps
<1>4. ASSUME command' # Idle
      PROVE  \A d \in DOMAIN command'.captured : command'.captured[d].stamp <= edits'
  BY <1>4, <1>b, <1>c, MemorySteps
<1> QED
  BY <1>1, <1>2, <1>3, <1>4 DEF Stamped

-----------------------------------------------------------------------------
(* Runs that were built.                                                   *)

\* What is true of a built run is true after any step, and of one that is now built.
LEMMA BuiltKeeps ==
  ASSUME Inv, Moments, [Next]_vars
  PROVE  Built'
<1> SUFFICES ASSUME NEW r \in RunIds, WikiRun(r)', metadata'[r].blocked = "none"
             PROVE  Truthful(metadata'[r], spool'[r].results, files', {})
  BY DEF Built
<1>1. Stamped /\ Built /\ metadata'[r] # NoMetadata /\ metadata'[r].scope = "wiki"
  BY DEF Moments, WikiRun
<1>2. ~(Describe /\ r = command.run)
  <2> SUFFICES ASSUME Describe, r = command.run
               PROVE  FALSE
    OBVIOUS
  <2> PICK request, seen, waited : request = command.request /\ seen = command.seen /\ waited = command.waited
    OBVIOUS
  <2>1. metadata'[r] = NewMetadata(request, Revision, Identity(request.scope, seen), waited)
    BY DEF Describe, SaveMetadata, Inv, Typed
  <2> QED
    BY <2>1 DEF NewMetadata
<1>3. /\ metadata[r] # NoMetadata /\ Same(metadata[r], metadata'[r])
      /\ Unblocks(metadata[r], metadata'[r]) => Finish /\ r = command.run
  BY <1>1, <1>2, RunSteps
<1> PICK m, n, results, now, next : /\ m = metadata[r] /\ n = metadata'[r] /\ now = files /\ next = files'
                                    /\ results = spool[r].results
  OBVIOUS
<1>4. WikiRun(r)
  BY <1>1, <1>3 DEF WikiRun, Same
<1>5. \A d \in DOMAIN m.identity : next[d] = m.identity[d] => now[d] = m.identity[d]
  BY <1>1, <1>4, RecordsStay
<1>6. Truthful(m, results, now, {}) /\ spool'[r].results = results
  <2>1. CASE m.blocked = "none"
    <3>1. Truthful(m, results, now, {})
      BY <1>1, <1>4, <2>1 DEF Built
    <3>2. ~(ReadMatches /\ r = command.run)
      <4> SUFFICES ASSUME ReadMatches, r = command.run
                   PROVE  FALSE
        OBVIOUS
      <4>1. ~m.hashed
        BY BuildingFacts DEF ReadMatches, Meta
      <4> QED
        BY <1>3, <2>1, <4>1 DEF Inv, Sound
    <3> QED
      BY <1>1, <3>1, <3>2, SpoolSteps
  <2>2. CASE m.blocked # "none"
    <3>1. Finish /\ r = command.run
      BY <1>3, <2>2 DEF Unblocks
    <3>2. command # Idle /\ command.phase = "finish" /\ Knows(command) /\ UNCHANGED spool
      BY <3>1 DEF Finish, InPhase, Moments
    <3>3. Progress(command, m, spool[r], now)
      BY <1>4, <3>1, <3>2 DEF Knows
    <3> QED
      BY <3>2, <3>3 DEF Progress
  <2> QED
    BY <2>1, <2>2
<1>7. Truthful(n, results, next, {})
  BY <1>3, <1>5, <1>6, StaysTruthful
<1> QED
  BY <1>6, <1>7

-----------------------------------------------------------------------------
(* Every step.                                                             *)

\* A command knows what it knew, and what the step has shown it.
LEMMA KnowsKeeps ==
  ASSUME Inv, Moments, [Next]_vars, command' # Idle
  PROVE  Knows(command)'
<1>1. Stamped /\ Built /\ (command # Idle => Knows(command))
  BY DEF Moments
<1>2. CASE command = Idle
  <2>1. PICK r \in RunIds :
           \/ Verify(r) \/ BuildPacket(r)
           \/ \E waited \in 0 .. MaxFaults :
                 \/ StartCleanup(r, waited)
                 \/ \E request \in Requests : Start(r, request, waited)
                 \/ \E index \in 1 .. Len(spool[r].index) : Resume(r, index, waited)
    <3>1. ~BuildStep
      BY <1>2 DEF BuildStep, ListFolder, ObserveOperand, Looking, BindFails, MakeDirectory, Observed,
         FillDirectory, Describe, FindCandidate, FilenamesDone, ReadMatches, IndexLastPage, SpoolLimit,
         RipgrepFails, Finish, GiveUp, InPhase
    <3>2. ~ServeStep
      BY <1>2 DEF ServeStep, LoadExpired, LoadBlocked, Load, Validated, Observed, FoundStale, PageLost,
         OutOfOrder, Serve, Return, InPhase
    <3>3. ~ProofStep
      BY <1>2 DEF ProofStep, ProofRefused, ProofAccepted, Captured, Use, InPhase
    <3>4. ~CleanStep
      BY <1>2 DEF CleanStep, CleanBlocks, CleanKeeps, CleanUnlinks, CleanRemoves, InPhase
    <3>5. ~(Stop \/ Tick \/ UNCHANGED vars)
      BY <1>2 DEF Stop, Tick, vars
    <3>6. ~(\E r \in RunIds : Damage(r))
      BY <1>2 DEF Damage
    <3>7. ~((\E d \in Records : Edit(d)) \/ (\E d \in Extracts : Activate(d)))
      BY <1>2 DEF Edit, Activate
    <3> QED
      BY <3>1, <3>2, <3>3, <3>4, <3>5, <3>6, <3>7 DEF Next, CommandStep
  <2>2. CASE Verify(r) \/ BuildPacket(r)
    BY <2>2, BeginsKnow
  <2>3. ASSUME NEW waited \in 0 .. MaxFaults,
               \/ StartCleanup(r, waited)
               \/ \E request \in Requests : Start(r, request, waited)
               \/ \E index \in 1 .. Len(spool[r].index) : Resume(r, index, waited)
        PROVE  Knows(command)'
    BY <2>3, BeginsKnow
  <2> QED
    BY <2>1, <2>2, <2>3
<1>3. CASE command # Idle
  <2>0. Knows(command)
    BY <1>1, <1>3
  <2>1. CASE BuildStep
    <3>1. ~BindFails /\ ~GiveUp
      BY DEF BindFails, GiveUp, End
    <3>2. CASE ListFolder \/ ObserveOperand
      BY <1>1, <2>0, <3>2, ListFolderKnows, ObserveOperandKnows
    <3>3. CASE MakeDirectory \/ FillDirectory \/ SpoolLimit \/ RipgrepFails
      BY <1>3, <2>0, <3>3, PlainSteps
    <3>4. CASE Describe \/ Finish
      BY <1>3, <2>0, <3>4, DescribeKnows, LooksKnow
    <3>5. CASE FindCandidate \/ FilenamesDone
      BY <1>1, <2>0, <3>5, FindCandidateKnows, FilenamesDoneKnows
    <3>6. CASE ReadMatches \/ IndexLastPage
      BY <1>1, <2>0, <3>6, ReadMatchesKnows, IndexLastPageKnows
    <3> QED
      BY <2>1, <3>1, <3>2, <3>3, <3>4, <3>5, <3>6 DEF BuildStep
  <2>2. CASE ServeStep
    <3>1. ~(LoadExpired \/ LoadBlocked \/ PageLost \/ OutOfOrder \/ Return)
      BY DEF LoadExpired, LoadBlocked, PageLost, OutOfOrder, Return, End
    <3>2. CASE Load
      BY <1>3, <2>0, <3>2, LooksKnow, LoadPacketKnows
    <3>3. CASE Validated
      BY <1>1, <2>0, <3>3, ValidatedKnows
    <3>4. CASE FoundStale
      BY <1>3, <2>0, <3>4, PlainSteps
    <3>5. CASE Serve
      BY <2>0, <3>5, ServeKnows
    <3> QED
      BY <2>2, <3>1, <3>2, <3>3, <3>4, <3>5 DEF ServeStep
  <2>3. CASE ProofStep
    <3>1. ~ProofRefused /\ ~Use
      BY DEF ProofRefused, Use, End
    <3> QED
      BY <1>1, <2>0, <2>3, <3>1, ProofAcceptedKnows, CapturedKnows DEF ProofStep
  <2>4. CASE CleanStep
    <3>1. ~(CleanBlocks \/ CleanKeeps \/ CleanRemoves)
      BY DEF CleanBlocks, CleanKeeps, Skip, CleanRemoves, End
    <3> QED
      BY <1>3, <2>0, <2>4, <3>1, PlainSteps DEF CleanStep
  <2>5. ~Stop
    BY DEF Stop, End
  <2>6. CASE Tick \/ (\E r \in RunIds : Damage(r)) \/ (\E d \in Records : Edit(d)) \/ UNCHANGED vars
    BY <1>1, <1>3, <2>0, <2>6, OthersKnow
  <2>7. ASSUME NEW r \in RunIds, NEW waited,
               \/ Verify(r) \/ BuildPacket(r) \/ StartCleanup(r, waited)
               \/ \E request \in Requests : Start(r, request, waited)
               \/ \E index \in 1 .. Len(spool[r].index) : Resume(r, index, waited)
        PROVE  FALSE
    BY <1>3, <2>7 DEF Verify, BuildPacket, StartCleanup, Start, Resume
  <2>8. ~\E d \in Extracts : Activate(d)
    BY <1>3 DEF Activate
  <2> QED
    BY <2>1, <2>2, <2>3, <2>4, <2>5, <2>6, <2>7, <2>8 DEF Next, CommandStep
<1> QED
  BY <1>2, <1>3

\* Moments is an invariant of the specification, with Inv.
LEMMA MomentsInvariant == Spec => [](Inv /\ Moments)
<1>1. Init => Inv /\ Moments
  <2>1. Init => Inv
    BY InitHolds
  <2> SUFFICES ASSUME Init
               PROVE  Moments
    BY <2>1
  <2>2. \A d \in Docs : files[d] # Absent => files[d].stamp <= edits
    BY DEF Init
  <2>3. \A r \in RunIds : ~WikiRun(r)
    BY DEF Init, WikiRun
  <2>4. command = Idle
    BY DEF Init
  <2> QED
    BY <2>2, <2>3, <2>4 DEF Moments, Stamped, Built
<1>2. Inv /\ Moments /\ [Next]_vars => (Inv /\ Moments)'
  <2> SUFFICES ASSUME Inv, Moments, [Next]_vars
               PROVE  (Inv /\ Moments)'
    OBVIOUS
  <2>1. Stamped'
    BY StampedKeeps DEF Moments
  <2> QED
    BY <2>1, NextKeeps, BuiltKeeps, KnowsKeeps DEF Moments
<1> QED
  BY <1>1, <1>2, PTL DEF Spec

-----------------------------------------------------------------------------
(* What is returned or accepted.                                           *)

\* A run that is relied on was as recorded at one moment.
LEMMA ReliedMoment ==
  ASSUME Inv, Moments, Relied, Meta.scope = "wiki"
  PROVE  /\ command.run \in RunIds /\ command.request = RequestOf(Meta)
         /\ \A d \in DOMAIN Meta.identity : Meta.identity[d] \in Documents
         /\ Captures(command, Meta, files)
         /\ \E at \in lived :
               /\ \A d \in DOMAIN Meta.identity :
                     at[d] = Meta.identity[d] /\ Reported(command.run, d) = Expected(Meta, d)
               /\ \A d \in Records \ DOMAIN Meta.identity :
                     Reported(command.run, d) = <<>> /\ (Steady(d) => at[d] = Absent)
<1> PICK c, m, results : c = command /\ m = Meta /\ results = spool[c.run].results
  OBVIOUS
<1>1. c # Idle /\ c.phase \in {"page", "return", "accepted"} /\ c.run \in RunIds /\ Phased(c)
  BY CommandFacts DEF Relied
<1>2. Passed(c) /\ m # NoMetadata /\ c.request = RequestOf(m)
  BY <1>1 DEF Phased, Fresh, Building, GivingUp, Loading, Validating, Passed, Cleaning, Meta
<1>3. WikiRun(c.run) /\ Vouched(c)
  BY <1>2 DEF WikiRun, Vouched, Meta
<1>4. Covered(c, m, results, files, lived) /\ RecordsWiki(m)
  BY <1>1, <1>3 DEF Moments, Knows, Stamped, Meta
<1>5. \A d : Reported(c.run, d) = ReportedIn(results, d)
  BY DEF Reported, ReportedIn
<1>6. \A d : Sure(c, m, d)
  BY <1>3 DEF Sure
<1>7. PICK at \in lived : \A d \in DOMAIN m.identity : at[d] = m.identity[d]
  BY <1>4, <1>6 DEF Covered
<1>8. \A d \in DOMAIN m.identity : Reported(c.run, d) = Expected(m, d)
  BY <1>4, <1>5, <1>6 DEF Covered
<1>9. ASSUME NEW d \in Records \ DOMAIN m.identity
      PROVE  Reported(c.run, d) = <<>> /\ (Steady(d) => at[d] = Absent)
  <2>1. ReportedIn(results, d) = <<>> /\ \E other \in lived : other[d] = Absent
    BY <1>3, <1>4 DEF Covered
  <2> QED
    BY <1>5, <1>7, <2>1 DEF Steady
<1>10. Captures(c, m, files)
  BY <1>4 DEF Covered
<1> QED
  BY <1>1, <1>2, <1>4, <1>7, <1>8, <1>9, <1>10 DEF RecordsWiki

\* Whatever is edited while a run is built and while it is validated, what is
\* returned or accepted of a wiki run was all true at one moment since the command
\* began (_build, validate_current, bind_operands).
THEOREM ServedOneMoment == Spec => []ResultsAreOneMoment
<1>1. Inv /\ Moments => ResultsAreOneMoment
  <2> SUFFICES ASSUME Inv, Moments, Relied, Meta.scope = "wiki"
               PROVE  \E at \in lived : \A d \in Records :
                         /\ Reported(command.run, d) \in {<<>>, HitsAt(Meta, d, at)}
                         /\ Steady(d) => Reported(command.run, d) = HitsAt(Meta, d, at)
    BY DEF ResultsAreOneMoment
  <2> PICK m : m = Meta
    OBVIOUS
  <2>1. PICK at \in lived :
           /\ \A d \in DOMAIN m.identity :
                 at[d] = m.identity[d] /\ Reported(command.run, d) = Expected(m, d)
           /\ \A d \in Records \ DOMAIN m.identity :
                 Reported(command.run, d) = <<>> /\ (Steady(d) => at[d] = Absent)
    BY ReliedMoment
  <2>2. \A d \in DOMAIN m.identity : m.identity[d] # Absent
    BY ReliedMoment, AbsentIsNone
  <2> WITNESS at \in lived
  <2> SUFFICES ASSUME NEW d \in Records
               PROVE  /\ Reported(command.run, d) \in {<<>>, HitsAt(m, d, at)}
                      /\ Steady(d) => Reported(command.run, d) = HitsAt(m, d, at)
    OBVIOUS
  <2>3. CASE d \in DOMAIN m.identity
    <3>1. HitsAt(m, d, at) = Expected(m, d)
      BY <2>1, <2>2, <2>3 DEF HitsAt, Expected
    <3> QED
      BY <2>1, <2>3, <3>1
  <2>4. CASE d \notin DOMAIN m.identity
    BY <2>1, <2>4 DEF HitsAt
  <2> QED
    BY <2>3, <2>4
<1> QED
  BY <1>1, MomentsInvariant, PTL

\* An evidence packet is built from the wiki of one moment, with the matches of that
\* moment, whoever edits between the two validations of the proof and the reading of
\* the records (build_wiki_evidence_packet).
THEOREM PacketOneMoment == Spec => []PacketIsOneMoment
<1>1. Inv /\ Moments => PacketIsOneMoment
  <2> SUFFICES ASSUME Inv, Moments, InPhase("accepted"), command.goal = "packet"
               PROVE  \E at \in lived :
                         /\ \A d \in DOMAIN command.captured : command.captured[d] = at[d]
                         /\ \A d \in Records :
                               /\ Steady(d) /\ at[d] # Absent => d \in DOMAIN command.captured
                               /\ Reported(command.run, d) =
                                     IF d \in DOMAIN command.captured
                                     THEN Hits(d, command.captured[d]) ELSE <<>>
    BY DEF PacketIsOneMoment
  <2> PICK m, captured : m = Meta /\ captured = command.captured
    OBVIOUS
  <2>1. /\ command # Idle /\ command.phase = "accepted" /\ Relied
        /\ command.request = [purpose |-> "search", scope |-> "wiki", excluded |-> {}]
    BY CommandFacts DEF InPhase, Relied, Within
  <2>2. command.request = RequestOf(m)
    BY <2>1, CommandFacts DEF Phased, Fresh, Cleaning, Meta
  <2>3. m.purpose = "search" /\ m.scope = "wiki" /\ m.excluded = {}
    BY <2>1, <2>2 DEF RequestOf
  <2>4. PICK at \in lived :
           /\ \A d \in DOMAIN m.identity :
                 at[d] = m.identity[d] /\ Reported(command.run, d) = Expected(m, d)
           /\ \A d \in Records \ DOMAIN m.identity :
                 Reported(command.run, d) = <<>> /\ (Steady(d) => at[d] = Absent)
    BY <2>1, <2>3, ReliedMoment
  <2>5. Captures(command, m, files)
    BY <2>1, <2>3, ReliedMoment
  <2>6. DOMAIN captured = DOMAIN m.identity /\ \A d \in DOMAIN captured : captured[d] = m.identity[d]
    BY <2>1, <2>5 DEF Captures
  <2>7. \A d \in DOMAIN m.identity : Expected(m, d) = Hits(d, m.identity[d])
    BY <2>3 DEF Expected, Matched
  <2> WITNESS at \in lived
  <2> QED
    BY <2>4, <2>6, <2>7
<1> QED
  BY <1>1, MomentsInvariant, PTL
=============================================================================
