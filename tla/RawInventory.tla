---------------------------- MODULE RawInventory ----------------------------
(***************************************************************************)
(* Reading sources/raw while people work in it: the walk that takes an     *)
(* inventory of the source files, and the later stable use of one of them, *)
(* for its checksum or for an extractor.  Nothing in there is locked.  A   *)
(* reader never opens a path: it opens one entry at a time relative to a   *)
(* directory it has open, remembers what it has seen of each entry, and    *)
(* looks at all of them again, one after the other, before it believes     *)
(* what it has read.                                                       *)
(*                                                                         *)
(* sources/raw has one directory in it that people move about; sources/raw *)
(* itself stays where it is.                                               *)
(***************************************************************************)
EXTENDS Integers, FiniteSets, FiniteSetsExt, SequencesExt

CONSTANTS
    Raw,            \* the directory sources/raw
    Sub,            \* a directory that is in it, or not
    Elsewhere,      \* a directory that is not in sources/raw
    Files, Links,   \* inodes of regular files and of symbolic links
    Names, Ignored, \* names, in the order of a listing; is_ignored_source_path
    Target,         \* what each link says
    Up,             \* ".."
    Trees,          \* what the directories hold before the first command
    None, Idle, AnyStamp,
    MaxLinks,       \* links that are followed before resolution gives up
    MaxEdits        \* bound: changes that people make

Dirs == {Raw, Sub, Elsewhere}
Inodes == Dirs \union Files \union Links

ASSUME BoundsAreNaturals == MaxLinks \in Nat \ {0} /\ MaxEdits \in Nat

ASSUME NamesAreOrdered == Names \subseteq Nat /\ IsFiniteSet(Names) /\ Ignored \subseteq Names

ASSUME InodesAreDistinct ==
    /\ Raw # Sub /\ Elsewhere \notin {Raw, Sub}
    /\ Dirs \intersect Files = {} /\ Dirs \intersect Links = {} /\ Files \intersect Links = {}
    /\ None \notin Inodes \union Names

ASSUME LinksHaveTargets ==
    Target \in [Links -> [absolute : BOOLEAN, inside : BOOLEAN, parts : Seq(Names \union {Up})]]

\* An inode has one place, and a directory is not in itself.
IsTree(tree) ==
    /\ tree \in [Dirs -> [Names -> (Inodes \ {Raw, Elsewhere}) \union {None}]]
    /\ \A dir, other \in Dirs, name, newname \in Names :
          tree[dir][name] = tree[other][newname] /\ tree[dir][name] # None =>
              dir = other /\ name = newname
    /\ \A name \in Names : tree[Sub][name] # Sub

ASSUME TreesAreTrees == \A tree \in Trees : IsTree(tree)

\* What a stat tells of an entry.
Versions == [file : Files, written : 0 .. MaxEdits]

Seen ==
    [dir : Dirs, name : Names, inode : Inodes, stamp : 0 .. MaxEdits,
     version : Versions \union {None}]

ASSUME NothingIsSeen == None \notin Seen

\* Where a source may be: in sources/raw or one directory below.
Paths == {<<n>> : n \in Names} \union (Names \X Names)

VARIABLES
    entry,          \* the inode each name of a directory stands for
    stamp,          \* st_ctime_ns, which every change of an inode and every rename sets
    written,        \* st_size and st_mtime_ns, which change with the bytes
    edits,
    items,          \* the items of the last inventory
    skipped,        \* the paths it has a diagnostic for
    command,        \* the reader that runs, and its memory
    led             \* history: what each path has led to since the reader began

world == <<entry, stamp, written, edits>>
report == <<items, skipped>>
vars == <<world, report, command, led>>

-----------------------------------------------------------------------------
(* What a path means: the file it leads to through directories that are in *)
(* sources/raw and links that stay in it.                                  *)

\* What is left of a link's target, from the directory at the top of the stack.
Follow(tree) ==
    LET follow[stack \in Seq(Dirs), parts \in Seq(Names \union {Up}), links \in 0 .. MaxLinks] ==
            IF parts = <<>> THEN None
            ELSE IF Head(parts) = Up
                 THEN IF Len(stack) = 1 THEN None ELSE follow[Front(stack), Tail(parts), links]
            ELSE IF Head(parts) \in Ignored THEN None
            ELSE LET i == tree[Last(stack)][Head(parts)]
                 IN CASE i \in Files -> IF Len(parts) = 1 THEN i ELSE None
                      [] i \in Dirs -> follow[Append(stack, i), Tail(parts), links]
                      [] i \in Links ->
                            IF links = 0 \/ (Target[i].absolute /\ ~Target[i].inside) THEN None
                            ELSE follow[IF Target[i].absolute THEN <<Raw>> ELSE stack,
                                        Target[i].parts \o Tail(parts), links - 1]
                      [] OTHER -> None
    IN follow

LinkLeadsTo(tree, stack, name) == Follow(tree)[stack, <<name>>, MaxLinks]

\* The last name of a path.
NameLeadsTo(tree, stack, name) ==
    LET i == tree[Last(stack)][name]
    IN IF name \in Ignored \/ i \notin Files \union Links THEN None
       ELSE IF i \in Files THEN i ELSE LinkLeadsTo(tree, stack, name)

LeadsTo(tree, path) ==
    IF Len(path) = 1 THEN NameLeadsTo(tree, <<Raw>>, path[1])
    ELSE IF tree[Raw][path[1]] = Sub /\ path[1] \notin Ignored
         THEN NameLeadsTo(tree, <<Raw, Sub>>, path[2])
    ELSE None

Sight(tree, stamps, path) ==
    LET i == LeadsTo(tree, path) IN IF i = None THEN None ELSE [file |-> i, stamp |-> stamps[i]]

-----------------------------------------------------------------------------
(* What a reader sees, remembers and compares.                             *)

\* Size and modification time tell the bytes of a file: no two files that are in
\* play have the same ones.
Version(file) == [file |-> file, written |-> written[file]]

\* os.stat of a name relative to an open directory.
Stat(dir, name) ==
    LET i == entry[dir][name]
    IN IF i = None THEN None
       ELSE [dir |-> dir, name |-> name, inode |-> i, stamp |-> stamp[i],
             version |-> IF i \in Files THEN Version(i) ELSE None]

\* _DirectoryEdge: only the identity of a directory counts when it is looked at again.
Edge(seen) == [seen EXCEPT !.stamp = AnyStamp]

\* os.fstat of what has been opened, wherever that is by now.
Pinned(seen) == [seen EXCEPT !.dir = None, !.name = None]

\* Mutant: the same inode under the same name is taken for the same file.
UnchangedIdentity(seen) ==
    seen.name # None => entry[seen.dir][seen.name] = seen.inode

\* _same_stat, and for directories _same_directory_identity.
Unchanged(seen) ==
    IF seen.name = None THEN stamp[seen.inode] = seen.stamp
    ELSE /\ entry[seen.dir][seen.name] = seen.inode
         /\ seen.stamp \in {AnyStamp, stamp[seen.inode]}

\* Mutant: where the directories are by now is not looked at.
ChecksOfEntries ==
    <<command.source, Pinned(command.content)>>
        \o (IF command.links = <<>> THEN <<>> ELSE <<command.content>>) \o command.links

\* What _open_content_is_unchanged looks at, in its order.
Checks ==
    command.edges \o command.owned \o <<command.source, Pinned(command.content)>>
        \o (IF command.links = <<>> THEN <<>> ELSE <<command.content>>) \o command.links

InPhase(phase) == command # Idle /\ command.phase = phase

\* The names of the directories that were opened, and the one at hand.
Path == [i \in DOMAIN command.edges |-> command.edges[i].name] \o <<command.source.name>>

DirectoryPath == [i \in DOMAIN command.edges |-> command.edges[i].name]

Goto(phase) == command' = [command EXCEPT !.phase = phase]

-----------------------------------------------------------------------------
TypeOK ==
    /\ IsTree(entry)
    /\ stamp \in [Inodes -> 0 .. MaxEdits]
    /\ written \in [Files -> 0 .. MaxEdits]
    /\ edits \in 0 .. MaxEdits
    /\ skipped \subseteq Paths
    /\ \A item, other \in items : item.path = other.path => item = other
    /\ \A item \in items : item.path \in Paths \ skipped
    /\ command # Idle =>
          /\ Len(command.stack) = Len(command.edges) + 1
          /\ Len(command.links) <= MaxLinks
          /\ {command.at, command.source, command.content} \subseteq Seen \union {None}

Init ==
    /\ entry \in Trees
    /\ stamp = [i \in Inodes |-> 0]
    /\ written = [f \in Files |-> 0]
    /\ edits = 0
    /\ items = {} /\ skipped = {}
    /\ command = Idle
    /\ led = [path \in Paths |-> {}]

-----------------------------------------------------------------------------
(* A reader begins, fails and ends.                                        *)

\* todos: the names of each open directory that are still to be visited; route:
\* what of a given path is still to be opened; at: the entry that was looked at
\* last; links, rstack, pending, owned: the resolution of a link.
Begin(op, phase, route, expected) ==
    /\ command' = [op |-> op, phase |-> phase, stack |-> <<Raw>>, edges |-> <<>>, todos |-> <<{}>>,
                   route |-> route, expected |-> expected, at |-> None,
                   source |-> None, links |-> <<>>, rstack |-> <<>>, pending |-> <<>>,
                   text |-> None, owned |-> <<>>, content |-> None, bytes |-> {}, checks |-> <<>>,
                   round |-> 0]
    /\ led' = [path \in Paths |-> {Sight(entry, stamp, path)}]

\* What a reader forgets when it is done with an entry.
Forget(phase) ==
    [command EXCEPT !.phase = phase, !.at = None, !.source = None, !.links = <<>>, !.rstack = <<>>,
                    !.pending = <<>>, !.text = None, !.owned = <<>>, !.content = None, !.bytes = {},
                    !.checks = <<>>, !.round = 0]

End == command' = Idle /\ led' = [path \in Paths |-> {}]

Skip(path) == skipped' = skipped \union {path}

\* Mutant: an entry that changes under the walk is passed over in silence.
FailSilently ==
    /\ UNCHANGED report
    /\ IF command.op = "walk" THEN command' = Forget("next") /\ UNCHANGED led ELSE End

\* The walk reports the entry and goes on; a stable use is refused.
Fail ==
    /\ UNCHANGED items
    /\ IF command.op = "walk"
       THEN Skip(Path) /\ command' = Forget("next") /\ UNCHANGED led
       ELSE End /\ UNCHANGED skipped

-----------------------------------------------------------------------------
(* The walk: inventory_raw_sources, _walk_raw_directory.                   *)

StartWalk ==
    /\ command = Idle
    /\ items' = {} /\ skipped' = {}
    /\ Begin("walk", "list", <<>>, None)
    /\ UNCHANGED world

ListDirectory ==
    /\ InPhase("list")
    /\ command' = [command EXCEPT !.phase = "next",
                      !.todos[Len(command.todos)] =
                          {n \in Names \ Ignored : entry[Last(command.stack)][n] # None}]
    /\ UNCHANGED <<world, report, led>>

\* The directory is not where it was when it was opened: it is not even listed.
DirectoryMoved ==
    /\ InPhase("check") /\ command.checks # <<>> /\ command.round = 0
    /\ ~Unchanged(Head(command.checks))
    /\ Skip(DirectoryPath)
    /\ command' = [Forget("next") EXCEPT !.stack = Front(@), !.edges = Front(@), !.todos = Front(@)]
    /\ UNCHANGED <<world, items, led>>

Todo == Last(command.todos)

NextEntry ==
    /\ InPhase("next") /\ Todo # {}
    /\ LET name == Min(Todo)
           seen == Stat(Last(command.stack), name)
           left == [command EXCEPT !.todos[Len(command.todos)] = @ \ {name}]
       IN IF seen = None
          THEN Skip(Append(DirectoryPath, name)) /\ command' = left
          ELSE /\ command' = [left EXCEPT !.phase = "open", !.at = seen, !.source = seen]
               /\ UNCHANGED skipped
    /\ UNCHANGED <<world, items, led>>

LeaveDirectory ==
    /\ InPhase("next") /\ command.op = "walk"
    /\ Todo = {}
    /\ command' = IF Len(command.stack) = 1 THEN [command EXCEPT !.phase = "reported"]
                  ELSE [command EXCEPT !.stack = Front(@), !.edges = Front(@), !.todos = Front(@)]
    /\ UNCHANGED <<world, report, led>>

\* The report is handed over; what was skipped is of no use later.
EndWalk ==
    /\ InPhase("reported")
    /\ End
    /\ skipped' = {}
    /\ UNCHANGED <<world, items>>

-----------------------------------------------------------------------------
(* The stable use of one file: use_stable_file.                            *)

\* expected: the inventory item it is used for, or None for a piece of evidence,
\* whose namespace has no links; _validate_snapshot_request refuses ignored paths.
StartUse(path, expected) ==
    /\ command = Idle
    /\ Range(path) \intersect Ignored = {}
    /\ expected # None => expected.path = path
    /\ Begin("use", "route", path, expected)
    /\ UNCHANGED <<world, report>>

NextComponent ==
    /\ InPhase("route")
    /\ LET seen == Stat(Last(command.stack), Head(command.route))
       IN IF seen = None THEN End
          ELSE /\ command' = [command EXCEPT !.phase = "open", !.at = seen, !.source = seen,
                                 !.route = Tail(@)]
               /\ UNCHANGED led
    /\ UNCHANGED <<world, report>>

-----------------------------------------------------------------------------
(* Opening what was looked at.                                             *)

At == command.at

\* O_NOFOLLOW, and the inode opened has to be the one that was looked at.
StillAt == Stat(At.dir, At.name) = At

Resolving == command.links # <<>>

MayEnter ==
    IF Resolving THEN command.pending # <<>>
    ELSE command.op = "walk" \/ command.route # <<>>

AllowAlias == command.op = "walk" \/ command.expected # None

MayRead ==
    IF Resolving THEN command.pending = <<>>
    ELSE command.op = "walk" \/ command.route = <<>>

\* Mutant: the item of the inventory only says which path it is.
MatchesPath(seen) == seen.inode \in Files

\* _stat_matches_fingerprint
Matches(seen) == command.expected # None => seen.version = command.expected.version

\* Mutant: links are followed for ever.
MayFollowAny == AllowAlias /\ (Resolving \/ MayRead)

\* A link may be the last component of a path, and is counted.
MayFollow == AllowAlias /\ (Resolving \/ MayRead) /\ Len(command.links) < MaxLinks

\* _open_directory_entry and _capture_directory_edge
OpenDirectory ==
    /\ InPhase("open")
    /\ At.inode \in Dirs /\ MayEnter /\ StillAt
    /\ command' =
           IF Resolving
           THEN [command EXCEPT !.phase = "resolve", !.rstack = Append(@, At.inode),
                                !.owned = Append(@, Edge(At))]
           ELSE LET entered == [Forget("route") EXCEPT !.stack = Append(@, At.inode),
                                  !.edges = Append(@, Edge(At)), !.todos = Append(@, {})]
                IN IF command.op = "use" THEN entered
                   ELSE [entered EXCEPT !.phase = "check", !.checks = entered.edges]
    /\ UNCHANGED <<world, report, led>>

\* _open_regular_entry
OpenFile ==
    /\ InPhase("open")
    /\ At.inode \in Files /\ MayRead /\ StillAt /\ Matches(At)
    /\ command' = [command EXCEPT !.phase = "opened", !.content = At]
    /\ UNCHANGED <<world, report, led>>

\* _read_stable_link: the text of the link that is there now, ...
ReadLink ==
    /\ InPhase("open")
    /\ At.inode \in Links /\ MayFollow
    /\ entry[At.dir][At.name] \in Links
    /\ command' = [command EXCEPT !.phase = "linked", !.text = Target[entry[At.dir][At.name]]]
    /\ UNCHANGED <<world, report, led>>

\* _link_target_components: an absolute target has to be in sources/raw, from
\* where it is resolved; others are resolved from the directory of the link.
StaysInside(text) == text.absolute => text.inside

StartOf(text) ==
    IF text.absolute THEN <<Raw>> ELSE IF Resolving THEN command.rstack ELSE command.stack

\* ... if it is still the one that was looked at.
ResolveLink ==
    /\ InPhase("linked") /\ StillAt
    /\ StaysInside(command.text)
    /\ command' = [command EXCEPT !.phase = "resolve", !.text = None,
                      !.links = Append(@, At), !.pending = command.text.parts \o @,
                      !.rstack = StartOf(command.text)]
    /\ UNCHANGED <<world, report, led>>

LinkRefused ==
    /\ InPhase("linked")
    /\ ~StillAt \/ ~StaysInside(command.text)
    /\ Fail
    /\ UNCHANGED world

CannotOpen ==
    /\ InPhase("open")
    /\ \/ At.inode \in Dirs /\ ~(MayEnter /\ StillAt)
       \/ At.inode \in Files /\ ~(MayRead /\ StillAt /\ Matches(At))
       \/ At.inode \in Links /\ ~(MayFollow /\ entry[At.dir][At.name] \in Links)
    /\ Fail
    /\ UNCHANGED world

-----------------------------------------------------------------------------
(* The resolution of a link, one component at a time: _open_symlink_target. *)

Component == Head(command.pending)

ResolveUp ==
    /\ InPhase("resolve")
    /\ command.pending # <<>> /\ Component = Up
    /\ Len(command.rstack) > 1
    /\ command' = [command EXCEPT !.rstack = Front(@), !.pending = Tail(@)]
    /\ UNCHANGED <<world, report, led>>

ResolveName ==
    /\ InPhase("resolve")
    /\ command.pending # <<>> /\ Component \in Names \ Ignored
    /\ LET seen == Stat(Last(command.rstack), Component)
       IN /\ seen # None
          /\ command' = [command EXCEPT !.phase = "open", !.at = seen, !.pending = Tail(@)]
    /\ UNCHANGED <<world, report, led>>

\* The link escapes, names something ignored or absent, or leads to a directory.
ResolveFails ==
    /\ InPhase("resolve")
    /\ command.pending # <<>> =>
          \/ Component = Up /\ Len(command.rstack) = 1
          \/ Component \in Ignored
          \/ Component \in Names /\ Stat(Last(command.rstack), Component) = None
    /\ Fail
    /\ UNCHANGED world

-----------------------------------------------------------------------------
(* Validation, reading and what comes of it.                               *)

BeginChecks ==
    /\ InPhase("opened") \/ InPhase("read")
    /\ command' = [command EXCEPT !.phase = "check", !.checks = Checks, !.round = @ + 1]
    /\ UNCHANGED <<world, report, led>>

CheckHolds ==
    /\ InPhase("check") /\ command.checks # <<>>
    /\ Unchanged(Head(command.checks))
    /\ command' = [command EXCEPT !.checks = Tail(@)]
    /\ UNCHANGED <<world, report, led>>

CheckFails ==
    /\ InPhase("check") /\ command.checks # <<>> /\ command.round > 0
    /\ ~Unchanged(Head(command.checks))
    /\ Fail
    /\ UNCHANGED world

\* A walk reads between two validations, a stable use is validated again after
\* the callback.
Rounds == IF command.op = "walk" THEN 2 ELSE 3

Checked ==
    /\ InPhase("check") /\ command.checks = <<>>
    /\ Goto(IF command.round = 0 THEN "list" ELSE IF command.round < Rounds THEN "reading" ELSE "accepted")
    /\ UNCHANGED <<world, report, led>>

\* Detection and the parsing of a descriptor, the digest, and the callback each
\* read more than once.
Read ==
    /\ InPhase("reading") \/ InPhase("read")
    /\ command' = [command EXCEPT !.bytes = @ \union {Version(command.content.inode)},
                                  !.phase = "read"]
    /\ UNCHANGED <<world, report, led>>

\* The detector, the descriptor's parser, the digest or the callback fails.
ReadFails ==
    /\ InPhase("reading")
    /\ Fail
    /\ UNCHANGED world

AddItem ==
    /\ InPhase("accepted") /\ command.op = "walk"
    /\ items' = items \union
          {[path |-> Path, version |-> command.content.version, bytes |-> command.bytes]}
    /\ command' = Forget("next")
    /\ UNCHANGED <<world, skipped, led>>

EndUse ==
    /\ InPhase("accepted") /\ command.op = "use"
    /\ End
    /\ UNCHANGED <<world, report>>

-----------------------------------------------------------------------------
(* People at work in the file system.                                      *)

\* Before the first command everything is as in one of Trees.
MayEdit == edits < MaxEdits /\ (command # Idle \/ items # {})

Lives ==
    led' = IF command = Idle THEN led
           ELSE [path \in Paths |-> led[path] \union {Sight(entry', stamp', path)}]

Change(inodes) == stamp' = [i \in Inodes |-> IF i \in inodes THEN edits + 1 ELSE stamp[i]]

Write(file) ==
    /\ MayEdit
    /\ written' = [written EXCEPT ![file] = edits + 1]
    /\ Change({file})
    /\ edits' = edits + 1
    /\ UNCHANGED <<entry, report, command>>
    /\ Lives

\* rename: also to and from other places, which is how things come and go; what
\* moves between other places is not in play.
Move(from, name, to, newname) ==
    LET i == entry[from][name]
        old == entry[to][newname]
    IN /\ MayEdit
       /\ from # Elsewhere \/ to # Elsewhere
       /\ i # None /\ i # old
       /\ i \in Dirs => old = None /\ to # i
       /\ old \notin Dirs
       /\ entry' = [[entry EXCEPT ![from][name] = None] EXCEPT ![to][newname] = i]
       /\ Change({i, old, from, to})
       /\ edits' = edits + 1
       /\ UNCHANGED <<written, report, command>>
       /\ Lives

-----------------------------------------------------------------------------
WalkStep == ListDirectory \/ DirectoryMoved \/ NextEntry \/ LeaveDirectory \/ EndWalk \/ AddItem

OpenStep ==
    \/ NextComponent \/ OpenDirectory \/ OpenFile \/ ReadLink \/ ResolveLink \/ LinkRefused
    \/ CannotOpen \/ ResolveUp \/ ResolveName \/ ResolveFails

ReadStep == BeginChecks \/ CheckHolds \/ CheckFails \/ Checked \/ Read \/ ReadFails \/ EndUse

Next ==
    \/ StartWalk \/ WalkStep \/ OpenStep \/ ReadStep
    \/ \E path \in Paths, expected \in items \union {None} : StartUse(path, expected)
    \/ \E file \in Files : Write(file)
    \/ \E from, to \in Dirs, name, newname \in Names : Move(from, name, to, newname)

Spec == Init /\ [][Next]_vars

-----------------------------------------------------------------------------
(* Properties.                                                             *)

Accepted == InPhase("accepted")

\* The path and its links pass through the directory under one name only.
OneWay == \A one, other \in Range(command.edges \o command.owned) : one = other

\* A file is accepted only when the path led to it, in the version that was read,
\* through directories and links of sources/raw, at one moment since the reader
\* began: however entries, links and the directory are moved, replaced and put
\* back meanwhile, nothing from elsewhere is taken for a source
\* (_open_content_is_unchanged, _open_symlink_target).  A directory is compared by
\* its identity alone: one that the path passes under two names can be at the
\* first when that is looked at and at the second when that is, and the path then
\* never led to the file.
AcceptedWasThere ==
    Accepted /\ OneWay =>
        [file |-> command.content.inode, stamp |-> command.content.stamp] \in led[Path]

\* The media type, the descriptor, the digest and what an extractor was given are
\* all of one version of one file, and it is the version the fingerprint is of
\* (use_stable_file, _inventory_open_content).
BytesAreOneVersion == Accepted => command.bytes = {command.content.version}

\* A checksum or an extraction that is made for an inventory item is of the bytes
\* whose media type the inventory has (hash_inventory_item).
UsedIsInventoried ==
    Accepted /\ command.expected # None => command.bytes = command.expected.bytes

\* _path_is_obscured
Obscured(path) == \E i \in DOMAIN path : SubSeq(path, 1, i) \in skipped

\* A source whose path has led to a file all through the walk, and be it to others
\* in turn, is in the report, as an item or under a diagnostic, whatever else
\* changes: it is never taken for missing (_walk_raw_directory, missing_records of
\* sync).
PresentIsAccounted ==
    InPhase("reported") =>
        \A path \in Paths :
            None \notin led[path] => Obscured(path) \/ \E item \in items : item.path = path
=============================================================================
