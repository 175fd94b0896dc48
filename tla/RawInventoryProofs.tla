------------------------- MODULE RawInventoryProofs -------------------------
(***************************************************************************)
(* Theorems about RawInventory, for any trees, names, files, links and     *)
(* bounds.                                                                 *)
(*                                                                         *)
(* Inv says of a reader where it is (Placed), what it looks at (Looking)   *)
(* and what it has read (Reading), and of a walk which paths it still has  *)
(* to report (Ahead): every other path is in the report or has not led to  *)
(* a file at some moment since the walk began (Walked).                    *)
(***************************************************************************)
EXTENDS RawInventory, SelectionProofs, SequenceTheorems

\* What is kept of what os.stat tells of a name, and what the inventory has.
Kept ==
    [dir : Dirs \union {None}, name : Names \union {None}, inode : Inodes,
     stamp : 0 .. MaxEdits \union {AnyStamp}, version : Versions \union {None}]

Edges == [dir : Dirs, name : Names, inode : Inodes, stamp : {AnyStamp},
          version : Versions \union {None}]

Items == [path : Paths, version : Versions, bytes : SUBSET Versions]

Says == [absolute : BOOLEAN, inside : BOOLEAN, parts : Seq(Names \union {Up})]

Phases ==
    {"list", "next", "route", "open", "linked", "resolve", "opened", "check", "reading", "read",
     "accepted", "reported"}

\* A reader and what it remembers.
Commands ==
    [op : {"walk", "use"}, phase : Phases, stack : Seq(Dirs), edges : Seq(Edges),
     todos : Seq(SUBSET Names), route : Seq(Names), expected : Items \union {None},
     at : Seen \union {None}, source : Seen \union {None}, links : Seq(Seen),
     rstack : Seq(Dirs), pending : Seq(Names \union {Up}), text : Says \union {None},
     owned : Seq(Edges), content : Seen \union {None}, bytes : SUBSET Versions,
     checks : Seq(Kept), round : Nat]

Typed ==
    /\ IsTree(entry)
    /\ stamp \in [Inodes -> 0 .. MaxEdits] /\ written \in [Files -> 0 .. MaxEdits]
    /\ edits \in 0 .. MaxEdits
    /\ \A i \in Inodes : stamp[i] <= edits
    /\ items \subseteq Items /\ skipped \subseteq Paths
    /\ command # Idle => command \in Commands

\* What is in the report is there once, and its bytes are what its fingerprint is of.
Reported ==
    /\ \A item, other \in items : item.path = other.path => item = other
    /\ \A item \in items : item.path \notin skipped /\ item.bytes = {item.version}

-----------------------------------------------------------------------------
(* The phases of a reader.                                                 *)

\* It looks at a directory it has just opened, before it lists it.
Entering(c) == c.phase = "check" /\ c.round = 0

\* It is between two entries, ...
Between(c) == c.phase \in {"list", "next", "route", "reported"} \/ Entering(c)

\* ... at one of them, ...
Seeking(c) == c.phase \in {"open", "linked", "resolve"}

\* ... or has its file open.
Holding(c) ==
    c.phase \in {"opened", "reading", "read", "accepted"} \/ (c.phase = "check" /\ c.round > 0)

Busy(c) == Seeking(c) \/ Holding(c)

\* Where it is.
Placed(c) ==
    /\ Len(c.edges) <= 1
    /\ Len(c.stack) = Len(c.edges) + 1 /\ Len(c.todos) = Len(c.edges) + 1
    /\ c.stack[1] = Raw /\ (Len(c.edges) = 1 => c.stack[2] = Sub)
    /\ c.phase \in {"list", "next", "reported"} \/ Entering(c) => c.op = "walk"
    /\ c.phase = "route" => c.op = "use" /\ c.route # <<>>
    /\ Entering(c) => Len(c.edges) = 1
    /\ c.phase = "reported" => Len(c.edges) = 0 /\ c.todos[1] = {}

\* What it looks at.
Looking(c) ==
    /\ Busy(c) =>
          /\ c.source \in Seen /\ c.source.dir = Last(c.stack)
          /\ (c.phase = "open" /\ c.links = <<>>) \/ c.source.inode # Sub
    /\ c.phase \in {"open", "linked"} =>
          /\ c.at \in Seen
          /\ c.at.inode \in Dirs => c.at.inode = Sub /\ c.at.dir # Sub
          /\ c.links = <<>> => c.at = c.source
    /\ c.phase = "linked" =>
          /\ Len(c.links) < MaxLinks /\ c.text \in Says
          /\ c.links = <<>> => c.source.inode # Sub
    /\ Len(c.links) <= MaxLinks
    /\ c.phase = "resolve" => c.links # <<>>
    /\ Seeking(c) /\ c.links # <<>> => c.rstack # <<>>
    /\ Between(c) => c.links = <<>>

\* What it reads: as long as the stamp of the file is as it was, so are its bytes.
Reading(c) ==
    /\ Between(c) \/ Seeking(c) \/ c.phase = "opened" => c.bytes = {} /\ c.round = 0
    /\ c.expected # None => c.expected \in Items /\ c.expected.bytes = {c.expected.version}
    /\ Holding(c) =>
          /\ c.content \in Seen /\ c.content.inode \in Files /\ c.content.version \in Versions
          /\ c.content.stamp <= edits
          /\ stamp[c.content.inode] = c.content.stamp =>
                c.content.version = Version(c.content.inode) /\ c.bytes \subseteq {c.content.version}
          /\ c.expected # None => c.content.version = c.expected.version
    /\ c.phase \in {"reading", "read"} => c.round > 0
    /\ c.phase = "read" \/ (c.phase = "check" /\ c.round > 1) => c.bytes # {}
    /\ c.phase = "check" /\ c.round > 0 =>
          \/ c.bytes \subseteq {c.content.version}
          \/ \E i \in DOMAIN c.checks : c.checks[i] = Pinned(c.content)
    /\ c.phase = "accepted" => c.bytes = {c.content.version}

-----------------------------------------------------------------------------
(* How far a walk has come.                                                *)

\* A path that is still to be reported.
Ahead(c, p) ==
    \/ c.phase = "list" /\ Len(c.edges) = 0
    \/ p[1] \in c.todos[1]
    \/ Len(c.edges) = 0 /\ Busy(c) /\ p[1] = c.source.name
    \/ /\ Len(c.edges) = 1 /\ p[1] = c.edges[1].name
       /\ \/ Len(p) = 1
          \/ c.phase = "list" \/ Entering(c)
          \/ p[2] \in c.todos[2]
          \/ Busy(c) /\ p[2] = c.source.name

Accounted(p) == Obscured(p) \/ \E item \in items : item.path = p

\* A path never led to a file while it named the directory, nor one below while it
\* did not.
Misled(c) ==
    /\ Len(c.edges) = 1 =>
          c.edges[1].name \notin c.todos[1] /\ None \in led[<<c.edges[1].name>>]
    /\ Busy(c) => c.source.name \notin Last(c.todos)
    /\ Busy(c) /\ Len(c.edges) = 0 =>
          IF c.source.inode = Sub THEN None \in led[<<c.source.name>>]
          ELSE \A m \in Names : None \in led[<<c.source.name, m>>]

Walked(c) ==
    /\ \A p \in Paths : Ahead(c, p) => p \notin skipped /\ \A item \in items : item.path # p
    /\ \A p \in Paths : Ahead(c, p) \/ None \in led[p] \/ Accounted(p)
    /\ Misled(c)

Knows(c) ==
    /\ Placed(c) /\ Looking(c) /\ Reading(c)
    /\ \A p \in Paths : Sight(entry, stamp, p) \in led[p]
    /\ c.op = "walk" => Walked(c)

Inv == Typed /\ Reported /\ (command # Idle => Knows(command))
-----------------------------------------------------------------------------
(* What the model's operators yield.                                       *)

\* Nobody reads and nothing is reported.
LEMMA InitHolds == Init => Inv
<1> SUFFICES ASSUME Init
             PROVE  Inv
  OBVIOUS
<1>1. Typed
  BY BoundsAreNaturals, TreesAreTrees DEF Init, Typed
<1> QED
  BY <1>1 DEF Init, Inv, Reported

\* The least of the names that are left is one of them.
LEMMA NextName ==
  ASSUME NEW T \in SUBSET Names, T # {}
  PROVE  Min(T) \in T
<1>1. T \in SUBSET Nat
  BY NamesAreOrdered
<1>2. PICK n \in T : \A m \in T : ~ (m < n)
  BY <1>1, LeastElement
<1>3. \E x \in T : \A y \in T : x <= y
  BY <1>1, <1>2
<1> QED
  BY <1>3 DEF Min

\* What a stat yields.
LEMMA StatSeen ==
  ASSUME Typed, NEW dir \in Dirs, NEW name \in Names,
         NEW seen, seen = Stat(dir, name), seen # None
  PROVE  /\ seen \in Seen /\ seen.dir = dir /\ seen.name = name
         /\ seen.inode = entry[dir][name] /\ seen.inode # None /\ seen.stamp = stamp[seen.inode]
         /\ seen.inode \in Dirs => seen.inode = Sub /\ seen.dir # Sub
         /\ seen.inode \in Files => seen.version = Version(seen.inode) /\ seen.version \in Versions
<1> DEFINE i == entry[dir][name]
<1>1. i # None
  BY DEF Stat
<1>2. i \in Inodes \ {Raw, Elsewhere} /\ (dir = Sub => i # Sub)
  BY <1>1 DEF Typed, IsTree
<1>3. seen = [dir |-> dir, name |-> name, inode |-> i, stamp |-> stamp[i],
              version |-> IF i \in Files THEN Version(i) ELSE None]
  BY <1>1 DEF Stat
<1>4. i \in Files => Version(i) \in Versions
  BY DEF Version, Versions, Typed
<1> QED
  BY <1>1, <1>2, <1>3, <1>4 DEF Seen, Typed, Dirs, Inodes

\* Joined, two sequences of one element are one of two.
LEMMA TwoNames ==
  ASSUME NEW a, NEW b
  PROVE  <<a>> \o <<b>> = <<a, b>>
<1> DEFINE S == {a, b}
<1>1. <<a>> \in Seq(S) /\ <<b>> \in Seq(S) /\ <<a, b>> \in Seq(S)
  OBVIOUS
<1>2. /\ <<a>> \o <<b>> \in Seq(S) /\ Len(<<a>> \o <<b>>) = 2
      /\ (<<a>> \o <<b>>)[1] = a /\ (<<a>> \o <<b>>)[2] = b
  BY <1>1, ConcatProperties
<1>3. /\ Len(<<a>> \o <<b>>) = Len(<<a, b>>)
      /\ \A i \in 1 .. Len(<<a>> \o <<b>>) : (<<a>> \o <<b>>)[i] = <<a, b>>[i]
  BY <1>2
<1> QED
  BY <1>1, <1>2, <1>3, SeqEqual, Zenon

\* The path of an entry in sources/raw, and of one in the directory below.
LEMMA PathIs ==
  ASSUME command \in Commands, Placed(command), command.source \in Seen
  PROVE  /\ Len(command.edges) = 0 => Path = <<command.source.name>>
         /\ Len(command.edges) = 1 => Path = <<command.edges[1].name, command.source.name>>
         /\ Path \in Paths
<1> PICK e, n : e = command.edges /\ n = command.source.name
  OBVIOUS
<1>1. e \in Seq(Edges) /\ n \in Names
  BY DEF Commands, Seen
<1>2. Len(e) = 0 \/ Len(e) = 1
  <2>1. Len(e) \in Nat
    BY <1>1, LenProperties
  <2>2. Len(command.edges) <= 1
    BY Zenon DEF Placed
  <2>3. Len(e) <= 1
    BY <2>2, Zenon
  <2>4. PICK k : k = Len(e)
    OBVIOUS
  <2>5. k \in Nat /\ k <= 1
    BY <2>1, <2>3, <2>4, Zenon
  <2>6. k = 0 \/ k = 1
    BY <2>5
  <2> QED
    BY <2>4, <2>6, Zenon
<1>3. CASE Len(e) = 0
  <2>1. [i \in DOMAIN e |-> e[i].name] = <<>>
    BY <1>1, <1>3
  <2>2. Path = <<>> \o <<n>>
    BY <2>1, Zenon DEF Path
  <2>3. Path = <<n>>
    BY <2>2
  <2> QED
    BY <1>1, <1>3, <2>3 DEF Paths
<1>4. CASE Len(e) = 1
  <2>1. e[1] \in Edges
    BY <1>1, <1>4, ElementOfSeq
  <2>2. [i \in DOMAIN e |-> e[i].name] = <<e[1].name>>
    BY <1>1, <1>4
  <2>3. Path = <<e[1].name>> \o <<n>>
    BY <2>2, Zenon DEF Path
  <2>4. Path = <<e[1].name, n>>
    BY <2>3, TwoNames
  <2> QED
    BY <1>1, <1>4, <2>1, <2>4 DEF Paths, Edges
<1> QED
  BY <1>2, <1>3, <1>4

\* The path of the directory at hand.
LEMMA DirectoryPathIs ==
  ASSUME command \in Commands, Placed(command)
  PROVE  /\ Len(command.edges) = 0 => DirectoryPath = <<>>
         /\ Len(command.edges) = 1 =>
               DirectoryPath = <<command.edges[1].name>> /\ command.edges[1].name \in Names
<1> PICK e : e = command.edges
  OBVIOUS
<1>1. e \in Seq(Edges)
  BY DEF Commands
<1>2. ASSUME Len(e) = 0
      PROVE  DirectoryPath = <<>>
  BY <1>1, <1>2 DEF DirectoryPath
<1>3. ASSUME Len(e) = 1
      PROVE  DirectoryPath = <<e[1].name>> /\ e[1].name \in Names
  <2>1. e[1] \in Edges
    BY <1>1, <1>3, ElementOfSeq
  <2>2. [i \in DOMAIN e |-> e[i].name] = <<e[1].name>>
    BY <1>1, <1>3
  <2> QED
    BY <2>1, <2>2 DEF DirectoryPath, Edges
<1> QED
  BY <1>2, <1>3

\* A tuple has elements.
LEMMA NotEmpty ==
  ASSUME NEW a, NEW b
  PROVE  <<a>> # <<>> /\ <<a, b>> # <<>>
<1>1. Len(<<a>>) = 1 /\ Len(<<a, b>>) = 2 /\ Len(<<>>) = 0
  OBVIOUS
<1> QED
  BY <1>1

\* A stack of two or more directories keeps the first one.
LEMMA FrontOf ==
  ASSUME NEW S, NEW s \in Seq(S), Len(s) > 1
  PROVE  Front(s) \in Seq(S) /\ Front(s) # <<>>
<1>1. Len(s) \in Nat /\ \A i \in 1 .. Len(s) - 1 : s[i] \in S
  OBVIOUS
<1>2. Front(s) \in Seq(S) /\ Len(Front(s)) = Len(s) - 1
  BY <1>1, SubSeqProperties DEF Front
<1> QED
  BY <1>1, <1>2

\* What is on top of a stack is one of its elements.
LEMMA LastOf ==
  ASSUME NEW S, NEW s \in Seq(S), s # <<>>
  PROVE  Last(s) \in S
<1>1. Len(s) \in 1 .. Len(s)
  BY EmptySeq
<1> QED
  BY <1>1, ElementOfSeq DEF Last

\* What a sequence begins with.
LEMMA FirstOf ==
  ASSUME NEW S, NEW s \in Seq(S), Len(s) > 0
  PROVE  SubSeq(s, 1, 1) = <<s[1]>>
<1>1. \A i \in 1 .. 1 : s[i] \in S
  OBVIOUS
<1>2. /\ SubSeq(s, 1, 1) \in Seq(S) /\ Len(SubSeq(s, 1, 1)) = 1
      /\ SubSeq(s, 1, 1)[1] = s[1]
  BY <1>1, SubSeqProperties
<1>3. <<s[1]>> \in Seq(S) /\ Len(<<s[1]>>) = 1 /\ <<s[1]>>[1] = s[1]
  BY <1>1
<1>4. \A i \in 1 .. Len(SubSeq(s, 1, 1)) : SubSeq(s, 1, 1)[i] = <<s[1]>>[i]
  BY <1>2, <1>3
<1> QED
  BY <1>2, <1>3, <1>4, SeqEqual, Zenon

\* What tuples of one and of two are made of.
LEMMA Tuples ==
  ASSUME NEW a, NEW b
  PROVE  /\ Len(<<a>>) = 1 /\ <<a>>[1] = a
         /\ Len(<<a, b>>) = 2 /\ <<a, b>>[1] = a /\ <<a, b>>[2] = b
         /\ Append(<<>>, a) = <<a>> /\ Append(<<a>>, b) = <<a, b>>
<1> DEFINE S == {a, b}
<1>1. <<>> \in Seq(S) /\ <<a>> \in Seq(S) /\ a \in S /\ b \in S
  OBVIOUS
<1>2. <<>> \o <<a>> = <<a>>
  BY <1>1, ConcatEmptySeq
<1>3. Append(<<>>, a) = <<a>> /\ Append(<<a>>, b) = <<a, b>>
  BY <1>1, <1>2, AppendIsConcat, TwoNames
<1> QED
  BY <1>3

\* A path is one name or two.
LEMMA PathParts ==
  ASSUME NEW p \in Paths
  PROVE  /\ p[1] \in Names /\ p \in Seq(Names) /\ p # <<>>
         /\ \/ Len(p) = 1 /\ p = <<p[1]>>
            \/ Len(p) = 2 /\ p = <<p[1], p[2]>> /\ p[2] \in Names
         /\ 1 \in DOMAIN p /\ SubSeq(p, 1, 1) = <<p[1]>>
         /\ Len(p) \in DOMAIN p /\ SubSeq(p, 1, Len(p)) = p
<1>1. CASE p \in {<<n>> : n \in Names}
  <2>1. PICK n \in Names : p = <<n>>
    BY <1>1
  <2>2. p \in Seq(Names) /\ Len(p) = 1 /\ p[1] = n /\ 1 \in DOMAIN p
    BY <2>1
  <2>3. SubSeq(p, 1, 1) = p
    BY <2>2, SubSeqFull, Zenon
  <2> QED
    BY <2>1, <2>2, <2>3
<1>2. CASE p \in Names \X Names
  <2>1. PICK n, m \in Names : p = <<n, m>>
    BY <1>2
  <2>2. p \in Seq(Names) /\ Len(p) = 2 /\ p[1] = n /\ p[2] = m /\ 1 \in DOMAIN p /\ 2 \in DOMAIN p
    BY <2>1
  <2>3. SubSeq(p, 1, 2) = p
    BY <2>2, SubSeqFull, Zenon
  <2>4. SubSeq(p, 1, 1) = <<n>>
    BY <2>2, FirstOf
  <2> QED
    BY <2>1, <2>2, <2>3, <2>4
<1> QED
  BY <1>1, <1>2 DEF Paths

\* What has a diagnostic hides what is below.
LEMMA Hides ==
  ASSUME NEW p \in Paths, p \in skipped' \/ <<p[1]>> \in skipped'
  PROVE  Accounted(p)'
<1>1. \E i \in DOMAIN p : SubSeq(p, 1, i) \in skipped'
  BY PathParts, Zenon
<1> QED
  BY <1>1, Zenon DEF Accounted, Obscured

\* Names of sources/raw and of the directory are paths.
LEMMA PathsAre ==
  /\ \A n \in Names : <<n>> \in Paths
  /\ \A n, m \in Names : <<n, m>> \in Paths
BY DEF Paths

\* A path that leads to a file has its first name in sources/raw and its last one
\* in the directory.
LEMMA Leads ==
  ASSUME NEW p \in Paths, NEW tree, LeadsTo(tree, p) # None
  PROVE  /\ p[1] \notin Ignored
         /\ Len(p) = 1 => tree[Raw][p[1]] \in Files \union Links
         /\ Len(p) = 2 =>
               /\ tree[Raw][p[1]] = Sub
               /\ p[2] \notin Ignored /\ tree[Sub][p[2]] \in Files \union Links
<1>1. CASE Len(p) = 1
  <2>1. NameLeadsTo(tree, <<Raw>>, p[1]) # None
    BY <1>1 DEF LeadsTo
  <2>2. Last(<<Raw>>) = Raw
    BY DEF Last
  <2> QED
    BY <1>1, <2>1, <2>2 DEF NameLeadsTo
<1>2. CASE Len(p) = 2
  <2>1. tree[Raw][p[1]] = Sub /\ p[1] \notin Ignored /\ NameLeadsTo(tree, <<Raw, Sub>>, p[2]) # None
    BY <1>2 DEF LeadsTo
  <2>2. Last(<<Raw, Sub>>) = Sub
    BY DEF Last
  <2> QED
    BY <1>2, <2>1, <2>2 DEF NameLeadsTo
<1> QED
  BY <1>1, <1>2, PathParts

-----------------------------------------------------------------------------
(* What a step has to show.                                                *)

\* Placed bounds three lengths by one number.
LEMMA OneMore ==
  ASSUME NEW k \in Nat, k <= 1, NEW l, NEW m, l = k + 1, m = k + 1
  PROVE  (k = 0 /\ l = 1 /\ m = 1) \/ (k = 1 /\ l = 2 /\ m = 2)
OBVIOUS

\* Sequences that are as long as Depth allows: of no element, ...
LEMMA NoneLong ==
  ASSUME NEW S, NEW s \in Seq(S), Len(s) = 0
  PROVE  s = <<>>
OBVIOUS

\* ... of one, ...
LEMMA OneLong ==
  ASSUME NEW S, NEW s \in Seq(S), Len(s) = 1
  PROVE  s[1] \in S /\ s = <<s[1]>> /\ Last(s) = s[1] /\ Front(s) = <<>>
<1>1. s[1] \in S /\ s = <<s[1]>>
  <2>1. s[1] \in S
    OBVIOUS
  <2>2. <<s[1]>> \in Seq(S) /\ Len(<<s[1]>>) = 1 /\ <<s[1]>>[1] = s[1]
    BY <2>1
  <2>3. \A i \in 1 .. Len(s) : s[i] = <<s[1]>>[i]
    BY <2>2
  <2> QED
    BY <2>1, <2>2, <2>3, SeqEqual, Zenon
<1>2. Last(s) = s[1]
  BY Zenon DEF Last
<1>3. Front(s) = <<>>
  BY SubSeqEmpty DEF Front
<1> QED
  BY <1>1, <1>2, <1>3

\* ... and of two.
LEMMA TwoLong ==
  ASSUME NEW S, NEW s \in Seq(S), Len(s) = 2
  PROVE  /\ s[1] \in S /\ s[2] \in S /\ s = <<s[1], s[2]>>
         /\ Last(s) = s[2] /\ Front(s) = <<s[1]>>
<1>1. s[1] \in S /\ s[2] \in S /\ s = <<s[1], s[2]>>
  OBVIOUS
<1>2. Last(s) = s[2]
  BY Zenon DEF Last
<1>3. Front(s) = SubSeq(s, 1, 1)
  BY DEF Front
<1>4. SubSeq(s, 1, 1) = <<s[1]>>
  BY FirstOf
<1> QED
  BY <1>1, <1>2, <1>3, <1>4

\* A reader is in sources/raw or in the directory below.
LEMMA Depth ==
  ASSUME NEW c \in Commands, Placed(c)
  PROVE  \/ /\ Len(c.edges) = 0 /\ c.edges = <<>> /\ c.stack = <<Raw>> /\ Last(c.stack) = Raw
            /\ Len(c.todos) = 1 /\ Last(c.todos) = c.todos[1] /\ c.todos[1] \in SUBSET Names
         \/ /\ Len(c.edges) = 1 /\ c.edges[1] \in Edges /\ c.edges = <<c.edges[1]>>
            /\ c.stack = <<Raw, Sub>> /\ Last(c.stack) = Sub
            /\ Len(c.todos) = 2 /\ Last(c.todos) = c.todos[2]
            /\ c.todos[1] \in SUBSET Names /\ c.todos[2] \in SUBSET Names
<1> PICK e, s, t : e = c.edges /\ s = c.stack /\ t = c.todos
  OBVIOUS
<1>1. e \in Seq(Edges) /\ s \in Seq(Dirs) /\ t \in Seq(SUBSET Names)
  BY DEF Commands
<1>2. Len(e) \in Nat
  BY <1>1, LenProperties, Zenon
<1>3. Len(e) <= 1 /\ Len(s) = Len(e) + 1 /\ Len(t) = Len(e) + 1
  BY Zenon DEF Placed
<1>4. s[1] = Raw /\ (Len(e) = 1 => s[2] = Sub)
  BY Zenon DEF Placed
<1>5. \/ Len(e) = 0 /\ Len(s) = 1 /\ Len(t) = 1
      \/ Len(e) = 1 /\ Len(s) = 2 /\ Len(t) = 2
  BY <1>2, <1>3, OneMore, Zenon
<1>6. CASE Len(e) = 0 /\ Len(s) = 1 /\ Len(t) = 1
  <2>1. e = <<>>
    BY <1>1, <1>6, NoneLong, Zenon
  <2>2. s = <<s[1]>> /\ Last(s) = s[1]
    BY <1>1, <1>6, OneLong, Zenon
  <2>3. Last(t) = t[1] /\ t[1] \in SUBSET Names
    BY <1>1, <1>6, OneLong, Zenon
  <2> QED
    BY <1>4, <1>6, <2>1, <2>2, <2>3, Zenon
<1>7. CASE Len(e) = 1 /\ Len(s) = 2 /\ Len(t) = 2
  <2>1. e[1] \in Edges /\ e = <<e[1]>>
    BY <1>1, <1>7, OneLong, Zenon
  <2>2. s = <<s[1], s[2]>> /\ Last(s) = s[2]
    BY <1>1, <1>7, TwoLong, Zenon
  <2>3. Last(t) = t[2] /\ t[1] \in SUBSET Names /\ t[2] \in SUBSET Names
    BY <1>1, <1>7, TwoLong, Zenon
  <2> QED
    BY <1>4, <1>7, <2>1, <2>2, <2>3, Zenon
<1> QED
  BY <1>5, <1>6, <1>7, Zenon

\* What is true of a command.
LEMMA CommandFacts ==
  ASSUME Inv, command # Idle
  PROVE  /\ command \in Commands /\ Typed /\ Reported
         /\ Placed(command) /\ Looking(command) /\ Reading(command)
         /\ \A p \in Paths : Sight(entry, stamp, p) \in led[p]
         /\ command.op = "walk" => Walked(command)
BY DEF Inv, Typed, Knows

\* A step at one entry that leaves the report alone has to show what it makes of
\* the entry.
LEMMA StaysAtEntry ==
  ASSUME Inv, command # Idle, Busy(command), UNCHANGED <<world, report, led>>,
         command' \in Commands, Busy(command'),
         command'.op = command.op, command'.edges = command.edges,
         command'.stack = command.stack, command'.todos = command.todos,
         command'.source = command.source,
         Looking(command)', Reading(command)'
  PROVE  Inv'
<1> PICK c, d : c = command /\ d = command'
  OBVIOUS
<1>1. Typed' /\ Reported'
  BY DEF Inv, Typed, Reported, world, report
<1>2. \A p : Sight(entry, stamp, p)' = Sight(entry, stamp, p)
  BY DEF world, Sight
<1>3. c.op = "walk" => Walked(c)
  BY CommandFacts, Zenon
<1>4. Busy(c) /\ Busy(d) /\ ~Between(c) /\ ~Between(d)
  BY DEF Busy, Between, Entering, Seeking, Holding
<1>5. Placed(d)
  BY <1>4, CommandFacts, Zenon DEF Placed, Between
<1>6. \A p \in Paths : Ahead(d, p) <=> Ahead(c, p)
  BY <1>4, Zenon DEF Ahead, Between
<1>7. \A p : Accounted(p)' = Accounted(p)
  BY DEF Accounted, Obscured, report
<1>8. Misled(c)' <=> Misled(c)
  BY DEF Misled
<1>9. Misled(c) => Misled(d)
  BY Zenon DEF Misled
<1>10. (command.op = "walk" => Walked(command))'
  <2>1. led' = led /\ skipped' = skipped /\ items' = items
    BY DEF report
  <2>2. c.op = "walk" => Walked(d)'
    BY <1>3, <1>6, <1>7, <1>9, <2>1 DEF Walked, Misled
  <2>3. SUFFICES ASSUME command'.op = "walk"
                 PROVE  Walked(command)'
    OBVIOUS
  <2> QED
    BY <2>2, <2>3 DEF Walked, Misled, Ahead, Busy, Holding, Seeking, Entering
<1>11. \A p \in Paths : (Sight(entry, stamp, p) \in led[p])'
  <2>1. entry' = entry /\ stamp' = stamp /\ led' = led
    BY DEF world
  <2>2. \A p \in Paths : Sight(entry, stamp, p) \in led[p]
    BY CommandFacts, Zenon
  <2> QED
    BY <2>1, <2>2, Zenon
<1>12. Placed(command)'
  BY <1>5 DEF Placed, Entering
<1>13. Knows(command)'
  BY <1>10, <1>11, <1>12, Zenon DEF Knows
<1> QED
  BY <1>1, <1>13 DEF Inv

-----------------------------------------------------------------------------
(* Steps at one entry.                                                     *)

\* What is kept of a stat.
LEMMA KeptTyped ==
  ASSUME NEW seen \in Seen
  PROVE  /\ seen \in Kept /\ Edge(seen) \in Edges /\ Edge(seen).name = seen.name
         /\ Pinned(seen) \in Kept /\ Pinned(seen).name = None
         /\ Pinned(seen).inode = seen.inode /\ Pinned(seen).stamp = seen.stamp
BY DEF Seen, Kept, Edges, Edge, Pinned

\* One look at an entry or two of them add up to what is remembered.
LEMMA OpenFileKeeps == Inv /\ OpenFile => Inv'
<1> SUFFICES ASSUME Inv, OpenFile
             PROVE  Inv'
  OBVIOUS
<1>1. command # Idle /\ command.phase = "open" /\ Busy(command)
  BY DEF OpenFile, InPhase, Busy, Seeking
<1> PICK c, d : c = command /\ d = command'
  OBVIOUS
<1>2. c \in Commands /\ Placed(c) /\ Looking(c) /\ Reading(c) /\ Typed
  BY <1>1, CommandFacts
<1>3. d = [c EXCEPT !.phase = "opened", !.content = c.at]
  BY DEF OpenFile, At
<1>4. /\ c.phase = "open" /\ c.at \in Seen /\ c.at.inode \in Files
      /\ Stat(c.at.dir, c.at.name) = c.at /\ (c.expected # None => c.at.version = c.expected.version)
  BY <1>1, <1>2 DEF OpenFile, At, StillAt, Matches, Looking
<1>5. /\ c.at.stamp = stamp[c.at.inode] /\ c.at.stamp <= edits
      /\ c.at.version = Version(c.at.inode) /\ c.at.version \in Versions
  <2>1. c.at.dir \in Dirs /\ c.at.name \in Names
    BY <1>4 DEF Seen
  <2>2. c.at # None
    BY <1>4, NothingIsSeen
  <2> QED
    BY <1>2, <1>4, <2>1, <2>2, StatSeen DEF Typed, Seen
<1>6. d \in Commands
  BY <1>2, <1>3, <1>4 DEF Commands, Phases
<1>7. /\ d.phase = "opened" /\ d.content = c.at
      /\ d.op = c.op /\ d.edges = c.edges /\ d.stack = c.stack /\ d.todos = c.todos
      /\ d.source = c.source /\ d.links = c.links /\ d.bytes = c.bytes /\ d.round = c.round
      /\ d.expected = c.expected
  BY <1>2, <1>3 DEF Commands
<1>8. Looking(d)
  <2>1. c.source.inode # Sub
    BY <1>2, <1>4, <1>1, InodesAreDistinct DEF Looking, Dirs, Busy, Seeking
  <2> QED
    BY <1>1, <1>2, <1>4, <1>7, <2>1 DEF Looking, Busy, Seeking, Between, Entering
<1>9. Reading(d)
  <2>1. c.bytes = {} /\ c.round = 0
    BY <1>1, <1>2 DEF Reading, Seeking
  <2> QED
    BY <1>2, <1>4, <1>5, <1>7, <2>1 DEF Reading, Seeking, Holding, Between, Entering
<1>10. Reading(command)'
  BY <1>9 DEF OpenFile, world, Reading, Version
<1>11. Looking(command') /\ Busy(command')
  BY <1>7, <1>8 DEF Busy, Holding
<1> QED
  BY <1>1, <1>6, <1>7, <1>10, <1>11, StaysAtEntry DEF OpenFile

\* The text of a link is read, of whichever link is there by then.
LEMMA ReadLinkKeeps == Inv /\ ReadLink => Inv'
<1> SUFFICES ASSUME Inv, ReadLink
             PROVE  Inv'
  OBVIOUS
<1>1. command # Idle /\ command.phase = "open" /\ Busy(command)
  BY DEF ReadLink, InPhase, Busy, Seeking
<1> PICK c, d : c = command /\ d = command'
  OBVIOUS
<1>2. c \in Commands /\ Placed(c) /\ Looking(c) /\ Reading(c) /\ Typed
  BY <1>1, CommandFacts
<1> PICK t : t = Target[entry[c.at.dir][c.at.name]]
  OBVIOUS
<1>3. d = [c EXCEPT !.phase = "linked", !.text = t]
  BY DEF ReadLink, At
<1>4. /\ c.phase = "open" /\ c.at \in Seen /\ c.at.inode \in Links
      /\ entry[c.at.dir][c.at.name] \in Links /\ Len(c.links) < MaxLinks
  BY <1>1, <1>2 DEF ReadLink, At, Looking, MayFollow
<1>5. t \in Says
  BY <1>4, LinksHaveTargets DEF Says
<1>6. d \in Commands
  BY <1>2, <1>3, <1>5 DEF Commands, Phases
<1>7. /\ d.phase = "linked" /\ d.text = t
      /\ d.op = c.op /\ d.edges = c.edges /\ d.stack = c.stack /\ d.todos = c.todos
      /\ d.source = c.source /\ d.links = c.links /\ d.bytes = c.bytes /\ d.round = c.round
      /\ d.expected = c.expected /\ d.at = c.at /\ d.rstack = c.rstack
  BY <1>2, <1>3 DEF Commands
<1>8. Looking(d)
  <2>1. c.source.inode # Sub
    BY <1>2, <1>4, <1>1, InodesAreDistinct DEF Looking, Dirs, Busy, Seeking
  <2> QED
    BY <1>1, <1>2, <1>4, <1>5, <1>7, <2>1 DEF Looking, Busy, Seeking, Holding, Between, Entering
<1>9. Reading(d)
  BY <1>1, <1>2, <1>7 DEF Reading, Seeking, Holding, Between, Entering
<1>10. Reading(command)'
  BY <1>9 DEF ReadLink, world, Reading, Version
<1>11. Looking(command') /\ Busy(command')
  BY <1>7, <1>8 DEF Busy, Seeking
<1> QED
  BY <1>1, <1>6, <1>7, <1>10, <1>11, StaysAtEntry DEF ReadLink

\* The link was the one that was looked at: it is counted, and followed.
LEMMA ResolveLinkKeeps == Inv /\ ResolveLink => Inv'
<1> SUFFICES ASSUME Inv, ResolveLink
             PROVE  Inv'
  OBVIOUS
<1>1. command # Idle /\ command.phase = "linked" /\ Busy(command)
  BY DEF ResolveLink, InPhase, Busy, Seeking
<1> PICK c, d : c = command /\ d = command'
  OBVIOUS
<1>2. c \in Commands /\ Placed(c) /\ Looking(c) /\ Reading(c) /\ Typed
  BY <1>1, CommandFacts
<1> PICK l, p, s : l = Append(c.links, c.at) /\ p = c.text.parts \o c.pending /\ s = StartOf(c.text)
  OBVIOUS
<1>3. d = [c EXCEPT !.phase = "resolve", !.text = None, !.links = l, !.pending = p, !.rstack = s]
  BY DEF ResolveLink, At
<1>4. c.phase = "linked" /\ c.at \in Seen /\ c.text \in Says /\ Len(c.links) < MaxLinks
  BY <1>1, <1>2 DEF Looking
<1>5. l \in Seq(Seen) /\ l # <<>> /\ Len(l) <= MaxLinks
  <2>1. c.links \in Seq(Seen) /\ Len(c.links) \in Nat
    BY <1>2 DEF Commands
  <2>2. l \in Seq(Seen) /\ l # <<>> /\ Len(l) = Len(c.links) + 1
    BY <1>4, <2>1, AppendProperties
  <2> QED
    BY <1>4, <2>1, <2>2, BoundsAreNaturals
<1>6. p \in Seq(Names \union {Up})
  <2>1. c.text.parts \in Seq(Names \union {Up}) /\ c.pending \in Seq(Names \union {Up})
    BY <1>2, <1>4 DEF Commands, Says
  <2> QED
    BY <2>1, ConcatProperties
<1>7. s \in Seq(Dirs) /\ s # <<>>
  <2>1. <<Raw>> \in Seq(Dirs) /\ <<Raw>> # <<>>
    BY DEF Dirs
  <2>2. c.stack \in Seq(Dirs) /\ c.rstack \in Seq(Dirs)
    BY <1>2 DEF Commands
  <2>3. c.stack # <<>>
    <3>1. c.stack = <<Raw>> \/ c.stack = <<Raw, Sub>>
      BY <1>2, Depth, Zenon
    <3> QED
      BY <3>1, NotEmpty, Zenon
  <2>4. c.links # <<>> => c.rstack # <<>>
    BY <1>2, <1>4 DEF Looking, Seeking
  <2>5. CASE s = <<Raw>>
    BY <2>1, <2>5, Zenon
  <2>6. CASE s = c.rstack /\ c.links # <<>>
    BY <2>2, <2>4, <2>6, Zenon
  <2>7. CASE s = c.stack
    BY <2>2, <2>3, <2>7, Zenon
  <2> QED
    BY <2>5, <2>6, <2>7 DEF StartOf, Resolving
<1>8. d \in Commands
  <2>1. l \in Seq(Seen) /\ s \in Seq(Dirs)
    BY <1>5, <1>7
  <2> QED
    BY <1>2, <1>3, <1>6, <2>1 DEF Commands, Phases
<1>9. /\ d.phase = "resolve" /\ d.links = l /\ d.rstack = s
      /\ d.op = c.op /\ d.edges = c.edges /\ d.stack = c.stack /\ d.todos = c.todos
      /\ d.source = c.source /\ d.bytes = c.bytes /\ d.round = c.round
      /\ d.expected = c.expected
  BY <1>2, <1>3 DEF Commands
<1>10. Looking(d)
  BY <1>1, <1>2, <1>4, <1>5, <1>7, <1>9 DEF Looking, Busy, Seeking, Holding, Between, Entering
<1>11. Reading(d)
  BY <1>1, <1>2, <1>9 DEF Reading, Seeking, Holding, Between, Entering
<1>12. Reading(command)'
  BY <1>11 DEF ResolveLink, world, Reading, Version
<1>13. Looking(command') /\ Busy(command')
  BY <1>9, <1>10 DEF Busy, Seeking
<1> QED
  BY <1>1, <1>8, <1>9, <1>12, <1>13, StaysAtEntry DEF ResolveLink

\* The resolution of a link goes up, but not out.
LEMMA ResolveUpKeeps == Inv /\ ResolveUp => Inv'
<1> SUFFICES ASSUME Inv, ResolveUp
             PROVE  Inv'
  OBVIOUS
<1>1. command # Idle /\ command.phase = "resolve" /\ Busy(command)
  BY DEF ResolveUp, InPhase, Busy, Seeking
<1> PICK c, d : c = command /\ d = command'
  OBVIOUS
<1>2. c \in Commands /\ Placed(c) /\ Looking(c) /\ Reading(c) /\ Typed
  BY <1>1, CommandFacts
<1> PICK p, s : p = Tail(c.pending) /\ s = Front(c.rstack)
  OBVIOUS
<1>3. d = [c EXCEPT !.rstack = s, !.pending = p]
  BY DEF ResolveUp
<1>4. c.phase = "resolve" /\ c.pending # <<>> /\ Len(c.rstack) > 1
  BY <1>1 DEF ResolveUp
<1>5. p \in Seq(Names \union {Up})
  BY <1>2, <1>4, HeadTailProperties DEF Commands
<1>6. s \in Seq(Dirs) /\ s # <<>>
  <2>1. c.rstack \in Seq(Dirs)
    BY <1>2 DEF Commands
  <2> QED
    BY <1>4, <2>1, FrontOf
<1>7. d \in Commands
  BY <1>2, <1>3, <1>5, <1>6 DEF Commands
<1>8. /\ d.phase = "resolve" /\ d.links = c.links /\ d.rstack = s
      /\ d.op = c.op /\ d.edges = c.edges /\ d.stack = c.stack /\ d.todos = c.todos
      /\ d.source = c.source /\ d.bytes = c.bytes /\ d.round = c.round
      /\ d.expected = c.expected
  BY <1>2, <1>3, <1>4 DEF Commands
<1>9. Looking(d)
  BY <1>1, <1>2, <1>4, <1>6, <1>8 DEF Looking, Busy, Seeking, Holding, Between, Entering
<1>10. Reading(d)
  BY <1>1, <1>2, <1>8 DEF Reading, Seeking, Holding, Between, Entering
<1>11. Reading(command)'
  BY <1>10 DEF ResolveUp, world, Reading, Version
<1>12. Looking(command') /\ Busy(command')
  BY <1>8, <1>9 DEF Busy, Seeking
<1> QED
  BY <1>1, <1>7, <1>8, <1>11, <1>12, StaysAtEntry DEF ResolveUp

\* The resolution of a link looks at its next component.
LEMMA ResolveNameKeeps == Inv /\ ResolveName => Inv'
<1> SUFFICES ASSUME Inv, ResolveName
             PROVE  Inv'
  OBVIOUS
<1>1. command # Idle /\ command.phase = "resolve" /\ Busy(command)
  BY DEF ResolveName, InPhase, Busy, Seeking
<1> PICK c, d : c = command /\ d = command'
  OBVIOUS
<1>2. c \in Commands /\ Placed(c) /\ Looking(c) /\ Reading(c) /\ Typed
  BY <1>1, CommandFacts
<1> PICK p, dir, name, seen :
      /\ p = Tail(c.pending) /\ dir = Last(c.rstack) /\ name = Head(c.pending)
      /\ seen = Stat(dir, name)
  OBVIOUS
<1>3. seen # None /\ d = [c EXCEPT !.phase = "open", !.at = seen, !.pending = p]
  BY DEF ResolveName, Component
<1>4. c.phase = "resolve" /\ c.pending # <<>> /\ name \in Names /\ c.links # <<>>
  BY <1>1, <1>2 DEF ResolveName, Component, Looking
<1>5. p \in Seq(Names \union {Up})
  BY <1>2, <1>4, HeadTailProperties DEF Commands
<1>6. dir \in Dirs
  <2>1. c.rstack \in Seq(Dirs) /\ c.rstack # <<>>
    BY <1>2, <1>4 DEF Commands, Looking, Seeking
  <2> QED
    BY <2>1, LastOf
<1>7. seen \in Seen /\ (seen.inode \in Dirs => seen.inode = Sub /\ seen.dir # Sub)
  BY <1>2, <1>3, <1>4, <1>6, StatSeen
<1>8. d \in Commands
  BY <1>2, <1>3, <1>5, <1>7 DEF Commands, Phases
<1>9. /\ d.phase = "open" /\ d.links = c.links /\ d.rstack = c.rstack /\ d.at = seen
      /\ d.op = c.op /\ d.edges = c.edges /\ d.stack = c.stack /\ d.todos = c.todos
      /\ d.source = c.source /\ d.bytes = c.bytes /\ d.round = c.round
      /\ d.expected = c.expected
  BY <1>2, <1>3 DEF Commands
<1>10. Looking(d)
  BY <1>1, <1>2, <1>4, <1>7, <1>9 DEF Looking, Busy, Seeking, Holding, Between, Entering
<1>11. Reading(d)
  BY <1>1, <1>2, <1>9 DEF Reading, Seeking, Holding, Between, Entering
<1>12. Reading(command)'
  BY <1>11 DEF ResolveName, world, Reading, Version
<1>13. Looking(command') /\ Busy(command')
  BY <1>9, <1>10 DEF Busy, Seeking
<1> QED
  BY <1>1, <1>8, <1>9, <1>12, <1>13, StaysAtEntry DEF ResolveName

\* A directory on the way of a link.
LEMMA PassesDirectory == Inv /\ OpenDirectory /\ Resolving => Inv'
<1> SUFFICES ASSUME Inv, OpenDirectory, Resolving
             PROVE  Inv'
  OBVIOUS
<1>1. command # Idle /\ command.phase = "open" /\ Busy(command)
  BY DEF OpenDirectory, InPhase, Busy, Seeking
<1> PICK c, d : c = command /\ d = command'
  OBVIOUS
<1>2. c \in Commands /\ Placed(c) /\ Looking(c) /\ Reading(c) /\ Typed
  BY <1>1, CommandFacts
<1> PICK s, o : s = Append(c.rstack, c.at.inode) /\ o = Append(c.owned, Edge(c.at))
  OBVIOUS
<1>3. d = [c EXCEPT !.phase = "resolve", !.rstack = s, !.owned = o]
  BY DEF OpenDirectory, At
<1>4. c.phase = "open" /\ c.at \in Seen /\ c.at.inode \in Dirs /\ c.links # <<>>
  <2>1. c.at.inode \in Dirs /\ c.links # <<>>
    BY Zenon DEF OpenDirectory, At, Resolving
  <2>2. c.phase = "open"
    BY <1>1
  <2>3. c.at \in Seen
    BY <1>2, <2>2, Zenon DEF Looking
  <2> QED
    BY <2>1, <2>2, <2>3, Zenon
<1>5. s \in Seq(Dirs) /\ s # <<>>
  <2>1. c.rstack \in Seq(Dirs)
    BY <1>2 DEF Commands
  <2> QED
    BY <1>4, <2>1, AppendProperties
<1>6. o \in Seq(Edges)
  BY <1>2, <1>4, KeptTyped, AppendProperties DEF Commands
<1>7. d \in Commands
  BY <1>2, <1>3, <1>5, <1>6 DEF Commands, Phases
<1>8. /\ d.phase = "resolve" /\ d.links = c.links /\ d.rstack = s
      /\ d.op = c.op /\ d.edges = c.edges /\ d.stack = c.stack /\ d.todos = c.todos
      /\ d.source = c.source /\ d.bytes = c.bytes /\ d.round = c.round
      /\ d.expected = c.expected
  BY <1>2, <1>3 DEF Commands
<1>9. Looking(d)
  BY <1>1, <1>2, <1>4, <1>5, <1>8 DEF Looking, Busy, Seeking, Holding, Between, Entering
<1>10. Reading(d)
  BY <1>1, <1>2, <1>8 DEF Reading, Seeking, Holding, Between, Entering
<1>11. Reading(command)'
  BY <1>10 DEF OpenDirectory, world, Reading, Version
<1>12. Looking(command') /\ Busy(command')
  BY <1>8, <1>9 DEF Busy, Seeking
<1> QED
  BY <1>1, <1>7, <1>8, <1>11, <1>12, StaysAtEntry DEF OpenDirectory

-----------------------------------------------------------------------------
(* Validation and reading.                                                 *)

Occurs(y, s) == \E i \in DOMAIN s : s[i] = y

\* What occurs in one of two sequences occurs in both of them joined.
LEMMA OccursInBoth ==
  ASSUME NEW S, NEW s \in Seq(S), NEW t \in Seq(S), NEW y
  PROVE  s \o t \in Seq(S) /\ (Occurs(y, s) \/ Occurs(y, t) => Occurs(y, s \o t))
<1>1. /\ Len(s) \in Nat /\ Len(t) \in Nat
      /\ DOMAIN s = 1 .. Len(s) /\ DOMAIN t = 1 .. Len(t)
  OBVIOUS
<1>2. s \o t \in Seq(S) /\ Len(s \o t) = Len(s) + Len(t)
  BY ConcatProperties
<1>3. DOMAIN (s \o t) = 1 .. Len(s) + Len(t)
  BY <1>2
<1>4. ASSUME NEW i \in DOMAIN s, s[i] = y
      PROVE  Occurs(y, s \o t)
  <2>1. i \in 1 .. Len(s) + Len(t) /\ (s \o t)[i] = s[i]
    BY <1>1, <1>4, ConcatProperties
  <2> QED
    BY <1>3, <1>4, <2>1, Zenon DEF Occurs
<1>5. ASSUME NEW i \in DOMAIN t, t[i] = y
      PROVE  Occurs(y, s \o t)
  <2>1. i + Len(s) \in 1 .. Len(s) + Len(t) /\ (s \o t)[i + Len(s)] = t[i]
    BY <1>1, <1>5, ConcatProperties
  <2> QED
    BY <1>3, <1>5, <2>1, Zenon DEF Occurs
<1> QED
  BY <1>2, <1>4, <1>5, Zenon DEF Occurs

\* Of the checks, joined as they are, the one of the open file is one.
LEMMA Among ==
  ASSUME NEW S, NEW a \in Seq(S), NEW b \in Seq(S), NEW x \in S, NEW y \in S,
         NEW e \in Seq(S), NEW f \in Seq(S)
  PROVE  a \o b \o <<x, y>> \o e \o f \in Seq(S) /\ Occurs(y, a \o b \o <<x, y>> \o e \o f)
<1>1. <<x, y>> \in Seq(S) /\ Occurs(y, <<x, y>>)
  <2>1. <<x, y>> \in Seq(S) /\ 2 \in DOMAIN <<x, y>> /\ <<x, y>>[2] = y
    OBVIOUS
  <2> QED
    BY <2>1, Zenon DEF Occurs
<1>2. a \o b \in Seq(S)
  BY OccursInBoth, Zenon
<1>3. a \o b \o <<x, y>> \in Seq(S) /\ Occurs(y, a \o b \o <<x, y>>)
  BY <1>1, <1>2, OccursInBoth, Zenon
<1>4. a \o b \o <<x, y>> \o e \in Seq(S) /\ Occurs(y, a \o b \o <<x, y>> \o e)
  BY <1>3, OccursInBoth, Zenon
<1> QED
  BY <1>4, OccursInBoth, Zenon

\* What is looked at again, the open file among it.
LEMMA ChecksTyped ==
  ASSUME command \in Commands, command.source \in Seen, command.content \in Seen
  PROVE  Checks \in Seq(Kept) /\ Occurs(Pinned(command.content), Checks)
<1> PICK e, o, x, y, l, m :
      /\ e = command.edges /\ o = command.owned /\ x = command.source
      /\ y = Pinned(command.content) /\ l = command.links
      /\ m = IF command.links = <<>> THEN <<>> ELSE <<command.content>>
  OBVIOUS
<1>1. Edges \subseteq Kept /\ Seen \subseteq Kept
  BY DEF Edges, Seen, Kept
<1>2. e \in Seq(Kept) /\ o \in Seq(Kept) /\ l \in Seq(Kept)
  BY <1>1, SeqMonotonic DEF Commands
<1>3. x \in Kept /\ y \in Kept
  BY KeptTyped
<1>4. m \in Seq(Kept)
  <2>1. command.content \in Kept
    BY <1>1
  <2>2. <<command.content>> \in Seq(Kept) /\ <<>> \in Seq(Kept)
    BY <2>1
  <2> QED
    BY <2>2
<1>5. Checks = e \o o \o <<x, y>> \o m \o l
  BY Zenon DEF Checks
<1>6. /\ e \o o \o <<x, y>> \o m \o l \in Seq(Kept)
      /\ Occurs(y, e \o o \o <<x, y>> \o m \o l)
  BY <1>2, <1>3, <1>4, Among, Zenon
<1> QED
  BY <1>5, <1>6, Zenon

\* Every validation looks at the open file.
LEMMA BeginChecksKeeps == Inv /\ BeginChecks => Inv'
<1> SUFFICES ASSUME Inv, BeginChecks
             PROVE  Inv'
  OBVIOUS
<1>1. command # Idle /\ command.phase \in {"opened", "read"} /\ Busy(command) /\ Holding(command)
  BY DEF BeginChecks, InPhase, Busy, Holding
<1> PICK c, d, k : c = command /\ d = command' /\ k = Checks
  OBVIOUS
<1>2. c \in Commands /\ Placed(c) /\ Looking(c) /\ Reading(c) /\ Typed
  BY <1>1, CommandFacts
<1>3. d = [c EXCEPT !.phase = "check", !.checks = k, !.round = @ + 1]
  BY DEF BeginChecks
<1>4. c.source \in Seen /\ c.content \in Seen
  BY <1>1, <1>2 DEF Looking, Reading
<1>5. k \in Seq(Kept) /\ \E i \in DOMAIN k : k[i] = Pinned(c.content)
  <2>1. k \in Seq(Kept) /\ Occurs(Pinned(c.content), k)
    BY <1>2, <1>4, ChecksTyped, Zenon
  <2> QED
    BY <2>1, Zenon DEF Occurs
<1>6. c.round \in Nat
  BY <1>2 DEF Commands
<1>7. d \in Commands
  <2>1. k \in Seq(Kept) /\ c.round + 1 \in Nat
    BY <1>5, <1>6
  <2> QED
    BY <1>2, <1>3, <2>1 DEF Commands, Phases
<1>8. /\ d.phase = "check" /\ d.links = c.links /\ d.round = c.round + 1 /\ d.checks = k
      /\ d.op = c.op /\ d.edges = c.edges /\ d.stack = c.stack /\ d.todos = c.todos
      /\ d.source = c.source /\ d.bytes = c.bytes /\ d.content = c.content
      /\ d.expected = c.expected
  BY <1>2, <1>3 DEF Commands
<1>9. d.round > 0 /\ (d.round > 1 => c.phase = "read")
  BY <1>1, <1>2, <1>6, <1>8 DEF Reading
<1>10. Looking(d)
  BY <1>1, <1>2, <1>8, <1>9 DEF Looking, Busy, Seeking, Holding, Between, Entering
<1>11. Reading(d)
  BY <1>1, <1>2, <1>5, <1>8, <1>9 DEF Reading, Seeking, Holding, Between, Entering
<1>12. Reading(command)'
  BY <1>11 DEF BeginChecks, world, Reading, Version
<1>13. Looking(command') /\ Busy(command')
  BY <1>8, <1>9, <1>10 DEF Busy, Holding
<1> QED
  BY <1>1, <1>7, <1>8, <1>12, <1>13, StaysAtEntry DEF BeginChecks

\* What is read is of the version remembered, unless the stamp tells otherwise.
LEMMA ReadKeeps == Inv /\ Read => Inv'
<1> SUFFICES ASSUME Inv, Read
             PROVE  Inv'
  OBVIOUS
<1>1. command # Idle /\ command.phase \in {"reading", "read"} /\ Busy(command) /\ Holding(command)
  BY DEF Read, InPhase, Busy, Holding
<1> PICK c, d, v : c = command /\ d = command' /\ v = Version(c.content.inode)
  OBVIOUS
<1>2. c \in Commands /\ Placed(c) /\ Looking(c) /\ Reading(c) /\ Typed
  BY <1>1, CommandFacts
<1> PICK bytes : bytes = c.bytes \union {v}
  OBVIOUS
<1>3. d = [c EXCEPT !.bytes = bytes, !.phase = "read"]
  BY DEF Read
<1>4. v \in Versions
  <2>1. c.content.inode \in Files
    BY <1>1, <1>2 DEF Reading
  <2> QED
    BY <1>2, <2>1 DEF Version, Versions, Typed
<1>5. d \in Commands
  <2>1. bytes \in SUBSET Versions
    BY <1>2, <1>4 DEF Commands
  <2> QED
    BY <1>2, <1>3, <2>1 DEF Commands, Phases
<1>6. /\ d.phase = "read" /\ d.links = c.links /\ d.round = c.round
      /\ d.op = c.op /\ d.edges = c.edges /\ d.stack = c.stack /\ d.todos = c.todos
      /\ d.source = c.source /\ d.bytes = c.bytes \union {v} /\ d.content = c.content
      /\ d.expected = c.expected
  BY <1>2, <1>3 DEF Commands
<1>7. Looking(d)
  BY <1>1, <1>2, <1>6 DEF Looking, Busy, Seeking, Holding, Between, Entering
<1>8. Reading(d)
  BY <1>1, <1>2, <1>6 DEF Reading, Seeking, Holding, Between, Entering
<1>9. Reading(command)'
  BY <1>8 DEF Read, world, Reading, Version
<1>10. Looking(command') /\ Busy(command')
  BY <1>6, <1>7 DEF Busy, Holding
<1> QED
  BY <1>1, <1>5, <1>6, <1>9, <1>10, StaysAtEntry DEF Read

\* A check of an entry that holds, and the last one.
LEMMA CheckHoldsKeeps == Inv /\ CheckHolds /\ command.round > 0 => Inv'
<1> SUFFICES ASSUME Inv, CheckHolds, command.round > 0
             PROVE  Inv'
  OBVIOUS
<1>1. command # Idle /\ command.phase = "check" /\ Busy(command) /\ Holding(command)
  BY DEF CheckHolds, InPhase, Busy, Holding
<1> PICK c, d, k : c = command /\ d = command' /\ k = c.checks
  OBVIOUS
<1>2. c \in Commands /\ Placed(c) /\ Looking(c) /\ Reading(c) /\ Typed
  BY <1>1, CommandFacts
<1>3. k # <<>> /\ Unchanged(Head(k)) /\ d = [c EXCEPT !.checks = Tail(k)]
  BY DEF CheckHolds
<1>4. k \in Seq(Kept)
  BY <1>2 DEF Commands
<1>5. Tail(k) \in Seq(Kept)
  BY <1>3, <1>4, HeadTailProperties
<1>6. d \in Commands
  BY <1>2, <1>3, <1>5 DEF Commands
<1>7. /\ d.phase = "check" /\ d.links = c.links /\ d.round = c.round /\ d.checks = Tail(k)
      /\ d.op = c.op /\ d.edges = c.edges /\ d.stack = c.stack /\ d.todos = c.todos
      /\ d.source = c.source /\ d.bytes = c.bytes /\ d.content = c.content
      /\ d.expected = c.expected
  BY <1>1, <1>2, <1>3 DEF Commands
<1>8. Looking(d)
  BY <1>1, <1>2, <1>7 DEF Looking, Busy, Seeking, Holding, Between, Entering
<1>9. c.bytes \subseteq {c.content.version} \/ \E i \in DOMAIN Tail(k) : Tail(k)[i] = Pinned(c.content)
  <2>1. SUFFICES ASSUME NEW i \in DOMAIN k, k[i] = Pinned(c.content)
                 PROVE  \/ c.bytes \subseteq {c.content.version}
                        \/ \E j \in DOMAIN Tail(k) : Tail(k)[j] = Pinned(c.content)
    BY <1>1, <1>2 DEF Reading
  <2>2. CASE i = 1
    <3>1. Head(k) = Pinned(c.content)
      BY <1>3, <1>4, <2>1, <2>2
    <3>2. c.content \in Seen
      BY <1>1, <1>2 DEF Reading
    <3>3. stamp[c.content.inode] = c.content.stamp
      BY <1>3, <3>1, <3>2, KeptTyped DEF Unchanged
    <3> QED
      BY <1>1, <1>2, <3>3 DEF Reading
  <2>3. CASE i # 1
    <3>1. i \in 1 .. Len(k) /\ i - 1 \in 1 .. Len(k) - 1
      BY <1>4, <2>1, <2>3
    <3>2. i - 1 \in DOMAIN Tail(k) /\ Tail(k)[i - 1] = k[i]
      BY <1>3, <1>4, <3>1
    <3> QED
      BY <2>1, <3>2
  <2> QED
    BY <2>2, <2>3
<1>10. Reading(d)
  BY <1>1, <1>2, <1>7, <1>9 DEF Reading, Seeking, Holding, Between, Entering
<1>11. Reading(command)'
  BY <1>10 DEF CheckHolds, world, Reading, Version
<1>12. Looking(command') /\ Busy(command')
  BY <1>7, <1>8 DEF Busy, Holding
<1> QED
  BY <1>1, <1>6, <1>7, <1>11, <1>12, StaysAtEntry DEF CheckHolds

\* A validation that has come to its end has looked at the open file.
LEMMA CheckedKeeps == Inv /\ Checked /\ command.round > 0 => Inv'
<1> SUFFICES ASSUME Inv, Checked, command.round > 0
             PROVE  Inv'
  OBVIOUS
<1>1. command # Idle /\ command.phase = "check" /\ Busy(command) /\ Holding(command)
  BY DEF Checked, InPhase, Busy, Holding
<1> PICK c, d : c = command /\ d = command'
  OBVIOUS
<1>2. c \in Commands /\ Placed(c) /\ Looking(c) /\ Reading(c) /\ Typed
  BY <1>1, CommandFacts
<1> PICK phase : phase = IF c.round < Rounds THEN "reading" ELSE "accepted"
  OBVIOUS
<1>3. c.checks = <<>> /\ d = [c EXCEPT !.phase = phase] /\ c.round # 0
  BY DEF Checked, Goto
<1>4. phase \in {"reading", "accepted"} /\ (phase = "accepted" => c.round > 1)
  BY <1>2 DEF Rounds, Commands
<1>5. d \in Commands
  BY <1>2, <1>3, <1>4 DEF Commands, Phases
<1>6. /\ d.phase = phase /\ d.links = c.links /\ d.round = c.round
      /\ d.op = c.op /\ d.edges = c.edges /\ d.stack = c.stack /\ d.todos = c.todos
      /\ d.source = c.source /\ d.bytes = c.bytes /\ d.content = c.content
      /\ d.expected = c.expected
  BY <1>1, <1>2, <1>3 DEF Commands
<1>7. Looking(d)
  BY <1>1, <1>2, <1>4, <1>6 DEF Looking, Busy, Seeking, Holding, Between, Entering
<1>8. c.bytes \subseteq {c.content.version}
  <2>1. ~ \E i \in DOMAIN c.checks : c.checks[i] = Pinned(c.content)
    BY <1>3
  <2> QED
    BY <1>1, <1>2, <2>1 DEF Reading
<1>9. Reading(d)
  BY <1>1, <1>2, <1>4, <1>6, <1>8 DEF Reading, Seeking, Holding, Between, Entering
<1>10. Reading(command)'
  BY <1>9 DEF Checked, world, Reading, Version
<1>11. Looking(command') /\ Busy(command')
  BY <1>4, <1>6, <1>7 DEF Busy, Holding
<1> QED
  BY <1>1, <1>5, <1>6, <1>10, <1>11, StaysAtEntry DEF Checked

-----------------------------------------------------------------------------
(* The walk between two entries.                                           *)

\* A reader between two entries remembers nothing of the last one.
LEMMA Rests ==
  ASSUME NEW c, NEW d, Reading(c), Between(d), d.links = <<>>, d.bytes = {}, d.round = 0,
         d.expected = c.expected
  PROVE  Looking(d) /\ Reading(d) /\ ~Busy(d)
<1>1. /\ ~Seeking(d) /\ ~Holding(d) /\ d.phase \notin {"open", "linked", "resolve"}
      /\ d.phase \notin {"opened", "reading", "read", "accepted"}
  BY DEF Between, Entering, Seeking, Holding
<1>2. Len(d.links) <= MaxLinks
  BY BoundsAreNaturals
<1>3. Looking(d)
  BY <1>1, <1>2 DEF Looking, Busy
<1>4. Reading(d)
  BY <1>1 DEF Reading
<1> QED
  BY <1>1, <1>3, <1>4 DEF Busy

\* These are about a command alone, where the file system stays as it is.
LEMMA RestsStill ==
  ASSUME UNCHANGED world
  PROVE  /\ Looking(command') => Looking(command)'
         /\ Reading(command') => Reading(command)'
         /\ Placed(command') => Placed(command)'
<1>1. Looking(command') => Looking(command)'
  BY DEF Looking, Busy, Seeking, Holding, Between, Entering
<1>2. Reading(command') => Reading(command)'
  BY DEF Reading, Busy, Seeking, Holding, Between, Entering, world, Version
<1>3. Placed(command') => Placed(command)'
  BY DEF Placed, Entering
<1> QED
  BY <1>1, <1>2, <1>3

\* A step of a walk has to show that every path it leaves behind is accounted for,
\* and that what it reports was still to be reported.
LEMMA GoesOn ==
  ASSUME Inv, command # Idle, command.op = "walk", UNCHANGED <<world, led>>,
         command' \in Commands, command'.op = "walk",
         items \subseteq items', items' \subseteq Items, skipped \subseteq skipped',
         skipped' \subseteq Paths, Reported',
         Placed(command'), Looking(command'), Reading(command'), Misled(command'),
         \A p \in Paths : Ahead(command', p) =>
            /\ Ahead(command, p) /\ p \notin skipped' \ skipped
            /\ \A item \in items' \ items : item.path # p,
         \A p \in Paths : Ahead(command, p) =>
            Ahead(command', p) \/ None \in led[p] \/ Accounted(p)'
  PROVE  Inv'
<1>1. Typed'
  BY DEF Inv, Typed, world
<1>2. \A p : Accounted(p) => Accounted(p)'
  BY DEF Accounted, Obscured
<1>3. Walked(command) /\ \A p \in Paths : Sight(entry, stamp, p) \in led[p]
  BY CommandFacts, Zenon
<1>4. \A p : Ahead(command, p)' <=> Ahead(command', p)
  BY DEF Ahead, Busy, Seeking, Holding, Entering
<1>5. \A p \in Paths : (Ahead(command, p) => p \notin skipped /\ \A item \in items : item.path # p)'
  <2> SUFFICES ASSUME NEW p \in Paths, Ahead(command, p)'
               PROVE  p \notin skipped' /\ \A item \in items' : item.path # p
    BY Zenon
  <2>1. /\ Ahead(command, p) /\ p \notin skipped' \ skipped
        /\ \A item \in items' \ items : item.path # p
    BY <1>4
  <2>2. p \notin skipped /\ \A item \in items : item.path # p
    BY <1>3, <2>1, Zenon DEF Walked
  <2> QED
    BY <2>1, <2>2
<1>6. \A p \in Paths : (Ahead(command, p) \/ None \in led[p] \/ Accounted(p))'
  <2> TAKE p \in Paths
  <2>1. Ahead(command, p) \/ None \in led[p] \/ Accounted(p)
    BY <1>3, Zenon DEF Walked
  <2>2. led' = led
    OBVIOUS
  <2>3. Ahead(command', p) \/ None \in led[p] \/ Accounted(p)'
    BY <1>2, <2>1, Zenon
  <2> QED
    BY <1>4, <2>2, <2>3
<1>7. Misled(command)'
  BY DEF Misled, Busy, Seeking, Holding
<1>8. Walked(command)'
  BY <1>5, <1>6, <1>7, Zenon DEF Walked
<1>9. \A p \in Paths : (Sight(entry, stamp, p) \in led[p])'
  <2>1. entry' = entry /\ stamp' = stamp /\ led' = led
    BY DEF world
  <2> QED
    BY <1>3, <2>1, Zenon
<1>10. Placed(command)' /\ Looking(command)' /\ Reading(command)'
  BY RestsStill
<1>11. Knows(command)'
  BY <1>8, <1>9, <1>10, Zenon DEF Knows
<1> QED
  BY <1>1, <1>11 DEF Inv

\* A path that does not lead to a file now has not always led to one.
LEMMA NoSight ==
  ASSUME Inv, command # Idle, NEW p \in Paths, LeadsTo(entry, p) = None
  PROVE  None \in led[p]
<1>1. Sight(entry, stamp, p) = None
  BY DEF Sight
<1> QED
  BY <1>1, CommandFacts

\* The directory a walk has opened is where it was, or that is all there is to do.
LEMMA EnteringKeeps == Inv /\ (CheckHolds \/ Checked) /\ command.round = 0 => Inv'
<1> SUFFICES ASSUME Inv, CheckHolds \/ Checked, command.round = 0
             PROVE  Inv'
  OBVIOUS
<1>1. command # Idle /\ command.phase = "check" /\ Entering(command) /\ Between(command)
  BY DEF CheckHolds, Checked, InPhase, Entering, Between
<1> PICK c, d, k : c = command /\ d = command' /\ k = Tail(c.checks)
  OBVIOUS
<1>2. c \in Commands /\ Placed(c) /\ Looking(c) /\ Reading(c) /\ c.op = "walk" /\ Len(c.edges) = 1
  BY <1>1, CommandFacts DEF Placed
<1>3. Walked(c) /\ ~Busy(c)
  BY <1>1, <1>2, CommandFacts DEF Busy, Seeking, Holding, Entering
<1>4. UNCHANGED <<world, report, led>>
  BY DEF CheckHolds, Checked
<1>5. \/ c.checks # <<>> /\ d = [c EXCEPT !.checks = k]
      \/ d = [c EXCEPT !.phase = "list"]
  BY DEF CheckHolds, Checked, Goto
<1>6. c.checks # <<>> => k \in Seq(Kept)
  BY <1>2, HeadTailProperties DEF Commands
<1>7. d \in Commands
  <2>1. CASE c.checks # <<>> /\ d = [c EXCEPT !.checks = k]
    BY <1>2, <1>6, <2>1 DEF Commands
  <2>2. CASE d = [c EXCEPT !.phase = "list"]
    BY <1>2, <2>2 DEF Commands, Phases
  <2> QED
    BY <1>5, <2>1, <2>2
<1>8. /\ d.phase \in {"list", "check"} /\ d.round = 0
      /\ d.op = c.op /\ d.edges = c.edges /\ d.stack = c.stack /\ d.todos = c.todos
      /\ d.links = c.links /\ d.bytes = c.bytes /\ d.expected = c.expected
  BY <1>1, <1>2, <1>5 DEF Commands
<1>9. Between(d) /\ d.links = <<>> /\ d.bytes = {}
  BY <1>1, <1>2, <1>8 DEF Between, Entering, Looking, Reading
<1>10. Looking(d) /\ Reading(d) /\ ~Busy(d)
  BY <1>2, <1>8, <1>9, Rests
<1>11. Placed(d)
  BY <1>2, <1>8 DEF Placed
<1>12. \A p : Ahead(d, p) <=> Ahead(c, p)
  BY <1>1, <1>2, <1>3, <1>8, <1>10 DEF Ahead, Entering
<1>13. Misled(d)
  BY <1>2, <1>3, <1>8, <1>10 DEF Walked, Misled
<1>14. Typed /\ Reported /\ items' = items /\ skipped' = skipped
  BY <1>1, <1>4, CommandFacts DEF report
<1>15. Reported' /\ items' \subseteq Items /\ skipped' \subseteq Paths
  BY <1>14 DEF Reported, Typed
<1> QED
  BY <1>1, <1>2, <1>4, <1>7, <1>8, <1>10, <1>11, <1>12, <1>13, <1>14, <1>15, GoesOn DEF report

\* Only the names left in the directory at hand change.
LEMMA LastChanged ==
  ASSUME NEW S, NEW t \in Seq(S), NEW w \in S, Len(t) = 1 \/ Len(t) = 2,
         NEW u, u = [t EXCEPT ![Len(t)] = w]
  PROVE  /\ u \in Seq(S) /\ Len(u) = Len(t) /\ u[Len(t)] = w
         /\ Len(t) = 2 => u[1] = t[1]
<1>1. Len(t) \in 1 .. Len(t)
  OBVIOUS
<1> QED
  BY <1>1, ExceptSeq

\* A listing leaves out only what is ignored and what is not there now.
LEMMA ListDirectoryKeeps == Inv /\ ListDirectory => Inv'
<1> SUFFICES ASSUME Inv, ListDirectory
             PROVE  Inv'
  OBVIOUS
<1>1. command # Idle /\ command.phase = "list" /\ Between(command)
  BY DEF ListDirectory, InPhase, Between
<1> PICK c, d, w, t :
      /\ c = command /\ d = command'
      /\ w = {n \in Names \ Ignored : entry[Last(c.stack)][n] # None}
      /\ t = [c.todos EXCEPT ![Len(c.todos)] = w]
  OBVIOUS
<1>2. c \in Commands /\ Placed(c) /\ Looking(c) /\ Reading(c) /\ Typed /\ Reported /\ c.op = "walk"
  BY <1>1, CommandFacts DEF Placed
<1>3. Walked(c) /\ ~Busy(c)
  BY <1>1, <1>2, CommandFacts DEF Busy, Seeking, Holding
<1>4. UNCHANGED <<world, report, led>>
  BY DEF ListDirectory
<1>5. d = [c EXCEPT !.phase = "next", !.todos = t]
  BY <1>2 DEF ListDirectory, Commands
<1>6. c.todos \in Seq(SUBSET Names) /\ w \in SUBSET Names /\ (Len(c.todos) = 1 \/ Len(c.todos) = 2)
  <2>1. Len(c.todos) = 1 \/ Len(c.todos) = 2
    BY <1>2, Depth, Zenon
  <2> QED
    BY <1>2, <2>1 DEF Commands
<1>7. /\ t \in Seq(SUBSET Names) /\ Len(t) = Len(c.todos) /\ t[Len(c.todos)] = w
      /\ Len(c.todos) = 2 => t[1] = c.todos[1]
  BY <1>6, LastChanged
<1>8. d \in Commands
  BY <1>2, <1>5, <1>7 DEF Commands, Phases
<1>9. /\ d.phase = "next" /\ d.round = c.round /\ d.todos = t
      /\ d.op = c.op /\ d.edges = c.edges /\ d.stack = c.stack
      /\ d.links = c.links /\ d.bytes = c.bytes /\ d.expected = c.expected
  BY <1>2, <1>5 DEF Commands
<1>10. Between(d) /\ d.links = <<>> /\ d.bytes = {} /\ d.round = 0
  BY <1>1, <1>2, <1>9 DEF Between, Looking, Reading
<1>11. Looking(d) /\ Reading(d) /\ ~Busy(d)
  BY <1>2, <1>9, <1>10, Rests, Zenon
<1>12. Placed(d)
  BY <1>2, <1>7, <1>9 DEF Placed, Entering
<1>13. ~Entering(c) /\ ~Entering(d)
  BY <1>1, <1>9 DEF Entering
<1>14. ASSUME NEW p \in Paths
       PROVE  /\ Ahead(d, p) => Ahead(c, p)
              /\ Ahead(c, p) => Ahead(d, p) \/ None \in led[p]
  <2>1. CASE Len(c.edges) = 0
    <3>1. Len(c.todos) = 1 /\ Last(c.stack) = Raw
      BY <1>2, <2>1, Depth
    <3>2. Ahead(c, p) /\ (Ahead(d, p) <=> p[1] \in w)
      BY <1>1, <1>7, <1>9, <1>11, <2>1, <3>1 DEF Ahead
    <3>3. ASSUME p[1] \notin w
          PROVE  LeadsTo(entry, p) = None
      <4> SUFFICES ASSUME LeadsTo(entry, p) # None
                   PROVE  FALSE
        OBVIOUS
      <4>1. p[1] \in Names \ Ignored /\ entry[Raw][p[1]] \in Files \union Links \union {Sub}
        BY PathParts, Leads
      <4> QED
        BY <3>1, <3>3, <4>1, InodesAreDistinct DEF Inodes, Dirs
    <3> QED
      BY <1>1, <3>2, <3>3, NoSight
  <2>2. CASE Len(c.edges) = 1
    <3>1. Len(c.todos) = 2 /\ Last(c.stack) = Sub
      BY <1>2, <2>2, Depth
    <3>2. t[1] = c.todos[1] /\ t[2] = w
      BY <1>7, <3>1
    <3>3. Ahead(c, p) <=> p[1] \in c.todos[1] \/ p[1] = c.edges[1].name
      BY <1>1, <1>3, <2>2 DEF Ahead
    <3>4. Ahead(d, p) <=> \/ p[1] \in c.todos[1]
                          \/ p[1] = c.edges[1].name /\ (Len(p) = 1 \/ p[2] \in w)
      BY <1>9, <1>11, <1>13, <2>2, <3>2 DEF Ahead
    <3>5. ASSUME Len(p) # 1, p[2] \notin w
          PROVE  LeadsTo(entry, p) = None
      <4> SUFFICES ASSUME LeadsTo(entry, p) # None
                   PROVE  FALSE
        OBVIOUS
      <4>1. p[2] \in Names \ Ignored /\ entry[Sub][p[2]] \in Files \union Links
        BY <3>5, PathParts, Leads
      <4> QED
        BY <3>1, <3>5, <4>1, InodesAreDistinct DEF Inodes
    <3> QED
      BY <1>1, <3>3, <3>4, <3>5, NoSight
  <2> QED
    BY <1>2, <2>1, <2>2, Depth
<1>15. Misled(d)
  <2>1. Len(c.edges) = 1 => t[1] = c.todos[1]
    BY <1>2, <1>7, Depth
  <2> QED
    BY <1>3, <1>9, <1>11, <2>1 DEF Walked, Misled
<1>16. Reported' /\ items' \subseteq Items /\ skipped' \subseteq Paths
       /\ items' = items /\ skipped' = skipped
  BY <1>2, <1>4 DEF Reported, Typed, report
<1> QED
  BY <1>1, <1>2, <1>4, <1>8, <1>9, <1>11, <1>12, <1>14, <1>15, <1>16, GoesOn

\* The names that are left without the next one.
LeftOf(todos, name) == [todos EXCEPT ![Len(todos)] = Last(todos) \ {name}]

\* The next entry, and what is left after it.
LEMMA NextLeft ==
  ASSUME NEW c \in Commands, Placed(c), Last(c.todos) # {}, NEW name, name = Min(Last(c.todos)),
         NEW t, t = LeftOf(c.todos, name)
  PROVE  /\ name \in Last(c.todos) /\ name \in Names /\ Last(c.stack) \in Dirs
         /\ t \in Seq(SUBSET Names) /\ Len(t) = Len(c.todos)
         /\ Len(c.edges) = 0 => t[1] = c.todos[1] \ {name} /\ name \in c.todos[1]
         /\ Len(c.edges) = 1 =>
               t[1] = c.todos[1] /\ t[2] = c.todos[2] \ {name} /\ name \in c.todos[2]
<1>1. /\ c.todos \in Seq(SUBSET Names) /\ (Len(c.todos) = 1 \/ Len(c.todos) = 2)
      /\ Last(c.todos) \in SUBSET Names /\ Last(c.stack) \in Dirs
      /\ Len(c.edges) = 0 => Len(c.todos) = 1 /\ Last(c.todos) = c.todos[1]
      /\ Len(c.edges) = 1 => Len(c.todos) = 2 /\ Last(c.todos) = c.todos[2]
  BY Depth DEF Commands, Dirs
<1>2. name \in Last(c.todos) /\ name \in Names
  BY <1>1, NextName
<1>3. Last(c.todos) \ {name} \in SUBSET Names
  BY <1>1
<1>4. /\ t \in Seq(SUBSET Names) /\ Len(t) = Len(c.todos)
      /\ t[Len(c.todos)] = Last(c.todos) \ {name}
      /\ Len(c.todos) = 2 => t[1] = c.todos[1]
  BY <1>1, <1>3, LastChanged DEF LeftOf
<1> QED
  BY <1>1, <1>2, <1>4

\* An entry that is gone when it is looked at has a diagnostic.
LEMMA EntryGoneKeeps ==
  Inv /\ NextEntry /\ Stat(Last(command.stack), Min(Todo)) = None => Inv'
<1> SUFFICES ASSUME Inv, NextEntry, Stat(Last(command.stack), Min(Todo)) = None
             PROVE  Inv'
  OBVIOUS
<1>1. command # Idle /\ command.phase = "next" /\ Between(command)
  BY DEF NextEntry, InPhase, Between
<1> PICK c, d, name, t, path :
      /\ c = command /\ d = command' /\ name = Min(Last(c.todos))
      /\ t = LeftOf(c.todos, name)
      /\ path = Append(DirectoryPath, name)
  OBVIOUS
<1>2. c \in Commands /\ Placed(c) /\ Looking(c) /\ Reading(c) /\ Typed /\ Reported /\ c.op = "walk"
  BY <1>1, CommandFacts DEF Placed
<1>3. Walked(c) /\ ~Busy(c)
  BY <1>1, <1>2, CommandFacts DEF Busy, Seeking, Holding
<1>4. UNCHANGED <<world, items, led>> /\ Last(c.todos) # {}
  BY DEF NextEntry, Todo
<1>5. d = [c EXCEPT !.todos = t] /\ skipped' = skipped \union {path}
  <2>1. c.todos[Len(c.todos)] = Last(c.todos)
    BY DEF Last
  <2> QED
    BY <1>2, <2>1 DEF NextEntry, Todo, Skip, Commands, LeftOf
<1>6. /\ name \in Last(c.todos) /\ name \in Names /\ t \in Seq(SUBSET Names)
      /\ Len(t) = Len(c.todos)
      /\ Len(c.edges) = 0 => t[1] = c.todos[1] \ {name} /\ name \in c.todos[1]
      /\ Len(c.edges) = 1 =>
            t[1] = c.todos[1] /\ t[2] = c.todos[2] \ {name} /\ name \in c.todos[2]
  BY <1>2, <1>4, NextLeft, Zenon
<1>7. d \in Commands
  BY <1>2, <1>5, <1>6 DEF Commands
<1>8. /\ d.phase = "next" /\ d.round = c.round /\ d.todos = t
      /\ d.op = c.op /\ d.edges = c.edges /\ d.stack = c.stack
      /\ d.links = c.links /\ d.bytes = c.bytes /\ d.expected = c.expected
  BY <1>1, <1>2, <1>5 DEF Commands
<1>9. Between(d) /\ d.links = <<>> /\ d.bytes = {} /\ d.round = 0
  BY <1>1, <1>2, <1>8 DEF Between, Looking, Reading
<1>10. Looking(d) /\ Reading(d) /\ ~Busy(d)
  BY <1>2, <1>8, <1>9, Rests, Zenon
<1>11. Placed(d)
  BY <1>2, <1>6, <1>8 DEF Placed, Entering
<1>12. ~Entering(c) /\ ~Entering(d)
  BY <1>1, <1>8 DEF Entering
<1>13. /\ Len(c.edges) = 0 => path = <<name>>
       /\ Len(c.edges) = 1 => path = <<c.edges[1].name, name>> /\ c.edges[1].name \in Names
  BY <1>2, DirectoryPathIs, Tuples, Zenon
<1>14. path \in Paths /\ Ahead(c, path)
  <2>1. Len(c.edges) = 0 \/ Len(c.edges) = 1
    BY <1>2, Depth, Zenon
  <2>2. path \in Paths
    BY <1>6, <1>13, <2>1, PathsAre
  <2>3. Len(c.edges) = 0 => path[1] = name
    <3>1. <<name>>[1] = name
      BY Tuples, Zenon
    <3> QED
      BY <1>13, <3>1
  <2>4. Len(c.edges) = 1 => path[1] = c.edges[1].name /\ path[2] = name
    <3> PICK top : top = c.edges[1].name
      OBVIOUS
    <3>1. <<top, name>>[1] = top /\ <<top, name>>[2] = name
      BY Tuples, Zenon
    <3> QED
      BY <1>13, <3>1
  <2> QED
    BY <1>6, <2>1, <2>2, <2>3, <2>4 DEF Ahead
<1>15. path \notin skipped /\ \A item \in items : item.path # path
  BY <1>3, <1>14 DEF Walked
<1>16. path \in skipped'
  BY <1>5
<1>17. ASSUME NEW p \in Paths
       PROVE  /\ Ahead(d, p) => Ahead(c, p) /\ p # path
              /\ Ahead(c, p) => Ahead(d, p) \/ Accounted(p)'
  <2>0. (Len(p) = 1 /\ p = <<p[1]>>) \/ (Len(p) = 2 /\ p = <<p[1], p[2]>>)
    BY PathParts, Zenon
  <2>1. CASE Len(c.edges) = 0
    <3>1. Ahead(c, p) <=> p[1] \in c.todos[1]
      BY <1>1, <1>3, <2>1 DEF Ahead
    <3>2. Ahead(d, p) <=> p[1] \in c.todos[1] \ {name}
      BY <1>6, <1>8, <1>10, <2>1 DEF Ahead
    <3>3. path[1] = name /\ path = <<name>>
      BY <1>13, <2>1, Tuples
    <3>4. p[1] = name => Accounted(p)'
      BY <1>16, <3>3, Hides
    <3> QED
      BY <3>1, <3>2, <3>3, <3>4
  <2>2. CASE Len(c.edges) = 1
    <3>1. Ahead(c, p) <=> \/ p[1] \in c.todos[1]
                          \/ p[1] = c.edges[1].name /\ (Len(p) = 1 \/ p[2] \in c.todos[2])
      BY <1>1, <1>3, <1>12, <2>2 DEF Ahead
    <3>2. Ahead(d, p) <=> \/ p[1] \in c.todos[1]
                          \/ /\ p[1] = c.edges[1].name
                             /\ Len(p) = 1 \/ p[2] \in c.todos[2] \ {name}
      BY <1>6, <1>8, <1>10, <1>12, <2>2 DEF Ahead
    <3>3. path[1] = c.edges[1].name /\ path[2] = name /\ Len(path) = 2
          /\ path = <<c.edges[1].name, name>>
      <4> PICK top : top = c.edges[1].name
        OBVIOUS
      <4>1. <<top, name>>[1] = top /\ <<top, name>>[2] = name /\ Len(<<top, name>>) = 2
        BY Tuples, Zenon
      <4>2. path = <<top, name>>
        BY <1>13, <2>2
      <4> QED
        BY <4>1, <4>2, Zenon
    <3>4. c.edges[1].name \notin c.todos[1]
      BY <1>3, <2>2 DEF Walked, Misled
    <3>5. Ahead(d, p) => Ahead(c, p) /\ p # path
      BY <3>1, <3>2, <3>3, <3>4
    <3>6. ASSUME Ahead(c, p), ~Ahead(d, p)
          PROVE  p = path
      BY <2>0, <3>1, <3>2, <3>3, <3>6
    <3> QED
      BY <1>16, <3>5, <3>6, Hides
  <2> QED
    BY <1>2, <2>1, <2>2, Depth
<1>18. Misled(d)
  BY <1>3, <1>6, <1>8, <1>10 DEF Walked, Misled
<1>19. items' = items /\ items \subseteq Items /\ skipped \subseteq Paths
  BY <1>2, <1>4 DEF Typed
<1>20. Reported'
  BY <1>2, <1>5, <1>15, <1>19 DEF Reported
<1> QED
  BY <1>1, <1>2, <1>4, <1>5, <1>7, <1>8, <1>10, <1>11, <1>14, <1>17, <1>18, <1>19, <1>20, GoesOn

\* An entry that is there is what the walk is at next.
LEMMA EntrySeenKeeps ==
  Inv /\ NextEntry /\ Stat(Last(command.stack), Min(Todo)) # None => Inv'
<1> SUFFICES ASSUME Inv, NextEntry, Stat(Last(command.stack), Min(Todo)) # None
             PROVE  Inv'
  OBVIOUS
<1>1. command # Idle /\ command.phase = "next" /\ Between(command)
  BY DEF NextEntry, InPhase, Between
<1> PICK c, d, name, t, dir, seen :
      /\ c = command /\ d = command' /\ name = Min(Last(c.todos))
      /\ t = LeftOf(c.todos, name)
      /\ dir = Last(c.stack) /\ seen = Stat(dir, name)
  OBVIOUS
<1>2. c \in Commands /\ Placed(c) /\ Looking(c) /\ Reading(c) /\ Typed /\ Reported /\ c.op = "walk"
  BY <1>1, CommandFacts DEF Placed
<1>3. Walked(c) /\ ~Busy(c)
  BY <1>1, <1>2, CommandFacts DEF Busy, Seeking, Holding
<1>4. UNCHANGED <<world, report, led>> /\ Last(c.todos) # {} /\ seen # None
  BY DEF NextEntry, Todo, report
<1>5. d = [c EXCEPT !.todos = t, !.phase = "open", !.at = seen, !.source = seen]
  <2>1. c.todos[Len(c.todos)] = Last(c.todos)
    BY DEF Last
  <2> QED
    BY <1>2, <1>4, <2>1 DEF NextEntry, Todo, Commands, LeftOf
<1>6. /\ name \in Last(c.todos) /\ name \in Names /\ t \in Seq(SUBSET Names)
      /\ Last(c.stack) \in Dirs
      /\ Len(t) = Len(c.todos)
      /\ Len(c.edges) = 0 => t[1] = c.todos[1] \ {name} /\ name \in c.todos[1]
      /\ Len(c.edges) = 1 =>
            t[1] = c.todos[1] /\ t[2] = c.todos[2] \ {name} /\ name \in c.todos[2]
  BY <1>2, <1>4, NextLeft, Zenon
<1>7. /\ seen \in Seen /\ seen.name = name /\ seen.dir = Last(c.stack)
      /\ seen.inode = entry[seen.dir][name]
      /\ seen.inode \in Dirs => seen.inode = Sub /\ seen.dir # Sub
  <2>1. Typed /\ dir \in Dirs /\ name \in Names /\ seen # None
    BY <1>2, <1>4, <1>6
  <2>2. /\ seen \in Seen /\ seen.dir = dir /\ seen.name = name /\ seen.inode = entry[dir][name]
        /\ seen.inode \in Dirs => seen.inode = Sub /\ seen.dir # Sub
    BY <2>1, StatSeen
  <2> QED
    BY <2>2
<1>8. d \in Commands
  <2>1. c \in Commands /\ t \in Seq(SUBSET Names) /\ seen \in Seen \union {None}
    BY <1>2, <1>6, <1>7
  <2> QED
    BY <1>5, <2>1 DEF Commands, Phases
<1>9. /\ d.phase = "open" /\ d.round = c.round /\ d.todos = t /\ d.at = seen /\ d.source = seen
      /\ d.op = c.op /\ d.edges = c.edges /\ d.stack = c.stack
      /\ d.links = c.links /\ d.bytes = c.bytes /\ d.expected = c.expected
  BY <1>1, <1>2, <1>5 DEF Commands
<1>10. c.links = <<>> /\ c.bytes = {} /\ c.round = 0 /\ Len(c.links) <= MaxLinks
  BY <1>1, <1>2, BoundsAreNaturals DEF Looking, Reading
<1>11. Looking(d) /\ Busy(d)
  BY <1>7, <1>9, <1>10 DEF Looking, Busy, Seeking, Holding, Between, Entering
<1>12. Reading(d)
  BY <1>2, <1>9, <1>10 DEF Reading, Seeking, Holding
<1>13. Placed(d)
  BY <1>2, <1>6, <1>9 DEF Placed, Entering
<1>14. ~Entering(c) /\ ~Entering(d)
  BY <1>1, <1>9 DEF Entering
<1>15. ASSUME NEW p \in Paths
       PROVE  Ahead(d, p) <=> Ahead(c, p)
  <2>1. CASE Len(c.edges) = 0
    <3>1. Ahead(c, p) <=> p[1] \in c.todos[1]
      BY <1>1, <1>3, <2>1 DEF Ahead
    <3>2. Ahead(d, p) <=> p[1] \in c.todos[1] \ {name} \/ p[1] = name
      BY <1>6, <1>7, <1>9, <1>11, <2>1 DEF Ahead
    <3> QED
      BY <1>6, <2>1, <3>1, <3>2
  <2>2. CASE Len(c.edges) = 1
    <3>1. Ahead(c, p) <=> \/ p[1] \in c.todos[1]
                          \/ p[1] = c.edges[1].name /\ (Len(p) = 1 \/ p[2] \in c.todos[2])
      BY <1>1, <1>3, <1>14, <2>2 DEF Ahead
    <3>2. Ahead(d, p) <=> \/ p[1] \in c.todos[1]
                          \/ /\ p[1] = c.edges[1].name
                             /\ Len(p) = 1 \/ p[2] \in c.todos[2] \ {name} \/ p[2] = name
      BY <1>6, <1>7, <1>9, <1>11, <1>14, <2>2 DEF Ahead
    <3> QED
      BY <1>6, <2>2, <3>1, <3>2
  <2> QED
    BY <1>2, <2>1, <2>2, Depth
<1>16. Misled(d)
  <2>1. CASE Len(c.edges) = 0
    <3>1. seen.dir = Raw /\ Last(t) = t[1] /\ seen.name \notin t[1]
      <4>1. Len(d.edges) = 0 /\ d \in Commands /\ Placed(d)
        BY <1>8, <1>9, <1>13, <2>1
      <4> QED
        BY <1>2, <1>6, <1>7, <1>9, <2>1, <4>1, Depth
    <3>2. ASSUME seen.inode = Sub
          PROVE  None \in led[<<name>>]
      <4>1. <<name>> \in Paths /\ Len(<<name>>) = 1 /\ <<name>>[1] = name
        BY <1>6, PathsAre
      <4>2. entry[Raw][name] = Sub /\ Sub \notin Files \union Links
        BY <1>7, <3>1, <3>2, InodesAreDistinct DEF Dirs
      <4>3. LeadsTo(entry, <<name>>) = None
        BY <4>1, <4>2, Leads
      <4> QED
        BY <1>1, <4>1, <4>3, NoSight
    <3>3. ASSUME seen.inode # Sub, NEW m \in Names
          PROVE  None \in led[<<name, m>>]
      <4>1. <<name, m>> \in Paths /\ Len(<<name, m>>) = 2 /\ <<name, m>>[1] = name
        BY <1>6, PathsAre
      <4>2. entry[Raw][name] # Sub
        BY <1>7, <3>1, <3>3
      <4>3. LeadsTo(entry, <<name, m>>) = None
        BY <4>1, <4>2, Leads
      <4> QED
        BY <1>1, <4>1, <4>3, NoSight
    <3> QED
      BY <1>7, <1>9, <2>1, <3>1, <3>2, <3>3 DEF Misled
  <2>2. CASE Len(c.edges) = 1
    <3>1. Last(t) = t[2] /\ seen.name \notin t[2] /\ t[1] = c.todos[1]
      <4>1. Len(d.edges) = 1 /\ d \in Commands /\ Placed(d)
        BY <1>8, <1>9, <1>13, <2>2
      <4> QED
        BY <1>6, <1>7, <1>9, <2>2, <4>1, Depth
    <3> QED
      BY <1>3, <1>9, <2>2, <3>1 DEF Walked, Misled
  <2> QED
    BY <1>2, <2>1, <2>2, Depth
<1>17. items' = items /\ items \subseteq Items /\ skipped \subseteq Paths /\ skipped' = skipped
  BY <1>2, <1>4 DEF Typed, report
<1>18. Reported'
  BY <1>2, <1>17 DEF Reported
<1> QED
  BY <1>1, <1>2, <1>4, <1>8, <1>9, <1>11, <1>12, <1>13, <1>15, <1>16, <1>17, <1>18, GoesOn

-----------------------------------------------------------------------------
(* The walk is done with an entry, or with a directory.                    *)

\* What is forgotten with an entry: the entry itself, ...
LEMMA ForgetsEntry ==
  ASSUME NEW c \in Commands, NEW phase \in Phases,
         NEW d, d = [c EXCEPT !.phase = phase, !.at = None, !.source = None, !.links = <<>>,
                              !.rstack = <<>>, !.pending = <<>>]
  PROVE  d \in Commands
<1>1. <<>> \in Seq(Seen) /\ <<>> \in Seq(Dirs) /\ <<>> \in Seq(Names \union {Up})
  OBVIOUS
<1> QED
  BY <1>1 DEF Commands

\* ... its content, ...
LEMMA ForgetsContent ==
  ASSUME NEW c \in Commands,
         NEW d, d = [c EXCEPT !.text = None, !.owned = <<>>, !.content = None]
  PROVE  d \in Commands
<1>1. <<>> \in Seq(Edges)
  OBVIOUS
<1> QED
  BY <1>1 DEF Commands

\* ... and how far its validation had come.
LEMMA ForgetsChecks ==
  ASSUME NEW c \in Commands,
         NEW d, d = [c EXCEPT !.bytes = {}, !.checks = <<>>, !.round = 0]
  PROVE  d \in Commands
<1>1. <<>> \in Seq(Kept) /\ 0 \in Nat /\ {} \in SUBSET Versions
  OBVIOUS
<1> QED
  BY <1>1 DEF Commands

\* Where a reader is, and why, is not forgotten.
LEMMA Forgets ==
  ASSUME command \in Commands, NEW phase \in Phases, NEW d, d = Forget(phase)
  PROVE  /\ d \in Commands /\ d.phase = phase /\ d.links = <<>> /\ d.bytes = {} /\ d.round = 0
         /\ d.op = command.op /\ d.edges = command.edges /\ d.stack = command.stack
         /\ d.todos = command.todos /\ d.expected = command.expected /\ d.route = command.route
<1> PICK c : c = command
  OBVIOUS
<1>1. c \in Commands
  OBVIOUS
<1>2. d = [c EXCEPT !.phase = phase, !.at = None, !.source = None, !.links = <<>>, !.rstack = <<>>,
                    !.pending = <<>>, !.text = None, !.owned = <<>>, !.content = None, !.bytes = {},
                    !.checks = <<>>, !.round = 0]
  BY DEF Forget
<1>3. /\ d.phase = phase /\ d.links = <<>> /\ d.bytes = {} /\ d.round = 0
      /\ d.op = c.op /\ d.edges = c.edges /\ d.stack = c.stack
      /\ d.todos = c.todos /\ d.expected = c.expected /\ d.route = c.route
  BY <1>1, <1>2 DEF Commands
<1> PICK e : e = [c EXCEPT !.phase = phase, !.at = None, !.source = None, !.links = <<>>,
                           !.rstack = <<>>, !.pending = <<>>]
  OBVIOUS
<1> PICK f : f = [e EXCEPT !.text = None, !.owned = <<>>, !.content = None]
  OBVIOUS
<1>4. d = [f EXCEPT !.bytes = {}, !.checks = <<>>, !.round = 0]
  BY <1>1, <1>2 DEF Commands
<1>5. e \in Commands
  BY <1>1, ForgetsEntry
<1>6. f \in Commands
  BY <1>5, ForgetsContent
<1>7. d \in Commands
  BY <1>4, <1>6, ForgetsChecks
<1> QED
  BY <1>3, <1>7

\* What a walk has left behind when it is done with an entry: the entry, and what
\* would have been below it.
LEMMA EntryLeft ==
  ASSUME Inv, command # Idle, command.op = "walk", Busy(command),
         NEW d, d.phase = "next", d.edges = command.edges, d.todos = command.todos
  PROVE  /\ Path \in Paths /\ Ahead(command, Path)
         /\ \A p \in Paths :
               /\ Ahead(d, p) => Ahead(command, p) /\ p # Path
               /\ Ahead(command, p) =>
                     \/ Ahead(d, p) \/ p = Path
                     \/ /\ Len(command.edges) = 0 /\ p \in Names \X Names
                        /\ p[1] = command.source.name /\ <<p[1]>> = Path
<1> PICK c, path, n : c = command /\ path = Path /\ n = c.source.name
  OBVIOUS
<1>1. c \in Commands /\ Placed(c) /\ Walked(c) /\ c.source \in Seen /\ n \in Names
  BY CommandFacts DEF Looking, Seen
<1>2. /\ Len(c.edges) = 0 => path = <<n>>
      /\ Len(c.edges) = 1 => path = <<c.edges[1].name, n>>
      /\ path \in Paths
  BY <1>1, PathIs
<1>3. c.phase # "list" /\ ~Entering(c) /\ ~Entering(d) /\ ~Busy(d)
  BY DEF Busy, Entering, Seeking, Holding
<1>4. n \notin Last(c.todos)
  BY <1>1 DEF Walked, Misled
<1>5. CASE Len(c.edges) = 0
  <2>1. Last(c.todos) = c.todos[1]
    BY <1>1, <1>5, Depth
  <2>2. \A p : Ahead(c, p) <=> p[1] \in c.todos[1] \/ p[1] = n
    BY <1>3, <1>5 DEF Ahead
  <2>3. \A p : Ahead(d, p) <=> p[1] \in c.todos[1]
    BY <1>3, <1>5 DEF Ahead
  <2>4. path = <<n>> /\ path[1] = n
    BY <1>2, <1>5, Tuples
  <2>5. Ahead(c, path)
    BY <2>2, <2>4
  <2>6. ASSUME NEW p \in Paths
        PROVE  /\ Ahead(d, p) => Ahead(c, p) /\ p # path
               /\ Ahead(c, p) =>
                     Ahead(d, p) \/ p = path \/ (p \in Names \X Names /\ p[1] = n /\ <<p[1]>> = path)
    <3>1. (p = <<p[1]>>) \/ (p = <<p[1], p[2]>> /\ p[1] \in Names /\ p[2] \in Names)
      BY PathParts, Zenon
    <3>2. p = <<p[1]>> \/ p \in Names \X Names
      BY <3>1
    <3> QED
      BY <1>4, <2>1, <2>2, <2>3, <2>4, <3>2
  <2> QED
    BY <1>2, <1>5, <2>5, <2>6
<1>6. CASE Len(c.edges) = 1
  <2> PICK top : top = c.edges[1].name
    OBVIOUS
  <2>1. Last(c.todos) = c.todos[2] /\ top \notin c.todos[1]
    BY <1>1, <1>6, Depth DEF Walked, Misled
  <2>2. \A p : Ahead(c, p) <=> \/ p[1] \in c.todos[1]
                               \/ p[1] = top /\ (Len(p) = 1 \/ p[2] \in c.todos[2] \/ p[2] = n)
    BY <1>3, <1>6 DEF Ahead
  <2>3. \A p : Ahead(d, p) <=> \/ p[1] \in c.todos[1]
                               \/ p[1] = top /\ (Len(p) = 1 \/ p[2] \in c.todos[2])
    BY <1>3, <1>6 DEF Ahead
  <2>4. path = <<top, n>> /\ path[1] = top /\ path[2] = n /\ Len(path) = 2
    <3>1. path = <<top, n>>
      BY <1>2, <1>6
    <3>2. <<top, n>>[1] = top /\ <<top, n>>[2] = n /\ Len(<<top, n>>) = 2
      BY Tuples, Zenon
    <3> QED
      BY <3>1, <3>2, Zenon
  <2>5. Ahead(c, path)
    BY <2>2, <2>4
  <2>6. ASSUME NEW p \in Paths
        PROVE  /\ Ahead(d, p) => Ahead(c, p) /\ p # path
               /\ Ahead(c, p) => Ahead(d, p) \/ p = path
    <3>1. Len(p) = 1 \/ p = <<p[1], p[2]>>
      BY PathParts, Zenon
    <3> QED
      BY <1>4, <2>1, <2>2, <2>3, <2>4, <3>1
  <2> QED
    BY <1>2, <2>5, <2>6
<1> QED
  BY <1>1, <1>5, <1>6, Depth

\* An entry that cannot be read has a diagnostic, and so has what is below.
LEMMA WalkFails == Inv /\ Fail /\ UNCHANGED world /\ command # Idle /\ Busy(command)
                   /\ command.op = "walk" => Inv'
<1> SUFFICES ASSUME Inv, Fail, UNCHANGED world, command # Idle, Busy(command), command.op = "walk"
             PROVE  Inv'
  OBVIOUS
<1> PICK c, d, path : c = command /\ d = command' /\ path = Path
  OBVIOUS
<1>1. c \in Commands /\ Placed(c) /\ Looking(c) /\ Reading(c) /\ Typed /\ Reported /\ Walked(c)
  BY CommandFacts
<1>2. d = Forget("next") /\ skipped' = skipped \union {path} /\ UNCHANGED <<items, led>>
  BY DEF Fail, Skip
<1>3. /\ d \in Commands /\ d.phase = "next" /\ d.links = <<>> /\ d.bytes = {} /\ d.round = 0
      /\ d.op = c.op /\ d.edges = c.edges /\ d.stack = c.stack /\ d.todos = c.todos
      /\ d.expected = c.expected
  BY <1>1, <1>2, Forgets DEF Phases
<1>4. Between(d)
  BY <1>3 DEF Between
<1>5. Looking(d) /\ Reading(d) /\ ~Busy(d)
  BY <1>1, <1>3, <1>4, Rests, Zenon
<1>6. Placed(d)
  BY <1>1, <1>3 DEF Placed, Entering
<1>7. /\ path \in Paths /\ Ahead(c, path)
      /\ \A p \in Paths :
            /\ Ahead(d, p) => Ahead(c, p) /\ p # path
            /\ Ahead(c, p) =>
                  \/ Ahead(d, p) \/ p = path
                  \/ /\ Len(c.edges) = 0 /\ p \in Names \X Names
                     /\ p[1] = c.source.name /\ <<p[1]>> = path
  BY <1>3, EntryLeft
<1>8. \A p \in Paths : p = path \/ <<p[1]>> = path => Accounted(p)'
  BY <1>2, Hides
<1>9. path \notin skipped /\ \A item \in items : item.path # path
  BY <1>1, <1>7 DEF Walked
<1>10. Misled(d)
  BY <1>1, <1>3, <1>5 DEF Walked, Misled
<1>11. items' = items /\ items \subseteq Items /\ skipped' \subseteq Paths /\ skipped \subseteq skipped'
  BY <1>1, <1>2, <1>7 DEF Typed
<1>12. Reported'
  BY <1>1, <1>2, <1>9, <1>11 DEF Reported
<1> QED
  BY <1>2, <1>3, <1>5, <1>6, <1>7, <1>8, <1>10, <1>11, <1>12, GoesOn

\* A file that has been read is an item.
LEMMA AddItemKeeps == Inv /\ AddItem => Inv'
<1> SUFFICES ASSUME Inv, AddItem
             PROVE  Inv'
  OBVIOUS
<1>1. command # Idle /\ command.phase = "accepted" /\ Busy(command) /\ Holding(command)
      /\ command.op = "walk"
  BY DEF AddItem, InPhase, Busy, Holding
<1> PICK c, d, path, new :
      /\ c = command /\ d = command' /\ path = Path
      /\ new = [path |-> path, version |-> c.content.version, bytes |-> c.bytes]
  OBVIOUS
<1>2. c \in Commands /\ Placed(c) /\ Looking(c) /\ Reading(c) /\ Typed /\ Reported /\ Walked(c)
  BY <1>1, CommandFacts
<1>3. d = Forget("next") /\ items' = items \union {new} /\ UNCHANGED <<world, skipped, led>>
  BY DEF AddItem
<1>4. /\ d \in Commands /\ d.phase = "next" /\ d.links = <<>> /\ d.bytes = {} /\ d.round = 0
      /\ d.op = c.op /\ d.edges = c.edges /\ d.stack = c.stack /\ d.todos = c.todos
      /\ d.expected = c.expected
  BY <1>2, <1>3, Forgets DEF Phases
<1>5. Between(d)
  BY <1>4 DEF Between
<1>6. Looking(d) /\ Reading(d) /\ ~Busy(d)
  BY <1>2, <1>4, <1>5, Rests, Zenon
<1>7. Placed(d)
  BY <1>1, <1>2, <1>4 DEF Placed, Entering
<1>8. /\ path \in Paths /\ Ahead(c, path)
      /\ \A p \in Paths :
            /\ Ahead(d, p) => Ahead(c, p) /\ p # path
            /\ Ahead(c, p) =>
                  \/ Ahead(d, p) \/ p = path
                  \/ /\ Len(c.edges) = 0 /\ p \in Names \X Names
                     /\ p[1] = c.source.name /\ <<p[1]>> = path
  BY <1>1, <1>4, EntryLeft
<1>9. c.content.version \in Versions /\ c.bytes = {c.content.version}
  BY <1>1, <1>2 DEF Reading
<1>10. new \in Items /\ new.path = path /\ new.bytes = {new.version}
  BY <1>8, <1>9 DEF Items
<1>11. path \notin skipped /\ \A item \in items : item.path # path
  BY <1>2, <1>8 DEF Walked
<1>12. ASSUME NEW p \in Paths, Ahead(c, p)
       PROVE  Ahead(d, p) \/ None \in led[p] \/ Accounted(p)'
  <2>1. CASE p = path
    <3>1. \E item \in items' : item.path = p
      BY <1>3, <1>10, <2>1
    <3> QED
      BY <3>1 DEF Accounted
  <2>2. CASE Len(c.edges) = 0 /\ p \in Names \X Names /\ p[1] = c.source.name
    <3>1. PICK m \in Names : p = <<c.source.name, m>>
      BY <2>2
    <3>2. c.source.inode # Sub
      BY <1>1, <1>2 DEF Looking
    <3>3. \A k \in Names : None \in led[<<c.source.name, k>>]
      BY <1>1, <1>2, <2>2, <3>2 DEF Walked, Misled
    <3> QED
      BY <3>1, <3>3
  <2> QED
    BY <1>8, <1>12, <2>1, <2>2
<1>13. Misled(d)
  BY <1>2, <1>4, <1>6 DEF Walked, Misled
<1>14. /\ items \subseteq items' /\ items' \subseteq Items /\ skipped' = skipped
       /\ skipped \subseteq Paths
  BY <1>2, <1>3, <1>10 DEF Typed
<1>15. Reported'
  BY <1>2, <1>3, <1>10, <1>11, <1>14 DEF Reported
<1>16. \A item \in items' \ items : item.path = path
  BY <1>3, <1>10
<1> QED
  BY <1>1, <1>3, <1>4, <1>6, <1>7, <1>8, <1>12, <1>13, <1>14, <1>15, <1>16, GoesOn

\* From the directory below back to sources/raw.
LEMMA Leaves ==
  ASSUME NEW c \in Commands, Placed(c), Len(c.edges) = 1
  PROVE  /\ Front(c.stack) = <<Raw>> /\ Front(c.stack) \in Seq(Dirs)
         /\ Len(Front(c.stack)) = 1 /\ Front(c.stack)[1] = Raw
         /\ Front(c.edges) = <<>> /\ Front(c.edges) \in Seq(Edges) /\ Len(Front(c.edges)) = 0
         /\ Front(c.todos) \in Seq(SUBSET Names) /\ Len(Front(c.todos)) = 1
         /\ Front(c.todos)[1] = c.todos[1]
<1> PICK e, s, t : e = c.edges /\ s = c.stack /\ t = c.todos
  OBVIOUS
<1>1. e \in Seq(Edges) /\ s \in Seq(Dirs) /\ t \in Seq(SUBSET Names)
  BY DEF Commands
<1>2. Len(e) = 1 /\ s[1] = Raw
  BY Zenon DEF Placed
<1>3. Len(s) = Len(e) + 1 /\ Len(t) = Len(e) + 1
  BY Zenon DEF Placed
<1>4. Len(s) = 2 /\ Len(t) = 2
  BY <1>2, <1>3
<1>5. Front(s) = <<s[1]>> /\ s[1] \in Dirs
  BY <1>1, <1>4, TwoLong, Zenon
<1>6. Front(e) = <<>>
  BY <1>1, <1>2, OneLong, Zenon
<1>7. Front(t) = <<t[1]>> /\ t[1] \in SUBSET Names
  BY <1>1, <1>4, TwoLong, Zenon
<1>8. Len(<<s[1]>>) = 1 /\ <<s[1]>>[1] = s[1] /\ Len(<<t[1]>>) = 1 /\ <<t[1]>>[1] = t[1]
  BY Tuples, Zenon
<1>9. <<s[1]>> \in Seq(Dirs) /\ <<t[1]>> \in Seq(SUBSET Names)
      /\ <<>> \in Seq(Edges) /\ Len(<<>>) = 0
  BY <1>5, <1>7
<1> QED
  BY <1>2, <1>5, <1>6, <1>7, <1>8, <1>9, Zenon

\* A walk goes on in sources/raw.
LEMMA AtTop ==
  ASSUME NEW d, NEW s, NEW e, NEW t, d.stack = s, d.edges = e, d.todos = t,
         Len(s) = 1, Len(e) = 0, Len(t) = 1, s[1] = Raw,
         d.phase = "next", d.op = "walk"
  PROVE  Placed(d)
BY DEF Placed, Entering

\* A directory that is done with takes with it only the path that it is itself.
LEMMA LeaveDirectoryKeeps == Inv /\ LeaveDirectory => Inv'
<1> SUFFICES ASSUME Inv, LeaveDirectory
             PROVE  Inv'
  OBVIOUS
<1>1. command # Idle /\ command.phase = "next" /\ Between(command) /\ command.op = "walk"
  BY DEF LeaveDirectory, InPhase, Between
<1> PICK c, d, s, e, t :
      /\ c = command /\ d = command'
      /\ s = Front(c.stack) /\ e = Front(c.edges) /\ t = Front(c.todos)
  OBVIOUS
<1>2. c \in Commands /\ Placed(c) /\ Looking(c) /\ Reading(c) /\ Typed /\ Reported /\ Walked(c)
  BY <1>1, CommandFacts
<1>3. ~Busy(c) /\ ~Entering(c)
  BY <1>1 DEF Busy, Seeking, Holding, Entering
<1>4. UNCHANGED <<world, report, led>> /\ Last(c.todos) = {}
  BY DEF LeaveDirectory, Todo
<1>5. c.links = <<>> /\ c.bytes = {} /\ c.round = 0
  BY <1>1, <1>2 DEF Looking, Reading
<1>6. items' = items /\ items \subseteq Items /\ skipped \subseteq Paths /\ skipped' = skipped
  BY <1>2, <1>4 DEF Typed, report
<1>7. Reported'
  BY <1>2, <1>6 DEF Reported
<1>8. CASE Len(c.edges) = 0
  <2>1. Len(c.stack) = 1 /\ Last(c.todos) = c.todos[1]
    <3>1. Len(c.stack) = Len(c.edges) + 1
      BY <1>2, Zenon DEF Placed
    <3>2. Last(c.todos) = c.todos[1]
      BY <1>2, <1>8, Depth
    <3> QED
      BY <1>8, <3>1, <3>2
  <2>2. d = [c EXCEPT !.phase = "reported"]
    BY <2>1 DEF LeaveDirectory
  <2>3. d \in Commands
    BY <1>2, <2>2 DEF Commands, Phases
  <2>4. /\ d.phase = "reported" /\ d.round = c.round /\ d.links = c.links /\ d.bytes = c.bytes
        /\ d.op = c.op /\ d.edges = c.edges /\ d.stack = c.stack /\ d.todos = c.todos
        /\ d.expected = c.expected
    BY <1>2, <2>2 DEF Commands
  <2>5. Between(d) /\ ~Entering(d)
    BY <2>4 DEF Between, Entering
  <2>6. Looking(d) /\ Reading(d) /\ ~Busy(d)
    BY <1>2, <1>5, <2>4, <2>5, Rests
  <2>7. Placed(d)
    BY <1>1, <1>2, <1>4, <1>8, <2>1, <2>4, <2>5 DEF Placed
  <2>8. \A p : Ahead(d, p) <=> Ahead(c, p)
    BY <1>1, <1>3, <1>8, <2>4, <2>5, <2>6 DEF Ahead
  <2>9. Misled(d)
    BY <1>2, <1>8, <2>4, <2>6 DEF Walked, Misled
  <2> QED
    BY <1>1, <1>4, <1>6, <1>7, <2>3, <2>4, <2>6, <2>7, <2>8, <2>9, GoesOn
<1>9. CASE Len(c.edges) = 1
  <2>1. Len(c.stack) = 2 /\ Last(c.todos) = c.todos[2]
    <3>1. Len(c.stack) = Len(c.edges) + 1
      BY <1>2, Zenon DEF Placed
    <3>2. Last(c.todos) = c.todos[2]
      BY <1>2, <1>9, Depth
    <3> QED
      BY <1>9, <3>1, <3>2
  <2>2. d = [c EXCEPT !.stack = s, !.edges = e, !.todos = t]
    BY <2>1 DEF LeaveDirectory
  <2>3. /\ s \in Seq(Dirs) /\ Len(s) = 1 /\ s[1] = Raw
        /\ e \in Seq(Edges) /\ Len(e) = 0
        /\ t \in Seq(SUBSET Names) /\ Len(t) = 1 /\ t[1] = c.todos[1]
    BY <1>2, <1>9, Leaves, Zenon
  <2>4. d \in Commands
    BY <1>2, <2>2, <2>3 DEF Commands
  <2>5. /\ d.phase = c.phase /\ d.round = c.round /\ d.links = c.links /\ d.bytes = c.bytes
        /\ d.op = c.op /\ d.edges = e /\ d.stack = s /\ d.todos = t
        /\ d.expected = c.expected
    BY <1>2, <2>2 DEF Commands
  <2>6. Between(d) /\ ~Entering(d)
    BY <1>1, <2>5 DEF Between, Entering
  <2>7. Looking(d) /\ Reading(d) /\ ~Busy(d)
    BY <1>2, <1>5, <2>5, <2>6, Rests
  <2>8. Placed(d)
    BY <1>1, <2>3, <2>5, AtTop
  <2>9. c.edges[1].name \notin c.todos[1] /\ None \in led[<<c.edges[1].name>>]
    BY <1>2, <1>9 DEF Walked, Misled
  <2>10. ASSUME NEW p \in Paths
         PROVE  /\ Ahead(d, p) => Ahead(c, p)
                /\ Ahead(c, p) => Ahead(d, p) \/ None \in led[p]
    <3>1. Ahead(c, p) <=> p[1] \in c.todos[1] \/ (p[1] = c.edges[1].name /\ Len(p) = 1)
      BY <1>1, <1>3, <1>4, <1>9, <2>1 DEF Ahead
    <3>2. Ahead(d, p) <=> p[1] \in c.todos[1]
      BY <1>1, <2>3, <2>5, <2>7 DEF Ahead
    <3>3. Len(p) = 1 => p = <<p[1]>>
      BY PathParts
    <3> QED
      BY <2>9, <3>1, <3>2, <3>3
  <2>11. Misled(d)
    BY <2>3, <2>5, <2>7 DEF Misled
  <2> QED
    BY <1>1, <1>4, <1>6, <1>7, <2>4, <2>5, <2>7, <2>8, <2>10, <2>11, GoesOn
<1> QED
  BY <1>2, <1>8, <1>9, Depth

\* A directory that was moved before it was listed has a diagnostic.
LEMMA DirectoryMovedKeeps == Inv /\ DirectoryMoved => Inv'
<1> SUFFICES ASSUME Inv, DirectoryMoved
             PROVE  Inv'
  OBVIOUS
<1>1. command # Idle /\ command.phase = "check" /\ Entering(command) /\ Between(command)
  BY DEF DirectoryMoved, InPhase, Entering, Between
<1> PICK c, d, f, path, s, e, t :
      /\ c = command /\ d = command' /\ f = Forget("next") /\ path = DirectoryPath
      /\ s = Front(c.stack) /\ e = Front(c.edges) /\ t = Front(c.todos)
  OBVIOUS
<1>2. /\ c \in Commands /\ Placed(c) /\ Looking(c) /\ Reading(c) /\ Typed /\ Reported
      /\ c.op = "walk" /\ Len(c.edges) = 1
  BY <1>1, CommandFacts DEF Placed
<1>3. Walked(c) /\ ~Busy(c)
  BY <1>1, <1>2, CommandFacts DEF Busy, Seeking, Holding, Entering
<1>4. /\ UNCHANGED <<world, items, led>> /\ skipped' = skipped \union {path}
      /\ d = [f EXCEPT !.stack = Front(@), !.edges = Front(@), !.todos = Front(@)]
  BY DEF DirectoryMoved, Skip
<1>5. /\ f \in Commands /\ f.phase = "next" /\ f.links = <<>> /\ f.bytes = {} /\ f.round = 0
      /\ f.op = c.op /\ f.edges = c.edges /\ f.stack = c.stack /\ f.todos = c.todos
      /\ f.expected = c.expected
  BY <1>2, Forgets DEF Phases
<1>6. d = [f EXCEPT !.stack = s, !.edges = e, !.todos = t]
  BY <1>4, <1>5 DEF Commands
<1>7. /\ s \in Seq(Dirs) /\ Len(s) = 1 /\ s[1] = Raw
      /\ e \in Seq(Edges) /\ Len(e) = 0
      /\ t \in Seq(SUBSET Names) /\ Len(t) = 1 /\ t[1] = c.todos[1]
  BY <1>2, Leaves, Zenon
<1>8. d \in Commands
  BY <1>5, <1>6, <1>7 DEF Commands
<1>9. /\ d.phase = "next" /\ d.round = 0 /\ d.links = <<>> /\ d.bytes = {}
      /\ d.op = c.op /\ d.edges = e /\ d.stack = s /\ d.todos = t
      /\ d.expected = c.expected
  BY <1>5, <1>6 DEF Commands
<1>10. Between(d) /\ ~Entering(d)
  BY <1>9 DEF Between, Entering
<1>11. Looking(d) /\ Reading(d) /\ ~Busy(d)
  BY <1>2, <1>9, <1>10, Rests
<1>12. Placed(d)
  BY <1>2, <1>7, <1>9, AtTop
<1> PICK top : top = c.edges[1].name
  OBVIOUS
<1>13. path = <<top>> /\ path \in Paths /\ path[1] = top
  <2>1. path = <<top>> /\ top \in Names
    BY <1>2, DirectoryPathIs
  <2> QED
    BY <2>1, PathsAre, Tuples
<1>14. \A p : Ahead(c, p) <=> p[1] \in c.todos[1] \/ p[1] = top
  BY <1>1, <1>2, <1>3 DEF Ahead
<1>15. \A p : Ahead(d, p) <=> p[1] \in c.todos[1]
  BY <1>7, <1>9, <1>11 DEF Ahead
<1>16. top \notin c.todos[1]
  BY <1>2, <1>3 DEF Walked, Misled
<1>17. ASSUME NEW p \in Paths
       PROVE  /\ Ahead(d, p) => Ahead(c, p) /\ p # path
              /\ Ahead(c, p) => Ahead(d, p) \/ Accounted(p)'
  <2>1. path \in skipped'
    BY <1>4
  <2>2. p[1] = top => Accounted(p)'
    BY <1>13, <2>1, Hides
  <2> QED
    BY <1>13, <1>14, <1>15, <1>16, <2>2
<1>18. path \notin skipped /\ \A item \in items : item.path # path
  BY <1>3, <1>13, <1>14 DEF Walked
<1>19. Misled(d)
  BY <1>7, <1>9, <1>11 DEF Misled
<1>20. items' = items /\ items \subseteq Items /\ skipped' \subseteq Paths /\ skipped \subseteq skipped'
  BY <1>2, <1>4, <1>13 DEF Typed
<1>21. Reported'
  BY <1>2, <1>4, <1>18, <1>20 DEF Reported
<1> QED
  BY <1>1, <1>2, <1>4, <1>8, <1>9, <1>11, <1>12, <1>17, <1>19, <1>20, <1>21, GoesOn

-----------------------------------------------------------------------------
(* A directory is opened.                                                  *)

\* A step of a stable use has to show what it makes of its entry.
LEMMA UseGoesOn ==
  ASSUME Inv, command # Idle, UNCHANGED <<world, report, led>>,
         command' \in Commands, command'.op = "use",
         Placed(command'), Looking(command'), Reading(command')
  PROVE  Inv'
<1>1. Typed' /\ Reported'
  BY DEF Inv, Typed, Reported, world, report
<1>2. \A p \in Paths : (Sight(entry, stamp, p) \in led[p])'
  <2>1. entry' = entry /\ stamp' = stamp /\ led' = led
    BY DEF world
  <2>2. \A p \in Paths : Sight(entry, stamp, p) \in led[p]
    BY CommandFacts, Zenon
  <2> QED
    BY <2>1, <2>2, Zenon
<1>3. Placed(command)' /\ Looking(command)' /\ Reading(command)'
  BY RestsStill
<1>4. (command.op = "walk" => Walked(command))'
  OBVIOUS
<1>5. Knows(command)'
  BY <1>2, <1>3, <1>4, Zenon DEF Knows
<1> QED
  BY <1>1, <1>5 DEF Inv

\* On the way along a link.
LEMMA PassDirectoryKeeps == Inv /\ OpenDirectory /\ Resolving => Inv'
<1> SUFFICES ASSUME Inv, OpenDirectory, Resolving
             PROVE  Inv'
  OBVIOUS
<1>1. command # Idle /\ command.phase = "open" /\ Busy(command)
  BY DEF OpenDirectory, InPhase, Busy, Seeking
<1> PICK c, d, r, o :
      /\ c = command /\ d = command'
      /\ r = Append(c.rstack, c.at.inode) /\ o = Append(c.owned, Edge(c.at))
  OBVIOUS
<1>2. c \in Commands /\ Placed(c) /\ Looking(c) /\ Reading(c) /\ Typed
  BY <1>1, CommandFacts
<1>3. d = [c EXCEPT !.phase = "resolve", !.rstack = r, !.owned = o]
  BY DEF OpenDirectory, At
<1>4. c.links # <<>> /\ c.at \in Seen /\ c.at.inode \in Dirs /\ Len(c.links) <= MaxLinks
  BY <1>1, <1>2 DEF OpenDirectory, Resolving, At, Looking
<1>5. r \in Seq(Dirs) /\ r # <<>>
  <2>1. c.rstack \in Seq(Dirs)
    BY <1>2 DEF Commands
  <2> QED
    BY <1>4, <2>1, AppendProperties
<1>6. o \in Seq(Edges)
  <2>1. c.owned \in Seq(Edges) /\ Edge(c.at) \in Edges
    BY <1>2, <1>4, KeptTyped DEF Commands
  <2> QED
    BY <2>1, AppendProperties
<1>7. d \in Commands
  BY <1>2, <1>3, <1>5, <1>6 DEF Commands, Phases
<1>8. /\ d.phase = "resolve" /\ d.rstack = r
      /\ d.op = c.op /\ d.edges = c.edges /\ d.stack = c.stack /\ d.todos = c.todos
      /\ d.source = c.source /\ d.links = c.links /\ d.bytes = c.bytes /\ d.round = c.round
      /\ d.expected = c.expected
  BY <1>2, <1>3 DEF Commands
<1>9. c.source \in Seen /\ c.source.dir = Last(c.stack) /\ c.source.inode # Sub
  BY <1>1, <1>2, <1>4 DEF Looking
<1>10. Looking(d)
  BY <1>4, <1>5, <1>8, <1>9 DEF Looking, Busy, Seeking, Holding, Between, Entering
<1>11. Reading(d)
  BY <1>1, <1>2, <1>8 DEF Reading, Seeking, Holding, Between, Entering
<1>12. Reading(command)'
  BY <1>11 DEF OpenDirectory, world, Reading, Version
<1>13. Looking(command') /\ Busy(command')
  BY <1>8, <1>10 DEF Busy, Seeking
<1>14. Looking(command)'
  BY <1>13 DEF Looking, Busy, Seeking, Holding, Between, Entering
<1> QED
  BY <1>1, <1>7, <1>8, <1>12, <1>13, <1>14, StaysAtEntry DEF OpenDirectory

\* The directory below sources/raw, opened from there.
Entered(s, x) == Append(s, x)

\* From sources/raw to the directory below.
LEMMA Enters ==
  ASSUME NEW c \in Commands, Placed(c), Len(c.edges) = 0, NEW at \in Seen, at.inode = Sub,
         NEW s, NEW e, NEW t,
         s = Entered(c.stack, at.inode), e = Entered(c.edges, Edge(at)), t = Entered(c.todos, {})
  PROVE  /\ s \in Seq(Dirs) /\ Len(s) = 2 /\ s[1] = Raw /\ s[2] = Sub
         /\ e \in Seq(Edges) /\ Len(e) = 1 /\ e[1].name = at.name
         /\ t \in Seq(SUBSET Names) /\ Len(t) = 2 /\ t[1] = c.todos[1]
<1>1. /\ c.edges = <<>> /\ c.stack = <<Raw>>
      /\ c.todos \in Seq(SUBSET Names) /\ Len(c.todos) = 1
  <2>1. c.todos \in Seq(SUBSET Names)
    BY DEF Commands
  <2>2. c.edges = <<>> /\ c.stack = <<Raw>> /\ Len(c.todos) = 1
    BY Depth
  <2> QED
    BY <2>1, <2>2
<1>2. s = <<Raw, Sub>> /\ e = <<Edge(at)>>
  BY <1>1, Tuples DEF Entered
<1>3. Edge(at) \in Edges /\ Edge(at).name = at.name
  BY KeptTyped
<1>4. /\ Len(<<Raw, Sub>>) = 2 /\ <<Raw, Sub>>[1] = Raw /\ <<Raw, Sub>>[2] = Sub
      /\ Len(<<Edge(at)>>) = 1 /\ <<Edge(at)>>[1] = Edge(at)
  BY Tuples, Zenon
<1>5. <<Raw, Sub>> \in Seq(Dirs) /\ <<Edge(at)>> \in Seq(Edges)
  BY <1>3 DEF Dirs
<1>6. t \in Seq(SUBSET Names) /\ Len(t) = 2 /\ t[1] = c.todos[1]
  <2>1. {} \in SUBSET Names
    OBVIOUS
  <2> QED
    BY <1>1, <2>1, AppendProperties DEF Entered
<1> QED
  BY <1>2, <1>3, <1>4, <1>5, <1>6, Zenon

\* A reader goes on in the directory below.
LEMMA BelowTop ==
  ASSUME NEW d, Len(d.stack) = 2, Len(d.edges) = 1, Len(d.todos) = 2,
         d.stack[1] = Raw, d.stack[2] = Sub,
         \/ d.phase = "check" /\ d.op = "walk"
         \/ d.phase = "route" /\ d.op = "use" /\ d.route # <<>>
  PROVE  Placed(d)
BY DEF Placed, Entering

\* It does so with what it remembers otherwise.
LEMMA Redirected ==
  ASSUME NEW f \in Commands, NEW s \in Seq(Dirs), NEW e \in Seq(Edges), NEW t \in Seq(SUBSET Names),
         NEW g, g = [f EXCEPT !.stack = s, !.edges = e, !.todos = t]
  PROVE  g \in Commands
BY DEF Commands

\* A walk looks again where a directory is before it lists it.
LEMMA LooksFirst ==
  ASSUME NEW g \in Commands, NEW e \in Seq(Edges),
         NEW d, d = [g EXCEPT !.phase = "check", !.checks = e]
  PROVE  d \in Commands
<1>1. Edges \subseteq Kept
  BY DEF Edges, Kept
<1>2. e \in Seq(Kept)
  BY <1>1
<1> QED
  BY <1>2 DEF Commands, Phases

\* From there it reports what is below, unless it turns out to have been moved.
LEMMA EnterDirectoryKeeps == Inv /\ OpenDirectory /\ ~Resolving => Inv'
<1> SUFFICES ASSUME Inv, OpenDirectory, ~Resolving
             PROVE  Inv'
  OBVIOUS
<1>1. command # Idle /\ command.phase = "open" /\ Busy(command)
  BY DEF OpenDirectory, InPhase, Busy, Seeking
<1> PICK c, d, f, at :
      c = command /\ d = command' /\ f = Forget("route") /\ at = c.at
  OBVIOUS
<1> PICK s, e, t :
      /\ s = Entered(c.stack, at.inode) /\ e = Entered(c.edges, Edge(at))
      /\ t = Entered(c.todos, {})
  OBVIOUS
<1> PICK g : g = [f EXCEPT !.stack = s, !.edges = e, !.todos = t]
  OBVIOUS
<1>2. c \in Commands /\ Placed(c) /\ Looking(c) /\ Reading(c) /\ Typed /\ Reported
  BY <1>1, CommandFacts
<1>3. /\ f \in Commands /\ f.phase = "route" /\ f.links = <<>> /\ f.bytes = {} /\ f.round = 0
      /\ f.op = c.op /\ f.edges = c.edges /\ f.stack = c.stack /\ f.todos = c.todos
      /\ f.expected = c.expected /\ f.route = c.route
  BY <1>2, Forgets DEF Phases
<1>4. /\ c.op = "use" => d = g
      /\ c.op = "walk" => d = [g EXCEPT !.phase = "check", !.checks = e]
  <2>1. g = [f EXCEPT !.stack = Append(@, at.inode), !.edges = Append(@, Edge(at)),
                      !.todos = Append(@, {})]
    BY <1>3 DEF Commands, Entered
  <2>2. g.edges = e
    BY <1>3 DEF Commands
  <2>3. c.op = "walk" \/ c.op = "use"
    BY <1>2 DEF Commands
  <2> QED
    BY <2>1, <2>2, <2>3 DEF OpenDirectory, At
<1>5. /\ c.links = <<>> /\ at \in Seen /\ at = c.source /\ at.inode = Sub /\ at.dir # Sub
      /\ at.dir = Last(c.stack) /\ UNCHANGED <<world, report, led>>
  BY <1>1, <1>2 DEF OpenDirectory, Resolving, At, Looking
<1>6. Len(c.edges) = 0
  BY <1>2, <1>5, Depth
<1>7. /\ s \in Seq(Dirs) /\ Len(s) = 2 /\ s[1] = Raw /\ s[2] = Sub
      /\ e \in Seq(Edges) /\ Len(e) = 1 /\ e[1].name = at.name
      /\ t \in Seq(SUBSET Names) /\ Len(t) = 2 /\ t[1] = c.todos[1]
  BY <1>2, <1>5, <1>6, Enters
<1>8. g \in Commands
  BY <1>3, <1>7, Redirected, Zenon
<1>9. /\ g.phase = "route" /\ g.links = <<>> /\ g.bytes = {} /\ g.round = 0
      /\ g.op = c.op /\ g.edges = e /\ g.stack = s /\ g.todos = t /\ g.expected = c.expected
      /\ g.route = c.route
  BY <1>3 DEF Commands
<1>10. c.op = "use" => c.route # <<>>
  BY <1>5 DEF OpenDirectory, MayEnter, Resolving
<1>11. CASE c.op = "use"
  <2>1. d = g
    BY <1>4, <1>11
  <2>2. Between(g)
    BY <1>9, Zenon DEF Between
  <2>3. Looking(g) /\ Reading(g) /\ ~Busy(g)
    BY <1>2, <1>9, <2>2, Rests, Zenon
  <2>4. Placed(g)
    <3>1. /\ Len(g.stack) = 2 /\ Len(g.edges) = 1 /\ Len(g.todos) = 2
          /\ g.stack[1] = Raw /\ g.stack[2] = Sub
      BY <1>7, <1>9, Zenon
    <3>2. \/ g.phase = "check" /\ g.op = "walk"
          \/ g.phase = "route" /\ g.op = "use" /\ g.route # <<>>
      BY <1>9, <1>11, <1>10, Zenon
    <3> QED
      BY <3>1, <3>2, BelowTop, Zenon
  <2> QED
    BY <1>1, <1>5, <1>8, <1>9, <1>11, <2>1, <2>3, <2>4, UseGoesOn
<1>12. CASE c.op = "walk"
  <2>1. d = [g EXCEPT !.phase = "check", !.checks = e]
    BY <1>4, <1>12
  <2>2. d \in Commands
    BY <1>7, <1>8, <2>1, LooksFirst, Zenon
  <2>3. /\ d.phase = "check" /\ d.links = <<>> /\ d.bytes = {} /\ d.round = 0
        /\ d.op = c.op /\ d.edges = e /\ d.stack = s /\ d.todos = t /\ d.expected = c.expected
    BY <1>8, <1>9, <2>1 DEF Commands
  <2>4. Between(d) /\ Entering(d)
    BY <2>3 DEF Between, Entering
  <2>5. Looking(d) /\ Reading(d) /\ ~Busy(d)
    BY <1>2, <2>3, <2>4, Rests
  <2>6. Placed(d)
    BY <1>7, <1>12, <2>3, BelowTop
  <2>7. Walked(c) /\ ~Entering(c)
    BY <1>1, <1>12, CommandFacts DEF Entering
  <2>8. \A p : Ahead(c, p) <=> p[1] \in c.todos[1] \/ p[1] = at.name
    BY <1>1, <1>5, <1>6, <2>7 DEF Ahead
  <2>9. \A p : Ahead(d, p) <=> p[1] \in c.todos[1] \/ p[1] = at.name
    BY <1>7, <2>3, <2>4, <2>5 DEF Ahead
  <2>10. at.name \notin c.todos[1] /\ None \in led[<<at.name>>]
    <3>1. Last(c.todos) = c.todos[1]
      BY <1>2, <1>6, Depth
    <3> QED
      BY <1>1, <1>5, <1>6, <2>7, <3>1 DEF Walked, Misled
  <2>11. Misled(d)
    BY <1>7, <2>3, <2>5, <2>10 DEF Misled
  <2>12. items' = items /\ items \subseteq Items /\ skipped \subseteq Paths /\ skipped' = skipped
    BY <1>2, <1>5 DEF Typed, report
  <2>13. Reported'
    BY <1>2, <2>12 DEF Reported
  <2> QED
    BY <1>1, <1>5, <1>12, <2>2, <2>3, <2>5, <2>6, <2>8, <2>9, <2>11, <2>12, <2>13, GoesOn
<1> QED
  BY <1>2, <1>11, <1>12 DEF Commands

-----------------------------------------------------------------------------
(* A reader ends, fails and begins.                                        *)

\* A reader that ends leaves its report.
LEMMA Ends ==
  ASSUME Inv, command' = Idle, UNCHANGED <<world, items>>, skipped' = skipped \/ skipped' = {}
  PROVE  Inv'
<1>1. Typed'
  BY DEF Inv, Typed, world
<1>2. Reported'
  BY DEF Inv, Reported
<1> QED
  BY <1>1, <1>2 DEF Inv

\* The end of a walk, ...
LEMMA EndWalkKeeps == Inv /\ EndWalk => Inv'
BY Ends DEF EndWalk, End

\* ... and of a stable use.
LEMMA EndUseKeeps == Inv /\ EndUse => Inv'
BY Ends DEF EndUse, End, report

\* Whatever goes wrong at an entry.
LEMMA Fails ==
  ASSUME Inv, Fail, UNCHANGED world, command # Idle, Busy(command)
  PROVE  Inv'
<1>1. CASE command.op = "walk"
  BY <1>1, WalkFails
<1>2. CASE command.op # "walk"
  BY <1>2, Ends DEF Fail, End
<1> QED
  BY <1>1, <1>2

\* All the ways to fail.
LEMMA FailingKeeps ==
  Inv /\ (LinkRefused \/ CannotOpen \/ ResolveFails \/ CheckFails \/ ReadFails) => Inv'
<1> SUFFICES ASSUME Inv, LinkRefused \/ CannotOpen \/ ResolveFails \/ CheckFails \/ ReadFails
             PROVE  Inv'
  OBVIOUS
<1>1. command # Idle /\ Busy(command)
  BY DEF LinkRefused, CannotOpen, ResolveFails, CheckFails, ReadFails, InPhase, Busy, Seeking, Holding
<1>2. Fail /\ UNCHANGED world
  BY DEF LinkRefused, CannotOpen, ResolveFails, CheckFails, ReadFails
<1> QED
  BY <1>1, <1>2, Fails

\* What a reader remembers when it begins.
Beginner(op, phase, route, expected) ==
    [op |-> op, phase |-> phase, stack |-> <<Raw>>, edges |-> <<>>, todos |-> <<{}>>,
         route |-> route, expected |-> expected, at |-> None,
         source |-> None, links |-> <<>>, rstack |-> <<>>, pending |-> <<>>,
         text |-> None, owned |-> <<>>, content |-> None, bytes |-> {}, checks |-> <<>>,
         round |-> 0]

\* It has everything before it: a stable use its path, ...
LEMMA BeginsUse ==
  ASSUME NEW route \in Seq(Names), NEW expected \in Items \union {None},
         NEW d, d = Beginner("use", "route", route, expected)
  PROVE  /\ d \in Commands
         /\ Len(d.edges) = 0 /\ Len(d.stack) = 1 /\ Len(d.todos) = 1 /\ d.stack[1] = Raw
         /\ d.links = <<>> /\ d.bytes = {} /\ d.round = 0
         /\ d.op = "use" /\ d.phase = "route" /\ d.expected = expected /\ d.route = route
<1>1. /\ <<Raw>> \in Seq(Dirs) /\ Len(<<Raw>>) = 1 /\ <<Raw>>[1] = Raw
      /\ <<{}>> \in Seq(SUBSET Names) /\ Len(<<{}>>) = 1
  BY DEF Dirs
<1>2. /\ <<>> \in Seq(Edges) /\ Len(<<>>) = 0 /\ <<>> \in Seq(Seen) /\ <<>> \in Seq(Dirs)
      /\ <<>> \in Seq(Names \union {Up}) /\ <<>> \in Seq(Kept)
  OBVIOUS
<1>3. {} \in SUBSET Versions /\ 0 \in Nat
  OBVIOUS
<1>4. /\ d.edges = <<>> /\ d.stack = <<Raw>> /\ d.todos = <<{}>>
      /\ d.links = <<>> /\ d.bytes = {} /\ d.round = 0
      /\ d.op = "use" /\ d.phase = "route" /\ d.expected = expected /\ d.route = route
  BY DEF Beginner
<1>5. d \in Commands
  BY <1>1, <1>2, <1>3 DEF Beginner, Commands, Phases
<1> QED
  BY <1>1, <1>2, <1>4, <1>5

\* ... a walk all of sources/raw.
LEMMA BeginsWalk ==
  ASSUME NEW d, d = Beginner("walk", "list", <<>>, None)
  PROVE  /\ d \in Commands
         /\ Len(d.edges) = 0 /\ Len(d.stack) = 1 /\ Len(d.todos) = 1 /\ d.stack[1] = Raw
         /\ d.links = <<>> /\ d.bytes = {} /\ d.round = 0
         /\ d.op = "walk" /\ d.phase = "list" /\ d.expected = None
<1>1. /\ <<Raw>> \in Seq(Dirs) /\ Len(<<Raw>>) = 1 /\ <<Raw>>[1] = Raw
      /\ <<{}>> \in Seq(SUBSET Names) /\ Len(<<{}>>) = 1
  BY DEF Dirs
<1>2. /\ <<>> \in Seq(Edges) /\ Len(<<>>) = 0 /\ <<>> \in Seq(Seen) /\ <<>> \in Seq(Dirs)
      /\ <<>> \in Seq(Names \union {Up}) /\ <<>> \in Seq(Kept) /\ <<>> \in Seq(Names)
  OBVIOUS
<1>3. {} \in SUBSET Versions /\ 0 \in Nat
  OBVIOUS
<1>4. /\ d.edges = <<>> /\ d.stack = <<Raw>> /\ d.todos = <<{}>>
      /\ d.links = <<>> /\ d.bytes = {} /\ d.round = 0
      /\ d.op = "walk" /\ d.phase = "list" /\ d.expected = None
  BY DEF Beginner
<1>5. d \in Commands
  BY <1>1, <1>2, <1>3 DEF Beginner, Commands, Phases
<1> QED
  BY <1>1, <1>2, <1>4, <1>5

\* A walk begins with everything still to be reported.
LEMMA StartWalkKeeps == Inv /\ StartWalk => Inv'
<1> SUFFICES ASSUME Inv, StartWalk
             PROVE  Inv'
  OBVIOUS
<1> PICK d : d = command'
  OBVIOUS
<1>1. /\ items' = {} /\ skipped' = {} /\ UNCHANGED world
      /\ led' = [path \in Paths |-> {Sight(entry, stamp, path)}]
  BY DEF StartWalk, Begin
<1>3. /\ d \in Commands
      /\ Len(d.edges) = 0 /\ Len(d.stack) = 1 /\ Len(d.todos) = 1 /\ d.stack[1] = Raw
      /\ d.links = <<>> /\ d.bytes = {} /\ d.round = 0
      /\ d.op = "walk" /\ d.phase = "list" /\ d.expected = None
  <2>1. d = Beginner("walk", "list", <<>>, None)
    BY Zenon DEF StartWalk, Begin, Beginner
  <2> QED
    BY <2>1, BeginsWalk, Zenon
<1>4. Typed' /\ Reported'
  BY <1>1, <1>3 DEF Inv, Typed, Reported, world
<1>5. ~Busy(d) /\ ~Entering(d)
  BY <1>3 DEF Busy, Seeking, Holding, Entering
<1>6. Placed(d)
  BY <1>3, <1>5 DEF Placed
<1>7. Looking(d)
  BY <1>3, <1>5, BoundsAreNaturals DEF Looking, Busy, Seeking
<1>8. Reading(d)
  BY <1>3, <1>5 DEF Reading, Busy, Seeking, Holding
<1>9. Placed(command)' /\ Looking(command)' /\ Reading(command)'
  BY <1>1, <1>6, <1>7, <1>8, RestsStill
<1>10. \A p \in Paths : (Sight(entry, stamp, p) \in led[p])'
  BY <1>1 DEF world, Sight
<1>11. (Walked(command))'
  <2>1. \A p : Ahead(d, p)
    BY <1>3 DEF Ahead
  <2>2. Misled(d)'
    BY <1>3, <1>5 DEF Misled, Busy, Seeking, Holding
  <2>3. Misled(command)'
    BY <2>2 DEF Misled
  <2>4. \A p : Ahead(command, p)'
    BY <2>1 DEF Ahead, Busy, Seeking, Holding, Entering
  <2> QED
    BY <1>1, <2>3, <2>4 DEF Walked
<1>12. Knows(command)'
  BY <1>9, <1>10, <1>11, Zenon DEF Knows
<1> QED
  BY <1>4, <1>12 DEF Inv

\* A stable use of an item begins with an item of the inventory.
LEMMA StartUseKeeps ==
  Inv /\ (\E path \in Paths, expected \in items \union {None} : StartUse(path, expected)) => Inv'
<1> SUFFICES ASSUME Inv, NEW path \in Paths, NEW expected \in items \union {None},
                    StartUse(path, expected)
             PROVE  Inv'
  OBVIOUS
<1> PICK d : d = command'
  OBVIOUS
<1>1. /\ UNCHANGED <<world, report>>
      /\ led' = [p \in Paths |-> {Sight(entry, stamp, p)}]
  BY Zenon DEF StartUse, Begin
<1>2. path \in Seq(Names) /\ path # <<>>
  BY PathParts
<1>3. expected \in Items \union {None} /\ (expected # None => expected.bytes = {expected.version})
  BY DEF Inv, Typed, Reported
<1>4. /\ d \in Commands
      /\ Len(d.edges) = 0 /\ Len(d.stack) = 1 /\ Len(d.todos) = 1 /\ d.stack[1] = Raw
      /\ d.links = <<>> /\ d.bytes = {} /\ d.round = 0
      /\ d.op = "use" /\ d.phase = "route" /\ d.expected = expected /\ d.route = path
  <2>1. d = Beginner("use", "route", path, expected)
    BY Zenon DEF StartUse, Begin, Beginner
  <2> QED
    BY <1>2, <1>3, <2>1, BeginsUse
<1>5. Typed' /\ Reported'
  BY <1>1, <1>4 DEF Inv, Typed, Reported, world, report
<1>6. ~Busy(d) /\ ~Entering(d)
  BY <1>4 DEF Busy, Seeking, Holding, Entering
<1>7. Placed(d)
  BY <1>2, <1>4, <1>6 DEF Placed
<1>8. Looking(d)
  BY <1>4, <1>6, BoundsAreNaturals DEF Looking, Busy, Seeking
<1>9. Reading(d)
  BY <1>3, <1>4, <1>6 DEF Reading, Busy, Seeking, Holding
<1>10. Placed(command)' /\ Looking(command)' /\ Reading(command)'
  BY <1>1, <1>7, <1>8, <1>9, RestsStill
<1>11. \A p \in Paths : (Sight(entry, stamp, p) \in led[p])'
  BY <1>1 DEF world, Sight
<1>12. (command.op = "walk" => Walked(command))'
  BY <1>4
<1>13. Knows(command)'
  BY <1>10, <1>11, <1>12, Zenon DEF Knows
<1> QED
  BY <1>5, <1>13 DEF Inv

\* The next component of the path of a stable use.
LEMMA NextComponentKeeps == Inv /\ NextComponent => Inv'
<1> SUFFICES ASSUME Inv, NextComponent
             PROVE  Inv'
  OBVIOUS
<1>1. command # Idle /\ command.phase = "route" /\ Between(command)
  BY DEF NextComponent, InPhase, Between
<1> PICK c, d, name, dir, seen, r :
      /\ c = command /\ d = command' /\ name = Head(c.route) /\ dir = Last(c.stack)
      /\ seen = Stat(dir, name) /\ r = Tail(c.route)
  OBVIOUS
<1>2. c \in Commands /\ Placed(c) /\ Looking(c) /\ Reading(c) /\ Typed /\ c.op = "use"
  BY <1>1, CommandFacts DEF Placed
<1>3. CASE seen = None
  <2>1. command' = Idle /\ UNCHANGED <<world, items, skipped>>
    BY <1>3 DEF NextComponent, End, report
  <2> QED
    BY <2>1, Ends
<1>4. CASE seen # None
  <2>1. d = [c EXCEPT !.phase = "open", !.at = seen, !.source = seen, !.route = r]
    BY <1>4 DEF NextComponent
  <2>2. UNCHANGED <<world, report, led>>
    BY <1>4 DEF NextComponent
  <2>3. c.route \in Seq(Names) /\ c.route # <<>>
    BY <1>1, <1>2 DEF Placed, Commands
  <2>4. name \in Names /\ r \in Seq(Names)
    BY <2>3, HeadTailProperties
  <2>5. dir \in Dirs
    BY <1>2, Depth DEF Dirs
  <2>6. /\ seen \in Seen /\ seen.dir = dir
        /\ seen.inode \in Dirs => seen.inode = Sub /\ seen.dir # Sub
    BY <1>2, <1>4, <2>4, <2>5, StatSeen
  <2>7. d \in Commands
    <3>1. seen \in Seen \union {None}
      BY <2>6
    <3> QED
      BY <1>2, <2>1, <2>4, <3>1 DEF Commands, Phases
  <2>8. /\ d.phase = "open" /\ d.at = seen /\ d.source = seen /\ d.round = c.round
        /\ d.op = c.op /\ d.edges = c.edges /\ d.stack = c.stack /\ d.todos = c.todos
        /\ d.links = c.links /\ d.bytes = c.bytes /\ d.expected = c.expected
    BY <1>2, <2>1 DEF Commands
  <2>9. c.links = <<>> /\ c.bytes = {} /\ c.round = 0 /\ Len(c.links) <= MaxLinks
    BY <1>1, <1>2 DEF Looking, Reading
  <2>10. Looking(d)
    BY <2>6, <2>8, <2>9 DEF Looking, Busy, Seeking, Holding, Between, Entering
  <2>11. Reading(d)
    BY <1>2, <2>8, <2>9 DEF Reading, Seeking, Holding
  <2>12. Placed(d)
    BY <1>2, <2>8 DEF Placed, Entering
  <2> QED
    BY <1>1, <1>2, <2>2, <2>7, <2>8, <2>10, <2>11, <2>12, UseGoesOn
<1> QED
  BY <1>3, <1>4

-----------------------------------------------------------------------------
(* People at work.                                                         *)

\* A stamp that is newer than any other tells of every change: what a reader has
\* remembered of a file stays true of the bytes for as long as the stamp is the same.
LEMMA Edited ==
  ASSUME Inv, MayEdit, edits' = edits + 1, NEW inodes, Change(inodes), IsTree(entry'),
         written' \in [Files -> 0 .. MaxEdits],
         \A f \in Files : f \notin inodes => written'[f] = written[f],
         UNCHANGED <<report, command>>, Lives
  PROVE  Inv'
<1> PICK c : c = command
  OBVIOUS
<1>1. edits \in Nat /\ edits + 1 \in 0 .. MaxEdits /\ edits' = edits + 1
  BY BoundsAreNaturals DEF Inv, Typed, MayEdit
<1>2. Typed /\ Reported /\ command' = c /\ items' = items /\ skipped' = skipped
  BY DEF Inv, report
<1>3. \A i \in Inodes : stamp'[i] = IF i \in inodes THEN edits + 1 ELSE stamp[i]
  BY DEF Change
<1>4. Typed'
  <2>1. stamp' \in [Inodes -> 0 .. MaxEdits]
    BY <1>1, <1>2 DEF Change, Typed
  <2>2. \A i \in Inodes : stamp'[i] <= edits'
    <3> TAKE i \in Inodes
    <3>1. stamp[i] \in 0 .. MaxEdits /\ stamp[i] <= edits
      BY <1>2 DEF Typed
    <3> QED
      BY <1>1, <1>3, <3>1
  <2> QED
    BY <1>1, <1>2, <2>1, <2>2 DEF Typed
<1>5. Reported'
  BY <1>2 DEF Reported
<1> SUFFICES ASSUME command # Idle
             PROVE  Knows(command)'
  BY <1>2, <1>4, <1>5 DEF Inv
<1>6. c \in Commands /\ Placed(c) /\ Looking(c) /\ Reading(c)
  BY CommandFacts
<1>7. led' = [p \in Paths |-> led[p] \union {Sight(entry', stamp', p)}]
  BY DEF Lives
<1>8. Placed(command)' /\ Looking(command)'
  BY <1>2, <1>6 DEF Placed, Looking, Busy, Seeking, Holding, Between, Entering
<1>9. Reading(command)'
  <2>1. SUFFICES ASSUME Holding(c)
                 PROVE  /\ c.content.stamp <= edits'
                        /\ stamp'[c.content.inode] = c.content.stamp =>
                              /\ c.content.version = Version(c.content.inode)'
                              /\ c.bytes \subseteq {c.content.version}
    BY <1>2, <1>6 DEF Reading, Busy, Seeking, Holding, Between, Entering
  <2> PICK f, st : f = c.content.inode /\ st = c.content.stamp
    OBVIOUS
  <2>2. /\ f \in Files /\ f \in Inodes /\ st \in 0 .. MaxEdits /\ st <= edits
        /\ stamp[f] = st =>
              c.content.version = Version(f) /\ c.bytes \subseteq {c.content.version}
    BY <1>6, <2>1 DEF Reading, Inodes, Seen
  <2>3. ASSUME stamp'[f] = st
        PROVE  stamp[f] = st /\ f \notin inodes
    BY <1>1, <1>3, <2>2, <2>3
  <2>4. f \notin inodes => Version(f)' = Version(f)
    BY <2>2 DEF Version
  <2>5. st <= edits'
    BY <1>1, <2>2
  <2> QED
    BY <2>2, <2>3, <2>4, <2>5
<1>10. \A p \in Paths : (Sight(entry, stamp, p) \in led[p])'
  BY <1>7
<1>11. \A p \in Paths : None \in led[p] => None \in led'[p]
  BY <1>7
<1>12. (command.op = "walk" => Walked(command))'
  <2>1. SUFFICES ASSUME c.op = "walk"
                 PROVE  Walked(command)'
    BY <1>2
  <2>2. Walked(c)
    BY <2>1, CommandFacts
  <2>3. \A p : /\ Ahead(command, p)' <=> Ahead(c, p)
               /\ Accounted(p)' <=> Accounted(p)
    BY <1>2 DEF Ahead, Busy, Seeking, Holding, Entering, Accounted, Obscured
  <2>4. Misled(command)'
    <3>1. ASSUME Len(c.edges) = 1
          PROVE  <<c.edges[1].name>> \in Paths
      <4>1. c.edges[1] \in Edges
        BY <1>6, <3>1, Depth
      <4> QED
        BY <4>1, PathsAre DEF Edges
    <3>2. ASSUME Busy(c)
          PROVE  <<c.source.name>> \in Paths /\ \A m \in Names : <<c.source.name, m>> \in Paths
      <4>1. c.source.name \in Names
        BY <1>6, <3>2 DEF Looking, Seen
      <4> QED
        BY <4>1, PathsAre
    <3>3. Misled(c)
      BY <2>2 DEF Walked
    <3>4. Misled(c)'
      BY <1>11, <3>1, <3>2, <3>3 DEF Misled
    <3> QED
      BY <1>2, <3>4 DEF Misled, Busy, Seeking, Holding
  <2>5. \A p \in Paths : (Ahead(command, p) => p \notin skipped /\ \A item \in items : item.path # p)'
    BY <1>2, <2>2, <2>3 DEF Walked
  <2>6. \A p \in Paths : (Ahead(command, p) \/ None \in led[p] \/ Accounted(p))'
    BY <1>11, <2>2, <2>3 DEF Walked
  <2> QED
    BY <2>4, <2>5, <2>6, Zenon DEF Walked
<1> QED
  BY <1>8, <1>9, <1>10, <1>12, Zenon DEF Knows

\* Bytes change under a new stamp.
LEMMA WriteKeeps == Inv /\ (\E file \in Files : Write(file)) => Inv'
<1> SUFFICES ASSUME Inv, NEW file \in Files, Write(file)
             PROVE  Inv'
  OBVIOUS
<1>1. /\ MayEdit /\ written' = [written EXCEPT ![file] = edits + 1] /\ Change({file})
      /\ edits' = edits + 1 /\ entry' = entry /\ UNCHANGED <<report, command>> /\ Lives
  BY DEF Write
<1>2. edits + 1 \in 0 .. MaxEdits /\ written \in [Files -> 0 .. MaxEdits] /\ IsTree(entry)
  BY <1>1, BoundsAreNaturals DEF Inv, Typed, MayEdit
<1>3. IsTree(entry')
  BY <1>1, <1>2
<1>4. /\ written' \in [Files -> 0 .. MaxEdits]
      /\ \A f \in Files : f \notin {file} => written'[f] = written[f]
  BY <1>1, <1>2
<1> QED
  BY <1>1, <1>3, <1>4, Edited

\* What is moved is in one place again.
LEMMA MovesInTree ==
  ASSUME NEW tree, IsTree(tree), NEW from \in Dirs, NEW to \in Dirs,
         NEW name \in Names, NEW newname \in Names,
         NEW i, i = tree[from][name], i # None, i \in Dirs => to # i,
         NEW new, new = [[tree EXCEPT ![from][name] = None] EXCEPT ![to][newname] = i]
  PROVE  IsTree(new)
<1>1. tree \in [Dirs -> [Names -> (Inodes \ {Raw, Elsewhere}) \union {None}]]
  BY DEF IsTree
<1>2. i \in (Inodes \ {Raw, Elsewhere}) \union {None}
  BY <1>1
<1>3. new \in [Dirs -> [Names -> (Inodes \ {Raw, Elsewhere}) \union {None}]]
  BY <1>1, <1>2
<1>4. \A dir \in Dirs, n \in Names :
         new[dir][n] = IF dir = to /\ n = newname THEN i
                       ELSE IF dir = from /\ n = name THEN None ELSE tree[dir][n]
  BY <1>1, <1>2
<1>5. ASSUME NEW dir \in Dirs, NEW other \in Dirs, NEW n \in Names, NEW m \in Names,
             new[dir][n] = new[other][m], new[dir][n] # None
      PROVE  dir = other /\ n = m
  <2>1. \A d, o \in Dirs, x, y \in Names :
           tree[d][x] = tree[o][y] /\ tree[d][x] # None => d = o /\ x = y
    BY DEF IsTree
  <2>2. CASE (dir = to /\ n = newname) \/ (other = to /\ m = newname)
    BY <1>4, <1>5, <2>1, <2>2
  <2>3. CASE ~(dir = to /\ n = newname) /\ ~(other = to /\ m = newname)
    BY <1>4, <1>5, <2>1, <2>3
  <2> QED
    BY <2>2, <2>3
<1>6. ASSUME NEW n \in Names
      PROVE  new[Sub][n] # Sub
  <2>1. Sub \in Dirs /\ Sub # None /\ tree[Sub][n] # Sub
    BY InodesAreDistinct DEF Inodes, Dirs, IsTree
  <2>2. to = Sub => i # Sub
    BY <2>1
  <2>3. new[Sub][n] = IF Sub = to /\ n = newname THEN i
                      ELSE IF Sub = from /\ n = name THEN None ELSE tree[Sub][n]
    BY <1>4, <2>1, Zenon
  <2> PICK x, y : x = new[Sub][n] /\ y = tree[Sub][n]
    OBVIOUS
  <2>4. x = IF Sub = to /\ n = newname THEN i
            ELSE IF Sub = from /\ n = name THEN None ELSE y
    BY <2>3, Zenon
  <2>5. y # Sub /\ None # Sub
    BY <2>1, Zenon
  <2>6. x # Sub
    BY <2>2, <2>4, <2>5
  <2> QED
    BY <2>6
<1>7. \A dir, other \in Dirs, n, m \in Names :
         new[dir][n] = new[other][m] /\ new[dir][n] # None => dir = other /\ n = m
  BY <1>5
<1> QED
  BY <1>3, <1>6, <1>7, Zenon DEF IsTree

\* What is moved, what it replaces and both directories have a new stamp.
LEMMA MoveKeeps ==
  Inv /\ (\E from, to \in Dirs, name, newname \in Names : Move(from, name, to, newname)) => Inv'
<1> SUFFICES ASSUME Inv, NEW from \in Dirs, NEW to \in Dirs, NEW name \in Names,
                    NEW newname \in Names, Move(from, name, to, newname)
             PROVE  Inv'
  OBVIOUS
<1> PICK i, old : i = entry[from][name] /\ old = entry[to][newname]
  OBVIOUS
<1>1. /\ MayEdit /\ i # None /\ (i \in Dirs => to # i)
      /\ entry' = [[entry EXCEPT ![from][name] = None] EXCEPT ![to][newname] = i]
      /\ Change({i, old, from, to})
      /\ edits' = edits + 1 /\ written' = written /\ UNCHANGED <<report, command>> /\ Lives
  BY DEF Move
<1>2. IsTree(entry) /\ written \in [Files -> 0 .. MaxEdits]
  BY DEF Inv, Typed
<1>3. IsTree(entry')
  BY <1>1, <1>2, MovesInTree
<1> QED
  BY <1>1, <1>2, <1>3, Edited

-----------------------------------------------------------------------------
(* The invariant, and what follows from it.                                *)

\* The invariant is inductive.
LEMMA NextKeeps == Inv /\ [Next]_vars => Inv'
<1> SUFFICES ASSUME Inv, [Next]_vars
             PROVE  Inv'
  OBVIOUS
<1>1. CASE StartWalk
  BY <1>1, StartWalkKeeps
<1>2. CASE WalkStep
  <2>1. CASE NextEntry
    BY <2>1, EntryGoneKeeps, EntrySeenKeeps
  <2> QED
    BY <1>2, <2>1, ListDirectoryKeeps, DirectoryMovedKeeps, LeaveDirectoryKeeps, EndWalkKeeps,
       AddItemKeeps DEF WalkStep
<1>3. CASE OpenStep
  <2>1. CASE OpenDirectory
    BY <2>1, PassDirectoryKeeps, EnterDirectoryKeeps
  <2> QED
    BY <1>3, <2>1, NextComponentKeeps, OpenFileKeeps, ReadLinkKeeps, ResolveLinkKeeps,
       ResolveUpKeeps, ResolveNameKeeps, FailingKeeps DEF OpenStep
<1>4. CASE ReadStep
  <2>1. CASE CheckHolds \/ Checked
    <3>1. command.round \in Nat
      <4>1. command # Idle
        BY <2>1 DEF CheckHolds, Checked, InPhase
      <4> QED
        BY <4>1, CommandFacts DEF Commands
    <3> QED
      BY <2>1, <3>1, EnteringKeeps, CheckHoldsKeeps, CheckedKeeps
  <2> QED
    BY <1>4, <2>1, BeginChecksKeeps, ReadKeeps, FailingKeeps, EndUseKeeps DEF ReadStep
<1>5. CASE UNCHANGED vars
  <2>1. UNCHANGED <<entry, stamp, written, edits, items, skipped, command, led>>
    BY <1>5 DEF vars, world, report
  <2>2. Typed' /\ Reported'
    BY <2>1 DEF Inv, Typed, Reported
  <2> SUFFICES ASSUME command # Idle
               PROVE  Knows(command)'
    BY <2>1, <2>2 DEF Inv
  <2>3. /\ Placed(command) /\ Looking(command) /\ Reading(command)
        /\ \A p \in Paths : Sight(entry, stamp, p) \in led[p]
        /\ command.op = "walk" => Walked(command)
    BY CommandFacts
  <2>4. Placed(command)' /\ Looking(command)' /\ Reading(command)'
    BY <2>1, <2>3 DEF Placed, Looking, Reading, Busy, Seeking, Holding, Between, Entering, Version
  <2>5. \A p \in Paths : (Sight(entry, stamp, p) \in led[p])'
    BY <2>1, <2>3
  <2>6. (command.op = "walk" => Walked(command))'
    BY <2>1, <2>3 DEF Walked, Misled, Ahead, Busy, Seeking, Holding, Entering, Accounted, Obscured
  <2> QED
    BY <2>4, <2>5, <2>6, Zenon DEF Knows
<1> QED
  BY <1>1, <1>2, <1>3, <1>4, <1>5, StartUseKeeps, WriteKeeps, MoveKeeps DEF Next

\* What is true of every reader at every step, whatever people do meanwhile.
THEOREM Invariant == Spec => []Inv
<1>1. Init => Inv
  BY InitHolds
<1>2. Inv /\ [Next]_vars => Inv'
  BY NextKeeps
<1> QED
  BY <1>1, <1>2, PTL DEF Spec

\* The tree stays one, a path is reported once, and a reader's memory is of the entries
\* it has opened (_walk_raw_directory, inventory_raw_sources).
THEOREM TypeCorrect == Spec => []TypeOK
<1>1. Inv => TypeOK
  <2> SUFFICES ASSUME Inv
               PROVE  TypeOK
    OBVIOUS
  <2>1. \A item \in items : item.path \in Paths \ skipped
    BY DEF Inv, Typed, Reported, Items
  <2>2. ASSUME command # Idle
        PROVE  /\ Len(command.stack) = Len(command.edges) + 1
               /\ Len(command.links) <= MaxLinks
               /\ {command.at, command.source, command.content} \subseteq Seen \union {None}
    <3>1. command \in Commands /\ Placed(command) /\ Looking(command)
      BY <2>2, CommandFacts
    <3>2. Len(command.stack) = Len(command.edges) + 1
      BY <3>1, Zenon DEF Placed
    <3>3. Len(command.links) <= MaxLinks
      BY <3>1, Zenon DEF Looking
    <3>4. /\ command.at \in Seen \union {None} /\ command.source \in Seen \union {None}
          /\ command.content \in Seen \union {None}
      BY <3>1 DEF Commands
    <3> QED
      BY <3>2, <3>3, <3>4
  <2>3. /\ IsTree(entry) /\ stamp \in [Inodes -> 0 .. MaxEdits]
        /\ written \in [Files -> 0 .. MaxEdits] /\ edits \in 0 .. MaxEdits /\ skipped \subseteq Paths
        /\ \A item, other \in items : item.path = other.path => item = other
    BY DEF Inv, Typed, Reported
  <2> QED
    BY <2>1, <2>2, <2>3 DEF TypeOK
<1> QED
  BY <1>1, Invariant, PTL

\* What was read in any number of pieces is of the one version the fingerprint is of:
\* a stamp that is the same before and after says that nothing was written in between
\* (use_stable_file, _inventory_open_content).
THEOREM BytesOneVersion == Spec => []BytesAreOneVersion
<1>1. Inv => BytesAreOneVersion
  BY CommandFacts DEF BytesAreOneVersion, Accepted, InPhase, Reading
<1> QED
  BY <1>1, Invariant, PTL

\* What a checksum or an extractor has read for an inventory item is what the item
\* was made from (hash_inventory_item).
THEOREM UsedInventoried == Spec => []UsedIsInventoried
<1>1. Inv => UsedIsInventoried
  <2> SUFFICES ASSUME Inv, Accepted, command.expected # None
               PROVE  command.bytes = command.expected.bytes
    BY DEF UsedIsInventoried
  <2>1. command # Idle /\ command.phase = "accepted" /\ Holding(command)
    BY DEF Accepted, InPhase, Holding
  <2>2. Reading(command)
    BY <2>1, CommandFacts
  <2> QED
    BY <2>1, <2>2 DEF Reading
<1> QED
  BY <1>1, Invariant, PTL

\* A source that was there all through a walk is reported or under a diagnostic, for
\* any tree, any moves and any number of them (_walk_raw_directory).
THEOREM PresentAccounted == Spec => []PresentIsAccounted
<1>1. Inv => PresentIsAccounted
  <2> SUFFICES ASSUME Inv, InPhase("reported"), NEW path \in Paths, None \notin led[path]
               PROVE  Accounted(path)
    BY DEF PresentIsAccounted, Accounted
  <2>1. command # Idle /\ command.phase = "reported" /\ ~Busy(command) /\ ~Entering(command)
    BY DEF InPhase, Busy, Seeking, Holding, Entering
  <2>2. Placed(command)
    BY <2>1, CommandFacts
  <2>3. command.op = "walk" /\ Len(command.edges) = 0 /\ command.todos[1] = {}
    BY <2>1, <2>2 DEF Placed
  <2>4. ~Ahead(command, path)
    BY <2>1, <2>3 DEF Ahead
  <2>5. Walked(command)
    BY <2>1, <2>3, CommandFacts
  <2> QED
    BY <2>4, <2>5 DEF Walked
<1> QED
  BY <1>1, Invariant, PTL
=============================================================================
