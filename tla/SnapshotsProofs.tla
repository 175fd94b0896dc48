-------------------------- MODULE SnapshotsProofs --------------------------
(***************************************************************************)
(* Theorems about Snapshots, for any bodies, URLs, requests and bounds.    *)
(*                                                                         *)
(* Inv says what is stored together (Stored) and, for the command that     *)
(* runs, which steps of which script it still has to take and what is      *)
(* stored while it is at that step (Phased).  The plan is made when the    *)
(* journal holds, from this capture, only what the result will say         *)
(* (PlanMade), so whatever is left in a resumed journal is not selected    *)
(* (WellPlanned); from then on the record only moves between the planned   *)
(* one and what the guard falls back to.                                   *)
(***************************************************************************)
EXTENDS Snapshots, SelectionProofs

\* The first n frames of a journal are events of captures before this time.
Older(log, n, at) ==
    \A i \in 1 .. n : log[i].frame = "event" /\ log[i].event.record.at < at

\* Nothing of the result of the continuation is stored yet.
Unfinished ==
    /\ staged = NoResult /\ pending = NoResult
    /\ acknowledged # NoResult => acknowledged.of # continuation

\* The result was consumed under this content.
Announced(content) ==
    \E m \in receipts : \E i \in DOMAIN m.events : m.events[i].content = content

\* What a journal's result keeps when the run ends with this record (Kept).
KeptWith(f, log, r) ==
    f.frame = "event" /\ (Committed(f.event) \in Frames(log) \/ f.event.record = r)

KeptFrames(c) == {f \in Frames(c.after) : KeptWith(f, c.after, c.candidate)}

\* The events of the result a continuation stands for.
PlannedEvents(c) ==
    (IF c.event = NoEvent THEN <<>> ELSE <<c.event>>) \o Handoffs(c.candidate)

\* The planned journal yields the planned events, whatever was in it before.
WellPlanned(c) ==
    /\ c.event # NoEvent => c.event = Activation(c.candidate) /\ c.before # <<>>
    /\ LET kept == SelectIn(c.after, KeptFrames(c))
       IN /\ DOMAIN kept = DOMAIN PlannedEvents(c)
          /\ \A i \in DOMAIN kept : kept[i].event = PlannedEvents(c)[i]

-----------------------------------------------------------------------------
(* What is stored, whatever runs.                                          *)

JournalIsKnown ==
    journal # NoJournal =>
        \A i \in 1 .. Len(journal.log) :
            /\ journal.log[i].event.record.at <= clock
            /\ continuation = NoPlan => journal.log[i].frame = "event"

\* A staged and a pending result are the continuation's, and what is left of the
\* journal behind them can publish nothing.
SpoolIsBound ==
    /\ staged # NoResult => continuation # NoPlan /\ staged.of = continuation
    /\ pending # NoResult => continuation # NoPlan /\ pending = Result(continuation)
    /\ pending # NoResult /\ staged = NoResult => journal = NoJournal
    /\ acknowledged # NoResult => acknowledged.of \in planned
    /\ acknowledged # NoResult /\ acknowledged.of = continuation /\ journal # NoJournal =>
          journal.log = <<>>

\* From the staged result on the record is the candidate.
LedgerIsPlanned ==
    continuation # NoPlan /\ ~Unfinished => ledger = continuation.candidate /\ guard = NoGuard

GuardIsPlanned ==
    guard # NoGuard =>
        /\ continuation # NoPlan /\ Unfinished
        /\ ~guard.rollback.active /\ guard.rollback.state # "needs_agent"
        /\ continuation.candidate = Activated(guard.rollback)

\* What the candidate says is announced by its result, or was before.
PlansAreTimely ==
    /\ \A p \in planned : p.candidate.at <= clock
    /\ continuation # NoPlan => WellPlanned(continuation)

ActiveWasProved ==
    ledger # NoRecord /\ ledger.active /\ guard = NoGuard =>
        \E r \in proved : r.active /\ r.content = ledger.content

\* What is handed over is a retained version.
HandedOver ==
    ledger # NoRecord /\ ledger.state = "needs_agent" => ledger.content \in Bodies

LiveIsAnnounced ==
    /\ continuation = NoPlan /\ ledger # NoRecord
       /\ (ledger.active \/ ledger.state = "needs_agent") => Announced(ledger.content)
    /\ continuation # NoPlan /\ continuation.event = NoEvent /\ continuation.candidate.active =>
          Announced(continuation.candidate.content)

Stored ==
    /\ TypeOK /\ JournalIsKnown /\ SpoolIsBound /\ LedgerIsPlanned /\ GuardIsPlanned
    /\ PlansAreTimely /\ ActiveWasProved /\ HandedOver /\ LiveIsAnnounced
    /\ ResultIsThePlanned

-----------------------------------------------------------------------------
(* The scripts, and where a command is in one.                             *)

Following(s, i) == command.todo = SubSeq(s, i, Len(s))

\* Before the plan nothing of another result is left; it is a new moment.
Capturing ==
    /\ command.identity \in Identities /\ command.before \in Records
    /\ command.at = clock /\ clock # 0
    /\ continuation = NoPlan /\ pending = NoResult /\ staged = NoResult /\ guard = NoGuard
    /\ \A p \in planned : p.candidate.at < clock

\* And the journal holds only events of earlier captures.
Resumed == journal # NoJournal /\ Older(journal.log, Len(journal.log), clock)

Ready == Capturing /\ Resumed /\ command.body \in Bodies

\* After it the plan stands and its result is still to come.
PlanMade(r, e) ==
    /\ continuation # NoPlan /\ continuation.candidate = r /\ continuation.event = e
    /\ Unfinished /\ journal # NoJournal

Unsupportable == [CapturedRecord EXCEPT !.state = "unsupported"]
UnderivedRecord(state) == [CapturedRecord EXCEPT !.state = state]

ExtractScript ==
    <<Save(CapturedRecord), Read({"raw"}, command.body), Save(Extracting(CapturedRecord))>>

InExtract ==
    /\ Ready
    /\ \E i \in 1 .. 4 :
          /\ Following(ExtractScript, i)
          /\ i = 4 => ledger = Extracting(CapturedRecord)

\* A record that no derivation becomes active with.
PlainScript(first, r) == <<first, Plan(r, NoEvent), Save(r)>>

PlainHolds(r, i) ==
    /\ i <= 2 => Ready
    /\ i > 2 => PlanMade(r, NoEvent) /\ guard = NoGuard

Plain(first, r, i) == Following(PlainScript(first, r), i) /\ PlainHolds(r, i)

\* The derivation that is active already.
StillScript ==
    LET final == Activated(CapturedRecord)
    IN <<Read({"raw", "output"}, command.body), Plan(final, NoEvent), Save(final), Prove(final)>>

StillHolds(i) ==
    /\ StillActive /\ command.body \in Bodies
    /\ i <= 3 => ledger = command.before
    /\ i <= 2 => Ready
    /\ i > 2 => PlanMade(Activated(CapturedRecord), NoEvent) /\ guard = NoGuard
    /\ i > 3 => ledger = Activated(CapturedRecord)

Still(i) == Following(StillScript, i) /\ StillHolds(i)

\* The guarded activation of a derivation.
ActivationHolds(before, rollback, i) ==
    LET final == Activated(rollback)
        e == Activation(final)
    IN /\ i = 1 => Ready
       /\ i = 2 => /\ Capturing /\ journal # NoJournal
                   /\ journal.log # <<>> /\ journal.log[Len(journal.log)] = Prepared(e)
                   /\ Older(journal.log, Len(journal.log) - 1, clock)
       /\ i > 2 => PlanMade(final, e)
       /\ guard = IF i \in 4 .. 6 THEN [before |-> before, rollback |-> rollback, after |-> final]
                  ELSE NoGuard
       /\ i \in 4 .. 6 => guard # NoGuard
       /\ i = 5 => ledger = final
       /\ i = 6 => ledger = final /\ final \in proved

Activating(before, rollback, i) ==
    /\ Following(GuardedActivation(before, rollback, Activated(rollback)), i)
    /\ ActivationHolds(before, rollback, i)

Beginning(parts, before, rollback) ==
    /\ command.todo = <<Read(parts, command.body)>>
                         \o GuardedActivation(before, rollback, Activated(rollback))
    /\ Ready

\* The activation of the retained derivation starts from the record before the
\* capture, that of a new one from the record whose extraction was marked.
RollsBack(before, rollback) ==
    \/ /\ command.phase = "reuse"
       /\ before = command.before /\ rollback = CapturedRecord
    \/ /\ command.phase = "process"
       /\ before = Extracting(CapturedRecord) /\ rollback = before

\* The records without a derivation, and the step before their plan.
Underives(first, r) ==
    /\ command.phase = "process"
    /\ \/ first = Save(CapturedRecord) /\ r = Unsupportable
       \/ /\ first = Read({"raw"}, command.body)
          /\ r \in {UnderivedRecord("needs_agent"), UnderivedRecord("failed")}

Firsts == {Save(CapturedRecord), Read({"raw"}, command.body)}
WithoutDerivation == {Unsupportable, UnderivedRecord("needs_agent"), UnderivedRecord("failed")}

InDerivation ==
    /\ command.body \in Bodies /\ command.before \in Records
    /\ \/ command.phase = "reuse" /\ \E i \in 1 .. 5 : Still(i)
       \/ \E first \in Firsts, r \in WithoutDerivation, i \in 1 .. 4 :
             Underives(first, r) /\ Plain(first, r, i)
       \/ \E before \in {command.before, Extracting(CapturedRecord)},
             rollback \in {CapturedRecord, Extracting(CapturedRecord)} :
             /\ RollsBack(before, rollback)
             /\ \/ \E parts \in SUBSET {"raw", "output"} : Beginning(parts, before, rollback)
                \/ \E i \in 1 .. 8 : Activating(before, rollback, i)

\* The guard is taken back.
TakingBack ==
    /\ guard # NoGuard
    /\ \/ command.todo = <<Save(guard.rollback), Clear(guard.rollback)>>
       \/ command.todo = <<Clear(guard.rollback)>> /\ ledger = guard.rollback

\* A derivation that was active still loses its active pointer.
Deactivating ==
    /\ command.todo = <<Save(CapturedRecord)>> /\ command.before \in Records
    /\ command.body \in Bodies
    /\ continuation # NoPlan /\ Unfinished /\ guard = NoGuard
    /\ continuation.candidate = Activated(CapturedRecord)

-----------------------------------------------------------------------------
(* The phases.                                                             *)

\* The planned result is on its way, and its evidence was seen whole.
Offering ==
    /\ continuation # NoPlan /\ intact
    /\ ledger = continuation.candidate /\ guard = NoGuard /\ pending = NoResult

JournalIsPlanned == journal # NoJournal /\ journal.at = continuation.at

InStage ==
    /\ Offering /\ JournalIsPlanned
    /\ \/ command.todo = <<>> /\ journal.log = continuation.after
       \/ /\ command.todo = <<Commit(continuation.event)>>
          /\ continuation.event # NoEvent
          /\ Digests(journal.log, continuation.event) = <<continuation.before, continuation.after>>

\* The result of a completion is the pending one, or was acknowledged before.
Completing ==
    /\ command.result \in manifests
    /\ command.identity # NoPlan => pending = command.result
    /\ command.identity = NoPlan =>
          /\ command.result \in receipts
          /\ pending = command.result \/ acknowledged # NoResult

Phased ==
    /\ command.phase \notin {"extract", "reuse", "process", "failing", "recover", "stage"} =>
          command.todo = <<>>
    /\ command.phase = "recover" =>
          /\ command.identity \in Identities /\ ~command.live
          /\ command.todo = <<>> \/ TakingBack
    /\ command.phase = "failing" => TakingBack \/ Deactivating
    /\ command.phase \in {"journal", "capture", "captured"} =>
          Capturing /\ ledger = command.before
    /\ command.phase = "journal" /\ journal # NoJournal => Resumed
    /\ command.phase \in {"capture", "captured"} => Resumed
    /\ command.phase = "captured" => command.body \in Bodies
    /\ command.phase = "extract" => InExtract
    /\ command.phase \in {"reuse", "process"} => InDerivation
    /\ command.phase \in {"reuse", "process", "finish", "publish", "stage", "finalize",
                          "save_pending"} => command.identity # NoPlan
    /\ command.phase = "finish" => continuation # NoPlan /\ guard = NoGuard
    /\ command.phase \in {"publish", "finalize", "save_pending"} => Offering
    /\ command.phase \in {"finish", "publish"} /\ command.live => journal # NoJournal
    /\ command.phase = "stage" => InStage
    /\ command.phase = "finalize" => JournalIsPlanned /\ journal.log = continuation.after
    /\ command.phase \in {"finalize", "save_pending"} => staged # NoResult
    /\ command.phase = "save_pending" =>
          command.result \in manifests /\ command.result = Result(continuation)
    /\ command.phase \in {"drop_journal", "drop_staged"} => Completing
    /\ command.phase = "drop_staged" => journal = NoJournal
    /\ command.phase \in {"acknowledge", "drop_pending", "drop_plan"} =>
          command.identity = NoPlan /\ command.result \in receipts /\ staged = NoResult
    /\ command.phase = "acknowledge" => pending = command.result \/ acknowledged # NoResult
    /\ command.phase \in {"drop_pending", "drop_plan"} => acknowledged # NoResult
    /\ command.phase = "drop_plan" => pending # command.result

Inv == Stored /\ (command # Idle => Phased)
-----------------------------------------------------------------------------
(* Scripts.                                                                *)

LEMMA TailIs ==
  ASSUME NEW S, NEW t \in Seq(S), NEW u \in Seq(S), t # <<>>, Len(t) = Len(u) + 1,
         \A k \in 1 .. Len(u) : u[k] = t[k + 1]
  PROVE  Tail(t) = u
OBVIOUS

\* The head and the rest of what is left of a script.
LEMMA SuffixStep ==
  ASSUME NEW S, NEW s \in Seq(S), NEW i \in 1 .. Len(s)
  PROVE  /\ SubSeq(s, i, Len(s)) # <<>>
         /\ Head(SubSeq(s, i, Len(s))) = s[i]
         /\ Tail(SubSeq(s, i, Len(s))) = SubSeq(s, i + 1, Len(s))
         /\ Len(SubSeq(s, i, Len(s))) = Len(s) - i + 1
<1> DEFINE n == Len(s)
           t == SubSeq(s, i, n)
           u == SubSeq(s, i + 1, n)
<1>1. n \in Nat /\ i \in Nat /\ i >= 1 /\ i <= n
  OBVIOUS
<1>2. t \in Seq(S) /\ Len(t) = n - i + 1 /\ \A k \in 1 .. n - i + 1 : t[k] = s[i + k - 1]
  BY <1>1
<1>3. u \in Seq(S) /\ Len(u) = n - i /\ \A k \in 1 .. n - i : u[k] = s[i + k]
  BY <1>1
<1>4. t # <<>> /\ Head(t) = s[i]
  <2>1. Len(t) >= 1 /\ t[1] = s[i]
    BY <1>1, <1>2
  <2> HIDE DEF t
  <2> QED
    BY <1>2, <2>1
<1>5. Len(t) = Len(u) + 1 /\ \A k \in 1 .. Len(u) : u[k] = t[k + 1]
  <2>1. Len(t) = Len(u) + 1 /\ Len(u) = n - i
    BY <1>1, <1>2, <1>3
  <2>2. ASSUME NEW k \in 1 .. Len(u)
        PROVE  u[k] = t[k + 1]
    <3>1. k \in 1 .. n - i /\ k + 1 \in 1 .. n - i + 1 /\ i + (k + 1) - 1 = i + k
      BY <1>1, <2>1
    <3>2. u[k] = s[i + k] /\ t[k + 1] = s[i + (k + 1) - 1]
      BY <1>2, <1>3, <3>1
    <3> QED
      BY <3>1, <3>2
  <2> QED
    BY <2>1, <2>2
<1>6. Tail(t) = u
  <2> HIDE DEF t, u
  <2> QED
    BY <1>2, <1>3, <1>4, <1>5, TailIs
<1> QED
  BY <1>2, <1>4, <1>6

LEMMA SuffixEnd ==
  ASSUME NEW S, NEW s \in Seq(S)
  PROVE  SubSeq(s, Len(s) + 1, Len(s)) = <<>> /\ SubSeq(s, 1, Len(s)) = s
OBVIOUS

\* A step before the others.
LEMMA FirstStep ==
  ASSUME NEW S, NEW x \in S, NEW s \in Seq(S)
  PROVE  <<x>> \o s # <<>> /\ Head(<<x>> \o s) = x /\ Tail(<<x>> \o s) = s /\ <<x>> \o s \in Seq(S)
<1> DEFINE t == <<x>> \o s
<1>1. t \in Seq(S) /\ Len(t) = Len(s) + 1 /\ t[1] = x /\ Len(s) \in Nat
      /\ \A k \in 1 .. Len(s) : t[k + 1] = s[k]
  OBVIOUS
<1>2. t # <<>> /\ Head(t) = x /\ Tail(t) = s
  <2> HIDE DEF t
  <2> QED
    BY <1>1, TailIs
<1> QED
  BY <1>1, <1>2

\* The step a script is at, and what is left after it.
At(s, i) ==
    /\ command.todo # <<>> /\ Head(command.todo) = s[i]
    /\ Tail(command.todo) = SubSeq(s, i + 1, Len(s))

\* The steps of the guarded activation.
LEMMA ActivationSteps ==
  ASSUME NEW before, NEW rollback, NEW final
  PROVE  LET s == GuardedActivation(before, rollback, final)
         IN /\ Len(s) = 7
            /\ s[1] = Emit(Activation(final)) /\ s[2] = Plan(final, Activation(final))
            /\ s[3] = Guard(before, rollback, final) /\ s[4] = Save(final) /\ s[5] = Prove(final)
            /\ s[6] = Clear(final) /\ s[7] = Commit(Activation(final))
BY DEF GuardedActivation

LEMMA FollowingAt ==
  ASSUME NEW S, NEW s \in Seq(S), NEW i \in 1 .. Len(s) + 1, Following(s, i)
  PROVE  /\ i = Len(s) + 1 => command.todo = <<>>
         /\ i # Len(s) + 1 => At(s, i)
<1>1. CASE i = Len(s) + 1
  BY <1>1, SuffixEnd DEF Following
<1>2. CASE i # Len(s) + 1
  <2>1. i \in 1 .. Len(s)
    BY <1>2
  <2> QED
    BY <1>2, <2>1, SuffixStep DEF Following, At
<1> QED
  BY <1>1, <1>2

LEMMA ActivationAt ==
  ASSUME NEW before, NEW rollback, NEW final, NEW i \in 1 .. 8,
         Following(GuardedActivation(before, rollback, final), i)
  PROVE  /\ i = 8 => command.todo = <<>>
         /\ i # 8 => At(GuardedActivation(before, rollback, final), i)
<1> DEFINE s == GuardedActivation(before, rollback, final)
           S == {s[1], s[2], s[3], s[4], s[5], s[6], s[7]}
<1>1. s \in Seq(S) /\ Len(s) = 7
  BY DEF GuardedActivation
<1>2. Following(s, i)
  OBVIOUS
<1> HIDE DEF s, S
<1>3. i \in 1 .. Len(s) + 1
  BY <1>1
<1>4. (i = Len(s) + 1 => command.todo = <<>>) /\ (i # Len(s) + 1 => At(s, i))
  BY <1>1, <1>2, <1>3, FollowingAt
<1>5. (i = 8 => command.todo = <<>>) /\ (i # 8 => At(s, i))
  BY <1>1, <1>4
<1> QED
  BY <1>5 DEF s

LEMMA StillAt ==
  ASSUME NEW i \in 1 .. 5, Following(StillScript, i)
  PROVE  /\ i = 5 => command.todo = <<>>
         /\ i # 5 => At(StillScript, i)
<1> DEFINE s == StillScript
           S == {s[1], s[2], s[3], s[4]}
<1>1. s \in Seq(S) /\ Len(s) = 4
  BY DEF StillScript
<1>2. Following(s, i)
  OBVIOUS
<1> HIDE DEF s, S
<1>3. i \in 1 .. Len(s) + 1
  BY <1>1
<1>4. (i = Len(s) + 1 => command.todo = <<>>) /\ (i # Len(s) + 1 => At(s, i))
  BY <1>1, <1>2, <1>3, FollowingAt
<1>5. (i = 5 => command.todo = <<>>) /\ (i # 5 => At(s, i))
  BY <1>1, <1>4
<1> QED
  BY <1>5 DEF s

LEMMA ThreeAt ==
  ASSUME NEW a, NEW b, NEW c, NEW i \in 1 .. 4, Following(<<a, b, c>>, i)
  PROVE  /\ i = 4 => command.todo = <<>>
         /\ i # 4 => At(<<a, b, c>>, i)
<1> DEFINE s == <<a, b, c>>
           S == {a, b, c}
<1>1. s \in Seq(S) /\ Len(s) = 3
  OBVIOUS
<1>2. Following(s, i)
  OBVIOUS
<1> HIDE DEF s, S
<1>3. i \in 1 .. Len(s) + 1
  BY <1>1
<1>4. (i = Len(s) + 1 => command.todo = <<>>) /\ (i # Len(s) + 1 => At(s, i))
  BY <1>1, <1>2, <1>3, FollowingAt
<1>5. (i = 4 => command.todo = <<>>) /\ (i # 4 => At(s, i))
  BY <1>1, <1>4
<1> QED
  BY <1>5 DEF s

\* What a guarded activation begins with is read.
LEMMA BeginningAt ==
  ASSUME NEW parts, NEW before, NEW rollback, Beginning(parts, before, rollback)
  PROVE  /\ command.todo # <<>> /\ Head(command.todo) = Read(parts, command.body)
         /\ Tail(command.todo) = GuardedActivation(before, rollback, Activated(rollback))
<1> DEFINE s == GuardedActivation(before, rollback, Activated(rollback))
           x == Read(parts, command.body)
           S == {x, s[1], s[2], s[3], s[4], s[5], s[6], s[7]}
<1>1. x \in S /\ s \in Seq(S)
  BY DEF GuardedActivation
<1>2. command.todo = <<x>> \o s
  BY DEF Beginning
<1> HIDE DEF s, x, S
<1>3. command.todo # <<>> /\ Head(command.todo) = x /\ Tail(command.todo) = s
  BY <1>1, <1>2, FirstStep
<1> QED
  BY <1>3 DEF s, x

\* Where a command with steps left is.
Taking == command.phase \in {"recover", "failing"} /\ TakingBack
Losing == command.phase = "failing" /\ Deactivating
Extracts(i) ==
    /\ command.phase = "extract" /\ Ready
    /\ At(<<Save(CapturedRecord), Read({"raw"}, command.body), Save(Extracting(CapturedRecord))>>, i)
Stays(i) == command.phase = "reuse" /\ Still(i) /\ At(StillScript, i)
Plainly(first, r, i) ==
    Underives(first, r) /\ Plain(first, r, i) /\ At(<<first, Plan(r, NoEvent), Save(r)>>, i)
Begins(parts, before, rollback) ==
    /\ RollsBack(before, rollback) /\ Ready
    /\ Head(command.todo) = Read(parts, command.body)
    /\ Tail(command.todo) = GuardedActivation(before, rollback, Activated(rollback))
Activates(before, rollback, i) ==
    /\ RollsBack(before, rollback) /\ Activating(before, rollback, i)
    /\ At(GuardedActivation(before, rollback, Activated(rollback)), i)
Commits ==
    /\ command.phase = "stage" /\ InStage /\ command.todo = <<Commit(continuation.event)>>

LEMMA Heads ==
  ASSUME Inv, command # Idle, command.todo # <<>>
  PROVE  \/ Taking \/ Losing \/ Commits
         \/ \E i \in 1 .. 3 : Extracts(i)
         \/ \E i \in 1 .. 4 : Stays(i)
         \/ \E first, r : \E i \in 1 .. 3 : Plainly(first, r, i)
         \/ \E parts, before, rollback : Begins(parts, before, rollback)
         \/ \E before, rollback : \E i \in 1 .. 7 : Activates(before, rollback, i)
<1>1. Phased
  BY DEF Inv
<1>2. CASE command.phase \notin {"extract", "reuse", "process"}
  BY <1>1, <1>2 DEF Phased, Taking, Losing, Commits, InStage
<1>3. CASE command.phase = "extract"
  <2>1. PICK i \in 1 .. 4 : Following(ExtractScript, i)
    BY <1>1, <1>3 DEF Phased, InExtract
  <2>2. At(ExtractScript, i) /\ i \in 1 .. 3
    BY <2>1, ThreeAt DEF ExtractScript
  <2> QED
    BY <1>1, <1>3, <2>2 DEF Extracts, Phased, InExtract, ExtractScript
<1>4. CASE command.phase \in {"reuse", "process"}
  <2>1. InDerivation
    BY <1>1, <1>4 DEF Phased
  <2>2. ASSUME NEW i \in 1 .. 5, command.phase = "reuse", Still(i)
        PROVE  \E j \in 1 .. 4 : Stays(j)
    <3>1. i \in 1 .. 4 /\ At(StillScript, i)
      BY <2>2, StillAt DEF Still
    <3> QED
      BY <2>2, <3>1 DEF Stays
  <2>3. ASSUME NEW first, NEW r, NEW i \in 1 .. 4, Underives(first, r), Plain(first, r, i)
        PROVE  i \in 1 .. 3 /\ Plainly(first, r, i)
    <3>1. i \in 1 .. 3 /\ At(<<first, Plan(r, NoEvent), Save(r)>>, i)
      BY <2>3, ThreeAt DEF Plain, PlainScript
    <3> QED
      BY <2>3, <3>1 DEF Plainly
  <2>4. ASSUME NEW before, NEW rollback, NEW parts, RollsBack(before, rollback),
               Beginning(parts, before, rollback)
        PROVE  Begins(parts, before, rollback)
    BY <2>4, BeginningAt DEF Begins, Beginning
  <2>5. ASSUME NEW before, NEW rollback, NEW i \in 1 .. 8, RollsBack(before, rollback),
               Activating(before, rollback, i)
        PROVE  i \in 1 .. 7 /\ Activates(before, rollback, i)
    <3>1. i \in 1 .. 7 /\ At(GuardedActivation(before, rollback, Activated(rollback)), i)
      BY <2>5, ActivationAt DEF Activating
    <3> QED
      BY <2>5, <3>1 DEF Activates
  <2> QED
    BY <2>1, <2>2, <2>3, <2>4, <2>5 DEF InDerivation
<1> QED
  BY <1>2, <1>3, <1>4

-----------------------------------------------------------------------------
(* What a step has to show.                                                *)

store == <<ledger, guard, spool, continuation, planned>>

LEMMA Typing ==
  ASSUME Inv, command # Idle
  PROVE  command \in Commands /\ Phased /\ Stored /\ TypeOK
BY DEF Inv, Stored, TypeOK

LEMMA Watching == Watch => intact' \in BOOLEAN
<1>1. Watch => intact' = (/\ command' # Idle /\ continuation' # NoPlan
              /\ \/ command # Idle /\ continuation = continuation' /\ intact
                 \/ Whole(continuation.candidate)')
  BY DEF Watch
<1> QED
  BY <1>1, Zenon

\* What is stored stays as it is.
LEMMA StoredStays ==
  ASSUME Stored, UNCHANGED <<store, clock>>, proved \subseteq proved', TypeOK'
  PROVE  Stored'
<1>0. /\ UNCHANGED <<ledger, guard, journal, staged, manifests, pending, receipts, acknowledged,
                     continuation, planned, clock>>
  BY DEF store, spool
<1>1. JournalIsKnown' /\ SpoolIsBound'
  BY <1>0 DEF Stored, JournalIsKnown, SpoolIsBound, Result
<1>2. LedgerIsPlanned' /\ GuardIsPlanned'
  BY <1>0 DEF Stored, LedgerIsPlanned, GuardIsPlanned, Unfinished
<1>3. PlansAreTimely'
  BY <1>0 DEF Stored, PlansAreTimely
<1>4. ActiveWasProved' /\ HandedOver'
  BY <1>0 DEF Stored, ActiveWasProved, HandedOver
<1>5. LiveIsAnnounced' /\ ResultIsThePlanned'
  BY <1>0 DEF Stored, LiveIsAnnounced, Announced, ResultIsThePlanned, Result, CorpusRow
<1> QED
  BY <1>1, <1>2, <1>3, <1>4, <1>5 DEF Stored

\* A step of the command's memory alone.
LEMMA Remembers ==
  ASSUME Inv, Watch, UNCHANGED <<url, evidence, store, clock>>,
         faults' \in 0 .. MaxFaults, edits' \in 0 .. MaxEdits,
         proved \subseteq proved', proved' \subseteq Records,
         command' = Idle \/ (command' \in Commands /\ Phased')
  PROVE  Inv'
<1>1. TypeOK'
  BY Watching DEF Inv, Stored, TypeOK, store, spool, evidence
<1>2. Stored'
  BY <1>1, StoredStays DEF Inv
<1> QED
  BY <1>2 DEF Inv

LEMMA Stops ==
  ASSUME Inv, Watch, UNCHANGED <<url, ledger, guard, evidence, spool, continuation, clock, edits,
                                 planned, proved>>,
         faults' \in 0 .. MaxFaults, command' = Idle
  PROVE  Inv'
BY Remembers DEF store, Inv, Stored, TypeOK

\* The rest of a script.
LEMMA Advances ==
  ASSUME Inv, command # Idle, command.todo # <<>>
  PROVE  /\ Head(command.todo) \in Steps /\ Tail(command.todo) \in Seq(Steps)
         /\ Len(command.todo) = 1 => Tail(command.todo) = <<>>
         /\ command.todo \in Seq(Steps)
<1>1. command.todo \in Seq(Steps)
  BY Typing DEF Commands
<1> PICK t : t = command.todo
  OBVIOUS
<1>2. t \in Seq(Steps) /\ t # <<>>
  BY <1>1
<1>3. Head(t) \in Steps /\ Tail(t) \in Seq(Steps) /\ Len(Tail(t)) = Len(t) - 1
  BY <1>2
<1>4. Len(t) = 1 => Tail(t) = <<>>
  <2> PICK u : u = Tail(t)
    OBVIOUS
  <2>1. u \in Seq(Steps) /\ Len(u) = Len(t) - 1
    BY <1>3
  <2>2. Len(t) = 1 => u = <<>>
    BY <2>1
  <2> QED
    BY <2>2
<1> QED
  BY <1>2, <1>3, <1>4

\* A command that goes on remembers the same.
LEMMA GoesOn ==
  ASSUME command \in Commands, NEW t \in Seq(Steps), NEW phase \in Phases,
         command' = [command EXCEPT !.todo = t, !.phase = phase]
  PROVE  /\ command' \in Commands /\ command' # Idle
         /\ command'.todo = t /\ command'.phase = phase
         /\ command'.identity = command.identity /\ command'.at = command.at
         /\ command'.body = command.body /\ command'.before = command.before
         /\ command'.live = command.live /\ command'.result = command.result
         /\ CapturedRecord' = CapturedRecord
<1>1. /\ command' \in Commands
      /\ command'.todo = t /\ command'.phase = phase
      /\ command'.identity = command.identity /\ command'.at = command.at
      /\ command'.body = command.body /\ command'.before = command.before
      /\ command'.live = command.live /\ command'.result = command.result
  BY DEF Commands
<1> QED
  BY <1>1, IdleIsNone DEF CapturedRecord

-----------------------------------------------------------------------------
(* Records.                                                                *)

LEMMA Retained ==
  ASSUME TypeOK, command \in Commands, command.before \in Records, command.body \in Bodies,
         command.identity \in Identities, command.at = clock, clock # 0
  PROVE  /\ CapturedRecord \in Records /\ CapturedRecord.at = clock
         /\ ~CapturedRecord.active /\ CapturedRecord.content = command.body
         /\ CapturedRecord.state = "pending"
<1>1. clock \in 1 .. MaxTime
  BY BoundsAreNaturals DEF TypeOK
<1> DEFINE c == [body |-> command.body, identity |-> command.identity, at |-> command.at]
<1>2. c \in Captures
  BY <1>1 DEF Captures
<1>3. CapturedRecord = [command.before EXCEPT !.captures = @ \union {c},
              !.content = command.body, !.active = FALSE, !.state = "pending", !.at = command.at]
  BY DEF CapturedRecord, Updated
<1> HIDE DEF c
<1> PICK b \in Records : b = command.before
  OBVIOUS
<1>4. b.captures \union {c} \in SUBSET Captures
  BY <1>2 DEF Records
<1>5. CapturedRecord = [b EXCEPT !.captures = b.captures \union {c},
              !.content = command.body, !.active = FALSE, !.state = "pending", !.at = clock]
  BY <1>3
<1> PICK C : C = b.captures \union {c}
  OBVIOUS
<1>6. CapturedRecord = [url |-> b.url, captures |-> C, content |-> command.body, active |-> FALSE,
                        derived |-> b.derived, state |-> "pending", at |-> clock]
  BY <1>5 DEF Records
<1>7. b.url \in Urls /\ C \in SUBSET Captures /\ b.derived \in SUBSET Bodies
      /\ clock \in 0 .. MaxTime /\ command.body \in Bodies \union {NoBody}
  BY <1>4, BoundsAreNaturals DEF Records, TypeOK
<1> QED
  BY <1>6, <1>7 DEF Records, States

LEMMA Marked ==
  ASSUME NEW r \in Records, ~r.active
  PROVE  /\ Extracting(r) \in Records /\ Extracting(r).at = r.at /\ ~Extracting(r).active
         /\ Extracting(r).content = r.content /\ Extracting(r).state = "extracting"
BY DEF Records, States, Extracting

LEMMA Underivable ==
  ASSUME NEW r \in Records, ~r.active, NEW state \in States
  PROVE  LET q == [r EXCEPT !.state = state]
         IN q \in Records /\ q.at = r.at /\ ~q.active /\ q.content = r.content /\ q.state = state
BY DEF Records

LEMMA MadeActive ==
  ASSUME NEW r \in Records, r.content \in Bodies
  PROVE  /\ Activated(r) \in Records /\ Activated(r).at = r.at /\ Activated(r).active
         /\ Activated(r).content = r.content /\ Activated(r).state = "ok"
BY DEF Records, States, Activated

\* What an activation can be taken back to is the record without it.
LEMMA Deactivates ==
  ASSUME NEW r, ~r.active, r \in Records
  PROVE  r = [Activated(r) EXCEPT !.active = FALSE, !.derived = r.derived, !.state = r.state]
BY DEF Records, Activated

LEMMA EventsTyped ==
  ASSUME NEW r \in Records
  PROVE  /\ Activation(r) \in Events /\ Activation(r).record = r
         /\ Activation(r) # NoEvent
         /\ Handoff(r) \in Events /\ Handoff(r).record = r
         /\ Prepared(Activation(r)) \in [frame : {"event", "commit"}, event : Events]
         /\ Prepared(Handoff(r)) \in [frame : {"event", "commit"}, event : Events]
         /\ Committed(Activation(r)) \in [frame : {"event", "commit"}, event : Events]
BY NoEventIsNone DEF Activation, Handoff, Events, Prepared, Committed

-----------------------------------------------------------------------------
(* Which step comes next, where.                                           *)

LEMMA Kinds ==
  ASSUME Inv, NEW kind, NextIs(kind)
  PROVE  /\ command # Idle /\ command.todo # <<>> /\ Head(command.todo).do = kind
         /\ \/ Taking /\ kind \in {"save", "clear"}
            \/ Losing /\ kind = "save"
            \/ Commits /\ kind = "commit"
            \/ kind = "save" /\ (Extracts(1) \/ Extracts(3))
            \/ kind = "read" /\ Extracts(2)
            \/ kind = "read" /\ Stays(1)
            \/ kind = "plan" /\ Stays(2)
            \/ kind = "save" /\ Stays(3)
            \/ kind = "prove" /\ Stays(4)
            \/ \E first, r : kind \in {"save", "read"} /\ kind = first.do /\ Plainly(first, r, 1)
            \/ \E first, r : kind = "plan" /\ Plainly(first, r, 2)
            \/ \E first, r : kind = "save" /\ Plainly(first, r, 3)
            \/ \E parts, before, rollback : kind = "read" /\ Begins(parts, before, rollback)
            \/ \E before, rollback : kind = "emit" /\ Activates(before, rollback, 1)
            \/ \E before, rollback : kind = "plan" /\ Activates(before, rollback, 2)
            \/ \E before, rollback : kind = "guard" /\ Activates(before, rollback, 3)
            \/ \E before, rollback : kind = "save" /\ Activates(before, rollback, 4)
            \/ \E before, rollback : kind = "prove" /\ Activates(before, rollback, 5)
            \/ \E before, rollback : kind = "clear" /\ Activates(before, rollback, 6)
            \/ \E before, rollback : kind = "commit" /\ Activates(before, rollback, 7)
<1>1. command # Idle /\ command.todo # <<>> /\ Head(command.todo).do = kind
  BY DEF NextIs
<1>2. Taking => kind \in {"save", "clear"}
  BY <1>1 DEF Taking, TakingBack, Save, Clear
<1>3. Losing => kind = "save"
  BY <1>1 DEF Losing, Deactivating, Save
<1>4. Commits => kind = "commit"
  BY <1>1 DEF Commits, Commit
<1>5. ASSUME NEW i \in 1 .. 3, Extracts(i)
      PROVE  \/ kind = "save" /\ (Extracts(1) \/ Extracts(3))
             \/ kind = "read" /\ Extracts(2)
  <2> DEFINE s == <<Save(CapturedRecord), Read({"raw"}, command.body), Save(Extracting(CapturedRecord))>>
  <2>1. Head(command.todo) = s[i]
    BY <1>5 DEF Extracts, At
  <2>2. s[1].do = "save" /\ s[2].do = "read" /\ s[3].do = "save"
    BY DEF Save, Read
  <2> HIDE DEF s
  <2>3. CASE i = 1
    BY <1>1, <1>5, <2>1, <2>2, <2>3
  <2>4. CASE i = 2
    BY <1>1, <1>5, <2>1, <2>2, <2>4
  <2>5. CASE i = 3
    BY <1>1, <1>5, <2>1, <2>2, <2>5
  <2> QED
    BY <2>3, <2>4, <2>5
<1>6. ASSUME NEW i \in 1 .. 4, Stays(i)
      PROVE  \/ kind = "read" /\ Stays(1)
             \/ kind = "plan" /\ Stays(2)
             \/ kind = "save" /\ Stays(3)
             \/ kind = "prove" /\ Stays(4)
  <2> DEFINE s == StillScript
  <2>1. Head(command.todo) = s[i]
    BY <1>6 DEF Stays, At
  <2>2. s[1].do = "read" /\ s[2].do = "plan" /\ s[3].do = "save" /\ s[4].do = "prove"
    BY DEF StillScript, Save, Read, Plan, Prove
  <2> HIDE DEF s
  <2>3. CASE i = 1
    BY <1>1, <1>6, <2>1, <2>2, <2>3
  <2>4. CASE i = 2
    BY <1>1, <1>6, <2>1, <2>2, <2>4
  <2>5. CASE i = 3
    BY <1>1, <1>6, <2>1, <2>2, <2>5
  <2>6. CASE i = 4
    BY <1>1, <1>6, <2>1, <2>2, <2>6
  <2> QED
    BY <2>3, <2>4, <2>5, <2>6
<1>7. ASSUME NEW first, NEW r, NEW i \in 1 .. 3, Plainly(first, r, i)
      PROVE  \/ kind \in {"save", "read"} /\ kind = first.do /\ Plainly(first, r, 1)
             \/ kind = "plan" /\ Plainly(first, r, 2)
             \/ kind = "save" /\ Plainly(first, r, 3)
  <2>1. Head(command.todo) = <<first, Plan(r, NoEvent), Save(r)>>[i]
    BY <1>7 DEF Plainly, At
  <2>2. first.do \in {"save", "read"}
    BY <1>7 DEF Plainly, Underives, Save, Read
  <2>3. i = 1 \/ i = 2 \/ i = 3
    OBVIOUS
  <2> QED
    BY <1>1, <1>7, <2>1, <2>2, <2>3 DEF Save, Plan
<1>8. ASSUME NEW parts, NEW before, NEW rollback, Begins(parts, before, rollback)
      PROVE  kind = "read"
  BY <1>1, <1>8 DEF Begins, Read
<1>9. ASSUME NEW before, NEW rollback, NEW i \in 1 .. 7, Activates(before, rollback, i)
      PROVE  \/ kind = "emit" /\ Activates(before, rollback, 1)
             \/ kind = "plan" /\ Activates(before, rollback, 2)
             \/ kind = "guard" /\ Activates(before, rollback, 3)
             \/ kind = "save" /\ Activates(before, rollback, 4)
             \/ kind = "prove" /\ Activates(before, rollback, 5)
             \/ kind = "clear" /\ Activates(before, rollback, 6)
             \/ kind = "commit" /\ Activates(before, rollback, 7)
  <2> DEFINE s == GuardedActivation(before, rollback, Activated(rollback))
  <2>1. Head(command.todo) = s[i]
    BY <1>9 DEF Activates, At
  <2>0. /\ s[1] = Emit(Activation(Activated(rollback)))
        /\ s[2] = Plan(Activated(rollback), Activation(Activated(rollback)))
        /\ s[3] = Guard(before, rollback, Activated(rollback)) /\ s[4] = Save(Activated(rollback))
        /\ s[5] = Prove(Activated(rollback)) /\ s[6] = Clear(Activated(rollback))
        /\ s[7] = Commit(Activation(Activated(rollback)))
    BY ActivationSteps
  <2>2. /\ s[1].do = "emit" /\ s[2].do = "plan" /\ s[3].do = "guard" /\ s[4].do = "save"
        /\ s[5].do = "prove" /\ s[6].do = "clear" /\ s[7].do = "commit"
    BY <2>0 DEF Emit, Plan, Guard, Save, Prove, Clear, Commit
  <2> HIDE DEF s
  <2>3. CASE i = 1
    BY <1>1, <1>9, <2>1, <2>2, <2>3
  <2>4. CASE i = 2
    BY <1>1, <1>9, <2>1, <2>2, <2>4
  <2>5. CASE i = 3
    BY <1>1, <1>9, <2>1, <2>2, <2>5
  <2>6. CASE i = 4
    BY <1>1, <1>9, <2>1, <2>2, <2>6
  <2>7. CASE i = 5
    BY <1>1, <1>9, <2>1, <2>2, <2>7
  <2>8. CASE i = 6
    BY <1>1, <1>9, <2>1, <2>2, <2>8
  <2>9. CASE i = 7
    BY <1>1, <1>9, <2>1, <2>2, <2>9
  <2> QED
    BY <2>3, <2>4, <2>5, <2>6, <2>7, <2>8, <2>9
<1>10. \/ Taking \/ Losing \/ Commits
       \/ \E i \in 1 .. 3 : Extracts(i)
       \/ \E i \in 1 .. 4 : Stays(i)
       \/ \E first, r : \E i \in 1 .. 3 : Plainly(first, r, i)
       \/ \E parts, before, rollback : Begins(parts, before, rollback)
       \/ \E before, rollback : \E i \in 1 .. 7 : Activates(before, rollback, i)
  BY <1>1, Heads
<1> HIDE DEF Taking, Losing, Commits, Extracts, Stays, Plainly, Begins, Activates
<1>a. CASE Taking
  BY <1>1, <1>2, <1>a
<1>b. CASE Losing
  BY <1>1, <1>3, <1>b
<1>c. CASE Commits
  BY <1>1, <1>4, <1>c
<1>d. CASE \E i \in 1 .. 3 : Extracts(i)
  BY <1>1, <1>5, <1>d
<1>e. CASE \E i \in 1 .. 4 : Stays(i)
  BY <1>1, <1>6, <1>e
<1>f. CASE \E first, r : \E i \in 1 .. 3 : Plainly(first, r, i)
  <2> PICK first, r : \E i \in 1 .. 3 : Plainly(first, r, i)
    BY <1>f
  <2> QED
    BY <1>1, <1>7
<1>g. CASE \E parts, before, rollback : Begins(parts, before, rollback)
  BY <1>1, <1>8, <1>g
<1>h. CASE \E before, rollback : \E i \in 1 .. 7 : Activates(before, rollback, i)
  <2> PICK before, rollback : \E i \in 1 .. 7 : Activates(before, rollback, i)
    BY <1>h
  <2> QED
    BY <1>1, <1>9
<1> QED
  BY <1>10, <1>a, <1>b, <1>c, <1>d, <1>e, <1>f, <1>g, <1>h

-----------------------------------------------------------------------------
(* Going on in a script.                                                   *)

LEMMA AdvanceOn ==
  ASSUME Inv, command # Idle, command.todo # <<>>, Advance,
         command.phase # "failing" \/ Len(command.todo) # 1
  PROVE  /\ command' \in Commands /\ command' # Idle
         /\ command'.todo = Tail(command.todo) /\ command'.phase = command.phase
         /\ command'.identity = command.identity /\ command'.at = command.at
         /\ command'.body = command.body /\ command'.before = command.before
         /\ command'.live = command.live /\ command'.result = command.result
         /\ CapturedRecord' = CapturedRecord
<1>1. command \in Commands /\ command.phase \in Phases /\ Tail(command.todo) \in Seq(Steps)
  BY Typing, Advances DEF Commands
<1>2. command' = [command EXCEPT !.todo = Tail(command.todo)]
  BY DEF Advance
<1>3. command' = [command EXCEPT !.todo = Tail(command.todo), !.phase = command.phase]
  BY <1>1, <1>2 DEF Commands
<1> QED
  BY <1>1, <1>3, GoesOn

LEMMA ActivationOn ==
  ASSUME Inv, command # Idle, NEW before, NEW rollback, NEW i \in 1 .. 7,
         Activates(before, rollback, i), Advance, ActivationHolds(before, rollback, i + 1)'
  PROVE  command' \in Commands /\ command' # Idle /\ Phased'
<1>1. /\ command.phase \in {"reuse", "process"} /\ RollsBack(before, rollback)
      /\ At(GuardedActivation(before, rollback, Activated(rollback)), i)
  BY DEF Activates, RollsBack
<1>2. /\ command' \in Commands /\ command' # Idle
      /\ command'.todo = Tail(command.todo) /\ command'.phase = command.phase
      /\ command'.body = command.body /\ command'.before = command.before
      /\ command'.identity = command.identity /\ CapturedRecord' = CapturedRecord
  BY <1>1, AdvanceOn DEF At
<1>3. Activating(before, rollback, i + 1)'
  BY <1>1, <1>2 DEF Activating, At, Following
<1>4. RollsBack(before, rollback)'
  BY <1>1, <1>2 DEF RollsBack
<1>5. /\ before \in {command'.before, Extracting(CapturedRecord)'}
      /\ rollback \in {CapturedRecord', Extracting(CapturedRecord)'}
  BY <1>4 DEF RollsBack
<1>6. command'.body \in Bodies /\ command'.before \in Records
  BY <1>1, <1>2, Typing DEF Phased, InDerivation
<1>7. i + 1 \in 1 .. 8
  OBVIOUS
<1>8. InDerivation'
  BY <1>3, <1>4, <1>5, <1>6, <1>7 DEF InDerivation
<1> QED
  BY <1>1, <1>2, <1>8, Typing DEF Phased

LEMMA StillOn ==
  ASSUME Inv, command # Idle, NEW i \in 1 .. 4, Stays(i), Advance, StillHolds(i + 1)'
  PROVE  command' \in Commands /\ command' # Idle /\ Phased'
<1>1. command.phase = "reuse" /\ At(StillScript, i)
  BY DEF Stays
<1>2. /\ command' \in Commands /\ command' # Idle
      /\ command'.todo = Tail(command.todo) /\ command'.phase = command.phase
      /\ command'.body = command.body /\ command'.before = command.before
      /\ command'.identity = command.identity /\ CapturedRecord' = CapturedRecord
  BY <1>1, AdvanceOn DEF At
<1>3. StillScript' = StillScript
  BY <1>2 DEF StillScript
<1>4. Still(i + 1)'
  BY <1>1, <1>2, <1>3 DEF Still, At, Following
<1>6. command'.body \in Bodies /\ command'.before \in Records
  BY <1>1, <1>2, Typing DEF Phased, InDerivation
<1>7. i + 1 \in 1 .. 5
  OBVIOUS
<1>8. InDerivation'
  BY <1>1, <1>2, <1>4, <1>6, <1>7 DEF InDerivation
<1> QED
  BY <1>1, <1>2, <1>8, Typing DEF Phased

LEMMA PlainOn ==
  ASSUME Inv, command # Idle, NEW first, NEW r, NEW i \in 1 .. 3, Plainly(first, r, i), Advance,
         PlainHolds(r, i + 1)'
  PROVE  command' \in Commands /\ command' # Idle /\ Phased'
<1>1. /\ command.phase = "process" /\ Underives(first, r)
      /\ At(<<first, Plan(r, NoEvent), Save(r)>>, i)
  BY DEF Plainly, Underives
<1>2. /\ command' \in Commands /\ command' # Idle
      /\ command'.todo = Tail(command.todo) /\ command'.phase = command.phase
      /\ command'.body = command.body /\ command'.before = command.before
      /\ command'.identity = command.identity /\ CapturedRecord' = CapturedRecord
  BY <1>1, AdvanceOn DEF At
<1>3. Plain(first, r, i + 1)'
  BY <1>1, <1>2 DEF Plain, At, Following, PlainScript
<1>4. Underives(first, r)' /\ first \in Firsts' /\ r \in WithoutDerivation'
  BY <1>1, <1>2 DEF Underives, Firsts, WithoutDerivation, Unsupportable, UnderivedRecord
<1>6. command'.body \in Bodies /\ command'.before \in Records
  BY <1>1, <1>2, Typing DEF Phased, InDerivation
<1>7. i + 1 \in 1 .. 4
  OBVIOUS
<1>8. InDerivation'
  BY <1>1, <1>2, <1>3, <1>4, <1>6, <1>7 DEF InDerivation
<1> QED
  BY <1>1, <1>2, <1>8, Typing DEF Phased

-----------------------------------------------------------------------------
(* What a planned journal yields.                                          *)

LEMMA FramesJoin ==
  ASSUME NEW S, NEW s \in Seq(S), NEW t \in Seq(S)
  PROVE  Frames(s \o t) = Frames(s) \union Frames(t)
<1> PICK u : u = s \o t
  OBVIOUS
<1>1. /\ Len(u) = Len(s) + Len(t) /\ Len(s) \in Nat /\ Len(t) \in Nat
      /\ DOMAIN u = 1 .. Len(s) + Len(t)
      /\ DOMAIN s = 1 .. Len(s) /\ DOMAIN t = 1 .. Len(t)
      /\ \A i \in 1 .. Len(s) : u[i] = s[i]
      /\ \A i \in 1 .. Len(t) : u[Len(s) + i] = t[i]
  OBVIOUS
<1>2. \A i \in DOMAIN u : u[i] \in Frames(s) \union Frames(t)
  <2> TAKE i \in DOMAIN u
  <2>1. i \in 1 .. Len(s) \/ i - Len(s) \in 1 .. Len(t)
    BY <1>1
  <2>2. CASE i \in 1 .. Len(s)
    BY <1>1, <2>2 DEF Frames
  <2>3. CASE i - Len(s) \in 1 .. Len(t)
    <3>1. i = Len(s) + (i - Len(s))
      BY <1>1
    <3>2. u[i] = t[i - Len(s)]
      BY <1>1, <2>3, <3>1
    <3> QED
      BY <1>1, <2>3, <3>2 DEF Frames
  <2> QED
    BY <2>1, <2>2, <2>3
<1>3. \A i \in 1 .. Len(s) : s[i] \in Frames(u)
  <2>1. \A i \in 1 .. Len(s) : i \in DOMAIN u
    BY <1>1
  <2> QED
    BY <1>1, <2>1 DEF Frames
<1>4. \A i \in 1 .. Len(t) : t[i] \in Frames(u)
  <2>1. \A i \in 1 .. Len(t) : Len(s) + i \in DOMAIN u
    BY <1>1
  <2> QED
    BY <1>1, <2>1 DEF Frames
<1>5. Frames(u) \subseteq Frames(s) \union Frames(t)
  BY <1>2 DEF Frames
<1>6. Frames(s) \subseteq Frames(u) /\ Frames(t) \subseteq Frames(u)
  BY <1>1, <1>3, <1>4 DEF Frames
<1> QED
  BY <1>5, <1>6

\* One frame more.
Grows(s, x, u) == u = Append(s, x)
Single(x, t) == t = <<x>>

LogFrames == [frame : {"event", "commit"}, event : Events]

\* Frames of an earlier time are not selected for a record of this one.
LEMMA EarlierNotKept ==
  ASSUME NEW old \in Logs, NEW r, NEW after, Older(old, Len(old), r.at),
         \A f \in Frames(after) : f.frame = "commit" => f.event.record = r
  PROVE  \A i \in 1 .. Len(old) : ~KeptWith(old[i], after, r)
<1> TAKE i \in 1 .. Len(old)
<1>0. old \in Seq(LogFrames)
  BY DEF Logs, LogFrames
<1>1. old[i].event.record.at < r.at /\ old[i] \in LogFrames
  BY <1>0 DEF Older
<1>2. old[i].event.record # r
  <2>1. old[i].event.record.at \in 0 .. MaxTime
    BY <1>1 DEF LogFrames, Events, Records
  <2>2. 0 .. MaxTime \subseteq Int
    OBVIOUS
  <2>3. old[i].event.record = r => old[i].event.record.at = r.at
    OBVIOUS
  <2> QED
    BY <1>1, <2>1, <2>2, <2>3
<1>3. Committed(old[i].event) \notin Frames(after)
  BY <1>2 DEF Committed
<1> QED
  BY <1>2, <1>3 DEF KeptWith

LEMMA Concat ==
  ASSUME NEW S, NEW s \in Seq(S), NEW t \in Seq(S), NEW wanted
  PROVE  SelectIn(s \o t, wanted) = SelectIn(s, wanted) \o SelectIn(t, wanted)
<1> PICK u : u = s \o t
  OBVIOUS
<1>1. Joined(s, t, u)
  BY DEF Joined
<1>2. Joined(SelectIn(s, wanted), SelectIn(t, wanted), SelectIn(u, wanted))
  BY <1>1, SelectConcat
<1> QED
  BY <1>2 DEF Joined

LEMMA JoinedFrames ==
  ASSUME NEW S, NEW s \in Seq(S), NEW t \in Seq(S), NEW u, Joined(s, t, u)
  PROVE  Frames(u) = Frames(s) \union Frames(t)
BY FramesJoin DEF Joined

LEMMA GrowsJoins ==
  ASSUME NEW S, NEW s \in Seq(S), NEW x \in S, NEW u, Grows(s, x, u), NEW t, Single(x, t)
  PROVE  Joined(s, t, u) /\ t \in Seq(S) /\ u \in Seq(S) /\ Len(u) = Len(s) + 1 /\ u # <<>>
         /\ Len(t) = 1 /\ t[1] = x /\ Frames(t) = {x}
BY DEF Grows, Single, Joined, Frames

LEMMA GrowsFrames ==
  ASSUME NEW S, NEW s \in Seq(S), NEW x \in S, NEW u, Grows(s, x, u)
  PROVE  u \in Seq(S) /\ u # <<>> /\ Len(u) = Len(s) + 1 /\ Frames(u) = Frames(s) \union {x}
<1>1. PICK t : Single(x, t)
  BY DEF Single
<1>2. Joined(s, t, u) /\ t \in Seq(S) /\ u \in Seq(S) /\ Len(u) = Len(s) + 1 /\ u # <<>>
      /\ Frames(t) = {x}
  BY <1>1, GrowsJoins
<1>3. Frames(u) = Frames(s) \union Frames(t)
  BY <1>2, JoinedFrames
<1> QED
  BY <1>2, <1>3

LEMMA GrowsKept ==
  ASSUME NEW S, NEW s \in Seq(S), NEW x \in S, NEW u, Grows(s, x, u), NEW wanted
  PROVE  /\ x \in wanted => Grows(SelectIn(s, wanted), x, SelectIn(u, wanted))
         /\ x \notin wanted => SelectIn(u, wanted) = SelectIn(s, wanted)
<1>1. PICK t : Single(x, t)
  BY DEF Single
<1>2. Joined(s, t, u) /\ t \in Seq(S) /\ Len(t) = 1 /\ t[1] = x
  BY <1>1, GrowsJoins
<1>3. Joined(SelectIn(s, wanted), SelectIn(t, wanted), SelectIn(u, wanted))
  BY <1>2, SelectConcat
<1>4. SelectIn(s, wanted) \in Seq(S)
  BY Selection
<1>5. CASE x \in wanted
  <2>1. \A i \in 1 .. Len(t) : t[i] \in wanted
    BY <1>2, <1>5
  <2>2. SelectIn(t, wanted) = t
    BY <1>2, <2>1, SelectAll
  <2>3. Joined(SelectIn(s, wanted), t, SelectIn(u, wanted))
    BY <1>3, <2>2
  <2> QED
    BY <1>1, <1>4, <1>5, <2>3 DEF Joined, Single, Grows
<1>6. CASE x \notin wanted
  <2>1. \A i \in 1 .. Len(t) : t[i] \notin wanted
    BY <1>2, <1>6
  <2>2. SelectIn(t, wanted) = <<>>
    BY <1>2, <2>1, SelectNone
  <2>3. Joined(SelectIn(s, wanted), <<>>, SelectIn(u, wanted))
    BY <1>3, <2>2
  <2> QED
    BY <1>4, <1>6, <2>3 DEF Joined
<1> QED
  BY <1>5, <1>6

\* The journal of an activation: earlier frames, its event and its commit.
LEMMA ActivationYields ==
  ASSUME NEW old \in Logs, NEW r \in Records, Older(old, Len(old), r.at), r.state = "ok",
         NEW c, c.candidate = r, c.event = Activation(r),
         Grows(old, Prepared(Activation(r)), c.before),
         Grows(c.before, Committed(Activation(r)), c.after)
  PROVE  WellPlanned(c)
<1> DEFINE e == Activation(r)
           p == Prepared(e)
           d == Committed(e)
           W == KeptFrames(c)
<1>1. /\ e \in Events /\ e.record = r /\ e # NoEvent
      /\ p \in LogFrames /\ d \in LogFrames /\ p.frame = "event" /\ d.frame = "commit"
      /\ p.event = e /\ d.event = e
  BY EventsTyped DEF LogFrames, Prepared, Committed
<1>2. Grows(old, p, c.before) /\ Grows(c.before, d, c.after) /\ c.event = e
  OBVIOUS
<1> HIDE DEF e, p, d
<1>3. old \in Seq(LogFrames)
  BY DEF Logs, LogFrames
<1> PICK q, z : q = c.before /\ z = c.after
  OBVIOUS
<1>4. Grows(old, p, q) /\ Grows(q, d, z)
  BY <1>2
<1>a. q \in Seq(LogFrames) /\ q # <<>> /\ Frames(q) = Frames(old) \union {p}
  BY <1>1, <1>3, <1>4, GrowsFrames
<1>5. Frames(z) = Frames(old) \union {p, d}
  <2>1. Frames(z) = Frames(q) \union {d}
    BY <1>1, <1>a, <1>4, GrowsFrames
  <2> QED
    BY <1>a, <2>1
<1>6. \A f \in Frames(old) : f.frame = "event"
  BY <1>3 DEF Older, Frames
<1>7. \A f \in Frames(z) : f.frame = "commit" => f.event.record = r
  BY <1>1, <1>5, <1>6
<1>8. \A i \in 1 .. Len(old) : old[i] \notin W
  BY <1>7, EarlierNotKept DEF KeptFrames
<1>9. p \in W /\ d \notin W
  BY <1>1, <1>5 DEF KeptFrames, KeptWith
<1> HIDE DEF W
<1>10. SelectIn(old, W) = <<>>
  BY <1>3, <1>8, SelectNone
<1>11. Grows(<<>>, p, SelectIn(q, W))
  BY <1>1, <1>3, <1>4, <1>9, <1>10, GrowsKept
<1>12. SelectIn(z, W) = SelectIn(q, W)
  BY <1>1, <1>4, <1>a, <1>9, GrowsKept
<1>15. SelectIn(z, W) = <<p>>
  BY <1>11, <1>12 DEF Grows
<1>16. PlannedEvents(c) = <<e>>
  <2>1. Handoffs(c.candidate) = <<>>
    BY DEF Handoffs
  <2> QED
    BY <1>1, <1>2, <2>1 DEF PlannedEvents
<1> QED
  BY <1>1, <1>2, <1>a, <1>15, <1>16 DEF WellPlanned, W, e

\* The journal of a record without a new derivation: earlier frames and its handoffs.
LEMMA HandoffsYield ==
  ASSUME NEW old \in Logs, NEW r \in Records, Older(old, Len(old), r.at),
         NEW c, c.candidate = r, c.event = NoEvent,
         c.after = old \o [i \in DOMAIN Handoffs(r) |-> Prepared(Handoffs(r)[i])]
  PROVE  WellPlanned(c)
<1> DEFINE hs == [i \in DOMAIN Handoffs(r) |-> Prepared(Handoffs(r)[i])]
           W == KeptFrames(c)
<1>1. old \in Seq(LogFrames)
  BY DEF Logs, LogFrames
<1>2. /\ hs \in Seq(LogFrames)
      /\ \A i \in 1 .. Len(hs) : hs[i].frame = "event" /\ hs[i].event.record = r
                                 /\ hs[i].event = Handoffs(r)[i]
      /\ DOMAIN hs = DOMAIN Handoffs(r)
  <2>1. CASE r.state = "needs_agent"
    <3>1. Handoffs(r) = <<Handoff(r)>>
      BY <2>1 DEF Handoffs
    <3>2. hs = <<Prepared(Handoff(r))>>
      BY <3>1
    <3> QED
      BY <3>1, <3>2, EventsTyped DEF LogFrames, Prepared
  <2>2. CASE r.state # "needs_agent"
    <3>1. Handoffs(r) = <<>>
      BY <2>2 DEF Handoffs
    <3>2. hs = <<>>
      BY <3>1
    <3> QED
      BY <3>1, <3>2
  <2> QED
    BY <2>1, <2>2
<1>3. c.after = old \o hs
  OBVIOUS
<1> HIDE DEF hs
<1>4. Frames(c.after) = Frames(old) \union Frames(hs)
  BY <1>1, <1>2, <1>3, FramesJoin
<1>5. \A f \in Frames(old) : f.frame = "event"
  BY <1>1 DEF Older, Frames
<1>e. \A f \in Frames(hs) : \E i \in 1 .. Len(hs) : f = hs[i]
  <2>1. DOMAIN hs = 1 .. Len(hs)
    BY <1>2
  <2> QED
    BY <2>1 DEF Frames
<1>6. \A f \in Frames(c.after) : f.frame = "event"
  BY <1>2, <1>4, <1>5, <1>e
<1>7. \A i \in 1 .. Len(old) : old[i] \notin W
  BY <1>6, EarlierNotKept DEF KeptFrames
<1>8. \A i \in 1 .. Len(hs) : hs[i] \in W
  <2>1. \A i \in 1 .. Len(hs) : hs[i] \in Frames(hs)
    <3>1. DOMAIN hs = 1 .. Len(hs)
      BY <1>2
    <3> QED
      BY <3>1 DEF Frames
  <2> QED
    BY <1>2, <1>4, <2>1 DEF KeptFrames, KeptWith
<1> HIDE DEF W
<1>9. SelectIn(old, W) = <<>>
  BY <1>1, <1>7, SelectNone
<1>10. SelectIn(hs, W) = hs
  BY <1>2, <1>8, SelectAll
<1>11. SelectIn(c.after, W) = hs
  <2>1. SelectIn(old \o hs, W) = SelectIn(old, W) \o SelectIn(hs, W)
    BY <1>1, <1>2, Concat
  <2>2. <<>> \o hs = hs
    BY <1>2
  <2> QED
    BY <1>3, <1>9, <1>10, <2>1, <2>2
<1>12. PlannedEvents(c) = Handoffs(r)
  <2>1. <<>> \o Handoffs(r) = Handoffs(r)
    BY DEF Handoffs
  <2> QED
    BY <2>1 DEF PlannedEvents
<1>13. \A i \in DOMAIN hs : hs[i].event = Handoffs(r)[i]
  BY <1>2
<1> QED
  BY <1>2, <1>11, <1>12, <1>13 DEF WellPlanned, W

-----------------------------------------------------------------------------
(* The steps of a capture.                                                 *)

\* The journal alone changes.
LEMMA JournalMoves ==
  ASSUME Inv, Watch, UNCHANGED <<url, ledger, guard, evidence, staged, manifests, pending, receipts,
                                 acknowledged, continuation, clock, edits, planned, proved>>,
         faults' \in 0 .. MaxFaults,
         command' = Idle \/ (command' \in Commands /\ Phased'),
         journal' \in Journals \union {NoJournal}, JournalIsKnown',
         pending # NoResult /\ staged = NoResult => journal' = NoJournal,
         acknowledged # NoResult /\ acknowledged.of = continuation /\ journal' # NoJournal =>
             journal'.log = <<>>
  PROVE  Inv'
<1>1. TypeOK'
  BY Watching DEF Inv, Stored, TypeOK, evidence
<1>2. SpoolIsBound'
  BY DEF Inv, Stored, SpoolIsBound, Result
<1>3. LedgerIsPlanned' /\ GuardIsPlanned'
  BY DEF Inv, Stored, LedgerIsPlanned, GuardIsPlanned, Unfinished
<1>4. PlansAreTimely' /\ ActiveWasProved' /\ HandedOver'
  BY DEF Inv, Stored, PlansAreTimely, ActiveWasProved, HandedOver
<1>5. LiveIsAnnounced' /\ ResultIsThePlanned'
  BY DEF Inv, Stored, LiveIsAnnounced, Announced, ResultIsThePlanned, Result
<1> QED
  BY <1>1, <1>2, <1>3, <1>4, <1>5 DEF Inv, Stored

\* What a capture has made of the record.
LEMMA CaptureTyped ==
  ASSUME Inv, command # Idle, Capturing, command.body \in Bodies
  PROVE  /\ CapturedRecord \in Records /\ CapturedRecord.at = clock
         /\ ~CapturedRecord.active /\ CapturedRecord.content = command.body
         /\ CapturedRecord.state = "pending"
         /\ Extracting(CapturedRecord) \in Records /\ Extracting(CapturedRecord).at = clock
         /\ ~Extracting(CapturedRecord).active
         /\ Extracting(CapturedRecord).content = command.body
         /\ Extracting(CapturedRecord).state = "extracting"
<1>1. command \in Commands /\ TypeOK /\ command.before \in Records
      /\ command.identity \in Identities /\ command.at = clock /\ clock # 0
  BY Typing DEF Capturing
<1>2. /\ CapturedRecord \in Records /\ CapturedRecord.at = clock
      /\ ~CapturedRecord.active /\ CapturedRecord.content = command.body
      /\ CapturedRecord.state = "pending"
  BY <1>1, Retained
<1> QED
  BY <1>2, Marked

LEMMA RollbackTyped ==
  ASSUME Inv, command # Idle, Capturing, command.body \in Bodies, NEW before, NEW rollback,
         RollsBack(before, rollback)
  PROVE  /\ before \in Records /\ rollback \in Records /\ ~rollback.active
         /\ Activated(rollback) \in Records /\ Activated(rollback).at = clock
         /\ Activated(rollback).active /\ Activated(rollback).content = command.body
         /\ Activated(rollback).state = "ok"
<1>1. before \in Records
  BY CaptureTyped DEF RollsBack, Capturing
<1>2. rollback \in Records /\ rollback.at = clock /\ ~rollback.active
      /\ rollback.content = command.body
  BY CaptureTyped DEF RollsBack
<1> QED
  BY <1>1, <1>2, MadeActive

\* A derivation's body is one that was captured.
LEMMA BodyTyped ==
  ASSUME Inv, command # Idle, command.phase \in {"reuse", "process"}
  PROVE  command.body \in Bodies /\ command.before \in Records
BY Typing DEF Phased, InDerivation

\* No result of another capture is acknowledged for the plan that has still to be made.
LEMMA NothingAcknowledged ==
  ASSUME Inv, continuation = NoPlan
  PROVE  acknowledged # NoResult => acknowledged.of # continuation
BY NoPlanIsNone DEF Inv, Stored, SpoolIsBound, TypeOK

LEMMA EmitStepKeeps == Inv /\ EmitStep /\ Watch => Inv'
<1> SUFFICES ASSUME Inv, EmitStep, Watch
             PROVE  Inv'
  OBVIOUS
<1>1. PICK before, rollback : Activates(before, rollback, 1)
  <2> HIDE DEF Taking, Losing, Commits, Extracts, Stays, Plainly, Begins, Activates
  <2> QED
    BY Kinds DEF EmitStep
<1>2. command # Idle /\ command.todo # <<>>
  BY DEF EmitStep, NextIs
<1> DEFINE r == Activated(rollback)
           p == Prepared(Activation(r))
           log == journal.log
<1>3. /\ RollsBack(before, rollback) /\ Capturing /\ Resumed
      /\ Head(command.todo) = Emit(Activation(r))
      /\ command.phase \in {"reuse", "process"}
  BY <1>1, ActivationSteps DEF Activates, Activating, ActivationHolds, At, Ready, RollsBack
<1>4. r \in Records /\ r.at = clock
  BY <1>2, <1>3, RollbackTyped, BodyTyped
<1>5. p \in LogFrames /\ p.frame = "event" /\ p.event = Activation(r) /\ p.event.record = r
  BY <1>4, EventsTyped DEF LogFrames, Prepared
<1>6. journal \in Journals /\ journal # NoJournal /\ log \in Seq(LogFrames)
      /\ Older(log, Len(log), clock)
  BY <1>3 DEF Inv, Stored, TypeOK, Resumed, Journals, Logs, LogFrames
<1>7. p \notin Frames(log)
  <2>1. ASSUME NEW i \in 1 .. Len(log), log[i] = p
        PROVE  FALSE
    <3>1. log[i].event.record.at < clock /\ clock \in Nat
      BY <1>6, BoundsAreNaturals DEF Older, Inv, Stored, TypeOK
    <3> QED
      BY <1>4, <1>5, <2>1, <3>1
  <2> QED
    BY <1>6, <2>1 DEF Frames
<1>8. journal' = [journal EXCEPT !.log = Append(log, p)]
  <2>1. Head(command.todo).event = Activation(r)
    BY <1>3 DEF Emit
  <2> QED
    BY <1>7, <2>1 DEF EmitStep
<1> HIDE DEF p, r
<1>9. PICK u : u = Append(log, p)
  OBVIOUS
<1>10. u \in Seq(LogFrames) /\ Len(u) = Len(log) + 1 /\ u[Len(u)] = p /\ u # <<>>
       /\ \A i \in 1 .. Len(log) : u[i] = log[i]
  BY <1>5, <1>6, <1>9
<1>11. journal' \in Journals /\ journal' # NoJournal /\ journal'.log = u
  BY <1>6, <1>8, <1>9, <1>10, NoJournalIsNone DEF Journals, Logs, LogFrames
<1>12. Older(u, Len(u) - 1, clock)
  BY <1>6, <1>10 DEF Older
<1>13. JournalIsKnown'
  <2>1. clock' = clock /\ clock \in Nat
    BY BoundsAreNaturals DEF EmitStep, bounds, Inv, Stored, TypeOK
  <2>2. \A i \in 1 .. Len(u) : u[i].event.record.at <= clock /\ u[i].frame = "event"
    <3> TAKE i \in 1 .. Len(u)
    <3>1. CASE i = Len(u)
      BY <1>4, <1>5, <1>10, <2>1, <3>1
    <3>2. CASE i # Len(u)
      <4>1. i \in 1 .. Len(u) - 1 /\ i \in 1 .. Len(log)
        BY <1>6, <1>10, <3>2
      <4>2. u[i].event.record.at < clock /\ u[i].frame = "event" /\ u[i] \in LogFrames
        BY <1>10, <1>12, <4>1 DEF Older
      <4>3. u[i].event.record.at \in Nat
        BY <4>2, BoundsAreNaturals DEF LogFrames, Events, Records
      <4> QED
        BY <2>1, <4>2, <4>3
    <3> QED
      BY <3>1, <3>2
  <2> QED
    BY <1>11, <2>1, <2>2 DEF JournalIsKnown
<1>14. ActivationHolds(before, rollback, 1 + 1)'
  <2>1. command'.identity = command.identity /\ command'.before = command.before
        /\ command'.at = command.at
    BY <1>2, <1>3, AdvanceOn DEF EmitStep
  <2>2. Capturing'
    BY <1>3, <2>1 DEF Capturing, EmitStep, bounds
  <2>3. p = Prepared(Activation(Activated(rollback)))
    BY DEF p, r
  <2>4. guard' = NoGuard /\ clock' = clock
    BY <1>3 DEF Capturing, EmitStep, bounds
  <2> QED
    BY <1>10, <1>11, <1>12, <2>2, <2>3, <2>4 DEF ActivationHolds
<1>15. command' \in Commands /\ Phased'
  BY <1>1, <1>2, <1>14, ActivationOn DEF EmitStep
<1>16. continuation = NoPlan /\ pending = NoResult
  BY <1>3 DEF Capturing
<1> QED
  BY <1>11, <1>13, <1>15, <1>16, NothingAcknowledged, JournalMoves
     DEF EmitStep, bounds, Inv, Stored, TypeOK


\* Nothing knows the plan that is made now.
LEMMA PlanIsNew ==
  ASSUME Inv, Capturing, NEW c \in Continuations, c.candidate.at = clock
  PROVE  c # NoPlan /\ (acknowledged # NoResult => acknowledged.of # c)
<1>1. c # NoPlan
  BY NoPlanIsNone
<1>2. acknowledged # NoResult => acknowledged.of \in planned
  BY DEF Inv, Stored, SpoolIsBound
<1>3. \A p \in planned : p.candidate.at < clock
  BY DEF Capturing
<1>4. clock \in Nat
  BY BoundsAreNaturals DEF Inv, Stored, TypeOK
<1>5. acknowledged # NoResult => acknowledged.of.candidate.at < clock
  BY <1>2, <1>3
<1> QED
  BY <1>1, <1>4, <1>5

LEMMA PlanMoves ==
  ASSUME Inv, Watch, Capturing, NEW c \in Continuations, c.candidate.at = clock, WellPlanned(c),
         UNCHANGED <<url, ledger, guard, evidence, staged, manifests, pending, receipts,
                     acknowledged, bounds, proved>>,
         continuation' = c, planned' = planned \union {c},
         journal' \in Journals, journal' # NoJournal,
         \A i \in 1 .. Len(journal'.log) : journal'.log[i].event.record.at <= clock,
         c.event = NoEvent /\ c.candidate.active => Announced(c.candidate.content),
         command' \in Commands, Phased'
  PROVE  Inv'
<1>1. c # NoPlan /\ (acknowledged # NoResult => acknowledged.of # c)
  BY PlanIsNew
<1>2. staged = NoResult /\ pending = NoResult /\ guard = NoGuard
  BY DEF Capturing
<1>3. TypeOK'
  BY <1>2, Watching DEF Inv, Stored, TypeOK, evidence, bounds
<1>4. JournalIsKnown'
  BY <1>1 DEF JournalIsKnown, bounds
<1>5. SpoolIsBound'
  BY <1>1, <1>2 DEF Inv, Stored, SpoolIsBound
<1>6. LedgerIsPlanned' /\ GuardIsPlanned'
  BY <1>1, <1>2 DEF LedgerIsPlanned, GuardIsPlanned, Unfinished
<1>7. PlansAreTimely'
  <2>1. clock \in Nat /\ clock' = clock
    BY BoundsAreNaturals DEF Inv, Stored, TypeOK, bounds
  <2>2. \A p \in planned' : p.candidate.at <= clock
    BY <2>1 DEF Inv, Stored, PlansAreTimely
  <2> HIDE DEF WellPlanned
  <2> QED
    BY <2>1, <2>2 DEF PlansAreTimely
<1>8. ActiveWasProved' /\ HandedOver'
  BY DEF Inv, Stored, ActiveWasProved, HandedOver
<1>9. LiveIsAnnounced'
  BY <1>1 DEF LiveIsAnnounced, Announced
<1>10. ResultIsThePlanned'
  BY DEF Inv, Stored, ResultIsThePlanned, Result
<1> QED
  BY <1>3, <1>4, <1>5, <1>6, <1>7, <1>8, <1>9, <1>10 DEF Inv, Stored

\* The handoffs of a record, as frames.
LEMMA HandoffFrames ==
  ASSUME NEW r \in Records
  PROVE  LET hs == [i \in DOMAIN Handoffs(r) |-> Prepared(Handoffs(r)[i])]
         IN hs \in Seq(LogFrames) /\ \A i \in 1 .. Len(hs) : hs[i].event.record = r
<1> DEFINE hs == [i \in DOMAIN Handoffs(r) |-> Prepared(Handoffs(r)[i])]
<1>1. CASE r.state = "needs_agent"
  <2>1. Handoffs(r) = <<Handoff(r)>>
    BY <1>1 DEF Handoffs
  <2>2. hs = <<Prepared(Handoff(r))>>
    BY <2>1
  <2> QED
    BY <2>1, <2>2, EventsTyped DEF LogFrames, Prepared
<1>2. CASE r.state # "needs_agent"
  <2>1. Handoffs(r) = <<>>
    BY <1>2 DEF Handoffs
  <2>2. hs = <<>>
    BY <2>1
  <2> QED
    BY <2>1, <2>2
<1> QED
  BY <1>1, <1>2

LEMMA JoinedParts ==
  ASSUME NEW S, NEW s \in Seq(S), NEW t \in Seq(S), NEW u, Joined(s, t, u)
  PROVE  /\ u \in Seq(S) /\ Len(u) = Len(s) + Len(t)
         /\ \A i \in 1 .. Len(s) : u[i] = s[i]
         /\ \A i \in 1 .. Len(t) : u[Len(s) + i] = t[i]
         /\ Len(s) \in Nat /\ Len(t) \in Nat
BY DEF Joined

\* The plan of a record whose derivation is not new.
LEMMA PlanWithoutEvent ==
  ASSUME Inv, command # Idle, Ready, NEW r \in Records, r.at = clock, NEW log,
         Joined(journal.log, [i \in DOMAIN Handoffs(r) |-> Prepared(Handoffs(r)[i])], log)
  PROVE  LET c == Continuation(command.identity, journal.at, r, log, NoEvent)
             j == [journal EXCEPT !.log = log]
         IN /\ c \in Continuations /\ c.candidate = r /\ c.event = NoEvent /\ WellPlanned(c)
            /\ j \in Journals /\ j # NoJournal
            /\ \A i \in 1 .. Len(j.log) : j.log[i].event.record.at <= clock
<1> DEFINE c == Continuation(command.identity, journal.at, r, log, NoEvent)
           j == [journal EXCEPT !.log = log]
           hs == [i \in DOMAIN Handoffs(r) |-> Prepared(Handoffs(r)[i])]
<1> PICK old : old = journal.log
  OBVIOUS
<1>1. /\ journal \in Journals /\ journal # NoJournal /\ old \in Logs
      /\ Older(old, Len(old), clock) /\ command.identity \in Identities
      /\ clock \in Nat
  BY BoundsAreNaturals DEF Ready, Capturing, Resumed, Inv, Stored, TypeOK, Journals
<1>2. hs \in Seq(LogFrames) /\ \A i \in 1 .. Len(hs) : hs[i].event.record = r
  BY HandoffFrames
<1>3. Joined(old, hs, log)
  OBVIOUS
<1>4. c = [identity |-> command.identity, at |-> journal.at, candidate |-> r,
           before |-> log, after |-> log, event |-> NoEvent]
  <2>1. Digests(log, NoEvent) = <<log, log>>
    BY DEF Digests
  <2> HIDE DEF hs
  <2>2. c = [identity |-> command.identity, at |-> journal.at, candidate |-> r,
           before |-> Digests(log, NoEvent)[1], after |-> Digests(log, NoEvent)[2],
           event |-> NoEvent]
    BY DEF Continuation
  <2> PICK pair : pair = Digests(log, NoEvent)
    OBVIOUS
  <2>3. pair[1] = log /\ pair[2] = log
    BY <2>1
  <2> QED
    BY <2>2, <2>3
<1>5. WellPlanned(c)
  <2>1. c.candidate = r /\ c.event = NoEvent /\ c.after = log
    BY <1>4
  <2>2. log = old \o [i \in DOMAIN Handoffs(r) |-> Prepared(Handoffs(r)[i])]
    BY <1>3 DEF Joined
  <2> HIDE DEF c, hs
  <2> QED
    BY <1>1, <2>1, <2>2, HandoffsYield
<1> HIDE DEF hs
<1>a. old \in Seq(LogFrames)
  BY <1>1 DEF Logs, LogFrames
<1>b. \A i \in 1 .. Len(old) : old[i].event.record.at <= clock
  <2> TAKE i \in 1 .. Len(old)
  <2>1. old[i] \in LogFrames /\ old[i].event.record.at < clock
    BY <1>1, <1>a DEF Older
  <2>2. old[i].event.record.at \in Nat
    BY <2>1, BoundsAreNaturals DEF LogFrames, Events, Records
  <2> QED
    BY <1>1, <2>1, <2>2
<1>c. \A i \in 1 .. Len(hs) : hs[i].event.record.at <= clock
  BY <1>1, <1>2
<1> HIDE DEF c, j
<1>6. log \in Seq(LogFrames) /\ \A i \in 1 .. Len(log) : log[i].event.record.at <= clock
  <2>1. /\ log \in Seq(LogFrames) /\ Len(log) = Len(old) + Len(hs)
        /\ \A i \in 1 .. Len(old) : log[i] = old[i]
        /\ \A i \in 1 .. Len(hs) : log[Len(old) + i] = hs[i]
        /\ Len(old) \in Nat /\ Len(hs) \in Nat
    <3>1. PICK tail : tail = hs
      OBVIOUS
    <3>2. tail \in Seq(LogFrames)
      BY <1>2, <3>1
    <3>3. Joined(old, tail, log)
      BY <1>3, <3>1
    <3>4. /\ log \in Seq(LogFrames) /\ Len(log) = Len(old) + Len(tail)
          /\ \A i \in 1 .. Len(old) : log[i] = old[i]
          /\ \A i \in 1 .. Len(tail) : log[Len(old) + i] = tail[i]
          /\ Len(old) \in Nat /\ Len(tail) \in Nat
      BY <1>a, <3>2, <3>3, JoinedParts
    <3> QED
      BY <3>1, <3>4
  <2>2. \A i \in 1 .. Len(log) : log[i].event.record.at <= clock
    <3> TAKE i \in 1 .. Len(log)
    <3>1. CASE i <= Len(old)
      <4>1. i \in 1 .. Len(old)
        BY <3>1, <2>1
      <4>2. log[i] = old[i]
        BY <2>1, <4>1
      <4> QED
        BY <1>b, <4>1, <4>2
    <3>2. CASE ~(i <= Len(old))
      <4>1. i - Len(old) \in 1 .. Len(hs) /\ Len(old) + (i - Len(old)) = i
        BY <3>2, <2>1
      <4>2. log[i] = hs[i - Len(old)]
        BY <2>1, <4>1
      <4> QED
        BY <1>c, <4>1, <4>2
    <3> QED
      BY <3>1, <3>2
  <2> QED
    BY <2>1, <2>2
<1>7. journal.command \in {"snapshot", "sync"} /\ journal.at \in 0 .. MaxTime
      /\ j = [command |-> journal.command, at |-> journal.at, log |-> log]
  BY <1>1 DEF Journals, j
<1>8. j \in Journals /\ j # NoJournal /\ j.log = log
  BY <1>6, <1>7, NoJournalIsNone DEF Journals, Logs, LogFrames
<1>9. c \in Continuations /\ c.candidate = r /\ c.event = NoEvent
  BY <1>1, <1>4, <1>6, <1>7 DEF Continuations, Logs, LogFrames
<1> QED
  BY <1>5, <1>6, <1>8, <1>9 DEF c, j

\* The plan of an activation: the journal before and after its commit.
LEMMA PlanWithEvent ==
  ASSUME Inv, command # Idle, Capturing, NEW r \in Records, r.at = clock, r.state = "ok",
         journal # NoJournal, NEW log, log = journal.log, log # <<>>,
         log[Len(log)] = Prepared(Activation(r)), Older(log, Len(log) - 1, clock)
  PROVE  LET c == Continuation(command.identity, journal.at, r, log, Activation(r))
         IN /\ c \in Continuations /\ c.candidate = r /\ c.event = Activation(r)
            /\ WellPlanned(c) /\ log \in Logs
            /\ \A i \in 1 .. Len(log) : log[i].event.record.at <= clock
<1> DEFINE e == Activation(r)
           p == Prepared(e)
           d == Committed(e)
           c == Continuation(command.identity, journal.at, r, log, e)
<1>1. /\ journal \in Journals /\ log \in Seq(LogFrames) /\ journal.at \in 0 .. MaxTime
      /\ command.identity \in Identities /\ clock \in Nat
  BY BoundsAreNaturals DEF Capturing, Inv, Stored, TypeOK, Journals, Logs, LogFrames
<1>2. /\ e \in Events /\ e.record = r /\ e # NoEvent
      /\ p \in LogFrames /\ d \in LogFrames /\ p.frame = "event" /\ d.frame = "commit"
      /\ p.event = e /\ d.event = e
  BY EventsTyped DEF LogFrames, Prepared, Committed
<1>3. log[Len(log)] = p /\ c = Continuation(command.identity, journal.at, r, log, e)
      /\ e = Activation(r) /\ p = Prepared(e) /\ d = Committed(e)
  OBVIOUS
<1> HIDE DEF e, p, d, c
<1>4. Len(log) \in Nat /\ Len(log) >= 1 /\ DOMAIN log = 1 .. Len(log) /\ Len(log) \in 1 .. Len(log)
  BY <1>1
<1>5. \A i \in 1 .. Len(log) :
         log[i].frame = "event" /\ log[i].event.record.at <= clock /\ log[i] \in LogFrames
  <2> TAKE i \in 1 .. Len(log)
  <2>1. CASE i = Len(log)
    BY <1>1, <1>2, <1>3, <2>1
  <2>2. CASE i # Len(log)
    <3>1. i \in 1 .. Len(log) - 1
      BY <1>4, <2>2
    <3>2. log[i].frame = "event" /\ log[i].event.record.at < clock /\ log[i] \in LogFrames
      BY <1>1, <3>1 DEF Older
    <3>3. log[i].event.record.at \in Nat
      BY <3>2, BoundsAreNaturals DEF LogFrames, Events, Records
    <3> QED
      BY <1>1, <3>2, <3>3
  <2> QED
    BY <2>1, <2>2
<1>6. PICK after : Grows(log, d, after)
  BY DEF Grows
<1>7. Digests(log, e) = <<log, after>>
  <2>1. p \in Frames(log)
    BY <1>3, <1>4 DEF Frames
  <2>2. d \notin Frames(log)
    BY <1>2, <1>4, <1>5 DEF Frames
  <2>3. Digests(log, e) = <<log, Append(log, d)>>
    BY <1>2, <1>3, <2>1, <2>2 DEF Digests
  <2> QED
    BY <1>6, <2>3 DEF Grows
<1>8. c = [identity |-> command.identity, at |-> journal.at, candidate |-> r,
           before |-> log, after |-> after, event |-> e]
  <2>1. c = [identity |-> command.identity, at |-> journal.at, candidate |-> r,
           before |-> Digests(log, e)[1], after |-> Digests(log, e)[2], event |-> e]
    BY <1>3 DEF Continuation
  <2> PICK pair : pair = Digests(log, e)
    OBVIOUS
  <2>3. pair[1] = log /\ pair[2] = after
    BY <1>7
  <2> QED
    BY <2>1, <2>3
<1>9. after \in Seq(LogFrames)
  BY <1>1, <1>2, <1>6, GrowsFrames
<1>10. c \in Continuations /\ c.candidate = r /\ c.event = e /\ c.before = log /\ c.after = after
  BY <1>1, <1>2, <1>8, <1>9 DEF Continuations, Logs, LogFrames
<1>11. PICK old : old = SubSeq(log, 1, Len(log) - 1)
  OBVIOUS
<1>12. old \in Seq(LogFrames) /\ Len(old) = Len(log) - 1
       /\ \A i \in 1 .. Len(old) : old[i] = log[i]
  BY <1>1, <1>4, <1>11
<1>13. Grows(old, p, log)
  <2> PICK u : u = Append(old, p)
    OBVIOUS
  <2>1. u \in Seq(LogFrames) /\ Len(u) = Len(log) /\ u[Len(log)] = p
        /\ \A i \in 1 .. Len(log) - 1 : u[i] = old[i]
    BY <1>2, <1>4, <1>12
  <2>2. \A i \in 1 .. Len(log) : u[i] = log[i]
    BY <1>3, <1>4, <1>12, <2>1
  <2>3. u = log
    BY <1>1, <2>1, <2>2
  <2> QED
    BY <2>3 DEF Grows
<1>14. Older(old, Len(old), r.at)
  BY <1>4, <1>12 DEF Older
<1>15. WellPlanned(c)
  <2>1. Grows(old, Prepared(Activation(r)), c.before)
        /\ Grows(c.before, Committed(Activation(r)), c.after)
        /\ c.event = Activation(r) /\ old \in Logs
    BY <1>3, <1>6, <1>10, <1>12, <1>13 DEF Logs, LogFrames
  <2> QED
    BY <1>10, <1>14, <2>1, ActivationYields
<1> QED
  BY <1>1, <1>3, <1>5, <1>10, <1>15 DEF Logs, LogFrames

\* The plan stands beside a result that is still to come.
LEMMA PlanIsMade ==
  ASSUME Inv, Capturing, NEW c \in Continuations, c.candidate.at = clock,
         UNCHANGED <<guard, staged, pending, acknowledged>>, continuation' = c,
         journal' # NoJournal
  PROVE  PlanMade(c.candidate, c.event)' /\ guard' = NoGuard
<1>1. c # NoPlan /\ (acknowledged # NoResult => acknowledged.of # c)
  BY PlanIsNew
<1> QED
  BY <1>1 DEF PlanMade, Unfinished, Capturing

LEMMA PlanStepKeeps == Inv /\ PlanStep /\ Watch => Inv'
<1> SUFFICES ASSUME Inv, PlanStep, Watch
             PROVE  Inv'
  OBVIOUS
<1>1. \/ Stays(2)
      \/ \E first, r : Plainly(first, r, 2)
      \/ \E before, rollback : Activates(before, rollback, 2)
  <2> HIDE DEF Taking, Losing, Commits, Extracts, Stays, Plainly, Begins, Activates
  <2> QED
    BY Kinds DEF PlanStep
<1>2. command # Idle /\ command.todo # <<>>
  BY DEF PlanStep, NextIs
<1>3. ASSUME NEW r \in Records, r.at = clock, Ready,
             Head(command.todo) = Plan(r, NoEvent),
             r.active => Announced(r.content),
             PlanMade(r, NoEvent)' /\ guard' = NoGuard =>
                      command' \in Commands /\ Phased'
      PROVE  Inv'
  <2> PICK log : Joined(journal.log, [i \in DOMAIN Handoffs(r) |-> Prepared(Handoffs(r)[i])], log)
    BY DEF Joined
  <2> DEFINE c == Continuation(command.identity, journal.at, r, log, NoEvent)
             j == [journal EXCEPT !.log = log]
  <2>1. /\ c \in Continuations /\ c.candidate = r /\ c.event = NoEvent /\ WellPlanned(c)
        /\ j \in Journals /\ j # NoJournal
        /\ \A i \in 1 .. Len(j.log) : j.log[i].event.record.at <= clock
    BY <1>2, <1>3, PlanWithoutEvent
  <2>2. journal' = j /\ continuation' = c /\ planned' = planned \union {c}
    <3>1. Head(command.todo).record = r /\ Head(command.todo).event = NoEvent
      BY <1>3 DEF Plan
    <3> QED
      BY <3>1 DEF PlanStep, Joined
  <2> HIDE DEF c, j
  <2>3. Capturing
    BY <1>3 DEF Ready
  <2>4. PlanMade(r, NoEvent)' /\ guard' = NoGuard
    BY <1>3, <2>1, <2>2, <2>3, PlanIsMade DEF PlanStep
  <2>5. command' \in Commands /\ Phased'
    BY <1>3, <2>4
  <2> QED
    BY <1>3, <2>1, <2>2, <2>3, <2>5, PlanMoves DEF PlanStep
<1>4. CASE Stays(2)
  <2>0. PICK r : r = Activated(CapturedRecord)
    OBVIOUS
  <2>1. /\ command.phase = "reuse" /\ Ready /\ Capturing /\ StillActive /\ ledger = command.before
        /\ Head(command.todo) = Plan(r, NoEvent)
    BY <1>4, <2>0 DEF Stays, Still, StillHolds, At, StillScript, Ready
  <2>2. command.body \in Bodies
    BY <1>2, <2>1, BodyTyped
  <2>3. r \in Records /\ r.at = clock /\ r.content = command.body
    BY <1>2, <2>0, <2>1, <2>2, CaptureTyped, MadeActive
  <2>4. Announced(r.content)
    <3>1. command.before \in Records /\ continuation = NoPlan
      BY <2>1 DEF Capturing
    <3>2. ledger # NoRecord /\ ledger.active /\ ledger.content = command.body
      BY <2>1, <3>1, NoRecordIsNone DEF StillActive
    <3> QED
      BY <2>3, <3>1, <3>2 DEF Inv, Stored, LiveIsAnnounced
  <2>5. ASSUME PlanMade(r, NoEvent)', guard' = NoGuard
        PROVE  command' \in Commands /\ Phased'
    <3>1. /\ command'.body = command.body /\ command'.before = command.before
          /\ CapturedRecord' = CapturedRecord
      BY <1>2, <2>1, AdvanceOn DEF PlanStep
    <3>2. PlanMade(Activated(CapturedRecord), NoEvent)'
      <4>1. Activated(CapturedRecord') = r
        BY <2>0, <3>1
      <4> QED
        BY <2>5, <4>1 DEF PlanMade
    <3>3. StillHolds(2 + 1)'
      BY <2>1, <2>2, <2>5, <3>1, <3>2 DEF StillHolds, StillActive, PlanStep
    <3> QED
      BY <1>2, <1>4, <3>3, StillOn DEF PlanStep
  <2> HIDE DEF Stays
  <2> QED
    BY <1>3, <2>1, <2>3, <2>4, <2>5
<1>5. CASE \E first, r : Plainly(first, r, 2)
  <2> PICK first, r : Plainly(first, r, 2)
    BY <1>5
  <2>1. /\ Ready /\ Capturing /\ Head(command.todo) = Plan(r, NoEvent)
        /\ command.body \in Bodies /\ Underives(first, r)
    BY DEF Plainly, Plain, PlainHolds, At, Ready
  <2>2. r \in Records /\ r.at = clock /\ ~r.active
    <3>1. CapturedRecord \in Records /\ CapturedRecord.at = clock /\ ~CapturedRecord.active
      BY <1>2, <2>1, CaptureTyped
    <3>2. \E state \in States : r = [CapturedRecord EXCEPT !.state = state]
      BY <2>1 DEF Underives, Unsupportable, UnderivedRecord, States
    <3> QED
      BY <3>1, <3>2, Underivable
  <2>3. ASSUME PlanMade(r, NoEvent)', guard' = NoGuard
        PROVE  command' \in Commands /\ Phased'
    <3>1. PlainHolds(r, 2 + 1)'
      BY <2>3 DEF PlainHolds
    <3> QED
      BY <1>2, <3>1, PlainOn DEF PlanStep
  <2> HIDE DEF Plainly
  <2> QED
    BY <1>3, <2>1, <2>2, <2>3
<1>6. CASE \E before, rollback : Activates(before, rollback, 2)
  <2> PICK before, rollback : Activates(before, rollback, 2)
    BY <1>6
  <2> DEFINE r == Activated(rollback)
             e == Activation(r)
             log == journal.log
             c == Continuation(command.identity, journal.at, r, log, e)
  <2>1. /\ RollsBack(before, rollback) /\ Capturing /\ command.phase \in {"reuse", "process"}
        /\ journal # NoJournal /\ log # <<>> /\ log[Len(log)] = Prepared(e)
        /\ Older(log, Len(log) - 1, clock)
        /\ Head(command.todo) = Plan(r, e)
    BY ActivationSteps DEF Activates, Activating, ActivationHolds, At, RollsBack
  <2>2. r \in Records /\ r.at = clock /\ r.state = "ok"
    BY <1>2, <2>1, RollbackTyped, BodyTyped
  <2>3. /\ c \in Continuations /\ c.candidate = r /\ c.event = e /\ WellPlanned(c)
        /\ log \in Logs /\ \A i \in 1 .. Len(log) : log[i].event.record.at <= clock
    <3> HIDE DEF r
    <3> QED
      BY <1>2, <2>1, <2>2, PlanWithEvent
  <2>4. e # NoEvent
    BY <2>2, EventsTyped
  <2> HIDE DEF e
  <2>5. journal' = journal /\ continuation' = c /\ planned' = planned \union {c}
    <3>1. Head(command.todo).record = r /\ Head(command.todo).event = e
      BY <2>1 DEF Plan
    <3>2. Handoffs(r) = <<>>
      BY <2>2 DEF Handoffs
    <3>3. journal \in Journals
      BY <2>1 DEF Inv, Stored, TypeOK
    <3>4. log \o [i \in DOMAIN Handoffs(r) |-> Prepared(Handoffs(r)[i])] = log
      <4>1. [i \in DOMAIN Handoffs(r) |-> Prepared(Handoffs(r)[i])] = <<>>
        BY <3>2
      <4>2. log \o <<>> = log
        BY <3>3 DEF Journals, Logs
      <4> QED
        BY <4>1, <4>2
    <3>5. [journal EXCEPT !.log = log] = journal
      BY <3>3 DEF Journals
    <3> HIDE DEF r, log
    <3> QED
      BY <3>1, <3>4, <3>5 DEF PlanStep, log
  <2> HIDE DEF r, c
  <2>6. PlanMade(r, e)' /\ guard' = NoGuard
    BY <2>1, <2>2, <2>3, <2>5, PlanIsMade DEF PlanStep
  <2>7. ActivationHolds(before, rollback, 2 + 1)'
    BY <2>6 DEF ActivationHolds, r, e
  <2>8. command' \in Commands /\ Phased'
    BY <1>2, <2>7, ActivationOn DEF PlanStep
  <2>9. journal' \in Journals
    BY <2>1, <2>5 DEF Inv, Stored, TypeOK
  <2> HIDE DEF Activates
  <2> QED
    BY <2>1, <2>2, <2>3, <2>4, <2>5, <2>8, <2>9, PlanMoves DEF PlanStep
<1> QED
  BY <1>1, <1>4, <1>5, <1>6

\* The record, its guard and what was proved of it change.
LEMMA RecordMoves ==
  ASSUME Inv, Watch, UNCHANGED <<url, archive, output, spool, continuation, clock, edits, planned>>,
         faults' \in 0 .. MaxFaults,
         ledger' \in Records \union {NoRecord}, guard' \in Guards \union {NoGuard},
         proved \subseteq proved', proved' \subseteq Records,
         LedgerIsPlanned', GuardIsPlanned', ActiveWasProved', HandedOver',
         continuation = NoPlan /\ ledger' # NoRecord
         /\ (ledger'.active \/ ledger'.state = "needs_agent") => Announced(ledger'.content),
         command' = Idle \/ (command' \in Commands /\ Phased')
  PROVE  Inv'
<1>0. /\ UNCHANGED <<journal, staged, manifests, pending, receipts, acknowledged>>
  BY DEF spool
<1>1. TypeOK'
  BY <1>0, Watching DEF Inv, Stored, TypeOK
<1>2. JournalIsKnown' /\ SpoolIsBound'
  BY <1>0 DEF Inv, Stored, JournalIsKnown, SpoolIsBound, Result
<1>3. PlansAreTimely' /\ ResultIsThePlanned'
  BY <1>0 DEF Inv, Stored, PlansAreTimely, ResultIsThePlanned, Result
<1>4. LiveIsAnnounced'
  BY <1>0 DEF Inv, Stored, LiveIsAnnounced, Announced
<1> QED
  BY <1>1, <1>2, <1>3, <1>4 DEF Inv, Stored

LEMMA HeadTyped ==
  ASSUME Inv, NEW kind, NextIs(kind)
  PROVE  /\ kind = "guard" => Head(command.todo).guard \in Guards
         /\ kind \in {"save", "prove", "clear"} => Head(command.todo).record \in Records
<1>1. Head(command.todo) \in Steps /\ Head(command.todo).do = kind
  BY Advances DEF NextIs
<1> QED
  BY <1>1 DEF Steps

\* Nothing a capture makes of the record is active before its activation.
LEMMA Inactive ==
  ASSUME command.before \in Records
  PROVE  /\ ~CapturedRecord.active /\ CapturedRecord.content = command.body
         /\ CapturedRecord.state = "pending"
         /\ ~Extracting(CapturedRecord).active /\ Extracting(CapturedRecord).state = "extracting"
         /\ Extracting(CapturedRecord).content = command.body
         /\ \A first, r : Underives(first, r) => ~r.active /\ r.content = command.body
         /\ Activated(CapturedRecord).active /\ Activated(CapturedRecord).content = command.body
         /\ Activated(CapturedRecord).state = "ok"
<1> DEFINE c == [body |-> command.body, identity |-> command.identity, at |-> command.at]
<1>1. CapturedRecord = [command.before EXCEPT !.captures = @ \union {c},
              !.content = command.body, !.active = FALSE, !.state = "pending", !.at = command.at]
  BY DEF CapturedRecord, Updated
<1> HIDE DEF c
<1> PICK b \in Records : b = command.before
  OBVIOUS
<1> PICK C : C = b.captures \union {c}
  OBVIOUS
<1>2. CapturedRecord = [url |-> b.url, captures |-> C, content |-> command.body, active |-> FALSE,
                        derived |-> b.derived, state |-> "pending", at |-> command.at]
  BY <1>1 DEF Records
<1> QED
  BY <1>2 DEF Extracting, Activated, Underives, Unsupportable, UnderivedRecord

LEMMA GuardStepKeeps == Inv /\ GuardStep /\ Watch => Inv'
<1> SUFFICES ASSUME Inv, GuardStep, Watch
             PROVE  Inv'
  OBVIOUS
<1>1. PICK before, rollback : Activates(before, rollback, 3)
  <2> HIDE DEF Taking, Losing, Commits, Extracts, Stays, Plainly, Begins, Activates
  <2> QED
    BY Kinds DEF GuardStep
<1>2. command # Idle /\ command.todo # <<>>
  BY DEF GuardStep, NextIs
<1>3. PICK final : final = Activated(rollback)
  OBVIOUS
<1>4. /\ RollsBack(before, rollback) /\ command.phase \in {"reuse", "process"}
      /\ PlanMade(final, Activation(final)) /\ guard = NoGuard
      /\ Head(command.todo) = Guard(before, rollback, final)
  BY <1>1, <1>3, ActivationSteps DEF Activates, Activating, ActivationHolds, At, RollsBack
<1>5. guard' = [before |-> before, rollback |-> rollback, after |-> final]
  BY <1>4 DEF GuardStep, Guard
<1>6. guard' \in Guards /\ guard' # NoGuard /\ ledger' = ledger
  BY HeadTyped, NoGuardIsNone DEF GuardStep
<1>7. ~rollback.active /\ rollback.state # "needs_agent"
  BY <1>2, <1>4, BodyTyped, Inactive DEF RollsBack
<1>8. GuardIsPlanned' /\ LedgerIsPlanned' /\ ActiveWasProved' /\ HandedOver'
  BY <1>3, <1>4, <1>5, <1>6, <1>7
     DEF GuardStep, spool, GuardIsPlanned, LedgerIsPlanned, ActiveWasProved, HandedOver, PlanMade,
         Unfinished, Inv, Stored
<1>9. PlanMade(final, Activation(final))'
  BY <1>4 DEF PlanMade, Unfinished, GuardStep, spool
<1>10. ActivationHolds(before, rollback, 3 + 1)'
  BY <1>3, <1>5, <1>6, <1>9 DEF ActivationHolds
<1>11. command' \in Commands /\ Phased'
  BY <1>1, <1>2, <1>10, ActivationOn DEF GuardStep
<1>12. continuation # NoPlan /\ ledger \in Records \union {NoRecord}
         /\ faults \in 0 .. MaxFaults /\ proved \subseteq Records
  BY <1>4 DEF PlanMade, Inv, Stored, TypeOK
<1> HIDE DEF Activates
<1> QED
  BY <1>6, <1>8, <1>11, <1>12, RecordMoves DEF GuardStep, evidence, bounds

LEMMA ClearStepKeeps == Inv /\ ClearStep /\ Watch => Inv'
<1> SUFFICES ASSUME Inv, ClearStep, Watch
             PROVE  Inv'
  OBVIOUS
<1>1. Taking \/ \E before, rollback : Activates(before, rollback, 6)
  <2> HIDE DEF Taking, Losing, Commits, Extracts, Stays, Plainly, Begins, Activates
  <2> QED
    BY Kinds DEF ClearStep
<1>2. command # Idle /\ command.todo # <<>> /\ Head(command.todo).do = "clear"
  BY DEF ClearStep, NextIs
<1>3. /\ ledger \in Records \union {NoRecord} /\ faults \in 0 .. MaxFaults
      /\ proved \subseteq Records /\ guard' = NoGuard /\ GuardIsPlanned'
      /\ ledger' = ledger /\ proved' = proved /\ Phased /\ HandedOver'
  BY DEF Inv, Stored, TypeOK, ClearStep, GuardIsPlanned, NextIs, HandedOver
<1>4. CASE Taking
  <2>1. command.todo = <<Clear(guard.rollback)>> /\ guard # NoGuard
    BY <1>2, <1>4 DEF Taking, TakingBack, Save, Clear
  <2>2. Head(command.todo) = Clear(guard.rollback) /\ Len(command.todo) = 1
        /\ Tail(command.todo) = <<>>
    BY <2>1
  <2>3. ledger = guard.rollback /\ ~guard.rollback.active /\ continuation # NoPlan /\ Unfinished
    BY <2>1, <2>2 DEF ClearStep, Clear, Inv, Stored, GuardIsPlanned
  <2>4. LedgerIsPlanned' /\ ActiveWasProved'
    BY <1>3, <2>3 DEF LedgerIsPlanned, ActiveWasProved, Unfinished, ClearStep, spool
  <2>5. command' = Idle \/ (command' \in Commands /\ Phased')
    <3>1. CASE command.phase = "failing"
      BY <2>2, <3>1 DEF ClearStep, Advance
    <3>2. CASE command.phase = "recover"
      <4>1. /\ command' \in Commands /\ command'.todo = <<>> /\ command'.phase = "recover"
            /\ command'.identity = command.identity /\ command'.live = command.live
        BY <1>2, <2>2, <3>2, AdvanceOn DEF ClearStep
      <4> QED
        BY <1>3, <3>2, <4>1 DEF Phased
    <3> QED
      BY <1>4, <3>1, <3>2 DEF Taking
  <2> QED
    BY <1>3, <2>3, <2>4, <2>5, RecordMoves DEF ClearStep, evidence, bounds
<1>5. CASE \E before, rollback : Activates(before, rollback, 6)
  <2> PICK before, rollback : Activates(before, rollback, 6)
    BY <1>5
  <2>1. PICK final : final = Activated(rollback)
    OBVIOUS
  <2>2. /\ RollsBack(before, rollback) /\ command.phase \in {"reuse", "process"}
        /\ PlanMade(final, Activation(final)) /\ ledger = final /\ final \in proved
    BY <2>1 DEF Activates, Activating, ActivationHolds, RollsBack
  <2>4. PlanMade(final, Activation(final))'
    BY <2>2 DEF PlanMade, Unfinished, ClearStep, spool
  <2>5. ActivationHolds(before, rollback, 6 + 1)'
    BY <1>3, <2>1, <2>4 DEF ActivationHolds
  <2>6. command' \in Commands /\ Phased'
    BY <1>2, <2>5, ActivationOn DEF ClearStep
  <2>7. LedgerIsPlanned' /\ ActiveWasProved'
    BY <1>3, <2>2 DEF LedgerIsPlanned, ActiveWasProved, PlanMade, Unfinished, ClearStep, spool
  <2>8. continuation # NoPlan
    BY <2>2 DEF PlanMade
  <2> HIDE DEF Activates
  <2> QED
    BY <1>3, <2>6, <2>7, <2>8, RecordMoves DEF ClearStep, evidence, bounds
<1> QED
  BY <1>1, <1>4, <1>5

\* A checkpoint of a record that is not active.
LEMMA SaveQuietly ==
  ASSUME Inv, SaveStep, Watch, ~ledger'.active,
         ledger'.state # "needs_agent" \/ (continuation # NoPlan /\ ledger'.content \in Bodies),
         continuation = NoPlan \/ Unfinished,
         command' = Idle \/ (command' \in Commands /\ Phased')
  PROVE  Inv'
<1>1. ledger' \in Records /\ guard' = guard /\ proved' = proved
  BY HeadTyped DEF SaveStep
<1>2. faults \in 0 .. MaxFaults /\ proved \subseteq Records /\ guard \in Guards \union {NoGuard}
  BY DEF Inv, Stored, TypeOK
<1>3. LedgerIsPlanned' /\ GuardIsPlanned' /\ ActiveWasProved' /\ HandedOver'
  BY <1>1 DEF Inv, Stored, LedgerIsPlanned, GuardIsPlanned, ActiveWasProved, HandedOver, Unfinished,
              SaveStep, spool
<1> QED
  BY <1>1, <1>2, <1>3, RecordMoves DEF SaveStep, evidence, bounds

LEMMA SaveStepKeeps == Inv /\ SaveStep /\ Watch => Inv'
<1> SUFFICES ASSUME Inv, SaveStep, Watch
             PROVE  Inv'
  OBVIOUS
<1>1. \/ Taking \/ Losing \/ Extracts(1) \/ Extracts(3) \/ Stays(3)
      \/ \E first, r : first.do = "save" /\ Plainly(first, r, 1)
      \/ \E first, r : Plainly(first, r, 3)
      \/ \E before, rollback : Activates(before, rollback, 4)
  <2> HIDE DEF Taking, Losing, Commits, Extracts, Stays, Plainly, Begins, Activates
  <2> QED
    BY Kinds DEF SaveStep
<1>2. command # Idle /\ command.todo # <<>> /\ Head(command.todo).do = "save"
      /\ ledger' = Head(command.todo).record /\ ledger' \in Records
      /\ guard' = guard /\ Advance /\ clock' = clock
  BY HeadTyped DEF SaveStep, NextIs, bounds
<1>3. Phased /\ TypeOK /\ command \in Commands
  BY <1>2, Typing
<1>4. CASE Taking
  <2>1. command.todo = <<Save(guard.rollback), Clear(guard.rollback)>> /\ guard # NoGuard
    BY <1>2, <1>4 DEF Taking, TakingBack, Save, Clear
  <2>2. PICK a, b : a = Save(guard.rollback) /\ b = Clear(guard.rollback)
    OBVIOUS
  <2>3. command.todo = <<a, b>>
    BY <2>1, <2>2
  <2>4. Head(command.todo) = a /\ Len(command.todo) # 1 /\ Tail(command.todo) = <<b>>
    BY <2>3
  <2>5. ledger' = guard.rollback /\ ~guard.rollback.active /\ continuation # NoPlan /\ Unfinished
        /\ guard.rollback.state # "needs_agent"
    BY <1>2, <2>1, <2>2, <2>4 DEF Save, Inv, Stored, GuardIsPlanned
  <2>6. /\ command' \in Commands /\ command'.todo = <<b>> /\ command'.phase = command.phase
        /\ command'.identity = command.identity /\ command'.live = command.live
    BY <1>2, <2>4, AdvanceOn
  <2>7. TakingBack'
    BY <1>2, <2>1, <2>2, <2>5, <2>6 DEF TakingBack
  <2>8. Phased'
    BY <1>3, <1>4, <2>6, <2>7 DEF Taking, Phased
  <2> QED
    BY <2>5, <2>6, <2>8, SaveQuietly
<1>5. CASE Losing
  <2>1. PICK a : a = Save(CapturedRecord)
    OBVIOUS
  <2>2. /\ command.todo = <<a>> /\ command.phase = "failing" /\ command.before \in Records
        /\ continuation # NoPlan /\ Unfinished
    BY <1>5, <2>1 DEF Losing, Deactivating
  <2>3. Head(command.todo) = a /\ Len(command.todo) = 1
    BY <2>2
  <2>4. ledger' = CapturedRecord /\ command' = Idle
    BY <1>2, <2>1, <2>2, <2>3 DEF Save, Advance
  <2>5. ~ledger'.active /\ ledger'.state # "needs_agent"
    BY <2>2, <2>4, Inactive
  <2> QED
    BY <2>2, <2>4, <2>5, SaveQuietly
<1>6. CASE Extracts(1) \/ Extracts(3)
  <2>1. command.phase = "extract" /\ Ready
    BY <1>6 DEF Extracts
  <2>2. command.before \in Records /\ continuation = NoPlan
    BY <2>1 DEF Ready, Capturing
  <2>3. /\ command' \in Commands /\ command'.todo = Tail(command.todo)
        /\ command'.phase = "extract" /\ command'.identity = command.identity
        /\ command'.at = command.at /\ command'.body = command.body
        /\ command'.before = command.before /\ CapturedRecord' = CapturedRecord
    BY <1>2, <2>1, AdvanceOn
  <2>4. ExtractScript' = ExtractScript
    BY <2>3 DEF ExtractScript
  <2>5. Ready'
    BY <1>2, <2>1, <2>3 DEF Ready, Capturing, Resumed, SaveStep, spool
  <2>6. CASE Extracts(1)
    <3>1. ledger' = CapturedRecord
      BY <1>2, <2>6 DEF Extracts, At, Save
    <3>2. Following(ExtractScript, 2)'
      <4>1. At(ExtractScript, 1)
        BY <2>6 DEF Extracts, ExtractScript
      <4>2. 1 + 1 = 2
        OBVIOUS
      <4> QED
        BY <2>3, <2>4, <4>1, <4>2 DEF At, Following
    <3>3. Phased'
      BY <2>3, <2>5, <3>2 DEF Phased, InExtract
    <3>4. ~ledger'.active /\ ledger'.state # "needs_agent"
      BY <2>2, <3>1, Inactive
    <3> QED
      BY <2>2, <2>3, <3>3, <3>4, SaveQuietly
  <2>7. CASE Extracts(3)
    <3>1. ledger' = Extracting(CapturedRecord)
      BY <1>2, <2>7 DEF Extracts, At, Save
    <3>2. Following(ExtractScript, 4)'
      <4>1. At(ExtractScript, 3)
        BY <2>7 DEF Extracts, ExtractScript
      <4>2. 3 + 1 = 4
        OBVIOUS
      <4> QED
        BY <2>3, <2>4, <4>1, <4>2 DEF At, Following
    <3>3. Phased'
      <4>1. ledger' = Extracting(CapturedRecord')
        BY <2>3, <3>1
      <4> QED
        BY <2>3, <2>5, <3>2, <4>1 DEF Phased, InExtract
    <3>4. ~ledger'.active /\ ledger'.state # "needs_agent"
      BY <2>2, <3>1, Inactive
    <3> QED
      BY <2>2, <2>3, <3>3, <3>4, SaveQuietly
  <2> QED
    BY <1>6, <2>6, <2>7
<1>7. CASE Stays(3)
  <2>1. PICK r : r = Activated(CapturedRecord)
    OBVIOUS
  <2>2. /\ command.phase = "reuse" /\ StillActive /\ ledger = command.before
        /\ PlanMade(r, NoEvent) /\ guard = NoGuard /\ command.body \in Bodies
        /\ Head(command.todo) = Save(r)
    BY <1>7, <2>1 DEF Stays, Still, StillHolds, At, StillScript
  <2>3. command.before \in Records
    BY <1>2, <2>2, BodyTyped
  <2>4. ledger' = r /\ r.content = command.body /\ r.state # "needs_agent"
    BY <1>2, <2>1, <2>2, <2>3, Inactive DEF Save
  <2>5. ActiveWasProved'
    <3>1. ledger # NoRecord /\ ledger.active /\ ledger.content = command.body
      BY <2>2, <2>3, NoRecordIsNone DEF StillActive
    <3>2. \E q \in proved : q.active /\ q.content = command.body
      BY <2>2, <3>1 DEF Inv, Stored, ActiveWasProved
    <3>3. proved' = proved
      BY DEF SaveStep
    <3> QED
      BY <2>4, <3>2, <3>3 DEF ActiveWasProved
  <2>6. PlanMade(r, NoEvent)' /\ continuation # NoPlan /\ Unfinished
    BY <2>2 DEF PlanMade, Unfinished, SaveStep, spool
  <2>7. GuardIsPlanned' /\ LedgerIsPlanned' /\ HandedOver'
    BY <1>2, <2>2, <2>4, <2>6 DEF GuardIsPlanned, HandedOver, LedgerIsPlanned, Unfinished, SaveStep, spool
  <2>8. command' \in Commands /\ Phased'
    <3>1. /\ command'.body = command.body /\ command'.before = command.before
          /\ CapturedRecord' = CapturedRecord
      BY <1>2, <2>2, AdvanceOn
    <3>2. Activated(CapturedRecord') = r
      BY <2>1, <3>1
    <3>3. PlanMade(Activated(CapturedRecord), NoEvent)'
      BY <2>6, <3>2 DEF PlanMade
    <3>4. StillHolds(3 + 1)'
      BY <1>2, <2>2, <2>4, <3>1, <3>2, <3>3 DEF StillHolds, StillActive
    <3> QED
      BY <1>2, <1>7, <3>4, StillOn
  <2>9. faults \in 0 .. MaxFaults /\ proved \subseteq Records /\ guard \in Guards \union {NoGuard}
    BY DEF Inv, Stored, TypeOK
  <2> HIDE DEF Stays
  <2> QED
    BY <1>2, <2>5, <2>6, <2>7, <2>8, <2>9, RecordMoves DEF SaveStep, evidence, bounds
<1>8. CASE \E first, r : first.do = "save" /\ Plainly(first, r, 1)
  <2> PICK first, r : first.do = "save" /\ Plainly(first, r, 1)
    BY <1>8
  <2>1. first = Save(CapturedRecord) /\ Ready /\ Head(command.todo) = first
    BY DEF Plainly, Underives, Plain, PlainHolds, At, Read
  <2>2. command.before \in Records /\ continuation = NoPlan
    BY <2>1 DEF Ready, Capturing
  <2>3. ~ledger'.active /\ ledger'.state # "needs_agent"
    BY <1>2, <2>1, <2>2, Inactive DEF Save
  <2>4. command' \in Commands /\ Phased'
    <3>0. command.phase \in {"reuse", "process"}
      BY DEF Plainly, Underives
    <3>1. /\ command'.identity = command.identity /\ command'.at = command.at
          /\ command'.body = command.body /\ command'.before = command.before
      BY <1>2, <3>0, AdvanceOn
    <3>2. PlainHolds(r, 1 + 1)'
      BY <1>2, <2>1, <3>1 DEF PlainHolds, Ready, Capturing, Resumed, SaveStep, spool
    <3> QED
      BY <1>2, <3>2, PlainOn
  <2> QED
    BY <2>2, <2>3, <2>4, SaveQuietly
<1>9. CASE \E first, r : Plainly(first, r, 3)
  <2> PICK first, r : Plainly(first, r, 3)
    BY <1>9
  <2>1. Head(command.todo) = Save(r) /\ Underives(first, r) /\ PlanMade(r, NoEvent)
        /\ guard = NoGuard /\ command.phase \in {"reuse", "process"}
    BY DEF Plainly, Plain, PlainHolds, At, Underives
  <2>2. ledger' = r /\ ~r.active /\ r.content \in Bodies
    BY <1>2, <2>1, BodyTyped, Inactive DEF Save
  <2>3. PlanMade(r, NoEvent)' /\ continuation # NoPlan /\ Unfinished
    BY <2>1 DEF PlanMade, Unfinished, SaveStep, spool
  <2>4. PlainHolds(r, 3 + 1)'
    BY <1>2, <2>1, <2>3 DEF PlainHolds
  <2>5. command' \in Commands /\ Phased'
    BY <1>2, <2>4, PlainOn
  <2> QED
    BY <2>2, <2>3, <2>5, SaveQuietly
<1>10. CASE \E before, rollback : Activates(before, rollback, 4)
  <2> PICK before, rollback : Activates(before, rollback, 4)
    BY <1>10
  <2>1. PICK final : final = Activated(rollback)
    OBVIOUS
  <2>2. /\ RollsBack(before, rollback) /\ command.phase \in {"reuse", "process"}
        /\ PlanMade(final, Activation(final))
        /\ guard = [before |-> before, rollback |-> rollback, after |-> final]
        /\ Head(command.todo) = Save(final)
    BY <2>1, ActivationSteps DEF Activates, Activating, ActivationHolds, At, RollsBack
  <2>3. guard # NoGuard
    BY DEF Activates, Activating, ActivationHolds
  <2>4. ledger' = final
    BY <1>2, <2>2 DEF Save
  <2>5. PlanMade(final, Activation(final))' /\ continuation # NoPlan /\ Unfinished
    BY <2>2 DEF PlanMade, Unfinished, SaveStep, spool
  <2>6. ActivationHolds(before, rollback, 4 + 1)'
    BY <1>2, <2>1, <2>2, <2>3, <2>4, <2>5 DEF ActivationHolds
  <2>7. command' \in Commands /\ Phased'
    BY <1>2, <2>6, ActivationOn
  <2>a. final.state = "ok"
    <3>1. guard \in Guards /\ guard.rollback = rollback
      BY <2>2, <2>3 DEF Inv, Stored, TypeOK
    <3> QED
      BY <2>1, <3>1 DEF Guards, Records, Activated
  <2>8. GuardIsPlanned' /\ LedgerIsPlanned' /\ ActiveWasProved' /\ HandedOver'
    BY <1>2, <2>3, <2>4, <2>5, <2>a DEF Inv, Stored, GuardIsPlanned, LedgerIsPlanned, ActiveWasProved,
       HandedOver, Unfinished, SaveStep, spool
  <2>9. faults \in 0 .. MaxFaults /\ proved \subseteq Records /\ guard \in Guards \union {NoGuard}
        /\ proved' = proved
    BY DEF Inv, Stored, TypeOK, SaveStep
  <2> HIDE DEF Activates
  <2> QED
    BY <1>2, <2>5, <2>7, <2>8, <2>9, RecordMoves DEF SaveStep, evidence, bounds
<1> QED
  BY <1>1, <1>4, <1>5, <1>6, <1>7, <1>8, <1>9, <1>10

LEMMA ReadStepKeeps == Inv /\ ReadStep /\ Watch => Inv'
<1> SUFFICES ASSUME Inv, ReadStep, Watch
             PROVE  Inv'
  OBVIOUS
<1>1. \/ Extracts(2) \/ Stays(1) \/ Stays(4)
      \/ \E first, r : Plainly(first, r, 1)
      \/ \E parts, before, rollback : Begins(parts, before, rollback)
      \/ \E before, rollback : Activates(before, rollback, 5)
  <2> HIDE DEF Taking, Losing, Commits, Extracts, Stays, Plainly, Begins, Activates
  <2>1. CASE NextIs("read")
    BY <2>1, Kinds
  <2>2. CASE NextIs("prove")
    BY <2>2, Kinds
  <2> QED
    BY <2>1, <2>2 DEF ReadStep
<1>2. /\ command # Idle /\ command.todo # <<>> /\ Advance
      /\ UNCHANGED <<url, evidence, store, clock, faults, edits>> /\ UNCHANGED <<ledger, guard>>
      /\ UNCHANGED <<journal, staged, pending, continuation, planned, acknowledged>>
  BY DEF ReadStep, NextIs, bounds, store, spool
<1>3. Phased /\ TypeOK /\ command \in Commands
  BY <1>2, Typing
<1>4. /\ proved' = IF Head(command.todo).do = "prove" THEN proved \union {ledger} ELSE proved
      /\ proved \subseteq proved' /\ proved' \subseteq proved \union {ledger}
  BY DEF ReadStep
<1>5. ASSUME Head(command.todo).do # "prove" \/ ledger \in Records,
             command' \in Commands, Phased'
      PROVE  Inv'
  <2>1. proved \subseteq Records /\ faults \in 0 .. MaxFaults /\ edits \in 0 .. MaxEdits
    BY DEF Inv, Stored, TypeOK
  <2>2. proved' \subseteq Records
    BY <1>4, <1>5, <2>1
  <2> QED
    BY <1>2, <1>4, <1>5, <2>1, <2>2, Remembers
<1>6. CASE Extracts(2)
  <2>1. command.phase = "extract" /\ Ready
    BY <1>6 DEF Extracts
  <2>2. Head(command.todo).do # "prove"
    BY <1>6 DEF Extracts, At, Read
  <2>3. /\ command' \in Commands /\ command'.todo = Tail(command.todo)
        /\ command'.phase = "extract" /\ command'.identity = command.identity
        /\ command'.at = command.at /\ command'.body = command.body
        /\ command'.before = command.before /\ CapturedRecord' = CapturedRecord
    BY <1>2, <2>1, AdvanceOn
  <2>4. ExtractScript' = ExtractScript
    BY <2>3 DEF ExtractScript
  <2>5. Ready'
    BY <1>2, <2>1, <2>3 DEF Ready, Capturing, Resumed
  <2>6. Following(ExtractScript, 3)'
    <3>1. At(ExtractScript, 2)
      BY <1>6 DEF Extracts, ExtractScript
    <3>2. 2 + 1 = 3
      OBVIOUS
    <3> QED
      BY <2>3, <2>4, <3>1, <3>2 DEF At, Following
  <2>7. Phased'
    BY <2>3, <2>5, <2>6 DEF Phased, InExtract
  <2> QED
    BY <1>5, <2>2, <2>3, <2>7
<1>7. CASE Stays(1)
  <2>1. /\ command.phase = "reuse" /\ StillActive /\ ledger = command.before /\ Ready
        /\ command.body \in Bodies /\ Head(command.todo).do # "prove"
    BY <1>7 DEF Stays, Still, StillHolds, At, StillScript, Read
  <2>2. /\ command'.identity = command.identity /\ command'.at = command.at
        /\ command'.body = command.body /\ command'.before = command.before
    BY <1>2, <2>1, AdvanceOn
  <2>3. StillHolds(1 + 1)'
    BY <1>2, <2>1, <2>2 DEF StillHolds, StillActive, Ready, Capturing, Resumed
  <2>4. command' \in Commands /\ Phased'
    BY <1>2, <1>7, <2>3, StillOn
  <2> QED
    BY <1>5, <2>1, <2>4
<1>8. CASE Stays(4)
  <2>1. PICK r : r = Activated(CapturedRecord)
    OBVIOUS
  <2>2. /\ command.phase = "reuse" /\ StillActive /\ ledger = r
        /\ PlanMade(r, NoEvent) /\ guard = NoGuard /\ command.body \in Bodies
    BY <1>8, <2>1 DEF Stays, Still, StillHolds
  <2>3. ledger \in Records
    BY <2>2 DEF PlanMade, Inv, Stored, TypeOK, Continuations
  <2>4. PlanMade(r, NoEvent)'
    BY <1>2, <2>2 DEF PlanMade, Unfinished
  <2>5. command' \in Commands /\ Phased'
    <3>1. /\ command'.body = command.body /\ command'.before = command.before
          /\ CapturedRecord' = CapturedRecord
      BY <1>2, <2>2, AdvanceOn
    <3>2. Activated(CapturedRecord') = r
      BY <2>1, <3>1
    <3>3. PlanMade(Activated(CapturedRecord), NoEvent)'
      BY <2>4, <3>2 DEF PlanMade
    <3>4. StillHolds(4 + 1)'
      BY <1>2, <2>2, <3>1, <3>2, <3>3 DEF StillHolds, StillActive
    <3> QED
      BY <1>2, <1>8, <3>4, StillOn
  <2> QED
    BY <1>5, <2>3, <2>5
<1>9. CASE \E first, r : Plainly(first, r, 1)
  <2> PICK first, r : Plainly(first, r, 1)
    BY <1>9
  <2>1. Ready /\ Head(command.todo).do # "prove" /\ command.phase \in {"reuse", "process"}
    BY DEF Plainly, Plain, PlainHolds, At, Underives, Read, Save
  <2>2. /\ command'.identity = command.identity /\ command'.at = command.at
        /\ command'.body = command.body /\ command'.before = command.before
    BY <1>2, <2>1, AdvanceOn
  <2>3. PlainHolds(r, 1 + 1)'
    BY <1>2, <2>1, <2>2 DEF PlainHolds, Ready, Capturing, Resumed
  <2>4. command' \in Commands /\ Phased'
    BY <1>2, <2>3, PlainOn
  <2> QED
    BY <1>5, <2>1, <2>4
<1>10. CASE \E parts, before, rollback : Begins(parts, before, rollback)
  <2> PICK parts, before, rollback : Begins(parts, before, rollback)
    BY <1>10
  <2>1. PICK s : s = GuardedActivation(before, rollback, Activated(rollback))
    OBVIOUS
  <2>2. /\ RollsBack(before, rollback) /\ Ready /\ Head(command.todo).do # "prove"
        /\ Tail(command.todo) = s /\ command.phase \in {"reuse", "process"}
    BY <2>1 DEF Begins, Read, RollsBack
  <2>3. /\ command' \in Commands /\ command'.todo = s /\ command'.phase = command.phase
        /\ command'.identity = command.identity /\ command'.at = command.at
        /\ command'.body = command.body /\ command'.before = command.before
        /\ CapturedRecord' = CapturedRecord
    BY <1>2, <2>2, AdvanceOn
  <2>4. SubSeq(s, 1, Len(s)) = s
    <3>1. s \in Seq({s[1], s[2], s[3], s[4], s[5], s[6], s[7]})
      BY <2>1 DEF GuardedActivation
    <3> QED
      BY <3>1, SuffixEnd
  <2>5. ActivationHolds(before, rollback, 1)'
    <3>1. Ready' /\ guard' = NoGuard
      BY <1>2, <2>2, <2>3 DEF Ready, Capturing, Resumed
    <3> QED
      BY <3>1 DEF ActivationHolds
  <2>6. Activating(before, rollback, 1)'
    BY <2>1, <2>3, <2>4, <2>5 DEF Activating, Following
  <2>7. RollsBack(before, rollback)'
    BY <2>2, <2>3 DEF RollsBack
  <2>8. /\ before \in {command'.before, Extracting(CapturedRecord)'}
        /\ rollback \in {CapturedRecord', Extracting(CapturedRecord)'}
    BY <2>7 DEF RollsBack
  <2>9. command'.body \in Bodies /\ command'.before \in Records
    BY <1>2, <2>2, <2>3, BodyTyped
  <2>10. InDerivation'
    <3>1. 1 \in 1 .. 8
      OBVIOUS
    <3> QED
      BY <2>6, <2>7, <2>8, <2>9, <3>1 DEF InDerivation
  <2>11. Phased'
    BY <1>3, <2>2, <2>3, <2>10 DEF Phased
  <2> QED
    BY <1>5, <2>2, <2>3, <2>11
<1>11. CASE \E before, rollback : Activates(before, rollback, 5)
  <2> PICK before, rollback : Activates(before, rollback, 5)
    BY <1>11
  <2>1. PICK final : final = Activated(rollback)
    OBVIOUS
  <2>2. /\ PlanMade(final, Activation(final)) /\ ledger = final /\ guard # NoGuard
        /\ guard = [before |-> before, rollback |-> rollback, after |-> final]
        /\ Head(command.todo) = Prove(final)
    BY <2>1, ActivationSteps DEF Activates, Activating, ActivationHolds, At
  <2>3. ledger \in Records
    BY <2>2 DEF PlanMade, Inv, Stored, TypeOK, Continuations
  <2>4. final \in proved'
    BY <1>4, <2>2 DEF Prove
  <2>5. PlanMade(final, Activation(final))'
    BY <1>2, <2>2 DEF PlanMade, Unfinished
  <2>6. ActivationHolds(before, rollback, 5 + 1)'
    BY <1>2, <2>1, <2>2, <2>4, <2>5 DEF ActivationHolds
  <2>7. command' \in Commands /\ Phased'
    BY <1>2, <2>6, ActivationOn
  <2> QED
    BY <1>5, <2>3, <2>7
<1> QED
  BY <1>1, <1>6, <1>7, <1>8, <1>9, <1>10, <1>11

\* The journal that is published is the planned one, with its commit.
LEMMA CommitFollows ==
  ASSUME NEW log \in Seq(LogFrames), NEW e \in Events, NEW before, NEW after,
         Digests(log, e) = <<before, after>>, NEW u, Grows(log, Committed(e), u)
  PROVE  /\ log # <<>>
         /\ Committed(e) \in Frames(log) => after = log
         /\ Committed(e) \notin Frames(log) => after = u
<1>1. Digests(log, e) # <<>> /\ Digests(log, e)[2] = after
  BY DEF Digests
<1>2. e # NoEvent
  BY NoEventIsNone
<1>3. Prepared(e) \in Frames(log)
  BY <1>1, <1>2 DEF Digests
<1>4. log # <<>>
  BY <1>3 DEF Frames
<1>5. ASSUME Committed(e) \in Frames(log) PROVE after = log
  <2>1. Digests(log, e) = <<SubSeq(log, 1, Len(log) - 1), log>>
    BY <1>1, <1>2, <1>3, <1>5 DEF Digests
  <2> QED
    BY <1>1, <2>1
<1>6. ASSUME Committed(e) \notin Frames(log) PROVE after = u
  <2>1. Digests(log, e) = <<log, u>>
    BY <1>2, <1>3, <1>6 DEF Digests, Grows
  <2> QED
    BY <1>1, <2>1
<1> QED
  BY <1>4, <1>5, <1>6

LEMMA CommitStepKeeps == Inv /\ CommitStep /\ Watch => Inv'
<1> SUFFICES ASSUME Inv, CommitStep, Watch
             PROVE  Inv'
  OBVIOUS
<1>1. Commits \/ \E before, rollback : Activates(before, rollback, 7)
  <2> HIDE DEF Taking, Losing, Commits, Extracts, Stays, Plainly, Begins, Activates
  <2> QED
    BY Kinds DEF CommitStep
<1>2. /\ command # Idle /\ command.todo # <<>> /\ Advance
      /\ UNCHANGED <<url, ledger, guard, evidence, staged, manifests, pending, receipts,
                     acknowledged, continuation, clock, faults, edits, planned, proved>>
  BY DEF CommitStep, NextIs, bounds
<1>3. Phased /\ TypeOK /\ command \in Commands
  BY <1>2, Typing
<1>4. PICK e : e = Head(command.todo).event
  OBVIOUS
<1>5. PICK log, u : log = journal.log /\ Grows(journal.log, Committed(e), u)
  BY DEF Grows
<1>6. journal' = IF Committed(e) \in Frames(log) THEN journal ELSE [journal EXCEPT !.log = u]
  BY <1>4, <1>5 DEF CommitStep, Grows
<1>7. ASSUME e \in Events, e.record = continuation.candidate, continuation # NoPlan,
             journal # NoJournal, acknowledged # NoResult => acknowledged.of # continuation,
             pending = NoResult, command' \in Commands, Phased'
      PROVE  Inv'
  <2>1. journal \in Journals /\ log \in Seq(LogFrames) /\ log = journal.log /\ clock \in Nat
    BY <1>3, <1>5, <1>7, BoundsAreNaturals DEF TypeOK, Journals, Logs, LogFrames
  <2>2. \A i \in 1 .. Len(log) : log[i].event.record.at <= clock
    BY <1>7, <2>1 DEF Inv, Stored, JournalIsKnown
  <2>3. continuation.candidate.at <= clock
    BY <1>3, <1>7 DEF Inv, Stored, PlansAreTimely, TypeOK
  <2>4. PICK x : x = Committed(e)
    OBVIOUS
  <2>5. x \in LogFrames /\ x.event.record.at <= clock
    BY <1>7, <2>3, <2>4 DEF LogFrames, Committed
  <2>6. Grows(log, x, u)
    BY <1>5, <2>4
  <2>7. u \in Seq(LogFrames) /\ Len(u) = Len(log) + 1 /\ u[Len(log) + 1] = x
        /\ \A i \in 1 .. Len(log) : u[i] = log[i]
    BY <2>1, <2>5, <2>6 DEF Grows
  <2>8. \A i \in 1 .. Len(u) : u[i].event.record.at <= clock
    <3> TAKE i \in 1 .. Len(u)
    <3>1. i \in 1 .. Len(log) \/ i = Len(log) + 1
      BY <2>1, <2>7
    <3> QED
      BY <2>2, <2>5, <2>7, <3>1
  <2>9. journal' \in Journals /\ journal' # NoJournal /\ (journal'.log = log \/ journal'.log = u)
    <3>1. CASE Committed(e) \in Frames(log)
      BY <1>6, <1>7, <2>1, <3>1
    <3>2. CASE Committed(e) \notin Frames(log)
      <4>1. journal' = [journal EXCEPT !.log = u]
        BY <1>6, <3>2
      <4> QED
        BY <2>1, <2>7, <4>1, NoJournalIsNone DEF Journals, Logs, LogFrames
    <3> QED
      BY <3>1, <3>2
  <2>10. JournalIsKnown'
    BY <1>2, <1>7, <2>2, <2>8, <2>9 DEF JournalIsKnown
  <2>11. faults' \in 0 .. MaxFaults
    BY <1>2, <1>3 DEF TypeOK
  <2> QED
    BY <1>2, <1>7, <2>9, <2>10, <2>11, JournalMoves
<1>8. CASE Commits
  <2>1. /\ command.phase = "stage" /\ Offering /\ JournalIsPlanned
        /\ command.todo = <<Commit(continuation.event)>>
    BY <1>8 DEF Commits, InStage
  <2>2. PICK step : step = Commit(continuation.event)
    OBVIOUS
  <2>3. command.todo = <<step>>
    BY <2>1, <2>2
  <2>4. Head(command.todo) = step /\ Tail(command.todo) = <<>>
    BY <2>3
  <2>5. e = continuation.event
    BY <1>4, <2>2, <2>4 DEF Commit
  <2>6. continuation.event # NoEvent
        /\ Digests(journal.log, continuation.event) = <<continuation.before, continuation.after>>
    BY <1>8 DEF Commits, InStage
  <2>7. continuation # NoPlan /\ continuation \in Continuations /\ journal \in Journals
        /\ journal # NoJournal /\ WellPlanned(continuation)
    BY <1>3, <2>1 DEF Offering, JournalIsPlanned, TypeOK, Inv, Stored, PlansAreTimely
  <2>8. e \in Events /\ e.record = continuation.candidate
    <3>1. e = Activation(continuation.candidate)
      BY <2>5, <2>6, <2>7 DEF WellPlanned
    <3>2. continuation.candidate \in Records
      BY <2>7 DEF Continuations
    <3> QED
      BY <3>1, <3>2, EventsTyped
  <2>9. log \in Seq(LogFrames)
    BY <1>5, <2>7 DEF Journals, Logs, LogFrames
  <2>10. /\ log # <<>>
         /\ Committed(e) \in Frames(log) => continuation.after = log
         /\ Committed(e) \notin Frames(log) => continuation.after = u
    <3>1. Digests(log, e) = <<continuation.before, continuation.after>>
      BY <1>5, <2>5, <2>6
    <3>2. Grows(log, Committed(e), u)
      BY <1>5
    <3> QED
      BY <2>8, <2>9, <3>1, <3>2, CommitFollows
  <2>11. acknowledged # NoResult => acknowledged.of # continuation
    BY <1>5, <2>7, <2>10 DEF Inv, Stored, SpoolIsBound
  <2>12. /\ command' \in Commands /\ command' # Idle /\ command'.todo = <<>>
         /\ command'.phase = "stage" /\ command'.identity = command.identity
    BY <1>2, <2>1, <2>4, AdvanceOn
  <2>13. journal' # NoJournal /\ journal'.log = continuation.after /\ journal'.at = journal.at
    <3>1. CASE Committed(e) \in Frames(log)
      BY <1>5, <1>6, <2>7, <2>10, <3>1
    <3>2. CASE Committed(e) \notin Frames(log)
      <4>1. journal' = [journal EXCEPT !.log = u]
        BY <1>6, <3>2
      <4>2. u = continuation.after
        BY <2>10, <3>2
      <4>3. continuation.after \in Logs
        BY <2>7 DEF Continuations
      <4>4. journal' = [command |-> journal.command, at |-> journal.at, log |-> continuation.after]
        BY <2>7, <4>1, <4>2 DEF Journals
      <4> QED
        BY <2>7, <4>3, <4>4, NoJournalIsNone DEF Journals
    <3> QED
      BY <3>1, <3>2
  <2>14. intact'
    BY <1>2, <2>1, <2>12 DEF Watch, Offering
  <2>15. Offering' /\ JournalIsPlanned'
    BY <1>2, <2>1, <2>13, <2>14 DEF Offering, JournalIsPlanned
  <2>16. InStage'
    BY <1>2, <2>12, <2>13, <2>15 DEF InStage
  <2>17. Phased'
    BY <1>3, <2>1, <2>12, <2>16 DEF Phased
  <2> QED
    BY <1>7, <2>1, <2>7, <2>8, <2>11, <2>12, <2>17 DEF Offering
<1>9. CASE \E before, rollback : Activates(before, rollback, 7)
  <2> PICK before, rollback : Activates(before, rollback, 7)
    BY <1>9
  <2>1. PICK final : final = Activated(rollback)
    OBVIOUS
  <2>2. /\ PlanMade(final, Activation(final)) /\ guard = NoGuard
        /\ Head(command.todo) = Commit(Activation(final))
    BY <2>1, ActivationSteps DEF Activates, Activating, ActivationHolds, At
  <2>3. e = Activation(final)
    BY <1>4, <2>2 DEF Commit
  <2>4. continuation # NoPlan /\ journal # NoJournal /\ Unfinished
        /\ continuation.candidate = final
    BY <2>2 DEF PlanMade
  <2>5. final \in Records
    BY <1>3, <2>4 DEF TypeOK, Continuations
  <2>6. e \in Events /\ e.record = final
    BY <2>3, <2>5, EventsTyped
  <2>7. journal' # NoJournal
    <3>1. journal \in Journals
      BY <1>3, <2>4 DEF TypeOK
    <3>2. e \in Events /\ Committed(e) \in LogFrames
      BY <2>6 DEF LogFrames, Committed
    <3>3. PICK x : x = Committed(e)
      OBVIOUS
    <3>4. u \in Seq(LogFrames)
      <4>1. log \in Seq(LogFrames) /\ Grows(log, x, u) /\ x \in LogFrames
        BY <1>5, <3>1, <3>2, <3>3 DEF Journals, Logs, LogFrames
      <4> QED
        BY <4>1, GrowsFrames
    <3>5. [journal EXCEPT !.log = u] \in Journals
      BY <3>1, <3>4 DEF Journals, Logs, LogFrames
    <3> QED
      BY <1>6, <2>4, <3>5, NoJournalIsNone
  <2>8. PlanMade(final, Activation(final))' /\ guard' = NoGuard
    BY <1>2, <2>2, <2>7 DEF PlanMade, Unfinished
  <2>9. ActivationHolds(before, rollback, 7 + 1)'
    BY <2>1, <2>8 DEF ActivationHolds
  <2>10. command' \in Commands /\ Phased'
    BY <1>2, <2>9, ActivationOn
  <2> HIDE DEF Activates
  <2> QED
    BY <1>7, <2>4, <2>6, <2>10 DEF Unfinished
<1> QED
  BY <1>1, <1>8, <1>9

-----------------------------------------------------------------------------
(* What fails.                                                             *)

LEMMA ActivatedKeeps ==
  ASSUME NEW u, NEW C, NEW body, NEW D, NEW at, NEW r,
         r = [url |-> u, captures |-> C, content |-> body, active |-> FALSE, derived |-> D,
              state |-> "pending", at |-> at]
  PROVE  /\ Activated(r).url = u /\ Activated(r).captures = C
         /\ Activated(r).content = body /\ Activated(r).at = at
BY DEF Activated

\* What the plan of an activation was made from is a record.
LEMMA CapturedTyped ==
  ASSUME command.before \in Records, Activated(CapturedRecord) \in Records
  PROVE  CapturedRecord \in Records
<1> DEFINE c == [body |-> command.body, identity |-> command.identity, at |-> command.at]
<1>1. CapturedRecord = [command.before EXCEPT !.captures = @ \union {c},
              !.content = command.body, !.active = FALSE, !.state = "pending", !.at = command.at]
  BY DEF CapturedRecord, Updated
<1> HIDE DEF c
<1> PICK b \in Records : b = command.before
  OBVIOUS
<1> PICK C : C = b.captures \union {c}
  OBVIOUS
<1> PICK body, at : body = command.body /\ at = command.at
  OBVIOUS
<1>2. CapturedRecord = [url |-> b.url, captures |-> C, content |-> body, active |-> FALSE,
                        derived |-> b.derived, state |-> "pending", at |-> at]
  BY <1>1 DEF Records
<1>3. PICK q : q = CapturedRecord
  OBVIOUS
<1>4. /\ Activated(q).url = b.url /\ Activated(q).captures = C
      /\ Activated(q).content = body /\ Activated(q).at = at
  BY <1>2, <1>3, ActivatedKeeps
<1>5. PICK final \in Records : final = Activated(q)
  BY <1>3
<1>6. /\ C \in SUBSET Captures /\ body \in Bodies \union {NoBody} /\ at \in 0 .. MaxTime
      /\ b.url \in Urls /\ b.derived \in SUBSET Bodies
  BY <1>4, <1>5 DEF Records
<1> QED
  BY <1>2, <1>6 DEF Records, States

LEMMA TwoSteps ==
  ASSUME NEW a \in Steps, NEW b \in Steps
  PROVE  <<a>> \in Seq(Steps) /\ <<a, b>> \in Seq(Steps) /\ <<>> \in Seq(Steps)
OBVIOUS

LEMMA UnwindKeeps ==
  ASSUME Inv, Watch, Unwind, NEW kind \in {"read", "save", "prove", "clear"}, NextIs(kind),
         faults' \in 0 .. MaxFaults,
         UNCHANGED <<url, ledger, guard, evidence, spool, continuation, clock, edits,
                     planned, proved>>
  PROVE  Inv'
<1>1. /\ command # Idle /\ command \in Commands /\ TypeOK /\ Phased
      /\ UNCHANGED <<url, evidence, store, clock, edits, proved>>
  BY Typing DEF NextIs, store
<1>2. edits \in 0 .. MaxEdits /\ proved \subseteq Records
  BY <1>1 DEF TypeOK
<1>3. CASE guard # NoGuard
  <2>1. PICK a, b : a = Save(guard.rollback) /\ b = Clear(guard.rollback)
    OBVIOUS
  <2>2. command' = [command EXCEPT !.phase = "failing", !.todo = <<a, b>>]
    BY <1>3, <2>1 DEF Unwind
  <2>3. <<a, b>> \in Seq(Steps)
    <3>1. guard.rollback \in Records
      BY <1>1, <1>3 DEF TypeOK, Guards
    <3>2. a \in Steps /\ b \in Steps
      BY <2>1, <3>1 DEF Steps, Save, Clear
    <3> QED
      BY <3>2, TwoSteps
  <2>4. command' \in Commands /\ command'.phase = "failing" /\ command'.todo = <<a, b>>
    <3>1. PICK t \in Seq(Steps) : t = <<a, b>>
      BY <2>3
    <3>2. command' = [command EXCEPT !.todo = t, !.phase = "failing"] /\ "failing" \in Phases
      BY <2>2, <3>1 DEF Commands, Phases
    <3> QED
      BY <1>1, <3>1, <3>2, GoesOn
  <2>5. TakingBack'
    BY <1>3, <2>1, <2>4 DEF TakingBack
  <2>6. Phased'
    BY <2>4, <2>5 DEF Phased
  <2> QED
    BY <1>1, <1>2, <2>4, <2>6, Remembers
<1>4. CASE guard = NoGuard /\ command.phase = "reuse" /\ (NextIs("save") \/ NextIs("prove"))
  <2>1. Stays(3) \/ Stays(4)
    <3>1. \A before, rollback, i : i \in 4 .. 6 => ~Activates(before, rollback, i)
      BY <1>4 DEF Activates, Activating, ActivationHolds
    <3>2. \A first, r, i : ~Plainly(first, r, i)
      BY <1>4 DEF Plainly, Underives
    <3>3. ~Taking /\ ~Losing /\ ~Commits /\ \A i : ~Extracts(i)
      BY <1>4 DEF Taking, Losing, Commits, Extracts
    <3> HIDE DEF Taking, Losing, Commits, Extracts, Stays, Plainly, Begins, Activates
    <3>4. CASE NextIs("save")
      BY <3>1, <3>2, <3>3, <3>4, Kinds
    <3>5. CASE NextIs("prove")
      BY <3>1, <3>2, <3>3, <3>5, Kinds
    <3> QED
      BY <1>4, <3>4, <3>5
  <2>2. PICK r : r = Activated(CapturedRecord)
    OBVIOUS
  <2>3. PlanMade(r, NoEvent) /\ command.body \in Bodies
    BY <2>1, <2>2 DEF Stays, Still, StillHolds
  <2>4. command.before \in Records
    BY <1>1, <1>4, BodyTyped
  <2>5. CapturedRecord \in Records
    BY <1>1, <2>2, <2>3, <2>4, CapturedTyped DEF PlanMade, TypeOK, Continuations
  <2>6. PICK a : a = Save(CapturedRecord)
    OBVIOUS
  <2>7. a \in Steps
    BY <2>5, <2>6 DEF Steps, Save
  <2>8. command' = [command EXCEPT !.phase = "failing", !.todo = <<a>>]
    BY <1>4, <2>6 DEF Unwind
  <2>9. PICK t \in Seq(Steps) : t = <<a>>
    BY <2>7, TwoSteps
  <2>10. command' = [command EXCEPT !.todo = t, !.phase = "failing"] /\ "failing" \in Phases
    BY <2>8, <2>9 DEF Commands, Phases
  <2>11. /\ command' \in Commands /\ command'.phase = "failing" /\ command'.todo = t
         /\ command'.before = command.before /\ command'.body = command.body
         /\ CapturedRecord' = CapturedRecord
    BY <1>1, <2>9, <2>10, GoesOn
  <2>12. Deactivating'
    BY <1>1, <1>4, <2>2, <2>3, <2>4, <2>6, <2>9, <2>11
       DEF Deactivating, PlanMade, Unfinished, store, spool
  <2>13. Phased'
    <3>1. command'.todo # <<>>
      BY <2>9, <2>11
    <3> QED
      BY <2>11, <2>12 DEF Phased
  <2> QED
    BY <1>1, <1>2, <2>11, <2>13, Remembers
<1>5. CASE guard = NoGuard /\ ~(command.phase = "reuse" /\ (NextIs("save") \/ NextIs("prove")))
  <2>1. command' = Idle
    BY <1>5 DEF Unwind
  <2> QED
    BY <1>1, <1>2, <2>1, Remembers
<1> QED
  BY <1>3, <1>4, <1>5

LEMMA ReadFailsKeeps == Inv /\ ReadFails /\ Watch => Inv'
<1> SUFFICES ASSUME Inv, ReadFails, Watch
             PROVE  Inv'
  OBVIOUS
<1>1. faults' \in 0 .. MaxFaults
  BY DEF ReadFails, bounds, Inv, Stored, TypeOK
<1> QED
  BY <1>1, UnwindKeeps DEF ReadFails, bounds

LEMMA StepFailsKeeps == Inv /\ StepFails /\ Watch => Inv'
<1> SUFFICES ASSUME Inv, StepFails, Watch
             PROVE  Inv'
  OBVIOUS
<1>1. faults' \in 0 .. MaxFaults
  BY BoundsAreNaturals DEF StepFails, Inv, Stored, TypeOK
<1> QED
  BY <1>1, UnwindKeeps DEF StepFails

LEMMA StopKeeps == Inv /\ Stop /\ Watch => Inv'
<1> SUFFICES ASSUME Inv, Stop, Watch
             PROVE  Inv'
  OBVIOUS
<1>1. faults' \in 0 .. MaxFaults
  BY BoundsAreNaturals DEF Stop, Inv, Stored, TypeOK
<1> QED
  BY <1>1, Stops DEF Stop

\* Everything that refuses.
LEMMA RefusalKeeps ==
  Inv /\ (Refuse \/ OtherJournal \/ CaptureFails \/ FinishRefused \/ PublishRefused \/ DropRefused)
      /\ Watch => Inv'
<1> SUFFICES ASSUME Inv, Watch,
                    Refuse \/ OtherJournal \/ CaptureFails \/ FinishRefused \/ PublishRefused
                    \/ DropRefused
             PROVE  Inv'
  OBVIOUS
<1>1. faults' \in 0 .. MaxFaults /\ command' = Idle
      /\ UNCHANGED <<url, ledger, guard, evidence, spool, continuation, clock, edits,
                     planned, proved>>
  BY DEF Refuse, OtherJournal, CaptureFails, FinishRefused, PublishRefused, DropRefused,
         FinishStops, bounds, Inv, Stored, TypeOK
<1> QED
  BY <1>1, Stops

-----------------------------------------------------------------------------
(* Opening a capture.                                                      *)

\* Only the retained files, the descriptor and the command's memory change.
LEMMA EvidenceMoves ==
  ASSUME Inv, Watch, UNCHANGED <<store, clock, proved>>,
         url' \in Urls, archive' \in [Bodies -> Files], output' \in [Bodies -> Files],
         faults' \in 0 .. MaxFaults, edits' \in 0 .. MaxEdits,
         command' = Idle \/ (command' \in Commands /\ Phased')
  PROVE  Inv'
<1>1. TypeOK'
  BY Watching DEF Inv, Stored, TypeOK, store, spool
<1>2. Stored'
  BY <1>1, StoredStays DEF Inv
<1> QED
  BY <1>2 DEF Inv

\* A command at the end of a phase.
LEMMA Ended ==
  ASSUME Inv, NEW phase, InPhase(phase)
  PROVE  /\ command # Idle /\ command \in Commands /\ command.phase = phase
         /\ command.todo = <<>> /\ Phased /\ TypeOK /\ Stored
BY Typing DEF InPhase

LEMMA Entered ==
  ASSUME Inv, NEW phase, InPhase(phase), NEW next \in Phases, Enter(next)
  PROVE  /\ command' \in Commands /\ command' # Idle /\ command'.phase = next
         /\ command'.todo = <<>> /\ command'.identity = command.identity
         /\ command'.at = command.at /\ command'.body = command.body
         /\ command'.before = command.before /\ command'.live = command.live
         /\ command'.result = command.result
<1>1. command # Idle /\ command \in Commands /\ command.todo = <<>>
  BY Ended
<1>2. command' = [command EXCEPT !.phase = next]
  BY DEF Enter
<1>3. PICK c \in Commands : c = command
  BY <1>1
<1>4. command' = [phase |-> next, identity |-> c.identity, at |-> c.at, body |-> c.body,
                  before |-> c.before, todo |-> c.todo, live |-> c.live, result |-> c.result]
  BY <1>2, <1>3 DEF Commands
<1>5. /\ command'.phase = next /\ command'.todo = c.todo /\ command'.identity = c.identity
      /\ command'.at = c.at /\ command'.body = c.body
      /\ command'.before = c.before /\ command'.live = c.live
      /\ command'.result = c.result
  BY <1>4
<1>6. command' \in Commands
  BY <1>3, <1>4 DEF Commands
<1> QED
  BY <1>1, <1>3, <1>5, <1>6, IdleIsNone

\* What a new command is.
LEMMA New ==
  ASSUME NEW phase \in Phases, NEW identity \in Identities \union {NoPlan},
         NEW result \in Results \union {NoResult}, command' = NewCommand(phase, identity, result)
  PROVE  /\ command' \in Commands /\ command' # Idle /\ command'.phase = phase
         /\ command'.todo = <<>> /\ command'.identity = identity /\ command'.result = result
         /\ ~command'.live
<1>1. <<>> \in Seq(Steps) /\ 0 \in 0 .. MaxTime
  BY BoundsAreNaturals
<1>2. command' \in Commands
  BY <1>1 DEF NewCommand, Commands
<1> QED
  BY <1>2, IdleIsNone DEF NewCommand

LEMMA StartKeeps ==
  ASSUME NEW request \in Requests, Inv, Start(request), Watch
  PROVE  Inv'
<1> DEFINE identity == [request |-> request, url |-> url]
<1>1. identity \in Identities
  BY DEF Identities, Inv, Stored, TypeOK
<1>2. command' = NewCommand("recover", identity, NoResult)
  BY DEF Start
<1> HIDE DEF identity
<1>3. /\ command' \in Commands /\ command'.phase = "recover" /\ command'.todo = <<>>
      /\ command'.identity = identity /\ ~command'.live
  BY <1>1, <1>2, New DEF Phases
<1>4. Phased'
  BY <1>1, <1>3 DEF Phased
<1>5. /\ faults' \in 0 .. MaxFaults /\ edits' \in 0 .. MaxEdits /\ proved' \subseteq Records
      /\ proved \subseteq proved' /\ UNCHANGED <<url, evidence, store, clock>>
  BY DEF Start, bounds, Inv, Stored, TypeOK, store
<1> QED
  BY <1>3, <1>4, <1>5, Remembers

LEMMA RecoverKeeps == Inv /\ Recover /\ Watch => Inv'
<1> SUFFICES ASSUME Inv, Recover, Watch
             PROVE  Inv'
  OBVIOUS
<1>1. /\ command # Idle /\ command \in Commands /\ command.phase = "recover" /\ Phased /\ TypeOK
      /\ guard # NoGuard
  BY Ended DEF Recover
<1>2. PICK a, b : a = Save(guard.rollback) /\ b = Clear(guard.rollback)
  OBVIOUS
<1>3. command' = [command EXCEPT !.todo = <<a, b>>]
  BY <1>2 DEF Recover
<1>4. guard.rollback \in Records
  BY <1>1 DEF TypeOK, Guards
<1>5. a \in Steps /\ b \in Steps
  BY <1>2, <1>4 DEF Steps, Save, Clear
<1>6. PICK t \in Seq(Steps) : t = <<a, b>>
  BY <1>5, TwoSteps
<1>7. command' = [command EXCEPT !.todo = t, !.phase = "recover"] /\ "recover" \in Phases
  BY <1>1, <1>3, <1>6 DEF Commands, Phases
<1>8. /\ command' \in Commands /\ command'.phase = "recover" /\ command'.todo = t
      /\ command'.identity = command.identity /\ command'.live = command.live
  BY <1>1, <1>6, <1>7, GoesOn
<1>9. TakingBack'
  BY <1>1, <1>2, <1>6, <1>8 DEF TakingBack, Recover
<1>10. Phased'
  <2>1. t # <<>>
    BY <1>6
  <2> QED
    BY <1>1, <1>8, <1>9, <2>1 DEF Phased
<1>11. /\ faults' \in 0 .. MaxFaults /\ edits' \in 0 .. MaxEdits /\ proved' \subseteq Records
       /\ proved \subseteq proved' /\ UNCHANGED <<url, evidence, store, clock>>
  BY DEF Recover, bounds, Inv, Stored, TypeOK, store
<1> QED
  BY <1>8, <1>10, <1>11, Remembers

LEMMA ResumeKeeps == Inv /\ Resume /\ Watch => Inv'
<1> SUFFICES ASSUME Inv, Resume, Watch
             PROVE  Inv'
  OBVIOUS
<1>1. /\ command \in Commands /\ command.phase = "recover" /\ Phased /\ TypeOK
      /\ guard = NoGuard /\ continuation # NoPlan
  BY Ended DEF Resume, Opening
<1>2. /\ command' \in Commands /\ command'.phase = "finish" /\ command'.todo = <<>>
      /\ command'.identity = command.identity /\ command'.live = command.live
  BY Entered DEF Resume, Opening, Phases
<1>3. command.identity \in Identities /\ command.identity # NoPlan /\ ~command.live
  BY <1>1, NoPlanIsNone DEF Phased
<1>4. guard' = NoGuard /\ continuation' # NoPlan
  BY <1>1 DEF Resume
<1>5. Phased'
  BY <1>2, <1>3, <1>4 DEF Phased
<1>6. /\ faults' \in 0 .. MaxFaults /\ edits' \in 0 .. MaxEdits /\ proved' \subseteq Records
      /\ proved \subseteq proved' /\ UNCHANGED <<url, evidence, store, clock>>
  BY DEF Resume, bounds, Inv, Stored, TypeOK, store
<1> QED
  BY <1>2, <1>5, <1>6, Remembers

LEMMA OpenJournalKeeps == Inv /\ OpenJournal /\ Watch => Inv'
<1> SUFFICES ASSUME Inv, OpenJournal, Watch
             PROVE  Inv'
  OBVIOUS
<1>1. /\ command \in Commands /\ command.phase = "journal" /\ Phased /\ TypeOK
  BY Ended DEF OpenJournal
<1>2. /\ command' \in Commands /\ command'.phase = "capture" /\ command'.todo = <<>>
      /\ command'.identity = command.identity /\ command'.live = command.live
      /\ command'.at = command.at /\ command'.before = command.before
  BY Entered DEF OpenJournal, Phases
<1>3. Capturing /\ ledger = command.before /\ (journal # NoJournal => Resumed)
  BY <1>1 DEF Phased
<1>4. /\ UNCHANGED <<url, ledger, guard, evidence, staged, manifests, pending, receipts,
                     acknowledged, continuation, clock, faults, edits, planned, proved>>
      /\ faults' \in 0 .. MaxFaults
  BY <1>1 DEF OpenJournal, bounds, TypeOK
<1>5. CASE journal = NoJournal
  <2>1. PICK none : none = <<>>
    OBVIOUS
  <2>2. none \in Logs /\ Len(none) = 0
    BY <2>1 DEF Logs
  <2>3. journal' = [command |-> "snapshot", at |-> command.at, log |-> none]
    BY <1>5, <2>1 DEF OpenJournal, Journal
  <2>4. command.at \in 0 .. MaxTime
    BY <1>1 DEF Commands
  <2>5. journal' \in Journals /\ journal' # NoJournal /\ journal'.log = none
    BY <2>2, <2>3, <2>4, NoJournalIsNone DEF Journals
  <2>6. JournalIsKnown'
    BY <2>2, <2>5 DEF JournalIsKnown
  <2>7. Capturing' /\ Resumed'
    BY <1>2, <1>3, <1>4, <2>2, <2>5 DEF Capturing, Resumed, Older
  <2>8. Phased'
    BY <1>2, <1>3, <1>4, <2>7 DEF Phased
  <2> QED
    BY <1>2, <1>3, <1>4, <2>1, <2>5, <2>6, <2>8, JournalMoves DEF Capturing
<1>6. CASE journal # NoJournal
  <2>1. journal' = journal
    BY <1>6 DEF OpenJournal
  <2>2. Capturing' /\ Resumed'
    BY <1>2, <1>3, <1>4, <1>6, <2>1 DEF Capturing, Resumed
  <2>3. Phased'
    BY <1>2, <1>3, <1>4, <2>2 DEF Phased
  <2>4. /\ edits' \in 0 .. MaxEdits /\ proved' \subseteq Records
        /\ proved \subseteq proved' /\ UNCHANGED <<url, evidence, store, clock>>
    BY <1>1, <1>4, <2>1 DEF TypeOK, store, spool
  <2> QED
    BY <1>2, <1>4, <2>3, <2>4, Remembers
<1> QED
  BY <1>5, <1>6

\* The record a capture starts from.
LEMMA OpenedTyped ==
  ASSUME TypeOK, NEW now \in 0 .. MaxTime
  PROVE  /\ NewRecord(now) \in Records /\ ~NewRecord(now).active
         /\ NewRecord(now).state # "needs_agent"
         /\ ledger \in Records =>
               /\ Reconciled(ledger, now) \in Records
               /\ \/ Reconciled(ledger, now) = ledger
                  \/ /\ ~Reconciled(ledger, now).active
                     /\ Reconciled(ledger, now).state # "needs_agent"
<1>1. url \in Urls
  BY DEF TypeOK
<1>2. /\ NewRecord(now) \in Records /\ ~NewRecord(now).active
      /\ NewRecord(now).state # "needs_agent"
  <2>1. {} \in SUBSET Captures /\ {} \in SUBSET Bodies
    OBVIOUS
  <2> QED
    BY <1>1, <2>1 DEF NewRecord, Records, States
<1>3. ASSUME NEW r \in Records, r.url # url
      PROVE  Reconciled(r, now) \in Records /\ ~Reconciled(r, now).active
             /\ Reconciled(r, now).state # "needs_agent"
  <2>1. Reconciled(r, now) = [r EXCEPT !.url = url, !.content = NoBody, !.active = FALSE,
                   !.state = "awaiting_approval", !.at = now]
    BY <1>3 DEF Reconciled
  <2>2. Reconciled(r, now) = [url |-> url, captures |-> r.captures, content |-> NoBody,
          active |-> FALSE, derived |-> r.derived, state |-> "awaiting_approval", at |-> now]
    BY <2>1 DEF Records
  <2>3. r.captures \in SUBSET Captures /\ r.derived \in SUBSET Bodies
    BY DEF Records
  <2> QED
    BY <1>1, <2>2, <2>3 DEF Records, States
<1>4. ASSUME NEW r \in Records, r.url = url
      PROVE  Reconciled(r, now) = r
  BY <1>4 DEF Reconciled
<1> QED
  BY <1>2, <1>3, <1>4

LEMMA OpenKeeps == Inv /\ Open /\ Watch => Inv'
<1> SUFFICES ASSUME Inv, Open, Watch
             PROVE  Inv'
  OBVIOUS
<1>1. /\ command # Idle /\ command \in Commands /\ command.phase = "recover" /\ Phased
      /\ TypeOK /\ Stored /\ command.todo = <<>>
      /\ guard = NoGuard /\ continuation = NoPlan /\ pending = NoResult /\ staged = NoResult
  BY Ended DEF Open, Opening, MayCapture
<1>2. /\ UNCHANGED <<url, guard, archive, output, journal, staged, manifests, pending, receipts,
                     acknowledged, continuation, faults, edits, planned, proved>>
  BY DEF Open, evidence, spool
<1>3. /\ clock \in Nat /\ clock' = clock + 1 /\ clock' \in 0 .. MaxTime /\ clock' # 0
      /\ clock < clock' /\ clock' \in Nat
  BY <1>1, BoundsAreNaturals DEF Open, TypeOK
<1>4. PICK now : now = clock'
  OBVIOUS
<1>5. now \in 0 .. MaxTime /\ ledger' = IF ledger = NoRecord THEN NewRecord(now)
                                        ELSE Reconciled(ledger, now)
  BY <1>3, <1>4 DEF Open
<1>6. ledger' \in Records
      /\ (ledger' = ledger \/ (~ledger'.active /\ ledger'.state # "needs_agent"))
  BY <1>1, <1>5, OpenedTyped DEF TypeOK
<1>7. /\ command' \in Commands /\ command' # Idle /\ command'.phase = "journal"
      /\ command'.todo = <<>> /\ command'.identity = command.identity
      /\ command'.at = now /\ command'.before = ledger'
  <2>1. PICK record : record = ledger'
    OBVIOUS
  <2>2. command' = [command EXCEPT !.phase = "journal", !.at = now, !.before = record]
    BY <1>4, <2>1 DEF Open
  <2>3. PICK c \in Commands : c = command
    BY <1>1
  <2>4. command' = [phase |-> "journal", identity |-> c.identity, at |-> now, body |-> c.body,
                    before |-> record, todo |-> c.todo, live |-> c.live, result |-> c.result]
    BY <2>2, <2>3 DEF Commands
  <2>5. record \in Records \union {NoRecord} /\ now \in 0 .. MaxTime
    BY <1>5, <1>6, <2>1
  <2>6. command' \in Commands
    BY <2>3, <2>4, <2>5 DEF Commands, Phases
  <2>7. /\ command'.phase = "journal" /\ command'.todo = c.todo
        /\ command'.identity = c.identity /\ command'.at = now /\ command'.before = record
    BY <2>4
  <2> QED
    BY <1>1, <2>1, <2>3, <2>6, <2>7, IdleIsNone
<1>8. \A p \in planned : p.candidate.at < clock'
  <2>1. \A p \in planned : p.candidate.at <= clock /\ p.candidate.at \in Nat
    BY <1>1, BoundsAreNaturals DEF Stored, PlansAreTimely, TypeOK, Continuations, Records
  <2> QED
    BY <1>3, <2>1
<1>9. journal # NoJournal => Older(journal.log, Len(journal.log), clock')
                             /\ \A i \in 1 .. Len(journal.log) :
                                   journal.log[i].event.record.at <= clock'
  <2> SUFFICES ASSUME journal # NoJournal, NEW i \in 1 .. Len(journal.log)
               PROVE  journal.log[i].frame = "event" /\ journal.log[i].event.record.at < clock'
                      /\ journal.log[i].event.record.at <= clock'
    BY DEF Older
  <2>1. journal.log[i].frame = "event" /\ journal.log[i].event.record.at <= clock
    BY <1>1 DEF Stored, JournalIsKnown
  <2>2. journal.log[i].event.record.at \in Nat
    <3>1. journal.log \in Seq(LogFrames)
      BY <1>1 DEF TypeOK, Journals, Logs, LogFrames
    <3>2. journal.log[i] \in LogFrames
      BY <3>1
    <3> QED
      BY <3>2, BoundsAreNaturals DEF LogFrames, Events, Records
  <2> QED
    BY <1>3, <2>1, <2>2
<1>10. Capturing'
  BY <1>1, <1>2, <1>3, <1>4, <1>6, <1>7, <1>8 DEF Capturing, Phased
<1>11. Phased'
  <2>1. journal # NoJournal => Resumed'
    BY <1>2, <1>9 DEF Resumed
  <2> QED
    BY <1>2, <1>7, <1>10, <2>1 DEF Phased
<1>12. TypeOK'
  BY <1>1, <1>2, <1>3, <1>6, <1>7, Watching DEF TypeOK
<1>13. JournalIsKnown' /\ SpoolIsBound'
  BY <1>1, <1>2, <1>9 DEF Stored, JournalIsKnown, SpoolIsBound, Result
<1>14. LedgerIsPlanned' /\ GuardIsPlanned'
  BY <1>1, <1>2 DEF LedgerIsPlanned, GuardIsPlanned
<1>15. PlansAreTimely'
  <2>1. \A p \in planned : p.candidate.at <= clock'
    <3> TAKE p \in planned
    <3>1. p.candidate.at \in Nat
      BY <1>1, BoundsAreNaturals DEF TypeOK, Continuations, Records
    <3> QED
      BY <1>3, <1>8, <3>1
  <2> QED
    BY <1>1, <1>2, <2>1 DEF PlansAreTimely
<1>16. ActiveWasProved' /\ HandedOver'
  BY <1>1, <1>2, <1>6 DEF Stored, ActiveWasProved, HandedOver
<1>17. LiveIsAnnounced'
  BY <1>1, <1>2, <1>6 DEF Stored, LiveIsAnnounced, Announced
<1>18. ResultIsThePlanned'
  BY <1>1, <1>2 DEF Stored, ResultIsThePlanned, Result
<1> QED
  BY <1>7, <1>11, <1>12, <1>13, <1>14, <1>15, <1>16, <1>17, <1>18 DEF Inv, Stored

LEMMA CaptureKeeps ==
  ASSUME NEW body \in Bodies, Inv, Capture(body), Watch
  PROVE  Inv'
<1>1. /\ command # Idle /\ command \in Commands /\ command.phase = "capture" /\ Phased
      /\ TypeOK /\ command.todo = <<>>
  BY Ended DEF Capture
<1>2. Capturing /\ ledger = command.before /\ Resumed
  BY <1>1 DEF Phased
<1>3. /\ command' \in Commands /\ command' # Idle /\ command'.phase = "captured"
      /\ command'.todo = <<>> /\ command'.identity = command.identity
      /\ command'.at = command.at /\ command'.before = command.before /\ command'.body = body
  <2>1. PICK c \in Commands : c = command
    BY <1>1
  <2>2. command' = [c EXCEPT !.phase = "captured", !.body = body]
    BY <2>1 DEF Capture
  <2>3. command' = [phase |-> "captured", identity |-> c.identity, at |-> c.at, body |-> body,
                    before |-> c.before, todo |-> c.todo, live |-> c.live, result |-> c.result]
    BY <2>2 DEF Commands
  <2>4. command' \in Commands
    BY <2>1, <2>3 DEF Commands, Phases
  <2>5. /\ command'.phase = "captured" /\ command'.todo = c.todo
        /\ command'.identity = c.identity /\ command'.at = c.at /\ command'.before = c.before
        /\ command'.body = body
    BY <2>3
  <2> QED
    BY <1>1, <2>1, <2>4, <2>5, IdleIsNone
<1>4. /\ UNCHANGED <<store, clock, proved, url, output>>
      /\ UNCHANGED <<ledger, guard, journal, staged, pending, continuation, planned>>
      /\ faults' \in 0 .. MaxFaults /\ edits' \in 0 .. MaxEdits
  BY <1>1 DEF Capture, bounds, store, spool, TypeOK
<1>5. archive' \in [Bodies -> Files]
  BY <1>1 DEF Capture, TypeOK, Files
<1>6. Capturing' /\ Resumed'
  BY <1>2, <1>3, <1>4 DEF Capturing, Resumed
<1>7. Phased'
  BY <1>2, <1>3, <1>4, <1>6 DEF Phased
<1> QED
  BY <1>1, <1>3, <1>4, <1>5, <1>7, EvidenceMoves DEF TypeOK

-----------------------------------------------------------------------------
(* What becomes of the captured bytes.                                     *)

LEMMA Scripted ==
  ASSUME command \in Commands, NEW t \in Seq(Steps), NEW phase \in Phases,
         command' = [command EXCEPT !.phase = phase, !.live = TRUE, !.todo = t]
  PROVE  /\ command' \in Commands /\ command' # Idle
         /\ command'.todo = t /\ command'.phase = phase
         /\ command'.identity = command.identity /\ command'.at = command.at
         /\ command'.body = command.body /\ command'.before = command.before
         /\ CapturedRecord' = CapturedRecord
<1>1. PICK c \in Commands : c = command
  OBVIOUS
<1>2. command' = [phase |-> phase, identity |-> c.identity, at |-> c.at, body |-> c.body,
                  before |-> c.before, todo |-> t, live |-> TRUE, result |-> c.result]
  BY <1>1 DEF Commands
<1>3. command' \in Commands
  BY <1>2 DEF Commands
<1>4. /\ command'.todo = t /\ command'.phase = phase
      /\ command'.identity = c.identity /\ command'.at = c.at
      /\ command'.body = c.body /\ command'.before = c.before
  BY <1>1, <1>2 DEF Commands
<1> QED
  BY <1>1, <1>3, <1>4, IdleIsNone DEF CapturedRecord

LEMMA ActivationTyped ==
  ASSUME NEW before \in Records, NEW rollback \in Records, NEW final \in Records
  PROVE  GuardedActivation(before, rollback, final) \in Seq(Steps)
<1> DEFINE e == Activation(final)
<1>1. e \in Events
  BY EventsTyped
<1>2. Guard(before, rollback, final) \in Steps
  BY DEF Guard, Guards, Steps
<1>3. /\ Emit(e) \in Steps /\ Plan(final, e) \in Steps /\ Save(final) \in Steps
      /\ Prove(final) \in Steps /\ Clear(final) \in Steps /\ Commit(e) \in Steps
  <2> HIDE DEF e
  <2> QED
    BY <1>1 DEF Save, Prove, Clear, Emit, Commit, Plan, Steps
<1>4. PICK a, b, c, d, f, g, h :
         /\ a = Emit(e) /\ b = Plan(final, e) /\ c = Guard(before, rollback, final)
         /\ d = Save(final) /\ f = Prove(final) /\ g = Clear(final) /\ h = Commit(e)
  OBVIOUS
<1>5. /\ a \in Steps /\ b \in Steps /\ c \in Steps /\ d \in Steps /\ f \in Steps
      /\ g \in Steps /\ h \in Steps
  BY <1>2, <1>3, <1>4
<1>6. <<a, b, c, d, f, g, h>> \in Seq(Steps)
  BY <1>5
<1>7. GuardedActivation(before, rollback, final) = <<a, b, c, d, f, g, h>>
  BY <1>4 DEF GuardedActivation
<1> QED
  BY <1>6, <1>7

LEMMA ThreeSteps ==
  ASSUME NEW a \in Steps, NEW b \in Steps, NEW c \in Steps
  PROVE  /\ <<a, b, c>> \in Seq(Steps)
         /\ SubSeq(<<a, b, c>>, 1, Len(<<a, b, c>>)) = <<a, b, c>>
<1>1. PICK t : t = <<a, b, c>>
  OBVIOUS
<1>2. t \in Seq(Steps)
  BY <1>1
<1> QED
  BY <1>1, <1>2, SuffixEnd

LEMMA FourSteps ==
  ASSUME NEW a \in Steps, NEW b \in Steps, NEW c \in Steps, NEW d \in Steps
  PROVE  /\ <<a>> \o <<b, c, d>> = <<a, b, c, d>>
         /\ <<a, b, c, d>> \in Seq(Steps)
         /\ SubSeq(<<a, b, c, d>>, 1, Len(<<a, b, c, d>>)) = <<a, b, c, d>>
<1>1. PICK t : t = <<a, b, c, d>>
  OBVIOUS
<1>2. t \in Seq(Steps)
  BY <1>1
<1>3. SubSeq(t, 1, Len(t)) = t
  BY <1>2, SuffixEnd
<1>4. PICK u : u = <<b, c, d>>
  OBVIOUS
<1>5. u \in Seq(Steps) /\ Len(u) = 3 /\ u[1] = b /\ u[2] = c /\ u[3] = d
  BY <1>4
<1>6. Len(t) = 4 /\ t[1] = a /\ t[2] = b /\ t[3] = c /\ t[4] = d
  BY <1>1
<1>7. <<a>> \o u = t
  <2>1. PICK v : v = <<a>> \o u
    OBVIOUS
  <2>2. v \in Seq(Steps) /\ Len(v) = 4 /\ v[1] = a /\ v[2] = u[1] /\ v[3] = u[2] /\ v[4] = u[3]
    <3>1. PICK w : w = <<a>>
      OBVIOUS
    <3>2. w \in Seq(Steps) /\ Len(w) = 1 /\ w[1] = a
      BY <3>1
    <3>3. Joined(w, u, v)
      BY <2>1, <3>1 DEF Joined
    <3>4. /\ v \in Seq(Steps) /\ Len(v) = 1 + 3 /\ v[1] = w[1]
          /\ \A i \in 1 .. 3 : v[1 + i] = u[i]
      <4>1. /\ v \in Seq(Steps) /\ Len(v) = Len(w) + Len(u)
            /\ \A i \in 1 .. Len(w) : v[i] = w[i]
            /\ \A i \in 1 .. Len(u) : v[Len(w) + i] = u[i]
        <5>1. u \in Seq(Steps) /\ w \in Seq(Steps)
          BY <1>5, <3>2
        <5> QED
          BY <3>3, <5>1, JoinedParts
      <4> QED
        BY <1>5, <3>2, <4>1
    <3>5. v[1 + 1] = u[1] /\ v[1 + 2] = u[2] /\ v[1 + 3] = u[3]
      BY <3>4
    <3> QED
      BY <3>2, <3>4, <3>5
  <2>3. v = t
    BY <1>2, <1>5, <1>6, <2>2
  <2> QED
    BY <2>1, <2>3
<1> QED
  BY <1>1, <1>2, <1>3, <1>4, <1>7

\* A captured command is ready for its script.
LEMMA CapturedIsReady ==
  ASSUME Inv, InPhase("captured")
  PROVE  /\ command \in Commands /\ Ready /\ Capturing /\ Resumed /\ ledger = command.before
         /\ command.identity # NoPlan /\ command.body \in Bodies /\ command.before \in Records
         /\ CapturedRecord \in Records /\ CapturedRecord.content = command.body
         /\ Activated(CapturedRecord) \in Records /\ Extracting(CapturedRecord) \in Records
<1>1. /\ command # Idle /\ command \in Commands /\ command.phase = "captured" /\ Phased
  BY Ended
<1>2. Capturing /\ Resumed /\ ledger = command.before /\ command.body \in Bodies
  BY <1>1 DEF Phased
<1>3. CapturedRecord \in Records /\ Extracting(CapturedRecord) \in Records
      /\ CapturedRecord.content = command.body
  BY <1>1, <1>2, CaptureTyped
<1>4. command.identity # NoPlan /\ command.before \in Records
  BY <1>2, NoPlanIsNone DEF Capturing
<1> QED
  BY <1>1, <1>2, <1>3, <1>4, MadeActive DEF Ready

\* Ready stays, when nothing but the script changes.
LEMMA StaysReady ==
  ASSUME Ready, UNCHANGED <<store, clock>>,
         command'.identity = command.identity, command'.at = command.at,
         command'.body = command.body, command'.before = command.before
  PROVE  Ready' /\ guard' = NoGuard
BY DEF Ready, Capturing, Resumed, store, spool

LEMMA ReuseKeeps == Inv /\ Reuse /\ Watch => Inv'
<1> SUFFICES ASSUME Inv, Reuse, Watch
             PROVE  Inv'
  OBVIOUS
<1>1. /\ command \in Commands /\ Ready /\ ledger = command.before
      /\ command.identity # NoPlan /\ command.body \in Bodies /\ command.before \in Records
      /\ CapturedRecord \in Records /\ Activated(CapturedRecord) \in Records
  BY CapturedIsReady DEF Reuse
<1>2. /\ faults' \in 0 .. MaxFaults /\ edits' \in 0 .. MaxEdits /\ proved' \subseteq Records
      /\ proved \subseteq proved' /\ UNCHANGED <<url, evidence, store, clock>>
      /\ ledger' = ledger
  BY DEF Reuse, bounds, Inv, Stored, TypeOK, store
<1>3. PICK a, r : a = Read({"raw", "output"}, command.body) /\ r = Activated(CapturedRecord)
  OBVIOUS
<1>4. a \in Steps /\ r \in Records
  BY <1>1, <1>3, NoEventIsNone DEF Read, Steps
<1>5. "reuse" \in Phases
  BY DEF Phases
<1>6. CASE StillActive
  <2>1. PICK b, c, d : b = Plan(r, NoEvent) /\ c = Save(r) /\ d = Prove(r)
    OBVIOUS
  <2>2. b \in Steps /\ c \in Steps /\ d \in Steps
    BY <1>4, <2>1 DEF Plan, Save, Prove, Steps
  <2>3. PICK t \in Seq(Steps) :
           t = <<a, b, c, d>> /\ t = <<a>> \o <<b, c, d>> /\ SubSeq(t, 1, Len(t)) = t
    <3>1. PICK t : t = <<a, b, c, d>>
      OBVIOUS
    <3>2. t = <<a>> \o <<b, c, d>> /\ t \in Seq(Steps) /\ SubSeq(t, 1, Len(t)) = t
      BY <1>4, <2>2, <3>1, FourSteps
    <3> QED
      BY <3>1, <3>2
  <2>4. command' = [command EXCEPT !.phase = "reuse", !.live = TRUE, !.todo = <<a>> \o <<b, c, d>>]
    BY <1>3, <1>6, <2>1 DEF Reuse
  <2>5. command' = [command EXCEPT !.phase = "reuse", !.live = TRUE, !.todo = t]
    BY <2>3, <2>4
  <2>6. /\ command' \in Commands /\ command' # Idle
        /\ command'.todo = t /\ command'.phase = "reuse"
        /\ command'.identity = command.identity /\ command'.at = command.at
        /\ command'.body = command.body /\ command'.before = command.before
        /\ CapturedRecord' = CapturedRecord
    BY <1>1, <1>5, <2>5, Scripted
  <2>7. Following(StillScript, 1)'
    <3>1. StillScript' = t
      BY <1>3, <2>1, <2>3, <2>6 DEF StillScript
    <3> QED
      BY <2>3, <2>6, <3>1 DEF Following
  <2>8. Ready'
    BY <1>1, <1>2, <2>6, StaysReady
  <2>9. StillHolds(1)'
    BY <1>1, <1>2, <1>6, <2>6, <2>8 DEF StillHolds, StillActive
  <2>10. InDerivation'
    <3>1. 1 \in 1 .. 5
      OBVIOUS
    <3> QED
      BY <1>1, <2>6, <2>7, <2>9, <3>1 DEF InDerivation, Still
  <2>11. Phased'
    BY <1>1, <2>6, <2>10 DEF Phased
  <2> QED
    BY <1>2, <2>6, <2>11, Remembers
<1>7. CASE ~StillActive
  <2>1. PICK s : s = GuardedActivation(command.before, CapturedRecord, r)
    OBVIOUS
  <2>2. s \in Seq(Steps)
    BY <1>1, <1>4, <2>1, ActivationTyped
  <2>3. PICK t \in Seq(Steps) : t = <<a>> \o s
    BY <1>4, <2>2, FirstStep
  <2>4. command' = [command EXCEPT !.phase = "reuse", !.live = TRUE, !.todo = t]
    BY <1>3, <1>7, <2>1, <2>3 DEF Reuse
  <2>5. /\ command' \in Commands /\ command' # Idle
        /\ command'.todo = t /\ command'.phase = "reuse"
        /\ command'.identity = command.identity /\ command'.at = command.at
        /\ command'.body = command.body /\ command'.before = command.before
        /\ CapturedRecord' = CapturedRecord
    BY <1>1, <1>5, <2>4, Scripted
  <2>6. Ready'
    BY <1>1, <1>2, <2>5, StaysReady
  <2>7. PICK before, rollback : before = command.before /\ rollback = CapturedRecord
    OBVIOUS
  <2>8. Beginning({"raw", "output"}, before, rollback)'
    <3>1. command'.todo = <<Read({"raw", "output"}, command'.body)>>
                          \o GuardedActivation(before, rollback, Activated(rollback))
      BY <1>3, <2>1, <2>3, <2>5, <2>7
    <3> QED
      BY <2>6, <3>1 DEF Beginning
  <2>9. RollsBack(before, rollback)'
    BY <2>5, <2>7 DEF RollsBack
  <2>10. InDerivation'
    BY <1>1, <2>5, <2>7, <2>8, <2>9 DEF InDerivation
  <2>11. Phased'
    BY <1>1, <2>5, <2>10 DEF Phased
  <2> QED
    BY <1>2, <2>5, <2>11, Remembers
<1> QED
  BY <1>6, <1>7

\* The script of a record without a derivation.
LEMMA PlainBegins ==
  ASSUME command \in Commands, command' \in Commands, NEW first \in Steps, NEW r \in Records,
         command'.todo = <<first, Plan(r, NoEvent), Save(r)>>,
         command'.phase = "process", command'.identity # NoPlan,
         command'.body \in Bodies, command'.before \in Records,
         Underives(first, r)', Ready'
  PROVE  Phased'
<1>1. PICK b, c : b = Plan(r, NoEvent) /\ c = Save(r)
  OBVIOUS
<1>2. b \in Steps /\ c \in Steps
  BY <1>1 DEF Plan, Save, Steps
<1>3. SubSeq(<<first, b, c>>, 1, Len(<<first, b, c>>)) = <<first, b, c>>
  BY <1>2, ThreeSteps
<1>4. Plain(first, r, 1)'
  BY <1>1, <1>3 DEF Plain, PlainHolds, PlainScript, Following
<1>5. first \in Firsts' /\ r \in WithoutDerivation'
  BY DEF Underives, Firsts, WithoutDerivation
<1>6. InDerivation'
  <2>1. 1 \in 1 .. 4
    OBVIOUS
  <2> QED
    BY <1>4, <1>5, <2>1 DEF InDerivation
<1> QED
  BY <1>6 DEF Phased

LEMMA RetainKeeps == Inv /\ Retain /\ Watch => Inv'
<1> SUFFICES ASSUME Inv, Retain, Watch
             PROVE  Inv'
  OBVIOUS
<1>1. /\ command \in Commands /\ Ready /\ ledger = command.before
      /\ command.identity # NoPlan /\ command.body \in Bodies /\ command.before \in Records
      /\ CapturedRecord \in Records /\ Extracting(CapturedRecord) \in Records
      /\ CapturedRecord.active = FALSE
  BY CapturedIsReady, Inactive DEF Retain
<1>2. /\ faults' \in 0 .. MaxFaults /\ edits' \in 0 .. MaxEdits /\ proved' \subseteq Records
      /\ proved \subseteq proved' /\ UNCHANGED <<url, evidence, store, clock>>
      /\ ledger' = ledger
  BY DEF Retain, bounds, Inv, Stored, TypeOK, store
<1>3. PICK a : a = Save(CapturedRecord)
  OBVIOUS
<1>4. a \in Steps
  BY <1>1, <1>3 DEF Save, Steps
<1>5. CASE command.body \in Unsupported
  <2>1. PICK r : r = [CapturedRecord EXCEPT !.state = "unsupported"]
    OBVIOUS
  <2>2. r \in Records
    BY <1>1, <2>1, Underivable DEF States
  <2>3. PICK b, c : b = Plan(r, NoEvent) /\ c = Save(r)
    OBVIOUS
  <2>4. b \in Steps /\ c \in Steps
    BY <2>2, <2>3 DEF Plan, Save, Steps
  <2>5. PICK t \in Seq(Steps) : t = <<a, b, c>>
    BY <1>4, <2>4, ThreeSteps
  <2>6. command' = [command EXCEPT !.phase = "process", !.live = TRUE, !.todo = t]
    BY <1>3, <1>5, <2>1, <2>3, <2>5 DEF Retain
  <2>7. /\ command' \in Commands /\ command' # Idle
        /\ command'.todo = t /\ command'.phase = "process"
        /\ command'.identity = command.identity /\ command'.at = command.at
        /\ command'.body = command.body /\ command'.before = command.before
        /\ CapturedRecord' = CapturedRecord
    BY <1>1, <2>6, Scripted DEF Phases
  <2>8. Ready'
    BY <1>1, <1>2, <2>7, StaysReady
  <2>9. Underives(a, r)'
    BY <1>3, <2>1, <2>7 DEF Underives, Unsupportable
  <2>10. Phased'
    BY <1>1, <1>4, <2>2, <2>3, <2>5, <2>7, <2>8, <2>9, PlainBegins
  <2> QED
    BY <1>2, <2>7, <2>10, Remembers
<1>6. CASE command.body \notin Unsupported
  <2>1. PICK b, c : b = Read({"raw"}, command.body) /\ c = Save(Extracting(CapturedRecord))
    OBVIOUS
  <2>2. b \in Steps /\ c \in Steps
    BY <1>1, <2>1 DEF Read, Save, Steps
  <2>3. PICK t \in Seq(Steps) : t = <<a, b, c>> /\ SubSeq(t, 1, Len(t)) = t
    <3>1. PICK t : t = <<a, b, c>>
      OBVIOUS
    <3>2. t \in Seq(Steps) /\ SubSeq(t, 1, Len(t)) = t
      BY <1>4, <2>2, <3>1, ThreeSteps
    <3> QED
      BY <3>1, <3>2
  <2>4. command' = [command EXCEPT !.phase = "extract", !.todo = <<a, b, c>>]
    BY <1>3, <1>6, <2>1 DEF Retain
  <2>5. command' = [command EXCEPT !.todo = t, !.phase = "extract"] /\ "extract" \in Phases
    BY <1>1, <2>3, <2>4 DEF Commands, Phases
  <2>6. /\ command' \in Commands /\ command' # Idle
        /\ command'.todo = t /\ command'.phase = "extract"
        /\ command'.identity = command.identity /\ command'.at = command.at
        /\ command'.body = command.body /\ command'.before = command.before
        /\ CapturedRecord' = CapturedRecord
    BY <1>1, <2>5, GoesOn
  <2>7. Ready'
    BY <1>1, <1>2, <2>6, StaysReady
  <2>8. Following(ExtractScript, 1)'
    <3>1. ExtractScript' = t
      BY <1>3, <2>1, <2>3, <2>6 DEF ExtractScript
    <3> QED
      BY <2>3, <2>6, <3>1 DEF Following
  <2>9. InExtract'
    <3>1. 1 \in 1 .. 4 /\ 1 # 4
      OBVIOUS
    <3> QED
      BY <2>7, <2>8, <3>1 DEF InExtract
  <2>10. Phased'
    BY <2>6, <2>9 DEF Phased
  <2> QED
    BY <1>2, <2>6, <2>10, Remembers
<1> QED
  BY <1>5, <1>6

\* At the end of the extraction its mark is in the ledger.
LEMMA ExtractIsMarked ==
  ASSUME Inv, InPhase("extract")
  PROVE  /\ command \in Commands /\ Ready /\ ledger = Extracting(CapturedRecord)
         /\ ledger \in Records /\ Activated(ledger) \in Records
         /\ CapturedRecord \in Records /\ ~CapturedRecord.active
         /\ command.identity # NoPlan /\ command.body \in Bodies /\ command.before \in Records
<1>1. /\ command # Idle /\ command \in Commands /\ command.phase = "extract" /\ Phased
      /\ command.todo = <<>>
  BY Ended
<1>2. Ready /\ Capturing /\ command.body \in Bodies
  BY <1>1 DEF Phased, InExtract, Ready
<1>3. PICK i \in 1 .. 4 : Following(ExtractScript, i) /\ (i = 4 => ledger = Extracting(CapturedRecord))
  BY <1>1 DEF Phased, InExtract
<1>4. i = 4
  <2>1. i # 4 => At(ExtractScript, i)
    BY <1>3, ThreeAt DEF ExtractScript
  <2> QED
    BY <1>1, <2>1 DEF At
<1>5. /\ CapturedRecord \in Records /\ ~CapturedRecord.active
      /\ Extracting(CapturedRecord) \in Records
      /\ Extracting(CapturedRecord).content = command.body
  BY <1>1, <1>2, CaptureTyped
<1>6. command.identity # NoPlan /\ command.before \in Records
  BY <1>2, NoPlanIsNone DEF Capturing
<1> QED
  BY <1>1, <1>2, <1>3, <1>4, <1>5, <1>6, MadeActive

\* An attempt that leaves no derivation.
LEMMA UnderivedKeeps ==
  ASSUME Inv, Watch, InPhase("extract"), NEW state \in {"needs_agent", "failed"}, Underived(state),
         UNCHANGED <<url, ledger, guard, evidence, spool, continuation, bounds, planned, proved>>
  PROVE  Inv'
<1>1. /\ command \in Commands /\ Ready /\ ledger = Extracting(CapturedRecord)
      /\ CapturedRecord \in Records /\ ~CapturedRecord.active
      /\ command.identity # NoPlan /\ command.body \in Bodies /\ command.before \in Records
  BY ExtractIsMarked
<1>2. /\ faults' \in 0 .. MaxFaults /\ edits' \in 0 .. MaxEdits /\ proved' \subseteq Records
      /\ proved \subseteq proved' /\ UNCHANGED <<url, evidence, store, clock>>
  BY DEF bounds, Inv, Stored, TypeOK, store
<1>3. PICK r : r = [ledger EXCEPT !.state = state]
  OBVIOUS
<1>4. r = UnderivedRecord(state)
  BY <1>1, <1>3 DEF Extracting, UnderivedRecord, Records
<1>5. r \in Records
  BY <1>1, <1>4, Underivable DEF UnderivedRecord, States
<1>6. PICK a, b, c : a = Read({"raw"}, command.body) /\ b = Plan(r, NoEvent) /\ c = Save(r)
  OBVIOUS
<1>7. a \in Steps /\ b \in Steps /\ c \in Steps
  BY <1>1, <1>5, <1>6 DEF Read, Plan, Save, Steps
<1>8. PICK t \in Seq(Steps) : t = <<a, b, c>>
  BY <1>7, ThreeSteps
<1>9. command' = [command EXCEPT !.phase = "process", !.live = TRUE, !.todo = t]
  BY <1>3, <1>6, <1>8 DEF Underived
<1>10. /\ command' \in Commands /\ command' # Idle
       /\ command'.todo = t /\ command'.phase = "process"
       /\ command'.identity = command.identity /\ command'.at = command.at
       /\ command'.body = command.body /\ command'.before = command.before
       /\ CapturedRecord' = CapturedRecord
  BY <1>1, <1>9, Scripted DEF Phases
<1>11. Ready'
  BY <1>1, <1>2, <1>10, StaysReady
<1>12. Underives(a, r)'
  BY <1>4, <1>6, <1>10 DEF Underives, UnderivedRecord
<1>13. Phased'
  BY <1>1, <1>5, <1>6, <1>7, <1>8, <1>10, <1>11, <1>12, PlainBegins
<1> QED
  BY <1>2, <1>10, <1>13, Remembers

LEMMA HandOverKeeps == Inv /\ (HandOver \/ Fail) /\ Watch => Inv'
<1>1. ASSUME Inv, HandOver, Watch
      PROVE  Inv'
  BY <1>1, UnderivedKeeps DEF HandOver
<1>2. ASSUME Inv, Fail, Watch
      PROVE  Inv'
  BY <1>2, UnderivedKeeps DEF Fail
<1> QED
  BY <1>1, <1>2

LEMMA DeriveKeeps == Inv /\ Derive /\ Watch => Inv'
<1> SUFFICES ASSUME Inv, Derive, Watch
             PROVE  Inv'
  OBVIOUS
<1>1. /\ command \in Commands /\ Ready /\ ledger = Extracting(CapturedRecord)
      /\ ledger \in Records /\ Activated(ledger) \in Records
      /\ command.identity # NoPlan /\ command.body \in Bodies /\ command.before \in Records
  BY ExtractIsMarked DEF Derive
<1>2. /\ UNCHANGED <<store, clock, proved, url, archive>> /\ ledger' = ledger
      /\ faults' \in 0 .. MaxFaults /\ edits' \in 0 .. MaxEdits
      /\ url' \in Urls /\ archive' \in [Bodies -> Files]
  BY DEF Derive, bounds, store, Inv, Stored, TypeOK
<1>3. output' \in [Bodies -> Files]
  BY DEF Derive, Inv, Stored, TypeOK, Files
<1>4. PICK a, s : a = Read({"output"}, command.body)
                  /\ s = GuardedActivation(ledger, ledger, Activated(ledger))
  OBVIOUS
<1>5. a \in Steps
  BY <1>1, <1>4 DEF Read, Steps
<1>6. s \in Seq(Steps)
  BY <1>1, <1>4, ActivationTyped
<1>7. PICK t \in Seq(Steps) : t = <<a>> \o s
  BY <1>5, <1>6, FirstStep
<1>8. command' = [command EXCEPT !.phase = "process", !.live = TRUE, !.todo = t]
  BY <1>4, <1>7 DEF Derive
<1>9. /\ command' \in Commands /\ command' # Idle
      /\ command'.todo = t /\ command'.phase = "process"
      /\ command'.identity = command.identity /\ command'.at = command.at
      /\ command'.body = command.body /\ command'.before = command.before
      /\ CapturedRecord' = CapturedRecord
  BY <1>1, <1>8, Scripted DEF Phases
<1>10. Ready'
  BY <1>1, <1>2, <1>9, StaysReady
<1>11. PICK before : before = ledger
  OBVIOUS
<1>12. Beginning({"output"}, before, before)'
  <2>1. command'.todo = <<Read({"output"}, command'.body)>>
                        \o GuardedActivation(before, before, Activated(before))
    BY <1>4, <1>7, <1>9, <1>11
  <2> QED
    BY <1>10, <2>1 DEF Beginning
<1>13. RollsBack(before, before)'
  BY <1>1, <1>9, <1>11 DEF RollsBack
<1>14. InDerivation'
  <2>1. before = Extracting(CapturedRecord')
    BY <1>1, <1>9, <1>11
  <2> QED
    BY <1>1, <1>9, <1>12, <1>13, <2>1 DEF InDerivation
<1>15. Phased'
  BY <1>1, <1>9, <1>14 DEF Phased
<1> QED
  BY <1>2, <1>3, <1>9, <1>15, EvidenceMoves

LEMMA DeriveAgainKeeps == Inv /\ DeriveAgain /\ Watch => Inv'
<1> SUFFICES ASSUME Inv, DeriveAgain, Watch
             PROVE  Inv'
  OBVIOUS
<1>1. /\ UNCHANGED <<store, clock, proved>> /\ command' = Idle
      /\ faults' \in 0 .. MaxFaults /\ edits' \in 0 .. MaxEdits
      /\ url' \in Urls /\ archive' \in [Bodies -> Files]
  BY DEF DeriveAgain, bounds, store, Inv, Stored, TypeOK
<1>2. output' \in [Bodies -> Files]
  BY DEF DeriveAgain, Inv, Stored, TypeOK, Files
<1> QED
  BY <1>1, <1>2, EvidenceMoves

LEMMA CapturedKeeps == Inv /\ Captured /\ Watch => Inv'
<1> SUFFICES ASSUME Inv, Captured, Watch
             PROVE  Inv'
  OBVIOUS
<1>1. /\ command # Idle /\ command \in Commands /\ command.phase \in {"reuse", "process"}
      /\ command.todo = <<>> /\ Phased
  BY Ended DEF Captured
<1>2. InDerivation /\ command.identity # NoPlan
  BY <1>1 DEF Phased
<1>3. continuation # NoPlan /\ guard = NoGuard /\ journal # NoJournal
  <2>1. ASSUME NEW i \in 1 .. 5, Still(i)
        PROVE  continuation # NoPlan /\ guard = NoGuard /\ journal # NoJournal
    <3>1. i = 5
      BY <1>1, <2>1, StillAt DEF Still, At
    <3> QED
      BY <2>1, <3>1 DEF Still, StillHolds, PlanMade
  <2>2. ASSUME NEW first, NEW r, NEW i \in 1 .. 4, Plain(first, r, i)
        PROVE  continuation # NoPlan /\ guard = NoGuard /\ journal # NoJournal
    <3>1. i = 4
      BY <1>1, <2>2, ThreeAt DEF Plain, PlainScript, At
    <3> QED
      BY <2>2, <3>1 DEF Plain, PlainHolds, PlanMade
  <2>3. ASSUME NEW parts, NEW before, NEW rollback, Beginning(parts, before, rollback)
        PROVE  FALSE
    BY <1>1, <2>3, BeginningAt
  <2>4. ASSUME NEW before, NEW rollback, NEW i \in 1 .. 8, Activating(before, rollback, i)
        PROVE  continuation # NoPlan /\ guard = NoGuard /\ journal # NoJournal
    <3>1. i = 8
      BY <1>1, <2>4, ActivationAt DEF Activating, At
    <3> QED
      BY <2>4, <3>1 DEF Activating, ActivationHolds, PlanMade
  <2> QED
    BY <1>2, <2>1, <2>2, <2>3, <2>4 DEF InDerivation
<1>4. /\ command' \in Commands /\ command'.phase = "finish" /\ command'.todo = <<>>
      /\ command'.identity = command.identity
  BY Entered DEF Captured, Phases
<1>5. /\ faults' \in 0 .. MaxFaults /\ edits' \in 0 .. MaxEdits /\ proved' \subseteq Records
      /\ proved \subseteq proved' /\ UNCHANGED <<url, evidence, store, clock>>
      /\ UNCHANGED <<continuation, guard, journal>>
  BY DEF Captured, bounds, Inv, Stored, TypeOK, store, spool
<1>6. Phased'
  BY <1>2, <1>3, <1>4, <1>5 DEF Phased
<1> QED
  BY <1>4, <1>5, <1>6, Remembers

-----------------------------------------------------------------------------
(* The planned result, from the checkpoint to the pending pointer.         *)

\* The result of a plan that yields its events is a result.
LEMMA ResultTyped ==
  ASSUME NEW c \in Continuations, WellPlanned(c)
  PROVE  /\ Result(c) \in Results
         /\ PlannedEvents(c) \in Seq(Events)
         /\ \A i \in 1 .. Len(PlannedEvents(c)) : PlannedEvents(c)[i].record = c.candidate
<1>1. c.candidate \in Records /\ c.at \in 0 .. MaxTime /\ c.event \in Events \union {NoEvent}
      /\ (c.event # NoEvent => c.event = Activation(c.candidate))
  BY DEF Continuations, WellPlanned
<1>2. PICK r : r = c.candidate
  OBVIOUS
<1>3. PICK s : s = IF c.event = NoEvent THEN <<>> ELSE <<c.event>>
  OBVIOUS
<1>4. s \in Seq(Events) /\ \A i \in 1 .. Len(s) : s[i].record = r
  <2>1. CASE c.event = NoEvent
    BY <1>3, <2>1
  <2>2. CASE c.event # NoEvent
    <3>1. PICK e : e = c.event
      OBVIOUS
    <3>2. e \in Events /\ e.record = r
      BY <1>1, <1>2, <2>2, <3>1, EventsTyped
    <3>3. s = <<e>>
      BY <1>3, <2>2, <3>1
    <3> QED
      BY <3>2, <3>3
  <2> QED
    BY <2>1, <2>2
<1>5. PICK t : t = Handoffs(r)
  OBVIOUS
<1>6. t \in Seq(Events) /\ \A i \in 1 .. Len(t) : t[i].record = r
  <2>1. PICK h : h = Handoff(r)
    OBVIOUS
  <2>2. h \in Events /\ h.record = r
    BY <1>1, <1>2, <2>1, EventsTyped
  <2>3. t = <<h>> \/ t = <<>>
    BY <1>5, <2>1 DEF Handoffs
  <2>4. CASE t = <<h>>
    BY <2>2, <2>4
  <2>5. CASE t = <<>>
    BY <2>5
  <2> QED
    BY <2>3, <2>4, <2>5
<1>7. PICK u : u = PlannedEvents(c)
  OBVIOUS
<1>8. Joined(s, t, u)
  BY <1>2, <1>3, <1>5, <1>7 DEF PlannedEvents, Joined
<1>9. /\ u \in Seq(Events) /\ Len(u) = Len(s) + Len(t)
      /\ \A i \in 1 .. Len(s) : u[i] = s[i]
      /\ \A i \in 1 .. Len(t) : u[Len(s) + i] = t[i]
      /\ Len(s) \in Nat /\ Len(t) \in Nat
  <2>1. s \in Seq(Events) /\ t \in Seq(Events)
    BY <1>4, <1>6
  <2> QED
    BY <1>8, <2>1, JoinedParts
<1>10. \A i \in 1 .. Len(u) : u[i].record = r
  <2> TAKE i \in 1 .. Len(u)
  <2>1. CASE i <= Len(s)
    <3>1. i \in 1 .. Len(s)
      BY <1>9, <2>1
    <3> QED
      BY <1>4, <1>9, <3>1
  <2>2. CASE ~(i <= Len(s))
    <3>1. i - Len(s) \in 1 .. Len(t) /\ Len(s) + (i - Len(s)) = i
      BY <1>9, <2>2
    <3>2. u[i] = t[i - Len(s)]
      BY <1>9, <3>1
    <3> QED
      BY <1>6, <3>1, <3>2
  <2> QED
    BY <2>1, <2>2
<1>11. PICK events : events = [i \in DOMAIN u |-> Public(u[i])]
  OBVIOUS
<1>12. events \in Seq([kind : {"new_active_representation", "handoff_source_id"},
                       content : Bodies \union {NoBody}])
  <2>1. DOMAIN u = 1 .. Len(u) /\ Len(u) \in Nat
    BY <1>9
  <2>2. \A i \in 1 .. Len(u) :
           Public(u[i]) \in [kind : {"new_active_representation", "handoff_source_id"},
                             content : Bodies \union {NoBody}]
    <3> TAKE i \in 1 .. Len(u)
    <3>1. u[i] \in Events
      BY <1>9
    <3> QED
      BY <3>1 DEF Public, Events, Records
  <2> QED
    BY <1>11, <2>1, <2>2
<1>13. CorpusRow(c.candidate) \in (Bodies \union {NoBody}) \X BOOLEAN
  BY <1>1 DEF CorpusRow, Records
<1>14. Result(c) = [at |-> c.at, corpus |-> CorpusRow(c.candidate), events |-> events]
  BY <1>7, <1>11 DEF Result, PlannedEvents
<1> QED
  BY <1>1, <1>2, <1>7, <1>9, <1>10, <1>12, <1>13, <1>14 DEF Results

\* What a running command still knows of its plan.
LEMMA OfferingKnows ==
  ASSUME Inv, Offering
  PROVE  /\ continuation \in planned /\ continuation \in Continuations
         /\ WellPlanned(continuation) /\ Result(continuation) \in Results
         /\ ledger = continuation.candidate /\ ledger \in Records
<1>1. continuation \in planned /\ continuation \in Continuations /\ WellPlanned(continuation)
  BY DEF Offering, Inv, Stored, TypeOK, PlansAreTimely
<1> QED
  BY <1>1, ResultTyped DEF Offering, Continuations

\* The evidence stays seen while the command runs and the plan stands.
LEMMA StaysSeen ==
  ASSUME Watch, Offering, command # Idle, command' # Idle,
         UNCHANGED <<continuation, ledger, guard, pending>>
  PROVE  Offering'
BY DEF Watch, Offering

\* The command goes on with a result.
LEMMA Resulting ==
  ASSUME command \in Commands, NEW phase \in Phases, NEW result \in Results \union {NoResult},
         command' = [command EXCEPT !.phase = phase, !.result = result]
  PROVE  /\ command' \in Commands /\ command' # Idle /\ command'.phase = phase
         /\ command'.todo = command.todo /\ command'.identity = command.identity
         /\ command'.live = command.live /\ command'.result = result
<1>1. PICK c \in Commands : c = command
  OBVIOUS
<1>2. command' = [phase |-> phase, identity |-> c.identity, at |-> c.at, body |-> c.body,
                  before |-> c.before, todo |-> c.todo, live |-> c.live, result |-> result]
  BY <1>1 DEF Commands
<1>3. command' \in Commands
  BY <1>1, <1>2 DEF Commands
<1>4. /\ command'.phase = phase /\ command'.todo = c.todo /\ command'.identity = c.identity
      /\ command'.live = c.live /\ command'.result = result
  BY <1>1, <1>2 DEF Commands
<1> QED
  BY <1>1, <1>3, <1>4, IdleIsNone

LEMMA FinishKeeps == Inv /\ Finish /\ Watch => Inv'
<1> SUFFICES ASSUME Inv, Finish, Watch
             PROVE  Inv'
  OBVIOUS
<1>1. /\ command # Idle /\ command \in Commands /\ command.phase = "finish"
      /\ command.todo = <<>> /\ Phased /\ TypeOK
  BY Ended DEF Finish
<1>2. /\ continuation # NoPlan /\ guard = NoGuard /\ command.identity # NoPlan
      /\ (command.live => journal # NoJournal)
  BY <1>1 DEF Phased
<1>3. /\ UNCHANGED <<url, evidence, store, clock>>
      /\ UNCHANGED <<archive, output, ledger, guard, journal, pending, manifests, continuation>>
      /\ faults' \in 0 .. MaxFaults /\ edits' \in 0 .. MaxEdits
  BY <1>1 DEF Finish, bounds, store, spool, evidence, TypeOK
<1>4. ledger = continuation.candidate /\ ledger \in Records /\ Whole(ledger)
  BY <1>1, <1>2 DEF Finish, MayFinish, Restores, TypeOK, Continuations
<1>5. proved \subseteq proved' /\ proved' \subseteq Records
  BY <1>1, <1>4 DEF Finish, TypeOK
<1>6. PICK phase : phase = IF pending # NoResult THEN "drop_journal" ELSE "publish"
  OBVIOUS
<1>7. /\ command' \in Commands /\ command' # Idle /\ command'.phase = phase
      /\ command'.todo = <<>> /\ command'.identity = command.identity
      /\ command'.live = command.live /\ command'.result = pending
  <2>1. phase \in Phases /\ pending \in Results \union {NoResult}
    BY <1>1, <1>6 DEF Phases, TypeOK
  <2>2. command' = [command EXCEPT !.phase = phase, !.result = pending]
    BY <1>6 DEF Finish
  <2> QED
    BY <1>1, <2>1, <2>2, Resulting
<1>8. CASE pending # NoResult
  <2>1. phase = "drop_journal"
    BY <1>6, <1>8
  <2>2. Completing'
    BY <1>1, <1>2, <1>3, <1>7, <1>8 DEF Completing, TypeOK
  <2>3. Phased'
    BY <1>2, <1>7, <2>1, <2>2 DEF Phased
  <2> QED
    BY <1>3, <1>5, <1>7, <2>3, Remembers
<1>9. CASE pending = NoResult
  <2>1. phase = "publish"
    BY <1>6, <1>9
  <2>2. intact'
    <3>1. Whole(continuation.candidate)'
      BY <1>3, <1>4 DEF Whole
    <3> QED
      BY <1>2, <1>3, <1>7, <3>1 DEF Watch
  <2>3. Offering'
    BY <1>2, <1>3, <1>4, <1>9, <2>2 DEF Offering
  <2>4. Phased'
    BY <1>2, <1>3, <1>7, <2>1, <2>3 DEF Phased
  <2> QED
    BY <1>3, <1>5, <1>7, <2>4, Remembers
<1> QED
  BY <1>8, <1>9

LEMMA PublishAnewKeeps == Inv /\ PublishAnew /\ Watch => Inv'
<1> SUFFICES ASSUME Inv, PublishAnew, Watch
             PROVE  Inv'
  OBVIOUS
<1>1. /\ command # Idle /\ command \in Commands /\ command.phase = "publish"
      /\ command.todo = <<>> /\ Phased /\ TypeOK
  BY Ended DEF PublishAnew
<1>2. Offering /\ command.identity # NoPlan
  BY <1>1 DEF Phased
<1>3. /\ UNCHANGED <<url, ledger, guard, evidence, staged, manifests, pending, receipts,
                     acknowledged, continuation, clock, faults, edits, planned, proved>>
      /\ faults' \in 0 .. MaxFaults
  BY <1>1 DEF PublishAnew, bounds, TypeOK
<1>4. /\ command' \in Commands /\ command' # Idle /\ command'.phase = "publish"
      /\ command'.todo = <<>> /\ command'.identity = command.identity
  <2>1. command' = [command EXCEPT !.live = TRUE]
    BY DEF PublishAnew
  <2>2. command' = [command EXCEPT !.phase = command.phase, !.live = TRUE, !.todo = command.todo]
    BY <1>1, <2>1 DEF Commands
  <2>3. command.todo \in Seq(Steps) /\ command.phase \in Phases
    BY <1>1 DEF Commands
  <2> QED
    BY <1>1, <2>2, <2>3, Scripted
<1>5. Offering'
  BY <1>1, <1>2, <1>3, <1>4, StaysSeen
<1>6. journal' \in Journals /\ JournalIsKnown'
      /\ (journal = NoJournal => journal'.log = <<>>) /\ (journal # NoJournal => journal' = journal)
  <2>1. CASE journal = NoJournal
    <3>1. PICK none : none = <<>>
      OBVIOUS
    <3>2. none \in Logs /\ Len(none) = 0
      BY <3>1 DEF Logs
    <3>3. journal' = [command |-> "snapshot", at |-> continuation.at, log |-> none]
      BY <2>1, <3>1 DEF PublishAnew, Journal
    <3>4. continuation.at \in 0 .. MaxTime
      BY <1>2, OfferingKnows DEF Continuations
    <3>5. journal' \in Journals /\ journal'.log = none
      BY <3>2, <3>3, <3>4 DEF Journals
    <3>6. JournalIsKnown'
      BY <3>2, <3>5 DEF JournalIsKnown
    <3> QED
      BY <2>1, <3>1, <3>5, <3>6
  <2>2. CASE journal # NoJournal
    <3>1. journal' = journal
      BY <2>2 DEF PublishAnew
    <3>2. JournalIsKnown'
      BY <1>3, <3>1 DEF JournalIsKnown, Inv, Stored
    <3> QED
      BY <1>1, <2>2, <3>1, <3>2 DEF TypeOK
  <2> QED
    BY <2>1, <2>2
<1>7. journal' # NoJournal
  BY <1>6, NoJournalIsNone
<1>8. Phased'
  BY <1>2, <1>4, <1>5, <1>7 DEF Phased
<1>9. acknowledged # NoResult /\ acknowledged.of = continuation => journal'.log = <<>>
  BY <1>6 DEF Inv, Stored, SpoolIsBound
<1> QED
  BY <1>2, <1>3, <1>4, <1>6, <1>8, <1>9, JournalMoves DEF Offering

LEMMA PublishKeeps == Inv /\ Publish /\ Watch => Inv'
<1> SUFFICES ASSUME Inv, Publish, Watch
             PROVE  Inv'
  OBVIOUS
<1>1. /\ command # Idle /\ command \in Commands /\ command.phase = "publish"
      /\ command.todo = <<>> /\ Phased /\ TypeOK /\ command.live
  BY Ended DEF Publish
<1>2. Offering /\ command.identity # NoPlan /\ journal # NoJournal
  BY <1>1 DEF Phased
<1>3. /\ UNCHANGED <<url, evidence, store, clock>> /\ UNCHANGED <<journal, continuation>>
      /\ UNCHANGED <<ledger, guard, pending>>
      /\ faults' \in 0 .. MaxFaults /\ edits' \in 0 .. MaxEdits
      /\ proved \subseteq proved' /\ proved' \subseteq Records
  BY <1>1 DEF Publish, bounds, store, spool, TypeOK
<1>4. /\ journal.at = continuation.at
      /\ Digests(journal.log, continuation.event) = <<continuation.before, continuation.after>>
  BY DEF Publish, MayPublish
<1>5. PICK a : a = Commit(continuation.event)
  OBVIOUS
<1>6. PICK t \in Seq(Steps) : t = IF continuation.event = NoEvent THEN <<>> ELSE <<a>>
  <2>1. CASE continuation.event = NoEvent
    <3>1. PICK none : none = <<>>
      OBVIOUS
    <3>2. none \in Seq(Steps)
      BY <3>1
    <3>3. none = IF continuation.event = NoEvent THEN <<>> ELSE <<a>>
      BY <2>1, <3>1
    <3> QED
      BY <3>2, <3>3
  <2>2. CASE continuation.event # NoEvent
    <3>1. continuation.event \in Events
      BY <1>2, <2>2, OfferingKnows DEF Continuations
    <3>2. a \in Steps
      BY <1>5, <3>1 DEF Commit, Steps
    <3> QED
      BY <2>2, <3>2, TwoSteps
  <2> QED
    BY <2>1, <2>2
<1>7. /\ command' \in Commands /\ command' # Idle /\ command'.todo = t
      /\ command'.phase = "stage" /\ command'.identity = command.identity
  <2>1. command' = [command EXCEPT !.phase = "stage", !.todo = t]
    BY <1>5, <1>6 DEF Publish
  <2>2. command' = [command EXCEPT !.todo = t, !.phase = "stage"] /\ "stage" \in Phases
    BY <1>1, <2>1 DEF Commands, Phases
  <2> QED
    BY <1>1, <1>6, <2>2, GoesOn
<1>8. Offering' /\ JournalIsPlanned'
  BY <1>1, <1>2, <1>3, <1>4, <1>7, StaysSeen DEF JournalIsPlanned
<1>9. continuation.event = NoEvent => journal.log = continuation.after
  <2> SUFFICES ASSUME continuation.event = NoEvent
               PROVE  journal.log = continuation.after
    OBVIOUS
  <2>1. PICK log, before, after :
           log = journal.log /\ before = continuation.before /\ after = continuation.after
    OBVIOUS
  <2>2. Digests(log, continuation.event) = <<log, log>>
    BY DEF Digests
  <2>3. <<log, log>> = <<before, after>>
    BY <1>4, <2>1, <2>2
  <2>4. log = after
    BY <2>3
  <2> QED
    BY <2>1, <2>4
<1>10. InStage'
  BY <1>3, <1>4, <1>5, <1>6, <1>7, <1>8, <1>9 DEF InStage
<1>11. Phased'
  BY <1>2, <1>7, <1>10 DEF Phased
<1> QED
  BY <1>3, <1>7, <1>11, Remembers

\* Only what is stored of results moves.
LEMMA ResultMoves ==
  ASSUME Inv, Watch,
         UNCHANGED <<url, ledger, guard, evidence, journal, continuation, bounds, planned, proved>>,
         staged' \in Staged \union {NoResult}, staged' # NoResult => staged'.of \in planned,
         manifests' \subseteq Results, pending' \in manifests' \union {NoResult},
         receipts \subseteq receipts', receipts' \subseteq manifests',
         acknowledged' \in Acknowledgements \union {NoResult},
         acknowledged' # NoResult => acknowledged'.result \in receipts',
         SpoolIsBound', LedgerIsPlanned', GuardIsPlanned', ResultIsThePlanned',
         command' = Idle \/ (command' \in Commands /\ Phased')
  PROVE  Inv'
<1>0. UNCHANGED <<archive, output, clock, faults, edits>>
  BY DEF evidence, bounds
<1>1. TypeOK'
  BY <1>0, Watching DEF Inv, Stored, TypeOK
<1>2. JournalIsKnown' /\ PlansAreTimely'
  BY <1>0 DEF Inv, Stored, JournalIsKnown, PlansAreTimely
<1>3. ActiveWasProved' /\ HandedOver'
  BY DEF Inv, Stored, ActiveWasProved, HandedOver
<1>4. LiveIsAnnounced'
  <2>1. \A content : Announced(content) => Announced(content)'
    BY DEF Announced
  <2> QED
    BY <2>1 DEF Inv, Stored, LiveIsAnnounced
<1> QED
  BY <1>1, <1>2, <1>3, <1>4 DEF Inv, Stored

LEMMA StageKeeps == Inv /\ Stage /\ Watch => Inv'
<1> SUFFICES ASSUME Inv, Stage, Watch
             PROVE  Inv'
  OBVIOUS
<1>1. /\ command # Idle /\ command \in Commands /\ command.phase = "stage"
      /\ command.todo = <<>> /\ Phased /\ TypeOK /\ Stored
  BY Ended DEF Stage
<1>2. InStage /\ Offering /\ JournalIsPlanned /\ command.identity # NoPlan
  BY <1>1 DEF Phased, InStage
<1>3. journal.log = continuation.after
  <2>1. PICK a : a = Commit(continuation.event)
    OBVIOUS
  <2>2. command.todo # <<a>>
    BY <1>1
  <2> QED
    BY <1>2, <2>1, <2>2 DEF InStage
<1>4. /\ UNCHANGED <<url, ledger, guard, evidence, journal, manifests, pending, receipts,
                     acknowledged, continuation, bounds, planned, proved>>
  BY DEF Stage
<1>5. /\ command' \in Commands /\ command' # Idle /\ command'.phase = "finalize"
      /\ command'.todo = <<>> /\ command'.identity = command.identity
  BY Entered DEF Stage, Phases
<1>6. staged' \in Staged /\ staged' # NoResult /\ staged'.of = continuation
  <2>1. /\ continuation \in Continuations /\ ledger \in Records /\ journal.log \in Logs
    BY <1>1, <1>2, OfferingKnows DEF TypeOK, Journals, JournalIsPlanned
  <2>2. staged' = [of |-> continuation, checkpoint |-> ledger, log |-> journal.log]
    BY DEF Stage
  <2> QED
    BY <2>1, <2>2, NoResultIsNone DEF Staged
<1>7. Offering' /\ JournalIsPlanned' /\ (journal.log = continuation.after)'
  BY <1>1, <1>2, <1>3, <1>4, <1>5, StaysSeen DEF JournalIsPlanned
<1>8. Phased'
  BY <1>2, <1>5, <1>6, <1>7 DEF Phased
<1>9. SpoolIsBound' /\ LedgerIsPlanned' /\ GuardIsPlanned'
  BY <1>1, <1>2, <1>4, <1>6 DEF Stored, SpoolIsBound, LedgerIsPlanned, GuardIsPlanned, Offering, Result
<1>10. ResultIsThePlanned'
  BY <1>1, <1>4 DEF Stored, ResultIsThePlanned, Result
<1>11. continuation \in planned
  BY <1>2, OfferingKnows
<1> QED
  BY <1>1, <1>4, <1>5, <1>6, <1>8, <1>9, <1>10, <1>11, ResultMoves DEF TypeOK

\* What the planned journal yields with the candidate in the ledger is the planned result.
LEMMA FinalizedIsPlanned ==
  ASSUME NEW c \in Continuations, WellPlanned(c), ledger = c.candidate
  PROVE  Manifest(c.at, CorpusRow(ledger), c.after) = Result(c)
<1>1. PICK wanted : wanted = KeptFrames(c)
  OBVIOUS
<1>2. {f \in Frames(c.after) : Kept(f, c.after)} = wanted
  BY <1>1 DEF KeptFrames, Kept, KeptWith
<1>3. PICK kept : kept = SelectIn(c.after, wanted)
  OBVIOUS
<1>4. PICK events : events = PlannedEvents(c)
  OBVIOUS
<1>5. DOMAIN kept = DOMAIN events /\ \A i \in DOMAIN kept : kept[i].event = events[i]
  BY <1>1, <1>3, <1>4 DEF WellPlanned
<1>6. [i \in DOMAIN kept |-> Public(kept[i].event)] = [i \in DOMAIN events |-> Public(events[i])]
  BY <1>5
<1>7. Manifest(c.at, CorpusRow(ledger), c.after) =
        [at |-> c.at, corpus |-> CorpusRow(ledger),
         events |-> [i \in DOMAIN kept |-> Public(kept[i].event)]]
  BY <1>2, <1>3 DEF Manifest
<1>8. Result(c) = [at |-> c.at, corpus |-> CorpusRow(c.candidate),
                   events |-> [i \in DOMAIN events |-> Public(events[i])]]
  BY <1>4 DEF Result, PlannedEvents
<1> QED
  BY <1>6, <1>7, <1>8

LEMMA FinalizeKeeps == Inv /\ Finalize /\ Watch => Inv'
<1> SUFFICES ASSUME Inv, Finalize, Watch
             PROVE  Inv'
  OBVIOUS
<1>1. /\ command # Idle /\ command \in Commands /\ command.phase = "finalize"
      /\ command.todo = <<>> /\ Phased /\ TypeOK /\ Stored
  BY Ended DEF Finalize
<1>2. /\ Offering /\ JournalIsPlanned /\ command.identity # NoPlan
      /\ journal.log = continuation.after /\ staged # NoResult
  BY <1>1 DEF Phased
<1>3. /\ continuation \in planned /\ continuation \in Continuations /\ WellPlanned(continuation)
      /\ Result(continuation) \in Results /\ ledger = continuation.candidate
  BY <1>2, OfferingKnows
<1>4. PICK m : m = Result(continuation)
  OBVIOUS
<1>5. Manifest(journal.at, CorpusRow(ledger), journal.log) = m
  BY <1>2, <1>3, <1>4, FinalizedIsPlanned DEF JournalIsPlanned
<1>6. /\ manifests' = manifests \union {m}
      /\ command' = [command EXCEPT !.phase = "save_pending", !.result = m]
      /\ UNCHANGED <<url, ledger, guard, evidence, journal, staged, pending, receipts,
                     acknowledged, continuation, bounds, planned, proved>>
  BY <1>5 DEF Finalize
<1>7. /\ command' \in Commands /\ command' # Idle /\ command'.phase = "save_pending"
      /\ command'.todo = <<>> /\ command'.identity = command.identity /\ command'.result = m
  <2>1. "save_pending" \in Phases /\ m \in Results
    BY <1>3, <1>4 DEF Phases
  <2> QED
    BY <1>1, <1>6, <2>1, Resulting
<1>8. Offering'
  BY <1>1, <1>2, <1>6, <1>7, StaysSeen
<1>9. Phased'
  <2>1. m = Result(continuation)'
    BY <1>4, <1>6 DEF Result
  <2> QED
    BY <1>2, <1>6, <1>7, <1>8, <2>1 DEF Phased
<1>10. SpoolIsBound' /\ LedgerIsPlanned' /\ GuardIsPlanned'
  BY <1>1, <1>6 DEF Stored, SpoolIsBound, LedgerIsPlanned, GuardIsPlanned, Unfinished, Result
<1>11. ResultIsThePlanned'
  BY <1>1, <1>3, <1>4, <1>6 DEF Stored, ResultIsThePlanned, Result
<1>12. manifests' \subseteq Results /\ manifests \subseteq manifests'
  BY <1>1, <1>3, <1>4, <1>6 DEF TypeOK
<1> QED
  BY <1>1, <1>6, <1>7, <1>9, <1>10, <1>11, <1>12, ResultMoves DEF TypeOK

LEMMA SavePendingKeeps == Inv /\ SavePending /\ Watch => Inv'
<1> SUFFICES ASSUME Inv, SavePending, Watch
             PROVE  Inv'
  OBVIOUS
<1>1. /\ command # Idle /\ command \in Commands /\ command.phase = "save_pending"
      /\ command.todo = <<>> /\ Phased /\ TypeOK /\ Stored
  BY Ended DEF SavePending
<1>2. /\ Offering /\ command.identity # NoPlan /\ staged # NoResult
      /\ command.result \in manifests /\ command.result = Result(continuation)
  BY <1>1 DEF Phased
<1>3. /\ pending' = command.result
      /\ UNCHANGED <<url, ledger, guard, evidence, journal, staged, manifests, receipts,
                     acknowledged, continuation, bounds, planned, proved>>
  BY DEF SavePending
<1>4. /\ command' \in Commands /\ command' # Idle /\ command'.phase = "drop_journal"
      /\ command'.todo = <<>> /\ command'.identity = command.identity
      /\ command'.result = command.result
  BY Entered DEF SavePending, Phases
<1>5. Phased'
  <2>1. Completing'
    BY <1>2, <1>3, <1>4 DEF Completing
  <2> QED
    BY <1>4, <2>1 DEF Phased
<1>6. SpoolIsBound' /\ LedgerIsPlanned' /\ GuardIsPlanned'
  BY <1>1, <1>2, <1>3 DEF Stored, SpoolIsBound, LedgerIsPlanned, GuardIsPlanned, Offering, Result
<1>7. ResultIsThePlanned'
  BY <1>1, <1>3 DEF Stored, ResultIsThePlanned, Result
<1> QED
  BY <1>1, <1>2, <1>3, <1>4, <1>5, <1>6, <1>7, ResultMoves DEF TypeOK

-----------------------------------------------------------------------------
(* The completion, the acknowledgement and everybody else.                 *)

LEMMA DropJournalKeeps == Inv /\ DropJournal /\ Watch => Inv'
<1> SUFFICES ASSUME Inv, DropJournal, Watch
             PROVE  Inv'
  OBVIOUS
<1>1. /\ command # Idle /\ command \in Commands /\ command.phase = "drop_journal"
      /\ command.todo = <<>> /\ Phased /\ TypeOK /\ Stored
  BY Ended DEF DropJournal
<1>2. Completing
  BY <1>1 DEF Phased
<1>3. /\ journal' = NoJournal
      /\ UNCHANGED <<url, ledger, guard, evidence, staged, manifests, pending, receipts,
                     acknowledged, continuation, clock, faults, edits, planned, proved>>
      /\ faults' \in 0 .. MaxFaults
  BY <1>1 DEF DropJournal, bounds, TypeOK
<1>4. /\ command' \in Commands /\ command' # Idle /\ command'.phase = "drop_staged"
      /\ command'.todo = <<>> /\ command'.identity = command.identity
      /\ command'.result = command.result
  BY Entered DEF DropJournal, Phases
<1>5. Phased'
  <2>1. Completing'
    BY <1>2, <1>3, <1>4 DEF Completing
  <2> QED
    BY <1>3, <1>4, <2>1 DEF Phased
<1>6. JournalIsKnown'
  BY <1>3 DEF JournalIsKnown
<1> QED
  BY <1>3, <1>4, <1>5, <1>6, JournalMoves

LEMMA DropStagedKeeps == Inv /\ DropStaged /\ Watch => Inv'
<1> SUFFICES ASSUME Inv, DropStaged, Watch
             PROVE  Inv'
  OBVIOUS
<1>1. /\ command # Idle /\ command \in Commands /\ command.phase = "drop_staged"
      /\ command.todo = <<>> /\ Phased /\ TypeOK /\ Stored
  BY Ended DEF DropStaged
<1>2. Completing /\ journal = NoJournal
  BY <1>1 DEF Phased
<1>3. /\ staged' = NoResult
      /\ UNCHANGED <<url, ledger, guard, evidence, journal, manifests, pending, receipts,
                     acknowledged, continuation, bounds, planned, proved>>
  BY DEF DropStaged
<1>4. command' = Idle \/ (command' \in Commands /\ Phased')
  <2>1. CASE command.identity # NoPlan
    BY <2>1 DEF DropStaged
  <2>2. CASE command.identity = NoPlan
    <3>1. Enter("acknowledge")
      BY <2>2 DEF DropStaged, Enter
    <3>2. /\ command' \in Commands /\ command'.phase = "acknowledge"
          /\ command'.todo = <<>> /\ command'.identity = command.identity
          /\ command'.result = command.result
      BY <3>1, Entered DEF DropStaged, Phases
    <3>3. Phased'
      BY <1>2, <1>3, <2>2, <3>2 DEF Phased, Completing
    <3> QED
      BY <3>2, <3>3
  <2> QED
    BY <2>1, <2>2
<1>5. SpoolIsBound' /\ LedgerIsPlanned' /\ GuardIsPlanned'
  BY <1>1, <1>2, <1>3 DEF Stored, SpoolIsBound, LedgerIsPlanned, GuardIsPlanned, Unfinished, Result
<1>6. ResultIsThePlanned'
  BY <1>1, <1>3 DEF Stored, ResultIsThePlanned, Result
<1> QED
  BY <1>1, <1>3, <1>4, <1>5, <1>6, ResultMoves DEF TypeOK

LEMMA ConsumeKeeps ==
  ASSUME Inv, Watch, NEW m \in manifests, Consume(m)
  PROVE  Inv'
<1>1. /\ receipts' = receipts \union {m} /\ command' = Idle
      /\ UNCHANGED <<url, ledger, guard, evidence, journal, staged, manifests, pending,
                     acknowledged, continuation, bounds, planned, proved>>
  BY DEF Consume
<1>2. Stored /\ TypeOK
  BY DEF Inv, Stored
<1>3. SpoolIsBound' /\ LedgerIsPlanned' /\ GuardIsPlanned'
  BY <1>1, <1>2 DEF Stored, SpoolIsBound, LedgerIsPlanned, GuardIsPlanned, Unfinished, Result
<1>4. ResultIsThePlanned'
  BY <1>1, <1>2 DEF Stored, ResultIsThePlanned, Result
<1>5. receipts \subseteq receipts' /\ receipts' \subseteq manifests'
  BY <1>1, <1>2 DEF TypeOK
<1> QED
  BY <1>1, <1>2, <1>3, <1>4, <1>5, ResultMoves DEF TypeOK

\* The acknowledgement, of what is pending and of what was acknowledged before.
LEMMA StartAcknowledgeKeeps ==
  ASSUME Inv, Watch, NEW m \in manifests, StartAcknowledge(m) \/ StartReacknowledge(m)
  PROVE  Inv'
<1>1. /\ Stored /\ TypeOK /\ m \in Results
      /\ UNCHANGED <<staged, pending, manifests, receipts, acknowledged>>
  BY DEF Inv, Stored, TypeOK, StartAcknowledge, StartReacknowledge, spool
<1>2. /\ faults' \in 0 .. MaxFaults /\ edits' \in 0 .. MaxEdits /\ proved' \subseteq Records
      /\ proved \subseteq proved' /\ UNCHANGED <<url, evidence, store, clock>>
  BY <1>1 DEF StartAcknowledge, StartReacknowledge, bounds, TypeOK, store
<1>3. /\ m \in receipts
      /\ pending = m \/ (pending # m /\ acknowledged # NoResult)
  BY <1>1 DEF StartAcknowledge, StartReacknowledge, MayAcknowledge, TypeOK
<1>4. PICK phase : phase = IF staged # NoResult THEN "drop_journal"
                           ELSE IF pending = m THEN "acknowledge" ELSE "drop_plan"
  OBVIOUS
<1>5. phase \in Phases /\ command' = NewCommand(phase, NoPlan, m)
  BY <1>4 DEF StartAcknowledge, StartReacknowledge, Phases
<1>6. /\ command' \in Commands /\ command' # Idle /\ command'.phase = phase
      /\ command'.todo = <<>> /\ command'.identity = NoPlan /\ command'.result = m
  BY <1>1, <1>5, New
<1>7. Phased'
  BY <1>1, <1>3, <1>4, <1>6 DEF Phased, Completing
<1> QED
  BY <1>2, <1>6, <1>7, Remembers

LEMMA AcknowledgeKeeps == Inv /\ Acknowledge /\ Watch => Inv'
<1> SUFFICES ASSUME Inv, Acknowledge, Watch
             PROVE  Inv'
  OBVIOUS
<1>1. /\ command # Idle /\ command \in Commands /\ command.phase = "acknowledge"
      /\ command.todo = <<>> /\ Phased /\ TypeOK /\ Stored
  BY Ended DEF Acknowledge
<1>2. /\ command.identity = NoPlan /\ command.result \in receipts /\ staged = NoResult
      /\ pending = command.result \/ acknowledged # NoResult
  BY <1>1 DEF Phased
<1>3. /\ UNCHANGED <<url, ledger, guard, evidence, journal, staged, manifests, pending,
                     receipts, continuation, bounds, planned, proved>>
  BY DEF Acknowledge
<1>4. PICK phase : phase = IF pending = command.result THEN "drop_pending" ELSE "drop_plan"
  OBVIOUS
<1>5. /\ command' \in Commands /\ command' # Idle /\ command'.phase = phase
      /\ command'.todo = <<>> /\ command'.identity = command.identity
      /\ command'.result = command.result
  <2>1. Enter(phase) /\ phase \in Phases /\ InPhase("acknowledge")
    BY <1>4 DEF Acknowledge, Phases
  <2> QED
    BY <2>1, Entered
<1>6. CASE pending = command.result
  <2>1. pending # NoResult /\ pending \in Results /\ pending \in receipts
    BY <1>1, <1>2, <1>6, NoResultIsNone DEF TypeOK
  <2>2. continuation # NoPlan /\ continuation \in planned /\ continuation \in Continuations
        /\ journal = NoJournal
    BY <1>1, <1>2, <2>1 DEF Stored, SpoolIsBound, TypeOK
  <2>3. PICK a : a = [result |-> pending, of |-> continuation]
    OBVIOUS
  <2>4. a \in Acknowledgements /\ a.result = pending /\ a.of = continuation /\ a # NoResult
    BY <2>1, <2>2, <2>3, NoResultIsNone DEF Acknowledgements
  <2>5. acknowledged' = a
    BY <1>6, <2>3 DEF Acknowledge
  <2>6. Phased'
    BY <1>2, <1>3, <1>4, <1>5, <1>6, <2>4, <2>5 DEF Phased
  <2>7. SpoolIsBound' /\ LedgerIsPlanned' /\ GuardIsPlanned'
    BY <1>1, <1>3, <2>1, <2>2, <2>4, <2>5
       DEF Stored, SpoolIsBound, LedgerIsPlanned, GuardIsPlanned, Unfinished, Result
  <2>8. ResultIsThePlanned'
    BY <1>1, <1>3 DEF Stored, ResultIsThePlanned, Result
  <2> QED
    BY <1>1, <1>3, <1>5, <2>1, <2>4, <2>5, <2>6, <2>7, <2>8, ResultMoves DEF TypeOK
<1>7. CASE pending # command.result
  <2>1. acknowledged' = acknowledged
    BY <1>7 DEF Acknowledge
  <2>2. Phased'
    BY <1>2, <1>3, <1>4, <1>5, <1>7, <2>1 DEF Phased
  <2>3. /\ faults' \in 0 .. MaxFaults /\ edits' \in 0 .. MaxEdits /\ proved' \subseteq Records
        /\ proved \subseteq proved' /\ UNCHANGED <<url, evidence, store, clock>>
    BY <1>1, <1>3, <2>1 DEF bounds, TypeOK, store, spool
  <2> QED
    BY <1>5, <2>2, <2>3, Remembers
<1> QED
  BY <1>6, <1>7

LEMMA DropPendingKeeps == Inv /\ DropPending /\ Watch => Inv'
<1> SUFFICES ASSUME Inv, DropPending, Watch
             PROVE  Inv'
  OBVIOUS
<1>1. /\ command # Idle /\ command \in Commands /\ command.phase = "drop_pending"
      /\ command.todo = <<>> /\ Phased /\ TypeOK /\ Stored
  BY Ended DEF DropPending
<1>2. /\ command.identity = NoPlan /\ command.result \in receipts /\ staged = NoResult
      /\ acknowledged # NoResult
  BY <1>1 DEF Phased
<1>3. /\ pending' = NoResult
      /\ UNCHANGED <<url, ledger, guard, evidence, journal, staged, manifests, receipts,
                     acknowledged, continuation, bounds, planned, proved>>
  BY DEF DropPending
<1>4. /\ command' \in Commands /\ command' # Idle /\ command'.phase = "drop_plan"
      /\ command'.todo = <<>> /\ command'.identity = command.identity
      /\ command'.result = command.result
  BY Entered DEF DropPending, Phases
<1>5. command.result # NoResult
  BY <1>1, <1>2, NoResultIsNone DEF TypeOK
<1>6. Phased'
  BY <1>2, <1>3, <1>4, <1>5 DEF Phased
<1>7. SpoolIsBound' /\ LedgerIsPlanned' /\ GuardIsPlanned'
  BY <1>1, <1>2, <1>3 DEF Stored, SpoolIsBound, LedgerIsPlanned, GuardIsPlanned, Unfinished, Result
<1>8. ResultIsThePlanned'
  BY <1>1, <1>3 DEF Stored, ResultIsThePlanned, Result
<1> QED
  BY <1>1, <1>3, <1>4, <1>6, <1>7, <1>8, ResultMoves DEF TypeOK

\* A consumed result announces the content of the candidate it was made for.
LEMMA PlannedAnnounces ==
  ASSUME NEW c \in Continuations, WellPlanned(c), Result(c) \in receipts,
         c.event # NoEvent \/ c.candidate.state = "needs_agent"
  PROVE  Announced(c.candidate.content)
<1>1. PICK events : events = PlannedEvents(c)
  OBVIOUS
<1>2. events \in Seq(Events) /\ \A i \in 1 .. Len(events) : events[i].record = c.candidate
  BY <1>1, ResultTyped
<1>3. Len(events) > 0
  <2>1. PICK s, t : /\ s = IF c.event = NoEvent THEN <<>> ELSE <<c.event>>
                    /\ t = Handoffs(c.candidate)
    OBVIOUS
  <2>2. events = s \o t
    BY <1>1, <2>1 DEF PlannedEvents
  <2>3. PICK x, h : x = c.event /\ h = Handoff(c.candidate)
    OBVIOUS
  <2>4. (s = <<>> \/ s = <<x>>) /\ (t = <<>> \/ t = <<h>>)
    BY <2>1, <2>3 DEF Handoffs
  <2>5. s # <<>> \/ t # <<>>
    <3>1. CASE c.event # NoEvent
      BY <2>1, <3>1
    <3>2. CASE c.candidate.state = "needs_agent"
      BY <2>1, <3>2 DEF Handoffs
    <3> QED
      BY <3>1, <3>2
  <2>6. PICK S : x \in S /\ h \in S
    <3>1. x \in {x, h} /\ h \in {x, h}
      OBVIOUS
    <3> QED
      BY <3>1
  <2>7. s \in Seq(S) /\ t \in Seq(S)
    <3>1. <<>> \in Seq(S) /\ <<x>> \in Seq(S) /\ <<h>> \in Seq(S)
      BY <2>6
    <3> QED
      BY <2>4, <3>1
  <2>8. Len(s) \in Nat /\ Len(t) \in Nat /\ (s # <<>> => Len(s) > 0) /\ (t # <<>> => Len(t) > 0)
    BY <2>7
  <2>9. Joined(s, t, events)
    BY <2>2 DEF Joined
  <2>10. Len(events) = Len(s) + Len(t)
    BY <2>7, <2>9, JoinedParts
  <2> QED
    BY <2>5, <2>8, <2>10
<1>4. 1 \in DOMAIN events /\ events[1].record = c.candidate
  BY <1>2, <1>3
<1>5. Result(c).events = [i \in DOMAIN events |-> Public(events[i])]
  BY <1>1 DEF Result, PlannedEvents
<1>6. 1 \in DOMAIN Result(c).events /\ Result(c).events[1].content = c.candidate.content
  BY <1>4, <1>5 DEF Public
<1> QED
  BY <1>6 DEF Announced

LEMMA DropPlanKeeps == Inv /\ DropPlan /\ Watch => Inv'
<1> SUFFICES ASSUME Inv, DropPlan, Watch
             PROVE  Inv'
  OBVIOUS
<1>1. /\ command # Idle /\ command \in Commands /\ command.phase = "drop_plan"
      /\ command.todo = <<>> /\ Phased /\ TypeOK /\ Stored
  BY Ended DEF DropPlan
<1>2. /\ command.result \in receipts /\ staged = NoResult
      /\ acknowledged # NoResult /\ pending # command.result
  BY <1>1 DEF Phased
<1>3. /\ UNCHANGED <<url, ledger, guard, evidence, spool, bounds, planned, proved>>
      /\ UNCHANGED <<archive, output, journal, staged, manifests, pending, receipts, acknowledged>>
      /\ UNCHANGED <<clock, faults, edits>>
      /\ command' = Idle /\ faults' \in 0 .. MaxFaults
  BY <1>1 DEF DropPlan, evidence, spool, bounds, TypeOK
<1>4. CASE ~MayDrop
  <2>1. continuation' = continuation
    BY <1>4 DEF DropPlan
  <2> QED
    BY <1>3, <2>1, Stops
<1>5. CASE MayDrop
  <2>1. /\ continuation' = NoPlan /\ continuation # NoPlan
        /\ acknowledged.of = continuation /\ command.result = Result(continuation)
    BY <1>5 DEF DropPlan, MayDrop
  <2>2. /\ continuation \in Continuations /\ WellPlanned(continuation)
        /\ ledger = continuation.candidate /\ guard = NoGuard
        /\ pending = NoResult
    BY <1>1, <1>2, <2>1 DEF Stored, TypeOK, PlansAreTimely, LedgerIsPlanned, Unfinished, SpoolIsBound
  <2>3. TypeOK'
    BY <1>1, <1>3, <2>1, Watching DEF TypeOK
  <2>4. JournalIsKnown'
    <3>1. CASE journal = NoJournal
      BY <1>3, <3>1 DEF JournalIsKnown
    <3>2. CASE journal # NoJournal
      <4>1. journal.log = <<>>
        BY <1>1, <1>2, <2>1, <3>2 DEF Stored, SpoolIsBound
      <4>2. Len(journal.log) = 0
        BY <4>1
      <4> QED
        BY <1>3, <4>2 DEF JournalIsKnown
    <3> QED
      BY <3>1, <3>2
  <2>5. SpoolIsBound'
    <3>1. acknowledged.of # NoPlan
      BY <2>1
    <3> QED
      BY <1>1, <1>2, <1>3, <2>1, <2>2, <3>1 DEF Stored, SpoolIsBound
  <2>6. LedgerIsPlanned' /\ GuardIsPlanned' /\ PlansAreTimely' /\ ActiveWasProved' /\ HandedOver'
    BY <1>1, <1>3, <2>1, <2>2
       DEF Stored, LedgerIsPlanned, GuardIsPlanned, PlansAreTimely, ActiveWasProved, HandedOver
  <2>7. ledger.active \/ ledger.state = "needs_agent" => Announced(ledger.content)
    <3>1. CASE continuation.event # NoEvent \/ continuation.candidate.state = "needs_agent"
      BY <1>2, <2>1, <2>2, <3>1, PlannedAnnounces
    <3>2. CASE continuation.event = NoEvent /\ continuation.candidate.state # "needs_agent"
      BY <1>1, <2>1, <2>2, <3>2 DEF Stored, LiveIsAnnounced
    <3> QED
      BY <3>1, <3>2
  <2>8. LiveIsAnnounced'
    BY <1>3, <2>1, <2>7 DEF LiveIsAnnounced, Announced
  <2>9. ResultIsThePlanned'
    BY <1>1, <1>3 DEF Stored, ResultIsThePlanned, Result
  <2> QED
    BY <1>3, <2>3, <2>4, <2>5, <2>6, <2>8, <2>9 DEF Inv, Stored
<1> QED
  BY <1>4, <1>5

LEMMA RegisterKeeps == Inv /\ Register /\ Watch => Inv'
<1> SUFFICES ASSUME Inv, Register, Watch
             PROVE  Inv'
  OBVIOUS
<1>1. /\ Stored /\ TypeOK /\ continuation = NoPlan /\ guard = NoGuard
      /\ ledger \in Records /\ ledger.state = "needs_agent" /\ command' = Idle
  BY DEF Inv, Stored, TypeOK, Register, NoContinuation
<1>2. /\ UNCHANGED <<url, guard, archive, continuation, planned>>
      /\ UNCHANGED <<journal, staged, manifests, pending, receipts, acknowledged>>
      /\ UNCHANGED <<clock, faults, edits>>
      /\ proved' = proved \union {ledger'}
  BY DEF Register, spool, bounds
<1>3. ledger.content \in Bodies /\ Announced(ledger.content)
  BY <1>1, NoRecordIsNone DEF Stored, HandedOver, LiveIsAnnounced
<1>4. PICK r : r = Activated(ledger)
  OBVIOUS
<1>5. r \in Records /\ r.active /\ r.content = ledger.content /\ r.state = "ok"
  BY <1>1, <1>3, <1>4, MadeActive
<1>6. ledger' = r
  BY <1>4 DEF Register
<1>7. output' \in [Bodies -> Files]
  BY <1>1 DEF Register, TypeOK, Files
<1>8. TypeOK'
  BY <1>1, <1>2, <1>5, <1>6, <1>7, Watching DEF TypeOK
<1>9. JournalIsKnown' /\ SpoolIsBound' /\ PlansAreTimely' /\ ResultIsThePlanned'
  BY <1>1, <1>2 DEF Stored, JournalIsKnown, SpoolIsBound, PlansAreTimely, ResultIsThePlanned, Result
<1>10. LedgerIsPlanned' /\ GuardIsPlanned'
  BY <1>1, <1>2 DEF LedgerIsPlanned, GuardIsPlanned
<1>11. ActiveWasProved' /\ HandedOver'
  BY <1>2, <1>5, <1>6 DEF ActiveWasProved, HandedOver
<1>12. LiveIsAnnounced'
  BY <1>1, <1>2, <1>3, <1>5, <1>6 DEF LiveIsAnnounced, Announced
<1> QED
  BY <1>1, <1>8, <1>9, <1>10, <1>11, <1>12 DEF Inv, Stored

LEMMA SyncKeeps == Inv /\ (SyncInterrupted \/ SyncRecovers) /\ Watch => Inv'
<1> SUFFICES ASSUME Inv, SyncInterrupted \/ SyncRecovers, Watch
             PROVE  Inv'
  OBVIOUS
<1>1. /\ UNCHANGED <<url, ledger, guard, evidence, staged, manifests, pending, receipts,
                     acknowledged, continuation, clock, edits, planned, proved>>
      /\ command' = Idle
  BY DEF SyncInterrupted, SyncRecovers, bounds
<1>2. faults' \in 0 .. MaxFaults
  BY BoundsAreNaturals DEF SyncInterrupted, SyncRecovers, bounds, Inv, Stored, TypeOK
<1>3. CASE SyncInterrupted
  <2>1. PICK none : none = <<>>
    OBVIOUS
  <2>2. none \in Logs /\ Len(none) = 0
    BY <2>1 DEF Logs
  <2>3. journal' = [command |-> "sync", at |-> 0, log |-> none] /\ pending = NoResult
    BY <1>3, <2>1 DEF SyncInterrupted
  <2>4. journal' \in Journals /\ journal'.log = none
    BY <2>2, <2>3, BoundsAreNaturals DEF Journals
  <2>5. JournalIsKnown'
    BY <2>2, <2>4 DEF JournalIsKnown
  <2> QED
    BY <1>1, <1>2, <2>1, <2>3, <2>4, <2>5, JournalMoves
<1>4. CASE SyncRecovers
  <2>1. journal' = NoJournal
    BY <1>4 DEF SyncRecovers
  <2>2. JournalIsKnown'
    BY <2>1 DEF JournalIsKnown
  <2> QED
    BY <1>1, <1>2, <2>1, <2>2, JournalMoves
<1> QED
  BY <1>3, <1>4

\* A command that is not touched stays where it is while what it wrote stays.
LEMMA PhasedStays ==
  ASSUME Phased, UNCHANGED <<command, store, clock>>, proved \subseteq proved',
         Offering => Offering'
  PROVE  Phased'
<1>1. /\ UNCHANGED <<ledger, guard, journal, staged, manifests, pending, receipts, acknowledged,
                     continuation, planned>>
      /\ UNCHANGED <<command, clock>>
  BY DEF store, spool
<1>2. CapturedRecord' = CapturedRecord
  BY <1>1 DEF CapturedRecord
<1>3. Capturing => Capturing'
  BY <1>1 DEF Capturing
<1>4. Resumed => Resumed'
  BY <1>1 DEF Resumed
<1>5. Ready => Ready'
  BY <1>1, <1>3, <1>4 DEF Ready
<1>6. \A s, i : Following(s, i) => Following(s, i)'
  BY <1>1 DEF Following
<1>7. ExtractScript' = ExtractScript /\ StillScript' = StillScript
  BY <1>1, <1>2 DEF ExtractScript, StillScript
<1>8. InExtract => InExtract'
  BY <1>1, <1>2, <1>5, <1>6, <1>7 DEF InExtract
<1>9. \A r, e : PlanMade(r, e) => PlanMade(r, e)'
  BY <1>1 DEF PlanMade, Unfinished
<1>10. \A i : Still(i) => Still(i)'
  <2> TAKE i
  <2>1. StillHolds(i) => StillHolds(i)'
    BY <1>1, <1>2, <1>5, <1>9 DEF StillHolds, StillActive
  <2> QED
    BY <1>6, <1>7, <2>1 DEF Still
<1>11. \A first, r, i : Plain(first, r, i) => Plain(first, r, i)'
  <2> TAKE first, r, i
  <2>1. PlainHolds(r, i) => PlainHolds(r, i)'
    BY <1>1, <1>5, <1>9 DEF PlainHolds
  <2> QED
    BY <1>6, <2>1 DEF Plain
<1>12. \A before, rollback, i : Activating(before, rollback, i) => Activating(before, rollback, i)'
  <2> TAKE before, rollback, i
  <2>1. ActivationHolds(before, rollback, i) => ActivationHolds(before, rollback, i)'
    BY <1>1, <1>3, <1>5, <1>9 DEF ActivationHolds
  <2> QED
    BY <1>6, <2>1 DEF Activating
<1>13. \A parts, before, rollback :
          Beginning(parts, before, rollback) => Beginning(parts, before, rollback)'
  BY <1>1, <1>5 DEF Beginning
<1>14. \A first, r : Underives(first, r) => Underives(first, r)'
  BY <1>1, <1>2 DEF Underives, Unsupportable, UnderivedRecord
<1>15. \A before, rollback : RollsBack(before, rollback) => RollsBack(before, rollback)'
  BY <1>1, <1>2 DEF RollsBack
<1>16. Firsts' = Firsts /\ WithoutDerivation' = WithoutDerivation
  BY <1>1, <1>2 DEF Firsts, WithoutDerivation, Unsupportable, UnderivedRecord
<1>17. InDerivation => InDerivation'
  BY <1>1, <1>2, <1>10, <1>11, <1>12, <1>13, <1>14, <1>15, <1>16 DEF InDerivation
<1>18. (TakingBack => TakingBack') /\ (Deactivating => Deactivating')
  BY <1>1, <1>2 DEF TakingBack, Deactivating, Unfinished
<1>19. (JournalIsPlanned => JournalIsPlanned') /\ (Completing => Completing')
  BY <1>1 DEF JournalIsPlanned, Completing
<1>20. InStage => InStage'
  BY <1>1, <1>19 DEF InStage
<1>21. Result(continuation)' = Result(continuation)
  BY <1>1 DEF Result
<1>22. /\ command'.phase \notin {"extract", "reuse", "process", "failing", "recover", "stage"} =>
            command'.todo = <<>>
       /\ command'.phase = "recover" =>
            /\ command'.identity \in Identities /\ ~command'.live
            /\ command'.todo = <<>> \/ TakingBack'
       /\ command'.phase = "failing" => TakingBack' \/ Deactivating'
       /\ command'.phase \in {"journal", "capture", "captured"} =>
            Capturing' /\ ledger' = command'.before
       /\ (command'.phase = "journal" /\ journal' # NoJournal => Resumed')
       /\ command'.phase \in {"capture", "captured"} => Resumed'
       /\ command'.phase = "captured" => command'.body \in Bodies
       /\ command'.phase = "extract" => InExtract'
       /\ command'.phase \in {"reuse", "process"} => InDerivation'
  BY <1>1, <1>3, <1>4, <1>8, <1>17, <1>18 DEF Phased
<1> QED
  BY <1>1, <1>19, <1>20, <1>21, <1>22 DEF Phased

LEMMA EditKeeps == Inv /\ Edit /\ Watch => Inv'
<1> SUFFICES ASSUME Inv, Edit, Watch
             PROVE  Inv'
  OBVIOUS
<1>1. /\ UNCHANGED <<ledger, guard, spool, continuation, command, clock, faults, planned, proved>>
      /\ UNCHANGED <<store, clock, proved, command, pending>>
  BY DEF Edit, store, spool
<1>2. edits' \in 0 .. MaxEdits /\ faults' \in 0 .. MaxFaults
  BY <1>1, BoundsAreNaturals DEF Edit, Inv, Stored, TypeOK
<1>3. url' \in Urls /\ archive' \in [Bodies -> Files] /\ output' \in [Bodies -> Files]
  BY DEF Edit, Inv, Stored, TypeOK, Files, evidence
<1>4. command' = Idle \/ (command' \in Commands /\ Phased')
  <2>1. CASE command = Idle
    BY <1>1, <2>1
  <2>2. CASE command # Idle
    <3>1. command \in Commands /\ Phased
      BY <2>2, Typing
    <3>2. Offering => Offering'
      BY <1>1, <2>2, StaysSeen
    <3>3. Phased'
      BY <1>1, <3>1, <3>2, PhasedStays
    <3> QED
      BY <1>1, <3>1, <3>3
  <2> QED
    BY <2>1, <2>2
<1> QED
  BY <1>1, <1>2, <1>3, <1>4, EvidenceMoves

LEMMA StutterKeeps == Inv /\ UNCHANGED vars => Inv'
<1> SUFFICES ASSUME Inv, UNCHANGED vars
             PROVE  Inv'
  OBVIOUS
<1>1. /\ UNCHANGED <<url, ledger, guard, archive, output, continuation, command, planned, proved, intact>>
      /\ UNCHANGED <<journal, staged, manifests, pending, receipts, acknowledged>>
      /\ UNCHANGED <<clock, faults, edits, store>>
  BY DEF vars, evidence, spool, bounds, store
<1>2. TypeOK'
  BY <1>1 DEF Inv, Stored, TypeOK
<1>3. Stored'
  BY <1>1, <1>2, StoredStays DEF Inv
<1>4. command # Idle => Phased'
  <2>1. Offering => Offering'
    BY <1>1 DEF Offering
  <2> QED
    BY <1>1, <2>1, PhasedStays DEF Inv
<1> QED
  BY <1>1, <1>3, <1>4 DEF Inv

LEMMA InitHolds == Init => Inv
<1> SUFFICES ASSUME Init
             PROVE  Inv
  OBVIOUS
<1>1. TypeOK
  <2>1. 0 \in 0 .. MaxTime /\ 0 \in 0 .. MaxFaults /\ 0 \in 0 .. MaxEdits
    BY BoundsAreNaturals
  <2>2. archive \in [Bodies -> Files] /\ output \in [Bodies -> Files]
    BY DEF Init, Files
  <2> QED
    BY <2>1, <2>2 DEF Init, TypeOK
<1>2. JournalIsKnown /\ SpoolIsBound /\ LedgerIsPlanned /\ GuardIsPlanned
  BY DEF Init, JournalIsKnown, SpoolIsBound, LedgerIsPlanned, GuardIsPlanned
<1>3. PlansAreTimely /\ ActiveWasProved /\ HandedOver /\ LiveIsAnnounced /\ ResultIsThePlanned
  BY DEF Init, PlansAreTimely, ActiveWasProved, HandedOver, LiveIsAnnounced, ResultIsThePlanned
<1> QED
  BY <1>1, <1>2, <1>3 DEF Inv, Stored, Init

LEMMA PlanStepsKeep == Inv /\ PlanSteps /\ Watch => Inv'
BY EmitStepKeeps, PlanStepKeeps, GuardStepKeeps, SaveStepKeeps, ReadStepKeeps, ClearStepKeeps,
   CommitStepKeeps, ReadFailsKeeps DEF PlanSteps

LEMMA CommandStepKeeps == Inv /\ CommandStep /\ Watch => Inv'
<1> SUFFICES ASSUME Inv, CommandStep, Watch
             PROVE  Inv'
  OBVIOUS
<1>1. CASE Recover \/ Resume \/ Open \/ OpenJournal \/ \E b \in Bodies : Capture(b)
  BY <1>1, RecoverKeeps, ResumeKeeps, OpenKeeps, OpenJournalKeeps, CaptureKeeps
<1>2. CASE Refuse \/ OtherJournal \/ CaptureFails \/ FinishRefused \/ PublishRefused \/ DropRefused
  BY <1>2, RefusalKeeps
<1>3. CASE Reuse \/ Retain \/ HandOver \/ Fail \/ Derive \/ DeriveAgain \/ Captured
  BY <1>3, ReuseKeeps, RetainKeeps, HandOverKeeps, DeriveKeeps, DeriveAgainKeeps, CapturedKeeps
<1>4. CASE Finish \/ PublishAnew \/ Publish \/ Stage \/ Finalize \/ SavePending
  BY <1>4, FinishKeeps, PublishAnewKeeps, PublishKeeps, StageKeeps, FinalizeKeeps, SavePendingKeeps
<1>5. CASE DropJournal \/ DropStaged \/ Acknowledge \/ DropPending \/ DropPlan
  BY <1>5, DropJournalKeeps, DropStagedKeeps, AcknowledgeKeeps, DropPendingKeeps, DropPlanKeeps
<1> QED
  BY <1>1, <1>2, <1>3, <1>4, <1>5 DEF CommandStep

LEMMA NextKeeps == Inv /\ [Next]_vars => Inv'
<1> SUFFICES ASSUME Inv, [Next]_vars
             PROVE  Inv'
  OBVIOUS
<1>1. CASE UNCHANGED vars
  BY <1>1, StutterKeeps
<1>2. CASE Next
  <2>1. Step /\ Watch
    BY <1>2 DEF Next
  <2>2. CASE PlanSteps \/ CommandStep \/ StepFails \/ Stop
    BY <2>1, <2>2, PlanStepsKeep, CommandStepKeeps, StepFailsKeeps, StopKeeps
  <2>3. CASE \E request \in Requests : Start(request)
    BY <2>1, <2>3, StartKeeps
  <2>4. CASE \E m \in manifests : Consume(m) \/ StartAcknowledge(m) \/ StartReacknowledge(m)
    BY <2>1, <2>4, ConsumeKeeps, StartAcknowledgeKeeps
  <2>5. CASE Register \/ SyncInterrupted \/ SyncRecovers \/ Edit
    BY <2>1, <2>5, RegisterKeeps, SyncKeeps, EditKeeps
  <2> QED
    BY <2>1, <2>2, <2>3, <2>4, <2>5 DEF Step
<1> QED
  BY <1>1, <1>2

-----------------------------------------------------------------------------
(* The theorems.                                                           *)

\* The inductive invariant.
LEMMA Invariant == Spec => []Inv
<1>1. Init => Inv
  BY InitHolds
<1>2. Inv /\ [Next]_vars => Inv'
  BY NextKeeps
<1> QED
  BY <1>1, <1>2, PTL DEF Spec

\* Every value stored or remembered has its type, and the results point at what
\* was saved before them: the staged one at a saved continuation, the pending and
\* the consumed ones at a finalized manifest (SnapshotContinuation, the spool).
THEOREM TypeCorrect == Spec => []TypeOK
<1>1. Inv => TypeOK
  BY DEF Inv, Stored
<1> QED
  BY <1>1, Invariant, PTL

\* Every finalized result is the one of a continuation that was saved: whatever an
\* earlier, failed capture left in a resumed journal, and wherever a crash fell,
\* the selection of finalize leaves exactly the planned events
\* (snapshot_journal_digests, _require_snapshot_reference).
THEOREM PlannedResults == Spec => []ResultIsThePlanned
<1>1. Inv => ResultIsThePlanned
  BY DEF Inv, Stored
<1> QED
  BY <1>1, Invariant, PTL

\* With no command and no guard, an active derivation is one whose evidence was
\* read after a checkpoint that made it active (_compensate, _reuse_derivation).
THEOREM ActiveProved == Spec => []ActiveIsProved
<1>1. Inv => ActiveIsProved
  BY DEF Inv, Stored, ActiveWasProved, ActiveIsProved
<1> QED
  BY <1>1, Invariant, PTL

\* Once its continuation is gone, what is active was in a result its client has
\* consumed (_finish_snapshot_continuation, clear_snapshot_continuation).
THEOREM ActiveConsumed == Spec => []ActiveIsAnnounced
<1>1. Inv => ActiveIsAnnounced
  BY DEF Inv, Stored, LiveIsAnnounced, Announced, ActiveIsAnnounced
<1> QED
  BY <1>1, Invariant, PTL

\* Every checkpoint while a plan stands is of its candidate or falls back from it.
LEMMA PlannedSaves ==
  ASSUME Inv, SaveStep, continuation # NoPlan
  PROVE  \/ ledger' = continuation.candidate
         \/ ledger' = [continuation.candidate EXCEPT !.active = FALSE,
                          !.derived = ledger'.derived, !.state = ledger'.state]
<1>1. \/ Taking \/ Losing \/ Extracts(1) \/ Extracts(3) \/ Stays(3)
      \/ \E first, r : Plainly(first, r, 1)
      \/ \E first, r : Plainly(first, r, 3)
      \/ \E before, rollback : Activates(before, rollback, 4)
  <2> HIDE DEF Taking, Losing, Commits, Extracts, Stays, Plainly, Begins, Activates
  <2> QED
    BY Kinds DEF SaveStep
<1>2. /\ command # Idle /\ command.todo # <<>> /\ Head(command.todo).do = "save"
      /\ ledger' = Head(command.todo).record /\ ledger' \in Records
  BY HeadTyped DEF SaveStep, NextIs
<1>3. ~Ready
  BY DEF Ready, Capturing
<1>4. continuation.candidate \in Records
  BY DEF Inv, Stored, TypeOK, Continuations
<1>5. CASE Taking
  <2>1. command.todo = <<Save(guard.rollback), Clear(guard.rollback)>> /\ guard # NoGuard
    BY <1>2, <1>5 DEF Taking, TakingBack, Save, Clear
  <2>2. PICK a, b : a = Save(guard.rollback) /\ b = Clear(guard.rollback)
    OBVIOUS
  <2>3. command.todo = <<a, b>>
    BY <2>1, <2>2
  <2>4. Head(command.todo) = a
    BY <2>3
  <2>5. ledger' = guard.rollback
    BY <1>2, <2>2, <2>4 DEF Save
  <2>6. ~guard.rollback.active /\ continuation.candidate = Activated(guard.rollback)
    BY <2>1 DEF Inv, Stored, GuardIsPlanned
  <2> QED
    BY <1>2, <2>5, <2>6, Deactivates
<1>6. CASE Losing
  <2>1. PICK a : a = Save(CapturedRecord)
    OBVIOUS
  <2>2. /\ command.todo = <<a>> /\ command.before \in Records
        /\ continuation.candidate = Activated(CapturedRecord)
    BY <1>6, <2>1 DEF Losing, Deactivating
  <2>3. Head(command.todo) = a
    BY <2>2
  <2>4. ledger' = CapturedRecord /\ ~CapturedRecord.active
    BY <1>2, <2>1, <2>2, <2>3, Inactive DEF Save
  <2> QED
    BY <1>2, <2>2, <2>4, Deactivates
<1>7. CASE Extracts(1) \/ Extracts(3)
  BY <1>3, <1>7 DEF Extracts
<1>8. CASE Stays(3)
  <2>1. PICK r : r = Activated(CapturedRecord)
    OBVIOUS
  <2>2. PlanMade(r, NoEvent) /\ Head(command.todo) = Save(r)
    BY <1>8, <2>1 DEF Stays, Still, StillHolds, At, StillScript
  <2> QED
    BY <1>2, <2>2 DEF PlanMade, Save
<1>9. ASSUME NEW first, NEW r, Plainly(first, r, 1)
      PROVE  FALSE
  BY <1>3, <1>9 DEF Plainly, Plain, PlainHolds
<1>10. ASSUME NEW first, NEW r, Plainly(first, r, 3)
       PROVE  ledger' = continuation.candidate
  <2>1. PlanMade(r, NoEvent) /\ Head(command.todo) = Save(r)
    BY <1>10 DEF Plainly, Plain, PlainHolds, At
  <2> QED
    BY <1>2, <2>1 DEF PlanMade, Save
<1>11. ASSUME NEW before, NEW rollback, Activates(before, rollback, 4)
       PROVE  ledger' = continuation.candidate
  <2>1. PICK final : final = Activated(rollback)
    OBVIOUS
  <2>2. PlanMade(final, Activation(final))
    BY <1>11, <2>1 DEF Activates, Activating, ActivationHolds
  <2>3. Head(command.todo) = Save(final)
    BY <1>11, <2>1, ActivationSteps DEF Activates, At
  <2> QED
    BY <1>2, <2>2, <2>3 DEF PlanMade, Save
<1> HIDE DEF Taking, Losing, Extracts, Stays, Plainly, Activates
<1> QED
  BY <1>1, <1>5, <1>6, <1>7, <1>8, <1>9, <1>10, <1>11

\* While a continuation stands the record is only its candidate or what the guard
\* or the failed capture falls back to, and only its own acknowledged result ends
\* it (require_no_snapshot_continuation, clear_snapshot_continuation).
THEOREM PlanKept == Spec => PlanStands
<1> DEFINE Stands ==
      continuation # NoPlan =>
          /\ continuation' \in {continuation, NoPlan}
          /\ continuation' = NoPlan => acknowledged.of = continuation
          /\ ledger' # ledger =>
                \/ ledger' = continuation.candidate
                \/ ledger' = [continuation.candidate EXCEPT !.active = FALSE,
                                 !.derived = ledger'.derived, !.state = ledger'.state]
<1>1. ASSUME Inv, Next, continuation # NoPlan
      PROVE  Stands
  <2>1. CASE UNCHANGED <<continuation, ledger>>
    BY <1>1, <2>1
  <2>2. CASE SaveStep
    <3>1. continuation' = continuation
      BY <2>2 DEF SaveStep
    <3> QED
      BY <1>1, <2>2, <3>1, PlannedSaves
  <2>3. CASE DropPlan
    BY <2>3 DEF DropPlan, MayDrop
  <2>4. Step
    BY <1>1 DEF Next
  <2>5. PlanSteps => UNCHANGED <<continuation, ledger>> \/ SaveStep
    BY <1>1 DEF PlanSteps, EmitStep, PlanStep, GuardStep, ReadStep, ClearStep, CommitStep, ReadFails
  <2>6. CommandStep => UNCHANGED <<continuation, ledger>> \/ DropPlan
    BY <1>1 DEF CommandStep, Recover, Resume, Open, MayCapture, Refuse, OpenJournal, OtherJournal,
       CaptureFails, Reuse, Retain, HandOver, Fail, Derive, DeriveAgain, Captured, Capture, Finish,
       FinishRefused, FinishStops, PublishAnew, Publish, PublishRefused, Stage, Finalize, SavePending,
       DropJournal, DropRefused, DropStaged, Acknowledge, DropPending
  <2>7. StepFails \/ Stop => UNCHANGED <<continuation, ledger>>
    BY DEF StepFails, Stop
  <2>8. ASSUME NEW request, Start(request)
        PROVE  UNCHANGED <<continuation, ledger>>
    BY <2>8 DEF Start
  <2>9. ASSUME NEW m, Consume(m) \/ StartAcknowledge(m) \/ StartReacknowledge(m)
        PROVE  UNCHANGED <<continuation, ledger>>
    BY <2>9 DEF Consume, StartAcknowledge, StartReacknowledge
  <2>10. Register \/ SyncInterrupted \/ SyncRecovers \/ Edit => UNCHANGED <<continuation, ledger>>
    BY <1>1 DEF Register, SyncInterrupted, SyncRecovers, NoContinuation, Edit
  <2> HIDE DEF Stands
  <2> QED
    BY <2>1, <2>2, <2>3, <2>4, <2>5, <2>6, <2>7, <2>8, <2>9, <2>10 DEF Step
<1>2. Inv /\ [Next]_vars => [Stands]_vars
  BY <1>1
<1> HIDE DEF Stands
<1>3. Spec => [][Stands]_vars
  BY <1>2, Invariant, PTL DEF Spec
<1> QED
  BY <1>3 DEF PlanStands, Stands

\* A result becomes pending only when its evidence was seen whole during the very
\* command that offers it (_finish_snapshot_continuation).
THEOREM OfferedWhole == Spec => OfferedIsWhole
<1> DEFINE Offered == pending' # pending /\ pending' # NoResult => intact'
<1>1. ASSUME Inv, Next
      PROVE  Offered
  <2>1. CASE UNCHANGED pending
    BY <2>1
  <2>2. CASE SavePending
    <3>1. command # Idle /\ Offering
      BY <1>1, <2>2, Ended DEF SavePending, Phased
    <3>2. command' # Idle
      BY <1>1, <2>2, Entered DEF SavePending, Phases
    <3>3. continuation' = continuation /\ continuation # NoPlan /\ intact
      BY <2>2, <3>1 DEF SavePending, Offering
    <3> QED
      BY <1>1, <3>1, <3>2, <3>3 DEF Next, Watch
  <2>3. CASE DropPending
    BY <2>3 DEF DropPending
  <2>4. Step
    BY <1>1 DEF Next
  <2>5. PlanSteps => UNCHANGED pending
    BY DEF PlanSteps, EmitStep, PlanStep, GuardStep, SaveStep, ReadStep, ClearStep, CommitStep,
       ReadFails, spool
  <2>6. CommandStep => UNCHANGED pending \/ SavePending \/ DropPending
    BY DEF CommandStep, Recover, Resume, Open, Refuse, OpenJournal, OtherJournal,
       CaptureFails, Reuse, Retain, HandOver, Fail, Derive, DeriveAgain, Captured, Capture, Finish,
       FinishRefused, FinishStops, PublishAnew, Publish, PublishRefused, Stage, Finalize,
       DropJournal, DropRefused, DropStaged, Acknowledge, DropPlan, spool
  <2>7. StepFails \/ Stop => UNCHANGED pending
    BY DEF StepFails, Stop, spool
  <2>8. ASSUME NEW request, Start(request)
        PROVE  UNCHANGED pending
    BY <2>8 DEF Start, spool
  <2>9. ASSUME NEW m, Consume(m) \/ StartAcknowledge(m) \/ StartReacknowledge(m)
        PROVE  UNCHANGED pending
    BY <2>9 DEF Consume, StartAcknowledge, StartReacknowledge, spool
  <2>10. Register \/ SyncInterrupted \/ SyncRecovers \/ Edit => UNCHANGED pending
    BY DEF Register, SyncInterrupted, SyncRecovers, Edit, spool
  <2> HIDE DEF Offered
  <2> QED
    BY <2>1, <2>2, <2>3, <2>4, <2>5, <2>6, <2>7, <2>8, <2>9, <2>10 DEF Step
<1>2. Inv /\ [Next]_vars => [Offered]_vars
  BY <1>1
<1> HIDE DEF Offered
<1>3. Spec => [][Offered]_vars
  BY <1>2, Invariant, PTL DEF Spec
<1> QED
  BY <1>3 DEF OfferedIsWhole, Offered
=============================================================================
