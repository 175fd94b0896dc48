--------------------------- MODULE SyncDeliveryProofs ---------------------------
(* More theorems about SyncResults: what the spool keeps and hands out. *)
EXTENDS SyncResultsProofs, SelectionProofs, SequenceTheorems

\* Whether the result of a journal has an event, for the records the run ended with.
KeptAt(f, log, shards) ==
    /\ f.frame = "event"
    /\ \/ shards[f.event.source] = f.event.record
       \/ ShardCoupled(f.event) /\ Committed(f.event) \in Frames(log)

\* The result a staged run leads to, whenever its finalization is run.
ResultOf(st) ==
    [command |-> st.command, at |-> st.at, corpus |-> st.corpus,
     events |-> SelectIn(st.log, {f \in Frames(st.log) : KeptAt(f, st.log, st.checkpoint)})]

\* The result that has been or will be handed out for the run at hand.
Outstanding ==
    IF pending # NoResult THEN {pending}
    ELSE IF staged # NoResult THEN {ResultOf(staged)} ELSE {}

\* The effects whose commit frame is in a journal.
EffectsIn(log) ==
    {f.event : f \in {g \in Frames(log) : /\ g.frame = "event" /\ ShardCoupled(g.event)
                                          /\ Committed(g.event) \in Frames(log)}}

\* The effects that the run at hand hands out, in the form it has reached.
Carried ==
    IF pending # NoResult THEN EffectsOf(pending)
    ELSE IF staged # NoResult THEN EffectsOf(ResultOf(staged))
    ELSE IF journal # NoJournal THEN EffectsIn(journal.log) ELSE {}

\* Types the steps below need of the spool.
SpoolTyped ==
    /\ manifests \subseteq Results
    /\ staged \in Staged \union {NoResult}

\* Journal, staged run, manifest and pending pointer are one run's: what is left of
\* an interrupted finalization or completion names the same result.
SpoolAgrees ==
    /\ staged # NoResult /\ journal # NoJournal =>
          journal.command = staged.command /\ journal.at = staged.at /\ journal.log = staged.log
    /\ staged # NoResult /\ pending # NoResult => pending = ResultOf(staged)
    /\ staged = NoResult /\ journal # NoJournal => pending = NoResult
    /\ acknowledged # NoResult => acknowledged \in taken \union {pending}
    /\ manifests \ taken \subseteq Outstanding
    /\ Outstanding \intersect taken = {}

\* A run is older than the clock and younger than every result that was taken.
SpoolOrdered ==
    /\ journal # NoJournal => journal.at <= clock
    /\ staged # NoResult => staged.at <= clock
    /\ pending # NoResult => pending.at <= clock
    /\ \A m \in taken : /\ m.at <= clock
                        /\ staged # NoResult => m.at < staged.at
                        /\ journal # NoJournal => m.at < journal.at

\* Effects carry the time of the run that prepared them.
EffectsAt(log, at) == \A f \in Frames(log) : ShardCoupled(f.event) => f.event.record.at = at

\* So a result's effects are its own, and what is owed is on its way.
SpoolEffects ==
    /\ \A m \in manifests : \A e \in EffectsOf(m) : e.record.at = m.at
    /\ staged # NoResult => EffectsAt(staged.log, staged.at)
    /\ journal # NoJournal => EffectsAt(journal.log, journal.at)
    /\ Owed \subseteq Carried

\* Events that hand a source over.
HandsOver(e) == e.kind = "handoff_source_id"

\* Sources are handed over in the state they wait in, and with their work items.
SpoolHandoffs ==
    /\ journal # NoJournal =>
          \A f \in Frames(journal.log) :
              HandsOver(f.event) => f.event.record.state = "needs_agent"
    /\ staged # NoResult =>
          \A e \in Handoffs(ResultOf(staged)) : Item(e.source, e.record) \in handoffs
    /\ HandoffsAreDurable

\* The spool's part of the invariant.
Spool == SpoolTyped /\ SpoolAgrees /\ SpoolOrdered /\ SpoolEffects /\ SpoolHandoffs

\* A planned step of the run at a time: its records are of that time, and it
\* commits only effects it prepared.
StepSpooled(plan, i, at) ==
    LET step == plan[i]
    IN /\ step.do = "save" => step.record.at = at
       /\ step.do = "emit" /\ ShardCoupled(step.event) => step.event.record.at = at
       /\ step.do = "emit" /\ HandsOver(step.event) => step.event.record.state = "needs_agent"
       /\ step.do = "commit" =>
             /\ ShardCoupled(step.event)
             /\ \/ Prepared(step.event) \in Frames(journal.log)
                \/ \E j \in 1 .. i - 1 : plan[j].do = "emit" /\ plan[j].event = step.event

\* Every step of a plan is.
PlanSpooled(plan, at) == \A i \in 1 .. Len(plan) : StepSpooled(plan, i, at)

\* Extractions under way have marked their records in this run.
JobsTimed(jobs, plan, at) ==
    \A s \in jobs :
        \/ ledger[s] \in Records /\ ledger[s].at = at
        \/ \E i \in 1 .. Len(plan) : plan[i].do = "save" /\ plan[i].source = s

\* A command that works on the journal: no result of an earlier run is left.
WorkSpooled(c) ==
    /\ pending = NoResult /\ staged = NoResult
    /\ c.at = journal.at /\ c.name = journal.command
    /\ PlanSpooled(c.plan, c.at)
    /\ c.phase = "reconcile" => JobsTimed(c.jobs, c.plan, c.at)
    /\ c.phase = "observe" =>
          /\ \A i \in 1 .. Len(c.plan) : c.plan[i].do = "emit"
          /\ \A s \in c.todo : NeedsAgent(s)
    /\ c.phase = "published" => DurableItems \subseteq handoffs

\* A command that ends a run: which of its files are left, and whose they are.
EndSpooled(c) ==
    /\ c.phase \in {"finalize", "save_pending"} =>
          /\ pending = NoResult /\ staged # NoResult /\ journal # NoJournal
          /\ staged.checkpoint = ledger
    /\ c.phase = "save_pending" => c.target = ResultOf(staged)
    /\ c.phase = "drop_journal" =>
          \/ c.op \in {"sync", "acknowledge"} /\ pending = c.target
          \/ c.op = "reacknowledge" /\ staged # NoResult /\ c.target \in taken
    /\ c.phase = "drop_staged" =>
          c.op \in {"sync", "acknowledge"} /\ pending = c.target /\ journal = NoJournal
    /\ c.phase \in {"acknowledge", "drop_pending"} =>
          pending = c.target /\ staged = NoResult
    /\ c.phase \in {"drop_journal", "drop_staged", "acknowledge", "drop_pending"} =>
          c.target \in manifests

\* What the phase of a command says of the spool.
CommandSpooled(c) ==
    c # Idle =>
        /\ c.phase \in Working => WorkSpooled(c)
        /\ c.phase \notin {"recover", "reconcile", "observe", "finish", "failing"} => c.plan = <<>>
        /\ EndSpooled(c)

\* The command's part of the invariant.
CommandHolds == CommandSpooled(command)
-----------------------------------------------------------------------------
(* Results.                                                                *)

\* A staged run leads to a result with its own time, and with the events that
\* its journal and checkpoint keep.
LEMMA ResultsOfStaged ==
  ASSUME NEW st \in Staged
  PROVE  /\ ResultOf(st) \in Results /\ ResultOf(st).at = st.at
         /\ \A e : e \in Events(ResultOf(st)) <=>
               \E f \in Frames(st.log) : KeptAt(f, st.log, st.checkpoint) /\ f.event = e
<1> DEFINE wanted == {f \in Frames(st.log) : KeptAt(f, st.log, st.checkpoint)}
           kept == SelectIn(st.log, wanted)
<1>1. st.log \in Seq(FrameSet)
  BY DEF Staged
<1>2. kept \in Seq(FrameSet) /\ \E h : Traces(h, Len(st.log), st.log, wanted, kept)
  BY <1>1, Selection
<1>3. PICK h : Traces(h, Len(st.log), st.log, wanted, kept)
  BY <1>2
<1>4. ResultOf(st) = [command |-> st.command, at |-> st.at, corpus |-> st.corpus, events |-> kept]
  BY DEF ResultOf
<1> HIDE DEF kept
<1>5. ResultOf(st) \in Results /\ ResultOf(st).at = st.at
  BY <1>2, <1>4 DEF Staged, Results
<1>6. Events(ResultOf(st)) = {kept[i].event : i \in 1 .. Len(kept)}
  BY <1>2, <1>4 DEF Events
<1>7. ASSUME NEW i \in 1 .. Len(kept)
      PROVE  \E f \in Frames(st.log) : KeptAt(f, st.log, st.checkpoint) /\ f.event = kept[i].event
  BY <1>3 DEF Traces
<1>8. ASSUME NEW f \in Frames(st.log), KeptAt(f, st.log, st.checkpoint)
      PROVE  \E i \in 1 .. Len(kept) : kept[i].event = f.event
  <2>1. PICK m \in 1 .. Len(st.log) : f = st.log[m]
    BY <1>1 DEF Frames
  <2>2. st.log[m] \in wanted
    BY <1>8, <2>1
  <2>3. PICK i \in 1 .. Len(kept) : h[i] = m
    BY <1>3, <2>2 DEF Traces
  <2>4. kept[i] = st.log[h[i]]
    BY <1>3 DEF Traces
  <2> QED
    BY <2>1, <2>3, <2>4
<1>9. ASSUME NEW e
      PROVE  e \in Events(ResultOf(st)) <=>
               \E f \in Frames(st.log) : KeptAt(f, st.log, st.checkpoint) /\ f.event = e
  <2>1. e \in Events(ResultOf(st)) <=> \E i \in 1 .. Len(kept) : kept[i].event = e
    BY <1>6
  <2> QED
    BY <2>1, <1>7, <1>8, Zenon
<1> QED
  BY <1>5, <1>9

\* What finalize writes is the result of what was staged.
LEMMA FinalizesStaged ==
  ASSUME journal.command = staged.command, journal.at = staged.at, journal.log = staged.log,
         staged.checkpoint = ledger
  PROVE  Manifest(journal.command, journal.at, staged.corpus, journal.log) = ResultOf(staged)
<1>1. \A f : Kept(f, staged.log) <=> KeptAt(f, staged.log, staged.checkpoint)
  BY DEF Kept, KeptAt, IsCurrent
<1>2. {f \in Frames(staged.log) : Kept(f, staged.log)}
        = {f \in Frames(staged.log) : KeptAt(f, staged.log, staged.checkpoint)}
  BY <1>1
<1> QED
  BY <1>2 DEF Manifest, ResultOf

\* The effects of a staged run's result: at its time, and all that was committed.
LEMMA EffectsOfStaged ==
  ASSUME NEW st \in Staged, EffectsAt(st.log, st.at)
  PROVE  /\ \A e \in EffectsOf(ResultOf(st)) : e.record.at = ResultOf(st).at
         /\ EffectsIn(st.log) \subseteq EffectsOf(ResultOf(st))
<1>1. ASSUME NEW e \in EffectsOf(ResultOf(st))
      PROVE  e.record.at = st.at
  <2>1. e \in Events(ResultOf(st)) /\ ShardCoupled(e)
    BY DEF EffectsOf
  <2>2. PICK f \in Frames(st.log) : KeptAt(f, st.log, st.checkpoint) /\ f.event = e
    BY <2>1, ResultsOfStaged
  <2> QED
    BY <2>1, <2>2 DEF EffectsAt
<1>2. ASSUME NEW e \in EffectsIn(st.log)
      PROVE  e \in EffectsOf(ResultOf(st))
  <2>1. PICK f \in Frames(st.log) : f.event = e /\ f.frame = "event" /\ ShardCoupled(e)
                                    /\ Committed(e) \in Frames(st.log)
    BY DEF EffectsIn
  <2>2. KeptAt(f, st.log, st.checkpoint)
    BY <2>1 DEF KeptAt
  <2>3. e \in Events(ResultOf(st))
    BY <2>1, <2>2, ResultsOfStaged
  <2> QED
    BY <2>1, <2>3 DEF EffectsOf
<1> QED
  BY <1>1, <1>2, ResultsOfStaged

-----------------------------------------------------------------------------
(* The spool between the commands' steps.                                  *)

\* Time passes, manifests of handoffs are added, the header is written.
LEMMA SpoolStays ==
  ASSUME Typed, Typed', Spool,
         UNCHANGED <<staged, manifests, pending, acknowledged, taken, committed>>,
         handoffs \subseteq handoffs', clock <= clock',
         journal' # NoJournal <=> journal # NoJournal,
         journal # NoJournal => /\ journal'.command = journal.command /\ journal'.at = journal.at
                                /\ journal'.log = journal.log
  PROVE  Spool'
<1>1. SpoolTyped'
  BY DEF Spool, SpoolTyped
<1>2. SpoolAgrees'
  BY DEF Spool, SpoolAgrees, Outstanding
<1>3. SpoolOrdered'
  <2>1. clock \in Nat /\ clock' \in Nat
    BY DEF Typed, TypeOK
  <2>2. /\ \A m \in taken : m.at <= clock => m.at <= clock'
        /\ journal # NoJournal => journal.at <= clock'
        /\ staged # NoResult => staged.at <= clock'
        /\ pending # NoResult => pending.at <= clock'
    <3>1. taken \subseteq Results
      BY DEF Spool, SpoolTyped, Typed, TypeOK
    <3>2. \A m \in Results : m.at \in Nat
      BY DEF Results
    <3>3. /\ pending # NoResult => pending.at \in Nat /\ pending.at <= clock
          /\ staged # NoResult => staged.at \in Nat /\ staged.at <= clock
          /\ journal # NoJournal => journal.at \in Nat /\ journal.at <= clock
      BY DEF Spool, SpoolTyped, SpoolOrdered, Typed, TypeOK, Journals, Staged, Results
    <3> QED
      BY <2>1, <3>1, <3>2, <3>3
  <2> QED
    BY <2>2 DEF Spool, SpoolOrdered
<1>4. SpoolEffects'
  <2>1. Owed' = Owed
    BY DEF Owed, Delivered
  <2>2. Carried' = Carried
    BY DEF Carried
  <2>3. journal # NoJournal => EffectsAt(journal.log, journal.at)'
    BY DEF Spool, SpoolEffects
  <2> QED
    BY <2>1, <2>2, <2>3 DEF Spool, SpoolEffects
<1>5. SpoolHandoffs'
  BY DEF Spool, SpoolHandoffs, HandoffsAreDurable
<1> QED
  BY <1>1, <1>2, <1>3, <1>4, <1>5 DEF Spool

\* A new journal is younger than whatever was taken.
LEMMA OpenNewSpools ==
  ASSUME Inv, Inv', Spool, OpenNew
  PROVE  Spool'
<1>1. /\ pending = NoResult /\ staged = NoResult /\ journal = NoJournal /\ clock' = clock + 1
      /\ journal' = [command |-> command.name, at |-> clock', header |-> FALSE, log |-> <<>>]
      /\ UNCHANGED <<staged, manifests, pending, acknowledged, taken, committed, handoffs>>
  BY DEF OpenNew, Unspooled, history
<1>2. /\ journal'.at = clock' /\ journal'.log = <<>>
      /\ clock \in Nat /\ clock' \in Nat /\ clock < clock' /\ clock <= clock'
  BY <1>1 DEF Inv, Typed, TypeOK
<1>3. \A m \in taken : m.at \in Nat /\ m.at <= clock
  <2>1. taken \subseteq Results
    BY DEF Spool, SpoolTyped, Inv, Typed, TypeOK
  <2>2. \A m \in Results : m.at \in Nat
    BY DEF Results
  <2> QED
    BY <2>1, <2>2 DEF Spool, SpoolOrdered
<1>4. Frames(<<>>) = {}
  BY DEF Frames
<1>5. SpoolTyped' /\ SpoolAgrees'
  BY <1>1 DEF Spool, SpoolTyped, SpoolAgrees, Outstanding
<1>6. SpoolOrdered'
  <2>1. \A m \in taken : m.at <= clock' /\ m.at < clock'
    BY <1>2, <1>3
  <2>2. clock' <= clock'
    BY <1>2
  <2> QED
    BY <1>1, <1>2, <2>1, <2>2 DEF SpoolOrdered
<1>7. SpoolEffects'
  <2>1. Owed' = Owed
    BY <1>1 DEF Owed, Delivered
  <2>2. Carried = {}
    BY <1>1 DEF Carried
  <2>3. EffectsAt(journal.log, journal.at)'
    BY <1>2, <1>4 DEF EffectsAt
  <2>4. Owed = {}
    BY <2>2 DEF Spool, SpoolEffects
  <2> QED
    BY <1>1, <2>1, <2>3, <2>4 DEF Spool, SpoolEffects
<1>8. SpoolHandoffs'
  BY <1>1, <1>2, <1>4 DEF Spool, SpoolHandoffs, HandoffsAreDurable
<1> QED
  BY <1>5, <1>6, <1>7, <1>8 DEF Spool

\* A frame of this run is added to the journal.
LEMMA LogSpools ==
  ASSUME Inv, Inv', Spool, journal # NoJournal, staged = NoResult, pending = NoResult,
         UNCHANGED <<staged, manifests, pending, acknowledged, taken, handoffs, clock>>,
         NEW frame \in FrameSet, journal' # NoJournal,
         journal'.command = journal.command, journal'.at = journal.at,
         Frames(journal'.log) = Frames(journal.log) \union {frame},
         ShardCoupled(frame.event) => frame.event.record.at = journal.at,
         HandsOver(frame.event) => frame.event.record.state = "needs_agent",
         committed' \ committed \subseteq EffectsIn(journal'.log)
  PROVE  Spool'
<1>1. SpoolTyped' /\ SpoolAgrees'
  BY DEF Spool, SpoolTyped, SpoolAgrees, Outstanding
<1>2. SpoolOrdered'
  BY DEF Spool, SpoolOrdered
<1>3. SpoolEffects'
  <2>1. EffectsAt(journal.log, journal.at)'
    BY DEF Spool, SpoolEffects, EffectsAt
  <2>2. EffectsIn(journal.log) \subseteq EffectsIn(journal'.log)
    BY DEF EffectsIn
  <2>3. Carried = EffectsIn(journal.log) /\ Carried' = EffectsIn(journal'.log)
    BY DEF Carried
  <2>4. Owed' \subseteq Owed \union (committed' \ committed)
    BY DEF Owed, Delivered
  <2> QED
    BY <2>1, <2>2, <2>3, <2>4 DEF Spool, SpoolEffects
<1>4. SpoolHandoffs'
  BY DEF Spool, SpoolHandoffs, HandoffsAreDurable
<1> QED
  BY <1>1, <1>2, <1>3, <1>4 DEF Spool

\* What appending a frame does to the frames of a journal.
LEMMA FramesAppend ==
  ASSUME NEW log \in Seq(FrameSet), NEW frame
  PROVE  Frames(Append(log, frame)) = Frames(log) \union {frame}
<1>1. /\ Len(Append(log, frame)) = Len(log) + 1 /\ Len(log) \in Nat
      /\ \A i \in 1 .. Len(log) : Append(log, frame)[i] = log[i]
      /\ Append(log, frame)[Len(log) + 1] = frame
      /\ DOMAIN Append(log, frame) = 1 .. Len(log) + 1 /\ DOMAIN log = 1 .. Len(log)
  OBVIOUS
<1>2. ASSUME NEW f \in Frames(Append(log, frame))
      PROVE  f \in Frames(log) \union {frame}
  <2>1. PICK i \in 1 .. Len(log) + 1 : f = Append(log, frame)[i]
    BY <1>1 DEF Frames
  <2>2. CASE i = Len(log) + 1
    BY <1>1, <2>1, <2>2
  <2>3. CASE i \in 1 .. Len(log)
    BY <1>1, <2>1, <2>3 DEF Frames
  <2> QED
    BY <1>1, <2>2, <2>3
<1>3. ASSUME NEW f \in Frames(log)
      PROVE  f \in Frames(Append(log, frame))
  <2>1. PICK i \in 1 .. Len(log) : f = log[i]
    BY <1>1 DEF Frames
  <2>2. i \in 1 .. Len(log) + 1 /\ f = Append(log, frame)[i]
    BY <1>1, <2>1
  <2> QED
    BY <1>1, <2>2 DEF Frames
<1>4. frame \in Frames(Append(log, frame))
  <2>1. Len(log) + 1 \in 1 .. Len(log) + 1
    BY <1>1
  <2> QED
    BY <1>1, <2>1 DEF Frames
<1> QED
  BY <1>2, <1>3, <1>4

\* The next step of a plan, of a command whose phase takes steps.
LEMMA NextStep ==
  ASSUME Inv, CommandHolds, command # Idle, command.plan # <<>>
  PROVE  /\ command \in CommandSet /\ Head(command.plan) = command.plan[1]
         /\ Head(command.plan) \in Steps
         /\ command.phase \in {"recover", "reconcile", "observe", "finish", "failing"}
         /\ Head(command.plan).do \in {"emit", "commit"} => command.phase \in {"reconcile", "observe"}
         /\ command.phase \in Working =>
               /\ pending = NoResult /\ staged = NoResult /\ journal \in Journals
               /\ journal # NoJournal /\ command.at = journal.at
               /\ StepSpooled(command.plan, 1, command.at)
<1>1. command \in CommandSet /\ command.plan \in Seq(Steps)
  BY DEF Inv, Typed, CommandSet
<1>2. /\ Head(command.plan) = command.plan[1] /\ 1 \in 1 .. Len(command.plan)
      /\ command.plan[1] \in Steps
  BY <1>1, RestOfPlan
<1>3. command.phase \notin {"reconcile", "observe"} => command.plan[1].do \notin {"emit", "commit"}
  BY <1>2 DEF Inv, PlanHolds, PlanOf
<1>4. command.phase \in Working => journal \in Journals /\ journal # NoJournal
  BY NoJournalIsNone DEF Inv, PhaseHolds, PhaseOf
<1> QED
  BY <1>1, <1>2, <1>3, <1>4 DEF CommandHolds, CommandSpooled, WorkSpooled, PlanSpooled

\* An event or a commit frame is appended.
LEMMA EmitSpools ==
  ASSUME Inv, Inv', Spool, CommandHolds, EmitStep \/ CommitStep
  PROVE  Spool'
<1>1. /\ command # Idle /\ command.plan # <<>> /\ Head(command.plan).do \in {"emit", "commit"}
      /\ UNCHANGED <<staged, manifests, pending, acknowledged, taken, handoffs, clock>>
  BY DEF EmitStep, CommitStep, NextIs, history
<1> PICK step : step = Head(command.plan)
  OBVIOUS
<1>2. /\ step.event \in EventSet /\ step = command.plan[1]
      /\ pending = NoResult /\ staged = NoResult /\ journal \in Journals
      /\ journal # NoJournal /\ command.at = journal.at /\ StepSpooled(command.plan, 1, command.at)
  BY <1>1, NextStep, StepFields DEF Working
<1> PICK frame : frame = IF step.do = "emit" THEN Prepared(step.event) ELSE Committed(step.event)
  OBVIOUS
<1>3. frame \in FrameSet /\ frame.event = step.event
  BY <1>1, <1>2 DEF FrameSet, Prepared, Committed
<1>4. \/ journal' = journal /\ frame \in Frames(journal.log)
      \/ journal' = [journal EXCEPT !.log = Append(@, frame)]
  BY <1>1 DEF EmitStep, CommitStep, NextIs
<1>5. /\ journal'.command = journal.command /\ journal'.at = journal.at
      /\ Frames(journal'.log) = Frames(journal.log) \union {frame}
  <2>1. CASE journal' = journal /\ frame \in Frames(journal.log)
    BY <2>1
  <2>2. CASE journal' = [journal EXCEPT !.log = Append(@, frame)]
    <3>1. journal'.log = Append(journal.log, frame) /\ journal.log \in Seq(FrameSet)
          /\ journal'.command = journal.command /\ journal'.at = journal.at
      BY <1>2, <2>2 DEF Journals
    <3> QED
      BY <3>1, FramesAppend
  <2> QED
    BY <1>4, <2>1, <2>2
<1>6. journal' # NoJournal
  <2>1. journal' \in Journals
    <3>1. CASE journal' = [journal EXCEPT !.log = Append(@, frame)]
      <4>1. Append(journal.log, frame) \in Seq(FrameSet)
        BY <1>2, <1>3 DEF Journals
      <4> QED
        BY <1>2, <3>1, <4>1 DEF Journals
    <3> QED
      BY <1>2, <1>4, <3>1
  <2> QED
    BY <2>1, NoJournalIsNone
<1>7. CASE step.do = "emit"
  <2>1. /\ ShardCoupled(frame.event) => frame.event.record.at = journal.at
        /\ HandsOver(frame.event) => frame.event.record.state = "needs_agent"
    BY <1>2, <1>3, <1>7 DEF StepSpooled
  <2>2. committed' = committed
    BY <1>7 DEF EmitStep, CommitStep, NextIs, history
  <2> QED
    BY <1>1, <1>2, <1>3, <1>5, <1>6, <2>1, <2>2, LogSpools
<1>8. CASE step.do = "commit"
  <2>1. ShardCoupled(step.event) /\ Prepared(step.event) \in Frames(journal.log)
    <3>1. \A j \in 1 .. 1 - 1 : FALSE
      OBVIOUS
    <3> QED
      BY <1>2, <1>8, <3>1 DEF StepSpooled
  <2>2. Prepared(step.event).event = step.event /\ Prepared(step.event).frame = "event"
        /\ frame = Committed(step.event)
    BY <1>8 DEF Prepared
  <2>3. step.event.record.at = journal.at /\ ~HandsOver(step.event)
    BY <1>2, <2>1, <2>2 DEF Spool, SpoolEffects, EffectsAt, ShardCoupled, HandsOver
  <2>4. committed' = committed \union {step.event}
    BY <1>8 DEF EmitStep, CommitStep, NextIs
  <2>5. step.event \in EffectsIn(journal'.log)
    BY <1>5, <2>1, <2>2 DEF EffectsIn
  <2> QED
    BY <1>1, <1>2, <1>3, <1>5, <1>6, <2>3, <2>4, <2>5, LogSpools
<1> QED
  BY <1>1, <1>7, <1>8

\* A command between two plans.
LEMMA AtPhase ==
  ASSUME Inv, CommandHolds, NEW phase, InPhase(phase)
  PROVE  /\ command # Idle /\ command.plan = <<>> /\ command.phase = phase
         /\ command \in CommandSet /\ PhaseOf(command) /\ CommandSpooled(command)
         /\ phase \in Working => WorkSpooled(command) /\ journal \in Journals /\ journal # NoJournal
         /\ EndSpooled(command)
<1>1. /\ command # Idle /\ command.plan = <<>> /\ command.phase = phase
      /\ command \in CommandSet /\ PhaseOf(command)
  BY DEF InPhase, Inv, Typed, PhaseHolds
<1>2. phase \in Working => journal \in Journals /\ journal # NoJournal
  BY <1>1, NoJournalIsNone DEF PhaseOf
<1> QED
  BY <1>1, <1>2 DEF CommandHolds, CommandSpooled

\* What an event that hands a source over looks like in a staged run: the
\* checkpoint has its record.
LEMMA StagedHandoffs ==
  ASSUME NEW st \in Staged, NEW e \in Handoffs(ResultOf(st))
  PROVE  /\ st.checkpoint[e.source] = e.record /\ e.source \in Sources /\ e.record \in Records
         /\ HandsOver(e) /\ \E f \in Frames(st.log) : f.event = e
<1>1. e \in Events(ResultOf(st)) /\ e.kind = "handoff_source_id"
  BY DEF Handoffs
<1>2. PICK f \in Frames(st.log) : KeptAt(f, st.log, st.checkpoint) /\ f.event = e
  BY <1>1, ResultsOfStaged
<1>3. f \in FrameSet
  BY <1>2 DEF Staged, Frames
<1> QED
  BY <1>1, <1>2, <1>3 DEF KeptAt, ShardCoupled, HandsOver, FrameSet, EventSet

\* The corpus revision a result is stamped with.
LEMMA CorpusTyped ==
  ASSUME Inv
  PROVE  CorpusRevision \in Corpora
BY DEF Inv, Typed, CorpusRevision, Corpora, CorpusRow, Records

\* The journal and the ledger are staged: what the journal committed is carried
\* on by the result, and what it hands over has its items.
LEMMA StageSpools ==
  ASSUME Inv, Inv', Spool, CommandHolds, Stage
  PROVE  Spool'
<1>1. /\ InPhase("published") /\ journal' = journal
      /\ staged' = [command |-> command.name, at |-> journal.at, corpus |-> CorpusRevision,
                    checkpoint |-> ledger, log |-> journal.log]
      /\ UNCHANGED <<manifests, pending, acknowledged, taken, committed, handoffs, clock>>
  BY DEF Stage, history
<1>2. /\ pending = NoResult /\ staged = NoResult /\ journal \in Journals /\ journal # NoJournal
      /\ DurableItems \subseteq handoffs /\ command.name \in Commands
      /\ journal.command = command.name
  <2>1. command.name \in Commands
    BY <1>1, AtPhase DEF Working, PhaseOf
  <2> QED
    BY <1>1, <2>1, AtPhase DEF Working, WorkSpooled
<1>3. /\ staged' \in Staged /\ staged' # NoResult
      /\ staged'.command = journal.command /\ staged'.at = journal.at
      /\ staged'.log = journal.log /\ staged'.checkpoint = ledger
  <2>1. ledger \in [Sources -> Records \union {NoRecord}]
    BY DEF Inv, Typed
  <2>2. staged' \in Staged
    BY <1>1, <1>2, <2>1, CorpusTyped DEF Staged, Journals
  <2> QED
    BY <1>1, <1>2, <2>2, NoResultIsNone
<1>4. ResultOf(staged') \in Results /\ ResultOf(staged').at = journal.at
  BY <1>3, ResultsOfStaged
<1>5. SpoolTyped'
  BY <1>1, <1>3 DEF Spool, SpoolTyped
<1>6. manifests \subseteq taken /\ Outstanding' = {ResultOf(staged')}
  BY <1>1, <1>2, <1>3 DEF Spool, SpoolAgrees, Outstanding
<1>7. ResultOf(staged') \notin taken
  <2>1. ASSUME NEW m \in taken
        PROVE  m.at < journal.at /\ m.at \in Nat
    <3>1. m \in Results
      BY DEF Spool, SpoolTyped, Inv, Typed, TypeOK
    <3> QED
      BY <1>2, <3>1 DEF Spool, SpoolOrdered, Results
  <2> QED
    BY <1>4, <2>1
<1>8. SpoolAgrees'
  BY <1>1, <1>2, <1>3, <1>6, <1>7 DEF Spool, SpoolAgrees
<1>9. SpoolOrdered'
  BY <1>1, <1>2, <1>3 DEF Spool, SpoolOrdered
<1>10. SpoolEffects'
  <2>1. EffectsAt(staged'.log, staged'.at)
    BY <1>2, <1>3 DEF Spool, SpoolEffects
  <2>2. EffectsIn(journal.log) \subseteq EffectsOf(ResultOf(staged'))
    BY <1>3, <2>1, EffectsOfStaged
  <2>3. Carried = EffectsIn(journal.log) /\ Carried' = EffectsOf(ResultOf(staged'))
    BY <1>1, <1>2, <1>3 DEF Carried
  <2>4. Owed' = Owed
    BY <1>1 DEF Owed, Delivered
  <2> QED
    BY <1>1, <2>1, <2>2, <2>3, <2>4 DEF Spool, SpoolEffects
<1>11. SpoolHandoffs'
  <2>1. ASSUME NEW e \in Handoffs(ResultOf(staged'))
        PROVE  Item(e.source, e.record) \in handoffs
    <3>1. ledger[e.source] = e.record /\ e.source \in Sources /\ HandsOver(e)
      BY <1>3, StagedHandoffs
    <3>2. e.record.state = "needs_agent"
      BY <1>2, <1>3, StagedHandoffs DEF Spool, SpoolHandoffs
    <3>3. NeedsAgent(e.source)
      BY <1>3, <3>1, <3>2, StagedHandoffs, NoRecordIsNone DEF NeedsAgent
    <3>4. Item(e.source, e.record) \in DurableItems
      BY <3>1, <3>3 DEF DurableItems
    <3> QED
      BY <1>2, <3>4
  <2> QED
    BY <1>1, <2>1 DEF Spool, SpoolHandoffs, HandoffsAreDurable
<1> QED
  BY <1>5, <1>8, <1>9, <1>10, <1>11 DEF Spool

\* The result of the staged run becomes a manifest.
LEMMA FinalizeSpools ==
  ASSUME Inv, Inv', Spool, CommandHolds, Finalize
  PROVE  Spool'
<1> PICK m : m = Manifest(journal.command, journal.at, staged.corpus, journal.log)
  OBVIOUS
<1>1. /\ InPhase("finalize") /\ manifests' = manifests \union {m}
      /\ UNCHANGED <<journal, staged, pending, acknowledged, taken, committed, handoffs, clock>>
  BY DEF Finalize, history
<1>2. /\ pending = NoResult /\ staged # NoResult /\ journal # NoJournal
      /\ staged.checkpoint = ledger
  BY <1>1, AtPhase DEF EndSpooled
<1>3. staged \in Staged /\ m = ResultOf(staged)
  BY <1>2, FinalizesStaged DEF Spool, SpoolTyped, SpoolAgrees
<1>4. m \in Results /\ \A e \in EffectsOf(m) : e.record.at = m.at
  BY <1>2, <1>3, ResultsOfStaged, EffectsOfStaged DEF Spool, SpoolEffects
<1>5. SpoolTyped' /\ SpoolAgrees' /\ SpoolOrdered'
  BY <1>1, <1>2, <1>3, <1>4 DEF Spool, SpoolTyped, SpoolAgrees, SpoolOrdered, Outstanding
<1>6. SpoolEffects'
  <2>1. Owed' = Owed /\ Carried' = Carried
    BY <1>1 DEF Owed, Delivered, Carried
  <2> QED
    BY <1>1, <1>4, <2>1 DEF Spool, SpoolEffects
<1>7. SpoolHandoffs'
  BY <1>1, <1>2, <1>3 DEF Spool, SpoolHandoffs, HandoffsAreDurable
<1> QED
  BY <1>5, <1>6, <1>7 DEF Spool

\* The result of the staged run is pending.
LEMMA SavePendingSpools ==
  ASSUME Inv, Inv', Spool, CommandHolds, SavePending
  PROVE  Spool'
<1>1. /\ InPhase("save_pending") /\ pending' = command.target
      /\ UNCHANGED <<journal, staged, manifests, acknowledged, taken, committed, handoffs, clock>>
  BY DEF SavePending, history
<1>2. /\ pending = NoResult /\ staged # NoResult /\ journal # NoJournal
      /\ pending' = ResultOf(staged)
  BY <1>1, AtPhase DEF EndSpooled
<1>3. staged \in Staged /\ pending' \in Results /\ pending'.at = staged.at
  BY <1>2, ResultsOfStaged DEF Spool, SpoolTyped
<1>4. pending' # NoResult
  BY <1>3, NoResultIsNone
<1>5. SpoolTyped' /\ SpoolAgrees' /\ SpoolOrdered'
  BY <1>1, <1>2, <1>3, <1>4 DEF Spool, SpoolTyped, SpoolAgrees, SpoolOrdered, Outstanding
<1>6. SpoolEffects'
  <2>1. Owed' = Owed /\ Carried' = Carried
    BY <1>1, <1>2, <1>4 DEF Owed, Delivered, Carried
  <2> QED
    BY <1>1, <2>1 DEF Spool, SpoolEffects
<1>7. SpoolHandoffs'
  BY <1>1 DEF Spool, SpoolHandoffs, HandoffsAreDurable
<1> QED
  BY <1>5, <1>6, <1>7 DEF Spool

\* Whose journal may be removed: that of the pending result.
LEMMA CompletesPending ==
  ASSUME Inv, Spool, CommandHolds, InPhase("drop_journal"), MayComplete(command.target)
  PROVE  /\ command.op \in {"sync", "acknowledge"} /\ pending = command.target
         /\ pending # NoResult
<1>1. /\ command.target \in manifests
      /\ \/ command.op \in {"sync", "acknowledge"} /\ pending = command.target
         \/ command.op = "reacknowledge" /\ staged # NoResult /\ command.target \in taken
  BY AtPhase DEF EndSpooled
<1>2. CASE staged # NoResult /\ command.target \in taken
  <2>1. staged.at = command.target.at /\ command.target.at < staged.at
    BY <1>2 DEF MayComplete, Spool, SpoolOrdered
  <2>2. staged.at \in Nat
    BY <1>2 DEF Spool, SpoolTyped, Staged
  <2> QED
    BY <2>1, <2>2
<1>3. command.target # NoResult
  BY <1>1, NoResultIsNone DEF Spool, SpoolTyped
<1> QED
  BY <1>1, <1>2, <1>3

\* The journal of the pending result is removed.
LEMMA DropJournalSpools ==
  ASSUME Inv, Inv', Spool, CommandHolds, DropJournal
  PROVE  Spool'
<1>1. /\ InPhase("drop_journal") /\ MayComplete(command.target) /\ journal' = NoJournal
      /\ UNCHANGED <<staged, pending, manifests, acknowledged, taken, committed, handoffs, clock>>
  BY DEF DropJournal, history
<1>2. pending # NoResult
  BY <1>1, CompletesPending
<1>3. SpoolTyped' /\ SpoolAgrees' /\ SpoolOrdered'
  BY <1>1 DEF Spool, SpoolTyped, SpoolAgrees, SpoolOrdered, Outstanding
<1>4. SpoolEffects'
  <2>1. Owed' = Owed /\ Carried' = Carried
    BY <1>1, <1>2 DEF Owed, Delivered, Carried
  <2> QED
    BY <1>1, <2>1 DEF Spool, SpoolEffects
<1>5. SpoolHandoffs'
  BY <1>1 DEF Spool, SpoolHandoffs, HandoffsAreDurable
<1> QED
  BY <1>3, <1>4, <1>5 DEF Spool

\* The staged run of the pending result is removed.
LEMMA DropStagedSpools ==
  ASSUME Inv, Inv', Spool, CommandHolds, DropStaged
  PROVE  Spool'
<1>1. /\ InPhase("drop_staged") /\ staged' = NoResult
      /\ UNCHANGED <<journal, pending, manifests, acknowledged, taken, committed, handoffs, clock>>
  BY DEF DropStaged, history
<1>2. pending # NoResult /\ journal = NoJournal
  BY <1>1, AtPhase, NoResultIsNone DEF EndSpooled, Spool, SpoolTyped
<1>3. SpoolTyped' /\ SpoolAgrees' /\ SpoolOrdered'
  BY <1>1, <1>2 DEF Spool, SpoolTyped, SpoolAgrees, SpoolOrdered, Outstanding
<1>4. SpoolEffects'
  <2>1. Owed' = Owed /\ Carried' = Carried
    BY <1>1, <1>2 DEF Owed, Delivered, Carried
  <2> QED
    BY <1>1, <2>1 DEF Spool, SpoolEffects
<1>5. SpoolHandoffs'
  BY <1>1 DEF Spool, SpoolHandoffs, HandoffsAreDurable
<1> QED
  BY <1>3, <1>4, <1>5 DEF Spool

\* The pending result is recorded as the acknowledged one.
LEMMA AcknowledgeSpools ==
  ASSUME Inv, Inv', Spool, CommandHolds, Acknowledge
  PROVE  Spool'
<1>1. /\ InPhase("acknowledge") /\ acknowledged' = command.target
      /\ UNCHANGED <<journal, staged, pending, manifests, taken, committed, handoffs, clock>>
  BY DEF Acknowledge, history
<1>2. acknowledged' = pending
  BY <1>1, AtPhase DEF EndSpooled
<1>3. SpoolTyped' /\ SpoolAgrees' /\ SpoolOrdered'
  BY <1>1, <1>2 DEF Spool, SpoolTyped, SpoolAgrees, SpoolOrdered, Outstanding
<1>4. SpoolEffects'
  <2>1. Owed' = Owed /\ Carried' = Carried
    BY <1>1 DEF Owed, Delivered, Carried
  <2> QED
    BY <1>1, <2>1 DEF Spool, SpoolEffects
<1>5. SpoolHandoffs'
  BY <1>1 DEF Spool, SpoolHandoffs, HandoffsAreDurable
<1> QED
  BY <1>3, <1>4, <1>5 DEF Spool

\* The pending result is taken: nothing is left of its run.
LEMMA DropPendingSpools ==
  ASSUME Inv, Inv', Spool, CommandHolds, DropPending
  PROVE  /\ Spool'
         /\ pending # NoResult /\ pending' = NoResult /\ taken' = taken \union {pending}
         /\ committed' = committed
<1>1. /\ InPhase("drop_pending") /\ pending' = NoResult /\ taken' = taken \union {command.target}
      /\ UNCHANGED <<journal, staged, manifests, acknowledged, committed, handoffs, clock>>
  BY DEF DropPending
<1>2. /\ pending = command.target /\ staged = NoResult /\ pending # NoResult
      /\ pending \in manifests
  BY <1>1, AtPhase, NoResultIsNone DEF EndSpooled, Spool, SpoolTyped
<1>3. journal = NoJournal
  BY <1>2 DEF Spool, SpoolAgrees
<1>4. SpoolTyped' /\ SpoolAgrees' /\ SpoolOrdered'
  BY <1>1, <1>2, <1>3 DEF Spool, SpoolTyped, SpoolAgrees, SpoolOrdered, Outstanding
<1>5. SpoolEffects'
  <2>1. Owed \subseteq EffectsOf(pending)
    BY <1>2 DEF Spool, SpoolEffects, Carried
  <2>2. Owed' = {}
    BY <1>1, <1>2, <2>1 DEF Owed, Delivered
  <2> QED
    BY <1>1, <2>2 DEF Spool, SpoolEffects
<1>6. SpoolHandoffs'
  BY <1>1 DEF Spool, SpoolHandoffs, HandoffsAreDurable
<1> QED
  BY <1>1, <1>2, <1>4, <1>5, <1>6 DEF Spool

-----------------------------------------------------------------------------
(* The command that runs.                                                  *)

\* What a command has in mind before it opens the spool, or when it only ends.
LEMMA FreePhases ==
  ASSUME NEW c, c # Idle => c.phase \in {"recover", "finish", "failing"}
  PROVE  CommandSpooled(c)'
BY DEF CommandSpooled, EndSpooled, Working

\* A plan's steps stay fit when the first is taken: what it prepared is in the
\* journal.
LEMMA SpooledAdvances ==
  ASSUME NEW plan \in Seq(Steps), plan # <<>>, NEW q, q = Tail(plan), NEW at,
         PlanSpooled(plan, at),
         Frames(journal.log) \subseteq Frames(journal'.log),
         plan[1].do = "emit" => Prepared(plan[1].event) \in Frames(journal'.log)
  PROVE  PlanSpooled(q, at)'
<1>1. /\ Len(plan) \in Nat /\ Len(plan) >= 1 /\ \A i \in 1 .. Len(plan) : plan[i] \in Steps
      /\ Len(q) = Len(plan) - 1 /\ \A i \in 1 .. Len(q) : q[i] = plan[i + 1]
  BY RestOfPlan
<1>2. ASSUME NEW i \in 1 .. Len(q)
      PROVE  StepSpooled(q, i, at)'
  <2>1. i + 1 \in 1 .. Len(plan) /\ q[i] = plan[i + 1] /\ i \in Nat
    BY <1>1
  <2>2. StepSpooled(plan, i + 1, at)
    BY <2>1 DEF PlanSpooled
  <2>3. ASSUME NEW j \in 1 .. (i + 1) - 1, plan[j].do = "emit", plan[j].event = q[i].event
        PROVE  \/ Prepared(q[i].event) \in Frames(journal'.log)
               \/ \E k \in 1 .. i - 1 : q[k].do = "emit" /\ q[k].event = q[i].event
    <3>1. CASE j = 1
      BY <2>3, <3>1
    <3>2. CASE j # 1
      <4>1. j - 1 \in 1 .. i - 1 /\ q[j - 1] = plan[j]
        BY <1>1, <2>1, <3>2
      <4> QED
        BY <2>3, <4>1
    <3> QED
      BY <3>1, <3>2
  <2> QED
    BY <2>1, <2>2, <2>3 DEF StepSpooled
<1> QED
  BY <1>2 DEF PlanSpooled

\* The record of an extraction keeps the time of the run.
LEMMA TimedAdvances ==
  ASSUME NEW plan \in Seq(Steps), plan # <<>>, NEW q, q = Tail(plan), NEW at,
         PlanSpooled(plan, at), NEW jobs \in SUBSET Sources, JobsTimed(jobs, plan, at),
         ledger \in [Sources -> Records \union {NoRecord}],
         ledger' = IF plan[1].do = "save" THEN [ledger EXCEPT ![plan[1].source] = plan[1].record]
                   ELSE ledger
  PROVE  JobsTimed(jobs, q, at)'
<1>1. /\ Len(plan) \in Nat /\ Len(plan) >= 1 /\ \A i \in 1 .. Len(plan) : plan[i] \in Steps
      /\ Len(q) = Len(plan) - 1 /\ \A i \in 1 .. Len(q) : q[i] = plan[i + 1]
  BY RestOfPlan
<1>2. 1 \in 1 .. Len(plan) /\ plan[1] \in Steps /\ StepSpooled(plan, 1, at)
  BY <1>1 DEF PlanSpooled
<1>3. plan[1].do = "save" =>
        plan[1].source \in Sources /\ plan[1].record \in Records /\ plan[1].record.at = at
  BY <1>2, StepFields DEF StepSpooled
<1>4. ASSUME NEW s \in jobs
      PROVE  \/ ledger'[s] \in Records /\ ledger'[s].at = at
             \/ \E i \in 1 .. Len(q) : q[i].do = "save" /\ q[i].source = s
  <2>1. CASE plan[1].do = "save" /\ plan[1].source = s
    BY <1>3, <2>1
  <2>2. CASE ~(plan[1].do = "save" /\ plan[1].source = s)
    <3>1. ledger'[s] = ledger[s]
      BY <1>3, <2>2
    <3>2. CASE ledger[s] \in Records /\ ledger[s].at = at
      BY <3>1, <3>2
    <3>3. CASE ~(ledger[s] \in Records /\ ledger[s].at = at)
      <4>1. PICK i \in 1 .. Len(plan) : plan[i].do = "save" /\ plan[i].source = s
        BY <3>3 DEF JobsTimed
      <4>2. i # 1
        BY <2>2, <4>1
      <4>3. i - 1 \in 1 .. Len(q) /\ q[i - 1] = plan[i]
        BY <1>1, <4>2
      <4> QED
        BY <4>1, <4>3
    <3> QED
      BY <3>2, <3>3
  <2> QED
    BY <2>1, <2>2
<1> QED
  BY <1>4 DEF JobsTimed

\* What each kind of step changes.
LEMMA PlanStepEffects ==
  ASSUME Inv, CommandHolds, NEW step, step = Head(command.plan),
         EmitStep \/ CommitStep \/ SaveStep \/ GuardStep \/ CheckStep \/ ClearStep
  PROVE  /\ command # Idle /\ command.plan # <<>> /\ Advance
         /\ UNCHANGED <<raw, staged, manifests, pending, acknowledged, receipts, handoffs, clock,
                        taken, edits, faults>>
         /\ ledger' = IF step.do = "save" THEN [ledger EXCEPT ![step.source] = step.record]
                      ELSE ledger
         /\ step.do \notin {"emit", "commit"} => UNCHANGED <<journal, committed>>
         /\ step.do = "emit" => UNCHANGED committed
         /\ command.phase \in Working =>
               /\ journal'.at = journal.at /\ journal'.command = journal.command
               /\ Frames(journal.log) \subseteq Frames(journal'.log)
               /\ step.do = "emit" => Prepared(step.event) \in Frames(journal'.log)
<1>1. /\ command # Idle /\ command.plan # <<>> /\ Advance
      /\ UNCHANGED <<raw, staged, manifests, pending, acknowledged, receipts, handoffs, clock,
                     taken, edits, faults>>
      /\ ledger' = IF step.do = "save" THEN [ledger EXCEPT ![step.source] = step.record]
                   ELSE ledger
      /\ step.do \notin {"emit", "commit"} => UNCHANGED <<journal, committed>>
      /\ step.do = "emit" => UNCHANGED committed
  BY DEF EmitStep, CommitStep, SaveStep, GuardStep, CheckStep, ClearStep, NextIs, disk, history
<1>2. CASE step.do \in {"emit", "commit"} /\ command.phase \in Working
  <2> PICK frame : frame = IF step.do = "emit" THEN Prepared(step.event) ELSE Committed(step.event)
    OBVIOUS
  <2>1. \/ journal' = journal /\ frame \in Frames(journal.log)
        \/ journal' = [journal EXCEPT !.log = Append(@, frame)]
    BY <1>2 DEF EmitStep, CommitStep, SaveStep, GuardStep, CheckStep, ClearStep, NextIs
  <2>2. journal \in Journals
    BY <1>1, <1>2, NextStep
  <2>3. CASE journal' = [journal EXCEPT !.log = Append(@, frame)]
    <3>1. journal'.log = Append(journal.log, frame) /\ journal.log \in Seq(FrameSet)
          /\ journal'.command = journal.command /\ journal'.at = journal.at
      BY <2>2, <2>3 DEF Journals
    <3>2. Frames(journal'.log) = Frames(journal.log) \union {frame}
      BY <3>1, FramesAppend
    <3> QED
      BY <1>1, <3>1, <3>2
  <2> QED
    BY <1>1, <2>1, <2>3
<1>3. CASE step.do \notin {"emit", "commit"}
  BY <1>1, <1>3
<1> QED
  BY <1>1, <1>2, <1>3

\* A durable step leaves the command ready for the next.
LEMMA PlanStepSpools ==
  ASSUME Inv, CommandHolds,
         EmitStep \/ CommitStep \/ SaveStep \/ GuardStep \/ CheckStep \/ ClearStep
  PROVE  CommandHolds'
<1> PICK step : step = Head(command.plan)
  OBVIOUS
<1> PICK c : c = [command EXCEPT !.plan = Tail(@)]
  OBVIOUS
<1>1. /\ command # Idle /\ command.plan # <<>> /\ command' \in {c, Idle}
  BY PlanStepEffects DEF Advance
<1>2. /\ command \in CommandSet /\ step = command.plan[1] /\ step \in Steps
      /\ command.phase \in {"recover", "reconcile", "observe", "finish", "failing"}
  BY <1>1, NextStep
<1> PICK plan, q : plan = command.plan /\ q = Tail(plan)
  OBVIOUS
<1> PICK at, jobs : at = command.at /\ jobs = command.jobs
  OBVIOUS
<1>3. /\ c.plan = q /\ c.phase = command.phase /\ c.at = at /\ c.name = command.name
      /\ c.jobs = jobs /\ c.todo = command.todo
  BY <1>2 DEF CommandSet
<1>4. CASE command.phase \in {"recover", "finish", "failing"}
  <2>1. CommandSpooled(c)' /\ CommandSpooled(Idle)'
    BY <1>3, <1>4, FreePhases
  <2> QED
    BY <1>1, <2>1 DEF CommandHolds
<1>5. CASE command.phase \in {"reconcile", "observe"}
  <2>1. /\ UNCHANGED <<staged, pending>> /\ journal'.at = journal.at
        /\ journal'.command = journal.command
        /\ Frames(journal.log) \subseteq Frames(journal'.log)
        /\ step.do = "emit" => Prepared(step.event) \in Frames(journal'.log)
        /\ ledger' = IF step.do = "save" THEN [ledger EXCEPT ![step.source] = step.record]
                     ELSE ledger
    BY <1>5, PlanStepEffects DEF Working
  <2>2. WorkSpooled(command)
    BY <1>1, <1>5 DEF CommandHolds, CommandSpooled, Working
  <2>3. /\ plan \in Seq(Steps) /\ plan # <<>> /\ step = plan[1] /\ jobs \in SUBSET Sources
        /\ ledger \in [Sources -> Records \union {NoRecord}]
    BY <1>1, <1>2 DEF CommandSet, Inv, Typed
  <2>4. PlanSpooled(q, at)'
    BY <2>1, <2>2, <2>3, SpooledAdvances DEF WorkSpooled
  <2>5. command.phase = "reconcile" => JobsTimed(jobs, q, at)'
    BY <2>1, <2>2, <2>3, TimedAdvances DEF WorkSpooled
  <2>6. command.phase = "observe" =>
           /\ \A i \in 1 .. Len(q) : q[i].do = "emit"
           /\ ledger' = ledger
    <3> SUFFICES ASSUME command.phase = "observe"
                 PROVE  /\ \A i \in 1 .. Len(q) : q[i].do = "emit"
                        /\ ledger' = ledger
      OBVIOUS
    <3>1. /\ Len(command.plan) \in Nat /\ Len(command.plan) >= 1
          /\ Len(q) = Len(command.plan) - 1
          /\ \A i \in 1 .. Len(q) : q[i] = command.plan[i + 1]
      BY <1>1, <2>3, RestOfPlan
    <3>2. \A i \in 1 .. Len(command.plan) : command.plan[i].do = "emit"
      BY <2>2 DEF WorkSpooled
    <3>3. 1 \in 1 .. Len(command.plan) /\ \A i \in 1 .. Len(q) : i + 1 \in 1 .. Len(command.plan)
      BY <3>1
    <3>4. step.do = "emit"
      BY <1>2, <3>2, <3>3
    <3> QED
      BY <2>1, <3>1, <3>2, <3>3, <3>4
  <2>7. WorkSpooled(c)'
    BY <1>3, <1>5, <2>1, <2>2, <2>4, <2>5, <2>6 DEF WorkSpooled, NeedsAgent
  <2>8. CommandSpooled(c)'
    BY <1>3, <1>5, <2>7 DEF CommandSpooled, EndSpooled
  <2> QED
    BY <1>1, <2>8 DEF CommandHolds, CommandSpooled
<1> QED
  BY <1>2, <1>4, <1>5

\* Of two plans the second may commit what the first prepares.
LEMMA SpooledConcat ==
  ASSUME NEW p \in Seq(Steps), NEW q \in Seq(Steps), NEW at, PlanSpooled(p, at),
         \A i \in 1 .. Len(q) :
            \/ StepSpooled(q, i, at)
            \/ /\ q[i].do = "commit" /\ ShardCoupled(q[i].event)
               /\ \E j \in 1 .. Len(p) : p[j].do = "emit" /\ p[j].event = q[i].event
  PROVE  p \o q \in Seq(Steps) /\ PlanSpooled(p \o q, at)
<1> PICK r : r = p \o q
  OBVIOUS
<1>1. /\ r \in Seq(Steps) /\ Len(r) = Len(p) + Len(q) /\ Len(p) \in Nat /\ Len(q) \in Nat
      /\ \A i \in 1 .. Len(p) : r[i] = p[i]
      /\ \A i \in 1 .. Len(q) : r[Len(p) + i] = q[i]
  BY ConcatSteps
<1>2. ASSUME NEW i \in 1 .. Len(p)
      PROVE  StepSpooled(r, i, at)
  <2>1. StepSpooled(p, i, at) /\ r[i] = p[i]
    BY <1>1 DEF PlanSpooled
  <2>2. \A j \in 1 .. i - 1 : r[j] = p[j]
    BY <1>1
  <2> QED
    BY <2>1, <2>2 DEF StepSpooled
<1>3. ASSUME NEW i \in 1 .. Len(q)
      PROVE  StepSpooled(r, Len(p) + i, at)
  <2>1. r[Len(p) + i] = q[i]
    BY <1>1
  <2>2. CASE StepSpooled(q, i, at)
    <3>1. ASSUME NEW j \in 1 .. i - 1
          PROVE  Len(p) + j \in 1 .. (Len(p) + i) - 1 /\ r[Len(p) + j] = q[j]
      <4>1. j \in 1 .. Len(q) /\ j \in Nat /\ i \in Nat
        BY <1>1
      <4> QED
        BY <1>1, <4>1
    <3>2. ASSUME NEW e, \E j \in 1 .. i - 1 : q[j].do = "emit" /\ q[j].event = e
          PROVE  \E j \in 1 .. (Len(p) + i) - 1 : r[j].do = "emit" /\ r[j].event = e
      BY <3>1, <3>2
    <3>3. /\ q[i].do = "save" => q[i].record.at = at
          /\ q[i].do = "emit" /\ ShardCoupled(q[i].event) => q[i].event.record.at = at
          /\ q[i].do = "emit" /\ HandsOver(q[i].event) => q[i].event.record.state = "needs_agent"
          /\ q[i].do = "commit" => ShardCoupled(q[i].event)
      BY <2>2 DEF StepSpooled
    <3>4. q[i].do = "commit" => \/ Prepared(q[i].event) \in Frames(journal.log)
                               \/ \E j \in 1 .. i - 1 : q[j].do = "emit" /\ q[j].event = q[i].event
      BY <2>2 DEF StepSpooled
    <3>5. q[i].do = "commit" =>
             \/ Prepared(q[i].event) \in Frames(journal.log)
             \/ \E j \in 1 .. (Len(p) + i) - 1 : r[j].do = "emit" /\ r[j].event = q[i].event
      BY <3>2, <3>4
    <3> QED
      BY <2>1, <3>3, <3>5 DEF StepSpooled
  <2>3. CASE /\ q[i].do = "commit" /\ ShardCoupled(q[i].event)
             /\ \E j \in 1 .. Len(p) : p[j].do = "emit" /\ p[j].event = q[i].event
    <3>1. PICK j \in 1 .. Len(p) : p[j].do = "emit" /\ p[j].event = q[i].event
      BY <2>3
    <3>2. j \in 1 .. (Len(p) + i) - 1 /\ r[j] = p[j]
      BY <1>1
    <3> QED
      BY <2>1, <2>3, <3>1, <3>2 DEF StepSpooled
  <2> QED
    BY <2>2, <2>3
<1>4. \A i \in 1 .. Len(r) : i \in 1 .. Len(p) \/ (i - Len(p) \in 1 .. Len(q) /\ i = Len(p) + (i - Len(p)))
  BY <1>1
<1>5. PlanSpooled(r, at)
  BY <1>2, <1>3, <1>4 DEF PlanSpooled
<1> QED
  BY <1>1, <1>5

\* A plan may end with the commit of what it prepares.
LEMMA CommitAfter ==
  ASSUME NEW p \in Seq(Steps), NEW q \in Seq(Steps), NEW at, PlanSpooled(p, at),
         Len(q) = 1, q[1].do = "commit", ShardCoupled(q[1].event),
         NEW j \in 1 .. Len(p), p[j].do = "emit", p[j].event = q[1].event
  PROVE  p \o q \in Seq(Steps) /\ PlanSpooled(p \o q, at)
<1>1. \A i \in 1 .. Len(q) : i = 1
  OBVIOUS
<1> QED
  BY <1>1, SpooledConcat

\* The steps that plans of a sync are made of.
LEMMA SpooledSteps ==
  ASSUME NEW s \in Sources, NEW r \in Records, NEW at
  PROVE  /\ <<>> \in Seq(Steps) /\ PlanSpooled(<<>>, at)
         /\ <<Check(s)>> \in Seq(Steps) /\ PlanSpooled(<<Check(s)>>, at)
         /\ <<Save(s, r)>> \in Seq(Steps)
         /\ r.at = at => PlanSpooled(<<Save(s, r)>>, at)
         /\ \A kind \in {"new_active_representation", "citation_rewrite"} :
               LET e == Event(kind, s, r)
               IN /\ <<Emit(e)>> \in Seq(Steps) /\ <<Commit(e)>> \in Seq(Steps)
                  /\ ShardCoupled(e)
                  /\ r.at = at => PlanSpooled(<<Emit(e)>>, at)
         /\ LET e == Event("handoff_source_id", s, r)
            IN <<Emit(e)>> \in Seq(Steps) /\ (r.state = "needs_agent" => PlanSpooled(<<Emit(e)>>, at))
<1>1. \A step \in Steps : /\ <<step>> \in Seq(Steps) /\ Len(<<step>>) = 1 /\ <<step>>[1] = step
  OBVIOUS
<1>2. <<>> \in Seq(Steps) /\ PlanSpooled(<<>>, at)
  BY DEF PlanSpooled
<1>3. Check(s) \in Steps /\ Check(s).do = "check"
  BY DEF Check, Steps
<1>4. Save(s, r) \in Steps /\ Save(s, r).do = "save" /\ Save(s, r).record = r
  BY DEF Save, Steps
<1>5. ASSUME NEW kind \in {"new_active_representation", "citation_rewrite", "handoff_source_id"}
      PROVE  LET e == Event(kind, s, r)
             IN /\ e \in EventSet /\ e.record = r /\ e.kind = kind
                /\ Emit(e) \in Steps /\ Emit(e).do = "emit" /\ Emit(e).event = e
                /\ Commit(e) \in Steps
  <2> DEFINE e == Event(kind, s, r)
  <2>1. e \in EventSet /\ e.record = r /\ e.kind = kind
    BY DEF Event, EventSet
  <2> HIDE DEF e
  <2>2. /\ Emit(e) \in Steps /\ Emit(e).do = "emit" /\ Emit(e).event = e
        /\ Commit(e) \in Steps
    BY <2>1 DEF Emit, Commit, Steps
  <2> QED
    BY <2>1, <2>2 DEF e
<1>6. PlanSpooled(<<Check(s)>>, at)
  BY <1>1, <1>3 DEF PlanSpooled, StepSpooled
<1>7. r.at = at => PlanSpooled(<<Save(s, r)>>, at)
  BY <1>1, <1>4 DEF PlanSpooled, StepSpooled
<1>8. ASSUME NEW kind \in {"new_active_representation", "citation_rewrite"}
      PROVE  LET e == Event(kind, s, r)
             IN /\ <<Emit(e)>> \in Seq(Steps) /\ <<Commit(e)>> \in Seq(Steps)
                /\ ShardCoupled(e)
                /\ r.at = at => PlanSpooled(<<Emit(e)>>, at)
  <2> PICK e : e = Event(kind, s, r)
    OBVIOUS
  <2>1. /\ e.record = r /\ e.kind = kind
        /\ Emit(e) \in Steps /\ Emit(e).do = "emit" /\ Emit(e).event = e
        /\ Commit(e) \in Steps
    BY <1>5
  <2>2. ShardCoupled(e) /\ ~HandsOver(e)
    BY <2>1 DEF ShardCoupled, HandsOver
  <2>3. r.at = at => PlanSpooled(<<Emit(e)>>, at)
    BY <1>1, <2>1, <2>2 DEF PlanSpooled, StepSpooled
  <2> QED
    BY <1>1, <2>1, <2>2, <2>3
<1>9. LET e == Event("handoff_source_id", s, r)
      IN <<Emit(e)>> \in Seq(Steps) /\ (r.state = "needs_agent" => PlanSpooled(<<Emit(e)>>, at))
  <2> PICK e : e = Event("handoff_source_id", s, r)
    OBVIOUS
  <2>1. /\ e.record = r /\ e.kind = "handoff_source_id"
        /\ Emit(e) \in Steps /\ Emit(e).do = "emit" /\ Emit(e).event = e
    BY <1>5
  <2>2. ~ShardCoupled(e)
    BY <2>1 DEF ShardCoupled
  <2>3. r.state = "needs_agent" => PlanSpooled(<<Emit(e)>>, at)
    BY <1>1, <2>1, <2>2 DEF PlanSpooled, StepSpooled
  <2> QED
    BY <1>1, <2>1, <2>3
<1> QED
  BY <1>1, <1>2, <1>3, <1>4, <1>6, <1>7, <1>8, <1>9

\* Publishing a record of the run's time.
LEMMA PublishSpooled ==
  ASSUME NEW s \in Sources, NEW r \in Records, NEW rewrites \in BOOLEAN, NEW at, r.at = at
  PROVE  /\ Publish(s, r, rewrites) \in Seq(Steps) /\ PlanSpooled(Publish(s, r, rewrites), at)
         /\ \E i \in 1 .. Len(Publish(s, r, rewrites)) :
               Publish(s, r, rewrites)[i].do = "save" /\ Publish(s, r, rewrites)[i].source = s
<1> PICK e : e = Event("citation_rewrite", s, r)
  OBVIOUS
<1>1. /\ <<Emit(e)>> \in Seq(Steps) /\ <<Save(s, r)>> \in Seq(Steps) /\ <<Commit(e)>> \in Seq(Steps)
      /\ ShardCoupled(e) /\ PlanSpooled(<<Emit(e)>>, at) /\ PlanSpooled(<<Save(s, r)>>, at)
  BY SpooledSteps
<1>2. Save(s, r) \in Steps /\ Emit(e) \in Steps /\ Commit(e) \in Steps
  BY <1>1
<1>3. CASE rewrites
  <2> PICK p : p = <<Emit(e), Save(s, r), Commit(e)>>
    OBVIOUS
  <2>1. Publish(s, r, rewrites) = p
    BY <1>3 DEF Publish
  <2>2. /\ p \in Seq(Steps) /\ Len(p) = 3 /\ p[1] = Emit(e) /\ p[2] = Save(s, r) /\ p[3] = Commit(e)
    BY <1>2
  <2>3. /\ Emit(e).do = "emit" /\ Emit(e).event = e
        /\ Save(s, r).do = "save" /\ Save(s, r).source = s /\ Save(s, r).record = r
        /\ Commit(e).do = "commit" /\ Commit(e).event = e
    BY DEF Emit, Save, Commit
  <2>4. e.record = r /\ ~HandsOver(e)
    BY DEF Event, HandsOver
  <2>5. StepSpooled(p, 1, at) /\ StepSpooled(p, 2, at)
    BY <2>2, <2>3, <2>4 DEF StepSpooled
  <2>6. StepSpooled(p, 3, at)
    <3>1. 1 \in 1 .. 3 - 1 /\ p[1].do = "emit" /\ p[1].event = p[3].event
      BY <2>2, <2>3
    <3> QED
      BY <1>1, <2>2, <2>3, <3>1 DEF StepSpooled
  <2>7. \A i \in 1 .. 3 : i = 1 \/ i = 2 \/ i = 3
    OBVIOUS
  <2>8. PlanSpooled(p, at)
    BY <2>2, <2>5, <2>6, <2>7 DEF PlanSpooled
  <2>9. 2 \in 1 .. Len(p) /\ p[2].do = "save" /\ p[2].source = s
    BY <2>2, <2>3
  <2> QED
    BY <2>1, <2>2, <2>8, <2>9
<1>4. CASE ~rewrites
  <2> PICK p : p = <<Save(s, r)>>
    OBVIOUS
  <2>1. Publish(s, r, rewrites) = p
    BY <1>4 DEF Publish
  <2>2. 1 \in 1 .. Len(p) /\ p[1].do = "save" /\ p[1].source = s
    BY DEF Save
  <2> QED
    BY <1>1, <2>1, <2>2
<1> QED
  BY <1>3, <1>4

\* A record that a function on records changes has the time of the run.
LEMMA RecordsTimed ==
  ASSUME NEW r \in Records, NEW now \in Nat, NEW bytes
  PROVE  /\ RecoverStale(r, now).at = now /\ ExtractingRecord(r, now).at = now
         /\ RefreshMatchingBytes(r, now) # r => RefreshMatchingBytes(r, now).at = now
         /\ MarkIntegrityError(r, bytes, now) # r => MarkIntegrityError(r, bytes, now).at = now
         /\ MarkMissing(r, now) # r => MarkMissing(r, now).at = now
         /\ \A f : RenameRecord(r, f, now).at = now
         /\ Activated(r).at = r.at /\ HandedOff(r).at = r.at
BY DEF RecoverStale, ExtractingRecord, RefreshMatchingBytes, MarkIntegrityError, MarkMissing,
       RenameRecord, Activated, HandedOff, Records

\* The next plan of a sync that reconciles.
LEMMA PlanLaid ==
  ASSUME Inv, CommandHolds, command # Idle, command.plan = <<>>, command.phase = "reconcile",
         UNCHANGED disk,
         NEW plan, PlanSpooled(plan, command.at),
         NEW todo, NEW batch, NEW jobs, JobsTimed(jobs, plan, command.at),
         command' = [command EXCEPT !.todo = todo, !.batch = batch, !.jobs = jobs, !.plan = plan]
  PROVE  CommandHolds'
<1> PICK c : c = [command EXCEPT !.todo = todo, !.batch = batch, !.jobs = jobs, !.plan = plan]
  OBVIOUS
<1>1. command \in CommandSet /\ WorkSpooled(command)
  BY DEF Inv, Typed, CommandHolds, CommandSpooled, Working
<1> PICK at : at = command.at
  OBVIOUS
<1>2. /\ c.plan = plan /\ c.jobs = jobs /\ c.phase = "reconcile" /\ c.at = at
      /\ c.name = command.name /\ command' = c
  BY <1>1 DEF CommandSet
<1>3. UNCHANGED <<ledger, journal, staged, pending>>
  BY DEF disk
<1>4. PlanSpooled(plan, at)' /\ JobsTimed(jobs, plan, at)'
  BY <1>3 DEF PlanSpooled, StepSpooled, JobsTimed
<1>5. WorkSpooled(c)'
  BY <1>1, <1>2, <1>3, <1>4 DEF WorkSpooled
<1>6. CommandSpooled(c)'
  BY <1>2, <1>5 DEF CommandSpooled, EndSpooled
<1> QED
  BY <1>2, <1>6 DEF CommandHolds

\* The records of the extractions under way are there, at the time of the run.
LEMMA Reconciles ==
  ASSUME Inv, CommandHolds, command # Idle, command.plan = <<>>, command.phase = "reconcile"
  PROVE  /\ command \in CommandSet /\ PhaseOf(command) /\ command.at \in Nat
         /\ ledger \in [Sources -> Records \union {NoRecord}]
         /\ \A s \in command.jobs : ledger[s] \in Records /\ ledger[s].at = command.at
         /\ \A request \in command.batch : request \in Requests
         /\ \A jobs \in SUBSET command.jobs : \A plan : JobsTimed(jobs, plan, command.at)
<1>1. command \in CommandSet /\ WorkSpooled(command) /\ PhaseOf(command)
  BY DEF Inv, Typed, CommandHolds, CommandSpooled, Working, PhaseHolds
<1>2. \A s \in command.jobs : ledger[s] \in Records /\ ledger[s].at = command.at
  BY <1>1 DEF WorkSpooled, JobsTimed
<1>3. \A request \in command.batch : request \in Requests
  BY <1>1 DEF CommandSet
<1> QED
  BY <1>1, <1>2, <1>3, BoundsAreNaturals DEF JobsTimed, Inv, Typed, CommandSet

\* A file in its place, a moved one and a new one.
LEMMA ReconcileFileSpools ==
  ASSUME Inv, CommandHolds, NEW s \in Sources, ReconcileFile(s)
  PROVE  CommandHolds'
<1>f. PICK f : f = FileOf(s)
  OBVIOUS
<1>now. PICK now : now = command.at
  OBVIOUS
<1>created. PICK created \in BOOLEAN : created = (ledger[s] = NoRecord)
  OBVIOUS
<1>renamed. PICK renamed \in BOOLEAN : renamed = (~created /\ ledger[s].path # f.path)
  OBVIOUS
<1>r. PICK r : r = IF created THEN NewRecord(f, now)
                 ELSE IF renamed THEN RenameRecord(ledger[s], f, now) ELSE ledger[s]
  OBVIOUS
<1>stale. PICK stale \in BOOLEAN : stale = (r.state = "extracting")
  OBVIOUS
<1>awake. PICK awake : awake = IF stale THEN RecoverStale(r, now) ELSE r
  OBVIOUS
<1>same. PICK same \in BOOLEAN : same = (f.bytes = r.content)
  OBVIOUS
<1>next. PICK next : next = IF same THEN RefreshMatchingBytes(awake, now)
                       ELSE MarkIntegrityError(awake, f.bytes, now)
  OBVIOUS
<1>process. PICK process \in BOOLEAN : process = (same /\ MustProcess(next))
  OBVIOUS
<1>rewrites. PICK rewrites \in BOOLEAN : rewrites = (renamed /\ ~stale)
  OBVIOUS
<1>changed. PICK changed \in BOOLEAN : changed = (next # awake \/ ((created \/ renamed) /\ ~stale))
  OBVIOUS
<1>recovery. PICK recovery : recovery = IF stale THEN Publish(s, awake, renamed) ELSE <<>>
  OBVIOUS
<1>outcome. PICK outcome : outcome = IF ~process /\ changed THEN Publish(s, next, rewrites) ELSE <<>>
  OBVIOUS
<1>request. PICK request : request = [source |-> s, record |-> next, rewrites |-> rewrites]
  OBVIOUS
<1>batch. PICK batch : batch = IF process THEN command.batch \union {request} ELSE command.batch
  OBVIOUS
<1>1. /\ command # Idle /\ command.plan = <<>> /\ command.phase = "reconcile"
      /\ UNCHANGED <<raw, disk, clock, edits, history, faults>> /\ f # Gone
  BY <1>f DEF ReconcileFile, Reconciling, InPhase
<1>2. command' = [command EXCEPT !.todo = @ \ {s}, !.batch = batch, !.plan = recovery \o outcome]
  BY <1>f, <1>now, <1>created, <1>renamed, <1>r, <1>stale, <1>awake, <1>same,
     <1>next, <1>process, <1>rewrites, <1>changed,
     <1>recovery, <1>outcome, <1>request, <1>batch DEF ReconcileFile
<1>3. /\ command \in CommandSet /\ PhaseOf(command) /\ now \in Nat
      /\ ledger \in [Sources -> Records \union {NoRecord}]
  BY <1>1, <1>now, Reconciles
<1>4. f \in Files /\ f.bytes \in Bytes
  <2>1. command.seen[s] \in Files
    BY <1>1, <1>3 DEF PhaseOf
  <2>2. f \in Files
    BY <1>f, <2>1 DEF FileOf, Files
  <2> QED
    BY <1>1, <2>2 DEF Files
<1>5. r \in Records /\ ((created \/ renamed) => r.at = now)
  <2>1. NewRecord(f, now) \in Records /\ NewRecord(f, now).at = now
    BY <1>1, <1>3, <1>4, RecordsOfFiles DEF NewRecord
  <2>2. ~created => ledger[s] \in Records
    BY <1>3, <1>created
  <2>3. ~created => RenameRecord(ledger[s], f, now) \in Records
                    /\ RenameRecord(ledger[s], f, now).at = now
    BY <1>1, <1>3, <1>4, <2>2, RecordsOfFiles, RecordsTimed
  <2> QED
    BY <1>r, <2>1, <2>2, <2>3
<1>6. awake \in Records /\ (stale \/ created \/ renamed => awake.at = now)
  BY <1>3, <1>4, <1>5, <1>awake, RecordsStay, RecordsTimed
<1>7. next \in Records /\ (next # awake => next.at = now)
  BY <1>3, <1>4, <1>6, <1>next, RecordsStay, RecordsTimed
<1>8. changed => next.at = now
  BY <1>6, <1>7, <1>changed
<1>9. recovery \in Seq(Steps) /\ PlanSpooled(recovery, now)
  BY <1>6, <1>recovery, PublishSpooled, SpooledSteps
<1>10. outcome \in Seq(Steps) /\ PlanSpooled(outcome, now)
  BY <1>7, <1>8, <1>outcome, PublishSpooled, SpooledSteps
<1>plan. PICK plan : plan = recovery \o outcome
  OBVIOUS
<1>11. PlanSpooled(plan, now)
  BY <1>9, <1>10, <1>plan, SpooledConcat DEF PlanSpooled
<1>12. JobsTimed(command.jobs, plan, now)
  BY <1>1, <1>now, Reconciles
<1>13. command' = [command EXCEPT !.todo = command.todo \ {s}, !.batch = batch,
                                  !.jobs = command.jobs, !.plan = plan]
  BY <1>2, <1>3, <1>plan DEF CommandSet
<1> QED
  BY <1>1, <1>11, <1>12, <1>13, <1>now, PlanLaid

\* A source without its file: its record is recovered and marked missing.
LEMMA ReconcileAbsentSpools ==
  ASSUME Inv, CommandHolds, NEW s \in Sources, ReconcileAbsent(s)
  PROVE  CommandHolds'
<1>r. PICK r : r = ledger[s]
  OBVIOUS
<1>stale. PICK stale \in BOOLEAN : stale = (r # NoRecord /\ r.state = "extracting")
  OBVIOUS
<1>awake. PICK awake : awake = IF stale THEN RecoverStale(r, command.at) ELSE r
  OBVIOUS
<1>recovery. PICK recovery : recovery = IF stale THEN <<Save(s, awake)>> ELSE <<>>
  OBVIOUS
<1>outcome. PICK outcome :
    outcome = IF r = NoRecord \/ MarkMissing(awake, command.at) = awake
              THEN <<>> ELSE <<Save(s, MarkMissing(awake, command.at))>>
  OBVIOUS
<1>plan. PICK plan : plan = recovery \o outcome
  OBVIOUS
<1>1. /\ command # Idle /\ command.plan = <<>> /\ command.phase = "reconcile"
      /\ UNCHANGED <<raw, disk, clock, edits, history, faults>>
  BY DEF ReconcileAbsent, BatchDone, FilesReconciled, InPhase
<1>2. command' = [command EXCEPT !.todo = @ \ {s}, !.plan = plan]
  BY <1>r, <1>stale, <1>awake, <1>recovery, <1>outcome, <1>plan DEF ReconcileAbsent
<1>3. command \in CommandSet /\ command.at \in Nat /\ r \in Records \union {NoRecord}
  BY <1>1, <1>r, Reconciles
<1>4. <<>> \in Seq(Steps) /\ PlanSpooled(<<>>, command.at)
  BY DEF PlanSpooled
<1>5. r = NoRecord => recovery = <<>> /\ outcome = <<>>
  BY <1>stale, <1>recovery, <1>outcome
<1>6. r \in Records => /\ awake \in Records /\ (stale => awake.at = command.at)
                       /\ MarkMissing(awake, command.at) \in Records
                       /\ MarkMissing(awake, command.at) # awake =>
                             MarkMissing(awake, command.at).at = command.at
  <2>1. \A n \in Records : /\ RecoverStale(n, command.at) \in Records
                           /\ MarkMissing(n, command.at) \in Records
    BY <1>3, RecordsStay
  <2>2. \A n \in Records : /\ RecoverStale(n, command.at).at = command.at
                           /\ MarkMissing(n, command.at) # n => MarkMissing(n, command.at).at = command.at
    BY <1>3, RecordsTimed
  <2> QED
    BY <1>awake, <2>1, <2>2
<1>7. /\ recovery \in Seq(Steps) /\ PlanSpooled(recovery, command.at)
      /\ outcome \in Seq(Steps) /\ PlanSpooled(outcome, command.at)
  BY <1>3, <1>4, <1>5, <1>6, <1>stale, <1>recovery, <1>outcome, SpooledSteps
<1>8. PlanSpooled(plan, command.at)
  BY <1>7, <1>plan, SpooledConcat DEF PlanSpooled
<1>9. JobsTimed(command.jobs, plan, command.at)
  BY <1>1, Reconciles
<1>10. command' = [command EXCEPT !.todo = command.todo \ {s}, !.batch = command.batch,
                                 !.jobs = command.jobs, !.plan = plan]
  BY <1>2, <1>3 DEF CommandSet
<1> QED
  BY <1>1, <1>8, <1>9, <1>10, PlanLaid

\* An extraction starts: its record gets the time of the run.
LEMMA StartJobSpools ==
  ASSUME Inv, CommandHolds, command # Idle, NEW request \in command.batch, StartJob(request)
  PROVE  CommandHolds'
<1>s. PICK s : s = request.source
  OBVIOUS
<1>r. PICK r : r = ExtractingRecord(request.record, command.at)
  OBVIOUS
<1>rest. PICK rest : rest = Publish(s, r, request.rewrites)
  OBVIOUS
<1>plan. PICK plan : plan = <<Check(s)>> \o rest
  OBVIOUS
<1>jobs. PICK jobs : jobs = command.jobs \union {s}
  OBVIOUS
<1>1. /\ command.plan = <<>> /\ command.phase = "reconcile"
      /\ UNCHANGED <<raw, disk, clock, edits, history, faults>>
  BY DEF StartJob, FilesReconciled, InPhase
<1>2. command' = [command EXCEPT !.batch = @ \ {request}, !.jobs = jobs, !.plan = plan]
  BY <1>s, <1>r, <1>rest, <1>plan, <1>jobs DEF StartJob
<1>3. /\ command \in CommandSet /\ command.at \in Nat /\ request \in Requests
      /\ \A x \in command.jobs : ledger[x] \in Records /\ ledger[x].at = command.at
  BY <1>1, Reconciles
<1>4. s \in Sources /\ request.record \in Records /\ request.rewrites \in BOOLEAN
  BY <1>3, <1>s DEF Requests
<1>5. r \in Records /\ r.at = command.at
  BY <1>3, <1>4, <1>r DEF ExtractingRecord, Records, States, Attempts
<1>6. /\ rest \in Seq(Steps) /\ PlanSpooled(rest, command.at)
      /\ \E i \in 1 .. Len(rest) : rest[i].do = "save" /\ rest[i].source = s
  BY <1>4, <1>5, <1>rest, PublishSpooled
<1>7. <<Check(s)>> \in Seq(Steps) /\ PlanSpooled(<<Check(s)>>, command.at)
  BY <1>4, <1>5, SpooledSteps
<1>8. PlanSpooled(plan, command.at)
  BY <1>6, <1>7, <1>plan, SpooledConcat DEF PlanSpooled
<1>9. JobsTimed(jobs, plan, command.at)
  <2>1. PICK i \in 1 .. Len(rest) : rest[i].do = "save" /\ rest[i].source = s
    BY <1>6
  <2>2. /\ Len(<<Check(s)>>) = 1 /\ Len(plan) = Len(<<Check(s)>>) + Len(rest) /\ Len(rest) \in Nat
        /\ \A k \in 1 .. Len(rest) : plan[Len(<<Check(s)>>) + k] = rest[k]
    BY <1>6, <1>7, <1>plan, ConcatSteps
  <2>3. 1 + i \in 1 .. Len(plan) /\ plan[1 + i] = rest[i]
    BY <2>2
  <2> QED
    BY <1>3, <1>jobs, <2>1, <2>3 DEF JobsTimed
<1>10. command' = [command EXCEPT !.todo = command.todo, !.batch = command.batch \ {request},
                                  !.jobs = jobs, !.plan = plan]
  BY <1>2, <1>3 DEF CommandSet
<1> QED
  BY <1>1, <1>8, <1>9, <1>10, PlanLaid

\* The plan of a guarded activation announces it at the record's time.
LEMMA ActivationSpooled ==
  ASSUME NEW s \in Sources, NEW r \in Records, NEW at, r.at = at
  PROVE  PlanSpooled(<<Check(s)>> \o Activation(s, r, TRUE), at)
<1> PICK final : final = Activated(r)
  OBVIOUS
<1> PICK e : e = Event("new_active_representation", s, final)
  OBVIOUS
<1> PICK four : four = <<Guard(s, r, final), Save(s, final), Check(s), Clear(s, final)>>
  OBVIOUS
<1>1. final \in Records /\ final.at = at
  BY DEF Activated, Records, States, Attempts
<1>2. /\ <<Emit(e)>> \in Seq(Steps) /\ <<Commit(e)>> \in Seq(Steps) /\ ShardCoupled(e)
      /\ PlanSpooled(<<Emit(e)>>, at)
      /\ <<Check(s)>> \in Seq(Steps) /\ PlanSpooled(<<Check(s)>>, at)
  BY <1>1, SpooledSteps
<1>3. /\ four \in Seq(Steps) /\ Len(four) = 4
      /\ four[1] = Guard(s, r, final) /\ four[2] = Save(s, final)
      /\ four[3] = Check(s) /\ four[4] = Clear(s, final)
  BY ActivationSteps
<1>4. PlanSpooled(four, at)
  <2>1. /\ Guard(s, r, final).do = "guard" /\ Check(s).do = "check" /\ Clear(s, final).do = "clear"
        /\ Save(s, final).do = "save" /\ Save(s, final).record = final
    BY DEF Guard, Check, Clear, Save
  <2>2. \A i \in 1 .. 4 : i = 1 \/ i = 2 \/ i = 3 \/ i = 4
    OBVIOUS
  <2> QED
    BY <1>1, <1>3, <2>1, <2>2 DEF PlanSpooled, StepSpooled
<1> PICK five : five = <<Emit(e)>> \o four
  OBVIOUS
<1>5. five \in Seq(Steps) /\ PlanSpooled(five, at)
  BY <1>2, <1>3, <1>4, SpooledConcat DEF PlanSpooled
<1> PICK last : last = <<Commit(e)>>
  OBVIOUS
<1> PICK six : six = five \o last
  OBVIOUS
<1>6. six \in Seq(Steps) /\ PlanSpooled(six, at)
  <2>1. /\ Len(<<Emit(e)>>) = 1 /\ Len(five) = Len(<<Emit(e)>>) + Len(four)
        /\ \A i \in 1 .. Len(<<Emit(e)>>) : five[i] = <<Emit(e)>>[i]
    BY <1>2, <1>3, ConcatSteps
  <2>2. 1 \in 1 .. Len(five) /\ five[1].do = "emit" /\ five[1].event = e
    BY <1>3, <2>1 DEF Emit
  <2>3. Len(last) = 1 /\ last[1].do = "commit" /\ last[1].event = e /\ last \in Seq(Steps)
    BY <1>2 DEF Commit
  <2> QED
    BY <1>2, <1>5, <2>2, <2>3, CommitAfter
<1>7. Activation(s, r, TRUE) = six
  BY DEF Activation
<1> QED
  BY <1>2, <1>6, <1>7, SpooledConcat DEF PlanSpooled

\* A result comes back: a derivation is activated and announced, a handoff saved.
LEMMA JobDoneSpools ==
  ASSUME Inv, CommandHolds, NEW s \in Sources, NEW activates \in BOOLEAN, JobDone(s, activates)
  PROVE  CommandHolds'
<1>h. PICK handed : handed = <<Check(s)>> \o <<Save(s, HandedOff(ledger[s]))>>
  OBVIOUS
<1>a. PICK activation : activation = <<Check(s)>> \o Activation(s, ledger[s], TRUE)
  OBVIOUS
<1>plan. PICK plan : plan = IF activates THEN activation ELSE handed
  OBVIOUS
<1>jobs. PICK jobs : jobs = command.jobs \ {s}
  OBVIOUS
<1>1. /\ command # Idle /\ command.plan = <<>> /\ command.phase = "reconcile"
      /\ UNCHANGED <<raw, disk, clock, edits, history, faults>> /\ s \in command.jobs
  BY DEF JobDone, FilesReconciled, InPhase
<1>2. command' = [command EXCEPT !.jobs = jobs, !.plan = plan]
  BY <1>h, <1>a, <1>plan, <1>jobs DEF JobDone
<1>3. command \in CommandSet /\ command.at \in Nat
      /\ ledger[s] \in Records /\ ledger[s].at = command.at
  BY <1>1, Reconciles
<1>4. PlanSpooled(activation, command.at)
  BY <1>3, <1>a, ActivationSpooled
<1>5. PlanSpooled(handed, command.at)
  <2>1. HandedOff(ledger[s]) \in Records /\ HandedOff(ledger[s]).at = command.at
    BY <1>3 DEF HandedOff, Records, States, Attempts
  <2> QED
    BY <1>h, <2>1, SpooledSteps, SpooledConcat DEF PlanSpooled
<1>6. JobsTimed(jobs, plan, command.at)
  <2>1. jobs \in SUBSET command.jobs
    BY <1>jobs
  <2> QED
    BY <1>1, <2>1, Reconciles
<1>7. command' = [command EXCEPT !.todo = command.todo, !.batch = command.batch,
                                  !.jobs = jobs, !.plan = plan]
  BY <1>2, <1>3 DEF CommandSet
<1> QED
  BY <1>1, <1>4, <1>5, <1>6, <1>7, <1>plan, PlanLaid

\* A sync that goes on in one of its working phases, with nothing planned.
LEMMA WorkGoesOn ==
  ASSUME NEW c, c.phase \in Working, c.plan = <<>>,
         pending' = NoResult, staged' = NoResult, c.at = journal'.at, c.name = journal'.command,
         c.phase = "reconcile" => \A s \in c.jobs : ledger'[s] \in Records /\ ledger'[s].at = c.at,
         c.phase = "observe" => \A s \in c.todo : NeedsAgent(s)',
         c.phase = "published" => DurableItems' \subseteq handoffs'
  PROVE  CommandSpooled(c)'
<1>1. Len(<<>>) = 0 /\ \A i \in 1 .. Len(<<>>) : FALSE
  OBVIOUS
<1>2. PlanSpooled(<<>>, c.at)'
  BY <1>1 DEF PlanSpooled
<1>3. WorkSpooled(c)'
  BY <1>1, <1>2 DEF WorkSpooled, JobsTimed
<1> QED
  BY <1>3 DEF CommandSpooled, EndSpooled, Working

\* The phases from the opening of the journal to its reconciliation.
LEMMA OpeningSpools ==
  ASSUME Inv, CommandHolds, OpenNew \/ WriteHeader \/ OpenResumed \/ HashUnmatched
  PROVE  CommandHolds'
<1> PICK c : c = command'
  OBVIOUS
<1>0. command # Idle /\ command \in CommandSet /\ PhaseOf(command) /\ command.plan = <<>>
  BY DEF Inv, Typed, PhaseHolds, OpenNew, WriteHeader, OpenResumed, HashUnmatched, Opening, InPhase
<1>1. CASE OpenNew
  <2>1. c = [command EXCEPT !.phase = "header", !.seen = raw, !.at = clock']
    BY <1>1 DEF OpenNew
  <2>2. /\ c.phase = "header" /\ c.plan = <<>> /\ c.at = clock' /\ c.name = command.name
        /\ journal'.at = clock' /\ journal'.command = command.name
        /\ pending' = NoResult /\ staged' = NoResult
    BY <1>0, <1>1, <2>1 DEF OpenNew, Unspooled, CommandSet
  <2> QED
    BY <2>2, WorkGoesOn DEF CommandHolds, Working
<1>2. CASE WriteHeader
  <2>1. c = [command EXCEPT !.phase = "hash"] /\ WorkSpooled(command) /\ journal \in Journals
    BY <1>0, <1>2, AtPhase DEF WriteHeader, Working
  <2>2. /\ c.phase = "hash" /\ c.plan = <<>> /\ c.at = command.at /\ c.name = command.name
        /\ journal'.at = journal.at /\ journal'.command = journal.command
        /\ pending' = pending /\ staged' = staged
    BY <1>0, <1>2, <2>1 DEF WriteHeader, CommandSet, Journals
  <2>3. /\ pending' = NoResult /\ staged' = NoResult
        /\ c.at = journal'.at /\ c.name = journal'.command
    BY <2>1, <2>2 DEF WorkSpooled
  <2> QED
    BY <2>2, <2>3, WorkGoesOn DEF CommandHolds, Working
<1>3. CASE OpenResumed
  <2>1. c = [command EXCEPT !.phase = "hash", !.seen = raw, !.at = journal.at, !.resumed = TRUE]
    BY <1>3 DEF OpenResumed
  <2>2. /\ c.phase = "hash" /\ c.plan = <<>> /\ c.at = journal.at /\ c.name = command.name
        /\ journal' = journal /\ journal.command = command.name
        /\ pending' = NoResult /\ staged' = NoResult
    BY <1>0, <1>3, <2>1 DEF OpenResumed, Unspooled, CommandSet, disk
  <2> QED
    BY <2>2, WorkGoesOn DEF CommandHolds, Working
<1>4. CASE HashUnmatched
  <2>1. /\ WorkSpooled(command) /\ command.jobs = {} /\ command.phase = "hash"
    BY <1>0, <1>4, AtPhase DEF HashUnmatched, Working, PhaseOf
  <2>2. /\ c.phase = "reconcile" /\ c.plan = <<>> /\ c.at = command.at /\ c.name = command.name
        /\ c.jobs = {} /\ UNCHANGED <<journal, pending, staged>>
    BY <1>0, <1>4, <2>1 DEF HashUnmatched, CommandSet, disk
  <2>3. \A s \in c.jobs : FALSE
    BY <2>2
  <2>4. /\ pending' = NoResult /\ staged' = NoResult
        /\ c.at = journal'.at /\ c.name = journal'.command
    BY <2>1, <2>2 DEF WorkSpooled
  <2> QED
    BY <2>2, <2>3, <2>4, WorkGoesOn DEF CommandHolds, Working
<1> QED
  BY <1>1, <1>2, <1>3, <1>4

\* The sources to hand over are observed, and their items published.
LEMMA ObservingSpools ==
  ASSUME Inv, CommandHolds,
         Reconciled \/ (\E s \in Sources : ReconcileUnverified(s) \/ Observe(s)) \/ PublishHandoffs
  PROVE  CommandHolds'
<1> PICK c : c = command'
  OBVIOUS
<1>0. /\ command # Idle /\ command \in CommandSet /\ command.plan = <<>>
      /\ command.phase \in {"reconcile", "observe"} /\ WorkSpooled(command)
  BY DEF Inv, Typed, Reconciled, BatchDone, FilesReconciled, ReconcileUnverified, Reconciling,
         Observe, PublishHandoffs, Publishing, InPhase, CommandHolds, CommandSpooled, Working
<1>1. CASE Reconciled
  <2>1. /\ c.phase = "observe" /\ c.plan = <<>> /\ c.at = command.at /\ c.name = command.name
        /\ c.todo = {s \in Sources : NeedsAgent(s)}
        /\ UNCHANGED <<ledger, journal, pending, staged>>
    BY <1>0, <1>1 DEF Reconciled, CommandSet, disk
  <2>2. \A s \in c.todo : NeedsAgent(s)'
    BY <2>1 DEF NeedsAgent
  <2> QED
    BY <1>0, <2>1, <2>2, WorkGoesOn DEF CommandHolds, Working, WorkSpooled
<1>2. ASSUME NEW s \in Sources, ReconcileUnverified(s)
      PROVE  CommandHolds'
  <2>1. /\ c.phase = "reconcile" /\ c.plan = <<>> /\ c.at = command.at /\ c.name = command.name
        /\ c.jobs = command.jobs /\ command.phase = "reconcile"
        /\ UNCHANGED <<ledger, journal, pending, staged>>
    BY <1>0, <1>2 DEF ReconcileUnverified, Reconciling, InPhase, CommandSet, disk
  <2>2. \A x \in c.jobs : ledger'[x] \in Records /\ ledger'[x].at = c.at
    BY <1>0, <2>1 DEF WorkSpooled, JobsTimed
  <2> QED
    BY <1>0, <2>1, <2>2, WorkGoesOn DEF CommandHolds, Working, WorkSpooled
<1>3. ASSUME NEW s \in Sources, Observe(s)
      PROVE  CommandHolds'
  <2>1. /\ command.phase = "observe" /\ s \in command.todo
        /\ UNCHANGED <<ledger, journal, pending, staged>>
        /\ c = [command EXCEPT !.todo = @ \ {s},
                  !.plan = <<Emit(Event("handoff_source_id", s, ledger[s]))>>]
    BY <1>3 DEF Observe, InPhase, disk
  <2> PICK e, at, plan : e = Event("handoff_source_id", s, ledger[s]) /\ at = command.at /\ plan = <<Emit(e)>>
    OBVIOUS
  <2>2. /\ c.phase = "observe" /\ c.plan = plan /\ c.at = at /\ c.name = command.name
        /\ c.todo = command.todo \ {s}
    BY <1>0, <2>1 DEF CommandSet
  <2>3. ledger[s] \in Records /\ ledger[s].state = "needs_agent" /\ NeedsAgent(s)
    BY <1>0, <2>1 DEF WorkSpooled, NeedsAgent, Inv, Typed
  <2>4. PlanSpooled(plan, at)
    BY <2>3, SpooledSteps
  <2>5. Len(plan) = 1 /\ plan[1].do = "emit" /\ \A i \in 1 .. 1 : i = 1
    BY DEF Emit
  <2>6. PlanSpooled(plan, at)'
    BY <2>1, <2>4 DEF PlanSpooled, StepSpooled
  <2>7. WorkSpooled(c)'
    BY <1>0, <2>1, <2>2, <2>5, <2>6 DEF WorkSpooled, NeedsAgent
  <2> QED
    BY <2>2, <2>7 DEF CommandHolds, CommandSpooled, EndSpooled
<1>4. CASE PublishHandoffs
  <2>1. /\ c.phase = "published" /\ c.plan = <<>> /\ c.at = command.at /\ c.name = command.name
        /\ UNCHANGED <<ledger, journal, pending, staged>> /\ handoffs' = handoffs \union DurableItems
    BY <1>0, <1>4 DEF PublishHandoffs, CommandSet
  <2>2. DurableItems' \subseteq handoffs'
    BY <2>1 DEF DurableItems, NeedsAgent
  <2> QED
    BY <1>0, <2>1, <2>2, WorkGoesOn DEF CommandHolds, Working, WorkSpooled
<1> QED
  BY <1>1, <1>2, <1>3, <1>4

\* From the staged run to the client's acknowledgement.
LEMMA EndingSpools ==
  ASSUME Inv, Spool, CommandHolds,
         \/ OpenPending \/ OpenStaged \/ Stage \/ Finalize \/ SavePending
         \/ DropJournal \/ DropRefused \/ DropStaged \/ Acknowledge \/ DropPending
         \/ \E m \in manifests : StartAcknowledge(m) \/ StartReacknowledge(m)
  PROVE  CommandHolds'
<1> PICK c : c = command'
  OBVIOUS
<1>e. ASSUME c.plan = <<>>, c.phase \notin Working, EndSpooled(c)'
      PROVE  CommandHolds'
  BY <1>e DEF CommandHolds, CommandSpooled
<1>m. NoResult \notin manifests
  BY NoResultIsNone DEF Spool, SpoolTyped
<1>1. CASE OpenPending
  <2>1. /\ command.op = "sync" /\ command.plan = <<>> /\ command \in CommandSet
        /\ pending # NoResult /\ pending' = pending /\ manifests' = manifests
        /\ c = [command EXCEPT !.phase = "drop_journal", !.target = pending]
    BY <1>1 DEF OpenPending, Opening, InPhase, Inv, Typed, disk
  <2>2. c.op = "sync" /\ c.plan = <<>> /\ c.phase = "drop_journal" /\ c.target = pending
    BY <2>1 DEF CommandSet
  <2>3. pending \in manifests
    BY <2>1 DEF Inv, Typed, TypeOK
  <2> QED
    BY <1>e, <2>1, <2>2, <2>3 DEF EndSpooled, Working
<1>2. CASE OpenStaged
  <2>1. /\ command.plan = <<>> /\ command \in CommandSet
        /\ pending = NoResult /\ staged # NoResult /\ journal # NoJournal
        /\ staged.checkpoint = ledger /\ UNCHANGED <<pending, staged, journal, ledger>>
        /\ c = [command EXCEPT !.phase = "finalize"]
    BY <1>2 DEF OpenStaged, StagedIsCurrent, Opening, InPhase, Inv, Typed, disk
  <2>2. c.plan = <<>> /\ c.phase = "finalize"
    BY <2>1 DEF CommandSet
  <2> QED
    BY <1>e, <2>1, <2>2 DEF EndSpooled, Working
<1>3. CASE Stage
  <2>1. /\ command \in CommandSet /\ command.plan = <<>> /\ WorkSpooled(command)
        /\ journal \in Journals /\ journal # NoJournal
        /\ PhaseOf(command) /\ command.phase = "published"
    BY <1>3, AtPhase DEF Stage, Working
  <2>2. /\ c = [command EXCEPT !.phase = "finalize"] /\ UNCHANGED <<pending, journal, ledger>>
        /\ staged' = [command |-> command.name, at |-> journal.at, corpus |-> CorpusRevision,
                      checkpoint |-> ledger, log |-> journal.log]
    BY <1>3 DEF Stage
  <2>3. staged' \in Staged
    <3>1. command.name \in Commands
      BY <1>3, AtPhase DEF Stage, PhaseOf, Working
    <3>2. ledger \in [Sources -> Records \union {NoRecord}]
      BY DEF Inv, Typed
    <3> QED
      BY <2>1, <2>2, <3>1, <3>2, CorpusTyped DEF Staged, Journals
  <2>4. staged' # NoResult /\ staged'.checkpoint = ledger /\ pending' = NoResult
    BY <2>1, <2>2, <2>3, NoResultIsNone DEF WorkSpooled
  <2>5. c.plan = <<>> /\ c.phase = "finalize"
    BY <2>1, <2>2 DEF CommandSet
  <2> QED
    BY <1>e, <2>1, <2>2, <2>4, <2>5 DEF EndSpooled, Working
<1>4. CASE Finalize
  <2> PICK m : m = Manifest(journal.command, journal.at, staged.corpus, journal.log)
    OBVIOUS
  <2>1. /\ command \in CommandSet /\ command.plan = <<>>
        /\ pending = NoResult /\ staged # NoResult /\ journal # NoJournal
        /\ staged.checkpoint = ledger
    BY <1>4, AtPhase DEF Finalize, EndSpooled
  <2>2. /\ c = [command EXCEPT !.phase = "save_pending", !.target = m]
        /\ UNCHANGED <<pending, staged, journal, ledger>>
    BY <1>4 DEF Finalize
  <2>3. m = ResultOf(staged)
    BY <2>1, FinalizesStaged DEF Spool, SpoolAgrees
  <2>4. c.plan = <<>> /\ c.phase = "save_pending" /\ c.target = ResultOf(staged')
    BY <2>1, <2>2, <2>3 DEF CommandSet
  <2> QED
    BY <1>e, <2>1, <2>2, <2>4 DEF EndSpooled, Working
<1>5. CASE SavePending
  <2>1. /\ command \in CommandSet /\ command.plan = <<>> /\ command.op = "sync"
        /\ command.target \in manifests
    BY <1>5, AtPhase DEF SavePending, PhaseOf
  <2>2. /\ c = [command EXCEPT !.phase = "drop_journal"] /\ pending' = command.target
        /\ manifests' = manifests
    BY <1>5 DEF SavePending
  <2>3. /\ c.plan = <<>> /\ c.phase = "drop_journal" /\ c.op = "sync"
        /\ c.target = command.target
    BY <2>1, <2>2 DEF CommandSet
  <2> QED
    BY <1>e, <2>1, <2>2, <2>3 DEF EndSpooled, Working
<1>6. CASE DropJournal
  <2>1. /\ command \in CommandSet /\ command.plan = <<>> /\ command.target \in manifests
        /\ command.op \in {"sync", "acknowledge"} /\ pending = command.target
    BY <1>6, AtPhase, CompletesPending DEF DropJournal, EndSpooled
  <2>2. /\ c = [command EXCEPT !.phase = "drop_staged"] /\ journal' = NoJournal
        /\ UNCHANGED <<pending, manifests>>
    BY <1>6 DEF DropJournal
  <2>3. /\ c.plan = <<>> /\ c.phase = "drop_staged" /\ c.op = command.op
        /\ c.target = command.target
    BY <2>1, <2>2 DEF CommandSet
  <2> QED
    BY <1>e, <2>1, <2>2, <2>3 DEF EndSpooled, Working
<1>7. CASE DropRefused \/ DropPending
  BY <1>7 DEF DropRefused, DropPending, CommandHolds, CommandSpooled
<1>8. CASE DropStaged
  <2>1. /\ command \in CommandSet /\ command.plan = <<>> /\ command.target \in manifests
        /\ pending = command.target
    BY <1>8, AtPhase DEF DropStaged, EndSpooled
  <2>2. /\ c = (IF command.op = "acknowledge" THEN [command EXCEPT !.phase = "acknowledge"] ELSE Idle)
        /\ staged' = NoResult /\ UNCHANGED <<pending, manifests>>
    BY <1>8 DEF DropStaged
  <2>3. CASE command.op # "acknowledge"
    BY <2>2, <2>3 DEF CommandHolds, CommandSpooled
  <2>4. CASE command.op = "acknowledge"
    <3>1. c.plan = <<>> /\ c.phase = "acknowledge" /\ c.target = command.target
      BY <2>1, <2>2, <2>4 DEF CommandSet
    <3> QED
      BY <1>e, <2>1, <2>2, <3>1 DEF EndSpooled, Working
  <2> QED
    BY <2>3, <2>4
<1>9. CASE Acknowledge
  <2>1. /\ command \in CommandSet /\ command.plan = <<>> /\ command.target \in manifests
        /\ pending = command.target /\ staged = NoResult
    BY <1>9, AtPhase DEF Acknowledge, EndSpooled
  <2>2. c = [command EXCEPT !.phase = "drop_pending"] /\ UNCHANGED <<pending, staged, manifests>>
    BY <1>9 DEF Acknowledge
  <2>3. c.plan = <<>> /\ c.phase = "drop_pending" /\ c.target = command.target
    BY <2>1, <2>2 DEF CommandSet
  <2> QED
    BY <1>e, <2>1, <2>2, <2>3 DEF EndSpooled, Working
<1>10. ASSUME NEW m \in manifests, StartAcknowledge(m)
       PROVE  CommandHolds'
  <2>1. /\ pending = m /\ UNCHANGED <<pending, staged, manifests>>
        /\ c = NewCommand("acknowledge", "none",
                   IF staged # NoResult THEN "drop_journal" ELSE "acknowledge", {}, m)
    BY <1>10 DEF StartAcknowledge, disk
  <2>2. /\ c.plan = <<>> /\ c.op = "acknowledge" /\ c.target = m
        /\ c.phase = IF staged # NoResult THEN "drop_journal" ELSE "acknowledge"
    BY <2>1 DEF NewCommand
  <2> QED
    BY <1>e, <2>1, <2>2 DEF EndSpooled, Working
<1>11. ASSUME NEW m \in manifests, StartReacknowledge(m)
       PROVE  CommandHolds'
  <2>1. /\ pending # m /\ acknowledged = m /\ staged # NoResult /\ UNCHANGED <<staged, manifests, taken>>
        /\ c = NewCommand("reacknowledge", "none", "drop_journal", {}, m)
    BY <1>11 DEF StartReacknowledge, disk, history
  <2>2. m \in taken
    BY <1>m, <2>1 DEF Spool, SpoolAgrees
  <2>3. c.plan = <<>> /\ c.op = "reacknowledge" /\ c.target = m /\ c.phase = "drop_journal"
    BY <2>1 DEF NewCommand
  <2> QED
    BY <1>e, <2>1, <2>2, <2>3 DEF EndSpooled, Working
<1> QED
  BY <1>1, <1>2, <1>3, <1>4, <1>5, <1>6, <1>7, <1>8, <1>9, <1>10, <1>11

\* The steps that only change what a command remembers, the raw files or a record.
Recalls ==
    \/ CheckFails \/ StepFails \/ OpenPending \/ OpenStaged \/ OpenResumed \/ Refuse
    \/ HashUnmatched \/ Reconciled \/ Register \/ DropRefused
    \/ \E name \in Commands : StartSync(name)
    \/ \E s \in Sources : \/ RecoverGuard(s) \/ ReconcileAbsent(s) \/ ReconcileFile(s)
                          \/ ReconcileUnverified(s) \/ ReconcileFails(s) \/ Observe(s)
                          \/ Edit(s)
                          \/ \E activates \in BOOLEAN : JobDone(s, activates)
    \/ command # Idle /\ \E request \in command.batch : StartJob(request)
    \/ \E m \in manifests : StartAcknowledge(m) \/ StartReacknowledge(m)

\* Those steps leave the disk and the history alone.
LEMMA RecallsQuietly ==
  ASSUME Recalls
  PROVE  UNCHANGED <<disk, clock, history>>
BY DEF Recalls, CheckFails, StepFails, OpenPending, OpenStaged, OpenResumed, Refuse, HashUnmatched,
       Reconciled, Register, DropRefused, StartSync, RecoverGuard, ReconcileAbsent, ReconcileFile,
       ReconcileUnverified, ReconcileFails, Observe, JobDone, StartJob, Edit, StartAcknowledge,
       StartReacknowledge

\* Every kind of step.
LEMMA StepKinds ==
  ASSUME Next
  PROVE  \/ EmitStep \/ CommitStep \/ SaveStep \/ GuardStep \/ CheckStep \/ ClearStep
         \/ Recalls
         \/ OpenNew \/ WriteHeader \/ PublishHandoffs \/ Stage \/ Finalize \/ SavePending
         \/ DropJournal \/ DropStaged \/ Acknowledge \/ DropPending \/ Stop
         \/ \E m \in manifests : Consume(m)
         \/ \E s \in Sources : Adopt(s)
         \/ \E item \in Items : StartRegister(item)
BY DEF Next, PlanStep, SyncStep, SpoolStep, Recalls

\* Every step keeps the spool.
LEMMA NextSpools ==
  ASSUME Inv, Inv', Spool, CommandHolds, [Next]_vars
  PROVE  Spool'
<1>0. /\ clock \in Nat /\ Typed /\ Typed' /\ handoffs \subseteq handoffs
      /\ clock <= clock /\ clock <= clock + 1
  BY DEF Inv, Typed, TypeOK
<1>1. ASSUME UNCHANGED <<disk, clock, history>>
      PROVE  Spool'
  <2>1. /\ UNCHANGED <<staged, manifests, pending, acknowledged, taken, committed, journal>>
        /\ handoffs' = handoffs /\ clock' = clock
    BY <1>1 DEF disk, history
  <2> QED
    BY <1>0, <2>1, SpoolStays
<1>2. CASE UNCHANGED vars \/ Recalls
  BY <1>1, <1>2, RecallsQuietly DEF vars
<1>3. CASE EmitStep \/ CommitStep
  BY <1>3, EmitSpools
<1>4. CASE SaveStep \/ GuardStep \/ CheckStep \/ ClearStep
  <2>1. /\ UNCHANGED <<staged, manifests, pending, acknowledged, taken, committed, journal>>
        /\ handoffs' = handoffs /\ clock' = clock
    BY <1>4 DEF SaveStep, GuardStep, CheckStep, ClearStep, disk, history
  <2> QED
    BY <1>0, <2>1, SpoolStays
<1>5. CASE WriteHeader
  <2>1. /\ UNCHANGED <<staged, manifests, pending, acknowledged, taken, committed>>
        /\ handoffs' = handoffs /\ clock' = clock
        /\ journal' = [journal EXCEPT !.header = TRUE] /\ InPhase("header")
    BY <1>5 DEF WriteHeader, history
  <2>2. journal \in Journals /\ journal # NoJournal
    BY <2>1, AtPhase DEF Working
  <2>3. /\ journal' \in Journals /\ journal'.command = journal.command
        /\ journal'.at = journal.at /\ journal'.log = journal.log
    BY <2>1, <2>2 DEF Journals
  <2> QED
    BY <1>0, <2>1, <2>2, <2>3, NoJournalIsNone, SpoolStays
<1>6. CASE OpenNew \/ Stage \/ Finalize \/ SavePending \/ DropJournal \/ DropStaged
           \/ Acknowledge \/ DropPending
  BY <1>6, OpenNewSpools, StageSpools, FinalizeSpools, SavePendingSpools, DropJournalSpools,
     DropStagedSpools, AcknowledgeSpools, DropPendingSpools
<1>7. CASE PublishHandoffs \/ Stop
  <2>1. /\ UNCHANGED <<staged, manifests, pending, acknowledged, taken, committed, journal>>
        /\ handoffs \subseteq handoffs' /\ clock' = clock
    BY <1>7 DEF PublishHandoffs, Stop, history
  <2> QED
    BY <1>0, <2>1, SpoolStays
<1>9. ASSUME NEW m \in manifests, Consume(m)
      PROVE  Spool'
  <2>1. /\ UNCHANGED <<staged, manifests, pending, acknowledged, taken, committed, journal>>
        /\ handoffs' = handoffs /\ clock' = clock
    BY <1>9 DEF Consume, history
  <2> QED
    BY <1>0, <2>1, SpoolStays
<1>10. ASSUME NEW s \in Sources, Adopt(s)
       PROVE  Spool'
  <2>1. /\ UNCHANGED <<staged, manifests, pending, acknowledged, taken, committed, journal>>
        /\ handoffs' = handoffs /\ clock' = clock + 1
    BY <1>10 DEF Adopt, disk, history
  <2> QED
    BY <1>0, <2>1, SpoolStays
<1>11. ASSUME NEW item \in Items, StartRegister(item)
       PROVE  Spool'
  <2>1. /\ UNCHANGED <<staged, manifests, pending, acknowledged, taken, committed, journal>>
        /\ handoffs' = handoffs /\ clock' = clock + 1
    BY <1>11 DEF StartRegister, disk, history
  <2> QED
    BY <1>0, <2>1, SpoolStays
<1> QED
  BY <1>2, <1>3, <1>4, <1>5, <1>6, <1>7, <1>9, <1>10, <1>11, StepKinds

\* Every step leaves a command with what its phase relies on.
LEMMA NextCommands ==
  ASSUME Inv, Inv', Spool, CommandHolds, [Next]_vars
  PROVE  CommandHolds'
<1>i. ASSUME command' # Idle => command'.phase \in {"recover", "finish", "failing"}
      PROVE  CommandHolds'
  <2> PICK c : c = command'
    OBVIOUS
  <2> QED
    BY <1>i, FreePhases DEF CommandHolds
<1>1. CASE UNCHANGED vars \/ \E s \in Sources : Edit(s)
  <2>1. UNCHANGED <<ledger, journal, staged, manifests, pending, handoffs, taken, command>>
    BY <1>1 DEF vars, Edit, disk, history
  <2>2. command # Idle /\ command.phase \in Working => WorkSpooled(command)'
    BY <2>1 DEF CommandHolds, CommandSpooled, WorkSpooled, PlanSpooled, StepSpooled, JobsTimed,
                NeedsAgent, DurableItems
  <2>3. command # Idle => EndSpooled(command)'
    BY <2>1 DEF CommandHolds, CommandSpooled, EndSpooled
  <2> QED
    BY <2>1, <2>2, <2>3 DEF CommandHolds, CommandSpooled
<1>2. CASE EmitStep \/ CommitStep \/ SaveStep \/ GuardStep \/ CheckStep \/ ClearStep
  BY <1>2, PlanStepSpools
<1>3. CASE OpenNew \/ WriteHeader \/ OpenResumed \/ HashUnmatched
  BY <1>3, OpeningSpools
<1>4. CASE \E s \in Sources : \/ ReconcileFile(s) \/ ReconcileAbsent(s)
                             \/ \E activates \in BOOLEAN : JobDone(s, activates)
  BY <1>4, ReconcileFileSpools, ReconcileAbsentSpools, JobDoneSpools
<1>5. CASE command # Idle /\ \E request \in command.batch : StartJob(request)
  BY <1>5, StartJobSpools
<1>6. CASE \/ Reconciled \/ PublishHandoffs
           \/ \E s \in Sources : ReconcileUnverified(s) \/ Observe(s)
  BY <1>6, ObservingSpools
<1>7. CASE \/ OpenPending \/ OpenStaged \/ Stage \/ Finalize \/ SavePending
           \/ DropJournal \/ DropRefused \/ DropStaged \/ Acknowledge \/ DropPending
           \/ \E m \in manifests : StartAcknowledge(m) \/ StartReacknowledge(m)
  BY <1>7, EndingSpools
<1>8. CASE Stop \/ Refuse \/ \E s \in Sources : ReconcileFails(s)
  BY <1>8 DEF Stop, Refuse, ReconcileFails, CommandHolds, CommandSpooled
<1>9. CASE CheckFails \/ StepFails
  <2>1. command \in CommandSet
    BY <1>9 DEF CheckFails, StepFails, NextIs, Inv, Typed
  <2>2. command' # Idle => command'.phase = "failing"
    BY <1>9, <2>1 DEF CheckFails, StepFails, Unwind, CommandSet
  <2> QED
    BY <1>i, <2>2
<1>10. CASE \/ Register \/ \E s \in Sources : RecoverGuard(s)
            \/ \E name \in Commands : StartSync(name)
            \/ \E item \in Items : StartRegister(item)
  <2>1. command # Idle => command \in CommandSet
    BY DEF Inv, Typed
  <2>2. CASE Register
    BY <1>i, <2>1, <2>2 DEF Register, InPhase, CommandSet
  <2>3. CASE \E s \in Sources : RecoverGuard(s)
    BY <1>i, <2>1, <2>3 DEF RecoverGuard, InPhase, CommandSet
  <2>4. CASE \E name \in Commands : StartSync(name)
    BY <1>i, <2>4 DEF StartSync, NewCommand
  <2>5. CASE \E item \in Items : StartRegister(item)
    BY <1>i, <2>5 DEF StartRegister, NewCommand
  <2> QED
    BY <1>10, <2>2, <2>3, <2>4, <2>5
<1>11. CASE (\E m \in manifests : Consume(m)) \/ (\E s \in Sources : Adopt(s))
  BY <1>11, <1>i DEF Consume, Adopt
<1> QED
  BY <1>1, <1>2, <1>3, <1>4, <1>5, <1>6, <1>7, <1>8, <1>9, <1>10, <1>11, StepKinds DEF Recalls

-----------------------------------------------------------------------------
(* The theorems.                                                           *)

\* The inductive invariant: the ledger's (Inv), the spool's, the command's.
DeliveryInv == Inv /\ Spool /\ CommandHolds

\* Nothing is in the spool at the start.
LEMMA InitDelivers == Init => DeliveryInv
<1> SUFFICES ASSUME Init
             PROVE  DeliveryInv
  OBVIOUS
<1>1. Inv /\ CommandHolds
  BY InitHolds DEF Init, CommandHolds, CommandSpooled
<1>2. SpoolTyped /\ SpoolAgrees /\ SpoolOrdered
  BY DEF Init, SpoolTyped, SpoolAgrees, SpoolOrdered, Outstanding
<1>3. SpoolEffects /\ SpoolHandoffs
  BY DEF Init, SpoolEffects, SpoolHandoffs, HandoffsAreDurable, Owed
<1> QED
  BY <1>1, <1>2, <1>3 DEF DeliveryInv, Spool

\* Every step keeps it.
LEMMA NextDelivers ==
  ASSUME DeliveryInv, [Next]_vars
  PROVE  DeliveryInv'
<1>1. Inv'
  BY NextKeeps DEF DeliveryInv
<1> QED
  BY <1>1, NextSpools, NextCommands DEF DeliveryInv

\* At every moment.
LEMMA DeliveryInvariance == Spec => []DeliveryInv
BY InitDelivers, NextDelivers, PTL DEF Spec

\* At most one manifest waits for its acknowledgement, for any number of sources
\* and commands and however often a run is stopped and resumed: finalize runs
\* once for a journal (load_staged, clear_pending).
THEOREM OneOutstanding == Spec => []OneOutstandingResult
<1>1. DeliveryInv => OneOutstandingResult
  BY DEF DeliveryInv, Spool, SpoolAgrees, Outstanding, OneOutstandingResult
<1> QED
  BY <1>1, DeliveryInvariance, PTL

\* Whichever attempt prepared it, every source that a result hands over has its
\* work item in the directory before the result exists, and keeps it
\* (publish_handoff_data before save_staged).
THEOREM HandoffsDurable == Spec => []HandoffsAreDurable
<1>1. DeliveryInv => HandoffsAreDurable
  BY DEF DeliveryInv, Spool, SpoolHandoffs
<1> QED
  BY <1>1, DeliveryInvariance, PTL

\* Whatever is committed while a result is out is not in that result.
LEMMA OwedGrows ==
  ASSUME UNCHANGED <<pending, taken>>, committed \subseteq committed'
  PROVE  Delivery!Commit
<1>1. Delivered' = Delivered /\ Delivery!Delivered = Delivered
  BY DEF Delivered, Delivery!Delivered
<1>2. Owed \subseteq Owed' /\ Owed' \intersect Delivered = {}
  BY <1>1 DEF Owed
<1> QED
  BY <1>1, <1>2 DEF Delivery!Commit

\* The offered result carries all that is owed, and nothing that was delivered.
LEMMA PendingOffers ==
  ASSUME DeliveryInv, SavePending
  PROVE  Delivery!Offer
<1>1. /\ InPhase("save_pending") /\ pending' = command.target
      /\ UNCHANGED <<journal, staged, manifests, taken, committed>>
  BY DEF SavePending, history
<1>2. /\ pending = NoResult /\ staged # NoResult /\ journal # NoJournal
      /\ pending' = ResultOf(staged)
  BY <1>1, AtPhase DEF DeliveryInv, EndSpooled
<1>3. staged \in Staged /\ pending' \in Results /\ pending'.at = staged.at
  BY <1>2, ResultsOfStaged DEF DeliveryInv, Spool, SpoolTyped
<1>4. pending' # NoResult
  BY <1>3, NoResultIsNone
<1>5. Owed \subseteq EffectsOf(pending')
  BY <1>2 DEF DeliveryInv, Spool, SpoolEffects, Carried
<1>6. \A e \in EffectsOf(pending') : e.record.at = staged.at
  BY <1>2, <1>3, EffectsOfStaged DEF DeliveryInv, Spool, SpoolEffects, EffectsAt
<1>7. ASSUME NEW m \in taken, NEW e \in EffectsOf(m)
      PROVE  e \notin EffectsOf(pending')
  <2>1. m \in manifests /\ m.at < staged.at /\ e.record.at = m.at
    BY <1>2, <1>7 DEF DeliveryInv, Inv, Typed, TypeOK, Spool, SpoolOrdered, SpoolEffects
  <2>2. m.at \in Nat /\ staged.at \in Nat
    BY <1>3, <2>1 DEF DeliveryInv, Spool, SpoolTyped, Results, Staged
  <2> QED
    BY <1>6, <2>1, <2>2
<1>8. Delivery!Delivered = Delivered /\ Owed' = Owed
  BY <1>1 DEF Delivered, Owed, Delivery!Delivered
<1>9. EffectsOf(pending') \intersect Delivered = {}
  BY <1>7 DEF Delivered
<1> QED
  BY <1>1, <1>2, <1>4, <1>5, <1>8, <1>9 DEF Delivery!Offer

\* Every step of the commands, crashes and edits commits, offers, takes or changes
\* nothing the consumer can see.
LEMMA DeliveryStep ==
  ASSUME DeliveryInv, DeliveryInv', [Next]_vars
  PROVE  [Delivery!Next]_<<Owed, pending, taken>>
<1>1. CASE SavePending
  BY <1>1, PendingOffers DEF Delivery!Next
<1>2. CASE DropPending
  <2>1. /\ pending # NoResult /\ pending' = NoResult /\ taken' = taken \union {pending}
        /\ committed' = committed
    BY <1>2, DropPendingSpools DEF DeliveryInv
  <2>2. Delivered' = Delivered \union EffectsOf(pending)
    BY <2>1 DEF Delivered
  <2>3. Owed' = Owed \ EffectsOf(pending)
    BY <2>1, <2>2 DEF Owed
  <2> QED
    BY <2>1, <2>3 DEF Delivery!Take, Delivery!Next
<1>3. ASSUME ~SavePending, ~DropPending
      PROVE  UNCHANGED <<pending, taken>> /\ committed \subseteq committed'
  <2>1. CASE UNCHANGED vars
    BY <2>1 DEF vars, disk, history
  <2>2. CASE Recalls
    BY <2>2, RecallsQuietly DEF disk, history
  <2>3. CASE CommitStep
    BY <2>3 DEF CommitStep
  <2>4. CASE EmitStep \/ SaveStep \/ GuardStep \/ CheckStep \/ ClearStep
    BY <2>4 DEF EmitStep, SaveStep, GuardStep, CheckStep, ClearStep, disk, history
  <2>5. CASE \/ OpenNew \/ WriteHeader \/ PublishHandoffs \/ Stage \/ Finalize
             \/ DropJournal \/ DropStaged \/ Acknowledge \/ Stop
             \/ (\E m \in manifests : Consume(m))
             \/ (\E s \in Sources : Adopt(s))
             \/ (\E item \in Items : StartRegister(item))
    BY <2>5 DEF OpenNew, WriteHeader, PublishHandoffs, Stage, Finalize, DropJournal, DropStaged,
                Acknowledge, Stop, Consume, Adopt, StartRegister, disk, history
  <2> QED
    BY <1>3, <2>1, <2>2, <2>3, <2>4, <2>5, StepKinds
<1> QED
  BY <1>1, <1>2, <1>3, OwedGrows DEF Delivery!Next

\* The spool implements ResultDelivery: every committed representation or rewrite
\* is in exactly one result, each result is offered whole and only when none is
\* out, and what it carries stays owed until it is acknowledged.
THEOREM DeliveryRefinement == Spec => ImplementsResultDelivery
<1>1. Init => Delivery!Init
  BY DEF Init, Delivery!Init, Owed
<1>2. DeliveryInv /\ DeliveryInv' /\ [Next]_vars => [Delivery!Next]_<<Owed, pending, taken>>
  BY DeliveryStep
<1> QED
  BY <1>1, <1>2, DeliveryInvariance, PTL
  DEF Spec, ImplementsResultDelivery, Delivery!Spec

-----------------------------------------------------------------------------
(* Announced activations.                                                  *)

\* Events that announce an activation.
Announces(e) == e.kind = "new_active_representation"

\* The announced record was checked while it was the active one.
Confirmed(e) == <<e.source, e.record>> \in proved

\* The frames of a journal that announce an activation of the source.
Announcing(s) ==
    IF journal = NoJournal THEN {}
    ELSE {f \in Frames(journal.log) : Announces(f.event) /\ f.event.source = s}

Announced(s) == {f.event.record : f \in Announcing(s)}

\* Those whose announcement is committed.
Sealed(s) == {f.event.record : f \in {g \in Announcing(s) : g.frame = "commit"}}

\* A record whose extraction was found dead has the diagnostic of that for good,
\* and so never becomes the record that the dead extraction announced.
Woken(r) == "stale_extracting_recovered" \in r.diagnostics

Revoked(r, u) == Woken(r) /\ ~Woken(u)

\* Neither a sync nor an agent derives such a record again.
Resting(r) == r.attempt = "ok" /\ r.state \notin {"extracting", "needs_agent"}

\* The announced activation has come about, and what followed from it is at rest
\* until another version is adopted.
Settled(s, r, u) ==
    /\ <<s, u>> \in proved
    /\ u.content \in r.versions
    /\ Woken(u) => Woken(r)
    /\ u.content = r.content => Resting(r)

\* A record that is past the announcement of another.
Past(s, r, u) == Settled(s, r, u) \/ (u \notin Sealed(s) /\ Revoked(r, u))

\* The extraction that announced the record is not activated yet.
Awaits(s, r, u) == u \notin Sealed(s) /\ r.state = "extracting" /\ Activated(r) = u

\* A record that is past everything that was announced of its source.
Fresh(s, r) == r.content \in r.versions /\ \A u \in Announced(s) : Past(s, r, u)

\* A record that is, but for the activation it waits for.
Unannounced(s, r) ==
    r.content \in r.versions /\ \A u \in Announced(s) : Past(s, r, u) \/ Awaits(s, r, u)

\* The ledger has no record that is announced, but one that has settled, or is
\* under its guard.
LedgerUnannounced ==
    \A s \in Sources :
        /\ ledger[s] = NoRecord => Announced(s) = {}
        /\ ledger[s] # NoRecord => Unannounced(s, ledger[s]) \/ guard[s] # NoGuard

\* Rolling an activation back takes its announcement back.
GuardUnannounced == \A s \in Sources : guard[s] # NoGuard => Unannounced(s, guard[s].before)

\* Events that a consumer could not tell apart.
Alike(e, f) ==
    Announces(e) /\ Announces(f) /\ e.source = f.source /\ e.record.content = f.record.content

\* Of two announcements of the same content one is revoked, and not committed.
LogApart ==
    journal # NoJournal =>
        \A f, g \in Frames(journal.log) :
            Alike(f.event, g.event) =>
                \/ f.event.record = g.event.record
                \/ Revoked(f.event.record, g.event.record) /\ g.frame # "commit"
                \/ Revoked(g.event.record, f.event.record) /\ f.frame # "commit"

\* What a staged run will announce was checked, and it will announce it once.
StagedConfirmed ==
    staged # NoResult =>
        \A f \in Frames(staged.log) :
            KeptAt(f, staged.log, staged.checkpoint) /\ Announces(f.event) =>
                /\ Confirmed(f.event)
                /\ \A g \in Frames(staged.log) :
                      KeptAt(g, staged.log, staged.checkpoint) /\ Alike(f.event, g.event) =>
                          f.event = g.event

\* No result announces a content of a source as two records.
AnnouncedOnce == \A m \in manifests : \A e, f \in Events(m) : Alike(e, f) => e = f

\* The disk's part of the invariant.
DiskConfirms ==
    /\ LedgerUnannounced /\ GuardUnannounced /\ LogApart
    /\ StagedConfirmed /\ AnnouncedWasActive /\ AnnouncedOnce

\* A step that neither announces an activation, nor saves an announced record.
QuietStep(step) ==
    /\ step.do \in {"emit", "commit"} => ~Announces(step.event)
    /\ step.do \in {"save", "clear"} => Unannounced(step.source, step.record)
    /\ step.do = "guard" => Unannounced(step.source, step.before)

QuietPlan(plan) == \A i \in 1 .. Len(plan) : QuietStep(plan[i])

\* What is left of the plan of an activation.
ActivatingBy(plan, s, r) ==
    LET final == Activated(r)
        e == Event("new_active_representation", s, final)
    IN \/ /\ ledger[s] = r /\ guard[s] = NoGuard
          /\ \/ plan = <<Check(s), Emit(e), Guard(s, r, final), Save(s, final), Check(s),
                         Clear(s, final), Commit(e)>>
             \/ plan = <<Emit(e), Guard(s, r, final), Save(s, final), Check(s), Clear(s, final),
                         Commit(e)>>
             \/ plan = <<Guard(s, r, final), Save(s, final), Check(s), Clear(s, final), Commit(e)>>
       \/ /\ guard[s] # NoGuard
          /\ plan = <<Save(s, final), Check(s), Clear(s, final), Commit(e)>>
       \/ /\ guard[s] # NoGuard /\ ledger[s] = final
          /\ \/ plan = <<Check(s), Clear(s, final), Commit(e)>>
             \/ plan = <<Clear(s, final), Commit(e)>> /\ Confirmed(e)
       \/ /\ guard[s] = NoGuard /\ ledger[s] = final
          /\ plan = <<Commit(e)>> /\ Confirmed(e)

\* The activation of an extraction that was under way.
Activating(c, s, r) ==
    /\ r.state = "extracting" /\ Unannounced(s, r)
    /\ s \notin c.jobs /\ \A request \in c.batch : request.source # s
    /\ ActivatingBy(c.plan, s, r)

\* A record of which an extraction under way may be the first.
Extracts(s, r) == r.state = "extracting" /\ Fresh(s, r)

\* A source is reconciled, then requested, then extracted; nothing was announced of
\* its record.
InFlight(c) ==
    /\ \A request \in c.batch :
          /\ Fresh(request.source, request.record) /\ MustProcess(request.record)
          /\ request.source \notin c.jobs \union c.todo
    /\ \A p, q \in c.batch : p.source = q.source => p = q
    /\ c.jobs \intersect c.todo = {}
    /\ \A s \in c.jobs :
          \/ \E i \in 1 .. Len(c.plan) : c.plan[i].do = "save" /\ c.plan[i].source = s
          \/ ledger[s] \in Records /\ Extracts(s, ledger[s])
    /\ \A i \in 1 .. Len(c.plan) :
          c.plan[i].do = "save" /\ c.plan[i].source \in c.jobs =>
              Extracts(c.plan[i].source, c.plan[i].record)

\* The command's part of the invariant.
CommandConfirms(c) ==
    c # Idle =>
        /\ \/ QuietPlan(c.plan)
           \/ /\ c.phase = "reconcile"
              /\ \E s \in Sources : \E r \in Records : Activating(c, s, r)
        /\ c.phase \in {"recover", "header", "hash"} => c.batch = {}
        /\ c.phase = "reconcile" => InFlight(c)

CommandAnnounces == CommandConfirms(command)

-----------------------------------------------------------------------------
(* Records and what was announced of them.                                 *)

\* What is in the journal.
LEMMA FramesTyped ==
  ASSUME NEW j \in Journals, NEW f \in Frames(j.log)
  PROVE  f.event \in EventSet /\ f.event.source \in Sources /\ f.event.record \in Records
         /\ f.frame \in {"event", "commit"}
<1>1. f \in FrameSet
  BY DEF Journals, Frames
<1> QED
  BY <1>1 DEF FrameSet, EventSet

\* What was announced, by which frames.
LEMMA AnnouncedFrames ==
  ASSUME NEW s, NEW u
  PROVE  /\ u \in Announced(s) <=>
               /\ journal # NoJournal
               /\ \E f \in Frames(journal.log) :
                     Announces(f.event) /\ f.event.source = s /\ f.event.record = u
         /\ u \in Sealed(s) <=>
               /\ journal # NoJournal
               /\ \E f \in Frames(journal.log) :
                     /\ Announces(f.event) /\ f.event.source = s /\ f.event.record = u
                     /\ f.frame = "commit"
BY DEF Announced, Sealed, Announcing

\* The journal gets no announcement.
LogQuiet ==
    \/ journal' = NoJournal
    \/ Frames(journal'.log) = {}
    \/ /\ journal # NoJournal
       /\ \A f \in Frames(journal'.log) : f \in Frames(journal.log) \/ ~Announces(f.event)

\* Nothing more is announced of a source, nothing committed, and nothing that was
\* checked is forgotten.
NothingNew(s) ==
    Announced(s)' \subseteq Announced(s) /\ Sealed(s)' \subseteq Sealed(s) /\ proved \subseteq proved'

\* Nor of any source but one.
NothingElsewhere(s) == \A x : x # s => NothingNew(x)

\* A quiet journal announces nothing new.
LEMMA QuietLog ==
  ASSUME proved \subseteq proved', LogQuiet, NEW s
  PROVE  NothingNew(s)
<1>1. ASSUME NEW f, journal' # NoJournal, f \in Frames(journal'.log), Announces(f.event)
      PROVE  journal # NoJournal /\ f \in Frames(journal.log)
  BY <1>1 DEF LogQuiet
<1>2. Announced(s)' \subseteq Announced(s)
  BY <1>1 DEF Announced, Announcing
<1>3. Sealed(s)' \subseteq Sealed(s)
  BY <1>1 DEF Sealed, Announcing
<1> QED
  BY <1>2, <1>3 DEF NothingNew

\* What is past an announcement stays so, and what was fresh or unannounced.
LEMMA RecordsStayClear ==
  ASSUME NEW s, NothingNew(s), NEW r
  PROVE  /\ Fresh(s, r) => Fresh(s, r)'
         /\ Unannounced(s, r) => Unannounced(s, r)'
         /\ Extracts(s, r) => Extracts(s, r)'
<1>1. ASSUME NEW u
      PROVE  /\ Past(s, r, u) => Past(s, r, u)'
             /\ Awaits(s, r, u) => Awaits(s, r, u)'
  BY DEF NothingNew, Past, Settled, Awaits
<1> QED
  BY <1>1 DEF NothingNew, Fresh, Unannounced, Extracts

\* A change of a record that brings no announced one back.
Keeps(r, n) ==
    /\ Woken(r) => Woken(n)
    /\ n.content = r.content /\ r.versions \subseteq n.versions
    /\ Resting(r) => Resting(n)

\* It leaves the record past what it was past.
LEMMA PastStays ==
  ASSUME NEW s, NEW r, NEW n, Keeps(r, n), NEW u, Past(s, r, u)
  PROVE  Past(s, n, u)
BY DEF Keeps, Past, Settled, Revoked

\* A fresh record is unannounced, and so is what replaces it.
LEMMA FreshStays ==
  ASSUME NEW s, NEW r, NEW n, Fresh(s, r), Keeps(r, n)
  PROVE  Fresh(s, n) /\ Unannounced(s, n)
<1>1. n.content \in n.versions
  BY DEF Fresh, Keeps
<1> QED
  BY <1>1, PastStays DEF Fresh, Unannounced

\* The functions on records bring none back.
LEMMA FunctionsKeep ==
  ASSUME NEW r \in Records, NEW now, NEW bytes, NEW f
  PROVE  /\ Keeps(r, r) /\ Keeps(r, RecoverStale(r, now)) /\ Keeps(r, MarkIntegrityError(r, bytes, now))
         /\ Keeps(r, MarkMissing(r, now)) /\ Keeps(r, RefreshMatchingBytes(r, now))
         /\ Keeps(r, RenameRecord(r, f, now)) /\ Keeps(r, Rollback(r))
         /\ r.attempt # "ok" => Keeps(r, ExtractingRecord(r, now))
         /\ r.state = "extracting" => Keeps(r, HandedOff(r)) /\ Keeps(r, Activated(r))
BY DEF Keeps, Woken, Resting, RecoverStale, MarkIntegrityError, MarkMissing, RefreshMatchingBytes,
       RestoredState, ExtractingRecord, HandedOff, Activated, Rollback, RenameRecord, Records

\* A change that keeps a record and a change of the result keep it.
LEMMA KeepsOn ==
  ASSUME NEW r, NEW n, NEW m, Keeps(r, n), Keeps(n, m)
  PROVE  Keeps(r, m)
BY DEF Keeps

\* A record that a new run takes up is past all that was announced: a dead
\* extraction is woken first.
LEMMA TakenUpFresh ==
  ASSUME NEW s, NEW r \in Records, Unannounced(s, r), ~Collides(r), NEW n \in Records,
         Keeps(r, n), n.state = r.state, n.diagnostics = r.diagnostics, NEW now,
         NEW woken, woken = IF n.state = "extracting" THEN RecoverStale(n, now) ELSE n
  PROVE  Fresh(s, woken)
<1>1. Keeps(r, woken)
  BY FunctionsKeep, KeepsOn
<1>2. ASSUME NEW u \in Announced(s), Awaits(s, r, u)
      PROVE  Past(s, woken, u)
  <2>1. r.state = "extracting" /\ ~Woken(r)
    BY <1>2 DEF Awaits, Collides, Woken
  <2>2. ~Woken(u) /\ u \notin Sealed(s)
    BY <1>2, <2>1 DEF Awaits, Activated, Woken, Records
  <2>3. Woken(woken)
    BY <2>1 DEF RecoverStale, Records, Woken
  <2> QED
    BY <2>2, <2>3 DEF Past, Revoked
<1>3. \A u \in Announced(s) : Past(s, woken, u)
  BY <1>1, <1>2, PastStays DEF Unannounced
<1>4. woken.content \in woken.versions
  BY <1>1 DEF Keeps, Unannounced
<1> QED
  BY <1>3, <1>4 DEF Fresh

\* A rolled-back activation is unannounced, as the record before it was.
LEMMA RolledBack ==
  ASSUME NEW s, NEW r \in Records, Unannounced(s, r)
  PROVE  Unannounced(s, Rollback(r))
<1>1. Keeps(r, Rollback(r))
  BY FunctionsKeep
<1>2. Activated(Rollback(r)) = Activated(r) /\ Rollback(r).state = r.state
  BY DEF Activated, Rollback, Records
<1>3. ASSUME NEW u \in Announced(s)
      PROVE  Past(s, Rollback(r), u) \/ Awaits(s, Rollback(r), u)
  BY <1>1, <1>2, PastStays DEF Unannounced, Awaits
<1>4. Rollback(r).content \in Rollback(r).versions
  BY <1>1 DEF Keeps, Unannounced
<1> QED
  BY <1>3, <1>4 DEF Unannounced

\* A record in the ledger that is announced has settled.
LEMMA AnnouncedSettled ==
  ASSUME NEW s, NEW r \in Records, Unannounced(s, r), r \in Announced(s)
  PROVE  Settled(s, r, r)
<1>1. ~Revoked(r, r)
  BY DEF Revoked
<1>2. Activated(r).state = "ok"
  BY DEF Activated, Records
<1>3. ~Awaits(s, r, r)
  BY <1>2 DEF Awaits
<1> QED
  BY <1>1, <1>3 DEF Unannounced, Past

\* An extraction is past the announcement of the same content, but for its own,
\* only if that is revoked.
LEMMA SameContentRevoked ==
  ASSUME NEW s, NEW r \in Records, r.state = "extracting", Unannounced(s, r),
         NEW u \in Announced(s), u.content = r.content, u # Activated(r)
  PROVE  u \notin Sealed(s) /\ Revoked(Activated(r), u)
<1>1. ~Settled(s, r, u) /\ ~Awaits(s, r, u)
  BY DEF Settled, Resting, Awaits
<1>2. u \notin Sealed(s) /\ Revoked(r, u)
  BY <1>1 DEF Unannounced, Past
<1>3. Activated(r).diagnostics = r.diagnostics
  BY DEF Activated, Records
<1> QED
  BY <1>2, <1>3 DEF Revoked, Woken

\* The record of an activation that was checked is settled.
LEMMA ActivatedSettled ==
  ASSUME NEW s, NEW r \in Records, r.state = "extracting", Unannounced(s, r),
         <<s, Activated(r)>> \in proved
  PROVE  Unannounced(s, Activated(r)) /\ Settled(s, Activated(r), Activated(r))
<1> PICK final : final = Activated(r)
  OBVIOUS
<1>1. /\ final.content = r.content /\ final.versions = r.versions
      /\ final.attempt = "ok" /\ final.state = "ok"
  BY DEF Activated, Records
<1>2. final.content \in final.versions
  BY <1>1 DEF Unannounced
<1>3. Settled(s, final, final)
  BY <1>1, <1>2 DEF Settled, Resting
<1>4. Keeps(r, final)
  BY FunctionsKeep
<1>5. ASSUME NEW u \in Announced(s)
      PROVE  Past(s, final, u)
  BY <1>3, <1>4, <1>5, PastStays DEF Unannounced, Awaits, Past
<1> QED
  BY <1>2, <1>3, <1>5 DEF Unannounced

-----------------------------------------------------------------------------
(* The disk.                                                               *)

\* What a durable step of a command changes.
LEMMA StepTaken ==
  ASSUME Inv, Inv', CommandHolds, NEW step, step = Head(command.plan),
         EmitStep \/ CommitStep \/ SaveStep \/ GuardStep \/ CheckStep \/ ClearStep
  PROVE  /\ command # Idle /\ command.plan # <<>> /\ Advance /\ step \in Steps
         /\ step = command.plan[1] /\ command \in CommandSet /\ command.plan \in Seq(Steps)
         /\ Effect(step) /\ UNCHANGED <<staged, manifests>>
         /\ \/ step.do \notin {"emit", "commit"} /\ journal' = journal
            \/ /\ step.do \in {"emit", "commit"}
               /\ journal # NoJournal /\ journal' # NoJournal
               /\ \E frame : /\ frame.event = step.event
                             /\ frame.frame = IF step.do = "emit" THEN "event" ELSE "commit"
                             /\ Frames(journal'.log) = Frames(journal.log) \union {frame}
<1>1. /\ command # Idle /\ command.plan # <<>> /\ Advance /\ UNCHANGED <<staged, manifests>>
  BY DEF EmitStep, CommitStep, SaveStep, GuardStep, CheckStep, ClearStep, NextIs, disk, history
<1>2. /\ command \in CommandSet /\ command.plan \in Seq(Steps) /\ step = command.plan[1]
      /\ step \in Steps
  <2>1. command.plan \in Seq(Steps)
    BY <1>1 DEF Inv, Typed, CommandSet
  <2> QED
    BY <1>1, <2>1, NextStep
<1>3. Effect(step)
  <2>1. CASE EmitStep \/ CommitStep
    BY <2>1 DEF EmitStep, CommitStep, NextIs, Effect, history
  <2>2. CASE SaveStep \/ GuardStep \/ ClearStep \/ CheckStep
    BY <2>2 DEF SaveStep, GuardStep, ClearStep, CheckStep, NextIs, Effect, history, disk
  <2> QED
    BY <2>1, <2>2
<1>4. CASE step.do \notin {"emit", "commit"}
  <2>1. journal' = journal
    BY <1>1, <1>4, PlanStepEffects
  <2> QED
    BY <1>1, <1>2, <1>3, <1>4, <2>1
<1>5. CASE step.do \in {"emit", "commit"}
  <2> PICK frame : frame = IF step.do = "emit" THEN Prepared(step.event) ELSE Committed(step.event)
    OBVIOUS
  <2>1. frame.event = step.event /\ frame.frame = IF step.do = "emit" THEN "event" ELSE "commit"
    BY DEF Prepared, Committed
  <2>2. /\ journal \in Journals /\ journal # NoJournal
        /\ command.phase \in {"reconcile", "observe"}
    BY <1>1, <1>5, NextStep DEF Working
  <2>3. \/ journal' = journal /\ frame \in Frames(journal.log)
        \/ journal' = [journal EXCEPT !.log = Append(@, frame)]
    BY <1>5 DEF EmitStep, CommitStep, SaveStep, GuardStep, CheckStep, ClearStep, NextIs
  <2>4. journal' \in Journals /\ journal' # NoJournal
    <3>1. command'= Idle \/ command'.phase = command.phase
      BY <1>1, <1>2 DEF Advance, CommandSet
    <3>2. frame \in FrameSet
      BY <1>2, <1>5, StepFields DEF Prepared, Committed, FrameSet
    <3>3. journal' \in Journals
      BY <2>2, <2>3, <3>2 DEF Journals
    <3> QED
      BY <3>3, NoJournalIsNone
  <2>5. Frames(journal'.log) = Frames(journal.log) \union {frame}
    <3>1. CASE journal' = [journal EXCEPT !.log = Append(@, frame)]
      <4>1. journal'.log = Append(journal.log, frame) /\ journal.log \in Seq(FrameSet)
        BY <2>2, <3>1 DEF Journals
      <4> QED
        BY <4>1, FramesAppend
    <3>2. CASE journal' = journal /\ frame \in Frames(journal.log)
      BY <3>2
    <3> QED
      BY <2>3, <3>1, <3>2
  <2> QED
    BY <1>1, <1>2, <1>3, <1>5, <2>1, <2>2, <2>4, <2>5
<1> QED
  BY <1>4, <1>5

\* Where nothing is announced and the records stay, the ledger stays clear.
LEMMA LedgerStaysClear ==
  ASSUME LedgerUnannounced, GuardUnannounced, UNCHANGED <<ledger, guard>>,
         \A s \in Sources : NothingNew(s)
  PROVE  LedgerUnannounced' /\ GuardUnannounced'
<1>1. ASSUME NEW s \in Sources
      PROVE  /\ ledger'[s] = NoRecord => Announced(s)' = {}
             /\ ledger'[s] # NoRecord => Unannounced(s, ledger[s])' \/ guard'[s] # NoGuard
             /\ guard'[s] # NoGuard => Unannounced(s, guard[s].before)'
  <2> PICK r, before : r = ledger[s] /\ before = guard[s].before
    OBVIOUS
  <2>1. /\ Unannounced(s, r) => Unannounced(s, r)'
        /\ Unannounced(s, before) => Unannounced(s, before)'
    BY RecordsStayClear
  <2>2. Unannounced(s, r)' => Unannounced(s, ledger[s])'
    BY DEF Unannounced, Past, Settled, Awaits
  <2>3. Unannounced(s, before)' => Unannounced(s, guard[s].before)'
    BY DEF Unannounced, Past, Settled, Awaits
  <2>4. ledger[s] = NoRecord => Announced(s)' = {}
    BY DEF LedgerUnannounced, NothingNew
  <2> QED
    BY <2>1, <2>2, <2>3, <2>4 DEF LedgerUnannounced, GuardUnannounced
<1> QED
  BY <1>1 DEF LedgerUnannounced, GuardUnannounced

\* What was announced for good stays so.
LEMMA ResultsStayConfirmed ==
  ASSUME proved \subseteq proved', UNCHANGED <<staged, manifests>>,
         StagedConfirmed, AnnouncedWasActive, AnnouncedOnce
  PROVE  StagedConfirmed' /\ AnnouncedWasActive' /\ AnnouncedOnce'
<1>1. \A e : Confirmed(e) => Confirmed(e)'
  BY DEF Confirmed
<1>2. StagedConfirmed'
  BY <1>1 DEF StagedConfirmed
<1>3. AnnouncedWasActive' /\ AnnouncedOnce'
  BY DEF AnnouncedWasActive, AnnouncedOnce
<1> QED
  BY <1>2, <1>3

\* A quiet journal keeps its announcements apart.
LEMMA QuietApart ==
  ASSUME LogApart, LogQuiet
  PROVE  LogApart'
<1>1. ASSUME NEW f, journal' # NoJournal, f \in Frames(journal'.log), Announces(f.event)
      PROVE  journal # NoJournal /\ f \in Frames(journal.log)
  BY <1>1 DEF LogQuiet
<1> QED
  BY <1>1 DEF LogApart, Alike

\* A step that announces nothing keeps the disk's part.
LEMMA QuietStepConfirms ==
  ASSUME Inv, DiskConfirms, NEW step \in Steps, QuietStep(step), Effect(step),
         UNCHANGED <<staged, manifests>>,
         \/ step.do \notin {"emit", "commit"} /\ journal' = journal
         \/ /\ step.do \in {"emit", "commit"}
            /\ journal # NoJournal /\ journal' # NoJournal
            /\ \E frame : /\ frame.event = step.event
                          /\ frame.frame = IF step.do = "emit" THEN "event" ELSE "commit"
                          /\ Frames(journal'.log) = Frames(journal.log) \union {frame}
  PROVE  DiskConfirms' /\ \A s : NothingNew(s)
<1>1. /\ proved \subseteq proved'
      /\ ledger \in [Sources -> Records \union {NoRecord}]
      /\ guard \in [Sources -> Guards \union {NoGuard}]
  BY DEF Effect, Inv, Typed
<1>3. LogQuiet
  <2>1. CASE step.do \notin {"emit", "commit"} /\ journal' = journal
    BY <2>1 DEF LogQuiet
  <2>2. CASE step.do \in {"emit", "commit"} /\ journal # NoJournal /\ journal' # NoJournal
             /\ \E frame : /\ frame.event = step.event
                           /\ frame.frame = IF step.do = "emit" THEN "event" ELSE "commit"
                           /\ Frames(journal'.log) = Frames(journal.log) \union {frame}
    <3>1. PICK frame : /\ frame.event = step.event
                       /\ Frames(journal'.log) = Frames(journal.log) \union {frame}
      BY <2>2
    <3>2. ~Announces(step.event)
      BY <2>2 DEF QuietStep
    <3> QED
      BY <2>2, <3>1, <3>2 DEF LogQuiet
  <2> QED
    BY <2>1, <2>2
<1>4. \A s : NothingNew(s)
  BY <1>1, <1>3, QuietLog
<1>5. ASSUME NEW s \in Sources
      PROVE  /\ ledger'[s] = NoRecord => Announced(s)' = {}
             /\ ledger'[s] # NoRecord => Unannounced(s, ledger[s])' \/ guard'[s] # NoGuard
             /\ guard'[s] # NoGuard => Unannounced(s, guard[s].before)'
  <2> PICK r, before : r = ledger'[s] /\ before = guard'[s].before
    OBVIOUS
  <2>1. \A n : Unannounced(s, n) => Unannounced(s, n)'
    BY <1>4, RecordsStayClear
  <2>2. Unannounced(s, r)' => Unannounced(s, ledger[s])'
    BY DEF Unannounced, Past, Settled, Awaits
  <2>3. Unannounced(s, before)' => Unannounced(s, guard[s].before)'
    BY DEF Unannounced, Past, Settled, Awaits
  <2>4. /\ ledger[s] = NoRecord => Announced(s)' = {}
        /\ ledger[s] # NoRecord => Unannounced(s, ledger[s]) \/ guard[s] # NoGuard
        /\ guard[s] # NoGuard => Unannounced(s, guard[s].before)
    BY <1>4 DEF DiskConfirms, LedgerUnannounced, GuardUnannounced, NothingNew
  <2>5. CASE step.do = "save" /\ step.source = s
    <3>1. r = step.record /\ r \in Records /\ guard'[s] = guard[s]
      BY <1>1, <2>5, StepFields DEF Effect
    <3>2. Unannounced(s, r)'
      BY <2>1, <2>5, <3>1 DEF QuietStep
    <3> QED
      BY <2>1, <2>2, <2>3, <2>4, <3>1, <3>2, NoRecordIsNone
  <2>6. CASE step.do = "clear" /\ step.source = s
    <3>1. r = step.record /\ r \in Records /\ guard'[s] = NoGuard
      BY <1>1, <2>6, StepFields DEF Effect
    <3>2. Unannounced(s, r)'
      BY <2>1, <2>6, <3>1 DEF QuietStep
    <3> QED
      BY <2>2, <3>1, <3>2, NoRecordIsNone
  <2>7. CASE step.do = "guard" /\ step.source = s
    <3>1. /\ ledger'[s] = ledger[s] /\ before = step.before
          /\ guard'[s] = [before |-> step.before, after |-> step.after]
          /\ guard'[s] \in Guards
      BY <1>1, <2>7, StepFields DEF Effect, Guards
    <3>2. guard'[s] # NoGuard
      BY <3>1, NoGuardIsNone DEF Guards
    <3>3. Unannounced(s, before)'
      BY <2>1, <2>7, <3>1 DEF QuietStep
    <3> QED
      BY <2>3, <2>4, <3>1, <3>2, <3>3
  <2>8. CASE step.do \notin {"save", "clear", "guard"} \/ step.source # s
    <3>1. r = ledger[s] /\ guard'[s] = guard[s]
      BY <1>1, <2>8, StepFields DEF Effect
    <3> QED
      BY <2>1, <2>2, <2>3, <2>4, <3>1
  <2> QED
    BY <2>5, <2>6, <2>7, <2>8
<1>6. LedgerUnannounced' /\ GuardUnannounced'
  BY <1>5 DEF LedgerUnannounced, GuardUnannounced
<1>7. LogApart' /\ StagedConfirmed' /\ AnnouncedWasActive' /\ AnnouncedOnce'
  BY <1>1, <1>3, QuietApart, ResultsStayConfirmed DEF DiskConfirms
<1> QED
  BY <1>4, <1>6, <1>7 DEF DiskConfirms

\* A frame about an activation leaves the other sources alone.
LEMMA OthersStay ==
  ASSUME DiskConfirms, journal # NoJournal, journal' # NoJournal, proved \subseteq proved',
         UNCHANGED <<ledger, guard>>, NEW frame,
         Frames(journal'.log) = Frames(journal.log) \union {frame}
  PROVE  /\ \A x : x # frame.event.source => NothingNew(x)
         /\ \A x \in Sources : x # frame.event.source =>
               /\ ledger'[x] = NoRecord => Announced(x)' = {}
               /\ ledger'[x] # NoRecord => Unannounced(x, ledger[x])' \/ guard'[x] # NoGuard
               /\ guard'[x] # NoGuard => Unannounced(x, guard[x].before)'
<1>1. ASSUME NEW x, x # frame.event.source
      PROVE  NothingNew(x)
  <2>1. Announcing(x)' \subseteq Announcing(x)
    BY <1>1 DEF Announcing
  <2> QED
    BY <2>1 DEF NothingNew, Announced, Sealed
<1>2. ASSUME NEW x \in Sources, x # frame.event.source
      PROVE  /\ ledger'[x] = NoRecord => Announced(x)' = {}
             /\ ledger'[x] # NoRecord => Unannounced(x, ledger[x])' \/ guard'[x] # NoGuard
             /\ guard'[x] # NoGuard => Unannounced(x, guard[x].before)'
  <2> PICK r, before : r = ledger[x] /\ before = guard[x].before
    OBVIOUS
  <2>1. /\ Unannounced(x, r) => Unannounced(x, r)'
        /\ Unannounced(x, before) => Unannounced(x, before)'
    BY <1>1, <1>2, RecordsStayClear
  <2>2. Unannounced(x, r)' => Unannounced(x, ledger[x])'
    BY DEF Unannounced, Past, Settled, Awaits
  <2>3. Unannounced(x, before)' => Unannounced(x, guard[x].before)'
    BY DEF Unannounced, Past, Settled, Awaits
  <2>4. ledger[x] = NoRecord => Announced(x)' = {}
    BY <1>1, <1>2 DEF DiskConfirms, LedgerUnannounced, NothingNew
  <2> QED
    BY <2>1, <2>2, <2>3, <2>4 DEF DiskConfirms, LedgerUnannounced, GuardUnannounced
<1> QED
  BY <1>1, <1>2

\* A frame about an activation keeps announcements apart: all others of its
\* content are revoked.
LEMMA FrameApart ==
  ASSUME LogApart, journal # NoJournal, journal' # NoJournal, NEW frame, Announces(frame.event),
         Frames(journal'.log) = Frames(journal.log) \union {frame},
         \A g \in Frames(journal.log) : Alike(frame.event, g.event) =>
             \/ g.event.record = frame.event.record
             \/ Revoked(frame.event.record, g.event.record) /\ g.frame # "commit"
  PROVE  LogApart'
BY DEF LogApart, Alike

\* The announcement of an activation adds its record to what was announced.
LEMMA AnnouncementConfirms ==
  ASSUME Inv, DiskConfirms, NEW s \in Sources, NEW r \in Records, r.state = "extracting",
         ledger[s] = r, guard[s] = NoGuard, Unannounced(s, r),
         UNCHANGED <<ledger, guard, staged, manifests>>, proved \subseteq proved',
         journal # NoJournal, journal' # NoJournal,
         NEW frame, frame.frame = "event",
         frame.event = Event("new_active_representation", s, Activated(r)),
         Frames(journal'.log) = Frames(journal.log) \union {frame}
  PROVE  /\ DiskConfirms' /\ Unannounced(s, r)'
         /\ \A x : x # s => NothingNew(x)
<1> PICK final : final = Activated(r)
  OBVIOUS
<1>1. /\ frame.event.source = s /\ frame.event.record = final /\ Announces(frame.event)
      /\ final.content = r.content
  BY DEF Event, Announces, Activated, Records
<1>2. /\ \A x : x # s => NothingNew(x)
      /\ \A x \in Sources : x # s =>
            /\ ledger'[x] = NoRecord => Announced(x)' = {}
            /\ ledger'[x] # NoRecord => Unannounced(x, ledger[x])' \/ guard'[x] # NoGuard
            /\ guard'[x] # NoGuard => Unannounced(x, guard[x].before)'
  BY <1>1, OthersStay
<1>3. LogApart'
  <2>1. ASSUME NEW g \in Frames(journal.log), Alike(frame.event, g.event),
               g.event.record # final
        PROVE  Revoked(final, g.event.record) /\ g.frame # "commit"
    <3> PICK u : u = g.event.record
      OBVIOUS
    <3>1. u \in Announced(s) /\ u.content = r.content
      BY <1>1, <2>1, AnnouncedFrames DEF Alike
    <3>2. u \notin Sealed(s) /\ Revoked(final, u)
      BY <2>1, <3>1, SameContentRevoked
    <3>3. Announces(g.event) /\ g.event.source = s
      BY <1>1, <2>1 DEF Alike
    <3> QED
      BY <3>2, <3>3, AnnouncedFrames
  <2> QED
    BY <1>1, <2>1, FrameApart DEF DiskConfirms
<1>4. Sealed(s)' \subseteq Sealed(s) /\ Announced(s)' \subseteq Announced(s) \union {final}
  BY <1>1 DEF Sealed, Announced, Announcing
<1>5. Unannounced(s, r)'
  <2>1. ASSUME NEW u \in Announced(s)', u \notin Announced(s)
        PROVE  Awaits(s, r, u)' \/ Past(s, r, u)'
    <3>1. u = final
      BY <1>4, <2>1
    <3>2. u \notin Sealed(s)
      BY <2>1 DEF Sealed, Announced
    <3> QED
      BY <1>4, <3>1, <3>2 DEF Awaits
  <2>2. ASSUME NEW u \in Announced(s)
        PROVE  Awaits(s, r, u)' \/ Past(s, r, u)'
    <3>1. Awaits(s, r, u) \/ Past(s, r, u)
      BY DEF Unannounced
    <3> QED
      BY <1>4, <3>1 DEF Awaits, Past, Settled
  <2> QED
    BY <2>1, <2>2 DEF Unannounced
<1>6. Unannounced(s, ledger[s])'
  BY <1>5 DEF Unannounced, Past, Settled, Awaits
<1>7. LedgerUnannounced' /\ GuardUnannounced'
  BY <1>2, <1>6, NoRecordIsNone DEF LedgerUnannounced, GuardUnannounced
<1>8. StagedConfirmed' /\ AnnouncedWasActive' /\ AnnouncedOnce'
  BY ResultsStayConfirmed DEF DiskConfirms
<1> QED
  BY <1>2, <1>3, <1>5, <1>7, <1>8 DEF DiskConfirms

\* The commit of an activation seals its announcement.
LEMMA CommitConfirms ==
  ASSUME Inv, DiskConfirms, NEW s \in Sources, NEW r \in Records, r.state = "extracting",
         Unannounced(s, r), ledger[s] = Activated(r), guard[s] = NoGuard,
         <<s, Activated(r)>> \in proved,
         UNCHANGED <<ledger, guard, staged, manifests>>, proved \subseteq proved',
         journal # NoJournal, journal' # NoJournal,
         NEW frame, frame.frame = "commit",
         frame.event = Event("new_active_representation", s, Activated(r)),
         Frames(journal'.log) = Frames(journal.log) \union {frame}
  PROVE  DiskConfirms' /\ \A x : x # s => NothingNew(x)
<1> PICK final : final = Activated(r)
  OBVIOUS
<1>0. final \in Records
  BY RecordsStay
<1>1. /\ frame.event.source = s /\ frame.event.record = final /\ Announces(frame.event)
      /\ final.content = r.content
  BY DEF Event, Announces, Activated, Records
<1>2. /\ \A x : x # s => NothingNew(x)
      /\ \A x \in Sources : x # s =>
            /\ ledger'[x] = NoRecord => Announced(x)' = {}
            /\ ledger'[x] # NoRecord => Unannounced(x, ledger[x])' \/ guard'[x] # NoGuard
            /\ guard'[x] # NoGuard => Unannounced(x, guard[x].before)'
  BY <1>1, OthersStay
<1>3. LogApart'
  <2>1. ASSUME NEW g \in Frames(journal.log), Alike(frame.event, g.event),
               g.event.record # final
        PROVE  Revoked(final, g.event.record) /\ g.frame # "commit"
    <3> PICK u : u = g.event.record
      OBVIOUS
    <3>1. u \in Announced(s) /\ u.content = r.content
      BY <1>1, <2>1, AnnouncedFrames DEF Alike
    <3>2. u \notin Sealed(s) /\ Revoked(final, u)
      BY <2>1, <3>1, SameContentRevoked
    <3>3. Announces(g.event) /\ g.event.source = s
      BY <1>1, <2>1 DEF Alike
    <3> QED
      BY <3>2, <3>3, AnnouncedFrames
  <2> QED
    BY <1>1, <2>1, FrameApart DEF DiskConfirms
<1>4. /\ Sealed(s)' \subseteq Sealed(s) \union {final}
      /\ Announced(s)' \subseteq Announced(s) \union {final}
  BY <1>1 DEF Sealed, Announced, Announcing
<1>5. Unannounced(s, final) /\ Settled(s, final, final)
  BY ActivatedSettled
<1>6. Unannounced(s, final)'
  <2>1. ASSUME NEW u \in Announced(s)'
        PROVE  Past(s, final, u)'
    <3>1. CASE u = final
      BY <1>5, <3>1 DEF Past, Settled
    <3>2. CASE u # final
      <4>1. u \in Announced(s)
        BY <1>4, <3>2
      <4>2. ~Awaits(s, final, u)
        BY DEF Awaits, Activated, Records
      <4>3. Past(s, final, u)
        BY <1>5, <4>1, <4>2 DEF Unannounced
      <4> QED
        BY <1>4, <3>2, <4>3 DEF Past, Settled
    <3> QED
      BY <3>1, <3>2
  <2> QED
    BY <1>5, <2>1 DEF Unannounced
<1>7. Unannounced(s, ledger[s])'
  BY <1>6 DEF Unannounced, Past, Settled, Awaits
<1>8. LedgerUnannounced' /\ GuardUnannounced'
  BY <1>0, <1>2, <1>7, NoRecordIsNone DEF LedgerUnannounced, GuardUnannounced
<1>9. StagedConfirmed' /\ AnnouncedWasActive' /\ AnnouncedOnce'
  BY ResultsStayConfirmed DEF DiskConfirms
<1> QED
  BY <1>2, <1>3, <1>8, <1>9 DEF DiskConfirms

\* The save of an announced record, under its guard.
LEMMA GuardedSaveConfirms ==
  ASSUME Inv, DiskConfirms, NEW s \in Sources, NEW r \in Records, guard[s] # NoGuard,
         ledger' = [ledger EXCEPT ![s] = r],
         UNCHANGED <<guard, journal, staged, manifests>>, proved \subseteq proved'
  PROVE  DiskConfirms' /\ \A x : NothingNew(x)
<1>1. LogQuiet
  BY DEF LogQuiet
<1>2. \A x : NothingNew(x)
  BY <1>1, QuietLog
<1>3. ASSUME NEW x \in Sources
      PROVE  /\ ledger'[x] = NoRecord => Announced(x)' = {}
             /\ ledger'[x] # NoRecord => Unannounced(x, ledger[x])' \/ guard'[x] # NoGuard
             /\ guard'[x] # NoGuard => Unannounced(x, guard[x].before)'
  <2> PICK n, before : n = ledger[x] /\ before = guard[x].before
    OBVIOUS
  <2>1. /\ Unannounced(x, n) => Unannounced(x, n)'
        /\ Unannounced(x, before) => Unannounced(x, before)'
    BY <1>2, RecordsStayClear
  <2>2. ledger \in [Sources -> Records \union {NoRecord}]
    BY DEF Inv, Typed
  <2>3. Unannounced(x, before)' => Unannounced(x, guard[x].before)'
    BY DEF Unannounced, Past, Settled, Awaits
  <2>4. CASE x = s
    BY <2>1, <2>2, <2>3, <2>4, NoRecordIsNone DEF DiskConfirms, GuardUnannounced
  <2>5. CASE x # s
    <3>1. ledger'[x] = ledger[x]
      BY <2>2, <2>5
    <3>2. Unannounced(x, n)' => Unannounced(x, ledger[x])'
      BY <3>1 DEF Unannounced, Past, Settled, Awaits
    <3>3. ledger[x] = NoRecord => Announced(x)' = {}
      BY <1>2 DEF DiskConfirms, LedgerUnannounced, NothingNew
    <3> QED
      BY <2>1, <2>3, <3>1, <3>2, <3>3 DEF DiskConfirms, LedgerUnannounced, GuardUnannounced
  <2> QED
    BY <2>4, <2>5
<1>4. LedgerUnannounced' /\ GuardUnannounced'
  BY <1>3 DEF LedgerUnannounced, GuardUnannounced
<1>7. LogApart' /\ StagedConfirmed' /\ AnnouncedWasActive' /\ AnnouncedOnce'
  BY <1>1, QuietApart, ResultsStayConfirmed DEF DiskConfirms
<1> QED
  BY <1>2, <1>4, <1>7 DEF DiskConfirms

-----------------------------------------------------------------------------
(* The durable steps of a command.                                         *)

\* What is left of a plan, step by step.
LEMMA TailOfPlans ==
  ASSUME NEW t, NEW u, NEW v, NEW w, NEW x, NEW y, NEW z
  PROVE  /\ Head(<<t, u, v, w, x, y, z>>) = t /\ Tail(<<t, u, v, w, x, y, z>>) = <<u, v, w, x, y, z>>
         /\ Head(<<u, v, w, x, y, z>>) = u /\ Tail(<<u, v, w, x, y, z>>) = <<v, w, x, y, z>>
         /\ Head(<<v, w, x, y, z>>) = v /\ Tail(<<v, w, x, y, z>>) = <<w, x, y, z>>
         /\ Head(<<w, x, y, z>>) = w /\ Tail(<<w, x, y, z>>) = <<x, y, z>>
         /\ Head(<<x, y, z>>) = x /\ Tail(<<x, y, z>>) = <<y, z>>
         /\ Head(<<y, z>>) = y /\ Tail(<<y, z>>) = <<z>>
         /\ Head(<<z>>) = z /\ Tail(<<z>>) = <<>>
OBVIOUS

\* Steps put together.
LEMMA SevenSteps ==
  ASSUME NEW t \in Steps, NEW u \in Steps, NEW v \in Steps, NEW w \in Steps, NEW x \in Steps,
         NEW y \in Steps, NEW z \in Steps
  PROVE  <<t>> \o ((<<u>> \o <<v, w, x, y>>) \o <<z>>) = <<t, u, v, w, x, y, z>>
<1>1. (<<u>> \o <<v, w, x, y>>) \o <<z>> = <<u, v, w, x, y, z>>
  <2> PICK p, q : p = (<<u>> \o <<v, w, x, y>>) \o <<z>> /\ q = <<u, v, w, x, y, z>>
    OBVIOUS
  <2>1. p \in Seq(Steps) /\ q \in Seq(Steps) /\ Len(p) = 6 /\ Len(q) = 6
    OBVIOUS
  <2>2. /\ p[1] = q[1] /\ p[2] = q[2] /\ p[3] = q[3]
        /\ p[4] = q[4] /\ p[5] = q[5] /\ p[6] = q[6]
    OBVIOUS
  <2>3. \A i \in 1 .. 6 : i = 1 \/ i = 2 \/ i = 3 \/ i = 4 \/ i = 5 \/ i = 6
    OBVIOUS
  <2> QED
    BY <2>1, <2>2, <2>3, SeqEqual
<1>2. <<t>> \o <<u, v, w, x, y, z>> = <<t, u, v, w, x, y, z>>
  <2> PICK p, q : p = <<t>> \o <<u, v, w, x, y, z>> /\ q = <<t, u, v, w, x, y, z>>
    OBVIOUS
  <2>1. p \in Seq(Steps) /\ q \in Seq(Steps) /\ Len(p) = 7 /\ Len(q) = 7
    OBVIOUS
  <2>2. /\ p[1] = q[1] /\ p[2] = q[2] /\ p[3] = q[3] /\ p[4] = q[4]
        /\ p[5] = q[5] /\ p[6] = q[6] /\ p[7] = q[7]
    OBVIOUS
  <2>3. \A i \in 1 .. 7 : i = 1 \/ i = 2 \/ i = 3 \/ i = 4 \/ i = 5 \/ i = 6 \/ i = 7
    OBVIOUS
  <2> QED
    BY <2>1, <2>2, <2>3, SeqEqual
<1> QED
  BY <1>1, <1>2

\* The plan of an activation, whole.
LEMMA ActivationLaid ==
  ASSUME NEW s \in Sources, NEW r \in Records, NEW final, final = Activated(r),
         NEW e, e = Event("new_active_representation", s, final)
  PROVE  /\ <<Check(s)>> \o Activation(s, r, TRUE) =
             <<Check(s), Emit(e), Guard(s, r, final), Save(s, final), Check(s), Clear(s, final),
               Commit(e)>>
         /\ final \in Records /\ e \in EventSet
         /\ Check(s) \in Steps /\ Emit(e) \in Steps /\ Guard(s, r, final) \in Steps
         /\ Save(s, final) \in Steps /\ Clear(s, final) \in Steps /\ Commit(e) \in Steps
<1>1. final \in Records /\ e \in EventSet
  BY DEF Activated, Records, States, Attempts, Event, EventSet
<1>2. /\ Check(s) \in Steps /\ Emit(e) \in Steps /\ Guard(s, r, final) \in Steps
      /\ Save(s, final) \in Steps /\ Clear(s, final) \in Steps /\ Commit(e) \in Steps
  BY <1>1 DEF Check, Emit, Commit, Guard, Save, Clear, Steps
<1>3. Activation(s, r, TRUE) =
          (<<Emit(e)>> \o <<Guard(s, r, final), Save(s, final), Check(s), Clear(s, final)>>)
          \o <<Commit(e)>>
  BY Zenon DEF Activation
<1>4. <<Check(s)>> \o ((<<Emit(e)>> \o <<Guard(s, r, final), Save(s, final), Check(s),
                                        Clear(s, final)>>) \o <<Commit(e)>>)
        = <<Check(s), Emit(e), Guard(s, r, final), Save(s, final), Check(s), Clear(s, final),
            Commit(e)>>
  BY <1>2, SevenSteps
<1> QED
  BY <1>1, <1>2, <1>3, <1>4

\* A plan that is carried out is quiet.
LEMMA NothingLeftIsQuiet ==
  ASSUME NEW plan, plan = <<>>
  PROVE  QuietPlan(plan)'
<1>1. 1 .. Len(plan) = {}
  OBVIOUS
<1> QED
  BY <1>1 DEF QuietPlan

\* The rest of a plan is as quiet as the plan.
LEMMA QuietAdvances ==
  ASSUME NEW plan \in Seq(Steps), plan # <<>>, NEW q, q = Tail(plan), QuietPlan(plan),
         \A s : NothingNew(s)
  PROVE  QuietPlan(q)'
<1>1. /\ Len(plan) \in Nat /\ Len(plan) >= 1
      /\ Len(q) = Len(plan) - 1 /\ \A i \in 1 .. Len(q) : q[i] = plan[i + 1]
  BY RestOfPlan
<1>2. ASSUME NEW step, QuietStep(step)
      PROVE  QuietStep(step)'
  <2>1. Unannounced(step.source, step.record) => Unannounced(step.source, step.record)'
    BY RecordsStayClear
  <2>2. Unannounced(step.source, step.before) => Unannounced(step.source, step.before)'
    BY RecordsStayClear
  <2> QED
    BY <1>2, <2>1, <2>2 DEF QuietStep, Announces
<1>3. ASSUME NEW i \in 1 .. Len(q)
      PROVE  QuietStep(q[i])'
  <2>1. i + 1 \in 1 .. Len(plan) /\ q[i] = plan[i + 1]
    BY <1>1
  <2>2. QuietStep(plan[i + 1])
    BY <2>1 DEF QuietPlan
  <2> QED
    BY <1>2, <2>1, <2>2
<1> QED
  BY <1>3 DEF QuietPlan

\* Requests and extractions under way are not touched by another source's steps.
LEMMA InFlightAdvances ==
  ASSUME NEW c, InFlight(c), NEW plan \in Seq(Steps), plan = c.plan, plan # <<>>,
         NEW d, d.plan = Tail(plan), d.batch = c.batch, d.jobs = c.jobs, d.todo = c.todo,
         ledger \in [Sources -> Records \union {NoRecord}], Effect(plan[1]),
         c.jobs \subseteq Sources,
         \A s \in c.jobs \union {request.source : request \in c.batch} :
             NothingNew(s)
  PROVE  InFlight(d)'
<1> PICK q : q = Tail(plan)
  OBVIOUS
<1>1. /\ Len(plan) \in Nat /\ Len(plan) >= 1 /\ \A i \in 1 .. Len(plan) : plan[i] \in Steps
      /\ Len(q) = Len(plan) - 1 /\ \A i \in 1 .. Len(q) : q[i] = plan[i + 1]
  BY RestOfPlan
<1>2. ASSUME NEW request \in d.batch
      PROVE  Fresh(request.source, request.record)' /\ MustProcess(request.record)
  <2>1. NothingNew(request.source)
    BY <1>2
  <2>2. Fresh(request.source, request.record) /\ MustProcess(request.record)
    BY <1>2 DEF InFlight
  <2> QED
    BY <2>1, <2>2, RecordsStayClear
<1>3. ASSUME NEW i \in 1 .. Len(plan), plan[i].do = "save", plan[i].source \in c.jobs
      PROVE  Extracts(plan[i].source, plan[i].record)'
  <2>1. Extracts(plan[i].source, plan[i].record)
    BY <1>3 DEF InFlight
  <2>2. NothingNew(plan[i].source)
    BY <1>3
  <2> QED
    BY <2>1, <2>2, RecordsStayClear
<1>4. ASSUME NEW i \in 1 .. Len(q), q[i].do = "save", q[i].source \in d.jobs
      PROVE  Extracts(q[i].source, q[i].record)'
  <2>1. i + 1 \in 1 .. Len(plan) /\ q[i] = plan[i + 1]
    BY <1>1
  <2> QED
    BY <1>3, <1>4, <2>1
<1>5. ASSUME NEW s \in d.jobs
      PROVE  \/ \E i \in 1 .. Len(q) : q[i].do = "save" /\ q[i].source = s
             \/ ledger'[s] \in Records /\ Extracts(s, ledger[s])'
  <2>1. 1 \in 1 .. Len(plan) /\ plan[1] \in Steps /\ s \in Sources
    BY <1>1
  <2>2. CASE plan[1].do = "save" /\ plan[1].source = s
    <3>1. ledger'[s] = plan[1].record /\ plan[1].record \in Records
      BY <2>1, <2>2, StepFields DEF Effect
    <3>2. Extracts(s, plan[1].record)'
      BY <1>3, <2>1, <2>2
    <3> QED
      BY <3>1, <3>2 DEF Extracts, Fresh, Past, Settled
  <2>3. CASE ~(plan[1].do = "save" /\ plan[1].source = s)
    <3>1. ledger'[s] = ledger[s]
      BY <2>1, <2>3, StepFields DEF Effect
    <3>2. CASE \E i \in 1 .. Len(plan) : plan[i].do = "save" /\ plan[i].source = s
      <4>1. PICK i \in 1 .. Len(plan) : plan[i].do = "save" /\ plan[i].source = s
        BY <3>2
      <4>2. i # 1
        BY <2>3, <4>1
      <4>3. i - 1 \in 1 .. Len(q) /\ q[i - 1] = plan[i]
        BY <1>1, <4>2
      <4> QED
        BY <4>1, <4>3
    <3>3. CASE ledger[s] \in Records /\ Extracts(s, ledger[s])
      <4>1. NothingNew(s)
        BY <1>5
      <4>2. Extracts(s, ledger[s])'
        <5> PICK n : n = ledger[s]
          OBVIOUS
        <5>1. Extracts(s, n)'
          BY <3>3, <4>1, RecordsStayClear
        <5> QED
          BY <3>1, <5>1 DEF Extracts, Fresh, Past, Settled
      <4> QED
        BY <3>1, <3>3, <4>2
    <3> QED
      BY <1>5, <3>2, <3>3 DEF InFlight
  <2> QED
    BY <2>2, <2>3
<1>6. \A request \in d.batch : request.source \notin d.jobs \union d.todo
  BY DEF InFlight
<1>7. (\A a, b \in d.batch : a.source = b.source => a = b) /\ d.jobs \intersect d.todo = {}
  BY DEF InFlight
<1> QED
  BY <1>2, <1>4, <1>5, <1>6, <1>7 DEF InFlight

\* An activation goes on: it is announced, guarded, saved, checked, and committed.
LEMMA ActivatingAdvances ==
  ASSUME Inv, DiskConfirms, NEW c, NEW s \in Sources, NEW r \in Records, Activating(c, s, r),
         NEW step, step = Head(c.plan), NEW d, d.plan = Tail(c.plan),
         d.batch = c.batch, d.jobs = c.jobs, Effect(step), UNCHANGED <<staged, manifests>>,
         \/ step.do \notin {"emit", "commit"} /\ journal' = journal
         \/ /\ step.do \in {"emit", "commit"}
            /\ journal # NoJournal /\ journal' # NoJournal
            /\ \E frame : /\ frame.event = step.event
                          /\ frame.frame = IF step.do = "emit" THEN "event" ELSE "commit"
                          /\ Frames(journal'.log) = Frames(journal.log) \union {frame}
  PROVE  /\ DiskConfirms'
         /\ NothingElsewhere(s)
         /\ Activating(d, s, r)' \/ (d.plan = <<>> /\ QuietPlan(d.plan)')
<1> PICK final : final = Activated(r)
  OBVIOUS
<1> PICK e : e = Event("new_active_representation", s, final)
  OBVIOUS
<1> PICK check, emit, gd, save, clear, commit :
       /\ check = Check(s) /\ emit = Emit(e) /\ gd = Guard(s, r, final) /\ save = Save(s, final)
       /\ clear = Clear(s, final) /\ commit = Commit(e)
  OBVIOUS
<1>1. /\ final \in Records /\ check \in Steps /\ emit \in Steps /\ gd \in Steps
      /\ save \in Steps /\ clear \in Steps /\ commit \in Steps
  BY ActivationLaid
<1>2. /\ check.do = "check" /\ check.source = s
      /\ emit.do = "emit" /\ emit.event = e
      /\ gd.do = "guard" /\ gd.source = s /\ gd.before = r
      /\ save.do = "save" /\ save.source = s /\ save.record = final
      /\ clear.do = "clear" /\ clear.source = s /\ clear.record = final
      /\ commit.do = "commit" /\ commit.event = e
      /\ e.source = s /\ e.record = final /\ Announces(e)
  BY DEF Check, Emit, Guard, Save, Clear, Commit, Event, Announces
<1>3. /\ ledger \in [Sources -> Records \union {NoRecord}]
      /\ guard \in [Sources -> Guards \union {NoGuard}] /\ proved \subseteq proved'
  BY DEF Inv, Typed, Effect
<1>4. /\ r.state = "extracting" /\ s \notin c.jobs /\ \A request \in c.batch : request.source # s
      /\ Unannounced(s, r)
  BY DEF Activating
<1>q. ASSUME step \in Steps, QuietStep(step)
      PROVE  DiskConfirms' /\ (\A x : NothingNew(x))
             /\ Unannounced(s, r)'
  <2>1. DiskConfirms' /\ (\A x : NothingNew(x))
    BY <1>q, QuietStepConfirms
  <2> QED
    BY <1>4, <2>1, RecordsStayClear
<1>a. ASSUME Unannounced(s, r)',
             \/ /\ ledger'[s] = r /\ guard'[s] = NoGuard
                /\ d.plan \in {<<emit, gd, save, check, clear, commit>>,
                               <<gd, save, check, clear, commit>>}
             \/ guard'[s] # NoGuard /\ d.plan = <<save, check, clear, commit>>
             \/ guard'[s] # NoGuard /\ ledger'[s] = final /\ d.plan = <<check, clear, commit>>
             \/ /\ guard'[s] # NoGuard /\ ledger'[s] = final /\ d.plan = <<clear, commit>>
                /\ Confirmed(e)'
             \/ guard'[s] = NoGuard /\ ledger'[s] = final /\ d.plan = <<commit>> /\ Confirmed(e)'
      PROVE  Activating(d, s, r)'
  BY <1>4, <1>a DEF Activating, ActivatingBy
<1>6. CASE ledger[s] = r /\ guard[s] = NoGuard
           /\ c.plan = <<check, emit, gd, save, check, clear, commit>>
  <2>1. step = check /\ d.plan = <<emit, gd, save, check, clear, commit>>
    BY <1>6, TailOfPlans
  <2>2. QuietStep(step) /\ UNCHANGED <<ledger, guard>>
    BY <1>2, <2>1 DEF QuietStep, Effect
  <2> QED
    BY <1>1, <1>6, <1>q, <1>a, <2>1, <2>2 DEF NothingElsewhere
<1>7. CASE ledger[s] = r /\ guard[s] = NoGuard /\ c.plan = <<emit, gd, save, check, clear, commit>>
  <2>1. step = emit /\ d.plan = <<gd, save, check, clear, commit>>
    BY <1>7, TailOfPlans
  <2>2. UNCHANGED <<ledger, guard>> /\ journal # NoJournal /\ journal' # NoJournal
    BY <1>2, <2>1 DEF Effect
  <2>3. PICK frame : /\ frame.event = e /\ frame.frame = "event"
                     /\ Frames(journal'.log) = Frames(journal.log) \union {frame}
    BY <1>2, <2>1
  <2>4. /\ DiskConfirms'
        /\ NothingElsewhere(s)
        /\ Unannounced(s, r)'
    BY <1>3, <1>4, <1>7, <2>2, <2>3, AnnouncementConfirms DEF NothingElsewhere
  <2> QED
    BY <1>7, <1>a, <2>1, <2>2, <2>4
<1>8. CASE ledger[s] = r /\ guard[s] = NoGuard /\ c.plan = <<gd, save, check, clear, commit>>
  <2>1. step = gd /\ d.plan = <<save, check, clear, commit>>
    BY <1>8, TailOfPlans
  <2>2. QuietStep(step)
    BY <1>2, <1>4, <2>1 DEF QuietStep
  <2>3. guard'[s] = [before |-> step.before, after |-> step.after]
    BY <1>2, <1>3, <2>1 DEF Effect
  <2>4. guard'[s] # NoGuard
    BY <1>1, <1>2, <2>1, <2>3, StepFields, NoGuardIsNone
  <2> QED
    BY <1>1, <1>q, <1>a, <2>1, <2>2, <2>4 DEF NothingElsewhere
<1>9. CASE guard[s] # NoGuard /\ c.plan = <<save, check, clear, commit>>
  <2>1. step = save /\ d.plan = <<check, clear, commit>>
    BY <1>9, TailOfPlans
  <2>2. /\ ledger' = [ledger EXCEPT ![s] = final] /\ UNCHANGED <<guard, journal>>
        /\ ledger'[s] = final
    BY <1>2, <1>3, <2>1 DEF Effect
  <2>3. DiskConfirms' /\ \A x : NothingNew(x)
    BY <1>1, <1>3, <1>9, <2>2, GuardedSaveConfirms
  <2>4. Unannounced(s, r)'
    BY <1>4, <2>3, RecordsStayClear
  <2> QED
    BY <1>9, <1>a, <2>1, <2>2, <2>3, <2>4 DEF NothingElsewhere
<1>10. CASE guard[s] # NoGuard /\ ledger[s] = final /\ c.plan = <<check, clear, commit>>
  <2>1. step = check /\ d.plan = <<clear, commit>>
    BY <1>10, TailOfPlans
  <2>2. QuietStep(step)
    BY <1>2, <2>1 DEF QuietStep
  <2>3. Confirmed(e)' /\ UNCHANGED <<ledger, guard>>
    BY <1>2, <1>10, <2>1 DEF Effect, Confirmed
  <2> QED
    BY <1>1, <1>10, <1>q, <1>a, <2>1, <2>2, <2>3 DEF NothingElsewhere
<1>11. CASE guard[s] # NoGuard /\ ledger[s] = final /\ c.plan = <<clear, commit>> /\ Confirmed(e)
  <2>1. step = clear /\ d.plan = <<commit>>
    BY <1>11, TailOfPlans
  <2>2. Unannounced(s, final)
    BY <1>2, <1>4, <1>11, ActivatedSettled DEF Confirmed
  <2>3. QuietStep(step)
    BY <1>2, <2>1, <2>2 DEF QuietStep
  <2>4. guard'[s] = NoGuard /\ ledger'[s] = final /\ Confirmed(e)'
    BY <1>2, <1>3, <1>11, <2>1 DEF Effect, Confirmed
  <2> QED
    BY <1>1, <1>q, <1>a, <2>1, <2>3, <2>4 DEF NothingElsewhere
<1>12. CASE guard[s] = NoGuard /\ ledger[s] = final /\ c.plan = <<commit>> /\ Confirmed(e)
  <2>1. step = commit /\ d.plan = <<>>
    BY <1>12, TailOfPlans
  <2>2. UNCHANGED <<ledger, guard>> /\ journal # NoJournal /\ journal' # NoJournal
    BY <1>2, <2>1 DEF Effect
  <2>3. PICK frame : /\ frame.event = e /\ frame.frame = "commit"
                     /\ Frames(journal'.log) = Frames(journal.log) \union {frame}
    BY <1>2, <2>1
  <2>4. <<s, final>> \in proved
    BY <1>2, <1>12 DEF Confirmed
  <2>5. DiskConfirms' /\ NothingElsewhere(s)
    BY <1>3, <1>4, <1>12, <2>2, <2>3, <2>4, CommitConfirms DEF NothingElsewhere
  <2>6. QuietPlan(d.plan)'
    BY <2>1, NothingLeftIsQuiet
  <2> QED
    BY <2>1, <2>5, <2>6
<1> QED
  BY <1>6, <1>7, <1>8, <1>9, <1>10, <1>11, <1>12 DEF Activating, ActivatingBy

\* A durable step of a command keeps the invariant.
LEMMA StepConfirms ==
  ASSUME Inv, Inv', CommandHolds, DiskConfirms, CommandAnnounces,
         EmitStep \/ CommitStep \/ SaveStep \/ GuardStep \/ CheckStep \/ ClearStep
  PROVE  DiskConfirms' /\ CommandAnnounces'
<1> PICK step : step = Head(command.plan)
  OBVIOUS
<1> PICK c : c = [command EXCEPT !.plan = Tail(@)]
  OBVIOUS
<1>1. /\ command # Idle /\ command.plan # <<>> /\ command' \in {c, Idle} /\ step \in Steps
      /\ step = command.plan[1] /\ command \in CommandSet /\ command.plan \in Seq(Steps)
      /\ Effect(step) /\ UNCHANGED <<staged, manifests>>
  BY StepTaken DEF Advance
<1>2. \/ step.do \notin {"emit", "commit"} /\ journal' = journal
      \/ /\ step.do \in {"emit", "commit"}
         /\ journal # NoJournal /\ journal' # NoJournal
         /\ \E frame : /\ frame.event = step.event
                       /\ frame.frame = IF step.do = "emit" THEN "event" ELSE "commit"
                       /\ Frames(journal'.log) = Frames(journal.log) \union {frame}
  BY StepTaken
<1> PICK plan, q : plan = command.plan /\ q = Tail(plan)
  OBVIOUS
<1>3. /\ c.plan = q /\ c.phase = command.phase /\ c.batch = command.batch
      /\ c.jobs = command.jobs /\ c.todo = command.todo /\ command.jobs \subseteq Sources
      /\ plan \in Seq(Steps) /\ plan # <<>> /\ step = plan[1]
      /\ ledger \in [Sources -> Records \union {NoRecord}] /\ proved \subseteq proved'
  BY <1>1 DEF CommandSet, Inv, Typed, Effect
<1>4. CommandConfirms(command)
  BY DEF CommandAnnounces
<1>f. ASSUME command.phase = "reconcile",
             \A s \in command.jobs \union {request.source : request \in command.batch} :
                 NothingNew(s)
      PROVE  InFlight(c)'
  <2>1. InFlight(command)
    BY <1>1, <1>4, <1>f DEF CommandConfirms
  <2> QED
    BY <1>1, <1>3, <1>f, <2>1, InFlightAdvances
<1>c. ASSUME \/ QuietPlan(c.plan)'
             \/ c.phase = "reconcile" /\ \E s \in Sources : \E r \in Records : Activating(c, s, r)',
             c.phase = "reconcile" => InFlight(c)'
      PROVE  CommandAnnounces'
  <2>1. CommandConfirms(c)'
    BY <1>1, <1>3, <1>4, <1>c DEF CommandConfirms
  <2>2. CommandConfirms(Idle)'
    BY DEF CommandConfirms
  <2> QED
    BY <1>1, <2>1, <2>2 DEF CommandAnnounces
<1>5. CASE QuietPlan(plan)
  <2>1. QuietStep(step)
    <3>1. 1 \in 1 .. Len(plan)
      BY <1>3, RestOfPlan
    <3> QED
      BY <1>3, <1>5, <3>1 DEF QuietPlan
  <2>2. DiskConfirms' /\ \A s : NothingNew(s)
    BY <1>1, <1>2, <2>1, QuietStepConfirms
  <2>3. QuietPlan(q)'
    BY <1>3, <1>5, <2>2, QuietAdvances
  <2> QED
    BY <1>3, <1>c, <1>f, <2>2, <2>3
<1>6. ASSUME command.phase = "reconcile", NEW s \in Sources, NEW r \in Records,
             Activating(command, s, r)
      PROVE  DiskConfirms' /\ CommandAnnounces'
  <2>1. /\ DiskConfirms'
        /\ NothingElsewhere(s)
        /\ Activating(c, s, r)' \/ QuietPlan(c.plan)'
    <3> PICK k : k = command
      OBVIOUS
    <3>1. /\ Activating(k, s, r) /\ step = Head(k.plan) /\ c.plan = Tail(k.plan)
          /\ c.batch = k.batch /\ c.jobs = k.jobs
      BY <1>3, <1>6
    <3>2. Effect(step) /\ UNCHANGED <<staged, manifests>>
      BY <1>1
    <3> QED
      BY <1>2, <3>1, <3>2, ActivatingAdvances
  <2>2. s \notin command.jobs /\ \A request \in command.batch : request.source # s
    BY <1>6 DEF Activating
  <2> QED
    BY <1>3, <1>6, <1>c, <1>f, <2>1, <2>2 DEF NothingElsewhere
<1> QED
  BY <1>1, <1>4, <1>5, <1>6 DEF CommandConfirms

-----------------------------------------------------------------------------
(* The plans of a command.                                                 *)

\* What a command remembers is all that changes.
LEMMA MemoryConfirms ==
  ASSUME UNCHANGED <<disk, history>>, NEW c
  PROVE  (DiskConfirms => DiskConfirms') /\ (CommandConfirms(c) => CommandConfirms(c)')
<1>1. UNCHANGED <<ledger, guard, journal, staged, manifests, proved>>
  BY DEF disk, history
<1>2. /\ \A s : NothingNew(s) /\ Announced(s)' = Announced(s)
      /\ \A e : Confirmed(e)' = Confirmed(e)
  BY <1>1 DEF NothingNew, Announced, Sealed, Announcing, Confirmed
<1>3. \A s, r : /\ Fresh(s, r) => Fresh(s, r)'
                /\ Unannounced(s, r) => Unannounced(s, r)'
                /\ Extracts(s, r) => Extracts(s, r)'
  BY <1>2, RecordsStayClear
<1>4. DiskConfirms => DiskConfirms'
  <2>1. LedgerUnannounced /\ GuardUnannounced => LedgerUnannounced' /\ GuardUnannounced'
    BY <1>1, <1>2, LedgerStaysClear
  <2>2. LogApart => LogApart'
    BY <1>1 DEF LogApart
  <2>3. StagedConfirmed /\ AnnouncedWasActive /\ AnnouncedOnce
        => StagedConfirmed' /\ AnnouncedWasActive' /\ AnnouncedOnce'
    BY <1>1, ResultsStayConfirmed
  <2> QED
    BY <2>1, <2>2, <2>3 DEF DiskConfirms
<1>5. QuietPlan(c.plan) => QuietPlan(c.plan)'
  <2>1. \A step : QuietStep(step) => QuietStep(step)'
    BY <1>2, <1>3 DEF QuietStep
  <2> QED
    BY <2>1 DEF QuietPlan
<1>6. \A s, r : Activating(c, s, r) => Activating(c, s, r)'
  BY <1>1, <1>2, <1>3 DEF Activating, ActivatingBy
<1>7. InFlight(c) => InFlight(c)'
  <2>1. ASSUME NEW s, Extracts(s, ledger[s])
        PROVE  Extracts(s, ledger[s])'
    BY <1>1, <1>3, <2>1 DEF Extracts, Fresh, Past, Settled, Announced, Sealed, Announcing
  <2> QED
    BY <1>1, <1>3, <2>1 DEF InFlight
<1> QED
  BY <1>4, <1>5, <1>6, <1>7 DEF CommandConfirms

\* Two quiet plans make one.
LEMMA QuietConcat ==
  ASSUME NEW p \in Seq(Steps), NEW q \in Seq(Steps), QuietPlan(p), QuietPlan(q)
  PROVE  p \o q \in Seq(Steps) /\ QuietPlan(p \o q)
<1>1. p \o q \in Seq(Steps) /\ Len(p \o q) = Len(p) + Len(q) /\ Len(p) \in Nat /\ Len(q) \in Nat
      /\ (\A i \in 1 .. Len(p) : (p \o q)[i] = p[i])
      /\ \A i \in 1 .. Len(q) : (p \o q)[Len(p) + i] = q[i]
  BY ConcatSteps
<1>2. ASSUME NEW i \in 1 .. Len(p \o q)
      PROVE  QuietStep((p \o q)[i])
  <2>1. CASE i \in 1 .. Len(p)
    <3>1. (p \o q)[i] = p[i] /\ QuietStep(p[i])
      BY <1>1, <2>1 DEF QuietPlan
    <3> QED
      BY <3>1
  <2>2. CASE i \notin 1 .. Len(p)
    <3>1. i - Len(p) \in 1 .. Len(q) /\ i = Len(p) + (i - Len(p))
      BY <1>1, <2>2
    <3>2. (p \o q)[i] = q[i - Len(p)] /\ QuietStep(q[i - Len(p)])
      BY <1>1, <3>1 DEF QuietPlan
    <3> QED
      BY <3>2
  <2> QED
    BY <2>1, <2>2
<1> QED
  BY <1>1, <1>2 DEF QuietPlan

\* Where and what a plan saves.
SavesOnly(plan, s, records) ==
    \A i \in 1 .. Len(plan) :
        plan[i].do = "save" => plan[i].source = s /\ plan[i].record \in records

\* So does a plan of two parts.
LEMMA SavesConcat ==
  ASSUME NEW p \in Seq(Steps), NEW q \in Seq(Steps), NEW s, NEW records,
         SavesOnly(p, s, records), SavesOnly(q, s, records)
  PROVE  SavesOnly(p \o q, s, records)
<1>1. p \o q \in Seq(Steps) /\ Len(p \o q) = Len(p) + Len(q) /\ Len(p) \in Nat /\ Len(q) \in Nat
      /\ (\A i \in 1 .. Len(p) : (p \o q)[i] = p[i])
      /\ \A i \in 1 .. Len(q) : (p \o q)[Len(p) + i] = q[i]
  BY ConcatSteps
<1> PICK plan : plan = p \o q
  OBVIOUS
<1>2. ASSUME NEW i \in 1 .. Len(plan), plan[i].do = "save"
      PROVE  plan[i].source = s /\ plan[i].record \in records
  <2>1. CASE i \in 1 .. Len(p)
    BY <1>1, <1>2, <2>1 DEF SavesOnly
  <2>2. CASE i \notin 1 .. Len(p)
    <3>1. i - Len(p) \in 1 .. Len(q) /\ i = Len(p) + (i - Len(p))
      BY <1>1, <2>2
    <3>2. plan[i] = q[i - Len(p)]
      BY <1>1, <3>1
    <3> QED
      BY <1>2, <3>1, <3>2 DEF SavesOnly
  <2> QED
    BY <2>1, <2>2
<1> QED
  BY <1>2 DEF SavesOnly

\* The plans of one step.
LEMMA QuietSteps ==
  ASSUME NEW s \in Sources, NEW r \in Records
  PROVE  /\ <<>> \in Seq(Steps) /\ QuietPlan(<<>>) /\ Len(<<>>) = 0
         /\ <<Check(s)>> \in Seq(Steps) /\ QuietPlan(<<Check(s)>>)
         /\ Len(<<Check(s)>>) = 1 /\ <<Check(s)>>[1].do = "check"
         /\ <<Save(s, r)>> \in Seq(Steps) /\ (Unannounced(s, r) => QuietPlan(<<Save(s, r)>>))
         /\ <<Clear(s, r)>> \in Seq(Steps) /\ (Unannounced(s, r) => QuietPlan(<<Clear(s, r)>>))
         /\ \A kind \in {"citation_rewrite", "handoff_source_id"} :
               LET e == Event(kind, s, r)
               IN /\ <<Emit(e)>> \in Seq(Steps) /\ QuietPlan(<<Emit(e)>>)
                  /\ <<Commit(e)>> \in Seq(Steps) /\ QuietPlan(<<Commit(e)>>)
<1>1. \A step \in Steps : /\ <<step>> \in Seq(Steps) /\ Len(<<step>>) = 1 /\ <<step>>[1] = step
  OBVIOUS
<1>2. \A step \in Steps : QuietStep(step) => QuietPlan(<<step>>)
  BY <1>1 DEF QuietPlan
<1>3. <<>> \in Seq(Steps) /\ QuietPlan(<<>>) /\ Len(<<>>) = 0
  BY DEF QuietPlan
<1>4. Check(s) \in Steps /\ QuietStep(Check(s)) /\ Check(s).do = "check"
  BY DEF Check, Steps, QuietStep
<1>5. Save(s, r) \in Steps /\ (Unannounced(s, r) => QuietStep(Save(s, r)))
  BY DEF Save, Steps, QuietStep
<1>6. Clear(s, r) \in Steps /\ (Unannounced(s, r) => QuietStep(Clear(s, r)))
  BY DEF Clear, Steps, QuietStep
<1>7. ASSUME NEW kind \in {"citation_rewrite", "handoff_source_id"},
             NEW e, e = Event(kind, s, r)
      PROVE  /\ Emit(e) \in Steps /\ QuietStep(Emit(e))
             /\ Commit(e) \in Steps /\ QuietStep(Commit(e))
  <2>1. e \in EventSet /\ ~Announces(e)
    BY <1>7 DEF Event, EventSet, Announces
  <2>2. Emit(e) \in Steps /\ Commit(e) \in Steps
    BY <2>1 DEF Emit, Commit, Steps
  <2>3. /\ Emit(e).do = "emit" /\ Emit(e).event = e
        /\ Commit(e).do = "commit" /\ Commit(e).event = e
    BY DEF Emit, Commit
  <2> QED
    BY <2>1, <2>2, <2>3 DEF QuietStep
<1> QED
  BY <1>1, <1>2, <1>3, <1>4, <1>5, <1>6, <1>7

\* Publishing a record that was not announced.
LEMMA QuietPublish ==
  ASSUME NEW s \in Sources, NEW records, NEW r \in Records, r \in records,
         NEW rewrites \in BOOLEAN, Unannounced(s, r)
  PROVE  /\ Publish(s, r, rewrites) \in Seq(Steps) /\ QuietPlan(Publish(s, r, rewrites))
         /\ SavesOnly(Publish(s, r, rewrites), s, records)
<1> PICK e : e = Event("citation_rewrite", s, r)
  OBVIOUS
<1> PICK emit, save, commit : emit = Emit(e) /\ save = Save(s, r) /\ commit = Commit(e)
  OBVIOUS
<1>1. /\ emit.do = "emit" /\ emit.event = e /\ commit.do = "commit" /\ commit.event = e
      /\ save.do = "save" /\ save.source = s /\ save.record = r /\ ~Announces(e)
      /\ e \in EventSet
  BY DEF Emit, Commit, Save, Event, Announces, EventSet
<1>2. emit \in Steps /\ save \in Steps /\ commit \in Steps
  BY <1>1 DEF Emit, Commit, Save, Steps
<1>3. QuietStep(emit) /\ QuietStep(save) /\ QuietStep(commit)
  BY <1>1 DEF QuietStep
<1>4. CASE rewrites
  <2>1. Publish(s, r, rewrites) = <<emit, save, commit>>
    BY <1>4 DEF Publish
  <2> PICK p : p = <<emit, save, commit>>
    OBVIOUS
  <2>2. /\ p \in Seq(Steps) /\ Len(p) = 3 /\ p[1] = emit /\ p[2] = save /\ p[3] = commit
        /\ \A i \in 1 .. 3 : i = 1 \/ i = 2 \/ i = 3
    BY <1>2
  <2> QED
    BY <1>1, <1>3, <2>1, <2>2 DEF QuietPlan, SavesOnly
<1>5. CASE ~rewrites
  <2>1. Publish(s, r, rewrites) = <<save>>
    BY <1>5 DEF Publish
  <2>2. /\ <<save>> \in Seq(Steps) /\ Len(<<save>>) = 1 /\ <<save>>[1] = save
        /\ \A i \in 1 .. 1 : i = 1
    BY <1>2
  <2> QED
    BY <1>1, <1>3, <2>1, <2>2 DEF QuietPlan, SavesOnly
<1> QED
  BY <1>4, <1>5

-----------------------------------------------------------------------------
(* The steps that lay a plan, or none.                                     *)

\* A sync that reconciles, between two plans.
LEMMA AtWork ==
  ASSUME Inv, DiskConfirms, CommandAnnounces,
         command # Idle, command.plan = <<>>, command.phase = "reconcile"
  PROVE  /\ InFlight(command) /\ command.jobs \subseteq Sources
         /\ \A s \in command.jobs : /\ ledger[s] \in Records /\ Extracts(s, ledger[s])
                                    /\ s \notin command.todo
         /\ \A s \in Sources : /\ guard[s] = NoGuard
                               /\ ledger[s] = NoRecord => Announced(s) = {}
                               /\ ledger[s] # NoRecord => Unannounced(s, ledger[s])
<1>1. InFlight(command) /\ command \in CommandSet
  BY DEF CommandAnnounces, CommandConfirms, Inv, Typed
<1>2. Len(command.plan) = 0 /\ \A i \in 1 .. Len(command.plan) : FALSE
  OBVIOUS
<1>3. \A s \in Sources : guard[s] = NoGuard
  BY <1>2 DEF Inv, PlanHolds, PlanOf, GuardCleared, Working
<1>4. \A s \in command.jobs : /\ ledger[s] \in Records /\ Extracts(s, ledger[s])
                              /\ s \notin command.todo
  BY <1>1, <1>2 DEF InFlight
<1> QED
  BY <1>1, <1>3, <1>4 DEF DiskConfirms, LedgerUnannounced, CommandSet

\* What is under way when one source has been looked at.
LEMMA FlightLaid ==
  ASSUME InFlight(command), command.plan = <<>>, NEW s, NEW d, d.jobs \subseteq command.jobs,
         d.todo \subseteq command.todo, s \notin d.jobs, NEW records, SavesOnly(d.plan, s, records),
         \/ d.batch = command.batch
         \/ /\ s \in command.todo /\ s \notin d.todo
            /\ \E new : /\ new.source = s /\ Fresh(s, new.record) /\ MustProcess(new.record)
                        /\ d.batch = command.batch \union {new}
  PROVE  InFlight(d)
<1>1. Len(command.plan) = 0 /\ \A i \in 1 .. Len(command.plan) : FALSE
  OBVIOUS
<1>2. \A x \in d.jobs : ledger[x] \in Records /\ Extracts(x, ledger[x])
  BY <1>1 DEF InFlight
<1>3. d.jobs \intersect d.todo = {}
  BY DEF InFlight
<1>4. \A i \in 1 .. Len(d.plan) : ~(d.plan[i].do = "save" /\ d.plan[i].source \in d.jobs)
  BY DEF SavesOnly
<1>5. /\ \A request \in d.batch :
            /\ Fresh(request.source, request.record) /\ MustProcess(request.record)
            /\ request.source \notin d.jobs \union d.todo
      /\ \A p, q \in d.batch : p.source = q.source => p = q
  <2>1. CASE d.batch = command.batch
    BY <2>1 DEF InFlight
  <2>2. CASE /\ s \in command.todo /\ s \notin d.todo
             /\ \E new : /\ new.source = s /\ Fresh(s, new.record) /\ MustProcess(new.record)
                         /\ d.batch = command.batch \union {new}
    <3>1. PICK new : /\ new.source = s /\ Fresh(s, new.record) /\ MustProcess(new.record)
                     /\ d.batch = command.batch \union {new}
      BY <2>2
    <3>2. \A request \in command.batch : request.source # s
      BY <2>2 DEF InFlight
    <3> QED
      BY <2>2, <3>1, <3>2 DEF InFlight
  <2> QED
    BY <2>1, <2>2
<1> QED
  BY <1>2, <1>3, <1>4, <1>5 DEF InFlight

\* A file in its place, a moved one and a new one.
LEMMA ReconcileFileConfirms ==
  ASSUME Inv, CommandHolds, DiskConfirms, CommandAnnounces, NEW s \in Sources, ReconcileFile(s)
  PROVE  CommandConfirms(command')
<1>f. PICK f : f = FileOf(s)
  OBVIOUS
<1>now. PICK now : now = command.at
  OBVIOUS
<1>created. PICK created \in BOOLEAN : created = (ledger[s] = NoRecord)
  OBVIOUS
<1>renamed. PICK renamed \in BOOLEAN : renamed = (~created /\ ledger[s].path # f.path)
  OBVIOUS
<1>r. PICK r : r = IF created THEN NewRecord(f, now)
                 ELSE IF renamed THEN RenameRecord(ledger[s], f, now) ELSE ledger[s]
  OBVIOUS
<1>stale. PICK stale \in BOOLEAN : stale = (r.state = "extracting")
  OBVIOUS
<1>awake. PICK awake : awake = IF stale THEN RecoverStale(r, now) ELSE r
  OBVIOUS
<1>same. PICK same \in BOOLEAN : same = (f.bytes = r.content)
  OBVIOUS
<1>next. PICK next : next = IF same THEN RefreshMatchingBytes(awake, now)
                       ELSE MarkIntegrityError(awake, f.bytes, now)
  OBVIOUS
<1>process. PICK process \in BOOLEAN : process = (same /\ MustProcess(next))
  OBVIOUS
<1>rewrites. PICK rewrites \in BOOLEAN : rewrites = (renamed /\ ~stale)
  OBVIOUS
<1>changed. PICK changed \in BOOLEAN : changed = (next # awake \/ ((created \/ renamed) /\ ~stale))
  OBVIOUS
<1>recovery. PICK recovery : recovery = IF stale THEN Publish(s, awake, renamed) ELSE <<>>
  OBVIOUS
<1>outcome. PICK outcome : outcome = IF ~process /\ changed THEN Publish(s, next, rewrites) ELSE <<>>
  OBVIOUS
<1>request. PICK request : request = [source |-> s, record |-> next, rewrites |-> rewrites]
  OBVIOUS
<1>batch. PICK batch : batch = IF process THEN command.batch \union {request} ELSE command.batch
  OBVIOUS
<1>1. /\ command # Idle /\ command.plan = <<>> /\ command.phase = "reconcile"
      /\ f # Gone /\ (ledger[s] # NoRecord => ~Collides(ledger[s])) /\ s \in command.todo
  BY <1>f DEF ReconcileFile, Reconciling, InPhase
<1>2. command' = [command EXCEPT !.todo = @ \ {s}, !.batch = batch, !.plan = recovery \o outcome]
  BY <1>f, <1>now, <1>created, <1>renamed, <1>r, <1>stale, <1>awake, <1>same,
     <1>next, <1>process, <1>rewrites, <1>changed,
     <1>recovery, <1>outcome, <1>request, <1>batch DEF ReconcileFile
<1>3. /\ command \in CommandSet /\ PhaseOf(command) /\ now \in Nat
      /\ ledger \in [Sources -> Records \union {NoRecord}]
  BY <1>1, <1>now, Reconciles
<1>4. f \in Files /\ f.bytes \in Bytes
  <2>1. command.seen[s] \in Files
    BY <1>1, <1>3 DEF PhaseOf
  <2>2. f \in Files
    BY <1>f, <2>1 DEF FileOf, Files
  <2> QED
    BY <1>1, <2>2 DEF Files
<1>5. /\ InFlight(command) /\ s \notin command.jobs
      /\ ledger[s] = NoRecord => Announced(s) = {}
      /\ ledger[s] # NoRecord => Unannounced(s, ledger[s])
  BY <1>1, AtWork
<1>6. r \in Records /\ awake \in Records /\ Fresh(s, awake)
  <2>1. CASE created
    <3>1. r \in Records
      BY <1>1, <1>3, <1>4, <1>r, <2>1, RecordsOfFiles
    <3>2. awake \in Records
      BY <1>3, <1>4, <1>awake, <3>1, RecordsStay
    <3>3. r.state = "pending" /\ r.content \in r.versions
      BY <1>r, <2>1 DEF NewRecord
    <3>4. awake = r
      BY <1>awake, <1>stale, <3>3
    <3> QED
      BY <1>5, <1>created, <2>1, <3>1, <3>2, <3>3, <3>4 DEF Fresh
  <2>2. CASE ~created
    <3>1. ledger[s] \in Records
      BY <1>3, <1>created, <2>2
    <3>2. r \in Records
      BY <1>1, <1>3, <1>4, <1>r, <2>2, <3>1, RecordsOfFiles
    <3>3. r.state = ledger[s].state /\ r.diagnostics = ledger[s].diagnostics
      BY <1>r, <2>2, <3>1 DEF RenameRecord, Records
    <3>4. awake \in Records
      BY <1>3, <1>4, <1>awake, <3>2, RecordsStay
    <3>5. awake = IF r.state = "extracting" THEN RecoverStale(r, now) ELSE r
      BY <1>stale, <1>awake
    <3>6. Unannounced(s, ledger[s]) /\ ~Collides(ledger[s])
      BY <1>1, <1>5, <1>created, <2>2
    <3>7. Keeps(ledger[s], r)
      BY <1>r, <2>2, <3>1, FunctionsKeep
    <3>8. Fresh(s, awake)
      BY <3>1, <3>2, <3>3, <3>5, <3>6, <3>7, TakenUpFresh
    <3> QED
      BY <3>2, <3>4, <3>8
  <2> QED
    BY <2>1, <2>2
<1>7. next \in Records /\ Keeps(awake, next) /\ Keeps(awake, awake)
  BY <1>3, <1>4, <1>6, <1>next, RecordsStay, FunctionsKeep
<1>8. Fresh(s, next) /\ Unannounced(s, next) /\ Unannounced(s, awake)
  BY <1>6, <1>7, FreshStays
<1>9. /\ recovery \in Seq(Steps) /\ QuietPlan(recovery) /\ SavesOnly(recovery, s, Records)
      /\ outcome \in Seq(Steps) /\ QuietPlan(outcome) /\ SavesOnly(outcome, s, Records)
  <2>1. <<>> \in Seq(Steps) /\ QuietPlan(<<>>) /\ SavesOnly(<<>>, s, Records)
    <3>1. <<>> \in Seq(Steps) /\ QuietPlan(<<>>) /\ Len(<<>>) = 0
      BY <1>6, QuietSteps
    <3>2. \A i \in 1 .. Len(<<>>) : FALSE
      BY <3>1
    <3> QED
      BY <3>1, <3>2 DEF SavesOnly
  <2>2. /\ Publish(s, awake, renamed) \in Seq(Steps) /\ QuietPlan(Publish(s, awake, renamed))
        /\ SavesOnly(Publish(s, awake, renamed), s, Records)
    BY <1>6, <1>8, QuietPublish
  <2>3. /\ Publish(s, next, rewrites) \in Seq(Steps) /\ QuietPlan(Publish(s, next, rewrites))
        /\ SavesOnly(Publish(s, next, rewrites), s, Records)
    BY <1>7, <1>8, QuietPublish
  <2> QED
    BY <1>recovery, <1>outcome, <2>1, <2>2, <2>3
<1>c. PICK c : c = command'
  OBVIOUS
<1>10. /\ c.plan = recovery \o outcome /\ c.phase = "reconcile" /\ c.batch = batch
       /\ c.todo = command.todo \ {s} /\ c.jobs = command.jobs
  BY <1>1, <1>2, <1>3, <1>c DEF CommandSet
<1>11. QuietPlan(c.plan) /\ SavesOnly(c.plan, s, Records)
  BY <1>9, <1>10, QuietConcat, SavesConcat
<1>12. InFlight(c)
  <2>1. request.source = s /\ request.record = next
    BY <1>request
  <2>2. \/ c.batch = command.batch
        \/ c.batch = command.batch \union {request} /\ MustProcess(next)
    BY <1>10, <1>batch, <1>process
  <2> QED
    BY <1>1, <1>5, <1>8, <1>10, <1>11, <2>1, <2>2, FlightLaid
<1>13. CommandConfirms(c)
  BY <1>10, <1>11, <1>12 DEF CommandConfirms
<1> QED
  BY <1>13, <1>c

\* A source without its file: its record is recovered and marked missing.
LEMMA ReconcileAbsentConfirms ==
  ASSUME Inv, CommandHolds, DiskConfirms, CommandAnnounces, NEW s \in Sources, ReconcileAbsent(s)
  PROVE  CommandConfirms(command')
<1>r. PICK r : r = ledger[s]
  OBVIOUS
<1>now. PICK now : now = command.at
  OBVIOUS
<1>stale. PICK stale \in BOOLEAN : stale = (r # NoRecord /\ r.state = "extracting")
  OBVIOUS
<1>awake. PICK awake : awake = IF stale THEN RecoverStale(r, now) ELSE r
  OBVIOUS
<1>missing. PICK missing : missing = MarkMissing(awake, now)
  OBVIOUS
<1>recovery. PICK recovery : recovery = IF stale THEN <<Save(s, awake)>> ELSE <<>>
  OBVIOUS
<1>outcome. PICK outcome :
    outcome = IF r = NoRecord \/ missing = awake THEN <<>> ELSE <<Save(s, missing)>>
  OBVIOUS
<1>1. /\ command # Idle /\ command.plan = <<>> /\ command.phase = "reconcile"
      /\ (r # NoRecord => ~Collides(r)) /\ s \in command.todo
  BY <1>r DEF ReconcileAbsent, BatchDone, FilesReconciled, InPhase
<1>2. command' = [command EXCEPT !.todo = @ \ {s}, !.plan = recovery \o outcome]
  BY <1>r, <1>now, <1>stale, <1>awake, <1>missing, <1>recovery, <1>outcome DEF ReconcileAbsent
<1>3. command \in CommandSet /\ now \in Nat /\ r \in Records \union {NoRecord}
  BY <1>1, <1>r, <1>now, Reconciles
<1>4. /\ InFlight(command) /\ s \notin command.jobs
      /\ r # NoRecord => Unannounced(s, r)
  BY <1>1, <1>r, AtWork
<1>5. /\ recovery \in Seq(Steps) /\ QuietPlan(recovery) /\ SavesOnly(recovery, s, Records)
      /\ outcome \in Seq(Steps) /\ QuietPlan(outcome) /\ SavesOnly(outcome, s, Records)
  <2>1. <<>> \in Seq(Steps) /\ QuietPlan(<<>>) /\ SavesOnly(<<>>, s, Records)
    <3>1. <<>> \in Seq(Steps) /\ Len(<<>>) = 0
      OBVIOUS
    <3>2. \A i \in 1 .. Len(<<>>) : FALSE
      BY <3>1
    <3> QED
      BY <3>1, <3>2 DEF SavesOnly, QuietPlan
  <2>2. CASE r = NoRecord
    BY <1>stale, <1>recovery, <1>outcome, <2>1, <2>2
  <2>3. CASE r \in Records
    <3>1. /\ awake \in Records /\ missing \in Records
          /\ Keeps(r, r) /\ Keeps(awake, awake) /\ Keeps(awake, missing)
      <4>1. awake \in Records
        BY <1>3, <1>awake, <2>3, RecordsStay
      <4> QED
        BY <1>3, <1>missing, <2>3, <4>1, RecordsStay, FunctionsKeep
    <3>2. r # NoRecord /\ awake = IF r.state = "extracting" THEN RecoverStale(r, now) ELSE r
      BY <1>stale, <1>awake, <2>3, NoRecordIsNone
    <3>3. Fresh(s, awake)
      BY <1>1, <1>4, <2>3, <3>1, <3>2, TakenUpFresh
    <3>4. Unannounced(s, awake) /\ Unannounced(s, missing)
      BY <3>1, <3>3, FreshStays
    <3>5. \A n \in Records : Unannounced(s, n) =>
             /\ <<Save(s, n)>> \in Seq(Steps) /\ QuietPlan(<<Save(s, n)>>)
             /\ SavesOnly(<<Save(s, n)>>, s, Records)
      <4> SUFFICES ASSUME NEW n \in Records, Unannounced(s, n)
                   PROVE  /\ <<Save(s, n)>> \in Seq(Steps) /\ QuietPlan(<<Save(s, n)>>)
                          /\ SavesOnly(<<Save(s, n)>>, s, Records)
        OBVIOUS
      <4>1. /\ Len(<<Save(s, n)>>) = 1 /\ <<Save(s, n)>>[1] = Save(s, n) /\ \A i \in 1 .. 1 : i = 1
            /\ Save(s, n).source = s /\ Save(s, n).record = n
        BY DEF Save
      <4> QED
        BY <4>1, QuietSteps DEF SavesOnly
    <3> QED
      BY <1>recovery, <1>outcome, <2>1, <3>1, <3>4, <3>5
  <2> QED
    BY <1>3, <2>2, <2>3
<1>c. PICK c : c = command'
  OBVIOUS
<1>6. /\ c.plan = recovery \o outcome /\ c.phase = "reconcile" /\ c.batch = command.batch
      /\ c.todo = command.todo \ {s} /\ c.jobs = command.jobs
  BY <1>1, <1>2, <1>3, <1>c DEF CommandSet
<1>7. QuietPlan(c.plan) /\ SavesOnly(c.plan, s, Records)
  BY <1>5, <1>6, QuietConcat, SavesConcat
<1>8. InFlight(c)
  BY <1>1, <1>4, <1>6, <1>7, FlightLaid
<1>9. CommandConfirms(c)
  BY <1>6, <1>7, <1>8 DEF CommandConfirms
<1> QED
  BY <1>9, <1>c

\* An extraction starts: its record is as fresh as its request.
LEMMA StartJobConfirms ==
  ASSUME Inv, CommandHolds, DiskConfirms, CommandAnnounces, command # Idle,
         NEW request \in command.batch, StartJob(request)
  PROVE  CommandConfirms(command')
<1>s. PICK s : s = request.source
  OBVIOUS
<1>r. PICK r : r = ExtractingRecord(request.record, command.at)
  OBVIOUS
<1>rest. PICK rest : rest = Publish(s, r, request.rewrites)
  OBVIOUS
<1>1. command.plan = <<>> /\ command.phase = "reconcile"
  BY DEF StartJob, FilesReconciled, InPhase
<1>2. command' = [command EXCEPT !.batch = @ \ {request}, !.jobs = @ \union {s},
                                 !.plan = <<Check(s)>> \o rest]
  BY <1>s, <1>r, <1>rest DEF StartJob
<1>3. /\ command \in CommandSet /\ command.at \in Nat /\ request \in Requests
  BY <1>1, Reconciles
<1>4. s \in Sources /\ request.record \in Records /\ request.rewrites \in BOOLEAN
  BY <1>3, <1>s DEF Requests
<1>5. r \in Records /\ r.state = "extracting"
  BY <1>3, <1>4, <1>r DEF ExtractingRecord, Records, States, Attempts
<1>6. InFlight(command) /\ Fresh(s, request.record) /\ MustProcess(request.record)
  BY <1>1, <1>s, AtWork DEF InFlight
<1>7. Fresh(s, r) /\ Unannounced(s, r) /\ Extracts(s, r)
  <2>1. Keeps(request.record, r)
    BY <1>4, <1>6, <1>r, FunctionsKeep DEF MustProcess
  <2> QED
    BY <1>5, <1>6, <2>1, FreshStays DEF Extracts
<1>8. rest \in Seq(Steps) /\ QuietPlan(rest) /\ SavesOnly(rest, s, {r})
  BY <1>4, <1>5, <1>7, <1>rest, QuietPublish
<1>9. \E i \in 1 .. Len(rest) : rest[i].do = "save" /\ rest[i].source = s
  <2> PICK at : at = r.at
    OBVIOUS
  <2> QED
    BY <1>4, <1>5, <1>rest, PublishSpooled
<1>10. /\ <<Check(s)>> \in Seq(Steps) /\ QuietPlan(<<Check(s)>>)
       /\ Len(<<Check(s)>>) = 1 /\ <<Check(s)>>[1].do = "check"
  BY <1>4, <1>5, QuietSteps
<1>11. SavesOnly(<<Check(s)>>, s, {r})
  <2>1. \A i \in 1 .. 1 : i = 1
    OBVIOUS
  <2> QED
    BY <1>10, <2>1 DEF SavesOnly
<1>plan. PICK plan : plan = <<Check(s)>> \o rest
  OBVIOUS
<1>12. QuietPlan(plan) /\ SavesOnly(plan, s, {r})
  BY <1>8, <1>10, <1>11, <1>plan, QuietConcat, SavesConcat
<1>13. \E i \in 1 .. Len(plan) : plan[i].do = "save" /\ plan[i].source = s
  <2>1. PICK i \in 1 .. Len(rest) : rest[i].do = "save" /\ rest[i].source = s
    BY <1>9
  <2>2. /\ Len(plan) = 1 + Len(rest) /\ Len(rest) \in Nat
        /\ \A k \in 1 .. Len(rest) : plan[1 + k] = rest[k]
    BY <1>8, <1>10, <1>plan, ConcatSteps
  <2>3. 1 + i \in 1 .. Len(plan) /\ plan[1 + i] = rest[i]
    BY <2>2
  <2> QED
    BY <2>1, <2>3
<1>c. PICK c : c = command'
  OBVIOUS
<1>14. /\ c.plan = plan /\ c.phase = "reconcile" /\ c.batch = command.batch \ {request}
       /\ c.todo = command.todo /\ c.jobs = command.jobs \union {s}
  BY <1>1, <1>2, <1>3, <1>plan, <1>c DEF CommandSet
<1>15. \A x \in command.jobs : ledger[x] \in Records /\ Extracts(x, ledger[x])
  BY <1>1, AtWork
<1>16. \A x \in c.jobs :
          \/ \E i \in 1 .. Len(c.plan) : c.plan[i].do = "save" /\ c.plan[i].source = x
          \/ ledger[x] \in Records /\ Extracts(x, ledger[x])
  BY <1>13, <1>14, <1>15
<1>17. \A i \in 1 .. Len(c.plan) :
          c.plan[i].do = "save" /\ c.plan[i].source \in c.jobs =>
              Extracts(c.plan[i].source, c.plan[i].record)
  BY <1>7, <1>12, <1>14 DEF SavesOnly
<1>18. /\ \A q \in c.batch : /\ Fresh(q.source, q.record) /\ MustProcess(q.record)
                             /\ q.source \notin c.jobs \union c.todo
       /\ (\A p, q \in c.batch : p.source = q.source => p = q)
       /\ c.jobs \intersect c.todo = {}
  BY <1>6, <1>14, <1>s DEF InFlight
<1>19. InFlight(c)
  BY <1>16, <1>17, <1>18 DEF InFlight
<1>20. CommandConfirms(c)
  BY <1>12, <1>14, <1>19 DEF CommandConfirms
<1> QED
  BY <1>20, <1>c

\* A result comes back: a derivation is announced and activated, a handoff saved.
LEMMA JobDoneConfirms ==
  ASSUME Inv, CommandHolds, DiskConfirms, CommandAnnounces, NEW s \in Sources,
         NEW activates \in BOOLEAN, JobDone(s, activates)
  PROVE  CommandConfirms(command')
<1>r. PICK r : r = ledger[s]
  OBVIOUS
<1>final. PICK final : final = Activated(r)
  OBVIOUS
<1>e. PICK e : e = Event("new_active_representation", s, final)
  OBVIOUS
<1>1. command # Idle /\ command.plan = <<>> /\ command.phase = "reconcile" /\ s \in command.jobs
  BY DEF JobDone, FilesReconciled, InPhase
<1>2. command' = [command EXCEPT !.jobs = @ \ {s},
                      !.plan = <<Check(s)>> \o (IF activates THEN Activation(s, r, TRUE)
                                                ELSE <<Save(s, HandedOff(r))>>)]
  BY <1>r DEF JobDone
<1>3. command \in CommandSet
  BY <1>1, Reconciles
<1>4. /\ InFlight(command) /\ r \in Records /\ r.state = "extracting" /\ Fresh(s, r)
      /\ s \notin command.todo /\ guard[s] = NoGuard
  BY <1>1, <1>r, AtWork DEF Extracts
<1>c. PICK c : c = command'
  OBVIOUS
<1>5. /\ c.plan = <<Check(s)>> \o (IF activates THEN Activation(s, r, TRUE)
                                   ELSE <<Save(s, HandedOff(r))>>)
      /\ c.phase = "reconcile" /\ c.batch = command.batch
      /\ c.todo = command.todo /\ c.jobs = command.jobs \ {s}
  BY <1>1, <1>2, <1>3, <1>c DEF CommandSet
<1>6. CASE activates
  <2>1. c.plan = <<Check(s), Emit(e), Guard(s, r, final), Save(s, final), Check(s),
                   Clear(s, final), Commit(e)>>
    BY <1>4, <1>5, <1>6, <1>final, <1>e, ActivationLaid
  <2>2. ActivatingBy(c.plan, s, r)
    BY <1>r, <1>4, <1>final, <1>e, <2>1 DEF ActivatingBy
  <2>3. \A request \in c.batch : request.source # s
    BY <1>1, <1>4, <1>5 DEF InFlight
  <2>4. Activating(c, s, r)
    BY <1>4, <1>5, <2>2, <2>3 DEF Activating, Fresh, Unannounced
  <2>5. SavesOnly(c.plan, s, Records)
    <3> PICK t, u, v, w, x, y : t = Check(s) /\ u = Emit(e) /\ v = Guard(s, r, final)
                                /\ w = Save(s, final) /\ x = Clear(s, final) /\ y = Commit(e)
      OBVIOUS
    <3>1. /\ t.do = "check" /\ u.do = "emit" /\ v.do = "guard" /\ x.do = "clear"
          /\ y.do = "commit" /\ w.source = s /\ w.record = final /\ final \in Records
      BY <1>4, <1>final, ActivationLaid DEF Check, Emit, Guard, Save, Clear, Commit
    <3> PICK p : p = <<t, u, v, w, t, x, y>>
      OBVIOUS
    <3>2. /\ Len(p) = 7 /\ p[1] = t /\ p[2] = u /\ p[3] = v /\ p[4] = w /\ p[5] = t /\ p[6] = x
          /\ p[7] = y
          /\ \A i \in 1 .. 7 : i = 1 \/ i = 2 \/ i = 3 \/ i = 4 \/ i = 5 \/ i = 6 \/ i = 7
      OBVIOUS
    <3>3. SavesOnly(p, s, Records)
      BY <3>1, <3>2 DEF SavesOnly
    <3> QED
      BY <2>1, <3>3
  <2>6. InFlight(c)
    BY <1>1, <1>4, <1>5, <2>5, FlightLaid
  <2>7. CommandConfirms(c)
    BY <1>4, <1>5, <2>4, <2>6 DEF CommandConfirms
  <2> QED
    BY <2>7, <1>c
<1>7. CASE ~activates
  <2> PICK n : n = HandedOff(r)
    OBVIOUS
  <2>1. n \in Records /\ Keeps(r, n)
    <3>1. n \in Records
      BY <1>4 DEF HandedOff, Records, States, Attempts
    <3> QED
      BY <1>4, <3>1, FunctionsKeep
  <2>2. Unannounced(s, n)
    BY <1>4, <2>1, FreshStays
  <2> PICK p, q : p = <<Check(s)>> /\ q = <<Save(s, n)>>
    OBVIOUS
  <2>3. /\ p \in Seq(Steps) /\ QuietPlan(p) /\ q \in Seq(Steps) /\ QuietPlan(q)
        /\ Len(p) = 1 /\ p[1].do = "check"
    BY <2>1, <2>2, QuietSteps
  <2>4. SavesOnly(p, s, Records) /\ SavesOnly(q, s, Records)
    <3>1. /\ Len(q) = 1 /\ q[1] = Save(s, n) /\ \A i \in 1 .. 1 : i = 1
          /\ Save(s, n).source = s /\ Save(s, n).record = n
      BY DEF Save
    <3> QED
      BY <2>1, <2>3, <3>1 DEF SavesOnly
  <2>5. c.plan = p \o q
    BY <1>5, <1>7
  <2>6. QuietPlan(c.plan) /\ SavesOnly(c.plan, s, Records)
    BY <2>3, <2>4, <2>5, QuietConcat, SavesConcat
  <2>7. InFlight(c)
    BY <1>1, <1>4, <1>5, <2>6, FlightLaid
  <2>8. CommandConfirms(c)
    BY <1>5, <2>6, <2>7 DEF CommandConfirms
  <2> QED
    BY <2>8, <1>c
<1> QED
  BY <1>6, <1>7

\* A command with no plan, before it reconciles or after.
LEMMA UnplannedConfirms ==
  ASSUME NEW c, c # Idle => /\ c.plan = <<>> /\ c.phase # "reconcile"
                            /\ c.phase \in {"recover", "header", "hash"} => c.batch = {}
  PROVE  CommandConfirms(c) /\ CommandConfirms(c)'
<1>1. \A i \in 1 .. Len(<<>>) : FALSE
  OBVIOUS
<1>2. QuietPlan(<<>>) /\ QuietPlan(<<>>)'
  BY <1>1 DEF QuietPlan
<1> QED
  BY <1>2 DEF CommandConfirms

\* An activation is rolled back to what nothing had announced.
LEMMA RestoreQuiet ==
  ASSUME Inv, DiskConfirms, NEW s \in Sources, guard[s] # NoGuard
  PROVE  QuietPlan(Restore(s))
<1> PICK r : r = Rollback(guard[s].before)
  OBVIOUS
<1>1. guard[s].before \in Records
  BY DEF Inv, Typed, Guards
<1>2. Unannounced(s, r)
  BY <1>1, RolledBack DEF DiskConfirms, GuardUnannounced
<1> PICK save, clear : save = Save(s, r) /\ clear = Clear(s, r)
  OBVIOUS
<1>3. QuietStep(save) /\ QuietStep(clear)
  BY <1>2 DEF QuietStep, Save, Clear
<1>4. /\ Len(<<save, clear>>) = 2 /\ <<save, clear>>[1] = save /\ <<save, clear>>[2] = clear
      /\ \A i \in 1 .. 2 : i = 1 \/ i = 2
  OBVIOUS
<1> QED
  BY <1>3, <1>4 DEF Restore, QuietPlan

\* Activations are rolled back by the next command, or when they fail.
LEMMA RollbackConfirms ==
  ASSUME Inv, DiskConfirms, CommandAnnounces,
         CheckFails \/ StepFails \/ \E s \in Sources : RecoverGuard(s)
  PROVE  CommandConfirms(command')
<1> PICK c : c = command'
  OBVIOUS
<1>1. command # Idle /\ command \in CommandSet /\ CommandConfirms(command)
  BY DEF CheckFails, StepFails, NextIs, RecoverGuard, InPhase, Inv, Typed, CommandAnnounces
<1>2. CASE CheckFails \/ StepFails
  <2>1. \/ c = Idle
        \/ \E s \in Sources : guard[s] # NoGuard
           /\ c = [command EXCEPT !.phase = "failing", !.plan = Restore(s)]
    BY <1>2 DEF CheckFails, StepFails, Unwind
  <2>2. CASE c = Idle
    BY <2>2 DEF CommandConfirms
  <2>3. ASSUME NEW s \in Sources, guard[s] # NoGuard,
               c = [command EXCEPT !.phase = "failing", !.plan = Restore(s)]
        PROVE  CommandConfirms(c)
    <3>1. c.plan = Restore(s) /\ c.phase = "failing"
      BY <1>1, <2>3 DEF CommandSet
    <3> QED
      BY <2>3, <3>1, RestoreQuiet DEF CommandConfirms
  <2> QED
    BY <2>1, <2>2, <2>3
<1>3. ASSUME NEW s \in Sources, RecoverGuard(s)
      PROVE  CommandConfirms(c)
  <2>1. guard[s] # NoGuard /\ command.phase = "recover"
        /\ c = [command EXCEPT !.plan = Restore(s)]
    BY <1>3 DEF RecoverGuard, InPhase
  <2>2. c.plan = Restore(s) /\ c.phase = "recover" /\ c.batch = command.batch
    BY <1>1, <2>1 DEF CommandSet
  <2> QED
    BY <1>1, <2>1, <2>2, RestoreQuiet DEF CommandConfirms
<1> QED
  BY <1>2, <1>3

\* register-extraction activates what an agent extracted; it announces nothing.
LEMMA RegisterConfirms ==
  ASSUME Inv, DiskConfirms, CommandAnnounces, Register
  PROVE  CommandConfirms(command')
<1>s. PICK s : s = command.target.source
  OBVIOUS
<1>r. PICK r : r = ExtractingRecord(ledger[s], command.at)
  OBVIOUS
<1>final. PICK final : final = Activated(r)
  OBVIOUS
<1>plan. PICK plan : plan = <<Save(s, r)>> \o Activation(s, r, FALSE)
  OBVIOUS
<1>c. PICK c : c = command'
  OBVIOUS
<1>1. /\ command # Idle /\ command \in CommandSet /\ PhaseOf(command) /\ command.op = "register"
      /\ NoActivationGuard
  BY DEF Register, InPhase, Inv, Typed, PhaseHolds
<1>2. CASE ~MayRegister(command.target)
  <2>1. command' = Idle
    BY <1>2 DEF Register
  <2> QED
    BY <2>1 DEF CommandConfirms
<1>3. CASE MayRegister(command.target)
  <2>1. c = [command EXCEPT !.phase = "finish", !.plan = plan]
    BY <1>3, <1>s, <1>r, <1>plan, <1>c DEF Register
  <2>2. c.plan = plan /\ c.phase = "finish"
    BY <1>1, <2>1 DEF CommandSet
  <2>3. s \in Sources /\ ledger[s] \in Records /\ ledger[s].state = "needs_agent"
        /\ command.at \in Nat
    <3>1. s \in Sources
      BY <1>1, <1>s DEF PhaseOf, Items
    <3> QED
      BY <1>1, <1>3, <1>s, <3>1, BoundsAreNaturals
         DEF MayRegister, NeedsAgent, Inv, Typed, CommandSet
  <2>4. Fresh(s, ledger[s])
    <3>1. Unannounced(s, ledger[s])
      BY <1>1, <2>3, NoRecordIsNone DEF DiskConfirms, LedgerUnannounced, NoActivationGuard
    <3> QED
      BY <2>3, <3>1 DEF Unannounced, Awaits, Fresh
  <2>5. r \in Records /\ Keeps(ledger[s], r) /\ final \in Records /\ Keeps(ledger[s], final)
    <3>1. r \in Records /\ final \in Records
      BY <1>r, <1>final, <2>3 DEF ExtractingRecord, Activated, Records, States, Attempts
    <3>2. Keeps(ledger[s], r) /\ Keeps(ledger[s], final)
      BY <1>r, <1>final, <2>3 DEF Keeps, Woken, Resting, ExtractingRecord, Activated, Records
    <3> QED
      BY <3>1, <3>2
  <2>6. Unannounced(s, r) /\ Unannounced(s, final)
    BY <2>4, <2>5, FreshStays
  <2> PICK four : four = <<Guard(s, r, final), Save(s, final), Check(s), Clear(s, final)>>
    OBVIOUS
  <2>7. /\ four \in Seq(Steps) /\ Len(four) = 4
        /\ four[1] = Guard(s, r, final) /\ four[2] = Save(s, final)
        /\ four[3] = Check(s) /\ four[4] = Clear(s, final)
    BY <1>final, <2>3, <2>5, ActivationSteps
  <2>8. QuietPlan(four)
    <3>1. /\ QuietStep(Guard(s, r, final)) /\ QuietStep(Save(s, final)) /\ QuietStep(Check(s))
          /\ QuietStep(Clear(s, final))
      BY <2>6 DEF QuietStep, Guard, Save, Check, Clear
    <3>2. \A i \in 1 .. 4 : i = 1 \/ i = 2 \/ i = 3 \/ i = 4
      OBVIOUS
    <3> QED
      BY <2>7, <3>1, <3>2 DEF QuietPlan
  <2>9. /\ <<>> \in Seq(Steps) /\ QuietPlan(<<>>)
        /\ <<Save(s, r)>> \in Seq(Steps) /\ QuietPlan(<<Save(s, r)>>)
    BY <2>3, <2>5, <2>6, QuietSteps
  <2>10. <<>> \o four \in Seq(Steps) /\ QuietPlan(<<>> \o four)
    BY <2>7, <2>8, <2>9, QuietConcat
  <2>11. (<<>> \o four) \o <<>> \in Seq(Steps) /\ QuietPlan((<<>> \o four) \o <<>>)
    BY <2>9, <2>10, QuietConcat
  <2>12. Activation(s, r, FALSE) = (<<>> \o four) \o <<>>
    BY <1>final DEF Activation
  <2>13. QuietPlan(plan)
    BY <1>plan, <2>9, <2>11, <2>12, QuietConcat
  <2>14. CommandConfirms(c)
    BY <2>2, <2>13 DEF CommandConfirms
  <2> QED
    BY <2>14, <1>c
<1> QED
  BY <1>2, <1>3

\* Sources that are only looked at, or handed over.
LEMMA LooksConfirm ==
  ASSUME Inv, CommandHolds, DiskConfirms, CommandAnnounces,
         HashUnmatched \/ \E s \in Sources : ReconcileUnverified(s) \/ Observe(s)
  PROVE  CommandConfirms(command')
<1> PICK c : c = command'
  OBVIOUS
<1>1. /\ command # Idle /\ command.plan = <<>> /\ command \in CommandSet /\ PhaseOf(command)
      /\ CommandConfirms(command)
  BY DEF HashUnmatched, ReconcileUnverified, Reconciling, Observe, InPhase, Inv, Typed, PhaseHolds,
         CommandAnnounces
<1>2. /\ Len(<<>>) = 0 /\ QuietPlan(<<>>) /\ (\A i \in 1 .. Len(<<>>) : FALSE)
      /\ \A s : SavesOnly(<<>>, s, Records)
  <2>1. Len(<<>>) = 0 /\ \A i \in 1 .. Len(<<>>) : FALSE
    OBVIOUS
  <2> QED
    BY <2>1 DEF QuietPlan, SavesOnly
<1>3. CASE HashUnmatched
  <2>1. command.phase = "hash" /\ command.batch = {} /\ command.jobs = {}
    BY <1>1, <1>3 DEF HashUnmatched, InPhase, CommandConfirms, PhaseOf
  <2>2. c.plan = <<>> /\ c.phase = "reconcile" /\ c.batch = {} /\ c.jobs = {}
    BY <1>1, <1>3, <2>1 DEF HashUnmatched, CommandSet
  <2>3. InFlight(c)
    BY <2>2 DEF InFlight
  <2> QED
    BY <1>2, <2>2, <2>3 DEF CommandConfirms
<1>4. ASSUME NEW s \in Sources, ReconcileUnverified(s)
      PROVE  CommandConfirms(c)
  <2>1. command.phase = "reconcile" /\ s \in command.todo
        /\ c = [command EXCEPT !.todo = @ \ {s}]
    BY <1>4 DEF ReconcileUnverified, Reconciling, InPhase
  <2>2. /\ c.plan = <<>> /\ c.phase = "reconcile" /\ c.batch = command.batch
        /\ c.jobs = command.jobs /\ c.todo = command.todo \ {s}
    BY <1>1, <2>1 DEF CommandSet
  <2>3. InFlight(command) /\ s \notin command.jobs
    BY <1>1, <2>1, AtWork
  <2>4. InFlight(c)
    BY <1>1, <1>2, <2>2, <2>3, FlightLaid
  <2> QED
    BY <1>2, <2>2, <2>4 DEF CommandConfirms
<1>5. ASSUME NEW s \in Sources, Observe(s)
      PROVE  CommandConfirms(c)
  <2>1. command.phase = "observe" /\ s \in command.todo
        /\ c = [command EXCEPT !.todo = @ \ {s},
                   !.plan = <<Emit(Event("handoff_source_id", s, ledger[s]))>>]
    BY <1>5 DEF Observe, InPhase
  <2> PICK e, plan : e = Event("handoff_source_id", s, ledger[s]) /\ plan = <<Emit(e)>>
    OBVIOUS
  <2>2. c.plan = plan /\ c.phase = "observe"
    BY <1>1, <2>1 DEF CommandSet
  <2>3. ledger[s] \in Records
    BY <1>1, <2>1 DEF PhaseOf
  <2>4. QuietPlan(plan)
    BY <2>3, QuietSteps
  <2> QED
    BY <2>2, <2>4 DEF CommandConfirms
<1> QED
  BY <1>3, <1>4, <1>5

\* What a command remembers, and what its caller starts.
LEMMA RecallsConfirm ==
  ASSUME Inv, CommandHolds, DiskConfirms, CommandAnnounces, Recalls
  PROVE  DiskConfirms' /\ CommandAnnounces'
<1> PICK c : c = command'
  OBVIOUS
<1>c. ASSUME CommandConfirms(c)
      PROVE  DiskConfirms' /\ CommandAnnounces'
  <2>1. UNCHANGED <<disk, history>>
    BY RecallsQuietly
  <2>2. DiskConfirms' /\ CommandConfirms(c)'
    BY <1>c, <2>1, MemoryConfirms
  <2> QED
    BY <2>2 DEF CommandAnnounces
<1>1. CASE CheckFails \/ StepFails \/ \E s \in Sources : RecoverGuard(s)
  BY <1>1, <1>c, RollbackConfirms
<1>2. CASE HashUnmatched \/ \E s \in Sources : ReconcileUnverified(s) \/ Observe(s)
  BY <1>2, <1>c, LooksConfirm
<1>3. CASE \E s \in Sources : \/ ReconcileFile(s) \/ ReconcileAbsent(s)
                              \/ \E activates \in BOOLEAN : JobDone(s, activates)
  BY <1>3, <1>c, ReconcileFileConfirms, ReconcileAbsentConfirms, JobDoneConfirms
<1>4. CASE command # Idle /\ \E request \in command.batch : StartJob(request)
  BY <1>4, <1>c, StartJobConfirms
<1>5. CASE Register
  BY <1>5, <1>c, RegisterConfirms
<1>6. CASE Refuse \/ DropRefused \/ \E s \in Sources : ReconcileFails(s)
  <2>1. c = Idle
    BY <1>6 DEF Refuse, DropRefused, ReconcileFails
  <2> QED
    BY <1>c, <2>1, UnplannedConfirms
<1>7. CASE OpenPending \/ OpenStaged \/ OpenResumed \/ Reconciled
  <2>1. command # Idle /\ command.plan = <<>> /\ command \in CommandSet
        /\ (command.phase = "recover" => command.batch = {})
    BY <1>7 DEF OpenPending, OpenStaged, OpenResumed, Opening, Reconciled, BatchDone,
                FilesReconciled, InPhase, Inv, Typed, CommandAnnounces, CommandConfirms
  <2>2. CASE OpenPending
    <3>1. c.plan = <<>> /\ c.phase = "drop_journal"
      BY <2>1, <2>2 DEF OpenPending, CommandSet
    <3> QED
      BY <1>c, <3>1, UnplannedConfirms
  <2>3. CASE OpenStaged
    <3>1. c.plan = <<>> /\ c.phase = "finalize"
      BY <2>1, <2>3 DEF OpenStaged, CommandSet
    <3> QED
      BY <1>c, <3>1, UnplannedConfirms
  <2>4. CASE OpenResumed
    <3>1. command.batch = {}
      BY <2>1, <2>4 DEF OpenResumed, Opening, InPhase
    <3>2. c.plan = <<>> /\ c.phase = "hash" /\ c.batch = {}
      BY <2>1, <2>4, <3>1 DEF OpenResumed, CommandSet
    <3> QED
      BY <1>c, <3>2, UnplannedConfirms
  <2>5. CASE Reconciled
    <3>1. c.plan = <<>> /\ c.phase = "observe"
      BY <2>1, <2>5 DEF Reconciled, CommandSet
    <3> QED
      BY <1>c, <3>1, UnplannedConfirms
  <2> QED
    BY <1>7, <2>2, <2>3, <2>4, <2>5
<1>8. CASE \/ \E name \in Commands : StartSync(name)
           \/ \E m \in manifests : StartAcknowledge(m) \/ StartReacknowledge(m)
  <2>1. c.plan = <<>> /\ c.phase # "reconcile" /\ c.batch = {}
    BY <1>8 DEF StartSync, StartAcknowledge, StartReacknowledge, NewCommand
  <2> QED
    BY <1>c, <2>1, UnplannedConfirms
<1>9. CASE \E s \in Sources : Edit(s)
  BY <1>9, <1>c DEF Edit, CommandAnnounces
<1> QED
  BY <1>1, <1>2, <1>3, <1>4, <1>5, <1>6, <1>7, <1>8, <1>9 DEF Recalls

-----------------------------------------------------------------------------
(* The steps that change the spool, and the theorem.                       *)

\* Where no frame is added to the journal, and nothing is saved, the disk's part stays.
LEMMA JournalConfirms ==
  ASSUME DiskConfirms, UNCHANGED <<ledger, guard, proved>>,
         \/ journal' = NoJournal
         \/ Frames(journal'.log) = {}
         \/ journal # NoJournal /\ Frames(journal'.log) = Frames(journal.log)
  PROVE  LedgerUnannounced' /\ GuardUnannounced' /\ LogApart'
<1>1. LogQuiet
  BY DEF LogQuiet
<1>2. \A s : NothingNew(s)
  BY <1>1, QuietLog
<1>3. LedgerUnannounced' /\ GuardUnannounced'
  BY <1>2, LedgerStaysClear DEF DiskConfirms
<1>4. LogApart'
  BY <1>1, QuietApart DEF DiskConfirms
<1> QED
  BY <1>3, <1>4

\* Spool files come and go, the manifests and the staged run stay.
LEMMA SpoolConfirms ==
  ASSUME Inv, CommandHolds, DiskConfirms,
         \/ OpenNew \/ WriteHeader \/ PublishHandoffs \/ SavePending \/ DropJournal \/ DropStaged
         \/ Acknowledge \/ DropPending \/ Stop
         \/ (\E m \in manifests : Consume(m)) \/ \E item \in Items : StartRegister(item)
  PROVE  DiskConfirms'
<1>1. UNCHANGED <<ledger, guard, proved, manifests>> /\ (staged' = staged \/ staged' = NoResult)
  BY DEF OpenNew, WriteHeader, PublishHandoffs, SavePending, DropJournal, DropStaged,
         Acknowledge, DropPending, Stop, Consume, StartRegister, disk, history
<1>2. \/ journal' = NoJournal
      \/ Frames(journal'.log) = {}
      \/ journal # NoJournal /\ Frames(journal'.log) = Frames(journal.log)
  <2>1. CASE OpenNew
    <3>1. journal'.log = <<>>
      BY <2>1 DEF OpenNew
    <3>2. Frames(<<>>) = {}
      BY DEF Frames
    <3> QED
      BY <3>1, <3>2
  <2>2. CASE WriteHeader
    <3>1. journal' = [journal EXCEPT !.header = TRUE] /\ InPhase("header")
      BY <2>2 DEF WriteHeader
    <3>2. journal \in Journals /\ journal # NoJournal
      BY <3>1, AtPhase DEF Working
    <3>3. journal'.log = journal.log
      BY <3>1, <3>2 DEF Journals
    <3> QED
      BY <3>2, <3>3
  <2>3. CASE DropJournal
    BY <2>3 DEF DropJournal
  <2>4. CASE \/ PublishHandoffs \/ SavePending \/ DropStaged \/ Acknowledge \/ DropPending \/ Stop
             \/ (\E m \in manifests : Consume(m)) \/ \E item \in Items : StartRegister(item)
    <3>1. journal' = journal
      BY <2>4 DEF PublishHandoffs, SavePending, DropStaged, Acknowledge, DropPending, Stop,
                  Consume, StartRegister, disk, history
    <3> QED
      BY <3>1
  <2> QED
    BY <2>1, <2>2, <2>3, <2>4
<1>3. StagedConfirmed'
  <2>1. \A e : Confirmed(e)' = Confirmed(e)
    BY <1>1 DEF Confirmed
  <2> QED
    BY <1>1, <2>1 DEF StagedConfirmed, DiskConfirms
<1>4. AnnouncedWasActive' /\ AnnouncedOnce'
  BY <1>1 DEF AnnouncedWasActive, AnnouncedOnce, DiskConfirms
<1> QED
  BY <1>1, <1>2, <1>3, <1>4, JournalConfirms DEF DiskConfirms

\* Events are their fields.
LEMMA SameEvent ==
  ASSUME NEW e \in EventSet, NEW f \in EventSet, e.kind = f.kind, e.source = f.source,
         e.record = f.record
  PROVE  e = f
<1>1. /\ e = [kind |-> e.kind, source |-> e.source, record |-> e.record]
      /\ f = [kind |-> f.kind, source |-> f.source, record |-> f.record]
  BY DEF EventSet
<1> QED
  BY <1>1

\* What is staged has no announcement but those that have settled: the ledger holds
\* none of the others' records, and none of them has its commit frame.  Two that a
\* consumer could not tell apart have settled only if they are one.
LEMMA StageConfirms ==
  ASSUME Inv, CommandHolds, DiskConfirms, Stage
  PROVE  DiskConfirms'
<1>1. /\ InPhase("published") /\ NoActivationGuard
      /\ UNCHANGED <<ledger, guard, journal, proved, manifests>>
      /\ staged' = [command |-> command.name, at |-> journal.at, corpus |-> CorpusRevision,
                    checkpoint |-> ledger, log |-> journal.log]
  BY DEF Stage, history
<1>2. journal \in Journals /\ journal # NoJournal
  BY <1>1, AtPhase DEF Working
<1>3. ASSUME NEW f \in Frames(journal.log), KeptAt(f, journal.log, ledger), Announces(f.event)
      PROVE  /\ f.event \in EventSet /\ f.event.source \in Sources
             /\ Settled(f.event.source, ledger[f.event.source], f.event.record)
             /\ \/ ledger[f.event.source] = f.event.record
                \/ /\ Committed(f.event) \in Frames(journal.log)
                   /\ Committed(f.event).frame = "commit" /\ Committed(f.event).event = f.event
  <2>1. /\ f.event \in EventSet /\ f.event.source \in Sources /\ f.event.record \in Records
    BY <1>2, FramesTyped
  <2> PICK s, u, r : s = f.event.source /\ u = f.event.record /\ r = ledger[s]
    OBVIOUS
  <2>2. u \in Announced(s)
    BY <1>2, <1>3, AnnouncedFrames
  <2>3. Unannounced(s, r)
    BY <1>1, <2>1, <2>2 DEF DiskConfirms, LedgerUnannounced, NoActivationGuard
  <2>4. CASE r = u
    BY <2>1, <2>2, <2>3, <2>4, AnnouncedSettled
  <2>5. CASE Committed(f.event) \in Frames(journal.log)
    <3>1. Committed(f.event).frame = "commit" /\ Committed(f.event).event = f.event
      BY DEF Committed
    <3>2. u \in Sealed(s)
      BY <1>2, <1>3, <2>5, <3>1, AnnouncedFrames
    <3>3. Settled(s, r, u)
      BY <2>2, <2>3, <3>2 DEF Unannounced, Past, Awaits
    <3> QED
      BY <2>1, <2>5, <3>1, <3>3
  <2> QED
    BY <1>3, <2>4, <2>5 DEF KeptAt
<1>a. ASSUME NEW f \in Frames(journal.log), KeptAt(f, journal.log, ledger),
             NEW g \in Frames(journal.log), KeptAt(g, journal.log, ledger),
             Alike(f.event, g.event)
      PROVE  f.event = g.event
  <2> PICK s, u, v, r : /\ s = f.event.source /\ u = f.event.record /\ v = g.event.record
                        /\ r = ledger[s]
    OBVIOUS
  <2>1. /\ Announces(f.event) /\ Announces(g.event) /\ g.event.source = s
        /\ f.event \in EventSet /\ g.event \in EventSet
        /\ Settled(s, r, u) /\ Settled(s, r, v)
    BY <1>3, <1>a DEF Alike
  <2>2. PICK p \in Frames(journal.log) : p.event = f.event /\ (r = u \/ p.frame = "commit")
    BY <1>3, <1>a, <2>1
  <2>3. PICK q \in Frames(journal.log) : q.event = g.event /\ (r = v \/ q.frame = "commit")
    BY <1>3, <1>a, <2>1
  <2>4. \/ u = v
        \/ Revoked(u, v) /\ q.frame # "commit"
        \/ Revoked(v, u) /\ p.frame # "commit"
    BY <1>2, <1>a, <2>2, <2>3 DEF DiskConfirms, LogApart
  <2>5. u = v
    BY <2>1, <2>2, <2>3, <2>4 DEF Settled, Revoked
  <2>6. /\ f.event.kind = g.event.kind /\ f.event.source = g.event.source
        /\ f.event.record = g.event.record
    BY <2>1, <2>5 DEF Announces
  <2> QED
    BY <2>1, <2>6, SameEvent
<1>4. StagedConfirmed'
  <2>1. \A e : Confirmed(e)' = Confirmed(e)
    BY <1>1 DEF Confirmed
  <2>2. staged'.log = journal.log /\ staged'.checkpoint = ledger
    BY <1>1
  <2>3. ASSUME NEW f \in Frames(journal.log), KeptAt(f, journal.log, ledger), Announces(f.event)
        PROVE  Confirmed(f.event)
    BY <1>3, <2>3 DEF Settled, Confirmed
  <2>4. \A f \in Frames(journal.log) :
            KeptAt(f, journal.log, ledger) /\ Announces(f.event) =>
                /\ Confirmed(f.event)'
                /\ \A g \in Frames(journal.log) :
                      KeptAt(g, journal.log, ledger) /\ Alike(f.event, g.event) =>
                          f.event = g.event
    BY <1>a, <2>1, <2>3
  <2>5. \A f, log, checkpoint : KeptAt(f, log, checkpoint)' = KeptAt(f, log, checkpoint)
    BY DEF KeptAt
  <2>6. \A e, f : Alike(e, f)' = Alike(e, f) /\ Announces(e)' = Announces(e)
    BY DEF Alike, Announces
  <2> QED
    BY <2>2, <2>4, <2>5, <2>6 DEF StagedConfirmed, KeptAt, Alike, Announces
<1>5. AnnouncedWasActive' /\ AnnouncedOnce'
  BY <1>1 DEF AnnouncedWasActive, AnnouncedOnce, DiskConfirms
<1> QED
  BY <1>1, <1>2, <1>4, <1>5, JournalConfirms DEF DiskConfirms

\* The result of the staged run announces what was checked.
LEMMA FinalizeConfirms ==
  ASSUME Inv, Spool, CommandHolds, DiskConfirms, Finalize
  PROVE  DiskConfirms'
<1> PICK m : m = Manifest(journal.command, journal.at, staged.corpus, journal.log)
  OBVIOUS
<1>1. /\ InPhase("finalize") /\ manifests' = manifests \union {m}
      /\ UNCHANGED <<ledger, guard, journal, staged, proved>>
  BY DEF Finalize, history
<1>2. /\ staged # NoResult /\ journal # NoJournal /\ staged.checkpoint = ledger
  BY <1>1, AtPhase DEF EndSpooled
<1>3. staged \in Staged /\ m = ResultOf(staged)
  BY <1>2, FinalizesStaged DEF Spool, SpoolTyped, SpoolAgrees
<1>4. ASSUME NEW e \in Events(m), e.kind = "new_active_representation"
      PROVE  <<e.source, e.record>> \in proved
  <2>1. PICK f \in Frames(staged.log) : KeptAt(f, staged.log, staged.checkpoint) /\ f.event = e
    BY <1>3, ResultsOfStaged
  <2> QED
    BY <1>2, <1>4, <2>1 DEF DiskConfirms, StagedConfirmed, Announces, Confirmed
<1>5. ASSUME NEW e \in Events(m), NEW g \in Events(m), Alike(e, g)
      PROVE  e = g
  <2>1. PICK p \in Frames(staged.log) : KeptAt(p, staged.log, staged.checkpoint) /\ p.event = e
    BY <1>3, ResultsOfStaged
  <2>2. PICK q \in Frames(staged.log) : KeptAt(q, staged.log, staged.checkpoint) /\ q.event = g
    BY <1>3, ResultsOfStaged
  <2> QED
    BY <1>2, <1>5, <2>1, <2>2 DEF DiskConfirms, StagedConfirmed, Alike
<1>6. AnnouncedWasActive' /\ AnnouncedOnce'
  BY <1>1, <1>4, <1>5 DEF AnnouncedWasActive, AnnouncedOnce, DiskConfirms
<1>7. StagedConfirmed'
  BY <1>1 DEF StagedConfirmed, Confirmed, DiskConfirms
<1> QED
  BY <1>1, <1>2, <1>6, <1>7, JournalConfirms DEF DiskConfirms

\* adopt-version takes up a record whose extraction is long over.
LEMMA AdoptConfirms ==
  ASSUME Inv, DiskConfirms, NEW s \in Sources, Adopt(s)
  PROVE  DiskConfirms'
<1> PICK n : n = AdoptVersion(ledger[s], raw[s], clock')
  OBVIOUS
<1>1. /\ UNCHANGED <<guard, journal, staged, manifests, proved>> /\ NoActivationGuard
      /\ ledger[s] # NoRecord /\ ledger[s].state = "integrity_error"
      /\ ledger' = [ledger EXCEPT ![s] = n]
  BY DEF Adopt, history
<1>2. ledger \in [Sources -> Records \union {NoRecord}] /\ ledger[s] \in Records
  BY <1>1 DEF Inv, Typed
<1>3. \A x : NothingNew(x) /\ Announced(x)' = Announced(x)
  BY <1>1 DEF NothingNew, Announced, Sealed, Announcing
<1>4. Fresh(s, ledger[s])
  <2>1. Unannounced(s, ledger[s])
    BY <1>1 DEF DiskConfirms, LedgerUnannounced, NoActivationGuard
  <2> QED
    BY <1>1, <2>1 DEF Unannounced, Awaits, Fresh
<1>5. Unannounced(s, n)
  <2> PICK r : r = ledger[s]
    OBVIOUS
  <2>1. /\ Woken(r) => Woken(n)
        /\ r.versions \subseteq n.versions /\ n.content \in n.versions /\ n.content \notin r.versions
    <3>1. raw[s].bytes \notin ledger[s].versions
      BY DEF Adopt
    <3> QED
      BY <1>2, <3>1 DEF AdoptVersion, Records, Woken
  <2>2. \A u \in Announced(s) : Past(s, n, u)
    BY <1>4, <2>1 DEF Fresh, Past, Settled, Revoked
  <2> QED
    BY <2>1, <2>2 DEF Unannounced
<1>6. ASSUME NEW x \in Sources
      PROVE  /\ ledger'[x] = NoRecord => Announced(x)' = {}
             /\ ledger'[x] # NoRecord => Unannounced(x, ledger[x])'
             /\ guard'[x] = NoGuard
  <2>1. CASE x = s
    <3>1. ledger'[x] = n
      BY <1>1, <1>2, <2>1
    <3>2. n # NoRecord
      <4>1. n \in Records
        <5>1. clock' \in Nat /\ raw[s] \in Files /\ raw[s] # Gone
          BY DEF Adopt, Inv, Typed, TypeOK
        <5>2. raw[s].bytes \in Bytes
          BY <5>1 DEF Files
        <5> QED
          BY <1>2, <5>1, <5>2 DEF AdoptVersion, Records, States, Attempts
      <4> QED
        BY <4>1, NoRecordIsNone
    <3>3. Unannounced(s, n)'
      BY <1>3, <1>5, RecordsStayClear
    <3> QED
      BY <1>1, <2>1, <3>1, <3>2, <3>3 DEF Unannounced, Past, Settled, Awaits, NoActivationGuard
  <2>2. CASE x # s
    <3>1. ledger'[x] = ledger[x]
      BY <1>1, <1>2, <2>2
    <3> PICK r : r = ledger[x]
      OBVIOUS
    <3>2. /\ r = NoRecord => Announced(x)' = {}
          /\ r # NoRecord => Unannounced(x, r)'
      BY <1>1, <1>3, RecordsStayClear DEF DiskConfirms, LedgerUnannounced, NoActivationGuard
    <3> QED
      BY <1>1, <3>1, <3>2 DEF Unannounced, Past, Settled, Awaits, NoActivationGuard
  <2> QED
    BY <2>1, <2>2
<1>7. LedgerUnannounced' /\ GuardUnannounced'
  BY <1>6 DEF LedgerUnannounced, GuardUnannounced
<1>8. LogApart' /\ StagedConfirmed' /\ AnnouncedWasActive' /\ AnnouncedOnce'
  BY <1>1 DEF LogApart, StagedConfirmed, AnnouncedWasActive, AnnouncedOnce, Confirmed, DiskConfirms
<1> QED
  BY <1>7, <1>8 DEF DiskConfirms

\* What a command that changes the spool remembers.
LEMMA SpoolCommandsConfirm ==
  ASSUME Inv, CommandAnnounces,
         \/ OpenNew \/ WriteHeader \/ PublishHandoffs \/ Stage \/ Finalize \/ SavePending
         \/ DropJournal \/ DropStaged \/ Acknowledge \/ DropPending \/ Stop
         \/ (\E m \in manifests : Consume(m)) \/ (\E s \in Sources : Adopt(s))
         \/ \E item \in Items : StartRegister(item)
  PROVE  CommandAnnounces'
<1> PICK c : c = command'
  OBVIOUS
<1>c. ASSUME c # Idle => /\ c.plan = <<>> /\ c.phase # "reconcile"
                         /\ c.phase \in {"recover", "header", "hash"} => c.batch = {}
      PROVE  CommandAnnounces'
  BY <1>c, UnplannedConfirms DEF CommandAnnounces
<1>1. command # Idle => command \in CommandSet /\ CommandConfirms(command)
  BY DEF Inv, Typed, CommandAnnounces
<1>2. CASE OpenNew \/ WriteHeader
  <2>1. command # Idle /\ command.plan = <<>> /\ command.phase \in {"recover", "header"}
    BY <1>2 DEF OpenNew, Opening, WriteHeader, InPhase
  <2>2. command.batch = {}
    BY <1>1, <2>1 DEF CommandConfirms
  <2>3. c.plan = <<>> /\ c.phase \in {"header", "hash"} /\ c.batch = {}
    BY <1>1, <1>2, <2>1, <2>2 DEF OpenNew, WriteHeader, CommandSet
  <2> QED
    BY <1>c, <2>3
<1>3. CASE PublishHandoffs \/ Stage \/ Finalize \/ SavePending \/ DropJournal \/ Acknowledge
  <2>1. command # Idle /\ command.plan = <<>> /\ command \in CommandSet
    BY <1>1, <1>3 DEF PublishHandoffs, Publishing, Stage, Finalize, SavePending, DropJournal,
                      Acknowledge, InPhase
  <2>2. c.plan = <<>> /\ c.phase \in {"published", "finalize", "save_pending", "drop_journal",
                                      "drop_staged", "drop_pending"}
    BY <1>3, <2>1 DEF PublishHandoffs, Stage, Finalize, SavePending, DropJournal, Acknowledge,
                      CommandSet
  <2> QED
    BY <1>c, <2>2
<1>4. CASE DropStaged
  <2>1. command # Idle /\ command.plan = <<>> /\ command \in CommandSet
    BY <1>1, <1>4 DEF DropStaged, InPhase
  <2>2. c # Idle => c.plan = <<>> /\ c.phase = "acknowledge"
    BY <1>4, <2>1 DEF DropStaged, CommandSet
  <2> QED
    BY <1>c, <2>2
<1>5. CASE DropPending \/ Stop \/ (\E m \in manifests : Consume(m)) \/ (\E s \in Sources : Adopt(s))
  <2>1. c = Idle
    BY <1>5 DEF DropPending, Stop, Consume, Adopt
  <2> QED
    BY <1>c, <2>1
<1>6. ASSUME NEW item \in Items, StartRegister(item)
      PROVE  CommandAnnounces'
  <2>1. c = [NewCommand("register", "none", "recover", {}, item) EXCEPT !.at = clock']
    BY <1>6 DEF StartRegister
  <2>2. c.plan = <<>> /\ c.phase = "recover" /\ c.batch = {}
    BY <2>1 DEF NewCommand
  <2> QED
    BY <1>c, <2>2
<1> QED
  BY <1>2, <1>3, <1>4, <1>5, <1>6

\* The inductive invariant of the announcements, on top of the delivery's.
AnnouncementInv == DeliveryInv /\ DiskConfirms /\ CommandAnnounces

\* Nothing is announced at the start.
LEMMA InitAnnounces == Init => AnnouncementInv
<1> SUFFICES ASSUME Init
             PROVE  AnnouncementInv
  OBVIOUS
<1>1. DeliveryInv
  BY InitDelivers
<1>2. \A s : Announced(s) = {}
  BY DEF Init, Announced, Announcing
<1>3. LedgerUnannounced /\ GuardUnannounced
  BY <1>2 DEF Init, LedgerUnannounced, GuardUnannounced
<1>4. LogApart /\ StagedConfirmed /\ AnnouncedWasActive /\ AnnouncedOnce
  BY DEF Init, LogApart, StagedConfirmed, AnnouncedWasActive, AnnouncedOnce
<1>5. CommandAnnounces
  BY DEF Init, CommandAnnounces, CommandConfirms
<1> QED
  BY <1>1, <1>3, <1>4, <1>5 DEF AnnouncementInv, DiskConfirms

\* Every step keeps it.
LEMMA NextAnnounces ==
  ASSUME AnnouncementInv, [Next]_vars
  PROVE  AnnouncementInv'
<1>1. DeliveryInv'
  BY NextDelivers DEF AnnouncementInv
<1>2. /\ Inv /\ Inv' /\ Spool /\ CommandHolds /\ DiskConfirms /\ CommandAnnounces
  BY <1>1 DEF AnnouncementInv, DeliveryInv
<1>3. CASE UNCHANGED vars
  <2> PICK c : c = command
    OBVIOUS
  <2>1. UNCHANGED <<disk, history>> /\ command' = c /\ CommandConfirms(c)
    BY <1>2, <1>3 DEF vars, CommandAnnounces
  <2>2. DiskConfirms' /\ CommandConfirms(c)'
    BY <1>2, <2>1, MemoryConfirms
  <2> QED
    BY <1>1, <2>1, <2>2 DEF AnnouncementInv, CommandAnnounces
<1>4. CASE EmitStep \/ CommitStep \/ SaveStep \/ GuardStep \/ CheckStep \/ ClearStep
  BY <1>1, <1>2, <1>4, StepConfirms DEF AnnouncementInv
<1>5. CASE Recalls
  BY <1>1, <1>2, <1>5, RecallsConfirm DEF AnnouncementInv
<1>6. CASE \/ OpenNew \/ WriteHeader \/ PublishHandoffs \/ Stage \/ Finalize \/ SavePending
           \/ DropJournal \/ DropStaged \/ Acknowledge \/ DropPending \/ Stop
           \/ (\E m \in manifests : Consume(m)) \/ (\E s \in Sources : Adopt(s))
           \/ \E item \in Items : StartRegister(item)
  <2>1. DiskConfirms'
    BY <1>2, <1>6, SpoolConfirms, StageConfirms, FinalizeConfirms, AdoptConfirms
  <2>2. CommandAnnounces'
    BY <1>2, <1>6, SpoolCommandsConfirm
  <2> QED
    BY <1>1, <2>1, <2>2 DEF AnnouncementInv
<1> QED
  BY <1>3, <1>4, <1>5, <1>6, StepKinds

\* A consumer is told of a new active representation only if its raw input was
\* revalidated after the activating save, for any number of sources, records and
\* interruptions: what is announced without its check is never in the ledger but
\* under its guard, and is out of its reach once its extraction was found dead
\* (_process_record, recover_stale_extraction, _existing_event, finalize).
THEOREM AnnouncedActive == Spec => []AnnouncedWasActive
<1>1. AnnouncementInv => AnnouncedWasActive
  BY DEF AnnouncementInv, DiskConfirms
<1> QED
  BY <1>1, InitAnnounces, NextAnnounces, PTL DEF Spec

-----------------------------------------------------------------------------
(* Events once.                                                            *)

\* A journal has no event frame twice.
LogOnce(log) == \A i, j \in DOMAIN log : log[i].frame = "event" /\ log[i] = log[j] => i = j

\* Nor has what is staged of it.
OnceOnDisk ==
    /\ journal # NoJournal => LogOnce(journal.log)
    /\ staged # NoResult => LogOnce(staged.log)

\* The phases that append to a journal, or are about to.
Appending == {"header", "hash", "reconcile", "observe"}

\* An event that the rest of a first attempt does not prepare: a moved source is
\* reconciled, an activated one is extracted, and a waiting one observed, only once.
Spent(c, e) ==
    /\ c.phase = "reconcile" =>
          /\ e.source \notin c.todo /\ e.kind # "handoff_source_id"
          /\ e.kind = "new_active_representation" => e.source \notin c.jobs
          /\ \A request \in c.batch :
                request.source = e.source => e.kind = "citation_rewrite" /\ ~request.rewrites
    /\ c.phase = "observe" /\ e.kind = "handoff_source_id" => e.source \notin c.todo

\* A first attempt, which does not look for an event before it appends it, plans
\* one at most, and none that is in the journal.
PlansOnce(c) ==
    c # Idle /\ ~c.resumed /\ c.phase \in Appending =>
        /\ c.phase \in {"header", "hash"} => Frames(journal.log) = {}
        /\ \A f \in Frames(journal.log) : f.frame = "event" => Spent(c, f.event)
        /\ \A i \in 1 .. Len(c.plan) : c.plan[i].do = "emit" =>
              /\ Spent(c, c.plan[i].event) /\ Prepared(c.plan[i].event) \notin Frames(journal.log)
              /\ \A j \in 1 .. Len(c.plan) : c.plan[j].do = "emit" => i = j

CommandOnce == PlansOnce(command)

\* A frame that is appended is a commit frame, or new.
LEMMA AppendedOnce ==
  ASSUME NEW log \in Seq(FrameSet), LogOnce(log), NEW frame \in FrameSet,
         frame.frame = "event" => frame \notin Frames(log)
  PROVE  LogOnce(Append(log, frame))
<1> PICK longer : longer = Append(log, frame)
  OBVIOUS
<1>1. /\ Len(log) \in Nat /\ DOMAIN log = 1 .. Len(log) /\ DOMAIN longer = 1 .. Len(log) + 1
      /\ longer[Len(log) + 1] = frame /\ \A i \in 1 .. Len(log) : longer[i] = log[i]
  OBVIOUS
<1>2. \A i \in 1 .. Len(log) : log[i] \in Frames(log)
  BY <1>1 DEF Frames
<1>3. ASSUME NEW i \in DOMAIN longer, NEW j \in DOMAIN longer, longer[i].frame = "event",
             longer[i] = longer[j]
      PROVE  i = j
  <2>1. CASE i \in 1 .. Len(log) /\ j \in 1 .. Len(log)
    BY <1>1, <1>3, <2>1 DEF LogOnce
  <2>2. CASE i = Len(log) + 1 /\ j \in 1 .. Len(log)
    BY <1>1, <1>2, <1>3, <2>2
  <2>3. CASE i \in 1 .. Len(log) /\ j = Len(log) + 1
    BY <1>1, <1>2, <1>3, <2>3
  <2> QED
    BY <1>1, <1>3, <2>1, <2>2, <2>3
<1> QED
  BY <1>3 DEF LogOnce

\* A step of a plan: what it appends to the journal is its event, or a commit frame.
LEMMA StepAppends ==
  ASSUME Inv, Inv', CommandHolds, CommandOnce, NEW step, step = Head(command.plan),
         EmitStep \/ CommitStep \/ SaveStep \/ GuardStep \/ CheckStep \/ ClearStep
  PROVE  \/ journal' = journal
         \/ \E frame \in FrameSet :
               /\ journal \in Journals /\ journal' = [journal EXCEPT !.log = Append(@, frame)]
               /\ frame.frame = "event" =>
                     /\ step.do = "emit" /\ frame = Prepared(step.event)
                     /\ frame \notin Frames(journal.log)
<1>1. /\ command # Idle /\ command.plan # <<>> /\ step \in Steps /\ command \in CommandSet
      /\ step = command.plan[1] /\ command.plan \in Seq(Steps)
  BY StepTaken
<1>2. CASE step.do \notin {"emit", "commit"}
  BY <1>1, <1>2, StepTaken
<1>3. CASE step.do \in {"emit", "commit"}
  <2>1. journal \in Journals /\ command.phase \in {"reconcile", "observe"}
    BY <1>1, <1>3, NextStep DEF Working
  <2>2. step.event \in EventSet
    BY <1>1, <1>3, StepFields
  <2>3. CASE EmitStep
    <3> PICK frame : frame = Prepared(step.event)
      OBVIOUS
    <3>1. /\ frame \in FrameSet /\ step.do = "emit"
          /\ journal' = IF command.resumed /\ frame \in Frames(journal.log) THEN journal
                        ELSE [journal EXCEPT !.log = Append(@, frame)]
      BY <2>2, <2>3 DEF EmitStep, NextIs, Prepared, FrameSet
    <3>2. CASE command.resumed
      BY <2>1, <3>1, <3>2
    <3>3. CASE ~command.resumed
      <4>1. 1 \in 1 .. Len(command.plan)
        BY <1>1, RestOfPlan
      <4>2. frame \notin Frames(journal.log)
        BY <1>1, <2>1, <3>1, <3>3, <4>1 DEF CommandOnce, PlansOnce, Appending
      <4> QED
        BY <2>1, <3>1, <3>3, <4>2
    <3> QED
      BY <3>2, <3>3
  <2>4. CASE CommitStep
    <3> PICK frame : frame = Committed(step.event)
      OBVIOUS
    <3>1. /\ frame \in FrameSet /\ frame.frame = "commit"
          /\ journal' = IF frame \in Frames(journal.log) THEN journal
                        ELSE [journal EXCEPT !.log = Append(@, frame)]
      BY <2>2, <2>4 DEF CommitStep, Committed, FrameSet
    <3> QED
      BY <2>1, <3>1
  <2> QED
    BY <1>3, <2>3, <2>4 DEF SaveStep, GuardStep, CheckStep, ClearStep, NextIs
<1> QED
  BY <1>2, <1>3

\* A step of a plan appends no event that is there.
LEMMA StepOnce ==
  ASSUME Inv, Inv', CommandHolds, OnceOnDisk, CommandOnce,
         EmitStep \/ CommitStep \/ SaveStep \/ GuardStep \/ CheckStep \/ ClearStep
  PROVE  OnceOnDisk' /\ CommandOnce'
<1> PICK step, plan, q : step = Head(command.plan) /\ plan = command.plan /\ q = Tail(plan)
  OBVIOUS
<1> PICK c : c = [command EXCEPT !.plan = Tail(@)]
  OBVIOUS
<1>1. /\ command # Idle /\ command \in CommandSet /\ plan # <<>> /\ plan \in Seq(Steps)
      /\ step = plan[1] /\ command' \in {c, Idle} /\ staged' = staged
  BY StepTaken DEF Advance
<1>2. \/ journal' = journal
      \/ \E frame \in FrameSet :
            /\ journal \in Journals /\ journal' = [journal EXCEPT !.log = Append(@, frame)]
            /\ frame.frame = "event" =>
                  /\ step.do = "emit" /\ frame = Prepared(step.event)
                  /\ frame \notin Frames(journal.log)
  BY StepAppends
<1>3. OnceOnDisk'
  <2>1. CASE journal' = journal
    BY <1>1, <2>1 DEF OnceOnDisk, LogOnce
  <2>2. ASSUME NEW frame \in FrameSet, journal \in Journals,
               journal' = [journal EXCEPT !.log = Append(@, frame)],
               frame.frame = "event" => frame \notin Frames(journal.log)
        PROVE  OnceOnDisk'
    <3>1. journal # NoJournal /\ journal.log \in Seq(FrameSet)
      BY <2>2, NoJournalIsNone DEF Journals
    <3>2. journal'.log = Append(journal.log, frame)
      BY <2>2 DEF Journals
    <3>3. LogOnce(Append(journal.log, frame))
      BY <2>2, <3>1, AppendedOnce DEF OnceOnDisk
    <3> QED
      BY <1>1, <3>2, <3>3 DEF OnceOnDisk, LogOnce
  <2> QED
    BY <1>2, <2>1, <2>2
<1>4. /\ Len(plan) \in Nat /\ Len(plan) >= 1
      /\ Len(q) = Len(plan) - 1 /\ \A i \in 1 .. Len(q) : q[i] = plan[i + 1]
  BY <1>1, RestOfPlan
<1>5. /\ c.plan = q /\ c.phase = command.phase /\ c.resumed = command.resumed
      /\ \A e : Spent(c, e) <=> Spent(command, e)
  BY <1>1 DEF CommandSet, Spent
<1>6. ASSUME ~command.resumed, command.phase \in Appending
      PROVE  PlansOnce(c)'
  <2>1. command.phase \notin {"header", "hash"}
    BY <1>1 DEF CommandHolds, CommandSpooled
  <2>2. /\ \A f \in Frames(journal.log) : f.frame = "event" => Spent(command, f.event)
        /\ \A i \in 1 .. Len(plan) : plan[i].do = "emit" =>
              /\ Spent(command, plan[i].event) /\ Prepared(plan[i].event) \notin Frames(journal.log)
              /\ \A j \in 1 .. Len(plan) : plan[j].do = "emit" => i = j
    BY <1>1, <1>6 DEF CommandOnce, PlansOnce
  <2>3. \A f \in Frames(journal'.log) :
            f.frame = "event" =>
                f \in Frames(journal.log) \/ (step.do = "emit" /\ f = Prepared(step.event))
    <3>1. ASSUME NEW frame \in FrameSet, journal \in Journals,
                 journal' = [journal EXCEPT !.log = Append(@, frame)]
          PROVE  Frames(journal'.log) = Frames(journal.log) \union {frame}
      <4>1. journal'.log = Append(journal.log, frame) /\ journal.log \in Seq(FrameSet)
        BY <3>1 DEF Journals
      <4> QED
        BY <4>1, FramesAppend
    <3> QED
      BY <1>2, <3>1
  <2>4. ASSUME NEW f \in Frames(journal'.log), f.frame = "event"
        PROVE  Spent(c, f.event)
    <3>1. CASE f \in Frames(journal.log)
      BY <1>5, <2>2, <2>4, <3>1
    <3>2. CASE step.do = "emit" /\ f = Prepared(step.event)
      <4>1. 1 \in 1 .. Len(plan) /\ f.event = step.event
        BY <1>4, <3>2 DEF Prepared
      <4> QED
        BY <1>1, <1>5, <2>2, <3>2, <4>1
    <3> QED
      BY <2>3, <2>4, <3>1, <3>2
  <2>5. ASSUME NEW i \in 1 .. Len(q), q[i].do = "emit"
        PROVE  /\ Spent(c, q[i].event) /\ Prepared(q[i].event) \notin Frames(journal'.log)
               /\ \A j \in 1 .. Len(q) : q[j].do = "emit" => i = j
    <3>1. i + 1 \in 1 .. Len(plan) /\ q[i] = plan[i + 1] /\ 1 \in 1 .. Len(plan) /\ 1 # i + 1
      BY <1>4
    <3>2. step.do # "emit"
      BY <1>1, <2>2, <2>5, <3>1
    <3>3. Prepared(q[i].event) \notin Frames(journal'.log)
      BY <2>2, <2>3, <2>5, <3>1, <3>2 DEF Prepared
    <3>4. ASSUME NEW j \in 1 .. Len(q), q[j].do = "emit"
          PROVE  i = j
      <4>1. j + 1 \in 1 .. Len(plan) /\ q[j] = plan[j + 1]
        BY <1>4
      <4>2. i + 1 = j + 1
        BY <2>2, <2>5, <3>1, <3>4, <4>1
      <4> QED
        BY <1>4, <4>2
    <3> QED
      BY <1>5, <2>2, <2>5, <3>1, <3>3, <3>4
  <2> QED
    BY <1>5, <2>1, <2>4, <2>5 DEF PlansOnce, Spent
<1>7. PlansOnce(c)' /\ PlansOnce(Idle)'
  BY <1>5, <1>6 DEF PlansOnce
<1> QED
  BY <1>1, <1>3, <1>7 DEF CommandOnce

\* The events that a plan prepares: none but these, and one at most.
EmitsOnly(plan, events) ==
    \A i \in 1 .. Len(plan) : plan[i].do = "emit" =>
        plan[i].event \in events /\ \A j \in 1 .. Len(plan) : plan[j].do = "emit" => i = j

\* A plan of two parts, of which one prepares none.
LEMMA EmitsConcat ==
  ASSUME NEW S, NEW p \in Seq(S), NEW q \in Seq(S), NEW events,
         \/ EmitsOnly(p, events) /\ EmitsOnly(q, {})
         \/ EmitsOnly(p, {}) /\ EmitsOnly(q, events)
  PROVE  EmitsOnly(p \o q, events)
<1> PICK plan : plan = p \o q
  OBVIOUS
<1>1. /\ Len(plan) = Len(p) + Len(q) /\ Len(p) \in Nat /\ Len(q) \in Nat
      /\ \A i \in 1 .. Len(p) : plan[i] = p[i]
      /\ \A i \in 1 .. Len(q) : plan[Len(p) + i] = q[i]
  OBVIOUS
<1>2. \A i \in 1 .. Len(plan) :
          \/ i \in 1 .. Len(p) /\ plan[i] = p[i]
          \/ i - Len(p) \in 1 .. Len(q) /\ plan[i] = q[i - Len(p)]
  <2> TAKE i \in 1 .. Len(plan)
  <2>1. i \in 1 .. Len(p) \/ i - Len(p) \in 1 .. Len(q)
    BY <1>1
  <2>2. i = Len(p) + (i - Len(p))
    BY <1>1
  <2> QED
    BY <1>1, <2>1, <2>2
<1>3. CASE EmitsOnly(p, events) /\ EmitsOnly(q, {})
  <2>1. \A i \in 1 .. Len(plan) : plan[i].do = "emit" => i \in 1 .. Len(p) /\ plan[i] = p[i]
    BY <1>2, <1>3 DEF EmitsOnly
  <2> QED
    BY <1>3, <2>1 DEF EmitsOnly
<1>4. CASE EmitsOnly(p, {}) /\ EmitsOnly(q, events)
  <2>1. \A i \in 1 .. Len(plan) :
            plan[i].do = "emit" => i - Len(p) \in 1 .. Len(q) /\ plan[i] = q[i - Len(p)]
    BY <1>2, <1>4 DEF EmitsOnly
  <2>2. ASSUME NEW i \in 1 .. Len(plan), plan[i].do = "emit"
        PROVE  plan[i].event \in events
    BY <1>4, <2>1, <2>2 DEF EmitsOnly
  <2>3. ASSUME NEW i \in 1 .. Len(plan), plan[i].do = "emit",
               NEW j \in 1 .. Len(plan), plan[j].do = "emit"
        PROVE  i = j
    <3>1. i - Len(p) = j - Len(p)
      BY <1>4, <2>1, <2>3 DEF EmitsOnly
    <3> QED
      BY <1>1, <3>1
  <2> QED
    BY <2>2, <2>3 DEF EmitsOnly
<1> QED
  BY <1>3, <1>4

\* A plan without a step, and of one that prepares nothing.
LEMMA EmitsNone ==
  ASSUME NEW S
  PROVE  /\ <<>> \in Seq(S) /\ EmitsOnly(<<>>, {})
         /\ \A step \in S : <<step>> \in Seq(S) /\ (step.do # "emit" => EmitsOnly(<<step>>, {}))
<1>1. \A i \in 1 .. Len(<<>>) : FALSE
  OBVIOUS
<1>2. ASSUME NEW step \in S, step.do # "emit"
      PROVE  EmitsOnly(<<step>>, {})
  <2>1. Len(<<step>>) = 1 /\ <<step>>[1] = step /\ \A i \in 1 .. 1 : i = 1
    OBVIOUS
  <2> QED
    BY <1>2, <2>1 DEF EmitsOnly
<1> QED
  BY <1>1, <1>2 DEF EmitsOnly

\* Publishing a record prepares its rewrite, if it carries one.
LEMMA PublishEmits ==
  ASSUME NEW s, NEW r, NEW rewrites \in BOOLEAN, NEW e, e = Event("citation_rewrite", s, r),
         NEW S, Emit(e) \in S, Save(s, r) \in S, Commit(e) \in S
  PROVE  /\ Publish(s, r, rewrites) \in Seq(S)
         /\ rewrites => EmitsOnly(Publish(s, r, rewrites), {e})
         /\ ~rewrites => EmitsOnly(Publish(s, r, rewrites), {})
<1> PICK emit, save, commit : emit = Emit(e) /\ save = Save(s, r) /\ commit = Commit(e)
  OBVIOUS
<1>1. emit.do = "emit" /\ emit.event = e /\ save.do = "save" /\ commit.do = "commit"
  BY DEF Emit, Save, Commit
<1>2. CASE rewrites
  <2> PICK p : p = <<emit, save, commit>>
    OBVIOUS
  <2>1. /\ p \in Seq(S) /\ Len(p) = 3 /\ p[1] = emit /\ p[2] = save /\ p[3] = commit
        /\ \A i \in 1 .. 3 : i = 1 \/ i = 2 \/ i = 3
    OBVIOUS
  <2>2. Publish(s, r, rewrites) = p
    BY <1>2 DEF Publish
  <2>3. \A i \in 1 .. Len(p) : p[i].do = "emit" => i = 1
    BY <1>1, <2>1
  <2>4. EmitsOnly(p, {e})
    BY <1>1, <2>1, <2>3 DEF EmitsOnly
  <2> QED
    BY <1>2, <2>1, <2>2, <2>4
<1>3. CASE ~rewrites
  <2>1. Publish(s, r, rewrites) = <<save>>
    BY <1>3 DEF Publish
  <2>2. <<save>> \in Seq(S) /\ EmitsOnly(<<save>>, {})
    BY <1>1, EmitsNone
  <2> QED
    BY <1>3, <2>1, <2>2
<1> QED
  BY <1>2, <1>3

\* What a reconciling first attempt goes on to: the event it plans was not spent,
\* and is.
LEMMA PlannedOnce ==
  ASSUME CommandOnce, command # Idle, command.phase = "reconcile", NEW d, d.phase = "reconcile",
         d.resumed = command.resumed, \A e : Spent(command, e) => Spent(d, e),
         NEW events, EmitsOnly(d.plan, events),
         \A e \in events : ~d.resumed => ~Spent(command, e) /\ Spent(d, e)
  PROVE  PlansOnce(d)
<1> SUFFICES ASSUME ~d.resumed
             PROVE  PlansOnce(d)
  BY DEF PlansOnce
<1>1. \A f \in Frames(journal.log) : f.frame = "event" => Spent(command, f.event)
  BY DEF CommandOnce, PlansOnce, Appending
<1>2. \A e \in events : Prepared(e) \notin Frames(journal.log)
  BY <1>1 DEF Prepared
<1> QED
  BY <1>1, <1>2 DEF PlansOnce, EmitsOnly

\* A file in its place, a moved one and a new one.
LEMMA ReconcileFileOnce ==
  ASSUME Inv, DiskConfirms, CommandAnnounces, CommandOnce, NEW s \in Sources, ReconcileFile(s)
  PROVE  PlansOnce(command')
<1>f. PICK f : f = FileOf(s)
  OBVIOUS
<1>now. PICK now : now = command.at
  OBVIOUS
<1>created. PICK created \in BOOLEAN : created = (ledger[s] = NoRecord)
  OBVIOUS
<1>renamed. PICK renamed \in BOOLEAN : renamed = (~created /\ ledger[s].path # f.path)
  OBVIOUS
<1>r. PICK r : r = IF created THEN NewRecord(f, now)
                 ELSE IF renamed THEN RenameRecord(ledger[s], f, now) ELSE ledger[s]
  OBVIOUS
<1>stale. PICK stale \in BOOLEAN : stale = (r.state = "extracting")
  OBVIOUS
<1>awake. PICK awake : awake = IF stale THEN RecoverStale(r, now) ELSE r
  OBVIOUS
<1>same. PICK same \in BOOLEAN : same = (f.bytes = r.content)
  OBVIOUS
<1>next. PICK next : next = IF same THEN RefreshMatchingBytes(awake, now)
                       ELSE MarkIntegrityError(awake, f.bytes, now)
  OBVIOUS
<1>process. PICK process \in BOOLEAN : process = (same /\ MustProcess(next))
  OBVIOUS
<1>rewrites. PICK rewrites \in BOOLEAN : rewrites = (renamed /\ ~stale)
  OBVIOUS
<1>changed. PICK changed \in BOOLEAN : changed = (next # awake \/ ((created \/ renamed) /\ ~stale))
  OBVIOUS
<1>recovery. PICK recovery : recovery = IF stale THEN Publish(s, awake, renamed) ELSE <<>>
  OBVIOUS
<1>outcome. PICK outcome : outcome = IF ~process /\ changed THEN Publish(s, next, rewrites) ELSE <<>>
  OBVIOUS
<1>request. PICK request : request = [source |-> s, record |-> next, rewrites |-> rewrites]
  OBVIOUS
<1>batch. PICK batch : batch = IF process THEN command.batch \union {request} ELSE command.batch
  OBVIOUS
<1>1. /\ command # Idle /\ command.plan = <<>> /\ command.phase = "reconcile"
      /\ s \in command.todo /\ command \in CommandSet
  BY DEF ReconcileFile, Reconciling, InPhase, Inv, Typed
<1>2. command' = [command EXCEPT !.todo = @ \ {s}, !.batch = batch, !.plan = recovery \o outcome]
  BY <1>f, <1>now, <1>created, <1>renamed, <1>r, <1>stale, <1>awake, <1>same,
     <1>next, <1>process, <1>rewrites, <1>changed,
     <1>recovery, <1>outcome, <1>request, <1>batch DEF ReconcileFile
<1>c. PICK c : c = command'
  OBVIOUS
<1>3. /\ c.plan = recovery \o outcome /\ c.phase = "reconcile" /\ c.batch = batch
      /\ c.todo = command.todo \ {s} /\ c.jobs = command.jobs /\ c.resumed = command.resumed
  BY <1>1, <1>2, <1>c DEF CommandSet
<1>4. InFlight(command) /\ s \notin command.jobs /\ \A old \in command.batch : old.source # s
  BY <1>1, AtWork DEF InFlight
<1>5. request.source = s /\ request.rewrites = rewrites
  BY <1>request
<1>a. PICK a, b : a = Event("citation_rewrite", s, awake) /\ b = Event("citation_rewrite", s, next)
  OBVIOUS
<1>6. /\ a.source = s /\ a.kind = "citation_rewrite" /\ b.source = s /\ b.kind = "citation_rewrite"
  BY <1>a DEF Event
<1>s. PICK S : S = {Emit(a), Save(s, awake), Commit(a), Emit(b), Save(s, next), Commit(b)}
  OBVIOUS
<1>7. /\ recovery \in Seq(S) /\ outcome \in Seq(S)
      /\ stale /\ renamed => EmitsOnly(recovery, {a})
      /\ ~(stale /\ renamed) => EmitsOnly(recovery, {})
      /\ ~process /\ changed /\ rewrites => EmitsOnly(outcome, {b})
      /\ ~(~process /\ changed /\ rewrites) => EmitsOnly(outcome, {})
  <2> PICK p, q : p = Publish(s, awake, renamed) /\ q = Publish(s, next, rewrites)
    OBVIOUS
  <2>0. /\ Emit(a) \in S /\ Save(s, awake) \in S /\ Commit(a) \in S
        /\ Emit(b) \in S /\ Save(s, next) \in S /\ Commit(b) \in S
    BY <1>s
  <2>1. /\ p \in Seq(S)
        /\ renamed => EmitsOnly(p, {a})
        /\ ~renamed => EmitsOnly(p, {})
    BY <1>a, <2>0, PublishEmits
  <2>2. /\ q \in Seq(S)
        /\ rewrites => EmitsOnly(q, {b})
        /\ ~rewrites => EmitsOnly(q, {})
    BY <1>a, <2>0, PublishEmits
  <2>3. <<>> \in Seq(S) /\ EmitsOnly(<<>>, {})
    BY EmitsNone
  <2> QED
    BY <1>recovery, <1>outcome, <2>1, <2>2, <2>3
<1>8. ASSUME NEW e, Spent(command, e)
      PROVE  Spent(c, e)
  <2>1. e.source # s
    BY <1>1, <1>8 DEF Spent
  <2> QED
    BY <1>1, <1>3, <1>5, <1>8, <1>batch, <2>1 DEF Spent
<1>9. ASSUME NEW e, e.source = s, e.kind = "citation_rewrite",
             (stale /\ renamed) \/ ~process
      PROVE  ~Spent(command, e) /\ Spent(c, e)
  BY <1>1, <1>3, <1>4, <1>5, <1>9, <1>batch, <1>rewrites DEF Spent
<1>10. CASE stale /\ renamed
  <2>1. EmitsOnly(recovery, {a}) /\ EmitsOnly(outcome, {})
    BY <1>7, <1>10, <1>rewrites
  <2>2. EmitsOnly(c.plan, {a})
    BY <1>3, <1>7, <2>1, EmitsConcat
  <2> PICK events : events = {a}
    OBVIOUS
  <2>3. \A e \in events : ~Spent(command, e) /\ Spent(c, e)
    BY <1>6, <1>9, <1>10
  <2> QED
    BY <1>1, <1>3, <1>8, <1>c, <2>2, <2>3, PlannedOnce
<1>11. CASE ~(stale /\ renamed)
  <2> PICK events : events = IF ~process /\ changed /\ rewrites THEN {b} ELSE {}
    OBVIOUS
  <2>0. EmitsOnly(recovery, {}) /\ EmitsOnly(outcome, events)
    BY <1>7, <1>11
  <2>1. EmitsOnly(c.plan, events)
    BY <1>3, <1>7, <2>0, EmitsConcat
  <2>2. \A e \in events : ~Spent(command, e) /\ Spent(c, e)
    BY <1>6, <1>9
  <2> QED
    BY <1>1, <1>3, <1>8, <1>c, <2>1, <2>2, PlannedOnce
<1> QED
  BY <1>10, <1>11

\* A source without its file, and one that cannot be verified.
LEMMA ReconcileAbsentOnce ==
  ASSUME Inv, CommandOnce, NEW s \in Sources, ReconcileAbsent(s) \/ ReconcileUnverified(s)
  PROVE  PlansOnce(command')
<1>1. /\ command # Idle /\ command.plan = <<>> /\ command.phase = "reconcile"
      /\ command \in CommandSet
  BY DEF ReconcileAbsent, BatchDone, FilesReconciled, ReconcileUnverified, Reconciling, InPhase, Inv,
         Typed
<1>c. PICK c : c = command'
  OBVIOUS
<1>2. ASSUME NEW plan, c = [command EXCEPT !.todo = @ \ {s}, !.plan = plan], EmitsOnly(plan, {})
      PROVE  PlansOnce(c)
  <2>1. /\ c.plan = plan /\ c.phase = "reconcile" /\ c.batch = command.batch
        /\ c.todo = command.todo \ {s} /\ c.jobs = command.jobs /\ c.resumed = command.resumed
    BY <1>1, <1>2 DEF CommandSet
  <2>2. \A e : Spent(command, e) => Spent(c, e)
    BY <1>1, <2>1 DEF Spent
  <2> PICK events : events = {}
    OBVIOUS
  <2>3. EmitsOnly(c.plan, events) /\ \A e \in events : ~Spent(command, e) /\ Spent(c, e)
    BY <1>2, <2>1
  <2> QED
    BY <1>1, <2>1, <2>2, <2>3, PlannedOnce
<1>3. CASE ReconcileUnverified(s)
  <2>1. EmitsOnly(<<>>, {})
    BY EmitsNone
  <2>2. c = [command EXCEPT !.todo = @ \ {s}, !.plan = <<>>]
    BY <1>1, <1>3, <1>c DEF ReconcileUnverified, CommandSet
  <2> QED
    BY <1>2, <1>c, <2>1, <2>2
<1>4. CASE ReconcileAbsent(s)
  <2>r. PICK r : r = ledger[s]
    OBVIOUS
  <2>stale. PICK stale \in BOOLEAN : stale = (r # NoRecord /\ r.state = "extracting")
    OBVIOUS
  <2>awake. PICK awake : awake = IF stale THEN RecoverStale(r, command.at) ELSE r
    OBVIOUS
  <2>missing. PICK missing : missing = MarkMissing(awake, command.at)
    OBVIOUS
  <2>recovery. PICK recovery : recovery = IF stale THEN <<Save(s, awake)>> ELSE <<>>
    OBVIOUS
  <2>outcome. PICK outcome :
      outcome = IF r = NoRecord \/ missing = awake THEN <<>> ELSE <<Save(s, missing)>>
    OBVIOUS
  <2>1. c = [command EXCEPT !.todo = @ \ {s}, !.plan = recovery \o outcome]
    BY <1>4, <1>c, <2>r, <2>stale, <2>awake, <2>missing, <2>recovery, <2>outcome DEF ReconcileAbsent
  <2>s. PICK S : S = {Save(s, awake), Save(s, missing)}
    OBVIOUS
  <2>2. /\ recovery \in Seq(S) /\ EmitsOnly(recovery, {})
        /\ outcome \in Seq(S) /\ EmitsOnly(outcome, {})
    <3>1. Save(s, awake).do # "emit" /\ Save(s, missing).do # "emit"
      BY DEF Save
    <3>2. /\ <<>> \in Seq(S) /\ EmitsOnly(<<>>, {})
          /\ <<Save(s, awake)>> \in Seq(S) /\ EmitsOnly(<<Save(s, awake)>>, {})
          /\ <<Save(s, missing)>> \in Seq(S) /\ EmitsOnly(<<Save(s, missing)>>, {})
      BY <2>s, <3>1, EmitsNone
    <3> QED
      BY <2>recovery, <2>outcome, <3>2
  <2>3. EmitsOnly(recovery \o outcome, {})
    BY <2>2, EmitsConcat
  <2> QED
    BY <1>2, <1>c, <2>1, <2>3
<1> QED
  BY <1>3, <1>4

\* An extraction starts: its request is gone from the batch.
LEMMA StartJobOnce ==
  ASSUME Inv, DiskConfirms, CommandAnnounces, CommandOnce, command # Idle,
         NEW request \in command.batch, StartJob(request)
  PROVE  PlansOnce(command')
<1>s. PICK s : s = request.source
  OBVIOUS
<1>r. PICK r : r = ExtractingRecord(request.record, command.at)
  OBVIOUS
<1>rest. PICK rest : rest = Publish(s, r, request.rewrites)
  OBVIOUS
<1>1. command.plan = <<>> /\ command.phase = "reconcile" /\ command \in CommandSet
  BY DEF StartJob, FilesReconciled, InPhase, Inv, Typed
<1>2. command' = [command EXCEPT !.batch = @ \ {request}, !.jobs = @ \union {s},
                                 !.plan = <<Check(s)>> \o rest]
  BY <1>s, <1>r, <1>rest DEF StartJob
<1>c. PICK c : c = command'
  OBVIOUS
<1>3. /\ c.plan = <<Check(s)>> \o rest /\ c.phase = "reconcile"
      /\ c.batch = command.batch \ {request} /\ c.todo = command.todo
      /\ c.jobs = command.jobs \union {s} /\ c.resumed = command.resumed
  BY <1>1, <1>2, <1>c DEF CommandSet
<1>4. /\ s \notin command.todo /\ \A other \in command.batch : other.source = s => other = request
      /\ request.rewrites \in BOOLEAN
  <2>1. InFlight(command)
    BY <1>1, AtWork
  <2> QED
    BY <1>1, <1>s, <2>1 DEF InFlight, CommandSet, Requests
<1>e. PICK e : e = Event("citation_rewrite", s, r)
  OBVIOUS
<1>S. PICK S : S = {Check(s), Emit(e), Save(s, r), Commit(e)}
  OBVIOUS
<1>p. PICK events : events = IF request.rewrites THEN {e} ELSE {}
  OBVIOUS
<1>5. EmitsOnly(c.plan, events)
  <2> PICK rewrites \in BOOLEAN : rewrites = request.rewrites
    BY <1>4
  <2>0. Check(s) \in S /\ Emit(e) \in S /\ Save(s, r) \in S /\ Commit(e) \in S
    BY <1>S
  <2>1. /\ rest \in Seq(S)
        /\ rewrites => EmitsOnly(rest, {e})
        /\ ~rewrites => EmitsOnly(rest, {})
    BY <1>rest, <1>e, <2>0, PublishEmits
  <2>2. EmitsOnly(rest, events)
    BY <1>p, <2>1
  <2> PICK p : p = <<Check(s)>>
    OBVIOUS
  <2>3. p \in Seq(S) /\ EmitsOnly(p, {})
    <3>1. Check(s).do # "emit"
      BY DEF Check
    <3> QED
      BY <2>0, <3>1, EmitsNone
  <2>4. EmitsOnly(p \o rest, events)
    BY <2>1, <2>2, <2>3, EmitsConcat
  <2> QED
    BY <1>3, <2>4
<1>6. ASSUME NEW x, Spent(command, x)
      PROVE  Spent(c, x)
  BY <1>1, <1>3, <1>6, <1>s DEF Spent
<1>7. ASSUME request.rewrites
      PROVE  ~Spent(command, e) /\ Spent(c, e)
  <2>1. e.source = s /\ e.kind = "citation_rewrite"
    BY <1>e DEF Event
  <2> QED
    BY <1>1, <1>3, <1>4, <1>7, <1>s, <2>1 DEF Spent
<1>8. \A x \in events : ~Spent(command, x) /\ Spent(c, x)
  BY <1>7, <1>p
<1> QED
  BY <1>1, <1>3, <1>5, <1>6, <1>8, <1>c, PlannedOnce

\* A result comes back, once.
LEMMA JobDoneOnce ==
  ASSUME Inv, DiskConfirms, CommandAnnounces, CommandOnce, NEW s \in Sources,
         NEW activates \in BOOLEAN, JobDone(s, activates)
  PROVE  PlansOnce(command')
<1>r. PICK r : r = ledger[s]
  OBVIOUS
<1>final. PICK final : final = Activated(r)
  OBVIOUS
<1>e. PICK e : e = Event("new_active_representation", s, final)
  OBVIOUS
<1>1. /\ command # Idle /\ command.plan = <<>> /\ command.phase = "reconcile"
      /\ s \in command.jobs /\ command \in CommandSet
  BY DEF JobDone, FilesReconciled, InPhase, Inv, Typed
<1>2. command' = [command EXCEPT !.jobs = @ \ {s},
                      !.plan = <<Check(s)>> \o (IF activates THEN Activation(s, r, TRUE)
                                                ELSE <<Save(s, HandedOff(r))>>)]
  BY <1>r DEF JobDone
<1>c. PICK c : c = command'
  OBVIOUS
<1>3. /\ c.plan = <<Check(s)>> \o (IF activates THEN Activation(s, r, TRUE)
                                   ELSE <<Save(s, HandedOff(r))>>)
      /\ c.phase = "reconcile" /\ c.batch = command.batch
      /\ c.todo = command.todo /\ c.jobs = command.jobs \ {s} /\ c.resumed = command.resumed
  BY <1>1, <1>2, <1>c DEF CommandSet
<1>4. /\ InFlight(command) /\ r \in Records /\ s \notin command.todo
      /\ \A request \in command.batch : request.source # s
  BY <1>1, <1>r, AtWork DEF InFlight
<1>5. ASSUME NEW x, Spent(command, x)
      PROVE  Spent(c, x)
  BY <1>1, <1>3, <1>5 DEF Spent
<1>6. CASE activates
  <2>1. c.plan = <<Check(s), Emit(e), Guard(s, r, final), Save(s, final), Check(s),
                   Clear(s, final), Commit(e)>>
    BY <1>3, <1>4, <1>6, <1>final, <1>e, ActivationLaid
  <2>2. EmitsOnly(c.plan, {e})
    <3> PICK t, u, v, w, x, y : t = Check(s) /\ u = Emit(e) /\ v = Guard(s, r, final)
                                /\ w = Save(s, final) /\ x = Clear(s, final) /\ y = Commit(e)
      OBVIOUS
    <3>1. /\ t.do = "check" /\ u.do = "emit" /\ u.event = e /\ v.do = "guard" /\ w.do = "save"
          /\ x.do = "clear" /\ y.do = "commit"
      BY DEF Check, Emit, Guard, Save, Clear, Commit
    <3> PICK p : p = <<t, u, v, w, t, x, y>>
      OBVIOUS
    <3>2. /\ Len(p) = 7 /\ p[1] = t /\ p[2] = u /\ p[3] = v /\ p[4] = w /\ p[5] = t /\ p[6] = x
          /\ p[7] = y
          /\ \A i \in 1 .. 7 : i = 1 \/ i = 2 \/ i = 3 \/ i = 4 \/ i = 5 \/ i = 6 \/ i = 7
      OBVIOUS
    <3>3. \A i \in 1 .. Len(p) : p[i].do = "emit" => i = 2
      BY <3>1, <3>2
    <3>4. EmitsOnly(p, {e})
      BY <3>1, <3>2, <3>3 DEF EmitsOnly
    <3> QED
      BY <2>1, <3>4
  <2>3. ~Spent(command, e) /\ Spent(c, e)
    <3>1. e.source = s /\ e.kind = "new_active_representation"
      BY <1>e DEF Event
    <3> QED
      BY <1>1, <1>3, <1>4, <3>1 DEF Spent
  <2> PICK events : events = {e}
    OBVIOUS
  <2>4. EmitsOnly(c.plan, events) /\ \A x \in events : ~Spent(command, x) /\ Spent(c, x)
    BY <2>2, <2>3
  <2> QED
    BY <1>1, <1>3, <1>5, <1>c, <2>4, PlannedOnce
<1>7. CASE ~activates
  <2> PICK check, save : check = Check(s) /\ save = Save(s, HandedOff(r))
    OBVIOUS
  <2> PICK S : S = {check, save}
    OBVIOUS
  <2>1. check.do # "emit" /\ save.do # "emit"
    BY DEF Check, Save
  <2>2. /\ <<check>> \in Seq(S) /\ EmitsOnly(<<check>>, {})
        /\ <<save>> \in Seq(S) /\ EmitsOnly(<<save>>, {})
    BY <2>1, EmitsNone
  <2>3. EmitsOnly(<<check>> \o <<save>>, {})
    BY <2>2, EmitsConcat
  <2>4. EmitsOnly(c.plan, {})
    BY <1>3, <1>7, <2>3
  <2> PICK events : events = {}
    OBVIOUS
  <2>5. EmitsOnly(c.plan, events) /\ \A x \in events : ~Spent(command, x) /\ Spent(c, x)
    BY <2>4
  <2> QED
    BY <1>1, <1>3, <1>5, <1>c, <2>5, PlannedOnce
<1> QED
  BY <1>6, <1>7

\* A command that appends nothing, or looks before it does.
LEMMA OthersOnce ==
  ASSUME NEW c, \/ c = Idle \/ c.phase \notin Appending \/ c.resumed
  PROVE  PlansOnce(c) /\ PlansOnce(c)'
BY DEF PlansOnce

\* A journal, once the unmatched files are hashed, is still empty.
LEMMA HashOnce ==
  ASSUME Inv, CommandOnce, HashUnmatched
  PROVE  PlansOnce(command')
<1> PICK c : c = command'
  OBVIOUS
<1>1. command # Idle /\ command.plan = <<>> /\ command.phase = "hash" /\ command \in CommandSet
  BY DEF HashUnmatched, InPhase, Inv, Typed
<1>2. /\ c.plan = <<>> /\ c.phase = "reconcile" /\ c.resumed = command.resumed
      /\ Len(<<>>) = 0 /\ \A i \in 1 .. Len(<<>>) : FALSE
  BY <1>1 DEF HashUnmatched, CommandSet
<1>3. ~c.resumed => Frames(journal.log) = {}
  BY <1>1, <1>2 DEF CommandOnce, PlansOnce, Appending
<1> QED
  BY <1>2, <1>3 DEF PlansOnce

\* Every source is reconciled: no source has been handed over yet.
LEMMA ReconciledOnce ==
  ASSUME Inv, CommandOnce, Reconciled
  PROVE  PlansOnce(command')
<1> PICK c : c = command'
  OBVIOUS
<1>1. /\ command # Idle /\ command.plan = <<>> /\ command.phase = "reconcile"
      /\ command \in CommandSet
  BY DEF Reconciled, BatchDone, FilesReconciled, InPhase, Inv, Typed
<1>2. /\ c.plan = <<>> /\ c.phase = "observe" /\ c.resumed = command.resumed
      /\ Len(<<>>) = 0 /\ \A i \in 1 .. Len(<<>>) : FALSE
  BY <1>1 DEF Reconciled, CommandSet
<1>3. \A e : Spent(command, e) => Spent(c, e)
  BY <1>1, <1>2 DEF Spent
<1>4. ~c.resumed => \A f \in Frames(journal.log) : f.frame = "event" => Spent(command, f.event)
  BY <1>1, <1>2 DEF CommandOnce, PlansOnce, Appending
<1> QED
  BY <1>2, <1>3, <1>4 DEF PlansOnce

\* A source that waits is handed over, once.
LEMMA ObserveOnce ==
  ASSUME Inv, CommandOnce, NEW s \in Sources, Observe(s)
  PROVE  PlansOnce(command')
<1> PICK c : c = command'
  OBVIOUS
<1> PICK e, step : e = Event("handoff_source_id", s, ledger[s]) /\ step = Emit(e)
  OBVIOUS
<1>1. /\ command # Idle /\ command.plan = <<>> /\ command.phase = "observe"
      /\ s \in command.todo /\ command \in CommandSet
  BY DEF Observe, InPhase, Inv, Typed
<1>2. /\ c.plan = <<step>> /\ c.phase = "observe" /\ c.resumed = command.resumed
      /\ c.todo = command.todo \ {s}
  BY <1>1 DEF Observe, CommandSet
<1>3. /\ Len(<<step>>) = 1 /\ <<step>>[1] = step /\ (\A i \in 1 .. 1 : i = 1)
      /\ step.do = "emit" /\ step.event = e /\ e.kind = "handoff_source_id" /\ e.source = s
      /\ Prepared(e).frame = "event" /\ Prepared(e).event = e
  BY DEF Emit, Event, Prepared
<1>4. /\ \A x : Spent(command, x) => Spent(c, x)
      /\ ~Spent(command, e) /\ Spent(c, e)
  BY <1>1, <1>2, <1>3 DEF Spent
<1> SUFFICES ASSUME ~c.resumed
             PROVE  PlansOnce(c)
  BY DEF PlansOnce
<1>5. \A f \in Frames(journal.log) : f.frame = "event" => Spent(command, f.event)
  BY <1>1, <1>2 DEF CommandOnce, PlansOnce, Appending
<1>6. Prepared(e) \notin Frames(journal.log)
  BY <1>3, <1>4, <1>5
<1> QED
  BY <1>2, <1>3, <1>4, <1>5, <1>6 DEF PlansOnce

\* What a command remembers, and what its caller starts.
LEMMA RecallsOnce ==
  ASSUME Inv, DiskConfirms, CommandAnnounces, OnceOnDisk, CommandOnce, Recalls
  PROVE  OnceOnDisk' /\ CommandOnce'
<1> PICK c : c = command'
  OBVIOUS
<1>0. journal' = journal /\ staged' = staged
  BY RecallsQuietly DEF disk
<1>c. ASSUME PlansOnce(c)
      PROVE  OnceOnDisk' /\ CommandOnce'
  <2>1. OnceOnDisk'
    BY <1>0 DEF OnceOnDisk, LogOnce
  <2>2. PlansOnce(c)'
    BY <1>0, <1>c DEF PlansOnce, Spent
  <2> QED
    BY <2>1, <2>2 DEF CommandOnce
<1>1. CASE \E s \in Sources : \/ ReconcileFile(s) \/ ReconcileAbsent(s) \/ ReconcileUnverified(s)
                              \/ \E activates \in BOOLEAN : JobDone(s, activates)
  BY <1>1, <1>c, ReconcileFileOnce, ReconcileAbsentOnce, JobDoneOnce
<1>2. CASE command # Idle /\ \E request \in command.batch : StartJob(request)
  BY <1>2, <1>c, StartJobOnce
<1>3. CASE HashUnmatched \/ Reconciled \/ \E s \in Sources : Observe(s)
  BY <1>3, <1>c, HashOnce, ReconciledOnce, ObserveOnce
<1>4. CASE \/ CheckFails \/ StepFails \/ Refuse \/ DropRefused
           \/ \E s \in Sources : ReconcileFails(s)
  <2>1. command # Idle /\ command \in CommandSet
    BY <1>4 DEF CheckFails, StepFails, NextIs, Refuse, Opening, DropRefused, ReconcileFails,
                Reconciling, InPhase, Inv, Typed
  <2>2. c = Idle \/ c.phase = "failing"
    BY <1>4, <2>1 DEF CheckFails, StepFails, Unwind, Refuse, DropRefused, ReconcileFails, CommandSet
  <2> QED
    BY <1>c, <2>2, OthersOnce DEF Appending
<1>5. CASE OpenPending \/ OpenStaged \/ OpenResumed \/ Register \/ \E s \in Sources : RecoverGuard(s)
  <2>1. command # Idle /\ command \in CommandSet /\ command.phase = "recover"
    BY <1>5 DEF OpenPending, OpenStaged, OpenResumed, Opening, Register, RecoverGuard, InPhase, Inv,
                Typed
  <2>2. CASE OpenPending \/ OpenStaged
    <3>1. c.phase \in {"drop_journal", "finalize"}
      BY <2>1, <2>2 DEF OpenPending, OpenStaged, CommandSet
    <3> QED
      BY <1>c, <3>1, OthersOnce DEF Appending
  <2>3. CASE OpenResumed
    <3>1. c.resumed
      BY <2>1, <2>3 DEF OpenResumed, CommandSet
    <3> QED
      BY <1>c, <3>1, OthersOnce
  <2>4. CASE Register
    <3>1. c = Idle \/ c.phase = "finish"
      BY <2>1, <2>4 DEF Register, CommandSet
    <3> QED
      BY <1>c, <3>1, OthersOnce DEF Appending
  <2>5. CASE \E s \in Sources : RecoverGuard(s)
    <3>1. c.phase = "recover"
      BY <2>1, <2>5 DEF RecoverGuard, CommandSet
    <3> QED
      BY <1>c, <3>1, OthersOnce DEF Appending
  <2> QED
    BY <1>5, <2>2, <2>3, <2>4, <2>5
<1>6. CASE \/ \E name \in Commands : StartSync(name)
           \/ \E m \in manifests : StartAcknowledge(m) \/ StartReacknowledge(m)
  <2>1. c.phase \in {"recover", "drop_journal", "acknowledge"}
    BY <1>6 DEF StartSync, StartAcknowledge, StartReacknowledge, NewCommand
  <2> QED
    BY <1>c, <2>1, OthersOnce DEF Appending
<1>7. CASE \E s \in Sources : Edit(s)
  BY <1>7, <1>c DEF Edit, CommandOnce
<1> QED
  BY <1>1, <1>2, <1>3, <1>4, <1>5, <1>6, <1>7 DEF Recalls

\* A journal is new, or stays, or is staged, or goes.
LEMMA SpoolOnce ==
  ASSUME Inv, CommandHolds, OnceOnDisk, CommandOnce,
         \/ OpenNew \/ WriteHeader \/ PublishHandoffs \/ Stage \/ Finalize \/ SavePending
         \/ DropJournal \/ DropStaged \/ Acknowledge \/ DropPending \/ Stop
         \/ (\E m \in manifests : Consume(m)) \/ (\E s \in Sources : Adopt(s))
         \/ \E item \in Items : StartRegister(item)
  PROVE  OnceOnDisk' /\ CommandOnce'
<1> PICK c : c = command'
  OBVIOUS
<1>1. command # Idle => command \in CommandSet
  BY DEF Inv, Typed
<1>c. ASSUME PlansOnce(c)'
      PROVE  CommandOnce'
  BY <1>c DEF CommandOnce
<1>2. CASE OpenNew
  <2>1. /\ journal'.log = <<>> /\ staged' = staged /\ command # Idle /\ command.plan = <<>>
        /\ Len(<<>>) = 0 /\ (\A i \in 1 .. Len(<<>>) : FALSE) /\ DOMAIN <<>> = {}
    BY <1>2 DEF OpenNew, Opening, InPhase
  <2>2. c.plan = <<>> /\ c.phase = "header"
    BY <1>1, <1>2, <2>1 DEF OpenNew, CommandSet
  <2>3. Frames(journal'.log) = {} /\ LogOnce(journal'.log)
    BY <2>1 DEF Frames, LogOnce
  <2>4. PlansOnce(c)'
    BY <2>1, <2>2, <2>3 DEF PlansOnce
  <2> QED
    BY <1>c, <2>1, <2>3, <2>4 DEF OnceOnDisk, LogOnce
<1>3. CASE WriteHeader
  <2>1. /\ InPhase("header") /\ journal' = [journal EXCEPT !.header = TRUE] /\ staged' = staged
        /\ command # Idle /\ command.plan = <<>> /\ command.phase = "header"
        /\ Len(<<>>) = 0 /\ (\A i \in 1 .. Len(<<>>) : FALSE)
    BY <1>3 DEF WriteHeader, InPhase
  <2>2. journal \in Journals /\ journal # NoJournal
    BY <2>1, AtPhase DEF Working
  <2>3. journal'.log = journal.log
    BY <2>1, <2>2 DEF Journals
  <2>4. c.plan = <<>> /\ c.phase = "hash" /\ c.resumed = command.resumed
    BY <1>1, <1>3, <2>1 DEF WriteHeader, CommandSet
  <2>5. ~c.resumed => Frames(journal'.log) = {}
    BY <2>1, <2>3, <2>4 DEF CommandOnce, PlansOnce, Appending
  <2>6. PlansOnce(c)'
    BY <2>1, <2>4, <2>5 DEF PlansOnce
  <2> QED
    BY <1>c, <2>1, <2>2, <2>3, <2>6 DEF OnceOnDisk, LogOnce
<1>4. CASE Stage
  <2>1. /\ InPhase("published") /\ journal' = journal /\ staged'.log = journal.log
    BY <1>4 DEF Stage
  <2>2. /\ journal # NoJournal /\ command # Idle
    BY <2>1, AtPhase DEF Working
  <2>3. c.phase = "finalize"
    BY <1>1, <1>4, <2>2 DEF Stage, CommandSet
  <2> QED
    BY <1>c, <2>1, <2>2, <2>3, OthersOnce DEF OnceOnDisk, LogOnce, Appending
<1>5. CASE PublishHandoffs \/ Finalize \/ SavePending \/ DropJournal \/ Acknowledge
  <2>1. command # Idle /\ command \in CommandSet /\ staged' = staged /\ journal' \in {journal, NoJournal}
    BY <1>1, <1>5 DEF PublishHandoffs, Publishing, Finalize, SavePending, DropJournal, Acknowledge,
                      InPhase
  <2>2. c.phase \in {"published", "save_pending", "drop_journal", "drop_staged", "drop_pending"}
    BY <1>5, <2>1 DEF PublishHandoffs, Finalize, SavePending, DropJournal, Acknowledge, CommandSet
  <2> QED
    BY <1>c, <2>1, <2>2, OthersOnce DEF OnceOnDisk, LogOnce, Appending
<1>6. CASE DropStaged
  <2>1. command # Idle /\ command \in CommandSet /\ staged' = NoResult /\ journal' = journal
    BY <1>1, <1>6 DEF DropStaged, InPhase
  <2>2. c = Idle \/ c.phase = "acknowledge"
    BY <1>6, <2>1 DEF DropStaged, CommandSet
  <2> QED
    BY <1>c, <2>1, <2>2, OthersOnce DEF OnceOnDisk, LogOnce, Appending
<1>7. CASE DropPending \/ Stop \/ (\E m \in manifests : Consume(m)) \/ (\E s \in Sources : Adopt(s))
  <2>1. staged' = staged /\ journal' = journal
    BY <1>7 DEF DropPending, Stop, Consume, Adopt
  <2>2. c = Idle \/ c = command
    BY <1>7 DEF DropPending, Stop, Consume, Adopt
  <2>3. PlansOnce(c)'
    BY <2>1, <2>2, OthersOnce DEF CommandOnce, PlansOnce, Spent
  <2> QED
    BY <1>c, <2>1, <2>3 DEF OnceOnDisk, LogOnce
<1>8. ASSUME NEW item \in Items, StartRegister(item)
      PROVE  OnceOnDisk' /\ CommandOnce'
  <2>1. c = [NewCommand("register", "none", "recover", {}, item) EXCEPT !.at = clock']
        /\ staged' = staged /\ journal' = journal
    BY <1>8 DEF StartRegister, disk
  <2>2. c.phase = "recover"
    BY <2>1 DEF NewCommand
  <2> QED
    BY <1>c, <2>1, <2>2, OthersOnce DEF OnceOnDisk, LogOnce, Appending
<1> QED
  BY <1>2, <1>3, <1>4, <1>5, <1>6, <1>7, <1>8

\* The result of a staged run has every event once.
LEMMA ResultOnce ==
  ASSUME NEW st \in Staged, LogOnce(st.log),
         \A e, f \in Events(ResultOf(st)) : Alike(e, f) => e = f,
         NEW i \in DOMAIN ResultOf(st).events, NEW j \in DOMAIN ResultOf(st).events, i # j,
         NEW e, e = ResultOf(st).events[i].event, NEW f, f = ResultOf(st).events[j].event
  PROVE  /\ e # f
         /\ e.kind = f.kind /\ e.source = f.source /\ e.kind # "citation_rewrite" =>
               e.record.content # f.record.content
<1> PICK wanted : wanted = {g \in Frames(st.log) : KeptAt(g, st.log, st.checkpoint)}
  OBVIOUS
<1> PICK kept : kept = SelectIn(st.log, wanted)
  OBVIOUS
<1>1. st.log \in Seq(FrameSet)
  BY DEF Staged
<1>2. kept \in Seq(FrameSet) /\ \E h : Traces(h, Len(st.log), st.log, wanted, kept)
  BY <1>1, Selection
<1>3. PICK h : Traces(h, Len(st.log), st.log, wanted, kept)
  BY <1>2
<1>4. ResultOf(st).events = kept
  BY DEF ResultOf
<1>5. /\ i \in 1 .. Len(kept) /\ j \in 1 .. Len(kept) /\ Len(kept) \in Nat /\ Len(st.log) \in Nat
      /\ DOMAIN st.log = 1 .. Len(st.log)
  BY <1>1, <1>2, <1>4
<1> PICK p, q : p = kept[i] /\ q = kept[j]
  OBVIOUS
<1>6. /\ p = st.log[h[i]] /\ q = st.log[h[j]] /\ p \in wanted /\ q \in wanted
      /\ h[i] \in 1 .. Len(st.log) /\ h[j] \in 1 .. Len(st.log) /\ h[i] # h[j]
  <2>1. /\ h[i] \in 1 .. Len(st.log) /\ h[j] \in 1 .. Len(st.log)
        /\ p = st.log[h[i]] /\ q = st.log[h[j]] /\ p \in wanted /\ q \in wanted
    BY <1>3, <1>5 DEF Traces
  <2>2. (i < j => h[i] < h[j]) /\ (j < i => h[j] < h[i])
    BY <1>3, <1>5 DEF Traces
  <2>3. (i < j \/ j < i) /\ h[i] \in Nat /\ h[j] \in Nat
    BY <1>5, <2>1
  <2> QED
    BY <2>1, <2>2, <2>3
<1>7. /\ p \in FrameSet /\ q \in FrameSet /\ p.event = e /\ q.event = f
      /\ KeptAt(p, st.log, st.checkpoint) /\ KeptAt(q, st.log, st.checkpoint)
  BY <1>2, <1>4, <1>5, <1>6
<1>8. /\ p.frame = "event" /\ q.frame = "event" /\ e \in EventSet /\ f \in EventSet
  BY <1>7 DEF KeptAt, FrameSet
<1>9. p # q
  BY <1>5, <1>6, <1>8 DEF LogOnce
<1>10. e # f
  <2>1. p = [frame |-> p.frame, event |-> p.event] /\ q = [frame |-> q.frame, event |-> q.event]
    BY <1>7 DEF FrameSet
  <2> QED
    BY <1>7, <1>8, <1>9, <2>1
<1>11. ASSUME e.kind = f.kind, e.source = f.source, e.kind # "citation_rewrite",
              e.record.content = f.record.content
       PROVE  FALSE
  <2>1. CASE e.kind = "new_active_representation"
    <3>1. e \in Events(ResultOf(st)) /\ f \in Events(ResultOf(st))
      BY DEF Events
    <3>2. Alike(e, f)
      BY <1>11, <2>1 DEF Alike, Announces
    <3> QED
      BY <1>10, <3>1, <3>2
  <2>2. CASE e.kind = "handoff_source_id"
    <3>1. e.record = st.checkpoint[e.source] /\ f.record = st.checkpoint[f.source]
      BY <1>7, <1>11, <2>2 DEF KeptAt, ShardCoupled
    <3> QED
      BY <1>8, <1>10, <1>11, <3>1, SameEvent
  <2> QED
    BY <1>8, <1>11, <2>1, <2>2 DEF EventSet
<1> QED
  BY <1>10, <1>11

\* Only finalize adds to the manifests, the result of what is staged.
LEMMA ManifestsOnce ==
  ASSUME AnnouncementInv, AnnouncedOnce', OnceOnDisk, EveryEventOnce, [Next]_vars
  PROVE  EveryEventOnce'
<1>1. CASE Finalize
  <2> PICK m : m = Manifest(journal.command, journal.at, staged.corpus, journal.log)
    OBVIOUS
  <2>1. InPhase("finalize") /\ manifests' = manifests \union {m}
    BY <1>1 DEF Finalize
  <2>2. /\ staged # NoResult /\ journal # NoJournal /\ staged.checkpoint = ledger
    BY <2>1, AtPhase DEF EndSpooled, AnnouncementInv, DeliveryInv
  <2>3. staged \in Staged /\ m = ResultOf(staged)
    BY <2>2, FinalizesStaged DEF AnnouncementInv, DeliveryInv, Spool, SpoolTyped, SpoolAgrees
  <2>4. LogOnce(staged.log) /\ \A e, f \in Events(m) : Alike(e, f) => e = f
    BY <2>1, <2>2 DEF OnceOnDisk, AnnouncedOnce
  <2>5. \A i, j \in DOMAIN m.events :
            LET e == m.events[i].event f == m.events[j].event
            IN i # j =>
                  /\ e # f
                  /\ e.kind = f.kind /\ e.source = f.source /\ e.kind # "citation_rewrite" =>
                        e.record.content # f.record.content
    BY <2>3, <2>4, ResultOnce
  <2> QED
    BY <2>1, <2>5 DEF EveryEventOnce
<1>2. CASE ~Finalize
  <2>1. manifests' = manifests
    BY <1>2, StepKinds, RecallsQuietly
       DEF EmitStep, CommitStep, SaveStep, GuardStep, CheckStep, ClearStep, OpenNew, WriteHeader,
           PublishHandoffs, Stage, SavePending, DropJournal, DropStaged, Acknowledge, DropPending,
           Stop, Consume, Adopt, StartRegister, vars, disk
  <2> QED
    BY <2>1 DEF EveryEventOnce
<1> QED
  BY <1>1, <1>2

\* The inductive invariant: no event is in a journal, or in a result, twice.
OnceInv == AnnouncementInv /\ OnceOnDisk /\ CommandOnce /\ EveryEventOnce

\* There is no event at the start.
LEMMA InitOnce == Init => OnceInv
<1> SUFFICES ASSUME Init
             PROVE  OnceInv
  OBVIOUS
<1>1. AnnouncementInv
  BY InitAnnounces
<1> QED
  BY <1>1 DEF Init, OnceInv, OnceOnDisk, CommandOnce, PlansOnce, EveryEventOnce

\* Every step keeps it.
LEMMA NextOnce ==
  ASSUME OnceInv, [Next]_vars
  PROVE  OnceInv'
<1>1. AnnouncementInv /\ AnnouncementInv'
  BY NextAnnounces DEF OnceInv
<1>2. /\ Inv /\ Inv' /\ CommandHolds /\ DiskConfirms /\ CommandAnnounces /\ OnceOnDisk
      /\ CommandOnce
  BY <1>1 DEF OnceInv, AnnouncementInv, DeliveryInv
<1>3. EveryEventOnce'
  BY <1>1, ManifestsOnce DEF OnceInv, AnnouncementInv, DiskConfirms
<1>4. OnceOnDisk' /\ CommandOnce'
  <2>1. CASE UNCHANGED vars
    BY <1>2, <2>1 DEF vars, disk, OnceOnDisk, LogOnce, CommandOnce, PlansOnce, Spent
  <2>2. CASE EmitStep \/ CommitStep \/ SaveStep \/ GuardStep \/ CheckStep \/ ClearStep
    BY <1>2, <2>2, StepOnce
  <2>3. CASE Recalls
    BY <1>2, <2>3, RecallsOnce
  <2>4. CASE \/ OpenNew \/ WriteHeader \/ PublishHandoffs \/ Stage \/ Finalize \/ SavePending
             \/ DropJournal \/ DropStaged \/ Acknowledge \/ DropPending \/ Stop
             \/ (\E m \in manifests : Consume(m)) \/ (\E s \in Sources : Adopt(s))
             \/ \E item \in Items : StartRegister(item)
    BY <1>2, <2>4, SpoolOnce
  <2> QED
    BY <2>1, <2>2, <2>3, <2>4, StepKinds
<1> QED
  BY <1>1, <1>3, <1>4 DEF OnceInv

\* A result has no event twice, and announces no content and hands over no source
\* twice, for any number of sources, records, extractions and interruptions: a
\* first attempt prepares each event of a source once, a later one finds what its
\* predecessor prepared, and of two announcements of a content one was revoked
\* with the dead extraction and is dropped (_existing_event, reconcile_inventory,
\* recover_stale_extraction, _event_checkpoint_is_current, finalize).
THEOREM EventsOnce == Spec => []EveryEventOnce
<1>1. OnceInv => EveryEventOnce
  BY DEF OnceInv
<1> QED
  BY <1>1, InitOnce, NextOnce, PTL DEF Spec

-----------------------------------------------------------------------------
(* Every active derivation told of.                                        *)

\* An event tells a consumer of a content of a source: that its representation is
\* active, or that the agent has to derive it.
Tells(e, s, b) == e.kind # "citation_rewrite" /\ e.source = s /\ e.record.content = b

\* A result that was taken has told of it.
Told(s, b) == \E m \in taken : \E e \in Events(m) : Tells(e, s, b)

\* A record that consumers have to be told of.
Owes(r) == r.attempt \in {"ok", "needs_agent"}

\* What state and derivation say of the last attempt.
Sound(r) ==
    /\ r.active <=> r.attempt = "ok"
    /\ r.state \in {"extracting", "needs_agent"} => r.attempt = r.state

\* The raw file is the one the record describes.
InPlace(s, r) ==
    raw[s] = [path |-> r.path, bytes |-> r.content] /\ "raw_missing" \notin r.diagnostics

\* The result of the run at hand will tell of the record: it does, or the run keeps
\* the record as it is, and has prepared its announcement or will hand it over.
OnItsWay(s, r) ==
    IF Outstanding # {}
    THEN \E m \in Outstanding : \E e \in Events(m) : Tells(e, s, r.content)
    ELSE /\ journal # NoJournal /\ InPlace(s, r) /\ r.state = r.attempt
         /\ r.attempt = "ok" =>
               Prepared(Event("new_active_representation", s, r)) \in Frames(journal.log)

Safe(s, r) == Sound(r) /\ (Owes(r) => Told(s, r.content) \/ OnItsWay(s, r))

\* What the ledger owes is told or on its way; what is under a guard comes after.
LedgerTells ==
    \A s \in Sources : guard[s] = NoGuard /\ ledger[s] # NoRecord => Safe(s, ledger[s])

\* An activation is rolled back to a record that owes nothing.
GuardTells ==
    \A s \in Sources :
        guard[s] # NoGuard => Sound(guard[s].before) /\ guard[s].before.attempt = "extracting"

\* A step that leaves nothing untold.
SafeStep(step) ==
    /\ step.do \in {"save", "clear"} => Safe(step.source, step.record)
    /\ step.do = "guard" => Sound(step.before) /\ step.before.attempt = "extracting"

SafePlan(plan) == \A i \in 1 .. Len(plan) : SafeStep(plan[i])

\* What a sync has requested or is extracting is still in its place.
InHand(c) ==
    /\ \A request \in c.batch :
          Sound(request.record) /\ InPlace(request.source, request.record)
    /\ \A s \in c.jobs :
          \/ \E i \in 1 .. Len(c.plan) : c.plan[i].do = "save" /\ c.plan[i].source = s
          \/ ledger[s] \in Records /\ InPlace(s, ledger[s])
    /\ \A i \in 1 .. Len(c.plan) :
          c.plan[i].do = "save" /\ c.plan[i].source \in c.jobs =>
              InPlace(c.plan[i].source, c.plan[i].record)

\* The event that hands a waiting source over.
Handed(s) == Event("handoff_source_id", s, ledger[s])

\* Every waiting source is in the journal, or is still to be observed.
HandedOver(c) ==
    \A s \in Sources : NeedsAgent(s) =>
        \/ Prepared(Handed(s)) \in Frames(journal.log)
        \/ /\ c.phase = "observe"
           /\ s \in c.todo \/ \E i \in 1 .. Len(c.plan) : c.plan[i] = Emit(Handed(s))

\* The command's part of the invariant.
CommandTells(c) ==
    c # Idle =>
        /\ \/ SafePlan(c.plan)
           \/ /\ c.phase = "reconcile"
              /\ \E s \in Sources : \E r \in Records :
                    Activating(c, s, r) /\ Sound(r) /\ InPlace(s, r)
        /\ c.phase \in {"header", "hash", "reconcile"} => c.seen = raw
        /\ c.op = "register" => AllAcknowledged
        /\ c.phase = "reconcile" => InHand(c)
        /\ c.phase \in {"observe", "published"} => HandedOver(c)

CommandTellsNow == CommandTells(command)

\* Nobody touches a raw file from the opening of a journal until its run is staged.
Undisturbed == raw' # raw => journal = NoJournal \/ ~Unspooled

\* What is on its way stays so, or arrives: but for the staging of a run.
Growing ==
    /\ taken \subseteq taken'
    /\ IF Outstanding # {}
       THEN Outstanding' = Outstanding \/ Outstanding \subseteq taken'
       ELSE /\ Outstanding' = {}
            /\ journal # NoJournal =>
                  /\ raw' = raw /\ journal' # NoJournal
                  /\ Frames(journal.log) \subseteq Frames(journal'.log)

\* Then nothing is lost.
LEMMA SafeStays ==
  ASSUME Growing, NEW s, NEW r, Safe(s, r)
  PROVE  Safe(s, r)'
<1>1. Told(s, r.content) => Told(s, r.content)'
  BY DEF Growing, Told, Events, Tells
<1>2. ASSUME OnItsWay(s, r), Outstanding # {}
      PROVE  Told(s, r.content)' \/ OnItsWay(s, r)'
  <2>1. PICK m \in Outstanding : \E e \in Events(m) : Tells(e, s, r.content)
    BY <1>2 DEF OnItsWay
  <2>2. m \in Outstanding' \/ m \in taken'
    BY <1>2 DEF Growing
  <2> QED
    BY <2>1, <2>2 DEF Told, OnItsWay, Events, Tells
<1>3. ASSUME OnItsWay(s, r), Outstanding = {}
      PROVE  OnItsWay(s, r)'
  <2>1. /\ journal # NoJournal /\ InPlace(s, r) /\ r.state = r.attempt
        /\ r.attempt = "ok" =>
              Prepared(Event("new_active_representation", s, r)) \in Frames(journal.log)
    BY <1>3 DEF OnItsWay
  <2>2. /\ Outstanding' = {} /\ raw' = raw /\ journal' # NoJournal
        /\ Frames(journal.log) \subseteq Frames(journal'.log)
    BY <1>3, <2>1 DEF Growing
  <2>3. InPlace(s, r)'
    BY <2>1, <2>2 DEF InPlace
  <2> QED
    BY <2>1, <2>2, <2>3 DEF OnItsWay, Prepared, Event
<1> QED
  BY <1>1, <1>2, <1>3 DEF Safe

\* Nothing is outstanding when neither a result nor a staged run is.
LEMMA NothingOutstanding ==
  Outstanding = {} <=> Unspooled
BY DEF Outstanding, Unspooled

\* Every step but staging lets what is on its way go on.
LEMMA NextGrows ==
  ASSUME DeliveryInv, DeliveryInv', Next, ~Stage, Undisturbed
  PROVE  Growing
<1>i. Inv /\ Inv' /\ Spool /\ CommandHolds
  BY DEF DeliveryInv
<1>0. Outstanding = {} <=> Unspooled
  BY NothingOutstanding
<1>1. ASSUME UNCHANGED <<pending, staged>>, taken' = taken,
             Unspooled /\ journal # NoJournal =>
                 /\ raw' = raw /\ journal' # NoJournal
                 /\ Frames(journal.log) \subseteq Frames(journal'.log)
      PROVE  Growing
  <2>1. Outstanding' = Outstanding
    BY <1>1 DEF Outstanding, ResultOf, KeptAt
  <2> QED
    BY <1>0, <1>1, <2>1 DEF Growing
<1>2. CASE EmitStep \/ CommitStep \/ SaveStep \/ GuardStep \/ CheckStep \/ ClearStep
  <2> PICK step : step = Head(command.plan)
    OBVIOUS
  <2>1. UNCHANGED <<raw, pending, staged, taken>>
    BY <1>i, <1>2, PlanStepEffects
  <2>2. \/ journal' = journal
        \/ /\ journal # NoJournal /\ journal' # NoJournal
           /\ Frames(journal.log) \subseteq Frames(journal'.log)
    BY <1>i, <1>2, StepTaken
  <2> QED
    BY <1>1, <2>1, <2>2
<1>3. CASE Recalls
  <2>1. UNCHANGED <<pending, staged, taken, journal>>
    BY <1>3, RecallsQuietly DEF disk, history
  <2> QED
    BY <1>1, <2>1 DEF Undisturbed
<1>4. CASE OpenNew
  BY <1>1, <1>4 DEF OpenNew, history
<1>5. CASE WriteHeader
  <2>1. /\ UNCHANGED <<pending, staged, taken, raw>>
        /\ journal' = [journal EXCEPT !.header = TRUE] /\ InPhase("header")
    BY <1>5 DEF WriteHeader, history
  <2>2. journal \in Journals
    BY <1>i, <2>1, AtPhase DEF Working
  <2>3. journal' \in Journals /\ journal'.log = journal.log
    BY <2>1, <2>2 DEF Journals
  <2> QED
    BY <1>1, <2>1, <2>3, NoJournalIsNone
<1>6. CASE \/ PublishHandoffs \/ Finalize \/ Acknowledge \/ Stop
           \/ (\E m \in manifests : Consume(m)) \/ (\E s \in Sources : Adopt(s))
           \/ \E item \in Items : StartRegister(item)
  <2>1. UNCHANGED <<pending, staged, taken, raw, journal>>
    BY <1>6 DEF PublishHandoffs, Finalize, Acknowledge, Stop, Consume, Adopt, StartRegister,
                disk, history
  <2> QED
    BY <1>1, <2>1
<1>7. CASE SavePending
  <2>1. /\ InPhase("save_pending") /\ pending' = command.target /\ UNCHANGED <<staged, taken>>
    BY <1>7 DEF SavePending, history
  <2>2. pending = NoResult /\ staged # NoResult /\ pending' = ResultOf(staged)
    BY <1>i, <2>1, AtPhase DEF EndSpooled
  <2>3. pending' \in Results /\ pending' # NoResult
    BY <2>2, ResultsOfStaged, NoResultIsNone DEF Spool, SpoolTyped, DeliveryInv
  <2>4. Outstanding = {ResultOf(staged)} /\ Outstanding' = {ResultOf(staged)}
    BY <2>2, <2>3 DEF Outstanding
  <2> QED
    BY <2>1, <2>4 DEF Growing
<1>8. CASE DropJournal
  <2>1. /\ InPhase("drop_journal") /\ MayComplete(command.target)
        /\ UNCHANGED <<pending, staged, taken>>
    BY <1>8 DEF DropJournal, history
  <2>2. pending # NoResult
    BY <1>i, <2>1, CompletesPending
  <2> QED
    BY <1>1, <2>1, <2>2 DEF Unspooled
<1>9. CASE DropStaged
  <2>1. /\ InPhase("drop_staged") /\ UNCHANGED <<pending, taken>>
    BY <1>9 DEF DropStaged, history
  <2>2. pending # NoResult
    BY <1>i, <2>1, AtPhase, NoResultIsNone DEF EndSpooled, Spool, SpoolTyped
  <2>3. Outstanding = {pending} /\ Outstanding' = {pending}
    BY <2>1, <2>2 DEF Outstanding
  <2> QED
    BY <2>1, <2>3 DEF Growing
<1>10. CASE DropPending
  <2>1. pending # NoResult /\ taken' = taken \union {pending}
    BY <1>i, <1>10, DropPendingSpools
  <2>2. Outstanding = {pending}
    BY <2>1 DEF Outstanding
  <2> QED
    BY <2>1, <2>2 DEF Growing
<1> QED
  BY <1>2, <1>3, <1>4, <1>5, <1>6, <1>7, <1>8, <1>9, <1>10, StepKinds

\* A change of a record that leaves its attempt and content alone.
Passes(r, n) == n.attempt = r.attempt /\ n.content = r.content /\ (Sound(r) => Sound(n))

\* The functions on records do, but those that make an attempt.
LEMMA FunctionsPass ==
  ASSUME NEW r \in Records, NEW now, NEW bytes, NEW f
  PROVE  /\ Passes(r, r) /\ Passes(r, RecoverStale(r, now))
         /\ Passes(r, MarkIntegrityError(r, bytes, now)) /\ Passes(r, MarkMissing(r, now))
         /\ Passes(r, RefreshMatchingBytes(r, now)) /\ Passes(r, RenameRecord(r, f, now))
<1>1. Passes(r, r) /\ Passes(r, RecoverStale(r, now))
  BY DEF Passes, Sound, RecoverStale, Records
<1>2. Passes(r, MarkIntegrityError(r, bytes, now)) /\ Passes(r, MarkMissing(r, now))
  BY DEF Passes, Sound, MarkIntegrityError, MarkMissing, Records
<1>3. Passes(r, RefreshMatchingBytes(r, now))
  BY DEF Passes, Sound, RefreshMatchingBytes, RestoredState, Records
<1>4. Passes(r, RenameRecord(r, f, now))
  BY DEF Passes, Sound, RenameRecord, Records
<1> QED
  BY <1>1, <1>2, <1>3, <1>4

\* One such change after the other is one.
LEMMA PassesOn ==
  ASSUME NEW r, NEW n, NEW m, Passes(r, n), Passes(n, m)
  PROVE  Passes(r, m)
BY DEF Passes

\* A record that owes nothing, or has been told of, may change so.
LEMMA SafePasses ==
  ASSUME NEW s, NEW r, NEW n, Safe(s, r), Passes(r, n), ~Owes(r) \/ Told(s, r.content)
  PROVE  Safe(s, n)
BY DEF Passes, Safe, Owes

\* A new attempt owes nothing; nor does a version that was adopted, a record before
\* its first attempt, or the one that an activation is rolled back to.
LEMMA NothingOwed ==
  ASSUME NEW s, NEW r \in Records, NEW now, NEW f
  PROVE  /\ ~r.active => Safe(s, ExtractingRecord(r, now)) /\ Sound(ExtractingRecord(r, now))
         /\ Safe(s, AdoptVersion(r, f, now)) /\ Safe(s, NewRecord(f, now))
         /\ Sound(NewRecord(f, now))
         /\ Sound(r) /\ r.attempt = "extracting" => Safe(s, Rollback(r))
<1>1. ~r.active => Safe(s, ExtractingRecord(r, now)) /\ Sound(ExtractingRecord(r, now))
  BY DEF Safe, Sound, Owes, ExtractingRecord, Records
<1>2. Safe(s, AdoptVersion(r, f, now))
  BY DEF Safe, Sound, Owes, AdoptVersion, Records
<1>3. Safe(s, NewRecord(f, now)) /\ Sound(NewRecord(f, now))
  BY DEF Safe, Sound, Owes, NewRecord
<1>4. Sound(r) /\ r.attempt = "extracting" => Safe(s, Rollback(r))
  BY DEF Safe, Sound, Owes, Rollback, Records
<1> QED
  BY <1>1, <1>2, <1>3, <1>4

\* Two safe plans make one.
LEMMA SafeConcat ==
  ASSUME NEW p \in Seq(Steps), NEW q \in Seq(Steps), SafePlan(p), SafePlan(q)
  PROVE  p \o q \in Seq(Steps) /\ SafePlan(p \o q)
<1>1. p \o q \in Seq(Steps) /\ Len(p \o q) = Len(p) + Len(q) /\ Len(p) \in Nat /\ Len(q) \in Nat
      /\ (\A i \in 1 .. Len(p) : (p \o q)[i] = p[i])
      /\ \A i \in 1 .. Len(q) : (p \o q)[Len(p) + i] = q[i]
  BY ConcatSteps
<1> PICK plan : plan = p \o q
  OBVIOUS
<1>2. ASSUME NEW i \in 1 .. Len(plan)
      PROVE  SafeStep(plan[i])
  <2>1. CASE i \in 1 .. Len(p)
    <3>1. plan[i] = p[i] /\ SafeStep(p[i])
      BY <1>1, <2>1 DEF SafePlan
    <3> QED
      BY <3>1
  <2>2. CASE i \notin 1 .. Len(p)
    <3>1. i - Len(p) \in 1 .. Len(q) /\ i = Len(p) + (i - Len(p))
      BY <1>1, <2>2
    <3>2. plan[i] = q[i - Len(p)] /\ SafeStep(q[i - Len(p)])
      BY <1>1, <3>1 DEF SafePlan
    <3> QED
      BY <3>2
  <2> QED
    BY <2>1, <2>2
<1> QED
  BY <1>1, <1>2 DEF SafePlan

\* The plans of one step.
LEMMA SafeSteps ==
  ASSUME NEW s \in Sources, NEW r \in Records
  PROVE  /\ <<>> \in Seq(Steps) /\ SafePlan(<<>>)
         /\ <<Check(s)>> \in Seq(Steps) /\ SafePlan(<<Check(s)>>)
         /\ <<Save(s, r)>> \in Seq(Steps) /\ (Safe(s, r) => SafePlan(<<Save(s, r)>>))
         /\ \A e \in EventSet : /\ <<Emit(e)>> \in Seq(Steps) /\ SafePlan(<<Emit(e)>>)
                                /\ <<Commit(e)>> \in Seq(Steps) /\ SafePlan(<<Commit(e)>>)
<1>1. \A step \in Steps : /\ <<step>> \in Seq(Steps) /\ Len(<<step>>) = 1 /\ <<step>>[1] = step
  OBVIOUS
<1>2. \A step \in Steps : SafeStep(step) => SafePlan(<<step>>)
  BY <1>1 DEF SafePlan
<1>3. <<>> \in Seq(Steps) /\ SafePlan(<<>>)
  BY DEF SafePlan
<1>4. Check(s) \in Steps /\ SafeStep(Check(s))
  BY DEF Check, Steps, SafeStep
<1>5. Save(s, r) \in Steps /\ (Safe(s, r) => SafeStep(Save(s, r)))
  BY DEF Save, Steps, SafeStep
<1>6. ASSUME NEW e \in EventSet
      PROVE  Emit(e) \in Steps /\ SafeStep(Emit(e)) /\ Commit(e) \in Steps /\ SafeStep(Commit(e))
  BY DEF Emit, Commit, Steps, SafeStep
<1> QED
  BY <1>1, <1>2, <1>3, <1>4, <1>5, <1>6

\* Publishing a safe record; a new one is among what is saved.
LEMMA SafePublish ==
  ASSUME NEW s \in Sources, NEW records, NEW r \in Records, r \in records,
         NEW rewrites \in BOOLEAN, Safe(s, r)
  PROVE  /\ Publish(s, r, rewrites) \in Seq(Steps) /\ SafePlan(Publish(s, r, rewrites))
         /\ SavesOnly(Publish(s, r, rewrites), s, records)
<1> PICK e : e = Event("citation_rewrite", s, r)
  OBVIOUS
<1> PICK emit, save, commit : emit = Emit(e) /\ save = Save(s, r) /\ commit = Commit(e)
  OBVIOUS
<1>1. /\ emit.do = "emit" /\ commit.do = "commit" /\ e \in EventSet
      /\ save.do = "save" /\ save.source = s /\ save.record = r
  BY DEF Emit, Commit, Save, Event, EventSet
<1>2. emit \in Steps /\ save \in Steps /\ commit \in Steps
  BY <1>1 DEF Emit, Commit, Save, Steps
<1>3. SafeStep(emit) /\ SafeStep(save) /\ SafeStep(commit)
  BY <1>1 DEF SafeStep
<1>4. CASE rewrites
  <2>1. Publish(s, r, rewrites) = <<emit, save, commit>>
    BY <1>4 DEF Publish
  <2> PICK p : p = <<emit, save, commit>>
    OBVIOUS
  <2>2. /\ p \in Seq(Steps) /\ Len(p) = 3 /\ p[1] = emit /\ p[2] = save /\ p[3] = commit
        /\ \A i \in 1 .. 3 : i = 1 \/ i = 2 \/ i = 3
    BY <1>2
  <2> QED
    BY <1>1, <1>3, <2>1, <2>2 DEF SafePlan, SavesOnly
<1>5. CASE ~rewrites
  <2>1. Publish(s, r, rewrites) = <<save>>
    BY <1>5 DEF Publish
  <2>2. /\ <<save>> \in Seq(Steps) /\ Len(<<save>>) = 1 /\ <<save>>[1] = save
        /\ \A i \in 1 .. 1 : i = 1
    BY <1>2
  <2> QED
    BY <1>1, <1>3, <2>1, <2>2 DEF SafePlan, SavesOnly
<1> QED
  BY <1>4, <1>5

\* The plan of a restoration.
LEMMA RestoreSafe ==
  ASSUME Inv, GuardTells, NEW s \in Sources, guard[s] # NoGuard
  PROVE  SafePlan(Restore(s))
<1> PICK r : r = Rollback(guard[s].before)
  OBVIOUS
<1>1. Safe(s, r)
  <2>1. guard[s].before \in Records
    BY DEF Inv, Typed, Guards
  <2> QED
    BY <2>1, NothingOwed DEF GuardTells
<1> PICK save, clear : save = Save(s, r) /\ clear = Clear(s, r)
  OBVIOUS
<1>2. SafeStep(save) /\ SafeStep(clear)
  BY <1>1 DEF SafeStep, Save, Clear
<1>3. /\ Len(<<save, clear>>) = 2 /\ <<save, clear>>[1] = save /\ <<save, clear>>[2] = clear
      /\ \A i \in 1 .. 2 : i = 1 \/ i = 2
  OBVIOUS
<1> QED
  BY <1>2, <1>3 DEF Restore, SafePlan

\* The ledger's record is the record it holds.
LEMMA LedgerSafe ==
  ASSUME NEW s, NEW n, ledger'[s] = n, Safe(s, n)'
  PROVE  Safe(s, ledger[s])'
BY DEF Safe, Sound, Owes, Told, Tells, OnItsWay, InPlace, Event, Prepared

\* A step that is safe, or saves under a guard, leaves nothing in the ledger untold.
LEMMA SafeStepTells ==
  ASSUME Inv, LedgerTells, GuardTells, Growing, NEW step \in Steps, Effect(step),
         SafeStep(step) \/ (step.do = "save" /\ guard[step.source] # NoGuard)
  PROVE  LedgerTells' /\ GuardTells'
<1>1. /\ ledger \in [Sources -> Records \union {NoRecord}]
      /\ guard \in [Sources -> Guards \union {NoGuard}]
  BY DEF Inv, Typed
<1>2. ASSUME NEW s \in Sources
      PROVE  /\ guard'[s] = NoGuard /\ ledger'[s] # NoRecord => Safe(s, ledger[s])'
             /\ guard'[s] # NoGuard =>
                   Sound(guard[s].before)' /\ guard'[s].before.attempt = "extracting"
  <2> PICK n : n = ledger'[s]
    OBVIOUS
  <2>1. CASE step.do = "save" /\ step.source = s
    <3>1. n = step.record /\ guard' = guard
      BY <1>1, <2>1, StepFields DEF Effect
    <3>2. guard[s] = NoGuard => Safe(s, n)
      BY <2>1, <3>1 DEF SafeStep
    <3>3. guard[s] = NoGuard => Safe(s, ledger[s])'
      BY <3>2, SafeStays, LedgerSafe
    <3> QED
      BY <3>1, <3>3 DEF GuardTells, Sound
  <2>2. CASE step.do = "clear" /\ step.source = s
    <3>1. /\ n = step.record /\ guard'[s] = NoGuard
      BY <1>1, <2>2, StepFields DEF Effect
    <3>2. Safe(s, n)
      BY <2>2, <3>1 DEF SafeStep
    <3>3. Safe(s, ledger[s])'
      BY <3>2, SafeStays, LedgerSafe
    <3> QED
      BY <3>1, <3>3
  <2>3. CASE step.do = "guard" /\ step.source = s
    <3>1. guard'[s] = [before |-> step.before, after |-> step.after]
      BY <1>1, <2>3, StepFields DEF Effect
    <3>2. guard'[s] # NoGuard /\ guard'[s].before = step.before
      BY <2>3, <3>1, StepFields, NoGuardIsNone
    <3>3. Sound(step.before) /\ step.before.attempt = "extracting"
      BY <2>3 DEF SafeStep
    <3> QED
      BY <3>2, <3>3 DEF Sound
  <2>4. CASE ~(step.do \in {"save", "clear", "guard"} /\ step.source = s)
    <3>1. ledger'[s] = ledger[s] /\ guard'[s] = guard[s]
      BY <1>1, <2>4, StepFields DEF Effect
    <3>2. guard[s] = NoGuard /\ n # NoRecord => Safe(s, n)
      BY <3>1 DEF LedgerTells
    <3>3. guard[s] = NoGuard /\ n # NoRecord => Safe(s, ledger[s])'
      BY <3>2, SafeStays, LedgerSafe
    <3> QED
      BY <3>1, <3>3 DEF GuardTells, Sound
  <2> QED
    BY <2>1, <2>2, <2>3, <2>4
<1> QED
  BY <1>2 DEF LedgerTells, GuardTells

\* The steps of an activation are such steps: when its guard is cleared, the
\* announcement is in the journal.
LEMMA ActivatingSafe ==
  ASSUME NEW c, NEW s \in Sources, NEW r \in Records, Activating(c, s, r), Sound(r),
         InPlace(s, r), NEW step, step = Head(c.plan), Outstanding = {}, journal # NoJournal,
         PlanSpooled(c.plan, c.at)
  PROVE  /\ c.plan \in Seq(Steps) /\ c.plan # <<>>
         /\ SafeStep(step) \/ (step.do = "save" /\ guard[step.source] # NoGuard)
<1> PICK final : final = Activated(r)
  OBVIOUS
<1> PICK e : e = Event("new_active_representation", s, final)
  OBVIOUS
<1> PICK check, emit, gd, save, clear, commit :
       /\ check = Check(s) /\ emit = Emit(e) /\ gd = Guard(s, r, final) /\ save = Save(s, final)
       /\ clear = Clear(s, final) /\ commit = Commit(e)
  OBVIOUS
<1>1. /\ final \in Records /\ check \in Steps /\ emit \in Steps /\ gd \in Steps
      /\ save \in Steps /\ clear \in Steps /\ commit \in Steps
  BY ActivationLaid
<1>2. /\ check.do = "check" /\ emit.do = "emit"
      /\ gd.do = "guard" /\ gd.before = r
      /\ save.do = "save" /\ save.source = s
      /\ clear.do = "clear" /\ clear.source = s /\ clear.record = final
      /\ commit.do = "commit" /\ commit.event = e
  BY DEF Check, Emit, Guard, Save, Clear, Commit, Event
<1>3. r.attempt = "extracting" /\ r.state = "extracting"
  BY DEF Activating, Sound
<1>4. SafeStep(check) /\ SafeStep(emit) /\ SafeStep(commit) /\ SafeStep(gd)
  BY <1>2, <1>3 DEF SafeStep
<1>5. CASE c.plan = <<check, emit, gd, save, check, clear, commit>>
  BY <1>1, <1>4, <1>5, TailOfPlans
<1>6. CASE c.plan = <<emit, gd, save, check, clear, commit>>
  BY <1>1, <1>4, <1>6, TailOfPlans
<1>7. CASE c.plan = <<gd, save, check, clear, commit>>
  BY <1>1, <1>4, <1>7, TailOfPlans
<1>8. CASE guard[s] # NoGuard /\ c.plan = <<save, check, clear, commit>>
  BY <1>1, <1>2, <1>8, TailOfPlans
<1>9. CASE c.plan = <<check, clear, commit>>
  BY <1>1, <1>4, <1>9, TailOfPlans
<1>10. CASE c.plan = <<clear, commit>>
  <2> PICK plan : plan = c.plan
    OBVIOUS
  <2>1. /\ step = clear /\ plan \in Seq(Steps) /\ plan # <<>> /\ Len(plan) = 2
        /\ plan[1] = clear /\ plan[2] = commit /\ 2 \in 1 .. 2
        /\ \A j \in 1 .. 2 - 1 : j = 1
    BY <1>1, <1>10, TailOfPlans
  <2>2. StepSpooled(plan, 2, c.at)
    BY <2>1 DEF PlanSpooled
  <2>3. Prepared(e) \in Frames(journal.log)
    BY <1>2, <2>1, <2>2 DEF StepSpooled
  <2>4. /\ Sound(final) /\ final.state = "ok" /\ final.attempt = "ok"
        /\ final.path = r.path /\ final.content = r.content /\ final.diagnostics = r.diagnostics
    BY DEF Sound, Activated, Records
  <2>5. InPlace(s, final)
    BY <2>4 DEF InPlace
  <2>6. Safe(s, final)
    BY <2>3, <2>4, <2>5 DEF Safe, OnItsWay
  <2> QED
    BY <1>2, <2>1, <2>6 DEF SafeStep
<1>11. CASE c.plan = <<commit>>
  BY <1>1, <1>4, <1>11, TailOfPlans
<1> QED
  BY <1>5, <1>6, <1>7, <1>8, <1>9, <1>10, <1>11 DEF Activating, ActivatingBy

-----------------------------------------------------------------------------
(* A durable step tells.                                                   *)

\* The rest of a plan is as safe as the plan.
LEMMA SafeAdvances ==
  ASSUME NEW plan \in Seq(Steps), plan # <<>>, NEW q, q = Tail(plan), SafePlan(plan), Growing
  PROVE  SafePlan(q)'
<1>1. /\ Len(plan) \in Nat /\ Len(plan) >= 1
      /\ Len(q) = Len(plan) - 1 /\ \A i \in 1 .. Len(q) : q[i] = plan[i + 1]
  BY RestOfPlan
<1>2. ASSUME NEW i \in 1 .. Len(q)
      PROVE  SafeStep(q[i])'
  <2> PICK step : step = q[i]
    OBVIOUS
  <2>1. i + 1 \in 1 .. Len(plan) /\ step = plan[i + 1]
    BY <1>1
  <2>2. SafeStep(step)
    BY <2>1 DEF SafePlan
  <2>3. Safe(step.source, step.record) => Safe(step.source, step.record)'
    BY SafeStays
  <2>4. SafeStep(step)'
    BY <2>2, <2>3 DEF SafeStep, Sound
  <2> QED
    BY <2>4
<1> QED
  BY <1>2 DEF SafePlan

\* What is in hand stays there while a plan is carried out.
LEMMA InHandAdvances ==
  ASSUME NEW c, InHand(c), NEW plan \in Seq(Steps), plan = c.plan, plan # <<>>,
         NEW d, d.plan = Tail(plan), d.batch = c.batch, d.jobs = c.jobs,
         ledger \in [Sources -> Records \union {NoRecord}], Effect(plan[1]), raw' = raw,
         c.jobs \subseteq Sources
  PROVE  InHand(d)'
<1> PICK q : q = Tail(plan)
  OBVIOUS
<1>0. \A s, r : InPlace(s, r) => InPlace(s, r)'
  BY DEF InPlace
<1>1. /\ Len(plan) \in Nat /\ Len(plan) >= 1 /\ \A i \in 1 .. Len(plan) : plan[i] \in Steps
      /\ Len(q) = Len(plan) - 1 /\ \A i \in 1 .. Len(q) : q[i] = plan[i + 1]
  BY RestOfPlan
<1>2. ASSUME NEW request \in d.batch
      PROVE  Sound(request.record) /\ InPlace(request.source, request.record)'
  BY <1>0, <1>2 DEF InHand
<1>3. ASSUME NEW i \in 1 .. Len(q), q[i].do = "save", q[i].source \in d.jobs
      PROVE  InPlace(q[i].source, q[i].record)'
  <2>1. i + 1 \in 1 .. Len(plan) /\ q[i] = plan[i + 1]
    BY <1>1
  <2>2. InPlace(plan[i + 1].source, plan[i + 1].record)
    BY <1>3, <2>1 DEF InHand
  <2> QED
    BY <1>0, <2>1, <2>2
<1>4. ASSUME NEW s \in d.jobs
      PROVE  \/ \E i \in 1 .. Len(q) : q[i].do = "save" /\ q[i].source = s
             \/ ledger'[s] \in Records /\ InPlace(s, ledger[s])'
  <2>1. 1 \in 1 .. Len(plan) /\ plan[1] \in Steps /\ s \in Sources
    BY <1>1
  <2>2. CASE plan[1].do = "save" /\ plan[1].source = s
    <3>1. ledger'[s] = plan[1].record /\ plan[1].record \in Records
      BY <2>1, <2>2, StepFields DEF Effect
    <3>2. InPlace(s, plan[1].record)
      BY <2>1, <2>2 DEF InHand
    <3> QED
      BY <3>1, <3>2 DEF InPlace
  <2>3. CASE ~(plan[1].do = "save" /\ plan[1].source = s)
    <3>1. ledger'[s] = ledger[s]
      BY <2>1, <2>3, StepFields DEF Effect
    <3>2. CASE \E i \in 1 .. Len(plan) : plan[i].do = "save" /\ plan[i].source = s
      <4>1. PICK i \in 1 .. Len(plan) : plan[i].do = "save" /\ plan[i].source = s
        BY <3>2
      <4>2. i # 1
        BY <2>3, <4>1
      <4>3. i - 1 \in 1 .. Len(q) /\ q[i - 1] = plan[i]
        BY <1>1, <4>2
      <4> QED
        BY <4>1, <4>3
    <3>3. CASE ledger[s] \in Records /\ InPlace(s, ledger[s])
      BY <3>1, <3>3 DEF InPlace
    <3> QED
      BY <1>4, <3>2, <3>3 DEF InHand
  <2> QED
    BY <2>2, <2>3
<1>5. \A request \in d.batch :
          Sound(request.record) /\ InPlace(request.source, request.record)'
  BY <1>2
<1>6. /\ d.plan = q
      /\ \A s \in d.jobs : \/ \E i \in 1 .. Len(q) : q[i].do = "save" /\ q[i].source = s
                           \/ ledger'[s] \in Records /\ InPlace(s, ledger[s])'
      /\ \A i \in 1 .. Len(q) : q[i].do = "save" /\ q[i].source \in d.jobs =>
             InPlace(q[i].source, q[i].record)'
  BY <1>3, <1>4
<1>7. \A s \in d.jobs :
          \/ \E i \in 1 .. Len(d.plan) : d.plan[i].do = "save" /\ d.plan[i].source = s
          \/ ledger'[s] \in Records /\ InPlace(s, ledger[s])'
  BY <1>6
<1>8. \A i \in 1 .. Len(d.plan) :
          d.plan[i].do = "save" /\ d.plan[i].source \in d.jobs =>
              InPlace(d.plan[i].source, d.plan[i].record)'
  BY <1>6
<1> QED
  BY <1>5, <1>7, <1>8 DEF InHand, Sound, InPlace

\* A waiting source that is observed is in the journal.
LEMMA HandedAdvances ==
  ASSUME NEW c, HandedOver(c), NEW plan \in Seq(Steps), plan = c.plan, plan # <<>>,
         NEW d, d.plan = Tail(plan), d.phase = c.phase, d.todo = c.todo, ledger' = ledger,
         Frames(journal.log) \subseteq Frames(journal'.log),
         plan[1].do = "emit" => Prepared(plan[1].event) \in Frames(journal'.log)
  PROVE  HandedOver(d)'
<1> PICK q : q = Tail(plan)
  OBVIOUS
<1>1. /\ Len(plan) \in Nat /\ Len(plan) >= 1 /\ \A i \in 1 .. Len(plan) : plan[i] \in Steps
      /\ Len(q) = Len(plan) - 1 /\ \A i \in 1 .. Len(q) : q[i] = plan[i + 1]
  BY RestOfPlan
<1>2. ASSUME NEW s \in Sources, NeedsAgent(s)
      PROVE  \/ Prepared(Handed(s)) \in Frames(journal'.log)
             \/ /\ c.phase = "observe"
                /\ s \in c.todo \/ \E i \in 1 .. Len(q) : q[i] = Emit(Handed(s))
  <2>1. CASE Prepared(Handed(s)) \in Frames(journal.log) \/ (c.phase = "observe" /\ s \in c.todo)
    BY <2>1
  <2>2. ASSUME c.phase = "observe", NEW i \in 1 .. Len(plan), plan[i] = Emit(Handed(s))
        PROVE  \/ Prepared(Handed(s)) \in Frames(journal'.log)
               \/ \E k \in 1 .. Len(q) : q[k] = Emit(Handed(s))
    <3>1. CASE i = 1
      BY <2>2, <3>1 DEF Emit
    <3>2. CASE i # 1
      <4>1. i - 1 \in 1 .. Len(q) /\ q[i - 1] = plan[i]
        BY <1>1, <3>2
      <4> QED
        BY <2>2, <4>1
    <3> QED
      BY <3>1, <3>2
  <2> QED
    BY <1>2, <2>1, <2>2 DEF HandedOver
<1> QED
  BY <1>2 DEF HandedOver, NeedsAgent, Handed, Event, Prepared, Emit

\* A durable step of a command leaves nothing untold.
LEMMA StepTells ==
  ASSUME AnnouncementInv, AnnouncementInv', LedgerTells, GuardTells, CommandTellsNow, Growing,
         EmitStep \/ CommitStep \/ SaveStep \/ GuardStep \/ CheckStep \/ ClearStep
  PROVE  LedgerTells' /\ GuardTells' /\ CommandTellsNow'
<1>i. /\ Inv /\ Inv' /\ Spool /\ CommandHolds /\ DiskConfirms /\ CommandAnnounces
      /\ CommandTells(command)
  BY DEF AnnouncementInv, DeliveryInv, CommandTellsNow
<1> PICK step : step = Head(command.plan)
  OBVIOUS
<1> PICK c : c = [command EXCEPT !.plan = Tail(@)]
  OBVIOUS
<1> PICK plan : plan = command.plan
  OBVIOUS
<1>1. /\ command # Idle /\ plan # <<>> /\ command' \in {c, Idle} /\ step \in Steps
      /\ step = plan[1] /\ command \in CommandSet /\ plan \in Seq(Steps)
      /\ Effect(step) /\ UNCHANGED <<staged, manifests>>
  BY <1>i, StepTaken DEF Advance
<1>2. \/ step.do \notin {"emit", "commit"} /\ journal' = journal
      \/ /\ step.do \in {"emit", "commit"}
         /\ journal # NoJournal /\ journal' # NoJournal
         /\ \E frame : /\ frame.event = step.event
                       /\ frame.frame = IF step.do = "emit" THEN "event" ELSE "commit"
                       /\ Frames(journal'.log) = Frames(journal.log) \union {frame}
  BY <1>i, StepTaken
<1>3. /\ UNCHANGED <<raw, pending>>
      /\ command.phase \in Working =>
            /\ Frames(journal.log) \subseteq Frames(journal'.log)
            /\ step.do = "emit" => Prepared(step.event) \in Frames(journal'.log)
  BY <1>i, PlanStepEffects
<1>4. /\ command.phase \in {"recover", "reconcile", "observe", "finish", "failing"}
      /\ step.do \in {"emit", "commit"} => command.phase \in {"reconcile", "observe"}
      /\ command.phase \in Working =>
            pending = NoResult /\ staged = NoResult /\ journal # NoJournal
  BY <1>i, <1>1, NextStep
<1>5. /\ c.plan = Tail(plan) /\ c.phase = command.phase /\ c.batch = command.batch
      /\ c.jobs = command.jobs /\ c.todo = command.todo /\ command.jobs \subseteq Sources
      /\ c.seen = command.seen /\ c.op = command.op
      /\ ledger \in [Sources -> Records \union {NoRecord}]
  BY <1>1, <1>i DEF CommandSet, Inv, Typed
<1>6. c.op = "register" => AllAcknowledged'
  <2>1. c.op = "register" => step.do \notin {"emit", "commit"}
    BY <1>1, <1>4, <1>5, <1>i DEF Working, Inv, PhaseHolds, PhaseOf
  <2> QED
    BY <1>1, <1>2, <1>3, <1>5, <2>1, <1>i DEF CommandTells, AllAcknowledged
<1>7. c.phase = "reconcile" => InHand(c)'
  <2>1. command.phase = "reconcile" => InHand(command)
    BY <1>1, <1>i DEF CommandTells
  <2> QED
    BY <1>1, <1>3, <1>5, <2>1, InHandAdvances
<1>8. c.phase = "observe" => HandedOver(c)'
  <2>1. command.phase = "observe" => HandedOver(command)
    BY <1>1, <1>i DEF CommandTells
  <2>2. command.phase = "observe" => step.do = "emit"
    <3>1. 1 \in 1 .. Len(plan)
      BY <1>1, RestOfPlan
    <3> QED
      BY <1>1, <1>i, <3>1 DEF CommandHolds, CommandSpooled, WorkSpooled, Working
  <2>3. command.phase = "observe" => ledger' = ledger
    BY <1>1, <2>2 DEF Effect
  <2> QED
    BY <1>1, <1>3, <1>5, <2>1, <2>3, HandedAdvances DEF Working
<1>c. ASSUME \/ SafePlan(c.plan)'
             \/ /\ c.phase = "reconcile"
                /\ \E s \in Sources : \E r \in Records :
                      Activating(c, s, r)' /\ Sound(r) /\ InPlace(s, r)'
      PROVE  CommandTellsNow'
  <2>1. c.phase \in {"header", "hash", "reconcile"} => c.seen = raw'
    BY <1>1, <1>3, <1>5, <1>i DEF CommandTells
  <2>2. CommandTells(c)'
    BY <1>c, <1>4, <1>5, <1>6, <1>7, <1>8, <2>1 DEF CommandTells, Sound
  <2>3. CommandTells(Idle)'
    BY DEF CommandTells
  <2> QED
    BY <1>1, <2>2, <2>3 DEF CommandTellsNow
<1>9. CASE SafePlan(plan)
  <2>1. SafeStep(step)
    <3>1. 1 \in 1 .. Len(plan)
      BY <1>1, RestOfPlan
    <3> QED
      BY <1>1, <1>9, <3>1 DEF SafePlan
  <2>2. LedgerTells' /\ GuardTells'
    BY <1>1, <1>i, <2>1, SafeStepTells
  <2>3. SafePlan(c.plan)'
    BY <1>1, <1>5, <1>9, SafeAdvances
  <2> QED
    BY <1>c, <2>2, <2>3
<1>10. ASSUME command.phase = "reconcile", NEW s \in Sources, NEW r \in Records,
              Activating(command, s, r), Sound(r), InPlace(s, r)
       PROVE  LedgerTells' /\ GuardTells' /\ CommandTellsNow'
  <2> PICK k : k = command
    OBVIOUS
  <2>1. /\ Activating(k, s, r) /\ step = Head(k.plan) /\ c.plan = Tail(k.plan)
        /\ c.batch = k.batch /\ c.jobs = k.jobs
    BY <1>5, <1>10
  <2>2. Outstanding = {} /\ journal # NoJournal /\ PlanSpooled(k.plan, k.at)
    BY <1>1, <1>4, <1>10, <1>i DEF Working, Outstanding, CommandHolds, CommandSpooled, WorkSpooled
  <2>3. SafeStep(step) \/ (step.do = "save" /\ guard[step.source] # NoGuard)
    BY <1>10, <2>1, <2>2, ActivatingSafe
  <2>4. LedgerTells' /\ GuardTells'
    BY <1>1, <1>i, <2>3, SafeStepTells
  <2>5. Activating(c, s, r)' \/ c.plan = <<>>
    BY <1>1, <1>2, <1>i, <2>1, ActivatingAdvances
  <2>6. CASE c.plan = <<>>
    <3>1. \A i \in 1 .. Len(<<>>) : FALSE
      OBVIOUS
    <3>2. SafePlan(c.plan)'
      BY <2>6, <3>1 DEF SafePlan
    <3> QED
      BY <1>c, <2>4, <3>2
  <2>7. CASE Activating(c, s, r)'
    <3>1. InPlace(s, r)'
      BY <1>3, <1>10 DEF InPlace
    <3> QED
      BY <1>5, <1>10, <1>c, <2>4, <2>7, <3>1
  <2> QED
    BY <2>5, <2>6, <2>7
<1> QED
  BY <1>1, <1>9, <1>10, <1>i DEF CommandTells

\* What a command remembers is all that changes.
LEMMA MemoryTells ==
  ASSUME UNCHANGED <<disk, history>>, Growing, NEW c, CommandTells(c),
         c # Idle /\ c.phase \in {"header", "hash", "reconcile"} => raw' = raw
  PROVE  CommandTells(c)'
<1>1. UNCHANGED <<ledger, guard, journal, staged, pending, manifests, proved>>
  BY DEF disk, history
<1>2. SafePlan(c.plan) => SafePlan(c.plan)'
  <2>1. \A step : SafeStep(step) => SafeStep(step)'
    BY SafeStays DEF SafeStep, Sound
  <2> QED
    BY <2>1 DEF SafePlan
<1>3. \A s, r : Activating(c, s, r) => Activating(c, s, r)'
  <2>1. /\ \A s : NothingNew(s)
        /\ \A e : Confirmed(e)' = Confirmed(e)
    BY <1>1 DEF NothingNew, Announced, Sealed, Announcing, Confirmed
  <2>2. \A s, r : Unannounced(s, r) => Unannounced(s, r)'
    BY <2>1, RecordsStayClear
  <2> QED
    BY <1>1, <2>1, <2>2 DEF Activating, ActivatingBy
<1>4. raw' = raw => \A s, r : InPlace(s, r) => InPlace(s, r)'
  BY DEF InPlace
<1>5. AllAcknowledged => AllAcknowledged'
  BY <1>1 DEF AllAcknowledged
<1>6. raw' = raw /\ InHand(c) => InHand(c)'
  BY <1>1, <1>4 DEF InHand, InPlace, Sound
<1>7. HandedOver(c) => HandedOver(c)'
  BY <1>1 DEF HandedOver, NeedsAgent, Handed
<1> QED
  BY <1>1, <1>2, <1>3, <1>4, <1>5, <1>6, <1>7 DEF CommandTells, Sound

\* A command without a plan, that is not at its journal.
LEMMA UnplannedTells ==
  ASSUME NEW c, c # Idle => /\ c.plan = <<>>
                            /\ c.phase \notin {"header", "hash", "reconcile", "observe", "published"}
                            /\ c.op = "register" => AllAcknowledged
  PROVE  CommandTells(c)
<1>1. \A i \in 1 .. Len(<<>>) : FALSE
  OBVIOUS
<1>2. SafePlan(<<>>)
  BY <1>1 DEF SafePlan
<1> QED
  BY <1>2 DEF CommandTells

-----------------------------------------------------------------------------
(* What is told when a plan is laid.                                       *)

\* A sync that reconciles, between two plans.
LEMMA AtHand ==
  ASSUME AnnouncementInv, LedgerTells, CommandTellsNow,
         command # Idle, command.plan = <<>>, command.phase = "reconcile"
  PROVE  /\ InHand(command) /\ command.seen = raw /\ command.op = "sync"
         /\ Outstanding = {} /\ journal # NoJournal
         /\ \A s \in command.jobs : ledger[s] \in Records /\ InPlace(s, ledger[s])
         /\ \A s \in Sources : ledger[s] # NoRecord => Safe(s, ledger[s])
<1>i. /\ Inv /\ CommandHolds /\ DiskConfirms /\ CommandAnnounces /\ CommandTells(command)
  BY DEF AnnouncementInv, DeliveryInv, CommandTellsNow
<1>1. InHand(command) /\ command.seen = raw
  BY <1>i DEF CommandTells
<1>2. Len(command.plan) = 0 /\ \A i \in 1 .. Len(command.plan) : FALSE
  OBVIOUS
<1>3. \A s \in command.jobs : ledger[s] \in Records /\ InPlace(s, ledger[s])
  BY <1>1, <1>2 DEF InHand
<1>4. \A s \in Sources : guard[s] = NoGuard
  BY <1>i, AtWork
<1>5. /\ pending = NoResult /\ staged = NoResult /\ journal # NoJournal /\ command.op = "sync"
  BY <1>i, NoJournalIsNone DEF Working, Inv, PhaseHolds, PhaseOf, CommandHolds, CommandSpooled,
     WorkSpooled
<1> QED
  BY <1>1, <1>3, <1>4, <1>5 DEF LedgerTells, Outstanding

\* What is in hand when one source has been looked at.
LEMMA InHandLaid ==
  ASSUME InHand(command), command.plan = <<>>, NEW s, NEW d, d.jobs \subseteq command.jobs,
         s \notin d.jobs, NEW records, SavesOnly(d.plan, s, records),
         \/ d.batch = command.batch
         \/ \E new : /\ Sound(new.record) /\ InPlace(new.source, new.record)
                     /\ d.batch = command.batch \union {new}
  PROVE  InHand(d)
<1>1. Len(command.plan) = 0 /\ \A i \in 1 .. Len(command.plan) : FALSE
  OBVIOUS
<1>2. \A x \in d.jobs : ledger[x] \in Records /\ InPlace(x, ledger[x])
  BY <1>1 DEF InHand
<1>3. \A i \in 1 .. Len(d.plan) : ~(d.plan[i].do = "save" /\ d.plan[i].source \in d.jobs)
  BY DEF SavesOnly
<1>4. \A request \in d.batch : Sound(request.record) /\ InPlace(request.source, request.record)
  BY DEF InHand
<1> QED
  BY <1>2, <1>3, <1>4 DEF InHand

\* A sync that goes on with its reconciliation.
LEMMA ReconcilingTells ==
  ASSUME NEW c, c.phase = "reconcile", c.seen = raw, c.op = "sync", InHand(c),
         \/ SafePlan(c.plan)
         \/ \E s \in Sources : \E r \in Records :
               Activating(c, s, r) /\ Sound(r) /\ InPlace(s, r)
  PROVE  CommandTells(c)
BY DEF CommandTells

\* A record still owed is where it was and is left as it is.
LEMMA ReconciledSafe ==
  ASSUME NEW s, NEW f, f # Gone, NEW now, NEW r0 \in Records, Safe(s, r0), f = raw[s],
         Outstanding = {},
         NEW r \in Records, NEW awake \in Records, NEW next,
         r0.path # f.path => r = RenameRecord(r0, f, now), r0.path = f.path => r = r0,
         r.state = "extracting" => awake = RecoverStale(r, now),
         r.state # "extracting" => awake = r,
         f.bytes = r.content => next = RefreshMatchingBytes(awake, now),
         f.bytes # r.content => next = MarkIntegrityError(awake, f.bytes, now)
  PROVE  Safe(s, awake) /\ Safe(s, next)
<1>1. Passes(r0, r) /\ Passes(r, awake) /\ Passes(awake, next)
  BY FunctionsPass
<1>2. Passes(r0, awake) /\ Passes(r0, next)
  BY <1>1, PassesOn
<1>3. CASE ~Owes(r0) \/ Told(s, r0.content)
  BY <1>2, <1>3, SafePasses
<1>4. CASE Owes(r0) /\ ~Told(s, r0.content)
  <2>1. OnItsWay(s, r0)
    BY <1>4 DEF Safe
  <2>2. InPlace(s, r0) /\ r0.state = r0.attempt /\ r0.attempt \in {"ok", "needs_agent"}
    BY <1>4, <2>1 DEF OnItsWay, Owes
  <2>3. f.path = r0.path /\ f.bytes = r0.content /\ "raw_missing" \notin r0.diagnostics
    BY <2>2 DEF InPlace
  <2>4. awake = r0 /\ f.bytes = r.content
    BY <2>2, <2>3
  <2>5. next = r0
    BY <2>2, <2>3, <2>4 DEF RefreshMatchingBytes, ContinuityBroken
  <2> QED
    BY <2>4, <2>5
<1> QED
  BY <1>3, <1>4

\* A record that is requested is that of the file in its place.
LEMMA RequestedInPlace ==
  ASSUME NEW s, NEW f \in Files, f # Gone, f = raw[s], NEW now, NEW r \in Records,
         r.path = f.path, r.content = f.bytes,
         NEW awake \in Records, awake = IF r.state = "extracting" THEN RecoverStale(r, now) ELSE r
  PROVE  InPlace(s, RefreshMatchingBytes(awake, now))
<1> PICK next : next = RefreshMatchingBytes(awake, now)
  OBVIOUS
<1>1. awake.path = f.path /\ awake.content = f.bytes
  BY DEF RecoverStale, Records
<1>2. next.path = f.path /\ next.content = f.bytes /\ "raw_missing" \notin next.diagnostics
  BY <1>1 DEF RefreshMatchingBytes, ContinuityBroken, Records
<1>3. f = [path |-> f.path, bytes |-> f.bytes]
  BY DEF Files
<1> QED
  BY <1>2, <1>3 DEF InPlace

\* A file in its place, a moved one and a new one.
LEMMA ReconcileFileTells ==
  ASSUME AnnouncementInv, LedgerTells, CommandTellsNow, NEW s \in Sources, ReconcileFile(s)
  PROVE  CommandTells(command')
<1>f. PICK f : f = FileOf(s)
  OBVIOUS
<1>now. PICK now : now = command.at
  OBVIOUS
<1>created. PICK created \in BOOLEAN : created = (ledger[s] = NoRecord)
  OBVIOUS
<1>renamed. PICK renamed \in BOOLEAN : renamed = (~created /\ ledger[s].path # f.path)
  OBVIOUS
<1>r. PICK r : r = IF created THEN NewRecord(f, now)
                 ELSE IF renamed THEN RenameRecord(ledger[s], f, now) ELSE ledger[s]
  OBVIOUS
<1>stale. PICK stale \in BOOLEAN : stale = (r.state = "extracting")
  OBVIOUS
<1>awake. PICK awake : awake = IF stale THEN RecoverStale(r, now) ELSE r
  OBVIOUS
<1>same. PICK same \in BOOLEAN : same = (f.bytes = r.content)
  OBVIOUS
<1>next. PICK next : next = IF same THEN RefreshMatchingBytes(awake, now)
                       ELSE MarkIntegrityError(awake, f.bytes, now)
  OBVIOUS
<1>process. PICK process \in BOOLEAN : process = (same /\ MustProcess(next))
  OBVIOUS
<1>rewrites. PICK rewrites \in BOOLEAN : rewrites = (renamed /\ ~stale)
  OBVIOUS
<1>changed. PICK changed \in BOOLEAN : changed = (next # awake \/ ((created \/ renamed) /\ ~stale))
  OBVIOUS
<1>recovery. PICK recovery : recovery = IF stale THEN Publish(s, awake, renamed) ELSE <<>>
  OBVIOUS
<1>outcome. PICK outcome : outcome = IF ~process /\ changed THEN Publish(s, next, rewrites) ELSE <<>>
  OBVIOUS
<1>request. PICK request : request = [source |-> s, record |-> next, rewrites |-> rewrites]
  OBVIOUS
<1>batch. PICK batch : batch = IF process THEN command.batch \union {request} ELSE command.batch
  OBVIOUS
<1>i. Inv /\ CommandHolds /\ DiskConfirms /\ CommandAnnounces
  BY DEF AnnouncementInv, DeliveryInv
<1>1. /\ command # Idle /\ command.plan = <<>> /\ command.phase = "reconcile"
      /\ f # Gone /\ s \in command.todo
  BY <1>f DEF ReconcileFile, Reconciling, InPhase
<1>2. command' = [command EXCEPT !.todo = @ \ {s}, !.batch = batch, !.plan = recovery \o outcome]
  BY <1>f, <1>now, <1>created, <1>renamed, <1>r, <1>stale, <1>awake, <1>same,
     <1>next, <1>process, <1>rewrites, <1>changed,
     <1>recovery, <1>outcome, <1>request, <1>batch DEF ReconcileFile
<1>3. /\ command \in CommandSet /\ now \in Nat
      /\ ledger \in [Sources -> Records \union {NoRecord}]
  BY <1>1, <1>i, <1>now, Reconciles
<1>4. /\ InHand(command) /\ command.seen = raw /\ command.op = "sync" /\ Outstanding = {}
      /\ ledger[s] # NoRecord => Safe(s, ledger[s])
  BY <1>1, AtHand
<1>5. s \notin command.jobs
  BY <1>1, <1>i, AtWork
<1>6. f = raw[s] /\ f \in Files /\ f.bytes \in Bytes
  <2>1. f = raw[s]
    BY <1>1, <1>4, <1>f DEF FileOf
  <2>2. f \in Files
    BY <1>i, <2>1 DEF Inv, Typed, TypeOK
  <2> QED
    BY <1>1, <2>1, <2>2 DEF Files
<1>7. r \in Records /\ (created => r.state = "pending" /\ r.content = f.bytes /\ r.path = f.path)
  BY <1>1, <1>3, <1>6, <1>r, <1>created, RecordsOfFiles DEF NewRecord
<1>8. awake \in Records
  BY <1>3, <1>6, <1>7, <1>awake, RecordsStay
<1>9. next \in Records
  BY <1>3, <1>6, <1>8, <1>next, RecordsStay
<1>10. awake = (IF r.state = "extracting" THEN RecoverStale(r, now) ELSE r)
       /\ next = (IF f.bytes = r.content THEN RefreshMatchingBytes(awake, now)
                  ELSE MarkIntegrityError(awake, f.bytes, now))
  BY <1>stale, <1>awake, <1>same, <1>next
<1>11. Safe(s, awake) /\ Safe(s, next)
  <2>1. CASE created
    <3>1. Safe(s, r) /\ ~Owes(r)
      BY <1>7, <1>r, <2>1, NothingOwed DEF NewRecord, Owes
    <3>2. Passes(r, awake) /\ Passes(awake, next)
      BY <1>7, <1>8, <1>10, FunctionsPass
    <3> QED
      BY <3>1, <3>2, PassesOn, SafePasses
  <2>2. CASE ~created
    <3> PICK r0 : r0 = ledger[s]
      OBVIOUS
    <3>1. r0 \in Records /\ Safe(s, r0)
      BY <1>3, <1>4, <1>created, <2>2
    <3>2. /\ r0.path # f.path => r = RenameRecord(r0, f, now)
          /\ r0.path = f.path => r = r0
      BY <1>r, <1>renamed, <2>2
    <3>3. f # Gone /\ f = raw[s] /\ Outstanding = {} /\ r \in Records /\ awake \in Records
      BY <1>1, <1>4, <1>6, <1>7, <1>8
    <3>4. /\ r.state = "extracting" => awake = RecoverStale(r, now)
          /\ r.state # "extracting" => awake = r
          /\ f.bytes = r.content => next = RefreshMatchingBytes(awake, now)
          /\ f.bytes # r.content => next = MarkIntegrityError(awake, f.bytes, now)
      BY <1>10
    <3> QED
      BY <3>1, <3>2, <3>3, <3>4, ReconciledSafe
  <2> QED
    BY <2>1, <2>2
<1>12. process => Sound(request.record) /\ InPlace(request.source, request.record)
  <2>1. request.source = s /\ request.record = next
    BY <1>request
  <2>2. r.path = f.path
    BY <1>3, <1>7, <1>r, <1>created, <1>renamed DEF RenameRecord, Records
  <2>3. process => r.content = f.bytes /\ next = RefreshMatchingBytes(awake, now)
    BY <1>process, <1>same, <1>next
  <2>4. process => InPlace(s, next)
    BY <1>1, <1>6, <1>7, <1>8, <1>10, <2>2, <2>3, RequestedInPlace
  <2> QED
    BY <1>11, <2>1, <2>4 DEF Safe
<1>13. /\ recovery \in Seq(Steps) /\ SafePlan(recovery) /\ SavesOnly(recovery, s, Records)
       /\ outcome \in Seq(Steps) /\ SafePlan(outcome) /\ SavesOnly(outcome, s, Records)
  <2>1. <<>> \in Seq(Steps) /\ SafePlan(<<>>) /\ SavesOnly(<<>>, s, Records)
    <3>1. <<>> \in Seq(Steps) /\ Len(<<>>) = 0
      OBVIOUS
    <3>2. \A i \in 1 .. Len(<<>>) : FALSE
      BY <3>1
    <3> QED
      BY <3>1, <3>2 DEF SafePlan, SavesOnly
  <2>2. /\ Publish(s, awake, renamed) \in Seq(Steps) /\ SafePlan(Publish(s, awake, renamed))
        /\ SavesOnly(Publish(s, awake, renamed), s, Records)
    BY <1>8, <1>11, SafePublish
  <2>3. /\ Publish(s, next, rewrites) \in Seq(Steps) /\ SafePlan(Publish(s, next, rewrites))
        /\ SavesOnly(Publish(s, next, rewrites), s, Records)
    BY <1>9, <1>11, SafePublish
  <2> QED
    BY <1>recovery, <1>outcome, <2>1, <2>2, <2>3
<1>c. PICK c : c = command'
  OBVIOUS
<1>14. /\ c.plan = recovery \o outcome /\ c.phase = "reconcile" /\ c.batch = batch
       /\ c.jobs = command.jobs /\ c.seen = command.seen /\ c.op = command.op
  BY <1>1, <1>2, <1>3, <1>c DEF CommandSet
<1>15. SafePlan(c.plan) /\ SavesOnly(c.plan, s, Records)
  BY <1>13, <1>14, SafeConcat, SavesConcat
<1>16. InHand(c)
  <2>1. \/ c.batch = command.batch
        \/ /\ Sound(request.record) /\ InPlace(request.source, request.record)
           /\ c.batch = command.batch \union {request}
    BY <1>12, <1>14, <1>batch
  <2> QED
    BY <1>1, <1>4, <1>5, <1>14, <1>15, <2>1, InHandLaid
<1> QED
  BY <1>4, <1>14, <1>15, <1>16, <1>c, ReconcilingTells

\* A record that is owed and not told of has its file.
LEMMA OwedHasFile ==
  ASSUME NEW s, NEW r \in Records, r = ledger[s], Safe(s, r), Outstanding = {},
         command.seen = raw, FileOf(s) = Gone
  PROVE  ~Owes(r) \/ Told(s, r.content)
<1>1. SUFFICES ASSUME Owes(r), ~Told(s, r.content)
               PROVE  FALSE
  OBVIOUS
<1>2. raw[s] = [path |-> r.path, bytes |-> r.content]
  BY <1>1 DEF Safe, OnItsWay, InPlace
<1>3. raw[s] # Gone /\ raw[s].path = r.path
  BY <1>2, GoneIsNoFile DEF Records
<1>4. FileOf(s) = raw[s]
  BY <1>3 DEF FileOf
<1> QED
  BY <1>3, <1>4

\* A plan of at most one safe save.
LEMMA SafeSave ==
  ASSUME NEW s \in Sources, NEW plan, NEW n,
         plan = <<>> \/ (n \in Records /\ Safe(s, n) /\ plan = <<Save(s, n)>>)
  PROVE  plan \in Seq(Steps) /\ SafePlan(plan) /\ SavesOnly(plan, s, Records)
<1>1. CASE plan = <<>>
  <2>1. <<>> \in Seq(Steps) /\ Len(<<>>) = 0
    OBVIOUS
  <2>2. \A i \in 1 .. Len(<<>>) : FALSE
    BY <2>1
  <2> QED
    BY <1>1, <2>1, <2>2 DEF SafePlan, SavesOnly
<1>2. CASE n \in Records /\ Safe(s, n) /\ plan = <<Save(s, n)>>
  <2>1. /\ Len(<<Save(s, n)>>) = 1 /\ <<Save(s, n)>>[1] = Save(s, n) /\ \A i \in 1 .. 1 : i = 1
        /\ Save(s, n).source = s /\ Save(s, n).record = n
    BY DEF Save
  <2> QED
    BY <1>2, <2>1, SafeSteps DEF SavesOnly
<1> QED
  BY <1>1, <1>2

\* A source whose file is gone: what it owed has been told.
LEMMA ReconcileAbsentTells ==
  ASSUME AnnouncementInv, LedgerTells, CommandTellsNow, NEW s \in Sources, ReconcileAbsent(s)
  PROVE  CommandTells(command')
<1>r. PICK r : r = ledger[s]
  OBVIOUS
<1>now. PICK now : now = command.at
  OBVIOUS
<1>stale. PICK stale \in BOOLEAN : stale = (r # NoRecord /\ r.state = "extracting")
  OBVIOUS
<1>awake. PICK awake : awake = IF stale THEN RecoverStale(r, now) ELSE r
  OBVIOUS
<1>missing. PICK missing : missing = MarkMissing(awake, now)
  OBVIOUS
<1>recovery. PICK recovery : recovery = IF stale THEN <<Save(s, awake)>> ELSE <<>>
  OBVIOUS
<1>outcome. PICK outcome :
    outcome = IF r = NoRecord \/ missing = awake THEN <<>> ELSE <<Save(s, missing)>>
  OBVIOUS
<1>i. Inv /\ CommandHolds /\ DiskConfirms /\ CommandAnnounces
  BY DEF AnnouncementInv, DeliveryInv
<1>1. /\ command # Idle /\ command.plan = <<>> /\ command.phase = "reconcile"
      /\ s \in command.todo /\ FileOf(s) = Gone
  BY DEF ReconcileAbsent, BatchDone, FilesReconciled, InPhase
<1>2. command' = [command EXCEPT !.todo = @ \ {s}, !.plan = recovery \o outcome]
  BY <1>r, <1>now, <1>stale, <1>awake, <1>missing, <1>recovery, <1>outcome DEF ReconcileAbsent
<1>3. command \in CommandSet /\ now \in Nat /\ r \in Records \union {NoRecord}
  BY <1>1, <1>i, <1>r, <1>now, Reconciles
<1>4. /\ InHand(command) /\ command.seen = raw /\ command.op = "sync" /\ Outstanding = {}
      /\ s \notin command.jobs
      /\ r # NoRecord => Safe(s, r)
  BY <1>1, <1>i, <1>r, AtHand, AtWork
<1>5. /\ recovery \in Seq(Steps) /\ SafePlan(recovery) /\ SavesOnly(recovery, s, Records)
      /\ outcome \in Seq(Steps) /\ SafePlan(outcome) /\ SavesOnly(outcome, s, Records)
  <2>1. CASE r = NoRecord
    BY <1>stale, <1>recovery, <1>outcome, <2>1, SafeSave
  <2>2. CASE r \in Records
    <3>1. awake \in Records /\ missing \in Records
      <4>1. awake \in Records
        BY <1>3, <1>awake, <2>2, RecordsStay
      <4> QED
        BY <1>3, <1>missing, <2>2, <4>1, RecordsStay
    <3>2. ~Owes(r) \/ Told(s, r.content)
      BY <1>4, <1>1, <1>r, <2>2, NoRecordIsNone, OwedHasFile
    <3>3. Passes(r, awake) /\ Passes(awake, missing)
      BY <1>awake, <1>missing, <2>2, <3>1, FunctionsPass
    <3>4. Passes(r, missing)
      BY <3>3, PassesOn
    <3>5. Safe(s, awake) /\ Safe(s, missing)
      BY <1>4, <2>2, <3>2, <3>3, <3>4, NoRecordIsNone, SafePasses
    <3> QED
      BY <1>recovery, <1>outcome, <3>1, <3>5, SafeSave
  <2> QED
    BY <1>3, <2>1, <2>2
<1>c. PICK c : c = command'
  OBVIOUS
<1>6. /\ c.plan = recovery \o outcome /\ c.phase = "reconcile" /\ c.batch = command.batch
      /\ c.jobs = command.jobs /\ c.seen = command.seen /\ c.op = command.op
  BY <1>1, <1>2, <1>3, <1>c DEF CommandSet
<1>7. SafePlan(c.plan) /\ SavesOnly(c.plan, s, Records)
  BY <1>5, <1>6, SafeConcat, SavesConcat
<1>8. InHand(c)
  BY <1>1, <1>4, <1>6, <1>7, InHandLaid
<1> QED
  BY <1>4, <1>6, <1>7, <1>8, <1>c, ReconcilingTells

\* An extraction starts: what was active before it is not, and its file is in place.
LEMMA StartJobTells ==
  ASSUME AnnouncementInv, LedgerTells, CommandTellsNow, command # Idle,
         NEW request \in command.batch, StartJob(request)
  PROVE  CommandTells(command')
<1>s. PICK s : s = request.source
  OBVIOUS
<1>r. PICK r : r = ExtractingRecord(request.record, command.at)
  OBVIOUS
<1>rest. PICK rest : rest = Publish(s, r, request.rewrites)
  OBVIOUS
<1>i. Inv /\ CommandHolds /\ DiskConfirms /\ CommandAnnounces
  BY DEF AnnouncementInv, DeliveryInv
<1>1. command.plan = <<>> /\ command.phase = "reconcile"
  BY DEF StartJob, FilesReconciled, InPhase
<1>2. command' = [command EXCEPT !.batch = @ \ {request}, !.jobs = @ \union {s},
                                 !.plan = <<Check(s)>> \o rest]
  BY <1>s, <1>r, <1>rest DEF StartJob
<1>3. /\ command \in CommandSet /\ command.at \in Nat /\ request \in Requests
  BY <1>1, <1>i, Reconciles
<1>4. s \in Sources /\ request.record \in Records /\ request.rewrites \in BOOLEAN
  BY <1>3, <1>s DEF Requests
<1>5. r \in Records
  BY <1>3, <1>4, <1>r DEF ExtractingRecord, Records, States, Attempts
<1>6. /\ InHand(command) /\ command.seen = raw /\ command.op = "sync"
      /\ \A x \in command.jobs : ledger[x] \in Records /\ InPlace(x, ledger[x])
  BY <1>1, AtHand
<1>7. Sound(request.record) /\ InPlace(s, request.record) /\ MustProcess(request.record)
  BY <1>1, <1>6, <1>i, <1>s, AtWork DEF InHand, InFlight
<1>8. Safe(s, r) /\ InPlace(s, r)
  <2>1. ~request.record.active
    BY <1>4, <1>7 DEF MustProcess, Sound, Records
  <2>2. r.path = request.record.path /\ r.content = request.record.content
        /\ r.diagnostics = request.record.diagnostics
    BY <1>4, <1>r DEF ExtractingRecord, Records
  <2> QED
    BY <1>4, <1>7, <1>r, <2>1, <2>2, NothingOwed DEF InPlace
<1>9. rest \in Seq(Steps) /\ SafePlan(rest) /\ SavesOnly(rest, s, {r})
  BY <1>4, <1>5, <1>8, <1>rest, SafePublish
<1>10. \E i \in 1 .. Len(rest) : rest[i].do = "save" /\ rest[i].source = s
  <2> PICK at : at = r.at
    OBVIOUS
  <2> QED
    BY <1>4, <1>5, <1>rest, <1>i, PublishSpooled
<1>11. /\ <<Check(s)>> \in Seq(Steps) /\ SafePlan(<<Check(s)>>)
       /\ Len(<<Check(s)>>) = 1 /\ <<Check(s)>>[1].do = "check"
  BY <1>4, <1>5, SafeSteps DEF Check
<1>12. SavesOnly(<<Check(s)>>, s, {r})
  <2>1. \A i \in 1 .. 1 : i = 1
    OBVIOUS
  <2> QED
    BY <1>11, <2>1 DEF SavesOnly
<1>plan. PICK plan : plan = <<Check(s)>> \o rest
  OBVIOUS
<1>13. SafePlan(plan) /\ SavesOnly(plan, s, {r})
  BY <1>9, <1>11, <1>12, <1>plan, SafeConcat, SavesConcat
<1>14. \E i \in 1 .. Len(plan) : plan[i].do = "save" /\ plan[i].source = s
  <2>1. PICK i \in 1 .. Len(rest) : rest[i].do = "save" /\ rest[i].source = s
    BY <1>10
  <2>2. /\ Len(plan) = 1 + Len(rest) /\ Len(rest) \in Nat
        /\ \A k \in 1 .. Len(rest) : plan[1 + k] = rest[k]
    BY <1>9, <1>11, <1>plan, ConcatSteps
  <2>3. 1 + i \in 1 .. Len(plan) /\ plan[1 + i] = rest[i]
    BY <2>2
  <2> QED
    BY <2>1, <2>3
<1>c. PICK c : c = command'
  OBVIOUS
<1>15. /\ c.plan = plan /\ c.phase = "reconcile" /\ c.batch = command.batch \ {request}
       /\ c.jobs = command.jobs \union {s} /\ c.seen = command.seen /\ c.op = command.op
  BY <1>1, <1>2, <1>3, <1>plan, <1>c DEF CommandSet
<1>16. \A x \in c.jobs :
          \/ \E i \in 1 .. Len(c.plan) : c.plan[i].do = "save" /\ c.plan[i].source = x
          \/ ledger[x] \in Records /\ InPlace(x, ledger[x])
  BY <1>6, <1>14, <1>15
<1>17. \A i \in 1 .. Len(c.plan) :
          c.plan[i].do = "save" /\ c.plan[i].source \in c.jobs =>
              InPlace(c.plan[i].source, c.plan[i].record)
  BY <1>8, <1>13, <1>15 DEF SavesOnly
<1>18. \A q \in c.batch : Sound(q.record) /\ InPlace(q.source, q.record)
  BY <1>6, <1>15 DEF InHand
<1>19. InHand(c)
  BY <1>16, <1>17, <1>18 DEF InHand
<1> QED
  BY <1>6, <1>13, <1>15, <1>19, <1>c, ReconcilingTells

\* A result comes back: its derivation will be announced, or its source handed over.
LEMMA JobDoneTells ==
  ASSUME AnnouncementInv, LedgerTells, CommandTellsNow, NEW s \in Sources,
         NEW activates \in BOOLEAN, JobDone(s, activates)
  PROVE  CommandTells(command')
<1>r. PICK r : r = ledger[s]
  OBVIOUS
<1>final. PICK final : final = Activated(r)
  OBVIOUS
<1>e. PICK e : e = Event("new_active_representation", s, final)
  OBVIOUS
<1>i. Inv /\ CommandHolds /\ DiskConfirms /\ CommandAnnounces
  BY DEF AnnouncementInv, DeliveryInv
<1>1. command # Idle /\ command.plan = <<>> /\ command.phase = "reconcile" /\ s \in command.jobs
  BY DEF JobDone, FilesReconciled, InPhase
<1>2. command' = [command EXCEPT !.jobs = @ \ {s},
                      !.plan = <<Check(s)>> \o (IF activates THEN Activation(s, r, TRUE)
                                                ELSE <<Save(s, HandedOff(r))>>)]
  BY <1>r DEF JobDone
<1>3. command \in CommandSet
  BY <1>1, <1>i, Reconciles
<1>4. /\ InFlight(command) /\ r \in Records /\ r.state = "extracting" /\ Fresh(s, r)
      /\ s \notin command.todo /\ guard[s] = NoGuard
  BY <1>1, <1>i, <1>r, AtWork DEF Extracts
<1>5. /\ InHand(command) /\ command.seen = raw /\ command.op = "sync" /\ Outstanding = {}
      /\ journal # NoJournal /\ InPlace(s, r) /\ Sound(r)
  <2>1. r # NoRecord
    BY <1>4, NoRecordIsNone
  <2> QED
    BY <1>1, <1>r, <2>1, AtHand DEF Safe
<1>c. PICK c : c = command'
  OBVIOUS
<1>6. /\ c.plan = <<Check(s)>> \o (IF activates THEN Activation(s, r, TRUE)
                                   ELSE <<Save(s, HandedOff(r))>>)
      /\ c.phase = "reconcile" /\ c.batch = command.batch
      /\ c.jobs = command.jobs \ {s} /\ c.seen = command.seen /\ c.op = command.op
  BY <1>1, <1>2, <1>3, <1>c DEF CommandSet
<1>7. CASE activates
  <2>1. c.plan = <<Check(s), Emit(e), Guard(s, r, final), Save(s, final), Check(s),
                   Clear(s, final), Commit(e)>>
    BY <1>4, <1>6, <1>7, <1>final, <1>e, ActivationLaid
  <2>2. ActivatingBy(c.plan, s, r)
    BY <1>r, <1>4, <1>final, <1>e, <2>1 DEF ActivatingBy
  <2>3. \A request \in c.batch : request.source # s
    BY <1>1, <1>4, <1>6 DEF InFlight
  <2>4. Activating(c, s, r)
    BY <1>4, <1>6, <2>2, <2>3 DEF Activating, Fresh, Unannounced
  <2>5. SavesOnly(c.plan, s, Records)
    <3> PICK t, u, v, w, x, y : t = Check(s) /\ u = Emit(e) /\ v = Guard(s, r, final)
                                /\ w = Save(s, final) /\ x = Clear(s, final) /\ y = Commit(e)
      OBVIOUS
    <3>1. /\ t.do = "check" /\ u.do = "emit" /\ v.do = "guard" /\ x.do = "clear"
          /\ y.do = "commit" /\ w.source = s /\ w.record = final /\ final \in Records
      BY <1>4, <1>final, ActivationLaid DEF Check, Emit, Guard, Save, Clear, Commit
    <3> PICK p : p = <<t, u, v, w, t, x, y>>
      OBVIOUS
    <3>2. /\ Len(p) = 7 /\ p[1] = t /\ p[2] = u /\ p[3] = v /\ p[4] = w /\ p[5] = t /\ p[6] = x
          /\ p[7] = y
          /\ \A i \in 1 .. 7 : i = 1 \/ i = 2 \/ i = 3 \/ i = 4 \/ i = 5 \/ i = 6 \/ i = 7
      OBVIOUS
    <3>3. SavesOnly(p, s, Records)
      BY <3>1, <3>2 DEF SavesOnly
    <3> QED
      BY <2>1, <3>3
  <2>6. InHand(c)
    BY <1>1, <1>5, <1>6, <2>5, InHandLaid
  <2> QED
    BY <1>4, <1>5, <1>6, <2>4, <2>6, <1>c, ReconcilingTells
<1>8. CASE ~activates
  <2> PICK n : n = HandedOff(r)
    OBVIOUS
  <2>1. /\ n \in Records /\ n.state = "needs_agent" /\ n.attempt = "needs_agent"
        /\ n.path = r.path /\ n.content = r.content /\ n.diagnostics = r.diagnostics
        /\ n.active = r.active
    BY <1>4 DEF HandedOff, Records, States, Attempts
  <2>2. Safe(s, n)
    <3>1. Sound(n)
      BY <1>4, <1>5, <2>1 DEF Sound
    <3>2. OnItsWay(s, n)
      BY <1>5, <2>1 DEF OnItsWay, InPlace
    <3> QED
      BY <3>1, <3>2 DEF Safe
  <2> PICK p, q : p = <<Check(s)>> /\ q = <<Save(s, n)>>
    OBVIOUS
  <2>3. /\ p \in Seq(Steps) /\ SafePlan(p) /\ q \in Seq(Steps) /\ SafePlan(q)
        /\ Len(p) = 1 /\ p[1].do = "check"
    BY <2>1, <2>2, SafeSteps DEF Check
  <2>4. SavesOnly(p, s, Records) /\ SavesOnly(q, s, Records)
    <3>1. /\ Len(q) = 1 /\ q[1] = Save(s, n) /\ \A i \in 1 .. 1 : i = 1
          /\ Save(s, n).source = s /\ Save(s, n).record = n
      BY DEF Save
    <3> QED
      BY <2>1, <2>3, <3>1 DEF SavesOnly
  <2>5. c.plan = p \o q
    BY <1>6, <1>8
  <2>6. SafePlan(c.plan) /\ SavesOnly(c.plan, s, Records)
    BY <2>3, <2>4, <2>5, SafeConcat, SavesConcat
  <2>7. InHand(c)
    BY <1>1, <1>5, <1>6, <2>6, InHandLaid
  <2> QED
    BY <1>5, <1>6, <2>6, <2>7, <1>c, ReconcilingTells
<1> QED
  BY <1>7, <1>8

\* register-extraction activates what the client was handed: it has been told.
LEMMA RegisterTells ==
  ASSUME AnnouncementInv, LedgerTells, CommandTellsNow, Register
  PROVE  CommandTells(command')
<1>s. PICK s : s = command.target.source
  OBVIOUS
<1>l. PICK l : l = ledger[s]
  OBVIOUS
<1>r. PICK r : r = ExtractingRecord(l, command.at)
  OBVIOUS
<1>final. PICK final : final = Activated(r)
  OBVIOUS
<1>plan. PICK plan : plan = <<Save(s, r)>> \o Activation(s, r, FALSE)
  OBVIOUS
<1>c. PICK c : c = command'
  OBVIOUS
<1>1. /\ command # Idle /\ command \in CommandSet /\ PhaseOf(command) /\ command.op = "register"
      /\ NoActivationGuard /\ Inv /\ AllAcknowledged
  BY DEF Register, InPhase, AnnouncementInv, DeliveryInv, Inv, Typed, PhaseHolds, CommandTellsNow,
         CommandTells
<1>2. CASE ~MayRegister(command.target)
  <2>1. command' = Idle
    BY <1>2 DEF Register
  <2> QED
    BY <2>1 DEF CommandTells
<1>3. CASE MayRegister(command.target)
  <2>1. c = [command EXCEPT !.phase = "finish", !.plan = plan]
    BY <1>3, <1>s, <1>l, <1>r, <1>plan, <1>c DEF Register
  <2>2. c.plan = plan /\ c.phase = "finish" /\ c.op = "register"
    BY <1>1, <2>1 DEF CommandSet
  <2>3. s \in Sources /\ l \in Records /\ l.state = "needs_agent" /\ command.at \in Nat
    <3>1. s \in Sources
      BY <1>1, <1>s DEF PhaseOf, Items
    <3> QED
      BY <1>1, <1>3, <1>s, <1>l, <3>1, BoundsAreNaturals
         DEF MayRegister, NeedsAgent, Inv, Typed, CommandSet
  <2>4. Safe(s, l)
    BY <1>1, <1>l, <2>3, NoRecordIsNone DEF LedgerTells, NoActivationGuard
  <2>5. ~l.active /\ Told(s, l.content)
    <3>1. Sound(l) /\ l.attempt = "needs_agent"
      BY <2>3, <2>4 DEF Safe, Sound
    <3>2. ~OnItsWay(s, l)
      BY <1>1 DEF AllAcknowledged, OnItsWay, Outstanding
    <3> QED
      BY <2>3, <2>4, <3>1, <3>2 DEF Safe, Sound, Owes, Records
  <2>6. /\ r \in Records /\ r.attempt = "extracting" /\ r.content = l.content
        /\ final \in Records /\ final.content = l.content
        /\ final.active /\ final.attempt = "ok" /\ final.state = "ok"
    BY <1>r, <1>final, <2>3 DEF ExtractingRecord, Activated, Records, States, Attempts
  <2>7. Safe(s, r) /\ Sound(r)
    BY <1>r, <2>3, <2>5, NothingOwed
  <2>8. Safe(s, final)
    BY <2>5, <2>6 DEF Safe, Sound
  <2> PICK four : four = <<Guard(s, r, final), Save(s, final), Check(s), Clear(s, final)>>
    OBVIOUS
  <2>9. /\ four \in Seq(Steps) /\ Len(four) = 4
        /\ four[1] = Guard(s, r, final) /\ four[2] = Save(s, final)
        /\ four[3] = Check(s) /\ four[4] = Clear(s, final)
    BY <1>final, <2>3, <2>6, ActivationSteps
  <2>10. SafePlan(four)
    <3>1. /\ SafeStep(Guard(s, r, final)) /\ SafeStep(Save(s, final)) /\ SafeStep(Check(s))
          /\ SafeStep(Clear(s, final))
      BY <2>6, <2>7, <2>8 DEF SafeStep, Guard, Save, Check, Clear
    <3>2. \A i \in 1 .. 4 : i = 1 \/ i = 2 \/ i = 3 \/ i = 4
      OBVIOUS
    <3> QED
      BY <2>9, <3>1, <3>2 DEF SafePlan
  <2>11. /\ <<>> \in Seq(Steps) /\ SafePlan(<<>>)
         /\ <<Save(s, r)>> \in Seq(Steps) /\ SafePlan(<<Save(s, r)>>)
    BY <2>3, <2>6, <2>7, SafeSteps
  <2>12. <<>> \o four \in Seq(Steps) /\ SafePlan(<<>> \o four)
    BY <2>9, <2>10, <2>11, SafeConcat
  <2>13. (<<>> \o four) \o <<>> \in Seq(Steps) /\ SafePlan((<<>> \o four) \o <<>>)
    BY <2>11, <2>12, SafeConcat
  <2>14. Activation(s, r, FALSE) = (<<>> \o four) \o <<>>
    BY <1>final DEF Activation
  <2>15. SafePlan(plan)
    BY <1>plan, <2>11, <2>13, <2>14, SafeConcat
  <2>16. CommandTells(c)
    BY <1>1, <2>2, <2>15 DEF CommandTells
  <2> QED
    BY <2>16, <1>c
<1> QED
  BY <1>2, <1>3

\* Activations are rolled back to records that owe nothing.
LEMMA RollbackTells ==
  ASSUME AnnouncementInv, GuardTells, CommandTellsNow,
         CheckFails \/ StepFails \/ \E s \in Sources : RecoverGuard(s)
  PROVE  CommandTells(command')
<1> PICK c : c = command'
  OBVIOUS
<1>1. command # Idle /\ command \in CommandSet /\ CommandTells(command) /\ Inv
  BY DEF CheckFails, StepFails, NextIs, RecoverGuard, InPhase, AnnouncementInv, DeliveryInv, Inv,
         Typed, CommandTellsNow
<1>2. CASE CheckFails \/ StepFails
  <2>1. \/ c = Idle
        \/ \E s \in Sources : guard[s] # NoGuard
           /\ c = [command EXCEPT !.phase = "failing", !.plan = Restore(s)]
    BY <1>2 DEF CheckFails, StepFails, Unwind
  <2>2. CASE c = Idle
    BY <2>2 DEF CommandTells
  <2>3. ASSUME NEW s \in Sources, guard[s] # NoGuard,
               c = [command EXCEPT !.phase = "failing", !.plan = Restore(s)]
        PROVE  CommandTells(c)
    <3>1. c.plan = Restore(s) /\ c.phase = "failing" /\ c.op = command.op
      BY <1>1, <2>3 DEF CommandSet
    <3> QED
      BY <1>1, <2>3, <3>1, RestoreSafe DEF CommandTells
  <2> QED
    BY <2>1, <2>2, <2>3
<1>3. ASSUME NEW s \in Sources, RecoverGuard(s)
      PROVE  CommandTells(c)
  <2>1. guard[s] # NoGuard /\ command.phase = "recover"
        /\ c = [command EXCEPT !.plan = Restore(s)]
    BY <1>3 DEF RecoverGuard, InPhase
  <2>2. c.plan = Restore(s) /\ c.phase = "recover" /\ c.op = command.op
    BY <1>1, <2>1 DEF CommandSet
  <2> QED
    BY <1>1, <2>1, <2>2, RestoreSafe DEF CommandTells
<1> QED
  BY <1>2, <1>3

\* Sources are looked at, and the waiting ones observed.
LEMMA LooksTell ==
  ASSUME AnnouncementInv, LedgerTells, CommandTellsNow,
         HashUnmatched \/ Reconciled \/ \E s \in Sources : ReconcileUnverified(s) \/ Observe(s)
  PROVE  CommandTells(command')
<1> PICK c : c = command'
  OBVIOUS
<1>i. Inv /\ CommandHolds /\ DiskConfirms /\ CommandAnnounces
  BY DEF AnnouncementInv, DeliveryInv
<1>1. /\ command # Idle /\ command.plan = <<>> /\ command \in CommandSet /\ PhaseOf(command)
      /\ CommandTells(command) /\ CommandConfirms(command)
  BY <1>i DEF HashUnmatched, Reconciled, BatchDone, FilesReconciled, ReconcileUnverified,
         Reconciling, Observe, InPhase, Inv, Typed, PhaseHolds, CommandAnnounces, CommandTellsNow
<1>2. /\ Len(<<>>) = 0 /\ SafePlan(<<>>) /\ (\A i \in 1 .. Len(<<>>) : FALSE)
      /\ \A s : SavesOnly(<<>>, s, Records)
  <2>1. Len(<<>>) = 0 /\ \A i \in 1 .. Len(<<>>) : FALSE
    OBVIOUS
  <2> QED
    BY <2>1 DEF SafePlan, SavesOnly
<1>3. CASE HashUnmatched
  <2>1. /\ command.phase = "hash" /\ command.batch = {} /\ command.jobs = {}
        /\ command.seen = raw /\ raw \in [Sources -> Files]
    BY <1>1, <1>3, <1>i
       DEF HashUnmatched, InPhase, CommandConfirms, CommandTells, PhaseOf, Inv, Typed, TypeOK
  <2>2. /\ c.plan = <<>> /\ c.phase = "reconcile" /\ c.batch = {} /\ c.jobs = {}
        /\ c.op = command.op
        /\ c.seen = [s \in Sources |-> IF Unmatched(s) /\ raw[s] # raw[s] THEN Gone ELSE raw[s]]
    BY <1>1, <1>3, <2>1 DEF HashUnmatched, CommandSet
  <2>3. c.seen = raw
    <3>1. c.seen = [s \in Sources |-> raw[s]]
      BY <2>2
    <3> QED
      BY <2>1, <3>1
  <2>4. InHand(c)
    BY <2>2 DEF InHand
  <2> QED
    BY <1>1, <1>2, <2>2, <2>3, <2>4 DEF CommandTells
<1>4. ASSUME NEW s \in Sources, ReconcileUnverified(s)
      PROVE  CommandTells(c)
  <2>1. command.phase = "reconcile" /\ s \in command.todo
        /\ c = [command EXCEPT !.todo = @ \ {s}]
    BY <1>4 DEF ReconcileUnverified, Reconciling, InPhase
  <2>2. /\ c.plan = <<>> /\ c.phase = "reconcile" /\ c.batch = command.batch
        /\ c.jobs = command.jobs /\ c.seen = command.seen /\ c.op = command.op
    BY <1>1, <2>1 DEF CommandSet
  <2>3. InHand(command) /\ s \notin command.jobs /\ command.seen = raw /\ command.op = "sync"
    BY <1>1, <1>i, <2>1, AtHand, AtWork
  <2>4. InHand(c)
    BY <1>1, <1>2, <2>2, <2>3, InHandLaid
  <2> QED
    BY <1>2, <2>2, <2>3, <2>4, ReconcilingTells
<1>5. CASE Reconciled
  <2>1. c = [command EXCEPT !.phase = "observe", !.todo = {s \in Sources : NeedsAgent(s)}]
    BY <1>5 DEF Reconciled
  <2>2. /\ c.plan = <<>> /\ c.phase = "observe" /\ c.op = command.op
        /\ c.todo = {s \in Sources : NeedsAgent(s)}
    BY <1>1, <2>1 DEF CommandSet
  <2>3. HandedOver(c)
    BY <2>2 DEF HandedOver
  <2> QED
    BY <1>1, <1>2, <2>2, <2>3 DEF CommandTells
<1>6. ASSUME NEW s \in Sources, Observe(s)
      PROVE  CommandTells(c)
  <2>1. command.phase = "observe" /\ s \in command.todo
        /\ c = [command EXCEPT !.todo = @ \ {s}, !.plan = <<Emit(Handed(s))>>]
    BY <1>6 DEF Observe, InPhase, Handed
  <2> PICK e, plan : e = Handed(s) /\ plan = <<Emit(e)>>
    OBVIOUS
  <2>2. c.plan = plan /\ c.phase = "observe" /\ c.todo = command.todo \ {s} /\ c.op = command.op
    BY <1>1, <2>1 DEF CommandSet
  <2>3. ledger[s] \in Records
    BY <1>1, <2>1 DEF PhaseOf
  <2>4. SafePlan(plan)
    <3>1. e \in EventSet
      BY <2>3 DEF Handed, Event, EventSet
    <3> QED
      BY <2>3, <3>1, SafeSteps
  <2>5. Len(plan) = 1 /\ 1 \in 1 .. 1 /\ plan[1] = Emit(Handed(s))
    OBVIOUS
  <2>6. HandedOver(command)
    BY <1>1, <2>1 DEF CommandTells
  <2>7. HandedOver(c)
    <3>1. ASSUME NEW x \in Sources, NeedsAgent(x)
          PROVE  \/ Prepared(Handed(x)) \in Frames(journal.log)
                 \/ x \in c.todo
                 \/ \E i \in 1 .. Len(plan) : plan[i] = Emit(Handed(x))
      <4>1. Prepared(Handed(x)) \in Frames(journal.log) \/ x \in command.todo
        BY <1>1, <1>2, <2>6, <3>1 DEF HandedOver
      <4>2. CASE x = s
        BY <2>5, <4>2
      <4>3. CASE x # s
        BY <2>2, <4>1, <4>3
      <4> QED
        BY <4>2, <4>3
    <3> QED
      BY <2>2, <3>1 DEF HandedOver
  <2> QED
    BY <1>1, <2>2, <2>4, <2>7 DEF CommandTells
<1> QED
  BY <1>3, <1>4, <1>5, <1>6

\* What the ledger and the guards hold is as safe as before when neither changes.
LEMMA LedgerTellsOn ==
  ASSUME LedgerTells, GuardTells, Growing, UNCHANGED <<ledger, guard>>
  PROVE  LedgerTells' /\ GuardTells'
<1>1. ASSUME NEW s \in Sources, guard'[s] = NoGuard, ledger'[s] # NoRecord
      PROVE  Safe(s, ledger[s])'
  <2> PICK n : n = ledger'[s]
    OBVIOUS
  <2>1. Safe(s, n)
    BY <1>1 DEF LedgerTells
  <2> QED
    BY <2>1, SafeStays, LedgerSafe
<1> QED
  BY <1>1 DEF LedgerTells, GuardTells, Sound

\* A command at a journal keeps the raw files undisturbed.
LEMMA UndisturbedAtWork ==
  ASSUME Inv, CommandHolds, Undisturbed, command # Idle, command.phase \in Working
  PROVE  raw' = raw
<1>1. journal \in Journals
  BY DEF Inv, PhaseHolds, PhaseOf
<1>2. Unspooled
  BY DEF CommandHolds, CommandSpooled, WorkSpooled, Unspooled
<1> QED
  BY <1>1, <1>2, NoJournalIsNone DEF Undisturbed

\* What a command remembers, and what its caller starts.
LEMMA RecallsTell ==
  ASSUME AnnouncementInv, LedgerTells, GuardTells, CommandTellsNow, Growing, Undisturbed, Recalls
  PROVE  LedgerTells' /\ GuardTells' /\ CommandTellsNow'
<1> PICK c : c = command'
  OBVIOUS
<1>i. Inv /\ CommandHolds /\ DiskConfirms /\ CommandAnnounces
  BY DEF AnnouncementInv, DeliveryInv
<1>0. UNCHANGED <<disk, history>> /\ LedgerTells' /\ GuardTells'
  BY RecallsQuietly, LedgerTellsOn DEF disk
<1>c. ASSUME CommandTells(c), c # Idle /\ c.phase \in {"header", "hash", "reconcile"} => raw' = raw
      PROVE  CommandTellsNow'
  <2>1. CommandTells(c)'
    BY <1>0, <1>c, MemoryTells
  <2> QED
    BY <2>1 DEF CommandTellsNow
<1>1. CASE CheckFails \/ StepFails \/ \E s \in Sources : RecoverGuard(s)
  <2>1. raw' = raw
    BY <1>1 DEF CheckFails, StepFails, RecoverGuard
  <2> QED
    BY <1>0, <1>1, <1>c, <2>1, RollbackTells
<1>2. CASE HashUnmatched \/ Reconciled \/ \E s \in Sources : ReconcileUnverified(s) \/ Observe(s)
  <2>1. raw' = raw
    BY <1>2 DEF HashUnmatched, Reconciled, ReconcileUnverified, Observe
  <2> QED
    BY <1>0, <1>2, <1>c, <2>1, LooksTell
<1>3. CASE \E s \in Sources : \/ ReconcileFile(s) \/ ReconcileAbsent(s)
                              \/ \E activates \in BOOLEAN : JobDone(s, activates)
  <2>1. raw' = raw
    BY <1>3 DEF ReconcileFile, ReconcileAbsent, JobDone
  <2> QED
    BY <1>0, <1>3, <1>c, <2>1, ReconcileFileTells, ReconcileAbsentTells, JobDoneTells
<1>4. CASE command # Idle /\ \E request \in command.batch : StartJob(request)
  <2>1. raw' = raw
    BY <1>4 DEF StartJob
  <2> QED
    BY <1>0, <1>4, <1>c, <2>1, StartJobTells
<1>5. CASE Register
  <2>1. raw' = raw
    BY <1>5 DEF Register
  <2> QED
    BY <1>0, <1>5, <1>c, <2>1, RegisterTells
<1>6. CASE Refuse \/ DropRefused \/ \E s \in Sources : ReconcileFails(s)
  <2>1. c = Idle
    BY <1>6 DEF Refuse, DropRefused, ReconcileFails
  <2> QED
    BY <1>0, <1>c, <2>1, UnplannedTells
<1>7. CASE OpenPending \/ OpenStaged \/ OpenResumed
  <2>1. command # Idle /\ command.plan = <<>> /\ command \in CommandSet /\ raw' = raw
        /\ command.op = "sync"
    BY <1>7, <1>i DEF OpenPending, OpenStaged, OpenResumed, Opening, InPhase, Inv, Typed
  <2>2. CASE OpenPending \/ OpenStaged
    <3>1. c.plan = <<>> /\ c.phase \in {"drop_journal", "finalize"} /\ c.op = "sync"
      BY <2>1, <2>2 DEF OpenPending, OpenStaged, CommandSet
    <3> QED
      BY <1>0, <1>c, <2>1, <3>1, UnplannedTells
  <2>3. CASE OpenResumed
    <3>1. c.plan = <<>> /\ c.phase = "hash" /\ c.seen = raw /\ c.op = "sync"
      BY <2>1, <2>3 DEF OpenResumed, CommandSet
    <3>2. CommandTells(c)
      <4>1. \A i \in 1 .. Len(<<>>) : FALSE
        OBVIOUS
      <4>2. SafePlan(<<>>)
        BY <4>1 DEF SafePlan
      <4> QED
        BY <3>1, <4>2 DEF CommandTells
    <3> QED
      BY <1>0, <1>c, <2>1, <3>2
  <2> QED
    BY <1>7, <2>2, <2>3
<1>8. CASE \/ \E name \in Commands : StartSync(name)
           \/ \E m \in manifests : StartAcknowledge(m) \/ StartReacknowledge(m)
  <2>1. /\ c.plan = <<>> /\ c.phase \in {"recover", "drop_journal", "acknowledge"}
        /\ c.op # "register"
    BY <1>8 DEF StartSync, StartAcknowledge, StartReacknowledge, NewCommand
  <2> QED
    BY <1>0, <1>c, <2>1, UnplannedTells
<1>9. CASE \E s \in Sources : Edit(s)
  <2>1. c = command /\ CommandTells(command)
    BY <1>9 DEF Edit, CommandTellsNow
  <2>2. command # Idle /\ command.phase \in {"header", "hash", "reconcile"} => raw' = raw
    BY <1>i, UndisturbedAtWork DEF Working
  <2> QED
    BY <1>0, <1>c, <2>1, <2>2
<1> QED
  BY <1>1, <1>2, <1>3, <1>4, <1>5, <1>6, <1>7, <1>8, <1>9 DEF Recalls

-----------------------------------------------------------------------------
(* What is told by a step of the spool, and the theorem.                   *)

\* A command without a plan that is not at its journal, after its step.
LEMMA UnplannedTellsNext ==
  ASSUME NEW c, c # Idle => /\ c.plan = <<>>
                            /\ c.phase \notin {"header", "hash", "reconcile", "observe", "published"}
                            /\ c.op = "register" => AllAcknowledged'
  PROVE  CommandTells(c)'
<1>1. \A i \in 1 .. Len(<<>>) : FALSE
  OBVIOUS
<1>2. SafePlan(<<>>)'
  BY <1>1 DEF SafePlan
<1> QED
  BY <1>2 DEF CommandTells

\* What is on its way when a run is staged is in the result of the run: an
\* announcement is kept because the ledger still holds its record, and a waiting
\* source has been handed over.
LEMMA StagedTells ==
  ASSUME AnnouncementInv, CommandTellsNow, Stage, NEW s \in Sources, NEW r \in Records,
         r = ledger[s], Safe(s, r)
  PROVE  Safe(s, ledger[s])'
<1>i. Inv /\ CommandHolds /\ CommandTells(command)
  BY DEF AnnouncementInv, DeliveryInv, CommandTellsNow
<1>1. /\ InPhase("published") /\ UNCHANGED <<ledger, journal, pending, taken>>
      /\ staged' = [command |-> command.name, at |-> journal.at, corpus |-> CorpusRevision,
                    checkpoint |-> ledger, log |-> journal.log]
  BY DEF Stage, history
<1>2. /\ command # Idle /\ command.phase = "published"
      /\ pending = NoResult /\ staged = NoResult /\ journal \in Journals /\ journal # NoJournal
      /\ command.name \in Commands
  <2>1. command.name \in Commands
    BY <1>1, <1>i, AtPhase DEF Working, PhaseOf
  <2> QED
    BY <1>1, <2>1, <1>i, AtPhase DEF Working, WorkSpooled
<1>3. /\ staged' \in Staged /\ staged' # NoResult
      /\ staged'.log = journal.log /\ staged'.checkpoint = ledger
  <2>1. ledger \in [Sources -> Records \union {NoRecord}]
    BY <1>i DEF Inv, Typed
  <2>2. staged' \in Staged
    BY <1>1, <1>2, <1>i, <2>1, CorpusTyped DEF Staged, Journals
  <2> QED
    BY <1>1, <2>2, NoResultIsNone
<1> PICK m : m = ResultOf(staged')
  OBVIOUS
<1>4. ASSUME NEW f \in Frames(journal.log), KeptAt(f, journal.log, ledger)
      PROVE  f.event \in Events(m)
  BY <1>3, <1>4, ResultsOfStaged
<1>5. Outstanding = {} /\ Outstanding' = {m}
  BY <1>1, <1>2, <1>3 DEF Outstanding, ResultOf, KeptAt
<1>6. Sound(r) /\ (Owes(r) => Told(s, r.content) \/ \E e \in Events(m) : Tells(e, s, r.content))
  <2>1. SUFFICES ASSUME Owes(r), ~Told(s, r.content)
                 PROVE  \E e \in Events(m) : Tells(e, s, r.content)
    BY DEF Safe
  <2>2. /\ r.state = r.attempt
        /\ r.attempt = "ok" =>
              Prepared(Event("new_active_representation", s, r)) \in Frames(journal.log)
    BY <1>5, <2>1 DEF Safe, OnItsWay
  <2>3. ASSUME NEW kind \in {"new_active_representation", "handoff_source_id"},
               Prepared(Event(kind, s, r)) \in Frames(journal.log)
        PROVE  \E e \in Events(m) : Tells(e, s, r.content)
    <3> PICK e : e = Event(kind, s, r)
      OBVIOUS
    <3> PICK f : f = Prepared(e)
      OBVIOUS
    <3>1. /\ f.frame = "event" /\ f.event = e /\ e.kind = kind /\ e.source = s /\ e.record = r
          /\ f \in Frames(journal.log)
      BY <2>3 DEF Prepared, Event
    <3>2. KeptAt(f, journal.log, ledger)
      BY <3>1 DEF KeptAt
    <3> QED
      BY <1>4, <3>1, <3>2 DEF Tells
  <2>4. CASE r.attempt = "ok"
    BY <2>2, <2>3, <2>4
  <2>5. CASE r.attempt = "needs_agent"
    <3>1. NeedsAgent(s)
      BY <2>2, <2>5, NoRecordIsNone DEF NeedsAgent
    <3>2. HandedOver(command)
      BY <1>2, <1>i DEF CommandTells
    <3>3. Prepared(Handed(s)) \in Frames(journal.log)
      BY <1>2, <3>1, <3>2 DEF HandedOver
    <3> QED
      BY <2>3, <3>3 DEF Handed
  <2> QED
    BY <2>1, <2>4, <2>5 DEF Owes
<1>7. Told(s, r.content) => Told(s, r.content)'
  BY <1>1 DEF Told, Events, Tells
<1>8. (\E e \in Events(m) : Tells(e, s, r.content)) => OnItsWay(s, r)'
  BY <1>5 DEF OnItsWay, Events, Tells
<1>9. Safe(s, r)'
  BY <1>6, <1>7, <1>8 DEF Safe, Sound, Owes
<1> QED
  BY <1>1, <1>9, LedgerSafe

\* A run is staged.
LEMMA StageTells ==
  ASSUME AnnouncementInv, LedgerTells, GuardTells, CommandTellsNow, Stage
  PROVE  LedgerTells' /\ GuardTells' /\ CommandTellsNow'
<1> PICK c : c = command'
  OBVIOUS
<1>i. Inv /\ CommandHolds /\ CommandTells(command)
  BY DEF AnnouncementInv, DeliveryInv, CommandTellsNow
<1>1. /\ InPhase("published") /\ NoActivationGuard /\ UNCHANGED <<ledger, guard, journal, pending>>
      /\ c = [command EXCEPT !.phase = "finalize"]
  BY DEF Stage
<1>2. /\ command \in CommandSet /\ command.plan = <<>> /\ command.op = "sync"
  BY <1>1, <1>i, AtPhase DEF PhaseOf, Working
<1>3. c.plan = <<>> /\ c.phase = "finalize" /\ c.op = "sync"
  BY <1>1, <1>2 DEF CommandSet
<1>4. CommandTellsNow'
  BY <1>3, UnplannedTellsNext DEF CommandTellsNow
<1>5. ASSUME NEW s \in Sources, ledger'[s] # NoRecord
      PROVE  Safe(s, ledger[s])'
  <2>1. ledger[s] \in Records /\ Safe(s, ledger[s])
    BY <1>1, <1>5, <1>i DEF Inv, Typed, LedgerTells, NoActivationGuard
  <2> QED
    BY <2>1, StagedTells
<1> QED
  BY <1>1, <1>4, <1>5 DEF LedgerTells, GuardTells, NoActivationGuard

\* An adopted version owes nothing.
LEMMA AdoptTells ==
  ASSUME AnnouncementInv, LedgerTells, GuardTells, Growing, NEW s \in Sources, Adopt(s)
  PROVE  LedgerTells' /\ GuardTells'
<1> PICK n : n = AdoptVersion(ledger[s], raw[s], clock')
  OBVIOUS
<1>1. /\ guard' = guard /\ NoActivationGuard /\ ledger[s] # NoRecord
      /\ ledger' = [ledger EXCEPT ![s] = n]
      /\ ledger \in [Sources -> Records \union {NoRecord}]
  BY DEF Adopt, AnnouncementInv, DeliveryInv, Inv, Typed
<1>2. ASSUME NEW x \in Sources, ledger'[x] # NoRecord
      PROVE  Safe(x, ledger[x])'
  <2> PICK r : r = ledger'[x]
    OBVIOUS
  <2>1. Safe(x, r)
    <3>1. CASE x = s
      <4>1. r = n /\ ledger[s] \in Records
        BY <1>1, <3>1
      <4> QED
        BY <3>1, <4>1, NothingOwed
    <3>2. CASE x # s
      <4>1. r = ledger[x]
        BY <1>1, <3>2
      <4> QED
        BY <1>1, <1>2, <4>1 DEF LedgerTells, NoActivationGuard
    <3> QED
      BY <3>1, <3>2
  <2> QED
    BY <2>1, SafeStays, LedgerSafe
<1> QED
  BY <1>1, <1>2 DEF LedgerTells, GuardTells, NoActivationGuard

\* The steps that change the spool, but for the staging of a run.
LEMMA SpoolTells ==
  ASSUME Obedient, AnnouncementInv, LedgerTells, GuardTells, CommandTellsNow, Growing,
         \/ OpenNew \/ WriteHeader \/ PublishHandoffs \/ Finalize \/ SavePending
         \/ DropJournal \/ DropStaged \/ Acknowledge \/ DropPending \/ Stop
         \/ (\E m \in manifests : Consume(m)) \/ (\E s \in Sources : Adopt(s))
         \/ \E item \in Items : StartRegister(item)
  PROVE  LedgerTells' /\ GuardTells' /\ CommandTellsNow'
<1> PICK c : c = command'
  OBVIOUS
<1>i. Inv /\ CommandHolds /\ CommandTells(command)
  BY DEF AnnouncementInv, DeliveryInv, CommandTellsNow
<1>0. LedgerTells' /\ GuardTells'
  <2>1. CASE \E s \in Sources : Adopt(s)
    BY <2>1, AdoptTells
  <2>2. CASE ~\E s \in Sources : Adopt(s)
    <3>1. UNCHANGED <<ledger, guard>>
      BY <2>2 DEF OpenNew, WriteHeader, PublishHandoffs, Finalize, SavePending, DropJournal,
                  DropStaged, Acknowledge, DropPending, Stop, Consume, StartRegister, disk
    <3> QED
      BY <3>1, LedgerTellsOn
  <2> QED
    BY <2>1, <2>2
<1>c. ASSUME CommandTells(c)'
      PROVE  CommandTellsNow'
  BY <1>c DEF CommandTellsNow
<1>e. SafePlan(<<>>)'
  <2>1. \A i \in 1 .. Len(<<>>) : FALSE
    OBVIOUS
  <2> QED
    BY <2>1 DEF SafePlan
<1>1. CASE OpenNew \/ WriteHeader
  <2>1. /\ command # Idle /\ command.plan = <<>> /\ command \in CommandSet /\ raw' = raw
        /\ command.op = "sync" /\ command.phase = "header" => command.seen = raw
    <3>1. CASE OpenNew
      BY <1>i, <3>1 DEF OpenNew, Opening, InPhase, Inv, Typed
    <3>2. CASE WriteHeader
      BY <1>i, <3>2, AtPhase DEF WriteHeader, InPhase, PhaseOf, Working, CommandTells
    <3> QED
      BY <1>1, <3>1, <3>2
  <2>2. c.plan = <<>> /\ c.phase \in {"header", "hash"} /\ c.op = "sync" /\ c.seen = raw'
    <3>1. CASE OpenNew
      <4>1. command.op = "sync"
        BY <3>1 DEF OpenNew, Opening
      <4> QED
        BY <2>1, <3>1, <4>1 DEF OpenNew, CommandSet
    <3>2. CASE WriteHeader
      <4>1. command.phase = "header" /\ command.op = "sync" /\ command.seen = raw
        BY <1>i, <3>2, AtPhase DEF WriteHeader, PhaseOf, Working, CommandTells
      <4> QED
        BY <2>1, <3>2, <4>1 DEF WriteHeader, CommandSet
    <3> QED
      BY <1>1, <3>1, <3>2
  <2>3. CommandTells(c)'
    BY <1>e, <2>2 DEF CommandTells
  <2> QED
    BY <1>0, <1>c, <2>3
<1>2. CASE PublishHandoffs
  <2>1. /\ InPhase("observe") /\ command.todo = {} /\ UNCHANGED <<ledger, journal>>
        /\ c = [command EXCEPT !.phase = "published"]
    BY <1>2 DEF PublishHandoffs, Publishing
  <2>2. /\ command # Idle /\ command \in CommandSet /\ command.plan = <<>>
        /\ command.op = "sync" /\ command.phase = "observe"
    BY <1>i, <2>1, AtPhase DEF PhaseOf, Working
  <2>3. c.plan = <<>> /\ c.phase = "published" /\ c.op = "sync"
    BY <2>1, <2>2 DEF CommandSet
  <2>4. \A s \in Sources : NeedsAgent(s) => Prepared(Handed(s)) \in Frames(journal.log)
    <3>1. \A i \in 1 .. Len(<<>>) : FALSE
      OBVIOUS
    <3>2. HandedOver(command)
      BY <1>i, <2>2 DEF CommandTells
    <3> QED
      BY <2>1, <2>2, <3>1, <3>2 DEF HandedOver
  <2>5. HandedOver(c)'
    BY <2>1, <2>4 DEF HandedOver, NeedsAgent, Handed
  <2>6. CommandTells(c)'
    BY <1>e, <2>3, <2>5 DEF CommandTells
  <2> QED
    BY <1>0, <1>c, <2>6
<1>3. CASE Finalize \/ SavePending \/ DropJournal \/ DropStaged \/ Acknowledge
  <2>1. /\ command # Idle /\ command.plan = <<>> /\ command \in CommandSet
        /\ command.op # "register"
    <3>1. PICK phase \in {"finalize", "save_pending", "drop_journal", "drop_staged", "acknowledge"} :
               InPhase(phase)
      BY <1>3 DEF Finalize, SavePending, DropJournal, DropStaged, Acknowledge
    <3> QED
      BY <1>i, <3>1, AtPhase DEF PhaseOf, EndSpooled
  <2>2. c # Idle => /\ c.plan = <<>> /\ c.op # "register"
                    /\ c.phase \in {"save_pending", "drop_journal", "drop_staged",
                                    "acknowledge", "drop_pending"}
    BY <1>3, <2>1 DEF Finalize, SavePending, DropJournal, DropStaged, Acknowledge, CommandSet
  <2> QED
    BY <1>0, <1>c, <2>2, UnplannedTellsNext
<1>4. CASE DropPending \/ Stop \/ (\E m \in manifests : Consume(m)) \/ (\E s \in Sources : Adopt(s))
  <2>1. c = Idle
    BY <1>4 DEF DropPending, Stop, Consume, Adopt
  <2> QED
    BY <1>0, <1>c, <2>1, UnplannedTellsNext
<1>5. ASSUME NEW item \in Items, StartRegister(item)
      PROVE  CommandTellsNow'
  <2>1. /\ c = [NewCommand("register", "none", "recover", {}, item) EXCEPT !.at = clock']
        /\ AllAcknowledged /\ UNCHANGED disk
    BY <1>5 DEF StartRegister
  <2>2. c.plan = <<>> /\ c.phase = "recover" /\ AllAcknowledged'
    BY <2>1 DEF NewCommand, disk, AllAcknowledged
  <2> QED
    BY <1>c, <2>2, UnplannedTellsNext
<1> QED
  BY <1>0, <1>1, <1>2, <1>3, <1>4, <1>5

\* The inductive invariant: what a record owes has been told, or is on its way.
TellingInv == AnnouncementInv /\ LedgerTells /\ GuardTells /\ CommandTellsNow

\* At the start there is nothing to tell.
LEMMA InitTells == Init => TellingInv
<1> SUFFICES ASSUME Init
             PROVE  TellingInv
  OBVIOUS
<1>1. AnnouncementInv
  BY InitAnnounces
<1> QED
  BY <1>1 DEF Init, TellingInv, LedgerTells, GuardTells, CommandTellsNow, CommandTells

\* Every step keeps it, while the client is obedient and the raw files undisturbed.
LEMMA NextTells ==
  ASSUME Obedient, TellingInv, [Next]_vars, [Undisturbed]_vars
  PROVE  TellingInv'
<1>1. /\ AnnouncementInv /\ AnnouncementInv' /\ DeliveryInv /\ DeliveryInv'
      /\ LedgerTells /\ GuardTells /\ CommandTellsNow
  BY NextAnnounces DEF TellingInv, AnnouncementInv
<1>2. Undisturbed
  BY DEF Undisturbed, vars
<1>3. LedgerTells' /\ GuardTells' /\ CommandTellsNow'
  <2>1. CASE UNCHANGED vars
    <3>1. UNCHANGED <<raw, disk, history, command>>
      BY <2>1 DEF vars
    <3>2. Growing
      BY <3>1 DEF Growing, Outstanding, ResultOf, KeptAt, disk, history
    <3> PICK c : c = command
      OBVIOUS
    <3>3. CommandTells(c)'
      BY <1>1, <3>1, <3>2, MemoryTells DEF CommandTellsNow
    <3> QED
      BY <1>1, <3>1, <3>2, <3>3, LedgerTellsOn DEF CommandTellsNow, disk
  <2>2. CASE Stage
    BY <1>1, <2>2, StageTells
  <2>3. CASE Next /\ ~Stage
    <3>1. Growing
      BY <1>1, <1>2, <2>3, NextGrows
    <3>2. CASE EmitStep \/ CommitStep \/ SaveStep \/ GuardStep \/ CheckStep \/ ClearStep
      BY <1>1, <3>1, <3>2, StepTells
    <3>3. CASE Recalls
      BY <1>1, <1>2, <3>1, <3>3, RecallsTell
    <3>4. CASE \/ OpenNew \/ WriteHeader \/ PublishHandoffs \/ Finalize \/ SavePending
               \/ DropJournal \/ DropStaged \/ Acknowledge \/ DropPending \/ Stop
               \/ (\E m \in manifests : Consume(m)) \/ (\E s \in Sources : Adopt(s))
               \/ \E item \in Items : StartRegister(item)
      BY <1>1, <3>1, <3>4, SpoolTells
    <3> QED
      BY <2>3, <3>2, <3>3, <3>4, StepKinds
  <2> QED
    BY <2>1, <2>2, <2>3
<1> QED
  BY <1>1, <1>3 DEF TellingInv

\* Between commands, with every result acknowledged, nothing is on its way any more.
LEMMA TellingAnnounces == TellingInv => ActiveIsAnnounced
<1> SUFFICES ASSUME TellingInv, AllAcknowledged, NoActivationGuard,
                    NEW s \in Sources, ledger[s] # NoRecord, ledger[s].active
             PROVE  \E m \in taken : \E e \in Events(m) :
                       /\ e.kind # "citation_rewrite"
                       /\ e.source = s /\ e.record.content = ledger[s].content
  BY DEF ActiveIsAnnounced
<1> PICK r : r = ledger[s]
  OBVIOUS
<1>1. Safe(s, r) /\ r.active
  BY DEF TellingInv, LedgerTells, NoActivationGuard
<1>2. Owes(r)
  BY <1>1 DEF Safe, Sound, Owes
<1>3. ~OnItsWay(s, r)
  BY DEF AllAcknowledged, OnItsWay, Outstanding
<1>4. Told(s, r.content)
  BY <1>1, <1>2, <1>3 DEF Safe
<1> QED
  BY <1>4 DEF Told, Tells

\* When every result is acknowledged, each active derivation has been announced, or
\* its source was handed to the client to derive: whatever a crash, a rollback or a
\* resumed run lost on the way was prepared again before its run was staged, and a
\* staged announcement is in the one result of its run (_finalize_recoverable,
\* _existing_event, recover_stale_extraction, collect_durable_handoffs). It is proved
\* for a client that changes the ledger only between acknowledged results, and for
\* raw files that nobody touches from the opening of a journal until its run is
\* staged: a file moved or changed then turns the record the announcement was
\* prepared for into another, and the announcement is dropped.
THEOREM ActiveTold ==
  ASSUME Obedient
  PROVE  Spec /\ [][Undisturbed]_vars => []ActiveIsAnnounced
<1>1. Init => TellingInv
  BY InitTells
<1>2. TellingInv /\ [Next]_vars /\ [Undisturbed]_vars => TellingInv'
  BY NextTells
<1>3. TellingInv => ActiveIsAnnounced
  BY TellingAnnounces
<1> QED
  BY <1>1, <1>2, <1>3, PTL DEF Spec

\* Only an edit changes a raw file.
LEMMA RawEditedOnly ==
  ASSUME Next
  PROVE  raw' = raw \/ \E s \in Sources : Edit(s)
<1>1. CASE EmitStep \/ CommitStep \/ SaveStep \/ GuardStep \/ CheckStep \/ ClearStep
  BY <1>1 DEF EmitStep, CommitStep, SaveStep, GuardStep, CheckStep, ClearStep
<1>2. CASE Recalls
  BY <1>2 DEF Recalls, CheckFails, StepFails, OpenPending, OpenStaged, OpenResumed, Refuse,
              HashUnmatched, Reconciled, Register, DropRefused, StartSync, RecoverGuard,
              ReconcileAbsent, ReconcileFile, ReconcileUnverified, ReconcileFails, Observe,
              JobDone, StartJob, StartAcknowledge, StartReacknowledge
<1>3. CASE \/ OpenNew \/ WriteHeader \/ PublishHandoffs \/ Stage \/ Finalize \/ SavePending
           \/ DropJournal \/ DropStaged \/ Acknowledge \/ DropPending \/ Stop
           \/ (\E m \in manifests : Consume(m)) \/ (\E s \in Sources : Adopt(s))
           \/ \E item \in Items : StartRegister(item)
  BY <1>3 DEF OpenNew, WriteHeader, PublishHandoffs, Stage, Finalize, SavePending, DropJournal,
              DropStaged, Acknowledge, DropPending, Stop, Consume, Adopt, StartRegister
<1> QED
  BY <1>1, <1>2, <1>3, StepKinds

\* Where no raw file is edited nothing is disturbed, as in the run of the model checker:
\* then the theorem holds of the specification as it stands (init and sync on an
\* unchanged sources/raw, interrupted and resumed anywhere).
THEOREM ActiveToldUnedited ==
  ASSUME Obedient, MaxEdits = 0
  PROVE  Spec => []ActiveIsAnnounced
<1>1. Inv /\ [Next]_vars => [Undisturbed]_vars
  <2>1. SUFFICES ASSUME Inv, Next
                 PROVE  Undisturbed
    BY DEF vars
  <2>2. edits \in Nat /\ edits >= 0
    BY <2>1 DEF Inv, Typed, TypeOK
  <2>3. ~\E s \in Sources : Edit(s)
    BY <2>2 DEF Edit
  <2> QED
    BY <2>1, <2>3, RawEditedOnly DEF Undisturbed
<1>2. TellingInv => Inv
  BY DEF TellingInv, AnnouncementInv, DeliveryInv
<1>3. Init => TellingInv
  BY InitTells
<1>4. TellingInv /\ [Next]_vars /\ [Undisturbed]_vars => TellingInv'
  BY NextTells
<1>5. TellingInv => ActiveIsAnnounced
  BY TellingAnnounces
<1> QED
  BY <1>1, <1>2, <1>3, <1>4, <1>5, PTL DEF Spec
=============================================================================
