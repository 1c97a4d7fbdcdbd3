--------------------------- MODULE Workspace_proofs ---------------------------
(***************************************************************************)
(* Type correctness of Workspace, for any number of Terminals, Previews,   *)
(* Runs, requests of users and mishaps.  The types are split by what is    *)
(* written together; for every actor, its steps keep the store's parts and *)
(* the actor's own record.                                                 *)
(***************************************************************************)
EXTENDS Workspace, TLAPS

TerminalTyped == term \in [TermActors -> [Terminals -> TermRecords]] /\ wakes \subseteq Terminals
PreviewTyped  == view \in [ViewActors -> [Previews -> ViewRecords]] /\ timers \subseteq Previews
CleanupTyped  == idle \in [Sessions -> IdleRecords] /\ stop \in [Stops -> StopRecords]

\* The parts of the store's types, by who writes them together.
LeaseTyped   == lease \in [status : LeaseStatuses, ref : SandboxRefs] /\ seen \in SUBSET Readers
RowTyped     == terminal \in [id : Terminals \cup {None}, box : SandboxRefs, bound : BOOLEAN]
ViewRowTyped == preview \in [id : Previews \cup {None}, box : SandboxRefs,
                             status : {"starting", "running"}]
ProcessTyped == /\ sandbox \in [Sandboxes -> {"none", "live", "gone"}]
                /\ shell \in [Terminals -> SandboxRefs]
                /\ vite \in [Previews -> SandboxRefs]
RunTyped     == run \in [Runs -> {"absent", "active", "done"}]
CountTyped   == mishaps \in 0..MaxMishaps

StoreTyped == /\ project \in BOOLEAN
              /\ LeaseTyped /\ RowTyped /\ ViewRowTyped /\ ProcessTyped /\ RunTyped /\ CountTyped

\* Together they are the type invariant of the store.
LEMMA StoreParts == StoreTyped => StoreTypeOK
  BY DEF StoreTyped, StoreTypeOK, LeaseTyped, RowTyped, ViewRowTyped, ProcessTyped, RunTyped,
         CountTyped

\* Whoever reads the Lease has a name.
LEMMA ReaderNames ==
    /\ \A t \in Terminals : /\ \A a \in TermActors : <<a, t>> \in Readers
                            /\ <<"idle", t>> \in Readers
    /\ \A p \in Previews : /\ \A a \in ViewActors : <<a, p>> \in Readers
                           /\ <<"idle", p>> \in Readers
    /\ \A u \in Stops : <<"stop", u>> \in Readers
    /\ \A r \in Runs : <<"run", r>> \in Readers
  BY DEF Readers, TermActors, ViewActors, Sessions

LEMMA InitTyped == Init => StoreTyped /\ TerminalTyped /\ PreviewTyped /\ CleanupTyped
<1> SUFFICES ASSUME Init PROVE StoreTyped /\ TerminalTyped /\ PreviewTyped /\ CleanupTyped
  OBVIOUS
<1>1. StoreTyped
  BY MishapsAssumption DEF Init, StoreInit, StoreTyped, LeaseTyped, RowTyped, ViewRowTyped,
                           ProcessTyped, RunTyped, CountTyped, LeaseStatuses, SandboxRefs,
                            Sandboxes, NoTerminal, NoPreview
<1>2. TerminalTyped
  BY DEF Init, TerminalInit, TerminalTyped, TermRecords, NoTerm, SandboxRefs
<1>3. PreviewTyped
  BY DEF Init, PreviewInit, PreviewTyped, ViewRecords, NoView, SandboxRefs
<1>4. CleanupTyped
  BY DEF Init, CleanupInit, CleanupTyped, IdleRecords, StopRecords, NotScheduled, NoStop,
         SandboxRefs
<1> QED BY <1>1, <1>2, <1>3, <1>4

\* The operations of the store, in the parts they write.
LEMMA CountStep == CountTyped /\ (Mishap \/ NoMishap \/ UNCHANGED mishaps) => CountTyped'
  BY MishapsAssumption DEF CountTyped, Mishap, NoMishap

LEMMA WriteTyped ==
    ASSUME NEW me \in Readers, NEW st \in LeaseStatuses, NEW ref \in SandboxRefs,
           WriteLease(me, st, ref)
    PROVE  LeaseTyped'
  BY DEF WriteLease, LeaseTyped

LEMMA DestroyTyped ==
    ASSUME ProcessTyped, NEW s \in SandboxRefs, Destroy(s)
    PROVE  ProcessTyped'
  BY DEF Destroy, ProcessTyped, SandboxRefs

LEMMA NoSessionTyped ==
    /\ NoTerminal \in [id : Terminals \cup {None}, box : SandboxRefs, bound : BOOLEAN]
    /\ NoPreview \in [id : Previews \cup {None}, box : SandboxRefs,
                      status : {"starting", "running"}]
  BY DEF NoTerminal, NoPreview, SandboxRefs

\* What an actor of a Terminal records.
LEMMA RecordTyped ==
    ASSUME TerminalTyped, NEW a \in TermActors, NEW t \in Terminals, NEW rec \in TermRecords,
           term' = [term EXCEPT ![a][t] = rec], wakes' \subseteq Terminals
    PROVE  TerminalTyped'
  BY DEF TerminalTyped

LEMMA GotoTyped ==
    ASSUME TerminalTyped, NEW a \in TermActors, NEW t \in Terminals,
           NEW pc \in {"off", "managed", "read", "done"} \cup StartupPcs \cup CleanupPcs,
           Goto(a, t, pc), wakes' \subseteq Terminals
    PROVE  TerminalTyped'
<1> DEFINE old == term[a][t]
<1>1. old \in TermRecords
  BY DEF TerminalTyped
<1>2. [old EXCEPT !.pc = pc] \in TermRecords
  <2> HIDE DEF old
  <2> QED BY <1>1 DEF TermRecords
<1>3. term' = [term EXCEPT ![a][t] = [old EXCEPT !.pc = pc]]
  BY DEF Goto, TerminalTyped
<1> QED BY <1>2, <1>3, RecordTyped

LEMMA FinishTyped ==
    ASSUME TerminalTyped, NEW a \in TermActors, NEW t \in Terminals,
           Finish(a, t), wakes' \subseteq Terminals
    PROVE  TerminalTyped'
<1>1. [NoTerm EXCEPT !.pc = "done"] \in TermRecords
  BY DEF NoTerm, TermRecords, SandboxRefs
<1> QED BY <1>1, RecordTyped DEF Finish

LEMMA ThrowTyped ==
    ASSUME TerminalTyped, NEW t \in Terminals, Throw(t), wakes' \subseteq Terminals
    PROVE  TerminalTyped'
<1> DEFINE rec == term["open"][t]
<1>1. "open" \in TermActors /\ rec \in TermRecords
  BY DEF TermActors, TerminalTyped
<1>2. FailedOpen(rec) \in TermRecords
  <2> HIDE DEF rec
  <2> QED BY <1>1 DEF FailedOpen, TermRecords, CleanupPcs
<1>3. term' = [term EXCEPT !["open"][t] = FailedOpen(rec)]
  BY <1>1 DEF Throw, TerminalTyped
<1> QED BY <1>1, <1>2, <1>3, RecordTyped

\* A part of the state that a step leaves alone keeps its type.
LEMMA Keeps ==
    /\ RunTyped /\ UNCHANGED run => RunTyped'
    /\ LeaseTyped /\ UNCHANGED <<lease, seen>> => LeaseTyped'
    /\ RowTyped /\ UNCHANGED terminal => RowTyped'
    /\ ViewRowTyped /\ UNCHANGED preview => ViewRowTyped'
    /\ ProcessTyped /\ UNCHANGED <<sandbox, shell, vite>> => ProcessTyped'
    /\ TerminalTyped /\ UNCHANGED <<term, wakes>> => TerminalTyped'
    /\ PreviewTyped /\ UNCHANGED <<view, timers>> => PreviewTyped'
    /\ CleanupTyped /\ UNCHANGED <<idle, stop>> => CleanupTyped'
  BY DEF RunTyped, LeaseTyped, RowTyped, ViewRowTyped, ProcessTyped, TerminalTyped,
         PreviewTyped, CleanupTyped

-----------------------------------------------------------------------------
(* The steps of a Terminal                                                 *)

LEMMA OpenTerminalTyped ==
    ASSUME StoreTyped, TerminalTyped, NEW t \in Terminals, OpenTerminal(t)
    PROVE  StoreTyped' /\ TerminalTyped'
<1>1. LeaseTyped'
  BY ReaderNames DEF OpenTerminal, StoreTyped, LeaseTyped, ReadLease, Me, TermActors
<1>2. [NoTerm EXCEPT !.pc = "claim", !.ref = lease.ref] \in TermRecords
  BY DEF StoreTyped, LeaseTyped, NoTerm, TermRecords, StartupPcs, SandboxRefs
<1>3. TerminalTyped'
  BY <1>2, RecordTyped DEF OpenTerminal, TermActors, TerminalTyped
<1> QED BY <1>1, <1>3, Keeps, CountStep DEF StoreTyped, OpenTerminal, processVars, NoMishap

LEMMA ClaimSessionTyped ==
    ASSUME StoreTyped, TerminalTyped, NEW t \in Terminals, ClaimSession(t)
    PROVE  StoreTyped' /\ TerminalTyped'
<1>0. [id |-> t, box |-> None, bound |-> FALSE] \in
        [id : Terminals \cup {None}, box : SandboxRefs, bound : BOOLEAN]
  BY DEF SandboxRefs
<1>1. RowTyped'
  BY <1>0 DEF ClaimSession, StoreTyped, RowTyped, ClaimTerminal
<1>3. TerminalTyped'
  BY GotoTyped, FinishTyped DEF ClaimSession, TermActors, TerminalTyped, StartupPcs
<1> QED BY <1>1, <1>3, Keeps, CountStep DEF StoreTyped, ClaimSession, processVars, NoMishap

LEMMA ScheduleExpiryTyped ==
    ASSUME StoreTyped, TerminalTyped, NEW t \in Terminals, ScheduleTerminalExpiry(t)
    PROVE  StoreTyped' /\ TerminalTyped'
<1>3. TerminalTyped'
  BY GotoTyped DEF ScheduleTerminalExpiry, TermActors, TerminalTyped, StartupPcs, CleanupPcs
<1> QED BY <1>3, Keeps, CountStep DEF StoreTyped, ScheduleTerminalExpiry, processVars, rowVars

LEMMA WriteLeaseStepTyped ==
  ASSUME StoreTyped, TerminalTyped, NEW t \in Terminals, NEW at, NEW st \in LeaseStatuses,
         NEW ref \in SandboxRefs,
         NEW next \in {"ensure", "bind", "managed"}, WriteLeaseStep(t, at, st, ref, next)
  PROVE StoreTyped' /\ TerminalTyped'
<1>1. Me(t) \in Readers /\ "open" \in TermActors
  BY ReaderNames DEF Me, TermActors
<1>2. UpdateState(Me(t), st, ref) => LeaseTyped' /\ ViewRowTyped'
  BY <1>1, WriteTyped, NoSessionTyped DEF UpdateState, StoreTyped, ViewRowTyped
<1>3. LeaseTyped' /\ ViewRowTyped'
  BY <1>2, Keeps DEF WriteLeaseStep, StoreTyped
<1>4. TerminalTyped'
  <2>1. CASE Throw(t)
    BY <2>1, ThrowTyped DEF WriteLeaseStep, TerminalTyped
  <2>2. CASE term' = [term EXCEPT
                !["open"][t].pc = next, !["open"][t].ref = ref,
                !["open"][t].phase = IF next = "managed" THEN "session" ELSE "startup"]
    <3> DEFINE old == term["open"][t]
               rec == [old EXCEPT !.pc = next, !.ref = ref,
                            !.phase = IF next = "managed" THEN "session" ELSE "startup"]
    <3>1. old \in TermRecords
      BY <1>1 DEF TerminalTyped
    <3>2. rec \in TermRecords
      <4> HIDE DEF old
      <4> QED BY <3>1 DEF TermRecords, StartupPcs
    <3>3. term' = [term EXCEPT !["open"][t] = rec]
      BY <1>1, <2>2 DEF TerminalTyped
    <3> QED BY <1>1, <3>2, <3>3, RecordTyped DEF WriteLeaseStep, TerminalTyped
  <2> QED BY <2>1, <2>2 DEF WriteLeaseStep
<1> QED BY <1>3, <1>4, Keeps, CountStep DEF StoreTyped, WriteLeaseStep, processVars, NoMishap

LEMMA MarkTyped ==
    ASSUME StoreTyped, TerminalTyped, NEW t \in Terminals,
           MarkStarting(t) \/ MarkReady(t) \/ MarkBusy(t)
    PROVE  StoreTyped' /\ TerminalTyped'
<1>1. Box("open", t) \in SandboxRefs /\ term["open"][t].ref \in SandboxRefs
  BY DEF TerminalTyped, TermRecords, TermActors, Box
<1>2. {"starting", "ready", "busy"} \subseteq LeaseStatuses
  BY DEF LeaseStatuses
<1> QED BY <1>1, <1>2, WriteLeaseStepTyped DEF MarkStarting, MarkReady, MarkBusy

LEMMA EnsureSandboxTyped ==
    ASSUME StoreTyped, TerminalTyped, NEW t \in Terminals, EnsureSandbox(t)
    PROVE  StoreTyped' /\ TerminalTyped'
<1>1. ProcessTyped'
  BY DEF EnsureSandbox, StoreTyped, ProcessTyped, Sandboxes
<1>4. TerminalTyped'
  <2>1. CASE Throw(t)
    BY <2>1, ThrowTyped DEF EnsureSandbox, TerminalTyped
  <2>2. ASSUME NEW box \in SandboxRefs,
               term' = [term EXCEPT !["open"][t].pc = "ready", !["open"][t].box = box]
        PROVE TerminalTyped'
    <3> DEFINE old == term["open"][t]
               rec == [old EXCEPT !.pc = "ready", !.box = box]
    <3>1. old \in TermRecords
      BY DEF TerminalTyped, TermActors
    <3>2. rec \in TermRecords
      <4> HIDE DEF old
      <4> QED BY <3>1 DEF TermRecords, StartupPcs
    <3>3. term' = [term EXCEPT !["open"][t] = rec]
      BY <2>2 DEF TerminalTyped, TermActors
    <3> QED BY <3>2, <3>3, RecordTyped DEF EnsureSandbox, TerminalTyped, TermActors
  <2>3. t \in SandboxRefs /\ term["open"][t].ref \in SandboxRefs
    BY DEF SandboxRefs, Sandboxes, TerminalTyped, TermActors, TermRecords
  <2> QED BY <2>1, <2>2, <2>3 DEF EnsureSandbox
<1> QED BY <1>1, <1>4, Keeps, CountStep DEF StoreTyped, EnsureSandbox, rowVars

LEMMA BindTyped ==
    ASSUME StoreTyped, TerminalTyped, NEW t \in Terminals, BindSandbox(t) \/ BindPty(t)
    PROVE  StoreTyped' /\ TerminalTyped'
<1>1. Box("open", t) \in SandboxRefs
  BY DEF TerminalTyped, TermRecords, TermActors, Box
<1>2. RowTyped'
  <2>1. CASE terminal' = terminal
    BY <2>1, Keeps DEF StoreTyped
  <2>2. CASE terminal' = [terminal EXCEPT !.box = Box("open", t)]
    BY <1>1, <2>2 DEF StoreTyped, RowTyped
  <2>3. CASE terminal' = [terminal EXCEPT !.bound = TRUE]
    BY <2>3 DEF StoreTyped, RowTyped
  <2> QED BY <2>1, <2>2, <2>3 DEF BindSandbox, BindPty
<1>3. TerminalTyped'
  BY GotoTyped, ThrowTyped DEF BindSandbox, BindPty, TermActors, TerminalTyped, StartupPcs
<1> QED BY <1>2, <1>3, Keeps, CountStep DEF StoreTyped, BindSandbox, BindPty, processVars

LEMMA SpawnPtyTyped ==
    ASSUME StoreTyped, TerminalTyped, NEW t \in Terminals, SpawnPty(t)
    PROVE  StoreTyped' /\ TerminalTyped'
<1>1. Box("open", t) \in SandboxRefs
  BY DEF TerminalTyped, TermRecords, TermActors, Box
<1>2. ProcessTyped'
  BY <1>1 DEF SpawnPty, StoreTyped, ProcessTyped
<1>4. TerminalTyped'
  <2>1. CASE Throw(t)
    BY <2>1, ThrowTyped DEF SpawnPty, TerminalTyped
  <2>2. CASE term' = [term EXCEPT !["open"][t].pc = "bindPty", !["open"][t].spawned = TRUE]
    <3> DEFINE old == term["open"][t]
               rec == [old EXCEPT !.pc = "bindPty", !.spawned = TRUE]
    <3>1. old \in TermRecords
      BY DEF TerminalTyped, TermActors
    <3>2. rec \in TermRecords
      <4> HIDE DEF old
      <4> QED BY <3>1 DEF TermRecords, StartupPcs
    <3>3. term' = [term EXCEPT !["open"][t] = rec]
      BY <2>2 DEF TerminalTyped, TermActors
    <3> QED BY <3>2, <3>3, RecordTyped DEF SpawnPty, TerminalTyped, TermActors
  <2> QED BY <2>1, <2>2 DEF SpawnPty
<1> QED BY <1>2, <1>4, Keeps, CountStep DEF StoreTyped, SpawnPty, rowVars

LEMMA OtherTerminalStepTyped ==
    ASSUME StoreTyped, TerminalTyped, NEW t \in Terminals,
           CloseTerminal(t) \/ LoseWorker(t) \/ LoseExpiry(t) \/ ReadSession(t)
    PROVE  StoreTyped' /\ TerminalTyped'
<1>1. CASE CloseTerminal(t)
  BY <1>1, GotoTyped, Keeps, CountStep DEF CloseTerminal, TermActors, CleanupPcs,
                                           TerminalTyped, StoreTyped, storeVars, NoMishap
<1>2. CASE LoseWorker(t)
  BY <1>2, FinishTyped, Keeps, CountStep DEF LoseWorker, TermActors, TerminalTyped, StoreTyped,
                                             rowVars, processVars
<1>3. NoTerm \in TermRecords
  BY DEF NoTerm, TermRecords, SandboxRefs
<1>4. CASE LoseExpiry(t)
  BY <1>3, <1>4, RecordTyped, Keeps, CountStep DEF LoseExpiry, TermActors, TerminalTyped,
                                                   StoreTyped, rowVars, processVars
<1>5. CASE ReadSession(t)
  <2> DEFINE rec == [NoTerm EXCEPT !.ref = lease.ref, !.box = terminal.box,
                                      !.pc = IF terminal.box = None THEN "failLease"
                                             ELSE IF terminal.bound THEN "kill" ELSE "isolate"]
  <2>1. lease.ref \in SandboxRefs /\ terminal.box \in SandboxRefs
    BY DEF StoreTyped, LeaseTyped, RowTyped
  <2>2. rec \in TermRecords
    BY <1>3, <2>1 DEF TermRecords, CleanupPcs
  <2>3. TerminalTyped'
    BY <1>5, <2>2, RecordTyped, FinishTyped DEF ReadSession, TermActors, TerminalTyped
  <2> QED BY <1>5, <2>3, Keeps, CountStep DEF ReadSession, StoreTyped, storeVars, NoMishap
<1> QED BY <1>1, <1>2, <1>4, <1>5

LEMMA PtyExitsTyped ==
    ASSUME StoreTyped, TerminalTyped, NEW t \in Terminals, PtyExits(t)
    PROVE  StoreTyped' /\ TerminalTyped'
<1>2. ProcessTyped'
  BY DEF PtyExits, StoreTyped, ProcessTyped, SandboxRefs
<1>4. TerminalTyped'
  <3> DEFINE old == term["open"][t]
             rec == [old EXCEPT !.pc = "release", !.phase = "exited"]
  <3>1. old \in TermRecords
    BY DEF TerminalTyped, TermActors
  <3>2. rec \in TermRecords
    <4> HIDE DEF old
    <4> QED BY <3>1 DEF TermRecords, CleanupPcs
  <3>3. term' = [term EXCEPT !["open"][t] = rec]
    BY DEF TerminalTyped, TermActors, PtyExits
  <3>4. "open" \in TermActors /\ wakes' \subseteq Terminals
    BY DEF PtyExits, TerminalTyped, TermActors
  <3> QED BY <3>2, <3>3, <3>4, RecordTyped
<1> QED BY <1>2, <1>4, Keeps, CountStep DEF StoreTyped, PtyExits, rowVars, NoMishap

LEMMA CleanUpStepTyped ==
  ASSUME StoreTyped, TerminalTyped, NEW a \in TermActors, NEW t \in Terminals, CleanUp(a, t)
  PROVE  StoreTyped' /\ TerminalTyped'
<1>0. /\ Box(a, t) \in SandboxRefs /\ term[a][t].ref \in SandboxRefs
      /\ <<a, t>> \in Readers /\ <<"idle", t>> \in Readers
      /\ {"idle", "stopped", "failed"} \subseteq LeaseStatuses /\ None \in SandboxRefs
  BY ReaderNames DEF TerminalTyped, TermRecords, Box, SandboxRefs, LeaseStatuses
<1>1. TerminalTyped'
  <2>1. wakes' \subseteq Terminals
    BY DEF CleanUp, KillPty, ReleaseIdle, StopSandbox, ReleaseStopped, KeepSession, FailLease,
           DropSession, TerminalTyped
  <2>2. \/ \E pc \in {"off", "release", "isolate", "idle", "stopped", "keep", "drop"} :
             Goto(a, t, pc)
        \/ Finish(a, t)
    BY DEF CleanUp, KillPty, ReleaseIdle, StopSandbox, ReleaseStopped, KeepSession, FailLease,
           DropSession
  <2> QED BY <2>1, <2>2, GotoTyped, FinishTyped DEF CleanupPcs
<1>2. CASE KillPty(a, t)
  <2>1. ProcessTyped'
    BY <1>0, <1>2 DEF KillPty, StoreTyped, ProcessTyped
  <2> QED BY <1>1, <1>2, <2>1, Keeps, CountStep DEF KillPty, StoreTyped, rowVars
<1>3. CASE ReleaseIdle(a, t)
  <2>1. ReleaseAsIdle(<<"idle", t>>, t, Box(a, t)) => LeaseTyped' /\ RowTyped' /\ ViewRowTyped'
    BY <1>0, WriteTyped, NoSessionTyped, Keeps DEF ReleaseAsIdle, StoreTyped, RowTyped
  <2> QED BY <1>1, <1>3, <2>1, Keeps, CountStep DEF ReleaseIdle, StoreTyped, processVars,
                                                    NoMishap
<1>4. CASE StopSandbox(a, t)
  BY <1>0, <1>1, <1>4, DestroyTyped, Keeps, CountStep DEF StopSandbox, StoreTyped, rowVars,
                                                          processVars
<1>5. CASE ReleaseStopped(a, t)
  <2>1. ReleaseAsStopped(<<a, t>>, t, Box(a, t)) => LeaseTyped' /\ RowTyped' /\ ViewRowTyped'
    BY <1>0, WriteTyped, NoSessionTyped, Keeps DEF ReleaseAsStopped, StoreTyped, RowTyped,
                                                   ViewRowTyped
  <2> QED BY <1>1, <1>5, <2>1, Keeps, CountStep DEF ReleaseStopped, StoreTyped, processVars
<1>6. CASE KeepSession(a, t)
  <2>1. LeaseTyped' /\ RowTyped' /\ ViewRowTyped'
    BY <1>0, <1>6, WriteTyped, Keeps DEF KeepSession, FailKeepingSession, StoreTyped
  <2> QED BY <1>1, <1>6, <2>1, Keeps, CountStep DEF KeepSession, StoreTyped, processVars,
                                                    NoMishap
<1>7. CASE FailLease(a, t)
  <2>1. UpdateState(<<a, t>>, "failed", term[a][t].ref) => LeaseTyped' /\ ViewRowTyped'
    BY <1>0, WriteTyped, NoSessionTyped DEF UpdateState, StoreTyped, ViewRowTyped
  <2>2. LeaseTyped' /\ ViewRowTyped'
    BY <1>7, <2>1, Keeps DEF FailLease, StoreTyped
  <2> QED BY <1>1, <1>7, <2>2, Keeps, CountStep DEF FailLease, StoreTyped, processVars, NoMishap
<1>8. CASE DropSession(a, t)
  <2>1. RowTyped'
    BY <1>8, NoSessionTyped DEF DropSession, ReleaseTerminal, StoreTyped, RowTyped
  <2> QED BY <1>1, <1>8, <2>1, Keeps, CountStep DEF DropSession, StoreTyped, processVars
<1> QED BY <1>2, <1>3, <1>4, <1>5, <1>6, <1>7, <1>8 DEF CleanUp

LEMMA TerminalNextTyped ==
    ASSUME StoreTyped, TerminalTyped, NEW t \in Terminals, TerminalNext(t)
    PROVE  StoreTyped' /\ TerminalTyped'
  BY OpenTerminalTyped, ClaimSessionTyped, ScheduleExpiryTyped, MarkTyped, EnsureSandboxTyped,
     BindTyped, SpawnPtyTyped, OtherTerminalStepTyped, PtyExitsTyped, CleanUpStepTyped
  DEF TerminalNext, Startup, Expire, TermActors

-----------------------------------------------------------------------------
(* The steps of a Preview                                                  *)

ViewPcs == {"off", "inspect", "claim", "schedule", "spawn", "mark", "undo",
            "kill", "probe", "fetch", "drop", "idle", "done"}

\* What an actor of a Preview records.
LEMMA ViewRecordTyped ==
    ASSUME PreviewTyped, NEW a \in ViewActors, NEW p \in Previews, NEW rec \in ViewRecords,
           view' = [view EXCEPT ![a][p] = rec], timers' \subseteq Previews
    PROVE  PreviewTyped'
  BY DEF PreviewTyped

LEMMA MoveTyped ==
    ASSUME PreviewTyped, NEW a \in ViewActors, NEW p \in Previews, NEW pc \in ViewPcs,
           Move(a, p, pc), timers' \subseteq Previews
    PROVE  PreviewTyped'
<1> DEFINE old == view[a][p]
<1>1. old \in ViewRecords
  BY DEF PreviewTyped
<1>2. [old EXCEPT !.pc = pc] \in ViewRecords
  <2> HIDE DEF old
  <2> QED BY <1>1 DEF ViewRecords, ViewPcs
<1>3. view' = [view EXCEPT ![a][p] = [old EXCEPT !.pc = pc]]
  BY DEF Move, PreviewTyped
<1> QED BY <1>2, <1>3, ViewRecordTyped

LEMMA NewViewTyped ==
    ASSUME NEW pc \in ViewPcs, NEW box \in SandboxRefs, NEW b \in BOOLEAN
    PROVE  [pc |-> pc, box |-> box, idle |-> b] \in ViewRecords
  BY DEF ViewRecords, ViewPcs

LEMMA ChangedViewTyped ==
    ASSUME NEW rec \in ViewRecords, NEW pc \in ViewPcs, NEW box \in SandboxRefs
    PROVE  /\ [rec EXCEPT !.pc = pc] \in ViewRecords
           /\ [rec EXCEPT !.pc = pc, !.box = box] \in ViewRecords
  BY DEF ViewRecords, ViewPcs

LEMMA NoViewTyped == NoView \in ViewRecords
  BY DEF NoView, ViewRecords, SandboxRefs

LEMMA LeaveTyped ==
    ASSUME PreviewTyped, NEW a \in ViewActors, NEW p \in Previews, Leave(a, p),
           timers' \subseteq Previews
    PROVE  PreviewTyped'
<1> DEFINE pc == IF a = "use" THEN "off" ELSE "done"
<1>1. pc \in ViewPcs
  BY DEF ViewPcs
<1>2. view' = [view EXCEPT ![a][p] = [NoView EXCEPT !.pc = pc]]
  BY DEF Leave
<1> HIDE DEF pc
<1>3. [NoView EXCEPT !.pc = pc] \in ViewRecords
  BY <1>1, NoViewTyped, ChangedViewTyped, None \in SandboxRefs DEF SandboxRefs
<1> QED BY <1>2, <1>3, ViewRecordTyped

LEMMA StartPreviewTyped ==
    ASSUME StoreTyped, PreviewTyped, NEW p \in Previews, StartPreview(p)
    PROVE  StoreTyped' /\ PreviewTyped'
<1>1. LeaseTyped'
  BY ReaderNames DEF StartPreview, StoreTyped, LeaseTyped, ReadLease, ViewActors
<1>2. lease.ref \in SandboxRefs
  BY DEF StoreTyped, LeaseTyped
<1>4. [NoView EXCEPT !.pc = "inspect", !.box = lease.ref] \in ViewRecords
  BY <1>2, NoViewTyped, ChangedViewTyped DEF ViewPcs
<1>3. PreviewTyped'
  BY <1>4, ViewRecordTyped DEF StartPreview, PreviewTyped, ViewActors
<1> QED BY <1>1, <1>3, Keeps, CountStep DEF StoreTyped, StartPreview, processVars

LEMMA StartStepTyped ==
    ASSUME StoreTyped, PreviewTyped, NEW p \in Previews, StartStep(p)
    PROVE  StoreTyped' /\ PreviewTyped'
<1>0. PreviewTyped'
  <2>1. timers' \subseteq Previews
    BY DEF StartStep, InspectWorkspace, ClaimPreviewSession, SchedulePreviewExpiry, SpawnVite,
           MarkPreviewRunning, UndoSpawn, PreviewTyped
  <2>2. "start" \in ViewActors
    BY DEF ViewActors
  <2>3. \/ \E pc \in ViewPcs : Move("start", p, pc)
        \/ Leave("start", p)
    BY DEF StartStep, InspectWorkspace, ClaimPreviewSession, SchedulePreviewExpiry, SpawnVite,
           MarkPreviewRunning, UndoSpawn, ViewPcs
  <2> QED BY <2>1, <2>2, <2>3, MoveTyped, LeaveTyped
<1>1. CASE InspectWorkspace(p)
  BY <1>0, <1>1, Keeps, CountStep DEF InspectWorkspace, StoreTyped, storeVars
<1>2. CASE ClaimPreviewSession(p)
  <2>1. [id |-> p, box |-> lease.ref, status |-> "starting"]
          \in [id : Previews \cup {None}, box : SandboxRefs, status : {"starting", "running"}]
    BY DEF StoreTyped, LeaseTyped
  <2>2. ViewRowTyped'
    BY <1>2, <2>1, Keeps DEF ClaimPreviewSession, ClaimPreview, StoreTyped, ViewRowTyped
  <2> QED BY <1>0, <1>2, <2>2, Keeps, CountStep DEF ClaimPreviewSession, StoreTyped, processVars
<1>3. CASE SchedulePreviewExpiry(p)
  BY <1>0, <1>3, Keeps, CountStep DEF SchedulePreviewExpiry, StoreTyped, rowVars, processVars
<1>4. CASE SpawnVite(p)
  <2>1. view["start"][p].box \in SandboxRefs
    BY DEF PreviewTyped, ViewRecords, ViewActors
  <2>2. ProcessTyped'
    BY <1>4, <2>1 DEF SpawnVite, StoreTyped, ProcessTyped
  <2> QED BY <1>0, <1>4, <2>2, Keeps, CountStep DEF SpawnVite, StoreTyped, rowVars
<1>5. CASE MarkPreviewRunning(p)
  <2>1. ViewRowTyped'
    BY <1>5 DEF MarkPreviewRunning, MarkRunning, StoreTyped, ViewRowTyped
  <2> QED BY <1>0, <1>5, <2>1, Keeps, CountStep DEF MarkPreviewRunning, StoreTyped, processVars
<1>6. CASE UndoSpawn(p)
  <2>2. ProcessTyped'
    BY <1>6 DEF UndoSpawn, StoreTyped, ProcessTyped, SandboxRefs
  <2> QED BY <1>0, <1>6, <2>2, Keeps, CountStep DEF UndoSpawn, StoreTyped, rowVars
<1> QED BY <1>1, <1>2, <1>3, <1>4, <1>5, <1>6 DEF StartStep

LEMMA ReadSessionTyped ==
    ASSUME StoreTyped, PreviewTyped, NEW a \in ViewActors, NEW p \in Previews,
           NEW next \in ViewPcs, ReadSessionAndLease(a, p, next), UNCHANGED <<timers, lease>>
    PROVE  LeaseTyped' /\ PreviewTyped'
<1>0. <<a, p>> \in Readers
  BY ReaderNames
<1>1. LeaseTyped'
  BY <1>0 DEF ReadSessionAndLease, ReadLease, StoreTyped, LeaseTyped
<1>2. preview.box \in SandboxRefs
  BY DEF StoreTyped, ViewRowTyped
<1>3. PreviewTyped'
  BY <1>2, NewViewTyped, ViewRecordTyped DEF ReadSessionAndLease, PreviewTyped, ViewPcs
<1> QED BY <1>1, <1>3

LEMMA UseOrExpireTyped ==
    ASSUME StoreTyped, PreviewTyped, NEW p \in Previews, UsePreview(p) \/ ExpirePreview(p)
    PROVE  StoreTyped' /\ PreviewTyped'
<1>1. LeaseTyped' /\ PreviewTyped'
  <2>1. CASE UsePreview(p)
    BY <2>1, ReadSessionTyped DEF UsePreview, ViewPcs, ViewActors
  <2>2. CASE ExpirePreview(p) /\ preview.id = p
    <3>1. (IF preview.status = "running" THEN "kill" ELSE "drop") \in ViewPcs
      BY DEF ViewPcs
    <3>2. "expire" \in ViewActors
      BY DEF ViewActors
    <3> QED BY <2>2, <3>1, <3>2, ReadSessionTyped DEF ExpirePreview
  <2>3. CASE ExpirePreview(p) /\ preview.id # p
    BY <2>3, LeaveTyped, Keeps DEF ExpirePreview, ViewActors, PreviewTyped, StoreTyped
  <2> QED BY <2>1, <2>2, <2>3
<1> QED BY <1>1, Keeps, CountStep DEF StoreTyped, UsePreview, ExpirePreview, processVars

LEMMA ProbeTyped ==
    ASSUME StoreTyped, PreviewTyped, NEW p \in Previews, ProbeVite(p)
    PROVE  StoreTyped' /\ PreviewTyped'
<1>1. "use" \in ViewActors /\ "drop" \in ViewPcs /\ timers' \subseteq Previews
  BY DEF ViewActors, ViewPcs, ProbeVite, PreviewTyped
<1>2. Move("use", p, "drop") \/ Leave("use", p)
  BY DEF ProbeVite
<1> QED BY <1>1, <1>2, MoveTyped, LeaveTyped, Keeps, CountStep DEF ProbeVite, StoreTyped,
           storeVars

LEMMA EndStepTyped ==
    ASSUME StoreTyped, PreviewTyped, NEW a \in ViewActors, NEW p \in Previews, EndStep(a,
           p) \/ LoseView(a, p)
    PROVE  StoreTyped' /\ PreviewTyped'
<1>0. PreviewTyped'
  <2>1. timers' \subseteq Previews
    BY DEF EndStep, KillVite, DropPreview, LoseView, PreviewTyped
  <2>3. \/ \E pc \in ViewPcs : Move(a, p, pc)
        \/ Leave(a, p)
        \/ view' = [view EXCEPT ![a][p] = NoView]
    BY DEF EndStep, KillVite, DropPreview, LoseView, ViewPcs
  <2> QED BY <2>1, <2>3, MoveTyped, LeaveTyped, NoViewTyped, ViewRecordTyped DEF ViewPcs
<1>1. CASE KillVite(a, p)
  <2>2. ProcessTyped'
    BY <1>1 DEF KillVite, StoreTyped, ProcessTyped, SandboxRefs
  <2> QED BY <1>0, <1>1, <2>2, Keeps, CountStep DEF KillVite, StoreTyped, rowVars
<1>2. CASE DropPreview(a, p)
  <2>1. ViewRowTyped'
    BY <1>2, NoSessionTyped DEF DropPreview, ReleasePreview, StoreTyped, ViewRowTyped
  <2> QED BY <1>0, <1>2, <2>1, Keeps, CountStep DEF DropPreview, StoreTyped, processVars
<1>3. CASE LoseView(a, p)
  BY <1>0, <1>3, Keeps, CountStep DEF LoseView, StoreTyped, rowVars, processVars
<1> QED BY <1>1, <1>2, <1>3 DEF EndStep

LEMMA PreviewNextTyped ==
    ASSUME StoreTyped, PreviewTyped, NEW p \in Previews, PreviewNext(p)
    PROVE  StoreTyped' /\ PreviewTyped'
  BY StartPreviewTyped, StartStepTyped, UseOrExpireTyped, ProbeTyped,
     EndStepTyped DEF PreviewNext

-----------------------------------------------------------------------------
(* The idle cleanups and the users' stops                                  *)

LEMMA ScheduleTyped ==
    ASSUME CleanupTyped, NEW x \in Sessions, Schedule(x), UNCHANGED stop
    PROVE  CleanupTyped'
<1>1. [idle EXCEPT ![x].pc = "asleep"] \in [Sessions -> IdleRecords]
  BY DEF CleanupTyped, IdleRecords
<1> QED BY <1>1 DEF Schedule, CleanupTyped

LEMMA ScheduleTerminalIdleTyped ==
    ASSUME StoreTyped, TerminalTyped, CleanupTyped, NEW a \in TermActors, NEW t \in Terminals,
           ScheduleTerminalIdle(a, t)
            PROVE StoreTyped' /\ TerminalTyped' /\ CleanupTyped'
<1>1. CleanupTyped'
  BY ScheduleTyped DEF ScheduleTerminalIdle, Sessions
<1>2. TerminalTyped'
  BY FinishTyped DEF ScheduleTerminalIdle, TerminalTyped
<1>3. StoreTyped'
  BY Keeps, CountStep DEF ScheduleTerminalIdle, Schedule, StoreTyped, rowVars, processVars
<1> QED BY <1>1, <1>2, <1>3

LEMMA SchedulePreviewIdleTyped ==
    ASSUME StoreTyped, PreviewTyped, CleanupTyped, NEW a \in ViewActors, NEW p \in Previews,
           SchedulePreviewIdle(a, p)
            PROVE StoreTyped' /\ PreviewTyped' /\ CleanupTyped'
<1>1. CleanupTyped'
  BY ScheduleTyped DEF SchedulePreviewIdle, Sessions
<1>2. PreviewTyped'
  BY LeaveTyped DEF SchedulePreviewIdle, PreviewTyped
<1>4. LeaseTyped'
  BY ReaderNames DEF SchedulePreviewIdle, StoreTyped, LeaseTyped
<1>3. StoreTyped'
  BY <1>4, Keeps, CountStep DEF SchedulePreviewIdle, Schedule, StoreTyped, processVars
<1> QED BY <1>1, <1>2, <1>3

LEMMA IdleStepTyped ==
    ASSUME StoreTyped, CleanupTyped, NEW x \in Sessions,
           ReclaimAfterActivity(x) \/ StopReclaimed(x)
            PROVE StoreTyped' /\ CleanupTyped'
<1>0. /\ lease.ref \in SandboxRefs /\ None \in SandboxRefs /\ idle[x].box \in SandboxRefs
      /\ "stopped" \in LeaseStatuses /\ <<"idle", x>> \in Readers
  BY ReaderNames DEF StoreTyped, LeaseTyped, SandboxRefs, LeaseStatuses, CleanupTyped,
                     IdleRecords, Sessions
<1>1. CASE ReclaimAfterActivity(x)
  <2>1. LeaseTyped'
    BY <1>0, <1>1, WriteTyped, Keeps DEF ReclaimAfterActivity, DetachSandbox, StoreTyped
  <2>2. CleanupTyped'
    BY <1>0, <1>1 DEF ReclaimAfterActivity, CleanupTyped, IdleRecords
  <2> QED BY <1>1, <2>1, <2>2, Keeps, CountStep DEF ReclaimAfterActivity, StoreTyped,
                                                    processVars
<1>2. CASE StopReclaimed(x)
  <2>2. CleanupTyped'
    BY <1>0, <1>2 DEF StopReclaimed, CleanupTyped, IdleRecords
  <2>3. ProcessTyped'
    BY <1>0, <1>2, DestroyTyped, Keeps DEF StopReclaimed, StoreTyped, processVars
  <2> QED BY <1>2, <2>2, <2>3, Keeps, CountStep DEF StopReclaimed, StoreTyped, rowVars
<1> QED BY <1>1, <1>2

\* Where a request of a user can go next.
LEMMA AnswerTyped ==
    ASSUME CleanupTyped, NEW u \in Stops, UNCHANGED idle,
              \/ GoOn(u) \/ Answer(u)
              \/ \E pc \in {"claim", "stop"} : StopTo(u, pc)
            PROVE CleanupTyped'
<1>1. \A pc \in {"claim", "stop", "delete"} :
        [stop EXCEPT ![u].pc = pc] \in [Stops -> StopRecords]
  BY DEF CleanupTyped, StopRecords
<1>2. [NoStop EXCEPT !.pc = "done"] \in StopRecords
  BY DEF NoStop, StopRecords, SandboxRefs
<1> QED BY <1>1, <1>2 DEF CleanupTyped, GoOn, Answer, StopTo

LEMMA StopStepTyped ==
    ASSUME StoreTyped, CleanupTyped, NEW u \in Stops, RequestStop(u) \/ StopStep(u)
            PROVE StoreTyped' /\ CleanupTyped'
<1>0. /\ lease.ref \in SandboxRefs /\ None \in SandboxRefs /\ stop[u].box \in SandboxRefs
      /\ "stopped" \in LeaseStatuses /\ <<"stop", u>> \in Readers
  BY ReaderNames DEF StoreTyped, LeaseTyped, SandboxRefs, LeaseStatuses, CleanupTyped,
                     StopRecords
<1>1. CASE RequestStop(u)
  <2>1. LeaseTyped'
    BY <1>0, <1>1 DEF RequestStop, ReadLease, StoreTyped, LeaseTyped
  <2>2. \A b \in BOOLEAN : [pc |-> "check", box |-> lease.ref, deletes |-> b] \in StopRecords
    BY <1>0 DEF StopRecords
  <2>3. CleanupTyped'
    BY <1>1, <2>2 DEF RequestStop, CleanupTyped
  <2> QED BY <1>1, <2>1, <2>3, Keeps, CountStep DEF RequestStop, StoreTyped, processVars
<1>2. CASE CheckActivities(u)
  BY <1>2, AnswerTyped, Keeps, CountStep DEF CheckActivities, StoreTyped, storeVars
<1>3. CASE ClaimForManualStop(u)
  <2>1. LeaseTyped'
    BY <1>0, <1>3, WriteTyped, Keeps DEF ClaimForManualStop, DetachSandbox, StoreTyped
  <2>2. CleanupTyped'
    BY <1>3, AnswerTyped DEF ClaimForManualStop
  <2> QED BY <1>3, <2>1, <2>2, Keeps, CountStep DEF ClaimForManualStop, StoreTyped, processVars
<1>4. CASE StopClaimed(u)
  <2>1. ProcessTyped'
    BY <1>0, <1>4, DestroyTyped, Keeps DEF StopClaimed, StoreTyped, processVars
  <2>2. CleanupTyped'
    BY <1>4, AnswerTyped DEF StopClaimed
  <2> QED BY <1>4, <2>1, <2>2, Keeps, CountStep DEF StopClaimed, StoreTyped, rowVars
<1>5. CASE DeleteProject(u)
  <2>1. [status |-> "stopped", ref |-> None] \in [status : LeaseStatuses, ref : SandboxRefs]
    BY <1>0
  <2>2. project' \in BOOLEAN /\ LeaseTyped' /\ RowTyped' /\ ViewRowTyped'
    BY <1>5, <2>1, NoSessionTyped DEF DeleteProject, StoreTyped, LeaseTyped, RowTyped,
                                      ViewRowTyped
  <2>3. CleanupTyped'
    BY <1>5, AnswerTyped DEF DeleteProject
  <2> QED BY <1>5, <2>2, <2>3, Keeps, CountStep DEF DeleteProject, StoreTyped, processVars
<1> QED BY <1>1, <1>2, <1>3, <1>4, <1>5 DEF StopStep

-----------------------------------------------------------------------------
(* The Runs, the Provider, and all of them together                        *)

LEMMA RunStepTyped ==
    ASSUME StoreTyped, NEW r \in Runs, InsertRun(r) \/ RunTakesSandbox(r) \/ RunEnds(r)
    PROVE  StoreTyped'
<1>0. /\ lease.ref \in SandboxRefs /\ None \in SandboxRefs /\ r \in SandboxRefs
      /\ {"stopped", "idle", "failed", "busy"} \subseteq LeaseStatuses /\ <<"run", r>> \in Readers
  BY ReaderNames DEF StoreTyped, LeaseTyped, SandboxRefs, Sandboxes, LeaseStatuses
<1>1. CASE InsertRun(r)
  <2>1. LeaseTyped' /\ RunTyped'
    BY <1>0, <1>1 DEF InsertRun, ReadLease, StoreTyped, LeaseTyped, RunTyped
  <2> QED BY <1>1, <2>1, Keeps, CountStep DEF InsertRun, StoreTyped, processVars
<1>2. CASE RunTakesSandbox(r)
  <2>1. LeaseTyped'
    BY <1>0, <1>2, WriteTyped DEF RunTakesSandbox
  <2>2. ProcessTyped'
    BY <1>2 DEF RunTakesSandbox, StoreTyped, ProcessTyped, Sandboxes
  <2> QED BY <1>2, <2>1, <2>2, Keeps, CountStep DEF RunTakesSandbox, StoreTyped
<1>3. CASE RunEnds(r)
  <2>1. LeaseTyped'
    BY <1>0, <1>3, WriteTyped DEF RunEnds
  <2>2. ProcessTyped' /\ ViewRowTyped'
    BY <1>0, <1>3, DestroyTyped, NoSessionTyped, Keeps DEF RunEnds, StoreTyped, processVars,
                                                           ViewRowTyped
  <2>3. RunTyped'
    BY <1>3 DEF RunEnds, StoreTyped, RunTyped
  <2> QED BY <1>3, <2>1, <2>2, <2>3, Keeps, CountStep DEF RunEnds, StoreTyped
<1> QED BY <1>1, <1>2, <1>3

LEMMA EnvironmentTyped ==
    ASSUME StoreTyped, Environment
    PROVE  StoreTyped'
<1>1. ASSUME NEW s \in Sandboxes, SandboxIsLost(s) PROVE StoreTyped'
  <2>1. ProcessTyped'
    BY <1>1, DestroyTyped DEF SandboxIsLost, StoreTyped, SandboxRefs
  <2> QED BY <1>1, <2>1, Keeps, CountStep DEF SandboxIsLost, StoreTyped, rowVars
<1>2. ASSUME NEW p \in Previews, ViteExits(p) PROVE StoreTyped'
  <2>1. ProcessTyped'
    BY <1>2 DEF ViteExits, StoreTyped, ProcessTyped, SandboxRefs
  <2> QED BY <1>2, <2>1, Keeps, CountStep DEF ViteExits, StoreTyped, rowVars
<1> QED BY <1>1, <1>2 DEF Environment

\* The inductive invariant: the types, part by part.
IInv == StoreTyped /\ TerminalTyped /\ PreviewTyped /\ CleanupTyped
LEMMA NextTyped == IInv /\ [Next]_vars => IInv'
<1> SUFFICES ASSUME IInv, [Next]_vars PROVE IInv'
  OBVIOUS
<1> USE DEF IInv
<1>1. ASSUME NEW t \in Terminals, TerminalNext(t), UNCHANGED <<previewVars,
             cleanupVars>> PROVE IInv'
  BY <1>1, TerminalNextTyped, Keeps DEF previewVars, cleanupVars
<1>2. ASSUME NEW p \in Previews, PreviewNext(p), UNCHANGED <<terminalVars,
             cleanupVars>> PROVE IInv'
  BY <1>2, PreviewNextTyped, Keeps DEF terminalVars, cleanupVars
<1>3. ASSUME NEW a \in TermActors, NEW t \in Terminals, ScheduleTerminalIdle(a, t) PROVE IInv'
  BY <1>3, ScheduleTerminalIdleTyped, Keeps DEF ScheduleTerminalIdle, previewVars
<1>4. ASSUME NEW a \in ViewActors, NEW p \in Previews, SchedulePreviewIdle(a, p) PROVE IInv'
  BY <1>4, SchedulePreviewIdleTyped, Keeps DEF SchedulePreviewIdle, terminalVars
<1>5. ASSUME NEW x \in Sessions, ReclaimAfterActivity(x) \/ StopReclaimed(x) PROVE IInv'
  BY <1>5, IdleStepTyped, Keeps DEF ReclaimAfterActivity, StopReclaimed, terminalVars,
                                    previewVars
<1>6. ASSUME NEW u \in Stops, RequestStop(u) \/ StopStep(u) PROVE IInv'
  BY <1>6, StopStepTyped, Keeps DEF RequestStop, StopStep, CheckActivities, ClaimForManualStop,
                                    StopClaimed, DeleteProject, terminalVars, previewVars
<1>7. ASSUME NEW r \in Runs, RunNext(r) PROVE IInv'
  BY <1>7, RunStepTyped, Keeps DEF RunNext, terminalVars, previewVars, cleanupVars
<1>8. CASE Environment
  BY <1>8, EnvironmentTyped, Keeps DEF Environment, terminalVars, previewVars, cleanupVars
<1>9. CASE UNCHANGED vars
  BY <1>9, Keeps, CountStep DEF vars, storeVars, terminalVars, previewVars, cleanupVars,
                                StoreTyped
<1> QED BY <1>1, <1>2, <1>3, <1>4, <1>5, <1>6, <1>7, <1>8, <1>9 DEF Next, TerminalIdle,
           PreviewIdle, Sessions

\* Every variable of the composition keeps its type: each actor is always at a step of its
\* own, and every sandbox it, a row or a process names is First or that of its creator.
THEOREM TypeCorrect == Spec => []TypeOK
<1>1. Spec => []IInv
  BY InitTyped, NextTyped, PTL DEF Spec, IInv
<1>2. IInv => TypeOK
  BY StoreParts DEF IInv, TypeOK, TerminalTyped, PreviewTyped, CleanupTyped
<1> QED BY <1>1, <1>2, PTL

-----------------------------------------------------------------------------
(* Workspace implements ProjectOccupancy, for any number of Terminals,     *)
(* Previews, Runs, requests of users and mishaps.                          *)
(*                                                                         *)
(* The invariant says of every Terminal what its row, its PTY and its two  *)
(* actors know of each other: while the Project exists, a live PTY is that *)
(* of the session row; a startup that has claimed keeps its row, for its   *)
(* expiry waits; and a clean-up releases only when its PTY is gone.        *)

\* The startup before it has a PTY; the part of it that has claimed; the clean-up after
\* the PTY is gone.
NoPtyYet == {"off", "claim", "schedule", "starting", "ensure", "ready", "bind", "spawn"}
Claimed  == {"schedule", "starting", "ensure", "ready", "bind", "spawn"}
Cleared  == {"release", "stopped", "failLease", "drop"}

\* A live PTY is that of the session row.
ShellInRow(t) == shell[t] # None /\ project => terminal.id = t /\ terminal.box = shell[t]

\* A startup keeps the row it has claimed, and only it can create the expiry.
StartupHasRow(t) ==
    /\ term["open"][t].pc \in NoPtyYet => shell[t] = None /\ term["open"][t].phase = "startup"
    /\ term["open"][t].pc \in Claimed /\ project => terminal.id = t
    /\ term["open"][t].pc = "spawn" /\ project => terminal.box = term["open"][t].box
    /\ t \in wakes => term["open"][t].pc \notin {"off", "claim"}

\* Both actors know in which sandbox the PTY is, and the expiry begins after the startup.
KnowsShell(t) ==
    /\ term["open"][t].pc \notin {"off", "done"} => shell[t] \in {None, term["open"][t].box}
    /\ term["expire"][t].pc \notin {"off", "done"} =>
         shell[t] \in {None, term["expire"][t].box} /\ term["open"][t].pc \notin NoPtyYet
    /\ \A a \in TermActors : term[a][t].pc \in Cleared => shell[t] = None

Tracked(t) == ShellInRow(t) /\ StartupHasRow(t) /\ KnowsShell(t)

OneRun    == \A q, r \in Runs : run[q] = "active" /\ run[r] = "active" => q = r
RowOfProject == ~project => terminal.id = None

Exclusion == RunExcludesTerminal /\ OneRun

ShellsTracked == RowOfProject /\ \A t \in Terminals : Tracked(t)

\* A step that is not about Terminal t.
LEMMA Undisturbed ==
    ASSUME NEW t, Tracked(t),
           term'["open"][t] = term["open"][t],
           term'["expire"][t] = term["expire"][t],
           t \in wakes' => t \in wakes,
           shell'[t] \in {shell[t], None},
           project' => project,
           project' /\ terminal.id = t => terminal'.id = t /\ terminal'.box = terminal.box
    PROVE  Tracked(t)'
<1>1. ShellInRow(t)'
  BY DEF Tracked, ShellInRow
<1>2. StartupHasRow(t)'
  <2>1. (term["open"][t].pc \in NoPtyYet => shell[t] = None /\ term["open"][t].phase = "startup")'
    BY DEF Tracked, StartupHasRow
  <2>2. (term["open"][t].pc \in Claimed /\ project => terminal.id = t)'
    BY DEF Tracked, StartupHasRow
  <2>3. (term["open"][t].pc = "spawn" /\ project => terminal.box = term["open"][t].box)'
    BY DEF Tracked, StartupHasRow, Claimed
  <2>4. (t \in wakes => term["open"][t].pc \notin {"off", "claim"})'
    BY DEF Tracked, StartupHasRow
  <2> QED BY <2>1, <2>2, <2>3, <2>4 DEF StartupHasRow
<1>3. KnowsShell(t)'
  BY DEF Tracked, KnowsShell, TermActors
<1> QED BY <1>1, <1>2, <1>3 DEF Tracked

LEMMA TrackedInit == Init => ShellsTracked /\ OneRun
  BY DEF Init, StoreInit, TerminalInit, ShellsTracked, RowOfProject, Tracked, ShellInRow,
         StartupHasRow, KnowsShell, OneRun, NoTerm, TermActors, Claimed, Cleared, NoPtyYet


-----------------------------------------------------------------------------
(* What the statements of a Terminal do to its record                       *)

LEMMA GotoEffect ==
    ASSUME TerminalTyped, NEW a \in TermActors, NEW t \in Terminals, NEW pc, Goto(a, t, pc)
    PROVE  /\ term'[a][t].pc = pc
           /\ term'[a][t].box = term[a][t].box
           /\ term'[a][t].phase = term[a][t].phase
           /\ term'[a][t].ref = term[a][t].ref
           /\ \A b \in TermActors, u \in Terminals : b # a \/ u # t => term'[b][u] = term[b][u]
<1> DEFINE old == term[a][t]
           rec == [old EXCEPT !.pc = pc]
<1>1. old \in TermRecords
  BY DEF TerminalTyped
<1>2. term' = [term EXCEPT ![a][t] = rec]
  BY DEF Goto, TerminalTyped
<1>3. rec.pc = pc /\ rec.box = old.box /\ rec.phase = old.phase /\ rec.ref = old.ref
  <2> HIDE DEF old
  <2> QED BY <1>1 DEF TermRecords
<1> HIDE DEF rec
<1>4. term'[a][t] = rec
  BY <1>2 DEF TerminalTyped
<1>5. \A b \in TermActors, u \in Terminals : b # a \/ u # t => term'[b][u] = term[b][u]
  BY <1>2 DEF TerminalTyped
<1> QED BY <1>3, <1>4, <1>5

LEMMA FinishEffect ==
    ASSUME TerminalTyped, NEW a \in TermActors, NEW t \in Terminals, Finish(a, t)
    PROVE  /\ term'[a][t].pc = "done" /\ term'[a][t].phase = "startup"
           /\ term'[a][t].ref = None /\ term'[a][t].box = None
           /\ \A b \in TermActors, u \in Terminals : b # a \/ u # t => term'[b][u] = term[b][u]
<1> DEFINE rec == [NoTerm EXCEPT !.pc = "done"]
<1>1. rec.pc = "done" /\ rec.phase = "startup" /\ rec.ref = None /\ rec.box = None
  BY DEF NoTerm
<1>2. term' = [term EXCEPT ![a][t] = rec]
  BY DEF Finish
<1> HIDE DEF rec
<1>4. term'[a][t] = rec
  BY <1>2 DEF TerminalTyped
<1>5. \A b \in TermActors, u \in Terminals : b # a \/ u # t => term'[b][u] = term[b][u]
  BY <1>2 DEF TerminalTyped
<1> QED BY <1>1, <1>4, <1>5

LEMMA ThrowEffect ==
    ASSUME TerminalTyped, NEW t \in Terminals, Throw(t)
    PROVE  /\ \/ term["open"][t].box = None /\ term'["open"][t].pc = "failLease"
              \/ term["open"][t].box # None /\ term'["open"][t].pc \in {"kill", "isolate"}
           /\ term'["open"][t].box = term["open"][t].box
           /\ term'["open"][t].phase = term["open"][t].phase
           /\ term'["open"][t].ref = term["open"][t].ref
           /\ \A b \in TermActors, u \in Terminals :
                 b # "open" \/ u # t => term'[b][u] = term[b][u]
<1> DEFINE old == term["open"][t]
           rec == FailedOpen(old)
<1>0. "open" \in TermActors
  BY DEF TermActors
<1>1. old \in TermRecords
  BY <1>0 DEF TerminalTyped
<1>2. term' = [term EXCEPT !["open"][t] = rec]
  BY <1>0 DEF Throw, TerminalTyped
<1>3. /\ \/ old.box = None /\ rec.pc = "failLease"
         \/ old.box # None /\ rec.pc \in {"kill", "isolate"}
      /\ rec.box = old.box /\ rec.phase = old.phase /\ rec.ref = old.ref
  <2> HIDE DEF old
  <2> QED BY <1>1 DEF TermRecords, FailedOpen
<1> HIDE DEF rec
<1>4. term'["open"][t] = rec
  BY <1>0, <1>2 DEF TerminalTyped
<1>5. \A b \in TermActors, u \in Terminals : b # "open" \/ u # t => term'[b][u] = term[b][u]
  BY <1>0, <1>2 DEF TerminalTyped
<1> QED BY <1>3, <1>4, <1>5

\* A step of t leaves the other Terminals as they are.
LEMMA OnlyOne ==
    ASSUME ShellsTracked, NEW t \in Terminals,
           \A b \in TermActors, u \in Terminals : u # t => term'[b][u] = term[b][u],
           \A u \in Terminals :
             u # t => shell'[u] \in {shell[u], None} /\ (u \in wakes' => u \in wakes),
           \A u \in Terminals : u # t /\ terminal.id = u => terminal' = terminal,
           project' = project, RowOfProject', Tracked(t)'
    PROVE  ShellsTracked'
<1>1. ASSUME NEW u \in Terminals, u # t PROVE Tracked(u)'
  <2>1. Tracked(u) /\ "open" \in TermActors /\ "expire" \in TermActors
    BY DEF ShellsTracked, TermActors
  <2>2. term'["open"][u] = term["open"][u] /\ term'["expire"][u] = term["expire"][u]
    BY <1>1, <2>1
  <2> QED BY <1>1, <2>1, <2>2, Undisturbed
<1> QED BY <1>1 DEF ShellsTracked

LEMMA OpenTracked ==
    ASSUME TerminalTyped, ShellsTracked, NEW t \in Terminals, OpenTerminal(t)
    PROVE  ShellsTracked'
<1> DEFINE rec == [NoTerm EXCEPT !.pc = "claim", !.ref = lease.ref]
<1>1. rec.pc = "claim" /\ rec.phase = "startup" /\ rec.box = None
  BY DEF NoTerm
<1>2. term' = [term EXCEPT !["open"][t] = rec] /\ "open" \in TermActors /\ "expire" \in TermActors
  BY DEF OpenTerminal, TermActors
<1> HIDE DEF rec
<1>3. term'["open"][t] = rec /\ term'["expire"][t] = term["expire"][t]
  BY <1>2 DEF TerminalTyped
<1>4. \A b \in TermActors, u \in Terminals : u # t => term'[b][u] = term[b][u]
  BY <1>2 DEF TerminalTyped
<1>5. Tracked(t) /\ term["open"][t].pc = "off" /\ UNCHANGED <<wakes, project, shell, terminal>>
  BY DEF ShellsTracked, OpenTerminal, At, processVars
<1>6. Tracked(t)'
  BY <1>1, <1>3, <1>5 DEF Tracked, ShellInRow, StartupHasRow, KnowsShell, TermActors, NoPtyYet,
                          Claimed, Cleared
<1>7. RowOfProject'
  BY <1>5 DEF ShellsTracked, RowOfProject
<1> QED BY <1>4, <1>5, <1>6, <1>7, OnlyOne

LEMMA RowStaysNobodys ==
    ASSUME ShellsTracked, project' = project, terminal' = terminal \/ terminal'.id = None
    PROVE  RowOfProject'
  BY DEF ShellsTracked, RowOfProject

LEMMA Actors ==
    "open" \in TermActors /\ "expire" \in TermActors /\ None \notin Terminals /\ None \notin Runs
  BY NamesAssumption DEF TermActors, Sessions

\* While Terminal t starts, its expiry does nothing and no PTY is there.
LEMMA Beginning ==
    ASSUME ShellsTracked, NEW t \in Terminals, term["open"][t].pc \in NoPtyYet
    PROVE  /\ Tracked(t)
           /\ shell[t] = None /\ term["open"][t].phase = "startup"
           /\ term["expire"][t].pc \in {"off", "done"}
  BY DEF ShellsTracked, Tracked, StartupHasRow, KnowsShell

LEMMA ClaimTracked ==
    ASSUME StoreTyped, TerminalTyped, ShellsTracked, NEW t \in Terminals, ClaimSession(t)
    PROVE  ShellsTracked'
<1>0. /\ UNCHANGED <<wakes, project, shell>> /\ term["open"][t].pc = "claim"
      /\ Tracked(t)
  BY DEF ClaimSession, processVars, At, ShellsTracked
<1>1. CASE CanClaimTerminal(Me(t)) /\ ClaimTerminal(t) /\ Goto("open", t, "schedule")
  <2>1. /\ term'["open"][t].pc = "schedule"
        /\ term'["open"][t].phase = term["open"][t].phase
        /\ term'["open"][t].box = term["open"][t].box
        /\ \A b \in TermActors, u \in Terminals : b # "open" \/ u # t => term'[b][u] = term[b][u]
    BY <1>1, GotoEffect, Actors
  <2>2. project /\ terminal.id = None /\ terminal'.id = t
    BY <1>1 DEF CanClaimTerminal, ClaimTerminal
  <2>3. shell[t] = None
    BY <2>2, Actors, <1>0 DEF Tracked, ShellInRow
  <2>4. Tracked(t)'
    BY <1>0, <2>1, <2>2, <2>3, Actors DEF Tracked, ShellInRow, StartupHasRow, KnowsShell,
                                          TermActors, NoPtyYet, Claimed, Cleared
  <2>5. RowOfProject'
    BY <1>0, <2>2 DEF RowOfProject
  <2> QED BY <1>0, <2>1, <2>2, <2>4, <2>5, OnlyOne, Actors
<1>2. CASE Finish("open", t) /\ UNCHANGED terminal
  <2>1. /\ term'["open"][t].pc = "done"
        /\ \A b \in TermActors, u \in Terminals : b # "open" \/ u # t => term'[b][u] = term[b][u]
    BY <1>2, FinishEffect, Actors
  <2>4. Tracked(t)'
    BY <1>0, <1>2, <2>1, Actors DEF Tracked, ShellInRow, StartupHasRow, KnowsShell, TermActors,
                                    NoPtyYet, Claimed, Cleared
  <2> QED BY <1>0, <1>2, <2>1, <2>4, RowStaysNobodys, OnlyOne, Actors
<1> QED BY <1>1, <1>2 DEF ClaimSession

LEMMA ScheduleTracked ==
    ASSUME StoreTyped, TerminalTyped, ShellsTracked, NEW t \in Terminals,
           ScheduleTerminalExpiry(t)
    PROVE  ShellsTracked'
<1>0. /\ UNCHANGED <<terminal, project, shell>> /\ term["open"][t].pc = "schedule"
      /\ Tracked(t) /\ wakes' \in {wakes, wakes \cup {t}}
  BY DEF ScheduleTerminalExpiry, rowVars, processVars, At, ShellsTracked
<1>1. ASSUME NEW pc \in {"starting", "drop"}, Goto("open", t, pc) PROVE ShellsTracked'
  <2>1. /\ term'["open"][t].pc = pc
        /\ term'["open"][t].phase = term["open"][t].phase
        /\ term'["open"][t].box = term["open"][t].box
        /\ \A b \in TermActors, u \in Terminals : b # "open" \/ u # t => term'[b][u] = term[b][u]
    BY <1>1, GotoEffect, Actors
  <2>3. shell[t] = None /\ term["expire"][t].pc \in {"off", "done"}
    BY Beginning, <1>0 DEF NoPtyYet
  <2>4. Tracked(t)'
    BY <1>0, <2>1, <2>3, Actors DEF Tracked, ShellInRow, StartupHasRow, KnowsShell, TermActors,
                                    NoPtyYet, Claimed, Cleared
  <2>5. RowOfProject'
    BY <1>0, RowStaysNobodys
  <2> QED BY <1>0, <2>1, <2>4, <2>5, OnlyOne, Actors
<1> QED BY <1>1 DEF ScheduleTerminalExpiry


RowKeptOrBound(t) ==
    \/ terminal' = terminal
    \/ /\ terminal.id = t /\ terminal'.id = t
       /\ term["open"][t].pc = "bind" \/ terminal'.box = terminal.box

\* A step of the startup that throws.
LEMMA ThrowTracked ==
    ASSUME StoreTyped, TerminalTyped, ShellsTracked, NEW t \in Terminals, Throw(t),
           term["open"][t].pc \in StartupPcs \ {"claim", "schedule"},
           UNCHANGED <<wakes, project>>,
           \/ shell' = shell
           \/ /\ term["open"][t].pc = "spawn" /\ term["open"][t].box # None
              /\ shell' = [shell EXCEPT ![t] = term["open"][t].box] /\ terminal' = terminal,
           RowKeptOrBound(t)
    PROVE  ShellsTracked'
<1>1. /\ \/ term["open"][t].box = None /\ term'["open"][t].pc = "failLease"
         \/ term["open"][t].box # None /\ term'["open"][t].pc \in {"kill", "isolate"}
      /\ term'["open"][t].box = term["open"][t].box
      /\ \A b \in TermActors, u \in Terminals : b # "open" \/ u # t => term'[b][u] = term[b][u]
  BY ThrowEffect
<1>2. Tracked(t)
  BY DEF ShellsTracked
<1>3. term["open"][t].pc \in NoPtyYet =>
        shell[t] = None /\ term["expire"][t].pc \in {"off", "done"}
  BY Beginning
<1>4. /\ shell'[t] \in {None, term["open"][t].box}
      /\ term["expire"][t].pc \notin {"off", "done"} => shell' = shell
      /\ \A u \in Terminals : u # t => shell'[u] = shell[u]
  BY <1>2, <1>3 DEF Tracked, KnowsShell, StartupPcs, StoreTyped, ProcessTyped, NoPtyYet
<1>5. ShellInRow(t)'
  BY <1>2, <1>3, <1>4 DEF Tracked, ShellInRow, StartupHasRow, NoPtyYet, Claimed,
                          RowKeptOrBound, StoreTyped, ProcessTyped
<1>6. StartupHasRow(t)'
  BY <1>1, <1>2 DEF Tracked, StartupHasRow, NoPtyYet, Claimed, StartupPcs
<1>7. term'["open"][t].pc = "failLease" => shell'[t] = None
  BY <1>1, <1>4
<1>8. term'["expire"][t] = term["expire"][t]
  BY <1>1, Actors
<1>9. term["expire"][t].pc \in Cleared => shell'[t] = None
  BY <1>2, <1>4 DEF Tracked, KnowsShell, TermActors, Cleared
<1>10. KnowsShell(t)'
  BY <1>1, <1>2, <1>3, <1>4, <1>7, <1>8, <1>9 DEF Tracked, KnowsShell, TermActors, NoPtyYet,
                                                  Cleared
<1>11. RowOfProject'
  BY Actors, <1>2 DEF RowKeptOrBound, ShellsTracked, RowOfProject
<1> QED BY <1>1, <1>4, <1>5, <1>6, <1>10, <1>11, OnlyOne DEF Tracked, RowKeptOrBound

\* A step of the startup that goes on.
LEMMA StartupTracked ==
    ASSUME StoreTyped, TerminalTyped, ShellsTracked, NEW t \in Terminals,
           \A b \in TermActors, u \in Terminals : b # "open" \/ u # t => term'[b][u] = term[b][u],
           term["open"][t].pc \in {"starting", "ensure", "ready", "bind"},
           term'["open"][t].pc \in {"ensure", "ready", "bind", "spawn"},
           term'["open"][t].phase = "startup",
           UNCHANGED <<wakes, project, shell>>, RowKeptOrBound(t),
           term'["open"][t].pc = "spawn" => terminal'.box = term'["open"][t].box
    PROVE  ShellsTracked'
<1>1. Tracked(t) /\ shell[t] = None /\ term["expire"][t].pc \in {"off", "done"}
  BY Beginning DEF NoPtyYet
<1>2. term'["expire"][t] = term["expire"][t]
  BY Actors
<1>3. ShellInRow(t)'
  BY <1>1 DEF ShellInRow
<1>4. StartupHasRow(t)'
  BY <1>1 DEF Tracked, StartupHasRow, NoPtyYet, Claimed, RowKeptOrBound
<1>5. KnowsShell(t)'
  BY <1>1, <1>2 DEF Tracked, KnowsShell, TermActors, NoPtyYet, Cleared
<1>6. RowOfProject'
  BY Actors DEF RowKeptOrBound, ShellsTracked, RowOfProject
<1> QED BY <1>3, <1>4, <1>5, <1>6, OnlyOne DEF Tracked, RowKeptOrBound

\* What the success of a step that writes several fields does.
LeaseWritten(t, next, ref) ==
    term' = [term EXCEPT !["open"][t].pc = next, !["open"][t].ref = ref,
               !["open"][t].phase = IF next = "managed" THEN "session" ELSE "startup"]

LEMMA LeaseStepEffect ==
    ASSUME TerminalTyped, NEW t \in Terminals, NEW ref, NEW next, LeaseWritten(t, next, ref)
    PROVE  /\ term'["open"][t].pc = next
           /\ term'["open"][t].box = term["open"][t].box
           /\ term'["open"][t].ref = ref
           /\ next # "managed" => term'["open"][t].phase = "startup"
           /\ \A b \in TermActors, u \in Terminals :
                 b # "open" \/ u # t => term'[b][u] = term[b][u]
<1> DEFINE old == term["open"][t]
           rec == [old EXCEPT !.pc = next, !.ref = ref,
                              !.phase = IF next = "managed" THEN "session" ELSE "startup"]
<1>1. old \in TermRecords
  BY Actors DEF TerminalTyped
<1>2. term' = [term EXCEPT !["open"][t] = rec]
  BY Actors DEF TerminalTyped, LeaseWritten
<1>3. /\ rec.pc = next /\ rec.box = old.box /\ (next # "managed" => rec.phase = "startup")
      /\ rec.ref = ref
  <2> HIDE DEF old
  <2> QED BY <1>1 DEF TermRecords
<1> HIDE DEF rec
<1>6. term'["open"] = [term["open"] EXCEPT ![t] = rec]
  BY <1>2, Actors DEF TerminalTyped
<1>4. term'["open"][t] = rec
  BY <1>6, Actors DEF TerminalTyped
<1>5. \A b \in TermActors, u \in Terminals : b # "open" \/ u # t => term'[b][u] = term[b][u]
  BY <1>2, Actors DEF TerminalTyped
<1> QED BY <1>3, <1>4, <1>5

LEMMA EnsureEffect ==
    ASSUME TerminalTyped, NEW t \in Terminals, NEW box,
           term' = [term EXCEPT !["open"][t].pc = "ready", !["open"][t].box = box]
    PROVE  /\ term'["open"][t].pc = "ready"
           /\ term'["open"][t].phase = term["open"][t].phase
           /\ term'["open"][t].box = box /\ term'["open"][t].ref = term["open"][t].ref
           /\ \A b \in TermActors, u \in Terminals :
                 b # "open" \/ u # t => term'[b][u] = term[b][u]
<1> DEFINE old == term["open"][t]
           rec == [old EXCEPT !.pc = "ready", !.box = box]
<1>1. old \in TermRecords
  BY Actors DEF TerminalTyped
<1>2. term' = [term EXCEPT !["open"][t] = rec]
  BY Actors DEF TerminalTyped
<1>3. rec.pc = "ready" /\ rec.phase = old.phase /\ rec.box = box /\ rec.ref = old.ref
  <2> HIDE DEF old
  <2> QED BY <1>1 DEF TermRecords
<1> HIDE DEF rec
<1>4. term'["open"][t] = rec
  BY <1>2, Actors DEF TerminalTyped
<1>5. \A b \in TermActors, u \in Terminals : b # "open" \/ u # t => term'[b][u] = term[b][u]
  BY <1>2, Actors DEF TerminalTyped
<1> QED BY <1>3, <1>4, <1>5

LEMMA SpawnEffect ==
    ASSUME TerminalTyped, NEW t \in Terminals,
           term' = [term EXCEPT !["open"][t].pc = "bindPty", !["open"][t].spawned = TRUE]
    PROVE  /\ term'["open"][t].pc = "bindPty"
           /\ term'["open"][t].box = term["open"][t].box
           /\ term'["open"][t].phase = term["open"][t].phase
           /\ term'["open"][t].ref = term["open"][t].ref
           /\ \A b \in TermActors, u \in Terminals :
                 b # "open" \/ u # t => term'[b][u] = term[b][u]
<1> DEFINE old == term["open"][t]
           rec == [old EXCEPT !.pc = "bindPty", !.spawned = TRUE]
<1>1. old \in TermRecords
  BY Actors DEF TerminalTyped
<1>2. term' = [term EXCEPT !["open"][t] = rec]
  BY Actors DEF TerminalTyped
<1>3. /\ rec.pc = "bindPty" /\ rec.box = old.box
      /\ rec.phase = old.phase /\ rec.ref = old.ref
  <2> HIDE DEF old
  <2> QED BY <1>1 DEF TermRecords
<1> HIDE DEF rec
<1>4. term'["open"][t] = rec
  BY <1>2, Actors DEF TerminalTyped
<1>5. \A b \in TermActors, u \in Terminals : b # "open" \/ u # t => term'[b][u] = term[b][u]
  BY <1>2, Actors DEF TerminalTyped
<1> QED BY <1>3, <1>4, <1>5

\* A step after the startup's spawn: the PTY is as it was, or gone.
LEMMA LaterTracked ==
    ASSUME StoreTyped, TerminalTyped, ShellsTracked, NEW a \in TermActors, NEW t \in Terminals,
           \A b \in TermActors, u \in Terminals : b # a \/ u # t => term'[b][u] = term[b][u],
           term["open"][t].pc \notin NoPtyYet, term'["open"][t].pc \notin NoPtyYet,
           \/ term'[a][t].pc \in {"off", "done"}
           \/ term'[a][t].box = term[a][t].box /\ term[a][t].pc \notin {"off", "done"},
           \A u \in Terminals : shell'[u] \in {shell[u], None},
           \/ term'[a][t].pc \notin Cleared
           \/ term[a][t].pc \in Cleared
           \/ shell'[t] = None,
           UNCHANGED <<wakes, project>>,
           \/ terminal' = terminal
           \/ terminal.id = t /\ terminal'.id = t /\ terminal'.box = terminal.box
           \/ terminal.id = t /\ terminal'.id = None /\ shell'[t] = None
    PROVE  ShellsTracked'
<1>1. Tracked(t)
  BY DEF ShellsTracked
<1>2. ShellInRow(t)'
  BY <1>1 DEF Tracked, ShellInRow
<1>3. StartupHasRow(t)'
  BY <1>1 DEF StartupHasRow, NoPtyYet, Claimed
<1>4. KnowsShell(t)'
  <2>1. CASE a = "open"
    <3>1. term'["expire"][t] = term["expire"][t]
      BY <2>1, Actors
    <3> QED BY <1>1, <2>1, <3>1 DEF Tracked, KnowsShell, TermActors, Cleared
  <2>2. CASE a = "expire"
    <3>1. term'["open"][t] = term["open"][t]
      BY <2>2, Actors
    <3> QED BY <1>1, <2>2, <3>1 DEF Tracked, KnowsShell, TermActors, Cleared
  <2> QED BY <2>1, <2>2 DEF TermActors
<1>5. RowOfProject'
  BY Actors DEF ShellsTracked, RowOfProject
<1>6. \A u \in Terminals : u # t /\ terminal.id = u => terminal' = terminal
  OBVIOUS
<1>7. \A b \in TermActors, u \in Terminals : u # t => term'[b][u] = term[b][u]
  OBVIOUS
<1>8. Tracked(t)'
  BY <1>2, <1>3, <1>4 DEF Tracked
<1> QED BY <1>5, <1>6, <1>7, <1>8, OnlyOne

LEMMA MarkTracked ==
    ASSUME StoreTyped, TerminalTyped, ShellsTracked, NEW t \in Terminals,
           MarkStarting(t) \/ MarkReady(t) \/ MarkBusy(t)
    PROVE  ShellsTracked'
<1>0. UNCHANGED <<wakes, project, shell, terminal>>
  BY DEF MarkStarting, MarkReady, MarkBusy, WriteLeaseStep, processVars
<1>1. CASE Throw(t)
  <2>1. term["open"][t].pc \in StartupPcs \ {"claim", "schedule"}
    BY DEF MarkStarting, MarkReady, MarkBusy, WriteLeaseStep, At, StartupPcs
  <2> QED BY <1>0, <1>1, <2>1, ThrowTracked DEF RowKeptOrBound
<1>2. ASSUME NEW at \in {"starting", "ready", "busy"}, NEW next \in {"ensure", "bind",
             "managed"},
             NEW ref, (at = "busy") <=> (next = "managed"), term["open"][t].pc = at,
             LeaseWritten(t, next, ref)
      PROVE  ShellsTracked'
  <2>1. /\ term'["open"][t].pc = next
        /\ term'["open"][t].box = term["open"][t].box
        /\ next # "managed" => term'["open"][t].phase = "startup"
        /\ \A b \in TermActors, u \in Terminals : b # "open" \/ u # t => term'[b][u] = term[b][u]
    BY <1>2, LeaseStepEffect
  <2>2. CASE next # "managed"
    BY <1>0, <1>2, <2>1, <2>2, StartupTracked DEF RowKeptOrBound
  <2>3. CASE next = "managed"
    <3>1. /\ term["open"][t].pc \notin NoPtyYet /\ term'["open"][t].pc \notin NoPtyYet
          /\ term'["open"][t].pc \notin Cleared /\ term["open"][t].pc \notin {"off", "done"}
      BY <1>2, <2>1, <2>3 DEF NoPtyYet, Cleared
    <3> QED BY <1>0, <2>1, <3>1, Actors, LaterTracked
  <2> QED BY <2>2, <2>3
<1> QED BY <1>1, <1>2 DEF MarkStarting, MarkReady, MarkBusy, WriteLeaseStep, LeaseWritten, At

LEMMA EnsureTracked ==
    ASSUME StoreTyped, TerminalTyped, ShellsTracked, NEW t \in Terminals, EnsureSandbox(t)
    PROVE  ShellsTracked'
<1>0. UNCHANGED <<wakes, project, shell, terminal>> /\ term["open"][t].pc = "ensure"
  BY DEF EnsureSandbox, rowVars, At
<1>1. CASE Throw(t)
  <2>1. term["open"][t].pc \in StartupPcs \ {"claim", "schedule"}
    BY <1>0 DEF StartupPcs
  <2> QED BY <1>0, <1>1, <2>1, ThrowTracked DEF RowKeptOrBound
<1>2. ASSUME NEW box, term' = [term EXCEPT !["open"][t].pc = "ready", !["open"][t].box = box]
      PROVE  ShellsTracked'
  <2>1. /\ term'["open"][t].pc = "ready"
        /\ term'["open"][t].phase = term["open"][t].phase
        /\ \A b \in TermActors, u \in Terminals : b # "open" \/ u # t => term'[b][u] = term[b][u]
    BY <1>2, EnsureEffect
  <2>2. term["open"][t].phase = "startup"
    BY <1>0, Beginning DEF NoPtyYet
  <2> QED BY <1>0, <2>1, <2>2, StartupTracked DEF RowKeptOrBound
<1> QED BY <1>1, <1>2 DEF EnsureSandbox

LEMMA BindSandboxTracked ==
    ASSUME StoreTyped, TerminalTyped, ShellsTracked, NEW t \in Terminals, BindSandbox(t)
    PROVE  ShellsTracked'
<1>0. UNCHANGED <<wakes, project, shell>> /\ term["open"][t].pc = "bind"
  BY DEF BindSandbox, processVars, At
<1>1. RowKeptOrBound(t)
  <2>1. CASE CanBindSandbox(t) /\ terminal' = [terminal EXCEPT !.box = Box("open", t)]
    BY <1>0, <2>1 DEF CanBindSandbox, RowKeptOrBound, StoreTyped, RowTyped
  <2>2. CASE terminal' = terminal
    BY <2>2 DEF RowKeptOrBound
  <2> QED BY <2>1, <2>2 DEF BindSandbox
<1>2. CASE Throw(t)
  <2>1. term["open"][t].pc \in StartupPcs \ {"claim", "schedule"}
    BY <1>0 DEF StartupPcs
  <2> QED BY <1>0, <1>1, <1>2, <2>1, ThrowTracked
<1>3. CASE /\ CanBindSandbox(t) /\ Goto("open", t, "spawn")
           /\ terminal' = [terminal EXCEPT !.box = Box("open", t)]
  <2>1. /\ term'["open"][t].pc = "spawn"
        /\ term'["open"][t].phase = term["open"][t].phase
        /\ term'["open"][t].box = term["open"][t].box
        /\ \A b \in TermActors, u \in Terminals : b # "open" \/ u # t => term'[b][u] = term[b][u]
    BY <1>3, GotoEffect, Actors
  <2>2. term["open"][t].phase = "startup"
    BY <1>0, Beginning DEF NoPtyYet
  <2>3. terminal'.box = term["open"][t].box
    BY <1>3 DEF Box, StoreTyped, RowTyped
  <2> QED BY <1>0, <1>1, <2>1, <2>2, <2>3, StartupTracked
<1> QED BY <1>2, <1>3 DEF BindSandbox

LEMMA SpawnTracked ==
    ASSUME StoreTyped, TerminalTyped, ShellsTracked, NEW t \in Terminals, SpawnPty(t)
    PROVE  ShellsTracked'
<1>0. UNCHANGED <<wakes, project, terminal>> /\ term["open"][t].pc = "spawn"
  BY DEF SpawnPty, rowVars, At
<1>1. CASE Throw(t)
  <2>1. term["open"][t].pc \in StartupPcs \ {"claim", "schedule"}
    BY <1>0 DEF StartupPcs
  <2>2. \/ shell' = shell
        \/ term["open"][t].box # None /\ shell' = [shell EXCEPT ![t] = term["open"][t].box]
    BY DEF SpawnPty, IsLive, Box
  <2> QED BY <1>0, <1>1, <2>1, <2>2, ThrowTracked DEF RowKeptOrBound
<1>2. CASE /\ shell' = [shell EXCEPT ![t] = Box("open", t)]
           /\ term' = [term EXCEPT !["open"][t].pc = "bindPty", !["open"][t].spawned = TRUE]
  <2>1. /\ term'["open"][t].pc = "bindPty"
        /\ term'["open"][t].box = term["open"][t].box
        /\ \A b \in TermActors, u \in Terminals : b # "open" \/ u # t => term'[b][u] = term[b][u]
    BY <1>2, SpawnEffect
  <2>2. Tracked(t) /\ term["expire"][t].pc \in {"off", "done"}
    BY <1>0, Beginning DEF NoPtyYet
  <2>3. shell'[t] = term["open"][t].box /\ \A u \in Terminals : u # t => shell'[u] = shell[u]
    BY <1>2 DEF StoreTyped, ProcessTyped, Box
  <2>4. term'["expire"][t] = term["expire"][t]
    BY <2>1, Actors
  <2>5. ShellInRow(t)' /\ StartupHasRow(t)'
    BY <1>0, <2>1, <2>2, <2>3 DEF Tracked, ShellInRow, StartupHasRow, NoPtyYet, Claimed
  <2>6. KnowsShell(t)'
    BY <2>1, <2>2, <2>3, <2>4 DEF KnowsShell, TermActors, NoPtyYet, Cleared
  <2>7. RowOfProject'
    BY <1>0, RowStaysNobodys
  <2> QED BY <1>0, <2>1, <2>3, <2>5, <2>6, <2>7, OnlyOne DEF Tracked
<1> QED BY <1>1, <1>2 DEF SpawnPty

LEMMA BindPtyTracked ==
    ASSUME StoreTyped, TerminalTyped, ShellsTracked, NEW t \in Terminals, BindPty(t)
    PROVE  ShellsTracked'
<1>0. UNCHANGED <<wakes, project, shell>> /\ term["open"][t].pc = "bindPty"
  BY DEF BindPty, processVars, At
<1>1. \/ terminal' = terminal
      \/ terminal.id = t /\ terminal'.id = t /\ terminal'.box = terminal.box
  BY DEF BindPty, CanBindPty, StoreTyped, RowTyped
<1>2. CASE Throw(t)
  <2>1. term["open"][t].pc \in StartupPcs \ {"claim", "schedule"}
    BY <1>0 DEF StartupPcs
  <2> QED BY <1>0, <1>1, <1>2, <2>1, ThrowTracked DEF RowKeptOrBound
<1>3. CASE Goto("open", t, "busy")
  <2>1. /\ term'["open"][t].pc = "busy"
        /\ term'["open"][t].box = term["open"][t].box
        /\ \A b \in TermActors, u \in Terminals : b # "open" \/ u # t => term'[b][u] = term[b][u]
    BY <1>3, GotoEffect, Actors
  <2>2. term["open"][t].pc \notin NoPtyYet /\ term'["open"][t].pc \notin NoPtyYet \cup Cleared
    BY <1>0, <2>1 DEF NoPtyYet, Cleared
  <2> QED BY <1>0, <1>1, <2>1, <2>2, LaterTracked, Actors
<1> QED BY <1>2, <1>3 DEF BindPty

LEMMA Targets ==
    /\ Cleared \cap {"managed", "kill", "isolate", "keep", "idle", "done", "off",
                     "bindPty", "busy"} = {}
    /\ CleanupPcs \cap NoPtyYet = {}
    /\ CleanupPcs \cap {"off", "done"} = {}
    /\ "done" \notin NoPtyYet /\ "managed" \notin NoPtyYet
    /\ Cleared \subseteq CleanupPcs
  BY DEF Cleared, CleanupPcs, NoPtyYet

\* A step of the clean-up is a LaterTracked step.
LEMMA CleanUpGoes ==
    ASSUME StoreTyped, TerminalTyped, ShellsTracked, NEW a \in TermActors, NEW t \in Terminals,
           term[a][t].pc \in CleanupPcs,
           \/ Finish(a, t)
           \/ Goto(a, t, "off") /\ a = "expire"
           \/ \E pc \in CleanupPcs :
                /\ Goto(a, t, pc)
                /\ pc \in Cleared => term[a][t].pc \in Cleared \/ shell'[t] = None,
           \A u \in Terminals : shell'[u] \in {shell[u], None},
           UNCHANGED <<wakes, project>>,
           \/ terminal' = terminal
           \/ /\ terminal.id = t /\ terminal'.id = None
              /\ term[a][t].pc \in Cleared /\ shell' = shell
    PROVE  ShellsTracked'
<1>1. /\ \A b \in TermActors, u \in Terminals : b # a \/ u # t => term'[b][u] = term[b][u]
      /\ \/ term'[a][t].pc = "done"
         \/ term'[a][t].pc = "off" /\ a = "expire"
         \/ /\ term'[a][t].pc \in CleanupPcs /\ term'[a][t].box = term[a][t].box
            /\ term'[a][t].pc \in Cleared => term[a][t].pc \in Cleared \/ shell'[t] = None
  BY FinishEffect, GotoEffect
<1>2. Tracked(t)
  BY DEF ShellsTracked
<1>3. term["open"][t].pc \notin NoPtyYet
  BY <1>2, Targets DEF Tracked, KnowsShell, TermActors
<1>4. term'["open"][t].pc \notin NoPtyYet
  <2>1. CASE a = "open"
    BY <1>1, <2>1, Targets
  <2>2. CASE a = "expire"
    <3>1. term'["open"][t] = term["open"][t]
      BY <1>1, <2>2, Actors
    <3> QED BY <1>3, <3>1
  <2> QED BY <2>1, <2>2 DEF TermActors
<1>5. term[a][t].pc \in Cleared => shell[t] = None
  BY <1>2 DEF Tracked, KnowsShell
<1>6. \/ term'[a][t].pc \notin Cleared
      \/ term[a][t].pc \in Cleared
      \/ shell'[t] = None
  BY <1>1, Targets
<1>7. \/ terminal' = terminal
      \/ terminal.id = t /\ terminal'.id = None /\ shell'[t] = None
  BY <1>5
<1>8. \/ term'[a][t].pc \in {"off", "done"}
      \/ term'[a][t].box = term[a][t].box /\ term[a][t].pc \notin {"off", "done"}
  BY <1>1, Targets
<1> QED BY <1>1, <1>3, <1>4, <1>6, <1>7, <1>8, LaterTracked

LEMMA DestroyEffect ==
    ASSUME StoreTyped, NEW s, Destroy(s)
    PROVE  \A u \in Terminals :
             shell'[u] \in {shell[u], None} /\ (shell[u] = s => shell'[u] = None)
  BY DEF Destroy, StoreTyped, ProcessTyped

LEMMA CleanUpTracked ==
    ASSUME StoreTyped, TerminalTyped, ShellsTracked, NEW a \in TermActors, NEW t \in Terminals,
           CleanUp(a, t)
    PROVE  ShellsTracked'
<1>0. UNCHANGED <<wakes, project>> /\ NoTerminal.id = None
  BY DEF CleanUp, KillPty, ReleaseIdle, StopSandbox, ReleaseStopped, KeepSession, FailLease,
         DropSession, rowVars, NoTerminal
<1>1. CASE KillPty(a, t)
  <2>1. /\ term[a][t].pc \in CleanupPcs /\ terminal' = terminal
        /\ \A u \in Terminals : shell'[u] \in {shell[u], None}
        /\ \/ Goto(a, t, "isolate")
           \/ Goto(a, t, "release") /\ shell'[t] = None
    BY <1>1 DEF KillPty, At, CleanupPcs, rowVars, StoreTyped, ProcessTyped
  <2>2. {"release", "isolate"} \subseteq CleanupPcs /\ "isolate" \notin Cleared
    BY DEF CleanupPcs, Cleared
  <2> QED BY <1>0, <2>1, <2>2, CleanUpGoes
<1>2. CASE ReleaseIdle(a, t)
  <2>1. /\ term[a][t].pc = "release" /\ shell' = shell
        /\ terminal' = terminal \/ (terminal.id = t /\ terminal'.id = None)
        /\ Finish(a, t) \/ Goto(a, t, "isolate") \/ Goto(a, t, "idle")
    BY <1>0, <1>2 DEF ReleaseIdle, ReleaseAsIdle, OwnsSession, At, processVars
  <2>2. /\ {"release", "isolate", "idle"} \subseteq CleanupPcs
        /\ "isolate" \notin Cleared /\ "idle" \notin Cleared /\ "release" \in Cleared
    BY DEF CleanupPcs, Cleared
  <2> QED BY <1>0, <2>1, <2>2, CleanUpGoes
<1>3. CASE StopSandbox(a, t)
  <2>1. term[a][t].pc = "isolate" /\ terminal' = terminal
    BY <1>3 DEF StopSandbox, At, rowVars
  <2>2. shell[t] \in {None, Box(a, t)}
    BY <2>1 DEF ShellsTracked, Tracked, KnowsShell, Box, TermActors
  <2>3. \A u \in Terminals : shell'[u] \in {shell[u], None}
    BY <1>3, DestroyEffect DEF StopSandbox, processVars
  <2>4. \/ Goto(a, t, "keep")
        \/ Goto(a, t, "stopped") /\ shell'[t] = None
    <3>1. CASE Destroy(Box(a, t)) /\ Goto(a, t, "stopped")
      <4>1. shell'[t] = None
        BY <2>2, <2>3, <3>1, DestroyEffect
      <4> QED BY <3>1, <4>1
    <3> QED BY <1>3, <3>1 DEF StopSandbox
  <2>5. {"isolate", "keep", "stopped"} \subseteq CleanupPcs /\ "keep" \notin Cleared
    BY DEF CleanupPcs, Cleared
  <2> QED BY <1>0, <2>1, <2>3, <2>4, <2>5, CleanUpGoes
<1>4. CASE ReleaseStopped(a, t)
  <2>1. /\ term[a][t].pc = "stopped" /\ shell' = shell
        /\ terminal' = terminal \/ (terminal.id = t /\ terminal'.id = None)
        /\ Finish(a, t) \/ Goto(a, t, "keep")
    BY <1>0, <1>4 DEF ReleaseStopped, ReleaseAsStopped, OwnsSession, At, processVars
  <2>2. {"stopped", "keep"} \subseteq CleanupPcs /\ "keep" \notin Cleared /\ "stopped" \in Cleared
    BY DEF CleanupPcs, Cleared
  <2> QED BY <1>0, <2>1, <2>2, CleanUpGoes
<1>5. CASE KeepSession(a, t)
  <2>1. term[a][t].pc = "keep" /\ shell' = shell /\ terminal' = terminal /\ Finish(a, t)
    BY <1>5 DEF KeepSession, FailKeepingSession, At, processVars
  <2> QED BY <1>0, <2>1, CleanUpGoes DEF CleanupPcs
<1>6. CASE FailLease(a, t)
  <2>1. /\ term[a][t].pc = "failLease" /\ Goto(a, t, "drop")
        /\ shell' = shell /\ terminal' = terminal
    BY <1>6 DEF FailLease, At, processVars
  <2>2. {"failLease", "drop"} \subseteq CleanupPcs /\ "failLease" \in Cleared
    BY DEF CleanupPcs, Cleared
  <2> QED BY <1>0, <2>1, <2>2, CleanUpGoes
<1>7. CASE DropSession(a, t)
  <2>1. /\ term[a][t].pc = "drop" /\ shell' = shell
        /\ terminal' = terminal \/ (terminal.id = t /\ terminal'.id = None)
        /\ Finish(a, t) \/ (Goto(a, t, "off") /\ a = "expire")
    BY <1>0, <1>7 DEF DropSession, ReleaseTerminal, At, processVars
  <2>2. "drop" \in CleanupPcs /\ "drop" \in Cleared
    BY DEF CleanupPcs, Cleared
  <2> QED BY <1>0, <2>1, <2>2, CleanUpGoes
<1> QED BY <1>1, <1>2, <1>3, <1>4, <1>5, <1>6, <1>7 DEF CleanUp

LEMMA CloseTracked ==
    ASSUME StoreTyped, TerminalTyped, ShellsTracked, NEW t \in Terminals,
           CloseTerminal(t) \/ LoseWorker(t)
    PROVE  ShellsTracked'
<1>0. UNCHANGED <<wakes, project, shell, terminal>>
  BY DEF CloseTerminal, LoseWorker, storeVars, rowVars, processVars
<1>1. CASE CloseTerminal(t)
  <2>1. /\ term["open"][t].pc = "managed"
        /\ term'["open"][t].pc = "kill" /\ term'["open"][t].box = term["open"][t].box
        /\ \A b \in TermActors, u \in Terminals : b # "open" \/ u # t => term'[b][u] = term[b][u]
    BY <1>1, GotoEffect, Actors DEF CloseTerminal, At
  <2>2. {"managed", "kill"} \cap (NoPtyYet \cup Cleared \cup {"off", "done"}) = {}
    BY DEF NoPtyYet, Cleared
  <2> QED BY <1>0, <2>1, <2>2, LaterTracked, Actors
<1>2. CASE LoseWorker(t)
  <2>1. /\ term'["open"][t].pc = "done"
        /\ \A b \in TermActors, u \in Terminals : b # "open" \/ u # t => term'[b][u] = term[b][u]
    BY <1>2, FinishEffect, Actors DEF LoseWorker
  <2>2. Tracked(t) /\ term'["expire"][t] = term["expire"][t]
    BY <2>1, Actors DEF ShellsTracked
  <2>3. Tracked(t)'
    BY <1>0, <2>1, <2>2 DEF Tracked, ShellInRow, StartupHasRow, KnowsShell, TermActors,
                            NoPtyYet, Claimed, Cleared
  <2>4. RowOfProject'
    BY <1>0, RowStaysNobodys
  <2> QED BY <1>0, <2>1, <2>3, <2>4, OnlyOne
<1> QED BY <1>1, <1>2

LEMMA ExitTracked ==
    ASSUME StoreTyped, TerminalTyped, ShellsTracked, NEW t \in Terminals, PtyExits(t)
    PROVE  ShellsTracked'
<1> DEFINE old == term["open"][t]
           rec == [old EXCEPT !.pc = "release", !.phase = "exited"]
<1>1. old \in TermRecords
  BY Actors DEF TerminalTyped
<1>2. term' = [term EXCEPT !["open"][t] = rec]
  BY Actors DEF TerminalTyped, PtyExits
<1>3. rec.pc = "release" /\ rec.box = old.box
  <2> HIDE DEF old
  <2> QED BY <1>1 DEF TermRecords
<1> HIDE DEF rec
<1>4. term'["open"][t] = rec
  BY <1>2, Actors DEF TerminalTyped
<1>5. \A b \in TermActors, u \in Terminals : b # "open" \/ u # t => term'[b][u] = term[b][u]
  BY <1>2, Actors DEF TerminalTyped
<1>6. /\ UNCHANGED <<wakes, project, terminal>> /\ old.pc = "managed" /\ shell'[t] = None
      /\ \A u \in Terminals : shell'[u] \in {shell[u], None}
  BY DEF PtyExits, At, rowVars, StoreTyped, ProcessTyped
<1>7. {"managed", "release"} \cap NoPtyYet = {} /\ "managed" \notin {"off", "done"}
  BY DEF NoPtyYet
<1> QED BY <1>3, <1>4, <1>5, <1>6, <1>7, LaterTracked, Actors

LEMMA ExpiryTracked ==
    ASSUME StoreTyped, TerminalTyped, ShellsTracked, NEW t \in Terminals,
           ReadSession(t) \/ LoseExpiry(t)
    PROVE  ShellsTracked'
<1>0. UNCHANGED <<wakes, project, shell, terminal>> /\ Tracked(t)
  BY DEF ReadSession, LoseExpiry, storeVars, rowVars, processVars, ShellsTracked
<1>1. ASSUME NEW rec, term' = [term EXCEPT !["expire"][t] = rec],
             rec.pc \notin {"off", "done"} =>
                /\ shell[t] \in {None, rec.box} /\ term["open"][t].pc \notin NoPtyYet
                /\ rec.pc \in Cleared => shell[t] = None,
             "off" \notin Cleared, "done" \notin Cleared
      PROVE  ShellsTracked'
  <2>1. term'["expire"][t] = rec /\ term'["open"][t] = term["open"][t]
    BY <1>1, Actors DEF TerminalTyped
  <2>2. \A b \in TermActors, u \in Terminals : u # t => term'[b][u] = term[b][u]
    BY <1>1, Actors DEF TerminalTyped
  <2>3. Tracked(t)'
    BY <1>0, <1>1, <2>1 DEF Tracked, ShellInRow, StartupHasRow, KnowsShell, TermActors
  <2>4. RowOfProject'
    BY <1>0, RowStaysNobodys
  <2> QED BY <1>0, <2>2, <2>3, <2>4, OnlyOne
<1>2. "off" \notin Cleared /\ "done" \notin Cleared
  BY DEF Cleared
<1>3. CASE LoseExpiry(t)
  BY <1>1, <1>2, <1>3 DEF LoseExpiry, NoTerm
<1>4. CASE ReadSession(t) /\ terminal.id # t
  <2> DEFINE rec == [NoTerm EXCEPT !.pc = "done"]
  <2>1. term' = [term EXCEPT !["expire"][t] = rec]
    BY <1>4 DEF ReadSession, Finish
  <2>2. rec.pc = "done"
    BY DEF NoTerm
  <2> HIDE DEF rec
  <2> QED BY <1>1, <1>2, <2>1, <2>2
<1>5. CASE ReadSession(t) /\ terminal.id = t
  <2> DEFINE pc == IF terminal.box = None THEN "failLease"
                   ELSE IF terminal.bound THEN "kill" ELSE "isolate"
             rec == [NoTerm EXCEPT !.ref = lease.ref, !.box = terminal.box, !.pc = pc]
  <2>1. term' = [term EXCEPT !["expire"][t] = rec]
    BY <1>5 DEF ReadSession
  <2>2. rec.pc = pc /\ rec.box = terminal.box
    <3> HIDE DEF pc
    <3> QED BY DEF NoTerm
  <2>3. project
    BY <1>5, Actors DEF ShellsTracked, RowOfProject
  <2>4. shell[t] \in {None, terminal.box}
    BY <1>0, <2>3 DEF Tracked, ShellInRow
  <2>5. pc \in Cleared => shell[t] = None
    BY <2>4 DEF Cleared
  <2>6. term["open"][t].pc \notin NoPtyYet
    BY <1>0, <1>5 DEF ReadSession, Starting, At, Tracked, StartupHasRow, NoPtyYet
  <2> HIDE DEF rec, pc
  <2> QED BY <1>1, <1>2, <2>1, <2>2, <2>4, <2>5, <2>6
<1> QED BY <1>3, <1>4, <1>5

LEMMA TerminalTracked ==
    ASSUME StoreTyped, TerminalTyped, ShellsTracked, NEW t \in Terminals, TerminalNext(t)
    PROVE  ShellsTracked'
  BY OpenTracked, ClaimTracked, ScheduleTracked, MarkTracked, EnsureTracked,
     BindSandboxTracked, SpawnTracked, BindPtyTracked, CleanUpTracked, CloseTracked,
     ExitTracked, ExpiryTracked, Actors
  DEF TerminalNext, Startup, Expire

\* The steps of everybody else.
LEMMA RestTracked ==
    ASSUME ShellsTracked, UNCHANGED <<term, wakes>>,
           \A u \in Terminals : shell'[u] \in {shell[u], None},
           \/ project' = project /\ terminal' = terminal
           \/ project' = FALSE /\ terminal'.id = None
    PROVE  ShellsTracked'
<1>1. ASSUME NEW u \in Terminals PROVE Tracked(u)'
  BY Undisturbed DEF ShellsTracked
<1> QED BY <1>1 DEF ShellsTracked, RowOfProject

\* What a step is to the occupancy, when it takes the Project from or for nobody.
Calm == /\ project' = project /\ run' = run /\ terminal'.id = terminal.id
        /\ \A u \in Terminals : shell'[u] \in {shell[u], None}

Frees(t) == /\ project' = project /\ run' = run /\ shell' = shell
            /\ terminal.id = t /\ terminal'.id = None /\ shell[t] = None

LEMMA PreviewCalm ==
    ASSUME StoreTyped, NEW p \in Previews, PreviewNext(p), UNCHANGED <<terminalVars,
           cleanupVars>>
    PROVE  Calm /\ terminal' = terminal /\ UNCHANGED <<term, wakes>>
<1> SUFFICES /\ UNCHANGED <<project, run, terminal, shell>>
  BY DEF Calm, terminalVars
<1>1. CASE StartPreview(p) \/ UsePreview(p) \/ ProbeVite(p) \/ ExpirePreview(p)
  BY <1>1 DEF StartPreview, UsePreview, ProbeVite, ExpirePreview, storeVars, processVars
<1>2. CASE StartStep(p)
  BY <1>2 DEF StartStep, InspectWorkspace, ClaimPreviewSession, SchedulePreviewExpiry,
              SpawnVite, MarkPreviewRunning, UndoSpawn, storeVars, rowVars, processVars
<1>3. ASSUME NEW a \in ViewActors, EndStep(a, p) \/ LoseView(a, p)
      PROVE UNCHANGED <<project, run, terminal, shell>>
  BY <1>3 DEF EndStep, KillVite, DropPreview, LoseView, rowVars, processVars
<1> QED BY <1>1, <1>2, <1>3 DEF PreviewNext

\* A cleanup or a stop, or what happens to the sandbox.
CleanupStep ==
    \/ \E a \in ViewActors, p \in Previews : SchedulePreviewIdle(a, p)
    \/ \E x \in Sessions : ReclaimAfterActivity(x) \/ StopReclaimed(x)
    \/ \E u \in Stops : \/ RequestStop(u) \/ CheckActivities(u)
                      \/ ClaimForManualStop(u) \/ StopClaimed(u)
    \/ Environment

LEMMA CleanupCalm ==
    ASSUME StoreTyped, CleanupStep
    PROVE  Calm /\ terminal' = terminal /\ UNCHANGED <<term, wakes>>
<1>1. ASSUME NEW a \in ViewActors, NEW p \in Previews, SchedulePreviewIdle(a, p)
      PROVE Calm /\ terminal' = terminal /\ UNCHANGED <<term, wakes>>
  BY <1>1 DEF SchedulePreviewIdle, Calm, terminalVars, processVars
<1>2. ASSUME NEW x \in Sessions, ReclaimAfterActivity(x)
      PROVE Calm /\ terminal' = terminal /\ UNCHANGED <<term, wakes>>
  BY <1>2 DEF ReclaimAfterActivity, Calm, terminalVars, processVars
<1>3. ASSUME NEW x \in Sessions, StopReclaimed(x)
      PROVE Calm /\ terminal' = terminal /\ UNCHANGED <<term, wakes>>
  BY <1>3, DestroyEffect DEF StopReclaimed, Calm, terminalVars, rowVars, processVars
<1>4. ASSUME NEW u \in Stops, RequestStop(u) \/ CheckActivities(u) \/ ClaimForManualStop(u)
      PROVE Calm /\ terminal' = terminal /\ UNCHANGED <<term, wakes>>
  BY <1>4 DEF RequestStop, CheckActivities, ClaimForManualStop, Calm, terminalVars, storeVars,
              processVars
<1>5. ASSUME NEW u \in Stops, StopClaimed(u)
      PROVE Calm /\ terminal' = terminal /\ UNCHANGED <<term, wakes>>
  BY <1>5, DestroyEffect DEF StopClaimed, Calm, terminalVars, rowVars, processVars
<1>6. CASE Environment
  BY <1>6, DestroyEffect DEF Environment, SandboxIsLost, ViteExits, Calm, terminalVars, rowVars
<1> QED BY <1>1, <1>2, <1>3, <1>4, <1>5, <1>6 DEF CleanupStep

LEMMA ScheduleCalm ==
    ASSUME StoreTyped, TerminalTyped, ShellsTracked, NEW a \in TermActors, NEW t \in Terminals,
           ScheduleTerminalIdle(a, t)
    PROVE  ShellsTracked' /\ Calm
<1>1. /\ term[a][t].pc = "idle" /\ Finish(a, t)
      /\ UNCHANGED <<wakes, project, run, terminal, shell>>
  BY DEF ScheduleTerminalIdle, At, rowVars, processVars
<1> QED BY <1>1, CleanUpGoes DEF CleanupPcs, Calm

LEMMA CleanUpFrees ==
    ASSUME StoreTyped, ShellsTracked, NEW a \in TermActors, NEW t \in Terminals, CleanUp(a, t)
    PROVE  Calm \/ Frees(t)
<1>0. NoTerminal.id = None /\ (term[a][t].pc \in Cleared => shell[t] = None)
  BY DEF NoTerminal, ShellsTracked, Tracked, KnowsShell
<1>1. CASE KillPty(a, t)
  BY <1>1 DEF KillPty, rowVars, StoreTyped, ProcessTyped, Calm
<1>2. CASE ReleaseIdle(a, t)
  BY <1>0, <1>2 DEF ReleaseIdle, ReleaseAsIdle, OwnsSession, At, processVars, Cleared, Calm,
                    Frees
<1>3. CASE StopSandbox(a, t)
  BY <1>3, DestroyEffect DEF StopSandbox, rowVars, processVars, Calm
<1>4. CASE ReleaseStopped(a, t)
  BY <1>0, <1>4 DEF ReleaseStopped, ReleaseAsStopped, OwnsSession, At, processVars, Cleared,
                    Calm, Frees
<1>5. CASE KeepSession(a, t) \/ FailLease(a, t)
  BY <1>5 DEF KeepSession, FailKeepingSession, FailLease, processVars, Calm
<1>6. CASE DropSession(a, t)
  BY <1>0, <1>6 DEF DropSession, ReleaseTerminal, At, processVars, Cleared, Calm, Frees
<1> QED BY <1>1, <1>2, <1>3, <1>4, <1>5, <1>6 DEF CleanUp

LEMMA TerminalCalm ==
    ASSUME StoreTyped, ShellsTracked, NEW t \in Terminals, TerminalNext(t), ~ClaimSession(t),
           ~SpawnPty(t)
    PROVE  Calm \/ Frees(t)
<1>1. CASE CleanUp("open", t) \/ CleanUp("expire", t)
  BY <1>1, CleanUpFrees, Actors
<1>2. CASE OpenTerminal(t) \/ ScheduleTerminalExpiry(t)
  BY <1>2 DEF OpenTerminal, ScheduleTerminalExpiry, rowVars, processVars, Calm
<1>3. CASE MarkStarting(t) \/ MarkReady(t) \/ MarkBusy(t)
  BY <1>3 DEF MarkStarting, MarkReady, MarkBusy, WriteLeaseStep, processVars, Calm
<1>4. CASE EnsureSandbox(t)
  BY <1>4 DEF EnsureSandbox, rowVars, Calm
<1>5. CASE BindSandbox(t)
  BY <1>5 DEF BindSandbox, processVars, Calm, StoreTyped, RowTyped
<1>6. CASE BindPty(t)
  BY <1>6 DEF BindPty, processVars, Calm, StoreTyped, RowTyped
<1>7. CASE CloseTerminal(t) \/ ReadSession(t)
  BY <1>7 DEF CloseTerminal, ReadSession, storeVars, Calm
<1>8. CASE PtyExits(t)
  BY <1>8 DEF PtyExits, rowVars, StoreTyped, ProcessTyped, Calm
<1>9. CASE LoseWorker(t) \/ LoseExpiry(t)
  BY <1>9 DEF LoseWorker, LoseExpiry, rowVars, processVars, Calm
<1> QED BY <1>1, <1>2, <1>3, <1>4, <1>5, <1>6, <1>7, <1>8, <1>9 DEF TerminalNext, Startup,
           Expire

-----------------------------------------------------------------------------
(* What each step is to the occupancy                                      *)

LEMMA HolderIs ==
    ASSUME RunExcludesTerminal, OneRun
    PROVE  /\ terminal.id # None => Holder = terminal.id
           /\ terminal.id = None /\ ~ActiveRun => Holder = None
           /\ \A r \in Runs : run[r] = "active" => Holder = r
  BY DEF Holder, RunExcludesTerminal, OneRun, ActiveRun

LEMMA HolderIsNext ==
    ASSUME RunExcludesTerminal', OneRun'
    PROVE  /\ terminal'.id # None => Holder' = terminal'.id
           /\ terminal'.id = None /\ ~ActiveRun' => Holder' = None
           /\ \A r \in Runs : run'[r] = "active" => Holder' = r
  BY DEF Holder, RunExcludesTerminal, OneRun, ActiveRun

OccupancyInv == IInv /\ Exclusion /\ ShellsTracked

LEMMA CalmMaps ==
    ASSUME OccupancyInv, OccupancyInv', Calm
    PROVE  Occupancy!Next
<1>1. Holder' = Holder
  BY DEF Calm, Holder, ActiveRun
<1>2. {t \in Terminals : shell'[t] # None} \in SUBSET {t \in Terminals : shell[t] # None}
  BY DEF Calm
<1>3. Occupancy!EndShells
  BY <1>1, <1>2 DEF Occupancy!EndShells, Calm
<1> QED BY <1>3 DEF Occupancy!Next

LEMMA FreesMaps ==
    ASSUME OccupancyInv, OccupancyInv', NEW t \in Terminals, Frees(t)
    PROVE  Occupancy!Next
<1>1. Holder = t /\ ~ActiveRun
  BY HolderIs, Actors DEF OccupancyInv, IInv, Exclusion, Frees, RunExcludesTerminal
<1>2. Holder' = None
  <2>1. ~ActiveRun'
    BY <1>1 DEF Frees, ActiveRun
  <2> QED BY <2>1, HolderIsNext DEF OccupancyInv, IInv, Exclusion, Frees
<1>3. Occupancy!Release
  BY <1>1, <1>2 DEF Occupancy!Release, Frees
<1> QED BY <1>3 DEF Occupancy!Next

LEMMA NobodyAlive ==
    ASSUME OccupancyInv, project, terminal.id = None
    PROVE  {t \in Terminals : shell[t] # None} = {}
  BY Actors DEF OccupancyInv, IInv, Exclusion, ShellsTracked, Tracked, ShellInRow

LEMMA ClaimMaps ==
    ASSUME OccupancyInv, OccupancyInv', NEW t \in Terminals, ClaimSession(t)
    PROVE  Occupancy!Next
<1>0. UNCHANGED <<project, run, shell>>
  BY DEF ClaimSession, processVars
<1>1. CASE CanClaimTerminal(Me(t)) /\ ClaimTerminal(t)
  <2>1. project /\ terminal.id = None /\ ~ActiveRun /\ terminal'.id = t
    BY <1>1 DEF CanClaimTerminal, ClaimTerminal
  <2>2. Holder = None /\ Holder' = t
    BY <2>1, HolderIs, HolderIsNext, Actors DEF OccupancyInv, IInv, Exclusion
  <2>3. Occupancy!Acquire(t)
    BY <1>0, <2>1, <2>2, NobodyAlive DEF Occupancy!Acquire
  <2> QED BY <2>3 DEF Occupancy!Next
<1>2. CASE terminal' = terminal
  <2>1. Calm
    BY <1>0, <1>2 DEF Calm
  <2> QED BY <2>1, CalmMaps
<1> QED BY <1>1, <1>2 DEF ClaimSession

LEMMA SpawnMaps ==
    ASSUME OccupancyInv, OccupancyInv', NEW t \in Terminals, SpawnPty(t)
    PROVE  Occupancy!Next
<1>0. UNCHANGED <<project, run, terminal>> /\ term["open"][t].pc = "spawn"
  BY DEF SpawnPty, rowVars, At
<1>1. CASE shell' = [shell EXCEPT ![t] = Box("open", t)] /\ Box("open", t) # None
  <2>1. Holder' = Holder
    BY <1>0 DEF Holder, ActiveRun
  <2>2. {u \in Terminals : shell'[u] # None} = {u \in Terminals : shell[u] # None} \cup {t}
    BY <1>1 DEF OccupancyInv, IInv, Exclusion, StoreTyped, ProcessTyped
  <2>3. Holder = t \/ ~project
    BY <1>0, HolderIs, Actors DEF OccupancyInv, IInv, Exclusion, ShellsTracked, Tracked,
                                         StartupHasRow, Claimed
  <2>4. Occupancy!StartShell(t)
    BY <1>0, <2>1, <2>2, <2>3 DEF Occupancy!StartShell
  <2> QED BY <2>4 DEF Occupancy!Next
<1>2. CASE shell' = shell
  <2>1. Calm
    BY <1>0, <1>2 DEF Calm
  <2> QED BY <2>1, CalmMaps
<1> QED BY <1>1, <1>2 DEF SpawnPty, IsLive

LEMMA InsertMaps ==
    ASSUME OccupancyInv, OccupancyInv', NEW r \in Runs, InsertRun(r)
    PROVE  Occupancy!Next
<1>1. /\ project /\ terminal.id = None /\ ~ActiveRun
      /\ UNCHANGED <<project, terminal, shell>> /\ run'[r] = "active"
  BY DEF InsertRun, CanInsertRun, processVars, OccupancyInv, IInv, Exclusion, StoreTyped, RunTyped
<1>2. Holder = None /\ Holder' = r
  BY <1>1, HolderIs, HolderIsNext DEF OccupancyInv, IInv, Exclusion
<1>3. Occupancy!Acquire(r)
  BY <1>1, <1>2, NobodyAlive DEF Occupancy!Acquire
<1> QED BY <1>3 DEF Occupancy!Next

LEMMA RunStepMaps ==
    ASSUME OccupancyInv, OccupancyInv', NEW r \in Runs, RunTakesSandbox(r) \/ RunEnds(r)
    PROVE  Occupancy!Next
<1>1. CASE RunTakesSandbox(r)
  <2>1. Calm
    BY <1>1 DEF RunTakesSandbox, Calm
  <2> QED BY <2>1, CalmMaps
<1>2. CASE RunEnds(r)
  <2>1. run[r] = "active" /\ UNCHANGED <<project, terminal>> /\ run' = [run EXCEPT ![r] = "done"]
    BY <1>2 DEF RunEnds, OwnsLease
  <2>2. \A u \in Terminals : shell'[u] \in {shell[u], None}
    BY <1>2, DestroyEffect DEF RunEnds, processVars, OccupancyInv, IInv, Exclusion
  <2>3. terminal.id = None /\ Holder = r
    BY <2>1, HolderIs DEF OccupancyInv, IInv, Exclusion, RunExcludesTerminal, ActiveRun
  <2>4. ~ActiveRun'
    BY <2>1 DEF ActiveRun, OccupancyInv, IInv, Exclusion, OneRun, StoreTyped, RunTyped
  <2>5. Holder' = None
    BY <2>1, <2>3, <2>4, HolderIsNext DEF OccupancyInv, IInv, Exclusion
  <2>6. r \notin Terminals
    BY NamesAssumption DEF Sessions
  <2>7. {u \in Terminals : shell'[u] # None} \in SUBSET {u \in Terminals : shell[u] # None}
    BY <2>2
  <2>8. Occupancy!Release
    BY <2>1, <2>3, <2>5, <2>6, <2>7 DEF Occupancy!Release
  <2> QED BY <2>8 DEF Occupancy!Next
<1> QED BY <1>1, <1>2

LEMMA DeleteMaps ==
    ASSUME OccupancyInv, OccupancyInv', NEW u \in Stops, DeleteProject(u)
    PROVE  Occupancy!Next
<1>0. UNCHANGED <<run, shell>>
  BY DEF DeleteProject, processVars
<1>1. CASE project /\ ~ActiveRun
  <2>1. project' = FALSE /\ terminal'.id = None
    BY <1>1 DEF DeleteProject, NoTerminal
  <2>2. ~ActiveRun'
    BY <1>0, <1>1 DEF ActiveRun
  <2>3. Holder' = None
    BY <2>1, <2>2, HolderIsNext DEF OccupancyInv, IInv, Exclusion
  <2>4. Holder \in Terminals \cup {None}
    BY <1>1, HolderIs DEF OccupancyInv, IInv, Exclusion, StoreTyped, RowTyped
  <2>5. Occupancy!Delete
    BY <1>0, <2>1, <2>3, <2>4 DEF Occupancy!Delete
  <2> QED BY <2>5 DEF Occupancy!Next
<1>2. CASE UNCHANGED <<project, terminal>>
  <2>1. Calm
    BY <1>0, <1>2 DEF Calm
  <2> QED BY <2>1, CalmMaps
<1> QED BY <1>1, <1>2 DEF DeleteProject

LEMMA InitMaps == Init => OccupancyInv /\ Occupancy!Init
<1> SUFFICES ASSUME Init PROVE OccupancyInv /\ Occupancy!Init
  OBVIOUS
<1>1. OccupancyInv
  <2>1. ~ActiveRun
    BY DEF Init, StoreInit, ActiveRun
  <2> QED BY <2>1, InitTyped, TrackedInit DEF OccupancyInv, IInv, Exclusion, RunExcludesTerminal
<1>2. Holder = None
  BY HolderIs, <1>1 DEF OccupancyInv, IInv, Exclusion, Init, StoreInit, NoTerminal, ActiveRun
<1>3. {t \in Terminals : shell[t] # None} = {}
  BY DEF Init, StoreInit
<1>4. project = TRUE
  BY DEF Init, StoreInit
<1> QED BY <1>1, <1>2, <1>3, <1>4 DEF Occupancy!Init

-----------------------------------------------------------------------------
(* The invariant is inductive                                              *)

\* What most steps do to the two occupants, and what only claims and inserts do.
LEMMA CalmExcludes ==
    ASSUME Exclusion, Calm \/ \E t \in Terminals : Frees(t)
    PROVE  Exclusion'
  BY DEF Exclusion, RunExcludesTerminal, OneRun, ActiveRun, Calm, Frees

LEMMA TerminalExcludes ==
    ASSUME StoreTyped, ShellsTracked, Exclusion, NEW t \in Terminals, TerminalNext(t)
    PROVE  Exclusion'
<1>1. CASE ClaimSession(t)
  <2>1. CASE CanClaimTerminal(Me(t))
    BY <1>1, <2>1 DEF ClaimSession, CanClaimTerminal, Exclusion, RunExcludesTerminal, OneRun,
                      ActiveRun
  <2>2. CASE UNCHANGED terminal
    BY <1>1, <2>2 DEF ClaimSession, Exclusion, RunExcludesTerminal, OneRun, ActiveRun
  <2> QED BY <1>1, <2>1, <2>2 DEF ClaimSession
<1>2. CASE SpawnPty(t)
  BY <1>2 DEF SpawnPty, rowVars, Exclusion, RunExcludesTerminal, OneRun, ActiveRun
<1>3. CASE ~ClaimSession(t) /\ ~SpawnPty(t)
  BY <1>3, TerminalCalm, CalmExcludes
<1> QED BY <1>1, <1>2, <1>3

LEMMA RunTracked ==
    ASSUME StoreTyped, ShellsTracked, Exclusion, NEW r \in Runs, RunNext(r)
    PROVE  ShellsTracked' /\ Exclusion'
<1>0. UNCHANGED <<term, wakes>>
  BY DEF RunNext, terminalVars
<1>1. CASE InsertRun(r)
  <2>1. UNCHANGED <<project, terminal, shell>>
    BY <1>1 DEF InsertRun, processVars
  <2>2. terminal.id = None /\ ~ActiveRun /\ run' = [run EXCEPT ![r] = "active"]
    BY <1>1 DEF InsertRun, CanInsertRun
  <2>3. Exclusion'
    BY <2>1, <2>2 DEF Exclusion, RunExcludesTerminal, OneRun, ActiveRun, StoreTyped, RunTyped
  <2> QED BY <1>0, <2>1, <2>3, RestTracked
<1>2. CASE RunTakesSandbox(r)
  <2>1. Calm /\ terminal' = terminal
    BY <1>2 DEF RunTakesSandbox, Calm
  <2> QED BY <1>0, <2>1, RestTracked, CalmExcludes DEF Calm
<1>3. CASE RunEnds(r)
  <2>1. UNCHANGED <<project, terminal>> /\ run' = [run EXCEPT ![r] = "done"]
    BY <1>3 DEF RunEnds
  <2>2. \A u \in Terminals : shell'[u] \in {shell[u], None}
    BY <1>3, DestroyEffect DEF RunEnds, processVars
  <2>3. Exclusion'
    BY <2>1 DEF Exclusion, RunExcludesTerminal, OneRun, ActiveRun, StoreTyped, RunTyped
  <2> QED BY <1>0, <2>1, <2>2, <2>3, RestTracked
<1> QED BY <1>1, <1>2, <1>3 DEF RunNext

LEMMA DeleteTracked ==
    ASSUME ShellsTracked, Exclusion, NEW u \in Stops, DeleteProject(u)
    PROVE  ShellsTracked' /\ Exclusion'
<1>1. /\ UNCHANGED <<term, wakes, run, shell>>
      /\ \/ project' = project /\ terminal' = terminal
         \/ project' = FALSE /\ terminal'.id = None
  BY DEF DeleteProject, NoTerminal, terminalVars, processVars
<1>2. Exclusion'
  BY <1>1 DEF Exclusion, RunExcludesTerminal, OneRun, ActiveRun
<1> QED BY <1>1, <1>2, RestTracked

LEMMA CalmTracked ==
    ASSUME ShellsTracked, Exclusion, Calm, terminal' = terminal, UNCHANGED <<term, wakes>>
    PROVE  ShellsTracked' /\ Exclusion'
  BY RestTracked, CalmExcludes DEF Calm

\* The steps of Workspace, as this module takes them.
LEMMA StepsOfNext ==
    ASSUME Next
    PROVE  \/ \E t \in Terminals : TerminalNext(t)
           \/ \E p \in Previews : PreviewNext(p) /\ UNCHANGED <<terminalVars, cleanupVars>>
           \/ \E a \in TermActors, t \in Terminals : ScheduleTerminalIdle(a, t)
           \/ \E r \in Runs : RunNext(r)
           \/ \E u \in Stops : DeleteProject(u)
           \/ CleanupStep
  BY DEF Next, TerminalIdle, PreviewIdle, StopStep, Sessions, CleanupStep

LEMMA StutterCalm ==
    ASSUME UNCHANGED vars
    PROVE  Calm /\ terminal' = terminal /\ UNCHANGED <<term, wakes>>
  BY DEF vars, storeVars, terminalVars, Calm

LEMMA NextInv == OccupancyInv /\ [Next]_vars => OccupancyInv'
<1> SUFFICES ASSUME OccupancyInv, [Next]_vars PROVE ShellsTracked' /\ Exclusion'
  BY NextTyped DEF OccupancyInv
<1>0. StoreTyped /\ TerminalTyped /\ ShellsTracked /\ Exclusion
  BY DEF OccupancyInv, IInv
<1>1. CASE \E t \in Terminals : TerminalNext(t)
  BY <1>0, <1>1, TerminalTracked, TerminalExcludes
<1>2. ASSUME NEW p \in Previews, PreviewNext(p), UNCHANGED <<terminalVars, cleanupVars>>
      PROVE  ShellsTracked' /\ Exclusion'
  BY <1>0, <1>2, PreviewCalm, CalmTracked
<1>3. CASE \E a \in TermActors, t \in Terminals : ScheduleTerminalIdle(a, t)
  BY <1>0, <1>3, ScheduleCalm, CalmExcludes
<1>4. CASE \E r \in Runs : RunNext(r)
  BY <1>0, <1>4, RunTracked
<1>5. CASE \E u \in Stops : DeleteProject(u)
  BY <1>0, <1>5, DeleteTracked
<1>6. CASE CleanupStep
  BY <1>0, <1>6, CleanupCalm, CalmTracked
<1>7. CASE UNCHANGED vars
  BY <1>0, <1>7, StutterCalm, CalmTracked
<1> QED BY <1>1, <1>2, <1>3, <1>4, <1>5, <1>6, <1>7, StepsOfNext

\* Every step is one of the occupancy; to stand still is to end no shell.
LEMMA NextMaps == OccupancyInv /\ OccupancyInv' /\ [Next]_vars => Occupancy!Next
<1> SUFFICES ASSUME OccupancyInv, OccupancyInv', [Next]_vars PROVE Occupancy!Next
  OBVIOUS
<1>0. StoreTyped /\ TerminalTyped /\ ShellsTracked /\ Exclusion
  BY DEF OccupancyInv, IInv
<1>1. ASSUME NEW t \in Terminals, TerminalNext(t) PROVE Occupancy!Next
  BY <1>0, <1>1, ClaimMaps, SpawnMaps, TerminalCalm, CalmMaps, FreesMaps
<1>2. ASSUME NEW p \in Previews, PreviewNext(p), UNCHANGED <<terminalVars, cleanupVars>>
      PROVE  Occupancy!Next
  BY <1>0, <1>2, PreviewCalm, CalmMaps
<1>3. CASE \E a \in TermActors, t \in Terminals : ScheduleTerminalIdle(a, t)
  BY <1>0, <1>3, ScheduleCalm, CalmMaps
<1>4. ASSUME NEW r \in Runs, RunNext(r) PROVE Occupancy!Next
  BY <1>4, InsertMaps, RunStepMaps DEF RunNext
<1>5. CASE \E u \in Stops : DeleteProject(u)
  BY <1>5, DeleteMaps
<1>6. CASE CleanupStep
  BY <1>0, <1>6, CleanupCalm, CalmMaps
<1>7. CASE UNCHANGED vars
  BY <1>7, StutterCalm, CalmMaps
<1> QED BY <1>1, <1>2, <1>3, <1>4, <1>5, <1>6, <1>7, StepsOfNext

LEMMA AlwaysInv == Spec => []OccupancyInv
  BY InitMaps, NextInv, PTL DEF Spec

\* An active Run and the session row of a Terminal never exist together, whichever Workers
\* are lost and whatever faults: docs/adr/0005 lets one of them write in the sandbox.
THEOREM RunAndTerminalExclude == Spec => []RunExcludesTerminal
<1>1. OccupancyInv => RunExcludesTerminal
  BY DEF OccupancyInv, Exclusion
<1> QED BY <1>1, AlwaysInv, PTL

\* The rows of the Project keep what docs/adr/0005 promises of them: nobody takes it while
\* a PTY is left that its occupant started, and nobody gives it back before that is gone.
THEOREM ImplementsOccupancyCorrect == Spec => ImplementsOccupancy
<1>1. Init => Occupancy!Init
  BY InitMaps
<1>2. OccupancyInv /\ OccupancyInv' /\ [Next]_vars => [Occupancy!Next]_(Occupancy!vars)
  BY NextMaps
<1> QED BY <1>1, <1>2, AlwaysInv, PTL DEF Spec, ImplementsOccupancy, Occupancy!Spec
=============================================================================
