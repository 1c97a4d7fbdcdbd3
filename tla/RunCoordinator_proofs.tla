------------------------- MODULE RunCoordinator_proofs -------------------------
(***************************************************************************)
(* Every step of a ManagedRun is a StoreStep and leaves the owners sound.  *)
(*                                                                         *)
(* StoreStep is the vocabulary of the proofs about the programs that share *)
(* the store: every step of every one of them is a choice of one of the    *)
(* indivisible operations (or none) on each of the four kinds of state.    *)
(* Before it, the facts about the status machine that all of them cite.    *)
(***************************************************************************)
EXTENDS RunCoordinator, TLAPS

\* A status is absent, active or terminal, and only one of them.
LEMMA StatusKinds ==
    /\ \A s \in Statuses : s = "absent" \/ s \in ActiveStatuses \/ isTerminalAgentRun(s)
    /\ \A s \in ActiveStatuses : s \in Statuses /\ s # "absent" /\ ~isTerminalAgentRun(s)
    /\ \A s \in TerminalStatuses : s \in Statuses /\ s # "absent"
  BY DEF Statuses, ActiveStatuses, TerminalStatuses, isTerminalAgentRun

\* canTransitionAgentRun lets nothing out of a terminal status, nothing back into "queued",
\* and only known statuses in; success is reached from "running" only.
LEMMA TransitionFacts ==
    ASSUME NEW from, NEW to, canTransitionAgentRun(from, to)
    PROVE  /\ from \in ActiveStatuses
           /\ to \in Statuses \ {"absent", "queued"}
           /\ to = "succeeded" => from = "running"
  <1>1. from \in ActiveStatuses /\ to \in allowedTransitions[from]
    BY DEF canTransitionAgentRun
  <1> QED
    BY <1>1 DEF ActiveStatuses, allowedTransitions, Statuses, TerminalStatuses

-----------------------------------------------------------------------------

\* Only CompleteSucceeded makes a Run succeeded.
RowsStep ==
    \/ UNCHANGED runRows
    \/ \E r \in Runs : InsertQueued(r) \/ CompleteSucceeded(r) \/ SetProcessRef(r)
    \/ \E r \in Runs, from, to \in Statuses : to # "succeeded" /\ Transition(r, from, to)

LeaseStep ==
    \/ UNCHANGED lease
    \/ \E newStatus \in LeaseStatuses, newRef \in SandboxRefs : WriteLease(newStatus, newRef)

ProviderStep ==
    \/ UNCHANGED providerVars
    \/ \E r \in Runs : CreateSandbox(r)
    \/ \E s \in SandboxRefs : DestroySandbox(s)
    \/ \E r \in Runs, s \in SandboxRefs : StartProcess(r, s) \/ KillProcess(r, s)

FaultStep == UNCHANGED mishaps \/ Mishap

StoreStep == RowsStep /\ LeaseStep /\ ProviderStep /\ FaultStep

\* The store starts empty.
LEMMA StoreInitType == StoreInit => StoreTypeOK
  BY MishapsAssumption
     DEF StoreInit, StoreTypeOK, Statuses, LeaseStatuses, SandboxRefs

\* An operation on the rows of the Runs keeps their types.
LEMMA RowsStepType ==
    ASSUME StoreTypeOK, RowsStep
    PROVE  /\ status' \in [Runs -> Statuses]
           /\ processRef' \in [Runs -> BOOLEAN]
           /\ reply' \in [Runs -> BOOLEAN]
           /\ newest' \in SandboxRefs
  <1> USE DEF StoreTypeOK
  <1>1. CASE UNCHANGED runRows
    BY <1>1 DEF runRows
  <1>2. ASSUME NEW r \in Runs, InsertQueued(r) \/ CompleteSucceeded(r) \/ SetProcessRef(r)
        PROVE  /\ status' \in [Runs -> Statuses]
               /\ processRef' \in [Runs -> BOOLEAN]
               /\ reply' \in [Runs -> BOOLEAN]
               /\ newest' \in SandboxRefs
    <2>1. CASE InsertQueued(r)
      <3>1. status' \in [Runs -> Statuses]
        BY <2>1, StatusKinds DEF InsertQueued, ActiveStatuses
      <3>2. newest' \in SandboxRefs
        BY <2>1 DEF InsertQueued, SandboxRefs
      <3> QED
        BY <3>1, <3>2, <2>1 DEF InsertQueued
    <2>2. CASE CompleteSucceeded(r) \/ SetProcessRef(r)
      BY <2>2, StatusKinds DEF CompleteSucceeded, SetProcessRef, ActiveStatuses,
                               TerminalStatuses
    <2> QED
      BY <1>2, <2>1, <2>2
  <1>3. ASSUME NEW r \in Runs, NEW from \in Statuses, NEW to \in Statuses,
               Transition(r, from, to)
        PROVE  /\ status' \in [Runs -> Statuses]
               /\ processRef' \in [Runs -> BOOLEAN]
               /\ reply' \in [Runs -> BOOLEAN]
               /\ newest' \in SandboxRefs
    BY <1>3 DEF Transition, isTerminalAgentRun
  <1> QED
    BY <1>1, <1>2, <1>3 DEF RowsStep

\* So does one on the Lease, whose version only grows.
LEMMA LeaseStepType ==
    ASSUME StoreTypeOK, LeaseStep
    PROVE  lease' \in [status : LeaseStatuses, ref : SandboxRefs, version : Nat]
  <1>1. LaterVersions \subseteq Nat
    BY ClockAssumption DEF StoreTypeOK, LaterVersions
  <1> QED
    BY <1>1 DEF StoreTypeOK, LeaseStep, WriteLease

\* And one of the sandbox provider.
LEMMA ProviderStepType ==
    ASSUME StoreTypeOK, ProviderStep
    PROVE  /\ sandbox' \in [Runs -> {"none", "live", "gone"}]
           /\ agentIn' \in [Runs -> SandboxRefs]
  BY DEF StoreTypeOK, ProviderStep, providerVars, CreateSandbox, DestroySandbox, StartProcess,
         KillProcess, SandboxRefs

\* No sequence of store operations, whoever performs them, leaves the types of the rows.
LEMMA StoreStepType == StoreTypeOK /\ StoreStep => StoreTypeOK'
  <1> SUFFICES ASSUME StoreTypeOK, StoreStep PROVE StoreTypeOK'
    OBVIOUS
  <1>1. mishaps' \in 0..MaxMishaps
    BY MishapsAssumption DEF StoreTypeOK, StoreStep, FaultStep, Mishap
  <1> QED
    BY <1>1, RowsStepType, LeaseStepType, ProviderStepType DEF StoreStep, StoreTypeOK

-----------------------------------------------------------------------------
(* The owner of a Run                                                      *)

\* complete(goal) takes the branch for "succeeded" before it comes to the transition that
\* all other outcomes use; so that transition never writes "succeeded" without a reply.
SoundOwners ==
    {m \in ManagedRuns : m.pc \in {"completeDuration", "completeCommit"} => m.goal # "succeeded"}

OwnersSound == mgr \in [Runs -> SoundOwners]

\* The program counters, for the provers.
Pcs == MgrPcs = {"markStarting", "ensure", "markReady", "afterReady", "configure", "spawn",
                 "prompt", "persist", "markBusy", "markRunning", "cancelRefresh", "cancelMark",
                 "terminate", "killFailed", "stopSandbox", "failRefresh", "failDuration",
                 "failLease", "failCommit", "completeLease", "completeDuration",
                 "completeCommit", "succeed", "succeedLost", "none", "consume", "exited",
                 "catch", "done", "rejected", "dead"}

LEMMA PcsFact == Pcs
  BY DEF Pcs, MgrPcs, StartupPcs, CancelPcs, TerminatePcs, FailPcs, CompletePcs

LEMMA NoManagedRunSound == NoManagedRun \in SoundOwners
  BY PcsFact DEF Pcs, NoManagedRun, SoundOwners, ManagedRuns, Statuses, ActiveStatuses,
                 SandboxRefs, Goals

LEMMA BecomeSound ==
    ASSUME OwnersSound, NEW r \in Runs, NEW m \in SoundOwners, Become(r, m)
    PROVE  OwnersSound'
  <1>1. Settled(m) \in SoundOwners
    <2>1. CASE m.pc \notin {"done", "dead"}
      BY <2>1 DEF Settled
    <2>2. CASE m.pc \in {"done", "dead"}
      <3>1. Settled(m) = [NoManagedRun EXCEPT !.pc = m.pc, !.by = m.by, !.timer = m.timer,
                                              !.lost = m.lost]
        BY <2>2 DEF Settled
      <3>2. NoManagedRun \in ManagedRuns /\ m \in ManagedRuns
        BY NoManagedRunSound DEF SoundOwners
      <3>3. Settled(m) \in ManagedRuns /\ Settled(m).pc = m.pc
        BY <3>1, <3>2 DEF ManagedRuns
      <3> QED
        BY <2>2, <3>3 DEF SoundOwners
    <2> QED
      BY <2>1, <2>2
  <1> QED
    BY <1>1 DEF OwnersSound, Become

LEMMA GoSound ==
    ASSUME OwnersSound, NEW r \in Runs, Go(r, "dead")
    PROVE  OwnersSound'
  <1>1. [mgr[r] EXCEPT !.pc = "dead"] \in SoundOwners
    BY PcsFact DEF Pcs, OwnersSound, SoundOwners, ManagedRuns
  <1> QED
    BY <1>1, BecomeSound DEF Go

\* The catch blocks lead to sound owners.
LEMMA ThrownSound == ASSUME NEW m \in ManagedRuns PROVE Thrown(m) \in SoundOwners
  <1>1. CASE m.ctx = "start"
    BY <1>1, PcsFact DEF Pcs, Thrown, SoundOwners, ManagedRuns, Goals
  <1>2. CASE m.ctx = "events"
    BY <1>2, PcsFact DEF Pcs, Thrown, SoundOwners, ManagedRuns
  <1>3. CASE m.ctx = "cancel"
    BY <1>3, PcsFact DEF Pcs, Thrown, SoundOwners, ManagedRuns
  <1>4. CASE m.ctx = "fail"
    BY <1>4, PcsFact DEF Pcs, Thrown, SoundOwners, ManagedRuns
  <1> QED
    BY <1>1, <1>2, <1>3, <1>4 DEF ManagedRuns

LEMMA TerminatedSound == ASSUME NEW m \in ManagedRuns PROVE Terminated(m) \in SoundOwners
  BY PcsFact DEF Pcs, Terminated, SoundOwners, ManagedRuns

LEMMA RefreshedTyped ==
    ASSUME StoreTypeOK, OwnersSound, NEW r \in Runs
    PROVE  /\ mgr[r] \in SoundOwners
           /\ mgr[r] \in ManagedRuns
           /\ Refreshed(r) \in ManagedRuns
           /\ mgr[r].ref \in SandboxRefs /\ mgr[r].st \in Statuses
  BY DEF StoreTypeOK, OwnersSound, SoundOwners, ManagedRuns, Refreshed

\* Going on anywhere but to the transition of complete() keeps an owner sound.
LEMMA PcSound ==
    ASSUME NEW m \in ManagedRuns, NEW pc \in MgrPcs \ {"completeDuration", "completeCommit"}
    PROVE  /\ [m EXCEPT !.pc = pc] \in SoundOwners
           /\ \A goal \in Goals : [m EXCEPT !.pc = pc, !.goal = goal] \in SoundOwners
           /\ \A ref \in SandboxRefs : [m EXCEPT !.pc = pc, !.ref = ref] \in SoundOwners
           /\ \A proc \in {"unstarted", "attempted", "held", "stopped"} :
                [m EXCEPT !.pc = pc, !.proc = proc] \in SoundOwners
  BY DEF SoundOwners, ManagedRuns

\* The other ways in which the event loop goes on.
LEMMA EventPcSound ==
    ASSUME NEW m \in ManagedRuns
    PROVE  /\ [m EXCEPT !.pc = "consume", !.st = "running", !.ctx = "events",
                        !.timer = "armed"] \in SoundOwners
           /\ [m EXCEPT !.pc = "terminate", !.ctx = "fail", !.goal = "fail"] \in SoundOwners
           /\ \A back \in {"consume", "catch", "rejected"} :
                [m EXCEPT !.pc = "cancelRefresh", !.timer = "fired", !.back = back,
                          !.ctx = "cancel", !.goal = "timed_out"] \in SoundOwners
  <1>1. /\ {"consume", "terminate", "cancelRefresh"} \subseteq MgrPcs
        /\ "running" \in Statuses /\ {"fail", "timed_out"} \subseteq Goals
    BY PcsFact DEF Pcs, Statuses, ActiveStatuses, Goals
  <1> QED
    BY <1>1 DEF SoundOwners, ManagedRuns

LEMMA MoveLeaseSound ==
    ASSUME StoreTypeOK, OwnersSound,
           NEW r \in Runs, NEW newStatus \in LeaseStatuses, NEW next \in MgrPcs,
           next \in {"completeDuration", "completeCommit"} => mgr[r].goal # "succeeded",
           MoveLease(r, newStatus, next)
    PROVE  StoreStep /\ OwnersSound'
  <1>1. RowsStep /\ ProviderStep /\ FaultStep
    BY DEF MoveLease, StatementFaults, DatabaseFault, Mishap, RowsStep, ProviderStep, FaultStep
  <1>2. CASE /\ UpdateLeaseForRun(r, mgr[r].lref, mgr[r].lver, newStatus, mgr[r].ref)
             /\ Become(r, [mgr[r] EXCEPT !.pc = next, !.lref = lease'.ref,
                                         !.lver = lease'.version])
    <2>1. LeaseStep
      BY <1>2, RefreshedTyped DEF UpdateLeaseForRun, LeaseStep
    <2>2. lease'.ref \in SandboxRefs /\ lease'.version \in Nat
      BY <2>1, LeaseStepType
    <2>3. [mgr[r] EXCEPT !.pc = next, !.lref = lease'.ref, !.lver = lease'.version]
            \in SoundOwners
      BY <2>2, RefreshedTyped DEF SoundOwners, ManagedRuns
    <2> QED
      BY <1>1, <1>2, <2>1, <2>3, BecomeSound DEF StoreStep
  <1>3. CASE Throw(r) /\ UNCHANGED lease
    BY <1>1, <1>3, RefreshedTyped, ThrownSound, BecomeSound DEF Throw, StoreStep, LeaseStep
  <1>4. CASE /\ UpdateLeaseForRun(r, mgr[r].lref, mgr[r].lver, newStatus, mgr[r].ref)
             /\ Throw(r)
    <2>1. LeaseStep
      BY <1>4, RefreshedTyped DEF UpdateLeaseForRun, LeaseStep
    <2> QED
      BY <1>1, <1>4, <2>1, RefreshedTyped, ThrownSound, BecomeSound DEF Throw, StoreStep
  <1> QED
    BY <1>2, <1>3, <1>4 DEF MoveLease, StatementFaults

LEMMA MoveRunSound ==
    ASSUME StoreTypeOK, OwnersSound,
           NEW r \in Runs, NEW to \in Statuses \ {"succeeded"},
           NEW next \in MgrPcs \ {"completeDuration", "completeCommit"},
           MoveRun(r, to, next)
    PROVE  StoreStep /\ OwnersSound'
  <1>1. LeaseStep /\ ProviderStep /\ FaultStep
    BY DEF MoveRun, StatementFaults, DatabaseFault, Mishap, LeaseStep, ProviderStep, FaultStep
  <1>2. CASE /\ Transition(r, mgr[r].st, to)
             /\ Become(r, [mgr[r] EXCEPT !.pc = next, !.st = to])
    <2>1. RowsStep
      BY <1>2, RefreshedTyped DEF RowsStep
    <2>2. [mgr[r] EXCEPT !.pc = next, !.st = to] \in SoundOwners
      <3> DEFINE old == mgr[r]
                 rec == [old EXCEPT !.pc = next, !.st = to]
      <3>1. old \in ManagedRuns /\ next \in MgrPcs /\ to \in Statuses
        BY RefreshedTyped DEF SoundOwners
      <3>2. rec \in ManagedRuns /\ rec.pc = next
        <4> HIDE DEF old
        <4> QED BY <3>1 DEF ManagedRuns
      <3> QED BY <3>2 DEF SoundOwners
    <2> QED
      BY <1>1, <1>2, <2>1, <2>2, BecomeSound DEF StoreStep
  <1>3. CASE Throw(r) /\ UNCHANGED runRows
    BY <1>1, <1>3, RefreshedTyped, ThrownSound, BecomeSound DEF Throw, StoreStep, RowsStep
  <1>4. CASE Transition(r, mgr[r].st, to) /\ Throw(r)
    <2>1. RowsStep
      BY <1>4, RefreshedTyped DEF RowsStep
    <2> QED
      BY <1>1, <1>4, <2>1, RefreshedTyped, ThrownSound, BecomeSound DEF Throw, StoreStep
  <1> QED
    BY <1>2, <1>3, <1>4 DEF MoveRun, StatementFaults

LEMMA StoreUnchanged == UNCHANGED storeVars => StoreStep
  BY DEF storeVars, StoreStep, RowsStep, LeaseStep, ProviderStep, FaultStep, runRows,
         providerVars

\* The start-up of an owner.
LEMMA StartupSound ==
    ASSUME StoreTypeOK, OwnersSound, NEW r \in Runs, Startup(r)
    PROVE  StoreStep /\ OwnersSound'
  <1> USE RefreshedTyped, PcsFact DEF Pcs
  <1>1. CASE MarkLeaseStarting(r)
    BY <1>1, MoveLeaseSound DEF MarkLeaseStarting, LeaseStatuses
  <1>2. CASE EnsureSandbox(r)
    <2>1. RowsStep /\ LeaseStep
      BY <1>2 DEF EnsureSandbox, RowsStep, LeaseStep
    <2>2. ProviderStep /\ FaultStep
      BY <1>2 DEF EnsureSandbox, ProviderStep, FaultStep
    <2>3. \E m \in SoundOwners : Become(r, m)
      <3>1. mgr[r].lref \in SandboxRefs /\ r \in SandboxRefs
        BY DEF ManagedRuns, SandboxRefs
      <3>2. \A ref \in SandboxRefs : [mgr[r] EXCEPT !.pc = "markReady", !.ref = ref]
                                       \in SoundOwners
        BY PcSound
      <3> QED
        BY <1>2, <3>1, <3>2, ThrownSound DEF EnsureSandbox, Throw
    <2> QED
      BY <2>1, <2>2, <2>3, BecomeSound DEF StoreStep
  <1>3. CASE MarkLeaseReady(r)
    BY <1>3, MoveLeaseSound DEF MarkLeaseReady, LeaseStatuses
  <1>4. CASE RefreshAfterReady(r)
    <2>1. \E m \in SoundOwners : Become(r, m)
      <3>1. /\ [Refreshed(r) EXCEPT !.pc = "completeLease", !.goal = "cancelled"] \in SoundOwners
            /\ [Refreshed(r) EXCEPT !.pc = "configure"] \in SoundOwners
            /\ Thrown(Refreshed(r)) \in SoundOwners
        BY PcSound, ThrownSound DEF Goals
      <3> QED
        BY <1>4, <3>1 DEF RefreshAfterReady
    <2> QED
      BY <1>4, <2>1, BecomeSound, StoreUnchanged DEF RefreshAfterReady
  <1>5. CASE ConfigureAgent(r)
    <2>1. StoreStep
      BY <1>5 DEF ConfigureAgent, StoreStep, RowsStep, LeaseStep, ProviderStep, FaultStep
    <2>2. \E m \in SoundOwners : Become(r, m)
      <3>1. /\ [Refreshed(r) EXCEPT !.pc = "spawn", !.proc = "attempted"] \in SoundOwners
            /\ Thrown(Refreshed(r)) \in SoundOwners
            /\ Thrown(mgr[r]) \in SoundOwners
        BY PcSound, ThrownSound
      <3> QED
        BY <1>5, <3>1 DEF ConfigureAgent, Throw
    <2> QED
      BY <2>1, <2>2, BecomeSound
  <1>6. CASE SpawnAgent(r)
    <2>1. RowsStep /\ LeaseStep
      BY <1>6 DEF SpawnAgent, RowsStep, LeaseStep
    <2>2. ProviderStep /\ FaultStep
      BY <1>6 DEF SpawnAgent, ProviderStep, FaultStep
    <2>3. \E m \in SoundOwners : Become(r, m)
      <3>1. [mgr[r] EXCEPT !.pc = "prompt", !.proc = "held"] \in SoundOwners
        BY PcSound
      <3> QED
        BY <1>6, <3>1, ThrownSound DEF SpawnAgent, Throw
    <2> QED
      BY <2>1, <2>2, <2>3, BecomeSound DEF StoreStep
  <1>7. CASE PromptAgent(r)
    <2>1. StoreStep
      BY <1>7 DEF PromptAgent, StoreStep, RowsStep, LeaseStep, ProviderStep, FaultStep
    <2>2. \E m \in SoundOwners : Become(r, m)
      <3>1. [mgr[r] EXCEPT !.pc = "persist"] \in SoundOwners
        BY PcSound
      <3> QED
        BY <1>7, <3>1, ThrownSound DEF PromptAgent, Throw, Go
    <2> QED
      BY <2>1, <2>2, BecomeSound
  <1>8. CASE PersistProcessRef(r)
    <2>1. StoreStep
      BY <1>8 DEF PersistProcessRef, StatementFaults, DatabaseFault, Mishap, StoreStep,
                  RowsStep, LeaseStep, ProviderStep, FaultStep
    <2>2. \E m \in SoundOwners : Become(r, m)
      <3>1. /\ [Refreshed(r) EXCEPT !.pc = "terminate", !.goal = "cancelled"] \in SoundOwners
            /\ [Refreshed(r) EXCEPT !.pc = "markBusy"] \in SoundOwners
            /\ Thrown(mgr[r]) \in SoundOwners
        BY PcSound, ThrownSound DEF Goals
      <3> QED
        BY <1>8, <3>1 DEF PersistProcessRef, StatementFaults, Throw
    <2> QED
      BY <2>1, <2>2, BecomeSound
  <1>9. CASE MarkLeaseBusy(r)
    BY <1>9, MoveLeaseSound DEF MarkLeaseBusy, LeaseStatuses
  <1>10. CASE MarkRunning(r)
    <2>1. RowsStep
      BY <1>10 DEF MarkRunning, RowsStep, Statuses, ActiveStatuses
    <2>2. \E m \in SoundOwners : Become(r, m)
      <3>1. [mgr[r] EXCEPT !.pc = "consume", !.st = "running", !.ctx = "events",
                           !.timer = "armed"] \in SoundOwners
        BY EventPcSound
      <3> QED
        BY <1>10, <3>1, ThrownSound DEF MarkRunning, StatementFaults, Throw
    <2> QED
      BY <1>10, <2>1, <2>2, BecomeSound
         DEF MarkRunning, StatementFaults, DatabaseFault, Mishap, StoreStep, LeaseStep,
             ProviderStep, FaultStep
  <1> QED
    BY <1>1, <1>2, <1>3, <1>4, <1>5, <1>6, <1>7, <1>8, <1>9, <1>10 DEF Startup

\* The end of its agent, and the deadline.
LEMMA EventsSound ==
    ASSUME StoreTypeOK, OwnersSound, NEW r \in Runs,
           \/ AgentSettles(r) \/ AgentFails(r) \/ HandleCompletion(r) \/ CatchEventError(r)
           \/ DeadlinePasses(r) \/ RefreshBeforeCancel(r) \/ MarkCancelling(r)
    PROVE  StoreStep /\ OwnersSound'
  <1> USE RefreshedTyped, PcsFact DEF Pcs
  <1>1. CASE AgentSettles(r)
    <2>1. [mgr[r] EXCEPT !.pc = "exited", !.goal = "succeeded"] \in SoundOwners
      BY PcSound DEF Goals
    <2> QED
      BY <1>1, <2>1, BecomeSound
         DEF AgentSettles, StoreStep, RowsStep, LeaseStep, ProviderStep, FaultStep
  <1>2. CASE AgentFails(r)
    <2>1. StoreStep
      BY <1>2 DEF AgentFails, StoreStep, RowsStep, LeaseStep, ProviderStep, FaultStep
    <2>2. [mgr[r] EXCEPT !.pc = "exited", !.goal = "failed"] \in SoundOwners
      BY PcSound DEF Goals
    <2>3. \E n \in SoundOwners : Become(r, n)
      BY <1>2, <2>2, ThrownSound DEF AgentFails, Throw
    <2> QED
      BY <2>1, <2>3, BecomeSound
  <1>3. CASE HandleCompletion(r)
    <2> DEFINE m == [Refreshed(r) EXCEPT !.proc = "stopped"]
    <2>1. m \in ManagedRuns
      BY DEF ManagedRuns
    <2> HIDE DEF m
    <2>2. /\ [m EXCEPT !.pc = "done"] \in SoundOwners
          /\ [m EXCEPT !.pc = "completeLease"] \in SoundOwners
          /\ [m EXCEPT !.pc = "completeLease", !.goal = "cancelled"] \in SoundOwners
          /\ [m EXCEPT !.pc = "terminate", !.goal = "fail"] \in SoundOwners
      BY <2>1, PcSound DEF Goals
    <2>3. \E n \in SoundOwners : Become(r, n)
      BY <1>3, <2>2 DEF HandleCompletion, m
    <2> QED
      BY <1>3, <2>3, BecomeSound, StoreUnchanged DEF HandleCompletion
  <1>4. CASE CatchEventError(r)
    <2>1. [mgr[r] EXCEPT !.pc = "terminate", !.ctx = "fail", !.goal = "fail"] \in SoundOwners
      BY EventPcSound
    <2> QED
      BY <1>4, <2>1, BecomeSound, StoreUnchanged DEF CatchEventError
  <1>5. CASE DeadlinePasses(r)
    <2>1. [mgr[r] EXCEPT !.pc = "cancelRefresh", !.timer = "fired", !.back = mgr[r].pc,
                         !.ctx = "cancel", !.goal = "timed_out"] \in SoundOwners
      BY <1>5, EventPcSound DEF DeadlinePasses
    <2> QED
      BY <1>5, <2>1, BecomeSound, StoreUnchanged DEF DeadlinePasses
  <1>6. CASE RefreshBeforeCancel(r)
    <2>1. /\ [Refreshed(r) EXCEPT !.pc = "done"] \in SoundOwners
          /\ [Refreshed(r) EXCEPT !.pc = "cancelMark"] \in SoundOwners
          /\ [Refreshed(r) EXCEPT !.pc = "terminate"] \in SoundOwners
      BY PcSound
    <2>2. \E n \in SoundOwners : Become(r, n)
      BY <1>6, <2>1 DEF RefreshBeforeCancel
    <2> QED
      BY <1>6, <2>2, BecomeSound, StoreUnchanged DEF RefreshBeforeCancel
  <1>7. CASE MarkCancelling(r)
    BY <1>7, MoveRunSound DEF MarkCancelling, Statuses, ActiveStatuses
  <1> QED
    BY <1>1, <1>2, <1>3, <1>4, <1>5, <1>6, <1>7

\* terminateExecution() leads on to fail() or to complete(), whose first step is the Lease.
LEMMA TerminateSound ==
    ASSUME StoreTypeOK, OwnersSound, NEW r \in Runs, Terminate(r)
    PROVE  StoreStep /\ OwnersSound'
  <1> USE RefreshedTyped
  <1>0. \A proc \in {"unstarted", "attempted", "held", "stopped"} :
          /\ [mgr[r] EXCEPT !.proc = proc] \in ManagedRuns
          /\ [Refreshed(r) EXCEPT !.proc = proc] \in ManagedRuns
          /\ [mgr[r] EXCEPT !.ref = None, !.proc = proc] \in ManagedRuns
    <2>1. ASSUME NEW m \in ManagedRuns,
                 NEW proc \in {"unstarted", "attempted", "held", "stopped"}
          PROVE  /\ [m EXCEPT !.proc = proc] \in ManagedRuns
                 /\ [m EXCEPT !.ref = None, !.proc = proc] \in ManagedRuns
      BY DEF ManagedRuns, SandboxRefs
    <2> QED
      BY <2>1
  <1>1. CASE NothingToTerminate(r)
    BY <1>1, TerminatedSound, BecomeSound, StoreUnchanged DEF NothingToTerminate
  <1>2. CASE KillHeldProcess(r)
    <2>1. StoreStep
      BY <1>2 DEF KillHeldProcess, StoreStep, RowsStep, LeaseStep, ProviderStep, FaultStep
    <2>2. \E n \in SoundOwners : Become(r, n)
      <3>1. [mgr[r] EXCEPT !.pc = "killFailed"] \in SoundOwners
        BY PcSound, PcsFact DEF Pcs
      <3> QED
        BY <1>0, <1>2, <3>1, TerminatedSound DEF KillHeldProcess, Go
    <2> QED
      BY <2>1, <2>2, BecomeSound
  <1>3. CASE RefreshAfterKill(r)
    <2>1. \E n \in SoundOwners : Become(r, n)
      BY <1>0, <1>3, TerminatedSound, ThrownSound DEF RefreshAfterKill
    <2> QED
      BY <1>3, <2>1, BecomeSound, StoreUnchanged DEF RefreshAfterKill
  <1>4. CASE RefreshBeforeStop(r)
    <2>1. [Refreshed(r) EXCEPT !.pc = "stopSandbox"] \in SoundOwners
      BY PcSound, PcsFact DEF Pcs
    <2>2. \E n \in SoundOwners : Become(r, n)
      BY <1>4, <2>1, TerminatedSound, ThrownSound DEF RefreshBeforeStop
    <2> QED
      BY <1>4, <2>2, BecomeSound, StoreUnchanged DEF RefreshBeforeStop
  <1>5. CASE StopOwnSandbox(r)
    <2>1. StoreStep
      BY <1>5 DEF StopOwnSandbox, StoreStep, RowsStep, LeaseStep, ProviderStep, FaultStep
    <2>2. \E n \in SoundOwners : Become(r, n)
      BY <1>0, <1>5, TerminatedSound, ThrownSound DEF StopOwnSandbox, Throw
    <2> QED
      BY <2>1, <2>2, BecomeSound
  <1> QED
    BY <1>1, <1>2, <1>3, <1>4, <1>5 DEF Terminate

LEMMA RecordDurationSound ==
    ASSUME StoreTypeOK, OwnersSound, NEW r \in Runs,
           NEW next \in MgrPcs, next = "completeCommit" => mgr[r].goal # "succeeded",
           next # "completeDuration", RecordDuration(r, next)
    PROVE  StoreStep /\ OwnersSound'
  <1>1. [Refreshed(r) EXCEPT !.pc = next] \in SoundOwners
    BY RefreshedTyped DEF SoundOwners, ManagedRuns, Refreshed
  <1>2. \E n \in SoundOwners : Become(r, n)
    BY <1>1, RefreshedTyped, ThrownSound DEF RecordDuration
  <1> QED
    BY <1>2, BecomeSound, StoreUnchanged DEF RecordDuration

\* fail()
LEMMA FailSound ==
    ASSUME StoreTypeOK, OwnersSound, NEW r \in Runs, Fail(r)
    PROVE  StoreStep /\ OwnersSound'
  <1>0. /\ {"done", "failDuration", "failLease", "failCommit", "completeLease"}
             \subseteq MgrPcs \ {"completeDuration", "completeCommit"}
        /\ "cancelled" \in Goals /\ "failed" \in Statuses \ {"succeeded"}
    BY PcsFact DEF Pcs, Goals, Statuses, TerminalStatuses
  <1>1. CASE RefreshBeforeFail(r)
    <2>1. /\ [Refreshed(r) EXCEPT !.pc = "done"] \in SoundOwners
          /\ [Refreshed(r) EXCEPT !.pc = "completeLease", !.goal = "cancelled"] \in SoundOwners
          /\ [Refreshed(r) EXCEPT !.pc = "failDuration"] \in SoundOwners
      BY <1>0, RefreshedTyped, PcSound
    <2>2. \E n \in SoundOwners : Become(r, n)
      BY <1>1, <2>1 DEF RefreshBeforeFail
    <2> QED
      BY <1>1, <2>2, BecomeSound, StoreUnchanged DEF RefreshBeforeFail
  <1>2. CASE FailDuration(r)
    BY <1>0, <1>2, RecordDurationSound DEF FailDuration
  <1>3. CASE FailLease(r)
    BY <1>0, <1>3, MoveLeaseSound DEF FailLease, LeaseStatuses
  <1>4. CASE FailCommit(r)
    BY <1>0, <1>4, MoveRunSound DEF FailCommit
  <1> QED
    BY <1>1, <1>2, <1>3, <1>4 DEF Fail

\* complete(): here OwnersSound is needed, because CompleteCommit writes the goal.
LEMMA CompleteSound ==
    ASSUME StoreTypeOK, OwnersSound, NEW r \in Runs, Complete(r)
    PROVE  StoreStep /\ OwnersSound'
  <1>0. /\ {"done", "completeLease", "completeDuration", "completeCommit", "succeed",
            "succeedLost"} \subseteq MgrPcs
        /\ "cancelled" \in Goals
    BY PcsFact DEF Pcs, Goals
  <1>1. CASE CompleteLease(r)
    BY <1>0, <1>1, MoveLeaseSound DEF CompleteLease, LeaseStatuses
  <1>2. CASE CompleteDuration(r)
    <2>1. mgr[r].goal # "succeeded"
      BY <1>2, RefreshedTyped DEF CompleteDuration, At, SoundOwners
    <2> QED
      BY <1>0, <1>2, <2>1, RecordDurationSound DEF CompleteDuration
  <1>3. CASE CompleteCommit(r)
    <2>1. mgr[r].goal # "succeeded" /\ mgr[r].goal \in Goals
      BY <1>3, RefreshedTyped DEF CompleteCommit, At, SoundOwners, ManagedRuns
    <2>2. CASE mgr[r].goal # "fail"
      <3>1. mgr[r].goal \in Statuses \ {"succeeded"}
        BY <2>1, <2>2 DEF Goals, Statuses, TerminalStatuses
      <3> QED
        BY <1>0, <1>3, <3>1, MoveRunSound DEF CompleteCommit
    <2>3. CASE mgr[r].goal = "fail"
      <3>1. "fail" \notin Statuses
        BY DEF Statuses, ActiveStatuses, TerminalStatuses
      <3>2. ~canTransitionAgentRun(mgr[r].st, "fail")
        BY <3>1, TransitionFacts
      <3>3. Throw(r) /\ UNCHANGED <<runRows, lease, providerVars>> /\ FaultStep
        BY <1>3, <2>3, <3>2
           DEF CompleteCommit, MoveRun, StatementFaults, DatabaseFault, Mishap, FaultStep,
               Transition, CanTransition
      <3> QED
        BY <3>3, RefreshedTyped, ThrownSound, BecomeSound
           DEF Throw, StoreStep, RowsStep, LeaseStep, ProviderStep
    <2> QED
      BY <2>2, <2>3
  <1>4. CASE Succeed(r)
    <2>1. StoreStep
      BY <1>4 DEF Succeed, StatementFaults, DatabaseFault, Mishap, StoreStep, RowsStep,
                  LeaseStep, ProviderStep, FaultStep
    <2>2. \A pc \in {"done", "succeedLost"} : [mgr[r] EXCEPT !.pc = pc] \in SoundOwners
      BY <1>0, RefreshedTyped, PcSound
    <2> QED
      BY <1>4, <2>1, <2>2, RefreshedTyped, ThrownSound, BecomeSound
         DEF Succeed, StatementFaults, Throw, Go
  <1>5. CASE RefreshAfterLostSuccess(r)
    <2>1. /\ [Refreshed(r) EXCEPT !.pc = "done"] \in SoundOwners
          /\ [Refreshed(r) EXCEPT !.pc = "completeLease", !.goal = "cancelled"] \in SoundOwners
          /\ Thrown(Refreshed(r)) \in SoundOwners
      BY <1>0, RefreshedTyped, PcSound, ThrownSound
    <2>2. \E n \in SoundOwners : Become(r, n)
      BY <1>5, <2>1 DEF RefreshAfterLostSuccess
    <2> QED
      BY <1>5, <2>2, BecomeSound, StoreUnchanged DEF RefreshAfterLostSuccess
  <1> QED
    BY <1>1, <1>2, <1>3, <1>4, <1>5 DEF Complete

LEMMA RefreshFaultsSound ==
    ASSUME StoreTypeOK, OwnersSound, NEW r \in Runs, RefreshFaults(r)
    PROVE  StoreStep /\ OwnersSound'
  <1>1. [mgr[r] EXCEPT !.proc = IF At(r, "exited") THEN "stopped" ELSE @] \in ManagedRuns
    BY RefreshedTyped DEF ManagedRuns
  <1>2. StoreStep
    BY DEF RefreshFaults, DatabaseFault, Mishap, StoreStep, RowsStep, LeaseStep, ProviderStep,
           FaultStep
  <1> QED
    BY <1>1, <1>2, ThrownSound, BecomeSound DEF RefreshFaults

\* Whatever an owner does is a step of the store.
LEMMA CoordinatorStepSound ==
    ASSUME StoreTypeOK, OwnersSound, NEW r \in Runs, CoordinatorNext(r)
    PROVE  StoreStep /\ OwnersSound'
  BY StartupSound, TerminateSound, FailSound, CompleteSound, EventsSound, RefreshFaultsSound
     DEF CoordinatorNext, OwnerStep

\* The claim that creates an owner.
LEMMA ClaimSound ==
    ASSUME StoreTypeOK, OwnersSound, NEW r \in Runs, NEW k \in Attempts,
           NEW ref \in SandboxRefs, NEW ver \in Nat, Claim(r, k, ref, ver)
    PROVE  StoreStep /\ OwnersSound'
  <1>0. "markStarting" \in MgrPcs /\ {"queued", "starting"} \subseteq Statuses
    BY PcsFact DEF Pcs, Statuses, ActiveStatuses
  <1>1. [NoManagedRun EXCEPT !.pc = "markStarting", !.by = k, !.st = "starting",
                             !.lref = ref, !.lver = ver, !.ref = ref] \in SoundOwners
    BY <1>0, NoManagedRunSound DEF SoundOwners, ManagedRuns
  <1>2. StoreStep
    BY <1>0 DEF Claim, StoreStep, RowsStep, LeaseStep, ProviderStep, FaultStep
  <1> QED
    BY <1>1, <1>2, BecomeSound DEF Claim

-----------------------------------------------------------------------------
(* Which attempt built the owner never changes.                            *)

KeepsBuilder(r) == \E m : m.by = mgr[r].by /\ Become(r, m)

LEMMA ThrownKeepsBuilder ==
    ASSUME NEW m \in ManagedRuns
    PROVE  Thrown(m).by = m.by /\ Terminated(m).by = m.by
  BY DEF Thrown, Terminated, ManagedRuns

LEMMA KeptBuilder ==
    ASSUME OwnersSound, NEW r \in Runs, KeepsBuilder(r)
    PROVE  \A q \in Runs : mgr'[q].by = mgr[q].by
  <1>1. PICK m : m.by = mgr[r].by /\ Become(r, m)
    BY DEF KeepsBuilder
  <1>2. Settled(m).by = m.by
    BY <1>1 DEF Settled, NoManagedRun
  <1> QED
    BY <1>1, <1>2 DEF Become, OwnersSound

LEMMA OwnerKeepsBuilder ==
    ASSUME StoreTypeOK, OwnersSound, NEW r \in Runs, CoordinatorNext(r)
    PROVE  \A q \in Runs : mgr'[q].by = mgr[q].by
  <1> USE RefreshedTyped, ThrownKeepsBuilder
  <1>0. Refreshed(r).by = mgr[r].by
    BY DEF Refreshed, ManagedRuns
  <1>1. ASSUME MarkLeaseStarting(r) PROVE KeepsBuilder(r)
    BY <1>0, <1>1
       DEF MarkLeaseStarting, MoveLease, StatementFaults, Throw, KeepsBuilder, ManagedRuns
  <1>2. ASSUME EnsureSandbox(r) PROVE KeepsBuilder(r)
    BY <1>0, <1>2 DEF EnsureSandbox, Throw, KeepsBuilder, ManagedRuns
  <1>3. ASSUME MarkLeaseReady(r) PROVE KeepsBuilder(r)
    BY <1>0, <1>3 DEF MarkLeaseReady, MoveLease, StatementFaults, Throw, KeepsBuilder, ManagedRuns
  <1>4. ASSUME RefreshAfterReady(r) PROVE KeepsBuilder(r)
    BY <1>0, <1>4 DEF RefreshAfterReady, KeepsBuilder, ManagedRuns
  <1>5. ASSUME ConfigureAgent(r) PROVE KeepsBuilder(r)
    BY <1>0, <1>5 DEF ConfigureAgent, Throw, KeepsBuilder, ManagedRuns
  <1>6. ASSUME SpawnAgent(r) PROVE KeepsBuilder(r)
    BY <1>0, <1>6 DEF SpawnAgent, Throw, KeepsBuilder, ManagedRuns
  <1>7. ASSUME PromptAgent(r) PROVE KeepsBuilder(r)
    BY <1>0, <1>7 DEF PromptAgent, Throw, Go, KeepsBuilder, ManagedRuns
  <1>8. ASSUME PersistProcessRef(r) PROVE KeepsBuilder(r)
    BY <1>0, <1>8 DEF PersistProcessRef, StatementFaults, Throw, KeepsBuilder, ManagedRuns
  <1>9. ASSUME MarkLeaseBusy(r) PROVE KeepsBuilder(r)
    BY <1>0, <1>9 DEF MarkLeaseBusy, MoveLease, StatementFaults, Throw, KeepsBuilder, ManagedRuns
  <1>10. ASSUME MarkRunning(r) PROVE KeepsBuilder(r)
    BY <1>0, <1>10 DEF MarkRunning, StatementFaults, Throw, KeepsBuilder, ManagedRuns
  <1>11. ASSUME NothingToTerminate(r) PROVE KeepsBuilder(r)
    BY <1>0, <1>11 DEF NothingToTerminate, KeepsBuilder, ManagedRuns
  <1>12. ASSUME KillHeldProcess(r) PROVE KeepsBuilder(r)
    BY <1>0, <1>12 DEF KillHeldProcess, Go, KeepsBuilder, ManagedRuns
  <1>13. ASSUME RefreshAfterKill(r) PROVE KeepsBuilder(r)
    BY <1>0, <1>13 DEF RefreshAfterKill, KeepsBuilder, ManagedRuns
  <1>14. ASSUME RefreshBeforeStop(r) PROVE KeepsBuilder(r)
    BY <1>0, <1>14 DEF RefreshBeforeStop, KeepsBuilder, ManagedRuns
  <1>15. ASSUME StopOwnSandbox(r) PROVE KeepsBuilder(r)
    <2> DEFINE m == [mgr[r] EXCEPT !.ref = None, !.proc = "stopped"]
    <2>1. m \in ManagedRuns /\ m.by = mgr[r].by
      BY DEF ManagedRuns, SandboxRefs
    <2> HIDE DEF m
    <2>2. Become(r, Terminated(m)) \/ Become(r, Thrown(mgr[r]))
      BY <1>15 DEF StopOwnSandbox, Throw, m
    <2> QED
      BY <2>1, <2>2 DEF KeepsBuilder
  <1>16. ASSUME RefreshBeforeFail(r) PROVE KeepsBuilder(r)
    BY <1>0, <1>16 DEF RefreshBeforeFail, KeepsBuilder, ManagedRuns
  <1>17. ASSUME FailDuration(r) PROVE KeepsBuilder(r)
    BY <1>0, <1>17 DEF FailDuration, RecordDuration, KeepsBuilder, ManagedRuns
  <1>18. ASSUME FailLease(r) PROVE KeepsBuilder(r)
    BY <1>0, <1>18 DEF FailLease, MoveLease, StatementFaults, Throw, KeepsBuilder, ManagedRuns
  <1>19. ASSUME FailCommit(r) PROVE KeepsBuilder(r)
    BY <1>0, <1>19 DEF FailCommit, MoveRun, StatementFaults, Throw, KeepsBuilder, ManagedRuns
  <1>20. ASSUME CompleteLease(r) PROVE KeepsBuilder(r)
    BY <1>0, <1>20 DEF CompleteLease, MoveLease, StatementFaults, Throw, KeepsBuilder, ManagedRuns
  <1>21. ASSUME CompleteDuration(r) PROVE KeepsBuilder(r)
    BY <1>0, <1>21 DEF CompleteDuration, RecordDuration, KeepsBuilder, ManagedRuns
  <1>22. ASSUME CompleteCommit(r) PROVE KeepsBuilder(r)
    BY <1>0, <1>22 DEF CompleteCommit, MoveRun, StatementFaults, Throw, KeepsBuilder, ManagedRuns
  <1>23. ASSUME Succeed(r) PROVE KeepsBuilder(r)
    BY <1>0, <1>23 DEF Succeed, StatementFaults, Throw, Go, KeepsBuilder, ManagedRuns
  <1>24. ASSUME RefreshAfterLostSuccess(r) PROVE KeepsBuilder(r)
    BY <1>0, <1>24 DEF RefreshAfterLostSuccess, KeepsBuilder, ManagedRuns
  <1>25. ASSUME AgentSettles(r) PROVE KeepsBuilder(r)
    BY <1>0, <1>25 DEF AgentSettles, KeepsBuilder, ManagedRuns
  <1>26. ASSUME AgentFails(r) PROVE KeepsBuilder(r)
    BY <1>0, <1>26 DEF AgentFails, Throw, KeepsBuilder, ManagedRuns
  <1>27. ASSUME HandleCompletion(r) PROVE KeepsBuilder(r)
    BY <1>0, <1>27 DEF HandleCompletion, KeepsBuilder, ManagedRuns
  <1>28. ASSUME CatchEventError(r) PROVE KeepsBuilder(r)
    BY <1>0, <1>28 DEF CatchEventError, KeepsBuilder, ManagedRuns
  <1>29. ASSUME DeadlinePasses(r) PROVE KeepsBuilder(r)
    BY <1>0, <1>29 DEF DeadlinePasses, KeepsBuilder, ManagedRuns
  <1>30. ASSUME RefreshBeforeCancel(r) PROVE KeepsBuilder(r)
    BY <1>0, <1>30 DEF RefreshBeforeCancel, KeepsBuilder, ManagedRuns
  <1>31. ASSUME MarkCancelling(r) PROVE KeepsBuilder(r)
    BY <1>0, <1>31 DEF MarkCancelling, MoveRun, StatementFaults, Throw, KeepsBuilder, ManagedRuns
  <1>32. ASSUME RefreshFaults(r) PROVE KeepsBuilder(r)
    <2> DEFINE m == [mgr[r] EXCEPT !.proc = IF At(r, "exited") THEN "stopped" ELSE @]
    <2>1. m \in ManagedRuns /\ m.by = mgr[r].by
      BY DEF ManagedRuns
    <2> HIDE DEF m
    <2>2. Become(r, Thrown(m))
      BY <1>32 DEF RefreshFaults, m
    <2> QED
      BY <2>1, <2>2 DEF KeepsBuilder
  <1>99. KeepsBuilder(r)
    BY <1>1, <1>2, <1>3, <1>4, <1>5, <1>6, <1>7, <1>8, <1>9, <1>10, <1>11, <1>12,
       <1>13, <1>14, <1>15, <1>16, <1>17, <1>18, <1>19, <1>20, <1>21, <1>22, <1>23,
       <1>24, <1>25, <1>26, <1>27, <1>28, <1>29, <1>30, <1>31, <1>32
       DEF CoordinatorNext, OwnerStep, Startup, Terminate, Fail, Complete
  <1> QED
    BY <1>99, KeptBuilder

-----------------------------------------------------------------------------
(* What each step of an owner does, field by field: the facts about        *)
(* records that every proof below needs, established once.                 *)

\* Only the owner of r moves.
OnlyOwner(r) == \A q \in Runs : q # r => mgr'[q] = mgr[q]

\* The owner goes on to the await pc; what it knows of the Lease and who catches a throw stay.
Goes(r, pc, st, goal, ref, proc) ==
    /\ OnlyOwner(r)
    /\ mgr'[r].pc = pc /\ mgr'[r].st = st /\ mgr'[r].goal = goal
    /\ mgr'[r].ref = ref /\ mgr'[r].proc = proc
    /\ mgr'[r].by = mgr[r].by /\ mgr'[r].lref = mgr[r].lref /\ mgr'[r].lver = mgr[r].lver
    /\ mgr'[r].ctx = mgr[r].ctx /\ mgr'[r].timer = mgr[r].timer /\ mgr'[r].lost = mgr[r].lost

\* It is gone.
Ends(r, pc) ==
    /\ OnlyOwner(r)
    /\ mgr'[r].pc = pc /\ mgr'[r].st = "queued" /\ mgr'[r].goal = "fail"
    /\ mgr'[r].ref = None /\ mgr'[r].proc = "unstarted"
    /\ mgr'[r].lref = None /\ mgr'[r].lver = 0 /\ mgr'[r].ctx = "start"
    /\ mgr'[r].by = mgr[r].by /\ mgr'[r].timer = mgr[r].timer /\ mgr'[r].lost = mgr[r].lost

\* It throws, knowing st of the Run and proc of its process.
Throws(r, st, proc) ==
    /\ OnlyOwner(r)
    /\ mgr'[r].st = st /\ mgr'[r].ref = mgr[r].ref /\ mgr'[r].proc = proc
    /\ mgr'[r].by = mgr[r].by /\ mgr'[r].lref = mgr[r].lref /\ mgr'[r].lver = mgr[r].lver
    /\ \/ /\ mgr[r].ctx = "start" /\ mgr'[r].ctx = "fail"
          /\ mgr'[r].pc = "terminate" /\ mgr'[r].goal = "fail"
          /\ mgr'[r].timer = mgr[r].timer /\ mgr'[r].lost = mgr[r].lost
       \/ /\ mgr[r].ctx = "events" /\ mgr'[r].ctx = "events"
          /\ mgr'[r].pc = "catch" /\ mgr'[r].goal = mgr[r].goal
          /\ mgr'[r].timer = mgr[r].timer /\ mgr'[r].lost = mgr[r].lost
       \/ /\ mgr[r].ctx = "cancel" /\ mgr'[r].ctx = "events"
          /\ mgr'[r].pc \in {"consume", "catch", "rejected"} /\ mgr'[r].goal = mgr[r].goal
          /\ mgr'[r].timer = "rejected" /\ mgr'[r].lost = mgr[r].lost
       \/ /\ mgr[r].ctx = "fail" /\ mgr'[r].ctx = "fail"
          /\ mgr'[r].pc = "rejected" /\ mgr'[r].goal = mgr[r].goal
          /\ mgr'[r].timer = mgr[r].timer /\ mgr'[r].lost

\* Become, as equations between fields.
LEMMA BecomeFields ==
    ASSUME OwnersSound, NEW r \in Runs, NEW m, Become(r, m)
    PROVE  /\ OnlyOwner(r)
           /\ m.pc \notin {"done", "dead"} => mgr'[r] = m
           /\ m.pc \in {"done", "dead"} =>
                /\ mgr'[r].pc = m.pc /\ mgr'[r].st = "queued" /\ mgr'[r].goal = "fail"
                /\ mgr'[r].ref = None /\ mgr'[r].proc = "unstarted"
                /\ mgr'[r].lref = None /\ mgr'[r].lver = 0 /\ mgr'[r].ctx = "start"
                /\ mgr'[r].by = m.by /\ mgr'[r].timer = m.timer /\ mgr'[r].lost = m.lost
  <1>1. mgr'[r] = Settled(m) /\ OnlyOwner(r)
    BY DEF Become, OwnersSound, OnlyOwner
  <1>2. CASE m.pc \notin {"done", "dead"}
    BY <1>1, <1>2 DEF Settled
  <1>3. CASE m.pc \in {"done", "dead"}
    BY <1>1, <1>3 DEF Settled, NoManagedRun
  <1> QED
    BY <1>2, <1>3

\* A record like that of the owner but for what it knows of the Run and of its process.
Like(r, m, st, ref, proc, goal) ==
    /\ m \in ManagedRuns
    /\ m.st = st /\ m.ref = ref /\ m.proc = proc /\ m.goal = goal
    /\ m.by = mgr[r].by /\ m.lref = mgr[r].lref /\ m.lver = mgr[r].lver
    /\ m.ctx = mgr[r].ctx /\ m.timer = mgr[r].timer /\ m.lost = mgr[r].lost
    /\ m.back = mgr[r].back

\* A throw from a record like the owner's.
LEMMA LikeThrows ==
    ASSUME OwnersSound, NEW r \in Runs, NEW m, NEW st, NEW proc,
           Like(r, m, st, mgr[r].ref, proc, mgr[r].goal), Become(r, Thrown(m))
    PROVE  Throws(r, st, proc)
  <1>0. m \in ManagedRuns /\ m.ctx \in {"start", "events", "cancel", "fail"}
    BY DEF Like, ManagedRuns
  <1>1. CASE m.ctx = "start"
    <2> DEFINE n == [m EXCEPT !.pc = "terminate", !.ctx = "fail", !.goal = "fail"]
    <2>1. Become(r, n)
      BY <1>1 DEF Thrown
    <2>2. n.pc = "terminate" /\ n = [m EXCEPT !.pc = "terminate", !.ctx = "fail", !.goal = "fail"]
      BY <1>0 DEF ManagedRuns
    <2>3. mgr'[r] = n /\ OnlyOwner(r)
      BY <2>1, <2>2, BecomeFields
    <2> QED
      BY <1>0, <1>1, <2>3 DEF Throws, Like, ManagedRuns
  <1>2. CASE m.ctx = "events"
    <2> DEFINE n == [m EXCEPT !.pc = "catch"]
    <2>1. Become(r, n)
      BY <1>2 DEF Thrown
    <2>2. n.pc = "catch"
      BY <1>0 DEF ManagedRuns
    <2>3. mgr'[r] = n /\ OnlyOwner(r)
      BY <2>1, <2>2, BecomeFields
    <2> QED
      BY <1>0, <1>2, <2>3 DEF Throws, Like, ManagedRuns
  <1>3. CASE m.ctx = "cancel"
    <2> DEFINE n == [m EXCEPT !.pc = m.back, !.ctx = "events", !.timer = "rejected"]
    <2>1. Become(r, n)
      BY <1>3 DEF Thrown
    <2>2. n.pc \in {"consume", "catch", "rejected"}
      BY <1>0 DEF ManagedRuns
    <2>3. mgr'[r] = n /\ OnlyOwner(r)
      BY <2>1, <2>2, BecomeFields
    <2> QED
      BY <1>0, <1>3, <2>2, <2>3 DEF Throws, Like, ManagedRuns
  <1>4. CASE m.ctx = "fail"
    <2> DEFINE n == [m EXCEPT !.pc = "rejected", !.lost = TRUE]
    <2>1. Become(r, n)
      BY <1>4 DEF Thrown
    <2>2. n.pc = "rejected"
      BY <1>0 DEF ManagedRuns
    <2>3. mgr'[r] = n /\ OnlyOwner(r)
      BY <2>1, <2>2, BecomeFields
    <2> QED
      BY <1>0, <1>4, <2>3 DEF Throws, Like, ManagedRuns
  <1> QED
    BY <1>0, <1>1, <1>2, <1>3, <1>4

\* A step of a record like the owner's to its next await.
LEMMA LikeGoes ==
    ASSUME OwnersSound, NEW r \in Runs, NEW m, NEW st, NEW ref, NEW proc, NEW goal,
           Like(r, m, st, ref, proc, goal), Become(r, m)
    PROVE  /\ m.pc \notin {"done", "dead"} => Goes(r, m.pc, st, goal, ref, proc)
           /\ m.pc \in {"done", "dead"} => Ends(r, m.pc)
  <1>1. ASSUME m.pc \notin {"done", "dead"}
        PROVE  Goes(r, m.pc, st, goal, ref, proc)
    <2>1. mgr'[r] = m /\ OnlyOwner(r)
      BY <1>1, BecomeFields
    <2> QED
      BY <2>1 DEF Goes, Like
  <1>2. ASSUME m.pc \in {"done", "dead"}
        PROVE  Ends(r, m.pc)
    BY <1>2, BecomeFields DEF Ends, Like
  <1> QED
    BY <1>1, <1>2

\* The records from which the steps of an owner build the next one.
LEMMA LikeOwner ==
    ASSUME StoreTypeOK, OwnersSound, NEW r \in Runs
    PROVE  Like(r, mgr[r], mgr[r].st, mgr[r].ref, mgr[r].proc, mgr[r].goal)
  BY RefreshedTyped DEF Like

LEMMA LikeRefreshed ==
    ASSUME StoreTypeOK, OwnersSound, NEW r \in Runs
    PROVE  Like(r, Refreshed(r), status[r], mgr[r].ref, mgr[r].proc, mgr[r].goal)
  BY RefreshedTyped DEF Like, Refreshed, ManagedRuns

LEMMA LikePc ==
    ASSUME NEW r \in Runs, NEW m, NEW st, NEW ref, NEW proc, NEW goal,
           Like(r, m, st, ref, proc, goal), NEW pc \in MgrPcs
    PROVE  /\ Like(r, [m EXCEPT !.pc = pc], st, ref, proc, goal)
           /\ [m EXCEPT !.pc = pc].pc = pc
  BY DEF Like, ManagedRuns, SandboxRefs

LEMMA LikeTerminated ==
    ASSUME OwnersSound, NEW r \in Runs, NEW m, NEW st, NEW ref, NEW proc, NEW goal,
           Like(r, m, st, ref, proc, goal), Become(r, Terminated(m))
    PROVE  \/ goal = "fail" /\ Goes(r, "failRefresh", st, goal, ref, proc)
           \/ goal # "fail" /\ Goes(r, "completeLease", st, goal, ref, proc)
  <1>1. "failRefresh" \in MgrPcs /\ "completeLease" \in MgrPcs
    BY PcsFact DEF Pcs
  <1>4. \A pc \in MgrPcs : /\ Like(r, [m EXCEPT !.pc = pc], st, ref, proc, goal)
                           /\ [m EXCEPT !.pc = pc].pc = pc
    BY LikePc
  <1>2. CASE goal = "fail"
    <2> DEFINE n == [m EXCEPT !.pc = "failRefresh"]
    <2>1. Become(r, n)
      BY <1>2 DEF Terminated, Like
    <2>2. Like(r, n, st, ref, proc, goal) /\ n.pc = "failRefresh"
      BY <1>1, <1>4
    <2> QED
      BY <1>2, <2>1, <2>2, LikeGoes
  <1>3. CASE goal # "fail"
    <2> DEFINE n == [m EXCEPT !.pc = "completeLease"]
    <2>1. Become(r, n)
      BY <1>3 DEF Terminated, Like
    <2>2. Like(r, n, st, ref, proc, goal) /\ n.pc = "completeLease"
      BY <1>1, <1>4
    <2> QED
      BY <1>3, <2>1, <2>2, LikeGoes
  <1> QED
    BY <1>2, <1>3

\* It goes on as it is, goes on having read the Run again, and throws in these two ways.
Keep(r, pc, goal, proc) == Goes(r, pc, mgr[r].st, goal, mgr[r].ref, proc)
Fresh(r, pc, goal, proc) == Goes(r, pc, status[r], goal, mgr[r].ref, proc)
ThrowsAsIs(r)  == Throws(r, mgr[r].st, mgr[r].proc)
ThrowsFresh(r) == Throws(r, status[r], mgr[r].proc)

\* markLease: the guarded write of the Lease for r.
Leases(r, newStatus) ==
    UpdateLeaseForRun(r, mgr[r].lref, mgr[r].lver, newStatus, mgr[r].ref)

\* markLease, which may throw before or after the write.
DidLease(r, newStatus, next) ==
    /\ \/ /\ Leases(r, newStatus)
          /\ OnlyOwner(r)
          /\ mgr'[r].pc = next /\ mgr'[r].lref = mgr[r].ref /\ mgr'[r].lver = lease'.version
          /\ mgr'[r].st = mgr[r].st /\ mgr'[r].goal = mgr[r].goal
          /\ mgr'[r].ref = mgr[r].ref /\ mgr'[r].proc = mgr[r].proc
          /\ mgr'[r].by = mgr[r].by /\ mgr'[r].ctx = mgr[r].ctx
          /\ mgr'[r].timer = mgr[r].timer /\ mgr'[r].lost = mgr[r].lost
       \/ UNCHANGED lease /\ ThrowsAsIs(r)
       \/ Leases(r, newStatus) /\ ThrowsAsIs(r)
    /\ UNCHANGED <<runRows, providerVars>>

\* transition, which may throw before or after the UPDATE.
DidRun(r, to, next) ==
    /\ \/ Transition(r, mgr[r].st, to)
          /\ (next = "done" => Ends(r, next))
          /\ (next # "done" => Goes(r, next, to, mgr[r].goal, mgr[r].ref, mgr[r].proc))
       \/ UNCHANGED runRows /\ ThrowsAsIs(r)
       \/ Transition(r, mgr[r].st, to) /\ ThrowsAsIs(r)
    /\ UNCHANGED <<lease, providerVars>>

\* ensureSandbox resumes the leased sandbox, or creates one.
DidEnsureSandbox(r) ==
    /\ At(r, "ensure")
    /\ \/ /\ IsLive(mgr[r].lref)
          /\ Goes(r, "markReady", mgr[r].st, mgr[r].goal, mgr[r].lref, mgr[r].proc)
          /\ UNCHANGED providerVars
       \/ /\ ~IsLive(mgr[r].lref)
          /\ CreateSandbox(r)
          /\ Goes(r, "markReady", mgr[r].st, mgr[r].goal, r, mgr[r].proc)
       \/ /\ UNCHANGED providerVars \/ (~IsLive(mgr[r].lref) /\ CreateSandbox(r))
          /\ ThrowsAsIs(r)
    /\ UNCHANGED <<runRows, lease>>

\* The read of the Run before the agent is configured.
DidRefreshAfterReady(r) ==
    /\ At(r, "afterReady")
    /\ \/ status[r] = "cancelling" /\ Fresh(r, "completeLease", "cancelled", mgr[r].proc)
       \/ Terminal(r) /\ ThrowsFresh(r)
       \/ /\ ~Terminal(r) /\ status[r] # "cancelling"
          /\ Fresh(r, "configure", mgr[r].goal, mgr[r].proc)
    /\ UNCHANGED storeVars

\* configureAgent, at the end of which the Run is read again.
DidConfigureAgent(r) ==
    /\ At(r, "configure")
    /\ \/ /\ IsLive(mgr[r].ref) /\ status[r] = "starting"
          /\ Fresh(r, "spawn", mgr[r].goal, "attempted")
       \/ ThrowsFresh(r)
       \/ ThrowsAsIs(r)
    /\ UNCHANGED <<runRows, lease, providerVars>>

\* The process may run although its start was not confirmed.
DidSpawnAgent(r) ==
    /\ At(r, "spawn")
    /\ \/ StartProcess(r, mgr[r].ref) /\ Keep(r, "prompt", mgr[r].goal, "held")
       \/ StartProcess(r, mgr[r].ref) /\ ThrowsAsIs(r)
       \/ ThrowsAsIs(r) /\ UNCHANGED providerVars
    /\ UNCHANGED <<runRows, lease>>

DidPromptAgent(r) ==
    /\ At(r, "prompt")
    /\ Keep(r, "persist", mgr[r].goal, mgr[r].proc) \/ ThrowsAsIs(r)
    /\ UNCHANGED <<runRows, lease, providerVars>>

\* setProcessRef, and the read of the Run that follows.
DidPersistProcessRef(r) ==
    /\ At(r, "persist")
    /\ \/ /\ SetProcessRef(r)
          /\ \/ status[r] = "cancelling" /\ Fresh(r, "terminate", "cancelled", mgr[r].proc)
             \/ status[r] # "cancelling" /\ Fresh(r, "markBusy", mgr[r].goal, mgr[r].proc)
       \/ (SetProcessRef(r) \/ UNCHANGED runRows) /\ ThrowsAsIs(r)
    /\ UNCHANGED <<lease, providerVars>>

\* The Run is marked running, and the event loop begins.
DidMarkRunning(r) ==
    /\ At(r, "markRunning")
    /\ \/ /\ Transition(r, "starting", "running")
          /\ OnlyOwner(r)
          /\ mgr'[r].pc = "consume" /\ mgr'[r].st = "running" /\ mgr'[r].ctx = "events"
          /\ mgr'[r].timer = "armed" /\ mgr'[r].lost = mgr[r].lost
          /\ mgr'[r].goal = mgr[r].goal /\ mgr'[r].ref = mgr[r].ref
          /\ mgr'[r].proc = mgr[r].proc /\ mgr'[r].by = mgr[r].by
          /\ mgr'[r].lref = mgr[r].lref /\ mgr'[r].lver = mgr[r].lver
       \/ (Transition(r, "starting", "running") \/ UNCHANGED runRows) /\ ThrowsAsIs(r)
    /\ UNCHANGED <<lease, providerVars>>

\* The steps of the start-up, one definition for each of those that are not a write only.
DidStartup(r) ==
    \/ At(r, "markStarting") /\ DidLease(r, "starting", "ensure")
    \/ DidEnsureSandbox(r)
    \/ At(r, "markReady") /\ DidLease(r, "ready", "afterReady")
    \/ DidRefreshAfterReady(r)
    \/ DidConfigureAgent(r)
    \/ DidSpawnAgent(r)
    \/ DidPromptAgent(r)
    \/ DidPersistProcessRef(r)
    \/ At(r, "markBusy") /\ DidLease(r, "busy", "markRunning")
    \/ DidMarkRunning(r)

-----------------------------------------------------------------------------
\* The ways in which RunCoordinator builds a record that goes on, one lemma each.
LEMMA FreshPc ==
    ASSUME StoreTypeOK, OwnersSound, NEW r \in Runs, NEW pc \in MgrPcs \ {"done", "dead"},
           Become(r, [Refreshed(r) EXCEPT !.pc = pc])
    PROVE  Fresh(r, pc, mgr[r].goal, mgr[r].proc)
  <1> DEFINE n == [Refreshed(r) EXCEPT !.pc = pc]
  <1>1. Refreshed(r) \in ManagedRuns
    BY RefreshedTyped
  <1>2. n.pc = pc /\ Like(r, n, status[r], mgr[r].ref, mgr[r].proc, mgr[r].goal)
    BY <1>1, LikeRefreshed DEF Like, ManagedRuns
  <1>3. Become(r, n)
    OBVIOUS
  <1> HIDE DEF n
  <1> QED
    BY <1>2, <1>3, LikeGoes DEF Fresh, Keep

LEMMA FreshPcGoal ==
    ASSUME StoreTypeOK, OwnersSound, NEW r \in Runs, NEW pc \in MgrPcs \ {"done", "dead"},
           NEW goal \in Goals,
           Become(r, [Refreshed(r) EXCEPT !.pc = pc, !.goal = goal])
    PROVE  Fresh(r, pc, goal, mgr[r].proc)
  <1> DEFINE n == [Refreshed(r) EXCEPT !.pc = pc, !.goal = goal]
  <1>1. Refreshed(r) \in ManagedRuns
    BY RefreshedTyped
  <1>2. n.pc = pc /\ Like(r, n, status[r], mgr[r].ref, mgr[r].proc, goal)
    BY <1>1, LikeRefreshed DEF Like, ManagedRuns
  <1>3. Become(r, n)
    OBVIOUS
  <1> HIDE DEF n
  <1> QED
    BY <1>2, <1>3, LikeGoes DEF Fresh, Keep

LEMMA FreshPcProc ==
    ASSUME StoreTypeOK, OwnersSound, NEW r \in Runs, NEW pc \in MgrPcs \ {"done", "dead"},
           NEW proc \in {"unstarted", "attempted", "held", "stopped"},
           Become(r, [Refreshed(r) EXCEPT !.pc = pc, !.proc = proc])
    PROVE  Fresh(r, pc, mgr[r].goal, proc)
  <1> DEFINE n == [Refreshed(r) EXCEPT !.pc = pc, !.proc = proc]
  <1>1. Refreshed(r) \in ManagedRuns
    BY RefreshedTyped
  <1>2. n.pc = pc /\ Like(r, n, status[r], mgr[r].ref, proc, mgr[r].goal)
    BY <1>1, LikeRefreshed DEF Like, ManagedRuns
  <1>3. Become(r, n)
    OBVIOUS
  <1> HIDE DEF n
  <1> QED
    BY <1>2, <1>3, LikeGoes DEF Fresh, Keep

LEMMA KeepPcProc ==
    ASSUME StoreTypeOK, OwnersSound, NEW r \in Runs, NEW pc \in MgrPcs \ {"done", "dead"},
           NEW proc \in {"unstarted", "attempted", "held", "stopped"},
           Become(r, [mgr[r] EXCEPT !.pc = pc, !.proc = proc])
    PROVE  Keep(r, pc, mgr[r].goal, proc)
  <1> DEFINE n == [mgr[r] EXCEPT !.pc = pc, !.proc = proc]
  <1>1. mgr[r] \in ManagedRuns
    BY RefreshedTyped
  <1>2. n.pc = pc /\ Like(r, n, mgr[r].st, mgr[r].ref, proc, mgr[r].goal)
    BY <1>1, LikeOwner DEF Like, ManagedRuns
  <1>3. Become(r, n)
    OBVIOUS
  <1> HIDE DEF n
  <1> QED
    BY <1>2, <1>3, LikeGoes DEF Fresh, Keep

LEMMA KeepPcGoal ==
    ASSUME StoreTypeOK, OwnersSound, NEW r \in Runs, NEW pc \in MgrPcs \ {"done", "dead"},
           NEW goal \in Goals,
           Become(r, [mgr[r] EXCEPT !.pc = pc, !.goal = goal])
    PROVE  Keep(r, pc, goal, mgr[r].proc)
  <1> DEFINE n == [mgr[r] EXCEPT !.pc = pc, !.goal = goal]
  <1>1. mgr[r] \in ManagedRuns
    BY RefreshedTyped
  <1>2. n.pc = pc /\ Like(r, n, mgr[r].st, mgr[r].ref, mgr[r].proc, goal)
    BY <1>1, LikeOwner DEF Like, ManagedRuns
  <1>3. Become(r, n)
    OBVIOUS
  <1> HIDE DEF n
  <1> QED
    BY <1>2, <1>3, LikeGoes DEF Fresh, Keep

LEMMA KeepPcRef ==
    ASSUME StoreTypeOK, OwnersSound, NEW r \in Runs, NEW pc \in MgrPcs \ {"done", "dead"},
           NEW ref \in SandboxRefs,
           Become(r, [mgr[r] EXCEPT !.pc = pc, !.ref = ref])
    PROVE  Goes(r, pc, mgr[r].st, mgr[r].goal, ref, mgr[r].proc)
  <1> DEFINE n == [mgr[r] EXCEPT !.pc = pc, !.ref = ref]
  <1>1. mgr[r] \in ManagedRuns
    BY RefreshedTyped
  <1>2. n.pc = pc /\ Like(r, n, mgr[r].st, ref, mgr[r].proc, mgr[r].goal)
    BY <1>1, LikeOwner DEF Like, ManagedRuns
  <1>3. Become(r, n)
    OBVIOUS
  <1> HIDE DEF n
  <1> QED
    BY <1>2, <1>3, LikeGoes DEF Fresh, Keep

\* Thrown and Refreshed records throw.
LEMMA ThrowAsIs ==
    ASSUME StoreTypeOK, OwnersSound, NEW r \in Runs, Throw(r)
    PROVE  ThrowsAsIs(r)
  BY LikeOwner, LikeThrows DEF Throw, ThrowsAsIs

LEMMA ThrowFresh ==
    ASSUME StoreTypeOK, OwnersSound, NEW r \in Runs, Become(r, Thrown(Refreshed(r)))
    PROVE  ThrowsFresh(r)
  BY LikeRefreshed, LikeThrows DEF ThrowsFresh

\* The awaits of the source's helpers: MoveLease, MoveRun and Go.
LEMMA LeaseMoves ==
    ASSUME StoreTypeOK, OwnersSound, NEW r \in Runs, NEW newStatus,
           NEW next \in MgrPcs \ {"done", "dead"},
           MoveLease(r, newStatus, next)
    PROVE  DidLease(r, newStatus, next)
  <1>1. CASE /\ Leases(r, newStatus)
             /\ Become(r, [mgr[r] EXCEPT !.pc = next, !.lref = lease'.ref,
                                         !.lver = lease'.version])
    <2> DEFINE n == [mgr[r] EXCEPT !.pc = next, !.lref = lease'.ref, !.lver = lease'.version]
    <2>1. mgr[r] \in ManagedRuns
      BY RefreshedTyped
    <2>2. n.pc = next
      BY <2>1 DEF ManagedRuns
    <2>3. mgr'[r] = n /\ OnlyOwner(r)
      BY <1>1, <2>2, BecomeFields
    <2>4. lease'.ref = mgr[r].ref
      BY <1>1 DEF Leases, UpdateLeaseForRun, WriteLease
    <2> QED
      BY <1>1, <2>1, <2>3, <2>4 DEF DidLease, MoveLease, ManagedRuns
  <1>2. CASE Throw(r)
    BY <1>2, ThrowAsIs DEF MoveLease, StatementFaults, DidLease, Leases
  <1> QED
    BY <1>1, <1>2 DEF MoveLease, StatementFaults, Leases

LEMMA RunMoves ==
    ASSUME StoreTypeOK, OwnersSound, NEW r \in Runs, NEW to \in Statuses,
           NEW next \in MgrPcs, next # "dead", MoveRun(r, to, next)
    PROVE  DidRun(r, to, next)
  <1>1. CASE /\ Transition(r, mgr[r].st, to)
             /\ Become(r, [mgr[r] EXCEPT !.pc = next, !.st = to])
    <2> DEFINE n == [mgr[r] EXCEPT !.pc = next, !.st = to]
    <2>1. Like(r, n, to, mgr[r].ref, mgr[r].proc, mgr[r].goal) /\ n.pc = next
      BY RefreshedTyped DEF Like, ManagedRuns
    <2>2. /\ next = "done" => Ends(r, next)
          /\ next # "done" => Goes(r, next, to, mgr[r].goal, mgr[r].ref, mgr[r].proc)
      BY <1>1, <2>1, LikeGoes
    <2> QED
      BY <1>1, <2>2 DEF DidRun, MoveRun
  <1>2. CASE Throw(r)
    BY <1>2, ThrowAsIs DEF MoveRun, StatementFaults, DidRun
  <1> QED
    BY <1>1, <1>2 DEF MoveRun, StatementFaults

LEMMA GoMoves ==
    ASSUME StoreTypeOK, OwnersSound, NEW r \in Runs, NEW pc \in MgrPcs, Go(r, pc)
    PROVE  /\ pc \notin {"done", "dead"} => Keep(r, pc, mgr[r].goal, mgr[r].proc)
           /\ pc \in {"done", "dead"} => Ends(r, pc)
  <1>1. /\ Like(r, [mgr[r] EXCEPT !.pc = pc], mgr[r].st, mgr[r].ref, mgr[r].proc, mgr[r].goal)
        /\ [mgr[r] EXCEPT !.pc = pc].pc = pc
    BY LikeOwner, LikePc
  <1> QED
    BY <1>1, LikeGoes DEF Go, Keep

LEMMA StartupMoves ==
    ASSUME StoreTypeOK, OwnersSound, NEW r \in Runs, Startup(r)
    PROVE  DidStartup(r)
  <1> USE DEF Pcs
  <1>0. MgrPcs = MgrPcs /\ Pcs /\ None \in SandboxRefs /\ r \in SandboxRefs
        /\ mgr[r].lref \in SandboxRefs /\ "cancelled" \in Goals
    BY PcsFact, RefreshedTyped DEF SandboxRefs, ManagedRuns, Goals
  <1>1. CASE MarkLeaseStarting(r)
    BY <1>0, <1>1, LeaseMoves DEF MarkLeaseStarting, DidStartup
  <1>2. CASE EnsureSandbox(r)
    <2>1. \A s \in SandboxRefs : Become(r, [mgr[r] EXCEPT !.pc = "markReady", !.ref = s])
            => Goes(r, "markReady", mgr[r].st, mgr[r].goal, s, mgr[r].proc)
      BY <1>0, KeepPcRef
    <2> QED
      BY <1>0, <1>2, <2>1, ThrowAsIs DEF EnsureSandbox, DidEnsureSandbox, DidStartup
  <1>3. CASE MarkLeaseReady(r)
    BY <1>0, <1>3, LeaseMoves DEF MarkLeaseReady, DidStartup
  <1>4. CASE RefreshAfterReady(r)
    <2>1. Become(r, [Refreshed(r) EXCEPT !.pc = "completeLease", !.goal = "cancelled"])
            => Fresh(r, "completeLease", "cancelled", mgr[r].proc)
      BY <1>0, FreshPcGoal
    <2>2. Become(r, [Refreshed(r) EXCEPT !.pc = "configure"])
            => Fresh(r, "configure", mgr[r].goal, mgr[r].proc)
      BY <1>0, FreshPc
    <2> QED
      BY <1>4, <2>1, <2>2, ThrowFresh DEF RefreshAfterReady, DidRefreshAfterReady, DidStartup
  <1>5. CASE ConfigureAgent(r)
    <2>1. Become(r, [Refreshed(r) EXCEPT !.pc = "spawn", !.proc = "attempted"])
            => Fresh(r, "spawn", mgr[r].goal, "attempted")
      BY <1>0, FreshPcProc
    <2> QED
      BY <1>5, <2>1, ThrowFresh, ThrowAsIs DEF ConfigureAgent, DidConfigureAgent, DidStartup
  <1>6. CASE SpawnAgent(r)
    <2>1. Become(r, [mgr[r] EXCEPT !.pc = "prompt", !.proc = "held"])
            => Keep(r, "prompt", mgr[r].goal, "held")
      BY <1>0, KeepPcProc
    <2> QED
      BY <1>6, <2>1, ThrowAsIs DEF SpawnAgent, DidSpawnAgent, DidStartup
  <1>7. CASE PromptAgent(r)
    <2>1. Go(r, "persist") => Keep(r, "persist", mgr[r].goal, mgr[r].proc)
      BY <1>0, GoMoves
    <2> QED
      BY <1>7, <2>1, ThrowAsIs DEF PromptAgent, DidPromptAgent, DidStartup
  <1>8. CASE PersistProcessRef(r)
    <2>1. Become(r, [Refreshed(r) EXCEPT !.pc = "terminate", !.goal = "cancelled"])
            => Fresh(r, "terminate", "cancelled", mgr[r].proc)
      BY <1>0, FreshPcGoal
    <2>2. Become(r, [Refreshed(r) EXCEPT !.pc = "markBusy"])
            => Fresh(r, "markBusy", mgr[r].goal, mgr[r].proc)
      BY <1>0, FreshPc
    <2> QED
      BY <1>8, <2>1, <2>2, ThrowAsIs
         DEF PersistProcessRef, StatementFaults, DidPersistProcessRef, DidStartup
  <1>9. CASE MarkLeaseBusy(r)
    BY <1>0, <1>9, LeaseMoves DEF MarkLeaseBusy, DidStartup
  <1>10. CASE MarkRunning(r)
    <2> DEFINE n == [mgr[r] EXCEPT !.pc = "consume", !.st = "running", !.ctx = "events",
                                   !.timer = "armed"]
    <2>1. mgr[r] \in ManagedRuns
      BY RefreshedTyped
    <2>2. n.pc = "consume"
      BY <2>1 DEF ManagedRuns
    <2>3. CASE Become(r, n) /\ Transition(r, "starting", "running")
      <3>1. mgr'[r] = n /\ OnlyOwner(r)
        BY <2>2, <2>3, BecomeFields
      <3> QED
        BY <1>10, <2>1, <2>3, <3>1 DEF ManagedRuns, MarkRunning, DidMarkRunning, DidStartup
    <2>4. CASE Throw(r)
      BY <1>10, <2>4, ThrowAsIs DEF MarkRunning, StatementFaults, DidMarkRunning, DidStartup
    <2> QED
      BY <1>10, <2>3, <2>4 DEF MarkRunning, StatementFaults
  <1> QED
    BY <1>1, <1>2, <1>3, <1>4, <1>5, <1>6, <1>7, <1>8, <1>9, <1>10 DEF Startup

-----------------------------------------------------------------------------
\* The steps of the event loop.
DidAgentEnds(r) ==
    /\ At(r, "consume")
    /\ \/ KillProcess(r, mgr[r].ref) /\ Keep(r, "exited", "succeeded", mgr[r].proc)
       \/ /\ agentIn[r] = None /\ UNCHANGED providerVars
          /\ Keep(r, "exited", "failed", mgr[r].proc)
       \/ (KillProcess(r, mgr[r].ref) \/ UNCHANGED providerVars) /\ ThrowsAsIs(r)
    /\ UNCHANGED <<runRows, lease>>

DidHandleCompletion(r) ==
    /\ At(r, "exited")
    /\ \/ Terminal(r) /\ Ends(r, "done")
       \/ status[r] = "cancelling" /\ Fresh(r, "completeLease", "cancelled", "stopped")
       \/ /\ ~Terminal(r) /\ status[r] # "cancelling"
          /\ \/ Fresh(r, "completeLease", mgr[r].goal, "stopped")
             \/ Fresh(r, "terminate", "fail", "stopped")
    /\ UNCHANGED storeVars

\* The step into fail() of the owner of a Run whose event loop threw.
DidCatchEventError(r) ==
    /\ At(r, "catch")
    /\ OnlyOwner(r)
    /\ mgr'[r].pc = "terminate" /\ mgr'[r].ctx = "fail" /\ mgr'[r].goal = "fail"
    /\ mgr'[r].st = mgr[r].st /\ mgr'[r].ref = mgr[r].ref /\ mgr'[r].proc = mgr[r].proc
    /\ mgr'[r].by = mgr[r].by /\ mgr'[r].lref = mgr[r].lref /\ mgr'[r].lver = mgr[r].lver
    /\ mgr'[r].timer = mgr[r].timer /\ mgr'[r].lost = mgr[r].lost
    /\ UNCHANGED storeVars

DidDeadlinePasses(r) ==
    /\ mgr[r].pc \in {"consume", "catch", "rejected"} /\ mgr[r].timer = "armed"
    /\ OnlyOwner(r)
    /\ mgr'[r].pc = "cancelRefresh" /\ mgr'[r].ctx = "cancel" /\ mgr'[r].goal = "timed_out"
    /\ mgr'[r].st = mgr[r].st /\ mgr'[r].ref = mgr[r].ref /\ mgr'[r].proc = mgr[r].proc
    /\ mgr'[r].by = mgr[r].by /\ mgr'[r].lref = mgr[r].lref /\ mgr'[r].lver = mgr[r].lver
    /\ mgr'[r].timer = "fired" /\ mgr'[r].lost = mgr[r].lost
    /\ UNCHANGED storeVars

DidRefreshBeforeCancel(r) ==
    /\ At(r, "cancelRefresh")
    /\ \/ Terminal(r) /\ Ends(r, "done")
       \/ /\ status[r] \in {"starting", "running"}
          /\ Fresh(r, "cancelMark", mgr[r].goal, mgr[r].proc)
       \/ /\ ~Terminal(r) /\ status[r] \notin {"starting", "running"}
          /\ Fresh(r, "terminate", mgr[r].goal, mgr[r].proc)
    /\ UNCHANGED storeVars

\* The last step of terminateExecution(), knowing st of the Run, ref and proc.
DidTerminated(r, st, ref, proc) ==
    \/ mgr[r].goal = "fail" /\ Goes(r, "failRefresh", st, mgr[r].goal, ref, proc)
    \/ mgr[r].goal # "fail" /\ Goes(r, "completeLease", st, mgr[r].goal, ref, proc)

\* The steps of terminateExecution.
DidTerminate(r) ==
    \/ /\ At(r, "terminate") /\ mgr[r].proc \in {"unstarted", "stopped"}
       /\ DidTerminated(r, mgr[r].st, mgr[r].ref, mgr[r].proc)
       /\ UNCHANGED storeVars
    \/ /\ At(r, "terminate") /\ mgr[r].proc = "held"
       /\ \/ KillProcess(r, mgr[r].ref) /\ DidTerminated(r, mgr[r].st, mgr[r].ref, "stopped")
          \/ UNCHANGED providerVars /\ Keep(r, "killFailed", mgr[r].goal, mgr[r].proc)
       /\ UNCHANGED <<runRows, lease>>
    \/ /\ At(r, "killFailed")
       /\ \/ Terminal(r) /\ DidTerminated(r, status[r], mgr[r].ref, "stopped")
          \/ ~Terminal(r) /\ ThrowsFresh(r)
       /\ UNCHANGED storeVars
    \/ /\ At(r, "terminate") /\ mgr[r].proc = "attempted"
       /\ \/ Terminal(r) /\ DidTerminated(r, status[r], mgr[r].ref, mgr[r].proc)
          \/ ~Terminal(r) /\ mgr[r].ref = None /\ ThrowsFresh(r)
          \/ /\ ~Terminal(r) /\ mgr[r].ref # None
             /\ Fresh(r, "stopSandbox", mgr[r].goal, mgr[r].proc)
       /\ UNCHANGED storeVars
    \/ /\ At(r, "stopSandbox")
       /\ \/ DestroySandbox(mgr[r].ref) /\ DidTerminated(r, mgr[r].st, None, "stopped")
          \/ UNCHANGED providerVars /\ ThrowsAsIs(r)
       /\ UNCHANGED <<runRows, lease>>

\* recordDuration, which reads the Run.
DidDuration(r, next) ==
    /\ \/ Active(r) /\ Fresh(r, next, mgr[r].goal, mgr[r].proc)
       \/ ~Active(r) /\ ThrowsAsIs(r)
    /\ UNCHANGED storeVars

\* The steps of fail and of complete.
DidFail(r) ==
    \/ /\ At(r, "failRefresh")
       /\ \/ Terminal(r) /\ Ends(r, "done")
          \/ status[r] = "cancelling" /\ Fresh(r, "completeLease", "cancelled", mgr[r].proc)
          \/ /\ ~Terminal(r) /\ status[r] # "cancelling"
             /\ Fresh(r, "failDuration", mgr[r].goal, mgr[r].proc)
       /\ UNCHANGED storeVars
    \/ At(r, "failDuration") /\ DidDuration(r, "failLease")
    \/ /\ At(r, "failLease")
       /\ DidLease(r, IF mgr[r].ref = None THEN "stopped" ELSE "failed", "failCommit")
    \/ At(r, "failCommit") /\ DidRun(r, "failed", "done")

DidComplete(r) ==
    \/ /\ At(r, "completeLease")
       /\ DidLease(r, IF mgr[r].ref = None THEN "stopped" ELSE "idle",
                    IF mgr[r].goal = "succeeded" THEN "succeed" ELSE "completeDuration")
    \/ At(r, "completeDuration") /\ DidDuration(r, "completeCommit")
    \/ At(r, "completeCommit") /\ DidRun(r, mgr[r].goal, "done")
    \/ /\ At(r, "succeed")
       /\ \/ CompleteSucceeded(r) /\ Ends(r, "done")
          \/ UNCHANGED runRows /\ Keep(r, "succeedLost", mgr[r].goal, mgr[r].proc)
          \/ (CompleteSucceeded(r) \/ UNCHANGED runRows) /\ ThrowsAsIs(r)
       /\ UNCHANGED <<lease, providerVars>>
    \/ /\ At(r, "succeedLost")
       /\ \/ Terminal(r) /\ Ends(r, "done")
          \/ status[r] = "cancelling" /\ Fresh(r, "completeLease", "cancelled", mgr[r].proc)
          \/ ~Terminal(r) /\ ThrowsFresh(r)
       /\ UNCHANGED storeVars

\* A read that fails.
DidRefreshFault(r) ==
    /\ \/ mgr[r].pc \in RefreshPcs \ {"exited"} /\ ThrowsAsIs(r)
       \/ At(r, "exited") /\ Throws(r, mgr[r].st, "stopped")
       \/ At(r, "terminate") /\ mgr[r].proc = "attempted" /\ ThrowsAsIs(r)
    /\ UNCHANGED <<runRows, lease, providerVars>>

DidEvents(r) ==
    \/ DidAgentEnds(r) \/ DidHandleCompletion(r) \/ DidCatchEventError(r)
    \/ DidDeadlinePasses(r) \/ DidRefreshBeforeCancel(r)
    \/ At(r, "cancelMark") /\ DidRun(r, "cancelling", "terminate")

\* Every step of an owner.
OwnerMoves(r) ==
    DidStartup(r) \/ DidEvents(r) \/ DidTerminate(r) \/ DidFail(r) \/ DidComplete(r)
      \/ DidRefreshFault(r)

\* The remaining steps of an owner move it as described.
LEMMA RefreshedEnds ==
    ASSUME StoreTypeOK, OwnersSound, NEW r \in Runs,
           Become(r, [Refreshed(r) EXCEPT !.pc = "done"])
    PROVE  Ends(r, "done")
  <1>1. "done" \in MgrPcs
    BY PcsFact DEF Pcs
  <1>2. /\ Like(r, [Refreshed(r) EXCEPT !.pc = "done"], status[r], mgr[r].ref, mgr[r].proc,
                mgr[r].goal)
        /\ [Refreshed(r) EXCEPT !.pc = "done"].pc = "done"
    BY <1>1, LikeRefreshed DEF Like, ManagedRuns
  <1> QED
    BY <1>2, LikeGoes

LEMMA LikePcGoes ==
    ASSUME OwnersSound, NEW r \in Runs, NEW m, NEW st, NEW ref, NEW proc, NEW goal,
           Like(r, m, st, ref, proc, goal), NEW pc \in MgrPcs, Become(r, [m EXCEPT !.pc = pc])
    PROVE  /\ pc \notin {"done", "dead"} => Goes(r, pc, st, goal, ref, proc)
           /\ pc \in {"done", "dead"} => Ends(r, pc)
  <1>1. Like(r, [m EXCEPT !.pc = pc], st, ref, proc, goal) /\ [m EXCEPT !.pc = pc].pc = pc
    BY LikePc
  <1> QED
    BY <1>1, LikeGoes

LEMMA LikePcGoalGoes ==
    ASSUME OwnersSound, NEW r \in Runs, NEW m, NEW st, NEW ref, NEW proc, NEW goal,
           Like(r, m, st, ref, proc, goal), NEW pc \in MgrPcs \ {"done", "dead"}, NEW g \in Goals,
           Become(r, [m EXCEPT !.pc = pc, !.goal = g])
    PROVE  Goes(r, pc, st, g, ref, proc)
  <1> DEFINE n == [m EXCEPT !.pc = pc, !.goal = g]
  <1>1. Like(r, n, st, ref, proc, g) /\ n.pc = pc
    BY DEF Like, ManagedRuns
  <1>2. Become(r, n)
    OBVIOUS
  <1> HIDE DEF n
  <1> QED
    BY <1>1, <1>2, LikeGoes

LEMMA CommitMoves ==
    ASSUME StoreTypeOK, OwnersSound, NEW r \in Runs, MoveRun(r, mgr[r].goal, "done")
    PROVE  DidRun(r, mgr[r].goal, "done")
  <1>1. CASE mgr[r].goal \in Statuses
    BY <1>1, RunMoves, PcsFact DEF Pcs
  <1>2. CASE mgr[r].goal \notin Statuses
    <2>1. ~CanTransition(r, mgr[r].st, mgr[r].goal)
      BY <1>2, TransitionFacts DEF CanTransition
    <2> QED
      BY <2>1, ThrowAsIs DEF MoveRun, StatementFaults, Transition, DidRun
  <1> QED
    BY <1>1, <1>2

LEMMA EventsMoves ==
    ASSUME StoreTypeOK, OwnersSound, NEW r \in Runs,
           \/ AgentSettles(r) \/ AgentFails(r) \/ HandleCompletion(r) \/ CatchEventError(r)
           \/ DeadlinePasses(r) \/ RefreshBeforeCancel(r) \/ MarkCancelling(r)
    PROVE  DidEvents(r)
  <1>0. /\ {"exited", "completeLease", "terminate", "cancelMark"} \subseteq MgrPcs
        /\ {"succeeded", "failed", "cancelled", "fail"} \subseteq Goals
        /\ mgr[r] \in ManagedRuns /\ Refreshed(r) \in ManagedRuns
        /\ "done" \in MgrPcs
    BY PcsFact, RefreshedTyped DEF Pcs, Goals
  <1>1. CASE AgentSettles(r) \/ AgentFails(r)
    <2>1. \A goal \in {"succeeded", "failed"} :
            Become(r, [mgr[r] EXCEPT !.pc = "exited", !.goal = goal])
              => Keep(r, "exited", goal, mgr[r].proc)
      BY <1>0, KeepPcGoal
    <2> QED
      BY <1>1, <2>1, ThrowAsIs DEF AgentSettles, AgentFails, DidAgentEnds, DidEvents
  <1>2. CASE HandleCompletion(r)
    <2> DEFINE m == [Refreshed(r) EXCEPT !.proc = "stopped"]
    <2>1. Like(r, m, status[r], mgr[r].ref, "stopped", mgr[r].goal)
      BY <1>0, LikeRefreshed DEF Like, ManagedRuns
    <2>2. m.goal = mgr[r].goal
      BY <2>1 DEF Like
    <2> HIDE DEF m
    <2>3. Become(r, [m EXCEPT !.pc = "done"]) => Ends(r, "done")
      BY <1>0, <2>1, LikePcGoes
    <2>4. Become(r, [m EXCEPT !.pc = "completeLease"])
            => Fresh(r, "completeLease", mgr[r].goal, "stopped")
      BY <1>0, <2>1, LikePcGoes DEF Fresh
    <2>5. Become(r, [m EXCEPT !.pc = "completeLease", !.goal = "cancelled"])
            => Fresh(r, "completeLease", "cancelled", "stopped")
      BY <1>0, <2>1, LikePcGoalGoes DEF Fresh
    <2>6. Become(r, [m EXCEPT !.pc = "terminate", !.goal = "fail"])
            => Fresh(r, "terminate", "fail", "stopped")
      BY <1>0, <2>1, LikePcGoalGoes DEF Fresh
    <2> QED
      BY <1>2, <2>2, <2>3, <2>4, <2>5, <2>6
         DEF HandleCompletion, DidHandleCompletion, DidEvents, m
  <1>3. CASE CatchEventError(r)
    <2> DEFINE n == [mgr[r] EXCEPT !.pc = "terminate", !.ctx = "fail", !.goal = "fail"]
    <2>1. n.pc = "terminate"
      BY <1>0 DEF ManagedRuns
    <2>2. mgr'[r] = n /\ OnlyOwner(r)
      BY <1>3, <2>1, BecomeFields DEF CatchEventError
    <2> QED
      BY <1>0, <1>3, <2>2 DEF ManagedRuns, CatchEventError, DidCatchEventError, DidEvents
  <1>4. CASE DeadlinePasses(r)
    <2> DEFINE n == [mgr[r] EXCEPT !.pc = "cancelRefresh", !.timer = "fired",
                                   !.back = mgr[r].pc, !.ctx = "cancel", !.goal = "timed_out"]
    <2>1. n.pc = "cancelRefresh"
      BY <1>0 DEF ManagedRuns
    <2>2. mgr'[r] = n /\ OnlyOwner(r)
      BY <1>4, <2>1, BecomeFields DEF DeadlinePasses
    <2> QED
      BY <1>0, <1>4, <2>2 DEF ManagedRuns, DeadlinePasses, DidDeadlinePasses, DidEvents
  <1>5. CASE RefreshBeforeCancel(r)
    <2>1. Become(r, [Refreshed(r) EXCEPT !.pc = "done"]) => Ends(r, "done")
      BY <1>0, RefreshedEnds
    <2>2. \A pc \in {"cancelMark", "terminate"} :
            Become(r, [Refreshed(r) EXCEPT !.pc = pc]) => Fresh(r, pc, mgr[r].goal, mgr[r].proc)
      BY <1>0, FreshPc
    <2> QED
      BY <1>5, <2>1, <2>2 DEF RefreshBeforeCancel, DidRefreshBeforeCancel, DidEvents
  <1>6. CASE MarkCancelling(r)
    BY <1>0, <1>6, RunMoves, StatusKinds DEF MarkCancelling, DidEvents, ActiveStatuses
  <1> QED
    BY <1>1, <1>2, <1>3, <1>4, <1>5, <1>6

LEMMA TerminateMoves ==
    ASSUME StoreTypeOK, OwnersSound, NEW r \in Runs, Terminate(r)
    PROVE  DidTerminate(r)
  <1>0. "killFailed" \in MgrPcs /\ "stopSandbox" \in MgrPcs
        /\ mgr[r] \in ManagedRuns /\ Refreshed(r) \in ManagedRuns
    BY PcsFact, RefreshedTyped DEF Pcs
  <1>1. CASE NothingToTerminate(r)
    BY <1>1, LikeOwner, LikeTerminated DEF NothingToTerminate, DidTerminated, DidTerminate
  <1>2. CASE KillHeldProcess(r)
    <2>1. Like(r, [mgr[r] EXCEPT !.proc = "stopped"], mgr[r].st, mgr[r].ref, "stopped", mgr[r].goal)
      BY <1>0, LikeOwner DEF Like, ManagedRuns
    <2>2. Become(r, Terminated([mgr[r] EXCEPT !.proc = "stopped"]))
            => DidTerminated(r, mgr[r].st, mgr[r].ref, "stopped")
      BY <2>1, LikeTerminated DEF DidTerminated
    <2> QED
      BY <1>0, <1>2, <2>2, GoMoves DEF KillHeldProcess, DidTerminate
  <1>3. CASE RefreshAfterKill(r)
    <2>1. Like(r, [Refreshed(r) EXCEPT !.proc = "stopped"], status[r], mgr[r].ref, "stopped",
               mgr[r].goal)
      BY <1>0, LikeRefreshed DEF Like, ManagedRuns
    <2>2. Become(r, Terminated([Refreshed(r) EXCEPT !.proc = "stopped"]))
            => DidTerminated(r, status[r], mgr[r].ref, "stopped")
      BY <2>1, LikeTerminated DEF DidTerminated
    <2> QED
      BY <1>3, <2>2, ThrowFresh DEF RefreshAfterKill, DidTerminate
  <1>4. CASE RefreshBeforeStop(r)
    <2>1. Become(r, Terminated(Refreshed(r)))
            => DidTerminated(r, status[r], mgr[r].ref, mgr[r].proc)
      BY LikeRefreshed, LikeTerminated DEF DidTerminated
    <2>2. Become(r, [Refreshed(r) EXCEPT !.pc = "stopSandbox"])
            => Fresh(r, "stopSandbox", mgr[r].goal, mgr[r].proc)
      BY <1>0, FreshPc
    <2> QED
      BY <1>4, <2>1, <2>2, ThrowFresh DEF RefreshBeforeStop, DidTerminate
  <1>5. CASE StopOwnSandbox(r)
    <2>1. Like(r, [mgr[r] EXCEPT !.ref = None, !.proc = "stopped"], mgr[r].st, None, "stopped",
               mgr[r].goal)
      BY <1>0, LikeOwner DEF Like, ManagedRuns, SandboxRefs
    <2>2. Become(r, Terminated([mgr[r] EXCEPT !.ref = None, !.proc = "stopped"]))
            => DidTerminated(r, mgr[r].st, None, "stopped")
      BY <2>1, LikeTerminated DEF DidTerminated
    <2> QED
      BY <1>5, <2>2, ThrowAsIs DEF StopOwnSandbox, DidTerminate
  <1> QED
    BY <1>1, <1>2, <1>3, <1>4, <1>5 DEF Terminate

LEMMA DurationMoves ==
    ASSUME StoreTypeOK, OwnersSound, NEW r \in Runs, NEW next \in MgrPcs \ {"done", "dead"},
           RecordDuration(r, next)
    PROVE  DidDuration(r, next)
  <1>1. Become(r, [Refreshed(r) EXCEPT !.pc = next]) => Fresh(r, next, mgr[r].goal, mgr[r].proc)
    BY FreshPc
  <1> QED
    BY <1>1, ThrowAsIs DEF RecordDuration, DidDuration, Throw

LEMMA FailMoves ==
    ASSUME StoreTypeOK, OwnersSound, NEW r \in Runs, Fail(r)
    PROVE  DidFail(r)
  <1>0. /\ {"completeLease", "failDuration", "failLease", "failCommit"} \subseteq MgrPcs
        /\ "done" \in MgrPcs /\ "cancelled" \in Goals
    BY PcsFact DEF Pcs, Goals
  <1>1. CASE RefreshBeforeFail(r)
    <2>1. Become(r, [Refreshed(r) EXCEPT !.pc = "done"]) => Ends(r, "done")
      BY <1>0, RefreshedEnds
    <2>2. Become(r, [Refreshed(r) EXCEPT !.pc = "completeLease", !.goal = "cancelled"])
            => Fresh(r, "completeLease", "cancelled", mgr[r].proc)
      BY <1>0, FreshPcGoal
    <2>3. Become(r, [Refreshed(r) EXCEPT !.pc = "failDuration"])
            => Fresh(r, "failDuration", mgr[r].goal, mgr[r].proc)
      BY <1>0, FreshPc
    <2> QED
      BY <1>1, <2>1, <2>2, <2>3 DEF RefreshBeforeFail, DidFail
  <1>2. CASE FailDuration(r)
    BY <1>0, <1>2, DurationMoves DEF FailDuration, DidFail
  <1>3. CASE FailLease(r)
    BY <1>0, <1>3, LeaseMoves DEF FailLease, DidFail
  <1>4. CASE FailCommit(r)
    BY <1>0, <1>4, RunMoves, StatusKinds DEF FailCommit, DidFail, TerminalStatuses
  <1> QED
    BY <1>1, <1>2, <1>3, <1>4 DEF Fail

LEMMA CompleteMoves ==
    ASSUME StoreTypeOK, OwnersSound, NEW r \in Runs, Complete(r)
    PROVE  DidComplete(r)
  <1>0. /\ {"completeLease", "succeed", "completeDuration", "completeCommit", "succeedLost"}
              \subseteq MgrPcs
        /\ "done" \in MgrPcs /\ "cancelled" \in Goals
    BY PcsFact DEF Pcs, Goals
  <1>1. CASE CompleteLease(r)
    BY <1>0, <1>1, LeaseMoves DEF CompleteLease, DidComplete
  <1>2. CASE CompleteDuration(r)
    BY <1>0, <1>2, DurationMoves DEF CompleteDuration, DidComplete
  <1>3. CASE CompleteCommit(r)
    <2>1. /\ mgr[r].goal \in Goals
          /\ Transition(r, mgr[r].st, mgr[r].goal) => mgr[r].goal \in Statuses
      BY RefreshedTyped, TransitionFacts, StatusKinds DEF ManagedRuns, Transition, CanTransition
    <2> QED
      BY <1>0, <1>3, CommitMoves DEF CompleteCommit, DidComplete
  <1>4. CASE Succeed(r)
    <2>1. Go(r, "done") => Ends(r, "done")
      BY <1>0, GoMoves
    <2>2. Go(r, "succeedLost") => Keep(r, "succeedLost", mgr[r].goal, mgr[r].proc)
      BY <1>0, GoMoves
    <2> QED
      BY <1>4, <2>1, <2>2, ThrowAsIs DEF Succeed, StatementFaults, DidComplete
  <1>5. CASE RefreshAfterLostSuccess(r)
    <2>1. Become(r, [Refreshed(r) EXCEPT !.pc = "done"]) => Ends(r, "done")
      BY <1>0, RefreshedEnds
    <2>2. Become(r, [Refreshed(r) EXCEPT !.pc = "completeLease", !.goal = "cancelled"])
            => Fresh(r, "completeLease", "cancelled", mgr[r].proc)
      BY <1>0, FreshPcGoal
    <2> QED
      BY <1>5, <2>1, <2>2, ThrowFresh DEF RefreshAfterLostSuccess, DidComplete
  <1> QED
    BY <1>1, <1>2, <1>3, <1>4, <1>5 DEF Complete

LEMMA RefreshFaultMoves ==
    ASSUME StoreTypeOK, OwnersSound, NEW r \in Runs, RefreshFaults(r)
    PROVE  DidRefreshFault(r)
  <1>1. CASE At(r, "exited")
    <2>1. Like(r, [mgr[r] EXCEPT !.proc = "stopped"], mgr[r].st, mgr[r].ref, "stopped", mgr[r].goal)
      BY RefreshedTyped DEF Like, ManagedRuns
    <2>2. Become(r, Thrown([mgr[r] EXCEPT !.proc = "stopped"]))
      BY <1>1 DEF RefreshFaults
    <2>3. Throws(r, mgr[r].st, "stopped")
      BY <2>1, <2>2, LikeThrows
    <2> QED
      BY <1>1, <2>3 DEF RefreshFaults, DidRefreshFault
  <1>2. CASE ~At(r, "exited")
    <2>1. [mgr[r] EXCEPT !.proc = mgr[r].proc] = mgr[r]
      BY RefreshedTyped DEF ManagedRuns
    <2>2. Throw(r)
      BY <1>2, <2>1 DEF RefreshFaults, Throw
    <2> QED
      BY <1>2, <2>2, ThrowAsIs DEF RefreshFaults, DidRefreshFault, At
  <1> QED
    BY <1>1, <1>2

LEMMA CoordinatorMoves ==
    ASSUME StoreTypeOK, OwnersSound, NEW r \in Runs, CoordinatorNext(r)
    PROVE  OwnerMoves(r)
  BY StartupMoves, EventsMoves, TerminateMoves, FailMoves, CompleteMoves, RefreshFaultMoves
     DEF CoordinatorNext, OwnerStep, OwnerMoves

\* The claim builds the owner.
LEMMA ClaimMoves ==
    ASSUME StoreTypeOK, OwnersSound, NEW r \in Runs, NEW k \in Attempts,
           NEW ref \in SandboxRefs, NEW ver \in Nat, Claim(r, k, ref, ver)
    PROVE  /\ OnlyOwner(r)
           /\ mgr'[r].pc = "markStarting" /\ mgr'[r].by = k /\ mgr'[r].st = "starting"
           /\ mgr'[r].lref = ref /\ mgr'[r].lver = ver /\ mgr'[r].ref = ref
           /\ mgr'[r].proc = "unstarted" /\ mgr'[r].goal = "fail" /\ mgr'[r].ctx = "start"
           /\ mgr'[r].timer = "unset" /\ ~mgr'[r].lost
  <1> DEFINE n == [NoManagedRun EXCEPT !.pc = "markStarting", !.by = k, !.st = "starting",
                                       !.lref = ref, !.lver = ver, !.ref = ref]
  <1>1. n.pc = "markStarting"
    BY DEF NoManagedRun
  <1>2. mgr'[r] = n /\ OnlyOwner(r)
    BY <1>1, BecomeFields DEF Claim
  <1> QED
    BY <1>2 DEF NoManagedRun
=============================================================================
