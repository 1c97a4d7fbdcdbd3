-------------------------- MODULE RunExecution_proofs --------------------------
(***************************************************************************)
(* Type correctness of RunExecution, and that it implements                *)
(* AgentRunLifecycle, for every number of Runs, attempts, cancel requests  *)
(* and sandbox stops, with and without overtaking attempts.                *)
(***************************************************************************)
EXTENDS RunExecution, RunCoordinator_proofs

-----------------------------------------------------------------------------
(* The callers: every step of create(), execute() and cancel() is a        *)
(* StoreStep and keeps the types of the callers' records.                  *)

CallersTyped == caller \in [Runs -> [Callers -> CallerRecords]]

ServiceTypeOK ==
    /\ dispatch   \in [Runs -> {"none", "start", "fail", "created", "lost"}]
    /\ dispatched \in [Runs -> BOOLEAN]
    /\ CallersTyped

\* What the steps of one caller leave alone or keep.
CallerStep == StoreStep /\ OwnersSound' /\ CallersTyped'

LEMMA NoCallerTyped == NoCaller \in CallerRecords
  BY StatusKinds DEF NoCaller, CallerRecords, CallerPcs, SandboxRefs, ActiveStatuses

LEMMA CallerBecomeTyped ==
    ASSUME CallersTyped, NEW r \in Runs, NEW k \in Callers, NEW c \in CallerRecords,
           CallerBecome(r, k, c)
    PROVE  CallersTyped'
  <1>1. Remembered(c) \in CallerRecords
    <2>1. [NoCaller EXCEPT !.pc = c.pc] \in CallerRecords
      BY NoCallerTyped DEF CallerRecords
    <2>2. [NoCaller EXCEPT !.pc = c.pc, !.st = c.st] \in CallerRecords
      BY NoCallerTyped DEF CallerRecords
    <2> QED
      BY <2>1, <2>2 DEF Remembered
  <1> QED
    BY <1>1 DEF CallersTyped, CallerBecome

\* What a caller remembers and reads has the right type.
LEMMA CallerTyped ==
    ASSUME StoreTypeOK, CallersTyped, NEW r \in Runs, NEW k \in Callers
    PROVE  /\ caller[r][k] \in CallerRecords
           /\ Reloaded(r, k) \in CallerRecords
           /\ caller[r][k].lref \in SandboxRefs /\ caller[r][k].lver \in Nat
           /\ caller[r][k].st \in Statuses
           /\ caller[r][k].target \in Statuses \ {"succeeded"}
           /\ lease.ref \in SandboxRefs /\ lease.version \in Nat
  <1>1. {"cancelled", "interrupted"} \subseteq Statuses \ {"succeeded"}
    BY DEF Statuses, TerminalStatuses
  <1>2. caller[r][k] \in CallerRecords
    BY DEF CallersTyped
  <1>3. status[r] \in Statuses /\ processRef[r] \in BOOLEAN
    BY DEF StoreTypeOK
  <1>4. Reloaded(r, k) \in CallerRecords
    BY <1>2, <1>3 DEF Reloaded, CallerRecords
  <1>5. lease.ref \in SandboxRefs /\ lease.version \in Nat
    BY DEF StoreTypeOK
  <1> QED
    BY <1>1, <1>2, <1>4, <1>5 DEF CallerRecords

\* A caller that goes on with what it knows.
LEMMA CallerPcTyped ==
    ASSUME NEW c \in CallerRecords, NEW pc \in CallerPcs
    PROVE  /\ [c EXCEPT !.pc = pc] \in CallerRecords
           /\ \A t \in {"cancelled", "interrupted"} :
                [c EXCEPT !.pc = pc, !.target = t] \in CallerRecords
           /\ \A t \in {"cancelled", "interrupted"} :
                [c EXCEPT !.target = t, !.pc = pc] \in CallerRecords
           /\ \A ref \in SandboxRefs, ver \in Nat :
                /\ [c EXCEPT !.pc = pc, !.lref = ref, !.lver = ver] \in CallerRecords
                /\ [c EXCEPT !.lref = ref, !.lver = ver, !.pc = pc] \in CallerRecords
  BY DEF CallerRecords

LEMMA CallerGoTyped ==
    ASSUME StoreTypeOK, CallersTyped, NEW r \in Runs, NEW k \in Callers, NEW pc \in CallerPcs,
           CallerGo(r, k, pc)
    PROVE  CallersTyped'
  BY CallerTyped, CallerPcTyped, CallerBecomeTyped DEF CallerGo

LEMMA OwnersUnchanged == OwnersSound /\ UNCHANGED mgr => OwnersSound'
  BY DEF OwnersSound

LEMMA MoveOrConfirmTyped ==
    ASSUME StoreTypeOK, OwnersSound, CallersTyped, NEW r \in Runs, NEW k \in Callers,
           NEW to \in Statuses \ {"succeeded"}, NEW next \in CallerPcs,
           MoveOrConfirm(r, k, to, next)
    PROVE  CallerStep
  <1>1. StoreStep
    BY CallerTyped DEF MoveOrConfirm, StoreStep, RowsStep, LeaseStep, ProviderStep, FaultStep
  <1>2. processRef'[r] \in BOOLEAN
    BY <1>1, RowsStepType DEF StoreStep
  <1>3. [caller[r][k] EXCEPT !.pc = next, !.st = to, !.ref = processRef'[r]] \in CallerRecords
    BY <1>2, CallerTyped DEF CallerRecords
  <1>4. "confirm" \in CallerPcs
    BY DEF CallerPcs
  <1>5. CallersTyped'
    BY <1>3, <1>4, CallerBecomeTyped, CallerGoTyped DEF MoveOrConfirm
  <1> QED
    BY <1>1, <1>5, OwnersUnchanged DEF MoveOrConfirm, CallerStep

\* The reads and Provider calls that convergence and cancellation share.
LEMMA ReleaseTyped ==
    ASSUME StoreTypeOK, OwnersSound, CallersTyped, NEW r \in Runs, NEW k \in Callers,
           Release(r, k)
    PROVE  CallerStep
  <1>0. /\ {"done", "threw", "confirm", "release", "kill", "recheck", "stop", "reload",
            "finish"} \subseteq CallerPcs
        /\ None \in SandboxRefs
    BY DEF CallerPcs, SandboxRefs
  <1>1. CASE ReadLease(r, k)
    <2>1. \E c \in CallerRecords : CallerBecome(r, k, c)
      BY <1>0, <1>1, CallerTyped, CallerPcTyped DEF ReadLease
    <2> QED
      BY <1>1, <2>1, CallerBecomeTyped, StoreUnchanged, OwnersUnchanged DEF ReadLease, CallerStep
  <1>2. CASE KillRunProcess(r, k)
    <2>1. StoreStep
      BY <1>2, CallerTyped
         DEF KillRunProcess, StoreStep, RowsStep, LeaseStep, ProviderStep, FaultStep
    <2>2. CallersTyped'
      BY <1>0, <1>2, CallerGoTyped DEF KillRunProcess
    <2> QED
      BY <1>2, <2>1, <2>2, OwnersUnchanged DEF KillRunProcess, CallerStep
  <1>3. CASE RecheckRun(r, k)
    <2>1. CallersTyped'
      BY <1>0, <1>3, CallerTyped, CallerPcTyped, CallerBecomeTyped, CallerGoTyped DEF RecheckRun
    <2> QED
      BY <1>3, <2>1, StoreUnchanged, OwnersUnchanged DEF RecheckRun, CallerStep
  <1>4. CASE StopRunSandbox(r, k)
    <2>1. StoreStep
      BY <1>4, CallerTyped
         DEF StopRunSandbox, StoreStep, RowsStep, LeaseStep, ProviderStep, FaultStep
    <2>2. CallersTyped'
      BY <1>0, <1>4, CallerGoTyped DEF StopRunSandbox
    <2> QED
      BY <1>4, <2>1, <2>2, OwnersUnchanged DEF StopRunSandbox, CallerStep
  <1>5. CASE ReleaseLease(r, k)
    <2> DEFINE kept == IF caller[r][k].ref THEN caller[r][k].lref ELSE None
    <2>1. kept \in SandboxRefs
      BY <1>0, CallerTyped
    <2>2. LeaseStep
      BY <1>5, <2>1 DEF ReleaseLease, UpdateLeaseForRun, LeaseStep, LeaseStatuses
    <2>3. StoreStep
      BY <1>5, <2>2 DEF ReleaseLease, StoreStep, RowsStep, ProviderStep, FaultStep
    <2>4. CallersTyped'
      BY <1>0, <1>5, CallerGoTyped DEF ReleaseLease
    <2> QED
      BY <1>5, <2>3, <2>4, OwnersUnchanged DEF ReleaseLease, CallerStep
  <1>6. CASE ReloadRun(r, k)
    <2>1. \E c \in CallerRecords : CallerBecome(r, k, c)
      BY <1>0, <1>6, CallerTyped, CallerPcTyped DEF ReloadRun
    <2> QED
      BY <1>6, <2>1, CallerBecomeTyped, StoreUnchanged, OwnersUnchanged DEF ReloadRun, CallerStep
  <1>7. CASE FinishRun(r, k)
    BY <1>0, <1>7, CallerTyped, MoveOrConfirmTyped DEF FinishRun
  <1>8. CASE Confirm(r, k)
    <2>1. \E c \in CallerRecords : CallerBecome(r, k, c)
      BY <1>0, <1>8, CallerTyped, CallerPcTyped DEF Confirm
    <2> QED
      BY <1>8, <2>1, CallerBecomeTyped, StoreUnchanged, OwnersUnchanged DEF Confirm, CallerStep
  <1> QED
    BY <1>1, <1>2, <1>3, <1>4, <1>5, <1>6, <1>7, <1>8 DEF Release

\* execute(), one attempt of the Workflow step.
LEMMA ExecuteTyped ==
    ASSUME StoreTypeOK, OwnersSound, CallersTyped, NEW r \in Runs, NEW k \in Attempts,
           Execute(r, k)
    PROVE  CallerStep
  <1>0. /\ k \in Callers
        /\ {"done", "load", "readLease", "claim", "converge", "wait", "giveUp"}
             \subseteq CallerPcs
        /\ "failed" \in Statuses \ {"succeeded"} /\ {"queued", "starting"} \subseteq Statuses
    BY DEF Callers, CallerPcs, Statuses, ActiveStatuses, TerminalStatuses
  <1>1. CASE Attempt(r, k)
    <2>1. \E c \in CallerRecords : CallerBecome(r, k, c)
      BY <1>0, <1>1, CallerTyped, CallerPcTyped DEF Attempt
    <2>2. StoreStep
      BY <1>1 DEF Attempt, MayOvertake, StoreStep, RowsStep, LeaseStep, ProviderStep, FaultStep
    <2> QED
      BY <1>0, <1>1, <2>1, <2>2, CallerBecomeTyped, OwnersUnchanged DEF Attempt, CallerStep
  <1>2. CASE LoadRun(r, k)
    <2>1. StoreStep
      BY <1>2 DEF LoadRun, StoreStep, RowsStep, LeaseStep, ProviderStep, FaultStep
    <2>2. CallersTyped'
      BY <1>0, <1>2, CallerTyped, CallerPcTyped, CallerBecomeTyped, CallerGoTyped DEF LoadRun
    <2> QED
      BY <1>2, <2>1, <2>2, OwnersUnchanged DEF LoadRun, CallerStep
  <1>3. CASE ClaimRun(r, k)
    <2>1. CallersTyped'
      BY <1>0, <1>3, CallerGoTyped DEF ClaimRun
    <2>2. CASE Claim(r, k, caller[r][k].lref, caller[r][k].lver)
      BY <1>0, <2>1, <2>2, CallerTyped, ClaimSound DEF CallerStep
    <2>3. CASE UNCHANGED <<storeVars, mgr>>
      BY <2>1, <2>3, StoreUnchanged, OwnersUnchanged DEF CallerStep
    <2>4. CASE /\ Transition(r, "queued", "starting") \/ UNCHANGED runRows
               /\ DatabaseFault
               /\ UNCHANGED <<lease, providerVars, mgr>>
      <3>1. StoreStep
        BY <1>0, <2>4
           DEF StoreStep, RowsStep, LeaseStep, ProviderStep, FaultStep, DatabaseFault, Mishap
      <3> QED
        BY <2>1, <2>4, <3>1, OwnersUnchanged DEF CallerStep
    <2> QED
      BY <1>3, <2>2, <2>3, <2>4 DEF ClaimRun
  <1>4. CASE AwaitCompletion(r, k)
    <2>1. CallersTyped'
      BY <1>0, <1>4, CallerGoTyped DEF AwaitCompletion
    <2> QED
      BY <1>4, <2>1, StoreUnchanged, OwnersUnchanged DEF AwaitCompletion, CallerStep
  <1>5. CASE Converge(r, k)
    <2>1. \E c \in CallerRecords : CallerBecome(r, k, c)
      BY <1>0, <1>5, CallerTyped, CallerPcTyped DEF Converge
    <2> QED
      BY <1>0, <1>5, <2>1, CallerBecomeTyped, StoreUnchanged, OwnersUnchanged
         DEF Converge, CallerStep
  <1>6. CASE GiveUp(r, k)
    BY <1>0, <1>6, MoveOrConfirmTyped DEF GiveUp
  <1>7. CASE Release(r, k)
    BY <1>0, <1>7, ReleaseTyped
  <1> QED
    BY <1>1, <1>2, <1>3, <1>4, <1>5, <1>6, <1>7 DEF Execute

\* A cancel request, and the loss of an isolate.
LEMMA CancelTyped ==
    ASSUME StoreTypeOK, OwnersSound, CallersTyped, NEW r \in Runs, NEW k \in Cancellers,
           RequestCancel(r, k) \/ Cancel(r, k) \/ LoseCanceller(r, k)
    PROVE  CallerStep
  <1>0. /\ k \in Callers
        /\ {"done", "cancel", "readLease", "dead"} \subseteq CallerPcs
        /\ {"cancelled", "cancelling"} \subseteq Statuses \ {"succeeded"}
    BY DEF Callers, CallerPcs, Statuses, ActiveStatuses, TerminalStatuses
  <1>1. CASE RequestCancel(r, k)
    <2>1. \E c \in CallerRecords : CallerBecome(r, k, c)
      BY <1>0, <1>1, CallerTyped, CallerPcTyped DEF RequestCancel
    <2> QED
      BY <1>0, <1>1, <2>1, CallerBecomeTyped, StoreUnchanged, OwnersUnchanged
         DEF RequestCancel, CallerStep
  <1>2. CASE CancelRun(r, k)
    BY <1>0, <1>2, MoveOrConfirmTyped DEF CancelRun
  <1>3. CASE Release(r, k)
    BY <1>0, <1>3, ReleaseTyped
  <1>4. CASE LoseCanceller(r, k)
    <2>1. StoreStep
      BY <1>4 DEF LoseCanceller, StoreStep, RowsStep, LeaseStep, ProviderStep, FaultStep
    <2>2. CallersTyped'
      BY <1>0, <1>4, CallerGoTyped DEF LoseCanceller
    <2> QED
      BY <1>4, <2>1, <2>2, OwnersUnchanged DEF LoseCanceller, CallerStep
  <1> QED
    BY <1>1, <1>2, <1>3, <1>4 DEF Cancel

LEMMA LoseAttemptTyped ==
    ASSUME StoreTypeOK, OwnersSound, CallersTyped, NEW r \in Runs, NEW k \in Attempts,
           LoseAttempt(r, k)
    PROVE  CallerStep
  <1>0. k \in Callers /\ "dead" \in CallerPcs
    BY DEF Callers, CallerPcs
  <1>1. StoreStep
    BY DEF LoseAttempt, StoreStep, RowsStep, LeaseStep, ProviderStep, FaultStep
  <1>2. caller[r][k].pc \in CallerPcs
    BY <1>0, CallerTyped DEF CallerRecords
  <1>3. CallersTyped'
    BY <1>0, <1>2, CallerGoTyped DEF LoseAttempt
  <1>4. OwnersSound'
    BY GoSound, OwnersUnchanged DEF LoseAttempt
  <1> QED
    BY <1>1, <1>3, <1>4 DEF CallerStep

\* A faulting statement only ends the caller.
LEMMA FaultTyped ==
    ASSUME StoreTypeOK, OwnersSound, CallersTyped, NEW r \in Runs, NEW k \in Callers,
           CallerFaults(r, k)
    PROVE  CallerStep
  <1>1. "threw" \in CallerPcs
    BY DEF CallerPcs
  <1>2. CallersTyped'
    BY <1>1, CallerGoTyped DEF CallerFaults
  <1>3. StoreStep
    BY DEF CallerFaults, DatabaseFault, Mishap, StoreStep, RowsStep, LeaseStep, ProviderStep,
           FaultStep
  <1> QED
    BY <1>2, <1>3, OwnersUnchanged DEF CallerFaults, CallerStep

\* create()
LEMMA CreateTyped ==
    ASSUME StoreTypeOK, OwnersSound, ServiceTypeOK, NEW r \in Runs,
           CreateRun(r) \/ Create(r) \/ LoseCreator(r)
    PROVE  StoreStep /\ OwnersSound' /\ ServiceTypeOK'
  <1>0. {"queued", "failed"} \subseteq Statuses
    BY DEF Statuses, ActiveStatuses, TerminalStatuses
  <1>1. CASE CreateRun(r)
    <2>1. StoreStep
      BY <1>1 DEF CreateRun, StoreStep, RowsStep, LeaseStep, ProviderStep, FaultStep
    <2> QED
      BY <1>1, <2>1, OwnersUnchanged DEF CreateRun, ServiceTypeOK, CallersTyped
  <1>2. CASE DispatchRun(r)
    <2>1. StoreStep
      BY <1>2 DEF DispatchRun, StoreStep, RowsStep, LeaseStep, ProviderStep, FaultStep
    <2>2. dispatched' \in [Runs -> BOOLEAN]
      BY <1>2 DEF DispatchRun, ServiceTypeOK
    <2>3. dispatch' \in [Runs -> {"none", "start", "fail", "created", "lost"}]
      BY <1>2 DEF DispatchRun, ServiceTypeOK
    <2>4. UNCHANGED <<caller, mgr>>
      BY <1>2 DEF DispatchRun
    <2> QED
      BY <2>1, <2>2, <2>3, <2>4, OwnersUnchanged DEF ServiceTypeOK, CallersTyped
  <1>3. CASE FailDispatch(r)
    <2>1. StoreStep
      BY <1>0, <1>3 DEF FailDispatch, StoreStep, RowsStep, LeaseStep, ProviderStep, FaultStep
    <2> QED
      BY <1>3, <2>1, OwnersUnchanged DEF FailDispatch, ServiceTypeOK, CallersTyped
  <1>4. CASE LoseCreator(r)
    <2>1. StoreStep
      BY <1>4 DEF LoseCreator, StoreStep, RowsStep, LeaseStep, ProviderStep, FaultStep
    <2> QED
      BY <1>4, <2>1, OwnersUnchanged DEF LoseCreator, ServiceTypeOK, CallersTyped
  <1> QED
    BY <1>1, <1>2, <1>3, <1>4 DEF Create

\* Whatever the requests and the Workflow do is a step of the store.
LEMMA ServiceStepTyped ==
    ASSUME StoreTypeOK, OwnersSound, ServiceTypeOK, NEW r \in Runs, ServiceNext(r)
    PROVE  StoreStep /\ OwnersSound' /\ ServiceTypeOK'
  <1>0. CallersTyped
    BY DEF ServiceTypeOK
  <1>1. CASE CreateRun(r) \/ Create(r) \/ LoseCreator(r)
    BY <1>1, CreateTyped
  <1>2. ASSUME NEW k \in Attempts, Execute(r, k) \/ LoseAttempt(r, k)
        PROVE  StoreStep /\ OwnersSound' /\ ServiceTypeOK'
    <2>1. CallerStep
      BY <1>0, <1>2, ExecuteTyped, LoseAttemptTyped
    <2>2. UNCHANGED <<dispatch, dispatched>>
      BY <1>2 DEF LoseAttempt, Execute, Attempt, LoadRun, ClaimRun, AwaitCompletion, Converge,
                  GiveUp, MoveOrConfirm, Release, ReadLease, KillRunProcess, RecheckRun,
                  StopRunSandbox, ReleaseLease, ReloadRun, FinishRun, Confirm
    <2> QED
      BY <2>1, <2>2 DEF CallerStep, ServiceTypeOK
  <1>3. ASSUME NEW k \in Cancellers,
               RequestCancel(r, k) \/ Cancel(r, k) \/ LoseCanceller(r, k)
        PROVE  StoreStep /\ OwnersSound' /\ ServiceTypeOK'
    <2>1. CallerStep
      BY <1>0, <1>3, CancelTyped
    <2>2. UNCHANGED <<dispatch, dispatched>>
      BY <1>3 DEF LoseCanceller, RequestCancel, Cancel, CancelRun,
                  MoveOrConfirm, Release, ReadLease, KillRunProcess, RecheckRun,
                  StopRunSandbox, ReleaseLease, ReloadRun, FinishRun, Confirm
    <2> QED
      BY <2>1, <2>2 DEF CallerStep, ServiceTypeOK
  <1>4. ASSUME NEW k \in Callers, CallerFaults(r, k)
        PROVE  StoreStep /\ OwnersSound' /\ ServiceTypeOK'
    BY <1>0, <1>4, FaultTyped DEF CallerFaults, CallerStep, ServiceTypeOK
  <1>5. CASE CoordinatorNext(r) /\ UNCHANGED serviceVars
    BY <1>5, CoordinatorStepSound DEF serviceVars, ServiceTypeOK, CallersTyped
  <1> QED
    BY <1>1, <1>2, <1>3, <1>4, <1>5 DEF ServiceNext

-----------------------------------------------------------------------------
(* What each step of a caller does, field by field.                        *)

\* The awaits at which a caller remembers nothing of the Lease.
Forgetting == {"wait", "converge", "confirm", "threw", "dead"}

\* Only k on behalf of r moves.
OnlyCaller(r, k) ==
    \A q \in Runs, j \in Callers : q # r \/ j # k => caller'[q][j] = caller[q][j]

\* The caller goes on to pc, holding a record of the Run, a record of the Lease and its goal.
CallerGoes(r, k, pc, st, ref, lref, lver, target) ==
    /\ OnlyCaller(r, k)
    /\ caller'[r][k].pc = pc
    /\ pc \in Forgetting \cup {"done"} =>
         /\ caller'[r][k].ref = FALSE /\ caller'[r][k].lref = None /\ caller'[r][k].lver = 0
         /\ caller'[r][k].target = "interrupted"
    /\ pc \notin Forgetting => caller'[r][k].st = st
    /\ pc \notin Forgetting \cup {"done"} =>
         /\ caller'[r][k].ref = ref /\ caller'[r][k].lref = lref /\ caller'[r][k].lver = lver
         /\ caller'[r][k].target = target

\* It goes on knowing what it knew, or having read the Run again.
CallerKeeps(r, k, pc) ==
    CallerGoes(r, k, pc, caller[r][k].st, caller[r][k].ref, caller[r][k].lref,
               caller[r][k].lver, caller[r][k].target)

CallerReloads(r, k, pc, target) ==
    CallerGoes(r, k, pc, status[r], processRef[r], caller[r][k].lref, caller[r][k].lver, target)

\* CallerBecome, CallerGo and CallerReload, as equations between fields.
LEMMA CallerFields ==
    ASSUME CallersTyped, NEW r \in Runs, NEW k \in Callers, NEW c \in CallerRecords,
           CallerBecome(r, k, c)
    PROVE  CallerGoes(r, k, c.pc, c.st, c.ref, c.lref, c.lver, c.target)
  <1>1. caller'[r][k] = Remembered(c) /\ OnlyCaller(r, k)
    BY DEF CallersTyped, CallerBecome, OnlyCaller
  <1>2. CASE c.pc \in Forgetting
    <2>1. Remembered(c) = [NoCaller EXCEPT !.pc = c.pc]
      BY <1>2 DEF Remembered, Forgetting
    <2>2. caller'[r][k].pc = c.pc
      BY <1>1, <2>1 DEF NoCaller
    <2> QED
      BY <1>1, <1>2, <2>1, <2>2 DEF CallerGoes, NoCaller
  <1>3. CASE c.pc = "done"
    <2>1. Remembered(c) = [NoCaller EXCEPT !.pc = c.pc, !.st = c.st]
      BY <1>3 DEF Remembered
    <2> QED
      BY <1>1, <1>3, <2>1 DEF CallerGoes, NoCaller, Forgetting
  <1>4. CASE c.pc \notin Forgetting \cup {"done"}
    <2>1. Remembered(c) = c
      BY <1>4 DEF Remembered, Forgetting
    <2> QED
      BY <1>1, <1>4, <2>1 DEF CallerGoes
  <1> QED
    BY <1>2, <1>3, <1>4

LEMMA CallerGoFields ==
    ASSUME StoreTypeOK, CallersTyped, NEW r \in Runs, NEW k \in Callers, NEW pc \in CallerPcs,
           CallerGo(r, k, pc)
    PROVE  CallerKeeps(r, k, pc)
  <1> DEFINE c == [caller[r][k] EXCEPT !.pc = pc]
  <1>1. caller[r][k] \in CallerRecords
    BY CallerTyped
  <1>2. /\ c \in CallerRecords /\ c.pc = pc /\ c.st = caller[r][k].st
        /\ c.ref = caller[r][k].ref /\ c.lref = caller[r][k].lref
        /\ c.lver = caller[r][k].lver /\ c.target = caller[r][k].target
    BY <1>1 DEF CallerRecords
  <1>3. CallerBecome(r, k, c)
    BY DEF CallerGo
  <1> HIDE DEF c
  <1> QED
    BY <1>2, <1>3, CallerFields DEF CallerKeeps

LEMMA CallerReloadFields ==
    ASSUME StoreTypeOK, CallersTyped, NEW r \in Runs, NEW k \in Callers, NEW pc \in CallerPcs
    PROVE  /\ CallerBecome(r, k, [Reloaded(r, k) EXCEPT !.pc = pc])
                => CallerReloads(r, k, pc, caller[r][k].target)
           /\ \A t \in {"cancelled", "interrupted"} :
                /\ CallerBecome(r, k, [Reloaded(r, k) EXCEPT !.pc = pc, !.target = t])
                     => CallerReloads(r, k, pc, t)
                /\ CallerBecome(r, k, [Reloaded(r, k) EXCEPT !.target = t, !.pc = pc])
                     => CallerReloads(r, k, pc, t)
  <1>0. Reloaded(r, k) \in CallerRecords /\ caller[r][k] \in CallerRecords
    BY CallerTyped
  <1>1. /\ Reloaded(r, k).st = status[r] /\ Reloaded(r, k).ref = processRef[r]
        /\ Reloaded(r, k).lref = caller[r][k].lref /\ Reloaded(r, k).lver = caller[r][k].lver
        /\ Reloaded(r, k).target = caller[r][k].target
    BY <1>0 DEF Reloaded, CallerRecords
  <1>3. ASSUME CallerBecome(r, k, [Reloaded(r, k) EXCEPT !.pc = pc])
        PROVE  CallerReloads(r, k, pc, caller[r][k].target)
    <2> DEFINE c == [Reloaded(r, k) EXCEPT !.pc = pc]
    <2>1. /\ c \in CallerRecords /\ c.pc = pc /\ c.st = status[r] /\ c.ref = processRef[r]
          /\ c.lref = caller[r][k].lref /\ c.lver = caller[r][k].lver
          /\ c.target = caller[r][k].target
      BY <1>0, <1>1 DEF CallerRecords
    <2>2. CallerBecome(r, k, c)
      BY <1>3
    <2> HIDE DEF c
    <2> QED
      BY <2>1, <2>2, CallerFields DEF CallerReloads
  <1>4. ASSUME NEW t \in {"cancelled", "interrupted"},
               CallerBecome(r, k, [Reloaded(r, k) EXCEPT !.pc = pc, !.target = t])
        PROVE  CallerReloads(r, k, pc, t)
    <2> DEFINE c == [Reloaded(r, k) EXCEPT !.pc = pc, !.target = t]
    <2>1. /\ c \in CallerRecords /\ c.pc = pc /\ c.st = status[r] /\ c.ref = processRef[r]
          /\ c.lref = caller[r][k].lref /\ c.lver = caller[r][k].lver /\ c.target = t
      BY <1>0, <1>1 DEF CallerRecords
    <2>2. CallerBecome(r, k, c)
      BY <1>4
    <2> HIDE DEF c
    <2> QED
      BY <2>1, <2>2, CallerFields DEF CallerReloads
  <1>5. ASSUME NEW t \in {"cancelled", "interrupted"},
               CallerBecome(r, k, [Reloaded(r, k) EXCEPT !.target = t, !.pc = pc])
        PROVE  CallerReloads(r, k, pc, t)
    <2> DEFINE c == [Reloaded(r, k) EXCEPT !.target = t, !.pc = pc]
    <2>1. /\ c \in CallerRecords /\ c.pc = pc /\ c.st = status[r] /\ c.ref = processRef[r]
          /\ c.lref = caller[r][k].lref /\ c.lver = caller[r][k].lver /\ c.target = t
      BY <1>0, <1>1 DEF CallerRecords
    <2>2. CallerBecome(r, k, c)
      BY <1>5
    <2> HIDE DEF c
    <2> QED
      BY <2>1, <2>2, CallerFields DEF CallerReloads
  <1> QED
    BY <1>3, <1>4, <1>5

\* It goes on with another record of the Lease.
CallerPasses(r, k, pc, lref, lver) ==
    CallerGoes(r, k, pc, caller[r][k].st, caller[r][k].ref, lref, lver, caller[r][k].target)

\* A read of the Run decides how to go on: Attempt and Converge.
DidReadRun(r, k, queued) ==
    /\ \/ Terminal(r) /\ CallerReloads(r, k, "done", caller[r][k].target)
       \/ status[r] = "queued" /\ CallerReloads(r, k, queued, caller[r][k].target)
       \/ /\ ~Terminal(r) /\ status[r] # "queued" /\ status[r] # "cancelling"
          /\ CallerReloads(r, k, "readLease", "interrupted")
       \/ status[r] = "cancelling" /\ CallerReloads(r, k, "readLease", "cancelled")
    /\ UNCHANGED <<runRows, lease, providerVars, mgr>>

\* moveOrConfirm: the guarded UPDATE, or a look at what won the race.
DidMoveOrConfirm(r, k, to, next) ==
    /\ \/ /\ Transition(r, caller[r][k].st, to)
          /\ CallerGoes(r, k, next, to, processRef'[r], caller[r][k].lref, caller[r][k].lver,
                        caller[r][k].target)
       \/ UNCHANGED runRows /\ CallerKeeps(r, k, "confirm")
    /\ UNCHANGED <<lease, providerVars, mgr>>

\* The claim of a queued Run builds its owner.
DidClaimRun(r, k) ==
    /\ CallerAt(r, k, "claim")
    /\ \/ /\ Claim(r, k, caller[r][k].lref, caller[r][k].lver)
          /\ CallerKeeps(r, k, "wait")
       \/ /\ Transition(r, "queued", "starting") \/ UNCHANGED runRows
          /\ CallerKeeps(r, k, "converge")
          /\ UNCHANGED <<lease, providerVars, mgr>>

\* The reads of an attempt, and its wait for the owner.
DidLoadOrAwait(r, k) ==
    /\ \/ /\ CallerAt(r, k, "load")
          /\ \/ CallerPasses(r, k, "claim", lease.ref, lease.version)
             \/ CallerKeeps(r, k, "converge")
       \/ /\ CallerAt(r, k, "wait")
          /\ \/ (mgr[r].lost \/ mgr[r].timer = "rejected") /\ CallerKeeps(r, k, "converge")
             \/ At(r, "done") /\ CallerKeeps(r, k, "done")
    /\ UNCHANGED <<runRows, lease, providerVars, mgr>>

\* The reads and Provider calls of releaseRunProcess, and the terminal status.
DidRelease(r, k) ==
    \/ /\ CallerAt(r, k, "readLease")
       /\ \/ lease.ref = None /\ CallerPasses(r, k, "release", lease.ref, lease.version)
          \/ /\ lease.ref # None /\ caller[r][k].ref
             /\ CallerPasses(r, k, "kill", lease.ref, lease.version)
          \/ /\ lease.ref # None /\ ~caller[r][k].ref
             /\ CallerPasses(r, k, "recheck", lease.ref, lease.version)
       /\ UNCHANGED <<runRows, lease, providerVars, mgr>>
    \/ /\ CallerAt(r, k, "kill")
       /\ \/ KillProcess(r, caller[r][k].lref) /\ CallerKeeps(r, k, "release")
          \/ UNCHANGED providerVars /\ CallerKeeps(r, k, "confirm")
       /\ UNCHANGED <<runRows, lease, mgr>>
    \/ /\ CallerAt(r, k, "recheck")
       /\ \/ Terminal(r) /\ CallerReloads(r, k, "done", caller[r][k].target)
          \/ ~Terminal(r) /\ CallerKeeps(r, k, "stop")
       /\ UNCHANGED <<runRows, lease, providerVars, mgr>>
    \/ /\ CallerAt(r, k, "stop")
       /\ \/ DestroySandbox(caller[r][k].lref) /\ CallerKeeps(r, k, "release")
          \/ UNCHANGED providerVars /\ CallerKeeps(r, k, "threw")
       /\ UNCHANGED <<runRows, lease, mgr>>
    \/ /\ CallerAt(r, k, "release")
       /\ LET kept == IF caller[r][k].ref THEN caller[r][k].lref ELSE None
          IN  \/ /\ UpdateLeaseForRun(r, caller[r][k].lref, caller[r][k].lver,
                                      IF kept = None THEN "stopped" ELSE "idle", kept)
                 /\ CallerKeeps(r, k, "reload")
              \/ UNCHANGED lease /\ CallerKeeps(r, k, "confirm")
       /\ UNCHANGED <<runRows, providerVars, mgr>>
    \/ /\ CallerAt(r, k, "reload")
       /\ \/ Terminal(r) /\ CallerReloads(r, k, "done", caller[r][k].target)
          \/ ~Terminal(r) /\ CallerReloads(r, k, "finish", caller[r][k].target)
       /\ UNCHANGED <<runRows, lease, providerVars, mgr>>
    \/ CallerAt(r, k, "finish") /\ DidMoveOrConfirm(r, k, caller[r][k].target, "done")
    \/ /\ CallerAt(r, k, "confirm")
       /\ \/ CallerReloads(r, k, "done", caller[r][k].target)
          \/ CallerReloads(r, k, "threw", caller[r][k].target)
       /\ UNCHANGED <<runRows, lease, providerVars, mgr>>

\* The steps of an attempt.
DidExecute(r, k) ==
    \/ (MayAttempt(r, k) \/ MayOvertake(r, k)) /\ DidReadRun(r, k, "load")
    \/ DidLoadOrAwait(r, k)
    \/ DidClaimRun(r, k)
    \/ CallerAt(r, k, "converge") /\ DidReadRun(r, k, "giveUp")
    \/ CallerAt(r, k, "giveUp") /\ DidMoveOrConfirm(r, k, "failed", "done")

\* The steps of a cancel request.
DidRequestCancel(r, k) ==
    /\ CallerAt(r, k, "idle") /\ status[r] # "absent"
    /\ \/ CallerReloads(r, k, "done", "cancelled")
       \/ CallerReloads(r, k, "cancel", "cancelled")
    /\ UNCHANGED <<runRows, lease, providerVars, mgr>>

DidCancelRun(r, k) ==
    /\ CallerAt(r, k, "cancel")
    /\ \/ caller[r][k].st = "queued" /\ DidMoveOrConfirm(r, k, "cancelled", "done")
       \/ caller[r][k].st = "running" /\ DidMoveOrConfirm(r, k, "cancelling", "readLease")
       \/ /\ caller[r][k].st \notin {"queued", "running"}
          /\ DidMoveOrConfirm(r, k, "cancelling", "done")

\* A statement fails, and the caller throws.
DidFault(r, k) ==
    /\ caller[r][k].pc \in StatementPcs \/ (k \in Attempts /\ MayAttempt(r, k))
    /\ CallerKeeps(r, k, "threw")
    /\ UNCHANGED <<runRows, lease, providerVars, mgr>>

\* The isolate of an attempt or of a request is lost.
DidLose(r, k) ==
    /\ ~CallerAt(r, k, "idle")
    /\ \/ caller[r][k].pc \in StoppedPcs /\ CallerKeeps(r, k, caller[r][k].pc)
       \/ caller[r][k].pc \notin StoppedPcs /\ CallerKeeps(r, k, "dead")
    /\ \/ mgr[r].by = k /\ mgr[r].pc \notin FinishedPcs /\ Ends(r, "dead")
       \/ (mgr[r].by = k => mgr[r].pc \in FinishedPcs) /\ UNCHANGED mgr
    /\ UNCHANGED <<runRows, lease, providerVars>>

\* createAgentRun and the creation of its Workflow.
DidCreate(r) ==
    /\ \/ dispatch[r] = "none" /\ InsertQueued(r)
       \/ dispatch[r] # "none" /\ UNCHANGED runRows
       \/ dispatch[r] # "none" /\ Transition(r, "queued", "failed")
    /\ dispatch'[r] # "none"
    /\ \A q \in Runs : q # r => dispatch'[q] = dispatch[q] /\ dispatched'[q] = dispatched[q]
    /\ dispatched'[r] => dispatched[r] \/ dispatch[r] # "none"
    /\ UNCHANGED <<lease, providerVars, caller, mgr>>

\* Every step of the service.
CallerMoves(r, k) ==
    /\ \/ k \in Attempts /\ DidExecute(r, k)
       \/ k \in Attempts /\ DidLose(r, k)
       \/ DidRelease(r, k)
       \/ k \in Cancellers /\ (DidRequestCancel(r, k) \/ DidCancelRun(r, k) \/ DidLose(r, k))
       \/ DidFault(r, k)
    /\ UNCHANGED <<dispatch, dispatched>>

\* Every step of the service made for r.
ServiceMoves(r) ==
    \/ DidCreate(r)
    \/ \E k \in Callers : CallerMoves(r, k)
    \/ OwnerMoves(r) /\ UNCHANGED serviceVars

-----------------------------------------------------------------------------
\* ServiceNext is made of these steps.
LEMMA ReadRunMoves ==
    ASSUME StoreTypeOK, CallersTyped, NEW r \in Runs, NEW k \in Callers, NEW queued \in CallerPcs,
           UNCHANGED <<runRows, lease, providerVars, mgr>>,
           CallerBecome(r, k,
             CASE Terminal(r)          -> [Reloaded(r, k) EXCEPT !.pc = "done"]
               [] status[r] = "queued" -> [Reloaded(r, k) EXCEPT !.pc = queued]
               [] OTHER -> [Reloaded(r, k) EXCEPT !.pc = "readLease",
                              !.target = IF status[r] = "cancelling"
                                         THEN "cancelled" ELSE "interrupted"])
    PROVE  DidReadRun(r, k, queued)
  <1>0. "done" \in CallerPcs /\ "readLease" \in CallerPcs
    BY DEF CallerPcs
  <1>1. CASE Terminal(r)
    BY <1>0, <1>1, CallerReloadFields DEF DidReadRun
  <1>2. CASE status[r] = "queued"
    <2>1. ~Terminal(r)
      BY <1>2 DEF Terminal, isTerminalAgentRun, TerminalStatuses
    <2> QED
      BY <1>0, <1>2, <2>1, CallerReloadFields DEF DidReadRun
  <1>3. CASE ~Terminal(r) /\ status[r] # "queued" /\ status[r] # "cancelling"
    <2>1. CallerBecome(r, k, [Reloaded(r, k) EXCEPT !.pc = "readLease", !.target = "interrupted"])
      BY <1>3
    <2> QED
      BY <1>0, <1>3, <2>1, CallerReloadFields DEF DidReadRun
  <1>4. CASE status[r] = "cancelling"
    <2>1. ~Terminal(r)
      BY <1>4 DEF Terminal, isTerminalAgentRun, TerminalStatuses
    <2>2. CallerBecome(r, k, [Reloaded(r, k) EXCEPT !.pc = "readLease", !.target = "cancelled"])
      BY <1>4, <2>1
    <2> QED
      BY <1>0, <1>4, <2>2, CallerReloadFields DEF DidReadRun
  <1> QED
    BY <1>1, <1>2, <1>3, <1>4

LEMMA CallerPassFields ==
    ASSUME StoreTypeOK, CallersTyped, NEW r \in Runs, NEW k \in Callers, NEW pc \in CallerPcs
    PROVE  /\ CallerBecome(r, k, [caller[r][k] EXCEPT !.pc = pc, !.lref = lease.ref,
                                                      !.lver = lease.version])
                => CallerPasses(r, k, pc, lease.ref, lease.version)
           /\ CallerBecome(r, k, [caller[r][k] EXCEPT !.lref = lease.ref,
                                                      !.lver = lease.version, !.pc = pc])
                => CallerPasses(r, k, pc, lease.ref, lease.version)
  <1> DEFINE c == [caller[r][k] EXCEPT !.pc = pc, !.lref = lease.ref, !.lver = lease.version]
  <1>0. caller[r][k] \in CallerRecords /\ lease.ref \in SandboxRefs /\ lease.version \in Nat
    BY CallerTyped
  <1>1. /\ c \in CallerRecords /\ c.pc = pc /\ c.st = caller[r][k].st
        /\ c.ref = caller[r][k].ref /\ c.lref = lease.ref /\ c.lver = lease.version
        /\ c.target = caller[r][k].target
    BY <1>0 DEF CallerRecords
  <1>2. c = [caller[r][k] EXCEPT !.lref = lease.ref, !.lver = lease.version, !.pc = pc]
    BY <1>0 DEF CallerRecords
  <1> HIDE DEF c
  <1>3. CallerBecome(r, k, c) => CallerPasses(r, k, pc, lease.ref, lease.version)
    BY <1>1, CallerFields DEF CallerPasses
  <1> QED
    BY <1>2, <1>3 DEF c

LEMMA MoveOrConfirmMoves ==
    ASSUME StoreTypeOK, CallersTyped, NEW r \in Runs, NEW k \in Callers,
           NEW to \in Statuses, NEW next \in CallerPcs, RowsStep,
           MoveOrConfirm(r, k, to, next)
    PROVE  DidMoveOrConfirm(r, k, to, next)
  <1>1. CASE /\ Transition(r, caller[r][k].st, to)
             /\ CallerBecome(r, k, [caller[r][k] EXCEPT !.pc = next, !.st = to,
                                                        !.ref = processRef'[r]])
    <2> DEFINE c == [caller[r][k] EXCEPT !.pc = next, !.st = to, !.ref = processRef'[r]]
    <2>1. caller[r][k] \in CallerRecords /\ processRef'[r] \in BOOLEAN
      BY CallerTyped, RowsStepType
    <2>2. /\ c \in CallerRecords /\ c.pc = next /\ c.st = to /\ c.ref = processRef'[r]
          /\ c.lref = caller[r][k].lref /\ c.lver = caller[r][k].lver
          /\ c.target = caller[r][k].target
      BY <2>1 DEF CallerRecords
    <2>3. CallerBecome(r, k, c)
      BY <1>1
    <2> HIDE DEF c
    <2>4. CallerGoes(r, k, next, to, processRef'[r], caller[r][k].lref, caller[r][k].lver,
                     caller[r][k].target)
      BY <2>2, <2>3, CallerFields
    <2> QED
      BY <1>1, <2>4 DEF MoveOrConfirm, DidMoveOrConfirm
  <1>2. CASE CallerGo(r, k, "confirm") /\ UNCHANGED runRows
    <2>1. "confirm" \in CallerPcs
      BY DEF CallerPcs
    <2> QED
      BY <1>2, <2>1, CallerGoFields DEF MoveOrConfirm, DidMoveOrConfirm
  <1> QED
    BY <1>1, <1>2 DEF MoveOrConfirm

LEMMA ReleaseMoves ==
    ASSUME StoreTypeOK, CallersTyped, NEW r \in Runs, NEW k \in Callers, RowsStep, Release(r, k)
    PROVE  DidRelease(r, k)
  <1>0. /\ {"done", "threw", "confirm", "release", "kill", "recheck", "stop", "reload",
            "finish"} \subseteq CallerPcs
    BY DEF CallerPcs
  <1> USE DEF storeVars, runRows, providerVars
  <1>1. CASE ReadLease(r, k)
    <2>1. \A pc \in {"release", "kill", "recheck"} :
            CallerBecome(r, k, [caller[r][k] EXCEPT !.lref = lease.ref,
                                                   !.lver = lease.version, !.pc = pc])
              => CallerPasses(r, k, pc, lease.ref, lease.version)
      BY <1>0, CallerPassFields
    <2> QED
      BY <1>1, <2>1 DEF ReadLease, DidRelease
  <1>2. CASE KillRunProcess(r, k)
    BY <1>0, <1>2, CallerGoFields DEF KillRunProcess, DidRelease
  <1>3. CASE RecheckRun(r, k)
    BY <1>0, <1>3, CallerGoFields, CallerReloadFields DEF RecheckRun, DidRelease
  <1>4. CASE StopRunSandbox(r, k)
    BY <1>0, <1>4, CallerGoFields DEF StopRunSandbox, DidRelease
  <1>5. CASE ReleaseLease(r, k)
    BY <1>0, <1>5, CallerGoFields DEF ReleaseLease, DidRelease
  <1>6. CASE ReloadRun(r, k)
    <2>1. \A pc \in {"done", "finish"} : CallerBecome(r, k, [Reloaded(r, k) EXCEPT !.pc = pc])
            => CallerReloads(r, k, pc, caller[r][k].target)
      BY <1>0, CallerReloadFields
    <2> QED
      BY <1>6, <2>1 DEF ReloadRun, DidRelease
  <1>7. CASE FinishRun(r, k)
    <2>1. caller[r][k].target \in Statuses
      BY CallerTyped
    <2> QED
      BY <1>0, <1>7, <2>1, MoveOrConfirmMoves DEF FinishRun, DidRelease
  <1>8. CASE Confirm(r, k)
    <2>1. \A pc \in {"done", "threw"} : CallerBecome(r, k, [Reloaded(r, k) EXCEPT !.pc = pc])
            => CallerReloads(r, k, pc, caller[r][k].target)
      BY <1>0, CallerReloadFields
    <2> QED
      BY <1>8, <2>1 DEF Confirm, DidRelease
  <1> QED
    BY <1>1, <1>2, <1>3, <1>4, <1>5, <1>6, <1>7, <1>8 DEF Release

LEMMA ExecuteMoves ==
    ASSUME StoreTypeOK, CallersTyped, NEW r \in Runs, NEW k \in Attempts, RowsStep, Execute(r, k)
    PROVE  CallerMoves(r, k)
  <1>0. /\ {"load", "claim", "wait", "converge", "giveUp", "done", "readLease"} \subseteq CallerPcs
        /\ k \in Callers /\ "failed" \in Statuses
    BY DEF CallerPcs, Callers, Statuses, TerminalStatuses
  <1> USE DEF storeVars, runRows, providerVars
  <1>1. CASE Attempt(r, k)
    BY <1>0, <1>1, ReadRunMoves DEF Attempt, DidExecute, CallerMoves
  <1>2. CASE LoadRun(r, k)
    BY <1>0, <1>2, CallerPassFields, CallerGoFields
       DEF LoadRun, DidLoadOrAwait, DidExecute, CallerMoves
  <1>3. CASE ClaimRun(r, k)
    BY <1>0, <1>3, CallerGoFields DEF ClaimRun, DidClaimRun, DidExecute, CallerMoves
  <1>4. CASE AwaitCompletion(r, k)
    BY <1>0, <1>4, CallerGoFields DEF AwaitCompletion, DidLoadOrAwait, DidExecute, CallerMoves
  <1>5. CASE Converge(r, k)
    BY <1>0, <1>5, ReadRunMoves DEF Converge, DidExecute, CallerMoves
  <1>6. CASE GiveUp(r, k)
    <2>1. DidMoveOrConfirm(r, k, "failed", "done")
      BY <1>0, <1>6, MoveOrConfirmMoves DEF GiveUp
    <2> QED
      BY <1>6, <2>1 DEF GiveUp, MoveOrConfirm, DidExecute, CallerMoves
  <1>7. CASE Release(r, k)
    <2>1. UNCHANGED <<dispatch, dispatched>>
      BY <1>7 DEF Release, ReadLease, KillRunProcess, RecheckRun, StopRunSandbox, ReleaseLease,
                  ReloadRun, FinishRun, Confirm, MoveOrConfirm
    <2> QED
      BY <1>0, <1>7, <2>1, ReleaseMoves DEF CallerMoves
  <1> QED
    BY <1>1, <1>2, <1>3, <1>4, <1>5, <1>6, <1>7 DEF Execute

LEMMA CancelMoves ==
    ASSUME StoreTypeOK, CallersTyped, NEW r \in Runs, NEW k \in Cancellers, RowsStep,
           RequestCancel(r, k) \/ Cancel(r, k)
    PROVE  CallerMoves(r, k)
  <1>0. /\ {"cancel", "done", "readLease"} \subseteq CallerPcs
        /\ k \in Callers /\ {"cancelled", "cancelling"} \subseteq Statuses
    BY DEF CallerPcs, Callers, Statuses, TerminalStatuses, ActiveStatuses
  <1> USE DEF storeVars, runRows, providerVars
  <1>1. CASE RequestCancel(r, k)
    <2>1. \A pc \in {"done", "cancel"} :
            CallerBecome(r, k, [Reloaded(r, k) EXCEPT !.target = "cancelled", !.pc = pc])
              => CallerReloads(r, k, pc, "cancelled")
      BY <1>0, CallerReloadFields
    <2> QED
      BY <1>1, <2>1 DEF RequestCancel, DidRequestCancel, CallerMoves
  <1>2. CASE CancelRun(r, k)
    <2>1. UNCHANGED <<dispatch, dispatched>> /\ CallerAt(r, k, "cancel")
      BY <1>2 DEF CancelRun, MoveOrConfirm
    <2>2. CASE caller[r][k].st = "queued"
      <3>1. MoveOrConfirm(r, k, "cancelled", "done")
        BY <1>2, <2>2 DEF CancelRun
      <3> QED
        BY <1>0, <2>1, <2>2, <3>1, MoveOrConfirmMoves DEF DidCancelRun, CallerMoves
    <2>3. CASE caller[r][k].st = "running"
      <3>1. MoveOrConfirm(r, k, "cancelling", "readLease")
        BY <1>2, <2>3 DEF CancelRun
      <3> QED
        BY <1>0, <2>1, <2>3, <3>1, MoveOrConfirmMoves DEF DidCancelRun, CallerMoves
    <2>4. CASE caller[r][k].st \notin {"queued", "running"}
      <3>1. MoveOrConfirm(r, k, "cancelling", "done")
        BY <1>2, <2>4 DEF CancelRun
      <3> QED
        BY <1>0, <2>1, <2>4, <3>1, MoveOrConfirmMoves DEF DidCancelRun, CallerMoves
    <2> QED
      BY <2>2, <2>3, <2>4
  <1>3. CASE Release(r, k)
    <2>1. UNCHANGED <<dispatch, dispatched>>
      BY <1>3 DEF Release, ReadLease, KillRunProcess, RecheckRun, StopRunSandbox, ReleaseLease,
                  ReloadRun, FinishRun, Confirm, MoveOrConfirm
    <2> QED
      BY <1>0, <1>3, <2>1, ReleaseMoves DEF CallerMoves
  <1> QED
    BY <1>1, <1>2, <1>3 DEF Cancel

LEMMA FaultMoves ==
    ASSUME StoreTypeOK, OwnersSound, CallersTyped, NEW r \in Runs, NEW k \in Callers
    PROVE  /\ CallerFaults(r, k) => CallerMoves(r, k)
           /\ k \in Attempts /\ LoseAttempt(r, k) => CallerMoves(r, k)
           /\ k \in Cancellers /\ LoseCanceller(r, k) => CallerMoves(r, k)
  <1>0. /\ "threw" \in CallerPcs /\ "dead" \in CallerPcs /\ caller[r][k].pc \in CallerPcs
        /\ "dead" \in MgrPcs /\ mgr[r].by \in Nat
    BY CallerTyped, PcsFact, RefreshedTyped
       DEF CallerPcs, CallerRecords, Pcs, ManagedRuns, Attempts
  <1>1. ASSUME CallerFaults(r, k) PROVE CallerMoves(r, k)
    <2>1. CallerKeeps(r, k, "threw")
      BY <1>0, <1>1, CallerGoFields DEF CallerFaults
    <2>2. DidFault(r, k)
      BY <1>1, <2>1 DEF CallerFaults, DidFault
    <2> QED
      BY <1>1, <2>2 DEF CallerFaults, CallerMoves
  <1>2. ASSUME k \in Attempts, LoseAttempt(r, k) PROVE CallerMoves(r, k)
    <2>1. Go(r, "dead") => Ends(r, "dead")
      BY <1>0, GoMoves
    <2> QED
      BY <1>0, <1>2, <2>1, CallerGoFields DEF LoseAttempt, DidLose, CallerMoves
  <1>3. ASSUME k \in Cancellers, LoseCanceller(r, k) PROVE CallerMoves(r, k)
    <2>1. mgr[r].by # k
      BY <1>0, <1>3, CancellersAssumption
    <2>2. ~CallerAt(r, k, "idle")
      BY <1>3 DEF LoseCanceller, StoppedPcs, CallerAt
    <2> QED
      BY <1>0, <1>3, <2>1, <2>2, CallerGoFields DEF LoseCanceller, DidLose, CallerMoves
  <1> QED
    BY <1>1, <1>2, <1>3

LEMMA CreateMoves ==
    ASSUME ServiceTypeOK, NEW r \in Runs, CreateRun(r) \/ Create(r) \/ LoseCreator(r)
    PROVE  DidCreate(r)
  <1> USE DEF ServiceTypeOK
  <1>1. CASE CreateRun(r)
    BY <1>1 DEF CreateRun, DidCreate
  <1>2. CASE DispatchRun(r)
    BY <1>2 DEF DispatchRun, DidCreate
  <1>3. CASE FailDispatch(r)
    BY <1>3 DEF FailDispatch, DidCreate
  <1>4. CASE LoseCreator(r)
    BY <1>4 DEF LoseCreator, DidCreate
  <1> QED
    BY <1>1, <1>2, <1>3, <1>4 DEF Create

LEMMA ServiceStepMoves ==
    ASSUME StoreTypeOK, OwnersSound, ServiceTypeOK, NEW r \in Runs, ServiceNext(r)
    PROVE  ServiceMoves(r)
  <1>0. StoreTypeOK /\ OwnersSound /\ ServiceTypeOK /\ CallersTyped
    BY DEF ServiceTypeOK
  <1>1. RowsStep
    BY <1>0, ServiceStepTyped DEF StoreStep
  <1>2. Attempts \subseteq Callers /\ Cancellers \subseteq Callers
    BY DEF Callers
  <1>3. CASE CreateRun(r) \/ Create(r) \/ LoseCreator(r)
    BY <1>0, <1>3, CreateMoves DEF ServiceMoves
  <1>4. ASSUME NEW k \in Attempts, Execute(r, k) \/ LoseAttempt(r, k) PROVE ServiceMoves(r)
    BY <1>0, <1>1, <1>2, <1>4, ExecuteMoves, FaultMoves DEF ServiceMoves
  <1>5. ASSUME NEW k \in Cancellers, RequestCancel(r, k) \/ Cancel(r, k) \/ LoseCanceller(r, k)
        PROVE  ServiceMoves(r)
    BY <1>0, <1>1, <1>2, <1>5, CancelMoves, FaultMoves DEF ServiceMoves
  <1>6. ASSUME NEW k \in Callers, CallerFaults(r, k) PROVE ServiceMoves(r)
    BY <1>0, <1>6, FaultMoves DEF ServiceMoves
  <1>7. CASE CoordinatorNext(r) /\ UNCHANGED serviceVars
    BY <1>0, <1>7, CoordinatorMoves DEF ServiceMoves
  <1> QED
    BY <1>3, <1>4, <1>5, <1>6, <1>7 DEF ServiceNext

-----------------------------------------------------------------------------
(* All of RunExecution                                                     *)

ReclaimTyped == reclaim \in [Reclaims -> ReclaimRecords]

\* The rows of agent_runs and messages agree: a Run has its reply iff it succeeded.
RowsAgree == \A r \in Runs : reply[r] <=> status[r] = "succeeded"

\* The inductive invariant.
IInv == StoreTypeOK /\ OwnersSound /\ ServiceTypeOK /\ ReclaimTyped /\ RowsAgree

LEMMA InitIInv == Init => IInv
  <1> SUFFICES ASSUME Init PROVE IInv
    OBVIOUS
  <1>1. StoreTypeOK
    BY StoreInitType DEF Init
  <1>2. OwnersSound
    BY NoManagedRunSound DEF Init, CoordinatorInit, OwnersSound
  <1>3. ServiceTypeOK
    BY NoCallerTyped DEF Init, ServiceInit, ServiceTypeOK, CallersTyped
  <1>4. ReclaimTyped
    BY DEF Init, ReclaimInit, ReclaimTyped, NoReclaim, ReclaimRecords, SandboxRefs
  <1>5. RowsAgree
    BY DEF Init, StoreInit, RowsAgree
  <1> QED
    BY <1>1, <1>2, <1>3, <1>4, <1>5 DEF IInv

\* The batch that makes a Run succeeded is the one that writes its reply.
LEMMA RowsStepAgrees ==
    ASSUME StoreTypeOK, RowsAgree, RowsStep
    PROVE  RowsAgree'
  <1> USE DEF StoreTypeOK, RowsAgree
  <1>1. CASE UNCHANGED runRows
    BY <1>1 DEF runRows
  <1>2. ASSUME NEW r \in Runs, InsertQueued(r) PROVE RowsAgree'
    BY <1>2 DEF InsertQueued
  <1>3. ASSUME NEW r \in Runs, CompleteSucceeded(r) PROVE RowsAgree'
    BY <1>3 DEF CompleteSucceeded
  <1>4. ASSUME NEW r \in Runs, SetProcessRef(r) PROVE RowsAgree'
    BY <1>4 DEF SetProcessRef
  <1>5. ASSUME NEW r \in Runs, NEW from, NEW to, to # "succeeded", Transition(r, from, to)
        PROVE  RowsAgree'
    <2>1. status[r] # "succeeded"
      BY <1>5, TransitionFacts DEF Transition, CanTransition, ActiveStatuses
    <2> QED
      BY <1>5, <2>1 DEF Transition
  <1> QED
    BY <1>1, <1>2, <1>3, <1>4, <1>5 DEF RowsStep

\* The reclaimer and the Provider take steps of the store as well.
LEMMA ReclaimerStepTyped ==
    ASSUME StoreTypeOK, ReclaimTyped, ReclaimerNext
    PROVE  StoreStep /\ ReclaimTyped'
  <1>0. lease.ref \in SandboxRefs /\ lease.version \in Nat /\ NoReclaim \in ReclaimRecords
    BY DEF StoreTypeOK, NoReclaim, ReclaimRecords, SandboxRefs
  <1>1. ASSUME NEW r \in Runs, ReadIdleLease(r) PROVE StoreStep /\ ReclaimTyped'
    BY <1>0, <1>1, StoreUnchanged DEF ReadIdleLease, ReclaimTyped, ReclaimRecords
  <1>2. ASSUME NEW u \in UserStops, ReadLeaseToStop(u) PROVE StoreStep /\ ReclaimTyped'
    BY <1>0, <1>2, StoreUnchanged DEF ReadLeaseToStop, ReclaimTyped, ReclaimRecords
  <1>3. ASSUME NEW c \in Reclaims, DetachSandbox(c) PROVE StoreStep /\ ReclaimTyped'
    <2>1. LeaseStep
      BY <1>3 DEF DetachSandbox, LeaseStep, LeaseStatuses, SandboxRefs
    <2>2. ReclaimTyped'
      BY <1>0, <1>3 DEF DetachSandbox, ReclaimTyped, ReclaimRecords
    <2> QED
      BY <1>3, <2>1, <2>2 DEF DetachSandbox, StoreStep, RowsStep, ProviderStep, FaultStep
  <1>4. ASSUME NEW c \in Reclaims, StopDetachedSandbox(c) PROVE StoreStep /\ ReclaimTyped'
    <2>1. reclaim[c].lref \in SandboxRefs
      BY DEF ReclaimTyped, ReclaimRecords
    <2>2. ReclaimTyped'
      BY <1>0, <1>4 DEF StopDetachedSandbox, ReclaimTyped
    <2> QED
      BY <1>4, <2>1, <2>2
         DEF StopDetachedSandbox, StoreStep, RowsStep, LeaseStep, ProviderStep, FaultStep
  <1> QED
    BY <1>1, <1>2, <1>3, <1>4 DEF ReclaimerNext, ReclaimStep

LEMMA ProviderStepTyped ==
    ASSUME StoreTypeOK, ProviderNext
    PROVE  StoreStep
  <1>1. \A r \in Runs : agentIn[r] \in SandboxRefs /\ r \in SandboxRefs
    BY DEF StoreTypeOK, SandboxRefs
  <1> QED
    BY <1>1 DEF ProviderNext, SandboxExpires, AgentExits, StoreStep, RowsStep, LeaseStep,
                ProviderStep, FaultStep

\* Every step is a step of the store.
LEMMA NextIsStoreStep ==
    IInv /\ Next => StoreStep /\ OwnersSound' /\ ServiceTypeOK' /\ ReclaimTyped'
  <1> SUFFICES ASSUME IInv, Next
               PROVE  StoreStep /\ OwnersSound' /\ ServiceTypeOK' /\ ReclaimTyped'
    OBVIOUS
  <1> USE DEF IInv
  <1>1. ASSUME NEW r \in Runs, ServiceNext(r), UNCHANGED reclaim
        PROVE  StoreStep /\ OwnersSound' /\ ServiceTypeOK' /\ ReclaimTyped'
    BY <1>1, ServiceStepTyped DEF ReclaimTyped
  <1>2. CASE ReclaimerNext /\ UNCHANGED <<mgr, serviceVars>>
    BY <1>2, ReclaimerStepTyped, OwnersUnchanged DEF serviceVars, ServiceTypeOK, CallersTyped
  <1>3. CASE ProviderNext /\ UNCHANGED <<mgr, serviceVars, reclaim>>
    BY <1>3, ProviderStepTyped, OwnersUnchanged
       DEF serviceVars, ServiceTypeOK, CallersTyped, ReclaimTyped
  <1> QED
    BY <1>1, <1>2, <1>3 DEF Next

LEMMA NextIInv == IInv /\ [Next]_vars => IInv'
  <1>1. ASSUME IInv, Next PROVE IInv'
    <2>1. StoreStep /\ OwnersSound' /\ ServiceTypeOK' /\ ReclaimTyped'
      BY <1>1, NextIsStoreStep
    <2>2. StoreTypeOK' /\ RowsAgree'
      BY <1>1, <2>1, StoreStepType, RowsStepAgrees DEF IInv, StoreStep
    <2> QED
      BY <2>1, <2>2 DEF IInv
  <1>2. ASSUME IInv, UNCHANGED vars PROVE IInv'
    BY <1>2 DEF IInv, vars, storeVars, serviceVars, StoreTypeOK, OwnersSound, ServiceTypeOK,
                CallersTyped, ReclaimTyped, RowsAgree
  <1> QED
    BY <1>1, <1>2

LEMMA Inductive == Spec => []IInv
  BY InitIInv, NextIInv, PTL DEF Spec

\* In every reachable state the rows, the owners, the callers and the cleanups have the
\* types that TypeOK gives them.
THEOREM TypeCorrect == Spec => []TypeOK
  <1>1. IInv => TypeOK
    BY DEF IInv, TypeOK, ServiceTypeOK, CallersTyped, ReclaimTyped, OwnersSound, SoundOwners
  <1> QED
    BY <1>1, Inductive, PTL

-----------------------------------------------------------------------------
(* The refinement.  status and reply are the variables of both; RowsAgree  *)
(* says that a transition to anything but "succeeded" has no reply to take *)
(* back, so that it is a Move of the abstract specification.               *)

LEMMA StepImplements ==
    ASSUME StoreTypeOK, RowsAgree, RowsStep
    PROVE  [Lifecycle!Next]_(Lifecycle!vars)
  <1>1. CASE UNCHANGED runRows
    BY <1>1 DEF runRows, Lifecycle!vars
  <1>2. ASSUME NEW r \in Runs, InsertQueued(r) PROVE Lifecycle!Next
    <2>1. Lifecycle!Create(r)
      BY <1>2 DEF InsertQueued, NoActiveRun, Active, Lifecycle!Create, Lifecycle!Active,
                  Lifecycle!ActiveStatuses, ActiveStatuses
    <2> QED
      BY <2>1 DEF Lifecycle!Next
  <1>3. ASSUME NEW r \in Runs, CompleteSucceeded(r) PROVE Lifecycle!Next
    <2>1. Lifecycle!canTransitionAgentRun("running", "succeeded")
      BY DEF Lifecycle!canTransitionAgentRun, Lifecycle!ActiveStatuses,
             Lifecycle!allowedTransitions
    <2>2. Lifecycle!Move(r, "succeeded")
      <3>1. reply' = [reply EXCEPT ![r] = ("succeeded" = "succeeded")]
        BY <1>3, Zenon DEF CompleteSucceeded
      <3> QED
        BY <1>3, <2>1, <3>1 DEF CompleteSucceeded, Lifecycle!Move
    <2> QED
      BY <2>2 DEF Lifecycle!Next, Lifecycle!Statuses, Lifecycle!TerminalStatuses
  <1>4. CASE \E r \in Runs : SetProcessRef(r)
    BY <1>4 DEF SetProcessRef, Lifecycle!vars
  <1>5. ASSUME NEW r \in Runs, NEW from \in Statuses, NEW to \in Statuses,
               to # "succeeded", Transition(r, from, to)
        PROVE  Lifecycle!Next
    <2>1. canTransitionAgentRun(status[r], to) /\ status[r] # "succeeded"
      BY <1>5, TransitionFacts DEF Transition, CanTransition, ActiveStatuses
    <2>2. Lifecycle!canTransitionAgentRun(status[r], to)
      BY <2>1 DEF canTransitionAgentRun, ActiveStatuses, allowedTransitions,
                  Lifecycle!canTransitionAgentRun, Lifecycle!ActiveStatuses,
                  Lifecycle!allowedTransitions
    <2>3. reply[r] = (to = "succeeded")
      <3>1. reply[r] \in BOOLEAN
        BY DEF StoreTypeOK
      <3> QED
        BY <1>5, <2>1, <3>1 DEF RowsAgree
    <2>4. reply' = [reply EXCEPT ![r] = (to = "succeeded")]
      BY <1>5, <2>3 DEF Transition, StoreTypeOK
    <2>5. Lifecycle!Move(r, to)
      BY <1>5, <2>2, <2>4 DEF Transition, Lifecycle!Move
    <2> QED
      BY <2>5 DEF Lifecycle!Next, Lifecycle!Statuses, Lifecycle!ActiveStatuses,
                  Lifecycle!TerminalStatuses, Statuses, ActiveStatuses, TerminalStatuses
  <1> QED
    BY <1>1, <1>2, <1>3, <1>4, <1>5 DEF RowsStep

LEMMA InitImplements == Init => Lifecycle!Init
  BY DEF Init, StoreInit, Lifecycle!Init

\* However the requests, attempts, owners and cleanups interleave, crash and are retried, a
\* reader of the database sees what AgentRunLifecycle describes.
THEOREM ImplementsLifecycleCorrect == Spec => ImplementsLifecycle
  <1>1. IInv /\ [Next]_vars => [Lifecycle!Next]_(Lifecycle!vars)
    <2>1. ASSUME IInv, Next PROVE [Lifecycle!Next]_(Lifecycle!vars)
      BY <2>1, NextIsStoreStep, StepImplements DEF IInv, StoreStep
    <2>2. ASSUME UNCHANGED vars PROVE [Lifecycle!Next]_(Lifecycle!vars)
      BY <2>2 DEF vars, storeVars, Lifecycle!vars
    <2> QED
      BY <2>1, <2>2
  <1> QED
    BY <1>1, InitImplements, Inductive, PTL DEF Spec, ImplementsLifecycle, Lifecycle!Spec

-----------------------------------------------------------------------------
(* One owner per Run.  An owner is built by the attempt that wins queued   *)
(* -> starting, and a Run never becomes queued again.                      *)

OwnedIsClaimed == \A r \in Runs : mgr[r].by # 0 => status[r] \notin {"absent", "queued"}

KeepsBuilders == \A q \in Runs : mgr'[q].by = mgr[q].by

\* A step of the service builds an owner only by winning the claim.
ClaimsOrKeeps ==
    \/ KeepsBuilders
    \/ \E r \in Runs, k \in Attempts, ref \in SandboxRefs, ver \in Nat : Claim(r, k, ref, ver)

LEMMA ServiceClaimsOrKeeps ==
    ASSUME IInv, NEW r \in Runs, ServiceNext(r)
    PROVE  ClaimsOrKeeps
  <1> USE DEF IInv, ServiceTypeOK
  <1>1. CASE UNCHANGED mgr
    BY <1>1 DEF ClaimsOrKeeps, KeepsBuilders
  <1>2. CASE CreateRun(r) \/ Create(r) \/ LoseCreator(r)
    BY <1>1, <1>2 DEF CreateRun, Create, DispatchRun, FailDispatch, LoseCreator
  <1>3. ASSUME NEW k \in Attempts, Execute(r, k) PROVE ClaimsOrKeeps
    <2>1. CASE ClaimRun(r, k)
      <3>1. k \in Callers
        BY DEF Callers
      <3> QED
        BY <1>1, <2>1, <3>1, CallerTyped DEF ClaimRun, ClaimsOrKeeps
    <2>2. CASE ~ClaimRun(r, k)
      <3>1. UNCHANGED mgr
        BY <1>3, <2>2 DEF Execute, Attempt, LoadRun, AwaitCompletion, Converge, GiveUp,
                          MoveOrConfirm, Release, ReadLease, KillRunProcess, RecheckRun,
                          StopRunSandbox, ReleaseLease, ReloadRun, FinishRun, Confirm
      <3> QED
        BY <1>1, <3>1
    <2> QED
      BY <2>1, <2>2
  <1>4. ASSUME NEW k \in Attempts, LoseAttempt(r, k) PROVE ClaimsOrKeeps
    <2>1. CASE Go(r, "dead")
      <3>1. [mgr[r] EXCEPT !.pc = "dead"].by = mgr[r].by
        BY RefreshedTyped DEF ManagedRuns
      <3> QED
        BY <2>1, <3>1, KeptBuilder DEF Go, KeepsBuilder, ClaimsOrKeeps, KeepsBuilders
    <2> QED
      BY <1>1, <1>4, <2>1 DEF LoseAttempt
  <1>5. ASSUME NEW k \in Cancellers, RequestCancel(r, k) \/ Cancel(r, k) \/ LoseCanceller(r, k)
        PROVE  ClaimsOrKeeps
    <2>1. UNCHANGED mgr
      BY <1>5 DEF RequestCancel, Cancel, LoseCanceller, CancelRun, MoveOrConfirm, Release,
                  ReadLease, KillRunProcess, RecheckRun, StopRunSandbox, ReleaseLease,
                  ReloadRun, FinishRun, Confirm
    <2> QED
      BY <1>1, <2>1
  <1>6. ASSUME NEW k \in Callers, CallerFaults(r, k) PROVE ClaimsOrKeeps
    BY <1>1, <1>6 DEF CallerFaults
  <1>7. CASE CoordinatorNext(r)
    BY <1>7, OwnerKeepsBuilder DEF ClaimsOrKeeps, KeepsBuilders
  <1> QED
    BY <1>2, <1>3, <1>4, <1>5, <1>6, <1>7 DEF ServiceNext

LEMMA NextClaimsOrKeeps == IInv /\ Next => ClaimsOrKeeps
  BY ServiceClaimsOrKeeps DEF Next, ClaimsOrKeeps, KeepsBuilders

\* A Run that was started is never queued again.
LEMMA StartedStaysStarted ==
    ASSUME StoreTypeOK, RowsStep, NEW q \in Runs, status[q] \notin {"absent", "queued"}
    PROVE  status'[q] \notin {"absent", "queued"}
  <1>1. ASSUME NEW r \in Runs, NEW from, NEW to, Transition(r, from, to)
        PROVE  status'[q] \notin {"absent", "queued"}
    BY <1>1, TransitionFacts DEF Transition, CanTransition, StoreTypeOK
  <1> QED
    BY <1>1 DEF RowsStep, runRows, InsertQueued, CompleteSucceeded, SetProcessRef, StoreTypeOK

\* An owner keeps its builder, and who gets one has been claimed.
LEMMA ClaimStep ==
    ASSUME IInv, OwnedIsClaimed, Next
    PROVE  /\ OwnedIsClaimed'
           /\ \A r \in Runs : mgr[r].by # 0 => mgr'[r].by = mgr[r].by
  <1>0. StoreStep
    BY NextIsStoreStep
  <1>1. CASE KeepsBuilders
    BY <1>0, <1>1, StartedStaysStarted DEF IInv, StoreStep, OwnedIsClaimed, KeepsBuilders
  <1>2. ASSUME NEW r \in Runs, NEW k \in Attempts, NEW ref \in SandboxRefs, NEW ver \in Nat,
               Claim(r, k, ref, ver)
        PROVE  /\ OwnedIsClaimed'
               /\ \A q \in Runs : mgr[q].by # 0 => mgr'[q].by = mgr[q].by
    <2>1. status[r] = "queued" /\ status'[r] = "starting"
      BY <1>2 DEF Claim, Transition, CanTransition, IInv, StoreTypeOK
    <2>2. mgr[r].by = 0
      BY <2>1 DEF OwnedIsClaimed
    <2>3. \A q \in Runs \ {r} : mgr'[q] = mgr[q]
      BY <1>2 DEF Claim, Become, IInv, OwnersSound
    <2> QED
      BY <1>0, <2>1, <2>2, <2>3, StartedStaysStarted DEF IInv, StoreStep, OwnedIsClaimed
  <1> QED
    BY <1>1, <1>2, NextClaimsOrKeeps DEF ClaimsOrKeeps

\* Neither a retried attempt, nor one that overtakes another, builds a second owner for a
\* Run: only one of them ever starts its agent.
THEOREM ClaimedOnceCorrect == Spec => ClaimedOnce
  <1>1. Init => OwnedIsClaimed
    BY DEF Init, CoordinatorInit, OwnedIsClaimed, NoManagedRun
  <1>2. IInv /\ OwnedIsClaimed /\ [Next]_vars => OwnedIsClaimed'
    BY ClaimStep DEF vars, storeVars, OwnedIsClaimed
  <1>3. IInv /\ OwnedIsClaimed /\ [Next]_vars
          => [\A r \in Runs : mgr[r].by # 0 => mgr'[r].by = mgr[r].by]_vars
    BY ClaimStep
  <1> QED
    BY <1>1, <1>2, <1>3, Inductive, PTL DEF Spec, ClaimedOnce
\* What the lifecycle says of the Runs in one state.
LifecyclePromises == Lifecycle!TypeOK /\ Lifecycle!OneActiveRun /\ Lifecycle!ReplyIffSucceeded

\* canTransitionAgentRun lets nothing out of a terminal status and only known statuses in.
LEMMA MoveFacts ==
    ASSUME NEW from, NEW to, Lifecycle!canTransitionAgentRun(from, to)
    PROVE  /\ from \in Lifecycle!ActiveStatuses /\ ~Lifecycle!isTerminalAgentRun(from)
           /\ to \in Lifecycle!Statuses \ {"absent", "queued"}
           /\ to = "succeeded" => from = "running"
  BY DEF Lifecycle!canTransitionAgentRun, Lifecycle!ActiveStatuses, Lifecycle!allowedTransitions,
         Lifecycle!Statuses, Lifecycle!TerminalStatuses, Lifecycle!isTerminalAgentRun

\* A step of the lifecycle keeps its promises, and changes no terminal Run.
LEMMA LifecycleStepKeeps ==
    ASSUME LifecyclePromises, [Lifecycle!Next]_(Lifecycle!vars)
    PROVE  /\ LifecyclePromises'
           /\ \A q \in Runs : Lifecycle!isTerminalAgentRun(status[q]) =>
                  status'[q] = status[q] /\ reply'[q] = reply[q]
  <1> DEFINE Final == \A q \in Runs : Lifecycle!isTerminalAgentRun(status[q]) =>
                        status'[q] = status[q] /\ reply'[q] = reply[q]
  <1> USE DEF LifecyclePromises, Lifecycle!TypeOK
  <1>1. ASSUME NEW r \in Runs, Lifecycle!Create(r) PROVE LifecyclePromises' /\ Final
    <2>1. Lifecycle!TypeOK'
      BY <1>1 DEF Lifecycle!Create, Lifecycle!Statuses, Lifecycle!ActiveStatuses
    <2>2. Lifecycle!OneActiveRun'
      BY <1>1 DEF Lifecycle!Create, Lifecycle!OneActiveRun, Lifecycle!Active
    <2>3. Lifecycle!ReplyIffSucceeded'
      BY <1>1 DEF Lifecycle!Create, Lifecycle!ReplyIffSucceeded
    <2>4. Final
      BY <1>1 DEF Lifecycle!Create, Lifecycle!isTerminalAgentRun, Lifecycle!TerminalStatuses
    <2> QED
      BY <2>1, <2>2, <2>3, <2>4
  <1>2. ASSUME NEW r \in Runs, NEW to \in Lifecycle!Statuses, Lifecycle!Move(r, to)
        PROVE  LifecyclePromises' /\ Final
    <2>1. status[r] \in Lifecycle!ActiveStatuses /\ ~Lifecycle!isTerminalAgentRun(status[r])
      BY <1>2, MoveFacts DEF Lifecycle!Move
    <2>2. Lifecycle!TypeOK'
      BY <1>2 DEF Lifecycle!Move
    <2>3. Lifecycle!OneActiveRun'
      BY <1>2, <2>1 DEF Lifecycle!Move, Lifecycle!OneActiveRun, Lifecycle!Active
    <2>4. Lifecycle!ReplyIffSucceeded'
      BY <1>2 DEF Lifecycle!Move, Lifecycle!ReplyIffSucceeded
    <2>5. Final
      BY <1>2, <2>1 DEF Lifecycle!Move
    <2> QED
      BY <2>2, <2>3, <2>4, <2>5
  <1>3. CASE UNCHANGED Lifecycle!vars
    BY <1>3 DEF Lifecycle!vars, Lifecycle!OneActiveRun, Lifecycle!Active,
                Lifecycle!ReplyIffSucceeded
  <1> QED
    BY <1>1, <1>2, <1>3 DEF Lifecycle!Next

\* Whatever the requests, attempts, recoveries and cleanups do, and wherever they stop: of the
\* Runs in the database at most one is active (insertQueued, migration 0001), a Run has its
\* assistant Message exactly if it succeeded (completeSucceeded), and neither the status nor the
\* reply of a Run that has ended is ever written again (migration 0006).
THEOREM RunRowsCorrect ==
    Spec => /\ [](Lifecycle!OneActiveRun /\ Lifecycle!ReplyIffSucceeded)
            /\ Lifecycle!TerminalIsFinal
  <1>1. Lifecycle!Init => LifecyclePromises
    BY DEF Lifecycle!Init, LifecyclePromises, Lifecycle!TypeOK, Lifecycle!OneActiveRun,
           Lifecycle!ReplyIffSucceeded, Lifecycle!Active, Lifecycle!ActiveStatuses,
           Lifecycle!Statuses
  <1>2. LifecyclePromises /\ [Lifecycle!Next]_(Lifecycle!vars) => LifecyclePromises'
    BY LifecycleStepKeeps
  <1>3. LifecyclePromises /\ [Lifecycle!Next]_(Lifecycle!vars)
            => [\A r \in Runs : Lifecycle!isTerminalAgentRun(status[r]) =>
                    status'[r] = status[r] /\ reply'[r] = reply[r]]_(Lifecycle!vars)
    BY LifecycleStepKeeps
  <1>4. LifecyclePromises => Lifecycle!OneActiveRun /\ Lifecycle!ReplyIffSucceeded
    BY DEF LifecyclePromises
  <1>5. Lifecycle!Spec => []LifecyclePromises
    BY <1>1, <1>2, PTL DEF Lifecycle!Spec
  <1>6. Lifecycle!Spec => Lifecycle!TerminalIsFinal
    BY <1>3, <1>5, PTL DEF Lifecycle!Spec, Lifecycle!TerminalIsFinal
  <1> QED
    BY <1>4, <1>5, <1>6, ImplementsLifecycleCorrect, PTL DEF ImplementsLifecycle
=============================================================================
