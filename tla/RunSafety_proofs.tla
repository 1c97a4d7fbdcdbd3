--------------------------- MODULE RunSafety_proofs ---------------------------
(***************************************************************************)
(* The safety of RunExecution, for every number of Runs, attempts, cancel  *)
(* requests and sandbox stops: no transition is asked for that             *)
(* allowedTransitions rejects, no agent outlives its Run or leaves the     *)
(* sandbox the Lease names, the Lease is in use only by an active Run, and *)
(* nobody but a Run's own owner and callers stops its sandbox, which they  *)
(* do only while no process reference of the Run exists, and without a     *)
(* mishap no sandbox is left that nobody will find.                        *)
(*                                                                         *)
(* Each part has an inductive invariant of its own that builds on those    *)
(* before it: Legal (what actors know of a status), Ground (references,    *)
(* versions and the order of attempts), Safe (sandbox and agent),          *)
(* RefsAgree (the process reference), Spares and DetachedUnknown (whose    *)
(* sandbox a step stops), Kept (who will stop it).  Every step is first    *)
(* described field by field (OwnerMoves, CallerMoves), so that hardly a    *)
(* proof here expands a record of the model.                               *)
(***************************************************************************)
EXTENDS RunExecution_proofs

\* A Run that somebody works on or is ending.
Started == {"starting", "running", "cancelling"}

\* A Run that no owner has begun.
StillBorn == {"absent", "queued"}

\* The awaits of releaseRunProcess up to the terminal status.
RelPcs == {"readLease", "kill", "recheck", "stop", "release", "reload", "finish"}

\* The awaits of an owner before it starts the agent.
PreSpawnPcs == {"markStarting", "ensure", "markReady", "afterReady", "configure", "spawn"}

\* The statuses that an owner gives the Lease.
InUse == lease.status \in {"starting", "ready", "busy"}

-----------------------------------------------------------------------------
(* The invariants.                                                         *)

\* At most one Run of the Project is active.
OneActive == \A q, r \in Runs : Active(q) /\ Active(r) => q = r

\* What an owner knows of its Run's status: the Run was claimed, the one it will ask to
\* cancel was asked to, and what it read before a guarded UPDATE allows that UPDATE.
LegalOwner(m, s) ==
    /\ m.pc # "none" => s \notin {"absent", "queued"}
    /\ m.goal = "cancelled" => s \in {"cancelling"} \cup TerminalStatuses
    /\ m.pc \in {"exited", "completeLease", "completeDuration", "completeCommit"}
         => m.goal # "fail"
    /\ m.pc \in {"failLease", "failCommit", "completeCommit"} => m.st \in Started
    /\ m.pc = "completeCommit" /\ m.goal = "cancelled" => m.st = "cancelling"
    /\ m.pc = "cancelMark" => m.st \in {"starting", "running"}

OwnerLegal(r) == LegalOwner(mgr[r], status[r])

\* The same for a caller: nobody releases the process of a Run that was never claimed.
CallerLegal(r, k) ==
    /\ caller[r][k].pc # "idle" => status[r] # "absent"
    /\ caller[r][k].pc \in RelPcs => status[r] \notin {"absent", "queued"}
    /\ caller[r][k].pc \in RelPcs /\ caller[r][k].target = "cancelled"
         => status[r] \in {"cancelling"} \cup TerminalStatuses
    /\ caller[r][k].pc = "finish" => caller[r][k].st \in Started
    /\ caller[r][k].pc = "finish" /\ caller[r][k].target = "cancelled"
         => caller[r][k].st = "cancelling"

\* A Workflow is created only for a Run whose row exists.
CreatorLegal(r) == dispatch[r] # "none" \/ dispatched[r] => status[r] # "absent"

\* The strengthening of PendingTransitionsAreLegal.
Legal ==
    \A r \in Runs :
        OwnerLegal(r) /\ CreatorLegal(r) /\ \A k \in Callers : CallerLegal(r, k)

\* None, or a sandbox that the Provider has created.
Known(s) == s # None => sandbox[s] # "none"

\* Nobody holds a reference to a sandbox that was never created, so that a new sandbox is
\* nobody's, and agents live in live sandboxes only.
RefsKnown ==
    /\ Known(lease.ref)
    /\ \A r \in Runs : Known(mgr[r].ref) /\ Known(mgr[r].lref)
    /\ \A r \in Runs, k \in Callers : Known(caller[r][k].lref)
    /\ \A r \in Runs : agentIn[r] # None => sandbox[agentIn[r]] = "live"

\* Nobody remembers a version of the Lease that is yet to come.
VersionsPast ==
    /\ \A r \in Runs : mgr[r].lver <= lease.version
    /\ \A r \in Runs, k \in Callers : caller[r][k].lver <= lease.version

\* An owner that starts up is awaited by the attempt that built it.
StartupOwner(r) ==
    mgr[r].pc \in StartupPcs =>
        /\ status[r] # "running"
        /\ mgr[r].timer = "unset" /\ ~mgr[r].lost
        /\ mgr[r].ctx = "start"
        /\ mgr[r].by \in Attempts /\ caller[r][mgr[r].by].pc = "wait"

\* No attempt has overtaken another: the step's timeout does not start one beside the last,
\* or has not done so yet, since that takes a mishap.
Orderly == ~StepTimeout \/ mishaps = 0

\* Then an attempt begins only when the earlier ones have thrown or died.
InTurn == Orderly =>
    \A r \in Runs : \A j, k \in Attempts :
        j < k /\ caller[r][k].pc # "idle" => caller[r][j].pc \in {"threw", "dead"}

\* A caller that releases a process which could not be that of a starting owner.
Beside(r, k) == caller[r][k].pc \in RelPcs /\ (k \in Cancellers \/ Orderly)
NoStartup == \A r \in Runs : \A k \in Callers : Beside(r, k) => mgr[r].pc \notin StartupPcs

StartupAll == \A r \in Runs : StartupOwner(r)

LEMMA ServiceNextMoves ==
    ASSUME IInv, NEW r \in Runs, ServiceNext(r)
    PROVE  ServiceMoves(r)
  BY ServiceStepMoves DEF IInv

-----------------------------------------------------------------------------
(* What everybody knows of the status of a Run.                            *)

\* The status of a Run moves along allowedTransitions.
LEMMA StatusMoves ==
    ASSUME StoreTypeOK, RowsStep, NEW q \in Runs
    PROVE  /\ status[q] # "absent" => status'[q] # "absent"
           /\ status[q] \notin {"absent", "queued"} => status'[q] \notin {"absent", "queued"}
           /\ status[q] \in {"cancelling"} \cup TerminalStatuses
                => status'[q] \in {"cancelling"} \cup TerminalStatuses
           /\ status[q] \in TerminalStatuses => status'[q] = status[q]
  <1>1. ASSUME NEW r \in Runs, NEW from, NEW to, Transition(r, from, to)
        PROVE  /\ status[q] # "absent" => status'[q] # "absent"
               /\ status[q] \in {"cancelling"} \cup TerminalStatuses
                    => status'[q] \in {"cancelling"} \cup TerminalStatuses
               /\ status[q] \in TerminalStatuses => status'[q] = status[q]
    BY <1>1 DEF Transition, CanTransition, StoreTypeOK, canTransitionAgentRun, ActiveStatuses,
                allowedTransitions, TerminalStatuses
  <1>2. /\ status[q] # "absent" => status'[q] # "absent"
        /\ status[q] \in {"cancelling"} \cup TerminalStatuses
             => status'[q] \in {"cancelling"} \cup TerminalStatuses
        /\ status[q] \in TerminalStatuses => status'[q] = status[q]
    BY <1>1 DEF RowsStep, runRows, InsertQueued, CompleteSucceeded, SetProcessRef, StoreTypeOK,
                TerminalStatuses
  <1> QED
    BY <1>2, StartedStaysStarted

\* Nothing an owner knows is outdated by a transition of its Run that another made.
LEMMA OwnerLegalKept ==
    ASSUME StoreTypeOK, RowsStep, NEW q \in Runs, mgr'[q] = mgr[q], OwnerLegal(q)
    PROVE  OwnerLegal(q)'
  BY StatusMoves DEF OwnerLegal, LegalOwner

LEMMA CallerLegalKept ==
    ASSUME StoreTypeOK, RowsStep, NEW q \in Runs, NEW k \in Callers,
           caller'[q][k] = caller[q][k], CallerLegal(q, k)
    PROVE  CallerLegal(q, k)'
  BY StatusMoves DEF CallerLegal

\* An owner's own steps.
LEMMA OwnerMovesLegal ==
    ASSUME StoreTypeOK, OwnersSound, RowsStep, NEW r \in Runs, OwnerLegal(r), OwnerMoves(r),
           mgr[r].pc # "none"
    PROVE  OwnerLegal(r)'
  <1>0. /\ status[r] \notin {"absent", "queued"} /\ status'[r] \notin {"absent", "queued"}
        /\ status[r] \in {"cancelling"} \cup TerminalStatuses
             => status'[r] \in {"cancelling"} \cup TerminalStatuses
        /\ status[r] \in Statuses
    BY StatusMoves DEF OwnerLegal, LegalOwner, StoreTypeOK
  <1>1. ASSUME NEW st, NEW proc, Throws(r, st, proc)
        PROVE  OwnerLegal(r)'
    BY <1>0, <1>1 DEF Throws, OwnerLegal, LegalOwner
  <1>2. ASSUME NEW pc, Ends(r, pc), pc \in {"done", "dead"} PROVE OwnerLegal(r)'
    BY <1>0, <1>2 DEF Ends, OwnerLegal, LegalOwner
  <1>3. ASSUME NEW newStatus, NEW next,
               DidLease(r, newStatus, next),
               \/ next \in StartupPcs \cup {"succeed"}
               \/ next = "completeDuration" /\ mgr[r].goal # "fail"
               \/ next = "failCommit" /\ mgr[r].st \in Started
        PROVE  OwnerLegal(r)'
    BY <1>0, <1>1, <1>3 DEF DidLease, ThrowsAsIs, OwnerLegal, LegalOwner, StartupPcs
  <1>4. CASE DidStartup(r)
    BY <1>0, <1>1, <1>3, <1>4
       DEF DidStartup, DidEnsureSandbox, DidRefreshAfterReady, DidConfigureAgent, DidSpawnAgent,
           DidPromptAgent, DidPersistProcessRef, DidMarkRunning, Goes, Fresh, Keep, At,
           OwnerLegal, LegalOwner, ThrowsAsIs, ThrowsFresh, StartupPcs
  <1>5. CASE DidEvents(r)
    BY <1>0, <1>1, <1>2, <1>5
       DEF DidEvents, DidAgentEnds, DidHandleCompletion, DidCatchEventError, DidDeadlinePasses,
           DidRefreshBeforeCancel, DidRun, Goes, Fresh, Keep, At,
           OwnerLegal, LegalOwner, ThrowsAsIs, ThrowsFresh
  <1>6. CASE DidTerminate(r)
    BY <1>0, <1>1, <1>6
       DEF DidTerminate, DidTerminated, Goes, Fresh, Keep, At, OwnerLegal, LegalOwner, ThrowsAsIs,
           ThrowsFresh
  <1>7. CASE DidFail(r)
    BY <1>0, <1>1, <1>2, <1>3, <1>7
       DEF DidFail, DidRun, DidDuration, Goes, Fresh, Keep, At, OwnerLegal, LegalOwner,
           ThrowsAsIs, ThrowsFresh, Active, ActiveStatuses, Started
  <1>8. CASE DidComplete(r)
    BY <1>0, <1>1, <1>2, <1>3, <1>8
       DEF DidComplete, DidRun, DidDuration, Goes, Fresh, Keep, At, OwnerLegal, LegalOwner,
           ThrowsAsIs, ThrowsFresh, Active, ActiveStatuses, Started, TerminalStatuses
  <1>9. CASE DidRefreshFault(r)
    BY <1>1, <1>9 DEF DidRefreshFault, ThrowsAsIs
  <1> QED
    BY <1>4, <1>5, <1>6, <1>7, <1>8, <1>9 DEF OwnerMoves

LEMMA OwnerMovesAlive ==
    ASSUME NEW r \in Runs, OwnerMoves(r)
    PROVE  mgr[r].pc \notin FinishedPcs
  BY DEF OwnerMoves, DidStartup, DidEnsureSandbox, DidRefreshAfterReady, DidConfigureAgent,
         DidSpawnAgent, DidPromptAgent, DidPersistProcessRef, DidMarkRunning, DidEvents,
         DidAgentEnds, DidHandleCompletion, DidCatchEventError, DidDeadlinePasses,
         DidRefreshBeforeCancel, DidTerminate, DidFail, DidComplete, DidRefreshFault, At,
         RefreshPcs, FinishedPcs

\* A caller that goes on anywhere but towards releaseRunProcess.
LEMMA CallerLegalAway ==
    ASSUME NEW r \in Runs, NEW k \in Callers, NEW pc, NEW st, NEW ref, NEW lref, NEW lver,
           NEW target,
           CallerGoes(r, k, pc, st, ref, lref, lver, target), pc \notin RelPcs,
           status'[r] # "absent"
    PROVE  CallerLegal(r, k)'
  BY DEF CallerGoes, CallerLegal, RelPcs

\* A caller's steps.
LEMMA ReadRunLegal ==
    ASSUME StoreTypeOK, NEW r \in Runs, NEW k \in Callers, NEW queued \in {"load", "giveUp"},
           DidReadRun(r, k, queued), status[r] # "absent"
    PROVE  CallerLegal(r, k)'
  <1>1. status'[r] = status[r] /\ status[r] \in Statuses
    BY DEF DidReadRun, runRows, StoreTypeOK
  <1>2. "done" \notin RelPcs /\ queued \notin RelPcs
    BY DEF RelPcs
  <1>3. CASE CallerReloads(r, k, "done", caller[r][k].target)
    BY <1>1, <1>2, <1>3, CallerLegalAway DEF CallerReloads
  <1>4. CASE CallerReloads(r, k, queued, caller[r][k].target)
    BY <1>1, <1>2, <1>4, CallerLegalAway DEF CallerReloads
  <1>5. CASE /\ ~Terminal(r) /\ status[r] # "queued" /\ status[r] # "cancelling"
             /\ CallerReloads(r, k, "readLease", "interrupted")
    BY <1>1, <1>5 DEF CallerReloads, CallerGoes, CallerLegal, RelPcs, Forgetting
  <1>6. CASE status[r] = "cancelling" /\ CallerReloads(r, k, "readLease", "cancelled")
    BY <1>1, <1>6 DEF CallerReloads, CallerGoes, CallerLegal, RelPcs, Forgetting
  <1> QED
    BY <1>3, <1>4, <1>5, <1>6 DEF DidReadRun

LEMMA CallerMovesLegal ==
    ASSUME IInv, RowsStep, NEW r \in Runs, NEW k \in Callers,
           CreatorLegal(r), \A j \in Callers : CallerLegal(r, j), CallerMoves(r, k)
    PROVE  CallerLegal(r, k)'
  <1>0. /\ StoreTypeOK /\ status[r] \in Statuses
        /\ CallerLegal(r, k)
        /\ caller[r][k].pc # "idle" => status[r] # "absent"
        /\ status[r] # "absent" => status'[r] # "absent"
        /\ status[r] \notin {"absent", "queued"} => status'[r] \notin {"absent", "queued"}
        /\ status[r] \in {"cancelling"} \cup TerminalStatuses
             => status'[r] \in {"cancelling"} \cup TerminalStatuses
    BY StatusMoves DEF IInv, StoreTypeOK, CallerLegal
  <1>1. ASSUME NEW to, NEW next, DidMoveOrConfirm(r, k, to, next), next \notin RelPcs,
               caller[r][k].pc # "idle"
        PROVE  CallerLegal(r, k)'
    <2>1. "confirm" \notin RelPcs
      BY DEF RelPcs
    <2> QED
      BY <1>0, <1>1, <2>1, CallerLegalAway DEF DidMoveOrConfirm, CallerKeeps
  <1>2. CASE k \in Attempts /\ DidExecute(r, k)
    <2>1. CASE (MayAttempt(r, k) \/ MayOvertake(r, k)) /\ DidReadRun(r, k, "load")
      <3>1. CASE MayAttempt(r, k)
        BY <1>0, <2>1, <3>1, ReadRunLegal DEF MayAttempt, CreatorLegal
      <3>2. CASE MayOvertake(r, k)
        <4>1. k - 1 \in Callers
          BY <1>2, <3>2, AttemptsAssumption DEF MayOvertake, Callers, Attempts
        <4>2. caller[r][k - 1].pc # "idle"
          BY <3>2 DEF MayOvertake, StoppedPcs
        <4> QED
          BY <1>0, <2>1, <4>1, <4>2, ReadRunLegal DEF CallerLegal
      <3> QED
        BY <2>1, <3>1, <3>2
    <2>2. CASE CallerAt(r, k, "converge") /\ DidReadRun(r, k, "giveUp")
      BY <1>0, <2>2, ReadRunLegal DEF CallerAt
    <2>3. CASE CallerAt(r, k, "giveUp") /\ DidMoveOrConfirm(r, k, "failed", "done")
      BY <1>1, <2>3 DEF CallerAt, RelPcs
    <2>4. CASE DidLoadOrAwait(r, k) \/ DidClaimRun(r, k)
      <3>1. /\ status'[r] # "absent"
            /\ \A pc \in {"claim", "converge", "done", "wait"} : pc \notin RelPcs
        BY <1>0, <2>4 DEF DidLoadOrAwait, DidClaimRun, CallerAt, RelPcs
      <3> QED
        BY <2>4, <3>1, CallerLegalAway DEF DidLoadOrAwait, DidClaimRun, CallerPasses, CallerKeeps
    <2> QED
      BY <1>2, <2>1, <2>2, <2>3, <2>4 DEF DidExecute
  <1>3. CASE DidRelease(r, k)
    <2>1. CASE CallerAt(r, k, "finish") /\ DidMoveOrConfirm(r, k, caller[r][k].target, "done")
      BY <1>1, <2>1 DEF CallerAt, RelPcs
    <2>2. CASE ~CallerAt(r, k, "finish")
      BY <1>0, <1>3, <2>2
         DEF DidRelease, CallerPasses, CallerKeeps, CallerReloads, CallerGoes, CallerLegal,
             CallerAt, RelPcs, Forgetting, Started, Terminal, isTerminalAgentRun, Statuses,
             ActiveStatuses
    <2> QED
      BY <1>3, <2>1, <2>2 DEF DidRelease, CallerAt
  <1>4. CASE k \in Cancellers /\ DidRequestCancel(r, k)
    <2>1. status'[r] # "absent" /\ \A pc \in {"done", "cancel"} : pc \notin RelPcs
      BY <1>0, <1>4 DEF DidRequestCancel, RelPcs
    <2> QED
      BY <1>4, <2>1, CallerLegalAway DEF DidRequestCancel, CallerReloads
  <1>5. CASE k \in Cancellers /\ DidCancelRun(r, k)
    <2>1. CASE caller[r][k].st = "running" /\ DidMoveOrConfirm(r, k, "cancelling", "readLease")
      <3>1. CASE /\ Transition(r, caller[r][k].st, "cancelling")
                 /\ CallerGoes(r, k, "readLease", "cancelling", processRef'[r], caller[r][k].lref,
                               caller[r][k].lver, caller[r][k].target)
        <4>1. status'[r] = "cancelling"
          BY <1>0, <3>1 DEF Transition, StoreTypeOK
        <4> QED
          BY <3>1, <4>1 DEF CallerGoes, CallerLegal, RelPcs, Forgetting
      <3>2. CASE CallerKeeps(r, k, "confirm")
        BY <1>0, <1>5, <3>2, CallerLegalAway DEF CallerKeeps, RelPcs, DidCancelRun, CallerAt
      <3> QED
        BY <2>1, <3>1, <3>2 DEF DidMoveOrConfirm
    <2>2. CASE \E to \in {"cancelled", "cancelling"} : DidMoveOrConfirm(r, k, to, "done")
      BY <1>1, <1>5, <2>2 DEF DidCancelRun, CallerAt, RelPcs
    <2> QED
      BY <1>5, <2>1, <2>2 DEF DidCancelRun
  <1>6. CASE DidLose(r, k)
    <2>1. "dead" \notin RelPcs /\ StoppedPcs \cap RelPcs = {} /\ status'[r] # "absent"
      BY <1>0, <1>6 DEF RelPcs, StoppedPcs, DidLose, CallerAt
    <2> QED
      BY <1>6, <2>1, CallerLegalAway DEF DidLose, CallerKeeps
  <1>7. CASE DidFault(r, k)
    <2>1. "threw" \notin RelPcs /\ status'[r] # "absent"
      BY <1>0, <1>7 DEF RelPcs, StatementPcs, DidFault, MayAttempt, CreatorLegal
    <2> QED
      BY <1>7, <2>1, CallerLegalAway DEF DidFault, CallerKeeps
  <1> QED
    BY <1>2, <1>3, <1>4, <1>5, <1>6, <1>7 DEF CallerMoves

\* What a caller's step does to the owner.
LEMMA CallerMovesOwner ==
    ASSUME NEW r \in Runs, NEW k \in Callers, CallerMoves(r, k)
    PROVE  \/ UNCHANGED mgr
           \/ /\ Ends(r, "dead") /\ mgr[r].pc \notin FinishedPcs /\ mgr[r].by = k
              /\ UNCHANGED <<runRows, lease, providerVars>>
           \/ /\ k \in Attempts /\ CallerAt(r, k, "claim") /\ CallerKeeps(r, k, "wait")
              /\ Claim(r, k, caller[r][k].lref, caller[r][k].lver)
  <1>1. CASE k \in Attempts /\ DidClaimRun(r, k)
    BY <1>1 DEF DidClaimRun
  <1>2. CASE DidLose(r, k)
    BY <1>2 DEF DidLose
  <1>3. CASE ~(k \in Attempts /\ DidClaimRun(r, k)) /\ ~DidLose(r, k)
    BY <1>3 DEF CallerMoves, DidExecute, DidReadRun, DidLoadOrAwait, DidRelease, DidMoveOrConfirm,
                DidRequestCancel, DidCancelRun, DidFault
  <1> QED
    BY <1>1, <1>2, <1>3

\* A caller or an owner of one Run does nothing to those of another.
LEMMA CallerMovesAlone ==
    ASSUME NEW r \in Runs, NEW k \in Callers, CallerMoves(r, k)
    PROVE  OnlyCaller(r, k)
  BY DEF CallerMoves, DidExecute, DidReadRun, DidLoadOrAwait, DidClaimRun, DidRelease,
         DidMoveOrConfirm, DidRequestCancel, DidCancelRun, DidFault, DidLose,
         CallerKeeps, CallerPasses, CallerReloads, CallerGoes

LEMMA OwnerMovesAlone ==
    ASSUME NEW r \in Runs, OwnerMoves(r)
    PROVE  OnlyOwner(r)
  <1>1. ASSUME NEW newStatus, NEW next, DidLease(r, newStatus, next) PROVE OnlyOwner(r)
    BY <1>1 DEF DidLease, ThrowsAsIs, Throws
  <1>2. ASSUME NEW to, NEW next, DidRun(r, to, next) PROVE OnlyOwner(r)
    BY <1>2 DEF DidRun, ThrowsAsIs, Throws, Ends, Goes
  <1> QED
    BY <1>1, <1>2
       DEF OwnerMoves, DidStartup, DidEnsureSandbox, DidRefreshAfterReady, DidConfigureAgent,
         DidSpawnAgent, DidPromptAgent, DidPersistProcessRef, DidMarkRunning, DidEvents,
         DidAgentEnds, DidHandleCompletion, DidCatchEventError, DidDeadlinePasses,
         DidRefreshBeforeCancel, DidTerminate, DidTerminated, DidFail, DidDuration, DidComplete,
         DidRefreshFault, Goes, Fresh, Keep, Ends, Throws, ThrowsAsIs, ThrowsFresh

\* Every step of the system keeps Legal.
LEMMA NextLegal ==
    ASSUME IInv, Legal, Next
    PROVE  Legal'
  <1>0. StoreStep /\ StoreTypeOK /\ OwnersSound /\ RowsStep /\ ServiceTypeOK /\ CallersTyped
    BY NextIsStoreStep DEF IInv, StoreStep, ServiceTypeOK
  <1>1. ASSUME NEW r \in Runs, ServiceNext(r) PROVE Legal'
    <2>1. CASE DidCreate(r)
      <3>1. \A q \in Runs : CreatorLegal(q)'
        <4>1. CASE dispatch[r] # "none"
          BY <1>0, <2>1, <4>1, StatusMoves DEF DidCreate, CreatorLegal, Legal
        <4>2. CASE InsertQueued(r)
          BY <1>0, <2>1, <4>2, StatusMoves DEF DidCreate, CreatorLegal, Legal, InsertQueued,
                 StoreTypeOK
        <4> QED
          BY <2>1, <4>1, <4>2 DEF DidCreate
      <3> QED
        BY <1>0, <2>1, <3>1, OwnerLegalKept, CallerLegalKept DEF DidCreate, Legal
    <2>2. ASSUME NEW k \in Callers, CallerMoves(r, k) PROVE Legal'
      <3>1. CallerLegal(r, k)'
        BY <1>0, <2>2, CallerMovesLegal DEF Legal
      <3>2. \A q \in Runs, j \in Callers : q # r \/ j # k => caller'[q][j] = caller[q][j]
        BY <2>2, CallerMovesAlone DEF OnlyCaller
      <3>3. \A q \in Runs, j \in Callers : CallerLegal(q, j)'
        BY <1>0, <3>1, <3>2, CallerLegalKept DEF Legal
      <3>4. \A q \in Runs : CreatorLegal(q)'
        BY <1>0, <2>2, StatusMoves DEF CallerMoves, CreatorLegal, Legal
      <3>5. \A q \in Runs : OwnerLegal(q)'
        <4>1. CASE UNCHANGED mgr
          BY <1>0, <4>1, OwnerLegalKept DEF Legal
        <4>2. CASE Ends(r, "dead") /\ mgr[r].pc \notin FinishedPcs
          <5>1. OwnerLegal(r)'
            BY <1>0, <4>2, StatusMoves DEF Ends, FinishedPcs, Legal, OwnerLegal, LegalOwner
          <5> QED
            BY <1>0, <4>2, <5>1, OwnerLegalKept DEF Ends, OnlyOwner, Legal
        <4>3. CASE k \in Attempts /\ Claim(r, k, caller[r][k].lref, caller[r][k].lver)
          <5>1. status'[r] = "starting"
            BY <1>0, <4>3 DEF Claim, Transition, StoreTypeOK
          <5>2. OwnerLegal(r)' /\ OnlyOwner(r)
            BY <1>0, <4>3, <5>1, ClaimMoves, CallerTyped DEF OwnerLegal, LegalOwner
          <5> QED
            BY <1>0, <5>2, OwnerLegalKept DEF OnlyOwner, Legal
        <4> QED
          BY <2>2, <4>1, <4>2, <4>3, CallerMovesOwner
      <3> QED
        BY <3>3, <3>4, <3>5 DEF Legal
    <2>3. CASE OwnerMoves(r) /\ UNCHANGED serviceVars
      <3>1. OwnerLegal(r)'
        BY <1>0, <2>3, OwnerMovesAlive, OwnerMovesLegal DEF FinishedPcs, Legal
      <3>2. \A q \in Runs : OwnerLegal(q)'
        BY <1>0, <2>3, <3>1, OwnerMovesAlone, OwnerLegalKept DEF OnlyOwner, Legal
      <3>3. \A q \in Runs, j \in Callers : CallerLegal(q, j)'
        BY <1>0, <2>3, CallerLegalKept DEF Legal, serviceVars
      <3>4. \A q \in Runs : CreatorLegal(q)'
        BY <1>0, <2>3, StatusMoves DEF serviceVars, CreatorLegal, Legal
      <3> QED
        BY <3>2, <3>3, <3>4 DEF Legal
    <2> QED
      BY <1>1, <2>1, <2>2, <2>3, ServiceNextMoves DEF ServiceMoves
  <1>2. CASE UNCHANGED <<mgr, serviceVars>>
    <2>1. UNCHANGED <<mgr, dispatch, dispatched, caller>>
      BY <1>2 DEF serviceVars
    <2>2. \A q \in Runs : OwnerLegal(q)'
      BY <1>0, <2>1, OwnerLegalKept DEF Legal
    <2>3. \A q \in Runs, j \in Callers : CallerLegal(q, j)'
      BY <1>0, <2>1, CallerLegalKept DEF Legal
    <2>4. \A q \in Runs : CreatorLegal(q)'
      BY <1>0, <2>1, StatusMoves DEF CreatorLegal, Legal
    <2> QED
      BY <2>2, <2>3, <2>4 DEF Legal
  <1> QED
    BY <1>1, <1>2 DEF Next

LEMMA InitLegal == Init => Legal
  BY DEF Init, CoordinatorInit, ServiceInit, StoreInit, NoManagedRun, NoCaller, Legal, OwnerLegal,
         LegalOwner, CreatorLegal, CallerLegal, RelPcs

LEMMA InductiveLegal == Spec => [](IInv /\ Legal)
  <1>1. IInv /\ Legal /\ [Next]_vars => Legal'
    <2>1. ASSUME Legal, UNCHANGED vars PROVE Legal'
      BY <2>1 DEF vars, storeVars, serviceVars, Legal, OwnerLegal, LegalOwner, CreatorLegal,
                  CallerLegal
    <2> QED
      BY <2>1, NextLegal
  <1> QED
    BY <1>1, InitLegal, Inductive, PTL DEF Spec

\* Whatever the others did since an owner or a caller read the status of its Run, the
\* transition that it will ask for is in allowedTransitions.
THEOREM PendingTransitionsLegal == Spec => []PendingTransitionsAreLegal
  <1>1. IInv /\ Legal => PendingTransitionsAreLegal
    <2> SUFFICES ASSUME IInv, Legal, NEW r \in Runs
                 PROVE  /\ At(r, "completeCommit") => canTransitionAgentRun(mgr[r].st, mgr[r].goal)
                        /\ At(r, "failCommit")     => canTransitionAgentRun(mgr[r].st, "failed")
                        /\ At(r, "cancelMark")     => canTransitionAgentRun(mgr[r].st, "cancelling")
                        /\ \A k \in Callers :
                             CallerAt(r, k, "finish") =>
                                 canTransitionAgentRun(caller[r][k].st, caller[r][k].target)
      BY DEF PendingTransitionsAreLegal
    <2>1. mgr[r] \in SoundOwners /\ mgr[r].goal \in Goals
      BY RefreshedTyped DEF IInv, ManagedRuns
    <2>2. At(r, "completeCommit") => canTransitionAgentRun(mgr[r].st, mgr[r].goal)
      BY <2>1 DEF At, Legal, OwnerLegal, LegalOwner, Started, SoundOwners, Goals,
                  canTransitionAgentRun, ActiveStatuses, allowedTransitions
    <2>3. /\ At(r, "failCommit") => canTransitionAgentRun(mgr[r].st, "failed")
          /\ At(r, "cancelMark") => canTransitionAgentRun(mgr[r].st, "cancelling")
      BY DEF At, Legal, OwnerLegal, LegalOwner, Started,
             canTransitionAgentRun, ActiveStatuses, allowedTransitions
    <2>4. ASSUME NEW k \in Callers, CallerAt(r, k, "finish")
          PROVE  canTransitionAgentRun(caller[r][k].st, caller[r][k].target)
      <3>1. caller[r][k].target \in {"cancelled", "interrupted"}
        BY CallerTyped DEF IInv, ServiceTypeOK, CallerRecords
      <3> QED
        BY <2>4, <3>1 DEF CallerAt, Legal, CallerLegal, Started,
                         canTransitionAgentRun, ActiveStatuses, allowedTransitions
    <2> QED
      BY <2>2, <2>3, <2>4
  <1> QED
    BY <1>1, InductiveLegal, PTL

-----------------------------------------------------------------------------
(* What every step leaves alone or only lets grow.                         *)

\* The clock of updated_at: a write of the Lease never gives it an earlier version.
LEMMA WriteFields ==
    ASSUME StoreTypeOK, NEW s, NEW ref, WriteLease(s, ref)
    PROVE  /\ lease'.status = s /\ lease'.ref = ref
           /\ lease'.version \in Nat /\ lease.version \in Nat /\ lease'.version >= lease.version
           /\ 0 \notin Ticks => lease'.version > lease.version
  <1>1. PICK v \in LaterVersions : lease' = [status |-> s, ref |-> ref, version |-> v]
    BY DEF WriteLease
  <1>2. PICK t \in Ticks : v = lease.version + t
    BY <1>1 DEF LaterVersions
  <1>3. t \in Nat /\ lease.version \in Nat
    BY ClockAssumption DEF StoreTypeOK
  <1> QED
    BY <1>1, <1>2, <1>3

LEMMA VersionsGrow ==
    ASSUME StoreTypeOK, LeaseStep
    PROVE  lease'.version \in Nat /\ lease.version \in Nat /\ lease'.version >= lease.version
  <1>1. lease.version \in Nat
    BY DEF StoreTypeOK
  <1> QED
    BY <1>1, WriteFields DEF LeaseStep

\* A sandbox that was created is never uncreated, nor one that is gone revived.
LEMMA SandboxesMove ==
    ASSUME StoreTypeOK, ProviderStep, NEW s \in Runs
    PROVE  /\ sandbox[s] # "none" => sandbox'[s] # "none"
           /\ sandbox[s] = "gone" => sandbox'[s] = "gone"
  BY DEF ProviderStep, StoreTypeOK, providerVars, CreateSandbox, DestroySandbox, StartProcess,
         KillProcess

\* StopSandbox takes the agent along with the sandbox.
AgentsLive == \A r \in Runs : agentIn[r] # None => sandbox[agentIn[r]] = "live"

LEMMA AgentsStayLive ==
    ASSUME StoreTypeOK, ProviderStep, AgentsLive
    PROVE  AgentsLive'
  <1> USE DEF StoreTypeOK, AgentsLive, SandboxRefs
  <1>1. ASSUME NEW r \in Runs, CreateSandbox(r) PROVE AgentsLive'
    BY <1>1 DEF CreateSandbox
  <1>2. ASSUME NEW s \in SandboxRefs, DestroySandbox(s) PROVE AgentsLive'
    BY <1>2, NoneAssumption DEF DestroySandbox
  <1>3. ASSUME NEW r \in Runs, NEW s \in SandboxRefs, StartProcess(r, s) PROVE AgentsLive'
    BY <1>3 DEF StartProcess, IsLive
  <1>4. ASSUME NEW r \in Runs, NEW s \in SandboxRefs, KillProcess(r, s) PROVE AgentsLive'
    BY <1>4 DEF KillProcess
  <1> QED
    BY <1>1, <1>2, <1>3, <1>4 DEF ProviderStep, providerVars

\* A step on behalf of r leaves the rows of every other Run alone.
OnlyRow(r) == \A q \in Runs : q # r => status'[q] = status[q] /\ processRef'[q] = processRef[q]

LEMMA OnlyRowMoves ==
    ASSUME StoreTypeOK, NEW r \in Runs
    PROVE  /\ UNCHANGED runRows => OnlyRow(r)
           /\ \A from, to : Transition(r, from, to) => OnlyRow(r)
           /\ InsertQueued(r) => OnlyRow(r)
           /\ CompleteSucceeded(r) => OnlyRow(r)
           /\ SetProcessRef(r) => OnlyRow(r)
  BY DEF OnlyRow, StoreTypeOK, runRows, Transition, InsertQueued, CompleteSucceeded, SetProcessRef

LEMMA OwnerMovesRow ==
    ASSUME StoreTypeOK, NEW r \in Runs, OwnerMoves(r)
    PROVE  OnlyRow(r)
  BY OnlyRowMoves
     DEF OwnerMoves, DidStartup, DidEnsureSandbox, DidRefreshAfterReady, DidConfigureAgent,
         DidSpawnAgent, DidPromptAgent, DidPersistProcessRef, DidMarkRunning, DidEvents,
         DidAgentEnds, DidHandleCompletion, DidCatchEventError, DidDeadlinePasses,
         DidRefreshBeforeCancel, DidTerminate, DidFail, DidDuration, DidComplete,
         DidRefreshFault, DidLease, DidRun, storeVars, runRows

LEMMA CallerMovesRow ==
    ASSUME StoreTypeOK, NEW r \in Runs, NEW k \in Callers, CallerMoves(r, k)
    PROVE  OnlyRow(r)
  BY OnlyRowMoves
     DEF CallerMoves, DidExecute, DidReadRun, DidLoadOrAwait, DidClaimRun, DidRelease,
         DidMoveOrConfirm, DidRequestCancel, DidCancelRun, DidFault, DidLose, Claim

-----------------------------------------------------------------------------
(* The start-up of an owner.                                               *)

\* After its start-up an owner does not start up again.
LEMMA LaterOwnerMoves ==
    ASSUME NEW r \in Runs, OwnerMoves(r), ~DidStartup(r)
    PROVE  mgr'[r].pc \notin StartupPcs \cup {"none"}
  <1> USE DEF StartupPcs
  <1>1. ASSUME NEW st, NEW proc, Throws(r, st, proc)
        PROVE  mgr'[r].pc \notin StartupPcs \cup {"none"}
    BY <1>1 DEF Throws
  <1>2. ASSUME NEW to, NEW next, DidRun(r, to, next), next \notin StartupPcs \cup {"none"}
        PROVE  mgr'[r].pc \notin StartupPcs \cup {"none"}
    BY <1>1, <1>2 DEF DidRun, Ends, Goes, ThrowsAsIs
  <1>3. ASSUME NEW newStatus, NEW next, DidLease(r, newStatus, next),
               next \notin StartupPcs \cup {"none"}
        PROVE  mgr'[r].pc \notin StartupPcs \cup {"none"}
    BY <1>1, <1>3 DEF DidLease, ThrowsAsIs
  <1>4. CASE DidEvents(r)
    BY <1>1, <1>2, <1>4
       DEF DidEvents, DidAgentEnds, DidHandleCompletion, DidCatchEventError,
           DidDeadlinePasses, DidRefreshBeforeCancel, Goes, Fresh, Keep, Ends, ThrowsAsIs
  <1>5. CASE DidTerminate(r)
    BY <1>1, <1>5
       DEF DidTerminate, DidTerminated, Goes, Fresh, Keep, Ends, ThrowsAsIs, ThrowsFresh
  <1>6. CASE DidFail(r)
    BY <1>1, <1>2, <1>3, <1>6 DEF DidFail, DidDuration, Goes, Fresh, Keep, Ends, ThrowsAsIs
  <1>7. CASE DidComplete(r)
    BY <1>1, <1>2, <1>3, <1>7
       DEF DidComplete, DidDuration, Goes, Fresh, Keep, Ends, ThrowsAsIs, ThrowsFresh
  <1>8. CASE DidRefreshFault(r)
    BY <1>1, <1>8 DEF DidRefreshFault, ThrowsAsIs
  <1> QED
    BY <1>4, <1>5, <1>6, <1>7, <1>8 DEF OwnerMoves

\* An owner that starts up keeps its timer unset until its agent runs.
LEMMA StartupOwnerMoves ==
    ASSUME StoreTypeOK, OwnersSound, NEW r \in Runs, StartupOwner(r), OwnerMoves(r),
           UNCHANGED caller
    PROVE  /\ StartupOwner(r)'
           /\ mgr'[r].pc \in StartupPcs => mgr[r].pc \in StartupPcs
  <1>0. \A from, to : Transition(r, from, to) => status'[r] = to
    BY DEF StoreTypeOK, Transition
  <1>1. ASSUME NEW st, NEW proc, Throws(r, st, proc) PROVE mgr'[r].pc \notin StartupPcs
    BY <1>1 DEF Throws, StartupPcs
  <1>2. ASSUME NEW to, NEW next, DidRun(r, to, next), next \notin StartupPcs
        PROVE  mgr'[r].pc \notin StartupPcs
    BY <1>1, <1>2 DEF DidRun, Ends, Goes, ThrowsAsIs
  <1>3. ASSUME NEW newStatus, NEW next, DidLease(r, newStatus, next), next \notin StartupPcs
        PROVE  mgr'[r].pc \notin StartupPcs
    BY <1>1, <1>3 DEF DidLease, ThrowsAsIs
  <1>4. CASE DidStartup(r)
    <2>1. mgr[r].pc \in StartupPcs
      BY <1>4 DEF DidStartup, DidEnsureSandbox, DidRefreshAfterReady, DidConfigureAgent,
         DidSpawnAgent, DidPromptAgent, DidPersistProcessRef, DidMarkRunning, At, StartupPcs
    <2>2. CASE mgr'[r].pc \in StartupPcs
      BY <1>0, <1>1, <1>4, <2>1, <2>2
         DEF DidStartup, DidEnsureSandbox, DidRefreshAfterReady, DidConfigureAgent,
         DidSpawnAgent, DidPromptAgent, DidPersistProcessRef, DidMarkRunning, DidLease, DidRun,
         Goes, Fresh, Keep, ThrowsAsIs, ThrowsFresh, StartupOwner, runRows, storeVars,
         SetProcessRef, StartupPcs
    <2> QED
      BY <2>1, <2>2 DEF StartupOwner
  <1>5. CASE ~DidStartup(r)
    <2>1. mgr'[r].pc \notin StartupPcs
      BY <1>5, LaterOwnerMoves
    <2> QED
      BY <2>1 DEF StartupOwner
  <1> QED
    BY <1>4, <1>5

\* No caller's step disturbs an owner's start-up, but the claim that begins it.
LEMMA StartupCallerMoves ==
    ASSUME StoreTypeOK, OwnersSound, CallersTyped, NEW r \in Runs, NEW k \in Callers,
           StartupOwner(r), CallerMoves(r, k)
    PROVE  StartupOwner(r)'
  <1>0. /\ caller[r][k].target \in {"cancelled", "interrupted"}
        /\ \A from, to : Transition(r, from, to) => status'[r] = to
    BY CallerTyped DEF CallerRecords, StoreTypeOK, Transition
  <1>1. CASE UNCHANGED mgr /\ mgr[r].pc \in StartupPcs
    <2>1. status[r] # "running" => status'[r] # "running"
      BY <1>0, <1>1 DEF CallerMoves, DidExecute, DidReadRun, DidLoadOrAwait, DidClaimRun,
                        DidRelease, DidMoveOrConfirm, DidRequestCancel, DidCancelRun, DidFault,
                        DidLose, Claim, runRows
    <2>2. CASE k = mgr[r].by
      <3>1. /\ mgr[r].timer = "unset" /\ ~mgr[r].lost /\ mgr[r].pc \notin FinishedPcs
            /\ k \in Attempts /\ caller[r][k].pc = "wait" /\ k \notin Cancellers
        BY <1>1, <2>2, CancellersAssumption DEF StartupOwner, StartupPcs, FinishedPcs, Attempts
      <3>2. CASE DidExecute(r, k)
        BY <1>1, <3>1, <3>2 DEF DidExecute, DidReadRun, DidLoadOrAwait, DidClaimRun, CallerAt, At,
           MayAttempt, MayOvertake, StartupPcs
      <3>3. CASE DidRelease(r, k)
        BY <3>1, <3>3 DEF DidRelease, CallerAt
      <3>4. CASE DidFault(r, k)
        BY <3>1, <3>4 DEF DidFault, MayAttempt, CallerAt, StatementPcs
      <3>5. CASE DidLose(r, k)
        BY <1>1, <2>2, <3>1, <3>5 DEF DidLose, Ends, StartupPcs
      <3> QED
        BY <3>1, <3>2, <3>3, <3>4, <3>5 DEF CallerMoves
    <2>3. CASE k # mgr[r].by
      <3>1. mgr[r].by \in Callers
        BY <1>1 DEF StartupOwner, Callers
      <3>2. caller'[r][mgr[r].by] = caller[r][mgr[r].by]
        BY <2>3, <3>1, CallerMovesAlone DEF OnlyCaller
      <3> QED
        BY <1>1, <2>1, <3>2 DEF StartupOwner
    <2> QED
      BY <2>2, <2>3
  <1>2. CASE UNCHANGED mgr /\ mgr[r].pc \notin StartupPcs
    BY <1>2 DEF StartupOwner
  <1>3. CASE Ends(r, "dead")
    BY <1>3 DEF Ends, StartupOwner, StartupPcs
  <1>4. CASE /\ k \in Attempts /\ CallerKeeps(r, k, "wait")
             /\ Claim(r, k, caller[r][k].lref, caller[r][k].lver)
    <2>1. status'[r] = "starting"
      BY <1>0, <1>4 DEF Claim
    <2> QED
      BY <1>4, <2>1, ClaimMoves, CallerTyped DEF StartupOwner, CallerKeeps, CallerGoes
  <1> QED
    BY <1>1, <1>2, <1>3, <1>4, CallerMovesOwner

\* Attempts follow one another: one that threw or died stays so.
LEMMA StoppedAttemptStays ==
    ASSUME NEW r \in Runs, NEW k \in Callers, CallerMoves(r, k), k \in Attempts,
           caller[r][k].pc \in {"threw", "dead"}
    PROVE  caller'[r][k].pc = caller[r][k].pc
  <1>1. k \notin Cancellers
    BY CancellersAssumption DEF Attempts
  <1> QED
    BY <1>1 DEF CallerMoves, DidExecute, DidReadRun, DidLoadOrAwait, DidClaimRun, DidRelease,
                DidFault, DidLose, CallerAt, MayAttempt, MayOvertake, StatementPcs, StoppedPcs,
                CallerKeeps, CallerGoes

\* A mishap is never undone.
LEMMA OrderlyBefore ==
    ASSUME StoreTypeOK, FaultStep, Orderly'
    PROVE  Orderly
  BY DEF Orderly, FaultStep, Mishap, StoreTypeOK

\* The next begins after the one before it.
LEMMA AttemptsInTurn ==
    ASSUME StoreTypeOK, NEW r \in Runs, NEW k \in Callers, CallerMoves(r, k), k \in Attempts,
           Orderly', caller[r][k].pc = "idle", k > 1
    PROVE  caller[r][k - 1].pc \in {"threw", "dead"}
  <1>1. k \notin Cancellers
    BY CancellersAssumption DEF Attempts
  <1>2. ~MayOvertake(r, k)
    BY DEF Orderly, MayOvertake, Mishap, StoreTypeOK
  <1> QED
    BY <1>1, <1>2 DEF CallerMoves, DidExecute, DidReadRun, DidLoadOrAwait, DidClaimRun, DidRelease,
                      DidFault, DidLose, CallerAt, MayAttempt, StatementPcs, StoppedPcs

\* So a caller keeps them in turn.
LEMMA CallerMovesInTurn ==
    ASSUME StoreTypeOK, FaultStep, NEW r \in Runs, NEW k \in Callers, InTurn, CallerMoves(r, k)
    PROVE  InTurn'
  <1> SUFFICES ASSUME Orderly', NEW q \in Runs, NEW i \in Attempts, NEW j \in Attempts,
                      i < j, caller'[q][j].pc # "idle"
               PROVE  caller'[q][i].pc \in {"threw", "dead"}
    BY DEF InTurn
  <1>0. i \in Callers /\ j \in Callers /\ i \in Nat /\ j \in Nat
    BY AttemptsAssumption DEF Callers, Attempts
  <1>1. i \in Callers /\ j \in Callers /\ i \in Nat /\ j \in Nat /\ OnlyCaller(r, k)
    BY <1>0, CallerMovesAlone
  <1>2. caller[q][i].pc \in {"threw", "dead"}
    <2>0. Orderly
      BY OrderlyBefore
    <2>1. CASE caller[q][j].pc # "idle"
      BY <2>0, <2>1 DEF InTurn
    <2>2. CASE caller[q][j].pc = "idle"
      <3>1. q = r /\ j = k
        BY <1>1, <2>2 DEF OnlyCaller
      <3>2. j - 1 \in Attempts /\ j > 1 /\ (i = j - 1 \/ i < j - 1)
        BY <1>1, AttemptsAssumption DEF Attempts
      <3>3. caller[r][j - 1].pc \in {"threw", "dead"}
        BY <2>2, <3>1, <3>2, AttemptsInTurn
      <3> QED
        BY <2>0, <3>1, <3>2, <3>3 DEF InTurn
    <2> QED
      BY <2>1, <2>2
  <1>3. caller'[q][i].pc = caller[q][i].pc
    BY <1>1, <1>2, StoppedAttemptStays DEF OnlyCaller
  <1> QED
    BY <1>2, <1>3

\* Who may go on to releaseRunProcess while an owner starts?  Nobody.
LEMMA ReleaseBesideStartup ==
    ASSUME StoreTypeOK, OwnersSound, CallersTyped, FaultStep, NEW r \in Runs, NEW k \in Callers,
           StartupOwner(r), InTurn, NoStartup, CallerMoves(r, k), UNCHANGED mgr,
           Beside(r, k)'
    PROVE  mgr[r].pc \notin StartupPcs
  <1> SUFFICES ASSUME mgr[r].pc \in StartupPcs PROVE FALSE
    OBVIOUS
  <1>0. caller'[r][k].pc \in RelPcs /\ (k \in Cancellers \/ (Orderly /\ Orderly'))
    BY OrderlyBefore DEF Beside
  <1>1. CASE caller[r][k].pc \in RelPcs
    BY <1>0, <1>1 DEF NoStartup, Beside
  <1> DEFINE b == mgr[r].by
  <1>2. b \in Attempts /\ caller[r][b].pc = "wait" /\ status[r] # "running"
    BY DEF StartupOwner
  <1>3. CASE k \in Cancellers /\ caller[r][k].pc \notin RelPcs
    <2>1. k \notin Attempts
      BY <1>3, CancellersAssumption DEF Attempts
    <2>2. CASE DidCancelRun(r, k)
      BY <1>0, <1>2, <2>2 DEF DidCancelRun, DidMoveOrConfirm, CallerKeeps, CallerGoes, RelPcs,
                        Transition, CanTransition
    <2>3. CASE ~DidCancelRun(r, k)
      BY <1>0, <1>3, <2>1, <2>3
         DEF CallerMoves, DidRelease, DidRequestCancel, DidFault, DidLose, DidMoveOrConfirm,
             CallerAt, CallerKeeps, CallerPasses, CallerReloads, CallerGoes, RelPcs, StoppedPcs
    <2> QED
      BY <2>2, <2>3
  <1>4. CASE k \in Attempts /\ Orderly /\ Orderly' /\ caller[r][k].pc \notin RelPcs
    <2>1. k \notin Cancellers
      BY <1>4, CancellersAssumption DEF Attempts
    <2>2. CallerAt(r, k, "idle") \/ CallerAt(r, k, "converge")
      BY <1>0, <1>4, <2>1
         DEF CallerMoves, DidExecute, DidReadRun, DidLoadOrAwait, DidClaimRun, MayAttempt,
             MayOvertake, DidRelease, DidFault, DidLose, DidMoveOrConfirm,
             CallerAt, CallerKeeps, CallerPasses, CallerReloads, CallerGoes, RelPcs, StoppedPcs
    <2>3. CASE k < b
      BY <1>2, <1>4, <2>2, <2>3 DEF InTurn, CallerAt
    <2>4. CASE b < k /\ CallerAt(r, k, "converge")
      BY <1>2, <1>4, <2>4 DEF InTurn, CallerAt
    <2>5. CASE b < k /\ CallerAt(r, k, "idle")
      <3>1. k - 1 \in Attempts /\ k > 1 /\ (b = k - 1 \/ b < k - 1)
        BY <1>2, <1>4, <2>5, AttemptsAssumption DEF Attempts
      <3>2. caller[r][k - 1].pc \in {"threw", "dead"}
        BY <1>4, <2>5, <3>1, AttemptsInTurn DEF CallerAt
      <3> QED
        BY <1>2, <1>4, <3>1, <3>2 DEF InTurn
    <2>6. k \in Nat /\ b \in Nat
      BY <1>2, <1>4, AttemptsAssumption DEF Attempts
    <2>7. k # b
      BY <1>2, <2>2 DEF CallerAt
    <2> QED
      BY <2>2, <2>3, <2>4, <2>5, <2>6, <2>7
  <1> QED
    BY <1>0, <1>1, <1>3, <1>4 DEF Callers

-----------------------------------------------------------------------------
(* What a step knows of the Lease and of sandboxes.                        *)

\* The index of migration 0001.
LEMMA OneActiveKept ==
    ASSUME StoreTypeOK, RowsStep, OneActive
    PROVE  OneActive'
  <1> USE DEF OneActive, Active, StoreTypeOK
  <1>1. CASE UNCHANGED runRows
    BY <1>1 DEF runRows
  <1>2. ASSUME NEW r \in Runs, InsertQueued(r) PROVE OneActive'
    BY <1>2 DEF InsertQueued, NoActiveRun
  <1>3. ASSUME NEW r \in Runs, Active(r), OnlyRow(r) PROVE OneActive'
    BY <1>3 DEF OnlyRow
  <1>4. ASSUME NEW r \in Runs, CompleteSucceeded(r) \/ SetProcessRef(r) PROVE OneActive'
    BY <1>3, <1>4, OnlyRowMoves
       DEF CompleteSucceeded, SetProcessRef, CanSetProcessRef, ActiveStatuses
  <1>5. ASSUME NEW r \in Runs, NEW from \in Statuses, NEW to \in Statuses, Transition(r, from, to)
        PROVE  OneActive'
    BY <1>3, <1>5, OnlyRowMoves DEF Transition, CanTransition, canTransitionAgentRun
  <1> QED
    BY <1>1, <1>2, <1>4, <1>5 DEF RowsStep

\* Where an owner's sandbox and its record of the Lease come from.
OwnerRefs(r) ==
    /\ mgr'[r].lver \in {mgr[r].lver, 0, lease'.version}
    /\ mgr'[r].lref \in {mgr[r].lref, None, mgr[r].ref}
    /\ \/ mgr'[r].ref \in {mgr[r].ref, mgr[r].lref, None}
       \/ mgr'[r].ref = r /\ CreateSandbox(r)
    /\ UNCHANGED lease \/ lease'.ref = mgr[r].ref

LEMMA OwnerMovesRefs ==
    ASSUME NEW r \in Runs, OwnerMoves(r)
    PROVE  OwnerRefs(r)
  <1> USE DEF OwnerRefs
  <1>1. ASSUME NEW st, NEW proc, Throws(r, st, proc)
        PROVE  mgr'[r].lver = mgr[r].lver /\ mgr'[r].lref = mgr[r].lref /\ mgr'[r].ref = mgr[r].ref
    BY <1>1 DEF Throws
  <1>2. ASSUME NEW newStatus, NEW next, DidLease(r, newStatus, next) PROVE OwnerRefs(r)
    BY <1>1, <1>2 DEF DidLease, Leases, UpdateLeaseForRun, WriteLease, ThrowsAsIs
  <1>3. ASSUME NEW to, NEW next, DidRun(r, to, next) PROVE OwnerRefs(r)
    BY <1>1, <1>3 DEF DidRun, ThrowsAsIs, Goes, Ends
  <1>4. CASE DidStartup(r)
    BY <1>1, <1>2, <1>4
       DEF DidStartup, DidEnsureSandbox, DidRefreshAfterReady, DidConfigureAgent,
         DidSpawnAgent, DidPromptAgent, DidPersistProcessRef, DidMarkRunning,
         Goes, Fresh, Keep, ThrowsAsIs, ThrowsFresh, storeVars
  <1>5. CASE DidEvents(r)
    BY <1>1, <1>3, <1>5
       DEF DidEvents, DidAgentEnds, DidHandleCompletion, DidCatchEventError,
           DidDeadlinePasses, DidRefreshBeforeCancel, Goes, Fresh, Keep, Ends, ThrowsAsIs,
           storeVars
  <1>6. CASE DidTerminate(r)
    BY <1>1, <1>6
       DEF DidTerminate, DidTerminated, Goes, Fresh, Keep, Ends, ThrowsAsIs, ThrowsFresh,
           storeVars
  <1>7. CASE DidFail(r)
    BY <1>1, <1>2, <1>3, <1>7 DEF DidFail, DidDuration, Goes, Fresh, Keep, Ends, ThrowsAsIs,
                                  storeVars
  <1>8. CASE DidComplete(r)
    BY <1>1, <1>2, <1>3, <1>8
       DEF DidComplete, DidDuration, Goes, Fresh, Keep, Ends, ThrowsAsIs, ThrowsFresh, storeVars
  <1>9. CASE DidRefreshFault(r)
    BY <1>1, <1>9 DEF DidRefreshFault, ThrowsAsIs
  <1> QED
    BY <1>4, <1>5, <1>6, <1>7, <1>8, <1>9 DEF OwnerMoves

\* Where a caller's record of the Lease comes from.
CallerRefs(r, k) ==
    /\ caller'[r][k].lver \in {caller[r][k].lver, 0, lease.version}
    /\ caller'[r][k].lref \in {caller[r][k].lref, None, lease.ref}
    /\ UNCHANGED lease \/ lease'.ref \in {None, caller[r][k].lref}

LEMMA CallerMovesRefs ==
    ASSUME NEW r \in Runs, NEW k \in Callers, CallerMoves(r, k)
    PROVE  CallerRefs(r, k)
  <1> USE DEF CallerRefs
  <1>1. ASSUME NEW pc, NEW st, NEW ref, NEW lref, NEW lver, NEW target,
               CallerGoes(r, k, pc, st, ref, lref, lver, target)
        PROVE  caller'[r][k].lver \in {lver, 0} /\ caller'[r][k].lref \in {lref, None}
    BY <1>1 DEF CallerGoes
  <1>2. ASSUME NEW pc, CallerKeeps(r, k, pc)
        PROVE  /\ caller'[r][k].lver \in {caller[r][k].lver, 0}
               /\ caller'[r][k].lref \in {caller[r][k].lref, None}
    BY <1>1, <1>2 DEF CallerKeeps
  <1>3. ASSUME NEW pc, NEW target, CallerReloads(r, k, pc, target)
        PROVE  /\ caller'[r][k].lver \in {caller[r][k].lver, 0}
               /\ caller'[r][k].lref \in {caller[r][k].lref, None}
    BY <1>1, <1>3 DEF CallerReloads
  <1>4. ASSUME NEW pc, CallerPasses(r, k, pc, lease.ref, lease.version)
        PROVE  /\ caller'[r][k].lver \in {lease.version, 0}
               /\ caller'[r][k].lref \in {lease.ref, None}
    BY <1>1, <1>4 DEF CallerPasses
  <1>5. ASSUME NEW to, NEW next, DidMoveOrConfirm(r, k, to, next) PROVE CallerRefs(r, k)
    BY <1>1, <1>2, <1>5 DEF DidMoveOrConfirm
  <1>6. CASE DidRelease(r, k)
    BY <1>2, <1>3, <1>4, <1>5, <1>6 DEF DidRelease, UpdateLeaseForRun, WriteLease
  <1>7. CASE DidExecute(r, k)
    BY <1>2, <1>3, <1>4, <1>5, <1>7
       DEF DidExecute, DidReadRun, DidLoadOrAwait, DidClaimRun, Claim
  <1>8. CASE DidRequestCancel(r, k) \/ DidCancelRun(r, k) \/ DidLose(r, k) \/ DidFault(r, k)
    BY <1>2, <1>3, <1>5, <1>8 DEF DidRequestCancel, DidCancelRun, DidLose, DidFault
  <1> QED
    BY <1>6, <1>7, <1>8 DEF CallerMoves

\* What cleanups and the Provider do.
OthersMove ==
    /\ UNCHANGED <<runRows, mgr, caller>>
    /\ \/ UNCHANGED <<lease, providerVars>>
       \/ NoActiveRun /\ WriteLease("stopped", None) /\ UNCHANGED providerVars
       \/ (\E s \in SandboxRefs : DestroySandbox(s)) /\ UNCHANGED lease
       \/ (\E q \in Runs : KillProcess(q, agentIn[q])) /\ UNCHANGED lease

LEMMA OtherMoves ==
    ASSUME IInv, ReclaimerNext \/ ProviderNext, UNCHANGED <<mgr, serviceVars>>
    PROVE  OthersMove
  <1>1. UNCHANGED <<mgr, caller>>
    BY DEF serviceVars
  <1>2. CASE ReclaimerNext
    <2>1. ASSUME NEW r \in Runs, ReadIdleLease(r) \/ (\E u \in UserStops : ReadLeaseToStop(u))
          PROVE  OthersMove
      BY <1>1, <2>1 DEF ReadIdleLease, ReadLeaseToStop, storeVars, runRows, providerVars,
                        OthersMove
    <2>2. ASSUME NEW u \in UserStops, ReadLeaseToStop(u) PROVE OthersMove
      BY <1>1, <2>2 DEF ReadLeaseToStop, storeVars, runRows, providerVars, OthersMove
    <2>3. ASSUME NEW c \in Reclaims, DetachSandbox(c) PROVE OthersMove
      BY <1>1, <2>3
         DEF DetachSandbox, CanClaim, CanClaimForManualStop, CanClaimIdleForStop, OthersMove
    <2>4. ASSUME NEW c \in Reclaims, StopDetachedSandbox(c) PROVE OthersMove
      <3>1. reclaim[c].lref \in SandboxRefs
        BY DEF IInv, ReclaimTyped, ReclaimRecords
      <3> QED
        BY <1>1, <2>4, <3>1 DEF StopDetachedSandbox, OthersMove
    <2> QED
      BY <1>2, <2>1, <2>2, <2>3, <2>4 DEF ReclaimerNext, ReclaimStep
  <1>3. CASE ProviderNext
    BY <1>1, <1>3 DEF ProviderNext, SandboxExpires, AgentExits, OthersMove, SandboxRefs
  <1> QED
    BY <1>2, <1>3

-----------------------------------------------------------------------------
(* The ground on which the safety of a Run's sandbox stands.               *)

\* What holds whoever overtakes whom.
Ground == RefsKnown /\ VersionsPast /\ StartupAll /\ InTurn /\ NoStartup /\ OneActive

\* The types of what actors remember of the Lease.
LEMMA GroundTypes ==
    ASSUME IInv
    PROVE  /\ StoreTypeOK /\ OwnersSound /\ ServiceTypeOK /\ CallersTyped
           /\ lease.ref \in SandboxRefs /\ lease.version \in Nat
           /\ \A r \in Runs : /\ mgr[r].ref \in SandboxRefs /\ mgr[r].lref \in SandboxRefs
                              /\ mgr[r].lver \in Nat
           /\ \A r \in Runs, k \in Callers : /\ caller[r][k].lref \in SandboxRefs
                                             /\ caller[r][k].lver \in Nat
  <1>1. StoreTypeOK /\ OwnersSound /\ ServiceTypeOK /\ CallersTyped
    BY DEF IInv, ServiceTypeOK
  <1>2. \A r \in Runs : mgr[r] \in ManagedRuns
    BY <1>1, RefreshedTyped
  <1>3. \A r \in Runs, k \in Callers : caller[r][k] \in CallerRecords
    BY <1>1, CallerTyped
  <1> QED
    BY <1>1, <1>2, <1>3 DEF StoreTypeOK, ManagedRuns, CallerRecords

\* The parts of Ground, one lemma for each.
LEMMA KnownStays ==
    ASSUME StoreTypeOK, ProviderStep
    PROVE  \A s \in SandboxRefs :
              (s # None => sandbox[s] # "none") => (s # None => sandbox'[s] # "none")
  BY SandboxesMove DEF SandboxRefs

LEMMA NextRefsKnown ==
    ASSUME IInv, RefsKnown, Next
    PROVE  RefsKnown'
  <1>0. StoreStep /\ RowsStep /\ LeaseStep /\ ProviderStep
    BY NextIsStoreStep DEF StoreStep
  <1>1. AgentsLive'
    BY <1>0, GroundTypes, AgentsStayLive DEF RefsKnown, AgentsLive
  <1>2. \A s \in SandboxRefs :
           (s # None => sandbox[s] # "none") => (s # None => sandbox'[s] # "none")
    BY <1>0, GroundTypes, KnownStays
  <1> DEFINE stays(s) == s \in SandboxRefs /\ (s # None => sandbox[s] # "none")
  <1>3. /\ stays(lease.ref) /\ stays(None)
        /\ \A q \in Runs : stays(mgr[q].ref) /\ stays(mgr[q].lref)
        /\ \A q \in Runs, j \in Callers : stays(caller[q][j].lref)
    BY GroundTypes DEF RefsKnown, Known, SandboxRefs
  <1>4. \A s : stays(s) /\ s # None => sandbox'[s] # "none"
    BY <1>2
  <1> HIDE DEF stays
  <1>5. ASSUME stays(lease'.ref) \/ lease'.ref = lease.ref,
               \A q \in Runs : /\ \/ mgr'[q].ref = q /\ CreateSandbox(q)
                                  \/ stays(mgr'[q].ref)
                               /\ stays(mgr'[q].lref),
               \A q \in Runs, j \in Callers : stays(caller'[q][j].lref)
        PROVE  RefsKnown'
    <2>1. Known(lease.ref)'
      BY <1>3, <1>4, <1>5 DEF Known
    <2>2. \A q \in Runs : CreateSandbox(q) => sandbox'[q] # "none"
      BY GroundTypes DEF CreateSandbox, StoreTypeOK
    <2>3. \A q \in Runs : Known(mgr[q].ref)' /\ Known(mgr[q].lref)'
      BY <1>4, <1>5, <2>2 DEF Known
    <2>4. \A q \in Runs, j \in Callers : Known(caller[q][j].lref)'
      BY <1>4, <1>5 DEF Known
    <2> QED
      BY <1>1, <2>1, <2>3, <2>4 DEF RefsKnown, AgentsLive
  <1>6. ASSUME NEW r \in Runs, DidCreate(r) PROVE RefsKnown'
    BY <1>3, <1>5, <1>6 DEF DidCreate
  <1>7. ASSUME NEW r \in Runs, NEW k \in Callers, CallerMoves(r, k) PROVE RefsKnown'
    <2>1. CallerRefs(r, k) /\ OnlyCaller(r, k)
      BY <1>7, CallerMovesRefs, CallerMovesAlone
    <2>2. \A q \in Runs : stays(mgr'[q].ref) /\ stays(mgr'[q].lref)
      <3>1. CASE UNCHANGED mgr
        BY <1>3, <3>1
      <3>2. CASE Ends(r, "dead")
        BY <1>3, <3>2 DEF Ends, OnlyOwner
      <3>3. CASE k \in Attempts /\ Claim(r, k, caller[r][k].lref, caller[r][k].lver)
        BY <1>3, <3>3, GroundTypes, ClaimMoves DEF OnlyOwner
      <3> QED
        BY <1>7, <3>1, <3>2, <3>3, CallerMovesOwner
    <2>3. stays(lease'.ref) \/ lease'.ref = lease.ref
      BY <1>3, <2>1 DEF CallerRefs
    <2>4. \A q \in Runs, j \in Callers : stays(caller'[q][j].lref)
      BY <1>3, <2>1 DEF CallerRefs, OnlyCaller
    <2> QED
      BY <1>5, <2>2, <2>3, <2>4
  <1>8. ASSUME NEW r \in Runs, OwnerMoves(r), UNCHANGED serviceVars PROVE RefsKnown'
    <2>1. OwnerRefs(r) /\ OnlyOwner(r) /\ UNCHANGED caller
      BY <1>8, OwnerMovesRefs, OwnerMovesAlone DEF serviceVars
    <2>2. \A q \in Runs : /\ \/ mgr'[q].ref = q /\ CreateSandbox(q)
                             \/ stays(mgr'[q].ref)
                          /\ stays(mgr'[q].lref)
      BY <1>3, <2>1 DEF OwnerRefs, OnlyOwner
    <2> QED
      BY <1>3, <1>5, <2>1, <2>2 DEF OwnerRefs
  <1>9. CASE OthersMove
    BY <1>3, <1>5, <1>9 DEF OthersMove, WriteLease
  <1> QED
    BY <1>6, <1>7, <1>8, <1>9, ServiceNextMoves, OtherMoves DEF Next, ServiceMoves

LEMMA NextVersionsPast ==
    ASSUME IInv, VersionsPast, Next
    PROVE  VersionsPast'
  <1>0. LeaseStep
    BY NextIsStoreStep DEF StoreStep
  <1>1. lease'.version \in Nat /\ lease.version \in Nat /\ lease'.version >= lease.version
    BY <1>0, GroundTypes, VersionsGrow
  <1>2. /\ \A r \in Runs : mgr[r].lver \in Nat /\ mgr[r].lver <= lease'.version
        /\ \A r \in Runs, k \in Callers :
              caller[r][k].lver \in Nat /\ caller[r][k].lver <= lease'.version
    BY <1>1, GroundTypes DEF VersionsPast
  <1>3. ASSUME NEW r \in Runs, DidCreate(r) PROVE VersionsPast'
    BY <1>2, <1>3 DEF DidCreate, VersionsPast
  <1>4. ASSUME NEW r \in Runs, NEW k \in Callers, CallerMoves(r, k) PROVE VersionsPast'
    <2>1. CallerRefs(r, k) /\ OnlyCaller(r, k)
      BY <1>4, CallerMovesRefs, CallerMovesAlone
    <2>2. \A q \in Runs : mgr'[q].lver <= lease'.version
      <3>1. CASE UNCHANGED mgr
        BY <1>2, <3>1
      <3>2. CASE Ends(r, "dead")
        BY <1>1, <1>2, <3>2 DEF Ends, OnlyOwner
      <3>3. CASE k \in Attempts /\ Claim(r, k, caller[r][k].lref, caller[r][k].lver)
        BY <1>2, <3>3, GroundTypes, ClaimMoves DEF OnlyOwner
      <3> QED
        BY <1>4, <3>1, <3>2, <3>3, CallerMovesOwner
    <2>3. \A q \in Runs, j \in Callers : caller'[q][j].lver <= lease'.version
      BY <1>1, <1>2, <2>1 DEF CallerRefs, OnlyCaller
    <2> QED
      BY <2>2, <2>3 DEF VersionsPast
  <1>5. ASSUME NEW r \in Runs, OwnerMoves(r), UNCHANGED serviceVars PROVE VersionsPast'
    <2>1. OwnerRefs(r) /\ OnlyOwner(r) /\ UNCHANGED caller
      BY <1>5, OwnerMovesRefs, OwnerMovesAlone DEF serviceVars
    <2>2. \A q \in Runs : mgr'[q].lver <= lease'.version
      BY <1>1, <1>2, <2>1 DEF OwnerRefs, OnlyOwner
    <2> QED
      BY <1>2, <2>1, <2>2 DEF VersionsPast
  <1>6. CASE OthersMove
    BY <1>2, <1>6 DEF OthersMove, VersionsPast
  <1> QED
    BY <1>3, <1>4, <1>5, <1>6, ServiceNextMoves, OtherMoves DEF Next, ServiceMoves

LEMMA NextStartup ==
    ASSUME IInv, Legal, StartupAll, InTurn, NoStartup, Next
    PROVE  StartupAll' /\ InTurn' /\ NoStartup'
  <1>0. StoreTypeOK /\ OwnersSound /\ CallersTyped /\ RowsStep /\ FaultStep
    BY GroundTypes, NextIsStoreStep DEF StoreStep
  <1>1. ASSUME UNCHANGED <<mgr, caller>>,
               \A q \in Runs : status[q] # "running"
                                 => mgr[q].pc \notin StartupPcs \/ status'[q] # "running"
        PROVE  StartupAll' /\ InTurn' /\ NoStartup'
    BY <1>0, <1>1, OrderlyBefore DEF StartupAll, StartupOwner, InTurn, NoStartup, Beside
  <1>2. ASSUME NEW r \in Runs, DidCreate(r) PROVE StartupAll' /\ InTurn' /\ NoStartup'
    BY <1>0, <1>1, <1>2 DEF DidCreate, InsertQueued, Transition, StoreTypeOK, runRows
  <1>3. ASSUME NEW r \in Runs, NEW k \in Callers, CallerMoves(r, k)
        PROVE  StartupAll' /\ InTurn' /\ NoStartup'
    <2>0. OnlyCaller(r, k) /\ OnlyRow(r)
      BY <1>0, <1>3, CallerMovesAlone, CallerMovesRow
    <2>1. OnlyOwner(r)
      BY <1>0, <1>3, GroundTypes, CallerMovesOwner, ClaimMoves DEF Ends, OnlyOwner
    <2>2. InTurn'
      BY <1>0, <1>3, CallerMovesInTurn
    <2>3. StartupOwner(r)'
      BY <1>0, <1>3, StartupCallerMoves DEF StartupAll
    <2>4. \A q \in Runs \ {r} : StartupOwner(q)'
      <3> SUFFICES ASSUME NEW q \in Runs \ {r}, mgr'[q].pc \in StartupPcs PROVE StartupOwner(q)'
        BY DEF StartupOwner
      <3>1. mgr'[q] = mgr[q] /\ status'[q] = status[q] /\ StartupOwner(q)
        BY <2>0, <2>1 DEF OnlyOwner, OnlyRow, StartupAll
      <3>2. mgr[q].by \in Callers
        BY <3>1 DEF StartupOwner, Callers
      <3>3. caller'[q][mgr[q].by] = caller[q][mgr[q].by]
        BY <2>0, <3>2 DEF OnlyCaller
      <3> QED
        BY <3>1, <3>3 DEF StartupOwner
    <2>5. NoStartup'
      <3> SUFFICES ASSUME NEW q \in Runs, NEW j \in Callers, Beside(q, j)',
                          mgr'[q].pc \in StartupPcs
                   PROVE  FALSE
        BY DEF NoStartup
      <3>1. CASE q # r
        BY <1>0, <2>0, <2>1, <3>1, OrderlyBefore DEF OnlyCaller, OnlyOwner, NoStartup, Beside
      <3>2. CASE q = r /\ UNCHANGED mgr /\ j # k
        BY <1>0, <2>0, <3>2, OrderlyBefore DEF OnlyCaller, NoStartup, Beside
      <3>3. CASE q = r /\ UNCHANGED mgr /\ j = k
        BY <1>0, <1>3, <3>3, ReleaseBesideStartup DEF StartupAll
      <3>4. CASE q = r /\ Ends(r, "dead")
        BY <3>4 DEF Ends, StartupPcs
      <3>5. CASE /\ q = r /\ CallerKeeps(r, k, "wait")
                 /\ Claim(r, k, caller[r][k].lref, caller[r][k].lver)
        <4>1. status[r] = "queued"
          BY <3>5 DEF Claim, Transition, CanTransition
        <4>2. CASE j = k
          BY <3>5, <4>2 DEF CallerKeeps, CallerGoes, Beside, RelPcs
        <4>3. CASE j # k
          <5>1. caller[r][j].pc \in RelPcs
            BY <2>0, <3>5, <4>3 DEF OnlyCaller, Beside
          <5> QED
            BY <4>1, <5>1 DEF Legal, CallerLegal
        <4> QED
          BY <4>2, <4>3
      <3> QED
        BY <1>3, <3>1, <3>2, <3>3, <3>4, <3>5, CallerMovesOwner
    <2> QED
      BY <2>2, <2>3, <2>4, <2>5 DEF StartupAll
  <1>4. ASSUME NEW r \in Runs, OwnerMoves(r), UNCHANGED serviceVars
        PROVE  StartupAll' /\ InTurn' /\ NoStartup'
    <2>1. OnlyOwner(r) /\ OnlyRow(r) /\ UNCHANGED caller
      BY <1>0, <1>4, OwnerMovesAlone, OwnerMovesRow DEF serviceVars
    <2>2. StartupOwner(r)' /\ (mgr'[r].pc \in StartupPcs => mgr[r].pc \in StartupPcs)
      BY <1>0, <1>4, <2>1, StartupOwnerMoves DEF StartupAll
    <2>3. \A q \in Runs \ {r} : StartupOwner(q)'
      BY <2>1 DEF OnlyOwner, OnlyRow, StartupAll, StartupOwner
    <2>4. NoStartup' /\ InTurn'
      BY <1>0, <2>1, <2>2, OrderlyBefore DEF OnlyOwner, NoStartup, Beside, InTurn
    <2> QED
      BY <2>2, <2>3, <2>4 DEF StartupAll
  <1>5. CASE OthersMove
    BY <1>1, <1>5 DEF OthersMove, runRows
  <1> QED
    BY <1>2, <1>3, <1>4, <1>5, ServiceNextMoves, OtherMoves DEF Next, ServiceMoves

LEMMA NextGround ==
    ASSUME IInv, Legal, Ground, Next
    PROVE  Ground'
  <1>1. StoreTypeOK /\ RowsStep
    BY GroundTypes, NextIsStoreStep DEF StoreStep
  <1> QED
    BY <1>1, OneActiveKept, NextRefsKnown, NextVersionsPast, NextStartup DEF Ground

LEMMA InitGround == Init => Ground
  <1> SUFFICES ASSUME Init PROVE Ground
    OBVIOUS
  <1>1. Attempts \subseteq Callers
    BY DEF Callers
  <1> QED
    BY <1>1 DEF Init, CoordinatorInit, ServiceInit, StoreInit, NoManagedRun, NoCaller, Ground,
                RefsKnown, Known, VersionsPast, StartupAll, StartupOwner, StartupPcs, InTurn,
                NoStartup, Beside, RelPcs, OneActive, Active, ActiveStatuses

-----------------------------------------------------------------------------
(* The sandbox and the agent of a Run.                                     *)

\* Either two writes of the Lease always differ in updated_at, or no attempt overlaps the next.
OverlapShows == 0 \notin Ticks \/ ~StepTimeout

\* The owner's side.
ReleasedBeforeEnd(r) ==
    mgr[r].pc \in {"completeDuration", "completeCommit", "succeed", "failCommit"} /\ Active(r)
        => ~InUse

\* Its agent is started by spawn, and by nothing else.
NoAgentYet(r) == mgr[r].pc \in {"none"} \cup PreSpawnPcs => agentIn[r] = None

\* While the owner has no doubt of it, its agent lives in the sandbox it took.
AgentHeld(r) ==
    /\ mgr[r].pc \notin FinishedPcs /\ agentIn[r] # None
         => agentIn[r] = mgr[r].ref /\ mgr[r].proc \in {"attempted", "held"}
    /\ mgr[r].pc = "spawn" => mgr[r].proc = "attempted"

\* The agent has ended when the owner gives up the Lease.
AgentEnded(r) == mgr[r].pc \in FailPcs \cup CompletePcs \cup {"exited"} => agentIn[r] = None

\* Before the reference is saved nobody can have read it.
NoRefYet(r) ==
    mgr[r].pc \in {"none", "prompt", "persist"} \cup PreSpawnPcs =>
        ~processRef[r] /\ \A k \in Callers : ~caller[r][k].ref

\* The Lease names the sandbox in which the agent is started.
SpawnsInLease(r) ==
    mgr[r].pc \in {"afterReady", "configure", "spawn"} /\ IsLive(mgr[r].ref) =>
        Active(r) /\ lease.ref = mgr[r].ref /\ lease.status = "ready"

\* Everybody's view of the agent.
AgentOfStarted(r) == agentIn[r] # None => status[r] \in Started

\* The agent of a Run lives in the sandbox that the Lease names.
AgentInLease(r) ==
    agentIn[r] # None => lease.ref = agentIn[r] /\ lease.status \in {"ready", "busy"}

\* A caller's side: what it has stopped when it gives the Lease back and ends the Run.
StoppedFirst(r, k) ==
    LET c == caller[r][k] IN
    /\ c.pc = "giveUp" => c.st = "queued"
    /\ c.pc \in {"recheck", "stop"} => ~c.ref
    /\ c.pc = "kill" => c.ref /\ agentIn[r] \in {None, c.lref}
    /\ c.pc = "release" /\ ~c.ref => c.lref = None \/ sandbox[c.lref] = "gone"
    /\ c.pc = "release" /\ c.ref => agentIn[r] = None
    /\ c.pc \in {"reload", "finish"} /\ Active(r) =>
         /\ ~InUse /\ agentIn[r] = None
         /\ mgr[r].pc \in StartupPcs => mgr[r].lver < lease.version
         /\ mgr[r].pc \in {"afterReady", "configure", "spawn"} => ~IsLive(mgr[r].ref)

\* The owner's part, and with the callers' all that is safe about a Run.
OwnSafe(r) ==
    /\ ReleasedBeforeEnd(r) /\ NoAgentYet(r) /\ AgentHeld(r) /\ AgentEnded(r)
    /\ NoRefYet(r) /\ SpawnsInLease(r)

RunSafe(r) ==
    /\ OwnSafe(r) /\ AgentOfStarted(r) /\ AgentInLease(r)
    /\ \A k \in Callers : StoppedFirst(r, k)

\* A Lease in use is in use by a Run.
InUseByStarted == InUse => \E r \in Runs : status[r] \in Started

Safe == InUseByStarted /\ \A r \in Runs : RunSafe(r)

\* What another actor's step may do to a Run.
Stays(q) ==
    /\ mgr'[q] = mgr[q] /\ status'[q] = status[q] /\ processRef'[q] = processRef[q]
    /\ \A k \in Callers : caller'[q][k] = caller[q][k]
    /\ agentIn'[q] \in {agentIn[q], None}
    /\ Active(q) => UNCHANGED lease

LEMMA StartedActive ==
    \A q \in Runs : /\ status[q] \in Started => Active(q)
                    /\ Active(q) /\ status[q] \notin {"absent", "queued"} => status[q] \in Started
                    /\ Active(q)' <=> status'[q] \in ActiveStatuses
  BY DEF Started, Active, ActiveStatuses

\* No step brings a sandbox that somebody knows back to life.
LEMMA NoRevival ==
    ASSUME StoreTypeOK, ProviderStep
    PROVE  /\ \A s \in SandboxRefs : Known(s) /\ IsLive(s)' => IsLive(s)
           /\ \A s \in Runs : sandbox[s] = "gone" => sandbox'[s] = "gone"
  BY SandboxesMove DEF SandboxRefs, Known, IsLive, StoreTypeOK

\* A Run to which a step does nothing stays safe.
LEMMA StaysSafe ==
    ASSUME IInv, Legal, RefsKnown, ProviderStep, NEW q \in Runs, RunSafe(q), Stays(q)
    PROVE  RunSafe(q)'
  <1>0. /\ \A s \in SandboxRefs : Known(s) /\ IsLive(s)' => IsLive(s)
        /\ \A s \in Runs : sandbox[s] = "gone" => sandbox'[s] = "gone"
    BY GroundTypes, NoRevival
  <1>1. IsLive(mgr[q].ref)' => IsLive(mgr[q].ref)
    <2>1. mgr[q].ref \in SandboxRefs /\ Known(mgr[q].ref) /\ mgr'[q].ref = mgr[q].ref
      BY GroundTypes DEF RefsKnown, Stays
    <2> QED
      BY <1>0, <2>1 DEF IsLive
  <1>2. Active(q)' <=> Active(q)
    BY DEF Active, Stays
  <1>3. OwnSafe(q)'
    BY <1>1, <1>2 DEF OwnSafe, RunSafe, Stays, ReleasedBeforeEnd, NoAgentYet, AgentHeld,
                      AgentEnded, NoRefYet, SpawnsInLease, InUse
  <1>4. AgentOfStarted(q)'
    BY DEF RunSafe, Stays, AgentOfStarted
  <1>5. AgentInLease(q)'
    BY StartedActive DEF RunSafe, Stays, AgentInLease, AgentOfStarted
  <1>6. ASSUME NEW k \in Callers PROVE StoppedFirst(q, k)'
    <2>1. caller'[q][k] = caller[q][k] /\ caller[q][k].lref \in SandboxRefs /\ StoppedFirst(q, k)
      BY GroundTypes DEF Stays, RunSafe
    <2>2. caller[q][k].lref # None /\ sandbox[caller[q][k].lref] = "gone"
            => sandbox'[caller[q][k].lref] = "gone"
      BY <1>0, <2>1 DEF SandboxRefs
    <2> QED
      BY <1>1, <1>2, <2>1, <2>2 DEF StoppedFirst, Stays, InUse
  <1> QED
    BY <1>3, <1>4, <1>5, <1>6 DEF RunSafe

-----------------------------------------------------------------------------
(* The owner's own steps keep its Run safe.                                *)

\* What an owner's step does to its agent and to the Lease.
OwnerAgent(r) ==
    \/ agentIn'[r] \in {agentIn[r], None}
    \/ /\ mgr[r].pc = "spawn" /\ IsLive(mgr[r].ref) /\ agentIn'[r] = mgr[r].ref
       /\ mgr'[r].pc \notin StartupPcs \/ mgr'[r].pc = "prompt"
       /\ UNCHANGED lease /\ status'[r] = status[r]

\* A write of the Lease by its owner is the start-up's, or gives it back.
OwnerLease(r) ==
    \/ UNCHANGED lease
    \/ /\ Active(r) /\ mgr[r].lver = lease.version
       /\ lease'.ref = mgr[r].ref
       /\ \/ mgr[r].pc = "markStarting" /\ mgr'[r].pc \notin {"afterReady", "configure", "spawn"}
          \/ mgr[r].pc = "markReady" /\ lease'.status = "ready"
          \/ /\ mgr[r].pc = "markBusy" /\ lease'.status = "busy"
             /\ mgr'[r].pc \notin {"afterReady", "configure", "spawn"}
          \/ /\ mgr[r].pc \in {"failLease", "completeLease"}
             /\ lease'.status \in {"idle", "stopped", "failed"}
             /\ mgr'[r].pc \notin StartupPcs
       /\ UNCHANGED <<runRows, providerVars>>

LEMMA OwnerMovesAgent ==
    ASSUME StoreTypeOK, NEW r \in Runs, OwnerMoves(r)
    PROVE  OwnerAgent(r)
  <1> USE DEF OwnerAgent
  <1>1. /\ \A s \in SandboxRefs : DestroySandbox(s) => agentIn'[r] \in {agentIn[r], None}
        /\ \A s : KillProcess(r, s) => agentIn'[r] \in {agentIn[r], None}
        /\ UNCHANGED providerVars => agentIn'[r] = agentIn[r]
        /\ UNCHANGED storeVars => agentIn'[r] = agentIn[r]
        /\ CreateSandbox(r) => agentIn'[r] = agentIn[r]
    BY DEF DestroySandbox, KillProcess, CreateSandbox, StoreTypeOK, storeVars, providerVars
  <1>2. CASE DidSpawnAgent(r)
    BY <1>1, <1>2 DEF DidSpawnAgent, StartProcess, Keep, Goes, ThrowsAsIs, Throws, At,
                      StoreTypeOK, runRows, StartupPcs
  <1>3. CASE DidStartup(r) /\ ~DidSpawnAgent(r)
    BY <1>1, <1>3
       DEF DidStartup, DidEnsureSandbox, DidRefreshAfterReady, DidConfigureAgent,
           DidPromptAgent, DidPersistProcessRef, DidMarkRunning, DidLease, DidRun
  <1>4. CASE DidEvents(r)
    BY <1>1, <1>4
       DEF DidEvents, DidAgentEnds, DidHandleCompletion, DidCatchEventError,
           DidDeadlinePasses, DidRefreshBeforeCancel, DidRun
  <1>5. CASE DidTerminate(r)
    <2>1. DestroySandbox(mgr[r].ref) => agentIn'[r] \in {agentIn[r], None}
      BY DEF DestroySandbox, StoreTypeOK
    <2> QED
      BY <1>1, <1>5, <2>1 DEF DidTerminate
  <1>6. CASE DidFail(r) \/ DidComplete(r) \/ DidRefreshFault(r)
    BY <1>1, <1>6 DEF DidFail, DidComplete, DidDuration, DidRefreshFault, DidLease, DidRun
  <1> QED
    BY <1>2, <1>3, <1>4, <1>5, <1>6 DEF OwnerMoves

LEMMA OwnerMovesOtherAgents ==
    ASSUME StoreTypeOK, NEW r \in Runs, OwnerMoves(r), NEW q \in Runs, q # r
    PROVE  agentIn'[q] \in {agentIn[q], None}
  <1>1. /\ DestroySandbox(mgr[r].ref) => agentIn'[q] \in {agentIn[q], None}
        /\ \A s : KillProcess(r, s) => agentIn'[q] \in {agentIn[q], None}
        /\ \A s : StartProcess(r, s) => agentIn'[q] = agentIn[q]
        /\ UNCHANGED providerVars => agentIn'[q] = agentIn[q]
        /\ UNCHANGED storeVars => agentIn'[q] = agentIn[q]
        /\ CreateSandbox(r) => agentIn'[q] = agentIn[q]
    BY DEF DestroySandbox, KillProcess, StartProcess, CreateSandbox, StoreTypeOK, storeVars,
           providerVars
  <1>2. CASE DidStartup(r)
    BY <1>1, <1>2
       DEF DidStartup, DidEnsureSandbox, DidRefreshAfterReady, DidConfigureAgent, DidSpawnAgent,
           DidPromptAgent, DidPersistProcessRef, DidMarkRunning, DidLease, DidRun
  <1>3. CASE DidEvents(r)
    BY <1>1, <1>3
       DEF DidEvents, DidAgentEnds, DidHandleCompletion, DidCatchEventError,
           DidDeadlinePasses, DidRefreshBeforeCancel, DidRun
  <1>4. CASE DidTerminate(r)
    BY <1>1, <1>4 DEF DidTerminate
  <1>5. CASE DidFail(r) \/ DidComplete(r) \/ DidRefreshFault(r)
    BY <1>1, <1>5 DEF DidFail, DidComplete, DidDuration, DidRefreshFault, DidLease, DidRun
  <1> QED
    BY <1>2, <1>3, <1>4, <1>5 DEF OwnerMoves

LEMMA OwnerMovesLease ==
    ASSUME NEW r \in Runs, OwnerMoves(r)
    PROVE  OwnerLease(r)
  <1> USE DEF OwnerLease
  <1>1. ASSUME NEW newStatus, NEW next, DidLease(r, newStatus, next)
        PROVE  \/ UNCHANGED lease
               \/ /\ Active(r) /\ mgr[r].lver = lease.version
                  /\ lease'.ref = mgr[r].ref /\ lease'.status = newStatus
                  /\ mgr'[r].pc = next \/ mgr'[r].pc \notin StartupPcs
                  /\ UNCHANGED <<runRows, providerVars>>
    BY <1>1 DEF DidLease, Leases, UpdateLeaseForRun, OwnsLease, WriteLease, ThrowsAsIs, Throws,
                StartupPcs
  <1>2. UNCHANGED storeVars => UNCHANGED lease
    BY DEF storeVars
  <1>3. CASE At(r, "markStarting") /\ DidLease(r, "starting", "ensure")
    BY <1>1, <1>3 DEF At, StartupPcs
  <1>4. CASE At(r, "markReady") /\ DidLease(r, "ready", "afterReady")
    BY <1>1, <1>4 DEF At, StartupPcs
  <1>5. CASE At(r, "markBusy") /\ DidLease(r, "busy", "markRunning")
    BY <1>1, <1>5 DEF At, StartupPcs
  <1>6. CASE /\ At(r, "failLease")
             /\ DidLease(r, IF mgr[r].ref = None THEN "stopped" ELSE "failed", "failCommit")
    BY <1>1, <1>6 DEF At, StartupPcs
  <1>7. CASE /\ At(r, "completeLease")
             /\ DidLease(r, IF mgr[r].ref = None THEN "stopped" ELSE "idle",
                         IF mgr[r].goal = "succeeded" THEN "succeed" ELSE "completeDuration")
    BY <1>1, <1>7 DEF At, StartupPcs
  <1>8. CASE UNCHANGED lease
    BY <1>8
  <1> QED
    BY <1>2, <1>3, <1>4, <1>5, <1>6, <1>7, <1>8
       DEF OwnerMoves, DidStartup, DidEnsureSandbox, DidRefreshAfterReady, DidConfigureAgent,
           DidSpawnAgent, DidPromptAgent, DidPersistProcessRef, DidMarkRunning, DidEvents,
           DidAgentEnds, DidHandleCompletion, DidCatchEventError, DidDeadlinePasses,
           DidRefreshBeforeCancel, DidTerminate, DidFail, DidDuration, DidComplete,
           DidRefreshFault, DidRun

\* The steps of a start-up, and all others.
LEMMA StartupOwnerSafe ==
    ASSUME IInv, Legal, Ground, NEW r \in Runs, RunSafe(r), DidStartup(r), UNCHANGED caller
    PROVE  OwnSafe(r)'
  <1>0. /\ StoreTypeOK /\ agentIn \in [Runs -> SandboxRefs]
        /\ mgr[r].pc \in StartupPcs
    BY GroundTypes
       DEF StoreTypeOK, DidStartup, DidEnsureSandbox, DidRefreshAfterReady, DidConfigureAgent,
           DidSpawnAgent, DidPromptAgent, DidPersistProcessRef, DidMarkRunning, At, StartupPcs
  <1>1. OwnSafe(r) /\ \A k \in Callers : caller'[r][k] = caller[r][k]
    BY DEF RunSafe
  <1>2. ASSUME NEW st, NEW proc, Throws(r, st, proc), mgr[r].pc \in StartupPcs,
               proc = mgr[r].proc,
               agentIn'[r] = agentIn[r] \/ (agentIn'[r] = mgr[r].ref /\ mgr[r].pc = "spawn")
        PROVE  OwnSafe(r)'
    <2>1. mgr'[r].pc \in {"terminate", "catch", "consume", "rejected"} /\ mgr'[r].ref = mgr[r].ref
          /\ mgr'[r].proc = mgr[r].proc
      BY <1>2 DEF Throws
    <2>2. mgr[r].pc \notin FinishedPcs
      BY <1>2 DEF StartupPcs, FinishedPcs
    <2> QED
      BY <1>1, <1>2, <2>1, <2>2
         DEF OwnSafe, ReleasedBeforeEnd, NoAgentYet, AgentHeld, AgentEnded, NoRefYet,
             SpawnsInLease, PreSpawnPcs, FailPcs, CompletePcs
  <1>3. /\ UNCHANGED providerVars => agentIn'[r] = agentIn[r]
        /\ UNCHANGED runRows => processRef'[r] = processRef[r] /\ status'[r] = status[r]
        /\ CreateSandbox(r) => agentIn'[r] = agentIn[r]
        /\ UNCHANGED storeVars => UNCHANGED <<lease, status, processRef, sandbox, agentIn>>
    BY DEF providerVars, runRows, CreateSandbox, storeVars
  <1>4. ASSUME NEW newStatus, NEW next, DidLease(r, newStatus, next), mgr[r].pc \in StartupPcs,
               mgr[r].pc # "spawn",
               \/ next = "ensure" /\ mgr[r].pc = "markStarting"
               \/ next = "afterReady" /\ newStatus = "ready" /\ mgr[r].pc = "markReady"
               \/ next = "markRunning" /\ mgr[r].pc = "markBusy"
        PROVE  OwnSafe(r)'
    <2>1. CASE ThrowsAsIs(r)
      BY <1>2, <1>3, <1>4, <2>1 DEF DidLease, ThrowsAsIs
    <2>2. CASE ~ThrowsAsIs(r)
      <3>1. /\ mgr'[r].pc = next /\ mgr'[r].ref = mgr[r].ref /\ mgr'[r].proc = mgr[r].proc
            /\ lease'.status = newStatus /\ lease'.ref = mgr[r].ref /\ Active(r)
            /\ UNCHANGED <<status, processRef, sandbox, agentIn>>
        BY <1>4, <2>2 DEF DidLease, Leases, UpdateLeaseForRun, OwnsLease, WriteLease, runRows,
                          providerVars
      <3> QED
        BY <1>1, <1>4, <3>1
           DEF OwnSafe, ReleasedBeforeEnd, NoAgentYet, AgentHeld, AgentEnded, NoRefYet,
               SpawnsInLease, PreSpawnPcs, FailPcs, CompletePcs, FinishedPcs, Active, IsLive
    <2> QED
      BY <2>1, <2>2
  <1>5. CASE \/ At(r, "markStarting") /\ DidLease(r, "starting", "ensure")
             \/ At(r, "markReady") /\ DidLease(r, "ready", "afterReady")
             \/ At(r, "markBusy") /\ DidLease(r, "busy", "markRunning")
    BY <1>4, <1>5 DEF At, StartupPcs
  <1>6. CASE DidEnsureSandbox(r)
    <2>1. CASE ThrowsAsIs(r)
      BY <1>0, <1>2, <1>3, <1>6, <2>1 DEF DidEnsureSandbox, ThrowsAsIs
    <2>2. CASE ~ThrowsAsIs(r)
      <3>1. mgr'[r].pc = "markReady" /\ agentIn'[r] = agentIn[r] /\ mgr[r].pc = "ensure"
            /\ UNCHANGED <<processRef, lease>>
        BY <1>3, <1>6, <2>2 DEF DidEnsureSandbox, Goes, At, runRows
      <3> QED
        BY <1>1, <3>1
           DEF OwnSafe, ReleasedBeforeEnd, NoAgentYet, AgentHeld, AgentEnded, NoRefYet,
               SpawnsInLease, PreSpawnPcs, FailPcs, CompletePcs, FinishedPcs
    <2> QED
      BY <2>1, <2>2
  <1>7. CASE DidRefreshAfterReady(r)
    <2>1. CASE ThrowsFresh(r)
      BY <1>0, <1>2, <1>3, <1>7, <2>1 DEF DidRefreshAfterReady, ThrowsFresh
    <2>2. CASE ~ThrowsFresh(r)
      <3>1. /\ mgr'[r].pc \in {"completeLease", "configure"} /\ mgr'[r].ref = mgr[r].ref
            /\ mgr[r].pc = "afterReady"
            /\ UNCHANGED <<lease, status, processRef, sandbox, agentIn>>
        BY <1>3, <1>7, <2>2 DEF DidRefreshAfterReady, Fresh, Goes, At
      <3> QED
        BY <1>1, <3>1
           DEF OwnSafe, ReleasedBeforeEnd, NoAgentYet, AgentHeld, AgentEnded, NoRefYet,
               SpawnsInLease, PreSpawnPcs, FailPcs, CompletePcs, FinishedPcs, Active, IsLive
    <2> QED
      BY <2>1, <2>2
  <1>8. CASE DidConfigureAgent(r)
    <2>1. CASE ThrowsFresh(r) \/ ThrowsAsIs(r)
      BY <1>0, <1>2, <1>3, <1>8, <2>1 DEF DidConfigureAgent, ThrowsFresh, ThrowsAsIs
    <2>2. CASE ~ThrowsFresh(r) /\ ~ThrowsAsIs(r)
      <3>1. /\ mgr'[r].pc = "spawn" /\ mgr'[r].ref = mgr[r].ref /\ mgr'[r].proc = "attempted"
            /\ mgr[r].pc = "configure"
            /\ UNCHANGED <<lease, status, processRef, sandbox, agentIn>>
        BY <1>3, <1>8, <2>2 DEF DidConfigureAgent, Fresh, Goes, At, runRows, providerVars
      <3> QED
        BY <1>1, <3>1
           DEF OwnSafe, ReleasedBeforeEnd, NoAgentYet, AgentHeld, AgentEnded, NoRefYet,
               SpawnsInLease, PreSpawnPcs, FailPcs, CompletePcs, FinishedPcs, Active, IsLive
    <2> QED
      BY <2>1, <2>2
  <1>9. CASE DidSpawnAgent(r)
    <2>0. /\ mgr[r].pc = "spawn" /\ agentIn[r] = None
          /\ StartProcess(r, mgr[r].ref) => agentIn'[r] = mgr[r].ref
          /\ processRef'[r] = processRef[r]
      BY <1>0, <1>1, <1>3, <1>9 DEF DidSpawnAgent, At, OwnSafe, NoAgentYet, PreSpawnPcs,
                                    StartProcess
    <2>1. CASE ThrowsAsIs(r)
      BY <1>0, <1>2, <1>3, <1>9, <2>0, <2>1 DEF DidSpawnAgent, ThrowsAsIs
    <2>2. CASE ~ThrowsAsIs(r)
      <3>1. /\ mgr'[r].pc = "prompt" /\ mgr'[r].ref = mgr[r].ref /\ mgr'[r].proc = "held"
            /\ agentIn'[r] = mgr[r].ref
        BY <1>9, <2>0, <2>2 DEF DidSpawnAgent, Keep, Goes
      <3> QED
        BY <1>1, <2>0, <3>1
           DEF OwnSafe, ReleasedBeforeEnd, NoAgentYet, AgentHeld, AgentEnded, NoRefYet,
               SpawnsInLease, PreSpawnPcs, FailPcs, CompletePcs, FinishedPcs
    <2> QED
      BY <2>1, <2>2
  <1>10. CASE DidPromptAgent(r) \/ DidPersistProcessRef(r) \/ DidMarkRunning(r)
    <2>0. mgr[r].pc \in {"prompt", "persist", "markRunning"} /\ agentIn'[r] = agentIn[r]
      BY <1>3, <1>10 DEF DidPromptAgent, DidPersistProcessRef, DidMarkRunning, At
    <2>1. CASE ThrowsAsIs(r)
      BY <1>0, <1>2, <2>0, <2>1 DEF ThrowsAsIs
    <2>2. CASE ~ThrowsAsIs(r)
      <3>1. /\ mgr'[r].ref = mgr[r].ref /\ mgr'[r].proc = mgr[r].proc
            /\ \/ mgr[r].pc = "prompt" /\ mgr'[r].pc = "persist" /\ processRef'[r] = processRef[r]
               \/ mgr'[r].pc \in {"terminate", "markBusy", "consume"}
        BY <1>3, <1>10, <2>2
           DEF DidPromptAgent, DidPersistProcessRef, DidMarkRunning, Keep, Fresh, Goes, At
      <3> QED
        BY <1>1, <2>0, <3>1
           DEF OwnSafe, ReleasedBeforeEnd, NoAgentYet, AgentHeld, AgentEnded, NoRefYet,
               SpawnsInLease, PreSpawnPcs, FailPcs, CompletePcs, FinishedPcs
    <2> QED
      BY <2>1, <2>2
  <1> QED
    BY <1>5, <1>6, <1>7, <1>8, <1>9, <1>10 DEF DidStartup

LEMMA LaterOwnerSafe ==
    ASSUME IInv, Legal, Ground, NEW r \in Runs, RunSafe(r), OwnerMoves(r), ~DidStartup(r)
    PROVE  OwnSafe(r)'
  <1>0. /\ StoreTypeOK /\ agentIn \in [Runs -> SandboxRefs] /\ mgr[r].ref \in SandboxRefs
        /\ \A q \in Runs : agentIn[q] \in SandboxRefs
    BY GroundTypes DEF StoreTypeOK
  <1>1. /\ ReleasedBeforeEnd(r) /\ AgentHeld(r) /\ AgentEnded(r)
        /\ Terminal(r) => agentIn[r] = None
    BY DEF RunSafe, OwnSafe, AgentOfStarted, Terminal, isTerminalAgentRun, TerminalStatuses,
           Started
  <1>2. mgr'[r].pc \notin StartupPcs \cup {"none"}
    BY LaterOwnerMoves
  <1>3. NoAgentYet(r)' /\ NoRefYet(r)' /\ SpawnsInLease(r)'
    BY <1>2 DEF NoAgentYet, NoRefYet, SpawnsInLease, PreSpawnPcs, StartupPcs
  <1>4. agentIn'[r] \in {agentIn[r], None} \/ mgr[r].pc = "spawn"
    BY <1>0, OwnerMovesAgent DEF OwnerAgent
  <1>5. (mgr'[r].pc \notin FinishedPcs /\ agentIn'[r] # None
           => agentIn'[r] = mgr'[r].ref /\ mgr'[r].proc \in {"attempted", "held"})
        => AgentHeld(r)'
    BY <1>2 DEF AgentHeld, StartupPcs
  <1>6. ASSUME NEW st, NEW proc, Throws(r, st, proc), mgr[r].pc \notin FinishedPcs,
               \/ proc = mgr[r].proc
               \/ agentIn[r] = None,
               agentIn'[r] \in {agentIn[r], None}
        PROVE  ReleasedBeforeEnd(r)' /\ AgentHeld(r)' /\ AgentEnded(r)'
    <2>1. mgr'[r].pc \in {"terminate", "catch", "consume", "rejected"} /\ mgr'[r].ref = mgr[r].ref
          /\ mgr'[r].proc = proc
      BY <1>6 DEF Throws
    <2> QED
      BY <1>1, <1>5, <1>6, <2>1 DEF ReleasedBeforeEnd, AgentHeld, AgentEnded, FailPcs, CompletePcs
  <1>7. ASSUME NEW pc, Ends(r, pc), pc \in {"done", "dead"}
        PROVE  ReleasedBeforeEnd(r)' /\ AgentHeld(r)' /\ AgentEnded(r)'
    BY <1>5, <1>7 DEF Ends, ReleasedBeforeEnd, AgentEnded, FailPcs, CompletePcs, FinishedPcs
  <1>8. /\ UNCHANGED providerVars => agentIn'[r] = agentIn[r] /\ UNCHANGED agentIn
        /\ UNCHANGED storeVars => UNCHANGED <<lease, status, processRef, sandbox, agentIn>>
        /\ UNCHANGED runRows => UNCHANGED status
        /\ agentIn[r] = mgr[r].ref /\ KillProcess(r, mgr[r].ref) => agentIn'[r] = None
        /\ agentIn[r] = mgr[r].ref /\ DestroySandbox(mgr[r].ref) => agentIn'[r] = None
        /\ agentIn[r] = None /\ KillProcess(r, mgr[r].ref) => agentIn'[r] = None
        /\ agentIn[r] = None /\ DestroySandbox(mgr[r].ref) => agentIn'[r] = None
    BY <1>0 DEF providerVars, storeVars, runRows, KillProcess, DestroySandbox
  \* An await after which the agent is gone, or the process is as before.
  <1>9. ASSUME NEW pc, NEW st, NEW goal, NEW ref, NEW proc, Goes(r, pc, st, goal, ref, proc),
               \/ agentIn'[r] = None
               \/ /\ mgr[r].pc \notin FinishedPcs /\ agentIn'[r] = agentIn[r]
                  /\ ref = mgr[r].ref /\ proc = mgr[r].proc
                  /\ pc \notin FailPcs \cup CompletePcs \cup {"exited"},
               \/ pc \notin {"completeDuration", "completeCommit", "succeed", "failCommit"}
               \/ Active(r)' => ~InUse'
        PROVE  ReleasedBeforeEnd(r)' /\ AgentHeld(r)' /\ AgentEnded(r)'
    BY <1>1, <1>5, <1>9 DEF Goes, ReleasedBeforeEnd, AgentHeld, AgentEnded
  <1> SUFFICES ReleasedBeforeEnd(r)' /\ AgentHeld(r)' /\ AgentEnded(r)'
    BY <1>3 DEF OwnSafe
  <1> USE DEF FinishedPcs, FailPcs, CompletePcs, At
  <1>10. CASE DidEvents(r)
    <2>1. CASE DidAgentEnds(r)
      <3>1. mgr[r].pc = "consume" /\ (agentIn[r] = None \/ agentIn[r] = mgr[r].ref)
        BY <1>1, <2>1 DEF DidAgentEnds, AgentHeld
      <3>2. agentIn'[r] = None \/ (agentIn'[r] = agentIn[r] /\ ThrowsAsIs(r))
        BY <1>8, <2>1, <3>1 DEF DidAgentEnds
      <3> QED
        BY <1>4, <1>6, <1>9, <2>1, <3>1, <3>2 DEF DidAgentEnds, Keep, ThrowsAsIs
    <2>2. CASE DidHandleCompletion(r)
      BY <1>1, <1>7, <1>8, <1>9, <2>2 DEF DidHandleCompletion, Fresh, AgentEnded
    <2>3. CASE DidCatchEventError(r) \/ DidDeadlinePasses(r)
      BY <1>1, <1>5, <1>8, <2>3
         DEF DidCatchEventError, DidDeadlinePasses, AgentHeld, ReleasedBeforeEnd, AgentEnded
    <2>4. CASE DidRefreshBeforeCancel(r)
      BY <1>7, <1>8, <1>9, <2>4 DEF DidRefreshBeforeCancel, Fresh
    <2>5. CASE At(r, "cancelMark") /\ DidRun(r, "cancelling", "terminate")
      BY <1>6, <1>8, <1>9, <2>5 DEF DidRun, ThrowsAsIs
    <2> QED
      BY <1>10, <2>1, <2>2, <2>3, <2>4, <2>5 DEF DidEvents
  <1>11. CASE DidTerminate(r)
    <2>0. /\ mgr[r].pc \in {"terminate", "killFailed", "stopSandbox"}
          /\ agentIn[r] = None \/ agentIn[r] = mgr[r].ref
      BY <1>1, <1>11 DEF DidTerminate, AgentHeld
    <2>1. ASSUME NEW st, NEW ref, NEW proc, DidTerminated(r, st, ref, proc), agentIn'[r] = None
          PROVE  ReleasedBeforeEnd(r)' /\ AgentHeld(r)' /\ AgentEnded(r)'
      BY <1>9, <2>1 DEF DidTerminated
    <2>2. CASE /\ At(r, "terminate") /\ mgr[r].proc \in {"unstarted", "stopped"}
               /\ DidTerminated(r, mgr[r].st, mgr[r].ref, mgr[r].proc)
               /\ UNCHANGED storeVars
      BY <1>1, <1>8, <2>1, <2>2 DEF AgentHeld
    <2>3. CASE KillProcess(r, mgr[r].ref) /\ DidTerminated(r, mgr[r].st, mgr[r].ref, "stopped")
      BY <1>8, <2>0, <2>1, <2>3
    <2>4. CASE UNCHANGED providerVars /\ Keep(r, "killFailed", mgr[r].goal, mgr[r].proc)
      BY <1>8, <1>9, <2>0, <2>4 DEF Keep
    <2>5. CASE Terminal(r) /\ UNCHANGED storeVars
                /\ \E proc : DidTerminated(r, status[r], mgr[r].ref, proc)
      BY <1>1, <1>8, <2>1, <2>5
    <2>6. CASE ThrowsFresh(r) /\ UNCHANGED storeVars
      BY <1>6, <1>8, <2>0, <2>6 DEF ThrowsFresh
    <2>7. CASE Fresh(r, "stopSandbox", mgr[r].goal, mgr[r].proc) /\ UNCHANGED storeVars
      BY <1>8, <1>9, <2>0, <2>7 DEF Fresh
    <2>8. CASE DestroySandbox(mgr[r].ref) /\ DidTerminated(r, mgr[r].st, None, "stopped")
      BY <1>8, <2>0, <2>1, <2>8
    <2>9. CASE UNCHANGED providerVars /\ ThrowsAsIs(r)
      BY <1>6, <1>8, <2>0, <2>9 DEF ThrowsAsIs
    <2> QED
      BY <1>11, <2>2, <2>3, <2>4, <2>5, <2>6, <2>7, <2>8, <2>9 DEF DidTerminate
  <1>15. ASSUME NEW next, DidDuration(r, next), mgr[r].pc \in FailPcs \cup CompletePcs,
                \/ next = "failLease"
                \/ next = "completeCommit" /\ mgr[r].pc = "completeDuration"
         PROVE  ReleasedBeforeEnd(r)' /\ AgentHeld(r)' /\ AgentEnded(r)'
    <2>1. agentIn[r] = None /\ agentIn'[r] = None
      BY <1>1, <1>8, <1>15 DEF AgentEnded, DidDuration
    <2>2. next = "completeCommit" /\ Active(r)' => ~InUse'
      BY <1>1, <1>8, <1>15 DEF ReleasedBeforeEnd, DidDuration, Active, InUse
    <2>3. CASE ThrowsAsIs(r)
      BY <1>6, <1>15, <2>1, <2>3 DEF ThrowsAsIs
    <2>4. CASE Fresh(r, next, mgr[r].goal, mgr[r].proc)
      BY <1>9, <1>15, <2>1, <2>2, <2>4 DEF Fresh
    <2> QED
      BY <1>15, <2>3, <2>4 DEF DidDuration
  <1>16. ASSUME NEW newStatus, NEW next, DidLease(r, newStatus, next),
                mgr[r].pc \in FailPcs \cup CompletePcs, newStatus \in {"idle", "stopped", "failed"}
         PROVE  ReleasedBeforeEnd(r)' /\ AgentHeld(r)' /\ AgentEnded(r)'
    <2>1. agentIn[r] = None /\ agentIn'[r] = None
      BY <1>1, <1>8, <1>16 DEF AgentEnded, DidLease
    <2>2. CASE ThrowsAsIs(r)
      BY <1>6, <1>16, <2>1, <2>2 DEF ThrowsAsIs
    <2>3. CASE Leases(r, newStatus) /\ ~ThrowsAsIs(r)
      <3>1. ~InUse'
        BY <1>16, <2>3 DEF Leases, UpdateLeaseForRun, WriteLease, InUse
      <3> QED
        BY <1>5, <1>16, <2>1, <2>3, <3>1 DEF DidLease, ReleasedBeforeEnd, AgentEnded
    <2> QED
      BY <1>16, <2>2, <2>3 DEF DidLease
  <1>17. ASSUME NEW to, DidRun(r, to, "done"), mgr[r].pc \in FailPcs \cup CompletePcs
         PROVE  ReleasedBeforeEnd(r)' /\ AgentHeld(r)' /\ AgentEnded(r)'
    BY <1>6, <1>7, <1>8, <1>17 DEF DidRun, ThrowsAsIs
  <1>12. CASE DidFail(r)
    <2>1. mgr[r].pc \in FailPcs
      BY <1>12 DEF DidFail
    <2>2. agentIn[r] = None
      BY <1>1, <2>1 DEF AgentEnded
    <2>3. CASE At(r, "failRefresh")
      BY <1>7, <1>8, <1>9, <1>12, <2>2, <2>3 DEF DidFail, Fresh
    <2> QED
      BY <1>12, <1>15, <1>16, <1>17, <2>1, <2>3 DEF DidFail
  <1>13. CASE DidComplete(r)
    <2>1. mgr[r].pc \in CompletePcs
      BY <1>13 DEF DidComplete
    <2>2. agentIn[r] = None
      BY <1>1, <2>1 DEF AgentEnded
    <2>3. CASE At(r, "succeed")
      BY <1>6, <1>7, <1>8, <1>9, <1>13, <2>2, <2>3 DEF DidComplete, Keep, ThrowsAsIs
    <2>4. CASE At(r, "succeedLost")
      BY <1>6, <1>7, <1>8, <1>9, <1>13, <2>2, <2>4 DEF DidComplete, Fresh, ThrowsFresh
    <2> QED
      BY <1>13, <1>15, <1>16, <1>17, <2>1, <2>3, <2>4 DEF DidComplete
  <1>14. CASE DidRefreshFault(r)
    <2>1. CASE mgr[r].pc \in RefreshPcs \ {"exited"} /\ ThrowsAsIs(r)
      BY <1>6, <1>8, <1>14, <2>1 DEF DidRefreshFault, ThrowsAsIs, RefreshPcs
    <2>2. CASE At(r, "exited") /\ Throws(r, mgr[r].st, "stopped")
      BY <1>1, <1>6, <1>8, <1>14, <2>2 DEF DidRefreshFault, AgentEnded
    <2>3. CASE At(r, "terminate") /\ ThrowsAsIs(r)
      BY <1>6, <1>8, <1>14, <2>3 DEF DidRefreshFault, ThrowsAsIs
    <2> QED
      BY <1>14, <2>1, <2>2, <2>3 DEF DidRefreshFault
  <1> QED
    BY <1>10, <1>11, <1>12, <1>13, <1>14 DEF OwnerMoves

\* No Run becomes active again.
LEMMA StillActive ==
    ASSUME StoreTypeOK, RowsStep, NEW q \in Runs, status[q] # "absent", Active(q)'
    PROVE  Active(q)
  <1>1. status[q] \in TerminalStatuses => status'[q] = status[q]
    BY StatusMoves
  <1> QED
    BY <1>1 DEF StoreTypeOK, Active, Statuses, ActiveStatuses, TerminalStatuses

\* How an owner that is starting up goes on starting up.
LEMMA OwnerMovesOn ==
    ASSUME NEW r \in Runs, OwnerMoves(r), mgr'[r].pc \in StartupPcs
    PROVE  /\ UNCHANGED lease => mgr'[r].lver = mgr[r].lver
           /\ mgr'[r].pc \in {"afterReady", "configure", "spawn"} =>
                \/ mgr[r].pc = "markReady" /\ mgr[r].lver = lease.version
                \/ /\ mgr[r].pc \in {"afterReady", "configure", "spawn"}
                   /\ mgr'[r].ref = mgr[r].ref /\ UNCHANGED providerVars
  <1>1. DidStartup(r)
    BY LaterOwnerMoves
  <1>2. ASSUME NEW st, NEW proc, Throws(r, st, proc) PROVE FALSE
    BY <1>2 DEF Throws, StartupPcs
  <1>3. ASSUME NEW newStatus, NEW next, DidLease(r, newStatus, next)
        PROVE  /\ mgr'[r].pc = next /\ mgr[r].lver = lease.version
               /\ UNCHANGED lease => mgr'[r].lver = mgr[r].lver
    BY <1>2, <1>3 DEF DidLease, Leases, UpdateLeaseForRun, OwnsLease, ThrowsAsIs
  <1>4. CASE \/ At(r, "markStarting") /\ DidLease(r, "starting", "ensure")
             \/ At(r, "markReady") /\ DidLease(r, "ready", "afterReady")
             \/ At(r, "markBusy") /\ DidLease(r, "busy", "markRunning")
    BY <1>3, <1>4 DEF At
  <1>5. CASE DidRefreshAfterReady(r) \/ DidConfigureAgent(r)
    BY <1>2, <1>5
       DEF DidRefreshAfterReady, DidConfigureAgent, Goes, Fresh, ThrowsAsIs, ThrowsFresh,
           storeVars, providerVars, At
  <1>6. CASE \/ DidEnsureSandbox(r) \/ DidSpawnAgent(r) \/ DidPromptAgent(r)
             \/ DidPersistProcessRef(r) \/ DidMarkRunning(r)
    BY <1>2, <1>6
       DEF DidEnsureSandbox, DidSpawnAgent, DidPromptAgent, DidPersistProcessRef, DidMarkRunning,
           Goes, Fresh, Keep, ThrowsAsIs
  <1> QED
    BY <1>1, <1>4, <1>5, <1>6 DEF DidStartup

\* What the callers hold about the agent survives the owner's steps too.
LEMMA OwnerMovesSafe ==
    ASSUME IInv, Legal, Ground, StoreStep, NEW r \in Runs, RunSafe(r), OwnerMoves(r),
           UNCHANGED caller
    PROVE  RunSafe(r)'
  <1>0. /\ StoreTypeOK /\ OwnersSound /\ ProviderStep /\ mgr[r].ref \in SandboxRefs
        /\ Known(mgr[r].ref) /\ \A k \in Callers : Known(caller[r][k].lref)
        /\ mgr[r].pc # "none" => status[r] \notin {"absent", "queued"}
    BY GroundTypes DEF StoreStep, Ground, RefsKnown, Legal, OwnerLegal, LegalOwner
  <1>1. OwnSafe(r) /\ AgentOfStarted(r) /\ AgentInLease(r) /\ OwnerAgent(r) /\ OwnerLease(r)
    BY <1>0, OwnerMovesAgent, OwnerMovesLease DEF RunSafe
  <1>2. /\ \A s \in SandboxRefs : Known(s) /\ IsLive(s)' => IsLive(s)
        /\ \A s \in Runs : sandbox[s] = "gone" => sandbox'[s] = "gone"
    BY <1>0, NoRevival
  <1>3. OwnSafe(r)'
    BY StartupOwnerSafe, LaterOwnerSafe
  \* Where the agent is spawned the Run is started and the Lease names the sandbox.
  <1>4. mgr[r].pc = "spawn" /\ IsLive(mgr[r].ref) =>
          status[r] \in Started /\ lease.ref = mgr[r].ref /\ lease.status = "ready"
    BY <1>0, <1>1, StartedActive DEF OwnSafe, SpawnsInLease
  <1>5. AgentOfStarted(r)'
    <2>1. CASE agentIn[r] = None /\ agentIn'[r] # None
      BY <1>1, <1>4, <2>1 DEF OwnerAgent, AgentOfStarted
    <2>2. CASE agentIn[r] # None
      <3>1. status[r] \in Started /\ mgr[r].pc \notin FailPcs \cup CompletePcs \cup {"exited"}
        BY <1>1, <2>2 DEF AgentOfStarted, OwnSafe, AgentEnded
      <3>2. status'[r] \in {status[r], "running", "cancelling"}
        BY <1>0, <3>1
           DEF OwnerMoves, DidStartup, DidEnsureSandbox, DidRefreshAfterReady, DidConfigureAgent,
           DidSpawnAgent, DidPromptAgent, DidPersistProcessRef, DidMarkRunning, DidEvents,
           DidAgentEnds, DidHandleCompletion, DidCatchEventError, DidDeadlinePasses,
           DidRefreshBeforeCancel, DidTerminate, DidFail, DidDuration, DidComplete,
           DidRefreshFault, DidLease, DidRun, storeVars, runRows, Transition, SetProcessRef,
           StoreTypeOK, At, FailPcs, CompletePcs
      <3> QED
        BY <3>1, <3>2 DEF AgentOfStarted, Started
    <2>3. CASE agentIn'[r] = None
      BY <2>3 DEF AgentOfStarted
    <2> QED
      BY <2>1, <2>2, <2>3
  <1>6. AgentInLease(r)'
    <2> SUFFICES ASSUME agentIn'[r] # None PROVE AgentInLease(r)'
      BY DEF AgentInLease
    <2>1. CASE UNCHANGED lease
      BY <1>1, <1>4, <2>1 DEF OwnerAgent, AgentInLease
    <2>2. CASE ~UNCHANGED lease
      <3>1. /\ agentIn'[r] = agentIn[r] /\ lease'.ref = mgr[r].ref
            /\ \/ mgr[r].pc \in {"markStarting", "markReady", "failLease", "completeLease"}
               \/ mgr[r].pc = "markBusy" /\ lease'.status = "busy"
        BY <1>1, <2>2 DEF OwnerLease, providerVars
      <3>2. agentIn[r] # None => mgr[r].pc = "markBusy" /\ agentIn[r] = mgr[r].ref
        BY <1>1, <3>1 DEF OwnSafe, NoAgentYet, AgentEnded, AgentHeld, PreSpawnPcs, FailPcs,
                          CompletePcs, FinishedPcs
      <3> QED
        BY <3>1, <3>2 DEF AgentInLease
    <2> QED
      BY <2>1, <2>2
  <1>7. ASSUME NEW k \in Callers PROVE StoppedFirst(r, k)'
    <2> DEFINE c == caller[r][k]
    <2>0. /\ caller'[r][k] = c /\ c.lref \in SandboxRefs /\ StoppedFirst(r, k)
          /\ c.lref # None /\ sandbox[c.lref] = "gone" => sandbox'[c.lref] = "gone"
      BY <1>2, GroundTypes DEF RunSafe, SandboxRefs
    <2>1. c.ref => agentIn'[r] \in {agentIn[r], None}
      BY <1>1 DEF OwnerAgent, OwnSafe, NoRefYet, PreSpawnPcs
    <2>2. ASSUME c.pc \in {"reload", "finish"}, Active(r)'
          PROVE  /\ ~InUse' /\ agentIn'[r] = None
                 /\ mgr'[r].pc \in StartupPcs => mgr'[r].lver < lease'.version
                 /\ mgr'[r].pc \in {"afterReady", "configure", "spawn"} => ~IsLive(mgr[r].ref)'
      <3>1. Active(r)
        BY <1>0, <2>2, StillActive DEF StoreStep, Legal, CallerLegal, RelPcs
      <3>2. /\ ~InUse /\ agentIn[r] = None
            /\ mgr[r].pc \in StartupPcs => mgr[r].lver < lease.version
            /\ mgr[r].pc \in {"afterReady", "configure", "spawn"} => ~IsLive(mgr[r].ref)
        BY <2>0, <2>2, <3>1 DEF StoppedFirst
      <3>3. agentIn'[r] = None
        BY <1>1, <3>2 DEF OwnerAgent
      <3>4. mgr[r].pc \in StartupPcs => mgr[r].lver # lease.version
        BY <3>2, GroundTypes
      <3>5. ~InUse' /\ (UNCHANGED lease \/ mgr'[r].pc \notin StartupPcs)
        BY <1>1, <3>2, <3>4 DEF OwnerLease, InUse, StartupPcs
      <3>6. mgr'[r].pc \in StartupPcs => mgr[r].pc \in StartupPcs
        BY <1>0, StartupOwnerMoves DEF Ground, StartupAll
      <3>7. mgr'[r].pc \in StartupPcs => mgr'[r].lver < lease'.version
        BY <3>2, <3>5, <3>6, OwnerMovesOn
      <3>8. mgr'[r].pc \in {"afterReady", "configure", "spawn"} => ~IsLive(mgr[r].ref)'
        BY <3>2, <3>4, OwnerMovesOn DEF StartupPcs, providerVars, IsLive
      <3> QED
        BY <3>3, <3>5, <3>7, <3>8
    <2> QED
      BY <2>0, <2>1, <2>2 DEF StoppedFirst
  <1> QED
    BY <1>3, <1>5, <1>6, <1>7 DEF RunSafe

-----------------------------------------------------------------------------
(* The steps of its callers keep a Run safe.                               *)

\* What a caller's step does to the rows, to the agent and to the Lease.
CallerRow(r, k) ==
    /\ processRef'[r] => processRef[r]
    /\ caller'[r][k].ref => caller[r][k].ref \/ processRef[r]
    /\ \/ status'[r] = status[r]
       \/ status[r] = "queued"
       \/ status[r] \in Started /\ status'[r] = "cancelling"
       \/ caller[r][k].pc = "finish" /\ Active(r)

\* A caller writes the Lease only to give it back.
CallerLease(r, k) ==
    \/ UNCHANGED lease
    \/ /\ caller[r][k].pc = "release" /\ Active(r)
       /\ lease.ref = caller[r][k].lref
       /\ lease'.status \in {"idle", "stopped"}
       /\ UNCHANGED <<runRows, providerVars, mgr>>

LEMMA CallerMovesRowOwn ==
    ASSUME StoreTypeOK, NEW r \in Runs, NEW k \in Callers, CallerMoves(r, k),
           caller[r][k].pc = "giveUp" => caller[r][k].st = "queued"
    PROVE  CallerRow(r, k)
  <1> USE DEF CallerRow
  <1>0. /\ UNCHANGED runRows => status'[r] = status[r] /\ processRef'[r] = processRef[r]
        /\ \A from, to : Transition(r, from, to) =>
              /\ status[r] = from /\ status'[r] = to /\ (processRef'[r] => processRef[r])
              /\ Active(r)
    BY DEF runRows, Transition, CanTransition, canTransitionAgentRun, StoreTypeOK, Active
  <1>1. ASSUME NEW pc, NEW st, NEW ref, NEW lref, NEW lver, NEW target,
               CallerGoes(r, k, pc, st, ref, lref, lver, target)
        PROVE  caller'[r][k].ref => ref
    BY <1>1 DEF CallerGoes
  <1>2. ASSUME NEW pc, CallerKeeps(r, k, pc) PROVE caller'[r][k].ref => caller[r][k].ref
    BY <1>1, <1>2 DEF CallerKeeps
  <1>3. ASSUME NEW pc, NEW target, CallerReloads(r, k, pc, target)
        PROVE  caller'[r][k].ref => processRef[r]
    BY <1>1, <1>3 DEF CallerReloads
  <1>4. ASSUME NEW pc, NEW lref, NEW lver, CallerPasses(r, k, pc, lref, lver)
        PROVE  caller'[r][k].ref => caller[r][k].ref
    BY <1>1, <1>4 DEF CallerPasses
  <1>5. ASSUME NEW to, NEW next, DidMoveOrConfirm(r, k, to, next),
               \/ caller[r][k].pc = "finish"
               \/ caller[r][k].st = "queued"
               \/ to = "cancelling"
        PROVE  CallerRow(r, k)
    <2>1. CASE Transition(r, caller[r][k].st, to)
      <3>1. status[r] \in Started \/ to # "cancelling"
        BY <2>1 DEF Transition, CanTransition, canTransitionAgentRun, allowedTransitions,
                    ActiveStatuses, Started
      <3> QED
        BY <1>0, <1>1, <1>2, <1>5, <2>1, <3>1 DEF DidMoveOrConfirm
    <2>2. CASE UNCHANGED runRows /\ CallerKeeps(r, k, "confirm")
      BY <1>0, <1>2, <2>2
    <2> QED
      BY <1>5, <2>1, <2>2 DEF DidMoveOrConfirm
  <1>6. CASE DidRelease(r, k)
    BY <1>0, <1>2, <1>3, <1>4, <1>5, <1>6 DEF DidRelease, CallerAt
  <1>7. CASE DidExecute(r, k)
    <2>1. CASE DidClaimRun(r, k)
      BY <1>0, <1>2, <2>1 DEF DidClaimRun, Claim
    <2>2. CASE CallerAt(r, k, "giveUp") /\ DidMoveOrConfirm(r, k, "failed", "done")
      BY <1>5, <2>2 DEF CallerAt
    <2>3. CASE DidLoadOrAwait(r, k) \/ DidReadRun(r, k, "load") \/ DidReadRun(r, k, "giveUp")
      BY <1>0, <1>2, <1>3, <1>4, <2>3 DEF DidLoadOrAwait, DidReadRun
    <2> QED
      BY <1>7, <2>1, <2>2, <2>3 DEF DidExecute
  <1>8. CASE DidRequestCancel(r, k) \/ DidCancelRun(r, k) \/ DidLose(r, k) \/ DidFault(r, k)
    BY <1>0, <1>2, <1>3, <1>5, <1>8 DEF DidRequestCancel, DidCancelRun, DidLose, DidFault
  <1> QED
    BY <1>6, <1>7, <1>8 DEF CallerMoves

LEMMA CallerMovesLease ==
    ASSUME NEW r \in Runs, NEW k \in Callers, CallerMoves(r, k)
    PROVE  CallerLease(r, k)
  BY DEF CallerMoves, DidExecute, DidReadRun, DidLoadOrAwait, DidClaimRun, DidRelease,
         DidMoveOrConfirm, DidRequestCancel, DidCancelRun, DidFault, DidLose, Claim,
         CallerLease, UpdateLeaseForRun, OwnsLease, WriteLease, CallerAt

LEMMA CallerMovesAgent ==
    ASSUME StoreTypeOK, CallersTyped, NEW r \in Runs, NEW k \in Callers, CallerMoves(r, k)
    PROVE  \A q \in Runs : agentIn'[q] \in {agentIn[q], None}
  <1>1. /\ UNCHANGED providerVars => UNCHANGED agentIn
        /\ DestroySandbox(caller[r][k].lref) => \A q \in Runs : agentIn'[q] \in {agentIn[q], None}
        /\ KillProcess(r, caller[r][k].lref) => \A q \in Runs : agentIn'[q] \in {agentIn[q], None}
    BY DEF DestroySandbox, KillProcess, StoreTypeOK, providerVars
  <1> QED
    BY <1>1
       DEF CallerMoves, DidExecute, DidReadRun, DidLoadOrAwait, DidClaimRun, DidRelease,
         DidMoveOrConfirm, DidRequestCancel, DidCancelRun, DidFault, DidLose, Claim

\* A sandbox in which an agent lives, or which an owner is about to use, is not the one that
\* a caller without a process reference has stopped.
LEMMA ReleaseFindsNothing ==
    ASSUME IInv, Ground, NEW r \in Runs, NEW k \in Callers, RunSafe(r),
           caller[r][k].pc = "release", lease.ref = caller[r][k].lref
    PROVE  /\ agentIn[r] = None
           /\ mgr[r].pc \in {"afterReady", "configure", "spawn"} => ~IsLive(mgr[r].ref)
  <1> DEFINE c == caller[r][k]
  <1>1. /\ OwnSafe(r) /\ AgentInLease(r) /\ StoppedFirst(r, k)
        /\ agentIn[r] # None => sandbox[agentIn[r]] = "live"
    BY DEF RunSafe, Ground, RefsKnown
  <1>2. CASE c.ref
    BY <1>1, <1>2 DEF StoppedFirst, OwnSafe, NoRefYet, PreSpawnPcs
  <1>3. CASE ~c.ref
    <2>1. c.lref = None \/ sandbox[c.lref] = "gone"
      BY <1>1, <1>3 DEF StoppedFirst
    <2> QED
      BY <1>1, <2>1 DEF AgentInLease, OwnSafe, SpawnsInLease, IsLive
  <1> QED
    BY <1>2, <1>3

\* No caller takes the agent from an owner that goes on.
LEMMA CallerMovesOwnSafe ==
    ASSUME IInv, Legal, Ground, StoreStep, NEW r \in Runs, NEW k \in Callers, RunSafe(r),
           CallerMoves(r, k)
    PROVE  OwnSafe(r)'
  <1>0. /\ StoreTypeOK /\ OwnersSound /\ CallersTyped /\ ProviderStep /\ RowsStep
        /\ mgr[r].ref \in SandboxRefs /\ Known(mgr[r].ref)
        /\ mgr[r].pc # "none" => status[r] \notin {"absent", "queued"}
        /\ caller[r][k].pc \in RelPcs => status[r] \notin {"absent", "queued"}
    BY GroundTypes DEF StoreStep, Ground, RefsKnown, Legal, OwnerLegal, LegalOwner, CallerLegal
  <1>1. /\ OwnSafe(r) /\ AgentOfStarted(r) /\ AgentInLease(r) /\ StoppedFirst(r, k)
        /\ CallerRow(r, k) /\ CallerLease(r, k) /\ OnlyCaller(r, k)
        /\ agentIn'[r] \in {agentIn[r], None}
    BY <1>0, CallerMovesRowOwn, CallerMovesLease, CallerMovesAlone, CallerMovesAgent
       DEF RunSafe, StoppedFirst
  <1>2. NoRefYet(r) => \A j \in Callers : ~processRef[r] /\ ~caller[r][j].ref => ~caller'[r][j].ref
    BY <1>1 DEF CallerRow, OnlyCaller
  <1>3. CASE Ends(r, "dead")
    BY <1>3 DEF Ends, OwnSafe, ReleasedBeforeEnd, NoAgentYet, AgentHeld, AgentEnded, NoRefYet,
                SpawnsInLease, PreSpawnPcs, FailPcs, CompletePcs, FinishedPcs
  <1>4. CASE k \in Attempts /\ Claim(r, k, caller[r][k].lref, caller[r][k].lver)
    <2>1. status[r] = "queued" /\ mgr[r].pc = "none"
      BY <1>0, <1>4 DEF Claim, Transition, CanTransition
    <2>2. mgr'[r].pc = "markStarting"
      BY <1>0, <1>4, GroundTypes, ClaimMoves
    <2>3. agentIn[r] = None /\ ~processRef[r] /\ \A j \in Callers : ~caller[r][j].ref
      BY <1>1, <2>1 DEF AgentOfStarted, Started, OwnSafe, NoRefYet
    <2> QED
      BY <1>1, <1>2, <2>2, <2>3
         DEF CallerRow, OwnSafe, ReleasedBeforeEnd, NoAgentYet, AgentHeld, AgentEnded, NoRefYet,
             SpawnsInLease, PreSpawnPcs, FailPcs, CompletePcs, FinishedPcs
  <1>5. CASE UNCHANGED mgr
    <2>1. ReleasedBeforeEnd(r)'
      <3>1. mgr[r].pc # "none" /\ Active(r)' => Active(r)
        BY <1>0, StillActive
      <3> QED
        BY <1>1, <1>5, <3>1 DEF OwnSafe, ReleasedBeforeEnd, CallerLease, InUse
    <2>2. NoAgentYet(r)' /\ AgentHeld(r)' /\ AgentEnded(r)'
      BY <1>1, <1>5 DEF OwnSafe, NoAgentYet, AgentHeld, AgentEnded
    <2>3. NoRefYet(r)'
      BY <1>1, <1>2, <1>5 DEF OwnSafe, NoRefYet, CallerRow
    <2>4. ASSUME mgr[r].pc \in {"afterReady", "configure", "spawn"}, IsLive(mgr[r].ref)'
          PROVE  Active(r)' /\ lease'.ref = mgr[r].ref /\ lease'.status = "ready"
      <3>1. IsLive(mgr[r].ref)
        <4>1. \A s \in SandboxRefs : Known(s) /\ IsLive(s)' => IsLive(s)
          BY <1>0, NoRevival
        <4> QED
          BY <1>0, <1>5, <2>4, <4>1 DEF IsLive
      <3>2. Active(r) /\ lease.ref = mgr[r].ref /\ lease.status = "ready"
        BY <1>1, <2>4, <3>1 DEF OwnSafe, SpawnsInLease
      <3>3. UNCHANGED lease
        BY <1>1, <2>4, <3>1, ReleaseFindsNothing DEF CallerLease
      <3>4. caller[r][k].pc # "finish"
        BY <1>1, <2>4, <3>1, <3>2 DEF StoppedFirst
      <3>5. Active(r)'
        BY <1>0, <1>1, <2>4, <3>2, <3>4 DEF CallerRow, Active, ActiveStatuses
      <3> QED
        BY <3>2, <3>3, <3>5
    <2>5. SpawnsInLease(r)'
      BY <1>5, <2>4 DEF SpawnsInLease
    <2> QED
      BY <2>1, <2>2, <2>3, <2>5 DEF OwnSafe
  <1> QED
    BY <1>3, <1>4, <1>5, CallerMovesOwner

LEMMA CallerMovesAgentSafe ==
    ASSUME IInv, Legal, Ground, StoreStep, NEW r \in Runs, NEW k \in Callers, RunSafe(r),
           CallerMoves(r, k)
    PROVE  AgentOfStarted(r)' /\ AgentInLease(r)'
  <1>1. /\ AgentOfStarted(r) /\ AgentInLease(r) /\ StoppedFirst(r, k)
        /\ CallerRow(r, k) /\ CallerLease(r, k) /\ agentIn'[r] \in {agentIn[r], None}
    BY GroundTypes, CallerMovesRowOwn, CallerMovesLease, CallerMovesAgent DEF RunSafe,
           StoppedFirst
  <1> SUFFICES ASSUME agentIn'[r] # None PROVE AgentOfStarted(r)' /\ AgentInLease(r)'
    BY DEF AgentOfStarted, AgentInLease
  <1>2. agentIn'[r] = agentIn[r] /\ status[r] \in Started
    BY <1>1 DEF AgentOfStarted
  <1>3. status'[r] \in Started
    BY <1>1, <1>2 DEF CallerRow, StoppedFirst, Started
  <1>4. UNCHANGED lease
    BY <1>1, <1>2, ReleaseFindsNothing DEF CallerLease
  <1> QED
    BY <1>1, <1>2, <1>3, <1>4 DEF AgentOfStarted, AgentInLease

\* How a caller gets where it is on its way through releaseRunProcess.
CallerPath(r, k) ==
    LET pc == caller'[r][k].pc
        ref == caller'[r][k].ref
        lref == caller'[r][k].lref
    IN
    /\ pc = "giveUp" => caller'[r][k].st = "queued"
    /\ pc = "recheck" => ~ref
    /\ pc = "stop" => caller[r][k].pc = "recheck" /\ (ref => caller[r][k].ref)
    /\ pc = "kill" => ref /\ lref = lease.ref /\ UNCHANGED agentIn
    /\ pc = "release" =>
         \/ lease.ref = None /\ lref = None /\ UNCHANGED agentIn
         \/ /\ caller[r][k].pc = "kill" /\ (caller[r][k].ref => ref)
            /\ KillProcess(r, caller[r][k].lref)
         \/ /\ caller[r][k].pc = "stop" /\ (ref => caller[r][k].ref)
            /\ lref = caller[r][k].lref /\ DestroySandbox(caller[r][k].lref)
    /\ pc = "reload" =>
         /\ caller[r][k].pc = "release"
         /\ lease.ref = caller[r][k].lref
         /\ \/ WriteLease("idle", caller[r][k].lref)
            \/ WriteLease("stopped", None)
            \/ WriteLease("stopped", caller[r][k].lref)
         /\ UNCHANGED <<runRows, providerVars, mgr>>
    /\ pc = "finish" =>
         /\ caller[r][k].pc = "reload"
         /\ UNCHANGED <<runRows, lease, providerVars, mgr>>

LEMMA CallerMovesPath ==
    ASSUME CallersTyped, NEW r \in Runs, NEW k \in Callers, CallerMoves(r, k)
    PROVE  CallerPath(r, k)
  <1> USE DEF CallerPath
  <1>1. ASSUME NEW pc, CallerKeeps(r, k, pc)
        PROVE  /\ caller'[r][k].pc = pc
               /\ pc \notin Forgetting \cup {"done"} =>
                    /\ caller'[r][k].ref = caller[r][k].ref
                    /\ caller'[r][k].lref = caller[r][k].lref
                    /\ caller'[r][k].st = caller[r][k].st
    BY <1>1 DEF CallerKeeps, CallerGoes
  <1>2. ASSUME NEW pc, NEW lref, NEW lver, CallerPasses(r, k, pc, lref, lver)
        PROVE  /\ caller'[r][k].pc = pc
               /\ pc \notin Forgetting \cup {"done"} =>
                    /\ caller'[r][k].ref = caller[r][k].ref /\ caller'[r][k].lref = lref
    BY <1>2 DEF CallerPasses, CallerGoes
  <1>3. ASSUME NEW pc, NEW target, CallerReloads(r, k, pc, target)
        PROVE  /\ caller'[r][k].pc = pc
               /\ pc \notin Forgetting => caller'[r][k].st = status[r]
    BY <1>3 DEF CallerReloads, CallerGoes
  <1>4. ASSUME NEW to, NEW next, DidMoveOrConfirm(r, k, to, next), next \in {"done", "readLease"}
        PROVE  CallerPath(r, k)
    BY <1>1, <1>4 DEF DidMoveOrConfirm, CallerGoes
  <1>5. CASE DidRelease(r, k)
    <2>1. CASE CallerAt(r, k, "readLease")
      BY <1>2, <1>5, <2>1 DEF DidRelease, CallerAt, providerVars, Forgetting
    <2>2. CASE CallerAt(r, k, "kill") \/ CallerAt(r, k, "stop")
      BY <1>1, <1>5, <2>2 DEF DidRelease, CallerAt, Forgetting
    <2>3. CASE CallerAt(r, k, "recheck")
      BY <1>1, <1>3, <1>5, <2>3 DEF DidRelease, CallerAt, Forgetting
    <2>4. CASE CallerAt(r, k, "release")
      <3>1. CASE CallerKeeps(r, k, "confirm")
        BY <1>1, <3>1
      <3>2. CASE CallerKeeps(r, k, "reload")
        BY <1>1, <1>5, <2>4, <3>2 DEF DidRelease, CallerAt, UpdateLeaseForRun, OwnsLease
      <3> QED
        BY <1>5, <2>4, <3>1, <3>2 DEF DidRelease, CallerAt
    <2>5. CASE CallerAt(r, k, "reload") \/ CallerAt(r, k, "confirm")
      BY <1>3, <1>5, <2>5 DEF DidRelease, CallerAt
    <2>6. CASE CallerAt(r, k, "finish")
      BY <1>4, <1>5, <2>6 DEF DidRelease, CallerAt
    <2> QED
      BY <1>5, <2>1, <2>2, <2>3, <2>4, <2>5, <2>6 DEF DidRelease
  <1>6. CASE DidExecute(r, k)
    BY <1>1, <1>2, <1>3, <1>4, <1>6
       DEF DidExecute, DidReadRun, DidLoadOrAwait, DidClaimRun, Forgetting
  <1>7. CASE DidRequestCancel(r, k) \/ DidCancelRun(r, k)
    BY <1>3, <1>4, <1>7 DEF DidRequestCancel, DidCancelRun
  <1>8. CASE DidLose(r, k) \/ DidFault(r, k)
    BY <1>1, <1>8 DEF DidLose, DidFault, StoppedPcs
  <1> QED
    BY <1>5, <1>6, <1>7, <1>8 DEF CallerMoves

\* What a caller has stopped is stopped when it ends the Run.
LEMMA CallerMovesStopped ==
    ASSUME IInv, Legal, Ground, OverlapShows, StoreStep, NEW r \in Runs, NEW k \in Callers,
           RunSafe(r),
           CallerMoves(r, k)
    PROVE  StoppedFirst(r, k)'
  <1> DEFINE c == caller[r][k]
  <1> DEFINE d == caller'[r][k]
  <1>0. /\ StoreTypeOK /\ CallersTyped /\ c.lref \in SandboxRefs
        /\ AgentInLease(r) /\ StoppedFirst(r, k) /\ CallerPath(r, k)
        /\ agentIn'[r] \in {agentIn[r], None}
    BY GroundTypes, CallerMovesPath, CallerMovesAgent DEF RunSafe
  <1>1. d.pc = "giveUp" => d.st = "queued"
    BY <1>0 DEF CallerPath
  <1>2. d.pc \in {"recheck", "stop"} => ~d.ref
    BY <1>0 DEF CallerPath, StoppedFirst
  <1>3. d.pc = "kill" => d.ref /\ agentIn'[r] \in {None, d.lref}
    BY <1>0 DEF CallerPath, AgentInLease
  <1>4. ASSUME d.pc = "release"
        PROVE  /\ ~d.ref => d.lref = None \/ sandbox'[d.lref] = "gone"
               /\ d.ref => agentIn'[r] = None
    <2>1. CASE lease.ref = None /\ d.lref = None /\ UNCHANGED agentIn
      BY <1>0, <2>1 DEF AgentInLease
    <2>2. CASE c.pc = "kill" /\ (c.ref => d.ref) /\ KillProcess(r, c.lref)
      BY <1>0, <2>2 DEF StoppedFirst, KillProcess, StoreTypeOK
    <2>3. CASE /\ c.pc = "stop" /\ (d.ref => c.ref)
               /\ d.lref = c.lref /\ DestroySandbox(c.lref)
      BY <1>0, <2>3 DEF StoppedFirst, DestroySandbox, StoreTypeOK, SandboxRefs
    <2> QED
      BY <1>0, <1>4, <2>1, <2>2, <2>3 DEF CallerPath
  <1>5. ASSUME d.pc = "reload"
        PROVE  /\ ~InUse' /\ agentIn'[r] = None
               /\ mgr'[r].pc \in StartupPcs => mgr'[r].lver < lease'.version
               /\ mgr'[r].pc \in {"afterReady", "configure", "spawn"} => ~IsLive(mgr[r].ref)'
    <2>1. /\ c.pc = "release" /\ lease.ref = c.lref /\ UNCHANGED <<providerVars, mgr>>
          /\ \E s \in {"idle", "stopped"} : \E ref : WriteLease(s, ref)
      BY <1>0, <1>5 DEF CallerPath
    <2>2. ~InUse' /\ (0 \notin Ticks => lease'.version > lease.version)
      BY <1>0, <2>1, WriteFields DEF InUse
    <2>3. /\ agentIn[r] = None
          /\ mgr[r].pc \in {"afterReady", "configure", "spawn"} => ~IsLive(mgr[r].ref)
      BY <2>1, ReleaseFindsNothing
    <2>4. mgr[r].pc \in StartupPcs => mgr[r].lver < lease'.version
      <3>1. CASE 0 \notin Ticks
        <4>1. lease'.version \in Nat /\ lease.version \in Nat /\ mgr[r].lver \in Nat
              /\ mgr[r].lver <= lease.version
          BY <1>0, <2>1, WriteFields, GroundTypes DEF Ground, VersionsPast
        <4> QED
          BY <2>2, <3>1, <4>1
      <3>2. CASE ~StepTimeout
        BY <2>1, <3>2 DEF Ground, NoStartup, Beside, Orderly, RelPcs
      <3> QED
        BY <3>1, <3>2 DEF OverlapShows
    <2> QED
      BY <2>1, <2>2, <2>3, <2>4 DEF providerVars, IsLive
  <1>6. ASSUME d.pc = "finish", Active(r)'
        PROVE  /\ ~InUse' /\ agentIn'[r] = None
               /\ mgr'[r].pc \in StartupPcs => mgr'[r].lver < lease'.version
               /\ mgr'[r].pc \in {"afterReady", "configure", "spawn"} => ~IsLive(mgr[r].ref)'
    <2>1. c.pc = "reload" /\ UNCHANGED <<status, lease, sandbox, agentIn, mgr>>
      BY <1>0, <1>6 DEF CallerPath, runRows, providerVars
    <2> QED
      BY <1>0, <1>6, <2>1 DEF StoppedFirst, Active, InUse, IsLive
  <1> QED
    BY <1>1, <1>2, <1>3, <1>4, <1>5, <1>6 DEF StoppedFirst

LEMMA CallerMovesOthersStopped ==
    ASSUME IInv, Legal, Ground, StoreStep, NEW r \in Runs, NEW k \in Callers, RunSafe(r),
           CallerMoves(r, k), NEW j \in Callers, j # k
    PROVE  StoppedFirst(r, j)'
  <1> DEFINE c == caller[r][j]
  <1>0. /\ StoreTypeOK /\ CallersTyped /\ OwnersSound /\ c.lref \in SandboxRefs
        /\ mgr[r].ref \in SandboxRefs /\ Known(mgr[r].ref) /\ RowsStep /\ LeaseStep
        /\ StoppedFirst(r, j) /\ caller'[r][j] = c
        /\ agentIn'[r] \in {agentIn[r], None}
        /\ c.pc \in RelPcs => status[r] \notin {"absent", "queued"}
    BY GroundTypes, CallerMovesAlone, CallerMovesAgent
       DEF RunSafe, OnlyCaller, Ground, RefsKnown, StoreStep, Legal, CallerLegal
  <1>1. /\ \A s \in SandboxRefs : Known(s) /\ IsLive(s)' => IsLive(s)
        /\ \A s \in Runs : sandbox[s] = "gone" => sandbox'[s] = "gone"
    BY <1>0, NoRevival DEF StoreStep
  <1>2. c.lref # None /\ sandbox[c.lref] = "gone" => sandbox'[c.lref] = "gone"
    BY <1>0, <1>1 DEF SandboxRefs
  <1>3. ASSUME c.pc \in {"reload", "finish"}, Active(r)'
        PROVE  /\ ~InUse' /\ agentIn'[r] = None
               /\ mgr'[r].pc \in StartupPcs => mgr'[r].lver < lease'.version
               /\ mgr'[r].pc \in {"afterReady", "configure", "spawn"} => ~IsLive(mgr[r].ref)'
    <2>1. Active(r) /\ status[r] # "queued"
      BY <1>0, <1>3, StillActive DEF RelPcs
    <2>2. /\ ~InUse /\ agentIn[r] = None
          /\ mgr[r].pc \in StartupPcs => mgr[r].lver < lease.version
          /\ mgr[r].pc \in {"afterReady", "configure", "spawn"} => ~IsLive(mgr[r].ref)
      BY <1>0, <1>3, <2>1 DEF StoppedFirst
    <2>3. ~InUse'
      BY <2>2, CallerMovesLease DEF CallerLease, InUse
    <2>4. UNCHANGED mgr \/ Ends(r, "dead")
      BY <2>1, CallerMovesOwner DEF Claim, Transition, CanTransition
    <2>5. CASE Ends(r, "dead")
      BY <1>0, <2>2, <2>3, <2>5 DEF Ends, StartupPcs
    <2>6. CASE UNCHANGED mgr
      <3>1. mgr[r].pc \in StartupPcs => mgr[r].lver < lease'.version
        <4>1. lease'.version \in Nat /\ lease.version \in Nat /\ lease'.version >= lease.version
              /\ mgr[r].lver \in Nat
          BY <1>0, VersionsGrow, GroundTypes
        <4> QED
          BY <2>2, <4>1
      <3>2. IsLive(mgr[r].ref)' => IsLive(mgr[r].ref)
        BY <1>0, <1>1, <2>6 DEF IsLive
      <3> QED
        BY <1>0, <2>2, <2>3, <2>6, <3>1, <3>2
    <2> QED
      BY <2>4, <2>5, <2>6
  <1> QED
    BY <1>0, <1>2, <1>3 DEF StoppedFirst

-----------------------------------------------------------------------------
(* Every step keeps every Run safe.                                        *)

LEMMA CreateMovesSafe ==
    ASSUME IInv, Legal, Ground, NEW r \in Runs, RunSafe(r), DidCreate(r)
    PROVE  RunSafe(r)'
  <1>0. /\ StoreTypeOK /\ UNCHANGED <<lease, sandbox, agentIn, caller, mgr>>
        /\ mgr[r].pc # "none" => status[r] \notin {"absent", "queued"}
        /\ \A k \in Callers : caller[r][k].pc \in RelPcs => status[r] \notin {"absent", "queued"}
    BY GroundTypes DEF DidCreate, providerVars, Legal, OwnerLegal, LegalOwner, CallerLegal
  <1>1. /\ processRef'[r] => processRef[r]
        /\ \/ status'[r] = status[r]
           \/ status[r] \in {"absent", "queued"} /\ status'[r] \in {"queued", "failed"}
    BY <1>0 DEF DidCreate, InsertQueued, Transition, CanTransition, StoreTypeOK, runRows
  <1>2. mgr[r].pc # "none" \/ (\E k \in Callers : caller[r][k].pc \in RelPcs)
          => Active(r)' = Active(r)
    BY <1>0, <1>1 DEF Active
  <1>3. OwnSafe(r)'
    BY <1>0, <1>1, <1>2 DEF RunSafe, OwnSafe, ReleasedBeforeEnd, NoAgentYet, AgentHeld,
                            AgentEnded, NoRefYet, SpawnsInLease, InUse, IsLive
  <1>4. AgentOfStarted(r)' /\ AgentInLease(r)'
    BY <1>0, <1>1 DEF RunSafe, AgentOfStarted, AgentInLease, Started
  <1>5. ASSUME NEW k \in Callers PROVE StoppedFirst(r, k)'
    BY <1>0, <1>2 DEF RunSafe, StoppedFirst, InUse, IsLive, RelPcs
  <1> QED
    BY <1>3, <1>4, <1>5 DEF RunSafe

\* A step on behalf of r, seen by another Run.
LEMMA OthersStay ==
    ASSUME IInv, Ground, NEW r \in Runs, NEW q \in Runs, q # r,
           OnlyOwner(r), OnlyRow(r), \A k \in Callers : caller'[q][k] = caller[q][k],
           agentIn'[q] \in {agentIn[q], None}, UNCHANGED lease \/ Active(r)
    PROVE  Stays(q)
  BY DEF Ground, OneActive, OnlyOwner, OnlyRow, Stays

\* The status of every Run but r stays, and that of r stays unless it was not started, or it
\* ends when the Lease is not in use.
LEMMA InUseKept ==
    ASSUME IInv, InUseByStarted, NEW r \in Runs, OnlyRow(r),
           \/ UNCHANGED lease
           \/ ~InUse'
           \/ status[r] \in Started /\ status'[r] = status[r],
           \/ ~InUse'
           \/ status[r] \in Started => status'[r] \in Started
    PROVE  InUseByStarted'
  <1> SUFFICES ASSUME InUse' PROVE \E q \in Runs : status'[q] \in Started
    BY DEF InUseByStarted
  <1>1. CASE status[r] \in Started
    BY <1>1
  <1>2. CASE status[r] \notin Started
    <2>1. PICK q \in Runs : status[q] \in Started
      BY <1>2 DEF InUseByStarted, InUse
    <2> QED
      BY <1>2, <2>1 DEF OnlyRow
  <1> QED
    BY <1>1, <1>2

LEMMA OwnerMovesInUse ==
    ASSUME IInv, Legal, Ground, InUseByStarted, NEW r \in Runs, RunSafe(r), OwnerMoves(r)
    PROVE  InUseByStarted'
  <1>1. StoreTypeOK /\ OnlyRow(r) /\ OwnerLease(r)
    BY GroundTypes, OwnerMovesRow, OwnerMovesLease
  <1>2. UNCHANGED lease \/ ~InUse' \/ (status[r] \in Started /\ status'[r] = status[r])
    BY <1>1, StartedActive
       DEF OwnerLease, InUse, Legal, OwnerLegal, LegalOwner, runRows
  <1>3. CASE status'[r] \in Started
    BY <1>1, <1>2, <1>3, InUseKept
  <1>4. CASE status[r] \notin Started
    BY <1>1, <1>2, <1>4, InUseKept
  <1>5. CASE status[r] \in Started /\ status'[r] \notin Started
    <2>1. mgr[r].pc \in {"completeCommit", "succeed", "failCommit"} /\ UNCHANGED lease
      BY <1>1, <1>5
         DEF OwnerMoves, DidStartup, DidEnsureSandbox, DidRefreshAfterReady, DidConfigureAgent,
           DidSpawnAgent, DidPromptAgent, DidPersistProcessRef, DidMarkRunning, DidEvents,
           DidAgentEnds, DidHandleCompletion, DidCatchEventError, DidDeadlinePasses,
           DidRefreshBeforeCancel, DidTerminate, DidFail, DidDuration, DidComplete,
           DidRefreshFault, DidLease, DidRun, storeVars, runRows, Transition, SetProcessRef,
           StoreTypeOK, At, Started
    <2>2. ~InUse'
      BY <1>5, <2>1, StartedActive DEF RunSafe, OwnSafe, ReleasedBeforeEnd, InUse
    <2> QED
      BY <1>1, <2>2, InUseKept
  <1> QED
    BY <1>3, <1>4, <1>5

LEMMA CallerMovesInUse ==
    ASSUME IInv, InUseByStarted, NEW r \in Runs, NEW k \in Callers, RunSafe(r), CallerMoves(r, k)
    PROVE  InUseByStarted'
  <1>1. /\ StoreTypeOK /\ OnlyRow(r) /\ CallerRow(r, k) /\ CallerLease(r, k) /\ StoppedFirst(r, k)
    BY GroundTypes, CallerMovesRow, CallerMovesRowOwn, CallerMovesLease DEF RunSafe, StoppedFirst
  <1>2. UNCHANGED lease \/ ~InUse'
    BY <1>1 DEF CallerLease, InUse
  <1>3. CASE caller[r][k].pc = "finish" /\ Active(r)
    <2>1. ~InUse /\ UNCHANGED lease
      BY <1>1, <1>3 DEF StoppedFirst, CallerLease
    <2> QED
      BY <1>1, <2>1, InUseKept DEF InUse
  <1>4. CASE ~(caller[r][k].pc = "finish" /\ Active(r))
    <2>1. status[r] \in Started => status'[r] \in Started
      BY <1>1, <1>4 DEF CallerRow, Started
    <2> QED
      BY <1>1, <1>2, <2>1, InUseKept
  <1> QED
    BY <1>3, <1>4

\* Every step keeps Safe.
LEMMA NextSafe ==
    ASSUME IInv, Legal, Ground, OverlapShows, Safe, Next
    PROVE  Safe'
  <1>0. StoreStep /\ ProviderStep /\ StoreTypeOK /\ OwnersSound /\ CallersTyped /\ RefsKnown
    BY NextIsStoreStep, GroundTypes DEF StoreStep, Ground
  <1>1. ASSUME NEW q \in Runs, Stays(q) PROVE RunSafe(q)'
    BY <1>0, <1>1, StaysSafe DEF Safe
  <1>2. ASSUME NEW r \in Runs, DidCreate(r) PROVE Safe'
    <2>1. OnlyRow(r) /\ UNCHANGED <<lease, agentIn, caller, mgr>> /\ OnlyOwner(r)
      BY <1>0, <1>2, OnlyRowMoves DEF DidCreate, providerVars, OnlyOwner
    <2>2. RunSafe(r)'
      BY <1>2, CreateMovesSafe DEF Safe
    <2>3. \A q \in Runs \ {r} : RunSafe(q)'
      BY <1>1, <2>1, OthersStay
    <2>4. InUseByStarted'
      <3>1. status[r] \in Started => status'[r] \in Started
        BY <1>0, <1>2 DEF DidCreate, InsertQueued, Transition, CanTransition, runRows,
                          StoreTypeOK, Started
      <3> QED
        BY <2>1, <3>1, InUseKept DEF Safe
    <2> QED
      BY <2>2, <2>3, <2>4 DEF Safe
  <1>3. ASSUME NEW r \in Runs, NEW k \in Callers, CallerMoves(r, k) PROVE Safe'
    <2>1. /\ OnlyRow(r) /\ OnlyCaller(r, k) /\ \A q \in Runs : agentIn'[q] \in {agentIn[q], None}
          /\ UNCHANGED lease \/ Active(r)
      BY <1>0, <1>3, CallerMovesRow, CallerMovesAlone, CallerMovesAgent, CallerMovesLease
         DEF CallerLease
    <2>2. OnlyOwner(r)
      BY <1>0, <1>3, GroundTypes, CallerMovesOwner, ClaimMoves DEF Ends, OnlyOwner
    <2>3. \A q \in Runs \ {r} : RunSafe(q)'
      BY <1>1, <2>1, <2>2, OthersStay DEF OnlyCaller
    <2>4. OwnSafe(r)' /\ AgentOfStarted(r)' /\ AgentInLease(r)'
      BY <1>0, <1>3, CallerMovesOwnSafe, CallerMovesAgentSafe DEF Safe
    <2>5. \A j \in Callers : StoppedFirst(r, j)'
      BY <1>0, <1>3, CallerMovesStopped, CallerMovesOthersStopped DEF Safe
    <2>6. InUseByStarted'
      BY <1>3, CallerMovesInUse DEF Safe
    <2> QED
      BY <2>3, <2>4, <2>5, <2>6 DEF Safe, RunSafe
  <1>4. ASSUME NEW r \in Runs, OwnerMoves(r), UNCHANGED serviceVars PROVE Safe'
    <2>1. OnlyRow(r) /\ OnlyOwner(r) /\ UNCHANGED caller /\ (UNCHANGED lease \/ Active(r))
      BY <1>0, <1>4, OwnerMovesRow, OwnerMovesAlone, OwnerMovesLease DEF OwnerLease, serviceVars
    <2>2. \A q \in Runs \ {r} : agentIn'[q] \in {agentIn[q], None}
      BY <1>0, <1>4, OwnerMovesOtherAgents
    <2>3. \A q \in Runs \ {r} : RunSafe(q)'
      BY <1>1, <2>1, <2>2, OthersStay
    <2>4. RunSafe(r)'
      BY <1>0, <1>4, <2>1, OwnerMovesSafe DEF Safe
    <2>5. InUseByStarted'
      BY <1>4, OwnerMovesInUse DEF Safe
    <2> QED
      BY <2>3, <2>4, <2>5 DEF Safe
  <1>5. CASE OthersMove
    <2>1. \A q \in Runs : agentIn'[q] \in {agentIn[q], None}
      BY <1>0, <1>5 DEF OthersMove, DestroySandbox, KillProcess, StoreTypeOK, providerVars
    <2>2. \A q \in Runs : Stays(q)
      BY <1>5, <2>1 DEF OthersMove, Stays, runRows, NoActiveRun
    <2>3. InUseByStarted'
      BY <1>5 DEF OthersMove, WriteLease, InUse, InUseByStarted, Safe, runRows
    <2> QED
      BY <1>1, <2>2, <2>3 DEF Safe
  <1> QED
    BY <1>2, <1>3, <1>4, <1>5, ServiceNextMoves, OtherMoves DEF Next, ServiceMoves

LEMMA InitSafe == Init => Safe
  BY DEF Init, CoordinatorInit, ServiceInit, StoreInit, NoManagedRun, NoCaller, Safe, RunSafe,
         OwnSafe, InUseByStarted, InUse, ReleasedBeforeEnd, NoAgentYet, AgentHeld, AgentEnded,
         NoRefYet, SpawnsInLease, AgentOfStarted, AgentInLease, StoppedFirst, Active,
         ActiveStatuses, FailPcs, CompletePcs, FinishedPcs

\* The inductive invariant.
SafetyInv == IInv /\ Legal /\ Ground /\ (OverlapShows => Safe)

LEMMA InductiveSafety == Spec => []SafetyInv
  <1>1. Init => SafetyInv
    BY InitIInv, InitLegal, InitGround, InitSafe DEF SafetyInv
  <1>2. ASSUME SafetyInv, [Next]_vars PROVE SafetyInv'
    <2>1. CASE Next
      BY <1>2, <2>1, NextIInv, NextLegal, NextGround, NextSafe DEF SafetyInv, OverlapShows
    <2>2. CASE UNCHANGED vars
      <3>1. UNCHANGED vars /\ UNCHANGED <<storeVars, mgr, dispatch, dispatched, caller, reclaim>>
        BY <2>2 DEF vars, serviceVars
      <3>2. IInv'
        BY <1>2, NextIInv DEF SafetyInv
      <3>3. Legal'
        BY <1>2, <3>1 DEF SafetyInv, storeVars, Legal, OwnerLegal, LegalOwner, CreatorLegal,
                          CallerLegal
      <3>4. Ground'
        BY <1>2, <3>1
           DEF SafetyInv, storeVars, Ground, RefsKnown, Known, VersionsPast, StartupAll,
               StartupOwner, InTurn, NoStartup, Beside, Orderly, OneActive, Active
      <3>5. Safe => Safe'
        <4>1. UNCHANGED <<status, processRef, lease, sandbox, agentIn, mgr, caller>>
          BY <3>1 DEF storeVars
        <4>2. \A q \in Runs : RunSafe(q) => RunSafe(q)'
          BY <4>1
             DEF RunSafe, OwnSafe, InUse, ReleasedBeforeEnd, NoAgentYet, AgentHeld, AgentEnded,
                 NoRefYet, SpawnsInLease, AgentOfStarted, AgentInLease, StoppedFirst, Active,
                 IsLive
        <4> QED
          BY <4>1, <4>2 DEF Safe, InUseByStarted, InUse
      <3> QED
        BY <1>2, <3>2, <3>3, <3>4, <3>5 DEF SafetyInv, OverlapShows
    <2> QED
      BY <1>2, <2>1, <2>2
  <1> QED
    BY <1>1, <1>2, PTL DEF Spec

\* The agent of a Run that has ended is not alive: whoever ends a Run has stopped its
\* process first, or the sandbox that it lived in, or has lost the race to another that did
\* (ManagedRun.complete, fail; releaseRunProcess).
THEOREM NoAgentAfterTerminalCorrect ==
    ASSUME OverlapShows
    PROVE  Spec => []NoAgentAfterTerminal
  <1>1. SafetyInv => NoAgentAfterTerminal
    BY StartedActive DEF SafetyInv, Safe, RunSafe, AgentOfStarted, NoAgentAfterTerminal
  <1> QED
    BY <1>1, InductiveSafety, PTL

\* An agent lives only in the sandbox that the Lease names: nothing writes another
\* reference while it runs (updateLeaseForRun; SandboxReclaimer.readIdle).
THEOREM AgentInLeasedSandboxCorrect ==
    ASSUME OverlapShows
    PROVE  Spec => []AgentInLeasedSandbox
  <1>1. SafetyInv => AgentInLeasedSandbox
    BY DEF SafetyInv, Safe, RunSafe, AgentInLease, AgentInLeasedSandbox
  <1> QED
    BY <1>1, InductiveSafety, PTL

\* A Lease that is starting, ready or busy belongs to a Run that was claimed and has not
\* ended: the Lease is given back before the terminal status is written (markLease).
THEOREM LeaseInUseCorrect ==
    ASSUME OverlapShows
    PROVE  Spec => []LeaseInUseOnlyByActiveRun
  <1>1. SafetyInv => LeaseInUseOnlyByActiveRun
    BY StartedActive DEF SafetyInv, Safe, InUseByStarted, InUse, LeaseInUseOnlyByActiveRun
  <1> QED
    BY <1>1, InductiveSafety, PTL

-----------------------------------------------------------------------------
(* The process reference, and who may stop a whole sandbox.                *)

\* What the owner knows of its process agrees with the reference it has saved.
ProcInOrder(m) ==
    /\ m.pc \in {"markStarting", "ensure", "markReady", "afterReady", "configure"}
         => m.proc = "unstarted"
    /\ m.pc \in {"prompt", "persist"} => m.proc = "held"
    /\ m.pc = "stopSandbox" => m.proc = "attempted"

\* The reference is saved after the process has started, and while the Run runs.
RefFollowsProcess(r) ==
    /\ ProcInOrder(mgr[r])
    /\ mgr[r].pc = "none" => ~processRef[r]
    /\ mgr[r].pc \notin FinishedPcs /\ mgr[r].proc \in {"unstarted", "attempted"} => ~processRef[r]

\* A caller in releaseRunProcess knows of the reference.
RefKnown(r, k) == Beside(r, k) /\ ~caller[r][k].ref => ~processRef[r]

\* The strengthening of StopsSandboxOnlyWithoutProcessRef.
RefsAgree ==
    \A r \in Runs : RefFollowsProcess(r) /\ \A k \in Callers : RefKnown(r, k)

\* A guarded UPDATE drops the reference only with a terminal status.
LEMMA TransitionRef ==
    ASSUME StoreTypeOK, NEW r \in Runs
    PROVE  /\ \A from, to : Transition(r, from, to) =>
                /\ status[r] = from /\ status'[r] = to /\ canTransitionAgentRun(from, to)
                /\ ~Terminal(r)
                /\ processRef'[r] = (processRef[r] /\ ~isTerminalAgentRun(to))
           /\ CompleteSucceeded(r) => Terminal(r)' /\ ~processRef'[r]
           /\ SetProcessRef(r) => processRef'[r] /\ status'[r] = status[r]
           /\ UNCHANGED runRows => processRef'[r] = processRef[r] /\ status'[r] = status[r]
           /\ UNCHANGED storeVars => processRef'[r] = processRef[r] /\ status'[r] = status[r]
           /\ InsertQueued(r) => processRef'[r] = processRef[r] /\ status'[r] = "queued"
  BY DEF StoreTypeOK, Transition, CanTransition, CompleteSucceeded, SetProcessRef, InsertQueued,
         runRows, storeVars, Terminal, isTerminalAgentRun, TerminalStatuses,
         canTransitionAgentRun, ActiveStatuses

\* Only the owner that persists it sets a process reference.
OwnerRow(r) ==
    /\ processRef'[r] => processRef[r] \/ mgr[r].pc = "persist"
    /\ \/ status'[r] = status[r] /\ (processRef[r] => processRef'[r])
       \/ Terminal(r)'
       \/ mgr[r].pc = "markRunning" /\ status'[r] = "running" /\ processRef'[r] = processRef[r]
            /\ ~Terminal(r)
       \/ status'[r] = "cancelling" /\ processRef'[r] = processRef[r] /\ ~Terminal(r)

LEMMA OwnerMovesRowOwn ==
    ASSUME StoreTypeOK, OwnersSound, NEW r \in Runs, OwnerMoves(r)
    PROVE  OwnerRow(r)
  <1> USE DEF OwnerRow
  <1>0. /\ UNCHANGED runRows => processRef'[r] = processRef[r] /\ status'[r] = status[r]
        /\ UNCHANGED storeVars => processRef'[r] = processRef[r] /\ status'[r] = status[r]
    BY TransitionRef
  <1>1. ASSUME NEW to, NEW next, DidRun(r, to, next), to = "cancelling" \/ isTerminalAgentRun(to)
        PROVE  OwnerRow(r)
    <2>1. CASE UNCHANGED runRows
      BY <1>0, <2>1
    <2>2. CASE Transition(r, mgr[r].st, to)
      <3>1. /\ status'[r] = to /\ ~Terminal(r)
            /\ processRef'[r] = (processRef[r] /\ ~isTerminalAgentRun(to))
        BY <2>2, TransitionRef
      <3>2. CASE isTerminalAgentRun(to)
        BY <3>1, <3>2 DEF Terminal
      <3>3. CASE to = "cancelling" /\ ~isTerminalAgentRun(to)
        <4>1. processRef'[r] = processRef[r]
          BY <3>1, <3>3, Zenon DEF StoreTypeOK
        <4> QED
          BY <3>1, <3>3, <4>1
      <3> QED
        BY <1>1, <3>2, <3>3
    <2> QED
      BY <1>1, <2>1, <2>2 DEF DidRun
  <1>2. CASE DidPersistProcessRef(r)
    BY <1>0, <1>2, TransitionRef DEF DidPersistProcessRef, At
  <1>3. CASE DidMarkRunning(r)
    <2>1. CASE UNCHANGED runRows
      BY <1>0, <2>1
    <2>2. CASE Transition(r, "starting", "running")
      <3>1. /\ status[r] = "starting" /\ status'[r] = "running"
            /\ processRef'[r] = (processRef[r] /\ ~isTerminalAgentRun("running"))
        BY <2>2, TransitionRef
      <3>2. ~isTerminalAgentRun("running") /\ ~isTerminalAgentRun("starting")
        BY DEF isTerminalAgentRun, TerminalStatuses
      <3>3. processRef'[r] = processRef[r]
        BY <3>1, <3>2, Zenon DEF StoreTypeOK
      <3> QED
        BY <1>3, <3>1, <3>2, <3>3 DEF DidMarkRunning, At, Terminal
    <2> QED
      BY <1>3, <2>1, <2>2 DEF DidMarkRunning
  <1>4. CASE DidStartup(r) /\ ~DidPersistProcessRef(r) /\ ~DidMarkRunning(r)
    BY <1>0, <1>4
       DEF DidStartup, DidEnsureSandbox, DidRefreshAfterReady, DidConfigureAgent, DidSpawnAgent,
           DidPromptAgent, DidLease
  <1>5. CASE DidEvents(r)
    BY <1>0, <1>1, <1>5
       DEF DidEvents, DidAgentEnds, DidHandleCompletion, DidCatchEventError,
           DidDeadlinePasses, DidRefreshBeforeCancel
  <1>6. CASE DidTerminate(r)
    BY <1>0, <1>6 DEF DidTerminate
  <1>7. CASE DidFail(r)
    BY <1>0, <1>1, <1>7 DEF DidFail, DidDuration, DidLease, isTerminalAgentRun, TerminalStatuses
  <1>8. CASE DidComplete(r)
    <2>1. ASSUME At(r, "completeCommit"), DidRun(r, mgr[r].goal, "done") PROVE OwnerRow(r)
      <3>1. CASE UNCHANGED runRows
        BY <1>0, <3>1
      <3>2. CASE Transition(r, mgr[r].st, mgr[r].goal)
        <4>1. isTerminalAgentRun(mgr[r].goal) \/ mgr[r].goal = "fail"
          BY RefreshedTyped DEF ManagedRuns, Goals, isTerminalAgentRun, TerminalStatuses
        <4>2. mgr[r].goal # "fail"
          BY <3>2 DEF Transition, CanTransition, canTransitionAgentRun, allowedTransitions,
                      ActiveStatuses
        <4> QED
          BY <1>1, <2>1, <4>1, <4>2
      <3> QED
        BY <2>1, <3>1, <3>2 DEF DidRun
    <2>2. CASE At(r, "succeed")
      BY <1>0, <1>8, <2>2, TransitionRef DEF DidComplete, At
    <2> QED
      BY <1>0, <1>8, <2>1, <2>2 DEF DidComplete, DidDuration, DidLease
  <1>9. CASE DidRefreshFault(r)
    BY <1>0, <1>9 DEF DidRefreshFault
  <1> QED
    BY <1>2, <1>3, <1>4, <1>5, <1>6, <1>7, <1>8, <1>9 DEF OwnerMoves

\* The process is started in order, and no step but configure forgets that it was.
OwnerProc(r) ==
    /\ ProcInOrder(mgr'[r])
    /\ mgr'[r].pc # "none"
    /\ mgr'[r].pc \notin FinishedPcs =>
         \/ mgr'[r].proc = mgr[r].proc
         \/ mgr'[r].proc \in {"held", "stopped"}
         \/ mgr[r].pc = "configure" /\ mgr'[r].proc = "attempted"
    /\ mgr[r].pc \notin FinishedPcs

LEMMA OwnerMovesProc ==
    ASSUME OwnersSound, NEW r \in Runs, OwnerMoves(r), ProcInOrder(mgr[r])
    PROVE  OwnerProc(r)
  <1> USE DEF OwnerProc, ProcInOrder, FinishedPcs
  <1>1. ASSUME NEW st, Throws(r, st, mgr[r].proc) \/ Throws(r, st, "stopped"),
               mgr[r].pc \notin FinishedPcs
        PROVE  OwnerProc(r)
    BY <1>1 DEF Throws
  <1>2. ASSUME NEW newStatus, NEW next, DidLease(r, newStatus, next),
               mgr[r].pc \notin FinishedPcs,
               next \notin {"none", "prompt", "persist", "stopSandbox"},
               \/ mgr[r].proc = "unstarted"
               \/ next \notin {"markStarting", "ensure", "markReady", "afterReady", "configure"}
        PROVE  OwnerProc(r)
    BY <1>1, <1>2 DEF DidLease, ThrowsAsIs
  <1>3. ASSUME NEW to, NEW next, DidRun(r, to, next), mgr[r].pc \notin FinishedPcs,
               next \in {"terminate", "done"}
        PROVE  OwnerProc(r)
    BY <1>1, <1>3 DEF DidRun, ThrowsAsIs, Goes, Ends
  <1>4. CASE DidStartup(r)
    <2>1. CASE At(r, "markStarting") \/ At(r, "markReady") \/ At(r, "markBusy")
      BY <1>2, <1>4, <2>1
         DEF DidStartup, At, DidEnsureSandbox, DidRefreshAfterReady, DidConfigureAgent,
             DidSpawnAgent, DidPromptAgent, DidPersistProcessRef, DidMarkRunning
    <2>2. CASE DidEnsureSandbox(r) \/ DidRefreshAfterReady(r) \/ DidConfigureAgent(r)
      BY <1>1, <2>2
         DEF DidEnsureSandbox, DidRefreshAfterReady, DidConfigureAgent, At, Goes, Fresh, Keep,
             ThrowsAsIs, ThrowsFresh
    <2>3. CASE DidSpawnAgent(r) \/ DidPromptAgent(r) \/ DidPersistProcessRef(r) \/ DidMarkRunning(r)
      BY <1>1, <2>3
         DEF DidSpawnAgent, DidPromptAgent, DidPersistProcessRef, DidMarkRunning, At, Goes, Fresh,
             Keep, ThrowsAsIs
    <2> QED
      BY <1>4, <2>1, <2>2, <2>3 DEF DidStartup
  <1>5. CASE DidEvents(r)
    BY <1>1, <1>3, <1>5
       DEF DidEvents, DidAgentEnds, DidHandleCompletion, DidCatchEventError, DidDeadlinePasses,
           DidRefreshBeforeCancel, At, Goes, Fresh, Keep, Ends, ThrowsAsIs
  <1>6. CASE DidTerminate(r)
    BY <1>1, <1>6
       DEF DidTerminate, DidTerminated, At, Goes, Fresh, Keep, ThrowsAsIs, ThrowsFresh
  <1>7. CASE DidFail(r)
    BY <1>1, <1>2, <1>3, <1>7
       DEF DidFail, DidDuration, At, Goes, Fresh, Keep, Ends, ThrowsAsIs
  <1>8. CASE DidComplete(r)
    BY <1>1, <1>2, <1>3, <1>8
       DEF DidComplete, DidDuration, At, Goes, Fresh, Keep, Ends, ThrowsAsIs, ThrowsFresh
  <1>9. CASE DidRefreshFault(r)
    BY <1>1, <1>9 DEF DidRefreshFault, At, ThrowsAsIs, RefreshPcs
  <1> QED
    BY <1>4, <1>5, <1>6, <1>7, <1>8, <1>9 DEF OwnerMoves

LEMMA OwnerMovesFollows ==
    ASSUME StoreTypeOK, OwnersSound, NEW r \in Runs, OwnerMoves(r), RefFollowsProcess(r)
    PROVE  RefFollowsProcess(r)'
  <1>1. OwnerRow(r) /\ OwnerProc(r)
    BY OwnerMovesRowOwn, OwnerMovesProc DEF RefFollowsProcess
  <1>2. mgr[r].pc = "persist" => mgr[r].proc = "held"
    BY DEF RefFollowsProcess, ProcInOrder
  <1>3. mgr[r].pc = "configure" => mgr[r].proc = "unstarted"
    BY DEF RefFollowsProcess, ProcInOrder
  <1> QED
    BY <1>1, <1>2, <1>3 DEF OwnerRow, OwnerProc, RefFollowsProcess

\* A caller that enters releaseRunProcess has just read the Run.
LEMMA CallerMovesKnown ==
    ASSUME StoreTypeOK, NEW r \in Runs, NEW k \in Callers, CallerMoves(r, k), CallerRow(r, k),
           caller'[r][k].pc \in RelPcs, ~caller'[r][k].ref
    PROVE  \/ caller[r][k].pc \in RelPcs /\ ~caller[r][k].ref
           \/ ~processRef'[r]
  <1> DEFINE Known2 == \/ caller[r][k].pc \in RelPcs /\ ~caller[r][k].ref
                       \/ ~processRef'[r]
  <1>1. ASSUME NEW pc, CallerKeeps(r, k, pc)
        PROVE  /\ caller'[r][k].pc = pc
               /\ pc \notin Forgetting \cup {"done"} => caller'[r][k].ref = caller[r][k].ref
    BY <1>1 DEF CallerKeeps, CallerGoes
  <1>2. ASSUME NEW pc, NEW lref, NEW lver, CallerPasses(r, k, pc, lref, lver)
        PROVE  /\ caller'[r][k].pc = pc
               /\ pc \notin Forgetting \cup {"done"} => caller'[r][k].ref = caller[r][k].ref
    BY <1>2 DEF CallerPasses, CallerGoes
  <1>3. ASSUME NEW pc, NEW target, CallerReloads(r, k, pc, target)
        PROVE  /\ caller'[r][k].pc = pc
               /\ pc \notin Forgetting \cup {"done"} => caller'[r][k].ref = processRef[r]
    BY <1>3 DEF CallerReloads, CallerGoes
  <1>4. ASSUME NEW to, NEW next, DidMoveOrConfirm(r, k, to, next), next \in {"done", "readLease"}
        PROVE  Known2
    BY <1>1, <1>4 DEF DidMoveOrConfirm, CallerGoes, RelPcs, Forgetting
  <1>5. CASE DidRelease(r, k)
    <2>1. CASE CallerAt(r, k, "readLease") \/ CallerAt(r, k, "kill") \/ CallerAt(r, k, "stop")
      BY <1>1, <1>2, <1>5, <2>1 DEF DidRelease, CallerAt, RelPcs, Forgetting
    <2>2. CASE CallerAt(r, k, "recheck") \/ CallerAt(r, k, "release")
      BY <1>1, <1>3, <1>5, <2>2 DEF DidRelease, CallerAt, RelPcs, Forgetting
    <2>3. CASE CallerAt(r, k, "reload") \/ CallerAt(r, k, "confirm")
      BY <1>3, <1>5, <2>3 DEF DidRelease, CallerAt, RelPcs, Forgetting, CallerRow
    <2>4. CASE CallerAt(r, k, "finish")
      BY <1>4, <1>5, <2>4 DEF DidRelease, CallerAt
    <2> QED
      BY <1>5, <2>1, <2>2, <2>3, <2>4 DEF DidRelease
  <1>6. CASE DidExecute(r, k)
    BY <1>1, <1>2, <1>3, <1>4, <1>6
       DEF DidExecute, DidReadRun, DidLoadOrAwait, DidClaimRun, RelPcs, Forgetting, CallerRow
  <1>7. CASE DidRequestCancel(r, k) \/ DidCancelRun(r, k)
    BY <1>3, <1>4, <1>7 DEF DidRequestCancel, DidCancelRun, RelPcs
  <1>8. CASE DidLose(r, k) \/ DidFault(r, k)
    BY <1>1, <1>8 DEF DidLose, DidFault, StoppedPcs, RelPcs
  <1> QED
    BY <1>5, <1>6, <1>7, <1>8 DEF CallerMoves

\* Every step keeps RefsAgree.
LEMMA NextRefsAgree ==
    ASSUME IInv, Legal, Ground, RefsAgree, Next,
           \A r \in Runs, k \in Callers : caller[r][k].pc = "giveUp" => caller[r][k].st = "queued"
    PROVE  RefsAgree'
  <1>0. StoreStep /\ FaultStep /\ StoreTypeOK /\ OwnersSound /\ CallersTyped
    BY NextIsStoreStep, GroundTypes DEF StoreStep
  <1>1. ASSUME NEW q \in Runs, mgr'[q] = mgr[q], processRef'[q] = processRef[q],
               \A k \in Callers : caller'[q][k] = caller[q][k]
        PROVE  RefFollowsProcess(q)' /\ \A k \in Callers : RefKnown(q, k)'
    BY <1>0, <1>1, OrderlyBefore DEF RefsAgree, RefFollowsProcess, RefKnown, Beside
  <1>2. ASSUME NEW r \in Runs, DidCreate(r) PROVE RefsAgree'
    <2>1. OnlyRow(r) /\ UNCHANGED <<caller, mgr>>
      BY <1>0, <1>2, OnlyRowMoves DEF DidCreate, OnlyOwner
    <2>2. processRef'[r] => processRef[r]
      BY <1>0, <1>2, TransitionRef DEF DidCreate
    <2>3. RefFollowsProcess(r)' /\ \A k \in Callers : RefKnown(r, k)'
      BY <1>0, <2>1, <2>2, OrderlyBefore DEF RefsAgree, RefFollowsProcess, RefKnown, Beside
    <2> QED
      BY <1>1, <2>1, <2>3 DEF RefsAgree, OnlyRow
  <1>3. ASSUME NEW r \in Runs, NEW k \in Callers, CallerMoves(r, k) PROVE RefsAgree'
    <2>1. OnlyRow(r) /\ OnlyCaller(r, k) /\ CallerRow(r, k)
      BY <1>0, <1>3, CallerMovesRow, CallerMovesAlone, CallerMovesRowOwn
    <2>2. OnlyOwner(r)
      BY <1>0, <1>3, GroundTypes, CallerMovesOwner, ClaimMoves DEF Ends, OnlyOwner
    <2>3. RefFollowsProcess(r)'
      <3>1. CASE UNCHANGED mgr
        BY <2>1, <3>1 DEF CallerRow, RefsAgree, RefFollowsProcess
      <3>2. CASE Ends(r, "dead")
        BY <3>2 DEF Ends, RefFollowsProcess, ProcInOrder, FinishedPcs
      <3>3. CASE k \in Attempts /\ Claim(r, k, caller[r][k].lref, caller[r][k].lver)
        <4>1. status[r] = "queued"
          BY <3>3 DEF Claim, Transition, CanTransition
        <4>2. mgr[r].pc = "none"
          BY <4>1 DEF Legal, OwnerLegal, LegalOwner
        <4>3. mgr'[r].pc = "markStarting" /\ mgr'[r].proc = "unstarted"
          BY <1>0, <3>3, CallerTyped, ClaimMoves DEF CallerRecords
        <4> QED
          BY <2>1, <4>2, <4>3 DEF CallerRow, RefsAgree, RefFollowsProcess, ProcInOrder
      <3> QED
        BY <1>3, <3>1, <3>2, <3>3, CallerMovesOwner
    <2>4. ASSUME NEW j \in Callers PROVE RefKnown(r, j)'
      <3>1. CASE j = k
        BY <1>0, <1>3, <2>1, <3>1, CallerMovesKnown, OrderlyBefore
           DEF CallerRow, RefsAgree, RefKnown, Beside
      <3>2. CASE j # k
        BY <1>0, <2>1, <3>2, OrderlyBefore
           DEF CallerRow, OnlyCaller, RefsAgree, RefKnown, Beside
      <3> QED
        BY <3>1, <3>2
    <2> QED
      BY <1>1, <2>1, <2>2, <2>3, <2>4 DEF RefsAgree, OnlyRow, OnlyCaller, OnlyOwner
  <1>4. ASSUME NEW r \in Runs, OwnerMoves(r), UNCHANGED serviceVars PROVE RefsAgree'
    <2>1. OnlyRow(r) /\ OnlyOwner(r) /\ UNCHANGED caller /\ OwnerRow(r)
      BY <1>0, <1>4, OwnerMovesRow, OwnerMovesAlone, OwnerMovesRowOwn DEF serviceVars
    <2>2. RefFollowsProcess(r)'
      BY <1>0, <1>4, OwnerMovesFollows DEF RefsAgree
    <2>3. \A k \in Callers : RefKnown(r, k)'
      BY <1>0, <2>1, OrderlyBefore
         DEF OwnerRow, RefsAgree, RefKnown, Beside, Ground, NoStartup, StartupPcs
    <2> QED
      BY <1>1, <2>1, <2>2, <2>3 DEF RefsAgree, OnlyRow, OnlyOwner
  <1>5. CASE OthersMove
    BY <1>1, <1>5 DEF OthersMove, runRows, RefsAgree
  <1> QED
    BY <1>2, <1>3, <1>4, <1>5, ServiceNextMoves, OtherMoves, GroundTypes DEF Next, ServiceMoves

LEMMA InitRefsAgree == Init => RefsAgree
  BY DEF Init, CoordinatorInit, ServiceInit, StoreInit, NoManagedRun, NoCaller, RefsAgree,
         RefFollowsProcess, ProcInOrder, RefKnown, Beside, RelPcs, FinishedPcs

LEMMA InductiveRefs ==
    ASSUME OverlapShows
    PROVE  Spec => [](SafetyInv /\ RefsAgree)
  <1>1. SafetyInv =>
          \A r \in Runs, k \in Callers : caller[r][k].pc = "giveUp" => caller[r][k].st = "queued"
    BY DEF SafetyInv, Safe, RunSafe, StoppedFirst
  <1>2. ASSUME SafetyInv, RefsAgree, [Next]_vars PROVE RefsAgree'
    <2>1. CASE Next
      BY <1>1, <1>2, <2>1, NextRefsAgree DEF SafetyInv
    <2>2. CASE UNCHANGED vars
      BY <1>2, <2>2
         DEF vars, serviceVars, storeVars, RefsAgree, RefFollowsProcess, RefKnown, Beside,
             Orderly
    <2> QED
      BY <1>2, <2>1, <2>2
  <1> QED
    BY <1>2, InitRefsAgree, InductiveSafety, PTL DEF Spec

\* Only two steps made for a Run stop a sandbox.
LEMMA OwnerDestroys ==
    ASSUME StoreTypeOK, NEW r \in Runs, OwnerMoves(r), NEW s \in Runs, IsLive(s), ~IsLive(s)'
    PROVE  mgr[r].pc = "stopSandbox" /\ s = mgr[r].ref /\ mgr'[r].proc = "stopped"
  <1>1. sandbox'[s] # "live" /\ sandbox[s] = "live"
    BY DEF IsLive
  <1>2. /\ \A q \in Runs : \A u : KillProcess(q, u) => sandbox'[s] = sandbox[s]
        /\ UNCHANGED providerVars => sandbox'[s] = sandbox[s]
        /\ UNCHANGED storeVars => sandbox'[s] = sandbox[s]
        /\ CreateSandbox(r) => sandbox'[s] \in {sandbox[s], "live"}
        /\ \A u : StartProcess(r, u) => sandbox'[s] = sandbox[s]
        /\ \A u : DestroySandbox(u) => sandbox'[s] = sandbox[s] \/ s = u
    BY DEF KillProcess, providerVars, storeVars, CreateSandbox, StartProcess, DestroySandbox,
           StoreTypeOK
  <1>3. ASSUME NEW newStatus, NEW next,
               DidLease(r, newStatus, next) PROVE sandbox'[s] = sandbox[s]
    BY <1>2, <1>3 DEF DidLease
  <1>4. ASSUME NEW to, NEW next, DidRun(r, to, next) PROVE sandbox'[s] = sandbox[s]
    BY <1>2, <1>4 DEF DidRun
  <1>5. ~DidStartup(r)
    BY <1>1, <1>2, <1>3
       DEF DidStartup, DidEnsureSandbox, DidRefreshAfterReady, DidConfigureAgent, DidSpawnAgent,
           DidPromptAgent, DidPersistProcessRef, DidMarkRunning
  <1>6. ~DidEvents(r)
    BY <1>1, <1>2, <1>4
       DEF DidEvents, DidAgentEnds, DidHandleCompletion, DidCatchEventError, DidDeadlinePasses,
           DidRefreshBeforeCancel
  <1>7. ~DidFail(r) /\ ~DidComplete(r) /\ ~DidRefreshFault(r)
    BY <1>1, <1>2, <1>3, <1>4 DEF DidFail, DidDuration, DidComplete, DidRefreshFault
  <1>8. DidTerminate(r)
    BY <1>5, <1>6, <1>7 DEF OwnerMoves
  <1> QED
    BY <1>1, <1>2, <1>8 DEF DidTerminate, At, DidTerminated, Goes

LEMMA CallerDestroys ==
    ASSUME StoreTypeOK, NEW r \in Runs, NEW k \in Callers, CallerMoves(r, k),
           NEW s \in Runs, IsLive(s), ~IsLive(s)'
    PROVE  caller[r][k].pc = "stop" /\ s = caller[r][k].lref /\ caller'[r][k].pc # "stop"
  <1>1. sandbox'[s] # "live" /\ sandbox[s] = "live"
    BY DEF IsLive
  <1>2. /\ \A q \in Runs : \A u : KillProcess(q, u) => sandbox'[s] = sandbox[s]
        /\ UNCHANGED providerVars => sandbox'[s] = sandbox[s]
        /\ \A u : DestroySandbox(u) => sandbox'[s] = sandbox[s] \/ s = u
    BY DEF KillProcess, providerVars, DestroySandbox, StoreTypeOK
  <1>3. DidRelease(r, k)
    BY <1>1, <1>2
       DEF CallerMoves, DidExecute, DidReadRun, DidLoadOrAwait, DidClaimRun, Claim,
           DidMoveOrConfirm, DidRequestCancel, DidCancelRun, DidLose, DidFault
  <1> QED
    BY <1>1, <1>2, <1>3 DEF DidRelease, DidMoveOrConfirm, CallerAt, CallerKeeps, CallerGoes

\* A whole sandbox is stopped for a Run only while no process reference of it exists (ADR-0003),
\* unless an attempt may start beside one that is still in flight (the run whole_stop).
THEOREM StopsSandboxCorrect ==
    ASSUME ~StepTimeout
    PROVE  Spec => StopsSandboxOnlyWithoutProcessRef
  <1> DEFINE A == \A s, r \in Runs : IsLive(s) /\ ~IsLive(s)' /\ ActsFor(r) => ~processRef[r]
  <1>1. ASSUME SafetyInv, SafetyInv', RefsAgree, [Next]_vars PROVE [A]_vars
    <2> SUFFICES ASSUME Next, NEW s \in Runs, NEW r \in Runs, IsLive(s), ~IsLive(s)', ActsFor(r)
                 PROVE  ~processRef[r]
      BY <1>1
    <2>0. /\ IInv /\ Legal /\ Ground /\ Safe /\ StoreTypeOK /\ OwnersSound
          /\ CallersTyped /\ CallersTyped'
      BY <1>1, GroundTypes DEF SafetyInv, OverlapShows, IInv, ServiceTypeOK
    <2>1. ASSUME NEW q \in Runs, DidCreate(q) PROVE FALSE
      BY <2>1 DEF DidCreate, providerVars, IsLive
    <2>2. ASSUME NEW q \in Runs, NEW k \in Callers, CallerMoves(q, k) PROVE ~processRef[r]
      <3>1. caller[q][k].pc = "stop"
        BY <2>0, <2>2, CallerDestroys
      <3>2. OnlyCaller(q, k) /\ OnlyOwner(q)
        BY <2>0, <2>2, CallerMovesAlone, CallerMovesOwner, ClaimMoves, CallerTyped
           DEF Ends, OnlyOwner, CallerRecords
      <3>3. r = q
        <4> SUFFICES ASSUME r # q PROVE FALSE
          OBVIOUS
        <4>1. caller'[r] = caller[r]
          BY <2>0, <3>2 DEF OnlyCaller, CallersTyped
        <4> QED
          BY <3>2, <4>1 DEF OnlyOwner, ActsFor
      <3>4. ~caller[r][k].ref /\ Beside(r, k)
        BY <2>0, <3>1, <3>3 DEF Safe, RunSafe, StoppedFirst, Beside, Orderly, RelPcs
      <3> QED
        BY <1>1, <3>4 DEF RefsAgree, RefKnown
    <2>3. ASSUME NEW q \in Runs, OwnerMoves(q), UNCHANGED serviceVars PROVE ~processRef[r]
      <3>1. mgr[q].pc = "stopSandbox"
        BY <2>0, <2>3, OwnerDestroys
      <3>2. r = q
        BY <2>3, OwnerMovesAlone DEF OnlyOwner, ActsFor, serviceVars
      <3> QED
        BY <1>1, <3>1, <3>2 DEF RefsAgree, RefFollowsProcess, ProcInOrder, FinishedPcs
    <2>4. CASE OthersMove
      BY <2>4 DEF OthersMove, ActsFor
    <2> QED
      BY <2>0, <2>1, <2>2, <2>3, <2>4, ServiceNextMoves, OtherMoves DEF Next, ServiceMoves
  <1>2. OverlapShows
    BY DEF OverlapShows
  <1> QED
    BY <1>1, <1>2, InductiveRefs, PTL DEF Spec, StopsSandboxOnlyWithoutProcessRef

-----------------------------------------------------------------------------
(* Whose sandbox a step may stop.                                          *)

\* The process reference is there, unless the Run has ended.
RefOrEnd(r) == processRef[r] \/ Terminal(r)

\* How far an owner has come, told from its record.
OwnerRecord(m) ==
    /\ m.pc \in {"markBusy", "markRunning"} => m.proc = "held"
    /\ m.pc \in {"consume", "exited", "catch"} => m.ctx = "events"
    /\ m.pc \in CancelPcs => m.ctx = "cancel"
    /\ m.ctx = "cancel" => m.timer # "unset"
    /\ m.pc \notin FinishedPcs /\ (m.ctx \in {"events", "cancel"} \/ m.timer # "unset")
         => m.proc \in {"held", "stopped"}
    /\ m.pc \notin FinishedPcs /\ m.proc = "attempted" => m.pc = "spawn" \/ m.ctx = "fail"
    /\ m.lost => m.pc \in FinishedPcs \cup {"rejected"} \/ m.timer # "unset"
    /\ m.pc = "none" => m.ref = None /\ m.lref = None

\* The attempt that built an owner waits until the completion or the deadline is rejected.
OwnerAwaited(r) ==
    mgr[r].pc \notin FinishedPcs \cup {"rejected"} /\ mgr[r].timer = "unset" =>
        mgr[r].by \in Attempts /\ caller[r][mgr[r].by].pc = "wait"

\* The reference is there once the owner has saved it.
RefPresent(r) ==
    /\ status[r] = "running" => processRef[r]
    /\ mgr[r].pc \in {"markBusy", "markRunning"} \/ mgr[r].timer # "unset" => RefOrEnd(r)

\* An owner that may stop its sandbox still owns an active Run.
AttemptedActive(r) ==
    mgr[r].pc \in {"spawn", "terminate", "stopSandbox"} /\ mgr[r].proc = "attempted" => Active(r)

\* A cancel request releases a process whose reference was saved, and knows it.
CancellerKnows(r, k) ==
    /\ caller[r][k].pc \in {"readLease", "kill", "recheck", "stop", "release"} => caller[r][k].ref
    /\ caller[r][k].pc \in RelPcs => RefOrEnd(r)

\* An attempt that stops a sandbox stops that of an active Run.
AttemptStops(r, k) == caller[r][k].pc = "stop" => Active(r)

\* All of it for one Run.
RunSpares(r) ==
    /\ OwnerRecord(mgr[r]) /\ OwnerAwaited(r) /\ RefPresent(r) /\ AttemptedActive(r)
    /\ \A k \in Cancellers : CancellerKnows(r, k)
    /\ \A k \in Attempts : AttemptStops(r, k)
    /\ \A k \in Callers : caller[r][k].pc = "idle" => caller[r][k].lref = None

\* A detached sandbox is known to no active Run.
Unknown(s, r) ==
    /\ mgr[r].ref # s /\ mgr[r].lref # s
    /\ \A k \in Callers : caller[r][k].lref # s

\* A cleanup that has detached the sandbox from the Lease holds what nobody else does.
Detached(c) ==
    /\ Known(reclaim[c].lref)
    /\ reclaim[c].pc = "stop" /\ IsLive(reclaim[c].lref) =>
         /\ lease.ref # reclaim[c].lref
         /\ \A r \in Runs : Active(r) => Unknown(reclaim[c].lref, r)

\* The strengthening of SparesForeignSandbox.
Spares == \A r \in Runs : RunSpares(r)
DetachedUnknown == \A c \in Reclaims : Detached(c)

\* How the record of an owner moves on.
OwnerRecordMoves(r) ==
    /\ OwnerRecord(mgr'[r])
    /\ mgr'[r].by = mgr[r].by
    /\ mgr[r].timer # "unset" => mgr'[r].timer # "unset"
    /\ mgr'[r].timer # "unset" => mgr[r].timer # "unset" \/ mgr[r].pc = "markRunning"
    /\ mgr[r].pc = "rejected" => mgr[r].timer # "unset"
    /\ mgr'[r].pc \in {"markBusy", "markRunning"} =>
         mgr[r].pc = "markBusy" \/ (mgr[r].pc = "persist" /\ processRef'[r])
    /\ mgr'[r].pc \in {"spawn", "terminate", "stopSandbox"} /\ mgr'[r].proc = "attempted" =>
         /\ status'[r] = status[r]
         /\ mgr[r].proc = "attempted" \/ status[r] = "starting"
         /\ \/ mgr[r].pc = "configure"
            \/ mgr[r].pc = "spawn"
            \/ mgr[r].pc = "terminate"

LEMMA OwnerMovesRecord ==
    ASSUME StoreTypeOK, OwnersSound, NEW r \in Runs, OwnerMoves(r), StartupOwner(r),
           ProcInOrder(mgr[r]), OwnerRecord(mgr[r])
    PROVE  OwnerRecordMoves(r)
  <1> USE DEF OwnerRecordMoves, OwnerRecord, ProcInOrder, FinishedPcs, CancelPcs
  <1>0. /\ mgr[r].ctx \in {"start", "events", "cancel", "fail"}
        /\ mgr[r].timer \in {"unset", "armed", "fired", "rejected"}
        /\ mgr[r].pc \in StartupPcs =>
             mgr[r].timer = "unset" /\ ~mgr[r].lost /\ mgr[r].ctx = "start"
        /\ UNCHANGED runRows => status'[r] = status[r]
        /\ UNCHANGED storeVars => status'[r] = status[r]
        /\ SetProcessRef(r) => processRef'[r]
    BY TransitionRef, RefreshedTyped DEF ManagedRuns, StartupOwner
  <1>1. ASSUME NEW st, NEW proc, Throws(r, st, proc), proc \in {mgr[r].proc, "stopped"},
               mgr[r].pc \notin FinishedPcs \cup {"rejected"},
               \/ mgr[r].pc = "spawn" /\ status'[r] = status[r]
               \/ mgr[r].pc = "configure" /\ proc = "unstarted"
               \/ mgr[r].pc \notin {"spawn", "configure"}
        PROVE  OwnerRecordMoves(r)
    <2>1. CASE mgr[r].ctx = "start"
      BY <1>0, <1>1, <2>1 DEF Throws
    <2>2. CASE mgr[r].ctx = "events"
      BY <1>0, <1>1, <2>2 DEF Throws
    <2>3. CASE mgr[r].ctx = "cancel"
      BY <1>0, <1>1, <2>3 DEF Throws
    <2>4. CASE mgr[r].ctx = "fail"
      BY <1>0, <1>1, <2>4 DEF Throws
    <2> QED
      BY <1>0, <2>1, <2>2, <2>3, <2>4
  <1>2. ASSUME NEW newStatus, NEW next, DidLease(r, newStatus, next),
               mgr[r].pc \notin FinishedPcs \cup {"rejected", "spawn", "configure"},
               next \in {"ensure", "afterReady", "markRunning", "failCommit", "succeed",
                         "completeDuration"},
               next = "markRunning" => mgr[r].pc = "markBusy"
        PROVE  OwnerRecordMoves(r)
    BY <1>0, <1>1, <1>2 DEF DidLease, ThrowsAsIs
  <1>3. ASSUME NEW to, NEW next, DidRun(r, to, next),
               mgr[r].pc \notin FinishedPcs \cup {"rejected", "spawn", "configure"},
               \/ next = "done"
               \/ next = "terminate" /\ mgr[r].ctx = "cancel"
        PROVE  OwnerRecordMoves(r)
    BY <1>0, <1>1, <1>3 DEF DidRun, ThrowsAsIs, Goes, Ends
  <1>4. CASE DidStartup(r)
    <2>1. CASE At(r, "markStarting") \/ At(r, "markReady") \/ At(r, "markBusy")
      BY <1>2, <1>4, <2>1
         DEF DidStartup, At, DidEnsureSandbox, DidRefreshAfterReady, DidConfigureAgent,
             DidSpawnAgent, DidPromptAgent, DidPersistProcessRef, DidMarkRunning
    <2>2. CASE DidEnsureSandbox(r) \/ DidRefreshAfterReady(r) \/ DidConfigureAgent(r)
      BY <1>0, <1>1, <2>2
         DEF DidEnsureSandbox, DidRefreshAfterReady, DidConfigureAgent, At, Goes, Fresh, Keep,
             ThrowsAsIs, ThrowsFresh, StartupPcs
    <2>3. CASE DidSpawnAgent(r) \/ DidPromptAgent(r) \/ DidPersistProcessRef(r)
      BY <1>0, <1>1, <2>3
         DEF DidSpawnAgent, DidPromptAgent, DidPersistProcessRef, At, Goes, Fresh,
             Keep, ThrowsAsIs, StartupPcs
    <2>4. CASE DidMarkRunning(r)
      BY <1>0, <1>1, <2>4 DEF DidMarkRunning, At, ThrowsAsIs, StartupPcs
    <2> QED
      BY <1>4, <2>1, <2>2, <2>3, <2>4 DEF DidStartup
  <1>5. CASE DidEvents(r)
    <2>1. CASE DidAgentEnds(r) \/ DidHandleCompletion(r)
      BY <1>0, <1>1, <2>1
         DEF DidAgentEnds, DidHandleCompletion, At, Goes, Fresh, Keep, Ends, ThrowsAsIs
    <2>2. CASE DidCatchEventError(r) \/ DidDeadlinePasses(r)
      BY <1>0, <2>2 DEF DidCatchEventError, DidDeadlinePasses, At
    <2>3. CASE DidRefreshBeforeCancel(r)
      BY <1>0, <1>1, <2>3 DEF DidRefreshBeforeCancel, At, Goes, Fresh, Keep, Ends
    <2>4. CASE At(r, "cancelMark") /\ DidRun(r, "cancelling", "terminate")
      BY <1>0, <1>3, <2>4 DEF At
    <2> QED
      BY <1>5, <2>1, <2>2, <2>3, <2>4 DEF DidEvents
  <1>6. CASE DidTerminate(r)
    BY <1>0, <1>1, <1>6
       DEF DidTerminate, DidTerminated, At, Goes, Fresh, Keep, ThrowsAsIs, ThrowsFresh
  <1>7. CASE DidFail(r)
    BY <1>0, <1>1, <1>2, <1>3, <1>7
       DEF DidFail, DidDuration, At, Goes, Fresh, Keep, Ends, ThrowsAsIs
  <1>8. CASE DidComplete(r)
    BY <1>0, <1>1, <1>2, <1>3, <1>8
       DEF DidComplete, DidDuration, At, Goes, Fresh, Keep, Ends, ThrowsAsIs, ThrowsFresh
  <1>9. CASE DidRefreshFault(r)
    BY <1>0, <1>1, <1>9 DEF DidRefreshFault, At, ThrowsAsIs, RefreshPcs
  <1> QED
    BY <1>4, <1>5, <1>6, <1>7, <1>8, <1>9 DEF OwnerMoves

LEMMA OwnerMovesEnd ==
    ASSUME NEW r \in Runs, OwnerRow(r)
    PROVE  /\ RefOrEnd(r) => RefOrEnd(r)'
           /\ status'[r] = "running" =>
                \/ mgr[r].pc = "markRunning" /\ (processRef[r] \/ Terminal(r) => processRef'[r])
                \/ status[r] = "running" /\ (processRef[r] => processRef'[r])
  BY DEF OwnerRow, RefOrEnd, Terminal, isTerminalAgentRun, TerminalStatuses

\* No caller makes a Run running, and none drops the reference of a Run that goes on.
CallerEnd(r) ==
    /\ RefOrEnd(r) => RefOrEnd(r)'
    /\ status'[r] = "running" => status[r] = "running" /\ processRef'[r] = processRef[r]

LEMMA TransitionEnd ==
    ASSUME StoreTypeOK, NEW r \in Runs, NEW from, NEW to, Transition(r, from, to)
    PROVE  /\ RefOrEnd(r) => RefOrEnd(r)'
           /\ to # "running" => CallerEnd(r)
  <1>1. /\ status'[r] = to /\ ~Terminal(r)
        /\ processRef'[r] = (processRef[r] /\ ~isTerminalAgentRun(to))
    BY TransitionRef
  <1>2. CASE isTerminalAgentRun(to)
    BY <1>1, <1>2 DEF RefOrEnd, Terminal, CallerEnd
  <1>3. CASE ~isTerminalAgentRun(to)
    <2>1. processRef[r] \in BOOLEAN
      BY DEF StoreTypeOK
    <2>2. processRef'[r] = processRef[r]
      <3>1. CASE processRef[r] = TRUE
        BY <1>1, <1>3, <3>1
      <3>2. CASE processRef[r] = FALSE
        BY <1>1, <1>3, <3>2
      <3> QED
        BY <2>1, <3>1, <3>2
    <2> QED
      BY <1>1, <2>2 DEF RefOrEnd, CallerEnd
  <1> QED
    BY <1>2, <1>3

LEMMA CallerMovesEnd ==
    ASSUME StoreTypeOK, CallersTyped, NEW r \in Runs, NEW k \in Callers, CallerMoves(r, k)
    PROVE  CallerEnd(r)
  <1>0. UNCHANGED runRows => CallerEnd(r)
    BY DEF runRows, CallerEnd, RefOrEnd, Terminal
  <1>1. caller[r][k].target # "running"
    BY CallerTyped DEF CallerRecords
  <1>2. ASSUME NEW to, NEW next, to # "running", DidMoveOrConfirm(r, k, to, next)
        PROVE  CallerEnd(r)
    BY <1>0, <1>2, TransitionEnd DEF DidMoveOrConfirm
  <1>3. ASSUME DidClaimRun(r, k) PROVE CallerEnd(r)
    BY <1>0, <1>3, TransitionEnd DEF DidClaimRun, Claim
  <1> QED
    BY <1>0, <1>1, <1>2, <1>3
       DEF CallerMoves, DidExecute, DidReadRun, DidLoadOrAwait, DidRelease, DidRequestCancel,
           DidCancelRun, DidFault, DidLose

\* While an attempt is in releaseRunProcess, the owner is gone, has rejected its completion or
\* has reached its deadline.
LEMMA ReleaseBesideOwner ==
    ASSUME ~StepTimeout, Ground, NEW r \in Runs, OwnerAwaited(r), NEW k \in Attempts,
           caller[r][k].pc \in RelPcs
    PROVE  mgr[r].pc \in FinishedPcs \cup {"rejected"} \/ mgr[r].timer # "unset"
  <1> SUFFICES ASSUME mgr[r].pc \notin FinishedPcs \cup {"rejected"}, mgr[r].timer = "unset"
               PROVE  FALSE
    OBVIOUS
  <1> DEFINE j == mgr[r].by
  <1>1. j \in Attempts /\ caller[r][j].pc = "wait"
    BY DEF OwnerAwaited
  <1>2. caller[r][k].pc \notin {"idle", "wait", "threw", "dead"}
    BY DEF RelPcs
  <1>3. j < k \/ k < j \/ j = k
    BY <1>1 DEF Attempts
  <1> QED
    BY <1>1, <1>2, <1>3 DEF Ground, InTurn, Orderly

\* An owner's own steps.
LEMMA OwnerMovesSpares ==
    ASSUME ~StepTimeout, IInv, Legal, Ground, RefsAgree, Safe, NEW r \in Runs, RunSpares(r),
           OwnerMoves(r), UNCHANGED caller
    PROVE  RunSpares(r)'
  <1>0. /\ StoreTypeOK /\ OwnersSound /\ OwnerRow(r) /\ OwnerProc(r) /\ OwnerRecordMoves(r)
        /\ RefFollowsProcess(r)
    BY GroundTypes, OwnerMovesRowOwn, OwnerMovesProc, OwnerMovesRecord
       DEF RefsAgree, RefFollowsProcess, RunSpares, Ground, StartupAll
  <1>1. OwnerRecord(mgr[r])' /\ OwnerAwaited(r)'
    BY <1>0 DEF OwnerRecordMoves, OwnerProc, RunSpares, OwnerAwaited
  <1>2. RefPresent(r)'
    <2>1. mgr'[r].pc \in {"markBusy", "markRunning"} \/ mgr'[r].timer # "unset" => RefOrEnd(r)'
      BY <1>0, OwnerMovesEnd DEF OwnerRecordMoves, RunSpares, RefPresent, RefOrEnd
    <2>2. status'[r] = "running" => processRef'[r]
      BY <1>0, OwnerMovesEnd DEF RunSpares, RefPresent, RefOrEnd
    <2> QED
      BY <2>1, <2>2 DEF RefPresent
  <1>3. AttemptedActive(r)'
    <2> SUFFICES ASSUME mgr'[r].pc \in {"spawn", "terminate", "stopSandbox"},
                        mgr'[r].proc = "attempted"
                 PROVE  Active(r)'
      BY DEF AttemptedActive
    <2>1. CASE status[r] = "starting"
      BY <1>0, <2>1 DEF OwnerRecordMoves, Active, ActiveStatuses
    <2>2. CASE status[r] # "starting"
      BY <1>0, <2>2
         DEF OwnerRecordMoves, RunSpares, AttemptedActive, Active, RefFollowsProcess, ProcInOrder
    <2> QED
      BY <2>1, <2>2
  <1>4. ASSUME NEW k \in Cancellers PROVE CancellerKnows(r, k)'
    BY <1>0, OwnerMovesEnd DEF RunSpares, CancellerKnows
  <1>5. ASSUME NEW k \in Attempts PROVE AttemptStops(r, k)'
    <2> SUFFICES ASSUME caller[r][k].pc = "stop" PROVE FALSE
      BY DEF AttemptStops
    <2>1. Active(r) /\ k \in Callers
      BY DEF RunSpares, AttemptStops, Callers
    <2>2. ~caller[r][k].ref
      BY <2>1 DEF Safe, RunSafe, StoppedFirst
    <2>3. ~RefOrEnd(r)
      BY <2>1, <2>2
         DEF RefsAgree, RefKnown, Beside, Orderly, RelPcs, RefOrEnd, Active, Terminal,
             isTerminalAgentRun, ActiveStatuses, TerminalStatuses
    <2>4. mgr[r].timer = "unset"
      BY <2>3 DEF RunSpares, RefPresent
    <2>5. mgr[r].pc \in FinishedPcs \cup {"rejected"}
      BY <2>4, ReleaseBesideOwner DEF RunSpares, RelPcs
    <2> QED
      BY <1>0, <2>4, <2>5 DEF OwnerProc, OwnerRecordMoves
  <1>6. \A k \in Callers : caller'[r][k].pc = "idle" => caller'[r][k].lref = None
    BY DEF RunSpares
  <1> QED
    BY <1>1, <1>2, <1>3, <1>4, <1>5, <1>6 DEF RunSpares

\* A canceller that enters releaseRunProcess has just moved the Run on from running.
LEMMA CancellerPath ==
    ASSUME StoreTypeOK, NEW r \in Runs, NEW k \in Cancellers, CallerMoves(r, k),
           caller'[r][k].pc \in RelPcs
    PROVE  /\ \/ caller[r][k].pc \in RelPcs
              \/ status[r] = "running" /\ (processRef[r] => caller'[r][k].ref)
           /\ caller'[r][k].pc \in {"readLease", "kill", "recheck", "stop", "release"} =>
                \/ /\ caller[r][k].pc \in {"readLease", "kill", "recheck", "stop", "release"}
                   /\ caller'[r][k].ref = caller[r][k].ref
                \/ status[r] = "running" /\ (processRef[r] => caller'[r][k].ref)
  <1> DEFINE Held == {"readLease", "kill", "recheck", "stop", "release"}
             P == /\ caller[r][k].pc \in RelPcs
                       \/ (status[r] = "running" /\ (processRef[r] => caller'[r][k].ref))
                  /\ caller'[r][k].pc \in Held =>
                       \/ caller[r][k].pc \in Held /\ caller'[r][k].ref = caller[r][k].ref
                       \/ status[r] = "running" /\ (processRef[r] => caller'[r][k].ref)
  <1>0. k \notin Attempts
    BY CancellersAssumption DEF Attempts
  <1>1. ASSUME NEW pc, CallerKeeps(r, k, pc)
        PROVE  /\ caller'[r][k].pc = pc
               /\ pc \notin Forgetting \cup {"done"} => caller'[r][k].ref = caller[r][k].ref
    BY <1>1 DEF CallerKeeps, CallerGoes
  <1>2. ASSUME NEW pc, NEW lref, NEW lver, CallerPasses(r, k, pc, lref, lver)
        PROVE  /\ caller'[r][k].pc = pc
               /\ pc \notin Forgetting \cup {"done"} => caller'[r][k].ref = caller[r][k].ref
    BY <1>2 DEF CallerPasses, CallerGoes
  <1>3. ASSUME NEW pc, NEW target, CallerReloads(r, k, pc, target)
        PROVE  caller'[r][k].pc = pc
    BY <1>3 DEF CallerReloads, CallerGoes
  <1>5. CASE DidRelease(r, k)
    <2>1. CASE CallerAt(r, k, "readLease") \/ CallerAt(r, k, "kill") \/ CallerAt(r, k, "stop")
      BY <1>1, <1>2, <1>5, <2>1 DEF DidRelease, CallerAt, RelPcs, Forgetting
    <2>2. CASE CallerAt(r, k, "recheck") \/ CallerAt(r, k, "release")
      BY <1>1, <1>3, <1>5, <2>2 DEF DidRelease, CallerAt, RelPcs, Forgetting
    <2>3. CASE CallerAt(r, k, "reload") \/ CallerAt(r, k, "confirm")
      BY <1>3, <1>5, <2>3 DEF DidRelease, CallerAt, RelPcs
    <2>4. CASE CallerAt(r, k, "finish")
      BY <1>1, <1>5, <2>4 DEF DidRelease, CallerAt, DidMoveOrConfirm, CallerGoes, RelPcs
    <2> QED
      BY <1>5, <2>1, <2>2, <2>3, <2>4 DEF DidRelease
  <1>6. CASE DidRequestCancel(r, k)
    BY <1>3, <1>6 DEF DidRequestCancel, RelPcs
  <1>7. CASE DidCancelRun(r, k)
    <2>1. CASE caller[r][k].st # "running"
      BY <1>1, <1>7, <2>1 DEF DidCancelRun, DidMoveOrConfirm, CallerGoes, RelPcs
    <2>2. CASE caller[r][k].st = "running"
      <3>1. DidMoveOrConfirm(r, k, "cancelling", "readLease")
        BY <1>7, <2>2 DEF DidCancelRun
      <3>2. CASE CallerKeeps(r, k, "confirm")
        BY <1>1, <3>2 DEF RelPcs
      <3>3. CASE /\ Transition(r, caller[r][k].st, "cancelling")
                 /\ CallerGoes(r, k, "readLease", "cancelling", processRef'[r], caller[r][k].lref,
                               caller[r][k].lver, caller[r][k].target)
        <4>1. status[r] = "running" /\ caller'[r][k].ref = processRef'[r]
          BY <2>2, <3>3, TransitionRef DEF CallerGoes, Forgetting
        <4>2. processRef[r] => processRef'[r]
          BY <3>3, TransitionRef DEF isTerminalAgentRun, TerminalStatuses
        <4> QED
          BY <4>1, <4>2
      <3> QED
        BY <3>1, <3>2, <3>3 DEF DidMoveOrConfirm
    <2> QED
      BY <2>1, <2>2
  <1>8. CASE DidLose(r, k) \/ DidFault(r, k)
    BY <1>1, <1>8 DEF DidLose, DidFault, StoppedPcs, RelPcs
  <1> QED
    BY <1>0, <1>5, <1>6, <1>7, <1>8 DEF CallerMoves

\* What a caller may do to an owner and to the attempt it waits for.
LEMMA AwaitedCallerMoves ==
    ASSUME IInv, NEW r \in Runs, NEW k \in Callers, CallerMoves(r, k),
           OwnerRecord(mgr[r]), OwnerAwaited(r)
    PROVE  OwnerAwaited(r)' /\ OwnerRecord(mgr[r])'
  <1>0. StoreTypeOK /\ OwnersSound /\ CallersTyped
    BY GroundTypes
  <1>1. CASE UNCHANGED mgr
    <2> SUFFICES ASSUME mgr[r].pc \notin FinishedPcs \cup {"rejected"}, mgr[r].timer = "unset"
                 PROVE  mgr[r].by \in Attempts /\ caller'[r][mgr[r].by].pc = "wait"
      BY <1>1 DEF OwnerAwaited
    <2> DEFINE j == mgr[r].by
    <2>1. j \in Attempts /\ caller[r][j].pc = "wait" /\ ~mgr[r].lost
      BY DEF OwnerAwaited, OwnerRecord
    <2>2. CASE j # k
      BY <2>1, <2>2, CallerMovesAlone DEF OnlyCaller, Callers
    <2>3. CASE j = k
      <3>1. k \notin Cancellers
        BY <2>1, <2>3, CancellersAssumption DEF Attempts
      <3>2. CASE DidExecute(r, k)
        BY <2>1, <2>3, <3>2 DEF DidExecute, DidReadRun, DidLoadOrAwait, DidClaimRun, CallerAt, At,
           MayAttempt, MayOvertake, FinishedPcs
      <3>3. CASE DidRelease(r, k)
        BY <2>1, <2>3, <3>3 DEF DidRelease, CallerAt
      <3>4. CASE DidFault(r, k)
        BY <2>1, <2>3, <3>4 DEF DidFault, MayAttempt, CallerAt, StatementPcs
      <3>5. CASE DidLose(r, k)
        BY <1>1, <2>3, <3>5 DEF DidLose, Ends, FinishedPcs
      <3> QED
        BY <3>1, <3>2, <3>3, <3>4, <3>5 DEF CallerMoves
    <2> QED
      BY <2>1, <2>2, <2>3
  <1>2. CASE Ends(r, "dead")
    BY <1>2 DEF Ends, OwnerAwaited, OwnerRecord, FinishedPcs, CancelPcs
  <1>3. CASE /\ k \in Attempts /\ CallerKeeps(r, k, "wait")
             /\ Claim(r, k, caller[r][k].lref, caller[r][k].lver)
    BY <1>0, <1>3, ClaimMoves, CallerTyped
       DEF OwnerAwaited, OwnerRecord, CallerKeeps, CallerGoes, CallerRecords, CancelPcs
  <1> QED
    BY <1>1, <1>2, <1>3, CallerMovesOwner DEF OwnerRecord

\* An attempt or a request that has begun does not begin again.
LEMMA CallerNeverIdle ==
    ASSUME NEW r \in Runs, NEW k \in Callers, CallerMoves(r, k)
    PROVE  caller'[r][k].pc # "idle"
  <1>1. ASSUME NEW pc, CallerKeeps(r, k, pc) PROVE caller'[r][k].pc = pc
    BY <1>1 DEF CallerKeeps, CallerGoes
  <1>2. ASSUME NEW pc, NEW lref, NEW lver, CallerPasses(r, k, pc, lref, lver)
        PROVE  caller'[r][k].pc = pc
    BY <1>2 DEF CallerPasses, CallerGoes
  <1>3. ASSUME NEW pc, NEW target, CallerReloads(r, k, pc, target) PROVE caller'[r][k].pc = pc
    BY <1>3 DEF CallerReloads, CallerGoes
  <1>4. ASSUME NEW to, NEW next, DidMoveOrConfirm(r, k, to, next), next # "idle"
        PROVE  caller'[r][k].pc # "idle"
    BY <1>1, <1>4 DEF DidMoveOrConfirm, CallerGoes
  <1> QED
    BY <1>1, <1>2, <1>3, <1>4
       DEF CallerMoves, DidExecute, DidReadRun, DidLoadOrAwait, DidClaimRun, DidRelease,
           DidRequestCancel, DidCancelRun, DidFault, DidLose, CallerAt

\* How an attempt gets to stop the sandbox.
LEMMA AttemptToStop ==
    ASSUME NEW r \in Runs, NEW k \in Callers, CallerMoves(r, k), caller'[r][k].pc = "stop"
    PROVE  caller[r][k].pc = "recheck" /\ ~Terminal(r) /\ UNCHANGED runRows
  <1>1. ASSUME NEW pc, CallerKeeps(r, k, pc) PROVE caller'[r][k].pc = pc
    BY <1>1 DEF CallerKeeps, CallerGoes
  <1>2. ASSUME NEW pc, NEW lref, NEW lver, CallerPasses(r, k, pc, lref, lver)
        PROVE  caller'[r][k].pc = pc
    BY <1>2 DEF CallerPasses, CallerGoes
  <1>3. ASSUME NEW pc, NEW target, CallerReloads(r, k, pc, target) PROVE caller'[r][k].pc = pc
    BY <1>3 DEF CallerReloads, CallerGoes
  <1>4. ASSUME NEW to, NEW next, DidMoveOrConfirm(r, k, to, next)
        PROVE  caller'[r][k].pc \in {next, "confirm"}
    BY <1>1, <1>4 DEF DidMoveOrConfirm, CallerGoes
  <1> QED
    BY <1>1, <1>2, <1>3, <1>4
       DEF CallerMoves, DidExecute, DidReadRun, DidLoadOrAwait, DidClaimRun, DidRelease,
           DidRequestCancel, DidCancelRun, DidFault, DidLose, CallerAt, StoppedPcs

\* A Run without a process reference is not ended by another caller.
LEMMA CallerKeepsActive ==
    ASSUME ~StepTimeout, IInv, Legal, Ground, Safe, NEW r \in Runs, RunSpares(r),
           NEW k \in Callers, CallerMoves(r, k), Active(r), ~processRef[r],
           mgr[r].pc # "none" \/ (\E j \in Callers : caller[r][j].pc \in RelPcs),
           ~(k \in Attempts /\ caller[r][k].pc \in RelPcs)
    PROVE  Active(r)'
  <1>1. CallerRow(r, k)
    BY GroundTypes, CallerMovesRowOwn DEF Safe, RunSafe, StoppedFirst
  <1>2. status[r] # "queued"
    BY DEF Legal, OwnerLegal, LegalOwner, CallerLegal
  <1>3. caller[r][k].pc # "finish"
    BY DEF RunSpares, CancellerKnows, RefOrEnd, Active, Terminal, isTerminalAgentRun,
           ActiveStatuses, TerminalStatuses, Callers, RelPcs
  <1> QED
    BY <1>1, <1>2, <1>3 DEF CallerRow, Active, ActiveStatuses

\* A caller's steps.
LEMMA CallerMovesSpares ==
    ASSUME ~StepTimeout, IInv, Legal, Ground, RefsAgree, Safe, NEW r \in Runs, RunSpares(r),
           NEW k \in Callers, CallerMoves(r, k)
    PROVE  RunSpares(r)'
  <1>0. /\ StoreTypeOK /\ OwnersSound /\ CallersTyped /\ CallerRow(r, k) /\ CallerEnd(r)
        /\ OnlyCaller(r, k) /\ RefFollowsProcess(r)
    BY GroundTypes, CallerMovesRowOwn, CallerMovesEnd, CallerMovesAlone
       DEF RefsAgree, Safe, RunSafe, StoppedFirst
  <1>1. OwnerRecord(mgr[r])' /\ OwnerAwaited(r)'
    BY AwaitedCallerMoves DEF RunSpares
  <1>2. \/ mgr'[r] = mgr[r]
        \/ mgr'[r].pc = "dead" /\ mgr'[r].timer = mgr[r].timer
        \/ mgr'[r].pc = "markStarting" /\ mgr'[r].timer = "unset"
    BY <1>0, CallerMovesOwner, ClaimMoves, CallerTyped DEF Ends, CallerRecords
  <1>3. RefPresent(r)'
    BY <1>0, <1>2 DEF RunSpares, RefPresent, CallerEnd
  <1>4. AttemptedActive(r)'
    <2> SUFFICES ASSUME mgr'[r].pc \in {"spawn", "terminate", "stopSandbox"},
                        mgr'[r].proc = "attempted"
                 PROVE  Active(r)'
      BY DEF AttemptedActive
    <2>1. mgr'[r] = mgr[r]
      BY <1>2
    <2>2. /\ Active(r) /\ ~processRef[r] /\ mgr[r].pc \notin FinishedPcs \cup {"rejected"}
          /\ mgr[r].timer = "unset"
      BY <1>0, <2>1 DEF RunSpares, AttemptedActive, RefFollowsProcess, FinishedPcs, OwnerRecord
    <2>3. ~(k \in Attempts /\ caller[r][k].pc \in RelPcs)
      BY <2>2, ReleaseBesideOwner DEF RunSpares
    <2> QED
      BY <2>2, <2>3, CallerKeepsActive DEF FinishedPcs
  <1>5. ASSUME NEW j \in Cancellers PROVE CancellerKnows(r, j)'
    <2>1. CASE j # k
      BY <1>0, <2>1 DEF RunSpares, CancellerKnows, OnlyCaller, Callers, CallerEnd
    <2>2. CASE j = k
      <3> SUFFICES ASSUME caller'[r][k].pc \in RelPcs PROVE CancellerKnows(r, k)'
        BY <2>2 DEF CancellerKnows, RelPcs
      <3>1. RefOrEnd(r)
        BY <1>0, <2>2, CancellerPath DEF RunSpares, CancellerKnows, RefPresent, RefOrEnd
      <3>2. RefOrEnd(r)'
        BY <1>0, <3>1 DEF CallerEnd
      <3> QED
        BY <1>0, <2>2, <3>2, CancellerPath DEF RunSpares, CancellerKnows, RefPresent
    <2> QED
      BY <2>1, <2>2
  <1>6. ASSUME NEW j \in Attempts PROVE AttemptStops(r, j)'
    <2> SUFFICES ASSUME caller'[r][j].pc = "stop" PROVE Active(r)'
      BY DEF AttemptStops
    <2>0. j \in Callers
      BY DEF Callers
    <2>1. CASE j = k
      <3>1. caller[r][k].pc = "recheck" /\ ~Terminal(r) /\ UNCHANGED runRows
        BY <2>1, AttemptToStop
      <3>2. status[r] \in Statuses /\ status[r] \notin {"absent", "queued"}
        BY <1>0, <3>1 DEF Legal, CallerLegal, RelPcs, StoreTypeOK
      <3> QED
        BY <3>1, <3>2 DEF Active, Terminal, isTerminalAgentRun, Statuses, runRows
    <2>2. CASE j # k
      <3>1. caller[r][j].pc = "stop" /\ Active(r) /\ ~caller[r][j].ref
        BY <1>0, <2>0, <2>2
           DEF OnlyCaller, RunSpares, AttemptStops, Safe, RunSafe, StoppedFirst
      <3>2. ~processRef[r]
        BY <2>0, <3>1 DEF RefsAgree, RefKnown, Beside, Orderly, RelPcs
      <3>3. ~(k \in Attempts /\ caller[r][k].pc \in RelPcs)
        <4> SUFFICES ASSUME k \in Attempts, caller[r][k].pc \in RelPcs PROVE FALSE
          OBVIOUS
        <4>1. j < k \/ k < j
          BY <2>2 DEF Attempts
        <4> QED
          BY <3>1, <4>1 DEF Ground, InTurn, Orderly, RelPcs
      <3> QED
        BY <2>0, <3>1, <3>2, <3>3, CallerKeepsActive DEF RelPcs
    <2> QED
      BY <2>1, <2>2
  <1>7. ASSUME NEW j \in Callers, caller'[r][j].pc = "idle" PROVE caller'[r][j].lref = None
    BY <1>0, <1>7, CallerNeverIdle DEF RunSpares, OnlyCaller
  <1> QED
    BY <1>1, <1>3, <1>4, <1>5, <1>6, <1>7 DEF RunSpares

\* Every step keeps Spares.
LEMMA NextSpares ==
    ASSUME ~StepTimeout, IInv, Legal, Ground, RefsAgree, Safe, Spares, Next
    PROVE  Spares'
  <1>0. StoreStep /\ StoreTypeOK /\ OwnersSound /\ CallersTyped
    BY NextIsStoreStep, GroundTypes DEF StoreStep
  <1>1. ASSUME NEW q \in Runs, mgr'[q] = mgr[q], status'[q] = status[q],
               processRef'[q] = processRef[q], \A k \in Callers : caller'[q][k] = caller[q][k]
        PROVE  RunSpares(q)'
    <2>1. mgr'[q].by \in Attempts => mgr'[q].by \in Callers
      BY DEF Callers
    <2>2. OwnerAwaited(q)' /\ RefPresent(q)' /\ AttemptedActive(q)'
      BY <1>1, <2>1
         DEF Spares, RunSpares, OwnerAwaited, RefPresent, AttemptedActive, RefOrEnd, Active,
             Terminal
    <2>3. \A k \in Cancellers : CancellerKnows(q, k)'
      BY <1>1 DEF Spares, RunSpares, CancellerKnows, RefOrEnd, Terminal, Callers
    <2>4. \A k \in Attempts : AttemptStops(q, k)'
      BY <1>1 DEF Spares, RunSpares, AttemptStops, Active, Callers
    <2> QED
      BY <1>1, <2>2, <2>3, <2>4 DEF Spares, RunSpares
  <1>2. ASSUME NEW r \in Runs, DidCreate(r) PROVE Spares'
    <2>1. OnlyRow(r) /\ UNCHANGED <<caller, mgr>>
      BY <1>0, <1>2, OnlyRowMoves DEF DidCreate
    <2>2. /\ status'[r] = status[r] /\ processRef'[r] = processRef[r]
          \/ /\ mgr[r].pc = "none"
             /\ status'[r] # "running" /\ (RefOrEnd(r) => RefOrEnd(r)')
             /\ \A k \in Callers : caller[r][k].pc \notin RelPcs
      <3>1. CASE UNCHANGED runRows
        BY <3>1 DEF runRows
      <3>2. CASE InsertQueued(r)
        <4>1. status[r] = "absent" /\ status'[r] = "queued" /\ processRef'[r] = processRef[r]
          BY <1>0, <3>2, TransitionRef DEF InsertQueued
        <4> QED
          BY <4>1 DEF Legal, OwnerLegal, LegalOwner, CallerLegal, RefOrEnd, Terminal,
                      isTerminalAgentRun, TerminalStatuses
      <3>3. CASE Transition(r, "queued", "failed")
        BY <1>0, <3>3, TransitionRef, TransitionEnd
           DEF Legal, OwnerLegal, LegalOwner, CallerLegal
      <3> QED
        BY <1>2, <3>1, <3>2, <3>3 DEF DidCreate
    <2>3. RunSpares(r)'
      <3>1. CASE status'[r] = status[r] /\ processRef'[r] = processRef[r]
        BY <1>1, <2>1, <3>1
      <3>2. CASE /\ mgr[r].pc = "none"
                 /\ status'[r] # "running" /\ (RefOrEnd(r) => RefOrEnd(r)')
                 /\ \A k \in Callers : caller[r][k].pc \notin RelPcs
        <4>1. OwnerRecord(mgr[r])' /\ OwnerAwaited(r)' /\ RefPresent(r)' /\ AttemptedActive(r)'
          BY <2>1, <3>2
             DEF Spares, RunSpares, OwnerAwaited, RefPresent, AttemptedActive
        <4>2. \A k \in Cancellers : CancellerKnows(r, k)'
          BY <2>1, <3>2 DEF CancellerKnows, RelPcs, Callers
        <4>3. \A k \in Attempts : AttemptStops(r, k)'
          BY <2>1, <3>2 DEF AttemptStops, RelPcs, Callers
        <4> QED
          BY <2>1, <4>1, <4>2, <4>3 DEF Spares, RunSpares
      <3> QED
        BY <2>2, <3>1, <3>2
    <2> QED
      BY <1>1, <2>1, <2>3 DEF Spares, OnlyRow
  <1>3. ASSUME NEW r \in Runs, NEW k \in Callers, CallerMoves(r, k) PROVE Spares'
    <2>1. OnlyRow(r) /\ OnlyCaller(r, k)
      BY <1>0, <1>3, CallerMovesRow, CallerMovesAlone
    <2>2. OnlyOwner(r)
      BY <1>0, <1>3, GroundTypes, CallerMovesOwner, ClaimMoves DEF Ends, OnlyOwner
    <2>3. RunSpares(r)'
      BY <1>3, CallerMovesSpares DEF Spares
    <2> QED
      BY <1>1, <2>1, <2>2, <2>3 DEF Spares, OnlyRow, OnlyCaller, OnlyOwner
  <1>4. ASSUME NEW r \in Runs, OwnerMoves(r), UNCHANGED serviceVars PROVE Spares'
    <2>1. OnlyRow(r) /\ OnlyOwner(r) /\ UNCHANGED caller
      BY <1>0, <1>4, OwnerMovesRow, OwnerMovesAlone DEF serviceVars
    <2>2. RunSpares(r)'
      BY <1>4, <2>1, OwnerMovesSpares DEF Spares
    <2> QED
      BY <1>1, <2>1, <2>2 DEF Spares, OnlyRow, OnlyOwner
  <1>5. CASE OthersMove
    BY <1>1, <1>5 DEF OthersMove, runRows, Spares
  <1> QED
    BY <1>2, <1>3, <1>4, <1>5, ServiceNextMoves, OtherMoves, GroundTypes DEF Next, ServiceMoves

LEMMA InitSpares == Init => Spares
  BY DEF Init, CoordinatorInit, ServiceInit, StoreInit, NoManagedRun, NoCaller, Spares,
         RunSpares, OwnerRecord, OwnerAwaited, RefPresent, AttemptedActive, CancellerKnows,
         AttemptStops, RelPcs, FinishedPcs, CancelPcs, Callers

-----------------------------------------------------------------------------
\* A sandbox that an owner or a caller comes to know was leased, or is new.
LEMMA OwnerMovesUnknown ==
    ASSUME IInv, Legal, NEW r \in Runs, OwnerMoves(r), UNCHANGED caller,
           NEW s \in Runs, IsLive(s), lease.ref # s, Active(r) => Unknown(s, r)
    PROVE  lease'.ref # s /\ (Active(r)' => Unknown(s, r)')
  <1>1. StoreTypeOK /\ OwnerRow(r) /\ OwnerRefs(r) /\ OwnerLease(r) /\ mgr[r].pc # "none"
    BY GroundTypes, OwnerMovesRowOwn, OwnerMovesRefs, OwnerMovesLease, OwnerMovesAlive
       DEF FinishedPcs
  <1>2. lease'.ref # s
    <2>0. s # None
      BY DEF IsLive
    <2>1. Active(r) => mgr[r].ref # s
      BY DEF Unknown
    <2> QED
      BY <1>1, <2>0, <2>1 DEF OwnerLease
  <1>3. Active(r)' => Active(r)
    <2>1. status[r] \in Statuses /\ status[r] # "absent"
      BY <1>1 DEF Legal, OwnerLegal, LegalOwner, StoreTypeOK
    <2>2. CASE Terminal(r)
      BY <1>1, <2>2
         DEF OwnerRow, Active, Terminal, isTerminalAgentRun, ActiveStatuses, TerminalStatuses
    <2>3. CASE ~Terminal(r)
      BY <2>1, <2>3 DEF Active, Terminal, isTerminalAgentRun, Statuses
    <2> QED
      BY <2>2, <2>3
  <1>4. CreateSandbox(r) => s # r
    BY DEF CreateSandbox, IsLive
  <1>5. s # None
    BY DEF IsLive
  <1>6. Active(r) => mgr'[r].ref # s /\ mgr'[r].lref # s
    BY <1>1, <1>4, <1>5 DEF OwnerRefs, Unknown
  <1> QED
    BY <1>2, <1>3, <1>6 DEF Unknown

LEMMA CallerMovesUnknown ==
    ASSUME IInv, Safe, NEW r \in Runs, NEW k \in Callers, CallerMoves(r, k),
           NEW s \in Runs, IsLive(s), lease.ref # s, Active(r) => Unknown(s, r)
    PROVE  lease'.ref # s /\ (Active(r)' => Unknown(s, r)')
  <1>1. /\ StoreTypeOK /\ CallerRow(r, k) /\ CallerRefs(r, k) /\ CallerLease(r, k)
        /\ OnlyCaller(r, k)
    BY GroundTypes, CallerMovesRowOwn, CallerMovesRefs, CallerMovesLease, CallerMovesAlone
       DEF Safe, RunSafe, StoppedFirst
  <1>2. s # None
    BY DEF IsLive
  <1>3. lease'.ref # s
    BY <1>1, <1>2 DEF CallerLease, CallerRefs, Unknown
  <1>4. Active(r)' => Active(r)
    BY <1>1 DEF CallerRow, Active, Started, ActiveStatuses
  <1>5. Active(r) => mgr'[r].ref # s /\ mgr'[r].lref # s
    BY <1>2, GroundTypes, CallerMovesOwner, ClaimMoves DEF Ends, Unknown
  <1>6. Active(r) => \A j \in Callers : caller'[r][j].lref # s
    BY <1>1, <1>2 DEF CallerRefs, OnlyCaller, Unknown
  <1> QED
    BY <1>3, <1>4, <1>5, <1>6 DEF Unknown

\* Every step keeps DetachedUnknown.
LEMMA NextDetached ==
    ASSUME IInv, Legal, Ground, Safe, Spares, DetachedUnknown, Next
    PROVE  DetachedUnknown'
  <1>0. /\ StoreStep /\ ProviderStep /\ StoreTypeOK /\ OwnersSound /\ CallersTyped /\ RefsKnown
        /\ \A c \in Reclaims : reclaim[c] \in ReclaimRecords
    BY NextIsStoreStep, GroundTypes DEF StoreStep, Ground, IInv, ReclaimTyped
  <1>1. \A u \in SandboxRefs : /\ Known(u) => Known(u)'
                               /\ Known(u) /\ IsLive(u)' => IsLive(u)
    BY <1>0, KnownStays, NoRevival DEF Known
  <1>2. ASSUME NEW c \in Reclaims, reclaim'[c] = reclaim[c],
               IsLive(reclaim[c].lref) /\ reclaim[c].pc = "stop" =>
                 /\ lease'.ref # reclaim[c].lref
                 /\ \A q \in Runs : Active(q)' => Unknown(reclaim[c].lref, q)'
        PROVE  Detached(c)'
    <2> DEFINE s == reclaim[c].lref
    <2>1. s \in SandboxRefs /\ Known(s)
      BY <1>0 DEF ReclaimRecords, DetachedUnknown, Detached
    <2>2. s # None => sandbox'[s] # "none"
      BY <1>1, <2>1 DEF Known
    <2>3. s # None /\ sandbox'[s] = "live" => IsLive(s)
      BY <1>1, <2>1 DEF IsLive
    <2>4. reclaim'[c].lref = s /\ reclaim'[c].pc = reclaim[c].pc
      BY <1>2
    <2>5. s # None /\ sandbox'[s] = "live" /\ reclaim[c].pc = "stop" =>
            /\ lease'.ref # s
            /\ \A q \in Runs : Active(q)' =>
                 /\ mgr'[q].ref # s /\ mgr'[q].lref # s
                 /\ \A k \in Callers : caller'[q][k].lref # s
      BY <1>2, <2>3 DEF Unknown
    <2> HIDE DEF s
    <2> QED
      BY <2>2, <2>4, <2>5 DEF Detached, Known, IsLive, Unknown
  <1>3. ASSUME NEW r \in Runs, UNCHANGED reclaim,
               \A q \in Runs \ {r} :
                 /\ mgr'[q] = mgr[q] /\ status'[q] = status[q]
                 /\ \A k \in Callers : caller'[q][k] = caller[q][k],
               \A s \in Runs : IsLive(s) /\ lease.ref # s /\ (Active(r) => Unknown(s, r)) =>
                 lease'.ref # s /\ (Active(r)' => Unknown(s, r)')
        PROVE  DetachedUnknown'
    <2> SUFFICES ASSUME NEW c \in Reclaims, IsLive(reclaim[c].lref), reclaim[c].pc = "stop"
                 PROVE  /\ lease'.ref # reclaim[c].lref
                        /\ \A q \in Runs : Active(q)' => Unknown(reclaim[c].lref, q)'
      BY <1>2, <1>3 DEF DetachedUnknown
    <2> DEFINE s == reclaim[c].lref
    <2>1. /\ s \in Runs /\ lease.ref # s
          /\ \A q \in Runs : Active(q) => Unknown(s, q)
      BY <1>0 DEF ReclaimRecords, SandboxRefs, IsLive, DetachedUnknown, Detached
    <2>2. lease'.ref # s /\ (Active(r)' => Unknown(s, r)')
      BY <1>3, <2>1
    <2>3. ASSUME NEW q \in Runs \ {r}, Active(q)' PROVE Unknown(s, q)'
      <3>1. Active(q)
        BY <1>3, <2>3 DEF Active
      <3>2. Unknown(s, q)
        BY <2>1, <3>1
      <3> QED
        BY <1>3, <3>2 DEF Unknown
    <2> QED
      BY <2>2, <2>3
  <1>4. ASSUME NEW r \in Runs, DidCreate(r), UNCHANGED reclaim PROVE DetachedUnknown'
    <2>1. OnlyRow(r) /\ UNCHANGED <<caller, mgr, lease>>
      BY <1>0, <1>4, OnlyRowMoves DEF DidCreate
    <2>2. ASSUME NEW s \in Runs, IsLive(s), Active(r) => Unknown(s, r), Active(r)'
          PROVE  Unknown(s, r)'
      <3>1. CASE Active(r)
        BY <2>1, <2>2, <3>1 DEF Unknown
      <3>2. CASE ~Active(r)
        <4>1. InsertQueued(r)
          BY <1>0, <1>4, <2>2, <3>2, TransitionRef
             DEF DidCreate, Active, runRows, Terminal, isTerminalAgentRun, ActiveStatuses,
                 TerminalStatuses, Transition, CanTransition
        <4>2. status[r] = "absent"
          BY <4>1 DEF InsertQueued
        <4>3. mgr[r].pc = "none" /\ \A k \in Callers : caller[r][k].pc = "idle"
          BY <4>2 DEF Legal, OwnerLegal, LegalOwner, CallerLegal
        <4>4. s # None
          BY <2>2 DEF IsLive
        <4> QED
          BY <2>1, <4>3, <4>4 DEF Spares, RunSpares, OwnerRecord, Unknown
      <3> QED
        BY <3>1, <3>2
    <2> QED
      BY <1>3, <1>4, <2>1, <2>2 DEF OnlyRow
  <1>5. ASSUME NEW r \in Runs, NEW k \in Callers, CallerMoves(r, k), UNCHANGED reclaim
        PROVE  DetachedUnknown'
    <2>1. OnlyRow(r) /\ OnlyCaller(r, k)
      BY <1>0, <1>5, CallerMovesRow, CallerMovesAlone
    <2>2. OnlyOwner(r)
      BY <1>0, <1>5, GroundTypes, CallerMovesOwner, ClaimMoves DEF Ends, OnlyOwner
    <2>3. \A s \in Runs : IsLive(s) /\ lease.ref # s /\ (Active(r) => Unknown(s, r)) =>
                 lease'.ref # s /\ (Active(r)' => Unknown(s, r)')
      BY <1>5, CallerMovesUnknown
    <2> QED
      BY <1>3, <1>5, <2>1, <2>2, <2>3 DEF OnlyRow, OnlyCaller, OnlyOwner
  <1>6. ASSUME NEW r \in Runs, OwnerMoves(r), UNCHANGED serviceVars, UNCHANGED reclaim
        PROVE  DetachedUnknown'
    <2>1. OnlyRow(r) /\ OnlyOwner(r) /\ UNCHANGED caller
      BY <1>0, <1>6, OwnerMovesRow, OwnerMovesAlone DEF serviceVars
    <2>2. \A s \in Runs : IsLive(s) /\ lease.ref # s /\ (Active(r) => Unknown(s, r)) =>
                 lease'.ref # s /\ (Active(r)' => Unknown(s, r)')
      BY <1>6, <2>1, OwnerMovesUnknown
    <2> QED
      BY <1>3, <1>6, <2>1, <2>2 DEF OnlyRow, OnlyOwner
  <1>7. ASSUME UNCHANGED <<mgr, caller, runRows>>, lease'.ref \in {lease.ref, None},
               NEW c \in Reclaims, reclaim'[c] = reclaim[c]
        PROVE  Detached(c)'
    <2>1. \A q \in Runs : \A s : Active(q)' /\ Unknown(s, q) => Active(q) /\ Unknown(s, q)'
      BY <1>7 DEF runRows, Active, Unknown
    <2> QED
      BY <1>2, <1>7, <2>1 DEF DetachedUnknown, Detached, IsLive, runRows, Active, Unknown
  <1>8. CASE ReclaimerNext /\ UNCHANGED <<mgr, serviceVars>>
    <2>0. UNCHANGED <<mgr, caller>> /\ Known(None) /\ Known(lease.ref)
      BY <1>0, <1>8 DEF serviceVars, Known, RefsKnown
    <2>1. ASSUME NEW d \in Reclaims, UNCHANGED storeVars,
                 reclaim' = [reclaim EXCEPT ![d] =
                               [pc |-> "claim", lref |-> lease.ref, lver |-> lease.version]]
          PROVE  DetachedUnknown'
      <3>1. Detached(d)'
        BY <1>0, <2>0, <2>1 DEF IInv, ReclaimTyped, Detached, Known, storeVars
      <3>2. \A c \in Reclaims \ {d} : Detached(c)'
        BY <1>7, <2>0, <2>1 DEF IInv, ReclaimTyped, storeVars, runRows
      <3> QED
        BY <3>1, <3>2 DEF DetachedUnknown
    <2>2. ASSUME NEW d \in Reclaims, DetachSandbox(d) PROVE DetachedUnknown'
      <3>1. UNCHANGED runRows /\ lease'.ref \in {lease.ref, None}
        BY <2>2 DEF DetachSandbox, WriteLease
      <3>2. \A c \in Reclaims \ {d} : Detached(c)'
        BY <1>7, <2>0, <2>2, <3>1 DEF DetachSandbox, IInv, ReclaimTyped
      <3>3. CASE CanClaim(d)
        <4>1. NoActiveRun /\ lease'.ref = None /\ reclaim'[d].lref = reclaim[d].lref
          BY <1>0, <2>2, <3>3
             DEF DetachSandbox, CanClaim, CanClaimForManualStop, CanClaimIdleForStop, WriteLease,
                 IInv, ReclaimTyped, ReclaimRecords
        <4>2. reclaim[d].lref # None => sandbox'[reclaim[d].lref] # "none"
          BY <1>0, <1>1 DEF DetachedUnknown, Detached, ReclaimRecords, Known
        <4>3. \A q \in Runs : ~Active(q)'
          BY <3>1, <4>1 DEF NoActiveRun, Active, runRows
        <4>4. Detached(d)'
          BY <4>1, <4>2, <4>3 DEF Detached, Known, IsLive
        <4> QED
          BY <3>2, <4>4 DEF DetachedUnknown
      <3>4. CASE reclaim' = [reclaim EXCEPT ![d] = NoReclaim]
        <4>1. Detached(d)'
          BY <3>4 DEF IInv, ReclaimTyped, NoReclaim, Detached, Known
        <4> QED
          BY <3>2, <4>1 DEF DetachedUnknown
      <3> QED
        BY <2>2, <3>3, <3>4 DEF DetachSandbox
    <2>3. ASSUME NEW d \in Reclaims, StopDetachedSandbox(d) PROVE DetachedUnknown'
      <3>1. Detached(d)'
        BY <2>3 DEF StopDetachedSandbox, IInv, ReclaimTyped, NoReclaim, Detached, Known
      <3>2. \A c \in Reclaims \ {d} : Detached(c)'
        BY <1>7, <2>0, <2>3 DEF StopDetachedSandbox, IInv, ReclaimTyped
      <3> QED
        BY <3>1, <3>2 DEF DetachedUnknown
    <2> QED
      BY <1>8, <2>1, <2>2, <2>3
         DEF ReclaimerNext, ReclaimStep, ReadIdleLease, ReadLeaseToStop, Reclaims
  <1>9. CASE ProviderNext /\ UNCHANGED <<mgr, serviceVars, reclaim>>
    <2>1. UNCHANGED <<mgr, caller, runRows, lease, reclaim>>
      BY <1>9 DEF ProviderNext, SandboxExpires, AgentExits, serviceVars
    <2> QED
      BY <1>7, <2>1 DEF DetachedUnknown
  <1> QED
    BY <1>0, <1>4, <1>5, <1>6, <1>8, <1>9, ServiceNextMoves DEF Next, ServiceMoves

LEMMA InitDetached == Init => DetachedUnknown
  BY DEF Init, ReclaimInit, NoReclaim, DetachedUnknown, Detached, Known

LEMMA InductiveSpares ==
    ASSUME ~StepTimeout
    PROVE  Spec => [](SafetyInv /\ RefsAgree /\ Spares /\ DetachedUnknown)
  <1>0. OverlapShows
    BY DEF OverlapShows
  <1>1. ASSUME SafetyInv, RefsAgree, Spares, DetachedUnknown, [Next]_vars
        PROVE  Spares' /\ DetachedUnknown'
    <2>1. CASE Next
      BY <1>0, <1>1, <2>1, NextSpares, NextDetached DEF SafetyInv
    <2>2. CASE UNCHANGED vars
      <3>1. UNCHANGED <<mgr, caller, reclaim, lease, sandbox, status, processRef>>
        BY <2>2 DEF vars, serviceVars, storeVars
      <3>2. Spares'
        BY <1>1, <3>1
           DEF Spares, RunSpares, OwnerAwaited, RefPresent, AttemptedActive, CancellerKnows,
               AttemptStops, RefOrEnd, Active, Terminal
      <3>3. DetachedUnknown'
        BY <1>1, <3>1 DEF DetachedUnknown, Detached, Known, IsLive, Unknown, Active
      <3> QED
        BY <3>2, <3>3
    <2> QED
      BY <1>1, <2>1, <2>2
  <1> QED
    BY <1>0, <1>1, InitSpares, InitDetached, InductiveRefs, PTL DEF Spec

\* Nothing but its owner or a caller of it stops the sandbox an active Run leases (ADR-0003),
\* unless an attempt may start beside one that is still in flight: then the later attempt can
\* outlive the Run, and its cleanup stops the sandbox the next Run was given.
THEOREM SparesForeignCorrect ==
    ASSUME ~StepTimeout
    PROVE  Spec => SparesForeignSandbox
  <1> DEFINE A == \A s, r \in Runs :
                    IsLive(s) /\ ~IsLive(s)' /\ lease.ref = s /\ Active(r)
                      => ActsFor(r) \/ UNCHANGED <<mgr, caller, reclaim>>
  <1>0. OverlapShows
    BY DEF OverlapShows
  <1>1. ASSUME SafetyInv, RefsAgree, Spares, DetachedUnknown, [Next]_vars PROVE [A]_vars
    <2> SUFFICES ASSUME Next, NEW s \in Runs, NEW r \in Runs, IsLive(s), ~IsLive(s)',
                        lease.ref = s, Active(r)
                 PROVE  ActsFor(r) \/ UNCHANGED <<mgr, caller, reclaim>>
      BY <1>1
    <2>0. IInv /\ Ground /\ Safe /\ StoreTypeOK
      BY <1>0, <1>1, GroundTypes DEF SafetyInv
    <2>1. ASSUME NEW q \in Runs, DidCreate(q) PROVE FALSE
      BY <2>1 DEF DidCreate, providerVars, IsLive
    <2>2. ASSUME NEW q \in Runs, NEW k \in Callers, CallerMoves(q, k) PROVE ActsFor(r)
      <3>1. caller[q][k].pc = "stop" /\ caller'[q][k].pc # "stop"
        BY <2>0, <2>2, CallerDestroys
      <3>2. k \notin Cancellers
        BY <1>1, <2>0, <3>1 DEF Spares, RunSpares, CancellerKnows, Safe, RunSafe, StoppedFirst
      <3>3. Active(q)
        BY <1>1, <3>1, <3>2 DEF Spares, RunSpares, AttemptStops, Callers
      <3>4. r = q
        BY <2>0, <3>3 DEF Ground, OneActive
      <3> QED
        BY <3>1, <3>4 DEF ActsFor
    <2>3. ASSUME NEW q \in Runs, OwnerMoves(q) PROVE ActsFor(r)
      <3>1. mgr[q].pc = "stopSandbox" /\ mgr'[q].proc = "stopped"
        BY <2>0, <2>3, OwnerDestroys
      <3>2. mgr[q].proc = "attempted"
        BY <1>1, <3>1 DEF RefsAgree, RefFollowsProcess, ProcInOrder
      <3>3. Active(q)
        BY <1>1, <3>1, <3>2 DEF Spares, RunSpares, AttemptedActive
      <3>4. r = q
        BY <2>0, <3>3 DEF Ground, OneActive
      <3> QED
        BY <3>1, <3>2, <3>4 DEF ActsFor
    <2>4. ~ReclaimerNext
      <3>1. ASSUME NEW c \in Reclaims, StopDetachedSandbox(c) PROVE FALSE
        <4>1. reclaim[c].lref = s
          BY <2>0, <3>1
             DEF StopDetachedSandbox, DestroySandbox, IsLive, StoreTypeOK, providerVars
        <4> QED
          BY <1>1, <3>1, <4>1 DEF StopDetachedSandbox, DetachedUnknown, Detached
      <3>2. /\ UNCHANGED providerVars => FALSE
            /\ UNCHANGED storeVars => FALSE
        BY DEF providerVars, storeVars, IsLive
      <3> QED
        BY <3>1, <3>2
           DEF ReclaimerNext, ReclaimStep, ReadIdleLease, ReadLeaseToStop, DetachSandbox, Reclaims
    <2>5. CASE ProviderNext /\ UNCHANGED <<mgr, serviceVars, reclaim>>
      BY <2>5 DEF serviceVars
    <2> QED
      BY <2>0, <2>1, <2>2, <2>3, <2>4, <2>5, ServiceNextMoves DEF Next, ServiceMoves
  <1> QED
    BY <1>1, InductiveSpares, PTL DEF Spec, SparesForeignSandbox

-----------------------------------------------------------------------------
(* No sandbox is orphaned without a mishap.  The invariants of this part   *)
(* hold whoever overtakes whom.                                            *)

\* The owner's sandbox is the one that its record of the Lease names, or that one is gone.
RefFromLease(r) == mgr[r].ref = mgr[r].lref \/ ~IsLive(mgr[r].lref)

\* A caller that gives the Lease back without its sandbox has stopped it.
NothingKept(r, k) ==
    LET c == caller[r][k] IN
    /\ c.pc = "giveUp" => c.st = "queued"
    /\ c.pc \in {"recheck", "stop"} => ~c.ref
    /\ c.pc = "kill" => c.ref
    /\ c.pc = "release" /\ ~c.ref => ~IsLive(c.lref)

\* Nobody writes the Lease between its read by an attempt and the claim that succeeds.
LeaseStillFree(r, k) ==
    CallerAt(r, k, "claim") /\ status[r] = "queued" =>
        lease.ref = caller[r][k].lref /\ lease.version = caller[r][k].lver

\* A cancel request returns a terminal Run only when the Run is terminal.
ReturnsEnd(r) == CancelReturned(r) => Terminal(r)

\* The awaits of an owner that has not yet told the Lease of its sandbox.
TakingPcs == {"markStarting", "ensure", "markReady"}

\* Until then nobody else writes the Lease.
OwnsOnStartup(r) ==
    Orderly /\ mgr[r].pc \in TakingPcs => OwnsLease(r, mgr[r].lref, mgr[r].lver)

\* Somebody will find the sandbox: it is in the Lease, or about to be written to it, or its
\* stop is under way.
Named(s) ==
    \/ lease.ref = s
    \/ \E r \in Runs : mgr[r].pc = "markReady" /\ mgr[r].ref = s
    \/ \E c \in Reclaims : reclaim[c].pc = "stop" /\ reclaim[c].lref = s

RunKept(r) ==
    /\ RefFromLease(r) /\ ReturnsEnd(r) /\ OwnsOnStartup(r)
    /\ \A k \in Callers : NothingKept(r, k) /\ LeaseStillFree(r, k)

\* The strengthening of NoOrphanWithoutMishap.
AllNamed == mishaps = 0 => \A s \in Runs : IsLive(s) => Named(s)
Kept == AllNamed /\ \A r \in Runs : RunKept(r)

\* An owner writes the Lease over its own record of it, and gives it its own sandbox.
LEMMA OwnerMovesOwned ==
    ASSUME NEW r \in Runs, OwnerMoves(r)
    PROVE  \/ UNCHANGED lease
           \/ OwnsLease(r, mgr[r].lref, mgr[r].lver) /\ lease'.ref = mgr[r].ref
  <1> DEFINE Owned == \/ UNCHANGED lease
                      \/ OwnsLease(r, mgr[r].lref, mgr[r].lver) /\ lease'.ref = mgr[r].ref
  <1>1. ASSUME NEW newStatus, NEW next, DidLease(r, newStatus, next) PROVE Owned
    BY <1>1 DEF DidLease, Leases, UpdateLeaseForRun, WriteLease
  <1>2. UNCHANGED storeVars => UNCHANGED lease
    BY DEF storeVars
  <1> HIDE DEF Owned
  <1>3. UNCHANGED lease => Owned
    BY DEF Owned
  <1>4. Owned
    BY <1>1, <1>2, <1>3
       DEF OwnerMoves, DidStartup, DidEnsureSandbox, DidRefreshAfterReady, DidConfigureAgent,
           DidSpawnAgent, DidPromptAgent, DidPersistProcessRef, DidMarkRunning, DidEvents,
           DidAgentEnds, DidHandleCompletion, DidCatchEventError, DidDeadlinePasses,
           DidRefreshBeforeCancel, DidTerminate, DidFail, DidDuration, DidComplete,
           DidRefreshFault, DidRun
  <1> QED
    BY <1>4 DEF Owned

\* Where the owner's sandbox and its record of the Lease part.
OwnerParts(r) ==
    \/ mgr'[r].ref = mgr[r].ref /\ mgr'[r].lref = mgr[r].lref
    \/ mgr'[r].ref = mgr'[r].lref
    \/ mgr'[r].lref = mgr[r].lref /\ ~IsLive(mgr[r].lref)
    \/ mgr'[r].lref = mgr[r].lref /\ DestroySandbox(mgr[r].ref)

LEMMA OwnerMovesParts ==
    ASSUME NEW r \in Runs, OwnerMoves(r)
    PROVE  OwnerParts(r)
  <1> USE DEF OwnerParts
  <1>1. ASSUME NEW st, NEW proc, Throws(r, st, proc)
        PROVE  mgr'[r].ref = mgr[r].ref /\ mgr'[r].lref = mgr[r].lref
    BY <1>1 DEF Throws
  <1>2. ASSUME NEW newStatus, NEW next, DidLease(r, newStatus, next) PROVE OwnerParts(r)
    BY <1>1, <1>2 DEF DidLease, ThrowsAsIs
  <1>3. ASSUME NEW to, NEW next, DidRun(r, to, next) PROVE OwnerParts(r)
    BY <1>1, <1>3 DEF DidRun, ThrowsAsIs, Goes, Ends
  <1>4. CASE DidStartup(r)
    BY <1>1, <1>2, <1>4
       DEF DidStartup, DidEnsureSandbox, DidRefreshAfterReady, DidConfigureAgent,
           DidSpawnAgent, DidPromptAgent, DidPersistProcessRef, DidMarkRunning,
           Goes, Fresh, Keep, ThrowsAsIs, ThrowsFresh
  <1>5. CASE DidEvents(r)
    BY <1>1, <1>3, <1>5
       DEF DidEvents, DidAgentEnds, DidHandleCompletion, DidCatchEventError,
           DidDeadlinePasses, DidRefreshBeforeCancel, Goes, Fresh, Keep, Ends, ThrowsAsIs
  <1>6. CASE DidTerminate(r)
    BY <1>1, <1>6
       DEF DidTerminate, DidTerminated, Goes, Fresh, Keep, Ends, ThrowsAsIs, ThrowsFresh
  <1>7. CASE DidFail(r)
    BY <1>1, <1>2, <1>3, <1>7 DEF DidFail, DidDuration, Goes, Fresh, Keep, Ends, ThrowsAsIs
  <1>8. CASE DidComplete(r)
    BY <1>1, <1>2, <1>3, <1>8
       DEF DidComplete, DidDuration, Goes, Fresh, Keep, Ends, ThrowsAsIs, ThrowsFresh
  <1>9. CASE DidRefreshFault(r)
    BY <1>1, <1>9 DEF DidRefreshFault, ThrowsAsIs
  <1> QED
    BY <1>4, <1>5, <1>6, <1>7, <1>8, <1>9 DEF OwnerMoves

\* How an owner comes to, or goes on, taking its sandbox.
LEMMA OwnerMovesTaking ==
    ASSUME StoreTypeOK, NEW r \in Runs, OwnerMoves(r), mgr'[r].pc \in TakingPcs
    PROVE  /\ UNCHANGED runRows
           /\ \/ /\ Active(r)
                 /\ mgr'[r].lref = lease'.ref /\ mgr'[r].lver = lease'.version
              \/ /\ mgr[r].pc \in TakingPcs /\ UNCHANGED lease
                 /\ mgr'[r].lref = mgr[r].lref /\ mgr'[r].lver = mgr[r].lver
  <1> USE DEF TakingPcs
  <1>1. DidStartup(r)
    BY LaterOwnerMoves DEF StartupPcs
  <1>2. ASSUME NEW st, NEW proc, Throws(r, st, proc) PROVE FALSE
    BY <1>2 DEF Throws
  <1>3. ASSUME NEW newStatus, NEW next, DidLease(r, newStatus, next)
        PROVE  /\ UNCHANGED runRows /\ Active(r)
               /\ mgr'[r].lref = lease'.ref /\ mgr'[r].lver = lease'.version
    BY <1>2, <1>3 DEF DidLease, Leases, UpdateLeaseForRun, OwnsLease, WriteLease, ThrowsAsIs
  <1>4. CASE DidEnsureSandbox(r)
    BY <1>2, <1>4 DEF DidEnsureSandbox, Goes, ThrowsAsIs, At
  <1>5. CASE ~DidEnsureSandbox(r) /\ (\A newStatus, next : ~DidLease(r, newStatus, next))
    BY <1>1, <1>2, <1>5
       DEF DidStartup, DidRefreshAfterReady, DidConfigureAgent, DidSpawnAgent, DidPromptAgent,
           DidPersistProcessRef, DidMarkRunning, Goes, Fresh, Keep, ThrowsAsIs, ThrowsFresh
  <1> QED
    BY <1>3, <1>4, <1>5

\* What a caller gives back.
LEMMA CallerMovesGivesBack ==
    ASSUME NEW r \in Runs, NEW k \in Callers, CallerMoves(r, k)
    PROVE  \/ UNCHANGED lease
           \/ /\ caller[r][k].pc = "release" /\ Active(r) /\ lease.ref = caller[r][k].lref
              /\ caller[r][k].ref => lease'.ref = caller[r][k].lref
  <1>1. CASE CallerAt(r, k, "release") /\ DidRelease(r, k)
    BY <1>1 DEF DidRelease, CallerAt, UpdateLeaseForRun, OwnsLease, WriteLease
  <1>2. CASE ~(CallerAt(r, k, "release") /\ DidRelease(r, k))
    BY <1>2 DEF CallerMoves, DidExecute, DidReadRun, DidLoadOrAwait, DidClaimRun, DidRelease,
                DidMoveOrConfirm, DidRequestCancel, DidCancelRun, DidFault, DidLose, Claim
  <1> QED
    BY <1>1, <1>2

\* An attempt comes to its claim with the Lease that it has just read.
LEMMA CallerMovesToClaim ==
    ASSUME NEW r \in Runs, NEW k \in Callers, CallerMoves(r, k), caller'[r][k].pc = "claim"
    PROVE  /\ UNCHANGED lease
           /\ caller'[r][k].lref = lease.ref /\ caller'[r][k].lver = lease.version
  <1>1. CASE DidExecute(r, k)
    BY <1>1
       DEF DidExecute, DidReadRun, DidLoadOrAwait, DidClaimRun, DidMoveOrConfirm, CallerKeeps,
           CallerPasses, CallerReloads, CallerGoes, Forgetting
  <1>2. CASE DidRelease(r, k) \/ DidRequestCancel(r, k) \/ DidCancelRun(r, k)
    BY <1>2
       DEF DidRelease, DidRequestCancel, DidCancelRun, DidMoveOrConfirm, CallerKeeps,
           CallerPasses, CallerReloads, CallerGoes
  <1>3. CASE DidFault(r, k) \/ DidLose(r, k)
    BY <1>3 DEF DidFault, DidLose, CallerKeeps, CallerGoes, StoppedPcs
  <1> QED
    BY <1>1, <1>2, <1>3 DEF CallerMoves

\* A cancel request returns the status that it has just read or written.
LEMMA CancellerMovesToDone ==
    ASSUME StoreTypeOK, NEW r \in Runs, NEW k \in Cancellers, CallerMoves(r, k),
           caller'[r][k].pc = "done"
    PROVE  \/ caller[r][k].pc = "done" /\ caller'[r][k].st = caller[r][k].st
           \/ caller'[r][k].st = status'[r]
  <1>0. /\ k \notin Attempts
        /\ \A from, to : Transition(r, from, to) => status'[r] = to
        /\ UNCHANGED runRows => status'[r] = status[r]
    BY CancellersAssumption DEF Attempts, Transition, StoreTypeOK, runRows
  <1>1. ASSUME NEW to, NEW next, DidMoveOrConfirm(r, k, to, next)
        PROVE  caller'[r][k].st = status'[r]
    BY <1>0, <1>1 DEF DidMoveOrConfirm, CallerKeeps, CallerGoes, Forgetting
  <1>2. CASE DidRelease(r, k)
    BY <1>0, <1>1, <1>2
       DEF DidRelease, CallerKeeps, CallerPasses, CallerReloads, CallerGoes, Forgetting
  <1>3. CASE DidRequestCancel(r, k) \/ DidCancelRun(r, k)
    BY <1>0, <1>1, <1>3 DEF DidRequestCancel, DidCancelRun, CallerReloads, CallerGoes, Forgetting
  <1>4. CASE DidFault(r, k) \/ DidLose(r, k)
    BY <1>0, <1>4 DEF DidFault, DidLose, CallerKeeps, CallerGoes, Forgetting
  <1> QED
    BY <1>0, <1>2, <1>3, <1>4 DEF CallerMoves
-----------------------------------------------------------------------------
(* Without a mishap.                                                       *)

\* What the steps of callers and of the creating request do to an owner.
LEMMA CallersOwner ==
    ASSUME NEW r \in Runs, ServiceNext(r)
    PROVE  \/ UNCHANGED mgr
           \/ \E k \in Attempts : LoseAttempt(r, k)
           \/ status[r] = "queued"
           \/ CoordinatorNext(r)
  <1>1. ASSUME NEW k, NEW to, NEW next, MoveOrConfirm(r, k, to, next) PROVE UNCHANGED mgr
    BY <1>1 DEF MoveOrConfirm
  <1>2. ASSUME NEW k, Release(r, k) PROVE UNCHANGED mgr
    BY <1>1, <1>2 DEF Release, ReadLease, KillRunProcess, RecheckRun, StopRunSandbox,
                      ReleaseLease, ReloadRun, FinishRun, Confirm
  <1>3. ASSUME NEW k \in Attempts, Execute(r, k) PROVE UNCHANGED mgr \/ status[r] = "queued"
    BY <1>1, <1>2, <1>3 DEF Execute, Attempt, LoadRun, ClaimRun, Claim, Transition,
                            CanTransition, AwaitCompletion, Converge, GiveUp
  <1>4. ASSUME NEW k, RequestCancel(r, k) \/ Cancel(r, k) \/ LoseCanceller(r, k)
                        \/ CallerFaults(r, k)
        PROVE  UNCHANGED mgr
    BY <1>1, <1>2, <1>4 DEF RequestCancel, Cancel, CancelRun, LoseCanceller, CallerFaults
  <1>5. CreateRun(r) \/ Create(r) \/ LoseCreator(r) => UNCHANGED mgr
    BY DEF CreateRun, Create, DispatchRun, FailDispatch, LoseCreator
  <1> QED
    BY <1>3, <1>4, <1>5 DEF ServiceNext

\* Then an owner tells the Lease of its sandbox.
LEMMA QuietMarkReady ==
    ASSUME IInv, NEW r \in Runs, ServiceNext(r), UNCHANGED mishaps, OwnerLegal(r),
           ReturnsEnd(r), mgr[r].pc = "markReady", OwnsLease(r, mgr[r].lref, mgr[r].lver)
    PROVE  mgr'[r] = mgr[r] \/ lease'.ref = mgr[r].ref
  <1>1. ~Mishap /\ ~DatabaseFault
    BY GroundTypes DEF Mishap, DatabaseFault, StoreTypeOK
  <1>2. status[r] # "queued"
    BY DEF OwnerLegal, LegalOwner
  <1>3. ~Terminal(r)
    BY DEF OwnsLease, Active, Terminal, isTerminalAgentRun, ActiveStatuses, TerminalStatuses
  <1>4. \A k \in Attempts : ~LoseAttempt(r, k)
    BY <1>1, <1>3 DEF LoseAttempt, ReturnsEnd
  <1>5. ASSUME CoordinatorNext(r) PROVE lease'.ref = mgr[r].ref
    <2>1. MarkLeaseReady(r)
      BY <1>5
         DEF CoordinatorNext, OwnerStep, Startup, MarkLeaseStarting, EnsureSandbox,
             RefreshAfterReady, ConfigureAgent, SpawnAgent, PromptAgent, PersistProcessRef,
             MarkLeaseBusy, MarkRunning, Terminate, NothingToTerminate, KillHeldProcess,
             RefreshAfterKill, RefreshBeforeStop, StopOwnSandbox, Fail, RefreshBeforeFail,
             FailDuration, FailLease, FailCommit, Complete, CompleteLease, CompleteDuration,
             CompleteCommit, Succeed, RefreshAfterLostSuccess, HandleCompletion,
             CatchEventError, RefreshBeforeCancel, MarkCancelling, AgentSettles, AgentFails,
             DeadlinePasses, RefreshFaults, RefreshPcs, At
    <2> QED
      BY <1>1, <2>1 DEF MarkLeaseReady, MoveLease, StatementFaults, UpdateLeaseForRun, WriteLease
  <1> QED
    BY <1>2, <1>4, <1>5, CallersOwner

\* Only ensureSandbox creates a sandbox.
LEMMA OwnerMovesCreates ==
    ASSUME StoreTypeOK, NEW r \in Runs, OwnerMoves(r), NEW s \in Runs, IsLive(s)', ~IsLive(s)
    PROVE  At(r, "ensure") /\ CreateSandbox(r)
  <1>1. /\ ~\E t : DestroySandbox(t)
        /\ \A q, t : ~KillProcess(q, t) /\ ~StartProcess(q, t)
        /\ ~UNCHANGED providerVars /\ ~UNCHANGED storeVars
    BY DEF DestroySandbox, KillProcess, StartProcess, providerVars, storeVars, IsLive, StoreTypeOK
  <1> QED
    BY <1>1
       DEF OwnerMoves, DidStartup, DidEnsureSandbox, DidRefreshAfterReady, DidConfigureAgent,
           DidSpawnAgent, DidPromptAgent, DidPersistProcessRef, DidMarkRunning, DidEvents,
           DidAgentEnds, DidHandleCompletion, DidCatchEventError, DidDeadlinePasses,
           DidRefreshBeforeCancel, DidTerminate, DidFail, DidDuration, DidComplete,
           DidRefreshFault, DidLease, DidRun

LEMMA CallerMovesCreates ==
    ASSUME StoreTypeOK, NEW r \in Runs, NEW k \in Callers, CallerMoves(r, k), NEW s \in Runs,
           IsLive(s)'
    PROVE  IsLive(s)
  <1>1. /\ \A t : DestroySandbox(t) => IsLive(s)
        /\ \A q, t : KillProcess(q, t) => IsLive(s)
        /\ UNCHANGED providerVars => IsLive(s)
    BY DEF DestroySandbox, KillProcess, providerVars, IsLive, StoreTypeOK
  <1> QED
    BY <1>1
       DEF CallerMoves, DidExecute, DidReadRun, DidLoadOrAwait, DidClaimRun, DidRelease,
           DidMoveOrConfirm, DidRequestCancel, DidCancelRun, DidFault, DidLose, Claim

\* A new sandbox is known to the owner that created it.
LEMMA QuietCreates ==
    ASSUME IInv, NEW r \in Runs, ServiceNext(r), UNCHANGED mishaps, NEW s \in Runs,
           IsLive(s)', ~IsLive(s)
    PROVE  s = r /\ mgr'[r].pc = "markReady" /\ mgr'[r].ref = r
  <1>0. StoreTypeOK /\ OwnersSound /\ ~Mishap
    BY GroundTypes DEF Mishap, StoreTypeOK
  <1>1. CoordinatorNext(r) /\ OwnerMoves(r)
    <2>1. \A k \in Callers : ~CallerMoves(r, k)
      BY <1>0, CallerMovesCreates
    <2>2. ~DidCreate(r)
      BY DEF DidCreate, providerVars, IsLive
    <2>3. RowsStep /\ CallersTyped /\ ServiceTypeOK
      BY GroundTypes, ServiceStepTyped DEF StoreStep
    <2>4. Attempts \subseteq Callers /\ Cancellers \subseteq Callers
      BY DEF Callers
    <2>5. ~(CreateRun(r) \/ Create(r) \/ LoseCreator(r))
      BY <2>2, <2>3, CreateMoves
    <2>6. /\ \A k \in Attempts : ~Execute(r, k) /\ ~LoseAttempt(r, k)
          /\ \A k \in Callers : ~CallerFaults(r, k)
      BY <1>0, <2>1, <2>3, <2>4, ExecuteMoves, FaultMoves
    <2>7. \A k \in Cancellers : ~RequestCancel(r, k) /\ ~Cancel(r, k) /\ ~LoseCanceller(r, k)
      BY <1>0, <2>1, <2>3, <2>4, CancelMoves, FaultMoves
    <2> QED
      BY <1>0, <2>5, <2>6, <2>7, CoordinatorMoves DEF ServiceNext
  <1>2. At(r, "ensure") /\ CreateSandbox(r)
    BY <1>0, <1>1, OwnerMovesCreates
  <1>3. s = r
    BY <1>0, <1>2 DEF CreateSandbox, IsLive, StoreTypeOK
  <1>4. EnsureSandbox(r)
    BY <1>1, <1>2
       DEF CoordinatorNext, OwnerStep, Startup, MarkLeaseStarting, MarkLeaseReady,
           RefreshAfterReady, ConfigureAgent, SpawnAgent, PromptAgent, PersistProcessRef,
           MarkLeaseBusy, MarkRunning, Terminate, NothingToTerminate, KillHeldProcess,
           RefreshAfterKill, RefreshBeforeStop, StopOwnSandbox, Fail, RefreshBeforeFail,
           FailDuration, FailLease, FailCommit, Complete, CompleteLease, CompleteDuration,
           CompleteCommit, Succeed, RefreshAfterLostSuccess, HandleCompletion,
           CatchEventError, RefreshBeforeCancel, MarkCancelling, AgentSettles, AgentFails,
           DeadlinePasses, RefreshFaults, RefreshPcs, At
  <1>5. sandbox' # sandbox
    BY <1>3 DEF IsLive
  <1>6. Become(r, [mgr[r] EXCEPT !.pc = "markReady", !.ref = r])
    BY <1>0, <1>4, <1>5 DEF EnsureSandbox, providerVars
  <1>7. "markReady" \in MgrPcs \ {"done", "dead"} /\ r \in SandboxRefs
    BY DEF MgrPcs, StartupPcs, SandboxRefs
  <1> QED
    BY <1>0, <1>3, <1>6, <1>7, KeepPcRef DEF Goes
-----------------------------------------------------------------------------
(* What is kept of a Run.                                                  *)

\* What nobody acts on behalf of stays as it is.
LEMMA StaysKept ==
    ASSUME IInv, Ground, StoreStep, NEW q \in Runs, RunKept(q), Stays(q)
    PROVE  RunKept(q)'
  <1>0. StoreTypeOK /\ FaultStep /\ ProviderStep
    BY GroundTypes DEF StoreStep
  <1>1. \A s \in SandboxRefs : Known(s) /\ IsLive(s)' => IsLive(s)
    BY <1>0, NoRevival
  <1>2. (Active(q)' <=> Active(q)) /\ (Terminal(q)' <=> Terminal(q))
    BY DEF Active, Terminal, Stays
  <1>3. RefFromLease(q)'
    BY <1>1, GroundTypes DEF RunKept, RefFromLease, Stays, Ground, RefsKnown, IsLive
  <1>4. ReturnsEnd(q)'
    <2>1. \A k \in Cancellers : caller'[q][k] = caller[q][k]
      BY DEF Stays, Callers
    <2> QED
      BY <1>2, <2>1 DEF RunKept, ReturnsEnd, CancelReturned, CallerAt
  <1>5. OwnsOnStartup(q)'
    BY <1>0, <1>2, OrderlyBefore DEF RunKept, OwnsOnStartup, OwnsLease, Stays
  <1>6. ASSUME NEW k \in Callers PROVE NothingKept(q, k)' /\ LeaseStillFree(q, k)'
    <2>1. caller'[q][k] = caller[q][k] /\ NothingKept(q, k) /\ LeaseStillFree(q, k)
      BY DEF RunKept, Stays
    <2>2. caller[q][k].lref \in SandboxRefs /\ Known(caller[q][k].lref)
      BY GroundTypes DEF Ground, RefsKnown
    <2>3. IsLive(caller[q][k].lref)' => IsLive(caller[q][k].lref)
      BY <1>1, <2>1, <2>2
    <2>4. NothingKept(q, k)'
      BY <2>1, <2>3 DEF NothingKept, IsLive
    <2>5. status[q] = "queued" => Active(q)
      BY DEF Active, ActiveStatuses
    <2> QED
      BY <2>1, <2>4, <2>5 DEF LeaseStillFree, CallerAt, Stays
  <1> QED
    BY <1>3, <1>4, <1>5, <1>6 DEF RunKept

\* A Run that is created, or that fails before its Workflow exists.
LEMMA CreateKept ==
    ASSUME IInv, Legal, Ground, StoreStep, NEW r \in Runs, DidCreate(r), RunKept(r)
    PROVE  RunKept(r)'
  <1>0. StoreTypeOK /\ FaultStep /\ RowsStep
    BY GroundTypes DEF StoreStep
  <1>1. UNCHANGED <<lease, sandbox, caller, mgr>>
    BY DEF DidCreate, providerVars
  <1>2. \/ status'[r] = status[r]
        \/ status[r] = "absent"
        \/ status[r] = "queued" /\ status'[r] = "failed"
    BY <1>0 DEF DidCreate, runRows, InsertQueued, Transition, CanTransition, StoreTypeOK
  <1>3. RefFromLease(r)'
    BY <1>1 DEF RunKept, RefFromLease, IsLive
  <1>4. ReturnsEnd(r)'
    BY <1>0, <1>1, StatusMoves
       DEF RunKept, ReturnsEnd, CancelReturned, CallerAt, Terminal, isTerminalAgentRun
  <1>5. OwnsOnStartup(r)'
    <2>1. mgr[r].pc \in TakingPcs => status[r] \notin {"absent", "queued"}
      BY DEF Legal, OwnerLegal, LegalOwner, TakingPcs
    <2> QED
      BY <1>0, <1>1, <1>2, <2>1, OrderlyBefore DEF RunKept, OwnsOnStartup, OwnsLease, Active
  <1>6. ASSUME NEW k \in Callers PROVE NothingKept(r, k)' /\ LeaseStillFree(r, k)'
    <2>1. NothingKept(r, k) /\ LeaseStillFree(r, k) /\ CallerLegal(r, k)
      BY DEF RunKept, Legal
    <2> QED
      BY <1>1, <1>2, <2>1 DEF NothingKept, LeaseStillFree, CallerLegal, CallerAt, IsLive
  <1> QED
    BY <1>3, <1>4, <1>5, <1>6 DEF RunKept

\* The owner's steps.
LEMMA OwnerKept ==
    ASSUME IInv, Legal, Ground, StoreStep, NEW r \in Runs, OwnerMoves(r), UNCHANGED caller,
           RunKept(r)
    PROVE  RunKept(r)'
  <1>0. StoreTypeOK /\ FaultStep /\ RowsStep /\ ProviderStep
    BY GroundTypes DEF StoreStep
  <1>1. \A s \in SandboxRefs : Known(s) /\ IsLive(s)' => IsLive(s)
    BY <1>0, NoRevival
  <1>2. RefFromLease(r)'
    <2>1. /\ mgr[r].lref \in SandboxRefs /\ Known(mgr[r].lref)
          /\ mgr[r].ref = mgr[r].lref \/ ~IsLive(mgr[r].lref)
      BY GroundTypes DEF Ground, RefsKnown, RunKept, RefFromLease
    <2>2. \A t \in SandboxRefs : DestroySandbox(t) => ~IsLive(t)'
      BY <1>0 DEF DestroySandbox, IsLive, SandboxRefs, StoreTypeOK
    <2>3. mgr'[r].lref = mgr[r].lref /\ ~IsLive(mgr[r].lref)
            => ~IsLive(mgr[r].lref)'
      BY <1>1, <2>1
    <2>4. mgr'[r].lref = mgr[r].lref /\ mgr[r].ref = mgr[r].lref /\ DestroySandbox(mgr[r].ref)
            => ~IsLive(mgr[r].lref)'
      BY <2>1, <2>2
    <2>5. OwnerParts(r)
      BY OwnerMovesParts
    <2> HIDE DEF IsLive
    <2>6. mgr'[r].ref = mgr'[r].lref \/ ~IsLive(mgr[r].lref)'
      BY <2>1, <2>3, <2>4, <2>5 DEF OwnerParts
    <2> QED
      BY <2>6 DEF RefFromLease, IsLive
  <1>3. ReturnsEnd(r)'
    BY <1>0, StatusMoves
       DEF RunKept, ReturnsEnd, CancelReturned, CallerAt, Terminal, isTerminalAgentRun
  <1>4. OwnsOnStartup(r)'
    <2> SUFFICES ASSUME Orderly', mgr'[r].pc \in TakingPcs
                 PROVE  OwnsLease(r, mgr[r].lref, mgr[r].lver)'
      BY DEF OwnsOnStartup
    <2>1. Orderly /\ UNCHANGED runRows
      BY <1>0, OrderlyBefore, OwnerMovesTaking
    <2>2. Active(r)' <=> Active(r)
      BY <2>1 DEF runRows, Active
    <2> QED
      BY <1>0, <2>1, <2>2, OwnerMovesTaking DEF RunKept, OwnsOnStartup, OwnsLease
  <1>5. status'[r] # "queued"
    <2>1. mgr[r].pc # "none"
      BY OwnerMovesAlive DEF FinishedPcs
    <2>2. status[r] \notin {"absent", "queued"}
      BY <2>1 DEF Legal, OwnerLegal, LegalOwner
    <2> QED
      BY <1>0, <2>2, StatusMoves
  <1>6. ASSUME NEW k \in Callers PROVE NothingKept(r, k)' /\ LeaseStillFree(r, k)'
    <2>1. NothingKept(r, k) /\ LeaseStillFree(r, k)
      BY DEF RunKept
    <2>2. caller[r][k].lref \in SandboxRefs /\ Known(caller[r][k].lref)
      BY GroundTypes DEF Ground, RefsKnown
    <2>3. IsLive(caller[r][k].lref)' => IsLive(caller[r][k].lref)
      BY <1>1, <2>2 DEF IsLive
    <2>4. NothingKept(r, k)'
      BY <2>1, <2>3 DEF NothingKept, IsLive
    <2> QED
      BY <1>5, <2>4 DEF LeaseStillFree
  <1> QED
    BY <1>2, <1>3, <1>4, <1>6 DEF RunKept

\* What a caller does to its own record, and to the owner's hold of the Lease.
LEMMA CallerKeptOwner ==
    ASSUME IInv, Legal, Ground, StoreStep, NEW r \in Runs, NEW k \in Callers, CallerMoves(r, k),
           RunKept(r)
    PROVE  RefFromLease(r)' /\ OwnsOnStartup(r)'
  <1>0. StoreTypeOK /\ OwnersSound /\ FaultStep /\ RowsStep /\ ProviderStep
    BY GroundTypes DEF StoreStep
  <1>1. \A s \in SandboxRefs : Known(s) /\ IsLive(s)' => IsLive(s)
    BY <1>0, NoRevival
  <1>2. CASE UNCHANGED mgr
    <2>1. RefFromLease(r)'
      BY <1>1, <1>2, GroundTypes DEF RunKept, RefFromLease, Ground, RefsKnown, IsLive
    <2>2. OwnsOnStartup(r)'
      <3> SUFFICES ASSUME Orderly', mgr[r].pc \in TakingPcs
                   PROVE  OwnsLease(r, mgr[r].lref, mgr[r].lver)'
        BY <1>2 DEF OwnsOnStartup
      <3>1. Orderly /\ OwnsLease(r, mgr[r].lref, mgr[r].lver)
        BY <1>0, OrderlyBefore DEF RunKept, OwnsOnStartup
      <3>2. ~Beside(r, k)
        BY DEF Ground, NoStartup, TakingPcs, StartupPcs
      <3>3. caller[r][k].pc \notin RelPcs
        BY <3>1, <3>2 DEF Beside
      <3>4. UNCHANGED lease
        BY <3>3, CallerMovesLease DEF CallerLease, RelPcs
      <3>5. Active(r)'
        <4>1. caller[r][k].pc = "giveUp" => caller[r][k].st = "queued"
          BY DEF RunKept, NothingKept
        <4>2. CallerRow(r, k)
          BY <1>0, <4>1, CallerMovesRowOwn
        <4>3. status[r] # "queued"
          BY DEF Legal, OwnerLegal, LegalOwner, TakingPcs
        <4> QED
          BY <3>1, <3>3, <4>2, <4>3 DEF CallerRow, RelPcs, OwnsLease, Active, ActiveStatuses
      <3> QED
        BY <1>2, <3>1, <3>4, <3>5 DEF OwnsLease
    <2> QED
      BY <2>1, <2>2
  <1>3. CASE Ends(r, "dead")
    BY <1>3 DEF Ends, RefFromLease, OwnsOnStartup, TakingPcs
  <1>4. CASE /\ k \in Attempts /\ CallerAt(r, k, "claim")
             /\ Claim(r, k, caller[r][k].lref, caller[r][k].lver)
    <2>1. /\ mgr'[r].lref = caller[r][k].lref /\ mgr'[r].lver = caller[r][k].lver
          /\ mgr'[r].ref = caller[r][k].lref
      BY <1>0, <1>4, GroundTypes, ClaimMoves
    <2>2. status[r] = "queued" /\ status'[r] = "starting" /\ UNCHANGED lease
      BY <1>0, <1>4 DEF Claim, Transition, CanTransition, StoreTypeOK
    <2>3. lease.ref = caller[r][k].lref /\ lease.version = caller[r][k].lver
      BY <1>4, <2>2 DEF RunKept, LeaseStillFree
    <2> QED
      BY <2>1, <2>2, <2>3
         DEF RefFromLease, OwnsOnStartup, OwnsLease, Active, ActiveStatuses
  <1> QED
    BY <1>2, <1>3, <1>4, CallerMovesOwner

LEMMA CallerKept ==
    ASSUME IInv, Legal, Ground, StoreStep, NEW r \in Runs, NEW k \in Callers, CallerMoves(r, k),
           RunKept(r)
    PROVE  RunKept(r)'
  <1>0. StoreTypeOK /\ CallersTyped /\ RowsStep /\ ProviderStep /\ OnlyCaller(r, k)
    BY GroundTypes, CallerMovesAlone DEF StoreStep
  <1>1. \A s \in SandboxRefs : Known(s) /\ IsLive(s)' => IsLive(s)
    BY <1>0, NoRevival
  <1>2. ReturnsEnd(r)'
    <2> SUFFICES ASSUME NEW j \in Cancellers, caller'[r][j].pc = "done",
                        isTerminalAgentRun(caller'[r][j].st)
                 PROVE  Terminal(r)'
      BY DEF ReturnsEnd, CancelReturned, CallerAt
    <2>1. Terminal(r) => Terminal(r)'
      BY <1>0, StatusMoves DEF Terminal, isTerminalAgentRun
    <2>2. CASE caller[r][j].pc = "done" /\ caller'[r][j].st = caller[r][j].st
      BY <2>1, <2>2 DEF RunKept, ReturnsEnd, CancelReturned, CallerAt
    <2>3. CASE caller'[r][j].st = status'[r]
      BY <2>3 DEF Terminal
    <2>4. CASE j # k
      BY <1>0, <2>2, <2>4 DEF OnlyCaller, Callers
    <2> QED
      BY <1>0, <2>2, <2>3, <2>4, CancellerMovesToDone
  <1>3. ASSUME NEW j \in Callers PROVE NothingKept(r, j)'
    <2>1. NothingKept(r, j) /\ caller[r][j].lref \in SandboxRefs /\ Known(caller[r][j].lref)
      BY GroundTypes DEF RunKept, Ground, RefsKnown
    <2>2. CASE j # k
      <3>1. caller'[r][j] = caller[r][j]
        BY <1>0, <2>2 DEF OnlyCaller
      <3>2. IsLive(caller[r][j].lref)' => IsLive(caller[r][j].lref)
        BY <1>1, <2>1, <3>1 DEF IsLive
      <3> QED
        BY <2>1, <3>1, <3>2 DEF NothingKept, IsLive
    <2>3. CASE j = k
      <3>1. CallerPath(r, k)
        BY <1>0, CallerMovesPath
      <3>2. ASSUME caller'[r][k].pc = "release", ~caller'[r][k].ref
            PROVE  ~IsLive(caller[r][k].lref)'
        <4>1. CASE caller'[r][k].lref = None
          BY <4>1 DEF IsLive
        <4>2. CASE caller'[r][k].lref = caller[r][k].lref /\ DestroySandbox(caller[r][k].lref)
          BY <1>0, <2>1, <2>3, <4>2 DEF DestroySandbox, IsLive, SandboxRefs, StoreTypeOK
        <4> QED
          BY <2>1, <2>3, <3>1, <3>2, <4>1, <4>2 DEF CallerPath, NothingKept
      <3> QED
        BY <2>1, <2>3, <3>1, <3>2 DEF CallerPath, NothingKept, IsLive
    <2> QED
      BY <2>2, <2>3
  <1>4. ASSUME NEW j \in Callers PROVE LeaseStillFree(r, j)'
    <2> SUFFICES ASSUME caller'[r][j].pc = "claim", status'[r] = "queued"
                 PROVE  /\ lease'.ref = caller'[r][j].lref
                        /\ lease'.version = caller'[r][j].lver
      BY DEF LeaseStillFree, CallerAt
    <2>1. status[r] = "queued" /\ caller[r][k].pc \notin RelPcs
      <3>1. caller[r][k].pc = "giveUp" => caller[r][k].st = "queued"
        BY DEF RunKept, NothingKept
      <3>2. CallerRow(r, k) /\ CallerLegal(r, k)
        BY <1>0, <3>1, CallerMovesRowOwn DEF Legal
      <3>3. caller[r][k].pc \notin RelPcs
        BY <1>0, <3>2, StatusMoves DEF CallerLegal
      <3> QED
        BY <3>2, <3>3 DEF CallerRow, RelPcs
    <2>2. UNCHANGED lease
      BY <2>1, CallerMovesLease DEF CallerLease, RelPcs
    <2>3. CASE j = k
      BY <2>3, CallerMovesToClaim
    <2>4. CASE j # k
      BY <1>0, <2>1, <2>2, <2>4 DEF OnlyCaller, RunKept, LeaseStillFree, CallerAt
    <2> QED
      BY <2>3, <2>4
  <1> QED
    BY <1>2, <1>3, <1>4, CallerKeptOwner DEF RunKept

LEMMA NextRunKept ==
    ASSUME IInv, Legal, Ground, Next, \A r \in Runs : RunKept(r)
    PROVE  \A r \in Runs : RunKept(r)'
  <1>0. StoreStep /\ StoreTypeOK /\ OwnersSound /\ CallersTyped
    BY NextIsStoreStep, GroundTypes
  <1>1. ASSUME NEW q \in Runs, Stays(q) PROVE RunKept(q)'
    BY <1>0, <1>1, StaysKept
  <1>2. ASSUME NEW r \in Runs, DidCreate(r), NEW q \in Runs PROVE RunKept(q)'
    <2>1. OnlyRow(r) /\ UNCHANGED <<lease, agentIn, caller, mgr>> /\ OnlyOwner(r)
      BY <1>0, <1>2, OnlyRowMoves DEF DidCreate, providerVars, OnlyOwner
    <2> QED
      BY <1>0, <1>1, <1>2, <2>1, CreateKept, OthersStay
  <1>3. ASSUME NEW r \in Runs, NEW k \in Callers, CallerMoves(r, k), NEW q \in Runs
        PROVE  RunKept(q)'
    <2>1. /\ OnlyRow(r) /\ OnlyCaller(r, k) /\ \A p \in Runs : agentIn'[p] \in {agentIn[p], None}
          /\ UNCHANGED lease \/ Active(r)
      BY <1>0, <1>3, CallerMovesRow, CallerMovesAlone, CallerMovesAgent, CallerMovesLease
         DEF CallerLease
    <2>2. OnlyOwner(r)
      BY <1>0, <1>3, GroundTypes, CallerMovesOwner, ClaimMoves DEF Ends, OnlyOwner
    <2>3. CASE q # r
      BY <1>1, <2>1, <2>2, <2>3, OthersStay DEF OnlyCaller
    <2> QED
      BY <1>0, <1>3, <2>3, CallerKept
  <1>4. ASSUME NEW r \in Runs, OwnerMoves(r), UNCHANGED serviceVars, NEW q \in Runs
        PROVE  RunKept(q)'
    <2>1. OnlyRow(r) /\ OnlyOwner(r) /\ UNCHANGED caller /\ (UNCHANGED lease \/ Active(r))
      BY <1>0, <1>4, OwnerMovesRow, OwnerMovesAlone, OwnerMovesLease DEF OwnerLease, serviceVars
    <2>2. CASE q # r
      <3>1. agentIn'[q] \in {agentIn[q], None}
        BY <1>0, <1>4, <2>2, OwnerMovesOtherAgents
      <3> QED
        BY <1>1, <2>1, <2>2, <3>1, OthersStay
    <2> QED
      BY <1>0, <1>4, <2>1, <2>2, OwnerKept
  <1>5. ASSUME OthersMove, NEW q \in Runs PROVE RunKept(q)'
    <2>1. agentIn'[q] \in {agentIn[q], None}
      BY <1>0, <1>5 DEF OthersMove, DestroySandbox, KillProcess, StoreTypeOK, providerVars
    <2>2. Stays(q)
      BY <1>5, <2>1 DEF OthersMove, Stays, runRows, NoActiveRun
    <2> QED
      BY <1>1, <2>2
  <1> QED
    BY <1>2, <1>3, <1>4, <1>5, ServiceNextMoves, OtherMoves DEF Next, ServiceMoves
-----------------------------------------------------------------------------
(* Every sandbox is named.                                                 *)

\* A step on behalf of a Run leaves the owners of all others alone.
LEMMA ServiceMovesAlone ==
    ASSUME IInv, NEW r \in Runs, ServiceMoves(r)
    PROVE  OnlyOwner(r)
  <1>1. CASE DidCreate(r)
    BY <1>1 DEF DidCreate, OnlyOwner
  <1>2. ASSUME NEW k \in Callers, CallerMoves(r, k) PROVE OnlyOwner(r)
    BY <1>2, GroundTypes, CallerMovesOwner, ClaimMoves DEF Ends, OnlyOwner
  <1>3. CASE OwnerMoves(r)
    BY <1>3, OwnerMovesAlone
  <1> QED
    BY <1>1, <1>2, <1>3 DEF ServiceMoves

\* The Lease goes on to name a live sandbox until a cleanup has detached it.
LEMMA LeaseGoesOn ==
    ASSUME IInv, NEW r \in Runs, ServiceMoves(r), RunKept(r), IsLive(lease.ref)
    PROVE  lease'.ref = lease.ref
  <1>1. CASE DidCreate(r)
    BY <1>1 DEF DidCreate
  <1>2. ASSUME NEW k \in Callers, CallerMoves(r, k) PROVE lease'.ref = lease.ref
    BY <1>2, CallerMovesGivesBack DEF RunKept, NothingKept
  <1>3. CASE OwnerMoves(r)
    BY <1>3, OwnerMovesOwned DEF RunKept, RefFromLease, OwnsLease
  <1> QED
    BY <1>1, <1>2, <1>3 DEF ServiceMoves

LEMMA ServiceNamed ==
    ASSUME IInv, Legal, Ground, NEW r \in Runs, ServiceNext(r), UNCHANGED <<reclaim, mishaps>>,
           mishaps = 0, RunKept(r), AllNamed, NEW s \in Runs, IsLive(s)'
    PROVE  Named(s)'
  <1>0. ServiceMoves(r) /\ OnlyOwner(r)
    BY ServiceNextMoves, ServiceMovesAlone
  <1>1. CASE ~IsLive(s)
    BY <1>1, QuietCreates DEF Named
  <1>2. CASE IsLive(s)
    <2>0. Named(s)
      BY <1>2 DEF AllNamed
    <2>1. CASE lease.ref = s
      BY <1>0, <1>2, <2>1, LeaseGoesOn DEF Named
    <2>2. ASSUME NEW q \in Runs, mgr[q].pc = "markReady", mgr[q].ref = s PROVE Named(s)'
      <3>1. CASE mgr'[q] = mgr[q]
        BY <2>2, <3>1 DEF Named
      <3>2. CASE q = r
        <4>1. OwnsLease(r, mgr[r].lref, mgr[r].lver)
          BY <2>2, <3>2 DEF RunKept, OwnsOnStartup, Orderly, TakingPcs
        <4>2. mgr'[r] = mgr[r] \/ lease'.ref = mgr[r].ref
          BY <2>2, <3>2, <4>1, QuietMarkReady DEF RunKept, Legal
        <4> QED
          BY <2>2, <3>1, <3>2, <4>2 DEF Named
      <3> QED
        BY <1>0, <3>1, <3>2 DEF OnlyOwner
    <2>3. CASE \E c \in Reclaims : reclaim[c].pc = "stop" /\ reclaim[c].lref = s
      BY <2>3 DEF Named
    <2> QED
      BY <2>0, <2>1, <2>2, <2>3 DEF Named
  <1> QED
    BY <1>1, <1>2

\* A cleanup keeps the sandbox that it has detached until it has stopped it.
LEMMA ReclaimerNamed ==
    ASSUME IInv, ReclaimerNext, UNCHANGED <<mgr, serviceVars>>, UNCHANGED mishaps,
           mishaps = 0, AllNamed, NEW s \in Runs, IsLive(s)'
    PROVE  Named(s)'
  <1>0. StoreTypeOK /\ ~Mishap /\ reclaim \in [Reclaims -> ReclaimRecords]
    BY GroundTypes DEF Mishap, StoreTypeOK, IInv, ReclaimTyped
  <1>1. ASSUME NEW c \in Reclaims, reclaim[c].pc = "off", UNCHANGED storeVars,
               \A d \in Reclaims : d # c => reclaim'[d] = reclaim[d]
        PROVE  Named(s)'
    BY <1>1 DEF AllNamed, Named, storeVars, IsLive
  <1>2. ASSUME NEW r \in Runs, ReadIdleLease(r) PROVE Named(s)'
    BY <1>0, <1>1, <1>2 DEF ReadIdleLease, Reclaims
  <1>3. ASSUME NEW u \in UserStops, ReadLeaseToStop(u) PROVE Named(s)'
    BY <1>0, <1>1, <1>3 DEF ReadLeaseToStop, Reclaims
  <1>4. ASSUME NEW c \in Reclaims, DetachSandbox(c) PROVE Named(s)'
    <2>1. IsLive(s) /\ Named(s)
      BY <1>4 DEF DetachSandbox, AllNamed, IsLive, providerVars
    <2>2. CASE CanClaim(c) /\ reclaim' = [reclaim EXCEPT ![c].pc = "stop"]
      <3>1. lease.ref = reclaim[c].lref
        BY <2>2 DEF CanClaim, CanClaimForManualStop, CanClaimIdleForStop
      <3>2. reclaim'[c].pc = "stop" /\ reclaim'[c].lref = reclaim[c].lref
        BY <1>0, <2>2 DEF ReclaimRecords
      <3>3. \A d \in Reclaims : reclaim[d].pc = "stop" => reclaim'[d] = reclaim[d] \/ d = c
        BY <1>0, <2>2
      <3>4. reclaim[c].pc # "stop"
        BY <1>4 DEF DetachSandbox
      <3> QED
        BY <2>1, <3>1, <3>2, <3>3, <3>4 DEF Named
    <2>3. CASE reclaim' = [reclaim EXCEPT ![c] = NoReclaim] /\ UNCHANGED lease
      BY <1>0, <1>4, <2>1, <2>3 DEF DetachSandbox, Named
    <2> QED
      BY <1>4, <2>2, <2>3 DEF DetachSandbox
  <1>5. ASSUME NEW c \in Reclaims, StopDetachedSandbox(c) PROVE Named(s)'
    <2>1. /\ DestroySandbox(reclaim[c].lref) /\ UNCHANGED lease
          /\ reclaim' = [reclaim EXCEPT ![c] = NoReclaim]
      BY <1>0, <1>5 DEF StopDetachedSandbox
    <2>2. IsLive(s) /\ s # reclaim[c].lref
      BY <1>0, <2>1 DEF DestroySandbox, IsLive, StoreTypeOK
    <2> QED
      BY <1>0, <2>1, <2>2 DEF AllNamed, Named
  <1> QED
    BY <1>2, <1>3, <1>4, <1>5 DEF ReclaimerNext, ReclaimStep

LEMMA NextKept ==
    ASSUME IInv, Legal, Ground, Kept, Next
    PROVE  Kept'
  <1>0. StoreTypeOK /\ FaultStep
    BY GroundTypes, NextIsStoreStep DEF StoreStep
  <1>1. \A r \in Runs : RunKept(r)'
    BY NextRunKept DEF Kept
  <1>2. ASSUME mishaps' = 0, NEW s \in Runs, IsLive(s)' PROVE Named(s)'
    <2>1. mishaps = 0 /\ UNCHANGED mishaps
      BY <1>0, <1>2 DEF FaultStep, Mishap, StoreTypeOK
    <2>2. ASSUME NEW r \in Runs, ServiceNext(r), UNCHANGED reclaim PROVE Named(s)'
      BY <1>2, <2>1, <2>2, ServiceNamed DEF Kept
    <2>3. CASE ReclaimerNext /\ UNCHANGED <<mgr, serviceVars>>
      BY <1>2, <2>1, <2>3, ReclaimerNamed DEF Kept
    <2>4. CASE ProviderNext /\ UNCHANGED <<mgr, serviceVars, reclaim>>
      <3>1. UNCHANGED lease /\ IsLive(s)
        BY <1>0, <1>2, <2>4
           DEF ProviderNext, SandboxExpires, AgentExits, DestroySandbox, KillProcess, IsLive,
               StoreTypeOK
      <3> QED
        BY <2>1, <2>4, <3>1 DEF Kept, AllNamed, Named
    <2> QED
      BY <2>2, <2>3, <2>4 DEF Next
  <1> QED
    BY <1>1, <1>2 DEF Kept, AllNamed

LEMMA InitKept == Init => Kept
  BY DEF Init, CoordinatorInit, ServiceInit, StoreInit, NoManagedRun, NoCaller, Kept, AllNamed,
         IsLive, RunKept, RefFromLease, ReturnsEnd, CancelReturned, CallerAt, OwnsOnStartup,
         TakingPcs, NothingKept, LeaseStillFree, Callers

LEMMA InductiveKept == Spec => []Kept
  <1>1. Init => Kept
    BY InitKept
  <1>2. ASSUME SafetyInv, Kept, [Next]_vars PROVE Kept'
    <2>1. CASE Next
      BY <1>2, <2>1, NextKept DEF SafetyInv
    <2>2. CASE UNCHANGED vars
      <3>1. UNCHANGED <<status, lease, sandbox, mishaps, mgr, caller, reclaim>>
        BY <2>2 DEF vars, storeVars, serviceVars
      <3>2. AllNamed'
        BY <1>2, <3>1 DEF Kept, AllNamed, Named, IsLive
      <3>3. \A r \in Runs : RunKept(r)'
        BY <1>2, <3>1
           DEF Kept, RunKept, RefFromLease, ReturnsEnd, CancelReturned, CallerAt, Terminal,
               OwnsOnStartup, Orderly, OwnsLease, Active, NothingKept, LeaseStillFree, IsLive
      <3> QED
        BY <3>2, <3>3 DEF Kept
    <2> QED
      BY <1>2, <2>1, <2>2
  <1> QED
    BY <1>1, <1>2, InductiveSafety, PTL DEF Spec

\* Until a first fault or lost isolate every live sandbox is named by the Lease, or by the
\* owner that is about to write it there, or by the cleanup that is about to stop it
\* (ManagedRun.start, releaseRunProcess, SandboxReclaimer.stop): no order of the steps of
\* owners, attempts, cancel requests and cleanups leaves one to the Provider's timeout.
THEOREM NoOrphanCorrect == Spec => []NoOrphanWithoutMishap
  <1>1. Kept => NoOrphanWithoutMishap
    BY DEF Kept, AllNamed, Named, NoOrphanWithoutMishap, FinishedPcs
  <1> QED
    BY <1>1, InductiveKept, PTL
=============================================================================
