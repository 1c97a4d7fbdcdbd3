--------------------------- MODULE RunCoordinator ---------------------------
(***************************************************************************)
(* ManagedRun of src/application/run-coordinator.ts: the in-memory owner   *)
(* that starts the agent of a Run, follows its events and publishes the    *)
(* outcome.  A Run has at most one, because only the caller that wins      *)
(* queued -> starting goes on to build one.                                *)
(*                                                                         *)
(* Each action is one await: a database statement or a Provider call,      *)
(* with the synchronous code up to the next await.  pc names the await the *)
(* owner is about to perform.                                              *)
(***************************************************************************)
EXTENDS ProjectStore

CONSTANT MaxAttempts     \* Workflow attempts per Run: 1 + the retry limit

ASSUME AttemptsAssumption == MaxAttempts \in Nat \ {0}

Attempts == 1..MaxAttempts

VARIABLE mgr             \* the ManagedRun of each Run

StartupPcs   == {"markStarting", "ensure", "markReady", "afterReady", "configure",
                 "spawn", "prompt", "persist", "markBusy", "markRunning"}
CancelPcs    == {"cancelRefresh", "cancelMark"}
TerminatePcs == {"terminate", "killFailed", "stopSandbox"}
FailPcs      == {"failRefresh", "failDuration", "failLease", "failCommit"}
CompletePcs  == {"completeLease", "completeDuration", "completeCommit",
                 "succeed", "succeedLost"}
MgrPcs       == StartupPcs \cup CancelPcs \cup TerminatePcs \cup FailPcs \cup CompletePcs
                  \cup {"none", "consume", "exited", "catch", "done", "rejected", "dead"}
FinishedPcs  == {"none", "done", "dead"}

Goals == {"succeeded", "failed", "cancelled", "timed_out", "fail"}

ManagedRuns ==
    [pc    : MgrPcs,
     by    : Attempts \cup {0},               \* the attempt that built it
     st    : Statuses,                        \* currentRun.status
     lref  : SandboxRefs, lver : Nat,         \* currentLease
     ref   : SandboxRefs,                     \* providerRef
     proc  : {"unstarted", "attempted", "held", "stopped"},
     goal  : Goals,                           \* complete(goal), or fail
     ctx   : {"start", "events", "cancel", "fail"},   \* who catches a throw
     timer : {"unset", "armed", "fired", "rejected"},  \* of completionWithTimeout
     lost  : BOOLEAN,                         \* was the completion rejected?
     back  : {"consume", "catch", "rejected"}]   \* where a rejected cancel resumes

NoManagedRun ==
    [pc |-> "none", by |-> 0, st |-> "queued", lref |-> None, lver |-> 0, ref |-> None,
     proc |-> "unstarted", goal |-> "fail", ctx |-> "start", timer |-> "unset",
     lost |-> FALSE, back |-> "consume"]

CoordinatorInit == mgr = [r \in Runs |-> NoManagedRun]

At(r, pc) == mgr[r].pc = pc

\* Of an owner that is gone only its completion and the deadline are ever looked at.
Settled(m) ==
    IF m.pc \notin {"done", "dead"} THEN m
    ELSE [NoManagedRun EXCEPT !.pc = m.pc, !.by = m.by, !.timer = m.timer, !.lost = m.lost]

Become(r, m) == mgr' = [mgr EXCEPT ![r] = Settled(m)]
Go(r, pc)    == Become(r, [mgr[r] EXCEPT !.pc = pc])

\* A throw in start() or in the event loop ends in fail(); one in cancel() rejects only
\* the deadline's promise; one in fail() itself rejects the completion.
Thrown(m) ==
    CASE m.ctx = "start"  -> [m EXCEPT !.pc = "terminate", !.ctx = "fail", !.goal = "fail"]
      [] m.ctx = "events" -> [m EXCEPT !.pc = "catch"]
      [] m.ctx = "cancel" -> [m EXCEPT !.pc = m.back, !.ctx = "events", !.timer = "rejected"]
      [] m.ctx = "fail"   -> [m EXCEPT !.pc = "rejected", !.lost = TRUE]

Throw(r) == Become(r, Thrown(mgr[r]))

\* A statement faults; it may have been executed all the same.
StatementFaults(r) == DatabaseFault /\ Throw(r)

\* refreshCurrentRun
Refreshed(r) == [mgr[r] EXCEPT !.st = status[r]]

\* terminateExecution returned.
Terminated(m) == [m EXCEPT !.pc = IF m.goal = "fail" THEN "failRefresh" ELSE "completeLease"]

\* updateLease: CAS over the Lease it last read or wrote.
MoveLease(r, newStatus, next) ==
    /\ \/ /\ UpdateLeaseForRun(r, mgr[r].lref, mgr[r].lver, newStatus, mgr[r].ref)
          /\ Become(r, [mgr[r] EXCEPT !.pc = next, !.lref = lease'.ref,
                                      !.lver = lease'.version])
          /\ UNCHANGED mishaps
       \/ /\ ~OwnsLease(r, mgr[r].lref, mgr[r].lver)
          /\ Throw(r)
          /\ UNCHANGED <<lease, mishaps>>
       \/ /\ \/ UpdateLeaseForRun(r, mgr[r].lref, mgr[r].lver, newStatus, mgr[r].ref)
             \/ UNCHANGED lease
          /\ StatementFaults(r)
    /\ UNCHANGED <<runRows, providerVars>>

\* transition: CAS over the status this owner last read.
MoveRun(r, to, next) ==
    /\ \/ /\ Transition(r, mgr[r].st, to)
          /\ Become(r, [mgr[r] EXCEPT !.pc = next, !.st = to])
          /\ UNCHANGED mishaps
       \/ /\ ~CanTransition(r, mgr[r].st, to)
          /\ Throw(r)
          /\ UNCHANGED <<runRows, mishaps>>
       \/ (Transition(r, mgr[r].st, to) \/ UNCHANGED runRows) /\ StatementFaults(r)
    /\ UNCHANGED <<lease, providerVars>>

-----------------------------------------------------------------------------
(* start()                                                                 *)

\* Mutant: the claim reads the status and then writes it unconditionally.
ClaimAnyway(r, k, ref, ver) ==
    /\ Active(r)
    /\ status' = [status EXCEPT ![r] = "starting"]
    /\ Become(r, [NoManagedRun EXCEPT !.pc = "markStarting", !.by = k, !.st = "starting",
                                      !.lref = ref, !.lver = ver, !.ref = ref])
    /\ UNCHANGED <<processRef, reply, newest, lease, providerVars, mishaps>>

\* transition("queued", "starting"), by the attempt that holds Lease snapshot (ref, ver).
Claim(r, k, ref, ver) ==
    /\ Transition(r, "queued", "starting")
    /\ Become(r, [NoManagedRun EXCEPT !.pc = "markStarting", !.by = k, !.st = "starting",
                                      !.lref = ref, !.lver = ver, !.ref = ref])
    /\ UNCHANGED <<lease, providerVars, mishaps>>

MarkLeaseStarting(r) == At(r, "markStarting") /\ MoveLease(r, "starting", "ensure")

\* SandboxRuntime.ensureLease: attach to the leased sandbox, or create one when there
\* is none or it is gone.  A fault may leave a sandbox behind that nobody knows.
EnsureSandbox(r) ==
    /\ At(r, "ensure")
    /\ \/ /\ IsLive(mgr[r].lref)
          /\ Become(r, [mgr[r] EXCEPT !.pc = "markReady", !.ref = mgr[r].lref])
          /\ UNCHANGED <<providerVars, mishaps>>
       \/ /\ ~IsLive(mgr[r].lref)
          /\ CreateSandbox(r)
          /\ Become(r, [mgr[r] EXCEPT !.pc = "markReady", !.ref = r])
          /\ UNCHANGED mishaps
       \/ /\ Mishap
          /\ UNCHANGED providerVars \/ (~IsLive(mgr[r].lref) /\ CreateSandbox(r))
          /\ Throw(r)
    /\ UNCHANGED <<runRows, lease>>

\* Mutant: the new sandbox is written to the Lease only when the agent is busy.
LeaseReadyLater(r) == At(r, "markReady") /\ Go(r, "afterReady") /\ UNCHANGED storeVars

MarkLeaseReady(r) == At(r, "markReady") /\ MoveLease(r, "ready", "afterReady")

RefreshAfterReady(r) ==
    /\ At(r, "afterReady")
    /\ Become(r, CASE status[r] = "cancelling" ->
                        [Refreshed(r) EXCEPT !.pc = "completeLease", !.goal = "cancelled"]
                   [] Terminal(r) -> Thrown(Refreshed(r))
                   [] OTHER -> [Refreshed(r) EXCEPT !.pc = "configure"])
    /\ UNCHANGED storeVars

\* AgentRuntime.start: files.write, then the status check of processes.start.
ConfigureAgent(r) ==
    /\ At(r, "configure")
    /\ \/ /\ IsLive(mgr[r].ref)
          /\ Become(r, IF status[r] = "starting"
                       THEN [Refreshed(r) EXCEPT !.pc = "spawn", !.proc = "attempted"]
                       ELSE Thrown(Refreshed(r)))
          /\ UNCHANGED mishaps
       \/ /\ IF IsLive(mgr[r].ref) THEN Mishap ELSE UNCHANGED mishaps
          /\ Throw(r)
    /\ UNCHANGED <<runRows, lease, providerVars>>

\* SandboxRuntime.startProcess.  A fault may hide that the process was started.
SpawnAgent(r) ==
    /\ At(r, "spawn")
    /\ \/ /\ StartProcess(r, mgr[r].ref)
          /\ Become(r, [mgr[r] EXCEPT !.pc = "prompt", !.proc = "held"])
          /\ UNCHANGED mishaps
       \/ /\ StartProcess(r, mgr[r].ref)
          /\ Mishap
          /\ Throw(r)
       \/ /\ IF IsLive(mgr[r].ref) THEN Mishap ELSE UNCHANGED mishaps
          /\ Throw(r)
          /\ UNCHANGED providerVars
    /\ UNCHANGED <<runRows, lease>>

\* The prompt is written to the stdin of the session that is now known.
PromptAgent(r) ==
    /\ At(r, "prompt")
    /\ \/ /\ IsLive(mgr[r].ref)
          /\ Go(r, "persist")
          /\ UNCHANGED mishaps
       \/ /\ IF IsLive(mgr[r].ref) THEN Mishap ELSE UNCHANGED mishaps
          /\ Throw(r)
    /\ UNCHANGED <<runRows, lease, providerVars>>

PersistProcessRef(r) ==
    /\ At(r, "persist")
    /\ \/ /\ SetProcessRef(r)
          /\ Become(r, IF status[r] = "cancelling"
                       THEN [Refreshed(r) EXCEPT !.pc = "terminate", !.goal = "cancelled"]
                       ELSE [Refreshed(r) EXCEPT !.pc = "markBusy"])
          /\ UNCHANGED mishaps
       \/ /\ ~CanSetProcessRef(r)
          /\ Throw(r)
          /\ UNCHANGED <<runRows, mishaps>>
       \/ (SetProcessRef(r) \/ UNCHANGED runRows) /\ StatementFaults(r)
    /\ UNCHANGED <<lease, providerVars>>

MarkLeaseBusy(r) == At(r, "markBusy") /\ MoveLease(r, "busy", "markRunning")

\* start() returns: consumeEvents() begins and the caller arms the deadline.
MarkRunning(r) ==
    /\ At(r, "markRunning")
    /\ \/ /\ Transition(r, "starting", "running")
          /\ Become(r, [mgr[r] EXCEPT !.pc = "consume", !.st = "running", !.ctx = "events",
                                      !.timer = "armed"])
          /\ UNCHANGED mishaps
       \/ /\ ~CanTransition(r, "starting", "running")
          /\ Throw(r)
          /\ UNCHANGED <<runRows, mishaps>>
       \/ (Transition(r, "starting", "running") \/ UNCHANGED runRows) /\ StatementFaults(r)
    /\ UNCHANGED <<lease, providerVars>>

-----------------------------------------------------------------------------
(* consumeEvents()                                                         *)

\* The agent settled with a successful message; its process is then terminated and the
\* completion event carries exit code 0.  The record may be read after the process died.
AgentSettles(r) ==
    /\ At(r, "consume")
    /\ KillProcess(r, mgr[r].ref)
    /\ Become(r, [mgr[r] EXCEPT !.pc = "exited", !.goal = "succeeded"])
    /\ UNCHANGED <<runRows, lease, mishaps>>

\* The process completed without settling (never exit code 0), or its protocol was broken:
\* then it is terminated and the error passed on, even when terminating it faults.
AgentFails(r) ==
    /\ At(r, "consume")
    /\ \/ /\ agentIn[r] = None
          /\ Become(r, [mgr[r] EXCEPT !.pc = "exited", !.goal = "failed"])
          /\ UNCHANGED <<providerVars, mishaps>>
       \/ /\ KillProcess(r, mgr[r].ref)
          /\ Throw(r)
          /\ UNCHANGED mishaps
       \/ /\ agentIn[r] # None
          /\ Mishap
          /\ Throw(r)
          /\ UNCHANGED providerVars
    /\ UNCHANGED <<runRows, lease>>

\* agent.completed: processStopped, then the outcome unless a cancellation came first.
\* A settled agent without a visible reply fails the Run instead.
HandleCompletion(r) ==
    /\ At(r, "exited")
    /\ LET m == [Refreshed(r) EXCEPT !.proc = "stopped"]
       IN  CASE Terminal(r) -> Become(r, [m EXCEPT !.pc = "done"])
             [] status[r] = "cancelling" ->
                  Become(r, [m EXCEPT !.pc = "completeLease", !.goal = "cancelled"])
             [] OTHER -> \/ Become(r, [m EXCEPT !.pc = "completeLease"])
                         \/ /\ m.goal = "succeeded"
                            /\ Become(r, [m EXCEPT !.pc = "terminate", !.goal = "fail"])
    /\ UNCHANGED storeVars

\* The catch block queues failSafely behind the operation that threw.
CatchEventError(r) ==
    /\ At(r, "catch")
    /\ Become(r, [mgr[r] EXCEPT !.pc = "terminate", !.ctx = "fail", !.goal = "fail"])
    /\ UNCHANGED storeVars

-----------------------------------------------------------------------------
(* cancel("timed_out"), queued between two operations of the event loop    *)

\* The operation runs when the one before it has ended; behind a fail() that rejected
\* the completion it still runs, now beside the caller that converges the Run.
DeadlinePasses(r) ==
    /\ mgr[r].pc \in {"consume", "catch", "rejected"}
    /\ mgr[r].timer = "armed"
    /\ Become(r, [mgr[r] EXCEPT !.pc = "cancelRefresh", !.timer = "fired",
                                !.back = mgr[r].pc, !.ctx = "cancel", !.goal = "timed_out"])
    /\ UNCHANGED storeVars

RefreshBeforeCancel(r) ==
    /\ At(r, "cancelRefresh")
    /\ Become(r, CASE Terminal(r) -> [Refreshed(r) EXCEPT !.pc = "done"]
                   [] status[r] \in {"starting", "running"} ->
                        [Refreshed(r) EXCEPT !.pc = "cancelMark"]
                   [] OTHER -> [Refreshed(r) EXCEPT !.pc = "terminate"])
    /\ UNCHANGED storeVars

MarkCancelling(r) == At(r, "cancelMark") /\ MoveRun(r, "cancelling", "terminate")

-----------------------------------------------------------------------------
(* terminateExecution()                                                    *)

NothingToTerminate(r) ==
    /\ At(r, "terminate")
    /\ mgr[r].proc \in {"unstarted", "stopped"}
    /\ Become(r, Terminated(mgr[r]))
    /\ UNCHANGED storeVars

\* The targeted kill.  It cannot be confirmed when the Provider faults, and need not be
\* when the sandbox is already gone.
KillHeldProcess(r) ==
    /\ At(r, "terminate")
    /\ mgr[r].proc = "held"
    /\ \/ /\ KillProcess(r, mgr[r].ref)
          /\ Become(r, Terminated([mgr[r] EXCEPT !.proc = "stopped"]))
          /\ UNCHANGED mishaps
       \/ /\ IF IsLive(mgr[r].ref) THEN Mishap ELSE UNCHANGED mishaps
          /\ Go(r, "killFailed")
          /\ UNCHANGED providerVars
    /\ UNCHANGED <<runRows, lease>>

\* Mutant: a kill that could not be confirmed counts as done.
AssumeKilled(r) ==
    /\ At(r, "killFailed")
    /\ Become(r, Terminated([Refreshed(r) EXCEPT !.proc = "stopped"]))
    /\ UNCHANGED storeVars

\* Never escalate a targeted kill to a stop of the sandbox.
RefreshAfterKill(r) ==
    /\ At(r, "killFailed")
    /\ Become(r, IF Terminal(r) THEN Terminated([Refreshed(r) EXCEPT !.proc = "stopped"])
                                ELSE Thrown(Refreshed(r)))
    /\ UNCHANGED storeVars

RefreshBeforeStop(r) ==
    /\ At(r, "terminate")
    /\ mgr[r].proc = "attempted"
    /\ Become(r, IF Terminal(r)           THEN Terminated(Refreshed(r))
                 ELSE IF mgr[r].ref = None THEN Thrown(Refreshed(r))
                 ELSE [Refreshed(r) EXCEPT !.pc = "stopSandbox"])
    /\ UNCHANGED storeVars

StopOwnSandbox(r) ==
    /\ At(r, "stopSandbox")
    /\ \/ /\ DestroySandbox(mgr[r].ref)
          /\ Become(r, Terminated([mgr[r] EXCEPT !.ref = None, !.proc = "stopped"]))
          /\ UNCHANGED mishaps
       \/ /\ Mishap
          /\ Throw(r)
          /\ UNCHANGED providerVars
    /\ UNCHANGED <<runRows, lease>>

-----------------------------------------------------------------------------
(* fail()                                                                  *)

RefreshBeforeFail(r) ==
    /\ At(r, "failRefresh")
    /\ Become(r, CASE Terminal(r) -> [Refreshed(r) EXCEPT !.pc = "done"]
                   [] status[r] = "cancelling" ->
                        [Refreshed(r) EXCEPT !.pc = "completeLease", !.goal = "cancelled"]
                   [] OTHER -> [Refreshed(r) EXCEPT !.pc = "failDuration"])
    /\ UNCHANGED storeVars

\* recordSandboxDuration writes an active Run only, and reads its status back.
RecordDuration(r, next) ==
    /\ Become(r, IF Active(r) THEN [Refreshed(r) EXCEPT !.pc = next] ELSE Thrown(mgr[r]))
    /\ UNCHANGED storeVars

FailDuration(r) == At(r, "failDuration") /\ RecordDuration(r, "failLease")

FailLease(r) ==
    /\ At(r, "failLease")
    /\ MoveLease(r, IF mgr[r].ref = None THEN "stopped" ELSE "failed", "failCommit")

FailCommit(r) == At(r, "failCommit") /\ MoveRun(r, "failed", "done")

-----------------------------------------------------------------------------
(* complete()                                                              *)

\* Mutant: the status of the Run is written to the Lease.
CompleteLeaseWithGoal(r) ==
    /\ At(r, "completeLease")
    /\ MoveLease(r, mgr[r].goal,
                 IF mgr[r].goal = "succeeded" THEN "succeed" ELSE "completeDuration")

\* Mutant: the Lease is left to a release after the Run has become terminal.
CompleteLeaseLater(r) ==
    /\ At(r, "completeLease")
    /\ Go(r, IF mgr[r].goal = "succeeded" THEN "succeed" ELSE "completeDuration")
    /\ UNCHANGED storeVars

\* The Lease is released before the Run becomes terminal.
CompleteLease(r) ==
    /\ At(r, "completeLease")
    /\ MoveLease(r, IF mgr[r].ref = None THEN "stopped" ELSE "idle",
                 IF mgr[r].goal = "succeeded" THEN "succeed" ELSE "completeDuration")

CompleteDuration(r) == At(r, "completeDuration") /\ RecordDuration(r, "completeCommit")

CompleteCommit(r) == At(r, "completeCommit") /\ MoveRun(r, mgr[r].goal, "done")

Succeed(r) ==
    /\ At(r, "succeed")
    /\ \/ CompleteSucceeded(r) /\ Go(r, "done") /\ UNCHANGED mishaps
       \/ status[r] # "running" /\ Go(r, "succeedLost") /\ UNCHANGED <<runRows, mishaps>>
       \/ (CompleteSucceeded(r) \/ UNCHANGED runRows) /\ StatementFaults(r)
    /\ UNCHANGED <<lease, providerVars>>

RefreshAfterLostSuccess(r) ==
    /\ At(r, "succeedLost")
    /\ Become(r, CASE Terminal(r) -> [Refreshed(r) EXCEPT !.pc = "done"]
                   [] status[r] = "cancelling" ->
                        [Refreshed(r) EXCEPT !.pc = "completeLease", !.goal = "cancelled"]
                   [] OTHER -> Thrown(Refreshed(r)))
    /\ UNCHANGED storeVars

-----------------------------------------------------------------------------
(* Reading the Run again, or recording the duration, faults.               *)

RefreshPcs == {"afterReady", "exited", "cancelRefresh", "killFailed", "failRefresh",
               "failDuration", "completeDuration", "succeedLost"}

RefreshFaults(r) ==
    /\ \/ mgr[r].pc \in RefreshPcs
       \/ At(r, "terminate") /\ mgr[r].proc = "attempted"
    /\ DatabaseFault
    /\ Become(r, Thrown([mgr[r] EXCEPT !.proc = IF At(r, "exited") THEN "stopped" ELSE @]))
    /\ UNCHANGED <<runRows, lease, providerVars>>

-----------------------------------------------------------------------------
Startup(r) ==
    \/ MarkLeaseStarting(r) \/ EnsureSandbox(r) \/ MarkLeaseReady(r)
    \/ RefreshAfterReady(r) \/ ConfigureAgent(r) \/ SpawnAgent(r)
    \/ PromptAgent(r) \/ PersistProcessRef(r) \/ MarkLeaseBusy(r) \/ MarkRunning(r)

Terminate(r) ==
    \/ NothingToTerminate(r) \/ KillHeldProcess(r) \/ RefreshAfterKill(r)
    \/ RefreshBeforeStop(r) \/ StopOwnSandbox(r)

Fail(r) == RefreshBeforeFail(r) \/ FailDuration(r) \/ FailLease(r) \/ FailCommit(r)

Complete(r) ==
    \/ CompleteLease(r) \/ CompleteDuration(r) \/ CompleteCommit(r)
    \/ Succeed(r) \/ RefreshAfterLostSuccess(r)

\* What the owner does by itself, without waiting for its agent.
OwnerStep(r) ==
    \/ Startup(r) \/ Terminate(r) \/ Fail(r) \/ Complete(r)
    \/ HandleCompletion(r) \/ CatchEventError(r)
    \/ RefreshBeforeCancel(r) \/ MarkCancelling(r)

CoordinatorNext(r) ==
    \/ OwnerStep(r) \/ AgentSettles(r) \/ AgentFails(r) \/ DeadlinePasses(r)
    \/ RefreshFaults(r)
=============================================================================
