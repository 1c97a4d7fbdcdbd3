------------------------ MODULE RunExecutionService ------------------------
(***************************************************************************)
(* CreateAgentRunService (src/application/create-agent-run.ts) and         *)
(* RunExecutionService (src/application/run-execution.ts) with the two     *)
(* ways it is called: execute(), as a Workflow step that is retried, and   *)
(* cancel(), as an HTTP request.  Both end in releaseRunProcess and a      *)
(* compare-and-set of the Run, so both are "callers" here.                 *)
(***************************************************************************)
EXTENDS RunCoordinator

CONSTANTS Cancellers,    \* the HTTP requests to cancel a Run
          StepTimeout    \* can the step's hard timeout start a retry while the timed-out
                         \* attempt is still in flight?

ASSUME CancellersAssumption  == Cancellers \cap Nat = {}
ASSUME StepTimeoutAssumption == StepTimeout \in BOOLEAN

Callers == Attempts \cup Cancellers

VARIABLES dispatch,      \* progress of create(): the request that made the Run
          dispatched,    \* whether the Run's Workflow instance exists
          caller         \* the attempts and cancel requests of each Run

serviceVars == <<dispatch, dispatched, caller>>

CallerPcs == {"idle", "load", "claim", "wait", "converge", "giveUp", "cancel",
              "readLease", "kill", "recheck", "stop", "release", "reload", "finish",
              "confirm", "done", "threw", "dead"}
StoppedPcs == {"idle", "done", "threw", "dead"}

CallerRecords ==
    [pc     : CallerPcs,
     st     : Statuses, ref : BOOLEAN,           \* the AgentRunRecord it holds
     lref   : SandboxRefs, lver : Nat,           \* the SandboxLeaseRecord it holds
     target : {"cancelled", "interrupted"}]      \* the terminal status it aims at

NoCaller == [pc |-> "idle", st |-> "queued", ref |-> FALSE, lref |-> None, lver |-> 0,
             target |-> "interrupted"]

ServiceInit ==
    /\ dispatch   = [r \in Runs |-> "none"]
    /\ dispatched = [r \in Runs |-> FALSE]
    /\ caller     = [r \in Runs |-> [k \in Callers |-> NoCaller]]

CallerAt(r, k, pc) == caller[r][k].pc = pc

\* The records a caller is about to read again, or no longer needs, are forgotten.
Remembered(c) ==
    CASE c.pc \in {"wait", "converge", "confirm", "threw", "dead"} ->
                          [NoCaller EXCEPT !.pc = c.pc]
      [] c.pc = "done" -> [NoCaller EXCEPT !.pc = c.pc, !.st = c.st]
      [] OTHER         -> c

CallerBecome(r, k, c) == caller' = [caller EXCEPT ![r][k] = Remembered(c)]
CallerGo(r, k, pc)    == CallerBecome(r, k, [caller[r][k] EXCEPT !.pc = pc])

\* The record after agentRuns.findById.
Reloaded(r, k) == [caller[r][k] EXCEPT !.st = status[r], !.ref = processRef[r]]

-----------------------------------------------------------------------------
(* create()                                                                *)

CreateRun(r) ==
    /\ dispatch[r] = "none"
    /\ InsertQueued(r)
    /\ dispatch' = [dispatch EXCEPT ![r] = "start"]
    /\ UNCHANGED <<lease, providerVars, mishaps, dispatched, caller, mgr>>

\* runExecutions.start creates the Workflow instance; when the call faults, the instance
\* may exist all the same.
DispatchRun(r) ==
    /\ dispatch[r] = "start"
    /\ \/ /\ dispatch'   = [dispatch EXCEPT ![r] = "created"]
          /\ dispatched' = [dispatched EXCEPT ![r] = TRUE]
          /\ UNCHANGED mishaps
       \/ /\ Mishap
          /\ dispatch'   = [dispatch EXCEPT ![r] = "fail"]
          /\ \E d \in BOOLEAN : dispatched' = [dispatched EXCEPT ![r] = d]
    /\ UNCHANGED <<runRows, lease, providerVars, caller, mgr>>

\* transition("queued", "failed"); losing it means that somebody else moved the Run on.
FailDispatch(r) ==
    /\ dispatch[r] = "fail"
    /\ \/ Transition(r, "queued", "failed")
       \/ ~CanTransition(r, "queued", "failed") /\ UNCHANGED runRows
    /\ dispatch' = [dispatch EXCEPT ![r] = "created"]
    /\ UNCHANGED <<lease, providerVars, mishaps, dispatched, caller, mgr>>

\* The Worker of the creating request is lost between two of its steps.
LoseCreator(r) ==
    /\ dispatch[r] \in {"start", "fail"}
    /\ Mishap
    /\ dispatch' = [dispatch EXCEPT ![r] = "lost"]
    /\ UNCHANGED <<runRows, lease, providerVars, dispatched, caller, mgr>>

-----------------------------------------------------------------------------
(* execute()                                                               *)

\* The Workflow runs the step for the first time, or again after the last attempt threw
\* or died ...
MayAttempt(r, k) ==
    /\ dispatched[r]
    /\ CallerAt(r, k, "idle")
    /\ k > 1 => caller[r][k - 1].pc \in {"threw", "dead"}

\* ... or although the last attempt is still in flight, because it took too long.
MayOvertake(r, k) ==
    /\ StepTimeout
    /\ CallerAt(r, k, "idle")
    /\ k > 1 /\ caller[r][k - 1].pc \notin StoppedPcs
    /\ Mishap

\* A queued Run is started; any other active Run has lost its owner and is recovered.
Attempt(r, k) ==
    /\ \/ MayAttempt(r, k) /\ UNCHANGED mishaps
       \/ MayOvertake(r, k)
    /\ CallerBecome(r, k,
         CASE Terminal(r)          -> [Reloaded(r, k) EXCEPT !.pc = "done"]
           [] status[r] = "queued" -> [Reloaded(r, k) EXCEPT !.pc = "load"]
           [] OTHER -> [Reloaded(r, k) EXCEPT !.pc = "readLease",
                          !.target = IF status[r] = "cancelling"
                                     THEN "cancelled" ELSE "interrupted"])
    /\ UNCHANGED <<runRows, lease, providerVars, dispatch, dispatched, mgr>>

\* Input message, Lease and model access are loaded; a fault in any of them converges.
LoadRun(r, k) ==
    /\ CallerAt(r, k, "load")
    /\ \/ /\ CallerBecome(r, k, [caller[r][k] EXCEPT !.pc = "claim",
                                   !.lref = lease.ref, !.lver = lease.version])
          /\ UNCHANGED mishaps
       \/ Mishap /\ CallerGo(r, k, "converge")
    /\ UNCHANGED <<runRows, lease, providerVars, dispatch, dispatched, mgr>>

\* coordinator.start: only the winner of queued -> starting owns the Run.  When the statement
\* faults, nobody owns it even if it was executed.
ClaimRun(r, k) ==
    /\ CallerAt(r, k, "claim")
    /\ \/ /\ Claim(r, k, caller[r][k].lref, caller[r][k].lver)
          /\ CallerGo(r, k, "wait")
       \/ /\ ~CanTransition(r, "queued", "starting")
          /\ CallerGo(r, k, "converge")
          /\ UNCHANGED <<storeVars, mgr>>
       \/ /\ Transition(r, "queued", "starting") \/ UNCHANGED runRows
          /\ DatabaseFault
          /\ CallerGo(r, k, "converge")
          /\ UNCHANGED <<lease, providerVars, mgr>>
    /\ UNCHANGED <<dispatch, dispatched>>

\* Mutant: a rejected completion is not noticed.
AwaitSuccess(r, k) ==
    /\ CallerAt(r, k, "wait")
    /\ At(r, "done") /\ CallerGo(r, k, "done")
    /\ UNCHANGED <<storeVars, dispatch, dispatched, mgr>>

\* completionWithTimeout: the completion, or the rejection of either promise.
AwaitCompletion(r, k) ==
    /\ CallerAt(r, k, "wait")
    /\ \/ (mgr[r].lost \/ mgr[r].timer = "rejected") /\ CallerGo(r, k, "converge")
       \/ At(r, "done") /\ ~mgr[r].lost /\ CallerGo(r, k, "done")
    /\ UNCHANGED <<storeVars, dispatch, dispatched, mgr>>

\* Mutant: every Run without an owner is taken for a cancelled one.
ConvergeToCancelled(r, k) ==
    /\ CallerAt(r, k, "converge")
    /\ CallerBecome(r, k,
         CASE Terminal(r)          -> [Reloaded(r, k) EXCEPT !.pc = "done"]
           [] status[r] = "queued" -> [Reloaded(r, k) EXCEPT !.pc = "giveUp"]
           [] OTHER -> [Reloaded(r, k) EXCEPT !.pc = "readLease", !.target = "cancelled"])
    /\ UNCHANGED <<storeVars, dispatch, dispatched, mgr>>

\* convergeExecutionFailure
Converge(r, k) ==
    /\ CallerAt(r, k, "converge")
    /\ CallerBecome(r, k,
         CASE Terminal(r)          -> [Reloaded(r, k) EXCEPT !.pc = "done"]
           [] status[r] = "queued" -> [Reloaded(r, k) EXCEPT !.pc = "giveUp"]
           [] OTHER -> [Reloaded(r, k) EXCEPT !.pc = "readLease",
                          !.target = IF status[r] = "cancelling"
                                     THEN "cancelled" ELSE "interrupted"])
    /\ UNCHANGED <<storeVars, dispatch, dispatched, mgr>>

-----------------------------------------------------------------------------
(* transitionOrReload()                                                    *)

MoveOrConfirm(r, k, to, next) ==
    /\ \/ /\ Transition(r, caller[r][k].st, to)
          /\ CallerBecome(r, k, [caller[r][k] EXCEPT !.pc = next, !.st = to,
                                                     !.ref = processRef'[r]])
       \/ /\ ~CanTransition(r, caller[r][k].st, to)
          /\ CallerGo(r, k, "confirm")
          /\ UNCHANGED runRows
    /\ UNCHANGED <<lease, providerVars, mishaps, dispatch, dispatched, mgr>>

\* After a lost compare-and-set or an unconfirmed kill: fine if the Run is terminal.
Confirm(r, k) ==
    /\ CallerAt(r, k, "confirm")
    /\ CallerBecome(r, k, [Reloaded(r, k) EXCEPT !.pc = IF Terminal(r) THEN "done" ELSE "threw"])
    /\ UNCHANGED <<storeVars, dispatch, dispatched, mgr>>

GiveUp(r, k) == CallerAt(r, k, "giveUp") /\ MoveOrConfirm(r, k, "failed", "done")

-----------------------------------------------------------------------------
(* cancelRun()                                                             *)

\* Nothing is left to do for a terminal Run, and a cancelling Run is left to whoever is
\* cancelling it.
RequestCancel(r, k) ==
    /\ CallerAt(r, k, "idle")
    /\ status[r] # "absent"
    /\ CallerBecome(r, k,
         [Reloaded(r, k) EXCEPT !.target = "cancelled",
            !.pc = IF Terminal(r) \/ status[r] = "cancelling" THEN "done" ELSE "cancel"])
    /\ UNCHANGED <<storeVars, dispatch, dispatched, mgr>>

\* queued ends here; starting is left to its owner; running is ours to terminate.
CancelRun(r, k) ==
    /\ CallerAt(r, k, "cancel")
    /\ MoveOrConfirm(r, k, IF caller[r][k].st = "queued" THEN "cancelled" ELSE "cancelling",
                     IF caller[r][k].st = "running" THEN "readLease" ELSE "done")

-----------------------------------------------------------------------------
(* releaseRunProcess(), then the terminal status                           *)

\* Mutant: the process reference is ignored.
ReadLeaseIgnoringRef(r, k) ==
    /\ CallerAt(r, k, "readLease")
    /\ CallerBecome(r, k,
         [caller[r][k] EXCEPT !.lref = lease.ref, !.lver = lease.version,
            !.pc = IF lease.ref = None THEN "release" ELSE "recheck"])
    /\ UNCHANGED <<storeVars, dispatch, dispatched, mgr>>

ReadLease(r, k) ==
    /\ CallerAt(r, k, "readLease")
    /\ CallerBecome(r, k,
         [caller[r][k] EXCEPT !.lref = lease.ref, !.lver = lease.version,
            !.pc = IF lease.ref = None THEN "release"
                   ELSE IF caller[r][k].ref THEN "kill" ELSE "recheck"])
    /\ UNCHANGED <<storeVars, dispatch, dispatched, mgr>>

\* Mutant: a kill that faults counts as done.
KillRunProcessBestEffort(r, k) ==
    /\ CallerAt(r, k, "kill")
    /\ \/ KillProcess(r, caller[r][k].lref) /\ UNCHANGED mishaps
       \/ Mishap /\ UNCHANGED providerVars
    /\ CallerGo(r, k, "release")
    /\ UNCHANGED <<runRows, lease, dispatch, dispatched, mgr>>

\* terminateProcess: a vanished sandbox is a confirmation, a fault is not.
KillRunProcess(r, k) ==
    /\ CallerAt(r, k, "kill")
    /\ \/ /\ KillProcess(r, caller[r][k].lref)
          /\ CallerGo(r, k, "release")
          /\ UNCHANGED mishaps
       \/ /\ Mishap
          /\ CallerGo(r, k, "confirm")
          /\ UNCHANGED providerVars
    /\ UNCHANGED <<runRows, lease, dispatch, dispatched, mgr>>

\* Without a process reference only the whole sandbox can be stopped.
RecheckRun(r, k) ==
    /\ CallerAt(r, k, "recheck")
    /\ IF Terminal(r) THEN CallerBecome(r, k, [Reloaded(r, k) EXCEPT !.pc = "done"])
                      ELSE CallerGo(r, k, "stop")
    /\ UNCHANGED <<storeVars, dispatch, dispatched, mgr>>

StopRunSandbox(r, k) ==
    /\ CallerAt(r, k, "stop")
    /\ \/ /\ DestroySandbox(caller[r][k].lref)
          /\ CallerGo(r, k, "release")
          /\ UNCHANGED mishaps
       \/ /\ Mishap
          /\ CallerGo(r, k, "threw")
          /\ UNCHANGED providerVars
    /\ UNCHANGED <<runRows, lease, dispatch, dispatched, mgr>>

\* Mutant: the Lease forgets its sandbox after a targeted kill.
ReleaseLeaseToNothing(r, k) ==
    /\ CallerAt(r, k, "release")
    /\ LET c == caller[r][k]
       IN  \/ UpdateLeaseForRun(r, c.lref, c.lver, "stopped", None) /\ CallerGo(r, k, "reload")
           \/ /\ ~OwnsLease(r, c.lref, c.lver)
              /\ CallerGo(r, k, "confirm")
              /\ UNCHANGED lease
    /\ UNCHANGED <<runRows, providerVars, mishaps, dispatch, dispatched, mgr>>

\* updateLeaseForRun: idle with its sandbox after a kill, stopped without one otherwise.
ReleaseLease(r, k) ==
    /\ CallerAt(r, k, "release")
    /\ LET c    == caller[r][k]
           kept == IF c.ref THEN c.lref ELSE None
       IN  \/ /\ UpdateLeaseForRun(r, c.lref, c.lver,
                                   IF kept = None THEN "stopped" ELSE "idle", kept)
              /\ CallerGo(r, k, "reload")
           \/ /\ ~OwnsLease(r, c.lref, c.lver)
              /\ CallerGo(r, k, "confirm")
              /\ UNCHANGED lease
    /\ UNCHANGED <<runRows, providerVars, mishaps, dispatch, dispatched, mgr>>

\* findById and recordSandboxDuration.
ReloadRun(r, k) ==
    /\ CallerAt(r, k, "reload")
    /\ CallerBecome(r, k, [Reloaded(r, k) EXCEPT !.pc = IF Terminal(r) THEN "done" ELSE "finish"])
    /\ UNCHANGED <<storeVars, dispatch, dispatched, mgr>>

FinishRun(r, k) == CallerAt(r, k, "finish") /\ MoveOrConfirm(r, k, caller[r][k].target, "done")

-----------------------------------------------------------------------------
(* Faults and lost isolates                                                *)

\* A statement of a caller faults and ends the attempt or request.  (That it was executed all
\* the same is the next statement's fault.)
StatementPcs == {"converge", "giveUp", "cancel", "readLease", "recheck", "release",
                 "reload", "finish", "confirm"}

CallerFaults(r, k) ==
    /\ \/ caller[r][k].pc \in StatementPcs
       \/ k \in Attempts /\ MayAttempt(r, k)
    /\ DatabaseFault
    /\ CallerGo(r, k, "threw")
    /\ UNCHANGED <<runRows, lease, providerVars, dispatch, dispatched, mgr>>

\* A cancel request has returned a terminal Run.
CancelReturned(r) ==
    \E k \in Cancellers : CallerAt(r, k, "done") /\ isTerminalAgentRun(caller[r][k].st)

\* The isolate of an attempt is lost, and the owner it was running with it.  A request
\* that made the Run terminal terminates the Workflow instance on purpose.
LoseAttempt(r, k) ==
    /\ ~CallerAt(r, k, "idle")
    /\ \/ caller[r][k].pc \notin StoppedPcs
       \/ mgr[r].by = k /\ mgr[r].pc \notin FinishedPcs
    /\ \/ Mishap
       \/ CancelReturned(r) /\ UNCHANGED mishaps
    /\ CallerGo(r, k, IF caller[r][k].pc \in StoppedPcs THEN caller[r][k].pc ELSE "dead")
    /\ IF mgr[r].by = k /\ mgr[r].pc \notin FinishedPcs THEN Go(r, "dead") ELSE UNCHANGED mgr
    /\ UNCHANGED <<runRows, lease, providerVars, dispatch, dispatched>>

\* The Worker of a cancel request is lost.
LoseCanceller(r, k) ==
    /\ caller[r][k].pc \notin StoppedPcs
    /\ Mishap
    /\ CallerGo(r, k, "dead")
    /\ UNCHANGED <<runRows, lease, providerVars, dispatch, dispatched, mgr>>

-----------------------------------------------------------------------------
Release(r, k) ==
    \/ ReadLease(r, k) \/ KillRunProcess(r, k) \/ RecheckRun(r, k) \/ StopRunSandbox(r, k)
    \/ ReleaseLease(r, k) \/ ReloadRun(r, k) \/ FinishRun(r, k) \/ Confirm(r, k)

Execute(r, k) ==
    \/ Attempt(r, k) \/ LoadRun(r, k) \/ ClaimRun(r, k) \/ AwaitCompletion(r, k)
    \/ Converge(r, k) \/ GiveUp(r, k) \/ Release(r, k)

Cancel(r, k) == CancelRun(r, k) \/ Release(r, k)

Create(r) == DispatchRun(r) \/ FailDispatch(r)

ServiceNext(r) ==
    \/ CreateRun(r) \/ Create(r) \/ LoseCreator(r)
    \/ \E k \in Attempts   : Execute(r, k) \/ LoseAttempt(r, k)
    \/ \E k \in Cancellers : RequestCancel(r, k) \/ Cancel(r, k) \/ LoseCanceller(r, k)
    \/ \E k \in Callers    : CallerFaults(r, k)
    \/ CoordinatorNext(r) /\ UNCHANGED serviceVars
=============================================================================
