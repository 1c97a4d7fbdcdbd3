---------------------------- MODULE RunExecution ----------------------------
(***************************************************************************)
(* The AgentRuns of one Project from request to outcome: the creating      *)
(* request, the Workflow attempts with the ManagedRun they own, concurrent *)
(* cancel requests, the idle cleanup of each Run and the user's sandbox    *)
(* stop, interleaved over the database and the Provider, with Provider     *)
(* faults, lost isolates, retries and expiring sandboxes.                  *)
(***************************************************************************)
EXTENDS RunExecutionService, SandboxReclaimer

vars == <<storeVars, mgr, serviceVars, reclaim>>

Init == StoreInit /\ CoordinatorInit /\ ServiceInit /\ ReclaimInit

\* The execute Workflow goes on to the idle cleanup when its step returned, and a cancel
\* request that ended the Run schedules one of its own.
IdleAfterStep(r)    == \E k \in Attempts : CallerAt(r, k, "done")
IdleAfterCancel(r)  == CancelReturned(r)
CleanupScheduled(r) == IdleAfterStep(r) \/ IdleAfterCancel(r)

ReclaimerNext ==
    \/ \E r \in Runs : CleanupScheduled(r) /\ ReadIdleLease(r)
    \/ \E u \in UserStops : ReadLeaseToStop(u)
    \/ \E c \in Reclaims : ReclaimStep(c)

ProviderNext ==
    \/ \E s \in Runs : SandboxExpires(s)
    \/ \E r \in Runs : AgentExits(r)

Next ==
    \/ \E r \in Runs : ServiceNext(r) /\ UNCHANGED reclaim
    \/ ReclaimerNext /\ UNCHANGED <<mgr, serviceVars>>
    \/ ProviderNext  /\ UNCHANGED <<mgr, serviceVars, reclaim>>

Spec == Init /\ [][Next]_vars

\* Worker code that was started goes on, the deadline's timer fires, and Cloudflare runs
\* and retries the Workflow step.  Nothing is assumed of the agent, of the users or of
\* the Provider's timeout.
Fairness ==
    \A r \in Runs :
        /\ WF_vars(Create(r) /\ UNCHANGED reclaim)
        /\ WF_vars(OwnerStep(r) /\ UNCHANGED <<serviceVars, reclaim>>)
        /\ WF_vars(At(r, "consume") /\ DeadlinePasses(r) /\ UNCHANGED <<serviceVars, reclaim>>)
        /\ \A k \in Attempts   : WF_vars(Execute(r, k) /\ UNCHANGED reclaim)
        /\ \A k \in Cancellers : WF_vars(Cancel(r, k) /\ UNCHANGED reclaim)

FairSpec == Spec /\ Fairness

-----------------------------------------------------------------------------
TypeOK ==
    /\ StoreTypeOK
    /\ mgr        \in [Runs -> ManagedRuns]
    /\ dispatch   \in [Runs -> {"none", "start", "fail", "created", "lost"}]
    /\ dispatched \in [Runs -> BOOLEAN]
    /\ caller     \in [Runs -> [Callers -> CallerRecords]]
    /\ reclaim    \in [Reclaims -> ReclaimRecords]

\* To a reader of the database the Runs behave as AgentRunLifecycle says.
Lifecycle == INSTANCE AgentRunLifecycle
ImplementsLifecycle == Lifecycle!Spec

\* An agent process is alive only while its Run is active: whoever publishes a terminal
\* status has confirmed that the process, or its whole sandbox, was stopped (CONTEXT.md,
\* invariant 18).
NoAgentAfterTerminal == \A r \in Runs : agentIn[r] # None => Active(r)

\* The agent of a Run lives in the sandbox the Lease names, which is where recovery and
\* cancellation look for it, and the Lease is not released while it lives.
AgentInLeasedSandbox ==
    \A r \in Runs : agentIn[r] # None =>
        lease.ref = agentIn[r] /\ lease.status \in {"ready", "busy"}

\* The Lease is marked as in use only while a Run is active: it is released before the
\* Run becomes terminal.
LeaseInUseOnlyByActiveRun ==
    lease.status \in {"starting", "ready", "busy"} => \E r \in Runs : Active(r)

\* No owner and no caller ever asks for a transition that allowedTransitions (and the
\* database trigger) would reject, whatever the others did since it read the status.
PendingTransitionsAreLegal ==
    \A r \in Runs :
        /\ At(r, "completeCommit") => canTransitionAgentRun(mgr[r].st, mgr[r].goal)
        /\ At(r, "failCommit")     => canTransitionAgentRun(mgr[r].st, "failed")
        /\ At(r, "cancelMark")     => canTransitionAgentRun(mgr[r].st, "cancelling")
        /\ \A k \in Callers :
             CallerAt(r, k, "finish") =>
                 canTransitionAgentRun(caller[r][k].st, caller[r][k].target)

\* A retried or concurrent attempt never starts a second agent for a Run.
ClaimedOnce == [][\A r \in Runs : mgr[r].by # 0 => mgr'[r].by = mgr[r].by]_vars

\* Nothing but the owner or a caller of the active Run stops the sandbox the Lease names:
\* neither a cleanup after an earlier Run nor a late recovery of one (ADR-0003).
ActsFor(r) == mgr'[r] # mgr[r] \/ caller'[r] # caller[r]

SparesForeignSandbox ==
    [][\A s, r \in Runs :
          IsLive(s) /\ ~IsLive(s)' /\ lease.ref = s /\ Active(r)
            => ActsFor(r) \/ UNCHANGED <<mgr, caller, reclaim>>]_vars

\* The Provider has at most one sandbox of the Project at a time.
OneProviderSandbox == \A s, t \in Runs : IsLive(s) /\ IsLive(t) => s = t

\* A whole sandbox is stopped on behalf of a Run only while no process reference exists
\* that would allow the targeted kill (ADR-0003, acceptance condition 4).
StopsSandboxOnlyWithoutProcessRef ==
    [][\A s, r \in Runs :
          IsLive(s) /\ ~IsLive(s)' /\ ActsFor(r) => ~processRef[r]]_vars

\* Only a fault or a lost isolate leaves a sandbox behind that nobody will stop: every
\* other one is named by the Lease or held by the owner or the cleanup that stops it.
NoOrphanWithoutMishap ==
    mishaps = 0 =>
        \A s \in Runs : IsLive(s) =>
            \/ lease.ref = s
            \/ \E r \in Runs : mgr[r].ref = s /\ mgr[r].pc \notin FinishedPcs \cup {"rejected"}
            \/ \E c \in Reclaims : reclaim[c].pc = "stop" /\ reclaim[c].lref = s

\* A Run whose Workflow exists reaches a terminal status.
RunsConverge == \A r \in Runs : (dispatched[r] /\ Active(r)) ~> Terminal(r)

\* Once a caller has confirmed that the agent is stopped, the Run becomes terminal: only an
\* unconfirmed stop may leave it as a lock (ADR-0003, acceptance condition 5).
ConfirmedStopConverges ==
    \A r \in Runs : \A k \in Callers : CallerAt(r, k, "finish") ~> Terminal(r)
=============================================================================
