---------------------------- MODULE ProjectStore ----------------------------
(***************************************************************************)
(* The state that the Workers, Workflows and cleanups of one Project share *)
(* and the indivisible operations on it: a D1 statement or batch (the rows *)
(* agent_runs, messages, sandbox_leases) or one call of the Provider (its  *)
(* sandboxes and the agent processes inside them).  Everything that        *)
(* happens between two of these operations can be interleaved.             *)
(*                                                                         *)
(* A Run creates at most one sandbox, so a sandbox is named after the Run  *)
(* whose ensureLease call created it.  updated_at is a version number.     *)
(***************************************************************************)
EXTENDS AgentRunStatus, Integers

CONSTANTS Runs,             \* the AgentRuns of the Project
          None,             \* NULL
          Ticks,            \* how far updated_at may advance between two writes
          MaxMishaps,       \* bound on faults and crashes in a behaviour
          DatabaseFaults    \* may a mishap be a faulting database statement?

ASSUME NoneAssumption    == None \notin Runs
ASSUME ClockAssumption   == Ticks \in SUBSET Nat
ASSUME MishapsAssumption == MaxMishaps \in Nat
ASSUME DatabaseFaultsAssumption == DatabaseFaults \in BOOLEAN

VARIABLES status,       \* agent_runs.status
          processRef,   \* is agent_runs.provider_process_ref set?
          reply,        \* does the Run's assistant Message exist?
          newest,       \* the Run that ORDER BY created_at DESC puts first
          lease,        \* the sandbox_leases row of the Project
          sandbox,      \* the Provider's sandboxes
          agentIn,      \* the sandbox in which the Run's agent process is alive
          mishaps       \* faults and crashes so far

\* The rows of agent_runs with the Message that a Run's success adds.
runRows      == <<status, processRef, reply, newest>>
providerVars == <<sandbox, agentIn>>
storeVars    == <<status, processRef, reply, newest, lease, sandbox, agentIn, mishaps>>

LeaseStatuses == {"starting", "ready", "busy", "idle", "stopped", "failed"}
SandboxRefs   == Runs \cup {None}

StoreTypeOK ==
    /\ status     \in [Runs -> Statuses]
    /\ processRef \in [Runs -> BOOLEAN]
    /\ reply      \in [Runs -> BOOLEAN]
    /\ newest     \in SandboxRefs
    /\ lease      \in [status : LeaseStatuses, ref : SandboxRefs, version : Nat]
    /\ sandbox    \in [Runs -> {"none", "live", "gone"}]
    /\ agentIn    \in [Runs -> SandboxRefs]
    /\ mishaps    \in 0..MaxMishaps

StoreInit ==
    /\ status     = [r \in Runs |-> "absent"]
    /\ processRef = [r \in Runs |-> FALSE]
    /\ reply      = [r \in Runs |-> FALSE]
    /\ newest     = None
    /\ lease      = [status |-> "stopped", ref |-> None, version |-> 0]
    /\ sandbox    = [r \in Runs |-> "none"]
    /\ agentIn    = [r \in Runs |-> None]
    /\ mishaps    = 0

Active(r)     == status[r] \in ActiveStatuses
Terminal(r)   == isTerminalAgentRun(status[r])
NoActiveRun   == \A r \in Runs : ~Active(r)
IsLive(s)     == s # None /\ sandbox[s] = "live"

-----------------------------------------------------------------------------
(* The agent_runs and messages rows.                                       *)

\* Mutant: the partial unique index is missing.
InsertQueuedBesideOthers(r) ==
    /\ status[r] = "absent"
    /\ status' = [status EXCEPT ![r] = "queued"]
    /\ newest' = r
    /\ UNCHANGED <<processRef, reply>>

\* createQueuedWithInput: the batch aborts when a Run is active.  (Rows are assumed to be
\* inserted in the order of created_at.)
InsertQueued(r) ==
    /\ status[r] = "absent"
    /\ NoActiveRun
    /\ status' = [status EXCEPT ![r] = "queued"]
    /\ newest' = r
    /\ UNCHANGED <<processRef, reply>>

\* transition, when its UPDATE ... WHERE status = from finds the row.
CanTransition(r, from, to) == status[r] = from /\ canTransitionAgentRun(from, to)

Transition(r, from, to) ==
    /\ CanTransition(r, from, to)
    /\ status' = [status EXCEPT ![r] = to]
    /\ processRef' = [processRef EXCEPT ![r] = @ /\ ~isTerminalAgentRun(to)]
    /\ UNCHANGED <<reply, newest>>

\* Mutant: completeSucceeded does not compare the status.
CompleteSucceededAnyway(r) ==
    /\ status' = [status EXCEPT ![r] = "succeeded"]
    /\ processRef' = [processRef EXCEPT ![r] = FALSE]
    /\ reply' = [reply EXCEPT ![r] = TRUE]
    /\ UNCHANGED newest

\* completeSucceeded: status, assistant Message and process reference in one batch.
CompleteSucceeded(r) ==
    /\ status[r] = "running"
    /\ status' = [status EXCEPT ![r] = "succeeded"]
    /\ processRef' = [processRef EXCEPT ![r] = FALSE]
    /\ reply' = [reply EXCEPT ![r] = TRUE]
    /\ UNCHANGED newest

\* setProviderProcessRef
CanSetProcessRef(r) == status[r] \in {"starting", "running", "cancelling"}

SetProcessRef(r) ==
    /\ CanSetProcessRef(r)
    /\ processRef' = [processRef EXCEPT ![r] = TRUE]
    /\ UNCHANGED <<status, reply, newest>>

-----------------------------------------------------------------------------
(* The sandbox_leases row.                                                 *)

LaterVersions == {lease.version + t : t \in Ticks}

\* Mutants: the update is conditional on the Run only, or on the Run and the sandbox.
OwnsLeaseWhileActive(r, ref, version) == Active(r)
OwnsLeaseBySandbox(r, ref, version)   == Active(r) /\ lease.ref = ref

\* updateStateForRun: only for an active Run, and only over the snapshot it read.
OwnsLease(r, ref, version) == Active(r) /\ lease.ref = ref /\ lease.version = version

WriteLease(newStatus, newRef) ==
    \E v \in LaterVersions :
        lease' = [status |-> newStatus, ref |-> newRef, version |-> v]

UpdateLeaseForRun(r, ref, version, newStatus, newRef) ==
    /\ OwnsLease(r, ref, version)
    /\ WriteLease(newStatus, newRef)

\* Mutant: only the Lease is compared.
CanClaimWhileActive(ref, version) ==
    lease.ref = ref /\ lease.version = version /\ lease.status # "stopped"

\* claimForManualStop, and claimIdleForStop for the Run expected to be the newest.
CanClaimForManualStop(ref, version) ==
    /\ lease.ref = ref /\ lease.version = version
    /\ lease.status # "stopped"
    /\ NoActiveRun

CanClaimIdleForStop(r, ref, version) ==
    /\ lease.ref = ref /\ lease.version = version
    /\ lease.status = "idle"
    /\ newest = r
    /\ NoActiveRun

-----------------------------------------------------------------------------
(* Faults: a statement or call that leaves the caller without an answer,   *)
(* whether or not it was executed, or a lost isolate.                      *)

Mishap == mishaps < MaxMishaps /\ mishaps' = mishaps + 1

DatabaseFault == DatabaseFaults /\ Mishap

-----------------------------------------------------------------------------
(* The Provider                                                            *)

CreateSandbox(r) ==
    /\ sandbox[r] = "none"
    /\ sandbox' = [sandbox EXCEPT ![r] = "live"]
    /\ UNCHANGED agentIn

\* A sandbox takes every process inside it along.
DestroySandbox(s) ==
    /\ sandbox' = [sandbox EXCEPT ![s] = "gone"]
    /\ agentIn' = [q \in Runs |-> IF agentIn[q] = s THEN None ELSE agentIn[q]]

StartProcess(r, s) ==
    /\ IsLive(s)
    /\ agentIn' = [agentIn EXCEPT ![r] = s]
    /\ UNCHANGED sandbox

\* Killing a process that no longer exists counts as success.
KillProcess(r, s) ==
    /\ agentIn' = [agentIn EXCEPT ![r] = IF @ = s THEN None ELSE @]
    /\ UNCHANGED sandbox

\* The Provider's own timeout, the final bound on a forgotten sandbox.
SandboxExpires(s) ==
    /\ IsLive(s)
    /\ DestroySandbox(s)
    /\ UNCHANGED <<runRows, lease, mishaps>>

\* The agent process ends by itself.
AgentExits(r) ==
    /\ agentIn[r] # None
    /\ KillProcess(r, agentIn[r])
    /\ UNCHANGED <<runRows, lease, mishaps>>
=============================================================================
