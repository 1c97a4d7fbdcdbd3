-------------------------- MODULE SandboxReclaimer --------------------------
(***************************************************************************)
(* SandboxReclaimer (src/application/sandbox-reclaimer.ts): the sandbox of *)
(* an idle Project is detached from its Lease by one conditional UPDATE    *)
(* and only then stopped.  It is called by the idle cleanup that follows   *)
(* each Run and by a user who stops the sandbox.                           *)
(***************************************************************************)
EXTENDS ProjectStore

CONSTANT UserStops       \* the requests of a user to stop the sandbox

ASSUME UserStopsAssumption == UserStops \cap Runs = {}

Reclaims == Runs \cup UserStops

VARIABLE reclaim         \* for each, the cleanup in flight and the Lease it read

ReclaimRecords ==
    [pc : {"off", "claim", "stop"}, lref : SandboxRefs, lver : Nat]

NoReclaim == [pc |-> "off", lref |-> None, lver |-> 0]

ReclaimInit == reclaim = [c \in Reclaims |-> NoReclaim]

\* stopAfterRunIdle: the Run is terminal, none is active and the Lease is idle.  These
\* reads only save a statement: the claim repeats them.
ReadIdleLease(r) ==
    /\ reclaim[r].pc = "off"
    /\ Terminal(r) /\ NoActiveRun
    /\ lease.status = "idle" /\ lease.ref # None
    /\ reclaim' = [reclaim EXCEPT ![r] =
                     [pc |-> "claim", lref |-> lease.ref, lver |-> lease.version]]
    /\ UNCHANGED storeVars

\* ProjectSandboxService.stop reads the Lease first and the active Run afterwards; again
\* the claim repeats what it reads.
ReadLeaseToStop(u) ==
    /\ reclaim[u].pc = "off"
    /\ lease.ref # None /\ lease.status # "stopped"
    /\ reclaim' = [reclaim EXCEPT ![u] =
                     [pc |-> "claim", lref |-> lease.ref, lver |-> lease.version]]
    /\ UNCHANGED storeVars

CanClaim(c) ==
    IF c \in UserStops
    THEN CanClaimForManualStop(reclaim[c].lref, reclaim[c].lver)
    ELSE CanClaimIdleForStop(c, reclaim[c].lref, reclaim[c].lver)

\* Mutant: check, then stop, without detaching.
CheckBeforeStop(c) ==
    /\ reclaim[c].pc = "claim"
    /\ reclaim' = [reclaim EXCEPT ![c] = IF CanClaim(c) THEN [@ EXCEPT !.pc = "stop"]
                                                        ELSE NoReclaim]
    /\ UNCHANGED storeVars

\* The claim detaches the sandbox: from here on no activity can find it.
DetachSandbox(c) ==
    /\ reclaim[c].pc = "claim"
    /\ \/ /\ CanClaim(c)
          /\ WriteLease("stopped", None)
          /\ reclaim' = [reclaim EXCEPT ![c].pc = "stop"]
       \/ /\ ~CanClaim(c)
          /\ reclaim' = [reclaim EXCEPT ![c] = NoReclaim]
          /\ UNCHANGED lease
    /\ UNCHANGED <<runRows, providerVars, mishaps>>

\* A stop that faults, or never happens, leaves the sandbox to the Provider's timeout.
StopDetachedSandbox(c) ==
    /\ reclaim[c].pc = "stop"
    /\ \/ DestroySandbox(reclaim[c].lref) /\ UNCHANGED mishaps
       \/ Mishap /\ UNCHANGED providerVars
    /\ reclaim' = [reclaim EXCEPT ![c] = NoReclaim]
    /\ UNCHANGED <<runRows, lease>>

ReclaimStep(c) == DetachSandbox(c) \/ StopDetachedSandbox(c)
=============================================================================
