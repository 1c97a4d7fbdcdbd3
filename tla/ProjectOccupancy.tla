---------------------------- MODULE ProjectOccupancy ----------------------------
(***************************************************************************)
(* What the rows of a Project promise (docs/adr/0005): a Run and a         *)
(* Terminal exclude one another, and whoever occupies the Project keeps it *)
(* until nothing it started may still be running in the sandbox.           *)
(* A Preview is not an occupant.                                           *)
(***************************************************************************)
CONSTANTS Tenants,        \* the Runs and Terminals
          Shells,         \* the Terminals, which run a shell
          Nobody

\* Of these, Shells is a subset of Tenants, and Nobody is not one of them.

VARIABLES open,           \* does the Project exist?
          holder,         \* who occupies it
          alive           \* the shells that are running

vars == <<open, holder, alive>>

Init == open = TRUE /\ holder = Nobody /\ alive = {}

\* Only a Project without an occupant, and without a forgotten shell, can be taken.
Acquire(x) ==
    /\ open /\ holder = Nobody /\ alive = {}
    /\ holder' = x
    /\ UNCHANGED <<open, alive>>

\* A deleted Project no longer says who may use its sandbox.
StartShell(t) ==
    /\ holder = t \/ ~open
    /\ alive' = alive \cup {t}
    /\ UNCHANGED <<open, holder>>

EndShells ==
    /\ alive' \in SUBSET alive
    /\ UNCHANGED <<open, holder>>

Release ==
    /\ holder \in Tenants \ alive
    /\ holder' = Nobody
    /\ alive' \in SUBSET alive
    /\ UNCHANGED open

\* A Project is not deleted under a Run.
Delete ==
    /\ holder \in Shells \cup {Nobody}
    /\ open' = FALSE /\ holder' = Nobody
    /\ UNCHANGED alive

Next ==
    \/ \E x \in Tenants : Acquire(x)
    \/ \E t \in Shells : StartShell(t)
    \/ EndShells \/ Release \/ Delete

Spec == Init /\ [][Next]_vars
=============================================================================
