------------------------------ MODULE MCWorkspace ------------------------------
(* The instance of Workspace that TLC checks. *)
EXTENDS Workspace, TLC

CONSTANTS t1, t2,         \* the Terminals; t2 is not opened before t1
          MaxActivities   \* bound on the activities that are begun

Opened(t) == ~At("open", t, "off")

Begun ==
    Cardinality({t \in Terminals : Opened(t)})
      + Cardinality({p \in Previews : ~Sees("start", p, "off")})
      + Cardinality({r \in Runs : run[r] # "absent"})
      + Cardinality({u \in Stops : stop[u].pc # "off"})

FewActivities ==
    /\ Begun <= MaxActivities
    /\ (t2 \in Terminals /\ Opened(t2)) => Opened(t1)
=============================================================================
