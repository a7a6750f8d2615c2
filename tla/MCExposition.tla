---------------------------- MODULE MCExposition -----------------------------
(* A service that is renamed and updated, and two node lists. *)
EXTENDS Exposition, TLC

MCIdentity(s) == {s} \X {"web", "renamed"}

MCUpdateStatus ==
    {{}, {[state |-> "rollback_paused", started_at |-> {1}, completed_at |-> {}]}}

MCNode(role, availability) == [role |-> role, availability |-> availability, status |-> "ready"]
MCNodeLists ==
    {[n \in {"n1", "n2", "n3"} |->
               MCNode(IF n = "n1" THEN "manager" ELSE "worker", "active")],
     "n1" :> MCNode("manager", "active") @@ "n2" :> MCNode("worker", "drain")}

=============================================================================
