--------------------------- MODULE MCReplicaGauges ---------------------------
(* A service over two nodes, each in one of several states or missing. *)
EXTENDS ReplicaGauges

MCText == {"", "n1", "n2", "manager", "MANAGER", "worker", "linux", "x86_64", "amd64",
           "arm64", "aarch64", "ssd", "SSD", "10.0.0.1", "10.0.0.0/8", "11.0.0.1"}
MCFold(t) == CASE t = "MANAGER" -> "manager" [] t = "SSD" -> "ssd" [] OTHER -> t
MCAddresses(t) ==
    CASE t = "10.0.0.1" -> {1} [] t = "11.0.0.1" -> {2} [] t = "10.0.0.0/8" -> {0, 1}
      [] OTHER -> {}

MCNode(id, state, availability) ==
    [id |-> id, hostname |-> id, state |-> state, availability |-> availability,
     role |-> IF id = "n1" THEN "manager" ELSE "worker", os |-> "linux",
     arch |-> IF id = "n1" THEN "x86_64" ELSE "aarch64",
     addr |-> IF id = "n1" THEN "10.0.0.1" ELSE "",
     labels |-> [disk |-> IF id = "n1" THEN "SSD" ELSE ""],
     engine |-> [disk |-> ""]]
MCVariants(id) ==
    {{}} \cup {{MCNode(id, "ready", a)} : a \in {"active", "pause", "drain"}}
         \cup {{MCNode(id, "down", "active")}}
MCNodeLists == {a \cup b : a \in MCVariants("n1"), b \in MCVariants("n2")}

MCConstraint(key, op, expected) ==
    [key |-> key, label |-> "disk", operator |-> op, expected |-> expected]
MCOne(op) ==
    {MCConstraint("node.id", op, "n1"), MCConstraint("node.hostname", op, "n2"),
     MCConstraint("node.role", op, "MANAGER"), MCConstraint("node.platform.os", op, "linux"),
     MCConstraint("node.platform.arch", op, "amd64"), MCConstraint("node.labels", op, "ssd"),
     MCConstraint("engine.labels", op, "ssd"), MCConstraint("node.ip", op, "10.0.0.0/8"),
     MCConstraint("node.ip", op, "11.0.0.1"), MCConstraint("node.ip", op, "ssd"),
     MCConstraint("unknown", op, "ssd")}
MCConstraints ==
    {{}, {MalformedConstraint}} \cup {{c} : c \in MCOne("==") \cup MCOne("!=")}
    \cup {{MCConstraint("node.role", "==", "manager"), c} : c \in MCOne("!=")}
MCPlatforms ==
    {{}, {[os |-> "linux", arch |-> "amd64"]}, {[os |-> "", arch |-> "arm64"],
                                                [os |-> "linux", arch |-> ""]}}

MCSpec(mode, count, condition, constraints, platforms) ==
    [mode |-> mode, replicas |-> IF mode = "replicated" THEN count ELSE {},
     total_completions |-> IF mode = "replicated-job" THEN count ELSE {},
     max_concurrent |-> {2}, iteration |-> 0, restart_condition |-> condition,
     constraints |-> constraints, platforms |-> platforms]
MCSpecs ==
    {MCSpec(m, {2}, "any", c, p) :
        m \in {"replicated", "global"}, c \in MCConstraints, p \in MCPlatforms}
    \cup {MCSpec(m, n, r, {}, p) : m \in Modes, n \in Optional({0, 1, 3}),
             r \in {"any", "none"}, p \in MCPlatforms}

=============================================================================
