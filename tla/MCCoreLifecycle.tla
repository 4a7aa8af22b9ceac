-------------------------- MODULE MCCoreLifecycle --------------------------
(* CoreLifecycle for TLC: the shapes of profile that take different paths. *)
EXTENDS CoreLifecycle

Profiles ==
    {[extra |-> e, xray |-> x, full |-> f, tun |-> t, mark |-> m] :
        e \in BOOLEAN, x \in {"no", "eager", "lazy"}, f \in {0, 2},
        t \in {"no", "ok", "bad"}, m \in {0, 7}}
=============================================================================
