----------------------------- MODULE MCGraphUpdate -----------------------------
(* Two captured sizes: one with a task for every worker, one the plan does not *)
(* serve (fewer tasks than workers, or tasks of another layout).              *)
EXTENDS GraphUpdate

MCEntries == {"wide", "small"}

D(l, sm, tw, dw, tm, dm, p, o) ==
    [layers |-> [e \in MCEntries |-> IF e = "wide" THEN l ELSE sm],
     dense |-> {"wide"},
     workers |-> [r \in Roles |-> IF r = "target" THEN tw ELSE dw],
     mode |-> [r \in Roles |-> IF r = "target" THEN tm ELSE dm],
     prefix |-> [r \in Roles |-> p], ordered |-> o]
MCDeployments == {
    D(3, 1, 2, 0, "join", "join", 1, TRUE),
    D(2, 1, 2, 2, "pipeline", "defer", 1, TRUE),
    D(3, 1, 2, 2, "join", "pipeline", 1, FALSE),
    D(2, 2, 2, 3, "defer", "join", 1, TRUE) }
================================================================================
