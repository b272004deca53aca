-------------------------- MODULE RunTreeProperties --------------------------
(* What holds of a governed run and its spawned agents. *)
EXTENDS RunTree

\* Types of the loops in progress and of what they handed over.
TypeOK ==
    /\ stack \in Seq(Frame)
    /\ treeSpend \in Nat
    /\ approvals \in {NoApprovals, ConnectorApprovals}
    /\ executed \subseteq Roles \X DOMAIN Tool
    /\ traced \subseteq Roles \X DOMAIN Tool
    /\ failures \subseteq {"timeout", "scope_exceeded", "execution_error"}
    /\ outcome \in {"running", "done", "threw"} \union Halts

\* The layers of the chart, from the top.
Layer(role) == IF role = "central-orchestrator" THEN 1
               ELSE IF IsDispatcher(role) THEN 2
               ELSE 3

\* The agents at work form a path down the org chart, each with the row of the
\* matrix that is its role's, and the counters threaded from parent to child
\* are the position on that path.
ChainInChart ==
    \A i \in DOMAIN stack :
        /\ stack[i].grant = Matrix[stack[i].role]
        /\ stack[i].depth = i - 1
        /\ stack[i].orchCount = i - 1
        /\ i > 1 => MayRoute(stack[i - 1].role, stack[i].role)
        /\ stack[i].at = "spawned" <=> i < Len(stack)

\* No agent ever waits, through whatever it delegated to, for an agent of its
\* own role: routing is never circular, and no chain is longer than the three
\* layers of the chart.
NoCircularRouting ==
    /\ \A i, j \in DOMAIN stack : i < j => stack[i].role # stack[j].role
    /\ Len(stack) <= 3

\* No tool is entered that the matrix does not grant the role, whoever spawned
\* it, nor one of tier T1 that nobody approved.
ExecutedInGrant ==
    \A e \in executed :
        LET cap == Tool[e[2]].cap
            tier == Matrix[e[1]][cap]
        IN  /\ tier # "none"
            /\ StricterTier(Tool[e[2]].tier, tier) = "T1" =>
                  \E target \in Targets(e[2]) : Approved(approvals, cap, target)

\* A tool that was entered has its tool.executed event, however the agents
\* under it ended, unless it is a spawn still being awaited or an exception has
\* ended the run.
ExecutedIsTraced ==
    \A e \in executed :
        \/ e \in traced
        \/ outcome = "threw"
        \/ /\ e[2] = "spawn"
           /\ \E i \in DOMAIN stack : /\ stack[i].role = e[1]
                                      /\ stack[i].at = "spawned"

\* What a loop may still do once the tree's budget is spent: one answer, and
\* two steps for each call of the answer it is working on (a spawned agent gets
\* one answer of its own).
Weight(frame) == IF frame.at = "model" THEN 1 ELSE 2 + 2 * frame.left

\* The weights of the first n loops added up.
Remaining(s) == LET sum[n \in 0..Len(s)] ==
                        IF n = 0 THEN 0 ELSE sum[n - 1] + Weight(s[n])
                IN  sum[Len(s)]

\* Past the hard stop the whole tree winds down: every step takes it closer to
\* its end, and no loop begins another turn of tools.
BudgetWindsDown ==
    [][treeSpend >= HardStop => Remaining(stack') < Remaining(stack)]_vars

\* A loop is further on in a later turn, once its answer is in, with fewer calls
\* left, and when the child it waited for is back.
FurtherOn(g, f) ==
    \/ g.iteration > f.iteration
    \/ /\ g.iteration = f.iteration
       /\ \/ f.at = "model" /\ g.at # "model"
          \/ f.at # "model" /\ g.at # "model" /\ g.left < f.left
          \/ f.at = "spawned" /\ g.at = "tools" /\ g.left = f.left

\* Some loop is further on, and those that wait for it, directly or through
\* others, are where they were.
Advances(s, t) ==
    \E i \in DOMAIN s \intersect DOMAIN t :
        /\ \A j \in 1..(i - 1) : t[j] = s[j]
        /\ FurtherOn(t[i], s[i])

\* No loop ever goes back, and no step does nothing: whatever the model asks
\* for, each step brings some loop nearer to its cap without costing the loops
\* that wait for it anything, or ends the run.
LoopsAdvance ==
    [][\/ stack # <<>> /\ stack' = <<>>
       \/ Advances(stack, stack')]_vars

\* Every run ends: the chart bounds the depth, the cap the turns of each loop.
RunEnds == <>(outcome # "running")

=============================================================================
