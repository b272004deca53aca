------------------------------- MODULE RunTree -------------------------------
(***************************************************************************)
(* A governed run and the agents it spawns (runtime/src/loop/run-loop.ts,  *)
(* tools/spawn.ts, and the loop part of runtime/src/index.ts startRun).    *)
(*                                                                         *)
(* runLoop awaits every tool, and the spawn tool awaits the child's whole  *)
(* runLoop, so the agents of a run form a stack and only the top one       *)
(* moves.  What persists the trace, the packets and the artifacts is       *)
(* module RunSinks; here `traced' and `failures' are what was handed over. *)
(*                                                                         *)
(* Abstracted: messages, inputs and observations.  Whether a turn repeats  *)
(* the previous one (equal signatures) is a choice: the model decides what *)
(* it asks for, and the world what a tool answers.                         *)
(***************************************************************************)
EXTENDS Governance, Sequences

CONSTANTS
    Root,           \* the role the run is started with
    Summoned,       \* roles the model may ask to spawn
    Asked,          \* tools the model may ask for, and "unknown"
    MaxIterations,  \* MAX_ORCHESTRATION_ITERATIONS, 15
    MaxSpawnDepth,  \* MAX_SPAWN_DEPTH, 3
    HardStop,       \* HARD_STOP_USD, 20, in units of the cheapest answer
    Costs,          \* what one model answer may cost
    MaxBlocks       \* bound: tool calls in one answer

ASSUME RolesAssumption == Root \in Roles /\ Summoned \subseteq Roles
ASSUME AskedAssumption == Asked \subseteq DOMAIN Tool \union {"unknown"}
ASSUME LimitsAssumption ==
    /\ MaxIterations \in Nat
    /\ MaxSpawnDepth \in Nat
    /\ HardStop \in Nat
    /\ Costs \subseteq Nat
    /\ MaxBlocks \in Nat

VARIABLES
    stack,      \* the runLoop calls in progress, the root first
    treeSpend,  \* shared by every loop of the tree
    approvals,  \* the run's standing grants and per-action approvals
    executed,   \* <<role, tool>>: an execute() that has been entered
    traced,     \* <<role, tool>> of the tool.executed events of permitted calls
    failures,   \* failure_type of every failure packet emitted
    outcome     \* what startRun's loop came to

vars == <<stack, treeSpend, approvals, executed, traced, failures, outcome>>

Halts == {"terminated_iteration_cap", "terminated_loop_detected",
          "terminated_budget", "terminated_max_tokens"}

FailureType == [terminated_iteration_cap |-> "timeout",
                terminated_loop_detected |-> "timeout",
                terminated_budget        |-> "scope_exceeded",
                terminated_max_tokens    |-> "execution_error"]

\* at: "model" before a createMessage, "tools" while tool calls of an answer
\* are left, "spawned" while the child on top of it runs.
Frame == [role : Roles, grant : Grant, depth : Nat, orchCount : Nat,
          iteration : 0..MaxIterations, at : {"model", "tools", "spawned"}, left : Nat]

NewFrame(role, grant, depth, orchCount) ==
    [role |-> role, grant |-> grant, depth |-> depth, orchCount |-> orchCount,
     iteration |-> 0, at |-> "model", left |-> 0]

\* desktop/src/main: the connector capabilities are approved when connectors
\* are configured.
NoApprovals == [standing |-> {}, perAction |-> {}]
ConnectorApprovals == [standing |-> {"CONw", "COMM"},
                       perAction |-> {<<"CONw", "*">>, <<"COMM", "*">>}]

Init ==
    /\ stack = <<NewFrame(Root, Matrix[Root], 0, 0)>>
    /\ treeSpend = 0
    /\ approvals \in {NoApprovals, ConnectorApprovals}
    /\ executed = {}
    /\ traced = {}
    /\ failures = {}
    /\ outcome = "running"

----------------------------------------------------------------------------

Top == stack[Len(stack)]
SetTop(frame) == [stack EXCEPT ![Len(stack)] = frame]
Active(at) == stack # <<>> /\ Top.at = at

\* Mutation: a child that halted is not traced in its parent.
PopUntraced_Mut(result) ==
    IF Len(stack) = 1
    THEN stack' = <<>> /\ outcome' = result /\ UNCHANGED traced
    ELSE LET n == Len(stack) - 1
         IN  /\ stack' = [SubSeq(stack, 1, n) EXCEPT ![n].at = "tools"]
             /\ traced' = IF result = "done"
                          THEN traced \union {<<stack[n].role, "spawn">>}
                          ELSE traced
             /\ UNCHANGED outcome

\* A loop returns: to startRun, or to the spawn tool of its parent, which
\* reports ok whatever the child's state, and the parent emits the event.
Pop(result) ==
    IF Len(stack) = 1
    THEN stack' = <<>> /\ outcome' = result /\ UNCHANGED traced
    ELSE LET n == Len(stack) - 1
         IN  /\ stack' = [SubSeq(stack, 1, n) EXCEPT ![n].at = "tools"]
             /\ traced' = traced \union {<<stack[n].role, "spawn">>}
             /\ UNCHANGED outcome

\* An exception is caught by nobody below startRun: every loop is gone.
Throw ==
    /\ stack' = <<>>
    /\ outcome' = "threw"
    /\ UNCHANGED <<approvals, traced, failures>>

\* halt(): the run.halted event, then the failure packet.
Halt(state) ==
    /\ failures' = failures \union {FailureType[state]}
    /\ Pop(state)
    /\ UNCHANGED <<approvals, executed>>

----------------------------------------------------------------------------
(* One turn of runLoop *)

\* Mutation: one turn too many.
TurnsLeft_Mut == Top.iteration <= MaxIterations

TurnsLeft == Top.iteration < MaxIterations

IterationCap ==
    /\ Active("model")
    /\ ~TurnsLeft
    /\ Halt("terminated_iteration_cap")
    /\ UNCHANGED treeSpend

\* Mutation: a child is held to a budget of its own, which it cannot exceed.
OverBudget_Mut(spend) == Len(stack) = 1 /\ spend >= HardStop

OverBudget(spend) == spend >= HardStop

\* createMessage answers: the cost counts before the answer is looked at.
Answer ==
    /\ Active("model")
    /\ TurnsLeft
    /\ \E cost \in Costs : treeSpend' = treeSpend + cost
    /\ IF OverBudget(treeSpend') THEN Halt("terminated_budget")
       ELSE \/ /\ Pop("done")                           \* end_turn
               /\ UNCHANGED <<approvals, executed, failures>>
            \/ Halt("terminated_max_tokens")            \* max_tokens
            \/ /\ \E n \in 0..MaxBlocks :               \* tool_use
                     stack' = SetTop([Top EXCEPT !.at = "tools", !.left = n])
               /\ UNCHANGED <<approvals, executed, traced, failures, outcome>>
            \/ Throw /\ UNCHANGED executed              \* any other stop_reason

\* createMessage rejects: no usage is recorded.
ModelRejects ==
    /\ Active("model")
    /\ TurnsLeft
    /\ Throw
    /\ UNCHANGED <<treeSpend, executed>>

\* Mutation: a turn without tool calls does not count.
EndTurnFree_Mut ==
    /\ Active("tools")
    /\ Top.left = 0
    /\ \/ /\ Top.iteration > 0
          /\ Halt("terminated_loop_detected")
       \/ /\ stack' = SetTop([Top EXCEPT !.at = "model"])
          /\ UNCHANGED <<approvals, executed, traced, failures, outcome>>
    /\ UNCHANGED treeSpend

\* All calls of the answer are done.  The first turn has none to repeat
\* (prevSignature is null exactly while iteration is 0).
EndTurn ==
    /\ Active("tools")
    /\ Top.left = 0
    /\ \/ /\ Top.iteration > 0
          /\ Halt("terminated_loop_detected")
       \/ /\ stack' = SetTop([Top EXCEPT !.at = "model", !.iteration = @ + 1])
          /\ UNCHANGED <<approvals, executed, traced, failures, outcome>>
    /\ UNCHANGED treeSpend

----------------------------------------------------------------------------
(* handleToolUse, for one tool call of the answer *)

Targets(tool) == IF tool = "write_file" THEN {"path", "*"} ELSE {"*"}

Permitted(tool, target) ==
    Gate(Tool[tool].cap, Tool[tool].tier, target, Top.grant, approvals) = "permit"

\* The call is over, and its event emitted.
TraceCall(tool) ==
    /\ traced' = traced \union {<<Top.role, tool>>}
    /\ stack' = SetTop([Top EXCEPT !.left = @ - 1])
    /\ UNCHANGED <<treeSpend, approvals, failures, outcome>>

\* A tool outside the role's surface counts as unknown.  The event of a blocked
\* call has verdict 'block' and names no effect.
Blocked(tool) ==
    /\ Active("tools")
    /\ Top.left > 0
    /\ tool \in ToolsForRole(Top.role) =>
          \E target \in Targets(tool) : ~Permitted(tool, target)
    /\ stack' = SetTop([Top EXCEPT !.left = @ - 1])
    /\ UNCHANGED <<treeSpend, approvals, executed, traced, failures, outcome>>

\* execute() of a tool other than spawn: it returns, ok or with an error, or
\* rejects, as gmail_send and calendar_write do on an unreadable answer to a
\* request that took effect.
Execute(tool) ==
    /\ Active("tools")
    /\ Top.left > 0
    /\ tool \in ToolsForRole(Top.role) \ {"spawn"}
    /\ \E target \in Targets(tool) : Permitted(tool, target)
    /\ executed' = executed \union {<<Top.role, tool>>}
    /\ \/ TraceCall(tool)
       \/ Throw /\ UNCHANGED treeSpend

\* The spawn tool's own refusals.
Refused(child) ==
    \/ Top.depth + 1 > MaxSpawnDepth
    \/ Top.orchCount + 1 >= MaxIterations
    \/ IsDispatcher(Top.role) /\ ~MayRoute(Top.role, child)

SpawnPermitted ==
    /\ Active("tools")
    /\ Top.left > 0
    /\ "spawn" \in Asked \intersect ToolsForRole(Top.role)
    /\ Permitted("spawn", "*")
    /\ executed' = executed \union {<<Top.role, "spawn">>}

\* Refused, or malformed arguments.
RefuseSpawn ==
    /\ SpawnPermitted
    /\ TraceCall("spawn")

\* Mutation: the shared counter starts afresh in every child.
ChildFrame_Mut(child) ==
    NewFrame(child, ChildGrant(Top.role, Top.grant, child), Top.depth + 1, 0)

ChildFrame(child) ==
    NewFrame(child, ChildGrant(Top.role, Top.grant, child), Top.depth + 1,
             Top.orchCount + 1)

\* runChild: a new loop with the child's surface and a counter of its own.
Spawn ==
    \E child \in Summoned :
        /\ SpawnPermitted
        /\ ~Refused(child)
        /\ stack' = Append(SetTop([Top EXCEPT !.at = "spawned", !.left = @ - 1]),
                           ChildFrame(child))
        /\ UNCHANGED <<treeSpend, approvals, traced, failures, outcome>>

----------------------------------------------------------------------------

Step ==
    \/ IterationCap
    \/ Answer
    \/ ModelRejects
    \/ EndTurn
    \/ \E tool \in Asked : Blocked(tool) \/ Execute(tool)
    \/ RefuseSpawn
    \/ Spawn

\* The run is over; the process goes on.
Over == outcome # "running" /\ UNCHANGED vars

Next == Step \/ Over

Spec == Init /\ [][Next]_vars

\* The loop awaits nothing but model answers and tools, all of which settle.
FairSpec == Spec /\ WF_vars(Step)

=============================================================================
