---------------------------- MODULE RunTreeProofs ----------------------------
(***************************************************************************)
(* For every root, every set of roles and tools the model may ask for and  *)
(* every value of the limits: the agents at work form a path down the org  *)
(* chart, no tool is entered outside the matrix or without its approval,   *)
(* nothing that was entered goes untraced, and every step brings the run   *)
(* nearer to its end, whose spending has a limit.                          *)
(***************************************************************************)
EXTENDS RunTreeProperties, TLAPS

----------------------------------------------------------------------------
(* What the gate, the chart and the grants of spawned agents guarantee.    *)

\* The stricter of two tiers is one of them, and at least as strict as both.
LEMMA StricterIsBound ==
    ASSUME NEW a \in Tiers, NEW b \in Tiers
    PROVE  /\ StricterTier(a, b) \in {a, b}
           /\ TierRank[StricterTier(a, b)] >= TierRank[a]
           /\ TierRank[StricterTier(a, b)] >= TierRank[b]
BY DEF StricterTier, TierRank, Tiers

\* The row of every role is a grant.
LEMMA MatrixTyped == Matrix \in [Roles -> Grant]
BY DEF Matrix, TierOf, Grant, Tiers

\* Only a dispatcher holds SPAWN.
LEMMA OnlyDispatchersSpawn ==
    ASSUME NEW r \in Roles, Matrix[r]["SPAWN"] # "none"
    PROVE  IsDispatcher(r)
<1>1. "SPAWN" \in Capabilities /\ TierOf(r, "SPAWN") # "none"
  BY DEF Matrix, Capabilities
<1>2. <<r, "SPAWN">> \notin GrantedAt3
  BY DEF GrantedAt3
<1>3. <<r, "SPAWN">> \notin GrantedAt1
  BY DEF GrantedAt1
<1>4. <<r, "SPAWN">> \in GrantedAt2
  BY <1>1, <1>2, <1>3 DEF TierOf
<1> QED
  BY <1>4 DEF GrantedAt2, IsDispatcher

\* What the gate permits is granted, and approved by a person at tier T1.
LEMMA PermitIsGranted ==
    ASSUME NEW cap \in Capabilities, NEW tier \in Tiers, NEW target,
           NEW grant \in Grant, NEW given,
           Gate(cap, tier, target, grant, given) = "permit"
    PROVE  /\ grant[cap] # "none"
           /\ StricterTier(tier, grant[cap]) = "T1" =>
                 Approved(given, cap, target)
<1>1. grant[cap] # "none"
  BY DEF Gate
<1>2. CASE StricterTier(tier, grant[cap]) = "T1"
  BY <1>1, <1>2 DEF Gate
<1> QED
  BY <1>1, <1>2

\* A grant made by intersection never widens: what the gate permits under it,
\* for a target it can name, it permits under both grants it came from
\* (runtime/src/gate/intersect.ts).
THEOREM IntersectionNarrows ==
    ASSUME NEW parent \in Grant, NEW requested \in Grant,
           NEW cap \in Capabilities, NEW tier \in Tiers, NEW target,
           NEW given,
           target # "*" \/ ~PathBearing(cap),
           Gate(cap, tier, target, IntersectGrants(parent, requested), given)
               = "permit"
    PROVE  /\ Gate(cap, tier, target, parent, given) = "permit"
           /\ Gate(cap, tier, target, requested, given) = "permit"
<1> DEFINE child == IntersectGrants(parent, requested)
<1>1. parent[cap] # "none" /\ requested[cap] # "none"
  BY DEF IntersectGrants, Gate
<1>2. parent[cap] \in Tiers /\ requested[cap] \in Tiers
  BY <1>1 DEF Grant
<1>3. child[cap] = StricterTier(parent[cap], requested[cap])
  BY <1>1 DEF IntersectGrants
<1>4. child[cap] \in Tiers
  BY <1>2, <1>3, StricterIsBound
<1>5. child[cap] # "none"
  BY <1>4 DEF Tiers
<1>6. StricterTier(tier, child[cap]) = "T1" => Approved(given, cap, target)
  BY <1>5 DEF Gate
<1>7. ASSUME NEW grant \in {parent, requested}
      PROVE  Gate(cap, tier, target, grant, given) = "permit"
  <2>1. grant[cap] # "none" /\ grant[cap] \in Tiers
    BY <1>1, <1>2
  <2>2. StricterTier(tier, grant[cap]) \in Tiers
    BY <2>1, StricterIsBound
  <2>3. CASE StricterTier(tier, grant[cap]) = "T1"
    <3>1. tier = "T1" \/ grant[cap] = "T1"
      BY <2>1, <2>3, StricterIsBound
    <3>2. tier = "T1" \/ child[cap] = "T1"
      BY <1>2, <1>3, <3>1 DEF StricterTier, TierRank, Tiers
    <3>3. StricterTier(tier, child[cap]) = "T1"
      BY <1>4, <3>2 DEF StricterTier, TierRank, Tiers
    <3> QED
      BY <1>6, <2>1, <2>3, <3>3 DEF Gate
  <2>4. CASE StricterTier(tier, grant[cap]) = "T2"
    BY <2>1, <2>4 DEF Gate
  <2>5. CASE StricterTier(tier, grant[cap]) \in {"T0", "T3"}
    BY <2>1, <2>5 DEF Gate
  <2> QED
    BY <2>2, <2>3, <2>4, <2>5 DEF Tiers
<1> QED
  BY <1>7

----------------------------------------------------------------------------
(* The spawn tree *)

\* The iteration of a loop that is past its model answer is one it had left.
InTurn == \A i \in DOMAIN stack :
             stack[i].at # "model" => stack[i].iteration < MaxIterations

\* The inductive invariant: a step of the top loop keeps the path because the
\* grant of every loop on it is its role's row, and stays within the cap because
\* only a loop with a turn left ever leaves "model".
Sound == TypeOK /\ ChainInChart /\ InTurn

----------------------------------------------------------------------------
(* The chart *)

\* Routing goes down the layers of the chart.
LEMMA RoutingDescends ==
    ASSUME NEW a, NEW b, MayRoute(a, b)
    PROVE  /\ Layer(a) \in 1..2 /\ Layer(b) \in 2..3
           /\ Layer(a) < Layer(b)
<1>1. CASE a = "central-orchestrator"
  BY <1>1 DEF MayRoute, Routing, Layer, IsDispatcher, Dispatchers
<1>2. CASE a # "central-orchestrator"
  <2>1. a \in Dispatchers /\ b \in Specialists
    BY <1>2 DEF MayRoute, Routing, Dispatchers, Specialists
  <2>2. b # "central-orchestrator" /\ b \notin Dispatchers
    BY <2>1 DEF Dispatchers, Specialists
  <2> QED
    BY <1>2, <2>1, <2>2 DEF Layer, IsDispatcher
<1> QED
  BY <1>1, <1>2

----------------------------------------------------------------------------
(* The stack *)

\* What Append does to a sequence.
LEMMA AppendFacts ==
    ASSUME NEW S, NEW s \in Seq(S), NEW e \in S
    PROVE  /\ Append(s, e) \in Seq(S)
           /\ Len(Append(s, e)) = Len(s) + 1
           /\ Append(s, e)[Len(s) + 1] = e
           /\ \A i \in 1..Len(s) : Append(s, e)[i] = s[i]
OBVIOUS

\* The loop on top is a loop.
LEMMA TopTyped ==
    ASSUME TypeOK, stack # <<>>
    PROVE  Len(stack) \in Nat \ {0} /\ Len(stack) \in DOMAIN stack /\ Top \in Frame
BY DEF TypeOK, Top

\* The top loop moves on within its own frame.
LEMMA SetTopKeeps ==
    ASSUME Sound, stack # <<>>, NEW frame \in Frame,
           frame.role = Top.role, frame.grant = Top.grant,
           frame.depth = Top.depth, frame.orchCount = Top.orchCount,
           frame.at # "spawned",
           frame.at # "model" => frame.iteration < MaxIterations,
           stack' = SetTop(frame)
    PROVE  stack' \in Seq(Frame) /\ ChainInChart' /\ InTurn'
<1> DEFINE n == Len(stack)
<1>1. n \in Nat \ {0} /\ n \in DOMAIN stack /\ stack \in Seq(Frame)
  BY TopTyped DEF Sound, TypeOK
<1>2. stack' \in Seq(Frame) /\ Len(stack') = n
  BY <1>1 DEF SetTop
<1>3. \A i \in 1..n : stack'[i] = IF i = n THEN frame ELSE stack[i]
  BY <1>1 DEF SetTop
<1>4. \A i \in 1..n : /\ stack'[i].role = stack[i].role
                      /\ stack'[i].grant = stack[i].grant
                      /\ stack'[i].depth = stack[i].depth
                      /\ stack'[i].orchCount = stack[i].orchCount
  BY <1>3 DEF Top
<1>5. \A i \in 1..n : stack'[i].at = "spawned" <=> i < n
  <2>1. \A i \in 1..n : i # n => (stack[i].at = "spawned" <=> i < n)
    BY <1>1 DEF Sound, ChainInChart
  <2> QED
    BY <1>1, <1>3, <2>1
<1>6. ChainInChart'
  BY <1>1, <1>2, <1>4, <1>5 DEF Sound, ChainInChart
<1>7. InTurn'
  BY <1>1, <1>2, <1>3 DEF Sound, InTurn
<1> QED
  BY <1>2, <1>6, <1>7

\* A loop that returns leaves the path it was on one shorter.
LEMMA PopKeeps ==
    ASSUME Sound, stack # <<>>, NEW result \in {"done"} \union Halts, Pop(result)
    PROVE  /\ stack' \in Seq(Frame) /\ ChainInChart' /\ InTurn'
           /\ traced' \subseteq Roles \X DOMAIN Tool
           /\ outcome' \in {"running", "done", "threw"} \union Halts
<1>1. CASE Len(stack) = 1
  <2>1. stack' = <<>> /\ outcome' = result /\ traced' = traced
    BY <1>1 DEF Pop
  <2> QED
    BY <2>1 DEF Sound, TypeOK, ChainInChart, InTurn
<1>2. CASE Len(stack) # 1
  <2> DEFINE n == Len(stack) - 1
             base == SubSeq(stack, 1, n)
  <2>1. stack \in Seq(Frame) /\ n \in Nat \ {0} /\ Len(stack) = n + 1
    BY <1>2, TopTyped DEF Sound, TypeOK
  <2>2. /\ stack' = [base EXCEPT ![n].at = "tools"]
        /\ traced' = traced \union {<<stack[n].role, "spawn">>}
        /\ outcome' = outcome
    BY <1>2 DEF Pop
  <2>3. base \in Seq(Frame) /\ Len(base) = n
        /\ \A i \in 1..n : base[i] = stack[i] /\ stack[i] \in Frame
    BY <2>1
  <2> HIDE DEF n, base
  <2> DEFINE back == [stack[n] EXCEPT !.at = "tools"]
  <2>4. /\ n \in 1..n /\ stack[n] \in Frame /\ back \in Frame
        /\ back.role = stack[n].role /\ back.grant = stack[n].grant
        /\ back.depth = stack[n].depth /\ back.orchCount = stack[n].orchCount
        /\ back.at = "tools" /\ back.iteration = stack[n].iteration
    <3>1. n \in 1..n /\ stack[n] \in Frame
      BY <2>1, <2>3
    <3> QED
      BY <3>1 DEF Frame
  <2>5. stack' = [base EXCEPT ![n] = back]
    BY <2>2, <2>3, <2>4
  <2> HIDE DEF back
  <2>6. stack' \in Seq(Frame) /\ Len(stack') = n
        /\ \A i \in 1..n : stack'[i] = IF i = n THEN back ELSE stack[i]
    BY <2>1, <2>3, <2>4, <2>5
  <2>7. \A i \in 1..n : /\ stack'[i].role = stack[i].role
                        /\ stack'[i].grant = stack[i].grant
                        /\ stack'[i].depth = stack[i].depth
                        /\ stack'[i].orchCount = stack[i].orchCount
                        /\ stack'[i].at = "spawned" <=> i < n
    <3>1. \A i \in 1..n : stack[i].at = "spawned"
      BY <2>1 DEF Sound, ChainInChart
    <3> QED
      BY <2>1, <2>4, <2>6, <3>1
  <2>8. ChainInChart'
    BY <2>1, <2>6, <2>7 DEF Sound, ChainInChart
  <2>9. <<stack[n].role, "spawn">> \in Roles \X DOMAIN Tool
    BY <2>1, <2>3 DEF Frame, Tool
  <2>10. InTurn'
    <3>1. stack[n].at # "model"
      BY <2>1 DEF Sound, ChainInChart
    <3>2. \A i \in 1..n : stack[i].at # "model" => stack[i].iteration < MaxIterations
      BY <2>1 DEF Sound, InTurn
    <3> QED
      BY <2>1, <2>4, <2>6, <3>1, <3>2 DEF InTurn
  <2> QED
    BY <2>2, <2>6, <2>8, <2>9, <2>10 DEF Sound, TypeOK
<1> QED
  BY <1>1, <1>2

\* A loop that gives its turn to a child extends the path by one edge.
LEMMA SpawnKeeps ==
    ASSUME Sound, stack # <<>>, NEW child \in Roles, NEW left \in Nat,
           MayRoute(Top.role, child), Top.at # "model",
           stack' = Append(SetTop([Top EXCEPT !.at = "spawned", !.left = left]),
                           NewFrame(child, Matrix[child], Top.depth + 1,
                                    Top.orchCount + 1))
    PROVE  stack' \in Seq(Frame) /\ ChainInChart' /\ InTurn'
<1> DEFINE n == Len(stack)
           top == [Top EXCEPT !.at = "spawned", !.left = left]
           new == NewFrame(child, Matrix[child], Top.depth + 1, Top.orchCount + 1)
<1>1. n \in Nat \ {0} /\ n \in DOMAIN stack /\ stack \in Seq(Frame) /\ Top \in Frame
  BY TopTyped DEF Sound, TypeOK
<1>2. top \in Frame /\ top.role = Top.role /\ top.grant = Top.grant
      /\ top.depth = Top.depth /\ top.orchCount = Top.orchCount
      /\ top.at = "spawned" /\ top.iteration = Top.iteration
  BY <1>1 DEF Frame
<1>3. new \in Frame /\ new.role = child /\ new.grant = Matrix[child]
      /\ new.depth = Top.depth + 1 /\ new.orchCount = Top.orchCount + 1
      /\ new.at = "model"
  <2>1. Top.depth + 1 \in Nat /\ Top.orchCount + 1 \in Nat
    BY <1>1 DEF Frame
  <2>2. Matrix[child] \in Grant
    BY MatrixTyped
  <2>3. 0 \in 0..MaxIterations
    BY LimitsAssumption
  <2> QED
    BY <2>1, <2>2, <2>3 DEF NewFrame, Frame
<1> HIDE DEF top, new
<1>4. SetTop(top) \in Seq(Frame) /\ Len(SetTop(top)) = n
      /\ \A i \in 1..n : SetTop(top)[i] = IF i = n THEN top ELSE stack[i]
  BY <1>1, <1>2 DEF SetTop
<1>5. stack' = Append(SetTop(top), new)
  BY DEF top, new
<1>6. stack' \in Seq(Frame) /\ Len(stack') = n + 1
      /\ stack'[n + 1] = new
      /\ \A i \in 1..n : stack'[i] = IF i = n THEN top ELSE stack[i]
  <2>1. /\ stack' \in Seq(Frame) /\ Len(stack') = Len(SetTop(top)) + 1
        /\ stack'[Len(SetTop(top)) + 1] = new
        /\ \A i \in 1..Len(SetTop(top)) : stack'[i] = SetTop(top)[i]
    <3>1. new \in Frame /\ SetTop(top) \in Seq(Frame)
      BY <1>3, <1>4
    <3> DEFINE base == SetTop(top)
    <3> HIDE DEF base
    <3>2. /\ Append(base, new) \in Seq(Frame)
          /\ Len(Append(base, new)) = Len(base) + 1
          /\ Append(base, new)[Len(base) + 1] = new
          /\ \A i \in 1..Len(base) : Append(base, new)[i] = base[i]
      <4>1. base \in Seq(Frame)
        BY <3>1 DEF base
      <4> QED
        BY ONLY <3>1, <4>1, AppendFacts
    <3>3. stack' = Append(base, new)
      BY <1>5 DEF base
    <3> QED
      BY <3>2, <3>3 DEF base
  <2> QED
    BY <1>4, <2>1
<1>7. \A i \in 1..n : /\ stack'[i].role = stack[i].role
                      /\ stack'[i].grant = stack[i].grant
                      /\ stack'[i].depth = stack[i].depth
                      /\ stack'[i].orchCount = stack[i].orchCount
                      /\ stack'[i].at = "spawned"
  <2>1. \A i \in 1..n : i # n => stack[i].at = "spawned"
    BY <1>1 DEF Sound, ChainInChart
  <2> QED
    BY <1>2, <1>6, <2>1 DEF Top
<1>8. /\ new.depth = n /\ new.orchCount = n
      /\ MayRoute(stack'[n].role, stack'[n + 1].role)
  <2>1. Top.depth = n - 1 /\ Top.orchCount = n - 1
    BY <1>1 DEF Sound, ChainInChart, Top
  <2> QED
    BY <1>1, <1>3, <1>6, <1>7, <2>1 DEF Top
<1>9. ChainInChart'
  <2>1. DOMAIN stack' = 1..(n + 1)
    BY <1>1, <1>6
  <2>2. \A i \in 1..n : /\ stack[i].grant = Matrix[stack[i].role]
                        /\ stack[i].depth = i - 1
                        /\ stack[i].orchCount = i - 1
                        /\ i > 1 => MayRoute(stack[i - 1].role, stack[i].role)
    BY <1>1 DEF Sound, ChainInChart
  <2>3. \A i \in 1..n : /\ stack'[i].grant = Matrix[stack'[i].role]
                        /\ stack'[i].depth = i - 1
                        /\ stack'[i].orchCount = i - 1
                        /\ i > 1 => MayRoute(stack'[i - 1].role, stack'[i].role)
                        /\ stack'[i].at = "spawned" <=> i < n + 1
    <3> TAKE i \in 1..n
    <3>1. i < n + 1 /\ (i > 1 => i - 1 \in 1..n)
      BY <1>1
    <3>2. stack'[i].grant = Matrix[stack'[i].role] /\ stack'[i].depth = i - 1
          /\ stack'[i].orchCount = i - 1 /\ stack'[i].at = "spawned"
      BY <1>7, <2>2
    <3>3. ASSUME i > 1
          PROVE  MayRoute(stack'[i - 1].role, stack'[i].role)
      <4>1. i - 1 \in 1..n
        BY <3>1, <3>3
      <4>2. stack'[i - 1].role = stack[i - 1].role /\ stack'[i].role = stack[i].role
        BY <1>7, <4>1
      <4> QED
        BY <2>2, <3>3, <4>2
    <3> QED
      BY <3>1, <3>2, <3>3
  <2>4. /\ stack'[n + 1].grant = Matrix[stack'[n + 1].role]
        /\ stack'[n + 1].depth = n
        /\ stack'[n + 1].orchCount = n
        /\ stack'[n + 1].at # "spawned"
    BY <1>3, <1>6, <1>8
  <2>5. \A i \in 1..(n + 1) : i \in 1..n \/ i = n + 1
    BY <1>1
  <2> QED
    BY <1>1, <1>6, <1>8, <2>1, <2>3, <2>4, <2>5 DEF ChainInChart
<1>10. InTurn'
  <2>1. \A i \in 1..n : stack[i].at # "model" => stack[i].iteration < MaxIterations
    BY <1>1 DEF Sound, InTurn
  <2>2. top.iteration < MaxIterations
    BY <1>1, <1>2, <2>1 DEF Top
  <2>3. \A i \in 1..n : stack'[i].at # "model" => stack'[i].iteration < MaxIterations
    BY <1>6, <2>1, <2>2
  <2>4. DOMAIN stack' = 1..(n + 1) /\ \A i \in 1..(n + 1) : i \in 1..n \/ i = n + 1
    BY <1>1, <1>6
  <2> QED
    BY <1>3, <1>6, <2>3, <2>4 DEF InTurn
<1> QED
  BY <1>6, <1>9, <1>10

\* A tool call of the top loop's answer is over.
LEMMA CallOver ==
    ASSUME Sound, stack # <<>>, Top.at = "tools", Top.left > 0,
           stack' = SetTop([Top EXCEPT !.left = @ - 1])
    PROVE  stack' \in Seq(Frame) /\ ChainInChart' /\ InTurn'
<1> DEFINE frame == [Top EXCEPT !.left = @ - 1]
<1>1. Len(stack) \in DOMAIN stack /\ Top \in Frame
  BY TopTyped DEF Sound
<1>2. Top.left - 1 \in Nat
  BY <1>1 DEF Frame
<1>3. Top.iteration < MaxIterations
  BY <1>1 DEF Sound, InTurn, Top
<1>4. frame \in Frame /\ frame.role = Top.role /\ frame.grant = Top.grant
      /\ frame.depth = Top.depth /\ frame.orchCount = Top.orchCount
      /\ frame.at = "tools" /\ frame.iteration = Top.iteration
  BY <1>1, <1>2 DEF Frame
<1>5. stack' = SetTop(frame)
  OBVIOUS
<1> HIDE DEF frame
<1> QED
  BY <1>3, <1>4, <1>5, SetTopKeeps

----------------------------------------------------------------------------
(* The inductive invariant *)

\* A run starts with its root loop alone on the path.
LEMMA InitSound == Init => Sound
<1> SUFFICES ASSUME Init
             PROVE  Sound
  OBVIOUS
<1> DEFINE root == NewFrame(Root, Matrix[Root], 0, 0)
<1>1. Root \in Roles /\ Matrix[Root] \in Grant /\ 0 \in 0..MaxIterations
  BY RolesAssumption, MatrixTyped, LimitsAssumption
<1>2. root \in Frame /\ root.role = Root /\ root.grant = Matrix[Root]
      /\ root.depth = 0 /\ root.orchCount = 0 /\ root.at = "model"
  BY <1>1 DEF NewFrame, Frame
<1> HIDE DEF root
<1>3. stack = <<root>>
  BY DEF Init, root
<1>4. TypeOK
  BY <1>2, <1>3 DEF Init, TypeOK
<1>5. ChainInChart
  BY <1>2, <1>3 DEF ChainInChart
<1>6. InTurn
  BY <1>2, <1>3 DEF InTurn
<1> QED
  BY <1>4, <1>5, <1>6 DEF Sound

\* A loop that halts.
LEMMA HaltKeeps ==
    ASSUME Sound, stack # <<>>, NEW state \in Halts, Halt(state),
           treeSpend' \in Nat
    PROVE  Sound'
<1>1. Pop(state) /\ state \in {"done"} \union Halts
  BY DEF Halt
<1>2. /\ stack' \in Seq(Frame) /\ ChainInChart' /\ InTurn'
      /\ traced' \subseteq Roles \X DOMAIN Tool
      /\ outcome' \in {"running", "done", "threw"} \union Halts
  BY <1>1, PopKeeps
<1>3. FailureType[state] \in {"timeout", "scope_exceeded", "execution_error"}
  BY DEF FailureType, Halts
<1>4. approvals' = approvals /\ executed' = executed
      /\ failures' = failures \union {FailureType[state]}
  BY DEF Halt
<1> QED
  BY <1>2, <1>3, <1>4 DEF Sound, TypeOK

\* An exception leaves no loop behind.
LEMMA ThrowKeeps ==
    ASSUME Sound, Throw, treeSpend' \in Nat,
           executed' \subseteq Roles \X DOMAIN Tool
    PROVE  Sound'
BY DEF Throw, Sound, TypeOK, ChainInChart, InTurn

\* The turn check of runLoop keeps the invariant.
LEMMA IterationCapKeeps == Sound /\ IterationCap => Sound'
<1> SUFFICES ASSUME Sound, IterationCap
             PROVE  Sound'
  OBVIOUS
<1>1. stack # <<>> /\ treeSpend' = treeSpend /\ Halt("terminated_iteration_cap")
  BY DEF IterationCap, Active
<1> QED
  BY <1>1, HaltKeeps DEF Halts, Sound, TypeOK

\* A model answer keeps the invariant, whatever its stop reason.
LEMMA AnswerKeeps == Sound /\ Answer => Sound'
<1> SUFFICES ASSUME Sound, Answer
             PROVE  Sound'
  OBVIOUS
<1>1. stack # <<>> /\ Top \in Frame
  BY TopTyped DEF Answer, Active, Sound
<1>2. treeSpend' \in Nat
  <2>1. PICK cost \in Costs : treeSpend' = treeSpend + cost
    BY DEF Answer
  <2>2. cost \in Nat /\ treeSpend \in Nat
    BY LimitsAssumption DEF Sound, TypeOK
  <2> QED
    BY <2>1, <2>2
<1>3. CASE Halt("terminated_budget") \/ Halt("terminated_max_tokens")
  BY <1>1, <1>2, <1>3, HaltKeeps DEF Halts
<1>4. CASE Pop("done") /\ UNCHANGED <<approvals, executed, failures>>
  <2>1. /\ stack' \in Seq(Frame) /\ ChainInChart' /\ InTurn'
        /\ traced' \subseteq Roles \X DOMAIN Tool
        /\ outcome' \in {"running", "done", "threw"} \union Halts
    BY <1>1, <1>4, PopKeeps
  <2> QED
    BY <1>2, <1>4, <2>1 DEF Sound, TypeOK
<1>5. CASE /\ \E n \in 0..MaxBlocks :
                 stack' = SetTop([Top EXCEPT !.at = "tools", !.left = n])
           /\ UNCHANGED <<approvals, executed, traced, failures, outcome>>
  <2>1. PICK n \in 0..MaxBlocks :
              stack' = SetTop([Top EXCEPT !.at = "tools", !.left = n])
    BY <1>5
  <2>2. stack' \in Seq(Frame) /\ ChainInChart' /\ InTurn'
    <3> DEFINE frame == [Top EXCEPT !.at = "tools", !.left = n]
    <3>1. n \in Nat /\ Top.iteration < MaxIterations
      <4>1. TurnsLeft
        BY DEF Answer
      <4>2. n \in Nat
        BY LimitsAssumption
      <4> QED
        BY <4>1, <4>2 DEF TurnsLeft
    <3>2. frame \in Frame /\ frame.role = Top.role /\ frame.grant = Top.grant
          /\ frame.depth = Top.depth /\ frame.orchCount = Top.orchCount
          /\ frame.at # "spawned" /\ frame.iteration = Top.iteration
      BY <1>1, <3>1 DEF Frame
    <3> HIDE DEF frame
    <3>3. stack' = SetTop(frame)
      BY <2>1 DEF frame
    <3> QED
      BY <1>1, <3>1, <3>2, <3>3, SetTopKeeps
  <2> QED
    BY <1>2, <1>5, <2>2 DEF Sound, TypeOK
<1>6. CASE Throw /\ UNCHANGED executed
  BY <1>2, <1>6, ThrowKeeps DEF Sound, TypeOK
<1> QED
  BY <1>3, <1>4, <1>5, <1>6 DEF Answer

\* A rejected createMessage keeps the invariant.
LEMMA ModelRejectsKeeps == Sound /\ ModelRejects => Sound'
BY ThrowKeeps DEF ModelRejects, Sound, TypeOK

\* The end of a turn keeps the invariant, a detected repetition included.
LEMMA EndTurnKeeps == Sound /\ EndTurn => Sound'
<1> SUFFICES ASSUME Sound, EndTurn
             PROVE  Sound'
  OBVIOUS
<1>1. stack # <<>> /\ Top \in Frame /\ treeSpend' = treeSpend
  BY TopTyped DEF EndTurn, Active, Sound
<1>2. CASE Halt("terminated_loop_detected")
  BY <1>1, <1>2, HaltKeeps DEF Halts, Sound, TypeOK
<1>3. CASE /\ stack' = SetTop([Top EXCEPT !.at = "model", !.iteration = @ + 1])
           /\ UNCHANGED <<approvals, executed, traced, failures, outcome>>
  <2>1. stack' \in Seq(Frame) /\ ChainInChart' /\ InTurn'
    <3> DEFINE frame == [Top EXCEPT !.at = "model", !.iteration = @ + 1]
    <3>1. Top.iteration + 1 \in 0..MaxIterations
      <4>1. Top.at # "model" /\ Len(stack) \in DOMAIN stack
        BY TopTyped DEF EndTurn, Active, Sound
      <4>2. Top.iteration < MaxIterations
        BY <4>1 DEF Sound, InTurn, Top
      <4> QED
        BY <1>1, <4>2, LimitsAssumption DEF Frame
    <3>2. frame \in Frame /\ frame.role = Top.role /\ frame.grant = Top.grant
          /\ frame.depth = Top.depth /\ frame.orchCount = Top.orchCount
          /\ frame.at = "model"
      BY <1>1, <3>1 DEF Frame
    <3> HIDE DEF frame
    <3>3. stack' = SetTop(frame)
      BY <1>3 DEF frame
    <3> QED
      BY <1>1, <3>2, <3>3, SetTopKeeps
  <2> QED
    BY <1>1, <1>3, <2>1 DEF Sound, TypeOK
<1> QED
  BY <1>2, <1>3 DEF EndTurn

\* A tool call that is over.
LEMMA TraceCallKeeps ==
    ASSUME Sound, stack # <<>>, Top.at = "tools", Top.left > 0,
           NEW tool \in DOMAIN Tool, TraceCall(tool),
           executed' \subseteq Roles \X DOMAIN Tool
    PROVE  Sound'
<1>1. Top \in Frame
  BY TopTyped DEF Sound
<1>2. stack' \in Seq(Frame) /\ ChainInChart' /\ InTurn'
  BY CallOver DEF TraceCall
<1>3. <<Top.role, tool>> \in Roles \X DOMAIN Tool
  BY <1>1 DEF Frame
<1>4. traced' = traced \union {<<Top.role, tool>>}
      /\ UNCHANGED <<treeSpend, approvals, failures, outcome>>
  BY DEF TraceCall
<1> QED
  BY <1>2, <1>3, <1>4 DEF Sound, TypeOK

\* A blocked tool call keeps the invariant.
LEMMA BlockedKeeps ==
    ASSUME NEW tool
    PROVE  Sound /\ Blocked(tool) => Sound'
<1> SUFFICES ASSUME Sound, Blocked(tool)
             PROVE  Sound'
  OBVIOUS
<1>1. stack' \in Seq(Frame) /\ ChainInChart' /\ InTurn'
  BY CallOver DEF Blocked, Active
<1>2. UNCHANGED <<treeSpend, approvals, executed, traced, failures, outcome>>
  BY DEF Blocked
<1> QED
  BY <1>1, <1>2 DEF Sound, TypeOK

\* An executed tool keeps the invariant, returning or rejecting.
LEMMA ExecuteKeeps ==
    ASSUME NEW tool
    PROVE  Sound /\ Execute(tool) => Sound'
<1> SUFFICES ASSUME Sound, Execute(tool)
             PROVE  Sound'
  OBVIOUS
<1>1. stack # <<>> /\ Top.at = "tools" /\ Top.left > 0 /\ Top \in Frame
  BY TopTyped DEF Execute, Active, Sound
<1>2. tool \in DOMAIN Tool
  BY DEF Execute, ToolsForRole
<1>3. executed' \subseteq Roles \X DOMAIN Tool
  <2>1. <<Top.role, tool>> \in Roles \X DOMAIN Tool
    BY <1>1, <1>2 DEF Frame
  <2>2. executed' = executed \union {<<Top.role, tool>>}
    BY DEF Execute
  <2> QED
    BY <2>1, <2>2 DEF Sound, TypeOK
<1>4. CASE TraceCall(tool)
  BY <1>1, <1>2, <1>3, <1>4, TraceCallKeeps
<1>5. CASE Throw /\ UNCHANGED treeSpend
  BY <1>3, <1>5, ThrowKeeps DEF Sound, TypeOK
<1> QED
  BY <1>4, <1>5 DEF Execute

\* What a spawn that passed the gate says.
LEMMA SpawnPermittedFacts ==
    ASSUME Sound, SpawnPermitted
    PROVE  /\ stack # <<>> /\ Top.at = "tools" /\ Top.left > 0
           /\ IsDispatcher(Top.role)
           /\ executed' = executed \union {<<Top.role, "spawn">>}
           /\ executed' \subseteq Roles \X DOMAIN Tool
<1>1. stack # <<>> /\ Top.at = "tools" /\ Top.left > 0 /\ Top \in Frame
  BY TopTyped DEF SpawnPermitted, Active, Sound
<1>2. Matrix[Top.role]["SPAWN"] # "none"
  BY DEF SpawnPermitted, ToolsForRole, Tool
<1>3. IsDispatcher(Top.role)
  BY <1>1, <1>2, OnlyDispatchersSpawn DEF Frame
<1>4. executed' = executed \union {<<Top.role, "spawn">>}
  BY DEF SpawnPermitted
<1>5. <<Top.role, "spawn">> \in Roles \X DOMAIN Tool
  BY <1>1 DEF Frame, Tool
<1> QED
  BY <1>1, <1>3, <1>4, <1>5 DEF Sound, TypeOK

\* A refused spawn keeps the invariant.
LEMMA RefuseSpawnKeeps == Sound /\ RefuseSpawn => Sound'
<1> SUFFICES ASSUME Sound, RefuseSpawn
             PROVE  Sound'
  OBVIOUS
<1>1. SpawnPermitted /\ TraceCall("spawn") /\ "spawn" \in DOMAIN Tool
  BY DEF RefuseSpawn, Tool
<1> QED
  BY <1>1, SpawnPermittedFacts, TraceCallKeeps

\* A spawned agent: permitted, on the chart, and with its role's row.
LEMMA SpawnFacts ==
    ASSUME Sound, Spawn
    PROVE  \E child \in Roles, left \in Nat :
              /\ MayRoute(Top.role, child)
              /\ stack' = Append(SetTop([Top EXCEPT !.at = "spawned", !.left = left]),
                                 NewFrame(child, Matrix[child], Top.depth + 1,
                                          Top.orchCount + 1))
<1>1. PICK child \in Summoned :
          /\ SpawnPermitted
          /\ ~Refused(child)
          /\ stack' = Append(SetTop([Top EXCEPT !.at = "spawned", !.left = @ - 1]),
                             ChildFrame(child))
  BY DEF Spawn
<1>2. stack # <<>> /\ Top.left > 0 /\ IsDispatcher(Top.role)
  BY <1>1, SpawnPermittedFacts
<1>3. Top.left - 1 \in Nat
  BY <1>2, TopTyped DEF Sound, Frame
<1>4. child \in Roles /\ MayRoute(Top.role, child)
  BY <1>1, <1>2, RolesAssumption DEF Refused
<1>5. ChildFrame(child) = NewFrame(child, Matrix[child], Top.depth + 1,
                                   Top.orchCount + 1)
  BY <1>2 DEF ChildFrame, ChildGrant
<1> QED
  BY <1>1, <1>3, <1>4, <1>5

\* A spawned child keeps the invariant.
LEMMA SpawnKeepsSound == Sound /\ Spawn => Sound'
<1> SUFFICES ASSUME Sound, Spawn
             PROVE  Sound'
  OBVIOUS
<1>1. SpawnPermitted /\ UNCHANGED <<treeSpend, approvals, traced, failures, outcome>>
  BY DEF Spawn
<1>2. /\ stack # <<>> /\ Top.at # "model"
      /\ executed' \subseteq Roles \X DOMAIN Tool
  BY <1>1, SpawnPermittedFacts
<1>3. stack' \in Seq(Frame) /\ ChainInChart' /\ InTurn'
  BY <1>2, SpawnFacts, SpawnKeeps
<1> QED
  BY <1>1, <1>2, <1>3 DEF Sound, TypeOK

\* Every step keeps the invariant.
LEMMA StepSound == Sound /\ [Next]_vars => Sound'
<1> SUFFICES ASSUME Sound, [Next]_vars
             PROVE  Sound'
  OBVIOUS
<1>1. CASE UNCHANGED vars
  BY <1>1 DEF vars, Sound, TypeOK, ChainInChart, InTurn
<1>2. CASE \E tool \in Asked : Blocked(tool) \/ Execute(tool)
  BY <1>2, BlockedKeeps, ExecuteKeeps
<1> QED
  BY <1>1, <1>2, IterationCapKeeps, AnswerKeeps, ModelRejectsKeeps, EndTurnKeeps,
     RefuseSpawnKeeps, SpawnKeepsSound DEF Next, Step, Over

\* The invariant holds throughout every run.
LEMMA SoundAlways == Spec => []Sound
<1>1. Init => Sound
  BY InitSound
<1>2. Sound /\ [Next]_vars => Sound'
  BY StepSound
<1> QED
  BY <1>1, <1>2, PTL DEF Spec

----------------------------------------------------------------------------
(* The theorems *)

\* Every value a run keeps has its type: no loop counts past its cap.
THEOREM RunTypeCorrect == Spec => []TypeOK
<1>1. Sound => TypeOK
  BY DEF Sound
<1> QED
  BY <1>1, SoundAlways, PTL

\* The agents of a run always form a path down the org chart, each with its
\* role's own row of the matrix (tools/spawn.ts).
THEOREM AgentsFollowChart == Spec => []ChainInChart
<1>1. Sound => ChainInChart
  BY DEF Sound
<1> QED
  BY <1>1, SoundAlways, PTL

\* The layers of the chart only descend, so no role comes twice on a path and
\* no path has a fourth agent.
LEMMA PathDescends == Sound => NoCircularRouting
<1> SUFFICES ASSUME Sound
             PROVE  NoCircularRouting
  OBVIOUS
<1> DEFINE n == Len(stack)
<1>1. n \in Nat /\ DOMAIN stack = 1..n
  BY DEF Sound, TypeOK
<1>2. \A i \in 2..n : MayRoute(stack[i - 1].role, stack[i].role)
  BY <1>1 DEF Sound, ChainInChart
<1>3. \A i \in 2..n : /\ Layer(stack[i - 1].role) \in 1..2
                      /\ Layer(stack[i].role) \in 2..3
                      /\ Layer(stack[i - 1].role) < Layer(stack[i].role)
  BY <1>2, RoutingDescends
<1> DEFINE layer(i) == Layer(stack[i].role)
<1>4. \A i \in 2..n : layer(i - 1) \in 1..2 /\ layer(i) \in 2..3
                      /\ layer(i - 1) < layer(i)
  BY <1>3
<1> HIDE DEF layer, n
<1>5. n <= 3
  <2> SUFFICES ASSUME n > 3
               PROVE  FALSE
    BY <1>1
  <2>1. 2 \in 2..n /\ 3 \in 2..n /\ 4 \in 2..n
    BY <1>1
  <2>2. layer(1) < layer(2) /\ layer(1) \in 1..2 /\ layer(2) \in 2..3
    BY <1>4, <2>1
  <2>3. layer(2) < layer(3) /\ layer(3) \in 2..3
    BY <1>4, <2>1
  <2>4. layer(3) < layer(4) /\ layer(4) \in 2..3
    BY <1>4, <2>1
  <2> QED
    BY <2>2, <2>3, <2>4
<1>6. \A i, j \in 1..n : i < j => layer(i) # layer(j)
  <2> TAKE i, j \in 1..n
  <2> SUFFICES ASSUME i < j
               PROVE  layer(i) # layer(j)
    OBVIOUS
  <2>1. \/ i = 1 /\ j = 2
        \/ i = 2 /\ j = 3
        \/ i = 1 /\ j = 3
    BY <1>1, <1>5
  <2>2. CASE i = 1 /\ j = 2
    <3>1. 2 \in 2..n
      BY <1>1, <2>2
    <3> QED
      BY <1>4, <2>2, <3>1
  <2>3. CASE i = 2 /\ j = 3
    <3>1. 3 \in 2..n
      BY <1>1, <2>3
    <3> QED
      BY <1>4, <2>3, <3>1
  <2>4. CASE i = 1 /\ j = 3
    <3>1. 2 \in 2..n /\ 3 \in 2..n
      BY <1>1, <2>4
    <3>2. layer(1) < layer(2) /\ layer(1) \in 1..2 /\ layer(2) \in 2..3
      BY <1>4, <3>1
    <3>3. layer(2) < layer(3) /\ layer(3) \in 2..3
      BY <1>4, <3>1
    <3> QED
      BY <2>4, <3>2, <3>3
  <2> QED
    BY <2>1, <2>2, <2>3, <2>4
<1>7. \A i, j \in 1..n : i < j => stack[i].role # stack[j].role
  BY <1>6 DEF layer
<1> QED
  BY <1>1, <1>5, <1>7 DEF NoCircularRouting, n

\* Routing is never circular.
THEOREM RoutingIsAcyclic == Spec => []NoCircularRouting
BY PathDescends, SoundAlways, PTL

----------------------------------------------------------------------------
(* What was entered was permitted *)

\* An entered tool had its grant and its approval.
Justified(role, tool) ==
    LET cap == Tool[tool].cap
        tier == Matrix[role][cap]
    IN  /\ tier # "none"
        /\ StricterTier(Tool[tool].tier, tier) = "T1" =>
              \E target \in Targets(tool) : Approved(approvals, cap, target)

\* What the gate lets the top loop do, the matrix and a person let its role do.
LEMMA PermittedIsJustified ==
    ASSUME Sound, stack # <<>>, NEW tool \in DOMAIN Tool,
           NEW target \in Targets(tool), Permitted(tool, target)
    PROVE  Justified(Top.role, tool)
<1> DEFINE cap == Tool[tool].cap
           tier == Tool[tool].tier
<1>1. cap \in Capabilities /\ tier \in Tiers
  BY DEF Tool, Capabilities, Tiers
<1>2. Top.grant \in Grant /\ Top.grant = Matrix[Top.role]
  BY TopTyped DEF Sound, ChainInChart, Frame, Top
<1>3. Gate(cap, tier, target, Top.grant, approvals) = "permit"
  BY DEF Permitted
<1> HIDE DEF cap, tier
<1>4. /\ Top.grant[cap] # "none"
      /\ StricterTier(tier, Top.grant[cap]) = "T1" => Approved(approvals, cap, target)
  BY <1>1, <1>2, <1>3, PermitIsGranted
<1> QED
  BY <1>2, <1>4 DEF Justified, cap, tier

\* An entry is added only by an execute that passed the gate.
LEMMA EntryIsPermitted ==
    ASSUME Sound, Next
    PROVE  /\ approvals' = approvals
           /\ \/ executed' = executed
              \/ \E tool \in DOMAIN Tool :
                    /\ executed' = executed \union {<<Top.role, tool>>}
                    /\ Justified(Top.role, tool)
<1>1. CASE IterationCap \/ EndTurn
  BY <1>1 DEF IterationCap, EndTurn, Halt
<1>2. CASE Answer
  BY <1>2 DEF Answer, Halt, Throw
<1>3. CASE ModelRejects
  BY <1>3 DEF ModelRejects, Throw
<1>4. CASE Over
  BY <1>4 DEF Over, vars
<1>5. CASE \E tool \in Asked : Blocked(tool)
  BY <1>5 DEF Blocked
<1>6. CASE \E tool \in Asked : Execute(tool)
  <2>1. PICK tool \in Asked : Execute(tool)
    BY <1>6
  <2>2. stack # <<>> /\ tool \in DOMAIN Tool
    BY <2>1 DEF Execute, Active, ToolsForRole
  <2>3. PICK target \in Targets(tool) : Permitted(tool, target)
    BY <2>1 DEF Execute
  <2>4. Justified(Top.role, tool)
    BY <2>2, <2>3, PermittedIsJustified
  <2>5. executed' = executed \union {<<Top.role, tool>>} /\ approvals' = approvals
    BY <2>1 DEF Execute, TraceCall, Throw
  <2> QED
    BY <2>2, <2>4, <2>5
<1>7. CASE RefuseSpawn \/ Spawn
  <2>1. SpawnPermitted /\ approvals' = approvals
    BY <1>7 DEF RefuseSpawn, Spawn, TraceCall
  <2>2. "spawn" \in DOMAIN Tool /\ "*" \in Targets("spawn") /\ stack # <<>>
    BY <2>1 DEF Tool, Targets, SpawnPermitted, Active
  <2>3. Permitted("spawn", "*") /\ executed' = executed \union {<<Top.role, "spawn">>}
    BY <2>1 DEF SpawnPermitted
  <2>4. Justified(Top.role, "spawn")
    BY <2>2, <2>3, PermittedIsJustified
  <2> QED
    BY <2>1, <2>2, <2>3, <2>4
<1> QED
  BY <1>1, <1>2, <1>3, <1>4, <1>5, <1>6, <1>7 DEF Next, Step

\* No tool runs outside the matrix row of the role it runs for, however the
\* role came to run, and none at tier T1 that nobody approved (gate.ts,
\* run-loop.ts handleToolUse).
THEOREM GrantsAreRespected == Spec => []ExecutedInGrant
<1>1. Init => ExecutedInGrant
  BY DEF Init, ExecutedInGrant
<1>2. Sound /\ ExecutedInGrant /\ [Next]_vars => ExecutedInGrant'
  <2> SUFFICES ASSUME Sound, ExecutedInGrant, [Next]_vars
               PROVE  ExecutedInGrant'
    OBVIOUS
  <2>1. \A e \in executed : Justified(e[1], e[2])
    BY DEF ExecutedInGrant, Justified
  <2>2. CASE UNCHANGED vars
    BY <2>2 DEF vars, ExecutedInGrant, Approved
  <2>3. CASE Next
    <3>1. approvals' = approvals
      BY <2>3, EntryIsPermitted
    <3>2. \A e \in executed' : Justified(e[1], e[2])
      BY <2>1, <2>3, EntryIsPermitted
    <3> QED
      BY <3>1, <3>2 DEF ExecutedInGrant, Justified, Approved
  <2> QED
    BY <2>2, <2>3
<1> QED
  BY <1>1, <1>2, SoundAlways, PTL DEF Spec

----------------------------------------------------------------------------
(* What was entered is traced *)

\* The role's spawn is awaited by one of its loops.
Awaited(role) ==
    \E i \in DOMAIN stack : stack[i].role = role /\ stack[i].at = "spawned"

\* A step within the top loop leaves the awaited spawns awaited.
LEMMA SetTopAwaits ==
    ASSUME Sound, stack # <<>>, Top.at # "spawned", NEW frame,
           stack' = SetTop(frame), NEW role, Awaited(role)
    PROVE  Awaited(role)'
<1>1. PICK i \in DOMAIN stack : stack[i].role = role /\ stack[i].at = "spawned"
  BY DEF Awaited
<1>2. i # Len(stack) /\ stack \in Seq(Frame)
  BY <1>1 DEF Top, Sound, TypeOK
<1>3. i \in DOMAIN stack' /\ stack'[i] = stack[i]
  BY <1>1, <1>2 DEF SetTop
<1> QED
  BY <1>1, <1>3 DEF Awaited

\* A spawn that is no longer awaited once a loop has returned has been traced.
LEMMA PopAwaits ==
    ASSUME Sound, stack # <<>>, NEW result, Pop(result), NEW role, Awaited(role)
    PROVE  <<role, "spawn">> \in traced' \/ Awaited(role)'
<1>1. PICK i \in DOMAIN stack : stack[i].role = role /\ stack[i].at = "spawned"
  BY DEF Awaited
<1>2. stack \in Seq(Frame) /\ i \in 1..Len(stack) /\ i < Len(stack)
  BY <1>1 DEF Sound, TypeOK, ChainInChart
<1> DEFINE n == Len(stack) - 1
           base == SubSeq(stack, 1, n)
<1>3. n \in Nat /\ i \in 1..n /\ Len(stack) # 1
  BY <1>2
<1>4. /\ stack' = [base EXCEPT ![n].at = "tools"]
      /\ traced' = traced \union {<<stack[n].role, "spawn">>}
  BY <1>3 DEF Pop
<1>5. Len(base) = n /\ base \in Seq(Frame) /\ base[i] = stack[i]
  BY <1>2, <1>3
<1>6. CASE i = n
  BY <1>1, <1>4, <1>6
<1>7. CASE i # n
  <2> HIDE DEF base, n
  <2>1. i \in DOMAIN stack' /\ stack'[i] = stack[i]
    BY <1>3, <1>4, <1>5, <1>7
  <2> QED
    BY <1>1, <2>1 DEF Awaited
<1> QED
  BY <1>6, <1>7

\* A new child makes its parent's spawn an awaited one.
LEMMA SpawnAwaits ==
    ASSUME Sound, Spawn
    PROVE  \A role : role = Top.role \/ Awaited(role) => Awaited(role)'
<1>1. PICK child \in Roles, left \in Nat :
          stack' = Append(SetTop([Top EXCEPT !.at = "spawned", !.left = left]),
                          NewFrame(child, Matrix[child], Top.depth + 1,
                                   Top.orchCount + 1))
  BY SpawnFacts
<1> DEFINE n == Len(stack)
           top == [Top EXCEPT !.at = "spawned", !.left = left]
           new == NewFrame(child, Matrix[child], Top.depth + 1, Top.orchCount + 1)
<1>2. stack # <<>> /\ Top.at # "spawned"
  BY SpawnPermittedFacts DEF Spawn
<1>3. n \in Nat \ {0} /\ stack \in Seq(Frame) /\ Top \in Frame
  BY <1>2, TopTyped DEF Sound, TypeOK
<1>4. top \in Frame /\ top.role = Top.role /\ top.at = "spawned"
  BY <1>3 DEF Frame
<1> HIDE DEF top, new
<1>5. /\ SetTop(top) \in Seq(Frame) /\ Len(SetTop(top)) = n
      /\ \A i \in 1..n : SetTop(top)[i] = IF i = n THEN top ELSE stack[i]
  BY <1>3, <1>4 DEF SetTop
<1>6. stack' = Append(SetTop(top), new)
  BY <1>1 DEF top, new
<1>7. \A i \in 1..n : i \in DOMAIN stack' /\ stack'[i] = IF i = n THEN top ELSE stack[i]
  BY <1>3, <1>5, <1>6
<1>8. ASSUME NEW role, role = Top.role
      PROVE  Awaited(role)'
  <2>1. n \in 1..n
    BY <1>3
  <2>2. stack'[n].role = role /\ stack'[n].at = "spawned" /\ n \in DOMAIN stack'
    BY <1>4, <1>7, <1>8, <2>1
  <2> QED
    BY <2>2 DEF Awaited
<1>9. ASSUME NEW role, Awaited(role)
      PROVE  Awaited(role)'
  <2>1. PICK i \in DOMAIN stack : stack[i].role = role /\ stack[i].at = "spawned"
    BY <1>9 DEF Awaited
  <2>2. i \in 1..n /\ i # n
    BY <1>2, <1>3, <2>1 DEF Top
  <2> QED
    BY <1>7, <2>1, <2>2 DEF Awaited
<1> QED
  BY <1>8, <1>9

\* What a step makes of an awaited spawn and of a traced call.
LEMMA StepAwaits ==
    ASSUME Sound, Next, NEW role, Awaited(role)
    PROVE  \/ <<role, "spawn">> \in traced'
           \/ outcome' = "threw"
           \/ Awaited(role)'
<1>0. stack # <<>>
  BY DEF Awaited
<1>1. CASE \E result : Pop(result)
  BY <1>0, <1>1, PopAwaits
<1>2. CASE Throw
  BY <1>2 DEF Throw
<1>3. CASE Top.at # "spawned" /\ \E frame : stack' = SetTop(frame)
  BY <1>0, <1>3, SetTopAwaits
<1>4. CASE IterationCap \/ ModelRejects
  BY <1>1, <1>2, <1>4 DEF IterationCap, ModelRejects, Halt
<1>5. CASE Answer
  BY <1>1, <1>2, <1>3, <1>5 DEF Answer, Halt, Active
<1>6. CASE EndTurn
  BY <1>1, <1>3, <1>6 DEF EndTurn, Halt, Active
<1>7. CASE \E tool \in Asked : Blocked(tool) \/ Execute(tool)
  BY <1>2, <1>3, <1>7 DEF Blocked, Execute, TraceCall, Active
<1>8. CASE RefuseSpawn
  BY <1>3, <1>8 DEF RefuseSpawn, SpawnPermitted, TraceCall, Active
<1>9. CASE Spawn
  BY <1>9, SpawnAwaits
<1>10. CASE Over
  BY <1>10 DEF Over, vars, Awaited
<1> QED
  BY <1>4, <1>5, <1>6, <1>7, <1>8, <1>9, <1>10 DEF Next, Step

\* The trace of a run only grows.
LEMMA TracedGrows ==
    ASSUME Next
    PROVE  traced \subseteq traced'
<1>1. ASSUME NEW result, Pop(result)
      PROVE  traced \subseteq traced'
  BY <1>1 DEF Pop
<1>2. CASE IterationCap \/ EndTurn \/ Answer \/ ModelRejects
  BY <1>1, <1>2 DEF IterationCap, EndTurn, Answer, ModelRejects, Halt, Throw
<1>3. CASE \E tool \in Asked : Blocked(tool) \/ Execute(tool)
  BY <1>3 DEF Blocked, Execute, TraceCall, Throw
<1>4. CASE RefuseSpawn \/ Spawn
  BY <1>4 DEF RefuseSpawn, Spawn, TraceCall
<1>5. CASE Over
  BY <1>5 DEF Over, vars
<1> QED
  BY <1>2, <1>3, <1>4, <1>5 DEF Next, Step

\* What a step enters it traces, awaits, or lost to an exception.
LEMMA NewEntryCovered ==
    ASSUME Sound, Next, NEW e \in executed' \ executed
    PROVE  \/ e \in traced'
           \/ outcome' = "threw"
           \/ e[2] = "spawn" /\ Awaited(e[1])'
<1>1. CASE \E tool \in Asked : Execute(tool)
  <2>1. PICK tool \in Asked : Execute(tool)
    BY <1>1
  <2>2. e = <<Top.role, tool>>
    BY <2>1 DEF Execute
  <2> QED
    BY <2>1, <2>2 DEF Execute, TraceCall, Throw
<1>2. CASE RefuseSpawn \/ Spawn
  <2>1. e = <<Top.role, "spawn">>
    BY <1>2, SpawnPermittedFacts DEF RefuseSpawn, Spawn
  <2>2. CASE RefuseSpawn
    BY <2>1, <2>2 DEF RefuseSpawn, TraceCall
  <2>3. CASE Spawn
    <3>1. e[1] = Top.role /\ e[2] = "spawn"
      BY <2>1
    <3> QED
      BY <2>3, <3>1, SpawnAwaits
  <2> QED
    BY <1>2, <2>2, <2>3
<1>3. CASE IterationCap \/ EndTurn \/ Answer \/ ModelRejects
  BY <1>3 DEF IterationCap, EndTurn, Answer, ModelRejects, Halt, Throw
<1>4. CASE Over \/ \E tool \in Asked : Blocked(tool)
  BY <1>4 DEF Over, vars, Blocked
<1> QED
  BY <1>1, <1>2, <1>3, <1>4 DEF Next, Step

\* A run that has an outcome has no loop left.
Ended == outcome # "running" => stack = <<>>

\* Only the loop that leaves the stack empty gives the run its outcome.
LEMMA EndedAlways == Spec => []Ended
<1>1. Init => Ended
  BY DEF Init, Ended
<1>2. Ended /\ [Next]_vars => Ended'
  <2> SUFFICES ASSUME Ended, [Next]_vars
               PROVE  Ended'
    OBVIOUS
  <2>1. CASE UNCHANGED vars \/ Over
    BY <2>1 DEF vars, Over, Ended
  <2>2. ASSUME NEW result, Pop(result), outcome = "running"
        PROVE  Ended'
    BY <2>2 DEF Pop, Ended
  <2>3. CASE Step
    <3>1. stack # <<>>
      BY <2>3 DEF Step, IterationCap, Answer, ModelRejects, EndTurn, Blocked, Execute,
                  RefuseSpawn, Spawn, SpawnPermitted, Active
    <3>2. outcome = "running"
      BY <3>1 DEF Ended
    <3>3. CASE IterationCap \/ EndTurn \/ Answer \/ ModelRejects
      BY <2>2, <3>2, <3>3 DEF IterationCap, EndTurn, Answer, ModelRejects, Halt,
                              Throw, Ended
    <3>4. CASE \E tool \in Asked : Blocked(tool) \/ Execute(tool)
      BY <3>2, <3>4 DEF Blocked, Execute, TraceCall, Throw, Ended
    <3>5. CASE RefuseSpawn \/ Spawn
      BY <3>2, <3>5 DEF RefuseSpawn, Spawn, TraceCall, Ended
    <3> QED
      BY <2>3, <3>3, <3>4, <3>5 DEF Step
  <2> QED
    BY <2>1, <2>3 DEF Next
<1> QED
  BY <1>1, <1>2, PTL DEF Spec

\* Nothing an agent did goes untraced: an entered tool has its event unless its
\* spawn is still awaited or an exception ended the run.
THEOREM EntriesAreTraced == Spec => []ExecutedIsTraced
<1>1. Init => ExecutedIsTraced
  BY DEF Init, ExecutedIsTraced
<1>2. Sound /\ Ended /\ ExecutedIsTraced /\ [Next]_vars => ExecutedIsTraced'
  <2> SUFFICES ASSUME Sound, Ended, ExecutedIsTraced, [Next]_vars
               PROVE  ExecutedIsTraced'
    OBVIOUS
  <2>1. CASE UNCHANGED vars
    BY <2>1 DEF vars, ExecutedIsTraced
  <2>2. CASE Next
    <3>1. ASSUME NEW e \in executed'
          PROVE  \/ e \in traced'
                 \/ outcome' = "threw"
                 \/ e[2] = "spawn" /\ Awaited(e[1])'
      <4>1. CASE e \notin executed
        BY <2>2, <3>1, <4>1, NewEntryCovered
      <4>2. CASE e \in traced
        BY <2>2, <4>2, TracedGrows
      <4>3. CASE outcome = "threw"
        <5>1. stack = <<>>
          BY <4>3 DEF Ended
        <5>2. Over
          BY <2>2, <5>1 DEF Next, Step, IterationCap, Answer, ModelRejects, EndTurn,
                            Blocked, Execute, RefuseSpawn, Spawn, SpawnPermitted, Active
        <5> QED
          BY <4>3, <5>2 DEF Over, vars
      <4>4. CASE e[2] = "spawn" /\ Awaited(e[1])
        <5>1. \/ <<e[1], "spawn">> \in traced'
              \/ outcome' = "threw"
              \/ Awaited(e[1])'
          BY <2>2, <4>4, StepAwaits
        <5>2. e = <<e[1], "spawn">>
          <6>1. e \in Roles \X DOMAIN Tool
            BY <2>2, <3>1, StepSound DEF Sound, TypeOK
          <6> QED
            BY <4>4, <6>1
        <5> QED
          BY <4>4, <5>1, <5>2
      <4> QED
        BY <4>1, <4>2, <4>3, <4>4 DEF ExecutedIsTraced, Awaited
    <3> QED
      BY <3>1 DEF ExecutedIsTraced, Awaited
  <2> QED
    BY <2>1, <2>2
<1> QED
  BY <1>1, <1>2, SoundAlways, EndedAlways, PTL DEF Spec

----------------------------------------------------------------------------
(* The budget *)

\* The weight of the loop at a place of the path, if there is one.
Weighed(s, i) == IF i \in DOMAIN s THEN Weight(s[i]) ELSE 0

\* Every loop weighs something.
LEMMA WeightTyped == \A frame \in Frame : Weight(frame) \in Nat /\ Weight(frame) > 0
BY DEF Weight, Frame

\* What a place of the path weighs is a number, and nothing past its end.
LEMMA Weights ==
    ASSUME NEW s \in Seq(Frame)
    PROVE  /\ \A i \in DOMAIN s : Weighed(s, i) \in Nat /\ Weighed(s, i) > 0
           /\ \A i : i \notin DOMAIN s => Weighed(s, i) = 0
<1>1. \A i \in DOMAIN s : s[i] \in Frame
  OBVIOUS
<1> QED
  BY <1>1, WeightTyped DEF Weighed

\* The sum of the weights of a path, which has at most three loops.
LEMMA RemainingSum ==
    ASSUME NEW s \in Seq(Frame), Len(s) <= 3
    PROVE  Remaining(s) = Weighed(s, 1) + Weighed(s, 2) + Weighed(s, 3)
<1>0. Len(s) \in 0..3 /\ DOMAIN s = 1..Len(s)
  <2>1. Len(s) \in Nat /\ DOMAIN s = 1..Len(s)
    OBVIOUS
  <2> QED
    BY <2>1
<1> DEFINE L == Len(s)
           Sums(f) == f = [n \in 0..L |->
                             IF n = 0 THEN 0 ELSE f[n - 1] + Weight(s[n])]
           F == CHOOSE f : Sums(f)
           W(i) == Weighed(s, i)
           G == [n \in 0..L |-> IF n = 0 THEN 0
                                ELSE IF n = 1 THEN W(1)
                                ELSE IF n = 2 THEN W(1) + W(2)
                                ELSE W(1) + W(2) + W(3)]
<1>1. Remaining(s) = F[L]
  BY DEF Remaining
<1>2. L \in 0..3 /\ DOMAIN s = 1..L
  BY <1>0
<1>3. /\ \A i \in 1..3 : W(i) \in Nat
      /\ \A i \in 1..3 : i > L => W(i) = 0
      /\ \A i \in 1..L : W(i) = Weight(s[i])
  BY <1>2, Weights DEF Weighed
<1> HIDE DEF L, W
<1>4. Sums(G)
  <2>1. ASSUME NEW n \in 0..L
        PROVE  G[n] = IF n = 0 THEN 0 ELSE G[n - 1] + Weight(s[n])
    <3>1. n = 0 \/ n = 1 \/ n = 2 \/ n = 3
      BY <1>2
    <3>2. CASE n = 0
      BY <3>2
    <3>3. CASE n = 1
      <4>1. 0 \in 0..L /\ 1 \in 1..L /\ W(1) = Weight(s[1]) /\ W(1) \in Nat
        BY <1>2, <1>3, <3>3
      <4>2. G[0] = 0 /\ G[1] = W(1)
        BY <2>1, <3>3, <4>1
      <4> QED
        BY <3>3, <4>1, <4>2
    <3>4. CASE n = 2
      <4>1. /\ 1 \in 0..L /\ 2 \in 1..L /\ W(2) = Weight(s[2])
            /\ W(1) \in Nat /\ W(2) \in Nat
        BY <1>2, <1>3, <3>4
      <4>2. G[1] = W(1) /\ G[2] = W(1) + W(2)
        BY <2>1, <3>4, <4>1
      <4> QED
        BY <3>4, <4>1, <4>2
    <3>5. CASE n = 3
      <4>1. /\ 2 \in 0..L /\ 3 \in 1..L /\ W(3) = Weight(s[3])
            /\ W(1) \in Nat /\ W(2) \in Nat /\ W(3) \in Nat
        BY <1>2, <1>3, <3>5
      <4>2. G[2] = W(1) + W(2) /\ G[3] = W(1) + W(2) + W(3)
        BY <2>1, <3>5, <4>1
      <4> QED
        BY <3>5, <4>1, <4>2
    <3> QED
      BY <3>1, <3>2, <3>3, <3>4, <3>5
  <2> HIDE DEF G
  <2>2. G = [n \in 0..L |-> G[n]]
    BY DEF G
  <2> QED
    BY <2>1, <2>2
<1> HIDE DEF G
<1>5. Sums(F)
  <2> HIDE DEF Sums
  <2> QED
    BY <1>4
<1> HIDE DEF F
<1>6. \A n \in 0..L : F[n] = IF n = 0 THEN 0 ELSE F[n - 1] + Weight(s[n])
  BY <1>5
<1>7. F[L] = W(1) + W(2) + W(3)
  <2>0. F[0] = 0
    BY <1>2, <1>6
  <2>1. L >= 1 => F[1] = W(1)
    BY <1>2, <1>3, <1>6, <2>0
  <2>2. L >= 2 => F[2] = W(1) + W(2)
    BY <1>2, <1>3, <1>6, <2>1
  <2>3. L >= 3 => F[3] = W(1) + W(2) + W(3)
    BY <1>2, <1>3, <1>6, <2>2
  <2>4. CASE L = 3
    BY <2>3, <2>4
  <2>5. CASE L = 2
    <3>1. W(3) = 0 /\ W(1) \in Nat /\ W(2) \in Nat
      BY <1>3, <2>5
    <3> QED
      BY <2>2, <2>5, <3>1
  <2>6. CASE L = 1
    <3>1. W(2) = 0 /\ W(3) = 0 /\ W(1) \in Nat
      BY <1>3, <2>6
    <3> QED
      BY <2>1, <2>6, <3>1
  <2>7. CASE L = 0
    <3>1. W(1) = 0 /\ W(2) = 0 /\ W(3) = 0
      BY <1>3, <2>7
    <3> QED
      BY <2>0, <2>7, <3>1
  <2> QED
    BY <1>2, <2>4, <2>5, <2>6, <2>7
<1> QED
  BY <1>1, <1>7 DEF W

\* Two paths that differ at two neighbouring places, where the second is lighter.
LEMMA Lighter ==
    ASSUME NEW s \in Seq(Frame), NEW t \in Seq(Frame), Len(s) <= 3, Len(t) <= 3,
           NEW n \in 1..3,
           \A i \in 1..3 : i \notin {n, n + 1} => Weighed(t, i) = Weighed(s, i),
           Weighed(t, n) + Weighed(t, n + 1) < Weighed(s, n) + Weighed(s, n + 1)
    PROVE  Remaining(t) < Remaining(s)
<1>1. /\ Remaining(s) = Weighed(s, 1) + Weighed(s, 2) + Weighed(s, 3)
      /\ Remaining(t) = Weighed(t, 1) + Weighed(t, 2) + Weighed(t, 3)
  BY RemainingSum
<1>2. \A i \in 1..3 : Weighed(s, i) \in Nat /\ Weighed(t, i) \in Nat
  BY Weights
<1>3. /\ Weighed(s, 1) \in Nat /\ Weighed(s, 2) \in Nat /\ Weighed(s, 3) \in Nat
      /\ Weighed(t, 1) \in Nat /\ Weighed(t, 2) \in Nat /\ Weighed(t, 3) \in Nat
  BY <1>2
<1>4. CASE n = 1
  <2>1. Weighed(t, 3) = Weighed(s, 3)
    BY <1>4
  <2>2. Weighed(t, 1) + Weighed(t, 2) < Weighed(s, 1) + Weighed(s, 2)
    BY <1>4
  <2> QED
    BY <1>1, <1>3, <2>1, <2>2
<1>5. CASE n = 2
  <2>1. Weighed(t, 1) = Weighed(s, 1)
    BY <1>5
  <2>2. Weighed(t, 2) + Weighed(t, 3) < Weighed(s, 2) + Weighed(s, 3)
    BY <1>5
  <2> QED
    BY <1>1, <1>3, <2>1, <2>2
<1>6. CASE n = 3
  <2>1. Weighed(t, 1) = Weighed(s, 1) /\ Weighed(t, 2) = Weighed(s, 2)
    BY <1>6
  <2>2. Weighed(t, 4) = 0 /\ Weighed(s, 4) = 0
    <3>1. 4 \notin DOMAIN s /\ 4 \notin DOMAIN t
      OBVIOUS
    <3> QED
      BY <3>1, Weights
  <2>3. Weighed(t, 3) < Weighed(s, 3)
    BY <1>3, <1>6, <2>2
  <2> QED
    BY <1>1, <1>3, <2>1, <2>3
<1> QED
  BY <1>4, <1>5, <1>6

\* The loop on top, the place it has on the path, and the next one.
LEMMA TopWeighed ==
    ASSUME Sound, stack # <<>>
    PROVE  /\ stack \in Seq(Frame) /\ Len(stack) \in 1..3
           /\ DOMAIN stack = 1..Len(stack)
           /\ Top \in Frame
           /\ Weighed(stack, Len(stack)) = Weight(Top)
           /\ Weighed(stack, Len(stack) + 1) = 0
           /\ Len(stack) <= 3
<1>1. /\ stack \in Seq(Frame) /\ Len(stack) \in Nat \ {0}
      /\ Len(stack) \in DOMAIN stack /\ Top \in Frame
  BY TopTyped DEF Sound, TypeOK
<1>2. Len(stack) <= 3
  BY PathDescends DEF NoCircularRouting
<1>3. DOMAIN stack = 1..Len(stack)
  BY <1>1
<1>4. Len(stack) \in 1..3 /\ Len(stack) + 1 \notin DOMAIN stack
  <2> DEFINE n == Len(stack)
  <2>1. n \in Nat /\ n # 0 /\ n <= 3 /\ DOMAIN stack = 1..n
    BY <1>1, <1>2, <1>3
  <2> HIDE DEF n
  <2>2. n \in 1..3 /\ n + 1 \notin DOMAIN stack
    BY <2>1
  <2> QED
    BY <2>2 DEF n
<1> QED
  BY <1>1, <1>2, <1>3, <1>4 DEF Weighed, Top

\* The path as long as it was, with a lighter loop on top.
LEMMA TopLighter ==
    ASSUME Sound, stack # <<>>, NEW frame \in Frame,
           stack' = SetTop(frame), Weight(frame) < Weight(Top)
    PROVE  Remaining(stack') < Remaining(stack)
<1> DEFINE n == Len(stack)
<1>1. /\ stack \in Seq(Frame) /\ n \in 1..3 /\ DOMAIN stack = 1..n
      /\ Weighed(stack, n) = Weight(Top) /\ Weighed(stack, n + 1) = 0
      /\ Len(stack) <= 3
  BY TopWeighed
<1>2. /\ stack' \in Seq(Frame) /\ Len(stack') = n /\ DOMAIN stack' = 1..n
      /\ Len(stack') <= 3
      /\ \A i \in 1..n : stack'[i] = IF i = n THEN frame ELSE stack[i]
  BY <1>1 DEF SetTop
<1> HIDE DEF n
<1>3. /\ \A i \in 1..3 : i \notin {n, n + 1} => Weighed(stack', i) = Weighed(stack, i)
      /\ Weighed(stack', n) = Weight(frame)
      /\ Weighed(stack', n + 1) = 0
  BY <1>1, <1>2 DEF Weighed
<1>4. Weight(frame) \in Nat /\ Weight(Top) \in Nat
  BY TopWeighed, WeightTyped
<1>5. Weighed(stack', n) + Weighed(stack', n + 1)
         < Weighed(stack, n) + Weighed(stack, n + 1)
  BY <1>1, <1>3, <1>4
<1> QED
  BY <1>1, <1>2, <1>3, <1>5, Lighter

\* No path is lighter than the empty one, which a throw and the root's return
\* leave.
LEMMA EmptyLighter ==
    ASSUME Sound, stack # <<>>, stack' = <<>>
    PROVE  Remaining(stack') < Remaining(stack)
<1>1. /\ stack \in Seq(Frame) /\ Len(stack) \in 1..3 /\ DOMAIN stack = 1..Len(stack)
  BY TopWeighed
<1>2. /\ <<>> \in Seq(Frame) /\ Len(<<>>) <= 3 /\ Len(stack) <= 3
      /\ 1 \in DOMAIN stack /\ 1 \notin DOMAIN <<>>
      /\ 2 \notin DOMAIN <<>> /\ 3 \notin DOMAIN <<>>
  BY <1>1
<1>3. Remaining(<<>>) = Weighed(<<>>, 1) + Weighed(<<>>, 2) + Weighed(<<>>, 3)
  BY <1>2, RemainingSum
<1>4. Weighed(<<>>, 1) = 0 /\ Weighed(<<>>, 2) = 0 /\ Weighed(<<>>, 3) = 0
  BY <1>2, Weights
<1>5. Remaining(stack) = Weighed(stack, 1) + Weighed(stack, 2) + Weighed(stack, 3)
  BY <1>1, <1>2, RemainingSum
<1>6. /\ Weighed(stack, 1) \in Nat /\ Weighed(stack, 2) \in Nat
      /\ Weighed(stack, 3) \in Nat /\ Weighed(stack, 1) > 0
  BY <1>1, <1>2, Weights
<1> QED
  BY <1>3, <1>4, <1>5, <1>6

\* A loop that returns takes its weight off the path: its parent waited for it
\* with the calls it still has.
LEMMA PopLighter ==
    ASSUME Sound, stack # <<>>, NEW result, Pop(result)
    PROVE  Remaining(stack') < Remaining(stack)
<1>1. CASE Len(stack) = 1
  <2>1. stack' = <<>>
    BY <1>1 DEF Pop
  <2> QED
    BY <2>1, EmptyLighter
<1>2. CASE Len(stack) # 1
  <2> DEFINE n == Len(stack) - 1
             base == SubSeq(stack, 1, n)
             back == [stack[n] EXCEPT !.at = "tools"]
  <2>1. /\ stack \in Seq(Frame) /\ n \in 1..2 /\ Len(stack) = n + 1
        /\ DOMAIN stack = 1..(n + 1)
    BY <1>2, TopWeighed
  <2>2. stack' = [base EXCEPT ![n].at = "tools"]
    BY <1>2 DEF Pop
  <2>3. base \in Seq(Frame) /\ Len(base) = n
        /\ \A i \in 1..n : base[i] = stack[i] /\ stack[i] \in Frame
    BY <2>1
  <2>4. stack[n].at = "spawned"
    BY <2>1 DEF Sound, ChainInChart
  <2> HIDE DEF n, base
  <2>5. n \in 1..n /\ stack[n] \in Frame
    BY <2>1, <2>3
  <2>6. back \in Frame /\ Weight(back) = Weight(stack[n]) /\ Weight(back) \in Nat
    BY <2>4, <2>5 DEF Frame, Weight
  <2>7. stack' = [base EXCEPT ![n] = back]
    BY <2>2, <2>3, <2>5
  <2> HIDE DEF back
  <2>8. /\ stack' \in Seq(Frame) /\ Len(stack') = n /\ DOMAIN stack' = 1..n
        /\ \A i \in 1..n : stack'[i] = IF i = n THEN back ELSE stack[i]
    BY <2>1, <2>3, <2>5, <2>6, <2>7
  <2>9. /\ \A i \in 1..3 : i \notin {n, n + 1} => Weighed(stack', i) = Weighed(stack, i)
        /\ Weighed(stack', n) = Weight(back) /\ Weighed(stack, n) = Weight(back)
        /\ Weighed(stack', n + 1) = 0
    BY <2>1, <2>6, <2>8 DEF Weighed
  <2>10. Weighed(stack, n + 1) \in Nat /\ Weighed(stack, n + 1) > 0
    <3>1. n + 1 \in DOMAIN stack
      BY <2>1
    <3> QED
      BY <2>1, <3>1, Weights
  <2>11. /\ Weighed(stack', n) + Weighed(stack', n + 1)
              < Weighed(stack, n) + Weighed(stack, n + 1)
         /\ n \in 1..3 /\ Len(stack) <= 3 /\ Len(stack') <= 3
    BY <2>1, <2>6, <2>8, <2>9, <2>10
  <2> QED
    BY <2>1, <2>8, <2>9, <2>11, Lighter
<1> QED
  BY <1>1, <1>2

\* A spawned agent weighs less than the call it is spawned for.
LEMMA SpawnLighter ==
    ASSUME Sound, Spawn
    PROVE  Remaining(stack') < Remaining(stack)
<1>1. PICK child \in Summoned :
          /\ SpawnPermitted
          /\ ~Refused(child)
          /\ stack' = Append(SetTop([Top EXCEPT !.at = "spawned", !.left = @ - 1]),
                             ChildFrame(child))
  BY DEF Spawn
<1> DEFINE n == Len(stack)
           top == [Top EXCEPT !.at = "spawned", !.left = @ - 1]
           new == ChildFrame(child)
           base == SetTop(top)
<1>2. stack # <<>> /\ Top.at = "tools" /\ Top.left > 0
  BY <1>1, SpawnPermittedFacts
<1>3. /\ stack \in Seq(Frame) /\ n \in 1..3 /\ DOMAIN stack = 1..n /\ Top \in Frame
      /\ Weighed(stack, n) = Weight(Top) /\ Weighed(stack, n + 1) = 0
      /\ Len(stack) <= 3
  BY <1>2, TopWeighed
<1>4. /\ top \in Frame /\ Weight(Top) \in Nat /\ Weight(top) \in Nat
      /\ Weight(top) + 2 = Weight(Top)
  <2>1. Top.left \in Nat \ {0}
    BY <1>2, <1>3 DEF Frame
  <2>2. Top.left - 1 \in Nat
    BY <2>1
  <2>3. top \in Frame /\ top.at = "spawned" /\ top.left = Top.left - 1
    BY <1>3, <2>2 DEF Frame
  <2> HIDE DEF top
  <2> QED
    BY <1>2, <2>1, <2>3 DEF Weight
<1>5. new.at = "model" /\ Weight(new) = 1
  BY DEF ChildFrame, NewFrame, Weight
<1>6. Sound'
  BY SpawnKeepsSound
<1>7. stack' \in Seq(Frame) /\ Len(stack') <= 3
  <2>1. (Sound => NoCircularRouting)'
    BY PathDescends, PTL
  <2> QED
    BY <1>6, <2>1 DEF Sound, TypeOK, NoCircularRouting
<1>8. /\ base \in Seq(Frame) /\ Len(base) = n
      /\ \A i \in 1..n : base[i] = IF i = n THEN top ELSE stack[i]
  BY <1>3, <1>4 DEF SetTop
<1>9. stack' = Append(base, new)
  BY <1>1
<1> HIDE DEF n, top, new, base
<1>10. /\ Len(stack') = n + 1 /\ DOMAIN stack' = 1..(n + 1)
       /\ stack'[n + 1] = new
       /\ \A i \in 1..n : stack'[i] = IF i = n THEN top ELSE stack[i]
  BY <1>3, <1>8, <1>9
<1>11. /\ \A i \in 1..3 : i \notin {n, n + 1} => Weighed(stack', i) = Weighed(stack, i)
       /\ Weighed(stack', n) = Weight(top)
       /\ Weighed(stack', n + 1) = Weight(new)
  BY <1>3, <1>10 DEF Weighed
<1>12. Weighed(stack', n) + Weighed(stack', n + 1)
          < Weighed(stack, n) + Weighed(stack, n + 1)
  BY <1>3, <1>4, <1>5, <1>11
<1> QED
  BY <1>3, <1>7, <1>11, <1>12, Lighter

\* A call that is over takes its two steps off the top loop.
LEMMA CallLighter ==
    ASSUME Sound, stack # <<>>, Top.at = "tools", Top.left > 0,
           stack' = SetTop([Top EXCEPT !.left = @ - 1])
    PROVE  Remaining(stack') < Remaining(stack)
<1> DEFINE frame == [Top EXCEPT !.left = @ - 1]
<1>1. Top \in Frame /\ Top.left \in Nat /\ Top.left - 1 \in Nat
  <2>1. Top \in Frame
    BY TopWeighed
  <2>2. Top.left \in Nat
    BY <2>1 DEF Frame
  <2> QED
    BY <2>1, <2>2
<1>2. frame \in Frame /\ frame.at = "tools" /\ frame.left = Top.left - 1
  BY <1>1 DEF Frame
<1>3. stack' = SetTop(frame)
  OBVIOUS
<1> HIDE DEF frame
<1>4. Weight(frame) < Weight(Top)
  BY <1>1, <1>2 DEF Weight
<1> QED
  BY <1>2, <1>3, <1>4, TopLighter

\* Past the hard stop, an answer ends the loop that asked for it.
LEMMA AnswerLighter ==
    ASSUME Sound, treeSpend >= HardStop, Answer
    PROVE  Remaining(stack') < Remaining(stack)
<1>1. stack # <<>>
  BY DEF Answer, Active
<1>2. PICK cost \in Costs : treeSpend' = treeSpend + cost
  BY DEF Answer
<1>3. cost \in Nat /\ treeSpend \in Nat /\ HardStop \in Nat
  BY LimitsAssumption DEF Sound, TypeOK
<1>4. OverBudget(treeSpend')
  BY <1>2, <1>3 DEF OverBudget
<1>5. Pop("terminated_budget")
  BY <1>4 DEF Answer, Halt
<1> QED
  BY <1>1, <1>5, PopLighter

\* A loop whose calls are done stops, or has its next answer left.
LEMMA EndTurnLighter ==
    ASSUME Sound, EndTurn
    PROVE  Remaining(stack') < Remaining(stack)
<1>1. stack # <<>> /\ Top.at = "tools" /\ Top.left = 0
  BY DEF EndTurn, Active
<1>2. CASE Halt("terminated_loop_detected")
  <2>1. Pop("terminated_loop_detected")
    BY <1>2 DEF Halt
  <2> QED
    BY <1>1, <2>1, PopLighter
<1>3. CASE stack' = SetTop([Top EXCEPT !.at = "model", !.iteration = @ + 1])
  <2> DEFINE frame == [Top EXCEPT !.at = "model", !.iteration = @ + 1]
  <2>1. Top \in Frame /\ Len(stack) \in DOMAIN stack
    BY <1>1, TopTyped DEF Sound
  <2>2. Top.iteration < MaxIterations
    BY <1>1, <2>1 DEF Sound, InTurn, Top
  <2>3. Top.iteration + 1 \in 0..MaxIterations
    BY <2>1, <2>2, LimitsAssumption DEF Frame
  <2>4. frame \in Frame /\ frame.at = "model"
    BY <2>1, <2>3 DEF Frame
  <2>5. stack' = SetTop(frame)
    BY <1>3
  <2> HIDE DEF frame
  <2>6. Weight(frame) < Weight(Top)
    BY <1>1, <2>4 DEF Weight
  <2> QED
    BY <1>1, <2>4, <2>5, <2>6, TopLighter
<1> QED
  BY <1>2, <1>3 DEF EndTurn

\* What BudgetWindsDown asks of a step.
WindsDown == treeSpend >= HardStop => Remaining(stack') < Remaining(stack)

\* Every step past the hard stop takes weight off the path.
LEMMA StepWindsDown == Sound /\ [Next]_vars => [WindsDown]_vars
<1> SUFFICES ASSUME Sound, Step, treeSpend >= HardStop
             PROVE  Remaining(stack') < Remaining(stack)
  BY DEF Next, Over, WindsDown, vars
<1>1. CASE IterationCap
  <2>1. stack # <<>> /\ Pop("terminated_iteration_cap")
    BY <1>1 DEF IterationCap, Active, Halt
  <2> QED
    BY <2>1, PopLighter
<1>2. CASE Answer
  BY <1>2, AnswerLighter
<1>3. CASE ModelRejects
  <2>1. stack # <<>> /\ stack' = <<>>
    BY <1>3 DEF ModelRejects, Active, Throw
  <2> QED
    BY <2>1, EmptyLighter
<1>4. CASE EndTurn
  BY <1>4, EndTurnLighter
<1>5. CASE \E tool \in Asked : Blocked(tool)
  <2>1. /\ stack # <<>> /\ Top.at = "tools" /\ Top.left > 0
        /\ stack' = SetTop([Top EXCEPT !.left = @ - 1])
    BY <1>5 DEF Blocked, Active
  <2> QED
    BY <2>1, CallLighter
<1>6. CASE \E tool \in Asked : Execute(tool)
  <2>1. /\ stack # <<>> /\ Top.at = "tools" /\ Top.left > 0
        /\ \/ stack' = SetTop([Top EXCEPT !.left = @ - 1])
           \/ stack' = <<>>
    BY <1>6 DEF Execute, Active, TraceCall, Throw
  <2> QED
    BY <2>1, CallLighter, EmptyLighter
<1>7. CASE RefuseSpawn
  <2>1. stack' = SetTop([Top EXCEPT !.left = @ - 1])
    BY <1>7 DEF RefuseSpawn, TraceCall
  <2>2. stack # <<>> /\ Top.at = "tools" /\ Top.left > 0
    BY <1>7, SpawnPermittedFacts DEF RefuseSpawn
  <2> QED
    BY <2>1, <2>2, CallLighter
<1>8. CASE Spawn
  BY <1>8, SpawnLighter
<1> QED
  BY <1>1, <1>2, <1>3, <1>4, <1>5, <1>6, <1>7, <1>8 DEF Step

\* Once the tree has spent its budget, every step of any of its agents takes the
\* run closer to its end (the budget check of runLoop, shared by the tree): no
\* loop begins another turn of tools.
THEOREM SpentRunsWindDown == Spec => BudgetWindsDown
<1>1. BudgetWindsDown <=> [][WindsDown]_vars
  BY DEF BudgetWindsDown, WindsDown
<1> QED
  BY <1>1, SoundAlways, StepWindsDown, PTL DEF Spec

----------------------------------------------------------------------------
(* Progress *)

\* The loop on top is further on.
LEMMA TopAdvances ==
    ASSUME Sound, stack # <<>>, NEW frame \in Frame,
           stack' = SetTop(frame), FurtherOn(frame, Top)
    PROVE  Advances(stack, stack')
<1> DEFINE n == Len(stack)
<1>1. stack \in Seq(Frame) /\ n \in 1..3 /\ DOMAIN stack = 1..n /\ Top = stack[n]
  BY TopWeighed DEF Top
<1>2. /\ DOMAIN stack' = 1..n
      /\ \A i \in 1..n : stack'[i] = IF i = n THEN frame ELSE stack[i]
  BY <1>1 DEF SetTop
<1> HIDE DEF n
<1>3. n \in 1..n /\ \A j \in 1..(n - 1) : j \in 1..n /\ j # n
  BY <1>1
<1>4. stack'[n] = frame /\ \A j \in 1..(n - 1) : stack'[j] = stack[j]
  BY <1>2, <1>3
<1> QED
  BY <1>1, <1>2, <1>3, <1>4 DEF Advances

\* A loop that returns lets its parent go on.
LEMMA PopAdvances ==
    ASSUME Sound, stack # <<>>, NEW result, Pop(result)
    PROVE  stack' = <<>> \/ Advances(stack, stack')
<1>1. CASE Len(stack) = 1
  BY <1>1 DEF Pop
<1>2. CASE Len(stack) # 1
  <2> DEFINE n == Len(stack) - 1
             base == SubSeq(stack, 1, n)
             back == [stack[n] EXCEPT !.at = "tools"]
  <2>1. /\ stack \in Seq(Frame) /\ n \in 1..2 /\ Len(stack) = n + 1
        /\ DOMAIN stack = 1..(n + 1)
    BY <1>2, TopWeighed
  <2>2. stack' = [base EXCEPT ![n].at = "tools"]
    BY <1>2 DEF Pop
  <2>3. base \in Seq(Frame) /\ Len(base) = n
        /\ \A i \in 1..n : base[i] = stack[i] /\ stack[i] \in Frame
    BY <2>1
  <2>4. stack[n].at = "spawned"
    BY <2>1 DEF Sound, ChainInChart
  <2> HIDE DEF n, base
  <2>5. n \in 1..n /\ stack[n] \in Frame
    BY <2>1, <2>3
  <2>6. back \in Frame /\ FurtherOn(back, stack[n])
    BY <2>4, <2>5 DEF Frame, FurtherOn
  <2>7. stack' = [base EXCEPT ![n] = back]
    BY <2>2, <2>3, <2>5
  <2> HIDE DEF back
  <2>8. /\ DOMAIN stack' = 1..n
        /\ \A i \in 1..n : stack'[i] = IF i = n THEN back ELSE stack[i]
    BY <2>1, <2>3, <2>5, <2>6, <2>7
  <2>9. n \in 1..(n + 1) /\ \A j \in 1..(n - 1) : j \in 1..n /\ j # n
    BY <2>1
  <2>10. stack'[n] = back /\ \A j \in 1..(n - 1) : stack'[j] = stack[j]
    BY <2>5, <2>8, <2>9
  <2> QED
    BY <2>1, <2>5, <2>6, <2>8, <2>9, <2>10 DEF Advances
<1> QED
  BY <1>1, <1>2

\* A loop that spawns has used up the call.
LEMMA SpawnAdvances ==
    ASSUME Sound, Spawn
    PROVE  Advances(stack, stack')
<1>1. PICK child \in Summoned :
          /\ SpawnPermitted
          /\ ~Refused(child)
          /\ stack' = Append(SetTop([Top EXCEPT !.at = "spawned", !.left = @ - 1]),
                             ChildFrame(child))
  BY DEF Spawn
<1> DEFINE n == Len(stack)
           top == [Top EXCEPT !.at = "spawned", !.left = @ - 1]
           new == ChildFrame(child)
           base == SetTop(top)
<1>2. stack # <<>> /\ Top.at = "tools" /\ Top.left > 0
  BY <1>1, SpawnPermittedFacts
<1>3. /\ stack \in Seq(Frame) /\ n \in 1..3 /\ DOMAIN stack = 1..n /\ Top \in Frame
      /\ Top = stack[n]
  BY <1>2, TopWeighed DEF Top
<1>4. top \in Frame /\ FurtherOn(top, Top)
  <2>1. Top.left \in Nat \ {0}
    BY <1>2, <1>3 DEF Frame
  <2>2. Top.left - 1 \in Nat
    BY <2>1
  <2>3. /\ top \in Frame /\ top.at = "spawned" /\ top.left = Top.left - 1
        /\ top.iteration = Top.iteration
    BY <1>3, <2>2 DEF Frame
  <2> HIDE DEF top
  <2> QED
    BY <1>2, <2>1, <2>3 DEF FurtherOn
<1>5. /\ base \in Seq(Frame) /\ Len(base) = n
      /\ \A i \in 1..n : base[i] = IF i = n THEN top ELSE stack[i]
  BY <1>3, <1>4 DEF SetTop
<1>6. stack' = Append(base, new)
  BY <1>1
<1> HIDE DEF n, top, new, base
<1>7. /\ DOMAIN stack' = 1..(n + 1)
      /\ \A i \in 1..n : stack'[i] = IF i = n THEN top ELSE stack[i]
  BY <1>3, <1>5, <1>6
<1>8. /\ n \in 1..n /\ n \in 1..(n + 1)
      /\ \A j \in 1..(n - 1) : j \in 1..n /\ j # n
  BY <1>3
<1>9. stack'[n] = top /\ \A j \in 1..(n - 1) : stack'[j] = stack[j]
  BY <1>7, <1>8
<1> QED
  BY <1>3, <1>4, <1>7, <1>8, <1>9 DEF Advances

\* A call that is over.
LEMMA CallAdvances ==
    ASSUME Sound, stack # <<>>, Top.at = "tools", Top.left > 0,
           stack' = SetTop([Top EXCEPT !.left = @ - 1])
    PROVE  Advances(stack, stack')
<1> DEFINE frame == [Top EXCEPT !.left = @ - 1]
<1>1. Top \in Frame /\ Top.left \in Nat /\ Top.left - 1 \in Nat
  <2>1. Top \in Frame
    BY TopWeighed
  <2>2. Top.left \in Nat
    BY <2>1 DEF Frame
  <2> QED
    BY <2>1, <2>2
<1>2. /\ frame \in Frame /\ frame.at = "tools" /\ frame.left = Top.left - 1
      /\ frame.iteration = Top.iteration
  BY <1>1 DEF Frame
<1>3. stack' = SetTop(frame)
  OBVIOUS
<1> HIDE DEF frame
<1>4. FurtherOn(frame, Top)
  BY <1>1, <1>2 DEF FurtherOn
<1> QED
  BY <1>2, <1>3, <1>4, TopAdvances

\* What LoopsAdvance asks of a step.
GoesOn == \/ stack # <<>> /\ stack' = <<>>
          \/ Advances(stack, stack')

\* An answer ends the loop, or gives it calls to make.
LEMMA AnswerAdvances ==
    ASSUME Sound, Answer
    PROVE  GoesOn
<1>1. stack # <<>> /\ Top.at = "model"
  BY DEF Answer, Active
<1>2. Top \in Frame
  BY <1>1, TopWeighed
<1>3. CASE \E result : Pop(result)
  BY <1>1, <1>3, PopAdvances DEF GoesOn
<1>4. CASE \E n \in 0..MaxBlocks :
               stack' = SetTop([Top EXCEPT !.at = "tools", !.left = n])
  <2>1. PICK n \in 0..MaxBlocks :
            stack' = SetTop([Top EXCEPT !.at = "tools", !.left = n])
    BY <1>4
  <2> DEFINE frame == [Top EXCEPT !.at = "tools", !.left = n]
  <2>2. n \in Nat
    BY LimitsAssumption
  <2>3. /\ frame \in Frame /\ frame.at = "tools"
        /\ frame.iteration = Top.iteration
    BY <1>2, <2>2 DEF Frame
  <2>4. stack' = SetTop(frame)
    BY <2>1
  <2> HIDE DEF frame
  <2>5. FurtherOn(frame, Top)
    BY <1>1, <2>3 DEF FurtherOn
  <2> QED
    BY <1>1, <2>3, <2>4, <2>5, TopAdvances DEF GoesOn
<1>5. CASE stack' = <<>>
  BY <1>1, <1>5 DEF GoesOn
<1> QED
  BY <1>3, <1>4, <1>5 DEF Answer, Halt, Throw

\* A loop whose calls are done stops, or begins its next turn.
LEMMA EndTurnAdvances ==
    ASSUME Sound, EndTurn
    PROVE  GoesOn
<1>1. stack # <<>> /\ Top.at = "tools" /\ Top.left = 0
  BY DEF EndTurn, Active
<1>2. CASE Halt("terminated_loop_detected")
  <2>1. Pop("terminated_loop_detected")
    BY <1>2 DEF Halt
  <2> QED
    BY <1>1, <2>1, PopAdvances DEF GoesOn
<1>3. CASE stack' = SetTop([Top EXCEPT !.at = "model", !.iteration = @ + 1])
  <2> DEFINE frame == [Top EXCEPT !.at = "model", !.iteration = @ + 1]
  <2>1. Top \in Frame /\ Len(stack) \in DOMAIN stack
    BY <1>1, TopTyped DEF Sound
  <2>2. Top.iteration < MaxIterations
    BY <1>1, <2>1 DEF Sound, InTurn, Top
  <2>3. Top.iteration \in Nat /\ Top.iteration + 1 \in 0..MaxIterations
    BY <2>1, <2>2, LimitsAssumption DEF Frame
  <2>4. frame \in Frame /\ frame.iteration = Top.iteration + 1
    BY <2>1, <2>3 DEF Frame
  <2>5. stack' = SetTop(frame)
    BY <1>3
  <2> HIDE DEF frame
  <2>6. FurtherOn(frame, Top)
    BY <2>3, <2>4 DEF FurtherOn
  <2> QED
    BY <1>1, <2>4, <2>5, <2>6, TopAdvances DEF GoesOn
<1> QED
  BY <1>2, <1>3 DEF EndTurn

\* Every step of a loop goes on.
LEMMA StepGoesOn == Sound /\ [Next]_vars => [GoesOn]_vars
<1> SUFFICES ASSUME Sound, Step
             PROVE  GoesOn
  BY DEF Next, Over, vars
<1>1. CASE IterationCap
  <2>1. stack # <<>> /\ Pop("terminated_iteration_cap")
    BY <1>1 DEF IterationCap, Active, Halt
  <2> QED
    BY <2>1, PopAdvances DEF GoesOn
<1>2. CASE Answer
  BY <1>2, AnswerAdvances
<1>3. CASE ModelRejects
  BY <1>3 DEF ModelRejects, Active, Throw, GoesOn
<1>4. CASE EndTurn
  BY <1>4, EndTurnAdvances
<1>5. CASE \E tool \in Asked : Blocked(tool)
  <2>1. /\ stack # <<>> /\ Top.at = "tools" /\ Top.left > 0
        /\ stack' = SetTop([Top EXCEPT !.left = @ - 1])
    BY <1>5 DEF Blocked, Active
  <2> QED
    BY <2>1, CallAdvances DEF GoesOn
<1>6. CASE \E tool \in Asked : Execute(tool)
  <2>1. /\ stack # <<>> /\ Top.at = "tools" /\ Top.left > 0
        /\ \/ stack' = SetTop([Top EXCEPT !.left = @ - 1])
           \/ stack' = <<>>
    BY <1>6 DEF Execute, Active, TraceCall, Throw
  <2> QED
    BY <2>1, CallAdvances DEF GoesOn
<1>7. CASE RefuseSpawn
  <2>1. stack' = SetTop([Top EXCEPT !.left = @ - 1])
    BY <1>7 DEF RefuseSpawn, TraceCall
  <2>2. stack # <<>> /\ Top.at = "tools" /\ Top.left > 0
    BY <1>7, SpawnPermittedFacts DEF RefuseSpawn
  <2> QED
    BY <2>1, <2>2, CallAdvances DEF GoesOn
<1>8. CASE Spawn
  BY <1>8, SpawnAdvances DEF GoesOn
<1> QED
  BY <1>1, <1>2, <1>3, <1>4, <1>5, <1>6, <1>7, <1>8 DEF Step

\* Every step of a run ends it or brings a loop further on, at no cost to the
\* loops waiting for it (runLoop's counters and the awaited spawn): what makes
\* the turns of a tree finite, as the turns are capped and the path has at most
\* three loops.
THEOREM EveryStepAdvances == Spec => LoopsAdvance
<1>1. LoopsAdvance <=> [][GoesOn]_vars
  BY DEF LoopsAdvance, GoesOn
<1> QED
  BY <1>1, SoundAlways, StepGoesOn, PTL DEF Spec

=============================================================================
