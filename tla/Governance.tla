----------------------------- MODULE Governance -----------------------------
(***************************************************************************)
(* Who may do what: the grant matrix, the org chart, the gate and the      *)
(* grant of a spawned agent (runtime/src/gate, runtime/src/tools).  All of *)
(* it is pure data and pure functions.                                     *)
(*                                                                         *)
(* A grant is a total function here; "none" stands for a capability absent *)
(* from the source's partial record.                                       *)
(***************************************************************************)
EXTENDS Integers

Tiers == {"T0", "T1", "T2", "T3"}

Capabilities == {"MDL", "R", "W", "DEL", "SH", "NETr", "NETw", "CONr", "CONw",
                 "SEC", "DEP", "SPEND", "COMM", "SPAWN", "PLAN", "HO"}

Grant == [Capabilities -> Tiers \union {"none"}]

TierRank == [T0 |-> 0, T3 |-> 1, T2 |-> 2, T1 |-> 3]

StricterTier(a, b) == IF TierRank[a] >= TierRank[b] THEN a ELSE b

----------------------------------------------------------------------------
(* The org chart and the grant matrix. *)

Dispatchers == {"central-orchestrator", "research-coordinator",
                "build-coordinator", "operate-coordinator",
                "distribution-coordinator", "learning-coordinator"}

Specialists ==
    {"research-analyst", "market-intelligence", "idea-generator",
     "knowledge-librarian", "architect", "ux-designer", "code-developer",
     "qa-testing", "truth-agent", "devops", "data-pipeline", "security",
     "performance-optimization", "marketing-strategy", "content-creation",
     "sales-enablement", "community-manager", "analytics", "customer-insight",
     "experimentation", "strategy-advisor", "distribution-packager"}

Roles == Dispatchers \union Specialists

\* <<spawner, child>>: whom each dispatcher may route to.
Routing ==
    ({"central-orchestrator"} \X
        {"research-coordinator", "build-coordinator", "operate-coordinator",
         "distribution-coordinator", "learning-coordinator",
         "distribution-packager"})
    \union ({"research-coordinator"} \X
        {"research-analyst", "market-intelligence", "idea-generator",
         "knowledge-librarian"})
    \union ({"build-coordinator"} \X
        {"architect", "ux-designer", "code-developer", "qa-testing", "truth-agent"})
    \union ({"operate-coordinator"} \X
        {"devops", "data-pipeline", "security", "performance-optimization"})
    \union ({"distribution-coordinator"} \X
        {"marketing-strategy", "content-creation", "sales-enablement",
         "community-manager"})
    \union ({"learning-coordinator"} \X
        {"analytics", "customer-insight", "experimentation", "strategy-advisor"})

IsDispatcher(role) == role \in Dispatchers
MayRoute(spawner, child) == <<spawner, child>> \in Routing

\* <<role, capability>> by the tier it is granted at.
HandsOffAt2 == Dispatchers \union {"analytics", "customer-insight",
                                   "experimentation", "strategy-advisor"}

GrantedAt3 == ((Specialists \ {"qa-testing"}) \X {"W"})
              \union ((Roles \ HandsOffAt2) \X {"HO"})

GrantedAt2 ==
    (HandsOffAt2 \X {"HO"})
    \union (Dispatchers \X {"SPAWN"})
    \union ({"research-analyst", "market-intelligence", "knowledge-librarian",
             "architect", "ux-designer", "marketing-strategy", "content-creation",
             "sales-enablement", "customer-insight", "code-developer", "devops",
             "data-pipeline", "security", "performance-optimization",
             "community-manager"} \X {"NETr"})
    \union ({"code-developer", "qa-testing", "devops", "data-pipeline", "security",
             "performance-optimization", "distribution-packager"} \X {"SH"})
    \union ({"code-developer", "devops", "data-pipeline"} \X {"DEL"})
    \union ({"devops", "data-pipeline", "community-manager"} \X {"NETw"})
    \union ({"devops", "data-pipeline", "security", "performance-optimization",
             "community-manager", "analytics", "experimentation"} \X {"CONr"})
    \union ({"data-pipeline"} \X {"SEC", "DEP"})
    \union ({"data-pipeline", "performance-optimization"} \X {"SPEND"})

GrantedAt1 ==
    ({"devops"} \X {"CONw", "SEC", "DEP", "SPEND"})
    \union ({"data-pipeline"} \X {"CONw"})
    \union ({"security"} \X {"SEC"})
    \union ({"community-manager"} \X {"CONw", "COMM"})

TierOf(role, cap) ==
    IF cap \in {"MDL", "R", "PLAN"} THEN "T0"
    ELSE IF <<role, cap>> \in GrantedAt3 THEN "T3"
    ELSE IF <<role, cap>> \in GrantedAt2 THEN "T2"
    ELSE IF <<role, cap>> \in GrantedAt1 THEN "T1"
    ELSE "none"

Matrix == [r \in Roles |-> [c \in Capabilities |-> TierOf(r, c)]]

----------------------------------------------------------------------------
(* The tools: the capability each one needs and the tier of its action. *)

Tool == [set_plan       |-> [cap |-> "PLAN",  tier |-> "T0"],
         write_file     |-> [cap |-> "W",     tier |-> "T3"],
         shell          |-> [cap |-> "SH",    tier |-> "T2"],
         spawn          |-> [cap |-> "SPAWN", tier |-> "T2"],
         web_fetch      |-> [cap |-> "NETr",  tier |-> "T2"],
         calendar_read  |-> [cap |-> "CONr",  tier |-> "T2"],
         calendar_write |-> [cap |-> "CONw",  tier |-> "T1"],
         gmail_send     |-> [cap |-> "COMM",  tier |-> "T1"],
         drive_read     |-> [cap |-> "CONr",  tier |-> "T2"],
         sheets_read    |-> [cap |-> "CONr",  tier |-> "T2"]]

ToolsForRole(role) == {t \in DOMAIN Tool : Matrix[role][Tool[t].cap] # "none"}

----------------------------------------------------------------------------
(* The gate.  A target is a resolved path, or "*" where there is none; it  *)
(* is the second half of an approval key.                                  *)

PathBearing(cap) == cap \in {"W", "DEL", "R"}

\* standing: capabilities the operator enabled; perAction: <<cap, target>>.
Approved(approvals, cap, target) ==
    cap \in approvals.standing /\ <<cap, target>> \in approvals.perAction

\* Mutation: the person's approval is not asked for.
GateUnapproved_Mut(cap, tier, target, grant, approvals) ==
    IF grant[cap] = "none" THEN "blocked_scope" ELSE "permit"

Gate(cap, tier, target, grant, approvals) ==
    IF grant[cap] = "none" THEN "blocked_scope"
    ELSE LET effective == StricterTier(tier, grant[cap])
         IN  CASE effective \in {"T0", "T3"} -> "permit"
               [] effective = "T2" ->
                     IF target = "*" /\ PathBearing(cap) THEN "blocked_with_path"
                     ELSE "permit"
               [] effective = "T1" ->
                     IF Approved(approvals, cap, target) THEN "permit"
                     ELSE "blocked_hard"

----------------------------------------------------------------------------
(* The grant of a spawned agent. *)

IntersectGrants(parent, requested) ==
    [c \in Capabilities |->
        IF parent[c] = "none" \/ requested[c] = "none" THEN "none"
        ELSE StricterTier(parent[c], requested[c])]

\* A dispatcher confers the child's own row; anyone else only what it holds.
ChildGrant(spawner, spawnerGrant, child) ==
    IF IsDispatcher(spawner) THEN Matrix[child]
    ELSE IntersectGrants(spawnerGrant, Matrix[child])

=============================================================================
