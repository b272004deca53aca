--------------------------- MODULE MemberProperties ---------------------------
(***************************************************************************)
(* What the tables of the workspaces promise, whoever is in a hurry.       *)
(***************************************************************************)
EXTENDS Members

\* Types of the rows and of the requests.
TypeOK ==
    /\ profile \in [Users -> [exists : BOOLEAN, onboarded : BOOLEAN,
                              home : Workspaces \union {NoId}]]
    /\ workspace \in [Workspaces -> [slug : Slugs \union {None}, by : Users \union {None}]]
    /\ member \in [Workspaces -> [Users -> [role : Roles \union {None},
                                            via : Invites \union {NoId}]]]
    /\ invite \in [Invites -> [in : Workspaces \union {NoId},
                               role : InviteRoles \union {None},
                               by : Users \union {None}, expired : BOOLEAN,
                               accepted : Users \union {None}]]
    /\ request \in [Requests -> Request]
    /\ begun \in 0..MaxRequests /\ faults \in 0..MaxFaults

\* An invite is single-use (0001: "Single-use invite tokens"): however many
\* people open the link at once, it makes at most one of them a member, the one
\* it is marked with, in its own workspace.
SingleUse ==
    \A w \in Workspaces, u \in Users :
        LET i == member[w][u].via
        IN  i # NoId => invite[i].in = w /\ invite[i].accepted = u

\* The owner of a workspace is the one who created it, even if the owner opens
\* an invite to it; every other member has the role of an invite that an owner
\* or admin of the same workspace wrote, and keeps it whatever is accepted later.
RolesAreGranted ==
    \A w \in Workspaces, u \in Users :
        /\ member[w][u].role = "owner" <=> workspace[w].by = u
        /\ member[w][u].role \in InviteRoles =>
              LET i == member[w][u].via
              IN  /\ i # NoId
                  /\ member[w][u].role = invite[i].role
                  /\ member[w][invite[i].by].role \in {"owner", "admin"}

\* Who has been onboarded once is never sent to the onboarding form again: the
\* default workspace is one the policies let them read, although the workspace
\* and the profile are written by two calls and the form may be open twice.
OnboardedLands ==
    \A u \in Users : profile[u].onboarded => Landing(u) # NoId

\* accept_invite looks like one step, although it waits twice for other
\* transactions and inserts what it decided on before it marks the invite: an
\* invite is taken by one person, and a member keeps the role they have.
Creators == [w \in Workspaces |-> workspace[w].by]
RolesHeld == [w \in Workspaces |-> [u \in Users |-> member[w][u].role]]
Offers == [i \in Invites |-> [in |-> invite[i].in, role |-> invite[i].role,
                             taker |-> invite[i].accepted]]
AtOnce == INSTANCE Membership WITH
              creator <- Creators, role <- RolesHeld, offer <- Offers
InvitesAreAtomic == AtOnce!Spec

\* Nobody waits for ever: two people on one link, one person on two links and a
\* form sent twice all get an answer.
RequestsReturn ==
    \A r \in Requests : request[r].at \notin {"idle", "form"} ~> request[r].at = "idle"

=============================================================================
