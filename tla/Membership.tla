------------------------------ MODULE Membership ------------------------------
(***************************************************************************)
(* What the workspaces promise: a workspace is founded with its owner, an  *)
(* owner or admin writes an invite, and an invite is taken once, in one    *)
(* step that marks it and makes its taker a member.  Who is a member       *)
(* already keeps the role they have.  (Migration 0001: "Single-use invite  *)
(* tokens"; 0002 to 0004 for the functions.)                               *)
(***************************************************************************)
CONSTANTS Users, Workspaces, Invites, None, NoId

VARIABLES
    creator,  \* who founded each workspace
    role,     \* the role of each user in each workspace
    offer     \* workspace, role and taker of each invite

NoOffer == [in |-> NoId, role |-> None, taker |-> None]

Init ==
    /\ creator = [w \in Workspaces |-> None]
    /\ role = [w \in Workspaces |-> [u \in Users |-> None]]
    /\ offer = [i \in Invites |-> NoOffer]

Found(u, w) ==
    /\ creator[w] = None
    /\ creator' = [creator EXCEPT ![w] = u]
    /\ role' = [role EXCEPT ![w][u] = "owner"]
    /\ UNCHANGED offer

Offer(u, w, i) ==
    /\ role[w][u] \in {"owner", "admin"}
    /\ offer[i] = NoOffer
    /\ \E r \in {"admin", "member"} :
          offer' = [offer EXCEPT ![i] = [in |-> w, role |-> r, taker |-> None]]
    /\ UNCHANGED <<creator, role>>

Take(u, i) ==
    LET w == offer[i].in
    IN  /\ offer[i] # NoOffer
        /\ offer[i].taker = None
        /\ offer' = [offer EXCEPT ![i].taker = u]
        /\ role' = [role EXCEPT ![w][u] = IF @ = None THEN offer[i].role ELSE @]
        /\ UNCHANGED creator

Next ==
    \E u \in Users :
        \/ \E w \in Workspaces : Found(u, w)
        \/ \E w \in Workspaces, i \in Invites : Offer(u, w, i)
        \/ \E i \in Invites : Take(u, i)

Spec == Init /\ [][Next]_<<creator, role, offer>>

=============================================================================
