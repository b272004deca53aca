-------------------------------- MODULE Members --------------------------------
(***************************************************************************)
(* Workspaces, their members and their invites: the tables of migration    *)
(* 0001, the functions and triggers of 0002 to 0004, and the onboarding    *)
(* and invite actions of the web app that call them.                       *)
(*                                                                         *)
(* A function of the database is one transaction: what it wrote becomes    *)
(* visible at once when it ends.  accept_invite may wait twice, for the    *)
(* row lock of the invite and for another transaction that has inserted    *)
(* the same member, so it is a request of several steps.                   *)
(***************************************************************************)
EXTENDS Integers

CONSTANTS
    Users,        \* people
    Workspaces,   \* identifiers of workspaces, positive numbers
    Invites,      \* identifiers (and tokens) of invites, positive numbers
    Slugs,        \* workspace URLs
    Names,        \* the URLs that workspace names turn into
    WithSuffix,   \* the random variants of each URL
    Requests,     \* requests that may be in flight at once
    MaxRequests,  \* bound: requests begun in one behaviour
    MaxFaults     \* bound: failed calls and server deaths in one behaviour

None == "none"   \* no user, no URL, no role
NoId == 0        \* no workspace, no invite

ASSUME MembersAssumption ==
    /\ None \notin Users \union Slugs
    /\ Workspaces \subseteq Nat \ {NoId} /\ Invites \subseteq Nat \ {NoId}
    /\ Names \subseteq Slugs
    /\ WithSuffix \in [Slugs -> SUBSET Slugs]
    /\ MaxRequests \in Nat /\ MaxFaults \in Nat

VARIABLES
    profile,    \* users_profile: whether there is one, onboarded_at, default workspace
    workspace,  \* URL and creator of each workspace
    member,     \* role of each user in each workspace and, as history, by which invite
    invite,     \* workspace, role, author, expiry and acceptance of each invite
    request,    \* what each request is doing
    begun,      \* requests begun, up to MaxRequests
    faults      \* faults spent, up to MaxFaults

rows == <<profile, workspace, member, invite>>
vars == <<rows, request, begun, faults>>

Roles == {"owner", "admin", "member"}
InviteRoles == {"admin", "member"}
MAX_SLUG_ATTEMPTS == 4

NoProfile == [exists |-> FALSE, onboarded |-> FALSE, home |-> NoId]
NoWorkspace == [slug |-> None, by |-> None]
NoMember == [role |-> None, via |-> NoId]
NoInvite == [in |-> NoId, role |-> None, by |-> None, expired |-> FALSE,
             accepted |-> None]

\* attempt counts candidates tried; new says that this transaction inserted the
\* member row, late that the invite had expired when the transaction began.
Idle == [at |-> "idle", user |-> None, slug |-> None, attempt |-> 0,
         workspace |-> NoId, invite |-> NoId, new |-> FALSE, late |-> FALSE]

Steps == {"idle", "form", "create", "profile", "rpc", "lock", "insert", "mark", "slug"}
Request == [at : Steps, user : Users \union {None}, slug : Slugs \union {None},
            attempt : 0..(MAX_SLUG_ATTEMPTS - 1),
            workspace : Workspaces \union {NoId}, invite : Invites \union {NoId},
            new : BOOLEAN, late : BOOLEAN]

Init ==
    /\ profile = [u \in Users |-> NoProfile]
    /\ workspace = [w \in Workspaces |-> NoWorkspace]
    /\ member = [w \in Workspaces |-> [u \in Users |-> NoMember]]
    /\ invite = [i \in Invites |-> NoInvite]
    /\ request = [r \in Requests |-> Idle]
    /\ begun = 0
    /\ faults = 0

Go(r, at) == request' = [request EXCEPT ![r].at = at]
Return(r) == request' = [request EXCEPT ![r] = Idle]

Begin(r, new) ==
    /\ request[r] = Idle
    /\ begun < MaxRequests
    /\ request' = [request EXCEPT ![r] = new]
    /\ begun' = begun + 1
    /\ UNCHANGED <<rows, faults>>

\* Identifiers are random; which one is free does not matter, so the first is.
FirstFree(i, Free) == i \in Free /\ \A j \in Free : i <= j
FreeWorkspaces == {w \in Workspaces : workspace[w] = NoWorkspace}
FreeInvites == {i \in Invites : /\ invite[i] = NoInvite
                                /\ \A s \in Requests : request[s].invite # i}

\* is_workspace_member and has_workspace_role; the policies that let a member,
\* and nobody else, read a workspace.
IsMember(u, w) == member[w][u].role # None
HasRole(u, w, roles) == member[w][u].role \in roles

\* Where / and /onboarding send a user: home, or to the onboarding form.
Landing(u) ==
    LET p == profile[u]
    IN  IF p.onboarded /\ p.home # NoId
        THEN IF IsMember(u, p.home) THEN p.home ELSE NoId
        ELSE NoId

----------------------------------------------------------------------------
(* Sign-up and onboarding *)

\* A new row of auth.users; the trigger adds the profile.
SignUp(u) ==
    /\ ~profile[u].exists
    /\ profile' = [profile EXCEPT ![u].exists = TRUE]
    /\ UNCHANGED <<workspace, member, invite, request, begun, faults>>

OpenOnboarding(r) ==
    \E u \in Users :
        /\ profile[u].exists
        /\ Landing(u) = NoId
        /\ Begin(r, [Idle EXCEPT !.at = "form", !.user = u])

\* The first candidate is the name's own URL.
CompleteOnboarding(r) ==
    /\ request[r].at = "form"
    /\ \E s \in Names : request' = [request EXCEPT ![r].at = "create", ![r].slug = s]
    /\ UNCHANGED <<rows, begun, faults>>

Candidates(r) ==
    IF request[r].attempt = 0 THEN {request[r].slug} ELSE WithSuffix[request[r].slug]
Taken(s) == \E w \in Workspaces : workspace[w].slug = s

\* Mutation: the workspace is inserted without its owner.
CreateWorkspaceNoTrigger_Mut(r) ==
    /\ request[r].at = "create"
    /\ \E s \in Candidates(r), w \in Workspaces :
          /\ ~Taken(s)
          /\ FirstFree(w, FreeWorkspaces)
          /\ workspace' = [workspace EXCEPT ![w] = [slug |-> s, by |-> request[r].user]]
          /\ request' = [request EXCEPT ![r].at = "profile", ![r].workspace = w]
    /\ UNCHANGED <<profile, member, invite, begun, faults>>

\* create_workspace; the trigger makes the creator its owner.
CreateWorkspace(r) ==
    /\ request[r].at = "create"
    /\ \E s \in Candidates(r), w \in Workspaces :
          /\ ~Taken(s)
          /\ FirstFree(w, FreeWorkspaces)
          /\ workspace' = [workspace EXCEPT ![w] = [slug |-> s, by |-> request[r].user]]
          /\ member' = [member EXCEPT ![w][request[r].user].role = "owner"]
          /\ request' = [request EXCEPT ![r].at = "profile", ![r].workspace = w]
    /\ UNCHANGED <<profile, invite, begun, faults>>

\* A unique violation: another candidate, up to MAX_SLUG_ATTEMPTS.
SlugTaken(r) ==
    /\ request[r].at = "create"
    /\ \E s \in Candidates(r) : Taken(s)
    /\ IF request[r].attempt + 1 < MAX_SLUG_ATTEMPTS
       THEN request' = [request EXCEPT ![r].attempt = @ + 1]
       ELSE Return(r)
    /\ UNCHANGED <<rows, begun, faults>>

\* The last workspace created becomes the default one.
UpdateProfile(r) ==
    /\ request[r].at = "profile"
    /\ profile' = [profile EXCEPT ![request[r].user].onboarded = TRUE,
                                  ![request[r].user].home = request[r].workspace]
    /\ Return(r)
    /\ UNCHANGED <<workspace, member, invite, begun, faults>>

----------------------------------------------------------------------------
(* Invites *)

\* createInvite: the form is on a page of the workspace, for any member; the
\* token is made first.
CreateInvite(r) ==
    \E u \in Users, w \in Workspaces, i \in Invites :
        /\ IsMember(u, w)
        /\ FirstFree(i, FreeInvites)
        /\ Begin(r, [Idle EXCEPT !.at = "rpc", !.user = u, !.workspace = w,
                                 !.invite = i])

\* create_workspace_invite: owners and admins; never the role of owner.
CreateWorkspaceInvite(r) ==
    LET q == request[r]
    IN  /\ q.at = "rpc"
        /\ \/ ~HasRole(q.user, q.workspace, {"owner", "admin"}) /\ UNCHANGED invite
           \/ /\ HasRole(q.user, q.workspace, {"owner", "admin"})
              /\ \E role \in InviteRoles :
                    invite' = [invite EXCEPT ![q.invite] =
                        [NoInvite EXCEPT !.in = q.workspace, !.role = role, !.by = q.user]]
        /\ Return(r)
        /\ UNCHANGED <<profile, workspace, member, begun, faults>>

\* Seven days pass.
Expire(i) ==
    /\ invite[i] # NoInvite /\ ~invite[i].expired
    /\ invite' = [invite EXCEPT ![i].expired = TRUE]
    /\ UNCHANGED <<profile, workspace, member, request, begun, faults>>

\* The invite page, opened by whoever has the link; now() is the time at which
\* the transaction begins, however long it waits afterwards.
AcceptInvite(r) ==
    \E u \in Users, i \in Invites :
        /\ profile[u].exists
        /\ invite[i] # NoInvite
        /\ Begin(r, [Idle EXCEPT !.at = "lock", !.user = u, !.invite = i,
                                 !.workspace = invite[i].in,
                                 !.late = invite[i].expired])

Holds(r, i) == request[r].invite = i /\ request[r].at \in {"insert", "mark"}

\* Mutation: the invite is read without "for update".
LockInviteUnlocked_Mut(r) ==
    /\ request[r].at = "lock"
    /\ IF invite[request[r].invite].accepted # None \/ request[r].late
       THEN Return(r) ELSE Go(r, "insert")
    /\ UNCHANGED <<rows, begun, faults>>

\* "for update" waits for the transaction that holds the row, and then reads
\* what that one committed.
LockInvite(r) ==
    /\ request[r].at = "lock"
    /\ \A s \in Requests : ~Holds(s, request[r].invite)
    /\ IF invite[request[r].invite].accepted # None \/ request[r].late
       THEN Return(r) ELSE Go(r, "insert")
    /\ UNCHANGED <<rows, begun, faults>>

\* Another transaction has inserted the same member and not ended yet.
InsertedBy(s, r) ==
    /\ request[s].at = "mark" /\ request[s].new
    /\ request[s].user = request[r].user
    /\ request[s].workspace = request[r].workspace

\* Mutation: it waits for whoever is about to insert that member as well.
InsertMemberDeadlocks_Mut(r) ==
    /\ request[r].at = "insert"
    /\ \A s \in Requests \ {r} :
          ~(/\ request[s].at \in {"insert", "mark"}
            /\ request[s].user = request[r].user
            /\ request[s].workspace = request[r].workspace)
    /\ request' = [request EXCEPT
          ![r].at = "mark",
          ![r].new = ~IsMember(request[r].user, request[r].workspace)]
    /\ UNCHANGED <<rows, begun, faults>>

\* Mutation: the member row has no primary key, and nothing to wait for.
InsertMemberUnwaited_Mut(r) ==
    /\ request[r].at = "insert"
    /\ request' = [request EXCEPT
          ![r].at = "mark",
          ![r].new = ~IsMember(request[r].user, request[r].workspace)]
    /\ UNCHANGED <<rows, begun, faults>>

\* "on conflict do nothing" waits for that one, too.
InsertMember(r) ==
    /\ request[r].at = "insert"
    /\ \A s \in Requests : ~InsertedBy(s, r)
    /\ request' = [request EXCEPT
          ![r].at = "mark",
          ![r].new = ~IsMember(request[r].user, request[r].workspace)]
    /\ UNCHANGED <<rows, begun, faults>>

\* Mutation: "on conflict do update set role".
MarkAcceptedUpserts_Mut(r) ==
    LET q == request[r]
    IN  /\ q.at = "mark"
        /\ member' = [member EXCEPT ![q.workspace][q.user] =
              [role |-> invite[q.invite].role, via |-> q.invite]]
        /\ invite' = [invite EXCEPT ![q.invite].accepted = q.user]
        /\ Go(r, "slug")
        /\ UNCHANGED <<profile, workspace, begun, faults>>

\* Mutation: accepted_by gets the role.
MarkAcceptedByRole_Mut(r) ==
    LET q == request[r]
    IN  /\ q.at = "mark"
        /\ invite' = [invite EXCEPT ![q.invite].accepted = invite[q.invite].role]
        /\ Go(r, "slug")
        /\ UNCHANGED <<profile, workspace, member, begun, faults>>

\* The invite is marked and the transaction ends: both rows are there at once.
MarkAccepted(r) ==
    LET q == request[r]
    IN  /\ q.at = "mark"
        /\ member' = IF q.new
                     THEN [member EXCEPT ![q.workspace][q.user] =
                             [role |-> invite[q.invite].role, via |-> q.invite]]
                     ELSE member
        /\ invite' = [invite EXCEPT ![q.invite].accepted = q.user]
        /\ Go(r, "slug")
        /\ UNCHANGED <<profile, workspace, begun, faults>>

\* The URL to go to; only members can read it.
ReadSlug(r) ==
    /\ request[r].at = "slug"
    /\ Return(r)
    /\ UNCHANGED <<rows, begun, faults>>

\* A call fails or the server dies: a transaction that has not ended is undone.
Fault(r) ==
    /\ faults < MaxFaults
    /\ request[r] # Idle
    /\ faults' = faults + 1
    /\ Return(r)
    /\ UNCHANGED <<rows, begun>>

\* What the server and the database do with a request once it is there.
Step(r) ==
    \/ CreateWorkspace(r) \/ SlugTaken(r) \/ UpdateProfile(r)
    \/ CreateWorkspaceInvite(r)
    \/ LockInvite(r) \/ InsertMember(r) \/ MarkAccepted(r) \/ ReadSlug(r)

Next ==
    \/ \E u \in Users : SignUp(u)
    \/ \E i \in Invites : Expire(i)
    \/ \E r \in Requests :
          OpenOnboarding(r) \/ CompleteOnboarding(r) \/ CreateInvite(r)
             \/ AcceptInvite(r) \/ Step(r) \/ Fault(r)

Spec == Init /\ [][Next]_vars

\* Statements end and locks are granted in the end.
FairSpec == Spec /\ \A r \in Requests : WF_vars(Step(r))

=============================================================================
