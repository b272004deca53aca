----------------------------- MODULE MemberProofs -----------------------------
(***************************************************************************)
(* Proofs of what MemberProperties states of the rows, for any people,     *)
(* workspaces, invites, requests and bounds.                               *)
(*                                                                         *)
(* None of it is inductive by itself.  What a transaction does when it     *)
(* ends rests on what it read when it began, so the invariant says what    *)
(* every request in flight may rely on (Ready), and what the row locks and *)
(* the unique conflict keep two of them from doing (Apart).                *)
(***************************************************************************)
EXTENDS MemberProperties, TLAPS

\* A workspace that has not been created has no members.
Empty ==
    \A w \in Workspaces, u \in Users :
        workspace[w] = NoWorkspace => member[w][u] = NoMember

\* A stored invite is to an existing workspace, whose owner or an admin wrote it.
InvitesAreSound ==
    \A i \in Invites :
        invite[i] # NoInvite =>
            /\ invite[i].in \in Workspaces
            /\ invite[i].role \in InviteRoles
            /\ invite[i].by \in Users
            /\ HasRole(invite[i].by, invite[i].in, {"owner", "admin"})

\* The default workspace of an onboarded user is one they are a member of.
Homes ==
    \A u \in Users :
        profile[u].onboarded =>
            profile[u].home \in Workspaces /\ IsMember(u, profile[u].home)

RowsAreSound == Empty /\ SingleUse /\ RolesAreGranted /\ InvitesAreSound /\ Homes

\* What a request in flight may rely on.
Ready(r) ==
    LET q == request[r]
    IN  /\ q.at # "idle" => q.user \in Users
        /\ q.at = "create" => q.slug \in Slugs
        /\ q.at = "profile" =>
              q.workspace \in Workspaces /\ IsMember(q.user, q.workspace)
        /\ q.at = "rpc" =>
              q.workspace \in Workspaces /\ q.invite \in Invites
                 /\ invite[q.invite] = NoInvite
        /\ q.at \in {"lock", "insert", "mark"} =>
              q.workspace \in Workspaces /\ q.invite \in Invites
                 /\ invite[q.invite] # NoInvite
                 /\ invite[q.invite].in = q.workspace
        /\ q.at \in {"insert", "mark"} => invite[q.invite].accepted = None
        /\ q.at = "mark" /\ q.new => ~IsMember(q.user, q.workspace)

\* What two requests never do at once: reserve one token, hold one invite,
\* insert one member.
Apart(r, s) ==
    /\ request[r].at = "rpc" /\ request[s].at = "rpc" =>
          request[r].invite # request[s].invite
    /\ Holds(r, request[r].invite) => ~Holds(s, request[r].invite)
    /\ request[r].at = "mark" /\ request[r].new => ~InsertedBy(s, r)

InFlight ==
    /\ \A r \in Requests : Ready(r)
    /\ \A r, s \in Requests : r # s => Apart(r, s)

IInv == TypeOK /\ RowsAreSound /\ InFlight

----------------------------------------------------------------------------
(* Steps that write no row *)

\* A step of r that leaves the rows alone keeps the invariant if what r does
\* next is something it may rely on, apart from all the others.
LEMMA LocalStep ==
    ASSUME IInv, NEW r \in Requests, NEW q \in Request,
           request' = [request EXCEPT ![r] = q],
           UNCHANGED rows,
           begun' \in 0..MaxRequests, faults' \in 0..MaxFaults,
           Ready(r)',
           \A s \in Requests \ {r} : Apart(r, s)' /\ Apart(s, r)'
    PROVE  IInv'
<1>1. TypeOK'
  BY DEF IInv, TypeOK, rows
<1>2. RowsAreSound'
  BY DEF IInv, rows, RowsAreSound, Empty, SingleUse, RolesAreGranted,
         InvitesAreSound, HasRole, Homes, IsMember
<1>3. \A s \in Requests \ {r} : request'[s] = request[s]
  BY DEF IInv, TypeOK
<1>4. \A s \in Requests \ {r} : Ready(s)'
  BY <1>3 DEF IInv, InFlight, Ready, IsMember, rows
<1>5. ASSUME NEW s \in Requests \ {r}, NEW t \in Requests \ {r}, s # t
      PROVE  Apart(s, t)'
  BY <1>3, <1>5 DEF IInv, InFlight, Apart, Holds, InsertedBy
<1> QED
  BY <1>1, <1>2, <1>4, <1>5 DEF IInv, InFlight

LEMMA IdleTyped == Idle \in Request
BY DEF Idle, Request, Steps, MAX_SLUG_ATTEMPTS

\* A request that returns relies on nothing.
LEMMA ReturnStep ==
    ASSUME IInv, NEW r \in Requests, Return(r), UNCHANGED rows,
           begun' \in 0..MaxRequests, faults' \in 0..MaxFaults
    PROVE  IInv'
<1>1. Idle \in Request
  BY IdleTyped
<1>2. request' = [request EXCEPT ![r] = Idle] /\ request'[r] = Idle
  BY DEF Return, IInv, TypeOK
<1>3. Ready(r)'
  BY <1>2 DEF Ready, Idle
<1>4. ASSUME NEW s \in Requests \ {r}
      PROVE  Apart(r, s)' /\ Apart(s, r)'
  BY <1>2 DEF Apart, Holds, InsertedBy, Idle
<1> QED
  BY <1>1, <1>2, <1>3, <1>4, LocalStep

\* The bounds and the rows when a request begins.
LEMMA BeginStep ==
    ASSUME IInv, NEW r \in Requests, NEW q, Begin(r, q)
    PROVE  /\ request' = [request EXCEPT ![r] = q] /\ request'[r] = q
           /\ UNCHANGED rows
           /\ begun' \in 0..MaxRequests /\ faults' \in 0..MaxFaults
BY MembersAssumption DEF Begin, IInv, TypeOK

LEMMA OpenOnboardingStep ==
    ASSUME IInv, NEW r \in Requests, OpenOnboarding(r)
    PROVE  IInv'
<1>1. PICK u \in Users : Begin(r, [Idle EXCEPT !.at = "form", !.user = u])
  BY DEF OpenOnboarding
<1> DEFINE q == [Idle EXCEPT !.at = "form", !.user = u]
<1>2. q \in Request /\ q.at = "form" /\ q.user = u
  BY IdleTyped DEF Request, Steps
<1>3. Begin(r, q)
  BY <1>1
<1> HIDE DEF q
<1>4. /\ request' = [request EXCEPT ![r] = q] /\ request'[r] = q
      /\ UNCHANGED rows
      /\ begun' \in 0..MaxRequests /\ faults' \in 0..MaxFaults
  BY <1>3, BeginStep
<1>5. Ready(r)'
  BY <1>2, <1>4 DEF Ready
<1>6. ASSUME NEW s \in Requests \ {r}
      PROVE  Apart(r, s)' /\ Apart(s, r)'
  BY <1>2, <1>4 DEF Apart, Holds, InsertedBy
<1> QED
  BY <1>2, <1>4, <1>5, <1>6, LocalStep

LEMMA CompleteOnboardingStep ==
    ASSUME IInv, NEW r \in Requests, CompleteOnboarding(r)
    PROVE  IInv'
<1>1. PICK s \in Names :
          request' = [request EXCEPT ![r].at = "create", ![r].slug = s]
  BY DEF CompleteOnboarding
<1> DEFINE q == [request[r] EXCEPT !.at = "create", !.slug = s]
<1>2. request[r] \in Request /\ request[r].at = "form"
  BY DEF CompleteOnboarding, IInv, TypeOK
<1>3. /\ q \in Request /\ q.at = "create" /\ q.slug \in Slugs
      /\ q.user = request[r].user
  BY <1>2, MembersAssumption DEF Request, Steps
<1>4. /\ request' = [request EXCEPT ![r] = q] /\ request'[r] = q
      /\ UNCHANGED rows
      /\ begun' \in 0..MaxRequests /\ faults' \in 0..MaxFaults
  BY <1>1 DEF CompleteOnboarding, IInv, TypeOK
<1> HIDE DEF q
<1>5. Ready(r)'
  BY <1>2, <1>3, <1>4 DEF Ready, IInv, InFlight
<1>6. ASSUME NEW t \in Requests \ {r}
      PROVE  Apart(r, t)' /\ Apart(t, r)'
  BY <1>3, <1>4 DEF Apart, Holds, InsertedBy
<1> QED
  BY <1>3, <1>4, <1>5, <1>6, LocalStep

LEMMA CreateInviteStep ==
    ASSUME IInv, NEW r \in Requests, CreateInvite(r)
    PROVE  IInv'
<1>1. PICK u \in Users, w \in Workspaces, i \in Invites :
          /\ IsMember(u, w)
          /\ FirstFree(i, FreeInvites)
          /\ Begin(r, [Idle EXCEPT !.at = "rpc", !.user = u, !.workspace = w,
                                   !.invite = i])
  BY DEF CreateInvite
<1> DEFINE q == [Idle EXCEPT !.at = "rpc", !.user = u, !.workspace = w,
                             !.invite = i]
<1>2. /\ q \in Request /\ q.at = "rpc" /\ q.user = u
      /\ q.workspace = w /\ q.invite = i
  BY IdleTyped DEF Request, Steps
<1>3. Begin(r, q)
  BY <1>1
<1> HIDE DEF q
<1>4. /\ request' = [request EXCEPT ![r] = q] /\ request'[r] = q
      /\ UNCHANGED rows
      /\ begun' \in 0..MaxRequests /\ faults' \in 0..MaxFaults
  BY <1>3, BeginStep
<1>5. invite[i] = NoInvite /\ \A s \in Requests : request[s].invite # i
  BY <1>1 DEF FirstFree, FreeInvites
<1>6. Ready(r)'
  BY <1>1, <1>2, <1>4, <1>5 DEF Ready, IsMember, rows
<1>7. ASSUME NEW s \in Requests \ {r}
      PROVE  Apart(r, s)' /\ Apart(s, r)'
  <2>1. request'[s] = request[s]
    BY <1>4 DEF IInv, TypeOK
  <2> QED
    BY <1>2, <1>4, <1>5, <2>1 DEF Apart, Holds, InsertedBy
<1> QED
  BY <1>2, <1>4, <1>6, <1>7, LocalStep

LEMMA AcceptInviteStep ==
    ASSUME IInv, NEW r \in Requests, AcceptInvite(r)
    PROVE  IInv'
<1>1. PICK u \in Users, i \in Invites :
          /\ invite[i] # NoInvite
          /\ Begin(r, [Idle EXCEPT !.at = "lock", !.user = u, !.invite = i,
                                   !.workspace = invite[i].in,
                                   !.late = invite[i].expired])
  BY DEF AcceptInvite
<1> DEFINE q == [Idle EXCEPT !.at = "lock", !.user = u, !.invite = i,
                             !.workspace = invite[i].in, !.late = invite[i].expired]
<1>2. invite[i].in \in Workspaces /\ invite[i].expired \in BOOLEAN
  BY <1>1 DEF IInv, TypeOK, RowsAreSound, InvitesAreSound
<1>3. /\ q \in Request /\ q.at = "lock" /\ q.user = u
      /\ q.workspace = invite[i].in /\ q.invite = i
  BY <1>2, IdleTyped DEF Request, Steps
<1>4. Begin(r, q)
  BY <1>1
<1> HIDE DEF q
<1>5. /\ request' = [request EXCEPT ![r] = q] /\ request'[r] = q
      /\ UNCHANGED rows
      /\ begun' \in 0..MaxRequests /\ faults' \in 0..MaxFaults
  BY <1>4, BeginStep
<1>6. Ready(r)'
  BY <1>1, <1>2, <1>3, <1>5 DEF Ready, rows
<1>7. ASSUME NEW s \in Requests \ {r}
      PROVE  Apart(r, s)' /\ Apart(s, r)'
  BY <1>3, <1>5 DEF Apart, Holds, InsertedBy
<1> QED
  BY <1>3, <1>5, <1>6, <1>7, LocalStep

LEMMA SlugTakenStep ==
    ASSUME IInv, NEW r \in Requests, SlugTaken(r)
    PROVE  IInv'
<1>1. UNCHANGED rows /\ begun' \in 0..MaxRequests /\ faults' \in 0..MaxFaults
  BY DEF SlugTaken, IInv, TypeOK
<1>2. CASE Return(r)
  BY <1>1, <1>2, ReturnStep
<1>3. CASE ~Return(r)
  <2> DEFINE q == [request[r] EXCEPT !.attempt = @ + 1]
  <2>1. /\ request[r] \in Request /\ request[r].at = "create"
        /\ request[r].attempt + 1 < MAX_SLUG_ATTEMPTS
        /\ request' = [request EXCEPT ![r].attempt = request[r].attempt + 1]
    BY <1>3 DEF SlugTaken, IInv, TypeOK
  <2>2. request[r].attempt + 1 \in 0..(MAX_SLUG_ATTEMPTS - 1)
    BY <2>1 DEF Request, MAX_SLUG_ATTEMPTS
  <2>3. /\ q \in Request /\ q.at = "create" /\ q.slug = request[r].slug
        /\ q.user = request[r].user
        /\ request' = [request EXCEPT ![r] = q] /\ request'[r] = q
    BY <2>1, <2>2 DEF Request, IInv, TypeOK
  <2> HIDE DEF q
  <2>4. Ready(r)'
    BY <2>1, <2>3 DEF Ready, IInv, InFlight
  <2>5. ASSUME NEW t \in Requests \ {r}
        PROVE  Apart(r, t)' /\ Apart(t, r)'
    BY <2>3 DEF Apart, Holds, InsertedBy
  <2> QED
    BY <1>1, <2>3, <2>4, <2>5, LocalStep
<1> QED
  BY <1>2, <1>3

\* The row lock: nobody else holds the invite, so r may.
LEMMA LockInviteStep ==
    ASSUME IInv, NEW r \in Requests, LockInvite(r)
    PROVE  IInv'
<1>1. UNCHANGED rows /\ begun' \in 0..MaxRequests /\ faults' \in 0..MaxFaults
  BY DEF LockInvite, IInv, TypeOK
<1>2. CASE Return(r)
  BY <1>1, <1>2, ReturnStep
<1>3. CASE ~Return(r)
  <2> DEFINE q == [request[r] EXCEPT !.at = "insert"]
  <2>1. /\ request[r] \in Request /\ request[r].at = "lock"
        /\ q \in Request /\ q.at = "insert" /\ q.user = request[r].user
        /\ q.workspace = request[r].workspace /\ q.invite = request[r].invite
        /\ request' = [request EXCEPT ![r] = q] /\ request'[r] = q
        /\ invite[request[r].invite].accepted = None
    BY <1>3 DEF LockInvite, Go, Request, Steps, IInv, TypeOK
  <2>2. \A s \in Requests : ~Holds(s, request[r].invite)
    BY DEF LockInvite
  <2> HIDE DEF q
  <2>3. Ready(r)'
    BY <1>1, <2>1 DEF Ready, IInv, InFlight, rows
  <2>4. ASSUME NEW s \in Requests \ {r}
        PROVE  Apart(r, s)' /\ Apart(s, r)'
    <3>1. request'[s] = request[s]
      BY <2>1 DEF IInv, TypeOK
    <3> QED
      BY <2>1, <2>2, <3>1 DEF Apart, Holds, InsertedBy
  <2> QED
    BY <1>1, <2>1, <2>3, <2>4, LocalStep
<1> QED
  BY <1>2, <1>3

\* The unique conflict: nobody else is inserting this member, so r may.
LEMMA InsertMemberStep ==
    ASSUME IInv, NEW r \in Requests, InsertMember(r)
    PROVE  IInv'
<1>1. UNCHANGED rows /\ begun' \in 0..MaxRequests /\ faults' \in 0..MaxFaults
  BY DEF InsertMember, IInv, TypeOK
<1> DEFINE new == ~IsMember(request[r].user, request[r].workspace)
           q == [request[r] EXCEPT !.at = "mark", !.new = new]
<1>2. new \in BOOLEAN
  BY DEF IsMember
<1>3. request' = [request EXCEPT ![r].at = "mark", ![r].new = new]
  BY DEF InsertMember
<1> HIDE DEF new
<1>4. /\ request[r] \in Request /\ request[r].at = "insert"
      /\ q \in Request /\ q.at = "mark" /\ q.new = new
      /\ q.user = request[r].user
      /\ q.workspace = request[r].workspace /\ q.invite = request[r].invite
      /\ request' = [request EXCEPT ![r] = q] /\ request'[r] = q
  BY <1>2, <1>3 DEF InsertMember, Request, Steps, IInv, TypeOK
<1> HIDE DEF q
<1>5. Ready(r)'
  BY <1>1, <1>4 DEF Ready, IInv, InFlight, IsMember, rows, new
<1>6. ASSUME NEW s \in Requests \ {r}
      PROVE  Apart(r, s)' /\ Apart(s, r)'
  <2>1. request'[s] = request[s]
    BY <1>4 DEF IInv, TypeOK
  <2>2. ~InsertedBy(s, r)
    BY DEF InsertMember
  <2>3. Apart(r, s) /\ Apart(s, r)
    BY DEF IInv, InFlight
  <2> QED
    BY <1>4, <2>1, <2>2, <2>3 DEF Apart, Holds, InsertedBy
<1> QED
  BY <1>1, <1>4, <1>5, <1>6, LocalStep

----------------------------------------------------------------------------
(* Steps that write a row *)

\* A profile without a workspace is nobody's concern.
LEMMA SignUpStep ==
    ASSUME IInv, NEW u \in Users, SignUp(u)
    PROVE  IInv'
<1>1. /\ UNCHANGED <<workspace, member, invite, request, begun, faults>>
      /\ profile' = [profile EXCEPT ![u].exists = TRUE]
  BY DEF SignUp
<1>2. TypeOK'
  BY <1>1 DEF IInv, TypeOK
<1>3. RowsAreSound'
  BY <1>1 DEF IInv, TypeOK, RowsAreSound, Empty, SingleUse, RolesAreGranted,
              InvitesAreSound, HasRole, Homes, IsMember
<1>4. InFlight'
  BY <1>1 DEF IInv, InFlight, Ready, Apart, Holds, InsertedBy, IsMember
<1> QED
  BY <1>2, <1>3, <1>4 DEF IInv

\* Expiry is read when an acceptance begins, and by nobody else.
LEMMA ExpireStep ==
    ASSUME IInv, NEW i \in Invites, Expire(i)
    PROVE  IInv'
<1>1. /\ UNCHANGED <<profile, workspace, member, request, begun, faults>>
      /\ invite' = [invite EXCEPT ![i].expired = TRUE]
      /\ invite[i] # NoInvite
  BY DEF Expire
<1>2. TypeOK'
  BY <1>1 DEF IInv, TypeOK
<1>3. \A j \in Invites :
          /\ invite'[j].in = invite[j].in /\ invite'[j].role = invite[j].role
          /\ invite'[j].by = invite[j].by
          /\ invite'[j].accepted = invite[j].accepted
          /\ invite'[j] = NoInvite <=> invite[j] = NoInvite
  BY <1>1 DEF IInv, TypeOK, NoInvite, RowsAreSound, InvitesAreSound
<1>4. RowsAreSound'
  BY <1>1, <1>3 DEF IInv, RowsAreSound, Empty, SingleUse, RolesAreGranted,
       InvitesAreSound, HasRole, Homes, IsMember, TypeOK
<1>5. InFlight'
  BY <1>1, <1>3 DEF IInv, InFlight, Ready, Apart, Holds, InsertedBy, IsMember
<1> QED
  BY <1>2, <1>4, <1>5 DEF IInv

LEMMA UpdateProfileStep ==
    ASSUME IInv, NEW r \in Requests, UpdateProfile(r)
    PROVE  IInv'
<1>1. /\ UNCHANGED <<workspace, member, invite, begun, faults>>
      /\ profile' = [profile EXCEPT ![request[r].user].onboarded = TRUE,
                                    ![request[r].user].home = request[r].workspace]
      /\ request' = [request EXCEPT ![r] = Idle]
  BY DEF UpdateProfile, Return
<1>2. /\ request[r].user \in Users /\ request[r].workspace \in Workspaces
      /\ IsMember(request[r].user, request[r].workspace)
  BY DEF UpdateProfile, IInv, InFlight, Ready
<1>3. Idle \in Request
  BY IdleTyped
<1>4. TypeOK'
  BY <1>1, <1>2, <1>3 DEF IInv, TypeOK
<1>5. Homes'
  BY <1>1, <1>2 DEF IInv, TypeOK, RowsAreSound, Homes, IsMember
<1>6. RowsAreSound'
  BY <1>1, <1>5 DEF IInv, RowsAreSound, Empty, SingleUse, RolesAreGranted,
       InvitesAreSound, HasRole
<1>7. \A s \in Requests : request'[s] = IF s = r THEN Idle ELSE request[s]
  BY <1>1 DEF IInv, TypeOK
<1>8. \A s \in Requests : Ready(s)'
  BY <1>1, <1>7 DEF IInv, InFlight, Ready, IsMember, Idle
<1>9. ASSUME NEW s \in Requests, NEW t \in Requests, s # t
      PROVE  Apart(s, t)'
  BY <1>7, <1>9 DEF IInv, InFlight, Apart, Holds, InsertedBy, Idle
<1> QED
  BY <1>4, <1>6, <1>8, <1>9 DEF IInv, InFlight

\* The new workspace was empty: its owner is its only member, and nobody in
\* flight was counting on it.
LEMMA CreateWorkspaceStep ==
    ASSUME IInv, NEW r \in Requests, CreateWorkspace(r)
    PROVE  IInv'
<1>1. PICK s \in Candidates(r), w \in Workspaces :
          /\ FirstFree(w, FreeWorkspaces)
          /\ workspace' = [workspace EXCEPT ![w] = [slug |-> s, by |-> request[r].user]]
          /\ member' = [member EXCEPT ![w][request[r].user].role = "owner"]
          /\ request' = [request EXCEPT ![r].at = "profile", ![r].workspace = w]
  BY DEF CreateWorkspace
<1> DEFINE u == request[r].user
<1>2. UNCHANGED <<profile, invite, begun, faults>>
  BY DEF CreateWorkspace
<1>3. /\ u \in Users /\ u # None /\ s \in Slugs
      /\ request[r].at = "create" /\ request[r] \in Request
  BY MembersAssumption
     DEF CreateWorkspace, Candidates, IInv, TypeOK, InFlight, Ready
<1>4. /\ workspace[w] = NoWorkspace
      /\ \A v \in Users : member[w][v] = NoMember
      /\ \A i \in Invites : invite[i] # NoInvite => invite[i].in # w
  BY <1>1 DEF FirstFree, FreeWorkspaces, IInv, RowsAreSound, Empty,
              InvitesAreSound, HasRole, NoMember, None
<1> DEFINE owner == [role |-> "owner", via |-> NoId]
           line == [member[w] EXCEPT ![u] = owner]
<1>5. /\ [member[w][u] EXCEPT !.role = "owner"] = owner
      /\ member[w] \in [Users -> [role : Roles \union {None},
                                  via : Invites \union {NoId}]]
  BY <1>3, <1>4 DEF NoMember, IInv, TypeOK
<1>6. /\ owner \in [role : Roles \union {None}, via : Invites \union {NoId}]
      /\ member' = [member EXCEPT ![w] = line]
  BY <1>1, <1>5 DEF Roles
<1>7. /\ line \in [Users -> [role : Roles \union {None}, via : Invites \union {NoId}]]
      /\ line[u] = owner /\ \A v \in Users \ {u} : line[v] = NoMember
  BY <1>3, <1>4, <1>5, <1>6
<1> HIDE DEF line
<1>8. /\ \A x \in Workspaces \ {w} :
            workspace'[x] = workspace[x] /\ member'[x] = member[x]
      /\ workspace'[w] = [slug |-> s, by |-> u]
      /\ \A v \in Users \ {u} : member'[w][v] = NoMember
      /\ member'[w][u] = owner
  BY <1>1, <1>6, <1>7 DEF IInv, TypeOK
<1>9. \A x \in Requests \ {r} : request'[x] = request[x]
  BY <1>1 DEF IInv, TypeOK
<1>10. /\ request'[r] \in Request /\ request'[r].at = "profile"
      /\ request'[r].user = u /\ request'[r].workspace = w
  BY <1>1, <1>3 DEF IInv, TypeOK, Request, Steps
<1> HIDE DEF u
<1>11. TypeOK'
  <2>1. workspace' \in [Workspaces -> [slug : Slugs \union {None},
                                       by : Users \union {None}]]
    BY <1>1, <1>3 DEF IInv, TypeOK, u
  <2>2. member' \in [Workspaces -> [Users -> [role : Roles \union {None},
                                              via : Invites \union {NoId}]]]
    BY <1>6, <1>7 DEF IInv, TypeOK
  <2>3. request' \in [Requests -> Request]
    BY <1>1, <1>9, <1>10 DEF IInv, TypeOK
  <2> QED
    BY <1>2, <2>1, <2>2, <2>3 DEF IInv, TypeOK
<1>12. \A x \in Workspaces, v \in Users : IsMember(v, x) => IsMember(v, x)'
  BY <1>4, <1>8 DEF IsMember, NoMember
<1>13. RowsAreSound'
  <2>1. Empty'
    BY <1>3, <1>8 DEF IInv, RowsAreSound, Empty, NoWorkspace
  <2>2. SingleUse'
    BY <1>2, <1>8 DEF IInv, RowsAreSound, SingleUse, NoMember
  <2>3. RolesAreGranted'
    <3> SUFFICES ASSUME NEW x \in Workspaces, NEW v \in Users
                 PROVE  /\ member'[x][v].role = "owner" <=> workspace'[x].by = v
                        /\ member'[x][v].role \in InviteRoles =>
                              /\ member'[x][v].via # NoId
                              /\ member'[x][v].role = invite[member'[x][v].via].role
                              /\ member'[x][invite[member'[x][v].via].by].role
                                    \in {"owner", "admin"}
      BY <1>2 DEF RolesAreGranted
    <3>1. CASE x = w
      BY <3>1, <1>3, <1>8 DEF NoMember, None, InviteRoles
    <3>2. CASE x # w
      BY <3>2, <1>8 DEF IInv, RowsAreSound, RolesAreGranted
    <3> QED
      BY <3>1, <3>2
  <2>4. InvitesAreSound'
    BY <1>2, <1>4, <1>8 DEF IInv, RowsAreSound, InvitesAreSound, HasRole
  <2>5. Homes'
    BY <1>2, <1>12 DEF IInv, RowsAreSound, Homes
  <2> QED
    BY <2>1, <2>2, <2>3, <2>4, <2>5 DEF RowsAreSound
<1>14. Ready(r)'
  BY <1>3, <1>8, <1>10 DEF Ready, IsMember, None, u
<1>15. ASSUME NEW x \in Requests \ {r}
       PROVE  Ready(x)'
  <2>1. Ready(x) /\ request'[x] = request[x]
    BY <1>9 DEF IInv, InFlight
  <2>2. request[x].at = "mark" => request[x].workspace # w
    BY <1>4, <2>1 DEF Ready
  <2> QED
    BY <1>2, <1>8, <1>12, <2>1, <2>2 DEF Ready, IsMember
<1>16. ASSUME NEW x \in Requests, NEW y \in Requests, x # y
       PROVE  Apart(x, y)'
  BY <1>9, <1>10, <1>16 DEF IInv, InFlight, Apart, Holds, InsertedBy
<1> QED
  BY <1>11, <1>13, <1>14, <1>15, <1>16 DEF IInv, InFlight

\* The token is nobody else's, so filling in its row disturbs nobody.
LEMMA CreateWorkspaceInviteStep ==
    ASSUME IInv, NEW r \in Requests, CreateWorkspaceInvite(r)
    PROVE  IInv'
<1>1. /\ Return(r) /\ UNCHANGED <<profile, workspace, member, begun, faults>>
      /\ begun' \in 0..MaxRequests /\ faults' \in 0..MaxFaults
      /\ request[r].at = "rpc"
  BY DEF CreateWorkspaceInvite, IInv, TypeOK
<1>2. CASE UNCHANGED invite
  BY <1>1, <1>2, ReturnStep DEF rows
<1>3. CASE invite' # invite
  <2> DEFINE u == request[r].user
             w == request[r].workspace
             i == request[r].invite
  <2>1. PICK role \in InviteRoles :
            invite' = [invite EXCEPT ![i] =
                          [NoInvite EXCEPT !.in = w, !.role = role, !.by = u]]
    BY <1>3 DEF CreateWorkspaceInvite
  <2>2. /\ u \in Users /\ w \in Workspaces /\ i \in Invites
        /\ invite[i] = NoInvite /\ HasRole(u, w, {"owner", "admin"})
    BY <1>1, <1>3 DEF CreateWorkspaceInvite, IInv, InFlight, Ready
  <2> HIDE DEF u, w, i
  <2>3. /\ \A j \in Invites \ {i} : invite'[j] = invite[j]
        /\ invite'[i] = [in |-> w, role |-> role, by |-> u, expired |-> FALSE,
                         accepted |-> None]
    BY <2>1, <2>2 DEF IInv, TypeOK, NoInvite
  <2>4. \A x \in Workspaces, v \in Users : member[x][v].via # i
    BY <2>2, MembersAssumption
       DEF IInv, RowsAreSound, SingleUse, NoInvite, NoId
  <2>5. TypeOK'
    <3>1. invite' \in [Invites -> [in : Workspaces \union {NoId},
                                   role : InviteRoles \union {None},
                                   by : Users \union {None}, expired : BOOLEAN,
                                   accepted : Users \union {None}]]
      <4>1. invite'[i] \in [in : Workspaces \union {NoId},
                             role : InviteRoles \union {None},
                             by : Users \union {None}, expired : BOOLEAN,
                             accepted : Users \union {None}]
        BY <2>2, <2>3
      <4>2. invite' = [invite EXCEPT ![i] = invite'[i]]
        BY <2>1, <2>2 DEF IInv, TypeOK
      <4> QED
        BY <4>1, <4>2 DEF IInv, TypeOK
    <3>2. request' \in [Requests -> Request]
      BY <1>1, IdleTyped DEF Return, IInv, TypeOK
    <3> QED
      BY <1>1, <3>1, <3>2 DEF IInv, TypeOK
  <2>6. RowsAreSound'
    <3>1. SingleUse'
      BY <1>1, <2>3, <2>4 DEF IInv, TypeOK, RowsAreSound, SingleUse
    <3>2. RolesAreGranted'
      BY <1>1, <2>3, <2>4 DEF IInv, TypeOK, RowsAreSound, RolesAreGranted
    <3>3. InvitesAreSound'
      BY <1>1, <2>2, <2>3 DEF IInv, RowsAreSound, InvitesAreSound, HasRole
    <3> QED
      BY <1>1, <3>1, <3>2, <3>3
         DEF IInv, RowsAreSound, Empty, Homes, IsMember
  <2>7. \A x \in Requests : request'[x] = IF x = r THEN Idle ELSE request[x]
    BY <1>1 DEF Return, IInv, TypeOK
  <2>8. ASSUME NEW x \in Requests
        PROVE  Ready(x)'
    <3>1. CASE x = r
      BY <2>7, <3>1 DEF Ready, Idle
    <3>2. CASE x # r
      <4>1. Ready(x) /\ request'[x] = request[x]
        BY <2>7, <3>2 DEF IInv, InFlight
      <4>2. request[x].at \in {"rpc", "lock", "insert", "mark"} =>
                request[x].invite \in Invites \ {i}
        BY <1>1, <2>2, <3>2, <4>1 DEF IInv, InFlight, Ready, Apart, i
      <4> QED
        BY <1>1, <2>3, <4>1, <4>2 DEF Ready, IsMember
    <3> QED
      BY <3>1, <3>2
  <2>9. ASSUME NEW x \in Requests, NEW y \in Requests, x # y
        PROVE  Apart(x, y)'
    BY <2>7, <2>9 DEF IInv, InFlight, Apart, Holds, InsertedBy, Idle
  <2> QED
    BY <2>5, <2>6, <2>8, <2>9 DEF IInv, InFlight
<1> QED
  BY <1>2, <1>3

\* r alone holds the invite and alone inserts the member it has not found, so
\* what it read when it began is still so.
LEMMA MarkAcceptedStep ==
    ASSUME IInv, NEW r \in Requests, MarkAccepted(r)
    PROVE  IInv'
<1> DEFINE q == request[r]
           u == q.user
           w == q.workspace
           i == q.invite
           row == [role |-> invite[i].role, via |-> i]
           line == [member[w] EXCEPT ![u] = row]
<1>1. /\ member' = IF q.new THEN [member EXCEPT ![w][u] = row] ELSE member
      /\ invite' = [invite EXCEPT ![i].accepted = u]
      /\ request' = [request EXCEPT ![r].at = "slug"]
      /\ UNCHANGED <<profile, workspace, begun, faults>>
      /\ q.at = "mark"
  BY DEF MarkAccepted, Go
<1>2. /\ u \in Users /\ u # None /\ w \in Workspaces /\ i \in Invites /\ i # NoId
      /\ invite[i] # NoInvite /\ invite[i].in = w /\ invite[i].accepted = None
      /\ q.new => ~IsMember(u, w)
  BY <1>1, MembersAssumption DEF IInv, InFlight, Ready
<1>3. /\ invite[i].role \in InviteRoles /\ invite[i].by \in Users
      /\ HasRole(invite[i].by, w, {"owner", "admin"})
      /\ row \in [role : Roles \union {None}, via : Invites \union {NoId}]
  BY <1>2 DEF IInv, RowsAreSound, InvitesAreSound, InviteRoles, Roles
<1>4. /\ \A j \in Invites :
            /\ invite'[j].in = invite[j].in /\ invite'[j].role = invite[j].role
            /\ invite'[j].by = invite[j].by
            /\ invite'[j].accepted = IF j = i THEN u ELSE invite[j].accepted
            /\ invite'[j] = NoInvite <=> invite[j] = NoInvite
      /\ invite' \in [Invites -> [in : Workspaces \union {NoId},
                                  role : InviteRoles \union {None},
                                  by : Users \union {None}, expired : BOOLEAN,
                                  accepted : Users \union {None}]]
  <2> DEFINE Invite == [in : Workspaces \union {NoId},
                        role : InviteRoles \union {None},
                        by : Users \union {None}, expired : BOOLEAN,
                        accepted : Users \union {None}]
             new == [invite[i] EXCEPT !.accepted = u]
  <2>1. /\ new \in Invite /\ new.in = invite[i].in /\ new.role = invite[i].role
        /\ new.by = invite[i].by /\ new.accepted = u
    BY <1>2 DEF IInv, TypeOK
  <2>2. invite' = [invite EXCEPT ![i] = new] /\ invite \in [Invites -> Invite]
    BY <1>1 DEF IInv, TypeOK
  <2>3. new # NoInvite
    BY <1>2, <2>1 DEF NoInvite
  <2> HIDE DEF new, Invite
  <2>4. invite' \in [Invites -> Invite]
    BY <2>1, <2>2
  <2>5. \A j \in Invites : invite'[j] = IF j = i THEN new ELSE invite[j]
    BY <2>2
  <2> QED
    BY <1>2, <2>1, <2>3, <2>4, <2>5 DEF Invite
<1>5. /\ line \in [Users -> [role : Roles \union {None}, via : Invites \union {NoId}]]
      /\ line[u] = row /\ \A v \in Users \ {u} : line[v] = member[w][v]
  BY <1>2, <1>3 DEF IInv, TypeOK
<1>6. q.new => member' = [member EXCEPT ![w] = line]
  BY <1>1
<1>7. \A x \in Requests \ {r} : request'[x] = request[x]
  BY <1>1 DEF IInv, TypeOK
<1>8. /\ request'[r] \in Request /\ request'[r].at = "slug"
      /\ request'[r].user = u
  BY <1>1 DEF IInv, TypeOK, Request, Steps
<1> HIDE DEF q, u, w, i, row, line
<1>9. ASSUME NEW x \in Workspaces, NEW v \in Users
      PROVE  \/ member'[x][v] = member[x][v]
             \/ q.new /\ x = w /\ v = u /\ member'[x][v] = row
  BY <1>1, <1>2, <1>5, <1>6 DEF IInv, TypeOK
<1>10. TypeOK'
  <2>1. member' \in [Workspaces -> [Users -> [role : Roles \union {None},
                                              via : Invites \union {NoId}]]]
    BY <1>1, <1>5, <1>6 DEF IInv, TypeOK
  <2>2. request' \in [Requests -> Request]
    BY <1>1, <1>7, <1>8 DEF IInv, TypeOK
  <2> QED
    BY <1>1, <1>4, <2>1, <2>2 DEF IInv, TypeOK
<1>11. \A x \in Workspaces, v \in Users : IsMember(v, x) => member'[x][v] = member[x][v]
  BY <1>2, <1>9
<1>12. \A j \in Invites :
           invite[j] # NoInvite => HasRole(invite[j].by, invite[j].in, {"owner", "admin"})'
  <2> SUFFICES ASSUME NEW j \in Invites, invite[j] # NoInvite
               PROVE  HasRole(invite[j].by, invite[j].in, {"owner", "admin"})'
    OBVIOUS
  <2>1. /\ invite[j].by \in Users /\ invite[j].in \in Workspaces
        /\ HasRole(invite[j].by, invite[j].in, {"owner", "admin"})
    BY DEF IInv, RowsAreSound, InvitesAreSound
  <2>2. IsMember(invite[j].by, invite[j].in)
    BY <2>1 DEF HasRole, IsMember, None
  <2> QED
    BY <1>4, <1>11, <2>1, <2>2 DEF HasRole
<1>13. RowsAreSound'
  <2>1. Empty'
    <3> SUFFICES ASSUME NEW x \in Workspaces, NEW v \in Users,
                        workspace[x] = NoWorkspace
                 PROVE  member'[x][v] = NoMember
      BY <1>1 DEF Empty
    <3>1. \A y \in Users : member[x][y] = NoMember
      BY DEF IInv, RowsAreSound, Empty
    <3>2. x # w
      BY <1>3, <3>1 DEF HasRole, NoMember, None
    <3> QED
      BY <1>9, <3>1, <3>2
  <2>2. SingleUse'
    <3> SUFFICES ASSUME NEW x \in Workspaces, NEW v \in Users,
                        member'[x][v].via # NoId
                 PROVE  /\ invite'[member'[x][v].via].in = x
                        /\ invite'[member'[x][v].via].accepted = v
      BY DEF SingleUse
    <3>1. CASE member'[x][v] = member[x][v]
      <4>1. /\ member[x][v].via \in Invites
            /\ invite[member[x][v].via].in = x
            /\ invite[member[x][v].via].accepted = v
        BY <3>1 DEF IInv, TypeOK, RowsAreSound, SingleUse
      <4>2. member[x][v].via # i
        BY <1>2, <4>1, MembersAssumption
      <4> QED
        BY <1>4, <3>1, <4>1, <4>2
    <3>2. CASE x = w /\ v = u /\ member'[x][v] = row
      BY <1>2, <1>4, <3>2 DEF row
    <3> QED
      BY <1>9, <3>1, <3>2
  <2>3. RolesAreGranted'
    <3> SUFFICES ASSUME NEW x \in Workspaces, NEW v \in Users
                 PROVE  /\ member'[x][v].role = "owner" <=> workspace[x].by = v
                        /\ member'[x][v].role \in InviteRoles =>
                              /\ member'[x][v].via # NoId
                              /\ member'[x][v].role = invite'[member'[x][v].via].role
                              /\ member'[x][invite'[member'[x][v].via].by].role
                                    \in {"owner", "admin"}
      <4>1. workspace' = workspace
        BY <1>1
      <4> QED
        BY <4>1 DEF RolesAreGranted
    <3>1. /\ member[x][v].role = "owner" <=> workspace[x].by = v
          /\ member[x][v].role \in InviteRoles =>
                /\ member[x][v].via # NoId
                /\ member[x][v].role = invite[member[x][v].via].role
      BY DEF IInv, RowsAreSound, RolesAreGranted
    <3>2. CASE member'[x][v] = member[x][v]
      <4> SUFFICES ASSUME member[x][v].role \in InviteRoles
                   PROVE  /\ member[x][v].role = invite'[member[x][v].via].role
                          /\ member'[x][invite'[member[x][v].via].by].role
                                \in {"owner", "admin"}
        BY <3>1, <3>2
      <4> DEFINE j == member[x][v].via
      <4>1. j \in Invites /\ invite[j].in = x /\ invite[j].role \in InviteRoles
        BY <3>1 DEF IInv, TypeOK, RowsAreSound, SingleUse
      <4>2. invite[j] # NoInvite
        BY <4>1 DEF NoInvite, InviteRoles, None
      <4> QED
        BY <1>4, <1>12, <3>1, <4>1, <4>2 DEF HasRole
    <3>3. CASE q.new /\ x = w /\ v = u /\ member'[x][v] = row
      <4>1. ~IsMember(u, w) /\ workspace[x].by # v
        BY <1>2, <3>1, <3>3 DEF IsMember, None
      <4>2. member'[w][invite'[i].by].role \in {"owner", "admin"}
        BY <1>2, <1>4, <1>12 DEF HasRole
      <4> QED
        BY <1>2, <1>3, <1>4, <3>3, <4>1, <4>2
           DEF row, HasRole, InviteRoles
    <3> QED
      BY <1>9, <3>2, <3>3
  <2>4. InvitesAreSound'
    BY <1>4, <1>12 DEF IInv, RowsAreSound, InvitesAreSound
  <2>5. Homes'
    BY <1>1, <1>11 DEF IInv, RowsAreSound, Homes, IsMember
  <2> QED
    BY <2>1, <2>2, <2>3, <2>4, <2>5 DEF RowsAreSound
<1>14. Ready(r)'
  BY <1>2, <1>8 DEF Ready
<1>15. ASSUME NEW x \in Requests \ {r}
       PROVE  Ready(x)'
  <2>1. Ready(x) /\ request'[x] = request[x] /\ Apart(x, r) /\ Apart(r, x)
    BY <1>7 DEF IInv, InFlight
  <2>2. Holds(x, request[x].invite) => request[x].invite # i
    BY <1>1, <2>1 DEF Apart, Holds, q, i
  <2>3. request[x].at = "mark" /\ request[x].new /\ q.new =>
            request[x].user # u \/ request[x].workspace # w
    BY <1>1, <2>1 DEF Apart, InsertedBy, q, u, w
  <2>4. request[x].at = "mark" /\ request[x].new =>
            ~IsMember(request[x].user, request[x].workspace)'
    BY <1>9, <2>1, <2>3 DEF Ready, IsMember
  <2>5. request[x].at = "profile" =>
            IsMember(request[x].user, request[x].workspace)'
    BY <1>11, <2>1 DEF Ready, IsMember
  <2> QED
    BY <1>4, <2>1, <2>2, <2>4, <2>5 DEF Ready, Holds
<1>16. ASSUME NEW x \in Requests, NEW y \in Requests, x # y
       PROVE  Apart(x, y)'
  BY <1>7, <1>8, <1>16 DEF IInv, InFlight, Apart, Holds, InsertedBy
<1> QED
  BY <1>10, <1>13, <1>14, <1>15, <1>16 DEF IInv, InFlight

----------------------------------------------------------------------------
(* The theorems *)

LEMMA Initially == Init => IInv
<1> SUFFICES ASSUME Init PROVE IInv
  OBVIOUS
<1>1. TypeOK
  BY IdleTyped, MembersAssumption
     DEF Init, TypeOK, NoProfile, NoWorkspace, NoMember, NoInvite
<1>2. RowsAreSound
  BY MembersAssumption
     DEF Init, RowsAreSound, Empty, SingleUse, RolesAreGranted, InvitesAreSound,
         Homes, NoProfile, NoWorkspace, NoMember, NoInvite, None, InviteRoles
<1>3. InFlight
  BY DEF Init, InFlight, Ready, Apart, Holds, InsertedBy, Idle
<1> QED
  BY <1>1, <1>2, <1>3 DEF IInv

LEMMA FaultStep ==
    ASSUME IInv, NEW r \in Requests, Fault(r)
    PROVE  IInv'
<1>1. Return(r) /\ UNCHANGED rows /\ begun' \in 0..MaxRequests
  BY DEF Fault, IInv, TypeOK
<1>2. faults' \in 0..MaxFaults
  BY MembersAssumption DEF Fault, IInv, TypeOK
<1> QED
  BY <1>1, <1>2, ReturnStep

LEMMA Inductive == IInv /\ [Next]_vars => IInv'
<1> SUFFICES ASSUME IInv, [Next]_vars PROVE IInv'
  OBVIOUS
<1>1. CASE UNCHANGED vars
  BY <1>1 DEF vars, rows, IInv, TypeOK, RowsAreSound, Empty, SingleUse,
     RolesAreGranted, InvitesAreSound, HasRole, Homes, IsMember, InFlight,
     Ready, Apart, Holds, InsertedBy
<1>2. CASE \E u \in Users : SignUp(u)
  BY <1>2, SignUpStep
<1>3. CASE \E i \in Invites : Expire(i)
  BY <1>3, ExpireStep
<1>4. ASSUME NEW r \in Requests,
             OpenOnboarding(r) \/ CompleteOnboarding(r) \/ CreateInvite(r)
                \/ AcceptInvite(r)
      PROVE  IInv'
  BY <1>4, OpenOnboardingStep, CompleteOnboardingStep, CreateInviteStep,
     AcceptInviteStep
<1>5. ASSUME NEW r \in Requests, Step(r)
      PROVE  IInv'
  <2>1. CASE ReadSlug(r)
    BY <2>1, ReturnStep DEF ReadSlug, IInv, TypeOK
  <2> QED
    BY <1>5, <2>1, CreateWorkspaceStep, SlugTakenStep, UpdateProfileStep,
       CreateWorkspaceInviteStep, LockInviteStep, InsertMemberStep,
       MarkAcceptedStep DEF Step
<1>6. ASSUME NEW r \in Requests, Fault(r)
      PROVE  IInv'
  BY <1>6, FaultStep
<1> QED
  BY <1>1, <1>2, <1>3, <1>4, <1>5, <1>6 DEF Next

LEMMA Invariant == Spec => []IInv
BY Initially, Inductive, PTL DEF Spec

\* Rows and requests keep their types.
THEOREM MembersTypeCorrect == Spec => []TypeOK
<1>1. IInv => TypeOK
  BY DEF IInv
<1> QED
  BY <1>1, Invariant, PTL

\* accept_invite: an invite makes at most one member, in its own workspace.
THEOREM InvitesAreSingleUse == Spec => []SingleUse
<1>1. IInv => SingleUse
  BY DEF IInv, RowsAreSound
<1> QED
  BY <1>1, Invariant, PTL

\* handle_new_workspace, create_workspace_invite and accept_invite: a role is
\* the creator's, or that of an invite an owner or admin wrote.
THEOREM RolesComeFromGrants == Spec => []RolesAreGranted
<1>1. IInv => RolesAreGranted
  BY DEF IInv, RowsAreSound
<1> QED
  BY <1>1, Invariant, PTL

\* completeOnboarding: an onboarded user's default workspace is one they can
\* read.
THEOREM OnboardedHaveAHome == Spec => []OnboardedLands
<1>1. IInv => OnboardedLands
  BY MembersAssumption
     DEF IInv, RowsAreSound, Homes, OnboardedLands, Landing, NoId
<1> QED
  BY <1>1, Invariant, PTL

----------------------------------------------------------------------------
(* accept_invite as one step *)

\* Who was a member when a transaction found them to be one still is.
Counted ==
    \A r \in Requests :
        request[r].at = "mark" /\ ~request[r].new =>
            IsMember(request[r].user, request[r].workspace)

\* What a transaction of create_workspace writes.
LEMMA CreateFacts ==
    ASSUME IInv, NEW r \in Requests, CreateWorkspace(r)
    PROVE  \E w \in Workspaces :
              LET u == request[r].user
              IN  /\ u \in Users
                  /\ workspace[w] = NoWorkspace
                  /\ \A x \in Workspaces :
                        workspace'[x].by = IF x = w THEN u ELSE workspace[x].by
                  /\ \A x \in Workspaces, v \in Users :
                        member'[x][v].role = IF x = w /\ v = u THEN "owner"
                                             ELSE member[x][v].role
                  /\ invite' = invite
<1>1. PICK s \in Candidates(r), w \in Workspaces :
          /\ FirstFree(w, FreeWorkspaces)
          /\ workspace' = [workspace EXCEPT ![w] = [slug |-> s, by |-> request[r].user]]
          /\ member' = [member EXCEPT ![w][request[r].user].role = "owner"]
  BY DEF CreateWorkspace
<1> DEFINE u == request[r].user
           row == [member[w][u] EXCEPT !.role = "owner"]
           line == [member[w] EXCEPT ![u] = row]
           Row == [role : Roles \union {None}, via : Invites \union {NoId}]
<1>2. u \in Users /\ workspace[w] = NoWorkspace /\ invite' = invite
  BY <1>1 DEF CreateWorkspace, IInv, InFlight, Ready, FirstFree, FreeWorkspaces
<1>3. member \in [Workspaces -> [Users -> Row]]
  BY DEF IInv, TypeOK
<1>4. member[w] \in [Users -> Row] /\ member[w][u] \in Row
  BY <1>2, <1>3
<1>5. row.role = "owner"
  BY <1>4
<1>6. line[u] = row /\ \A v \in Users \ {u} : line[v] = member[w][v]
  BY <1>2, <1>4
<1>7. member' = [member EXCEPT ![w] = line]
  BY <1>1
<1> HIDE DEF line, row, Row
<1>8. \A x \in Workspaces : member'[x] = IF x = w THEN line ELSE member[x]
  BY <1>3, <1>7
<1>9. \A x \in Workspaces, v \in Users :
          member'[x][v].role = IF x = w /\ v = u THEN "owner" ELSE member[x][v].role
  BY <1>5, <1>6, <1>8
<1>10. \A x \in Workspaces :
          workspace'[x].by = IF x = w THEN u ELSE workspace[x].by
  BY <1>1 DEF IInv, TypeOK
<1> QED
  BY <1>2, <1>9, <1>10

\* What a transaction of accept_invite commits.
LEMMA CommitFacts ==
    ASSUME IInv, NEW r \in Requests, MarkAccepted(r)
    PROVE  LET q == request[r]
           IN  /\ q.at = "mark" /\ q.user \in Users /\ q.workspace \in Workspaces
               /\ q.invite \in Invites /\ invite[q.invite] # NoInvite
               /\ invite[q.invite].in = q.workspace
               /\ invite[q.invite].role \in InviteRoles
               /\ invite[q.invite].accepted = None
               /\ q.new => ~IsMember(q.user, q.workspace)
               /\ \A x \in Workspaces, v \in Users :
                     member'[x][v].role =
                         IF q.new /\ x = q.workspace /\ v = q.user
                         THEN invite[q.invite].role ELSE member[x][v].role
               /\ \A j \in Invites :
                     /\ invite'[j].in = invite[j].in
                     /\ invite'[j].role = invite[j].role
                     /\ invite'[j].accepted = IF j = q.invite THEN q.user
                                              ELSE invite[j].accepted
               /\ workspace' = workspace
<1> DEFINE q == request[r]
           u == q.user
           w == q.workspace
           i == q.invite
           row == [role |-> invite[i].role, via |-> i]
           line == [member[w] EXCEPT ![u] = row]
           Row == [role : Roles \union {None}, via : Invites \union {NoId}]
<1>1. /\ member' = IF q.new THEN [member EXCEPT ![w][u] = row] ELSE member
      /\ invite' = [invite EXCEPT ![i].accepted = u]
      /\ workspace' = workspace
      /\ q.at = "mark"
  BY DEF MarkAccepted
<1>2. /\ u \in Users /\ w \in Workspaces /\ i \in Invites
      /\ invite[i] # NoInvite /\ invite[i].in = w /\ invite[i].accepted = None
      /\ q.new => ~IsMember(u, w)
  BY <1>1 DEF IInv, InFlight, Ready
<1>3. invite[i].role \in InviteRoles
  BY <1>2 DEF IInv, RowsAreSound, InvitesAreSound
<1>4. \A j \in Invites :
          /\ invite'[j].in = invite[j].in
          /\ invite'[j].role = invite[j].role
          /\ invite'[j].accepted = IF j = i THEN u ELSE invite[j].accepted
  BY <1>1, <1>2 DEF IInv, TypeOK
<1>5. member \in [Workspaces -> [Users -> Row]]
  BY DEF IInv, TypeOK
<1>6. line[u] = row /\ \A v \in Users \ {u} : line[v] = member[w][v]
  BY <1>2, <1>5
<1>7. q.new => member' = [member EXCEPT ![w] = line]
  BY <1>1
<1>8. row.role = invite[i].role
  OBVIOUS
<1> HIDE DEF line, row, Row
<1>9. q.new => \A x \in Workspaces : member'[x] = IF x = w THEN line ELSE member[x]
  BY <1>5, <1>7
<1>10. \A x \in Workspaces, v \in Users :
          member'[x][v].role = IF q.new /\ x = w /\ v = u
                               THEN invite[i].role ELSE member[x][v].role
  <2>1. CASE q.new
    BY <1>6, <1>8, <1>9, <2>1
  <2>2. CASE ~q.new
    BY <1>1, <2>2
  <2> QED
    BY <2>1, <2>2
<1> QED
  BY <1>1, <1>2, <1>3, <1>4, <1>10

\* The steps that change nothing a reader of the rows can tell: what is left of
\* a workspace is its creator, of an invite its workspace, role and taker.
LEMMA Elsewhere ==
    ASSUME IInv, [Next]_vars,
           ~\E r \in Requests : \/ CreateWorkspace(r)
                                \/ CreateWorkspaceInvite(r)
                                \/ MarkAccepted(r)
    PROVE  /\ workspace' = workspace /\ member' = member
           /\ \A i \in Invites : /\ invite'[i].in = invite[i].in
                                 /\ invite'[i].role = invite[i].role
                                 /\ invite'[i].accepted = invite[i].accepted
<1>1. CASE \E i \in Invites : Expire(i)
  <2>1. PICK i \in Invites : invite' = [invite EXCEPT ![i].expired = TRUE]
    BY <1>1 DEF Expire
  <2>2. workspace' = workspace /\ member' = member
    BY <1>1 DEF Expire
  <2> QED
    BY <2>1, <2>2 DEF IInv, TypeOK
<1>2. CASE \E u \in Users : SignUp(u)
  BY <1>2 DEF SignUp
<1>3. ASSUME NEW r \in Requests,
             OpenOnboarding(r) \/ CompleteOnboarding(r) \/ CreateInvite(r)
                \/ AcceptInvite(r) \/ Fault(r)
      PROVE  UNCHANGED <<workspace, member, invite>>
  BY <1>3 DEF OpenOnboarding, CompleteOnboarding, CreateInvite, AcceptInvite,
     Fault, Begin, rows
<1>4. ASSUME NEW r \in Requests,
             SlugTaken(r) \/ UpdateProfile(r) \/ LockInvite(r) \/ InsertMember(r)
                \/ ReadSlug(r)
      PROVE  UNCHANGED <<workspace, member, invite>>
  BY <1>4 DEF SlugTaken, UpdateProfile, LockInvite, InsertMember, ReadSlug, rows
<1>5. CASE UNCHANGED vars
  BY <1>5 DEF vars, rows
<1> QED
  BY <1>1, <1>2, <1>3, <1>4, <1>5 DEF Next, Step

\* A member stays one.
LEMMA MembersStay ==
    ASSUME IInv, [Next]_vars
    PROVE  \A w \in Workspaces, u \in Users : IsMember(u, w) => IsMember(u, w)'
<1>1. ASSUME NEW r \in Requests, CreateWorkspace(r)
      PROVE  \A w \in Workspaces, u \in Users : IsMember(u, w) => IsMember(u, w)'
  BY <1>1, CreateFacts DEF IsMember, None
<1>2. ASSUME NEW r \in Requests, MarkAccepted(r)
      PROVE  \A w \in Workspaces, u \in Users : IsMember(u, w) => IsMember(u, w)'
  BY <1>2, CommitFacts DEF IsMember, None, InviteRoles
<1>3. ASSUME NEW r \in Requests, CreateWorkspaceInvite(r)
      PROVE  member' = member
  BY <1>3 DEF CreateWorkspaceInvite
<1> QED
  BY <1>1, <1>2, <1>3, Elsewhere DEF IsMember

\* A transaction gets to its end by looking for the member.
LEMMA OnlyInsertMarks ==
    ASSUME IInv, [Next]_vars, NEW r \in Requests, request'[r].at = "mark"
    PROVE  request'[r] = request[r] \/ InsertMember(r)
<1>1. ASSUME NEW s \in Requests, NEW q, request' = [request EXCEPT ![s] = q],
             q.at # "mark"
      PROVE  request'[r] = request[r]
  BY <1>1 DEF IInv, TypeOK
<1>2. \A s \in Requests : Return(s) => request'[r] = request[r]
  BY <1>1 DEF Return, Idle
<1>3. ASSUME NEW s \in Requests, NEW at, Go(s, at), at # "mark"
      PROVE  request'[r] = request[r]
  BY <1>3 DEF Go, IInv, TypeOK, Request
<1>4. ASSUME NEW s \in Requests,
             OpenOnboarding(s) \/ CreateInvite(s) \/ AcceptInvite(s)
      PROVE  request'[r] = request[r]
  <2>1. CASE OpenOnboarding(s)
    <3>1. PICK u \in Users : request' = [request EXCEPT ![s] =
                                 [Idle EXCEPT !.at = "form", !.user = u]]
      BY <2>1 DEF OpenOnboarding, Begin
    <3>2. [Idle EXCEPT !.at = "form", !.user = u].at # "mark"
      BY DEF Idle
    <3> QED
      BY <1>1, <3>1, <3>2
  <2>2. CASE CreateInvite(s)
    <3>1. PICK u \in Users, w \in Workspaces, i \in Invites :
              request' = [request EXCEPT ![s] =
                  [Idle EXCEPT !.at = "rpc", !.user = u, !.workspace = w,
                               !.invite = i]]
      BY <2>2 DEF CreateInvite, Begin
    <3>2. [Idle EXCEPT !.at = "rpc", !.user = u, !.workspace = w,
                       !.invite = i].at # "mark"
      BY DEF Idle
    <3> QED
      BY <1>1, <3>1, <3>2
  <2>3. CASE AcceptInvite(s)
    <3>1. PICK u \in Users, i \in Invites :
              request' = [request EXCEPT ![s] =
                  [Idle EXCEPT !.at = "lock", !.user = u, !.invite = i,
                               !.workspace = invite[i].in,
                               !.late = invite[i].expired]]
      BY <2>3 DEF AcceptInvite, Begin
    <3>2. [Idle EXCEPT !.at = "lock", !.user = u, !.invite = i,
                       !.workspace = invite[i].in,
                       !.late = invite[i].expired].at # "mark"
      BY DEF Idle
    <3> QED
      BY <1>1, <3>1, <3>2
  <2> QED
    BY <1>4, <2>1, <2>2, <2>3
<1>5. ASSUME NEW s \in Requests,
             CompleteOnboarding(s) \/ CreateWorkspace(s)
      PROVE  request'[r] = request[r]
  <2>1. request \in [Requests -> Request]
    BY DEF IInv, TypeOK
  <2>2. CASE CompleteOnboarding(s)
    <3>1. PICK slug \in Names :
              request' = [request EXCEPT ![s].at = "create", ![s].slug = slug]
      BY <2>2 DEF CompleteOnboarding
    <3> QED
      BY <2>1, <3>1 DEF Request
  <2>3. CASE CreateWorkspace(s)
    <3>1. PICK w \in Workspaces :
              request' = [request EXCEPT ![s].at = "profile", ![s].workspace = w]
      BY <2>3 DEF CreateWorkspace
    <3> QED
      BY <2>1, <3>1 DEF Request
  <2> QED
    BY <1>5, <2>2, <2>3
<1>6. ASSUME NEW s \in Requests, SlugTaken(s)
      PROVE  request'[r] = request[r]
  <2>1. CASE Return(s)
    BY <1>2, <2>1
  <2>2. CASE request' = [request EXCEPT ![s].attempt = @ + 1]
    BY <1>6, <2>2 DEF SlugTaken, IInv, TypeOK, Request
  <2> QED
    BY <1>6, <2>1, <2>2 DEF SlugTaken
<1>7. ASSUME NEW s \in Requests,
             UpdateProfile(s) \/ CreateWorkspaceInvite(s) \/ ReadSlug(s) \/ Fault(s)
      PROVE  request'[r] = request[r]
  BY <1>2, <1>7 DEF UpdateProfile, CreateWorkspaceInvite, ReadSlug, Fault
<1>8. ASSUME NEW s \in Requests, LockInvite(s) \/ MarkAccepted(s)
      PROVE  request'[r] = request[r]
  BY <1>2, <1>3, <1>8 DEF LockInvite, MarkAccepted
<1>9. ASSUME NEW s \in Requests \ {r}, InsertMember(s)
      PROVE  request'[r] = request[r]
  BY <1>9 DEF InsertMember, IInv, TypeOK
<1>10. CASE UNCHANGED vars \/ (\E u \in Users : SignUp(u))
              \/ (\E i \in Invites : Expire(i))
  BY <1>10 DEF vars, SignUp, Expire
<1> QED
  BY <1>4, <1>5, <1>6, <1>7, <1>8, <1>9, <1>10 DEF Next, Step

\* No step takes the count away.
LEMMA CountedStays ==
    ASSUME IInv, Counted, [Next]_vars
    PROVE  Counted'
<1> SUFFICES ASSUME NEW r \in Requests,
                    request'[r].at = "mark", ~request'[r].new
             PROVE  IsMember(request[r].user, request[r].workspace)'
  BY DEF Counted
<1>1. CASE request'[r] = request[r]
  <2>1. /\ IsMember(request[r].user, request[r].workspace)
        /\ request[r].user \in Users /\ request[r].workspace \in Workspaces
    BY <1>1 DEF Counted, IInv, InFlight, Ready
  <2>2. IsMember(request[r].user, request[r].workspace) =>
            member'[request[r].workspace][request[r].user].role # None
    BY <2>1, MembersStay DEF IsMember
  <2> QED
    BY <1>1, <2>1, <2>2 DEF IsMember
<1>2. CASE InsertMember(r)
  BY <1>2 DEF InsertMember, IsMember, rows, IInv, TypeOK, Request
<1> QED
  BY <1>1, <1>2, OnlyInsertMarks

\* Nothing a reader can tell has changed.
LEMMA NothingToTell ==
    ASSUME workspace' = workspace, member' = member,
           \A i \in Invites : /\ invite'[i].in = invite[i].in
                              /\ invite'[i].role = invite[i].role
                              /\ invite'[i].accepted = invite[i].accepted
    PROVE  UNCHANGED <<Creators, RolesHeld, Offers>>
BY DEF Creators, RolesHeld, Offers

\* One role changes.
LEMMA OneRole ==
    ASSUME NEW w \in Workspaces, NEW u \in Users, NEW role,
           \A x \in Workspaces, v \in Users :
               member'[x][v].role = IF x = w /\ v = u THEN role
                                    ELSE member[x][v].role
    PROVE  RolesHeld' = [RolesHeld EXCEPT ![w][u] = role]
<1> DEFINE line == [RolesHeld[w] EXCEPT ![u] = role]
<1>1. /\ RolesHeld = [x \in Workspaces |-> RolesHeld[x]]
      /\ RolesHeld' = [x \in Workspaces |-> RolesHeld'[x]]
  BY DEF RolesHeld
<1>2. \A x \in Workspaces :
          /\ RolesHeld[x] = [v \in Users |-> member[x][v].role]
          /\ RolesHeld'[x] = [v \in Users |-> member'[x][v].role]
  BY DEF RolesHeld
<1>3. \A x \in Workspaces : x # w => RolesHeld'[x] = RolesHeld[x]
  BY <1>2
<1>4. RolesHeld'[w] = line
  <2> DEFINE expected == [v \in Users |-> IF v = u THEN role ELSE member[w][v].role]
  <2>1. RolesHeld'[w] = [v \in Users |-> member'[w][v].role]
    BY <1>2
  <2>2. \A v \in Users :
            member'[w][v].role = IF v = u THEN role ELSE member[w][v].role
    OBVIOUS
  <2>3. RolesHeld'[w] = expected
    BY <2>1, <2>2
  <2>4. RolesHeld[w] = [v \in Users |-> member[w][v].role]
    BY <1>2
  <2>5. line = expected
    BY <2>4
  <2> QED
    BY <2>3, <2>5
<1> HIDE DEF line
<1>5. RolesHeld' = [RolesHeld EXCEPT ![w] = line]
  BY <1>1, <1>3, <1>4
<1> QED
  BY <1>5 DEF line

\* A created workspace is founded.
LEMMA CreateFounds ==
    ASSUME IInv, NEW r \in Requests, CreateWorkspace(r)
    PROVE  AtOnce!Next
<1> DEFINE u == request[r].user
<1>1. PICK w \in Workspaces :
          /\ u \in Users
          /\ workspace[w] = NoWorkspace
          /\ \A x \in Workspaces :
                workspace'[x].by = IF x = w THEN u ELSE workspace[x].by
          /\ \A x \in Workspaces, v \in Users :
                member'[x][v].role = IF x = w /\ v = u THEN "owner"
                                     ELSE member[x][v].role
          /\ invite' = invite
  BY CreateFacts
<1> HIDE DEF u
<1>2. Creators[w] = None
  BY <1>1 DEF Creators, NoWorkspace
<1>3. Creators' = [Creators EXCEPT ![w] = u]
  BY <1>1 DEF Creators
<1>4. RolesHeld' = [RolesHeld EXCEPT ![w][u] = "owner"]
  BY <1>1, OneRole
<1>5. Offers' = Offers
  BY <1>1 DEF Offers
<1>6. AtOnce!Found(u, w)
  BY <1>2, <1>3, <1>4, <1>5 DEF AtOnce!Found
<1> QED
  BY <1>1, <1>6 DEF AtOnce!Next

\* An invite that is stored is offered; one refused changes nothing.
LEMMA InviteOffers ==
    ASSUME IInv, NEW r \in Requests, CreateWorkspaceInvite(r)
    PROVE  AtOnce!Next \/ UNCHANGED <<Creators, RolesHeld, Offers>>
<1> DEFINE q == request[r]
           u == q.user
           w == q.workspace
           i == q.invite
<1>1. /\ u \in Users /\ w \in Workspaces /\ i \in Invites /\ invite[i] = NoInvite
      /\ UNCHANGED <<workspace, member>>
  BY DEF CreateWorkspaceInvite, IInv, InFlight, Ready
<1>2. CASE invite' = invite
  BY <1>1, <1>2, NothingToTell
<1>3. CASE invite' # invite
  <2>1. PICK role \in InviteRoles :
            invite' = [invite EXCEPT ![i] =
                          [NoInvite EXCEPT !.in = w, !.role = role, !.by = u]]
    BY <1>3 DEF CreateWorkspaceInvite
  <2>2. HasRole(u, w, {"owner", "admin"})
    BY <1>3 DEF CreateWorkspaceInvite
  <2> DEFINE new == [NoInvite EXCEPT !.in = w, !.role = role, !.by = u]
  <2>3. new.in = w /\ new.role = role /\ new.accepted = None
    BY DEF NoInvite
  <2>4. invite' = [invite EXCEPT ![i] = new]
    BY <2>1
  <2> HIDE DEF new, u, w, i
  <2>5. /\ invite'[i] = new
        /\ \A j \in Invites \ {i} : invite'[j] = invite[j]
    BY <1>1, <2>4 DEF IInv, TypeOK
  <2>6. Offers' = [Offers EXCEPT ![i] = [in |-> w, role |-> role, taker |-> None]]
    BY <1>1, <2>3, <2>5 DEF Offers
  <2>7. Offers[i] = AtOnce!NoOffer
    BY <1>1 DEF Offers, AtOnce!NoOffer, NoInvite
  <2>8. RolesHeld[w][u] \in {"owner", "admin"}
    BY <1>1, <2>2 DEF RolesHeld, HasRole
  <2>9. UNCHANGED <<Creators, RolesHeld>>
    BY <1>1 DEF Creators, RolesHeld
  <2>10. AtOnce!Offer(u, w, i)
    BY <2>1, <2>6, <2>7, <2>8, <2>9 DEF AtOnce!Offer, InviteRoles
  <2> QED
    BY <1>1, <2>10 DEF AtOnce!Next
<1> QED
  BY <1>2, <1>3

\* A transaction that commits takes the invite: what it decided when it looked
\* for the member is what it would decide now.
LEMMA CommitTakes ==
    ASSUME IInv, Counted, NEW r \in Requests, MarkAccepted(r)
    PROVE  AtOnce!Next
<1> DEFINE q == request[r]
           u == q.user
           w == q.workspace
           i == q.invite
<1>1. /\ q.at = "mark" /\ u \in Users /\ w \in Workspaces /\ i \in Invites
      /\ invite[i] # NoInvite /\ invite[i].in = w
      /\ invite[i].role \in InviteRoles
      /\ invite[i].accepted = None
      /\ q.new => ~IsMember(u, w)
      /\ \A x \in Workspaces, v \in Users :
            member'[x][v].role = IF q.new /\ x = w /\ v = u THEN invite[i].role
                                 ELSE member[x][v].role
      /\ \A j \in Invites :
            /\ invite'[j].in = invite[j].in
            /\ invite'[j].role = invite[j].role
            /\ invite'[j].accepted = IF j = i THEN u ELSE invite[j].accepted
      /\ workspace' = workspace
  BY CommitFacts
<1>2. q.new <=> member[w][u].role = None
  BY <1>1 DEF Counted, IsMember
<1> HIDE DEF u, w, i, q
<1>3. \A x \in Workspaces, v \in Users :
          member'[x][v].role = IF x = w /\ v = u /\ member[x][v].role = None
                               THEN invite[i].role ELSE member[x][v].role
  BY <1>1, <1>2
<1>4. /\ Offers[i].in = w /\ Offers[i].role = invite[i].role
      /\ Offers[i].taker = None
  BY <1>1 DEF Offers
<1>5. Offers[i] # AtOnce!NoOffer
  BY <1>1, <1>4 DEF AtOnce!NoOffer, InviteRoles, None
<1>6. Offers' = [Offers EXCEPT ![i].taker = u]
  BY <1>1 DEF Offers
<1>7. RolesHeld' = [RolesHeld EXCEPT ![w][u] =
                       IF @ = None THEN Offers[i].role ELSE @]
  <2> DEFINE role == IF member[w][u].role = None THEN invite[i].role
                     ELSE member[w][u].role
  <2>1. \A x \in Workspaces, v \in Users :
            member'[x][v].role = IF x = w /\ v = u THEN role
                                 ELSE member[x][v].role
    BY <1>3
  <2>2. RolesHeld[w][u] = member[w][u].role
    BY <1>1 DEF RolesHeld
  <2>3. role = IF RolesHeld[w][u] = None THEN Offers[i].role ELSE RolesHeld[w][u]
    BY <1>4, <2>2
  <2> HIDE DEF role
  <2>4. RolesHeld' = [RolesHeld EXCEPT ![w][u] = role]
    BY <1>1, <2>1, OneRole
  <2> QED
    BY <2>3, <2>4
<1>8. Creators' = Creators
  BY <1>1 DEF Creators
<1>9. AtOnce!Take(u, i)
  BY <1>4, <1>5, <1>6, <1>7, <1>8 DEF AtOnce!Take
<1> QED
  BY <1>1, <1>9 DEF AtOnce!Next

\* Every step is one of the abstract membership, or nothing.
LEMMA NextIsAtOnce ==
    ASSUME IInv, Counted, [Next]_vars
    PROVE  [AtOnce!Next]_<<Creators, RolesHeld, Offers>>
BY CreateFounds, InviteOffers, CommitTakes, Elsewhere, NothingToTell

\* In the beginning there is nothing.
LEMMA InitIsAtOnce ==
    ASSUME Init
    PROVE  AtOnce!Init
BY DEF Init, AtOnce!Init, AtOnce!NoOffer, Creators, RolesHeld, Offers,
       NoWorkspace, NoMember, NoInvite

\* accept_invite (0004) and its neighbours implement the abstract membership:
\* three steps that wait for each other's locks look like one, which takes an
\* invite once and leaves the roles of members alone.
THEOREM AcceptIsAtomic == Spec => InvitesAreAtomic
<1>1. Init => AtOnce!Init /\ Counted
  BY InitIsAtOnce DEF Init, Counted, Idle
<1>2. IInv /\ Counted /\ [Next]_vars => Counted'
  BY CountedStays
<1>3. IInv /\ Counted /\ [Next]_vars =>
          [AtOnce!Next]_<<Creators, RolesHeld, Offers>>
  BY NextIsAtOnce
<1> QED
  BY <1>1, <1>2, <1>3, Invariant, PTL DEF Spec, InvitesAreAtomic, AtOnce!Spec

=============================================================================
