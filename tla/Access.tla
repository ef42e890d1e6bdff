--------------------------------- MODULE Access ---------------------------------
(***************************************************************************)
(* Who may do what with a project: the members of an organization, the     *)
(* members of its team, the collaborators of the project, the role every   *)
(* user gets of them and the permissions of a role - composed with the     *)
(* subscription of the organization, whose plan caps members and           *)
(* collaborators.                                                          *)
(*                                                                         *)
(* Abstractions:                                                           *)
(*  - One organization, one team of it, one project.  People keep the      *)
(*    unexpiring plan PersonPlan.                                          *)
(*  - One request at a time.  Staff may send any; the owner of the         *)
(*    organization may always change its members and team members.         *)
(*  - A request that is refused after it created the current subscription  *)
(*    is a LookUp.                                                         *)
(*  - The quota of the new owner of a project, its name among the owner's  *)
(*    projects, and what staff can do in bulk are left out.                *)
(***************************************************************************)
EXTENDS Subscriptions

CONSTANTS
    People, Organization, Team,
    Founder,     \* who owns the organization at first
    PersonPlan,  \* the plan of people
    Roles,       \* the roles of collaborators that requests use
    None

Principals == People \cup {Team}
Owners == People \cup {Organization}
ALL_ROLES == {"admin", "manager", "editor", "reporter", "reader"}

ASSUME AccessAssumption ==
    /\ IsFiniteSet(People) /\ Founder \in People /\ PersonPlan \in Plans
    /\ Roles \subseteq ALL_ROLES /\ "reader" \in Roles
    /\ Organization \notin Principals /\ Team \notin People
    /\ None \notin ALL_ROLES \cup {"member"}

VARIABLES
    orgOwner,   \* organization.organization_owner
    members,    \* the role of every OrganizationMember
    teamMembers,
    collabs,    \* the role of every ProjectCollaborator
    incognito,  \* the collaborators with is_incognito
    projOwner,  \* project.owner
    isPublic,
    moved       \* history: the project has changed hands

orgVars == <<orgOwner, members, teamMembers>>
collabVars == <<collabs, incognito>>
projectVars == <<projOwner, isPublic, moved>>
vars == <<now, requests, subsVars, orgVars, collabVars, projectVars>>

TypeOK ==
    /\ SubscriptionsTypeOK
    /\ orgOwner \in People
    /\ members \in [People -> {"admin", "member", None}] /\ members[orgOwner] = None
    /\ teamMembers \subseteq People
    /\ collabs \in [Principals -> Roles \cup {None}]
    /\ incognito \subseteq {p \in People : collabs[p] # None}
    /\ projOwner \in Owners /\ isPublic \in BOOLEAN /\ moved \in BOOLEAN

MembersOf(m) == {p \in DOMAIN m : m[p] # None}

\* An organization with any members its plan allows, and a project of its own.
Init ==
    /\ SubscriptionsInit
    /\ orgOwner = Founder
    /\ members \in [People -> {"admin", "member", None}] /\ members[Founder] = None
    /\ \/ MaxMembers[subs[1].plan] = -1
       \/ Cardinality(MembersOf(members)) < MaxMembers[subs[1].plan]
    /\ teamMembers = {} /\ incognito = {}
    /\ collabs = [p \in Principals |-> None]
    /\ projOwner = Organization /\ isPublic \in BOOLEAN /\ moved = FALSE

-----------------------------------------------------------------------------
(* The roles.                                                              *)

\* The rows of organizations_with_roles_vw for a user, before DISTINCT ON.
OrganizationRows(u) ==
    LET row(rank, name, holds) == IF holds THEN {[rank |-> rank, name |-> name]} ELSE {} IN
    row(1, "admin", u = orgOwner) \cup row(2, members[u], members[u] # None)

\* ORDER BY organization_id, user_id, rank.
OrganizationRole(u) ==
    {r \in OrganizationRows(u) : \A s \in OrganizationRows(u) : r.rank <= s.rank}

\* OrganizationQueryset.of_user: whom the view gives a role.
OfUser == {u \in People : OrganizationRole(u) # {}}

OrganizationAdmins == {p \in People : p = orgOwner \/ members[p] = "admin"}

\* The rows of projects_with_roles_vw for a user, before DISTINCT ON.
RoleRows(u) ==
    LET owned == projOwner = Organization
        row(rank, name, holds) == IF holds THEN {[rank |-> rank, name |-> name]} ELSE {} IN
    UNION {
        row(1, "admin", projOwner = u),
        row(2, "admin", owned /\ orgOwner = u),
        row(3, "admin", owned /\ members[u] = "admin"),
        row(4, collabs[u], collabs[u] # None),
        row(5, collabs[Team], collabs[Team] # None /\ u \in teamMembers),
        row(6, "reader", isPublic) }

\* As if what is granted for the project itself came first.
LowestRow(u) == {r \in RoleRows(u) : \A s \in RoleRows(u) : s.rank <= r.rank}

\* ORDER BY project_id, user_id, rank.
FirstRow(u) == {r \in RoleRows(u) : \A s \in RoleRows(u) : r.rank <= s.rank}

RolesOf(u) == {r.name : r \in FirstRow(u)}

-----------------------------------------------------------------------------
(* The plan of the project's owner, and whether a role is valid.           *)

\* current_subscriptions_vw leaves out both ends of a period.
ViewPlans ==
    IF projOwner # Organization THEN {PersonPlan}
    ELSE {r.plan : r \in {subs[i] : i \in {j \in DOMAIN subs : subs[j].since < now /\ now < subs[j].until}}}

PersonCollaborators == MembersOf(collabs) \ {Team}

Covers(plan, n) == MaxCollaborators[plan] = -1 \/ MaxCollaborators[plan] >= n

\* for_user: user_role_is_valid.  Incognito collaborators and an organization's
\* owner count.
IsValid(u) ==
    \/ isPublic
    \/ /\ \E plan \in ViewPlans : Covers(plan, Cardinality(PersonCollaborators))
       /\ projOwner = Organization => u \in OfUser

\* As if teams were counted like people.
CollaboratorsButOwner ==
    MembersOf(collabs) \ (incognito \cup {IF projOwner = Organization THEN orgOwner ELSE projOwner})

DirectCollaborators ==
    PersonCollaborators \ (incognito \cup {IF projOwner = Organization THEN orgOwner ELSE projOwner})

\* owner.useraccount.current_subscription: the rows after the look-up and the
\* plan, or no plan when it raises an error.
OwnersPlan ==
    IF projOwner # Organization THEN {[rows |-> subs, plan |-> PersonPlan]}
    ELSE {[rows |-> found.rows, plan |-> found.rows[found.sub].plan] :
            found \in {f \in GetOrCreate(subs) : f.sub # 0}}

\* project.status: TOO_MANY_COLLABORATORS.
TooManyCollaborators(plan) ==
    ~isPublic /\ ~Covers(plan, Cardinality(DirectCollaborators))

-----------------------------------------------------------------------------
(* The permissions of the roles (permissions_utils).                       *)

Anyone == ALL_ROLES
Reporters == ALL_ROLES \ {"reader"}
Editors == {"admin", "manager", "editor"}
Managers == {"admin", "manager"}

ProjectPermissions ==
    [access_project |-> Anyone, update_project |-> Managers, delete_project |-> Managers]

FilePermissions ==
    [create_files |-> Reporters, modify_qgis_projectfile |-> Reporters,
     modify_restricted_projectfile |-> Managers, read_files |-> Anyone, delete_files |-> Editors,
     delete_unnecessary_file_versions |-> {"admin"}]

DeltaPermissions ==
    [create_deltas |-> Reporters, read_deltas |-> Reporters, apply_pending_deltas |-> Managers,
     set_delta_status |-> Managers, create_delta |-> Editors, create_feature_delta |-> Reporters]

JobPermissions ==
    [list_jobs |-> Anyone, read_jobs |-> Reporters, create_package_job |-> Anyone,
     create_process_job |-> Reporters, create_project_secrets |-> {"admin"},
     delete_project_secrets |-> {"admin"}]

CollaboratorPermissions ==
    [create_collaborators |-> Managers, read_collaborators |-> Managers,
     update_collaborators |-> Managers, delete_collaborators |-> Managers, read_packages |-> Anyone]

\* Tables with different keys put together.
Joined(tables) ==
    [key \in UNION {DOMAIN table : table \in tables} |->
        (CHOOSE table \in tables : key \in DOMAIN table)[key]]

Permissions ==
    Joined({ProjectPermissions, FilePermissions, DeltaPermissions, JobPermissions,
            CollaboratorPermissions})

\* user_has_project_roles; can_retrieve_project asks for a valid role too.
Can(u, what) == RolesOf(u) \cap Permissions[what] # {}
CanRetrieve(u) == RolesOf(u) # {} /\ IsValid(u)

\* There is somebody who may send the request.
Allowed(what) == {u \in People : Can(u, what)} # {}

-----------------------------------------------------------------------------
(* The permissions of the roles in the organization.                       *)

SecretPermissions == [create_organization_secrets |-> {"admin"}, delete_organization_secrets |-> {"admin"}]

MemberPermissions ==
    [create_members |-> {"admin"}, update_members |-> {"admin"}, delete_members |-> {"admin"}]

OrganizationPermissions ==
    Joined({[create_project |-> {"admin"}, update_user |-> {"admin"}],
            SecretPermissions, MemberPermissions})

\* user_has_organization_roles.
CanInOrganization(u, what) ==
    \E r \in OrganizationRole(u) : r.name \in OrganizationPermissions[what]

\* There is somebody who may send the request.
AllowedInOrganization(what) == \E u \in People : CanInOrganization(u, what)

-----------------------------------------------------------------------------
(* Members of the organization and of its team.                            *)

\* clean() asks for the current subscription twice: for its class's property,
\* which then asks the account again.
CapPlans ==
    LET first  == {f \in GetOrCreate(subs) : f.sub # 0}
        second == UNION {{g \in GetOrCreate(f.rows) : g.sub # 0} : f \in first} IN
    {[rows |-> g.rows, plan |-> g.rows[g.sub].plan] : g \in second}

\* As if the organization could reach its cap with a request and then pass it.
HasRoomUpTo(plan, m) ==
    MaxMembers[plan] = -1 \/ Cardinality(MembersOf(m)) + 1 <= MaxMembers[plan]

\* One more than the members counts, for the owner.
HasRoom(plan, m) ==
    MaxMembers[plan] = -1 \/ Cardinality(MembersOf(m)) + 1 < MaxMembers[plan]

\* OrganizationMember.clean, of a row that joins the members m.
CleanMember(m) == \E found \in CapPlans : HasRoom(found.plan, m) /\ SubsBecome(found.rows)

AddMember(p, role) ==
    /\ Counted
    /\ AllowedInOrganization("create_members")
    /\ p # orgOwner /\ members[p] = None
    /\ CleanMember(members)
    /\ members' = [members EXCEPT ![p] = role]
    /\ UNCHANGED <<orgOwner, teamMembers, collabVars, projectVars>>

\* A change of the role is cleaned like a new member.
ChangeMember(p, role) ==
    /\ Counted
    /\ AllowedInOrganization("update_members")
    /\ members[p] \notin {None, role}
    /\ CleanMember(members)
    /\ members' = [members EXCEPT ![p] = role]
    /\ UNCHANGED <<orgOwner, teamMembers, collabVars, projectVars>>

\* As if a deletion of members took nothing else along.
StaysInProjects(p) == UNCHANGED collabVars

\* What goes with a membership: the places in teams of the organization and
\* the roles in its projects.
WithoutMember(m, p) == [m EXCEPT ![p] = None]

LeavesTeams(p) == teamMembers' = teamMembers \ {p}

LeavesProjects(p) ==
    /\ collabs' = IF projOwner = Organization THEN [collabs EXCEPT ![p] = None] ELSE collabs
    /\ incognito' = incognito \cap MembersOf(collabs')

\* OrganizationMember.delete.
RemoveMember(p) ==
    /\ Counted
    /\ AllowedInOrganization("delete_members")
    /\ members[p] # None
    /\ members' = WithoutMember(members, p)
    /\ LeavesTeams(p) /\ LeavesProjects(p)
    /\ UNCHANGED <<now, subsVars, orgOwner, projectVars>>

\* Organization.save with another owner, who is removed from the members; the
\* old owner becomes one.
TransferOrganization(p) ==
    LET others == WithoutMember(members, p) IN
    /\ Counted
    /\ p # orgOwner
    /\ IF members[p] # None THEN LeavesTeams(p) /\ LeavesProjects(p)
                            ELSE UNCHANGED <<teamMembers, collabVars>>
    /\ CleanMember(others)
    /\ members' = [others EXCEPT ![orgOwner] = "admin"]
    /\ orgOwner' = p
    /\ UNCHANGED projectVars

\* TeamMember.clean.
AddTeamMember(p) ==
    /\ Counted
    /\ AllowedInOrganization("create_members")
    /\ p \in OfUser \ teamMembers
    /\ teamMembers' = teamMembers \cup {p}
    /\ UNCHANGED <<now, subsVars, orgOwner, members, collabVars, projectVars>>

RemoveTeamMember(p) ==
    /\ Counted
    /\ AllowedInOrganization("delete_members")
    /\ p \in teamMembers
    /\ teamMembers' = teamMembers \ {p}
    /\ UNCHANGED <<now, subsVars, orgOwner, members, collabVars, projectVars>>

\* The team is deleted, with its members and its roles in projects, whoever
\* owns these; a team that is created has none, like one that is gone.
DeleteTeam ==
    /\ Counted
    /\ AllowedInOrganization("delete_members")
    /\ teamMembers # {} \/ collabs[Team] # None
    /\ teamMembers' = {}
    /\ collabs' = [collabs EXCEPT ![Team] = None]
    /\ UNCHANGED <<now, subsVars, orgOwner, members, incognito, projectVars>>

-----------------------------------------------------------------------------
(* Collaborators of the project.                                           *)

\* ProjectCollaborator.clean.  A team is not asked whose project it is, unless
\* that is an organization's.
CleanCollaborator(c) ==
    /\ c # projOwner
    /\ projOwner = Organization /\ c \in People => c \in OfUser

\* save() of a collaborator with the role.
SaveCollaborator(c, role) ==
    /\ CleanCollaborator(c)
    /\ collabs' = [collabs EXCEPT ![c] = role]
    /\ UNCHANGED <<orgVars, projectVars>>

\* The API: a new collaborator, incognito if staff add it.  The cap of the plan
\* is not looked at.
AddCollaborator(c, role, hidden) ==
    /\ Counted
    /\ Allowed("create_collaborators")
    /\ collabs[c] = None
    /\ SaveCollaborator(c, role)
    /\ incognito' = IF hidden THEN incognito \cup {c} ELSE incognito
    /\ UNCHANGED <<now, subsVars>>

ChangeCollaborator(c, role) ==
    /\ Counted
    /\ Allowed("update_collaborators")
    /\ collabs[c] \notin {None, role}
    /\ SaveCollaborator(c, role)
    /\ UNCHANGED <<now, subsVars, incognito>>

RemoveCollaborator(c) ==
    /\ Counted
    /\ Allowed("delete_collaborators")
    /\ collabs[c] # None
    /\ collabs' = [collabs EXCEPT ![c] = None]
    /\ incognito' = incognito \ {c}
    /\ UNCHANGED <<now, subsVars, orgVars, projectVars>>

\* check_can_become_collaborator, with the plan of the project's owner.
CanBecomeCollaborator(c, plan) ==
    /\ c # projOwner /\ collabs[c] = None
    /\ \/ MaxCollaborators[plan] = -1 \/ isPublic
       \/ Cardinality(DirectCollaborators) < MaxCollaborators[plan]
    /\ projOwner = Organization => c = Team \/ c \in OfUser
    /\ projOwner # Organization => c # Team /\ (isPublic \/ PersonPlan \in Premium)

\* create_collaborator, of the web pages.
CreateCollaborator(c) ==
    /\ Counted
    /\ \E found \in OwnersPlan :
          CanBecomeCollaborator(c, found.plan) /\ SubsBecome(found.rows)
    /\ SaveCollaborator(c, "reader")
    /\ UNCHANGED incognito

-----------------------------------------------------------------------------
(* The project.                                                            *)

\* perform_update with another owner, whose storage_free_bytes needs the
\* current subscription.  Collaborators stay.
TransferProject(owner) ==
    /\ Counted
    /\ Allowed("update_project")
    /\ owner # projOwner
    /\ IF owner = Organization
       THEN \E found \in GetOrCreate(subs) : found.sub # 0 /\ SubsBecome(found.rows)
       ELSE UNCHANGED <<now, subsVars>>
    /\ projOwner' = owner /\ moved' = TRUE
    /\ UNCHANGED <<orgVars, collabVars, isPublic>>

SetPublic(public) ==
    /\ Counted
    /\ Allowed("update_project")
    /\ isPublic' = public
    /\ isPublic # public
    /\ UNCHANGED <<now, subsVars, orgVars, collabVars, projOwner, moved>>

Next ==
    \/ Tick /\ UNCHANGED <<orgVars, collabVars, projectVars>>
    \/ SubscriptionsNext /\ UNCHANGED <<orgVars, collabVars, projectVars>>
    \/ \E p \in People, role \in {"admin", "member"} : AddMember(p, role) \/ ChangeMember(p, role)
    \/ \E p \in People :
          \/ RemoveMember(p) \/ TransferOrganization(p)
          \/ AddTeamMember(p) \/ RemoveTeamMember(p)
    \/ DeleteTeam
    \/ \E c \in Principals, role \in Roles :
          \/ \E hidden \in {FALSE, c # Team} : AddCollaborator(c, role, hidden)
          \/ ChangeCollaborator(c, role)
    \/ \E c \in Principals : RemoveCollaborator(c) \/ CreateCollaborator(c)
    \/ \E owner \in Owners : TransferProject(owner)
    \/ \E public \in BOOLEAN : SetPublic(public)

Spec == Init /\ [][Next]_vars

-----------------------------------------------------------------------------
(* Properties.                                                             *)

\* A project that says it has too many collaborators hides itself from every
\* user; the two are counted by different queries, for plans found by
\* different queries.
TooManyHides ==
    \A found \in OwnersPlan :
        TooManyCollaborators(found.plan) => \A u \in People : ~CanRetrieve(u)

\* Whatever makes somebody a member, transfers included, leaves no more of them
\* than the plan allows that is current.
MembersWithinPlan ==
    [][Cardinality(MembersOf(members')) > Cardinality(MembersOf(members)) =>
        \E i \in Current(subs') :
            \/ MaxMembers[subs'[i].plan] = -1
            \/ Cardinality(MembersOf(members')) + 1 <= MaxMembers[subs'[i].plan]]_vars
=============================================================================
