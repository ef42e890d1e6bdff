-------------------------------- MODULE Requests --------------------------------
(***************************************************************************)
(* The requests of the API about a project and its organization, and who   *)
(* is served: every view asks for a permission of Access, or for a row of  *)
(* its roles, and lists what its query finds.                              *)
(*                                                                         *)
(* Abstractions:                                                           *)
(*  - Everybody is authenticated and asks about the one project, its       *)
(*    organization or the team, which exist; what a request that is not    *)
(*    refused finds or fails on is in the modules of its subject.          *)
(*  - What a request answers to whom is left out, and so are staff, who    *)
(*    alone create users.                                                  *)
(***************************************************************************)
EXTENDS Access

CONSTANTS
    Cancellable, Modifiable \* the plans with is_cancellable and is_storage_modifiable

ASSUME RequestsAssumption == Cancellable \subseteq Plans /\ Modifiable \subseteq Plans

-----------------------------------------------------------------------------
(* The requests for which a role in the project is enough, each with the   *)
(* permission it asks for.                                                 *)

ProjectRequests ==
    [update_project |-> "update_project", destroy_project |-> "delete_project",
     upload_thumbnail |-> "create_files"]

CloneRequests == [clone_project |-> "access_project"]

FileLists == [list_files |-> "read_files", file_metadata |-> "read_files"]

FileRequests ==
    [get_file |-> "read_files", post_file |-> "create_files", delete_file |-> "delete_files"]

ThumbnailRequests == [get_thumbnail |-> "read_files"]

PackageLists == [latest_package |-> "access_project"]

PackageFileRequests == [package_file |-> "access_project"]

JobRequests ==
    [list_jobs |-> "list_jobs", retrieve_job |-> "list_jobs",
     package |-> "create_package_job", process_projectfile |-> "create_process_job",
     delta_apply |-> "create_process_job"]

DeltaLists == [list_deltas |-> "read_deltas", list_deltafile |-> "read_deltas"]

DeltaRequests == [post_deltas |-> "create_deltas", apply_deltas |-> "create_deltas"]

CollaboratorRequests ==
    [list_collaborators |-> "read_collaborators", get_collaborator |-> "read_collaborators",
     post_collaborator |-> "create_collaborators", put_collaborator |-> "update_collaborators",
     delete_collaborator |-> "delete_collaborators"]

RoleRequests ==
    Joined({ProjectRequests, CloneRequests, FileLists, FileRequests, ThumbnailRequests,
            PackageLists, PackageFileRequests, JobRequests, DeltaLists, DeltaRequests,
            CollaboratorRequests})

\* The detail of the project, its seed, and the packages a worker uploads for
\* whoever triggered its job, ask for a valid role.
SeedRequests == {"seed", "seed_xlsform"}

UploadRequests == {"upload_package_file"}

ValidRoleRequests == {"retrieve_project"} \cup SeedRequests \cup UploadRequests

Granted(u) ==
    LET roles == RolesOf(u) IN {what \in DOMAIN Permissions : roles \cap Permissions[what] # {}}

ServedInProject(u) ==
    LET granted == Granted(u) IN
    {r \in DOMAIN RoleRequests : RoleRequests[r] \in granted}
        \cup (IF CanRetrieve(u) THEN ValidRoleRequests ELSE {})

-----------------------------------------------------------------------------
(* The lists a project is in.                                              *)

\* get_queryset of the list: what a user sees only because it is public is
\* left out unless asked for.
Listed(u, includePublic) ==
    \E r \in FirstRow(u) : includePublic \/ r.rank # 6

PublicListed(u) == isPublic /\ RolesOf(u) # {}

-----------------------------------------------------------------------------
(* The requests about the organization.                                    *)

MemberRequests ==
    [post_member |-> "create_members", put_member |-> "update_members",
     delete_member |-> "delete_members"]

\* A team is created like it is renamed.
TeamRequests ==
    [post_team |-> "update_members", put_team |-> "update_members",
     delete_team |-> "delete_members"]

TeamMemberRequests ==
    [post_team_member |-> "create_members", delete_team_member |-> "delete_members"]

AccountRequests == [create_project |-> "create_project", put_user |-> "update_user"]

AdminRequests == Joined({MemberRequests, TeamRequests, TeamMemberRequests, AccountRequests})

\* can_read_members asks only whether it is an organization.
MemberLists == {"list_members", "get_member", "list_teams", "get_team"}

TeamMemberLists == {"list_team_members"}

OpenRequests == MemberLists \cup TeamMemberLists

\* The detail of an organization, a user's own organizations, and the current
\* subscription are for the owner and the members.
DetailRequests == {"get_user", "list_organizations"}

SubscriptionRequests == {"current_subscription"}

MembersRequests == DetailRequests \cup SubscriptionRequests

ReadsCurrentSubscription(u) == \E r \in OrganizationRole(u) : r.rank \in {1, 2}

ServedInOrganization(u) ==
    LET roles == OrganizationRole(u) IN
    {r \in DOMAIN AdminRequests :
        \E role \in roles : role.name \in OrganizationPermissions[AdminRequests[r]]}
        \cup OpenRequests
        \cup (IF u \in OfUser THEN DetailRequests ELSE {})
        \cup (IF ReadsCurrentSubscription(u) THEN SubscriptionRequests ELSE {})

\* A secret of the organization, or of the project.
CanDeleteSecret(u, organizational) ==
    IF organizational THEN CanInOrganization(u, "delete_organization_secrets")
    ELSE Can(u, "delete_project_secrets")

-----------------------------------------------------------------------------
(* What the owner of the organization alone may do with its subscriptions. *)

IsOwner(u) == \E r \in OrganizationRole(u) : r.rank = 1

CanReadBilling(u) == IsOwner(u)

HasEnd(i) == subs[i].until # Never

CanChangeAdditionalStorage(u, i) ==
    subs[i].plan \in Modifiable /\ ~HasEnd(i) /\ IsOwner(u)

CanCancelAtPeriodEnd(u, i) == ~HasEnd(i) /\ subs[i].plan \in Cancellable /\ IsOwner(u)

CanCancelImmediately(u, i) == subs[i].plan \in Cancellable /\ IsOwner(u)

CanAbortCancellation(u, i) == HasEnd(i) /\ subs[i].plan \in Cancellable /\ IsOwner(u)

Cancels(u, i) ==
    CanCancelAtPeriodEnd(u, i) \/ CanCancelImmediately(u, i) \/ CanAbortCancellation(u, i)

-----------------------------------------------------------------------------
(* get_users: who is offered for the project, or for the organization.     *)

Users(withTeams) == People \cup {Organization} \cup (IF withTeams THEN {Team} ELSE {})

\* Only teams of the project's owner.
OfferedForProject(exclude_teams, invert) ==
    LET users == Users(~exclude_teams /\ projOwner = Organization)
        taken == MembersOf(collabs) \cup {projOwner} IN
    IF invert THEN users \cap taken ELSE users \ taken

OfferedForOrganization(exclude_teams, invert) ==
    LET users == Users(~exclude_teams)
        taken == MembersOf(members) \cup {orgOwner, Organization} IN
    IF invert THEN users \cap taken ELSE users \ taken

\* A team may become a member as far as this goes.
CanBecomeMember(c) == c = Team \/ c \in People \ OfUser

-----------------------------------------------------------------------------
(* Properties.                                                             *)

\* Rows keep their types; whoever is neither member nor owner of the organization
\* is in no team of it and is served nothing of a private project of it that has
\* never had another owner, be it of his own or of a team, nor sees it in a list:
\* memberships end by requests of their own, by transfers of the organization, by
\* staff.  Of the organization he is served what is open to everybody, and what it
\* pays for is its owner's, and nobody's but his.
OutsidersRefused ==
    /\ TypeOK
    /\ teamMembers \subseteq OfUser
    /\ \A u \in People \ OfUser :
          /\ ServedInOrganization(u) = OpenRequests
          /\ projOwner = Organization /\ ~moved /\ ~isPublic =>
                /\ ServedInProject(u) = {} /\ ~CanDeleteSecret(u, FALSE)
                /\ ~Listed(u, TRUE) /\ ~PublicListed(u)
    /\ \A u \in People :
          /\ CanReadBilling(u) <=> u = orgOwner
          /\ \A i \in DOMAIN subs :
                /\ Cancels(u, i) \/ CanChangeAdditionalStorage(u, i) => u = orgOwner
                /\ subs[i].plan \in Cancellable /\ u = orgOwner =>
                      (CanCancelAtPeriodEnd(u, i) <=> ~CanAbortCancellation(u, i))

\* The owner of a project, or the owner and the admins of the organization that
\* owns it, have every permission in it, find it in their list without asking for
\* public ones, and are served every request about it but those of its detail while
\* it is over its cap, whatever a row left from before they were, their team or the
\* public is granted; and they are served every request about the organization.
\* Whoever they may make a collaborator or a member is offered to them.
OwnersServed ==
    /\ \A u \in IF projOwner = Organization THEN OrganizationAdmins ELSE {projOwner} :
          /\ Granted(u) = DOMAIN Permissions /\ CanDeleteSecret(u, FALSE)
          /\ ServedInProject(u) =
                DOMAIN RoleRequests \cup (IF IsValid(u) THEN ValidRoleRequests ELSE {})
          /\ Listed(u, FALSE)
    /\ \A u \in OrganizationAdmins :
          /\ ServedInOrganization(u) = DOMAIN AdminRequests \cup OpenRequests \cup MembersRequests
          /\ CanDeleteSecret(u, TRUE)
    /\ LET plans == {found.plan : found \in OwnersPlan} IN
       \A c \in Principals :
          (\E plan \in plans : CanBecomeCollaborator(c, plan)) => c \in OfferedForProject(c # Team, FALSE)
    /\ \A c \in Principals : CanBecomeMember(c) <=> c \in OfferedForOrganization(FALSE, FALSE)

\* Between them: nothing is left to who left, and nothing withheld from who is in
\* charge, by one and the same tables of rows, roles and requests.
RolesHold == OutsidersRefused /\ OwnersServed
=============================================================================
