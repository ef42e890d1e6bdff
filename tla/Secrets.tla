-------------------------------- MODULE Secrets --------------------------------
(***************************************************************************)
(* The secrets of an organization and of a private project of it, and the  *)
(* environment that a job of a user gets of them when it starts.  The      *)
(* project has members of the organization as collaborators.  Rows come    *)
(* and go by forms of the admin site, where clean() runs before the save.  *)
(*                                                                         *)
(* A secret is of the project or of the organization, never of both and    *)
(* never of neither (CheckConstraint), and has no value here: the number   *)
(* of its row stands for it.                                               *)
(***************************************************************************)
EXTENDS Naturals, FiniteSets

CONSTANTS
    Workmates,     \* people
    SecretNames,   \* names of secrets
    Everybody,     \* assigned_to IS NULL
    MaxSecrets     \* bound: rows that are saved

ASSUME SecretsAssumption == Everybody \notin Workmates /\ MaxSecrets \in Nat

VARIABLES
    orgStaff,      \* members of the organization
    crew,          \* collaborators of the project
    secrets,       \* Secret rows
    savedSecrets,  \* the last number of a row
    secretJob      \* the job: who triggered it, and the environment it got

secretVars == <<orgStaff, crew, secrets, savedSecrets, secretJob>>

Secret == [id: 1..MaxSecrets, place: {"project", "organization"},
           type: {"pgservice", "envvar"}, name: SecretNames, to: Workmates \cup {Everybody}]

NoSecretJob == [step |-> "none"]

SecretsTypeOK ==
    /\ crew \subseteq orgStaff /\ orgStaff \subseteq Workmates
    /\ secrets \subseteq Secret /\ savedSecrets \in 0..MaxSecrets
    /\ \/ secretJob = NoSecretJob
       \/ secretJob.step = "pending" /\ secretJob.by \in Workmates
       \/ /\ secretJob.step = "started" /\ secretJob.by \in Workmates
          /\ secretJob.given \subseteq secretJob.there /\ secretJob.there \subseteq Secret

SecretsInit ==
    /\ orgStaff = {} /\ crew = {} /\ secrets = {} /\ savedSecrets = 0
    /\ secretJob = NoSecretJob

-----------------------------------------------------------------------------
BecomesMember(person) ==
    /\ person \notin orgStaff
    /\ orgStaff' = orgStaff \cup {person}
    /\ UNCHANGED <<crew, secrets, savedSecrets, secretJob>>

BecomesCollaborator(person) ==
    /\ person \in orgStaff \ crew
    /\ crew' = crew \cup {person}
    /\ UNCHANGED <<orgStaff, secrets, savedSecrets, secretJob>>

(* The collaborations go with the membership, the secrets stay. *)
EndsMembership(person) ==
    /\ person \in orgStaff
    /\ orgStaff' = orgStaff \ {person}
    /\ crew' = crew \ {person}
    /\ UNCHANGED <<secrets, savedSecrets, secretJob>>

EndsCollaboration(person) ==
    /\ person \in crew
    /\ crew' = crew \ {person}
    /\ UNCHANGED <<orgStaff, secrets, savedSecrets, secretJob>>

-----------------------------------------------------------------------------
(* Secret.clean *)
IsClean(s) ==
    s.to = Everybody \/ s.to \in (IF s.place = "project" THEN crew ELSE orgStaff)

(* The UniqueConstraints have nulls_distinct: rows that are assigned to    *)
(* nobody never clash.                                                     *)
Clash(s, t) ==
    /\ s.place = t.place /\ s.type = t.type /\ s.name = t.name
    /\ s.to = t.to /\ s.to # Everybody

CreateSecret(place, type, name, to) ==
    LET s == [id |-> savedSecrets + 1, place |-> place, type |-> type, name |-> name, to |-> to] IN
    /\ savedSecrets < MaxSecrets
    /\ IsClean(s) /\ ~ \E t \in secrets : Clash(s, t)
    /\ secrets' = secrets \cup {s}
    /\ savedSecrets' = savedSecrets + 1
    /\ UNCHANGED <<orgStaff, crew, secretJob>>

(* SecretAdmin: name, type and project are read-only afterwards. *)
AssignSecret(s, to) ==
    LET assigned == [s EXCEPT !.to = to] IN
    /\ s.to # to
    /\ IsClean(assigned) /\ ~ \E t \in secrets \ {s} : Clash(assigned, t)
    /\ secrets' = (secrets \ {s}) \cup {assigned}
    /\ UNCHANGED <<orgStaff, crew, savedSecrets, secretJob>>

DeleteSecret(s) ==
    /\ secrets' = secrets \ {s}
    /\ UNCHANGED <<orgStaff, crew, savedSecrets, secretJob>>

-----------------------------------------------------------------------------
(* The filter of for_user_and_project *)
SecretsFor(person) == {s \in secrets : s.to \in {person, Everybody}}

(* Mutant: organization_id with NULL last, as the other keys. *)
SortsBeforeNullsLast(s, t) ==
    \/ s.place = "organization" /\ t.place = "project"
    \/ s.place = t.place /\ s.to # Everybody /\ t.to = Everybody

(* Its ORDER BY within a name: organization_id with NULL first, project_id *)
(* (which says the same) and assigned_to_id with NULL last.                *)
SortsBefore(s, t) ==
    \/ s.place = "project" /\ t.place = "organization"
    \/ s.place = t.place /\ s.to # Everybody /\ t.to = Everybody

(* DISTINCT ON the name takes a first row, any when there are several. *)
Distincts(rowset) ==
    {given \in SUBSET rowset :
        \A n \in {s.name : s \in rowset} :
            \E g \in given :
                /\ {s \in given : s.name = n} = {g}
                /\ ~ \E s \in rowset : s.name = n /\ SortsBefore(s, g)}

TriggerJob(person) ==
    /\ person \in crew
    /\ secretJob' = [step |-> "pending", by |-> person]
    /\ UNCHANGED <<orgStaff, crew, secrets, savedSecrets>>

(* get_environment, when a worker gets to the job; who triggered it may    *)
(* have left, and in production is not asked for a role again.             *)
GetEnvironment ==
    /\ secretJob.step = "pending"
    /\ \E given \in Distincts(SecretsFor(secretJob.by)) :
          secretJob' = [step |-> "started", by |-> secretJob.by, given |-> given, there |-> secrets]
    /\ UNCHANGED <<orgStaff, crew, secrets, savedSecrets>>

SecretsNext ==
    \/ \E person \in Workmates :
          \/ BecomesMember(person) \/ BecomesCollaborator(person) \/ EndsMembership(person)
          \/ EndsCollaboration(person) \/ TriggerJob(person)
    \/ \E place \in {"project", "organization"}, type \in {"pgservice", "envvar"},
          name \in SecretNames, to \in Workmates \cup {Everybody} :
             CreateSecret(place, type, name, to)
    \/ \E s \in secrets : DeleteSecret(s) \/ \E to \in Workmates \cup {Everybody} : AssignSecret(s, to)
    \/ GetEnvironment

SecretsSpec == SecretsInit /\ [][SecretsNext]_secretVars

-----------------------------------------------------------------------------
(* What overrides what: the user's own secret of the project, the one the  *)
(* project has for everybody, then the same of the organization.           *)
Overrides(s, t) ==
    LET rank(x) == (IF x.place = "project" THEN 0 ELSE 2) + (IF x.to = Everybody THEN 1 ELSE 0)
    IN  rank(s) < rank(t)

(* Rows keep their types; a job gets one secret of each name that is there *)
(* for its user, which no other overrides, and which one is no matter of   *)
(* chance unless the same name was given to two types, or twice to         *)
(* everybody: two secrets of one user and type never meet, although they   *)
(* are assigned, moved to others and deleted one at a time.                *)
OneSecretEach ==
    /\ SecretsTypeOK
    /\ secretJob.step = "started" =>
          LET mine == {s \in secretJob.there : s.to \in {secretJob.by, Everybody}} IN
          \A s \in mine : \E g \in secretJob.given :
              /\ g.name = s.name /\ \A h \in secretJob.given : h.name = g.name => h = g
              /\ ~Overrides(s, g)
              /\ s # g /\ ~Overrides(g, s) => g.type # s.type \/ g.to = Everybody
=============================================================================
