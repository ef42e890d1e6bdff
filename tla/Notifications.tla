----------------------------- MODULE Notifications -----------------------------
(***************************************************************************)
(* The notifications of an organization, its team and its project: the     *)
(* signals that write them when somebody is added or removed, and the cron *)
(* job that mails them.  The creation and the deletion of an entity raise  *)
(* theirs the same way.  The members are admins of the organization, and   *)
(* the team is no collaborator of the project.                             *)
(*                                                                         *)
(* A note is [to, about, emailed].  Nothing in the code marks a note as    *)
(* read.  How old notes are is left open: the cron job takes a user as     *)
(* soon as there is a note, of anybody, that is older than the user's      *)
(* notifs_frequency, and users may set theirs at any time, so that it may  *)
(* take any users when there are notes at all.                             *)
(***************************************************************************)
EXTENDS Naturals, FiniteSets, Sequences

CONSTANTS
    Persons,      \* people
    OrgOwner,     \* the owner of the organization
    NoEmail,      \* people without an email address
    MaxNotices,   \* bound: changes of the membership
    MaxDeaths,    \* bound: rounds of cron that die
    Nobody        \* no authenticated user (a command), no recipient

ASSUME NotificationsAssumption ==
    /\ OrgOwner \in Persons /\ NoEmail \subseteq Persons /\ Nobody \notin Persons
    /\ MaxNotices \in Nat /\ MaxDeaths \in Nat

VARIABLES
    rows,       \* OrganizationMember, TeamMember and ProjectCollaborator rows
    changes,    \* history: the changes of these, [person, actor]
    notes,      \* Notification rows
    round,      \* where the cron job is
    mails,      \* history: how often the note of a person about a change was mailed
    late,       \* history: notes that arrived between the rendering and the mark
    deaths      \* history: rounds that died between the mail and the mark

notifVars == <<rows, changes, notes, round, mails, late, deaths>>

Places == {"organization", "team", "project"}

NoRound == [step |-> "idle"]

Notes == [to: Persons, about: 1..MaxNotices, emailed: BOOLEAN]

NotificationsTypeOK ==
    /\ rows \in [Places -> SUBSET Persons] /\ OrgOwner \notin rows["organization"]
    /\ changes \in Seq([person: Persons, actor: Persons \cup {Nobody}])
    /\ notes \subseteq Notes
    /\ \/ round = NoRound
       \/ round.step = "next" /\ round.users \subseteq Persons
       \/ /\ round.step \in {"send", "mark"} /\ round.users \subseteq Persons
          /\ round.user \in Persons /\ round.cached \subseteq 1..MaxNotices
    /\ mails \in [Persons \X (1..MaxNotices) -> Nat]
    /\ late \subseteq Persons \X (1..MaxNotices)
    /\ deaths \in 0..MaxDeaths

\* Nobody is a member, or one is, who may be elsewhere as well.
NotificationsInit ==
    /\ \/ rows = [place \in Places |-> {}]
       \/ \E p \in Persons \ (NoEmail \cup {OrgOwner}), elsewhere \in SUBSET {"team", "project"} :
             rows = [place \in Places |->
                       IF place \in elsewhere \cup {"organization"} THEN {p} ELSE {}]
    /\ changes = <<>> /\ notes = {} /\ round = NoRound
    /\ mails = [k \in Persons \X (1..MaxNotices) |-> 0] /\ late = {} /\ deaths = 0

-----------------------------------------------------------------------------
(* for_entity of the organization and of the team. *)
ConcernedInEntity(memberships, place) == {OrgOwner} \cup memberships[place]

(* for_project: the admins of the organization have a role as well. *)
ConcernedInProject(memberships) ==
    {OrgOwner} \cup memberships["project"] \cup memberships["organization"]

ConcernedIn(memberships, place) ==
    IF place = "project" THEN ConcernedInProject(memberships)
    ELSE ConcernedInEntity(memberships, place)

(* Who manages the three of them, or a command of the server. *)
Actors == rows["organization"] \cup {OrgOwner, Nobody}

(* _send_notif, for each of the places, which concerns who was there at    *)
(* that time: a note for all of them but the actor, and none at all        *)
(* without an authenticated user.                                          *)
SendNotifs(person, actor, places, before) ==
    LET number(i) == Len(changes) + i IN
    /\ Len(changes) + Len(places) <= MaxNotices
    /\ changes' = changes \o [i \in DOMAIN places |-> [person |-> person, actor |-> actor]]
    /\ notes' = notes \cup
         IF actor = Nobody THEN {}
         ELSE UNION {{[to |-> p, about |-> number(i), emailed |-> FALSE] :
                        p \in ConcernedIn(before, places[i]) \ {actor}} : i \in DOMAIN places}

(* post_save of a membership: the new member is concerned.  Only members   *)
(* and the owner of the organization get into its team and its project.    *)
Added(person, place, actor) ==
    /\ person \notin rows[place]
    /\ IF place = "organization" THEN person # OrgOwner
       ELSE person \in rows["organization"] \cup {OrgOwner}
    /\ rows' = [rows EXCEPT ![place] = @ \cup {person}]
    /\ SendNotifs(person, actor, <<place>>, rows')
    /\ UNCHANGED <<round, mails, late, deaths>>

(* pre_delete of a place in a team or a project: the person is still       *)
(* concerned.                                                              *)
Removed(person, place, actor) ==
    /\ place # "organization" /\ person \in rows[place]
    /\ rows' = [rows EXCEPT ![place] = @ \ {person}]
    /\ SendNotifs(person, actor, <<place>>, rows)
    /\ UNCHANGED <<round, mails, late, deaths>>

(* OrganizationMember.delete: what goes along has its own pre_delete, of   *)
(* which the person is still told.                                         *)
MemberRemoved(person, actor) ==
    LET alongWith(place) == IF person \in rows[place] THEN <<place>> ELSE <<>>
        places == <<"organization">> \o alongWith("project") \o alongWith("team")
    IN
    /\ person \in rows["organization"]
    /\ rows' = [place \in Places |-> rows[place] \ {person}]
    /\ SendNotifs(person, actor, places, rows)
    /\ UNCHANGED <<round, mails, late, deaths>>

-----------------------------------------------------------------------------
Unmailed(p) == {n \in notes : n.to = p /\ ~n.emailed}

(* Exists() asks for a note that is old enough, not for one of the user.   *)
BeginRound(users) ==
    /\ round = NoRound
    /\ users # {} /\ \E n \in notes : ~n.emailed
    /\ round' = [step |-> "next", users |-> users]
    /\ UNCHANGED <<rows, changes, notes, mails, late, deaths>>

(* The notes of the next user are fetched, and stay in the queryset's      *)
(* cache for the mail; a user without an address is passed over.           *)
Render(p) ==
    /\ round.step = "next" /\ p \in round.users
    /\ round' = IF Unmailed(p) = {} \/ p \in NoEmail
                THEN [round EXCEPT !.users = @ \ {p}]
                ELSE [step |-> "send", users |-> round.users \ {p}, user |-> p,
                      cached |-> {n.about : n \in Unmailed(p)}]
    /\ UNCHANGED <<rows, changes, notes, mails, late, deaths>>

SendMail ==
    /\ round.step = "send"
    /\ mails' = [k \in DOMAIN mails |->
                   IF k[1] = round.user /\ k[2] \in round.cached THEN mails[k] + 1 ELSE mails[k]]
    /\ round' = [round EXCEPT !.step = "mark"]
    /\ UNCHANGED <<rows, changes, notes, late, deaths>>

(* Mutant: the exception is logged, and the notes are marked. *)
SendFailsQuietly ==
    /\ round.step = "send"
    /\ round' = [round EXCEPT !.step = "mark"]
    /\ UNCHANGED <<rows, changes, notes, mails, late, deaths>>

(* send_mail raises: the exception ends the round, for the users that      *)
(* follow as well.                                                         *)
SendFails ==
    /\ round.step = "send"
    /\ round' = NoRound
    /\ UNCHANGED <<rows, changes, notes, mails, late, deaths>>

(* notifs.update(emailed=True): the UPDATE evaluates the filter again. *)
MarkEmailed ==
    /\ round.step = "mark"
    /\ LET marked == Unmailed(round.user) IN
       /\ notes' = (notes \ marked) \cup {[n EXCEPT !.emailed = TRUE] : n \in marked}
       /\ late' = late \cup {<<n.to, n.about>> : n \in {m \in marked : m.about \notin round.cached}}
    /\ round' = [step |-> "next", users |-> round.users]
    /\ UNCHANGED <<rows, changes, mails, deaths>>

EndRound ==
    /\ round.step = "next" /\ round.users = {}
    /\ round' = NoRound
    /\ UNCHANGED <<rows, changes, notes, mails, late, deaths>>

(* The process dies; the next round starts from the rows. *)
CronDies ==
    /\ round # NoRound /\ deaths < MaxDeaths
    /\ round' = NoRound
    /\ deaths' = deaths + 1
    /\ UNCHANGED <<rows, changes, notes, mails, late>>

NotificationsNext ==
    \/ \E person \in Persons : \E actor \in Actors :
          \/ \E place \in Places : Added(person, place, actor) \/ Removed(person, place, actor)
          \/ MemberRemoved(person, actor)
    \/ \E users \in SUBSET Persons : BeginRound(users)
    \/ \E p \in Persons : Render(p)
    \/ SendMail \/ SendFails \/ MarkEmailed \/ EndRound \/ CronDies

NotificationsSpec == NotificationsInit /\ [][NotificationsNext]_notifVars

-----------------------------------------------------------------------------
TimesMailed(n) == mails[<<n.to, n.about>>]

(* Rows keep their types; whoever is added or removed by somebody else,    *)
(* or along with a membership, has a note of it; a note is mailed at most  *)
(* once per round that died on top of its one mail; and no note is marked  *)
(* as mailed that was not, except those that arrived while the mail was on *)
(* its way.                                                                *)
NothingUntold ==
    /\ NotificationsTypeOK
    /\ \A i \in DOMAIN changes :
          changes[i].actor \notin {Nobody, changes[i].person}
          => \E n \in notes : n.to = changes[i].person /\ n.about = i
    /\ \A n \in notes :
          /\ TimesMailed(n) <= 1 + deaths
          /\ n.emailed => TimesMailed(n) > 0 \/ <<n.to, n.about>> \in late
=============================================================================
