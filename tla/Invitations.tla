------------------------------ MODULE Invitations ------------------------------
(***************************************************************************)
(* The invitations of people by email: invite_user_by_email, called when a *)
(* project is shared with an unknown address and by the inviteusers        *)
(* command, the cron job that sends again what was not sent, and the       *)
(* registration of those who were invited.                                 *)
(*                                                                         *)
(* There is one inviter.  An invitation is found by its email, which is    *)
(* unique, and saved by its key, which stands for its id too; every        *)
(* statement commits on its own.                                           *)
(***************************************************************************)
EXTENDS Naturals, FiniteSets

CONSTANTS
    Emails,       \* addresses
    Inviting,     \* requests that invite
    Budget,       \* remaining_invitations at first
    MaxInvites    \* bound: invitations ever created

ASSUME InvitationsAssumption ==
    Budget \in Nat /\ MaxInvites \in Nat /\ IsFiniteSet(Emails) /\ IsFiniteSet(Inviting)

VARIABLES
    invitations,  \* Invitation rows: [email, key, sent, lapsed]
    keys,         \* keys ever made
    remaining,    \* the inviter's remaining_invitations
    people,       \* addresses of registered users
    invite,       \* what a request is at
    resend,       \* the rows cron has fetched, and the one it sends
    mailed,       \* history: [email, key] that were mailed
    owed,         \* history: addresses that got a mail since their invitation lapsed
    hurt          \* history: addresses whose request or cron job died or failed

inviteVars == <<invitations, keys, remaining, people, invite, resend, mailed, owed, hurt>>

NoInvite == [step |-> "idle"]
NoResend == [step |-> "idle", todo |-> {}]

InvitationRows ==
    [email: Emails, key: 1..MaxInvites, sent: BOOLEAN, lapsed: BOOLEAN]

InvitationsTypeOK ==
    /\ invitations \subseteq InvitationRows
    /\ \A i, j \in invitations : i.email = j.email \/ i.key = j.key => i = j
    /\ keys \in 0..MaxInvites /\ remaining \in 0..Budget /\ people \subseteq Emails
    /\ \A r \in Inviting :
          \/ invite[r] = NoInvite
          \/ /\ invite[r].step \in {"drop", "look", "replace", "known", "create", "charge", "mail", "mark"}
             /\ invite[r].email \in Emails /\ invite[r].key \in 0..MaxInvites
             /\ invite[r].budget \in 0..Budget
    /\ resend.step \in {"idle", "send", "mark"} /\ resend.todo \subseteq InvitationRows
    /\ mailed \subseteq [email: Emails, key: 1..MaxInvites] /\ owed \cup hurt \subseteq Emails

InvitationsInit ==
    /\ invitations = {} /\ keys = 0 /\ remaining = Budget /\ people = {}
    /\ invite = [r \in Inviting |-> NoInvite] /\ resend = NoResend
    /\ mailed = {} /\ owed = {} /\ hurt = {}

-----------------------------------------------------------------------------
Of(email) == {i \in invitations : i.email = email}
(* No request and no cron job deals with the address. *)
AtRest(email) ==
    /\ \A r \in Inviting : invite[r] # NoInvite => invite[r].email # email
    /\ \A i \in resend.todo : i.email # email

Unsent == {i \in invitations : ~i.sent}
Step(r, step) == invite' = [invite EXCEPT ![r].step = step]
Done(r) == invite' = [invite EXCEPT ![r] = NoInvite]

(* invite.save(): UPDATE by id, INSERT when the row is gone; the email is  *)
(* unique.                                                                 *)
CanSave(row) == \A i \in Of(row.email) : i.key = row.key
SaveRow(row) == invitations' = {i \in invitations : i.key # row.key} \cup {row}

(* invite_user_by_email; the inviter was read with his request. *)
Invite(r, email) ==
    /\ invite[r] = NoInvite
    /\ invite' = [invite EXCEPT ![r] = [step |-> "drop", email |-> email, key |-> 0,
                                        budget |-> remaining]]
    /\ UNCHANGED <<invitations, keys, remaining, people, resend, mailed, owed, hurt>>

(* filter(email, sent is null).delete() *)
DropUnsent(r) ==
    /\ invite[r].step = "drop"
    /\ invitations' = invitations \ {i \in Of(invite[r].email) : ~i.sent}
    /\ Step(r, "look")
    /\ UNCHANGED <<keys, remaining, people, resend, mailed, owed, hurt>>

(* Somebody who has a valid invitation is not invited again. *)
LookForInvitation(r) ==
    /\ invite[r].step = "look"
    /\ LET found == Of(invite[r].email) IN
          \/ found = {} /\ Step(r, "known")
          \/ (\E i \in found : i.lapsed) /\ Step(r, "replace")
          \/ (\E i \in found : ~i.lapsed) /\ Done(r)
    /\ UNCHANGED <<invitations, keys, remaining, people, resend, mailed, owed, hurt>>

(* qs.delete(): whatever is there for the address by now *)
DeleteLapsed(r) ==
    /\ invite[r].step = "replace"
    /\ invitations' = invitations \ Of(invite[r].email)
    /\ Step(r, "known")
    /\ UNCHANGED <<keys, remaining, people, resend, mailed, owed, hurt>>

LookForPerson(r) ==
    /\ invite[r].step = "known"
    /\ IF invite[r].email \in people THEN Done(r) ELSE Step(r, "create")
    /\ UNCHANGED <<invitations, keys, remaining, people, resend, mailed, owed, hurt>>

(* Invitation.create *)
CreateInvitation(r) ==
    /\ invite[r].step = "create" /\ keys < MaxInvites
    /\ Of(invite[r].email) = {}
    /\ keys' = keys + 1
    /\ SaveRow([email |-> invite[r].email, key |-> keys', sent |-> FALSE, lapsed |-> FALSE])
    /\ invite' = IF invite[r].budget > 0
                 THEN [invite EXCEPT ![r].step = "charge", ![r].key = keys']
                 ELSE [invite EXCEPT ![r] = NoInvite]   \* the waiting list
    /\ UNCHANGED <<remaining, people, resend, mailed, owed, hurt>>

(* Another request has inserted its row first: IntegrityError. *)
CreateRefused(r) ==
    /\ invite[r].step = "create" /\ Of(invite[r].email) # {}
    /\ Done(r)
    /\ UNCHANGED <<invitations, keys, remaining, people, resend, mailed, owed, hurt>>

(* inviter.save() writes what was read, less one. *)
ChargeInviter(r) ==
    /\ invite[r].step = "charge"
    /\ remaining' = invite[r].budget - 1
    /\ Step(r, "mail")
    /\ UNCHANGED <<invitations, keys, people, resend, mailed, owed, hurt>>

MailInvitation(r) ==
    /\ invite[r].step = "mail"
    /\ mailed' = mailed \cup {[email |-> invite[r].email, key |-> invite[r].key]}
    /\ owed' = owed \cup {invite[r].email}
    /\ Step(r, "mark")
    /\ UNCHANGED <<invitations, keys, remaining, people, resend, hurt>>

(* Mutant: the failure is passed over (fail_silently). *)
MailFailsQuietly(r) ==
    /\ invite[r].step = "mail"
    /\ Step(r, "mark")
    /\ UNCHANGED <<invitations, keys, remaining, people, resend, mailed, owed, hurt>>

(* send_mail raises: the request fails, and the row stays unsent. *)
MailFails(r) ==
    /\ invite[r].step = "mail"
    /\ Done(r)
    /\ UNCHANGED <<invitations, keys, remaining, people, resend, mailed, owed, hurt>>

(* invite.sent = now; invite.save() *)
MarkSent(r) ==
    /\ invite[r].step = "mark"
    /\ LET row == [email |-> invite[r].email, key |-> invite[r].key,
                   sent |-> TRUE, lapsed |-> FALSE]
       IN  IF CanSave(row) THEN SaveRow(row) ELSE UNCHANGED invitations
    /\ Done(r)
    /\ UNCHANGED <<keys, remaining, people, resend, mailed, owed, hurt>>

(* The request dies between two statements. *)
InviteDies(r) ==
    /\ invite[r] # NoInvite
    /\ hurt' = hurt \cup {invite[r].email}
    /\ Done(r)
    /\ UNCHANGED <<invitations, keys, remaining, people, resend, mailed, owed>>

-----------------------------------------------------------------------------
(* ResendFailedInvitationsJob.do: the rows are fetched once.  Those of the *)
(* waiting list are among them.                                            *)
BeginResend ==
    /\ resend = NoResend /\ Unsent # {}
    /\ resend' = [step |-> "send", todo |-> Unsent]
    /\ UNCHANGED <<invitations, keys, remaining, people, invite, mailed, owed, hurt>>

ResendMail(i) ==
    /\ resend.step = "send" /\ i \in resend.todo
    /\ mailed' = mailed \cup {[email |-> i.email, key |-> i.key]}
    /\ owed' = owed \cup {i.email}
    /\ resend' = [step |-> "mark", todo |-> resend.todo, row |-> i]
    /\ UNCHANGED <<invitations, keys, remaining, people, invite, hurt>>

(* One failure is logged, and the next row is tried. *)
ResendFails(i) ==
    /\ resend.step = "send" /\ i \in resend.todo
    /\ resend' = [resend EXCEPT !.todo = @ \ {i}]
    /\ UNCHANGED <<invitations, keys, remaining, people, invite, mailed, owed, hurt>>

ResendMark ==
    /\ resend.step = "mark"
    /\ LET row == [resend.row EXCEPT !.sent = TRUE]
       IN  IF CanSave(row) THEN SaveRow(row) ELSE UNCHANGED invitations
    /\ resend' = [step |-> "send", todo |-> resend.todo \ {resend.row}]
    /\ UNCHANGED <<keys, remaining, people, invite, mailed, owed, hurt>>

EndResend ==
    /\ resend.step = "send" /\ resend.todo = {}
    /\ resend' = NoResend
    /\ UNCHANGED <<invitations, keys, remaining, people, invite, mailed, owed, hurt>>

(* The expiry goes by for a row that was sent: it is a matter of days, and *)
(* a request of seconds.                                                   *)
LapseInvitation(i) ==
    /\ i.sent /\ ~i.lapsed /\ AtRest(i.email)
    /\ invitations' = (invitations \ {i}) \cup {[i EXCEPT !.lapsed = TRUE]}
    /\ owed' = owed \ {i.email}
    /\ UNCHANGED <<keys, remaining, people, invite, resend, mailed, hurt>>

(* delete_expired_confirmations *)
DeleteExpired ==
    /\ \E i \in invitations : i.lapsed
    /\ invitations' = {i \in invitations : ~i.lapsed}
    /\ UNCHANGED <<keys, remaining, people, invite, resend, mailed, owed, hurt>>

(* The link of a valid invitation is followed to the end. *)
Register(i) ==
    /\ i.email \notin people /\ ~i.lapsed
    /\ [email |-> i.email, key |-> i.key] \in mailed
    /\ people' = people \cup {i.email}
    /\ UNCHANGED <<invitations, keys, remaining, invite, resend, mailed, owed, hurt>>

InvitationsNext ==
    \/ \E r \in Inviting :
          \/ \E email \in Emails : Invite(r, email)
          \/ DropUnsent(r) \/ LookForInvitation(r) \/ DeleteLapsed(r) \/ LookForPerson(r)
          \/ CreateInvitation(r) \/ CreateRefused(r) \/ ChargeInviter(r)
          \/ MailInvitation(r) \/ MailFails(r) \/ MarkSent(r) \/ InviteDies(r)
    \/ BeginResend \/ ResendMark \/ EndResend \/ DeleteExpired
    \/ \E i \in resend.todo : ResendMail(i) \/ ResendFails(i)
    \/ \E i \in invitations : LapseInvitation(i) \/ Register(i)

InvitationsSpec == InvitationsInit /\ [][InvitationsNext]_inviteVars

-----------------------------------------------------------------------------
(* Rows keep their types.  No row says that it was sent without a mail     *)
(* that was; and an address that got one still has an invitation, sent or  *)
(* to be sent by cron, when no request or cron job deals with it, unless   *)
(* its owner has registered or a request died: requests delete rows of     *)
(* each other that are not marked yet, and saves bring them back.          *)
Reachable ==
    /\ InvitationsTypeOK
    /\ \A email \in Emails : AtRest(email) =>
         /\ \A i \in Of(email) :
               i.sent => [email |-> email, key |-> i.key] \in mailed
         /\ email \in owed \ (people \cup hurt) => Of(email) # {}
=============================================================================
