------------------------------- MODULE Services -------------------------------
(***************************************************************************)
(* Nine parts that share no state with the queue, the files or each other *)
(* here: tokens, notifications, invitations, the purge of deleted objects, *)
(* the creation of projects, secrets, downloads in parts, the rows of      *)
(* projects, and single runs of jobs.  A behaviour of this module is one   *)
(* of one of them, while the others rest in their initial states.          *)
(***************************************************************************)
EXTENDS Tokens, Notifications, Invitations, Purge, Creation, Secrets, Downloads,
        Projects, JobRuns

VARIABLE topic   \* the part that runs

vars == <<tokenVars, notifVars, inviteVars, purgeVars, creationVars, secretVars,
          downloadVars, projectRowVars, jobRunVars, topic>>

Init ==
    /\ topic \in {"tokens", "notifications", "invitations", "purge", "creation", "secrets",
                 "downloads", "projects", "job runs"}
    /\ TokensInit /\ NotificationsInit /\ InvitationsInit /\ PurgeInit /\ CreationInit
    /\ SecretsInit /\ DownloadsInit /\ ProjectsInit /\ JobRunsInit
    /\ topic # "creation" => seed = "empty" /\ \A f \in CreationFiles : source[f] = 0
    /\ topic # "notifications" => \A place \in Places : rows[place] = {}
    /\ topic # "downloads" => ~sharedKey
    /\ topic # "projects" => \A p \in ProjectIds : ~Exists(p)
    /\ topic # "job runs" => jobKind = [type |-> "package", executor |-> "docker"]

Next ==
    /\ UNCHANGED topic
    /\ \/ /\ topic = "tokens" /\ TokensNext
          /\ UNCHANGED <<notifVars, inviteVars, purgeVars, creationVars, secretVars, downloadVars,
                         projectRowVars, jobRunVars>>
       \/ /\ topic = "notifications" /\ NotificationsNext
          /\ UNCHANGED <<tokenVars, inviteVars, purgeVars, creationVars, secretVars, downloadVars,
                         projectRowVars, jobRunVars>>
       \/ /\ topic = "invitations" /\ InvitationsNext
          /\ UNCHANGED <<tokenVars, notifVars, purgeVars, creationVars, secretVars, downloadVars,
                         projectRowVars, jobRunVars>>
       \/ /\ topic = "purge" /\ PurgeNext
          /\ UNCHANGED <<tokenVars, notifVars, inviteVars, creationVars, secretVars, downloadVars,
                         projectRowVars, jobRunVars>>
       \/ /\ topic = "creation" /\ CreationNext
          /\ UNCHANGED <<tokenVars, notifVars, inviteVars, purgeVars, secretVars, downloadVars,
                         projectRowVars, jobRunVars>>
       \/ /\ topic = "secrets" /\ SecretsNext
          /\ UNCHANGED <<tokenVars, notifVars, inviteVars, purgeVars, creationVars, downloadVars,
                         projectRowVars, jobRunVars>>
       \/ /\ topic = "downloads" /\ DownloadsNext
          /\ UNCHANGED <<tokenVars, notifVars, inviteVars, purgeVars, creationVars, secretVars,
                         projectRowVars, jobRunVars>>
       \/ /\ topic = "projects" /\ ProjectsNext
          /\ UNCHANGED <<tokenVars, notifVars, inviteVars, purgeVars, creationVars, secretVars,
                         downloadVars, jobRunVars>>
       \/ /\ topic = "job runs" /\ JobRunsNext
          /\ UNCHANGED <<tokenVars, notifVars, inviteVars, purgeVars, creationVars, secretVars,
                         downloadVars, projectRowVars>>

Spec == Init /\ [][Next]_vars
=============================================================================
