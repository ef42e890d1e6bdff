-------------------------------- MODULE Tokens --------------------------------
(***************************************************************************)
(* The tokens of the users: login, the authentication of a request, which  *)
(* saves the token it has read, logout, and the admin's buttons.           *)
(*                                                                         *)
(* Every statement commits on its own (there is no ATOMIC_REQUESTS), so    *)
(* requests interleave between the look-up of a token, the UPDATE that     *)
(* expires the others and the save of the token itself.                    *)
(*                                                                         *)
(* A token row is [user, client, state, row].  Of expires_at matters       *)
(* whether it is ahead ("ahead"), went by ("lapsed") or was set to the     *)
(* present by somebody ("ended"): a save writes back the first.            *)
(***************************************************************************)
EXTENDS Naturals, Sequences, FiniteSets

CONSTANTS
    Accounts,       \* people
    Clients,        \* AuthToken.ClientType
    SingleClients,  \* single_token_clients
    Threads,        \* requests at a time
    MaxTokens       \* bound: tokens ever created

ASSUME TokensAssumption ==
    SingleClients \subseteq Clients /\ MaxTokens \in Nat /\ IsFiniteSet(Threads)

VARIABLES
    tokens,     \* AuthToken rows, by id
    thread,     \* what a request is at
    dismissed,  \* history: tokens that were ended while no request held them
    raced       \* history: pairs of a user and a single client with requests that overlapped

tokenVars == <<tokens, thread, dismissed, raced>>

IdleThread == [step |-> "idle"]

TokensTypeOK ==
    /\ tokens \in Seq([user: Accounts, client: Clients,
                       state: {"ahead", "lapsed", "ended"}, row: BOOLEAN])
    /\ \A r \in Threads :
          \/ thread[r] = IdleThread
          \/ thread[r] \in [step: {"login", "insert"}, user: Accounts, client: Clients]
          \/ thread[r] \in [step: {"expire", "touch", "handle"}, token: DOMAIN tokens]
    /\ dismissed \subseteq DOMAIN tokens
    /\ raced \subseteq Accounts \X SingleClients

TokensInit ==
    /\ tokens = <<>>
    /\ thread = [r \in Threads |-> IdleThread]
    /\ dismissed = {} /\ raced = {}

-----------------------------------------------------------------------------
(* is_active, of a row that is there *)
Live(t) == tokens[t].row /\ tokens[t].state = "ahead"

(* The tokens whose expires_at a request may still write back. *)
Held == {thread[r].token : r \in {s \in Threads : thread[s].step \in {"expire", "touch"}}}

PairOf(r) ==
    IF thread[r].step \in {"login", "insert"}
    THEN <<thread[r].user, thread[r].client>>
    ELSE <<tokens[thread[r].token].user, tokens[thread[r].token].client>>

(* The history of a request of this user and client that starts now. *)
Starts(pair) ==
    raced' = raced \cup
        {pair : r \in {s \in Threads : /\ pair[2] \in SingleClients
                                       /\ thread[s].step \notin {"idle", "handle"}
                                       /\ PairOf(s) = pair}}

(* expires_at = now for the live tokens among S.  Nobody may bring back    *)
(* those of Ended that no request holds.                                   *)
End(S, Ended) ==
    /\ tokens' = [t \in DOMAIN tokens |->
                    IF t \in S /\ Live(t) THEN [tokens[t] EXCEPT !.state = "ended"]
                    ELSE tokens[t]]
    /\ dismissed' = dismissed \cup (Ended \ Held)

(* The other tokens of the user and the client: AuthToken.save. *)
Others(user, client, own) ==
    {t \in DOMAIN tokens \ own : tokens[t].user = user /\ tokens[t].client = client}

TokensOf(user) == {t \in DOMAIN tokens : tokens[t].user = user}

-----------------------------------------------------------------------------
(* LoginView, or the job wrapper for the client WORKER. *)
Login(r, user, client) ==
    /\ thread[r].step = "idle" /\ Len(tokens) < MaxTokens
    /\ thread' = [thread EXCEPT ![r] = [step |-> "login", user |-> user, client |-> client]]
    /\ Starts(<<user, client>>)
    /\ UNCHANGED <<tokens, dismissed>>

(* Mutant: save() expires the others of a token that has an id only. *)
InsertAtOnce(r) ==
    /\ thread[r].step = "login"
    /\ thread' = [thread EXCEPT ![r].step = "insert"]
    /\ UNCHANGED <<tokens, dismissed, raced>>

(* AuthToken.save of a new token: the UPDATE of the others ... *)
ExpireAtLogin(r) ==
    /\ thread[r].step = "login"
    /\ LET user == thread[r].user
           client == thread[r].client
           others == IF client \in SingleClients THEN Others(user, client, {}) ELSE {}
       IN  End(others, others)
    /\ thread' = [thread EXCEPT ![r].step = "insert"]
    /\ UNCHANGED raced

(* ... and the INSERT. *)
InsertToken(r) ==
    /\ thread[r].step = "insert" /\ Len(tokens) < MaxTokens
    /\ tokens' = Append(tokens, [user |-> thread[r].user, client |-> thread[r].client,
                                 state |-> "ahead", row |-> TRUE])
    /\ thread' = [thread EXCEPT ![r] = IdleThread]
    /\ UNCHANGED <<dismissed, raced>>

(* authenticate_credentials: the token is read and is valid. *)
Authenticate(r, t) ==
    /\ thread[r].step = "idle" /\ Live(t)
    /\ thread' = [thread EXCEPT ![r] = [step |-> "expire", token |-> t]]
    /\ Starts(<<tokens[t].user, tokens[t].client>>)
    /\ UNCHANGED <<tokens, dismissed>>

(* token.save(): the UPDATE of the others ... *)
ExpireAtUse(r) ==
    /\ thread[r].step = "expire"
    /\ LET t == thread[r].token
           others == IF tokens[t].client \in SingleClients
                     THEN Others(tokens[t].user, tokens[t].client, {t}) ELSE {}
       IN  End(others, others)
    /\ thread' = [thread EXCEPT ![r].step = "touch"]
    /\ UNCHANGED raced

(* ... and the save of every field that was read, expires_at among them; a *)
(* row that was deleted is inserted again.                                 *)
Touch(r) ==
    /\ thread[r].step = "touch"
    /\ LET t == thread[r].token IN
       tokens' = [tokens EXCEPT
           ![t].state = IF tokens[t].state = "lapsed" THEN "lapsed" ELSE "ahead",
           ![t].row = TRUE]
    /\ thread' = [thread EXCEPT ![r].step = "handle"]
    /\ UNCHANGED <<dismissed, raced>>

(* LogoutView.logout *)
Logout(r) ==
    /\ thread[r].step = "handle"
    /\ LET user == tokens[thread[r].token].user IN End(TokensOf(user), TokensOf(user))
    /\ thread' = [thread EXCEPT ![r] = IdleThread]
    /\ UNCHANGED raced

(* Every other request, and one that dies on its way. *)
EndRequest(r) ==
    /\ thread[r].step # "idle"
    /\ thread' = [thread EXCEPT ![r] = IdleThread]
    /\ UNCHANGED <<tokens, dismissed, raced>>

(* expires_at goes by *)
Lapse(t) ==
    /\ tokens[t].state = "ahead"
    /\ tokens' = [tokens EXCEPT ![t].state = "lapsed"]
    /\ UNCHANGED <<thread, dismissed, raced>>

(* AuthTokenAdmin.expire_selected_tokens *)
ExpireSelected(S) ==
    /\ \E t \in S : Live(t)
    /\ End(S, S)
    /\ UNCHANGED <<thread, raced>>

(* The admin's delete action *)
DeleteToken(t) ==
    /\ tokens[t].row
    /\ tokens' = [tokens EXCEPT ![t].row = FALSE]
    /\ dismissed' = dismissed \cup ({t} \ Held)
    /\ UNCHANGED <<thread, raced>>

TokensNext ==
    \/ \E r \in Threads :
          \/ \E user \in Accounts, client \in Clients : Login(r, user, client)
          \/ ExpireAtLogin(r) \/ InsertToken(r)
          \/ \E t \in DOMAIN tokens : Authenticate(r, t)
          \/ ExpireAtUse(r) \/ Touch(r) \/ Logout(r) \/ EndRequest(r)
    \/ \E t \in DOMAIN tokens : Lapse(t) \/ DeleteToken(t)
    \/ \E S \in SUBSET DOMAIN tokens : ExpireSelected(S)

TokensSpec == TokensInit /\ [][TokensNext]_tokenVars

-----------------------------------------------------------------------------
(* A user has one valid token per client that is allowed one, however      *)
(* logins, requests and their deaths follow each other, as long as no two  *)
(* requests of the user and the client overlapped before they were         *)
(* handled: the new token is inserted after the old ones are expired.      *)
OneLiveToken ==
    \A t1, t2 \in DOMAIN tokens :
       /\ Live(t1) /\ Live(t2) /\ t1 # t2
       /\ tokens[t1].user = tokens[t2].user
       /\ tokens[t1].client = tokens[t2].client
       /\ tokens[t1].client \in SingleClients
       => <<tokens[t1].user, tokens[t1].client>> \in raced

(* Rows and requests keep their types, and a token that a logout, a login, *)
(* a use of another token or the admin has ended, while no request was     *)
(* between its read and its save, is never valid again, though every       *)
(* request saves the expires_at it has read.                               *)
EndedStaysEnded == TokensTypeOK /\ \A t \in dismissed : ~Live(t)

(* What a login, a logout and the admin promise of tokens: the ones they   *)
(* take from a user are gone, whatever overlaps with them otherwise.       *)
TokensEnd == OneLiveToken /\ EndedStaysEnded
=============================================================================
