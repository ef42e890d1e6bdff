---------------------------- MODULE Services_proofs ----------------------------
(***************************************************************************)
(* What Services promises of its parts, for any number of people, rows,    *)
(* requests and files.  Each part is proved about by itself; a behaviour   *)
(* of Services is one of each of its parts (section "The parts").          *)
(***************************************************************************)
EXTENDS Services, FiniteSetTheorems, SequenceTheorems, WellFoundedInduction, TLAPS

-----------------------------------------------------------------------------
(* Tokens.                                                                 *)

TokenRows == [user: Accounts, client: Clients, state: {"ahead", "lapsed", "ended"}, row: BOOLEAN]

\* TokensTypeOK, and that every request has an entry.
TokensTypes == TokensTypeOK /\ thread = [r \in Threads |-> thread[r]]

\* What a change of some rows gives is a table of as many rows again.
LEMMA TokenRowsSeq ==
    ASSUME NEW s \in Seq(TokenRows), NEW new,
           new = [t \in DOMAIN s |-> new[t]], \A t \in DOMAIN s : new[t] \in TokenRows
    PROVE  new \in Seq(TokenRows) /\ DOMAIN new = DOMAIN s
<1>1. Len(s) \in Nat /\ DOMAIN s = 1..Len(s)
    BY LenProperties
<1>2. new \in [1..Len(s) -> TokenRows]
    BY <1>1
<1> QED
    BY <1>1, <1>2, SeqDef

\* End writes rows of the type, changes nothing but states, and leaves none
\* of S valid.
LEMMA EndRows ==
    ASSUME TokensTypes, NEW S, NEW Ended, Ended \subseteq S, S \subseteq DOMAIN tokens, End(S, Ended)
    PROVE  /\ tokens' \in Seq(TokenRows)
           /\ DOMAIN tokens' = DOMAIN tokens
           /\ dismissed' \subseteq DOMAIN tokens
           /\ \A t \in DOMAIN tokens : /\ tokens'[t].user = tokens[t].user
                                       /\ tokens'[t].client = tokens[t].client
                                       /\ Live(t)' => Live(t) /\ t \notin S
<1>1. tokens \in Seq(TokenRows)
    BY DEF TokensTypes, TokensTypeOK, TokenRows
<1>2. \A t \in DOMAIN tokens : tokens[t] \in TokenRows
    BY <1>1, LenProperties
<1>3. tokens' = [t \in DOMAIN tokens |-> tokens'[t]]
    BY DEF End
<1>4. \A t \in DOMAIN tokens :
        /\ tokens'[t] \in TokenRows
        /\ tokens'[t].user = tokens[t].user
        /\ tokens'[t].client = tokens[t].client
        /\ Live(t)' => Live(t) /\ t \notin S
    BY <1>2 DEF End, TokenRows, Live
<1>5. tokens' \in Seq(TokenRows) /\ DOMAIN tokens' = DOMAIN tokens
    BY <1>1, <1>3, <1>4, TokenRowsSeq
<1> QED
    BY <1>4, <1>5 DEF End, TokensTypes, TokensTypeOK

\* The types hold at first, and every step keeps them.
LEMMA TokensTypesInit == TokensInit => TokensTypes
BY EmptySeq DEF TokensInit, TokensTypes, TokensTypeOK, IdleThread

LEMMA TokensTypesNext == TokensTypes /\ [TokensNext]_tokenVars => TokensTypes'
<1> SUFFICES ASSUME TokensTypes, [TokensNext]_tokenVars PROVE TokensTypes'
    OBVIOUS
<1>a. tokens \in Seq(TokenRows)
    BY DEF TokensTypes, TokensTypeOK, TokenRows
<1>0. tokens \in Seq(TokenRows) /\ \A t \in DOMAIN tokens : tokens[t] \in TokenRows
    BY <1>a, LenProperties
<1> USE DEF TokensTypes, TokensTypeOK, IdleThread
<1>1. ASSUME NEW r \in Threads, NEW user \in Accounts, NEW client \in Clients, Login(r, user, client)
      PROVE  TokensTypes'
    <2>1. raced' \subseteq Accounts \X SingleClients
        BY <1>1 DEF Login, Starts
    <2> QED BY <1>1, <2>1 DEF Login
<1>2. ASSUME NEW r \in Threads, ExpireAtLogin(r) PROVE TokensTypes'
    <2> DEFINE others == IF thread[r].client \in SingleClients
                         THEN Others(thread[r].user, thread[r].client, {}) ELSE {}
    <2>1. others \subseteq DOMAIN tokens /\ End(others, others)
        BY <1>2 DEF ExpireAtLogin, Others
    <2> HIDE DEF others
    <2>2. /\ tokens' \in Seq(TokenRows) /\ DOMAIN tokens' = DOMAIN tokens
          /\ dismissed' \subseteq DOMAIN tokens
        BY <2>1, EndRows
    <2>3. thread[r] \in [step: {"login", "insert"}, user: Accounts, client: Clients]
        BY <1>2 DEF ExpireAtLogin
    <2> QED BY <1>2, <2>2, <2>3 DEF ExpireAtLogin, TokenRows
<1>3. ASSUME NEW r \in Threads, InsertToken(r) PROVE TokensTypes'
    <2>1. thread[r] \in [step: {"login", "insert"}, user: Accounts, client: Clients]
        BY SMTT(30), <1>3 DEF InsertToken
    <2> DEFINE new == [user |-> thread[r].user, client |-> thread[r].client,
                       state |-> "ahead", row |-> TRUE]
    <2>2. new \in TokenRows
        BY <2>1 DEF TokenRows
    <2>3. tokens' = Append(tokens, new)
        BY <1>3 DEF InsertToken
    <2> HIDE DEF new
    <2>4. tokens' \in Seq(TokenRows) /\ DOMAIN tokens \subseteq DOMAIN tokens'
        BY <1>0, <2>2, <2>3, AppendProperties, LenProperties
    <2> QED BY <1>3, <2>4 DEF InsertToken, TokenRows
<1>4. ASSUME NEW r \in Threads, NEW t \in DOMAIN tokens, Authenticate(r, t) PROVE TokensTypes'
    <2>1. raced' \subseteq Accounts \X SingleClients
        BY <1>0, <1>4 DEF Authenticate, Starts, TokenRows
    <2> QED BY <1>4, <2>1 DEF Authenticate
<1>5. ASSUME NEW r \in Threads, ExpireAtUse(r) PROVE TokensTypes'
    <2> DEFINE t == thread[r].token
               others == IF tokens[t].client \in SingleClients
                         THEN Others(tokens[t].user, tokens[t].client, {t}) ELSE {}
    <2>1. others \subseteq DOMAIN tokens /\ End(others, others)
        BY <1>5 DEF ExpireAtUse, Others
    <2> HIDE DEF others
    <2>2. /\ tokens' \in Seq(TokenRows) /\ DOMAIN tokens' = DOMAIN tokens
          /\ dismissed' \subseteq DOMAIN tokens
        BY <2>1, EndRows
    <2>3. thread[r] \in [step: {"expire", "touch", "handle"}, token: DOMAIN tokens]
        BY <1>5 DEF ExpireAtUse
    <2> QED BY <1>5, <2>2, <2>3 DEF ExpireAtUse, TokenRows
<1>6. ASSUME NEW r \in Threads, Touch(r) PROVE TokensTypes'
    <2>1. thread[r] \in [step: {"expire", "touch", "handle"}, token: DOMAIN tokens]
        BY <1>6 DEF Touch
    <2>2. PICK state \in {"ahead", "lapsed", "ended"} :
            tokens' = [tokens EXCEPT ![thread[r].token] = [@ EXCEPT !.state = state, !.row = TRUE]]
        BY <1>6 DEF Touch
    <2> DEFINE t == thread[r].token
               row == [tokens[t] EXCEPT !.state = state, !.row = TRUE]
    <2>3. t \in DOMAIN tokens /\ row \in TokenRows
        BY ZenonT(60), <1>0, <2>1 DEF TokenRows
    <2>4. tokens' = [tokens EXCEPT ![t] = row]
        BY <2>2
    <2> HIDE DEF t, row
    <2>5. tokens' \in Seq(TokenRows) /\ DOMAIN tokens' = DOMAIN tokens
        BY <1>0, <2>3, <2>4, ExceptSeq, LenProperties
    <2> QED BY <1>6, <2>1, <2>5 DEF Touch, TokenRows
<1>7. ASSUME NEW r \in Threads, Logout(r) PROVE TokensTypes'
    <2> DEFINE S == TokensOf(tokens[thread[r].token].user)
    <2>1. S \subseteq DOMAIN tokens /\ End(S, S)
        BY <1>7 DEF Logout, TokensOf
    <2> HIDE DEF S
    <2>2. /\ tokens' \in Seq(TokenRows) /\ DOMAIN tokens' = DOMAIN tokens
          /\ dismissed' \subseteq DOMAIN tokens
        BY <2>1, EndRows
    <2> QED BY <1>7, <2>2 DEF Logout, TokenRows
<1>8. ASSUME NEW r \in Threads, EndRequest(r) PROVE TokensTypes'
    BY <1>8 DEF EndRequest
<1>9. ASSUME NEW t \in DOMAIN tokens, Lapse(t) PROVE TokensTypes'
    <2>1. [tokens[t] EXCEPT !.state = "lapsed"] \in TokenRows
        BY <1>0 DEF TokenRows
    <2>2. tokens' \in Seq(TokenRows) /\ DOMAIN tokens' = DOMAIN tokens
        BY <1>0, <1>9, <2>1, ExceptSeq, LenProperties DEF Lapse
    <2> QED BY <1>9, <2>2 DEF Lapse, TokenRows
<1>10. ASSUME NEW t \in DOMAIN tokens, DeleteToken(t) PROVE TokensTypes'
    <2>1. [tokens[t] EXCEPT !.row = FALSE] \in TokenRows
        BY <1>0 DEF TokenRows
    <2>2. tokens' \in Seq(TokenRows) /\ DOMAIN tokens' = DOMAIN tokens
        BY <1>0, <1>10, <2>1, ExceptSeq, LenProperties DEF DeleteToken
    <2> QED BY <1>10, <2>2 DEF DeleteToken, TokenRows
<1>11. ASSUME NEW S \in SUBSET DOMAIN tokens, ExpireSelected(S) PROVE TokensTypes'
    <2>1. /\ tokens' \in Seq(TokenRows) /\ DOMAIN tokens' = DOMAIN tokens
          /\ dismissed' \subseteq DOMAIN tokens
        BY <1>11, EndRows DEF ExpireSelected
    <2> QED BY <1>11, <2>1 DEF ExpireSelected, TokenRows
<1>12. CASE UNCHANGED tokenVars
    BY <1>12 DEF tokenVars
<1> QED
    BY <1>1, <1>2, <1>3, <1>4, <1>5, <1>6, <1>7, <1>8, <1>9, <1>10, <1>11, <1>12 DEF TokensNext

\* Rows and requests always have their types.
LEMMA TokensTypesAlways == TokensSpec => []TokensTypes
BY TokensTypesInit, TokensTypesNext, PTL DEF TokensSpec

-----------------------------------------------------------------------------
(* The invariant of tokens.                                                *)

\* A request of this user and client that may still expire, insert or save tokens.
AtPair(r, pair) == thread[r].step \in {"login", "insert", "expire", "touch"} /\ PairOf(r) = pair

PairOfToken(t) == <<tokens[t].user, tokens[t].client>>

\* A single client of a user whose requests have not overlapped.
Alone(pair) == pair[2] \in SingleClients /\ pair \notin raced

OverlapsKnown ==
    \A r, s \in Threads, pair \in Accounts \X Clients :
        r # s /\ AtPair(r, pair) /\ AtPair(s, pair) => ~Alone(pair)

\* Between the UPDATE and the INSERT or the save no token but the request's own is valid.
OthersEnded ==
    \A r \in Threads, pair \in Accounts \X Clients :
        AtPair(r, pair) /\ Alone(pair) =>
            /\ thread[r].step = "insert"
                  => \A t \in DOMAIN tokens : PairOfToken(t) = pair => ~Live(t)
            /\ thread[r].step = "touch"
                  => \A t \in DOMAIN tokens :
                        PairOfToken(t) = pair /\ Live(t) => t = thread[r].token

\* No request can write back the expires_at of a token that was dismissed.
DismissedFree == \A t \in dismissed : t \notin Held /\ ~Live(t)

TokensInv == OverlapsKnown /\ OthersEnded /\ DismissedFree /\ OneLiveToken

LEMMA TokensInvInit == TokensInit => TokensInv
BY DEF TokensInit, TokensInv, OverlapsKnown, OthersEnded, DismissedFree, OneLiveToken, AtPair, IdleThread

\* The step leaves users and clients of tokens as they are.
PairsStay ==
    \A t \in DOMAIN tokens :
        /\ t \in DOMAIN tokens'
        /\ tokens'[t].user = tokens[t].user /\ tokens'[t].client = tokens[t].client

\* Then a request that does not move is of the same user and client after it.
LEMMA OtherStays ==
    ASSUME TokensTypes, PairsStay, NEW s \in Threads, thread'[s] = thread[s]
    PROVE  /\ \A pair : AtPair(s, pair)' <=> AtPair(s, pair)
           /\ thread[s].step \in {"expire", "touch"} => thread[s].token \in DOMAIN tokens
<1>1. \/ thread[s] = IdleThread
      \/ thread[s] \in [step: {"login", "insert"}, user: Accounts, client: Clients]
      \/ thread[s] \in [step: {"expire", "touch", "handle"}, token: DOMAIN tokens]
    BY DEF TokensTypes, TokensTypeOK
<1>2. PairOf(s)' = PairOf(s) \/ thread[s] = IdleThread
    BY <1>1 DEF PairOf, PairsStay, IdleThread
<1> QED
    BY <1>1, <1>2 DEF AtPair, IdleThread

\* A step that makes no token valid, and after which every request that may
\* still write was there before and has not moved, keeps the invariant.
LEMMA QuietStep ==
    ASSUME TokensTypes, TokensInv, PairsStay,
           DOMAIN tokens' = DOMAIN tokens,
           raced' = raced,
           \A t \in DOMAIN tokens : Live(t)' => Live(t),
           \A s \in Threads : thread'[s] # thread[s] => thread'[s].step \in {"idle", "handle"},
           \A t \in dismissed' : t \in dismissed \/ (t \notin Held /\ ~Live(t)'),
           dismissed \subseteq DOMAIN tokens
    PROVE  TokensInv'
<1>1. \A s \in Threads : \A pair : AtPair(s, pair)' => AtPair(s, pair) /\ thread'[s] = thread[s]
    BY OtherStays DEF AtPair
<1>2. \A t \in DOMAIN tokens : PairOfToken(t)' = PairOfToken(t)
    BY DEF PairsStay, PairOfToken
<1>3. \A pair : Alone(pair)' <=> Alone(pair)
    BY DEF Alone
<1>4. OverlapsKnown'
    BY <1>1, <1>3 DEF OverlapsKnown, TokensInv
<1>5. OthersEnded'
    BY <1>1, <1>2, <1>3 DEF OthersEnded, TokensInv
<1>6. Held' \subseteq Held
    BY DEF Held
<1>7. DismissedFree'
    BY <1>6 DEF DismissedFree, TokensInv
<1>8. OneLiveToken'
    BY DEF OneLiveToken, TokensInv, PairsStay
<1> QED
    BY <1>4, <1>5, <1>7, <1>8 DEF TokensInv

LEMMA EndStep ==
    ASSUME TokensTypes, TokensInv, NEW S, NEW Ended, Ended \subseteq S, S \subseteq DOMAIN tokens,
           End(S, Ended), raced' = raced,
           \A s \in Threads : thread'[s] # thread[s] => thread'[s].step \in {"idle", "handle"}
    PROVE  TokensInv'
<1>1. /\ DOMAIN tokens' = DOMAIN tokens
      /\ PairsStay
      /\ \A t \in DOMAIN tokens : Live(t)' => Live(t) /\ t \notin S
    BY EndRows DEF PairsStay
<1>2. dismissed' = dismissed \cup (Ended \ Held)
    BY DEF End
<1>3. \A t \in dismissed' : t \in dismissed \/ (t \notin Held /\ ~Live(t)')
    BY <1>1, <1>2
<1>4. dismissed \subseteq DOMAIN tokens
    BY DEF TokensTypes, TokensTypeOK
<1> QED
    BY <1>1, <1>3, <1>4, QuietStep

\* A request that starts: what overlaps with it is in raced from then on.
LEMMA StartStep ==
    ASSUME TokensTypes, TokensInv, NEW r \in Threads, NEW entry, NEW pair,
           thread[r].step = "idle",
           thread' = [thread EXCEPT ![r] = entry], entry.step \in {"login", "expire"},
           tokens' = tokens, dismissed' = dismissed, Starts(pair), PairOf(r)' = pair,
           entry.step = "expire" => entry.token \notin dismissed
    PROVE  TokensInv'
<1>1. thread'[r] = entry /\ \A s \in Threads \ {r} : thread'[s] = thread[s]
    BY DEF TokensTypes
<1>2. PairsStay /\ \A t : Live(t)' <=> Live(t)
    BY DEF PairsStay, Live
<1>3. \A s \in Threads \ {r} : \A p : AtPair(s, p)' <=> AtPair(s, p)
    BY <1>1, <1>2, OtherStays
<1>4. raced \subseteq raced' /\ \A p : Alone(p)' => Alone(p)
    BY DEF Starts, Alone
<1>5. \A s \in Threads \ {r} : AtPair(s, pair) => ~Alone(pair)'
    <2> SUFFICES ASSUME NEW s \in Threads \ {r}, AtPair(s, pair), pair[2] \in SingleClients
                 PROVE  pair \in raced'
        BY DEF Alone
    <2> QED BY DEF Starts, AtPair
<1>6. \A p : AtPair(r, p)' => p = pair
    BY DEF AtPair
<1>7. OverlapsKnown'
    BY <1>3, <1>4, <1>5, <1>6 DEF OverlapsKnown, TokensInv
<1>8. OthersEnded'
    BY <1>1, <1>2, <1>3, <1>4 DEF OthersEnded, TokensInv, PairOfToken
<1>9. Held' \subseteq Held \cup {entry.token : e \in {e \in {entry} : e.step = "expire"}}
    BY <1>1 DEF Held
<1>10. DismissedFree'
    BY <1>2, <1>9 DEF DismissedFree, TokensInv
<1>11. OneLiveToken'
    BY <1>4, <1>2 DEF OneLiveToken, TokensInv, Alone
<1> QED
    BY <1>7, <1>8, <1>10, <1>11 DEF TokensInv

\* The UPDATE of the others: the request goes on to its INSERT or its save,
\* and no token of the user and the client is valid but its own, if it has one.
LEMMA ExpireStep ==
    ASSUME TokensTypes, TokensInv, NEW r \in Threads, NEW others, NEW pair \in Accounts \X Clients,
           others \subseteq DOMAIN tokens, End(others, others), raced' = raced,
           AtPair(r, pair),
           \/ thread[r].step = "login" /\ thread' = [thread EXCEPT ![r].step = "insert"]
           \/ thread[r].step = "expire" /\ thread' = [thread EXCEPT ![r].step = "touch"],
           pair[2] \in SingleClients =>
              \A t \in DOMAIN tokens : PairOfToken(t) = pair =>
                  t \in others \/ (thread[r].step = "expire" /\ t = thread[r].token)
    PROVE  TokensInv'
<1>1. /\ DOMAIN tokens' = DOMAIN tokens
      /\ PairsStay
      /\ \A t \in DOMAIN tokens : Live(t)' => Live(t) /\ t \notin others
    BY EndRows DEF PairsStay
<1>2. \A s \in Threads \ {r} : thread'[s] = thread[s]
    BY DEF TokensTypes
<1>3. \A s \in Threads \ {r} : \A p : AtPair(s, p)' <=> AtPair(s, p)
    BY <1>1, <1>2, OtherStays
<1>4. \A p : Alone(p)' <=> Alone(p)
    BY DEF Alone
<1>5. \/ thread[r] \in [step: {"login", "insert"}, user: Accounts, client: Clients]
      \/ thread[r] \in [step: {"expire", "touch", "handle"}, token: DOMAIN tokens]
    BY DEF TokensTypes, TokensTypeOK, IdleThread
<1>6. \/ /\ thread[r].step = "login" /\ thread'[r].step = "insert"
         /\ thread'[r].user = thread[r].user /\ thread'[r].client = thread[r].client
      \/ /\ thread[r].step = "expire" /\ thread'[r].step = "touch"
         /\ thread'[r].token = thread[r].token /\ thread[r].token \in DOMAIN tokens
    BY <1>5 DEF TokensTypes
<1>7. PairOf(r)' = PairOf(r)
    BY <1>1, <1>6 DEF PairOf, PairsStay
<1>8. AtPair(r, pair)' /\ \A p : AtPair(r, p)' => p = pair
    BY <1>6, <1>7 DEF AtPair
<1>9. \A t \in DOMAIN tokens : PairOfToken(t)' = PairOfToken(t)
    BY <1>1 DEF PairsStay, PairOfToken
<1>10. OverlapsKnown'
    BY <1>3, <1>4, <1>8 DEF OverlapsKnown, TokensInv
<1>11. OthersEnded'
    <2> SUFFICES ASSUME NEW s \in Threads, NEW p \in Accounts \X Clients, AtPair(s, p)', Alone(p)'
                 PROVE  /\ thread'[s].step = "insert"
                              => \A t \in DOMAIN tokens' : PairOfToken(t)' = p => ~Live(t)'
                        /\ thread'[s].step = "touch"
                              => \A t \in DOMAIN tokens' :
                                    PairOfToken(t)' = p /\ Live(t)' => t = thread'[s].token
        BY DEF OthersEnded
    <2>1. CASE s = r
        BY <2>1, <1>1, <1>4, <1>6, <1>8, <1>9 DEF Alone
    <2>2. CASE s # r
        BY <2>2, <1>1, <1>2, <1>3, <1>4, <1>9 DEF OthersEnded, TokensInv
    <2> QED BY <2>1, <2>2
<1>12. Held' \subseteq Held
    BY <1>2, <1>6 DEF Held
<1>13. DismissedFree'
    <2>1. dismissed' = dismissed \cup (others \ Held) /\ dismissed \subseteq DOMAIN tokens
        BY DEF End, TokensTypes, TokensTypeOK
    <2> QED BY <2>1, <1>1, <1>12 DEF DismissedFree, TokensInv
<1>14. OneLiveToken'
    BY <1>1 DEF OneLiveToken, TokensInv, PairsStay
<1> QED
    BY <1>10, <1>11, <1>13, <1>14 DEF TokensInv

\* A request that is done with its token: one more row is valid, and none but
\* this one of its user and client unless requests overlapped.
LEMMA SaveStep ==
    ASSUME TokensTypes, TokensInv, NEW r \in Threads, NEW k, NEW entry,
           NEW pair \in Accounts \X Clients,
           AtPair(r, pair), thread' = [thread EXCEPT ![r] = entry], entry.step \in {"idle", "handle"},
           DOMAIN tokens' = DOMAIN tokens \cup {k}, raced' = raced, dismissed' = dismissed,
           \A t \in DOMAIN tokens \ {k} : tokens'[t] = tokens[t],
           PairsStay, PairOfToken(k)' = pair, k \notin dismissed,
           Alone(pair) => \A t \in DOMAIN tokens \ {k} : PairOfToken(t) = pair => ~Live(t)
    PROVE  TokensInv'
<1>1. thread'[r] = entry /\ \A s \in Threads \ {r} : thread'[s] = thread[s]
    BY DEF TokensTypes
<1>2. \A s \in Threads \ {r} : \A p : AtPair(s, p)' <=> AtPair(s, p)
    BY <1>1, OtherStays
<1>3. \A p : ~AtPair(r, p)'
    BY <1>1 DEF AtPair
<1>4. \A p : Alone(p)' <=> Alone(p)
    BY DEF Alone
<1>5. \A t \in DOMAIN tokens \ {k} : /\ PairOfToken(t)' = PairOfToken(t)
                                     /\ Live(t)' <=> Live(t)
    BY DEF PairOfToken, Live
<1>6. OverlapsKnown'
    BY <1>2, <1>3, <1>4 DEF OverlapsKnown, TokensInv
<1>7. OthersEnded'
    <2> SUFFICES ASSUME NEW s \in Threads, NEW p \in Accounts \X Clients, AtPair(s, p)', Alone(p)'
                 PROVE  /\ thread'[s].step = "insert"
                              => \A t \in DOMAIN tokens' : PairOfToken(t)' = p => ~Live(t)'
                        /\ thread'[s].step = "touch"
                              => \A t \in DOMAIN tokens' :
                                    PairOfToken(t)' = p /\ Live(t)' => t = thread'[s].token
        BY DEF OthersEnded
    <2>1. s # r /\ AtPair(s, p) /\ Alone(p) /\ thread'[s] = thread[s]
        BY <1>1, <1>2, <1>3, <1>4
    <2>2. p # pair
        BY <2>1 DEF OverlapsKnown, TokensInv
    <2> QED BY <2>1, <2>2, <1>5 DEF OthersEnded, TokensInv
<1>8. Held' \subseteq Held
    BY <1>1 DEF Held
<1>9. DismissedFree'
    <2>1. dismissed \subseteq DOMAIN tokens
        BY DEF TokensTypes, TokensTypeOK
    <2> QED BY <2>1, <1>5, <1>8 DEF DismissedFree, TokensInv
<1>10. OneLiveToken'
    <2> SUFFICES ASSUME NEW t1 \in DOMAIN tokens', NEW t2 \in DOMAIN tokens',
                        Live(t1)', Live(t2)', t1 # t2,
                        PairOfToken(t1)' = PairOfToken(t2)',
                        tokens'[t1].client \in SingleClients, ~ PairOfToken(t1)' \in raced
                 PROVE  FALSE
        BY DEF OneLiveToken, PairOfToken
    <2>1. CASE t1 = k
        BY <2>1, <1>5 DEF Alone, PairOfToken
    <2>2. CASE t2 = k
        BY <2>2, <1>5 DEF Alone, PairOfToken
    <2>3. CASE t1 # k /\ t2 # k
        BY <2>3, <1>5 DEF OneLiveToken, TokensInv, PairOfToken
    <2> QED BY <2>1, <2>2, <2>3
<1> QED
    BY <1>6, <1>7, <1>9, <1>10 DEF TokensInv

LEMMA TokensInvNext == TokensTypes /\ TokensInv /\ [TokensNext]_tokenVars => TokensInv'
<1> SUFFICES ASSUME TokensTypes, TokensInv, [TokensNext]_tokenVars PROVE TokensInv'
    OBVIOUS
<1>a. tokens \in Seq(TokenRows) /\ dismissed \subseteq DOMAIN tokens
    BY DEF TokensTypes, TokensTypeOK, TokenRows
<1>b. \A t \in DOMAIN tokens : tokens[t] \in TokenRows
    BY <1>a, LenProperties
<1>c. \A r \in Threads : thread[r].step \in {"login", "insert"} =>
            thread[r].user \in Accounts /\ thread[r].client \in Clients
    BY DEF TokensTypes, TokensTypeOK, IdleThread
<1>d. \A r \in Threads : thread[r].step \in {"expire", "touch", "handle"} =>
            thread[r].token \in DOMAIN tokens
    BY DEF TokensTypes, TokensTypeOK, IdleThread
<1>e. \A t \in DOMAIN tokens : PairOfToken(t) \in Accounts \X Clients
    BY <1>b DEF PairOfToken, TokenRows
<1>1. ASSUME NEW r \in Threads, NEW user \in Accounts, NEW client \in Clients, Login(r, user, client)
      PROVE  TokensInv'
    <2> DEFINE entry == [step |-> "login", user |-> user, client |-> client]
    <2>1. /\ thread[r].step = "idle" /\ thread' = [thread EXCEPT ![r] = entry]
          /\ Starts(<<user, client>>) /\ tokens' = tokens /\ dismissed' = dismissed
        BY <1>1 DEF Login
    <2>2. PairOf(r)' = <<user, client>>
        BY <2>1 DEF PairOf, TokensTypes
    <2>3. entry.step = "login"
        OBVIOUS
    <2> HIDE DEF entry
    <2> QED BY <2>1, <2>2, <2>3, StartStep
<1>2. ASSUME NEW r \in Threads, ExpireAtLogin(r) PROVE TokensInv'
    <2> DEFINE pair == <<thread[r].user, thread[r].client>>
               others == IF thread[r].client \in SingleClients
                         THEN Others(thread[r].user, thread[r].client, {}) ELSE {}
    <2>1. /\ thread[r].step = "login" /\ thread' = [thread EXCEPT ![r].step = "insert"]
          /\ End(others, others) /\ raced' = raced
        BY <1>2 DEF ExpireAtLogin
    <2>2. pair \in Accounts \X Clients /\ AtPair(r, pair)
        BY <1>c, <2>1 DEF AtPair, PairOf
    <2>3. others \subseteq DOMAIN tokens
        BY DEF Others
    <2>4. pair[2] \in SingleClients =>
              \A t \in DOMAIN tokens : PairOfToken(t) = pair => t \in others
        BY DEF Others, PairOfToken
    <2> HIDE DEF pair, others
    <2> QED BY <2>1, <2>2, <2>3, <2>4, ExpireStep
<1>3. ASSUME NEW r \in Threads, InsertToken(r) PROVE TokensInv'
    <2> DEFINE pair == <<thread[r].user, thread[r].client>>
               new == [user |-> thread[r].user, client |-> thread[r].client,
                       state |-> "ahead", row |-> TRUE]
    <2>0. PICK k : k = Len(tokens) + 1
        OBVIOUS
    <2>1. /\ thread[r].step = "insert" /\ thread' = [thread EXCEPT ![r] = IdleThread]
          /\ tokens' = Append(tokens, new) /\ raced' = raced /\ dismissed' = dismissed
        BY <1>3 DEF InsertToken
    <2>2. pair \in Accounts \X Clients /\ AtPair(r, pair)
        BY <1>c, <2>1 DEF AtPair, PairOf
    <2>3. new \in TokenRows
        BY <2>2 DEF TokenRows
    <2>4. /\ DOMAIN tokens' = DOMAIN tokens \cup {k} /\ k \notin DOMAIN tokens
          /\ \A t \in DOMAIN tokens : tokens'[t] = tokens[t]
          /\ tokens'[k] = new
        <3> HIDE DEF new
        <3> QED BY <1>a, <2>0, <2>1, <2>3, AppendProperties, LenProperties
    <2>5. PairOfToken(k)' = pair
        BY <2>4 DEF PairOfToken
    <2>6. PairsStay
        BY <2>4 DEF PairsStay
    <2>7. k \notin dismissed
        BY <1>a, <2>4
    <2>8. Alone(pair) => \A t \in DOMAIN tokens : PairOfToken(t) = pair => ~Live(t)
        BY <2>1, <2>2 DEF TokensInv, OthersEnded
    <2>9. IdleThread.step = "idle"
        BY DEF IdleThread
    <2> HIDE DEF pair, new
    <2> QED BY <2>1, <2>2, <2>4, <2>5, <2>6, <2>7, <2>8, <2>9, SaveStep
<1>4. ASSUME NEW r \in Threads, NEW t \in DOMAIN tokens, Authenticate(r, t) PROVE TokensInv'
    <2> DEFINE entry == [step |-> "expire", token |-> t]
    <2>1. /\ thread[r].step = "idle" /\ thread' = [thread EXCEPT ![r] = entry]
          /\ Starts(PairOfToken(t)) /\ tokens' = tokens /\ dismissed' = dismissed
        BY <1>4 DEF Authenticate, PairOfToken
    <2>2. PairOf(r)' = PairOfToken(t)
        BY <2>1 DEF PairOf, TokensTypes, PairOfToken
    <2>3. entry.step = "expire" /\ entry.token \notin dismissed
        BY <1>4 DEF Authenticate, TokensInv, DismissedFree
    <2> HIDE DEF entry
    <2> QED BY <2>1, <2>2, <2>3, StartStep
<1>5. ASSUME NEW r \in Threads, ExpireAtUse(r) PROVE TokensInv'
    <2> DEFINE k == thread[r].token
               pair == PairOfToken(k)
               others == IF tokens[k].client \in SingleClients
                         THEN Others(tokens[k].user, tokens[k].client, {k}) ELSE {}
    <2>1. /\ thread[r].step = "expire" /\ thread' = [thread EXCEPT ![r].step = "touch"]
          /\ End(others, others) /\ raced' = raced
        BY <1>5 DEF ExpireAtUse
    <2>2. pair \in Accounts \X Clients /\ AtPair(r, pair)
        BY <1>d, <1>e, <2>1 DEF AtPair, PairOf, PairOfToken
    <2>3. others \subseteq DOMAIN tokens
        BY DEF Others
    <2>4. pair[2] \in SingleClients =>
              \A t \in DOMAIN tokens : PairOfToken(t) = pair => t \in others \/ t = k
        BY DEF Others, PairOfToken
    <2> HIDE DEF pair, others
    <2> QED BY <2>1, <2>2, <2>3, <2>4, ExpireStep
<1>6. ASSUME NEW r \in Threads, Touch(r) PROVE TokensInv'
    <2>0. PICK k : k = thread[r].token
        OBVIOUS
    <2> DEFINE pair == PairOfToken(k)
               entry == [thread[r] EXCEPT !.step = "handle"]
    <2>1. /\ thread[r].step = "touch" /\ thread' = [thread EXCEPT ![r] = entry]
          /\ raced' = raced /\ dismissed' = dismissed
        BY <1>6 DEF Touch
    <2>2. k \in DOMAIN tokens
        BY <1>d, <2>0, <2>1
    <2>3. pair \in Accounts \X Clients /\ AtPair(r, pair)
        BY <1>e, <2>0, <2>1, <2>2 DEF AtPair, PairOf, PairOfToken
    <2>4. PICK state : tokens' = [tokens EXCEPT ![k] = [@ EXCEPT !.state = state, !.row = TRUE]]
        BY <1>6, <2>0 DEF Touch
    <2>5. /\ DOMAIN tokens' = DOMAIN tokens
          /\ \A t \in DOMAIN tokens \ {k} : tokens'[t] = tokens[t]
          /\ tokens'[k].user = tokens[k].user /\ tokens'[k].client = tokens[k].client
        BY <1>b, <2>2, <2>4 DEF TokenRows
    <2>6. PairsStay /\ PairOfToken(k)' = pair
        BY <2>5 DEF PairsStay, PairOfToken
    <2>7. k \notin dismissed
        BY <2>0, <2>1 DEF TokensInv, DismissedFree, Held
    <2>8. Alone(pair) => \A t \in DOMAIN tokens \ {k} : PairOfToken(t) = pair => ~Live(t)
        BY <2>0, <2>1, <2>3 DEF TokensInv, OthersEnded
    <2>9. entry.step = "handle"
        BY <2>1 DEF TokensTypes, TokensTypeOK, IdleThread
    <2> HIDE DEF pair, entry
    <2> QED BY <2>1, <2>2, <2>3, <2>5, <2>6, <2>7, <2>8, <2>9, SaveStep
<1>7. ASSUME NEW r \in Threads, Logout(r) PROVE TokensInv'
    <2> DEFINE S == TokensOf(tokens[thread[r].token].user)
    <2>1. S \subseteq DOMAIN tokens /\ End(S, S) /\ raced' = raced
        BY <1>7 DEF Logout, TokensOf
    <2>2. \A s \in Threads : thread'[s] # thread[s] => thread'[s].step \in {"idle", "handle"}
        BY <1>7 DEF Logout, IdleThread, TokensTypes
    <2> HIDE DEF S
    <2> QED BY <2>1, <2>2, EndStep
<1>8. ASSUME NEW r \in Threads, EndRequest(r) PROVE TokensInv'
    <2>1. \A s \in Threads : thread'[s] # thread[s] => thread'[s].step \in {"idle", "handle"}
        BY <1>8 DEF EndRequest, IdleThread, TokensTypes
    <2>2. PairsStay /\ \A t : Live(t)' <=> Live(t)
        BY <1>8 DEF EndRequest, PairsStay, Live
    <2> QED BY <1>8, <1>a, <2>1, <2>2, QuietStep DEF EndRequest
<1>9. ASSUME NEW t \in DOMAIN tokens, Lapse(t) PROVE TokensInv'
    <2>1. /\ DOMAIN tokens' = DOMAIN tokens /\ PairsStay
          /\ \A u \in DOMAIN tokens : Live(u)' => Live(u)
        BY <1>9, <1>b DEF Lapse, PairsStay, Live, TokenRows
    <2> QED BY <1>9, <1>a, <2>1, QuietStep DEF Lapse
<1>10. ASSUME NEW t \in DOMAIN tokens, DeleteToken(t) PROVE TokensInv'
    <2>1. /\ DOMAIN tokens' = DOMAIN tokens /\ PairsStay
          /\ \A u \in DOMAIN tokens : Live(u)' => Live(u) /\ u # t
        BY <1>10, <1>b DEF DeleteToken, PairsStay, Live, TokenRows
    <2>2. \A u \in dismissed' : u \in dismissed \/ (u \notin Held /\ ~Live(u)')
        BY <1>10, <2>1 DEF DeleteToken
    <2> QED BY <1>10, <1>a, <2>1, <2>2, QuietStep DEF DeleteToken
<1>11. ASSUME NEW S \in SUBSET DOMAIN tokens, ExpireSelected(S) PROVE TokensInv'
    BY <1>11, EndStep DEF ExpireSelected
<1>12. CASE UNCHANGED tokenVars
    <2>1. PairsStay /\ \A t : Live(t)' <=> Live(t)
        BY <1>12 DEF tokenVars, PairsStay, Live
    <2> QED BY <1>12, <1>a, <2>1, QuietStep DEF tokenVars
<1> QED
    BY <1>1, <1>2, <1>3, <1>4, <1>5, <1>6, <1>7, <1>8, <1>9, <1>10, <1>11, <1>12 DEF TokensNext

\* A user has one valid token per single client unless requests overlapped, and what
\* was ended stays so.
LEMMA TokensOfRequests == TokensSpec => []TokensEnd
<1>1. TokensTypes /\ TokensInv => TokensEnd
    BY DEF TokensTypes, TokensInv, DismissedFree, TokensEnd, EndedStaysEnded
<1> QED
    BY <1>1, TokensTypesAlways, TokensInvInit, TokensInvNext, PTL DEF TokensSpec

-----------------------------------------------------------------------------
(* Secrets.                                                                *)

\* Two secrets of the same place, type, name and person are one.
NeverClash(rowset) == \A s, t \in rowset : Clash(s, t) => s = t

\* The table keeps its unique constraints, and a job was given a choice by
\* DISTINCT ON of what was there for its user, of a table that kept them.
SecretsInv ==
    /\ NeverClash(secrets)
    /\ secretJob.step = "started" =>
          /\ NeverClash(secretJob.there)
          /\ secretJob.given \in
                Distincts({s \in secretJob.there : s.to \in {secretJob.by, Everybody}})

LEMMA SecretsTypes == SecretsSpec => []SecretsTypeOK
<1>1. SecretsInit => SecretsTypeOK
    BY SecretsAssumption DEF SecretsInit, SecretsTypeOK
<1>2. SecretsTypeOK /\ [SecretsNext]_secretVars => SecretsTypeOK'
    <2> SUFFICES ASSUME SecretsTypeOK, [SecretsNext]_secretVars PROVE SecretsTypeOK'
        OBVIOUS
    <2> USE SecretsAssumption DEF SecretsTypeOK
    <2>1. ASSUME NEW person \in Workmates,
                 \/ BecomesMember(person) \/ BecomesCollaborator(person)
                 \/ EndsMembership(person) \/ EndsCollaboration(person)
          PROVE  SecretsTypeOK'
        BY <2>1 DEF BecomesMember, BecomesCollaborator, EndsMembership, EndsCollaboration
    <2>2. ASSUME NEW person \in Workmates, TriggerJob(person) PROVE SecretsTypeOK'
        BY <2>2 DEF TriggerJob
    <2>3. ASSUME NEW place \in {"project", "organization"}, NEW type \in {"pgservice", "envvar"},
                 NEW name \in SecretNames, NEW to \in Workmates \cup {Everybody},
                 CreateSecret(place, type, name, to)
          PROVE  SecretsTypeOK'
        <3>1. [id |-> savedSecrets + 1, place |-> place, type |-> type, name |-> name, to |-> to] \in Secret
            BY <2>3 DEF CreateSecret, Secret
        <3> QED BY <2>3, <3>1 DEF CreateSecret
    <2>4. ASSUME NEW s \in secrets, NEW to \in Workmates \cup {Everybody}, AssignSecret(s, to)
          PROVE  SecretsTypeOK'
        <3>1. [s EXCEPT !.to = to] \in Secret
            BY DEF Secret
        <3> QED BY <2>4, <3>1 DEF AssignSecret
    <2>5. ASSUME NEW s \in secrets, DeleteSecret(s) PROVE SecretsTypeOK'
        BY <2>5 DEF DeleteSecret
    <2>6. CASE GetEnvironment
        <3>1. secretJob.by \in Workmates
            BY <2>6 DEF GetEnvironment, NoSecretJob
        <3>2. PICK given \in Distincts(SecretsFor(secretJob.by)) :
                 secretJob' = [step |-> "started", by |-> secretJob.by, given |-> given, there |-> secrets]
            BY <2>6 DEF GetEnvironment
        <3>3. given \subseteq secrets
            BY DEF Distincts, SecretsFor
        <3> QED BY <2>6, <3>1, <3>2, <3>3 DEF GetEnvironment
    <2>7. CASE UNCHANGED secretVars
        BY <2>7 DEF secretVars
    <2> QED BY <2>1, <2>2, <2>3, <2>4, <2>5, <2>6, <2>7 DEF SecretsNext
<1> QED BY <1>1, <1>2, PTL DEF SecretsSpec

LEMMA SecretsKept == SecretsSpec => []SecretsInv
<1>1. SecretsInit => SecretsInv
    BY DEF SecretsInit, SecretsInv, NeverClash, NoSecretJob
<1>2. SecretsTypeOK /\ SecretsInv /\ [SecretsNext]_secretVars => SecretsInv'
    <2> SUFFICES ASSUME SecretsTypeOK, SecretsInv, [SecretsNext]_secretVars PROVE SecretsInv'
        OBVIOUS
    <2>1. ASSUME NEW person \in Workmates,
                 \/ BecomesMember(person) \/ BecomesCollaborator(person)
                 \/ EndsMembership(person) \/ EndsCollaboration(person)
          PROVE  SecretsInv'
        BY <2>1 DEF SecretsInv, BecomesMember, BecomesCollaborator, EndsMembership, EndsCollaboration
    <2>2. ASSUME NEW person \in Workmates, TriggerJob(person) PROVE SecretsInv'
        BY <2>2 DEF SecretsInv, TriggerJob
    <2>3. ASSUME NEW place \in {"project", "organization"}, NEW type \in {"pgservice", "envvar"},
                 NEW name \in SecretNames, NEW to \in Workmates \cup {Everybody},
                 CreateSecret(place, type, name, to)
          PROVE  SecretsInv'
        <3>1. NeverClash(secrets')
            BY <2>3 DEF SecretsInv, CreateSecret, NeverClash, Clash
        <3> QED BY <2>3, <3>1 DEF SecretsInv, CreateSecret
    <2>4. ASSUME NEW s \in secrets, NEW to \in Workmates \cup {Everybody}, AssignSecret(s, to)
          PROVE  SecretsInv'
        <3>1. NeverClash(secrets')
            BY ZenonT(60), <2>4 DEF SecretsInv, AssignSecret, NeverClash, Clash
        <3> QED BY <2>4, <3>1 DEF SecretsInv, AssignSecret
    <2>5. ASSUME NEW s \in secrets, DeleteSecret(s) PROVE SecretsInv'
        BY <2>5 DEF SecretsInv, DeleteSecret, NeverClash
    <2>6. CASE GetEnvironment
        BY <2>6 DEF SecretsInv, GetEnvironment, SecretsFor
    <2>7. CASE UNCHANGED secretVars
        BY <2>7 DEF secretVars, SecretsInv
    <2> QED BY <2>1, <2>2, <2>3, <2>4, <2>5, <2>6, <2>7 DEF SecretsNext
<1> QED BY <1>1, <1>2, SecretsTypes, PTL DEF SecretsSpec

\* What overrides a secret is sorted before it, and secrets of the same name of
\* which none overrides the other are of the same place.
LEMMA Ranks ==
    ASSUME NEW s, NEW t, {s.place, t.place} \subseteq {"project", "organization"}
    PROVE  /\ Overrides(s, t) => SortsBefore(s, t)
           /\ ~Overrides(s, t) /\ ~Overrides(t, s) =>
                 s.place = t.place /\ (s.to = Everybody <=> t.to = Everybody)
    BY DEF Overrides, SortsBefore

\* A job gets one secret of each name that is there for its user, which no other
\* overrides, and chance decides only between types or between secrets of
\* everybody: Secret's constraints and SecretQueryset.for_user_and_project.
LEMMA SecretsOfJobs == SecretsSpec => []OneSecretEach
<1>1. SecretsTypeOK /\ SecretsInv => OneSecretEach
    <2> SUFFICES ASSUME SecretsTypeOK, SecretsInv, secretJob.step = "started",
                        NEW s \in secretJob.there, s.to \in {secretJob.by, Everybody}
                 PROVE  \E g \in secretJob.given :
                          /\ g.name = s.name /\ \A h \in secretJob.given : h.name = g.name => h = g
                          /\ ~Overrides(s, g)
                          /\ s # g /\ ~Overrides(g, s) => g.type # s.type \/ g.to = Everybody
        BY DEF OneSecretEach
    <2> DEFINE mine == {r \in secretJob.there : r.to \in {secretJob.by, Everybody}}
    <2>1. PICK g \in secretJob.given :
             /\ {r \in secretJob.given : r.name = s.name} = {g}
             /\ ~ \E r \in mine : r.name = s.name /\ SortsBefore(r, g)
        <3>1. secretJob.given \in Distincts(mine) /\ s \in mine
            BY DEF SecretsInv
        <3> HIDE DEF mine
        <3> QED BY <3>1 DEF Distincts
    <2>2. g.name = s.name /\ \A h \in secretJob.given : h.name = g.name => h = g
        BY <2>1
    <2>3. g \in secretJob.there /\ g.to \in {secretJob.by, Everybody}
        BY DEF SecretsInv, Distincts
    <2>4. {s.place, g.place} \subseteq {"project", "organization"}
        BY <2>3 DEF SecretsTypeOK, Secret, NoSecretJob
    <2>5. ~Overrides(s, g)
        BY <2>1, <2>4, Ranks
    <2>6. ASSUME s # g, ~Overrides(g, s), g.type = s.type PROVE g.to = Everybody
        <3>1. s.place = g.place /\ (s.to = Everybody <=> g.to = Everybody)
            BY <2>4, <2>5, <2>6, Ranks
        <3> QED BY <2>2, <2>3, <2>6, <3>1 DEF SecretsInv, NeverClash, Clash
    <2> QED BY <2>2, <2>5, <2>6
<1> QED BY <1>1, SecretsTypes, SecretsKept, PTL

-----------------------------------------------------------------------------
(* Downloads in parts.                                                     *)

Redirects == [key: Uploads, first: 0..MaxBytes, last: 0..Open, ifMatch: 0..MaxUploads]

\* Rows and requests are records, and no more is uploaded than is numbered.
DownloadsTypes ==
    /\ DownloadsTypeOK
    /\ Len(uploadSizes) <= MaxUploads
    /\ download \in [named: 0..MaxUploads, parts: Seq(Part)]
    /\ redirect \in {NoRedirect} \cup Redirects

\* The latest version is the last that was uploaded, and a key that is not
\* shared has the bytes of its own version or none.
KeysHold ==
    /\ versionRows # {} => Len(uploadSizes) \in versionRows
    /\ ~sharedKey => \A k \in Uploads : heldUnder[k] \in {0, k}

\* What nginx was told still fits the parts the client has.
RedirectFits ==
    redirect # NoRedirect =>
        /\ redirect.first = Received
        /\ redirect.ifMatch # 0 =>
              download.parts # <<>> /\ redirect.ifMatch = download.parts[1].etag
        /\ download.named # 0 /\ ~sharedKey => redirect.key = download.named

\* A part of these of a download.
PartFits(parts, i) ==
    /\ parts[i].first <= parts[i].last /\ parts[i].last < uploadSizes[parts[i].etag]
    /\ parts[i].etag \in DOMAIN uploadSizes
    /\ parts[i].first = IF i = 1 THEN 0 ELSE parts[i - 1].last + 1
    /\ parts[i].matched => parts[i].etag = parts[1].etag
    /\ download.named # 0 /\ ~sharedKey => parts[i].etag = download.named

PartsHold == \A i \in DOMAIN download.parts : PartFits(download.parts, i)

DownloadsInv == KeysHold /\ RedirectFits /\ PartsHold

\* The numbers of these.
LEMMA Sizes ==
    ASSUME DownloadsTypes
    PROVE  /\ Len(uploadSizes) \in Nat /\ DOMAIN uploadSizes = 1..Len(uploadSizes)
           /\ Uploads \subseteq Nat \ {0} /\ DOMAIN uploadSizes \subseteq Uploads
           /\ \A u \in DOMAIN uploadSizes : uploadSizes[u] \in Nat /\ uploadSizes[u] \in 1..MaxBytes
           /\ heldUnder \in [Uploads -> 0..Len(uploadSizes)]
           /\ MaxBytes \in Nat /\ MaxUploads \in Nat /\ Uploads = 1..MaxUploads
    BY DownloadsAssumption DEF DownloadsTypes, DownloadsTypeOK, Uploads

LEMMA LatestIsLast ==
    ASSUME DownloadsTypes, KeysHold, versionRows # {}
    PROVE  LatestRow = Len(uploadSizes) /\ LatestRow \in Uploads
<1>1. versionRows \subseteq 1..Len(uploadSizes) /\ Len(uploadSizes) \in Nat
    BY DEF DownloadsTypes, DownloadsTypeOK
<1>2. \A w \in versionRows : w <= Len(uploadSizes)
    BY <1>1
<1>3. \A v \in versionRows : (\A w \in versionRows : w <= v) => v = Len(uploadSizes)
    BY <1>1, <1>2 DEF KeysHold
<1>4. LatestRow = Len(uploadSizes)
    BY <1>2, <1>3 DEF LatestRow, KeysHold
<1> QED BY <1>1, <1>4, DownloadsAssumption DEF DownloadsTypes, KeysHold, Uploads

LEMMA KeyIsUpload ==
    ASSUME DownloadsTypes, NEW v \in Uploads
    PROVE  KeyOf(v) \in Uploads
    BY DownloadsAssumption DEF KeyOf, Uploads

\* The key that a request is answered with.
LEMMA FoundKey ==
    ASSUME DownloadsTypes, KeysHold, versionRows # {}, download.named \in versionRows \cup {0}
    PROVE  /\ KeyOf(FoundVersion(download.named)) \in Uploads
           /\ download.named # 0 /\ ~sharedKey =>
                 KeyOf(FoundVersion(download.named)) = download.named
<1>1. download.named # 0 => download.named \in Uploads
    BY DownloadsAssumption DEF DownloadsTypes, DownloadsTypeOK, Uploads
<1> QED BY <1>1, LatestIsLast, KeyIsUpload DEF FoundVersion, KeyOf

LEMMA UploadTyped ==
    ASSUME DownloadsTypes, DownloadsInv, NEW size \in 1..MaxBytes, Upload(size)
    PROVE  DownloadsTypes' /\ DownloadsInv'
<1> DEFINE v == Len(uploadSizes) + 1
<1>1. /\ v \in Uploads /\ KeyOf(v) \in Uploads /\ v \in Nat \ {0}
    <2>1. v \in Nat \ {0} /\ v <= MaxUploads
        BY Sizes DEF Upload
    <2>2. v \in Uploads
        BY <2>1, Sizes
    <2> HIDE DEF v
    <2> QED BY <2>1, <2>2, KeyIsUpload
<1>2. /\ uploadSizes' \in Seq(1..MaxBytes) /\ Len(uploadSizes') = v
      /\ DOMAIN uploadSizes' = DOMAIN uploadSizes \cup {v}
      /\ \A u \in DOMAIN uploadSizes : uploadSizes'[u] = uploadSizes[u]
    BY DEF Upload, DownloadsTypes, DownloadsTypeOK
<1>3. /\ versionRows' = versionRows \cup {v}
      /\ heldUnder' = [heldUnder EXCEPT ![KeyOf(v)] = v]
      /\ UNCHANGED <<sharedKey, download, redirect>>
    BY DEF Upload
<1>4. heldUnder \in [Uploads -> 0..Len(uploadSizes)] /\ versionRows \subseteq DOMAIN uploadSizes
    BY DEF DownloadsTypes, DownloadsTypeOK
<1>5. heldUnder' \in [Uploads -> 0..Len(uploadSizes')]
    BY <1>1, <1>2, <1>3, <1>4
<1>6. DownloadsTypes'
    <2>1. v <= MaxUploads
        BY DEF Upload
    <2> HIDE DEF v
    <2> QED BY <1>2, <1>3, <1>4, <1>5, <2>1 DEF DownloadsTypes, DownloadsTypeOK
<1>7. KeysHold'
    <2>1. ~sharedKey => KeyOf(v) = v
        BY DEF KeyOf
    <2> HIDE DEF v
    <2> QED BY <1>1, <1>2, <1>3, <1>4, <2>1 DEF KeysHold, DownloadsInv
<1>8. RedirectFits'
    BY <1>3 DEF DownloadsInv, RedirectFits, Received
<1>9. PartsHold'
    <2> SUFFICES ASSUME NEW i \in DOMAIN download.parts PROVE PartFits(download.parts, i)'
        BY <1>3 DEF PartsHold
    <2>1. PartFits(download.parts, i)
        BY DEF DownloadsInv, PartsHold
    <2> QED BY <1>2, <1>3, <2>1 DEF PartFits
<1> QED BY <1>6, <1>7, <1>8, <1>9 DEF DownloadsInv

LEMMA DeleteOldTyped ==
    ASSUME DownloadsTypes, DownloadsInv, NEW version \in versionRows, DeleteOld(version)
    PROVE  DownloadsTypes' /\ DownloadsInv'
<1>1. /\ versionRows' = versionRows \ {version} /\ version # LatestRow
      /\ heldUnder' = [heldUnder EXCEPT ![KeyOf(version)] = 0]
      /\ UNCHANGED <<sharedKey, uploadSizes, download, redirect>>
    BY DEF DeleteOld
<1>2. LatestRow = Len(uploadSizes)
    BY LatestIsLast DEF DownloadsInv
<1>3. heldUnder' \in [Uploads -> 0..Len(uploadSizes)]
    <2>1. 0 \in 0..Len(uploadSizes)
        BY Sizes
    <2> QED BY <1>1, <2>1, Sizes
<1>4. DownloadsTypes'
    BY <1>1, <1>3 DEF DownloadsTypes, DownloadsTypeOK
<1>5. KeysHold'
    BY <1>1, <1>2 DEF KeysHold, DownloadsInv, DownloadsTypes, DownloadsTypeOK
<1>6. RedirectFits' /\ PartsHold'
    BY <1>1 DEF DownloadsInv, RedirectFits, Received, PartsHold, PartFits
<1> QED BY <1>4, <1>5, <1>6 DEF DownloadsInv

LEMMA BeginDownloadTyped ==
    ASSUME DownloadsTypes, DownloadsInv, NEW named \in versionRows \cup {0}, BeginDownload(named)
    PROVE  DownloadsTypes' /\ DownloadsInv'
<1>1. /\ download' = [named |-> named, parts |-> <<>>] /\ redirect' = NoRedirect
      /\ UNCHANGED <<sharedKey, uploadSizes, versionRows, heldUnder, redirect>>
    BY DEF BeginDownload
<1>2. named \in 0..MaxUploads
    BY DownloadsAssumption DEF DownloadsTypes, DownloadsTypeOK
<1>3. <<>> \in Seq(Part) /\ DOMAIN download'.parts = {}
    BY <1>1
<1>4. DownloadsTypes'
    BY <1>1, <1>2, <1>3 DEF DownloadsTypes, DownloadsTypeOK
<1>5. KeysHold' /\ RedirectFits'
    BY <1>1 DEF DownloadsInv, KeysHold, RedirectFits
<1>6. PartsHold'
    BY <1>1, <1>3 DEF PartsHold
<1> QED BY <1>4, <1>5, <1>6 DEF DownloadsInv

LEMMA ReceivedIsNat ==
    ASSUME DownloadsTypes
    PROVE  Received \in Nat
<1>1. download.parts # <<>> => Len(download.parts) \in DOMAIN download.parts
    BY EmptySeq, LenProperties DEF DownloadsTypes
<1>2. download.parts # <<>> => download.parts[Len(download.parts)] \in Part
    BY <1>1 DEF DownloadsTypes
<1> QED BY <1>2 DEF Received, Part

LEMMA AskForRestTyped ==
    ASSUME DownloadsTypes, DownloadsInv, NEW till \in 0..Open, NEW matching \in BOOLEAN,
           AskForRest(till, matching)
    PROVE  DownloadsTypes' /\ DownloadsInv'
<1> DEFINE key == KeyOf(FoundVersion(download.named))
           match == IF matching THEN download.parts[1].etag ELSE 0
<1>1. /\ redirect' = [key |-> key, first |-> Received, last |-> till, ifMatch |-> match]
      /\ UNCHANGED <<sharedKey, uploadSizes, versionRows, heldUnder, download>>
      /\ heldUnder[key] # 0
      /\ matching => download.parts # <<>>
      /\ versionRows # {} /\ download.named \in versionRows \cup {0}
      /\ Received < uploadSizes[heldUnder[key]]
    BY DEF AskForRest, GetsRange, ParsesRange
<1>2. key \in Uploads /\ (download.named # 0 /\ ~sharedKey => key = download.named)
    BY <1>1, FoundKey DEF DownloadsInv
<1>3. matching => 1 \in DOMAIN download.parts
    BY <1>1 DEF DownloadsTypes
<1>4. match \in 0..MaxUploads /\ (match # 0 => matching)
    <2>1. matching => download.parts[1] \in Part
        BY <1>3 DEF DownloadsTypes
    <2> QED BY <2>1, Sizes DEF Part
<1>5. Received \in 0..MaxBytes
    <2> HIDE DEF key, match
    <2>1. heldUnder[key] \in DOMAIN uploadSizes
        BY <1>1, <1>2, Sizes
    <2>2. uploadSizes[heldUnder[key]] \in 1..MaxBytes
        BY <2>1, Sizes
    <2> QED BY <1>1, <2>2, ReceivedIsNat, Sizes
<1> HIDE DEF key, match
<1>6. redirect' \in Redirects
    BY <1>1, <1>2, <1>4, <1>5 DEF Redirects
<1>7. DownloadsTypes'
    BY <1>1, <1>6 DEF DownloadsTypes, DownloadsTypeOK, Redirects
<1>8. RedirectFits'
    BY <1>1, <1>2, <1>4 DEF RedirectFits, Received, match
<1>9. KeysHold' /\ PartsHold'
    BY <1>1 DEF DownloadsInv, KeysHold, PartsHold, PartFits
<1> QED BY <1>7, <1>8, <1>9 DEF DownloadsInv

LEMMA FetchPartTyped ==
    ASSUME DownloadsTypes, DownloadsInv, FetchPart
    PROVE  DownloadsTypes' /\ DownloadsInv'
<1>1. PICK part \in Fetched :
         /\ redirect # NoRedirect /\ redirect' = NoRedirect
         /\ download' = [download EXCEPT !.parts = Append(@, part)]
         /\ UNCHANGED <<sharedKey, uploadSizes, versionRows, heldUnder>>
    BY DEF FetchPart
<1> DEFINE etag == heldUnder[redirect.key]
<1>2. redirect \in Redirects
    BY <1>1 DEF DownloadsTypes
<1>3. /\ etag # 0 /\ redirect.ifMatch \in {0, etag} /\ redirect.first < uploadSizes[etag]
      /\ \E b \in redirect.first..(uploadSizes[etag] - 1) :
            part = [etag |-> etag, first |-> redirect.first, last |-> b,
                    matched |-> redirect.ifMatch # 0]
    <2>1. etag \in 0..Len(uploadSizes)
        BY <1>2, Sizes DEF Redirects
    <2> HIDE DEF etag
    <2>2. etag # 0 => uploadSizes[etag] \in Nat
        BY <2>1, Sizes
    <2>3. etag # 0 => (redirect.first >= uploadSizes[etag] <=> ~(redirect.first < uploadSizes[etag]))
        BY <1>2, <2>2, Sizes DEF Redirects
    <2>4. ~ (\/ etag = 0
             \/ redirect.ifMatch \notin {0, etag}
             \/ redirect.first >= uploadSizes[etag])
        BY DEF Fetched, etag
    <2> QED BY <2>3, <2>4 DEF Fetched, etag
<1>4. etag \in DOMAIN uploadSizes /\ etag \in Uploads /\ uploadSizes[etag] \in Nat
    <2>1. etag \in 0..Len(uploadSizes)
        BY <1>2, Sizes DEF Redirects
    <2> HIDE DEF etag
    <2> QED BY <1>3, <2>1, Sizes
<1>5. PICK b \in redirect.first..(uploadSizes[etag] - 1) :
         part = [etag |-> etag, first |-> redirect.first, last |-> b,
                 matched |-> redirect.ifMatch # 0]
    BY <1>3
<1> HIDE DEF etag
<1>6. /\ part.etag = etag /\ part.first = redirect.first /\ part.last = b
      /\ (part.matched <=> redirect.ifMatch # 0) /\ part.matched \in BOOLEAN
      /\ part.first <= part.last /\ part.last < uploadSizes[etag]
    <2>1. redirect.first \in Nat /\ b \in Int
        BY <1>2, <1>4, Sizes DEF Redirects
    <2>2. redirect.first <= b /\ b < uploadSizes[etag]
        BY <1>4, <1>5, <2>1
    <2> QED BY <1>5, <2>2
<1>7. part \in Part
    <2>1. redirect.first \in Nat /\ b \in Nat
        BY <1>2, <1>4, <1>5, Sizes DEF Redirects
    <2> QED BY <1>4, <1>5, <2>1 DEF Part
<1>a. PICK old : old = download.parts
    OBVIOUS
<1>b. PICK new : new = Append(old, part)
    OBVIOUS
<1>8. old \in Seq(Part) /\ Len(old) \in Nat
    BY <1>a DEF DownloadsTypes
<1>9. /\ new \in Seq(Part) /\ Len(new) = Len(old) + 1 /\ new[Len(old) + 1] = part
      /\ DOMAIN new = DOMAIN old \cup {Len(old) + 1}
      /\ \A i \in DOMAIN old : new[i] = old[i]
    BY <1>7, <1>8, <1>b
<1>10. /\ download'.parts = new /\ download'.named = download.named
       /\ download' \in [named: 0..MaxUploads, parts: Seq(Part)]
    BY <1>1, <1>9, <1>a, <1>b DEF DownloadsTypes
<1>11. DownloadsTypes'
    BY <1>1, <1>10 DEF DownloadsTypes, DownloadsTypeOK
<1>12. KeysHold' /\ RedirectFits'
    BY <1>1 DEF DownloadsInv, KeysHold, RedirectFits
<1>13. /\ redirect.first = Received
       /\ redirect.ifMatch # 0 => old # <<>> /\ redirect.ifMatch = old[1].etag
       /\ download.named # 0 /\ ~sharedKey => redirect.key = download.named
    BY <1>1, <1>a DEF DownloadsInv, RedirectFits
<1>14. old # <<>> => 1 \in DOMAIN old /\ Len(old) \in DOMAIN old
    BY <1>8
<1>15. ASSUME NEW i \in DOMAIN old PROVE PartFits(new, i)'
    <2>1. PartFits(old, i)
        BY <1>a DEF DownloadsInv, PartsHold
    <2>2. 1 \in DOMAIN old /\ (i # 1 => i - 1 \in DOMAIN old)
        BY <1>8
    <2> QED BY <1>1, <1>9, <1>10, <2>1, <2>2 DEF PartFits
<1>16. PartFits(new, Len(old) + 1)'
    <2>1. Len(old) # 0 => Len(old) \in DOMAIN old /\ old # <<>> /\ new[Len(old)] = old[Len(old)]
        BY <1>8, <1>9
    <2>2. Len(old) = 0 => old = <<>>
        BY <1>8
    <2>3. part.first = IF Len(old) = 0 THEN 0 ELSE old[Len(old)].last + 1
        BY <1>6, <1>13, <1>a, <2>1, <2>2 DEF Received
    <2>4. part.first = IF Len(old) + 1 = 1 THEN 0 ELSE new[Len(old) + 1 - 1].last + 1
        BY <1>8, <2>1, <2>3
    <2>5. part.matched => part.etag = new[1].etag
        BY <1>3, <1>6, <1>9, <1>13, <1>14 DEF etag
    <2>6. download.named # 0 /\ ~sharedKey => part.etag = download.named
        BY <1>2, <1>3, <1>6, <1>13 DEF DownloadsInv, KeysHold, Redirects, etag
    <2> QED BY <1>1, <1>4, <1>6, <1>9, <1>10, <2>4, <2>5, <2>6 DEF PartFits
<1>17. PartsHold'
    <2> QED BY <1>9, <1>10, <1>15, <1>16 DEF PartsHold
<1> QED BY <1>11, <1>12, <1>17 DEF DownloadsInv

LEMMA DownloadsKept == DownloadsSpec => [](DownloadsTypes /\ DownloadsInv)
<1>1. DownloadsInit => DownloadsTypes /\ DownloadsInv
    BY DownloadsAssumption DEF DownloadsInit, DownloadsTypes, DownloadsTypeOK, DownloadsInv, KeysHold,
       RedirectFits, PartsHold, NoRedirect, Uploads
<1>2. DownloadsTypes /\ DownloadsInv /\ [DownloadsNext]_downloadVars => DownloadsTypes' /\ DownloadsInv'
    <2> SUFFICES ASSUME DownloadsTypes, DownloadsInv, [DownloadsNext]_downloadVars
                 PROVE  DownloadsTypes' /\ DownloadsInv'
        OBVIOUS
    <2>1. CASE FetchFails
        <3>1. /\ redirect' = NoRedirect
              /\ UNCHANGED <<sharedKey, uploadSizes, versionRows, heldUnder, download>>
            BY <2>1 DEF FetchFails
        <3> QED BY <3>1 DEF DownloadsTypes, DownloadsTypeOK, DownloadsInv, KeysHold, RedirectFits,
                            PartsHold, PartFits
    <2>2. CASE UNCHANGED downloadVars
        BY <2>2 DEF downloadVars, DownloadsTypes, DownloadsTypeOK, DownloadsInv, KeysHold, RedirectFits,
                    Received, PartsHold, PartFits
    <2> QED BY <2>1, <2>2, UploadTyped, DeleteOldTyped, BeginDownloadTyped, AskForRestTyped,
               FetchPartTyped DEF DownloadsNext
<1> QED BY <1>1, <1>2, PTL DEF DownloadsSpec

\* The parts of a download follow each other and fit into the bytes they are of,
\* and those that If-Match or the version's own key binds are of one upload:
\* download_field_file's check, the redirect, and the storage's answer later.
LEMMA PartsOfDownloads == DownloadsSpec => []PartsFit
<1>1. DownloadsTypes /\ DownloadsInv => PartsFit
    <2> SUFFICES ASSUME DownloadsTypes, DownloadsInv, NEW i \in DOMAIN download.parts
                 PROVE  LET part == download.parts[i] IN
                        /\ part.first <= part.last /\ part.last < uploadSizes[part.etag]
                        /\ part.first = IF i = 1 THEN 0 ELSE download.parts[i - 1].last + 1
                        /\ Bound(part) => part.etag = download.parts[1].etag
        BY DEF PartsFit, DownloadsTypes
    <2>1. 1 \in DOMAIN download.parts
        BY DEF DownloadsTypes
    <2>2. PartFits(download.parts, i) /\ PartFits(download.parts, 1)
        BY <2>1 DEF DownloadsInv, PartsHold
    <2> QED BY <2>2 DEF PartFits, Bound
<1> QED BY <1>1, DownloadsKept, PTL

-----------------------------------------------------------------------------
(* The creation of projects.                                               *)

CopyInHand(f) == local[f].kind = "copy" /\ local[f].n \in seen[f]
GoesOn == job.status \in {"started", "finished"}

\* A source that was deleted has no files.
SourceGone == seed = "gone" => \A f \in CreationFiles : source[f] = 0

\* What was downloaded so far had its content in the source.
Collected ==
    GoesOn /\ job.step = "download" =>
        todo \subseteq listed /\ \A f \in listed \ todo : CopyInHand(f)

\* Until the project file is named, its history follows the source.
Followed ==
    GoesOn /\ job.kind = "clone" /\ job.step \in {"download", "name"} /\ seed # "gone" =>
        /\ \A f \in CreationFiles : source[f] \in seen[f]
        /\ ~moved => \A f \in QgisNames : f \in listed <=> source[f] # 0

\* From then on every file that was listed is in the container.
Copied ==
    GoesOn /\ job.kind = "clone" /\ job.step \in {"name", "configure", "upload"} =>
        \A f \in listed : CopyInHand(f)

\* The project file has a name, which the source's had unless it moved.
Named ==
    GoesOn /\ job.step \in {"configure", "upload"} =>
        /\ job.file \in QgisNames
        /\ job.kind = "clone" => moved \/ job.file \in listed

\* Every file of the container that need not be uploaded any more is in the
\* new project, unless its users changed it.
Uploaded ==
    GoesOn /\ job.step = "upload" =>
        /\ job.file \in Present(local)
        /\ \A f \in Present(local) \ todo : f \in touched \/ target[f] = local[f]

\* The kind is known when the source is listed, and a job finishes when all is uploaded.
Ordered ==
    /\ job.status = "started" /\ job.step \in {"list", "download"} => job.kind = "clone"
    /\ job.status = "finished" => job.step = "upload" /\ todo = {}

CreationInv ==
    SourceGone /\ Collected /\ Followed /\ Copied /\ Named /\ Uploaded /\ Ordered

LEMMA CreationTypes == CreationSpec => []CreationTypeOK
<1> USE CreationAssumption
<1>1. CreationInit => CreationTypeOK
    <2>1. Missing \in Contents
        BY DEF Missing, Contents
    <2>2. {0, 1} \subseteq 0..MaxEdits + 1 /\ 0 \in 0..MaxEdits /\ 0 \in 0..MaxReruns
        OBVIOUS
    <2>3. NewJob \in [status: {"pending", "started", "finished", "failed"},
                      step: {"seed", "list", "download", "name", "configure", "upload"},
                      kind: {"none", "clone", "xlsform", "empty"}, file: QgisNames \cup {"none"}]
        BY DEF NewJob
    <2> QED BY ZenonT(60), <2>1, <2>2, <2>3 DEF CreationInit, CreationTypeOK
<1>2. CreationTypeOK /\ [CreationNext]_creationVars => CreationTypeOK'
    <2> SUFFICES ASSUME CreationTypeOK, [CreationNext]_creationVars PROVE CreationTypeOK'
        OBVIOUS
    <2>a. Missing \in Contents /\ [kind |-> "blank", n |-> 0] \in Contents /\ [kind |-> "own", n |-> 0] \in Contents
        BY DEF Missing, Contents
    <2>b. \A f \in CreationFiles : CopyOf(source[f]) \in Contents /\ source[f] \in 0..MaxEdits + 1
        BY DEF CopyOf, Contents, CreationTypeOK
    <2>c. QgisNames \subseteq CreationFiles
        BY DEF CreationFiles
    <2> USE <2>a DEF CreationTypeOK, At, GoTo, filesUnchanged
    <2>1. CASE StartCreation
        BY <2>1 DEF StartCreation, NewJob
    <2>2. CASE GetSeed
        BY <2>2 DEF GetSeed
    <2>3. CASE ListSource
        BY <2>3, <2>b DEF ListSource
    <2>4. CASE Downloaded
        BY <2>4 DEF Downloaded
    <2>5. CASE ConfigureProject
        <3>1. local' \in [CreationFiles -> Contents]
            BY <2>5, <2>c DEF ConfigureProject
        <3> QED BY <2>5, <3>1 DEF ConfigureProject, Present
    <2>6. CASE FinishCreation
        BY <2>6 DEF FinishCreation
    <2>7. CASE FailCreation
        BY <2>7 DEF FailCreation
    <2>8. CASE RerunCreation
        BY <2>8 DEF RerunCreation, NewJob
    <2>9. CASE DeleteSource
        BY <2>9 DEF DeleteSource
    <2>10. ASSUME NEW f \in CreationFiles, DownloadFile(f) PROVE CreationTypeOK'
        BY <2>10, <2>b DEF DownloadFile
    <2>11. ASSUME NEW f \in CreationFiles, NameProjectFile(f) PROVE CreationTypeOK'
        BY <2>11 DEF NameProjectFile
    <2>12. ASSUME NEW f \in CreationFiles, UploadFile(f) PROVE CreationTypeOK'
        BY <2>12 DEF UploadFile
    <2>13. ASSUME NEW f \in CreationFiles, NEW n \in {0, edits + 2}, EditSource(f, n) PROVE CreationTypeOK'
        <3>1. n \in 0..MaxEdits + 1 /\ edits + 1 \in 0..MaxEdits
            BY <2>13 DEF EditSource
        <3>2. source' \in [CreationFiles -> 0..MaxEdits + 1] /\ edits' \in 0..MaxEdits
            BY <2>13, <3>1 DEF EditSource
        <3>3. seen' \in [CreationFiles -> SUBSET (0..MaxEdits + 1)] /\ moved' \in BOOLEAN
            <4>1. \/ /\ seen' = [seen EXCEPT ![f] = @ \cup {n}]
                     /\ moved' = (moved \/ (f \in QgisNames /\ 0 \in {n, source[f]}))
                  \/ UNCHANGED <<seen, moved>>
                BY <2>13 DEF EditSource
            <4>2. seen[f] \cup {n} \in SUBSET (0..MaxEdits + 1)
                BY <3>1
            <4> QED BY ZenonT(60), <4>1, <4>2
        <3> QED BY <2>13, <3>2, <3>3 DEF EditSource
    <2>14. ASSUME NEW f \in CreationFiles, NEW content \in {Missing, [kind |-> "own", n |-> 0]},
                  EditTarget(f, content)
           PROVE  CreationTypeOK'
        BY <2>14 DEF EditTarget
    <2>15. CASE UNCHANGED creationVars
        BY <2>15 DEF creationVars
    <2> QED BY <2>1, <2>2, <2>3, <2>4, <2>5, <2>6, <2>7, <2>8, <2>9, <2>10, <2>11, <2>12, <2>13, <2>14,
               <2>15 DEF CreationNext
<1> QED BY <1>1, <1>2, PTL DEF CreationSpec

LEMMA CreationKept == CreationSpec => []CreationInv
<1>1. CreationInit => CreationInv
    BY DEF CreationInit, CreationInv, SourceGone, Collected, Followed, Copied, Named, Uploaded, Ordered,
           GoesOn, NewJob
<1>2. CreationTypeOK /\ CreationInv /\ [CreationNext]_creationVars => CreationInv'
    <2> SUFFICES ASSUME CreationTypeOK, CreationInv, [CreationNext]_creationVars PROVE CreationInv'
        OBVIOUS
    <2>c. QgisNames \subseteq CreationFiles
        BY DEF CreationFiles
    <2> USE DEF CreationTypeOK, CreationInv, At, GoTo, filesUnchanged, SourceGone, Collected, Followed,
                Copied, Named, Uploaded, Ordered, GoesOn, CopyInHand
    <2>1. CASE StartCreation
        BY <2>1 DEF StartCreation, NewJob
    <2>2. CASE GetSeed
        BY <2>2 DEF GetSeed
    <2>3. CASE ListSource
        BY <2>3, <2>c DEF ListSource
    <2>4. CASE Downloaded
        BY <2>4 DEF Downloaded
    <2>5. CASE ConfigureProject
        BY <2>5, <2>c DEF ConfigureProject, Present
    <2>6. CASE FinishCreation
        BY <2>6 DEF FinishCreation
    <2>7. CASE FailCreation
        BY <2>7 DEF FailCreation
    <2>8. CASE RerunCreation
        BY <2>8 DEF RerunCreation, NewJob
    <2>9. CASE DeleteSource
        BY <2>9 DEF DeleteSource
    <2>10. ASSUME NEW f \in CreationFiles, DownloadFile(f) PROVE CreationInv'
        BY <2>10 DEF DownloadFile, CopyOf
    <2>11. ASSUME NEW f \in CreationFiles, NameProjectFile(f) PROVE CreationInv'
        BY <2>11 DEF NameProjectFile, TheQgisFiles
    <2>12. ASSUME NEW f \in CreationFiles, UploadFile(f) PROVE CreationInv'
        BY <2>12 DEF UploadFile, Present
    <2>13. ASSUME NEW f \in CreationFiles, NEW n \in {0, edits + 2}, EditSource(f, n) PROVE CreationInv'
        <3>1. /\ seed # "gone" /\ source' = [source EXCEPT ![f] = n]
              /\ UNCHANGED <<target, seed, job, local, todo, listed, touched>>
              /\ IF job.step \in {"download", "name"}
                 THEN /\ seen' = [seen EXCEPT ![f] = @ \cup {n}]
                      /\ moved' = (moved \/ (f \in QgisNames /\ 0 \in {n, source[f]}))
                 ELSE UNCHANGED <<seen, moved>>
            BY <2>13 DEF EditSource
        <3>2. \A g \in CreationFiles : seen[g] \subseteq seen'[g]
            BY <3>1
        <3>3. job.step \in {"download", "name"} => \A g \in CreationFiles :
                  source'[g] \in seen'[g] \/ (source'[g] = source[g] /\ g # f)
            BY <3>1
        <3>4. job.step \in {"download", "name"} /\ ~moved' =>
                  ~moved /\ \A g \in QgisNames : source'[g] # 0 <=> source[g] # 0
            BY <3>1, <2>c
        <3>5. Followed'
            BY <3>1, <3>2, <3>3, <3>4
        <3>6. Collected' /\ Copied'
            BY <3>1, <3>2
        <3>7. Named'
            BY <3>1
        <3> QED BY <3>1, <3>5, <3>6, <3>7 DEF Present
    <2>14. ASSUME NEW f \in CreationFiles, NEW content \in {Missing, [kind |-> "own", n |-> 0]},
                  EditTarget(f, content)
           PROVE  CreationInv'
        BY <2>14 DEF EditTarget, Present
    <2>15. CASE UNCHANGED creationVars
        BY <2>15 DEF creationVars, Present
    <2> QED BY ZenonT(60), <2>1, <2>2, <2>3, <2>4, <2>5, <2>6, <2>7, <2>8, <2>9, <2>10, <2>11, <2>12, <2>13, <2>14,
               <2>15 DEF CreationNext
<1> QED BY <1>1, <1>2, CreationTypes, PTL DEF CreationSpec

\* A creation that finishes leaves a project file, and a copy every listed file
\* with a content of the source: the workflow of create_project against the users
\* of the source and of the new project.
LEMMA CreatedProjects == CreationSpec => []CloneIsWhole
<1>1. CreationTypeOK /\ CreationInv => CloneIsWhole
    BY DEF CreationTypeOK, CreationInv, CloneIsWhole, Copied, Named, Uploaded, Ordered, GoesOn, CopyInHand,
           Present, CreationFiles
<1> QED BY <1>1, CreationTypes, CreationKept, PTL

-----------------------------------------------------------------------------
(* Notifications.                                                          *)

Rounds ==
    {NoRound} \cup [step: {"next"}, users: SUBSET Persons]
        \cup [step: {"send", "mark"}, users: SUBSET Persons, user: Persons,
              cached: SUBSET (1..MaxNotices)]

\* A round is a record, and no more changes are made than are numbered.
NotificationsTypes ==
    /\ NotificationsTypeOK
    /\ round \in Rounds
    /\ Len(changes) <= MaxNotices

\* Whoever is concerned by a change has its note.
EverybodyTold ==
    \A i \in DOMAIN changes :
        changes[i].actor \notin {Nobody, changes[i].person}
        => \E n \in notes : n.to = changes[i].person /\ n.about = i

\* Notes are about changes that were made, and nothing else was mailed.
NotesKnown ==
    /\ \A n \in notes : n.about \in DOMAIN changes
    /\ \A p \in Persons, a \in 1..MaxNotices : a \notin DOMAIN changes => mails[<<p, a>>] = 0

\* What a mail is made of is not marked before it, and was mailed when it is marked.
MailKnown ==
    round.step \in {"send", "mark"} =>
        \A a \in round.cached :
            /\ [to |-> round.user, about |-> a, emailed |-> FALSE] \in notes
            /\ round.step = "mark" => mails[<<round.user, a>>] > 0

BeingMarked(n) == round.step = "mark" /\ round.user = n.to /\ n.about \in round.cached

\* A note that is not marked was mailed by rounds that died, and by the one that
\* is to mark it; one that is marked was mailed or came late.
MailsCounted ==
    \A n \in notes :
        /\ TimesMailed(n) <= deaths + 1
        /\ ~n.emailed => TimesMailed(n) <= deaths \/ BeingMarked(n)
        /\ n.emailed => TimesMailed(n) > 0 \/ <<n.to, n.about>> \in late

NotificationsInv == EverybodyTold /\ NotesKnown /\ MailKnown /\ MailsCounted

\* What _send_notif leaves: new changes, with notes of nobody else's.
LEMMA NotifsSent ==
    ASSUME NotificationsTypes, NEW person \in Persons, NEW actor \in Persons \cup {Nobody},
           NEW places \in Seq(Places), NEW before \in [Places -> SUBSET Persons],
           \A i \in DOMAIN places : person \in before[places[i]],
           SendNotifs(person, actor, places, before)
    PROVE  /\ changes' \in Seq([person: Persons, actor: Persons \cup {Nobody}])
           /\ Len(changes') <= MaxNotices
           /\ DOMAIN changes \subseteq DOMAIN changes'
           /\ \A i \in DOMAIN changes : changes'[i] = changes[i]
           /\ \A i \in DOMAIN changes' \ DOMAIN changes :
                 /\ changes'[i] = [person |-> person, actor |-> actor]
                 /\ actor \notin {Nobody, person} => \E n \in notes' : n.to = person /\ n.about = i
           /\ notes \subseteq notes' /\ notes' \subseteq Notes
           /\ \A n \in notes' \ notes : ~n.emailed /\ n.about \in DOMAIN changes' \ DOMAIN changes
<1> DEFINE k == Len(changes)
           m == Len(places)
           new == [i \in DOMAIN places |-> [person |-> person, actor |-> actor]]
           Fresh(i) == {[to |-> p, about |-> k + i, emailed |-> FALSE] :
                           p \in ConcernedIn(before, places[i]) \ {actor}}
<1>1. /\ k \in Nat /\ m \in Nat /\ DOMAIN places = 1..m /\ DOMAIN changes = 1..k
      /\ changes \in Seq([person: Persons, actor: Persons \cup {Nobody}])
    BY DEF NotificationsTypes, NotificationsTypeOK
<1>2. /\ k + m <= MaxNotices /\ changes' = changes \o new
      /\ notes' = notes \cup (IF actor = Nobody THEN {} ELSE UNION {Fresh(i) : i \in DOMAIN places})
    BY DEF SendNotifs
<1>3. new \in Seq([person: Persons, actor: Persons \cup {Nobody}]) /\ Len(new) = m
    BY <1>1
<1>4. \A i \in DOMAIN places :
         /\ ConcernedIn(before, places[i]) \subseteq Persons
         /\ person \in ConcernedIn(before, places[i])
    <2> SUFFICES ASSUME NEW i \in DOMAIN places
                 PROVE  /\ ConcernedIn(before, places[i]) \subseteq Persons
                        /\ person \in ConcernedIn(before, places[i])
        OBVIOUS
    <2>1. places[i] \in Places /\ person \in before[places[i]]
        OBVIOUS
    <2> QED BY <2>1, NotificationsAssumption
            DEF ConcernedIn, ConcernedInProject, ConcernedInEntity, Places
<1>5. /\ changes' \in Seq([person: Persons, actor: Persons \cup {Nobody}])
      /\ Len(changes') = k + m /\ DOMAIN changes' = 1..(k + m)
      /\ \A i \in 1..k : changes'[i] = changes[i]
      /\ \A i \in 1..m : changes'[k + i] = [person |-> person, actor |-> actor]
    <2> HIDE DEF new, k, m
    <2>1. changes' \in Seq([person: Persons, actor: Persons \cup {Nobody}])
          /\ Len(changes') = k + m
          /\ \A i \in 1..(k + m) : changes'[i] = IF i <= k THEN changes[i] ELSE new[i - k]
        BY <1>1, <1>2, <1>3, ConcatProperties DEF k
    <2>2. \A i \in 1..m : k + i \in 1..(k + m) /\ ~(k + i <= k) /\ (k + i) - k = i
        BY <1>1
    <2>3. \A i \in 1..k : i \in 1..(k + m) /\ i <= k
        BY <1>1
    <2>4. \A i \in 1..m : new[i] = [person |-> person, actor |-> actor]
        BY <1>1 DEF new
    <2>5. DOMAIN changes' = 1..(k + m)
        BY <2>1
    <2>6. \A i \in 1..k : changes'[i] = changes[i]
        BY <2>1, <2>3
    <2>7. \A i \in 1..m : changes'[k + i] = [person |-> person, actor |-> actor]
        BY <2>1, <2>2, <2>4
    <2> QED BY <2>1, <2>5, <2>6, <2>7
<1> HIDE DEF k, m, new
<1>6. \A i \in 1..(k + m) \ 1..k : i - k \in 1..m /\ k + (i - k) = i
    BY <1>1
<1>7. \A i \in 1..m : k + i \in 1..(k + m) \ 1..k /\ k + i \in 1..MaxNotices
    BY <1>1, <1>2, NotificationsAssumption
<1>8. ASSUME NEW i \in DOMAIN changes' \ DOMAIN changes
      PROVE  /\ changes'[i] = [person |-> person, actor |-> actor]
             /\ actor \notin {Nobody, person} => \E n \in notes' : n.to = person /\ n.about = i
    <2> DEFINE j == i - k
    <2>1. j \in 1..m /\ k + j = i
        BY <1>1, <1>5, <1>6
    <2> HIDE DEF j
    <2>2. changes'[i] = [person |-> person, actor |-> actor]
        BY <1>5, <2>1
    <2>3. ASSUME actor \notin {Nobody, person} PROVE \E n \in notes' : n.to = person /\ n.about = i
        <3>1. [to |-> person, about |-> i, emailed |-> FALSE] \in Fresh(j)
            BY <1>1, <1>4, <2>1, <2>3
        <3>2. Fresh(j) \subseteq notes'
            <4> HIDE DEF Fresh
            <4> QED BY <1>1, <1>2, <2>1, <2>3
        <3> HIDE DEF Fresh
        <3> QED BY <3>1, <3>2
    <2> QED BY <2>2, <2>3
<1>9. ASSUME NEW n \in notes', n \notin notes
      PROVE  n \in Notes /\ ~n.emailed /\ n.about \in DOMAIN changes' \ DOMAIN changes
    <2>1. PICK i \in DOMAIN places : n \in Fresh(i)
        <3> HIDE DEF Fresh
        <3> QED BY <1>2, <1>9
    <2>2. PICK p \in ConcernedIn(before, places[i]) : n = [to |-> p, about |-> k + i, emailed |-> FALSE]
        BY <2>1
    <2>3. i \in 1..m /\ p \in Persons
        BY <1>1, <1>4, <2>2
    <2> QED BY <1>1, <1>5, <1>7, <2>2, <2>3 DEF Notes
<1>10. notes \subseteq notes' /\ notes \subseteq Notes
    BY <1>2 DEF NotificationsTypes, NotificationsTypeOK
<1>11. DOMAIN changes \subseteq DOMAIN changes' /\ Len(changes') <= MaxNotices
    BY <1>1, <1>2, <1>5
<1>12. notes' \subseteq Notes
    BY <1>9, <1>10
<1> QED BY <1>1, <1>5, <1>8, <1>9, <1>10, <1>11, <1>12

\* A change keeps the invariant.
LEMMA ChangeKeeps ==
    ASSUME NotificationsTypes, NotificationsInv,
           NEW person \in Persons, NEW actor \in Persons \cup {Nobody},
           NEW places \in Seq(Places), NEW before \in [Places -> SUBSET Persons],
           \A i \in DOMAIN places : person \in before[places[i]],
           SendNotifs(person, actor, places, before),
           rows' \in [Places -> SUBSET Persons], OrgOwner \notin rows'["organization"],
           UNCHANGED <<round, mails, late, deaths>>
    PROVE  NotificationsTypes' /\ NotificationsInv'
<1>1. /\ changes' \in Seq([person: Persons, actor: Persons \cup {Nobody}])
      /\ Len(changes') <= MaxNotices
      /\ DOMAIN changes \subseteq DOMAIN changes'
      /\ \A i \in DOMAIN changes : changes'[i] = changes[i]
      /\ \A i \in DOMAIN changes' \ DOMAIN changes :
            /\ changes'[i] = [person |-> person, actor |-> actor]
            /\ actor \notin {Nobody, person} => \E n \in notes' : n.to = person /\ n.about = i
      /\ notes \subseteq notes' /\ notes' \subseteq Notes
      /\ \A n \in notes' \ notes : ~n.emailed /\ n.about \in DOMAIN changes' \ DOMAIN changes
    BY NotifsSent
<1>2. NotificationsTypes'
    BY <1>1 DEF NotificationsTypes, NotificationsTypeOK
<1>3. EverybodyTold'
    BY <1>1 DEF NotificationsInv, EverybodyTold
<1>4. NotesKnown'
    BY <1>1 DEF NotificationsInv, NotesKnown
<1>5. MailKnown'
    BY <1>1 DEF NotificationsInv, MailKnown
<1>6. MailsCounted'
    <2> SUFFICES ASSUME NEW n \in notes'
                 PROVE  /\ TimesMailed(n) <= deaths + 1
                        /\ ~n.emailed => TimesMailed(n) <= deaths \/ BeingMarked(n)
                        /\ n.emailed => TimesMailed(n) > 0 \/ <<n.to, n.about>> \in late
        BY DEF MailsCounted, TimesMailed, BeingMarked
    <2>1. CASE n \in notes
        BY <2>1 DEF NotificationsInv, MailsCounted
    <2>2. CASE n \notin notes
        <3>1. n.to \in Persons /\ n.about \in 1..MaxNotices /\ ~n.emailed /\ n.about \notin DOMAIN changes
            BY <1>1, <2>2 DEF Notes
        <3>2. TimesMailed(n) = 0
            BY <3>1 DEF NotificationsInv, NotesKnown, TimesMailed
        <3>3. deaths \in Nat
            BY NotificationsAssumption DEF NotificationsTypes, NotificationsTypeOK
        <3> QED BY <3>1, <3>2, <3>3
    <2> QED BY <2>1, <2>2
<1> QED BY <1>2, <1>3, <1>4, <1>5, <1>6 DEF NotificationsInv

LEMMA SendMailKeeps ==
    ASSUME NotificationsTypes, NotificationsInv, SendMail
    PROVE  NotificationsTypes' /\ NotificationsInv'
<1>1. /\ round.step = "send" /\ round' = [round EXCEPT !.step = "mark"]
      /\ mails' = [k \in DOMAIN mails |->
                     IF k[1] = round.user /\ k[2] \in round.cached THEN mails[k] + 1 ELSE mails[k]]
      /\ UNCHANGED <<rows, changes, notes, late, deaths>>
    BY DEF SendMail
<1>2. /\ round \in [step: {"send", "mark"}, users: SUBSET Persons, user: Persons, cached: SUBSET (1..MaxNotices)]
      /\ mails \in [Persons \X (1..MaxNotices) -> Nat] /\ deaths \in Nat
    BY <1>1, NotificationsAssumption DEF NotificationsTypes, NotificationsTypeOK, Rounds, NoRound
<1>3. /\ round'.step = "mark" /\ round'.user = round.user /\ round'.cached = round.cached
      /\ round' \in Rounds /\ round'.users = round.users /\ round' # NoRound
    BY <1>1, <1>2 DEF Rounds, NoRound
<1>4. mails' \in [Persons \X (1..MaxNotices) -> Nat]
    BY <1>1, <1>2
<1>5. \A p \in Persons, a \in 1..MaxNotices :
         mails'[<<p, a>>] = IF p = round.user /\ a \in round.cached THEN mails[<<p, a>>] + 1
                            ELSE mails[<<p, a>>]
    BY <1>1, <1>2
<1>6. NotificationsTypes'
    BY <1>1, <1>2, <1>3, <1>4 DEF NotificationsTypes, NotificationsTypeOK
<1>7. \A a \in round.cached :
         /\ [to |-> round.user, about |-> a, emailed |-> FALSE] \in notes
         /\ a \in DOMAIN changes /\ mails[<<round.user, a>>] <= deaths
    <2> SUFFICES ASSUME NEW a \in round.cached
                 PROVE  /\ [to |-> round.user, about |-> a, emailed |-> FALSE] \in notes
                        /\ a \in DOMAIN changes /\ mails[<<round.user, a>>] <= deaths
        OBVIOUS
    <2> DEFINE n == [to |-> round.user, about |-> a, emailed |-> FALSE]
    <2>1. n \in notes
        BY <1>1 DEF NotificationsInv, MailKnown
    <2>2. ~BeingMarked(n)
        BY <1>1 DEF BeingMarked
    <2> QED BY <2>1, <2>2 DEF NotificationsInv, NotesKnown, MailsCounted, TimesMailed
<1>8. EverybodyTold' /\ NotesKnown'
    <2>1. EverybodyTold'
        BY <1>1 DEF NotificationsInv, EverybodyTold
    <2>2. ASSUME NEW p \in Persons, NEW a \in 1..MaxNotices, a \notin DOMAIN changes
          PROVE  mails'[<<p, a>>] = 0
        <3>1. a \notin round.cached /\ mails[<<p, a>>] = 0
            BY <1>7, <2>2 DEF NotificationsInv, NotesKnown
        <3> QED BY <1>5, <3>1
    <2> QED BY <1>1, <2>1, <2>2 DEF NotificationsInv, NotesKnown
<1>9. MailKnown'
    <2> SUFFICES ASSUME NEW a \in round.cached PROVE mails'[<<round.user, a>>] > 0
        BY <1>1, <1>3, <1>7 DEF MailKnown
    <2>1. a \in 1..MaxNotices /\ round.user \in Persons
        BY <1>2
    <2> QED BY <1>2, <1>5, <2>1
<1>10. MailsCounted'
    <2> SUFFICES ASSUME NEW n \in notes
                 PROVE  /\ TimesMailed(n)' <= deaths + 1
                        /\ ~n.emailed => TimesMailed(n)' <= deaths \/ BeingMarked(n)'
                        /\ n.emailed => TimesMailed(n)' > 0 \/ <<n.to, n.about>> \in late
        BY <1>1 DEF MailsCounted
    <2>1. n.to \in Persons /\ n.about \in 1..MaxNotices
        BY DEF NotificationsTypes, NotificationsTypeOK, Notes
    <2>2. mails[<<n.to, n.about>>] \in Nat
        BY <1>2, <2>1
    <2>3. /\ TimesMailed(n) <= deaths + 1 /\ (n.emailed => TimesMailed(n) > 0 \/ <<n.to, n.about>> \in late)
          /\ ~n.emailed => TimesMailed(n) <= deaths
        BY <1>1 DEF NotificationsInv, MailsCounted, BeingMarked
    <2>4. CASE n.to = round.user /\ n.about \in round.cached
        <3>1. TimesMailed(n)' = mails[<<n.to, n.about>>] + 1
            BY <1>5, <2>1, <2>4 DEF TimesMailed
        <3>2. BeingMarked(n)'
            BY <1>3, <2>4 DEF BeingMarked
        <3>3. mails[<<n.to, n.about>>] <= deaths
            BY <1>7, <2>4
        <3> QED BY <1>2, <2>2, <3>1, <3>2, <3>3
    <2>5. CASE ~(n.to = round.user /\ n.about \in round.cached)
        BY <1>5, <2>1, <2>3, <2>5 DEF TimesMailed
    <2> QED BY <2>4, <2>5
<1> QED BY <1>6, <1>8, <1>9, <1>10 DEF NotificationsInv

LEMMA MarkEmailedKeeps ==
    ASSUME NotificationsTypes, NotificationsInv, MarkEmailed
    PROVE  NotificationsTypes' /\ NotificationsInv'
<1> DEFINE marked == Unmailed(round.user)
<1>1. /\ round.step = "mark" /\ round' = [step |-> "next", users |-> round.users]
      /\ notes' = (notes \ marked) \cup {[n EXCEPT !.emailed = TRUE] : n \in marked}
      /\ late' = late \cup {<<n.to, n.about>> : n \in {m \in marked : m.about \notin round.cached}}
      /\ UNCHANGED <<rows, changes, mails, deaths>>
    BY DEF MarkEmailed
<1>2. /\ round \in [step: {"send", "mark"}, users: SUBSET Persons, user: Persons, cached: SUBSET (1..MaxNotices)]
      /\ notes \subseteq Notes /\ late \subseteq Persons \X (1..MaxNotices)
    BY <1>1 DEF NotificationsTypes, NotificationsTypeOK, Rounds, NoRound
<1>3. \A n \in marked : /\ n \in notes /\ n \in Notes /\ n.to = round.user /\ ~n.emailed
                        /\ [n EXCEPT !.emailed = TRUE] \in Notes
                        /\ [n EXCEPT !.emailed = TRUE].to = n.to
                        /\ [n EXCEPT !.emailed = TRUE].about = n.about
                        /\ [n EXCEPT !.emailed = TRUE].emailed
    BY <1>2 DEF Unmailed, Notes
<1>4. \A n \in notes : n.to = round.user /\ ~n.emailed => n \in marked
    BY DEF Unmailed
<1> HIDE DEF marked
<1>5. NotificationsTypes'
    <2>1. notes' \subseteq Notes
        BY <1>1, <1>2, <1>3
    <2>2. late' \subseteq Persons \X (1..MaxNotices)
        <3>1. \A n \in marked : <<n.to, n.about>> \in Persons \X (1..MaxNotices)
            BY <1>3 DEF Notes
        <3> QED BY <1>1, <1>2, <3>1
    <2>3. round' \in Rounds /\ round'.step = "next" /\ round'.users \subseteq Persons
        BY <1>1, <1>2 DEF Rounds
    <2> QED BY <1>1, <2>1, <2>2, <2>3 DEF NotificationsTypes, NotificationsTypeOK
<1>6. \A n \in notes : \E n2 \in notes' : n2.to = n.to /\ n2.about = n.about
    BY <1>1, <1>3
<1>7. EverybodyTold'
    <2> SUFFICES ASSUME NEW i \in DOMAIN changes,
                        changes[i].actor \notin {Nobody, changes[i].person}
                 PROVE  \E n \in notes' : n.to = changes[i].person /\ n.about = i
        BY <1>1 DEF EverybodyTold
    <2>1. PICK n \in notes : n.to = changes[i].person /\ n.about = i
        BY DEF NotificationsInv, EverybodyTold
    <2> QED BY <1>6, <2>1
<1>8. NotesKnown'
    BY <1>1, <1>3 DEF NotificationsInv, NotesKnown
<1>9. MailKnown'
    BY <1>1 DEF MailKnown
<1>10. MailsCounted'
    <2> SUFFICES ASSUME NEW n \in notes'
                 PROVE  /\ TimesMailed(n) <= deaths + 1
                        /\ ~n.emailed => TimesMailed(n) <= deaths
                        /\ n.emailed => TimesMailed(n) > 0 \/ <<n.to, n.about>> \in late'
        BY <1>1 DEF MailsCounted, TimesMailed
    <2>1. CASE n \in notes \ marked
        <3>1. ~n.emailed => ~BeingMarked(n)
            BY <1>4, <2>1 DEF BeingMarked
        <3> QED BY <1>1, <2>1, <3>1 DEF NotificationsInv, MailsCounted
    <2>2. CASE n \notin notes \ marked
        <3>1. PICK m \in marked : n = [m EXCEPT !.emailed = TRUE]
            BY <1>1, <2>2
        <3>2. n.emailed /\ TimesMailed(n) = TimesMailed(m) /\ n.to = m.to /\ n.about = m.about
            BY <1>3, <3>1 DEF TimesMailed
        <3>3. TimesMailed(m) <= deaths + 1
            BY <1>3 DEF NotificationsInv, MailsCounted
        <3>4. m.about \in round.cached => TimesMailed(m) > 0
            BY <1>1, <1>3 DEF NotificationsInv, MailKnown, TimesMailed
        <3>5. m.about \notin round.cached => <<m.to, m.about>> \in late'
            BY <1>1
        <3> QED BY <3>2, <3>3, <3>4, <3>5
    <2> QED BY <2>1, <2>2
<1> QED BY <1>5, <1>7, <1>8, <1>9, <1>10 DEF NotificationsInv

LEMMA NotificationsKept == NotificationsSpec => [](NotificationsTypes /\ NotificationsInv)
<1>1. NotificationsInit => NotificationsTypes /\ NotificationsInv
    <2> SUFFICES ASSUME NotificationsInit PROVE NotificationsTypes /\ NotificationsInv
        OBVIOUS
    <2>1. rows \in [Places -> SUBSET Persons] /\ OrgOwner \notin rows["organization"]
        BY DEF NotificationsInit, Places
    <2>2. /\ changes = <<>> /\ notes = {} /\ round = NoRound /\ deaths = 0 /\ late = {}
          /\ mails = [k \in Persons \X (1..MaxNotices) |-> 0]
        BY DEF NotificationsInit
    <2>3. NotificationsTypes
        BY <2>1, <2>2, NotificationsAssumption DEF NotificationsTypes, NotificationsTypeOK, Rounds
    <2> QED BY <2>2, <2>3 DEF NotificationsInv, EverybodyTold, NotesKnown, MailKnown, MailsCounted, NoRound
<1>2. ASSUME NotificationsTypes, NotificationsInv, [NotificationsNext]_notifVars
      PROVE  NotificationsTypes' /\ NotificationsInv'
    <2>a. Actors \subseteq Persons \cup {Nobody} /\ rows \in [Places -> SUBSET Persons]
          /\ OrgOwner \notin rows["organization"]
        BY <1>2, NotificationsAssumption DEF Actors, NotificationsTypes, NotificationsTypeOK, Places
    <2>b. deaths \in Nat
        BY <1>2, NotificationsAssumption DEF NotificationsTypes, NotificationsTypeOK
    <2>1. ASSUME NEW person \in Persons, NEW actor \in Actors, NEW place \in Places,
                 Added(person, place, actor)
          PROVE  NotificationsTypes' /\ NotificationsInv'
        <3>1. rows' \in [Places -> SUBSET Persons] /\ person \in rows'[place]
              /\ OrgOwner \notin rows'["organization"]
            BY <2>1, <2>a DEF Added
        <3>2. PICK before : before = rows'
            OBVIOUS
        <3>3. <<place>> \in Seq(Places) /\ \A i \in DOMAIN <<place>> : <<place>>[i] = place
            OBVIOUS
        <3>4. SendNotifs(person, actor, <<place>>, before) /\ UNCHANGED <<round, mails, late, deaths>>
            BY <2>1, <3>2 DEF Added
        <3> QED BY <1>2, <2>a, <3>1, <3>2, <3>3, <3>4, ChangeKeeps
    <2>2. ASSUME NEW person \in Persons, NEW actor \in Actors, NEW place \in Places,
                 Removed(person, place, actor)
          PROVE  NotificationsTypes' /\ NotificationsInv'
        <3>1. rows' \in [Places -> SUBSET Persons] /\ person \in rows[place]
              /\ OrgOwner \notin rows'["organization"]
            BY <2>2, <2>a DEF Removed
        <3>3. <<place>> \in Seq(Places) /\ \A i \in DOMAIN <<place>> : <<place>>[i] = place
            OBVIOUS
        <3>4. SendNotifs(person, actor, <<place>>, rows) /\ UNCHANGED <<round, mails, late, deaths>>
            BY <2>2 DEF Removed
        <3> QED BY <1>2, <2>a, <3>1, <3>3, <3>4, ChangeKeeps
    <2>3. ASSUME NEW person \in Persons, NEW actor \in Actors, MemberRemoved(person, actor)
          PROVE  NotificationsTypes' /\ NotificationsInv'
        <3> DEFINE also(place) == IF person \in rows[place] THEN <<place>> ELSE <<>>
                   places == <<"organization">> \o also("project") \o also("team")
        <3>1. /\ person \in rows["organization"] /\ SendNotifs(person, actor, places, rows)
              /\ rows' = [place \in Places |-> rows[place] \ {person}]
              /\ UNCHANGED <<round, mails, late, deaths>>
            BY <2>3 DEF MemberRemoved
        <3>2. places \in Seq(Places) /\ \A i \in DOMAIN places : person \in rows[places[i]]
            <4> DEFINE its == {place \in Places : person \in rows[place]}
            <4>1. /\ <<"organization">> \in Seq(its) /\ also("project") \in Seq(its)
                  /\ also("team") \in Seq(its)
                <5>1. "project" \in Places /\ "team" \in Places /\ "organization" \in its
                    BY <3>1 DEF Places
                <5>2. ASSUME NEW place \in {"project", "team"} PROVE also(place) \in Seq(its)
                    <6>1. CASE person \in rows[place]
                        <7>1. place \in its /\ also(place) = <<place>>
                            BY <5>1, <6>1
                        <7> HIDE DEF its, also
                        <7> QED BY <7>1
                    <6>2. CASE person \notin rows[place]
                        <7>1. also(place) = <<>>
                            BY <6>2
                        <7> HIDE DEF its, also
                        <7> QED BY <7>1
                    <6> QED BY <6>1, <6>2
                <5> HIDE DEF its, also
                <5> QED BY <5>1, <5>2
            <4>2. places \in Seq(its)
                <5> HIDE DEF its, also
                <5> QED BY <4>1
            <4>3. \A i \in DOMAIN places : places[i] \in its
                <5> HIDE DEF its, places
                <5> QED BY <4>2
            <4>4. Seq(its) \subseteq Seq(Places)
                OBVIOUS
            <4> HIDE DEF places
            <4> QED BY <4>2, <4>3, <4>4
        <3>3. rows' \in [Places -> SUBSET Persons] /\ OrgOwner \notin rows'["organization"]
            BY <2>a, <3>1 DEF Places
        <3> HIDE DEF places
        <3> QED BY <1>2, <2>a, <3>1, <3>2, <3>3, ChangeKeeps
    <2>4. ASSUME NEW users \in SUBSET Persons, BeginRound(users)
          PROVE  NotificationsTypes' /\ NotificationsInv'
        <3>1. /\ round = NoRound /\ round' = [step |-> "next", users |-> users]
              /\ UNCHANGED <<rows, changes, notes, mails, late, deaths>>
            BY <2>4 DEF BeginRound
        <3> QED BY <1>2, <3>1 DEF NotificationsTypes, NotificationsTypeOK, Rounds, NoRound, NotificationsInv,
                                  EverybodyTold, NotesKnown, MailKnown, MailsCounted, BeingMarked, TimesMailed
    <2>5. ASSUME NEW p \in Persons, Render(p) PROVE NotificationsTypes' /\ NotificationsInv'
        <3>0. /\ round.step = "next" /\ UNCHANGED <<rows, changes, notes, mails, late, deaths>>
              /\ \/ round' = [round EXCEPT !.users = @ \ {p}]
                 \/ round' = [step |-> "send", users |-> round.users \ {p}, user |-> p,
                              cached |-> {n.about : n \in Unmailed(p)}]
            BY <2>5 DEF Render
        <3>1. round \in [step: {"next"}, users: SUBSET Persons]
            BY <1>2, <3>0 DEF NotificationsTypes, Rounds, NoRound
        <3>2. \A n \in Unmailed(p) : /\ n.about \in 1..MaxNotices
                                     /\ n = [to |-> p, about |-> n.about, emailed |-> FALSE] /\ n \in notes
            BY <1>2 DEF Unmailed, NotificationsTypes, NotificationsTypeOK, Notes
        <3>3. round' \in Rounds /\ round'.step # "mark" /\ round' # NoRound
            BY <3>0, <3>1, <3>2 DEF Rounds, NoRound
        <3>4. NotificationsTypes'
            BY <1>2, <3>0, <3>3 DEF NotificationsTypes, NotificationsTypeOK, Rounds, NoRound
        <3>5. MailKnown'
            <4>1. CASE round' = [round EXCEPT !.users = @ \ {p}]
                <5>1. round'.step = "next"
                    BY <3>1, <4>1
                <5> QED BY <5>1 DEF MailKnown
            <4>2. CASE round' = [step |-> "send", users |-> round.users \ {p}, user |-> p,
                                 cached |-> {n.about : n \in Unmailed(p)}]
                <5>1. /\ round'.step = "send" /\ round'.user = p
                      /\ round'.cached = {n.about : n \in Unmailed(p)}
                    BY <4>2
                <5>2. \A a \in round'.cached : [to |-> p, about |-> a, emailed |-> FALSE] \in notes
                    BY <3>2, <5>1
                <5> QED BY <3>0, <5>1, <5>2 DEF MailKnown
            <4> QED BY <3>0, <4>1, <4>2
        <3>6. MailsCounted'
            BY <1>2, <3>0 DEF NotificationsInv, MailsCounted, BeingMarked, TimesMailed
        <3> QED BY <1>2, <3>0, <3>4, <3>5, <3>6 DEF NotificationsInv, EverybodyTold, NotesKnown
    <2>6. CASE SendFails \/ EndRound
        <3>1. round.step # "mark" /\ round' = NoRound /\ UNCHANGED <<rows, changes, notes, mails, late, deaths>>
            BY <2>6 DEF SendFails, EndRound
        <3> QED BY <1>2, <3>1 DEF NotificationsTypes, NotificationsTypeOK, Rounds, NoRound, NotificationsInv,
                                  EverybodyTold, NotesKnown, MailKnown, MailsCounted, BeingMarked, TimesMailed
    <2>7. CASE CronDies
        <3>1. /\ round' = NoRound /\ deaths < MaxDeaths /\ deaths' = deaths + 1
              /\ UNCHANGED <<rows, changes, notes, mails, late>>
            BY <2>7 DEF CronDies
        <3>2. NotificationsTypes'
            BY <1>2, <2>b, <3>1, NotificationsAssumption DEF NotificationsTypes, NotificationsTypeOK, Rounds
        <3>3. \A n \in notes : TimesMailed(n) \in Nat
            BY <1>2 DEF TimesMailed, NotificationsTypes, NotificationsTypeOK, Notes
        <3>4. MailsCounted'
            <4> SUFFICES ASSUME NEW n \in notes
                         PROVE  /\ TimesMailed(n) <= deaths + 1 + 1
                                /\ ~n.emailed => TimesMailed(n) <= deaths + 1
                                /\ n.emailed => TimesMailed(n) > 0 \/ <<n.to, n.about>> \in late
                BY <3>1 DEF MailsCounted, TimesMailed
            <4>1. TimesMailed(n) <= deaths + 1 /\ (n.emailed => TimesMailed(n) > 0 \/ <<n.to, n.about>> \in late)
                BY <1>2 DEF NotificationsInv, MailsCounted
            <4> QED BY <2>b, <3>3, <4>1
        <3> QED BY <1>2, <3>1, <3>2, <3>4 DEF NotificationsInv, EverybodyTold, NotesKnown, MailKnown, NoRound
    <2>8. CASE UNCHANGED notifVars
        BY <1>2, <2>8 DEF notifVars, NotificationsTypes, NotificationsTypeOK, NotificationsInv,
                          EverybodyTold, NotesKnown, MailKnown, MailsCounted, BeingMarked, TimesMailed
    <2> QED BY <1>2, <2>1, <2>2, <2>3, <2>4, <2>5, <2>6, <2>7, <2>8, SendMailKeeps, MarkEmailedKeeps
            DEF NotificationsNext
<1> QED BY <1>1, <1>2, PTL DEF NotificationsSpec

\* Nobody's note is missing, mailed more often than rounds died, or marked without
\* a mail unless it came late: the signals of notifs and the rounds of its cron job.
LEMMA NotesOfChanges == NotificationsSpec => []NothingUntold
<1>1. NotificationsTypes /\ NotificationsInv => NothingUntold
    <2> SUFFICES ASSUME NotificationsTypes, NotificationsInv PROVE NothingUntold
        OBVIOUS
    <2>1. deaths \in Nat /\ \A n \in notes : TimesMailed(n) \in Nat
        BY NotificationsAssumption DEF TimesMailed, NotificationsTypes, NotificationsTypeOK, Notes
    <2>2. ASSUME NEW n \in notes PROVE TimesMailed(n) <= 1 + deaths
        <3>1. TimesMailed(n) <= deaths + 1
            BY DEF NotificationsInv, MailsCounted
        <3> QED BY <2>1, <3>1
    <2> QED BY <2>2 DEF NothingUntold, NotificationsTypes, NotificationsInv, EverybodyTold, MailsCounted
<1> QED BY <1>1, NotificationsKept, PTL

-----------------------------------------------------------------------------
(* The rows of projects.                                                   *)

Patches ==
    {NoPatch}
    \cup [kind: {"patch"}, project: ProjectIds, row: ProjectRow, name: ProjectNames, owner: ProjectOwners]
    \cup [kind: {"upload"}, project: ProjectIds, row: ProjectRow, file: ProjectFiles]

\* Requests are records, and what is no project has neither files nor jobs.
ProjectsTypes ==
    /\ ProjectsTypeOK
    /\ patch \in [Patchers -> Patches]
    /\ \A p \in ProjectIds :
          ~Exists(p) => qgisFiles[p] = NoQgisFile /\ projectJobs[p].step = "none"

\* A request has looked at the row it has read.
PatchesKnown ==
    \A t \in Patchers :
        /\ patch[t].kind = "patch" => Renames(patch[t].row, patch[t].name)
        /\ patch[t].kind = "upload" => ~patch[t].row.shared

\* Names of an owner's projects differ.
NamesDiffer == \A p \in ProjectIds : Exists(p) => ~Taken(p, projects[p].owner, projects[p].name)

\* The type fits the name and the file, and the row the storage.
RowFits(p) ==
    /\ projects[p].shared <=> projects[p].name = SHARED_DATASETS
    /\ p \notin overtaken => (projects[p].file <=> qgisFiles[p] # NoQgisFile)
    /\ projects[p].shared /\ qgisFiles[p] # NoQgisFile => p \in overtaken \cup crossed \cup fromVariant

\* The details are of the file there is when no job is at work, and a job has
\* read the file there is, unless history says otherwise.
DetailsFit(p) ==
    p \notin overtaken \cup outrun =>
        /\ projectJobs[p].step = "none" /\ projects[p].file /\ projects[p].details # NoDetails =>
              projects[p].details = qgisFiles[p]
        /\ projectJobs[p].step = "started" /\ projects[p].file => projectJobs[p].read = qgisFiles[p]
        /\ projectJobs[p].step = "started" /\ ~projectJobs[p].had => projects[p].details = NoDetails

ProjectsInv ==
    /\ PatchesKnown /\ NamesDiffer
    /\ \A p \in ProjectIds : Exists(p) => RowFits(p) /\ DetailsFit(p)

\* No file is the absence of one, and no row that of a project.
LEMMA FilesAreFiles ==
    /\ Layers = {"file", "online", "shared", "absent", "foreign"}
    /\ NoQgisFile \notin ProjectFiles /\ NoDetails \notin ProjectFiles /\ NoDetails = NoQgisFile
    /\ \A row \in ProjectRow : row # NoProject
<1>1. Layers = {"file", "online", "shared", "absent", "foreign"}
    BY DEF Layers, LayerKinds
<1>2. "none" \in NoQgisFile /\ "none" \notin Layers
    BY <1>1 DEF NoQgisFile
<1> QED BY <1>1, <1>2, ProjectsAssumption DEF NoQgisFile, NoDetails, ProjectRow, NoProject, ProjectNames

LEMMA SavedRow ==
    ASSUME NEW row \in ProjectRow
    PROVE  /\ Saved(row) \in ProjectRow
           /\ Saved(row).shared <=> row.name = SHARED_DATASETS
           /\ Saved(row).name = row.name /\ Saved(row).owner = row.owner
           /\ Saved(row).file = row.file /\ Saved(row).details = row.details
    BY DEF Saved, ProjectRow

LEMMA NewRow ==
    ASSUME NEW name \in ProjectNames, NEW owner \in ProjectOwners
    PROVE  LET row == NewProject(name, owner) IN
           /\ row \in ProjectRow /\ (row.shared <=> name = SHARED_DATASETS)
           /\ row.name = name /\ row.owner = owner /\ row.file = FALSE /\ row.details = NoDetails
<1>1. [name |-> name, owner |-> owner, shared |-> FALSE, file |-> FALSE, details |-> NoDetails] \in ProjectRow
    BY DEF ProjectRow
<1> QED BY <1>1, SavedRow DEF NewProject

\* What is not about project p stays.
OnlyAbout(p) ==
    \A q \in ProjectIds \ {p} :
        /\ projects'[q] = projects[q] /\ qgisFiles'[q] = qgisFiles[q] /\ projectJobs'[q] = projectJobs[q]
        /\ (q \in overtaken' <=> q \in overtaken) /\ (q \in crossed' <=> q \in crossed)
        /\ (q \in outrun' <=> q \in outrun) /\ (q \in fromVariant' <=> q \in fromVariant)

\* A step that is about one project keeps the invariant when it does for that one.
LEMMA OneProjectKeeps ==
    ASSUME ProjectsInv, NEW p \in ProjectIds, OnlyAbout(p), PatchesKnown',
           Exists(p)' => RowFits(p)' /\ DetailsFit(p)',
           Exists(p)' => \/ ~Taken(p, projects'[p].owner, projects'[p].name)
                         \/ Exists(p) /\ projects'[p].owner = projects[p].owner
                                      /\ projects'[p].name = projects[p].name
    PROVE  ProjectsInv'
<1>1. \A q \in ProjectIds \ {p} : (Exists(q)' <=> Exists(q)) /\ projects'[q] = projects[q]
    BY DEF OnlyAbout, Exists
<1>2. Exists(p)' => ~Taken(p, projects'[p].owner, projects'[p].name)
    BY DEF ProjectsInv, NamesDiffer
<1>3. NamesDiffer'
    <2> SUFFICES ASSUME NEW q \in ProjectIds, NEW r \in ProjectIds \ {q}, Exists(q)', Exists(r)',
                        projects'[r].owner = projects'[q].owner, projects'[r].name = projects'[q].name
                 PROVE  FALSE
        BY DEF NamesDiffer, Taken
    <2>1. CASE q = p
        BY <1>1, <1>2, <2>1 DEF Taken
    <2>2. CASE r = p
        BY <1>1, <1>2, <2>2 DEF Taken
    <2>3. CASE q # p /\ r # p
        BY <1>1, <2>3 DEF ProjectsInv, NamesDiffer, Taken
    <2> QED BY <2>1, <2>2, <2>3
<1>4. ASSUME NEW q \in ProjectIds \ {p}, Exists(q)' PROVE RowFits(q)' /\ DetailsFit(q)'
    <2>1. RowFits(q) /\ DetailsFit(q)
        BY <1>1, <1>4 DEF ProjectsInv
    <2> QED BY <2>1 DEF OnlyAbout, RowFits, DetailsFit
<1> QED BY <1>3, <1>4 DEF ProjectsInv

\* A step that ends a request, or none, keeps what is known of the others.
LEMMA PatchesStay ==
    ASSUME PatchesKnown, ProjectsTypes, patch' = patch \/ \E t \in Patchers : EndPatch(t)
    PROVE  PatchesKnown' /\ patch' \in [Patchers -> Patches]
<1>1. NoPatch \in Patches /\ NoPatch.kind = "none"
    BY DEF Patches, NoPatch
<1> QED BY <1>1 DEF PatchesKnown, EndPatch, ProjectsTypes, Renames

\* An upload of the QGIS file of a project, by a container or by a request.
LEMMA StoreKeeps ==
    ASSUME ProjectsTypes, ProjectsInv, NEW p \in ProjectIds, NEW file \in ProjectFiles, NEW read,
           StoreQgisFile(p, file, read), ~read.shared, read.shared \in BOOLEAN,
           patch' = patch \/ \E t \in Patchers : EndPatch(t),
           creating' \subseteq creating, projectChanges' = projectChanges
    PROVE  ProjectsTypes' /\ ProjectsInv'
<1>1. /\ Exists(p) /\ qgisFiles' = [qgisFiles EXCEPT ![p] = file]
      /\ projects' = [projects EXCEPT ![p].file = TRUE]
      /\ projectJobs' = IF projectJobs[p].step = "none"
                        THEN [projectJobs EXCEPT ![p] = PendingJob] ELSE projectJobs
      /\ overtaken' = overtaken \ {p}
      /\ crossed' = IF read.shared # projects[p].shared THEN crossed \cup {p} ELSE crossed
      /\ outrun' = IF projectJobs[p].step = "started" THEN outrun \cup {p} ELSE outrun
      /\ UNCHANGED <<datasets, fromVariant>>
    BY DEF StoreQgisFile, Processes
<1>2. projects[p] \in ProjectRow
    BY <1>1 DEF Exists, ProjectsTypes, ProjectsTypeOK
<1>3. /\ projects'[p] \in ProjectRow /\ projects'[p].file = TRUE
      /\ projects'[p].name = projects[p].name /\ projects'[p].owner = projects[p].owner
      /\ projects'[p].shared = projects[p].shared
      /\ \A q \in ProjectIds \ {p} : projects'[q] = projects[q]
    BY <1>1, <1>2 DEF ProjectsTypes, ProjectsTypeOK, ProjectRow
<1>4. projects' \in [ProjectIds -> ProjectRow \cup {NoProject}]
    BY <1>1, <1>3 DEF ProjectsTypes, ProjectsTypeOK
<1>5. /\ projectJobs'[p].step # "none"
      /\ projectJobs'[p].step = "started" => projectJobs[p].step = "started"
      /\ \A q \in ProjectIds \ {p} : projectJobs'[q] = projectJobs[q]
      /\ projectJobs' \in [ProjectIds -> [step: {"none", "pending", "started"},
                                          read: ProjectFiles \cup {NoQgisFile}, had: BOOLEAN]]
    BY <1>1 DEF ProjectsTypes, ProjectsTypeOK, PendingJob
<1>6. /\ qgisFiles'[p] = file /\ file # NoQgisFile
      /\ \A q \in ProjectIds \ {p} : qgisFiles'[q] = qgisFiles[q]
      /\ qgisFiles' \in [ProjectIds -> ProjectFiles \cup {NoQgisFile}]
    BY <1>1, FilesAreFiles DEF ProjectsTypes, ProjectsTypeOK
<1>7. PatchesKnown' /\ patch' \in [Patchers -> Patches] /\ DOMAIN patch' = Patchers
    BY PatchesStay DEF ProjectsInv
<1>8. ProjectsTypes'
    <2>1. UNION {datasets, creating, overtaken, crossed, outrun, fromVariant}' \subseteq ProjectIds
        BY <1>1 DEF ProjectsTypes, ProjectsTypeOK
    <2>2. \A q \in ProjectIds :
             ~Exists(q)' => qgisFiles'[q] = NoQgisFile /\ projectJobs'[q].step = "none"
        BY <1>3, <1>5, <1>6, FilesAreFiles DEF ProjectsTypes, Exists
    <2>3. projectChanges' \in 0..MaxProjectChanges
        BY DEF ProjectsTypes, ProjectsTypeOK
    <2> QED BY <1>4, <1>5, <1>6, <1>7, <2>1, <2>2, <2>3 DEF ProjectsTypes, ProjectsTypeOK
<1>9. OnlyAbout(p)
    BY <1>1, <1>3, <1>5, <1>6 DEF OnlyAbout
<1>10. RowFits(p)'
    BY <1>1, <1>2, <1>3, <1>6 DEF RowFits, ProjectsInv, ProjectRow
<1>11. DetailsFit(p)'
    BY <1>1, <1>5 DEF DetailsFit
<1> QED BY <1>1, <1>3, <1>7, <1>8, <1>9, <1>10, <1>11, OneProjectKeeps

LEMMA SavePatchKeeps ==
    ASSUME ProjectsTypes, ProjectsInv, NEW t \in Patchers, SavePatch(t)
    PROVE  ProjectsTypes' /\ ProjectsInv'
<1>1. PICK p : p = patch[t].project
    OBVIOUS
<1>2. PICK read : read = patch[t].row
    OBVIOUS
<1>3. PICK row : row = [read EXCEPT !.name = patch[t].name, !.owner = patch[t].owner]
    OBVIOUS
<1>4. /\ patch[t].kind = "patch" /\ ~Taken(p, row.owner, row.name)
      /\ projects' = [projects EXCEPT ![p] = Saved(row)]
      /\ overtaken' = IF projects[p] # read THEN overtaken \cup {p} ELSE overtaken
      /\ fromVariant' = IF row.file /\ read.name = "Shared_Datasets"
                        THEN fromVariant \cup {p} ELSE fromVariant
      /\ EndPatch(t)
      /\ UNCHANGED <<qgisFiles, datasets, creating, projectJobs, projectChanges, crossed, outrun>>
    BY <1>1, <1>2, <1>3 DEF SavePatch
<1>5. /\ p \in ProjectIds /\ read \in ProjectRow
      /\ patch[t].name \in ProjectNames /\ patch[t].owner \in ProjectOwners
      /\ Renames(read, patch[t].name)
    BY <1>1, <1>2, <1>4 DEF ProjectsTypes, Patches, NoPatch, ProjectsInv, PatchesKnown
<1>6. /\ row \in ProjectRow /\ row.name = patch[t].name /\ row.owner = patch[t].owner
      /\ row.file = read.file /\ row.details = read.details
    BY <1>3, <1>5 DEF ProjectRow
<1>7. /\ projects'[p] = Saved(row) /\ \A q \in ProjectIds \ {p} : projects'[q] = projects[q]
      /\ projects' \in [ProjectIds -> ProjectRow \cup {NoProject}]
    BY <1>4, <1>5, <1>6, SavedRow DEF ProjectsTypes, ProjectsTypeOK
<1>8. /\ projects'[p] \in ProjectRow /\ (projects'[p].shared <=> row.name = SHARED_DATASETS)
      /\ projects'[p].name = row.name /\ projects'[p].owner = row.owner
      /\ projects'[p].file = row.file /\ projects'[p].details = row.details
    BY <1>6, <1>7, SavedRow
<1>9. PatchesKnown' /\ patch' \in [Patchers -> Patches] /\ DOMAIN patch' = Patchers
    BY <1>4, PatchesStay DEF ProjectsInv
<1>10. ProjectsTypes'
    <2>1. UNION {datasets, creating, overtaken, crossed, outrun, fromVariant}' \subseteq ProjectIds
        BY <1>4, <1>5 DEF ProjectsTypes, ProjectsTypeOK
    <2>2. \A q \in ProjectIds :
             ~Exists(q)' => qgisFiles'[q] = NoQgisFile /\ projectJobs'[q].step = "none"
        BY <1>4, <1>7, <1>8, FilesAreFiles DEF ProjectsTypes, Exists
    <2> QED BY <1>4, <1>7, <1>9, <2>1, <2>2 DEF ProjectsTypes, ProjectsTypeOK
<1>11. OnlyAbout(p)
    BY <1>4, <1>7 DEF OnlyAbout
\* The row has changed meanwhile, or only its name, owner and type do.
<1>12. p \in overtaken' \/ (p \notin overtaken /\ projects[p] = read /\ Exists(p))
    BY <1>4, <1>5, FilesAreFiles DEF Exists
<1>13. RowFits(p)' /\ DetailsFit(p)'
    <2>1. CASE p \in overtaken'
        BY <1>8, <2>1 DEF RowFits, DetailsFit
    <2>2. CASE p \notin overtaken /\ projects[p] = read /\ Exists(p)
        <3>1. RowFits(p) /\ DetailsFit(p)
            BY <1>5, <2>2 DEF ProjectsInv
        <3>2. overtaken' = overtaken
            BY <1>4, <2>2
        <3>3. DetailsFit(p)'
            BY <1>4, <1>6, <1>8, <2>2, <3>1, <3>2 DEF DetailsFit
        <3>4. /\ row.name = SHARED_DATASETS =>
                     read.name \in {SHARED_DATASETS, "Shared_Datasets"} \/ ~read.file
            BY <1>5, <1>6 DEF Renames, Lower, ProjectRow, ProjectNames
        <3>5. row.name = SHARED_DATASETS /\ qgisFiles[p] # NoQgisFile => p \in crossed' \cup fromVariant'
            <4> SUFFICES ASSUME row.name = SHARED_DATASETS, qgisFiles[p] # NoQgisFile
                         PROVE  p \in crossed' \cup fromVariant'
                OBVIOUS
            <4>1. read.file
                BY <2>2, <3>1 DEF RowFits
            <4>2. CASE read.name = SHARED_DATASETS
                BY <1>4, <2>2, <3>1, <4>2 DEF RowFits
            <4>3. CASE read.name = "Shared_Datasets"
                BY <1>4, <1>6, <4>1, <4>3
            <4> QED BY <3>4, <4>1, <4>2, <4>3
        <3> QED BY <1>4, <1>6, <1>8, <2>2, <3>1, <3>2, <3>3, <3>5 DEF RowFits
    <2> QED BY <1>12, <2>1, <2>2
<1> QED BY <1>4, <1>5, <1>8, <1>9, <1>10, <1>11, <1>13, OneProjectKeeps

\* A step that leaves the rows alone, or some columns only of one that no request
\* or job is about any more.
LEMMA RestKeeps ==
    ASSUME ProjectsTypes, ProjectsInv,
           UNCHANGED <<projects, qgisFiles, projectJobs, overtaken, crossed, outrun, fromVariant>>,
           PatchesKnown', patch' \in [Patchers -> Patches],
           datasets' \cup creating' \subseteq ProjectIds,
           projectChanges' \in 0..MaxProjectChanges
    PROVE  ProjectsTypes' /\ ProjectsInv'
<1>1. ProjectsTypes'
    BY DEF ProjectsTypes, ProjectsTypeOK, Exists
<1>2. NamesDiffer' /\ \A p \in ProjectIds : Exists(p)' => RowFits(p)' /\ DetailsFit(p)'
    BY DEF ProjectsInv, NamesDiffer, Taken, Exists, RowFits, DetailsFit
<1> QED BY <1>1, <1>2 DEF ProjectsInv

\* A request that begins.
LEMMA BeginKeeps ==
    ASSUME ProjectsTypes, ProjectsInv, NEW t \in Patchers, NEW entry \in Patches,
           patch' = [patch EXCEPT ![t] = entry], CountProjectChange,
           entry.kind = "patch" => Renames(entry.row, entry.name),
           entry.kind = "upload" => ~entry.row.shared,
           UNCHANGED <<projects, qgisFiles, datasets, creating, projectJobs>>, historyUnchanged
    PROVE  ProjectsTypes' /\ ProjectsInv'
<1>1. patch' \in [Patchers -> Patches] /\ PatchesKnown'
    BY DEF ProjectsTypes, ProjectsInv, PatchesKnown, Renames
<1>2. projectChanges' \in 0..MaxProjectChanges
    BY ProjectsAssumption DEF CountProjectChange, ProjectsTypes, ProjectsTypeOK
<1>3. datasets' \cup creating' \subseteq ProjectIds
    BY DEF ProjectsTypes, ProjectsTypeOK
<1> QED BY <1>1, <1>2, <1>3, RestKeeps DEF historyUnchanged

LEMMA CreateProjectKeeps ==
    ASSUME ProjectsTypes, ProjectsInv, NEW p \in ProjectIds, NEW name \in ProjectNames,
           NEW owner \in ProjectOwners, NEW seeded \in BOOLEAN, CreateProject(p, name, owner, seeded)
    PROVE  ProjectsTypes' /\ ProjectsInv'
<1>1. /\ ~Exists(p) /\ CountProjectChange /\ ~Taken(p, owner, name)
      /\ projects' = [projects EXCEPT ![p] = NewProject(name, owner)]
      /\ creating' \subseteq creating \cup {p}
      /\ UNCHANGED <<qgisFiles, datasets, projectJobs, patch>>
      /\ overtaken' = overtaken \ {p} /\ crossed' = crossed \ {p}
      /\ outrun' = outrun \ {p} /\ fromVariant' = fromVariant \ {p}
    BY DEF CreateProject
<1>2. PICK row : row = NewProject(name, owner)
    OBVIOUS
<1>3. /\ row \in ProjectRow /\ (row.shared <=> name = SHARED_DATASETS)
      /\ row.name = name /\ row.owner = owner /\ row.file = FALSE /\ row.details = NoDetails
    BY <1>2, NewRow, ZenonT(60)
<1>4. /\ projects'[p] = row /\ \A q \in ProjectIds \ {p} : projects'[q] = projects[q]
      /\ projects' \in [ProjectIds -> ProjectRow \cup {NoProject}]
    BY <1>1, <1>2, <1>3 DEF ProjectsTypes, ProjectsTypeOK
<1>5. qgisFiles[p] = NoQgisFile /\ projectJobs[p].step = "none"
    BY <1>1 DEF ProjectsTypes
<1>6. projectChanges' \in 0..MaxProjectChanges
    BY <1>1, ProjectsAssumption DEF CountProjectChange, ProjectsTypes, ProjectsTypeOK
<1>7. PatchesKnown' /\ OnlyAbout(p)
    BY <1>1, <1>4 DEF ProjectsInv, PatchesKnown, Renames, OnlyAbout
<1>8. ProjectsTypes'
    <2>1. UNION {datasets, creating, overtaken, crossed, outrun, fromVariant}' \subseteq ProjectIds
        BY <1>1 DEF ProjectsTypes, ProjectsTypeOK
    <2>2. \A q \in ProjectIds :
             ~Exists(q)' => qgisFiles'[q] = NoQgisFile /\ projectJobs'[q].step = "none"
        BY <1>1, <1>4, <1>5 DEF ProjectsTypes, Exists
    <2> QED BY <1>1, <1>4, <1>6, <2>1, <2>2 DEF ProjectsTypes, ProjectsTypeOK
<1>9. RowFits(p)' /\ DetailsFit(p)'
    BY <1>1, <1>3, <1>4, <1>5 DEF RowFits, DetailsFit
<1> QED BY <1>1, <1>3, <1>4, <1>7, <1>8, <1>9, OneProjectKeeps

LEMMA DeleteProjectKeeps ==
    ASSUME ProjectsTypes, ProjectsInv, NEW p \in ProjectIds, DeleteProject(p)
    PROVE  ProjectsTypes' /\ ProjectsInv'
<1>1. /\ CountProjectChange
      /\ projects' = [projects EXCEPT ![p] = NoProject]
      /\ qgisFiles' = [qgisFiles EXCEPT ![p] = NoQgisFile]
      /\ datasets' = datasets \ {p} /\ creating' = creating \ {p}
      /\ projectJobs' = [projectJobs EXCEPT ![p] = NoProjectJob]
      /\ UNCHANGED <<patch, overtaken, crossed, outrun, fromVariant>>
    BY DEF DeleteProject, historyUnchanged
<1>2. projectChanges' \in 0..MaxProjectChanges
    BY <1>1, ProjectsAssumption DEF CountProjectChange, ProjectsTypes, ProjectsTypeOK
<1>3. /\ projects'[p] = NoProject /\ qgisFiles'[p] = NoQgisFile /\ projectJobs'[p].step = "none"
      /\ projectJobs' \in [ProjectIds -> [step: {"none", "pending", "started"},
                                          read: ProjectFiles \cup {NoQgisFile}, had: BOOLEAN]]
    BY <1>1 DEF ProjectsTypes, ProjectsTypeOK, NoProjectJob
<1>4. OnlyAbout(p) /\ PatchesKnown'
    BY <1>1 DEF ProjectsTypes, ProjectsTypeOK, OnlyAbout, ProjectsInv, PatchesKnown, Renames
<1>5. ProjectsTypes'
    BY <1>1, <1>2, <1>3 DEF ProjectsTypes, ProjectsTypeOK, Exists
<1> QED BY <1>3, <1>4, <1>5, OneProjectKeeps DEF Exists

\* Deletions of files and the steps of a process job, which change the row of a
\* project at most in its file and details.
LEMMA ColumnsKeep ==
    ASSUME ProjectsTypes, ProjectsInv, NEW p \in ProjectIds, Exists(p), NEW row \in ProjectRow,
           projects' = [projects EXCEPT ![p] = row],
           row.name = projects[p].name, row.owner = projects[p].owner, row.shared = projects[p].shared,
           NEW file \in ProjectFiles \cup {NoQgisFile},
           qgisFiles' = [qgisFiles EXCEPT ![p] = file],
           NEW job1 \in [step: {"none", "pending", "started"}, read: ProjectFiles \cup {NoQgisFile},
                         had: BOOLEAN],
           projectJobs' = [projectJobs EXCEPT ![p] = job1],
           outrun' \in {outrun, outrun \cup {p}, outrun \ {p}},
           UNCHANGED <<patch, overtaken, crossed, fromVariant>>,
           datasets' \cup creating' \subseteq ProjectIds,
           projectChanges' \in 0..MaxProjectChanges,
           RowFits(p)', DetailsFit(p)'
    PROVE  ProjectsTypes' /\ ProjectsInv'
<1>1. /\ projects'[p] = row /\ qgisFiles'[p] = file /\ projectJobs'[p] = job1
      /\ \A q \in ProjectIds \ {p} : /\ projects'[q] = projects[q] /\ qgisFiles'[q] = qgisFiles[q]
                                     /\ projectJobs'[q] = projectJobs[q]
      /\ projects' \in [ProjectIds -> ProjectRow \cup {NoProject}]
      /\ qgisFiles' \in [ProjectIds -> ProjectFiles \cup {NoQgisFile}]
      /\ projectJobs' \in [ProjectIds -> [step: {"none", "pending", "started"},
                                          read: ProjectFiles \cup {NoQgisFile}, had: BOOLEAN]]
    BY DEF ProjectsTypes, ProjectsTypeOK
<1>2. OnlyAbout(p) /\ PatchesKnown'
    BY <1>1 DEF OnlyAbout, ProjectsInv, PatchesKnown, Renames
<1>3. ProjectsTypes'
    <2>1. UNION {datasets, creating, overtaken, crossed, outrun, fromVariant}' \subseteq ProjectIds
        BY DEF ProjectsTypes, ProjectsTypeOK
    <2>2. \A q \in ProjectIds :
             ~Exists(q)' => qgisFiles'[q] = NoQgisFile /\ projectJobs'[q].step = "none"
        BY <1>1, FilesAreFiles DEF ProjectsTypes, Exists
    <2> QED BY <1>1, <2>1, <2>2 DEF ProjectsTypes, ProjectsTypeOK
<1> QED BY <1>1, <1>2, <1>3, OneProjectKeeps

LEMMA RowIsThere ==
    ASSUME ProjectsTypes, ProjectsInv, NEW p \in ProjectIds,
           Exists(p) \/ projectJobs[p].step # "none"
    PROVE  /\ Exists(p) /\ projects[p] \in ProjectRow /\ RowFits(p) /\ DetailsFit(p)
           /\ projects = [projects EXCEPT ![p] = projects[p]]
           /\ qgisFiles = [qgisFiles EXCEPT ![p] = qgisFiles[p]]
           /\ qgisFiles[p] \in ProjectFiles \cup {NoQgisFile}
           /\ projectJobs = [projectJobs EXCEPT ![p] = projectJobs[p]]
           /\ projectJobs[p] \in [step: {"none", "pending", "started"},
                                  read: ProjectFiles \cup {NoQgisFile}, had: BOOLEAN]
           /\ datasets \cup creating \subseteq ProjectIds /\ projectChanges \in 0..MaxProjectChanges
    BY DEF ProjectsTypes, ProjectsTypeOK, ProjectsInv, Exists

LEMMA DeleteQgisFileKeeps ==
    ASSUME ProjectsTypes, ProjectsInv, NEW p \in ProjectIds, DeleteQgisFile(p)
    PROVE  ProjectsTypes' /\ ProjectsInv'
<1>1. /\ Exists(p) /\ CountProjectChange
      /\ qgisFiles' = [qgisFiles EXCEPT ![p] = NoQgisFile]
      /\ projects' = [projects EXCEPT ![p].file = FALSE]
      /\ UNCHANGED <<datasets, creating, projectJobs, patch, overtaken, crossed, outrun, fromVariant>>
    BY DEF DeleteQgisFile, historyUnchanged
<1>2. projectChanges' \in 0..MaxProjectChanges
    BY <1>1, ProjectsAssumption DEF CountProjectChange, ProjectsTypes, ProjectsTypeOK
<1>3. PICK row : row = [projects[p] EXCEPT !.file = FALSE]
    OBVIOUS
<1>4. /\ row \in ProjectRow /\ row.name = projects[p].name /\ row.owner = projects[p].owner
      /\ row.shared = projects[p].shared /\ row.file = FALSE /\ row.details = projects[p].details
    BY <1>1, <1>3, RowIsThere DEF ProjectRow
<1>5. projects' = [projects EXCEPT ![p] = row] /\ projects'[p] = row /\ qgisFiles'[p] = NoQgisFile
    BY <1>1, <1>3 DEF ProjectsTypes, ProjectsTypeOK
<1>6. RowFits(p)' /\ DetailsFit(p)'
    BY <1>1, <1>4, <1>5, RowIsThere DEF RowFits, DetailsFit
<1> QED BY <1>1, <1>2, <1>4, <1>5, <1>6, RowIsThere, ColumnsKeep

LEMMA UploadDatasetKeeps ==
    ASSUME ProjectsTypes, ProjectsInv, NEW p \in ProjectIds, UploadDataset(p)
    PROVE  ProjectsTypes' /\ ProjectsInv'
<1>1. /\ Exists(p) /\ CountProjectChange /\ datasets' = datasets \cup {p}
      /\ \/ projectJobs[p].step = "none" /\ projectJobs' = [projectJobs EXCEPT ![p] = PendingJob]
         \/ projectJobs' = projectJobs
      /\ UNCHANGED <<projects, qgisFiles, creating, patch, overtaken, crossed, outrun, fromVariant>>
    BY DEF UploadDataset, Processes, historyUnchanged
<1>2. projectChanges' \in 0..MaxProjectChanges
    BY <1>1, ProjectsAssumption DEF CountProjectChange, ProjectsTypes, ProjectsTypeOK
<1>3. PICK job1 \in {PendingJob, projectJobs[p]} : projectJobs' = [projectJobs EXCEPT ![p] = job1]
    BY <1>1, RowIsThere
<1>4. /\ job1 \in [step: {"none", "pending", "started"}, read: ProjectFiles \cup {NoQgisFile}, had: BOOLEAN]
      /\ projectJobs'[p] = job1
    <2>1. PendingJob \in [step: {"none", "pending", "started"}, read: ProjectFiles \cup {NoQgisFile}, had: BOOLEAN]
        BY DEF PendingJob
    <2>2. projectJobs[p] \in [step: {"none", "pending", "started"}, read: ProjectFiles \cup {NoQgisFile}, had: BOOLEAN]
        BY <1>1, RowIsThere
    <2>3. projectJobs'[p] = job1
        BY <1>3 DEF ProjectsTypes, ProjectsTypeOK
    <2> QED BY <1>3, <2>1, <2>2, <2>3
<1>5. RowFits(p)' /\ DetailsFit(p)'
    BY <1>1, <1>3, <1>4, RowIsThere DEF RowFits, DetailsFit, PendingJob
<1>6. datasets' \cup creating' \subseteq ProjectIds
    BY <1>1, RowIsThere
<1> QED BY <1>1, <1>2, <1>3, <1>4, <1>5, <1>6, RowIsThere, ColumnsKeep

LEMMA StartProcessKeeps ==
    ASSUME ProjectsTypes, ProjectsInv, NEW p \in ProjectIds, StartProcess(p)
    PROVE  ProjectsTypes' /\ ProjectsInv'
<1> DEFINE started == [step |-> "started", had |-> projects[p].details # NoDetails,
                       read |-> IF projects[p].file THEN qgisFiles[p] ELSE NoQgisFile]
<1>1. /\ projectJobs[p].step = "pending" /\ projectJobs' = [projectJobs EXCEPT ![p] = started]
      /\ outrun' = outrun \ {p}
      /\ UNCHANGED <<projects, qgisFiles, creating, overtaken, crossed, fromVariant, datasets, patch,
                     projectChanges>>
    BY DEF StartProcess, jobsUnchanged
<1>2. /\ started \in [step: {"none", "pending", "started"}, read: ProjectFiles \cup {NoQgisFile}, had: BOOLEAN]
      /\ started.step = "started" /\ (started.had <=> projects[p].details # NoDetails)
      /\ projects[p].file => started.read = qgisFiles[p]
    BY <1>1, RowIsThere
<1> HIDE DEF started
<1>3. projectJobs'[p] = started
    BY <1>1 DEF ProjectsTypes, ProjectsTypeOK
<1>4. RowFits(p)' /\ DetailsFit(p)'
    BY <1>1, <1>2, <1>3, RowIsThere DEF RowFits, DetailsFit
<1> QED BY <1>1, <1>2, <1>4, RowIsThere, ColumnsKeep

\* The job ends, with the details that it has read, without any, or as they were
\* when there were none or when it died.
LEMMA JobEndKeeps ==
    ASSUME ProjectsTypes, ProjectsInv, NEW p \in ProjectIds,
           FinishProcess(p) \/ FailProcess(p) \/ ProcessDies(p)
    PROVE  ProjectsTypes' /\ ProjectsInv'
<1>1. /\ projectJobs[p].step = "started" /\ projectJobs' = [projectJobs EXCEPT ![p] = NoProjectJob]
      /\ UNCHANGED <<qgisFiles, creating, overtaken, crossed, fromVariant, datasets, patch, projectChanges>>
      /\ \/ /\ projectJobs[p].read # NoQgisFile /\ outrun' = outrun
            /\ projects' = [projects EXCEPT ![p].details = projectJobs[p].read]
         \/ /\ projects' = [projects EXCEPT ![p].details = NoDetails] /\ outrun' = outrun
         \/ /\ ~projectJobs[p].had /\ projects' = projects /\ outrun' = outrun
         \/ /\ projects' = projects /\ outrun' = outrun \cup {p}
    BY DEF FinishProcess, FailProcess, ProcessDies, EndsJob, jobsUnchanged, historyUnchanged
<1>2. Exists(p) /\ projects[p] \in ProjectRow /\ RowFits(p) /\ DetailsFit(p)
    BY <1>1, RowIsThere
<1>3. PICK details \in {projectJobs[p].read, NoDetails, projects[p].details} :
         /\ projects' = [projects EXCEPT ![p].details = details]
         /\ details \in ProjectFiles \cup {NoDetails}
         /\ \/ details = projectJobs[p].read
            \/ details = NoDetails
            \/ details = projects[p].details /\ (~projectJobs[p].had \/ p \in outrun')
    <2>1. projects = [projects EXCEPT ![p].details = projects[p].details]
        BY <1>2 DEF ProjectsTypes, ProjectsTypeOK, ProjectRow
    <2>2. /\ projects[p].details \in ProjectFiles \cup {NoDetails}
          /\ projectJobs[p].read \in ProjectFiles \cup {NoDetails}
        BY <1>1, <1>2, RowIsThere, FilesAreFiles DEF ProjectRow
    <2> QED BY <1>1, <2>1, <2>2
<1>4. PICK row : row = [projects[p] EXCEPT !.details = details]
    OBVIOUS
<1>5. /\ row \in ProjectRow /\ row.name = projects[p].name /\ row.owner = projects[p].owner
      /\ row.shared = projects[p].shared /\ row.file = projects[p].file /\ row.details = details
    BY <1>2, <1>3, <1>4 DEF ProjectRow
<1>6. projects' = [projects EXCEPT ![p] = row] /\ projects'[p] = row
    BY <1>3, <1>4 DEF ProjectsTypes, ProjectsTypeOK
<1>7. /\ projectJobs'[p].step = "none"
      /\ NoProjectJob \in [step: {"none", "pending", "started"}, read: ProjectFiles \cup {NoQgisFile}, had: BOOLEAN]
    BY <1>1 DEF ProjectsTypes, ProjectsTypeOK, NoProjectJob
<1>8. outrun \subseteq outrun'
    BY <1>1
<1>9. RowFits(p)'
    BY <1>1, <1>2, <1>5, <1>6 DEF RowFits
<1>10. DetailsFit(p)'
    BY <1>1, <1>2, <1>3, <1>5, <1>6, <1>7, <1>8 DEF DetailsFit
<1> QED BY <1>1, <1>2, <1>5, <1>6, <1>7, <1>9, <1>10, RowIsThere, ColumnsKeep

LEMMA ProjectsKept == ProjectsInit /\ [][ProjectsNext]_projectRowVars => [](ProjectsTypes /\ ProjectsInv)
<1>1. ProjectsInit => ProjectsTypes /\ ProjectsInv
    <2> SUFFICES ASSUME ProjectsInit PROVE ProjectsTypes /\ ProjectsInv
        OBVIOUS
    <2>1. \A p \in ProjectIds : Exists(p) =>
             /\ projects[p] \in ProjectRow /\ projects[p].name = "survey" /\ ~projects[p].shared
             /\ projects[p].file = FALSE /\ projects[p].details = NoDetails
        <3>1. "survey" \in ProjectNames
            BY DEF ProjectNames
        <3> SUFFICES ASSUME NEW p \in ProjectIds, Exists(p)
                     PROVE  /\ projects[p] \in ProjectRow /\ projects[p].name = "survey"
                            /\ ~projects[p].shared
                            /\ projects[p].file = FALSE /\ projects[p].details = NoDetails
            OBVIOUS
        <3>2. PICK owner \in ProjectOwners : projects[p] = NewProject("survey", owner)
            BY DEF ProjectsInit, Exists
        <3>3. LET row == NewProject("survey", owner) IN
              /\ row \in ProjectRow /\ (row.shared <=> "survey" = SHARED_DATASETS)
              /\ row.name = "survey" /\ row.owner = owner /\ row.file = FALSE /\ row.details = NoDetails
            BY <3>1, NewRow, ZenonT(60)
        <3> QED BY <3>2, <3>3 DEF SHARED_DATASETS
    <2>2. projects \in [ProjectIds -> ProjectRow \cup {NoProject}]
        BY <2>1 DEF ProjectsInit, Exists
    <2>3. NoProjectJob \in [step: {"none", "pending", "started"}, read: ProjectFiles \cup {NoQgisFile}, had: BOOLEAN]
          /\ NoProjectJob.step = "none"
        BY DEF NoProjectJob
    <2>4. patch \in [Patchers -> Patches] /\ PatchesKnown
        BY DEF ProjectsInit, Patches, PatchesKnown, NoPatch
    <2>5. ProjectsTypes
        BY <2>2, <2>3, <2>4, ProjectsAssumption DEF ProjectsInit, ProjectsTypes, ProjectsTypeOK
    <2>6. NamesDiffer
        BY DEF ProjectsInit, NamesDiffer, Taken
    <2>7. ASSUME NEW p \in ProjectIds, Exists(p) PROVE RowFits(p) /\ DetailsFit(p)
        BY <2>1, <2>3, <2>7 DEF ProjectsInit, RowFits, DetailsFit, SHARED_DATASETS
    <2> QED BY <2>4, <2>5, <2>6, <2>7 DEF ProjectsInv
<1>2. ASSUME ProjectsTypes, ProjectsInv, [ProjectsNext]_projectRowVars
      PROVE  ProjectsTypes' /\ ProjectsInv'
    <2>a. datasets \cup creating \subseteq ProjectIds /\ projectChanges \in 0..MaxProjectChanges
        BY <1>2 DEF ProjectsTypes, ProjectsTypeOK
    <2>1. ASSUME NEW t \in Patchers, NEW p \in ProjectIds, NEW name \in ProjectNames,
                 NEW owner \in ProjectOwners, BeginPatch(t, p, name, owner)
          PROVE  ProjectsTypes' /\ ProjectsInv'
        <3> DEFINE entry == [kind |-> "patch", project |-> p, row |-> projects[p], name |-> name, owner |-> owner]
        <3>1. Exists(p) /\ projects[p] \in ProjectRow
            BY <1>2, <2>1, RowIsThere DEF BeginPatch
        <3>2. entry \in Patches
            BY <3>1 DEF Patches
        <3>3. Renames(entry.row, entry.name) /\ entry.kind = "patch"
            BY <2>1 DEF BeginPatch, Validates
        <3>4. /\ patch' = [patch EXCEPT ![t] = entry] /\ CountProjectChange
              /\ UNCHANGED <<projects, qgisFiles, datasets, creating, projectJobs>> /\ historyUnchanged
            BY <2>1 DEF BeginPatch
        <3> HIDE DEF entry
        <3> QED BY <1>2, <3>2, <3>3, <3>4, BeginKeeps
    <2>2. ASSUME NEW t \in Patchers, NEW p \in ProjectIds, NEW file \in ProjectFiles, BeginUpload(t, p, file)
          PROVE  ProjectsTypes' /\ ProjectsInv'
        <3> DEFINE entry == [kind |-> "upload", project |-> p, row |-> projects[p], file |-> file]
        <3>1. Exists(p) /\ projects[p] \in ProjectRow
            BY <1>2, <2>2, RowIsThere DEF BeginUpload
        <3>2. entry \in Patches
            BY <3>1 DEF Patches
        <3>3. ~entry.row.shared /\ entry.kind = "upload"
            BY <2>2 DEF BeginUpload
        <3>4. /\ patch' = [patch EXCEPT ![t] = entry] /\ CountProjectChange
              /\ UNCHANGED <<projects, qgisFiles, datasets, creating, projectJobs>> /\ historyUnchanged
            BY <2>2 DEF BeginUpload
        <3> HIDE DEF entry
        <3> QED BY <1>2, <3>2, <3>3, <3>4, BeginKeeps
    <2>3. ASSUME NEW t \in Patchers, PatchFails(t) PROVE ProjectsTypes' /\ ProjectsInv'
        <3>1. PatchesKnown' /\ patch' \in [Patchers -> Patches]
            BY <1>2, <2>3, PatchesStay DEF PatchFails, ProjectsInv
        <3> QED BY <1>2, <2>a, <2>3, <3>1, RestKeeps DEF PatchFails, historyUnchanged
    <2>4. ASSUME NEW t \in Patchers, CommitUpload(t) PROVE ProjectsTypes' /\ ProjectsInv'
        <3>1. /\ patch[t].kind = "upload" /\ StoreQgisFile(patch[t].project, patch[t].file, patch[t].row)
              /\ EndPatch(t) /\ UNCHANGED <<creating, projectChanges>>
            BY <2>4 DEF CommitUpload
        <3>2. /\ patch[t].project \in ProjectIds /\ patch[t].file \in ProjectFiles
              /\ patch[t].row \in ProjectRow /\ ~patch[t].row.shared
            BY <1>2, <3>1 DEF ProjectsTypes, Patches, NoPatch, ProjectsInv, PatchesKnown
        <3> QED BY <1>2, <3>1, <3>2, StoreKeeps DEF ProjectRow
    <2>5. ASSUME NEW p \in ProjectIds, NEW file \in ProjectFiles, CreateRuns(p, file)
          PROVE  ProjectsTypes' /\ ProjectsInv'
        <3>1. CASE ~projects[p].shared /\ StoreQgisFile(p, file, projects[p])
            <4>1. Exists(p) /\ projects[p] \in ProjectRow
                BY <1>2, <3>1, RowIsThere DEF StoreQgisFile
            <4>2. projects[p].shared \in BOOLEAN
                BY <4>1 DEF ProjectRow
            <4> QED BY <1>2, <2>5, <3>1, <4>2, StoreKeeps DEF CreateRuns
        <3>2. CASE UNCHANGED <<projects, qgisFiles, datasets, projectJobs>> /\ historyUnchanged
            <4>1. PatchesKnown' /\ patch' \in [Patchers -> Patches]
                BY <1>2, <2>5, PatchesStay DEF CreateRuns, ProjectsInv
            <4> QED BY <1>2, <2>a, <2>5, <3>2, <4>1, RestKeeps DEF CreateRuns, historyUnchanged
        <3> QED BY <2>5, <3>1, <3>2 DEF CreateRuns
    <2>6. ASSUME NEW p \in ProjectIds, DeleteDataset(p) PROVE ProjectsTypes' /\ ProjectsInv'
        <3>1. PatchesKnown' /\ patch' \in [Patchers -> Patches]
            BY <1>2, <2>6, PatchesStay DEF DeleteDataset, ProjectsInv
        <3>2. projectChanges' \in 0..MaxProjectChanges
            BY <2>a, <2>6, ProjectsAssumption DEF DeleteDataset, CountProjectChange
        <3> QED BY <1>2, <2>a, <2>6, <3>1, <3>2, RestKeeps DEF DeleteDataset, historyUnchanged
    <2>7. CASE UNCHANGED projectRowVars
        <3>1. PatchesKnown' /\ patch' \in [Patchers -> Patches]
            BY <1>2, <2>7, PatchesStay DEF projectRowVars, ProjectsInv
        <3> QED BY <1>2, <2>a, <2>7, <3>1, RestKeeps DEF projectRowVars
    <2> QED BY <1>2, <2>1, <2>2, <2>3, <2>4, <2>5, <2>6, <2>7, CreateProjectKeeps, SavePatchKeeps,
               DeleteProjectKeeps, DeleteQgisFileKeeps, UploadDatasetKeeps, StartProcessKeeps, JobEndKeeps
            DEF ProjectsNext
<1> QED BY <1>1, <1>2, PTL

\* The properties are of the invariant.
LEMMA FilesFit == ASSUME ProjectsTypes, ProjectsInv PROVE FileFitsType
<1> SUFFICES ASSUME NEW p \in ProjectIds, Exists(p)
             PROVE  /\ projects[p].shared <=> projects[p].name = SHARED_DATASETS
                    /\ projects[p].shared => SharedDatasetsProject(projects[p].owner) = {p}
                    /\ p \notin overtaken => (projects[p].file <=> qgisFiles[p] # NoQgisFile)
                    /\ projects[p].shared /\ qgisFiles[p] # NoQgisFile =>
                          p \in overtaken \cup crossed \cup fromVariant
    BY DEF FileFitsType, ProjectsTypes
<1>1. RowFits(p) /\ ~Taken(p, projects[p].owner, projects[p].name)
    BY DEF ProjectsInv, NamesDiffer
<1>2. ASSUME projects[p].shared PROVE SharedDatasetsProject(projects[p].owner) = {p}
    <2>1. \A q \in ProjectIds : Exists(q) /\ projects[q].shared => projects[q].name = projects[p].name
        BY <1>1, <1>2 DEF ProjectsInv, RowFits
    <2> QED BY <1>1, <1>2, <2>1 DEF SharedDatasetsProject, Taken
<1> QED BY <1>1, <1>2 DEF RowFits

\* What the worker says of a layer of each kind.
LEMMA LayersAreSeen ==
    /\ ErrorCode(LayerKinds["file"]) = "no_error" /\ LayerKinds["file"].valid
    /\ ErrorCode(LayerKinds["online"]) = "no_error" /\ LayerKinds["online"].valid
    /\ ErrorCode(LayerKinds["shared"]) = "localized_dataprovider" /\ ~LayerKinds["shared"].valid
    /\ ErrorCode(LayerKinds["absent"]) = "invalid_dataprovider" /\ ~LayerKinds["absent"].valid
    /\ ErrorCode(LayerKinds["foreign"]) = "missing_dataprovider" /\ ~LayerKinds["foreign"].valid
    /\ \A kind \in Layers : /\ LayerKinds[kind].localized <=> kind = "shared"
                            /\ ~LayerKinds[kind].named <=> kind = "online"
<1>1. /\ LayerKinds["file"] = [valid |-> TRUE, provider |-> "valid", localized |-> FALSE, named |-> TRUE]
      /\ LayerKinds["online"] = [valid |-> TRUE, provider |-> "valid", localized |-> FALSE, named |-> FALSE]
      /\ LayerKinds["shared"] = [valid |-> FALSE, provider |-> "invalid", localized |-> TRUE, named |-> TRUE]
      /\ LayerKinds["absent"] = [valid |-> FALSE, provider |-> "invalid", localized |-> FALSE, named |-> TRUE]
      /\ LayerKinds["foreign"] = [valid |-> FALSE, provider |-> "none", localized |-> FALSE, named |-> TRUE]
    BY DEF LayerKinds
<1>2. ErrorCode(LayerKinds["file"]) = "no_error"
    BY <1>1 DEF ErrorCode
<1>3. ErrorCode(LayerKinds["online"]) = "no_error"
    BY <1>1 DEF ErrorCode
<1>4. ErrorCode(LayerKinds["shared"]) = "localized_dataprovider"
    BY <1>1 DEF ErrorCode
<1>5. ErrorCode(LayerKinds["absent"]) = "invalid_dataprovider"
    BY <1>1 DEF ErrorCode
<1>6. ErrorCode(LayerKinds["foreign"]) = "missing_dataprovider"
    BY <1>1 DEF ErrorCode
<1>7. \A kind \in Layers : /\ LayerKinds[kind].localized <=> kind = "shared"
                           /\ ~LayerKinds[kind].named <=> kind = "online"
    BY <1>1, FilesAreFiles
<1>8. /\ LayerKinds["file"].valid /\ LayerKinds["online"].valid /\ ~LayerKinds["shared"].valid
      /\ ~LayerKinds["absent"].valid /\ ~LayerKinds["foreign"].valid
    BY <1>1
<1> QED BY <1>2, <1>3, <1>4, <1>5, <1>6, <1>7, <1>8

\* The layers among the problems of a row with details.
LEMMA ProblemsOfLayers ==
    ASSUME NEW row, row.details \subseteq Layers
    PROVE  /\ \A problem \in LayerProblems(row) : problem.level = "warning"
           /\ {problem.layer : problem \in LayerProblems(row)} \ {"none"} =
                 {kind \in row.details :
                    \/ kind \in {"absent", "foreign"}
                    \/ kind = "shared" /\ SharedDatasetsProject(row.owner) \cap datasets = {}}
           /\ HasOnlineVectorData(row) <=> "online" \in row.details
<1>1. \A data : data \in LayersData(row.details) <=>
         \E kind \in row.details : data = [layer |-> kind, error_code |-> ErrorCode(LayerKinds[kind]),
              is_localized |-> LayerKinds[kind].localized, filename |-> LayerKinds[kind].named]
    BY DEF LayersData
<1>2. \A data \in LayersData(row.details) :
         /\ data.layer \in row.details /\ data.layer \in Layers
         /\ data.error_code \notin {"no_error", "localized_dataprovider"} <=> data.layer \in {"absent", "foreign"}
         /\ data.is_localized <=> data.layer = "shared"
         /\ ~data.filename <=> data.layer = "online"
    BY <1>1, LayersAreSeen, FilesAreFiles
<1>3. \A kind \in row.details : \E data \in LayersData(row.details) : data.layer = kind
    <2> SUFFICES ASSUME NEW kind \in row.details
                 PROVE  \E data \in LayersData(row.details) : data.layer = kind
        OBVIOUS
    <2>1. PICK data : data = [layer |-> kind, error_code |-> ErrorCode(LayerKinds[kind]),
              is_localized |-> LayerKinds[kind].localized, filename |-> LayerKinds[kind].named]
        OBVIOUS
    <2> QED BY <1>1, <2>1
<1> DEFINE unowned == {Problem("warning", "missing_localized_project", "none") :
                         data \in IF SharedDatasetsProject(row.owner) = {} THEN LocalizedLayers(row) ELSE {}}
           missing == {Problem("warning", "missing_localized_file", data.layer) :
                         data \in MissingLocalizedLayers(row)}
           broken  == {Problem("warning", "layer_problem", data.layer) :
                         data \in {d \in LayersData(row.details) :
                                     d.error_code \notin {"no_error", "localized_dataprovider"}}}
<1>4. LayerProblems(row) = unowned \cup missing \cup broken
    BY DEF LayerProblems
<1>5. \A problem \in unowned : problem.level = "warning" /\ problem.layer = "none"
    BY DEF Problem
<1>6. /\ \A problem \in missing : problem.level = "warning"
      /\ \A problem \in missing :
            problem.layer \in row.details /\ problem.layer = "shared"
            /\ SharedDatasetsProject(row.owner) \cap datasets = {}
      /\ "shared" \in row.details /\ SharedDatasetsProject(row.owner) \cap datasets = {} =>
            \E problem \in missing : problem.layer = "shared"
    <2>1. \A data : data \in MissingLocalizedLayers(row) <=>
             /\ data \in LayersData(row.details) /\ data.is_localized
             /\ SharedDatasetsProject(row.owner) \cap datasets = {}
        BY DEF MissingLocalizedLayers, LocalizedLayers
    <2>2. \A data \in MissingLocalizedLayers(row) :
             /\ data.layer \in row.details /\ data.layer = "shared"
             /\ SharedDatasetsProject(row.owner) \cap datasets = {}
        BY <1>2, <2>1
    <2>3. \A problem \in missing : \E data \in MissingLocalizedLayers(row) :
             problem.level = "warning" /\ problem.layer = data.layer
        BY DEF Problem
    <2>4. ASSUME "shared" \in row.details, SharedDatasetsProject(row.owner) \cap datasets = {}
          PROVE  \E problem \in missing : problem.layer = "shared"
        <3>1. PICK data \in LayersData(row.details) : data.layer = "shared"
            BY <1>3, <2>4
        <3>2. data \in MissingLocalizedLayers(row)
            BY <1>2, <2>1, <2>4, <3>1
        <3>3. PICK problem : problem = Problem("warning", "missing_localized_file", data.layer)
            OBVIOUS
        <3> QED BY <3>1, <3>2, <3>3 DEF Problem
    <2> QED BY <2>2, <2>3, <2>4
<1>7. /\ \A problem \in broken : /\ problem.level = "warning"
                                 /\ problem.layer \in row.details /\ problem.layer \in {"absent", "foreign"}
      /\ \A kind \in row.details \cap {"absent", "foreign"} : \E problem \in broken : problem.layer = kind
    <2>1. \A problem \in broken : \E data \in LayersData(row.details) :
             /\ data.error_code \notin {"no_error", "localized_dataprovider"}
             /\ problem.level = "warning" /\ problem.layer = data.layer
        BY DEF Problem
    <2>2. ASSUME NEW kind \in row.details \cap {"absent", "foreign"}
          PROVE  \E problem \in broken : problem.layer = kind
        <3>1. PICK data \in LayersData(row.details) : data.layer = kind
            BY <1>3
        <3>2. data.error_code \notin {"no_error", "localized_dataprovider"}
            BY <1>2, <3>1
        <3>3. PICK problem : problem = Problem("warning", "layer_problem", data.layer)
            OBVIOUS
        <3> QED BY <3>1, <3>2, <3>3 DEF Problem
    <2> QED BY <1>2, <2>1, <2>2
<1> HIDE DEF unowned, missing, broken
<1>8. "none" \notin Layers
    BY FilesAreFiles
<1>9. \A problem \in LayerProblems(row) : problem.level = "warning"
    BY <1>4, <1>5, <1>6, <1>7
<1>10. {problem.layer : problem \in LayerProblems(row)} \ {"none"} =
          {kind \in row.details :
             \/ kind \in {"absent", "foreign"}
             \/ kind = "shared" /\ SharedDatasetsProject(row.owner) \cap datasets = {}}
    BY <1>4, <1>5, <1>6, <1>7, <1>8
<1>11. HasOnlineVectorData(row) <=> "online" \in row.details
    BY <1>2, <1>3 DEF HasOnlineVectorData
<1> QED BY <1>9, <1>10, <1>11

\* The problems that are told of a project of which there is no job.
LEMMA ProblemsOfProject ==
    ASSUME NEW p, p \notin creating, ~projects[p].shared
    PROVE  /\ ~projects[p].file \/ projects[p].details = NoDetails =>
                 \E problem \in Problems(p) : problem.level = "error"
           /\ projects[p].file /\ projects[p].details # NoDetails =>
                 Problems(p) = LayerProblems(projects[p])
<1>1. ~projects[p].file =>
         Problems(p) = {Problem("error", "missing_projectfile", "none")}
    BY DEF Problems
<1>2. projects[p].file /\ projects[p].details = NoDetails =>
         Problems(p) = {Problem("error", "missing_project_details", "none")}
    BY DEF Problems
<1>3. projects[p].file /\ projects[p].details # NoDetails =>
         Problems(p) = LayerProblems(projects[p])
    BY DEF Problems
<1>4. ASSUME NEW code PROVE \E problem \in {Problem("error", code, "none")} : problem.level = "error"
    BY DEF Problem
<1> QED BY <1>1, <1>2, <1>3, <1>4

LEMMA TellsAsItIs == ASSUME ProjectsTypes, ProjectsInv PROVE ToldAsItIs
<1> SUFFICES ASSUME NEW p \in ProjectIds, Exists(p), Status(p) # "busy", ~projects[p].shared,
                    p \notin overtaken \cup outrun
             PROVE  LET usable == {kind \in Layers : LayerKinds[kind].valid
                           \/ /\ LayerKinds[kind].localized
                              /\ \E q \in datasets : /\ projects[q].name = SHARED_DATASETS
                                                     /\ projects[q].owner = projects[p].owner} IN
                    /\ (Status(p) = "failed") <=> \E problem \in Problems(p) : problem.level = "error"
                    /\ Status(p) = "ok" =>
                          /\ {problem.layer : problem \in Problems(p)} \ {"none"} = qgisFiles[p] \ usable
                          /\ OwnerCanCreateJob(p) <=> ("online" \in qgisFiles[p] => projects[p].owner \in ExternalDb)
    BY DEF ToldAsItIs
<1>1. /\ p \notin creating /\ projectJobs[p].step = "none"
      /\ Status(p) \in {"failed", "ok"}
      /\ Status(p) = "failed" <=> ~projects[p].file \/ projects[p].details = NoDetails
    BY DEF Status
<1>2. projects[p] \in ProjectRow /\ RowFits(p) /\ DetailsFit(p)
    BY RowIsThere
<1>3. CASE ~projects[p].file \/ projects[p].details = NoDetails
    BY <1>1, <1>3, ProblemsOfProject
<1>4. CASE projects[p].file /\ projects[p].details # NoDetails
    <2>1. projects[p].details = qgisFiles[p] /\ projects[p].details \subseteq Layers
        <3>1. projects[p].details \in ProjectFiles
            BY <1>2, <1>4 DEF ProjectRow
        <3> QED BY <1>1, <1>2, <1>4, <3>1, ProjectsAssumption DEF DetailsFit
    <2>2. Problems(p) = LayerProblems(projects[p])
        BY <1>1, <1>4, ProblemsOfProject
    <2>3. /\ \A problem \in Problems(p) : problem.level = "warning"
          /\ {problem.layer : problem \in Problems(p)} \ {"none"} =
                {kind \in qgisFiles[p] :
                    \/ kind \in {"absent", "foreign"}
                    \/ kind = "shared" /\ SharedDatasetsProject(projects[p].owner) \cap datasets = {}}
          /\ HasOnlineVectorData(projects[p]) <=> "online" \in qgisFiles[p]
        BY <2>1, <2>2, ProblemsOfLayers
    <2>4. SharedDatasetsProject(projects[p].owner) \cap datasets # {} <=>
             \E q \in datasets : /\ projects[q].name = SHARED_DATASETS
                                 /\ projects[q].owner = projects[p].owner
        <3>1. \A q \in datasets : q \in ProjectIds
            BY DEF ProjectsTypes, ProjectsTypeOK
        <3>2. \A q \in ProjectIds : projects[q].name = SHARED_DATASETS => Exists(q)
            BY DEF Exists, NoProject, SHARED_DATASETS
        <3>3. \A q \in ProjectIds : Exists(q) => (projects[q].shared <=> projects[q].name = SHARED_DATASETS)
            BY DEF ProjectsInv, RowFits
        <3> QED BY <3>1, <3>2, <3>3 DEF SharedDatasetsProject
    <2> DEFINE usable == {kind \in Layers : LayerKinds[kind].valid
                           \/ /\ LayerKinds[kind].localized
                              /\ \E q \in datasets : /\ projects[q].name = SHARED_DATASETS
                                                     /\ projects[q].owner = projects[p].owner}
    <2>5. \A kind \in Layers :
             kind \in usable <=> \/ kind \in {"file", "online"}
                                 \/ kind = "shared" /\ SharedDatasetsProject(projects[p].owner) \cap datasets # {}
        BY <2>4, LayersAreSeen, FilesAreFiles
    <2>6. {problem.layer : problem \in Problems(p)} \ {"none"} = qgisFiles[p] \ usable
        <3> HIDE DEF usable
        <3> QED BY <2>1, <2>3, <2>5, FilesAreFiles
    <2>7. ~(\E problem \in Problems(p) : problem.level = "error") /\ Status(p) = "ok"
        BY <1>1, <1>4, <2>3
    <2>8. OwnerCanCreateJob(p) <=> ("online" \in qgisFiles[p] => projects[p].owner \in ExternalDb)
        BY <2>3 DEF OwnerCanCreateJob
    <2> QED BY <2>6, <2>7, <2>8
<1> QED BY <1>3, <1>4

\* What the server tells of a project at rest is true of its files and those of its
\* owner's shared datasets (Project.problems, status, has_online_vector_data), and the
\* type of a project fits its name and its file (Project.save, the name's validation).
LEMMA RowsOfProjects ==
    ProjectsInit /\ [][ProjectsNext]_projectRowVars => []FileFitsType /\ []ToldAsItIs
<1>1. ProjectsTypes /\ ProjectsInv => FileFitsType /\ ToldAsItIs
    BY FilesFit, TellsAsItIs
<1> QED BY <1>1, ProjectsKept, PTL

-----------------------------------------------------------------------------
(* Runs of jobs.                                                           *)

Feedbacks ==
    [state: {"absent", "torn", "whole"}, done: 0..Len(WorkflowSteps), raised: Failures]

ToldErrors ==
    {"none", "DOCKER_ENGINE_SIGKILL", "TIMEOUT", "API", "FILE_NOT_FOUND", "INVALID_PROJECT_FILE",
     "UNABLE_TO_CONTINUE", "UNKNOWN"}

TaskRow ==
    [state: {"unborn", "running", "writing", "written", "stopped"}, done: 0..Len(WorkflowSteps),
     raised: Failures, exit: {"null", "ok", "error", "sigkill"}, stopping: BOOLEAN]

\* All variables are records.
JobRunsTypes ==
    /\ jobKind \in JobKinds
    /\ qgisTasks \in [TaskIds -> TaskRow]
    /\ feedbackFile \in Feedbacks
    /\ jobRun \in [at: {"construct", "start", "prepare", "launch", "record", "wait", "read", "hook",
                        "fail", "over", "dead"},
                   tempdir: BOOLEAN, attempts: 0..MaxAttempts, task: 0..MaxTasks,
                   exit: {"null", "ok", "error", "sigkill", "timeout"}, unstopped: BOOLEAN]
    /\ jobRow \in [status: {"queued", "started", "failed", "finished", "deleted"},
                   container: 0..MaxTasks,
                   told: [origin: {"none", "container", "worker_wrapper"}, error: ToldErrors,
                          feedback: Feedbacks]]

BeforeTask == jobRun.at \in {"construct", "start", "prepare", "launch"}

\* Before the launch there is no task of the run, nor of Docker at all, and another try.
NothingYet ==
    /\ BeforeTask => /\ jobRun.attempts < MaxAttempts /\ jobRun.task = 0
                     /\ jobKind.executor = "docker" => Unborn = TaskIds
    /\ BeforeTask \/ jobRun.at = "record" => jobRow.container = 0

\* The task that is on record is the one of the run.
Recorded ==
    /\ jobRun.at \in {"record", "wait", "read", "hook"} => jobRun.task # 0
    /\ jobRun.task # 0 => qgisTasks[jobRun.task].state # "unborn"
    /\ RowExists /\ jobRun.at \in {"wait", "read", "hook"} => jobRow.container = jobRun.task
    /\ jobRow.container # 0 => jobRow.container = jobRun.task
    /\ ~RowExists => jobRow.container = 0
    /\ jobRow.status = "finished" => jobRun.at = "over" /\ jobRow.container # 0

\* Once it is not waited for any more it has ended or is to end, unless a call raised.
LeftAlone ==
    /\ jobRun.at \in {"read", "hook", "fail", "over", "dead"} /\ ~jobRun.unstopped
    /\ jobRow.container # 0 /\ Alive(jobRow.container)
    => qgisTasks[jobRow.container].stopping

\* The exit code is that of the task.
ExitKnown ==
    /\ jobRun.exit \notin {"null", "timeout"} =>
          /\ jobRun.task # 0 /\ qgisTasks[jobRun.task].state = "stopped"
          /\ qgisTasks[jobRun.task].exit = jobRun.exit
    /\ jobRun.at = "read" => jobRun.exit # "null"

\* A task raises in a step, and writes its feedback at the end.
TaskFits(task) ==
    /\ task.raised # "none" => task.done < Len(WorkflowSteps)
    /\ task.state \in {"writing", "written"} => task.raised # "none" \/ task.done = Len(WorkflowSteps)

\* A whole feedback is that of a task that has written it.
ToldBy(feedback, k) ==
    /\ qgisTasks[k].state \in {"written", "stopped"}
    /\ qgisTasks[k].done = feedback.done /\ qgisTasks[k].raised = feedback.raised
    /\ feedback.raised # "none" \/ feedback.done = Len(WorkflowSteps)

TaskTold(feedback) == feedback.state = "whole" => \E k \in TaskIds : ToldBy(feedback, k)

\* What the row tells, by the exit code and the feedback.
RowTells ==
    LET told == jobRow.told IN
    /\ told.origin = "container" /\ told.feedback.state = "whole" =>
          told.feedback.raised # "none" /\ told.error = ErrorType(told.feedback.raised)
    /\ jobRow.status = "finished" \/ (RowExists /\ jobRun.at = "hook") =>
          jobRun.exit = "ok" /\ told.feedback.state = "whole" /\ told.feedback.raised = "none"
    /\ jobRow.status = "finished" => HookReads \subseteq Outputs(told.feedback)
    /\ jobRun.at = "over" /\ jobRow.status = "failed" =>
          \/ told.origin = "worker_wrapper" \/ told.error = "TIMEOUT"
          \/ jobRun.exit \notin {"null", "ok", "timeout"}
          \/ told.feedback.state = "whole" /\ told.feedback.raised # "none"

JobRunsInv ==
    /\ NothingYet /\ Recorded /\ LeftAlone /\ ExitKnown /\ RowTells
    /\ \A k \in TaskIds : TaskFits(qgisTasks[k])
    /\ TaskTold(feedbackFile) /\ TaskTold(jobRow.told.feedback)

\* The steps of the workflows, which raise errors of their kinds.
StepsOfWorkflows ==
    {StartQgisApp, DownloadProjectDirectory, UploadProjectDirectory, StopQgisApp,
     LayersDataStep("qgis_layers_data", {}), PackageProject,
     LayersDataStep("qfield_layer_data", {<<"package_project", "the_qgis_file_name_in_qfield">>}),
     UploadPackagedProject, ProjectValidityCheck, OpeningCheck, ProjectDetails,
     GenerateThumbnailImage, UploadThumbnail, DeltaWorkflow[3],
     CreationWorkflow[2], CreationWorkflow[3], CreationWorkflow[4], CreationWorkflow[5],
     CreationWorkflow[6]}

LEMMA WorkflowsAreSequences ==
    ASSUME jobKind \in JobKinds
    PROVE  /\ WorkflowSteps \in Seq(StepsOfWorkflows) /\ Len(WorkflowSteps) \in Nat
           /\ DOMAIN WorkflowSteps = 1..Len(WorkflowSteps)
           /\ jobKind.type = "package" =>
                 /\ 3 \in DOMAIN WorkflowSteps
                 /\ WorkflowSteps[3] = LayersDataStep("qgis_layers_data", {})
<1>1. jobKind.type \in {"package", "process_projectfile", "delta_apply", "create_project"}
    BY JobRunsAssumption
<1>2. PackageWorkflow \in Seq(StepsOfWorkflows) /\ 3 \in DOMAIN PackageWorkflow
      /\ PackageWorkflow[3] = LayersDataStep("qgis_layers_data", {})
    BY DEF PackageWorkflow, StepsOfWorkflows
<1>3. ProcessWorkflow \in Seq(StepsOfWorkflows)
    BY DEF ProcessWorkflow, StepsOfWorkflows
<1>4. DeltaWorkflow \in Seq(StepsOfWorkflows)
    BY DEF DeltaWorkflow, StepsOfWorkflows
<1>5. CreationWorkflow \in Seq(StepsOfWorkflows)
    <2>1. \E b, c, d, e, f : CreationWorkflow =
             <<StartQgisApp, b, c, d, e, f, UploadProjectDirectory, StopQgisApp>>
        BY DEF CreationWorkflow
    <2>2. PICK b, c, d, e, f : CreationWorkflow =
             <<StartQgisApp, b, c, d, e, f, UploadProjectDirectory, StopQgisApp>>
        BY <2>1
    <2>3. {StartQgisApp, b, c, d, e, f, UploadProjectDirectory, StopQgisApp} \subseteq StepsOfWorkflows
        BY <2>2 DEF StepsOfWorkflows
    <2> HIDE DEF StepsOfWorkflows
    <2> QED BY <2>2, <2>3
<1>6. WorkflowSteps \in {PackageWorkflow, ProcessWorkflow, DeltaWorkflow, CreationWorkflow}
      /\ (jobKind.type = "package" => WorkflowSteps = PackageWorkflow)
    BY <1>1 DEF WorkflowSteps, WorkflowOf
<1>7. WorkflowSteps \in Seq(StepsOfWorkflows)
    BY <1>2, <1>3, <1>4, <1>5, <1>6
<1> QED BY <1>2, <1>6, <1>7

\* The number of steps does not change, and errors have a kind.
LEMMA StepsRaise ==
    ASSUME jobKind \in JobKinds, NEW i \in DOMAIN WorkflowSteps
    PROVE  WorkflowSteps[i].raises \subseteq Failures \ {"none"}
<1>1. WorkflowSteps[i] \in StepsOfWorkflows
    BY WorkflowsAreSequences
<1>2. DeltaWorkflow[3].raises = {"other"}
    BY DEF DeltaWorkflow, WorkflowStep
<1>3. /\ CreationWorkflow[2].raises = {"api"} /\ CreationWorkflow[3].raises = {"api"}
      /\ CreationWorkflow[4].raises = {"api", "file", "unable"}
      /\ CreationWorkflow[5].raises = (OpenRaises \ {"file"}) \cup SaveRaises
      /\ CreationWorkflow[6].raises = OpenRaises
    BY DEF CreationWorkflow, WorkflowStep, LayersDataStep
<1>4. /\ StartQgisApp.raises = {} /\ DownloadProjectDirectory.raises = {"api"}
      /\ UploadProjectDirectory.raises = {"api"} /\ StopQgisApp.raises = {}
      /\ PackageProject.raises = OpenRaises /\ UploadPackagedProject.raises = {"api"}
      /\ ProjectValidityCheck.raises = {"xml", "other"}
      /\ OpeningCheck.raises = OpenRaises \cup StripRaises
      /\ ProjectDetails.raises = OpenTemporarilyRaises \cup ReadVersionRaises
      /\ GenerateThumbnailImage.raises = OpenTemporarilyRaises \cup {"other"}
      /\ UploadThumbnail.raises = {"api"}
    BY DEF StartQgisApp, DownloadProjectDirectory, UploadProjectDirectory, StopQgisApp, PackageProject,
           UploadPackagedProject, ProjectValidityCheck, OpeningCheck, ProjectDetails,
           GenerateThumbnailImage, UploadThumbnail, WorkflowStep
<1>5. \A id, takes : LayersDataStep(id, takes).raises = OpenRaises
    BY DEF LayersDataStep, WorkflowStep
<1>6. \A step \in StepsOfWorkflows : step.raises \subseteq {"api", "file", "xml", "unable", "other"}
    BY <1>2, <1>3, <1>4, <1>5 DEF StepsOfWorkflows, OpenRaises, StripRaises, OpenTemporarilyRaises,
       ReadVersionRaises, SaveRaises
<1> QED BY <1>1, <1>6 DEF Failures

\* The task that is launched next is one that was not yet.
LEMMA NextIsUnborn ==
    ASSUME JobRunsTypes, Unborn # {}
    PROVE  NextTask \in Unborn /\ NextTask \in TaskIds /\ NextTask # 0
<1> DEFINE R == {z \in Nat \X Nat : z[1] < z[2]}
<1>1. IsWellFoundedOn(R, Nat)
    BY NatLessThanWellFounded DEF OpToRel
<1>2. Unborn \subseteq Nat /\ Unborn \subseteq TaskIds /\ 0 \notin TaskIds
    BY JobRunsAssumption DEF Unborn, TaskIds
<1> HIDE DEF R
<1>3. PICK k \in Unborn : \A l \in Unborn : ~ (<<l, k>> \in R)
    BY <1>1, <1>2, WFMin
<1>4. ASSUME NEW l \in Unborn PROVE k <= l
    <2>1. ~ (<<l, k>>[1] < <<l, k>>[2])
        BY <1>2, <1>3 DEF R
    <2> QED BY <1>2, <2>1
<1>5. NextTask \in Unborn
    BY <1>4 DEF NextTask
<1> QED BY <1>2, <1>5

\* How tasks go on: one that has stopped stays as it is, one that was launched
\* stays launched, one that is to stop is to stop, and one that has written its
\* feedback has written it.
TasksGoOn ==
    \A k \in TaskIds :
        /\ qgisTasks[k].state = "stopped" => qgisTasks'[k] = qgisTasks[k]
        /\ qgisTasks[k].state # "unborn" => qgisTasks'[k].state # "unborn"
        /\ qgisTasks[k].stopping /\ Alive(k) /\ Alive(k)' => qgisTasks'[k].stopping
        /\ qgisTasks[k].state = "written" =>
              /\ qgisTasks'[k].state \in {"written", "stopped"}
              /\ qgisTasks'[k].done = qgisTasks[k].done /\ qgisTasks'[k].raised = qgisTasks[k].raised

LEMMA TaskStays ==
    ASSUME JobRunsTypes, TasksGoOn, NEW k \in TaskIds
    PROVE  /\ Alive(k)' => Alive(k) \/ qgisTasks[k].state = "unborn"
           /\ qgisTasks'[k].state = "stopped" \/ Alive(k)' \/ qgisTasks[k].state = "unborn" \/
                 ~(qgisTasks'[k].state \in {"unborn", "running", "writing", "written", "stopped"})
    BY DEF JobRunsTypes, TaskRow, TasksGoOn, Alive

LEMMA StillTold ==
    ASSUME JobRunsTypes, TasksGoOn, jobKind' = jobKind, NEW feedback, TaskTold(feedback)
    PROVE  TaskTold(feedback)'
    BY DEF TaskTold, ToldBy, TasksGoOn, WorkflowSteps

\* A step of a task that is none of the worker's.
LEMMA TasksKeep ==
    ASSUME JobRunsTypes, JobRunsInv, TasksGoOn, UNCHANGED <<jobKind, jobRun, jobRow>>,
           qgisTasks' \in [TaskIds -> TaskRow], feedbackFile' \in Feedbacks, TaskTold(feedbackFile)',
           \A k \in TaskIds : /\ TaskFits(qgisTasks'[k])
                              /\ qgisTasks[k].state = "unborn" => qgisTasks'[k] = qgisTasks[k]
    PROVE  JobRunsTypes' /\ JobRunsInv'
<1>1. JobRunsTypes'
    BY DEF JobRunsTypes, Feedbacks, TaskRow, WorkflowSteps
<1>2. /\ jobRun.task \in TaskIds \cup {0} /\ jobRow.container \in TaskIds \cup {0} /\ 0 \notin TaskIds
      /\ jobRun.exit \in {"null", "ok", "error", "sigkill", "timeout"}
    BY JobRunsAssumption DEF JobRunsTypes, TaskIds
<1>3. NothingYet'
    <2>1. Unborn = TaskIds => Unborn' = TaskIds
        BY DEF Unborn
    <2> QED BY <2>1 DEF JobRunsInv, NothingYet, BeforeTask
<1>4. Recorded'
    BY <1>2 DEF JobRunsInv, Recorded, TasksGoOn, RowExists
<1>5. LeftAlone'
    <2> SUFFICES ASSUME jobRow.container # 0, Alive(jobRow.container)',
                        jobRun.at \in {"read", "hook", "fail", "over", "dead"}, ~jobRun.unstopped
                 PROVE  qgisTasks'[jobRow.container].stopping
        BY DEF LeftAlone
    <2>1. jobRow.container \in TaskIds /\ qgisTasks[jobRow.container].state # "unborn"
        BY <1>2 DEF JobRunsInv, Recorded
    <2>2. Alive(jobRow.container) /\ qgisTasks[jobRow.container].stopping
        BY <2>1, TaskStays DEF JobRunsInv, LeftAlone
    <2> QED BY <2>1, <2>2 DEF TasksGoOn
<1>6. ExitKnown'
    BY <1>2 DEF JobRunsInv, ExitKnown, TasksGoOn
<1>7. RowTells'
    BY DEF JobRunsInv, RowTells, RowExists, HookReads, Outputs, Stage, WorkflowSteps
<1>8. TaskTold(jobRow.told.feedback)'
    <2>1. PICK feedback : feedback = jobRow.told.feedback
        OBVIOUS
    <2>2. TaskTold(feedback)' /\ feedback = jobRow'.told.feedback
        BY <2>1, StillTold DEF JobRunsInv
    <2> QED BY <2>2
<1>9. \A k \in TaskIds : TaskFits(qgisTasks[k])'
    BY DEF TaskFits, WorkflowSteps
<1> QED BY <1>1, <1>3, <1>4, <1>5, <1>6, <1>7, <1>8, <1>9 DEF JobRunsInv

\* A task that is alive goes on.
LEMMA OneTask ==
    ASSUME JobRunsTypes, NEW k \in TaskIds, NEW task \in TaskRow, Alive(k),
           qgisTasks' = [qgisTasks EXCEPT ![k] = task], task.state # "unborn",
           qgisTasks[k].stopping /\ task.state # "stopped" => task.stopping,
           qgisTasks[k].state = "written" =>
              /\ task.state \in {"written", "stopped"}
              /\ task.done = qgisTasks[k].done /\ task.raised = qgisTasks[k].raised
    PROVE  /\ TasksGoOn /\ qgisTasks' \in [TaskIds -> TaskRow]
           /\ \A l \in TaskIds : qgisTasks[l].state = "unborn" => qgisTasks'[l] = qgisTasks[l]
           /\ qgisTasks'[k] = task /\ \A l \in TaskIds \ {k} : qgisTasks'[l] = qgisTasks[l]
<1>1. /\ qgisTasks'[k] = task /\ \A l \in TaskIds \ {k} : qgisTasks'[l] = qgisTasks[l]
      /\ qgisTasks' \in [TaskIds -> TaskRow]
    BY DEF JobRunsTypes
<1>2. qgisTasks[k].state \in {"running", "writing", "written"}
    BY DEF Alive
<1>3. TasksGoOn
    BY <1>1, <1>2 DEF TasksGoOn, Alive
<1> QED BY <1>1, <1>2, <1>3

\* What is left of a task that is killed.
LEMMA KilledTask ==
    ASSUME JobRunsTypes, NEW task \in TaskRow, NEW exit \in {"null", "sigkill"}, TaskFits(task)
    PROVE  /\ Killed(task, exit) \in TaskRow /\ Killed(task, exit).state = "stopped"
           /\ TaskFits(Killed(task, exit))
           /\ task.state = "written" => /\ Killed(task, exit).done = task.done
                                        /\ Killed(task, exit).raised = task.raised
<1>1. Len(WorkflowSteps) \in Nat
    BY WorkflowsAreSequences DEF JobRunsTypes
<1>2. NoTask \in TaskRow /\ NoTask.raised = "none"
    BY <1>1 DEF NoTask, TaskRow, Failures
<1>3. PICK old \in TaskRow :
         /\ old = IF task.state = "written" THEN task ELSE NoTask
         /\ old.raised = "none" \/ old.done < Len(WorkflowSteps)
    BY <1>2 DEF TaskFits
<1>4. PICK new : new = [old EXCEPT !.state = "stopped", !.exit = exit]
    OBVIOUS
<1>5. /\ new \in TaskRow /\ new.state = "stopped"
      /\ new.done = old.done /\ new.raised = old.raised
    BY <1>3, <1>4 DEF TaskRow
<1>6. Killed(task, exit) = new
    BY <1>3, <1>4 DEF Killed
<1> QED BY <1>3, <1>5, <1>6 DEF TaskFits

\* What a step makes of a task.
TaskGoes(old, task) ==
    /\ task \in TaskRow /\ task.state # "unborn" /\ TaskFits(task)
    /\ old.stopping /\ task.state # "stopped" => task.stopping
    /\ old.state = "written" => /\ task.state \in {"written", "stopped"}
                                /\ task.done = old.done /\ task.raised = old.raised

LEMMA TaskGoesOn ==
    ASSUME JobRunsTypes, JobRunsInv, NEW k \in TaskIds,
           \/ CompleteStep(k) \/ RaiseInStep(k) \/ OpenFeedback(k) \/ WriteFeedback(k)
           \/ ExitTask(k) \/ KillTask(k) \/ CancelOrphan(k)
    PROVE  \E task : TaskGoes(qgisTasks[k], task) /\ qgisTasks' = [qgisTasks EXCEPT ![k] = task]
<1>1. PICK old \in TaskRow : old = qgisTasks[k] /\ TaskFits(old)
    BY DEF JobRunsTypes, JobRunsInv
<1>2. Len(WorkflowSteps) \in Nat /\ DOMAIN WorkflowSteps = 1..Len(WorkflowSteps)
    BY WorkflowsAreSequences DEF JobRunsTypes
<1> USE <1>1
<1> SUFFICES \E task : TaskGoes(old, task) /\ qgisTasks' = [qgisTasks EXCEPT ![k] = task]
    OBVIOUS
<1>3. CASE CompleteStep(k)
    <2>1. PICK task : task = [old EXCEPT !.done = @ + 1]
        OBVIOUS
    <2>2. /\ old.state = "running" /\ old.raised = "none" /\ old.done < Len(WorkflowSteps)
          /\ qgisTasks' = [qgisTasks EXCEPT ![k] = task]
        BY <1>3, <2>1 DEF CompleteStep, InWorkflow
    <2>3. TaskGoes(old, task)
        BY <1>2, <2>1, <2>2 DEF TaskGoes, TaskRow, TaskFits
    <2> QED BY <2>2, <2>3
<1>4. CASE RaiseInStep(k)
    <2>1. /\ old.state = "running" /\ old.raised = "none" /\ old.done < Len(WorkflowSteps)
          /\ old.done + 1 \in DOMAIN WorkflowSteps
        BY <1>2, <1>4 DEF RaiseInStep, InWorkflow, TaskRow
    <2>2. PICK kind \in WorkflowSteps[old.done + 1].raises :
             qgisTasks' = [qgisTasks EXCEPT ![k].raised = kind]
        BY <1>4 DEF RaiseInStep
    <2>3. kind \in Failures
        BY <2>1, StepsRaise DEF JobRunsTypes
    <2>4. PICK task : task = [old EXCEPT !.raised = kind]
        OBVIOUS
    <2>5. TaskGoes(old, task)
        BY <1>2, <2>1, <2>3, <2>4 DEF TaskGoes, TaskRow, TaskFits
    <2> QED BY <2>2, <2>4, <2>5
<1>5. CASE OpenFeedback(k)
    <2>1. old.state = "running" /\ (old.raised # "none" \/ old.done = Len(WorkflowSteps))
        BY <1>5 DEF OpenFeedback
    <2>2. CASE jobRun.tempdir
        <3>1. PICK task : task = [old EXCEPT !.state = "writing"]
            OBVIOUS
        <3>2. TaskGoes(old, task)
            BY <1>2, <2>1, <3>1 DEF TaskGoes, TaskRow, TaskFits
        <3> QED BY <1>5, <2>2, <3>1, <3>2 DEF OpenFeedback
    <2>3. CASE ~jobRun.tempdir
        <3>1. PICK task : task = [old EXCEPT !.state = "stopped", !.exit = "error"]
            OBVIOUS
        <3>2. TaskGoes(old, task)
            BY <1>2, <2>1, <3>1 DEF TaskGoes, TaskRow, TaskFits
        <3>3. qgisTasks' = [qgisTasks EXCEPT ![k] = task]
            BY <1>5, <2>3, <3>1 DEF OpenFeedback, JobRunsTypes
        <3> QED BY <3>2, <3>3
    <2> QED BY <2>2, <2>3
<1>6. CASE WriteFeedback(k)
    <2>1. PICK task : task = [old EXCEPT !.state = "written"]
        OBVIOUS
    <2>2. old.state = "writing" /\ qgisTasks' = [qgisTasks EXCEPT ![k] = task]
        BY <1>6, <2>1 DEF WriteFeedback
    <2>3. TaskGoes(old, task)
        BY <1>2, <2>1, <2>2 DEF TaskGoes, TaskRow, TaskFits
    <2> QED BY <2>2, <2>3
<1>7. CASE ExitTask(k)
    <2>1. PICK exit \in {"ok", "error"} :
             qgisTasks' = [qgisTasks EXCEPT ![k].state = "stopped", ![k].exit = exit]
        BY <1>7 DEF ExitTask
    <2>2. PICK task : task = [old EXCEPT !.state = "stopped", !.exit = exit]
        OBVIOUS
    <2>3. TaskGoes(old, task)
        BY <1>2, <1>7, <2>2 DEF ExitTask, TaskGoes, TaskRow, TaskFits
    <2>4. qgisTasks' = [qgisTasks EXCEPT ![k] = task]
        BY <2>1, <2>2 DEF JobRunsTypes
    <2> QED BY <2>3, <2>4
<1>8. ASSUME NEW exit \in {"sigkill", "null"}, qgisTasks' = [qgisTasks EXCEPT ![k] = Killed(@, exit)]
      PROVE  \E task : TaskGoes(old, task) /\ qgisTasks' = [qgisTasks EXCEPT ![k] = task]
    <2>1. TaskGoes(old, Killed(old, exit))
        BY KilledTask DEF TaskGoes
    <2> QED BY <1>8, <2>1
<1>9. CASE KillTask(k)
    <2>1. PICK exit \in {"sigkill", "null"} : qgisTasks' = [qgisTasks EXCEPT ![k] = Killed(@, exit)]
        BY <1>9 DEF KillTask
    <2> QED BY <1>8, <2>1
<1>10. CASE CancelOrphan(k)
    <2>1. CASE jobKind.executor = "ecs"
        <3>1. PICK task : task = [old EXCEPT !.stopping = TRUE]
            OBVIOUS
        <3>2. TaskGoes(old, task)
            BY <1>2, <1>10, <3>1 DEF CancelOrphan, IsOrphan, Alive, TaskGoes, TaskRow, TaskFits
        <3> QED BY <1>10, <2>1, <3>1, <3>2 DEF CancelOrphan
    <2>2. CASE jobKind.executor # "ecs"
        BY <1>8, <1>10, <2>2 DEF CancelOrphan
    <2> QED BY <2>1, <2>2
<1> QED BY <1>3, <1>4, <1>5, <1>6, <1>7, <1>9, <1>10

LEMMA TaskActionsKeep ==
    ASSUME JobRunsTypes, JobRunsInv, NEW k \in TaskIds,
           \/ CompleteStep(k) \/ RaiseInStep(k) \/ OpenFeedback(k) \/ WriteFeedback(k)
           \/ ExitTask(k) \/ KillTask(k) \/ CancelOrphan(k)
    PROVE  JobRunsTypes' /\ JobRunsInv'
<1>1. PICK task : TaskGoes(qgisTasks[k], task) /\ qgisTasks' = [qgisTasks EXCEPT ![k] = task]
    BY TaskGoesOn
<1>2. Alive(k) /\ UNCHANGED <<jobKind, jobRun, jobRow>>
    BY DEF CompleteStep, RaiseInStep, OpenFeedback, WriteFeedback, ExitTask, KillTask, CancelOrphan,
           InWorkflow, IsOrphan, Alive
<1>3. /\ TasksGoOn /\ qgisTasks' \in [TaskIds -> TaskRow]
      /\ \A l \in TaskIds : qgisTasks[l].state = "unborn" => qgisTasks'[l] = qgisTasks[l]
      /\ qgisTasks'[k] = task /\ \A l \in TaskIds \ {k} : qgisTasks'[l] = qgisTasks[l]
    BY <1>1, <1>2, OneTask DEF TaskGoes
<1>4. \A l \in TaskIds : TaskFits(qgisTasks'[l])
    BY <1>1, <1>3 DEF TaskGoes, JobRunsInv
<1>5. feedbackFile' \in Feedbacks /\ TaskTold(feedbackFile)'
    <2>0. TornFeedback \in Feedbacks /\ TornFeedback.state = "torn"
        BY WorkflowsAreSequences DEF TornFeedback, NoFeedback, Feedbacks, Failures, JobRunsTypes
    <2>1. CASE feedbackFile' = feedbackFile
        BY <1>2, <1>3, <2>1, StillTold DEF JobRunsTypes, JobRunsInv
    <2>2. CASE feedbackFile' = TornFeedback
        BY <2>0, <2>2 DEF TaskTold
    <2>3. CASE /\ WriteFeedback(k)
               /\ feedbackFile' = [state |-> "whole", done |-> qgisTasks[k].done, raised |-> qgisTasks[k].raised]
        <3>1. feedbackFile' \in Feedbacks
            BY <2>3 DEF Feedbacks, JobRunsTypes, TaskRow
        <3>2. /\ qgisTasks'[k].state = "written" /\ qgisTasks'[k].done = qgisTasks[k].done
              /\ qgisTasks'[k].raised = qgisTasks[k].raised /\ qgisTasks[k].state = "writing"
            BY <2>3 DEF WriteFeedback, JobRunsTypes, TaskRow
        <3>3. qgisTasks[k].raised # "none" \/ qgisTasks[k].done = Len(WorkflowSteps)
            BY <3>2 DEF JobRunsInv, TaskFits
        <3>4. WorkflowSteps' = WorkflowSteps
            BY <1>2 DEF WorkflowSteps
        <3>5. ToldBy(feedbackFile, k)'
            BY <2>3, <3>2, <3>3, <3>4 DEF ToldBy
        <3> QED BY <3>1, <3>5 DEF TaskTold
    <2> QED BY <2>1, <2>2, <2>3
           DEF CompleteStep, RaiseInStep, OpenFeedback, WriteFeedback, ExitTask, KillTask, CancelOrphan
<1> QED BY <1>2, <1>3, <1>4, <1>5, TasksKeep

-----------------------------------------------------------------------------
\* What the worker does.

RunRow ==
    [at: {"construct", "start", "prepare", "launch", "record", "wait", "read", "hook",
          "fail", "over", "dead"},
     tempdir: BOOLEAN, attempts: 0..MaxAttempts, task: 0..MaxTasks,
     exit: {"null", "ok", "error", "sigkill", "timeout"}, unstopped: BOOLEAN]

ToldRow == [origin: {"none", "container", "worker_wrapper"}, error: ToldErrors, feedback: Feedbacks]

JobRow ==
    [status: {"queued", "started", "failed", "finished", "deleted"},
     container: 0..MaxTasks, told: ToldRow]

\* What a step of the worker has to show.
LEMMA WorkerKeeps ==
    ASSUME JobRunsTypes, JobRunsInv, jobKind' = jobKind, TasksGoOn,
           qgisTasks' \in [TaskIds -> TaskRow], \A k \in TaskIds : TaskFits(qgisTasks'[k]),
           jobRun' \in RunRow, jobRow' \in JobRow,
           feedbackFile' \in {feedbackFile, NoFeedback},
           jobRow'.told.feedback \in {jobRow.told.feedback, feedbackFile, NoFeedback},
           NothingYet', Recorded', LeftAlone', ExitKnown', RowTells'
    PROVE  JobRunsTypes' /\ JobRunsInv'
<1>1. NoFeedback \in Feedbacks /\ NoFeedback.state = "absent"
    BY WorkflowsAreSequences DEF NoFeedback, Feedbacks, Failures, JobRunsTypes
<1>2. /\ Feedbacks' = Feedbacks /\ TaskRow' = TaskRow /\ WorkflowSteps' = WorkflowSteps
      /\ ToldRow' = ToldRow /\ JobRow' = JobRow
    BY DEF Feedbacks, TaskRow, WorkflowSteps, ToldRow, JobRow
<1>3. feedbackFile' \in Feedbacks
    BY <1>1 DEF JobRunsTypes
<1>4. JobRunsTypes'
    BY <1>2, <1>3 DEF JobRunsTypes, RunRow, JobRow, ToldRow
<1>5. ASSUME NEW feedback, feedback \in {jobRow.told.feedback, feedbackFile, NoFeedback}
      PROVE  TaskTold(feedback)'
    <2>1. TaskTold(feedback)
        BY <1>1, <1>5 DEF TaskTold, JobRunsInv
    <2> QED BY <2>1, StillTold
<1>6. PICK f1, f2 : f1 = feedbackFile' /\ f2 = jobRow'.told.feedback
    OBVIOUS
<1>7. TaskTold(f1)' /\ TaskTold(f2)'
    BY <1>5, <1>6
<1>8. TaskTold(feedbackFile)' /\ TaskTold(jobRow.told.feedback)'
    BY <1>6, <1>7
<1>9. \A k \in TaskIds : TaskFits(qgisTasks[k])'
    BY <1>2 DEF TaskFits
<1> QED BY <1>4, <1>8, <1>9 DEF JobRunsInv

\* A step of the worker that leaves the tasks alone.
LEMMA QuietTasks ==
    ASSUME JobRunsTypes, JobRunsInv, UNCHANGED <<jobKind, qgisTasks>>
    PROVE  /\ TasksGoOn /\ qgisTasks' \in [TaskIds -> TaskRow]
           /\ \A k \in TaskIds : TaskFits(qgisTasks'[k])
           /\ Unborn' = Unborn
    BY DEF TasksGoOn, Alive, JobRunsTypes, JobRunsInv, TaskFits, Unborn

\* Where the worker goes, and nothing else of what it knows.
LEMMA Goes ==
    ASSUME JobRunsTypes, NEW at \in {"start", "prepare", "launch", "record", "wait", "read", "hook",
                                     "fail", "over", "dead"}, GoesTo(at)
    PROVE  /\ jobRun' \in RunRow /\ jobRun'.at = at
           /\ jobRun'.tempdir = jobRun.tempdir /\ jobRun'.attempts = jobRun.attempts
           /\ jobRun'.task = jobRun.task /\ jobRun'.exit = jobRun.exit
           /\ jobRun'.unstopped = jobRun.unstopped
    BY DEF GoesTo, JobRunsTypes, RunRow

LEMMA RowNow ==
    ASSUME JobRunsTypes
    PROVE  jobRow \in JobRow /\ jobRow.told \in ToldRow /\ jobRun \in RunRow
    BY DEF JobRunsTypes, JobRow, ToldRow, RunRow

\* A step of the worker that is all about where it goes.
LEMMA MovesKeep ==
    ASSUME JobRunsTypes, JobRunsInv, NEW at \in {"start", "launch", "fail", "dead", "over"},
           GoesTo(at), UNCHANGED <<jobKind, qgisTasks, feedbackFile, jobRow>>,
           jobRun.at \notin {"over", "dead"}, at \in {"start", "launch"} => BeforeTask,
           at \in {"dead", "over"} => ~RowExists,
           jobRun.at = "wait" => ~Alive(jobRun.task) \/ ~RowExists
    PROVE  JobRunsTypes' /\ JobRunsInv'
<1>1. /\ jobRun' \in RunRow /\ jobRun'.at = at /\ jobRun'.attempts = jobRun.attempts
      /\ jobRun'.task = jobRun.task /\ jobRun'.exit = jobRun.exit /\ jobRun'.unstopped = jobRun.unstopped
    BY Goes
<1>2. NothingYet'
    BY <1>1, QuietTasks DEF JobRunsInv, NothingYet, BeforeTask
<1>3. Recorded'
    BY <1>1 DEF JobRunsInv, Recorded, RowExists
<1>4. LeftAlone'
    <2>1. jobRow.container # 0 =>
             /\ RowExists /\ jobRun.at \in {"wait", "read", "hook", "fail"}
             /\ jobRow.container = jobRun.task
        BY RowNow DEF JobRunsInv, NothingYet, Recorded, BeforeTask, RunRow
    <2>2. \A k : Alive(k)' <=> Alive(k)
        BY DEF Alive
    <2> QED BY <1>1, <2>1, <2>2 DEF JobRunsInv, LeftAlone
<1>5. ExitKnown'
    BY <1>1 DEF JobRunsInv, ExitKnown
<1>6. RowTells'
    BY <1>1 DEF JobRunsInv, RowTells, RowExists, HookReads, Outputs, Stage, WorkflowSteps
<1> QED BY <1>1, <1>2, <1>3, <1>4, <1>5, <1>6, QuietTasks, RowNow, WorkerKeeps

LEMMA Telling ==
    ASSUME NEW origin \in {"none", "container", "worker_wrapper"}, NEW error \in ToldErrors,
           NEW feedback \in Feedbacks
    PROVE  /\ Told(origin, error, feedback) \in ToldRow
           /\ Told(origin, error, feedback).origin = origin
           /\ Told(origin, error, feedback).error = error
           /\ Told(origin, error, feedback).feedback = feedback
    BY DEF Told, ToldRow

LEMMA ConstructKeeps ==
    ASSUME JobRunsTypes, JobRunsInv, ConstructJobRun
    PROVE  JobRunsTypes' /\ JobRunsInv'
<1>1. jobRun.at = "construct" /\ UNCHANGED <<jobKind, qgisTasks, feedbackFile>>
    BY DEF ConstructJobRun
<1>2. CASE ~RowExists
    BY <1>1, <1>2, MovesKeep DEF ConstructJobRun
<1>3. CASE RowExists
    <2>1. /\ jobRun' \in RunRow /\ jobRun'.at = "start"
          /\ jobRun'.attempts = jobRun.attempts /\ jobRun'.task = jobRun.task
          /\ jobRun'.exit = jobRun.exit /\ jobRun'.unstopped = jobRun.unstopped
        <3>1. CASE jobRun' = [jobRun EXCEPT !.at = "start", !.tempdir = TRUE]
            BY <3>1, RowNow DEF RunRow
        <3>2. CASE GoesTo("start")
            BY <3>2, Goes
        <3> QED BY <1>3, <3>1, <3>2 DEF ConstructJobRun
    <2>2. PICK row \in JobRow :
             /\ row = jobRow' /\ row.container = jobRow.container /\ row.status \in {jobRow.status, "failed"}
             /\ \/ row.told = jobRow.told
                \/ row.told.origin = "worker_wrapper" /\ row.told.feedback = NoFeedback
        <3>1. CASE jobRow' = jobRow
            BY <3>1, RowNow
        <3>2. CASE jobRow' = [jobRow EXCEPT !.status = "failed",
                                            !.told = Told("worker_wrapper", "none", NoFeedback)]
            <4>1. NoFeedback \in Feedbacks
                BY WorkflowsAreSequences DEF NoFeedback, Feedbacks, Failures, JobRunsTypes
            <4>2. PICK told \in ToldRow : /\ told = Told("worker_wrapper", "none", NoFeedback)
                                          /\ told.origin = "worker_wrapper" /\ told.feedback = NoFeedback
                BY <4>1, Telling DEF ToldErrors
            <4>3. PICK row : row = [jobRow EXCEPT !.status = "failed", !.told = told]
                OBVIOUS
            <4>4. row \in JobRow /\ row.container = jobRow.container /\ row.status = "failed" /\ row.told = told
                BY <4>3, RowNow DEF JobRow
            <4> QED BY <3>2, <4>2, <4>3, <4>4
        <3> QED BY <1>3, <3>1, <3>2 DEF ConstructJobRun
    <2>3. NothingYet'
        BY <1>1, <2>1, <2>2, QuietTasks DEF JobRunsInv, NothingYet, BeforeTask
    <2>4. Recorded'
        BY <1>1, <1>3, <2>1, <2>2 DEF JobRunsInv, Recorded, RowExists
    <2>5. LeftAlone' /\ ExitKnown'
        BY <1>1, <2>1 DEF JobRunsInv, LeftAlone, ExitKnown
    <2>6. RowTells'
        BY <1>1, <2>1, <2>2 DEF JobRunsInv, RowTells, Recorded, RowExists, NoFeedback
    <2> QED BY <1>1, <2>1, <2>2, <2>3, <2>4, <2>5, <2>6, QuietTasks, WorkerKeeps
<1> QED BY <1>2, <1>3

LEMMA StartRunKeeps ==
    ASSUME JobRunsTypes, JobRunsInv, StartRun
    PROVE  JobRunsTypes' /\ JobRunsInv'
<1>1. jobRun.at = "start" /\ UNCHANGED <<jobKind, qgisTasks, feedbackFile>>
    BY DEF StartRun
<1>2. CASE ~RowExists
    BY <1>1, <1>2, MovesKeep DEF StartRun
<1>3. CASE RowExists
    <2>1. /\ jobRun' \in RunRow /\ jobRun'.at = "prepare"
          /\ jobRun'.attempts = jobRun.attempts /\ jobRun'.task = jobRun.task
          /\ jobRun'.exit = jobRun.exit /\ jobRun'.unstopped = jobRun.unstopped
        BY <1>3, Goes DEF StartRun
    <2>2. PICK row \in JobRow : /\ row = jobRow' /\ row.container = jobRow.container
                                /\ row.status = "started" /\ row.told = jobRow.told
        BY <1>3, RowNow DEF StartRun, JobRow
    <2>3. NothingYet'
        BY <1>1, <2>1, <2>2, QuietTasks DEF JobRunsInv, NothingYet, BeforeTask
    <2>4. Recorded'
        BY <1>1, <1>3, <2>1, <2>2 DEF JobRunsInv, Recorded, RowExists
    <2>5. LeftAlone' /\ ExitKnown'
        BY <1>1, <2>1 DEF JobRunsInv, LeftAlone, ExitKnown
    <2>6. RowTells'
        BY <1>1, <2>1, <2>2 DEF JobRunsInv, RowTells, Recorded, RowExists
    <2> QED BY <1>1, <2>1, <2>2, <2>3, <2>4, <2>5, <2>6, QuietTasks, WorkerKeeps
<1> QED BY <1>2, <1>3

\* A launch makes a task of one that was none.
LEMMA Launches ==
    ASSUME JobRunsTypes, JobRunsInv, Unborn # {}, qgisTasks' = Launched, jobKind' = jobKind
    PROVE  /\ NextTask \in TaskIds /\ qgisTasks[NextTask].state = "unborn"
           /\ qgisTasks'[NextTask].state # "unborn"
           /\ \A k \in TaskIds \ {NextTask} : qgisTasks'[k] = qgisTasks[k]
           /\ TasksGoOn /\ qgisTasks' \in [TaskIds -> TaskRow]
           /\ \A k \in TaskIds : TaskFits(qgisTasks'[k])
<1>1. PICK k \in TaskIds : k = NextTask /\ qgisTasks[k].state = "unborn"
    BY NextIsUnborn DEF Unborn
<1>2. PICK task \in TaskRow :
         /\ qgisTasks' = [qgisTasks EXCEPT ![k] = task]
         /\ task.state \in {"running", "stopped"}
         /\ task.done = qgisTasks[k].done /\ task.raised = qgisTasks[k].raised
    <2>1. CASE IsValid(WorkflowSteps)
        <3>1. PICK task : task = [qgisTasks[k] EXCEPT !.state = "running"]
            OBVIOUS
        <3>2. /\ task \in TaskRow /\ task.state = "running"
              /\ task.done = qgisTasks[k].done /\ task.raised = qgisTasks[k].raised
            BY ZenonT(60), <3>1 DEF JobRunsTypes, TaskRow
        <3>3. qgisTasks' = [qgisTasks EXCEPT ![k] = task]
            BY <1>1, <2>1, <3>1 DEF Launched
        <3> QED BY <3>2, <3>3
    <2>2. CASE ~IsValid(WorkflowSteps)
        <3>1. PICK task : task = [qgisTasks[k] EXCEPT !.state = "stopped", !.exit = "error"]
            OBVIOUS
        <3>2. /\ task \in TaskRow /\ task.state = "stopped"
              /\ task.done = qgisTasks[k].done /\ task.raised = qgisTasks[k].raised
            BY ZenonT(60), <3>1 DEF JobRunsTypes, TaskRow
        <3>3. qgisTasks' = [qgisTasks EXCEPT ![k] = task]
            BY <1>1, <2>2, <3>1 DEF Launched
        <3> QED BY <3>2, <3>3
    <2> QED BY <2>1, <2>2
<1>3. /\ qgisTasks'[k] = task /\ \A l \in TaskIds \ {k} : qgisTasks'[l] = qgisTasks[l]
      /\ qgisTasks' \in [TaskIds -> TaskRow]
    BY <1>2 DEF JobRunsTypes
<1>4. TasksGoOn
    BY <1>1, <1>3 DEF TasksGoOn, Alive
<1>5. \A l \in TaskIds : TaskFits(qgisTasks'[l])
    BY <1>2, <1>3 DEF JobRunsInv, TaskFits
<1> QED BY <1>1, <1>2, <1>3, <1>4, <1>5

\* The worker launches, and records what it has launched, tries again or fails.
LEMMA LaunchKeeps ==
    ASSUME JobRunsTypes, JobRunsInv, RunContainer \/ RunTask
    PROVE  JobRunsTypes' /\ JobRunsInv'
<1>1. jobRun.at = "launch" /\ UNCHANGED <<jobKind, feedbackFile, jobRow>>
    BY DEF RunContainer, RunTask
<1>2. /\ jobRow.container = 0 /\ jobRun.task = 0 /\ jobRun.attempts < MaxAttempts
      /\ jobKind.executor = "docker" => Unborn # {}
      /\ jobRun.exit \in {"null", "timeout"} /\ jobRow.status # "finished"
      /\ jobRun \in RunRow /\ jobRow \in JobRow
    <2>1. NothingYet /\ BeforeTask
        BY <1>1 DEF JobRunsInv, BeforeTask
    <2>2. 1 \in TaskIds
        BY JobRunsAssumption DEF TaskIds
    <2>3. /\ jobRow.container = 0 /\ jobRun.task = 0 /\ jobRun.attempts < MaxAttempts
          /\ jobKind.executor = "docker" => Unborn # {}
        BY <2>1, <2>2 DEF NothingYet
    <2>4. jobRun.exit \in {"null", "timeout"} /\ jobRow.status # "finished"
        BY <1>1, <2>3 DEF JobRunsInv, ExitKnown, Recorded
    <2> QED BY <2>3, <2>4, RowNow
<1>3. \/ jobKind.executor = "ecs" /\ Unborn' \in {Unborn, Unborn'}
      \/ jobKind.executor = "docker" /\ jobRun'.at # "launch"
    <2>1. CASE RunTask
        BY <2>1 DEF RunTask
    <2>2. CASE RunContainer
        BY <1>2, <2>2 DEF RunContainer, GoesTo, RunRow
    <2> QED BY <2>1, <2>2
<1>4. /\ TasksGoOn /\ qgisTasks' \in [TaskIds -> TaskRow]
      /\ \A k \in TaskIds : TaskFits(qgisTasks'[k])
    <2>1. CASE UNCHANGED qgisTasks
        BY <1>1, <2>1, QuietTasks
    <2>2. CASE Unborn # {} /\ qgisTasks' = Launched
        BY <1>1, <2>2, Launches
    <2> QED BY <1>2, <2>1, <2>2 DEF RunContainer, RunTask
<1>5. /\ jobRun' \in RunRow /\ jobRun'.exit = jobRun.exit
      /\ \/ jobRun'.at = "fail" /\ jobRun'.task = 0
         \/ jobRun'.at = "launch" /\ jobRun'.task = 0 /\ jobRun'.attempts < MaxAttempts
         \/ /\ jobRun'.at = "record" /\ jobRun'.task # 0 /\ jobRun'.task \in TaskIds
            /\ qgisTasks'[jobRun'.task].state # "unborn"
    <2>1. CASE /\ Unborn # {} /\ qgisTasks' = Launched
               /\ jobRun' = [jobRun EXCEPT !.at = "record", !.task = NextTask]
        <3>1. NextTask \in TaskIds /\ NextTask # 0 /\ NextTask \in 0..MaxTasks
            BY <2>1, NextIsUnborn, JobRunsAssumption DEF TaskIds
        <3>2. jobRun' \in RunRow /\ jobRun'.exit = jobRun.exit /\ jobRun'.at = "record" /\ jobRun'.task = NextTask
            BY <1>2, <2>1, <3>1 DEF RunRow
        <3> QED BY <1>1, <2>1, <3>1, <3>2, Launches
    <2>2. CASE GoesTo("fail")
        BY <1>2, <2>2, Goes
    <2>3. CASE jobRun' = [jobRun EXCEPT !.attempts = @ + 1,
                                        !.at = IF jobRun.attempts + 1 = MaxAttempts THEN "fail" ELSE @]
        <3>1. jobRun.attempts + 1 \in 0..MaxAttempts
            BY <1>2, JobRunsAssumption DEF RunRow
        <3>2. /\ jobRun'.attempts = jobRun.attempts + 1 /\ jobRun'.task = 0 /\ jobRun'.exit = jobRun.exit
              /\ jobRun'.at = (IF jobRun.attempts + 1 = MaxAttempts THEN "fail" ELSE "launch")
              /\ jobRun' \in RunRow
            BY <1>1, <1>2, <2>3, <3>1 DEF RunRow
        <3> QED BY <1>2, <3>1, <3>2, JobRunsAssumption
    <2> QED BY <1>2, <2>1, <2>2, <2>3 DEF RunContainer, RunTask
<1>6. jobKind.executor \in {"docker", "ecs"}
    BY JobRunsAssumption DEF JobRunsTypes
<1>7. NothingYet'
    BY <1>1, <1>2, <1>3, <1>5, <1>6 DEF NothingYet, BeforeTask
<1>8. Recorded'
    BY <1>1, <1>2, <1>5 DEF Recorded, RowExists
<1>9. LeftAlone' /\ ExitKnown'
    BY <1>1, <1>2, <1>5 DEF LeftAlone, ExitKnown
<1>10. RowTells'
    BY <1>1, <1>2, <1>5 DEF JobRunsInv, RowTells, RowExists
<1> QED BY <1>1, <1>2, <1>4, <1>5, <1>7, <1>8, <1>9, <1>10, WorkerKeeps

LEMMA RecordKeeps ==
    ASSUME JobRunsTypes, JobRunsInv, RecordTask
    PROVE  JobRunsTypes' /\ JobRunsInv'
<1>1. jobRun.at = "record" /\ UNCHANGED <<jobKind, qgisTasks, feedbackFile>>
    BY DEF RecordTask
<1>2. CASE ~RowExists
    BY <1>1, <1>2, MovesKeep DEF RecordTask
<1>3. CASE RowExists
    <2>1. /\ jobRun' \in RunRow /\ jobRun'.at = "wait"
          /\ jobRun'.attempts = jobRun.attempts /\ jobRun'.task = jobRun.task
          /\ jobRun'.exit = jobRun.exit /\ jobRun'.unstopped = jobRun.unstopped
        BY <1>3, Goes DEF RecordTask
    <2>2. PICK row \in JobRow : /\ row = jobRow' /\ row.container = jobRun.task
                                /\ row.status = jobRow.status /\ row.told = jobRow.told
        BY <1>3, RowNow DEF RecordTask, JobRow, RunRow
    <2>3. NothingYet'
        BY <2>1 DEF NothingYet, BeforeTask
    <2>4. Recorded'
        BY <1>1, <1>3, <2>1, <2>2 DEF JobRunsInv, Recorded, RowExists
    <2>5. LeftAlone' /\ ExitKnown'
        BY <1>1, <2>1 DEF JobRunsInv, LeftAlone, ExitKnown
    <2>6. RowTells'
        BY <1>1, <2>1, <2>2 DEF JobRunsInv, RowTells, Recorded, RowExists
    <2> QED BY <1>1, <2>1, <2>2, <2>3, <2>4, <2>5, <2>6, QuietTasks, WorkerKeeps
<1> QED BY <1>2, <1>3

\* The worker has seen the end of the task, has stopped it, or could not.
LEMMA WaitKeeps ==
    ASSUME JobRunsTypes, JobRunsInv, jobRun.at = "wait", UNCHANGED <<jobKind, feedbackFile, jobRow>>,
           TasksGoOn, qgisTasks' \in [TaskIds -> TaskRow], \A k \in TaskIds : TaskFits(qgisTasks'[k]),
           jobRun' \in RunRow, jobRun'.task = jobRun.task, jobRun'.at \in {"read", "fail"},
           jobRun'.at = "read" => jobRun'.exit # "null",
           jobRun'.exit \notin {"null", "timeout"} =>
              qgisTasks'[jobRun.task].state = "stopped" /\ qgisTasks'[jobRun.task].exit = jobRun'.exit,
           \/ jobRun'.unstopped \/ qgisTasks'[jobRun.task].state = "stopped"
           \/ qgisTasks'[jobRun.task].stopping
    PROVE  JobRunsTypes' /\ JobRunsInv'
<1>1. jobRun.task # 0 /\ jobRun.task \in TaskIds /\ jobRow.status # "finished"
    BY RowNow, JobRunsAssumption DEF JobRunsInv, Recorded, RunRow, TaskIds
<1>2. NothingYet'
    BY DEF NothingYet, BeforeTask
<1>3. Recorded'
    BY <1>1 DEF JobRunsInv, Recorded, RowExists, TasksGoOn
<1>4. LeftAlone' /\ ExitKnown'
    BY <1>1 DEF JobRunsInv, Recorded, LeftAlone, ExitKnown, Alive
<1>5. RowTells'
    BY <1>1 DEF JobRunsInv, RowTells, RowExists
<1> QED BY <1>2, <1>3, <1>4, <1>5, RowNow, WorkerKeeps

LEMMA SeeStoppedKeeps ==
    ASSUME JobRunsTypes, JobRunsInv, SeeTaskStopped
    PROVE  JobRunsTypes' /\ JobRunsInv'
<1>1. /\ jobRun.at = "wait" /\ qgisTasks[jobRun.task].state = "stopped"
      /\ UNCHANGED <<jobKind, qgisTasks, feedbackFile, jobRow>>
    BY DEF SeeTaskStopped
<1>2. jobRun.task \in TaskIds /\ ~Alive(jobRun.task)
    BY <1>1, RowNow, JobRunsAssumption DEF JobRunsInv, Recorded, RunRow, TaskIds, Alive
<1>3. CASE ~RowExists /\ GoesTo("dead")
    BY <1>1, <1>2, <1>3, MovesKeep
<1>4. CASE GoesTo("fail")
    BY <1>1, <1>2, <1>4, MovesKeep
<1>5. CASE \E exit : /\ exit = qgisTasks[jobRun.task].exit /\ exit # "null"
                     /\ jobRun' = [jobRun EXCEPT !.at = "read", !.exit = exit]
    <2>1. PICK exit : /\ exit = qgisTasks[jobRun.task].exit /\ exit # "null"
                      /\ jobRun' = [jobRun EXCEPT !.at = "read", !.exit = exit]
        BY <1>5
    <2>2. exit \in {"ok", "error", "sigkill"}
        BY <1>2, <2>1 DEF JobRunsTypes, TaskRow
    <2>3. jobRun' \in RunRow /\ jobRun'.at = "read" /\ jobRun'.exit = exit /\ jobRun'.task = jobRun.task
        BY <2>1, <2>2, RowNow DEF RunRow
    <2> QED BY <1>1, <1>2, <2>1, <2>2, <2>3, QuietTasks, WaitKeeps
<1> QED BY <1>3, <1>4, <1>5 DEF SeeTaskStopped

LEMMA TimeOutKeeps ==
    ASSUME JobRunsTypes, JobRunsInv, TimeOut \/ WaitFails
    PROVE  JobRunsTypes' /\ JobRunsInv'
<1>1. /\ jobRun.at = "wait" /\ Alive(jobRun.task) /\ UNCHANGED <<jobKind, feedbackFile, jobRow>>
    BY DEF TimeOut, WaitFails
<1>2. jobRun.task \in TaskIds
    BY <1>1, RowNow, JobRunsAssumption DEF JobRunsInv, Recorded, RunRow, TaskIds
<1>3. jobRun.exit \in {"null", "timeout"}
    BY <1>1 DEF JobRunsInv, ExitKnown, Alive
<1>4. CASE ~RowExists /\ GoesTo("dead") /\ UNCHANGED qgisTasks
    BY <1>1, <1>4, MovesKeep
<1>5. CASE jobRun' = [jobRun EXCEPT !.at = "fail", !.unstopped = TRUE] /\ UNCHANGED qgisTasks
    <2>1. /\ jobRun' \in RunRow /\ jobRun'.at = "fail" /\ jobRun'.unstopped = TRUE
          /\ jobRun'.exit = jobRun.exit /\ jobRun'.task = jobRun.task
        BY <1>5, RowNow DEF RunRow
    <2> QED BY <1>1, <1>3, <1>5, <2>1, QuietTasks, WaitKeeps
<1>6. CASE StopTask /\ jobRun' = [jobRun EXCEPT !.at = "read", !.exit = "timeout"]
    <2>1. jobRun' \in RunRow /\ jobRun'.at = "read" /\ jobRun'.exit = "timeout" /\ jobRun'.task = jobRun.task
        BY <1>6, RowNow DEF RunRow
    <2>2. PICK old \in TaskRow : old = qgisTasks[jobRun.task] /\ TaskFits(old)
        BY <1>2 DEF JobRunsTypes, JobRunsInv
    <2>3. PICK task \in TaskRow :
             /\ qgisTasks' = [qgisTasks EXCEPT ![jobRun.task] = task]
             /\ TaskGoes(old, task) /\ (task.state = "stopped" \/ task.stopping)
        <3>1. CASE jobKind.executor = "ecs"
            <4>1. PICK task : task = [old EXCEPT !.stopping = TRUE]
                OBVIOUS
            <4>2. task \in TaskRow /\ task.state = old.state /\ task.stopping
                  /\ task.done = old.done /\ task.raised = old.raised
                BY <2>2, <4>1 DEF TaskRow
            <4>3. TaskGoes(old, task)
                BY <1>1, <2>2, <4>2 DEF TaskGoes, TaskFits, Alive
            <4> QED BY <1>6, <2>2, <3>1, <4>1, <4>2, <4>3 DEF StopTask
        <3>2. CASE jobKind.executor # "ecs"
            <4>1. TaskGoes(old, Killed(old, "sigkill")) /\ Killed(old, "sigkill").state = "stopped"
                BY <2>2, KilledTask DEF TaskGoes
            <4> QED BY <1>6, <2>2, <3>2, <4>1 DEF StopTask, TaskGoes
        <3> QED BY <3>1, <3>2
    <2>4. /\ TasksGoOn /\ qgisTasks' \in [TaskIds -> TaskRow] /\ qgisTasks'[jobRun.task] = task
          /\ \A l \in TaskIds \ {jobRun.task} : qgisTasks'[l] = qgisTasks[l]
        BY <1>1, <1>2, <2>2, <2>3, OneTask DEF TaskGoes
    <2>5. \A l \in TaskIds : TaskFits(qgisTasks'[l])
        BY <2>3, <2>4 DEF TaskGoes, JobRunsInv
    <2> QED BY <1>1, <2>1, <2>3, <2>4, <2>5, WaitKeeps
<1> QED BY <1>4, <1>5, <1>6 DEF TimeOut, WaitFails

\* The feedback that is read tells what it is of.
LEMMA ReadTells ==
    ASSUME JobRunsTypes, JobRunsInv
    PROVE  LET told == FeedbackRead IN
           /\ told \in ToldRow /\ told.feedback \in {NoFeedback, feedbackFile}
           /\ told.origin = "container" /\ told.feedback.state = "whole" =>
                 told.feedback.raised # "none" /\ told.error = ErrorType(told.feedback.raised)
           /\ \/ told.origin = "worker_wrapper" \/ told.error = "TIMEOUT" \/ jobRun.exit = "sigkill"
              \/ told.feedback.state = "whole" /\ told.feedback.raised # "none"
              \/ told.origin = "none" /\ jobRun.exit # "timeout"
           /\ told.origin = "none" => told.feedback.state = "whole" /\ told.feedback.raised = "none"
<1>1. /\ NoFeedback \in Feedbacks /\ NoFeedback.state = "absent" /\ feedbackFile \in Feedbacks
      /\ {"none", "DOCKER_ENGINE_SIGKILL", "TIMEOUT"} \subseteq ToldErrors
    BY WorkflowsAreSequences DEF NoFeedback, Feedbacks, Failures, JobRunsTypes, ToldErrors
<1>2. CASE jobRun.exit = "sigkill"
    <2>1. FeedbackRead = Told("container", "DOCKER_ENGINE_SIGKILL", NoFeedback)
        BY <1>2 DEF FeedbackRead
    <2> QED BY <1>1, <1>2, <2>1, Telling
<1>3. CASE jobRun.exit = "timeout"
    <2>1. FeedbackRead = Told("container", "TIMEOUT", NoFeedback)
        BY <1>3 DEF FeedbackRead
    <2> QED BY <1>1, <2>1, Telling
<1>4. CASE jobRun.exit \notin {"sigkill", "timeout"} /\ feedbackFile.state # "whole"
    <2>1. FeedbackRead = Told("worker_wrapper", "none", NoFeedback)
        BY <1>4 DEF FeedbackRead
    <2> QED BY <1>1, <2>1, Telling
<1>5. CASE /\ jobRun.exit \notin {"sigkill", "timeout"} /\ feedbackFile.state = "whole"
           /\ feedbackFile.raised # "none"
    <2>1. FeedbackRead = Told("container", ErrorType(feedbackFile.raised), feedbackFile)
        BY <1>5 DEF FeedbackRead
    <2>2. ErrorType(feedbackFile.raised) \in ToldErrors
        BY DEF ErrorType, ToldErrors
    <2> QED BY <1>1, <1>5, <2>1, <2>2, Telling
<1>6. CASE /\ jobRun.exit \notin {"sigkill", "timeout"} /\ feedbackFile.state = "whole"
           /\ feedbackFile.raised = "none"
    <2>1. FeedbackRead = Told("none", "none", feedbackFile)
        BY <1>6 DEF FeedbackRead
    <2> QED BY <1>1, <1>6, <2>1, Telling
<1> QED BY <1>2, <1>3, <1>4, <1>5, <1>6

\* What a row becomes whose status and telling change.
LEMMA RowBecomes ==
    ASSUME JobRunsTypes, NEW told \in ToldRow,
           NEW status \in {"queued", "started", "failed", "finished", "deleted"},
           jobRow' = [jobRow EXCEPT !.told = told, !.status = status]
    PROVE  /\ jobRow' \in JobRow /\ jobRow'.container = jobRow.container
           /\ jobRow'.told = told /\ jobRow'.status = status
<1>1. PICK row : row = [jobRow EXCEPT !.told = told, !.status = status]
    OBVIOUS
<1>2. row \in JobRow /\ row.container = jobRow.container /\ row.told = told /\ row.status = status
    BY <1>1, RowNow DEF JobRow
<1>3. row = jobRow'
    BY <1>1
<1> QED BY <1>2, <1>3

\* The outputs are there, and those that the worker looks for, as they were.
LEMMA OutputsStay ==
    ASSUME jobKind' = jobKind, NEW feedback
    PROVE  HookReads' = HookReads /\ Outputs(feedback)' = Outputs(feedback)
<1>1. HookReads' = HookReads
    BY DEF HookReads
<1>2. WorkflowSteps' = WorkflowSteps
    BY DEF WorkflowSteps
<1>3. \A i : Stage(feedback, i)' = Stage(feedback, i)
    BY DEF Stage
<1>4. Outputs(feedback)' = Outputs(feedback)
    BY <1>2, <1>3 DEF Outputs
<1> QED BY <1>1, <1>4

LEMMA ReadKeeps ==
    ASSUME JobRunsTypes, JobRunsInv, ReadFeedback
    PROVE  JobRunsTypes' /\ JobRunsInv'
<1>1. jobRun.at = "read" /\ UNCHANGED <<jobKind, qgisTasks, feedbackFile>>
    BY DEF ReadFeedback
<1>2. CASE ~RowExists
    BY <1>1, <1>2, MovesKeep DEF ReadFeedback
<1>3. CASE RowExists
    <2>1. PICK told : told = FeedbackRead
        OBVIOUS
    <2>2. /\ told \in ToldRow /\ told.feedback \in {NoFeedback, feedbackFile}
          /\ told.origin = "container" /\ told.feedback.state = "whole" =>
                told.feedback.raised # "none" /\ told.error = ErrorType(told.feedback.raised)
          /\ \/ told.origin = "worker_wrapper" \/ told.error = "TIMEOUT" \/ jobRun.exit = "sigkill"
             \/ told.feedback.state = "whole" /\ told.feedback.raised # "none"
             \/ told.origin = "none" /\ jobRun.exit # "timeout"
          /\ told.origin = "none" => told.feedback.state = "whole" /\ told.feedback.raised = "none"
        BY <2>1, ReadTells
    <2>3. PICK failed \in BOOLEAN : failed <=> jobRun.exit # "ok" \/ told.origin # "none"
        OBVIOUS
    <2>4. /\ jobRow' = [jobRow EXCEPT !.told = told, !.status = IF failed THEN "failed" ELSE @]
          /\ GoesTo(IF failed THEN "over" ELSE "hook")
        BY <1>3, <2>1, <2>3 DEF ReadFeedback, HasFailed
    <2>5. /\ jobRun' \in RunRow /\ jobRun'.at = IF failed THEN "over" ELSE "hook"
          /\ jobRun'.task = jobRun.task /\ jobRun'.exit = jobRun.exit
          /\ jobRun'.unstopped = jobRun.unstopped
        BY <2>4, Goes
    <2>6. PICK row \in JobRow : /\ row = jobRow' /\ row.container = jobRow.container /\ row.told = told
                                /\ row.status = IF failed THEN "failed" ELSE jobRow.status
        <3>1. PICK status \in {"queued", "started", "failed", "finished", "deleted"} :
                 status = IF failed THEN "failed" ELSE jobRow.status
            BY RowNow DEF JobRow
        <3>2. jobRow' = [jobRow EXCEPT !.told = told, !.status = status]
            BY <2>4, <3>1
        <3> QED BY <2>2, <3>1, <3>2, RowBecomes
    <2>7. NothingYet'
        BY <2>5 DEF NothingYet, BeforeTask
    <2>8. Recorded'
        BY <1>1, <1>3, <2>5, <2>6 DEF JobRunsInv, Recorded, RowExists
    <2>9. LeftAlone'
        <3>1. \A k : Alive(k)' <=> Alive(k)
            BY <1>1 DEF Alive
        <3> QED BY <1>1, <2>5, <2>6, <3>1 DEF JobRunsInv, LeftAlone
    <2>10. ExitKnown'
        BY <1>1, <2>5 DEF JobRunsInv, ExitKnown
    <2>11. jobRun.exit # "null" /\ jobRow.status # "finished"
        BY <1>1 DEF JobRunsInv, ExitKnown, Recorded
    <2>12. RowTells'
        BY <1>3, <2>2, <2>3, <2>5, <2>6, <2>11 DEF RowTells, RowExists
    <2> QED BY <1>1, <2>2, <2>5, <2>6, <2>7, <2>8, <2>9, <2>10, <2>12, QuietTasks, WorkerKeeps
<1> QED BY <1>2, <1>3

LEMMA FinishKeeps ==
    ASSUME JobRunsTypes, JobRunsInv, FinishRun
    PROVE  JobRunsTypes' /\ JobRunsInv'
<1>1. jobRun.at = "hook" /\ UNCHANGED <<jobKind, qgisTasks>>
    BY DEF FinishRun
<1>2. CASE GoesTo("fail") /\ UNCHANGED <<jobRow, feedbackFile>>
    BY <1>1, <1>2, MovesKeep
<1>3. CASE /\ RowExists /\ HookReads \subseteq Outputs(jobRow.told.feedback)
           /\ jobRow' = [jobRow EXCEPT !.status = "finished"]
           /\ jobRun' = [jobRun EXCEPT !.at = "over", !.tempdir = FALSE]
           /\ feedbackFile' = NoFeedback
    <2>1. /\ jobRun' \in RunRow /\ jobRun'.at = "over" /\ jobRun'.task = jobRun.task
          /\ jobRun'.exit = jobRun.exit /\ jobRun'.unstopped = jobRun.unstopped
        BY <1>3, RowNow DEF RunRow
    <2>2. PICK row \in JobRow : /\ row = jobRow' /\ row.container = jobRow.container
                                /\ row.told = jobRow.told /\ row.status = "finished"
        BY <1>3, RowNow DEF JobRow
    <2>3. NothingYet'
        BY <2>1 DEF NothingYet, BeforeTask
    <2>4. Recorded'
        BY <1>1, <1>3, <2>1, <2>2 DEF JobRunsInv, Recorded, RowExists
    <2>5. LeftAlone'
        <3>1. \A k : Alive(k)' <=> Alive(k)
            BY <1>1 DEF Alive
        <3> QED BY <1>1, <2>1, <2>2, <3>1 DEF JobRunsInv, LeftAlone
    <2>6. ExitKnown'
        BY <1>1, <2>1 DEF JobRunsInv, ExitKnown
    <2>7. (HookReads \subseteq Outputs(jobRow.told.feedback))'
        <3>1. PICK f : f = jobRow.told.feedback /\ f = jobRow'.told.feedback
            BY <2>2
        <3>2. HookReads' \subseteq Outputs(f)'
            BY <1>1, <1>3, <3>1, OutputsStay
        <3> QED BY <3>1, <3>2
    <2>8. RowTells'
        <3>1. /\ jobRow.told.origin = "container" /\ jobRow.told.feedback.state = "whole" =>
                    /\ jobRow.told.feedback.raised # "none"
                    /\ jobRow.told.error = ErrorType(jobRow.told.feedback.raised)
              /\ jobRun.exit = "ok" /\ jobRow.told.feedback.state = "whole"
              /\ jobRow.told.feedback.raised = "none"
            BY <1>1, <1>3 DEF JobRunsInv, RowTells
        <3>2. /\ jobRow'.told.origin = "container" /\ jobRow'.told.feedback.state = "whole" =>
                    /\ jobRow'.told.feedback.raised # "none"
                    /\ jobRow'.told.error = ErrorType(jobRow'.told.feedback.raised)
              /\ jobRun'.exit = "ok" /\ jobRow'.told.feedback.state = "whole"
              /\ jobRow'.told.feedback.raised = "none" /\ jobRow'.status = "finished"
            BY <2>1, <2>2, <3>1
        <3> QED BY <2>1, <2>7, <3>2, Zenon DEF RowTells
    <2> QED BY <1>1, <1>3, <2>1, <2>2, <2>3, <2>4, <2>5, <2>6, <2>8, QuietTasks, WorkerKeeps
<1> QED BY <1>2, <1>3 DEF FinishRun

LEMMA FailKeeps ==
    ASSUME JobRunsTypes, JobRunsInv, FailRun
    PROVE  JobRunsTypes' /\ JobRunsInv'
<1>1. jobRun.at = "fail" /\ UNCHANGED <<jobKind, qgisTasks, feedbackFile>>
    BY DEF FailRun
<1>2. CASE ~RowExists
    BY <1>1, <1>2, MovesKeep DEF FailRun
<1>3. CASE RowExists
    <2>1. /\ jobRun' \in RunRow /\ jobRun'.at = "over" /\ jobRun'.task = jobRun.task
          /\ jobRun'.exit = jobRun.exit /\ jobRun'.unstopped = jobRun.unstopped
        BY <1>3, Goes DEF FailRun
    <2>2. PICK told \in ToldRow : /\ told = Told("worker_wrapper", "none", jobRow.told.feedback)
                                  /\ told.origin = "worker_wrapper" /\ told.feedback = jobRow.told.feedback
        BY RowNow, Telling DEF ToldRow, ToldErrors
    <2>3. PICK row \in JobRow : /\ row = jobRow' /\ row.container = jobRow.container
                                /\ row.told = told /\ row.status = "failed"
        <3>1. jobRow' = [jobRow EXCEPT !.status = "failed", !.told = told]
            BY <1>3, <2>2 DEF FailRun
        <3>2. jobRow' = [jobRow EXCEPT !.told = told, !.status = "failed"]
            BY <3>1, RowNow DEF JobRow
        <3> QED BY <2>2, <3>2, RowBecomes
    <2>4. NothingYet'
        BY <2>1 DEF NothingYet, BeforeTask
    <2>5. Recorded'
        BY <1>1, <1>3, <2>1, <2>3 DEF JobRunsInv, Recorded, RowExists
    <2>6. LeftAlone'
        <3>1. \A k : Alive(k)' <=> Alive(k)
            BY <1>1 DEF Alive
        <3> QED BY <1>1, <2>1, <2>3, <3>1 DEF JobRunsInv, LeftAlone
    <2>7. ExitKnown'
        BY <1>1, <2>1 DEF JobRunsInv, ExitKnown
    <2>8. RowTells'
        BY <2>1, <2>2, <2>3 DEF RowTells
    <2> QED BY <1>1, <2>1, <2>2, <2>3, <2>4, <2>5, <2>6, <2>7, <2>8, QuietTasks, WorkerKeeps
<1> QED BY <1>2, <1>3

LEMMA DeleteJobKeeps ==
    ASSUME JobRunsTypes, JobRunsInv, DeleteJob
    PROVE  JobRunsTypes' /\ JobRunsInv'
<1>1. /\ UNCHANGED <<jobKind, qgisTasks, feedbackFile, jobRun>>
      /\ jobRow' = [status |-> "deleted", container |-> 0, told |-> NothingTold]
    BY DEF DeleteJob
<1>2. NoFeedback \in Feedbacks /\ NoFeedback.state = "absent"
    BY WorkflowsAreSequences DEF NoFeedback, Feedbacks, Failures, JobRunsTypes
<1>3. PICK told \in ToldRow : told = NothingTold /\ told.origin = "none" /\ told.feedback = NoFeedback
    BY <1>2, Telling DEF NothingTold, ToldErrors
<1>4. PICK row \in JobRow : /\ row = jobRow' /\ row.container = 0
                            /\ row.told = told /\ row.status = "deleted"
    <2>1. 0 \in 0..MaxTasks
        BY JobRunsAssumption
    <2> QED BY <1>1, <1>3, <2>1 DEF JobRow
<1>5. NothingYet'
    BY <1>1, <1>4, QuietTasks DEF JobRunsInv, NothingYet, BeforeTask
<1>6. Recorded'
    BY <1>1, <1>4 DEF JobRunsInv, Recorded, RowExists
<1>7. LeftAlone' /\ ExitKnown'
    BY <1>1, <1>4 DEF JobRunsInv, LeftAlone, ExitKnown
<1>8. RowTells'
    BY <1>1, <1>3, <1>4 DEF RowTells, RowExists
<1> QED BY <1>1, <1>3, <1>4, <1>5, <1>6, <1>7, <1>8, QuietTasks, RowNow, WorkerKeeps

LEMMA JobRunsKept == JobRunsSpec => [](JobRunsTypes /\ JobRunsInv)
<1>1. JobRunsInit => JobRunsTypes /\ JobRunsInv
    <2> SUFFICES ASSUME JobRunsInit PROVE JobRunsTypes /\ JobRunsInv
        OBVIOUS
    <2>1. jobKind \in JobKinds /\ Len(WorkflowSteps) \in Nat /\ 0 \in 0..MaxTasks /\ 0 \in 0..MaxAttempts
          /\ 0 < MaxAttempts
        BY WorkflowsAreSequences, JobRunsAssumption DEF JobRunsInit
    <2>2. NoTask \in TaskRow /\ NoTask.state = "unborn" /\ NoTask.raised = "none"
        BY <2>1 DEF NoTask, TaskRow, Failures
    <2>3. NoFeedback \in Feedbacks /\ NoFeedback.state = "absent"
        BY <2>1 DEF NoFeedback, Feedbacks, Failures
    <2>4. PICK told \in ToldRow : told = NothingTold /\ told.origin = "none" /\ told.feedback = NoFeedback
        BY <2>3, Telling DEF NothingTold, ToldErrors
    <2>5. jobRun \in RunRow /\ jobRun.at = "construct" /\ jobRun.attempts = 0 /\ jobRun.task = 0
          /\ jobRun.exit = "null"
        BY <2>1 DEF JobRunsInit, RunRow
    <2>6. jobRow \in JobRow /\ jobRow.status = "queued" /\ jobRow.container = 0 /\ jobRow.told = told
        BY <2>1, <2>4 DEF JobRunsInit, JobRow
    <2>7. JobRunsTypes
        BY <2>1, <2>2, <2>3, <2>5, <2>6 DEF JobRunsInit, JobRunsTypes, RunRow, JobRow, ToldRow
    <2>8. Unborn = TaskIds
        BY <2>2 DEF JobRunsInit, Unborn
    <2>9. \A k \in TaskIds : TaskFits(qgisTasks[k])
        BY <2>2 DEF JobRunsInit, TaskFits
    <2>10. TaskTold(feedbackFile) /\ TaskTold(jobRow.told.feedback)
        BY <2>3, <2>4, <2>6 DEF JobRunsInit, TaskTold
    <2>11. NothingYet /\ Recorded /\ LeftAlone /\ ExitKnown /\ RowTells
        BY <2>1, <2>4, <2>5, <2>6, <2>8
           DEF NothingYet, BeforeTask, Recorded, LeftAlone, ExitKnown, RowTells, RowExists
    <2> QED BY <2>7, <2>9, <2>10, <2>11 DEF JobRunsInv
<1>2. JobRunsTypes /\ JobRunsInv /\ [JobRunsNext]_jobRunVars => JobRunsTypes' /\ JobRunsInv'
    <2> SUFFICES ASSUME JobRunsTypes, JobRunsInv, [JobRunsNext]_jobRunVars
                 PROVE  JobRunsTypes' /\ JobRunsInv'
        OBVIOUS
    <2>1. CASE PrepareRun
        BY <2>1, MovesKeep DEF PrepareRun, BeforeTask
    <2>2. CASE UNCHANGED jobRunVars
        <3>1. UNCHANGED <<jobKind, qgisTasks, feedbackFile, jobRun, jobRow>>
            BY <2>2 DEF jobRunVars
        <3>2. TaskTold(feedbackFile)
            BY DEF JobRunsInv
        <3>3. PICK f : f = feedbackFile
            OBVIOUS
        <3>4. TasksGoOn
            BY <3>1, QuietTasks
        <3>5. TaskTold(f)'
            BY <3>1, <3>2, <3>3, <3>4, StillTold
        <3> QED BY <3>1, <3>3, <3>4, <3>5, QuietTasks, TasksKeep DEF JobRunsTypes
    <2> QED BY <2>1, <2>2, TaskActionsKeep, ConstructKeeps, StartRunKeeps, LaunchKeeps, RecordKeeps,
               SeeStoppedKeeps, TimeOutKeeps, ReadKeeps, FinishKeeps, FailKeeps, DeleteJobKeeps
            DEF JobRunsNext
<1> QED BY <1>1, <1>2, PTL DEF JobRunsSpec

\* What the row tells is what a task did.
LEMMA ResultsTold == ASSUME JobRunsTypes, JobRunsInv PROVE ResultTold
<1>1. JobRunsTypeOK
    BY RowNow DEF JobRunsTypeOK, JobRunsTypes, TaskRow, Feedbacks
<1>2. PICK told : told = jobRow.told
    OBVIOUS
<1>3. /\ told.feedback \in Feedbacks /\ Len(WorkflowSteps) \in Nat
      /\ DOMAIN WorkflowSteps = 1..Len(WorkflowSteps)
      /\ told.feedback.done \in 0..Len(WorkflowSteps)
    BY <1>2, WorkflowsAreSequences DEF JobRunsTypes, Feedbacks
<1>4. \A i \in DOMAIN WorkflowSteps : Stage(told.feedback, i) = 2 <=> i <= told.feedback.done
    BY <1>3 DEF Stage
<1>5. told.feedback.state = "whole" => \E k \in TaskIds : ToldBy(told.feedback, k)
    BY <1>2 DEF JobRunsInv, TaskTold
<1>6. ASSUME jobRow.status = "finished"
      PROVE  /\ \E k \in TaskIds : Completed(k)
             /\ jobRow.container # 0 /\ qgisTasks[jobRow.container].exit = "ok"
             /\ \A i \in DOMAIN WorkflowSteps : Stage(told.feedback, i) = 2
             /\ HookReads \cup ApiReads \subseteq Outputs(told.feedback)
    <2>1. jobRun.exit = "ok" /\ told.feedback.state = "whole" /\ told.feedback.raised = "none"
        BY <1>2, <1>6, Zenon DEF JobRunsInv, RowTells
    <2>2. PICK k \in TaskIds : ToldBy(told.feedback, k)
        BY <1>5, <2>1
    <2>3. told.feedback.done = Len(WorkflowSteps) /\ Completed(k)
        BY <2>1, <2>2 DEF ToldBy, Completed
    <2>4. jobRow.container # 0 /\ qgisTasks[jobRow.container].exit = "ok"
        BY <1>6, <2>1 DEF JobRunsInv, Recorded, ExitKnown
    <2>5. \A i \in DOMAIN WorkflowSteps : Stage(told.feedback, i) = 2
        BY <1>3, <1>4, <2>3
    <2>6. ApiReads \subseteq Outputs(told.feedback)
        <3>1. CASE jobKind.type = "package"
            <4>1. 3 \in DOMAIN WorkflowSteps /\ WorkflowSteps[3] = LayersDataStep("qgis_layers_data", {})
                BY <3>1, WorkflowsAreSequences DEF JobRunsTypes
            <4>2. WorkflowSteps[3].id = "qgis_layers_data" /\ WorkflowSteps[3].outputs = {"layers_by_id"}
                BY <4>1 DEF LayersDataStep, WorkflowStep
            <4>3. <<"qgis_layers_data", "layers_by_id">> \in Outputs(told.feedback)
                BY <2>5, <4>1, <4>2 DEF Outputs
            <4> QED BY <4>3 DEF ApiReads
        <3>2. CASE jobKind.type # "package"
            BY <3>2 DEF ApiReads
        <3> QED BY <3>1, <3>2
    <2>7. HookReads \subseteq Outputs(told.feedback)
        BY <1>2, <1>6, Zenon DEF JobRunsInv, RowTells
    <2> QED BY <2>1, <2>2, <2>3, <2>4, <2>5, <2>6, <2>7
<1>7. ASSUME told.origin = "container" /\ told.feedback.state = "whole"
      PROVE  \E k \in TaskIds :
                /\ qgisTasks[k].raised # "none" /\ told.error = ErrorType(qgisTasks[k].raised)
                /\ {i \in DOMAIN WorkflowSteps : Stage(told.feedback, i) = 2} = 1..qgisTasks[k].done
    <2>1. PICK k \in TaskIds : ToldBy(told.feedback, k)
        BY <1>5, <1>7
    <2>2. told.feedback.raised # "none" /\ told.error = ErrorType(told.feedback.raised)
        BY <1>2, <1>7 DEF JobRunsInv, RowTells
    <2>3. {i \in DOMAIN WorkflowSteps : Stage(told.feedback, i) = 2} = 1..told.feedback.done
        BY <1>3, <1>4
    <2> QED BY <2>1, <2>2, <2>3 DEF ToldBy
<1>8. ASSUME jobRun.at = "over", jobRow.status = "failed", jobRow.container = 1, Unborn = 2..MaxTasks,
             Completed(1), qgisTasks[1].exit = "ok"
      PROVE  told.origin = "worker_wrapper" \/ told.error = "TIMEOUT"
    <2>1. jobRun.exit \in {"null", "ok", "timeout"}
        BY <1>8 DEF JobRunsInv, Recorded, ExitKnown
    <2>2. ASSUME told.feedback.state = "whole", told.feedback.raised # "none" PROVE FALSE
        <3>1. PICK k \in TaskIds : ToldBy(told.feedback, k)
            BY <1>5, <2>2
        <3>2. k \notin Unborn
            BY <3>1 DEF ToldBy, Unborn
        <3>3. k = 1
            BY <1>8, <3>2, JobRunsAssumption DEF TaskIds
        <3>4. qgisTasks[1].raised # "none" /\ qgisTasks[1].done < Len(WorkflowSteps)
            BY <2>2, <3>1, <3>3 DEF ToldBy, JobRunsInv, TaskFits
        <3> QED BY <1>3, <1>8, <3>4 DEF Completed
    <2> QED BY <1>2, <1>8, <2>1, <2>2 DEF JobRunsInv, RowTells
<1> QED BY <1>1, <1>2, <1>6, <1>7, <1>8 DEF ResultTold

LEMMA NoneLeft == ASSUME JobRunsTypes, JobRunsInv PROVE NoTaskLeft
<1> SUFFICES ASSUME jobRun.at \in {"over", "dead"}, ~jobRun.unstopped, NEW k \in TaskIds, Alive(k),
                    RowExists, jobRow.container = k
             PROVE  qgisTasks[k].stopping
    BY DEF NoTaskLeft, IsOrphan
<1>1. k # 0
    BY JobRunsAssumption DEF TaskIds
<1> QED BY <1>1 DEF JobRunsInv, LeftAlone

\* A run of a job tells what its task did, and leaves no task behind.
LEMMA RunsOfJobs == JobRunsSpec => []ResultTold /\ []NoTaskLeft
<1>1. JobRunsTypes /\ JobRunsInv => ResultTold /\ NoTaskLeft
    BY ResultsTold, NoneLeft
<1> QED BY <1>1, JobRunsKept, PTL

-----------------------------------------------------------------------------
(* Invitations.                                                            *)

InviteRow ==
    [step: {"drop", "look", "replace", "known", "create", "charge", "mail", "mark"},
     email: Emails, key: 0..MaxInvites, budget: 0..Budget]

Resends ==
    [step: {"idle", "send"}, todo: SUBSET InvitationRows]
    \cup [step: {"mark"}, todo: SUBSET InvitationRows, row: InvitationRows]

\* All variables but the requests and cron's are as InvitationsTypeOK says.
InvitationsTypes ==
    /\ invitations \subseteq InvitationRows
    /\ \A i, j \in invitations : i.email = j.email \/ i.key = j.key => i = j
    /\ keys \in 0..MaxInvites /\ remaining \in 0..Budget /\ people \subseteq Emails
    /\ invite \in [Inviting -> {NoInvite} \cup InviteRow]
    /\ resend \in Resends
    /\ mailed \subseteq [email: Emails, key: 1..MaxInvites] /\ owed \cup hurt \subseteq Emails

\* A request that has made an invitation, and the rows cron has fetched.
HasMade(r) == invite[r].step \in {"charge", "mail", "mark"}

\* A key is claimed for an address by a row, a request or cron; keys that are
\* claimed were made, each for one address.
Claimed(key, email) ==
    \/ \E i \in invitations \cup resend.todo : i.key = key /\ i.email = email
    \/ \E r \in Inviting : HasMade(r) /\ invite[r].key = key /\ invite[r].email = email

KeysNamed ==
    \A key \in 0..MaxInvites, e, f \in Emails :
        Claimed(key, e) => key \in 1..keys /\ (Claimed(key, f) => e = f)

\* A request that charges has something to charge, and cron sends what it has fetched.
StepsKnown ==
    /\ \A r \in Inviting : invite[r].step = "charge" => invite[r].budget > 0
    /\ resend.step = "idle" => resend = NoResend
    /\ resend.step = "mark" => resend.row \in resend.todo
    /\ \A i \in resend.todo : ~i.lapsed
    /\ \A i \in invitations : i.lapsed => i.sent

\* What is marked was mailed, and what is about to be marked.
SentIsMailed ==
    /\ \A i \in invitations : i.sent => [email |-> i.email, key |-> i.key] \in mailed
    /\ \A r \in Inviting :
          invite[r].step = "mark" => [email |-> invite[r].email, key |-> invite[r].key] \in mailed
    /\ resend.step = "mark" => [email |-> resend.row.email, key |-> resend.row.key] \in mailed

\* An invitation that lapsed is nobody's any more, and nothing is owed for it.
LapsedIsFree ==
    \A i \in invitations : i.lapsed =>
        /\ i.email \notin owed
        /\ \A r \in Inviting : HasMade(r) => invite[r].email # i.email
        /\ \A j \in resend.todo : j.email # i.email

\* Who has taken the row of an address that is owed one, or is about to mark it,
\* will leave one.
WillBe(email) ==
    \/ \E r \in Inviting :
          /\ invite[r].step \in {"look", "replace", "known", "create", "mark"}
          /\ invite[r].email = email
    \/ resend.step = "mark" /\ resend.row.email = email

OwedIsThere == \A email \in owed \ (people \cup hurt) : Of(email) # {} \/ WillBe(email)

InvitationsInv ==
    KeysNamed /\ StepsKnown /\ SentIsMailed /\ LapsedIsFree /\ OwedIsThere

\* No row is none, and a request that is under way is a record.
LEMMA RequestsUnderWay ==
    ASSUME InvitationsTypes, NEW r \in Inviting
    PROVE  /\ NoInvite.step = "idle" /\ NoInvite \notin InviteRow
           /\ invite[r] # NoInvite <=> invite[r] \in InviteRow
           /\ invite[r].step # "idle" => invite[r] \in InviteRow
<1>1. NoInvite.step = "idle" /\ \A row \in InviteRow : row.step # "idle"
    BY DEF NoInvite, InviteRow
<1> QED BY <1>1 DEF InvitationsTypes

LEMMA RequestSteps ==
    ASSUME InvitationsTypes, NEW r \in Inviting, invite[r] \in InviteRow,
           NEW step \in {"drop", "look", "replace", "known", "create", "charge", "mail", "mark"},
           Step(r, step)
    PROVE  /\ invite' \in [Inviting -> {NoInvite} \cup InviteRow]
           /\ invite'[r].step = step /\ invite'[r].email = invite[r].email
           /\ invite'[r].key = invite[r].key /\ invite'[r].budget = invite[r].budget
           /\ \A q \in Inviting \ {r} : invite'[q] = invite[q]
<1>1. PICK row : row = [invite[r] EXCEPT !.step = step]
    OBVIOUS
<1>2. /\ row \in InviteRow /\ row.step = step /\ row.email = invite[r].email
      /\ row.key = invite[r].key /\ row.budget = invite[r].budget
    BY <1>1 DEF InviteRow
<1>3. invite' = [invite EXCEPT ![r] = row]
    BY <1>1 DEF Step
<1> QED BY <1>2, <1>3 DEF InvitationsTypes

LEMMA RequestEnds ==
    ASSUME InvitationsTypes, NEW r \in Inviting, Done(r)
    PROVE  /\ invite' \in [Inviting -> {NoInvite} \cup InviteRow]
           /\ invite'[r].step = "idle" /\ \A q \in Inviting \ {r} : invite'[q] = invite[q]
    BY DEF Done, InvitationsTypes, NoInvite

\* What keeps keys named: no claim is new.
LEMMA ClaimsKept ==
    ASSUME InvitationsInv, UNCHANGED keys, \A key, email : Claimed(key, email)' => Claimed(key, email)
    PROVE  KeysNamed'
    BY DEF InvitationsInv, KeysNamed

\* A row of an address that nobody else has a row of is saved by its key.
LEMMA RowSaved ==
    ASSUME InvitationsTypes, InvitationsInv, NEW row \in InvitationRows, Claimed(row.key, row.email),
           CanSave(row), SaveRow(row)
    PROVE  /\ invitations' \subseteq InvitationRows
           /\ \A i, j \in invitations' : i.email = j.email \/ i.key = j.key => i = j
           /\ \A i \in invitations' : i \in invitations \/ i = row
           /\ \A i \in invitations : i \in invitations' \/ i.email = row.email
           /\ row \in invitations'
<1>1. /\ \A i \in invitations : i.email = row.email => i.key = row.key
      /\ invitations' = {i \in invitations : i.key # row.key} \cup {row}
    BY DEF CanSave, Of, SaveRow
<1>2. \A i \in invitations : i.key = row.key => i.email = row.email
    <2> TAKE i \in invitations
    <2>1. i \in InvitationRows /\ Claimed(i.key, i.email)
        BY DEF InvitationsTypes, Claimed
    <2>2. row.key \in 0..MaxInvites /\ {row.email, i.email} \subseteq Emails
        BY <2>1, InvitationsAssumption DEF InvitationRows
    <2> QED BY <2>1, <2>2 DEF InvitationsInv, KeysNamed
<1> QED BY <1>1, <1>2 DEF InvitationsTypes

Makes(r, email) ==
    invite[r].step \in {"look", "replace", "known", "create", "mark"} /\ invite[r].email = email

\* An address is owed an invitation still, when a request has gone on.
LEMMA StillOwed ==
    ASSUME InvitationsInv, NEW r \in Inviting, \A q \in Inviting \ {r} : invite'[q] = invite[q],
           resend' = resend, NEW email \in owed \ (people \cup hurt),
           Of(email)' = Of(email) \/ Of(email)' # {} \/ Makes(r, email)',
           Makes(r, email) => Of(email)' # {} \/ Makes(r, email)'
    PROVE  Of(email)' # {} \/ WillBe(email)'
<1>1. Of(email) # {} \/ WillBe(email)
    BY DEF InvitationsInv, OwedIsThere
<1>2. CASE Makes(r, email)
    BY <1>2 DEF Makes, WillBe
<1>3. CASE Of(email) # {} /\ ~Makes(r, email)
    BY <1>3 DEF Makes, WillBe
<1>4. CASE WillBe(email) /\ ~Makes(r, email)
    BY <1>4 DEF Makes, WillBe
<1> QED BY <1>1, <1>2, <1>3, <1>4

\* What a request has to show that creates and saves nothing.
LEMMA RequestKeeps ==
    ASSUME InvitationsTypes, InvitationsInv, NEW r \in Inviting,
           invite' \in [Inviting -> {NoInvite} \cup InviteRow],
           \A q \in Inviting \ {r} : invite'[q] = invite[q],
           UNCHANGED <<keys, resend, people>>, invitations' \subseteq invitations,
           remaining' \in 0..Budget, mailed' \subseteq [email: Emails, key: 1..MaxInvites],
           mailed \subseteq mailed', hurt \subseteq hurt', hurt' \subseteq Emails,
           HasMade(r)' => HasMade(r) /\ invite'[r].key = invite[r].key /\ invite'[r].email = invite[r].email,
           invite'[r].step # "charge",
           invite'[r].step = "mark" => [email |-> invite'[r].email, key |-> invite'[r].key] \in mailed',
           \A e \in owed' : e \in owed \/ (HasMade(r) /\ e = invite[r].email /\ e \in Emails),
           OwedIsThere'
    PROVE  InvitationsTypes' /\ InvitationsInv'
<1>1. InvitationsTypes'
    BY DEF InvitationsTypes
<1>2. KeysNamed'
    <2>1. ASSUME NEW key, NEW email, Claimed(key, email)' PROVE Claimed(key, email)
        BY <2>1 DEF Claimed, HasMade
    <2> QED BY <2>1, ClaimsKept
<1>3. StepsKnown'
    BY DEF InvitationsInv, StepsKnown
<1>4. SentIsMailed'
    BY DEF InvitationsInv, SentIsMailed
<1>5. LapsedIsFree'
    BY DEF InvitationsInv, LapsedIsFree, HasMade
<1> QED BY <1>1, <1>2, <1>3, <1>4, <1>5 DEF InvitationsInv

LEMMA InviteKeeps ==
    ASSUME InvitationsTypes, InvitationsInv, NEW r \in Inviting, NEW e \in Emails, Invite(r, e)
    PROVE  InvitationsTypes' /\ InvitationsInv'
<1> DEFINE row == [step |-> "drop", email |-> e, key |-> 0, budget |-> remaining]
<1>1. row \in InviteRow /\ row.step = "drop" /\ row.email = e /\ invite' = [invite EXCEPT ![r] = row]
    <2>1. 0 \in 0..MaxInvites
        BY InvitationsAssumption
    <2> QED BY <2>1 DEF Invite, InviteRow, InvitationsTypes
<1> HIDE DEF row
<1>2. /\ invite' \in [Inviting -> {NoInvite} \cup InviteRow] /\ invite'[r].step = "drop"
      /\ \A q \in Inviting \ {r} : invite'[q] = invite[q]
    BY <1>1 DEF InvitationsTypes
<1>3. invite[r].step = "idle" /\ UNCHANGED <<invitations, keys, remaining, people, resend, mailed, owed, hurt>>
    BY DEF Invite, NoInvite
<1>4. OwedIsThere'
    BY <1>2, <1>3, StillOwed DEF OwedIsThere, Of, Makes
<1> QED BY <1>2, <1>3, <1>4, RequestKeeps DEF HasMade, InvitationsTypes

LEMMA DropUnsentKeeps ==
    ASSUME InvitationsTypes, InvitationsInv, NEW r \in Inviting, DropUnsent(r)
    PROVE  InvitationsTypes' /\ InvitationsInv'
<1>1. /\ invite[r] \in InviteRow /\ invite[r].step = "drop" /\ Step(r, "look")
      /\ invitations' = invitations \ {i \in Of(invite[r].email) : ~i.sent}
      /\ UNCHANGED <<keys, remaining, people, resend, mailed, owed, hurt>>
    BY RequestsUnderWay DEF DropUnsent
<1>2. /\ invite' \in [Inviting -> {NoInvite} \cup InviteRow] /\ invite'[r].step = "look"
      /\ invite'[r].email = invite[r].email /\ \A q \in Inviting \ {r} : invite'[q] = invite[q]
    BY <1>1, RequestSteps
<1>3. OwedIsThere'
    <2> SUFFICES ASSUME NEW email \in owed \ (people \cup hurt) PROVE Of(email)' # {} \/ WillBe(email)'
        BY <1>1 DEF OwedIsThere
    <2>1. email # invite[r].email => Of(email)' = Of(email)
        BY <1>1 DEF Of
    <2> QED BY <1>1, <1>2, <2>1, StillOwed DEF Makes
<1> QED BY <1>1, <1>2, <1>3, RequestKeeps DEF HasMade, InvitationsTypes

\* A request that goes on, or ends with an invitation there is.
LEMMA LooksKeep ==
    ASSUME InvitationsTypes, InvitationsInv, NEW r \in Inviting,
           LookForInvitation(r) \/ LookForPerson(r) \/ CreateRefused(r)
    PROVE  InvitationsTypes' /\ InvitationsInv'
<1>1. /\ invite[r] \in InviteRow /\ invite[r].step \in {"look", "known", "create"}
      /\ UNCHANGED <<invitations, keys, remaining, people, resend, mailed, owed, hurt>>
    BY RequestsUnderWay DEF LookForInvitation, LookForPerson, CreateRefused
<1>2. \/ \E step \in {"known", "replace", "create"} : Step(r, step)
      \/ Done(r) /\ (Of(invite[r].email) # {} \/ invite[r].email \in people)
    BY DEF LookForInvitation, LookForPerson, CreateRefused
<1>3. /\ invite' \in [Inviting -> {NoInvite} \cup InviteRow]
      /\ invite'[r].step \in {"known", "replace", "create", "idle"}
      /\ \A q \in Inviting \ {r} : invite'[q] = invite[q]
      /\ \/ invite'[r].step \in {"known", "replace", "create"} /\ invite'[r].email = invite[r].email
         \/ Of(invite[r].email) # {} \/ invite[r].email \in people
    <2>1. CASE \E step \in {"known", "replace", "create"} : Step(r, step)
        BY <1>1, <2>1, RequestSteps
    <2>2. CASE Done(r) /\ (Of(invite[r].email) # {} \/ invite[r].email \in people)
        BY <2>2, RequestEnds
    <2> QED BY <1>2, <2>1, <2>2
<1>4. OwedIsThere'
    <2> SUFFICES ASSUME NEW email \in owed \ (people \cup hurt) PROVE Of(email)' # {} \/ WillBe(email)'
        BY <1>1 DEF OwedIsThere
    <2>1. Of(email)' = Of(email)
        BY <1>1 DEF Of
    <2> QED BY <1>1, <1>3, <2>1, StillOwed DEF Makes
<1> QED BY <1>1, <1>3, <1>4, RequestKeeps DEF HasMade, InvitationsTypes

LEMMA DeleteLapsedKeeps ==
    ASSUME InvitationsTypes, InvitationsInv, NEW r \in Inviting, DeleteLapsed(r)
    PROVE  InvitationsTypes' /\ InvitationsInv'
<1>1. /\ invite[r] \in InviteRow /\ invite[r].step = "replace" /\ Step(r, "known")
      /\ invitations' = invitations \ Of(invite[r].email)
      /\ UNCHANGED <<keys, remaining, people, resend, mailed, owed, hurt>>
    BY RequestsUnderWay DEF DeleteLapsed
<1>2. /\ invite' \in [Inviting -> {NoInvite} \cup InviteRow] /\ invite'[r].step = "known"
      /\ invite'[r].email = invite[r].email /\ \A q \in Inviting \ {r} : invite'[q] = invite[q]
    BY <1>1, RequestSteps
<1>3. OwedIsThere'
    <2> SUFFICES ASSUME NEW email \in owed \ (people \cup hurt) PROVE Of(email)' # {} \/ WillBe(email)'
        BY <1>1 DEF OwedIsThere
    <2>1. email # invite[r].email => Of(email)' = Of(email)
        BY <1>1 DEF Of
    <2> QED BY <1>1, <1>2, <2>1, StillOwed DEF Makes
<1> QED BY <1>1, <1>2, <1>3, RequestKeeps DEF HasMade, InvitationsTypes

LEMMA ChargeKeeps ==
    ASSUME InvitationsTypes, InvitationsInv, NEW r \in Inviting, ChargeInviter(r)
    PROVE  InvitationsTypes' /\ InvitationsInv'
<1>1. /\ invite[r] \in InviteRow /\ invite[r].step = "charge" /\ Step(r, "mail")
      /\ remaining' = invite[r].budget - 1
      /\ UNCHANGED <<invitations, keys, people, resend, mailed, owed, hurt>>
    BY RequestsUnderWay DEF ChargeInviter
<1>2. /\ invite' \in [Inviting -> {NoInvite} \cup InviteRow] /\ invite'[r].step = "mail"
      /\ invite'[r].email = invite[r].email /\ invite'[r].key = invite[r].key
      /\ \A q \in Inviting \ {r} : invite'[q] = invite[q]
    BY <1>1, RequestSteps
<1>3. remaining' \in 0..Budget
    <2>1. invite[r].budget \in 0..Budget /\ invite[r].budget > 0
        BY <1>1 DEF InviteRow, InvitationsInv, StepsKnown
    <2> QED BY <1>1, <2>1, InvitationsAssumption
<1>4. OwedIsThere'
    <2> SUFFICES ASSUME NEW email \in owed \ (people \cup hurt) PROVE Of(email)' # {} \/ WillBe(email)'
        BY <1>1 DEF OwedIsThere
    <2>1. Of(email)' = Of(email)
        BY <1>1 DEF Of
    <2> QED BY <1>1, <1>2, <2>1, StillOwed DEF Makes
<1> QED BY <1>1, <1>2, <1>3, <1>4, RequestKeeps DEF HasMade, InvitationsTypes

LEMMA MailKeeps ==
    ASSUME InvitationsTypes, InvitationsInv, NEW r \in Inviting, MailInvitation(r)
    PROVE  InvitationsTypes' /\ InvitationsInv'
<1>1. /\ invite[r] \in InviteRow /\ invite[r].step = "mail" /\ Step(r, "mark")
      /\ mailed' = mailed \cup {[email |-> invite[r].email, key |-> invite[r].key]}
      /\ owed' = owed \cup {invite[r].email}
      /\ UNCHANGED <<invitations, keys, remaining, people, resend, hurt>>
    BY RequestsUnderWay DEF MailInvitation
<1>2. /\ invite' \in [Inviting -> {NoInvite} \cup InviteRow] /\ invite'[r].step = "mark"
      /\ invite'[r].email = invite[r].email /\ invite'[r].key = invite[r].key
      /\ \A q \in Inviting \ {r} : invite'[q] = invite[q]
    BY <1>1, RequestSteps
<1>3. [email |-> invite[r].email, key |-> invite[r].key] \in [email: Emails, key: 1..MaxInvites]
    <2>1. HasMade(r) /\ invite[r].email \in Emails /\ invite[r].key \in 0..MaxInvites
        BY <1>1 DEF HasMade, InviteRow
    <2>2. invite[r].key \in 1..keys
        BY <2>1 DEF InvitationsInv, KeysNamed, Claimed
    <2> QED BY <2>1, <2>2, InvitationsAssumption DEF InvitationsTypes
<1>4. OwedIsThere'
    <2> SUFFICES ASSUME NEW email \in owed' \ (people \cup hurt) PROVE Of(email)' # {} \/ WillBe(email)'
        BY <1>1 DEF OwedIsThere
    <2>1. Of(email)' = Of(email)
        BY <1>1 DEF Of
    <2>2. CASE email = invite[r].email
        BY <1>2, <2>2 DEF WillBe
    <2>3. CASE email # invite[r].email
        BY <1>1, <1>2, <2>1, <2>3, StillOwed DEF Makes
    <2> QED BY <2>2, <2>3
<1>5. invite[r].email \in Emails
    BY <1>1 DEF InviteRow
<1>6. /\ mailed' \subseteq [email: Emails, key: 1..MaxInvites] /\ mailed \subseteq mailed'
      /\ [email |-> invite'[r].email, key |-> invite'[r].key] \in mailed'
    BY <1>1, <1>2, <1>3 DEF InvitationsTypes
<1> QED BY <1>1, <1>2, <1>4, <1>5, <1>6, RequestKeeps DEF HasMade, InvitationsTypes

\* A request that fails or dies.
LEMMA EndsKeep ==
    ASSUME InvitationsTypes, InvitationsInv, NEW r \in Inviting, MailFails(r) \/ InviteDies(r)
    PROVE  InvitationsTypes' /\ InvitationsInv'
<1>1. /\ invite[r] \in InviteRow /\ Done(r) /\ hurt' \in {hurt, hurt \cup {invite[r].email}}
      /\ invite[r].step = "mail" \/ invite[r].email \in hurt'
      /\ UNCHANGED <<invitations, keys, remaining, people, resend, mailed, owed>>
    BY RequestsUnderWay DEF MailFails, InviteDies
<1>2. /\ invite' \in [Inviting -> {NoInvite} \cup InviteRow] /\ invite'[r].step = "idle"
      /\ \A q \in Inviting \ {r} : invite'[q] = invite[q]
    BY <1>1, RequestEnds
<1>3. OwedIsThere'
    <2> SUFFICES ASSUME NEW email \in owed \ (people \cup hurt') PROVE Of(email)' # {} \/ WillBe(email)'
        BY <1>1 DEF OwedIsThere
    <2>1. Of(email)' = Of(email) /\ email \notin hurt
        BY <1>1 DEF Of
    <2> QED BY <1>1, <1>2, <2>1, StillOwed DEF Makes
<1>4. invite[r].email \in Emails
    BY <1>1 DEF InviteRow
<1> QED BY <1>1, <1>2, <1>3, <1>4, RequestKeeps DEF HasMade, InvitationsTypes

LEMMA CreateKeeps ==
    ASSUME InvitationsTypes, InvitationsInv, NEW r \in Inviting, CreateInvitation(r)
    PROVE  InvitationsTypes' /\ InvitationsInv'
<1>1. /\ invite[r] \in InviteRow /\ invite[r].step = "create" /\ keys < MaxInvites
      /\ Of(invite[r].email) = {} /\ keys' = keys + 1
      /\ UNCHANGED <<remaining, people, resend, mailed, owed, hurt>>
    BY RequestsUnderWay DEF CreateInvitation
<1>2. PICK e \in Emails : e = invite[r].email
    BY <1>1 DEF InviteRow
<1>3. PICK n \in 1..MaxInvites : n = keys' /\ n \notin 1..keys /\ \A k \in 1..keys : k \in 1..n
    BY <1>1, InvitationsAssumption DEF InvitationsTypes
<1> DEFINE row == [email |-> e, key |-> n, sent |-> FALSE, lapsed |-> FALSE]
<1>4. /\ row \in InvitationRows
      /\ row.email = e /\ row.key = n /\ ~row.sent /\ ~row.lapsed
    BY DEF InvitationRows
<1>5. keys' = n => SaveRow(row) \/ ~CreateInvitation(r)
    BY <1>2 DEF CreateInvitation
<1> HIDE DEF row
<1>6. \A key, email : Claimed(key, email) /\ key \in 0..MaxInvites /\ email \in Emails => key # n
    BY <1>3 DEF InvitationsInv, KeysNamed
<1>7. \A i \in invitations : i.key # n /\ i.email # e
    <2> TAKE i \in invitations
    <2>1. Claimed(i.key, i.email) /\ i.key \in 0..MaxInvites /\ i.email \in Emails
        BY InvitationsAssumption DEF InvitationsTypes, InvitationRows, Claimed
    <2> QED BY <1>1, <1>2, <1>6, <2>1 DEF Of
<1>8. invitations' = invitations \cup {row}
    <2>1. SaveRow(row)
        BY <1>3, <1>5
    <2> QED BY <1>4, <1>7, <2>1 DEF SaveRow
<1>9. /\ invite' \in [Inviting -> {NoInvite} \cup InviteRow]
      /\ \A q \in Inviting \ {r} : invite'[q] = invite[q]
      /\ \/ invite'[r].step = "idle"
         \/ /\ invite'[r].step = "charge" /\ invite'[r].email = e /\ invite'[r].key = n
            /\ invite'[r].budget > 0
    <2>1. CASE invite[r].budget > 0
        <3>1. PICK new : new = [invite[r] EXCEPT !.step = "charge", !.key = n]
            OBVIOUS
        <3>2. /\ new \in InviteRow /\ new.step = "charge" /\ new.email = e /\ new.key = n
              /\ new.budget = invite[r].budget
            <4>1. n \in 0..MaxInvites
                BY InvitationsAssumption
            <4> QED BY <1>1, <1>2, <3>1, <4>1, ZenonT(60) DEF InviteRow
        <3>3. invite' = [invite EXCEPT ![r] = new]
            BY <1>3, <2>1, <3>1 DEF CreateInvitation, InvitationsTypes
        <3> QED BY <2>1, <3>2, <3>3 DEF InvitationsTypes
    <2>2. CASE ~(invite[r].budget > 0)
        <3>1. Done(r)
            BY <2>2 DEF CreateInvitation, Done
        <3> QED BY <3>1, RequestEnds
    <2> QED BY <2>1, <2>2
<1>10. InvitationsTypes'
    <2>1. keys' \in 0..MaxInvites
        BY <1>3, InvitationsAssumption
    <2>2. invitations' \subseteq InvitationRows
        BY <1>4, <1>8 DEF InvitationsTypes
    <2>3. \A i, j \in invitations' : i.email = j.email \/ i.key = j.key => i = j
        BY <1>4, <1>7, <1>8 DEF InvitationsTypes
    <2> QED BY <1>1, <1>9, <2>1, <2>2, <2>3 DEF InvitationsTypes
<1>11. KeysNamed'
    <2>1. ASSUME NEW key, NEW email, Claimed(key, email)'
          PROVE  Claimed(key, email) \/ (key = n /\ email = e)
        BY <1>1, <1>4, <1>8, <1>9, <2>1 DEF Claimed, HasMade
    <2> QED BY <1>3, <1>6, <2>1 DEF InvitationsInv, KeysNamed
<1>12. StepsKnown'
    BY <1>1, <1>4, <1>8, <1>9 DEF InvitationsInv, StepsKnown
<1>13. SentIsMailed'
    BY <1>1, <1>4, <1>8, <1>9 DEF InvitationsInv, SentIsMailed
<1>14. LapsedIsFree'
    BY <1>1, <1>4, <1>7, <1>8, <1>9 DEF InvitationsInv, LapsedIsFree, HasMade
<1>15. OwedIsThere'
    <2> SUFFICES ASSUME NEW email \in owed \ (people \cup hurt) PROVE Of(email)' # {} \/ WillBe(email)'
        BY <1>1 DEF OwedIsThere
    <2>1. CASE email = e
        BY <1>4, <1>8, <2>1 DEF Of
    <2>2. CASE email # e
        <3>1. Of(email)' = Of(email)
            BY <1>4, <1>8, <2>2 DEF Of
        <3> QED BY <1>1, <1>2, <1>9, <2>2, <3>1, StillOwed DEF Makes
    <2> QED BY <2>1, <2>2
<1> QED BY <1>10, <1>11, <1>12, <1>13, <1>14, <1>15 DEF InvitationsInv

\* What a save of a row that is sent has to show, or one that finds another's row.
LEMMA SaveKeeps ==
    ASSUME InvitationsTypes, InvitationsInv, NEW row \in InvitationRows, Claimed(row.key, row.email),
           row.sent, ~row.lapsed, [email |-> row.email, key |-> row.key] \in mailed,
           IF CanSave(row) THEN SaveRow(row) ELSE UNCHANGED invitations
    PROVE  /\ invitations' \subseteq InvitationRows
           /\ \A i, j \in invitations' : i.email = j.email \/ i.key = j.key => i = j
           /\ \A i \in invitations' : i \in invitations \/ i = row
           /\ \A i \in invitations : i \in invitations' \/ i.email = row.email
           /\ Of(row.email)' # {}
           /\ \A email : Of(email) # {} => Of(email)' # {}
<1>1. CASE CanSave(row)
    <2>1. SaveRow(row)
        BY <1>1
    <2>2. /\ invitations' \subseteq InvitationRows
          /\ \A i, j \in invitations' : i.email = j.email \/ i.key = j.key => i = j
          /\ \A i \in invitations' : i \in invitations \/ i = row
          /\ \A i \in invitations : i \in invitations' \/ i.email = row.email
          /\ row \in invitations'
        BY <1>1, <2>1, RowSaved
    <2> QED BY <2>2 DEF Of
<1>2. CASE ~CanSave(row)
    BY <1>2 DEF CanSave, InvitationsTypes, Of
<1> QED BY <1>1, <1>2

LEMMA MarkSentKeeps ==
    ASSUME InvitationsTypes, InvitationsInv, NEW r \in Inviting, MarkSent(r)
    PROVE  InvitationsTypes' /\ InvitationsInv'
<1>1. /\ invite[r] \in InviteRow /\ invite[r].step = "mark" /\ Done(r)
      /\ UNCHANGED <<keys, remaining, people, resend, mailed, owed, hurt>>
    BY RequestsUnderWay DEF MarkSent
<1>2. /\ invite' \in [Inviting -> {NoInvite} \cup InviteRow] /\ invite'[r].step = "idle"
      /\ \A q \in Inviting \ {r} : invite'[q] = invite[q]
    BY <1>1, RequestEnds
<1>3. HasMade(r) /\ Claimed(invite[r].key, invite[r].email) /\ invite[r].email \in Emails
      /\ invite[r].key \in 0..MaxInvites
    BY <1>1 DEF HasMade, Claimed, InviteRow
<1>4. invite[r].key \in 1..MaxInvites
    <2>1. invite[r].key \in 1..keys
        BY <1>3 DEF InvitationsInv, KeysNamed
    <2> QED BY <2>1, InvitationsAssumption DEF InvitationsTypes
<1>5. PICK row : /\ row.email = invite[r].email /\ row.key = invite[r].key /\ row.sent /\ ~row.lapsed
                 /\ row \in InvitationRows
                 /\ IF CanSave(row) THEN SaveRow(row) ELSE UNCHANGED invitations
    <2>1. PICK new : new = [email |-> invite[r].email, key |-> invite[r].key,
                            sent |-> TRUE, lapsed |-> FALSE]
        OBVIOUS
    <2>2. /\ new.email = invite[r].email /\ new.key = invite[r].key /\ new.sent /\ ~new.lapsed
          /\ new \in InvitationRows
        BY <1>3, <1>4, <2>1 DEF InvitationRows
    <2>3. IF CanSave(new) THEN SaveRow(new) ELSE UNCHANGED invitations
        BY <2>1 DEF MarkSent
    <2> QED BY <2>2, <2>3
<1>6. IF CanSave(row) THEN SaveRow(row) ELSE UNCHANGED invitations
    BY <1>5
<1>7. [email |-> row.email, key |-> row.key] \in mailed
    BY <1>1, <1>5 DEF InvitationsInv, SentIsMailed
<1>8. /\ invitations' \subseteq InvitationRows
      /\ \A i, j \in invitations' : i.email = j.email \/ i.key = j.key => i = j
      /\ \A i \in invitations' : i \in invitations \/ i = row
      /\ Of(row.email)' # {} /\ \A email : Of(email) # {} => Of(email)' # {}
    BY <1>3, <1>5, <1>6, <1>7, SaveKeeps
<1>9. InvitationsTypes'
    BY <1>1, <1>2, <1>8 DEF InvitationsTypes
<1>10. KeysNamed'
    <2>1. ASSUME NEW key, NEW email, Claimed(key, email)' PROVE Claimed(key, email)
        BY <1>1, <1>2, <1>3, <1>5, <1>8, <2>1 DEF Claimed, HasMade
    <2> QED BY <1>1, <2>1, ClaimsKept
<1>11. StepsKnown'
    BY <1>1, <1>2, <1>5, <1>8 DEF InvitationsInv, StepsKnown
<1>12. SentIsMailed'
    BY <1>1, <1>2, <1>7, <1>8 DEF InvitationsInv, SentIsMailed
<1>13. LapsedIsFree'
    BY <1>1, <1>2, <1>5, <1>8 DEF InvitationsInv, LapsedIsFree, HasMade
<1>14. OwedIsThere'
    <2> SUFFICES ASSUME NEW email \in owed \ (people \cup hurt) PROVE Of(email)' # {} \/ WillBe(email)'
        BY <1>1 DEF OwedIsThere
    <2>1. Of(email)' = Of(email) \/ Of(email)' # {}
        BY <1>8
    <2>2. Makes(r, email) => Of(email)' # {}
        BY <1>5, <1>8 DEF Makes
    <2> QED BY <1>1, <1>2, <2>1, <2>2, StillOwed
<1> QED BY <1>9, <1>10, <1>11, <1>12, <1>13, <1>14 DEF InvitationsInv

\* cron's step of a mail.
LEMMA ResendMarkKeeps ==
    ASSUME InvitationsTypes, InvitationsInv, ResendMark
    PROVE  InvitationsTypes' /\ InvitationsInv'
<1>1. resend.step = "mark" /\ UNCHANGED <<keys, remaining, people, invite, mailed, owed, hurt>>
      /\ resend' = [step |-> "send", todo |-> resend.todo \ {resend.row}]
    BY DEF ResendMark
<1>2. PICK old \in InvitationRows : /\ old = resend.row /\ old \in resend.todo /\ ~old.lapsed
                                    /\ [email |-> old.email, key |-> old.key] \in mailed
    BY <1>1 DEF InvitationsTypes, Resends, InvitationsInv, StepsKnown, SentIsMailed
<1>3. PICK row : row = [old EXCEPT !.sent = TRUE]
    OBVIOUS
<1>4. row \in InvitationRows /\ row.email = old.email /\ row.key = old.key /\ row.sent /\ ~row.lapsed
    BY <1>2, <1>3 DEF InvitationRows
<1>5. Claimed(row.key, row.email)
    BY <1>2, <1>4 DEF Claimed
<1>6. IF CanSave(row) THEN SaveRow(row) ELSE UNCHANGED invitations
    BY <1>2, <1>3 DEF ResendMark
<1>7. [email |-> row.email, key |-> row.key] \in mailed
    BY <1>2, <1>4
<1>8. /\ invitations' \subseteq InvitationRows
      /\ \A i, j \in invitations' : i.email = j.email \/ i.key = j.key => i = j
      /\ \A i \in invitations' : i \in invitations \/ i = row
      /\ Of(row.email)' # {} /\ \A email : Of(email) # {} => Of(email)' # {}
    BY <1>4, <1>5, <1>6, <1>7, SaveKeeps
<1>9. resend' \in Resends /\ resend'.step = "send" /\ resend'.todo \subseteq resend.todo
    BY <1>1 DEF InvitationsTypes, Resends
<1>10. InvitationsTypes'
    BY <1>1, <1>8, <1>9 DEF InvitationsTypes
<1>11. KeysNamed'
    <2>1. ASSUME NEW key, NEW email, Claimed(key, email)' PROVE Claimed(key, email)
        BY <1>1, <1>2, <1>4, <1>8, <1>9, <2>1 DEF Claimed, HasMade
    <2> QED BY <1>1, <2>1, ClaimsKept
<1>12. StepsKnown'
    BY <1>1, <1>4, <1>8, <1>9 DEF InvitationsInv, StepsKnown
<1>13. SentIsMailed'
    BY <1>1, <1>7, <1>8, <1>9 DEF InvitationsInv, SentIsMailed
<1>14. LapsedIsFree'
    BY <1>1, <1>4, <1>8, <1>9 DEF InvitationsInv, LapsedIsFree, HasMade
<1>15. OwedIsThere'
    <2> SUFFICES ASSUME NEW email \in owed \ (people \cup hurt) PROVE Of(email)' # {} \/ WillBe(email)'
        BY <1>1 DEF OwedIsThere
    <2>1. Of(email) # {} \/ WillBe(email)
        BY DEF InvitationsInv, OwedIsThere
    <2>2. CASE email = row.email
        BY <1>8, <2>2
    <2>3. CASE email # row.email
        BY <1>1, <1>2, <1>4, <1>8, <2>1, <2>3 DEF WillBe
    <2> QED BY <2>2, <2>3
<1> QED BY <1>10, <1>11, <1>12, <1>13, <1>14, <1>15 DEF InvitationsInv

\* cron's other steps: it fetches, mails, gives up or is through.
LEMMA ResendKeeps ==
    ASSUME InvitationsTypes, InvitationsInv,
           \/ BeginResend \/ EndResend
           \/ \E i \in resend.todo : ResendMail(i) \/ ResendFails(i)
    PROVE  InvitationsTypes' /\ InvitationsInv'
<1>1. UNCHANGED <<invitations, keys, remaining, people, invite, hurt>>
    BY DEF BeginResend, EndResend, ResendMail, ResendFails
<1>2. NoResend \in Resends /\ NoResend.step = "idle" /\ NoResend.todo = {}
    BY DEF NoResend, Resends
<1>3. resend.todo \subseteq InvitationRows /\ \A i \in resend.todo : ~i.lapsed
    BY DEF InvitationsTypes, Resends, InvitationsInv, StepsKnown
<1>4. \A email : Of(email)' = Of(email)
    BY <1>1 DEF Of
<1>5. CASE BeginResend
    <2>1. /\ resend' \in Resends /\ resend'.step = "send" /\ resend'.todo \subseteq invitations
          /\ \A i \in resend'.todo : ~i.sent
          /\ resend.step = "idle" /\ UNCHANGED <<mailed, owed>>
        BY <1>2, <1>5 DEF BeginResend, Resends, Unsent, InvitationsTypes
    <2>2. \A i \in resend'.todo : ~i.lapsed
        BY <2>1 DEF InvitationsInv, StepsKnown
    <2>3. InvitationsTypes'
        BY <1>1, <2>1 DEF InvitationsTypes
    <2>4. KeysNamed'
        <3>1. ASSUME NEW key, NEW email, Claimed(key, email)' PROVE Claimed(key, email)
            BY <1>1, <2>1, <3>1 DEF Claimed, HasMade
        <3> QED BY <1>1, <3>1, ClaimsKept
    <2>5. StepsKnown'
        BY <1>1, <2>1, <2>2 DEF InvitationsInv, StepsKnown
    <2>6. SentIsMailed'
        BY <1>1, <2>1 DEF InvitationsInv, SentIsMailed
    <2>7. LapsedIsFree'
        <3> SUFFICES ASSUME NEW i \in invitations, i.lapsed, NEW j \in resend'.todo PROVE j.email # i.email
            BY <1>1, <2>1 DEF InvitationsInv, LapsedIsFree, HasMade
        <3> QED BY <2>1, <2>2 DEF InvitationsTypes
    <2>8. OwedIsThere'
        BY <1>1, <1>4, <2>1 DEF InvitationsInv, OwedIsThere, WillBe
    <2> QED BY <2>3, <2>4, <2>5, <2>6, <2>7, <2>8 DEF InvitationsInv
<1>6. CASE EndResend \/ \E i \in resend.todo : ResendFails(i)
    <2>1. /\ resend' \in Resends /\ resend'.step \in {"idle", "send"} /\ resend'.todo \subseteq resend.todo
          /\ resend'.step = "idle" => resend' = NoResend
          /\ resend.step = "send" /\ UNCHANGED <<mailed, owed>>
        <3>1. CASE EndResend
            BY <1>2, <3>1 DEF EndResend
        <3>2. ASSUME NEW i \in resend.todo, ResendFails(i)
              PROVE  /\ resend' \in Resends /\ resend'.step = "send"
                     /\ resend'.todo \subseteq resend.todo
                     /\ resend.step = "send" /\ UNCHANGED <<mailed, owed>>
            <4>1. resend \in [step: {"idle", "send"}, todo: SUBSET InvitationRows]
                BY <3>2 DEF ResendFails, InvitationsTypes, Resends
            <4>2. PICK new : new = [resend EXCEPT !.todo = @ \ {i}]
                OBVIOUS
            <4>3. /\ new \in [step: {"idle", "send"}, todo: SUBSET InvitationRows]
                  /\ new.step = resend.step /\ new.todo \subseteq resend.todo
                BY <4>1, <4>2
            <4> QED BY <3>2, <4>2, <4>3 DEF ResendFails, Resends
        <3> QED BY <1>6, <3>1, <3>2
    <2>2. InvitationsTypes'
        BY <1>1, <2>1 DEF InvitationsTypes
    <2>3. KeysNamed'
        <3>1. ASSUME NEW key, NEW email, Claimed(key, email)' PROVE Claimed(key, email)
            BY <1>1, <2>1, <3>1 DEF Claimed, HasMade
        <3> QED BY <1>1, <3>1, ClaimsKept
    <2>4. StepsKnown'
        BY <1>1, <1>3, <2>1 DEF InvitationsInv, StepsKnown
    <2>5. SentIsMailed'
        BY <1>1, <2>1 DEF InvitationsInv, SentIsMailed
    <2>6. LapsedIsFree'
        BY <1>1, <2>1 DEF InvitationsInv, LapsedIsFree, HasMade
    <2>7. OwedIsThere'
        BY <1>1, <1>4, <2>1 DEF InvitationsInv, OwedIsThere, WillBe
    <2> QED BY <2>2, <2>3, <2>4, <2>5, <2>6, <2>7 DEF InvitationsInv
<1>7. ASSUME NEW i \in resend.todo, ResendMail(i) PROVE InvitationsTypes' /\ InvitationsInv'
    <2>1. /\ resend' \in Resends /\ resend'.step = "mark" /\ resend'.todo = resend.todo
          /\ resend'.row = i /\ resend.step = "send"
          /\ mailed' = mailed \cup {[email |-> i.email, key |-> i.key]}
          /\ owed' = owed \cup {i.email}
        BY <1>3, <1>7 DEF ResendMail, Resends
    <2>2. i.email \in Emails /\ i.key \in 1..MaxInvites
        BY <1>3 DEF InvitationRows
    <2>3. InvitationsTypes'
        BY <1>1, <2>1, <2>2 DEF InvitationsTypes
    <2>4. KeysNamed'
        <3>1. ASSUME NEW key, NEW email, Claimed(key, email)' PROVE Claimed(key, email)
            BY <1>1, <2>1, <3>1 DEF Claimed, HasMade
        <3> QED BY <1>1, <3>1, ClaimsKept
    <2>5. StepsKnown'
        BY <1>1, <1>3, <2>1 DEF InvitationsInv, StepsKnown
    <2>6. SentIsMailed'
        BY <1>1, <2>1 DEF InvitationsInv, SentIsMailed
    <2>7. LapsedIsFree'
        BY <1>1, <2>1 DEF InvitationsInv, LapsedIsFree, HasMade
    <2>8. OwedIsThere'
        BY <1>1, <1>4, <2>1 DEF InvitationsInv, OwedIsThere, WillBe
    <2> QED BY <2>3, <2>4, <2>5, <2>6, <2>7, <2>8 DEF InvitationsInv
<1> QED BY <1>5, <1>6, <1>7

\* Days go by, and people register.
LEMMA DaysKeep ==
    ASSUME InvitationsTypes, InvitationsInv,
           DeleteExpired \/ \E i \in invitations : LapseInvitation(i) \/ Register(i)
    PROVE  InvitationsTypes' /\ InvitationsInv'
<1>1. UNCHANGED <<keys, remaining, invite, resend, mailed, hurt>>
    BY DEF DeleteExpired, LapseInvitation, Register
<1>2. ASSUME NEW i \in invitations, LapseInvitation(i) PROVE InvitationsTypes' /\ InvitationsInv'
    <2>1. PICK row : row = [i EXCEPT !.lapsed = TRUE]
        OBVIOUS
    <2>2. i \in InvitationRows /\ row \in InvitationRows /\ row.lapsed
          /\ row.email = i.email /\ row.key = i.key /\ row.sent = i.sent
        BY <2>1 DEF InvitationsTypes, InvitationRows
    <2>3. /\ i.sent /\ AtRest(i.email) /\ invitations' = (invitations \ {i}) \cup {row}
          /\ owed' = owed \ {i.email} /\ people' = people
        BY <1>2, <2>1 DEF LapseInvitation
    <2>4. InvitationsTypes'
        BY <1>1, <2>2, <2>3 DEF InvitationsTypes
    <2>5. KeysNamed'
        <3>1. ASSUME NEW key, NEW email, Claimed(key, email)' PROVE Claimed(key, email)
            BY <1>1, <2>2, <2>3, <3>1 DEF Claimed, HasMade
        <3> QED BY <1>1, <3>1, ClaimsKept
    <2>6. StepsKnown'
        BY <1>1, <2>2, <2>3 DEF InvitationsInv, StepsKnown
    <2>7. SentIsMailed'
        BY <1>1, <2>2, <2>3 DEF InvitationsInv, SentIsMailed
    <2>8. LapsedIsFree'
        <3>1. \A r \in Inviting : HasMade(r) => invite[r].email # i.email
            BY <2>3, RequestsUnderWay DEF AtRest, HasMade
        <3>2. \A j \in resend.todo : j.email # i.email
            BY <2>3 DEF AtRest
        <3> QED BY <1>1, <2>2, <2>3, <3>1, <3>2 DEF InvitationsInv, LapsedIsFree, HasMade
    <2>9. OwedIsThere'
        <3> SUFFICES ASSUME NEW email \in owed \ (people \cup hurt), email # i.email
                     PROVE  Of(email)' # {} \/ WillBe(email)'
            BY <1>1, <2>3 DEF OwedIsThere
        <3>1. Of(email)' = Of(email)
            BY <2>2, <2>3 DEF Of
        <3> QED BY <1>1, <3>1 DEF InvitationsInv, OwedIsThere, WillBe
    <2> QED BY <2>4, <2>5, <2>6, <2>7, <2>8, <2>9 DEF InvitationsInv
<1>3. CASE DeleteExpired
    <2>1. invitations' = {i \in invitations : ~i.lapsed} /\ UNCHANGED <<owed, people>>
        BY <1>3 DEF DeleteExpired
    <2>2. InvitationsTypes'
        BY <1>1, <2>1 DEF InvitationsTypes
    <2>3. KeysNamed'
        <3>1. ASSUME NEW key, NEW email, Claimed(key, email)' PROVE Claimed(key, email)
            BY <1>1, <2>1, <3>1 DEF Claimed, HasMade
        <3> QED BY <1>1, <3>1, ClaimsKept
    <2>4. StepsKnown' /\ SentIsMailed'
        BY <1>1, <2>1 DEF InvitationsInv, StepsKnown, SentIsMailed
    <2>5. LapsedIsFree'
        BY <1>1, <2>1 DEF InvitationsInv, LapsedIsFree, HasMade
    <2>6. OwedIsThere'
        <3> SUFFICES ASSUME NEW email \in owed \ (people \cup hurt)
                     PROVE  Of(email)' # {} \/ WillBe(email)'
            BY <1>1, <2>1 DEF OwedIsThere
        <3>1. \A i \in Of(email) : ~i.lapsed
            BY DEF Of, InvitationsInv, LapsedIsFree
        <3>2. Of(email)' = Of(email)
            BY <2>1, <3>1 DEF Of
        <3> QED BY <1>1, <3>2 DEF InvitationsInv, OwedIsThere, WillBe
    <2> QED BY <2>2, <2>3, <2>4, <2>5, <2>6 DEF InvitationsInv
<1>4. ASSUME NEW i \in invitations, Register(i) PROVE InvitationsTypes' /\ InvitationsInv'
    <2>1. i.email \in Emails /\ people' = people \cup {i.email} /\ UNCHANGED <<invitations, owed>>
        BY <1>4 DEF Register, InvitationsTypes, InvitationRows
    <2>2. InvitationsTypes'
        BY <1>1, <2>1 DEF InvitationsTypes
    <2>3. KeysNamed'
        <3>1. ASSUME NEW key, NEW email, Claimed(key, email)' PROVE Claimed(key, email)
            BY <1>1, <2>1, <3>1 DEF Claimed, HasMade
        <3> QED BY <1>1, <3>1, ClaimsKept
    <2>4. StepsKnown' /\ SentIsMailed'
        BY <1>1, <2>1 DEF InvitationsInv, StepsKnown, SentIsMailed
    <2>5. LapsedIsFree'
        BY <1>1, <2>1 DEF InvitationsInv, LapsedIsFree, HasMade
    <2>6. OwedIsThere'
        BY <1>1, <2>1 DEF InvitationsInv, OwedIsThere, WillBe, Of
    <2> QED BY <2>2, <2>3, <2>4, <2>5, <2>6 DEF InvitationsInv
<1> QED BY <1>2, <1>3, <1>4

LEMMA InvitationsKept == InvitationsSpec => [](InvitationsTypes /\ InvitationsInv)
<1>1. InvitationsInit => InvitationsTypes /\ InvitationsInv
    <2> SUFFICES ASSUME InvitationsInit PROVE InvitationsTypes /\ InvitationsInv
        OBVIOUS
    <2>1. NoResend \in Resends /\ resend.step = "idle" /\ resend.todo = {}
        BY DEF InvitationsInit, NoResend, Resends
    <2>2. \A r \in Inviting : invite[r].step = "idle"
        BY DEF InvitationsInit, NoInvite
    <2>3. InvitationsTypes
        BY <2>1, InvitationsAssumption DEF InvitationsInit, InvitationsTypes
    <2>4. KeysNamed
        BY <2>1, <2>2 DEF InvitationsInit, KeysNamed, Claimed, HasMade
    <2>5. StepsKnown /\ SentIsMailed /\ LapsedIsFree /\ OwedIsThere
        BY <2>1, <2>2 DEF InvitationsInit, StepsKnown, SentIsMailed, LapsedIsFree, OwedIsThere
    <2> QED BY <2>3, <2>4, <2>5 DEF InvitationsInv
<1>2. InvitationsTypes /\ InvitationsInv /\ [InvitationsNext]_inviteVars =>
          InvitationsTypes' /\ InvitationsInv'
    <2> SUFFICES ASSUME InvitationsTypes, InvitationsInv, [InvitationsNext]_inviteVars
                 PROVE  InvitationsTypes' /\ InvitationsInv'
        OBVIOUS
    <2>1. CASE UNCHANGED inviteVars
        <3>1. InvitationsTypes'
            BY <2>1 DEF inviteVars, InvitationsTypes
        <3>2. KeysNamed' /\ StepsKnown' /\ SentIsMailed'
            BY <2>1 DEF inviteVars, InvitationsInv, KeysNamed, Claimed, HasMade, StepsKnown, SentIsMailed
        <3>3. LapsedIsFree' /\ OwedIsThere'
            BY <2>1 DEF inviteVars, InvitationsInv, LapsedIsFree, HasMade, OwedIsThere, WillBe, Of
        <3> QED BY <3>1, <3>2, <3>3 DEF InvitationsInv
    <2> QED BY <2>1, InviteKeeps, DropUnsentKeeps, LooksKeep, DeleteLapsedKeeps, CreateKeeps,
               ChargeKeeps, MailKeeps, EndsKeep, MarkSentKeeps, ResendMarkKeeps, ResendKeeps, DaysKeep
            DEF InvitationsNext
<1> QED BY <1>1, <1>2, PTL DEF InvitationsSpec

\* An address that was mailed has an invitation when all is at rest, and no row
\* says that it was sent without a mail that was.
LEMMA AddressesReachable == InvitationsSpec => []Reachable
<1>1. InvitationsTypes /\ InvitationsInv => Reachable
    <2> SUFFICES ASSUME InvitationsTypes, InvitationsInv PROVE Reachable
        OBVIOUS
    <2>1. InvitationsTypeOK
        <3>1. \A r \in Inviting :
                 \/ invite[r] = NoInvite
                 \/ /\ invite[r].step \in {"drop", "look", "replace", "known", "create", "charge", "mail", "mark"}
                    /\ invite[r].email \in Emails /\ invite[r].key \in 0..MaxInvites
                    /\ invite[r].budget \in 0..Budget
            BY DEF InvitationsTypes, InviteRow
        <3>2. resend.step \in {"idle", "send", "mark"} /\ resend.todo \subseteq InvitationRows
            BY DEF InvitationsTypes, Resends
        <3> QED BY <3>1, <3>2 DEF InvitationsTypes, InvitationsTypeOK
    <2>2. ASSUME NEW email \in Emails, AtRest(email)
          PROVE  /\ \A i \in Of(email) : i.sent => [email |-> email, key |-> i.key] \in mailed
                 /\ email \in owed \ (people \cup hurt) => Of(email) # {}
        <3>1. \A i \in Of(email) : i.sent => [email |-> email, key |-> i.key] \in mailed
            BY DEF Of, InvitationsInv, SentIsMailed
        <3>2. ~WillBe(email)
            <4>1. \A r \in Inviting : invite[r].step # "idle" => invite[r].email # email
                BY <2>2, RequestsUnderWay DEF AtRest
            <4>2. resend.step = "mark" => resend.row \in resend.todo
                BY DEF InvitationsInv, StepsKnown
            <4> QED BY <2>2, <4>1, <4>2 DEF AtRest, WillBe
        <3> QED BY <3>1, <3>2 DEF InvitationsInv, OwedIsThere
    <2> QED BY <2>1, <2>2 DEF Reachable
<1> QED BY <1>1, InvitationsKept, PTL

-----------------------------------------------------------------------------
(* The purge of deleted objects.                                           *)

\* What the script holds of the listing.
ScanHolds == scan.page \cup Range(scan.group) \cup Range(scan.batch)

\* e may come first in a group that f is in: it is not older, and a marker
\* does not come before a version that was made after it.
Leads(e, f) == f.at <= e.at /\ (e.marker /\ ~f.marker => f.id < e.id)

\* Entries are told apart by their number, and were made in the order of it.
EntriesKnown ==
    \A e, f \in bucket \cup ScanHolds :
       /\ e.id <= made /\ e.at <= today
       /\ e.id = f.id => e = f
       /\ e.id < f.id => e.at <= f.at

\* What is noted of the last put or delete of a key is so: its entry is the
\* newest, and what it hid the newest before it.
LastKnown ==
    \A k \in Keys :
       /\ last[k].id <= made /\ last[k].at <= today
       /\ \A e \in bucket \cup ScanHolds : e.key = k =>
             /\ e.id <= last[k].id
             /\ e.id = last[k].id => e.marker = last[k].marker /\ e.at = last[k].at
       /\ \A e \in bucket : e.key = k =>
             /\ e.id < last[k].id => \A i \in last[k].hid : e.id <= i
             /\ e.id \in last[k].hid => ~e.marker

\* The newest entry of a key that was put last is there.  In a key that went
\* through the script as a whole, a version that a delete hid has a marker
\* after it, and what was deleted within the retention time is all there.
ReadsFit ==
    \A k \in Keys :
       /\ ~last[k].marker => \E e \in bucket : e.key = k /\ e.id = last[k].id
       /\ k \notin torn =>
            /\ last[k].marker => \A e \in bucket : e.key = k /\ ~e.marker =>
                 \E f \in bucket : f.key = k /\ f.marker /\ e.id < f.id
            /\ last[k].id # 0 /\ last[k].at + Retention > today =>
                 /\ \E e \in bucket : e.key = k /\ e.id = last[k].id
                 /\ \A i \in last[k].hid : \E e \in bucket : e.key = k /\ e.id = i
       /\ last[k].id = 0 => last[k].hid = {}

\* While there is another page, what the script holds was listed before it, and
\* a key of which some is held and some is not listed yet is torn.
ScanFits ==
    /\ scan.step # "idle" => scan.cutoff + Retention <= today
    /\ scan.after.id <= made
    /\ scan.step \in {"idle", "end"} => scan.page = {} /\ scan.group = <<>>
    /\ scan.step = "idle" => scan.batch = <<>>
    /\ scan.step = "more" =>
         /\ \A e \in ScanHolds : ~Before(scan.after, e)
         /\ \A e \in ScanHolds, f \in bucket :
              e.key = f.key /\ Before(scan.after, f) => e.key \in torn

\* A group is of one key and its first entry leads it; what the page still has
\* of the key may follow, and comes next unless the key is torn.
GroupFits ==
    /\ \A e \in Range(scan.group) : e.key = scan.group[1].key /\ Leads(scan.group[1], e)
    /\ \A e \in Range(scan.group), f \in scan.page : e.key = f.key =>
         /\ Leads(e, f)
         /\ e.key \notin torn => \A g \in scan.page : g.key <= e.key

\* The batch has nothing that is young or that a key was last put to, and of a
\* key that is not torn it has all the script holds, a marker at the end.
BatchFits ==
    \A e \in Range(scan.batch) :
       /\ e.at <= scan.cutoff
       /\ e.id = last[e.key].id => e.marker
       /\ e.key \notin torn =>
            /\ \A f \in scan.page \cup Range(scan.group) : f.key # e.key
            /\ e.marker \/ \E f \in Range(scan.batch) : f.key = e.key /\ f.marker /\ e.id < f.id

\* Of a key that is not torn the script holds entries that are there, and with
\* one all that are older.
HoldsWhole ==
    \A e \in ScanHolds : e.key \notin torn =>
       /\ e \in bucket
       /\ \A f \in bucket : f.key = e.key /\ f.id <= e.id => f \in ScanHolds

PurgeInv == /\ EntriesKnown /\ LastKnown /\ ReadsFit /\ ScanFits /\ GroupFits /\ BatchFits
            /\ HoldsWhole

\* What sequences hold after the steps of the script.
LEMMA HeldSeq ==
    ASSUME NEW s \in Seq(Entries)
    PROVE  /\ Range(s) \subseteq Entries
           /\ s = <<>> <=> Range(s) = {}
           /\ s # <<>> => s[1] \in Range(s)
BY LenProperties, EmptySeq DEF Range

LEMMA HeldAppend ==
    ASSUME NEW s \in Seq(Entries), NEW e \in Entries
    PROVE  /\ Append(s, e) \in Seq(Entries)
           /\ Range(Append(s, e)) = Range(s) \cup {e}
           /\ Append(s, e)[1] = IF s = <<>> THEN e ELSE s[1]
BY AppendProperties, LenProperties, EmptySeq DEF Range

LEMMA HeldOne ==
    ASSUME NEW e \in Entries
    PROVE  <<e>> \in Seq(Entries) /\ Range(<<e>>) = {e} /\ <<e>>[1] = e
BY DEF Range

LEMMA HeldEmpty == <<>> \in Seq(Entries) /\ Range(<<>>) = {}
BY EmptySeq DEF Range

LEMMA HeldConcat ==
    ASSUME NEW s \in Seq(Entries), NEW t \in Seq(Entries)
    PROVE  s \o t \in Seq(Entries) /\ Range(s \o t) = Range(s) \cup Range(t)
BY RangeConcatenation, ConcatProperties

LEMMA HeldCut ==
    ASSUME NEW s \in Seq(Entries), NEW n \in 0..Len(s)
    PROVE  /\ SubSeq(s, n + 1, Len(s)) \in Seq(Entries)
           /\ Range(SubSeq(s, 1, n)) \cup Range(SubSeq(s, n + 1, Len(s))) = Range(s)
<1>1. Len(s) \in Nat /\ DOMAIN s = 1..Len(s) /\ \A i \in 1..Len(s) : s[i] \in Entries
    BY LenProperties
<1> DEFINE a == SubSeq(s, 1, n)
           b == SubSeq(s, n + 1, Len(s))
<1>2. a \in Seq(Entries) /\ Len(a) = n /\ \A i \in 1..n : a[i] = s[i]
    BY <1>1, SubSeqProperties, 1 \in Int, n \in Int
<1>3. b \in Seq(Entries) /\ Len(b) = Len(s) - n /\ \A i \in 1..(Len(s) - n) : b[i] = s[n + i]
    <2> DEFINE m == n + 1
               l == Len(s)
    <2>1. m \in Int /\ l \in Int /\ \A i \in m..l : s[i] \in Entries
        BY <1>1
    <2> HIDE DEF m, l
    <2>a. /\ SubSeq(s, m, l) \in Seq(Entries)
          /\ Len(SubSeq(s, m, l)) = IF m <= l THEN l - m + 1 ELSE 0
          /\ \A i \in 1..(l - m + 1) : SubSeq(s, m, l)[i] = s[m + i - 1]
        BY <2>1, SubSeqProperties
    <2>2. /\ b \in Seq(Entries) /\ Len(b) = IF n + 1 <= Len(s) THEN Len(s) - (n + 1) + 1 ELSE 0
          /\ \A i \in 1..(Len(s) - (n + 1) + 1) : b[i] = s[(n + 1) + i - 1]
        BY <2>a DEF m, l
    <2> HIDE DEF b
    <2>3. Len(b) = Len(s) - n
        BY <1>1, <2>2
    <2>4. ASSUME NEW i \in 1..(Len(s) - n) PROVE b[i] = s[n + i]
        <3>1. i \in 1..(Len(s) - (n + 1) + 1) /\ (n + 1) + i - 1 = n + i
            BY <1>1
        <3> QED BY <2>2, <3>1
    <2> QED BY <2>2, <2>3, <2>4
<1>4. DOMAIN a = 1..n /\ DOMAIN b = 1..(Len(s) - n)
    BY <1>1, <1>2, <1>3, LenProperties
<1> HIDE DEF a, b
<1>5. ASSUME NEW i \in 1..Len(s) PROVE s[i] \in Range(a) \cup Range(b)
    <2>1. CASE i <= n
        BY <1>1, <1>2, <1>4, <2>1 DEF Range
    <2>2. CASE i > n
        <3>1. i - n \in 1..(Len(s) - n) /\ n + (i - n) = i
            BY <1>1, <2>2
        <3>2. b[i - n] = s[i]
            BY <1>3, <3>1
        <3> QED BY <1>4, <3>1, <3>2 DEF Range
    <2> QED BY <1>1, <2>1, <2>2
<1>6. Range(a) \subseteq Range(s)
    BY <1>1, <1>2, <1>4 DEF Range
<1>7. Range(b) \subseteq Range(s)
    <2>1. \A i \in 1..(Len(s) - n) : n + i \in 1..Len(s)
        BY <1>1
    <2> QED BY <1>1, <1>3, <1>4, <2>1 DEF Range
<1>8. Range(s) \subseteq Range(a) \cup Range(b)
    BY <1>1, <1>5 DEF Range
<1> QED BY <1>3, <1>6, <1>7, <1>8 DEF a, b

LEMMA ScanTypes ==
    ASSUME PurgeTypeOK
    PROVE  /\ scan.page \subseteq Entries /\ scan.group \in Seq(Entries) /\ scan.batch \in Seq(Entries)
           /\ scan.after \in [key: 0..LastKey, id: 0..MaxEntries] /\ scan.cutoff \in 0..MaxToday
           /\ scan.step \in {"idle", "more", "last", "end"}
           /\ ScanHolds \subseteq Entries /\ bucket \cup ScanHolds \subseteq Entries
<1>1. /\ scan.page \subseteq Entries /\ scan.group \in Seq(Entries) /\ scan.batch \in Seq(Entries)
      /\ scan.after \in [key: 0..LastKey, id: 0..MaxEntries] /\ scan.cutoff \in 0..MaxToday
      /\ scan.step \in {"idle", "more", "last", "end"}
    BY DEF PurgeTypeOK, Scans
<1>2. Range(scan.group) \subseteq Entries /\ Range(scan.batch) \subseteq Entries
    BY <1>1, HeldSeq
<1> QED BY <1>1, <1>2 DEF ScanHolds, PurgeTypeOK

\* A step that changes the script alone keeps the types if its fields have theirs.
LEMMA ScanStep ==
    ASSUME PurgeTypeOK, scan' \in Scans, UNCHANGED <<bucket, today, made, last>>, torn' \subseteq Keys
    PROVE  PurgeTypeOK'
BY DEF PurgeTypeOK

\* What the script has in hand at rest.
LEMMA AtRestHoldsNone ==
    ASSUME scan.page = {}, scan.group = <<>>, scan.batch = <<>>
    PROVE  ScanHolds = {}
BY HeldEmpty DEF ScanHolds

LEMMA NoScanType == NoScan \in Scans
BY PurgeAssumption, HeldEmpty DEF NoScan, Scans

\* At first there is nothing.
LEMMA PurgeStarts == ASSUME PurgeInit PROVE PurgeTypeOK /\ PurgeInv
<1> USE PurgeAssumption
<1>1. PurgeTypeOK
    BY NoScanType DEF PurgeInit, PurgeTypeOK
<1>2. /\ scan.page = {} /\ scan.group = <<>> /\ scan.batch = <<>> /\ scan.step = "idle"
      /\ scan.after.id = 0 /\ made = 0
    BY DEF PurgeInit, NoScan
<1>3. ScanHolds = {} /\ Range(scan.group) = {} /\ Range(scan.batch) = {} /\ bucket = {}
    BY <1>2, AtRestHoldsNone, HeldEmpty DEF PurgeInit
<1>4. \A k \in Keys : last[k].id = 0 /\ last[k].marker /\ last[k].at = 0 /\ last[k].hid = {}
    BY DEF PurgeInit
<1>5. LastKnown /\ ReadsFit
    BY <1>3, <1>4 DEF LastKnown, ReadsFit, PurgeInit
<1>6. ScanFits
    BY <1>2, <1>3 DEF ScanFits
<1> QED BY <1>1, <1>3, <1>5, <1>6 DEF PurgeInv, EntriesKnown, GroupFits, BatchFits, HoldsWhole

\* A put or a delete adds the newest entry of its key.
LEMMA WriteKeeps ==
    ASSUME PurgeTypeOK, PurgeInv, NEW k \in Keys, NEW marker \in BOOLEAN, Write(k, marker)
    PROVE  PurgeTypeOK' /\ PurgeInv'
<1> USE PurgeAssumption
<1> DEFINE new == [key |-> k, id |-> made + 1, marker |-> marker, at |-> today]
<1>1. /\ bucket' = bucket \cup {new} /\ made' = made + 1
      /\ scan' = scan /\ today' = today /\ torn' = torn
      /\ made \in Nat /\ made + 1 \in 1..MaxEntries /\ today \in 0..MaxToday
    BY DEF Write, PurgeTypeOK
<1>2. new \in Entries /\ new.key = k /\ new.id = made + 1 /\ new.marker = marker /\ new.at = today
    BY <1>1 DEF Entries
<1>3. Reads(k) \subseteq 1..MaxEntries
    BY DEF Reads, PurgeTypeOK, Entries
<1>4. /\ last' \in [Keys -> [id: 0..MaxEntries, marker: BOOLEAN, at: 0..MaxToday,
                             hid: SUBSET (1..MaxEntries)]]
      /\ last'[k].id = made + 1 /\ last'[k].marker = marker /\ last'[k].at = today
      /\ last'[k].hid = IF marker THEN Reads(k) ELSE {}
      /\ \A l \in Keys \ {k} : last'[l] = last[l]
    BY <1>1, <1>3 DEF Write, PurgeTypeOK
<1> HIDE DEF new
<1>5. PurgeTypeOK'
    BY <1>1, <1>2, <1>4 DEF PurgeTypeOK
<1>6. ScanHolds' = ScanHolds /\ ScanHolds \subseteq Entries /\ bucket \subseteq Entries
    BY <1>1, ScanTypes DEF ScanHolds, PurgeTypeOK
<1>7. \A e \in bucket \cup ScanHolds :
         e.id < made + 1 /\ e.at <= today /\ e # new /\ e.id \in Nat /\ e.at \in Nat /\ e.key \in Keys
    BY <1>1, <1>2, <1>6 DEF PurgeInv, EntriesKnown, Entries
<1>8. EntriesKnown'
    <2>1. ASSUME NEW e \in bucket' \cup ScanHolds', NEW f \in bucket' \cup ScanHolds'
          PROVE  /\ e.id <= made' /\ e.at <= today'
                 /\ e.id = f.id => e = f
                 /\ e.id < f.id => e.at <= f.at
        <3>1. /\ e \in bucket \cup ScanHolds \/ e = new
              /\ f \in bucket \cup ScanHolds \/ f = new
            BY <1>1, <1>6, <2>1
        <3>2. CASE e \in bucket \cup ScanHolds /\ f \in bucket \cup ScanHolds
            <4>1. /\ e.id = f.id => e = f
                  /\ e.id < f.id => e.at <= f.at
                BY <3>2 DEF PurgeInv, EntriesKnown
            <4> QED BY <1>1, <1>7, <3>2, <4>1
        <3>3. CASE e = new
            BY <1>1, <1>2, <1>7, <3>1, <3>3
        <3>4. CASE f = new
            BY <1>1, <1>2, <1>7, <3>1, <3>4
        <3> QED BY <3>1, <3>2, <3>3, <3>4
    <2> QED BY <2>1 DEF EntriesKnown
<1>9. LastKnown'
    <2>1. ASSUME NEW l \in Keys
          PROVE  /\ last'[l].id <= made' /\ last'[l].at <= today'
                 /\ \A e \in bucket' \cup ScanHolds' : e.key = l =>
                       /\ e.id <= last'[l].id
                       /\ e.id = last'[l].id => e.marker = last'[l].marker /\ e.at = last'[l].at
                 /\ \A e \in bucket' : e.key = l =>
                       /\ e.id < last'[l].id => \A i \in last'[l].hid : e.id <= i
                       /\ e.id \in last'[l].hid => ~e.marker
        <3>1. CASE l = k
            <4>1. \A e \in bucket' \cup ScanHolds' : e.key = l =>
                       /\ e.id <= last'[l].id
                       /\ e.id = last'[l].id => e.marker = last'[l].marker /\ e.at = last'[l].at
                BY <1>1, <1>2, <1>4, <1>6, <1>7, <3>1
            <4>2. ASSUME NEW e \in bucket', e.key = l, e.id < last'[l].id, NEW i \in last'[l].hid
                  PROVE  e.id <= i
                <5>1. e \in bucket /\ i \in Reads(k)
                    BY <1>1, <1>2, <1>4, <3>1, <4>2
                <5> QED BY <3>1, <4>2, <5>1 DEF Reads
            <4>3. ASSUME NEW e \in bucket', e.key = l, e.id \in last'[l].hid
                  PROVE  ~e.marker
                <5>1. e.id \in Reads(k)
                    BY <1>4, <3>1, <4>3
                <5>2. PICK f \in bucket : f.id = e.id /\ ~f.marker
                    BY <5>1 DEF Reads
                <5>3. e \in bucket
                    BY <1>1, <1>2, <1>7, <5>2
                <5>4. e = f
                    BY <5>2, <5>3 DEF PurgeInv, EntriesKnown
                <5> QED BY <5>2, <5>4
            <4>4. last'[l].id <= made' /\ last'[l].at <= today'
                BY <1>1, <1>4, <3>1
            <4> QED BY <4>1, <4>2, <4>3, <4>4
        <3>2. CASE l # k
            <4>1. last'[l] = last[l] /\ \A e \in bucket' : e.key = l => e \in bucket
                BY <1>1, <1>2, <1>4, <3>2
            <4>2. last[l].id <= made /\ last[l].id \in Nat
                BY DEF PurgeInv, LastKnown, PurgeTypeOK
            <4>3. last'[l].id <= made' /\ last'[l].at <= today'
                BY <1>1, <4>1, <4>2 DEF PurgeInv, LastKnown
            <4>4. \A e \in bucket' \cup ScanHolds' : e.key = l => e \in bucket \cup ScanHolds
                BY <1>6, <4>1
            <4> QED BY <4>1, <4>3, <4>4 DEF PurgeInv, LastKnown
        <3> QED BY <3>1, <3>2
    <2> QED BY <2>1 DEF LastKnown
<1>10. ReadsFit'
    <2>1. ASSUME NEW l \in Keys
          PROVE  /\ ~last'[l].marker => \E e \in bucket' : e.key = l /\ e.id = last'[l].id
                 /\ l \notin torn' =>
                      /\ last'[l].marker => \A e \in bucket' : e.key = l /\ ~e.marker =>
                           \E f \in bucket' : f.key = l /\ f.marker /\ e.id < f.id
                      /\ last'[l].id # 0 /\ last'[l].at + Retention > today' =>
                           /\ \E e \in bucket' : e.key = l /\ e.id = last'[l].id
                           /\ \A i \in last'[l].hid : \E e \in bucket' : e.key = l /\ e.id = i
                 /\ last'[l].id = 0 => last'[l].hid = {}
        <3>1. CASE l = k
            <4>1. new \in bucket'
                BY <1>1
            <4>2. \A i \in last'[l].hid : \E e \in bucket' : e.key = l /\ e.id = i
                BY <1>1, <1>4, <3>1 DEF Reads
            <4>3. ASSUME last'[l].marker, NEW e \in bucket', e.key = l, ~e.marker
                  PROVE  \E f \in bucket' : f.key = l /\ f.marker /\ e.id < f.id
                <5>1. new.marker /\ new.key = l /\ new.id = made + 1
                    BY <1>2, <1>4, <3>1, <4>3
                <5>2. e.id < made + 1
                    BY <1>1, <1>7, <4>3, <5>1
                <5> QED BY <4>1, <5>1, <5>2
            <4> QED BY <1>1, <1>2, <1>4, <3>1, <4>1, <4>2, <4>3
        <3>2. CASE l # k
            <4>1. last'[l] = last[l] /\ bucket \subseteq bucket' /\ \A e \in bucket' : e.key = l => e \in bucket
                BY <1>1, <1>2, <1>4, <3>2
            <4> QED BY <1>1, <4>1 DEF PurgeInv, ReadsFit
        <3> QED BY <3>1, <3>2
    <2> QED BY <2>1 DEF ReadsFit
<1>11. ScanFits'
    <2>1. ASSUME scan.step = "more", NEW e \in ScanHolds, NEW f \in bucket',
                 e.key = f.key, Before(scan.after, f)
          PROVE  e.key \in torn
        <3>1. CASE f \in bucket
            BY <2>1, <3>1 DEF PurgeInv, ScanFits
        <3>2. CASE f = new
            <4>1. scan.after.key \in Nat /\ scan.after.id \in Nat /\ k \in Nat
                BY ScanTypes DEF Keys
            <4>2. scan.after.id <= made
                BY DEF PurgeInv, ScanFits
            <4>3. scan.after.key < k
                BY <1>1, <1>2, <2>1, <3>2, <4>1, <4>2 DEF Before
            <4>4. Before(scan.after, e)
                BY <1>2, <2>1, <3>2, <4>3 DEF Before
            <4> QED BY <2>1, <4>4 DEF PurgeInv, ScanFits
        <3> QED BY <1>1, <3>1, <3>2
    <2>2. scan.after.id <= made + 1
        BY <1>1, ScanTypes DEF PurgeInv, ScanFits
    <2> QED BY <1>1, <1>6, <2>1, <2>2 DEF PurgeInv, ScanFits, Before
<1>12. GroupFits'
    BY <1>1 DEF PurgeInv, GroupFits, Leads
<1>13. BatchFits'
    <2>1. ASSUME NEW e \in Range(scan.batch), e.id = last'[e.key].id PROVE e.marker
        <3>1. e \in ScanHolds
            BY <2>1 DEF ScanHolds
        <3>2. e.key # k
            BY <1>4, <1>7, <2>1, <3>1
        <3>3. last'[e.key] = last[e.key]
            BY <1>4, <1>7, <3>1, <3>2
        <3> QED BY <2>1, <3>3 DEF PurgeInv, BatchFits
    <2> QED BY <1>1, <2>1 DEF PurgeInv, BatchFits
<1>14. HoldsWhole'
    <2>1. ASSUME NEW e \in ScanHolds, e.key \notin torn,
                 NEW f \in bucket', f.key = e.key, f.id <= e.id
          PROVE  f \in ScanHolds
        <3>1. f \in bucket
            BY <1>1, <1>2, <1>7, <2>1
        <3> QED BY <2>1, <3>1 DEF PurgeInv, HoldsWhole
    <2> QED BY <1>1, <1>6, <2>1 DEF PurgeInv, HoldsWhole
<1> QED BY <1>5, <1>8, <1>9, <1>10, <1>11, <1>12, <1>13, <1>14 DEF PurgeInv

LEMMA TickKeeps == ASSUME PurgeTypeOK, PurgeInv, Tick PROVE PurgeTypeOK' /\ PurgeInv'
<1> USE PurgeAssumption
<1>1. /\ today' = today + 1 /\ today \in Nat /\ today + 1 \in 0..MaxToday /\ bucket' = bucket
      /\ made' = made /\ scan' = scan /\ last' = last /\ torn' = torn
    BY DEF Tick, PurgeTypeOK
<1>2. ScanHolds' = ScanHolds /\ bucket \cup ScanHolds \subseteq Entries
    BY <1>1, ScanTypes DEF ScanHolds
<1>3. \A x \in Int : x <= today => x <= today + 1
    BY <1>1
<1>4. PurgeTypeOK'
    BY <1>1 DEF PurgeTypeOK
<1>5. EntriesKnown' /\ LastKnown'
    <2>1. \A e \in bucket \cup ScanHolds : e.at \in Int
        BY <1>2 DEF Entries
    <2>2. \A k \in Keys : last[k].at \in Int
        BY DEF PurgeTypeOK
    <2> QED BY <1>1, <1>2, <1>3, <2>1, <2>2 DEF PurgeInv, EntriesKnown, LastKnown
<1>6. ReadsFit'
    <2>1. \A k \in Keys : last[k].at + Retention > today + 1 => last[k].at + Retention > today
        BY <1>1 DEF PurgeTypeOK
    <2> QED BY <1>1, <2>1 DEF PurgeInv, ReadsFit
<1>7. ScanFits'
    <2>1. scan.cutoff + Retention \in Int
        BY ScanTypes
    <2> QED BY <1>1, <1>2, <1>3, <2>1 DEF PurgeInv, ScanFits, Before
<1>8. GroupFits' /\ BatchFits' /\ HoldsWhole'
    BY <1>1, <1>2 DEF PurgeInv, GroupFits, Leads, BatchFits, HoldsWhole
<1> QED BY <1>4, <1>5, <1>6, <1>7, <1>8 DEF PurgeInv

LEMMA StartScanKeeps == ASSUME PurgeTypeOK, PurgeInv, StartScan PROVE PurgeTypeOK' /\ PurgeInv'
<1> USE PurgeAssumption
<1>1. UNCHANGED <<bucket, today, made, last, torn>> /\ today \in 0..MaxToday /\ today >= Retention
    BY DEF StartScan, PurgeTypeOK
<1>2. scan' = [NoScan EXCEPT !.step = "more", !.cutoff = today - Retention]
    BY DEF StartScan
<1>3. today - Retention \in 0..MaxToday /\ (today - Retention) + Retention = today
    BY <1>1
<1>4. scan' \in Scans
    BY <1>2, <1>3, NoScanType DEF Scans
<1>5. /\ scan'.page = {} /\ scan'.group = <<>> /\ scan'.batch = <<>> /\ scan'.step = "more"
      /\ scan'.cutoff = today - Retention /\ scan'.after.id = 0
    BY <1>2 DEF NoScan
<1>6. ScanHolds' = {} /\ Range(scan'.group) = {} /\ Range(scan'.batch) = {}
    BY <1>5, HeldEmpty DEF ScanHolds
<1>7. PurgeTypeOK'
    BY <1>1, <1>4, ScanStep DEF PurgeTypeOK
<1>8. EntriesKnown' /\ LastKnown' /\ ReadsFit'
    BY <1>1, <1>6 DEF PurgeInv, EntriesKnown, LastKnown, ReadsFit
<1>9. ScanFits'
    <2>1. 0 <= made
        BY DEF PurgeTypeOK
    <2> QED BY <1>1, <1>3, <1>5, <1>6, <2>1 DEF ScanFits
<1> QED BY <1>5, <1>6, <1>7, <1>8, <1>9 DEF PurgeInv, GroupFits, BatchFits, HoldsWhole

LEMMA EndScanKeeps == ASSUME PurgeTypeOK, PurgeInv, EndScan PROVE PurgeTypeOK' /\ PurgeInv'
<1> USE PurgeAssumption
<1>1. UNCHANGED <<bucket, today, made, last, torn>> /\ scan' = NoScan
    BY DEF EndScan
<1>2. /\ scan'.page = {} /\ scan'.group = <<>> /\ scan'.batch = <<>> /\ scan'.step = "idle"
      /\ scan'.after.id = 0
    BY <1>1 DEF NoScan
<1>3. ScanHolds' = {} /\ Range(scan'.group) = {} /\ Range(scan'.batch) = {}
    BY <1>2, HeldEmpty DEF ScanHolds
<1>4. PurgeTypeOK'
    BY <1>1, ScanStep, NoScanType DEF PurgeTypeOK
<1>5. EntriesKnown' /\ LastKnown' /\ ReadsFit'
    BY <1>1, <1>3 DEF PurgeInv, EntriesKnown, LastKnown, ReadsFit
<1>6. ScanFits'
    <2>1. 0 <= made
        BY DEF PurgeTypeOK
    <2> QED BY <1>1, <1>2, <1>3, <2>1 DEF ScanFits
<1> QED BY <1>2, <1>3, <1>4, <1>5, <1>6 DEF PurgeInv, GroupFits, BatchFits, HoldsWhole

\* The order of the listing.
LEMMA ListingOrder ==
    ASSUME NEW a \in [key: 0..LastKey, id: 0..MaxEntries],
           NEW e \in Entries, NEW f \in Entries
    PROVE  /\ Before(a, e) /\ e.key = f.key /\ f.id <= e.id => Before(a, f)
           /\ Before(a, e) /\ Before(e, f) => Before(a, f)
           /\ Before(a, f) /\ ~Before(a, e) /\ e.key = f.key => f.id < e.id
           /\ Before(e, f) => ~Before(f, e) /\ e # f
           /\ ~Before(e, e)
BY PurgeAssumption DEF Before, Entries, Keys

\* What a page of entries not yet listed does to the invariant: nothing that the
\* script holds is touched, and what is held of the keys of the page is torn.
LEMMA PageKeeps ==
    ASSUME PurgeTypeOK, PurgeInv, scan.step = "more", scan.page = {},
           UNCHANGED <<bucket, today, made, last>>,
           NEW page, NEW step \in {"more", "last"}, NEW after \in [key: 0..LastKey, id: 0..MaxEntries],
           page \subseteq {e \in bucket : Before(scan.after, e)},
           scan' = [scan EXCEPT !.page = page, !.step = step, !.after = after],
           torn \subseteq torn', torn' \subseteq Keys, after.id <= made,
           \A e \in page, f \in bucket :
              e.key = f.key /\ Before(scan.after, f) => f \in page \/ e.key \in torn',
           step = "more" => /\ \A e \in page \cup ScanHolds : ~Before(after, e)
                            /\ \A f \in bucket : Before(after, f) => Before(scan.after, f) /\ f \notin page
    PROVE  PurgeTypeOK' /\ PurgeInv'
<1> USE PurgeAssumption
<1>0. bucket \subseteq Entries /\ page \subseteq Entries /\ page \subseteq bucket
    BY DEF PurgeTypeOK
<1>1. /\ scan'.page = page /\ scan'.group = scan.group /\ scan'.batch = scan.batch
      /\ scan'.step = step /\ scan'.after = after /\ scan'.cutoff = scan.cutoff /\ scan' \in Scans
    BY <1>0 DEF PurgeTypeOK, Scans
<1>2. PurgeTypeOK'
    BY <1>1, ScanStep
<1>3. ScanHolds' = page \cup ScanHolds /\ ScanHolds = Range(scan.group) \cup Range(scan.batch)
    BY <1>1 DEF ScanHolds
<1>4. ScanHolds \subseteq Entries /\ scan.after \in [key: 0..LastKey, id: 0..MaxEntries]
    BY ScanTypes
<1>5. ASSUME NEW e \in ScanHolds, NEW f \in page, e.key = f.key
      PROVE  e.key \in torn /\ f.id < e.id
    <2>1. ~Before(scan.after, e) /\ e.key \in torn
        BY <1>0, <1>5 DEF PurgeInv, ScanFits
    <2> QED BY <1>0, <1>4, <1>5, <2>1, ListingOrder
<1>6. bucket' = bucket /\ bucket' \cup ScanHolds' = bucket \cup ScanHolds /\ made' = made
      /\ today' = today /\ last' = last
    BY <1>0, <1>3
<1>7. EntriesKnown' /\ LastKnown'
    BY <1>6 DEF PurgeInv, EntriesKnown, LastKnown
<1>8. ReadsFit'
    BY <1>6 DEF PurgeInv, ReadsFit
<1>9. ScanFits'
    <2>1. ASSUME step = "more", NEW e \in page \cup ScanHolds, NEW f \in bucket,
                 e.key = f.key, Before(after, f)
          PROVE  e.key \in torn'
        <3>1. Before(scan.after, f) /\ f \notin page
            BY <2>1
        <3>2. CASE e \in page
            BY <2>1, <3>1, <3>2
        <3>3. CASE e \in ScanHolds
            BY <2>1, <3>1, <3>3 DEF PurgeInv, ScanFits
        <3> QED BY <2>1, <3>2, <3>3
    <2>2. step = "more" => \A e \in ScanHolds' : ~Before(scan'.after, e)
        BY <1>1, <1>3
    <2>3. scan.cutoff + Retention <= today
        BY DEF PurgeInv, ScanFits
    <2> QED BY <1>1, <1>3, <1>6, <2>1, <2>2, <2>3 DEF ScanFits
<1>10. GroupFits'
    <2>1. ASSUME NEW e \in Range(scan.group), NEW f \in page, e.key = f.key
          PROVE  Leads(e, f) /\ e.key \in torn'
        <3>1. e \in ScanHolds
            BY <1>3, <2>1
        <3>2. e.key \in torn /\ f.id < e.id
            BY <1>5, <2>1, <3>1
        <3>3. f.at <= e.at
            BY <1>0, <2>1, <3>1, <3>2 DEF PurgeInv, EntriesKnown
        <3> QED BY <3>2, <3>3 DEF Leads
    <2> QED BY <1>1, <2>1 DEF PurgeInv, GroupFits, Leads
<1>11. BatchFits'
    <2>1. ASSUME NEW e \in Range(scan.batch), e.key \notin torn'
          PROVE  \A f \in page \cup Range(scan.group) : f.key # e.key
        BY <1>3, <1>5, <2>1 DEF PurgeInv, BatchFits
    <2> QED BY <1>1, <1>6, <2>1 DEF PurgeInv, BatchFits
<1>12. HoldsWhole'
    <2>1. ASSUME NEW e \in ScanHolds', e.key \notin torn'
          PROVE  e \in bucket /\ \A f \in bucket : f.key = e.key /\ f.id <= e.id => f \in ScanHolds'
        <3>1. CASE e \in page
            <4>1. ASSUME NEW f \in bucket, f.key = e.key, f.id <= e.id PROVE f \in page
                <5>1. Before(scan.after, f)
                    BY <1>0, <1>4, <3>1, <4>1, ListingOrder
                <5> QED BY <2>1, <3>1, <4>1, <5>1
            <4> QED BY <1>0, <1>3, <3>1, <4>1
        <3>2. CASE e \in ScanHolds
            BY <1>3, <2>1, <3>2 DEF PurgeInv, HoldsWhole
        <3> QED BY <1>3, <2>1, <3>1, <3>2
    <2> QED BY <1>6, <2>1 DEF HoldsWhole
<1> QED BY <1>2, <1>7, <1>8, <1>9, <1>10, <1>11, <1>12 DEF PurgeInv

LEMMA FetchPageKeeps == ASSUME PurgeTypeOK, PurgeInv, FetchPage PROVE PurgeTypeOK' /\ PurgeInv'
<1> USE PurgeAssumption
<1> DEFINE rest == {e \in bucket : Before(scan.after, e)}
<1>1. scan.step = "more" /\ scan.page = {} /\ UNCHANGED <<bucket, today, made, last>>
    BY DEF FetchPage
<1>2. scan.after \in [key: 0..LastKey, id: 0..MaxEntries] /\ scan.after.id <= made /\ bucket \subseteq Entries
    BY ScanTypes DEF PurgeTypeOK, PurgeInv, ScanFits
<1>3. scan = [step |-> scan.step, cutoff |-> scan.cutoff, after |-> scan.after, page |-> scan.page,
              group |-> scan.group, batch |-> scan.batch]
    BY DEF PurgeTypeOK, Scans
<1>4. CASE Cardinality(rest) <= PageSize
    <2>1. scan' = [scan EXCEPT !.page = rest, !.step = "last"] /\ torn' = torn
        BY <1>4 DEF FetchPage
    <2>2. scan' = [scan EXCEPT !.page = rest, !.step = "last", !.after = scan.after]
        BY <1>3, <2>1
    <2>3. torn' \subseteq Keys
        BY <2>1 DEF PurgeTypeOK
    <2> QED BY <1>1, <1>2, <2>1, <2>2, <2>3, PageKeeps
<1>5. CASE ~(Cardinality(rest) <= PageSize)
    <2>a. \E page \in SUBSET rest : \E end \in page :
            /\ \A e \in page \ {end} : Before(e, end)
            /\ \A e \in rest \ page : Before(end, e)
            /\ scan' = [scan EXCEPT !.page = page, !.after = [key |-> end.key, id |-> end.id]]
            /\ torn' = torn \cup (KeysIn(page) \cap KeysIn(rest \ page))
        BY <1>5 DEF FetchPage
    <2>b. PICK page \in SUBSET rest : \E end \in page :
            /\ \A e \in page \ {end} : Before(e, end)
            /\ \A e \in rest \ page : Before(end, e)
            /\ scan' = [scan EXCEPT !.page = page, !.after = [key |-> end.key, id |-> end.id]]
            /\ torn' = torn \cup (KeysIn(page) \cap KeysIn(rest \ page))
        BY <2>a
    <2>1. PICK end \in page :
            /\ \A e \in page \ {end} : Before(e, end)
            /\ \A e \in rest \ page : Before(end, e)
            /\ scan' = [scan EXCEPT !.page = page, !.after = [key |-> end.key, id |-> end.id]]
            /\ torn' = torn \cup (KeysIn(page) \cap KeysIn(rest \ page))
        BY <2>b
    <2> DEFINE after == [key |-> end.key, id |-> end.id]
    <2>2. end \in Entries /\ end \in bucket /\ page \subseteq Entries /\ Before(scan.after, end)
        BY <1>2, <2>1
    <2>3. after \in [key: 0..LastKey, id: 0..MaxEntries] /\ after.id <= made
        BY <2>2 DEF Entries, Keys, PurgeInv, EntriesKnown
    <2>4. scan' = [scan EXCEPT !.page = page, !.step = "more", !.after = after]
        BY <1>1, <1>3, <2>1
    <2>5. \A e : Before(after, e) <=> Before(end, e)
        BY DEF Before
    <2>6. torn \subseteq torn' /\ torn' \subseteq Keys
        BY <2>1, <2>2 DEF KeysIn, Entries, PurgeTypeOK
    <2>7. ASSUME NEW e \in page, NEW f \in bucket, e.key = f.key, Before(scan.after, f), f \notin page
          PROVE  e.key \in torn'
        BY <2>1, <2>7 DEF KeysIn
    <2>8. ASSUME NEW e \in page \cup ScanHolds PROVE ~Before(end, e)
        <3>1. CASE e \in page
            BY <1>2, <2>1, <2>2, <3>1, ListingOrder
        <3>2. CASE e \in ScanHolds
            <4>1. ~Before(scan.after, e) /\ e \in Entries
                BY <1>1, <3>2, ScanTypes DEF PurgeInv, ScanFits
            <4> QED BY <1>2, <2>2, <4>1, ListingOrder
        <3> QED BY <2>8, <3>1, <3>2
    <2>9. ASSUME NEW f \in bucket, Before(end, f) PROVE Before(scan.after, f) /\ f \notin page
        <3>1. Before(scan.after, f)
            BY <1>2, <2>2, <2>9, ListingOrder
        <3>2. f \notin page
            BY <2>8, <2>9
        <3> QED BY <3>1, <3>2
    <2> HIDE DEF after
    <2> QED BY <1>1, <2>1, <2>3, <2>4, <2>5, <2>6, <2>7, <2>8, <2>9, PageKeeps
<1> QED BY <1>4, <1>5

\* The order of a page: who comes first leads those of its key.
LEMMA SoonerLeads ==
    ASSUME EntriesKnown, NEW e \in bucket \cup ScanHolds, NEW f \in bucket \cup ScanHolds,
           e \in Entries, f \in Entries, Sooner(e, f)
    PROVE  f.key <= e.key /\ (e.key = f.key => Leads(e, f))
<1>1. f.key <= e.key
    BY DEF Sooner, Entries, Keys
<1>2. ASSUME e.key = f.key PROVE f.at <= e.at
    BY <1>2 DEF Sooner, Entries, Keys
<1>3. ASSUME e.key = f.key, e.marker, ~f.marker PROVE f.id < e.id
    <2>0. e.key > f.key \/ e.at > f.at
        BY Zenon, <1>3 DEF Sooner
    <2>1. f.at < e.at
        BY <1>3, <2>0 DEF Entries, Keys
    <2>2. ~(e.id < f.id) /\ e.id # f.id
        BY <2>1 DEF EntriesKnown, Entries
    <2> QED BY <2>2 DEF Entries
<1> QED BY <1>1, <1>2, <1>3 DEF Leads

\* A group that is complete leaves the hands of the script, or goes to the batch,
\* as a whole.
LEMMA GroupGoes ==
    ASSUME PurgeTypeOK, PurgeInv, UNCHANGED <<bucket, today, made, last, torn>>,
           scan'.page \cup Range(scan'.group) = scan.page,
           scan'.batch = scan.batch \o Purged(scan.group), scan'.cutoff = scan.cutoff,
           \A e \in Range(scan.group), f \in scan.page : e.key \notin torn => f.key # e.key
    PROVE  /\ ScanHolds' \subseteq ScanHolds
           /\ EntriesKnown' /\ LastKnown' /\ ReadsFit' /\ BatchFits' /\ HoldsWhole'
<1> DEFINE P == Range(Purged(scan.group))
<1>1. scan.group \in Seq(Entries) /\ scan.batch \in Seq(Entries) /\ ScanHolds \subseteq Entries
    BY ScanTypes
<1>2. Purged(scan.group) \in Seq(Entries)
    BY <1>1, HeldEmpty DEF Purged
<1>3. Range(scan'.batch) = Range(scan.batch) \cup P
    BY <1>1, <1>2, HeldConcat
<1>4. P \subseteq Range(scan.group)
    BY HeldEmpty DEF Purged
<1>5. ScanHolds' = scan.page \cup Range(scan.batch) \cup P
    BY <1>3 DEF ScanHolds
<1>6. ScanHolds' \subseteq ScanHolds
    BY <1>4, <1>5 DEF ScanHolds
<1>7. EntriesKnown' /\ LastKnown' /\ ReadsFit'
    BY <1>6 DEF PurgeInv, EntriesKnown, LastKnown, ReadsFit
<1>8. ASSUME NEW e \in P
      PROVE  /\ P = Range(scan.group) /\ scan.group[1] \in P /\ scan.group[1].marker
             /\ scan.group[1].at <= scan.cutoff
             /\ e.key = scan.group[1].key /\ Leads(scan.group[1], e)
    <2>1. Purgeable(scan.group)
        BY <1>8, HeldEmpty DEF Purged
    <2>2. P = Range(scan.group)
        BY <2>1 DEF Purged
    <2>3. scan.group[1] \in P
        BY <1>1, <2>1, <2>2, HeldSeq DEF Purgeable
    <2> QED BY <1>8, <2>1, <2>2, <2>3 DEF Purgeable, PurgeInv, GroupFits
<1> HIDE DEF P
<1>9. BatchFits'
    <2>1. ASSUME NEW e \in P
          PROVE  /\ e.at <= scan.cutoff
                 /\ e.id = last[e.key].id => e.marker
                 /\ e.key \notin torn =>
                      /\ \A f \in scan.page : f.key # e.key
                      /\ e.marker \/ \E f \in P : f.key = e.key /\ f.marker /\ e.id < f.id
        <3>1. e \in Entries /\ scan.group[1] \in Entries /\ scan.group[1] \in ScanHolds
            BY <1>1, <1>4, <1>8 DEF ScanHolds
        <3>2. e.at <= scan.cutoff
            BY <1>8, <3>1, ScanTypes DEF Leads, Entries
        <3>3. ~e.marker => e.id < scan.group[1].id
            BY <1>8 DEF Leads
        <3>4. scan.group[1].id <= last[e.key].id
            BY <1>8, <3>1 DEF PurgeInv, LastKnown, Entries
        <3>5. last[e.key].id \in Nat
            BY <3>1 DEF PurgeTypeOK, Entries
        <3>6. e.id = last[e.key].id => e.marker
            BY <3>1, <3>3, <3>4, <3>5 DEF Entries
        <3> QED BY <1>4, <1>8, <3>2, <3>3, <3>6
    <2>2. ASSUME NEW e \in Range(scan.batch)
          PROVE  /\ e.at <= scan.cutoff
                 /\ e.id = last[e.key].id => e.marker
                 /\ e.key \notin torn =>
                      /\ \A f \in scan.page : f.key # e.key
                      /\ e.marker \/ \E f \in Range(scan.batch) :
                                        f.key = e.key /\ f.marker /\ e.id < f.id
        BY DEF PurgeInv, BatchFits
    <2> QED BY <1>3, <2>1, <2>2 DEF BatchFits
<1>10. HoldsWhole'
    <2>1. ASSUME NEW e \in ScanHolds', e.key \notin torn, NEW f \in bucket,
                 f.key = e.key, f.id <= e.id, f \notin ScanHolds'
          PROVE  FALSE
        <3>1. f \in ScanHolds
            BY <1>6, <2>1 DEF PurgeInv, HoldsWhole
        <3>2. f \in Range(scan.group)
            BY <1>5, <2>1, <3>1 DEF ScanHolds
        <3>3. e \notin scan.page
            BY <2>1, <3>2
        <3>4. e \notin Range(scan.batch)
            BY <2>1, <3>2 DEF PurgeInv, BatchFits
        <3>5. e \in P
            BY <1>5, <2>1, <3>3, <3>4
        <3> QED BY <1>5, <1>8, <2>1, <3>2, <3>5
    <2> QED BY <1>6, <2>1 DEF PurgeInv, HoldsWhole
<1> QED BY <1>6, <1>7, <1>9, <1>10

LEMMA YieldLastGroupKeeps ==
    ASSUME PurgeTypeOK, PurgeInv, YieldLastGroup
    PROVE  PurgeTypeOK' /\ PurgeInv'
<1>1. /\ UNCHANGED <<bucket, today, made, last, torn>> /\ scan.page = {} /\ scan.step = "last"
      /\ scan' = [scan EXCEPT !.step = "end", !.group = <<>>, !.batch = @ \o Purged(scan.group)]
    BY DEF YieldLastGroup
<1>2. scan \in Scans /\ scan.group \in Seq(Entries) /\ scan.batch \in Seq(Entries)
    BY ScanTypes DEF PurgeTypeOK
<1>3. Purged(scan.group) \in Seq(Entries)
    BY <1>2, HeldEmpty DEF Purged
<1>4. scan.batch \o Purged(scan.group) \in Seq(Entries)
    BY <1>2, <1>3, HeldConcat
<1>5. /\ scan' \in Scans /\ scan'.page = {} /\ scan'.group = <<>> /\ scan'.step = "end"
      /\ scan'.batch = scan.batch \o Purged(scan.group) /\ scan'.cutoff = scan.cutoff
      /\ scan'.after = scan.after
    BY <1>1, <1>2, <1>4, HeldEmpty DEF Scans
<1>6. PurgeTypeOK'
    BY <1>1, <1>5, ScanStep DEF PurgeTypeOK
<1>7. Range(scan'.group) = {}
    BY <1>5, HeldEmpty
<1>8. EntriesKnown' /\ LastKnown' /\ ReadsFit' /\ BatchFits' /\ HoldsWhole'
    BY <1>1, <1>5, <1>7, GroupGoes
<1>9. ScanFits'
    BY <1>1, <1>5 DEF PurgeInv, ScanFits
<1> QED BY <1>5, <1>6, <1>7, <1>8, <1>9 DEF PurgeInv, GroupFits

LEMMA YieldVersionKeeps ==
    ASSUME PurgeTypeOK, PurgeInv, YieldVersion
    PROVE  PurgeTypeOK' /\ PurgeInv'
<1>1. PICK e \in scan.page :
        /\ \A f \in scan.page \ {e} : Sooner(e, f)
        /\ scan' = IF scan.group = <<>> \/ scan.group[1].key = e.key
                   THEN [scan EXCEPT !.page = @ \ {e}, !.group = Append(@, e)]
                   ELSE [scan EXCEPT !.page = @ \ {e}, !.group = <<e>>,
                                     !.batch = @ \o Purged(scan.group)]
    BY DEF YieldVersion
<1>2. UNCHANGED <<bucket, today, made, last, torn>>
    BY DEF YieldVersion
<1>3. /\ scan \in Scans /\ scan.group \in Seq(Entries) /\ scan.batch \in Seq(Entries)
      /\ scan.page \subseteq Entries /\ e \in Entries /\ ScanHolds \subseteq Entries
    BY ScanTypes DEF PurgeTypeOK
<1>4. scan.page \subseteq ScanHolds /\ Range(scan.group) \subseteq ScanHolds
    BY DEF ScanHolds
<1>5. \A f \in scan.page \ {e} : f.key <= e.key /\ (e.key = f.key => Leads(e, f))
    BY <1>1, <1>3, <1>4, SoonerLeads DEF PurgeInv
<1>6. Leads(e, e)
    BY <1>3 DEF Leads, Entries
<1>7. scan.step \in {"more", "last"}
    BY ScanTypes DEF PurgeInv, ScanFits
<1>8. CASE scan.group = <<>> \/ scan.group[1].key = e.key
    <2>1. scan' = [scan EXCEPT !.page = @ \ {e}, !.group = Append(@, e)]
        BY <1>1, <1>8
    <2>2. /\ Append(scan.group, e) \in Seq(Entries)
          /\ Range(Append(scan.group, e)) = Range(scan.group) \cup {e}
          /\ Append(scan.group, e)[1] = IF scan.group = <<>> THEN e ELSE scan.group[1]
        BY <1>3, HeldAppend
    <2>3. /\ scan' \in Scans /\ scan'.page = scan.page \ {e} /\ scan'.group = Append(scan.group, e)
          /\ scan'.step = scan.step /\ scan'.batch = scan.batch /\ scan'.cutoff = scan.cutoff
          /\ scan'.after = scan.after
        BY <1>3, <2>1, <2>2 DEF Scans
    <2>4. /\ PurgeTypeOK'
          /\ scan'.page \cup Range(scan'.group) = scan.page \cup Range(scan.group)
          /\ ScanHolds' = ScanHolds
        <3>1. PurgeTypeOK'
            BY <1>2, <2>3, ScanStep DEF PurgeTypeOK
        <3> QED BY <2>2, <2>3, <3>1 DEF ScanHolds
    <2>5. EntriesKnown' /\ LastKnown' /\ ReadsFit' /\ HoldsWhole'
        BY <1>2, <2>4 DEF PurgeInv, EntriesKnown, LastKnown, ReadsFit, HoldsWhole
    <2>6. ScanFits'
        BY <1>2, <1>7, <2>3, <2>4 DEF PurgeInv, ScanFits
    <2>7. BatchFits'
        BY <1>2, <2>3, <2>4 DEF PurgeInv, BatchFits
    <2>8. GroupFits'
        <3>1. ASSUME NEW x \in Range(scan'.group)
              PROVE  x.key = scan'.group[1].key /\ Leads(scan'.group[1], x)
            <4>1. x \in Range(scan.group) \/ x = e
                BY <2>2, <2>3
            <4>2. CASE scan.group = <<>>
                BY <1>6, <2>2, <2>3, <4>1, <4>2, HeldEmpty
            <4>3. CASE scan.group # <<>>
                <5>1. scan'.group[1] = scan.group[1] /\ scan.group[1] \in Range(scan.group)
                    BY <1>3, <2>2, <2>3, <4>3, HeldSeq
                <5>2. Leads(scan.group[1], e)
                    BY <1>8, <4>3, <5>1 DEF PurgeInv, GroupFits
                <5> QED BY <1>8, <4>1, <4>3, <5>1, <5>2 DEF PurgeInv, GroupFits
            <4> QED BY <4>2, <4>3
        <3>2. ASSUME NEW x \in Range(scan'.group), NEW f \in scan'.page, x.key = f.key
              PROVE  Leads(x, f) /\ (x.key \notin torn => \A g \in scan'.page : g.key <= x.key)
            <4>1. x \in Range(scan.group) \/ x = e
                BY <2>2, <2>3
            <4>2. CASE x \in Range(scan.group)
                BY <2>3, <3>2, <4>2 DEF PurgeInv, GroupFits
            <4>3. CASE x = e
                BY <1>5, <2>3, <3>2, <4>3
            <4> QED BY <4>1, <4>2, <4>3
        <3>3. torn' = torn
            BY <1>2
        <3> QED BY <3>1, <3>2, <3>3 DEF GroupFits, Leads
    <2> QED BY <2>4, <2>5, <2>6, <2>7, <2>8 DEF PurgeInv
<1>9. CASE ~(scan.group = <<>> \/ scan.group[1].key = e.key)
    <2>1. scan' = [scan EXCEPT !.page = @ \ {e}, !.group = <<e>>, !.batch = @ \o Purged(scan.group)]
        BY <1>1, <1>9
    <2>2. Purged(scan.group) \in Seq(Entries)
        BY <1>3, HeldEmpty DEF Purged
    <2>3. scan.batch \o Purged(scan.group) \in Seq(Entries)
        BY <1>3, <2>2, HeldConcat
    <2>4. <<e>> \in Seq(Entries) /\ Range(<<e>>) = {e} /\ <<e>>[1] = e
        BY <1>3, HeldOne
    <2>5. /\ scan' \in Scans /\ scan'.page = scan.page \ {e} /\ scan'.group = <<e>>
          /\ scan'.step = scan.step /\ scan'.batch = scan.batch \o Purged(scan.group)
          /\ scan'.cutoff = scan.cutoff /\ scan'.after = scan.after
        BY <1>3, <2>1, <2>3, <2>4 DEF Scans
    <2>6. PurgeTypeOK'
        BY <1>2, <2>5, ScanStep DEF PurgeTypeOK
    <2>7. ASSUME NEW x \in Range(scan.group), NEW f \in scan.page, x.key \notin torn
          PROVE  f.key # x.key
        <3>1. SUFFICES ASSUME f.key = x.key PROVE FALSE
            OBVIOUS
        <3>2. x.key = scan.group[1].key /\ e.key <= x.key
            BY <2>7, <3>1 DEF PurgeInv, GroupFits
        <3>3. f.key <= e.key
            BY <1>3, <1>5 DEF Entries, Keys
        <3> QED BY <1>3, <1>9, <3>1, <3>2, <3>3 DEF Entries, Keys
    <2>8. scan'.page \cup Range(scan'.group) = scan.page
        BY <2>4, <2>5
    <2>9. /\ ScanHolds' \subseteq ScanHolds
          /\ EntriesKnown' /\ LastKnown' /\ ReadsFit' /\ BatchFits' /\ HoldsWhole'
        BY <1>2, <2>5, <2>7, <2>8, GroupGoes
    <2>10. ScanFits'
        BY <1>2, <1>7, <2>5, <2>9 DEF PurgeInv, ScanFits
    <2>11. GroupFits'
        BY <1>5, <1>6, <2>4, <2>5 DEF GroupFits, Leads
    <2> QED BY <2>6, <2>9, <2>10, <2>11 DEF PurgeInv
<1> QED BY <1>8, <1>9

\* A batch goes: what it leaves of a key that is not torn is none of the batch.
LEMMA DeleteBatchKeeps ==
    ASSUME PurgeTypeOK, PurgeInv, NEW Failed, DeleteBatch(Failed)
    PROVE  PurgeTypeOK' /\ PurgeInv'
<1> USE PurgeAssumption
<1> DEFINE size == IF Len(scan.batch) < BatchSize THEN Len(scan.batch) ELSE BatchSize
           flushed == Range(SubSeq(scan.batch, 1, size))
           rest == SubSeq(scan.batch, size + 1, Len(scan.batch))
           gone == {e \in flushed : e.id \notin Failed}
<1>1. /\ UNCHANGED <<today, made, last>> /\ scan' = [scan EXCEPT !.batch = rest]
      /\ bucket' = {e \in bucket : e \notin flushed \/ e.id \in Failed}
      /\ torn' = torn \cup (KeysIn(flushed) \cap KeysIn(Range(rest)))
                      \cup {e.key : e \in {f \in flushed : f.id \in Failed}}
      /\ scan.batch # <<>>
    BY DEF DeleteBatch
<1>2. scan \in Scans /\ scan.batch \in Seq(Entries) /\ ScanHolds \subseteq Entries /\ bucket \subseteq Entries
    BY ScanTypes DEF PurgeTypeOK
<1>3. size \in 0..Len(scan.batch)
    BY <1>2, LenProperties
<1>4. rest \in Seq(Entries) /\ flushed \cup Range(rest) = Range(scan.batch)
    BY <1>2, <1>3, HeldCut
<1> HIDE DEF size, flushed, rest
<1>5. Range(scan.batch) \subseteq ScanHolds
    BY DEF ScanHolds
<1>6. /\ scan' \in Scans /\ scan'.page = scan.page /\ scan'.group = scan.group
      /\ scan'.step = scan.step /\ scan'.batch = rest
      /\ scan'.cutoff = scan.cutoff /\ scan'.after = scan.after
    BY <1>1, <1>2, <1>4 DEF Scans
<1>7. torn \subseteq torn' /\ torn' \subseteq Keys
    BY <1>1, <1>2, <1>4, <1>5 DEF KeysIn, PurgeTypeOK, Entries
<1>8. PurgeTypeOK'
    BY <1>1, <1>6, <1>7 DEF PurgeTypeOK
<1>9. ScanHolds' \subseteq ScanHolds /\ ScanHolds' = scan.page \cup Range(scan.group) \cup Range(rest)
    BY <1>4, <1>6 DEF ScanHolds
<1>10. bucket' = bucket \ gone
    BY <1>1
\* Of a key that is not torn the batch is all gone, and it was all.
<1>11. ASSUME NEW e \in ScanHolds, NEW f \in flushed, e.key = f.key, e.key \notin torn'
       PROVE  e \in gone /\ e \notin ScanHolds' /\ f \in gone
    <2>1. f.id \notin Failed
        BY <1>1, <1>11
    <2>2. f \in Range(scan.batch) /\ f.key \notin torn
        BY <1>4, <1>7, <1>11
    <2>3. e \notin scan.page \cup Range(scan.group)
        BY <1>11, <2>2 DEF PurgeInv, BatchFits
    <2>4. e \notin Range(rest)
        BY <1>1, <1>11 DEF KeysIn
    <2>5. e \in flushed
        BY <1>4, <1>11, <2>3, <2>4 DEF ScanHolds
    <2>6. e.id \notin Failed
        BY <1>1, <1>11, <2>5
    <2> QED BY <1>9, <1>11, <2>1, <2>3, <2>4, <2>5, <2>6
<1>12. gone \subseteq flushed /\ flushed \subseteq Range(scan.batch) /\ flushed \subseteq ScanHolds
    BY <1>4, <1>5
<1> HIDE DEF gone
<1>13. EntriesKnown' /\ LastKnown'
    BY <1>1, <1>9, <1>10 DEF PurgeInv, EntriesKnown, LastKnown
<1>14. ReadsFit'
    <2>1. ASSUME NEW k \in Keys, ~last[k].marker
          PROVE  \E e \in bucket' : e.key = k /\ e.id = last[k].id
        <3>1. PICK e \in bucket : e.key = k /\ e.id = last[k].id
            BY <2>1 DEF PurgeInv, ReadsFit
        <3>2. e.marker = last[k].marker
            BY <2>1, <3>1 DEF PurgeInv, LastKnown
        <3>3. e \notin gone
            BY <1>12, <2>1, <3>1, <3>2 DEF PurgeInv, BatchFits
        <3> QED BY <1>10, <3>1, <3>3
    <2>2. ASSUME NEW k \in Keys, k \notin torn', last[k].marker, NEW e \in bucket', e.key = k, ~e.marker
          PROVE  \E f \in bucket' : f.key = k /\ f.marker /\ e.id < f.id
        <3>1. PICK f \in bucket : f.key = k /\ f.marker /\ e.id < f.id
            BY <1>7, <1>10, <2>2 DEF PurgeInv, ReadsFit
        <3>2. ASSUME f \in gone PROVE FALSE
            <4>1. f \in flushed /\ f \in ScanHolds /\ f.key \notin torn
                BY <1>7, <1>12, <2>2, <3>1, <3>2
            <4>2. e \in ScanHolds
                <5>1. e \in bucket /\ e.id <= f.id
                    BY <1>2, <1>10, <2>2, <3>1 DEF Entries
                <5> QED BY <2>2, <3>1, <4>1, <5>1 DEF PurgeInv, HoldsWhole
            <4>3. e \in gone
                BY <1>11, <2>2, <3>1, <4>1, <4>2
            <4> QED BY <1>10, <2>2, <4>3
        <3> QED BY <1>10, <3>1, <3>2
    <2>3. ASSUME NEW k \in Keys, k \notin torn', last[k].id # 0, last[k].at + Retention > today
          PROVE  /\ \E e \in bucket' : e.key = k /\ e.id = last[k].id
                 /\ \A i \in last[k].hid : \E e \in bucket' : e.key = k /\ e.id = i
        <3>1. PICK l \in bucket : l.key = k /\ l.id = last[k].id
            BY <1>7, <2>3 DEF PurgeInv, ReadsFit
        <3>2. scan.cutoff + Retention <= today
            BY <1>1 DEF PurgeInv, ScanFits
        <3>3. ASSUME NEW f \in flushed, f.key = k PROVE f.id # last[k].id
            <4>1. f.at <= scan.cutoff /\ f \in ScanHolds /\ f \in Entries
                BY <1>2, <1>12, <3>3 DEF PurgeInv, BatchFits
            <4> DEFINE a == f.at
                       b == last[k].at
                       c == scan.cutoff
            <4>2. a \in Nat /\ b \in Nat /\ c \in Nat /\ today \in Nat /\ Retention \in Nat
                BY <4>1, ScanTypes DEF Entries, PurgeTypeOK
            <4>3. a <= c /\ c + Retention <= today /\ b + Retention > today
                BY <2>3, <3>2, <4>1
            <4> HIDE DEF a, b, c
            <4>4. a # b
                BY <4>2, <4>3
            <4>5. f.at # last[k].at
                BY <4>4 DEF a, b
            <4> QED BY <3>3, <4>1, <4>5 DEF PurgeInv, LastKnown
        <3>4. l \in bucket'
            BY <1>10, <1>12, <3>1, <3>3
        <3>5. ASSUME NEW i \in last[k].hid PROVE \E e \in bucket' : e.key = k /\ e.id = i
            <4>1. PICK h \in bucket : h.key = k /\ h.id = i
                BY <1>7, <2>3, <3>5 DEF PurgeInv, ReadsFit
            <4>2. ASSUME h \in gone PROVE FALSE
                <5>1. h \in Range(scan.batch) /\ h \in flushed /\ h \in Entries
                    BY <1>2, <1>12, <4>1, <4>2
                <5>2. ~h.marker /\ h.key \notin torn
                    BY <1>7, <2>3, <3>5, <4>1 DEF PurgeInv, LastKnown
                <5>3. PICK m \in Range(scan.batch) : m.key = k /\ m.marker /\ h.id < m.id
                    BY <4>1, <5>1, <5>2 DEF PurgeInv, BatchFits
                <5>4. m \in ScanHolds /\ m \in bucket /\ m \in Entries
                    BY <1>2, <1>5, <4>1, <5>2, <5>3 DEF PurgeInv, HoldsWhole
                <5>5. m \in flushed
                    BY <1>11, <1>12, <2>3, <4>1, <5>1, <5>3, <5>4
                <5>6. m.id # last[k].id /\ m.id <= last[k].id
                    BY <3>3, <5>3, <5>4, <5>5 DEF PurgeInv, LastKnown
                <5>7. last[k].id \in Nat /\ m.id \in Nat
                    BY <5>4 DEF PurgeTypeOK, Entries
                <5>8. m.id <= i
                    BY <3>5, <5>3, <5>4, <5>6, <5>7 DEF PurgeInv, LastKnown
                <5> QED BY <4>1, <5>1, <5>3, <5>7, <5>8 DEF Entries
            <4> QED BY <1>10, <4>1, <4>2
        <3> QED BY <3>1, <3>4, <3>5
    <2>4. \A k \in Keys : last[k].id = 0 => last[k].hid = {}
        BY DEF PurgeInv, ReadsFit
    <2> QED BY <1>1, <2>1, <2>2, <2>3, <2>4 DEF ReadsFit
<1>15. ScanFits'
    <2>1. scan.step # "idle"
        BY <1>1 DEF PurgeInv, ScanFits
    <2> QED BY <1>1, <1>6, <1>7, <1>9, <1>10, <2>1 DEF PurgeInv, ScanFits
<1>16. GroupFits'
    BY <1>6, <1>7 DEF PurgeInv, GroupFits, Leads
<1>17. BatchFits'
    <2>1. ASSUME NEW e \in Range(rest), e.key \notin torn'
          PROVE  /\ \A f \in scan.page \cup Range(scan.group) : f.key # e.key
                 /\ e.marker \/ \E f \in Range(rest) : f.key = e.key /\ f.marker /\ e.id < f.id
        <3>1. e \in Range(scan.batch) /\ e.key \notin torn
            BY <1>4, <1>7, <2>1
        <3>2. ASSUME NEW f \in Range(scan.batch), f.key = e.key PROVE f \in Range(rest)
            BY <1>1, <1>4, <2>1, <3>2 DEF KeysIn
        <3> QED BY <3>1, <3>2 DEF PurgeInv, BatchFits
    <2>2. ASSUME NEW e \in Range(rest)
          PROVE  e.at <= scan.cutoff /\ (e.id = last[e.key].id => e.marker)
        BY <1>4 DEF PurgeInv, BatchFits
    <2> QED BY <1>1, <1>6, <2>1, <2>2 DEF BatchFits
<1>18. HoldsWhole'
    <2>1. ASSUME NEW e \in ScanHolds', e.key \notin torn'
          PROVE  e \in bucket' /\ \A f \in bucket' : f.key = e.key /\ f.id <= e.id => f \in ScanHolds'
        <3>1. e \in ScanHolds /\ e.key \notin torn
            BY <1>7, <1>9, <2>1
        <3>2. \A f \in flushed : f.key # e.key
            BY <1>11, <2>1, <3>1
        <3>3. e \in bucket'
            BY <1>10, <1>12, <3>1, <3>2 DEF PurgeInv, HoldsWhole
        <3>4. ASSUME NEW f \in bucket', f.key = e.key, f.id <= e.id PROVE f \in ScanHolds'
            <4>1. f \in ScanHolds
                BY <1>10, <3>1, <3>4 DEF PurgeInv, HoldsWhole
            <4>2. f \notin flushed
                BY <3>2, <3>4
            <4> QED BY <1>4, <1>9, <4>1, <4>2 DEF ScanHolds
        <3> QED BY <3>3, <3>4
    <2> QED BY <2>1 DEF HoldsWhole
<1> QED BY <1>8, <1>13, <1>14, <1>15, <1>16, <1>17, <1>18 DEF PurgeInv

LEMMA PurgeKept == PurgeSpec => [](PurgeTypeOK /\ PurgeInv)
<1>1. PurgeInit => PurgeTypeOK /\ PurgeInv
    BY PurgeStarts
<1>2. PurgeTypeOK /\ PurgeInv /\ [PurgeNext]_purgeVars => (PurgeTypeOK /\ PurgeInv)'
    <2> SUFFICES ASSUME PurgeTypeOK, PurgeInv, [PurgeNext]_purgeVars
                 PROVE  (PurgeTypeOK /\ PurgeInv)'
        OBVIOUS
    <2>1. CASE UNCHANGED purgeVars
        BY <2>1 DEF purgeVars, PurgeTypeOK, PurgeInv, EntriesKnown, LastKnown, ReadsFit, ScanFits,
                    GroupFits, BatchFits, HoldsWhole, ScanHolds, Leads, Before
    <2>2. CASE PurgeNext
        BY <2>2, WriteKeeps, TickKeeps, StartScanKeeps, FetchPageKeeps, YieldVersionKeeps,
           YieldLastGroupKeeps, EndScanKeeps, DeleteBatchKeeps DEF PurgeNext
    <2> QED BY <2>1, <2>2
<1> QED BY <1>1, <1>2, PTL DEF PurgeSpec

\* What was put last is read, what was deleted last is not, and what a young
\* delete hid is still there.
LEMMA ReadsOfKeys == PurgeSpec => []ReadsStay
<1>1. ASSUME PurgeTypeOK, PurgeInv PROVE ReadsStay
    <2>1. ASSUME NEW k \in Keys, ~last[k].marker PROVE Reads(k) = {last[k].id}
        <3>1. PICK n \in bucket : n.key = k /\ n.id = last[k].id
            BY <1>1, <2>1 DEF PurgeInv, ReadsFit
        <3>2. ~n.marker
            BY <1>1, <2>1, <3>1 DEF PurgeInv, LastKnown
        <3>3. \A g \in bucket : g.key = k => g.id <= n.id
            BY <1>1, <3>1 DEF PurgeInv, LastKnown
        <3>4. ASSUME NEW f \in bucket, f.key = k, \A g \in bucket : g.key = k => g.id <= f.id
              PROVE  f.id = n.id
            <4>1. n.id <= f.id /\ f.id <= n.id /\ n.id \in Nat /\ f.id \in Nat
                BY <1>1, <3>1, <3>3, <3>4 DEF PurgeTypeOK, Entries
            <4> QED BY <4>1
        <3> QED BY <3>1, <3>2, <3>3, <3>4 DEF Reads
    <2>2. ASSUME NEW k \in Keys, last[k].marker, k \notin torn PROVE Reads(k) = {}
        <3>1. ASSUME NEW e \in bucket, e.key = k, ~e.marker, \A g \in bucket : g.key = k => g.id <= e.id
              PROVE  FALSE
            <4>1. PICK f \in bucket : f.key = k /\ f.marker /\ e.id < f.id
                BY <1>1, <2>2, <3>1 DEF PurgeInv, ReadsFit
            <4>2. f.id <= e.id /\ e.id \in Nat /\ f.id \in Nat
                BY <1>1, <3>1, <4>1 DEF PurgeTypeOK, Entries
            <4> QED BY <4>1, <4>2
        <3> QED BY <3>1 DEF Reads
    <2>3. ASSUME NEW k \in Keys, k \notin torn, last[k].at + Retention > today, NEW i \in last[k].hid
          PROVE  \E e \in bucket : e.key = k /\ e.id = i
        <3>1. last[k].id # 0
            BY <1>1, <2>3 DEF PurgeInv, ReadsFit
        <3> QED BY <1>1, <2>3, <3>1 DEF PurgeInv, ReadsFit
    <2> QED BY <1>1, <2>1, <2>2, <2>3 DEF ReadsStay
<1> QED BY <1>1, PurgeKept, PTL

-----------------------------------------------------------------------------
(* The parts.                                                              *)

\* A behaviour of Services is one of each of its parts.
LEMMA Parts ==
    Spec => /\ TokensSpec /\ SecretsSpec /\ DownloadsSpec /\ CreationSpec /\ NotificationsSpec
            /\ ProjectsInit /\ [][ProjectsNext]_projectRowVars
            /\ JobRunsSpec /\ InvitationsSpec /\ PurgeSpec
<1>1. Init => /\ TokensInit /\ SecretsInit /\ DownloadsInit /\ CreationInit /\ NotificationsInit
              /\ ProjectsInit /\ JobRunsInit /\ InvitationsInit /\ PurgeInit
    BY DEF Init
<1>2. [Next]_vars => [SecretsNext]_secretVars
    BY DEF Next, vars
<1>3. [Next]_vars => [DownloadsNext]_downloadVars
    BY DEF Next, vars
<1>4. [Next]_vars => [CreationNext]_creationVars
    BY DEF Next, vars
<1>5. [Next]_vars => [NotificationsNext]_notifVars
    BY DEF Next, vars
<1>6. [Next]_vars => [ProjectsNext]_projectRowVars
    BY DEF Next, vars
<1>7. [Next]_vars => [JobRunsNext]_jobRunVars
    BY DEF Next, vars
<1>8. [Next]_vars => [InvitationsNext]_inviteVars
    BY DEF Next, vars
<1>9. [Next]_vars => [TokensNext]_tokenVars
    BY DEF Next, vars
<1>10. [Next]_vars => [PurgeNext]_purgeVars
    BY DEF Next, vars
<1> QED
    BY <1>1, <1>2, <1>3, <1>4, <1>5, <1>6, <1>7, <1>8, <1>9, <1>10, PTL
       DEF Spec, TokensSpec, SecretsSpec, DownloadsSpec, CreationSpec, NotificationsSpec, JobRunsSpec,
           InvitationsSpec, PurgeSpec

\* A user has one valid token per single client unless requests of the two
\* overlapped, and a token that was ended while no request held it never comes
\* back: AuthToken.save and the saves of the requests that are under way.
THEOREM TokensEndAlways == Spec => []TokensEnd
    BY Parts, TokensOfRequests, PTL

\* A job is given one secret of a name, the one that overrides the others that its
\* user can see: for_user_and_project's DISTINCT ON with secrets created, changed
\* and deleted between jobs.
THEOREM OneSecretEachAlways == Spec => []OneSecretEach
    BY Parts, SecretsOfJobs, PTL

\* The parts that a client has put together while versions are uploaded, deleted and
\* stored under each other's keys are those of one version as far as the conditions of
\* its requests bind them: get_range_from_request, the redirect and the storage.
THEOREM PartsFitAlways == Spec => []PartsFit
    BY Parts, PartsOfDownloads, PTL

\* A project whose creation has finished has a project file, and a copy has every
\* listed file of its source, however the two projects are changed meanwhile:
\* the create_project command and its rerun.
THEOREM CloneIsWholeAlways == Spec => []CloneIsWhole
    BY Parts, CreatedProjects, PTL

\* Everybody concerned by a change of members has a note, and is mailed of it once,
\* or once more for every round of send_notifications that died.
THEOREM NothingUntoldAlways == Spec => []NothingUntold
    BY Parts, NotesOfChanges, PTL

\* An owner has one shared datasets project, the one of that name, and it has no QGIS
\* file, unless requests overtook each other: Project.save, the validation of names
\* and the upload.
THEOREM FileFitsTypeAlways == Spec => []FileFitsType
    BY Parts, RowsOfProjects, PTL

\* The problems, the status and the leave to have jobs of a project at rest are true
\* of its file and of its owner's shared datasets: Project.problems, Project.status
\* and check_supported_regarding_owner_account.
THEOREM ToldAsItIsAlways == Spec => []ToldAsItIs
    BY Parts, RowsOfProjects, PTL

\* A job that is finished has the result of a task that went through every step of its
\* workflow, with the outputs that the worker and the API look for by name, and a step
\* that is blamed raised that error, whatever was launched twice, half written or killed
\* in between: run_workflow's feedback and the wrapper's reading of it.
THEOREM ResultToldAlways == Spec => []ResultTold
    BY Parts, RunsOfJobs, PTL

\* Behind a run no task goes on that nobody will stop, unless a call to the executor
\* raised: it was told to stop, or is an orphan to the clean-up.
THEOREM NoTaskLeftAlways == Spec => []NoTaskLeft
    BY Parts, RunsOfJobs, PTL

\* An address that was mailed has an invitation when no request and no cron job deals
\* with it, unless its owner registered or a request of it died; and a row that says it
\* was sent was mailed: requests that drop, replace and save each other's rows, and the
\* cron job that sends again what it fetched before.
THEOREM ReachableAlways == Spec => []Reachable
    BY Parts, AddressesReachable, PTL

\* A key that was put last reads as that put left it; one that was deleted last,
\* and went through the script as a whole, cannot be read, and what the delete hid
\* within the retention time is there: the generators and batches of
\* purge_deleted_objects.py while the bucket is in use.
THEOREM ReadsStayAlways == Spec => []ReadsStay
BY Parts, ReadsOfKeys, PTL
=============================================================================
