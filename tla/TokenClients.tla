---------------------------- MODULE TokenClients ----------------------------
(***************************************************************************)
(* RefreshTokens with the clients that use it: each keeps one refresh      *)
(* token, sends one request at a time and replaces its token by the one it *)
(* is answered. A client whose request times out, or whose answer is lost, *)
(* tries again with the token it has, while the server may still be at     *)
(* work on the first request or may have committed it.                     *)
(*                                                                         *)
(* The clients are no part of app/; they do what auth/routes.py asks them  *)
(* to do with a TokenPair, a 204 and a 401.                                *)
(***************************************************************************)
EXTENDS RefreshTokens

CONSTANTS Client,    \* devices
          UserOf,    \* the user of each
          NoClient

ASSUME ClientAssumption == UserOf \in [Client -> User] /\ NoClient \notin Client

VARIABLES wallet,    \* the refresh token each client keeps
          asks,      \* the client that waits for the answer of a request
          troubled   \* history: clients that do not know how a request of theirs ended

clientVars == <<wallet, asks, troubled>>
allVars == <<vars, clientVars>>

ClientTypeOK ==
    /\ wallet \in [Client -> held \cup {NoToken}]
    /\ asks \in [Proc -> Client \cup {NoClient}]
    /\ troubled \in SUBSET Client
    /\ \A p, q \in Proc : asks[p] = asks[q] /\ asks[p] # NoClient => p = q
    /\ \A p \in Proc : asks[p] # NoClient => Busy(p)

ClientInit ==
    /\ Init
    /\ wallet = [c \in Client |-> NoToken]
    /\ asks = [p \in Proc |-> NoClient]
    /\ troubled = {}

Waiting(c) == \E p \in Proc : asks[p] = c

-----------------------------------------------------------------------------
(* Requests.                                                               *)

\* The request is sent; the client waits.
Sends(c, p) ==
    /\ ~Waiting(c)
    /\ asks' = [asks EXCEPT ![p] = c]
    /\ UNCHANGED <<wallet, troubled>>

SendLogin(c, p) ==
    /\ wallet[c] = NoToken
    /\ \E n \in Token : Login(p, UserOf[c], n)
    /\ Sends(c, p)

SendRefresh(c, p) ==
    /\ wallet[c] # NoToken
    /\ \/ \E n \in Token : RefreshAccepted(p, wallet[c], n)
       \/ RefreshReused(p, wallet[c])
    /\ Sends(c, p)

\* 401 at once: the client forgets its token.
SendRefused(c, p) ==
    /\ wallet[c] # NoToken
    /\ RefreshRefused(p, wallet[c])
    /\ ~Waiting(c)
    /\ wallet' = [wallet EXCEPT ![c] = NoToken]
    /\ UNCHANGED <<asks, troubled>>

SendLogout(c, p) ==
    /\ wallet[c] # NoToken
    /\ Logout(p, wallet[c])
    /\ Sends(c, p)

\* The access token it takes is stateless: one of an earlier session does until it expires.
SendLogoutAll(c, p) ==
    /\ LogoutAll(p, UserOf[c])
    /\ Sends(c, p)

-----------------------------------------------------------------------------
(* Answers.                                                                *)

\* The answer holds the new token, or none: after a 204 or a 401 the session is over. Nobody
\* is there to receive it if the client has given up.
Receives(p) ==
    /\ wallet' = IF asks[p] = NoClient THEN wallet
                 ELSE [wallet EXCEPT ![asks[p]] = req[p].issued]
    /\ asks' = [asks EXCEPT ![p] = NoClient]
    /\ UNCHANGED troubled

Answers(p) ==
    /\ RespondLast(p) \/ RespondFirst(p) \/ ReuseRefuse(p)
    /\ Receives(p)

\* The client gives up or its connection breaks; the handler goes on.
TimeOut(p) ==
    /\ asks[p] # NoClient
    /\ troubled' = troubled \cup {asks[p]}
    /\ asks' = [asks EXCEPT ![p] = NoClient]
    /\ UNCHANGED <<vars, wallet>>

\* Fault: the client of a handler that died goes on waiting.
DiesUnnoticed(p) ==
    /\ Abort(p)
    /\ UNCHANGED clientVars

\* The handler dies, which the client is told or notices. What it has committed, the client
\* cannot know; else nothing has happened.
Dies(p) ==
    /\ Abort(p)
    /\ troubled' = troubled \cup IF pc[p] \in {"respond", "refuse"} THEN {asks[p]} \ {NoClient}
                                 ELSE {}
    /\ asks' = [asks EXCEPT ![p] = NoClient]
    /\ UNCHANGED wallet

-----------------------------------------------------------------------------

Statement(p) ==
    /\ \/ RefreshIssue(p)
       \/ RefreshMark(p)
       \/ RevokeScope(p)
       \/ ReuseSweep(p)
       \/ ReusePersist(p)
       \/ CommitFirst(p)
       \/ CommitLast(p)
    /\ UNCHANGED clientVars

\* No token expires here: an expired one is refused and forgotten like a logged-out one.
ClientNext ==
    \/ \E c \in Client, p \in Proc :
          \/ SendLogin(c, p)
          \/ SendRefresh(c, p)
          \/ SendRefused(c, p)
          \/ SendLogout(c, p)
          \/ SendLogoutAll(c, p)
    \/ \E p \in Proc : Statement(p) \/ Answers(p) \/ TimeOut(p) \/ Dies(p)

ClientSpec == ClientInit /\ [][ClientNext]_allVars

-----------------------------------------------------------------------------
(* Properties.                                                             *)

\* A client that has always learnt how its requests ended is never taken for a thief: a request
\* that finds its token rotated is of a client that lost an answer, although handlers fail and
\* are retried, other devices log out everywhere, and a response may come before its commit.
NoFalseAlarm ==
    \A p \in Proc : pc[p] \in {"reuse", "sweep", "persist", "refuse"} =>
        asks[p] \in troubled \cup {NoClient}

\* Such a client, when it waits for nothing, holds the newest token of its session. It is in
\* the table if the framework commits before it responds.
WalletIsNewest ==
    \A c \in Client \ troubled :
        wallet[c] # NoToken /\ ~Waiting(c) =>
            /\ ~Rotated(wallet[c])
            /\ Children(wallet[c]) = {}
            /\ "respond_first" \notin Orders => Stored(wallet[c])

=============================================================================
