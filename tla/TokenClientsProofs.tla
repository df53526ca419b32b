------------------------- MODULE TokenClientsProofs -------------------------
(***************************************************************************)
(* Proofs about TokenClients for every set of devices, users, tokens and   *)
(* requests: a client that has always learnt how its requests ended is     *)
(* never taken for a thief, and holds the newest token of its session.     *)
(*                                                                         *)
(* Clients only choose which requests arrive, so the invariant of          *)
(* RefreshTokens holds of their specification too. What it does not say is *)
(* where the raw values are: a token is in one wallet at most, and who     *)
(* presents it got it from there.                                          *)
(***************************************************************************)
EXTENDS TokenClients, RotationProofs

USE ClientAssumption

\* Every raw value that is presented or was rotated has been sent to a client; one about to
\* be issued has not.
ValuesSent ==
    /\ \A p \in Proc : req[p].presented \in held \cup {NoToken}
    /\ \A p \in Proc : req[p].issued # NoToken /\ pc[p] # "commit" => req[p].issued \notin held
    /\ \A n \in Token : parent[n] \in held \cup {NoToken}

\* No two clients have one token.
WalletsApart == \A c, d \in Client : wallet[c] = wallet[d] /\ wallet[c] # NoToken => c = d

\* A request presents the token of the client that waits for it, or of one that gave up.
PresenterWaits ==
    \A p \in Proc, c \in Client :
        req[p].presented # NoToken /\ req[p].presented = wallet[c] => asks[p] = c \/ c \in troubled

\* A response that was sent before its commit has reached the client or nobody.
AnsweredOnce == \A p \in Proc : pc[p] = "commit" => asks[p] = NoClient

\* The token of a client gets a successor when its own request commits, not before.
SuccessorComing ==
    \A c \in Client \ troubled :
        wallet[c] # NoToken /\ Children(wallet[c]) # {} =>
            \E p \in Proc : asks[p] = c /\ pc[p] = "respond"

ClientInv ==
    /\ ClientTypeOK
    /\ ValuesSent
    /\ WalletsApart
    /\ PresenterWaits
    /\ AnsweredOnce
    /\ SuccessorComing
    /\ NoFalseAlarm

-----------------------------------------------------------------------------
(* The steps, sorted by what they do to clients.                           *)

Alarm == {"reuse", "sweep", "persist", "refuse"}

OthersKept(p) == \A q \in Proc \ {p} : pc'[q] = pc[q] /\ req'[q] = req[q]

\* p starts to serve a request of client c, which presents its token or none.
Asked(c, p) ==
    /\ ~Waiting(c)
    /\ asks' = [asks EXCEPT ![p] = c]
    /\ UNCHANGED <<table, held, wallet, troubled>>
    /\ pc[p] = "idle"
    /\ pc'[p] \notin {"idle", "commit", "sweep", "persist", "refuse"}
    /\ pc'[p] = "reuse" => wallet[c] # NoToken /\ Children(wallet[c]) # {}
    /\ req'[p].presented \in {NoToken, wallet[c]}
    /\ req'[p].issued # NoToken => req'[p].issued \notin held
    /\ OthersKept(p)
    /\ ParentsKept
    /\ \A n \in Token : parent'[n] \in {parent[n], NoToken}

\* p goes on with its request, and a rotation it commits is answered next.
Worked(p) ==
    /\ UNCHANGED <<held, clientVars>>
    /\ pc[p] \notin {"idle", "respond"}
    /\ pc'[p] # "commit"
    /\ pc'[p] = "idle" => pc[p] = "commit"
    /\ pc'[p] \in Alarm => pc[p] \in Alarm
    /\ req'[p].presented \in {NoToken, req[p].presented}
    /\ req'[p].issued \in {NoToken, req[p].issued}
    /\ pc[p] = "commit" => req'[p].issued = NoToken
    /\ OthersKept(p)
    /\ ParentsKept
    /\ \A n \in Token : parent'[n] \in {parent[n], req[p].presented}
    /\ \/ table' = table
       \/ /\ Committing(p)
          /\ parent' = parent
          /\ pc'[p] = "respond" \/ pc[p] \in {"commit", "persist"}

\* p sends its answer.
Answered(p) ==
    /\ Receives(p)
    /\ UNCHANGED <<table, parent>>
    /\ held' = held \cup ({req[p].issued} \ {NoToken})
    /\ pc[p] \notin {"idle", "commit"}
    /\ \/ pc'[p] = "idle" /\ req'[p] = NoRequest
       \/ pc'[p] = "commit" /\ req'[p] = req[p]
    /\ OthersKept(p)

\* p loses its client, or dies.
Left(p) ==
    /\ UNCHANGED <<table, parent, held, wallet>>
    /\ asks' = [asks EXCEPT ![p] = NoClient]
    /\ troubled' \in SUBSET Client
    /\ \A c \in troubled : c \in troubled'
    /\ \/ pc' = pc /\ req' = req /\ asks[p] \in troubled'
       \/ /\ pc'[p] = "idle" /\ req'[p] = NoRequest
          /\ pc[p] = "respond" => asks[p] \in troubled' \cup {NoClient}
    /\ OthersKept(p)

\* Client c forgets its token.
Forgotten(c) ==
    /\ UNCHANGED <<vars, asks, troubled>>
    /\ wallet' = [wallet EXCEPT ![c] = NoToken]

\* The token of a client is one that has been sent.
LEMMA WalletToken ==
    ASSUME IInv, ClientTypeOK, NEW c \in Client, wallet[c] # NoToken
    PROVE  wallet[c] \in Token /\ wallet[c] \in held
  BY DEF IInv, TypeOK, ClientTypeOK

LEMMA SendKinds ==
    ASSUME IInv, ClientTypeOK, NEW c \in Client, NEW p \in Proc
    PROVE  /\ SendLogin(c, p) => Asked(c, p)
           /\ SendRefresh(c, p) => Asked(c, p)
           /\ SendLogout(c, p) => Asked(c, p)
           /\ SendLogoutAll(c, p) => Asked(c, p)
           /\ SendRefused(c, p) => Forgotten(c)
  <1> USE DEF Asked, Sends, Begin, OthersKept, ParentsKept, NoRequest
  <1>0. TypeOK
    BY DEF IInv
  <1>1. ASSUME SendLogin(c, p) PROVE Asked(c, p)
    BY <1>0, <1>1 DEF SendLogin, Login, Fresh, TypeOK, Request
  <1>2. ASSUME SendRefresh(c, p) PROVE Asked(c, p)
    <2> DEFINE t == wallet[c]
    <2>1. t # NoToken /\ t \in Token
      BY <1>2, WalletToken DEF SendRefresh
    <2>2. CASE \E n \in Token : RefreshAccepted(p, t, n)
      <3>1. PICK n \in Token : RefreshAccepted(p, t, n)
        BY <2>2
      <3>2. /\ pc[p] = "idle" /\ pc' = [pc EXCEPT ![p] = "issue"]
            /\ req'[p].presented = t /\ req'[p].issued = n
            /\ \A q \in Proc \ {p} : req'[q] = req[q]
        BY <1>0, <3>1 DEF RefreshAccepted, TypeOK
      <3> QED BY <1>0, <1>2, <2>1, <3>1, <3>2 DEF SendRefresh, RefreshAccepted, Fresh, TypeOK
    <2>3. CASE RefreshReused(p, t)
      <3>1. Rotated(t)
        BY <2>3 DEF RefreshReused, Rotated
      <3>2. Stored(table[t].replaced_by_id) /\ parent[table[t].replaced_by_id] = t
        BY <2>1, <3>1 DEF IInv, RotationLinks
      <3>3. table[t].replaced_by_id \in Token
        BY <1>0, <2>1, <3>1 DEF TypeOK, Rotated, Stored, Row
      <3>4. Children(t) # {}
        BY <3>2, <3>3 DEF Children
      <3> QED BY <1>0, <1>2, <2>1, <2>3, <3>4 DEF SendRefresh, RefreshReused, TypeOK, Request
    <2> QED BY <1>2, <2>2, <2>3 DEF SendRefresh
  <1>3. ASSUME SendLogout(c, p) PROVE Asked(c, p)
    BY <1>0, <1>3, WalletToken DEF SendLogout, Logout, TypeOK, Request
  <1>4. ASSUME SendLogoutAll(c, p) PROVE Asked(c, p)
    BY <1>0, <1>4 DEF SendLogoutAll, LogoutAll, TypeOK, Request
  <1>5. ASSUME SendRefused(c, p) PROVE Forgotten(c)
    BY <1>5 DEF SendRefused, RefreshRefused, Forgotten
  <1> QED BY <1>1, <1>2, <1>3, <1>4, <1>5

LEMMA StatementKinds ==
    ASSUME IInv, NEW p \in Proc, Statement(p)
    PROVE  Worked(p)
  <1> USE DEF Worked, Alarm, OthersKept, ParentsKept, Committing
  <1>0. TypeOK /\ HandlerOK(p)
    BY DEF IInv
  <1>1. CASE RefreshIssue(p)
    <2>1. /\ req' = req /\ table' = table /\ held' = held /\ UNCHANGED clientVars
          /\ pc[p] = "issue" /\ pc' = [pc EXCEPT ![p] = "mark"]
          /\ parent' = [parent EXCEPT ![req[p].issued] = req[p].presented]
      BY <1>1 DEF RefreshIssue, Statement
    <2>2. ~Stored(req[p].issued)
      BY <1>0, <2>1 DEF HandlerOK, IssuedFresh, BeforeCommit
    <2> QED BY <1>0, <2>1, <2>2 DEF TypeOK
  <1>2. CASE RefreshMark(p)
    BY <1>0, <1>2 DEF RefreshMark, Statement, TypeOK
  <1>3. CASE RevokeScope(p)
    BY <1>0, <1>3 DEF RevokeScope, Statement, TypeOK
  <1>4. CASE ReuseSweep(p)
    BY <1>0, <1>4 DEF ReuseSweep, Statement, TypeOK, Request
  <1>5. CASE ReusePersist(p)
    BY <1>0, <1>5 DEF ReusePersist, Statement, TypeOK
  <1>6. CASE CommitFirst(p)
    BY <1>0, <1>6 DEF CommitFirst, Statement, TypeOK
  <1>7. CASE CommitLast(p)
    BY <1>0, <1>7 DEF CommitLast, Ended, Statement, TypeOK, NoRequest
  <1> QED BY <1>1, <1>2, <1>3, <1>4, <1>5, <1>6, <1>7 DEF Statement

LEMMA AnswerKinds ==
    ASSUME IInv, ClientTypeOK, NEW p \in Proc
    PROVE  /\ Answers(p) => Answered(p)
           /\ TimeOut(p) => Left(p)
           /\ Dies(p) => Left(p)
  <1> USE DEF IInv, TypeOK, OthersKept
  <1>1. ASSUME Answers(p) PROVE Answered(p)
    <2>1. CASE RespondLast(p)
      BY <1>1, <2>1 DEF Answers, RespondLast, Deliver, Ended, Answered
    <2>2. CASE RespondFirst(p)
      BY <1>1, <2>2 DEF Answers, RespondFirst, Deliver, Answered
    <2>3. CASE ReuseRefuse(p)
      <3>1. req[p].issued = NoToken
        BY <2>3 DEF ReuseRefuse, HandlerOK, RequestOK
      <3> QED BY <1>1, <2>3, <3>1 DEF Answers, ReuseRefuse, Rollback, Ended, Answered
    <2> QED BY <1>1, <2>1, <2>2, <2>3 DEF Answers
  <1>2. ASSUME TimeOut(p) PROVE Left(p)
    BY <1>2 DEF TimeOut, Left, vars, ClientTypeOK
  <1>3. ASSUME Dies(p) PROVE Left(p)
    BY <1>3 DEF Dies, Abort, Rollback, Left, ClientTypeOK
  <1> QED BY <1>1, <1>2, <1>3

LEMMA ClientKinds ==
    ASSUME IInv, ClientTypeOK, [ClientNext]_allVars
    PROVE  \/ UNCHANGED allVars
           \/ \E c \in Client, p \in Proc : Asked(c, p)
           \/ \E c \in Client : Forgotten(c)
           \/ \E p \in Proc : Worked(p) \/ Answered(p) \/ Left(p)
  BY SendKinds, StatementKinds, AnswerKinds DEF ClientNext

-----------------------------------------------------------------------------
(* Every kind of step keeps the invariant.                                 *)

LEMMA ClientInitInv == ClientInit => ClientInv
  BY DEF ClientInit, Init, ClientInv, ClientTypeOK, ValuesSent, WalletsApart, PresenterWaits,
         AnsweredOnce, SuccessorComing, NoFalseAlarm, NoRequest

\* A client that asks was waiting for nothing, so the token it presents has no successor.
LEMMA AskedStep ==
    ASSUME IInv, ClientInv, NEW c \in Client, NEW p \in Proc, Asked(c, p)
    PROVE  ClientInv'
  <1> USE DEF ClientInv, Asked, OthersKept
  <1>1. /\ wallet[c] \in held \cup {NoToken}
        /\ asks'[p] = c /\ \A q \in Proc \ {p} : asks'[q] = asks[q]
    BY DEF ClientTypeOK
  <1>2. ClientTypeOK'
    BY <1>1 DEF ClientTypeOK, Waiting, Busy
  <1>3. ValuesSent'
    BY <1>1 DEF ValuesSent
  <1>4. WalletsApart' /\ AnsweredOnce' /\ PresenterWaits'
    BY <1>1 DEF WalletsApart, AnsweredOnce, PresenterWaits
  <1>5. \A t : Children(t)' \in SUBSET Children(t) \/ t = NoToken
    BY DEF Children, ParentsKept, Stored
  <1>6. SuccessorComing'
    BY <1>1, <1>5 DEF SuccessorComing
  <1>7. NoFalseAlarm'
    BY <1>1 DEF NoFalseAlarm, SuccessorComing, Waiting
  <1> QED BY <1>2, <1>3, <1>4, <1>6, <1>7

\* A rotation is committed by the request of the client that has the token, and it is still
\* to be answered, or the client has given up.
LEMMA WorkedStep ==
    ASSUME IInv, ClientInv, NEW p \in Proc, Worked(p)
    PROVE  ClientInv'
  <1> USE DEF ClientInv, Worked, OthersKept, clientVars
  <1>1. ClientTypeOK'
    BY DEF ClientTypeOK, AnsweredOnce, Busy
  <1>2. ValuesSent'
    <2>1. \A q \in Proc : req'[q].presented \in held \cup {NoToken}
      BY DEF ValuesSent
    <2>2. \A q \in Proc : req'[q].issued # NoToken /\ pc'[q] # "commit" => req'[q].issued \notin held
      BY DEF ValuesSent
    <2> QED BY <2>1, <2>2 DEF ValuesSent
  <1>3. WalletsApart' /\ AnsweredOnce' /\ PresenterWaits'
    BY DEF WalletsApart, AnsweredOnce, PresenterWaits
  <1>4. ASSUME NEW c \in Client, c \notin troubled, wallet[c] # NoToken,
               NEW n \in Token, Stored(n)', parent'[n] = wallet[c]
        PROVE  \E q \in Proc : asks[q] = c /\ pc'[q] = "respond"
    <2>1. CASE Stored(n)
      <3>1. Children(wallet[c]) # {}
        BY <1>4, <2>1 DEF Children, ParentsKept
      <3> QED BY <1>4, <3>1 DEF SuccessorComing
    <2>2. CASE ~Stored(n)
      <3>1. Committing(p) /\ parent' = parent
        BY <1>4, <2>2 DEF Stored
      <3>2. parent[n] = req[p].presented /\ Marking(p)
        BY <1>4, <2>2, <3>1, CommitBirth
      <3>3. asks[p] = c
        BY <1>4, <3>1, <3>2 DEF PresenterWaits
      <3>4. pc[p] \notin {"commit", "persist"}
        BY <1>4, <3>2, <3>3 DEF AnsweredOnce, Marking
      <3>5. table' # table
        BY <1>4, <2>2 DEF Stored
      <3> QED BY <3>3, <3>4, <3>5
    <2> QED BY <2>1, <2>2
  <1>5. SuccessorComing'
    BY <1>4 DEF SuccessorComing, Children
  <1>6. NoFalseAlarm'
    BY DEF NoFalseAlarm, Alarm
  <1> QED BY <1>1, <1>2, <1>3, <1>5, <1>6

\* A client gets a token nobody has, has presented or has rotated.
LEMMA AnsweredStep ==
    ASSUME IInv, ClientInv, NEW p \in Proc, Answered(p)
    PROVE  ClientInv'
  <1> USE DEF ClientInv, Answered, Receives, OthersKept
  <1>1. /\ req[p].issued # NoToken => req[p].issued \notin held
        /\ held' = held \cup ({req[p].issued} \ {NoToken})
        /\ asks'[p] = NoClient /\ \A q \in Proc \ {p} : asks'[q] = asks[q]
        /\ \A c \in Client : wallet'[c] = IF asks[p] = c THEN req[p].issued ELSE wallet[c]
        /\ wallet' \in [Client -> held' \cup {NoToken}]
        /\ \A c \in Client : wallet[c] \in held \cup {NoToken}
    BY DEF ClientTypeOK, ValuesSent
  <1>2. ClientTypeOK'
    BY <1>1 DEF ClientTypeOK, Busy
  <1>3. ValuesSent'
    <2>1. \A q \in Proc : req'[q].presented \in held' \cup {NoToken}
      BY <1>1 DEF ValuesSent, NoRequest
    <2>2. ASSUME NEW q \in Proc, req'[q].issued # NoToken, pc'[q] # "commit"
          PROVE  req'[q].issued \notin held'
      <3>1. q # p
        BY <2>2 DEF NoRequest
      <3>2. req[q].issued # req[p].issued
        BY <2>2, <3>1 DEF IInv, IssuedDistinct
      <3> QED BY <1>1, <2>2, <3>1, <3>2 DEF ValuesSent
    <2>3. \A n \in Token : parent'[n] \in held' \cup {NoToken}
      BY <1>1 DEF ValuesSent
    <2> QED BY <2>1, <2>2, <2>3 DEF ValuesSent
  <1>4. WalletsApart' /\ AnsweredOnce'
    BY <1>1 DEF WalletsApart, AnsweredOnce
  <1>5. PresenterWaits'
    <2> SUFFICES ASSUME NEW q \in Proc, NEW c \in Client, req'[q].presented # NoToken,
                        req'[q].presented = wallet'[c]
                 PROVE  asks'[q] = c \/ c \in troubled'
      BY DEF PresenterWaits
    <2>1. req'[q].presented = req[q].presented
      BY DEF NoRequest
    <2>2. asks[p] # c
      BY <1>1, <2>1 DEF ValuesSent
    <2> QED BY <1>1, <2>1, <2>2 DEF PresenterWaits
  <1>6. SuccessorComing'
    <2> SUFFICES ASSUME NEW c \in Client, c \notin troubled, wallet'[c] # NoToken,
                        Children(wallet'[c]) # {}
                 PROVE  \E q \in Proc : asks'[q] = c /\ pc'[q] = "respond"
      BY DEF SuccessorComing, Children, Stored
    <2>1. asks[p] # c
      BY <1>1 DEF Children, ValuesSent
    <2> QED BY <1>1, <2>1 DEF SuccessorComing
  <1>7. NoFalseAlarm'
    BY <1>1 DEF NoFalseAlarm
  <1> QED BY <1>2, <1>3, <1>4, <1>5, <1>6, <1>7

\* What a client cannot know counts as trouble, unless nothing has happened.
LEMMA LeftStep ==
    ASSUME IInv, ClientInv, NEW p \in Proc, Left(p)
    PROVE  ClientInv'
  <1> USE DEF ClientInv, Left, OthersKept
  <1>1. asks'[p] = NoClient /\ \A q \in Proc \ {p} : asks'[q] = asks[q]
    BY DEF ClientTypeOK
  <1>2. ClientTypeOK'
    BY <1>1 DEF ClientTypeOK, Busy
  <1>3. ValuesSent'
    BY DEF ValuesSent, NoRequest
  <1>4. WalletsApart' /\ AnsweredOnce'
    BY <1>1 DEF WalletsApart, AnsweredOnce
  <1>5. PresenterWaits'
    BY <1>1 DEF PresenterWaits, NoRequest
  <1>6. SuccessorComing'
    <2> SUFFICES ASSUME NEW c \in Client, c \notin troubled', wallet[c] # NoToken,
                        Children(wallet[c]) # {}
                 PROVE  \E q \in Proc : asks'[q] = c /\ pc'[q] = "respond"
      BY DEF SuccessorComing, Children, Stored
    <2>1. PICK q \in Proc : asks[q] = c /\ pc[q] = "respond"
      BY DEF SuccessorComing
    <2>2. q # p
      BY <2>1
    <2> QED BY <1>1, <2>1, <2>2
  <1>7. NoFalseAlarm'
    BY <1>1 DEF NoFalseAlarm
  <1> QED BY <1>2, <1>3, <1>4, <1>5, <1>6, <1>7

\* A token that no wallet holds any more claims nothing.
LEMMA ForgottenStep ==
    ASSUME ClientInv, NEW c \in Client, Forgotten(c)
    PROVE  ClientInv'
  <1> USE DEF ClientInv, Forgotten, vars
  <1>1. \A d \in Client : wallet'[d] = IF d = c THEN NoToken ELSE wallet[d]
    BY DEF ClientTypeOK
  <1>2. ClientTypeOK'
    BY DEF ClientTypeOK, Busy
  <1>3. ValuesSent' /\ AnsweredOnce' /\ NoFalseAlarm'
    BY DEF ValuesSent, AnsweredOnce, NoFalseAlarm
  <1>4. WalletsApart' /\ PresenterWaits'
    BY <1>1 DEF WalletsApart, PresenterWaits
  <1>5. SuccessorComing'
    BY <1>1 DEF SuccessorComing, Children, Stored
  <1> QED BY <1>2, <1>3, <1>4, <1>5

LEMMA ClientStep ==
    ASSUME IInv, ClientInv, [ClientNext]_allVars
    PROVE  ClientInv'
  <1>1. CASE UNCHANGED allVars
    BY <1>1 DEF allVars, vars, clientVars, ClientInv, ClientTypeOK, ValuesSent, WalletsApart,
                PresenterWaits, AnsweredOnce, SuccessorComing, NoFalseAlarm, Busy, Children, Stored
  <1> QED BY <1>1, ClientKinds, AskedStep, ForgottenStep, WorkedStep, AnsweredStep, LeftStep
          DEF ClientInv

-----------------------------------------------------------------------------
(* The theorems.                                                           *)

\* Clients do nothing to the tables that requests do not do: every step of theirs is one of
\* RefreshTokens or leaves its variables alone.
LEMMA ClientsAsk ==
    ASSUME IInv, ClientTypeOK, [ClientNext]_allVars
    PROVE  [Next]_vars
  <1>1. ASSUME NEW c \in Client, NEW p \in Proc,
               \/ SendLogin(c, p) \/ SendRefresh(c, p) \/ SendRefused(c, p)
               \/ SendLogout(c, p) \/ SendLogoutAll(c, p)
        PROVE  Arrive(p)
    <2>1. UserOf[c] \in User
      BY ClientAssumption
    <2> QED BY <1>1, <2>1, WalletToken
            DEF SendLogin, SendRefresh, SendRefused, SendLogout, SendLogoutAll, Arrive
  <1>2. ASSUME NEW p \in Proc, Statement(p) \/ Answers(p) PROVE Handle(p)
    BY <1>2 DEF Statement, Answers, Handle
  <1>3. ASSUME NEW p \in Proc, TimeOut(p) \/ Dies(p) PROVE [Next]_vars
    BY <1>3 DEF TimeOut, Dies, Next
  <1> QED BY <1>1, <1>2, <1>3 DEF ClientNext, Next, allVars

LEMMA ClientInvariant == ClientSpec => [](IInv /\ ClientInv)
  <1>1. ClientInit => IInv /\ ClientInv
    BY InitIInv, ClientInitInv DEF ClientInit
  <1>2. IInv /\ ClientInv /\ [ClientNext]_allVars => IInv' /\ ClientInv'
    BY ClientsAsk, NextIInv, ClientStep DEF ClientInv
  <1> QED BY <1>1, <1>2, PTL DEF ClientSpec

\* RefreshTokens with clients is RefreshTokens: whatever holds of every sequence of requests
\* holds of the requests these clients send.
THEOREM ClientsImplement == ClientSpec => Spec
  <1>1. IInv /\ ClientInv /\ [ClientNext]_allVars => [Next]_vars
    BY ClientsAsk DEF ClientInv
  <1>2. ClientInit => Init
    BY DEF ClientInit
  <1> QED BY <1>1, <1>2, ClientInvariant, PTL DEF ClientSpec, Spec

\* A client waits for one answer at a time, and only for a request that is being served.
THEOREM ClientTypeCorrect == ClientSpec => []ClientTypeOK
  BY ClientInvariant, PTL DEF ClientInv

\* However many devices, users and overlapping requests there are, and whatever fails, a client
\* that has always learnt how its requests ended never sets off the reuse branch of
\* refresh_tokens: reuse detection has no false alarm but after a lost answer.
THEOREM NoFalseAlarmHolds == ClientSpec => []NoFalseAlarm
  BY ClientInvariant, PTL DEF ClientInv

\* Such a client holds the newest token of its session, and a stored one if the framework
\* commits before it responds.
THEOREM WalletIsNewestHolds == ClientSpec => []WalletIsNewest
  <1>1. IInv /\ ClientInv => WalletIsNewest
    <2> SUFFICES ASSUME IInv, ClientInv, NEW c \in Client \ troubled,
                        wallet[c] # NoToken, ~Waiting(c), NEW t, t = wallet[c]
                 PROVE  /\ ~Rotated(t) /\ Children(t) = {}
                        /\ "respond_first" \notin Orders => Stored(t)
      BY DEF WalletIsNewest
    <2>1. t \in Token /\ t \in held
      BY WalletToken DEF ClientInv
    <2>2. Children(t) = {}
      BY DEF ClientInv, SuccessorComing, Waiting
    <2>3. ~Rotated(t)
      <3>1. Rotated(t) => table[t].replaced_by_id \in Token
        BY <2>1 DEF IInv, TypeOK, Rotated, Stored, Row
      <3> QED BY <2>1, <2>2, <3>1 DEF IInv, RotationLinks, Children
    <2> QED BY <2>1, <2>2, <2>3 DEF IInv, HeldIsStored
  <1> QED BY <1>1, ClientInvariant, PTL

=============================================================================
