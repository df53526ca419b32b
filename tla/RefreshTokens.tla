--------------------------- MODULE RefreshTokens ---------------------------
(***************************************************************************)
(* The refresh-token lifecycle of app/auth: login, refresh with rotation   *)
(* and reuse detection, logout and logout-all, served by request handlers  *)
(* that interleave at every database statement.                            *)
(*                                                                         *)
(* Each handler runs in one transaction of the engine's default isolation  *)
(* level, READ COMMITTED: a SELECT sees committed rows, an UPDATE takes a   *)
(* snapshot, waits for the rows other transactions have written and then   *)
(* evaluates its WHERE again on their newest committed version.            *)
(***************************************************************************)

EXTENDS FiniteSets, Naturals

CONSTANTS User,      \* user ids
          Token,     \* refresh_tokens ids; the raw value, its sha256 and the row id are one
          Proc,      \* requests the server handles at the same time
          NoToken,   \* NULL for a token id
          NoUser,    \* no user
          NoRow,     \* no row of this id
          MaxExpired,   \* bound: tokens that expire
          MaxSessions,  \* bound: tokens in use that were issued by a login
          Orders     \* when the framework closes the session: before or after it responds

ASSUME NoTokenAssumption == NoToken \notin Token
ASSUME NoUserAssumption == NoUser \notin User
ASSUME BoundsAssumption == MaxExpired \in Nat /\ MaxSessions \in Nat
ASSUME OrdersAssumption == Orders \subseteq {"commit_first", "respond_first"}

\* A row of refresh_tokens: revoked says that revoked_at is not NULL.
Row == [user_id : User, revoked : BOOLEAN, replaced_by_id : Token \cup {NoToken}]

ASSUME NoRowAssumption == NoRow \notin Row

VARIABLES
    table,    \* committed rows of refresh_tokens
    write,    \* rows each handler's open transaction has inserted or updated
    expired,  \* tokens whose expires_at has passed
    held,     \* tokens whose raw value has been sent to a client
    pc,       \* the statement each handler runs next
    req,      \* what each handler works on
    parent,   \* history: the token each token was rotated from
    swept     \* history: the rows that a finished revoke-all found in its snapshot

vars == <<table, write, expired, held, pc, req, parent, swept>>

Request == [caller    : User \cup {NoUser},    \* row.user_id, or the access token's sub
            presented : Token \cup {NoToken},  \* the refresh token in the request
            issued    : Token \cup {NoToken},  \* the token created for the response
            scope     : SUBSET Token]          \* rows the UPDATE's snapshot offers its WHERE

NoRequest == [caller |-> NoUser, presented |-> NoToken, issued |-> NoToken, scope |-> {}]

NoWrites == [t \in Token |-> NoRow]

TypeOK ==
    /\ table \in [Token -> Row \cup {NoRow}]
    /\ write \in [Proc -> [Token -> Row \cup {NoRow}]]
    /\ expired \in SUBSET Token
    /\ held \in SUBSET Token
    /\ pc \in [Proc -> {"idle", "issue", "mark", "reuse", "revoke", "sweep", "persist", "refuse",
                        "finish", "respond", "commit"}]
    /\ req \in [Proc -> Request]
    /\ parent \in [Token -> Token \cup {NoToken}]
    /\ swept \in SUBSET Token

Init ==
    /\ table = [t \in Token |-> NoRow]
    /\ write = [p \in Proc |-> NoWrites]
    /\ expired = {}
    /\ held = {}
    /\ pc = [p \in Proc |-> "idle"]
    /\ req = [p \in Proc |-> NoRequest]
    /\ parent = [t \in Token |-> NoToken]
    /\ swept = {}

-----------------------------------------------------------------------------
(* The database.                                                           *)

Stored(t) == table[t] # NoRow
Active(t) == Stored(t) /\ ~table[t].revoked

\* Fault: the lookup of a user's rows forgets its user_id condition.
RowsOfAnyUser(u) == {t \in Token : Stored(t)}
RowsOf(u) == {t \in Token : Stored(t) /\ table[t].user_id = u}

\* Fault: an UPDATE does not wait for a row another transaction has written.
LockedNever(p, t) == FALSE

\* An open transaction keeps the rows it has written locked until it ends.
Locked(p, t) == \E q \in Proc \ {p} : write[q][t] # NoRow

Busy(p) == pc[p] # "idle"

\* A random 256-bit value nobody has seen, nor is about to.
Fresh(n) == /\ ~Stored(n)
            /\ n \notin held
            /\ \A q \in Proc : ~(Busy(q) /\ req[q].issued = n)

Commit(p) ==
    /\ table' = [t \in Token |-> IF write[p][t] = NoRow THEN table[t] ELSE write[p][t]]
    /\ write' = [write EXCEPT ![p] = NoWrites]

\* Fault: the session dependency commits on every way out.
RollbackCommits(p) == Commit(p)

Rollback(p) ==
    /\ write' = [write EXCEPT ![p] = NoWrites]
    /\ UNCHANGED table

-----------------------------------------------------------------------------
(* The handlers.                                                           *)

Begin(p, next, request) ==
    /\ pc[p] = "idle"
    /\ pc' = [pc EXCEPT ![p] = next]
    /\ req' = [req EXCEPT ![p] = request]

\* A request is done. Only revoke_all_for_user has a caller and issues nothing.
Ended(p) ==
    /\ pc' = [pc EXCEPT ![p] = "idle"]
    /\ req' = [req EXCEPT ![p] = NoRequest]
    /\ swept' = IF req[p].caller # NoUser /\ req[p].issued = NoToken
                THEN swept \cup req[p].scope ELSE swept

\* The INSERT of issue_tokens: invisible to the other handlers until commit.
InsertToken(p, u, n) ==
    write' = [write EXCEPT ![p][n] =
                [user_id |-> u, revoked |-> FALSE, replaced_by_id |-> NoToken]]

\* POST /auth/login with the right password: the new session starts a chain.
Login(p, u, n) ==
    /\ Fresh(n)
    /\ Cardinality({t \in Token : ~Fresh(t) /\ parent[t] = NoToken}) < MaxSessions
    /\ Begin(p, "finish", [NoRequest EXCEPT !.caller = u, !.issued = n])
    /\ InsertToken(p, u, n)
    /\ parent' = [parent EXCEPT ![n] = NoToken]
    /\ UNCHANGED <<table, expired, held, swept>>

\* POST /auth/refresh answers 401 and changes nothing: the token has no row, has expired
\* or was revoked without being rotated. The expiry is tested before the revocation.
RefreshRefused(p, t) ==
    /\ pc[p] = "idle"
    /\ t \in held
    /\ \/ ~Stored(t)
       \/ t \in expired
       \/ Stored(t) /\ table[t].revoked /\ table[t].replaced_by_id = NoToken
    /\ UNCHANGED vars

\* Fault: the revoked_at test is left out.
RefreshAcceptedUnchecked(p, t, n) ==
    /\ t \in held \ expired
    /\ Stored(t)
    /\ Fresh(n)
    /\ Begin(p, "issue", [NoRequest EXCEPT !.caller = table[t].user_id, !.presented = t,
                                           !.issued = n])
    /\ UNCHANGED <<table, write, expired, held, parent, swept>>

\* POST /auth/refresh reads an active row, which will be rotated to the random token n.
RefreshAccepted(p, t, n) ==
    /\ t \in held \ expired
    /\ Active(t)
    /\ Fresh(n)
    /\ Begin(p, "issue", [NoRequest EXCEPT !.caller = table[t].user_id, !.presented = t,
                                           !.issued = n])
    /\ UNCHANGED <<table, write, expired, held, parent, swept>>

\* Fault: every revoked token counts as reused, a logged-out one too.
RefreshReusedAlways(p, t) ==
    /\ t \in held \ expired
    /\ Stored(t)
    /\ table[t].revoked
    /\ Begin(p, "reuse", [NoRequest EXCEPT !.caller = table[t].user_id, !.presented = t])
    /\ UNCHANGED <<table, write, expired, held, parent, swept>>

\* POST /auth/refresh reads a row that was rotated.
RefreshReused(p, t) ==
    /\ t \in held \ expired
    /\ Stored(t)
    /\ table[t].revoked
    /\ table[t].replaced_by_id # NoToken
    /\ Begin(p, "reuse", [NoRequest EXCEPT !.caller = table[t].user_id, !.presented = t])
    /\ UNCHANGED <<table, write, expired, held, parent, swept>>

\* Fault: the successor is committed before the old row is marked.
RefreshIssueCommitted(p) ==
    /\ pc[p] = "issue"
    /\ table' = [table EXCEPT ![req[p].issued] =
                   [user_id |-> req[p].caller, revoked |-> FALSE, replaced_by_id |-> NoToken]]
    /\ parent' = [parent EXCEPT ![req[p].issued] = req[p].presented]
    /\ pc' = [pc EXCEPT ![p] = "mark"]
    /\ UNCHANGED <<write, expired, held, req, swept>>

RefreshIssue(p) ==
    /\ pc[p] = "issue"
    /\ InsertToken(p, req[p].caller, req[p].issued)
    /\ parent' = [parent EXCEPT ![req[p].issued] = req[p].presented]
    /\ pc' = [pc EXCEPT ![p] = "mark"]
    /\ UNCHANGED <<table, expired, held, req, swept>>

\* Fault: the old row gets its replaced_by_id but not its revoked_at.
RefreshMarkUnrevoked(p) ==
    LET t == req[p].presented IN
    /\ pc[p] = "mark"
    /\ ~Locked(p, t)
    /\ write' = [write EXCEPT ![p][t] = [table[t] EXCEPT !.replaced_by_id = req[p].issued]]
    /\ pc' = [pc EXCEPT ![p] = "finish"]
    /\ UNCHANGED <<table, expired, held, req, parent, swept>>

\* The flush of row.revoked_at and row.replaced_by_id: UPDATE ... WHERE id = row.id, which
\* has no condition on what another transaction did to the row since it was read.
RefreshMark(p) ==
    LET t == req[p].presented IN
    /\ pc[p] = "mark"
    /\ ~Locked(p, t)
    /\ write' = [write EXCEPT ![p][t] =
                   [table[t] EXCEPT !.revoked = TRUE, !.replaced_by_id = req[p].issued]]
    /\ pc' = [pc EXCEPT ![p] = "finish"]
    /\ UNCHANGED <<table, expired, held, req, parent, swept>>

\* POST /auth/logout: the UPDATE of revoke takes its snapshot.
Logout(p, t) ==
    /\ t \in held
    /\ Begin(p, "revoke", [NoRequest EXCEPT !.presented = t,
                                            !.scope = IF Stored(t) THEN {t} ELSE {}])
    /\ UNCHANGED <<table, write, expired, held, parent, swept>>

\* POST /auth/logout-all: the caller is the sub of a stateless access token.
LogoutAll(p, u) ==
    /\ Begin(p, "revoke", [NoRequest EXCEPT !.caller = u, !.scope = RowsOf(u)])
    /\ UNCHANGED <<table, write, expired, held, parent, swept>>

\* The reuse branch calls revoke_all_for_user, whose UPDATE takes its snapshot.
ReuseSweep(p) ==
    /\ pc[p] = "reuse"
    /\ req' = [req EXCEPT ![p].scope = RowsOf(req[p].caller)]
    /\ pc' = [pc EXCEPT ![p] = "sweep"]
    /\ UNCHANGED <<table, write, expired, held, parent, swept>>

\* The UPDATE has waited for the rows it matches and sets revoked_at where it is still NULL.
RevokeScope(p) ==
    LET S == {t \in req[p].scope : Active(t)} IN
    /\ pc[p] \in {"revoke", "sweep"}
    /\ \A t \in S : ~Locked(p, t)
    /\ write' = [write EXCEPT ![p] =
                   [t \in Token |-> IF t \in S THEN [table[t] EXCEPT !.revoked = TRUE]
                                               ELSE write[p][t]]]
    /\ pc' = [pc EXCEPT ![p] = IF pc[p] = "sweep" THEN "persist" ELSE "finish"]
    /\ UNCHANGED <<table, expired, held, req, parent, swept>>

\* Fault: nothing is committed before the exception rolls the transaction back.
ReusePersistSkipped(p) ==
    /\ pc[p] = "persist"
    /\ pc' = [pc EXCEPT ![p] = "refuse"]
    /\ UNCHANGED <<table, write, expired, held, req, parent, swept>>

\* The explicit session.commit() of the reuse branch.
ReusePersist(p) ==
    /\ pc[p] = "persist"
    /\ Commit(p)
    /\ pc' = [pc EXCEPT ![p] = "refuse"]
    /\ UNCHANGED <<expired, held, req, parent, swept>>

\* The reuse branch raises: the session dependency rolls back and the client gets 401.
ReuseRefuse(p) ==
    /\ pc[p] = "refuse"
    /\ Rollback(p)
    /\ Ended(p)
    /\ UNCHANGED <<expired, held, parent>>

-----------------------------------------------------------------------------
(* The end of a request: get_db_session commits once the handler has       *)
(* returned, before or after the framework sends the response.             *)

\* Fault: every response is taken to carry a token.
DeliverAlways(p) == held' = held \cup {req[p].issued}

Deliver(p) == held' = held \cup ({req[p].issued} \ {NoToken})

\* Fault: the session is closed without a commit.
CommitFirstSkipped(p) ==
    /\ pc[p] = "finish"
    /\ "commit_first" \in Orders
    /\ Rollback(p)
    /\ pc' = [pc EXCEPT ![p] = "respond"]
    /\ UNCHANGED <<expired, held, req, parent, swept>>

CommitFirst(p) ==
    /\ pc[p] = "finish"
    /\ "commit_first" \in Orders
    /\ Commit(p)
    /\ pc' = [pc EXCEPT ![p] = "respond"]
    /\ UNCHANGED <<expired, held, req, parent, swept>>

RespondLast(p) ==
    /\ pc[p] = "respond"
    /\ Deliver(p)
    /\ Ended(p)
    /\ UNCHANGED <<table, write, expired, parent>>

RespondFirst(p) ==
    /\ pc[p] = "finish"
    /\ "respond_first" \in Orders
    /\ Deliver(p)
    /\ pc' = [pc EXCEPT ![p] = "commit"]
    /\ UNCHANGED <<table, write, expired, req, parent, swept>>

CommitLast(p) ==
    /\ pc[p] = "commit"
    /\ Commit(p)
    /\ Ended(p)
    /\ UNCHANGED <<expired, held, parent>>

\* Fault: the session is not closed, so the transaction stays open.
AbortOpen(p) ==
    /\ Busy(p)
    /\ pc' = [pc EXCEPT ![p] = "idle"]
    /\ req' = [req EXCEPT ![p] = NoRequest]
    /\ UNCHANGED <<table, write, expired, held, parent, swept>>

\* The handler dies: an exception or a lost connection rolls the transaction back, or the
\* server crashes. A response already sent stays sent, one not yet sent never is.
Abort(p) ==
    /\ Busy(p)
    /\ Rollback(p)
    /\ pc' = [pc EXCEPT ![p] = "idle"]
    /\ req' = [req EXCEPT ![p] = NoRequest]
    /\ UNCHANGED <<expired, held, parent, swept>>

\* Time passes expires_at of a stored token.
Expire(t) ==
    /\ Stored(t)
    /\ t \notin expired
    /\ Cardinality(expired) < MaxExpired
    /\ expired' = expired \cup {t}
    /\ UNCHANGED <<table, write, held, pc, req, parent, swept>>

-----------------------------------------------------------------------------

\* The steps a handler takes on its own once it has its request.
Handle(p) ==
    \/ RefreshIssue(p)
    \/ RefreshMark(p)
    \/ RevokeScope(p)
    \/ ReuseSweep(p)
    \/ ReusePersist(p)
    \/ ReuseRefuse(p)
    \/ CommitFirst(p)
    \/ RespondLast(p)
    \/ RespondFirst(p)
    \/ CommitLast(p)

Arrive(p) ==
    \/ \E u \in User, n \in Token : Login(p, u, n)
    \/ \E t \in Token : RefreshRefused(p, t)
    \/ \E t, n \in Token : RefreshAccepted(p, t, n)
    \/ \E t \in Token : RefreshReused(p, t)
    \/ \E t \in Token : Logout(p, t)
    \/ \E u \in User : LogoutAll(p, u)

Next ==
    \/ \E p \in Proc : Arrive(p)
    \/ \E p \in Proc : Handle(p)
    \/ \E p \in Proc : Abort(p)
    \/ \E t \in Token : Expire(t)

Spec == Init /\ [][Next]_vars

\* The server runs every handler it has started, and PostgreSQL grants a row to its waiters
\* in the order they queued up. Nothing makes a request arrive, fail or a token expire.
Fairness ==
    \A p \in Proc : /\ WF_vars(Handle(p))
                    /\ SF_vars(RefreshMark(p))
                    /\ SF_vars(RevokeScope(p))

FairSpec == Spec /\ Fairness

-----------------------------------------------------------------------------
(* Safety.                                                                 *)

Rotated(t) == Stored(t) /\ table[t].replaced_by_id # NoToken

\* A row that names a successor is revoked, and the successor is a committed row of the same
\* user that was issued for this very rotation: refresh_tokens writes both rows in one
\* transaction, however its two statements interleave with other requests.
RotationLinks ==
    \A t \in Token : Rotated(t) =>
        LET n == table[t].replaced_by_id IN
        /\ table[t].revoked
        /\ Stored(n)
        /\ table[n].user_id = table[t].user_id
        /\ parent[n] = t

\* Once revoked, a row stays revoked, and once rotated it keeps naming a successor: no late
\* UPDATE of refresh_tokens, revoke or revoke_all_for_user undoes an earlier one.
RevocationIsFinal ==
    [][\A t \in Token : Stored(t) =>
          /\ Stored(t)'
          /\ table'[t].user_id = table[t].user_id
          /\ table[t].revoked => table'[t].revoked
          /\ Rotated(t) => Rotated(t)']_vars

\* When logout-all has answered, or the reuse branch has, every row its UPDATE found is
\* revoked in the database: the commit of the reuse branch survives the rollback on raise.
SweepComplete == \A t \in swept : Stored(t) /\ table[t].revoked

\* A token is rotated once by every request that may be reading it at the same time, and
\* never again: a committed rotation shuts the refresh endpoint for that token.
Children(t) == {n \in Token : Stored(n) /\ parent[n] = t}

ForkBound == \A t \in Token : Cardinality(Children(t)) <= Cardinality(Proc)

\* A refresh revokes a user's other sessions only if the presented token is that user's and
\* a successor of it has been committed; a logged-out token never escalates.
EscalatesOnlyOnRotated ==
    \A p \in Proc : pc[p] \in {"reuse", "sweep", "persist", "refuse"} =>
        /\ Children(req[p].presented) # {}
        /\ table[req[p].presented].user_id = req[p].caller

\* A committed row changes only by the commit of a request that presented that token or
\* acts for its owner: one user's requests leave the others' sessions alone.
OtherUsersUntouched ==
    [][\A t \in Token : table'[t] # table[t] =>
          \E p \in Proc : /\ write[p][t] = table'[t]
                          /\ \/ req[p].presented = t
                             \/ req[p].caller = table'[t].user_id]_vars

\* Every token of a committed rotation is recorded: the row it was rotated from is revoked
\* and names it as its successor. Requests that overlap break it.
SuccessorRecorded ==
    \A n \in Token : Stored(n) /\ parent[n] # NoToken => table[parent[n]].replaced_by_id = n

\* Revoking every token of a user ends the user's sessions: after logout-all, or the reuse
\* branch, no active token goes back to a token it found. Requests that overlap break it.
NoSurvivor == \A n \in Token : Active(n) => parent[n] \notin swept

\* If the framework commits before it responds, a client holds only committed tokens.
HeldIsStored == "respond_first" \notin Orders => \A t \in held : Stored(t)

-----------------------------------------------------------------------------
(* Refinement: the table implements the ledger.                            *)

Status(t) == IF ~Stored(t) THEN "unborn"
             ELSE IF ~table[t].revoked THEN "active"
             ELSE IF table[t].replaced_by_id = NoToken THEN "revoked" ELSE "rotated"

Owner(t) == IF Stored(t) THEN table[t].user_id ELSE NoUser

Successor(t) == IF Stored(t) THEN table[t].replaced_by_id ELSE NoToken

Ledger == INSTANCE TokenLedger WITH
             status <- [t \in Token |-> Status(t)],
             owner <- [t \in Token |-> Owner(t)],
             successor <- [t \in Token |-> Successor(t)],
             Overlap <- \E p, q \in Proc : p # q

\* Every commit is one step of the ledger and every other step leaves it alone.
LedgerImplemented == Ledger!Spec

-----------------------------------------------------------------------------
(* Liveness.                                                               *)

\* Every request ends: no handler waits forever for a row another one has locked.
EveryRequestEnds == \A p \in Proc : Busy(p) ~> ~Busy(p)

=============================================================================
