------------------------------ MODULE Accounts ------------------------------
(***************************************************************************)
(* Registration and the check of credentials in app/auth: a handler looks  *)
(* for the casefolded e-mail, then inserts the user. The unique index       *)
(* decides between registrations that overlap.                             *)
(*                                                                         *)
(* Handlers read under READ COMMITTED and interleave at every statement.   *)
(* An inserted row is invisible until its transaction commits, but its     *)
(* entry in the unique index makes other inserts wait.                     *)
(***************************************************************************)
EXTENDS FiniteSets, Naturals

CONSTANTS User,      \* ids of users, one for every attempt to register
          Address,   \* e-mail addresses as clients write them
          Email,     \* casefolded addresses, which lower() leaves as they are
          Casefold,  \* email.strip().casefold() of Python
          Password,  \* passwords; a hash matches its own password only
          Proc,      \* requests the server handles at the same time
          NoUser,    \* no user
          NoRow      \* no row of this id

Row == [email : Email, password : Password]

ASSUME CasefoldAssumption == Casefold \in [Address -> Email]
ASSUME NullsAssumption == NoUser \notin User /\ NoRow \notin Row

VARIABLES users,   \* committed rows
          write,   \* the user whose row each handler's open transaction has inserted
          pc,      \* the statement each handler runs next, or how it ended
          req      \* the row each registration inserts

accountVars == <<users, write, pc, req>>

\* How a handler ends: it has returned, or it has raised one of these.
Raised == {"ConflictError", "UnauthorizedError", "IntegrityError", "OperationalError"}

TypeOK ==
    /\ users \in [User -> Row \cup {NoRow}]
    /\ write \in [Proc -> User \cup {NoUser}]
    /\ pc \in [Proc -> {"idle", "insert", "returned", "committed"} \cup Raised]
    /\ req \in [Proc -> [id : User \cup {NoUser}, row : Row \cup {NoRow}]]
    /\ \A p \in Proc : write[p] # NoUser => write[p] = req[p].id /\ req[p].row \in Row

NoRequest == [id |-> NoUser, row |-> NoRow]

Init ==
    /\ users = [u \in User |-> NoRow]
    /\ write = [p \in Proc |-> NoUser]
    /\ pc = [p \in Proc |-> "idle"]
    /\ req = [p \in Proc |-> NoRequest]

Stored(u) == users[u] # NoRow

\* The user with this e-mail; the unique index leaves at most one.
Found(email) == {u \in User : Stored(u) /\ users[u].email = email}

\* Fault: the index does not look at entries of transactions that are not committed.
DoubtfulNever(p) == FALSE

\* Fault: registrations of one e-mail wait for each other from their look-up on.
DoubtfulEarly(p) == \E q \in Proc \ {p} : req[q].id # NoUser /\ req[q].row.email = req[p].row.email

\* The index makes p wait for the transaction that has inserted the same e-mail.
Doubtful(p) ==
    \E q \in Proc \ {p} : write[q] # NoUser /\ req[q].row.email = req[p].row.email

-----------------------------------------------------------------------------
(* The handlers.                                                           *)

\* A random id nobody has.
Fresh(u) == ~Stored(u) /\ \A q \in Proc : req[q].id # u

\* POST /auth/register: the existing account is found by register_user, or it goes on to the insert.
RegisterUser(p, u, a, w) ==
    LET row == [email |-> Casefold[a], password |-> w] IN
    /\ pc[p] = "idle"
    /\ Fresh(u)
    /\ req' = [req EXCEPT ![p] = [id |-> u, row |-> row]]
    /\ pc' = [pc EXCEPT ![p] = IF Found(row.email) = {} THEN "insert" ELSE "ConflictError"]
    /\ UNCHANGED <<users, write>>

\* Fault: the INSERT does not wait for another one of the same e-mail, it fails at once.
InsertUserNoWait(p) ==
    /\ pc[p] = "insert"
    /\ IF Found(req[p].row.email) = {} /\ ~Doubtful(p)
       THEN /\ write' = [write EXCEPT ![p] = req[p].id]
            /\ pc' = [pc EXCEPT ![p] = "returned"]
       ELSE /\ pc' = [pc EXCEPT ![p] = "IntegrityError"]
            /\ UNCHANGED write
    /\ UNCHANGED <<users, req>>

\* The flush of the INSERT.
InsertUser(p) ==
    /\ pc[p] = "insert"
    /\ ~Doubtful(p)
    /\ IF Found(req[p].row.email) = {}
       THEN /\ write' = [write EXCEPT ![p] = req[p].id]
            /\ pc' = [pc EXCEPT ![p] = "returned"]
       ELSE /\ pc' = [pc EXCEPT ![p] = "IntegrityError"]
            /\ UNCHANGED write
    /\ UNCHANGED <<users, req>>

\* authenticate of a login: an unknown e-mail and a wrong password raise the same error.
Authenticate(p, a, w) ==
    /\ pc[p] = "idle"
    /\ pc' = [pc EXCEPT ![p] = IF \E u \in Found(Casefold[a]) : users[u].password = w
                               THEN "returned" ELSE "UnauthorizedError"]
    /\ UNCHANGED <<users, write, req>>

-----------------------------------------------------------------------------
(* The session of a request.                                               *)

\* The rows after the commit of p.
Committed(p) == IF write[p] = NoUser THEN users ELSE [users EXCEPT ![write[p]] = req[p].row]

\* Fault: the session is closed without a commit.
CommitSkipped(p) ==
    /\ pc[p] = "returned"
    /\ write' = [write EXCEPT ![p] = NoUser]
    /\ pc' = [pc EXCEPT ![p] = "committed"]
    /\ UNCHANGED <<users, req>>

Commit(p) ==
    /\ pc[p] = "returned"
    /\ users' = Committed(p)
    /\ write' = [write EXCEPT ![p] = NoUser]
    /\ pc' = [pc EXCEPT ![p] = "committed"]
    /\ UNCHANGED req

\* The connection is lost: whether PostgreSQL still commits is known only if it was not asked to.
ConnectionLost(p) ==
    /\ pc[p] \in {"insert", "returned"}
    /\ users' \in {users} \cup (IF pc[p] = "returned" THEN {Committed(p)} ELSE {})
    /\ write' = [write EXCEPT ![p] = NoUser]
    /\ pc' = [pc EXCEPT ![p] = "OperationalError"]
    /\ UNCHANGED req

\* The request is over, answered or not; what it has not committed is rolled back.
Ended(p) ==
    /\ pc' = [pc EXCEPT ![p] = "idle"]
    /\ req' = [req EXCEPT ![p] = NoRequest]
    /\ write' = [write EXCEPT ![p] = NoUser]
    /\ UNCHANGED users

AccountNext ==
    \E p \in Proc :
        \/ \E u \in User, a \in Address, w \in Password : RegisterUser(p, u, a, w)
        \/ \E a \in Address, w \in Password : Authenticate(p, a, w)
        \/ InsertUser(p)
        \/ Commit(p)
        \/ ConnectionLost(p)
        \/ pc[p] # "idle" /\ Ended(p)

AccountSpec == Init /\ [][AccountNext]_accountVars

-----------------------------------------------------------------------------
(* Properties.                                                             *)

\* No two users have one e-mail, in whatever case it was written: register_user's check and
\* its insert are apart, and the unique index makes up for that.
OneAccountPerEmail ==
    \A u, v \in User : Stored(u) /\ Stored(v) /\ users[u].email = users[v].email => u = v

=============================================================================
