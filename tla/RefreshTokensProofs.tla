------------------------ MODULE RefreshTokensProofs ------------------------
(***************************************************************************)
(* The inductive invariant of RefreshTokens and what follows from it, for  *)
(* every set of users, tokens and concurrent requests.                     *)
(*                                                                         *)
(* The invariant says of each handler what its open transaction has        *)
(* written (HandlerOK), that no two handlers write one row or issue one    *)
(* token (LocksDistinct, IssuedDistinct), and of the table what commits    *)
(* leave behind. A step of one handler keeps the HandlerOK of the others   *)
(* because rows only grow more final and locked rows stay put (Frame).     *)
(***************************************************************************)
EXTENDS RefreshTokens, TLAPS

\* The requests that rotate a token, those that have inserted one, those that have marked the
\* old row and those that have revoked their scope.
BeforeCommit == {"issue", "mark", "finish", "commit"}

Rotating(p) == \/ pc[p] \in {"issue", "mark"}
               \/ /\ pc[p] \in {"finish", "commit"}
                  /\ req[p].issued # NoToken
                  /\ req[p].presented # NoToken

Inserting(p) == \/ pc[p] = "mark"
                \/ pc[p] \in {"finish", "commit"} /\ req[p].issued # NoToken

Marking(p) == /\ pc[p] \in {"finish", "commit"}
              /\ req[p].issued # NoToken
              /\ req[p].presented # NoToken

Revoking(p) == pc[p] \in {"persist", "finish", "commit"} /\ req[p].issued = NoToken

\* The three kinds of rows a transaction writes.
NewRow(p, t) ==
    /\ t = req[p].issued
    /\ write[p][t].user_id = req[p].caller
    /\ ~write[p][t].revoked
    /\ write[p][t].replaced_by_id = NoToken

MarkedRow(p, t) ==
    /\ t = req[p].presented
    /\ write[p][t].user_id = table[t].user_id
    /\ write[p][t].revoked
    /\ write[p][t].replaced_by_id = req[p].issued

RevokedRow(p, t) ==
    /\ t \in req[p].scope
    /\ Active(t)
    /\ write[p][t].user_id = table[t].user_id
    /\ write[p][t].revoked
    /\ write[p][t].replaced_by_id = table[t].replaced_by_id

\* Every uncommitted row is one of the three.
WritesOnly(p) ==
    \A t \in Token : write[p][t] # NoRow =>
        \/ Inserting(p) /\ NewRow(p, t)
        \/ Marking(p) /\ MarkedRow(p, t)
        \/ Revoking(p) /\ RevokedRow(p, t)

\* Every row a handler had to write is written.
WritesAll(p) ==
    /\ Inserting(p) => /\ write[p][req[p].issued] # NoRow
                       /\ parent[req[p].issued] = req[p].presented
    /\ Marking(p) => write[p][req[p].presented] # NoRow
    /\ Revoking(p) => \A t \in req[p].scope : write[p][t] # NoRow \/ table[t].revoked
    /\ pc[p] \in {"refuse", "respond"} /\ req[p].issued = NoToken =>
         \A t \in req[p].scope : table[t].revoked

\* A token about to be issued has no row yet.
IssuedFresh(p) ==
    /\ pc[p] \in {"issue", "mark"} => req[p].issued # NoToken
    /\ pc[p] \in BeforeCommit /\ req[p].issued # NoToken => ~Stored(req[p].issued)
    /\ pc[p] = "respond" /\ req[p].issued # NoToken => Stored(req[p].issued)

\* What each request works on.
RequestOK(p) ==
    /\ pc[p] = "idle" => req[p].issued = NoToken
    /\ pc[p] \in {"idle", "reuse"} => req[p].scope = {}
    /\ pc[p] \in {"reuse", "revoke", "sweep", "persist", "refuse"} => req[p].issued = NoToken
    /\ req[p].issued # NoToken => req[p].caller # NoUser
    /\ Rotating(p) => /\ req[p].presented # NoToken
                      /\ Stored(req[p].presented)
                      /\ table[req[p].presented].user_id = req[p].caller
    /\ pc[p] \in {"reuse", "sweep", "persist", "refuse"} =>
         /\ req[p].presented # NoToken
         /\ req[p].caller # NoUser
         /\ Rotated(req[p].presented)
         /\ table[req[p].presented].user_id = req[p].caller
    /\ \A t \in req[p].scope :
         /\ Stored(t)
         /\ req[p].caller = NoUser => t = req[p].presented
         /\ req[p].caller # NoUser => table[t].user_id = req[p].caller

HandlerOK(p) == WritesOnly(p) /\ WritesAll(p) /\ IssuedFresh(p) /\ RequestOK(p)

\* A row is locked by one transaction at most.
LocksDistinct ==
    \A p, q \in Proc, t \in Token : write[p][t] # NoRow /\ write[q][t] # NoRow => p = q

\* No two requests issue the same token.
IssuedDistinct ==
    \A p, q \in Proc : req[p].issued = req[q].issued /\ req[p].issued # NoToken => p = q

\* Requests served one at a time rotate only active tokens.
Serial == \A p, q \in Proc : p = q

SerialRotation == Serial => \A p \in Proc : Rotating(p) => Active(req[p].presented)

IInv ==
    /\ TypeOK
    /\ \A p \in Proc : HandlerOK(p)
    /\ LocksDistinct
    /\ IssuedDistinct
    /\ RotationLinks
    /\ SweepComplete
    /\ HeldIsStored
    /\ SerialRotation

-----------------------------------------------------------------------------

USE NoTokenAssumption, NoUserAssumption, NoRowAssumption

LEMMA InitIInv == Init => IInv
  <1> SUFFICES ASSUME Init PROVE IInv
    OBVIOUS
  <1>1. TypeOK
    BY DEF Init, TypeOK, NoWrites, NoRequest, Request
  <1>2. \A p \in Proc : HandlerOK(p)
    BY DEF Init, HandlerOK, WritesOnly, WritesAll, IssuedFresh, RequestOK, NoWrites,
           NoRequest, Inserting, Marking, Rotating, Revoking, BeforeCommit
  <1>3. LocksDistinct /\ IssuedDistinct
    BY DEF Init, LocksDistinct, IssuedDistinct, NoWrites, NoRequest
  <1>4. RotationLinks /\ SweepComplete /\ HeldIsStored /\ SerialRotation
    BY DEF Init, RotationLinks, SweepComplete, HeldIsStored, SerialRotation, Rotating,
           Rotated, Stored
  <1> QED BY <1>1, <1>2, <1>3, <1>4 DEF IInv

\* What no step does to a row: RevocationIsFinal, for one step.
Grows ==
    \A t \in Token : Stored(t) =>
        /\ Stored(t)'
        /\ table'[t].user_id = table[t].user_id
        /\ table[t].revoked => table'[t].revoked
        /\ Rotated(t) => Rotated(t)'

\* What the step of another handler does to handler q: nothing it relies on.
Untouched(q) ==
    /\ pc'[q] = pc[q]
    /\ req'[q] = req[q]
    /\ write'[q] = write[q]
    /\ \A t \in Token : write[q][t] # NoRow => table'[t] = table[t]
    /\ pc[q] \in BeforeCommit /\ req[q].issued # NoToken =>
         /\ Stored(req[q].issued)' => Stored(req[q].issued)
         /\ parent'[req[q].issued] = parent[req[q].issued]

\* A handler the step does not touch keeps its invariant.
LEMMA Frame ==
    ASSUME TypeOK, NEW q \in Proc, HandlerOK(q), Grows, Untouched(q)
    PROVE  HandlerOK(q)'
  <1> USE DEF HandlerOK, Grows, Untouched, Inserting, Marking, Revoking, BeforeCommit
  <1> req[q] \in Request /\ \A t \in req[q].scope : t \in Token
    BY DEF TypeOK, Request
  <1>1. WritesOnly(q)'
    BY DEF WritesOnly, NewRow, MarkedRow, RevokedRow, Active, Stored
  <1>2. WritesAll(q)'
    BY DEF WritesAll, IssuedFresh, RequestOK, Stored
  <1>3. IssuedFresh(q)'
    BY DEF IssuedFresh, Stored, Request
  <1>4. RequestOK(q)'
    BY DEF RequestOK, Rotating, Rotated, Stored, Request
  <1> QED BY <1>1, <1>2, <1>3, <1>4

\* The step of handler p takes no lock and no token from another handler.
Disjoint(p) ==
    /\ \A t \in Token : write'[p][t] # NoRow =>
         write[p][t] # NoRow \/ \A q \in Proc \ {p} : write[q][t] = NoRow
    /\ req'[p].issued # NoToken =>
         req'[p].issued = req[p].issued \/ \A q \in Proc \ {p} : req[q].issued # req'[p].issued

\* The invariant of the handlers after a step of one of them.
LEMMA Compose ==
    ASSUME IInv, NEW p \in Proc, HandlerOK(p)', Grows, Disjoint(p),
           \A q \in Proc \ {p} : Untouched(q)
    PROVE  /\ \A q \in Proc : HandlerOK(q)'
           /\ LocksDistinct'
           /\ IssuedDistinct'
  <1>1. \A q \in Proc : HandlerOK(q)'
    BY Frame DEF IInv
  <1>2. LocksDistinct'
    BY DEF IInv, LocksDistinct, Disjoint, Untouched
  <1>3. IssuedDistinct'
    BY DEF IInv, IssuedDistinct, Disjoint, Untouched
  <1> QED BY <1>1, <1>2, <1>3

\* A step that commits nothing: the table keeps its properties.
Uncommitted(p) ==
    /\ UNCHANGED table
    /\ \A t \in Token : Stored(t) => parent'[t] = parent[t]
    /\ \A q \in Proc \ {p} :
         /\ pc'[q] = pc[q] /\ req'[q] = req[q] /\ write'[q] = write[q]
         /\ pc[q] \in BeforeCommit /\ req[q].issued # NoToken =>
              parent'[req[q].issued] = parent[req[q].issued]

LEMMA UncommittedStep ==
    ASSUME IInv, NEW p \in Proc, HandlerOK(p)', Uncommitted(p), Disjoint(p)
    PROVE  /\ \A q \in Proc : HandlerOK(q)'
           /\ LocksDistinct'
           /\ IssuedDistinct'
           /\ RotationLinks'
  <1>1. Grows /\ \A q \in Proc \ {p} : Untouched(q)
    BY DEF Uncommitted, Grows, Untouched, Stored, Rotated
  <1>2. RotationLinks'
    BY DEF IInv, TypeOK, Row, RotationLinks, Uncommitted, Rotated, Stored
  <1> QED BY <1>1, <1>2, Compose

-----------------------------------------------------------------------------
(* One lemma per action.                                                   *)

\* The two updates of a row.
LEMMA MarkRow ==
    ASSUME NEW r \in Row, NEW n \in Token
    PROVE  LET row == [r EXCEPT !.revoked = TRUE, !.replaced_by_id = n]
           IN  /\ row \in Row
               /\ row.user_id = r.user_id /\ row.revoked /\ row.replaced_by_id = n
  BY DEF Row

LEMMA RevokeRow ==
    ASSUME NEW r \in Row
    PROVE  LET row == [r EXCEPT !.revoked = TRUE]
           IN  /\ row \in Row
               /\ row.user_id = r.user_id
               /\ row.revoked
               /\ row.replaced_by_id = r.replaced_by_id
  BY DEF Row

\* A handler that has not written yet holds no lock.
LEMMA NoWritesYet ==
    ASSUME NEW p \in Proc, HandlerOK(p), pc[p] \notin {"mark", "persist", "finish", "commit"}
    PROVE  \A t \in Token : write[p][t] = NoRow
  BY DEF HandlerOK, WritesOnly, Inserting, Marking, Revoking

\* Only the handler that issues a token writes a row for it.
LEMMA WritesStored ==
    ASSUME NEW q \in Proc, HandlerOK(q), NEW n \in Token, ~Stored(n), req[q].issued # n
    PROVE  write[q][n] = NoRow
  <1>1. ~NewRow(q, n) /\ ~RevokedRow(q, n)
    BY DEF NewRow, RevokedRow, Active
  <1>2. ~(Marking(q) /\ MarkedRow(q, n))
    BY DEF Marking, MarkedRow, HandlerOK, RequestOK, Rotating
  <1> QED BY <1>1, <1>2 DEF HandlerOK, WritesOnly

\* Writing one row.
LEMMA WriteRow ==
    ASSUME TypeOK, NEW p \in Proc, NEW t \in Token, NEW row \in Row,
           write' = [write EXCEPT ![p][t] = row]
    PROVE  /\ write'[p][t] = row /\ row # NoRow
           /\ \A x \in Token \ {t} : write'[p][x] = write[p][x]
           /\ \A q \in Proc \ {p} : write'[q] = write[q]
           /\ write' \in [Proc -> [Token -> Row \cup {NoRow}]]
  <1> DEFINE new == [write[p] EXCEPT ![t] = row]
  <1>1. write \in [Proc -> [Token -> Row \cup {NoRow}]]
    BY DEF TypeOK
  <1>2. new \in [Token -> Row \cup {NoRow}] /\ new[t] = row
        /\ \A x \in Token \ {t} : new[x] = write[p][x]
    BY <1>1
  <1>3. write' = [write EXCEPT ![p] = new]
    BY <1>1
  <1> HIDE DEF new
  <1>4. /\ write'[p] = new /\ \A q \in Proc \ {p} : write'[q] = write[q]
        /\ write' \in [Proc -> [Token -> Row \cup {NoRow}]]
    BY <1>1, <1>2, <1>3
  <1> QED BY <1>2, <1>4

LEMMA InsertWrites ==
    ASSUME TypeOK, NEW p \in Proc, NEW u \in User, NEW n \in Token, InsertToken(p, u, n)
    PROVE  /\ write'[p][n] # NoRow
           /\ write'[p][n].user_id = u
           /\ ~write'[p][n].revoked
           /\ write'[p][n].replaced_by_id = NoToken
           /\ \A t \in Token \ {n} : write'[p][t] = write[p][t]
           /\ \A q \in Proc \ {p} : write'[q] = write[q]
           /\ write' \in [Proc -> [Token -> Row \cup {NoRow}]]
  <1> DEFINE row == [user_id |-> u, revoked |-> FALSE, replaced_by_id |-> NoToken]
  <1>1. row \in Row
    BY DEF Row
  <1>2. write' = [write EXCEPT ![p][n] = row]
    BY DEF InsertToken
  <1>3. row.user_id = u /\ ~row.revoked /\ row.replaced_by_id = NoToken
    OBVIOUS
  <1> HIDE DEF row
  <1>4. /\ write'[p][n] = row /\ row # NoRow
        /\ \A t \in Token \ {n} : write'[p][t] = write[p][t]
        /\ \A q \in Proc \ {p} : write'[q] = write[q]
        /\ write' \in [Proc -> [Token -> Row \cup {NoRow}]]
    BY <1>1, <1>2, WriteRow
  <1> QED BY <1>3, <1>4

\* Login(p, u, n): p now writes the new row alone.
LEMMA LoginStep ==
    ASSUME IInv, NEW p \in Proc, NEW u \in User, NEW n \in Token, Login(p, u, n)
    PROVE  IInv'
  <1> USE DEF Login, Begin
  <1>1. TypeOK'
    BY InsertWrites DEF IInv, TypeOK, NoRequest, Request
  <1>2. /\ pc'[p] = "finish" /\ ~Stored(n) /\ parent'[n] = NoToken
        /\ req'[p].caller = u /\ req'[p].issued = n /\ req'[p].presented = NoToken
        /\ req'[p].scope = {}
        /\ \A q \in Proc \ {p} : req[q].issued # n
    BY DEF IInv, TypeOK, NoRequest, HandlerOK, RequestOK, Fresh, Busy
  <1>3. \A t \in Token : write[p][t] = NoRow
    BY NoWritesYet DEF IInv
  <1>4. HandlerOK(p)'
    <2>1. WritesOnly(p)' /\ WritesAll(p)'
      BY <1>2, <1>3, InsertWrites
         DEF IInv, WritesOnly, WritesAll, Inserting, NewRow, Marking, Revoking
    <2>2. IssuedFresh(p)' /\ RequestOK(p)'
      BY <1>2 DEF IssuedFresh, RequestOK, Rotating, Stored
    <2> QED BY <2>1, <2>2 DEF HandlerOK
  <1>5. Uncommitted(p) /\ Disjoint(p)
    <2>1. \A q \in Proc : write[q][n] = NoRow
      BY <1>2, <1>3, WritesStored DEF IInv
    <2>2. Uncommitted(p)
      BY <1>2, InsertWrites DEF IInv, TypeOK, Request, Uncommitted
    <2>3. Disjoint(p)
      BY <1>2, <1>3, <2>1, InsertWrites DEF IInv, Disjoint
    <2> QED BY <2>2, <2>3
  <1>6. SweepComplete' /\ HeldIsStored' /\ SerialRotation'
    BY <1>2 DEF IInv, SweepComplete, HeldIsStored, SerialRotation, Serial, Rotating, Stored
  <1> QED BY <1>1, <1>4, <1>5, <1>6, UncommittedStep DEF IInv

\* RefreshAccepted(p, t, n): p has read an active row and holds no lock.
LEMMA RefreshAcceptedStep ==
    ASSUME IInv, NEW p \in Proc, NEW t \in Token, NEW n \in Token, RefreshAccepted(p, t, n)
    PROVE  IInv'
  <1> USE DEF RefreshAccepted, Begin
  <1>1. TypeOK'
    BY DEF IInv, TypeOK, NoRequest, Request, Active, Stored, Row
  <1>2. /\ pc'[p] = "issue" /\ ~Stored(n) /\ Active(t)
        /\ req'[p].caller = table[t].user_id /\ req'[p].issued = n /\ req'[p].presented = t
        /\ req'[p].scope = {}
        /\ \A q \in Proc \ {p} : req[q].issued # n
    BY DEF IInv, TypeOK, NoRequest, HandlerOK, RequestOK, Fresh, Busy
  <1>3. \A x \in Token : write[p][x] = NoRow
    BY NoWritesYet DEF IInv
  <1>4. HandlerOK(p)'
    <2>1. WritesOnly(p)' /\ WritesAll(p)'
      BY <1>2, <1>3 DEF WritesOnly, WritesAll, Inserting, Marking, Revoking
    <2>2. table[t].user_id \in User
      BY <1>2 DEF IInv, TypeOK, Row, Active, Stored
    <2>3. IssuedFresh(p)' /\ RequestOK(p)'
      BY <1>2, <2>2 DEF IssuedFresh, RequestOK, Rotating, Active, Stored
    <2> QED BY <2>1, <2>3 DEF HandlerOK
  <1>5. Uncommitted(p) /\ Disjoint(p)
    BY <1>2 DEF IInv, TypeOK, Uncommitted, Disjoint
  <1>6. SweepComplete' /\ HeldIsStored' /\ SerialRotation'
    BY <1>2 DEF IInv, SweepComplete, HeldIsStored, SerialRotation, Serial, Active, Stored
  <1> QED BY <1>1, <1>4, <1>5, <1>6, UncommittedStep DEF IInv

\* RefreshReused(p, t): p has read a rotated row.
LEMMA RefreshReusedStep ==
    ASSUME IInv, NEW p \in Proc, NEW t \in Token, RefreshReused(p, t)
    PROVE  IInv'
  <1> USE DEF RefreshReused, Begin
  <1>1. TypeOK'
    BY DEF IInv, TypeOK, NoRequest, Request, Stored, Row
  <1>2. /\ pc'[p] = "reuse" /\ Rotated(t)
        /\ req'[p].caller = table[t].user_id /\ req'[p].issued = NoToken
        /\ req'[p].presented = t /\ req'[p].scope = {}
    BY DEF IInv, TypeOK, NoRequest, Rotated
  <1>3. \A x \in Token : write[p][x] = NoRow
    BY NoWritesYet DEF IInv
  <1>4. HandlerOK(p)'
    <2>1. WritesOnly(p)' /\ WritesAll(p)' /\ IssuedFresh(p)'
      BY <1>2, <1>3 DEF WritesOnly, WritesAll, IssuedFresh, Inserting, Marking, Revoking
    <2>2. table[t].user_id \in User
      BY <1>2 DEF IInv, TypeOK, Row, Rotated, Stored
    <2>3. RequestOK(p)'
      BY <1>2, <2>2 DEF RequestOK, Rotating, Rotated, Stored
    <2> QED BY <2>1, <2>3 DEF HandlerOK
  <1>5. Uncommitted(p) /\ Disjoint(p)
    BY <1>2 DEF IInv, TypeOK, Uncommitted, Disjoint
  <1>6. SweepComplete' /\ HeldIsStored' /\ SerialRotation'
    BY <1>2 DEF IInv, SweepComplete, HeldIsStored, SerialRotation, Serial, Rotating, Stored
  <1> QED BY <1>1, <1>4, <1>5, <1>6, UncommittedStep DEF IInv

\* Logout(p, t): the snapshot holds the presented token's row, if there is one.
LEMMA LogoutStep ==
    ASSUME IInv, NEW p \in Proc, NEW t \in Token, Logout(p, t)
    PROVE  IInv'
  <1> USE DEF Logout, Begin
  <1>1. TypeOK'
    BY DEF IInv, TypeOK, NoRequest, Request
  <1>2. /\ pc'[p] = "revoke"
        /\ req'[p].caller = NoUser /\ req'[p].issued = NoToken /\ req'[p].presented = t
        /\ req'[p].scope = IF Stored(t) THEN {t} ELSE {}
    BY DEF IInv, TypeOK, NoRequest
  <1>3. \A x \in Token : write[p][x] = NoRow
    BY NoWritesYet DEF IInv
  <1>4. HandlerOK(p)'
    BY <1>2, <1>3 DEF HandlerOK, WritesOnly, WritesAll, IssuedFresh, RequestOK, Rotating,
                      Inserting, Marking, Revoking, Stored
  <1>5. Uncommitted(p) /\ Disjoint(p)
    BY <1>2 DEF IInv, TypeOK, Uncommitted, Disjoint
  <1>6. SweepComplete' /\ HeldIsStored' /\ SerialRotation'
    BY <1>2 DEF IInv, SweepComplete, HeldIsStored, SerialRotation, Serial, Rotating, Stored
  <1> QED BY <1>1, <1>4, <1>5, <1>6, UncommittedStep DEF IInv

\* LogoutAll(p, u): the snapshot holds the rows of u.
LEMMA LogoutAllStep ==
    ASSUME IInv, NEW p \in Proc, NEW u \in User, LogoutAll(p, u)
    PROVE  IInv'
  <1> USE DEF LogoutAll, Begin
  <1>1. TypeOK'
    BY DEF IInv, TypeOK, NoRequest, Request, RowsOf
  <1>2. /\ pc'[p] = "revoke"
        /\ req'[p].caller = u /\ req'[p].issued = NoToken /\ req'[p].presented = NoToken
        /\ req'[p].scope = RowsOf(u)
    BY DEF IInv, TypeOK, NoRequest
  <1>3. \A x \in Token : write[p][x] = NoRow
    BY NoWritesYet DEF IInv
  <1>4. HandlerOK(p)'
    BY <1>2, <1>3 DEF HandlerOK, WritesOnly, WritesAll, IssuedFresh, RequestOK, Rotating,
                      Inserting, Marking, Revoking, RowsOf, Stored
  <1>5. Uncommitted(p) /\ Disjoint(p)
    BY <1>2 DEF IInv, TypeOK, Uncommitted, Disjoint
  <1>6. SweepComplete' /\ HeldIsStored' /\ SerialRotation'
    BY <1>2 DEF IInv, SweepComplete, HeldIsStored, SerialRotation, Serial, Rotating, Stored
  <1> QED BY <1>1, <1>4, <1>5, <1>6, UncommittedStep DEF IInv

\* RefreshIssue(p): p now writes the new row alone.
LEMMA RefreshIssueStep ==
    ASSUME IInv, NEW p \in Proc, RefreshIssue(p)
    PROVE  IInv'
  <1> USE DEF RefreshIssue
  <1> DEFINE n == req[p].issued
             u == req[p].caller
  <1>1. /\ n \in Token /\ u \in User /\ ~Stored(n)
        /\ pc'[p] = "mark" /\ req'[p] = req[p] /\ parent'[n] = req[p].presented
        /\ \A q \in Proc \ {p} : req[q].issued # n
    BY DEF IInv, TypeOK, Request, HandlerOK, RequestOK, IssuedFresh, IssuedDistinct, BeforeCommit
  <1> HIDE DEF n, u
  <1>2. InsertToken(p, u, n)
    BY DEF n, u
  <1>3. TypeOK'
    BY <1>1, <1>2, InsertWrites DEF IInv, TypeOK, Request
  <1>4. \A x \in Token : write[p][x] = NoRow
    BY NoWritesYet DEF IInv
  <1>5. HandlerOK(p)'
    <2>1. WritesOnly(p)' /\ WritesAll(p)'
      BY <1>1, <1>2, <1>4, InsertWrites
         DEF n, u, IInv, WritesOnly, WritesAll, Inserting, NewRow, Marking, Revoking
    <2>2. IssuedFresh(p)' /\ RequestOK(p)'
      BY <1>1 DEF IInv, HandlerOK, IssuedFresh, RequestOK, Rotating, Stored, BeforeCommit
    <2> QED BY <2>1, <2>2 DEF HandlerOK
  <1>6. Uncommitted(p) /\ Disjoint(p)
    <2>1. \A q \in Proc : write[q][n] = NoRow
      BY <1>1, <1>4, WritesStored DEF IInv
    <2>2. parent' = [parent EXCEPT ![n] = req[p].presented]
      BY DEF n
    <2>3. \A x \in Token : x # n => write'[p][x] = NoRow
      BY <1>1, <1>2, <1>4, InsertWrites DEF IInv
    <2>4. \A q \in Proc \ {p} : write'[q] = write[q]
      BY <1>1, <1>2, InsertWrites DEF IInv
    <2>5. Disjoint(p)
      BY <1>1, <2>1, <2>3 DEF Disjoint
    <2>6. \A x \in Token : x # n => parent'[x] = parent[x]
      BY <2>2 DEF IInv, TypeOK
    <2>7. \A q \in Proc \ {p} : req[q].issued \in Token \cup {NoToken}
      BY DEF IInv, TypeOK, Request
    <2>8. Uncommitted(p)
      BY <1>1, <2>4, <2>6, <2>7 DEF IInv, TypeOK, Uncommitted
    <2> QED BY <2>5, <2>8
  <1>7. SweepComplete' /\ HeldIsStored' /\ SerialRotation'
    BY <1>1 DEF IInv, SweepComplete, HeldIsStored, SerialRotation, Serial, Rotating, Stored, Active
  <1> QED BY <1>3, <1>5, <1>6, <1>7, UncommittedStep DEF IInv

\* RefreshMark(p): p now writes the new row and the row it replaces.
LEMMA RefreshMarkStep ==
    ASSUME IInv, NEW p \in Proc, RefreshMark(p)
    PROVE  IInv'
  <1> USE DEF RefreshMark
  <1> DEFINE t == req[p].presented
             n == req[p].issued
             row == [table[t] EXCEPT !.revoked = TRUE, !.replaced_by_id = n]
  <1>1. /\ n \in Token /\ t \in Token /\ ~Stored(n) /\ Stored(t)
        /\ table[t].user_id = req[p].caller
        /\ write[p][n] # NoRow /\ parent[n] = t
        /\ pc'[p] = "finish" /\ req' = req
    BY DEF IInv, TypeOK, Request, HandlerOK, RequestOK, Rotating, IssuedFresh, BeforeCommit,
           WritesAll, Inserting
  <1> HIDE DEF n, t
  <1>2. row \in Row /\ row.user_id = table[t].user_id /\ row.revoked /\ row.replaced_by_id = n
    <2>1. table[t] \in Row
      BY <1>1 DEF IInv, TypeOK, Stored
    <2> HIDE DEF RefreshMark
    <2> QED BY <1>1, <2>1, MarkRow
  <1>3. write' = [write EXCEPT ![p][t] = row]
    BY DEF n, t
  <1> HIDE DEF row
  <1>4. /\ write'[p][t] = row /\ row # NoRow
        /\ \A x \in Token \ {t} : write'[p][x] = write[p][x]
        /\ \A q \in Proc \ {p} : write'[q] = write[q]
        /\ write' \in [Proc -> [Token -> Row \cup {NoRow}]]
    <2> HIDE DEF RefreshMark
    <2>1. TypeOK /\ t \in Token /\ row \in Row
      BY <1>1, <1>2 DEF IInv
    <2> QED BY <1>3, <2>1, WriteRow
  <1>5. TypeOK'
    BY <1>4 DEF IInv, TypeOK
  <1>6. HandlerOK(p)'
    <2>1. \A x \in Token \ {t} : write[p][x] # NoRow => NewRow(p, x)
      BY <1>1 DEF IInv, HandlerOK, WritesOnly, Marking, Revoking
    <2>2. WritesOnly(p)'
      BY <1>1, <1>2, <1>4, <2>1
         DEF n, t, WritesOnly, NewRow, MarkedRow, Inserting, Marking
    <2>3. WritesAll(p)'
      BY <1>1, <1>4 DEF n, t, WritesAll, Inserting, Marking, Revoking
    <2>4. IssuedFresh(p)' /\ RequestOK(p)'
      BY <1>1 DEF n, t, IInv, HandlerOK, IssuedFresh, RequestOK, Rotating, Stored, BeforeCommit
    <2> QED BY <2>2, <2>3, <2>4 DEF HandlerOK
  <1>7. Uncommitted(p)
    BY <1>1, <1>4 DEF IInv, TypeOK, Uncommitted
  <1>8. Disjoint(p)
    BY <1>1, <1>4 DEF t, Disjoint, Locked
  <1>9. SweepComplete' /\ HeldIsStored' /\ SerialRotation'
    BY <1>1 DEF IInv, SweepComplete, HeldIsStored, SerialRotation, Serial, Rotating, Stored, Active
  <1> QED BY <1>5, <1>6, <1>7, <1>8, <1>9, UncommittedStep DEF IInv

\* ReuseSweep(p): the snapshot holds the rows of the owner of the rotated token.
LEMMA ReuseSweepStep ==
    ASSUME IInv, NEW p \in Proc, ReuseSweep(p)
    PROVE  IInv'
  <1> USE DEF ReuseSweep
  <1>1. TypeOK'
    <2>1. RowsOf(req[p].caller) \in SUBSET Token
      BY DEF RowsOf
    <2>2. \A r \in Request, S \in SUBSET Token : [r EXCEPT !.scope = S] \in Request
      <3> HIDE DEF ReuseSweep
      <3> QED BY DEF Request
    <2>3. req' \in [Proc -> Request]
      BY <2>1, <2>2 DEF IInv, TypeOK
    <2> QED BY <2>3 DEF IInv, TypeOK
  <1>2. /\ pc[p] = "reuse" /\ pc'[p] = "sweep"
        /\ req'[p].caller = req[p].caller /\ req'[p].issued = req[p].issued
        /\ req'[p].presented = req[p].presented /\ req'[p].scope = RowsOf(req[p].caller)
    BY DEF IInv, TypeOK, Request
  <1>3. \A x \in Token : write[p][x] = NoRow
    BY <1>2, NoWritesYet DEF IInv
  <1>4. HandlerOK(p)'
    <2>1. WritesOnly(p)' /\ WritesAll(p)' /\ IssuedFresh(p)'
      BY <1>2, <1>3 DEF WritesOnly, WritesAll, IssuedFresh, Inserting, Marking, Revoking,
                        BeforeCommit
    <2>2. RequestOK(p)'
      BY <1>2 DEF IInv, HandlerOK, RequestOK, Rotating, Rotated, Stored, RowsOf
    <2> QED BY <2>1, <2>2 DEF HandlerOK
  <1>5. Uncommitted(p) /\ Disjoint(p)
    BY <1>2 DEF IInv, TypeOK, Uncommitted, Disjoint
  <1>6. SweepComplete' /\ HeldIsStored' /\ SerialRotation'
    BY <1>2 DEF IInv, SweepComplete, HeldIsStored, SerialRotation, Serial, Rotating, Stored,
                Active
  <1> QED BY <1>1, <1>4, <1>5, <1>6, UncommittedStep DEF IInv

\* RevokeScope(p): p now writes the active rows of its scope alone.
LEMMA RevokeScopeStep ==
    ASSUME IInv, NEW p \in Proc, RevokeScope(p)
    PROVE  IInv'
  <1> DEFINE S == {t \in req[p].scope : Active(t)}
  <1>1. /\ pc[p] \in {"revoke", "sweep"}
        /\ pc'[p] = IF pc[p] = "sweep" THEN "persist" ELSE "finish"
        /\ req' = req /\ table' = table /\ parent' = parent
        /\ req[p].issued = NoToken
        /\ \A q \in Proc \ {p} : pc'[q] = pc[q]
    BY DEF RevokeScope, IInv, TypeOK, HandlerOK, RequestOK
  <1>2. \A x \in Token : write[p][x] = NoRow
    BY <1>1, NoWritesYet DEF IInv
  <1>3. \A t \in S : t \in Token /\ table[t] \in Row
    BY DEF IInv, TypeOK, Request, Active, Stored
  <1>4. /\ \A t \in S : write'[p][t] = [table[t] EXCEPT !.revoked = TRUE]
        /\ \A t \in Token \ S : write'[p][t] = NoRow
        /\ \A q \in Proc \ {p} : write'[q] = write[q]
    BY <1>2, <1>3 DEF RevokeScope, IInv, TypeOK
  <1>5. \A t \in S : /\ write'[p][t] \in Row
                     /\ write'[p][t].user_id = table[t].user_id
                     /\ write'[p][t].revoked
                     /\ write'[p][t].replaced_by_id = table[t].replaced_by_id
    <2> TAKE t \in S
    <2>1. table[t] \in Row /\ write'[p][t] = [table[t] EXCEPT !.revoked = TRUE]
      BY <1>3, <1>4
    <2> QED BY <2>1, RevokeRow
  <1>6. TypeOK'
    <2>1. write' \in [Proc -> [Token -> Row \cup {NoRow}]]
      <3>1. DOMAIN write'[p] = Token /\ write'[p] = [t \in Token |-> write'[p][t]]
        BY DEF RevokeScope, IInv, TypeOK
      <3>2. write'[p] \in [Token -> Row \cup {NoRow}]
        BY <1>4, <1>5, <3>1
      <3> QED BY <1>4, <3>2 DEF RevokeScope, IInv, TypeOK
    <2> QED BY <1>1, <2>1 DEF RevokeScope, IInv, TypeOK
  <1>7. HandlerOK(p)'
    <2>1. WritesOnly(p)'
      BY <1>1, <1>4, <1>5 DEF WritesOnly, RevokedRow, Revoking, Active, Stored
    <2>2. WritesAll(p)'
      <3>1. \A t \in req[p].scope : t \in Token /\ Stored(t)
        BY DEF IInv, TypeOK, Request, HandlerOK, RequestOK
      <3> QED BY <1>1, <1>5, <3>1 DEF WritesAll, Inserting, Marking, Active
    <2>3. IssuedFresh(p)' /\ RequestOK(p)'
      BY <1>1 DEF IInv, HandlerOK, IssuedFresh, RequestOK, Rotating, Rotated, Stored
    <2> QED BY <2>1, <2>2, <2>3 DEF HandlerOK
  <1>8. Uncommitted(p) /\ Disjoint(p)
    <2>1. \A t \in S, q \in Proc \ {p} : write[q][t] = NoRow
      BY DEF RevokeScope, Locked
    <2> QED BY <1>1, <1>4, <2>1 DEF Uncommitted, Disjoint
  <1>9. SweepComplete' /\ HeldIsStored' /\ SerialRotation'
    BY <1>1 DEF RevokeScope, IInv, SweepComplete, HeldIsStored, SerialRotation, Serial,
                Rotating, Stored, Active
  <1> QED BY <1>6, <1>7, <1>8, <1>9, UncommittedStep DEF IInv

\* A handler that is idle and has no lock satisfies its invariant.
LEMMA IdleOK ==
    ASSUME NEW p \in Proc, pc'[p] = "idle", req'[p] = NoRequest,
           \A t \in Token : write'[p][t] = NoRow
    PROVE  HandlerOK(p)'
  BY DEF HandlerOK, WritesOnly, WritesAll, IssuedFresh, RequestOK, Rotating, Inserting, Marking,
         Revoking, NoRequest, BeforeCommit

\* Giving up what was written and the request.
LEMMA RollbackStep ==
    ASSUME IInv, NEW p \in Proc, Rollback(p), pc' = [pc EXCEPT ![p] = "idle"],
           req' = [req EXCEPT ![p] = NoRequest], UNCHANGED <<expired, held, parent>>,
           swept' \in SUBSET Token, \A t \in swept' : Stored(t) /\ table[t].revoked
    PROVE  IInv'
  <1> USE DEF Rollback
  <1>1. TypeOK'
    BY DEF IInv, TypeOK, NoRequest, Request, NoWrites
  <1>2. /\ pc'[p] = "idle" /\ req'[p] = NoRequest /\ req'[p].issued = NoToken
        /\ \A t \in Token : write'[p][t] = NoRow
    BY DEF IInv, TypeOK, NoWrites, NoRequest
  <1>3. HandlerOK(p)'
    BY <1>2, IdleOK
  <1>4. Uncommitted(p) /\ Disjoint(p)
    BY <1>2 DEF IInv, TypeOK, Uncommitted, Disjoint
  <1>5. SweepComplete' /\ HeldIsStored' /\ SerialRotation'
    BY <1>2 DEF IInv, SweepComplete, HeldIsStored, SerialRotation, Serial, Rotating, Stored
  <1> QED BY <1>1, <1>3, <1>4, <1>5, UncommittedStep DEF IInv

LEMMA AbortStep ==
    ASSUME IInv, NEW p \in Proc, Abort(p)
    PROVE  IInv'
  BY RollbackStep DEF Abort, IInv, TypeOK, SweepComplete

\* ReuseRefuse(p): the sweep was committed, so all of its scope is revoked.
LEMMA ReuseRefuseStep ==
    ASSUME IInv, NEW p \in Proc, ReuseRefuse(p)
    PROVE  IInv'
  <1>1. \A t \in req[p].scope : t \in Token /\ Stored(t) /\ table[t].revoked
    BY DEF ReuseRefuse, IInv, TypeOK, Request, HandlerOK, RequestOK, WritesAll
  <1>2. swept' \in SUBSET Token /\ \A t \in swept' : Stored(t) /\ table[t].revoked
    BY <1>1 DEF ReuseRefuse, Ended, IInv, TypeOK, SweepComplete
  <1> QED BY <1>2, RollbackStep DEF ReuseRefuse, Ended

\* RespondLast(p): the transaction is committed, so there is nothing to give up.
LEMMA RespondLastStep ==
    ASSUME IInv, NEW p \in Proc, RespondLast(p)
    PROVE  IInv'
  <1> USE DEF RespondLast, Ended
  <1>1. TypeOK'
    BY DEF IInv, TypeOK, NoRequest, Request, Deliver
  <1>2. /\ pc[p] = "respond" /\ pc'[p] = "idle"
        /\ req'[p] = NoRequest /\ req'[p].issued = NoToken
    BY DEF IInv, TypeOK, NoRequest
  <1>3. \A t \in Token : write'[p][t] = NoRow
    BY <1>2, NoWritesYet DEF IInv
  <1>4. HandlerOK(p)'
    BY <1>2, <1>3, IdleOK
  <1>5. Uncommitted(p) /\ Disjoint(p)
    BY <1>2 DEF IInv, TypeOK, Uncommitted, Disjoint
  <1>6. SweepComplete'
    BY <1>2 DEF IInv, TypeOK, SweepComplete, HandlerOK, WritesAll, RequestOK, Stored
  <1>7. HeldIsStored'
    BY <1>2 DEF IInv, TypeOK, Request, HeldIsStored, HandlerOK, IssuedFresh, Deliver, Stored
  <1>8. SerialRotation'
    BY <1>2 DEF IInv, SerialRotation, Serial, Rotating
  <1> QED BY <1>1, <1>4, <1>5, <1>6, <1>7, <1>8, UncommittedStep DEF IInv

\* RespondFirst(p): only "commit_first" promises that held tokens are stored.
LEMMA RespondFirstStep ==
    ASSUME IInv, NEW p \in Proc, RespondFirst(p)
    PROVE  IInv'
  <1> USE DEF RespondFirst
  <1>1. TypeOK'
    BY DEF IInv, TypeOK, Request, Deliver
  <1>2. pc[p] = "finish" /\ pc'[p] = "commit" /\ req' = req /\ write' = write /\ table' = table
        /\ parent' = parent
    BY DEF IInv, TypeOK
  <1>3. HandlerOK(p)'
    BY <1>2 DEF IInv, HandlerOK, WritesOnly, WritesAll, IssuedFresh, RequestOK, Rotating,
                Inserting, Marking, Revoking, BeforeCommit, NewRow, MarkedRow, RevokedRow,
                Active, Stored, Rotated
  <1>4. Uncommitted(p) /\ Disjoint(p)
    BY <1>2 DEF IInv, TypeOK, Uncommitted, Disjoint
  <1>5. SweepComplete' /\ HeldIsStored' /\ SerialRotation'
    BY <1>2 DEF IInv, SweepComplete, HeldIsStored, SerialRotation, Serial, Rotating, Stored,
                Active
  <1> QED BY <1>1, <1>3, <1>4, <1>5, UncommittedStep DEF IInv

\* Expire(t): no part of the invariant looks at the clock.
LEMMA ExpireStep ==
    ASSUME IInv, NEW t \in Token, Expire(t)
    PROVE  IInv'
  <1>1. TypeOK'
    BY DEF Expire, IInv, TypeOK
  <1>2. (\A p \in Proc : HandlerOK(p))'
    BY DEF Expire, IInv, HandlerOK, WritesOnly, WritesAll, IssuedFresh, RequestOK, Rotating,
           Inserting, Marking, Revoking, NewRow, MarkedRow, RevokedRow, Active, Stored, Rotated
  <1>3. /\ LocksDistinct' /\ IssuedDistinct' /\ RotationLinks' /\ SweepComplete'
        /\ HeldIsStored' /\ SerialRotation'
    BY DEF Expire, IInv, LocksDistinct, IssuedDistinct, RotationLinks, SweepComplete,
           HeldIsStored, SerialRotation, Rotating, Active, Stored, Rotated
  <1> QED BY <1>1, <1>2, <1>3 DEF IInv

-----------------------------------------------------------------------------
(* The commit of a handler's transaction.                                  *)

Committing(p) == pc[p] \in {"persist", "finish", "commit"} /\ Commit(p)

\* What a commit leaves in each row, and that its locks are gone.
LEMMA CommitTable ==
    ASSUME TypeOK, NEW p \in Proc, Commit(p)
    PROVE  /\ table' \in [Token -> Row \cup {NoRow}]
           /\ write' \in [Proc -> [Token -> Row \cup {NoRow}]]
           /\ \A t \in Token : table'[t] = IF write[p][t] = NoRow THEN table[t] ELSE write[p][t]
           /\ \A t \in Token : write'[p][t] = NoRow
           /\ \A q \in Proc \ {p} : write'[q] = write[q]
  BY DEF Commit, TypeOK, NoWrites

\* Rows only grow more final.
LEMMA CommitGrows ==
    ASSUME IInv, NEW p \in Proc, Committing(p)
    PROVE  Grows
  <1> SUFFICES ASSUME NEW t \in Token, Stored(t)
               PROVE  /\ Stored(t)'
                      /\ table'[t].user_id = table[t].user_id
                      /\ table[t].revoked => table'[t].revoked
                      /\ Rotated(t) => Rotated(t)'
    BY DEF Grows
  <1>1. table'[t] = IF write[p][t] = NoRow THEN table[t] ELSE write[p][t]
    BY CommitTable DEF IInv, Committing
  <1>2. CASE write[p][t] = NoRow
    BY <1>1, <1>2 DEF Stored, Rotated
  <1>3. CASE write[p][t] # NoRow
    <2>1. ~NewRow(p, t)
      BY DEF NewRow, IInv, HandlerOK, IssuedFresh, Committing, BeforeCommit, RequestOK, Stored
    <2>2. \/ Marking(p) /\ MarkedRow(p, t)
          \/ RevokedRow(p, t)
      BY <1>3, <2>1 DEF IInv, HandlerOK, WritesOnly
    <2> QED BY <1>1, <1>3, <2>2 DEF Marking, MarkedRow, RevokedRow, Active, Stored, Rotated
  <1> QED BY <1>2, <1>3

\* The other handlers do not notice: what they have written is locked, and only p issues
\* the token p inserts.
LEMMA CommitUntouched ==
    ASSUME IInv, NEW p \in Proc, Committing(p), NEW q \in Proc \ {p},
           pc'[q] = pc[q], req'[q] = req[q], parent' = parent
    PROVE  Untouched(q)
  <1>1. write'[q] = write[q]
    BY CommitTable DEF IInv, Committing
  <1>2. \A t \in Token : write[q][t] # NoRow => table'[t] = table[t]
    BY CommitTable DEF IInv, Committing, LocksDistinct
  <1>3. ASSUME pc[q] \in BeforeCommit, req[q].issued # NoToken, Stored(req[q].issued)'
        PROVE  Stored(req[q].issued)
    <2> DEFINE n == req[q].issued
    <2>1. n \in Token /\ req[p].issued # n
      BY <1>3 DEF IInv, TypeOK, Request, IssuedDistinct
    <2>2. CASE Stored(n)
      BY <2>2
    <2>3. CASE ~Stored(n)
      <3>1. write[p][n] = NoRow
        BY <2>1, <2>3, WritesStored DEF IInv
      <3>2. table'[n] = table[n]
        BY <2>1, <3>1, CommitTable DEF IInv, Committing
      <3>3. Stored(n)' <=> table'[n] # NoRow
        BY DEF Stored
      <3> QED BY <1>3, <3>2, <3>3 DEF Stored
    <2> QED BY <2>2, <2>3
  <1> QED BY <1>1, <1>2, <1>3 DEF Untouched

\* A commit that marks a row brings its successor along.
LEMMA CommitLinks ==
    ASSUME IInv, NEW p \in Proc, Committing(p), parent' = parent
    PROVE  RotationLinks'
  <1>1. /\ \A t \in Token : table'[t] = IF write[p][t] = NoRow THEN table[t] ELSE write[p][t]
        /\ table' \in [Token -> Row \cup {NoRow}]
    BY CommitTable DEF IInv, Committing
  <1> SUFFICES ASSUME NEW t \in Token, Rotated(t)'
               PROVE  /\ table'[t].revoked
                      /\ table'[table'[t].replaced_by_id] # NoRow
                      /\ table'[table'[t].replaced_by_id].user_id = table'[t].user_id
                      /\ parent[table'[t].replaced_by_id] = t
    BY DEF RotationLinks, Stored
  <1>2. table'[t] # NoRow /\ table'[t].replaced_by_id # NoToken
    BY DEF Rotated, Stored
  <1>3. CASE write[p][t] = NoRow
    <2> DEFINE n == table[t].replaced_by_id
    <2>1. /\ table[t].revoked /\ Stored(n) /\ table[n].user_id = table[t].user_id
          /\ parent[n] = t /\ n \in Token
      <3>1. Rotated(t) /\ table[t] \in Row
        BY <1>1, <1>2, <1>3 DEF IInv, TypeOK, Rotated, Stored
      <3>2. n \in Token
        BY <3>1 DEF Row, Rotated
      <3>3. RotationLinks
        BY DEF IInv
      <3>4. /\ table[t].revoked /\ Stored(n) /\ table[n].user_id = table[t].user_id
            /\ parent[n] = t
        BY <3>1, <3>3 DEF RotationLinks
      <3> QED BY <3>2, <3>4
    <2>2. table'[n] # NoRow /\ table'[n].user_id = table[n].user_id
      BY <2>1, CommitGrows DEF Grows, Stored
    <2> QED BY <1>1, <1>3, <2>1, <2>2
  <1>4. CASE Marking(p) /\ MarkedRow(p, t) /\ write[p][t] # NoRow
    <2> DEFINE n == req[p].issued
    <2>1. /\ n \in Token /\ write[p][n] # NoRow /\ ~Stored(n) /\ parent[n] = t
          /\ table[t].user_id = req[p].caller
      BY <1>4 DEF Marking, MarkedRow, IInv, HandlerOK, WritesAll, Inserting, IssuedFresh,
                  BeforeCommit, TypeOK, Request, RequestOK, Rotating
    <2>2. NewRow(p, n)
      BY <1>4, <2>1 DEF IInv, HandlerOK, WritesOnly, MarkedRow, RevokedRow, Active, Revoking,
                        Marking, RequestOK, Rotating
    <2> QED BY <1>1, <1>4, <2>1, <2>2 DEF NewRow, MarkedRow
  <1>5. CASE RevokedRow(p, t) /\ write[p][t] # NoRow
    <2> DEFINE n == table[t].replaced_by_id
    <2>1. Rotated(t) /\ ~table[t].revoked
      BY <1>1, <1>2, <1>5 DEF RevokedRow, Rotated, Active
    <2> QED BY <2>1 DEF IInv, RotationLinks
  <1>6. ~(NewRow(p, t) /\ write[p][t] # NoRow)
    BY <1>1, <1>2 DEF NewRow
  <1> QED BY <1>3, <1>4, <1>5, <1>6 DEF IInv, HandlerOK, WritesOnly

\* What a commit does to the handlers and the table, whatever p does next.
LEMMA CommitStep ==
    ASSUME IInv, NEW p \in Proc, Committing(p), parent' = parent, HandlerOK(p)',
           req'[p].issued \in {NoToken, req[p].issued},
           \A q \in Proc \ {p} : pc'[q] = pc[q] /\ req'[q] = req[q]
    PROVE  /\ \A q \in Proc : HandlerOK(q)'
           /\ LocksDistinct'
           /\ IssuedDistinct'
           /\ RotationLinks'
  <1>1. Disjoint(p)
    BY CommitTable DEF IInv, Committing, Disjoint
  <1>2. Grows /\ \A q \in Proc \ {p} : Untouched(q)
    BY CommitGrows, CommitUntouched
  <1> QED BY <1>1, <1>2, Compose, CommitLinks

\* After the commit the scope of a revocation is revoked, an issued token stored.
LEMMA CommitDone ==
    ASSUME IInv, NEW p \in Proc, Committing(p)
    PROVE  /\ req[p].issued = NoToken => \A t \in req[p].scope : Stored(t)' /\ table'[t].revoked
           /\ req[p].issued # NoToken => table'[req[p].issued] # NoRow
  <1>1. \A t \in Token : table'[t] = IF write[p][t] = NoRow THEN table[t] ELSE write[p][t]
    BY CommitTable DEF IInv, Committing
  <1>2. ASSUME req[p].issued = NoToken, NEW t \in req[p].scope
        PROVE  Stored(t)' /\ table'[t].revoked
    <2>1. t \in Token /\ Stored(t) /\ (write[p][t] # NoRow \/ table[t].revoked)
      BY <1>2 DEF IInv, TypeOK, Request, HandlerOK, RequestOK, WritesAll, Revoking, Committing
    <2>2. write[p][t] # NoRow => write[p][t].revoked
      BY <1>2, <2>1 DEF IInv, HandlerOK, WritesOnly, Inserting, Marking, RevokedRow, Committing,
                        RequestOK
    <2> QED BY <1>1, <2>1, <2>2, CommitGrows DEF Grows
  <1>3. ASSUME req[p].issued # NoToken
        PROVE  table'[req[p].issued] # NoRow
    BY <1>1, <1>3 DEF IInv, TypeOK, Request, HandlerOK, WritesAll, Inserting, RequestOK,
                      Committing
  <1> QED BY <1>2, <1>3

\* Swept rows, held tokens and active rotations survive a commit.
LEMMA CommitKeeps ==
    ASSUME IInv, NEW p \in Proc, Committing(p)
    PROVE  /\ \A t \in swept : Stored(t)' /\ table'[t].revoked
           /\ "respond_first" \notin Orders => \A t \in held : Stored(t)'
           /\ pc' [p] \notin BeforeCommit /\ (\A q \in Proc : q = p) =>
                \A q \in Proc : ~Rotating(q)'
  BY CommitGrows DEF Grows, IInv, TypeOK, SweepComplete, HeldIsStored, Rotating, BeforeCommit

\* ReusePersist(p): the revocation is in the table, and p holds no lock any more.
LEMMA ReusePersistStep ==
    ASSUME IInv, NEW p \in Proc, ReusePersist(p)
    PROVE  IInv'
  <1> USE DEF ReusePersist
  <1>1. Committing(p)
    BY DEF Committing
  <1>2. TypeOK'
    BY CommitTable DEF IInv, TypeOK
  <1>3. /\ pc[p] = "persist" /\ pc'[p] = "refuse" /\ req' = req
        /\ \A q \in Proc \ {p} : pc'[q] = pc[q]
        /\ \A t \in Token : write'[p][t] = NoRow
    BY CommitTable DEF IInv, TypeOK
  <1>4. HandlerOK(p)'
    <2>1. WritesOnly(p)' /\ IssuedFresh(p)'
      BY <1>3 DEF WritesOnly, IssuedFresh, BeforeCommit
    <2>2. WritesAll(p)'
      BY <1>1, <1>3, CommitDone DEF WritesAll, Inserting, Marking, Revoking
    <2>3. RequestOK(p)'
      BY <1>1, <1>3, CommitGrows
         DEF IInv, TypeOK, Request, HandlerOK, RequestOK, Rotating, Grows, Stored, Rotated
    <2> QED BY <2>1, <2>2, <2>3 DEF HandlerOK
  <1>5. SweepComplete' /\ HeldIsStored' /\ SerialRotation'
    BY <1>1, <1>3, CommitKeeps DEF SweepComplete, HeldIsStored, SerialRotation, Serial, Stored,
                                   BeforeCommit
  <1> QED BY <1>1, <1>2, <1>3, <1>4, <1>5, CommitStep DEF IInv

\* CommitFirst(p): as above, with an issued token in the table if there is one.
LEMMA CommitFirstStep ==
    ASSUME IInv, NEW p \in Proc, CommitFirst(p)
    PROVE  IInv'
  <1> USE DEF CommitFirst
  <1>1. Committing(p)
    BY DEF Committing
  <1>2. TypeOK'
    BY CommitTable DEF IInv, TypeOK
  <1>3. /\ pc[p] = "finish" /\ pc'[p] = "respond" /\ req' = req
        /\ \A q \in Proc \ {p} : pc'[q] = pc[q]
        /\ \A t \in Token : write'[p][t] = NoRow
    BY CommitTable DEF IInv, TypeOK
  <1>4. HandlerOK(p)'
    <2>1. WritesOnly(p)'
      BY <1>3 DEF WritesOnly
    <2>2. WritesAll(p)' /\ IssuedFresh(p)'
      BY <1>1, <1>3, CommitDone DEF WritesAll, IssuedFresh, Inserting, Marking, Revoking, Stored,
                                    BeforeCommit
    <2>3. RequestOK(p)'
      BY <1>1, <1>3, CommitGrows
         DEF IInv, TypeOK, Request, HandlerOK, RequestOK, Rotating, Grows, Stored, Rotated
    <2> QED BY <2>1, <2>2, <2>3 DEF HandlerOK
  <1>5. SweepComplete' /\ HeldIsStored' /\ SerialRotation'
    BY <1>1, <1>3, CommitKeeps DEF SweepComplete, HeldIsStored, SerialRotation, Serial, Stored,
                                   BeforeCommit
  <1> QED BY <1>1, <1>2, <1>3, <1>4, <1>5, CommitStep DEF IInv

\* CommitLast(p): p is idle again and a finished sweep has revoked its scope.
LEMMA CommitLastStep ==
    ASSUME IInv, NEW p \in Proc, CommitLast(p)
    PROVE  IInv'
  <1> USE DEF CommitLast, Ended
  <1>1. Committing(p)
    BY DEF Committing
  <1>2. TypeOK'
    BY CommitTable DEF IInv, TypeOK, NoRequest, Request
  <1>3. /\ pc'[p] = "idle" /\ req'[p] = NoRequest /\ req'[p].issued = NoToken
        /\ \A q \in Proc \ {p} : pc'[q] = pc[q] /\ req'[q] = req[q]
        /\ \A t \in Token : write'[p][t] = NoRow
    BY CommitTable DEF IInv, TypeOK, NoRequest
  <1>4. HandlerOK(p)'
    BY <1>3, IdleOK
  <1>5. SweepComplete'
    BY <1>1, CommitDone, CommitKeeps DEF SweepComplete, Stored
  <1>6. HeldIsStored' /\ SerialRotation'
    BY <1>1, <1>3, CommitKeeps DEF HeldIsStored, SerialRotation, Serial, Stored, BeforeCommit
  <1> QED BY <1>1, <1>2, <1>3, <1>4, <1>5, <1>6, CommitStep DEF IInv

-----------------------------------------------------------------------------
(* The theorems.                                                           *)

\* Every step keeps the invariant.
LEMMA NextIInv == IInv /\ [Next]_vars => IInv'
  <1> SUFFICES ASSUME IInv, [Next]_vars PROVE IInv'
    OBVIOUS
  <1>1. ASSUME NEW p \in Proc, Arrive(p) PROVE IInv'
    <2>1. ASSUME UNCHANGED vars PROVE IInv'
      BY <2>1 DEF vars, IInv, TypeOK, HandlerOK, WritesOnly, WritesAll, IssuedFresh, RequestOK,
                  Rotating, Inserting, Marking, Revoking, NewRow, MarkedRow, RevokedRow, Active,
                  Stored, Rotated, LocksDistinct, IssuedDistinct, RotationLinks, SweepComplete,
                  HeldIsStored, SerialRotation
    <2> QED BY <1>1, <2>1, LoginStep, RefreshAcceptedStep, RefreshReusedStep, LogoutStep,
               LogoutAllStep DEF Arrive, RefreshRefused
  <1>2. ASSUME NEW p \in Proc, Handle(p) PROVE IInv'
    BY <1>2, RefreshIssueStep, RefreshMarkStep, RevokeScopeStep, ReuseSweepStep,
       ReusePersistStep, ReuseRefuseStep, CommitFirstStep, RespondLastStep, RespondFirstStep,
       CommitLastStep DEF Handle
  <1>3. CASE UNCHANGED vars
    BY <1>3 DEF vars, IInv, TypeOK, HandlerOK, WritesOnly, WritesAll, IssuedFresh, RequestOK,
                Rotating, Inserting, Marking, Revoking, NewRow, MarkedRow, RevokedRow, Active,
                Stored, Rotated, LocksDistinct, IssuedDistinct, RotationLinks, SweepComplete,
                HeldIsStored, SerialRotation
  <1> QED BY <1>1, <1>2, <1>3, AbortStep, ExpireStep DEF Next

\* The invariant holds in every reachable state, for any number of users, tokens and requests.
THEOREM Invariant == Spec => []IInv
  BY InitIInv, NextIInv, PTL DEF Spec

\* The state of RefreshTokens is always well formed.
THEOREM TypeCorrect == Spec => []TypeOK
  BY Invariant, PTL DEF IInv

\* A rotated row is revoked and names a committed successor of the same user.
THEOREM RotationLinksHolds == Spec => []RotationLinks
  BY Invariant, PTL DEF IInv

\* A finished revoke-all has revoked every row its UPDATE found.
THEOREM SweepCompleteHolds == Spec => []SweepComplete
  BY Invariant, PTL DEF IInv

\* A client holds only committed tokens if the framework commits first.
THEOREM HeldIsStoredHolds == Spec => []HeldIsStored
  BY Invariant, PTL DEF IInv

\* A refresh sweeps a user only for a token of the user's that has a committed successor.
THEOREM EscalatesOnlyOnRotatedHolds == Spec => []EscalatesOnlyOnRotated
  <1>1. IInv => EscalatesOnlyOnRotated
    <2> SUFFICES ASSUME IInv, NEW p \in Proc, pc[p] \in {"reuse", "sweep", "persist", "refuse"}
                 PROVE  /\ Children(req[p].presented) # {}
                        /\ table[req[p].presented].user_id = req[p].caller
      BY DEF EscalatesOnlyOnRotated
    <2> DEFINE t == req[p].presented
    <2>1. t \in Token /\ Rotated(t) /\ table[t].user_id = req[p].caller
      BY DEF IInv, HandlerOK, RequestOK, TypeOK, Request
    <2>2. table[t].replaced_by_id \in Token
      BY <2>1 DEF IInv, TypeOK, Row, Rotated, Stored
    <2>3. table[t].replaced_by_id \in Children(t)
      BY <2>1, <2>2 DEF IInv, RotationLinks, Children
    <2> QED BY <2>1, <2>3
  <1> QED BY <1>1, Invariant, PTL

\* Only a commit changes the table.
LEMMA TableStep ==
    ASSUME IInv, [Next]_vars
    PROVE  table' = table \/ \E p \in Proc : Committing(p)
  BY DEF Next, vars, Arrive, Handle, Login, RefreshRefused, RefreshAccepted, RefreshReused,
         Logout, LogoutAll, RefreshIssue, RefreshMark, RevokeScope, ReuseSweep, ReusePersist,
         ReuseRefuse, CommitFirst, RespondLast, RespondFirst, CommitLast, Abort, Expire,
         Rollback, Committing

\* No late UPDATE undoes a revocation or a rotation.
THEOREM RevocationIsFinalHolds == Spec => RevocationIsFinal
  <1>1. IInv /\ [Next]_vars =>
          [\A t \in Token : Stored(t) =>
             /\ Stored(t)'
             /\ table'[t].user_id = table[t].user_id
             /\ table[t].revoked => table'[t].revoked
             /\ Rotated(t) => Rotated(t)']_vars
    <2> SUFFICES ASSUME IInv, [Next]_vars PROVE Grows
      BY DEF Grows
    <2>1. CASE table' = table
      BY <2>1 DEF Grows, Stored, Rotated
    <2>2. CASE \E p \in Proc : Committing(p)
      BY <2>2, CommitGrows
    <2> QED BY <2>1, <2>2, TableStep
  <1> QED BY <1>1, Invariant, PTL DEF Spec, RevocationIsFinal

\* A row changes only on behalf of whoever presented its token, or of its owner.
THEOREM OtherUsersUntouchedHolds == Spec => OtherUsersUntouched
  <1>1. IInv /\ [Next]_vars =>
          [\A t \in Token : table'[t] # table[t] =>
             \E p \in Proc : /\ write[p][t] = table'[t]
                             /\ \/ req[p].presented = t
                                \/ req[p].caller = table'[t].user_id]_vars
    <2> SUFFICES ASSUME IInv, [Next]_vars, NEW t \in Token, table'[t] # table[t]
                 PROVE  \E p \in Proc : /\ write[p][t] = table'[t]
                                        /\ \/ req[p].presented = t
                                           \/ req[p].caller = table'[t].user_id
      OBVIOUS
    <2>1. PICK p \in Proc : Committing(p)
      BY TableStep
    <2>2. table'[t] = write[p][t] /\ write[p][t] # NoRow
      BY <2>1, CommitTable DEF Committing, IInv
    <2>3. \/ NewRow(p, t)
          \/ MarkedRow(p, t)
          \/ RevokedRow(p, t)
      BY <2>2 DEF IInv, HandlerOK, WritesOnly
    <2>4. RevokedRow(p, t) => req[p].presented = t \/ req[p].caller = table[t].user_id
      BY DEF RevokedRow, IInv, HandlerOK, RequestOK
    <2> QED BY <2>2, <2>3, <2>4 DEF NewRow, MarkedRow, RevokedRow
  <1> QED BY <1>1, Invariant, PTL DEF Spec, OtherUsersUntouched

-----------------------------------------------------------------------------
(* The table implements the ledger.                                        *)

\* A login commits one new row.
LEMMA CommitIssue ==
    ASSUME IInv, NEW p \in Proc, Committing(p), req[p].issued # NoToken, ~Marking(p)
    PROVE  Ledger!Issue(req[p].caller, req[p].issued) /\ req[p].caller \in User
  <1> DEFINE n == req[p].issued
  <1>1. /\ n \in Token /\ req[p].caller \in User /\ ~Stored(n)
        /\ write[p][n] # NoRow /\ Inserting(p)
    BY DEF Committing, IInv, TypeOK, Request, HandlerOK, IssuedFresh, RequestOK, WritesAll,
           Inserting, BeforeCommit
  <1>2. \A t \in Token : write[p][t] # NoRow => t = n /\ NewRow(p, t)
    BY <1>1 DEF IInv, HandlerOK, WritesOnly, NewRow, Revoking
  <1>3. /\ \A t \in Token \ {n} : table'[t] = table[t]
        /\ table'[n] # NoRow /\ table'[n].user_id = req[p].caller
        /\ ~table'[n].revoked /\ table'[n].replaced_by_id = NoToken
    BY <1>1, <1>2, CommitTable DEF Committing, IInv, NewRow
  <1> QED BY <1>1, <1>3 DEF Ledger!Issue, Status, Owner, Successor, Stored

\* A refresh commits a new row and the row it replaces, together.
LEMMA CommitRotate ==
    ASSUME IInv, NEW p \in Proc, Committing(p), Marking(p)
    PROVE  Ledger!Rotate(req[p].presented, req[p].issued)
  <1> DEFINE n == req[p].issued
             t == req[p].presented
  <1>1. /\ n \in Token /\ t \in Token /\ ~Stored(n) /\ Stored(t)
        /\ table[t].user_id = req[p].caller
        /\ write[p][n] # NoRow /\ write[p][t] # NoRow
    BY DEF Committing, Marking, IInv, TypeOK, Request, HandlerOK, IssuedFresh, RequestOK,
           WritesAll, Inserting, Rotating, BeforeCommit
  <1>2. \A x \in Token : write[p][x] # NoRow => NewRow(p, x) \/ MarkedRow(p, x)
    BY DEF IInv, HandlerOK, WritesOnly, Marking, Revoking
  <1>3. NewRow(p, n) /\ MarkedRow(p, t) /\ n # t
    BY <1>1, <1>2 DEF NewRow, MarkedRow
  <1>4. /\ \A x \in Token \ {n, t} : table'[x] = table[x]
        /\ table'[n] # NoRow /\ table'[n].user_id = table[t].user_id
        /\ ~table'[n].revoked /\ table'[n].replaced_by_id = NoToken
        /\ table'[t] # NoRow /\ table'[t].user_id = table[t].user_id
        /\ table'[t].revoked /\ table'[t].replaced_by_id = n
    BY <1>1, <1>2, <1>3, CommitTable DEF Committing, IInv, NewRow, MarkedRow
  <1>5. Status(t) = "active" \/ ((\E a, b \in Proc : a # b) /\ Status(t) # "unborn")
    BY <1>1 DEF IInv, SerialRotation, Serial, Rotating, Marking, Active, Status
  <1>6. [x \in Token |-> Status(x)]' =
          [[x \in Token |-> Status(x)] EXCEPT ![t] = "rotated", ![n] = "active"]
    BY <1>1, <1>3, <1>4 DEF Status, Stored
  <1>7. [x \in Token |-> Owner(x)]' = [[x \in Token |-> Owner(x)] EXCEPT ![n] = Owner(t)]
    BY <1>1, <1>3, <1>4 DEF Owner, Stored
  <1>8. [x \in Token |-> Successor(x)]' = [[x \in Token |-> Successor(x)] EXCEPT ![t] = n]
    BY <1>1, <1>3, <1>4 DEF Successor, Stored
  <1> QED BY <1>1, <1>5, <1>6, <1>7, <1>8 DEF Ledger!Rotate, Status, Owner

\* A logout or a sweep commits revocations of one user's active rows, or nothing.
LEMMA CommitRevoke ==
    ASSUME IInv, NEW p \in Proc, Committing(p), req[p].issued = NoToken
    PROVE  table' = table \/ \E u \in User, S \in SUBSET Token : Ledger!Revoke(u, S)
  <1> DEFINE S == {t \in Token : write[p][t] # NoRow}
  <1>1. \A t \in S : /\ Active(t)
                     /\ table'[t] # NoRow /\ table'[t].user_id = table[t].user_id
                     /\ table'[t].revoked
                     /\ table'[t].replaced_by_id = table[t].replaced_by_id
                     /\ table[t].user_id \in User
    <2> SUFFICES ASSUME NEW t \in Token, write[p][t] # NoRow
                 PROVE  /\ Active(t)
                        /\ table'[t] # NoRow /\ table'[t].user_id = table[t].user_id
                        /\ table'[t].revoked
                        /\ table'[t].replaced_by_id = table[t].replaced_by_id
                        /\ table[t].user_id \in User
      OBVIOUS
    <2>1. RevokedRow(p, t) /\ table'[t] = write[p][t]
      BY CommitTable DEF Committing, IInv, HandlerOK, WritesOnly, Inserting, Marking, RequestOK
    <2>2. table[t].user_id \in User
      BY <2>1 DEF IInv, TypeOK, Row, RevokedRow, Active, Stored
    <2> QED BY <2>1, <2>2 DEF RevokedRow
  <1>2. \A t \in Token \ S : table'[t] = table[t]
    BY CommitTable DEF Committing, IInv
  <1>3. CASE S = {}
    BY <1>2, <1>3, CommitTable DEF Committing, IInv, TypeOK
  <1>4. CASE S # {}
    <2>1. PICK s \in S : TRUE
      BY <1>4
    <2> DEFINE u == table[s].user_id
    <2>2. u \in User
      BY <1>1
    <2>3. \A t \in S : table[t].user_id = u
      <3>1. \A t \in S : t \in req[p].scope
        BY DEF IInv, HandlerOK, WritesOnly, Inserting, Marking, RevokedRow, Committing, RequestOK
      <3> QED BY <3>1 DEF IInv, HandlerOK, RequestOK
    <2>4. \A t \in S : table[t].replaced_by_id = NoToken
      BY <1>1 DEF IInv, RotationLinks, Rotated, Active
    <2>5. \A t \in S : Status(t) = "active" /\ Owner(t) = u
      BY <1>1, <2>3 DEF Status, Owner, Active
    <2>6. [t \in Token |-> Status(t)]' =
            [t \in Token |-> IF t \in S THEN "revoked" ELSE [x \in Token |-> Status(x)][t]]
      BY <1>1, <1>2, <2>4 DEF Status, Stored
    <2>7. [t \in Token |-> Owner(t)]' = [t \in Token |-> Owner(t)]
      BY <1>1, <1>2 DEF Owner, Stored, Active
    <2>8. [t \in Token |-> Successor(t)]' = [t \in Token |-> Successor(t)]
      BY <1>1, <1>2 DEF Successor, Stored, Active
    <2>9. Ledger!Revoke(u, S)
      BY <2>5, <2>6, <2>7, <2>8 DEF Ledger!Revoke
    <2> QED BY <2>2, <2>9
  <1> QED BY <1>3, <1>4

\* The refresh_tokens table implements the ledger: each commit is one of its steps.
THEOREM LedgerImplementedHolds == Spec => LedgerImplemented
  <1>1. Init => Ledger!Init
    BY DEF Init, Ledger!Init, Status, Owner, Successor, Stored
  <1>2. IInv /\ [Next]_vars => [Ledger!Next]_Ledger!ledger
    <2> SUFFICES ASSUME IInv, [Next]_vars PROVE [Ledger!Next]_Ledger!ledger
      OBVIOUS
    <2>1. CASE table' = table
      BY <2>1 DEF Ledger!ledger, Status, Owner, Successor, Stored
    <2>2. ASSUME NEW p \in Proc, Committing(p) PROVE [Ledger!Next]_Ledger!ledger
      <3>1. CASE Marking(p)
        <4>1. req[p].presented \in Token /\ req[p].issued \in Token
          BY <3>1 DEF Marking, IInv, TypeOK, Request
        <4> QED BY <2>2, <3>1, <4>1, CommitRotate DEF Ledger!Next
      <3>2. CASE req[p].issued # NoToken /\ ~Marking(p)
        <4>1. req[p].issued \in Token
          BY <3>2 DEF IInv, TypeOK, Request
        <4> QED BY <2>2, <3>2, <4>1, CommitIssue DEF Ledger!Next
      <3>3. CASE req[p].issued = NoToken
        BY <2>1, <2>2, <3>3, CommitRevoke DEF Ledger!Next
      <3> QED BY <3>1, <3>2, <3>3
    <2> QED BY <2>1, <2>2, TableStep
  <1> QED BY <1>1, <1>2, Invariant, PTL DEF Spec, LedgerImplemented, Ledger!Spec

=============================================================================
