--------------------------- MODULE RotationProofs ---------------------------
(***************************************************************************)
(* How far a rotation chain of RefreshTokens can fork: as many times as    *)
(* requests overlap (ForkBound), so never for requests served one at a     *)
(* time, for which every successor is recorded and no session outlives a   *)
(* revoke-all.                                                             *)
(*                                                                         *)
(* Every request that has read a token active holds a part of the token's  *)
(* budget of successors (RotationBudget). The first commit shuts the       *)
(* budget, for a token with a successor is not active any more.            *)
(***************************************************************************)
EXTENDS RefreshTokensProofs, FiniteSetTheorems

\* The requests that may still commit a successor of t.
Rotators(t) == {p \in Proc : Rotating(p) /\ req[p].presented = t}

\* A token with a committed successor is rotated: nobody reads it active any more.
ParentsRotated ==
    \A n \in Token : Stored(n) /\ parent[n] # NoToken => Rotated(parent[n])

RotationBudget ==
    \A t \in Token :
        /\ IsFiniteSet(Children(t))
        /\ Cardinality(Children(t)) + Cardinality(Rotators(t)) <= Cardinality(Proc)

ForkInv == ParentsRotated /\ (IsFiniteSet(Proc) => RotationBudget)

\* A request that will have revoked all rows of its caller.
Sweeping(p) == /\ pc[p] \notin {"idle", "reuse"}
               /\ req[p].caller # NoUser
               /\ req[p].issued = NoToken

\* Served alone, a sweep has every row of its caller in its scope.
SweepWhole ==
    \A p \in Proc : Sweeping(p) =>
        \A t \in Token : Stored(t) /\ table[t].user_id = req[p].caller => t \in req[p].scope

SerialInv == Serial => SuccessorRecorded /\ NoSurvivor /\ SweepWhole

-----------------------------------------------------------------------------
(* The steps, sorted by what they do to chains.                            *)

\* Request q does not start to rotate a token.
Narrows(q) == Rotating(q)' => Rotating(q) /\ req'[q].presented = req[q].presented

ParentsKept == \A n \in Token : Stored(n) => parent'[n] = parent[n]

\* p has read a token active.
Accepts(p) ==
    /\ table' = table
    /\ ParentsKept
    /\ req'[p].presented \in Token
    /\ Active(req'[p].presented)
    /\ \A q \in Proc \ {p} : Narrows(q)

\* p commits, and is done with the token it rotates.
Closes(p) ==
    /\ Committing(p)
    /\ ParentsKept
    /\ parent' = parent
    /\ ~Rotating(p)'
    /\ \A q \in Proc \ {p} : Narrows(q)

\* Nothing is committed and no rotation starts.
Quiet == table' = table /\ ParentsKept /\ \A q \in Proc : Narrows(q)

LEMMA StepKinds ==
    ASSUME IInv, [Next]_vars
    PROVE  Quiet \/ \E p \in Proc : Accepts(p) \/ Closes(p)
  <1> USE DEF IInv, TypeOK, Request, NoRequest, Narrows, ParentsKept, Rotating
  <1>1. CASE UNCHANGED vars
    BY <1>1 DEF vars, Quiet
  <1>2. CASE \E t \in Token : Expire(t)
    BY <1>2 DEF Expire, Quiet
  <1>3. ASSUME NEW p \in Proc, Abort(p) PROVE Quiet
    BY <1>3 DEF Abort, Rollback, Quiet
  <1>4. ASSUME NEW p \in Proc, Arrive(p) PROVE Quiet \/ Accepts(p)
    <2>1. ASSUME NEW u \in User, NEW n \in Token, Login(p, u, n) PROVE Quiet
      BY <2>1 DEF Login, Begin, Fresh, Quiet
    <2>2. ASSUME NEW t \in Token, NEW n \in Token, RefreshAccepted(p, t, n) PROVE Accepts(p)
      BY <2>2 DEF RefreshAccepted, Begin, Accepts
    <2>3. ASSUME NEW t \in Token, RefreshRefused(p, t) PROVE Quiet
      BY <2>3 DEF RefreshRefused, vars, Quiet
    <2>4. ASSUME NEW t \in Token, RefreshReused(p, t) PROVE Quiet
      BY <2>4 DEF RefreshReused, Begin, Quiet
    <2>5. ASSUME NEW t \in Token, Logout(p, t) PROVE Quiet
      BY <2>5 DEF Logout, Begin, Quiet
    <2>6. ASSUME NEW u \in User, LogoutAll(p, u) PROVE Quiet
      BY <2>6 DEF LogoutAll, Begin, Quiet
    <2> QED BY <1>4, <2>1, <2>2, <2>3, <2>4, <2>5, <2>6 DEF Arrive
  <1>5. ASSUME NEW p \in Proc, Handle(p) PROVE Quiet \/ Closes(p)
    <2> USE DEF HandlerOK, RequestOK
    <2>1. ASSUME RefreshIssue(p) PROVE Quiet
      BY <2>1 DEF RefreshIssue, InsertToken, IssuedFresh, BeforeCommit, Quiet
    <2>2. ASSUME RefreshMark(p) PROVE Quiet
      BY <2>2 DEF RefreshMark, Quiet
    <2>3. ASSUME RevokeScope(p) PROVE Quiet
      BY <2>3 DEF RevokeScope, Quiet
    <2>4. ASSUME ReuseSweep(p) PROVE Quiet
      BY <2>4 DEF ReuseSweep, Quiet
    <2>5. ASSUME ReusePersist(p) PROVE Closes(p)
      BY <2>5 DEF ReusePersist, Committing, Closes
    <2>6. ASSUME ReuseRefuse(p) PROVE Quiet
      BY <2>6 DEF ReuseRefuse, Ended, Rollback, Quiet
    <2>7. ASSUME CommitFirst(p) PROVE Closes(p)
      BY <2>7 DEF CommitFirst, Committing, Closes
    <2>8. ASSUME RespondLast(p) PROVE Quiet
      BY <2>8 DEF RespondLast, Ended, Quiet
    <2>9. ASSUME RespondFirst(p) PROVE Quiet
      BY <2>9 DEF RespondFirst, Quiet
    <2>10. ASSUME CommitLast(p) PROVE Closes(p)
      BY <2>10 DEF CommitLast, Ended, Committing, Closes
    <2> QED BY <1>5, <2>1, <2>2, <2>3, <2>4, <2>5, <2>6, <2>7, <2>8, <2>9, <2>10 DEF Handle
  <1> QED BY <1>1, <1>2, <1>3, <1>4, <1>5 DEF Next

-----------------------------------------------------------------------------
(* What a commit does to a chain.                                          *)

\* A row that appears is the token of the request that commits.
LEMMA CommitBirth ==
    ASSUME IInv, NEW p \in Proc, Committing(p), NEW n \in Token, ~Stored(n), Stored(n)'
    PROVE  /\ n = req[p].issued
           /\ parent[n] = req[p].presented
           /\ parent[n] # NoToken => Marking(p)
  <1>1. write[p][n] # NoRow
    BY CommitTable DEF IInv, Committing, Stored
  <1>2. n = req[p].issued
    BY <1>1, WritesStored DEF IInv
  <1>3. Inserting(p)
    BY <1>2, NoTokenAssumption DEF Inserting, Committing, IInv, HandlerOK, RequestOK
  <1> QED BY <1>2, <1>3 DEF IInv, HandlerOK, WritesAll, Marking, Inserting, Committing

\* The token that was rotated names its successor.
LEMMA CommitMarks ==
    ASSUME IInv, NEW p \in Proc, Committing(p), Marking(p),
           NEW t \in Token, t = req[p].presented
    PROVE  Rotated(t)' /\ table'[t].replaced_by_id = req[p].issued
  <1>1. Stored(t) /\ write[p][t] # NoRow /\ req[p].issued # NoToken
    BY DEF Marking, IInv, HandlerOK, RequestOK, Rotating, WritesAll
  <1>2. ~NewRow(p, t)
    BY <1>1 DEF NewRow, Marking, IInv, HandlerOK, IssuedFresh, BeforeCommit
  <1>3. MarkedRow(p, t)
    BY <1>1, <1>2 DEF IInv, HandlerOK, WritesOnly, Revoking
  <1>4. table'[t] = write[p][t]
    BY <1>1, CommitTable DEF IInv, Committing
  <1> QED BY <1>1, <1>3, <1>4 DEF MarkedRow, Rotated, Stored

\* A token with a committed successor stays rotated, and every new successor is marked.
LEMMA ParentsRotatedStep ==
    ASSUME IInv, ParentsRotated, [Next]_vars
    PROVE  ParentsRotated'
  <1>1. ASSUME table' = table, ParentsKept PROVE ParentsRotated'
    BY <1>1 DEF ParentsRotated, ParentsKept, Stored, Rotated
  <1>2. ASSUME NEW p \in Proc, Closes(p) PROVE ParentsRotated'
    <2> SUFFICES ASSUME NEW n \in Token, Stored(n)', parent[n] # NoToken,
                        NEW t \in Token, t = parent[n]
                 PROVE  Rotated(t)'
      BY <1>2 DEF ParentsRotated, Closes, IInv, TypeOK, Rotated, Stored
    <2>1. CASE Stored(n)
      BY <1>2, <2>1, CommitGrows DEF ParentsRotated, Closes, Grows, Rotated
    <2>2. CASE ~Stored(n)
      BY <1>2, <2>2, CommitBirth, CommitMarks DEF Closes
    <2> QED BY <2>1, <2>2
  <1> QED BY <1>1, <1>2, StepKinds DEF Quiet, Accepts

-----------------------------------------------------------------------------
(* The budget of a token.                                                  *)

\* An active token has no successor.
LEMMA ActiveChildless ==
    ASSUME IInv, ParentsRotated, NEW t \in Token, Active(t)
    PROVE  Children(t) = {}
  BY NoTokenAssumption DEF ParentsRotated, Children, Active, IInv, RotationLinks

\* Fewer rotators do not raise the cost.
LEMMA RotatorsBound ==
    ASSUME IsFiniteSet(Proc), NEW S \in SUBSET Proc, NEW T \in SUBSET S
    PROVE  /\ IsFiniteSet(S) /\ IsFiniteSet(T)
           /\ Cardinality(S) \in Nat /\ Cardinality(T) \in Nat /\ Cardinality(Proc) \in Nat
           /\ Cardinality(T) <= Cardinality(S) /\ Cardinality(S) <= Cardinality(Proc)
  <1>1. IsFiniteSet(S) /\ Cardinality(S) <= Cardinality(Proc)
    BY FS_Subset
  <1>2. IsFiniteSet(T) /\ Cardinality(T) <= Cardinality(S)
    BY <1>1, FS_Subset
  <1> QED BY <1>1, <1>2, FS_CardinalityType

\* One element more costs at most one.
LEMMA OneMore ==
    ASSUME NEW S, IsFiniteSet(S), NEW x, NEW T \in SUBSET (S \cup {x})
    PROVE  /\ IsFiniteSet(T) /\ Cardinality(T) \in Nat
           /\ Cardinality(T) <= Cardinality(S) + 1
  <1> DEFINE U == S \cup {x}
  <1>1. IsFiniteSet(U)
    BY FS_AddElement
  <1>2. Cardinality(U) = IF x \in S THEN Cardinality(S) ELSE Cardinality(S) + 1
    BY FS_AddElement
  <1>3. IsFiniteSet(T) /\ Cardinality(T) <= Cardinality(U)
    BY <1>1, FS_Subset
  <1>4. Cardinality(S) \in Nat /\ Cardinality(T) \in Nat
    BY <1>3, FS_CardinalityType
  <1> HIDE DEF U
  <1> QED BY <1>2, <1>3, <1>4

\* Every step keeps the budget.
LEMMA BudgetStep ==
    ASSUME IsFiniteSet(Proc), IInv, ParentsRotated, RotationBudget, [Next]_vars
    PROVE  RotationBudget'
  <1> SUFFICES ASSUME NEW t \in Token
               PROVE  /\ IsFiniteSet(Children(t)')
                      /\ Cardinality(Children(t)') + Cardinality(Rotators(t)') <= Cardinality(Proc)
    BY DEF RotationBudget
  <1>1. /\ IsFiniteSet(Children(t))
        /\ Cardinality(Children(t)) \in Nat
        /\ Cardinality(Children(t)) + Cardinality(Rotators(t)) <= Cardinality(Proc)
    BY FS_CardinalityType DEF RotationBudget
  <1>2. Rotators(t) \in SUBSET Proc /\ Rotators(t)' \in SUBSET Proc
    BY DEF Rotators
  <1>3. ASSUME table' = table, ParentsKept PROVE Children(t)' = Children(t)
    BY <1>3 DEF Children, ParentsKept, Stored
  <1>4. CASE Quiet
    <2>1. Children(t)' = Children(t) /\ Rotators(t)' \in SUBSET Rotators(t)
      BY <1>3, <1>4 DEF Quiet, Narrows, Rotators
    <2> QED BY <1>1, <1>2, <2>1, RotatorsBound
  <1>5. ASSUME NEW p \in Proc, Accepts(p) PROVE
          /\ IsFiniteSet(Children(t)')
          /\ Cardinality(Children(t)') + Cardinality(Rotators(t)') <= Cardinality(Proc)
    <2>1. Children(t)' = Children(t)
      BY <1>3, <1>5 DEF Accepts
    <2>2. CASE req'[p].presented = t
      <3>1. Children(t)' = {}
        BY <1>5, <2>1, <2>2, ActiveChildless DEF Accepts
      <3> QED BY <1>2, <3>1, RotatorsBound, FS_EmptySet
    <2>3. CASE req'[p].presented # t
      <3>1. Rotators(t)' \in SUBSET Rotators(t)
        BY <1>5, <2>3 DEF Accepts, Narrows, Rotators
      <3> QED BY <1>1, <1>2, <2>1, <3>1, RotatorsBound
    <2> QED BY <2>2, <2>3
  <1>6. ASSUME NEW p \in Proc, Closes(p) PROVE
          /\ IsFiniteSet(Children(t)')
          /\ Cardinality(Children(t)') + Cardinality(Rotators(t)') <= Cardinality(Proc)
    <2>1. Rotators(t)' \in SUBSET (Rotators(t) \ {p})
      BY <1>6 DEF Closes, Narrows, Rotators
    <2>2. CASE Children(t)' \in SUBSET Children(t)
      <3>1. Rotators(t)' \in SUBSET Rotators(t)
        BY <2>1
      <3>2. /\ IsFiniteSet(Children(t)') /\ Cardinality(Children(t)') \in Nat
            /\ Cardinality(Children(t)') <= Cardinality(Children(t))
        BY <1>1, <2>2, FS_Subset, FS_CardinalityType
      <3> QED BY <1>1, <1>2, <3>1, <3>2, RotatorsBound
    <2>3. CASE Children(t)' \notin SUBSET Children(t)
      <3>1. PICK n \in Token : Stored(n)' /\ parent[n] = t /\ ~Stored(n)
        BY <1>6, <2>3 DEF Children, Closes
      <3>2. n = req[p].issued /\ t = req[p].presented /\ Marking(p)
        BY <1>6, <3>1, CommitBirth, NoTokenAssumption DEF Closes
      <3>3. p \in Rotators(t)
        BY <3>2 DEF Rotators, Rotating, Marking
      <3>4. Children(t)' \in SUBSET (Children(t) \cup {n})
        BY <1>6, <3>2, CommitBirth DEF Children, Closes
      <3>5. /\ IsFiniteSet(Children(t)') /\ Cardinality(Children(t)') \in Nat
            /\ Cardinality(Children(t)') <= Cardinality(Children(t)) + 1
        BY <1>1, <3>4, OneMore
      <3>6. Cardinality(Rotators(t)') <= Cardinality(Rotators(t)) - 1
        <4>1. /\ IsFiniteSet(Rotators(t))
              /\ Cardinality(Rotators(t)) \in Nat
          BY <1>2, RotatorsBound
        <4>2. Cardinality(Rotators(t) \ {p}) = Cardinality(Rotators(t)) - 1
          BY <3>3, <4>1, FS_RemoveElement
        <4>3. Rotators(t) \ {p} \in SUBSET Proc
          BY <1>2
        <4> QED BY <2>1, <4>2, <4>3, RotatorsBound
      <3>7. Cardinality(Rotators(t)) \in Nat /\ Cardinality(Rotators(t)') \in Nat
            /\ Cardinality(Proc) \in Nat
        BY <1>2, RotatorsBound
      <3> QED BY <1>1, <3>5, <3>6, <3>7
    <2> QED BY <2>2, <2>3
  <1> QED BY <1>4, <1>5, <1>6, StepKinds

LEMMA InitForkInv == Init => ForkInv
  <1> SUFFICES ASSUME Init PROVE ForkInv
    OBVIOUS
  <1>1. ParentsRotated
    BY DEF Init, ParentsRotated
  <1>2. ASSUME IsFiniteSet(Proc), NEW t \in Token
        PROVE  /\ IsFiniteSet(Children(t))
               /\ Cardinality(Children(t)) + Cardinality(Rotators(t)) <= Cardinality(Proc)
    <2>1. Children(t) = {} /\ Rotators(t) = {}
      BY DEF Init, Children, Stored, Rotators, Rotating
    <2> QED BY <1>2, <2>1, FS_EmptySet, FS_CardinalityType
  <1> QED BY <1>1, <1>2 DEF ForkInv, RotationBudget

-----------------------------------------------------------------------------
(* Requests served one at a time.                                          *)

\* A finished sweep is recorded in swept, and a scope once taken stays.
LEMMA SweepKinds ==
    ASSUME IInv, [Next]_vars
    PROVE  /\ \/ swept' = swept
              \/ \E p \in Proc : /\ Sweeping(p)
                                 /\ swept' = swept \cup req[p].scope
                                 /\ \/ pc[p] \in {"refuse", "respond"} /\ table' = table
                                    \/ Committing(p)
           /\ \A p \in Proc : Sweeping(p)' =>
                 \/ /\ Sweeping(p)
                    /\ req'[p].caller = req[p].caller /\ req'[p].scope = req[p].scope
                 \/ table' = table /\ req'[p].scope = RowsOf(req'[p].caller)
  <1> USE NoTokenAssumption DEF IInv, TypeOK, Request, NoRequest, Sweeping
  <1>1. CASE UNCHANGED vars
    BY <1>1 DEF vars
  <1>2. CASE \E t \in Token : Expire(t)
    BY <1>2 DEF Expire
  <1>3. CASE \E p \in Proc : Abort(p)
    BY <1>3 DEF Abort, Rollback
  <1>4. ASSUME NEW p \in Proc, Arrive(p) PROVE
           /\ swept' = swept
           /\ \A q \in Proc : Sweeping(q)' =>
                 \/ /\ Sweeping(q)
                    /\ req'[q].caller = req[q].caller /\ req'[q].scope = req[q].scope
                 \/ table' = table /\ req'[q].scope = RowsOf(req'[q].caller)
    <2>1. ASSUME NEW u \in User, NEW n \in Token, Login(p, u, n)
          PROVE  swept' = swept /\ \A q \in Proc : Sweeping(q)' => q # p /\ Sweeping(q)
      BY <2>1 DEF Login, Begin
    <2>2. CASE \E t \in Token : RefreshRefused(p, t)
      BY <2>2 DEF RefreshRefused, vars
    <2>3. CASE \E t, n \in Token : RefreshAccepted(p, t, n)
      BY <2>3 DEF RefreshAccepted, Begin
    <2>4. CASE \E t \in Token : RefreshReused(p, t)
      BY <2>4 DEF RefreshReused, Begin
    <2>5. CASE \E t \in Token : Logout(p, t)
      BY <2>5 DEF Logout, Begin
    <2>6. ASSUME NEW u \in User, LogoutAll(p, u) PROVE req'[p].scope = RowsOf(req'[p].caller)
      BY <2>6 DEF LogoutAll, Begin
    <2>7. CASE \E u \in User : LogoutAll(p, u)
      BY <2>6, <2>7 DEF LogoutAll, Begin
    <2>8. CASE \E u \in User, n \in Token : Login(p, u, n)
      BY <2>1, <2>8 DEF Login, Begin
    <2> QED BY <1>4, <2>2, <2>3, <2>4, <2>5, <2>7, <2>8 DEF Arrive
  <1>5. ASSUME NEW p \in Proc, Handle(p) PROVE
           /\ \/ swept' = swept
              \/ /\ Sweeping(p)
                 /\ swept' = swept \cup req[p].scope
                 /\ \/ pc[p] \in {"refuse", "respond"} /\ table' = table
                    \/ Committing(p)
           /\ \A q \in Proc : Sweeping(q)' =>
                 \/ /\ Sweeping(q)
                    /\ req'[q].caller = req[q].caller /\ req'[q].scope = req[q].scope
                 \/ table' = table /\ req'[q].scope = RowsOf(req'[q].caller)
    <2>1. CASE ReuseSweep(p)
      BY <2>1 DEF ReuseSweep
    <2>2. CASE RefreshIssue(p) \/ RefreshMark(p) \/ RevokeScope(p)
      BY <2>2 DEF RefreshIssue, RefreshMark, RevokeScope, HandlerOK, IssuedFresh
    <2>3. CASE ReusePersist(p) \/ CommitFirst(p) \/ RespondFirst(p)
      BY <2>3 DEF ReusePersist, CommitFirst, RespondFirst
    <2>4. CASE ReuseRefuse(p)
      BY <2>4 DEF ReuseRefuse, Ended, Rollback
    <2>5. CASE RespondLast(p)
      BY <2>5 DEF RespondLast, Ended
    <2>6. CASE CommitLast(p)
      BY <2>6 DEF CommitLast, Ended, Committing
    <2> QED BY <1>5, <2>1, <2>2, <2>3, <2>4, <2>5, <2>6 DEF Handle
  <1> QED BY <1>1, <1>2, <1>3, <1>4, <1>5 DEF Next

\* Served alone, p rotates an active token, so the successor it commits is the only one.
LEMMA SuccessorStep ==
    ASSUME IInv, ParentsRotated, Serial, SuccessorRecorded, [Next]_vars
    PROVE  SuccessorRecorded'
  <1>1. ASSUME table' = table, ParentsKept PROVE SuccessorRecorded'
    BY <1>1 DEF SuccessorRecorded, ParentsKept, Stored
  <1>2. ASSUME NEW p \in Proc, Closes(p) PROVE SuccessorRecorded'
    <2> SUFFICES ASSUME NEW n \in Token, Stored(n)', NEW t \in Token, t = parent[n]
                 PROVE  table'[t].replaced_by_id = n
      BY <1>2 DEF SuccessorRecorded, Closes, IInv, TypeOK
    <2>1. CASE ~Stored(n)
      BY <1>2, <2>1, CommitBirth, CommitMarks, NoTokenAssumption DEF Closes
    <2>2. CASE Stored(n)
      <3>1. table[t].replaced_by_id = n
        BY <2>2, NoTokenAssumption DEF SuccessorRecorded
      <3>2. table'[t] = IF write[p][t] = NoRow THEN table[t] ELSE write[p][t]
        BY <1>2, CommitTable DEF Closes, Committing, IInv
      <3>3. CASE write[p][t] = NoRow
        BY <3>1, <3>2, <3>3
      <3>4. CASE write[p][t] # NoRow
        <4>1. Stored(t)
          BY <2>2, NoTokenAssumption DEF ParentsRotated, Rotated
        <4>2. ~NewRow(p, t)
          BY <1>2, <4>1, NoTokenAssumption
             DEF NewRow, Closes, Committing, IInv, HandlerOK, IssuedFresh, RequestOK,
                 BeforeCommit
        <4>3. ~(Marking(p) /\ MarkedRow(p, t))
          BY <3>1, <4>1, NoTokenAssumption
             DEF IInv, SerialRotation, Marking, MarkedRow, Rotating, RotationLinks, Rotated, Active
        <4>4. RevokedRow(p, t)
          BY <3>4, <4>2, <4>3 DEF IInv, HandlerOK, WritesOnly
        <4> QED BY <3>1, <3>2, <3>4, <4>4 DEF RevokedRow
      <3> QED BY <3>3, <3>4
    <2> QED BY <2>1, <2>2
  <1> QED BY <1>1, <1>2, StepKinds DEF Quiet, Accepts

\* Served alone, the rows of a user that a sweep takes are all there are, until it has ended.
LEMMA SweepWholeStep ==
    ASSUME IInv, Serial, SweepWhole, [Next]_vars
    PROVE  SweepWhole'
  <1> SUFFICES ASSUME NEW p \in Proc, Sweeping(p)', NEW t \in Token, Stored(t)',
                      table'[t].user_id = req'[p].caller
               PROVE  t \in req'[p].scope
    BY DEF SweepWhole
  <1>1. CASE table' = table /\ req'[p].scope = RowsOf(req'[p].caller)
    BY <1>1 DEF RowsOf, Stored
  <1>2. CASE /\ Sweeping(p)
             /\ req'[p].caller = req[p].caller /\ req'[p].scope = req[p].scope
    <2>1. Stored(t) /\ table[t].user_id = table'[t].user_id
      <3>1. CASE table' = table
        BY <3>1 DEF Stored
      <3>2. CASE \E q \in Proc : Committing(q)
        <4>1. Committing(p)
          BY <3>2 DEF Serial
        <4>2. Stored(t)
          BY <1>2, <4>1, CommitBirth, NoTokenAssumption DEF Sweeping
        <4> QED BY <4>1, <4>2, CommitGrows DEF Grows
      <3> QED BY <3>1, <3>2, TableStep
    <2> QED BY <1>2, <2>1 DEF SweepWhole
  <1> QED BY <1>1, <1>2, SweepKinds

\* Served alone, a sweep that ends leaves no child of its scope active, and a later rotation
\* starts from an active token, which no sweep has found.
LEMMA NoSurvivorStep ==
    ASSUME IInv, ParentsRotated, Serial, SuccessorRecorded, NoSurvivor, SweepWhole, [Next]_vars
    PROVE  NoSurvivor'
  <1> SUFFICES ASSUME NEW n \in Token, Stored(n)', ~table'[n].revoked, parent'[n] \in swept'
               PROVE  FALSE
    BY DEF NoSurvivor, Active
  <1>1. CASE Stored(n)
    <2> DEFINE t == parent[n]
    <2>1. parent'[n] = t
      BY <1>1, StepKinds DEF Quiet, Accepts, Closes, ParentsKept
    <2>2. Active(n)
      BY <1>1, TableStep, CommitGrows DEF Active, Grows
    <2>3. PICK p \in Proc : /\ Sweeping(p) /\ t \in req[p].scope
                            /\ \/ pc[p] \in {"refuse", "respond"} /\ table' = table
                               \/ Committing(p)
      BY <2>1, <2>2, SweepKinds DEF NoSurvivor
    <2>4. t \in Token /\ t # NoToken
      BY <2>3, NoTokenAssumption DEF IInv, TypeOK, Request
    <2>5. table[n].user_id = table[t].user_id
      BY <1>1, <2>4 DEF SuccessorRecorded, ParentsRotated, IInv, RotationLinks
    <2>6. table[t].user_id = req[p].caller
      BY <2>3 DEF Sweeping, IInv, HandlerOK, RequestOK
    <2>7. n \in req[p].scope
      BY <1>1, <2>3, <2>5, <2>6 DEF SweepWhole
    <2>8. CASE Committing(p)
      BY <2>3, <2>7, <2>8, CommitDone DEF Sweeping
    <2>9. CASE pc[p] \in {"refuse", "respond"}
      BY <2>2, <2>3, <2>7, <2>9 DEF Sweeping, Active, IInv, HandlerOK, WritesAll
    <2> QED BY <2>3, <2>8, <2>9
  <1>2. CASE ~Stored(n)
    <2>1. PICK p \in Proc : Closes(p)
      BY <1>2, StepKinds DEF Quiet, Accepts, Stored
    <2> DEFINE t == parent[n]
    <2>2. n = req[p].issued /\ t = req[p].presented /\ (t # NoToken => Marking(p))
      BY <1>2, <2>1, CommitBirth DEF Closes
    <2>3. parent'[n] = t /\ swept' = swept
      BY <2>1, <2>2, SweepKinds, NoTokenAssumption DEF Closes, Sweeping, Serial
    <2>4. t \in Token /\ table[t].revoked /\ t # NoToken
      BY <2>3, NoTokenAssumption DEF IInv, TypeOK, SweepComplete
    <2>5. Active(t)
      BY <2>2, <2>4 DEF IInv, SerialRotation, Marking, Rotating
    <2> QED BY <2>4, <2>5 DEF Active
  <1> QED BY <1>1, <1>2

\* The invariants of forks and of serial requests hold together.
LEMMA ChainInvariant == Spec => [](IInv /\ ForkInv /\ SerialInv)
  <1>1. Init => SerialInv
    BY DEF Init, SerialInv, SuccessorRecorded, NoSurvivor, SweepWhole, Stored, Active, Sweeping
  <1>2. IInv /\ ForkInv /\ SerialInv /\ [Next]_vars => ForkInv' /\ SerialInv'
    <2> SUFFICES ASSUME IInv, ForkInv, SerialInv, [Next]_vars PROVE ForkInv' /\ SerialInv'
      OBVIOUS
    <2>1. ForkInv'
      BY ParentsRotatedStep, BudgetStep DEF ForkInv
    <2>2. ASSUME Serial PROVE SuccessorRecorded' /\ NoSurvivor' /\ SweepWhole'
      BY <2>2, SuccessorStep, NoSurvivorStep, SweepWholeStep DEF ForkInv, SerialInv
    <2> QED BY <2>1, <2>2 DEF SerialInv, Serial
  <1> QED BY <1>1, <1>2, InitForkInv, Invariant, PTL DEF Spec

-----------------------------------------------------------------------------
(* The theorems.                                                           *)

\* However many requests overlap, a token has at most as many committed successors as there
\* are requests at a time: the fork of a rotation chain is bounded by the server's concurrency.
THEOREM ForkBoundHolds == Spec => [](IsFiniteSet(Proc) => ForkBound)
  <1>1. ForkInv => (IsFiniteSet(Proc) => ForkBound)
    <2> SUFFICES ASSUME RotationBudget, IsFiniteSet(Proc), NEW t \in Token
                 PROVE  Cardinality(Children(t)) <= Cardinality(Proc)
      BY DEF ForkInv, ForkBound
    <2>1. Rotators(t) \in SUBSET Proc
      BY DEF Rotators
    <2> QED BY <2>1, RotatorsBound, FS_CardinalityType DEF RotationBudget
  <1> QED BY <1>1, ChainInvariant, PTL

\* For requests served one at a time, refresh_tokens leaves no successor unrecorded: the fork
\* of tokens_fork needs two requests that overlap, and no failure of one brings it about.
THEOREM SuccessorRecordedSerially == Spec => [](Serial => SuccessorRecorded)
  BY ChainInvariant, PTL DEF SerialInv

\* For requests served one at a time, no session outlives logout-all or the reuse branch: the
\* survivor of tokens_survivor needs two requests that overlap.
THEOREM NoSurvivorSerially == Spec => [](Serial => NoSurvivor)
  BY ChainInvariant, PTL DEF SerialInv

=============================================================================
