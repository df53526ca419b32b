---------------------------- MODULE GenresProofs ----------------------------
(***************************************************************************)
(* Names and slugs stay distinct, and deleted genres deleted, for every    *)
(* set of genres, names and concurrent requests.                           *)
(*                                                                         *)
(* NamesDistinct is not inductive: a commit adds whatever its transaction  *)
(* has written. The invariant extends it to the rows that are written and  *)
(* not committed (Apart), which no two transactions have of one genre      *)
(* (LocksDistinct).                                                        *)
(***************************************************************************)
EXTENDS Genres, TLAPS

Holds(p) == write[p] # Keep

\* Each handler is where its genre allows: only a creation has one without a row.
HandlerOK(p) ==
    /\ pc[p] \in {"check", "update", "remove"} => genres[req[p].id] # Unborn
    /\ pc[p] = "insert" => genres[req[p].id] = Unborn
    /\ pc[p] \in {"insert", "check", "update"} => req[p].asked \in Row /\ req[p].read # Deleted
    /\ pc[p] \in {"check", "update"} => req[p].read \in Row
    /\ Holds(p) => /\ pc[p] = "finish"
                   /\ Exists(req[p].id) \/ (genres[req[p].id] = Unborn /\ write[p] \in Row)

\* A genre that is being created is nobody else's.
CreatedAlone ==
    \A p, q \in Proc :
        Busy(p) /\ Busy(q) /\ req[p].id = req[q].id /\ genres[req[p].id] = Unborn => p = q

\* One transaction at a time has written the row of a genre.
LocksDistinct ==
    \A p, q \in Proc : Holds(p) /\ Holds(q) /\ req[p].id = req[q].id => p = q

\* A row that is not committed yet collides with no other, committed or not.
Apart(p) == write[p] \in Row =>
    /\ \A h \in Genre \ {req[p].id} : Exists(h) => ~Collides(write[p], genres[h])
    /\ \A q \in Proc \ {p} : write[q] \in Row => ~Collides(write[p], write[q])

IInv ==
    /\ TypeOK
    /\ \A p \in Proc : HandlerOK(p)
    /\ CreatedAlone
    /\ LocksDistinct
    /\ \A p \in Proc : Apart(p)
    /\ NamesDistinct

-----------------------------------------------------------------------------

USE NullsAssumption, NoRequestAssumption

\* Which rows collide does not depend on their order.
LEMMA CollidesSymmetric == \A r, s : Collides(r, s) <=> Collides(s, r)
  BY DEF Collides

LEMMA NamedType == \A n \in Name : Named(n) \in Row
  BY NamesAssumption DEF Named, Row

LEMMA InitIInv == Init => IInv
  BY DEF Init, IInv, TypeOK, Version, HandlerOK, Holds, CreatedAlone, Busy, LocksDistinct, Apart,
         NamesDistinct, Exists

\* A request arrives: nothing is written.
LEMMA BeginStep ==
    ASSUME IInv, NEW p \in Proc, NEW next \in {"insert", "check", "remove"},
           NEW request \in Request, Begin(p, next, request),
           next = "insert" => /\ genres[request.id] = Unborn
                              /\ \A q \in Proc : Busy(q) => req[q].id # request.id,
           next # "insert" => Exists(request.id),
           next # "remove" => request.asked \in Row /\ request.read # Deleted,
           next = "check" => request.read \in Row
    PROVE  IInv'
  <1> USE DEF Begin
  <1>1. /\ pc'[p] = next /\ req'[p] = request /\ write' = write /\ genres' = genres
        /\ \A q \in Proc \ {p} : pc'[q] = pc[q] /\ req'[q] = req[q]
        /\ write[p] = Keep
    BY DEF IInv, TypeOK, Busy
  <1>2. TypeOK'
    BY <1>1 DEF IInv, TypeOK, Request
  <1>3. \A q \in Proc : HandlerOK(q)'
    BY <1>1 DEF IInv, HandlerOK, Holds, Exists
  <1>4. CreatedAlone'
    BY <1>1 DEF IInv, CreatedAlone, Busy, Exists
  <1>5. LocksDistinct' /\ NamesDistinct' /\ \A q \in Proc : Apart(q)'
    BY <1>1 DEF IInv, LocksDistinct, Holds, NamesDistinct, Exists, Apart, TypeOK
  <1> QED BY <1>2, <1>3, <1>4, <1>5 DEF IInv

\* A handler fails or ends without a write.
LEMMA FailStep ==
    ASSUME IInv, NEW p \in Proc, Fail(p)
    PROVE  IInv'
  <1> USE DEF Fail, Ended
  <1>1. /\ pc'[p] = "idle" /\ req'[p] = NoRequest /\ write'[p] = Keep /\ genres' = genres
        /\ \A q \in Proc \ {p} : pc'[q] = pc[q] /\ req'[q] = req[q] /\ write'[q] = write[q]
    BY DEF IInv, TypeOK
  <1>2. TypeOK'
    BY <1>1 DEF IInv, TypeOK
  <1>3. \A q \in Proc : HandlerOK(q)'
    BY <1>1 DEF IInv, HandlerOK, Holds, Exists
  <1>4. CreatedAlone' /\ LocksDistinct'
    BY <1>1 DEF IInv, CreatedAlone, LocksDistinct, Busy, Holds
  <1>5. NamesDistinct' /\ \A q \in Proc : Apart(q)'
    BY <1>1 DEF IInv, NamesDistinct, Exists, Apart
  <1> QED BY <1>2, <1>3, <1>4, <1>5 DEF IInv

\* A statement writes a row that no index entry, committed or not, is in the way of.
LEMMA WroteStep ==
    ASSUME IInv, NEW p \in Proc, NEW row \in Row \cup {Deleted, Keep}, Wrote(p, row),
           Busy(p), ~Locked(p),
           row # Keep => Exists(req[p].id) \/ (genres[req[p].id] = Unborn /\ row \in Row),
           row \in Row => ~Doubtful(p, row) /\ ~Violates(row, req[p].id)
    PROVE  IInv'
  <1> USE DEF Wrote
  <1>1. /\ pc'[p] = "finish" /\ write'[p] = row /\ genres' = genres /\ req' = req
        /\ \A q \in Proc \ {p} : pc'[q] = pc[q] /\ write'[q] = write[q]
    BY DEF IInv, TypeOK
  <1>2. TypeOK'
    BY <1>1 DEF IInv, TypeOK, Busy
  <1>3. \A q \in Proc : HandlerOK(q)'
    BY <1>1 DEF IInv, HandlerOK, Holds, Exists
  <1>4. CreatedAlone'
    BY <1>1 DEF IInv, CreatedAlone, Busy
  <1>5. LocksDistinct'
    BY <1>1 DEF IInv, LocksDistinct, Holds, Locked
  <1>6. ASSUME NEW q \in Proc PROVE Apart(q)'
    <2>1. CASE q = p
      BY <1>1, <2>1 DEF Apart, Doubtful, Violates, Exists
    <2>2. CASE q # p
      <3>1. row \in Row /\ write[q] \in Row => ~Collides(write[q], row)
        BY <2>2, CollidesSymmetric DEF Doubtful
      <3> QED BY <1>1, <2>2, <3>1 DEF IInv, Apart, Exists
    <2> QED BY <2>1, <2>2
  <1>7. NamesDistinct'
    BY <1>1 DEF IInv, NamesDistinct, Exists
  <1> QED BY <1>2, <1>3, <1>4, <1>5, <1>6, <1>7 DEF IInv

\* What a commit does to the table.
LEMMA CommitTable ==
    ASSUME IInv, NEW p \in Proc, Commit(p)
    PROVE  /\ genres' \in [Genre -> Version]
           /\ req[p].id \in Genre
           /\ write[p] = Keep => genres' = genres
           /\ write[p] # Keep => genres'[req[p].id] = write[p]
           /\ \A g \in Genre \ {req[p].id} : genres'[g] = genres[g]
           /\ pc'[p] = "idle" /\ req'[p] = NoRequest /\ write'[p] = Keep
           /\ \A q \in Proc \ {p} : pc'[q] = pc[q] /\ req'[q] = req[q] /\ write'[q] = write[q]
  <1>1. req[p].id \in Genre
    BY DEF IInv, TypeOK, Commit, Request
  <1> QED BY <1>1 DEF IInv, TypeOK, Commit, Ended, Version

\* get_db_session commits: the row takes its place in the table.
LEMMA CommitStep ==
    ASSUME IInv, NEW p \in Proc, Commit(p)
    PROVE  IInv'
  <1>1. TypeOK'
    <2>1. /\ pc' \in [Proc -> {"idle", "insert", "check", "update", "remove", "finish"}]
          /\ write' \in [Proc -> Row \cup {Keep, Deleted}]
          /\ req' \in [Proc -> Request \cup {NoRequest}]
          /\ clashed' \in SUBSET Genre
      BY DEF IInv, TypeOK, Commit, Ended
    <2>2. ASSUME NEW q \in Proc
          PROVE  IF pc'[q] = "idle" THEN req'[q] = NoRequest /\ write'[q] = Keep
                 ELSE req'[q] # NoRequest
      <3>1. CASE q = p
        BY <3>1, CommitTable
      <3>2. CASE q # p
        BY <3>2, CommitTable DEF IInv, TypeOK
      <3> QED BY <3>1, <3>2
    <2> QED BY <2>1, <2>2, CommitTable DEF TypeOK
  <1>2. ASSUME NEW q \in Proc PROVE HandlerOK(q)'
    <2>1. CASE q = p
      BY <2>1, CommitTable DEF HandlerOK, Holds
    <2>2. CASE q # p /\ (~Busy(q) \/ req[q].id # req[p].id \/ write[p] = Keep)
      <3>1. Busy(q) => req[q].id \in Genre
        BY DEF IInv, TypeOK, Busy, Request
      <3>2. Busy(q) => genres'[req[q].id] = genres[req[q].id]
        BY <2>2, <3>1, CommitTable
      <3>3. HandlerOK(q)
        BY DEF IInv
      <3>4. pc'[q] = pc[q] /\ req'[q] = req[q] /\ write'[q] = write[q]
        BY <2>2, CommitTable
      <3> QED BY <3>2, <3>3, <3>4 DEF HandlerOK, Holds, Busy, Exists
    <2>3. CASE q # p /\ Busy(q) /\ req[q].id = req[p].id /\ write[p] # Keep
      <3>1. ~Holds(q)
        BY <2>3 DEF IInv, LocksDistinct, Holds
      <3>2. genres[req[q].id] # Unborn
        BY <2>3 DEF IInv, CreatedAlone, Commit, Busy
      <3>3. genres'[req[q].id] = write[p] /\ write[p] # Unborn
        BY <2>3, CommitTable DEF IInv, TypeOK
      <3>4. HandlerOK(q)
        BY DEF IInv
      <3>5. pc'[q] = pc[q] /\ req'[q] = req[q] /\ write'[q] = write[q]
        BY <2>3, CommitTable
      <3> QED BY <3>1, <3>2, <3>3, <3>4, <3>5 DEF HandlerOK, Holds
    <2> QED BY <2>1, <2>2, <2>3
  <1>3. CreatedAlone'
    <2> SUFFICES ASSUME NEW q \in Proc, NEW r \in Proc, Busy(q)', Busy(r)',
                        req'[q].id = req'[r].id, genres'[req'[q].id] = Unborn
                 PROVE  q = r
      BY DEF CreatedAlone
    <2>1. q # p /\ r # p
      BY CommitTable DEF Busy
    <2>2. Busy(q) /\ Busy(r) /\ req[q].id = req[r].id /\ req[q].id \in Genre
      BY <2>1, CommitTable DEF Busy, IInv, TypeOK, Request
    <2>3. genres[req[q].id] = Unborn
      BY <2>1, <2>2, CommitTable DEF IInv, TypeOK
    <2> QED BY <2>2, <2>3 DEF IInv, CreatedAlone
  <1>4. LocksDistinct'
    BY CommitTable DEF IInv, LocksDistinct, Holds
  <1>5. ASSUME NEW q \in Proc PROVE Apart(q)'
    <2> SUFFICES ASSUME write'[q] \in Row PROVE Apart(q)'
      BY DEF Apart
    <2>1. q # p /\ write'[q] = write[q] /\ req'[q] = req[q] /\ write[q] \in Row
      BY CommitTable
    <2>2. ASSUME NEW h \in Genre \ {req[q].id}, Exists(h)' PROVE ~Collides(write[q], genres'[h])
      <3>1. CASE h = req[p].id /\ write[p] # Keep
        BY <2>1, <2>2, <3>1, CommitTable DEF IInv, Apart, Exists
      <3>2. CASE h # req[p].id \/ write[p] = Keep
        BY <2>1, <2>2, <3>2, CommitTable DEF IInv, Apart, Exists
      <3> QED BY <3>1, <3>2
    <2>3. ASSUME NEW r \in Proc \ {q}, write'[r] \in Row PROVE ~Collides(write[q], write'[r])
      BY <2>1, <2>3, CommitTable DEF IInv, Apart
    <2> QED BY <2>1, <2>2, <2>3 DEF Apart
  <1>6. NamesDistinct'
    <2> SUFFICES ASSUME NEW g \in Genre, NEW h \in Genre, g # h, Exists(g)', Exists(h)'
                 PROVE  ~Collides(genres'[g], genres'[h])
      BY DEF NamesDistinct
    <2>1. CASE write[p] = Keep \/ req[p].id \notin {g, h}
      BY <2>1, CommitTable DEF IInv, NamesDistinct, Exists
    <2>2. CASE write[p] # Keep /\ g = req[p].id
      BY <2>2, CommitTable DEF IInv, Apart, Exists
    <2>3. CASE write[p] # Keep /\ h = req[p].id
      BY <2>3, CommitTable, CollidesSymmetric DEF IInv, Apart, Exists
    <2> QED BY <2>1, <2>2, <2>3
  <1> QED BY <1>1, <1>2, <1>3, <1>4, <1>5, <1>6 DEF IInv

\* A handler that inserts is the only one with its genre, so its row is not locked.
LEMMA InsertGenreStep ==
    ASSUME IInv, NEW p \in Proc, InsertGenre(p)
    PROVE  IInv'
  <1> DEFINE row == req[p].asked
  <1>1. Busy(p) /\ genres[req[p].id] = Unborn /\ row \in Row
    BY DEF InsertGenre, IInv, HandlerOK, Busy
  <1>2. ~Locked(p)
    BY <1>1 DEF Locked, IInv, CreatedAlone, Busy, TypeOK
  <1>3. CASE Fail(p)
    BY <1>3, FailStep
  <1>4. CASE ~Violates(row, req[p].id) /\ Wrote(p, row)
    BY <1>1, <1>2, <1>4, WroteStep DEF InsertGenre
  <1> QED BY <1>3, <1>4 DEF InsertGenre

LEMMA CheckConflictStep ==
    ASSUME IInv, NEW p \in Proc, CheckConflict(p)
    PROVE  IInv'
  <1>1. CASE Fail(p)
    BY <1>1, FailStep
  <1>2. CASE pc' = [pc EXCEPT ![p] = "update"] /\ UNCHANGED <<genres, write, req, clashed>>
    <2> USE <1>2
    <2>1. TypeOK' /\ \A q \in Proc : pc'[q] = IF q = p THEN "update" ELSE pc[q]
      BY DEF IInv, TypeOK, CheckConflict
    <2>2. (\A q \in Proc : HandlerOK(q)') /\ CreatedAlone'
      BY <2>1 DEF IInv, HandlerOK, Holds, Exists, CheckConflict, CreatedAlone, Busy
    <2>3. LocksDistinct' /\ NamesDistinct' /\ \A q \in Proc : Apart(q)'
      BY DEF IInv, LocksDistinct, Holds, NamesDistinct, Exists, Apart
    <2> QED BY <2>1, <2>2, <2>3 DEF IInv
  <1> QED BY <1>1, <1>2 DEF CheckConflict

LEMMA UpdateRowStep ==
    ASSUME IInv, NEW p \in Proc, UpdateRow(p)
    PROVE  IInv'
  <1>1. CASE Fail(p)
    BY <1>1, FailStep
  <1>2. CASE /\ Exists(req[p].id)
             /\ ~Doubtful(p, Updated(p)) /\ ~Violates(Updated(p), req[p].id)
             /\ Wrote(p, Updated(p))
    <2>1. Updated(p) \in Row
      BY <1>2 DEF UpdateRow, Updated, IInv, HandlerOK, Exists, Row
    <2> QED BY <1>2, <2>1, WroteStep DEF UpdateRow, Busy
  <1> QED BY <1>1, <1>2 DEF UpdateRow

LEMMA RemoveGenreStep ==
    ASSUME IInv, NEW p \in Proc, RemoveGenre(p)
    PROVE  IInv'
  <1>1. CASE Fail(p)
    BY <1>1, FailStep
  <1>2. CASE Wrote(p, IF Exists(req[p].id) THEN Deleted ELSE Keep)
    BY <1>2, WroteStep DEF RemoveGenre, Busy
  <1> QED BY <1>1, <1>2 DEF RemoveGenre

LEMMA ArriveStep ==
    ASSUME IInv, NEW p \in Proc, Arrive(p)
    PROVE  IInv' \/ UNCHANGED vars
  <1>1. ASSUME NEW g \in Genre, NEW n \in Name, CreateGenre(p, g, n) PROVE IInv'
    <2> DEFINE request == [id |-> g, asked |-> Named(n), read |-> Unborn]
    <2>1. request \in Request /\ Named(n) \in Row
      BY NamedType DEF Request, Version
    <2> QED BY <1>1, <2>1, BeginStep DEF CreateGenre
  <1>2. ASSUME NEW g \in Genre, NEW n \in Name, UpdateGenre(p, g, n) PROVE IInv'
    <2> DEFINE request == [id |-> g, asked |-> Named(n), read |-> genres[g]]
    <2>1. request \in Request /\ Named(n) \in Row
      BY NamedType DEF Request, IInv, TypeOK
    <2> QED BY <1>2, <2>1, BeginStep DEF UpdateGenre, Exists
  <1>3. ASSUME NEW g \in Genre, DeleteGenre(p, g) PROVE IInv'
    <2> DEFINE request == [id |-> g, asked |-> Deleted, read |-> genres[g]]
    <2>1. request \in Request
      BY DEF Request, IInv, TypeOK
    <2> QED BY <1>3, <2>1, BeginStep DEF DeleteGenre
  <1> QED BY <1>1, <1>2, <1>3 DEF Arrive, Answered

\* Every step keeps the invariant.
LEMMA NextIInv == IInv /\ [Next]_vars => IInv'
  <1> SUFFICES ASSUME IInv, [Next]_vars PROVE IInv'
    OBVIOUS
  <1>1. CASE UNCHANGED vars
    BY <1>1 DEF vars, IInv, TypeOK, HandlerOK, Holds, Exists, CreatedAlone, Busy, LocksDistinct,
                Apart, NamesDistinct
  <1>2. ASSUME NEW p \in Proc, Handle(p) PROVE IInv'
    BY <1>2, InsertGenreStep, CheckConflictStep, UpdateRowStep, RemoveGenreStep, CommitStep
       DEF Handle
  <1> QED BY <1>1, <1>2, ArriveStep, FailStep DEF Next, Abort

-----------------------------------------------------------------------------
(* The theorems.                                                           *)

\* The invariant holds in every reachable state.
THEOREM Invariant == Spec => []IInv
  BY InitIInv, NextIInv, PTL DEF Spec

\* Type correctness.
THEOREM TypeCorrect == Spec => []TypeOK
  BY Invariant, PTL DEF IInv

\* However many requests overlap, no two genres have names or slugs that differ in case only.
THEOREM NamesDistinctHolds == Spec => []NamesDistinct
  BY Invariant, PTL DEF IInv

\* Only a commit changes the table.
LEMMA TableStep ==
    ASSUME IInv, [Next]_vars
    PROVE  genres' = genres \/ \E p \in Proc : Commit(p)
  BY DEF Next, vars, Arrive, Handle, CreateGenre, UpdateGenre, DeleteGenre, Answered, Begin,
         InsertGenre, CheckConflict, UpdateRow, RemoveGenre, Wrote, Fail, Abort

\* However many requests overlap, no request brings a deleted genre back.
THEOREM DeletedForGoodHolds == Spec => DeletedForGood
  <1>1. IInv /\ [Next]_vars =>
          [\A g \in Genre : genres[g] = Deleted => genres'[g] = Deleted]_vars
    <2> SUFFICES ASSUME IInv, [Next]_vars, NEW g \in Genre, genres[g] = Deleted
                 PROVE  genres'[g] = Deleted
      OBVIOUS
    <2>1. ASSUME NEW p \in Proc, Commit(p) PROVE genres'[g] = Deleted
      <3>1. write[p] # Keep => genres[req[p].id] # Deleted
        BY <2>1 DEF IInv, HandlerOK, Holds, Exists
      <3> QED BY <2>1, <3>1, CommitTable
    <2> QED BY <2>1, TableStep
  <1> QED BY <1>1, Invariant, PTL DEF Spec, DeletedForGood

-----------------------------------------------------------------------------
(* Slugs.                                                                  *)

\* The row has the slug of its name.
Derived(row) == row = Named(row.name)

\* A handler that nobody has met on its genre has read the row as it is, so what it writes is
\* the row it was asked for.
LoneOK(p) == Busy(p) =>
    /\ req[p].asked \in Row => Derived(req[p].asked)
    /\ req[p].id \notin clashed =>
          /\ pc[p] \in {"check", "update"} => req[p].read = genres[req[p].id]
          /\ write[p] \in Row => Derived(write[p])

LoneWorker ==
    \A p, q \in Proc :
        Busy(p) /\ Busy(q) /\ req[p].id = req[q].id /\ req[p].id \notin clashed => p = q

LoneInv == (\A p \in Proc : LoneOK(p)) /\ LoneWorker /\ LoneSlugDerived

LEMMA NamedDerived == \A n \in Name : Derived(Named(n))
  BY DEF Derived, Named

LEMMA LoneBegin ==
    ASSUME IInv, LoneInv, NEW p \in Proc, NEW next \in {"insert", "check", "remove"},
           NEW request \in Request, Begin(p, next, request),
           request.asked \in Row => Derived(request.asked),
           next = "check" => request.read = genres[request.id]
    PROVE  LoneInv'
  <1>1. /\ pc'[p] = next /\ req'[p] = request /\ write' = write /\ genres' = genres
        /\ \A q \in Proc \ {p} : pc'[q] = pc[q] /\ req'[q] = req[q]
        /\ write[p] = Keep /\ ~Busy(p)
    BY DEF Begin, IInv, TypeOK, Busy
  <1>2. /\ clashed \subseteq clashed'
        /\ \A q \in Proc : Busy(q) /\ req[q].id = request.id => request.id \in clashed'
    BY DEF Begin
  <1>3. ASSUME NEW q \in Proc PROVE LoneOK(q)'
    BY <1>1, <1>2 DEF LoneInv, LoneOK, Busy
  <1>4. LoneWorker'
    BY <1>1, <1>2 DEF LoneInv, LoneWorker, Busy
  <1>5. LoneSlugDerived'
    BY <1>1, <1>2 DEF LoneInv, LoneSlugDerived, Exists
  <1> QED BY <1>3, <1>4, <1>5 DEF LoneInv

LEMMA LoneFail ==
    ASSUME IInv, LoneInv, NEW p \in Proc, Fail(p)
    PROVE  LoneInv'
  <1>1. /\ pc'[p] = "idle" /\ genres' = genres /\ clashed' = clashed
        /\ \A q \in Proc \ {p} : pc'[q] = pc[q] /\ req'[q] = req[q] /\ write'[q] = write[q]
    BY DEF Fail, Ended, IInv, TypeOK
  <1> QED BY <1>1 DEF LoneInv, LoneOK, LoneWorker, LoneSlugDerived, Busy, Exists

LEMMA LoneWrote ==
    ASSUME IInv, LoneInv, NEW p \in Proc, NEW row, Wrote(p, row), Busy(p),
           row \in Row /\ req[p].id \notin clashed => Derived(row)
    PROVE  LoneInv'
  <1>1. /\ pc'[p] = "finish" /\ write'[p] = row
        /\ genres' = genres /\ req' = req /\ clashed' = clashed
        /\ \A q \in Proc \ {p} : pc'[q] = pc[q] /\ write'[q] = write[q]
    BY DEF Wrote, IInv, TypeOK
  <1> QED BY <1>1 DEF LoneInv, LoneOK, LoneWorker, LoneSlugDerived, Busy, Exists

LEMMA LoneCommit ==
    ASSUME IInv, LoneInv, NEW p \in Proc, Commit(p)
    PROVE  LoneInv'
  <1>1. Busy(p) /\ clashed' = clashed
    BY DEF Commit, Busy, Ended
  <1>2. ASSUME NEW q \in Proc PROVE LoneOK(q)'
    <2> SUFFICES ASSUME Busy(q)' PROVE LoneOK(q)'
      BY DEF LoneOK
    <2>1. /\ q # p /\ Busy(q) /\ LoneOK(q)
          /\ pc'[q] = pc[q] /\ req'[q] = req[q] /\ write'[q] = write[q]
      BY CommitTable DEF Busy, LoneInv
    <2>2. req[q].id \in Genre
      BY <2>1 DEF IInv, TypeOK, Busy, Request
    <2>3. req[q].id \notin clashed => genres'[req[q].id] = genres[req[q].id]
      BY <1>1, <2>1, <2>2, CommitTable DEF LoneInv, LoneWorker
    <2> QED BY <1>1, <2>1, <2>3 DEF LoneOK
  <1>3. LoneWorker'
    BY <1>1, CommitTable DEF LoneInv, LoneWorker, Busy
  <1>4. LoneSlugDerived'
    <2> SUFFICES ASSUME NEW g \in Genre \ clashed, genres'[g] \in Row
                 PROVE  Derived(genres'[g])
      BY <1>1 DEF LoneSlugDerived, Exists, Derived
    <2>1. CASE g = req[p].id /\ write[p] # Keep
      BY <1>1, <2>1, CommitTable DEF LoneInv, LoneOK
    <2>2. CASE g # req[p].id \/ write[p] = Keep
      BY <2>2, CommitTable DEF LoneInv, LoneSlugDerived, Exists, Derived
    <2> QED BY <2>1, <2>2
  <1> QED BY <1>2, <1>3, <1>4 DEF LoneInv

LEMMA LoneArrive ==
    ASSUME IInv, LoneInv, NEW p \in Proc, Arrive(p)
    PROVE  LoneInv' \/ UNCHANGED vars
  <1>1. ASSUME NEW g \in Genre, NEW n \in Name, CreateGenre(p, g, n) PROVE LoneInv'
    <2> DEFINE request == [id |-> g, asked |-> Named(n), read |-> Unborn]
    <2>1. request \in Request /\ Derived(Named(n))
      BY NamedType, NamedDerived DEF Request, Version
    <2> QED BY <1>1, <2>1, LoneBegin DEF CreateGenre
  <1>2. ASSUME NEW g \in Genre, NEW n \in Name, UpdateGenre(p, g, n) PROVE LoneInv'
    <2> DEFINE request == [id |-> g, asked |-> Named(n), read |-> genres[g]]
    <2>1. request \in Request /\ Derived(Named(n))
      BY NamedType, NamedDerived DEF Request, IInv, TypeOK
    <2> QED BY <1>2, <2>1, LoneBegin DEF UpdateGenre
  <1>3. ASSUME NEW g \in Genre, DeleteGenre(p, g) PROVE LoneInv'
    <2> DEFINE request == [id |-> g, asked |-> Deleted, read |-> genres[g]]
    <2>1. request \in Request
      BY DEF Request, IInv, TypeOK
    <2> QED BY <1>3, <2>1, LoneBegin DEF DeleteGenre
  <1> QED BY <1>1, <1>2, <1>3 DEF Arrive, Answered

LEMMA LoneHandle ==
    ASSUME IInv, LoneInv, NEW p \in Proc, Handle(p)
    PROVE  LoneInv'
  <1>1. CASE Fail(p)
    BY <1>1, LoneFail
  <1>2. CASE InsertGenre(p) /\ Wrote(p, req[p].asked)
    BY <1>2, LoneWrote DEF InsertGenre, Busy, LoneInv, LoneOK
  <1>3. CASE CheckConflict(p) /\ UNCHANGED <<genres, write, req, clashed>>
                              /\ pc' = [pc EXCEPT ![p] = "update"]
    <2>1. \A q \in Proc : pc'[q] = IF q = p THEN "update" ELSE pc[q]
      BY <1>3 DEF IInv, TypeOK
    <2> QED BY <1>3, <2>1
            DEF LoneInv, LoneOK, LoneWorker, LoneSlugDerived, Busy, Exists, CheckConflict
  <1>4. CASE UpdateRow(p) /\ Exists(req[p].id) /\ Wrote(p, Updated(p))
    <2>1. Busy(p) /\ req[p].asked \in Row /\ req[p].read \in Row
      BY <1>4 DEF UpdateRow, Busy, IInv, HandlerOK
    <2>2. req[p].id \notin clashed => Updated(p) = req[p].asked
      BY <1>4, <2>1 DEF LoneInv, LoneOK, UpdateRow, Updated, Row
    <2> QED BY <1>4, <2>1, <2>2, LoneWrote DEF LoneInv, LoneOK
  <1>5. CASE RemoveGenre(p) /\ Wrote(p, IF Exists(req[p].id) THEN Deleted ELSE Keep)
    BY <1>5, LoneWrote DEF RemoveGenre, Busy
  <1>6. CASE Commit(p)
    BY <1>6, LoneCommit
  <1> QED BY <1>1, <1>2, <1>3, <1>4, <1>5, <1>6
          DEF Handle, InsertGenre, CheckConflict, UpdateRow, RemoveGenre

LEMMA LoneInvariant == Spec => []LoneInv
  <1>1. Init => LoneInv
    BY DEF Init, LoneInv, LoneOK, LoneWorker, LoneSlugDerived, Busy, Exists
  <1>2. IInv /\ LoneInv /\ [Next]_vars => LoneInv'
    <2> SUFFICES ASSUME IInv, LoneInv, [Next]_vars PROVE LoneInv'
      OBVIOUS
    <2>1. CASE UNCHANGED vars
      BY <2>1 DEF vars, LoneInv, LoneOK, LoneWorker, LoneSlugDerived, Busy, Exists
    <2> QED BY <2>1, LoneArrive, LoneHandle, LoneFail DEF Next, Abort
  <1> QED BY <1>1, <1>2, Invariant, PTL DEF Spec

\* A genre that no two requests worked on at a time has the slug of its name, for every set of
\* names and however many requests work on the others.
THEOREM LoneSlugDerivedHolds == Spec => []LoneSlugDerived
  <1>1. LoneInv => LoneSlugDerived
    BY DEF LoneInv
  <1> QED BY <1>1, LoneInvariant, PTL

=============================================================================
