--------------------------- MODULE PipelineProofs ---------------------------
(***************************************************************************)
(* Proofs about RequestPipeline for every set of users, e-mails, requests  *)
(* and every limit: the handlers of Accounts keep e-mails unique, the      *)
(* layers around them leave them as they are, and what a client is         *)
(* answered agrees with the tables.                                        *)
(***************************************************************************)
EXTENDS RequestPipeline, TLAPS

-----------------------------------------------------------------------------
(* The handlers of Accounts.                                               *)

\* What a handler has read and written, as far as later statements rely on it.
HandlerOK(p) ==
    LET r == req[p] IN
    /\ pc[p] = "idle" => r = NoRequest
    /\ r.id # NoUser => r.row \in Row
    /\ pc[p] = "insert" => r.id # NoUser /\ ~Stored(r.id)
    /\ pc[p] # "returned" => write[p] = NoUser
    /\ pc[p] = "returned" => /\ write[p] = r.id
                             /\ r.id # NoUser => ~Stored(r.id) /\ Found(r.row.email) = {}
    /\ pc[p] = "committed" /\ r.id # NoUser => users[r.id] = r.row
    /\ pc[p] \in {"ConflictError", "IntegrityError"} => Found(r.row.email) # {}

\* No two handlers register one id, and of two e-mails that are inserted and not committed
\* the index lets none be equal.
Apart ==
    \A p, q \in Proc : p # q =>
        /\ req[p].id # NoUser => req[p].id # req[q].id
        /\ write[p] # NoUser /\ write[q] # NoUser => req[p].row.email # req[q].row.email

AccountInv ==
    /\ TypeOK
    /\ OneAccountPerEmail
    /\ \A p \in Proc : HandlerOK(p)
    /\ Apart

-----------------------------------------------------------------------------

LEMMA InitInv == Init => AccountInv
  BY NullsAssumption
     DEF Init, AccountInv, TypeOK, OneAccountPerEmail, HandlerOK, Apart, NoRequest, Stored, Found

LEMMA RegisterUserInv ==
  ASSUME AccountInv, NEW p \in Proc, NEW u \in User, NEW a \in Address, NEW w \in Password,
         RegisterUser(p, u, a, w)
  PROVE  AccountInv'
<1> DEFINE row == [email |-> Casefold[a], password |-> w]
<1>1. row \in Row
  BY CasefoldAssumption DEF Row
<1>2. /\ pc[p] = "idle" /\ users' = users /\ write' = write
      /\ req' = [req EXCEPT ![p] = [id |-> u, row |-> row]]
      /\ pc' = [pc EXCEPT ![p] = IF Found(row.email) = {} THEN "insert" ELSE "ConflictError"]
      /\ ~Stored(u) /\ \A q \in Proc : req[q].id # u
  BY DEF RegisterUser, Fresh
<1> HIDE DEF row
<1>3. u # NoUser
  BY NullsAssumption
<1>4. TypeOK' /\ OneAccountPerEmail'
  <2>1. write[p] = NoUser
    BY <1>2 DEF AccountInv, HandlerOK
  <2>2. /\ users' \in [User -> Row \cup {NoRow}]
        /\ write' \in [Proc -> User \cup {NoUser}]
        /\ req' \in [Proc -> [id : User \cup {NoUser}, row : Row \cup {NoRow}]]
    BY <1>1, <1>2 DEF AccountInv, TypeOK
  <2>3. pc' \in [Proc -> {"idle", "insert", "returned", "committed"} \cup Raised]
    BY <1>2 DEF AccountInv, TypeOK, Raised
  <2>4. \A q \in Proc : write'[q] # NoUser => write'[q] = req'[q].id /\ req'[q].row \in Row
    BY <1>2, <2>1 DEF AccountInv, TypeOK
  <2>5. OneAccountPerEmail'
    BY <1>2 DEF AccountInv, OneAccountPerEmail, Stored
  <2> QED BY <2>2, <2>3, <2>4, <2>5 DEF TypeOK
<1>6. ASSUME NEW q \in Proc PROVE HandlerOK(q)'
  <2>1. HandlerOK(q) /\ HandlerOK(p)
    BY DEF AccountInv
  <2>2. CASE q = p
    BY <2>1, <2>2, <1>1, <1>2, <1>3 DEF AccountInv, TypeOK, HandlerOK, Stored, Found
  <2>3. CASE q # p
    BY <2>1, <2>3, <1>2 DEF AccountInv, TypeOK, HandlerOK, Stored, Found
  <2> QED BY <2>2, <2>3
<1>7. Apart'
  BY <1>2, <1>3 DEF AccountInv, TypeOK, Apart, HandlerOK
<1> QED BY <1>4, <1>6, <1>7 DEF AccountInv

LEMMA AuthenticateInv ==
  ASSUME AccountInv, NEW p \in Proc, NEW a \in Address, NEW w \in Password, Authenticate(p, a, w)
  PROVE  AccountInv'
<1>1. /\ pc[p] = "idle" /\ users' = users /\ write' = write /\ req' = req
      /\ \E e \in {"returned", "UnauthorizedError"} : pc' = [pc EXCEPT ![p] = e]
  BY DEF Authenticate
<1>2. TypeOK' /\ OneAccountPerEmail'
  BY <1>1 DEF AccountInv, TypeOK, OneAccountPerEmail, Stored, Raised
<1>3. ASSUME NEW q \in Proc PROVE HandlerOK(q)'
  <2>1. HandlerOK(q) /\ HandlerOK(p)
    BY DEF AccountInv
  <2> QED BY <2>1, <1>1 DEF AccountInv, TypeOK, HandlerOK, NoRequest, Stored, Found
<1>4. Apart'
  BY <1>1 DEF AccountInv, Apart
<1> QED BY <1>2, <1>3, <1>4 DEF AccountInv

LEMMA InsertUserInv ==
  ASSUME AccountInv, NEW p \in Proc, InsertUser(p)
  PROVE  AccountInv'
<1>1. pc[p] = "insert" /\ ~Doubtful(p) /\ users' = users /\ req' = req
  BY DEF InsertUser
<1>2. HandlerOK(p)
  BY DEF AccountInv
<1>3. CASE Found(req[p].row.email) = {}
  <2>1. write' = [write EXCEPT ![p] = req[p].id] /\ pc' = [pc EXCEPT ![p] = "returned"]
    BY <1>3 DEF InsertUser
  <2>2. TypeOK' /\ OneAccountPerEmail'
    BY <1>1, <1>2, <2>1 DEF AccountInv, TypeOK, OneAccountPerEmail, Stored, HandlerOK
  <2>3. ASSUME NEW q \in Proc PROVE HandlerOK(q)'
    <3>1. HandlerOK(q)
      BY DEF AccountInv
    <3> QED BY <3>1, <2>1, <1>1, <1>2, <1>3 DEF AccountInv, TypeOK, HandlerOK, Stored, Found
  <2>4. Apart'
    BY <1>1, <1>2, <2>1 DEF AccountInv, TypeOK, Apart, Doubtful
  <2> QED BY <2>2, <2>3, <2>4 DEF AccountInv
<1>4. CASE Found(req[p].row.email) # {}
  <2>1. write' = write /\ pc' = [pc EXCEPT ![p] = "IntegrityError"]
    BY <1>4 DEF InsertUser
  <2>2. TypeOK' /\ OneAccountPerEmail' /\ Apart'
    BY <1>1, <2>1 DEF AccountInv, TypeOK, OneAccountPerEmail, Stored, Apart, Raised
  <2>3. ASSUME NEW q \in Proc PROVE HandlerOK(q)'
    <3>1. HandlerOK(q)
      BY DEF AccountInv
    <3> QED BY <3>1, <2>1, <1>1, <1>2, <1>4 DEF AccountInv, TypeOK, HandlerOK, Stored, Found
  <2> QED BY <2>2, <2>3 DEF AccountInv
<1> QED BY <1>3, <1>4

\* The end of a transaction, with or without its row in the table: the row collides with no
\* other, committed or not, and no other handler relies on its absence.
LEMMA SettlesInv ==
  ASSUME AccountInv, NEW p \in Proc,
         pc[p] \in {"insert", "returned"}, req' = req, write' = [write EXCEPT ![p] = NoUser],
         NEW end \in {"committed", "OperationalError"}, pc' = [pc EXCEPT ![p] = end],
         users' = users \/ (pc[p] = "returned" /\ users' = Committed(p)),
         end = "committed" => pc[p] = "returned" /\ users' = Committed(p)
  PROVE  AccountInv'
<1>1. HandlerOK(p)
  BY DEF AccountInv
<1> DEFINE id == req[p].id
           row == req[p].row
<1>2. CASE users' = users
  <2>1. TypeOK' /\ OneAccountPerEmail' /\ Apart'
    BY <1>2 DEF AccountInv, TypeOK, OneAccountPerEmail, Stored, Apart, Raised
  <2>2. end = "committed" /\ id # NoUser => users[id] = row
    BY <1>1, <1>2 DEF AccountInv, TypeOK, HandlerOK, Committed
  <2>3. ASSUME NEW q \in Proc PROVE HandlerOK(q)'
    <3>1. HandlerOK(q)
      BY DEF AccountInv
    <3> QED BY <3>1, <2>2, <1>2 DEF AccountInv, TypeOK, HandlerOK, Stored, Found
  <2> QED BY <2>1, <2>3 DEF AccountInv
<1>3. CASE users' # users
  <2>1. /\ pc[p] = "returned" /\ write[p] = id /\ id \in User /\ row \in Row
        /\ users' = [users EXCEPT ![id] = row]
        /\ ~Stored(id) /\ Found(row.email) = {}
    BY <1>1, <1>3 DEF AccountInv, TypeOK, HandlerOK, Committed
  <2> HIDE DEF id, row
  <2>2. row # NoRow
    BY <2>1, NullsAssumption
  <2>3. TypeOK'
    BY <2>1 DEF AccountInv, TypeOK, Raised
  <2>4. OneAccountPerEmail'
    BY <2>1, <2>2 DEF AccountInv, TypeOK, OneAccountPerEmail, Stored, Found
  <2>5. ASSUME NEW q \in Proc, q # p PROVE HandlerOK(q)'
    <3>1. HandlerOK(q) /\ req[q].id # id
      BY <2>5, <2>1, NullsAssumption DEF AccountInv, Apart, id
    <3>2. write[q] # NoUser => req[q].row.email # row.email
      BY <2>5, <2>1, NullsAssumption DEF AccountInv, Apart, row
    <3>3. req[q].id # NoUser => (Stored(req[q].id)' <=> Stored(req[q].id))
                                 /\ users'[req[q].id] = users[req[q].id]
      BY <3>1, <2>1 DEF AccountInv, TypeOK, Stored
    <3>4. ASSUME NEW e PROVE /\ Found(e) # {} => Found(e)' # {}
                             /\ Found(e) = {} /\ e # row.email => Found(e)' = {}
      BY <2>1, <2>2 DEF AccountInv, TypeOK, Stored, Found
    <3>5. /\ Found(req[q].row.email) # {} => Found(req[q].row.email)' # {}
          /\ Found(req[q].row.email) = {} /\ req[q].row.email # row.email
                => Found(req[q].row.email)' = {}
      BY <3>4 DEF Found, Stored
    <3> QED BY <3>1, <3>2, <3>3, <3>5, <2>5 DEF AccountInv, TypeOK, HandlerOK
  <2>6. HandlerOK(p)'
    BY <1>1, <2>1, <2>2 DEF AccountInv, TypeOK, HandlerOK, id, row
  <2>7. Apart'
    BY DEF AccountInv, TypeOK, Apart
  <2> QED BY <2>3, <2>4, <2>5, <2>6, <2>7 DEF AccountInv
<1> QED BY <1>2, <1>3

LEMMA EndedInv ==
  ASSUME AccountInv, NEW p \in Proc, Ended(p)
  PROVE  AccountInv'
<1>1. /\ users' = users /\ pc' = [pc EXCEPT ![p] = "idle"]
      /\ req' = [req EXCEPT ![p] = NoRequest] /\ write' = [write EXCEPT ![p] = NoUser]
  BY DEF Ended
<1>2. TypeOK' /\ OneAccountPerEmail'
  BY <1>1 DEF AccountInv, TypeOK, OneAccountPerEmail, Stored, NoRequest
<1>3. ASSUME NEW q \in Proc PROVE HandlerOK(q)'
  <2>1. HandlerOK(q)
    BY DEF AccountInv
  <2> QED BY <2>1, <1>1 DEF AccountInv, TypeOK, HandlerOK, Stored, Found, NoRequest
<1>4. Apart'
  BY <1>1 DEF AccountInv, TypeOK, Apart, NoRequest
<1> QED BY <1>2, <1>3, <1>4 DEF AccountInv

LEMMA NextInv == AccountInv /\ [AccountNext]_accountVars => AccountInv'
<1> SUFFICES ASSUME AccountInv, [AccountNext]_accountVars PROVE AccountInv'
  OBVIOUS
<1>1. CASE AccountNext
  <2> PICK p \in Proc :
        \/ \E u \in User, a \in Address, w \in Password : RegisterUser(p, u, a, w)
        \/ \E a \in Address, w \in Password : Authenticate(p, a, w)
        \/ InsertUser(p)
        \/ Commit(p)
        \/ ConnectionLost(p)
        \/ pc[p] # "idle" /\ Ended(p)
    BY <1>1 DEF AccountNext
  <2>1. CASE \E u \in User, a \in Address, w \in Password : RegisterUser(p, u, a, w)
    BY <2>1, RegisterUserInv
  <2>2. CASE \E a \in Address, w \in Password : Authenticate(p, a, w)
    BY <2>2, AuthenticateInv
  <2>3. CASE InsertUser(p)
    BY <2>3, InsertUserInv
  <2>4. CASE Commit(p)
    BY <2>4, SettlesInv DEF Commit
  <2>5. CASE ConnectionLost(p)
    BY <2>5, SettlesInv DEF ConnectionLost
  <2>6. CASE Ended(p)
    BY <2>6, EndedInv
  <2> QED BY <2>1, <2>2, <2>3, <2>4, <2>5, <2>6
<1>2. CASE UNCHANGED accountVars
  BY <1>2 DEF AccountInv, TypeOK, OneAccountPerEmail, HandlerOK, Apart, Stored, Found, accountVars
<1> QED BY <1>1, <1>2

\* Registrations and logins keep the invariant, however their statements interleave and
\* wherever connections are lost.
THEOREM AccountInvariant == AccountSpec => []AccountInv
  BY InitInv, NextInv, PTL DEF AccountSpec

\* Type correctness of users and sessions for every set of requests.
THEOREM AccountsTypeCorrect == AccountSpec => []TypeOK
<1>1. AccountInv => TypeOK
  BY DEF AccountInv
<1> QED BY <1>1, AccountInvariant, PTL

\* The unique index makes up for the gap between register_user's check and its insert.
THEOREM OneAccountPerEmailHolds == AccountSpec => []OneAccountPerEmail
<1>1. AccountInv => OneAccountPerEmail
  BY DEF AccountInv
<1> QED BY <1>1, AccountInvariant, PTL

-----------------------------------------------------------------------------
(* The layers around them.                                                 *)

Shape ==
    /\ layer \in [Proc -> {"idle", "limit", "parse", "upload", "route", "answered"}]
    /\ body \in [Proc -> Body]
    /\ answer \in [Proc -> Answer \cup {NoAnswer}]

\* Where a request is determines what its body may be and how its handler may have ended.
LayerOK(p) ==
    LET b == body[p]
        status == answer[p].status
    IN
    /\ layer[p] \notin {"route", "answered"} => pc[p] = "idle"
    /\ answer[p] # NoAnswer <=> layer[p] = "answered"
    /\ b.received <= b.size
    /\ layer[p] \in {"idle", "route"} => b = NoBody
    /\ layer[p] # "answered" => b.received <= MaxBody
    /\ layer[p] \in {"parse", "upload"} => ~(b.declared /\ b.size > MaxBody)
    /\ layer[p] = "upload" /\ b.form => b.received = b.size
    /\ b.received <= MaxBody + 1
    /\ b.form /\ b.size > MaxBody => status # 200
    /\ status = 409 => pc[p] \in {"ConflictError", "IntegrityError"}
    /\ status = 201 => /\ req[p].id # NoUser
                       /\ pc[p] \in {"committed", "returned", "OperationalError"}
                       /\ pc[p] # "committed" => "respond_first" \in Orders

PipelineInv ==
    /\ AccountInv
    /\ Shape
    /\ \A p \in Proc : LayerOK(p)

-----------------------------------------------------------------------------
(* The layers leave the handlers alone.                                    *)

LEMMA StepImplements == AccountInv /\ [Next]_vars => [AccountNext]_accountVars
<1> SUFFICES ASSUME AccountInv, [Next]_vars PROVE [AccountNext]_accountVars
  OBVIOUS
<1>1. CASE UNCHANGED vars
  BY <1>1 DEF vars, accountVars
<1>2. CASE Next
  <2> PICK p \in Proc :
        \/ \E b \in Body : Upload(p, b)
        \/ Register(p)
        \/ Login(p)
        \/ Invalid(p)
        \/ ReceiveChunk(p)
        \/ Serve(p)
        \/ LoseConnection(p)
        \/ Cancel(p)
    BY <1>2 DEF Next
  <2>1. Leaves(p) => [AccountNext]_accountVars
    <3> SUFFICES ASSUME Ended(p) PROVE [AccountNext]_accountVars
      BY DEF Leaves
    <3>1. CASE pc[p] # "idle"
      BY <3>1 DEF AccountNext
    <3>2. CASE pc[p] = "idle"
      BY <3>2 DEF AccountInv, TypeOK, HandlerOK, Ended, accountVars
    <3> QED BY <3>1, <3>2
  <2>2. CASE \E b \in Body : Upload(p, b)
    BY <2>2 DEF Upload
  <2>3. CASE Register(p)
    BY <2>3 DEF Register, AccountNext
  <2>4. CASE Login(p)
    BY <2>4 DEF Login, AccountNext
  <2>5. CASE Invalid(p) \/ ReceiveChunk(p)
    BY <2>5 DEF Invalid, ReceiveChunk
  <2>6. CASE RejectDeclared(p) \/ PassLimit(p) \/ Parsed(p) \/ ImportBooks(p)
    BY <2>6 DEF RejectDeclared, PassLimit, Parsed, ImportBooks
  <2>7. CASE RunInsert(p) \/ RunCommit(p) \/ LoseConnection(p)
    BY <2>7 DEF RunInsert, RunCommit, LoseConnection, AccountNext
  <2>8. CASE AnswerSuccess(p) \/ AnswerError(p)
    BY <2>8 DEF AnswerSuccess, AnswerError
  <2>9. CASE Close(p) \/ Cancel(p)
    BY <2>1, <2>9 DEF Close, Cancel
  <2> QED BY <2>2, <2>3, <2>4, <2>5, <2>6, <2>7, <2>8, <2>9 DEF Serve
<1> QED BY <1>1, <1>2

LEMMA PipelineInitInv == PipelineInit => PipelineInv
<1> SUFFICES ASSUME PipelineInit PROVE PipelineInv
  OBVIOUS
<1>1. AccountInv
  BY InitInv DEF PipelineInit
<1>2. NoBody \in Body
  BY SizesAssumption DEF NoBody, Body
<1>3. Shape
  BY <1>2 DEF PipelineInit, Shape
<1>4. ASSUME NEW p \in Proc PROVE LayerOK(p)
  BY SizesAssumption DEF PipelineInit, Init, LayerOK, NoBody, NoAnswer
<1> QED BY <1>1, <1>3, <1>4 DEF PipelineInv

-----------------------------------------------------------------------------
(* Every step keeps the invariant of the layers.                           *)

\* A step of p leaves every other request where it is.
Others(p) ==
    \A q \in Proc \ {p} : /\ layer'[q] = layer[q] /\ body'[q] = body[q]
                          /\ answer'[q] = answer[q]
                          /\ pc'[q] = pc[q] /\ req'[q] = req[q]

\* What the step of one request has to show.
Kept(p) == Shape' /\ LayerOK(p)' /\ Others(p)

LEMMA UploadKept ==
  ASSUME PipelineInv, NEW p \in Proc, NEW b \in Body, Upload(p, b)
  PROVE  Kept(p)
<1>1. LayerOK(p)
  BY DEF PipelineInv
<1> QED BY <1>1, SizesAssumption
        DEF PipelineInv, Shape, LayerOK, Kept, Others, Upload, Enters, Body, NoAnswer, accountVars

LEMMA RejectDeclaredKept ==
  ASSUME PipelineInv, NEW p \in Proc, RejectDeclared(p)
  PROVE  Kept(p)
<1>1. LayerOK(p)
  BY DEF PipelineInv
<1> QED BY <1>1, SizesAssumption
        DEF PipelineInv, Shape, LayerOK, Kept, Others, RejectDeclared, Responds, Enters, Body,
            Answer, NoAnswer, accountVars

LEMMA PassLimitKept ==
  ASSUME PipelineInv, NEW p \in Proc, PassLimit(p) \/ Parsed(p)
  PROVE  Kept(p)
<1>1. LayerOK(p)
  BY DEF PipelineInv
<1>2. CASE PassLimit(p)
  BY <1>1, <1>2, SizesAssumption
     DEF PipelineInv, Shape, LayerOK, Kept, Others, PassLimit, Enters, Body, accountVars
<1>3. CASE Parsed(p)
  BY <1>1, <1>3, SizesAssumption
     DEF PipelineInv, Shape, LayerOK, Kept, Others, Parsed, Enters, Body, accountVars
<1> QED BY <1>2, <1>3

LEMMA ReceiveChunkKept ==
  ASSUME PipelineInv, NEW p \in Proc, ReceiveChunk(p)
  PROVE  Kept(p)
<1>1. LayerOK(p)
  BY DEF PipelineInv
<1>2. /\ layer[p] = "parse" /\ body[p] \in Body
      /\ body[p].received < body[p].size
      /\ body' = [body EXCEPT ![p].received = @ + 1]
      /\ UNCHANGED accountVars
  BY DEF ReceiveChunk, PipelineInv, Shape
<1>3. CASE body[p].received + 1 > MaxBody
  <2>1. Refuses(p, 400)
    BY <1>3 DEF ReceiveChunk
  <2> QED BY <1>1, <1>2, <1>3, <2>1, SizesAssumption
          DEF PipelineInv, Shape, LayerOK, Kept, Others, Refuses, Responds, Enters, Body,
              Answer, NoAnswer, accountVars
<1>4. CASE ~(body[p].received + 1 > MaxBody)
  <2>1. UNCHANGED <<layer, answer>>
    BY <1>4 DEF ReceiveChunk
  <2> QED BY <1>1, <1>2, <1>4, <2>1, SizesAssumption
          DEF PipelineInv, Shape, LayerOK, Kept, Others, Body, accountVars
<1> QED BY <1>3, <1>4

\* Any answer that is due to an upload keeps the invariant.
LEMMA UploadAnsweredKept ==
  ASSUME PipelineInv, NEW p \in Proc, NEW rec \in Answer,
         layer[p] = "upload", UNCHANGED <<accountVars, body>>,
         rec.status \in {200, 400, 401, 415, 422, 429, 500},
         answer' = [answer EXCEPT ![p] = rec], Enters(p, "answered")
  PROVE  Kept(p)
<1>1. LayerOK(p)
  BY DEF PipelineInv
<1> QED BY <1>1, SizesAssumption
        DEF PipelineInv, Shape, LayerOK, Kept, Others, Enters, Body, Answer, NoAnswer, accountVars

LEMMA ImportBooksKept ==
  ASSUME PipelineInv, NEW p \in Proc, ImportBooks(p)
  PROVE  Kept(p)
<1>1. layer[p] = "upload" /\ UNCHANGED <<accountVars, body>>
  BY DEF ImportBooks
<1>2. ASSUME NEW rec, rec \in Answer, rec.status \in {200, 400, 401, 415, 422, 429, 500},
             answer' = [answer EXCEPT ![p] = rec], Enters(p, "answered")
      PROVE  Kept(p)
  BY <1>1, <1>2, UploadAnsweredKept
<1>3. CASE Responds(p, 200, TRUE, FALSE)
  <2> DEFINE rec == [status |-> 200, header |-> TRUE, body |-> FALSE]
  <2>1. rec \in Answer /\ rec.status = 200
    BY DEF Answer
  <2>2. answer' = [answer EXCEPT ![p] = rec] /\ Enters(p, "answered")
    BY <1>3 DEF Responds
  <2>3. rec.status \in {200, 400, 401, 415, 422, 429, 500}
    BY <2>1
  <2> HIDE DEF rec
  <2> QED BY <1>2, <2>1, <2>2, <2>3, ZenonT(40)
<1>4. ASSUME NEW status \in {400, 401, 415, 422, 429}, Refuses(p, status)
      PROVE  Kept(p)
  <2> DEFINE rec == [status |-> status, header |-> TRUE, body |-> TRUE]
  <2>1. rec \in Answer /\ rec.status = status
    BY DEF Answer
  <2>2. answer' = [answer EXCEPT ![p] = rec] /\ Enters(p, "answered")
    BY <1>4 DEF Refuses, Responds
  <2>3. rec.status \in {200, 400, 401, 415, 422, 429, 500}
    BY <2>1
  <2> HIDE DEF rec
  <2> QED BY <1>2, <2>1, <2>2, <2>3, ZenonT(40)
<1>5. CASE Responds(p, 500, FALSE, TRUE)
  <2> DEFINE rec == [status |-> 500, header |-> FALSE, body |-> TRUE]
  <2>1. rec \in Answer /\ rec.status = 500
    BY DEF Answer
  <2>2. answer' = [answer EXCEPT ![p] = rec] /\ Enters(p, "answered")
    BY <1>5 DEF Responds
  <2>3. rec.status \in {200, 400, 401, 415, 422, 429, 500}
    BY <2>1
  <2> HIDE DEF rec
  <2> QED BY <1>2, <2>1, <2>2, <2>3, ZenonT(40)
<1>6. CASE \E status \in {400, 415} : Refuses(p, status)
  BY <1>4, <1>6
<1>7. CASE \E status \in {401, 422, 429} : Refuses(p, status)
  BY <1>4, <1>7
<1> QED BY <1>3, <1>5, <1>6, <1>7, ZenonT(40) DEF ImportBooks

LEMMA InvalidKept ==
  ASSUME PipelineInv, NEW p \in Proc, Invalid(p)
  PROVE  Kept(p)
<1>1. LayerOK(p)
  BY DEF PipelineInv
<1> QED BY <1>1, SizesAssumption
        DEF PipelineInv, Shape, LayerOK, Kept, Others, Invalid, Refuses, Responds, Enters,
            Body, NoBody, Answer, NoAnswer, accountVars

LEMMA BeginKept ==
  ASSUME PipelineInv, NEW p \in Proc, Register(p) \/ Login(p)
  PROVE  Kept(p)
<1>1. LayerOK(p)
  BY DEF PipelineInv
<1>2. /\ layer[p] = "idle" /\ Enters(p, "route") /\ UNCHANGED <<body, answer>>
      /\ \A q \in Proc \ {p} : pc'[q] = pc[q] /\ req'[q] = req[q]
  BY DEF Register, Login, RegisterUser, Authenticate, PipelineInv, AccountInv, TypeOK
<1> QED BY <1>1, <1>2, SizesAssumption
        DEF PipelineInv, Shape, LayerOK, Kept, Others, Enters, Body, NoBody, NoAnswer

LEMMA RunKept ==
  ASSUME PipelineInv, NEW p \in Proc, RunInsert(p) \/ RunCommit(p) \/ LoseConnection(p)
  PROVE  Kept(p)
<1>1. LayerOK(p)
  BY DEF PipelineInv
<1>2. /\ UNCHANGED <<layer, body, answer>>
      /\ UNCHANGED req
      /\ \E end \in {"returned", "committed", "IntegrityError", "OperationalError"} :
            /\ pc' = [pc EXCEPT ![p] = end]
            /\ end \in {"returned", "IntegrityError"} => pc[p] = "insert"
            /\ end \in {"committed"} => pc[p] = "returned"
            /\ end \in {"OperationalError"} => pc[p] \in {"insert", "returned"}
  BY DEF RunInsert, RunCommit, LoseConnection, InsertUser, Commit, ConnectionLost
<1>3. pc[p] \in {"insert", "returned"}
  BY <1>2
<1>4. layer'[p] \notin {"route", "answered"} => pc'[p] = "idle"
  BY <1>1, <1>2, <1>3 DEF LayerOK
<1> QED BY <1>1, <1>2, <1>4 DEF PipelineInv, AccountInv, TypeOK, Shape, LayerOK, Kept, Others

LEMMA AnswerSuccessKept ==
  ASSUME PipelineInv, NEW p \in Proc, AnswerSuccess(p)
  PROVE  Kept(p)
<1>1. LayerOK(p)
  BY DEF PipelineInv
<1> QED BY <1>1, SizesAssumption
        DEF PipelineInv, Shape, LayerOK, Kept, Others, AnswerSuccess, Responds, Enters,
            Body, NoBody, Answer, NoAnswer, accountVars

LEMMA AnswerErrorKept ==
  ASSUME PipelineInv, NEW p \in Proc, AnswerError(p)
  PROVE  Kept(p)
<1>1. LayerOK(p)
  BY DEF PipelineInv
<1>2. PICK status \in {401, 409, 500} :
        /\ Responds(p, status, status # 500, TRUE)
        /\ status = 409 => pc[p] \in {"ConflictError", "IntegrityError"}
  <2>1. pc[p] \in Raised /\ Responds(p, Status(pc[p]), Status(pc[p]) # 500, TRUE)
    BY DEF AnswerError
  <2>2. /\ Status(pc[p]) \in {401, 409, 500}
        /\ Status(pc[p]) = 409 => pc[p] \in {"ConflictError", "IntegrityError"}
    BY <2>1 DEF Status, Raised
  <2> QED BY <2>1, <2>2, ZenonT(60)
<1>3. layer[p] = "route" /\ UNCHANGED <<accountVars, body>>
  BY DEF AnswerError
<1> QED BY <1>1, <1>2, <1>3, SizesAssumption
        DEF PipelineInv, Shape, LayerOK, Kept, Others, Responds, Enters,
            Body, NoBody, Answer, NoAnswer, accountVars

LEMMA LeavesKept ==
  ASSUME PipelineInv, NEW p \in Proc, Leaves(p)
  PROVE  Kept(p)
<1>1. NoBody \in Body
  BY SizesAssumption DEF NoBody, Body
<1> QED BY <1>1, SizesAssumption
        DEF PipelineInv, AccountInv, TypeOK, Shape, LayerOK, Kept, Others, Leaves, Ended, Enters,
            NoBody, NoAnswer

LEMMA PipelineNextInv == PipelineInv /\ [Next]_vars => PipelineInv'
<1> SUFFICES ASSUME PipelineInv, [Next]_vars PROVE PipelineInv'
  OBVIOUS
<1>1. AccountInv'
  BY StepImplements, NextInv DEF PipelineInv
<1>2. CASE UNCHANGED vars
  BY <1>1, <1>2 DEF PipelineInv, Shape, LayerOK, vars
<1>3. CASE Next
  <2> PICK p \in Proc :
        \/ \E b \in Body : Upload(p, b)
        \/ Register(p)
        \/ Login(p)
        \/ Invalid(p)
        \/ ReceiveChunk(p)
        \/ Serve(p)
        \/ LoseConnection(p)
        \/ Cancel(p)
    BY <1>3 DEF Next
  <2>1. Kept(p)
    BY UploadKept, RejectDeclaredKept, PassLimitKept, ReceiveChunkKept, ImportBooksKept,
       InvalidKept, BeginKept, RunKept, AnswerSuccessKept, AnswerErrorKept, LeavesKept
       DEF Serve, Close, Cancel
  <2>2. ASSUME NEW q \in Proc PROVE LayerOK(q)'
    <3>1. CASE q = p
      BY <2>1, <3>1 DEF Kept
    <3>2. CASE q # p
      BY <2>1, <3>2 DEF PipelineInv, LayerOK, Kept, Others
    <3> QED BY <3>1, <3>2
  <2> QED BY <1>1, <2>1, <2>2 DEF PipelineInv, Kept
<1> QED BY <1>2, <1>3

\* The invariant that ties the layers, the handlers and the table together.
THEOREM PipelineInvariant == Spec => []PipelineInv
  BY PipelineInitInv, PipelineNextInv, PTL DEF Spec

-----------------------------------------------------------------------------
(* What it says.                                                           *)

\* Whatever the layers do to a request, its handler does what Accounts allows.
THEOREM AccountsImplemented == Spec => AccountSpec
<1>1. PipelineInit => Init
  BY DEF PipelineInit
<1>2. PipelineInv => AccountInv
  BY DEF PipelineInv
<1> QED BY <1>1, <1>2, StepImplements, PipelineInvariant, PTL DEF Spec, AccountSpec

\* Type correctness of the pipeline.
THEOREM TypeCorrect == Spec => []PipelineTypeOK
<1>1. PipelineInv => PipelineTypeOK
  BY DEF PipelineInv, AccountInv, Shape, LayerOK, PipelineTypeOK
<1> QED BY <1>1, PipelineInvariant, PTL

\* E-mails stay unique under every interleaving of requests and every failure of the layers.
THEOREM UniqueEmails == Spec => []OneAccountPerEmail
  BY AccountsImplemented, OneAccountPerEmailHolds, PTL

\* A 409 names a committed account of the e-mail, also if it came from the unique index.
THEOREM ConflictIsRealHolds == Spec => []ConflictIsReal
<1>1. PipelineInv => ConflictIsReal
  BY DEF PipelineInv, AccountInv, HandlerOK, LayerOK, ConflictIsReal
<1> QED BY <1>1, PipelineInvariant, PTL

\* A 201 names a committed account, unless the response was sent before the commit.
THEOREM AnsweredIsStoredHolds == Spec => []AnsweredIsStored
<1>1. PipelineInv => AnsweredIsStored
  BY DEF PipelineInv, AccountInv, HandlerOK, LayerOK, AnsweredIsStored
<1> QED BY <1>1, PipelineInvariant, PTL

\* No form over the limit reaches the import, whether its length was declared or not, and no more
\* of it is read than the chunk that crosses the limit.
THEOREM OversizeRefusedHolds == Spec => []OversizeRefused
<1>1. PipelineInv => OversizeRefused
  <2> SUFFICES ASSUME PipelineInv, NEW p \in Proc
               PROVE  /\ body[p].form /\ body[p].size > MaxBody =>
                            layer[p] # "upload" /\ answer[p].status # 200
                      /\ body[p].received > MaxBody =>
                            layer[p] = "answered" /\ body[p].received = MaxBody + 1
    BY DEF OversizeRefused
  <2>1. LayerOK(p) /\ body[p] \in Body
    BY DEF PipelineInv, Shape
  <2> QED BY <2>1, SizesAssumption DEF LayerOK, Body
<1> QED BY <1>1, PipelineInvariant, PTL

=============================================================================
