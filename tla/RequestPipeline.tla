-------------------------- MODULE RequestPipeline --------------------------
(***************************************************************************)
(* The layers a request passes on its way to a handler and its answer on   *)
(* the way back: MaxBodySizeMiddleware, then RequestIDMiddleware, then the *)
(* exception handlers, then the route with its session. The routes are     *)
(* those of Accounts, whose overlapping registrations raise what the       *)
(* exception handlers are for, and the upload of POST /books/import, whose *)
(* body the outermost layer limits.                                        *)
(*                                                                         *)
(* What uvicorn, Starlette and FastAPI do between these layers is modelled *)
(* from how app/ uses them: a body is parsed before the route runs, an     *)
(* error in the parser becomes a 400, and an exception nobody handles      *)
(* passes every layer and is answered by the server.                       *)
(***************************************************************************)
EXTENDS Accounts

CONSTANTS MaxBody,   \* bulk_import_max_bytes, in chunks
          MaxSize,   \* bound: chunks of the longest body
          Orders     \* does the session commit before or after the response?

ASSUME SizesAssumption == MaxBody \in Nat /\ MaxSize \in Nat
ASSUME OrdersAssumption == Orders \subseteq {"commit_first", "respond_first"}

VARIABLES layer,     \* where each request is
          body,      \* the body of an upload
          answer     \* the response that was started

vars == <<users, write, pc, req, layer, body, answer>>

\* declared: the request has a Content-Length. form: it is multipart, so that it is read.
Body == [size : 0 .. MaxSize, declared : BOOLEAN, form : BOOLEAN, received : 0 .. MaxSize]

NoBody == [size |-> 0, declared |-> TRUE, form |-> FALSE, received |-> 0]

\* header: X-Request-ID has the id of the request. body: the error body has it.
Answer == [status : {200, 201, 400, 401, 409, 413, 415, 422, 429, 500},
           header : BOOLEAN, body : BOOLEAN]

NoAnswer == [status |-> 0, header |-> FALSE, body |-> FALSE]

PipelineTypeOK ==
    /\ TypeOK
    /\ layer \in [Proc -> {"idle", "limit", "parse", "upload", "route", "answered"}]
    /\ body \in [Proc -> Body]
    /\ answer \in [Proc -> Answer \cup {NoAnswer}]
    /\ \A p \in Proc : /\ layer[p] \notin {"route", "answered"} => pc[p] = "idle"
                       /\ answer[p] # NoAnswer <=> layer[p] = "answered"
                       /\ body[p].received <= body[p].size

PipelineInit ==
    /\ Init
    /\ layer = [p \in Proc |-> "idle"]
    /\ body = [p \in Proc |-> NoBody]
    /\ answer = [p \in Proc |-> NoAnswer]

Enters(p, next) == layer' = [layer EXCEPT ![p] = next]

\* The response starts.
Responds(p, status, header, inBody) ==
    /\ answer' = [answer EXCEPT ![p] = [status |-> status, header |-> header, body |-> inBody]]
    /\ Enters(p, "answered")

\* An error that an exception handler answers, inside RequestIDMiddleware.
Refuses(p, status) == Responds(p, status, TRUE, TRUE)

-----------------------------------------------------------------------------
(* MaxBodySizeMiddleware, on /books/import.                                *)

Upload(p, b) ==
    /\ layer[p] = "idle"
    /\ b.received = 0
    /\ body' = [body EXCEPT ![p] = b]
    /\ Enters(p, "limit")
    /\ UNCHANGED <<accountVars, answer>>

\* The declared length exceeds the limit: 413 from outside RequestIDMiddleware.
RejectDeclared(p) ==
    /\ layer[p] = "limit"
    /\ body[p].declared /\ body[p].size > MaxBody
    /\ Responds(p, 413, FALSE, FALSE)
    /\ UNCHANGED <<accountVars, body>>

\* The form is parsed; any other body is not read.
PassLimit(p) ==
    /\ layer[p] = "limit"
    /\ ~(body[p].declared /\ body[p].size > MaxBody)
    /\ Enters(p, IF body[p].form THEN "parse" ELSE "upload")
    /\ UNCHANGED <<accountVars, body, answer>>

\* Fault: the chunk is compared with the limit, not what was received up to it.
ReceiveChunkAlone(p) ==
    LET b == body[p] IN
    /\ layer[p] = "parse"
    /\ b.received < b.size
    /\ body' = [body EXCEPT ![p].received = @ + 1]
    /\ UNCHANGED <<accountVars, layer, answer>>

\* limited_receive raises _BodyTooLarge in the parser, which answers 400.
ReceiveChunk(p) ==
    LET b == body[p] IN
    /\ layer[p] = "parse"
    /\ b.received < b.size
    /\ body' = [body EXCEPT ![p].received = @ + 1]
    /\ IF b.received + 1 > MaxBody THEN Refuses(p, 400) ELSE UNCHANGED <<layer, answer>>
    /\ UNCHANGED accountVars

Parsed(p) ==
    /\ layer[p] = "parse"
    /\ body[p].received = body[p].size
    /\ Enters(p, "upload")
    /\ UNCHANGED <<accountVars, body, answer>>

\* import_books, see BulkImport. Its dependencies answer 401, 429 and, for a body without the
\* file, 422.
ImportBooks(p) ==
    /\ layer[p] = "upload"
    /\ \/ body[p].form /\ Responds(p, 200, TRUE, FALSE)
       \/ body[p].form /\ \E status \in {400, 415} : Refuses(p, status)
       \/ \E status \in {401, 422, 429} : Refuses(p, status)
       \/ Responds(p, 500, FALSE, TRUE)
    /\ UNCHANGED <<accountVars, body>>

-----------------------------------------------------------------------------
(* The routes of accounts.                                                 *)

\* What the exception handlers answer.
Status(error) ==
    CASE error \in {"ConflictError", "IntegrityError"} -> 409
      [] error = "UnauthorizedError" -> 401
      [] OTHER -> 500

Register(p) ==
    /\ layer[p] = "idle"
    /\ \E u \in User, a \in Address, w \in Password : RegisterUser(p, u, a, w)
    /\ Enters(p, "route")
    /\ UNCHANGED <<body, answer>>

Login(p) ==
    /\ layer[p] = "idle"
    /\ \E a \in Address, w \in Password : Authenticate(p, a, w)
    /\ Enters(p, "route")
    /\ UNCHANGED <<body, answer>>

\* A body or a query that does not validate; no handler runs.
Invalid(p) ==
    /\ layer[p] = "idle"
    /\ Refuses(p, 422)
    /\ UNCHANGED <<accountVars, body>>

RunInsert(p) == InsertUser(p) /\ UNCHANGED <<layer, body, answer>>

\* The session dependency commits before the response is started, or once it is sent.
RunCommit(p) ==
    /\ layer[p] = "route" => "commit_first" \in Orders
    /\ Commit(p)
    /\ UNCHANGED <<layer, body, answer>>

LoseConnection(p) == ConnectionLost(p) /\ UNCHANGED <<layer, body, answer>>

AnswerSuccess(p) ==
    /\ layer[p] = "route"
    /\ pc[p] = "committed" \/ (pc[p] = "returned" /\ "respond_first" \in Orders)
    /\ Responds(p, IF req[p].id = NoUser THEN 200 ELSE 201, TRUE, FALSE)
    /\ UNCHANGED <<accountVars, body>>

\* An exception handler answers. One nobody handles passes RequestIDMiddleware before the
\* header is set, and is answered outside it with the id in the body.
AnswerError(p) ==
    /\ layer[p] = "route"
    /\ pc[p] \in Raised
    /\ LET status == Status(pc[p]) IN Responds(p, status, status # 500, TRUE)
    /\ UNCHANGED <<accountVars, body>>

-----------------------------------------------------------------------------

\* Fault: what was answered is kept for the next request of the connection.
LeavesAnswer(p) ==
    /\ Ended(p)
    /\ Enters(p, "idle")
    /\ body' = [body EXCEPT ![p] = NoBody]
    /\ UNCHANGED answer

Leaves(p) ==
    /\ Ended(p)
    /\ Enters(p, "idle")
    /\ body' = [body EXCEPT ![p] = NoBody]
    /\ answer' = [answer EXCEPT ![p] = NoAnswer]

\* The answer is complete; an error of the late commit can no longer be told to the client.
Close(p) == layer[p] = "answered" /\ pc[p] # "returned" /\ Leaves(p)

\* The request is cancelled, or the server crashes.
Cancel(p) == layer[p] # "idle" /\ Leaves(p)

Serve(p) ==
    \/ RejectDeclared(p)
    \/ PassLimit(p)
    \/ Parsed(p)
    \/ ImportBooks(p)
    \/ RunInsert(p)
    \/ RunCommit(p)
    \/ AnswerSuccess(p)
    \/ AnswerError(p)
    \/ Close(p)

Next ==
    \E p \in Proc :
        \/ \E b \in Body : Upload(p, b)
        \/ Register(p)
        \/ Login(p)
        \/ Invalid(p)
        \/ ReceiveChunk(p)
        \/ Serve(p)
        \/ LoseConnection(p)
        \/ Cancel(p)

Spec == PipelineInit /\ [][Next]_vars

\* The server runs what it has started, and an insert that may proceed again and again does so:
\* PostgreSQL queues the waiters. Nothing makes a client send the rest of a body.
Fairness == \A p \in Proc : WF_vars(Serve(p)) /\ SF_vars(RunInsert(p))

FairSpec == Spec /\ Fairness

-----------------------------------------------------------------------------
(* Properties.                                                             *)

\* A registration is answered 409 only if its e-mail has an account: one that overlaps another
\* waits for it, for the other may yet be rolled back.
ConflictIsReal ==
    \A p \in Proc : answer[p].status = 409 => Found(req[p].row.email) # {}

\* A client that was told 201 has an account with its e-mail and password, unless the commit is
\* still to come or has failed, and that only if the framework responds first.
AnsweredIsStored ==
    \A p \in Proc : answer[p].status = 201 =>
        \/ users[req[p].id] = req[p].row
        \/ pc[p] \in {"returned", "OperationalError"} /\ "respond_first" \in Orders

\* "By the time this handler runs the body is guaranteed to be under" the limit, whether its
\* length was declared or its chunks add up to it: no form over the limit reaches the route or
\* is accepted, and the chunk that crosses the limit is the last one read.
OversizeRefused ==
    \A p \in Proc :
        /\ body[p].form /\ body[p].size > MaxBody =>
               layer[p] # "upload" /\ answer[p].status # 200
        /\ body[p].received > MaxBody =>
               layer[p] = "answered" /\ body[p].received = MaxBody + 1

\* "aborts with 413 once the cumulative byte count exceeds" the limit. The parser turns the
\* exception of the middleware into a 400.
OversizeIs413 == \A p \in Proc : body[p].received > MaxBody => answer[p].status = 413

\* "Every request gets a UUID. It appears in the response header X-Request-ID and every error
\* body." The layers outside RequestIDMiddleware break it.
IdEverywhere ==
    \A p \in Proc : layer[p] = "answered" =>
        /\ answer[p].header
        /\ answer[p].status >= 400 => answer[p].body

\* A request that has been read is answered, also one that waits for another one's insert, and
\* a late commit ends. A client that stops sending its upload is waited for without limit.
ReadRequestsEnd ==
    \A p \in Proc : layer[p] \in {"upload", "route", "answered"} ~> layer[p] = "idle"

=============================================================================
