------------------------------- MODULE Gateway -------------------------------
(***************************************************************************)
(* The REST gateway of src/api/rest_api.py: concurrent Flask handlers,     *)
(* each opening its own PyFaxAPI session (connect, login, one operation,   *)
(* __exit__), against one shared fax backend that holds the jobs.          *)
(*                                                                         *)
(* A request r is a worker thread serving one HTTP request inp[r].  Its    *)
(* steps are split at the calls into the C library, where other threads   *)
(* and the backend run; the Python code between two calls is part of the  *)
(* step before it.                                                         *)
(*                                                                         *)
(* The backend (the C library and the HylaFAX job queues, outside src/)    *)
(* is modelled from the spec: a job is in no queue yet, in the send queue  *)
(* (possibly suspended), in the done queue, in the archive, or gone.       *)
(***************************************************************************)
EXTENDS Naturals, FiniteSets, Sequences, FaxSession

CONSTANTS
    Req,        \* worker threads, each serving one request
    Job,        \* job identifiers the backend can hand out
    MaxFiles,   \* upper bound on the allowed files of one upload
    Inputs      \* the HTTP requests a client may send

Ops        == {"health", "send", "status", "info",
               "kill", "suspend", "resume", "wait"}
QueueParam == {"send", "done", "recv", "archive", "document", "server", "bogus"}
FileKinds  == {"missing", "unnamed", "named"}
DestKinds  == {"badjson", "empty", "list", "numlist", "text", "number"}
OptKinds   == {"badjson", "ok", "mistyped"}

(***************************************************************************)
(* An HTTP request, abstracted to what the handlers tell apart:            *)
(*   files  - no 'files' part, only empty file names, or named files;      *)
(*   nfiles - how many of them have an allowed extension;                  *)
(*   dst    - the 'destinations' field: not JSON, a falsy value, a list of *)
(*            strings, a list holding a number, a JSON string, or a JSON   *)
(*            number;                                                      *)
(*   opt    - the 'options' field: not JSON, well typed, or a recognised   *)
(*            key with a value of the wrong C type;                        *)
(*   queue  - the 'queue' parameter of /api/fax/status;                    *)
(*   job    - the <job_id> of the per-job endpoints.                       *)
(***************************************************************************)
Request == [op : Ops, job : Job, queue : QueueParam, files : FileKinds,
            nfiles : 0..MaxFiles, dst : DestKinds, opt : OptKinds]

ASSUME GatewayAssumption ==
    /\ Req # {} /\ Job # {}
    /\ MaxFiles \in Nat
    /\ Inputs \subseteq Request /\ Inputs # {}

\* Where the backend keeps a job.  Only the send, done and archive queues
\* hold jobs of this model; recv, document and server report none of them.
BackendQueues == {"send", "done", "archive"}
Place == {"none", "gone"} \cup BackendQueues

\* The C functions a request can call.
Calls    == {"none", "connect", "login", "submit", "query",
             "kill", "suspend", "resume", "wait", "destroy"}
JobCalls == {"submit", "query", "kill", "suspend", "resume", "wait"}

Codes == {0, 200, 400, 404, 500, 503}   \* 0: not answered yet

PC == {"start", "connect", "login", "op", "exit", "done"}

VARIABLES
    pc,         \* pc[r]: where the handler of r is
    inp,        \* inp[r]: the request r serves
    sess,       \* sess[r]: the PyFaxAPI object of r
    resp,       \* resp[r]: the HTTP status code r answers with
    staged,     \* staged[r]: uploaded files of r saved in UPLOAD_FOLDER
    qi,         \* qi[r]: the queue get_job_info searches next
    held,       \* history: the job was in a searched queue at every query
    lost,       \* history: some query of the search returned [] or a prefix
    jq,         \* jq[j]: where the backend keeps job j
    susp,       \* susp[j]: job j is suspended
    lastCall    \* lastCall[r]: the C function r called in the last step

reqVars == <<pc, inp, sess, resp, staged, qi, held, lost>>
vars == <<pc, inp, sess, resp, staged, qi, held, lost, jq, susp, lastCall>>

TypeOK ==
    /\ pc \in [Req -> PC]
    /\ inp \in [Req -> Inputs]
    /\ sess \in [Req -> SessionState]
    /\ resp \in [Req -> Codes]
    /\ staged \in [Req -> 0..MaxFiles]
    /\ qi \in [Req -> 1..3]
    /\ held \in [Req -> BOOLEAN]
    /\ lost \in [Req -> BOOLEAN]
    /\ jq \in [Job -> Place]
    /\ susp \in [Job -> BOOLEAN]
    /\ lastCall \in [Req -> Calls]

\* The handlers that validate their input before opening a session.
Validating == {"send", "status"}

Init ==
    /\ inp \in [Req -> Inputs]
    /\ pc = [r \in Req |-> IF inp[r].op \in Validating THEN "start" ELSE "connect"]
    /\ sess = [r \in Req |-> NoSession]
    /\ resp = [r \in Req |-> 0]
    /\ staged = [r \in Req |-> 0]
    /\ qi = [r \in Req |-> 1]
    /\ held = [r \in Req |-> TRUE]
    /\ lost = [r \in Req |-> FALSE]
    \* the backend may already hold jobs, none of them suspended
    /\ jq \in [Job -> {"none"} \cup BackendQueues]
    /\ susp = [j \in Job |-> FALSE]
    /\ lastCall = [r \in Req |-> "none"]

\* r called the C function f in this step; no other thread called one.
Called(r, f) == lastCall' = [q \in Req |-> IF q = r THEN f ELSE "none"]
NoCall == lastCall' = [q \in Req |-> "none"]

\* r answers with code c once its handler returns.
Answer(r, c) == resp' = [resp EXCEPT ![r] = c]
Goto(r, l) == pc' = [pc EXCEPT ![r] = l]

-----------------------------------------------------------------------------
(***************************************************************************)
(* send_fax, lines 76-114: checks on the form, then the allowed files are  *)
(* saved one by one.  A save that raises (OSError) ends the handler with   *)
(* 500 and leaves the files saved before it in UPLOAD_FOLDER.             *)
(***************************************************************************)
Invalid(i) ==
    \/ i.files \in {"missing", "unnamed"}
    \/ i.dst \in {"badjson", "empty"}
    \/ i.opt = "badjson"
    \/ i.nfiles = 0

SendValidate(r) ==
    /\ pc[r] = "start" /\ inp[r].op = "send"
    /\ LET i == inp[r] IN
       \/ /\ Invalid(i)
          /\ Answer(r, 400) /\ Goto(r, "done")
          /\ UNCHANGED staged
       \/ /\ ~Invalid(i)
          /\ \E k \in 0..(i.nfiles - 1) :
                staged' = [staged EXCEPT ![r] = k]
          /\ Answer(r, 500) /\ Goto(r, "done")
       \/ /\ ~Invalid(i)
          /\ staged' = [staged EXCEPT ![r] = i.nfiles]
          /\ Goto(r, "connect") /\ UNCHANGED resp
    /\ NoCall
    /\ UNCHANGED <<inp, sess, qi, held, lost, jq, susp>>

\* get_fax_status, lines 160-174: the queue parameter must be one of six.
StatusValidate(r) ==
    /\ pc[r] = "start" /\ inp[r].op = "status"
    /\ IF inp[r].queue = "bogus"
       THEN Answer(r, 400) /\ Goto(r, "done")
       ELSE Goto(r, "connect") /\ UNCHANGED resp
    /\ NoCall
    /\ UNCHANGED <<inp, sess, staged, qi, held, lost, jq, susp>>

\* Mutant of Connect: the handler goes on to login after a failed connect.
ConnectNoEarlyReturn(r) ==
    /\ pc[r] = "connect"
    /\ \E ok \in BOOLEAN :
          /\ sess' = [sess EXCEPT ![r] = connect(PyFaxAPI, ok)]
          /\ IF ok /\ inp[r].op = "health"
             THEN Answer(r, 200) /\ Goto(r, "exit")
             ELSE Goto(r, "login") /\ UNCHANGED resp
    /\ Called(r, "connect")
    /\ UNCHANGED <<inp, staged, qi, held, lost, jq, susp>>

(***************************************************************************)
(* "with PyFaxAPI(HYLAFAX_HOST) as fax_api: success, error =               *)
(* fax_api.connect()", the same in every handler.  A failed connect        *)
(* returns 503; health_check answers 200 on success and stops there.      *)
(***************************************************************************)
Connect(r) ==
    /\ pc[r] = "connect"
    /\ \E ok \in BOOLEAN :
          /\ sess' = [sess EXCEPT ![r] = connect(PyFaxAPI, ok)]
          /\ IF ~ok
             THEN Answer(r, 503) /\ Goto(r, "exit")
             ELSE IF inp[r].op = "health"
                  THEN Answer(r, 200) /\ Goto(r, "exit")
                  ELSE Goto(r, "login") /\ UNCHANGED resp
    /\ Called(r, "connect")
    /\ UNCHANGED <<inp, staged, qi, held, lost, jq, susp>>

\* Mutant of Login: the handler goes on after a failed login.
LoginNoEarlyReturn(r) ==
    /\ pc[r] = "login"
    /\ \E ok \in BOOLEAN :
          /\ sess' = [sess EXCEPT ![r] = login(sess[r], ok)]
          /\ Goto(r, "op") /\ UNCHANGED resp
    /\ Called(r, "login")
    /\ UNCHANGED <<inp, staged, qi, held, lost, jq, susp>>

\* "success, error = fax_api.login()": a failed login returns 503.
Login(r) ==
    /\ pc[r] = "login"
    /\ \E ok \in BOOLEAN :
          /\ sess' = [sess EXCEPT ![r] = login(sess[r], ok)]
          /\ IF ok THEN Goto(r, "op") /\ UNCHANGED resp
                   ELSE Answer(r, 503) /\ Goto(r, "exit")
    /\ Called(r, "login")
    /\ UNCHANGED <<inp, staged, qi, held, lost, jq, susp>>

\* The "with" block ends: __exit__ disconnects and destroys the handle.
Exit(r) ==
    /\ pc[r] = "exit"
    /\ sess' = [sess EXCEPT ![r] = exit(sess[r])]
    /\ Goto(r, "done")
    /\ Called(r, "destroy")
    /\ UNCHANGED <<inp, resp, staged, qi, held, lost, jq, susp>>

-----------------------------------------------------------------------------
(***************************************************************************)
(* The operations.  Each is one C call on an open session, the Python      *)
(* code around it, and the response the handler builds.                   *)
(***************************************************************************)

\* Jobs the backend lists for a QueueType.
Count(q) == Cardinality({j \in Job : jq[j] = q})

\* The count fax_api_get_job_status reports: it is never told the capacity
\* of the array (jobs_count starts at 0), so it reports every job of the
\* queue, or a library that caps at MaxJobs reports that many.
Reported(q) == {Count(q), IF Count(q) > MaxJobs THEN MaxJobs ELSE Count(q)}

(***************************************************************************)
(* send_fax, lines 128-144, with PyFaxAPI.send_fax: marshal the options,   *)
(* build the destination array, fax_api_send_fax, then delete the saved    *)
(* files and answer 200 or 400 with the backend's message.  A TypeError    *)
(* raised while converting skips the deletion and answers 500.            *)
(***************************************************************************)
SendOp(r) ==
    /\ pc[r] = "op" /\ inp[r].op = "send"
    /\ Ready(sess[r])
    /\ LET i == inp[r] IN
       \/ /\ MarshalRaises(i.opt) \/ DestRaises(i.dst)
          /\ Answer(r, 500) /\ NoCall
          /\ UNCHANGED <<staged, jq>>
       \/ /\ ~MarshalRaises(i.opt) /\ ~DestRaises(i.dst)
          /\ \/ \E j \in Job :
                   /\ jq[j] = "none"
                   /\ jq' = [jq EXCEPT ![j] = "send"]
                   /\ Answer(r, 200)
             \/ /\ Answer(r, 400)          \* the backend rejects the job
                /\ UNCHANGED jq
          /\ staged' = [staged EXCEPT ![r] = 0]
          /\ Called(r, "submit")
    /\ Goto(r, "exit")
    /\ UNCHANGED <<inp, sess, qi, held, lost, susp>>

(***************************************************************************)
(* get_fax_status, lines 187-193, with get_job_status: a failed C call     *)
(* gives [] and still 200; a count above MaxJobs raises IndexError (500).  *)
(***************************************************************************)
StatusOp(r) ==
    /\ pc[r] = "op" /\ inp[r].op = "status"
    /\ Ready(sess[r])
    /\ \/ Answer(r, 200)                   \* the C call failed: []
       \/ \E c \in Reported(inp[r].queue) :
             Answer(r, IF QueryRaises(c) THEN 500 ELSE 200)
    /\ Goto(r, "exit")
    /\ Called(r, "query")
    /\ UNCHANGED <<inp, sess, staged, qi, held, lost, jq, susp>>

\* The queues get_job_info searches, in this order (line 217).
LookupOrderSwapped == <<"done", "send", "archive">>
LookupOrder == <<"send", "done", "archive">>

(***************************************************************************)
(* get_job_info, lines 215-230: one get_job_status per queue of            *)
(* LookupOrder until the job id is listed; 404 after the last.  A queue    *)
(* whose query failed, or was cut to a prefix, is searched as listed.      *)
(***************************************************************************)
\* The for loop has reached the last queue of LookupOrder.
LastQueuePastEnd(r) == qi[r] = Len(LookupOrder) + 1
LastQueue(r) == qi[r] = Len(LookupOrder)

\* The for loop moves on to the next queue of LookupOrder.
AdvanceStuck(r) == UNCHANGED qi
Advance(r) == qi' = [qi EXCEPT ![r] = qi[r] + 1]

LookupStep(r) ==
    /\ pc[r] = "op" /\ inp[r].op = "info"
    /\ Ready(sess[r])
    /\ LET q == LookupOrder[qi[r]]
           j == inp[r].job
       IN /\ held' = [held EXCEPT ![r] = held[r] /\ jq[j] \in BackendQueues]
          /\ \E ok \in BOOLEAN, c \in Reported(q) :
               LET listed == ok /\ ~QueryRaises(c) /\ jq[j] = q
                   cut    == ok /\ c < Count(q)
               IN /\ lost' = [lost EXCEPT ![r] = lost[r] \/ ~ok \/ cut]
                  /\ \E found \in IF listed /\ cut THEN BOOLEAN ELSE {listed} :
                       IF ok /\ QueryRaises(c)
                       THEN Answer(r, 500) /\ Goto(r, "exit") /\ UNCHANGED qi
                       ELSE IF found
                       THEN Answer(r, 200) /\ Goto(r, "exit") /\ UNCHANGED qi
                       ELSE IF LastQueue(r)
                       THEN Answer(r, 404) /\ Goto(r, "exit") /\ UNCHANGED qi
                       ELSE Advance(r) /\ UNCHANGED <<resp, pc>>
    /\ Called(r, "query")
    /\ UNCHANGED <<inp, sess, staged, jq, susp>>


(***************************************************************************)
(* kill_job, suspend_job, resume_job (lines 252-257, 279-284, 306-311):    *)
(* one C call, 200 on success, else 400 with the backend's message.  The   *)
(* PyFaxAPI methods call the C library without looking at the flags.      *)
(* The backend may fail any of them (the job is in no queue it can act on, *)
(* or the server refuses), and changes nothing then.                       *)
(***************************************************************************)
JobControl(r, op, accepts(_), effect(_)) ==
    /\ pc[r] = "op" /\ inp[r].op = op
    /\ LET j == inp[r].job IN
       \/ /\ accepts(j)
          /\ effect(j)
          /\ Answer(r, 200)
       \/ /\ Answer(r, 400)
          /\ UNCHANGED <<jq, susp>>
    /\ Goto(r, "exit")
    /\ Called(r, op)
    /\ UNCHANGED <<inp, sess, staged, qi, held, lost>>

\* The backend kills a job of the send queue, suspended or not: it goes to
\* the done queue.
KillJob(r) ==
    JobControl(r, "kill",
               LAMBDA j : jq[j] = "send",
               LAMBDA j : jq' = [jq EXCEPT ![j] = "done"]
                          /\ susp' = [susp EXCEPT ![j] = FALSE])

SuspendJob(r) ==
    JobControl(r, "suspend",
               LAMBDA j : jq[j] = "send" /\ ~susp[j],
               LAMBDA j : susp' = [susp EXCEPT ![j] = TRUE] /\ UNCHANGED jq)

ResumeJob(r) ==
    JobControl(r, "resume",
               LAMBDA j : jq[j] = "send" /\ susp[j],
               LAMBDA j : susp' = [susp EXCEPT ![j] = FALSE] /\ UNCHANGED jq)

(***************************************************************************)
(* wait_for_job, lines 333-338: fax_api_wait_for_job blocks while the job  *)
(* is in the send queue and returns once it has left it: success when it   *)
(* is done or archived, failure when the backend does not know it.        *)
(***************************************************************************)
WaitForJob(r) ==
    /\ pc[r] = "op" /\ inp[r].op = "wait"
    /\ LET j == inp[r].job IN
       /\ jq[j] # "send"
       /\ Answer(r, IF jq[j] \in {"done", "archive"} THEN 200 ELSE 400)
    /\ Goto(r, "exit")
    /\ Called(r, "wait")
    /\ UNCHANGED <<inp, sess, staged, qi, held, lost, jq, susp>>

-----------------------------------------------------------------------------
(***************************************************************************)
(* The backend on its own: the scheduler sends (or gives up on) a queued   *)
(* job that is not suspended, and done jobs are archived or removed.       *)
(***************************************************************************)
Dispatch(j) ==
    /\ jq[j] = "send" /\ ~susp[j]
    /\ jq' = [jq EXCEPT ![j] = "done"]
    /\ NoCall
    /\ UNCHANGED <<reqVars, susp>>

ArchiveJob(j) ==
    /\ jq[j] = "done"
    /\ jq' = [jq EXCEPT ![j] = "archive"]
    /\ NoCall
    /\ UNCHANGED <<reqVars, susp>>

ExpireJob(j) ==
    /\ jq[j] = "done"
    /\ jq' = [jq EXCEPT ![j] = "gone"]
    /\ NoCall
    /\ UNCHANGED <<reqVars, susp>>

-----------------------------------------------------------------------------
\* Every step of the thread serving r.
Serve(r) ==
    \/ SendValidate(r) \/ StatusValidate(r)
    \/ Connect(r) \/ Login(r)
    \/ SendOp(r) \/ StatusOp(r) \/ LookupStep(r)
    \/ KillJob(r) \/ SuspendJob(r) \/ ResumeJob(r) \/ WaitForJob(r)
    \/ Exit(r)

Backend(j) == Dispatch(j) \/ ArchiveJob(j) \/ ExpireJob(j)

\* Every request has been answered and the backend is idle.
Served ==
    /\ \A r \in Req : pc[r] = "done"
    /\ UNCHANGED vars

Next ==
    \/ \E r \in Req : Serve(r)
    \/ \E j \in Job : Backend(j)
    \/ Served

(***************************************************************************)
(* Fairness.  A Flask worker thread that can take its next step eventually *)
(* does (the threads are scheduled by the OS).  The HylaFAX scheduler      *)
(* eventually moves a queued job that is not suspended to the done queue:  *)
(* it is sent, or given up on at its kill time.                           *)
(***************************************************************************)
Fairness ==
    /\ \A r \in Req : WF_vars(Serve(r))
    /\ \A j \in Job : WF_vars(Dispatch(j))

Spec == Init /\ [][Next]_vars

FairSpec == Spec /\ Fairness

-----------------------------------------------------------------------------
(***************************************************************************)
(* Refinement mapping onto the Session contract of spec 4.1: the PyFaxAPI  *)
(* object of request r seen as a Session.  Before the handler creates it   *)
(* the Session is Unconnected (creating it is a stutter); after __exit__   *)
(* it is released; otherwise the two flags give its state.                 *)
(***************************************************************************)
ContractState(s) ==
    IF s.h = "destroyed" THEN "released"
    ELSE IF Ready(s) THEN "authenticated"
    ELSE IF s.connected THEN "connected"
    ELSE "unconnected"

Contract(r) == INSTANCE SessionContract
                   WITH state <- ContractState(sess[r]), call <- lastCall[r]

-----------------------------------------------------------------------------
(***************************************************************************)
(* Properties.                                                             *)
(***************************************************************************)

(***************************************************************************)
(* Session discipline (spec 4.1, 5): a request calls a job function of the *)
(* C library (submit, query, kill, suspend, resume, wait) only on a live   *)
(* handle that is connected and logged in, and by the time its handler has *)
(* answered, the "with" block has disconnected and destroyed the handle.   *)
(* For kill/suspend/resume/wait only the handlers' early returns after     *)
(* connect() and login() ensure the first part: the PyFaxAPI methods do   *)
(* not check the flags.                                                    *)
(***************************************************************************)
SessionDiscipline ==
    \A r \in Req :
       /\ lastCall[r] \in JobCalls => Ready(sess[r]) /\ sess[r].h = "live"
       /\ pc[r] = "done" => sess[r].h # "live" /\ ~sess[r].connected

(***************************************************************************)
(* Job lookup under concurrent change (get_job_info): a job that is in the *)
(* send, done or archive queue at each of the handler's queries is never   *)
(* answered 404, unless a query failed and was read as [] (the fail-soft   *)
(* path of get_job_status) or was cut short.  The job may move from queue  *)
(* to queue between the three queries, by the scheduler or by a kill of    *)
(* another request: it is still found because the queries follow the     *)
(* order in which a job moves.                                            *)
(***************************************************************************)
JobLookupComplete ==
    \A r \in Req :
       (pc[r] = "done" /\ inp[r].op = "info" /\ held[r] /\ ~lost[r])
          => resp[r] # 404

(***************************************************************************)
(* Every request is answered (the handler returns), given fair threads and *)
(* a scheduler that eventually finishes queued jobs that are not           *)
(* suspended: wait_for_job returns once its job leaves the send queue, and *)
(* the get_job_info loop ends after the last queue.                        *)
(***************************************************************************)
AllAnswered == \A r \in Req : <>(pc[r] = "done")

(***************************************************************************)
(* Spec 5: the files staged for a submission are deleted once the handler  *)
(* returns, "regardless of success or failure".                            *)
(***************************************************************************)
UploadsReleased == \A r \in Req : pc[r] = "done" => staged[r] = 0

(***************************************************************************)
(* Spec 7(e): a malformed destinations field is rejected before any        *)
(* backend call, so fax_api_send_fax is only reached with the list of      *)
(* destination strings the caller sent.                                    *)
(***************************************************************************)
DestinationsAsSent ==
    \A r \in Req : lastCall[r] = "submit" => inp[r].dst = "list"

(***************************************************************************)
(* Spec 4.4: when the backend reports more jobs than the bound, the result *)
(* is truncated, "not a protocol error": a status or job-info request is   *)
(* never answered 500 because of the job count.                            *)
(***************************************************************************)
OverflowTruncated ==
    \A r \in Req :
       (pc[r] = "done" /\ inp[r].op \in {"status", "info"}) => resp[r] # 500

(***************************************************************************)
(* Each request's handler uses its PyFaxAPI object as spec 4.1 says a      *)
(* Session must be used: connect from Unconnected, login only once         *)
(* connected, submit/query/control only when authenticated, and the       *)
(* teardown of __exit__ releasing the handle exactly once, on every exit   *)
(* path of every handler, whatever the other requests do meanwhile.       *)
(* This is \A r \in Req : Contract(r)!Spec, with the box taken outside     *)
(* the quantifier so that TLC can check it.                                *)
(***************************************************************************)
SessionContractRefined ==
    /\ \A r \in Req : Contract(r)!Init
    /\ [][\A r \in Req : [Contract(r)!Next]_(Contract(r)!vars)]_vars

=============================================================================
