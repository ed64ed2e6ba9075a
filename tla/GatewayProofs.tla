---------------------------- MODULE GatewayProofs ----------------------------
(***************************************************************************)
(* Proofs about Gateway, for every number of requests and jobs and every   *)
(* set of inputs: type correctness, and the session discipline of the      *)
(* handlers (job calls only on a logged-in session; the session closed     *)
(* once the handler has answered).                                         *)
(***************************************************************************)
EXTENDS Gateway, TLAPS

(***************************************************************************)
(* SessionDiscipline is not inductive: the handler's place says what the   *)
(* session is.  Before connect() there is no object; between connect and  *)
(* login it is connected; during the operation it is connected and logged  *)
(* in; until __exit__ the handle is live; after it, it is not.            *)
(***************************************************************************)
Placed(p, s, c) ==
    /\ p \in {"start", "connect"} => s = NoSession
    /\ p = "login" => s.h = "live" /\ s.connected /\ ~s.logged_in
    /\ p = "op" => s.h = "live" /\ Ready(s)
    /\ p = "exit" => s.h = "live"
    /\ p = "done" => s.h # "live" /\ ~s.connected
    /\ c \in JobCalls => Ready(s) /\ s.h = "live"

SessionByPlace(r) == Placed(pc[r], sess[r], lastCall[r])

IInv == TypeOK /\ \A r \in Req : SessionByPlace(r)

\* Facts about the constants and the sets the proofs use.
LEMMA InputsTyped ==
    ASSUME NEW i \in Inputs
    PROVE  /\ i.op \in Ops /\ i.job \in Job /\ i.queue \in QueueParam
           /\ i.nfiles \in 0..MaxFiles /\ i.dst \in DestKinds
           /\ i.opt \in OptKinds
  BY GatewayAssumption DEF Request

\* The session operators keep a session a session.
LEMMA SessionOpsTyped ==
    ASSUME NEW s \in SessionState, NEW ok \in BOOLEAN
    PROVE  /\ connect(s, ok) \in SessionState
           /\ login(s, ok) \in SessionState
           /\ exit(s) \in SessionState
  BY DEF SessionState, HandleState, connect, login, exit, disconnect

\* The two sessions a handler starts from.
LEMMA FreshSessionsTyped ==
    /\ PyFaxAPI \in SessionState /\ PyFaxAPI.h = "live"
    /\ NoSession \in SessionState /\ NoSession.h = "none"
  BY DEF SessionState, HandleState, PyFaxAPI, NoSession

\* A request that called nothing in the last step keeps its invariant.
LEMMA PlacedNoCall ==
    ASSUME NEW p, NEW s, NEW c, Placed(p, s, c)
    PROVE  Placed(p, s, "none")
  BY DEF Placed, JobCalls

-----------------------------------------------------------------------------
USE DEF IInv

\* Init establishes the inductive invariant.
LEMMA InitIInv == Init => IInv
  <1> SUFFICES ASSUME Init PROVE IInv
    OBVIOUS
  <1>1. NoSession \in SessionState /\ NoSession.h = "none"
    BY FreshSessionsTyped
  <1>2. TypeOK
    BY <1>1, GatewayAssumption DEF Init, TypeOK, Place, Codes, PC, Calls
  <1>3. \A r \in Req : SessionByPlace(r)
    BY <1>1 DEF Init, Validating, JobCalls, SessionByPlace, Placed
  <1> QED
    BY <1>2, <1>3

(***************************************************************************)
(* A step of request r leaves the other requests' places and sessions      *)
(* alone and clears their lastCall, so their part of the invariant holds   *)
(* by PlacedNoCall; what is left is r's own part.                          *)
(***************************************************************************)
LEMMA OthersKept ==
    ASSUME IInv, NEW r \in Req,
           \A q \in Req \ {r} : /\ pc'[q] = pc[q] /\ sess'[q] = sess[q]
                                /\ lastCall'[q] = "none",
           SessionByPlace(r)'
    PROVE  \A q \in Req : SessionByPlace(q)'
  BY PlacedNoCall DEF SessionByPlace

\* Every step keeps the inductive invariant.
LEMMA NextIInv == IInv /\ [Next]_vars => IInv'
  <1> SUFFICES ASSUME IInv, [Next]_vars PROVE IInv'
    OBVIOUS
  <1> USE DEF Answer, Goto, Called, NoCall
  <1>1. ASSUME NEW r \in Req, SendValidate(r) PROVE IInv'
    <2>1. TypeOK'
      <3>1. resp' \in [Req -> Codes] /\ pc' \in [Req -> PC]
        BY <1>1 DEF SendValidate, TypeOK, Codes, PC
      <3>2. staged' \in [Req -> 0..MaxFiles]
        <4>1. inp[r].nfiles \in 0..MaxFiles
          BY InputsTyped DEF TypeOK
        <4> QED
          BY <1>1, <4>1, GatewayAssumption DEF SendValidate, TypeOK
      <3>3. lastCall' \in [Req -> Calls]
        BY <1>1 DEF SendValidate, Calls
      <3> QED
        BY <1>1, <3>1, <3>2, <3>3 DEF SendValidate, TypeOK
    <2>2. \A q \in Req \ {r} : /\ pc'[q] = pc[q] /\ sess'[q] = sess[q]
                               /\ lastCall'[q] = "none"
      BY <1>1 DEF SendValidate, Invalid, TypeOK
    <2>3. SessionByPlace(r)'
      <3>1. /\ pc[r] = "start" /\ sess' = sess /\ lastCall'[r] = "none"
            /\ pc'[r] \in {"done", "connect"}
        BY <1>1 DEF SendValidate, Invalid, TypeOK
      <3>2. sess[r] = NoSession
        BY <3>1, IInv DEF SessionByPlace, Placed
      <3> QED
        BY <3>1, <3>2 DEF SessionByPlace, Placed, JobCalls, NoSession
    <2> QED
      BY <2>1, <2>2, <2>3, OthersKept
  <1>2. ASSUME NEW r \in Req, StatusValidate(r) PROVE IInv'
    <2>1. TypeOK'
      BY <1>2, InputsTyped, SessionOpsTyped, FreshSessionsTyped, GatewayAssumption
      DEF StatusValidate, TypeOK, Codes, PC, Calls, Place, BackendQueues
    <2>2. \A q \in Req \ {r} : /\ pc'[q] = pc[q] /\ sess'[q] = sess[q]
                               /\ lastCall'[q] = "none"
      BY <1>2 DEF StatusValidate, TypeOK
    <2>3. SessionByPlace(r)'
      <3>1. /\ pc[r] = "start" /\ sess' = sess /\ lastCall'[r] = "none"
            /\ pc'[r] \in {"done", "connect"}
        BY <1>2 DEF StatusValidate, TypeOK
      <3>2. sess[r] = NoSession
        BY <3>1, IInv DEF SessionByPlace, Placed
      <3> QED
        BY <3>1, <3>2 DEF SessionByPlace, Placed, JobCalls, NoSession
    <2> QED
      BY <2>1, <2>2, <2>3, OthersKept
  <1>3. ASSUME NEW r \in Req, Connect(r) PROVE IInv'
    <2>1. TypeOK'
      <3>1. PICK ok \in BOOLEAN :
                 /\ sess' = [sess EXCEPT ![r] = connect(PyFaxAPI, ok)]
        BY <1>3 DEF Connect
      <3>4. pc' \in [Req -> PC]
        BY <1>3 DEF Connect, TypeOK, PC
      <3>5. resp' \in [Req -> Codes]
        BY <1>3 DEF Connect, TypeOK, Codes
      <3>2. connect(PyFaxAPI, ok) \in SessionState
        BY SessionOpsTyped, FreshSessionsTyped DEF TypeOK
      <3>3. lastCall' \in [Req -> Calls]
        BY <1>3 DEF Connect, Calls
      <3> QED
        BY <1>3, <3>1, <3>2, <3>3, <3>4, <3>5 DEF Connect, TypeOK
    <2>2. \A q \in Req \ {r} : /\ pc'[q] = pc[q] /\ sess'[q] = sess[q]
                               /\ lastCall'[q] = "none"
      BY <1>3 DEF Connect, connect, TypeOK
    <2>3. SessionByPlace(r)'
      BY <1>3, FreshSessionsTyped DEF Connect, connect, PyFaxAPI, TypeOK, SessionByPlace, Placed, Ready, JobCalls
    <2> QED
      BY <2>1, <2>2, <2>3, OthersKept
  <1>4. ASSUME NEW r \in Req, Login(r) PROVE IInv'
    <2>1. TypeOK'
      <3>1. PICK ok \in BOOLEAN :
                 /\ sess' = [sess EXCEPT ![r] = login(sess[r], ok)]
        BY <1>4 DEF Login
      <3>4. pc' \in [Req -> PC]
        BY <1>4 DEF Login, TypeOK, PC
      <3>5. resp' \in [Req -> Codes]
        BY <1>4 DEF Login, TypeOK, Codes
      <3>2. login(sess[r], ok) \in SessionState
        BY SessionOpsTyped, FreshSessionsTyped DEF TypeOK
      <3>3. lastCall' \in [Req -> Calls]
        BY <1>4 DEF Login, Calls
      <3> QED
        BY <1>4, <3>1, <3>2, <3>3, <3>4, <3>5 DEF Login, TypeOK
    <2>2. \A q \in Req \ {r} : /\ pc'[q] = pc[q] /\ sess'[q] = sess[q]
                               /\ lastCall'[q] = "none"
      BY <1>4 DEF Login, login, TypeOK
    <2>3. SessionByPlace(r)'
      BY <1>4, FreshSessionsTyped DEF Login, login, TypeOK, SessionByPlace, Placed, Ready, JobCalls
    <2> QED
      BY <2>1, <2>2, <2>3, OthersKept
  <1>5. ASSUME NEW r \in Req, SendOp(r) PROVE IInv'
    <2>1. TypeOK'
      <3>1. resp' \in [Req -> Codes] /\ pc' \in [Req -> PC]
        BY <1>5 DEF SendOp, TypeOK, Codes, PC
      <3>2. staged' \in [Req -> 0..MaxFiles] /\ jq' \in [Job -> Place]
        BY <1>5, GatewayAssumption DEF SendOp, TypeOK, Place, BackendQueues
      <3>3. lastCall' \in [Req -> Calls]
        BY <1>5 DEF SendOp, Calls
      <3> QED
        BY <1>5, <3>1, <3>2, <3>3 DEF SendOp, TypeOK
    <2>2. \A q \in Req \ {r} : /\ pc'[q] = pc[q] /\ sess'[q] = sess[q]
                               /\ lastCall'[q] = "none"
      BY <1>5 DEF SendOp, MarshalRaises, DestRaises, TypeOK
    <2>3. SessionByPlace(r)'
      BY <1>5, FreshSessionsTyped DEF SendOp, MarshalRaises, DestRaises, TypeOK, SessionByPlace, Placed, Ready, JobCalls
    <2> QED
      BY <2>1, <2>2, <2>3, OthersKept
  <1>6. ASSUME NEW r \in Req, StatusOp(r) PROVE IInv'
    <2>1. TypeOK'
      <3>1. resp' \in [Req -> Codes] /\ pc' \in [Req -> PC]
        BY <1>6 DEF StatusOp, QueryRaises, TypeOK, Codes, PC
      <3>2. lastCall' \in [Req -> Calls]
        BY <1>6 DEF StatusOp, Calls
      <3> QED
        BY <1>6, <3>1, <3>2 DEF StatusOp, TypeOK
    <2>2. \A q \in Req \ {r} : /\ pc'[q] = pc[q] /\ sess'[q] = sess[q]
                               /\ lastCall'[q] = "none"
      BY <1>6 DEF StatusOp, QueryRaises, TypeOK
    <2>3. SessionByPlace(r)'
      BY <1>6, FreshSessionsTyped DEF StatusOp, QueryRaises, TypeOK, SessionByPlace, Placed, Ready, JobCalls
    <2> QED
      BY <2>1, <2>2, <2>3, OthersKept
  <1>7. ASSUME NEW r \in Req, LookupStep(r) PROVE IInv'
    <2>1. TypeOK'
      BY <1>7, InputsTyped, SessionOpsTyped, FreshSessionsTyped, GatewayAssumption
      DEF LookupStep, LastQueue, Advance, QueryRaises, LookupOrder, TypeOK, Codes, PC, Calls, Place, BackendQueues
    <2>2. \A q \in Req \ {r} : /\ pc'[q] = pc[q] /\ sess'[q] = sess[q]
                               /\ lastCall'[q] = "none"
      BY <1>7 DEF LookupStep, LastQueue, Advance, QueryRaises, LookupOrder, TypeOK
    <2>3. SessionByPlace(r)'
      BY <1>7, FreshSessionsTyped DEF LookupStep, LastQueue, Advance, QueryRaises, LookupOrder, TypeOK, SessionByPlace, Placed, Ready, JobCalls
    <2> QED
      BY <2>1, <2>2, <2>3, OthersKept
  <1>8. ASSUME NEW r \in Req, KillJob(r) PROVE IInv'
    <2>1. TypeOK'
      <3>1. inp[r].job \in Job
        BY InputsTyped DEF TypeOK
      <3>2. jq' \in [Job -> Place] /\ susp' \in [Job -> BOOLEAN]
        BY <1>8, <3>1 DEF KillJob, JobControl, TypeOK, Place, BackendQueues
      <3>3. pc' \in [Req -> PC] /\ resp' \in [Req -> Codes]
            /\ lastCall' \in [Req -> Calls]
        BY <1>8 DEF KillJob, JobControl, TypeOK, PC, Codes, Calls
      <3> QED
        BY <1>8, <3>2, <3>3 DEF KillJob, JobControl, TypeOK
    <2>2. \A q \in Req \ {r} : /\ pc'[q] = pc[q] /\ sess'[q] = sess[q]
                               /\ lastCall'[q] = "none"
      BY <1>8 DEF KillJob, JobControl, TypeOK
    <2>3. SessionByPlace(r)'
      BY <1>8, FreshSessionsTyped DEF KillJob, JobControl, TypeOK, SessionByPlace, Placed, Ready, JobCalls
    <2> QED
      BY <2>1, <2>2, <2>3, OthersKept
  <1>9. ASSUME NEW r \in Req, SuspendJob(r) PROVE IInv'
    <2>1. TypeOK'
      <3>1. inp[r].job \in Job
        BY InputsTyped DEF TypeOK
      <3>2. jq' \in [Job -> Place] /\ susp' \in [Job -> BOOLEAN]
        BY <1>9, <3>1 DEF SuspendJob, JobControl, TypeOK, Place, BackendQueues
      <3>3. pc' \in [Req -> PC] /\ resp' \in [Req -> Codes]
            /\ lastCall' \in [Req -> Calls]
        BY <1>9 DEF SuspendJob, JobControl, TypeOK, PC, Codes, Calls
      <3> QED
        BY <1>9, <3>2, <3>3 DEF SuspendJob, JobControl, TypeOK
    <2>2. \A q \in Req \ {r} : /\ pc'[q] = pc[q] /\ sess'[q] = sess[q]
                               /\ lastCall'[q] = "none"
      BY <1>9 DEF SuspendJob, JobControl, TypeOK
    <2>3. SessionByPlace(r)'
      BY <1>9, FreshSessionsTyped DEF SuspendJob, JobControl, TypeOK, SessionByPlace, Placed, Ready, JobCalls
    <2> QED
      BY <2>1, <2>2, <2>3, OthersKept
  <1>10. ASSUME NEW r \in Req, ResumeJob(r) PROVE IInv'
    <2>1. TypeOK'
      <3>1. inp[r].job \in Job
        BY InputsTyped DEF TypeOK
      <3>2. jq' \in [Job -> Place] /\ susp' \in [Job -> BOOLEAN]
        BY <1>10, <3>1 DEF ResumeJob, JobControl, TypeOK, Place, BackendQueues
      <3>3. pc' \in [Req -> PC] /\ resp' \in [Req -> Codes]
            /\ lastCall' \in [Req -> Calls]
        BY <1>10 DEF ResumeJob, JobControl, TypeOK, PC, Codes, Calls
      <3> QED
        BY <1>10, <3>2, <3>3 DEF ResumeJob, JobControl, TypeOK
    <2>2. \A q \in Req \ {r} : /\ pc'[q] = pc[q] /\ sess'[q] = sess[q]
                               /\ lastCall'[q] = "none"
      BY <1>10 DEF ResumeJob, JobControl, TypeOK
    <2>3. SessionByPlace(r)'
      BY <1>10, FreshSessionsTyped DEF ResumeJob, JobControl, TypeOK, SessionByPlace, Placed, Ready, JobCalls
    <2> QED
      BY <2>1, <2>2, <2>3, OthersKept
  <1>11. ASSUME NEW r \in Req, WaitForJob(r) PROVE IInv'
    <2>1. TypeOK'
      BY <1>11, InputsTyped, SessionOpsTyped, FreshSessionsTyped, GatewayAssumption
      DEF WaitForJob, TypeOK, Codes, PC, Calls, Place, BackendQueues
    <2>2. \A q \in Req \ {r} : /\ pc'[q] = pc[q] /\ sess'[q] = sess[q]
                               /\ lastCall'[q] = "none"
      BY <1>11 DEF WaitForJob, TypeOK
    <2>3. SessionByPlace(r)'
      BY <1>11, FreshSessionsTyped DEF WaitForJob, TypeOK, SessionByPlace, Placed, Ready, JobCalls
    <2> QED
      BY <2>1, <2>2, <2>3, OthersKept
  <1>12. ASSUME NEW r \in Req, Exit(r) PROVE IInv'
    <2>1. TypeOK'
      BY <1>12, InputsTyped, SessionOpsTyped, FreshSessionsTyped, GatewayAssumption
      DEF Exit, TypeOK, Codes, PC, Calls, Place, BackendQueues
    <2>2. \A q \in Req \ {r} : /\ pc'[q] = pc[q] /\ sess'[q] = sess[q]
                               /\ lastCall'[q] = "none"
      BY <1>12 DEF Exit, exit, disconnect, TypeOK
    <2>3. SessionByPlace(r)'
      BY <1>12, FreshSessionsTyped DEF Exit, exit, disconnect, TypeOK, SessionByPlace, Placed, Ready, JobCalls
    <2> QED
      BY <2>1, <2>2, <2>3, OthersKept
  <1>13. ASSUME NEW j \in Job, Dispatch(j) PROVE IInv'
    <2>1. TypeOK'
      BY <1>13 DEF Dispatch, reqVars, TypeOK, Place, BackendQueues, Calls
    <2>2. \A q \in Req : SessionByPlace(q)'
      BY <1>13, PlacedNoCall DEF Dispatch, reqVars, SessionByPlace
    <2> QED
      BY <2>1, <2>2
  <1>14. ASSUME NEW j \in Job, ArchiveJob(j) PROVE IInv'
    <2>1. TypeOK'
      BY <1>14 DEF ArchiveJob, reqVars, TypeOK, Place, BackendQueues, Calls
    <2>2. \A q \in Req : SessionByPlace(q)'
      BY <1>14, PlacedNoCall DEF ArchiveJob, reqVars, SessionByPlace
    <2> QED
      BY <2>1, <2>2
  <1>15. ASSUME NEW j \in Job, ExpireJob(j) PROVE IInv'
    <2>1. TypeOK'
      BY <1>15 DEF ExpireJob, reqVars, TypeOK, Place, BackendQueues, Calls
    <2>2. \A q \in Req : SessionByPlace(q)'
      BY <1>15, PlacedNoCall DEF ExpireJob, reqVars, SessionByPlace
    <2> QED
      BY <2>1, <2>2
  <1>16. CASE Served \/ UNCHANGED vars
    BY <1>16 DEF Served, vars, TypeOK, SessionByPlace
  <1> QED
    BY <1>1, <1>2, <1>3, <1>4, <1>5, <1>6, <1>7, <1>8, <1>9, <1>10, <1>11, <1>12, <1>13, <1>14, <1>15, <1>16 DEF Next, Serve, Backend

\* The inductive invariant gives the session discipline of the handlers.
LEMMA IInvDiscipline == IInv => SessionDiscipline
  BY DEF SessionDiscipline, SessionByPlace, Placed

(***************************************************************************)
(* Typing: in every reachable state each handler has a place, a session    *)
(* record, a code and a staged-file count of their types, and every job is *)
(* in one of the backend queues or none (the variables of the handlers of  *)
(* rest_api.py and of PyFaxAPI keep their types whatever the C calls say). *)
(***************************************************************************)
THEOREM TypeCorrect == Spec => []TypeOK
  <1>1. Init => IInv
    BY InitIInv
  <1>2. IInv /\ [Next]_vars => IInv'
    BY NextIInv
  <1>3. IInv => TypeOK
    OBVIOUS
  <1> QED
    BY <1>1, <1>2, <1>3, PTL DEF Spec

(***************************************************************************)
(* Session discipline of the REST handlers, for any number of requests and *)
(* jobs: a handler makes a job call (submit, query, kill, suspend, resume, *)
(* wait) only on a live, connected and logged-in PyFaxAPI, and a finished  *)
(* handler has disconnected and destroyed its handle (the early returns    *)
(* after a failed connect or login in rest_api.py skip the job call, and   *)
(* the with-block's __exit__ always runs).                                 *)
(***************************************************************************)
THEOREM SessionsDisciplined == Spec => []SessionDiscipline
  <1>1. Init => IInv
    BY InitIInv
  <1>2. IInv /\ [Next]_vars => IInv'
    BY NextIInv
  <1>3. IInv => SessionDiscipline
    BY IInvDiscipline
  <1> QED
    BY <1>1, <1>2, <1>3, PTL DEF Spec


=============================================================================
