---------------------------- MODULE LookupProofs ----------------------------
(***************************************************************************)
(* Proof that get_job_info never answers 404 for a job that stayed in the  *)
(* backend queues while it searched, unless a query failed or was cut      *)
(* short (JobLookupComplete), for any number of requests and jobs.        *)
(*                                                                         *)
(* The argument: a job only moves forward through the queues in the order  *)
(* LookupOrder searches them (none -> send -> done -> archive or gone), so *)
(* while the search is still "clean" the job is never in a queue the loop *)
(* has already passed.                                                    *)
(***************************************************************************)
EXTENDS GatewayProofs

\* The position of a backend queue in get_job_info's search order.
Rank == [q \in BackendQueues |-> IF q = "send" THEN 1
                                  ELSE IF q = "done" THEN 2 ELSE 3]

\* Request r is a job lookup whose queries so far all found the job in some
\* backend queue, and none failed or was cut short.
Clean(r) == inp[r].op = "info" /\ held[r] /\ ~lost[r]

\* What a clean lookup knows at each place of its handler.
LookupProgress(r) ==
    LET j == inp[r].job IN
    /\ Clean(r) /\ pc[r] \in {"start", "connect", "login"} =>
          qi[r] = 1 /\ resp[r] = 0
    /\ Clean(r) /\ pc[r] = "op" =>
          /\ resp[r] = 0
          /\ qi[r] > 1 => jq[j] # "none"
          /\ jq[j] \in BackendQueues => Rank[jq[j]] >= qi[r]
    /\ Clean(r) /\ pc[r] \in {"exit", "done"} => resp[r] # 404

LInv == IInv /\ \A r \in Req : LookupProgress(r)

\* A job's queue moves only forward in LookupOrder: submitted, then sent
\* (or killed), then archived or expired.
Forward(a, b) ==
    \/ b = a
    \/ a = "none" /\ b = "send"
    \/ a = "send" /\ b = "done"
    \/ a = "done" /\ b \in {"archive", "gone"}

\* The part of request r's state that LookupProgress reads, besides jq.
Local(r) == <<pc[r], resp[r], qi[r], held[r], lost[r]>>

-----------------------------------------------------------------------------
\* Rank inverts LookupOrder.
LEMMA RankOrder ==
    /\ \A q \in BackendQueues : Rank[q] \in 1..3 /\ LookupOrder[Rank[q]] = q
    /\ \A k \in 1..3 : LookupOrder[k] \in BackendQueues
                       /\ Rank[LookupOrder[k]] = k
  BY DEF Rank, LookupOrder, BackendQueues

\* Every step leaves the requests themselves alone.
LEMMA InpKept == [Next]_vars => inp' = inp
  BY DEF Next, Serve, Backend, Served, vars, reqVars, SendValidate,
         StatusValidate, Connect, Login, Exit, SendOp, StatusOp, LookupStep,
         KillJob, SuspendJob, ResumeJob, JobControl, WaitForJob, Dispatch,
         ArchiveJob, ExpireJob

\* Every step moves each job forward or leaves it where it is.
LEMMA JqForward ==
    ASSUME TypeOK, [Next]_vars, NEW j \in Job
    PROVE  Forward(jq[j], jq'[j])
  <1>1. CASE \E a \in Req : SendOp(a)
    BY <1>1 DEF SendOp, Forward, TypeOK
  <1>2. CASE \E a \in Req : KillJob(a)
    BY <1>2 DEF KillJob, JobControl, Forward, TypeOK
  <1>3. CASE \E a \in Req : SuspendJob(a) \/ ResumeJob(a)
    BY <1>3 DEF SuspendJob, ResumeJob, JobControl, Forward
  <1>4. CASE \E a \in Req : \/ SendValidate(a) \/ StatusValidate(a)
                            \/ Connect(a) \/ Login(a) \/ Exit(a)
                            \/ StatusOp(a) \/ LookupStep(a) \/ WaitForJob(a)
    BY <1>4 DEF SendValidate, StatusValidate, Connect, Login, Exit, StatusOp,
                LookupStep, WaitForJob, Forward
  <1>5. CASE \E k \in Job : Backend(k)
    BY <1>5 DEF Backend, Dispatch, ArchiveJob, ExpireJob, Forward, TypeOK
  <1>6. CASE Served \/ UNCHANGED vars
    BY <1>6 DEF Served, vars, Forward
  <1> QED
    BY <1>1, <1>2, <1>3, <1>4, <1>5, <1>6 DEF Next, Serve

\* A step of another request's handler leaves r's handler state alone.
LEMMA OthersLocal ==
    ASSUME TypeOK, NEW a \in Req, Serve(a), NEW r \in Req, r # a
    PROVE  Local(r)' = Local(r)
  BY DEF Serve, Local, TypeOK, Answer, Goto, Advance, SendValidate,
         StatusValidate, Connect, Login, Exit, SendOp, StatusOp, LookupStep,
         KillJob, SuspendJob, ResumeJob, JobControl, WaitForJob

\* A step that leaves r's handler alone and moves jobs only forward keeps
\* what r's lookup knows.
LEMMA FrameProgress ==
    ASSUME NEW r \in Req, TypeOK, LookupProgress(r),
           inp' = inp, Local(r)' = Local(r),
           \A j \in Job : Forward(jq[j], jq'[j])
    PROVE  LookupProgress(r)'
  <1>1. inp[r].job \in Job
    BY InputsTyped DEF TypeOK
  <1>2. /\ pc'[r] = pc[r] /\ resp'[r] = resp[r] /\ qi'[r] = qi[r]
        /\ held'[r] = held[r] /\ lost'[r] = lost[r]
    BY DEF Local
  <1>3. Forward(jq[inp[r].job], jq'[inp[r].job])
    BY <1>1
  <1> QED
    BY <1>2, <1>3 DEF LookupProgress, Clean, Forward, Rank, BackendQueues, TypeOK


\* Every handler starts with a clean, unsearched lookup state.
LEMMA InitLInv == Init => LInv
  <1> SUFFICES ASSUME Init PROVE LInv
    OBVIOUS
  <1>1. IInv
    BY InitIInv
  <1>2. \A r \in Req : LookupProgress(r)
    BY DEF Init, LookupProgress, Clean, Validating
  <1> QED
    BY <1>1, <1>2 DEF LInv

\* One query of get_job_info keeps what a clean lookup knows.
LEMMA LookupStepProgress ==
    ASSUME NEW r \in Req, TypeOK, LookupProgress(r), LookupStep(r)
    PROVE  LookupProgress(r)'
  <1> DEFINE j == inp[r].job
             q == LookupOrder[qi[r]]
  <1>1. /\ j \in Job /\ qi[r] \in 1..3 /\ q \in BackendQueues
        /\ pc[r] = "op" /\ inp[r].op = "info" /\ inp' = inp /\ jq' = jq
    BY RankOrder, InputsTyped DEF LookupStep, TypeOK
  <1>2. held'[r] = (held[r] /\ jq[j] \in BackendQueues)
    BY <1>1 DEF LookupStep, TypeOK
  <1>3. PICK ok \in BOOLEAN, c \in Reported(q) :
          LET listed == ok /\ ~QueryRaises(c) /\ jq[j] = q
              cut    == ok /\ c < Count(q)
          IN /\ lost' = [lost EXCEPT ![r] = lost[r] \/ ~ok \/ cut]
             /\ \E found \in IF listed /\ cut THEN BOOLEAN ELSE {listed} :
                  IF ok /\ QueryRaises(c)
                  THEN Answer(r, 500) /\ Goto(r, "exit") /\ UNCHANGED qi
                  ELSE IF found
                  THEN Answer(r, 200) /\ Goto(r, "exit") /\ UNCHANGED qi
                  ELSE IF LastQueue(r)
                  THEN Answer(r, 404) /\ Goto(r, "exit") /\ UNCHANGED qi
                  ELSE Advance(r) /\ UNCHANGED <<resp, pc>>
    BY DEF LookupStep
  <1> DEFINE listed == ok /\ ~QueryRaises(c) /\ jq[j] = q
             cut    == ok /\ c < Count(q)
  <1>4. lost'[r] = (lost[r] \/ ~ok \/ cut)
    BY <1>3 DEF TypeOK
  <1>5. SUFFICES ASSUME Clean(r)' PROVE LookupProgress(r)'
    BY <1>1 DEF LookupProgress
  <1>6. /\ Clean(r) /\ jq[j] \in BackendQueues /\ ok /\ ~cut
        /\ Rank[jq[j]] >= qi[r] /\ resp[r] = 0
    BY <1>1, <1>2, <1>4, <1>5 DEF Clean, LookupProgress
  <1>7. PICK found \in IF listed /\ cut THEN BOOLEAN ELSE {listed} :
          IF ok /\ QueryRaises(c)
          THEN Answer(r, 500) /\ Goto(r, "exit") /\ UNCHANGED qi
          ELSE IF found
          THEN Answer(r, 200) /\ Goto(r, "exit") /\ UNCHANGED qi
          ELSE IF LastQueue(r)
          THEN Answer(r, 404) /\ Goto(r, "exit") /\ UNCHANGED qi
          ELSE Advance(r) /\ UNCHANGED <<resp, pc>>
    BY <1>3
  <1>8. found = listed
    BY <1>6, <1>7
  <1>9. CASE ok /\ QueryRaises(c)
    BY <1>1, <1>5, <1>7, <1>9 DEF LookupProgress, Answer, Goto, TypeOK
  <1>10. CASE ~(ok /\ QueryRaises(c)) /\ found
    BY <1>1, <1>5, <1>7, <1>10 DEF LookupProgress, Answer, Goto, TypeOK
  <1>11. CASE ~(ok /\ QueryRaises(c)) /\ ~found
    <2>1. jq[j] # q
      BY <1>6, <1>8, <1>11
    <2>2. Rank[jq[j]] > qi[r]
      BY <1>1, <1>6, <2>1, RankOrder
    <2>3. ~LastQueue(r)
      BY <1>1, <1>6, <2>2, RankOrder DEF LastQueue, LookupOrder
    <2>4. /\ qi' = [qi EXCEPT ![r] = qi[r] + 1] /\ resp' = resp /\ pc' = pc
      BY <1>7, <1>11, <2>3 DEF Advance
    <2>5. /\ pc'[r] = "op" /\ resp'[r] = 0 /\ qi'[r] = qi[r] + 1
          /\ inp'[r].job = j /\ jq'[j] = jq[j] /\ jq[j] # "none"
      BY <1>1, <1>6, <2>4 DEF TypeOK, BackendQueues
    <2>6. jq'[j] \in BackendQueues => Rank[jq'[j]] >= qi'[r]
      BY <1>1, <1>6, <2>2, <2>5, RankOrder
    <2> QED
      BY <2>5, <2>6 DEF LookupProgress
  <1> QED
    BY <1>9, <1>10, <1>11

\* Every step keeps the lookup invariant.
LEMMA NextLInv == LInv /\ [Next]_vars => LInv'
  <1> SUFFICES ASSUME LInv, [Next]_vars PROVE LInv'
    OBVIOUS
  <1>1. IInv'
    BY NextIInv DEF LInv
  <1>2. inp' = inp
    BY InpKept
  <1>3. \A j \in Job : Forward(jq[j], jq'[j])
    BY JqForward DEF LInv, IInv
  <1>4. ASSUME NEW r \in Req PROVE LookupProgress(r)'
    <2> USE DEF LInv, IInv
    <2>1. CASE inp[r].op # "info"
      BY <2>1, <1>2 DEF LookupProgress, Clean
    <2>2. CASE \E a \in Req \ {r} : Serve(a)
      BY <2>2, <1>2, <1>3, OthersLocal, FrameProgress
    <2>3. CASE \E j \in Job : Backend(j)
      <3>1. Local(r)' = Local(r)
        BY <2>3 DEF Backend, Dispatch, ArchiveJob, ExpireJob, reqVars, Local
      <3> QED
        BY <3>1, <1>2, <1>3, FrameProgress
    <2>4. CASE Served \/ UNCHANGED vars
      BY <2>4 DEF Served, vars, LookupProgress, Clean
    <2>5. CASE inp[r].op = "info" /\ Connect(r)
      BY <2>5 DEF Connect, Answer, Goto, LookupProgress, Clean, TypeOK
    <2>6. CASE inp[r].op = "info" /\ Login(r)
      <3>1. /\ pc[r] = "login" /\ inp' = inp /\ UNCHANGED <<qi, held, lost>>
        BY <2>6 DEF Login
      <3>2. CASE pc'[r] = "op"
        <4>1. resp'[r] = resp[r] /\ qi[r] \in 1..3
          BY <2>6, <3>2 DEF Login, Answer, Goto, TypeOK
        <4> QED
          BY <3>1, <4>1, RankOrder DEF LookupProgress, Clean
      <3>3. CASE pc'[r] # "op"
        BY <2>6, <3>1, <3>3 DEF Login, Answer, Goto, LookupProgress, Clean, TypeOK
      <3> QED
        BY <3>2, <3>3
    <2>7. CASE inp[r].op = "info" /\ Exit(r)
      BY <2>7 DEF Exit, Goto, LookupProgress, Clean, TypeOK
    <2>8. CASE LookupStep(r)
      BY <2>8, LookupStepProgress
    <2>9. CASE inp[r].op = "info" /\
               \/ SendValidate(r) \/ StatusValidate(r) \/ SendOp(r)
               \/ StatusOp(r) \/ KillJob(r) \/ SuspendJob(r)
               \/ ResumeJob(r) \/ WaitForJob(r)
      BY <2>9 DEF SendValidate, StatusValidate, SendOp, StatusOp, KillJob,
                  SuspendJob, ResumeJob, JobControl, WaitForJob
    <2> QED
      BY <2>1, <2>2, <2>3, <2>4, <2>5, <2>6, <2>7, <2>8, <2>9 DEF Next, Serve
  <1> QED
    BY <1>1, <1>4 DEF LInv

(***************************************************************************)
(* get_job_info, for every number of concurrent requests and jobs: a job   *)
(* that is in the send, done or archive queue at each of the handler's     *)
(* queries is never answered 404, unless one of its get_job_status calls   *)
(* failed (read as []) or was cut short, whatever the scheduler, archiving *)
(* and the kill, submit, suspend and resume requests do in between.       *)
(***************************************************************************)
THEOREM LookupComplete == Spec => []JobLookupComplete
  <1>1. Init => LInv
    BY InitLInv
  <1>2. LInv /\ [Next]_vars => LInv'
    BY NextLInv
  <1>3. LInv => JobLookupComplete
    BY DEF LInv, LookupProgress, Clean, JobLookupComplete
  <1> QED
    BY <1>1, <1>2, <1>3, PTL DEF Spec

=============================================================================
