-------------------------- MODULE RefinementProofs --------------------------
(***************************************************************************)
(* Proof that the REST handlers implement the Session contract of spec 4.1 *)
(* (SessionContractRefined): under the mapping ContractState, every step   *)
(* of Gateway is, for each request r, a step of Contract(r) or leaves r's  *)
(* Session and its last call unchanged.                                    *)
(***************************************************************************)
EXTENDS GatewayProofs

\* A step of another handler or of the backend leaves r's object alone and
\* makes no C call for r.
LEMMA OthersFrame ==
    ASSUME TypeOK, NEW a \in Req, Serve(a), NEW r \in Req, r # a
    PROVE  sess'[r] = sess[r] /\ lastCall'[r] = "none"
  BY DEF Serve, TypeOK, Called, NoCall, SendValidate, StatusValidate,
         Connect, Login, Exit, SendOp, StatusOp, LookupStep, KillJob,
         SuspendJob, ResumeJob, JobControl, WaitForJob

\* Such a step is an Idle step of r's Session.
LEMMA IdleStep ==
    ASSUME NEW r \in Req, sess'[r] = sess[r], lastCall'[r] = "none"
    PROVE  Contract(r)!Idle
  BY DEF Contract!Idle

\* A step in which r makes one of the job calls on its ready object is an
\* Operate step of r's Session.
LEMMA OperateStep ==
    ASSUME NEW r \in Req, sess[r] \in SessionState, SessionByPlace(r),
           pc[r] = "op", sess'[r] = sess[r], lastCall'[r] \in JobCalls
    PROVE  Contract(r)!Operate
  <1>1. ContractState(sess[r]) = "authenticated"
    BY DEF SessionByPlace, Placed, ContractState, Ready
  <1>2. ContractState(sess'[r]) = ContractState(sess[r])
    OBVIOUS
  <1> QED
    BY <1>1, <1>2 DEF Contract!Operate, Contract!Operations, JobCalls

\* Each step of Gateway is, for request r, a step of its Session contract.
LEMMA StepRefines ==
    ASSUME IInv, [Next]_vars, NEW r \in Req
    PROVE  [Contract(r)!Next]_(Contract(r)!vars)
  <1> USE DEF IInv
  <1>0. sess[r] \in SessionState /\ SessionByPlace(r)
    BY DEF TypeOK
  <1>1. CASE \E a \in Req \ {r} : Serve(a)
    BY <1>1, OthersFrame, IdleStep DEF Contract!Next
  <1>2. CASE \E j \in Job : Backend(j)
    <2>1. sess'[r] = sess[r] /\ lastCall'[r] = "none"
      BY <1>2 DEF Backend, Dispatch, ArchiveJob, ExpireJob, reqVars, NoCall
    <2> QED
      BY <2>1, IdleStep DEF Contract!Next
  <1>3. CASE Served \/ UNCHANGED vars
    BY <1>3 DEF Served, vars, Contract!vars
  <1>4. CASE SendValidate(r) \/ StatusValidate(r)
    <2>1. sess'[r] = sess[r] /\ lastCall'[r] = "none"
      BY <1>4 DEF SendValidate, StatusValidate, NoCall
    <2> QED
      BY <2>1, IdleStep DEF Contract!Next
  <1>5. CASE Connect(r)
    <2>1. sess[r] = NoSession
      BY <1>5 DEF Connect, SessionByPlace, Placed
    <2>2. PICK ok \in BOOLEAN : sess' = [sess EXCEPT ![r] = connect(PyFaxAPI, ok)]
      BY <1>5 DEF Connect
    <2>3. /\ sess'[r] = [h |-> "live", connected |-> ok, logged_in |-> FALSE]
          /\ lastCall'[r] = "connect"
      BY <1>5, <2>2 DEF Connect, Called, connect, PyFaxAPI, TypeOK
    <2>4. Contract(r)!Connect
      BY <2>1, <2>3 DEF Contract!Connect, ContractState, Ready, NoSession
    <2> QED
      BY <2>4 DEF Contract!Next
  <1>6. CASE Login(r)
    <2>1. sess[r].h = "live" /\ sess[r].connected /\ ~sess[r].logged_in
      BY <1>6 DEF Login, SessionByPlace, Placed
    <2>2. PICK ok \in BOOLEAN : sess' = [sess EXCEPT ![r] = login(sess[r], ok)]
      BY <1>6 DEF Login
    <2>3. /\ sess'[r] = [sess[r] EXCEPT !.logged_in = ok]
          /\ lastCall'[r] = "login"
      BY <1>6, <2>2 DEF Login, Called, login, TypeOK
    <2>4. Contract(r)!Login
      BY <1>0, <2>1, <2>3 DEF Contract!Login, ContractState, Ready, SessionState
    <2> QED
      BY <2>4 DEF Contract!Next
  <1>7. CASE Exit(r)
    <2>1. sess[r].h = "live"
      BY <1>7 DEF Exit, SessionByPlace, Placed
    <2>2. sess'[r].h = "destroyed" /\ lastCall'[r] = "destroy"
      BY <1>0, <1>7, <2>1 DEF Exit, Called, exit, disconnect, TypeOK, SessionState
    <2>3. ContractState(sess[r]) # "released" /\ ContractState(sess'[r]) = "released"
      BY <2>1, <2>2 DEF ContractState, Ready
    <2>4. Contract(r)!Release
      BY <2>2, <2>3 DEF Contract!Release
    <2> QED
      BY <2>4 DEF Contract!Next
  <1>8. CASE SendOp(r)
    <2>1. pc[r] = "op" /\ sess'[r] = sess[r]
      BY <1>8 DEF SendOp
    <2>2. lastCall'[r] \in {"none", "submit"}
      BY <1>8 DEF SendOp, NoCall, Called
    <2> QED
      BY <1>0, <2>1, <2>2, OperateStep, IdleStep DEF Contract!Next, JobCalls
  <1>9. CASE StatusOp(r) \/ LookupStep(r) \/ WaitForJob(r)
    <2>1. pc[r] = "op" /\ sess'[r] = sess[r] /\ lastCall'[r] \in JobCalls
      BY <1>9 DEF StatusOp, LookupStep, WaitForJob, Called, JobCalls
    <2> QED
      BY <1>0, <2>1, OperateStep DEF Contract!Next
  <1>10. CASE KillJob(r) \/ SuspendJob(r) \/ ResumeJob(r)
    <2>1. pc[r] = "op" /\ sess'[r] = sess[r] /\ lastCall'[r] \in JobCalls
      BY <1>10 DEF KillJob, SuspendJob, ResumeJob, JobControl, Called, JobCalls
    <2> QED
      BY <1>0, <2>1, OperateStep DEF Contract!Next
  <1> QED
    BY <1>1, <1>2, <1>3, <1>4, <1>5, <1>6, <1>7, <1>8, <1>9, <1>10
    DEF Next, Serve

(***************************************************************************)
(* The REST handlers implement the Session contract of spec 4.1, for any   *)
(* number of concurrent requests: each handler's PyFaxAPI object starts    *)
(* Unconnected, is connected before login, logged in before any submit,    *)
(* query or control call, and released exactly once by __exit__, on every *)
(* exit path (the early returns after a failed connect or login included). *)
(***************************************************************************)
THEOREM ContractRefined == Spec => SessionContractRefined
  <1>1. Init => \A r \in Req : Contract(r)!Init
    BY DEF Init, Contract!Init, ContractState, Ready, NoSession
  <1>2. IInv /\ [Next]_vars => [\A r \in Req : [Contract(r)!Next]_(Contract(r)!vars)]_vars
    BY StepRefines
  <1> QED
    BY <1>1, <1>2, InitIInv, NextIInv, PTL DEF Spec, SessionContractRefined

=============================================================================
