----------------------------- MODULE MC_Gateway -----------------------------
(***************************************************************************)
(* Instances of Gateway for TLC: the request mixes of the runs.            *)
(***************************************************************************)
EXTENDS Gateway, TLC

\* A request with the given fields; the others have their valid value.
Form(op, j, q, d, o, n) ==
    [op |-> op, job |-> j, queue |-> q, files |-> "named",
     nfiles |-> n, dst |-> d, opt |-> o]

JobReq(op, j) == Form(op, j, "send", "list", "ok", 1)
Status(q) == Form("status", CHOOSE j \in Job : TRUE, q, "list", "ok", 1)
Send(d, o, n) == Form("send", CHOOSE j \in Job : TRUE, "send", d, o, n)

\* Every handler, with a malformed and a well-formed input, but not both
\* suspend and wait (a wait on a job suspended by another request blocks
\* its thread for good).
SessionInputs ==
    {JobReq(o, j) : o \in {"health", "info", "kill", "suspend", "resume"},
                    j \in Job}
    \cup {Status("send"), Status("bogus"), Send("list", "ok", 1),
          Send("list", "mistyped", 1), Send("numlist", "ok", 1),
          Send("empty", "ok", 1)}

\* Lookups racing kills, submissions and the scheduler.
LookupInputs ==
    {JobReq(o, j) : o \in {"info", "kill"}, j \in Job} \cup {Send("list", "ok", 1)}

\* Handlers that can block or loop: waits, lookups, kills, no suspend.
AnsweredInputs ==
    {JobReq(o, j) : o \in {"wait", "info", "kill", "resume"}, j \in Job}
    \cup {Status("send"), Send("list", "ok", 1)}

LeakInputs == {Send("list", "ok", 2)}
TextDestInputs == {Send("text", "ok", 1)}
OverflowInputs == {Status("send")}

ReqSymmetry == Permutations(Req)

=============================================================================
