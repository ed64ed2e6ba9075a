--------------------------- MODULE SessionContract ---------------------------
(***************************************************************************)
(* What spec.md section 4.1 promises of one Session, from the outside: the *)
(* state machine Unconnected -> Connected -> Authenticated, disconnect     *)
(* back to Unconnected, operations only when Authenticated, and the        *)
(* teardown that releases the backend handle exactly once.  call is the    *)
(* backend call the last step made ("none" for a step that made none).    *)
(***************************************************************************)
VARIABLES state, call

vars == <<state, call>>

States == {"unconnected", "connected", "authenticated", "released"}

\* The calls a Session makes once authenticated: submit, query, control.
Operations == {"submit", "query", "kill", "suspend", "resume", "wait"}

TypeOK ==
    /\ state \in States
    /\ call \in Operations \cup {"none", "connect", "login", "destroy"}

Init ==
    /\ state = "unconnected"
    /\ call = "none"

\* connect() is valid only from Unconnected; a failure leaves it there.
Connect ==
    /\ state = "unconnected"
    /\ state' \in {"connected", "unconnected"}
    /\ call' = "connect"

\* login() is valid only from Connected; a failure leaves it there.
Login ==
    /\ state = "connected"
    /\ state' \in {"authenticated", "connected"}
    /\ call' = "login"

\* Submission, query and control require Authenticated.
Operate ==
    /\ state = "authenticated"
    /\ call' \in Operations
    /\ UNCHANGED state

\* Teardown on scope exit: disconnect, then release the handle, once.
Release ==
    /\ state # "released"
    /\ state' = "released"
    /\ call' = "destroy"

\* A step of the owner that makes no backend call.
Idle ==
    /\ call' = "none"
    /\ UNCHANGED state

Next == Connect \/ Login \/ Operate \/ Release \/ Idle

Spec == Init /\ [][Next]_vars

=============================================================================
