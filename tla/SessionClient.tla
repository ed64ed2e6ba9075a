---------------------------- MODULE SessionClient ----------------------------
(***************************************************************************)
(* One PyFaxAPI object used as a library: a client may call its methods   *)
(* in any order, as the __main__ example and any program importing pyfax  *)
(* can.  Nothing stops a method call after the "with" block has exited,   *)
(* nor a second "with api:" on the same object (__enter__ only returns    *)
(* self).  lastCall records the C function the last method called, so    *)
(* that properties can say which calls reach the backend in which state  *)
(* of the object.                                                         *)
(***************************************************************************)
EXTENDS FaxSession

VARIABLES
    api,        \* the object's handle and flags
    lastCall    \* the C function called by the last method, or "none"

vars == <<api, lastCall>>

Calls == {"none", "connect", "disconnect", "login", "submit", "query",
          "kill", "suspend", "resume", "wait", "destroy"}
ControlCalls == {"kill", "suspend", "resume", "wait"}

TypeOK ==
    /\ api \in SessionState
    /\ lastCall \in Calls

\* __init__ keeps whatever fax_api_create returns: a handle, or NULL
\* (None to ctypes), which is never checked.
Init ==
    /\ api \in {PyFaxAPI, [PyFaxAPI EXCEPT !.h = "null"]}
    /\ lastCall = "none"

\* connect(): fax_api_connect, whose result becomes self.connected.
Connect ==
    /\ \E ok \in BOOLEAN : api' = connect(api, ok)
    /\ lastCall' = "connect"

\* disconnect(): calls fax_api_disconnect only when self.connected.
Disconnect ==
    /\ api' = disconnect(api)
    /\ lastCall' = IF api.connected THEN "disconnect" ELSE "none"

\* login(): fax_api_login is called in any state; the backend can only
\* authenticate a connected handle.
Login ==
    /\ \E ok \in IF api.connected THEN BOOLEAN ELSE {FALSE} :
          api' = login(api, ok)
    /\ lastCall' = "login"

\* send_fax() and get_job_status() return early unless both flags are set.
SendFax ==
    /\ lastCall' = IF Ready(api) THEN "submit" ELSE "none"
    /\ UNCHANGED api

GetJobStatus ==
    /\ lastCall' = IF Ready(api) THEN "query" ELSE "none"
    /\ UNCHANGED api

\* kill_job, suspend_job, resume_job, wait_for_job: the C call is made
\* whatever the flags say.
ControlJob ==
    /\ \E c \in ControlCalls : lastCall' = c
    /\ UNCHANGED api

\* __exit__: disconnect(), then fax_api_destroy; api_instance is kept, so
\* hasattr(self, 'api_instance') holds on every later __exit__ too.
Exit ==
    /\ api' = exit(api)
    /\ lastCall' = "destroy"

Next ==
    \/ Connect \/ Disconnect \/ Login
    \/ SendFax \/ GetJobStatus \/ ControlJob
    \/ Exit

Spec == Init /\ [][Next]_vars

-----------------------------------------------------------------------------
(***************************************************************************)
(* Spec 4.1, 4.5 and 8: the object reaches the backend only in the state   *)
(* the call needs.  login() while not connected, and kill, suspend, resume *)
(* or wait on a session that is not authenticated, must fail at once      *)
(* without a backend call.                                                 *)
(***************************************************************************)
CallsNeedSession ==
    /\ lastCall = "login" => api.connected
    /\ lastCall \in ControlCalls => Ready(api)

(***************************************************************************)
(* Spec 3: authenticated => connected, whatever sequence of connect,       *)
(* login and disconnect calls the object has seen.                         *)
(***************************************************************************)
LoggedInImpliesConnected == api.logged_in => api.connected

(***************************************************************************)
(* Spec 4.1 teardown: the backend handle is released exactly once, and no  *)
(* C call follows its release.  __exit__ leaves api_instance in place and  *)
(* no method looks at it, so a second "with" block on the same object      *)
(* calls fax_api_destroy again, and a method called after the block passes *)
(* the freed handle to the C library.                                      *)
(***************************************************************************)
NoCallAfterRelease == [][lastCall' # "none" => api.h # "destroyed"]_vars

(***************************************************************************)
(* Spec 6 (create(host) -> handle): every C call is made on a handle       *)
(* fax_api_create returned.  __init__ stores its result without a check,   *)
(* so a NULL from fax_api_create reaches every later C call.              *)
(***************************************************************************)
NoCallOnNullHandle == [][lastCall' # "none" => api.h # "null"]_vars

=============================================================================
