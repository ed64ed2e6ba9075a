----------------------------- MODULE FaxSession -----------------------------
(***************************************************************************)
(* The PyFaxAPI object of src/api/pyfax.py, as operators on its state.     *)
(*                                                                         *)
(* A session is the record [h, connected, logged_in]: h is the state of    *)
(* the C handle made by fax_api_create ("none" before the constructor,     *)
(* "null" when fax_api_create returned NULL, "live" until __exit__ calls   *)
(* fax_api_destroy, "destroyed" after), and                                *)
(* connected / logged_in are the two Python flags the methods keep.        *)
(* The outcome of each C call (success or failure) is a parameter: the C   *)
(* library is outside src/ and its answers are chosen by the callers.      *)
(***************************************************************************)
EXTENDS Naturals

CONSTANT MaxJobs    \* max_jobs: the capacity of the FaxJobInfo array (1000)

ASSUME MaxJobsAssumption == MaxJobs \in Nat \ {0}

HandleState == {"none", "null", "live", "destroyed"}

SessionState == [h : HandleState, connected : BOOLEAN, logged_in : BOOLEAN]

\* No PyFaxAPI object exists yet.
NoSession == [h |-> "none", connected |-> FALSE, logged_in |-> FALSE]

\* __init__: fax_api_create, then connected = logged_in = False.
PyFaxAPI == [h |-> "live", connected |-> FALSE, logged_in |-> FALSE]

\* connect(): self.connected = success. logged_in is left as it was.
connect(s, ok) == [s EXCEPT !.connected = ok]

\* login(): fax_api_login is called whatever the flags say, then
\* self.logged_in = success.
login(s, ok) == [s EXCEPT !.logged_in = ok]

\* disconnect(): only when connected does it call fax_api_disconnect and
\* clear both flags; otherwise it returns True and changes nothing.
disconnect(s) ==
    IF s.connected
    THEN [s EXCEPT !.connected = FALSE, !.logged_in = FALSE]
    ELSE s

\* The guard of send_fax and get_job_status: both flags set.
Ready(s) == s.connected /\ s.logged_in

\* __exit__: disconnect(), then fax_api_destroy on the handle.  Destroying
\* a live handle frees it; fax_api_destroy(NULL) frees nothing, and the
\* object still holds NULL.
exit(s) == [disconnect(s) EXCEPT !.h = IF s.h = "live" THEN "destroyed" ELSE s.h]

(***************************************************************************)
(* Conversions in send_fax that can raise before the C call.               *)
(* Options: setattr of a str value (encoded to bytes) or of a number on a  *)
(* field of another C type raises TypeError ("mistyped").  Destinations:   *)
(* len() of a JSON number raises TypeError, dest.encode on a number in    *)
(* the list raises AttributeError; a JSON string is iterated character by *)
(* character and passes.                                                   *)
(***************************************************************************)
MarshalRaises(opt) == opt = "mistyped"

DestRaises(dst) == dst \in {"number", "numlist"}

(***************************************************************************)
(* get_job_status: the C call reports a count c; the loop                  *)
(* "for i in range(c): jobs_array[i]" indexes a ctypes array of MaxJobs    *)
(* entries, which raises IndexError as soon as c exceeds MaxJobs.          *)
(***************************************************************************)
QueryRaises(c) == c > MaxJobs

=============================================================================
