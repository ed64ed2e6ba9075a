# Verification of the HylaFAX Python API and REST gateway

This directory holds TLA+ models of `src/api/pyfax.py` and `src/api/rest_api.py`. It also holds TLC configurations that check them on small instances, and TLAPS proofs that establish the main safety properties, and the refinement of the spec's session contract, for every size of system.

## The system

- **`PyFaxAPI`** (`pyfax.py`) wraps the C library `libhylafax_api` through ctypes.
  - An object owns one C handle. `__init__` calls `fax_api_create`; `__exit__` calls `disconnect()` and then `fax_api_destroy`.
  - It keeps two Python flags: `connected` and `logged_in`.
  - `send_fax` and `get_job_status` return early unless both flags are set.
  - `kill_job`, `suspend_job`, `resume_job` and `wait_for_job` call the C library whatever the flags say.
  - `get_job_status` passes a 1000-entry `FaxJobInfo` array and a count. It then indexes the array up to the count the library reports.
- **The REST gateway** (`rest_api.py`) is a Flask app. Each request runs on a worker thread.
  - The handler validates its input and opens `with PyFaxAPI(...)`.
  - It connects, then logs in. A failure of either returns 503.
  - It makes its one operation and leaves the `with` block. Any exception becomes a 500.
  - `send_fax` first saves the uploaded files to `UPLOAD_FOLDER` and deletes them after the submission.
  - `get_job_info` looks for a job by querying the send, done and archive queues in turn.
- **The HylaFAX backend** (the C library and the `faxq` scheduler) is not under `src/`. Jobs move from the send queue to done (sent, given up or killed), then to the archive or out of the system. Jobs in the send queue can be suspended and resumed. This part is modelled from `spec.md`, only as far as the handlers observe it.

Requests interact only through the backend. Each handler has its own `PyFaxAPI` object, but all of them see the same job queues. Meanwhile the scheduler moves jobs on its own.

## Modules

| Module | Models |
|---|---|
| `FaxSession` | The state of a `PyFaxAPI` object as a record `[h, connected, logged_in]`, and the operators of its methods (`connect`, `login`, `disconnect`, `exit`). It also defines the conversions in `send_fax` and `get_job_status` that raise (`MarshalRaises`, `DestRaises`, `QueryRaises`). The constant `MaxJobs` is the capacity of the job array. |
| `SessionClient` | One `PyFaxAPI` object used as a library, with its methods called in any order until `__exit__`. `lastCall` records which C function the last method called. |
| `Gateway` | The REST handlers of any set `Req` of concurrent requests over a set `Job` of backend jobs, plus the backend's own steps. |
| `SessionContract` | The abstract session of `spec.md` section 4.1: Unconnected, Connected, Authenticated, then Released once. It has one variable for the state and one for the backend call a step makes. It models the spec, not code. |
| `OptionsMarshaller` | The options loop of `send_fax` (pyfax.py 239-247): the `hasattr` filter, the str encoding, and what ctypes does with each JSON value kind on each kind of `FaxSendOptions` field. |
| `GatewayProofs` | TLAPS proofs about `Gateway`: typing and the session discipline. |
| `LookupProofs` | The TLAPS proof of `JobLookupComplete`. |
| `RefinementProofs` | The TLAPS proof that `Gateway` implements `SessionContract` per request. |
| `MarshallerProofs` | The TLAPS proof of `OptionsMarshaller`'s `TypeOK`. |
| `MC_Gateway`, `MC_SessionClient`, `MC_OptionsMarshaller` | Instantiations for TLC: the input sets and the symmetry. |

### Gateway: state and actions

Per request `r`:

- `pc[r]` is the handler's place:
  - `start`: validating, for send and status;
  - `connect`, `login`;
  - `op`: the operation;
  - `exit`: the `with` block ends;
  - `done`.
- `inp[r]` is the request. It is a record of input *kinds*, not of strings. It holds:
  - the route;
  - the job id;
  - the queue parameter;
  - whether files were sent and named;
  - how many allowed files there are;
  - what `destinations` parses to: bad JSON, empty, a list of strings, a list holding a number, a string or a number;
  - what `options` is: bad JSON, fine, or a value of the wrong type for a C field.
- `sess[r]` is the handler's `PyFaxAPI` object.
- `resp[r]` is the HTTP status code, with 0 for not answered yet.
- `staged[r]` is the number of uploaded files saved and not yet deleted.
- `qi[r]` is the index of the queue `get_job_info` is searching.
- `held[r]` and `lost[r]` are history variables for the lookup property. `held[r]` says the job was in a backend queue at every query so far. `lost[r]` says a query failed or was cut short.

Shared by all requests:

- `jq[j]` is the queue of job `j`: none, send, done, archive or gone.
- `susp[j]` says whether job `j` is suspended.
- `lastCall[r]` is the C function that request `r`'s last step called, with "none" if it called nothing. It is a history variable.

A handler is split into steps at its C calls. The Python code between two calls touches only the thread's own locals, so splitting there loses no interleaving. The actions are:

| Action | Source | What it does |
|---|---|---|
| `SendValidate` | rest_api.py 75-114 | The form checks answer 400. `file.save` fails after k files (500, with k files left behind), or every file is saved. |
| `StatusValidate` | rest_api.py 159-174 | An unknown queue parameter answers 400. |
| `Connect` | rest_api.py 49-62 and each handler's connect | A new object plus `fax_api_connect`. Failure answers 503; `health_check` answers 200 on success. |
| `Login` | each handler's login | `fax_api_login`. Failure answers 503. |
| `SendOp` | rest_api.py 128-148 and pyfax.py 220-279 | Marshalling can raise (500, files kept). Otherwise the submission is accepted (200) or refused (400), and the files are deleted. |
| `StatusOp` | rest_api.py 176-197 and pyfax.py 281-328 | A failed call gives `[]` (200). A count above `MaxJobs` raises IndexError (500). |
| `LookupStep` | rest_api.py 200-234 | One query of the three-queue search. The job is found (200), the search moves to the next queue, or it ends with 404 after the last queue. |
| `KillJob`, `SuspendJob`, `ResumeJob` | rest_api.py 237-315 and pyfax.py 330-358 | One C call. 200 if the backend accepts, else 400. |
| `WaitForJob` | rest_api.py 318-342 | Blocks while the job is queued. 200 once it is done or archived, 400 if it is unknown. |
| `Exit` | pyfax.py 374-378 | `disconnect()` then `fax_api_destroy`. |
| `Dispatch`, `ArchiveJob`, `ExpireJob` | backend (spec) | The scheduler moves a job that is not suspended from send to done. A done job is archived or expires. |

The outcome of every C call is a nondeterministic choice, because the library is outside `src/`. The count `fax_api_get_job_status` reports is `Reported(q)`: either the true count, or the count capped at the array size. The caller never tells the library the array's size, so both are possible.

`Served` is the stuttering step once all requests are answered. A finite batch of requests is meant to end, so this end is not a deadlock.

### SessionClient

Its actions are `Connect`, `Disconnect`, `Login`, `SendFax`, `GetJobStatus`, `ControlJob` and `Exit`. It answers the question of what a program using `pyfax` as a library can make the object do.

- `Init` is `__init__`. It keeps whatever `fax_api_create` returns, a live handle or NULL (`h = "null"`), because the result is never checked (pyfax.py 108).
- `exit` destroys a live handle. `fax_api_destroy(NULL)` frees nothing, so a NULL handle stays NULL (`h = "null"`) and is never counted as released.
- Nothing stops the methods after `Exit`. `__exit__` destroys the handle but leaves `api_instance` set, and Python lets a program call methods on the object after the `with` block or enter it again. So every action stays enabled after `Exit`, and a second `Exit` destroys the handle again.

### OptionsMarshaller

State:

- `options` is the request's options, as the sequence `options.items()`. Its keys are distinct, because it is a dict.
- `items` is the part not yet processed.
- `opts` is the `FaxSendOptions` fields.
- `status` is running, done, or raised.

A key is a field of type char*, int, float or bool, or it is not a field. A non-field key is either a read-only attribute that `hasattr` reports (`__class__`, `_objects`), a writable one (`__doc__`), or unknown. A JSON value is abstracted to its kind and one number.

`Setattr(t, v)` is what ctypes does, as checked against CPython's ctypes:

- char*: bytes are stored as text. `None` and the integer 0 become NULL. Any other integer or boolean becomes a pointer to that address. A float or list raises TypeError.
- int: an int is kept modulo 2^`IntBits` as two's complement, with no error. A bool becomes 0 or 1. Anything else raises.
- float: an int, float or bool is accepted. Anything else raises.
- bool: stores the value's truthiness.
- read-only attribute: raises.

The actions are:

- `Skip`: `hasattr` is false.
- `SetPlain`: the attribute is stored on the Python object and never reaches C.
- `Set`: a field or a read-only attribute. It may raise, which ends the loop.
- `Finish`: the loop ends.
- `Stopped`: stuttering once the loop has finished or raised.

In `Gateway`, this loop is abstracted to its one observable outcome, whether it raises (`MarshalRaises`).

### The session contract and its refinement

`Gateway` defines, for each request `r`:

    Contract(r) == INSTANCE SessionContract
                       WITH state <- ContractState(sess[r]), call <- lastCall[r]

`ContractState` reads the abstract state off the object:

- released once the handle is destroyed;
- authenticated when both flags are set;
- connected when `connected` is set;
- unconnected otherwise.

`SessionContractRefined` says that every request's view behaves as `Contract(r)!Spec`. It is written as `\A r : Contract(r)!Init` together with a box over `\A r : [Contract(r)!Next]_...`, which is the same formula in a form TLC accepts.

## Runs

| Run | cfg | Expect | Checks |
|---|---|---|---|
| sessions | `MC_Gateway_sessions.cfg` | pass | `TypeOK` and `SessionDiscipline`. Two requests of every kind, one job, every connect and login outcome. A handler makes job calls only on a live, connected, logged-in object, and a finished handler has disconnected and destroyed it. It also checks `SessionContractRefined`: each handler's object implements the spec 4.1 contract. (92,826 states). |
| lookup | `MC_Gateway_lookup.cfg` | pass | `JobLookupComplete`. Two lookups and kills over two jobs, while the scheduler and archiving run. A job that is in a backend queue at each of the three queries is found, unless a query failed or was truncated. This holds only because the order send, done, archive follows the order in which jobs move. |
| answered | `MC_Gateway_answered.cfg` | pass | `AllAnswered` under `FairSpec`. Every request is eventually answered, `wait_for_job` on a queued job included. |
| leak | `MC_Gateway_leak.cfg` | violation | `UploadsReleased`. A send can end with uploads left in `UPLOAD_FOLDER`. |
| textdest | `MC_Gateway_textdest.cfg` | violation | `DestinationsAsSent`. A JSON string as destinations is submitted one character at a time. |
| overflow | `MC_Gateway_overflow.cfg` | violation | `OverflowTruncated`. More jobs than the array holds gives a 500, not a truncated list. |
| calls_need_session | `MC_SessionClient_calls_need_session.cfg` | violation | `CallsNeedSession`: `login()` reaches the backend without a connection, and the control methods reach it without a login. |
| logged_in_implies_connected | `MC_SessionClient_logged_in_implies_connected.cfg` | violation | A failed reconnect leaves a stale `logged_in`. |
| no_call_after_release | `MC_SessionClient_no_call_after_release.cfg` | violation | `NoCallAfterRelease`: after `__exit__`, a method or a second `__exit__` reaches the C library with the freed handle. TLC's trace starts from a live handle: `__exit__` destroys it and `connect()` then passes it to the C library. |
| no_call_on_null_handle | `MC_SessionClient_no_call_on_null_handle.cfg` | violation | `NoCallOnNullHandle`: a NULL from `fax_api_create` is passed on to the C library. |
| marshal | `MC_OptionsMarshaller_marshal.cfg` | pass | `TypeOK`. Every options dict of up to two entries over seven keys, one of each kind, and fifteen values (28,853 states). Every field keeps a value of its C type, and an int field one of the signed C int range, which the unsigned-wrap mutant breaks. |
| marshal_contract | `MC_OptionsMarshaller_contract.cfg` | violation | `MarshalContract` (spec 4.2): the loop never raises, an int field receives the integer given, and a char* field holds text or NULL. TLC's shortest trace is a JSON number for `recipient` becoming a pointer. Checking each conjunct alone gives the other two breaks: a float on a char* field or a `__class__` key raises, and 8 for `maxRetries` arrives as -8. |

The findings behind the violations are in `PROJECT.json`.

**Bounds.**

- Two requests are the fewest that interleave. Two jobs let a kill and the scheduler move different jobs while a lookup runs.
- `MaxJobs` is 1 or 2. With two jobs in one queue, the count exceeds the capacity, and both the IndexError path and the truncated-list path happen. For the property, the size 1000 differs from 2 only in how many jobs it takes to reach it.
- `MaxFiles = 2` in the leak run lets a save fail after one file was saved.
- Requests are symmetric (`Permutations(Req)`) in the lookup run. They carry no identity that the code compares. The sessions run uses no symmetry, because it also checks an action property.
- In the marshaller runs, a C int has `IntBits = 4` bits, so 8 plays the part of 2^31. The wrap is the same arithmetic at any width, and TLC's own integers stay small. Dicts of two entries are enough: with two entries, an entry is processed after another one has been processed or has raised.

**Fairness.** `WF` on each request's `Serve(r)` and on each job's `Dispatch(j)`. A Flask worker thread that can take a step eventually does, because the OS schedules it. HylaFAX's scheduler eventually sends a queued job that is not suspended, or gives up on it at its kill time. There is no fairness on archiving, expiry or the other requests' choices. The answered run leaves out a wait on a suspended job: that request waits for a resume that no request in the batch is bound to make, which is by design.

## Proofs

### `GatewayProofs`

- `TypeCorrect`: `Spec => []TypeOK`.
- `SessionsDisciplined`: `Spec => []SessionDiscipline`.

Both hold for every set of requests, jobs and inputs, and for every `MaxJobs`.

`SessionDiscipline` is not inductive. A step from `op` may rely on the object being ready, and that depends on where the handler is. The proof therefore uses

    IInv == TypeOK /\ \A r \in Req : SessionByPlace(r)

`SessionByPlace(r)` says what the object of a handler at each place must be:

- before connect: no object;
- at login: live and connected;
- at the operation: live and ready;
- at exit: live;
- when done: not live and not connected.

In addition, a job call is only recorded on a ready, live object. TLC checked `IInv` as an invariant of the sessions run before the proof was written.

The proof of `IInv /\ [Next]_vars => IInv'` has one step per action. Under each there are three sub-steps:

1. typing;
2. the frame: other requests keep their place and object and make no call;
3. the handler's own place.

They rest on these lemmas:

- `SessionOpsTyped`: the session operators stay in `SessionState`;
- `OthersKept`: the frame lifts the invariant to every other request;
- `PlacedNoCall`: a step with no C call keeps every handler's invariant.

The assumptions are `GatewayAssumption` (nonempty `Req` and `Job`, `MaxFiles \in Nat`, well-formed inputs) and `MaxJobsAssumption`.

### `LookupProofs`: `LookupComplete`, `Spec => []JobLookupComplete`

The invariant is `LInv == IInv /\ \A r : LookupProgress(r)`. For a *clean* lookup (the job held at every query and no query lost), `LookupProgress(r)` says:

- before the operation, the search is at the first queue and unanswered;
- during the search, it is unanswered, and the job has been created once it is past the first queue;
- during the search, `Rank[jq[j]] >= qi[r]`: the job is not in a queue the search has already left;
- once it is done, the answer is not 404.

The key lemma is `JqForward`. Every step moves a job forward in `LookupOrder` or leaves it in place: created into send, send to done, done to archive or gone. `Rank` inverts `LookupOrder`, so a job the lookup has not found cannot fall behind its index. Other requests' steps change only their own locals (`OthersLocal`, `FrameProgress`).

### `RefinementProofs`: `ContractRefined`, `Spec => SessionContractRefined`

- Initial states map to `Contract(r)!Init`: no object means unconnected, and there is no call.
- `StepRefines` shows that each step under `IInv` maps, for each request, to a contract step or a stutter:
  - another handler's step and a backend step are `Idle`, since they change neither `sess[r]` nor `lastCall[r]`;
  - `Connect` and `Login` are the contract's connect and login;
  - an operation is `Operate`;
  - `Exit` is `Release`.

For this, `IInv` was strengthened so that a handler at `login` is not yet logged in. Otherwise its login would look like a step from Authenticated.

### `MarshallerProofs`: `MarshallerTypeCorrect`, `Spec => []TypeOK`

This holds for any keys, key types, options objects and any C int width `IntBits >= 2`. `TypeOK` is inductive as it stands:

- `WrapInCInt`: the two's complement wrap lands in `CInt`.
- `SetattrTyped`: a coercion that does not raise gives a `Held` value, in the C int range for an int field and 0 or 1 for a bool field.
- `NextTypeOK`: `Skip` and `SetPlain` only drop the head item, and a `Set` that does not raise writes such a value to the field of its key.

The provers do not interpret `^`, so `CIntHalf = 2^(IntBits-1)` is given to them as a second assumption, `CIntHalfAssumption` (a natural number of at least 2). TLC checks it on every marshaller run. `Setattr` is an `IF` chain rather than a `CASE`, which the SMT backend does not accept.

**Left to TLC:**

- the liveness property `AllAnswered`, which needs fairness and ENABLED;
- everything about `SessionClient`, whose properties are all violations;
- the violation of `MarshalContract`, a counterexample rather than a theorem.

## Not modelled

- Flask's setup, the 413 handler, JSON formatting and logging.
- Library loading and the ctypes declarations.
- File names, uuids and `secure_filename`.
- The text of error messages. Spec section 7 asks that 500 responses should not expose `str(e)`; that is a property of strings, which the model abstracts away.
- What the C library does with a NULL or freed handle. The model records only that such a call is made.
- The text of string options. The marshaller sees only their length, so it cannot show that `"false"` on a c_bool field sets the flag. That hazard is recorded in `PROJECT.json` from the ctypes rule.
- The C library's own behaviour beyond the queue movements above.

## Plan

- A proof of `UploadsReleased` for a corrected `send_fax`.
- Backend failure modes beyond refusal, such as a lost connection in the middle of a handler.
- A refinement of `SessionClient` against a contract that lets the object be misused, to show exactly which call sequences leave spec 4.1.
