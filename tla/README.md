# A TLA+ model of httpstan

httpstan serves Stan, a C++ library for Bayesian inference, over HTTP: clients post a
program, the server translates it with `stanc` and builds a Python extension module from
it, runs sampling in worker processes, and stores the messages of a run (a *fit*) in a
cache directory. This directory holds TLA+ specifications of that program, translated from
`src/httpstan`, the TLC configurations that check them and proofs that TLAPS checks.

Run a configuration with `tlc -config call.cfg MCServicesCall` (the table below names the
module of each), and the proofs with `tlapm ServicesCall_proofs.tla`, and so on for every `*_proofs.tla`.

## The system

| component | code | state | operations | talks to |
|---|---|---|---|---|
| services call | `services_stub.py`, `unix_socket_client.hpp`, wrappers of `stan_services.cpp` | socket, connections, `messages_files`, the future | `call()` | a worker of the process pool (four connections over a Unix-domain socket), the cache |
| fits and operations | `views.py`, `cache.py`, `fits.py` | `app["operations"]`, fit files | create, get and delete a fit, get an operation, `_services_call_done` | services call (a task and its done callback), the model directories |
| model cache | `views.py`, `cache.py`, `models.py`, `compile.py` | a directory per model: two logs, C++ file, extension module | create, list, delete a model | `stanc` (a subprocess), the build thread |
| stderr capture | `build_ext.py` | descriptor 2 of the process, a temporary file per build | `run_build_ext` | compiler and linker |
| services extension module | `stan_services.cpp`, `views.py` | C++ objects made with `new`, Stan's autodiff stack | `show_params`, `log_prob`, `log_prob_grad`, `write_array`, `transform_inits`, the sampling wrappers | handlers call it in the event loop, `call()` in a worker |
| callback writers | `socket_writer.hpp`, `socket_logger.hpp` | an adaptation state per writer | `operator()` for names, draws and comments | services call |
| argument defaults | `services/arguments.py` | an `lru_cache` | `lookup_default` | services call |
| data conversion | `utils.py`, `stan_services.cpp` | none | `_split_data`, `new_array_var_context` | extension module |
| request schemas | `schemas.py` | none | which arguments, and which values of data, a request may have | handlers |
| application, routes, OpenAPI, configuration | `app.py`, `routes.py`, `openapi.py`, `config.py`, `__main__.py` | `app["operations"]`, made empty at a start | startup, shutdown warnings | everything |

What is hard about it:

* **Three processes in a call.** Worker, process pool and coroutine share only a socket and
  a future. The future may be done while connections wait to be accepted or hold unread
  bytes; no connection may be open because the worker has yet to connect. Ending too early
  loses messages, waiting for too much never ends.
* **Failures in a call.** A worker dies in the middle of a line; another worker dies and the
  whole pool breaks; the logger callback raises; the task is cancelled while the worker is
  blocked in `send()`; a constructor throws outside of the wrapper's `try`.
* **Handlers interleave at every await.** `create_model` waits for a build, a fit is stored
  by a task and judged by a callback one step of the loop later, and in between other
  requests create and delete the same models and fits.
* **Shutdown.** The server warns of unfinished operations, then cancels their tasks, and a
  done callback runs for a task that has neither a result nor an exception.
* **Crashes.** Operations live in memory, fits and models on disk, and files are written in
  place.
* **A descriptor of the whole process** is redirected by a build thread.
* **Two languages** must agree: on the order and the offsets of an array's elements, on the
  names and types of arguments, on the texts from which a writer reads that adaptation has
  ended, and on which lines can come before an error.

What makes each component correct: a call stores exactly what was sent and ends (services
call); an operation tells the truth about its fit and becomes done, and nothing but a
client's request removes a stored fit (fits and operations); a model that is announced or
listed can be loaded (model cache); the server's stderr is its own and a build returns its
own messages (stderr capture); a function gives back what it took (extension module); the
adaptation states follow Stan's messages and a client can recover these from the lines
(writers); defaults work (arguments); Stan reads a number where the client put it (data
conversion). `hazards` in `PROJECT.json` lists each at its line.

## The modules

**`ServicesCall`** models one call. `wpc`, `nxt`, `wend`, `sent`, `res` are the worker:
`SetUp` (`_make_lazy_function_wrapper`, data and model), `Connect` / `ConnectThrows` (one
constructor of a writer), `Send` / `SendThrows` (`write_all`), `StanReturns`, `Delete` (one
`delete`). `posted` is the pool: `PostResult`, `WorkerDies`, `SiblingDies` (a broken pool
fails every future at once and kills the workers afterwards, `PoolTerminates`). The rest is
the coroutine: `Select`, then `Accept`, `RecvEnd` or `Recv` for each readable socket, and
when nothing is readable either `BreakAndStore` or `Sleep` / `Wake`. `Wake` is where the
event loop can mark the future done, because the loop body has no other await.
`InlineReturns` is HTTPSTAN_DEBUG. `gone` are the server's sockets that no process holds any
more: the end of `with` closes the listener only, an accepted connection of a call that raised
or was cancelled is closed when its frame is collected, and workers forked in between hold
copies of both, so that `Release` lets a socket go at any moment after the end of the call, or
never. A worker gets `EPIPE` (`HungUp`, `SendFails`) only on a connection that went; on another
it blocks once the buffer is full (`Blocks`). A line is two units, so that a torn line can be told from
a whole one; what the units say is left out, except that some lines of the logger report an
iteration (`IterLines`), which the logger callback looks for.

**`FitPromise`** is the abstract specification of a call: writers send, the call gets one
outcome, and it stores in one step what was sent (each file that is joined holds all of one
writer, and no writer with messages is missing), or is abandoned and stores nothing.
`RefinesPromise` in `ServicesCall` says that the call implements it; the variables of the
same names are the refinement mapping.

**`FitService`** models fits and operations. A call is reduced to what `FitPromise` says of
it (`CallReturns`, `CallRaises`, `CallAborts`), and `ServicesCallDone` is the done callback.
`CreateFitCached` and `CreateFit` are the two paths of `handle_create_fit` up to the
response; `Launch` is the first run of the task. `DeleteFit`, `DeleteModel` and
`CreateModel` are the handlers that remove files, `BuildEnds` the end of a build. A signal
ends the server in steps: `Close` (no more requests), `WarnUnfinishedOperations` (`app.py`),
`CancelTask` for each task; `ServicesCallDone` runs for a cancelled task as well. `Restart`
empties `app["operations"]`; `CrashInDump` leaves half of a fit.

**`Operations`** is the abstract specification of fits and operations: an operation has one
outcome and keeps it, ends with a fit only after that fit was stored, leaves the fits of
others alone when it fails, and a fit goes only when a client asks for it. The refinement
mapping in `FitService` (`Promise`, `ImplementsOperations`) reads the outcome off a task's
phase and the operation's result (`Outcome`), and takes the whole files for the stored fits:
the messages of a failed run, which are in the same place for a moment, are none.

**`ModelCache`** models the models. `CreateCached`, `CreateRejected` and `CreateStarts` are
`handle_create_model` up to its await, `CompileCpp`, `LinkStart` and `LinkEnd` the build
thread, `FinishCreate` the handler after its await. `ListFails`, `DeleteFails` and `UseFails`
(a handler that imports the module to use it) are the handlers when they raise; when they do
not, listing changes nothing.

**`StderrCapture`** models `run_build_ext`: `SaveStderr` (dup), `RedirectStderr` (dup2),
`FinalizeOptions`, tools that inherit the descriptor, `ReadStream`, `RestoreStderr`.

**`DataConversion`** has `_split_data` and `new_array_var_context` as operators: numpy's type
of a variable (`Dtype`), the sort it goes to, its elements in column-major order (`Ravel`
with `IndexAt`), the integers after `astype(int)` (`Numbers`), the loop over the dictionary
that extends the three lists of a sort (`Split`, a recursive function), and when the
conversion raises (a list whose elements are lists of different lengths has no common shape:
it has elements of kind `"list"` and is refused like an integer beyond 64 bits). `Read` is what Stan does with the result, defined from the order of
indices alone (`Before`) and from how many indices earlier variables have (`Offset`), not
from the arithmetic of `IndexAt` or the lengths of lists. `IsDictionary` says which
dictionaries the schema lets pass and the constants must be.

**`ServicesModule`** models the functions of the extension module as the handlers call them:
which objects a function builds, where it may raise, what it deletes, and how the client is
answered. Its contexts are made of dictionaries by `DataConversion`.

**`Arguments`** models `services/arguments.py`: the wrappers' parameters, the rules of
`lookup_default` (`FixedDefault` for all that do not depend on the clock), its cached seed,
and whether the completed arguments are taken by the C++
function. **`CallbackWriters`** models `socket_writer.hpp` and `socket_logger.hpp`: for each
message what is sent, kept or thrown, and the adaptation states of the sample writer.
**`Sampling`** composes the two into the meaning of a call: `Fill` completes a request's
arguments, `CallWrapper` calls the function, `StanWrites` hands Stan's messages to the
writers one by one, `StanTraps` is the division by a `num_thin` of 0 where the processor traps
it (the worker is killed and the pool takes no further call), and after an error code `Report` reads the stored lines again. Stan is
not part of the repository: it goes through stages (`NextStage`: warnings, failure, start,
warm-up, adaptation, sampling, elapsed times), an iteration at a time where a stage has some
(`StanGoesOn`), and `Script` is what it writes in a round of a stage, in the order that
`socket_writer.hpp:36-45` describes. `written` is a history of what it has handed over, which
`LinesRecoverMessages` and `ErrorsReported` compare with the lines and the report; a report
keeps each text with its place in the logger's lines, so that the order can be told.

`*_proofs.tla` hold the inductive invariants, the lemmas and the theorems; `MC*.tla` extend
them and instantiate the models for TLC, so that a run can check an inductive invariant and
evaluates the assumptions of the proofs. The call and the service are composed by abstraction: `FitService` uses
`FitPromise`, which `ServicesCall` is checked to implement, and `Sampling` takes from
`ServicesCall` that the lines arrive whole and in each writer's order.

## The runs

| run | module | what it shows |
|---|---|---|
| `call` | MCServicesCall | two writers, every failure: nothing lost, lines whole, ends seen last, `CallInv` invariant, the promise implemented, the call ends, nothing keeps its worker but a full buffer of an abandoned call |
| `call_debug` | MCServicesCall | debug mode with the code's four writers: the backlog of four is enough, the call ends |
| `call_callback` | MCServicesCall | violated: see "Disagreements", 1 |
| `fit_serial` | MCFitService | patient clients, three requests, broken pool, shutdown: operations tell the truth, fits have models and stay, cancelled operations were warned about, `ClientsInv` invariant, `Operations` is implemented |
| `fit_restart` | MCFitService | any interleaving and crashes anywhere: failed fits are removed, operations end |
| `model_serial` | MCModelCache | patient clients, four requests: no answer is 500, announced models are complete and stay, an idle cache can be loaded, `CacheInv` invariant |
| `model_concurrent` | MCModelCache | overlapping builds, timeouts and crashes: a torn module has an owner, every build is answered |
| `model_announced` | MCModelCache | violated: 2 |
| `stderr_serial` | MCStderrCapture | builds one after another: stderr is restored, the output is the build's own |
| `stderr_restored` | MCStderrCapture | violated: 3 |
| `module_calls` | MCServicesModule | every handler, dictionaries at the edges of the conversion, data the model refuses: objects are given back, nothing is answered 500, contexts read back |
| `sampling` | MCSampling | two calls of a process: defaults work, writers follow Stan, lines recover its messages, errors are reported with at most four warnings |

"Patient" clients (`Serial`) wait for an operation or a build before they use its name
again. Properties that only hold for them are checked for them, and the disagreements below
say what happens otherwise.

### Bounds

* Two writers are enough for two streams to interleave and for one to be accepted while
  another has ended; `call_debug` has four because the backlog is about four. With two lines
  per writer a line can follow another. `RecvUnits = 3` lets a chunk hold one and a half
  lines, `BufferUnits = 3` makes a worker with two lines block. In `call_debug` the buffers
  hold every message: with more the call would deadlock, which `doc/developer_resources.rst`
  announces for the debug mode.
* Two models, one of them with two fits (`f2` drawn at random, so used once), give a fit
  that is affected by its model and by a sibling. Two requests are enough for two calls of
  one name, three for a call after both.
* Three programs, one of them refused by `stanc`; two overlapping builds of one program
  need two requests, a third looks at what they leave.
* Three builds with up to two tools each; two requests of the extension module. Its
  dictionaries (`MCServicesModule`) hold scalars, empty arrays, two and three dimensions,
  several variables of a sort in a row, and a number in each place between the widths, which
  are 3 bits for a C++ `int` (-4..3) and 4 for numpy's (-8..7): 3, 4, 9, 15, 16.
* `sampling` has the types and names of the real help file; the thousand iterations of the
  defaults are two, a C++ `int` has 8 bits, reals are whole numbers. Five warnings are one
  more than an error message takes. The clock moves once, so that two calls can see different
  times. Every subset of six arguments is given, with a seed that is no `int`, every draw,
  every second one or a `num_thin` of 0, no draws, warm-up or none, saved or not; the second
  call meets a pool that the first may have broken.

### Fairness

Weak fairness of `WorkerMoves` stands for a worker that keeps running, and of `StanReturns`
for "Stan's function ends", which every call presupposes: but not while the line it would
write next may be blocked, so that fairness never talks a worker out of `send()`. Weak
fairness of the coroutine's step stands for the event loop; of `PostResult` and
`PoolTerminates` for the pool's management thread. Nothing is assumed of `Release`. In `FitService` a call ends (`CallEnds`)
and the loop runs callbacks; in `ModelCache` a compiler ends. Deaths, cancellations, crashes
and clients' requests are never fair.

## The proofs

TLAPS checks the theorems below for every value of the constants: any number of writers,
lines, buffer sizes, models, names, programs, builds, iterations and requests, dictionaries
with any variables, arrays of any shape. They state every safety property the passing runs
check, invariant, action property or refinement. They rest on
the named assumptions on the constants (`ConstantsAssumption`, `FitAssumption`,
`ModelAssumption`, `CaptureAssumption`, `RequestsAssumption`, `WidthAssumption`,
`ArgumentsAssumption`, `SamplingAssumption`), which say of what kind each constant is and
that there is a fit name, a program or a request at all where the initial state needs one,
and that requests and dictionaries are of the kind the schemas let pass; TLC evaluates them in every run. Further hypotheses are in the statements and in the table.
A theorem for patient clients (`Serial`) is one that TLC refutes without them: see
"Disagreements".

| theorem | property | supposes | rests on |
|---|---|---|---|
| `ServicesCall_proofs!TypeCorrect`, `NothingLost`, `EndsSeenLast` | `TypeOK`, `NoLostMessages`, `EndSeenLast` | any faults | `IInv` |
| `CallPromise_proofs!StoredLinesWhole`, `CallImplementsPromise` | `LinesWhole`, `RefinesPromise` | any faults | `IInv`, `StoreInv` |
| `CallPromise_proofs!CallHolds` | `CallInv` | any faults | the two together |
| `FitService_proofs!FitTypeCorrect`, `FailedFitsGo` | `TypeOK`, `FailedFitsRemoved` | any clients and crashes | `FInv` |
| `FitPatience_proofs!FitsKeepModel`, `CancelledAreWarned`, `OnlyClientsRemove` | `FitsHaveModel`, `CancelledWarned`, `StoredFitsStay` | patient clients; any crashes | `PatientInv` |
| `FitPatience_proofs!OperationsTellTruth`, `ServiceImplementsOperations` | `OperationTellsTruth`, `ImplementsOperations` | patient clients, no crash | `PatientInv`, `TruthInv` |
| `FitPatience_proofs!ClientsHold` | `ClientsInv` | patient clients, no crash | `FInv` and the two together |
| `ModelCache_proofs!ModelTypes`, `TornModulesHaveOwner` | `TypeOK`, `TornModulesOwned` | any clients, timeouts, crashes | `OwnInv` |
| `ModelCache_proofs!AnnouncedComplete`, `CompleteStays` | `AnnouncedModelsComplete`, `ModelsStay` | patient clients; any timeouts and crashes | `OwnInv`, `BuildInv` |
| `ModelCache_proofs!NoHandlerFails`, `IdleCacheLoads` | `NoServerError`, `IdleCacheLoadable` | patient clients, no timeout, no crash | `CleanInv` besides |
| `ModelCache_proofs!CacheHolds` | `CacheInv` | the same | the three together |
| `StderrCapture_proofs!CaptureTypes` | `TypeOK` | any builds, overlapping or not | `ToolInv` |
| `StderrCapture_proofs!OutputOfOwnTools` | `OutputIsOwn` | one build after another | `CaptureInv`, `ReportInv` |
| `StderrCapture_proofs!StderrIsRestored` | `StderrRestored` | the same, and options that can be finalized | `CaptureInv`, `RestoreInv` |
| `ServicesModule_proofs!ModuleTypes`, `LeftByEarlyErrors`, `LaterCallsSucceed` | `TypeOK`, `LeftOnlyByEarlyErrors`, `OnlyFirstRaises` | any dictionaries | `CallInv`, `KeepInv`, `RaiseInv` |
| `ServicesModule_proofs!StanReadsWhatWasSent` | `ContextReadsBack` | any dictionaries, shapes and widths | `BuiltInv`, lemmas about `DataConversion` |
| `Sampling_proofs!DefaultsServe` | `DefaultsNeverRefused` | `HelpServes` | `FilledInv` |
| `Sampling_proofs!SamplingTypes`, `WritersFollow`, `LinesRecover` | `TypeOK`, `WritersFollowStan`, `LinesRecoverMessages` | any requests and arguments | `SamplingInv` |
| `Sampling_proofs!ErrorsAreReported` | `ErrorsReported` | no error code after initialization (`~LateErrors`) | `SamplingInv`, `FailureInv` |

Three runs check these invariants together: `CallInv` (`IInv`, `StoreInv`), `ClientsInv`
(`FInv`, `PatientInv`, `TruthInv`) and `CacheInv` (`OwnInv`, `BuildInv`, `CleanInv`).
The MC modules extend the modules of the proofs,
so that any of the others can be added to a configuration, and any hypothesis changed:
`model_serial.cfg` with timeouts and crashes still satisfies `BuildInv`,
`AnnouncedModelsComplete` and `ModelsStay`.

Why the invariants are needed:

* **`IInv`** (call). `NoLostMessages` is not inductive: that the loop ended at the right
  moment depends on the past. `IInv` adds how the worker's program counter shows in its ends
  of the connections (`PhaseInv`), that a result other than a broken pool's comes after the
  worker (`FutureInv`), that the files hold what was received (`FilesInv`), and the heart of
  the argument, `IdleInv`: once the future is done, a `select` that finds nothing leaves no
  connection waiting to be accepted, because the worker cannot make a new one any more. With
  no connection open and none pending, every connection has been read to its end.
* **`StoreInv`** (call). What is stored is the files as they were, each of a writer that was
  heard of, once (`JoinInv`, `OrderInv`); and the worker leaves a line unfinished only if it
  is killed or the call ended before (`LineInv`). That a writer that has sent nothing has no
  file, and any other has one, is what makes the stored list the one `FitPromise` describes.
* **`FInv`** (fits, any clients). Only operations that exist have a task, and one that is not
  over is not done; a restart then turns every call that owns a file into one that was cut
  off. Its third part, `BadPending`, is `FailedFitsRemoved` itself.
* **`PatientInv`** (fits, patient clients). A name has one call in flight, it is the stored
  operation of that name (`OpsInv`), and until it returns there is no file, then only its own
  (`FileInv`); a call in flight has its model (`ModelInv`), and when tasks are cancelled the
  log has named them all (`WarnInv`). So a done callback that unlinks a fit, or a call that
  stores one, can never touch what another request did.
* **`TruthInv`** (the same, no crash). A call that is over has run its callback, the messages
  of a failed run have a call in flight, and a stored operation that failed has no fit. The
  refinement of `Operations` needs it at the steps of the done callback and of a restart.
* **`OwnInv`** (models). A torn module names its linker (the property itself), that linker's
  request is for this program, and requests that were not made have no build.
* **`BuildInv`** (models, patient clients). A directory has one build, and its module tells
  how far that build is, so that at the handler's return from its await the module is there.
  `CleanInv` adds that outside of builds a model is complete or absent.
* **`CaptureInv`**, **`ReportInv`**, **`RestoreInv`** (stderr). One build runs and the
  descriptor is its file; the file holds the reports of its own tools so far; what it saved
  is the server's own stderr.
* **`CallInv`**, **`KeepInv`**, **`RaiseInv`** (extension module). How far a function is with
  its objects; that each live object is one of those or was left behind by a request that was
  answered 400; and that what the first function of a request has got through, a convertible
  dictionary and a model that takes it, is behind every later function too.
* **`FilledInv`** (sampling). The wrapper is called with what the client gave and with
  defaults that it takes. `HelpServes` says that the help file has a fitting default for each argument and that the clock is a C++
  `int`; `MCSampling` has it as an assumption about the entries of the real file, which TLC
  evaluates.

* **`SamplingInv`** (sampling). `WritersFollowStan` depends on everything Stan has written
  before. `StanInv` says of each stage, and of each message within it, which names the writers
  have (`NamesInv`) and in which adaptation state the sample writer is (`AdaptInv`), so that the
  next message is one it takes; `FreshInv` that a call starts with new writers; `LinesInv` that
  each writer's lines are, one by one, what it was handed, which is also what
  `LinesRecoverMessages` says. No part counts iterations, so that any number of them is covered.
* **`FailureInv`** (sampling). How Stan will fare shows in the stages it reaches; before it is
  done with a failure it has logged an error; and a call that fails in initialization has no
  line of another writer, so that `Report` meets nothing it cannot read. That the first
  warnings are at most four is counted by an injection (`FirstFourBound`).
* **`BuiltInv`** (extension module). A context that was built is of a convertible dictionary;
  the rest of `StanReadsWhatWasSent` is about `DataConversion`, in two halves.
  *The order.* The strides of an array are products of its lengths (`OneMoreDimension`,
  `Strides`). Of two places the indices differ last in the dimension after the last stride by
  which the places' quotients differ, and there the smaller place has the smaller index
  (`PlacesInOrder`): `IndexAt` runs through the indices in the order of `Before`. It is
  injective into a set of the same size, so that it reaches every index, and an index has as
  many before it as its place says (`IndexHasPlace`).
  *Where a variable begins.* After any number of rounds of the loop the values are as many as
  the indices of the variables so far, each of these is in the lists at its offset, and no
  other name is (`SplitInOrder`); the numbers are the ones sent unless only an unsigned integer
  holds them (`NumbersKept`).

The library's induction theorems cannot be used with the provers at hand, because they take an
operator as a parameter. Where the argument about `DataConversion` needs induction, on
dimensions and on rounds of the loop, it is made with a set of numbers that has 0 and every
successor: such a set holds all of `Nat` (`Numbering`), since otherwise adding one would map a
finite set into itself without one of its elements. That there is a function with the
recursion of `Split`'s loop at all is proved the same way (`LoopUnrolls`).

Only model-checked: liveness, which is out of the prover's reach (`CallEnds`, `WorkerFreed`,
`OperationEnds`, `CreatesAnswered`). That `HelpServes` holds of the real help file is an
assumption that TLC evaluates.

## Disagreements with the code's own documentation

With a run:

1. `call_callback`: a `recv` may hold only part of the one iteration message;
   `logger_callback` (`views.py:411-415`) then pops from an empty list and the call ends.
2. `model_announced`: after its await `handle_create_model` does not look at the model again
   (`views.py:123`). A delete request between the end of the link and that moment finds the
   module and removes its directory (`views.py:197`); the create request dumps `stderr.log` in
   a new directory and answers 201 for a model that is not there. Without deletes a second
   create request leads to the same, which takes two steps more: it removes the directory of
   the build that runs (`views.py:99`), and its own linker replaces the module when the first
   is answered.
3. `stderr_restored`: of two overlapping builds the later restores the earlier's file, and
   the server's stderr stays redirected.

The same modules show these when their constants are changed; they have no run:

4. `fit_serial.cfg` with `Serial = FALSE`: `FitsHaveModel` fails. A fit whose model was
   deleted while the call ran is stored without it, against `views.py:165-166`, "Any fits
   associated with the model will also be deleted" (`cache.py:110` makes the directory again).
5. The same: `StoredFitsStay` and `ImplementsOperations` fail. Of two calls of one seeded fit
   the failing one deletes what the other stored (`views.py:395`).
6. The same: `CancelledWarned` fails, against `views.py:409`. An operation that another of
   its name has replaced is cancelled at shutdown without a warning (`app.py:21`).
7. `fit_serial.cfg` with `CrashAnytime = TRUE`: `OperationTellsTruth` fails. A truncated fit
   is a cache hit after the restart, and downloading it is answered 500.
8. `call.cfg` with `ThrowAt = {1, 2}`: `CallEnds` fails. When a later writer's constructor
   throws (`stan_services.cpp:277-281` is outside of the `try`), the earlier ones are never
   deleted and the coroutine waits for their end.
9. `model_serial.cfg` with `Serial = FALSE` or `StancMayTimeout = TRUE`: `NoServerError`
   fails (module before its log, module being linked; `TimeoutExpired` at `compile.py:38`).
10. `model_serial.cfg` with `CrashAnytime = TRUE`: `IdleCacheLoadable` fails. A model without
    `stderr.log` stays listed.
11. `stderr_serial.cfg` with `Overlap = TRUE`: `OutputIsOwn` fails; with `BadConfig = TRUE`:
    `StderrRestored` fails, because `finalize_options` (`build_ext.py:77`) is called between
    the redirection and the `try`.
12. `sampling.cfg` with `LateErrors = TRUE`: `ErrorsReported` fails. If Stan returned an error
    code after it has written initial values, `services_stub.py:175-176` would take
    `startswith` of a number or `pop()` of a mapping, and the client would be told of that
    instead of Stan's errors. Whether Stan ever does is not decided by this repository.
13. `sampling.cfg` with `MaxClock` above `IntMax`: `DefaultsNeverRefused` fails. From 2038 on
    the default seed, `int(time.time())`, is no C++ `int`.
14. `ServicesModule`: what `LeftOnlyByEarlyErrors` leaves (objects of functions that threw
    before their deletes) stays in the process, against `stan_services.cpp:31`.

Seen while modelling; the properties leave these out:

15. `DataConversion`: integers that only an unsigned 64-bit type holds are changed by
    `astype(int)` (`utils.py:57`); one just below 2^64 becomes a small negative number that
    no cast refuses. `ContextReadsBack` leaves them out.
16. `doc/index.rst:70-71`, "you can recover all messages": the names in the header are only
    the keys of draws, so they are lost when no draw is written (`num_samples` 0), and blank
    messages are not sent. `LinesRecoverMessages` leaves both out.
17. `socket_writer.hpp:283` calls the last adaptation message a vector of doubles; the state
    only advances for a string, which is what `socket_writer.hpp:42-45` shows.
18. `build_ext.py:52`: the copy of descriptor 2 is never closed, one for every build.
19. `services_stub.py:96`: a call that raised or was cancelled does not close its accepted
    connections. If neither garbage collection nor the end of other workers does, the worker
    stays blocked in `send()` and its process is lost to the pool. `WorkerFreed` allows this
    (`LeftBlocked`) and says that nothing else keeps a worker; with `<>[]WorkerGone` in its
    place TLC shows it.
20. `schemas.py:109` lets a `num_thin` of 0 pass, by which Stan divides. Where that traps, the
    worker is killed and every later call fails with `BrokenProcessPool` until the server is
    restarted. No document gives the value a meaning, so that no property is about it.
21. `services/arguments.py:35`: the `lru_cache` keeps the first default seed, so that all calls
    without a seed share it until the server is restarted. No document says whether they
    should; it is modelled (`DefaultSeed`, `Remember`) and no property is about it.

## Not modelled, and the plan

Not modelled: the numbers that Stan computes; the progress text of an operation (its failure
is in `ServicesCall`, item 1); the schemas of responses, OpenAPI and routes, which are
declarations without state; build scripts. Outside `src/` and modelled only as the code uses
them: the kernel's sockets, `select`, the process pool, aiohttp's shutdown, numpy, pybind11's
conversions, Stan's order of messages, `setuptools`, compiler and linker.

Done, in this order: `ServicesCall` and `FitPromise`, `FitService`, `ModelCache`,
`StderrCapture`, `ServicesModule`, the proofs of the first two; then `Arguments`,
`CallbackWriters` and `Sampling`, `DataConversion`, the shutdown of `FitService` and
`Operations`; then the proofs about patient clients, both refinements, and the proofs about
`ModelCache`, `StderrCapture`, `ServicesModule` and `Sampling`, last the ones about Stan's
stages and about `DataConversion`. Left, most important first:

1. A composition of `ModelCache` and `FitService`: fits stored in a directory that is being
   built, and a module that is linked while a worker imports it.
2. Two calls at once in `ServicesCall`, which share the pool: today the other one is only the
   death of its worker (`SiblingDies`).
