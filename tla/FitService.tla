----------------------------- MODULE FitService -----------------------------
(***************************************************************************)
(* The fits and operations of the HTTP service (views.py, cache.py): long  *)
(* running operations started by create_fit, the fits they store in the    *)
(* cache directory, cache hits, and the handlers that delete.              *)
(*                                                                         *)
(* Handlers run in one event loop: what a handler or a callback does       *)
(* between two awaits is one action.  A call of services_stub.call is      *)
(* reduced to what FitPromise says of it: it stores a fit and returns, or  *)
(* stores the messages of a failed run and raises, or raises before it     *)
(* stores anything.  That it raises and that _services_call_done runs are  *)
(* two steps of the loop, and other handlers may run in between.           *)
(*                                                                         *)
(* The server ends in two ways: killed, or by a signal, and then it warns  *)
(* of unfinished operations and cancels their tasks.                       *)
(***************************************************************************)
EXTENDS Naturals, FiniteSets

CONSTANTS
  Models,        \* model names
  FitNames,      \* fit names
  ModelOf,       \* the model a fit name starts with
  Unseeded,      \* fit names drawn at random, used by one request only
  MaxCalls,      \* bound: accepted create_fit requests
  Serial,        \* whether clients wait for a fit before they use its name
                 \* again or delete its model
  CrashAnytime,  \* whether the server may be killed while operations run
  NoCall         \* no operation under this name

ASSUME FitAssumption ==
  /\ ModelOf \in [FitNames -> Models] /\ Unseeded \subseteq FitNames
  /\ MaxCalls \in Nat /\ {Serial, CrashAnytime} \subseteq BOOLEAN
  /\ NoCall \notin 1..MaxCalls

VARIABLES
  models,   \* models whose extension module can be imported
  building, \* models that create_model builds
  file,     \* what fit_path(name) holds
  ncalls,   \* operations created so far
  name,     \* the fit name of an operation's metadata
  phase,    \* where the task behind an operation is
  done,     \* operation["done"]
  result,   \* operation["result"]
  ops,      \* app["operations"]: the operation stored under a fit's id
  pool,     \* the process pool
  server,   \* "up", or how far a signal has taken it
  warned    \* operations the log says were cancelled before finishing

cacheVars == <<models, building, file>>
serverVars == <<pool, server, warned>>
vars == <<cacheVars, ncalls, name, phase, done, result, ops, serverVars>>

Calls == 1..MaxCalls
Created == 1..ncalls

TypeOK ==
  /\ models \subseteq Models /\ building \subseteq Models
  \* a complete fit, the messages of a failed run, a truncated file, no file
  /\ file \in [FitNames -> {"good", "bad", "torn", "none"}]
  /\ ncalls \in 0..MaxCalls
  /\ name \in [Calls -> FitNames]
  /\ phase \in [Calls -> {"unused", "created", "running", "returned",
                          "raised", "cancelled", "over"}]
  /\ done \in [Calls -> BOOLEAN]
  /\ result \in [Calls -> {"none", "fit", "error"}]
  /\ ops \in [FitNames -> Calls \cup {NoCall}]
  /\ pool \in {"up", "broken"} /\ server \in {"up", "closing", "cancelling"}
  /\ warned \subseteq Calls

\* The cache directory may hold models of an earlier process, no fits yet.
Init ==
  /\ models \in SUBSET Models /\ building = {}
  /\ file = [n \in FitNames |-> "none"]
  /\ ncalls = 0
  /\ name = [c \in Calls |-> CHOOSE n \in FitNames : TRUE]
  /\ phase = [c \in Calls |-> "unused"]
  /\ done = [c \in Calls |-> FALSE]
  /\ result = [c \in Calls |-> "none"]
  /\ ops = [n \in FitNames |-> NoCall]
  /\ pool = "up" /\ server = "up" /\ warned = {}

InFlight(n) ==
  \E c \in Created : name[c] = n /\ phase[c] \notin {"unused", "over"}
-----------------------------------------------------------------------------
(* handle_create_fit                                                       *)

\* A request that reaches the computation of the fit name.
Request(n) ==
  /\ server = "up" /\ ncalls < MaxCalls
  /\ ModelOf[n] \in models
  /\ n \in Unseeded => \A c \in Created : name[c] # n
  /\ Serial => ~InFlight(n)
  /\ ncalls' = ncalls + 1
  /\ name' = [name EXCEPT ![ncalls + 1] = n]
  /\ ops' = [ops EXCEPT ![n] = ncalls + 1]

\* Plausible slip: an operation of this name is taken for a fit.
KnownOperation(n) == ops[n] # NoCall
\* load_fit(name) succeeds: any file is a hit.
CacheHit(n) == file[n] # "none"

CreateFitCached(n) ==
  /\ CacheHit(n) /\ Request(n)
  /\ phase' = [phase EXCEPT ![ncalls + 1] = "over"]
  /\ done' = [done EXCEPT ![ncalls + 1] = TRUE]
  /\ result' = [result EXCEPT ![ncalls + 1] = "fit"]
  /\ UNCHANGED <<cacheVars, serverVars>>

CreateFit(n) ==
  /\ ~CacheHit(n) /\ Request(n)
  /\ phase' = [phase EXCEPT ![ncalls + 1] = "created"]
  /\ UNCHANGED <<cacheVars, done, result, serverVars>>
-----------------------------------------------------------------------------
(* The task: services_stub.call.                                           *)

Move(c, from, to) == phase[c] = from /\ phase' = [phase EXCEPT ![c] = to]

\* The task's first run: it imports the module again and submits to the pool;
\* either may raise by now.
Launch(c) ==
  /\ IF ModelOf[name[c]] \in models /\ pool = "up"
     THEN Move(c, "created", "running")
     ELSE Move(c, "created", "raised")
  /\ UNCHANGED <<cacheVars, ncalls, name, done, result, ops, serverVars>>

\* dump_fit creates the directories it needs and overwrites.
DumpFit(n, content) == file' = [file EXCEPT ![n] = content]

CallReturns(c) ==
  /\ Move(c, "running", "returned")
  /\ DumpFit(name[c], "good")
  /\ UNCHANGED <<models, building, ncalls, name, done, result, ops, serverVars>>

\* An error code, a C++ exception or a broken pool: stored, then raised.
CallRaises(c) ==
  /\ Move(c, "running", "raised")
  /\ DumpFit(name[c], "bad")
  /\ UNCHANGED <<models, building, ncalls, name, done, result, ops, serverVars>>

\* The logger callback raised: nothing was stored.
CallAborts(c) ==
  /\ Move(c, "running", "raised")
  /\ UNCHANGED <<cacheVars, ncalls, name, done, result, ops, serverVars>>

\* delete_fit, a missing file ignored.
Unlink(n) == [file EXCEPT ![n] = "none"]

\* Plausible slips: the failed fit stays, or every fit is removed.
KeepFile(c) == file
AlwaysUnlink(c) == Unlink(name[c])
\* The file after the done callback.
FileAfterCall(c) == IF phase[c] = "raised" THEN Unlink(name[c]) ELSE file

\* Plausible slip: `done` is set on success only.
DoneOnSuccess(c) == phase[c] = "returned"
\* "either the call succeeded or it raised an exception."
DoneAfterCall(c) == TRUE

\* Plausible slip: the outcome of the task is the result itself.
ResultIsOutcome(c) == phase[c]
\* future.exception() raises for a cancelled task, after `done` was set.
ResultAfterCall(c) == CASE phase[c] = "raised" -> "error"
                        [] phase[c] = "cancelled" -> result[c]
                        [] OTHER -> "fit"

ServicesCallDone(c) ==
  /\ phase[c] \in {"returned", "raised", "cancelled"}
  /\ phase' = [phase EXCEPT ![c] = "over"]
  /\ done' = [done EXCEPT ![c] = DoneAfterCall(c)]
  /\ result' = [result EXCEPT ![c] = ResultAfterCall(c)]
  /\ file' = FileAfterCall(c)
  /\ UNCHANGED <<models, building, ncalls, name, ops, serverVars>>

CallStep(c) ==
  \/ Launch(c) \/ CallReturns(c) \/ CallRaises(c) \/ CallAborts(c)
  \/ ServicesCallDone(c)

\* A worker is killed: the executor is broken for the life of the process.
WorkerDies ==
  /\ pool = "up" /\ pool' = "broken"
  /\ UNCHANGED <<cacheVars, ncalls, name, phase, done, result, ops, server,
                 warned>>
-----------------------------------------------------------------------------
(* The handlers that delete, and the models.                               *)

DeleteFit(n) ==
  /\ server = "up" /\ file[n] # "none"
  /\ file' = Unlink(n)
  /\ UNCHANGED <<models, building, ncalls, name, phase, done, result, ops,
                 serverVars>>

\* Plausible slip: only the extension module is removed.
KeepFits(m) == file
\* rmtree of the model's directory, where its fits are too.
DirectoryRemoved(m) ==
  [n \in FitNames |-> IF ModelOf[n] = m THEN "none" ELSE file[n]]

DeleteModel(m) ==
  /\ server = "up" /\ m \in models
  /\ Serial => \A n \in FitNames : ModelOf[n] = m => ~InFlight(n)
  /\ models' = models \ {m}
  /\ file' = DirectoryRemoved(m)
  /\ UNCHANGED <<building, ncalls, name, phase, done, result, ops, serverVars>>

\* Only a model that is not in the cache is built, in a cleaned directory.
CreateModel(m) ==
  /\ server = "up" /\ m \notin models
  /\ Serial => m \notin building
  /\ building' = building \cup {m}
  /\ file' = DirectoryRemoved(m)
  /\ UNCHANGED <<models, ncalls, name, phase, done, result, ops, serverVars>>

\* The build thread has linked the module, or it fails.
BuildEnds(m) ==
  /\ m \in building
  /\ building' = building \ {m}
  /\ models' \in {models, models \cup {m}}
  /\ UNCHANGED <<file, ncalls, name, phase, done, result, ops, serverVars>>
-----------------------------------------------------------------------------
(* A signal ends the server: no more requests, then the signal handler of  *)
(* app.py, then every task is cancelled.  Tasks go on in between.          *)

Close ==
  /\ server = "up" /\ server' = "closing"
  /\ UNCHANGED <<cacheVars, ncalls, name, phase, done, result, ops, pool,
                 warned>>

\* Plausible slip: only calls that have been submitted count as unfinished.
Submitted(c) == phase[c] = "running"
Unfinished(c) == ~done[c]

WarnUnfinishedOperations ==
  /\ server = "closing" /\ server' = "cancelling"
  /\ warned' = warned \cup {c \in Created :
                  (\E n \in FitNames : ops[n] = c) /\ Unfinished(c)}
  /\ UNCHANGED <<cacheVars, ncalls, name, phase, done, result, ops, pool>>

CancelTask(c) ==
  /\ server = "cancelling"
  /\ Move(c, "created", "cancelled") \/ Move(c, "running", "cancelled")
  /\ UNCHANGED <<cacheVars, ncalls, name, done, result, ops, serverVars>>
-----------------------------------------------------------------------------
(* Restarts: app["operations"] is empty again, the cache stays.            *)

Restarted ==
  /\ phase' = [c \in Calls |-> IF c \in Created THEN "over" ELSE "unused"]
  /\ ops' = [n \in FitNames |-> NoCall]
  /\ pool' = "up" /\ server' = "up" /\ building' = {}
  /\ UNCHANGED <<models, ncalls, name, done, result, warned>>

Restart ==
  /\ \/ CrashAnytime
     \/ server = "cancelling" /\ \A n \in FitNames : ~InFlight(n)
  /\ Restarted
  /\ UNCHANGED file

\* Killed while dump_fit writes.
CrashInDump(c) ==
  /\ CrashAnytime /\ phase[c] = "running"
  /\ Restarted
  /\ DumpFit(name[c], "torn")

Next ==
  \/ \E n \in FitNames : CreateFitCached(n) \/ CreateFit(n) \/ DeleteFit(n)
  \/ \E c \in Calls : CallStep(c) \/ CancelTask(c) \/ CrashInDump(c)
  \/ \E m \in Models : DeleteModel(m) \/ CreateModel(m) \/ BuildEnds(m)
  \/ WorkerDies \/ Close \/ WarnUnfinishedOperations \/ Restart

Spec == Init /\ [][Next]_vars

\* Every call ends (ServicesCall) and the loop runs every callback.
Fairness == \A c \in Calls : WF_vars(CallStep(c))
FairSpec == Spec /\ Fairness
-----------------------------------------------------------------------------
(* Properties.                                                             *)

\* The operation that GET /operations/{id} answers, if any.
GetOperation(n) == IF server = "up" THEN ops[n] ELSE NoCall

\* What GET .../fits/{id} answers: a truncated gzip stream cannot be
\* decompressed.
GetFit(n) == CASE file[n] = "none" -> "404"
               [] file[n] = "torn" -> "500"
               [] OTHER -> file[n]

\* A restart came before the done callback of this operation.
CutOff(c) == phase[c] = "over" /\ ~done[c]

\* views.py:392-397: the messages of a failed run, or half of a fit, are on
\* disk only until the done callback of the call that stored them has run, so
\* that no later request takes them for a fit.  Only a call that a crash has
\* cut off leaves them there.
FailedFitsRemoved ==
  \A n \in FitNames : GetFit(n) \in {"bad", "500"} =>
    \E c \in Created : name[c] = n /\ (phase[c] = "raised" \/ CutOff(c))

\* The operation a client reads under a fit's id says what GET of that fit
\* will answer: a fit if it is done with a fit (or nothing, once deleted), no
\* fit if it is done with an error; it has a result exactly when it is done.
OperationTellsTruth ==
  \A n \in FitNames : GetOperation(n) # NoCall =>
    LET c == GetOperation(n)
    IN /\ done[c] <=> result[c] # "none"
       /\ result[c] = "fit" => GetFit(n) \in {"good", "404"}
       /\ result[c] = "error" => GetFit(n) = "404"

\* A fit, once stored, stays until a client deletes it, or deletes or builds
\* its model: no other request, failing call or restart takes it away.
StoredFitsStay ==
  [][\A n \in FitNames : file[n] = "good" /\ file'[n] # "good" =>
       \/ DeleteFit(n)
       \/ DeleteModel(ModelOf[n]) \/ CreateModel(ModelOf[n])]_vars

\* views.py:165-166: "Any fits associated with the model will also be
\* deleted."  No fit is there without its model.
FitsHaveModel ==
  \A n \in FitNames : GetFit(n) # "404" => ModelOf[n] \in models

\* views.py:409-410: "if a task is cancelled before finishing a warning will
\* be issued".  An operation that became done without a result, because
\* future.exception() raised in its done callback, is one that the log names.
CancelledWarned ==
  \A c \in Created : done[c] /\ result[c] = "none" => c \in warned

\* views.py:368-400: an operation that clients can look up becomes done, however
\* its call ends and whatever else happens under its fit's id, until a later
\* operation takes its id or a restart forgets it.
OperationEnds ==
  \A c \in Calls :
    phase[c] = "created" ~> done[c] \/ ops[name[c]] # c

\* The outcome of an operation: known to clients with `done`.
Outcome(c) ==
  CASE phase[c] = "unused" -> "unknown"
    [] phase[c] = "returned" -> "storing"
    [] phase[c] = "cancelled" -> "stopped"
    [] phase[c] = "over" -> IF result[c] = "none" THEN "stopped" ELSE result[c]
    [] OTHER -> "pending"

Promise == INSTANCE Operations
  WITH fitOf <- name, outcome <- [c \in Calls |-> Outcome(c)],
       stored <- {n \in FitNames : file[n] = "good"}

\* The service implements Operations for patient clients, unless it is killed.
ImplementsOperations == Promise!Spec
=============================================================================
