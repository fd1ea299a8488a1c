--------------------------- MODULE ServicesModule ---------------------------
(***************************************************************************)
(* The functions of a model's services extension module                    *)
(* (stan_services.cpp) as the handlers of views.py call them: which C++    *)
(* objects a function builds, where it may raise, what it deletes, and     *)
(* what the client is answered.                                            *)
(*                                                                         *)
(* The functions run to their end without a step of another request in     *)
(* between.  The objects are raw: what a function does not delete is there *)
(* as long as the process.  Whether a dictionary can be converted is what  *)
(* DataConversion says of it; that a size does not match or that the model *)
(* refuses the data is decided by the request, so that every function      *)
(* called for it sees the same.                                            *)
(***************************************************************************)
EXTENDS DataConversion

CONSTANTS
  MaxRequests, \* bound: requests that reach a function of the module
  Datas,       \* dictionaries a request may have as its data
  Seconds      \* and as its inits or its constrained parameters

ASSUME RequestsAssumption ==
  /\ MaxRequests \in Nat /\ Datas # {} /\ Seconds # {}
  /\ \A data \in Datas \cup Seconds : IsDictionary(data)

VARIABLES
  nreq,    \* requests so far
  req,     \* the request being served
  pc,      \* where the function is
  fn,      \* which of the handler's functions runs
  nbuilt,  \* objects this function has built
  raised,  \* whether Stan raised
  live,    \* objects that exist: the request, the function, the object
  arena,   \* whether autodiff variables are on Stan's stack
  reply    \* the answer to each request

vars == <<nreq, req, pc, fn, nbuilt, raised, live, arena, reply>>

Handlers == {"show_params", "log_prob", "log_prob_grad", "write_array",
             "transform_inits", "create_fit"}

\* The functions a handler calls, in this order; create_fit's is called by
\* services_stub.call in a worker, and its error ends in the operation.
Functions(h) ==
  CASE h = "show_params" ->
         <<"get_param_names", "get_dims", "constrained_param_names">>
    [] h = "create_fit" -> <<"wrapper">>
    [] OTHER -> <<h>>

Sockets == {"logger", "init_writer", "sample_writer", "diagnostic_writer"}

\* The objects a function builds with new, in this order.
Built(f) ==
  CASE f = "wrapper" ->
         <<"var_context", "model", "init_var_context", "logger",
           "init_writer", "sample_writer", "diagnostic_writer">>
    [] f = "transform_inits" -> <<"var_context", "model", "param_var_context">>
    [] OTHER -> <<"var_context", "model">>

\* Plausible slip: the second var_context is forgotten.
FirstContextOnly(f) ==
  ToSet(Built(f)) \ {"init_var_context", "param_var_context"}
\* What it deletes at its end.
Deleted(f) == ToSet(Built(f))

SizeChecked == {"log_prob", "log_prob_grad", "write_array"}

Requests == [handler : Handlers, data : Datas, second : Seconds,
             sized : BOOLEAN, refused : BOOLEAN]

TypeOK ==
  /\ nreq \in 0..MaxRequests /\ req \in Requests
  /\ pc \in {"idle", "build", "check", "run", "delete"}
  /\ fn \in DOMAIN Functions(req.handler)
  /\ nbuilt \in 0..Len(Built(Functions(req.handler)[fn]))
  /\ raised \in BOOLEAN /\ arena \in BOOLEAN
  /\ live \subseteq (1..MaxRequests) \X (1..3) \X
                    ({"var_context", "model", "init_var_context",
                      "param_var_context"} \cup Sockets)
  /\ reply \in [1..MaxRequests -> {"none", "200", "400", "500"}]

Init ==
  /\ nreq = 0 /\ req = CHOOSE r \in Requests : r.handler = "log_prob"
  /\ pc = "idle" /\ fn = 1 /\ nbuilt = 0
  /\ raised = FALSE /\ live = {} /\ arena = FALSE
  /\ reply = [i \in 1..MaxRequests |-> "none"]

Function == Functions(req.handler)[fn]

\* Plausible slip: only the last call is inside the try.
LastGuarded(i) == i = Len(Functions(req.handler))
\* Only the first call is inside a try.
Guarded(i) == i = 1
-----------------------------------------------------------------------------
Receive(r) ==
  /\ pc = "idle" /\ nreq < MaxRequests
  /\ nreq' = nreq + 1 /\ req' = r
  /\ pc' = "build" /\ fn' = 1 /\ nbuilt' = 0 /\ raised' = FALSE
  /\ UNCHANGED <<live, arena, reply>>

Answer(status) == pc' = "idle" /\ reply' = [reply EXCEPT ![nreq] = status]

\* An exception leaves the function.
Raise == Answer(IF Guarded(fn) THEN "400" ELSE "500")

Object == Built(Function)[nbuilt + 1]

Contexts == {"var_context", "init_var_context", "param_var_context"}
Dictionary(object) ==
  IF object = "var_context" THEN req.data ELSE req.second

\* _split_data or a cast raises, or the model's constructor does.
Refused(object) ==
  \/ object \in Contexts /\ ~Convertible(Dictionary(object))
  \/ object = "model" /\ req.refused

Build ==
  /\ pc = "build" /\ ~Refused(Object)
  /\ live' = live \cup {<<nreq, fn, Object>>}
  /\ nbuilt' = nbuilt + 1
  /\ pc' = IF nbuilt + 1 < Len(Built(Function)) THEN "build"
           ELSE IF Function \in SizeChecked THEN "check" ELSE "run"
  /\ UNCHANGED <<nreq, req, fn, raised, arena, reply>>

\* No destructor runs for the raw references.  A socket may fail any time.
BuildThrows ==
  /\ pc = "build" /\ (Refused(Object) \/ Object \in Sockets)
  /\ Raise
  /\ UNCHANGED <<nreq, req, fn, nbuilt, raised, live, arena>>

\* unconstrained_parameters.size() != model.num_params_r() throws; otherwise
\* log_prob puts autodiff variables on the stack.
CheckSize ==
  /\ pc = "check"
  /\ IF req.sized
     THEN pc' = "run" /\ arena' = (Function = "log_prob") /\ reply' = reply
     ELSE Raise /\ arena' = arena
  /\ UNCHANGED <<nreq, req, fn, nbuilt, raised, live>>

\* Plausible slip: the memory is recovered on success only.
RecoverOnSuccess(throws) == throws /\ arena
\* recover_memory, in the try and in the catch.
Recovered(throws) == FALSE

\* Stan's method; the three that name parameters do not raise.
Run ==
  /\ pc = "run" /\ pc' = "delete"
  /\ raised' \in (IF req.handler = "show_params" THEN {FALSE} ELSE BOOLEAN)
  /\ arena' = Recovered(raised')
  /\ UNCHANGED <<nreq, req, fn, nbuilt, live, reply>>

\* Plausible slip: the handler goes on after its last function.
OneMore == fn <= Len(Functions(req.handler))
MoreFunctions == fn < Len(Functions(req.handler))

\* The deletes, then rethrow or return to the handler.
Delete ==
  /\ pc = "delete"
  /\ live' = live \ {<<nreq, fn, object>> : object \in Deleted(Function)}
  /\ IF raised THEN Raise /\ UNCHANGED <<fn, nbuilt>>
     ELSE IF MoreFunctions
          THEN pc' = "build" /\ fn' = fn + 1 /\ nbuilt' = 0 /\ reply' = reply
          ELSE Answer("200") /\ UNCHANGED <<fn, nbuilt>>
  /\ UNCHANGED <<nreq, req, raised, arena>>

Quiet == pc = "idle" /\ nreq = MaxRequests /\ UNCHANGED vars

Next ==
  \/ \E r \in Requests : Receive(r)
  \/ Build \/ BuildThrows \/ CheckSize \/ Run \/ Delete
  \/ Quiet

Spec == Init /\ [][Next]_vars
-----------------------------------------------------------------------------
(* Properties.                                                             *)

\* A function that got as far as Stan's method gives back what it took, the
\* autodiff stack too, whether the method returned or raised: what is left
\* once a request is answered was left by an error before that, although
\* stan_services.cpp:31 says "Caller takes responsibility for deleting."
LeftOnlyByEarlyErrors ==
  pc = "idle" =>
    /\ ~arena
    /\ \A object \in live : reply[object[1]] = "400"
    /\ raised => \A object \in live : object[1] # nreq

\* views.py:264-272: only the first of three calls is in a try.  Still no
\* request is answered 500, because what makes a later call raise makes the
\* first one raise before.
OnlyFirstRaises == \A i \in 1..nreq : reply[i] # "500"

\* utils.py:26-29 against stan_services.cpp:32-71: two pieces of code agree on
\* the order of the elements and on where a variable begins.  Every variable a
\* function has built a context of is there once, as a real or as an integer,
\* and Stan reads at each index the number the client put there.  (Not the
\* numbers only an unsigned integer holds: astype(int) changes them.)
ContextReadsBack ==
  pc # "idle" =>
    \A k \in 1..nbuilt : Built(Function)[k] \in Contexts =>
      LET data == Dictionary(Built(Function)[k])
          context == Context(data)
      IN \A v \in ToSet(data) :
           Dtype(v) # "uint64" =>
             \/ ReadsBack(context.reals, v) /\ ~Names(context.ints, v)
             \/ ReadsBack(context.ints, v) /\ ~Names(context.reals, v)
=============================================================================
