------------------------- MODULE ServicesModule_proofs -------------------------
(***************************************************************************)
(* Proofs about ServicesModule, for any dictionaries and any number of     *)
(* requests: what a function leaves behind, which errors a client sees,    *)
(* and that Stan reads the numbers the client sent.  The last one is about *)
(* arrays of any shape: the lemmas of DataConversion's operators it rests  *)
(* on, from the order of the indices to the loop of _split_data, come      *)
(* before it.                                                              *)
(***************************************************************************)
EXTENDS ServicesModule, SequenceTheorems, FiniteSetTheorems, TLAPS

Objects ==
  {"var_context", "model", "init_var_context", "param_var_context"}
    \cup Sockets
\* The functions of show_params, and all functions.
Naming == {"get_param_names", "get_dims", "constrained_param_names"}
AllFunctions ==
  Naming \cup {"wrapper", "log_prob", "log_prob_grad", "write_array",
               "transform_inits"}

\* Where the function is, and what it has taken.
CallInv ==
  /\ pc # "idle" => nreq \in 1..MaxRequests /\ reply[nreq] = "none"
  /\ \A i \in 1..MaxRequests : i > nreq => reply[i] = "none"
  /\ pc = "build" => nbuilt < Len(Built(Function))
  /\ pc \in {"check", "run", "delete"} => nbuilt = Len(Built(Function))
  /\ pc = "check" => Function \in SizeChecked
  /\ raised => pc \in {"delete", "idle"}
  /\ arena => pc = "run"

\* Every object that exists was left by an earlier request, was left by the
\* last one, or has been built by the function that runs.
KeepInv ==
  \A object \in live :
    \/ object[1] < nreq /\ reply[object[1]] = "400"
    \/ object[1] = nreq /\ pc = "idle" /\ reply[nreq] = "400" /\ ~raised
    \/ pc # "idle" /\ \E k \in 1..nbuilt : object = <<nreq, fn, Built(Function)[k]>>

\* What the first function of a request has been through the next ones need
\* not fear.
RaiseInv ==
  /\ pc # "idle" /\ (nbuilt >= 1 \/ fn > 1) => Convertible(req.data)
  /\ pc # "idle" /\ (nbuilt >= 2 \/ fn > 1) => ~req.refused
  /\ raised => req.handler # "show_params"
  /\ OnlyFirstRaises
-----------------------------------------------------------------------------
(* Lemmas about the tables.                                                *)

\* Only show_params calls more than one function.
LEMMA HandlerFunctions ==
  ASSUME NEW h \in Handlers
  PROVE  /\ DOMAIN Functions(h) = 1..Len(Functions(h))
         /\ Len(Functions(h)) \in {1, 3}
         /\ \A i \in DOMAIN Functions(h) : Functions(h)[i] \in AllFunctions
         /\ h # "show_params" => Len(Functions(h)) = 1
         /\ h = "show_params" =>
              \A i \in DOMAIN Functions(h) : Functions(h)[i] \in Naming
<1>1. CASE h = "show_params"
  <2>1. Functions(h) = <<"get_param_names", "get_dims", "constrained_param_names">>
    BY <1>1 DEF Functions
  <2> QED
    BY <1>1, <2>1 DEF Naming, AllFunctions
<1>2. CASE h = "create_fit"
  <2>1. Functions(h) = <<"wrapper">>
    BY <1>2 DEF Functions
  <2> QED
    BY <1>2, <2>1 DEF AllFunctions
<1>3. CASE h \notin {"show_params", "create_fit"}
  <2>1. Functions(h) = <<h>> /\ h \in AllFunctions
    BY <1>3 DEF Functions, Handlers, AllFunctions
  <2> QED
    BY <1>3, <2>1
<1> QED
  BY <1>1, <1>2, <1>3

\* Every function builds a context of the data, then the model.
LEMMA FunctionObjects ==
  ASSUME NEW f \in AllFunctions
  PROVE  /\ DOMAIN Built(f) = 1..Len(Built(f)) /\ Len(Built(f)) \in {2, 3, 7}
         /\ \A k \in DOMAIN Built(f) : Built(f)[k] \in Objects
         /\ Built(f)[1] = "var_context" /\ Built(f)[2] = "model"
         /\ f \in Naming => Len(Built(f)) = 2
         /\ \A k \in DOMAIN Built(f) : Built(f)[k] = "var_context" => k = 1
<1>1. CASE f = "wrapper"
  <2>1. Built(f) = <<"var_context", "model", "init_var_context", "logger",
                     "init_writer", "sample_writer", "diagnostic_writer">>
    BY <1>1 DEF Built
  <2> QED
    BY <1>1, <2>1 DEF Objects, Sockets, Naming
<1>2. CASE f = "transform_inits"
  <2>1. Built(f) = <<"var_context", "model", "param_var_context">>
    BY <1>2 DEF Built
  <2> QED
    BY <1>2, <2>1 DEF Objects, Sockets, Naming
<1>3. CASE f \notin {"wrapper", "transform_inits"}
  <2>1. Built(f) = <<"var_context", "model">>
    BY <1>3 DEF Built
  <2> QED
    BY <1>3, <2>1 DEF Objects, Sockets
<1> QED
  BY <1>1, <1>2, <1>3
-----------------------------------------------------------------------------
(* Type correctness, with what the function has taken.                     *)

LEMMA CallInit == Init => TypeOK /\ CallInv
<1> SUFFICES ASSUME Init PROVE TypeOK /\ CallInv
  OBVIOUS
<1>1. req \in Requests /\ req.handler = "log_prob"
  <2>1. PICK d \in Datas, s \in Seconds : TRUE
    BY RequestsAssumption
  <2> DEFINE r == [handler |-> "log_prob", data |-> d, second |-> s,
                   sized |-> TRUE, refused |-> FALSE]
  <2>2. r \in Requests /\ r.handler = "log_prob"
    BY DEF Requests, Handlers
  <2> QED
    BY <2>2 DEF Init
<1>2. /\ fn \in DOMAIN Functions(req.handler)
      /\ nbuilt \in 0..Len(Built(Functions(req.handler)[fn]))
  BY <1>1, HandlerFunctions, FunctionObjects DEF Init, Requests
<1>3. TypeOK
  <2>1. /\ nreq \in 0..MaxRequests
        /\ reply \in [1..MaxRequests -> {"none", "200", "400", "500"}]
    BY RequestsAssumption DEF Init
  <2>2. pc \in {"idle", "build", "check", "run", "delete"}
    BY DEF Init
  <2>3. raised \in BOOLEAN /\ arena \in BOOLEAN /\ live = {}
    BY DEF Init
  <2> QED
    BY <1>1, <1>2, <2>1, <2>2, <2>3 DEF TypeOK
<1>4. CallInv
  BY DEF Init, CallInv
<1> QED
  BY <1>3, <1>4

\* The tables at the function that runs.
LEMMA AtFunction ==
  ASSUME TypeOK
  PROVE  /\ req.handler \in Handlers /\ fn \in Nat /\ fn >= 1
         /\ fn <= Len(Functions(req.handler)) /\ fn <= 3
         /\ Function \in AllFunctions /\ nbuilt \in Nat
         /\ nbuilt <= Len(Built(Function)) /\ Len(Built(Function)) \in {2, 3, 7}
         /\ req.handler = "show_params" => Function \in Naming
         /\ req.handler # "show_params" => fn = 1
<1>1. req.handler \in Handlers
  BY DEF TypeOK, Requests
<1>2. Function \in AllFunctions /\ fn \in 1..Len(Functions(req.handler))
  BY <1>1, HandlerFunctions DEF TypeOK, Function
<1> QED
  BY <1>1, <1>2, HandlerFunctions, FunctionObjects DEF TypeOK, Function

LEMMA CallNext == TypeOK /\ CallInv /\ [Next]_vars => TypeOK' /\ CallInv'
<1> SUFFICES ASSUME TypeOK, CallInv, [Next]_vars PROVE TypeOK' /\ CallInv'
  OBVIOUS
<1> USE RequestsAssumption
<1>0. /\ req.handler \in Handlers /\ fn \in Nat /\ fn >= 1
      /\ fn <= Len(Functions(req.handler)) /\ fn <= 3
      /\ Function \in AllFunctions /\ nbuilt \in Nat
      /\ nbuilt <= Len(Built(Function)) /\ Len(Built(Function)) \in {2, 3, 7}
  BY AtFunction
\* A function that ends, with or without an error, answers.
<1>1. ASSUME pc # "idle", NEW status \in {"200", "400", "500"}, Answer(status),
             UNCHANGED <<nreq, req, fn, nbuilt>>, raised' \in BOOLEAN, arena' = FALSE,
             live' \subseteq live
      PROVE  TypeOK' /\ CallInv'
  <2>1. reply' \in [1..MaxRequests -> {"none", "200", "400", "500"}]
    BY <1>1 DEF Answer, TypeOK
  <2>2. TypeOK'
    <3>1. /\ nreq' \in 0..MaxRequests /\ req' \in Requests
          /\ fn' \in DOMAIN Functions(req'.handler)
          /\ nbuilt' \in 0..Len(Built(Functions(req'.handler)[fn']))
      BY <1>1 DEF TypeOK
    <3>2. pc' = "idle" /\ raised' \in BOOLEAN /\ arena' \in BOOLEAN
      BY <1>1 DEF Answer
    <3>3. live' \subseteq (1..MaxRequests) \X (1..3) \X
                    ({"var_context", "model", "init_var_context",
                      "param_var_context"} \cup Sockets)
      BY <1>1 DEF TypeOK
    <3> QED
      BY <2>1, <3>1, <3>2, <3>3 DEF TypeOK
  <2>3. \A i \in 1..MaxRequests : i > nreq => reply'[i] = "none"
    BY <1>1 DEF Answer, TypeOK, CallInv
  <2>4. CallInv'
    BY <1>1, <2>3 DEF Answer, CallInv
  <2> QED
    BY <2>2, <2>4
<1>2. ASSUME NEW r \in Requests, Receive(r) PROVE TypeOK' /\ CallInv'
  <2>1. /\ DOMAIN Functions(r.handler) = 1..Len(Functions(r.handler))
        /\ Len(Functions(r.handler)) \in {1, 3}
        /\ Functions(r.handler)[1] \in AllFunctions
    BY HandlerFunctions DEF Requests
  <2>2. Len(Built(Functions(r.handler)[1])) \in {2, 3, 7}
    BY <2>1, FunctionObjects
  <2>3. /\ nreq' \in 1..MaxRequests /\ nreq' = nreq + 1 /\ req' = r
        /\ pc' = "build" /\ fn' = 1 /\ nbuilt' = 0 /\ raised' = FALSE
        /\ UNCHANGED <<live, arena, reply>> /\ pc = "idle"
    BY <1>2 DEF Receive, TypeOK
  <2>4. Function' = Functions(r.handler)[1]
    BY <2>3 DEF Function
  <2>5. TypeOK'
    <3>1. /\ nreq' \in 0..MaxRequests /\ req' \in Requests
          /\ fn' \in DOMAIN Functions(req'.handler)
          /\ nbuilt' \in 0..Len(Built(Functions(req'.handler)[fn']))
      BY <2>1, <2>2, <2>3
    <3>2. pc' = "build" /\ raised' \in BOOLEAN /\ arena' \in BOOLEAN
      BY <2>3 DEF TypeOK
    <3>3. /\ reply' \in [1..MaxRequests -> {"none", "200", "400", "500"}]
          /\ live' \subseteq (1..MaxRequests) \X (1..3) \X
                    ({"var_context", "model", "init_var_context",
                      "param_var_context"} \cup Sockets)
      BY <2>3 DEF TypeOK
    <3> QED
      BY <3>1, <3>2, <3>3 DEF TypeOK
  <2>6. CallInv'
    <3>1. nbuilt' < Len(Built(Function'))
      <4>1. \A n \in {2, 3, 7} : 0 < n
        OBVIOUS
      <4>2. nbuilt' = 0
        BY <2>3
      <4> QED
        BY <2>2, <2>4, <4>1, <4>2, Zenon
    <3>2. reply'[nreq'] = "none" /\ ~arena' /\ ~raised'
      BY <2>3 DEF CallInv, TypeOK
    <3> QED
      BY <2>3, <3>1, <3>2 DEF TypeOK, CallInv
  <2> QED
    BY <2>5, <2>6
<1>3. CASE Build
  <2>1. /\ pc = "build" /\ nbuilt' = nbuilt + 1
        /\ live' = live \cup {<<nreq, fn, Object>>}
        /\ pc' = IF nbuilt + 1 < Len(Built(Function)) THEN "build"
                 ELSE IF Function \in SizeChecked THEN "check" ELSE "run"
        /\ UNCHANGED <<nreq, req, fn, raised, arena, reply>>
    BY <1>3 DEF Build
  <2>2. Function' = Function
    BY <2>1 DEF Function
  <2>3. nbuilt < Len(Built(Function)) /\ nreq \in 1..MaxRequests
    BY <2>1 DEF CallInv
  <2>4. nbuilt + 1 \in DOMAIN Built(Function) /\ Object \in Objects
    BY <1>0, <2>3, FunctionObjects DEF Object
  <2>5. <<nreq, fn, Object>> \in (1..MaxRequests) \X (1..3) \X Objects
    BY <1>0, <2>3, <2>4
  <2>6. TypeOK'
    BY <1>0, <2>1, <2>3, <2>5 DEF TypeOK, Objects, Function
  <2>7. CallInv'
    BY <1>0, <2>1, <2>2, <2>3 DEF CallInv
  <2> QED
    BY <2>6, <2>7
<1>4. CASE BuildThrows
  BY <1>1, <1>4 DEF BuildThrows, Raise, CallInv, TypeOK
<1>5. CASE CheckSize
  <2>1. CASE req.sized
    <3>1. /\ pc' = "run" /\ arena' \in BOOLEAN /\ pc = "check"
          /\ UNCHANGED <<nreq, req, fn, nbuilt, raised, live, reply>>
      BY <1>5, <2>1 DEF CheckSize
    <3>2. Function' = Function
      BY <3>1 DEF Function
    <3> QED
      BY <3>1, <3>2 DEF TypeOK, CallInv
  <2>2. CASE ~req.sized
    BY <1>1, <1>5, <2>2 DEF CheckSize, Raise, CallInv, TypeOK
  <2> QED
    BY <2>1, <2>2
<1>6. CASE Run
  <2>1. /\ pc = "run" /\ pc' = "delete" /\ raised' \in BOOLEAN /\ arena' = FALSE
        /\ UNCHANGED <<nreq, req, fn, nbuilt, live, reply>>
    BY <1>6 DEF Run, Recovered
  <2>2. Function' = Function
    BY <2>1 DEF Function
  <2> QED
    BY <2>1, <2>2 DEF TypeOK, CallInv
<1>7. CASE Delete
  <2>1. pc = "delete" /\ live' \subseteq live /\ UNCHANGED <<nreq, req, raised, arena>>
        /\ arena = FALSE /\ raised \in BOOLEAN
    BY <1>7 DEF Delete, CallInv, TypeOK
  <2>2. CASE raised \/ ~MoreFunctions
    BY <1>1, <1>7, <2>1, <2>2 DEF Delete, Raise
  <2>3. CASE ~raised /\ MoreFunctions
    <3>1. pc' = "build" /\ fn' = fn + 1 /\ nbuilt' = 0 /\ reply' = reply
      BY <1>7, <2>3 DEF Delete
    <3>2. fn + 1 \in DOMAIN Functions(req.handler)
      BY <1>0, <2>3, HandlerFunctions DEF MoreFunctions
    <3>3. /\ Functions(req.handler)[fn + 1] \in AllFunctions
          /\ Function' = Functions(req.handler)[fn + 1]
      BY <1>0, <2>1, <3>1, <3>2, HandlerFunctions DEF Function
    <3>4. Len(Built(Function')) \in {2, 3, 7}
      BY <3>3, FunctionObjects
    <3>5. TypeOK'
      BY <2>1, <3>1, <3>2, <3>3, <3>4 DEF TypeOK
    <3>6. CallInv'
      <4>1. nbuilt' < Len(Built(Function'))
        <5>1. \A n \in {2, 3, 7} : 0 < n
          OBVIOUS
        <5> QED
          BY <3>1, <3>4, <5>1, Zenon
      <4>2. /\ nreq' \in 1..MaxRequests /\ reply'[nreq'] = "none"
            /\ \A i \in 1..MaxRequests : i > nreq' => reply'[i] = "none"
            /\ ~raised' /\ ~arena' /\ pc' = "build"
        BY <2>1, <2>3, <3>1 DEF CallInv
      <4> QED
        BY <4>1, <4>2 DEF CallInv
    <3> QED
      BY <3>5, <3>6
  <2> QED
    BY <2>2, <2>3
<1>8. CASE UNCHANGED vars
  BY <1>8 DEF vars, TypeOK, CallInv, Function
<1> QED
  BY <1>2, <1>3, <1>4, <1>5, <1>6, <1>7, <1>8 DEF Next, Quiet

LEMMA CallAlways == Spec => [](TypeOK /\ CallInv)
<1>1. TypeOK /\ CallInv /\ [Next]_vars => (TypeOK /\ CallInv)'
  BY CallNext
<1> QED
  BY <1>1, CallInit, PTL DEF Spec

\* Every variable keeps its type, for any dictionaries and any requests.
THEOREM ModuleTypes == Spec => []TypeOK
  BY CallAlways, PTL
-----------------------------------------------------------------------------
(* What is left.                                                           *)

\* Only the first function of a request throws while it builds its objects:
\* the next ones build the same, and they open no socket.
LEMMA BuildThrowsFirst ==
  ASSUME TypeOK, CallInv, RaiseInv, BuildThrows
  PROVE  fn = 1
<1> SUFFICES ASSUME fn # 1 PROVE FALSE
  OBVIOUS
<1>1. fn > 1 /\ Function \in Naming
  BY AtFunction
<1>2. pc = "build" /\ (Refused(Object) \/ Object \in Sockets)
  BY DEF BuildThrows
<1>3. Object \in {"var_context", "model"}
  <2>1. nbuilt \in {0, 1}
    <3>1. Len(Built(Function)) = 2
      BY <1>1, AtFunction, FunctionObjects
    <3>2. nbuilt \in Nat /\ nbuilt < Len(Built(Function))
      BY <1>2, AtFunction DEF CallInv
    <3>3. \A m \in Nat : m < 2 => m \in {0, 1}
      OBVIOUS
    <3> QED
      BY <3>1, <3>2, <3>3, Zenon
  <2> QED
    BY <2>1, AtFunction, FunctionObjects DEF Object
<1>4. Convertible(req.data) /\ ~req.refused
  BY <1>1, <1>2 DEF RaiseInv
<1> QED
  BY <1>2, <1>3, <1>4 DEF Refused, Dictionary, Sockets, Contexts

LEMMA CheckSizeFirst ==
  ASSUME TypeOK, CallInv, CheckSize
  PROVE  fn = 1
<1>1. Function \in SizeChecked
  BY DEF CheckSize, CallInv
<1> QED
  BY <1>1, AtFunction DEF SizeChecked, Naming

\* An error before Stan's method leaves what the function has built, and the
\* first function's errors are answered 400.
LEMMA KeepRaise ==
  ASSUME TypeOK, CallInv, KeepInv, pc # "idle", fn = 1, ~raised, Raise,
         UNCHANGED <<nreq, live, raised>>
  PROVE  KeepInv'
<1>1. pc' = "idle" /\ reply' = [reply EXCEPT ![nreq] = "400"]
      /\ nreq \in 1..MaxRequests
  BY DEF Raise, Answer, Guarded, CallInv
<1>2. reply'[nreq] = "400" /\ \A i \in 1..MaxRequests : i # nreq => reply'[i] = reply[i]
  BY <1>1 DEF TypeOK
<1> SUFFICES ASSUME NEW object \in live
             PROVE  \/ object[1] < nreq /\ reply'[object[1]] = "400"
                    \/ object[1] = nreq /\ reply'[nreq] = "400"
  BY <1>1 DEF KeepInv
<1>3. CASE object[1] < nreq /\ reply[object[1]] = "400"
  <2>1. object[1] \in 1..MaxRequests
    BY DEF TypeOK
  <2> QED
    BY <1>1, <1>2, <1>3, <2>1
<1>4. CASE \E k \in 1..nbuilt : object = <<nreq, fn, Built(Function)[k]>>
  BY <1>2, <1>4
<1> QED
  BY <1>3, <1>4 DEF KeepInv

\* The deletes take what the function has built, and nothing else is the
\* request's.
LEMMA KeepDelete ==
  ASSUME TypeOK, CallInv, KeepInv, Delete
  PROVE  KeepInv'
<1>1. pc = "delete" /\ nbuilt = Len(Built(Function)) /\ nreq \in 1..MaxRequests
      /\ nreq' = nreq /\ reply[nreq] = "none"
  BY DEF Delete, CallInv
<1>2. \A k \in 1..nbuilt : Built(Function)[k] \in Deleted(Function)
  BY <1>1, AtFunction, FunctionObjects DEF Deleted, ToSet
<1>3. ASSUME NEW object \in live'
      PROVE  object[1] < nreq /\ reply[object[1]] = "400"
  <2>1. object \in live
        /\ object \notin {<<nreq, fn, o>> : o \in Deleted(Function)}
    BY <1>3 DEF Delete
  <2>2. ~ \E k \in 1..nbuilt : object = <<nreq, fn, Built(Function)[k]>>
    BY <1>2, <2>1
  <2> QED
    BY <1>1, <2>1, <2>2 DEF KeepInv
<1>4. \A i \in 1..MaxRequests : i # nreq => reply'[i] = reply[i]
  BY <1>1 DEF Delete, Raise, Answer, TypeOK
<1>5. ASSUME NEW object \in live'
      PROVE  object[1] < nreq' /\ reply'[object[1]] = "400"
  <2>1. object \in live /\ object[1] < nreq
    BY <1>3 DEF Delete
  <2>2. object[1] \in 1..MaxRequests
    BY <2>1 DEF TypeOK
  <2>3. object[1] # nreq
    BY <1>1, <2>1, <2>2
  <2> QED
    BY <1>1, <1>3, <1>4, <2>2, <2>3
<1> QED
  BY <1>5 DEF KeepInv

LEMMA KeepNext ==
  TypeOK /\ CallInv /\ KeepInv /\ RaiseInv /\ [Next]_vars => KeepInv'
<1> SUFFICES ASSUME TypeOK, CallInv, KeepInv, RaiseInv, [Next]_vars
             PROVE  KeepInv'
  OBVIOUS
<1>1. ASSUME NEW r \in Requests, Receive(r) PROVE KeepInv'
  <2>1. pc = "idle" /\ nreq' = nreq + 1 /\ live' = live /\ reply' = reply
    BY <1>1 DEF Receive
  <2>2. nreq \in Nat
    BY DEF TypeOK
  <2>3. ASSUME NEW object \in live
        PROVE  object[1] < nreq' /\ reply[object[1]] = "400"
    <3>1. object[1] \in Nat
      BY DEF TypeOK
    <3>2. /\ object[1] < nreq \/ object[1] = nreq
          /\ reply[object[1]] = "400"
      BY <2>1 DEF KeepInv
    <3> QED
      BY <2>1, <2>2, <3>1, <3>2
  <2> QED
    BY <2>1, <2>3 DEF KeepInv
<1>2. CASE Build
  <2>1. /\ pc = "build" /\ pc' # "idle" /\ nbuilt' = nbuilt + 1
        /\ live' = live \cup {<<nreq, fn, Built(Function)[nbuilt + 1]>>}
        /\ UNCHANGED <<nreq, req, fn, raised, reply>>
    BY <1>2 DEF Build, Object
  <2>2. Function' = Function /\ nbuilt \in Nat
    BY <2>1, AtFunction DEF Function
  <2>3. (1..nbuilt) \subseteq 1..nbuilt' /\ nbuilt + 1 \in 1..nbuilt'
    BY <2>1, <2>2
  <2>4. ASSUME NEW object \in live
        PROVE  \/ object[1] < nreq /\ reply[object[1]] = "400"
               \/ \E k \in 1..nbuilt' : object = <<nreq, fn, Built(Function)[k]>>
    BY <2>1, <2>3 DEF KeepInv
  <2> QED
    BY <2>1, <2>2, <2>3, <2>4 DEF KeepInv
<1>3. CASE BuildThrows
  <2>1. fn = 1
    BY <1>3, BuildThrowsFirst
  <2> QED
    BY <1>3, <2>1, KeepRaise DEF BuildThrows, CallInv
<1>4. CASE CheckSize
  <2>1. CASE req.sized
    <3>1. /\ pc = "check" /\ pc' = "run"
          /\ UNCHANGED <<nreq, req, fn, nbuilt, raised, live, reply>>
      BY <1>4, <2>1 DEF CheckSize
    <3> QED
      BY <3>1 DEF KeepInv, Function
  <2>2. CASE ~req.sized
    <3>1. fn = 1
      BY <1>4, CheckSizeFirst
    <3> QED
      BY <1>4, <2>2, <3>1, KeepRaise DEF CheckSize, CallInv
  <2> QED
    BY <2>1, <2>2
<1>5. CASE Run
  <2>1. /\ pc = "run" /\ pc' = "delete"
        /\ UNCHANGED <<nreq, req, fn, nbuilt, live, reply>>
    BY <1>5 DEF Run
  <2> QED
    BY <2>1 DEF KeepInv, Function
<1>6. CASE Delete
  BY <1>6, KeepDelete
<1>7. CASE UNCHANGED vars
  BY <1>7 DEF vars, KeepInv, Function
<1> QED
  BY <1>1, <1>2, <1>3, <1>4, <1>5, <1>6, <1>7 DEF Next, Quiet

LEMMA RaiseNext ==
  TypeOK /\ CallInv /\ RaiseInv /\ [Next]_vars => RaiseInv'
<1> SUFFICES ASSUME TypeOK, CallInv, RaiseInv, [Next]_vars PROVE RaiseInv'
  OBVIOUS
<1>1. ASSUME pc # "idle", NEW status \in {"200", "400"}, Answer(status),
             UNCHANGED <<nreq, req, raised>>
      PROVE  RaiseInv'
  <2>1. pc' = "idle" /\ \A i \in 1..nreq : reply'[i] # "500"
    BY <1>1 DEF Answer, RaiseInv, OnlyFirstRaises, TypeOK
  <2> QED
    BY <1>1, <2>1 DEF RaiseInv, OnlyFirstRaises
<1>2. ASSUME fn = 1, Raise PROVE Answer("400")
  BY <1>2 DEF Raise, Guarded
<1>3. ASSUME NEW r \in Requests, Receive(r) PROVE RaiseInv'
  <2>1. /\ nreq' \in 1..MaxRequests /\ nreq' = nreq + 1 /\ req' = r /\ nreq \in Nat
        /\ fn' = 1 /\ nbuilt' = 0 /\ raised' = FALSE /\ reply' = reply
    BY <1>3, RequestsAssumption DEF Receive, TypeOK
  <2>2. reply[nreq'] = "none"
    BY <2>1 DEF CallInv
  <2>3. \A i \in 1..nreq' : reply[i] # "500"
    BY <2>1, <2>2 DEF RaiseInv, OnlyFirstRaises
  <2> QED
    BY <2>1, <2>3 DEF RaiseInv, OnlyFirstRaises
<1>4. CASE Build
  <2>1. /\ pc = "build" /\ nbuilt' = nbuilt + 1 /\ ~Refused(Object)
        /\ UNCHANGED <<nreq, req, fn, raised, reply>>
    BY <1>4 DEF Build
  <2>2. nbuilt \in Nat /\ fn \in Nat
    BY AtFunction
  <2>3. nbuilt = 0 => Convertible(req.data)
    <3>1. nbuilt = 0 => Object = "var_context"
      BY AtFunction, FunctionObjects DEF Object
    <3> QED
      BY <2>1, <3>1 DEF Refused, Contexts, Dictionary
  <2>4. nbuilt = 1 => ~req.refused
    <3>1. nbuilt = 1 => Object = "model"
      BY AtFunction, FunctionObjects DEF Object
    <3> QED
      BY <2>1, <3>1 DEF Refused
  <2> QED
    BY <2>1, <2>2, <2>3, <2>4 DEF RaiseInv, OnlyFirstRaises
<1>5. CASE BuildThrows
  BY <1>1, <1>2, <1>5, BuildThrowsFirst DEF BuildThrows
<1>6. CASE CheckSize
  <2>1. CASE req.sized
    <3>1. pc = "check" /\ UNCHANGED <<nreq, req, fn, nbuilt, raised, reply>>
      BY <1>6, <2>1 DEF CheckSize
    <3> QED
      BY <3>1 DEF RaiseInv, OnlyFirstRaises
  <2>2. CASE ~req.sized
    BY <1>1, <1>2, <1>6, <2>2, CheckSizeFirst DEF CheckSize
  <2> QED
    BY <2>1, <2>2
<1>7. CASE Run
  <2>1. /\ pc = "run" /\ UNCHANGED <<nreq, req, fn, nbuilt, reply>>
        /\ raised' => req.handler # "show_params"
    BY <1>7 DEF Run
  <2> QED
    BY <2>1 DEF RaiseInv, OnlyFirstRaises
<1>8. CASE Delete
  <2>1. pc = "delete" /\ UNCHANGED <<nreq, req, raised>> /\ fn \in Nat
        /\ nbuilt \in Nat /\ nbuilt >= 2
    BY <1>8, AtFunction DEF Delete, CallInv
  <2>2. CASE raised
    <3>1. fn = 1
      BY <2>2, AtFunction DEF RaiseInv
    <3> QED
      BY <1>1, <1>2, <1>8, <2>1, <2>2, <3>1 DEF Delete
  <2>3. CASE ~raised /\ ~MoreFunctions
    BY <1>1, <1>8, <2>1, <2>3 DEF Delete
  <2>4. CASE ~raised /\ MoreFunctions
    <3>1. fn' = fn + 1 /\ nbuilt' = 0 /\ reply' = reply
      BY <1>8, <2>4 DEF Delete
    <3>2. Convertible(req.data) /\ ~req.refused
      BY <2>1 DEF RaiseInv
    <3> QED
      BY <2>1, <3>1, <3>2 DEF RaiseInv, OnlyFirstRaises
  <2> QED
    BY <2>2, <2>3, <2>4
<1>9. CASE UNCHANGED vars
  BY <1>9 DEF vars, RaiseInv, OnlyFirstRaises
<1> QED
  BY <1>3, <1>4, <1>5, <1>6, <1>7, <1>8, <1>9 DEF Next, Quiet

LEMMA LeftAlways == Spec => [](KeepInv /\ RaiseInv)
<1>1. Init => KeepInv /\ RaiseInv
  BY DEF Init, KeepInv, RaiseInv, OnlyFirstRaises
<1>2. TypeOK /\ CallInv /\ KeepInv /\ RaiseInv /\ [Next]_vars
        => (KeepInv /\ RaiseInv)'
  BY KeepNext, RaiseNext
<1> QED
  BY <1>1, <1>2, CallAlways, PTL DEF Spec

\* A function that got as far as Stan's method gives back what it took; what
\* is left once a request is answered was left by an error before that, for
\* any dictionaries and any sequence of requests.
THEOREM LeftByEarlyErrors == Spec => []LeftOnlyByEarlyErrors
<1>1. TypeOK /\ CallInv /\ KeepInv => LeftOnlyByEarlyErrors
  <2> SUFFICES ASSUME TypeOK, CallInv, KeepInv, pc = "idle"
               PROVE  /\ ~arena
                      /\ \A object \in live : reply[object[1]] = "400"
                      /\ raised => \A object \in live : object[1] # nreq
    BY DEF LeftOnlyByEarlyErrors
  <2>1. ~arena
    BY DEF CallInv
  <2>2. \A object \in live : reply[object[1]] = "400"
    BY DEF KeepInv
  <2>3. ASSUME raised, NEW object \in live PROVE object[1] # nreq
    <3>1. object[1] < nreq /\ object[1] \in Nat /\ nreq \in Nat
      BY <2>3 DEF KeepInv, TypeOK
    <3> QED
      BY <3>1
  <2> QED
    BY <2>1, <2>2, <2>3
<1> QED
  BY <1>1, CallAlways, LeftAlways, PTL

\* No request is answered 500 although only the first call is in a try: what
\* makes a later function of a request raise made the first one raise before.
THEOREM LaterCallsSucceed == Spec => []OnlyFirstRaises
<1>1. RaiseInv => OnlyFirstRaises
  BY DEF RaiseInv
<1> QED
  BY <1>1, LeftAlways, PTL
-----------------------------------------------------------------------------
(* The order of the elements: IndexAt against Before.                      *)

\* Induction over the numbers of a set.
LEMMA Numbering ==
  ASSUME NEW S, 0 \in S, \A n \in Nat : n \in S => n + 1 \in S
  PROVE  Nat \subseteq S
<1> SUFFICES ASSUME NEW n \in Nat, n \notin S PROVE FALSE
  OBVIOUS
<1> DEFINE T == {m \in 0..n : m \in S}
<1> DEFINE U == T \ {0}
<1> DEFINE next == [m \in T |-> m + 1]
<1>1. IsFiniteSet(T) /\ 0 \in T
  <2>1. IsFiniteSet(0..n)
    BY FS_Interval
  <2>2. T \in SUBSET (0..n) /\ 0 \in T
    OBVIOUS
  <2> QED
    BY <2>1, <2>2, FS_Subset
<1>2. IsFiniteSet(U) /\ Cardinality(U) = Cardinality(T) - 1 /\ Cardinality(T) \in Nat
  BY <1>1, FS_RemoveElement, FS_CardinalityType
<1>3. next \in Injection(T, U)
  <2>1. \A m \in T : m + 1 \in U
    OBVIOUS
  <2>2. \A a, b \in T : a + 1 = b + 1 => a = b
    OBVIOUS
  <2> QED
    BY <2>1, <2>2 DEF Injection, IsInjective
<1>4. Cardinality(T) <= Cardinality(U)
  <2> HIDE DEF T, U, next
  <2> QED
    BY <1>2, <1>3, FS_Injection
<1> QED
  BY <1>2, <1>4

LEMMA Indexing ==
  ASSUME NEW shape \in Seq(Nat)
  PROVE  /\ DOMAIN shape = 1..Len(shape)
         /\ \A i : i \in Indices(shape) <=>
              /\ i \in [1..Len(shape) -> Nat]
              /\ \A d \in 1..Len(shape) : i[d] < shape[d]
<1>1. DOMAIN shape = 1..Len(shape) /\ \A d \in 1..Len(shape) : shape[d] \in Nat
  OBVIOUS
<1> DEFINE largest == {0} \cup {shape[d] - 1 : d \in DOMAIN shape}
           some == UNION {0..n : n \in largest}
<1>2. Indices(shape) = {i \in [DOMAIN shape -> some] :
                          \A d \in DOMAIN shape : i[d] < shape[d]}
  BY DEF Indices
<1>3. some \subseteq Nat
  BY <1>1
<1>4. ASSUME NEW i \in [1..Len(shape) -> Nat],
             \A d \in 1..Len(shape) : i[d] < shape[d]
      PROVE  i \in [DOMAIN shape -> some]
  <2>1. ASSUME NEW d \in 1..Len(shape) PROVE i[d] \in some
    <3>1. i[d] \in 0..shape[d] - 1 /\ shape[d] - 1 \in largest
      BY <1>1, <1>4
    <3> QED
      BY <3>1
  <2> HIDE DEF some
  <2> QED
    BY <1>1, <2>1
<1> HIDE DEF some, largest
<1> QED
  BY <1>1, <1>2, <1>3, <1>4

\* The indices of the first d dimensions.
LEMMA PrefixIndices ==
  ASSUME NEW shape \in Seq(Nat), NEW d \in 0..Len(shape)
  PROVE  /\ SubSeq(shape, 1, d) \in Seq(Nat)
         /\ \A i : i \in Indices(SubSeq(shape, 1, d)) <=>
              /\ i \in [1..d -> Nat]
              /\ \A e \in 1..d : i[e] < shape[e]
<1>1. /\ SubSeq(shape, 1, d) \in Seq(Nat) /\ Len(SubSeq(shape, 1, d)) = d
      /\ \A e \in 1..d : SubSeq(shape, 1, d)[e] = shape[e]
  OBVIOUS
<1> QED
  BY <1>1, Indexing

\* A dimension more: an index of the earlier ones, and one below its length.
LEMMA OneMoreDimension ==
  ASSUME NEW shape \in Seq(Nat), NEW d \in 1..Len(shape),
         IsFiniteSet(Indices(SubSeq(shape, 1, d - 1)))
  PROVE  /\ IsFiniteSet(Indices(SubSeq(shape, 1, d)))
         /\ Size(SubSeq(shape, 1, d)) = Size(SubSeq(shape, 1, d - 1)) * shape[d]
<1> DEFINE Short == Indices(SubSeq(shape, 1, d - 1))
           Long == Indices(SubSeq(shape, 1, d))
           Digits == 0..shape[d] - 1
           Joined(a, last) == [e \in 1..d |-> IF e = d THEN last ELSE a[e]]
           join == [x \in Short \X Digits |-> Joined(x[1], x[2])]
<1>1. shape[d] \in Nat /\ d \in 0..Len(shape) /\ d - 1 \in 0..Len(shape) /\ d \in Nat
  OBVIOUS
<1>2. \A i : i \in Short <=> /\ i \in [1..d - 1 -> Nat]
                             /\ \A e \in 1..d - 1 : i[e] < shape[e]
  BY <1>1, PrefixIndices
<1>3. \A i : i \in Long <=> /\ i \in [1..d -> Nat]
                            /\ \A e \in 1..d : i[e] < shape[e]
  BY <1>1, PrefixIndices
<1> HIDE DEF Short, Long
<1>4. ASSUME NEW a \in Short, NEW last \in Digits
      PROVE  Joined(a, last) \in Long
  <2>1. a \in [1..d - 1 -> Nat] /\ \A e \in 1..d - 1 : a[e] < shape[e]
    BY <1>2
  <2>2. last \in Nat /\ last < shape[d]
    BY <1>1
  <2>3. \A e \in 1..d : e # d => e \in 1..d - 1
    BY <1>1
  <2>4. ASSUME NEW e \in 1..d
        PROVE  Joined(a, last)[e] \in Nat /\ Joined(a, last)[e] < shape[e]
    BY <2>1, <2>2, <2>3
  <2> QED
    BY <1>3, <2>4
<1>5. ASSUME NEW a \in Short, NEW last \in Digits, NEW b \in Short, NEW final \in Digits,
             Joined(a, last) = Joined(b, final)
      PROVE  a = b /\ last = final
  <2>1. \A e \in 1..d : Joined(a, last)[e] = Joined(b, final)[e]
    BY <1>5
  <2>2. last = final
    <3>1. d \in 1..d
      BY <1>1
    <3> QED
      BY <2>1, <3>1
  <2>3. \A e \in 1..d - 1 : a[e] = b[e]
    <3>1. \A e \in 1..d - 1 : e \in 1..d /\ e # d
      BY <1>1
    <3> QED
      BY <2>1, <3>1
  <2>4. a \in [1..d - 1 -> Nat] /\ b \in [1..d - 1 -> Nat]
    BY <1>2
  <2> QED
    BY <2>2, <2>3, <2>4
<1>6. ASSUME NEW i \in Long
      PROVE  \E a \in Short, last \in Digits : Joined(a, last) = i
  <2> DEFINE a == [e \in 1..d - 1 |-> i[e]]
  <2>1. i \in [1..d -> Nat] /\ \A e \in 1..d : i[e] < shape[e]
    BY <1>3
  <2>2. a \in Short
    <3>1. \A e \in 1..d - 1 : e \in 1..d
      BY <1>1
    <3> QED
      BY <1>2, <2>1, <3>1
  <2>3. i[d] \in Digits
    <3>1. d \in 1..d
      BY <1>1
    <3> QED
      BY <1>1, <2>1, <3>1
  <2>4. \A e \in 1..d : (IF e = d THEN i[d] ELSE a[e]) = i[e]
    BY <1>1
  <2>5. Joined(a, i[d]) = i
    BY <2>1, <2>4
  <2> QED
    BY <2>2, <2>3, <2>5
<1>7. join \in Bijection(Short \X Digits, Long)
  <2> HIDE DEF Joined, Digits
  <2>1. join \in [Short \X Digits -> Long]
    BY <1>4
  <2>2. ASSUME NEW x \in Short \X Digits, NEW y \in Short \X Digits, join[x] = join[y]
        PROVE  x = y
    BY <1>5, <2>2
  <2>3. ASSUME NEW i \in Long PROVE \E x \in Short \X Digits : join[x] = i
    <3>1. PICK a \in Short, last \in Digits : Joined(a, last) = i
      BY <1>6
    <3>2. <<a, last>> \in Short \X Digits /\ join[<<a, last>>] = i
      BY <3>1
    <3> QED
      BY <3>2
  <2> HIDE DEF join
  <2> QED
    BY <2>1, <2>2, <2>3 DEF Bijection, Injection, IsInjective, Surjection
<1>8. IsFiniteSet(Digits) /\ Cardinality(Digits) = shape[d]
  <2>1. 0 \in Int /\ shape[d] - 1 \in Int
    BY <1>1
  <2>2. (IF 0 > shape[d] - 1 THEN 0 ELSE (shape[d] - 1) - 0 + 1) = shape[d]
    BY <1>1
  <2> QED
    BY <2>1, <2>2, FS_Interval
<1>9. /\ IsFiniteSet(Short \X Digits)
      /\ Cardinality(Short \X Digits) = Cardinality(Short) * Cardinality(Digits)
  <2> HIDE DEF Digits
  <2> QED
    BY <1>8, FS_Product DEF Short
<1>10. IsFiniteSet(Long) /\ Cardinality(Long) = Cardinality(Short \X Digits)
  <2> HIDE DEF Digits, join
  <2> QED
    BY <1>7, <1>9, FS_Bijection DEF ExistsBijection
<1> QED
  BY <1>8, <1>9, <1>10 DEF Short, Long, Size

\* The strides of an array: how many indices its first dimensions have.
LEMMA Strides ==
  ASSUME NEW shape \in Seq(Nat)
  PROVE  /\ \A d \in 0..Len(shape) : /\ IsFiniteSet(Indices(SubSeq(shape, 1, d)))
                                     /\ Size(SubSeq(shape, 1, d)) \in Nat
         /\ Size(SubSeq(shape, 1, 0)) = 1
         /\ SubSeq(shape, 1, Len(shape)) = shape
         /\ IsFiniteSet(Indices(shape)) /\ Size(shape) \in Nat
<1> DEFINE Done == {d \in Nat : d <= Len(shape) =>
                                  IsFiniteSet(Indices(SubSeq(shape, 1, d)))}
<1>1. IsFiniteSet(Indices(SubSeq(shape, 1, 0))) /\ Size(SubSeq(shape, 1, 0)) = 1
  <2>1. \A i : i \in Indices(SubSeq(shape, 1, 0)) <=> i \in [1..0 -> Nat]
    BY PrefixIndices
  <2>2. Indices(SubSeq(shape, 1, 0)) = {[e \in 1..0 |-> 0]}
    <3>1. 1..0 = {}
      OBVIOUS
    <3>2. \A i \in [1..0 -> Nat] : i = [e \in 1..0 |-> 0]
      BY <3>1
    <3>3. [e \in 1..0 |-> 0] \in [1..0 -> Nat]
      BY <3>1
    <3> QED
      BY <2>1, <3>2, <3>3
  <2> QED
    BY <2>2, FS_Singleton DEF Size
<1>2. 0 \in Done
  BY <1>1
<1>3. ASSUME NEW d \in Nat, d \in Done PROVE d + 1 \in Done
  <2> SUFFICES ASSUME d + 1 <= Len(shape)
               PROVE  IsFiniteSet(Indices(SubSeq(shape, 1, d + 1)))
    OBVIOUS
  <2>1. d + 1 \in 1..Len(shape) /\ (d + 1) - 1 = d /\ d <= Len(shape)
    OBVIOUS
  <2> QED
    BY <1>3, <2>1, OneMoreDimension
<1>4. Nat \subseteq Done
  <2> HIDE DEF Done
  <2> QED
    BY <1>2, <1>3, Numbering
<1>5. \A d \in 0..Len(shape) : /\ IsFiniteSet(Indices(SubSeq(shape, 1, d)))
                               /\ Size(SubSeq(shape, 1, d)) \in Nat
  BY <1>4, FS_CardinalityType DEF Size
<1>6. SubSeq(shape, 1, Len(shape)) = shape
  OBVIOUS
<1>7. IsFiniteSet(Indices(shape)) /\ Size(shape) \in Nat
  <2>1. Len(shape) \in 0..Len(shape)
    OBVIOUS
  <2> QED
    BY <1>5, <1>6, <2>1, Zenon
<1> QED
  BY <1>1, <1>5, <1>6, <1>7

\* An array with an element has a positive length in every dimension.
LEMMA StridesPositive ==
  ASSUME NEW shape \in Seq(Nat), Size(shape) # 0
  PROVE  /\ \A d \in 1..Len(shape) : shape[d] \in Nat \ {0}
         /\ \A d \in 0..Len(shape) : Size(SubSeq(shape, 1, d)) \in Nat \ {0}
<1>1. IsFiniteSet(Indices(shape))
  BY Strides
<1>2. Indices(shape) # {}
  BY <1>1, FS_EmptySet DEF Size
<1>3. PICK i \in Indices(shape) : TRUE
  BY <1>2
<1>4. i \in [1..Len(shape) -> Nat] /\ \A d \in 1..Len(shape) : i[d] < shape[d]
  BY <1>3, Indexing
<1>5. ASSUME NEW d \in 0..Len(shape)
      PROVE  Size(SubSeq(shape, 1, d)) \in Nat \ {0}
  <2>1. (1..d) \subseteq 1..Len(shape)
    OBVIOUS
  <2>2. [e \in 1..d |-> i[e]] \in Indices(SubSeq(shape, 1, d))
    BY <1>4, <2>1, PrefixIndices
  <2>3. IsFiniteSet(Indices(SubSeq(shape, 1, d))) /\ Size(SubSeq(shape, 1, d)) \in Nat
    BY Strides
  <2> QED
    BY <2>2, <2>3, FS_EmptySet DEF Size
<1>6. \A d \in 1..Len(shape) : shape[d] \in Nat
  OBVIOUS
<1> QED
  BY <1>4, <1>5, <1>6

LEMMA PlaceHasIndex ==
  ASSUME NEW shape \in Seq(Nat), NEW place \in Nat, place < Size(shape)
  PROVE  IndexAt(shape, place) \in Indices(shape)
<1>1. Size(shape) # 0
  <2>1. Size(shape) \in Nat
    BY Strides
  <2> QED
    BY <2>1
<1>2. ASSUME NEW d \in 1..Len(shape)
      PROVE  /\ (place \div Size(SubSeq(shape, 1, d - 1))) % shape[d] \in Nat
             /\ (place \div Size(SubSeq(shape, 1, d - 1))) % shape[d] < shape[d]
  <2> DEFINE stride == Size(SubSeq(shape, 1, d - 1))
             length == shape[d]
  <2>1. stride \in Nat \ {0} /\ length \in Nat \ {0}
    BY <1>1, d - 1 \in 0..Len(shape), StridesPositive
  <2> HIDE DEF stride, length
  <2>2. place \div stride \in Nat
    BY <2>1
  <2>3. (place \div stride) % length \in Nat /\ (place \div stride) % length < length
    BY <2>1, <2>2
  <2> QED
    BY <2>3 DEF stride, length
<1>3. DOMAIN shape = 1..Len(shape)
  OBVIOUS
<1> QED
  BY <1>2, <1>3, Indexing DEF IndexAt

\* A set of numbers up to a bound has a largest.
LEMMA Largest ==
  ASSUME NEW n \in Nat, NEW S \in SUBSET (0..n), S # {}
  PROVE  \E m \in S : \A x \in S : x <= m
<1> SUFFICES ASSUME \A m \in S : \E x \in S : m < x PROVE FALSE
  OBVIOUS
<1> DEFINE Passed == {k \in Nat : \E x \in S : k <= x}
<1>1. 0 \in Passed
  <2>1. PICK x \in S : TRUE
    OBVIOUS
  <2>2. 0 <= x
    OBVIOUS
  <2> QED
    BY <2>2
<1>2. ASSUME NEW k \in Nat, k \in Passed PROVE k + 1 \in Passed
  <2>1. PICK x \in S : k <= x
    BY <1>2
  <2>2. PICK y \in S : x < y
    OBVIOUS
  <2>3. k + 1 <= y
    BY <2>1, <2>2
  <2> QED
    BY <2>3
<1>3. Nat \subseteq Passed
  <2> HIDE DEF Passed
  <2> QED
    BY <1>1, <1>2, Numbering
<1>4. n + 1 \in Nat /\ \A x \in S : ~(n + 1 <= x)
  OBVIOUS
<1>5. n + 1 \in Passed
  BY <1>3, <1>4
<1> QED
  BY <1>4, <1>5

LEMMA DivisionFacts ==
  /\ \A a, s \in Nat : s # 0 => a \div s \in Nat
  /\ \A a, s \in Nat : s # 0 /\ a < s => a \div s = 0
  /\ \A a, b, s \in Nat : s # 0 /\ a <= b => a \div s <= b \div s
  /\ \A a, s, t \in Nat : s # 0 /\ t # 0 => a \div (s * t) = (a \div s) \div t
  /\ \A a, b, t \in Nat :
       t # 0 /\ a < b /\ a \div t = b \div t => a % t < b % t
<1>1. \A a, s \in Nat : s # 0 => a \div s \in Nat
  OBVIOUS
<1>2. \A a, s \in Nat : s # 0 /\ a < s => a \div s = 0
  OBVIOUS
<1>3. \A a, b, s \in Nat : s # 0 /\ a <= b => a \div s <= b \div s
  OBVIOUS
<1>4. \A a, s, t \in Nat : s # 0 /\ t # 0 => a \div (s * t) = (a \div s) \div t
  OBVIOUS
<1>5. \A a, b, t \in Nat :
        t # 0 /\ a < b /\ a \div t = b \div t => a % t < b % t
  OBVIOUS
<1> QED
  BY <1>1, <1>2, <1>3, <1>4, <1>5

\* order="F": the places are in the order Stan reads the indices in.
LEMMA PlacesInOrder ==
  ASSUME NEW shape \in Seq(Nat), NEW p \in Nat, NEW q \in Nat,
         p < q, q < Size(shape)
  PROVE  Before(IndexAt(shape, p), IndexAt(shape, q))
<1> DEFINE n == Len(shape)
           stride(d) == Size(SubSeq(shape, 1, d))
           Differ == {d \in 0..n : p \div stride(d) # q \div stride(d)}
<1>1. /\ n \in Nat /\ \A d \in 0..n : stride(d) \in Nat \ {0}
      /\ \A d \in 1..n : shape[d] \in Nat \ {0}
      /\ stride(0) = 1 /\ stride(n) = Size(shape)
  <2>1. Size(shape) \in Nat
    BY Strides
  <2>2. Size(shape) # 0
    BY <2>1
  <2>3. \A d \in 0..n : stride(d) \in Nat \ {0}
    BY <2>2, StridesPositive
  <2>4. stride(0) = 1 /\ stride(n) = Size(shape)
    BY Strides
  <2> QED
    BY <2>2, <2>3, <2>4, StridesPositive
<1>2. \A d \in 1..n : stride(d) = stride(d - 1) * shape[d]
  <2> SUFFICES ASSUME NEW d \in 1..n PROVE stride(d) = stride(d - 1) * shape[d]
    OBVIOUS
  <2>1. IsFiniteSet(Indices(SubSeq(shape, 1, d - 1)))
    BY d - 1 \in 0..Len(shape), Strides
  <2> QED
    BY <2>1, OneMoreDimension
<1> HIDE DEF stride
<1>3. 0 \in Differ
  BY <1>1
<1>4. PICK last \in Differ : \A d \in Differ : d <= last
  <2> HIDE DEF Differ
  <2>1. Differ \in SUBSET (0..n) /\ n \in Nat
    BY <1>1 DEF Differ
  <2> QED
    BY <1>3, <2>1, Largest
<1>5. last \in 0..n /\ last # n
  BY <1>1, DivisionFacts
<1>6. last + 1 \in 1..n /\ (last + 1) - 1 = last /\ last \in Nat
  BY <1>1, <1>5
<1>7. \A d \in 0..n : d > last => p \div stride(d) = q \div stride(d)
  BY <1>1, <1>4, <1>5
<1> DEFINE low == p \div stride(last)
           high == q \div stride(last)
           length == shape[last + 1]
<1>8. low \in Nat /\ high \in Nat /\ low < high
  <2>1. p \div stride(last) # q \div stride(last)
    BY <1>4
  <2>2. stride(last) \in Nat /\ stride(last) # 0 /\ p <= q
    BY <1>1, <1>5
  <2>3. low \in Nat /\ high \in Nat /\ low <= high
    BY <2>2, DivisionFacts
  <2> QED
    BY <2>1, <2>3
<1>9. length \in Nat /\ length # 0 /\ low \div length = high \div length
  <2>1. p \div stride(last + 1) = q \div stride(last + 1)
    BY <1>6, <1>7, last + 1 \in 0..n, last + 1 > last
  <2>2. stride(last + 1) = stride(last) * length /\ length \in Nat /\ length # 0
    BY <1>1, <1>2, <1>6
  <2>3. stride(last) \in Nat /\ stride(last) # 0
    BY <1>1, <1>5
  <2>4. /\ p \div (stride(last) * length) = low \div length
        /\ q \div (stride(last) * length) = high \div length
    BY <2>2, <2>3, DivisionFacts
  <2> QED
    BY <2>1, <2>2, <2>4
<1>10. low % length < high % length
  <2> HIDE DEF low, high, length
  <2> QED
    BY <1>8, <1>9, DivisionFacts
<1>11. DOMAIN shape = 1..n
  OBVIOUS
<1>12. /\ DOMAIN IndexAt(shape, p) = 1..n
       /\ \A d \in 1..n : /\ IndexAt(shape, p)[d] = (p \div stride(d - 1)) % shape[d]
                          /\ IndexAt(shape, q)[d] = (q \div stride(d - 1)) % shape[d]
  BY <1>11 DEF IndexAt, stride
<1>13. IndexAt(shape, p)[last + 1] < IndexAt(shape, q)[last + 1]
  BY <1>6, <1>10, <1>12
<1>14. ASSUME NEW e \in 1..n, e > last + 1
       PROVE  IndexAt(shape, p)[e] = IndexAt(shape, q)[e]
  <2>1. e - 1 \in 0..n /\ e - 1 > last
    BY <1>6, <1>14
  <2> QED
    BY <1>7, <1>12, <2>1
<1> QED
  BY <1>6, <1>12, <1>13, <1>14 DEF Before

LEMMA BeforeAsymmetric ==
  ASSUME NEW n \in Nat, NEW i \in [1..n -> Nat], NEW j \in [1..n -> Nat], Before(i, j)
  PROVE  ~Before(j, i)
<1> SUFFICES ASSUME Before(j, i) PROVE FALSE
  OBVIOUS
<1>1. PICK d \in 1..n : i[d] < j[d] /\ \A e \in 1..n : e > d => i[e] = j[e]
  BY DEF Before
<1>2. PICK c \in 1..n : j[c] < i[c] /\ \A e \in 1..n : e > c => j[e] = i[e]
  BY DEF Before
<1>3. i[d] \in Nat /\ j[d] \in Nat /\ i[c] \in Nat /\ j[c] \in Nat
  OBVIOUS
<1>4. c # d /\ ~(c > d) /\ ~(d > c)
  BY <1>1, <1>2, <1>3
<1> QED
  BY <1>4

\* An index is at the place that counts the indices before it.
LEMMA IndexHasPlace ==
  ASSUME NEW shape \in Seq(Nat), NEW i \in Indices(shape)
  PROVE  \E p \in 0..Size(shape) - 1 :
           /\ IndexAt(shape, p) = i
           /\ Cardinality({j \in Indices(shape) : Before(j, i)}) = p
<1> DEFINE size == Size(shape)
           at == [p \in 0..size - 1 |-> IndexAt(shape, p)]
<1>1. size \in Nat /\ IsFiniteSet(Indices(shape)) /\ size = Cardinality(Indices(shape))
  BY Strides DEF Size
<1>2. \A p \in 0..size - 1 : p \in Nat /\ p < size
  BY <1>1
<1>3. \A p \in 0..size - 1 : IndexAt(shape, p) \in Indices(shape)
  BY <1>2, PlaceHasIndex
<1>4. \A j \in Indices(shape) : j \in [1..Len(shape) -> Nat]
  BY Indexing
<1>5. \A p, q \in 0..size - 1 : p < q => Before(IndexAt(shape, p), IndexAt(shape, q))
  BY <1>2, PlacesInOrder
<1>6. \A j, k \in Indices(shape) : Before(j, k) => ~Before(k, j)
  BY <1>4, BeforeAsymmetric, Len(shape) \in Nat
<1>7. \A p, q \in 0..size - 1 : IndexAt(shape, p) = IndexAt(shape, q) => p = q
  <2> SUFFICES ASSUME NEW p \in 0..size - 1, NEW q \in 0..size - 1,
                      IndexAt(shape, p) = IndexAt(shape, q), p # q
               PROVE  FALSE
    OBVIOUS
  <2>1. p < q \/ q < p
    BY <1>2
  <2>2. ~Before(IndexAt(shape, p), IndexAt(shape, p))
    BY <1>3, <1>6
  <2> QED
    BY <1>5, <2>1, <2>2
<1>8. IsFiniteSet(0..size - 1) /\ Cardinality(0..size - 1) = size
  <2>1. 0 \in Int /\ size - 1 \in Int
    BY <1>1
  <2>2. (IF 0 > size - 1 THEN 0 ELSE (size - 1) - 0 + 1) = size
    BY <1>1
  <2> HIDE DEF size
  <2> QED
    BY <2>1, <2>2, FS_Interval
<1>9. at \in Surjection(0..size - 1, Indices(shape))
  <2>1. at \in [0..size - 1 -> Indices(shape)]
    BY <1>3
  <2>2. at \in Injection(0..size - 1, Indices(shape))
    <3>1. \A p, q \in 0..size - 1 : at[p] = at[q] => p = q
      BY <1>7
    <3> HIDE DEF at, size
    <3> QED
      BY <2>1, <3>1 DEF Injection, IsInjective
  <2> HIDE DEF at, size
  <2> QED
    BY <1>1, <1>8, <2>2, FS_Injection
<1>10. PICK p \in 0..size - 1 : IndexAt(shape, p) = i
  BY <1>9 DEF Surjection
<1> DEFINE Earlier == {j \in Indices(shape) : Before(j, i)}
           until == [q \in 0..p - 1 |-> IndexAt(shape, q)]
<1>11. \A q \in 0..p - 1 : q \in 0..size - 1 /\ q < p
  BY <1>1
<1>12. until \in Bijection(0..p - 1, Earlier)
  <2>1. until \in [0..p - 1 -> Earlier]
    BY <1>3, <1>5, <1>10, <1>11
  <2>2. \A q, r \in 0..p - 1 : until[q] = until[r] => q = r
    BY <1>7, <1>11
  <2>3. ASSUME NEW j \in Earlier PROVE \E q \in 0..p - 1 : until[q] = j
    <3>1. PICK q \in 0..size - 1 : IndexAt(shape, q) = j
      BY <1>9 DEF Surjection
    <3>2. ~(p < q) /\ p # q
      BY <1>3, <1>5, <1>6, <1>10, <3>1
    <3>3. q \in 0..p - 1
      BY <1>2, <3>2
    <3> QED
      BY <3>1, <3>3
  <2> HIDE DEF until, Earlier
  <2> QED
    BY <2>1, <2>2, <2>3 DEF Bijection, Injection, IsInjective, Surjection
<1>13. IsFiniteSet(0..p - 1) /\ Cardinality(0..p - 1) = p
  <2>1. 0 \in Int /\ p - 1 \in Int
    BY <1>2
  <2>2. (IF 0 > p - 1 THEN 0 ELSE (p - 1) - 0 + 1) = p
    BY <1>2
  <2> QED
    BY <2>1, <2>2, FS_Interval
<1>14. Cardinality(Earlier) = p
  <2> HIDE DEF until, Earlier
  <2> QED
    BY <1>12, <1>13, FS_Bijection DEF ExistsBijection
<1> QED
  BY <1>10, <1>14
-----------------------------------------------------------------------------
(* Where a variable begins: the loop of _split_data against Offset.        *)

\* What a dictionary says of each variable.
IsVariable(v) ==
  /\ v.shape \in Seq(Nat)
  /\ v.at \in [Indices(v.shape) -> [kind : Kinds, n : Int]]

\* What a variable adds to the values of its sort.
LEMMA NumbersInOrder ==
  ASSUME NEW v, IsVariable(v)
  PROVE  /\ Numbers(v) \in Seq(Int) /\ Len(Numbers(v)) = Size(v.shape)
         /\ \A m \in 1..Size(v.shape) :
              Numbers(v)[m] =
                IF Integral(v) THEN AsLong(v.at[IndexAt(v.shape, m - 1)].n)
                ELSE v.at[IndexAt(v.shape, m - 1)].n
<1> DEFINE size == Size(v.shape)
           number(m) == IF Integral(v) THEN AsLong(v.at[IndexAt(v.shape, m - 1)].n)
                        ELSE v.at[IndexAt(v.shape, m - 1)].n
<1>1. size \in Nat /\ v.shape \in Seq(Nat)
  BY Strides DEF IsVariable
<1>2. ASSUME NEW m \in 1..size
      PROVE  number(m) \in Int
  <2>1. m - 1 \in Nat /\ m - 1 < size
    BY <1>1
  <2>2. IndexAt(v.shape, m - 1) \in Indices(v.shape)
    BY <1>1, <2>1, PlaceHasIndex
  <2>3. v.at[IndexAt(v.shape, m - 1)].n \in Int
    BY <2>2 DEF IsVariable
  <2> QED
    BY <2>3, WidthAssumption DEF AsLong
<1>3. Numbers(v) = [m \in 1..size |-> number(m)]
  BY DEF Numbers, Ravel
<1> HIDE DEF size, number
<1>4. Numbers(v) \in Seq(Int) /\ Len(Numbers(v)) = size
  BY <1>1, <1>2, <1>3
<1> QED
  BY <1>3, <1>4 DEF size, number

\* The places of the values of the variables before the k-th.
Places(dims, k) == UNION {{m} \X Indices(dims[m]) : m \in 1..k - 1}

LEMMA OneMoreVariable ==
  ASSUME NEW dims \in Seq(Seq(Nat)), NEW shape \in Seq(Nat),
         IsFiniteSet(Places(dims, Len(dims) + 1))
  PROVE  /\ \A k \in 1..Len(dims) + 1 : Offset(Append(dims, shape), k) = Offset(dims, k)
         /\ IsFiniteSet(Places(Append(dims, shape), Len(dims) + 2))
         /\ Offset(Append(dims, shape), Len(dims) + 2)
              = Offset(dims, Len(dims) + 1) + Size(shape)
<1> DEFINE n == Len(dims)
           more == Append(dims, shape)
<1>1. /\ n \in Nat /\ more[n + 1] = shape
      /\ \A m \in 1..n : more[m] = dims[m]
  OBVIOUS
<1> HIDE DEF n, more
<1>2. ASSUME NEW k \in 1..n + 1 PROVE Places(more, k) = Places(dims, k)
  <2>1. (1..k - 1) \subseteq 1..n
    BY <1>1
  <2> QED
    BY <1>1, <2>1 DEF Places
<1> DEFINE new == {n + 1} \X Indices(shape)
<1>3. Places(more, n + 2) = Places(dims, n + 1) \cup new
  <2>1. 1..(n + 2) - 1 = (1..n) \cup {n + 1} /\ (n + 1) - 1 = n
    <3>1. (n + 1) - 1 = n /\ (n + 2) - 1 = n + 1
      BY <1>1
    <3>2. \A m \in Nat : m \in 1..n + 1 <=> m \in 1..n \/ m = n + 1
      BY <1>1
    <3>3. 1..n + 1 \subseteq Nat /\ 1..n \subseteq Nat /\ n + 1 \in Nat
      BY <1>1
    <3> HIDE DEF new
    <3> QED
      BY <3>1, <3>2, <3>3
  <2>2. \A d, k, x : x \in Places(d, k) <=>
                       \E m \in 1..k - 1 : x \in {m} \X Indices(d[m])
    BY DEF Places
  <2>3. \A m \in 1..n : {m} \X Indices(more[m]) = {m} \X Indices(dims[m])
    BY <1>1
  <2>4. {n + 1} \X Indices(more[n + 1]) = new
    BY <1>1
  <2> HIDE DEF new
  <2>5. ASSUME NEW x \in Places(more, n + 2)
        PROVE  x \in Places(dims, n + 1) \/ x \in new
    <3>1. PICK m \in 1..(n + 2) - 1 : x \in {m} \X Indices(more[m])
      BY <2>2
    <3> QED
      BY <2>1, <2>2, <2>3, <2>4, <3>1
  <2>6. ASSUME NEW x \in Places(dims, n + 1) PROVE x \in Places(more, n + 2)
    <3>1. PICK m \in 1..(n + 1) - 1 : x \in {m} \X Indices(dims[m])
      BY <2>2
    <3>2. m \in 1..(n + 2) - 1 /\ m \in 1..n
      BY <1>1
    <3> QED
      BY <2>2, <2>3, <3>1, <3>2
  <2>7. ASSUME NEW x \in new PROVE x \in Places(more, n + 2)
    <3>1. n + 1 \in 1..(n + 2) - 1
      BY <1>1
    <3> QED
      BY <2>2, <2>4, <3>1
  <2> QED
    BY <2>5, <2>6, <2>7
<1>4. IsFiniteSet(new) /\ Cardinality(new) = Size(shape)
  <2>1. IsFiniteSet({n + 1}) /\ Cardinality({n + 1}) = 1
    BY FS_Singleton
  <2>2. IsFiniteSet(Indices(shape)) /\ Size(shape) \in Nat
    BY Strides
  <2>3. Cardinality(new) = 1 * Size(shape) /\ IsFiniteSet(new)
    BY <2>1, <2>2, FS_Product DEF Size
  <2> QED
    BY <2>2, <2>3
<1>5. Places(dims, n + 1) \cap new = {}
  <2>1. \A m \in 1..(n + 1) - 1 : m # n + 1
    BY <1>1
  <2> QED
    BY <2>1 DEF Places
<1>6. /\ IsFiniteSet(Places(more, n + 2))
      /\ Cardinality(Places(more, n + 2))
           = Cardinality(Places(dims, n + 1)) + Size(shape)
  <2>1. IsFiniteSet(Places(dims, n + 1))
    BY DEF n
  <2>2. Cardinality(Places(dims, n + 1)) \in Nat /\ Size(shape) \in Nat
    BY <2>1, FS_CardinalityType, Strides
  <2> HIDE DEF new
  <2>3. /\ IsFiniteSet(Places(dims, n + 1) \cup new)
        /\ Cardinality(Places(dims, n + 1) \cup new)
             = Cardinality(Places(dims, n + 1)) + Cardinality(new)
               - Cardinality(Places(dims, n + 1) \cap new)
    BY <1>4, <2>1, FS_Union
  <2>4. Cardinality(Places(dims, n + 1) \cap new) = 0
    BY <1>5, FS_EmptySet
  <2>5. \A a, b \in Nat : a + b - 0 = a + b
    OBVIOUS
  <2>6. Cardinality(Places(dims, n + 1) \cup new)
          = Cardinality(Places(dims, n + 1)) + Size(shape)
    BY <1>4, <2>2, <2>3, <2>4, <2>5
  <2> QED
    BY <1>3, <2>3, <2>6
<1>7. \A d, k : Offset(d, k) = Cardinality(Places(d, k))
  BY DEF Offset, Places
<1> QED
  BY <1>2, <1>6, <1>7 DEF n, more

\* The t-th variable of a sort is this one, and its values are where Stan
\* expects them.
Holds(sort, t, v) ==
  /\ sort.names[t] = v.name /\ sort.dims[t] = v.shape
  /\ \A m \in 1..Size(v.shape) :
       /\ Offset(sort.dims, t) + m \in 1..Len(sort.values)
       /\ sort.values[Offset(sort.dims, t) + m] = Numbers(v)[m]

\* The lists of a sort of some names agree with each other.
SortInv(sort, names) ==
  /\ sort \in [names : Seq(names), values : Seq(Int), dims : Seq(Seq(Nat))]
  /\ Len(sort.names) = Len(sort.dims)
  /\ IsFiniteSet(Places(sort.dims, Len(sort.dims) + 1))
  /\ Offset(sort.dims, Len(sort.dims) + 1) = Len(sort.values)

LEMMA WithKeeps ==
  ASSUME NEW names, NEW sort, SortInv(sort, names),
         NEW v, IsVariable(v), v.name \in names
  PROVE  /\ SortInv(With(sort, v), names)
         /\ Len(With(sort, v).names) = Len(sort.names) + 1
         /\ Holds(With(sort, v), Len(sort.names) + 1, v)
         /\ \A t \in 1..Len(sort.names) :
              /\ With(sort, v).names[t] = sort.names[t]
              /\ \A w : Holds(sort, t, w) => Holds(With(sort, v), t, w)
<1> DEFINE more == With(sort, v)
           n == Len(sort.names)
           size == Size(v.shape)
<1>1. /\ sort.names \in Seq(names) /\ sort.values \in Seq(Int)
      /\ sort.dims \in Seq(Seq(Nat)) /\ v.shape \in Seq(Nat) /\ Len(sort.dims) = n
      /\ Numbers(v) \in Seq(Int) /\ Len(Numbers(v)) = size
  BY NumbersInOrder DEF SortInv, IsVariable
<1>2. n \in Nat /\ Len(sort.values) \in Nat /\ size \in Nat
  BY <1>1, Strides
<1>3. /\ more.names = Append(sort.names, v.name)
      /\ more.values = sort.values \o Numbers(v)
      /\ more.dims = Append(sort.dims, v.shape)
      /\ more = [names |-> more.names, values |-> more.values, dims |-> more.dims]
  BY DEF With
<1>4. /\ more.names \in Seq(names) /\ Len(more.names) = n + 1
      /\ \A t \in 1..n : more.names[t] = sort.names[t]
      /\ more.names[n + 1] = v.name
  BY <1>1, <1>3, AppendProperties
<1>5. /\ more.dims \in Seq(Seq(Nat)) /\ Len(more.dims) = n + 1
      /\ \A t \in 1..n : more.dims[t] = sort.dims[t]
      /\ more.dims[n + 1] = v.shape
  BY <1>1, <1>3, AppendProperties
<1>6. /\ more.values \in Seq(Int) /\ Len(more.values) = Len(sort.values) + size
      /\ \A m \in 1..Len(sort.values) : more.values[m] = sort.values[m]
      /\ \A m \in 1..size : more.values[Len(sort.values) + m] = Numbers(v)[m]
  <2> HIDE DEF more, size
  <2>1. /\ more.values \in Seq(Int) /\ Len(more.values) = Len(sort.values) + size
        /\ \A i \in 1..Len(sort.values) + size :
             more.values[i] = IF i <= Len(sort.values) THEN sort.values[i]
                              ELSE Numbers(v)[i - Len(sort.values)]
    <3>1. /\ sort.values \o Numbers(v) \in Seq(Int)
          /\ Len(sort.values \o Numbers(v)) = Len(sort.values) + Len(Numbers(v))
          /\ \A i \in 1..Len(sort.values) + Len(Numbers(v)) :
               (sort.values \o Numbers(v))[i] =
                 IF i <= Len(sort.values) THEN sort.values[i]
                 ELSE Numbers(v)[i - Len(sort.values)]
      BY <1>1, ConcatProperties
    <3> QED
      BY <1>1, <1>3, <3>1
  <2>2. \A m \in 1..Len(sort.values) :
          m \in 1..Len(sort.values) + size /\ m <= Len(sort.values)
    BY <1>2
  <2>3. \A m \in 1..size : /\ Len(sort.values) + m \in 1..Len(sort.values) + size
                           /\ ~(Len(sort.values) + m <= Len(sort.values))
                           /\ (Len(sort.values) + m) - Len(sort.values) = m
    BY <1>2
  <2> QED
    BY <2>1, <2>2, <2>3
<1>7. /\ \A t \in 1..n + 1 : Offset(more.dims, t) = Offset(sort.dims, t)
      /\ IsFiniteSet(Places(more.dims, n + 2))
      /\ Offset(more.dims, n + 2) = Len(sort.values) + size
      /\ Offset(more.dims, n + 1) = Len(sort.values)
  <2>1. IsFiniteSet(Places(sort.dims, Len(sort.dims) + 1))
    BY DEF SortInv
  <2>2. Offset(sort.dims, n + 1) = Len(sort.values)
    BY <1>1 DEF SortInv
  <2>3. n + 1 \in 1..n + 1
    BY <1>2
  <2> HIDE DEF more, n, size
  <2>4. LET dims == sort.dims
            longer == Append(dims, v.shape)
        IN /\ \A k \in 1..Len(dims) + 1 : Offset(longer, k) = Offset(dims, k)
           /\ IsFiniteSet(Places(longer, Len(dims) + 2))
           /\ Offset(longer, Len(dims) + 2) = Offset(dims, Len(dims) + 1) + Size(v.shape)
    BY <1>1, <2>1, OneMoreVariable
  <2> QED
    BY <1>1, <1>3, <2>2, <2>3, <2>4 DEF size
<1> HIDE DEF more, n, size
<1>8. SortInv(more, names)
  <2>1. more \in [names : Seq(names), values : Seq(Int), dims : Seq(Seq(Nat))]
    BY <1>3, <1>4, <1>5, <1>6
  <2>2. Len(more.dims) + 1 = n + 2
    BY <1>2, <1>5
  <2> QED
    BY <1>4, <1>5, <1>6, <1>7, <2>1, <2>2 DEF SortInv
<1>9. Holds(more, n + 1, v)
  <2>1. \A m \in 1..size : Len(sort.values) + m \in 1..Len(more.values)
    BY <1>2, <1>6
  <2> QED
    BY <1>4, <1>5, <1>6, <1>7, <2>1 DEF Holds, size
<1>10. ASSUME NEW t \in 1..n, NEW w, Holds(sort, t, w)
       PROVE  Holds(more, t, w)
  <2>1. t \in 1..n + 1 /\ Offset(more.dims, t) = Offset(sort.dims, t)
    BY <1>2, <1>7
  <2>2. (1..Len(sort.values)) \subseteq 1..Len(more.values)
    BY <1>2, <1>6
  <2> QED
    BY <1>4, <1>5, <1>6, <1>10, <2>1, <2>2 DEF Holds
<1> QED
  BY <1>4, <1>8, <1>9, <1>10 DEF more, n

\* The lists of the chosen variables, for every number of rounds of the loop.
Unrolls(upto, data, chosen, n) ==
  upto = [k \in 0..n |->
            IF k = 0 THEN NoVariables
            ELSE IF k \in chosen THEN With(upto[k - 1], data[k]) ELSE upto[k - 1]]

LEMMA LoopUnrolls ==
  ASSUME NEW data, NEW chosen, NEW n \in Nat
  PROVE  \E upto : Unrolls(upto, data, chosen, n)
<1> DEFINE Loop(u, m) == Unrolls(u, data, chosen, m)
           Reached == {m \in Nat : \E u : Loop(u, m)}
<1>1. 0 \in Reached
  <2> DEFINE u == [k \in 0..0 |-> NoVariables]
  <2>1. Loop(u, 0)
    BY DEF Unrolls
  <2> QED
    BY <2>1
<1>2. ASSUME NEW m \in Nat, m \in Reached PROVE m + 1 \in Reached
  <2>1. PICK u : Loop(u, m)
    BY <1>2
  <2> DEFINE last == IF m + 1 \in chosen THEN With(u[m], data[m + 1]) ELSE u[m]
             w == [k \in 0..m + 1 |-> IF k = m + 1 THEN last ELSE u[k]]
  <2>2. /\ \A k \in 0..m : w[k] = u[k]
        /\ w[m + 1] = last
    OBVIOUS
  <2>3. ASSUME NEW k \in 0..m + 1
        PROVE  w[k] = IF k = 0 THEN NoVariables
                      ELSE IF k \in chosen THEN With(w[k - 1], data[k]) ELSE w[k - 1]
    <3>1. CASE k = m + 1
      <4>1. k # 0 /\ k - 1 = m /\ m \in 0..m
        BY <3>1
      <4> HIDE DEF w
      <4> QED
        BY <2>2, <3>1, <4>1
    <3>2. CASE k \in 0..m
      <4>1. u[k] = IF k = 0 THEN NoVariables
                   ELSE IF k \in chosen THEN With(u[k - 1], data[k]) ELSE u[k - 1]
        BY <2>1, <3>2 DEF Unrolls
      <4>2. k # 0 => k - 1 \in 0..m
        BY <3>2
      <4> HIDE DEF w
      <4> QED
        BY <2>2, <3>2, <4>1, <4>2
    <3> QED
      BY <3>1, <3>2
  <2>4. w = [k \in 0..m + 1 |-> w[k]]
    OBVIOUS
  <2>5. Loop(w, m + 1)
    <3> HIDE DEF w
    <3> QED
      BY <2>3, <2>4 DEF Unrolls
  <2>6. \E z : Loop(z, m + 1)
    <3> HIDE DEF w, Loop
    <3> QED
      BY <2>5
  <2> HIDE DEF Loop
  <2> QED
    BY <2>6
<1>3. Nat \subseteq Reached
  <2> HIDE DEF Reached
  <2> QED
    BY <1>1, <1>2, Numbering
<1> QED
  BY <1>3

\* What the loop makes of its first k variables.
LEMMA SplitInOrder ==
  ASSUME NEW data, data \in Seq(ToSet(data)), \A v \in ToSet(data) : IsVariable(v),
         NEW chosen \in SUBSET DOMAIN data
  PROVE  LET sort == Split(data, chosen)
         IN /\ SortInv(sort, {v.name : v \in ToSet(data)})
            /\ \A j \in chosen :
                 \E t \in 1..Len(sort.names) : Holds(sort, t, data[j])
            /\ \A t \in 1..Len(sort.names) :
                 \E j \in chosen : sort.names[t] = data[j].name
<1> DEFINE n == Len(data)
<1>1. n \in Nat /\ DOMAIN data = 1..n
  OBVIOUS
<1>2. PICK upto : Unrolls(upto, data, chosen, n) /\ Split(data, chosen) = upto[n]
  <2> DEFINE f == CHOOSE u : Unrolls(u, data, chosen, n)
  <2>1. \E u : Unrolls(u, data, chosen, n)
    BY <1>1, LoopUnrolls
  <2>2. Unrolls(f, data, chosen, n)
    BY <2>1, Zenon
  <2>3. Split(data, chosen) = f[n]
    BY DEF Split, Unrolls
  <2> QED
    BY <2>2, <2>3
<1> DEFINE names == {v.name : v \in ToSet(data)}
           InOrder(sort, k) ==
             /\ SortInv(sort, names)
             /\ \A j \in chosen : j <= k =>
                  \E t \in 1..Len(sort.names) : Holds(sort, t, data[j])
             /\ \A t \in 1..Len(sort.names) :
                  \E j \in chosen : sort.names[t] = data[j].name
           Done == {k \in Nat : k <= n => InOrder(upto[k], k)}
<1>3. InOrder(NoVariables, 0)
  <2>1. SortInv(NoVariables, names)
    <3>1. NoVariables.values = <<>> /\ NoVariables.names = <<>> /\ NoVariables.dims = <<>>
      BY DEF NoVariables
    <3>2. Places(<<>>, 1) = {}
      BY DEF Places
    <3>3. IsFiniteSet(Places(<<>>, 1)) /\ Offset(<<>>, 1) = 0
      BY <3>2, FS_EmptySet DEF Offset, Places
    <3>4. NoVariables \in [names : Seq(names), values : Seq(Int), dims : Seq(Seq(Nat))]
      BY DEF NoVariables
    <3>5. Len(<<>>) = 0 /\ 0 + 1 = 1
      OBVIOUS
    <3> QED
      BY <3>1, <3>3, <3>4, <3>5 DEF SortInv
  <2>2. 1..Len(NoVariables.names) = {}
    BY DEF NoVariables
  <2>3. \A j \in chosen : ~(j <= 0)
    BY <1>1
  <2> QED
    BY <2>1, <2>2, <2>3
<1>4. upto[0] = NoVariables
  BY <1>1, <1>2 DEF Unrolls
<1>5. 0 \in Done
  BY <1>3, <1>4
<1>6. ASSUME NEW k \in Nat, k \in Done PROVE k + 1 \in Done
  <2> SUFFICES ASSUME k + 1 <= n PROVE InOrder(upto[k + 1], k + 1)
    OBVIOUS
  <2> DEFINE sort == upto[k]
             v == data[k + 1]
  <2>1. InOrder(sort, k)
    BY <1>1, <1>6
  <2>2. k + 1 \in 1..n /\ k + 1 # 0 /\ (k + 1) - 1 = k /\ k + 1 \in 0..n
    BY <1>1
  <2>3. upto[k + 1] = IF k + 1 \in chosen THEN With(sort, v) ELSE sort
    BY <1>2, <2>2 DEF Unrolls
  <2>4. \A j \in chosen : j <= k + 1 => j <= k \/ j = k + 1
    BY <1>1
  <2>5. CASE k + 1 \notin chosen
    BY <2>1, <2>3, <2>4, <2>5
  <2>6. CASE k + 1 \in chosen
    <3>1. v \in ToSet(data) /\ IsVariable(v) /\ v.name \in names
      BY <1>1, <2>2 DEF ToSet
    <3> DEFINE more == With(sort, v)
               m == Len(sort.names)
    <3> HIDE DEF names, sort, v
    <3>2. /\ SortInv(more, names) /\ Len(more.names) = m + 1
          /\ Holds(more, m + 1, v)
          /\ \A t \in 1..m :
               /\ more.names[t] = sort.names[t]
               /\ \A w : Holds(sort, t, w) => Holds(more, t, w)
      BY <2>1, <3>1, WithKeeps
    <3>3. m \in Nat
      BY <2>1 DEF SortInv
    <3>4. m + 1 \in 1..m + 1 /\ (1..m) \subseteq 1..m + 1
          /\ \A t \in 1..m + 1 : t \in 1..m \/ t = m + 1
      BY <3>3
    <3> HIDE DEF more, m
    <3>5. ASSUME NEW j \in chosen, j <= k + 1
          PROVE  \E t \in 1..m + 1 : Holds(more, t, data[j])
      <4>1. CASE j <= k
        <5>1. PICK t \in 1..m : Holds(sort, t, data[j])
          BY <2>1, <4>1 DEF m
        <5> QED
          BY <3>2, <3>4, <5>1
      <4>2. CASE j = k + 1
        BY <3>2, <3>4, <4>2 DEF v
      <4> QED
        BY <2>4, <3>5, <4>1, <4>2
    <3>6. ASSUME NEW t \in 1..m + 1
          PROVE  \E j \in chosen : more.names[t] = data[j].name
      <4>1. CASE t \in 1..m
        BY <2>1, <3>2, <4>1 DEF m
      <4>2. CASE t = m + 1
        BY <2>6, <3>2, <4>2 DEF Holds, v
      <4> QED
        BY <3>4, <4>1, <4>2
    <3>7. InOrder(more, k + 1)
      BY <3>2, <3>5, <3>6
    <3> QED
      BY <2>3, <2>6, <3>7 DEF more
  <2> QED
    BY <2>5, <2>6
<1>7. Nat \subseteq Done
  <2> HIDE DEF Done
  <2> QED
    BY <1>5, <1>6, Numbering
<1>8. InOrder(upto[n], n)
  <2>1. n \in Done /\ n <= n
    <3> HIDE DEF Done
    <3> QED
      BY <1>1, <1>7
  <2> HIDE DEF InOrder
  <2> QED
    BY <2>1
<1>9. \A j \in chosen : j <= n
  BY <1>1
<1> QED
  BY <1>2, <1>8, <1>9

\* Stan reads a variable whose values are where it expects them.
LEMMA HeldIsRead ==
  ASSUME NEW names, NEW sort, SortInv(sort, names), NEW v, IsVariable(v),
         NEW t \in 1..Len(sort.names), Holds(sort, t, v),
         \A m \in 1..Size(v.shape) :
           Numbers(v)[m] = v.at[IndexAt(v.shape, m - 1)].n
  PROVE  ReadsBack(sort, v)
<1>1. t \in DOMAIN sort.names /\ sort.names[t] = v.name /\ sort.dims[t] = v.shape
  BY DEF SortInv, Holds
<1>2. v.shape \in Seq(Nat) /\ Size(v.shape) \in Nat
  BY Strides DEF IsVariable
<1>3. Offset(sort.dims, t) \in Nat
  <2>1. IsFiniteSet(Places(sort.dims, Len(sort.dims) + 1)) /\ t <= Len(sort.dims)
        /\ Len(sort.dims) \in Nat
    BY DEF SortInv
  <2>2. (1..t - 1) \subseteq 1..(Len(sort.dims) + 1) - 1
    BY <2>1
  <2>3. Places(sort.dims, t) \in SUBSET Places(sort.dims, Len(sort.dims) + 1)
    BY <2>2 DEF Places
  <2>4. IsFiniteSet(Places(sort.dims, t))
    BY <2>1, <2>3, FS_Subset
  <2> QED
    BY <2>4, FS_CardinalityType DEF Offset, Places
<1>4. ASSUME NEW i \in Indices(v.shape)
      PROVE  Read(sort, t, i) = v.at[i].n
  <2>1. PICK p \in 0..Size(v.shape) - 1 :
          /\ IndexAt(v.shape, p) = i
          /\ Cardinality({j \in Indices(v.shape) : Before(j, i)}) = p
    BY <1>2, IndexHasPlace
  <2>2. Read(sort, t, i) = sort.values[Offset(sort.dims, t) + p + 1]
    BY <1>1, <2>1 DEF Read
  <2>3. p + 1 \in 1..Size(v.shape) /\ (p + 1) - 1 = p
        /\ Offset(sort.dims, t) + p + 1 = Offset(sort.dims, t) + (p + 1)
    BY <1>2, <1>3
  <2>4. sort.values[Offset(sort.dims, t) + (p + 1)] = Numbers(v)[p + 1]
    BY <2>3 DEF Holds
  <2>5. Numbers(v)[p + 1] = v.at[i].n
    BY <2>1, <2>3
  <2> QED
    BY <2>2, <2>3, <2>4, <2>5
<1> QED
  BY <1>1, <1>4 DEF ReadsBack

\* astype changes no number but those only an unsigned integer holds.
LEMMA NumbersKept ==
  ASSUME NEW v, IsVariable(v), \A e \in Elements(v) : e.kind = "bool" => e.n \in {0, 1},
         Floating(v) \/ Integral(v), Dtype(v) # "uint64"
  PROVE  \A m \in 1..Size(v.shape) :
           Numbers(v)[m] = v.at[IndexAt(v.shape, m - 1)].n
<1> SUFFICES ASSUME NEW m \in 1..Size(v.shape)
             PROVE  Numbers(v)[m] = v.at[IndexAt(v.shape, m - 1)].n
  OBVIOUS
<1> DEFINE e == v.at[IndexAt(v.shape, m - 1)]
<1>1. e \in Elements(v) /\ e \in [kind : Kinds, n : Int]
  <2>1. v.shape \in Seq(Nat) /\ Size(v.shape) \in Nat
    BY Strides DEF IsVariable
  <2>2. m - 1 \in Nat /\ m - 1 < Size(v.shape)
    BY <2>1
  <2>3. IndexAt(v.shape, m - 1) \in Indices(v.shape)
    BY <2>1, <2>2, PlaceHasIndex
  <2> QED
    BY <2>3 DEF Elements, IsVariable
<1>2. ASSUME Integral(v) PROVE AsLong(e.n) = e.n
  <2> DEFINE kinds == {x.kind : x \in Elements(v)}
             ints == {x.n : x \in {x \in Elements(v) : x.kind = "int"}}
  <2>1. Dtype(v) = "int64"
    BY <1>2 DEF Integral
  <2>2. /\ "float" \notin kinds /\ "list" \notin kinds
        /\ \A n \in ints : n \in -(LongMax + 1)..LongMax
    BY <2>1 DEF Dtype
  <2>3. e.kind \in {"int", "bool"}
    BY <1>1, <2>2 DEF Kinds
  <2>4. e.kind = "int" => e.n <= LongMax
    BY <1>1, <2>2, WidthAssumption
  <2>5. e.kind = "bool" => e.n <= LongMax
    BY <1>1, WidthAssumption
  <2> QED
    BY <1>1, <2>3, <2>4, <2>5, WidthAssumption DEF AsLong
<1>3. Numbers(v)[m] = IF Integral(v) THEN AsLong(e.n) ELSE e.n
  BY NumbersInOrder
<1> QED
  BY <1>2, <1>3

\* Every variable of a dictionary that is not refused is read back, once.
LEMMA DictionaryReadsBack ==
  ASSUME NEW data, IsDictionary(data), ~SplitRaises(data),
         NEW v \in ToSet(data), Dtype(v) # "uint64"
  PROVE  LET context == Context(data)
         IN \/ ReadsBack(context.reals, v) /\ ~Names(context.ints, v)
            \/ ReadsBack(context.ints, v) /\ ~Names(context.reals, v)
<1> DEFINE names == {w.name : w \in ToSet(data)}
           reals == {k \in DOMAIN data : Floating(data[k])}
           ints == {k \in DOMAIN data : Integral(data[k])}
<1>1. /\ data \in Seq(ToSet(data)) /\ \A w \in ToSet(data) : IsVariable(w)
      /\ \A j, k \in DOMAIN data : data[j].name = data[k].name => j = k
      /\ \A e \in Elements(v) : e.kind = "bool" => e.n \in {0, 1}
  BY DEF IsDictionary, IsVariable
<1>2. PICK j \in DOMAIN data : v = data[j]
  BY DEF ToSet
<1>3. ASSUME NEW chosen \in SUBSET DOMAIN data, j \in chosen, Floating(v) \/ Integral(v)
      PROVE  ReadsBack(Split(data, chosen), v)
  <2> DEFINE sort == Split(data, chosen)
  <2>1. SortInv(sort, names) /\ \E t \in 1..Len(sort.names) : Holds(sort, t, v)
    BY <1>1, <1>2, <1>3, SplitInOrder
  <2>2. \A m \in 1..Size(v.shape) : Numbers(v)[m] = v.at[IndexAt(v.shape, m - 1)].n
    BY <1>1, <1>3, NumbersKept
  <2> HIDE DEF sort, names
  <2> QED
    BY <1>1, <2>1, <2>2, HeldIsRead DEF sort
<1>4. ASSUME NEW chosen \in SUBSET DOMAIN data, j \notin chosen
      PROVE  ~Names(Split(data, chosen), v)
  <2> DEFINE sort == Split(data, chosen)
  <2>1. /\ sort.names \in Seq(names)
        /\ \A t \in 1..Len(sort.names) : \E k \in chosen : sort.names[t] = data[k].name
    BY <1>1, SplitInOrder DEF SortInv
  <2>2. \A k \in chosen : data[k].name # v.name
    BY <1>1, <1>2, <1>4
  <2> HIDE DEF sort, names
  <2>3. DOMAIN sort.names = 1..Len(sort.names)
    BY <2>1
  <2> QED
    BY <2>1, <2>2, <2>3 DEF Names, ToSet, sort
<1>5. Floating(v) \/ Integral(v)
  BY <1>2 DEF SplitRaises
<1>6. ~(Floating(v) /\ Integral(v))
  BY DEF Floating, Integral
<1>7. Context(data).reals = Split(data, reals) /\ Context(data).ints = Split(data, ints)
  BY DEF Context, SplitReals, SplitInts
<1>8. CASE Floating(v)
  BY <1>2, <1>3, <1>4, <1>5, <1>6, <1>7, <1>8
<1>9. CASE Integral(v)
  BY <1>2, <1>3, <1>4, <1>5, <1>6, <1>7, <1>9
<1> QED
  BY <1>5, <1>8, <1>9
-----------------------------------------------------------------------------
(* What Stan reads.                                                        *)

\* A context is built of what can be converted.
BuiltInv ==
  pc # "idle" =>
    \A k \in 1..nbuilt : Built(Function)[k] \in Contexts =>
      Convertible(Dictionary(Built(Function)[k]))

LEMMA BuiltNext == TypeOK /\ BuiltInv /\ [Next]_vars => BuiltInv'
<1> SUFFICES ASSUME TypeOK, BuiltInv, [Next]_vars PROVE BuiltInv'
  OBVIOUS
<1>1. ASSUME pc # "idle" /\ UNCHANGED <<req, fn, nbuilt>> PROVE BuiltInv'
  BY <1>1 DEF BuiltInv, Function, Dictionary
<1>2. ASSUME pc' = "idle" \/ nbuilt' = 0 PROVE BuiltInv'
  BY <1>2 DEF BuiltInv
<1>3. ASSUME NEW r \in Requests, Receive(r) PROVE BuiltInv'
  BY <1>2, <1>3 DEF Receive
<1>4. CASE Build
  <2>1. /\ pc = "build" /\ nbuilt' = nbuilt + 1 /\ UNCHANGED <<req, fn>>
        /\ ~Refused(Built(Function)[nbuilt + 1])
    BY <1>4 DEF Build, Object
  <2>2. Function' = Function /\ nbuilt \in Nat
    BY <2>1, AtFunction DEF Function
  <2>3. ASSUME NEW k \in 1..nbuilt', Built(Function)[k] \in Contexts
        PROVE  Convertible(Dictionary(Built(Function)[k]))
    <3>1. k \in 1..nbuilt \/ k = nbuilt + 1
      BY <2>1, <2>2
    <3> QED
      BY <2>1, <2>3, <3>1 DEF BuiltInv, Refused
  <2> QED
    BY <2>1, <2>2, <2>3 DEF BuiltInv, Dictionary
<1>5. CASE BuildThrows
  BY <1>1, <1>5 DEF BuildThrows
<1>6. CASE CheckSize
  BY <1>1, <1>6 DEF CheckSize
<1>7. CASE Run
  BY <1>1, <1>7 DEF Run
<1>8. CASE Delete
  BY <1>1, <1>2, <1>8 DEF Delete
<1>9. CASE UNCHANGED vars
  BY <1>9 DEF vars, BuiltInv, Function, Dictionary
<1> QED
  BY <1>3, <1>4, <1>5, <1>6, <1>7, <1>8, <1>9 DEF Next, Quiet

\* Every variable of a dictionary a function has built a context of is there
\* once, and Stan reads at each index the number the client put there: for
\* any dictionaries, arrays of any number of dimensions and any lengths, those
\* without an element included, and integers of any width.
THEOREM StanReadsWhatWasSent == Spec => []ContextReadsBack
<1>1. Init => BuiltInv
  BY DEF Init, BuiltInv
<1>2. TypeOK /\ BuiltInv /\ [Next]_vars => BuiltInv'
  BY BuiltNext
<1>3. TypeOK /\ BuiltInv => ContextReadsBack
  <2> SUFFICES ASSUME TypeOK, BuiltInv, pc # "idle", NEW k \in 1..nbuilt,
                      Built(Function)[k] \in Contexts,
                      NEW v \in ToSet(Dictionary(Built(Function)[k])),
                      Dtype(v) # "uint64"
               PROVE  LET context == Context(Dictionary(Built(Function)[k]))
                      IN \/ ReadsBack(context.reals, v) /\ ~Names(context.ints, v)
                         \/ ReadsBack(context.ints, v) /\ ~Names(context.reals, v)
    BY DEF ContextReadsBack
  <2> DEFINE data == Dictionary(Built(Function)[k])
  <2>1. IsDictionary(data)
    BY RequestsAssumption DEF TypeOK, Requests, Dictionary
  <2>2. ~SplitRaises(data)
    BY DEF BuiltInv, Convertible
  <2> HIDE DEF data
  <2> QED
    BY <2>1, <2>2, DictionaryReadsBack DEF data
<1> QED
  BY <1>1, <1>2, <1>3, CallAlways, PTL DEF Spec
=============================================================================
