---------------------------- MODULE Sampling_proofs ----------------------------
(***************************************************************************)
(* Proofs about Sampling, for any requests, any help file and any clock:   *)
(* what a call may be refused for, that the writers follow Stan and the    *)
(* lines recover its messages, however many iterations there are, and what *)
(* a client is told of an error code.                                      *)
(***************************************************************************)
EXTENDS Sampling, FiniteSetTheorems, SequenceTheorems, TLAPS
-----------------------------------------------------------------------------
(* Refusals.                                                               *)

\* The help file has a default for every argument of a wrapper, which the
\* wrapper takes; the clock stays below the largest C++ int.
HelpServes ==
  /\ MaxClock <= IntMax
  /\ \A arg \in DOMAIN NutsTypes \ {"random_seed"} :
       ~LookupRaises(arg) /\ Converts(FixedDefault(arg), NutsTypes[arg])

\* A request is one of the possible ones, and times are clock times.
RequestInv ==
  req \in Requests /\ clock \in 0..MaxClock /\ cached \in 0..MaxClock \cup {NoSeed}

\* The wrapper gets what the client gave, and defaults that it takes.
FilledInv ==
  pc = "wrapper" =>
    /\ DOMAIN kwargs = DOMAIN Wrapper(req.function) \cup DOMAIN req.given
    /\ \A arg \in DOMAIN kwargs :
         IF arg \in DOMAIN req.given THEN kwargs[arg] = req.given[arg]
         ELSE Converts(kwargs[arg], Wrapper(req.function)[arg])

\* The arguments of either function are among the sampler's, with its types.
LEMMA WrapperArguments ==
  ASSUME NEW function
  PROVE  /\ DOMAIN Wrapper(function) \subseteq DOMAIN NutsTypes
         /\ \A arg \in DOMAIN Wrapper(function) :
              Wrapper(function)[arg] = NutsTypes[arg]
<1>1. CASE function = "fixed_param"
  BY <1>1 DEF Wrapper, FixedParamTypes, NutsTypes
<1>2. CASE function # "fixed_param"
  BY <1>2 DEF Wrapper
<1> QED
  BY <1>1, <1>2

\* The types of the sampler's arguments.
LEMMA ArgumentTypes ==
  \A arg \in DOMAIN NutsTypes : NutsTypes[arg] \in {"int", "double", "bool"}
  BY DEF NutsTypes

\* What a client gave is refused by the wrapper only if it is no C++ int.
LEMMA GivenConverts ==
  ASSUME NEW r \in Requests, NEW arg \in DOMAIN r.given,
         arg \in DOMAIN Wrapper(r.function),
         ~Converts(r.given[arg], Wrapper(r.function)[arg])
  PROVE  r.given[arg].type = "int" /\ r.given[arg].n > IntMax
<1>1. /\ arg \in DOMAIN NutsTypes /\ r.given[arg].type = FieldType(arg)
      /\ r.given[arg].n \in Nat /\ IntMax \in Nat
  BY SamplingAssumption, ArgumentsAssumption DEF RequestFields
<1>2. Wrapper(r.function)[arg] = NutsTypes[arg]
      /\ NutsTypes[arg] \in {"int", "double", "bool"}
  BY <1>1, WrapperArguments, ArgumentTypes
<1>3. CASE NutsTypes[arg] = "int"
  <2>1. r.given[arg].type = "int"
    BY <1>1, <1>3 DEF FieldType, RequestFields
  <2> QED
    BY <1>1, <1>2, <1>3, <2>1 DEF Converts
<1>4. CASE NutsTypes[arg] = "double"
  <2>1. r.given[arg].type = "float"
    BY <1>1, <1>4 DEF FieldType, RequestFields
  <2> QED
    BY <1>2, <1>4, <2>1 DEF Converts
<1>5. CASE NutsTypes[arg] = "bool"
  <2>1. r.given[arg].type = "bool"
    BY <1>1, <1>5 DEF FieldType, RequestFields
  <2> QED
    BY <1>2, <1>5, <2>1 DEF Converts
<1> QED
  BY <1>2, <1>3, <1>4, <1>5

LEMMA RequestNext == RequestInv /\ [Next]_vars => RequestInv'
<1> SUFFICES ASSUME RequestInv, [Next]_vars PROVE RequestInv'
  OBVIOUS
<1> USE DEF RequestInv
<1>1. CASE \/ \E r \in Requests : Receive(r)
           \/ CallWrapper \/ StanWrites \/ StanGoesOn \/ StanThrows
           \/ StanTraps \/ StanReturns \/ Report
           \/ UNCHANGED vars
  BY <1>1 DEF Receive, CallWrapper, StanWrites, StanGoesOn, StanThrows,
     StanTraps, StanReturns, Report, argumentVars, vars, callVars
<1>2. CASE Forget
  <2>1. NoRequest \in Requests
    BY SamplingAssumption DEF NoRequest
  <2> QED
    BY <1>2, <2>1 DEF Forget, argumentVars
<1>3. CASE Fill
  BY <1>3 DEF Fill, Remember, DefaultSeed
<1>4. CASE ClockTicks
  <2>1. clock' = clock + 1 /\ clock < MaxClock /\ cached' = cached /\ req' = req
    BY <1>4 DEF ClockTicks, Tick, callVars
  <2> QED
    BY <2>1, ArgumentsAssumption
<1> QED
  BY <1>1, <1>2, <1>3, <1>4 DEF Next, Quiet

\* The loop over the arguments finds a default for each that is missing.
LEMMA FillServes ==
  ASSUME HelpServes, RequestInv, Fill
  PROVE  pc' = "wrapper" /\ outcome' = outcome /\ req' = req /\ FilledInv'
<1> DEFINE missing == Missing(req.function, req.given)
<1>1. DOMAIN Wrapper(req.function) \subseteq DOMAIN NutsTypes
      /\ \A arg \in DOMAIN Wrapper(req.function) :
           Wrapper(req.function)[arg] = NutsTypes[arg]
  BY WrapperArguments
<1>2. \A arg \in missing : ~LookupRaises(arg)
  <2>1. ~LookupRaises("random_seed")
    BY DEF LookupRaises
  <2> QED
    BY <1>1, <2>1 DEF HelpServes, Missing
<1>3. kwargs' = FilledIn(req.function, req.given)
      /\ pc' = "wrapper" /\ outcome' = outcome /\ req' = req
  BY <1>2 DEF Fill
<1>4. ASSUME NEW arg \in missing
      PROVE  Converts(Default(arg), Wrapper(req.function)[arg])
  <2>1. Wrapper(req.function)[arg] = NutsTypes[arg] /\ arg \in DOMAIN NutsTypes
    BY <1>1 DEF Missing
  <2>2. CASE arg = "random_seed"
    <3>1. DefaultSeed \in 0..MaxClock
      BY DEF RequestInv, DefaultSeed
    <3>2. DefaultSeed <= IntMax
      BY <3>1, ArgumentsAssumption DEF HelpServes
    <3>3. Default(arg) = [type |-> "int", n |-> DefaultSeed]
      BY <2>2 DEF Default, Number
    <3>4. NutsTypes[arg] = "int"
      BY <2>2 DEF NutsTypes
    <3> QED
      BY <2>1, <3>2, <3>3, <3>4 DEF Converts
  <2>3. CASE arg # "random_seed"
    BY <2>1, <2>3 DEF Default, HelpServes
  <2> QED
    BY <2>2, <2>3
<1>5. FilledInv'
  <2>1. /\ DOMAIN kwargs' = DOMAIN Wrapper(req.function) \cup DOMAIN req.given
        /\ \A arg \in DOMAIN kwargs' :
             kwargs'[arg] = IF arg \in DOMAIN req.given THEN req.given[arg]
                            ELSE Default(arg)
    BY <1>3 DEF FilledIn
  <2>2. \A arg \in DOMAIN kwargs' \ DOMAIN req.given : arg \in missing
    BY <2>1 DEF Missing
  <2>3. \A arg \in DOMAIN kwargs' :
          IF arg \in DOMAIN req.given THEN kwargs'[arg] = req.given[arg]
          ELSE Converts(kwargs'[arg], Wrapper(req.function)[arg])
    BY <1>4, <2>1, <2>2
  <2> QED
    BY <1>3, <2>1, <2>3 DEF FilledInv
<1> QED
  BY <1>3, <1>5

\* The wrapper refuses what it is called with only for what the client gave.
LEMMA CallRefuses ==
  ASSUME RequestInv, FilledInv, CallWrapper, ~WrapperTakes(req.function, kwargs)
  PROVE  \E arg \in DOMAIN req.given :
           \/ arg \notin DOMAIN Wrapper(req.function)
           \/ req.given[arg].type = "int" /\ req.given[arg].n > IntMax
<1>1. /\ DOMAIN kwargs = DOMAIN Wrapper(req.function) \cup DOMAIN req.given
      /\ \A arg \in DOMAIN kwargs :
           IF arg \in DOMAIN req.given THEN kwargs[arg] = req.given[arg]
           ELSE Converts(kwargs[arg], Wrapper(req.function)[arg])
  BY DEF CallWrapper, FilledInv
<1>2. CASE DOMAIN kwargs # DOMAIN Wrapper(req.function)
  BY <1>1, <1>2
<1>3. CASE DOMAIN kwargs = DOMAIN Wrapper(req.function)
  <2>1. PICK arg \in DOMAIN kwargs :
          ~Converts(kwargs[arg], Wrapper(req.function)[arg])
    BY <1>3 DEF WrapperTakes
  <2>2. arg \in DOMAIN req.given /\ arg \in DOMAIN Wrapper(req.function)
        /\ ~Converts(req.given[arg], Wrapper(req.function)[arg])
    BY <1>1, <1>3, <2>1
  <2>3. req.given[arg].type = "int" /\ req.given[arg].n > IntMax
    BY <2>2, GivenConverts DEF RequestInv
  <2> QED
    BY <2>2, <2>3
<1> QED
  BY <1>2, <1>3

LEMMA RefusedNext ==
  ASSUME HelpServes, RequestInv, FilledInv, DefaultsNeverRefused, [Next]_vars
  PROVE  FilledInv' /\ DefaultsNeverRefused'
<1>1. ASSUME req' = req, pc' # "wrapper",
             outcome' = outcome \/ outcome' \notin {"ValueError", "TypeError"}
      PROVE  FilledInv' /\ DefaultsNeverRefused'
  BY <1>1 DEF FilledInv, DefaultsNeverRefused
<1>2. ASSUME outcome' = "none", pc' # "wrapper"
      PROVE  FilledInv' /\ DefaultsNeverRefused'
  BY <1>2 DEF FilledInv, DefaultsNeverRefused
<1>3. CASE \E r \in Requests : Receive(r)
  BY <1>2, <1>3 DEF Receive
<1>4. CASE Forget
  BY <1>2, <1>4 DEF Forget
<1>5. CASE Fill
  BY <1>5, FillServes DEF DefaultsNeverRefused
<1>6. CASE CallWrapper
  <2>1. CASE broken \/ WrapperTakes(req.function, kwargs)
    BY <1>1, <1>6, <2>1 DEF CallWrapper, End
  <2>2. CASE ~broken /\ ~WrapperTakes(req.function, kwargs)
    <3>1. req' = req /\ pc' = "idle"
      BY <1>6, <2>2 DEF CallWrapper, End
    <3> QED
      BY <1>6, <2>2, <3>1, CallRefuses DEF FilledInv, DefaultsNeverRefused
  <2> QED
    BY <2>1, <2>2
<1>7. CASE \/ StanWrites \/ StanGoesOn \/ StanThrows \/ StanTraps
           \/ StanReturns \/ Report
  BY <1>1, <1>7 DEF StanWrites, StanGoesOn, StanThrows, StanTraps, StanReturns,
     Report, End
<1>8. CASE ClockTicks
  <2>1. UNCHANGED <<req, pc, outcome>> /\ pc # "wrapper"
    BY <1>8 DEF ClockTicks, callVars
  <2> QED
    BY <1>1, <2>1
<1>9. CASE UNCHANGED vars
  BY <1>9 DEF vars, callVars, FilledInv, DefaultsNeverRefused
<1> QED
  BY <1>3, <1>4, <1>5, <1>6, <1>7, <1>8, <1>9 DEF Next, Quiet

\* With a help file that has a fitting default for every argument, and a clock
\* that is a C++ int, no default is ever a reason to refuse a call: whatever
\* combination of arguments a request gives, a call is refused before Stan runs
\* only for an argument that the client gave.
THEOREM DefaultsServe == HelpServes => (Spec => []DefaultsNeverRefused)
<1> SUFFICES ASSUME HelpServes PROVE Spec => []DefaultsNeverRefused
  OBVIOUS
<1>1. Init => RequestInv /\ FilledInv /\ DefaultsNeverRefused
  <2>1. NoRequest \in Requests /\ 0 \in 0..MaxClock
    BY SamplingAssumption, ArgumentsAssumption DEF NoRequest
  <2> QED
    BY <2>1 DEF Init, ArgumentsInit, RequestInv, FilledInv, DefaultsNeverRefused
<1>2. RequestInv /\ FilledInv /\ DefaultsNeverRefused /\ [Next]_vars
        => (RequestInv /\ FilledInv /\ DefaultsNeverRefused)'
  BY RequestNext, RefusedNext
<1> QED
  BY <1>1, <1>2, PTL DEF Spec
-----------------------------------------------------------------------------
(* What Stan writes.                                                       *)

\* A call that has not reached Stan has new writers.
FreshInv ==
  pc \in {"fill", "wrapper"} \/ (pc = "idle" /\ outcome = "none") =>
    /\ stage = "warnings" /\ round = 1 /\ at = 0 /\ adapt = "before"
    /\ fields = [w \in SocketWriters |-> <<>>]
    /\ lines = [w \in CallbackWriters |-> <<>>]
    /\ written = [w \in CallbackWriters |-> <<>>]

\* The names that the writers have by now.
NamesInv ==
  /\ stage = "warnings" =>
       fields["sample_writer"] = <<>> /\ fields["diagnostic_writer"] = <<>>
  /\ stage = "start" =>
       /\ fields["sample_writer"] = IF at >= 2 THEN SampleNames ELSE <<>>
       /\ fields["diagnostic_writer"] = IF at >= 3 THEN DiagnosticNames ELSE <<>>
  /\ stage \in {"warmup", "adaptation", "sampling", "elapsed"} =>
       /\ fields["sample_writer"] = SampleNames
       /\ fields["diagnostic_writer"] = DiagnosticNames

AdaptInv ==
  /\ stage \in {"warnings", "start", "warmup"} => adapt = "before"
  /\ stage = "adaptation" =>
       \/ at = 0 /\ adapt = "before"
       \/ at \in {1, 2} /\ adapt = "processing"
       \/ at = 3 /\ adapt = "final"
       \/ at = 4 /\ adapt = "after"
  /\ stage \in {"sampling", "elapsed"} => adapt \in DrawsTakenIn

StanInv ==
  pc = "stan" =>
    /\ at \in 0..Len(Script) /\ NamesInv /\ AdaptInv
    /\ stage \notin {"warmup", "sampling"} => round = 1

\* A message that Stan writes, by the stage it is in.
Scripted(m) ==
  \/ stage = "warnings" /\ \E i \in 1..req.nwarn : m = Log("warn", i)
  \/ stage = "failure" /\ at = 0 /\ m = Log("info", req.fails)
  \/ stage = "failure" /\ at = 1 /\ m = Log("error", req.fails)
  \/ stage = "start" /\ at = 0 /\ m = Values("init_writer", "inits", TRUE)
  \/ stage = "start" /\ at = 1 /\ m = Names("sample_writer", SampleNames)
  \/ stage = "start" /\ at = 2 /\ m = Names("diagnostic_writer", DiagnosticNames)
  \/ stage \in {"warmup", "sampling"} /\ m = Progress
  \/ /\ stage \in {"warmup", "sampling"}
     /\ \E w \in {"sample_writer", "diagnostic_writer"} : m = Draw(w)
  \/ /\ stage = "adaptation"
     /\ \/ at = 0 /\ m = Text("sample_writer", "Adaptation terminated")
        \/ at = 1 /\ m = Text("sample_writer", "Step size")
        \/ at = 2 /\ m = Text("sample_writer", "Diagonal elements")
        \/ at = 3 /\ m = Text("sample_writer", "0.961989")
  \/ /\ stage = "elapsed"
     /\ \/ \E w \in {"sample_writer", "diagnostic_writer"} :
             m = Blank(w) \/ m = Text(w, "Elapsed Time")
        \/ m = Log("info", "Elapsed Time")

LEMMA ShortSequences ==
  ASSUME NEW S, NEW x \in S, NEW y \in S
  PROVE  << >> \in Seq(S) /\ <<x>> \in Seq(S) /\ <<x, y>> \in Seq(S)
  OBVIOUS

LEMMA IterationScripted ==
  LET S == {Progress, Draw("sample_writer"), Draw("diagnostic_writer")}
  IN  Iteration \in Seq(S) /\ \A i \in 1..Len(Iteration) : Iteration[i] \in S
<1> DEFINE S == {Progress, Draw("sample_writer"), Draw("diagnostic_writer")}
<1>1. /\ << >> \in Seq(S) /\ <<Progress>> \in Seq(S)
      /\ <<Draw("sample_writer"), Draw("diagnostic_writer")>> \in Seq(S)
  BY ShortSequences
<1>2. (IF Reports THEN <<Progress>> ELSE <<>>) \in Seq(S)
  BY <1>1
<1>3. (IF Draws THEN <<Draw("sample_writer"), Draw("diagnostic_writer")>>
       ELSE <<>>) \in Seq(S)
  BY <1>1
<1>4. Iteration \in Seq(S)
  BY <1>2, <1>3, ConcatProperties DEF Iteration
<1>5. \A i \in 1..Len(Iteration) : Iteration[i] \in S
  BY <1>4, ElementOfSeq
<1> QED
  BY <1>4, <1>5

\* Every round of a stage has so many messages.
LEMMA ScriptLength == stage \in Stages /\ req.nwarn \in Nat => Len(Script) \in Nat
<1> SUFFICES ASSUME stage \in Stages, req.nwarn \in Nat PROVE Len(Script) \in Nat
  OBVIOUS
<1>1. CASE stage = "warnings"
  BY <1>1 DEF Script, Warnings
<1>2. CASE stage = "failure"
  <2>1. Script = Failure /\ Len(Failure) = 2
    BY <1>2 DEF Script, Failure
  <2> QED
    BY <2>1
<1>3. CASE stage = "start"
  <2>1. Script = Start /\ Len(Start) = 3
    BY <1>3 DEF Script, Start
  <2> QED
    BY <2>1
<1>4. CASE stage \in {"warmup", "sampling"}
  <2>1. Script = Iteration \/ Script = <<>>
    BY <1>4 DEF Script
  <2>2. Len(Iteration) \in Nat /\ Len(<<>>) = 0
    BY IterationScripted, LenProperties
  <2> QED
    BY <2>1, <2>2
<1>5. CASE stage = "adaptation"
  <2>1. Script = AdaptationEnd /\ Len(AdaptationEnd) = 4
    BY <1>5 DEF Script, AdaptationEnd
  <2> QED
    BY <2>1
<1>6. CASE stage = "elapsed"
  <2>1. Script = Elapsed /\ Len(Elapsed) = 7
    BY <1>6 DEF Script, Elapsed
  <2> QED
    BY <2>1
<1>7. CASE stage = "done"
  <2>1. Script = <<>> /\ Len(<<>>) = 0
    BY <1>7 DEF Script
  <2> QED
    BY <2>1
<1> QED
  BY <1>1, <1>2, <1>3, <1>4, <1>5, <1>6, <1>7 DEF Stages

LEMMA ScriptLengthNext ==
  stage' \in Stages /\ (req.nwarn)' \in Nat => Len(Script)' \in Nat
<1>1. (stage \in Stages /\ req.nwarn \in Nat => Len(Script) \in Nat)'
  BY ScriptLength, PTL
<1> QED
  BY <1>1 DEF Stages

LEMMA MessageScripted ==
  ASSUME stage \in Stages, req.nwarn \in Nat, at \in Nat, at < Len(Script)
  PROVE  Scripted(Message)
<1>1. CASE stage = "warnings"
  <2>1. Script = [i \in 1..req.nwarn |-> Log("warn", i)]
    BY <1>1 DEF Script, Warnings
  <2>2. Len(Script) = req.nwarn
    BY <2>1
  <2>3. at + 1 \in 1..req.nwarn
    BY <2>2
  <2> QED
    BY <1>1, <2>1, <2>3 DEF Message, Scripted
<1>2. CASE stage = "failure"
  <2>1. Script = <<Log("info", req.fails), Log("error", req.fails)>>
    BY <1>2 DEF Script, Failure
  <2>2. CASE at = 0
    BY <1>2, <2>1, <2>2 DEF Message, Scripted
  <2>3. CASE at = 1
    BY <1>2, <2>1, <2>3 DEF Message, Scripted
  <2>4. Len(Script) = 2
    BY <2>1
  <2>5. at \in {0, 1}
    BY <2>4
  <2> QED
    BY <2>2, <2>3, <2>5
<1>3. CASE stage = "start"
  <2>1. Script = Start /\ Len(Script) = 3
    BY <1>3 DEF Script, Start
  <2>2. at \in {0, 1, 2}
    BY <2>1
  <2>3. /\ Script[1] = Values("init_writer", "inits", TRUE)
        /\ Script[2] = Names("sample_writer", SampleNames)
        /\ Script[3] = Names("diagnostic_writer", DiagnosticNames)
    BY <2>1 DEF Start
  <2>4. 0 + 1 = 1 /\ 1 + 1 = 2 /\ 2 + 1 = 3
    OBVIOUS
  <2>5. CASE at = 0
    BY <1>3, <2>3, <2>4, <2>5 DEF Scripted, Message
  <2>6. CASE at = 1
    BY <1>3, <2>3, <2>4, <2>6 DEF Scripted, Message
  <2>7. CASE at = 2
    BY <1>3, <2>3, <2>4, <2>7 DEF Scripted, Message
  <2> QED
    BY <2>2, <2>5, <2>6, <2>7
<1>4. CASE stage \in {"warmup", "sampling"}
  <2>1. Script = IF round <= Rounds THEN Iteration ELSE <<>>
    BY <1>4 DEF Script
  <2>2. Len(<<>>) = 0
    OBVIOUS
  <2>3. Script = Iteration
    BY <2>1, <2>2
  <2>4. at + 1 \in 1..Len(Iteration)
    BY <2>3
  <2> QED
    BY <1>4, <2>3, <2>4, IterationScripted DEF Message, Scripted
<1>5. CASE stage = "adaptation"
  <2>1. Script = AdaptationEnd /\ Len(Script) = 4
    BY <1>5 DEF Script, AdaptationEnd
  <2>2. at \in {0, 1, 2, 3}
    BY <2>1
  <2>3. /\ Script[1] = Text("sample_writer", "Adaptation terminated")
        /\ Script[2] = Text("sample_writer", "Step size")
        /\ Script[3] = Text("sample_writer", "Diagonal elements")
        /\ Script[4] = Text("sample_writer", "0.961989")
    BY <2>1 DEF AdaptationEnd
  <2>4. 0 + 1 = 1 /\ 1 + 1 = 2 /\ 2 + 1 = 3 /\ 3 + 1 = 4
    OBVIOUS
  <2>5. CASE at = 0
    BY <1>5, <2>3, <2>4, <2>5 DEF Scripted, Message
  <2>6. CASE at = 1
    BY <1>5, <2>3, <2>4, <2>6 DEF Scripted, Message
  <2>7. CASE at = 2
    BY <1>5, <2>3, <2>4, <2>7 DEF Scripted, Message
  <2>8. CASE at = 3
    BY <1>5, <2>3, <2>4, <2>8 DEF Scripted, Message
  <2> QED
    BY <2>2, <2>5, <2>6, <2>7, <2>8
<1>6. CASE stage = "elapsed"
  <2>1. Script = Elapsed /\ Len(Script) = 7
    BY <1>6 DEF Script, Elapsed
  <2>2. Elapsed \in Seq({Blank("sample_writer"), Blank("diagnostic_writer"),
                        Text("sample_writer", "Elapsed Time"),
                        Text("diagnostic_writer", "Elapsed Time"),
                        Log("info", "Elapsed Time")})
    BY DEF Elapsed
  <2>3. Message \in {Blank("sample_writer"), Blank("diagnostic_writer"),
                     Text("sample_writer", "Elapsed Time"),
                     Text("diagnostic_writer", "Elapsed Time"),
                     Log("info", "Elapsed Time")}
    <3>1. at + 1 \in 1..Len(Elapsed)
      BY <2>1
    <3> QED
      BY <2>1, <2>2, <3>1, ElementOfSeq DEF Message
  <2> QED
    BY <1>6, <2>3 DEF Scripted
<1>7. stage # "done"
  BY DEF Script
<1> QED
  BY <1>1, <1>2, <1>3, <1>4, <1>5, <1>6, <1>7 DEF Stages

\* Every writer has sent a line for every message it was handed.
LinesInv ==
  /\ DOMAIN lines = CallbackWriters /\ DOMAIN written = CallbackWriters
  /\ \A w \in CallbackWriters :
       /\ lines[w] \in Seq(ToSet(lines[w]))
       /\ written[w] \in Seq(ToSet(written[w]))
       /\ \A i \in DOMAIN written[w] :
            /\ written[w][i].to = w
            /\ w = "logger" => written[w][i].kind \in Levels
  /\ LinesRecoverMessages

\* An error has been logged.
Erred ==
  \E i \in DOMAIN written["logger"] : written["logger"][i].kind = "error"

\* How Stan fares shows in its stages, and a failure is explained.
FailureInv ==
  /\ pc # "idle" => (req.fails = "late" => LateErrors)
  /\ pc = "stan" =>
       /\ stage \in {"warmup", "adaptation", "sampling", "elapsed"} =>
            req.fails = "no"
       /\ stage = "start" => req.fails # "initialization"
       /\ stage = "failure" => req.fails # "no" /\ at \in 0..2
       /\ stage = "failure" /\ at = 2 => Erred
       /\ stage = "done" /\ req.fails # "no" => Erred
  /\ pc = "report" => req.fails # "no" /\ Erred
  /\ pc \in {"stan", "report"} /\ req.fails = "initialization" =>
       \A w \in SocketWriters : lines[w] = <<>>
  /\ ErrorsReported

SamplingInv == TypeOK /\ FreshInv /\ StanInv /\ LinesInv
-----------------------------------------------------------------------------
(* One message.                                                            *)

\* A sequence is one of its own elements.
LEMMA OwnElements ==
  ASSUME NEW S, NEW t \in Seq(S)
  PROVE  t \in Seq(ToSet(t))
<1>1. Len(t) \in Nat /\ t \in [1..Len(t) -> S] /\ DOMAIN t = 1..Len(t)
  BY LenProperties
<1>2. \A i \in 1..Len(t) : t[i] \in ToSet(t)
  BY <1>1 DEF ToSet
<1>3. t \in [1..Len(t) -> ToSet(t)]
  BY <1>1, <1>2, Zenon
<1>4. Seq(ToSet(t)) = UNION {[1..n -> ToSet(t)] : n \in Nat}
  BY SeqDef
<1> QED
  BY <1>1, <1>3, <1>4, Zenon

LEMMA AppendKeeps ==
  ASSUME NEW s, s \in Seq(ToSet(s)), NEW e
  PROVE  /\ Append(s, e) \in Seq(ToSet(Append(s, e)))
         /\ Len(Append(s, e)) = Len(s) + 1 /\ Len(s) \in Nat
         /\ DOMAIN Append(s, e) = DOMAIN s \cup {Len(s) + 1}
         /\ DOMAIN s = 1..Len(s)
         /\ \A i \in DOMAIN s : Append(s, e)[i] = s[i]
         /\ Append(s, e)[Len(s) + 1] = e
<1> DEFINE S == ToSet(s) \cup {e}
           t == Append(s, e)
<1>1. s \in Seq(S)
  BY SeqMonotonic
<1>2. /\ t \in Seq(S) /\ Len(t) = Len(s) + 1 /\ Len(s) \in Nat
      /\ \A i \in 1..Len(s) : t[i] = s[i]
      /\ t[Len(s) + 1] = e
  BY <1>1, AppendProperties
<1>3. DOMAIN s = 1..Len(s) /\ DOMAIN t = 1..(Len(s) + 1)
  BY <1>1, <1>2
<1>4. 1..(Len(s) + 1) = 1..Len(s) \cup {Len(s) + 1}
  BY <1>2
<1>5. t \in Seq(ToSet(t))
  BY <1>2, OwnElements
<1> QED
  BY <1>2, <1>3, <1>4, <1>5

\* A message that a line represents keeps the lines in step with Stan.
LEMMA LineAdded ==
  ASSUME LinesInv, NEW w \in CallbackWriters, NEW m, NEW d,
         m.to = w, w = "logger" => m.kind \in Levels, Represents(d, m),
         lines' = [lines EXCEPT ![w] = Append(@, d)],
         written' = [written EXCEPT ![w] = Append(@, m)]
  PROVE  LinesInv'
<1>1. /\ DOMAIN lines' = CallbackWriters /\ DOMAIN written' = CallbackWriters
      /\ lines'[w] = Append(lines[w], d) /\ written'[w] = Append(written[w], m)
      /\ \A v \in CallbackWriters \ {w} :
           lines'[v] = lines[v] /\ written'[v] = written[v]
  BY DEF LinesInv
<1>2. /\ lines[w] \in Seq(ToSet(lines[w])) /\ written[w] \in Seq(ToSet(written[w]))
      /\ Len(lines[w]) = Len(written[w])
      /\ \A i \in DOMAIN written[w] :
           /\ Represents(lines[w][i], written[w][i])
           /\ written[w][i].to = w
           /\ w = "logger" => written[w][i].kind \in Levels
  BY DEF LinesInv, LinesRecoverMessages
<1>3. /\ lines'[w] \in Seq(ToSet(lines'[w]))
      /\ Len(lines'[w]) = Len(lines[w]) + 1
      /\ DOMAIN lines[w] = 1..Len(lines[w])
      /\ \A i \in DOMAIN lines[w] : lines'[w][i] = lines[w][i]
      /\ lines'[w][Len(lines[w]) + 1] = d
  BY <1>1, <1>2, AppendKeeps
<1>4. /\ written'[w] \in Seq(ToSet(written'[w]))
      /\ Len(written'[w]) = Len(written[w]) + 1
      /\ DOMAIN written'[w] = DOMAIN written[w] \cup {Len(written[w]) + 1}
      /\ DOMAIN written[w] = 1..Len(written[w])
      /\ \A i \in DOMAIN written[w] : written'[w][i] = written[w][i]
      /\ written'[w][Len(written[w]) + 1] = m
  BY <1>1, <1>2, AppendKeeps
<1>5. ASSUME NEW i \in DOMAIN written'[w]
      PROVE  /\ Represents(lines'[w][i], written'[w][i])
             /\ written'[w][i].to = w
             /\ w = "logger" => written'[w][i].kind \in Levels
  <2>1. CASE i \in DOMAIN written[w]
    <3>1. i \in DOMAIN lines[w]
      BY <1>2, <1>3, <1>4, <2>1
    <3>2. lines'[w][i] = lines[w][i] /\ written'[w][i] = written[w][i]
      BY <1>3, <1>4, <2>1, <3>1
    <3> QED
      BY <1>2, <2>1, <3>2
  <2>2. CASE i = Len(written[w]) + 1
    <3>1. lines'[w][i] = d /\ written'[w][i] = m
      BY <1>2, <1>3, <1>4, <2>2
    <3> QED
      BY <3>1
  <2> QED
    BY <1>4, <2>1, <2>2
<1>6. ASSUME NEW v \in CallbackWriters, v # w
      PROVE  /\ lines'[v] \in Seq(ToSet(lines'[v]))
             /\ written'[v] \in Seq(ToSet(written'[v]))
             /\ Len(lines'[v]) = Len(written'[v])
             /\ \A i \in DOMAIN written'[v] :
                  /\ Represents(lines'[v][i], written'[v][i])
                  /\ written'[v][i].to = v
                  /\ v = "logger" => written'[v][i].kind \in Levels
  BY <1>1, <1>6 DEF LinesInv, LinesRecoverMessages
<1>7. Len(lines'[w]) = Len(written'[w])
  BY <1>2, <1>3, <1>4
<1>8. \A v \in CallbackWriters :
        /\ lines'[v] \in Seq(ToSet(lines'[v]))
        /\ written'[v] \in Seq(ToSet(written'[v]))
        /\ Len(lines'[v]) = Len(written'[v])
        /\ \A i \in DOMAIN written'[v] :
             /\ Represents(lines'[v][i], written'[v][i])
             /\ written'[v][i].to = v
             /\ v = "logger" => written'[v][i].kind \in Levels
  BY <1>3, <1>4, <1>5, <1>6, <1>7
<1> QED
  BY <1>1, <1>8 DEF LinesInv, LinesRecoverMessages

LEMMA DistinctNames ==
  /\ SampleNames # <<>> /\ DiagnosticNames # <<>> /\ SampleNames # DiagnosticNames
  BY DEF SampleNames, DiagnosticNames

\* A writer takes what Stan writes.
LEMMA NotThrown ==
  ASSUME NEW m, Scripted(m), NamesInv, AdaptInv
  PROVE  ~Throws(m)
<1> USE DEF ToWriter
<1>1. ASSUME NEW level \in Levels, NEW content, m = Log(level, content)
      PROVE  ~Throws(m)
  BY <1>1 DEF Throws, Log, Levels
<1>2. ASSUME NEW w, NEW content, m = Text(w, content), w # "init_writer"
      PROVE  ~Throws(m)
  BY <1>2 DEF Throws, Text
<1>3. ASSUME NEW w, m = Blank(w) PROVE ~Throws(m)
  BY <1>3 DEF Throws, Blank
<1>4. CASE stage \in {"warnings", "failure", "adaptation", "elapsed"}
  BY <1>1, <1>2, <1>3, <1>4 DEF Scripted, Levels
<1>5. CASE stage = "start"
  <2>1. CASE m = Values("init_writer", "inits", TRUE)
    BY <2>1 DEF Throws, Values
  <2>2. CASE at = 1 /\ m = Names("sample_writer", SampleNames)
    BY <1>5, <2>2 DEF Throws, Names, NamesInv
  <2>3. CASE m = Names("diagnostic_writer", DiagnosticNames)
    BY <2>3 DEF Throws, Names
  <2> QED
    BY <1>5, <2>1, <2>2, <2>3 DEF Scripted
<1>6. CASE stage \in {"warmup", "sampling"}
  <2>1. CASE m = Progress
    BY <1>1, <2>1 DEF Progress, Levels
  <2>2. ASSUME NEW w \in {"sample_writer", "diagnostic_writer"}, m = Draw(w)
        PROVE  ~Throws(m)
    BY <1>6, <2>2, DistinctNames
    DEF Throws, Draw, Values, NamesInv, AdaptInv, DrawsTakenIn
  <2> QED
    BY <1>6, <2>1, <2>2 DEF Scripted
<1> QED
  BY <1>4, <1>5, <1>6 DEF Scripted

\* What a writer does with each kind of message.
LEMMA TextTaken ==
  ASSUME LinesInv, NEW w \in {"sample_writer", "diagnostic_writer"}, NEW content,
         LET m == Text(w, content) IN
           Takes(m) /\ written' = [written EXCEPT ![m.to] = Append(@, m)]
  PROVE  LinesInv' /\ fields' = fields
<1> DEFINE m == Text(w, content)
           d == Document(m, "texts", <<>>, m.content)
<1>1. /\ m.to = w /\ m.kind = "text" /\ m.content = content /\ w # "logger"
      /\ w \in CallbackWriters /\ m.kind \notin Levels
  BY DEF Text, ToWriter, CallbackWriters, SocketWriters, Levels
<1>2. /\ lines' = [lines EXCEPT ![w] = Append(@, d)] /\ fields' = fields
      /\ written' = [written EXCEPT ![w] = Append(@, m)]
  BY <1>1 DEF Takes, TakesText
<1>3. Represents(d, m)
  BY <1>1 DEF Represents, Document
<1> HIDE DEF m, d
<1> QED
  BY <1>1, <1>2, <1>3, LineAdded

LEMMA LogTaken ==
  ASSUME LinesInv, NEW level \in Levels, NEW content,
         LET m == Log(level, content) IN
           Takes(m) /\ written' = [written EXCEPT ![m.to] = Append(@, m)]
  PROVE  LinesInv' /\ fields' = fields /\ adapt' = adapt
<1> DEFINE m == Log(level, content)
           d == Document(m, "texts", <<>>, <<m.kind, m.content>>)
<1>1. /\ m.to = "logger" /\ m.kind = level /\ m.content = content
      /\ "logger" \in CallbackWriters
      /\ level \notin {"names", "values", "text", "blank"}
  BY DEF Log, ToWriter, CallbackWriters, Levels
<1>2. /\ lines' = [lines EXCEPT !["logger"] = Append(@, d)]
      /\ fields' = fields /\ adapt' = adapt
      /\ written' = [written EXCEPT !["logger"] = Append(@, m)]
  BY <1>1 DEF Takes, TakesLog
<1>3. Represents(d, m)
  BY <1>1 DEF Represents, Document
<1> HIDE DEF m, d
<1> QED
  BY <1>1, <1>2, <1>3, LineAdded

LEMMA ValuesTaken ==
  ASSUME LinesInv, NEW w \in SocketWriters, NEW content, NEW finite,
         w = "sample_writer" => fields[w] = SampleNames,
         w = "diagnostic_writer" => fields[w] = DiagnosticNames,
         LET m == Values(w, content, finite) IN
           Takes(m) /\ written' = [written EXCEPT ![m.to] = Append(@, m)]
  PROVE  LinesInv' /\ fields' = fields /\ adapt' = adapt
<1> DEFINE m == Values(w, content, finite)
           shape == IF w = "init_writer" THEN "numbers" ELSE "mapping"
           d == Document(m, shape, fields[w], m.content)
<1>1. /\ m.to = w /\ m.kind = "values" /\ m.content = content /\ w # "logger"
      /\ w \in CallbackWriters /\ m.kind \notin Levels
  BY DEF Values, ToWriter, CallbackWriters, SocketWriters, Levels
<1>2. /\ lines' = [lines EXCEPT ![w] = Append(@, d)]
      /\ fields' = fields /\ adapt' = adapt
      /\ written' = [written EXCEPT ![w] = Append(@, m)]
  BY <1>1 DEF Takes, TakesValues, WritesNumber
<1>3. Represents(d, m)
  BY <1>1 DEF Represents, Document, SocketWriters
<1> HIDE DEF m, d
<1> QED
  BY <1>1, <1>2, <1>3, LineAdded

LEMMA NamesTaken ==
  ASSUME NEW w \in {"sample_writer", "diagnostic_writer"}, NEW names,
         fields[w] = <<>>, Takes(Names(w, names))
  PROVE  /\ fields' = [fields EXCEPT ![w] = names]
         /\ lines' = lines /\ adapt' = adapt
<1>1. LET m == Names(w, names) IN
      m.to = w /\ m.kind = "names" /\ m.content = names /\ m.kind \notin Levels
  BY DEF Names, ToWriter, Levels
<1> QED
  BY <1>1 DEF Takes, TakesNames

LEMMA LinesSame == LinesInv /\ UNCHANGED <<lines, written>> => LinesInv'
  BY DEF LinesInv, LinesRecoverMessages

LEMMA BlankTaken ==
  ASSUME LinesInv, NEW w, Takes(Blank(w)), written' = written
  PROVE  LinesInv' /\ fields' = fields /\ adapt' = adapt
<1>1. Blank(w).kind = "blank" /\ Blank(w).kind \notin Levels
  BY DEF Blank, ToWriter, Levels
<1>2. fields' = fields /\ lines' = lines /\ adapt' = adapt
  BY <1>1 DEF Takes
<1> QED
  BY <1>2, LinesSame

\* After a message the lines are in step with Stan again, and the writers are
\* where the next message expects them.
LEMMA StanWritesKeeps ==
  ASSUME TypeOK, StanInv, LinesInv, StanWrites
  PROVE  /\ LinesInv' /\ NamesInv' /\ AdaptInv'
         /\ fields' \in [SocketWriters -> {<<>>, SampleNames, DiagnosticNames}]
<1> DEFINE m == Message
           W == [SocketWriters -> {<<>>, SampleNames, DiagnosticNames}]
<1>1. /\ Scripted(m) /\ Takes(m) /\ NamesInv /\ AdaptInv
      /\ stage' = stage /\ at' = at + 1 /\ at \in Nat
      /\ written' = IF m.kind \in {"names", "blank"} THEN written
                    ELSE [written EXCEPT ![m.to] = Append(@, m)]
  BY MessageScripted, SamplingAssumption DEF TypeOK, StanInv, StanWrites
<1>0. fields \in W /\ {"sample_writer", "diagnostic_writer"} \subseteq SocketWriters
  BY DEF TypeOK, SocketWriters
<1> HIDE DEF m
<1>2. ASSUME NEW level \in Levels, NEW content, m = Log(level, content)
      PROVE  LinesInv' /\ fields' = fields /\ adapt' = adapt
  <2>1. m.kind = level /\ level \notin {"names", "blank"}
    BY <1>2 DEF Log, ToWriter, Levels
  <2> QED
    BY <1>1, <1>2, <2>1, LogTaken
<1>3. ASSUME NEW w \in {"sample_writer", "diagnostic_writer"}, NEW content,
             m = Text(w, content)
      PROVE  /\ LinesInv' /\ fields' = fields
             /\ adapt' = IF w = "sample_writer" THEN AdaptAfter(content) ELSE adapt
  <2>1. m.kind = "text" /\ m.to = w /\ m.content = content
    BY <1>3 DEF Text, ToWriter
  <2>2. LinesInv' /\ fields' = fields
    BY <1>1, <1>3, <2>1, TextTaken
  <2> QED
    BY <1>1, <2>1, <2>2 DEF Takes
<1>4. ASSUME NEW w, m = Blank(w)
      PROVE  LinesInv' /\ fields' = fields /\ adapt' = adapt
  <2>1. m.kind = "blank"
    BY <1>4 DEF Blank, ToWriter
  <2> QED
    BY <1>1, <1>4, <2>1, BlankTaken
<1>5. ASSUME NEW w \in SocketWriters, NEW content, NEW finite,
             m = Values(w, content, finite),
             w = "sample_writer" => fields[w] = SampleNames,
             w = "diagnostic_writer" => fields[w] = DiagnosticNames
      PROVE  LinesInv' /\ fields' = fields /\ adapt' = adapt
  <2>1. m.kind = "values"
    BY <1>5 DEF Values, ToWriter
  <2> QED
    BY <1>1, <1>5, <2>1, ValuesTaken
<1>6. ASSUME NEW w \in {"sample_writer", "diagnostic_writer"}, NEW names,
             m = Names(w, names), fields[w] = <<>>
      PROVE  /\ LinesInv' /\ adapt' = adapt
             /\ fields' = [fields EXCEPT ![w] = names]
  <2>1. m.kind = "names"
    BY <1>6 DEF Names, ToWriter
  <2> QED
    BY <1>1, <1>6, <2>1, NamesTaken, LinesSame
<1>7. CASE stage \in {"warnings", "failure"}
  <2>1. LinesInv' /\ fields' = fields /\ adapt' = adapt
    BY <1>1, <1>2, <1>7 DEF Scripted, Levels
  <2> QED
    BY <1>0, <1>1, <1>7, <2>1 DEF NamesInv, AdaptInv
<1>8. CASE stage = "start"
  <2>1. CASE at = 0 /\ m = Values("init_writer", "inits", TRUE)
    <3>1. "init_writer" \in SocketWriters
      BY DEF SocketWriters
    <3>2. LinesInv' /\ fields' = fields /\ adapt' = adapt
      BY <1>5, <2>1, <3>1, Zenon
    <3>3. at' = 1
      BY <1>1, <2>1
    <3> QED
      BY <1>0, <1>1, <1>8, <2>1, <3>2, <3>3 DEF NamesInv, AdaptInv
  <2>2. CASE at = 1 /\ m = Names("sample_writer", SampleNames)
    <3>1. fields["sample_writer"] = <<>> /\ fields["diagnostic_writer"] = <<>>
      BY <1>1, <1>8, <2>2 DEF NamesInv
    <3>2. /\ LinesInv' /\ adapt' = adapt /\ at' = 2
          /\ fields' = [fields EXCEPT !["sample_writer"] = SampleNames]
      BY <1>1, <1>6, <2>2, <3>1
    <3>3. /\ fields'["sample_writer"] = SampleNames
          /\ fields'["diagnostic_writer"] = <<>>
      BY <3>1, <3>2 DEF TypeOK, SocketWriters
    <3>4. fields' \in W
      BY <1>0, <3>2
    <3> QED
      BY <1>1, <1>8, <3>2, <3>3, <3>4 DEF NamesInv, AdaptInv
  <2>3. CASE at = 2 /\ m = Names("diagnostic_writer", DiagnosticNames)
    <3>1. /\ fields["sample_writer"] = SampleNames
          /\ fields["diagnostic_writer"] = <<>>
      BY <1>1, <1>8, <2>3 DEF NamesInv
    <3>2. /\ LinesInv' /\ adapt' = adapt /\ at' = 3
          /\ fields' = [fields EXCEPT !["diagnostic_writer"] = DiagnosticNames]
      BY <1>1, <1>6, <2>3, <3>1
    <3>3. /\ fields'["sample_writer"] = SampleNames
          /\ fields'["diagnostic_writer"] = DiagnosticNames
      BY <3>1, <3>2 DEF TypeOK, SocketWriters
    <3>4. fields' \in W
      BY <1>0, <3>2
    <3> QED
      BY <1>1, <1>8, <3>2, <3>3, <3>4 DEF NamesInv, AdaptInv
  <2> QED
    BY <1>1, <1>8, <2>1, <2>2, <2>3 DEF Scripted
<1>9. CASE stage \in {"warmup", "sampling"}
  <2>1. ASSUME m = Progress
        PROVE  LinesInv' /\ fields' = fields /\ adapt' = adapt
    BY <1>2, <2>1 DEF Progress, Levels
  <2>2. ASSUME NEW w \in {"sample_writer", "diagnostic_writer"}, m = Draw(w)
        PROVE  LinesInv' /\ fields' = fields /\ adapt' = adapt
    BY <1>1, <1>5, <1>9, <2>2 DEF Draw, NamesInv, SocketWriters
  <2>3. LinesInv' /\ fields' = fields /\ adapt' = adapt
    BY <1>1, <1>9, <2>1, <2>2 DEF Scripted
  <2> QED
    BY <1>0, <1>1, <1>9, <2>3 DEF NamesInv, AdaptInv
<1>10. CASE stage = "adaptation"
  <2>1. at = 0 => adapt = "before" /\ at' = 1
    BY <1>1, <1>10 DEF AdaptInv
  <2>2. at = 1 => adapt = "processing" /\ at' = 2
    BY <1>1, <1>10 DEF AdaptInv
  <2>3. at = 2 => adapt = "processing" /\ at' = 3
    BY <1>1, <1>10 DEF AdaptInv
  <2>4. at = 3 => adapt = "final" /\ at' = 4
    BY <1>1, <1>10 DEF AdaptInv
  <2>5. CASE at = 0 /\ m = Text("sample_writer", "Adaptation terminated")
    <3>1. AdaptAfter("Adaptation terminated") = "processing"
      BY <2>1, <2>5 DEF AdaptAfter
    <3>2. LinesInv' /\ fields' = fields /\ adapt' = "processing"
      BY <1>3, <2>5, <3>1
    <3>3. at' = 1
      BY <2>1, <2>5, Zenon
    <3> QED
      BY <1>0, <1>1, <1>10, <3>2, <3>3 DEF NamesInv, AdaptInv
  <2>6. CASE at = 1 /\ m = Text("sample_writer", "Step size")
    <3>1. AdaptAfter("Step size") = "processing"
      BY <2>2, <2>6 DEF AdaptAfter
    <3>2. LinesInv' /\ fields' = fields /\ adapt' = "processing"
      BY <1>3, <2>6, <3>1
    <3>3. at' = 2
      BY <2>2, <2>6, Zenon
    <3> QED
      BY <1>0, <1>1, <1>10, <3>2, <3>3 DEF NamesInv, AdaptInv
  <2>7. CASE at = 2 /\ m = Text("sample_writer", "Diagonal elements")
    <3>1. AdaptAfter("Diagonal elements") = "final"
      BY <2>3, <2>7 DEF AdaptAfter
    <3>2. LinesInv' /\ fields' = fields /\ adapt' = "final"
      BY <1>3, <2>7, <3>1
    <3>3. at' = 3
      BY <2>3, <2>7, Zenon
    <3> QED
      BY <1>0, <1>1, <1>10, <3>2, <3>3 DEF NamesInv, AdaptInv
  <2>8. CASE at = 3 /\ m = Text("sample_writer", "0.961989")
    <3>1. AdaptAfter("0.961989") = "after"
      BY <2>4, <2>8 DEF AdaptAfter
    <3>2. LinesInv' /\ fields' = fields /\ adapt' = "after"
      BY <1>3, <2>8, <3>1
    <3>3. at' = 4
      BY <2>4, <2>8, Zenon
    <3> QED
      BY <1>0, <1>1, <1>10, <3>2, <3>3 DEF NamesInv, AdaptInv
  <2> QED
    BY <1>1, <1>10, <2>5, <2>6, <2>7, <2>8 DEF Scripted
<1>11. CASE stage = "elapsed"
  <2>1. ASSUME NEW w \in {"sample_writer", "diagnostic_writer"},
               m = Text(w, "Elapsed Time")
        PROVE  LinesInv' /\ fields' = fields /\ adapt' = adapt
    <3>1. AdaptAfter("Elapsed Time") = adapt
      BY <1>1, <1>11 DEF AdaptInv, DrawsTakenIn, AdaptAfter
    <3> QED
      BY <1>3, <2>1, <3>1
  <2>2. LinesInv' /\ fields' = fields /\ adapt' = adapt
    BY <1>1, <1>2, <1>4, <1>11, <2>1 DEF Scripted, Levels
  <2> QED
    BY <1>0, <1>1, <1>11, <2>2 DEF NamesInv, AdaptInv
<1> QED
  BY <1>1, <1>7, <1>8, <1>9, <1>10, <1>11 DEF Scripted
-----------------------------------------------------------------------------
(* The invariant.                                                          *)

LEMMA FreshNext == FreshInv /\ [Next]_vars => FreshInv'
<1> SUFFICES ASSUME FreshInv, [Next]_vars PROVE FreshInv'
  OBVIOUS
<1>1. CASE \E r \in Requests : Receive(r)
  BY <1>1 DEF Receive, FreshInv, stanVars, writerVars
<1>2. CASE Forget
  BY <1>2 DEF Forget, FreshInv
<1>3. CASE Fill
  <2>1. pc = "fill" /\ UNCHANGED <<stanVars, writerVars>>
    BY <1>3 DEF Fill
  <2> QED
    BY <2>1 DEF FreshInv, stanVars, writerVars
<1>4. CASE CallWrapper
  BY <1>4 DEF CallWrapper, End, FreshInv, stanVars, writerVars
<1>5. CASE \/ StanWrites \/ StanGoesOn \/ StanThrows \/ StanTraps
           \/ StanReturns \/ Report
  <2>1. pc' \in {"stan", "report"} \/ (pc' = "idle" /\ outcome' # "none")
    BY <1>5 DEF StanWrites, StanGoesOn, StanThrows, StanTraps, StanReturns,
       Report, End
  <2> QED
    BY <2>1 DEF FreshInv
<1>6. CASE ClockTicks \/ UNCHANGED vars
  <2>1. UNCHANGED <<pc, outcome, stanVars, writerVars>>
    BY <1>6 DEF ClockTicks, callVars, vars
  <2> QED
    BY <2>1 DEF FreshInv, stanVars, writerVars
<1> QED
  BY <1>1, <1>2, <1>3, <1>4, <1>5, <1>6 DEF Next, Quiet

LEMMA LinesFresh ==
  ASSUME lines' = [w \in CallbackWriters |-> <<>>],
         written' = [w \in CallbackWriters |-> <<>>]
  PROVE  LinesInv'
<1>1. << >> \in Seq(ToSet(<< >>)) /\ Len(<< >>) = 0 /\ DOMAIN << >> = {}
  OBVIOUS
<1> QED
  BY <1>1 DEF LinesInv, LinesRecoverMessages

LEMMA LinesNext ==
  ASSUME TypeOK, StanInv, LinesInv, [Next]_vars
  PROVE  LinesInv'
<1>1. CASE StanWrites
  BY <1>1, StanWritesKeeps
<1>2. CASE Forget
  BY <1>2, LinesFresh DEF Forget
<1>3. CASE \/ \E r \in Requests : Receive(r)
           \/ Fill \/ CallWrapper \/ StanGoesOn \/ StanThrows \/ StanTraps
           \/ StanReturns \/ Report \/ ClockTicks \/ UNCHANGED vars
  <2>1. UNCHANGED <<lines, written>>
    BY <1>3 DEF Receive, Fill, CallWrapper, StanGoesOn, StanThrows, StanTraps,
       StanReturns, Report, ClockTicks, vars, callVars, stanVars, writerVars
  <2> QED
    BY <2>1, LinesSame
<1> QED
  BY <1>1, <1>2, <1>3 DEF Next, Quiet

LEMMA GoesOnKeeps ==
  ASSUME TypeOK, StanInv, StanGoesOn
  PROVE  NamesInv' /\ AdaptInv' /\ (stage \notin {"warmup", "sampling"} => round = 1)'
<1>1. /\ stage \in Stages \ {"done"} /\ round \in Nat /\ at' = 0
      /\ at = Len(Script) /\ fields' = fields /\ adapt' = adapt
      /\ NamesInv /\ AdaptInv
      /\ stage \notin {"warmup", "sampling"} => round = 1
  BY DEF TypeOK, StanInv, StanGoesOn, writerVars
<1>2. CASE round < Rounds
  <2>1. stage \in {"warmup", "sampling"}
    BY <1>1, <1>2 DEF Rounds
  <2>2. stage' = stage
    BY <1>2 DEF StanGoesOn
  <2> QED
    BY <1>1, <2>1, <2>2 DEF NamesInv, AdaptInv
<1>3. CASE ~(round < Rounds)
  <2>1. stage' = NextStage /\ round' = 1
    BY <1>3 DEF StanGoesOn
  <2>2. CASE stage = "warnings"
    <3>1. stage' \in {"failure", "start"}
      BY <2>1, <2>2 DEF NextStage
    <3> QED
      BY <1>1, <2>1, <2>2, <3>1 DEF NamesInv, AdaptInv
  <2>3. CASE stage = "start"
    <3>1. stage' \in {"failure", "sampling", "warmup"}
      BY <2>1, <2>3 DEF NextStage
    <3>2. at = 3
      <4>1. Script = Start /\ Len(Start) = 3
        BY <2>3 DEF Script, Start
      <4> QED
        BY <1>1, <4>1
    <3> QED
      BY <1>1, <2>1, <2>3, <3>1, <3>2 DEF NamesInv, AdaptInv, DrawsTakenIn
  <2>4. CASE stage = "warmup"
    <3>1. stage' = "adaptation"
      BY <2>1, <2>4 DEF NextStage
    <3> QED
      BY <1>1, <2>1, <2>4, <3>1 DEF NamesInv, AdaptInv
  <2>5. CASE stage = "adaptation"
    <3>1. stage' = "sampling"
      BY <2>1, <2>5 DEF NextStage
    <3>2. at = 4
      <4>1. Script = AdaptationEnd /\ Len(AdaptationEnd) = 4
        BY <2>5 DEF Script, AdaptationEnd
      <4> QED
        BY <1>1, <4>1
    <3>3. adapt = "after"
      BY <1>1, <2>5, <3>2 DEF AdaptInv
    <3> QED
      BY <1>1, <2>1, <2>5, <3>1, <3>3 DEF NamesInv, AdaptInv, DrawsTakenIn
  <2>6. CASE stage = "sampling"
    <3>1. stage' = "elapsed"
      BY <2>1, <2>6 DEF NextStage
    <3> QED
      BY <1>1, <2>1, <2>6, <3>1 DEF NamesInv, AdaptInv
  <2>7. CASE stage \in {"failure", "elapsed"}
    <3>1. stage' = "done"
      BY <2>1, <2>7 DEF NextStage
    <3> QED
      BY <1>1, <2>1, <3>1 DEF NamesInv, AdaptInv
  <2> QED
    BY <1>1, <2>2, <2>3, <2>4, <2>5, <2>6, <2>7 DEF Stages
<1> QED
  BY <1>2, <1>3

LEMMA StanNext ==
  ASSUME TypeOK, TypeOK', FreshInv, StanInv, LinesInv, [Next]_vars
  PROVE  StanInv'
<1>1. CASE CallWrapper
  <2>1. CASE WrapperTakes(req.function, kwargs)
    <3>1. /\ stage' = "warnings" /\ round' = 1 /\ at' = 0 /\ adapt' = "before"
          /\ fields' = [w \in SocketWriters |-> <<>>] /\ req' = req
      BY <1>1 DEF CallWrapper, FreshInv, stanVars, writerVars
    <3>2. /\ fields'["sample_writer"] = <<>> /\ fields'["diagnostic_writer"] = <<>>
      BY <3>1 DEF SocketWriters
    <3>3. Len(Script)' \in Nat
      BY <3>1, ScriptLengthNext, SamplingAssumption DEF TypeOK
    <3>4. NamesInv' /\ AdaptInv'
      BY <3>1, <3>2 DEF NamesInv, AdaptInv
    <3> QED
      BY <3>1, <3>3, <3>4 DEF StanInv
  <2>2. CASE ~WrapperTakes(req.function, kwargs)
    BY <1>1, <2>2 DEF CallWrapper, End, StanInv
  <2> QED
    BY <2>1, <2>2
<1>2. CASE StanWrites
  <2>1. /\ NamesInv' /\ AdaptInv' /\ at' = at + 1 /\ at < Len(Script)
        /\ UNCHANGED <<req, kwargs, pc, stage, round>> /\ pc = "stan"
    BY <1>2, StanWritesKeeps DEF StanWrites
  <2>2. Script' = Script
    BY <2>1 DEF Script, Warnings, Failure, Rounds, Iteration, Reports, Draws,
       Remainder, Saved, Progress, Draw
  <2>3. Len(Script) \in Nat /\ at \in Nat
    BY ScriptLength, SamplingAssumption DEF TypeOK
  <2>4. at' \in 0..Len(Script)'
    BY <2>1, <2>2, <2>3
  <2> QED
    BY <2>1, <2>4 DEF StanInv
<1>3. CASE StanGoesOn
  <2>1. at' = 0
    BY <1>3 DEF StanGoesOn
  <2>2. Len(Script)' \in Nat
    BY ScriptLengthNext, SamplingAssumption DEF TypeOK
  <2>3. at' \in 0..Len(Script)'
    BY <2>1, <2>2
  <2> QED
    BY <1>3, <2>3, GoesOnKeeps DEF StanInv
<1>4. CASE (\E r \in Requests : Receive(r)) \/ Forget \/ Fill \/ StanThrows
             \/ StanTraps \/ StanReturns \/ Report
  <2>1. pc' # "stan"
    BY <1>4 DEF Receive, Forget, Fill, StanThrows, StanTraps, StanReturns,
       Report, End
  <2> QED
    BY <2>1 DEF StanInv
<1>5. CASE ClockTicks
  <2>1. pc' # "stan"
    BY <1>5 DEF ClockTicks, callVars
  <2> QED
    BY <2>1 DEF StanInv
<1>6. CASE UNCHANGED vars
  <2>1. UNCHANGED <<req, kwargs, pc, stage, round, at, fields, adapt>>
    BY <1>6 DEF vars, callVars, stanVars, writerVars
  <2>2. Script' = Script
    BY <2>1 DEF Script, Warnings, Failure, Rounds, Iteration, Reports, Draws,
       Remainder, Saved, Progress, Draw
  <2> QED
    BY <2>1, <2>2 DEF StanInv, NamesInv, AdaptInv
<1> QED
  BY <1>1, <1>2, <1>3, <1>4, <1>5, <1>6 DEF Next, Quiet

\* The first four of some places are at most four.
LEMMA FirstFourBound ==
  ASSUME NEW P \in SUBSET Nat, IsFiniteSet(P)
  PROVE  Cardinality(FirstFour(P)) <= 4
<1> DEFINE F == FirstFour(P)
           Below(i) == {j \in P : j < i}
           f == [i \in F |-> Cardinality(Below(i))]
<1>1. ASSUME NEW i \in P
      PROVE  i \in Nat /\ IsFiniteSet(Below(i)) /\ Cardinality(Below(i)) \in Nat
  BY FS_Subset, FS_CardinalityType
<1>2. F \subseteq P /\ \A i \in F : Cardinality(Below(i)) < 4
  BY DEF FirstFour
<1>3. ASSUME NEW i \in P, NEW k \in P, i < k
      PROVE  Cardinality(Below(i)) # Cardinality(Below(k))
  <2>1. i \in Nat /\ k \in Nat /\ P \subseteq Nat
    OBVIOUS
  <2>2. Below(i) \cup {i} \in SUBSET Below(k) /\ i \notin Below(i)
    <3>1. i \in Below(k) /\ i \notin Below(i)
      BY <1>3, <2>1
    <3>2. \A j \in P : j < i => j < k
      BY <1>3, <2>1
    <3> QED
      BY <3>1, <3>2
  <2>3. Cardinality(Below(i) \cup {i}) <= Cardinality(Below(k))
    BY <1>1, <2>2, FS_Subset
  <2>4. Cardinality(Below(i) \cup {i}) = Cardinality(Below(i)) + 1
    BY <1>1, <2>2, FS_AddElement
  <2> QED
    BY <1>1, <2>3, <2>4
<1> HIDE DEF F, Below
<1>4. \A i \in F : i \in P /\ Cardinality(Below(i)) \in 0..3
  BY <1>1, <1>2
<1>5. f \in [F -> 0..3]
  BY <1>4
<1>6. \A i, k \in F : f[i] = f[k] => i = k
  <2> SUFFICES ASSUME NEW i \in F, NEW k \in F, i # k PROVE f[i] # f[k]
    OBVIOUS
  <2>1. i \in P /\ k \in P /\ i \in Nat /\ k \in Nat
    BY <1>1, <1>4
  <2>2. i < k \/ k < i
    BY <2>1
  <2> QED
    BY <1>3, <2>1, <2>2
<1> HIDE DEF f
<1>7. f \in Injection(F, 0..3)
  BY <1>5, <1>6, Zenon DEF Injection, IsInjective
<1>8. IsFiniteSet(0..3) /\ Cardinality(0..3) = 4
  <2>1. 0 \in Int /\ 3 \in Int /\ ~(0 > 3) /\ 3 - 0 + 1 = 4
    OBVIOUS
  <2> QED
    BY <2>1, FS_Interval
<1>9. Cardinality(F) <= Cardinality(0..3)
  BY <1>7, <1>8, FS_Injection
<1> QED
  BY <1>8, <1>9 DEF F

LEMMA LoggedFinite ==
  ASSUME LinesInv, NEW level
  PROVE  /\ LoggedAt(level) \in SUBSET Nat /\ IsFiniteSet(LoggedAt(level))
         /\ LoggedAt(level) \subseteq DOMAIN lines["logger"]
<1>1. "logger" \in CallbackWriters
  BY DEF CallbackWriters
<1>2. /\ DOMAIN lines["logger"] = 1..Len(lines["logger"])
      /\ Len(lines["logger"]) \in Nat
  BY <1>1, LenProperties DEF LinesInv
<1>3. IsFiniteSet(1..Len(lines["logger"]))
  BY <1>2, FS_Interval
<1>4. LoggedAt(level) \in SUBSET (1..Len(lines["logger"]))
  BY <1>2 DEF LoggedAt
<1> QED
  BY <1>2, <1>3, <1>4, FS_Subset

LEMMA LinesTyped ==
  LinesInv =>
    /\ DOMAIN lines = CallbackWriters /\ DOMAIN written = CallbackWriters
    /\ \A w \in CallbackWriters : \A i \in DOMAIN lines[w] :
         lines[w][i].topic = Topic(w) /\ lines[w][i].shape \in Shapes
<1> SUFFICES ASSUME LinesInv, NEW w \in CallbackWriters, NEW i \in DOMAIN lines[w]
             PROVE  lines[w][i].topic = Topic(w) /\ lines[w][i].shape \in Shapes
  BY DEF LinesInv
<1>1. DOMAIN lines[w] = 1..Len(lines[w]) /\ DOMAIN written[w] = 1..Len(written[w])
  BY LenProperties DEF LinesInv
<1>2. Represents(lines[w][i], written[w][i]) /\ written[w][i].to = w
  BY <1>1 DEF LinesInv, LinesRecoverMessages
<1> QED
  BY <1>2 DEF Represents, Shapes

LEMMA AdaptTyped ==
  ASSUME adapt \in AdaptationStates, NEW text
  PROVE  AdaptAfter(text) \in AdaptationStates
  BY DEF AdaptAfter, AdaptationStates

\* The parts of TypeOK that the steps change one at a time.
LEMMA TypeNext ==
  ASSUME TypeOK, StanInv, LinesInv, LinesInv', [Next]_vars
  PROVE  TypeOK'
<1> USE DEF TypeOK
<1>1. /\ DOMAIN lines' = CallbackWriters /\ DOMAIN written' = CallbackWriters
      /\ \A w \in CallbackWriters : \A i \in DOMAIN lines'[w] :
           lines'[w][i].topic = Topic(w) /\ lines'[w][i].shape \in Shapes
  <2>1. (LinesInv =>
           /\ DOMAIN lines = CallbackWriters /\ DOMAIN written = CallbackWriters
           /\ \A w \in CallbackWriters : \A i \in DOMAIN lines[w] :
                lines[w][i].topic = Topic(w) /\ lines[w][i].shape \in Shapes)'
    BY LinesTyped, PTL
  <2> QED
    BY <2>1, Zenon
<1>2. MaxClock \in Nat /\ NoSeed \notin Nat /\ MaxCalls \in Nat
  BY ArgumentsAssumption, SamplingAssumption
<1>3. CASE \E r \in Requests : Receive(r)
  <2>1. ncall < MaxCalls /\ ncall' = ncall + 1 /\ req' \in Requests /\ pc' = "fill"
        /\ UNCHANGED <<kwargs, stage, round, at, outcome, report, broken, clock,
                       cached, fields, adapt>>
    BY <1>3 DEF Receive, stanVars, argumentVars, writerVars
  <2>2. ncall' \in 0..MaxCalls
    BY <1>2, <2>1
  <2> QED
    BY <1>1, <2>1, <2>2
<1>4. CASE Forget
  <2>1. NoRequest \in Requests
    BY SamplingAssumption DEF NoRequest
  <2>2. /\ req' \in Requests /\ kwargs' = <<>> /\ stage' = "warnings"
        /\ round' = 1 /\ at' = 0 /\ outcome' = "none" /\ report' = NoReport
        /\ fields' = [w \in SocketWriters |-> <<>>] /\ adapt' = "before"
        /\ UNCHANGED <<ncall, pc, broken, clock, cached>>
    BY <1>4, <2>1 DEF Forget, argumentVars
  <2>3. Cardinality(DOMAIN report'.warnings) = 0
    BY <2>2, FS_EmptySet DEF NoReport
  <2>4. Cardinality(DOMAIN report'.warnings) <= 4 /\ DOMAIN kwargs' = {}
    BY <2>2, <2>3
  <2>5. fields' \in [SocketWriters -> {<<>>, SampleNames, DiagnosticNames}]
    BY <2>2
  <2> QED
    BY <1>1, <2>2, <2>4, <2>5 DEF Stages, AdaptationStates
<1>5. CASE Fill
  <2>1. UNCHANGED <<ncall, req, stage, round, at, report, broken, clock, fields,
                    adapt>>
    BY <1>5 DEF Fill, stanVars, writerVars
  <2>2. cached' \in {cached, DefaultSeed}
    BY <1>5 DEF Fill, Remember
  <2>3. DefaultSeed \in 0..clock /\ DefaultSeed \in 0..MaxClock
    BY <1>2 DEF DefaultSeed
  <2>4. DOMAIN kwargs' \subseteq DOMAIN RequestFields
    <3>1. DOMAIN Wrapper(req.function) \subseteq DOMAIN RequestFields
      BY WrapperArguments DEF RequestFields
    <3>2. DOMAIN req.given \subseteq DOMAIN RequestFields
      BY SamplingAssumption
    <3>3. kwargs' = kwargs \/ kwargs' = FilledIn(req.function, req.given)
      BY <1>5 DEF Fill
    <3> QED
      BY <3>1, <3>2, <3>3 DEF FilledIn
  <2>5. pc' \in {"idle", "wrapper"} /\ outcome' \in {outcome, "ValueError"}
    BY <1>5 DEF Fill, End
  <2>6. cached' \in 0..clock \cup {NoSeed}
    BY <2>2, <2>3
  <2>7. outcome' \in {"none", "fit", "ValueError", "TypeError", "writer_threw",
                      "exception", "BrokenProcessPool", "RuntimeError",
                      "other_error"}
    BY <2>5
  <2> QED
    BY <1>1, <2>1, <2>4, <2>5, <2>6, <2>7
<1>6. CASE CallWrapper \/ StanThrows \/ StanTraps \/ StanReturns
  <2>1. UNCHANGED <<ncall, req, kwargs, stage, round, at, report, clock, cached,
                    fields, adapt>> /\ broken' \in {broken, TRUE}
    BY <1>6 DEF CallWrapper, StanThrows, StanTraps, StanReturns, stanVars, writerVars,
       argumentVars
  <2>2. /\ pc' \in {"idle", "stan", "report"}
        /\ outcome' \in {outcome, "TypeError", "writer_threw", "exception",
                         "BrokenProcessPool", "fit"}
    BY <1>6 DEF CallWrapper, StanThrows, StanTraps, StanReturns, End
  <2>3. outcome' \in {"none", "fit", "ValueError", "TypeError", "writer_threw",
                      "exception", "BrokenProcessPool", "RuntimeError",
                      "other_error"}
    BY <2>2
  <2> QED
    BY <1>1, <2>1, <2>2, <2>3
<1>7. CASE StanWrites
  <2>1. UNCHANGED <<ncall, req, kwargs, pc, stage, round, outcome, report, broken,
                    clock, cached>> /\ at' = at + 1
    BY <1>7 DEF StanWrites, argumentVars
  <2>2. fields' \in [SocketWriters -> {<<>>, SampleNames, DiagnosticNames}]
    BY <1>7, StanWritesKeeps
  <2>3. adapt' \in AdaptationStates
    BY <1>7, AdaptTyped DEF StanWrites, Takes
  <2> QED
    BY <1>1, <2>1, <2>2, <2>3
<1>8. CASE StanGoesOn
  <2>1. UNCHANGED <<ncall, req, kwargs, pc, outcome, report, broken, clock, cached,
                    fields, adapt>> /\ at' = 0
    BY <1>8 DEF StanGoesOn, argumentVars, writerVars
  <2>2. stage' = stage \/ stage' = NextStage
    BY <1>8 DEF StanGoesOn
  <2>3. stage' \in Stages
    BY <1>8, <2>2 DEF NextStage, Stages, StanGoesOn
  <2>4. round' \in Nat
    BY <1>8 DEF StanGoesOn
  <2> QED
    BY <1>1, <2>1, <2>3, <2>4
<1>9. CASE Report
  <2>1. UNCHANGED <<ncall, req, kwargs, stage, round, at, broken, clock, cached,
                    fields, adapt>>
    BY <1>9 DEF Report, stanVars, argumentVars, writerVars
  <2>2. pc' = "idle" /\ outcome' \in {"other_error", "RuntimeError"}
    BY <1>9 DEF Report, End
  <2>3. Cardinality(DOMAIN report'.warnings) <= 4
    <3>1. CASE report' = report
      BY <3>1
    <3>2. CASE report' # report
      <4>1. report'.warnings = Told(FirstFour(LoggedAt("warn")))
        BY <1>9, <3>2 DEF Report
      <4>2. DOMAIN report'.warnings = FirstFour(LoggedAt("warn"))
        BY <4>1 DEF Told
      <4> QED
        BY <4>2, LoggedFinite, FirstFourBound
    <3> QED
      BY <3>1, <3>2
  <2> QED
    BY <1>1, <2>1, <2>2, <2>3
<1>10. CASE ClockTicks
  <2>1. /\ UNCHANGED <<ncall, req, kwargs, pc, stage, round, at, outcome, report,
                       broken, cached, fields, adapt>>
        /\ clock < MaxClock /\ clock' = clock + 1
    BY <1>10 DEF ClockTicks, Tick, callVars, stanVars, writerVars
  <2>2. clock' \in 0..MaxClock /\ cached \in 0..clock' \cup {NoSeed}
    BY <1>2, <2>1
  <2> QED
    BY <1>1, <2>1, <2>2
<1>11. CASE UNCHANGED vars
  <2>1. UNCHANGED <<ncall, req, kwargs, pc, stage, round, at, outcome, report,
                    broken, clock, cached, fields, adapt>>
    BY <1>11 DEF vars, callVars, stanVars, writerVars, argumentVars
  <2> QED
    BY <1>1, <2>1
<1> QED
  BY <1>3, <1>4, <1>5, <1>6, <1>7, <1>8, <1>9, <1>10, <1>11 DEF Next, Quiet

LEMMA SamplingAlways == Spec => []SamplingInv
<1>1. Init => SamplingInv
  <2> SUFFICES ASSUME Init PROVE SamplingInv
    OBVIOUS
  <2>1. FreshInv /\ StanInv
    BY DEF Init, ArgumentsInit, WritersInit, FreshInv, StanInv
  <2>2. LinesInv
    <3>1. << >> \in Seq(ToSet(<< >>)) /\ Len(<< >>) = 0 /\ DOMAIN << >> = {}
      OBVIOUS
    <3> QED
      BY <3>1 DEF Init, WritersInit, LinesInv, LinesRecoverMessages
  <2>3. TypeOK
    <3>1. NoRequest \in Requests /\ MaxClock \in Nat /\ MaxCalls \in Nat
      BY SamplingAssumption, ArgumentsAssumption DEF NoRequest
    <3>2. DOMAIN kwargs = {} /\ DOMAIN report.warnings = {}
      BY DEF Init, NoReport
    <3>3. Cardinality(DOMAIN report.warnings) <= 4
      BY <3>2, FS_EmptySet
    <3>4. fields \in [SocketWriters -> {<<>>, SampleNames, DiagnosticNames}]
      BY DEF Init, WritersInit
    <3>5. /\ clock \in 0..MaxClock /\ cached \in 0..clock \cup {NoSeed}
          /\ ncall \in 0..MaxCalls /\ req \in Requests /\ pc = "idle"
          /\ stage \in Stages /\ round \in Nat /\ at \in Nat
          /\ outcome = "none" /\ adapt \in AdaptationStates
      BY <3>1 DEF Init, WritersInit, ArgumentsInit, Stages, AdaptationStates
    <3>6. broken \in BOOLEAN
      BY Zenon DEF Init
    <3> QED
      BY <2>2, <3>2, <3>3, <3>4, <3>5, <3>6, LinesTyped DEF TypeOK
  <2> QED
    BY <2>1, <2>2, <2>3 DEF SamplingInv
<1>2. SamplingInv /\ [Next]_vars => SamplingInv'
  BY FreshNext, LinesNext, TypeNext, StanNext DEF SamplingInv
<1> QED
  BY <1>1, <1>2, PTL DEF Spec

\* The state stays typed, whatever clients ask for and Stan does: the report of
\* a failed call holds at most four warnings, and the lines of a writer have
\* its topic.
THEOREM SamplingTypes == Spec => []TypeOK
  BY SamplingAlways, PTL DEF SamplingInv

\* For any number of iterations, with or without warm-up draws, adaptation or
\* draws, each writer's lines are what Stan has written to it, in order.
THEOREM LinesRecover == Spec => []LinesRecoverMessages
  BY SamplingAlways, PTL DEF SamplingInv, LinesInv

\* No writer throws what Stan writes: when a message comes, the names have been
\* kept and the adaptation is over, or has not begun.
THEOREM WritersFollow == Spec => []WritersFollowStan
<1>1. Init => WritersFollowStan
  BY DEF Init, WritersFollowStan
<1>2. SamplingInv /\ WritersFollowStan /\ [Next]_vars => WritersFollowStan'
  <2> SUFFICES ASSUME SamplingInv, WritersFollowStan, [Next]_vars
               PROVE  WritersFollowStan'
    OBVIOUS
  <2> USE DEF WritersFollowStan
  <2>1. CASE StanThrows
    <3>1. ~(at < Len(Script) /\ Throws(Message))
      <4> SUFFICES ASSUME at < Len(Script) PROVE ~Throws(Message)
        OBVIOUS
      <4>1. Scripted(Message)
        BY MessageScripted, SamplingAssumption DEF SamplingInv, TypeOK
      <4> QED
        BY <2>1, <4>1, NotThrown DEF SamplingInv, StanInv, StanThrows
    <3> QED
      BY <2>1, <3>1 DEF StanThrows, End
  <2>2. CASE \/ \E r \in Requests : Receive(r)
             \/ Forget \/ Fill \/ CallWrapper \/ StanWrites \/ StanGoesOn
             \/ StanTraps \/ StanReturns \/ Report \/ ClockTicks
             \/ UNCHANGED vars
    BY <2>2 DEF Receive, Forget, Fill, CallWrapper, StanWrites, StanGoesOn,
       StanTraps, StanReturns, Report, ClockTicks, vars, callVars, End
  <2> QED
    BY <2>1, <2>2 DEF Next, Quiet
<1> QED
  BY <1>1, <1>2, SamplingAlways, PTL DEF Spec
-----------------------------------------------------------------------------
(* What a failed call tells the client.                                    *)

\* The logger's lines are what was logged, with the level.
LEMMA LoggerLines ==
  ASSUME LinesInv
  PROVE  /\ DOMAIN lines["logger"] = DOMAIN written["logger"]
         /\ \A i \in DOMAIN written["logger"] :
              /\ lines["logger"][i].shape = "texts"
              /\ lines["logger"][i].content =
                   <<written["logger"][i].kind, written["logger"][i].content>>
<1>1. "logger" \in CallbackWriters
  BY DEF CallbackWriters
<1>2. /\ DOMAIN lines["logger"] = 1..Len(lines["logger"])
      /\ DOMAIN written["logger"] = 1..Len(written["logger"])
      /\ Len(lines["logger"]) = Len(written["logger"])
  BY <1>1, LenProperties DEF LinesInv, LinesRecoverMessages
<1>3. ASSUME NEW i \in DOMAIN written["logger"]
      PROVE  /\ lines["logger"][i].shape = "texts"
             /\ lines["logger"][i].content =
                  <<written["logger"][i].kind, written["logger"][i].content>>
  <2>1. Represents(lines["logger"][i], written["logger"][i])
        /\ written["logger"][i].kind \in Levels
    BY <1>1, <1>3 DEF LinesInv, LinesRecoverMessages
  <2> QED
    BY <2>1 DEF Represents, Levels
<1> QED
  BY <1>2, <1>3

\* Fewer than four places come before one: it is among the first four.
LEMMA AmongFirstFour ==
  ASSUME NEW P \in SUBSET Nat, IsFiniteSet(P), 0 \notin P, NEW i \in P
  PROVE  Cardinality({j \in P : j < i}) < 4 <=> Cardinality(P \cap 1..i) <= 4
<1> DEFINE Below == {j \in P : j < i}
<1>1. IsFiniteSet(Below) /\ Cardinality(Below) \in Nat /\ i \notin Below
  BY FS_Subset, FS_CardinalityType
<1>2. P \cap 1..i = Below \cup {i}
  <2>1. P \subseteq Nat /\ i \in Nat
    OBVIOUS
  <2>2. \A j \in P : j \in 1..i <=> j < i \/ j = i
    BY <2>1
  <2> QED
    BY <2>2
<1>3. Cardinality(Below \cup {i}) = Cardinality(Below) + 1
  BY <1>1, FS_AddElement
<1> HIDE DEF Below
<1>4. Cardinality(Below) < 4 <=> Cardinality(P \cap 1..i) <= 4
  BY <1>1, <1>2, <1>3
<1> QED
  BY <1>4 DEF Below

\* Reading the stored lines finds what Stan logged.
LEMMA ReportTells ==
  ASSUME LinesInv, FailureInv, Report, ~LateErrors,
         req.fails \in {"no", "initialization", "late"}
  PROVE  ErrorsReported'
<1> DEFINE log == written["logger"]
           At(level) == {i \in DOMAIN log : log[i].kind = level}
           Early == {i \in At("warn") : Cardinality(At("warn") \cap 1..i) <= 4}
<1>1. pc = "report" /\ req.fails = "initialization" /\ At("error") # {}
  BY DEF Report, FailureInv, Erred
<1>2. /\ DOMAIN lines["logger"] = DOMAIN log
      /\ \A i \in DOMAIN log :
           /\ lines["logger"][i].shape = "texts"
           /\ lines["logger"][i].content = <<log[i].kind, log[i].content>>
  BY LoggerLines
<1>3. ASSUME NEW line \in StoredLines PROVE ~Unreadable(line)
  <2>1. PICK w \in CallbackWriters : line \in ToSet(lines[w])
    BY <1>3 DEF StoredLines
  <2>2. \A v \in SocketWriters : lines[v] = <<>>
    BY <1>1 DEF FailureInv
  <2>3. ToSet(<<>>) = {}
    BY DEF ToSet
  <2>4. w = "logger"
    BY <2>1, <2>2, <2>3 DEF CallbackWriters
  <2>5. PICK i \in DOMAIN lines["logger"] : line = lines["logger"][i]
    BY <2>1, <2>4 DEF ToSet
  <2> QED
    BY <1>2, <2>5 DEF Unreadable
<1>4. /\ pc' = "idle" /\ outcome' = "RuntimeError" /\ written' = written
      /\ report' = [errors |-> Told(LoggedAt("error")),
                    warnings |-> Told(FirstFour(LoggedAt("warn")))]
  BY <1>3 DEF Report, End, stanVars
<1>5. ASSUME NEW level PROVE LoggedAt(level) = At(level)
  BY <1>2 DEF LoggedAt
<1>6. FirstFour(LoggedAt("warn")) = Early
  <2>1. LoggedAt("warn") \in SUBSET Nat /\ IsFiniteSet(LoggedAt("warn"))
    BY LoggedFinite
  <2>2. 0 \notin LoggedAt("warn")
    <3>1. "logger" \in CallbackWriters
      BY DEF CallbackWriters
    <3>2. DOMAIN lines["logger"] = 1..Len(lines["logger"])
      BY <3>1, LenProperties DEF LinesInv
    <3>3. 0 \notin 1..Len(lines["logger"])
      OBVIOUS
    <3> QED
      BY <3>2, <3>3, LoggedFinite
  <2>3. \A i \in LoggedAt("warn") :
          Cardinality({j \in LoggedAt("warn") : j < i}) < 4
            <=> Cardinality(LoggedAt("warn") \cap 1..i) <= 4
    BY <2>1, <2>2, AmongFirstFour
  <2>4. LoggedAt("warn") = At("warn")
    BY <1>5
  <2> QED
    BY <2>3, <2>4 DEF FirstFour
<1>7. ASSUME NEW places \in SUBSET DOMAIN log
      PROVE  Told(places) = [i \in places |-> log[i].content]
  BY <1>2 DEF Told
<1>8. report' = [errors |-> [i \in At("error") |-> log[i].content],
                 warnings |-> [i \in Early |-> log[i].content]]
  BY <1>4, <1>5, <1>6, <1>7
<1> QED
  <2>1. written'["logger"] = log
    BY <1>4
  <2>2. /\ outcome' = "RuntimeError"
        /\ {i \in DOMAIN written'["logger"] :
             written'["logger"][i].kind = "error"} # {}
    BY <1>1, <1>4, <2>1
  <2>3. ASSUME NEW new, new = log
        PROVE  report' = LET Of(level) == {i \in DOMAIN new : new[i].kind = level}
                             First == {i \in Of("warn") :
                                         Cardinality(Of("warn") \cap 1..i) <= 4}
                         IN [errors |-> [i \in Of("error") |-> new[i].content],
                             warnings |-> [i \in First |-> new[i].content]]
    BY <1>8, <2>3
  <2> QED
    BY <2>1, <2>2, <2>3, Zenon DEF ErrorsReported

\* An error that was logged stays logged.
LEMMA ErredAfter ==
  ASSUME LinesInv, NEW m, m.to \in CallbackWriters,
         written' = [written EXCEPT ![m.to] = Append(@, m)],
         Erred \/ (m.to = "logger" /\ m.kind = "error")
  PROVE  Erred'
<1>1. "logger" \in CallbackWriters /\ DOMAIN written = CallbackWriters
      /\ written["logger"] \in Seq(ToSet(written["logger"]))
  BY DEF LinesInv, CallbackWriters
<1>2. CASE m.to = "logger"
  <2>1. written'["logger"] = Append(written["logger"], m)
    BY <1>1, <1>2
  <2>2. /\ DOMAIN written'["logger"] =
             DOMAIN written["logger"] \cup {Len(written["logger"]) + 1}
        /\ \A i \in DOMAIN written["logger"] :
             written'["logger"][i] = written["logger"][i]
        /\ written'["logger"][Len(written["logger"]) + 1] = m
    BY <1>1, <2>1, AppendKeeps
  <2> QED
    BY <1>2, <2>2 DEF Erred
<1>3. CASE m.to # "logger"
  <2>1. written'["logger"] = written["logger"]
    BY <1>1, <1>3
  <2> QED
    BY <1>3, <2>1 DEF Erred
<1> QED
  BY <1>2, <1>3

LEMMA FailureWrites ==
  ASSUME SamplingInv, FailureInv, StanWrites
  PROVE  FailureInv'
<1> DEFINE m == Message
<1>1. /\ Scripted(m) /\ Takes(m) /\ pc = "stan" /\ at' = at + 1 /\ at \in Nat
      /\ UNCHANGED <<pc, stage, req>>
      /\ written' = IF m.kind \in {"names", "blank"} THEN written
                    ELSE [written EXCEPT ![m.to] = Append(@, m)]
  BY MessageScripted, SamplingAssumption DEF SamplingInv, TypeOK, StanWrites
<1> HIDE DEF m
<1>2. ASSUME NEW level \in Levels, NEW content, m = Log(level, content)
      PROVE  /\ m.to = "logger" /\ m.kind = level
             /\ written' = [written EXCEPT ![m.to] = Append(@, m)]
             /\ \A w \in SocketWriters : lines'[w] = lines[w]
  <2>1. m.to = "logger" /\ m.kind = level
        /\ level \notin {"names", "values", "text", "blank"}
        /\ "logger" \notin SocketWriters
    BY <1>2 DEF Log, ToWriter, Levels, SocketWriters
  <2>2. TakesLog(m)
    BY <1>1, <2>1 DEF Takes
  <2>3. \A w \in SocketWriters : lines'[w] = lines[w]
    BY <2>1, <2>2 DEF TakesLog, SamplingInv, LinesInv, CallbackWriters
  <2> QED
    BY <1>1, <2>1, <2>3
<1>3. stage \in {"warnings", "failure"} =>
        \A w \in SocketWriters : lines'[w] = lines[w]
  <2>1. "warn" \in Levels /\ "info" \in Levels /\ "error" \in Levels
    BY DEF Levels
  <2> QED
    BY <1>1, <1>2, <2>1 DEF Scripted
<1>4. stage = "failure" => at \in {0, 1} /\ (at = 1 => Erred')
  <2> SUFFICES ASSUME stage = "failure"
               PROVE  at \in {0, 1} /\ (at = 1 => Erred')
    OBVIOUS
  <2>1. at = 0 \/ (at = 1 /\ m = Log("error", req.fails))
    BY <1>1 DEF Scripted
  <2>2. CASE m = Log("error", req.fails)
    <3>1. "error" \in Levels /\ "logger" \in CallbackWriters
      BY DEF Levels, CallbackWriters
    <3>2. /\ m.to = "logger" /\ m.kind = "error"
          /\ written' = [written EXCEPT ![m.to] = Append(@, m)]
      BY <1>2, <2>2, <3>1
    <3>3. Erred'
      BY <3>1, <3>2, ErredAfter DEF SamplingInv
    <3> QED
      BY <2>1, <3>3
  <2> QED
    BY <2>1, <2>2
<1>5. stage # "done"
  BY <1>1 DEF Scripted
<1>6. ErrorsReported'
  BY <1>1 DEF ErrorsReported
<1>7. req.fails = "initialization" => stage \in {"warnings", "failure"}
  BY <1>1, <1>5 DEF FailureInv, SamplingInv, TypeOK, Stages
<1>8. req.fails = "initialization" => \A w \in SocketWriters : lines'[w] = <<>>
  BY <1>1, <1>3, <1>7 DEF FailureInv
<1>9. stage = "failure" => at' \in 0..2 /\ (at' = 2 => Erred')
  BY <1>1, <1>4
<1> QED
  BY <1>1, <1>5, <1>6, <1>8, <1>9 DEF FailureInv

LEMMA FailureGoesOn ==
  ASSUME SamplingInv, FailureInv, StanGoesOn, ~LateErrors
  PROVE  FailureInv'
<1>1. /\ pc = "stan" /\ pc' = "stan" /\ stage \in Stages /\ at = Len(Script)
      /\ at' = 0 /\ UNCHANGED <<req, written, lines>>
      /\ req.fails # "late"
  BY DEF StanGoesOn, SamplingInv, TypeOK, FailureInv, writerVars
<1>2. Erred' = Erred
  BY <1>1 DEF Erred
<1>3. ErrorsReported'
  BY <1>1 DEF ErrorsReported
<1>4. CASE stage' = stage
  <2>1. stage # "done"
    BY DEF StanGoesOn
  <2> QED
    BY <1>1, <1>2, <1>3, <1>4, <2>1 DEF FailureInv
<1>5. CASE stage' = NextStage
  <2>1. CASE stage = "warnings"
    <3>1. stage' = IF req.fails = "initialization" THEN "failure" ELSE "start"
      BY <1>5, <2>1 DEF NextStage
    <3> QED
      BY <1>1, <1>3, <3>1 DEF FailureInv
  <2>2. CASE stage = "start"
    <3>1. stage' \in {"sampling", "warmup"}
      BY <1>1, <1>5, <2>2 DEF NextStage
    <3>2. req.fails = "no"
      BY <1>1, <2>2, SamplingAssumption DEF FailureInv, SamplingInv, TypeOK
    <3> QED
      BY <1>1, <1>3, <3>1, <3>2 DEF FailureInv
  <2>3. CASE stage \in {"warmup", "adaptation", "sampling", "elapsed"}
    <3>1. stage' \in {"adaptation", "sampling", "elapsed", "done"}
      BY <1>5, <2>3 DEF NextStage
    <3> QED
      BY <1>1, <1>3, <2>3, <3>1 DEF FailureInv
  <2>4. CASE stage = "failure"
    <3>1. stage' = "done"
      BY <1>5, <2>4 DEF NextStage
    <3>2. at = 2
      <4>1. Script = Failure /\ Len(Failure) = 2
        BY <2>4 DEF Script, Failure
      <4> QED
        BY <1>1, <4>1
    <3> QED
      BY <1>1, <1>2, <1>3, <2>4, <3>1, <3>2 DEF FailureInv
  <2>5. stage # "done"
    BY DEF StanGoesOn
  <2> QED
    BY <1>1, <2>1, <2>2, <2>3, <2>4, <2>5 DEF Stages
<1> QED
  BY <1>4, <1>5 DEF StanGoesOn

LEMMA FailureNext ==
  ASSUME SamplingInv, FailureInv, ~LateErrors, [Next]_vars
  PROVE  FailureInv'
<1>1. CASE StanWrites
  BY <1>1, FailureWrites
<1>2. CASE StanGoesOn
  BY <1>2, FailureGoesOn
<1>3. CASE Report
  <2>1. req.fails \in {"no", "initialization", "late"}
    BY SamplingAssumption DEF SamplingInv, TypeOK
  <2>2. ErrorsReported'
    BY <1>3, <2>1, ReportTells DEF SamplingInv
  <2>3. pc' = "idle"
    BY <1>3 DEF Report, End
  <2> QED
    BY <2>2, <2>3 DEF FailureInv
<1>4. CASE \E r \in Requests : Receive(r)
  <2>1. pc' = "fill" /\ (req'.fails = "late" => LateErrors)
    BY <1>4 DEF Receive
  <2> QED
    BY <2>1 DEF FailureInv, ErrorsReported
<1>5. CASE Forget
  <2>1. pc' = "idle" /\ outcome' = "none"
    BY <1>5 DEF Forget
  <2> QED
    BY <2>1 DEF FailureInv, ErrorsReported
<1>6. CASE Fill
  <2>1. /\ pc = "fill" /\ req' = req
        /\ pc' = "wrapper" \/ (pc' = "idle" /\ outcome' = "ValueError")
    BY <1>6 DEF Fill, End
  <2> QED
    BY <2>1 DEF FailureInv, ErrorsReported
<1>7. CASE CallWrapper
  <2>1. /\ pc = "wrapper" /\ req' = req
        /\ \/ pc' = "stan"
           \/ pc' = "idle" /\ outcome' \in {"TypeError", "BrokenProcessPool"}
        /\ UNCHANGED <<stage, lines>>
    BY <1>7 DEF CallWrapper, End, stanVars, writerVars
  <2>2. stage = "warnings" /\ \A w \in SocketWriters : lines[w] = <<>>
    BY <2>1 DEF SamplingInv, FreshInv, CallbackWriters
  <2> QED
    BY <2>1, <2>2 DEF FailureInv, ErrorsReported
<1>8. CASE StanThrows \/ StanTraps
  <2>1. /\ pc' = "idle"
        /\ outcome' \in {"writer_threw", "exception", "BrokenProcessPool"}
    BY <1>8 DEF StanThrows, StanTraps, End
  <2> QED
    BY <2>1 DEF FailureInv, ErrorsReported
<1>9. CASE StanReturns
  <2>1. /\ pc = "stan" /\ stage = "done" /\ UNCHANGED <<req, lines, written>>
        /\ \/ pc' = "idle" /\ outcome' = "fit"
           \/ pc' = "report" /\ req.fails # "no"
    BY <1>9 DEF StanReturns, End, stanVars, writerVars
  <2>2. Erred' = Erred
    BY <2>1 DEF Erred
  <2> QED
    BY <2>1, <2>2 DEF FailureInv, ErrorsReported
<1>10. CASE ClockTicks
  <2>1. pc' = "idle" /\ outcome' = "none"
    BY <1>10 DEF ClockTicks, callVars
  <2> QED
    BY <2>1 DEF FailureInv, ErrorsReported
<1>11. CASE UNCHANGED vars
  <2>1. UNCHANGED <<pc, req, stage, at, written, lines, outcome, report>>
    BY <1>11 DEF vars, callVars, stanVars, writerVars
  <2>2. ErrorsReported' = ErrorsReported /\ Erred' = Erred
    BY <2>1 DEF ErrorsReported, Erred
  <2> QED
    BY <2>1, <2>2 DEF FailureInv
<1> QED
  BY <1>1, <1>2, <1>3, <1>4, <1>5, <1>6, <1>7, <1>8, <1>9, <1>10, <1>11
  DEF Next, Quiet

\* If Stan's functions return an error code only while they initialize, a
\* client whose call failed that way is told why: all errors and the first
\* four warnings, found among the lines of all writers.
THEOREM ErrorsAreReported == ~LateErrors => (Spec => []ErrorsReported)
<1> SUFFICES ASSUME ~LateErrors PROVE Spec => []ErrorsReported
  OBVIOUS
<1>1. Init => FailureInv
  BY DEF Init, FailureInv, ErrorsReported
<1>2. SamplingInv /\ FailureInv /\ [Next]_vars => FailureInv'
  BY FailureNext
<1>3. FailureInv => ErrorsReported
  BY DEF FailureInv
<1> QED
  BY <1>1, <1>2, <1>3, SamplingAlways, PTL DEF Spec
=============================================================================
