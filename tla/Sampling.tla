------------------------------ MODULE Sampling ------------------------------
(***************************************************************************)
(* What a sampling call means: the request's arguments are completed with  *)
(* defaults (Arguments), the wrapper runs Stan in a worker, whose messages *)
(* the callback writers turn into lines (CallbackWriters), and when Stan   *)
(* returns an error code services_stub.call reads the stored lines again   *)
(* to tell the client why.  How the lines travel is in ServicesCall.       *)
(*                                                                         *)
(* Stan is outside of the repository: its stages write their messages in   *)
(* the order that socket_writer.hpp describes and relies on.               *)
(***************************************************************************)
EXTENDS Arguments, CallbackWriters, SequencesExt, FiniteSets

CONSTANTS
  Requests,    \* function, given arguments, and how Stan will fare
  MaxCalls,    \* bound: calls of one server process
  LateErrors   \* whether Stan may return an error code after initialization

ASSUME SamplingAssumption ==
  /\ MaxCalls \in Nat /\ LateErrors \in BOOLEAN /\ Requests # {}
  /\ \A r \in Requests :
       /\ r.function \in {"hmc_nuts_diag_e_adapt", "fixed_param"}
       /\ r.nwarn \in Nat /\ r.finite \in BOOLEAN
       /\ r.fails \in {"no", "initialization", "late"}
       \* The schema has let the arguments pass.
       /\ \A arg \in DOMAIN r.given :
            /\ arg \in DOMAIN RequestFields
            /\ r.given[arg].type = FieldType(arg) /\ r.given[arg].n \in Nat

VARIABLES
  ncall,    \* calls so far
  req,      \* the request being served
  kwargs,   \* what the wrapper is called with
  pc,       \* where the call is
  stage,    \* what Stan is doing
  round,    \* its iteration, in a stage that has iterations
  at,       \* how many messages of this round it has written
  written,  \* history: what it has written to each writer
  outcome,  \* how the last call ended
  report,   \* the message of its RuntimeError: texts at their places in the log
  broken    \* whether the process pool has lost a worker

stanVars == <<stage, round, at, written>>
callVars == <<ncall, req, kwargs, pc, stanVars, outcome, report, broken>>
vars == <<callVars, argumentVars, writerVars>>

NoReport == [errors |-> <<>>, warnings |-> <<>>]
-----------------------------------------------------------------------------
(* Stan.                                                                   *)

Stages == {"warnings", "failure", "start", "warmup", "adaptation", "sampling",
           "elapsed", "done"}

SampleNames == <<"lp__", "y">>
DiagnosticNames == <<"lp__", "p_y">>

Warnings == [i \in 1..req.nwarn |-> Log("warn", i)]
Failure == <<Log("info", req.fails), Log("error", req.fails)>>

Start == <<Values("init_writer", "inits", TRUE),
           Names("sample_writer", SampleNames),
           Names("diagnostic_writer", DiagnosticNames)>>

\* How often the iterations of the stage are made.
Rounds == CASE stage = "warmup" -> kwargs.num_warmup.n
            [] stage = "sampling" -> kwargs.num_samples.n
            [] OTHER -> 1

\* One iteration: a progress line every `refresh` iterations, and a draw.
Reports == /\ kwargs.refresh.n > 0
           /\ round \in {1, Rounds} \/ round % kwargs.refresh.n = 0
Saved == stage = "warmup" => kwargs.save_warmup.n # 0
\* m % num_thin: the schema lets 0 pass, for which C++ defines no remainder.
\* One processor yields the dividend, another ends the worker (StanTraps).
Remainder == IF kwargs.num_thin.n = 0 THEN round - 1
             ELSE (round - 1) % kwargs.num_thin.n
Draws == Saved /\ Remainder = 0
Progress == Log("info", <<"Iteration", stage, round>>)
Draw(w) == Values(w, <<stage, round>>, req.finite)
Iteration == (IF Reports THEN <<Progress>> ELSE <<>>) \o
             (IF Draws THEN <<Draw("sample_writer"), Draw("diagnostic_writer")>>
              ELSE <<>>)

AdaptationEnd ==
  <<Text("sample_writer", "Adaptation terminated"),
    Text("sample_writer", "Step size"),
    Text("sample_writer", "Diagonal elements"),
    Text("sample_writer", "0.961989")>>

Elapsed ==
  <<Blank("sample_writer"), Text("sample_writer", "Elapsed Time"),
    Blank("sample_writer"), Blank("diagnostic_writer"),
    Text("diagnostic_writer", "Elapsed Time"), Blank("diagnostic_writer"),
    Log("info", "Elapsed Time")>>

\* What Stan writes in this round of its stage, if nothing is thrown.
Script ==
  CASE stage = "warnings" -> Warnings
    [] stage = "failure" -> Failure
    [] stage = "start" -> Start
    [] stage \in {"warmup", "sampling"} ->
         IF round <= Rounds THEN Iteration ELSE <<>>
    [] stage = "adaptation" -> AdaptationEnd
    [] stage = "elapsed" -> Elapsed
    [] stage = "done" -> <<>>

NextStage ==
  CASE stage = "warnings" ->
         IF req.fails = "initialization" THEN "failure" ELSE "start"
    [] stage = "start" ->
         IF req.fails = "late" THEN "failure"
         ELSE IF req.function = "fixed_param" THEN "sampling" ELSE "warmup"
    [] stage = "warmup" -> "adaptation"
    [] stage = "adaptation" -> "sampling"
    [] stage = "sampling" -> "elapsed"
    [] stage \in {"failure", "elapsed"} -> "done"

Message == Script[at + 1]
-----------------------------------------------------------------------------
NoRequest == CHOOSE r \in Requests : TRUE

Init ==
  /\ ArgumentsInit /\ WritersInit
  /\ ncall = 0 /\ req = NoRequest
  /\ kwargs = <<>> /\ pc = "idle"
  /\ stage = "warnings" /\ round = 1 /\ at = 0
  /\ written = [w \in CallbackWriters |-> <<>>]
  /\ outcome = "none" /\ report = NoReport /\ broken = FALSE

Receive(r) ==
  /\ pc = "idle" /\ outcome = "none" /\ ncall < MaxCalls
  /\ r.fails = "late" => LateErrors
  /\ ncall' = ncall + 1 /\ req' = r /\ pc' = "fill"
  /\ UNCHANGED <<kwargs, stanVars, outcome, report, broken, argumentVars,
                 writerVars>>

\* The call has ended: its variables and its writers are gone.
Forget ==
  /\ pc = "idle" /\ outcome # "none"
  /\ req' = NoRequest /\ kwargs' = <<>>
  /\ stage' = "warnings" /\ round' = 1 /\ at' = 0
  /\ written' = [w \in CallbackWriters |-> <<>>]
  /\ outcome' = "none" /\ report' = NoReport
  /\ fields' = [w \in SocketWriters |-> <<>>]
  /\ adapt' = "before"
  /\ lines' = [w \in CallbackWriters |-> <<>>]
  /\ UNCHANGED <<ncall, pc, broken, argumentVars>>

End(how) == pc' = "idle" /\ outcome' = how

\* The loop over function_arguments.
Fill ==
  /\ pc = "fill"
  /\ LET missing == Missing(req.function, req.given) IN
     /\ Remember(missing)
     /\ IF \E arg \in missing : LookupRaises(arg)
        THEN End("ValueError") /\ kwargs' = kwargs
        ELSE /\ kwargs' = FilledIn(req.function, req.given)
             /\ pc' = "wrapper" /\ outcome' = outcome
  /\ UNCHANGED <<ncall, req, stanVars, report, broken, clock, writerVars>>

\* The worker calls the wrapper with keywords; a pool that has lost a worker
\* takes no call any more.
CallWrapper ==
  /\ pc = "wrapper"
  /\ IF broken THEN End("BrokenProcessPool")
     ELSE IF WrapperTakes(req.function, kwargs)
          THEN pc' = "stan" /\ outcome' = outcome
          ELSE End("TypeError")
  /\ UNCHANGED <<ncall, req, kwargs, stanVars, report, broken, argumentVars,
                 writerVars>>

StanWrites ==
  /\ pc = "stan" /\ at < Len(Script)
  /\ ~Throws(Message) /\ Takes(Message)
  /\ at' = at + 1
  /\ written' = IF Message.kind \in {"names", "blank"} THEN written
                ELSE [written EXCEPT ![Message.to] = Append(@, Message)]
  /\ UNCHANGED <<ncall, req, kwargs, pc, stage, round, outcome, report, broken,
                 argumentVars>>

\* The next iteration, or the next stage.
StanGoesOn ==
  /\ pc = "stan" /\ stage # "done" /\ at = Len(Script)
  /\ at' = 0
  /\ IF round < Rounds THEN round' = round + 1 /\ stage' = stage
     ELSE round' = 1 /\ stage' = NextStage
  /\ UNCHANGED <<ncall, req, kwargs, pc, written, outcome, report, broken,
                 argumentVars, writerVars>>

\* std::runtime_error leaves Stan's function: a writer threw it, or Stan did of
\* itself, anywhere, and the exception says why.
StanThrows ==
  /\ pc = "stan"
  /\ End(IF at < Len(Script) /\ Throws(Message) THEN "writer_threw"
         ELSE "exception")
  /\ UNCHANGED <<ncall, req, kwargs, stanVars, report, broken, argumentVars,
                 writerVars>>

\* SIGFPE: the worker is killed where it would decide on a draw.
StanTraps ==
  /\ pc = "stan" /\ stage \in {"warmup", "sampling"} /\ round <= Rounds
  /\ Saved /\ kwargs.num_thin.n = 0 /\ at = (IF Reports THEN 1 ELSE 0)
  /\ End("BrokenProcessPool") /\ broken' = TRUE
  /\ UNCHANGED <<ncall, req, kwargs, stanVars, report, argumentVars,
                 writerVars>>

\* error_code = future.result()
StanReturns ==
  /\ pc = "stan" /\ stage = "done"
  /\ IF req.fails = "no" THEN End("fit")
     ELSE pc' = "report" /\ outcome' = outcome
  /\ UNCHANGED <<ncall, req, kwargs, stanVars, report, broken, argumentVars,
                 writerVars>>

StoredLines == UNION {ToSet(lines[w]) : w \in CallbackWriters}

\* message["values"].pop() of a mapping raises TypeError, and a number has no
\* startswith; a line that is no document is passed over.
Unreadable(line) == line.shape \in {"numbers", "mapping"}

\* The places of the logger's lines of one level, and what they say there; the
\* texts of other writers have no such prefix.
LoggedAt(level) ==
  {i \in DOMAIN lines["logger"] : lines["logger"][i].content[1] = level}
Told(places) == [i \in places |-> lines["logger"][i].content[2]]

\* Plausible slips: the last warnings are taken, or all of them.
AllWarnings(places) == places
LastFour(places) ==
  {i \in places : Cardinality({j \in places : j > i}) < 4}
\* warn_messages[:num_warn_messages]
FirstFour(places) ==
  {i \in places : Cardinality({j \in places : j < i}) < 4}

\* The stored lines are read again and RuntimeError is raised.
Report ==
  /\ pc = "report"
  /\ IF \E line \in StoredLines : Unreadable(line)
     THEN End("other_error") /\ report' = report
     ELSE /\ End("RuntimeError")
          /\ report' = [errors |-> Told(LoggedAt("error")),
                        warnings |-> Told(FirstFour(LoggedAt("warn")))]
  /\ UNCHANGED <<ncall, req, kwargs, stanVars, broken, argumentVars,
                 writerVars>>

ClockTicks ==
  /\ pc = "idle" /\ outcome = "none" /\ Tick
  /\ UNCHANGED <<callVars, writerVars>>

Quiet ==
  /\ pc = "idle" /\ outcome = "none" /\ ncall = MaxCalls
  /\ UNCHANGED vars

Next ==
  \/ \E r \in Requests : Receive(r)
  \/ Forget \/ Fill \/ CallWrapper \/ StanWrites \/ StanGoesOn
  \/ StanThrows \/ StanTraps \/ StanReturns \/ Report \/ ClockTicks \/ Quiet

Spec == Init /\ [][Next]_vars
-----------------------------------------------------------------------------
(* Properties.                                                             *)

TypeOK ==
  /\ clock \in 0..MaxClock /\ cached \in 0..clock \cup {NoSeed}
  /\ ncall \in 0..MaxCalls /\ req \in Requests
  /\ pc \in {"idle", "fill", "wrapper", "stan", "report"}
  /\ DOMAIN kwargs \subseteq DOMAIN RequestFields
  /\ stage \in Stages /\ round \in Nat /\ at \in Nat
  /\ broken \in BOOLEAN
  /\ outcome \in {"none", "fit", "ValueError", "TypeError", "writer_threw",
                  "exception", "BrokenProcessPool", "RuntimeError",
                  "other_error"}
  /\ fields \in [SocketWriters -> {<<>>, SampleNames, DiagnosticNames}]
  /\ adapt \in AdaptationStates /\ Cardinality(DOMAIN report.warnings) <= 4
  /\ DOMAIN lines = CallbackWriters /\ DOMAIN written = CallbackWriters
  /\ \A w \in CallbackWriters : \A i \in DOMAIN lines[w] :
       lines[w][i].topic = Topic(w) /\ lines[w][i].shape \in Shapes

\* socket_writer.hpp:208 throws where the adaptation states say that no draw
\* can come: no message Stan writes is refused by the writer it is for, with
\* or without warm-up draws, adaptation, draws, and texts after the last draw.
WritersFollowStan == outcome # "writer_threw"

\* A line from which message m, with the header's names, can be recovered.
Represents(line, m) ==
  /\ line.topic = Topic(m.to)
  /\ \/ m.kind = "text" /\ line.shape = "texts" /\ line.content = m.content
     \/ /\ m.kind \in Levels /\ line.shape = "texts"
        /\ line.content = <<m.kind, m.content>>
     \/ /\ m.kind = "values" /\ m.to = "init_writer" /\ line.shape = "numbers"
        /\ line.content = m.content
     \/ /\ m.kind = "values" /\ m.to # "init_writer" /\ line.shape = "mapping"
        /\ line.content = m.content
        /\ line.keys = IF m.to = "sample_writer" THEN SampleNames
                       ELSE DiagnosticNames

\* doc/index.rst:70-71: "By reading them one by one you can recover all
\* messages sent by the Stan C++ library."  Every line is a document, and for
\* each writer they are what Stan wrote so far, in order, but for the names,
\* which are the keys of draws, and blank messages.
LinesRecoverMessages ==
  \A w \in CallbackWriters :
    /\ Len(lines[w]) = Len(written[w])
    /\ \A i \in DOMAIN written[w] : Represents(lines[w][i], written[w][i])

\* services_stub.py:163-183: a client whose call ended with an error code is
\* told why: every error Stan logged, one at least, and the first warnings, at
\* most four, in their order; collecting them from the lines of all writers
\* does not fail.
ErrorsReported ==
  pc = "idle" /\ outcome \in {"RuntimeError", "other_error"} =>
    LET log == written["logger"]
        At(level) == {i \in DOMAIN log : log[i].kind = level}
        Early == {i \in At("warn") : Cardinality(At("warn") \cap 1..i) <= 4}
    IN /\ outcome = "RuntimeError" /\ At("error") # {}
       /\ report = [errors |-> [i \in At("error") |-> log[i].content],
                    warnings |-> [i \in Early |-> log[i].content]]

\* views.py:305-311: parameters that are not supplied get defaults that work.
\* A call is refused before Stan runs only because of an argument that the
\* client gave, which the schema lets pass: one that the function does not
\* have, or a number that is no C++ int.
DefaultsNeverRefused ==
  outcome \in {"ValueError", "TypeError"} =>
    \E arg \in DOMAIN req.given :
      \/ arg \notin DOMAIN Wrapper(req.function)
      \/ req.given[arg].type = "int" /\ req.given[arg].n > IntMax
=============================================================================
