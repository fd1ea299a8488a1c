--------------------------- MODULE FitPatience_proofs ---------------------------
(***************************************************************************)
(* Proofs about FitService for patient clients, who wait for an operation  *)
(* before they use its fit's name again or delete its model (Serial): no   *)
(* fit is there without its model, a stored fit stays until clients ask    *)
(* for its removal, and a cancelled operation was warned about, even if    *)
(* the server is killed; and, unless it is killed, that operations tell    *)
(* the truth and that the service implements Operations.                   *)
(***************************************************************************)
EXTENDS FitService_proofs

Live(c) == phase[c] \notin {"unused", "over"}

\* Every operation that exists has a task, and a result only when it is done.
TaskInv ==
  /\ \A c \in Created : phase[c] # "unused"
  /\ \A c \in Calls : /\ phase[c] # "over" => result[c] = "none"
                      /\ result[c] # "none" => done[c]

\* The operation stored under a name is of that name, and the one that is
\* still running is the one stored.
OpsInv ==
  /\ \A n \in FitNames : ops[n] # NoCall => ops[n] \in Created /\ name[ops[n]] = n
  /\ \A c \in Calls : Live(c) => ops[name[c]] = c

\* While a call runs there is no file of its name, and then its own.
FileInv ==
  \A c \in Calls :
    /\ phase[c] \in {"created", "running", "cancelled"} => file[name[c]] = "none"
    /\ phase[c] = "returned" => file[name[c]] \in {"good", "none"}
    /\ phase[c] = "raised" => file[name[c]] \in {"bad", "none"}

\* A fit has its model, and so has a call that may store one.
ModelInv ==
  /\ \A n \in FitNames : file[n] # "none" => ModelOf[n] \in models
  /\ \A c \in Calls : Live(c) => ModelOf[name[c]] \in models

\* A task is cancelled after the warning, which named all that were running.
WarnInv ==
  /\ \A c \in Calls : phase[c] = "cancelled" => server = "cancelling"
  /\ \A c \in Calls : Live(c) /\ server = "cancelling" => c \in warned
  /\ \A c \in Calls : done[c] /\ result[c] = "none" => c \in warned

PatientInv == TaskInv /\ OpsInv /\ FileInv /\ ModelInv /\ WarnInv

\* What holds besides unless the server is killed: a call that is over has
\* run its done callback, the messages of a failed run have an owner that is
\* in flight, an operation that failed has no fit.
TruthInv ==
  /\ \A c \in Calls : phase[c] = "over" => done[c]
  /\ \A n \in FitNames : file[n] # "torn"
  /\ \A n \in FitNames : file[n] = "bad" =>
       \E c \in Created : name[c] = n /\ phase[c] = "raised"
  /\ \A n \in FitNames : ops[n] # NoCall =>
       /\ result[ops[n]] = "error" => file[n] = "none"
       /\ server # "cancelling" /\ done[ops[n]] => result[ops[n]] # "none"

\* All that the proofs suppose unless the server is killed.
ClientsInv == FInv /\ PatientInv /\ TruthInv
-----------------------------------------------------------------------------
LEMMA CreatedCalls == TypeOK => Created \subseteq Calls
BY FitAssumption DEF TypeOK, Created, Calls

\* FInv in every reachable state, for the proofs below.
LEMMA FitInvAlways == FitNames # {} => (Spec => [](TypeOK /\ FInv))
<1>1. TypeOK /\ Init => FInv
  BY FitInvInit
<1>2. TypeOK /\ FInv /\ [Next]_vars => FInv'
  BY FitInvNext
<1>3. ASSUME FitNames # {} PROVE Spec => [](TypeOK /\ FInv)
  <2>1. Spec => []TypeOK
    BY <1>3, FitTypeCorrect
  <2> QED
    BY <1>1, <1>2, <2>1, PTL DEF Spec
<1> QED
  BY <1>3

LEMMA PatientInit == TypeOK /\ Init => PatientInv
BY FitAssumption
   DEF Init, TypeOK, PatientInv, TaskInv, OpsInv, FileInv, ModelInv, WarnInv,
       Live, Calls, Created

\* Two calls of one name are never in flight together, and a call that is in
\* flight has not been answered.
LEMMA OneCallInFlight ==
  ASSUME TypeOK, FInv, PatientInv, NEW c \in Calls, Live(c)
  PROVE  /\ c \in Created /\ ~done[c] /\ result[c] = "none"
         /\ \A d \in Calls : Live(d) /\ name[d] = name[c] => d = c
BY DEF TypeOK, FInv, UsedCalls, OpenNotDone, PatientInv, TaskInv, OpsInv, Live

\* A request of a name finds no call of it in flight.
LEMMA PatientRequest ==
  ASSUME Serial, TypeOK, FInv, PatientInv,
         NEW n \in FitNames, CreateFitCached(n) \/ CreateFit(n)
  PROVE  PatientInv'
<1> USE FitAssumption DEF TypeOK, PatientInv, cacheVars, serverVars
<1> DEFINE new == ncalls + 1
<1>1. /\ new \in Calls /\ new \notin Created /\ ncalls' = new
      /\ ModelOf[n] \in models /\ server = "up"
      /\ name' = [name EXCEPT ![new] = n] /\ ops' = [ops EXCEPT ![n] = new]
      /\ UNCHANGED <<models, file, server, warned>>
  BY DEF CreateFitCached, CreateFit, Request, Calls, Created
<1>2. Created' = Created \cup {new} /\ Created \subseteq Calls
  BY <1>1 DEF Created, Calls
<1>3. phase[new] = "unused" /\ result[new] = "none" /\ ~done[new]
  BY <1>1 DEF FInv, UsedCalls, OpenNotDone, TaskInv
<1>4. \A d \in Calls : Live(d) => name[d] # n
  BY DEF CreateFitCached, CreateFit, Request, InFlight, Live, FInv, UsedCalls
<1>5. \/ /\ phase' = [phase EXCEPT ![new] = "over"]
         /\ done' = [done EXCEPT ![new] = TRUE]
         /\ result' = [result EXCEPT ![new] = "fit"]
      \/ /\ phase' = [phase EXCEPT ![new] = "created"] /\ file[n] = "none"
         /\ UNCHANGED <<done, result>>
  BY DEF CreateFitCached, CreateFit, CacheHit
<1>6. TaskInv'
  BY <1>1, <1>2, <1>3, <1>5 DEF TaskInv
<1>7. OpsInv'
  <2>1. ASSUME NEW f \in FitNames, ops'[f] # NoCall
        PROVE  ops'[f] \in Created' /\ name'[ops'[f]] = f
    <3>1. CASE f = n
      BY <1>1, <1>2, <3>1
    <3>2. CASE f # n
      <4>1. ops'[f] = ops[f] /\ ops[f] \in Created /\ name[ops[f]] = f
        BY <1>1, <2>1, <3>2 DEF OpsInv
      <4> QED
        BY <1>1, <1>2, <4>1
    <3> QED
      BY <3>1, <3>2
  <2>2. ASSUME NEW d \in Calls, Live(d)' PROVE ops'[name'[d]] = d
    <3>1. CASE d = new
      BY <1>1, <3>1
    <3>2. CASE d # new
      <4>1. Live(d) /\ name'[d] = name[d]
        BY <1>1, <1>5, <2>2, <3>2 DEF Live
      <4> QED
        BY <1>1, <1>4, <4>1 DEF OpsInv
    <3> QED
      BY <3>1, <3>2
  <2> QED
    BY <2>1, <2>2 DEF OpsInv
<1>8. FileInv'
  BY <1>1, <1>5 DEF FileInv
<1>9. ModelInv'
  BY <1>1, <1>5 DEF ModelInv, Live
<1>10. WarnInv'
  BY <1>1, <1>3, <1>5 DEF WarnInv, Live
<1> QED
  BY <1>6, <1>7, <1>8, <1>9, <1>10

\* A step of a call touches no other call in flight, nor its file.
LEMMA PatientCall ==
  ASSUME TypeOK, FInv, PatientInv, NEW c \in Calls,
         CallStep(c) \/ CancelTask(c)
  PROVE  PatientInv'
<1> USE FitAssumption DEF TypeOK, PatientInv, cacheVars, serverVars
<1>1. /\ UNCHANGED <<models, ncalls, name, ops, server, warned>>
      /\ Live(c)
      /\ \A d \in Calls : d # c =>
           phase'[d] = phase[d] /\ done'[d] = done[d] /\ result'[d] = result[d]
  BY DEF CallStep, Launch, CallReturns, CallRaises, CallAborts,
         ServicesCallDone, CancelTask, Move, Live
<1>2. /\ c \in Created /\ ~done[c] /\ result[c] = "none"
      /\ \A d \in Calls : Live(d) /\ name[d] = name[c] => d = c
  BY <1>1, OneCallInFlight
<1>3. \A n \in FitNames : n # name[c] => file'[n] = file[n]
  BY DEF CallStep, Launch, CallReturns, CallRaises, CallAborts,
         ServicesCallDone, CancelTask, DumpFit, FileAfterCall, Unlink
<1>4. ModelOf[name[c]] \in models
  BY <1>1 DEF ModelInv
<1>5. Created' = Created /\ Created \subseteq Calls
  BY <1>1 DEF Created, Calls
<1>6. OpsInv'
  BY <1>1, <1>5 DEF OpsInv, Live
<1>7. ModelInv'
  BY <1>1, <1>3, <1>4 DEF ModelInv, Live
<1>8. TaskInv'
  <2>1. /\ phase'[c] # "unused"
        /\ phase'[c] # "over" => result'[c] = "none"
        /\ result'[c] # "none" => done'[c]
    BY <1>2 DEF CallStep, Launch, CallReturns, CallRaises, CallAborts,
       ServicesCallDone, CancelTask, Move, DoneAfterCall
  <2> QED
    BY <1>1, <1>5, <2>1 DEF TaskInv
<1>9. FileInv'
  <2>1. /\ phase'[c] \in {"created", "running", "cancelled"} =>
             file'[name[c]] = "none"
        /\ phase'[c] = "returned" => file'[name[c]] \in {"good", "none"}
        /\ phase'[c] = "raised" => file'[name[c]] \in {"bad", "none"}
    BY DEF CallStep, Launch, CallReturns, CallRaises, CallAborts,
       ServicesCallDone, CancelTask, Move, DumpFit, FileInv
  <2>2. ASSUME NEW d \in Calls, d # c, Live(d)
        PROVE  file'[name[d]] = file[name[d]]
    BY <1>2, <1>3, <2>2
  <2> QED
    BY <1>1, <2>1, <2>2 DEF FileInv, Live
<1>10. WarnInv'
  <2>1. phase'[c] = "cancelled" => server = "cancelling"
    BY <1>1 DEF CallStep, Launch, CallReturns, CallRaises, CallAborts,
       ServicesCallDone, CancelTask, Move, WarnInv
  <2>2. server = "cancelling" => c \in warned
    BY <1>1 DEF WarnInv
  <2>3. done'[c] /\ result'[c] = "none" => phase[c] = "cancelled"
    BY <1>2 DEF CallStep, Launch, CallReturns, CallRaises, CallAborts,
       ServicesCallDone, CancelTask, Move, ResultAfterCall
  <2>4. done'[c] /\ result'[c] = "none" => c \in warned
    BY <2>2, <2>3 DEF WarnInv
  <2> QED
    BY <1>1, <2>1, <2>2, <2>4 DEF WarnInv, Live
<1> QED
  BY <1>6, <1>7, <1>8, <1>9, <1>10

\* A handler that removes files takes away none that a call has stored.
LEMMA PatientRemoves ==
  ASSUME TypeOK, FInv, PatientInv,
         UNCHANGED <<ncalls, name, phase, done, result, ops, server, warned>>,
         models' \subseteq Models,
         \A n \in FitNames : file'[n] \in {file[n], "none"},
         \A n \in FitNames : ModelOf[n] \in models \ models' =>
           file'[n] = "none" /\ ~InFlight(n)
  PROVE  PatientInv'
<1> USE FitAssumption DEF TypeOK, PatientInv
<1>1. Created' = Created
  BY DEF Created
<1>2. TaskInv' /\ OpsInv' /\ WarnInv'
  BY <1>1 DEF TaskInv, OpsInv, WarnInv, Live
<1>3. FileInv'
  BY DEF FileInv
<1>4. ModelInv'
  <2>1. ASSUME NEW c \in Calls, Live(c) PROVE ModelOf[name[c]] \in models'
    BY <2>1 DEF ModelInv, InFlight, Live, FInv, UsedCalls
  <2>2. ASSUME NEW n \in FitNames, file'[n] # "none"
        PROVE  ModelOf[n] \in models'
    BY <2>2 DEF ModelInv
  <2> QED
    BY <2>1, <2>2 DEF ModelInv, Live
<1> QED
  BY <1>2, <1>3, <1>4

\* A restart leaves no call in flight.
LEMMA PatientRestart ==
  ASSUME TypeOK, FInv, PatientInv, Restarted,
         \A n \in FitNames : file'[n] = file[n]
           \/ \E c \in Created : name[c] = n /\ phase[c] = "running"
  PROVE  PatientInv'
<1> USE FitAssumption DEF TypeOK, PatientInv
<1>1. /\ UNCHANGED <<models, ncalls, name, done, result, warned>>
      /\ Created' = Created /\ Created \subseteq Calls
      /\ \A n \in FitNames : ops'[n] = NoCall
      /\ \A c \in Calls : phase'[c] = IF c \in Created THEN "over" ELSE "unused"
  BY DEF Restarted, Created, Calls
<1>2. \A c \in Calls : c \notin Created => result[c] = "none"
  BY DEF FInv, UsedCalls, TaskInv
<1>3. TaskInv' /\ OpsInv' /\ FileInv' /\ WarnInv'
  BY <1>1, <1>2 DEF TaskInv, OpsInv, FileInv, WarnInv, Live
<1>4. ModelInv'
  <2>1. ASSUME NEW n \in FitNames, file'[n] # "none"
        PROVE  ModelOf[n] \in models
    BY <1>1, <2>1 DEF ModelInv, Live
  <2> QED
    BY <1>1, <2>1 DEF ModelInv, Live
<1> QED
  BY <1>3, <1>4

LEMMA PatientNext ==
  ASSUME Serial, TypeOK, FInv, PatientInv, [Next]_vars
  PROVE  PatientInv'
<1> USE FitAssumption DEF TypeOK, PatientInv, cacheVars, serverVars
<1>1. ASSUME NEW n \in FitNames, CreateFitCached(n) \/ CreateFit(n)
      PROVE  PatientInv'
  BY <1>1, PatientRequest
<1>2. ASSUME NEW c \in Calls, CallStep(c) \/ CancelTask(c) PROVE PatientInv'
  BY <1>2, PatientCall
<1>3. ASSUME NEW n \in FitNames, DeleteFit(n) PROVE PatientInv'
  BY <1>3, PatientRemoves DEF DeleteFit, Unlink
<1>4. ASSUME NEW m \in Models, DeleteModel(m) PROVE PatientInv'
  BY <1>4, PatientRemoves DEF DeleteModel, DirectoryRemoved
<1>5. ASSUME NEW m \in Models, CreateModel(m) PROVE PatientInv'
  BY <1>5, PatientRemoves DEF CreateModel, DirectoryRemoved
<1>6. ASSUME NEW m \in Models, BuildEnds(m) PROVE PatientInv'
  BY <1>6, PatientRemoves DEF BuildEnds
<1>7. CASE WorkerDies
  BY <1>7, PatientRemoves DEF WorkerDies
<1>8. CASE Close
  BY <1>8 DEF Close, TaskInv, OpsInv, FileInv, ModelInv, WarnInv, Live, Created
<1>9. CASE WarnUnfinishedOperations
  <2>1. \A c \in Calls : Live(c) => c \in warned'
    <3> SUFFICES ASSUME NEW c \in Calls, Live(c) PROVE c \in warned'
      OBVIOUS
    <3>1. c \in Created /\ ~done[c] /\ ops[name[c]] = c
      BY OneCallInFlight DEF OpsInv
    <3> QED
      BY <1>9, <3>1 DEF WarnUnfinishedOperations, Unfinished
  <2>2. WarnInv'
    BY <1>9, <2>1 DEF WarnUnfinishedOperations, WarnInv, Live
  <2> QED
    BY <1>9, <2>2
       DEF WarnUnfinishedOperations, TaskInv, OpsInv, FileInv, ModelInv, Live,
           Created
<1>10. CASE Restart
  BY <1>10, PatientRestart DEF Restart
<1>11. ASSUME NEW c \in Calls, CrashInDump(c) PROVE PatientInv'
  <2>1. c \in Created /\ phase[c] = "running" /\ Restarted
    BY <1>11 DEF CrashInDump, FInv, UsedCalls
  <2>2. \A n \in FitNames : file'[n] = file[n] \/ n = name[c]
    BY <1>11 DEF CrashInDump, DumpFit
  <2> QED
    BY <2>1, <2>2, PatientRestart
<1>12. CASE UNCHANGED vars
  BY <1>12, PatientRemoves DEF vars
<1> QED
  BY <1>1, <1>2, <1>3, <1>4, <1>5, <1>6, <1>7, <1>8, <1>9, <1>10, <1>11, <1>12
     DEF Next

LEMMA PatientAlways ==
  FitNames # {} /\ Serial => (Spec => [](TypeOK /\ FInv /\ PatientInv))
<1> SUFFICES ASSUME FitNames # {}, Serial
             PROVE  Spec => [](TypeOK /\ FInv /\ PatientInv)
  OBVIOUS
<1>1. Spec => [](TypeOK /\ FInv)
  BY FitInvAlways
<1>2. TypeOK /\ Init => PatientInv
  BY PatientInit
<1>3. TypeOK /\ FInv /\ PatientInv /\ [Next]_vars => PatientInv'
  BY PatientNext
<1> QED
  BY <1>1, <1>2, <1>3, PTL DEF Spec
-----------------------------------------------------------------------------
(* Patient clients, whatever happens to the server.                        *)

\* views.py:165-166 for patient clients, with crashes too: a fit that is on
\* disk, in whatever state, has its model.
THEOREM FitsKeepModel ==
  FitNames # {} /\ Serial => (Spec => []FitsHaveModel)
<1> SUFFICES ASSUME FitNames # {}, Serial PROVE Spec => []FitsHaveModel
  OBVIOUS
<1>1. PatientInv => FitsHaveModel
  BY DEF PatientInv, ModelInv, FitsHaveModel, GetFit
<1> QED
  BY <1>1, PatientAlways, PTL

\* views.py:409-410 for patient clients: an operation that ended without a
\* result, because its task was cancelled, is named in the log.
THEOREM CancelledAreWarned ==
  FitNames # {} /\ Serial => (Spec => []CancelledWarned)
<1> SUFFICES ASSUME FitNames # {}, Serial PROVE Spec => []CancelledWarned
  OBVIOUS
<1>1. TypeOK /\ PatientInv => CancelledWarned
  BY CreatedCalls DEF PatientInv, WarnInv, CancelledWarned
<1> QED
  BY <1>1, PatientAlways, PTL

\* Only clients take away a fit that was stored: no call that fails, no other
\* request, no restart, and no crash in the middle of another fit.
THEOREM OnlyClientsRemove ==
  FitNames # {} /\ Serial => (Spec => StoredFitsStay)
<1> SUFFICES ASSUME FitNames # {}, Serial PROVE Spec => StoredFitsStay
  OBVIOUS
<1> DEFINE Stays == \A n \in FitNames : file[n] = "good" /\ file'[n] # "good" =>
                      \/ DeleteFit(n)
                      \/ DeleteModel(ModelOf[n]) \/ CreateModel(ModelOf[n])
<1>1. ASSUME TypeOK, FInv, PatientInv, [Next]_vars PROVE [Stays]_vars
  <2> USE <1>1 DEF TypeOK, PatientInv, FileInv, cacheVars, serverVars
  <2> SUFFICES ASSUME NEW n \in FitNames, file[n] = "good", file'[n] # "good"
               PROVE  \/ DeleteFit(n)
                      \/ DeleteModel(ModelOf[n]) \/ CreateModel(ModelOf[n])
    OBVIOUS
  <2>1. ASSUME NEW f \in FitNames, CreateFitCached(f) \/ CreateFit(f)
        PROVE  FALSE
    BY <2>1 DEF CreateFitCached, CreateFit
  <2>2. ASSUME NEW f \in FitNames, DeleteFit(f) PROVE DeleteFit(n)
    <3>1. f = n
      BY <2>2 DEF DeleteFit, Unlink
    <3> QED
      BY <2>2, <3>1
  <2>3. ASSUME NEW c \in Calls, CallStep(c) PROVE FALSE
    BY <2>3 DEF CallStep, Launch, CallReturns, CallRaises, CallAborts,
       ServicesCallDone, Move, DumpFit, FileAfterCall, Unlink
  <2>4. ASSUME NEW c \in Calls, CrashInDump(c) PROVE FALSE
    BY <2>4 DEF CrashInDump, DumpFit
  <2>5. ASSUME NEW m \in Models, DeleteModel(m) \/ CreateModel(m)
        PROVE  DeleteModel(ModelOf[n]) \/ CreateModel(ModelOf[n])
    <3>1. m = ModelOf[n]
      BY <2>5 DEF DeleteModel, CreateModel, DirectoryRemoved
    <3> QED
      BY <2>5, <3>1
  <2>6. CASE \/ \E c \in Calls : CancelTask(c)
             \/ \E m \in Models : BuildEnds(m)
             \/ WorkerDies \/ Close \/ WarnUnfinishedOperations \/ Restart
             \/ UNCHANGED vars
    BY <2>6 DEF CancelTask, BuildEnds, WorkerDies, Close,
       WarnUnfinishedOperations, Restart, vars
  <2> QED
    BY <2>1, <2>2, <2>3, <2>4, <2>5, <2>6 DEF Next
<1> QED
  BY <1>1, PatientAlways, PTL DEF Spec, StoredFitsStay
-----------------------------------------------------------------------------
(* Patient clients, while the server is not killed.                        *)

LEMMA TruthInit == TypeOK /\ Init => TruthInv
BY FitAssumption DEF Init, TypeOK, TruthInv, Calls, Created

\* A step of a call settles its own operation and its own file.
LEMMA TruthCall ==
  ASSUME TypeOK, FInv, PatientInv, TruthInv, NEW c \in Calls,
         CallStep(c) \/ CancelTask(c)
  PROVE  TruthInv'
<1> USE FitAssumption DEF TypeOK, cacheVars, serverVars
<1>1. /\ UNCHANGED <<ncalls, name, ops, server>> /\ Created' = Created
      /\ Live(c)
      /\ \A d \in Calls : d # c =>
           phase'[d] = phase[d] /\ done'[d] = done[d] /\ result'[d] = result[d]
      /\ \A n \in FitNames : n # name[c] => file'[n] = file[n]
  BY DEF CallStep, Launch, CallReturns, CallRaises, CallAborts, Created,
         ServicesCallDone, CancelTask, Move, Live, DumpFit, FileAfterCall, Unlink
<1>2. /\ c \in Created /\ Created \subseteq Calls
      /\ ~done[c] /\ result[c] = "none" /\ ops[name[c]] = c
  BY <1>1, OneCallInFlight DEF PatientInv, OpsInv, Created, Calls
<1>3. /\ phase'[c] = "over" => done'[c]
      /\ file'[name[c]] # "torn"
      /\ file'[name[c]] = "bad" => phase'[c] = "raised"
      /\ result'[c] = "error" => file'[name[c]] = "none"
  BY <1>2 DEF CallStep, Launch, CallReturns, CallRaises, CallAborts,
     ServicesCallDone, CancelTask, Move, DumpFit, FileAfterCall, Unlink,
     DoneAfterCall, ResultAfterCall, PatientInv, FileInv, TruthInv
<1>4. server # "cancelling" /\ done'[c] => result'[c] # "none"
  <2>1. server # "cancelling" => phase[c] # "cancelled"
    BY DEF PatientInv, WarnInv
  <2> QED
    BY <1>2, <2>1 DEF CallStep, Launch, CallReturns, CallRaises, CallAborts,
       ServicesCallDone, CancelTask, Move, ResultAfterCall
<1>5. \A n \in FitNames : ops[n] = c => n = name[c]
  BY DEF PatientInv, OpsInv, FitAssumption, Calls
<1>6. ASSUME NEW n \in FitNames, file'[n] = "bad"
      PROVE  \E d \in Created : name[d] = n /\ phase'[d] = "raised"
  <2>1. CASE n = name[c]
    BY <1>2, <1>3, <1>6, <2>1
  <2>2. CASE n # name[c]
    BY <1>1, <1>2, <1>6, <2>2 DEF TruthInv
  <2> QED
    BY <2>1, <2>2
<1>7. ASSUME NEW n \in FitNames, ops[n] # NoCall
      PROVE  /\ result'[ops[n]] = "error" => file'[n] = "none"
             /\ server # "cancelling" /\ done'[ops[n]] => result'[ops[n]] # "none"
  <2>1. CASE ops[n] = c
    BY <1>3, <1>4, <1>5, <2>1
  <2>2. CASE ops[n] # c
    <3>1. n # name[c] /\ ops[n] \in Calls
      BY <1>2, <1>7, <2>2
    <3> QED
      BY <1>1, <1>7, <2>2, <3>1 DEF TruthInv
  <2> QED
    BY <2>1, <2>2
<1>8. \A d \in Calls : phase'[d] = "over" => done'[d]
  BY <1>1, <1>3 DEF TruthInv
<1>9. \A n \in FitNames : file'[n] # "torn"
  BY <1>1, <1>3 DEF TruthInv
<1> QED
  BY <1>1, <1>6, <1>7, <1>8, <1>9 DEF TruthInv

\* A request of a name finds no messages of a failed run there: a cache hit
\* is a whole fit.
LEMMA HitIsFit ==
  ASSUME Serial, TypeOK, TruthInv, NEW n \in FitNames, Request(n)
  PROVE  file[n] \in {"good", "none"}
BY DEF TypeOK, TruthInv, Request, InFlight

\* A handler that removes files, or a signal, settles no operation.
LEMMA TruthRemoves ==
  ASSUME TypeOK, TruthInv,
         UNCHANGED <<ncalls, name, phase, done, result, ops>>,
         server' \in {"cancelling", server} \/ server = "up",
         \A n \in FitNames : file'[n] \in {file[n], "none"}
  PROVE  TruthInv'
BY DEF TruthInv, Created

LEMMA TruthNext ==
  ASSUME Serial, ~CrashAnytime, TypeOK, FInv, PatientInv, TruthInv, [Next]_vars
  PROVE  TruthInv'
<1> USE FitAssumption DEF TypeOK, cacheVars, serverVars
<1>1. ASSUME NEW n \in FitNames, CreateFitCached(n) \/ CreateFit(n)
      PROVE  TruthInv'
  <2> DEFINE new == ncalls + 1
  <2>1. /\ new \in Calls /\ new \notin Created /\ Created' = Created \cup {new}
        /\ Created \subseteq Calls
        /\ name' = [name EXCEPT ![new] = n] /\ ops' = [ops EXCEPT ![n] = new]
        /\ UNCHANGED <<file, server>>
    BY <1>1 DEF CreateFitCached, CreateFit, Request, Calls, Created
  <2>2. phase[new] = "unused" /\ ~done[new] /\ result[new] = "none"
    BY <2>1 DEF FInv, UsedCalls, OpenNotDone, PatientInv, TaskInv
  <2>3. \/ /\ phase' = [phase EXCEPT ![new] = "over"]
           /\ done' = [done EXCEPT ![new] = TRUE]
           /\ result' = [result EXCEPT ![new] = "fit"]
        \/ /\ phase' = [phase EXCEPT ![new] = "created"]
           /\ UNCHANGED <<done, result>>
    BY <1>1 DEF CreateFitCached, CreateFit
  <2>4. \A c \in Calls : phase'[c] = "over" => done'[c]
    BY <2>1, <2>3 DEF TruthInv
  <2>5. ASSUME NEW f \in FitNames, file'[f] = "bad"
        PROVE  \E c \in Created' : name'[c] = f /\ phase'[c] = "raised"
    <3>1. PICK c \in Created : name[c] = f /\ phase[c] = "raised"
      BY <2>1, <2>5 DEF TruthInv
    <3>2. c \in Created' /\ name'[c] = f /\ phase'[c] = "raised"
      BY <2>1, <2>3, <3>1
    <3> QED
      BY <3>2
  <2>6. ASSUME NEW f \in FitNames, ops'[f] # NoCall
        PROVE  /\ result'[ops'[f]] = "error" => file'[f] = "none"
               /\ server' # "cancelling" /\ done'[ops'[f]] =>
                    result'[ops'[f]] # "none"
    <3>1. CASE f = n
      BY <2>1, <2>2, <2>3, <3>1
    <3>2. CASE f # n
      <4>1. ops'[f] = ops[f] /\ ops[f] \in Created /\ ops[f] # new
        BY <2>1, <2>6, <3>2 DEF PatientInv, OpsInv
      <4> QED
        BY <2>1, <2>3, <2>6, <4>1 DEF TruthInv
    <3> QED
      BY <3>1, <3>2
  <2>7. \A f \in FitNames : file'[f] # "torn"
    BY <2>1 DEF TruthInv
  <2> QED
    BY <2>4, <2>5, <2>6, <2>7 DEF TruthInv
<1>2. ASSUME NEW c \in Calls, CallStep(c) \/ CancelTask(c) PROVE TruthInv'
  BY <1>2, TruthCall
<1>3. ASSUME NEW n \in FitNames, DeleteFit(n) PROVE TruthInv'
  BY <1>3, TruthRemoves DEF DeleteFit, Unlink
<1>4. ASSUME NEW m \in Models, DeleteModel(m) \/ CreateModel(m) \/ BuildEnds(m)
      PROVE  TruthInv'
  BY <1>4, TruthRemoves DEF DeleteModel, CreateModel, BuildEnds, DirectoryRemoved
<1>5. CASE WorkerDies \/ Close \/ WarnUnfinishedOperations \/ UNCHANGED vars
  BY <1>5, TruthRemoves DEF WorkerDies, Close, WarnUnfinishedOperations, vars
<1>6. CASE Restart
  <2>1. \A c \in Created : phase[c] = "over"
    BY <1>6 DEF Restart, InFlight, PatientInv, TaskInv, Created, Calls
  <2>2. /\ UNCHANGED <<file, ncalls, name, done, result>> /\ Created' = Created
        /\ \A n \in FitNames : ops'[n] = NoCall
        /\ \A c \in Calls : phase'[c] = "over" => c \in Created
    BY <1>6 DEF Restart, Restarted, Created
  <2> QED
    BY <2>1, <2>2 DEF TruthInv, Created, Calls
<1>7. ASSUME NEW c \in Calls, CrashInDump(c) PROVE FALSE
  BY <1>7 DEF CrashInDump
<1> QED
  BY <1>1, <1>2, <1>3, <1>4, <1>5, <1>6, <1>7 DEF Next

LEMMA TruthAlways ==
  FitNames # {} /\ Serial /\ ~CrashAnytime =>
    (Spec => [](TypeOK /\ FInv /\ PatientInv /\ TruthInv))
<1> SUFFICES ASSUME FitNames # {}, Serial, ~CrashAnytime
             PROVE  Spec => [](TypeOK /\ FInv /\ PatientInv /\ TruthInv)
  OBVIOUS
<1>1. Spec => [](TypeOK /\ FInv /\ PatientInv)
  BY PatientAlways
<1>2. TypeOK /\ Init => TruthInv
  BY TruthInit
<1>3. TypeOK /\ FInv /\ PatientInv /\ TruthInv /\ [Next]_vars => TruthInv'
  BY TruthNext
<1> QED
  BY <1>1, <1>2, <1>3, PTL DEF Spec

\* What a patient client reads of an operation is what it will find under the
\* fit's id, unless the server was killed.
THEOREM OperationsTellTruth ==
  FitNames # {} /\ Serial /\ ~CrashAnytime => (Spec => []OperationTellsTruth)
<1> SUFFICES ASSUME FitNames # {}, Serial, ~CrashAnytime
             PROVE  Spec => []OperationTellsTruth
  OBVIOUS
<1>1. ASSUME TypeOK, FInv, PatientInv, TruthInv PROVE OperationTellsTruth
  <2> SUFFICES ASSUME NEW n \in FitNames, GetOperation(n) # NoCall
               PROVE  LET c == GetOperation(n)
                      IN /\ done[c] <=> result[c] # "none"
                         /\ result[c] = "fit" => GetFit(n) \in {"good", "404"}
                         /\ result[c] = "error" => GetFit(n) = "404"
    BY DEF OperationTellsTruth
  <2>1. PICK c \in Created : GetOperation(n) = c /\ ops[n] = c /\ name[c] = n
          /\ server = "up"
    BY <1>1 DEF GetOperation, PatientInv, OpsInv
  <2>2. c \in Calls
    BY <1>1, <2>1 DEF TypeOK, Calls, Created
  <2>3. ops[n] # NoCall
    BY <2>1, <2>2, FitAssumption DEF Calls
  <2>4. done[c] <=> result[c] # "none"
    BY <1>1, <2>1, <2>2, <2>3 DEF TypeOK, TruthInv, PatientInv, TaskInv
  <2>5. result[c] = "error" => GetFit(n) = "404"
    BY <1>1, <2>1, <2>3 DEF TruthInv, GetFit
  <2>6. result[c] # "none" => file[n] \in {"good", "none"}
    <3> SUFFICES ASSUME result[c] # "none", file[n] = "bad" PROVE FALSE
      BY <1>1 DEF TypeOK, TruthInv
    <3>1. PICK d \in Created : name[d] = n /\ phase[d] = "raised"
      BY <1>1 DEF TruthInv
    <3>2. d \in Calls /\ Live(d) /\ result[d] = "none"
      BY <1>1, <3>1, CreatedCalls DEF Live, PatientInv, TaskInv
    <3>3. d = c
      BY <1>1, <2>1, <3>1, <3>2 DEF PatientInv, OpsInv
    <3> QED
      BY <3>2, <3>3
  <2>7. result[c] = "fit" => GetFit(n) \in {"good", "404"}
    BY <2>6 DEF GetFit
  <2> QED
    BY <2>1, <2>4, <2>5, <2>7
<1> QED
  BY <1>1, TruthAlways, PTL
-----------------------------------------------------------------------------
(* The service implements Operations: the refinement mapping of Promise.   *)

Outcomes == [c \in Calls |-> Outcome(c)]
Stored == {n \in FitNames : file[n] = "good"}

LEMMA PromiseInit == FitNames # {} /\ Init => Promise!Init
BY FitAssumption DEF Init, Promise!Init, Outcome

\* A step that moves one task, and its result, changes one outcome.
LEMMA OneOutcome ==
  ASSUME NEW c \in Calls, NEW to, Outcome(c)' = to,
         \A d \in Calls : d # c => phase'[d] = phase[d] /\ result'[d] = result[d]
  PROVE  Outcomes' = [Outcomes EXCEPT ![c] = to]
<1>1. \A d \in Calls : d # c => Outcome(d)' = Outcome(d)
  BY DEF Outcome
<1> QED
  BY <1>1 DEF Outcomes

LEMMA SameOutcomes ==
  ASSUME \A d \in Calls : phase'[d] = phase[d] /\ result'[d] = result[d]
  PROVE  Outcomes' = Outcomes
<1>1. \A d \in Calls : Outcome(d)' = Outcome(d)
  BY DEF Outcome
<1> QED
  BY <1>1 DEF Outcomes

\* Every step of the service is a step of Operations or changes nothing there.
LEMMA PromiseNext ==
  ASSUME Serial, ~CrashAnytime, TypeOK, FInv, PatientInv, TruthInv, [Next]_vars
  PROVE  [Promise!Next]_(Promise!promiseVars)
<1> USE FitAssumption DEF TypeOK, cacheVars, serverVars
<1> USE DEF Promise!promiseVars
<1>1. ASSUME NEW n \in FitNames, CreateFitCached(n) \/ CreateFit(n)
      PROVE  Promise!Next
  <2>1. PICK new \in Calls :
          /\ new = ncalls + 1 /\ new \notin Created
          /\ name' = [name EXCEPT ![new] = n] /\ UNCHANGED file
    BY <1>1 DEF CreateFitCached, CreateFit, Request, Calls, Created
  <2>2. phase[new] = "unused" /\ result[new] = "none"
    BY <2>1 DEF FInv, UsedCalls, PatientInv, TaskInv
  <2>3. Outcomes[new] = "unknown" /\ Stored' = Stored
    BY <2>1, <2>2 DEF Outcomes, Outcome, Stored
  <2>4. CASE CreateFitCached(n)
    <3>1. n \in Stored
      BY <2>4, HitIsFit DEF CreateFitCached, CacheHit, Stored
    <3>2. Outcome(new)' = "fit"
      <4>1. phase'[new] = "over" /\ result'[new] = "fit"
        BY <2>1, <2>4 DEF CreateFitCached
      <4> QED
        BY <4>1 DEF Outcome
    <3>3. Outcomes' = [Outcomes EXCEPT ![new] = "fit"]
      BY <2>1, <2>4, <3>2, OneOutcome DEF CreateFitCached
    <3>4. Promise!Start(new, n)
      BY <2>1, <2>3, <3>1, <3>3
         DEF Promise!Start, Promise!Becomes, Outcomes, Stored
    <3> QED
      BY <2>1, <3>4 DEF Promise!Next
  <2>5. CASE CreateFit(n)
    <3>1. n \notin Stored
      BY <2>5 DEF CreateFit, CacheHit, Stored
    <3>2. Outcome(new)' = "pending"
      <4>1. phase'[new] = "created"
        BY <2>1, <2>5 DEF CreateFit
      <4> QED
        BY <4>1 DEF Outcome
    <3>3. Outcomes' = [Outcomes EXCEPT ![new] = "pending"]
      BY <2>1, <2>5, <3>2, OneOutcome DEF CreateFit
    <3>4. Promise!Start(new, n)
      BY <2>1, <2>3, <3>1, <3>3
         DEF Promise!Start, Promise!Becomes, Outcomes, Stored
    <3> QED
      BY <2>1, <3>4 DEF Promise!Next
  <2> QED
    BY <1>1, <2>4, <2>5
<1>2. ASSUME NEW c \in Calls, Launch(c) \/ CallRaises(c) \/ CallAborts(c)
      PROVE  UNCHANGED Promise!promiseVars
  <2>1. /\ UNCHANGED <<name, result>>
        /\ \A d \in Calls : d # c => phase'[d] = phase[d]
        /\ phase[c] \in {"created", "running"}
        /\ phase'[c] \in {"running", "raised"}
    BY <1>2 DEF Launch, CallRaises, CallAborts, Move
  <2>2. Outcome(c)' = Outcome(c)
    BY <2>1 DEF Outcome
  <2>3. Outcomes' = Outcomes
    BY <2>1, <2>2, OneOutcome DEF Outcomes
  <2>4. Stored' = Stored
    BY <1>2 DEF Launch, CallRaises, CallAborts, Move, DumpFit, PatientInv,
       FileInv, Stored
  <2> QED
    BY <2>1, <2>3, <2>4 DEF Outcomes, Stored
<1>3. ASSUME NEW c \in Calls, CallReturns(c) PROVE Promise!Next
  <2>1. /\ UNCHANGED <<name, result>> /\ phase[c] = "running"
        /\ phase' = [phase EXCEPT ![c] = "returned"]
        /\ file' = [file EXCEPT ![name[c]] = "good"]
    BY <1>3 DEF CallReturns, Move, DumpFit
  <2>2. Outcome(c) = "pending" /\ Outcome(c)' = "storing"
    BY <2>1 DEF Outcome
  <2>3. Outcomes' = [Outcomes EXCEPT ![c] = "storing"]
    BY <2>1, <2>2, OneOutcome
  <2>4. Stored' = Stored \cup {name[c]}
    BY <2>1 DEF Stored
  <2>5. Promise!Store(c)
    BY <2>1, <2>2, <2>3, <2>4
       DEF Promise!Store, Promise!Becomes, Outcomes, Stored
  <2> QED
    BY <2>5 DEF Promise!Next
<1>4. ASSUME NEW c \in Calls, ServicesCallDone(c)
      PROVE  Promise!Next \/ UNCHANGED Promise!promiseVars
  <2>1. /\ name' = name /\ phase' = [phase EXCEPT ![c] = "over"]
        /\ result' = [result EXCEPT ![c] = ResultAfterCall(c)]
        /\ phase[c] \in {"returned", "raised", "cancelled"}
        /\ result[c] = "none"
    BY <1>4 DEF ServicesCallDone, PatientInv, TaskInv
  <2>2. Stored' = Stored
    BY <1>4 DEF ServicesCallDone, FileAfterCall, Unlink, PatientInv, FileInv,
       Stored
  <2>3. CASE phase[c] = "returned"
    <3>1. Outcome(c) = "storing" /\ Outcome(c)' = "fit"
      BY <2>1, <2>3 DEF Outcome, ResultAfterCall
    <3>2. Outcomes' = [Outcomes EXCEPT ![c] = "fit"]
      BY <2>1, <3>1, OneOutcome
    <3>3. Promise!Finish(c)
      BY <2>1, <2>2, <3>1, <3>2
         DEF Promise!Finish, Promise!Becomes, Outcomes, Stored
    <3> QED
      BY <3>3 DEF Promise!Next
  <2>4. CASE phase[c] = "raised"
    <3>1. Outcome(c) = "pending" /\ Outcome(c)' = "error"
      BY <2>1, <2>4 DEF Outcome, ResultAfterCall
    <3>2. Outcomes' = [Outcomes EXCEPT ![c] = "error"]
      BY <2>1, <3>1, OneOutcome
    <3>3. Promise!Finish(c)
      BY <2>1, <2>2, <3>1, <3>2
         DEF Promise!Finish, Promise!Becomes, Outcomes, Stored
    <3> QED
      BY <3>3 DEF Promise!Next
  <2>5. CASE phase[c] = "cancelled"
    <3>1. Outcome(c) = "stopped" /\ Outcome(c)' = "stopped"
      BY <2>1, <2>5 DEF Outcome, ResultAfterCall
    <3>2. Outcomes' = Outcomes
      BY <2>1, <3>1, OneOutcome DEF Outcomes
    <3> QED
      BY <2>1, <2>2, <3>2 DEF Outcomes, Stored
  <2> QED
    BY <2>1, <2>3, <2>4, <2>5
<1>5. ASSUME NEW c \in Calls, CancelTask(c) PROVE Promise!Next
  <2>1. /\ UNCHANGED <<name, file, result>> /\ phase[c] \in {"created", "running"}
        /\ phase' = [phase EXCEPT ![c] = "cancelled"]
    BY <1>5 DEF CancelTask, Move
  <2>2. Outcome(c) = "pending" /\ Outcome(c)' = "stopped"
    BY <2>1 DEF Outcome
  <2>3. Outcomes' = [Outcomes EXCEPT ![c] = "stopped"]
    BY <2>1, <2>2, OneOutcome
  <2>4. Promise!Stop(c)
    BY <2>1, <2>2, <2>3 DEF Promise!Stop, Promise!Becomes, Outcomes
  <2> QED
    BY <2>4 DEF Promise!Next
<1>6. ASSUME UNCHANGED <<name, phase, result>>,
             \A n \in FitNames : file'[n] \in {file[n], "none"}
      PROVE  Promise!Next
  <2>1. Outcomes' = Outcomes
    BY <1>6, SameOutcomes
  <2>2. Stored' \subseteq Stored
    BY <1>6 DEF Stored
  <2> QED
    BY <1>6, <2>1, <2>2 DEF Promise!Next, Promise!Remove, Outcomes, Stored
<1>7. ASSUME NEW n \in FitNames, DeleteFit(n) PROVE Promise!Next
  <2>1. \A f \in FitNames : file'[f] \in {file[f], "none"}
    BY <1>7 DEF DeleteFit, Unlink
  <2> QED
    BY <1>6, <1>7, <2>1 DEF DeleteFit
<1>8. ASSUME NEW m \in Models, DeleteModel(m) \/ CreateModel(m)
      PROVE  Promise!Next
  <2>1. \A f \in FitNames : file'[f] \in {file[f], "none"}
    BY <1>8 DEF DeleteModel, CreateModel, DirectoryRemoved
  <2> QED
    BY <1>6, <1>8, <2>1 DEF DeleteModel, CreateModel
<1>9. CASE \/ \E m \in Models : BuildEnds(m)
           \/ WorkerDies \/ Close \/ WarnUnfinishedOperations \/ UNCHANGED vars
  <2>1. UNCHANGED <<name, phase, result, file>>
    BY <1>9 DEF BuildEnds, WorkerDies, Close, WarnUnfinishedOperations, vars
  <2> QED
    BY <2>1, SameOutcomes DEF Outcomes, Stored
<1>10. CASE Restart
  <2>1. \A c \in Calls : phase'[c] = phase[c]
    BY <1>10, CreatedCalls
       DEF Restart, Restarted, InFlight, FInv, UsedCalls, PatientInv, TaskInv
  <2>2. UNCHANGED <<name, result, file>>
    BY <1>10 DEF Restart, Restarted
  <2> QED
    BY <2>1, <2>2, SameOutcomes DEF Outcomes, Stored
<1>11. ASSUME NEW c \in Calls, CrashInDump(c) PROVE FALSE
  BY <1>11 DEF CrashInDump
<1> QED
  BY <1>1, <1>2, <1>3, <1>4, <1>5, <1>7, <1>8, <1>9, <1>10, <1>11
     DEF Next, CallStep

\* For patient clients, and unless the server is killed, fits and operations
\* are what Operations says: one outcome each, kept, a fit only after it was
\* stored, and no failure that takes a stored fit away.
THEOREM ServiceImplementsOperations ==
  FitNames # {} /\ Serial /\ ~CrashAnytime => (Spec => ImplementsOperations)
<1> SUFFICES ASSUME FitNames # {}, Serial, ~CrashAnytime
             PROVE  Spec => ImplementsOperations
  OBVIOUS
<1>1. Init => Promise!Init
  BY PromiseInit
<1>2. TypeOK /\ FInv /\ PatientInv /\ TruthInv /\ [Next]_vars =>
        [Promise!Next]_(Promise!promiseVars)
  BY PromiseNext
<1> QED
  BY <1>1, <1>2, TruthAlways, PTL
     DEF Spec, ImplementsOperations, Promise!Spec

\* The invariant of the fits of patient clients and a server that is not killed:
\* a name that may still be written has its model, and an operation, its result
\* and the file under its fit's name agree at every step of every handler.
THEOREM ClientsHold ==
  FitNames # {} /\ Serial /\ ~CrashAnytime => (Spec => []ClientsInv)
<1> SUFFICES ASSUME FitNames # {}, Serial, ~CrashAnytime
             PROVE  Spec => []ClientsInv
  OBVIOUS
<1> QED
  BY TruthAlways, PTL DEF ClientsInv
=============================================================================
