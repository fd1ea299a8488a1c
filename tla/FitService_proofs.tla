-------------------------- MODULE FitService_proofs --------------------------
(***************************************************************************)
(* Proofs about FitService, for any models, fit names and number of        *)
(* requests: type correctness, and that the messages of a failed run are   *)
(* on disk only while a done callback is still to run, or was cut off.     *)
(***************************************************************************)
EXTENDS FitService, TLAPS

\* Operations are numbered in the order they are created; only those that
\* exist have a task.
UsedCalls == \A c \in Calls : phase[c] # "unused" => c \in Created

\* `done` is set by the done callback or a cache hit, with the last phase.
OpenNotDone == \A c \in Calls : phase[c] # "over" => ~done[c]

\* FailedFitsRemoved in terms of the file alone.
BadPending ==
  \A n \in FitNames : file[n] \in {"bad", "torn"} =>
    \E c \in Created : name[c] = n /\ (phase[c] = "raised" \/ CutOff(c))

FInv == UsedCalls /\ OpenNotDone /\ BadPending
-----------------------------------------------------------------------------
LEMMA FitTypeInit == FitNames # {} /\ Init => TypeOK
BY FitAssumption DEF Init, TypeOK, Calls

LEMMA FitTypeNext == TypeOK /\ [Next]_vars => TypeOK'
<1> SUFFICES ASSUME TypeOK, [Next]_vars PROVE TypeOK'
  OBVIOUS
<1> USE FitAssumption DEF TypeOK, cacheVars, serverVars
<1>1. ASSUME NEW n \in FitNames, Request(n)
      PROVE  /\ ncalls + 1 \in Calls /\ ncalls' \in 0..MaxCalls
             /\ name' \in [Calls -> FitNames]
             /\ ops' \in [FitNames -> Calls \cup {NoCall}]
  BY <1>1 DEF Request, Calls
<1>2. ASSUME NEW n \in FitNames, CreateFitCached(n) PROVE TypeOK'
  BY <1>1, <1>2 DEF CreateFitCached
<1>3. ASSUME NEW n \in FitNames, CreateFit(n) PROVE TypeOK'
  BY <1>1, <1>3 DEF CreateFit
<1>4. ASSUME NEW n \in FitNames, DeleteFit(n) PROVE TypeOK'
  BY <1>4 DEF DeleteFit, Unlink
<1>5. ASSUME NEW c \in Calls, Launch(c) PROVE TypeOK'
  BY <1>5 DEF Launch, Move
<1>6. ASSUME NEW c \in Calls, CallReturns(c) PROVE TypeOK'
  BY <1>6 DEF CallReturns, Move, DumpFit
<1>7. ASSUME NEW c \in Calls, CallRaises(c) PROVE TypeOK'
  BY <1>7 DEF CallRaises, Move, DumpFit
<1>8. ASSUME NEW c \in Calls, CallAborts(c) PROVE TypeOK'
  BY <1>8 DEF CallAborts, Move
<1>9. ASSUME NEW c \in Calls, ServicesCallDone(c) PROVE TypeOK'
  <2>1. FileAfterCall(c) \in [FitNames -> {"good", "bad", "torn", "none"}]
    BY DEF FileAfterCall, Unlink
  <2>2. DoneAfterCall(c) \in BOOLEAN
    BY DEF DoneAfterCall
  <2>3. ResultAfterCall(c) \in {"none", "fit", "error"}
    BY DEF ResultAfterCall
  <2> QED
    BY <1>9, <2>1, <2>2, <2>3 DEF ServicesCallDone
<1>10. ASSUME NEW m \in Models, DeleteModel(m) PROVE TypeOK'
  BY <1>10 DEF DeleteModel, DirectoryRemoved
<1>11. ASSUME NEW m \in Models, CreateModel(m) PROVE TypeOK'
  BY <1>11 DEF CreateModel, DirectoryRemoved
<1>12. CASE WorkerDies
  BY <1>12 DEF WorkerDies
<1>13. CASE Restart
  BY <1>13 DEF Restart, Restarted
<1>14. ASSUME NEW c \in Calls, CrashInDump(c) PROVE TypeOK'
  BY <1>14 DEF CrashInDump, Restarted, DumpFit
<1>15. ASSUME NEW m \in Models, BuildEnds(m) PROVE TypeOK'
  BY <1>15 DEF BuildEnds
<1>16. ASSUME NEW c \in Calls, CancelTask(c) PROVE TypeOK'
  BY <1>16 DEF CancelTask, Move
<1>17. CASE Close
  BY <1>17 DEF Close
<1>18. CASE WarnUnfinishedOperations
  <2>1. Created \subseteq Calls
    BY DEF Created, Calls
  <2>2. warned' \subseteq Calls
    BY <1>18, <2>1 DEF WarnUnfinishedOperations
  <2> QED
    BY <1>18, <2>2 DEF WarnUnfinishedOperations
<1>19. CASE UNCHANGED vars
  BY <1>19 DEF vars
<1> QED
  BY <1>2, <1>3, <1>4, <1>5, <1>6, <1>7, <1>8, <1>9, <1>10, <1>11, <1>12,
     <1>13, <1>14, <1>15, <1>16, <1>17, <1>18, <1>19 DEF Next, CallStep

\* Every variable keeps its type in every reachable state.
THEOREM FitTypeCorrect == FitNames # {} => (Spec => []TypeOK)
<1>1. FitNames # {} /\ Init => TypeOK
  BY FitTypeInit
<1>2. TypeOK /\ [Next]_vars => TypeOK'
  BY FitTypeNext
<1>3. ASSUME FitNames # {} PROVE Spec => []TypeOK
  <2>1. Init => TypeOK
    BY <1>1, <1>3
  <2> QED
    BY <2>1, <1>2, PTL DEF Spec
<1> QED
  BY <1>3
-----------------------------------------------------------------------------
LEMMA FitInvInit == TypeOK /\ Init => FInv
BY DEF Init, TypeOK, FInv, UsedCalls, OpenNotDone, BadPending, Calls

\* Only the call whose task moves changes its own phase.
LEMMA FitInvCall ==
  ASSUME TypeOK, FInv, NEW c \in Calls, CallStep(c)
  PROVE  FInv'
<1> USE FitAssumption
    DEF TypeOK, FInv, UsedCalls, OpenNotDone, BadPending, Calls, Created,
        cacheVars
<1>1. /\ UNCHANGED <<ncalls, name>> /\ c \in Created
      /\ phase[c] \notin {"unused", "over"}
  BY DEF CallStep, Launch, CallReturns, CallRaises, CallAborts,
         ServicesCallDone, Move
<1>2. \A d \in Calls : d # c => phase'[d] = phase[d] /\ done'[d] = done[d]
  BY DEF CallStep, Launch, CallReturns, CallRaises, CallAborts,
         ServicesCallDone, Move
<1>3. phase'[c] \in {"running", "returned", "raised", "over"}
  BY DEF CallStep, Launch, CallReturns, CallRaises, CallAborts,
         ServicesCallDone, Move
<1>4. phase'[c] # "over" => ~done'[c]
  BY DEF CallStep, Launch, CallReturns, CallRaises, CallAborts,
         ServicesCallDone, Move
<1>5. UsedCalls' /\ OpenNotDone'
  BY <1>1, <1>2, <1>3, <1>4
<1>6. ASSUME NEW n \in FitNames, file'[n] \in {"bad", "torn"}
      PROVE  \E d \in Created :
               name[d] = n /\ (phase'[d] = "raised" \/ CutOff(d)')
  <2>1. CASE name[c] = n /\ phase'[c] = "raised"
    BY <1>1, <2>1
  <2>2. CASE ~(name[c] = n /\ phase'[c] = "raised")
    <3>1. file[n] \in {"bad", "torn"}
      BY <1>6, <2>2 DEF CallStep, Launch, CallReturns, CallRaises, CallAborts,
                        ServicesCallDone, Move, DumpFit, FileAfterCall, Unlink
    <3>2. PICK d \in Created :
            name[d] = n /\ (phase[d] = "raised" \/ CutOff(d))
      BY <3>1
    <3>3. d # c
      BY <1>1, <1>6, <2>2, <3>2
         DEF CallStep, Launch, CallReturns, CallRaises, CallAborts,
             ServicesCallDone, Move, FileAfterCall, Unlink, CutOff
    <3>4. d \in Calls /\ phase'[d] = phase[d] /\ done'[d] = done[d]
      BY <1>2, <3>3
    <3> QED
      BY <3>2, <3>4 DEF CutOff
  <2> QED
    BY <2>1, <2>2
<1> QED
  BY <1>1, <1>5, <1>6

\* A restart: whoever was responsible for a file is cut off, or was before.
LEMMA FitInvRestart ==
  ASSUME TypeOK, FInv, Restarted,
         \A n \in FitNames : file'[n] = file[n]
           \/ \E c \in Created : name[c] = n /\ phase[c] = "running"
  PROVE  FInv'
<1> USE FitAssumption
    DEF TypeOK, FInv, UsedCalls, OpenNotDone, BadPending, Calls, Created,
        cacheVars
<1>1. UNCHANGED <<ncalls, name, done>>
  BY DEF Restarted
<1>2. \A c \in Calls : phase'[c] = IF c \in Created THEN "over" ELSE "unused"
  BY DEF Restarted
<1>3. UsedCalls' /\ OpenNotDone'
  BY <1>1, <1>2
<1>4. ASSUME NEW n \in FitNames, file'[n] \in {"bad", "torn"}
      PROVE  \E c \in Created : name[c] = n /\ CutOff(c)'
  <2>1. PICK c \in Created : name[c] = n /\
               (phase[c] \in {"raised", "running"} \/ CutOff(c))
    BY <1>4
  <2>2. ~done[c]
    BY <2>1 DEF CutOff
  <2> QED
    BY <1>1, <1>2, <2>1, <2>2 DEF CutOff
<1> QED
  BY <1>1, <1>3, <1>4

LEMMA FitInvNext ==
  ASSUME TypeOK, FInv, [Next]_vars
  PROVE  FInv'
<1> USE FitAssumption
    DEF TypeOK, FInv, UsedCalls, OpenNotDone, BadPending, Calls, Created,
        cacheVars
<1>1. ASSUME NEW n \in FitNames, CreateFitCached(n) \/ CreateFit(n)
      PROVE  FInv'
  <2>1. /\ ncalls' = ncalls + 1 /\ file' = file /\ ncalls + 1 \in Calls
        /\ \A c \in Calls : c # ncalls + 1 =>
             /\ name'[c] = name[c] /\ phase'[c] = phase[c]
             /\ done'[c] = done[c]
        /\ phase'[ncalls + 1] # "over" => ~done'[ncalls + 1]
    <3>1. CASE CreateFitCached(n)
      BY <3>1 DEF CreateFitCached, Request
    <3>2. CASE CreateFit(n)
      BY <3>2 DEF CreateFit, Request
    <3> QED
      BY <1>1, <3>1, <3>2
  <2>2. /\ Created \subseteq Created' /\ Created \subseteq Calls
        /\ ncalls + 1 \in Created' /\ ncalls + 1 \notin Created
    BY <2>1
  <2>3. ASSUME NEW c \in Calls
        PROVE  /\ phase'[c] # "unused" => c \in Created'
               /\ phase'[c] # "over" => ~done'[c]
    <3>1. CASE c = ncalls + 1
      BY <2>1, <2>2, <3>1
    <3>2. CASE c # ncalls + 1
      BY <2>1, <2>2, <3>2
    <3> QED
      BY <3>1, <3>2
  <2>4. ASSUME NEW f \in FitNames, file'[f] \in {"bad", "torn"}
        PROVE  \E c \in Created' :
                 name'[c] = f /\ (phase'[c] = "raised" \/ CutOff(c)')
    <3>1. PICK c \in Created :
            name[c] = f /\ (phase[c] = "raised" \/ CutOff(c))
      BY <2>1, <2>4
    <3>2. /\ c \in Created' /\ name'[c] = name[c]
          /\ phase'[c] = phase[c] /\ done'[c] = done[c]
      BY <2>1, <2>2
    <3> QED
      BY <3>1, <3>2 DEF CutOff
  <2> QED
    BY <2>3, <2>4
<1>2. ASSUME NEW n \in FitNames, DeleteFit(n) PROVE FInv'
  BY <1>2 DEF DeleteFit, Unlink, CutOff
<1>3. ASSUME NEW c \in Calls, CallStep(c) PROVE FInv'
  BY <1>3, FitInvCall
<1>4. ASSUME NEW c \in Calls, CrashInDump(c) PROVE FInv'
  <2>1. c \in Created
    BY <1>4 DEF CrashInDump
  <2>2. Restarted /\ phase[c] = "running"
    BY <1>4 DEF CrashInDump
  <2>3. \A n \in FitNames : file'[n] = file[n] \/ n = name[c]
    BY <1>4 DEF CrashInDump, DumpFit
  <2> QED
    BY <2>1, <2>2, <2>3, FitInvRestart
<1>5. ASSUME NEW m \in Models, DeleteModel(m) \/ CreateModel(m)
      PROVE  FInv'
  <2>1. UNCHANGED <<ncalls, name, phase, done>> /\ file' = DirectoryRemoved(m)
    BY <1>5 DEF DeleteModel, CreateModel
  <2>2. \A n \in FitNames : file'[n] \in {"none", file[n]}
    BY <2>1 DEF DirectoryRemoved
  <2> QED
    BY <2>1, <2>2 DEF CutOff
<1>6. CASE WorkerDies
  BY <1>6 DEF WorkerDies, CutOff
<1>7. CASE Restart
  BY <1>7, FitInvRestart DEF Restart
<1>8. ASSUME NEW c \in Calls, CancelTask(c) PROVE FInv'
  <2>1. /\ UNCHANGED <<file, ncalls, name, done>>
        /\ phase[c] \in {"created", "running"}
        /\ phase' = [phase EXCEPT ![c] = "cancelled"]
    BY <1>8 DEF CancelTask, Move
  <2>2. c \in Created /\ Created \subseteq Calls /\ ~done[c]
    BY <2>1
  <2>3. UsedCalls' /\ OpenNotDone'
    BY <2>1, <2>2
  <2>4. ASSUME NEW n \in FitNames, file'[n] \in {"bad", "torn"}
        PROVE  \E d \in Created :
                 name[d] = n /\ (phase'[d] = "raised" \/ CutOff(d)')
    <3>1. PICK d \in Created :
            name[d] = n /\ (phase[d] = "raised" \/ CutOff(d))
      BY <2>1, <2>4
    <3>2. phase'[d] = phase[d] /\ done'[d] = done[d]
      BY <2>1, <2>2, <3>1 DEF CutOff
    <3> QED
      BY <3>1, <3>2 DEF CutOff
  <2> QED
    BY <2>1, <2>3, <2>4
<1>9. CASE \/ \E m \in Models : BuildEnds(m)
           \/ Close \/ WarnUnfinishedOperations \/ UNCHANGED vars
  <2>1. UNCHANGED <<file, ncalls, name, phase, done>>
    BY <1>9 DEF BuildEnds, Close, WarnUnfinishedOperations, vars
  <2> QED
    BY <2>1 DEF CutOff
<1> QED
  BY <1>1, <1>2, <1>3, <1>4, <1>5, <1>6, <1>7, <1>8, <1>9 DEF Next

\* Whatever clients do concurrently and whenever the server is killed, the
\* messages of a failed run, or half of a fit, are there only while the done
\* callback of a call of that name has not run: it is still to come, or a
\* crash has cut the call off.
THEOREM FailedFitsGo == FitNames # {} => (Spec => []FailedFitsRemoved)
<1> SUFFICES ASSUME FitNames # {} PROVE Spec => []FailedFitsRemoved
  OBVIOUS
<1>1. TypeOK /\ Init => FInv
  BY FitInvInit
<1>2. TypeOK /\ FInv /\ [Next]_vars => FInv'
  BY FitInvNext
<1>3. Spec => []TypeOK
  BY FitTypeCorrect
<1>4. TypeOK /\ FInv => FailedFitsRemoved
  BY DEF TypeOK, FInv, BadPending, FailedFitsRemoved, GetFit
<1> QED
  BY <1>1, <1>2, <1>3, <1>4, PTL DEF Spec
=============================================================================
