--------------------------- MODULE CallPromise_proofs ---------------------------
(***************************************************************************)
(* Proofs about ServicesCall, continued: the files that are joined to a    *)
(* fit hold whole lines, and the call implements FitPromise.               *)
(***************************************************************************)
EXTENDS ServicesCall_proofs

\* Where the coroutine is, how the call ended, and the future in debug mode;
\* no socket goes before the end.
EndInv ==
  /\ callend # "none" <=> spc = "ended"
  /\ spc = "inline" => DebugMode /\ posted = "none"
  /\ gone # {} => callend # "none"

\* messages_files has a file of every writer that was heard of, once.
OrderInv ==
  /\ \A w \in Writers : got[w] > 0 <=> \E k \in DOMAIN order : order[k] = w
  /\ \A j, k \in DOMAIN order : order[j] = order[k] => j = k

\* What is stored is the files, and nothing is added to them afterwards.
JoinInv == fit # NoFit => fit = [k \in DOMAIN order |-> files[order[k]]]

\* The worker leaves a line unfinished only if it is killed, or if the call
\* ended before: then nothing is stored, or the pool gave the call up.
LineInv ==
  /\ wpc \in {"queued", "connect"} => \A w \in Writers : sent[w] = 0
  /\ wpc \in {"close", "exit"}
       /\ (callend = "none" \/ (fit # NoFit /\ posted # "broken")) =>
         \A w \in Writers : sent[w] % 2 = 0

StoreInv == EndInv /\ OrderInv /\ JoinInv /\ LineInv

\* All that the proofs about a call suppose of its states.
CallInv == IInv /\ StoreInv
-----------------------------------------------------------------------------
(* Lemmas about the data.                                                  *)

\* What Append does to the places of a sequence.
LEMMA AppendPlaces ==
  ASSUME NEW S, NEW s \in Seq(S), NEW e \in S
  PROVE  /\ DOMAIN Append(s, e) = DOMAIN s \cup {Len(s) + 1}
         /\ \A k \in DOMAIN s : Append(s, e)[k] = s[k]
         /\ Append(s, e)[Len(s) + 1] = e
         /\ Len(s) + 1 \notin DOMAIN s
<1>1. /\ Len(Append(s, e)) = Len(s) + 1 /\ Append(s, e) \in Seq(S)
      /\ \A i \in 1..Len(s) : Append(s, e)[i] = s[i]
      /\ Append(s, e)[Len(s) + 1] = e
  BY AppendProperties
<1>2. DOMAIN s = 1..Len(s) /\ DOMAIN Append(s, e) = 1..(Len(s) + 1)
      /\ Len(s) \in Nat
  BY <1>1, LenProperties
<1> QED
  BY <1>1, <1>2

\* The head of a line is never the last of an even number of units.
LEMMA HeadHasTail ==
  ASSUME NEW m \in Nat, m % 2 = 0, NEW i \in 1..m, i % 2 = 1
  PROVE  i < m /\ i + 1 \in 1..m
  BY SMT

\* Two writers that sent something did not send the same units.
LEMMA UnitsDiffer ==
  ASSUME NEW v, NEW w, NEW m \in Nat \ {0}, NEW n \in Nat \ {0},
         Units(v, m) = Units(w, n)
  PROVE  v = w
<1>1. Units(v, m)[1] = <<v, 1>> /\ Units(w, n)[1] = <<w, 1>>
  BY DEF Units
<1> QED
  BY <1>1

\* The pieces of a fit, each a file, are a sequence of sequences.
LEMMA PiecesType ==
  ASSUME NEW S, NEW n \in Nat, NEW f,
         f = [i \in 1..n |-> f[i]], \A i \in 1..n : f[i] \in Seq(S)
  PROVE  f \in Seq(Seq(S))
<1>1. f \in [1..n -> Seq(S)]
  OBVIOUS
<1> QED
  BY <1>1, SeqDef
-----------------------------------------------------------------------------
(* StoreInv is inductive.                                                  *)

LEMMA StoreInit == Init => StoreInv
  BY ConstantsAssumption
     DEF Init, StoreInv, EndInv, OrderInv, JoinInv, LineInv

\* The worker fills its connections; it leaves the server's state alone.
LEMMA StoreWorker ==
  ASSUME TypeOK, IInv, StoreInv, WorkerStep
  PROVE  StoreInv'
<1> USE DEF TypeOK, StoreInv
<1>1. UNCHANGED <<posted, spc, callend, gone, got, files, order, fit>>
  BY DEF WorkerStep, WorkerMoves, SetUp, Connect, ConnectThrows, SendThrows,
     StanReturns,
     Delete, Send, serverVars
<1>2. EndInv' /\ OrderInv' /\ JoinInv'
  BY <1>1 DEF EndInv, OrderInv, JoinInv
<1>3. ~WorkerGone => fit = NoFit \/ posted = "broken"
  BY DEF IInv, FitInv, FutureInv
<1>4. LineInv'
  <2>1. CASE SetUp
    BY <1>1, <2>1 DEF SetUp, WorkerReturns, LineInv
  <2>2. CASE Connect
    BY <1>1, <2>2 DEF Connect, LineInv
  <2>3. CASE ConnectThrows
    BY <1>1, <2>3 DEF ConnectThrows, WorkerReturns, LineInv
  <2>4. ASSUME NEW w \in Writers, SendThrows(w) PROVE LineInv'
    <3>1. callend # "none" /\ ~WorkerGone
      BY <2>4 DEF SendThrows, MayWrite, SendFails, HungUp, WorkerGone, EndInv
    <3> QED
      BY <1>1, <1>3, <2>4, <3>1 DEF SendThrows, LineInv
  <2>5. CASE StanReturns
    BY <1>1, <2>5 DEF StanReturns, LineInv
  <2>6. CASE Delete
    BY <1>1, <2>6 DEF Delete, LineInv
  <2>7. ASSUME NEW w \in Writers, Send(w) PROVE LineInv'
    BY <2>7 DEF Send, MayWrite, LineInv
  <2> QED
    BY <2>1, <2>2, <2>3, <2>4, <2>5, <2>6, <2>7 DEF WorkerStep, WorkerMoves
<1> QED
  BY <1>2, <1>4

\* The pool kills workers and posts results.
LEMMA StorePool ==
  ASSUME TypeOK, IInv, StoreInv,
         WorkerDies \/ SiblingDies \/ PoolTerminates \/ PostResult
  PROVE  StoreInv'
<1> USE DEF TypeOK, StoreInv, workerVars, serverVars
<1>1. /\ UNCHANGED <<sent, spc, callend, gone, got, files, order, fit>>
      /\ wpc' = wpc \/ wpc' = "dead"
  BY DEF WorkerDies, SiblingDies, PoolTerminates, PostResult, ProcessGone
<1>2. OrderInv' /\ JoinInv'
  BY <1>1 DEF OrderInv, JoinInv
<1>3. posted' = posted \/ (posted = "none" /\ ~DebugMode)
  BY ConstantsAssumption
     DEF WorkerDies, SiblingDies, PoolTerminates, PostResult
<1>4. EndInv'
  BY <1>1, <1>3 DEF EndInv
<1>5. LineInv'
  BY <1>1, <1>3 DEF LineInv, IInv, FitInv
<1> QED
  BY <1>2, <1>4, <1>5

\* Receiving a chunk gives its writer a place in the order, if it had none.
LEMMA StoreChunk ==
  ASSUME TypeOK, IInv, StoreInv, spc = "handle", NEW w \in Writers,
         NEW n \in RecvCounts(w), RecvChunk(w, n)
  PROVE  StoreInv'
<1> USE DEF TypeOK, StoreInv
<1>1. /\ n \in Nat \ {0} /\ got' = [got EXCEPT ![w] = @ + n]
      /\ UNCHANGED <<wpc, sent, posted, fit, callend, gone>>
      /\ spc' \in {"select", "handle"}
  BY ConstantsAssumption DEF RecvCounts, RecvChunk, Handled, workerVars
<1>2. fit = NoFit /\ callend = "none"
  BY DEF EndInv, IInv, FitInv
<1>3. EndInv' /\ JoinInv' /\ LineInv'
  BY <1>1, <1>2 DEF EndInv, JoinInv, LineInv
<1>4. \A v \in Writers : got'[v] > 0 <=> v = w \/ got[v] > 0
  BY <1>1
<1>5. CASE \E k \in DOMAIN order : order[k] = w
  <2>1. order' = order
    BY <1>5 DEF RecvChunk, FileOf, ToSet
  <2>2. \A v \in Writers :
          got'[v] > 0 <=> \E k \in DOMAIN order : order[k] = v
    BY <1>5, <1>4 DEF OrderInv
  <2>3. OrderInv'
    BY <2>1, <2>2 DEF OrderInv
  <2> QED
    BY <1>3, <2>3
<1>6. CASE ~ \E k \in DOMAIN order : order[k] = w
  <2>1. order' = Append(order, w)
    BY <1>6 DEF RecvChunk, FileOf, ToSet
  <2>2. /\ DOMAIN order' = DOMAIN order \cup {Len(order) + 1}
        /\ \A k \in DOMAIN order : order'[k] = order[k]
        /\ order'[Len(order) + 1] = w
        /\ Len(order) + 1 \notin DOMAIN order
    BY <2>1, AppendPlaces
  <2>3. \A v \in Writers :
          (\E k \in DOMAIN order' : order'[k] = v)
            <=> v = w \/ \E k \in DOMAIN order : order[k] = v
    BY <2>2
  <2>4. \A j, k \in DOMAIN order' : order'[j] = order'[k] => j = k
    BY <1>6, <2>2 DEF OrderInv
  <2>5. OrderInv'
    BY <1>4, <2>3, <2>4 DEF OrderInv
  <2> QED
    BY <1>3, <2>5
<1> QED
  BY <1>5, <1>6

\* The coroutine: what it stores is the files as they are when it ends.
LEMMA StoreServer ==
  ASSUME TypeOK, IInv, StoreInv, ServerStep \/ Cancel
  PROVE  StoreInv'
<1> USE DEF TypeOK, StoreInv, workerVars
<1>1. ASSUME UNCHANGED <<workerVars, posted, got, files, order, fit>>,
             EndInv', callend = "none"
      PROVE  StoreInv'
  <2>1. OrderInv' /\ JoinInv'
    BY <1>1 DEF OrderInv, JoinInv
  <2>2. LineInv'
    BY <1>1 DEF LineInv
  <2> QED
    BY <1>1, <2>1, <2>2
<1>2. CASE InlineReturns
  <2>1. fit = NoFit /\ callend = "none"
    BY <1>2 DEF InlineReturns, EndInv, IInv, FitInv
  <2>2. OrderInv' /\ JoinInv' /\ EndInv'
    BY <1>2, <2>1 DEF InlineReturns, OrderInv, JoinInv, EndInv
  <2>3. LineInv'
    BY <1>2, <2>1 DEF InlineReturns, LineInv
  <2> QED
    BY <2>2, <2>3
<1>3. CASE Select
  BY <1>1, <1>3 DEF Select, EndInv
<1>4. CASE BreakAndStore
  <2>1. callend = "none" /\ callend' # "none" /\ spc' = "ended"
    BY <1>4 DEF BreakAndStore, CallResult, EndInv
  <2>2. EndInv' /\ OrderInv' /\ JoinInv'
    BY <1>4, <2>1 DEF BreakAndStore, EndInv, OrderInv, JoinInv
  <2>3. LineInv'
    BY <1>4, <2>1 DEF BreakAndStore, LineInv
  <2> QED
    BY <2>2, <2>3
<1>5. CASE Sleep
  BY <1>1, <1>5 DEF Sleep, EndInv
<1>6. CASE Wake
  BY <1>1, <1>6 DEF Wake, EndInv
<1>7. ASSUME NEW w \in Writers, Accept(w) \/ RecvEnd(w) PROVE StoreInv'
  BY <1>1, <1>7 DEF Accept, RecvEnd, Handled, EndInv
<1>8. ASSUME NEW w \in Writers, Recv(w) PROVE StoreInv'
  <2>1. PICK n \in RecvCounts(w) : RecvChunk(w, n) \/ RecvRaises(w, n)
    BY <1>8 DEF Recv
  <2>2. spc = "handle" /\ callend = "none" /\ fit = NoFit
    BY <1>8 DEF Recv, EndInv, IInv, FitInv
  <2>3. CASE RecvChunk(w, n)
    BY <2>2, <2>3, StoreChunk
  <2>4. CASE RecvRaises(w, n)
    <3>1. EndInv' /\ UNCHANGED <<workerVars, posted, got, files, order, fit>>
      BY <2>4 DEF RecvRaises, EndInv
    <3> QED
      BY <1>1, <2>2, <3>1
  <2> QED
    BY <2>1, <2>3, <2>4
<1>9. CASE Cancel
  <2>1. /\ EndInv' /\ UNCHANGED <<workerVars, posted, got, files, order, fit>>
        /\ callend = "none"
    BY <1>9 DEF Cancel, EndInv
  <2> QED
    BY <1>1, <2>1
<1> QED
  BY <1>2, <1>3, <1>4, <1>5, <1>6, <1>7, <1>8, <1>9 DEF ServerStep

LEMMA StoreNext == TypeOK /\ IInv /\ StoreInv /\ [Next]_vars => StoreInv'
<1> SUFFICES ASSUME TypeOK, IInv, StoreInv, [Next]_vars PROVE StoreInv'
  OBVIOUS
<1>1. CASE UNCHANGED vars
  BY <1>1 DEF vars, workerVars, serverVars, StoreInv, EndInv, OrderInv,
     JoinInv, LineInv
<1>2. CASE Over
  BY <1>1, <1>2 DEF Over
<1>3. ASSUME NEW s \in Writers \cup {Listener}, Release(s) PROVE StoreInv'
  BY <1>3 DEF Release, workerVars, StoreInv, EndInv, OrderInv, JoinInv, LineInv
<1> QED
  BY <1>1, <1>2, <1>3, StoreWorker, StorePool, StoreServer DEF Next

LEMMA StoreAlways == Spec => []StoreInv
<1>1. Init => StoreInv
  BY StoreInit
<1>2. TypeOK /\ IInv /\ StoreInv /\ [Next]_vars => StoreInv'
  BY StoreNext
<1> QED
  BY <1>1, <1>2, TypeCorrect, InvAlways, PTL DEF Spec
-----------------------------------------------------------------------------
(* Whole lines.                                                            *)

LEMMA StoredIsWhole == TypeOK /\ IInv /\ StoreInv => LinesWhole
<1> SUFFICES ASSUME TypeOK, IInv, StoreInv,
                    fit # NoFit, wpc # "dead", posted # "broken",
                    NEW k \in DOMAIN fit, NEW i \in DOMAIN fit[k],
                    fit[k][i][2] % 2 = 1
             PROVE  /\ i < Len(fit[k])
                    /\ fit[k][i + 1] = <<fit[k][i][1], fit[k][i][2] + 1>>
  BY DEF LinesWhole
<1> USE DEF TypeOK
<1>1. \A w \in Writers : got[w] = sent[w] /\ sent[w] % 2 = 0
  BY DEF IInv, FitInv, FutureInv, WorkerGone, StoreInv, LineInv
<1>2. PICK w \in Writers : fit[k] = Units(w, sent[w])
  <2>1. k \in DOMAIN order /\ fit[k] = files[order[k]]
    BY DEF StoreInv, JoinInv
  <2> QED
    BY <1>1, <2>1 DEF IInv, FilesInv
<1>3. sent[w] \in Nat /\ sent[w] % 2 = 0
  BY <1>1
<1>4. i \in 1..sent[w] /\ fit[k][i] = <<w, i>> /\ i % 2 = 1
  BY <1>2 DEF Units
<1>5. i < sent[w] /\ i + 1 \in 1..sent[w]
  BY <1>3, <1>4, HeadHasTail
<1>6. Len(fit[k]) = sent[w] /\ fit[k][i + 1] = <<w, i + 1>>
  BY <1>2, <1>3, <1>5 DEF Units
<1> QED
  BY <1>4, <1>5, <1>6

\* In every file that is joined to a stored fit the tail of a line follows its
\* head, for any number of writers and whatever the chunks recv returned; only
\* a worker that was killed can leave a torn line.
THEOREM StoredLinesWhole == Spec => []LinesWhole
  BY StoredIsWhole, TypeCorrect, InvAlways, StoreAlways, PTL
-----------------------------------------------------------------------------
(* The call implements FitPromise.                                         *)

LEMMA PromiseStart == Init => Promise!Init
  BY DEF Init, Promise!Init, Writers, Promise!Writers

\* What BreakAndStore stores is what was sent, unless the pool gave up.
LEMMA StoresWhatWasSent ==
  ASSUME TypeOK, IInv, StoreInv, BreakAndStore, posted # "broken"
  PROVE  Promise!HoldsWhatWasSent(fit')
<1> USE DEF TypeOK
<1>1. fdone /\ PotentialReaders = {} /\ spc = "idle"
  BY DEF BreakAndStore, AllReceived
<1>2. ASSUME NEW w \in Writers PROVE got[w] = sent[w]
  <2>1. conn[w] \in {"none", "closed"}
    BY <1>1 DEF PotentialReaders, IInv, IdleInv
  <2> QED
    BY <2>1 DEF IInv, ConnInv, EndSeenLast
<1>3. \A w \in Writers : files[w] = Promise!Sent(w) /\ sent[w] \in Nat
  BY <1>2 DEF IInv, FilesInv, Units, Promise!Sent
<1>4. /\ DOMAIN fit' = DOMAIN order
      /\ \A k \in DOMAIN order : order[k] \in Writers
      /\ \A k \in DOMAIN order : fit'[k] = Promise!Sent(order[k])
  BY <1>3 DEF BreakAndStore
<1>5. \A w \in Writers :
        sent[w] > 0 <=> \E k \in DOMAIN order : order[k] = w
  BY <1>2 DEF StoreInv, OrderInv
<1>6. ASSUME NEW v \in Writers, NEW w \in Writers, sent[v] > 0,
             Promise!Sent(v) = Promise!Sent(w), sent[w] > 0
      PROVE  v = w
  <2>1. Units(v, sent[v]) = Units(w, sent[w])
    BY <1>6 DEF Promise!Sent, Units
  <2>2. sent[v] \in Nat \ {0} /\ sent[w] \in Nat \ {0}
    BY <1>3, <1>6
  <2> QED
    BY <2>1, <2>2, UnitsDiffer
<1>7. \A j, k \in DOMAIN fit' : fit'[j] = fit'[k] => j = k
  <2> SUFFICES ASSUME NEW j \in DOMAIN order, NEW k \in DOMAIN order,
                      fit'[j] = fit'[k]
               PROVE  j = k
    BY <1>4
  <2> DEFINE v == order[j]
             w == order[k]
  <2>1. v \in Writers /\ w \in Writers
    BY <1>4
  <2>2. sent[v] > 0 /\ sent[w] > 0
    BY <1>5, <2>1
  <2>3. Promise!Sent(v) = Promise!Sent(w)
    BY <1>4
  <2> HIDE DEF v, w
  <2>4. v = w
    BY <1>6, <2>1, <2>2, <2>3
  <2> USE DEF v, w
  <2> QED
    BY <2>4 DEF StoreInv, OrderInv
<1>8. Promise!Writers = Writers
  BY DEF Writers, Promise!Writers
<1> QED
  BY <1>4, <1>5, <1>7, <1>8 DEF Promise!HoldsWhatWasSent

\* A step of the call is a step of the promise or changes nothing it shows.
LEMMA PromiseStep ==
  TypeOK /\ TypeOK' /\ IInv /\ StoreInv /\ [Next]_vars
    => [Promise!Next]_(Promise!promiseVars)
<1> SUFFICES ASSUME TypeOK, TypeOK', IInv, StoreInv, [Next]_vars
             PROVE  [Promise!Next]_(Promise!promiseVars)
  OBVIOUS
<1> USE DEF TypeOK
<1>0. Promise!Writers = Writers
  BY DEF Writers, Promise!Writers
<1>1. ASSUME UNCHANGED <<sent, posted, fit, callend>>
      PROVE  [Promise!Next]_(Promise!promiseVars)
  BY <1>1 DEF Promise!promiseVars
<1>2. ASSUME NEW w \in Writers, Send(w) PROVE Promise!Next
  <2>1. posted \in {"none", "broken"}
    BY <1>2 DEF Send, MayWrite, IInv, FutureInv, WorkerGone
  <2>2. Promise!Write(w)
    BY <1>2, <2>1 DEF Send, serverVars, Promise!Write
  <2> QED
    BY <1>0, <2>2 DEF Promise!Next
<1>3. CASE WorkerStep
  <2>1. CASE \E w \in Writers : Send(w)
    BY <1>2, <2>1
  <2>2. CASE ~ \E w \in Writers : Send(w)
    <3>1. UNCHANGED <<sent, posted, fit, callend>>
      BY <1>3, <2>2 DEF WorkerStep, WorkerMoves, SetUp, Connect,
         ConnectThrows, SendThrows,
         StanReturns, Delete, serverVars
    <3> QED
      BY <1>1, <3>1
  <2> QED
    BY <2>1, <2>2
<1>4. CASE WorkerDies \/ PoolTerminates
  BY <1>1, <1>4 DEF WorkerDies, PoolTerminates, serverVars
<1>5. CASE SiblingDies
  BY <1>5 DEF SiblingDies, workerVars, serverVars, Promise!Next, Promise!Decide
<1>6. CASE PostResult
  <2>1. posted' \in {"ok", "error", "exception", "died", "broken"}
    BY <1>6 DEF PostResult, IInv, PhaseInv, Outcomes
  <2> QED
    BY <1>6, <2>1
       DEF PostResult, workerVars, serverVars, Promise!Next, Promise!Decide
<1>7. CASE Cancel
  <2>1. callend = "none"
    BY <1>7 DEF Cancel, StoreInv, EndInv
  <2> QED
    BY <1>7, <2>1 DEF Cancel, workerVars, Promise!Next, Promise!Abandon
<1>8. CASE InlineReturns
  <2>1. callend = "none" /\ posted = "none"
    BY <1>8 DEF InlineReturns, StoreInv, EndInv
  <2>2. CASE res = "exception"
    BY <1>8, <2>1, <2>2
       DEF InlineReturns, workerVars, Promise!Next, Promise!Abandon
  <2>3. CASE res # "exception"
    <3>1. posted' \in {"ok", "error"}
      BY <1>8, <2>3 DEF InlineReturns, IInv, PhaseInv, Outcomes
    <3> QED
      BY <1>8, <2>1, <2>3, <3>1
         DEF InlineReturns, workerVars, Promise!Next, Promise!Decide
  <2> QED
    BY <2>2, <2>3
<1>9. CASE BreakAndStore
  <2>1. callend = "none" /\ posted # "none"
    BY <1>9 DEF BreakAndStore, AllReceived, StoreInv, EndInv, IInv, FutureInv
  <2>2. fit' # NoFit
    <3>1. fit' = [i \in 1..Len(order) |-> files[order[i]]] /\ Len(order) \in Nat
      BY <1>9 DEF BreakAndStore
    <3>2. \A i \in 1..Len(order) : files[order[i]] \in Seq(Writers \X Nat)
      <4>1. \A i \in 1..Len(order) : order[i] \in Writers
        BY ElementOfSeq
      <4> QED
        BY <4>1
    <3>3. fit' \in Seq(Seq(Writers \X Nat))
      BY <3>1, <3>2, PiecesType
    <3> QED
      BY <3>3, ConstantsAssumption DEF Writers
  <2>3. Promise!Deliver
    BY <1>9, <2>1, <2>2, StoresWhatWasSent
       DEF BreakAndStore, CallResult, workerVars, Promise!Deliver
  <2> QED
    BY <2>3 DEF Promise!Next
<1>10. ASSUME NEW w \in Writers, Recv(w)
       PROVE  [Promise!Next]_(Promise!promiseVars)
  <2>1. PICK n \in RecvCounts(w) : RecvChunk(w, n) \/ RecvRaises(w, n)
    BY <1>10 DEF Recv
  <2>2. callend = "none"
    BY <1>10 DEF Recv, StoreInv, EndInv
  <2>3. CASE RecvChunk(w, n)
    BY <1>1, <2>3 DEF RecvChunk, workerVars
  <2>4. CASE RecvRaises(w, n)
    BY <2>2, <2>4 DEF RecvRaises, workerVars, Promise!Next, Promise!Abandon
  <2> QED
    BY <2>1, <2>3, <2>4
<1>11. CASE ServerStep
  <2>1. CASE Select \/ Sleep \/ Wake
    BY <1>1, <2>1 DEF Select, Sleep, Wake, workerVars
  <2>2. ASSUME NEW w \in Writers, Accept(w) \/ RecvEnd(w)
        PROVE  [Promise!Next]_(Promise!promiseVars)
    BY <1>1, <2>2 DEF Accept, RecvEnd, workerVars
  <2> QED
    BY <1>8, <1>9, <1>10, <1>11, <2>1, <2>2 DEF ServerStep
<1>12. CASE Over \/ UNCHANGED vars
  BY <1>1, <1>12 DEF Over, vars, workerVars, serverVars
<1>13. ASSUME NEW s \in Writers \cup {Listener}, Release(s)
       PROVE  [Promise!Next]_(Promise!promiseVars)
  <2>1. UNCHANGED <<sent, posted, fit, callend>>
    BY <1>13 DEF Release, workerVars
  <2> QED
    BY <1>1, <2>1
<1> QED
  BY <1>3, <1>4, <1>5, <1>6, <1>7, <1>11, <1>12, <1>13 DEF Next

\* services_stub.call, with its sockets, its buffers and its select loop,
\* implements the promise: one outcome, and at the end of the call one store
\* of exactly what was sent; an abandoned call stores nothing.
THEOREM CallImplementsPromise == Spec => RefinesPromise
<1>1. Init => Promise!Init
  BY PromiseStart
<1>2. TypeOK /\ TypeOK' /\ IInv /\ StoreInv /\ [Next]_vars
        => [Promise!Next]_(Promise!promiseVars)
  BY PromiseStep
<1> QED
  BY <1>1, <1>2, TypeCorrect, InvAlways, StoreAlways, PTL
     DEF Spec, RefinesPromise, Promise!Spec

\* The invariant of a call: where every byte of a message is between a callback
\* writer and the stored fit, and which of worker, watcher, loop and coroutine
\* may still move, whatever order they and the connections come in.
THEOREM CallHolds == Spec => []CallInv
  BY InvAlways, StoreAlways, PTL DEF CallInv
=============================================================================
