------------------------- MODULE ServicesCall_proofs -------------------------
(***************************************************************************)
(* Proofs about ServicesCall, for any number of writers and lines and any  *)
(* buffer sizes: type correctness, and that a stored fit holds every unit  *)
(* that was sent.                                                          *)
(***************************************************************************)
EXTENDS ServicesCall, SequenceTheorems, TLAPS

\* How the worker's progress shows in its ends of the connections.
PhaseInv ==
  /\ wpc = "queued" => nxt = 1 /\ \A w \in Writers : wend[w] = "none"
  /\ wpc = "connect" => \A w \in Writers :
       wend[w] = IF w < nxt THEN "open" ELSE "none"
  /\ wpc = "run" => nxt = 1 /\ \A w \in Writers : wend[w] = "open"
  /\ wpc = "close" => \A w \in Writers :
       wend[w] = IF w < nxt THEN "closed" ELSE "open"
  /\ wpc \in {"close", "exit"} => res # "none"

\* The two ends of a connection, and what has been received from it.
ConnInv ==
  \A w \in Writers :
    /\ conn[w] = "none" <=> wend[w] = "none"
    /\ conn[w] = "none" => sent[w] = 0
    /\ got[w] <= sent[w]

FilesInv == \A w \in Writers : files[w] = Units(w, got[w])

\* A result other than the pool's giving up is there only after the worker.
FutureInv ==
  /\ posted \notin {"none", "broken"} => WorkerGone
  /\ fdone => posted # "none"

\* Once the future is done a select that finds nothing leaves no connection
\* in the backlog.
IdleInv ==
  spc = "idle" /\ fdone /\ posted # "broken" =>
    \A w \in Writers : conn[w] # "pending"

FitInv ==
  fit # NoFit =>
    /\ spc = "ended" /\ callend # "none" /\ posted # "none"
    /\ posted # "broken" => \A w \in Writers : got[w] = sent[w]

IInv ==
  /\ PhaseInv /\ ConnInv /\ EndSeenLast /\ FilesInv
  /\ FutureInv /\ IdleInv /\ FitInv
-----------------------------------------------------------------------------
(* Lemmas about the data.                                                  *)

\* A file that holds the first m units of a writer holds the first m + n
\* after the next n are appended: what RecvChunk relies on.
LEMMA UnitsAppend ==
  ASSUME NEW w, NEW m \in Nat, NEW n \in Nat
  PROVE  Units(w, m) \o [i \in 1..n |-> <<w, m + i>>] = Units(w, m + n)
<1> DEFINE S == {w} \X Nat
           s == Units(w, m)
           t == [i \in 1..n |-> <<w, m + i>>]
           u == Units(w, m + n)
<1>1. s \in Seq(S) /\ Len(s) = m /\ u \in Seq(S) /\ Len(u) = m + n
  <2>1. s \in [1..m -> S] /\ u \in [1..(m + n) -> S]
    BY DEF Units
  <2> QED
    BY <2>1
<1>2. t \in Seq(S) /\ Len(t) = n
  <2>1. t \in [1..n -> S]
    OBVIOUS
  <2> QED
    BY <2>1
<1>3. ASSUME NEW i \in 1..(m + n)
      PROVE  (IF i <= m THEN s[i] ELSE t[i - m]) = u[i]
  BY DEF Units
<1> HIDE DEF S, s, t, u
<1>4. /\ s \o t \in Seq(S)
      /\ Len(s \o t) = m + n
      /\ \A i \in 1..(m + n) : (s \o t)[i] = IF i <= m THEN s[i] ELSE t[i - m]
  BY <1>1, <1>2, ConcatProperties
<1>5. s \o t = u
  BY <1>1, <1>3, <1>4, SeqEqual
<1> QED
  BY <1>5 DEF s, t, u

-----------------------------------------------------------------------------
(* Type correctness.                                                       *)

LEMMA TypeInit == Init => TypeOK
<1> SUFFICES ASSUME Init PROVE TypeOK
  OBVIOUS
<1>1. files \in [Writers -> Seq(Writers \X Nat)] /\ order \in Seq(Writers)
  BY EmptySeq DEF Init
<1>2. 1 \in Writers
  BY ConstantsAssumption DEF Writers
<1> QED
  BY <1>1, <1>2 DEF Init, TypeOK, Outcomes

LEMMA TypeNext == TypeOK /\ [Next]_vars => TypeOK'
<1> SUFFICES ASSUME TypeOK, [Next]_vars PROVE TypeOK'
  OBVIOUS
<1> USE ConstantsAssumption
        DEF TypeOK, Outcomes, workerVars, serverVars
<1>1. CASE UNCHANGED vars
  BY <1>1 DEF vars
<1>2. CASE WorkerStep
  <2>1. CASE SetUp
    BY <2>1 DEF SetUp, WorkerReturns
  <2>2. CASE Connect
    BY <2>2, SMTT(30) DEF Connect, Writers
  <2>3. CASE ConnectThrows
    BY <2>3 DEF ConnectThrows, WorkerReturns
  <2>4. ASSUME NEW w \in Writers, SendThrows(w) PROVE TypeOK'
    BY <2>4 DEF SendThrows
  <2>5. CASE StanReturns
    BY <2>5 DEF StanReturns
  <2>6. CASE Delete
    <3>1. nxt' \in Writers
      BY <2>6 DEF Delete, AfterDelete, Writers
    <3> QED
      BY <2>6, <3>1 DEF Delete
  <2>7. ASSUME NEW w \in Writers, Send(w) PROVE TypeOK'
    BY <2>7, SMTT(30) DEF Send
  <2> QED
    BY <1>2, <2>1, <2>2, <2>3, <2>4, <2>5, <2>6, <2>7
       DEF WorkerStep, WorkerMoves
<1>3. CASE ServerStep
  <2>1. CASE InlineReturns
    BY <2>1 DEF InlineReturns
  <2>2. CASE Select
    BY <2>2 DEF Select, Readable, PotentialReaders
  <2>3. CASE BreakAndStore
    <3>1. \A i \in 1..Len(order) : files[order[i]] \in Seq(Writers \X Nat)
      BY SMTT(30)
    <3>2. [i \in 1..Len(order) |-> files[order[i]]]
            \in [1..Len(order) -> Seq(Writers \X Nat)]
      BY <3>1
    <3>3. fit' \in Seq(Seq(Writers \X Nat))
      BY <2>3, <3>2, SeqDef, SMTT(30) DEF BreakAndStore
    <3> QED
      BY <2>3, <3>3 DEF BreakAndStore, CallResult
  <2>4. CASE Sleep
    BY <2>4 DEF Sleep
  <2>5. CASE Wake
    BY <2>5 DEF Wake
  <2>6. ASSUME NEW w \in Writers, Accept(w) PROVE TypeOK'
    BY <2>6, SMTT(30) DEF Accept, Handled
  <2>7. ASSUME NEW w \in Writers, RecvEnd(w) PROVE TypeOK'
    BY <2>7 DEF RecvEnd, AtEnd, Handled
  <2>8. ASSUME NEW w \in Writers, NEW n \in RecvCounts(w), RecvChunk(w, n)
        PROVE  TypeOK'
    <3>1. n \in Nat
      BY DEF RecvCounts
    <3>2. [i \in 1..n |-> <<w, got[w] + i>>] \in Seq(Writers \X Nat)
      <4>1. [i \in 1..n |-> <<w, got[w] + i>>] \in [1..n -> Writers \X Nat]
        BY <3>1
      <4> QED
        BY <3>1, <4>1, SeqDef
    <3>3. files' \in [Writers -> Seq(Writers \X Nat)]
      BY <2>8, <3>2, ConcatProperties DEF RecvChunk, FileOf
    <3>4. order' \in Seq(Writers)
      BY <2>8 DEF RecvChunk, FileOf
    <3>5. got' \in [Writers -> Nat]
      BY <2>8, <3>1 DEF RecvChunk
    <3>6. /\ spc' \in {"inline", "select", "handle", "idle", "sleep", "ended"}
          /\ todo' \subseteq Writers \cup {Listener}
      BY <2>8 DEF RecvChunk, Handled
    <3>7. UNCHANGED <<workerVars, posted, gone, fdone, conn, fit, callend>>
      BY <2>8 DEF RecvChunk
    <3>8. /\ posted' \in Outcomes \cup {"none", "died", "broken"}
          /\ fit' = NoFit \/ fit' \in Seq(Seq(Writers \X Nat))
          /\ conn' \in [Writers -> {"none", "pending", "open", "closed"}]
          /\ fdone' \in BOOLEAN
          /\ callend' \in {"none", "returned", "raised", "cancelled"}
          /\ gone' \subseteq Writers \cup {Listener}
      BY <3>7
    <3>9. /\ wpc' \in {"queued", "connect", "run", "close", "exit", "dead"}
          /\ nxt' \in Writers
          /\ wend' \in [Writers -> {"none", "open", "closed"}]
          /\ sent' \in [Writers -> Nat]
          /\ res' \in Outcomes \cup {"none"}
      BY <3>7
    <3> QED
      BY <3>3, <3>4, <3>5, <3>6, <3>8, <3>9
  <2>9. ASSUME NEW w \in Writers, NEW n \in RecvCounts(w), RecvRaises(w, n)
        PROVE  TypeOK'
    BY <2>9 DEF RecvRaises
  <2> QED
    BY <1>3, <2>1, <2>2, <2>3, <2>4, <2>5, <2>6, <2>7, <2>8, <2>9
       DEF ServerStep, Recv
<1>4. CASE WorkerDies
  BY <1>4 DEF WorkerDies, ProcessGone
<1>5. CASE SiblingDies
  BY <1>5 DEF SiblingDies
<1>6. CASE PoolTerminates
  BY <1>6 DEF PoolTerminates, ProcessGone
<1>7. CASE PostResult
  BY <1>7 DEF PostResult
<1>8. CASE Cancel
  BY <1>8 DEF Cancel
<1>9. CASE Over
  BY <1>9 DEF Over, vars
<1>10. ASSUME NEW s \in Writers \cup {Listener}, Release(s) PROVE TypeOK'
  BY <1>10 DEF Release
<1> QED
  BY <1>1, <1>2, <1>3, <1>4, <1>5, <1>6, <1>7, <1>8, <1>9, <1>10 DEF Next

\* Every variable keeps its type in every reachable state, for any number of
\* writers and lines and any buffer sizes.
THEOREM TypeCorrect == Spec => []TypeOK
<1>1. Init => TypeOK
  BY TypeInit
<1>2. TypeOK /\ [Next]_vars => TypeOK'
  BY TypeNext
<1> QED
  BY <1>1, <1>2, PTL DEF Spec
-----------------------------------------------------------------------------
(* No message is lost.                                                     *)

LEMMA InvInit == Init => IInv
<1> SUFFICES ASSUME Init PROVE IInv
  OBVIOUS
<1>1. FilesInv
  <2>1. \A w : Units(w, 0) = <<>>
    BY DEF Units
  <2> QED
    BY <2>1 DEF FilesInv, Init
<1>2. PhaseInv /\ ConnInv /\ EndSeenLast
  BY DEF Init, PhaseInv, ConnInv, EndSeenLast
<1>3. FutureInv /\ IdleInv /\ FitInv
  BY DEF Init, FutureInv, IdleInv, FitInv
<1> QED
  BY <1>1, <1>2, <1>3 DEF IInv

\* What a step of the worker may change: it never touches what the server
\* holds, and it moves no connection and sends nothing once it is gone.
LEMMA InvWorker ==
  ASSUME TypeOK, IInv, WorkerStep
  PROVE  IInv'
<1> USE ConstantsAssumption DEF TypeOK, IInv, workerVars, serverVars
<1>1. CASE SetUp
  <2>1. PhaseInv'
    BY <1>1 DEF SetUp, WorkerReturns, PhaseInv, Writers
  <2>2. (ConnInv /\ EndSeenLast /\ FilesInv /\ IdleInv /\ FitInv)'
    BY <1>1 DEF SetUp, ConnInv, EndSeenLast, FilesInv, IdleInv, FitInv
  <2>3. FutureInv'
    BY <1>1 DEF SetUp, FutureInv, WorkerGone
  <2> QED
    BY <2>1, <2>2, <2>3
<1>2. CASE Connect
  <2>1. PhaseInv'
    <3>1. \A w \in Writers : wend[w] = IF w < nxt THEN "open" ELSE "none"
      BY <1>2 DEF Connect, PhaseInv
    <3>2. /\ wend' = [wend EXCEPT ![nxt] = "open"] /\ res' = res
          /\ nxt' = (IF nxt = NWriters THEN 1 ELSE nxt + 1)
          /\ wpc' = (IF nxt = NWriters THEN "run" ELSE "connect")
      BY <1>2 DEF Connect
    <3>3. \A w \in Writers : wend'[w] = IF w <= nxt THEN "open" ELSE "none"
      BY <3>1, <3>2 DEF Writers
    <3>4. CASE nxt = NWriters
      BY <3>2, <3>3, <3>4 DEF PhaseInv, Writers
    <3>5. CASE nxt # NWriters
      BY <3>2, <3>3, <3>5 DEF PhaseInv, Writers
    <3> QED
      BY <3>4, <3>5
  <2>2. ConnInv'
    BY <1>2 DEF Connect, ConnInv, PhaseInv, Writers
  <2>3. EndSeenLast'
    BY <1>2 DEF Connect, EndSeenLast
  <2>4. FilesInv'
    BY <1>2 DEF Connect, FilesInv
  <2>5. ~WorkerGone /\ posted \in {"none", "broken"}
    BY <1>2 DEF Connect, WorkerGone, FutureInv
  <2>6. FutureInv' /\ IdleInv' /\ FitInv'
    BY <1>2, <2>5 DEF Connect, FutureInv, IdleInv, FitInv
  <2> QED
    BY <2>1, <2>2, <2>3, <2>4, <2>6
<1>3. CASE ConnectThrows
  <2>1. PhaseInv'
    BY <1>3 DEF ConnectThrows, WorkerReturns, PhaseInv
  <2>2. (ConnInv /\ EndSeenLast /\ FilesInv /\ IdleInv /\ FitInv)'
    BY <1>3 DEF ConnectThrows, ConnInv, EndSeenLast, FilesInv, IdleInv, FitInv
  <2>3. FutureInv'
    BY <1>3 DEF ConnectThrows, WorkerReturns, FutureInv, WorkerGone
  <2> QED
    BY <2>1, <2>2, <2>3
<1>4. ASSUME NEW w \in Writers, SendThrows(w) PROVE IInv'
  <2>1. PhaseInv'
    BY <1>4 DEF SendThrows, MayWrite, PhaseInv, Writers
  <2>2. (ConnInv /\ EndSeenLast /\ FilesInv /\ IdleInv /\ FitInv)'
    BY <1>4 DEF SendThrows, ConnInv, EndSeenLast, FilesInv, IdleInv, FitInv
  <2>3. FutureInv'
    BY <1>4 DEF SendThrows, MayWrite, FutureInv, WorkerGone
  <2> QED
    BY <2>1, <2>2, <2>3
<1>5. CASE StanReturns
  <2>1. PhaseInv'
    BY <1>5 DEF StanReturns, PhaseInv, Writers, Outcomes
  <2>2. (ConnInv /\ EndSeenLast /\ FilesInv /\ IdleInv /\ FitInv)'
    BY <1>5 DEF StanReturns, ConnInv, EndSeenLast, FilesInv, IdleInv, FitInv
  <2>3. FutureInv'
    BY <1>5 DEF StanReturns, FutureInv, WorkerGone
  <2> QED
    BY <2>1, <2>2, <2>3
<1>6. CASE Delete
  <2>1. PhaseInv'
    BY <1>6 DEF Delete, AfterDelete, PhaseInv, Writers
  <2>2. ConnInv'
    BY <1>6 DEF Delete, ConnInv, PhaseInv, Writers
  <2>3. EndSeenLast'
    BY <1>6 DEF Delete, EndSeenLast
  <2>4. (FilesInv /\ IdleInv /\ FitInv)'
    BY <1>6 DEF Delete, FilesInv, IdleInv, FitInv
  <2>5. FutureInv'
    BY <1>6 DEF Delete, FutureInv, WorkerGone
  <2> QED
    BY <2>1, <2>2, <2>3, <2>4, <2>5
<1>7. ASSUME NEW w \in Writers, Send(w) PROVE IInv'
  <2>1. wend[w] = "open" /\ conn[w] # "none"
    BY <1>7 DEF Send, MayWrite, PhaseInv, ConnInv
  <2>2. ConnInv' /\ EndSeenLast'
    <3>1. /\ sent' = [sent EXCEPT ![w] = @ + 1]
          /\ UNCHANGED <<wend, conn, got>>
      BY <1>7 DEF Send
    <3>2. \A v \in Writers : got[v] \in Nat /\ sent[v] \in Nat
      OBVIOUS
    <3>3. \A v \in Writers : sent'[v] = IF v = w THEN sent[v] + 1 ELSE sent[v]
      BY <3>1
    <3>4. ConnInv'
      BY <2>1, <3>1, <3>2, <3>3 DEF ConnInv
    <3>5. EndSeenLast'
      BY <2>1, <3>1, <3>3 DEF EndSeenLast
    <3> QED
      BY <3>4, <3>5
  <2>3. (PhaseInv /\ FilesInv /\ FutureInv /\ IdleInv)'
    BY <1>7 DEF Send, PhaseInv, FilesInv, FutureInv, IdleInv, WorkerGone
  <2>4. posted \in {"none", "broken"}
    BY <1>7 DEF Send, MayWrite, FutureInv, WorkerGone
  <2>5. FitInv'
    BY <1>7, <2>4 DEF Send, FitInv
  <2> QED
    BY <2>2, <2>3, <2>5
<1> QED
  BY <1>1, <1>2, <1>3, <1>4, <1>5, <1>6, <1>7 DEF WorkerStep, WorkerMoves

\* The pool: a killed process closes its ends, a posted result stays.
LEMMA InvPool ==
  ASSUME TypeOK, IInv,
         WorkerDies \/ SiblingDies \/ PoolTerminates \/ PostResult
  PROVE  IInv'
<1> USE DEF TypeOK, IInv, workerVars, serverVars
<1>1. ASSUME ProcessGone, UNCHANGED <<nxt, sent, res, posted, serverVars>>
      PROVE  IInv'
  <2>1. PhaseInv' /\ ConnInv' /\ EndSeenLast'
    BY <1>1 DEF ProcessGone, PhaseInv, ConnInv, EndSeenLast
  <2>2. (FilesInv /\ FutureInv /\ IdleInv /\ FitInv)'
    BY <1>1 DEF ProcessGone, FilesInv, FutureInv, IdleInv, FitInv, WorkerGone
  <2> QED
    BY <2>1, <2>2
<1>2. ASSUME posted = "none", posted' # "none",
             posted' # "broken" => WorkerGone,
             UNCHANGED <<workerVars, serverVars>>
      PROVE  IInv'
  <2>1. (PhaseInv /\ ConnInv /\ EndSeenLast /\ FilesInv)'
    BY <1>2 DEF PhaseInv, ConnInv, EndSeenLast, FilesInv
  <2>2. (FutureInv /\ IdleInv /\ FitInv)'
    BY <1>2 DEF FutureInv, IdleInv, FitInv, WorkerGone
  <2> QED
    BY <2>1, <2>2
<1>3. CASE WorkerDies
  BY <1>1, <1>3 DEF WorkerDies
<1>4. CASE PoolTerminates
  BY <1>1, <1>4 DEF PoolTerminates
<1>5. CASE SiblingDies
  BY <1>2, <1>5 DEF SiblingDies
<1>6. CASE PostResult
  BY <1>2, <1>6 DEF PostResult, PhaseInv, WorkerGone
<1> QED
  BY <1>3, <1>4, <1>5, <1>6

\* The coroutine: reading moves units from the buffers to the files, and the
\* loop ends only when nothing is left to read.
LEMMA InvServer ==
  ASSUME TypeOK, IInv, ServerStep
  PROVE  IInv'
<1> USE DEF TypeOK, IInv, workerVars, serverVars
<1>1. CASE InlineReturns
  <2>1. (PhaseInv /\ ConnInv /\ EndSeenLast /\ FilesInv)'
    BY <1>1 DEF InlineReturns, PhaseInv, ConnInv, EndSeenLast, FilesInv
  <2>2. (FutureInv /\ IdleInv /\ FitInv)'
    BY <1>1 DEF InlineReturns, PhaseInv, FutureInv, IdleInv, FitInv, WorkerGone
  <2> QED
    BY <2>1, <2>2
<1>2. CASE Select
  <2>1. (PhaseInv /\ ConnInv /\ EndSeenLast /\ FilesInv /\ FutureInv)'
    BY <1>2 DEF Select, PhaseInv, ConnInv, EndSeenLast, FilesInv, FutureInv,
       WorkerGone
  <2>2. IdleInv'
    BY <1>2 DEF Select, Readable, IdleInv
  <2>3. FitInv'
    BY <1>2 DEF Select, FitInv
  <2> QED
    BY <2>1, <2>2, <2>3
<1>3. CASE BreakAndStore
  <2>1. (PhaseInv /\ ConnInv /\ EndSeenLast /\ FilesInv /\ FutureInv)'
    BY <1>3 DEF BreakAndStore, PhaseInv, ConnInv, EndSeenLast, FilesInv,
       FutureInv, WorkerGone
  <2>2. IdleInv'
    BY <1>3 DEF BreakAndStore, IdleInv
  <2>3. posted # "broken" => \A w \in Writers : got[w] = sent[w]
    <3> SUFFICES ASSUME posted # "broken", NEW w \in Writers
                 PROVE  got[w] = sent[w]
      OBVIOUS
    <3>1. conn[w] \in {"none", "closed"}
      BY <1>3 DEF BreakAndStore, AllReceived, PotentialReaders, IdleInv
    <3> QED
      BY <3>1 DEF ConnInv, EndSeenLast
  <2>4. FitInv'
    BY <1>3, <2>3
       DEF BreakAndStore, AllReceived, CallResult, FutureInv, FitInv
  <2> QED
    BY <2>1, <2>2, <2>4
<1>4. CASE Sleep
  BY <1>4 DEF Sleep, PhaseInv, ConnInv, EndSeenLast, FilesInv, FutureInv,
     IdleInv, FitInv, WorkerGone
<1>5. CASE Wake
  BY <1>5 DEF Wake, PhaseInv, ConnInv, EndSeenLast, FilesInv, FutureInv,
     IdleInv, FitInv, WorkerGone
<1>6. ASSUME NEW w \in Writers, Accept(w) PROVE IInv'
  <2>1. ConnInv' /\ EndSeenLast'
    BY <1>6 DEF Accept, ConnInv, EndSeenLast
  <2>2. spc' # "idle" /\ fit = NoFit
    BY <1>6 DEF Accept, Handled, FitInv
  <2>3. (PhaseInv /\ FilesInv /\ FutureInv /\ IdleInv /\ FitInv)'
    BY <1>6, <2>2 DEF Accept, PhaseInv, FilesInv, FutureInv, IdleInv, FitInv,
       WorkerGone
  <2> QED
    BY <2>1, <2>3
<1>7. ASSUME NEW w \in Writers, RecvEnd(w) PROVE IInv'
  <2>1. ConnInv' /\ EndSeenLast'
    BY <1>7 DEF RecvEnd, AtEnd, ConnInv, EndSeenLast
  <2>2. spc' # "idle" /\ fit = NoFit
    BY <1>7 DEF RecvEnd, AtEnd, Handled, FitInv
  <2>3. (PhaseInv /\ FilesInv /\ FutureInv /\ IdleInv /\ FitInv)'
    BY <1>7, <2>2 DEF RecvEnd, AtEnd, PhaseInv, FilesInv, FutureInv, IdleInv, FitInv,
       WorkerGone
  <2> QED
    BY <2>1, <2>3
<1>8. ASSUME NEW w \in Writers, spc = "handle",
             NEW n \in RecvCounts(w), RecvChunk(w, n)
      PROVE  IInv'
  <2>1. n \in Nat /\ n > 0 /\ got[w] + n <= sent[w]
    BY ConstantsAssumption DEF RecvCounts
  <2>2. ConnInv' /\ EndSeenLast'
    BY <1>8, <2>1 DEF RecvChunk, ConnInv, EndSeenLast
  <2>3. FilesInv'
    <3>1. files'[w] = Units(w, got[w] + n)
      <4>1. files'[w] = files[w] \o [i \in 1..n |-> <<w, got[w] + i>>]
        BY <1>8 DEF RecvChunk, FileOf
      <4>2. files[w] = Units(w, got[w]) /\ got[w] \in Nat
        BY DEF FilesInv
      <4> QED
        BY <4>1, <4>2, <2>1, UnitsAppend
    <3>2. \A v \in Writers \ {w} : files'[v] = files[v] /\ got'[v] = got[v]
      BY <1>8 DEF RecvChunk, FileOf
    <3>3. got'[w] = got[w] + n
      BY <1>8 DEF RecvChunk
    <3> QED
      BY <3>1, <3>2, <3>3, ZenonT(30) DEF FilesInv, Units
  <2>4. spc' # "idle" /\ fit = NoFit
    BY <1>8 DEF RecvChunk, Handled, FitInv
  <2>5. (PhaseInv /\ FutureInv /\ IdleInv /\ FitInv)'
    BY <1>8, <2>4 DEF RecvChunk, PhaseInv, FutureInv, IdleInv, FitInv,
       WorkerGone
  <2> QED
    BY <2>2, <2>3, <2>5
<1>9. ASSUME NEW w \in Writers, spc = "handle",
             NEW n \in RecvCounts(w), RecvRaises(w, n)
      PROVE  IInv'
  BY <1>9 DEF RecvRaises, PhaseInv, ConnInv, EndSeenLast, FilesInv, FutureInv,
     IdleInv, FitInv, WorkerGone
<1> QED
  BY <1>1, <1>2, <1>3, <1>4, <1>5, <1>6, <1>7, <1>8, <1>9
     DEF ServerStep, Recv

LEMMA InvNext == TypeOK /\ IInv /\ [Next]_vars => IInv'
<1> SUFFICES ASSUME TypeOK, IInv, [Next]_vars PROVE IInv'
  OBVIOUS
<1>1. CASE UNCHANGED vars
  BY <1>1 DEF vars, workerVars, serverVars, IInv, PhaseInv, ConnInv,
     EndSeenLast, FilesInv, FutureInv, IdleInv, FitInv, WorkerGone
<1>2. CASE Cancel
  BY <1>2 DEF Cancel, workerVars, IInv, PhaseInv, ConnInv, EndSeenLast,
     FilesInv, FutureInv, IdleInv, FitInv, WorkerGone
<1>3. CASE Over
  BY <1>1, <1>3 DEF Over
<1>4. ASSUME NEW s \in Writers \cup {Listener}, Release(s) PROVE IInv'
  BY <1>4 DEF Release, workerVars, IInv, PhaseInv, ConnInv, EndSeenLast,
     FilesInv, FutureInv, IdleInv, FitInv, WorkerGone
<1> QED
  BY <1>1, <1>2, <1>3, <1>4, InvWorker, InvPool, InvServer DEF Next

LEMMA InvAlways == Spec => []IInv
<1>1. Init => IInv
  BY InvInit
<1>2. TypeOK /\ IInv /\ [Next]_vars => IInv'
  BY InvNext
<1> QED
  BY <1>1, <1>2, TypeCorrect, PTL DEF Spec

\* Whatever the interleaving of worker, pool and coroutine and whatever fails,
\* a stored fit holds every unit that every writer sent, in order.
THEOREM NothingLost == Spec => []NoLostMessages
<1>1. IInv => NoLostMessages
  BY DEF IInv, FitInv, FilesInv, NoLostMessages, Units
<1> QED
  BY <1>1, InvAlways, PTL

\* The server never takes a connection for ended before it has read all of it.
THEOREM EndsSeenLast == Spec => []EndSeenLast
<1>1. IInv => EndSeenLast
  BY DEF IInv
<1> QED
  BY <1>1, InvAlways, PTL
=============================================================================
