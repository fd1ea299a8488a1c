---------------------------- MODULE ServicesCall ----------------------------
(***************************************************************************)
(* One call of services_stub.call: the coroutine that runs a stan::services*)
(* function in a worker process and collects what its callback writers     *)
(* send over a Unix-domain socket.                                         *)
(*                                                                         *)
(* Three processes take part.  The worker (stan_services.cpp) connects one *)
(* client per callback writer, lets Stan write lines, destroys the writers *)
(* and returns.  The process pool posts the worker's result to the event   *)
(* loop.  The coroutine accepts and reads with select() until it believes  *)
(* that everything has arrived, stores the fit and returns or raises.      *)
(*                                                                         *)
(* A line is sent as two units (its head and its tail), 2j-1 and 2j for    *)
(* the j-th line of a writer: enough to tell a whole line from a torn one. *)
(***************************************************************************)
EXTENDS Naturals, Sequences, FiniteSets, SequencesExt

CONSTANTS
  NWriters,       \* callback writers; the code has 4, the logger first
  MaxLines,       \* bound: lines Stan writes to one writer
  BufferUnits,    \* bound: units the kernel buffers for one connection
  RecvUnits,      \* units recv(8192) returns at most
  IterLines,      \* the logger's lines that report sampling progress
  ThrowAt,        \* writers whose constructor may throw
  WorkerMayDie,   \* whether the worker process may be killed
  SiblingMayDie,  \* whether another process of the pool may be killed
  MayCancel,      \* whether the task may be cancelled (shutdown)
  DebugMode,      \* HTTPSTAN_DEBUG: the function runs in the event loop
  NoFit           \* no fit is stored

ASSUME ConstantsAssumption ==
  /\ NWriters \in Nat \ {0} /\ MaxLines \in Nat
  /\ BufferUnits \in Nat \ {0} /\ RecvUnits \in Nat \ {0}
  /\ IterLines \subseteq Nat \ {0} /\ ThrowAt \subseteq 1..NWriters
  /\ {WorkerMayDie, SiblingMayDie, MayCancel, DebugMode} \subseteq BOOLEAN
  /\ NoFit \notin Seq(Seq((1..NWriters) \X Nat))
  /\ DebugMode => ~WorkerMayDie /\ ~SiblingMayDie  \* there is no pool

VARIABLES
  wpc,      \* where the worker is
  nxt,      \* the writer the worker constructs or destroys next
  wend,     \* the worker's end of each connection
  sent,     \* units each writer has sent
  res,      \* what the stan::services wrapper returned
  posted,   \* the result of the concurrent future, as the pool sets it
  spc,      \* where the coroutine is
  fdone,    \* future.done(), as the coroutine sees it
  todo,     \* members of `readable` not handled yet
  conn,     \* the server's end of each connection
  got,      \* units received from each writer
  files,    \* messages_files
  order,    \* the keys of messages_files, first message first
  fit,      \* the stored fit, or NoFit
  callend,  \* how the call ended
  gone      \* sockets of the server that no process holds any more

workerVars == <<wpc, nxt, wend, sent, res>>
serverVars ==
  <<spc, fdone, todo, conn, got, files, order, fit, callend, gone>>
vars == <<workerVars, posted, serverVars>>

Writers == 1..NWriters
Logger == 1
Listener == 0
Outcomes == {"ok", "error", "exception"}
\* Plausible slip: room for one waiting connection.
ShortBacklog == 0
\* listen(4): three callback writers and one callback logger
Backlog == NWriters
\* The first n units of writer w.
Units(w, n) == [i \in 1..n |-> <<w, i>>]

TypeOK ==
  /\ wpc \in {"queued", "connect", "run", "close", "exit", "dead"}
  /\ nxt \in Writers
  /\ wend \in [Writers -> {"none", "open", "closed"}]
  /\ sent \in [Writers -> Nat] /\ got \in [Writers -> Nat]
  /\ res \in Outcomes \cup {"none"}
  /\ posted \in Outcomes \cup {"none", "died", "broken"}
  /\ spc \in {"inline", "select", "handle", "idle", "sleep", "ended"}
  /\ fdone \in BOOLEAN
  /\ todo \subseteq Writers \cup {Listener}
  /\ conn \in [Writers -> {"none", "pending", "open", "closed"}]
  /\ files \in [Writers -> Seq(Writers \X Nat)]
  /\ order \in Seq(Writers)
  /\ fit = NoFit \/ fit \in Seq(Seq(Writers \X Nat))
  /\ callend \in {"none", "returned", "raised", "cancelled"}
  /\ gone \subseteq Writers \cup {Listener}

Init ==
  /\ wpc = "queued" /\ nxt = 1 /\ res = "none" /\ posted = "none"
  /\ wend = [w \in Writers |-> "none"] /\ conn = [w \in Writers |-> "none"]
  /\ sent = [w \in Writers |-> 0] /\ got = [w \in Writers |-> 0]
  /\ spc = IF DebugMode THEN "inline" ELSE "select"
  /\ fdone = FALSE /\ todo = {}
  /\ files = [w \in Writers |-> <<>>] /\ order = <<>>
  /\ fit = NoFit /\ callend = "none" /\ gone = {}
-----------------------------------------------------------------------------
(* The worker: the wrapper function of the services extension module.      *)

\* The kernel hangs a connection up when no process holds the server's end
\* of it: its own socket, or the listener's if it was not accepted.
HungUp(w) == w \in gone \/ (conn[w] = "pending" /\ Listener \in gone)

\* Plausible slip: write_all retries after every error, not only after EINTR.
ErrorRetried(w) == FALSE
\* EPIPE or ECONNRESET: write_all throws.
SendFails(w) == HungUp(w)

\* Stan may write to w next: a line is finished before another is begun.
MayWrite(w) ==
  /\ wpc = "run" /\ sent[w] < 2 * MaxLines
  /\ \A v \in Writers \ {w} : sent[v] % 2 = 0

\* A line for w waits for room in the buffer.
Blocks(w) ==
  MayWrite(w) /\ ~HungUp(w) /\ sent[w] - got[w] >= BufferUnits

WorkerReturns(r) == wpc' = "exit" /\ res' = r

\* Importing the module, converting arguments, building data and model.
SetUp ==
  /\ wpc = "queued"
  /\ \/ wpc' = "connect" /\ res' = res
     \/ WorkerReturns("exception")
  /\ UNCHANGED <<nxt, wend, sent, posted, serverVars>>

\* new socket_logger, then new socket_writer three times: connect().
Connect ==
  /\ wpc = "connect" /\ Listener \notin gone
  /\ Cardinality({w \in Writers : conn[w] = "pending"}) <= Backlog
  /\ wend' = [wend EXCEPT ![nxt] = "open"]
  /\ conn' = [conn EXCEPT ![nxt] = "pending"]
  /\ nxt' = IF nxt = NWriters THEN 1 ELSE nxt + 1
  /\ wpc' = IF nxt = NWriters THEN "run" ELSE "connect"
  /\ UNCHANGED <<sent, res, posted, spc, fdone, todo, got, files, order, fit,
                 callend, gone>>

\* A constructor throws outside the wrapper's try: the writers constructed
\* before it are raw pointers that nobody deletes, so they stay open.
ConnectThrows ==
  /\ wpc = "connect" /\ (nxt \in ThrowAt \/ Listener \in gone)
  /\ WorkerReturns("exception")
  /\ UNCHANGED <<nxt, wend, sent, posted, serverVars>>

\* send_line blocks while the buffer is full; one thread writes one line at
\* a time, whichever writer it goes to.
Send(w) ==
  /\ MayWrite(w) /\ ~HungUp(w)
  /\ sent[w] - got[w] < BufferUnits
  /\ sent' = [sent EXCEPT ![w] = @ + 1]
  /\ UNCHANGED <<wpc, nxt, wend, res, posted, serverVars>>

\* write_all throws, the wrapper catches.
SendThrows(w) ==
  /\ MayWrite(w) /\ SendFails(w)
  /\ wpc' = "close" /\ res' = "exception"
  /\ UNCHANGED <<nxt, wend, sent, posted, serverVars>>

\* stan::services returns a code or throws.
StanReturns ==
  /\ wpc = "run"
  /\ \A w \in Writers : sent[w] % 2 = 0
  /\ wpc' = "close" /\ res' \in Outcomes
  /\ UNCHANGED <<nxt, wend, sent, posted, serverVars>>

\* Plausible slip: one writer too many is deleted.
DeletePastEnd == nxt + 1
AfterDelete == IF nxt = NWriters THEN nxt ELSE nxt + 1

\* delete logger; delete init_writer; ...: close(), then return or rethrow.
Delete ==
  /\ wpc = "close"
  /\ wend' = [wend EXCEPT ![nxt] = "closed"]
  /\ nxt' = AfterDelete
  /\ wpc' = IF nxt = NWriters THEN "exit" ELSE "close"
  /\ UNCHANGED <<sent, res, posted, serverVars>>

\* What the worker does by itself, Stan's decision to return left aside.
WorkerMoves ==
  \/ SetUp \/ Connect \/ ConnectThrows \/ Delete
  \/ \E w \in Writers : Send(w) \/ SendThrows(w)

WorkerStep == WorkerMoves \/ StanReturns
-----------------------------------------------------------------------------
(* The pool: concurrent.futures.ProcessPoolExecutor.                       *)

\* The kernel closes what a killed process had open.
ProcessGone ==
  /\ wpc' = "dead"
  /\ wend' = [w \in Writers |-> IF wend[w] = "open" THEN "closed" ELSE wend[w]]

WorkerDies ==
  /\ WorkerMayDie /\ wpc \notin {"queued", "dead"}
  /\ ProcessGone
  /\ UNCHANGED <<nxt, sent, res, posted, serverVars>>

\* A death of any process of the pool fails every future that has no result
\* yet with BrokenProcessPool, and only then are the other workers killed.
SiblingDies ==
  /\ SiblingMayDie /\ posted = "none"
  /\ posted' = "broken"
  /\ UNCHANGED <<workerVars, serverVars>>

PoolTerminates ==
  /\ posted = "broken" /\ wpc # "dead"
  /\ ProcessGone
  /\ UNCHANGED <<nxt, sent, res, posted, serverVars>>

PostResult ==
  /\ ~DebugMode /\ posted = "none" /\ wpc \in {"exit", "dead"}
  /\ posted' = IF wpc = "exit" THEN res ELSE "died"
  /\ UNCHANGED <<workerVars, serverVars>>
-----------------------------------------------------------------------------
(* The coroutine.                                                          *)

\* future.set_result(lazy_function_wrapper_partial()) in debug mode: the
\* event loop waits for the function itself, which may also throw.
InlineReturns ==
  /\ spc = "inline" /\ wpc = "exit"
  /\ IF res = "exception"
     THEN callend' = "raised" /\ spc' = "ended" /\ UNCHANGED <<posted, fdone>>
     ELSE spc' = "select" /\ posted' = res /\ fdone' = TRUE
          /\ callend' = callend
  /\ UNCHANGED <<workerVars, todo, conn, got, files, order, fit, gone>>

PotentialReaders == {w \in Writers : conn[w] = "open"}

Readable ==
  {w \in PotentialReaders : got[w] < sent[w] \/ wend[w] = "closed"}
    \cup (IF \E w \in Writers : conn[w] = "pending" THEN {Listener} ELSE {})

\* select.select(potential_readers, [], [], 0.01)
Select ==
  /\ spc = "select"
  /\ todo' = Readable
  /\ spc' = IF Readable = {} THEN "idle" ELSE "handle"
  /\ UNCHANGED <<workerVars, posted, gone, fdone, conn, got, files, order, fit,
                 callend>>

\* One member of `readable` has been handled.
Handled(s) ==
  /\ todo' = todo \ {s}
  /\ spc' = IF todo = {s} THEN "select" ELSE "handle"

Accept(w) ==
  /\ spc = "handle" /\ Listener \in todo
  /\ conn[w] = "pending"
  /\ conn' = [conn EXCEPT ![w] = "open"]
  /\ Handled(Listener)
  /\ UNCHANGED <<workerVars, posted, gone, fdone, got, files, order, fit,
                 callend>>

\* Plausible slip: a hang-up counts as the end, whatever is still unread.
HangUpIsEnd(w) == wend[w] = "closed"
\* len(message) == 0: recv finds nothing more and the other end closed.
AtEnd(w) == got[w] = sent[w] /\ wend[w] = "closed"

\* `close` called on other end.
RecvEnd(w) ==
  /\ spc = "handle" /\ w \in todo
  /\ AtEnd(w)
  /\ conn' = [conn EXCEPT ![w] = "closed"]
  /\ Handled(w)
  /\ UNCHANGED <<workerVars, posted, gone, fdone, got, files, order, fit,
                 callend>>

\* The numbers of units of writer w that one recv may return.
RecvCounts(w) == {n \in 1..RecvUnits : got[w] + n <= sent[w]}

\* logger_callback: the chunk names an iteration, yet the regular expression
\* finds none that is whole, and pop() of an empty list raises IndexError.
CallbackRaises(w, n) ==
  LET chunk == got[w] + 1 .. got[w] + n
  IN /\ w = Logger
     /\ \E j \in IterLines : 2 * j - 1 \in chunk
     /\ \A j \in IterLines : ~({2 * j - 1, 2 * j} \subseteq chunk)

\* Plausible slip: all connections share one file.
SharedFile(w) == Logger
\* messages_files has one file per connection.
FileOf(w) == w

RecvChunk(w, n) ==
  /\ ~CallbackRaises(w, n)
  /\ files' = [files EXCEPT
                 ![FileOf(w)] = @ \o [i \in 1..n |-> <<w, got[w] + i>>]]
  /\ order' = IF FileOf(w) \in ToSet(order) THEN order
              ELSE Append(order, FileOf(w))
  /\ got' = [got EXCEPT ![w] = @ + n]
  /\ Handled(w)
  /\ UNCHANGED <<workerVars, posted, gone, fdone, conn, fit, callend>>

\* The exception leaves call(): nothing is stored.
RecvRaises(w, n) ==
  /\ CallbackRaises(w, n)
  /\ callend' = "raised" /\ spc' = "ended" /\ todo' = {}
  /\ UNCHANGED <<workerVars, posted, gone, fdone, conn, got, files, order,
                 fit>>

Recv(w) ==
  /\ spc = "handle" /\ w \in todo
  /\ \E n \in RecvCounts(w) : RecvChunk(w, n) \/ RecvRaises(w, n)

\* Plausible slips in the test that ends the loop.
OnlyNoReaders == PotentialReaders = {}
OnlyWithResult == PotentialReaders = {} /\ fdone /\ posted \in Outcomes
\* potential_readers == [socket_] and future.done()
AllReceived == PotentialReaders = {} /\ fdone

\* Plausible slip: the return code is not looked at.
CodeIgnored == IF posted \in {"ok", "error"} THEN "returned" ELSE "raised"
\* An exception or a non-zero code is raised.
CallResult == IF posted = "ok" THEN "returned" ELSE "raised"

\* The loop ends: the files are joined and stored, and the result is read,
\* all without an await.
BreakAndStore ==
  /\ spc = "idle" /\ AllReceived
  /\ fit' = [i \in 1..Len(order) |-> files[order[i]]]
  /\ callend' = CallResult
  /\ spc' = "ended"
  /\ UNCHANGED <<workerVars, posted, gone, fdone, todo, conn, got, files,
                 order>>

\* await asyncio.sleep(0.001)
Sleep ==
  /\ spc = "idle" /\ ~AllReceived
  /\ spc' = "sleep"
  /\ UNCHANGED <<workerVars, posted, gone, fdone, todo, conn, got, files,
                 order, fit, callend>>

\* While the coroutine sleeps the event loop runs the callback that marks the
\* future done, if the pool has posted a result.
Wake ==
  /\ spc = "sleep"
  /\ spc' = "select" /\ fdone' = (posted # "none")
  /\ UNCHANGED <<workerVars, posted, gone, todo, conn, got, files, order, fit,
                 callend>>

Cancel ==
  /\ MayCancel /\ spc = "sleep"
  /\ spc' = "ended" /\ callend' = "cancelled"
  /\ UNCHANGED <<workerVars, posted, gone, fdone, todo, conn, got, files,
                 order, fit>>

ServerStep ==
  \/ InlineReturns \/ Select \/ BreakAndStore \/ Sleep \/ Wake
  \/ \E w \in Writers : Accept(w) \/ RecvEnd(w) \/ Recv(w)

\* The end of `with` closes the listener, and nothing but the collection of
\* the call's frame closes an accepted connection of a call that raised or was
\* cancelled.  Worker processes forked in between hold copies of both, so a
\* socket may be gone at any moment after the end, or never.
Release(s) ==
  /\ callend # "none" /\ s \notin gone
  /\ s = Listener \/ s \in PotentialReaders
  /\ gone' = gone \cup {s}
  /\ UNCHANGED <<workerVars, posted, spc, fdone, todo, conn, got, files, order,
                 fit, callend>>

\* The worker has returned, or its process is gone.
WorkerGone == wpc \in {"exit", "dead"}

\* The worker waits for a reader that an abandoned call no longer is.
LeftBlocked ==
  callend \in {"raised", "cancelled"} /\ \E w \in Writers : Blocks(w)

\* The call has ended, and the worker is free or blocked for good: nothing
\* need happen any more.
Over ==
  /\ callend # "none" /\ (WorkerGone \/ LeftBlocked)
  /\ UNCHANGED vars

Next ==
  \/ WorkerStep \/ ServerStep
  \/ WorkerDies \/ SiblingDies \/ PoolTerminates \/ PostResult \/ Cancel
  \/ Over \/ \E s \in Writers \cup {Listener} : Release(s)

Spec == Init /\ [][Next]_vars

\* The worker keeps taking steps, and Stan's function ends unless the line it
\* wants to write may be blocked; the event loop and the pool's management
\* thread keep running.  Nothing makes a socket of an ended call go.
Fairness ==
  /\ WF_vars(WorkerMoves) /\ WF_vars(ServerStep)
  /\ WF_vars(StanReturns /\ ~ \E w \in Writers : Blocks(w))
  /\ WF_vars(PostResult) /\ WF_vars(PoolTerminates)

FairSpec == Spec /\ Fairness
-----------------------------------------------------------------------------
(* Properties.                                                             *)

\* The hazard of services_stub.py:144-149: the loop must not end while a
\* message is on its way.  Whatever the outcome (success, error code, C++
\* exception, death of the worker), a stored fit holds every unit that every
\* writer sent, in order.  Only when the pool gave up the future while the
\* worker was still running may it hold less; the fit is deleted then.
NoLostMessages ==
  fit # NoFit /\ posted # "broken" =>
    \A w \in Writers : files[w] = Units(w, sent[w])

\* A fit is read line by line (one JSON document per line): although the
\* lines of four writers arrive interleaved and in pieces, in every file that
\* is joined to the stored fit the tail of a line follows its head, unless the
\* worker was killed.
LinesWhole ==
  fit # NoFit /\ wpc # "dead" /\ posted # "broken" =>
    \A k \in DOMAIN fit : \A i \in DOMAIN fit[k] :
      fit[k][i][2] % 2 = 1 =>
        /\ i < Len(fit[k])
        /\ fit[k][i + 1] = <<fit[k][i][1], fit[k][i][2] + 1>>

\* A connection whose end the server has seen was read to the last unit, at
\* every moment and not only when the call ends.
EndSeenLast ==
  \A w \in Writers : conn[w] = "closed" =>
    wend[w] = "closed" /\ got[w] = sent[w]

\* The call refines what FitPromise promises.
Promise == INSTANCE FitPromise
  WITH sent <- sent, posted <- posted, fit <- fit, callend <- callend
RefinesPromise == Promise!Spec

\* Every call ends: returns, raises or is cancelled (the operation that waits
\* for it becomes done), whatever fails.
CallEnds == <>(callend # "none")

\* A call that raised or was cancelled leaves its worker alone with sockets
\* that may be collected at any time, one by one, or never.  In the end the
\* worker is given back to the pool, unless it is blocked in send() on a
\* connection that some process still holds: nothing else can keep it, be it
\* between two connects, in the middle of a line or before its first step.
WorkerFreed == <>[](WorkerGone \/ LeftBlocked)

\* views.py:414: "When sampling completes rapidly, multiple iteration messages
\* can be passed together. Use final one."  There always is a final one: the
\* logger callback does not raise.
CallbackFindsIteration ==
  \A w \in todo \ {Listener} : spc = "handle" =>
    \A n \in RecvCounts(w) : ~CallbackRaises(w, n)
=============================================================================
