---------------------------- MODULE StderrCapture ----------------------------
(***************************************************************************)
(* How a build captures the compiler's messages (run_build_ext in          *)
(* build_ext.py): descriptor 2 belongs to the whole process, and the build *)
(* thread points it at a temporary file, runs compiler and linker, which   *)
(* inherit it, reads the file and points the descriptor back.              *)
(*                                                                         *)
(* Builds run in threads, so their steps interleave.  A file is named      *)
(* after the build that opened it; it keeps what is written to it as long  *)
(* as a descriptor refers to it, whether or not anybody reads it again.    *)
(***************************************************************************)
EXTENDS Naturals, FiniteSets

CONSTANTS
  Builds,    \* builds, one thread each
  MaxTools,  \* bound: compilers and linkers a build starts
  Overlap,   \* whether two builds may run at the same time
  BadConfig, \* whether finalize_options may raise
  Stderr     \* what descriptor 2 refers to when the server starts

ASSUME CaptureAssumption ==
  MaxTools \in Nat /\ {Overlap, BadConfig} \subseteq BOOLEAN /\ Stderr \notin Builds

VARIABLES
  pc,      \* where a build is
  fd2,     \* the file descriptor 2 refers to
  saved,   \* orig_stderr of a build
  held,    \* the messages each file has been sent
  tools,   \* tools a build has started
  target,  \* the file a build's running tool has as its descriptor 2
  output   \* what run_build_ext returns

vars == <<pc, fd2, saved, held, tools, target, output>>

Streams == Builds \cup {Stderr}
Messages == Builds \X (1..MaxTools)

TypeOK ==
  /\ pc \in [Builds -> {"idle", "saved", "redirected", "build", "tool",
                     "read", "over"}]
  /\ fd2 \in Streams
  /\ saved \in [Builds -> Streams] /\ target \in [Builds -> Streams]
  /\ held \in [Streams -> SUBSET Messages]
  /\ tools \in [Builds -> 0..MaxTools]
  /\ output \in [Builds -> SUBSET Messages]

Init ==
  /\ pc = [b \in Builds |-> "idle"]
  /\ fd2 = Stderr
  /\ saved = [b \in Builds |-> Stderr]
  /\ target = [b \in Builds |-> Stderr]
  /\ held = [f \in Streams |-> {}]
  /\ tools = [b \in Builds |-> 0]
  /\ output = [b \in Builds |-> {}]

Running == {b \in Builds : pc[b] \notin {"idle", "over"}}

Move(b, from, to) == pc[b] = from /\ pc' = [pc EXCEPT ![b] = to]

\* orig_stderr = os.dup(stderr_fileno)
SaveStderr(b) ==
  /\ Overlap \/ Running = {}
  /\ Move(b, "idle", "saved")
  /\ saved' = [saved EXCEPT ![b] = fd2]
  /\ UNCHANGED <<fd2, held, tools, target, output>>

\* os.dup2(stream.fileno(), stderr_fileno)
RedirectStderr(b) ==
  /\ Move(b, "saved", "redirected")
  /\ fd2' = b
  /\ UNCHANGED <<saved, held, tools, target, output>>

\* finalize_options returns, or raises what a distutils configuration causes;
\* it is outside of the try.
FinalizeOptions(b) ==
  /\ \/ Move(b, "redirected", "build")
     \/ BadConfig /\ Move(b, "redirected", "over")
  /\ UNCHANGED <<fd2, saved, held, tools, target, output>>

\* build_extension.run() starts a compiler or the linker ...
StartTool(b) ==
  /\ tools[b] < MaxTools
  /\ Move(b, "build", "tool")
  /\ tools' = [tools EXCEPT ![b] = @ + 1]
  /\ target' = [target EXCEPT ![b] = fd2]
  /\ UNCHANGED <<fd2, saved, held, output>>

\* ... which reports something and ends.
ToolReports(b) ==
  /\ Move(b, "tool", "build")
  /\ held' = [held EXCEPT ![target[b]] = @ \cup {<<b, tools[b]>>}]
  /\ UNCHANGED <<fd2, saved, tools, target, output>>

\* Plausible slips: the stream is not rewound, or is itself returned.
NotRewound(b) == {}
NotRead(b) == {b}
\* stream.seek(0); stream.read()
Collected(b) == held[b]

\* The finally block, whether run() returned or raised: read and close ...
ReadStream(b) ==
  /\ Move(b, "build", "read")
  /\ output' = [output EXCEPT ![b] = Collected(b)]
  /\ UNCHANGED <<fd2, saved, held, tools, target>>

\* Plausible slip: the descriptor is not pointed back.
NotRestored(b) == fd2
RestoredTo(b) == saved[b]

\* ... and os.dup2(orig_stderr, sys.stderr.fileno()).
RestoreStderr(b) ==
  /\ Move(b, "read", "over")
  /\ fd2' = RestoredTo(b)
  /\ UNCHANGED <<saved, held, tools, target, output>>

AllOver == (\A b \in Builds : pc[b] = "over") /\ UNCHANGED vars

Next ==
  \/ \E b \in Builds :
       \/ SaveStderr(b) \/ RedirectStderr(b) \/ FinalizeOptions(b)
       \/ StartTool(b) \/ ToolReports(b) \/ ReadStream(b) \/ RestoreStderr(b)
  \/ AllOver

Spec == Init /\ [][Next]_vars
-----------------------------------------------------------------------------
(* Properties.                                                             *)

\* build_ext.py:92, "restore": when no build is running the server's own
\* messages go to its stderr again.
StderrRestored == Running = {} => fd2 = Stderr

\* build_ext.py:26, "All messages sent to stderr will be saved and returned":
\* a build returns what its own tools reported, and nothing of another build.
OutputIsOwn ==
  \A b \in Builds : pc[b] \in {"read", "over"} =>
    output[b] = {<<b, i>> : i \in 1..tools[b]}
=============================================================================
