------------------------- MODULE StderrCapture_proofs -------------------------
(***************************************************************************)
(* Proofs about StderrCapture, for any builds and any number of tools: what*)
(* the capture of descriptor 2 delivers as long as builds do not overlap.  *)
(***************************************************************************)
EXTENDS StderrCapture, TLAPS

\* A tool that runs has been counted.
ToolInv == \A b \in Builds : pc[b] = "tool" => tools[b] > 0

\* What build b returns when its first n tools have reported.
Reports(b, n) == {<<b, i>> : i \in 1..n}

\* Descriptor 2 and the running tool belong to the one build that runs.
CaptureInv ==
  /\ \A a, b \in Running : a = b
  /\ \A b \in Builds :
       /\ pc[b] \in {"redirected", "build", "tool", "read"} => fd2 = b
       /\ pc[b] = "tool" => target[b] = b

\* The file of a build holds what the tools of that build have reported.
ReportInv ==
  \A b \in Builds :
    /\ pc[b] \in {"idle", "saved", "redirected"} => tools[b] = 0 /\ output[b] = {}
    /\ pc[b] = "tool" => held[b] = Reports(b, tools[b] - 1)
    /\ pc[b] \notin {"tool", "over"} => held[b] = Reports(b, tools[b])
    /\ pc[b] \in {"read", "over"} => output[b] = Reports(b, tools[b])

\* What a build gives back is the server's own stderr.
RestoreInv ==
  /\ \A b \in Running : saved[b] = Stderr
  /\ \A b \in Builds : pc[b] = "saved" => fd2 = Stderr
  /\ Running = {} => fd2 = Stderr
-----------------------------------------------------------------------------
(* Lemmas about the data.                                                  *)

LEMMA NoReports == \A b : Reports(b, 0) = {}
  BY DEF Reports

\* One more tool, one more message.
LEMMA OneMoreReport ==
  ASSUME NEW b, NEW n \in Nat, n > 0
  PROVE  Reports(b, n) = Reports(b, n - 1) \cup {<<b, n>>}
<1>1. 1..n = (1..(n - 1)) \cup {n}
  OBVIOUS
<1> QED
  BY <1>1 DEF Reports
-----------------------------------------------------------------------------
(* Type correctness.                                                       *)

LEMMA TypeInit == Init => TypeOK
  BY CaptureAssumption DEF Init, TypeOK, Streams, Messages

LEMMA TypeNext == TypeOK /\ ToolInv /\ [Next]_vars => TypeOK'
<1> SUFFICES ASSUME TypeOK, ToolInv, [Next]_vars PROVE TypeOK'
  OBVIOUS
<1> USE CaptureAssumption DEF TypeOK, Streams, Move
<1>1. ASSUME NEW b \in Builds, SaveStderr(b) PROVE TypeOK'
  BY <1>1 DEF SaveStderr
<1>2. ASSUME NEW b \in Builds, RedirectStderr(b) PROVE TypeOK'
  BY <1>2 DEF RedirectStderr
<1>3. ASSUME NEW b \in Builds, FinalizeOptions(b) PROVE TypeOK'
  BY <1>3 DEF FinalizeOptions
<1>4. ASSUME NEW b \in Builds, StartTool(b) PROVE TypeOK'
  BY <1>4 DEF StartTool
<1>5. ASSUME NEW b \in Builds, ToolReports(b) PROVE TypeOK'
  <2>1. tools[b] \in 1..MaxTools
    BY <1>5 DEF ToolReports, ToolInv
  <2>2. <<b, tools[b]>> \in Messages
    BY <2>1 DEF Messages
  <2>3. held' \in [Streams -> SUBSET Messages]
    BY <1>5, <2>2 DEF ToolReports
  <2> QED
    BY <1>5, <2>3 DEF ToolReports
<1>6. ASSUME NEW b \in Builds, ReadStream(b) PROVE TypeOK'
  BY <1>6 DEF ReadStream, Collected
<1>7. ASSUME NEW b \in Builds, RestoreStderr(b) PROVE TypeOK'
  BY <1>7 DEF RestoreStderr, RestoredTo
<1>8. CASE UNCHANGED vars
  BY <1>8 DEF vars
<1> QED
  BY <1>1, <1>2, <1>3, <1>4, <1>5, <1>6, <1>7, <1>8 DEF Next, AllOver

LEMMA ToolNext == TypeOK /\ ToolInv /\ [Next]_vars => ToolInv'
  BY DEF TypeOK, ToolInv, Next, AllOver, vars, Move, SaveStderr,
     RedirectStderr, FinalizeOptions, StartTool, ToolReports, ReadStream,
     RestoreStderr

\* Every variable keeps its type, for any builds, overlapping or not.
THEOREM CaptureTypes == Spec => [](TypeOK /\ ToolInv)
<1>1. Init => TypeOK /\ ToolInv
  BY TypeInit DEF Init, ToolInv
<1>2. TypeOK /\ ToolInv /\ [Next]_vars => (TypeOK /\ ToolInv)'
  BY TypeNext, ToolNext
<1> QED
  BY <1>1, <1>2, PTL DEF Spec
-----------------------------------------------------------------------------
(* One build at a time.                                                    *)

LEMMA CaptureNext ==
  ~Overlap /\ TypeOK /\ CaptureInv /\ [Next]_vars => CaptureInv'
<1> SUFFICES ASSUME ~Overlap, TypeOK, CaptureInv, [Next]_vars
             PROVE  CaptureInv'
  OBVIOUS
<1> USE DEF TypeOK, Move, CaptureInv
<1>1. ASSUME NEW b \in Builds, SaveStderr(b) PROVE CaptureInv'
  <2>1. Running = {} /\ Running' \subseteq {b}
    BY <1>1 DEF SaveStderr, Running
  <2>2. \A a \in Builds : pc'[a] \in {"idle", "over", "saved"}
    BY <1>1, <2>1 DEF SaveStderr, Running
  <2> QED
    BY <2>1, <2>2
<1>2. ASSUME NEW b \in Builds, b \in Running,
             \A a \in Builds \ {b} : pc'[a] = pc[a] /\ target'[a] = target[a],
             \/ pc'[b] = "over"
             \/ /\ pc'[b] \in {"redirected", "build", "tool", "read"}
                /\ fd2' = b
                /\ pc'[b] = "tool" => target'[b] = b
      PROVE  CaptureInv'
  <2>1. \A a \in Builds \ {b} : pc'[a] \in {"idle", "over"}
    BY <1>2 DEF Running
  <2> QED
    BY <1>2, <2>1 DEF Running
<1>3. ASSUME NEW b \in Builds, RedirectStderr(b) PROVE CaptureInv'
  BY <1>2, <1>3 DEF RedirectStderr, Running
<1>4. ASSUME NEW b \in Builds, FinalizeOptions(b) PROVE CaptureInv'
  BY <1>2, <1>4 DEF FinalizeOptions, Running
<1>5. ASSUME NEW b \in Builds, StartTool(b) PROVE CaptureInv'
  BY <1>2, <1>5 DEF StartTool, Running, Streams
<1>6. ASSUME NEW b \in Builds, ToolReports(b) PROVE CaptureInv'
  BY <1>2, <1>6 DEF ToolReports, Running
<1>7. ASSUME NEW b \in Builds, ReadStream(b) PROVE CaptureInv'
  BY <1>2, <1>7 DEF ReadStream, Running
<1>8. ASSUME NEW b \in Builds, RestoreStderr(b) PROVE CaptureInv'
  BY <1>2, <1>8 DEF RestoreStderr, Running
<1>9. CASE UNCHANGED vars
  BY <1>9 DEF vars, Running
<1> QED
  BY <1>1, <1>3, <1>4, <1>5, <1>6, <1>7, <1>8, <1>9 DEF Next, AllOver

LEMMA ReportInit == Init => ReportInv
  BY NoReports DEF Init, ReportInv, Streams

\* A step of one build leaves the reports of the others as they are, since
\* the tool's messages go to the file of the build that started it.
LEMMA ReportNext ==
  TypeOK /\ ToolInv /\ CaptureInv /\ ReportInv /\ [Next]_vars => ReportInv'
<1> SUFFICES ASSUME TypeOK, ToolInv, CaptureInv, ReportInv, [Next]_vars
             PROVE  ReportInv'
  OBVIOUS
<1> USE DEF TypeOK, Move
<1>1. ASSUME NEW b \in Builds,
             SaveStderr(b) \/ RedirectStderr(b)
      PROVE  ReportInv'
  BY <1>1 DEF SaveStderr, RedirectStderr, ReportInv
<1>2. ASSUME NEW b \in Builds, FinalizeOptions(b) PROVE ReportInv'
  <2>1. tools[b] = 0 /\ output[b] = Reports(b, tools[b])
    BY <1>2, NoReports DEF FinalizeOptions, ReportInv
  <2> QED
    BY <1>2, <2>1 DEF FinalizeOptions, ReportInv
<1>3. ASSUME NEW b \in Builds, StartTool(b) PROVE ReportInv'
  <2>1. /\ tools'[b] - 1 = tools[b] /\ pc'[b] = "tool" /\ pc[b] = "build"
        /\ \A a \in Builds \ {b} : tools'[a] = tools[a] /\ pc'[a] = pc[a]
        /\ held' = held /\ output' = output
    BY <1>3 DEF StartTool
  <2> QED
    BY <2>1 DEF ReportInv
<1>4. ASSUME NEW b \in Builds, ToolReports(b) PROVE ReportInv'
  <2>1. target[b] = b /\ b \in Streams
    BY <1>4 DEF ToolReports, CaptureInv, Streams
  <2>2. /\ held'[b] = held[b] \cup {<<b, tools[b]>>}
        /\ \A a \in Builds \ {b} : held'[a] = held[a] /\ pc'[a] = pc[a]
        /\ tools' = tools /\ output' = output
        /\ pc[b] = "tool" /\ pc'[b] = "build"
    BY <1>4, <2>1 DEF ToolReports, Streams
  <2>3. tools[b] \in Nat /\ tools[b] > 0
    BY <2>2 DEF ToolInv
  <2>4. held'[b] = Reports(b, tools[b])
    BY <2>2, <2>3, OneMoreReport DEF ReportInv
  <2> QED
    BY <2>2, <2>4 DEF ReportInv
<1>5. ASSUME NEW b \in Builds, ReadStream(b) PROVE ReportInv'
  BY <1>5 DEF ReadStream, Collected, ReportInv
<1>6. ASSUME NEW b \in Builds, RestoreStderr(b) PROVE ReportInv'
  BY <1>6 DEF RestoreStderr, ReportInv
<1>7. CASE UNCHANGED vars
  BY <1>7 DEF vars, ReportInv
<1> QED
  BY <1>1, <1>2, <1>3, <1>4, <1>5, <1>6, <1>7 DEF Next, AllOver

LEMMA CaptureAlways == ~Overlap => (Spec => []CaptureInv)
<1> SUFFICES ASSUME ~Overlap PROVE Spec => []CaptureInv
  OBVIOUS
<1>1. Init => CaptureInv
  BY DEF Init, CaptureInv, Running
<1>2. TypeOK /\ CaptureInv /\ [Next]_vars => CaptureInv'
  BY CaptureNext
<1> QED
  BY <1>1, <1>2, CaptureTypes, PTL DEF Spec

\* As long as builds do not overlap, a build returns what its own tools have
\* reported and nothing of another build, even after builds that failed before
\* they pointed the descriptor back.
THEOREM OutputOfOwnTools == ~Overlap => (Spec => []OutputIsOwn)
<1> SUFFICES ASSUME ~Overlap PROVE Spec => []OutputIsOwn
  OBVIOUS
<1>1. Init => ReportInv
  BY ReportInit
<1>2. TypeOK /\ ToolInv /\ CaptureInv /\ ReportInv /\ [Next]_vars => ReportInv'
  BY ReportNext
<1>3. ReportInv => OutputIsOwn
  BY DEF ReportInv, Reports, OutputIsOwn
<1> QED
  BY <1>1, <1>2, <1>3, CaptureTypes, CaptureAlways, PTL DEF Spec
-----------------------------------------------------------------------------
(* The descriptor is pointed back.                                         *)

LEMMA RestoreNext ==
  ~Overlap /\ ~BadConfig /\ TypeOK /\ CaptureInv /\ RestoreInv /\ [Next]_vars
    => RestoreInv'
<1> SUFFICES ASSUME ~Overlap, ~BadConfig, TypeOK, CaptureInv, RestoreInv,
                    [Next]_vars
             PROVE  RestoreInv'
  OBVIOUS
<1> USE DEF TypeOK, Move, RestoreInv
<1>1. ASSUME NEW b \in Builds, SaveStderr(b) PROVE RestoreInv'
  <2>1. Running = {} /\ Running' = {b} /\ fd2 = Stderr
    BY <1>1 DEF SaveStderr, Running
  <2>2. saved'[b] = Stderr /\ fd2' = Stderr
    BY <1>1, <2>1 DEF SaveStderr
  <2> QED
    BY <2>1, <2>2
<1>2. ASSUME NEW b \in Builds, b \in Running, pc'[b] \notin {"saved", "over"},
             pc'[b] # "idle", UNCHANGED saved,
             \A a \in Builds \ {b} : pc'[a] = pc[a]
      PROVE  RestoreInv'
  <2>1. b \in Running' /\ Running' \subseteq Running
    BY <1>2 DEF Running
  <2>2. \A a \in Builds : pc'[a] # "saved"
    BY <1>2 DEF CaptureInv, Running
  <2> QED
    BY <1>2, <2>1, <2>2
<1>3. ASSUME NEW b \in Builds, RedirectStderr(b) PROVE RestoreInv'
  BY <1>2, <1>3 DEF RedirectStderr, Running
<1>4. ASSUME NEW b \in Builds, FinalizeOptions(b) PROVE RestoreInv'
  BY <1>2, <1>4 DEF FinalizeOptions, Running
<1>5. ASSUME NEW b \in Builds, StartTool(b) \/ ToolReports(b) \/ ReadStream(b)
      PROVE  RestoreInv'
  BY <1>2, <1>5 DEF StartTool, ToolReports, ReadStream, Running
<1>6. ASSUME NEW b \in Builds, RestoreStderr(b) PROVE RestoreInv'
  <2>1. b \in Running /\ saved[b] = Stderr
    BY <1>6 DEF RestoreStderr, Running
  <2>2. fd2' = Stderr /\ saved' = saved
    BY <1>6, <2>1 DEF RestoreStderr, RestoredTo
  <2>3. Running' \subseteq Running
    BY <1>6 DEF RestoreStderr, Running
  <2> QED
    BY <2>2, <2>3
<1>7. CASE UNCHANGED vars
  BY <1>7 DEF vars, Running
<1> QED
  BY <1>1, <1>3, <1>4, <1>5, <1>6, <1>7 DEF Next, AllOver

\* As long as builds do not overlap and the options can be finalized, the
\* server's messages go to its own stderr whenever no build runs, whatever the
\* tools of a build end with.
THEOREM StderrIsRestored ==
  ~Overlap /\ ~BadConfig => (Spec => []StderrRestored)
<1> SUFFICES ASSUME ~Overlap, ~BadConfig PROVE Spec => []StderrRestored
  OBVIOUS
<1>1. Init => RestoreInv
  BY DEF Init, RestoreInv, Running
<1>2. TypeOK /\ CaptureInv /\ RestoreInv /\ [Next]_vars => RestoreInv'
  BY RestoreNext
<1>3. RestoreInv => StderrRestored
  BY DEF RestoreInv, StderrRestored
<1> QED
  BY <1>1, <1>2, <1>3, CaptureTypes, CaptureAlways, PTL DEF Spec
=============================================================================
