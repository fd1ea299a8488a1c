----------------------------- MODULE Operations -----------------------------
(***************************************************************************)
(* What the service promises of long running operations and fits, without  *)
(* tasks, files or callbacks: an operation has one outcome and keeps it,   *)
(* it ends with a fit only after that fit was stored, one that fails       *)
(* leaves the stored fits alone, and fits go only when clients ask for it. *)
(* It may be stopped with the server, before its outcome is known.         *)
(***************************************************************************)
EXTENDS Naturals

CONSTANTS Calls, FitNames

VARIABLES
  fitOf,    \* the fit name of each operation that was asked for
  outcome,  \* what became of it
  stored    \* the fits that can be downloaded

promiseVars == <<fitOf, outcome, stored>>

Init ==
  /\ fitOf \in [Calls -> FitNames]
  /\ outcome = [c \in Calls |-> "unknown"]
  /\ stored = {}

Becomes(c, from, to) ==
  outcome[c] = from /\ outcome' = [outcome EXCEPT ![c] = to]

Start(c, n) ==
  /\ fitOf' = [fitOf EXCEPT ![c] = n]
  /\ \/ Becomes(c, "unknown", "pending") /\ n \notin stored
     \/ Becomes(c, "unknown", "fit") /\ n \in stored
  /\ UNCHANGED stored

Store(c) ==
  /\ Becomes(c, "pending", "storing")
  /\ stored' = stored \cup {fitOf[c]}
  /\ UNCHANGED fitOf

Finish(c) ==
  /\ Becomes(c, "storing", "fit") \/ Becomes(c, "pending", "error")
  /\ UNCHANGED <<fitOf, stored>>

\* A client deletes fits, or the model they belong to.
Remove ==
  /\ stored' \subseteq stored
  /\ UNCHANGED <<fitOf, outcome>>

Stop(c) ==
  /\ Becomes(c, "pending", "stopped")
  /\ UNCHANGED <<fitOf, stored>>

Next ==
  \/ \E c \in Calls : Store(c) \/ Finish(c) \/ Stop(c)
  \/ \E c \in Calls, n \in FitNames : Start(c, n)
  \/ Remove

Spec == Init /\ [][Next]_promiseVars
=============================================================================
