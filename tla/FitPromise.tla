----------------------------- MODULE FitPromise -----------------------------
(***************************************************************************)
(* What services_stub.call promises, without sockets, buffers or select:   *)
(* writers send units, the call gets one final outcome, and at its end it  *)
(* stores in one step exactly what was sent, each writer's units together  *)
(* and in the order they were sent.  It returns only if the outcome was    *)
(* "ok".  A call may also be abandoned, and then it stores nothing.        *)
(***************************************************************************)
EXTENDS Naturals, Sequences

CONSTANTS NWriters, NoFit

VARIABLES sent, posted, fit, callend

promiseVars == <<sent, posted, fit, callend>>

Writers == 1..NWriters

Init ==
  /\ sent = [w \in Writers |-> 0]
  /\ posted = "none" /\ fit = NoFit /\ callend = "none"

\* "broken": the pool gave the call up while its worker was still running.
Write(w) ==
  /\ posted \in {"none", "broken"}
  /\ sent' = [sent EXCEPT ![w] = @ + 1]
  /\ UNCHANGED <<posted, fit, callend>>

Decide ==
  /\ posted = "none"
  /\ posted' \in {"ok", "error", "exception", "died", "broken"}
  /\ UNCHANGED <<sent, fit, callend>>

\* A fit has one piece for each writer that has sent something: its units in
\* the order they were sent.  The pieces may be in any order.
Sent(w) == [i \in 1..sent[w] |-> <<w, i>>]
HoldsWhatWasSent(f) ==
  /\ \A w \in Writers : sent[w] > 0 => \E k \in DOMAIN f : f[k] = Sent(w)
  /\ \A k \in DOMAIN f : \E w \in Writers : sent[w] > 0 /\ f[k] = Sent(w)
  /\ \A j, k \in DOMAIN f : f[j] = f[k] => j = k

Deliver ==
  /\ callend = "none" /\ posted # "none" /\ fit' # NoFit
  /\ posted = "broken" \/ HoldsWhatWasSent(fit')
  /\ callend' = IF posted = "ok" THEN "returned" ELSE "raised"
  /\ UNCHANGED <<sent, posted>>

Abandon ==
  /\ callend = "none" /\ callend' \in {"raised", "cancelled"}
  /\ UNCHANGED <<sent, fit>>
  /\ posted' = posted

Next == Decide \/ Deliver \/ Abandon \/ \E w \in Writers : Write(w)

Spec == Init /\ [][Next]_promiseVars
=============================================================================
