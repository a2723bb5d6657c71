------------------------------ MODULE MCExecFlow ------------------------------
(* Small instances of the end-to-end execution flow. *)
EXTENDS ExecFlow, TLC

CONSTANTS c1, x1

OneCall == x1 :> c1

InSomeOrder(S) ==
  CHOOSE s \in [1..Cardinality(S) -> S] : \A i, j \in DOMAIN s : s[i] = s[j] => i = j
=============================================================================
