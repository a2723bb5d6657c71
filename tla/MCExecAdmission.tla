--------------------------- MODULE MCExecAdmission ---------------------------
(* Small instances of the execution tracker. *)
EXTENDS ExecAdmissionTurns, TLC

CONSTANTS c1, x1, x2, x3

\* Three executions of one client.
OneClient == (x1 :> c1) @@ (x2 :> c1) @@ (x3 :> c1)

\* No action tells the executions apart.
Alike == Permutations(Ids)

\* What was forwarded to an execution that has ended is never read again:
\* Admit clears it.  States that differ only there are explored once.
Seen == <<policy, active, session, pending, ready, conn, kicked, hand,
          [id \in active |-> forwarded[id]], passed, overtaken>>
=============================================================================
