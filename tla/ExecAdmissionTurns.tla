-------------------------- MODULE ExecAdmissionTurns --------------------------
(***************************************************************************)
(* The turns of the executions in take_input's round robin.  The tracker   *)
(* itself does not record who was served while an execution waited; this   *)
(* module adds that history to ExecAdmission and changes nothing else.     *)
(***************************************************************************)
EXTENDS ExecAdmission

VARIABLES
  passed,     \* history: <<x, y>> when y was served since x last had its turn
  overtaken   \* history: the executions some other one was served twice before

turnVars == <<policy, active, session, pending, ready, conn, kicked, hand, forwarded,
              passed, overtaken>>

TurnsInit == Init /\ passed = {} /\ overtaken = {}

\* take_input offers the first k + 1 chunks to the transport, which refuses k
\* of them and takes the last.  Whoever was offered has had its turn.
Waits(x, k) == HasPending(x) /\ \A i \in 1..Len(ready) : i <= k + 1 => ready[i] /= x

TakeTurn(k) ==
  /\ TakeInput(k)
  /\ LET waiting == {x \in Ids : Waits(x, k)}
         taken   == {ready[i] : i \in {j \in 1..Len(ready) : j = k + 1}}
     IN  /\ passed' = {p \in passed : p[1] \in waiting} \cup (waiting \X taken)
         /\ overtaken' = overtaken \cup {x \in waiting : \E y \in taken : <<x, y>> \in passed}

\* Who has nothing queued waits for nobody.
NoTurn == /\ passed' = {p \in passed : HasPending(p[1])'}
          /\ UNCHANGED overtaken

TurnsNext ==
  \/ \E c \in Clients : ClientStep(c) /\ NoTurn
  \/ \E id \in Ids : GuestStep(id) /\ NoTurn
  \/ \E k \in 0..Len(ready) : TakeTurn(k)

TurnsSpec == TurnsInit /\ [][TurnsNext]_turnVars

-----------------------------------------------------------------------------
\* Round robin: while an execution waits with stdin queued, no other one is
\* served twice, however fast the others write, whatever the transport
\* refuses, and whoever else is admitted, cancelled or ends meanwhile.
NobodyOvertaken == overtaken = {}
=============================================================================
