---------------------------- MODULE ExecAdmission ----------------------------
(***************************************************************************)
(* The relay's execution tracker: crates/runtime/lib/runner/relay/         *)
(* exec_admission.rs, with the call sites of relay.rs that decide when its *)
(* operations run.  One tracker is shared by the reader task of every SDK  *)
(* client, by the reader of the guest's output and by the writer of the    *)
(* guest's input; each operation holds the tracker's lock, so each is one  *)
(* atomic step, and two operations of one task are two steps.              *)
(*                                                                         *)
(* Clients and guest are unconstrained here: they may send any length and  *)
(* any acknowledgement.  ExecFlow replaces them by the real ones.          *)
(***************************************************************************)
EXTENDS Naturals, Sequences, FiniteSets

CONSTANTS
  Clients,        \* relay client slots
  Ids,            \* execution correlation IDs
  Owner,          \* Owner[id]: the slot whose ID range holds id
  MaxExecutions,  \* ExecLimits.max_executions
  InputLimit,     \* ExecLimits.input_limit
  OutputLimit,    \* ExecLimits.output_limit
  StdinChunk,     \* ExecLimits.stdin_chunk_size
  OutputChunk,    \* ExecLimits.output_chunk_size
  Overhead,       \* EXEC_OUTPUT_EVENT_OVERHEAD
  MaxOffset       \* bound: no cumulative offset passes it

\* ExecLimits::validate, without the frame ceiling.
ASSUME LimitsAssumption ==
  /\ MaxExecutions \in Nat \ {0}
  /\ StdinChunk \in Nat \ {0} /\ InputLimit \in Nat /\ StdinChunk <= InputLimit
  /\ OutputChunk \in Nat \ {0} /\ OutputLimit \in Nat /\ Overhead \in Nat
  /\ OutputChunk + Overhead <= OutputLimit

ASSUME BoundAssumption == MaxOffset \in Nat

ASSUME OwnerAssumption == IsFiniteSet(Ids) /\ Owner \in [Ids -> Clients]

VARIABLES
  policy,     \* State.policy.is_some()
  active,     \* keys of State.sessions
  session,    \* State.sessions, a default record for the absent keys
  pending,    \* Session.pending_input
  ready,      \* State.ready_inputs
  conn,       \* how far the client's reader task has got
  kicked,     \* the client's disconnect watch channel
  hand,       \* stdin charged by client_message and not yet enqueued
  forwarded   \* history: what take_input has passed to the guest, per execution

vars == <<policy, active, session, pending, ready, conn, kicked, hand, forwarded>>

-----------------------------------------------------------------------------
\* A queued chunk holds the stdin bytes (from, to]; from = to is EOF.  It is
\* open while PendingInput.payload is Some: later writes may join it.
Chunk == {k \in [from : Nat, to : Nat, open : BOOLEAN] : k.from <= k.to}

Session == [input_closed : BOOLEAN, started : BOOLEAN, eof : BOOLEAN,
            input_sent : Nat, input_consumed : Nat,
            output_sent : Nat, output_consumed : Nat]

NewSession == [input_closed |-> FALSE, started |-> FALSE, eof |-> FALSE,
               input_sent |-> 0, input_consumed |-> 0,
               output_sent |-> 0, output_consumed |-> 0]

\* The stages of client_reader_task: reading frames, out of the loop, input
\* cancelled, gone from the routing map, slot released.
ReaderStages == {"free", "open", "broken", "cancelled", "draining"}

Idle == [id |-> "none", from |-> 0, to |-> 0]
Hand == {h \in [id : Ids, from : Nat, to : Nat] : h.from <= h.to} \cup {Idle}

RangeOf(c) == {id \in Ids : Owner[id] = c}

\* The reader takes its next frame only when it has dealt with the last one.
Reading(c) == conn[c] = "open" /\ hand[c] = Idle

Init ==
  /\ policy \in BOOLEAN
  /\ active = {}
  /\ session = [id \in Ids |-> NewSession]
  /\ pending = [id \in Ids |-> <<>>]
  /\ ready = <<>>
  /\ conn = [c \in Clients |-> "free"]
  /\ kicked = [c \in Clients |-> FALSE]
  /\ hand = [c \in Clients |-> Idle]
  /\ forwarded = [id \in Ids |-> [bytes |-> 0, eof |-> FALSE]]

-----------------------------------------------------------------------------
(* Client side: one reader task per connection. *)

Accept(c) ==
  /\ conn[c] = "free"
  /\ conn' = [conn EXCEPT ![c] = "open"]
  /\ kicked' = [kicked EXCEPT ![c] = FALSE]
  /\ UNCHANGED <<policy, active, session, pending, ready, hand, forwarded>>

\* admit() refused a correlation that is already active, client_message()
\* returned an error, the socket ended or the watch channel fired: the frame
\* loop ends and the cleanup after it begins.
Break(c) ==
  /\ conn' = [conn EXCEPT ![c] = "broken"]
  /\ UNCHANGED <<policy, active, session, pending, ready, kicked, hand, forwarded>>

LeaveLoop(c) == Reading(c) /\ Break(c)

\* Mutant: the limit is compared one too late.
FullOneLate == Cardinality(active) > MaxExecutions

Full == Cardinality(active) >= MaxExecutions

\* Admission::Accepted.  Full answers the client with a failure and Legacy
\* forwards the request; neither touches the tracker.
Admit(c, id) ==
  /\ Reading(c) /\ Owner[id] = c /\ policy
  /\ id \notin active /\ ~Full
  /\ active' = active \cup {id}
  /\ session' = [session EXCEPT ![id] = NewSession]
  /\ pending' = [pending EXCEPT ![id] = <<>>]
  /\ forwarded' = [forwarded EXCEPT ![id] = [bytes |-> 0, eof |-> FALSE]]
  /\ UNCHANGED <<policy, ready, conn, kicked, hand>>

AdmitTwice(c, id) ==
  /\ Reading(c) /\ Owner[id] = c /\ policy
  /\ id \in active
  /\ Break(c)

StdinAllowed(s, n) ==
  /\ s.started /\ ~s.eof
  /\ n <= StdinChunk
  /\ s.input_sent + n - s.input_consumed <= InputLimit

Charged(s, n) ==
  LET charged == [s EXCEPT !.input_sent = @ + n]
  IN  [charged EXCEPT !.eof = (n = 0)]

\* client_message, ExecStdin: charge the allowance, keep the length in hand.
ClientStdin(c, id, n) ==
  /\ Reading(c) /\ Owner[id] = c /\ id \in active
  /\ StdinAllowed(session[id], n)
  /\ session[id].input_sent + n <= MaxOffset
  /\ session' = [session EXCEPT ![id] = Charged(@, n)]
  /\ hand' = [hand EXCEPT ![c] = [id |-> id, from |-> session[id].input_sent,
                                  to |-> session[id].input_sent + n]]
  /\ UNCHANGED <<policy, active, pending, ready, conn, kicked, forwarded>>

ClientStdinRefused(c, id, n) ==
  /\ Reading(c) /\ Owner[id] = c /\ id \in active
  /\ ~StdinAllowed(session[id], n)
  /\ Break(c)

Last(s) == s[Len(s)]

\* A small write behind another chunk joins the tail while it is still open.
Joins(q, n) ==
  /\ q /= <<>> /\ Last(q).open
  /\ n /= 0
  /\ Last(q).to - Last(q).from + n <= StdinChunk

Queued(q, h) ==
  LET n == h.to - h.from
  IN  IF Joins(q, n)
      THEN [q EXCEPT ![Len(q)].to = h.to]
      ELSE Append(q, [from |-> h.from, to |-> h.to,
                      open |-> q /= <<>> /\ n /= 0 /\ n < StdinChunk])

\* enqueue_input: the execution may have ended since its bytes were charged.
EnqueueInput(c) ==
  /\ conn[c] = "open" /\ hand[c] /= Idle
  /\ hand' = [hand EXCEPT ![c] = Idle]
  /\ LET h == hand[c] IN
       IF h.id \in active /\ ~session[h.id].input_closed
       THEN /\ pending' = [pending EXCEPT ![h.id] = Queued(@, h)]
            /\ ready' = IF pending[h.id] = <<>> THEN Append(ready, h.id) ELSE ready
       ELSE UNCHANGED <<pending, ready>>
  /\ UNCHANGED <<policy, active, session, conn, kicked, forwarded>>

\* Mutant: an acknowledgement may run ahead of what was sent.
AckAllowedAhead(previous, consumed, sent) == previous <= consumed

AckAllowed(previous, consumed, sent) == previous <= consumed /\ consumed <= sent

\* client_message, ExecOutputAck.
ClientOutputAck(c, id, consumed) ==
  /\ Reading(c) /\ Owner[id] = c /\ id \in active
  /\ AckAllowed(session[id].output_consumed, consumed, session[id].output_sent)
  /\ session' = [session EXCEPT ![id].output_consumed = consumed]
  /\ UNCHANGED <<policy, active, pending, ready, conn, kicked, hand, forwarded>>

ClientOutputAckRefused(c, id, consumed) ==
  /\ Reading(c) /\ Owner[id] = c /\ id \in active
  /\ ~AckAllowed(session[id].output_consumed, consumed, session[id].output_sent)
  /\ Break(c)

\* The n-th smallest of a set of positions.
Nth(P, n) == CHOOSE p \in P : Cardinality({x \in P : x <= p}) = n

\* The entries of a queue at some of its positions, in their order.
Kept(q, P) == [n \in 1..Cardinality(P) |-> q[Nth(P, n)]]

\* Queue without the IDs of a set: VecDeque::retain.
Without(q, S) == Kept(q, {i \in 1..Len(q) : q[i] \notin S})

\* Mutant: the input is closed but what is queued stays.
CancelInputKeepsQueue(c) ==
  /\ conn[c] = "broken"
  /\ conn' = [conn EXCEPT ![c] = "cancelled"]
  /\ session' = [id \in Ids |-> IF id \in active /\ Owner[id] = c
                                THEN [session[id] EXCEPT !.input_closed = TRUE]
                                ELSE session[id]]
  /\ UNCHANGED <<policy, active, pending, ready, kicked, hand, forwarded>>

\* Mutant: the queue is dropped but the input is not closed.
CancelInputLeavesOpen(c) ==
  /\ conn[c] = "broken"
  /\ conn' = [conn EXCEPT ![c] = "cancelled"]
  /\ pending' = [id \in Ids |-> IF Owner[id] = c THEN <<>> ELSE pending[id]]
  /\ ready' = Without(ready, RangeOf(c))
  /\ UNCHANGED <<policy, active, session, kicked, hand, forwarded>>

\* cancel_input, right after the frame loop: the slots stay reserved.
CancelInput(c) ==
  /\ conn[c] = "broken"
  /\ conn' = [conn EXCEPT ![c] = "cancelled"]
  /\ session' = [id \in Ids |-> IF id \in active /\ Owner[id] = c
                                THEN [session[id] EXCEPT !.input_closed = TRUE]
                                ELSE session[id]]
  /\ pending' = [id \in Ids |-> IF Owner[id] = c THEN <<>> ELSE pending[id]]
  /\ ready' = Without(ready, RangeOf(c))
  /\ UNCHANGED <<policy, active, kicked, hand, forwarded>>

\* Mutant: the slots are given back before the guest has cleaned up.
RemoveClientReleases(c) ==
  /\ conn[c] = "cancelled"
  /\ conn' = [conn EXCEPT ![c] = "draining"]
  /\ active' = active \ RangeOf(c)
  /\ session' = [id \in Ids |-> IF Owner[id] = c THEN NewSession ELSE session[id]]
  /\ UNCHANGED <<policy, pending, ready, kicked, hand, forwarded>>

\* clients.remove(slot): guest frames for the range are dropped from here on.
RemoveClient(c) ==
  /\ conn[c] = "cancelled"
  /\ conn' = [conn EXCEPT ![c] = "draining"]
  /\ UNCHANGED <<policy, active, session, pending, ready, kicked, hand, forwarded>>

\* disconnect, once the guest has acknowledged the cleanup of the range.
Disconnect(c) ==
  /\ conn[c] = "draining"
  /\ conn' = [conn EXCEPT ![c] = "free"]
  /\ active' = active \ RangeOf(c)
  /\ session' = [id \in Ids |-> IF Owner[id] = c THEN NewSession ELSE session[id]]
  /\ pending' = [id \in Ids |-> IF Owner[id] = c THEN <<>> ELSE pending[id]]
  /\ ready' = Without(ready, RangeOf(c))
  /\ UNCHANGED <<policy, kicked, hand, forwarded>>

-----------------------------------------------------------------------------
(* Guest side: the single reader of the guest's output. *)

\* route_guest_lane_frame: the range still has a client in the routing map.
Routed(id) == id \in active /\ conn[Owner[id]] \in {"open", "broken", "cancelled"}

\* Mutant: the released execution stays in the round robin.
ReleaseKeepsReady(id) ==
  /\ active' = active \ {id}
  /\ session' = [session EXCEPT ![id] = NewSession]
  /\ pending' = [pending EXCEPT ![id] = <<>>]
  /\ UNCHANGED ready

Release(id) ==
  /\ active' = active \ {id}
  /\ session' = [session EXCEPT ![id] = NewSession]
  /\ pending' = [pending EXCEPT ![id] = <<>>]
  /\ ready' = Without(ready, {id})

\* An invalid guest frame asks the client's reader to stop and is not forwarded.
Kick(id) ==
  /\ kicked' = [kicked EXCEPT ![Owner[id]] = TRUE]
  /\ UNCHANGED <<policy, active, session, pending, ready, conn, hand, forwarded>>

GuestStarted(id) ==
  /\ Routed(id)
  /\ session' = [session EXCEPT ![id].started = TRUE]
  /\ UNCHANGED <<policy, active, pending, ready, conn, kicked, hand, forwarded>>

GuestStdinAck(id, consumed) ==
  /\ Routed(id)
  /\ AckAllowed(session[id].input_consumed, consumed, session[id].input_sent)
  /\ session' = [session EXCEPT ![id].input_consumed = consumed]
  /\ UNCHANGED <<policy, active, pending, ready, conn, kicked, hand, forwarded>>

GuestStdinAckRefused(id, consumed) ==
  /\ Routed(id)
  /\ ~AckAllowed(session[id].input_consumed, consumed, session[id].input_sent)
  /\ Kick(id)

OutputAllowed(s, n) ==
  n <= OutputChunk /\ s.output_sent + n + Overhead - s.output_consumed <= OutputLimit

\* guest_message, ExecStdout and ExecStderr.
GuestOutput(id, n) ==
  /\ Routed(id)
  /\ OutputAllowed(session[id], n)
  /\ session[id].output_sent + n + Overhead <= MaxOffset
  /\ session' = [session EXCEPT ![id].output_sent = @ + n + Overhead]
  /\ UNCHANGED <<policy, active, pending, ready, conn, kicked, hand, forwarded>>

GuestOutputRefused(id, n) ==
  /\ Routed(id)
  /\ ~OutputAllowed(session[id], n)
  /\ Kick(id)

\* ExecExited, ExecFailed, or CoreError for a request that never started.
GuestTerminal(id) ==
  /\ Routed(id)
  /\ Release(id)
  /\ UNCHANGED <<policy, conn, kicked, hand, forwarded>>

\* Any other CoreError proves nothing about the process: the slot is kept.
GuestCoreError(id) == Routed(id) /\ Kick(id)

ReaderKicked(c) == kicked[c] /\ Reading(c) /\ Break(c)

-----------------------------------------------------------------------------
(* The writer of the guest's input. *)

HasPending(id) == id \in active /\ pending[id] /= <<>>

\* Considering a head for forwarding freezes it.
Frozen(q) == [q EXCEPT ![1].open = FALSE]

\* Mutant: the served execution goes back to the front.
RotatedToFront(skipped, k, id, rest) ==
  (IF rest = <<>> THEN <<>> ELSE <<id>>) \o SubSeq(ready, k + 2, Len(ready)) \o skipped

\* The queue after skipped entries went round and id was served.
Rotated(skipped, k, id, rest) ==
  SubSeq(ready, k + 2, Len(ready)) \o skipped \o (IF rest = <<>> THEN <<>> ELSE <<id>>)

\* take_input visits the queue from its front.  The first k entries are not
\* admitted by the transport, or have lost their input and are skipped; the
\* next one, if any, is forwarded.  Entries that still have input go to the
\* back of the queue.
TakeInput(k) ==
  LET skipped == Kept(ready, {i \in 1..k : HasPending(ready[i])})
      seen    == {ready[i] : i \in 1..k}
      frozen  == [id \in Ids |-> IF id \in seen /\ HasPending(id)
                                 THEN Frozen(pending[id]) ELSE pending[id]]
  IN  IF k = Len(ready)
      THEN /\ pending' = frozen
           /\ ready' = skipped
           /\ UNCHANGED <<policy, active, session, conn, kicked, hand, forwarded>>
      ELSE LET id   == ready[k + 1]
               head == pending[id][1]
               rest == Tail(pending[id])
           IN  /\ HasPending(id)
               /\ pending' = [frozen EXCEPT ![id] = rest]
               /\ ready' = Rotated(skipped, k, id, rest)
               /\ forwarded' = [forwarded EXCEPT ![id] =
                                  [bytes |-> head.to, eof |-> head.from = head.to]]
               /\ UNCHANGED <<policy, active, session, conn, kicked, hand>>

-----------------------------------------------------------------------------
\* Lengths a peer may send: every legal one and one beyond the chunk size.
StdinLengths == 0..(StdinChunk + 1)
OutputLengths == 0..(OutputChunk + 1)
Offsets == 0..MaxOffset

ClientStep(c) ==
  \/ Accept(c)
  \/ LeaveLoop(c)
  \/ ReaderKicked(c)
  \/ EnqueueInput(c)
  \/ CancelInput(c)
  \/ RemoveClient(c)
  \/ Disconnect(c)
  \/ \E id \in Ids :
       \/ Admit(c, id)
       \/ AdmitTwice(c, id)
       \/ \E n \in StdinLengths : ClientStdin(c, id, n) \/ ClientStdinRefused(c, id, n)
       \/ \E n \in Offsets : ClientOutputAck(c, id, n) \/ ClientOutputAckRefused(c, id, n)

GuestStep(id) ==
  \/ GuestStarted(id)
  \/ GuestTerminal(id)
  \/ GuestCoreError(id)
  \/ \E n \in Offsets : GuestStdinAck(id, n) \/ GuestStdinAckRefused(id, n)
  \/ \E n \in OutputLengths : GuestOutput(id, n) \/ GuestOutputRefused(id, n)

WriterStep == \E k \in 0..Len(ready) : TakeInput(k)

Next ==
  \/ \E c \in Clients : ClientStep(c)
  \/ \E id \in Ids : GuestStep(id)
  \/ WriterStep

Spec == Init /\ [][Next]_vars
-----------------------------------------------------------------------------
(* What the tracker guarantees whatever its peers send. *)

\* The tables of the tracker and of the reader tasks.
TablesOK ==
  /\ policy \in BOOLEAN
  /\ active \subseteq Ids
  /\ session \in [Ids -> Session]
  /\ pending \in [Ids -> Seq(Chunk)]
  /\ conn \in [Clients -> ReaderStages]
  /\ kicked \in [Clients -> BOOLEAN]
  /\ hand \in [Clients -> Hand]
  /\ forwarded \in [Ids -> [bytes : Nat, eof : BOOLEAN]]

\* Type invariant.  No chunk, queued or in hand, ends before it begins.
TypeOK == TablesOK /\ ready \in Seq(Ids)

\* The sandbox never holds more than max_executions reservations, and none
\* for a slot that has been handed back to the accept loop.
SlotsBounded ==
  /\ Cardinality(active) <= MaxExecutions
  /\ \A id \in active : conn[Owner[id]] /= "free"

Within(s) ==
  /\ s.input_consumed <= s.input_sent /\ s.input_sent <= s.input_consumed + InputLimit
  /\ s.output_consumed <= s.output_sent /\ s.output_sent <= s.output_consumed + OutputLimit

\* Both allowances hold at every moment: what was accepted and not yet
\* acknowledged never exceeds the limit, and nothing is acknowledged before
\* it was sent.
WithinAllowances == \A id \in Ids : Within(session[id])

\* No queued stdin is forgotten and none is scheduled twice: the round robin
\* holds exactly the executions with queued input, each of them once.
EveryQueueScheduledOnce ==
  /\ \A id \in Ids : HasPending(id) <=> \E i \in 1..Len(ready) : ready[i] = id
  /\ \A i, j \in 1..Len(ready) : ready[i] = ready[j] => i = j

\* Bytes of an execution that its reader task has charged and still holds.
InHand(id) == hand[Owner[id]] /= Idle /\ hand[Owner[id]].id = id

\* Where the accepted, not yet forwarded input of id ends in the queue.
QueueEnd(id) == IF InHand(id) THEN hand[Owner[id]].from ELSE session[id].input_sent

\* The chunks of q cover the bytes from start to end without a gap.
Chain(q, start, end) ==
  IF q = <<>> THEN start = end
  ELSE /\ q[1].from = start
       /\ Last(q).to = end
       /\ \A i \in 1..(Len(q) - 1) : q[i].to = q[i + 1].from

\* Stdin reaches the guest complete and in order: what was forwarded, the
\* queued chunks and the bytes in hand follow each other without a gap, also
\* when small writes were merged, until the owner's input is cancelled.
StdinContiguous ==
  \A id \in active : ~session[id].input_closed =>
    Chain(pending[id], forwarded[id].bytes, QueueEnd(id))

\* After cancel_input nothing more of the execution's stdin is forwarded.
CancelledInputStops ==
  [][\A id \in active : session[id].input_closed => forwarded'[id] = forwarded[id]]_vars

=============================================================================
