------------------------------- MODULE ExecFlow -------------------------------
(***************************************************************************)
(* One execution's input and output end to end: the SDK's stdin window,    *)
(* event mapper and acknowledgement sender (sdk/rust exec/io.rs and        *)
(* exec/session.rs, packages/agent-client exec/output.rs), the relay's     *)
(* execution tracker (ExecAdmission, whose actions are conjoined here with *)
(* the frames that cause them) and agentd's execution session (agent.rs,   *)
(* session.rs, exec_output.rs).  The parties are joined by FIFO streams:   *)
(* the client's socket in both directions, the ring to the guest, the      *)
(* guest's output, and agentd's queue of events from its reader tasks.     *)
(*                                                                         *)
(* A client may vanish at any moment; the relay then cancels its input,    *)
(* asks the guest to clean its ID range up, and leases the range to the    *)
(* next client, which reuses the same correlation IDs.                     *)
(***************************************************************************)
EXTENDS ExecAdmission

CONSTANTS
  DualPort,   \* raw records have a port of their own
  SocketCap,  \* frames a client's socket holds
  RingCap,    \* frames the ring to the guest holds
  MaxStdin,   \* bound: bytes one execution's caller writes
  MaxOutput,  \* bound: output charge of one execution
  MayKill,    \* whether callers kill their processes
  MaxLives,   \* bound: clients that lease one slot, one after the other
  Listed(_)   \* the order in which a hash map yields its keys

ASSUME FlowBoundAssumption ==
  /\ DualPort \in BOOLEAN /\ MayKill \in BOOLEAN
  /\ SocketCap \in Nat \ {0} /\ RingCap \in Nat \ {0} /\ MaxLives \in Nat
  /\ MaxStdin \in 0..MaxOffset /\ MaxOutput \in 0..MaxOffset

\* Each key once.
ASSUME ListedAssumption ==
  \A S \in SUBSET Ids : /\ Listed(S) \in Seq(S) /\ Len(Listed(S)) = Cardinality(S)
                        /\ S = {Listed(S)[i] : i \in DOMAIN Listed(S)}

VARIABLES
  link,     \* the client's socket: "off", "up" or "down"
  life,     \* incarnation of the slot's latest client; 0 before the first
  up,       \* frames from the client that its reader task has not read
  down,     \* frames for one execution that its event mapper has not read
  sink,     \* the SDK's InputWindow and ExecSink
  call,     \* the SDK's event mapper, EventReceiver and OutputAcknowledgements
  unread,   \* lengths of the output events the caller has not read
  ring,     \* control and stdin frames on their way to agentd
  back,     \* frames on their way from agentd to the relay
  events,   \* agentd's session_rx: what its reader tasks have published
  lease,    \* AgentState.client_incarnations
  guest,    \* AgentState.sessions
  gqueue,   \* ExecSession.pending_stdin
  orphans   \* reader tasks whose session was removed by a range cleanup

clientVars == <<link, life, up, down, sink, call, unread>>
guestVars  == <<lease, guest, gqueue, orphans>>
flowVars == <<vars, clientVars, guestVars, ring, back, events>>

-----------------------------------------------------------------------------
Frame(t, who, n, inc) == [t |-> t, who |-> who, n |-> n, inc |-> inc]

NewSink == [started |-> FALSE, closed |-> FALSE, eof |-> FALSE, held |-> 0,
            sent |-> 0, consumed |-> 0, permits |-> InputLimit]

NewCall == [phase |-> "idle", reading |-> TRUE, killed |-> FALSE,
            got |-> 0, eaten |-> 0, told |-> 0]

NoGuest == [on |-> FALSE, inc |-> 0, proc |-> "none", exit |-> FALSE, eof |-> FALSE,
            received |-> 0, consumed |-> 0, acked |-> 0,
            out_sent |-> 0, out_consumed |-> 0]

FlowInit ==
  /\ Init /\ policy = TRUE
  /\ link = [c \in Clients |-> "off"]
  /\ life = [c \in Clients |-> 0]
  /\ up = [c \in Clients |-> <<>>]
  /\ down = [id \in Ids |-> <<>>]
  /\ sink = [id \in Ids |-> NewSink]
  /\ call = [id \in Ids |-> NewCall]
  /\ unread = [id \in Ids |-> <<>>]
  /\ ring = <<>> /\ back = <<>> /\ events = <<>>
  /\ lease = [c \in Clients |-> 0]
  /\ guest = [id \in Ids |-> NoGuest]
  /\ gqueue = [id \in Ids |-> <<>>]
  /\ orphans = {}

-----------------------------------------------------------------------------
(* The SDK client. *)

Up(id) == link[Owner[id]] = "up"
Send(id, t, n) ==
  /\ Len(up[Owner[id]]) < SocketCap
  /\ up' = [up EXCEPT ![Owner[id]] = Append(@, Frame(t, id, n, life[Owner[id]]))]
ClientOnly == UNCHANGED <<vars, guestVars, ring, back, events>>

\* A client connects: the relay leases it the range before it can send.
Connect(c) ==
  /\ life[c] < MaxLives
  /\ Accept(c)
  /\ link' = [link EXCEPT ![c] = "up"]
  /\ life' = [life EXCEPT ![c] = @ + 1]
  /\ up' = [up EXCEPT ![c] = <<>>]
  /\ down' = [id \in Ids |-> IF Owner[id] = c THEN <<>> ELSE down[id]]
  /\ sink' = [id \in Ids |-> IF Owner[id] = c THEN NewSink ELSE sink[id]]
  /\ call' = [id \in Ids |-> IF Owner[id] = c THEN NewCall ELSE call[id]]
  /\ unread' = [id \in Ids |-> IF Owner[id] = c THEN <<>> ELSE unread[id]]
  /\ ring' = Append(ring, Frame("hello", c, 0, life[c] + 1))
  /\ UNCHANGED <<guestVars, back, events>>

\* The socket ends: every event mapper stops and closes its stdin window.
HangUp(c) ==
  /\ link' = [link EXCEPT ![c] = "down"]
  /\ call' = [id \in Ids |-> IF Owner[id] = c THEN [call[id] EXCEPT !.phase = "done"] ELSE call[id]]
  /\ sink' = [id \in Ids |-> IF Owner[id] = c THEN [sink[id] EXCEPT !.closed = TRUE] ELSE sink[id]]

Vanish(c) ==
  /\ link[c] = "up"
  /\ HangUp(c)
  /\ UNCHANGED <<life, up, down, unread>> /\ ClientOnly

Request(id) ==
  /\ Up(id) /\ call[id].phase = "idle"
  /\ call' = [call EXCEPT ![id].phase = "running"]
  /\ Send(id, "request", 0)
  /\ UNCHANGED <<link, life, down, sink, unread>> /\ ClientOnly

\* InputWindow::reserve, under the sink's write lock.
Reserve(id, n) ==
  /\ Up(id) /\ sink[id].started /\ ~sink[id].closed /\ ~sink[id].eof
  /\ sink[id].held = 0 /\ n <= sink[id].permits
  /\ sink[id].sent + n <= MaxStdin
  /\ sink' = [sink EXCEPT ![id].held = n, ![id].sent = @ + n, ![id].permits = @ - n]
  /\ UNCHANGED <<link, life, up, down, call, unread>> /\ ClientOnly

\* The frame enters the transport queue, which commits the reservation.
CommitStdin(id) ==
  /\ Up(id) /\ sink[id].held > 0
  /\ sink' = [sink EXCEPT ![id].held = 0]
  /\ Send(id, "stdin", sink[id].held)
  /\ UNCHANGED <<link, life, down, call, unread>> /\ ClientOnly

\* Mutant: the permits of a cancelled write are not returned.
CancelWriteLeaks(id) ==
  /\ sink[id].held > 0
  /\ sink' = [sink EXCEPT ![id].held = 0, ![id].sent = @ - sink[id].held]
  /\ UNCHANGED <<link, life, up, down, call, unread>> /\ ClientOnly

\* The caller drops the write before that: InputReservation::drop.
CancelWrite(id) ==
  /\ sink[id].held > 0
  /\ sink' = [sink EXCEPT ![id].held = 0, ![id].sent = @ - sink[id].held,
                          ![id].permits = @ + sink[id].held]
  /\ UNCHANGED <<link, life, up, down, call, unread>> /\ ClientOnly

\* Mutant: close does not wait for the write that holds the lock.
CloseStdinUnlocked(id) ==
  /\ Up(id) /\ sink[id].started /\ ~sink[id].eof
  /\ sink' = [sink EXCEPT ![id].eof = TRUE]
  /\ Send(id, "stdin", 0)
  /\ UNCHANGED <<link, life, down, call, unread>> /\ ClientOnly

\* ExecSink::close.  wait_started also succeeds on a window that has since
\* closed, so an EOF may follow the end of the execution.
CloseStdin(id) ==
  /\ Up(id) /\ sink[id].started /\ ~sink[id].eof /\ sink[id].held = 0
  /\ sink' = [sink EXCEPT ![id].eof = TRUE]
  /\ Send(id, "stdin", 0)
  /\ UNCHANGED <<link, life, down, call, unread>> /\ ClientOnly

\* A deadline or a caller kills the started process.
SendKill(id) ==
  /\ MayKill /\ Up(id) /\ sink[id].started /\ call[id].phase = "running"
  /\ ~call[id].killed    \* bound: one signal per execution
  /\ call' = [call EXCEPT ![id].killed = TRUE]
  /\ Send(id, "kill", 0)
  /\ UNCHANGED <<link, life, down, sink, unread>> /\ ClientOnly

ReadEvent(id) ==
  /\ call[id].reading /\ unread[id] /= <<>>
  /\ unread' = [unread EXCEPT ![id] = Tail(@)]
  /\ call' = [call EXCEPT ![id].eaten = @ + Head(unread[id]) + Overhead]
  /\ UNCHANGED <<link, life, up, down, sink>> /\ ClientOnly

\* Mutant: events still queued when the receiver is dropped are forgotten.
DropReaderForgets(id) ==
  /\ call[id].reading /\ call[id].phase = "running"
  /\ unread' = [unread EXCEPT ![id] = <<>>]
  /\ call' = [call EXCEPT ![id].reading = FALSE]
  /\ UNCHANGED <<link, life, up, down, sink>> /\ ClientOnly

\* EventReceiver::drop closes the channel and counts what is left in it.
DropReader(id) ==
  /\ call[id].reading /\ call[id].phase = "running"
  /\ unread' = [unread EXCEPT ![id] = <<>>]
  /\ call' = [call EXCEPT ![id].reading = FALSE, ![id].eaten = call[id].got]
  /\ UNCHANGED <<link, life, up, down, sink>> /\ ClientOnly

\* OutputAcknowledgements::run sends the latest total.
SendAck(id) ==
  /\ Up(id) /\ call[id].phase = "running" /\ call[id].told /= call[id].eaten
  /\ call' = [call EXCEPT ![id].told = call[id].eaten]
  /\ Send(id, "outack", call[id].eaten)
  /\ UNCHANGED <<link, life, down, sink, unread>> /\ ClientOnly

-----------------------------------------------------------------------------
(* event_mapper_task: one frame. *)

\* The mapper aborts the connection when agentd breaks the protocol.
StdinAckOk(id, consumed) == AckAllowed(sink[id].consumed, consumed, sink[id].sent)

OutputOk(id, n) ==
  n <= OutputChunk /\ call[id].got + n + Overhead - call[id].eaten <= OutputLimit

MapperAborts(id, m) ==
  \/ m.t = "stdinack" /\ ~StdinAckOk(id, m.n)
  \/ m.t = "output" /\ ~OutputOk(id, m.n)

MapStdinAck(id, m) ==
  /\ m.t = "stdinack" /\ StdinAckOk(id, m.n)
  /\ sink' = [sink EXCEPT ![id].consumed = m.n, ![id].permits = @ + m.n - sink[id].consumed]
  /\ UNCHANGED <<call, unread>>

MapStarted(id, m) ==
  /\ m.t = "started"
  /\ sink' = [sink EXCEPT ![id].started = TRUE]
  /\ UNCHANGED <<call, unread>>

MapOutput(id, m) ==
  /\ m.t = "output" /\ OutputOk(id, m.n)
  /\ IF call[id].reading
     THEN /\ unread' = [unread EXCEPT ![id] = Append(@, m.n)]
          /\ call' = [call EXCEPT ![id].got = @ + m.n + Overhead]
     ELSE /\ call' = [call EXCEPT ![id].got = @ + m.n + Overhead,
                                  ![id].eaten = @ + m.n + Overhead]
          /\ UNCHANGED unread
  /\ UNCHANGED sink

\* Mutant: a stdin error leaves the window open.
MapStdinErrorIgnored(id, m) == m.t = "stdinerror" /\ UNCHANGED <<sink, call, unread>>

MapStdinError(id, m) ==
  /\ m.t = "stdinerror"
  /\ sink' = [sink EXCEPT ![id].closed = TRUE]
  /\ UNCHANGED <<call, unread>>

MapTerminal(id, m) ==
  /\ m.t \in {"exited", "failed"}
  /\ call' = [call EXCEPT ![id].phase = "done"]
  /\ sink' = [sink EXCEPT ![id].closed = TRUE]
  /\ UNCHANGED unread

MapEvent(id) ==
  /\ Up(id) /\ call[id].phase = "running" /\ down[id] /= <<>>
  /\ down' = [down EXCEPT ![id] = Tail(@)]
  /\ LET m == Head(down[id]) IN
       IF MapperAborts(id, m)
       THEN HangUp(Owner[id]) /\ UNCHANGED <<life, up, unread>>
       ELSE /\ \/ MapStdinAck(id, m)
               \/ MapStarted(id, m)
               \/ MapOutput(id, m)
               \/ MapStdinError(id, m)
               \/ MapTerminal(id, m)
            /\ UNCHANGED <<link, life, up>>
  /\ ClientOnly

-----------------------------------------------------------------------------
(* The relay: client_reader_task and the reader of the guest's output. *)

ToGuest(m) == Len(ring) < RingCap /\ ring' = Append(ring, m)
FromClient(c) == Reading(c) /\ up[c] /= <<>>
Taken(c) == up' = [up EXCEPT ![c] = Tail(@)]
Deliver(m) == down' = IF link[Owner[m.who]] = "up"
                      THEN [down EXCEPT ![m.who] = Append(@, m)] ELSE down

\* A refused frame ends the reader and with it the client's socket.
Refuse(c) ==
  /\ HangUp(c)
  /\ UNCHANGED <<life, up, down, unread, guestVars, ring, back, events>>

RelayRequest(c) ==
  /\ FromClient(c) /\ Head(up[c]).t = "request"
  /\ LET m == Head(up[c]) IN
       \/ /\ Admit(c, m.who) /\ Taken(c) /\ ToGuest(m)
          /\ UNCHANGED <<link, life, down, sink, call, unread, guestVars, back, events>>
       \/ /\ m.who \notin active /\ Full
          /\ Taken(c) /\ Deliver(Frame("failed", m.who, 0, m.inc))
          /\ UNCHANGED <<vars, link, life, sink, call, unread, guestVars, ring, back, events>>
       \/ AdmitTwice(c, m.who) /\ Refuse(c)

\* Stdin of an execution that has ended is discarded.
RelayStdin(c) ==
  /\ FromClient(c) /\ Head(up[c]).t = "stdin"
  /\ LET m == Head(up[c]) IN
       \/ /\ ClientStdin(c, m.who, m.n) \/ (m.who \notin active /\ UNCHANGED vars)
          /\ Taken(c)
          /\ UNCHANGED <<link, life, down, sink, call, unread, guestVars, ring, back, events>>
       \/ ClientStdinRefused(c, m.who, m.n) /\ Refuse(c)

RelayEnqueue(c) ==
  EnqueueInput(c) /\ UNCHANGED <<clientVars, guestVars, ring, back, events>>

\* Acknowledgements and signals are forwarded whether or not the tracker
\* still knows the execution.
RelayControl(c) ==
  /\ FromClient(c) /\ Head(up[c]).t \in {"outack", "kill"}
  /\ LET m == Head(up[c]) IN
       \/ /\ IF m.t = "outack" /\ m.who \in active
             THEN ClientOutputAck(c, m.who, m.n) ELSE UNCHANGED vars
          /\ Taken(c) /\ ToGuest(m)
          /\ UNCHANGED <<link, life, down, sink, call, unread, guestVars, back, events>>
       \/ m.t = "outack" /\ ClientOutputAckRefused(c, m.who, m.n) /\ Refuse(c)

\* The socket has ended; unread frames may be lost with it.
RelayLeave(c) ==
  /\ \/ link[c] = "down" /\ LeaveLoop(c)
     \/ ReaderKicked(c)
  /\ HangUp(c)
  /\ up' = [up EXCEPT ![c] = <<>>]
  /\ UNCHANGED <<life, down, unread, guestVars, ring, back, events>>

RelayCancel(c) ==
  CancelInput(c) /\ UNCHANGED <<clientVars, guestVars, ring, back, events>>

\* The entry leaves the routing map; then a SIGKILL for each execution of the
\* client and the range's disconnect are queued behind everything it sent.
Kills(c) ==
  LET ids == Listed({id \in active : Owner[id] = c})
  IN  [i \in 1..Len(ids) |-> Frame("kill", ids[i], 0, life[c])]

\* Mutant: the disconnect is only sent for a client with executions.
RelayRemoveQuiet(c) ==
  /\ RemoveClient(c)
  /\ ring' = ring \o Kills(c) \o (IF Kills(c) = <<>> THEN <<>> ELSE <<Frame("gone", c, 0, life[c])>>)
  /\ UNCHANGED <<clientVars, guestVars, back, events>>

RelayRemove(c) ==
  /\ RemoveClient(c)
  /\ ring' = ring \o Kills(c) \o <<Frame("gone", c, 0, life[c])>>
  /\ UNCHANGED <<clientVars, guestVars, back, events>>

\* guest_message for a frame of a tracked execution.
Account(m) ==
  \/ m.t = "started" /\ GuestStarted(m.who)
  \/ m.t = "stdinack" /\ GuestStdinAck(m.who, m.n)
  \/ m.t = "output" /\ GuestOutput(m.who, m.n)
  \/ m.t = "stdinerror" /\ Routed(m.who) /\ UNCHANGED vars
  \/ m.t \in {"exited", "failed"} /\ GuestTerminal(m.who)

AccountRefused(m) ==
  \/ m.t = "stdinack" /\ GuestStdinAckRefused(m.who, m.n)
  \/ m.t = "output" /\ GuestOutputRefused(m.who, m.n)

\* The state in which that happens.
AccountFails(m) ==
  /\ Routed(m.who)
  /\ LET s == session[m.who] IN
       \/ m.t = "stdinack" /\ ~AckAllowed(s.input_consumed, m.n, s.input_sent)
       \/ m.t = "output" /\ ~OutputAllowed(s, m.n)

\* route_guest_lane_frame: without a client in the routing map the frame is
\* dropped; a refused one is dropped too and stops the client's reader.
RelayRoute ==
  /\ back /= <<>> /\ back' = Tail(back) /\ Head(back).t /= "bye"
  /\ LET m == Head(back) IN
       \/ Account(m) /\ Deliver(m)
       \/ AccountRefused(m) /\ UNCHANGED down
       \/ ~Routed(m.who) /\ UNCHANGED <<vars, down>>
  /\ UNCHANGED <<link, life, up, sink, call, unread, guestVars, ring, events>>

\* complete_relay_client_disconnect: the guest has cleaned the range up.
RelayRelease ==
  /\ back /= <<>> /\ back' = Tail(back) /\ Head(back).t = "bye"
  /\ Disconnect(Head(back).who)
  /\ UNCHANGED <<clientVars, guestVars, ring, events>>

\* ring_writer_task: stdin the transport admits follows the queued control.
RelayTake(k) ==
  /\ TakeInput(k)
  /\ IF k < Len(ready)
     THEN LET id == ready[k + 1] IN
            ToGuest(Frame("stdin", id, pending[id][1].to - pending[id][1].from, life[Owner[id]]))
     ELSE UNCHANGED ring
  /\ UNCHANGED <<clientVars, guestVars, back, events>>

-----------------------------------------------------------------------------
(* agentd: the agent loop and the tasks that read a process's output. *)

GuestOnly == UNCHANGED <<vars, clientVars>>
Sessions == {id \in Ids : guest[id].on}

\* Mutant: bytes are acknowledged when received.
AcksReceived(g) ==
  LET ids == Listed({id \in Ids : g[id].on /\ g[id].acked /= g[id].received})
  IN  [i \in 1..Len(ids) |-> Frame("stdinack", ids[i], g[ids[i]].received, g[ids[i]].inc)]

\* encode_exec_stdin_ack, for the sessions of a table.
Acks(g) ==
  LET ids == Listed({id \in Ids : g[id].on /\ g[id].acked /= g[id].consumed})
  IN  [i \in 1..Len(ids) |-> Frame("stdinack", ids[i], g[ids[i]].consumed, g[ids[i]].inc)]
Acked(g) == [id \in Ids |-> IF g[id].on THEN [g[id] EXCEPT !.acked = g[id].consumed] ELSE g[id]]

\* A decoded frame leaves the table g and the replies out.  Acknowledgements
\* follow the last frame of a batch; any frame but the ring's last may have
\* another behind it in its batch.
Handled(g, out) ==
  /\ ring' = Tail(ring)
  /\ \/ guest' = Acked(g) /\ back' = back \o out \o Acks(g)
     \/ Tail(ring) /= <<>> /\ guest' = g /\ back' = back \o out

GuestHello ==
  /\ ring /= <<>> /\ Head(ring).t = "hello"
  /\ lease' = [lease EXCEPT ![Head(ring).who] = Head(ring).inc]
  /\ Handled(guest, <<>>)
  /\ UNCHANGED <<gqueue, orphans, events>> /\ GuestOnly

\* ExecRequest: over the limit, refused by spawn or the workload latch, or
\* started.
GuestRequest ==
  /\ ring /= <<>> /\ Head(ring).t = "request"
  /\ LET m == Head(ring) IN
       \/ /\ Cardinality(Sessions) < MaxExecutions
          /\ gqueue' = [gqueue EXCEPT ![m.who] = <<>>]
          /\ Handled([guest EXCEPT ![m.who] =
                        [NoGuest EXCEPT !.on = TRUE, !.inc = lease[Owner[m.who]], !.proc = "alive"]],
                     <<Frame("started", m.who, 0, m.inc)>>)
       \/ Handled(guest, <<Frame("failed", m.who, 0, m.inc)>>) /\ UNCHANGED gqueue
  /\ UNCHANGED <<lease, orphans, events>> /\ GuestOnly

StdinRejected(s, n) ==
  s.eof \/ n > StdinChunk \/ s.received + n - s.consumed > InputLimit

\* The tail an entry of n bytes joins.
GuestJoins(q, n) ==
  n /= 0 /\ q /= <<>> /\ Last(q).size /= 0 /\ Last(q).size + n <= StdinChunk

GuestQueued(q, n, written) ==
  IF GuestJoins(q, n) THEN [q EXCEPT ![Len(q)].size = @ + n]
  ELSE Append(q, [size |-> n, written |-> written])

StdinFailed(m) == <<Frame("stdinerror", m.who, 0, m.inc)>>

\* enqueue_stdin: with nothing queued the bytes are offered to the process,
\* which takes w of them; the process may have closed its end.
GuestStdin ==
  /\ ring /= <<>> /\ Head(ring).t = "stdin"
  /\ LET m == Head(ring)
         id == m.who
         s == guest[id]
         taken == [s EXCEPT !.received = @ + m.n, !.eof = (m.n = 0)]
     IN  \/ /\ ~s.on
            /\ Handled(guest, <<>>) /\ UNCHANGED gqueue
         \/ /\ s.on /\ StdinRejected(s, m.n)
            /\ Handled(guest, StdinFailed(m)) /\ UNCHANGED gqueue
         \/ /\ s.on /\ ~StdinRejected(s, m.n)
            /\ gqueue[id] = <<>> /\ m.n = 0
            /\ Handled([guest EXCEPT ![id] = taken], <<>>) /\ UNCHANGED gqueue
         \/ /\ s.on /\ ~StdinRejected(s, m.n)
            /\ gqueue[id] = <<>> /\ m.n > 0
            /\ \/ \E w \in 0..m.n :
                    /\ Handled([guest EXCEPT ![id] = [taken EXCEPT !.consumed = @ + w]], <<>>)
                    /\ gqueue' = IF w = m.n THEN gqueue
                                 ELSE [gqueue EXCEPT ![id] = GuestQueued(@, m.n, w)]
               \/ Handled([guest EXCEPT ![id] = taken], StdinFailed(m)) /\ UNCHANGED gqueue
         \/ /\ s.on /\ ~StdinRejected(s, m.n)
            /\ gqueue[id] /= <<>>
            /\ Handled([guest EXCEPT ![id] = taken], <<>>)
            /\ gqueue' = [gqueue EXCEPT ![id] = GuestQueued(@, m.n, 0)]
  /\ UNCHANGED <<lease, orphans, events>> /\ GuestOnly

Exited(id, inc) == <<Frame("exited", id, 0, inc)>>
Removed(g, id) == [g EXCEPT ![id] = NoGuest]

\* ExecOutputAck: the acknowledgement of the last output also releases the
\* exit that waited for it.
GuestOutputAck ==
  /\ ring /= <<>> /\ Head(ring).t = "outack"
  /\ LET m == Head(ring)
         id == m.who
         s == guest[id]
         valid == AckAllowed(s.out_consumed, m.n, s.out_sent)
         t == IF s.on /\ valid THEN [s EXCEPT !.out_consumed = m.n] ELSE s
     IN  IF t.on /\ t.exit /\ t.out_sent = t.out_consumed
         THEN Handled(Removed(guest, id), Exited(id, s.inc))
         ELSE Handled([guest EXCEPT ![id] = t], <<>>)
  /\ UNCHANGED <<lease, gqueue, orphans, events>> /\ GuestOnly

GuestKill ==
  /\ ring /= <<>> /\ Head(ring).t = "kill"
  /\ LET id == Head(ring).who IN
       Handled([guest EXCEPT ![id].proc = IF @ = "alive" THEN "killed" ELSE @], <<>>)
  /\ UNCHANGED <<lease, gqueue, orphans, events>> /\ GuestOnly

\* disconnect_relay_client: only the range's current owner is cleaned up.  The
\* reader task of a removed session lives on until its process is dead.  With
\* a second port the acknowledgement queues behind what tasks have published.
GuestGone ==
  /\ ring /= <<>> /\ Head(ring).t = "gone"
  /\ LET m == Head(ring)
         mine == {id \in Sessions : Owner[id] = m.who}
     IN  IF lease[m.who] = m.inc
         THEN /\ lease' = [lease EXCEPT ![m.who] = 0]
              /\ orphans' = orphans \cup {<<id, guest[id].inc>> :
                                          id \in {i \in mine : guest[i].proc /= "done"}}
              /\ gqueue' = [id \in Ids |-> IF Owner[id] = m.who THEN <<>> ELSE gqueue[id]]
              /\ LET cleaned == [id \in Ids |-> IF id \in mine THEN NoGuest ELSE guest[id]]
                     bye == Frame("bye", m.who, 0, m.inc)
                 IN  IF DualPort THEN Handled(cleaned, <<>>) /\ events' = Append(events, bye)
                     ELSE Handled(cleaned, <<bye>>) /\ UNCHANGED events
         ELSE Handled(guest, <<>>) /\ UNCHANGED <<lease, gqueue, orphans, events>>
  /\ GuestOnly

\* Bytes of a queue the process has not taken yet.
Unwritten(q) ==
  LET upto[n \in 0..Len(q)] == IF n = 0 THEN 0 ELSE upto[n - 1] + q[n].size - q[n].written
  IN  upto[Len(q)]

\* The queue once w bytes of it are written: the entries the write covers are
\* gone and the next one is partly written; markers of EOF the write reaches
\* close the process's input.
Drained(q, w) ==
  LET upto(n) == Unwritten(SubSeq(q, 1, n))
      covered == Cardinality({n \in 1..Len(q) : upto(n) <= w})
      rest    == SubSeq(q, covered + 1, Len(q))
  IN  IF rest = <<>> THEN rest ELSE [rest EXCEPT ![1].written = @ + w - upto(covered)]

\* Bytes still queued for the process.
Backlog(id) == Unwritten(gqueue[id])

\* poll_pending_stdin: the process takes w bytes; a failing write loses the
\* entry it failed on and is reported.
PollStdin(id, w) ==
  /\ guest[id].on /\ gqueue[id] /= <<>>
  /\ w > 0 \/ Head(gqueue[id]).size = 0
  /\ LET g == [guest EXCEPT ![id].consumed = @ + w] IN
       /\ guest' = Acked(g)
       /\ back' = back \o Acks(g)
  /\ gqueue' = [gqueue EXCEPT ![id] = Drained(@, w)]
  /\ UNCHANGED <<lease, orphans, ring, events>> /\ GuestOnly

PollStdinFails(id, w) ==
  /\ guest[id].on /\ Drained(gqueue[id], w) /= <<>>
  /\ LET g == [guest EXCEPT ![id].consumed = @ + w] IN
       /\ guest' = Acked(g)
       /\ back' = back \o <<Frame("stdinerror", id, 0, guest[id].inc)>> \o Acks(g)
  /\ gqueue' = [gqueue EXCEPT ![id] = Tail(Drained(@, w))]
  /\ UNCHANGED <<lease, orphans, ring, events>> /\ GuestOnly

\* Mutant: the reader task charges the payload without its overhead.
AcquiredNoOverhead(s, n) == s.out_sent + n - s.out_consumed <= OutputLimit

\* OutputWindow::acquire.
Acquired(s, n) == s.out_sent + n + Overhead - s.out_consumed <= OutputLimit

Running(id) == guest[id].on /\ guest[id].proc \in {"alive", "killed"}

\* A reader task publishes a chunk once the window has room for it.
ProcOutput(id, n) ==
  /\ Running(id) /\ Acquired(guest[id], n)
  /\ guest[id].out_sent + n + Overhead <= MaxOutput
  /\ guest' = [guest EXCEPT ![id].out_sent = @ + n + Overhead]
  /\ events' = Append(events, Frame("output", id, n, guest[id].inc))
  /\ UNCHANGED <<lease, gqueue, orphans, ring, back>> /\ GuestOnly

\* The process is dead and its output read to the end.
ProcExit(id) ==
  /\ Running(id)
  /\ guest' = [guest EXCEPT ![id].proc = "done"]
  /\ events' = Append(events, Frame("exited", id, 0, guest[id].inc))
  /\ UNCHANGED <<lease, gqueue, orphans, ring, back>> /\ GuestOnly

OrphanExit ==
  /\ \E o \in orphans :
       /\ orphans' = orphans \ {o}
       /\ events' = Append(events, Frame("exited", o[1], 0, o[2]))
  /\ UNCHANGED <<lease, guest, gqueue, ring, back>> /\ GuestOnly

\* Mutant: events of a previous owner are not told from the current one's.
StaleNever(m) == FALSE

Stale(m) == m.t /= "bye" /\ m.inc /= lease[Owner[m.who]]

\* Mutant: the exit does not wait for the output to be acknowledged.
DrainedAlways(s) == TRUE

\* OutputWindow::is_drained.
IsDrained(s) == s.out_sent = s.out_consumed

\* The agent loop takes one event; an exit is kept back until the caller has
\* consumed all output.
AgentEvent ==
  /\ events /= <<>> /\ events' = Tail(events)
  /\ LET m == Head(events)
         id == m.who
     IN  \/ /\ Stale(m)
            /\ UNCHANGED <<guest, back>>
         \/ /\ ~Stale(m) /\ m.t \in {"output", "bye"}
            /\ back' = Append(back, m) /\ UNCHANGED guest
         \/ /\ ~Stale(m) /\ m.t = "exited" /\ guest[id].on
            /\ IF IsDrained(guest[id])
               THEN guest' = Removed(guest, id) /\ back' = back \o Exited(id, m.inc)
               ELSE guest' = [guest EXCEPT ![id].exit = TRUE] /\ UNCHANGED back
         \/ /\ ~Stale(m) /\ m.t = "exited" /\ ~guest[id].on
            /\ UNCHANGED <<guest, back>>
  /\ UNCHANGED <<lease, gqueue, orphans, ring>> /\ GuestOnly

-----------------------------------------------------------------------------
CallerStep(id) ==
  \/ Request(id)
  \/ \E n \in 1..StdinChunk : Reserve(id, n)
  \/ CommitStdin(id)
  \/ CancelWrite(id)
  \/ CloseStdin(id)
  \/ SendKill(id)
  \/ ReadEvent(id)
  \/ DropReader(id)
  \/ SendAck(id)
  \/ MapEvent(id)

RelayStep(c) ==
  \/ RelayRequest(c)
  \/ RelayStdin(c)
  \/ RelayEnqueue(c)
  \/ RelayControl(c)
  \/ RelayLeave(c)
  \/ RelayCancel(c)
  \/ RelayRemove(c)

AgentFrame ==
  \/ GuestHello
  \/ GuestRequest
  \/ GuestStdin
  \/ GuestOutputAck
  \/ GuestKill
  \/ GuestGone

ProcessStep(id) ==
  \/ \E w \in 0..Backlog(id) : PollStdin(id, w) \/ PollStdinFails(id, w)
  \/ \E n \in 1..OutputChunk : ProcOutput(id, n)
  \/ ProcExit(id)

FlowNext ==
  \/ \E c \in Clients : Connect(c) \/ Vanish(c) \/ RelayStep(c)
  \/ \E id \in Ids : CallerStep(id) \/ ProcessStep(id)
  \/ \E k \in 0..Len(ready) : RelayTake(k)
  \/ RelayRoute
  \/ RelayRelease
  \/ AgentFrame
  \/ AgentEvent
  \/ OrphanExit

FlowSpec == FlowInit /\ [][FlowNext]_flowVars

\* The tasks of the three programs run whenever they can; a killed process
\* dies; the process reads its input and the caller its output.  Connecting,
\* requesting, writing, closing, killing and vanishing are never forced.
FlowFairness ==
  /\ \A c \in Clients : WF_flowVars(RelayStep(c))
  /\ WF_flowVars(RelayTake(0))
  /\ WF_flowVars(RelayRoute)
  /\ WF_flowVars(RelayRelease)
  /\ WF_flowVars(AgentFrame)
  /\ WF_flowVars(AgentEvent)
  /\ WF_flowVars(OrphanExit)
  /\ \A id \in Ids :
       /\ WF_flowVars(CommitStdin(id) \/ CancelWrite(id))
       /\ WF_flowVars(SendAck(id))
       /\ WF_flowVars(MapEvent(id))
       /\ WF_flowVars(ReadEvent(id))
       /\ WF_flowVars(\E w \in 0..Backlog(id) : PollStdin(id, w) \/ PollStdinFails(id, w))
       /\ WF_flowVars(guest[id].proc = "killed" /\ ProcExit(id))

FairFlow == FlowSpec /\ FlowFairness
-----------------------------------------------------------------------------
\* The guest session of id belongs to the slot's latest client.
Current(id) == guest[id].on /\ guest[id].inc = life[Owner[id]]

\* Every party is behind the one it learns from: of the bytes the caller
\* committed, the relay has accepted a prefix, forwarded a prefix of that, the
\* guest received and consumed a prefix of that, and the acknowledgements each
\* party has seen are older the further they travelled; the same for output.
CountersOrdered ==
  \A id \in Ids : Current(id) =>
    LET s == sink[id]  r == session[id]  g == guest[id]  k == call[id] IN
      /\ s.consumed <= r.input_consumed /\ r.input_consumed <= g.acked
      /\ g.acked <= g.consumed /\ g.consumed <= g.received
      /\ g.received <= forwarded[id].bytes /\ forwarded[id].bytes <= r.input_sent
      /\ r.input_sent <= s.sent - s.held
      /\ g.out_consumed <= r.output_consumed /\ r.output_consumed <= k.told
      /\ k.told <= k.eaten /\ k.eaten <= k.got
      /\ k.got <= r.output_sent /\ r.output_sent <= g.out_sent

\* A client and a guest that follow the protocol are never refused: whatever
\* the delays and however acknowledgements were merged, the next frame on each
\* stream passes the checks of the party that reads it.
ChecksPass ==
  /\ \A c \in Clients : FromClient(c) =>
       LET m == Head(up[c]) IN
         /\ m.t = "request" => m.who \notin active
         /\ m.t = "stdin" /\ m.who \in active => StdinAllowed(session[m.who], m.n)
         /\ m.t = "outack" /\ m.who \in active =>
              AckAllowed(session[m.who].output_consumed, m.n, session[m.who].output_sent)
  /\ ring /= <<>> =>
       LET m == Head(ring) IN
         /\ m.t = "request" => Cardinality(Sessions) < MaxExecutions
         /\ m.t = "hello" => lease[m.who] = 0
         /\ m.t = "stdin" /\ guest[m.who].on => ~StdinRejected(guest[m.who], m.n)
         /\ m.t = "outack" /\ guest[m.who].on =>
              AckAllowed(guest[m.who].out_consumed, m.n, guest[m.who].out_sent)
  /\ back /= <<>> => Head(back).t = "bye" \/ ~AccountFails(Head(back))
  /\ \A id \in Ids : down[id] /= <<>> => ~MapperAborts(id, Head(down[id]))

\* A process in the guest always holds one of the relay's execution slots, so
\* the guest's own limit never refuses a request that the relay admitted.
GuestHoldsSlot == Sessions \subseteq active

\* Stdin permits are conserved: what the caller may still write and what it
\* wrote without an acknowledgement add up to the allowance, also when writes
\* are cancelled between reservation and commit.
PermitsConserved ==
  \A id \in Ids : sink[id].permits + sink[id].sent = InputLimit + sink[id].consumed

\* EOF never overtakes a byte: a process whose input is at its end was sent
\* everything the caller wrote.
EofComplete ==
  \A id \in Ids : Current(id) /\ guest[id].eof =>
    guest[id].received = sink[id].sent /\ sink[id].eof

InTransit(id, t) ==
  \E q \in {events, back, down[id]} : \E i \in 1..Len(q) :
    q[i].t = t /\ q[i].who = id /\ q[i].inc = life[Owner[id]]

\* The exit is the last word: once agentd has sent it, no output of the
\* execution is in transit and the caller has consumed all there was.
ExitAfterOutput ==
  \A id \in Ids :
    (\E q \in {back, down[id]} : \E i \in 1..Len(q) :
        q[i].t = "exited" /\ q[i].who = id /\ q[i].inc = life[Owner[id]])
    => ~InTransit(id, "output") /\ unread[id] = <<>>

\* A client never receives a frame of an earlier client of its ID range, and
\* the guest never applies one: ranges are reused only after the guest has
\* cleaned up behind the previous owner.
OwnFramesOnly ==
  /\ \A id \in Ids : \A i \in 1..Len(down[id]) : down[id][i].inc = life[Owner[id]]
  /\ ring /= <<>> /\ Head(ring).t \notin {"hello", "gone"} =>
       Head(ring).inc = lease[Owner[Head(ring).who]]
  /\ \A id \in Ids : guest[id].on => guest[id].inc = lease[Owner[id]]

-----------------------------------------------------------------------------
\* After a client has gone its slot is leased again, whatever was in transit.
SlotReclaimed == \A c \in Clients : link[c] = "down" ~> conn[c] = "free"

\* An execution whose process has ended gives its slot back, provided its
\* caller reads, or dropped, the output.
ExitReleasesSlot ==
  \A id \in Ids : guest[id].proc = "done" ~> id \notin active

\* Committed stdin is consumed and acknowledged, or the stream is closed.
StdinSettles ==
  \A id \in Ids : sink[id].sent > sink[id].consumed ~>
    sink[id].sent = sink[id].consumed \/ sink[id].closed
=============================================================================
