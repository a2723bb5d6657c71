------------------------------- MODULE BulkRead -------------------------------
(***************************************************************************)
(* One bulk file read, end to end, on a dual-port sandbox: the SDK's       *)
(* FsReadStream (sdk/rust sandbox/fs.rs) over the shared credit states     *)
(* (protocol bulk.rs), the relay's client reader and cross-lane merger     *)
(* (GuestMerger, whose actions are conjoined here with the frames that     *)
(* cause them), and in agentd the read task (fs.rs), the main loop and the *)
(* bulk scheduler (agent.rs).                                              *)
(*                                                                         *)
(* FIFO streams join them: the client's socket both ways, the control      *)
(* stream to the guest, agentd's queue of task output, its bulk queue and  *)
(* the two lanes back to the relay.  A client may drop the stream, give up *)
(* before it is accepted, or vanish; its slot, and the correlation ID,     *)
(* then go to the next client.                                             *)
(***************************************************************************)
EXTENDS GuestMerger, Sequences

SX == INSTANCE SequencesExt

CONSTANTS
  Read,       \* the correlation ID each client's read gets
  MaxSize,    \* bound: bytes of the file
  MaxRecord,  \* max_record_payload
  Window,     \* guest_to_host_credit_limit of the offer
  MayError,   \* whether the guest may fail to read the file
  UpCap,      \* frames the client's socket and the stream to the guest hold
  LaneCap     \* frames a guest queue or lane holds

ASSUME ReadAssumption ==
  /\ Ids = {Read} /\ MaxSize \in 0..MaxOffset /\ MayError \in BOOLEAN
  /\ MaxRecord \in Nat \ {0} /\ Window \in Nat \ {0}
  /\ UpCap \in Nat \ {0} /\ LaneCap \in Nat \ {0, 1}

VARIABLES
  slot,    \* "free", "leased" or "quarantined" until the guest has cleaned up
  cli,     \* the SDK's stream, its route and its BulkReceiveState
  file,    \* the file read, and whether the guest reported an error on it
  up,      \* frames from the client that its reader task has not read
  down,    \* frames for the client that it has not read
  ring,    \* control frames on their way to agentd
  lease,   \* AgentState.client_incarnations of the slot
  rd,      \* FsReadSession and its task with its BulkSendState
  events,  \* session_rx: what tasks have sent to agentd's main loop
  bulkq,   \* records queued for, and in, the bulk scheduler
  cmds,    \* purges queued for the bulk scheduler
  acking,  \* owners whose cleanup is done but not yet acknowledged
  ctl,     \* the control lane
  blk      \* the bulk lane

hostVars == <<slot, cli, file, up, down>>
guestVars == <<lease, rd, events, bulkq, cmds, acking>>
readVars == <<vars, hostVars, guestVars, ring, ctl, blk>>

(* Frames carry the owner whose operation they belong to, for the          *)
(* properties; on the wire only records and lifecycle frames do.           *)
Frame(t, n, m, o) == [t |-> t, n |-> n, m |-> m, o |-> o]

NoCredit == [consumed |-> 0, limit |-> 0]
NoRead == [pc |-> "off", o |-> Nobody, next |-> 0, consumed |-> 0, limit |-> 0,
           credit |-> NoCredit]
NoClient == [phase |-> "idle", o |-> Nobody, linked |-> FALSE,
             next |-> 0, limit |-> 0, fin |-> FALSE]

ReadInit ==
  /\ Init
  /\ slot = "free" /\ cli = NoClient
  /\ file = [size |-> 0, known |-> FALSE, erred |-> FALSE]
  /\ up = <<>> /\ down = <<>> /\ ring = <<>>
  /\ lease = Nobody /\ rd = NoRead
  /\ events = <<>> /\ bulkq = <<>> /\ cmds = <<>> /\ acking = {}
  /\ ctl = <<>> /\ blk = <<>>

-----------------------------------------------------------------------------
(* The SDK client. *)

ClientOnly == UNCHANGED <<vars, guestVars, ring, ctl, blk, slot, file>>

(* The accept loop leases the slot and announces its owner to the guest. *)
Arrive(o) ==
  /\ slot = "free" /\ Connect(o) /\ slot' = "leased"
  /\ cli' = [NoClient EXCEPT !.o = o, !.linked = TRUE]
  /\ \E n \in 0..MaxSize, known \in BOOLEAN :
       file' = [size |-> n, known |-> known, erred |-> FALSE]
  /\ up' = <<>> /\ down' = <<>>
  /\ ring' = Append(ring, Frame("hello", 0, 0, o))
  /\ UNCHANGED <<guestVars, ctl, blk>>

(* read_handle_stream: send the request with the offer. *)
Open ==
  /\ cli.linked /\ cli.phase = "idle" /\ Len(up) < UpCap
  /\ cli' = [cli EXCEPT !.phase = "opening"]
  /\ up' = Append(up, Frame("open", 0, 0, cli.o))
  /\ UNCHANGED down /\ ClientOnly

(* The caller gives up before the acceptance: nobody cancels the read. *)
GiveUp ==
  /\ cli.linked /\ cli.phase = "opening"
  /\ cli' = [cli EXCEPT !.phase = "abandoned"]
  /\ UNCHANGED <<up, down>> /\ ClientOnly

(* FsReadStream::drop sends a cancellation; the route drops later records. *)
DropStream ==
  /\ cli.linked /\ cli.phase = "open" /\ Len(up) < UpCap
  /\ cli' = [cli EXCEPT !.phase = "dropped"]
  /\ up' = Append(up, Frame("cancel", 0, 0, cli.o))
  /\ UNCHANGED down /\ ClientOnly

Vanish ==
  /\ cli.linked
  /\ cli' = [cli EXCEPT !.linked = FALSE, !.phase = "left"]
  /\ UNCHANGED <<up, down>> /\ ClientOnly

(* BulkReceiveState::accept_record *)
RecordOk(r) == ~ cli.fin /\ r.n = cli.next /\ r.m <= cli.limit

\* Mutant: a window that is used up is not replenished.
ReplenishesBelow(end) == end < cli.limit /\ cli.limit - end <= Window \div 2

(* BulkReceiveState::consume: replenish when half the window is left. *)
Replenishes(end) == cli.limit - end <= Window \div 2 /\ end + Window > cli.limit

(* FsReadStream::recv, one frame.  While the stream is open. *)
RecvRecord(r) ==
  /\ r.t = "record" /\ cli.phase = "open"
  /\ IF ~ RecordOk(r)
     THEN cli' = [cli EXCEPT !.phase = "invalid"] /\ UNCHANGED up
     ELSE IF Replenishes(r.m)
     THEN /\ Len(up) < UpCap
          /\ cli' = [cli EXCEPT !.next = r.m, !.limit = r.m + Window]
          /\ up' = Append(up, Frame("credit", r.m, r.m + Window, cli.o))
     ELSE cli' = [cli EXCEPT !.next = r.m] /\ UNCHANGED up

RecvFinish(r) ==
  /\ r.t = "finish" /\ cli.phase = "open"
  /\ cli' = [cli EXCEPT !.fin = TRUE,
                        !.phase = IF cli.fin \/ r.n # cli.next THEN "invalid" ELSE @]
  /\ UNCHANGED up

RecvCancel(r) ==
  /\ r.t = "cancel" /\ cli.phase \in {"opening", "open"}
  /\ cli' = [cli EXCEPT !.phase = "failed"]
  /\ UNCHANGED up

(* Success without an exact finish is an error of its own. *)
RecvTerminal(r) ==
  /\ r.t \in {"ok", "error"} /\ cli.phase \in {"opening", "open"}
  /\ cli' = [cli EXCEPT !.phase = IF r.t = "error" THEN "failed"
                                  ELSE IF cli.phase = "open" /\ cli.fin THEN "ok"
                                  ELSE "invalid"]
  /\ UNCHANGED up

(* receive_fs_bulk_acceptance *)
RecvAccepted(r) ==
  /\ cli.phase = "opening" /\ r.t \in {"accepted", "record", "finish"}
  /\ cli' = CASE r.t = "accepted" -> [cli EXCEPT !.phase = "open", !.limit = Window]
              [] r.t = "record" -> [cli EXCEPT !.phase = "invalid"]
              [] r.t = "finish" -> cli
  /\ UNCHANGED up

(* Frames for a stream that is over go nowhere. *)
RecvLate(r) ==
  /\ cli.phase \notin {"opening", "open"}
  /\ UNCHANGED <<cli, up>>

Recv ==
  /\ cli.linked /\ down # <<>> /\ down' = Tail(down)
  /\ LET r == Head(down) IN
       \/ RecvRecord(r)
       \/ RecvFinish(r)
       \/ RecvCancel(r)
       \/ RecvTerminal(r)
       \/ RecvAccepted(r)
       \/ RecvLate(r)
  /\ ClientOnly

-----------------------------------------------------------------------------
(* The relay.  client_reader_task reads the socket, ring_reader_task the   *)
(* two lanes.                                                              *)

Key == <<current, Read>>

RelayOnly == UNCHANGED <<guestVars, cli, file>>

\* Mutant: the request is forwarded before the operation is registered.
RelayOpenUnregistered ==
  /\ up # <<>> /\ Head(up).t = "open" /\ Len(ring) < UpCap /\ current # Nobody
  /\ up' = Tail(up) /\ ring' = Append(ring, Head(up))
  /\ UNCHANGED <<vars, slot, down, ctl, blk>> /\ RelayOnly

(* The operation is registered before its request can reach agentd. *)
RelayOpen ==
  /\ up # <<>> /\ Head(up).t = "open" /\ Len(ring) < UpCap
  /\ Register(Read)
  /\ up' = Tail(up) /\ ring' = Append(ring, Head(up))
  /\ UNCHANGED <<slot, down, ctl, blk>> /\ RelayOnly

RelayCredit ==
  /\ up # <<>> /\ Head(up).t = "credit" /\ Len(ring) < UpCap
  /\ current # Nobody
  /\ up' = Tail(up) /\ ring' = Append(ring, Head(up))
  /\ UNCHANGED <<vars, slot, down, ctl, blk>> /\ RelayOnly

(* A cancellation cuts the merger before it reaches agentd. *)
RelayCancel ==
  /\ up # <<>> /\ Head(up).t = "cancel" /\ Len(ring) < UpCap
  /\ current # Nobody
  /\ IF flows[Key].open THEN DropFlow(Read) ELSE UNCHANGED vars
  /\ up' = Tail(up) /\ ring' = Append(ring, Head(up))
  /\ UNCHANGED <<slot, down, ctl, blk>> /\ RelayOnly

(* The socket has ended, and the reader task cleans up after its client. *)
RelayRemove ==
  /\ ~ cli.linked /\ RemoveClient /\ slot' = "quarantined"
  /\ UNCHANGED <<up, down, ring, ctl, blk>> /\ RelayOnly

RelayBye ==
  /\ ring' = Append(ring, Frame("bye", 0, 0, leaving))
  /\ DropIncarnation
  /\ UNCHANGED <<slot, up, down, ctl, blk>> /\ RelayOnly

(* What drain_flow releases of flow f, in the order it pushes it. *)
RecordFrame(r) == Frame("record", r.off, r.end, Key[1])
Ready(f) ==
  IF ~ Drains(f) \/ DrainFails(f) THEN <<>>
  ELSE LET recs == SX!SetToSortSeq(Run(f), LAMBDA a, b : a.off < b.off) IN
       [j \in DOMAIN recs |-> RecordFrame(recs[j])]
         \o (IF FinishReady(f) THEN <<Frame("finish", f.finish, 0, Key[1])>> ELSE <<>>)
         \o (IF Completes(f) THEN <<Frame(f.terminal, 0, 0, Key[1])>> ELSE <<>>)

TakeControl(t) ==
  /\ ctl # <<>> /\ Head(ctl).t = t /\ current # Nobody
  /\ ctl' = Tail(ctl) /\ UNCHANGED <<slot, up, ring, blk>> /\ RelayOnly

RelayAccepted ==
  /\ TakeControl("accepted") /\ PushAccepted(Read, TRUE)
  /\ down' = IF flows[Key].open /\ ~ failed'
             THEN down \o <<Head(ctl)>>
                       \o Ready([flows[Key] EXCEPT !.accepted = TRUE, !.g2h = TRUE])
             ELSE down

RelayFinish ==
  /\ TakeControl("finish") /\ PushFinish(Read, Head(ctl).n)
  /\ down' = IF flows[Key].open /\ ~ failed'
             THEN down \o Ready(Finishing(flows[Key], Head(ctl).n))
             ELSE down

RelayGuestCancel ==
  /\ TakeControl("cancel") /\ PushCancel(Read)
  /\ down' = IF flows[Key].open THEN Append(down, Head(ctl)) ELSE down

RelayTerminal ==
  \E t \in {"ok", "error"} :
    /\ TakeControl(t) /\ PushTerminal(Read, t)
    /\ down' = IF \/ ~ flows[Key].open /\ Key \in retired
                  \/ flows[Key].open /\ TerminalWaits(flows[Key])
               THEN down ELSE Append(down, Head(ctl))

(* A control frame for a slot nobody owns is dropped. *)
RelayUnowned ==
  /\ ctl # <<>> /\ Head(ctl).t # "ack" /\ current = Nobody
  /\ ctl' = Tail(ctl)
  /\ UNCHANGED <<vars, slot, up, down, ring, blk>> /\ RelayOnly

\* Mutant: the owner a record names is not compared with the slot's.
RelayRecordAnyOwner ==
  /\ blk # <<>> /\ current # Nobody
  /\ LET r == [off |-> Head(blk).n, end |-> Head(blk).m] IN
       PushRaw(current, Read, r) /\ UNCHANGED down
  /\ blk' = Tail(blk)
  /\ UNCHANGED <<slot, up, ring, ctl>> /\ RelayOnly

(* The guest's acknowledgement returns the slot. *)
RelayAck ==
  /\ ctl # <<>> /\ Head(ctl).t = "ack"
  /\ ctl' = Tail(ctl) /\ slot' = "free"
  /\ UNCHANGED <<vars, up, down, ring, blk>> /\ RelayOnly

RelayRecord ==
  /\ blk # <<>> /\ Head(blk).o = current
  /\ LET r == [off |-> Head(blk).n, end |-> Head(blk).m] IN
       /\ PushRaw(current, Read, r)
       /\ down' = IF flows[Key].open /\ ~ flows[Key].cancelling /\ ~ failed'
                  THEN down \o Ready(Holding(flows[Key], r))
                  ELSE down
  /\ blk' = Tail(blk)
  /\ UNCHANGED <<slot, up, ring, ctl>> /\ RelayOnly

(* A record of an owner that has left is dropped. *)
RelayStale ==
  /\ blk # <<>> /\ Head(blk).o # current
  /\ blk' = Tail(blk)
  /\ UNCHANGED <<vars, slot, up, down, ring, ctl>> /\ RelayOnly

-----------------------------------------------------------------------------
(* agentd's main loop: handle_message on the next frame from the host. *)

TakeRing(t) ==
  /\ ring # <<>> /\ Head(ring).t = t /\ ring' = Tail(ring)
  /\ UNCHANGED <<vars, slot, cli, up, down, blk>>

Reply(frames) == Len(ctl) + Len(frames) <= LaneCap /\ ctl' = ctl \o frames

(* establish_relay_client; OwnerIsolation says its check cannot fail. *)
GuestHello ==
  /\ TakeRing("hello") /\ lease' = Head(ring).o
  /\ UNCHANGED <<file, rd, events, bulkq, cmds, acking, ctl>>

(* handle_fs_request: accept the offer and spawn the read task. *)
GuestOpen ==
  /\ TakeRing("open")
  /\ \/ /\ Reply(<<Frame("accepted", 0, 0, lease)>>)
        /\ rd' = [NoRead EXCEPT !.pc = "reading", !.o = lease, !.limit = Window]
        /\ UNCHANGED file
     \/ /\ MayError /\ Reply(<<Frame("error", 0, 0, lease)>>)
        /\ file' = [file EXCEPT !.erred = TRUE] /\ UNCHANGED rd
  /\ UNCHANGED <<lease, events, bulkq, cmds, acking>>

\* Mutant: the read task is left running.
CancelCorrelationKeepsTask ==
  /\ UNCHANGED rd
  /\ cmds' = Append(cmds, [t |-> "flow", o |-> lease])

(* cancel_bulk_correlation: stop the producer, then purge its records. *)
CancelCorrelation ==
  /\ rd' = NoRead
  /\ cmds' = Append(cmds, [t |-> "flow", o |-> lease])

(* Credit goes to the read's watch channel, which keeps the latest.  With  *)
(* no read session the correlation is cancelled and failed.                *)
GuestCredit ==
  /\ TakeRing("credit")
  /\ IF rd.pc = "off"
     THEN /\ CancelCorrelation
          /\ Reply(<<Frame("cancel", 0, 0, lease), Frame("error", 0, 0, lease)>>)
     ELSE /\ rd' = [rd EXCEPT !.credit = [consumed |-> Head(ring).n, limit |-> Head(ring).m]]
          /\ UNCHANGED <<cmds, ctl>>
  /\ UNCHANGED <<file, lease, events, bulkq, acking>>

GuestCancel ==
  /\ TakeRing("cancel") /\ CancelCorrelation
  /\ Reply(<<Frame("error", 0, 0, lease)>>)
  /\ UNCHANGED <<file, lease, events, bulkq, acking>>

(* disconnect_relay_client *)
GuestBye ==
  /\ TakeRing("bye")
  /\ IF lease = Head(ring).o
     THEN /\ lease' = Nobody /\ rd' = NoRead
          /\ cmds' = Append(cmds, [t |-> "owner", o |-> Head(ring).o])
     ELSE UNCHANGED <<lease, rd, cmds>>
  /\ UNCHANGED <<file, events, bulkq, acking, ctl>>

(* The main loop forwards task output, unless its owner has left.  The     *)
(* terminal ends the session.                                              *)
GuestEvent ==
  /\ events # <<>>
  /\ LET e == Head(events) IN
       IF e.t # "ack" /\ e.o # lease
       THEN UNCHANGED <<rd, ctl>>
       ELSE /\ Reply(<<e>>)
            /\ rd' = IF e.t \in {"ok", "error"} THEN NoRead ELSE rd
  /\ events' = Tail(events)
  /\ UNCHANGED <<vars, hostVars, ring, lease, bulkq, cmds, acking, blk>>

-----------------------------------------------------------------------------
(* handle_bulk_read_stream, the read task. *)

TaskOnly == UNCHANGED <<vars, slot, cli, up, down, ring, lease, cmds, acking, ctl, blk>>

\* Mutant: the last byte is taken for the end of the file.
AtEndEarly == rd.next + 1 >= file.size

(* BulkSendState::apply_credit accepts c. *)
CreditOk(c) ==
  /\ c.consumed <= rd.next /\ c.consumed <= c.limit
  /\ \/ c.consumed <= rd.consumed /\ c.limit <= rd.limit
     \/ c.consumed >= rd.consumed /\ c.limit >= rd.limit /\ c.limit >= rd.next

AtEnd == rd.next = file.size

(* The task waits for credit, unless it knows the length and is done. *)
Starved == rd.pc = "reading" /\ rd.limit <= rd.next /\ ~ (file.known /\ AtEnd)

TaskCredit ==
  /\ Starved /\ rd.credit # NoCredit
  /\ IF CreditOk(rd.credit)
     THEN rd' = [rd EXCEPT !.consumed = SX!Max({@, rd.credit.consumed}),
                           !.limit = SX!Max({@, rd.credit.limit}),
                           !.credit = NoCredit]
     ELSE rd' = [rd EXCEPT !.pc = "failing"]
  /\ UNCHANGED <<file, events, bulkq>> /\ TaskOnly

(* A read may come back short of the buffer. *)
TaskRecord ==
  /\ rd.pc = "reading" /\ Len(bulkq) < LaneCap
  /\ \E n \in 1..MaxRecord :
       /\ rd.next + n <= rd.limit /\ rd.next + n <= file.size
       /\ bulkq' = Append(bulkq, Frame("record", rd.next, rd.next + n, rd.o))
       /\ rd' = [rd EXCEPT !.next = @ + n]
  /\ UNCHANGED <<file, events>> /\ TaskOnly

TaskFinish ==
  /\ rd.pc = "reading" /\ ~ Starved /\ AtEnd /\ Len(events) < LaneCap
  /\ events' = Append(events, Frame("finish", rd.next, 0, rd.o))
  /\ rd' = [rd EXCEPT !.pc = "finished"]
  /\ UNCHANGED <<file, bulkq>> /\ TaskOnly

TaskRespond ==
  /\ rd.pc \in {"finished", "failing"} /\ Len(events) < LaneCap
  /\ events' = Append(events,
       Frame(IF rd.pc = "finished" THEN "ok" ELSE "error", 0, 0, rd.o))
  /\ rd' = [rd EXCEPT !.pc = "over"]
  /\ UNCHANGED <<file, bulkq>> /\ TaskOnly

TaskError ==
  /\ MayError /\ rd.pc = "reading" /\ ~ Starved
  /\ rd' = [rd EXCEPT !.pc = "failing"] /\ file' = [file EXCEPT !.erred = TRUE]
  /\ UNCHANGED <<events, bulkq>> /\ TaskOnly

-----------------------------------------------------------------------------
(* bulk_writer_task.  Purges go before records; a record in the writer's   *)
(* hand is completed, and counts as being in the lane.                     *)

BulkOnly == UNCHANGED <<vars, hostVars, ring, lease, rd, events, ctl>>

\* Mutant: a cleanup with nothing to purge is not acknowledged.
BulkPurgeSilent ==
  /\ cmds # <<>> /\ cmds' = Tail(cmds)
  /\ LET c == Head(cmds) IN
       /\ bulkq' = SelectSeq(bulkq, LAMBDA r : r.o # c.o)
       /\ acking' = IF c.t = "owner" /\ bulkq # <<>> THEN acking \cup {c.o} ELSE acking
  /\ UNCHANGED blk /\ BulkOnly

BulkPurge ==
  /\ cmds # <<>> /\ cmds' = Tail(cmds)
  /\ LET c == Head(cmds) IN
       /\ bulkq' = SelectSeq(bulkq, LAMBDA r : r.o # c.o)
       /\ acking' = IF c.t = "owner" THEN acking \cup {c.o} ELSE acking
  /\ UNCHANGED blk /\ BulkOnly

BulkWrite ==
  /\ cmds = <<>> /\ bulkq # <<>> /\ Len(blk) < LaneCap
  /\ blk' = Append(blk, Head(bulkq)) /\ bulkq' = Tail(bulkq)
  /\ UNCHANGED <<cmds, acking>> /\ BulkOnly

(* A task of its own acknowledges the cleanup through the control queue. *)
AckCleanup ==
  /\ Len(events) < LaneCap
  /\ \E o \in acking : /\ events' = Append(events, Frame("ack", 0, 0, o))
                       /\ acking' = acking \ {o}
  /\ UNCHANGED <<vars, hostVars, ring, lease, rd, bulkq, cmds, ctl, blk>>

-----------------------------------------------------------------------------
Caller == (\E o \in Owners : Arrive(o)) \/ Open \/ GiveUp \/ DropStream \/ Vanish

Relay ==
  \/ RelayOpen \/ RelayCredit \/ RelayCancel \/ RelayRemove \/ RelayBye
  \/ RelayAccepted \/ RelayFinish \/ RelayGuestCancel \/ RelayTerminal
  \/ RelayUnowned \/ RelayAck \/ RelayRecord \/ RelayStale

Guest == GuestHello \/ GuestOpen \/ GuestCredit \/ GuestCancel \/ GuestBye \/ GuestEvent

Task == TaskCredit \/ TaskRecord \/ TaskFinish \/ TaskRespond \/ TaskError

Bulk == BulkPurge \/ BulkWrite \/ AckCleanup

ReadNext == Caller \/ Recv \/ Relay \/ Guest \/ Task \/ Bulk

ReadSpec == ReadInit /\ [][ReadNext]_readVars

(* Everything but the caller runs by itself: tokio polls every ready task, *)
(* and the lanes are written and read without waiting for the caller.      *)
Fairness ==
  /\ WF_readVars(Recv) /\ WF_readVars(Task /\ ~ TaskError) /\ WF_readVars(GuestEvent)
  /\ WF_readVars(Guest /\ ~ GuestEvent)
  /\ WF_readVars(RelayOpen \/ RelayCredit \/ RelayCancel)
  /\ WF_readVars(RelayRemove \/ RelayBye)
  /\ WF_readVars(RelayAccepted \/ RelayFinish \/ RelayGuestCancel \/ RelayTerminal
                   \/ RelayUnowned \/ RelayAck)
  /\ WF_readVars(RelayRecord \/ RelayStale)
  /\ WF_readVars(BulkPurge \/ BulkWrite) /\ WF_readVars(AckCleanup)

FairReadSpec == ReadSpec /\ Fairness

-----------------------------------------------------------------------------
(* agentd and the relay keep to each other's protocol in every order the   *)
(* lanes are read: the merger never fails the data plane, and the read     *)
(* task never has to refuse credit.                                        *)
LanesAgree ==
  /\ ~ failed
  /\ Starved /\ rd.credit # NoCredit => CreditOk(rd.credit)

(* FsReadStream::recv never has to reject what arrives: records in order   *)
(* and within its credit, an exact finish, a success only after it.        *)
StreamValid == cli.phase # "invalid"

(* A read that ends well has delivered the whole file. *)
ReadExact == cli.phase = "ok" => cli.next = file.size

(* The slot's next owner reuses its IDs, and control frames do not name    *)
(* their owner; still no frame of a former owner reaches the next one or   *)
(* fails the merger, and the guest has cleaned up before it is told of the *)
(* new owner (establish_relay_client refuses a replacement).               *)
OwnerIsolation ==
  /\ ~ failed
  /\ \A j \in DOMAIN down : down[j].o = cli.o
  /\ ring # <<>> /\ Head(ring).t = "hello" => lease = Nobody

(* A file that reads well is read well: credit that arrives after the      *)
(* read's terminal response must not cancel the tail still on its way.     *)
LateCreditHarmless == cli.phase = "failed" => file.erred

(* Every read ends, however slowly either lane is read. *)
ReadEnds == cli.phase \in {"opening", "open"} ~> cli.phase \notin {"opening", "open"}

(* A dropped stream releases the guest's read task and its records. *)
DropReleases == cli.phase = "dropped" ~> rd.pc = "off" /\ bulkq = <<>>

(* A vanished client's slot is cleaned up and leased again. *)
SlotReturns == ~ cli.linked ~> slot = "free"
=============================================================================
