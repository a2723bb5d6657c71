--------------------------- MODULE WorkloadBarrier ---------------------------
(***************************************************************************)
(* The freeze barrier between the runtime and agentd: how a pause or a     *)
(* capture stops ordinary input at complete records, latches the guest's   *)
(* workload, drains its output to a cut, and lets input flow again only    *)
(* after a confirmed thaw; and how a captured guest is restored under a    *)
(* new host.                                                               *)
(*                                                                         *)
(* Host side: WorkloadControl (wc, private), the two writer tasks that ask *)
(* it for admission (writer, queue), the reader of the guest's frames, and *)
(* the coordinator thread that runs one attempt at a time (co).            *)
(* Guest side: agentd's main loop (guest), with its input ledger and its   *)
(* workload latch. A record counts as one unit of the bytes and of the     *)
(* frames the code counts separately under the same comparisons.           *)
(***************************************************************************)
EXTENDS Naturals, Sequences, FiniteSets

CONSTANTS
  Attempts,     \* attempt identities; the host may use one again
  None,
  DualPort,     \* a dedicated bulk console was negotiated
  Freezers,     \* subset of BOOLEAN: may the guest kernel have a freezer?
  FlowExec,     \* data records may be stdin of flow-controlled execs
  Window,       \* the input credit each class starts with
  Queue,        \* [Lanes -> Seq(Classes)]: what clients have queued
  MaxCommands,  \* bound on attempts and restored children, together
  MaxOutput     \* bound on the guest's output records

Lanes == {"primary", "bulk"}
Classes == {"control", "data"}
Waiters == Lanes \cup {"coordinator"}
Capacity == 2                        \* PRIVATE_QUEUE_CAPACITY

ASSUME FreezerAssumption == Freezers \subseteq BOOLEAN
ASSUME WindowAssumption == Window \in [Classes -> Nat]
ASSUME QueueAssumption == Queue \in [Lanes -> Seq(Classes)]
ASSUME PortAssumption == DualPort \/ Queue["bulk"] = <<>>

\* bulk_ring_writer_task asks for data credit alone.
ASSUME BulkAssumption == \A i \in DOMAIN Queue["bulk"] : Queue["bulk"][i] = "data"

VARIABLES
  wc,       \* WorkloadControl::state
  private,  \* its mailbox of lifecycle frames
  woken,    \* who was notified since it registered with `changed`
  writer,   \* [Lanes -> [pc, hold]]: ring_writer_task, bulk_ring_writer_task
  queue,    \* ordinary records not admitted yet
  wire,     \* [Lanes -> Seq]: frames pushed to the guest
  co,       \* the coordinator's attempt
  guest,    \* agentd
  toHost,   \* frames agentd flushed on the primary port
  bulkOut,  \* dedicated bulk records on their way to the host
  paused,   \* the VM's vCPUs are stopped
  attempts, restores, outputs

host == <<wc, private, woken, writer, queue, co>>
net == <<wire, toHost, bulkOut>>
vars == <<wc, private, woken, writer, queue, wire, co, guest, toHost,
          bulkOut, paused, attempts, restores, outputs>>

-----------------------------------------------------------------------------
(* WorkloadControl. *)

Position(n) == [c \in Classes |-> n]
Unparked == [l \in Lanes |-> l = "bulk" /\ ~DualPort]

\* install_ready, and for a restored child restore() after it.
FreshControl(position, credit, seen) ==
  [gates |-> 0, fenced |-> FALSE, parked |-> Unparked, position |-> position,
   credit |-> credit, seen |-> seen, tail |-> 0, pending |-> {},
   closed |-> FALSE]

\* notify_waiters reaches whoever has registered; its caller may be one.
Registered ==
  {l \in Lanes : writer[l].pc \in {"work", "sleep"}} \cup
  {w \in {"coordinator"} : co.pc \in {"pwait", "cwait"}}
Wake(who) == woken' = [w \in Waiters |-> woken[w] \/ w \in who]
Notify == Wake(Registered)
Gated(s) == s.gates # 0 \/ s.fenced

Gate(s) ==
  [s EXCEPT !.parked = IF s.gates = 0 THEN Unparked ELSE @, !.gates = @ + 1]

\* Mutant: a gate dropped without a thaw is released like any other.
DropGateUnfenced(s) == [s EXCEPT !.gates = @ - 1]

\* InputGate::release, and its drop without one.
Release(s) == [s EXCEPT !.gates = @ - 1]
DropGate(s) == [s EXCEPT !.fenced = TRUE, !.gates = @ - 1]

Park(s, l) == IF Gated(s) THEN [s EXCEPT !.parked[l] = TRUE] ELSE s

Admissible(s, c) ==
  ~s.closed /\ ~Gated(s) /\ s.position[c] + 1 <= s.credit[c]

\* update_credit refuses a grant that takes any back.
Regresses(s, credit) == \E c \in Classes : credit[c] < s.credit[c]

\* request(): refused while a same-named one is undrained or the queue full.
CanRequest(t) ==
  /\ ~wc.closed
  /\ Cardinality(wc.pending) < Capacity
  /\ ~\E p \in wc.pending : p.t = t /\ p.att = co.att
  /\ Len(private) < Capacity

Request(t, message) ==
  /\ CanRequest(t)
  /\ private' = Append(private, message)
  /\ wc' = [wc EXCEPT !.pending =
              @ \cup {[t |-> t, att |-> co.att, live |-> TRUE]}]

\* The waiter of a timed-out request is gone; its entry waits for the reply.
Abandon(s, t) ==
  [s EXCEPT !.pending = {IF p.t = t THEN [p EXCEPT !.live = FALSE] ELSE p :
                           p \in @}]

Matching(s, t, att) == {p \in s.pending : p.t = t /\ p.att = att}

\* close(): every waiter is told, nothing is admitted any more.
Closed(s) == [s EXCEPT !.closed = TRUE, !.pending = {}]

-----------------------------------------------------------------------------
(* The writer tasks. *)

\* The top of the loop: register with `changed`, then park if gated. The bulk
\* writer then waits; the primary one still has lifecycle frames to send.
WriterTop(l) ==
  /\ writer[l].pc = "top" /\ ~wc.closed
  /\ wc' = Park(wc, l)
  /\ woken' = [w \in Waiters |->
       IF w = l THEN wc' # wc ELSE woken[w] \/ (wc' # wc /\ w \in Registered)]
  /\ writer' = [writer EXCEPT ![l].pc =
                  IF l = "bulk" /\ Gated(wc) THEN "sleep" ELSE "work"]
  /\ UNCHANGED <<private, queue, co, guest, net, paused, attempts, restores,
                 outputs>>

\* The record a writer may send next: its head, or on the primary port a
\* control record behind a data record that has no credit.
Selectable(l) ==
  {i \in DOMAIN queue[l] :
     /\ Admissible(wc, queue[l][i])
     /\ i = 1 \/ /\ l = "primary" /\ queue[l][i] = "control"
                 /\ queue[l][1] = "data" /\ ~Admissible(wc, "data")}

RemoveRecord(s, i) == SubSeq(s, 1, i - 1) \o SubSeq(s, i + 1, Len(s))

\* Lifecycle frames first; a record is charged before its first byte leaves.
WriterTake(l) ==
  /\ writer[l].pc = "work"
  /\ IF l = "primary" /\ private # <<>>
       THEN /\ writer' = [writer EXCEPT ![l] =
                            [pc |-> "push", hold |-> Head(private)]]
            /\ private' = Tail(private)
            /\ UNCHANGED <<wc, queue>>
       ELSE /\ UNCHANGED private
            /\ \/ \E i \in Selectable(l) :
                    /\ wc' = [wc EXCEPT !.position[queue[l][i]] = @ + 1]
                    /\ writer' = [writer EXCEPT ![l] =
                         [pc |-> "push",
                          hold |-> [t |-> "input", class |-> queue[l][i]]]]
                    /\ queue' = [queue EXCEPT ![l] = RemoveRecord(@, i)]
               \/ /\ queue[l] # <<>> => 1 \notin Selectable(l)
                  /\ writer' = [writer EXCEPT ![l].pc = "sleep"]
                  /\ UNCHANGED <<wc, queue>>
  /\ UNCHANGED <<woken, co, guest, net, paused, attempts, restores, outputs>>

\* push_bulk_fragment: the writer finishes what it holds before it loops.
WriterPush(l) ==
  /\ writer[l].pc = "push"
  /\ wire' = [wire EXCEPT ![l] = Append(@, writer[l].hold)]
  /\ writer' = [writer EXCEPT ![l] = [pc |-> "top", hold |-> None]]
  /\ UNCHANGED <<wc, private, woken, queue, co, guest, toHost, bulkOut,
                 paused, attempts, restores, outputs>>

WriterWake(l) ==
  /\ writer[l].pc = "sleep"
  /\ woken[l] \/ (l = "primary" /\ private # <<>>)
  /\ writer' = [writer EXCEPT ![l].pc = "top"]
  /\ woken' = [woken EXCEPT ![l] = FALSE]
  /\ UNCHANGED <<wc, private, queue, co, guest, net, paused, attempts,
                 restores, outputs>>

-----------------------------------------------------------------------------
(* The coordinator: freeze_workload, pause_user, capture, thaw_workload. *)

Idle == [pc |-> "idle", kind |-> None, att |-> None, pos |-> None,
         target |-> 0, credit |-> None, reply |-> None]

UnchangedByCoordinator ==
  UNCHANGED <<writer, queue, net, guest, outputs>>

\* freeze_workload: ready(), then gate_input() takes the gate.
Begin(a) ==
  /\ co.pc = "idle" /\ ~wc.closed /\ attempts + restores < MaxCommands
  /\ attempts' = attempts + 1
  /\ wc' = Gate(wc)
  /\ Notify
  /\ co' = [Idle EXCEPT !.pc = "park", !.kind = "freeze", !.att = a]
  /\ UnchangedByCoordinator /\ UNCHANGED <<private, paused, restores>>

\* parked_position and wait_bulk_cut register, look, and sleep until notified.
Sleep(pc) ==
  /\ co' = [co EXCEPT !.pc = pc]
  /\ woken' = [woken EXCEPT !["coordinator"] = FALSE]
  /\ UnchangedByCoordinator
  /\ UNCHANGED <<wc, private, paused, attempts, restores>>

Woken(from, to) ==
  /\ co.pc = from /\ woken["coordinator"]
  /\ co' = [co EXCEPT !.pc = to]
  /\ woken' = [woken EXCEPT !["coordinator"] = FALSE]
  /\ UnchangedByCoordinator
  /\ UNCHANGED <<wc, private, paused, attempts, restores>>

\* A failure before any lifecycle request was admitted reopens the input.
GiveUp ==
  /\ wc' = Release(wc)
  /\ Notify
  /\ co' = Idle
  /\ UnchangedByCoordinator /\ UNCHANGED <<private, paused, attempts, restores>>

ParkCheck ==
  /\ co.pc = "park"
  /\ \/ wc.closed /\ GiveUp
     \/ /\ ~wc.closed /\ \A l \in Lanes : wc.parked[l]
        /\ co' = [co EXCEPT !.pos = wc.position,
                            !.pc = IF co.kind = "basic" THEN "held" ELSE "ask"]
        /\ UnchangedByCoordinator
        /\ UNCHANGED <<wc, private, woken, paused, attempts, restores>>
     \/ ~wc.closed /\ (\E l \in Lanes : ~wc.parked[l]) /\ Sleep("pwait")

ParkTimeout == co.pc = "pwait" /\ GiveUp

\* Only an acknowledged thaw opens the gate again. Anything else drops it,
\* which fences the input, and stops the VM if it can be stopped.
FailClosed ==
  /\ wc' = DropGate(wc)
  /\ Notify
  /\ paused' \in {paused, TRUE}
  /\ co' = [co EXCEPT !.pc = "dead"]
  /\ UnchangedByCoordinator /\ UNCHANGED <<private, attempts, restores>>

AskFreeze ==
  /\ co.pc = "ask"
  /\ \/ /\ Request("freeze", [t |-> "freeze", att |-> co.att, pos |-> co.pos])
        /\ co' = [co EXCEPT !.pc = "frozenwait"]
     \/ /\ ~CanRequest("freeze")
        /\ co' = [co EXCEPT !.pc = "askthaw"]
        /\ UNCHANGED <<wc, private>>
  /\ UnchangedByCoordinator /\ UNCHANGED <<woken, paused, attempts, restores>>

\* Frozen: take its credit and wait for the output cut. No freezer: reopen,
\* and a pause may still stop the kernel alone. Anything else: recover.
FreezeReply ==
  /\ co.pc = "frozenwait" /\ co.reply # None
  /\ LET m == co.reply IN
     \/ /\ m.t = "error" /\ m.disp = "unavailable"
        /\ \/ GiveUp
           \/ /\ wc' = Release(wc)
              /\ Notify
              /\ co' = [co EXCEPT !.pc = "regate", !.kind = "basic",
                                  !.reply = None]
              /\ UnchangedByCoordinator
              /\ UNCHANGED <<private, paused, attempts, restores>>
     \/ /\ m.t = "frozen" /\ ~Regresses(wc, m.credit)
        /\ wc' = [wc EXCEPT !.credit = m.credit]
        /\ Notify
        /\ co' = [co EXCEPT !.pc = "cut", !.target = m.target,
                            !.credit = m.credit, !.reply = None]
        /\ UnchangedByCoordinator
        /\ UNCHANGED <<private, paused, attempts, restores>>
     \/ /\ \/ m.t = "frozen" /\ Regresses(wc, m.credit)
           \/ m.t = "closed"
           \/ m.t = "error" /\ m.disp # "unavailable"
        /\ co' = [co EXCEPT !.pc = "askthaw", !.reply = None]
        /\ UnchangedByCoordinator
        /\ UNCHANGED <<wc, private, woken, paused, attempts, restores>>

\* pause_user without a freezer: gate again, for the kernel pause alone.
Regate ==
  /\ co.pc = "regate"
  /\ wc' = Gate(wc)
  /\ Notify
  /\ co' = [co EXCEPT !.pc = "park"]
  /\ UnchangedByCoordinator /\ UNCHANGED <<private, paused, attempts, restores>>

FreezeTimeout ==
  /\ co.pc = "frozenwait" /\ co.reply = None
  /\ wc' = Abandon(wc, "freeze")
  /\ co' = [co EXCEPT !.pc = "askthaw"]
  /\ UnchangedByCoordinator
  /\ UNCHANGED <<private, woken, paused, attempts, restores>>

\* Mutant: the cut is taken as reached without waiting for the output.
CutCheckAtOnce ==
  /\ co.pc = "cut"
  /\ co' = [co EXCEPT !.pc = IF wc.closed THEN "askthaw" ELSE "held"]
  /\ UnchangedByCoordinator
  /\ UNCHANGED <<wc, private, woken, paused, attempts, restores>>

CutCheck ==
  /\ co.pc = "cut"
  /\ \/ ~wc.closed /\ wc.seen < co.target /\ Sleep("cwait")
     \/ /\ wc.closed \/ wc.seen >= co.target
        /\ co' = [co EXCEPT !.pc =
             IF ~wc.closed /\ wc.seen = co.target /\ wc.tail = 0 THEN "held"
             ELSE "askthaw"]
        /\ UnchangedByCoordinator
        /\ UNCHANGED <<wc, private, woken, paused, attempts, restores>>

CutTimeout ==
  /\ co.pc = "cwait"
  /\ co' = [co EXCEPT !.pc = "askthaw"]
  /\ UnchangedByCoordinator
  /\ UNCHANGED <<wc, private, woken, paused, attempts, restores>>

\* vm.pause(); where it fails, or a required flush was not covered, the
\* workload is thawed at once.
VmPause ==
  /\ co.pc = "held"
  /\ \/ /\ paused' = TRUE
        /\ co' = [co EXCEPT !.pc = "paused"]
        /\ UnchangedByCoordinator
        /\ UNCHANGED <<wc, private, woken, attempts, restores>>
     \/ /\ co.kind = "freeze"
        /\ co' = [co EXCEPT !.pc = "askthaw"]
        /\ UnchangedByCoordinator
        /\ UNCHANGED <<wc, private, woken, paused, attempts, restores>>
     \/ co.kind = "basic" /\ GiveUp

\* The captures taken while paused leave this state alone; one that must not
\* resume the source drops its gate.
VmResume ==
  /\ co.pc = "paused"
  /\ \/ /\ paused' = FALSE
        /\ UnchangedByCoordinator
        /\ UNCHANGED <<private, attempts, restores>>
        /\ \/ /\ co.kind = "freeze"
              /\ co' = [co EXCEPT !.pc = "askthaw"]
              /\ UNCHANGED <<wc, woken>>
           \/ /\ co.kind = "basic"
              /\ wc' = Release(wc)
              /\ Notify
              /\ co' = Idle
     \/ FailClosed

AskThaw ==
  /\ co.pc = "askthaw"
  /\ \/ /\ Request("thaw", [t |-> "thaw", att |-> co.att, mode |-> "continue"])
        /\ co' = [co EXCEPT !.pc = "thawwait"]
        /\ UnchangedByCoordinator
        /\ UNCHANGED <<woken, paused, attempts, restores>>
     \/ ~CanRequest("thaw") /\ FailClosed

ThawReply ==
  /\ co.pc = "thawwait" /\ co.reply # None
  /\ IF co.reply.t = "thawed" THEN GiveUp ELSE FailClosed

ThawTimeout ==
  /\ co.pc = "thawwait" /\ co.reply = None
  /\ wc' = Abandon(DropGate(wc), "thaw")
  /\ Notify
  /\ paused' \in {paused, TRUE}
  /\ co' = [co EXCEPT !.pc = "dead"]
  /\ UnchangedByCoordinator /\ UNCHANGED <<private, attempts, restores>>

\* Mutant: the child's control starts afresh, restore() is not called.
ControlNotRestored == FreshControl(Position(0), Window, 0)

\* restore() seeds the child's control with the captured ledgers.
RestoredControl == FreshControl(co.pos, co.credit, co.target)

\* A child built from the capture: a new host over the captured guest. The
\* host keeps the captured position, credit and output cut, and thaws the
\* guest before its relay runs.
Restore ==
  /\ co.pc = "paused" /\ co.kind = "freeze"
  /\ attempts + restores < MaxCommands
  /\ restores' = restores + 1
  /\ wc' = RestoredControl
  /\ writer' = [l \in Lanes |-> [pc |-> "off", hold |-> None]]
  /\ queue' = Queue
  /\ wire' = [l \in Lanes |->
       IF l = "primary" THEN <<[t |-> "thaw", att |-> co.att, mode |-> "restore"]>>
       ELSE <<>>]
  /\ private' = <<>> /\ toHost' = <<>> /\ bulkOut' = 0
  /\ woken' = [w \in Waiters |-> FALSE]
  /\ paused' = FALSE
  /\ co' = [Idle EXCEPT !.pc = "restoring", !.att = co.att]
  /\ UNCHANGED <<guest, attempts, outputs>>

-----------------------------------------------------------------------------
(* The host's reader of the guest's frames. *)

UnchangedByReader ==
  UNCHANGED <<private, queue, wire, guest, paused, attempts, restores, outputs>>

\* The reader's error ends the relay, which closes the control.
ReaderFails ==
  /\ wc' = Closed(wc)
  /\ Notify
  /\ co' = IF \E p \in wc.pending : p.live
             THEN [co EXCEPT !.reply = [t |-> "closed"]] ELSE co
  /\ UNCHANGED writer

\* Mutant: a reply is matched by its attempt alone.
AnswersAnyRequest(m) == {p \in wc.pending : p.att = m.att}

Answers(m) ==
  CASE m.t = "frozen" -> Matching(wc, "freeze", m.att)
    [] m.t = "thawed" -> Matching(wc, "thaw", m.att)
    [] m.t = "error" -> Matching(wc, m.op, m.att)
    [] OTHER -> {}

\* reply(): a late acknowledgement drains the entry nobody waits on.
Reply(m) ==
  /\ wc' = [wc EXCEPT !.pending = @ \ Answers(m)]
  /\ co' = IF \E p \in Answers(m) : p.live THEN [co EXCEPT !.reply = m] ELSE co
  /\ UNCHANGED <<woken, writer>>

\* Mutant: a grant does not wake the writers.
TakeCreditSilently(m) ==
  IF Regresses(wc, m.credit) THEN ReaderFails
  ELSE /\ wc' = [wc EXCEPT !.credit = m.credit]
       /\ UNCHANGED <<woken, co, writer>>

TakeCredit(m) ==
  IF Regresses(wc, m.credit) THEN ReaderFails
  ELSE /\ wc' = [wc EXCEPT !.credit = m.credit]
       /\ Notify
       /\ UNCHANGED <<co, writer>>

\* handle_workload_frame, and the routing of any other frame. What follows a
\* frame has been read with it or has not: a reader pops whole chunks.
HostFrame ==
  /\ toHost # <<>> /\ ~wc.closed /\ co.pc # "restoring"
  /\ LET m == Head(toHost) IN
       \/ m.t \in {"output", "ack"} /\ UNCHANGED <<wc, woken, co, writer>>
       \/ m.t = "credit" /\ TakeCredit(m)
       \/ m.t \in {"frozen", "thawed", "error"} /\ Reply(m)
       \/ /\ m.t = "frozen" /\ Tail(toHost) # <<>>
          /\ \E p \in Answers(m) : p.live
          /\ ReaderFails
  /\ toHost' = Tail(toHost)
  /\ UnchangedByReader /\ UNCHANGED bulkOut

\* thaw_restored_workload: the relay starts only on the acknowledgement. It
\* would drop ordinary frames; the captured port holds none.
RestoreFrame ==
  /\ toHost # <<>> /\ ~wc.closed /\ co.pc = "restoring"
  /\ LET m == Head(toHost) IN
       \/ m.t = "credit" /\ TakeCredit(m)
       \/ /\ m.t = "thawed" /\ m.att = co.att
          /\ co' = Idle
          /\ writer' = [l \in Lanes |->
               [pc |-> IF l = "bulk" /\ ~DualPort THEN "off" ELSE "top",
                hold |-> None]]
          /\ UNCHANGED <<wc, woken>>
       \/ m.t = "error" /\ ReaderFails
  /\ toHost' = Tail(toHost)
  /\ UnchangedByReader /\ UNCHANGED bulkOut

\* Mutant: the coordinator is not told of the records it waits for.
NeedsCutNever == FALSE

NeedsCut == wc.gates # 0

\* The bulk lane: observed_bulk after each record, with what is left of the
\* bytes the reader has drained.
BulkObserve ==
  /\ bulkOut > 0 /\ ~wc.closed
  /\ wc' = [wc EXCEPT !.seen = @ + 1, !.tail = bulkOut - 1]
  /\ bulkOut' = bulkOut - 1
  /\ IF NeedsCut THEN Notify ELSE UNCHANGED woken
  /\ UnchangedByReader /\ UNCHANGED <<writer, co, toHost>>

-----------------------------------------------------------------------------
(* agentd: the workload latch and the lifecycle handlers. *)

Running(att) == [st |-> "running", att |-> att]     \* last_thawed
Frozen(att) == [st |-> "frozen", att |-> att]
Uncertain(att) == [st |-> "recovery", att |-> att]

Say(g, frames) == [g EXCEPT !.out = @ \o frames]

\* encode_workload_error.
Refuse(g, m, disposition) ==
  Say(g, <<[t |-> "error", op |-> m.t, att |-> m.att, disp |-> disposition]>>)

\* WorkloadLatch::freeze records its owner before it writes the cgroup, and a
\* heartbeat that cannot be paused rolls the freeze back.
LatchFreeze(g, m) ==
  LET latched == [g EXCEPT !.latch = Frozen(m.att),
                           !.restored = IF g.latch.st = "frozen" THEN @ ELSE None]
      frozen == [latched EXCEPT !.parked = TRUE, !.cut = g.pos]
      reply == [t |-> "frozen", att |-> m.att, credit |-> g.credit,
                target |-> IF DualPort THEN g.bulk ELSE 0]
      unwritten == [g EXCEPT !.latch = Uncertain(m.att)]
      undone == {[latched EXCEPT !.latch = l] : l \in {Running(m.att), Uncertain(m.att)}}
  IN IF ~g.freezer THEN {Refuse(g, m, "unavailable")}
     ELSE {Say(frozen, <<reply>>)} \cup
          {Refuse(x, m, "failed") :
             x \in undone \cup (IF g.latch.st = "running" THEN {unwritten} ELSE {})}

\* The cut names what the host has sent. Control records share this port's
\* order with the request; data records on the other port may still be due.
HandleFreeze(g, m) ==
  LET latched == g.latch.st # "running"
      clear == [g EXCEPT !.aborted = None]
  IN CASE \/ g.pend # None /\ g.pend # m
          \/ latched /\ g.latch # Frozen(m.att)
          \/ latched /\ g.cut # None /\ g.cut # m.pos
          \/ m.pos["control"] # g.pos["control"]
          \/ m.pos["data"] < g.pos["data"] -> {Refuse(g, m, "failed")}
       [] m.pos # g.pos -> {[clear EXCEPT !.pend = m]}
       [] OTHER -> LatchFreeze([clear EXCEPT !.pend = None], m)

Thawed(g, m) ==
  Say(g, <<[t |-> "credit", credit |-> g.credit], [t |-> "thawed", att |-> m.att]>>)

LatchThaw(g, m) ==
  LET resumed == [g EXCEPT !.resume = TRUE, !.cut = None,
                           !.latch = Running(m.att)]
  IN CASE g.latch = Running(m.att) -> {Thawed(resumed, m)}
       [] g.latch.st = "running" \/ g.latch.att # m.att ->
            {Refuse(g, m, "failed")}
       [] OTHER -> {Thawed(resumed, m),
                    Refuse([g EXCEPT !.latch = Uncertain(m.att)], m, "failed")}

\* A freeze still waiting for its cut, or one already abandoned, has nothing
\* to thaw; the waiting one is answered first. A restore drops the captured
\* clients, and the acknowledgements they were owed, once.
HandleThaw(g, m) ==
  LET running == g.latch.st = "running"
      first == m.mode = "restore" /\ g.restored # m.att
      clear == [g EXCEPT !.pend = None, !.aborted = m.att]
  IN CASE g.pend # None /\ g.pend.att # m.att -> {Refuse(g, m, "failed")}
       [] running /\ (g.pend # None \/ g.aborted = m.att) ->
            {IF m.mode = "restore" THEN Refuse(g, m, "failed")
             ELSE Thawed(IF g.pend = None THEN clear
                           ELSE Refuse(clear, g.pend, "failed"), m)}
       [] first /\ g.latch # Frozen(m.att) -> {Refuse(g, m, "failed")}
       [] first /\ g.latch = Frozen(m.att) ->
            LatchThaw([g EXCEPT !.restored = m.att, !.ack = FALSE], m)
       [] OTHER -> LatchThaw(g, m)

\* InputWindow::admit, behind the check that nothing crosses the frozen cut.
\* A flow-controlled exec's input may leave an acknowledgement to send.
HandleInput(g, class, acks) ==
  IF g.parked \/ g.pos[class] + 1 > g.credit[class]
    THEN {[g EXCEPT !.failed = TRUE]}
    ELSE {[g EXCEPT !.pos[class] = @ + 1, !.ack = a] :
            a \in {g.ack} \cup acks}

Handle(g, m) ==
  CASE m.t = "input" -> HandleInput(g, m.class,
                          IF m.class = "data" /\ FlowExec THEN {TRUE} ELSE {})
    [] m.t = "freeze" -> HandleFreeze(g, m)
    [] m.t = "thaw" -> HandleThaw(g, m)

-----------------------------------------------------------------------------
(* agentd: the main loop. *)

UnchangedByGuest == UNCHANGED <<host, paused, attempts, restores>>

GuestRuns == ~paused /\ ~guest.failed
PendReady == guest.pend # None /\ guest.pos["data"] >= guest.pend.pos["data"]

\* The arms of the select run between batches, after the top of the loop.
AtSelect == GuestRuns /\ ~guest.batch /\ ~guest.resume /\ ~PendReady

Flushed(g) == [g EXCEPT !.out = <<>>]

\* Mutant: another batch is read before the writers are released.
ReadsOnAlways == TRUE

\* After a thaw the drain loop stops at the end of its batch.
ReadsOn == guest.batch \/ ~guest.resume

\* One frame of a batch. A read may end after any frame; at its end stdin is
\* acknowledged and everything is flushed.
GuestFrame ==
  /\ GuestRuns /\ ReadsOn /\ wire["primary"] # <<>>
  /\ \E g \in Handle(guest, Head(wire["primary"])) :
       \/ /\ Len(wire["primary"]) > 1
          /\ guest' = [g EXCEPT !.batch = TRUE]
          /\ UNCHANGED toHost
       \/ /\ guest' = [Flushed(g) EXCEPT !.batch = FALSE, !.ack = FALSE]
          /\ toHost' = toHost \o g.out
                         \o (IF g.ack THEN <<[t |-> "ack"]>> ELSE <<>>)
  /\ wire' = [wire EXCEPT !["primary"] = Tail(@)]
  /\ UnchangedByGuest /\ UNCHANGED <<bulkOut, outputs>>

GuestResume ==
  /\ GuestRuns /\ ~guest.batch /\ guest.resume
  /\ guest' = [guest EXCEPT !.resume = FALSE, !.parked = FALSE]
  /\ UnchangedByGuest /\ UNCHANGED <<wire, toHost, bulkOut, outputs>>

GuestPendFreeze ==
  /\ GuestRuns /\ ~guest.batch /\ ~guest.resume /\ PendReady
  /\ \E g \in HandleFreeze([guest EXCEPT !.pend = None], guest.pend) :
       /\ guest' = Flushed(g)
       /\ toHost' = toHost \o g.out
  /\ UnchangedByGuest /\ UNCHANGED <<wire, bulkOut, outputs>>

GuestCredit ==
  /\ AtSelect /\ ~guest.parked /\ guest.credit # guest.sent
  /\ toHost' = Append(toHost, [t |-> "credit", credit |-> guest.credit])
  /\ guest' = [guest EXCEPT !.sent = guest.credit]
  /\ UnchangedByGuest /\ UNCHANGED <<wire, bulkOut, outputs>>

GuestBulkIn ==
  /\ AtSelect /\ wire["bulk"] # <<>>
  /\ guest' \in HandleInput(guest, "data", {})
  /\ wire' = [wire EXCEPT !["bulk"] = Tail(@)]
  /\ UnchangedByGuest /\ UNCHANGED <<toHost, bulkOut, outputs>>

GuestOutput ==
  /\ AtSelect /\ ~guest.parked /\ outputs < MaxOutput
  /\ toHost' = Append(toHost, [t |-> "output"])
  /\ outputs' = outputs + 1
  /\ UnchangedByGuest /\ UNCHANGED <<wire, guest, bulkOut>>

\* The bulk scheduler is a task of its own; it stops at complete records.
GuestBulkOut ==
  /\ GuestRuns /\ DualPort /\ ~guest.parked
  /\ outputs < MaxOutput
  /\ bulkOut' = bulkOut + 1
  /\ guest' = [guest EXCEPT !.bulk = @ + 1]
  /\ outputs' = outputs + 1
  /\ UnchangedByGuest /\ UNCHANGED <<wire, toHost>>

\* InputCharge's drop: whoever held a record is done with it.
Refund(c) ==
  /\ GuestRuns
  /\ guest.credit[c] < guest.pos[c] + Window[c]
  /\ guest' = [guest EXCEPT !.credit[c] = @ + 1]
  /\ UnchangedByGuest /\ UNCHANGED <<wire, toHost, bulkOut, outputs>>

-----------------------------------------------------------------------------
Init ==
  /\ wc = FreshControl(Position(0), Window, 0)
  /\ private = <<>>
  /\ woken = [w \in Waiters |-> FALSE]
  /\ writer = [l \in Lanes |->
       [pc |-> IF l = "bulk" /\ ~DualPort THEN "off" ELSE "top", hold |-> None]]
  /\ queue = Queue
  /\ wire = [l \in Lanes |-> <<>>]
  /\ co = Idle
  /\ guest \in {[freezer |-> f,
              pos |-> Position(0), credit |-> Window, sent |-> Window,
              pend |-> None, latch |-> Running(None), aborted |-> None,
              parked |-> FALSE, resume |-> FALSE, cut |-> None,
              restored |-> None, out |-> <<>>, ack |-> FALSE, batch |-> FALSE,
              bulk |-> 0, failed |-> FALSE] : f \in Freezers}
  /\ toHost = <<>> /\ bulkOut = 0
  /\ paused = FALSE
  /\ attempts = 0 /\ restores = 0 /\ outputs = 0

Writers ==
  \E l \in Lanes : WriterTop(l) \/ WriterTake(l) \/ WriterPush(l) \/ WriterWake(l)

\* What the coordinator's thread does without a decision of its caller.
Coordinator ==
  \/ ParkCheck \/ Woken("pwait", "park")
  \/ AskFreeze \/ FreezeReply \/ Regate
  \/ CutCheck \/ Woken("cwait", "cut")
  \/ AskThaw \/ ThawReply

Timeouts == ParkTimeout \/ FreezeTimeout \/ CutTimeout \/ ThawTimeout

Commands == (\E a \in Attempts : Begin(a)) \/ VmPause \/ VmResume \/ Restore

Reader == HostFrame \/ RestoreFrame

\* The arms of the loop that must run; output and refunds need not come.
GuestLoop ==
  GuestFrame \/ GuestResume \/ GuestPendFreeze

Next ==
  \/ Writers \/ Coordinator \/ Timeouts \/ Commands \/ Reader \/ BulkObserve
  \/ GuestLoop \/ GuestCredit \/ GuestBulkIn \/ GuestOutput \/ GuestBulkOut
  \/ \E c \in Classes : Refund(c)

\* Every task runs while it can. No timer is assumed to fire, no caller to
\* come, no guest process to produce or consume anything.
Fairness ==
  /\ \A l \in Lanes :
       WF_vars(WriterTop(l) \/ WriterTake(l) \/ WriterPush(l) \/ WriterWake(l))
  /\ WF_vars(Coordinator)
  /\ WF_vars(Reader)
  /\ WF_vars(BulkObserve)
  /\ WF_vars(GuestLoop)
  /\ WF_vars(GuestCredit)
  /\ WF_vars(GuestBulkIn)

Spec == Init /\ [][Next]_vars
FairSpec == Spec /\ Fairness

-----------------------------------------------------------------------------
(* Properties. *)

\* The host never sends the guest a record it must refuse: none crosses the
\* frozen cut (agent.rs, "crossed the frozen transport cut") and none exceeds
\* the credit (serial.rs, "host exceeded its transport admission credit").
NoCrossing == ~guest.failed

\* While a full attempt is held or its VM paused, the position the capture
\* records is the guest's own, nothing is on either input port, and the bulk
\* output the guest emitted has been read to the last record.
CutExact ==
  co.kind = "freeze" /\ co.pc \in {"held", "paused"} =>
    /\ guest.pos = co.pos /\ wc.position = co.pos
    /\ \A l \in Lanes : wire[l] = <<>> /\ writer[l].hold = None
    /\ guest.parked /\ guest.latch = Frozen(co.att)
    /\ DualPort => wc.seen = guest.bulk /\ bulkOut = 0 /\ wc.tail = 0

\* The two ledgers of one transport bracket each other for each class: what
\* the guest received, what the host sent, what the host may send, what the
\* guest grants.
LedgersOrdered ==
  \A c \in Classes :
    /\ guest.pos[c] <= wc.position[c]
    /\ wc.position[c] <= wc.credit[c]
    /\ wc.credit[c] <= guest.credit[c]

\* An ordinary record is admitted only when the guest runs its workload: the
\* VM is not paused, no freeze holds the latch or waits for its cut, and no
\* freeze is still on its way, whatever failed or timed out before.
AdmitsWhileRunning ==
  [][(restores' = restores /\ wc'.position # wc.position) =>
       /\ ~paused
       /\ guest.latch.st = "running" /\ guest.pend = None
       /\ \A m \in {private[i] : i \in DOMAIN private} \cup
                   {wire["primary"][i] : i \in DOMAIN wire["primary"]} \cup
                   {w.hold : w \in {x \in {writer["primary"]} : x.pc = "push"}} :
            m.t # "freeze"]_vars

\* A reply completes only the attempt it belongs to: what the coordinator is
\* handed is about its own attempt and the request it is waiting on, although
\* an abandoned request's reply may arrive during a later attempt.
OwnReply ==
  co.reply # None /\ co.reply.t # "closed" =>
    /\ co.reply.att = co.att
    /\ co.pc = "frozenwait" =>
         co.reply.t = "frozen" \/ (co.reply.t = "error" /\ co.reply.op = "freeze")
    /\ co.pc = "thawwait" =>
         co.reply.t = "thawed" \/ (co.reply.t = "error" /\ co.reply.op = "thaw")

\* The frozen acknowledgement ends the guest's primary stream until the thaw
\* (core.rs: the guest "writer parked"; VERSIONING.md: the guest "parks output
\* at complete frames"). agentd appends stdin acknowledgements at the end of
\* the batch that carried the freeze.
FrozenIsLast ==
  \A i \in DOMAIN toHost : \A j \in DOMAIN toHost :
    i < j /\ toHost[i].t = "frozen" =>
      \E k \in i+1..j : toHost[k].t \in {"credit", "error"}

\* Every attempt ends without a timer: parking, the freeze, the output cut
\* and the recovery each see the wakeup they wait for, up to a held cut, a
\* released gate or a fenced transport.
AttemptSettles ==
  co.pc \notin {"idle", "held", "paused", "dead", "restoring"} ~>
    (co.pc \in {"idle", "held", "paused", "dead"} \/ wc.closed)

\* A queued record the guest has granted credit for does not wait for ever
\* on an open gate: no grant, release or thaw is a wakeup a writer can miss.
InputMoves ==
  \A l \in Lanes :
    []<>~(/\ queue[l] # <<>> /\ ~Gated(wc) /\ ~wc.closed
          /\ co.pc # "restoring" /\ ~guest.failed
          /\ wc.position[Head(queue[l])] + 1 <= guest.credit[Head(queue[l])])
=============================================================================
