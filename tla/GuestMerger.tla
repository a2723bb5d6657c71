----------------------------- MODULE GuestMerger ------------------------------
(***************************************************************************)
(* The relay's cross-lane merger (GuestFrameMerger in runner/relay.rs) and *)
(* the ownership filter of the task that feeds it (ring_reader_task).  On  *)
(* a dual-port sandbox the guest writes bulk records on one console port   *)
(* and the control frames about them (acceptance, finish, cancellation,    *)
(* terminal response) on another, so the relay may read them in any        *)
(* relative order.  The merger rebuilds one stream per operation.          *)
(*                                                                         *)
(* The guest's frames are unconstrained here: the merger must keep its     *)
(* promise, or fail the relay, whatever arrives.  One relay slot is        *)
(* modelled; its successive clients are its Owners.  A bulk record names   *)
(* its owner, a control frame inherits the owner the slot has when the     *)
(* relay reads it.                                                         *)
(***************************************************************************)
EXTENDS Integers, FiniteSets

CONSTANTS
  Owners,        \* incarnations of the slot's clients
  Ids,           \* correlation IDs of the slot's range
  Nobody,        \* the slot is unowned
  MaxOffset,     \* bound: offsets the guest uses
  MaxRecords,    \* BULK_MERGE_MAX_PENDING_RECORDS
  FlowCapacity   \* BULK_WRITE_FLOW_CAPACITY

ASSUME MergerAssumption ==
  /\ Nobody \notin Owners
  /\ MaxOffset \in Nat /\ MaxRecords \in Nat /\ FlowCapacity \in Nat

VARIABLES
  current,   \* the incarnation in the slot's ClientState
  leaving,   \* the owner whose reader task is cleaning up after it
  used,      \* incarnations handed out so far
  flows,     \* GuestFrameMerger.flows
  retired,   \* GuestFrameMerger.retired
  failed,    \* the reader task has returned an error
  sent       \* history: what has been forwarded to each operation's client

vars == <<current, leaving, used, flows, retired, failed, sent>>

Keys == Owners \X Ids
None == -1
Offsets == 0..MaxOffset
Records == {r \in [off : Offsets, end : Offsets] : r.off < r.end}
Terminals == {"none", "ok", "error"}

Flow == [open : BOOLEAN, cancelling : BOOLEAN, accepted : BOOLEAN, g2h : BOOLEAN,
         next : Offsets, raw : SUBSET Records, bytes : Int,
         finish : Offsets \cup {None}, finished : BOOLEAN, terminal : Terminals]

Closed == [open |-> FALSE, cancelling |-> FALSE, accepted |-> FALSE, g2h |-> FALSE,
           next |-> 0, raw |-> {}, bytes |-> 0,
           finish |-> None, finished |-> FALSE, terminal |-> "none"]

Fresh == [Closed EXCEPT !.open = TRUE]

CS == INSTANCE ClientStream WITH stream <- sent

Init ==
  /\ current = Nobody /\ leaving = Nobody /\ used = {}
  /\ flows = [k \in Keys |-> Closed]
  /\ retired = {}
  /\ failed = FALSE
  /\ sent = [k \in Keys |-> CS!Untouched]

-----------------------------------------------------------------------------
(* Draining.  Held records start at or after `next' and do not overlap, so *)
(* the loop of drain_flow removes exactly the records up to the first byte *)
(* that no held record covers.                                             *)

Covered(raw, from, to) ==
  \A x \in from..(to - 1) : \E r \in raw : r.off <= x /\ x < r.end

RunOne(f) == {r \in f.raw : r.off = f.next}

Run(f) == {r \in f.raw : Covered(f.raw, f.next, r.end)}

Reach(f) ==
  IF Run(f) = {} THEN f.next
  ELSE CHOOSE e \in {r.end : r \in Run(f)} : \A r \in Run(f) : r.end <= e

DrainsEarly(f) == ~ f.cancelling

Drains(f) == ~ f.cancelling /\ f.accepted /\ f.g2h

FinishReady(f) == Drains(f) /\ f.finish = Reach(f)

(* drain_flow returns an error: records lie past the final offset. *)
DrainFails(f) == FinishReady(f) /\ f.raw # Run(f)

(* The flow once its deliverable records and its finish are forwarded. *)
Drained(f) ==
  IF ~ Drains(f) THEN f
  ELSE [f EXCEPT !.raw = @ \ Run(f),
                 !.next = Reach(f),
                 !.bytes = @ - (Reach(f) - f.next),
                 !.finish = IF FinishReady(f) THEN None ELSE @,
                 !.finished = @ \/ FinishReady(f)]

(* A held terminal goes out with the finish it was waiting for. *)
Completes(f) == FinishReady(f) /\ f.terminal # "none"

Bytes(rs) == UNION {r.off..(r.end - 1) : r \in rs}

(* What the client has seen once f is drained. *)
Seen(s, f) ==
  IF ~ Drains(f) THEN s
  ELSE [s EXCEPT !.bytes = @ \cup Bytes(Run(f)),
                 !.finish = IF FinishReady(f) THEN f.finish ELSE @,
                 !.ended = @ \/ Completes(f)]

(* Drain flow f of operation k, of which the client has already seen s. *)
Drain(k, f, s) ==
  IF DrainFails(f)
  THEN failed' = TRUE /\ UNCHANGED <<flows, retired, sent>>
  ELSE /\ flows' = [flows EXCEPT ![k] = IF Completes(f) THEN Closed ELSE Drained(f)]
       /\ retired' = IF Completes(f) THEN retired \cup {k} ELSE retired
       /\ sent' = [sent EXCEPT ![k] = Seen(s, f)]
       /\ UNCHANGED failed

Fail == failed' = TRUE /\ UNCHANGED <<flows, retired, sent>>

Ignore == UNCHANGED <<flows, retired, failed, sent>>

(* A frame for an operation the merger does not hold. *)
Unregistered(k) == /\ ~ flows[k].open
                   /\ IF k \in retired THEN Ignore ELSE Fail

-----------------------------------------------------------------------------
(* Commands from the client's reader task. *)

(* The accept loop leases a free slot under a fresh incarnation. *)
Connect(o) ==
  /\ ~ failed /\ current = Nobody /\ leaving = Nobody /\ o \notin used
  /\ current' = o /\ used' = used \cup {o}
  /\ UNCHANGED <<leaving, flows, retired, failed, sent>>

(* register: an ID is used once per incarnation, else the client is dropped. *)
Register(i) ==
  /\ ~ failed /\ current # Nobody
  /\ ~ flows[<<current, i>>].open /\ <<current, i>> \notin retired
  /\ flows' = [flows EXCEPT ![<<current, i>>] = Fresh]
  /\ UNCHANGED <<current, leaving, used, retired, failed, sent>>

(* A cancelled flow discards what it holds but, perhaps, a terminal. *)
Cut(f, held) == [f EXCEPT !.cancelling = TRUE, !.raw = {}, !.bytes = 0,
                          !.finish = None, !.terminal = held]

(* drop_flow: the client cancels an operation. *)
DropFlow(i) ==
  LET k == <<current, i>> IN
  /\ ~ failed /\ current # Nobody
  /\ flows[k].open
  /\ flows' = [flows EXCEPT ![k] = Cut(@, "none")]
  /\ sent' = [sent EXCEPT ![k] = [@ EXCEPT !.cut = TRUE]]
  /\ UNCHANGED <<current, leaving, used, retired, failed>>

(* The client leaves: its routing entry goes before its merger state. *)
RemoveClient ==
  /\ ~ failed /\ current # Nobody
  /\ current' = Nobody /\ leaving' = current
  /\ UNCHANGED <<used, flows, retired, failed, sent>>

(* drop_incarnation *)
DropIncarnation ==
  /\ ~ failed /\ leaving # Nobody
  /\ flows' = [k \in Keys |-> IF k[1] = leaving THEN Closed ELSE flows[k]]
  /\ retired' = {k \in retired : k[1] # leaving}
  /\ leaving' = Nobody
  /\ UNCHANGED <<current, used, failed, sent>>

-----------------------------------------------------------------------------
(* push: a control frame for correlation i, which belongs to the current   *)
(* owner; frames for an unowned slot are dropped before they get here.     *)

PushAccepted(i, g2h) ==
  LET k == <<current, i>>
      f == [flows[k] EXCEPT !.accepted = TRUE, !.g2h = g2h]
      s == [sent[k] EXCEPT !.accepted = TRUE]
  IN  /\ ~ failed /\ current # Nobody
      /\ \/ Unregistered(k)
         \/ /\ flows[k].open
            /\ IF flows[k].accepted \/ (~ g2h /\ flows[k].raw # {})
               THEN Fail
               ELSE Drain(k, f, s)
      /\ UNCHANGED <<current, leaving, used>>

(* The flow with its finish held, before it is drained. *)
Finishing(f, final) == [f EXCEPT !.finish = final]

PushFinish(i, final) ==
  LET k == <<current, i>>
      f == flows[k]
  IN  /\ ~ failed /\ current # Nobody
      /\ \/ Unregistered(k)
         \/ f.open /\ f.cancelling /\ Ignore
         \/ /\ f.open /\ ~ f.cancelling
            /\ IF \/ ~ f.accepted \/ ~ f.g2h
                  \/ final < f.next
                  \/ f.finish # None
               THEN Fail
               ELSE Drain(k, Finishing(f, final), sent[k])
      /\ UNCHANGED <<current, leaving, used>>

(* The guest cancels: a held terminal stays until the next one replaces it. *)
PushCancel(i) ==
  LET k == <<current, i>> IN
  /\ ~ failed /\ current # Nobody
  /\ \/ Unregistered(k)
     \/ /\ flows[k].open
        /\ flows' = [flows EXCEPT ![k] = Cut(@, @.terminal)]
        /\ sent' = [sent EXCEPT ![k] = [@ EXCEPT !.cut = TRUE]]
        /\ UNCHANGED <<retired, failed>>
  /\ UNCHANGED <<current, leaving, used>>

TerminalWaitsNot(f) == FALSE

TerminalWaits(f) == ~ f.cancelling /\ f.g2h /\ ~ f.finished /\ f.finish # None

(* A terminal for an ID without an operation belongs to no bulk stream. *)
PushTerminal(i, t) ==
  LET k == <<current, i>>
      f == flows[k]
  IN  /\ ~ failed /\ current # Nobody
      /\ \/ ~ f.open /\ Ignore
         \/ /\ f.open /\ ~ TerminalWaits(f)
            /\ flows' = [flows EXCEPT ![k] = Closed]
            /\ retired' = retired \cup {k}
            /\ sent' = [sent EXCEPT ![k] = [@ EXCEPT !.ended = TRUE]]
            /\ UNCHANGED failed
         \/ /\ f.open /\ TerminalWaits(f)
            /\ IF f.terminal # "none"
               THEN Fail
               ELSE /\ flows' = [flows EXCEPT ![k] = [@ EXCEPT !.terminal = t]]
                    /\ UNCHANGED <<retired, failed, sent>>
      /\ UNCHANGED <<current, leaving, used>>

-----------------------------------------------------------------------------
(* push_raw: record r of the owner o that the bulk lane names. *)

(* The records that start before r, and those that do not. *)
Before(f, r) == {q \in f.raw : q.off < r.off}
After(f, r) == {q \in f.raw : r.off <= q.off}

(* The map is searched from its front: range(..offset).next(). *)
PredecessorFirst(f, r) == {q \in Before(f, r) : \A p \in Before(f, r) : q.off <= p.off}

(* range(..offset).next_back(): the last one before r, if there is one. *)
Predecessor(f, r) == {q \in Before(f, r) : \A p \in Before(f, r) : p.off <= q.off}

(* range(offset..).next(): the first one from r on. *)
Successor(f, r) == {q \in After(f, r) : \A p \in After(f, r) : q.off <= p.off}

(* Only the neighbours are compared, not every held record. *)
Overlaps(f, r) ==
  \/ \E q \in f.raw : q.off = r.off
  \/ \E q \in Predecessor(f, r) : q.end > r.off
  \/ \E q \in Successor(f, r) : r.end > q.off

RecordFails(f, r) ==
  \/ f.finished
  \/ f.finish # None /\ r.end > f.finish
  \/ r.off < f.next
  \/ Overlaps(f, r)

InOrder(f, r) == f.accepted /\ f.g2h /\ r.off = f.next /\ f.raw = {}

OverBudgetByOne(f, r) ==
  \/ Cardinality(f.raw) > MaxRecords
  \/ f.bytes + (r.end - r.off) > FlowCapacity

OverBudget(f, r) ==
  \/ Cardinality(f.raw) >= MaxRecords
  \/ f.bytes + (r.end - r.off) > FlowCapacity

(* The flow with r held, before it is drained. *)
Holding(f, r) == [f EXCEPT !.raw = @ \cup {r}, !.bytes = @ + (r.end - r.off)]

PushRaw(o, i, r) ==
  LET k == <<o, i>>
      f == flows[k]
  IN  /\ ~ failed /\ current = o
      /\ \/ Unregistered(k)
         \/ f.open /\ f.cancelling /\ Ignore
         \/ /\ f.open /\ ~ f.cancelling
            /\ IF RecordFails(f, r) \/ (~ InOrder(f, r) /\ OverBudget(f, r))
               THEN Fail
               ELSE Drain(k, Holding(f, r), sent[k])
      /\ UNCHANGED <<current, leaving, used>>

Command ==
  \/ \E o \in Owners : Connect(o)
  \/ \E i \in Ids : Register(i) \/ DropFlow(i)
  \/ RemoveClient
  \/ DropIncarnation

GuestFrame ==
  \E i \in Ids :
    \/ \E g2h \in BOOLEAN : PushAccepted(i, g2h)
    \/ \E final \in Offsets : PushFinish(i, final)
    \/ PushCancel(i)
    \/ \E t \in {"ok", "error"} : PushTerminal(i, t)
    \/ \E o \in Owners, r \in Records : PushRaw(o, i, r)

Next == Command \/ GuestFrame

Spec == Init /\ [][Next]_vars

-----------------------------------------------------------------------------
(* Types of the merger's state. *)
TypeOK ==
  /\ current \in Owners \cup {Nobody} /\ leaving \in Owners \cup {Nobody}
  /\ used \subseteq Owners
  /\ flows \in [Keys -> Flow]
  /\ retired \subseteq Keys
  /\ failed \in BOOLEAN
  /\ sent \in [Keys -> [accepted : BOOLEAN, bytes : SUBSET Offsets,
                        finish : Offsets \cup {None}, cut : BOOLEAN, ended : BOOLEAN]]

(* push_raw's overlap tests look at one neighbour on each side only; they  *)
(* still keep all the records a flow holds apart and ahead of the bytes    *)
(* already forwarded, and none outlives a cancellation.                    *)
FlowHeldApart(f) ==
  /\ \A r \in f.raw : f.next <= r.off
  /\ \A q, r \in f.raw : q = r \/ q.end <= r.off \/ r.end <= q.off
  /\ f.cancelling => f.raw = {} /\ f.finish = None

HeldApart == \A k \in Keys : FlowHeldApart(flows[k])

(* What a flow holds is charged exactly, so that records which pass        *)
(* through never eat into the budget of those that must wait.              *)
FlowWithinBudget(f) ==
  /\ f.bytes = Cardinality(Bytes(f.raw))
  /\ Cardinality(f.raw) <= MaxRecords /\ f.bytes <= FlowCapacity

WithinBudget == \A k \in Keys : FlowWithinBudget(flows[k])

(* Nothing waits that could go: a held record waits for an earlier byte, a *)
(* held finish for the byte count it names, a held terminal for its finish *)
(* (or, after a cancellation by the guest, for the terminal that follows). *)
FlowWaitsForGap(f) ==
  /\ Drains(f) => \A r \in f.raw : f.next < r.off
  /\ f.finish # None => Drains(f) /\ f.next # f.finish
  /\ f.terminal # "none" => f.finish # None \/ f.cancelling

WaitsForGap == \A k \in Keys : FlowWaitsForGap(flows[k])

(* push: whatever order the two lanes are read in, each client sees an     *)
(* in-order stream that ends once.                                         *)
InOrderStream == CS!Spec

(* A terminal response does not overtake the finish read before it: a      *)
(* client that has not cancelled sees the whole stream first.              *)
TerminalAfterFinish ==
  [][\A k \in Keys :
       flows[k].finish # None /\ sent'[k].ended /\ ~ sent[k].ended
         => sent[k].cut \/ sent'[k].finish # None]_vars
=============================================================================
