-------------------------- MODULE GuestMergerProofs ---------------------------
(***************************************************************************)
(* The merger's promise, for any number of clients, operations and bytes,  *)
(* and for a guest that sends anything: what it forwards to each client is *)
(* the in-order stream of ClientStream, and what it holds back for each    *)
(* operation stays within its budget.                                      *)
(***************************************************************************)
EXTENDS GuestMerger, TLAPS, WellFoundedInduction

(* Every nonempty set of naturals has a least element. *)
LEMMA LeastNat ==
  ASSUME NEW S, S \subseteq Nat, S # {}
  PROVE  \E m \in S : \A n \in S : m <= n
<1>1. \E x \in S : \A y \in S : ~ (<<y, x>> \in OpToRel(<, Nat))
  BY NatLessThanWellFounded, WFMin, Zenon
<1>2. PICK x \in S : \A y \in S : ~ (<<y, x>> \in OpToRel(<, Nat))
  BY Zenon, <1>1
<1>3. \A y \in S : ~ (y < x)
  BY <1>2, Zenon DEF OpToRel
<1> QED
  BY <1>3

(* Every nonempty bounded set of naturals has a greatest element. *)
LEMMA GreatestNat ==
  ASSUME NEW S, NEW M \in Nat, S \subseteq 0..M, S # {}
  PROVE  \E m \in S : \A n \in S : n <= m
<1>1. PICK T : T = {n \in 0..M : M - n \in S}
  BY Zenon
<1>2. T \subseteq Nat /\ T # {}
  <2>1. PICK n \in S : TRUE
    BY Zenon
  <2>2. M - n \in 0..M /\ M - (M - n) = n
    OBVIOUS
  <2>3. M - n \in T
    BY <1>1, <2>2
  <2>4. T \subseteq Nat
    BY <1>1
  <2> QED
    BY <2>3, <2>4
<1>3. PICK t \in T : \A u \in T : t <= u
  BY Zenon, <1>2, LeastNat
<1>4. M - t \in S
  BY <1>1
<1>5. ASSUME NEW n \in S PROVE n <= M - t
  <2>1. M - n \in 0..M /\ M - (M - n) = n
    OBVIOUS
  <2> QED
    BY <1>1, <1>3, <2>1
<1> QED
  BY Zenon, <1>4, <1>5

-----------------------------------------------------------------------------
(* Draining. *)

(* The records a flow holds start at or after its next offset. *)
Ahead(f) == \A r \in f.raw : f.next <= r.off

(* drain_flow's loop advances to an offset at or past the next one, and    *)
(* everything in between is held.                                          *)
LEMMA ReachCovered ==
  ASSUME NEW f \in Flow, Ahead(f)
  PROVE  /\ Reach(f) \in Offsets /\ f.next <= Reach(f)
         /\ Covered(f.raw, f.next, Reach(f))
         /\ \A r \in Run(f) : r.end <= Reach(f)
<1>1. /\ f.next \in Offsets /\ f.raw \subseteq Records
      /\ Run(f) \subseteq f.raw /\ MaxOffset \in Nat
  BY MergerAssumption DEF Flow, Run
<1>2. \A r \in Records : r.off \in Offsets /\ r.end \in Offsets /\ r.off < r.end
  BY DEF Records
<1>3. CASE Run(f) = {}
  BY <1>1, <1>3 DEF Reach, Covered, Offsets
<1>4. CASE Run(f) # {}
  <2>1. PICK E : E = {r.end : r \in Run(f)}
    BY Zenon
  <2>2. E \subseteq 0..MaxOffset /\ E # {}
    BY <1>1, <1>2, <1>4, <2>1 DEF Offsets
  <2>3. \E m \in E : \A n \in E : n <= m
    BY Zenon, <1>1, <2>2, GreatestNat
  <2>4. \E e \in E : \A r \in Run(f) : r.end <= e
    BY <2>1, <2>3
  <2>5. Reach(f) \in E /\ \A r \in Run(f) : r.end <= Reach(f)
    BY <1>4, <2>1, <2>4 DEF Reach
  <2>6. PICK q \in Run(f) : Reach(f) = q.end
    BY <2>1, <2>5
  <2>7. f.next <= q.off /\ q \in Records /\ Covered(f.raw, f.next, q.end)
    BY <1>1, <2>6 DEF Ahead, Run
  <2>8. q.off \in Offsets /\ q.end \in Offsets /\ q.off < q.end
    BY <1>2, <2>7
  <2>9. f.next <= q.end
    BY <1>1, <2>7, <2>8 DEF Offsets
  <2> QED
    BY <2>5, <2>6, <2>7, <2>8, <2>9
<1> QED
  BY <1>3, <1>4

(* A held record that touches the covered run belongs to it. *)
LEMMA RunClosed ==
  ASSUME NEW f \in Flow, Ahead(f), NEW q \in f.raw, q.off <= Reach(f)
  PROVE  q \in Run(f)
<1>1. /\ f.next \in Int /\ Reach(f) \in Int /\ Covered(f.raw, f.next, Reach(f))
      /\ q.off \in Int /\ q.end \in Int
  BY ReachCovered, MergerAssumption DEF Flow, Offsets, Records
<1>2. ASSUME NEW x \in f.next..(q.end - 1)
      PROVE  \E r \in f.raw : r.off <= x /\ x < r.end
  <2>1. CASE x < Reach(f)
    BY <1>1, <2>1 DEF Covered
  <2>2. CASE Reach(f) <= x
    BY <1>1, <2>2
  <2> QED
    BY <1>1, <2>1, <2>2
<1> QED
  BY <1>2 DEF Run, Covered

(* The records drain_flow forwards are exactly the bytes from the next     *)
(* offset to the one it advances to.                                       *)
LEMMA RunBytes ==
  ASSUME NEW f \in Flow, Ahead(f)
  PROVE  Bytes(Run(f)) = f.next..(Reach(f) - 1)
<1>1. /\ f.next \in Int /\ Reach(f) \in Int /\ Covered(f.raw, f.next, Reach(f))
      /\ Run(f) \subseteq f.raw /\ \A r \in Run(f) : r.end <= Reach(f)
      /\ \A r \in f.raw : r.off \in Int /\ r.end \in Int /\ f.next <= r.off
  BY ReachCovered, MergerAssumption DEF Flow, Offsets, Records, Run, Ahead
<1>2. ASSUME NEW x \in Bytes(Run(f)) PROVE x \in f.next..(Reach(f) - 1)
  <2>1. PICK r \in Run(f) : x \in r.off..(r.end - 1)
    BY DEF Bytes
  <2> QED
    BY <1>1, <2>1
<1>3. ASSUME NEW x \in f.next..(Reach(f) - 1) PROVE x \in Bytes(Run(f))
  <2>1. PICK r \in f.raw : r.off <= x /\ x < r.end
    BY <1>1 DEF Covered
  <2>2. r \in Run(f)
    BY <1>1, <2>1, RunClosed
  <2>3. x \in r.off..(r.end - 1)
    BY <1>1, <2>1
  <2> QED
    BY <2>2, <2>3 DEF Bytes
<1> QED
  BY Zenon, <1>2, <1>3

-----------------------------------------------------------------------------
(* The inductive invariant. *)

Sent == [accepted : BOOLEAN, bytes : SUBSET Offsets, finish : Offsets \cup {None},
         cut : BOOLEAN, ended : BOOLEAN]

(* What an open flow remembers agrees with what its client has seen. *)
Agrees(f, s) ==
  /\ s.bytes = 0..(f.next - 1)
  /\ s.accepted = f.accepted /\ s.cut = f.cancelling /\ ~ s.ended
  /\ f.finished => f.raw = {} /\ s.finish = f.next
  /\ ~ f.finished => s.finish = None

KeyOK(k) ==
  /\ flows[k].open => /\ Agrees(flows[k], sent[k])
                      /\ k[1] \in {current, leaving} /\ k \notin retired
  /\ ~ flows[k].open => flows[k] = Closed
  /\ ~ flows[k].open /\ k \notin retired /\ (k[1] = current \/ k[1] \notin used)
        => sent[k] = CS!Untouched
  /\ k \in retired => k[1] \in {current, leaving}

SlotOK ==
  /\ current \in used \cup {Nobody} /\ leaving \in used \cup {Nobody}
  /\ current = Nobody \/ leaving = Nobody

MergerInv ==
  /\ TypeOK /\ HeldApart /\ WaitsForGap /\ SlotOK
  /\ \A k \in Keys : KeyOK(k)

-----------------------------------------------------------------------------
(* What drain_flow does to the fields of a flow that drains. *)
LEMMA DrainedFields ==
  ASSUME NEW f \in Flow, Drains(f), Ahead(f)
  PROVE  /\ Drained(f) \in Flow
         /\ Drained(f).open = f.open /\ Drained(f).cancelling = f.cancelling
         /\ Drained(f).accepted = f.accepted /\ Drained(f).g2h = f.g2h
         /\ Drained(f).next = Reach(f) /\ Drained(f).raw = f.raw \ Run(f)
         /\ Drained(f).finish = IF FinishReady(f) THEN None ELSE f.finish
         /\ Drained(f).finished = (f.finished \/ FinishReady(f))
         /\ Drained(f).terminal = f.terminal
<1>1. PICK raw : raw = f.raw \ Run(f)
  BY Zenon
<1>2. PICK next : next = Reach(f)
  OBVIOUS
<1>3. PICK fin : fin = IF FinishReady(f) THEN None ELSE f.finish
  OBVIOUS
<1>4. PICK done : done = (f.finished \/ FinishReady(f))
  OBVIOUS
<1>5. PICK bytes : bytes = f.bytes - (next - f.next)
  OBVIOUS
<1>6. Drained(f) = [f EXCEPT !.raw = raw, !.next = next, !.bytes = bytes,
                             !.finish = fin, !.finished = done]
  BY <1>1, <1>2, <1>3, <1>4, <1>5, Zenon DEF Drained
<1>7. /\ raw \in SUBSET Records /\ next \in Offsets /\ bytes \in Int
      /\ fin \in Offsets \cup {None} /\ done \in BOOLEAN
  BY <1>1, <1>2, <1>3, <1>4, <1>5, ReachCovered, MergerAssumption
     DEF Flow, Offsets, FinishReady, Drains
<1> QED
  BY Zenon, <1>1, <1>2, <1>3, <1>4, <1>6, <1>7 DEF Flow

(* What the client has seen once a flow is drained. *)
LEMMA SeenFields ==
  ASSUME NEW f \in Flow, Drains(f), Ahead(f), NEW s \in Sent, Agrees(f, s)
  PROVE  /\ Seen(s, f) \in Sent
         /\ Seen(s, f).accepted = s.accepted /\ Seen(s, f).cut = s.cut
         /\ Seen(s, f).bytes = 0..(Reach(f) - 1)
         /\ Seen(s, f).finish = IF FinishReady(f) THEN f.finish ELSE s.finish
         /\ Seen(s, f).ended = Completes(f)
<1>1. PICK bytes : bytes = s.bytes \cup Bytes(Run(f))
  BY Zenon
<1>2. PICK fin : fin = IF FinishReady(f) THEN f.finish ELSE s.finish
  OBVIOUS
<1>3. PICK done : done = (s.ended \/ Completes(f))
  OBVIOUS
<1>4. Seen(s, f) = [s EXCEPT !.bytes = bytes, !.finish = fin, !.ended = done]
  BY <1>1, <1>2, <1>3, Zenon DEF Seen
<1>5. bytes = 0..(Reach(f) - 1)
  <2>1. Bytes(Run(f)) = f.next..(Reach(f) - 1) /\ s.bytes = 0..(f.next - 1)
    BY RunBytes DEF Agrees
  <2>2. f.next \in Nat /\ Reach(f) \in Nat /\ f.next <= Reach(f)
    BY ReachCovered, MergerAssumption DEF Flow, Offsets
  <2> QED
    BY <1>1, <2>1, <2>2
<1>6. bytes \in SUBSET Offsets /\ fin \in Offsets \cup {None} /\ done \in BOOLEAN
  <2>1. Reach(f) \in Offsets
    BY ReachCovered
  <2> QED
    BY <1>2, <1>3, <1>5, <2>1, MergerAssumption
       DEF Flow, Sent, Offsets, FinishReady, Completes, Drains, Agrees
<1>7. done = Completes(f)
  BY <1>3 DEF Agrees, Completes, FinishReady, Drains
<1> QED
  BY Zenon, <1>2, <1>4, <1>5, <1>6, <1>7 DEF Sent

(* Draining keeps a flow's records apart, leaves nothing waiting that could *)
(* go, keeps the flow in agreement with its client, and extends what the   *)
(* client has seen in order.                                               *)
LEMMA DrainStep ==
  ASSUME NEW f \in Flow, FlowHeldApart(f), NEW s \in Sent, Agrees(f, s),
         f.finish # None => Drains(f),
         f.terminal # "none" => f.finish # None \/ f.cancelling,
         ~ DrainFails(f)
  PROVE  /\ Drained(f) \in Flow /\ Seen(s, f) \in Sent
         /\ Drained(f).open = f.open
         /\ FlowHeldApart(Drained(f))
         /\ CS!Extends(s, Seen(s, f))
         /\ ~ Completes(f) => /\ FlowWaitsForGap(Drained(f))
                              /\ Agrees(Drained(f), Seen(s, f))
<1>1. Ahead(f)
  BY DEF Ahead, FlowHeldApart
<1>2. /\ f.next \in Offsets /\ f.raw \subseteq Records /\ MaxOffset \in Nat
      /\ f.finish \in Offsets \cup {None} /\ Run(f) \subseteq f.raw
      /\ f.finished \in BOOLEAN /\ f.open \in BOOLEAN
      /\ f.cancelling \in BOOLEAN /\ f.accepted \in BOOLEAN /\ f.g2h \in BOOLEAN
      /\ s.bytes \subseteq Offsets /\ s.finish \in Offsets \cup {None}
      /\ s.accepted \in BOOLEAN /\ s.cut \in BOOLEAN /\ s.ended \in BOOLEAN
  BY MergerAssumption DEF Flow, Sent, Run
<1>3. \A r \in Records : r.off \in Int /\ r.end \in Int /\ r.off < r.end
  BY MergerAssumption DEF Records, Offsets
<1>4. CASE ~ Drains(f)
  <2>1. Drained(f) = f /\ Seen(s, f) = s
    BY <1>4 DEF Drained, Seen
  <2>2. CS!Extends(s, s)
    BY <1>2 DEF CS!Extends, CS!Prefix, Agrees, CS!Unfinished, None, Offsets
  <2>3. FlowWaitsForGap(f)
    BY <1>4 DEF FlowWaitsForGap
  <2> QED
    BY <2>1, <2>2, <2>3
<1>5. CASE Drains(f)
  <2>1. PICK g : g = Drained(f)
    OBVIOUS
  <2>2. PICK t : t = Seen(s, f)
    OBVIOUS
  <2>3. /\ Reach(f) \in Offsets /\ f.next <= Reach(f)
        /\ \A r \in Run(f) : r.end <= Reach(f)
    BY <1>1, ReachCovered
  <2>4. \A r \in f.raw \ Run(f) : Reach(f) < r.off
    BY <1>1, <1>2, <1>3, <2>3, RunClosed DEF Offsets
  <2>5. /\ g \in Flow
        /\ g.open = f.open /\ g.cancelling = f.cancelling
        /\ g.accepted = f.accepted /\ g.g2h = f.g2h
        /\ g.next = Reach(f) /\ g.raw = f.raw \ Run(f)
        /\ g.finish = IF FinishReady(f) THEN None ELSE f.finish
        /\ g.finished = (f.finished \/ FinishReady(f))
        /\ g.terminal = f.terminal
    BY <1>1, <1>5, <2>1, DrainedFields
  <2>6. /\ t \in Sent
        /\ t.accepted = s.accepted /\ t.cut = s.cut
        /\ t.bytes = 0..(Reach(f) - 1)
        /\ t.finish = IF FinishReady(f) THEN f.finish ELSE s.finish
        /\ t.ended = Completes(f)
    BY <1>1, <1>5, <2>2, SeenFields
  <2>7. f.finished => Run(f) = {} /\ Reach(f) = f.next
    BY <1>2 DEF Agrees, Reach
  <2>8. FinishReady(f) => f.raw = Run(f) /\ f.finish = Reach(f)
    BY DEF DrainFails, FinishReady
  <2>9. FlowHeldApart(g)
    BY <1>2, <1>3, <1>5, <2>3, <2>4, <2>5 DEF FlowHeldApart, Drains, Offsets
  <2>10. CS!Extends(s, t)
    <3>1. s.bytes = 0..(f.next - 1) /\ ~ s.ended /\ s.accepted /\ ~ s.cut
      BY <1>5 DEF Agrees, Drains
    <3>2. s.bytes \subseteq t.bytes /\ CS!Prefix(t.bytes)
      BY <1>2, <2>3, <2>6, <3>1 DEF CS!Prefix, Offsets
    <3>3. t.bytes # s.bytes => s.finish = None
      BY <2>6, <2>7, <3>1 DEF Agrees
    <3>4. t.finish # s.finish => s.finish = None /\ t.bytes = 0..(t.finish - 1)
      BY <2>6, <2>7, <2>8 DEF Agrees
    <3> QED
      BY <2>6, <3>1, <3>2, <3>3, <3>4 DEF CS!Extends, CS!Unfinished, None
  <2>11. ASSUME ~ Completes(f) PROVE FlowWaitsForGap(g)
    <3>1. f.terminal # "none" => ~ FinishReady(f)
      BY <2>11 DEF Completes
    <3>2. f.finish # Reach(f) \/ FinishReady(f)
      BY <1>5 DEF FinishReady
    <3>3. \A r \in g.raw : g.next < r.off
      BY <2>4, <2>5
    <3>4. Drains(g)
      BY <1>5, <2>5 DEF Drains
    <3> QED
      BY <2>5, <3>1, <3>2, <3>3, <3>4 DEF FlowWaitsForGap
  <2>12. ASSUME ~ Completes(f) PROVE Agrees(g, t)
    <3>1. g.finished => g.raw = {} /\ t.finish = g.next
      BY Zenon, <2>5, <2>6, <2>7, <2>8 DEF Agrees
    <3>2. ~ g.finished => t.finish = None
      BY Zenon, <2>5, <2>6 DEF Agrees
    <3> QED
      BY <2>5, <2>6, <2>12, <3>1, <3>2 DEF Agrees
  <2> QED
    BY <2>1, <2>2, <2>5, <2>6, <2>9, <2>10, <2>11, <2>12
<1> QED
  BY <1>4, <1>5

-----------------------------------------------------------------------------
(* A step that touches one operation of the slot's current owner. *)
LEMMA OneOperation ==
  ASSUME MergerInv, NEW k \in Keys, k[1] = current, NEW g \in Flow, NEW t \in Sent,
         UNCHANGED <<current, leaving, used, failed>>,
         flows' = [flows EXCEPT ![k] = g], sent' = [sent EXCEPT ![k] = t],
         \/ /\ retired' = retired /\ k \notin retired
            /\ g.open /\ Agrees(g, t) /\ FlowHeldApart(g) /\ FlowWaitsForGap(g)
         \/ g = Closed /\ retired' = retired \cup {k}
  PROVE  MergerInv'
<1>1. TypeOK'
  BY DEF MergerInv, TypeOK, Sent
<1>2. \A j \in Keys \ {k} : flows'[j] = flows[j] /\ sent'[j] = sent[j]
                            /\ (j \in retired' <=> j \in retired)
  BY DEF MergerInv, TypeOK
<1>3. flows'[k] = g /\ sent'[k] = t
  BY DEF MergerInv, TypeOK
<1>4. HeldApart' /\ WaitsForGap'
  <2>1. FlowHeldApart(Closed) /\ FlowWaitsForGap(Closed)
    BY DEF Closed, FlowHeldApart, FlowWaitsForGap, Drains
  <2>2. FlowHeldApart(g) /\ FlowWaitsForGap(g)
    BY <2>1
  <2>3. \A j \in Keys : FlowHeldApart(flows'[j]) /\ FlowWaitsForGap(flows'[j])
    BY <1>2, <1>3, <2>2 DEF MergerInv, HeldApart, WaitsForGap
  <2> QED
    BY <2>3 DEF HeldApart, WaitsForGap
<1>5. SlotOK'
  BY DEF MergerInv, SlotOK
<1>6. ASSUME NEW j \in Keys PROVE KeyOK(j)'
  <2>1. CASE j # k
    BY <1>2, <2>1 DEF MergerInv, KeyOK
  <2>2. CASE j = k /\ g.open
    BY <1>3, <2>2 DEF KeyOK, Closed
  <2>3. CASE j = k /\ ~ g.open
    BY Zenon, <1>3, <2>3 DEF KeyOK, Closed
  <2> QED
    BY <2>1, <2>2, <2>3
<1> QED
  BY <1>1, <1>4, <1>5, <1>6 DEF MergerInv

(* ...and extends what its client has seen is a step of ClientStream. *)
LEMMA OneForward ==
  ASSUME MergerInv, NEW k \in Keys, NEW t \in Sent, CS!Extends(sent[k], t),
         sent' = [sent EXCEPT ![k] = t]
  PROVE  CS!Next
<1>1. sent'[k] = t /\ sent' = [sent EXCEPT ![k] = sent'[k]]
  BY DEF MergerInv, TypeOK
<1> QED
  BY Zenon, <1>1 DEF CS!Next, CS!Forward

(* drain_flow as a step of the relay: f is the current owner's flow k with  *)
(* the frame just read added, s what its client has seen by then.          *)
LEMMA DrainAction ==
  ASSUME MergerInv, NEW k \in Keys, k[1] = current, k \notin retired,
         UNCHANGED <<current, leaving, used>>,
         NEW f \in Flow, NEW s \in Sent, f.open, Agrees(f, s), FlowHeldApart(f),
         f.finish # None => Drains(f),
         f.terminal # "none" => f.finish # None \/ f.cancelling,
         \A t \in Sent : CS!Extends(s, t) => CS!Extends(sent[k], t),
         Drain(k, f, s)
  PROVE  MergerInv' /\ (CS!Next \/ UNCHANGED sent)
<1>1. CASE DrainFails(f)
  BY <1>1 DEF Drain, MergerInv, TypeOK, HeldApart, WaitsForGap, SlotOK, KeyOK
<1>2. CASE ~ DrainFails(f)
  <2>1. /\ Drained(f) \in Flow /\ Seen(s, f) \in Sent
        /\ Drained(f).open = f.open
        /\ FlowHeldApart(Drained(f))
        /\ CS!Extends(s, Seen(s, f))
        /\ ~ Completes(f) => /\ FlowWaitsForGap(Drained(f))
                             /\ Agrees(Drained(f), Seen(s, f))
    BY Zenon, <1>2, DrainStep
  <2>2. CS!Next
    BY <1>2, <2>1, OneForward DEF Drain
  <2>3. Closed \in Flow
    BY MergerAssumption DEF Closed, Flow, Offsets, Terminals, None
  <2>4. MergerInv'
    BY Zenon, <1>2, <2>1, <2>3, OneOperation DEF Drain
  <2> QED
    BY <2>2, <2>4
<1> QED
  BY <1>1, <1>2

-----------------------------------------------------------------------------
(* The types the steps below need, stated once. *)
LEMMA OwnerFacts ==
  ASSUME MergerInv, current # Nobody, NEW i \in Ids
  PROVE  /\ <<current, i>> \in Keys /\ <<current, i>>[1] = current
         /\ flows[<<current, i>>] \in Flow /\ sent[<<current, i>>] \in Sent
         /\ FlowHeldApart(flows[<<current, i>>])
         /\ FlowWaitsForGap(flows[<<current, i>>])
         /\ flows[<<current, i>>].open =>
              /\ Agrees(flows[<<current, i>>], sent[<<current, i>>])
              /\ <<current, i>> \notin retired
         /\ ~ flows[<<current, i>>].open /\ <<current, i>> \notin retired
              => sent[<<current, i>>] = CS!Untouched
<1>1. <<current, i>> \in Keys /\ <<current, i>>[1] = current
  BY DEF MergerInv, TypeOK, Keys
<1>2. flows[<<current, i>>] \in Flow /\ sent[<<current, i>>] \in Sent
  BY <1>1 DEF MergerInv, TypeOK, Sent
<1>3. KeyOK(<<current, i>>)
  BY <1>1 DEF MergerInv
<1> QED
  BY <1>1, <1>2, <1>3 DEF MergerInv, HeldApart, WaitsForGap, KeyOK

(* The invariant does not mention how the reader task ends. *)
LEMMA Stuttering ==
  ASSUME MergerInv, UNCHANGED <<current, leaving, used, flows, retired, sent>>,
         failed' \in BOOLEAN
  PROVE  MergerInv'
BY DEF MergerInv, TypeOK, HeldApart, WaitsForGap, SlotOK, KeyOK

(* A cancelled flow agrees with a client that is told of the cut. *)
LEMMA CutStep ==
  ASSUME NEW f \in Flow, f.open, NEW s \in Sent, Agrees(f, s), NEW held \in Terminals
  PROVE  LET g == Cut(f, held)
             t == [s EXCEPT !.cut = TRUE]
         IN  /\ g \in Flow /\ g.open /\ t \in Sent
             /\ Agrees(g, t) /\ FlowHeldApart(g) /\ FlowWaitsForGap(g)
             /\ CS!Extends(s, t)
<1>1. PICK g : g = Cut(f, held)
  OBVIOUS
<1>2. PICK t : t = [s EXCEPT !.cut = TRUE]
  BY Zenon
<1>3. /\ g \in Flow /\ g.open = f.open /\ g.next = f.next /\ g.raw = {}
      /\ g.cancelling /\ g.accepted = f.accepted
      /\ g.finished = f.finished /\ g.finish = None /\ g.terminal = held
  <2>1. PICK raw, bytes, fin : raw = {} /\ bytes = 0 /\ fin = None
    BY Zenon
  <2>2. raw \in SUBSET Records /\ bytes \in Int /\ fin \in Offsets \cup {None}
    BY <2>1
  <2>3. g = [f EXCEPT !.cancelling = TRUE, !.raw = raw, !.bytes = bytes,
                      !.finish = fin, !.terminal = held]
    BY <1>1, <2>1, Zenon DEF Cut
  <2> QED
    BY Zenon, <2>1, <2>2, <2>3 DEF Flow
<1>4. /\ t \in Sent /\ t.cut /\ t.accepted = s.accepted
      /\ t.bytes = s.bytes /\ t.finish = s.finish /\ t.ended = s.ended
  BY Zenon, <1>2 DEF Sent
<1>5. Agrees(g, t) /\ FlowHeldApart(g) /\ FlowWaitsForGap(g)
  BY <1>3, <1>4 DEF Agrees, FlowHeldApart, FlowWaitsForGap, Drains
<1>6. CS!Prefix(t.bytes)
  BY <1>4, MergerAssumption DEF CS!Prefix, Agrees, Flow, Offsets
<1>7. CS!Extends(s, t)
  BY <1>4, <1>6 DEF CS!Extends, Agrees
<1> QED
  BY <1>1, <1>2, <1>3, <1>4, <1>5, <1>7

(* Command keeps the invariant. *)
LEMMA CommandStep ==
  ASSUME MergerInv, Command
  PROVE  MergerInv' /\ (CS!Next \/ UNCHANGED sent)
<1>1. CASE \E o \in Owners : Connect(o)
  <2>1. PICK o \in Owners : Connect(o)
    BY <1>1
  <2>2. TypeOK' /\ HeldApart' /\ WaitsForGap' /\ SlotOK'
    BY <2>1 DEF Connect, MergerInv, TypeOK, HeldApart, WaitsForGap, SlotOK
  <2>3. ASSUME NEW k \in Keys PROVE KeyOK(k)'
    BY <2>1 DEF Connect, MergerInv, TypeOK, KeyOK, SlotOK
  <2> QED
    BY <2>1, <2>2, <2>3 DEF MergerInv, Connect
<1>2. CASE \E i \in Ids : Register(i)
  <2>1. PICK i \in Ids : Register(i)
    BY <1>2
  <2>2. PICK k : k = <<current, i>>
    BY Zenon
  <2>3. /\ k \in Keys /\ k[1] = current /\ sent[k] \in Sent
        /\ sent[k] = CS!Untouched /\ k \notin retired
    BY <2>1, <2>2, OwnerFacts DEF Register
  <2>4. Fresh \in Flow /\ Fresh.open
    <3>1. Closed \in Flow
      BY MergerAssumption DEF Closed, Flow, Offsets, Terminals, None
    <3> QED
      BY Zenon, <3>1 DEF Fresh, Flow
  <2>5. Agrees(Fresh, sent[k]) /\ FlowHeldApart(Fresh) /\ FlowWaitsForGap(Fresh)
    BY <2>3 DEF Fresh, Closed, Agrees, CS!Untouched, CS!Unfinished, None,
                FlowHeldApart, FlowWaitsForGap, Drains
  <2>6. sent' = [sent EXCEPT ![k] = sent[k]]
    BY <2>1 DEF Register, MergerInv, TypeOK
  <2> QED
    BY Zenon, <2>1, <2>2, <2>3, <2>4, <2>5, <2>6, OneOperation DEF Register
<1>3. CASE \E i \in Ids : DropFlow(i)
  <2>1. PICK i \in Ids : DropFlow(i)
    BY <1>3
  <2>2. PICK k : k = <<current, i>>
    BY Zenon
  <2>3. PICK g : g = Cut(flows[k], "none")
    OBVIOUS
  <2>4. PICK t : t = [sent[k] EXCEPT !.cut = TRUE]
    BY Zenon
  <2>5. /\ current # Nobody /\ flows[k].open
        /\ UNCHANGED <<current, leaving, used, failed>> /\ retired' = retired
    BY <2>1, <2>2 DEF DropFlow
  <2>6. flows' = [flows EXCEPT ![k] = g] /\ sent' = [sent EXCEPT ![k] = t]
    BY <2>1, <2>2, <2>3, <2>4, Zenon DEF DropFlow
  <2>7. /\ k \in Keys /\ k[1] = current /\ flows[k] \in Flow /\ sent[k] \in Sent
        /\ Agrees(flows[k], sent[k]) /\ k \notin retired
    BY <2>2, <2>5, OwnerFacts
  <2>8. /\ g \in Flow /\ g.open /\ t \in Sent
        /\ Agrees(g, t) /\ FlowHeldApart(g) /\ FlowWaitsForGap(g)
        /\ CS!Extends(sent[k], t)
    BY <2>3, <2>4, <2>5, <2>7, CutStep DEF Terminals
  <2> QED
    BY Zenon, <2>5, <2>6, <2>7, <2>8, OneOperation, OneForward
<1>4. CASE RemoveClient
  <2>1. TypeOK' /\ HeldApart' /\ WaitsForGap' /\ SlotOK'
    BY <1>4 DEF RemoveClient, MergerInv, TypeOK, HeldApart, WaitsForGap, SlotOK
  <2>2. ASSUME NEW k \in Keys PROVE KeyOK(k)'
    <3>1. k[1] \in Owners /\ k[1] # Nobody
      BY MergerAssumption DEF Keys
    <3> QED
      BY <1>4, <3>1 DEF RemoveClient, MergerInv, TypeOK, KeyOK, SlotOK
  <2> QED
    BY <1>4, <2>1, <2>2 DEF MergerInv, RemoveClient
<1>5. CASE DropIncarnation
  <2>1. Closed \in Flow /\ FlowHeldApart(Closed) /\ FlowWaitsForGap(Closed) /\ ~ Closed.open
    BY MergerAssumption
       DEF Closed, Flow, Offsets, Terminals, None, FlowHeldApart, FlowWaitsForGap, Drains
  <2>2. \A k \in Keys : flows'[k] = IF k[1] = leaving THEN Closed ELSE flows[k]
    BY <1>5 DEF DropIncarnation
  <2>3. TypeOK'
    BY <1>5, <2>1 DEF DropIncarnation, MergerInv, TypeOK
  <2>4. HeldApart' /\ WaitsForGap' /\ SlotOK'
    BY <1>5, <2>1, <2>2 DEF DropIncarnation, MergerInv, HeldApart, WaitsForGap, SlotOK
  <2>5. ASSUME NEW k \in Keys PROVE KeyOK(k)'
    <3>1. k[1] \in Owners /\ k[1] # Nobody
      BY MergerAssumption DEF Keys
    <3>2. CASE k[1] = leaving
      BY <1>5, <2>1, <2>2, <3>1, <3>2 DEF DropIncarnation, MergerInv, KeyOK, SlotOK
    <3>3. CASE k[1] # leaving
      BY <1>5, <2>1, <2>2, <3>1, <3>3 DEF DropIncarnation, MergerInv, KeyOK, SlotOK
    <3> QED
      BY <3>2, <3>3
  <2> QED
    BY <1>5, <2>3, <2>4, <2>5 DEF MergerInv, DropIncarnation
<1> QED
  BY <1>1, <1>2, <1>3, <1>4, <1>5 DEF Command

-----------------------------------------------------------------------------
(* One lemma per guest frame. *)

(* A frame for no registered operation is ignored or fails the relay. *)
LEMMA UnregisteredStep ==
  ASSUME MergerInv, NEW k, Unregistered(k), UNCHANGED <<current, leaving, used>>
  PROVE  MergerInv' /\ UNCHANGED sent
BY Zenon, Stuttering DEF Unregistered, Ignore, Fail, MergerInv, TypeOK

(* Accepted keeps the invariant. *)
LEMMA AcceptedStep ==
  ASSUME MergerInv, NEW i \in Ids, NEW g2h \in BOOLEAN, PushAccepted(i, g2h)
  PROVE  MergerInv' /\ (CS!Next \/ UNCHANGED sent)
<1>1. PICK k : k = <<current, i>>
  BY Zenon
<1>2. PICK f : f = [flows[k] EXCEPT !.accepted = TRUE, !.g2h = g2h]
  OBVIOUS
<1>3. PICK s : s = [sent[k] EXCEPT !.accepted = TRUE]
  BY Zenon
<1>4. /\ current # Nobody /\ UNCHANGED <<current, leaving, used>>
      /\ \/ Unregistered(k)
         \/ /\ flows[k].open
            /\ IF flows[k].accepted \/ (~ g2h /\ flows[k].raw # {})
               THEN Fail
               ELSE Drain(k, f, s)
  BY <1>1, <1>2, <1>3, Zenon DEF PushAccepted
<1>5. CASE Unregistered(k)
  BY <1>4, <1>5, UnregisteredStep
<1>6. CASE Fail
  BY Zenon, <1>4, <1>6, Stuttering DEF Fail
<1>7. CASE flows[k].open /\ ~ flows[k].accepted /\ Drain(k, f, s)
  <2>1. /\ k \in Keys /\ k[1] = current /\ flows[k] \in Flow /\ sent[k] \in Sent
        /\ FlowHeldApart(flows[k]) /\ FlowWaitsForGap(flows[k])
        /\ Agrees(flows[k], sent[k]) /\ k \notin retired
    BY <1>1, <1>4, <1>7, OwnerFacts
  <2>2. /\ f \in Flow /\ f.open /\ f.next = flows[k].next /\ f.raw = flows[k].raw
        /\ f.cancelling = flows[k].cancelling /\ f.accepted
        /\ f.finished = flows[k].finished /\ f.finish = flows[k].finish
        /\ f.terminal = flows[k].terminal
    BY Zenon, <1>2, <1>7, <2>1 DEF Flow
  <2>3. /\ s \in Sent /\ s.accepted /\ s.bytes = sent[k].bytes /\ s.cut = sent[k].cut
        /\ s.finish = sent[k].finish /\ s.ended = sent[k].ended
    BY Zenon, <1>3, <2>1 DEF Sent
  <2>4. flows[k].finish = None
    BY <1>7, <2>1 DEF FlowWaitsForGap, Drains
  <2>5. Agrees(f, s) /\ FlowHeldApart(f)
    BY <2>1, <2>2, <2>3 DEF Agrees, FlowHeldApart
  <2>6. f.terminal # "none" => f.cancelling
    BY <2>1, <2>2, <2>4 DEF FlowWaitsForGap
  <2>7. \A t \in Sent : CS!Extends(s, t) => CS!Extends(sent[k], t)
    BY <2>3 DEF CS!Extends
  <2> QED
    BY Zenon, <1>4, <1>7, <2>1, <2>2, <2>3, <2>4, <2>5, <2>6, <2>7, DrainAction
<1> QED
  BY <1>4, <1>5, <1>6, <1>7

(* Finish keeps the invariant. *)
LEMMA FinishStep ==
  ASSUME MergerInv, NEW i \in Ids, NEW final \in Offsets, PushFinish(i, final)
  PROVE  MergerInv' /\ (CS!Next \/ UNCHANGED sent)
<1>1. PICK k : k = <<current, i>>
  BY Zenon
<1>2. PICK f : f = Finishing(flows[k], final)
  OBVIOUS
<1>3. /\ current # Nobody /\ UNCHANGED <<current, leaving, used>>
      /\ \/ Unregistered(k)
         \/ Ignore
         \/ Fail
         \/ /\ flows[k].open /\ ~ flows[k].cancelling
            /\ flows[k].accepted /\ flows[k].g2h /\ Drain(k, f, sent[k])
  BY <1>1, <1>2, Zenon DEF PushFinish
<1>4. CASE Unregistered(k)
  BY <1>3, <1>4, UnregisteredStep
<1>5. CASE Ignore \/ Fail
  BY Zenon, <1>3, <1>5, Stuttering DEF Fail, Ignore, MergerInv, TypeOK
<1>6. CASE /\ flows[k].open /\ ~ flows[k].cancelling
           /\ flows[k].accepted /\ flows[k].g2h /\ Drain(k, f, sent[k])
  <2>1. /\ k \in Keys /\ k[1] = current /\ flows[k] \in Flow /\ sent[k] \in Sent
        /\ FlowHeldApart(flows[k]) /\ FlowWaitsForGap(flows[k])
        /\ Agrees(flows[k], sent[k]) /\ k \notin retired
    BY <1>1, <1>3, <1>6, OwnerFacts
  <2>2. /\ f \in Flow /\ f.open /\ f.next = flows[k].next /\ f.raw = flows[k].raw
        /\ f.cancelling = flows[k].cancelling /\ f.accepted = flows[k].accepted
        /\ f.g2h = flows[k].g2h /\ f.finished = flows[k].finished /\ f.finish = final
    BY Zenon, <1>2, <1>6, <2>1 DEF Flow, Finishing
  <2>3. Agrees(f, sent[k]) /\ FlowHeldApart(f) /\ Drains(f) /\ f.finish # None
    BY <1>6, <2>1, <2>2, MergerAssumption DEF Agrees, FlowHeldApart, Drains, Offsets, None
  <2> QED
    BY <1>3, <1>6, <2>1, <2>2, <2>3, DrainAction
<1> QED
  BY <1>3, <1>4, <1>5, <1>6

(* Cancel keeps the invariant. *)
LEMMA CancelStep ==
  ASSUME MergerInv, NEW i \in Ids, PushCancel(i)
  PROVE  MergerInv' /\ (CS!Next \/ UNCHANGED sent)
<1>1. PICK k : k = <<current, i>>
  BY Zenon
<1>2. PICK g : g = Cut(flows[k], flows[k].terminal)
  OBVIOUS
<1>3. PICK t : t = [sent[k] EXCEPT !.cut = TRUE]
  BY Zenon
<1>4. /\ current # Nobody /\ UNCHANGED <<current, leaving, used>>
      /\ \/ Unregistered(k)
         \/ /\ flows[k].open /\ UNCHANGED <<retired, failed>>
            /\ flows' = [flows EXCEPT ![k] = g] /\ sent' = [sent EXCEPT ![k] = t]
  BY <1>1, <1>2, <1>3, Zenon DEF PushCancel
<1>5. CASE Unregistered(k)
  BY <1>4, <1>5, UnregisteredStep
<1>6. CASE /\ flows[k].open /\ UNCHANGED <<retired, failed>>
           /\ flows' = [flows EXCEPT ![k] = g] /\ sent' = [sent EXCEPT ![k] = t]
  <2>1. /\ k \in Keys /\ k[1] = current /\ flows[k] \in Flow /\ sent[k] \in Sent
        /\ Agrees(flows[k], sent[k]) /\ k \notin retired
    BY <1>1, <1>4, <1>6, OwnerFacts
  <2>2. /\ g \in Flow /\ g.open /\ t \in Sent
        /\ Agrees(g, t) /\ FlowHeldApart(g) /\ FlowWaitsForGap(g)
        /\ CS!Extends(sent[k], t)
    <3>1. flows[k].terminal \in Terminals BY <2>1 DEF Flow
    <3>2. flows[k].open BY Zenon, <1>6
    <3> QED BY Zenon, <1>2, <1>3, <2>1, <3>1, <3>2, CutStep
  <2> QED
    BY Zenon, <1>4, <1>6, <2>1, <2>2, OneOperation, OneForward
<1> QED
  BY <1>4, <1>5, <1>6

(* Terminal keeps the invariant. *)
LEMMA TerminalStep ==
  ASSUME MergerInv, NEW i \in Ids, NEW w \in {"ok", "error"}, PushTerminal(i, w)
  PROVE  MergerInv' /\ (CS!Next \/ UNCHANGED sent)
<1>1. PICK k : k = <<current, i>>
  BY Zenon
<1>2. PICK t : t = [sent[k] EXCEPT !.ended = TRUE]
  BY Zenon
<1>3. PICK g : g = [flows[k] EXCEPT !.terminal = w]
  BY Zenon
<1>4. /\ current # Nobody /\ UNCHANGED <<current, leaving, used>>
      /\ \/ Ignore
         \/ Fail
         \/ /\ flows[k].open /\ UNCHANGED failed
            /\ flows' = [flows EXCEPT ![k] = Closed] /\ retired' = retired \cup {k}
            /\ sent' = [sent EXCEPT ![k] = t]
         \/ /\ flows[k].open /\ TerminalWaits(flows[k])
            /\ flows' = [flows EXCEPT ![k] = g] /\ UNCHANGED <<retired, failed, sent>>
  BY <1>1, <1>2, <1>3, Zenon DEF PushTerminal
<1>5. CASE Ignore \/ Fail
  BY Zenon, <1>4, <1>5, Stuttering DEF Fail, Ignore, MergerInv, TypeOK
<1>6. CASE flows[k].open
  <2>1. /\ k \in Keys /\ k[1] = current /\ flows[k] \in Flow /\ sent[k] \in Sent
        /\ FlowHeldApart(flows[k]) /\ FlowWaitsForGap(flows[k])
        /\ Agrees(flows[k], sent[k]) /\ k \notin retired
    BY <1>1, <1>4, <1>6, OwnerFacts
  <2>2. /\ t \in Sent /\ t.accepted = sent[k].accepted /\ t.bytes = sent[k].bytes
        /\ t.cut = sent[k].cut /\ t.finish = sent[k].finish
    BY Zenon, <1>2, <2>1 DEF Sent
  <2>3. CS!Extends(sent[k], t)
    <3>1. CS!Prefix(t.bytes)
      BY <2>1, <2>2, MergerAssumption DEF CS!Prefix, Agrees, Flow, Offsets
    <3> QED
      BY <2>1, <2>2, <3>1 DEF CS!Extends, Agrees
  <2>4. Closed \in Flow
    BY MergerAssumption DEF Closed, Flow, Offsets, Terminals, None
  <2>5. CASE /\ UNCHANGED failed
             /\ flows' = [flows EXCEPT ![k] = Closed] /\ retired' = retired \cup {k}
             /\ sent' = [sent EXCEPT ![k] = t]
    BY Zenon, <1>4, <2>1, <2>2, <2>3, <2>4, <2>5, OneOperation, OneForward
  <2>6. CASE /\ TerminalWaits(flows[k]) /\ UNCHANGED <<retired, failed, sent>>
             /\ flows' = [flows EXCEPT ![k] = g]
    <3>1. /\ g \in Flow /\ g.open /\ g.next = flows[k].next /\ g.raw = flows[k].raw
          /\ g.cancelling = flows[k].cancelling /\ g.accepted = flows[k].accepted
          /\ g.g2h = flows[k].g2h /\ g.finished = flows[k].finished
          /\ g.finish = flows[k].finish
      BY <1>3, <1>6, <2>1 DEF Flow, Terminals
    <3>2. Agrees(g, sent[k]) /\ FlowHeldApart(g)
      BY <2>1, <3>1 DEF Agrees, FlowHeldApart
    <3>3. FlowWaitsForGap(g)
      BY <2>1, <2>6, <3>1 DEF FlowWaitsForGap, Drains, TerminalWaits
    <3>4. sent' = [sent EXCEPT ![k] = sent[k]]
      BY <2>6 DEF MergerInv, TypeOK
    <3> QED
      BY Zenon, <1>4, <2>1, <2>6, <3>1, <3>2, <3>3, <3>4, OneOperation
  <2> QED
    BY <1>4, <1>5, <2>5, <2>6
<1> QED
  BY <1>4, <1>5, <1>6

(* push_raw compares a record with the two neighbours of its offset only.  *)
(* The records held are apart, so a record that clears its neighbours      *)
(* clears them all: one that starts before the predecessor ends before it, *)
(* one that starts after the successor is past it.                         *)
LEMMA Neighbours ==
  ASSUME NEW f \in Flow, FlowHeldApart(f), NEW r \in Records, ~ Overlaps(f, r)
  PROVE  \A q \in f.raw : r.end <= q.off \/ q.end <= r.off
<1>1. /\ f.raw \subseteq Records /\ r.off \in Int /\ r.end \in Int
      /\ \A q \in Records : q.off \in 0..MaxOffset /\ q.end \in Int /\ q.off < q.end
  BY MergerAssumption DEF Flow, Records, Offsets
<1>2. /\ \A p \in Predecessor(f, r) : ~ (p.end > r.off)
      /\ \A p \in Successor(f, r) : ~ (r.end > p.off)
  BY Zenon DEF Overlaps
<1>3. MaxOffset \in Nat
  BY Zenon, MergerAssumption
<1> SUFFICES ASSUME NEW q \in f.raw PROVE r.end <= q.off \/ q.end <= r.off
  BY Zenon
<1>4. CASE q.off < r.off
  <2>1. PICK S : S = {p.off : p \in Before(f, r)}
    BY Zenon
  <2>2. q \in Before(f, r) /\ Before(f, r) \subseteq f.raw
    BY Zenon, <1>4 DEF Before
  <2>3. S \subseteq 0..MaxOffset /\ S # {}
    BY Zenon, <1>1, <2>1, <2>2
  <2>4. PICK m \in S : \A n \in S : n <= m
    BY Zenon, <1>3, <2>3, GreatestNat
  <2>5. PICK p \in Before(f, r) : p.off = m
    BY Zenon, <2>1, <2>4
  <2>6. p \in Predecessor(f, r) /\ q.off <= p.off
    BY Zenon, <2>1, <2>2, <2>4, <2>5 DEF Predecessor
  <2>7. ~ (p.end > r.off) /\ p.off < r.off /\ p \in f.raw
    BY Zenon, <1>2, <2>5, <2>6 DEF Before
  <2>8. q = p \/ q.end <= p.off \/ p.end <= q.off
    BY Zenon, <2>7 DEF FlowHeldApart
  <2> QED
    BY <1>1, <2>6, <2>7, <2>8
<1>5. CASE r.off <= q.off
  <2>1. PICK S : S = {p.off : p \in After(f, r)}
    BY Zenon
  <2>2. q \in After(f, r) /\ After(f, r) \subseteq f.raw
    BY Zenon, <1>5 DEF After
  <2>3. S \subseteq Nat /\ S # {}
    <3>1. \A n \in 0..MaxOffset : n \in Nat
      BY <1>3
    <3> QED
      BY Zenon, <1>1, <2>1, <2>2, <3>1
  <2>4. PICK m \in S : \A n \in S : m <= n
    BY Zenon, <2>3, LeastNat
  <2>5. PICK p \in After(f, r) : p.off = m
    BY Zenon, <2>1, <2>4
  <2>6. p \in Successor(f, r) /\ p.off <= q.off
    BY Zenon, <2>1, <2>2, <2>4, <2>5 DEF Successor
  <2>7. ~ (r.end > p.off) /\ p \in f.raw
    BY Zenon, <1>2, <2>2, <2>5, <2>6
  <2> QED
    BY <1>1, <1>3, <2>6, <2>7
<1> QED
  BY <1>1, <1>3, <1>4, <1>5

(* Raw keeps the invariant. *)
LEMMA RawStep ==
  ASSUME MergerInv, NEW o \in Owners, NEW i \in Ids, NEW r \in Records, PushRaw(o, i, r)
  PROVE  MergerInv' /\ (CS!Next \/ UNCHANGED sent)
<1>1. PICK k : k = <<current, i>>
  BY Zenon
<1>2. PICK h : h = Holding(flows[k], r)
  BY Zenon
<1>3. current = o /\ current # Nobody
  BY MergerAssumption DEF PushRaw
<1>4. /\ UNCHANGED <<current, leaving, used>>
      /\ \/ Unregistered(k)
         \/ Ignore
         \/ Fail
         \/ /\ flows[k].open /\ ~ flows[k].cancelling
            /\ ~ RecordFails(flows[k], r) /\ Drain(k, h, sent[k])
  BY <1>1, <1>2, <1>3, Zenon DEF PushRaw
<1>5. CASE Unregistered(k)
  BY <1>4, <1>5, UnregisteredStep
<1>6. CASE Ignore \/ Fail
  BY Zenon, <1>4, <1>6, Stuttering DEF Fail, Ignore, MergerInv, TypeOK
<1>7. CASE /\ flows[k].open /\ ~ flows[k].cancelling
           /\ ~ RecordFails(flows[k], r) /\ Drain(k, h, sent[k])
  <2>1. /\ k \in Keys /\ k[1] = current /\ flows[k] \in Flow /\ sent[k] \in Sent
        /\ FlowHeldApart(flows[k]) /\ FlowWaitsForGap(flows[k])
        /\ Agrees(flows[k], sent[k]) /\ k \notin retired
    BY <1>1, <1>3, <1>7, OwnerFacts
  <2>2. PICK raw : raw = flows[k].raw \cup {r}
    BY Zenon
  <2>3. PICK bytes : bytes = flows[k].bytes + (r.end - r.off)
    OBVIOUS
  <2>4. h = [flows[k] EXCEPT !.raw = raw, !.bytes = bytes]
    BY <1>2, <2>2, <2>3, Zenon DEF Holding
  <2>5. raw \in SUBSET Records /\ bytes \in Int
    BY <2>1, <2>2, <2>3, MergerAssumption DEF Flow, Records, Offsets
  <2>6. /\ h \in Flow /\ h.open /\ h.next = flows[k].next /\ h.raw = raw
        /\ h.cancelling = flows[k].cancelling /\ h.accepted = flows[k].accepted
        /\ h.g2h = flows[k].g2h /\ h.finished = flows[k].finished
        /\ h.finish = flows[k].finish /\ h.terminal = flows[k].terminal
    BY Zenon, <1>7, <2>1, <2>4, <2>5 DEF Flow
  <2>7. ~ flows[k].finished /\ ~ (r.off < flows[k].next) /\ ~ Overlaps(flows[k], r)
    BY <1>7 DEF RecordFails
  <2>8. Agrees(h, sent[k])
    BY <2>1, <2>6, <2>7 DEF Agrees
  <2>9. FlowHeldApart(h)
    <3>1. flows[k].raw \subseteq Records /\ flows[k].next \in Int
          /\ \A q \in Records : q.off \in Int /\ q.end \in Int
      BY <2>1, MergerAssumption DEF Flow, Records, Offsets
    <3>2. \A q \in flows[k].raw : r.end <= q.off \/ q.end <= r.off
      BY Zenon, <2>1, <2>7, Neighbours
    <3>3. /\ \A q \in flows[k].raw : flows[k].next <= q.off
          /\ \A p, q \in flows[k].raw : p = q \/ p.end <= q.off \/ q.end <= p.off
      BY Zenon, <2>1 DEF FlowHeldApart
    <3>4. flows[k].next <= r.off
      BY <2>7, <3>1
    <3>5. \A q \in h.raw : q \in flows[k].raw \/ q = r
      BY Zenon, <2>2, <2>6
    <3>6. \A q \in h.raw : h.next <= q.off
      BY Zenon, <2>6, <3>3, <3>4, <3>5
    <3>7. \A p, q \in h.raw : p = q \/ p.end <= q.off \/ q.end <= p.off
      BY Zenon, <3>2, <3>3, <3>5
    <3> QED
      BY Zenon, <1>7, <2>6, <3>6, <3>7 DEF FlowHeldApart
  <2>10. /\ h.finish # None => Drains(h)
         /\ h.terminal # "none" => h.finish # None \/ h.cancelling
    BY <2>1, <2>6 DEF FlowWaitsForGap, Drains
  <2> QED
    BY Zenon, <1>4, <1>7, <2>1, <2>6, <2>8, <2>9, <2>10, DrainAction
<1> QED
  BY <1>4, <1>5, <1>6, <1>7

(* Every step keeps the invariant and is one of ClientStream or none. *)
LEMMA MergerStep ==
  ASSUME MergerInv, [Next]_vars
  PROVE  MergerInv' /\ (CS!Next \/ UNCHANGED sent)
<1>1. CASE Command
  BY <1>1, CommandStep
<1>2. CASE GuestFrame
  BY <1>2, AcceptedStep, FinishStep, CancelStep, TerminalStep, RawStep DEF GuestFrame
<1>3. CASE UNCHANGED vars
  BY <1>3, Stuttering DEF vars, MergerInv, TypeOK
<1> QED
  BY <1>1, <1>2, <1>3 DEF Next

(* The invariant holds initially. *)
LEMMA MergerInitially ==
  ASSUME Init
  PROVE  MergerInv /\ CS!Init
<1>1. Closed \in Flow /\ FlowHeldApart(Closed) /\ FlowWaitsForGap(Closed) /\ ~ Closed.open
  BY MergerAssumption
     DEF Closed, Flow, Offsets, Terminals, None, FlowHeldApart, FlowWaitsForGap, Drains
<1>2. CS!Untouched \in Sent
  BY DEF CS!Untouched, CS!Unfinished, Sent, None
<1>3. TypeOK
  BY Zenon, <1>1, <1>2 DEF Init, TypeOK, Sent
<1>4. HeldApart /\ WaitsForGap /\ SlotOK /\ \A k \in Keys : KeyOK(k)
  BY <1>1 DEF Init, HeldApart, WaitsForGap, SlotOK, KeyOK
<1> QED
  BY <1>3, <1>4 DEF MergerInv, CS!Init, Init

-----------------------------------------------------------------------------
(* push_raw keeps the records a flow holds apart and ahead of what it has  *)
(* forwarded, for any guest.                                               *)
THEOREM HeldApartHolds == Spec => []HeldApart
<1>1. Init => MergerInv
  BY MergerInitially
<1>2. MergerInv /\ [Next]_vars => MergerInv'
  BY MergerStep
<1>3. MergerInv => HeldApart
  BY DEF MergerInv
<1> QED
  BY <1>1, <1>2, <1>3, PTL DEF Spec

(* push and drain_flow leave nothing waiting that could be forwarded, for  *)
(* any guest.                                                              *)
THEOREM MergerHolds == Spec => [](TypeOK /\ WaitsForGap)
<1>1. Init => MergerInv
  BY MergerInitially
<1>2. MergerInv /\ [Next]_vars => MergerInv'
  BY MergerStep
<1>3. MergerInv => TypeOK /\ WaitsForGap
  BY DEF MergerInv
<1> QED
  BY <1>1, <1>2, <1>3, PTL DEF Spec

(* The merger implements ClientStream: each client sees an in-order stream *)
(* of each operation, whatever order the lanes are read in.                *)
THEOREM MergerInOrder == Spec => InOrderStream
<1>1. Init => MergerInv /\ CS!Init
  BY MergerInitially
<1>2. MergerInv /\ [Next]_vars => MergerInv' /\ [CS!Next]_sent
  BY MergerStep
<1> QED
  BY <1>1, <1>2, PTL DEF Spec, InOrderStream, CS!Spec

(* A drained flow that ends its stream, or one that still holds a finish,  *)
(* has given the client that finish.                                       *)
LEMMA DrainEnds ==
  ASSUME sent \in [Keys -> Sent], NEW k \in Keys, NEW j \in Keys,
         NEW f, NEW s \in Sent, s.ended = sent[j].ended, Drain(j, f, s),
         j = k => f.finish # None, sent'[k].ended, ~ sent[k].ended
  PROVE  sent'[k].finish # None
<1>1. ~ DrainFails(f) /\ j = k /\ sent'[k] = Seen(s, f)
  BY DEF Drain
<1>2. Drains(f)
  BY <1>1 DEF Seen
<1>3. PICK b : b = s.bytes \cup Bytes(Run(f))
  BY Zenon
<1>4. PICK n : n = IF FinishReady(f) THEN f.finish ELSE s.finish
  OBVIOUS
<1>5. PICK e : e = (s.ended \/ Completes(f))
  OBVIOUS
<1>6. sent'[k] = [s EXCEPT !.bytes = b, !.finish = n, !.ended = e]
  BY <1>1, <1>2, <1>3, <1>4, <1>5, Zenon DEF Seen
<1>7. sent'[k].finish = n /\ sent'[k].ended = e
  BY <1>6 DEF Sent
<1>8. FinishReady(f)
  BY Zenon, <1>1, <1>5, <1>7 DEF Completes
<1> QED
  BY <1>1, <1>4, <1>7, <1>8

(* A step that ends a stream with a finish in hand gives the finish first. *)
LEMMA TerminalInTurn ==
  ASSUME MergerInv, [Next]_vars, NEW k \in Keys, flows[k].finish # None,
         sent'[k].ended, ~ sent[k].ended
  PROVE  sent[k].cut \/ sent'[k].finish # None
<1>1. /\ sent \in [Keys -> Sent] /\ flows[k] \in Flow
      /\ FlowWaitsForGap(flows[k]) /\ KeyOK(k) /\ sent' # sent
  BY DEF MergerInv, TypeOK, Sent, WaitsForGap
<1>2. Drains(flows[k]) /\ flows[k].open
  BY <1>1 DEF FlowWaitsForGap, KeyOK, Closed
<1>3. Agrees(flows[k], sent[k])
  BY <1>1, <1>2 DEF KeyOK
<1>4. ~ Command
  <2>1. ASSUME NEW i \in Ids, DropFlow(i) PROVE sent'[k].ended = sent[k].ended
    <3>1. sent \in [Keys -> Sent] BY <1>1
    <3> QED BY <2>1, <3>1 DEF DropFlow, Sent
  <2> QED
    BY Zenon, <1>1, <2>1 DEF Command, Connect, Register, RemoveClient, DropIncarnation
<1>5. PICK i \in Ids :
        \/ \E g2h \in BOOLEAN : PushAccepted(i, g2h)
        \/ \E final \in Offsets : PushFinish(i, final)
        \/ PushCancel(i)
        \/ \E t \in {"ok", "error"} : PushTerminal(i, t)
        \/ \E o \in Owners, r \in Records : PushRaw(o, i, r)
  BY <1>1, <1>4 DEF Next, GuestFrame, vars
<1>6. PICK j : j = <<current, i>>
  BY Zenon
<1>7. current # Nobody
  BY Zenon, <1>5, MergerAssumption
     DEF PushAccepted, PushFinish, PushCancel, PushTerminal, PushRaw
<1>8. /\ j \in Keys /\ flows[j] \in Flow /\ sent[j] \in Sent
      /\ ~ Unregistered(j) /\ ~ Fail /\ ~ Ignore
  BY <1>1, <1>6, <1>7, OwnerFacts DEF Unregistered, Fail, Ignore
<1>9. CASE \E g2h \in BOOLEAN : PushAccepted(i, g2h)
  <2>1. PICK g2h \in BOOLEAN : PushAccepted(i, g2h)
    BY <1>9
  <2>2. PICK f : f = [flows[j] EXCEPT !.accepted = TRUE, !.g2h = g2h]
    OBVIOUS
  <2>3. PICK s : s = [sent[j] EXCEPT !.accepted = TRUE]
    BY Zenon
  <2>4. Drain(j, f, s)
    BY <1>6, <1>8, <2>1, <2>2, <2>3, Zenon DEF PushAccepted
  <2>5. s \in Sent /\ s.ended = sent[j].ended /\ f.finish = flows[j].finish
    BY Zenon, <1>8, <2>2, <2>3 DEF Sent, Flow
  <2> QED
    BY <1>1, <1>8, <2>4, <2>5, DrainEnds
<1>10. CASE \E final \in Offsets : PushFinish(i, final)
  <2>1. PICK final \in Offsets : PushFinish(i, final)
    BY <1>10
  <2>2. PICK f : f = Finishing(flows[j], final)
    OBVIOUS
  <2>3. Drain(j, f, sent[j]) /\ flows[j].finish = None
    BY <1>6, <1>8, <2>1, <2>2, Zenon DEF PushFinish
  <2> QED
    BY <1>1, <1>8, <2>3, DrainEnds
<1>11. CASE PushCancel(i)
  BY Zenon, <1>1, <1>6, <1>8, <1>11 DEF PushCancel, Sent
<1>12. CASE \E t \in {"ok", "error"} : PushTerminal(i, t)
  <2>1. j = k /\ ~ TerminalWaits(flows[k])
        /\ sent' = [sent EXCEPT ![k] = [@ EXCEPT !.ended = TRUE]]
    BY <1>1, <1>6, <1>8, <1>12 DEF PushTerminal
  <2>2. sent'[k].finish = sent[k].finish /\ flows[k].finished
    BY <1>1, <1>2, <2>1 DEF Sent, TerminalWaits, Drains
  <2> QED
    BY <1>1, <1>3, <2>2, MergerAssumption DEF Agrees, Flow, Offsets, None
<1>13. CASE \E o \in Owners, r \in Records : PushRaw(o, i, r)
  <2>1. PICK o \in Owners, r \in Records : PushRaw(o, i, r)
    BY <1>13
  <2>2. PICK h : h = Holding(flows[j], r)
    OBVIOUS
  <2>3. o = current
    BY <2>1 DEF PushRaw
  <2>4. Drain(j, h, sent[j])
    BY <1>6, <1>8, <2>1, <2>2, <2>3, Zenon DEF PushRaw
  <2>5. h.finish = flows[j].finish
    BY <1>8, <2>2 DEF Flow, Holding
  <2> QED
    BY <1>1, <1>8, <2>4, <2>5, DrainEnds
<1> QED
  BY <1>5, <1>9, <1>10, <1>11, <1>12, <1>13

(* A terminal never overtakes its finish: push holds it back, and          *)
(* drain_flow releases it only together with the finish.                   *)
THEOREM TerminalHolds == Spec => TerminalAfterFinish
<1>1. Init => MergerInv
  BY MergerInitially
<1>2. MergerInv /\ [Next]_vars => MergerInv'
  BY MergerStep
<1>3. MergerInv /\ [Next]_vars
        => [\A k \in Keys :
              flows[k].finish # None /\ sent'[k].ended /\ ~ sent[k].ended
                => sent[k].cut \/ sent'[k].finish # None]_vars
  BY TerminalInTurn
<1> QED
  BY <1>1, <1>2, <1>3, PTL DEF Spec, TerminalAfterFinish

-----------------------------------------------------------------------------
(* The budget of what a flow holds back. *)

INSTANCE FiniteSetTheorems

(* What a flow holds is charged exactly. *)
Exact(f) == f.bytes = Cardinality(Bytes(f.raw))

(* Records and the bytes they carry are finitely many. *)
LEMMA FiniteRecords ==
  ASSUME NEW rs, rs \subseteq Records
  PROVE  /\ IsFiniteSet(rs) /\ IsFiniteSet(Bytes(rs)) /\ Bytes(rs) \subseteq Offsets
         /\ Cardinality(rs) \in Nat /\ Cardinality(Bytes(rs)) \in Nat
<1>1. Bytes(rs) \subseteq Offsets
  BY MergerAssumption DEF Bytes, Records, Offsets
<1>2. IsFiniteSet(Offsets)
  BY FS_Interval, MergerAssumption DEF Offsets
<1>3. IsFiniteSet(Bytes(rs))
  BY <1>1, <1>2, FS_Subset
<1>4. IsFiniteSet(Records)
  <2>1. PICK f : f = [r \in Records |-> <<r.off, r.end>>]
    BY Zenon
  <2>2. f \in [Records -> Offsets \X Offsets]
    BY <2>1 DEF Records
  <2>3. ASSUME NEW q \in Records, NEW r \in Records, f[q] = f[r] PROVE q = r
    <3>1. q.off = r.off /\ q.end = r.end
      BY <2>1, <2>3
    <3> QED
      BY <3>1 DEF Records
  <2>4. f \in Injection(Records, Offsets \X Offsets)
    BY <2>2, <2>3 DEF Injection, IsInjective
  <2> QED
    BY <1>2, <2>4, FS_Product, FS_Injection
<1> QED
  BY <1>1, <1>3, <1>4, FS_Subset, FS_CardinalityType

(* Records without a common byte add up. *)
LEMMA BytesAdd ==
  ASSUME NEW rs, rs \subseteq Records, NEW qs, qs \subseteq Records,
         Bytes(rs) \cap Bytes(qs) = {}
  PROVE  /\ Bytes(rs \cup qs) = Bytes(rs) \cup Bytes(qs)
         /\ Cardinality(Bytes(rs \cup qs)) = Cardinality(Bytes(rs)) + Cardinality(Bytes(qs))
<1>1. Bytes(rs \cup qs) = Bytes(rs) \cup Bytes(qs)
  BY Zenon DEF Bytes
<1>2. PICK x, y : x = Bytes(rs) /\ y = Bytes(qs)
  BY Zenon
<1>3. IsFiniteSet(x) /\ IsFiniteSet(y) /\ Cardinality(x) \in Nat /\ Cardinality(y) \in Nat
  BY <1>2, FiniteRecords
<1>4. Cardinality(x \cup y) = Cardinality(x) + Cardinality(y) - Cardinality(x \cap y)
  BY <1>3, FS_Union
<1>5. Cardinality(x \cap y) = 0
  BY Zenon, <1>2, FS_EmptySet
<1>6. Cardinality(x \cup y) = Cardinality(x) + Cardinality(y)
  BY <1>3, <1>4, <1>5
<1> QED
  BY Zenon, <1>1, <1>2, <1>6

(* A flow without records holds no bytes. *)
LEMMA NoBytes == Bytes({}) = {} /\ Cardinality(Bytes({})) = 0
<1>1. Bytes({}) = {}
  BY Zenon DEF Bytes
<1> QED
  BY Zenon, <1>1, FS_EmptySet

(* drain_flow gives back exactly the bytes of the records it forwards. *)
LEMMA DrainedBudget ==
  ASSUME NEW f \in Flow, FlowHeldApart(f), Exact(f)
  PROVE  /\ Exact(Drained(f)) /\ Drained(f).bytes <= f.bytes
         /\ Cardinality(Drained(f).raw) <= Cardinality(f.raw)
         /\ Drained(f).raw \subseteq f.raw
<1>1. Ahead(f) /\ f.raw \subseteq Records /\ Run(f) \subseteq f.raw
  BY DEF Ahead, FlowHeldApart, Flow, Run
<1>2. /\ IsFiniteSet(f.raw) /\ Cardinality(f.raw) \in Nat
      /\ Cardinality(Bytes(f.raw)) \in Nat
  BY <1>1, FiniteRecords
<1>3. CASE ~ Drains(f)
  BY <1>2, <1>3 DEF Drained, Exact
<1>4. CASE Drains(f)
  <2>1. PICK rs : rs = f.raw \ Run(f)
    BY Zenon
  <2>2. rs \subseteq Records /\ rs \cup Run(f) = f.raw /\ rs \subseteq f.raw
    BY <1>1, <2>1
  <2>3. /\ f.next \in Int /\ Reach(f) \in Int /\ f.next <= Reach(f)
        /\ \A r \in rs : r.off \in Int /\ r.end \in Int /\ ~ (r.off <= Reach(f))
    BY SMTT(30), <1>1, <2>1, <2>2, ReachCovered, RunClosed, MergerAssumption DEF Flow, Offsets, Records
  <2>4. Bytes(Run(f)) = f.next..(Reach(f) - 1)
    BY <1>1, RunBytes
  <2>5. Bytes(rs) \cap Bytes(Run(f)) = {}
    <3> SUFFICES ASSUME NEW x \in Bytes(rs), x \in f.next..(Reach(f) - 1) PROVE FALSE
      BY <2>4
    <3>1. PICK r \in rs : x \in r.off..(r.end - 1)
      BY DEF Bytes
    <3> QED
      BY <2>3, <3>1
  <2>6. Cardinality(Bytes(Run(f))) = Reach(f) - f.next
    <3>1. PICK a, b : a = f.next /\ b = Reach(f) - 1
      BY Zenon
    <3>2. a \in Int /\ b \in Int
      BY <2>3, <3>1
    <3>3. Cardinality(a..b) = IF a > b THEN 0 ELSE b - a + 1
      BY <3>2, FS_Interval
    <3> QED
      BY <2>3, <2>4, <3>1, <3>3
  <2>7. Cardinality(Bytes(f.raw)) = Cardinality(Bytes(rs)) + (Reach(f) - f.next)
    BY SMTT(30), <1>1, <2>2, <2>5, <2>6, BytesAdd
  <2>8. Cardinality(Bytes(rs)) \in Nat /\ Cardinality(rs) <= Cardinality(f.raw)
    BY <1>2, <2>2, FiniteRecords, FS_Subset
  <2>9. PICK g : g = Drained(f)
    OBVIOUS
  <2>10. g.raw = rs /\ g.bytes = f.bytes - (Reach(f) - f.next)
    <3>1. PICK n, b, fin, done :
            /\ n = Reach(f) /\ b = f.bytes - (Reach(f) - f.next)
            /\ fin = IF FinishReady(f) THEN None ELSE f.finish
            /\ done = (f.finished \/ FinishReady(f))
      BY Zenon
    <3>2. g = [f EXCEPT !.raw = rs, !.next = n, !.bytes = b, !.finish = fin, !.finished = done]
      BY Zenon, <1>4, <2>1, <2>9, <3>1 DEF Drained
    <3> QED
      BY Zenon, <3>1, <3>2 DEF Flow
  <2>11. f.bytes = Cardinality(Bytes(f.raw))
    BY DEF Exact
  <2>12. g.bytes = Cardinality(Bytes(rs)) /\ g.bytes <= f.bytes
    BY SMTT(30), <2>3, <2>7, <2>8, <2>10, <2>11
  <2> QED
    BY SMTT(30), <2>2, <2>8, <2>9, <2>10, <2>12 DEF Exact
<1> QED
  BY <1>3, <1>4

(* push_raw charges a held record exactly. *)
LEMMA HoldingBudget ==
  ASSUME NEW f \in Flow, FlowHeldApart(f), Exact(f), NEW r \in Records, ~ Overlaps(f, r)
  PROVE  /\ Exact(Holding(f, r)) /\ Holding(f, r).raw = f.raw \cup {r}
         /\ Holding(f, r).bytes = f.bytes + (r.end - r.off)
         /\ Cardinality(Holding(f, r).raw) <= Cardinality(f.raw) + 1
<1>1. /\ f.raw \subseteq Records /\ r.off \in Int /\ r.end \in Int /\ r.off < r.end
      /\ \A q \in Records : q.off \in Int /\ q.end \in Int
  BY MergerAssumption DEF Flow, Records, Offsets
<1>2. PICK h, rs, b : h = Holding(f, r) /\ rs = f.raw \cup {r} /\ b = f.bytes + (r.end - r.off)
  BY Zenon
<1>3. h.raw = rs /\ h.bytes = b
  <2>1. h = [f EXCEPT !.raw = rs, !.bytes = b]
    BY Zenon, <1>2 DEF Holding
  <2> QED
    BY Zenon, <2>1 DEF Flow
<1>4. Bytes({r}) = r.off..(r.end - 1)
  BY Zenon DEF Bytes
<1>5. Cardinality(Bytes({r})) = r.end - r.off
  <2>1. PICK x, y : x = r.off /\ y = r.end - 1
    BY Zenon
  <2>2. x \in Int /\ y \in Int
    BY <1>1, <2>1
  <2>3. Cardinality(x..y) = IF x > y THEN 0 ELSE y - x + 1
    BY <2>2, FS_Interval
  <2> QED
    BY <1>1, <1>4, <2>1, <2>3
<1>6. Bytes(f.raw) \cap Bytes({r}) = {}
  <2> SUFFICES ASSUME NEW x \in Bytes(f.raw), x \in r.off..(r.end - 1) PROVE FALSE
    BY <1>4
  <2>1. PICK q \in f.raw : x \in q.off..(q.end - 1)
    BY DEF Bytes
  <2>2. r.end <= q.off \/ q.end <= r.off
    BY Zenon, Neighbours
  <2> QED
    BY <1>1, <2>1, <2>2
<1>7. Cardinality(Bytes(rs)) = Cardinality(Bytes(f.raw)) + (r.end - r.off)
  <2>1. {r} \subseteq Records
    BY Zenon
  <2>2. Cardinality(Bytes(rs)) = Cardinality(Bytes(f.raw)) + Cardinality(Bytes({r}))
    BY Zenon, <1>1, <1>2, <1>6, <2>1, BytesAdd
  <2> QED
    BY Zenon, <1>5, <2>2
<1>8. Exact(h)
  BY <1>2, <1>3, <1>7 DEF Exact
<1>9. Cardinality(rs) <= Cardinality(f.raw) + 1
  <2>1. IsFiniteSet(f.raw) /\ Cardinality(f.raw) \in Nat
    BY Zenon, <1>1, FiniteRecords
  <2>2. Cardinality(rs) = IF r \in f.raw THEN Cardinality(f.raw) ELSE Cardinality(f.raw) + 1
    BY Zenon, <1>2, <2>1, FS_AddElement
  <2> QED
    BY <2>1, <2>2
<1> QED
  BY <1>2, <1>3, <1>8, <1>9

(* A step that changes one flow keeps the budget if that flow does. *)
LEMMA OneBudget ==
  ASSUME MergerInv, WithinBudget, NEW k \in Keys, NEW g,
         flows' = [flows EXCEPT ![k] = g], FlowWithinBudget(g)
  PROVE  WithinBudget'
<1>1. \A j \in Keys : flows'[j] = IF j = k THEN g ELSE flows[j]
  BY DEF MergerInv, TypeOK
<1> QED
  BY Zenon, <1>1 DEF WithinBudget

(* A flow that holds nothing is within its budget. *)
LEMMA EmptyBudget ==
  ASSUME NEW f, f.raw = {}, f.bytes = 0
  PROVE  FlowWithinBudget(f)
<1>1. Cardinality({}) = 0 /\ Cardinality(Bytes({})) = 0
  BY NoBytes, FS_EmptySet
<1> QED
  BY <1>1, MergerAssumption DEF FlowWithinBudget

(* A closed and a freshly registered flow hold nothing. *)
LEMMA ClosedBudget == FlowWithinBudget(Closed) /\ FlowWithinBudget(Fresh)
<1>1. Closed.raw = {} /\ Closed.bytes = 0 /\ Fresh.raw = {} /\ Fresh.bytes = 0
  BY DEF Closed, Fresh
<1> QED
  BY <1>1, EmptyBudget

(* drain_flow as a step. *)
LEMMA DrainBudget ==
  ASSUME MergerInv, WithinBudget, NEW k \in Keys, NEW f, NEW s, Drain(k, f, s),
         FlowWithinBudget(Drained(f))
  PROVE  WithinBudget'
<1>1. CASE DrainFails(f)
  BY <1>1 DEF Drain, WithinBudget
<1>2. CASE ~ DrainFails(f)
  <2>1. PICK g : g = IF Completes(f) THEN Closed ELSE Drained(f)
    OBVIOUS
  <2>2. flows' = [flows EXCEPT ![k] = g]
    BY Zenon, <1>2, <2>1 DEF Drain
  <2> QED
    BY <2>1, <2>2, ClosedBudget, OneBudget
<1> QED
  BY <1>1, <1>2

(* A flow within its budget still is once drained. *)
LEMMA DrainedWithin ==
  ASSUME NEW f \in Flow, FlowHeldApart(f), FlowWithinBudget(f)
  PROVE  FlowWithinBudget(Drained(f))
<1>1. Exact(f) /\ Cardinality(f.raw) <= MaxRecords /\ f.bytes <= FlowCapacity
  BY DEF FlowWithinBudget, Exact
<1>2. PICK g : g = Drained(f)
  OBVIOUS
<1>3. /\ Exact(g) /\ g.bytes <= f.bytes /\ g.raw \subseteq f.raw
      /\ Cardinality(g.raw) <= Cardinality(f.raw)
  BY <1>1, <1>2, DrainedBudget
<1>4. /\ f.bytes \in Int /\ Cardinality(f.raw) \in Nat
      /\ g.bytes \in Nat /\ Cardinality(g.raw) \in Nat
  BY <1>3, FiniteRecords DEF Flow, Exact
<1>5. Cardinality(g.raw) <= MaxRecords /\ g.bytes <= FlowCapacity
  BY <1>1, <1>3, <1>4, MergerAssumption
<1> QED
  BY Zenon, <1>2, <1>3, <1>5 DEF FlowWithinBudget, Exact

(* push_raw's two ways past the budget test: the record is forwarded at    *)
(* once, or there is room for it.                                          *)
LEMMA HeldWithin ==
  ASSUME NEW f \in Flow, FlowHeldApart(f), FlowWithinBudget(f), ~ f.cancelling,
         NEW r \in Records, ~ RecordFails(f, r), InOrder(f, r) \/ ~ OverBudget(f, r)
  PROVE  FlowWithinBudget(Drained(Holding(f, r)))
<1>1. PICK h : h = Holding(f, r)
  OBVIOUS
<1>2. ~ (r.off < f.next) /\ ~ Overlaps(f, r) /\ Exact(f)
  BY DEF RecordFails, FlowWithinBudget, Exact
<1>3. /\ Exact(h) /\ h.raw = f.raw \cup {r} /\ h.bytes = f.bytes + (r.end - r.off)
      /\ Cardinality(h.raw) <= Cardinality(f.raw) + 1
  BY <1>1, <1>2, HoldingBudget
<1>4. /\ f.raw \subseteq Records /\ f.next \in Int /\ f.bytes \in Int
      /\ Cardinality(f.raw) \in Nat
      /\ \A q \in Records : q.off \in Int /\ q.end \in Int /\ q.off < q.end
  <2>1. f.raw \subseteq Records /\ f.next \in Offsets /\ f.bytes \in Int
    BY Zenon DEF Flow
  <2>2. Cardinality(f.raw) \in Nat
    BY Zenon, <2>1, FiniteRecords
  <2> QED
    BY <2>1, <2>2, MergerAssumption DEF Records, Offsets
<1>5. /\ h \in Flow /\ h.next = f.next /\ h.cancelling = f.cancelling
      /\ h.accepted = f.accepted /\ h.g2h = f.g2h /\ h.finish = f.finish
  <2>1. PICK rs, b : rs = f.raw \cup {r} /\ b = f.bytes + (r.end - r.off)
    BY Zenon
  <2>2. rs \in SUBSET Records /\ b \in Int
    BY <1>4, <2>1
  <2>3. h = [f EXCEPT !.raw = rs, !.bytes = b]
    BY Zenon, <1>1, <2>1 DEF Holding
  <2> QED
    BY Zenon, <2>2, <2>3 DEF Flow
<1>6. FlowHeldApart(h)
  <2>1. \A q \in f.raw : r.end <= q.off \/ q.end <= r.off
    BY Zenon, <1>2, Neighbours
  <2>2. \A q \in f.raw : h.next <= q.off
    BY Zenon, <1>5 DEF FlowHeldApart
  <2>3. h.next <= r.off
    BY <1>2, <1>4, <1>5
  <2>4. \A q \in h.raw : h.next <= q.off
    BY Zenon, <1>3, <2>2, <2>3
  <2>5. \A p, q \in h.raw : p = q \/ p.end <= q.off \/ q.end <= p.off
    BY Zenon, <1>3, <2>1 DEF FlowHeldApart
  <2> QED
    BY Zenon, <1>5, <2>4, <2>5 DEF FlowHeldApart
<1>7. CASE ~ OverBudget(f, r)
  <2>1. Cardinality(f.raw) < MaxRecords /\ f.bytes + (r.end - r.off) <= FlowCapacity
    BY <1>4, <1>7, MergerAssumption DEF OverBudget
  <2>2. Cardinality(h.raw) \in Nat
    <3>1. h.raw \subseteq Records
      BY Zenon, <1>5 DEF Flow
    <3> QED
      BY Zenon, <3>1, FiniteRecords
  <2>3. Cardinality(h.raw) <= MaxRecords /\ h.bytes <= FlowCapacity
    <3>1. h.bytes <= FlowCapacity
      BY Zenon, <1>3, <2>1
    <3>2. PICK held, new \in Nat :
            /\ held = Cardinality(f.raw) /\ new = Cardinality(h.raw)
            /\ held < MaxRecords /\ new <= held + 1
      BY Zenon, <1>3, <1>4, <2>1, <2>2
    <3>3. new <= MaxRecords
      BY <3>2, MergerAssumption
    <3> QED
      BY Zenon, <3>1, <3>2, <3>3
  <2>4. FlowWithinBudget(h)
    BY Zenon, <1>3, <2>3 DEF FlowWithinBudget, Exact
  <2> QED
    BY Zenon, <1>1, <1>5, <1>6, <2>4, DrainedWithin
<1>8. CASE InOrder(f, r)
  <2>1. PICK g : g = Drained(h)
    OBVIOUS
  <2>2. h.raw = {r} /\ Drains(h) /\ r.off = h.next /\ Ahead(h)
    <3>1. f.accepted /\ f.g2h /\ r.off = f.next /\ f.raw = {}
      BY Zenon, <1>8 DEF InOrder
    <3>2. h.raw = {r} /\ Drains(h) /\ r.off = h.next
      BY Zenon, <1>3, <1>5, <3>1 DEF Drains
    <3>3. h.next <= r.off
      BY SMTT(30), <1>4, <1>5, <3>1
    <3> QED
      BY Zenon, <3>2, <3>3 DEF Ahead
  <2>3. g.raw = {r} \ Run(h) /\ Exact(g)
    <3>1. Drained(h).raw = h.raw \ Run(h)
      BY Zenon, <1>5, <2>2, DrainedFields
    <3>2. Exact(Drained(h))
      BY Zenon, <1>3, <1>5, <1>6, DrainedBudget
    <3> QED
      BY Zenon, <2>1, <2>2, <3>1, <3>2
  <2>4. r \in Run(h)
    <3>1. h.next <= Reach(h)
      BY Zenon, <1>5, <2>2, ReachCovered
    <3>2. r \in h.raw /\ r.off <= Reach(h)
      BY Zenon, <2>2, <3>1
    <3> QED
      BY Zenon, <1>5, <2>2, <3>2, RunClosed
  <2>5. g.raw = {}
    BY <2>3, <2>4
  <2>6. g.bytes = 0
    BY <2>3, <2>5, NoBytes DEF Exact
  <2> QED
    BY <1>1, <2>1, <2>5, <2>6, EmptyBudget
<1> QED
  BY <1>7, <1>8

(* push: each guest frame keeps every flow within its budget. *)
LEMMA FrameBudget ==
  ASSUME MergerInv, WithinBudget, GuestFrame
  PROVE  WithinBudget'
<1>1. PICK i \in Ids :
        \/ \E g2h \in BOOLEAN : PushAccepted(i, g2h)
        \/ \E final \in Offsets : PushFinish(i, final)
        \/ PushCancel(i)
        \/ \E t \in {"ok", "error"} : PushTerminal(i, t)
        \/ \E o \in Owners, r \in Records : PushRaw(o, i, r)
  BY Zenon DEF GuestFrame
<1>2. current # Nobody
  BY <1>1, MergerAssumption DEF PushAccepted, PushFinish, PushCancel, PushTerminal, PushRaw
<1>3. PICK k : k = <<current, i>>
  BY Zenon
<1>4. k \in Keys /\ flows[k] \in Flow /\ FlowHeldApart(flows[k])
  BY <1>2, <1>3, OwnerFacts
<1>5. FlowWithinBudget(flows[k])
  BY Zenon, <1>4 DEF WithinBudget
<1>6. ASSUME UNCHANGED flows PROVE WithinBudget'
  BY Zenon, <1>6 DEF WithinBudget
<1>7. Unregistered(k) \/ Ignore \/ Fail => UNCHANGED flows
  BY Zenon DEF Unregistered, Ignore, Fail
<1>8. ASSUME NEW f \in Flow, NEW s, Drain(k, f, s), f.raw = flows[k].raw,
             f.bytes = flows[k].bytes, FlowHeldApart(f)
      PROVE  WithinBudget'
  BY <1>4, <1>5, <1>8, DrainedWithin, DrainBudget DEF FlowWithinBudget
<1>9. ASSUME NEW g, flows' = [flows EXCEPT ![k] = g], FlowWithinBudget(g)
      PROVE  WithinBudget'
  BY <1>4, <1>9, OneBudget
<1>10. ASSUME NEW g2h \in BOOLEAN, PushAccepted(i, g2h) PROVE WithinBudget'
  <2>1. PICK f, s : /\ f = [flows[k] EXCEPT !.accepted = TRUE, !.g2h = g2h]
                    /\ s = [sent[k] EXCEPT !.accepted = TRUE]
    BY Zenon
  <2>2. /\ f \in Flow /\ f.next = flows[k].next /\ f.raw = flows[k].raw
        /\ f.bytes = flows[k].bytes
        /\ f.cancelling = flows[k].cancelling /\ f.finish = flows[k].finish
    BY Zenon, <1>4, <2>1 DEF Flow
  <2>3. FlowHeldApart(f)
    BY Zenon, <1>4, <2>2 DEF FlowHeldApart
  <2>4. Unregistered(k) \/ Fail \/ Drain(k, f, s)
    BY Zenon, <1>3, <1>10, <2>1 DEF PushAccepted
  <2> QED
    BY Zenon, <1>6, <1>7, <1>8, <2>2, <2>3, <2>4
<1>11. ASSUME NEW final \in Offsets, PushFinish(i, final) PROVE WithinBudget'
  <2>1. PICK f : f = Finishing(flows[k], final)
    OBVIOUS
  <2>2. /\ f \in Flow /\ f.next = flows[k].next /\ f.raw = flows[k].raw
        /\ f.bytes = flows[k].bytes /\ f.cancelling = flows[k].cancelling
    BY Zenon, <1>4, <2>1 DEF Flow, Finishing
  <2>3. ~ flows[k].cancelling => FlowHeldApart(f)
    BY Zenon, <1>4, <2>2 DEF FlowHeldApart
  <2>4. Unregistered(k) \/ Ignore \/ Fail \/ (~ flows[k].cancelling /\ Drain(k, f, sent[k]))
    BY Zenon, <1>3, <1>11, <2>1 DEF PushFinish
  <2> QED
    BY Zenon, <1>6, <1>7, <1>8, <2>2, <2>3, <2>4
<1>12. ASSUME PushCancel(i) PROVE WithinBudget'
  <2>1. PICK g : g = Cut(flows[k], flows[k].terminal)
    OBVIOUS
  <2>2. g.raw = {} /\ g.bytes = 0
    BY Zenon, <1>4, <2>1 DEF Cut, Flow
  <2>3. Unregistered(k) \/ flows' = [flows EXCEPT ![k] = g]
    BY Zenon, <1>3, <1>12, <2>1 DEF PushCancel
  <2> QED
    BY Zenon, <1>6, <1>7, <1>9, <2>2, <2>3, EmptyBudget
<1>13. ASSUME NEW t \in {"ok", "error"}, PushTerminal(i, t) PROVE WithinBudget'
  <2>1. PICK g : g = [flows[k] EXCEPT !.terminal = t]
    BY Zenon
  <2>2. FlowWithinBudget(g)
    <3>1. g.raw = flows[k].raw /\ g.bytes = flows[k].bytes
      BY Zenon, <1>4, <2>1 DEF Flow
    <3> QED
      BY Zenon, <1>5, <3>1 DEF FlowWithinBudget
  <2>3. \/ Ignore \/ Fail \/ flows' = [flows EXCEPT ![k] = Closed]
        \/ flows' = [flows EXCEPT ![k] = g]
    BY Zenon, <1>3, <1>13, <2>1 DEF PushTerminal
  <2> QED
    BY Zenon, <1>6, <1>7, <1>9, <2>2, <2>3, ClosedBudget
<1>14. ASSUME NEW o \in Owners, NEW r \in Records, PushRaw(o, i, r) PROVE WithinBudget'
  <2>1. PICK h : h = Holding(flows[k], r)
    OBVIOUS
  <2>2. \/ Unregistered(k) \/ Ignore \/ Fail
        \/ /\ ~ flows[k].cancelling /\ ~ RecordFails(flows[k], r)
           /\ InOrder(flows[k], r) \/ ~ OverBudget(flows[k], r)
           /\ Drain(k, h, sent[k])
    BY Zenon, <1>3, <1>14, <2>1 DEF PushRaw
  <2> QED
    BY Zenon, <1>4, <1>5, <1>6, <1>7, <2>1, <2>2, HeldWithin, DrainBudget
<1> QED
  BY Zenon, <1>1, <1>10, <1>11, <1>12, <1>13, <1>14

(* What clients ask of the merger empties flows or starts them afresh. *)
LEMMA CommandBudget ==
  ASSUME MergerInv, WithinBudget, Command
  PROVE  WithinBudget'
<1>1. CASE RemoveClient \/ \E o \in Owners : Connect(o)
  BY Zenon, <1>1 DEF RemoveClient, Connect, WithinBudget
<1>2. ASSUME NEW i \in Ids, Register(i) \/ DropFlow(i) PROVE WithinBudget'
  <2>1. PICK k : k = <<current, i>>
    BY Zenon
  <2>2. k \in Keys /\ flows[k] \in Flow
    BY <1>2, <2>1, OwnerFacts DEF Register, DropFlow
  <2>3. PICK g : g = Cut(flows[k], "none")
    OBVIOUS
  <2>4. g.raw = {} /\ g.bytes = 0
    BY Zenon, <2>2, <2>3 DEF Cut, Flow
  <2>5. flows' = [flows EXCEPT ![k] = Fresh] \/ flows' = [flows EXCEPT ![k] = g]
    BY Zenon, <1>2, <2>1, <2>3 DEF Register, DropFlow
  <2> QED
    BY Zenon, <2>2, <2>4, <2>5, ClosedBudget, EmptyBudget, OneBudget
<1>3. CASE DropIncarnation
  <2>1. \A k \in Keys : flows'[k] = Closed \/ flows'[k] = flows[k]
    BY Zenon, <1>3 DEF DropIncarnation
  <2> QED
    BY Zenon, <2>1, ClosedBudget DEF WithinBudget
<1> QED
  BY Zenon, <1>1, <1>2, <1>3 DEF Command

(* What a flow holds is charged exactly and stays within its budget: a     *)
(* record that passes through never eats into it, for any guest.           *)
THEOREM BudgetHolds == Spec => []WithinBudget
<1>1. Init => MergerInv /\ WithinBudget
  BY Zenon, MergerInitially, ClosedBudget DEF Init, WithinBudget
<1>2. MergerInv /\ WithinBudget /\ [Next]_vars => MergerInv' /\ WithinBudget'
  <2>1. ASSUME WithinBudget, UNCHANGED vars PROVE WithinBudget'
    BY Zenon, <2>1 DEF vars, WithinBudget
  <2> QED
    BY Zenon, <2>1, MergerStep, FrameBudget, CommandBudget DEF Next
<1> QED
  BY <1>1, <1>2, PTL DEF Spec

=============================================================================
