------------------------- MODULE ExecAdmissionProofs -------------------------
(***************************************************************************)
(* Proofs about the relay's execution tracker, for any number of clients   *)
(* and executions and any limits.                                          *)
(*                                                                         *)
(* The stdin it forwards comes first.  StdinContiguous is not inductive:   *)
(* that merging keeps a chunk well formed depends on the bytes in a reader *)
(* task's hand being the next ones of their execution, which HandIsNext    *)
(* adds; the same invariant gives that the round robin holds exactly the   *)
(* executions with queued input, each once, and with the history of the    *)
(* turns that nobody is overtaken: whoever was served while x waited is    *)
(* behind x in the queue.  WithinAllowances is inductive together with the *)
(* types of the counters; the bound on the slots adds that no returned     *)
(* slot is still reserved.                                                 *)
(***************************************************************************)
EXTENDS ExecAdmissionTurns, FiniteSetTheorems, TLAPS

-----------------------------------------------------------------------------
(* The stdin bytes. *)

\* A new reservation starts with empty counters.
LEMMA NewSessionType == NewSession \in Session
BY DEF NewSession, Session

\* Charging moves input_sent and eof and nothing else.
LEMMA ChargedFields ==
  ASSUME NEW s \in Session, NEW n \in Nat
  PROVE  /\ Charged(s, n) \in Session
         /\ Charged(s, n).input_sent = s.input_sent + n
         /\ Charged(s, n).input_consumed = s.input_consumed
         /\ Charged(s, n).output_sent = s.output_sent
         /\ Charged(s, n).output_consumed = s.output_consumed
         /\ Charged(s, n).input_closed = s.input_closed
<1> DEFINE t == [s EXCEPT !.input_sent = @ + n]
<1>1. t \in Session /\ t.input_sent = s.input_sent + n
  BY DEF Session
<1>2. /\ t.input_consumed = s.input_consumed /\ t.output_sent = s.output_sent
      /\ t.output_consumed = s.output_consumed /\ t.input_closed = s.input_closed
  BY DEF Session
<1>3. Charged(s, n) = [t EXCEPT !.eof = (n = 0)]
  BY DEF Charged
<1> HIDE DEF t
<1> QED BY Zenon, <1>1, <1>2, <1>3 DEF Session


\* What a reader task holds are the last bytes charged to an execution of its
\* own range, and it holds them only while it is in its loop.
HandIsNext ==
  \A c \in Clients : hand[c] # Idle =>
    /\ hand[c].id \in Ids /\ Owner[hand[c].id] = c
    /\ conn[c] = "open"
    /\ hand[c].id \in active => hand[c].to = session[hand[c].id].input_sent

\* Only a live execution with open input has anything queued.
QueuesLive ==
  \A id \in Ids : pending[id] # <<>> => id \in active /\ ~session[id].input_closed

StdinInv == TablesOK /\ HandIsNext /\ QueuesLive /\ StdinContiguous

\* Queueing the bytes that follow the chain extends it, merged or not.
LEMMA ChainQueued ==
  ASSUME NEW q \in Seq(Chunk), NEW h, h.from \in Nat, h.to \in Nat, h.from <= h.to,
         NEW a \in Nat, Chain(q, a, h.from)
  PROVE  /\ Queued(q, h) \in Seq(Chunk) /\ Queued(q, h) # <<>>
         /\ Chain(Queued(q, h), a, h.to)
<1> DEFINE n == h.to - h.from
<1>1. n \in Nat OBVIOUS
<1>2. CASE Joins(q, n)
  <2> DEFINE m == Len(q)
             k == [q[m] EXCEPT !.to = h.to]
             r == [q EXCEPT ![m] = k]
  <2>1. q # <<>> /\ m \in Nat /\ m > 0 /\ q[m] \in Chunk
    BY <1>2 DEF Joins
  <2>2. Queued(q, h) = r
    BY <1>2 DEF Queued
  <2>3. q[m].to = h.from
    BY <2>1 DEF Chain, Last
  <2>4. k \in Chunk /\ k.to = h.to /\ k.from = q[m].from
    <3>1. q[m] \in [from : Nat, to : Nat, open : BOOLEAN] /\ q[m].from <= q[m].to
      BY <2>1 DEF Chunk
    <3>2. k \in [from : Nat, to : Nat, open : BOOLEAN] /\ k.to = h.to
          /\ k.from = q[m].from
      BY Zenon, <3>1
    <3>3. q[m].from \in Nat /\ q[m].to \in Nat BY <3>1
    <3>4. k.from <= k.to BY <2>3, <3>1, <3>2, <3>3
    <3> QED BY Zenon, <3>2, <3>4 DEF Chunk
  <2> HIDE DEF k
  <2>5. r \in Seq(Chunk) /\ Len(r) = m /\ r[m] = k /\ \A i \in 1..m : i # m => r[i] = q[i]
    BY <2>1, <2>4
  <2>6. Chain(r, a, h.to)
    <3>1. r # <<>> BY <2>1, <2>5
    <3>0. /\ q[1].from = a
          /\ \A i \in 1..(m - 1) : q[i].to = q[i + 1].from
      BY <2>1 DEF Chain
    <3>a. \A i \in 1..m : r[i].from = q[i].from
      BY <2>1, <2>4, <2>5
    <3>2. r[1].from = a
      BY <2>1, <3>0, <3>a
    <3>3. Last(r).to = h.to BY <2>4, <2>5 DEF Last
    <3>4. ASSUME NEW i \in 1..(Len(r) - 1) PROVE r[i].to = r[i + 1].from
      <4>1. i \in 1..(m - 1) /\ i \in 1..m /\ i # m /\ i + 1 \in 1..m
        BY <2>1, <2>5
      <4> QED BY <2>5, <3>0, <3>a, <4>1
    <3> QED BY <3>1, <3>2, <3>3, <3>4 DEF Chain
  <2> QED BY <2>1, <2>2, <2>5, <2>6
<1>3. CASE ~Joins(q, n)
  <2> DEFINE b == q # <<>> /\ n # 0 /\ n < StdinChunk
             k == [from |-> h.from, to |-> h.to, open |-> b]
             r == Append(q, k)
  <2>1. Queued(q, h) = r BY <1>3 DEF Queued
  <2>2. k \in Chunk /\ k.from = h.from /\ k.to = h.to
    BY DEF Chunk
  <2> HIDE DEF k, b
  <2>3. r \in Seq(Chunk) /\ Len(r) = Len(q) + 1 /\ r[Len(q) + 1] = k
        /\ \A i \in 1..Len(q) : r[i] = q[i]
    BY <2>2
  <2>4. Chain(r, a, h.to)
    <3>1. CASE q = <<>> BY <2>2, <2>3, <3>1 DEF Chain, Last
    <3>2. CASE q # <<>>
      <4>1. Len(q) \in Nat /\ Len(q) > 0 BY <3>2
      <4>2. ASSUME NEW i \in 1..(Len(r) - 1) PROVE r[i].to = r[i + 1].from
        <5>1. CASE i = Len(q) BY <2>2, <2>3, <3>2, <4>1, <5>1 DEF Chain, Last
        <5>2. CASE i # Len(q)
          <6>1. i \in 1..(Len(q) - 1) /\ i + 1 \in 1..Len(q) BY <2>3, <4>1, <4>2, <5>2
          <6> QED BY <2>3, <3>2, <6>1 DEF Chain
        <5> QED BY <5>1, <5>2
      <4>3. r # <<>> /\ r[1].from = a /\ Last(r).to = h.to
        BY <2>2, <2>3, <3>2, <4>1 DEF Chain, Last
      <4> QED BY <4>2, <4>3 DEF Chain
    <3> QED BY <3>1, <3>2
  <2>5. r # <<>> BY <2>3
  <2> QED BY <2>1, <2>3, <2>4, <2>5
<1> QED BY <1>2, <1>3

\* Freezing the head keeps the chain.
LEMMA ChainFrozen ==
  ASSUME NEW q \in Seq(Chunk), q # <<>>, NEW a, NEW b, Chain(q, a, b)
  PROVE  /\ Frozen(q) \in Seq(Chunk) /\ Frozen(q) # <<>>
         /\ Chain(Frozen(q), a, b)
<1> DEFINE k == [q[1] EXCEPT !.open = FALSE]
           r == [q EXCEPT ![1] = k]
<1>1. Len(q) \in Nat /\ Len(q) > 0 /\ q[1] \in Chunk OBVIOUS
<1>2. k \in Chunk /\ k.from = q[1].from /\ k.to = q[1].to BY Zenon, <1>1 DEF Chunk
<1>3. Frozen(q) = r BY DEF Frozen
<1> HIDE DEF k
<1>4. r \in Seq(Chunk) /\ Len(r) = Len(q) /\ r[1] = k
      /\ \A i \in 1..Len(q) : i # 1 => r[i] = q[i]
  BY <1>1, <1>2
<1>5. r # <<>> BY <1>1, <1>4
<1>6. \A i \in 1..Len(q) : r[i].from = q[i].from /\ r[i].to = q[i].to
  BY <1>2, <1>4
<1>7. Chain(r, a, b) BY <1>1, <1>4, <1>5, <1>6 DEF Chain, Last
<1> QED BY <1>3, <1>4, <1>5, <1>7

\* Forwarding the head leaves the chain that begins where it ended.
LEMMA ChainTail ==
  ASSUME NEW q \in Seq(Chunk), q # <<>>, NEW a, NEW b, Chain(q, a, b)
  PROVE  Tail(q) \in Seq(Chunk) /\ Chain(Tail(q), q[1].to, b)
<1> DEFINE n == Len(q)
           t == Tail(q)
<1>1. n \in Nat /\ n > 0 /\ t \in Seq(Chunk) /\ Len(t) = n - 1
  OBVIOUS
<1>2. \A i \in 1..(n - 1) : t[i] = q[i + 1]
  OBVIOUS
<1>3. q[n].to = b /\ \A i \in 1..(n - 1) : q[i].to = q[i + 1].from
  BY DEF Chain, Last
<1> HIDE DEF n, t
<1>4. CASE n = 1
  <2>1. t = <<>> BY <1>1, <1>4
  <2> QED BY <1>1, <1>3, <1>4, <2>1 DEF Chain, t
<1>5. CASE n > 1
  <2>1. 1 \in 1..(n - 1) /\ n - 1 \in 1..(n - 1) /\ (n - 1) + 1 = n
    BY <1>1, <1>5
  <2>2. t[1].from = q[1].to BY <1>2, <1>3, <2>1
  <2>3. t[n - 1] = q[n] BY <1>2, <2>1
  <2>4. t # <<>> BY <1>1, <1>5
  <2>5. Last(t).to = b BY <1>1, <1>3, <2>3 DEF Last
  <2>6. ASSUME NEW i \in 1..(Len(t) - 1) PROVE t[i].to = t[i + 1].from
    <3>1. i + 1 \in 1..(n - 1) /\ i \in 1..(n - 1) BY <1>1, <2>6
    <3> QED BY <1>2, <1>3, <3>1
  <2>7. Chain(t, q[1].to, b) BY <2>2, <2>4, <2>5, <2>6 DEF Chain
  <2> QED BY <1>1, <2>7 DEF t
<1> QED BY <1>1, <1>4, <1>5

\* No bytes are in hand or queued at first.
LEMMA InitStdin == Init => StdinInv
<1> SUFFICES ASSUME Init PROVE StdinInv
  OBVIOUS
<1>1. TablesOK
  BY NewSessionType DEF Init, TablesOK, ReaderStages, Hand, NewSession, Session
<1> QED BY <1>1 DEF Init, StdinInv, HandIsNext, QueuesLive, StdinContiguous

\* A step that moves neither queues nor bytes in hand keeps the invariant.
LEMMA FrameStep ==
  ASSUME StdinInv, TablesOK',
         UNCHANGED <<active, pending, hand, forwarded>>,
         \A id \in Ids : /\ session'[id].input_sent = session[id].input_sent
                         /\ session'[id].input_closed = session[id].input_closed,
         \A c \in Clients : hand[c] # Idle => conn'[c] = "open"
  PROVE  StdinInv'
<1>1. active \subseteq Ids BY DEF StdinInv, TablesOK
<1>2. HandIsNext' BY <1>1 DEF StdinInv, HandIsNext
<1>3. QueuesLive' BY DEF StdinInv, QueuesLive
<1>4. ASSUME NEW id \in active' PROVE QueueEnd(id)' = QueueEnd(id)
  BY <1>1, <1>4 DEF QueueEnd, InHand
<1>5. StdinContiguous' BY <1>1, <1>4 DEF StdinInv, StdinContiguous
<1> QED BY <1>2, <1>3, <1>5 DEF StdinInv

\* Admit: a fresh execution has nothing queued and nothing in hand.
LEMMA AdmitStep ==
  ASSUME StdinInv, NEW c \in Clients, NEW id \in Ids, Admit(c, id)
  PROVE  StdinInv'
<1> USE DEF StdinInv
<1>1. TablesOK'
  BY NewSessionType DEF TablesOK, Admit
<1>2. /\ hand[c] = Idle /\ Owner[id] = c /\ UNCHANGED <<hand, conn>>
      /\ session'[id] = NewSession /\ pending'[id] = <<>>
      /\ forwarded'[id].bytes = 0
      /\ active' = active \cup {id}
      /\ \A i \in Ids : i # id => /\ session'[i] = session[i]
                                  /\ pending'[i] = pending[i]
                                  /\ forwarded'[i] = forwarded[i]
  BY DEF Admit, Reading, TablesOK
<1>3. HandIsNext'
  BY <1>2 DEF HandIsNext
<1>4. QueuesLive'
  BY <1>2 DEF QueuesLive
<1>5. ASSUME NEW i \in active', ~session'[i].input_closed
      PROVE  Chain(pending'[i], forwarded'[i].bytes, QueueEnd(i)')
  <2>0. i \in Ids BY <1>2 DEF TablesOK
  <2>1. CASE i = id BY <1>2, <2>1 DEF Chain, QueueEnd, InHand, NewSession
  <2>2. CASE i # id
    <3>1. QueueEnd(i)' = QueueEnd(i) BY <1>2, <2>0, <2>2 DEF QueueEnd, InHand
    <3> QED BY <1>2, <1>5, <2>0, <2>2, <3>1 DEF StdinContiguous
  <2> QED BY <2>1, <2>2
<1> QED BY <1>1, <1>3, <1>4, <1>5 DEF StdinContiguous

\* ClientStdin: the charged bytes are the next ones, now in hand.
LEMMA ClientStdinStep ==
  ASSUME StdinInv, NEW c \in Clients, NEW id \in Ids, NEW n \in StdinLengths,
         ClientStdin(c, id, n)
  PROVE  StdinInv'
<1> USE DEF StdinInv
<1> DEFINE s == session[id]
           h == [id |-> id, from |-> s.input_sent, to |-> s.input_sent + n]
<1>1. n \in Nat /\ s \in Session /\ s.input_sent \in Nat
  BY DEF StdinLengths, TablesOK, Session
<1>2. /\ hand[c] = Idle /\ conn[c] = "open" /\ Owner[id] = c /\ id \in active
      /\ session' = [session EXCEPT ![id] = Charged(s, n)]
      /\ hand' = [hand EXCEPT ![c] = h]
      /\ UNCHANGED <<policy, active, pending, ready, conn, kicked, forwarded>>
  BY DEF ClientStdin, Reading
<1>3. /\ Charged(s, n) \in Session
      /\ Charged(s, n).input_sent = s.input_sent + n
      /\ Charged(s, n).input_closed = s.input_closed
  BY <1>1, ChargedFields
<1>4. h \in Hand /\ h.id = id /\ h.from = s.input_sent /\ h.to = s.input_sent + n
  BY <1>1 DEF Hand
<1> HIDE DEF h
<1>5. TablesOK' BY <1>2, <1>3, <1>4 DEF TablesOK
<1>6. /\ session'[id] = Charged(s, n) /\ hand'[c] = h
      /\ \A i \in Ids : i # id => session'[i] = session[i]
      /\ \A d \in Clients : d # c => hand'[d] = hand[d]
  BY <1>2 DEF TablesOK
<1>7. HandIsNext'
  BY <1>1, <1>2, <1>3, <1>4, <1>6 DEF HandIsNext
<1>8. QueuesLive'
  BY <1>2, <1>3, <1>6 DEF QueuesLive
<1>9. ASSUME NEW i \in active', ~session'[i].input_closed
      PROVE  Chain(pending'[i], forwarded'[i].bytes, QueueEnd(i)')
  <2>0. i \in Ids /\ i \in active BY <1>2 DEF TablesOK
  <2>1. QueueEnd(i)' = QueueEnd(i)
    <3>1. CASE i = id
      <4>1. QueueEnd(i) = s.input_sent BY <1>2, <3>1 DEF QueueEnd, InHand
      <4>2. CASE h = Idle
        <5>1. h.from = 0 /\ h.to = 0 BY <4>2 DEF Idle
        <5>2. QueueEnd(i)' = s.input_sent + n
          BY <1>2, <1>3, <1>6, <3>1, <4>2 DEF QueueEnd, InHand
        <5> QED BY Zenon, <1>1, <1>4, <4>1, <5>1, <5>2
      <4>3. CASE h # Idle
        BY <1>2, <1>4, <1>6, <3>1, <4>1, <4>3 DEF QueueEnd, InHand
      <4> QED BY <4>2, <4>3
    <3>2. CASE i # id
      <4>1. (~InHand(i)' /\ ~InHand(i)) \/ Owner[i] # c
        BY <1>2, <1>4, <1>6, <3>2 DEF InHand
      <4>2. Owner[i] # c => (InHand(i)' <=> InHand(i)) /\ hand'[Owner[i]] = hand[Owner[i]]
        BY <1>6, <2>0, OwnerAssumption DEF InHand
      <4> QED BY <1>6, <2>0, <3>2, <4>1, <4>2 DEF QueueEnd
    <3> QED BY <3>1, <3>2
  <2>2. ~session[i].input_closed BY <1>3, <1>6, <1>9, <2>0
  <2> QED BY <1>2, <2>0, <2>1, <2>2 DEF StdinContiguous
<1> QED BY Zenon, <1>5, <1>7, <1>8, <1>9 DEF StdinContiguous

\* EnqueueInput: the bytes in hand join the queue of their execution.
LEMMA EnqueueStep ==
  ASSUME StdinInv, NEW c \in Clients, EnqueueInput(c)
  PROVE  StdinInv'
<1> USE DEF StdinInv
<1>a. PICK h : h = hand[c]
  OBVIOUS
<1>b. PICK x : x = h.id
  OBVIOUS
<1> DEFINE live == x \in active /\ ~session[x].input_closed
<1>1. /\ h # Idle /\ x \in Ids /\ Owner[x] = c /\ h.from \in Nat /\ h.to \in Nat
      /\ h.from <= h.to
      /\ x \in active => h.to = session[x].input_sent
  BY <1>a, <1>b DEF EnqueueInput, HandIsNext, TablesOK, Hand
<1>2. /\ hand' = [hand EXCEPT ![c] = Idle]
      /\ UNCHANGED <<policy, active, session, conn, kicked, forwarded>>
  BY DEF EnqueueInput
<1>3. hand'[c] = Idle /\ \A d \in Clients : d # c => hand'[d] = hand[d]
  BY <1>2 DEF TablesOK
<1>4. HandIsNext'
  BY <1>2, <1>3 DEF HandIsNext
<1>5. ASSUME NEW i \in Ids, i # x PROVE QueueEnd(i)' = QueueEnd(i)
  <2>1. InHand(i)' <=> InHand(i)
    BY <1>a, <1>b, <1>1, <1>3, <1>5, OwnerAssumption DEF InHand
  <2>2. InHand(i) => Owner[i] # c
    BY <1>a, <1>b, <1>5 DEF InHand
  <2> QED BY <1>2, <1>3, <2>1, <2>2 DEF QueueEnd
<1>6. x \in active => QueueEnd(x)' = h.to /\ QueueEnd(x) = h.from
  BY <1>a, <1>b, <1>1, <1>2, <1>3 DEF QueueEnd, InHand
<1>7. CASE live
  <2>1. pending' = [pending EXCEPT ![x] = Queued(pending[x], h)]
    BY <1>a, <1>b, <1>7 DEF EnqueueInput
  <2>2. Chain(pending[x], forwarded[x].bytes, h.from)
    BY <1>6, <1>7 DEF StdinContiguous
  <2>3. /\ Queued(pending[x], h) \in Seq(Chunk) /\ Queued(pending[x], h) # <<>>
        /\ Chain(Queued(pending[x], h), forwarded[x].bytes, h.to)
    <3>1. pending[x] \in Seq(Chunk) /\ forwarded[x].bytes \in Nat
      BY <1>1 DEF TablesOK
    <3> QED BY <1>1, <2>2, <3>1, ChainQueued
  <2>4. pending'[x] = Queued(pending[x], h) /\ \A i \in Ids : i # x => pending'[i] = pending[i]
    BY <1>1, <2>1 DEF TablesOK
  <2>5. TablesOK'
    BY Zenon, <1>2, <2>1, <2>3 DEF TablesOK, Hand
  <2>6. QueuesLive' BY <1>2, <1>7, <2>4 DEF QueuesLive
  <2>7. ASSUME NEW i \in active', ~session'[i].input_closed
        PROVE  Chain(pending'[i], forwarded'[i].bytes, QueueEnd(i)')
    <3>1. i \in Ids BY <1>2 DEF TablesOK
    <3>2. CASE i = x BY <1>2, <1>6, <1>7, <2>3, <2>4, <3>2
    <3>3. CASE i # x BY Zenon, <1>2, <1>5, <2>4, <2>7, <3>1, <3>3 DEF StdinContiguous
    <3> QED BY <3>2, <3>3
  <2> QED BY <1>4, <2>5, <2>6, <2>7 DEF StdinContiguous
<1>8. CASE ~live
  <2>1. UNCHANGED pending BY <1>a, <1>b, <1>8 DEF EnqueueInput
  <2>2. TablesOK' BY <1>2, <2>1 DEF TablesOK, Hand
  <2>3. QueuesLive' BY <1>2, <2>1 DEF QueuesLive
  <2>4. ASSUME NEW i \in active', ~session'[i].input_closed
        PROVE  Chain(pending'[i], forwarded'[i].bytes, QueueEnd(i)')
    <3>1. i \in Ids /\ i # x BY <1>2, <1>8, <2>4 DEF TablesOK
    <3> QED BY <1>2, <1>5, <2>1, <2>4, <3>1 DEF StdinContiguous
  <2> QED BY <1>4, <2>2, <2>3, <2>4 DEF StdinContiguous
<1> QED BY <1>7, <1>8

\* CancelInput: the range loses its queues and its claim to contiguity.
LEMMA CancelStep ==
  ASSUME StdinInv, NEW c \in Clients, CancelInput(c)
  PROVE  StdinInv'
<1> USE DEF StdinInv
<1>1. /\ UNCHANGED <<policy, active, kicked, hand, forwarded>>
      /\ conn[c] = "broken" /\ conn' = [conn EXCEPT ![c] = "cancelled"]
  BY DEF CancelInput
<1>2. \A i \in Ids :
        /\ Owner[i] = c => pending'[i] = <<>>
        /\ Owner[i] # c => pending'[i] = pending[i] /\ session'[i] = session[i]
        /\ i \in active /\ Owner[i] = c => session'[i].input_closed
        /\ session'[i].input_sent = session[i].input_sent
  <2>1. ASSUME NEW t \in Session
        PROVE  [t EXCEPT !.input_closed = TRUE].input_closed
               /\ [t EXCEPT !.input_closed = TRUE].input_sent = t.input_sent
    BY DEF Session
  <2>2. ASSUME NEW i \in Ids
        PROVE  /\ session[i] \in Session
               /\ session'[i] = IF i \in active /\ Owner[i] = c
                                THEN [session[i] EXCEPT !.input_closed = TRUE]
                                ELSE session[i]
    BY DEF CancelInput, TablesOK
  <2> QED BY <2>1, <2>2 DEF CancelInput
<1>3. TablesOK'
  <2>1. ASSUME NEW t \in Session PROVE [t EXCEPT !.input_closed = TRUE] \in Session
    BY Zenon DEF Session
  <2>2. session' \in [Ids -> Session]
    BY <2>1 DEF CancelInput, TablesOK
  <2>3. pending' \in [Ids -> Seq(Chunk)]
    BY DEF CancelInput, TablesOK
  <2> QED BY <1>1, <2>2, <2>3 DEF TablesOK, ReaderStages
<1>4. HandIsNext'
  <2>1. hand[c] = Idle BY <1>1 DEF HandIsNext
  <2>2. \A d \in Clients : d # c => conn'[d] = conn[d] BY <1>1 DEF TablesOK
  <2> QED BY <1>1, <1>2, <2>1, <2>2 DEF HandIsNext
<1>5. QueuesLive' BY <1>1, <1>2 DEF QueuesLive
<1>6. ASSUME NEW i \in active', ~session'[i].input_closed
      PROVE  Chain(pending'[i], forwarded'[i].bytes, QueueEnd(i)')
  <2>1. i \in Ids /\ i \in active /\ Owner[i] # c BY <1>1, <1>2, <1>6 DEF TablesOK
  <2>2. QueueEnd(i)' = QueueEnd(i) BY <1>1, <1>2, <2>1 DEF QueueEnd, InHand
  <2> QED BY Zenon, <1>1, <1>2, <1>6, <2>1, <2>2 DEF StdinContiguous
<1> QED BY <1>3, <1>4, <1>5, <1>6 DEF StdinContiguous

\* Disconnect and a guest terminal both forget executions as a whole.
LEMMA ForgetStep ==
  ASSUME StdinInv, NEW S \in SUBSET Ids, TablesOK',
         UNCHANGED <<hand, forwarded>>,
         \A d \in Clients : hand[d] # Idle => conn'[d] = "open",
         active' = active \ S,
         \A i \in Ids : /\ i \in S => pending'[i] = <<>>
                        /\ i \notin S => /\ pending'[i] = pending[i]
                                         /\ session'[i] = session[i]
  PROVE  StdinInv'
<1> USE DEF StdinInv
<1>1. HandIsNext' BY DEF HandIsNext
<1>2. QueuesLive' BY DEF QueuesLive
<1>3. ASSUME NEW i \in active', ~session'[i].input_closed
      PROVE  Chain(pending'[i], forwarded'[i].bytes, QueueEnd(i)')
  <2>1. i \in Ids /\ i \in active /\ i \notin S BY DEF TablesOK
  <2>2. QueueEnd(i)' = QueueEnd(i) BY <2>1 DEF QueueEnd, InHand
  <2> QED BY <1>3, <2>1, <2>2 DEF StdinContiguous
<1> QED BY <1>1, <1>2, <1>3 DEF StdinContiguous

\* TakeInput: heads are frozen, one may leave for the guest.
LEMMA TakeStep ==
  ASSUME StdinInv, WriterStep
  PROVE  StdinInv'
<1> USE DEF StdinInv
<1>1. PICK k \in 0..Len(ready) : TakeInput(k)
  BY DEF WriterStep
<1> DEFINE seen == {ready[i] : i \in 1..k}
           fz(i) == IF i \in seen /\ HasPending(i) THEN Frozen(pending[i]) ELSE pending[i]
<1>2. UNCHANGED <<policy, active, session, conn, kicked, hand>>
  BY Zenon, <1>1 DEF TakeInput
<1>3. HandIsNext' BY <1>2 DEF HandIsNext
<1>4. \A i \in Ids : QueueEnd(i)' = QueueEnd(i)
  BY <1>2 DEF QueueEnd, InHand
<1>5. ASSUME NEW i \in Ids
      PROVE  /\ fz(i) \in Seq(Chunk)
             /\ fz(i) # <<>> => pending[i] # <<>>
             /\ \A a, b : Chain(pending[i], a, b) => Chain(fz(i), a, b)
  <2>1. pending[i] \in Seq(Chunk) BY DEF TablesOK
  <2>2. CASE i \in seen /\ HasPending(i)
    <3>1. pending[i] # <<>> /\ i \in active /\ fz(i) = Frozen(pending[i])
      BY <2>2 DEF HasPending
    <3>2. Chain(pending[i], forwarded[i].bytes, QueueEnd(i))
      BY <3>1 DEF QueuesLive, StdinContiguous
    <3> HIDE DEF fz
    <3> QED BY <2>1, <3>1, <3>2, ChainFrozen
  <2>3. CASE ~(i \in seen /\ HasPending(i)) BY <2>1, <2>3
  <2> QED BY Zenon, <2>2, <2>3
<1>6. CASE k = Len(ready)
  <2>1. pending' = [i \in Ids |-> fz(i)] /\ UNCHANGED forwarded
    BY <1>1, <1>6 DEF TakeInput
  <2> HIDE DEF fz
  <2>2. TablesOK' BY <1>2, <1>5, <2>1 DEF TablesOK
  <2>3. QueuesLive' BY <1>2, <1>5, <2>1 DEF QueuesLive
  <2>4. StdinContiguous'
    BY <1>2, <1>4, <1>5, <2>1 DEF StdinContiguous, TablesOK
  <2> QED BY <1>3, <2>2, <2>3, <2>4
<1>7. CASE k # Len(ready)
  <2>1. PICK x : x = ready[k + 1]
    OBVIOUS
  <2> DEFINE head == pending[x][1]
  <2>2. /\ HasPending(x)
        /\ pending' = [[i \in Ids |-> fz(i)] EXCEPT ![x] = Tail(pending[x])]
        /\ forwarded' = [forwarded EXCEPT ![x] =
                           [bytes |-> head.to, eof |-> head.from = head.to]]
    BY Zenon, <1>1, <1>7, <2>1 DEF TakeInput
  <2>3. x \in Ids /\ x \in active /\ pending[x] # <<>> /\ pending[x] \in Seq(Chunk)
        /\ ~session[x].input_closed
    BY Zenon, <2>2 DEF HasPending, TablesOK, QueuesLive
  <2>4. Chain(pending[x], forwarded[x].bytes, QueueEnd(x))
    BY <2>3 DEF StdinContiguous
  <2>5. Tail(pending[x]) \in Seq(Chunk) /\ Chain(Tail(pending[x]), head.to, QueueEnd(x))
    BY <2>3, <2>4, ChainTail
  <2>6. head \in Chunk /\ head.to \in Nat
    BY <2>3 DEF Chunk
  <2>7. [bytes |-> head.to, eof |-> head.from = head.to] \in [bytes : Nat, eof : BOOLEAN]
    BY <2>6
  <2> HIDE DEF fz, head
  <2>8. /\ pending'[x] = Tail(pending[x]) /\ forwarded'[x].bytes = head.to
        /\ \A i \in Ids : i # x => pending'[i] = fz(i) /\ forwarded'[i] = forwarded[i]
    BY <2>2, <2>3 DEF TablesOK
  <2>9. TablesOK' BY Zenon, <1>2, <1>5, <2>2, <2>5, <2>7 DEF TablesOK
  <2>10. QueuesLive' BY <1>2, <1>5, <2>3, <2>8 DEF QueuesLive
  <2>11. ASSUME NEW i \in active', ~session'[i].input_closed
         PROVE  Chain(pending'[i], forwarded'[i].bytes, QueueEnd(i)')
    <3>1. i \in Ids /\ i \in active BY <1>2 DEF TablesOK
    <3>2. CASE i = x BY <1>4, <2>5, <2>8, <3>1, <3>2
    <3>3. CASE i # x BY <1>2, <1>4, <1>5, <2>8, <2>11, <3>1, <3>3 DEF StdinContiguous
    <3> QED BY <3>2, <3>3
  <2> QED BY Zenon, <1>3, <2>9, <2>10, <2>11 DEF StdinContiguous
<1> QED BY <1>6, <1>7

\* Every step keeps the stdin of every execution contiguous.
LEMMA StdinStep == StdinInv /\ [Next]_vars => StdinInv'
<1> SUFFICES ASSUME StdinInv, [Next]_vars PROVE StdinInv'
  OBVIOUS
<1> USE DEF StdinInv
<1>a. ASSUME NEW t \in Session, NEW n \in Nat
      PROVE  /\ [t EXCEPT !.started = TRUE] \in Session
             /\ [t EXCEPT !.input_consumed = n] \in Session
             /\ [t EXCEPT !.output_consumed = n] \in Session
             /\ [t EXCEPT !.output_sent = n] \in Session
  BY Zenon DEF Session
<1>b. ASSUME NEW i \in Ids PROVE session[i] \in Session
  BY SMTT(30) DEF TablesOK
<1>1. ASSUME NEW c \in Clients, ClientStep(c) PROVE StdinInv'
  <2>1. CASE Accept(c)
    <3>1. TablesOK' BY <2>1 DEF Accept, TablesOK, ReaderStages
    <3> QED BY Zenon, <2>1, <3>1, FrameStep DEF Accept, HandIsNext, TablesOK
  <2>2. CASE Reading(c) /\ Break(c)
    <3>1. TablesOK' BY <2>2 DEF Break, TablesOK, ReaderStages
    <3> QED BY Zenon, <2>2, <3>1, FrameStep DEF Break, Reading, HandIsNext, TablesOK
  <2>3. CASE EnqueueInput(c) BY <2>3, EnqueueStep
  <2>4. CASE CancelInput(c) BY <2>4, CancelStep
  <2>5. CASE RemoveClient(c)
    <3>1. TablesOK' BY <2>5 DEF RemoveClient, TablesOK, ReaderStages
    <3> QED BY Zenon, <2>5, <3>1, FrameStep DEF RemoveClient, HandIsNext, TablesOK
  <2>6. CASE Disconnect(c)
    <3>1. TablesOK'
      BY <2>6, NewSessionType DEF Disconnect, TablesOK, ReaderStages, RangeOf
    <3>2. hand[c] = Idle BY <2>6 DEF Disconnect, HandIsNext
    <3>3. \A d \in Clients : hand[d] # Idle => conn'[d] = "open"
      BY <2>6, <3>2 DEF Disconnect, HandIsNext, TablesOK
    <3>4. RangeOf(c) \in SUBSET Ids /\ \A i \in Ids : i \in RangeOf(c) <=> Owner[i] = c
      BY DEF RangeOf
    <3>5. \A i \in Ids : /\ i \in RangeOf(c) => pending'[i] = <<>>
                         /\ i \notin RangeOf(c) => /\ pending'[i] = pending[i]
                                                   /\ session'[i] = session[i]
      BY <2>6, <3>4 DEF Disconnect
    <3>6. active' = active \ RangeOf(c) /\ UNCHANGED <<hand, forwarded>>
      BY <2>6 DEF Disconnect
    <3> HIDE DEF StdinInv
    <3> QED BY Zenon, <3>1, <3>3, <3>4, <3>5, <3>6, ForgetStep
  <2>7. ASSUME NEW id \in Ids, Admit(c, id) PROVE StdinInv'
    BY <2>7, AdmitStep
  <2>8. ASSUME NEW id \in Ids, NEW n \in StdinLengths, ClientStdin(c, id, n)
        PROVE  StdinInv'
    BY <2>8, ClientStdinStep
  <2>9. ASSUME NEW id \in Ids, NEW n \in Offsets, ClientOutputAck(c, id, n)
        PROVE  StdinInv'
    <3>1. session' = [session EXCEPT ![id].output_consumed = n] /\ n \in Nat
      BY <2>9 DEF ClientOutputAck, Offsets
    <3>a. session' \in [Ids -> Session]
      BY Zenon, <1>b, <3>1 DEF TablesOK, Session
    <3>2. TablesOK' BY <2>9, <3>a DEF ClientOutputAck, TablesOK
    <3>3. \A i \in Ids : /\ session'[i].input_sent = session[i].input_sent
                         /\ session'[i].input_closed = session[i].input_closed
      BY Zenon, <1>b, <3>1 DEF TablesOK, Session
    <3>4. \A d \in Clients : hand[d] # Idle => conn'[d] = "open"
      BY <2>9 DEF ClientOutputAck, HandIsNext
    <3> HIDE DEF StdinInv
    <3> QED BY <2>9, <3>2, <3>3, <3>4, FrameStep DEF ClientOutputAck
  <2> QED
    BY <1>1, <2>1, <2>2, <2>3, <2>4, <2>5, <2>6, <2>7, <2>8, <2>9
    DEF ClientStep, LeaveLoop, ReaderKicked, AdmitTwice, ClientStdinRefused,
        ClientOutputAckRefused
<1>2. ASSUME NEW id \in Ids, GuestStep(id) PROVE StdinInv'
  <2>a. ASSUME NEW t \in Session, session' = [session EXCEPT ![id] = t],
               t.input_sent = session[id].input_sent,
               t.input_closed = session[id].input_closed,
               UNCHANGED <<policy, active, pending, ready, conn, kicked, hand, forwarded>>
        PROVE  StdinInv'
    <3>1. TablesOK' BY <2>a DEF TablesOK
    <3>2. \A i \in Ids : /\ session'[i].input_sent = session[i].input_sent
                         /\ session'[i].input_closed = session[i].input_closed
      BY <2>a DEF TablesOK
    <3>3. \A d \in Clients : hand[d] # Idle => conn'[d] = "open"
      BY <2>a DEF HandIsNext
    <3> HIDE DEF StdinInv
    <3> QED BY <2>a, <3>1, <3>2, <3>3, FrameStep
  <2>1. CASE GuestStarted(id)
    <3> DEFINE t == [session[id] EXCEPT !.started = TRUE]
    <3>1. t \in Session /\ t.input_sent = session[id].input_sent
          /\ t.input_closed = session[id].input_closed
      BY Zenon, <1>b DEF Session
    <3> QED BY Zenon, <2>a, <2>1, <3>1 DEF GuestStarted
  <2>2. CASE GuestTerminal(id)
    <3>1. TablesOK'
      BY <2>2, NewSessionType DEF GuestTerminal, Release, TablesOK
    <3>2. \A d \in Clients : hand[d] # Idle => conn'[d] = "open"
      BY <2>2 DEF GuestTerminal, HandIsNext
    <3>3. \A i \in Ids : /\ i \in {id} => pending'[i] = <<>>
                         /\ i \notin {id} => /\ pending'[i] = pending[i]
                                             /\ session'[i] = session[i]
      BY <2>2 DEF GuestTerminal, Release, TablesOK
    <3>4. active' = active \ {id} /\ UNCHANGED <<hand, forwarded>>
      BY <2>2 DEF GuestTerminal, Release
    <3>5. {id} \in SUBSET Ids OBVIOUS
    <3> HIDE DEF StdinInv
    <3> QED BY Zenon, <3>1, <3>2, <3>3, <3>4, <3>5, ForgetStep
  <2>3. CASE Kick(id)
    <3>1. TablesOK' BY Zenon, <2>3 DEF Kick, TablesOK
    <3> QED BY <2>3, <3>1, FrameStep DEF Kick, HandIsNext
  <2>4. ASSUME NEW n \in Offsets, GuestStdinAck(id, n) PROVE StdinInv'
    <3> DEFINE t == [session[id] EXCEPT !.input_consumed = n]
    <3>1. t \in Session /\ t.input_sent = session[id].input_sent
          /\ t.input_closed = session[id].input_closed
      BY <1>a, <1>b DEF Session, Offsets
    <3> QED BY Zenon, <2>a, <2>4, <3>1 DEF GuestStdinAck
  <2>5. ASSUME NEW n \in OutputLengths, GuestOutput(id, n) PROVE StdinInv'
    <3> DEFINE t == [session[id] EXCEPT !.output_sent = @ + n + Overhead]
    <3>1. t \in Session /\ t.input_sent = session[id].input_sent
          /\ t.input_closed = session[id].input_closed
      BY <1>b, LimitsAssumption DEF Session, OutputLengths
    <3> QED BY Zenon, <2>a, <2>5, <3>1 DEF GuestOutput
  <2> QED
    BY <1>2, <2>1, <2>2, <2>3, <2>4, <2>5
    DEF GuestStep, GuestCoreError, GuestStdinAckRefused, GuestOutputRefused
<1>3. CASE WriterStep BY <1>3, TakeStep
<1>4. CASE UNCHANGED vars
  <2>1. TablesOK' BY <1>4 DEF vars, TablesOK
  <2> QED BY <1>4, <2>1, FrameStep DEF vars, HandIsNext
<1> QED BY <1>1, <1>2, <1>3, <1>4 DEF Next

\* For any limits and any peers, the stdin the guest is given is exactly what
\* the client was charged for, in order and without a gap, up to the moment
\* its input is cancelled.
THEOREM StdinHolds == Spec => [](TablesOK /\ StdinContiguous)
<1>1. StdinInv => TablesOK /\ StdinContiguous
  BY DEF StdinInv
<1> QED BY <1>1, InitStdin, StdinStep, PTL DEF Spec

\* After cancel_input no more of the execution's stdin is forwarded, whatever
\* the reader task still had to do when its connection broke.
THEOREM CancelHolds == Spec => CancelledInputStops
<1> DEFINE Stops == \A id \in active :
                      session[id].input_closed => forwarded'[id] = forwarded[id]
<1>1. StdinInv /\ [Next]_vars => [Stops]_vars
  <2> SUFFICES ASSUME StdinInv, Next PROVE Stops
    OBVIOUS
  <2>1. ASSUME NEW c \in Clients, ClientStep(c) PROVE Stops
    <3>1. ASSUME NEW id \in Ids, Admit(c, id) PROVE Stops
      BY <3>1 DEF Admit, StdinInv, TablesOK
    <3> QED
      BY <2>1, <3>1
      DEF ClientStep, Accept, LeaveLoop, ReaderKicked, Break, AdmitTwice,
          ClientStdin, ClientStdinRefused, EnqueueInput, ClientOutputAck,
          ClientOutputAckRefused, CancelInput, RemoveClient, Disconnect
  <2>2. ASSUME NEW id \in Ids, GuestStep(id) PROVE Stops
    BY <2>2
    DEF GuestStep, GuestStarted, GuestTerminal, GuestCoreError, GuestStdinAck,
        GuestStdinAckRefused, GuestOutput, GuestOutputRefused, Kick
  <2>3. CASE WriterStep
    <3>1. PICK k \in 0..Len(ready) : TakeInput(k) BY Zenon, <2>3 DEF WriterStep
    <3>2. CASE k = Len(ready) BY Zenon, <3>1, <3>2 DEF TakeInput
    <3>3. CASE k # Len(ready)
      <4>1. PICK x : x = ready[k + 1] OBVIOUS
      <4>2. /\ HasPending(x)
            /\ forwarded' = [forwarded EXCEPT ![x] =
                 [bytes |-> pending[x][1].to,
                  eof |-> pending[x][1].from = pending[x][1].to]]
        BY Zenon, <3>1, <3>3, <4>1 DEF TakeInput
      <4>3. x \in Ids /\ ~session[x].input_closed
        BY Zenon, <4>2 DEF HasPending, StdinInv, QueuesLive, TablesOK
      <4> QED BY Zenon, <4>2, <4>3 DEF StdinInv, TablesOK
    <3> QED BY <3>2, <3>3
  <2> QED BY <2>1, <2>2, <2>3 DEF Next
<1>2. [][Stops]_vars => CancelledInputStops
  BY DEF CancelledInputStops
<1> QED BY <1>1, <1>2, InitStdin, StdinStep, PTL DEF Spec

-----------------------------------------------------------------------------
(* The round robin. *)

\* The ID is an entry of the queue.
Listed(x, q) == \E i \in 1..Len(q) : q[i] = x

\* No entry of the queue occurs twice.
Once(q) == \A i, j \in 1..Len(q) : q[i] = q[j] => i = j

\* The queue reaches x before y.
Ahead(x, y, q) == \E i, j \in 1..Len(q) : i < j /\ q[i] = x /\ q[j] = y

\* In a finite set of positions there is an n-th smallest for every n up to
\* its size: ranking the positions is a bijection.
LEMMA NthExists ==
  ASSUME NEW m \in Nat, NEW P \in SUBSET (1..m), NEW n \in 1..Cardinality(P)
  PROVE  Nth(P, n) \in P /\ Cardinality({x \in P : x <= Nth(P, n)}) = n
<1> DEFINE Below(p) == {x \in P : x <= p}
           rank == [p \in P |-> Cardinality(Below(p))]
           c == Cardinality(P)
<1>1. IsFiniteSet(1..m)
  <2>1. 1 \in Int /\ m \in Int OBVIOUS
  <2> QED BY Zenon, <2>1, FS_Interval
<1>2. IsFiniteSet(P) BY Zenon, <1>1, FS_Subset
<1>3. c \in Nat BY Zenon, <1>2, FS_CardinalityType
<1>4. ASSUME NEW p \in P PROVE IsFiniteSet(Below(p)) /\ Cardinality(Below(p)) \in 1..c
  <2>1. Below(p) \subseteq P OBVIOUS
  <2>2. IsFiniteSet(Below(p)) /\ Cardinality(Below(p)) <= c
    BY Zenon, <1>2, <2>1, FS_Subset
  <2>3. Cardinality(Below(p)) \in Nat BY Zenon, <2>2, FS_CardinalityType
  <2>4. p \in Below(p) BY p \in Nat
  <2>5. Cardinality(Below(p)) # 0 BY Zenon, <2>2, <2>4, FS_EmptySet
  <2> HIDE DEF Below, c
  <2> QED BY <1>3, <2>2, <2>3, <2>5
<1>5. rank \in [P -> 1..c] BY Zenon, <1>4
<1>6. ASSUME NEW p \in P, NEW r \in P, p < r PROVE rank[p] < rank[r]
  <2>1. \A x \in P : x \in Nat OBVIOUS
  <2>2. Below(p) \subseteq Below(r) /\ r \in Below(r) /\ r \notin Below(p)
    <3>1. (\A x \in P : x <= p => x <= r) /\ r <= r /\ ~(r <= p)
      BY <1>6, <2>1
    <3> QED BY Zenon, <3>1
  <2>3. Below(p) # Below(r) BY Zenon, <2>2
  <2>4. IsFiniteSet(Below(r)) BY <1>4
  <2>5. /\ Cardinality(Below(p)) <= Cardinality(Below(r))
        /\ Cardinality(Below(p)) = Cardinality(Below(r)) => Below(p) = Below(r)
    BY Zenon, <2>2, <2>4, FS_Subset
  <2>6. Cardinality(Below(p)) \in Nat /\ Cardinality(Below(r)) \in Nat
    <3>1. \A j \in 1..c : j \in Nat BY <1>3
    <3> QED BY Zenon, <1>4, <3>1
  <2>7. rank[p] = Cardinality(Below(p)) /\ rank[r] = Cardinality(Below(r)) OBVIOUS
  <2> HIDE DEF Below, rank
  <2> QED BY <2>3, <2>5, <2>6, <2>7
<1>7. ASSUME NEW p \in P, NEW r \in P, rank[p] = rank[r] PROVE p = r
  <2>1. p \in Nat /\ r \in Nat /\ rank[p] \in Nat /\ rank[r] \in Nat
    BY <1>5
  <2> HIDE DEF rank
  <2> QED BY <1>6, <1>7, <2>1
<1>8. rank \in Injection(P, 1..c)
  BY Zenon, <1>5, <1>7 DEF Injection, IsInjective
<1>9. IsFiniteSet(1..c) /\ Cardinality(1..c) = c
  <2>1. 1 \in Int /\ c \in Int BY <1>3
  <2>2. IsFiniteSet(1..c) /\ Cardinality(1..c) = IF 1 > c THEN 0 ELSE c - 1 + 1
    BY Zenon, <2>1, FS_Interval
  <2> HIDE DEF c
  <2> QED BY <1>3, <2>2
<1>10. rank \in Surjection(P, 1..c)
  BY Zenon, <1>2, <1>8, <1>9, FS_Injection
<1>11. PICK p \in P : rank[p] = n
  BY Zenon, <1>10 DEF Surjection
<1>12. Cardinality({x \in P : x <= p}) = n BY <1>11
<1> QED BY Zenon, <1>12 DEF Nth

\* What Kept returns: entries of the queue, each chosen position once and in
\* the queue's order.
LEMMA KeptEntries ==
  ASSUME NEW T, NEW q \in Seq(T), NEW P \in SUBSET (1..Len(q))
  PROVE  /\ Kept(q, P) \in Seq(T)
         /\ \A x : Listed(x, Kept(q, P)) <=> \E p \in P : q[p] = x
         /\ Once(q) => Once(Kept(q, P))
         /\ \A x, y : Ahead(x, y, Kept(q, P)) => Ahead(x, y, q)
<1> DEFINE k == Kept(q, P)
           c == Cardinality(P)
<1>1. Len(q) \in Nat OBVIOUS
<1>2. IsFiniteSet(P) /\ c \in Nat
  <2>1. 1 \in Int /\ Len(q) \in Int BY <1>1
  <2>2. IsFiniteSet(1..Len(q)) BY Zenon, <2>1, FS_Interval
  <2>3. IsFiniteSet(P) BY Zenon, <2>2, FS_Subset
  <2> QED BY Zenon, <2>3, FS_CardinalityType
<1>3. \A n \in 1..c : Nth(P, n) \in P /\ Cardinality({x \in P : x <= Nth(P, n)}) = n
  BY Zenon, <1>1, NthExists
<1>4. \A n \in 1..c : q[Nth(P, n)] \in T
  <2>1. \A p \in P : q[p] \in T OBVIOUS
  <2> QED BY Zenon, <1>3, <2>1
<1>5. k = [n \in 1..c |-> q[Nth(P, n)]] BY DEF Kept
<1> HIDE DEF k, c
<1>6. k \in Seq(T) /\ Len(k) = c BY <1>2, <1>4, <1>5
<1>7. \A n \in 1..c : k[n] = q[Nth(P, n)] BY Zenon, <1>5
<1>8. ASSUME NEW p \in P PROVE \E n \in 1..c : Nth(P, n) = p
  <2> DEFINE Below(r) == {x \in P : x <= r}
             n == Cardinality(Below(p))
  <2>1. n \in 1..c
    <3>1. Below(p) \subseteq P OBVIOUS
    <3>2. IsFiniteSet(Below(p)) /\ n <= c
      BY Zenon, <1>2, <3>1, FS_Subset DEF c
    <3>3. n \in Nat BY Zenon, <3>2, FS_CardinalityType
    <3>4. p \in Below(p) BY p \in Nat
    <3>5. n # 0 BY Zenon, <3>2, <3>4, FS_EmptySet
    <3> HIDE DEF n
    <3> QED BY <1>2, <3>2, <3>3, <3>5
  <2> DEFINE r == Nth(P, n)
  <2>2. r \in P /\ Cardinality(Below(r)) = n BY Zenon, <1>3, <2>1
  <2>3. \A x \in P : x \in Nat OBVIOUS
  <2>4. IsFiniteSet(Below(r)) /\ IsFiniteSet(Below(p))
    <3>1. Below(r) \subseteq P /\ Below(p) \subseteq P OBVIOUS
    <3> QED BY Zenon, <1>2, <3>1, FS_Subset
  <2>5. Cardinality(Below(p)) = Cardinality(Below(r)) BY Zenon, <2>2
  <2> HIDE DEF r, n
  <2>6. Below(r) \subseteq Below(p) \/ Below(p) \subseteq Below(r)
    <3>1. (\A x \in P : x <= r => x <= p) \/ (\A x \in P : x <= p => x <= r)
      BY <2>2, <2>3
    <3> QED BY Zenon, <3>1
  <2>7. Below(p) = Below(r)
    BY Zenon, <2>4, <2>5, <2>6, FS_Subset
  <2>8. p \in Below(p) /\ r \in Below(r) BY <2>2, <2>3
  <2>9. p <= r /\ r <= p BY Zenon, <2>7, <2>8
  <2>10. p = r BY <2>2, <2>3, <2>9
  <2> QED BY Zenon, <2>1, <2>10 DEF r
<1>9. ASSUME NEW x PROVE Listed(x, k) <=> \E p \in P : q[p] = x
  <2>1. ASSUME NEW i \in 1..c, k[i] = x PROVE \E p \in P : q[p] = x
    BY Zenon, <1>3, <1>7, <2>1
  <2>2. ASSUME NEW p \in P, q[p] = x PROVE \E i \in 1..c : k[i] = x
    BY Zenon, <1>7, <1>8, <2>2
  <2> QED BY Zenon, <1>6, <2>1, <2>2 DEF Listed
<1>10. ASSUME Once(q) PROVE Once(k)
  <2>1. SUFFICES ASSUME NEW i \in 1..c, NEW j \in 1..c, k[i] = k[j] PROVE i = j
    BY Zenon, <1>6 DEF Once
  <2>2. Nth(P, i) \in 1..Len(q) /\ Nth(P, j) \in 1..Len(q) BY Zenon, <1>3
  <2>3. Nth(P, i) = Nth(P, j) BY Zenon, <1>7, <1>10, <2>1, <2>2 DEF Once
  <2> QED BY Zenon, <1>3, <2>3
<1>11. ASSUME NEW i \in 1..c, NEW j \in 1..c, i < j PROVE Nth(P, i) < Nth(P, j)
  <2> DEFINE Below(r) == {x \in P : x <= r}
  <2>1. PICK a \in P, b \in P : a = Nth(P, i) /\ b = Nth(P, j) BY Zenon, <1>3
  <2>2. Cardinality(Below(a)) = i /\ Cardinality(Below(b)) = j BY Zenon, <1>3, <2>1
  <2>3. IsFiniteSet(Below(a))
    <3>1. Below(a) \subseteq P OBVIOUS
    <3> QED BY Zenon, <1>2, <3>1, FS_Subset
  <2>4. a \in Nat /\ b \in Nat /\ i \in Nat /\ j \in Nat BY <1>1, <1>2
  <2>5. ASSUME b <= a PROVE FALSE
    <3>1. Below(b) \subseteq Below(a)
      <4>1. \A x \in P : x \in Nat OBVIOUS
      <4>2. \A x \in P : x <= b => x <= a BY <2>4, <2>5, <4>1
      <4> QED BY Zenon, <4>2
    <3>2. Cardinality(Below(b)) <= Cardinality(Below(a))
      BY Zenon, <2>3, <3>1, FS_Subset
    <3>3. j <= i BY Zenon, <2>2, <3>2
    <3> QED BY <1>11, <2>4, <3>3
  <2>6. a < b BY <2>4, <2>5
  <2> QED BY Zenon, <2>1, <2>6
<1>12. ASSUME NEW x, NEW y, Ahead(x, y, k) PROVE Ahead(x, y, q)
  <2>1. PICK i \in 1..c, j \in 1..c : i < j /\ k[i] = x /\ k[j] = y
    BY Zenon, <1>6, <1>12 DEF Ahead
  <2>2. Nth(P, i) \in 1..Len(q) /\ Nth(P, j) \in 1..Len(q) BY Zenon, <1>3
  <2> QED BY Zenon, <1>7, <1>11, <2>1, <2>2 DEF Ahead
<1> QED BY <1>6, <1>9, <1>10, <1>12 DEF k

\* Joining two queues that share no entry.
LEMMA JoinedEntries ==
  ASSUME NEW T, NEW q \in Seq(T), NEW r \in Seq(T)
  PROVE  /\ q \o r \in Seq(T)
         /\ \A x : Listed(x, q \o r) <=> Listed(x, q) \/ Listed(x, r)
         /\ Once(q) /\ Once(r) /\ (\A x : ~(Listed(x, q) /\ Listed(x, r)))
              => Once(q \o r)
<1> DEFINE s == q \o r
           m == Len(q)
           n == Len(r)
<1>1. m \in Nat /\ n \in Nat /\ s \in Seq(T) /\ Len(s) = m + n OBVIOUS
<1>2. /\ \A i \in 1..m : s[i] = q[i]
      /\ \A i \in 1..(m + n) : i > m => s[i] = r[i - m]
  OBVIOUS
<1>3. \A i \in 1..n : s[m + i] = r[i] OBVIOUS
<1> HIDE DEF s
<1>4. ASSUME NEW x PROVE Listed(x, s) <=> Listed(x, q) \/ Listed(x, r)
  <2>1. ASSUME NEW i \in 1..(m + n), s[i] = x PROVE Listed(x, q) \/ Listed(x, r)
    <3>1. CASE i <= m
      <4>1. i \in 1..m BY <1>1, <3>1
      <4> QED BY Zenon, <1>2, <2>1, <4>1 DEF Listed
    <3>2. CASE i > m
      <4>1. i - m \in 1..n /\ s[i] = r[i - m] BY <1>1, <1>2, <3>2
      <4> QED BY Zenon, <2>1, <4>1 DEF Listed
    <3> QED BY <1>1, <3>1, <3>2
  <2>2. ASSUME NEW i \in 1..m, q[i] = x PROVE Listed(x, s)
    <3>1. i \in 1..(m + n) BY <1>1
    <3> QED BY Zenon, <1>1, <1>2, <2>2, <3>1 DEF Listed
  <2>3. ASSUME NEW i \in 1..n, r[i] = x PROVE Listed(x, s)
    <3>1. m + i \in 1..(m + n) BY <1>1
    <3> QED BY Zenon, <1>1, <1>3, <2>3, <3>1 DEF Listed
  <2> QED BY Zenon, <1>1, <2>1, <2>2, <2>3 DEF Listed
<1>5. ASSUME Once(q), Once(r), \A x : ~(Listed(x, q) /\ Listed(x, r))
      PROVE  Once(s)
  <2>1. SUFFICES ASSUME NEW i \in 1..(m + n), NEW j \in 1..(m + n), s[i] = s[j]
                 PROVE  i = j
    BY Zenon, <1>1 DEF Once
  <2>2. \A a \in 1..m, b \in 1..n : q[a] # r[b]
    BY Zenon, <1>5 DEF Listed
  <2>3. CASE i <= m /\ j <= m
    <3>1. i \in 1..m /\ j \in 1..m BY <1>1, <2>3
    <3> QED BY Zenon, <1>2, <1>5, <2>1, <3>1 DEF Once
  <2>4. CASE i > m /\ j > m
    <3>1. i - m \in 1..n /\ j - m \in 1..n /\ r[i - m] = r[j - m]
      BY <1>1, <1>2, <2>1, <2>4
    <3>2. i - m = j - m BY Zenon, <1>5, <3>1 DEF Once
    <3> QED BY <1>1, <3>2
  <2>5. CASE i <= m /\ j > m
    <3>1. i \in 1..m /\ j - m \in 1..n /\ q[i] = r[j - m]
      BY <1>1, <1>2, <2>1, <2>5
    <3> QED BY <2>2, <3>1
  <2>6. CASE i > m /\ j <= m
    <3>1. j \in 1..m /\ i - m \in 1..n /\ q[j] = r[i - m]
      BY <1>1, <1>2, <2>1, <2>6
    <3> QED BY <2>2, <3>1
  <2> QED BY <1>1, <2>3, <2>4, <2>5, <2>6
<1> QED BY <1>1, <1>4, <1>5 DEF s

\* A queue of one entry.
LEMMA SingleEntry ==
  ASSUME NEW T, NEW y \in T
  PROVE  <<y>> \in Seq(T) /\ Once(<<y>>) /\ \A x : Listed(x, <<y>>) <=> x = y
<1>1. <<y>> \in Seq(T) /\ Len(<<y>>) = 1 /\ <<y>>[1] = y OBVIOUS
<1>2. \A i \in 1..1 : i = 1 /\ <<y>>[i] = y OBVIOUS
<1> QED BY <1>1, <1>2 DEF Once, Listed

\* The end of a queue, from a position on.
LEMMA RestEntries ==
  ASSUME NEW T, NEW q \in Seq(T), NEW m \in 1..(Len(q) + 1)
  PROVE  /\ SubSeq(q, m, Len(q)) \in Seq(T)
         /\ \A x : Listed(x, SubSeq(q, m, Len(q))) <=> \E i \in m..Len(q) : q[i] = x
         /\ Once(q) => Once(SubSeq(q, m, Len(q)))
<1> DEFINE s == SubSeq(q, m, Len(q))
           n == Len(q) + 1 - m
<1>1. n \in Nat /\ s \in Seq(T) /\ Len(s) = n OBVIOUS
<1>2. \A i \in 1..n : s[i] = q[i + m - 1] /\ i + m - 1 \in m..Len(q) OBVIOUS
<1>3. \A i \in m..Len(q) : i - m + 1 \in 1..n /\ s[i - m + 1] = q[i] OBVIOUS
<1> HIDE DEF s
<1>4. \A x : Listed(x, s) <=> \E i \in m..Len(q) : q[i] = x
  BY Zenon, <1>1, <1>2, <1>3 DEF Listed
<1>5. ASSUME Once(q) PROVE Once(s)
  <2>1. SUFFICES ASSUME NEW i \in 1..n, NEW j \in 1..n, s[i] = s[j] PROVE i = j
    BY Zenon, <1>1 DEF Once
  <2>2. i + m - 1 \in 1..Len(q) /\ j + m - 1 \in 1..Len(q) OBVIOUS
  <2>3. i + m - 1 = j + m - 1 BY Zenon, <1>2, <1>5, <2>1, <2>2 DEF Once
  <2> QED BY <2>3
<1> QED BY <1>1, <1>4, <1>5 DEF s

\* Retaining the entries outside a set removes exactly that set.
LEMMA WithoutEntries ==
  ASSUME NEW T, NEW q \in Seq(T), NEW S
  PROVE  /\ Without(q, S) \in Seq(T)
         /\ \A x : Listed(x, Without(q, S)) <=> Listed(x, q) /\ x \notin S
         /\ Once(q) => Once(Without(q, S))
         /\ \A x, y : Ahead(x, y, Without(q, S)) => Ahead(x, y, q)
<1> DEFINE P == {i \in 1..Len(q) : q[i] \notin S}
<1>1. P \in SUBSET (1..Len(q)) OBVIOUS
<1>2. Without(q, S) = Kept(q, P) BY DEF Without
<1>3. \A x : (\E p \in P : q[p] = x) <=> Listed(x, q) /\ x \notin S
  BY Zenon DEF Listed
<1> HIDE DEF P
<1>4. /\ Kept(q, P) \in Seq(T)
      /\ \A x : Listed(x, Kept(q, P)) <=> \E p \in P : q[p] = x
      /\ Once(q) => Once(Kept(q, P))
      /\ \A x, y : Ahead(x, y, Kept(q, P)) => Ahead(x, y, q)
  BY Zenon, <1>1, KeptEntries
<1> QED BY Zenon, <1>2, <1>3, <1>4

\* EveryQueueScheduledOnce, said of the queues alone.
Scheduled ==
  /\ ready \in Seq(Ids)
  /\ \A id \in Ids : pending[id] # <<>> <=> Listed(id, ready)
  /\ Once(ready)

\* Scheduled gives the property as the specification states it.
LEMMA ScheduledMeans ==
  ASSUME StdinInv, Scheduled
  PROVE  ready \in Seq(Ids) /\ EveryQueueScheduledOnce
<1>1. \A id \in Ids : HasPending(id) <=> pending[id] # <<>>
  BY Zenon DEF StdinInv, QueuesLive, HasPending
<1> QED BY Zenon, <1>1 DEF Scheduled, EveryQueueScheduledOnce, Listed, Once

\* Forgetting the queues of a set of executions takes them out of the round robin.
LEMMA ForgetQueues ==
  ASSUME Scheduled, NEW S \in SUBSET Ids, ready' = Without(ready, S),
         \A i \in Ids : /\ i \in S => pending'[i] = <<>>
                        /\ i \notin S => pending'[i] = pending[i]
  PROVE  Scheduled'
<1>1. /\ Without(ready, S) \in Seq(Ids)
      /\ \A x : Listed(x, Without(ready, S)) <=> Listed(x, ready) /\ x \notin S
      /\ Once(Without(ready, S))
  BY Zenon, WithoutEntries DEF Scheduled
<1>2. \A i \in Ids : pending'[i] # <<>> <=> Listed(i, ready) /\ i \notin S
  BY Zenon DEF Scheduled
<1> QED BY Zenon, <1>1, <1>2 DEF Scheduled

\* Queueing bytes never leaves the queue empty.
LEMMA QueuedNonempty ==
  ASSUME NEW q \in Seq(Chunk), NEW h
  PROVE  Queued(q, h) # <<>>
<1>1. CASE Joins(q, h.to - h.from)
  <2>1. q # <<>> BY <1>1 DEF Joins
  <2>2. DOMAIN Queued(q, h) = 1..Len(q) BY <1>1 DEF Queued
  <2> QED BY <2>1, <2>2
<1>2. CASE ~Joins(q, h.to - h.from)
  <2>1. PICK k : Queued(q, h) = Append(q, k) BY Zenon, <1>2 DEF Queued
  <2>2. DOMAIN Append(q, k) = 1..(Len(q) + 1) OBVIOUS
  <2> QED BY <2>1, <2>2
<1> QED BY <1>1, <1>2

\* enqueue_input schedules an execution exactly when its queue was empty.
LEMMA EnqueueSchedules ==
  ASSUME StdinInv, Scheduled, NEW c \in Clients, EnqueueInput(c)
  PROVE  Scheduled'
<1>1. PICK h : h = hand[c] OBVIOUS
<1>2. h.id \in Ids BY Zenon, <1>1 DEF EnqueueInput, StdinInv, HandIsNext
<1>3. PICK x : x = h.id OBVIOUS
<1>4. CASE x \in active /\ ~session[x].input_closed
  <2>1. /\ pending' = [pending EXCEPT ![x] = Queued(@, h)]
        /\ ready' = IF pending[x] = <<>> THEN Append(ready, x) ELSE ready
    BY Zenon, <1>1, <1>3, <1>4 DEF EnqueueInput
  <2>2. x \in Ids /\ pending[x] \in Seq(Chunk) BY Zenon, <1>2, <1>3 DEF StdinInv, TablesOK
  <2>3. Queued(pending[x], h) # <<>> BY Zenon, <2>2, QueuedNonempty
  <2>4. pending'[x] # <<>> /\ \A i \in Ids : i # x => pending'[i] = pending[i]
    BY Zenon, <2>1, <2>2, <2>3 DEF StdinInv, TablesOK
  <2>5. CASE pending[x] = <<>>
    <3>1. ready' = ready \o <<x>>
      <4>1. ready' = Append(ready, x) BY Zenon, <2>1, <2>5
      <4> QED BY <2>2, <4>1 DEF Scheduled
    <3>2. ~Listed(x, ready) BY Zenon, <2>2, <2>5 DEF Scheduled
    <3>3. <<x>> \in Seq(Ids) /\ Once(<<x>>) /\ \A y : Listed(y, <<x>>) <=> y = x
      BY Zenon, <2>2, SingleEntry
    <3>4. /\ ready' \in Seq(Ids) /\ Once(ready')
          /\ \A y : Listed(y, ready') <=> Listed(y, ready) \/ y = x
      <4>1. ready \in Seq(Ids) /\ Once(ready) BY DEF Scheduled
      <4>2. \A y : ~(Listed(y, ready) /\ Listed(y, <<x>>)) BY Zenon, <3>2, <3>3
      <4>3. /\ ready \o <<x>> \in Seq(Ids) /\ Once(ready \o <<x>>)
            /\ \A y : Listed(y, ready \o <<x>>) <=> Listed(y, ready) \/ Listed(y, <<x>>)
        BY Zenon, <3>3, <4>1, <4>2, JoinedEntries
      <4> QED BY Zenon, <3>1, <3>3, <4>3
    <3> QED BY Zenon, <2>2, <2>4, <3>4 DEF Scheduled
  <2>6. CASE pending[x] # <<>>
    <3>1. ready' = ready BY Zenon, <2>1, <2>6
    <3> QED BY Zenon, <2>2, <2>4, <2>6, <3>1 DEF Scheduled
  <2> QED BY Zenon, <2>5, <2>6
<1>5. CASE ~(x \in active /\ ~session[x].input_closed)
  <2>1. UNCHANGED <<pending, ready>> BY Zenon, <1>1, <1>3, <1>5 DEF EnqueueInput
  <2> QED BY Zenon, <2>1 DEF Scheduled
<1> QED BY Zenon, <1>4, <1>5

\* take_input: the entries it passed over go to the back; the one it served
\* follows them if it has more.  Those it did not reach keep their order and
\* come first.
LEMMA TakeSchedules ==
  ASSUME StdinInv, Scheduled, NEW k \in 0..Len(ready), TakeInput(k)
  PROVE  /\ Scheduled'
         /\ k # Len(ready) =>
              \E s \in Seq(Ids) : ready' = SubSeq(ready, k + 2, Len(ready)) \o s
<1> DEFINE P == {i \in 1..k : HasPending(ready[i])}
           skipped == Kept(ready, P)
           seen == {ready[i] : i \in 1..k}
           fz(i) == IF i \in seen /\ HasPending(i) THEN Frozen(pending[i]) ELSE pending[i]
           m == Len(ready)
<1>0. m \in Nat /\ ready \in Seq(Ids) BY DEF Scheduled
<1>1. \A i \in 1..m : HasPending(ready[i])
  <2>1. \A i \in 1..m : ready[i] \in Ids BY <1>0
  <2> QED BY Zenon, <2>1 DEF Scheduled, Listed, StdinInv, QueuesLive, HasPending
<1>2. P = 1..k /\ P \in SUBSET (1..m)
  <2>1. \A i \in 1..k : i \in 1..m BY <1>0
  <2> QED BY Zenon, <1>1, <2>1
<1>3. /\ skipped \in Seq(Ids) /\ Once(skipped)
      /\ \A x : Listed(x, skipped) <=> \E i \in 1..k : ready[i] = x
  <2>1. PICK Q \in SUBSET (1..m) : Q = P BY Zenon, <1>2
  <2>2. /\ Kept(ready, Q) \in Seq(Ids)
        /\ \A x : Listed(x, Kept(ready, Q)) <=> \E i \in Q : ready[i] = x
        /\ Once(ready) => Once(Kept(ready, Q))
    BY Zenon, <1>0, KeptEntries
  <2>3. Once(ready) BY DEF Scheduled
  <2>4. Q = 1..k /\ skipped = Kept(ready, Q) BY Zenon, <1>2, <2>1
  <2> QED BY Zenon, <2>2, <2>3, <2>4
<1>4. ASSUME NEW i \in Ids PROVE fz(i) # <<>> <=> pending[i] # <<>>
  <2>1. CASE i \in seen /\ HasPending(i)
    <3>1. pending[i] # <<>> /\ fz(i) = Frozen(pending[i]) BY Zenon, <2>1 DEF HasPending
    <3>2. pending[i] \in Seq(Chunk) BY Zenon DEF StdinInv, TablesOK
    <3>3. DOMAIN Frozen(pending[i]) = DOMAIN pending[i] BY Zenon DEF Frozen
    <3>4. Frozen(pending[i]) # <<>> BY <3>1, <3>2, <3>3
    <3> QED BY Zenon, <3>1, <3>4
  <2>2. CASE ~(i \in seen /\ HasPending(i)) BY Zenon, <2>2
  <2> QED BY Zenon, <2>1, <2>2
<1>5. CASE k = m
  <2>1. pending' = [i \in Ids |-> fz(i)] /\ ready' = skipped
    BY Zenon, <1>5 DEF TakeInput
  <2>2. \A x : Listed(x, skipped) <=> Listed(x, ready)
    BY Zenon, <1>3, <1>5 DEF Listed
  <2>3. \A i \in Ids : pending'[i] # <<>> <=> pending[i] # <<>>
    BY Zenon, <1>4, <2>1
  <2> HIDE DEF skipped
  <2>4. Scheduled' BY Zenon, <1>3, <2>1, <2>2, <2>3 DEF Scheduled
  <2> QED BY Zenon, <1>5, <2>4
<1>6. CASE k # m
  <2>1. PICK x : x = ready[k + 1] OBVIOUS
  <2>2. PICK rest : rest = Tail(pending[x]) OBVIOUS
  <2> DEFINE after == SubSeq(ready, k + 2, m)
             again == IF rest = <<>> THEN <<>> ELSE <<x>>
  <2>3. /\ pending' = [[i \in Ids |-> fz(i)] EXCEPT ![x] = rest]
        /\ ready' = after \o skipped \o again
    BY Zenon, <1>6, <2>1, <2>2 DEF TakeInput, Rotated
  <2>4. k + 1 \in 1..m /\ k + 2 \in 1..(m + 1) BY <1>0, <1>6
  <2>5. x \in Ids BY <1>0, <2>1, <2>4
  <2>6. /\ pending'[x] = rest
        /\ \A i \in Ids : i # x => (pending'[i] # <<>> <=> pending[i] # <<>>)
    BY Zenon, <1>4, <2>3, <2>5
  <2>7. /\ after \in Seq(Ids) /\ Once(after)
        /\ \A y : Listed(y, after) <=> \E i \in (k + 2)..m : ready[i] = y
    BY Zenon, <1>0, <2>4, RestEntries DEF Scheduled
  <2>8. /\ again \in Seq(Ids) /\ Once(again)
        /\ \A y : Listed(y, again) <=> y = x /\ rest # <<>>
    <3>1. CASE rest = <<>>
      <4>1. again = <<>> BY <3>1
      <4>2. <<>> \in Seq(Ids) /\ Once(<<>>) /\ \A y : ~Listed(y, <<>>)
        BY DEF Once, Listed
      <4> QED BY Zenon, <3>1, <4>1, <4>2
    <3>2. CASE rest # <<>>
      <4>1. again = <<x>> BY <3>2
      <4> QED BY Zenon, <2>5, <3>2, <4>1, SingleEntry
    <3> QED BY Zenon, <3>1, <3>2
  <2>9. \A i, j \in 1..m : ready[i] = ready[j] => i = j
    BY Zenon DEF Scheduled, Once
  <2>10. ASSUME NEW y
         PROVE  /\ ~(Listed(y, after) /\ Listed(y, skipped))
                /\ Listed(y, ready) <=> Listed(y, after) \/ Listed(y, skipped) \/ y = x
                /\ ~(Listed(x, after) \/ Listed(x, skipped))
    <3>1. \A i \in 1..k, j \in (k + 2)..m : i \in 1..m /\ j \in 1..m /\ i # j
      BY <1>0
    <3>2. (\A i \in 1..k : i \in 1..m /\ i # k + 1)
          /\ (\A i \in (k + 2)..m : i \in 1..m /\ i # k + 1)
      BY <1>0
    <3>3. \A i \in 1..m : i \in 1..k \/ i \in (k + 2)..m \/ i = k + 1
      BY <1>0
    <3>4. ~(Listed(y, after) /\ Listed(y, skipped))
      BY Zenon, <1>3, <2>7, <2>9, <3>1
    <3>5. ~(Listed(x, after) \/ Listed(x, skipped))
      <4>1. \A i \in 1..k : ready[i] # x BY Zenon, <2>1, <2>4, <2>9, <3>2
      <4>2. \A i \in (k + 2)..m : ready[i] # x BY Zenon, <2>1, <2>4, <2>9, <3>2
      <4> QED BY Zenon, <1>3, <2>7, <4>1, <4>2
    <3>6. Listed(y, ready) <=> Listed(y, after) \/ Listed(y, skipped) \/ y = x
      BY Zenon, <1>3, <2>1, <2>4, <2>7, <3>2, <3>3 DEF Listed
    <3> QED BY Zenon, <3>4, <3>5, <3>6
  <2> HIDE DEF after, again, skipped, fz, P
  <2>11. /\ after \o skipped \in Seq(Ids) /\ Once(after \o skipped)
         /\ \A y : Listed(y, after \o skipped) <=> Listed(y, after) \/ Listed(y, skipped)
    BY Zenon, <1>3, <2>7, <2>10, JoinedEntries
  <2>12. /\ ready' \in Seq(Ids) /\ Once(ready')
         /\ \A y : Listed(y, ready') <=> Listed(y, after \o skipped) \/ Listed(y, again)
    <3>1. PICK s : s = after \o skipped OBVIOUS
    <3>2. s \in Seq(Ids) /\ again \in Seq(Ids) /\ Once(s) /\ Once(again)
          /\ \A y : ~(Listed(y, s) /\ Listed(y, again))
      BY Zenon, <2>8, <2>10, <2>11, <3>1
    <3>3. ready' = s \o again BY Zenon, <2>3, <3>1
    <3>4. /\ s \o again \in Seq(Ids) /\ Once(s \o again)
          /\ \A y : Listed(y, s \o again) <=> Listed(y, s) \/ Listed(y, again)
      BY Zenon, <3>2, JoinedEntries
    <3> QED BY Zenon, <3>1, <3>3, <3>4
  <2>13. \A i \in Ids : pending'[i] # <<>> <=> Listed(i, ready')
    BY Zenon, <2>6, <2>8, <2>10, <2>11, <2>12 DEF Scheduled
  <2>14. Scheduled' BY Zenon, <2>12, <2>13 DEF Scheduled
  <2>15. skipped \o again \in Seq(Ids) /\ ready' = after \o (skipped \o again)
    <3>1. after \in Seq(Ids) /\ skipped \in Seq(Ids) /\ again \in Seq(Ids)
      BY Zenon, <1>3, <2>7, <2>8
    <3> QED BY <2>3, <3>1
  <2> QED BY Zenon, <2>14, <2>15 DEF after
<1> QED BY Zenon, <1>5, <1>6

\* Every step keeps the round robin in line with the queues.
LEMMA ScheduledStep ==
  ASSUME StdinInv, Scheduled, [Next]_vars
  PROVE  Scheduled'
<1>0. ASSUME UNCHANGED <<pending, ready>> PROVE Scheduled'
  BY Zenon, <1>0 DEF Scheduled
<1>1. ASSUME NEW c \in Clients, ClientStep(c) PROVE Scheduled'
  <2>1. CASE EnqueueInput(c) BY Zenon, <2>1, EnqueueSchedules
  <2>2. CASE CancelInput(c) \/ Disconnect(c)
    <3>1. \A i \in Ids : /\ i \in RangeOf(c) => pending'[i] = <<>>
                         /\ i \notin RangeOf(c) => pending'[i] = pending[i]
      BY <2>2 DEF CancelInput, Disconnect, RangeOf
    <3>2. ready' = Without(ready, RangeOf(c)) /\ RangeOf(c) \in SUBSET Ids
      BY <2>2 DEF CancelInput, Disconnect, RangeOf
    <3> QED BY Zenon, <3>1, <3>2, ForgetQueues
  <2>3. ASSUME NEW id \in Ids, Admit(c, id) PROVE Scheduled'
    <3>1. pending[id] = <<>>
      BY Zenon, <2>3 DEF Admit, StdinInv, QueuesLive
    <3>2. pending' = [pending EXCEPT ![id] = <<>>] /\ ready' = ready
      BY Zenon, <2>3 DEF Admit
    <3>3. pending' = pending BY <3>1, <3>2 DEF StdinInv, TablesOK
    <3> QED BY Zenon, <1>0, <3>2, <3>3
  <2> QED
    BY Zenon, <1>0, <1>1, <2>1, <2>2, <2>3
    DEF ClientStep, Accept, LeaveLoop, ReaderKicked, Break, AdmitTwice, RemoveClient,
        ClientStdin, ClientStdinRefused, ClientOutputAck, ClientOutputAckRefused
<1>2. ASSUME NEW id \in Ids, GuestStep(id) PROVE Scheduled'
  <2>1. CASE GuestTerminal(id)
    <3>1. \A i \in Ids : /\ i \in {id} => pending'[i] = <<>>
                         /\ i \notin {id} => pending'[i] = pending[i]
      BY Zenon, <2>1 DEF GuestTerminal, Release, StdinInv, TablesOK
    <3>2. ready' = Without(ready, {id}) /\ {id} \in SUBSET Ids
      BY <2>1 DEF GuestTerminal, Release
    <3> QED BY Zenon, <3>1, <3>2, ForgetQueues
  <2> QED
    BY Zenon, <1>0, <1>2, <2>1
    DEF GuestStep, GuestStarted, GuestCoreError, GuestStdinAck,
        GuestStdinAckRefused, GuestOutput, GuestOutputRefused, Kick
<1>3. CASE WriterStep BY Zenon, <1>3, TakeSchedules DEF WriterStep
<1>4. CASE UNCHANGED vars BY Zenon, <1>0, <1>4 DEF vars
<1> QED BY Zenon, <1>1, <1>2, <1>3, <1>4 DEF Next

\* Nothing is queued at first.
LEMMA InitScheduled == Init => Scheduled
<1> SUFFICES ASSUME Init PROVE Scheduled OBVIOUS
<1>1. ready = <<>> /\ \A id \in Ids : pending[id] = <<>> BY Zenon DEF Init
<1>2. <<>> \in Seq(Ids) /\ Once(<<>>) /\ \A y : ~Listed(y, <<>>)
  BY DEF Once, Listed
<1> QED BY Zenon, <1>1, <1>2 DEF Scheduled

\* For any number of executions, no queued stdin is forgotten by the round
\* robin of take_input and none is scheduled twice, across enqueue_input,
\* cancel_input, disconnect and the guest's terminal messages.
THEOREM ScheduleHolds == Spec => [](TypeOK /\ EveryQueueScheduledOnce)
<1>1. StdinInv /\ Scheduled => TypeOK /\ EveryQueueScheduledOnce
  BY Zenon, ScheduledMeans DEF StdinInv, TypeOK
<1>2. StdinInv /\ Scheduled /\ [Next]_vars => StdinInv' /\ Scheduled'
  BY Zenon, ScheduledStep, StdinStep
<1> QED BY <1>1, <1>2, InitStdin, InitScheduled, PTL DEF Spec

\* Whoever was served while x waited comes after x in the queue.
InTurn ==
  /\ overtaken = {}
  /\ passed \subseteq Ids \X Ids
  /\ \A x, y \in Ids : <<x, y>> \in passed => Listed(x, ready) /\ ~Ahead(y, x, ready)

\* A step of a reader task or of the guest's reader that keeps the order of
\* the queue and adds, at most, an entry at its end keeps the turns.
LEMMA NoTurnStep ==
  ASSUME StdinInv, Scheduled, InTurn, StdinInv', Scheduled', NoTurn,
         \A x, y \in Ids : Listed(x, ready) /\ Ahead(y, x, ready') => Ahead(y, x, ready)
  PROVE  InTurn'
<1>1. passed' \subseteq passed /\ \A p \in passed' : HasPending(p[1])'
  BY Zenon DEF NoTurn
<1>2. \A x \in Ids : HasPending(x)' => Listed(x, ready')
  BY Zenon DEF HasPending, Scheduled
<1>3. ASSUME NEW x \in Ids, NEW y \in Ids, <<x, y>> \in passed'
      PROVE  Listed(x, ready') /\ ~Ahead(y, x, ready')
  <2>1. HasPending(<<x, y>>[1])' BY Zenon, <1>1, <1>3
  <2>2. <<x, y>>[1] = x OBVIOUS
  <2>3. HasPending(x)' BY <2>1, <2>2
  <2> QED BY Zenon, <1>1, <1>2, <1>3, <2>3 DEF InTurn
<1>4. overtaken' = {} /\ passed' \subseteq Ids \X Ids
  BY Zenon, <1>1 DEF InTurn, NoTurn
<1> QED BY Zenon, <1>3, <1>4 DEF InTurn

\* enqueue_input puts a new entry behind all the others.
LEMMA EnqueueOrder ==
  ASSUME StdinInv, Scheduled, NEW c \in Clients, EnqueueInput(c),
         NEW x \in Ids, NEW y \in Ids, Listed(x, ready), Ahead(y, x, ready')
  PROVE  Ahead(y, x, ready)
<1>1. PICK h : h = hand[c] OBVIOUS
<1>2. h.id \in Ids BY Zenon, <1>1 DEF EnqueueInput, StdinInv, HandIsNext
<1>3. ready' = ready \/ (ready' = Append(ready, h.id) /\ pending[h.id] = <<>>)
  BY Zenon, <1>1 DEF EnqueueInput
<1>4. CASE ready' = Append(ready, h.id) /\ pending[h.id] = <<>>
  <2>1. x # h.id BY Zenon, <1>2, <1>4 DEF Scheduled
  <2>2. ready \in Seq(Ids) /\ Len(ready) \in Nat BY DEF Scheduled
  <2>3. /\ Len(ready') = Len(ready) + 1
        /\ \A i \in 1..Len(ready) : ready'[i] = ready[i]
        /\ ready'[Len(ready) + 1] = h.id
    BY <1>2, <1>4, <2>2
  <2>4. PICK i \in 1..(Len(ready) + 1), j \in 1..(Len(ready) + 1) :
               i < j /\ ready'[i] = y /\ ready'[j] = x
    BY <2>3 DEF Ahead
  <2>5. i \in 1..Len(ready) /\ j \in 1..Len(ready) BY <2>1, <2>2, <2>3, <2>4
  <2> QED BY Zenon, <2>3, <2>4, <2>5 DEF Ahead
<1> QED BY Zenon, <1>3, <1>4

\* take_input: who was not offered moves up, and who was served is behind.
LEMMA TakeTurnStep ==
  ASSUME StdinInv, Scheduled, InTurn, NEW k \in 0..Len(ready), TakeTurn(k)
  PROVE  InTurn'
<1> DEFINE m == Len(ready)
           waiting == {x \in Ids : Waits(x, k)}
           taken == {ready[i] : i \in {j \in 1..m : j = k + 1}}
<1>1. TakeInput(k) BY Zenon DEF TakeTurn
<1>2. /\ passed' = {p \in passed : p[1] \in waiting} \cup (waiting \X taken)
      /\ overtaken' = {x \in waiting : \E y \in taken : <<x, y>> \in passed}
  BY Zenon DEF TakeTurn, InTurn
<1>3. m \in Nat /\ ready \in Seq(Ids) /\ Once(ready) BY DEF Scheduled
<1>4. ASSUME NEW x \in waiting PROVE \E j \in (k + 2)..m : ready[j] = x
  <2>1. x \in Ids /\ HasPending(x) /\ \A i \in 1..m : i <= k + 1 => ready[i] # x
    BY Zenon DEF Waits
  <2>2. PICK j \in 1..m : ready[j] = x
    BY Zenon, <2>1 DEF HasPending, Scheduled, Listed
  <2>3. j \in (k + 2)..m BY <1>3, <2>1, <2>2
  <2> QED BY Zenon, <2>2, <2>3
<1>5. \A y \in taken : k + 1 \in 1..m /\ y = ready[k + 1] OBVIOUS
<1> HIDE DEF waiting, taken
<1>6. waiting \subseteq Ids BY Zenon DEF waiting
<1>7. taken \subseteq Ids BY <1>3, <1>5
<1>8. overtaken' = {}
  <2>1. ASSUME NEW x \in waiting, NEW y \in taken, <<x, y>> \in passed PROVE FALSE
    <3>1. PICK j \in (k + 2)..m : ready[j] = x BY Zenon, <1>4
    <3>2. k + 1 \in 1..m /\ y = ready[k + 1] BY Zenon, <1>5
    <3>3. j \in 1..m /\ k + 1 < j BY <1>3, <3>1
    <3>4. Ahead(y, x, ready) BY Zenon, <3>1, <3>2, <3>3 DEF Ahead
    <3> QED BY Zenon, <1>6, <1>7, <2>1, <3>4 DEF InTurn
  <2> QED BY Zenon, <1>2, <2>1
<1>9. passed' \subseteq Ids \X Ids
  <2>1. waiting \X taken \subseteq Ids \X Ids BY Zenon, <1>6, <1>7
  <2> QED BY Zenon, <1>2, <2>1 DEF InTurn
<1>10. ASSUME NEW x \in Ids, NEW y \in Ids, <<x, y>> \in passed'
       PROVE  Listed(x, ready') /\ ~Ahead(y, x, ready')
  <2>1. x \in waiting /\ (<<x, y>> \in passed \/ y \in taken)
    <3>1. <<x, y>>[1] = x OBVIOUS
    <3> QED BY <1>2, <1>10, <3>1
  <2>2. PICK j \in (k + 2)..m : ready[j] = x BY Zenon, <1>4, <2>1
  <2>3. k # m BY <1>3, <2>2
  <2>4. PICK s \in Seq(Ids) : ready' = SubSeq(ready, k + 2, m) \o s
    BY Zenon, <1>1, <2>3, TakeSchedules
  <2>5. Once(ready') BY Zenon, <1>1, TakeSchedules DEF Scheduled
  <2> DEFINE n == m - k - 1
             moved == j - k - 1
  <2>6. n \in Nat /\ moved \in 1..n /\ moved + k + 1 = j BY <1>3, <2>2
  <2>7. Len(ready') \in Nat /\ n <= Len(ready')
        /\ \A i \in 1..n : ready'[i] = ready[i + k + 1]
    BY <1>3, <2>3, <2>4
  <2> HIDE DEF n, moved
  <2>8. moved \in 1..Len(ready') /\ ready'[moved] = x
    <3>1. ready'[moved] = ready[moved + k + 1] BY Zenon, <2>6, <2>7
    <3>2. ready'[moved] = x BY Zenon, <2>2, <2>6, <3>1
    <3> QED BY <2>6, <2>7, <3>2
  <2>9. Listed(x, ready') BY Zenon, <2>8 DEF Listed
  <2>10. ASSUME Ahead(y, x, ready') PROVE FALSE
    <3>1. PICK a \in 1..Len(ready'), b \in 1..Len(ready') :
                 a < b /\ ready'[a] = y /\ ready'[b] = x
      BY Zenon, <2>10 DEF Ahead
    <3>2. b = moved BY Zenon, <2>5, <2>8, <3>1 DEF Once
    <3>3. a \in 1..n /\ a + k + 1 \in 1..m /\ a + k + 1 < j /\ a + k + 1 # k + 1
          /\ j \in 1..m
      BY <1>3, <2>2, <2>6, <2>7, <3>1, <3>2 DEF n
    <3>4. ready[a + k + 1] = y BY Zenon, <2>7, <3>1, <3>3
    <3>5. Ahead(y, x, ready) BY Zenon, <2>2, <3>3, <3>4 DEF Ahead
    <3>6. <<x, y>> \notin passed BY Zenon, <3>5 DEF InTurn
    <3>7. k + 1 \in 1..m /\ ready[k + 1] = y BY Zenon, <1>5, <2>1, <3>6
    <3> QED BY Zenon, <1>3, <3>3, <3>4, <3>7 DEF Once
  <2> QED BY Zenon, <2>9, <2>10
<1> QED BY Zenon, <1>8, <1>9, <1>10 DEF InTurn

\* Every step keeps the turns.
LEMMA InTurnStep ==
  ASSUME StdinInv, Scheduled, InTurn, StdinInv', Scheduled', [TurnsNext]_turnVars
  PROVE  InTurn'
<1> DEFINE Ordered == \A x, y \in Ids :
                        Listed(x, ready) /\ Ahead(y, x, ready') => Ahead(y, x, ready)
<1>0. ASSUME UNCHANGED ready PROVE Ordered BY Zenon, <1>0
<1>1. ASSUME NEW S, ready' = Without(ready, S) PROVE Ordered
  <2>1. ready \in Seq(Ids) BY DEF Scheduled
  <2> QED BY Zenon, <1>1, <2>1, WithoutEntries
<1>2. ASSUME NEW c \in Clients, EnqueueInput(c) PROVE Ordered
  BY Zenon, <1>2, EnqueueOrder
<1> HIDE DEF Ordered
<1>3. ASSUME Ordered, NoTurn PROVE InTurn' BY Zenon, <1>3, NoTurnStep DEF Ordered
<1>4. ASSUME NEW c \in Clients, ClientStep(c), NoTurn PROVE InTurn'
  <2>1. Ordered
    BY Zenon, <1>0, <1>1, <1>2, <1>4
    DEF ClientStep, Accept, LeaveLoop, ReaderKicked, Break, Admit, AdmitTwice,
        ClientStdin, ClientStdinRefused, ClientOutputAck, ClientOutputAckRefused,
        CancelInput, RemoveClient, Disconnect
  <2> QED BY Zenon, <1>3, <1>4, <2>1
<1>5. ASSUME NEW id \in Ids, GuestStep(id), NoTurn PROVE InTurn'
  <2>1. Ordered
    BY Zenon, <1>0, <1>1, <1>5
    DEF GuestStep, GuestStarted, GuestTerminal, Release, GuestCoreError, GuestStdinAck,
        GuestStdinAckRefused, GuestOutput, GuestOutputRefused, Kick
  <2> QED BY Zenon, <1>3, <1>5, <2>1
<1>6. ASSUME NEW k \in 0..Len(ready), TakeTurn(k) PROVE InTurn'
  BY Zenon, <1>6, TakeTurnStep
<1>7. CASE UNCHANGED turnVars BY Zenon, <1>7 DEF turnVars, InTurn
<1> QED BY Zenon, <1>4, <1>5, <1>6, <1>7 DEF TurnsNext

\* However many executions write, whatever the transport refuses and whoever
\* is admitted, cancelled or ends meanwhile, take_input serves no execution
\* twice while another one waits with stdin queued.
THEOREM RoundRobinHolds == TurnsSpec => []NobodyOvertaken
<1>1. InTurn => NobodyOvertaken BY DEF InTurn, NobodyOvertaken
<1>2. [TurnsNext]_turnVars => [Next]_vars
  BY Zenon DEF TurnsNext, TakeTurn, Next, WriterStep, turnVars, vars
<1>3. StdinInv /\ Scheduled /\ InTurn /\ [TurnsNext]_turnVars
        => StdinInv' /\ Scheduled' /\ InTurn'
  BY Zenon, <1>2, StdinStep, ScheduledStep, InTurnStep
<1>4. TurnsInit => StdinInv /\ Scheduled /\ InTurn
  BY Zenon, InitStdin, InitScheduled DEF TurnsInit, InTurn
<1> QED BY <1>1, <1>3, <1>4, PTL DEF TurnsSpec
-----------------------------------------------------------------------------
\* The parts of the tables that do not depend on what the queues hold.
CountersOK ==
  /\ policy \in BOOLEAN
  /\ active \subseteq Ids
  /\ session \in [Ids -> Session]
  /\ conn \in [Clients -> ReaderStages]

USE LimitsAssumption, BoundAssumption, OwnerAssumption

-----------------------------------------------------------------------------
(* Allowances. *)

\* The counters keep their types across every step.
LEMMA CountersStep == CountersOK /\ [Next]_vars => CountersOK'
<1> SUFFICES ASSUME CountersOK, [Next]_vars PROVE CountersOK'
  OBVIOUS
<1> USE NewSessionType DEF CountersOK
<1>1. ASSUME NEW c \in Clients, ClientStep(c) PROVE CountersOK'
  <2>1. CASE Accept(c) BY <2>1 DEF Accept, ReaderStages
  <2>2. CASE Break(c) BY <2>2 DEF Break, ReaderStages
  <2>3. CASE EnqueueInput(c) BY <2>3 DEF EnqueueInput
  <2>4. CASE CancelInput(c) BY Zenon, <2>4 DEF CancelInput, ReaderStages, Session
  <2>5. CASE RemoveClient(c) BY <2>5 DEF RemoveClient, ReaderStages
  <2>6. CASE Disconnect(c) BY <2>6 DEF Disconnect, ReaderStages
  <2>7. ASSUME NEW id \in Ids, Admit(c, id) PROVE CountersOK'
    BY <2>7 DEF Admit
  <2>8. ASSUME NEW id \in Ids, NEW n \in StdinLengths, ClientStdin(c, id, n)
        PROVE  CountersOK'
    BY <2>8, ChargedFields DEF ClientStdin, StdinLengths
  <2>9. ASSUME NEW id \in Ids, NEW n \in Offsets, ClientOutputAck(c, id, n)
        PROVE  CountersOK'
    BY <2>9 DEF ClientOutputAck, Session, Offsets
  <2> QED
    BY <1>1, <2>1, <2>2, <2>3, <2>4, <2>5, <2>6, <2>7, <2>8, <2>9
    DEF ClientStep, LeaveLoop, ReaderKicked, AdmitTwice, ClientStdinRefused,
        ClientOutputAckRefused
<1>2. ASSUME NEW id \in Ids, GuestStep(id) PROVE CountersOK'
  <2>1. CASE GuestStarted(id) BY Zenon, <2>1 DEF GuestStarted, Session
  <2>2. CASE GuestTerminal(id) BY <2>2 DEF GuestTerminal, Release
  <2>3. CASE Kick(id) BY <2>3 DEF Kick
  <2>4. ASSUME NEW n \in Offsets, GuestStdinAck(id, n) PROVE CountersOK'
    BY <2>4 DEF GuestStdinAck, Session, Offsets
  <2>5. ASSUME NEW n \in OutputLengths, GuestOutput(id, n) PROVE CountersOK'
    BY <2>5 DEF GuestOutput, Session, OutputLengths
  <2> QED
    BY <1>2, <2>1, <2>2, <2>3, <2>4, <2>5
    DEF GuestStep, GuestCoreError, GuestStdinAckRefused, GuestOutputRefused
<1>3. CASE WriterStep BY Zenon, <1>3 DEF WriterStep, TakeInput
<1>4. CASE UNCHANGED vars BY <1>4 DEF vars
<1> QED BY <1>1, <1>2, <1>3, <1>4 DEF Next

\* A new reservation owes nothing.
LEMMA NewWithin == Within(NewSession)
BY LimitsAssumption DEF NewSession, Within

\* Where every reservation is new or unchanged, every counter is within its allowance.
LEMMA RenewedWithin ==
  ASSUME WithinAllowances,
         \A id \in Ids : session'[id] = NewSession \/ session'[id] = session[id]
  PROVE  WithinAllowances'
<1>1. \A id \in Ids : Within(session[id]) BY Zenon DEF WithinAllowances
<1>2. ASSUME NEW id \in Ids PROVE Within(session'[id])
  <2>1. CASE session'[id] = NewSession BY Zenon, <2>1, NewWithin
  <2>2. CASE session'[id] = session[id] BY Zenon, <2>2, <1>1
  <2> QED BY Zenon, <2>1, <2>2
<1> QED BY Zenon, <1>2 DEF WithinAllowances

\* No step takes a counter past its allowance.
LEMMA AllowancesStep ==
  CountersOK /\ WithinAllowances /\ [Next]_vars => WithinAllowances'
<1> SUFFICES ASSUME CountersOK, WithinAllowances, [Next]_vars
             PROVE  WithinAllowances'
  OBVIOUS
<1>a. ASSUME NEW c \in Clients, Disconnect(c) PROVE WithinAllowances'
  <2>1. session' = [id \in Ids |-> IF Owner[id] = c THEN NewSession ELSE session[id]]
    BY Zenon, <1>a DEF Disconnect
  <2>2. \A id \in Ids : session'[id] = NewSession \/ session'[id] = session[id]
    BY Zenon, <2>1
  <2> QED BY Zenon, <2>2, RenewedWithin
<1>b. ASSUME NEW c \in Clients, NEW id \in Ids, Admit(c, id) PROVE WithinAllowances'
  <2>1. session' = [session EXCEPT ![id] = NewSession] BY Zenon, <1>b DEF Admit
  <2>2. \A x \in Ids : session'[x] = NewSession \/ session'[x] = session[x]
    BY Zenon, <2>1 DEF CountersOK
  <2> QED BY Zenon, <2>2, RenewedWithin
<1> USE DEF CountersOK, WithinAllowances, Within
<1>0. ASSUME UNCHANGED session PROVE WithinAllowances'
  BY <1>0
<1>1. ASSUME NEW c \in Clients, ClientStep(c) PROVE WithinAllowances'
  <2>1. CASE CancelInput(c)
    BY <2>1 DEF CancelInput, Session
  <2>2. CASE Disconnect(c) BY Zenon, <1>a, <2>2
  <2>3. ASSUME NEW id \in Ids, Admit(c, id) PROVE WithinAllowances' BY Zenon, <1>b, <2>3
  <2>4. ASSUME NEW id \in Ids, NEW n \in StdinLengths, ClientStdin(c, id, n)
        PROVE  WithinAllowances'
    <3> DEFINE s == session[id]
               t == Charged(s, n)
    <3>1. n \in Nat /\ s \in Session /\ Within(s) BY DEF StdinLengths
    <3>2. StdinAllowed(s, n) /\ session' = [session EXCEPT ![id] = t]
      BY <2>4 DEF ClientStdin
    <3>3. /\ t.input_sent = s.input_sent + n
          /\ t.input_consumed = s.input_consumed
          /\ t.output_sent = s.output_sent /\ t.output_consumed = s.output_consumed
      BY <3>1, ChargedFields
    <3> HIDE DEF s, t
    <3>4. Within(t) BY <3>1, <3>2, <3>3 DEF StdinAllowed, Session
    <3> QED BY <3>2, <3>4
  <2>5. ASSUME NEW id \in Ids, NEW n \in Offsets, ClientOutputAck(c, id, n)
        PROVE  WithinAllowances'
    BY SMTT(30), <2>5 DEF ClientOutputAck, AckAllowed, Session, Offsets
  <2> QED
    BY Zenon, <1>0, <1>1, <2>1, <2>2, <2>3, <2>4, <2>5
    DEF ClientStep, Accept, Break, LeaveLoop, ReaderKicked, AdmitTwice,
        EnqueueInput, RemoveClient, ClientStdinRefused, ClientOutputAckRefused
<1>2. ASSUME NEW id \in Ids, GuestStep(id) PROVE WithinAllowances'
  <2>1. CASE GuestStarted(id) BY <2>1 DEF GuestStarted, Session
  <2>2. CASE GuestTerminal(id) BY <2>2 DEF GuestTerminal, Release, NewSession
  <2>3. CASE Kick(id) BY <1>0, <2>3 DEF Kick
  <2>4. ASSUME NEW n \in Offsets, GuestStdinAck(id, n) PROVE WithinAllowances'
    BY <2>4 DEF GuestStdinAck, AckAllowed, Session, Offsets
  <2>5. ASSUME NEW n \in OutputLengths, GuestOutput(id, n) PROVE WithinAllowances'
    BY <2>5 DEF GuestOutput, OutputAllowed, Session, OutputLengths
  <2> QED
    BY <1>2, <2>1, <2>2, <2>3, <2>4, <2>5
    DEF GuestStep, GuestCoreError, GuestStdinAckRefused, GuestOutputRefused
<1>3. CASE WriterStep BY Zenon, <1>0, <1>3 DEF WriterStep, TakeInput
<1>4. CASE UNCHANGED vars BY <1>0, <1>4 DEF vars
<1> QED BY <1>1, <1>2, <1>3, <1>4 DEF Next

\* For any limits, what an execution has outstanding stays within its input
\* and output allowance and no acknowledgement runs ahead: the subtractions
\* of client_message and guest_message never underflow.
THEOREM AllowancesHold == Spec => []WithinAllowances
<1>1. Init => CountersOK /\ WithinAllowances
  BY NewSessionType
  DEF Init, CountersOK, WithinAllowances, Within, NewSession, ReaderStages
<1>2. CountersOK /\ WithinAllowances /\ [Next]_vars
        => CountersOK' /\ WithinAllowances'
  BY CountersStep, AllowancesStep
<1> QED BY <1>1, <1>2, PTL DEF Spec
-----------------------------------------------------------------------------
(* Execution slots. *)

\* The first half of SlotsBounded with what makes it inductive.
LEMMA SlotsStep ==
  CountersOK /\ SlotsBounded /\ [Next]_vars => SlotsBounded'
<1> SUFFICES ASSUME CountersOK, SlotsBounded, [Next]_vars PROVE SlotsBounded'
  OBVIOUS
<1> USE DEF CountersOK, SlotsBounded
<1>0. IsFiniteSet(active) /\ Cardinality(active) \in Nat
  BY FS_Subset, FS_CardinalityType
<1>a. ASSUME active' \subseteq active PROVE Cardinality(active') <= MaxExecutions
  BY SMTT(30), <1>0, <1>a, FS_Subset, FS_CardinalityType
<1>1. ASSUME NEW c \in Clients, ClientStep(c) PROVE SlotsBounded'
  <2>1. CASE Accept(c) BY <2>1 DEF Accept
  <2>2. CASE Break(c) BY <2>2 DEF Break
  <2>3. CASE EnqueueInput(c) BY <2>3 DEF EnqueueInput
  <2>4. CASE CancelInput(c) BY <2>4 DEF CancelInput
  <2>5. CASE RemoveClient(c) BY <2>5 DEF RemoveClient
  <2>6. CASE Disconnect(c)
    <3>1. active' \subseteq active /\ \A id \in active' : Owner[id] # c
      BY <2>6 DEF Disconnect, RangeOf
    <3>2. Cardinality(active') <= MaxExecutions BY <1>a, <3>1
    <3>3. \A id \in active' : conn'[Owner[id]] # "free"
      BY <2>6, <3>1 DEF Disconnect
    <3> QED BY <3>2, <3>3
  <2>7. ASSUME NEW id \in Ids, Admit(c, id) PROVE SlotsBounded'
    <3>1. Cardinality(active') = Cardinality(active) + 1
      BY Zenon, <1>0, <2>7, FS_AddElement DEF Admit
    <3>2. Cardinality(active) < MaxExecutions BY <1>0, <2>7 DEF Admit, Full
    <3>3. \A i \in active' : conn'[Owner[i]] # "free"
      BY <2>7 DEF Admit, Reading
    <3> QED BY <1>0, <3>1, <3>2, <3>3
  <2>8. ASSUME NEW id \in Ids, NEW n \in StdinLengths, ClientStdin(c, id, n)
        PROVE  SlotsBounded'
    BY <2>8 DEF ClientStdin
  <2>9. ASSUME NEW id \in Ids, NEW n \in Offsets, ClientOutputAck(c, id, n)
        PROVE  SlotsBounded'
    BY <2>9 DEF ClientOutputAck
  <2> QED
    BY <1>1, <2>1, <2>2, <2>3, <2>4, <2>5, <2>6, <2>7, <2>8, <2>9
    DEF ClientStep, LeaveLoop, ReaderKicked, AdmitTwice, ClientStdinRefused,
        ClientOutputAckRefused
<1>2. ASSUME NEW id \in Ids, GuestStep(id) PROVE SlotsBounded'
  <2>1. active' \subseteq active /\ UNCHANGED conn
    BY <1>2
    DEF GuestStep, GuestStarted, GuestTerminal, GuestCoreError, GuestStdinAck,
        GuestStdinAckRefused, GuestOutput, GuestOutputRefused, Kick, Release
  <2> QED BY <1>a, <2>1
<1>3. CASE WriterStep BY Zenon, <1>3 DEF WriterStep, TakeInput
<1>4. CASE UNCHANGED vars BY <1>4 DEF vars
<1> QED BY <1>1, <1>2, <1>3, <1>4 DEF Next

\* For any number of clients, the sandbox never holds more reservations than
\* max_executions, and none for a slot the accept loop may hand out again.
THEOREM SlotsHold == Spec => []SlotsBounded
<1>1. Init => CountersOK /\ SlotsBounded
  BY NewSessionType, FS_EmptySet
  DEF Init, CountersOK, SlotsBounded, ReaderStages
<1>2. CountersOK /\ SlotsBounded /\ [Next]_vars => CountersOK' /\ SlotsBounded'
  BY CountersStep, SlotsStep
<1> QED BY <1>1, <1>2, PTL DEF Spec
=============================================================================
