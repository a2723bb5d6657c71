-------------------------- MODULE StorageLeaseProofs --------------------------
(***************************************************************************)
(* For any number of processes, readers, writers and deleters: exclusive   *)
(* leases exclude all others, a process has one descriptor per entry,      *)
(* readers wait for the writers before them, and no wakeup is lost. One    *)
(* inductive invariant carries all four.                                   *)
(***************************************************************************)
EXTENDS StorageLease, TLAPS

(* Who has the OS lock, in terms of where the callers are. *)
LocksOK ==
  /\ ex # None => refs = {} /\ sh = {}
  /\ \A w \in Writers : pc[w] \in {"holding", "register", "close"} => ex = w
  /\ \A r \in Readers : r \in refs <=> pc[r] = "holding"
  /\ \A r \in Readers : r \in sh <=> pc[r] \in {"publish", "close"}

(* A file with owners is the one the entry refers to. *)
PoolOK == \A r \in refs : lease[ProcOf[r]] = "held"

(* A reader past admission waits for no writer that was there before it. *)
AheadOK ==
  \A r \in Readers :
    /\ \A w \in ahead[r] : w \in interest /\ ProcOf[w] = ProcOf[r]
    /\ pc[r] \in {"lock", "publish", "holding"} => ahead[r] = {}

(* Only a worker outlives its future. *)
OrphansOK ==
  \A r \in orphan \cap Readers :
    /\ r \in AsyncReaders
    /\ pc[r] \in {"admit", "lock", "publish", "abandon", "failing",
                  "holding", "close", "announce"}

Inv == TypeOK /\ LocksOK /\ PoolOK /\ OneDescriptor /\ AheadOK /\ OrphansOK /\ SleepersTold

-----------------------------------------------------------------------------
LEMMA InitInv ==
  ASSUME Init
  PROVE  Inv
<1> USE LeaseAssumption DEF Init, Callers, Readers, Writers
<1>1. TypeOK BY DEF TypeOK, Placed, Places, ReaderPlaces, WriterPlaces
<1>2. LocksOK BY DEF TypeOK, Placed, LocksOK
<1>3. OneDescriptor BY DEF TypeOK, Placed, LocksOK, OneDescriptor, Acquires
<1>4. PoolOK BY DEF TypeOK, Placed, LocksOK, PoolOK, OneDescriptor, Acquires
<1>5. AheadOK BY DEF TypeOK, Placed, AheadOK
<1>6. OrphansOK BY DEF TypeOK, Placed, OrphansOK
<1>7. SleepersTold BY DEF TypeOK, Placed, Places, ReaderPlaces, WriterPlaces,
      OrphansOK, SleepersTold, Waiting
<1> QED BY <1>1, <1>2, <1>3, <1>4, <1>5, <1>6, <1>7 DEF Inv

(* What the assumptions say of the kinds of callers, without their unions. *)
LEMMA Kinds ==
  /\ \A c \in Readers : c \in Callers /\ c \notin Writers
  /\ \A c \in Writers : c \in Callers /\ c # None
  /\ \A c \in Callers : ProcOf[c] \in Procs /\ (c \in Readers \/ c \in Writers)
  /\ \A c \in Readers : (c \in SyncReaders) # (c \in AsyncReaders)
  /\ \A c \in SyncReaders : c \in Readers
  /\ \A c \in AsyncReaders : c \in Readers
  /\ \A c \in SyncWriters : c \in Writers /\ c \notin AsyncWriters /\ c \notin Deleters
  /\ \A c \in AsyncWriters : c \in Writers /\ c \notin SyncWriters /\ c \notin Deleters
  /\ \A c \in Deleters : c \in Writers /\ c \notin SyncWriters /\ c \notin AsyncWriters
BY LeaseAssumption DEF Callers, Readers, Writers

-----------------------------------------------------------------------------
(* Every action of a reader keeps it. *)

LEMMA AbandonInv ==
  ASSUME Inv, NEW r \in Readers, Abandon(r)
  PROVE  Inv'
<1> USE Kinds DEF Inv
<1>a. /\ pc'[r] \in {"idle", "done", "retry"}
      /\ \A c \in Callers \ {r} : \/ pc'[c] = pc[c]
                                  \/ pc[c] = "asleep" /\ pc'[c] = "wait"
  BY DEF TypeOK, Placed, Abandon, GotoNotify, Over, Deliver
<1>1. TypeOK' BY DEF TypeOK, Placed, Places, ReaderPlaces, WriterPlaces, Abandon,
      GotoNotify, Settle, Over, Deliver, Subscribed, Local
<1>2. LocksOK' BY <1>a DEF TypeOK, Placed, LocksOK, Abandon
<1>3. OneDescriptor' BY <1>a DEF TypeOK, Placed, LocksOK, OneDescriptor,
      Acquires, Abandon
<1>4. PoolOK' BY <1>a DEF TypeOK, Placed, LocksOK, PoolOK, OneDescriptor,
      Acquires, Abandon
<1>5. AheadOK' BY <1>a DEF TypeOK, Placed, AheadOK, Abandon
<1>6. OrphansOK' BY DEF TypeOK, Placed, OrphansOK, Abandon, GotoNotify, Settle,
      Over, Deliver, Subscribed, Local
<1>7. SleepersTold' BY DEF TypeOK, Placed, Places, ReaderPlaces, WriterPlaces,
      OrphansOK, SleepersTold, Waiting, Abandon, GotoNotify, Settle, Over, Deliver,
      Subscribed, Local
<1> QED BY <1>1, <1>2, <1>3, <1>4, <1>5, <1>6, <1>7

LEMMA PublishInv ==
  ASSUME Inv, NEW r \in Readers, Publish(r)
  PROVE  Inv'
<1> USE Kinds DEF Inv
<1>a. /\ pc'[r] = "holding"
      /\ \A c \in Callers : c # r => \/ pc'[c] = pc[c]
                                     \/ pc[c] = "asleep" /\ pc'[c] = "wait"
  BY DEF TypeOK, Placed, Publish, GotoNotify
<1>1. TypeOK' BY DEF TypeOK, Placed, Places, ReaderPlaces, WriterPlaces, Publish,
      GotoNotify, Subscribed, Local
<1>2. LocksOK' BY DEF TypeOK, Placed, LocksOK, Publish, GotoNotify, Subscribed,
      Local
<1>3. OneDescriptor' BY <1>a DEF TypeOK, OneDescriptor, Acquires, LocksOK, Publish
<1>4. PoolOK' BY DEF TypeOK, Placed, LocksOK, PoolOK, OneDescriptor, Acquires,
      Publish, GotoNotify, Subscribed, Local
<1>5. AheadOK' BY DEF TypeOK, Placed, AheadOK, Publish, GotoNotify, Subscribed,
      Local
<1>6. OrphansOK' BY DEF TypeOK, Placed, OrphansOK, Publish, GotoNotify,
      Subscribed, Local
<1>7. SleepersTold' BY DEF TypeOK, Placed, Places, ReaderPlaces, WriterPlaces,
      OrphansOK, SleepersTold, Waiting, Publish, GotoNotify, Subscribed, Local
<1> QED BY <1>1, <1>2, <1>3, <1>4, <1>5, <1>6, <1>7

LEMMA AdmitInv ==
  ASSUME Inv, NEW r \in Readers, Admit(r)
  PROVE  Inv'
<1> USE Kinds DEF Inv
<1>1. TypeOK' BY DEF TypeOK, Placed, Places, ReaderPlaces, WriterPlaces, Admit,
      Goto, Settle, Unsubscribe, Deliver, Alive, Waiting, Over
<1>2. LocksOK' BY DEF TypeOK, Placed, LocksOK, Admit, Goto, Settle,
      Unsubscribe, Deliver, Alive, Waiting, Over
<1>3. OneDescriptor'
  <2>1. CASE Waiting(ProcOf[r]) \/ (~ Alive(ProcOf[r]) /\ lease[ProcOf[r]] = "acquiring")
    BY <2>1 DEF TypeOK, Placed, LocksOK, OneDescriptor, Acquires, PoolOK,
        Admit, Goto, Settle, Unsubscribe, Deliver, Alive, Waiting, Over
  <2>2. CASE ~ Waiting(ProcOf[r]) /\ Alive(ProcOf[r])
    BY <2>2 DEF TypeOK, Placed, LocksOK, OneDescriptor, Acquires, PoolOK,
        Admit, Goto, Settle, Unsubscribe, Deliver, Alive, Waiting, Over
  <2>3. CASE ~ Waiting(ProcOf[r]) /\ ~ Alive(ProcOf[r]) /\ ~ lease[ProcOf[r]] = "acquiring"
    BY <2>3 DEF TypeOK, Placed, LocksOK, OneDescriptor, Acquires, PoolOK,
        Admit, Goto, Settle, Unsubscribe, Deliver, Alive, Waiting, Over
  <2> QED BY <2>1, <2>2, <2>3
<1>4. PoolOK' BY DEF TypeOK, Placed, LocksOK, PoolOK, OneDescriptor, Acquires,
      Admit, Goto, Settle, Unsubscribe, Deliver, Alive, Waiting, Over
<1>5. AheadOK' BY DEF TypeOK, Placed, AheadOK, Admit, Goto, Settle,
      Unsubscribe, Deliver, Alive, Waiting, Over
<1>6. OrphansOK'
  <2>1. CASE Waiting(ProcOf[r]) \/ (~ Alive(ProcOf[r]) /\ lease[ProcOf[r]] = "acquiring")
    BY <2>1 DEF TypeOK, Placed, OrphansOK, Admit, Goto, Settle, Unsubscribe,
        Deliver, Alive, Waiting, Over
  <2>2. CASE ~ Waiting(ProcOf[r]) /\ Alive(ProcOf[r])
    BY <2>2 DEF TypeOK, Placed, OrphansOK, Admit, Goto, Settle, Unsubscribe,
        Deliver, Alive, Waiting, Over
  <2>3. CASE ~ Waiting(ProcOf[r]) /\ ~ Alive(ProcOf[r]) /\ ~ lease[ProcOf[r]] = "acquiring"
    BY <2>3 DEF TypeOK, Placed, OrphansOK, Admit, Goto, Settle, Unsubscribe,
        Deliver, Alive, Waiting, Over
  <2> QED BY <2>1, <2>2, <2>3
<1>7. SleepersTold' BY DEF TypeOK, Placed, Places, ReaderPlaces, WriterPlaces,
      OrphansOK, SleepersTold, Waiting, Admit, Goto, Settle, Unsubscribe, Deliver,
      Alive, Over
<1> QED BY <1>1, <1>2, <1>3, <1>4, <1>5, <1>6, <1>7

LEMMA CancelReaderInv ==
  ASSUME Inv, NEW r \in Readers, CancelReader(r)
  PROVE  Inv'
<1> USE Kinds DEF Inv
<1>1. TypeOK' BY DEF TypeOK, Placed, Places, ReaderPlaces, WriterPlaces,
      CancelReader, Goto, Unsubscribe, Over, InWorker
<1>2. LocksOK' BY DEF TypeOK, Placed, LocksOK, CancelReader, Goto, Unsubscribe,
      Over, InWorker
<1>3. OneDescriptor' BY DEF TypeOK, Placed, LocksOK, OneDescriptor, Acquires,
      CancelReader, Goto, Unsubscribe, Over, InWorker
<1>4. PoolOK' BY DEF TypeOK, Placed, LocksOK, PoolOK, OneDescriptor, Acquires,
      CancelReader, Goto, Unsubscribe, Over, InWorker
<1>5. AheadOK' BY DEF TypeOK, Placed, AheadOK, CancelReader, Goto, Unsubscribe,
      Over, InWorker
<1>6. OrphansOK' BY DEF TypeOK, Placed, OrphansOK, CancelReader, Goto,
      Unsubscribe, Over, InWorker
<1>7. SleepersTold' BY DEF TypeOK, Placed, Places, ReaderPlaces, WriterPlaces,
      OrphansOK, SleepersTold, Waiting, CancelReader, Goto, Unsubscribe, Over,
      InWorker
<1> QED BY <1>1, <1>2, <1>3, <1>4, <1>5, <1>6, <1>7

LEMMA AnnounceInv ==
  ASSUME Inv, NEW r \in Readers, Announce(r)
  PROVE  Inv'
<1> USE Kinds DEF Inv
<1>1. TypeOK' BY DEF TypeOK, Placed, Places, ReaderPlaces, WriterPlaces, Announce,
      Goto, Settle, Released, Over, Subscribed, Local
<1>2. LocksOK' BY DEF TypeOK, Placed, LocksOK, Announce, Goto, Settle,
      Released, Over, Subscribed, Local
<1>3. OneDescriptor' BY DEF TypeOK, Placed, LocksOK, OneDescriptor, Acquires,
      Announce, Goto, Settle, Released, Over, Subscribed, Local
<1>4. PoolOK' BY DEF TypeOK, Placed, LocksOK, PoolOK, OneDescriptor, Acquires,
      Announce, Goto, Settle, Released, Over, Subscribed, Local
<1>5. AheadOK' BY DEF TypeOK, Placed, AheadOK, Announce, Goto, Settle,
      Released, Over, Subscribed, Local
<1>6. OrphansOK' BY DEF TypeOK, Placed, OrphansOK, Announce, Goto, Settle,
      Released, Over, Subscribed, Local
<1>7. SleepersTold' BY DEF TypeOK, Placed, Places, ReaderPlaces, WriterPlaces,
      OrphansOK, SleepersTold, Waiting, Announce, Goto, Settle, Released, Over,
      Subscribed, Local
<1> QED BY <1>1, <1>2, <1>3, <1>4, <1>5, <1>6, <1>7

LEMMA DropReaderInv ==
  ASSUME Inv, NEW r \in Readers, DropReader(r)
  PROVE  Inv'
<1> USE Kinds DEF Inv
<1>1. TypeOK' BY DEF TypeOK, Placed, Places, ReaderPlaces, WriterPlaces, DropReader,
      Goto, Settle, Over
<1>2. LocksOK' BY DEF TypeOK, Placed, LocksOK, DropReader, Goto, Settle, Over
<1>3. OneDescriptor' BY DEF TypeOK, Placed, LocksOK, OneDescriptor, Acquires,
      DropReader, Goto, Settle, Over
<1>4. PoolOK' BY DEF TypeOK, Placed, LocksOK, PoolOK, OneDescriptor, Acquires,
      DropReader, Goto, Settle, Over
<1>5. AheadOK' BY DEF TypeOK, Placed, AheadOK, DropReader, Goto, Settle, Over
<1>6. OrphansOK' BY DEF TypeOK, Placed, OrphansOK, DropReader, Goto, Settle,
      Over
<1>7. SleepersTold' BY DEF TypeOK, Placed, Places, ReaderPlaces, WriterPlaces,
      OrphansOK, SleepersTold, Waiting, DropReader, Goto, Settle, Over
<1> QED BY <1>1, <1>2, <1>3, <1>4, <1>5, <1>6, <1>7

LEMMA ReuseInv ==
  ASSUME Inv, NEW r \in Readers, Reuse(r)
  PROVE  Inv'
<1> USE Kinds DEF Inv
<1>1. TypeOK' BY DEF TypeOK, Placed, Places, ReaderPlaces, WriterPlaces, Reuse,
      Goto, Alive, Waiting
<1>2. LocksOK' BY DEF TypeOK, Placed, LocksOK, Reuse, Goto, Alive, Waiting
<1>3. OneDescriptor' BY DEF TypeOK, Placed, LocksOK, OneDescriptor, Acquires,
      Reuse, Goto, Alive, Waiting
<1>4. PoolOK' BY DEF TypeOK, Placed, LocksOK, PoolOK, OneDescriptor, Acquires,
      Reuse, Goto, Alive, Waiting
<1>5. AheadOK' BY DEF TypeOK, Placed, AheadOK, Reuse, Goto, Alive, Waiting
<1>6. OrphansOK' BY DEF TypeOK, Placed, OrphansOK, Reuse, Goto, Alive, Waiting
<1>7. SleepersTold' BY DEF TypeOK, Placed, Places, ReaderPlaces, WriterPlaces,
      OrphansOK, SleepersTold, Waiting, Reuse, Goto, Alive
<1> QED BY <1>1, <1>2, <1>3, <1>4, <1>5, <1>6, <1>7

LEMMA BeginInv ==
  ASSUME Inv, NEW r \in Readers, Begin(r)
  PROVE  Inv'
<1> USE Kinds DEF Inv
<1>1. TypeOK' BY DEF TypeOK, Placed, Places, ReaderPlaces, WriterPlaces, Begin, Goto
<1>2. LocksOK' BY DEF TypeOK, Placed, LocksOK, Begin, Goto
<1>3. OneDescriptor' BY DEF TypeOK, Placed, LocksOK, OneDescriptor, Acquires,
      Begin, Goto
<1>4. PoolOK' BY DEF TypeOK, Placed, LocksOK, PoolOK, OneDescriptor, Acquires,
      Begin, Goto
<1>5. AheadOK' BY DEF TypeOK, Placed, AheadOK, Begin, Goto
<1>6. OrphansOK' BY DEF TypeOK, Placed, OrphansOK, Begin, Goto
<1>7. SleepersTold' BY DEF TypeOK, Placed, Places, ReaderPlaces, WriterPlaces,
      OrphansOK, SleepersTold, Waiting, Begin, Goto
<1> QED BY <1>1, <1>2, <1>3, <1>4, <1>5, <1>6, <1>7

LEMMA EnterGateInv ==
  ASSUME Inv, NEW r \in Readers, EnterGate(r)
  PROVE  Inv'
<1> USE Kinds DEF Inv
<1>1. TypeOK' BY DEF TypeOK, Placed, Places, ReaderPlaces, WriterPlaces, EnterGate,
      Goto
<1>2. LocksOK' BY DEF TypeOK, Placed, LocksOK, EnterGate, Goto
<1>3. OneDescriptor' BY DEF TypeOK, Placed, LocksOK, OneDescriptor, Acquires,
      EnterGate, Goto
<1>4. PoolOK' BY DEF TypeOK, Placed, LocksOK, PoolOK, OneDescriptor, Acquires,
      EnterGate, Goto
<1>5. AheadOK' BY DEF TypeOK, Placed, AheadOK, EnterGate, Goto
<1>6. OrphansOK' BY DEF TypeOK, Placed, OrphansOK, EnterGate, Goto
<1>7. SleepersTold' BY DEF TypeOK, Placed, Places, ReaderPlaces, WriterPlaces,
      OrphansOK, SleepersTold, Waiting, EnterGate, Goto
<1> QED BY <1>1, <1>2, <1>3, <1>4, <1>5, <1>6, <1>7

LEMMA LockSharedInv ==
  ASSUME Inv, NEW r \in Readers, LockShared(r)
  PROVE  Inv'
<1> USE Kinds DEF Inv
<1>1. TypeOK' BY DEF TypeOK, Placed, Places, ReaderPlaces, WriterPlaces, LockShared,
      Goto, CanShare
<1>2. LocksOK' BY DEF TypeOK, Placed, LocksOK, LockShared, Goto, CanShare
<1>3. OneDescriptor' BY DEF TypeOK, Placed, LocksOK, OneDescriptor, Acquires,
      LockShared, Goto, CanShare
<1>4. PoolOK' BY DEF TypeOK, Placed, LocksOK, PoolOK, OneDescriptor, Acquires,
      LockShared, Goto, CanShare
<1>5. AheadOK' BY DEF TypeOK, Placed, AheadOK, LockShared, Goto, CanShare
<1>6. OrphansOK' BY DEF TypeOK, Placed, OrphansOK, LockShared, Goto, CanShare
<1>7. SleepersTold' BY DEF TypeOK, Placed, Places, ReaderPlaces, WriterPlaces,
      OrphansOK, SleepersTold, Waiting, LockShared, Goto, CanShare
<1> QED BY <1>1, <1>2, <1>3, <1>4, <1>5, <1>6, <1>7

LEMMA LockSharedFailsInv ==
  ASSUME Inv, NEW r \in Readers, LockSharedFails(r)
  PROVE  Inv'
<1> USE Kinds DEF Inv
<1>1. TypeOK' BY DEF TypeOK, Placed, Places, ReaderPlaces, WriterPlaces,
      LockSharedFails, Goto
<1>2. LocksOK' BY DEF TypeOK, Placed, LocksOK, LockSharedFails, Goto
<1>3. OneDescriptor' BY DEF TypeOK, Placed, LocksOK, OneDescriptor, Acquires,
      LockSharedFails, Goto
<1>4. PoolOK' BY DEF TypeOK, Placed, LocksOK, PoolOK, OneDescriptor, Acquires,
      LockSharedFails, Goto
<1>5. AheadOK' BY DEF TypeOK, Placed, AheadOK, LockSharedFails, Goto
<1>6. OrphansOK' BY DEF TypeOK, Placed, OrphansOK, LockSharedFails, Goto
<1>7. SleepersTold' BY DEF TypeOK, Placed, Places, ReaderPlaces, WriterPlaces,
      OrphansOK, SleepersTold, Waiting, LockSharedFails, Goto
<1> QED BY <1>1, <1>2, <1>3, <1>4, <1>5, <1>6, <1>7

LEMMA WaitInv ==
  ASSUME Inv, NEW r \in Readers, Wait(r)
  PROVE  Inv'
<1> USE Kinds DEF Inv
<1>1. TypeOK' BY DEF TypeOK, Placed, Places, ReaderPlaces, WriterPlaces, Wait, Goto,
      Waiting
<1>2. LocksOK' BY DEF TypeOK, Placed, LocksOK, Wait, Goto, Waiting
<1>3. OneDescriptor' BY DEF TypeOK, Placed, LocksOK, OneDescriptor, Acquires,
      Wait, Goto, Waiting
<1>4. PoolOK' BY DEF TypeOK, Placed, LocksOK, PoolOK, OneDescriptor, Acquires,
      Wait, Goto, Waiting
<1>5. AheadOK' BY DEF TypeOK, Placed, AheadOK, Wait, Goto, Waiting
<1>6. OrphansOK' BY DEF TypeOK, Placed, OrphansOK, Wait, Goto, Waiting
<1>7. SleepersTold' BY DEF TypeOK, Placed, Places, ReaderPlaces, WriterPlaces,
      OrphansOK, SleepersTold, Waiting, Wait, Goto
<1> QED BY <1>1, <1>2, <1>3, <1>4, <1>5, <1>6, <1>7

LEMMA AwaitChangeInv ==
  ASSUME Inv, NEW r \in Readers, AwaitChange(r)
  PROVE  Inv'
<1> USE Kinds DEF Inv
<1>1. TypeOK' BY DEF TypeOK, Placed, Places, ReaderPlaces, WriterPlaces,
      AwaitChange, Goto
<1>2. LocksOK' BY DEF TypeOK, Placed, LocksOK, AwaitChange, Goto
<1>3. OneDescriptor' BY DEF TypeOK, Placed, LocksOK, OneDescriptor, Acquires,
      AwaitChange, Goto
<1>4. PoolOK' BY DEF TypeOK, Placed, LocksOK, PoolOK, OneDescriptor, Acquires,
      AwaitChange, Goto
<1>5. AheadOK' BY DEF TypeOK, Placed, AheadOK, AwaitChange, Goto
<1>6. OrphansOK' BY DEF TypeOK, Placed, OrphansOK, AwaitChange, Goto
<1>7. SleepersTold' BY DEF TypeOK, Placed, Places, ReaderPlaces, WriterPlaces,
      OrphansOK, SleepersTold, Waiting, AwaitChange, Goto
<1> QED BY <1>1, <1>2, <1>3, <1>4, <1>5, <1>6, <1>7

LEMMA CloseSharedInv ==
  ASSUME Inv, NEW r \in Readers, CloseShared(r)
  PROVE  Inv'
<1> USE Kinds DEF Inv
<1>1. TypeOK' BY DEF TypeOK, Placed, Places, ReaderPlaces, WriterPlaces,
      CloseShared, Goto
<1>2. LocksOK' BY DEF TypeOK, Placed, LocksOK, CloseShared, Goto
<1>3. OneDescriptor' BY DEF TypeOK, Placed, LocksOK, OneDescriptor, Acquires,
      CloseShared, Goto
<1>4. PoolOK' BY DEF TypeOK, Placed, LocksOK, PoolOK, OneDescriptor, Acquires,
      CloseShared, Goto
<1>5. AheadOK' BY DEF TypeOK, Placed, AheadOK, CloseShared, Goto
<1>6. OrphansOK' BY DEF TypeOK, Placed, OrphansOK, CloseShared, Goto
<1>7. SleepersTold' BY DEF TypeOK, Placed, Places, ReaderPlaces, WriterPlaces,
      OrphansOK, SleepersTold, Waiting, CloseShared, Goto
<1> QED BY <1>1, <1>2, <1>3, <1>4, <1>5, <1>6, <1>7

-----------------------------------------------------------------------------
(* Every action of a writer keeps the invariant, and so do timers and exits. *)

LEMMA DieInv ==
  ASSUME Inv, NEW p \in Procs, Die(p)
  PROVE  Inv'
<1> USE Kinds DEF Inv
<1>a. \A c \in Callers :
        /\ ProcOf[c] = p => pc'[c] \in {"idle", "done"}
        /\ ProcOf[c] # p => pc'[c] = pc[c]
  BY DEF Die, Over
<1>b. \A c \in Callers :
        /\ c \in refs' <=> c \in refs /\ ProcOf[c] # p
        /\ c \in sh' <=> c \in sh /\ ProcOf[c] # p
        /\ c \in interest' <=> c \in interest /\ ProcOf[c] # p
        /\ c \in gen' <=> c \in gen /\ ProcOf[c] # p
        /\ c \in orphan' <=> c \in orphan /\ ProcOf[c] # p
  BY DEF Die, Local
<1>c. ex' = None \/ (ex' = ex /\ ProcOf[ex] # p)
  BY DEF Die, Local, TypeOK
<1>d. \A q \in Procs : lease'[q] = IF q = p THEN "vacant" ELSE lease[q]
  BY DEF Die, TypeOK
<1>e. \A c \in Writers : ex = c /\ ProcOf[c] # p => ex' = c
  BY DEF Die, Local
<1>1. TypeOK' BY DEF TypeOK, Placed, Places, ReaderPlaces, WriterPlaces, Die, Over,
      Local
<1>2. LocksOK' BY <1>a, <1>b, <1>c, <1>d, <1>e, <1>1 DEF TypeOK, Placed, LocksOK
<1>3. OneDescriptor' BY <1>a, <1>b, <1>d DEF TypeOK, OneDescriptor, Acquires
<1>4. PoolOK' BY <1>b, <1>d, <1>1 DEF TypeOK, PoolOK
<1>5. AheadOK' BY DEF TypeOK, Placed, AheadOK, Die, Over, Local
<1>6. OrphansOK' BY <1>a, <1>b, <1>c, <1>d, <1>e DEF TypeOK, Placed, OrphansOK
<1>7. SleepersTold' BY <1>a, <1>b, <1>c, <1>d, <1>e DEF TypeOK, Placed,
      Places, ReaderPlaces, WriterPlaces, OrphansOK, SleepersTold, Waiting
<1> QED BY <1>1, <1>2, <1>3, <1>4, <1>5, <1>6, <1>7

(* A caller that writes and wakes sleeping readers leaves every descriptor   *)
(* where it was: who acquires, the leases and their owners are the same.      *)
LEMMA DescriptorSame ==
  ASSUME OneDescriptor, lease' = lease, refs' = refs,
         \A r \in Readers : \/ pc'[r] = pc[r]
                            \/ pc[r] = "asleep" /\ pc'[r] = "wait"
  PROVE  OneDescriptor'
<1>1. \A r \in Readers : Acquires(r)' <=> Acquires(r) BY DEF Acquires
<1> QED BY Zenon, <1>1 DEF OneDescriptor

LEMMA CancelWriterInv ==
  ASSUME Inv, NEW w \in Writers, CancelWriter(w)
  PROVE  Inv'
<1> USE Kinds DEF Inv
<1>a. \A r \in Readers : \/ pc'[r] = pc[r]
                         \/ pc[r] = "asleep" /\ pc'[r] = "wait"
  BY DEF TypeOK, Placed, CancelWriter, GotoNotify, Goto, InWorker
<1>1. TypeOK' BY DEF TypeOK, Placed, Places, ReaderPlaces, WriterPlaces,
      CancelWriter, GotoNotify, Unregister, Over, InWorker, Subscribed, Local,
      Released
<1>2. LocksOK' BY DEF TypeOK, Placed, LocksOK, CancelWriter, GotoNotify,
      Unregister, Over, InWorker, Subscribed, Local, Released
<1>b. lease' = lease /\ refs' = refs BY DEF CancelWriter
<1>3. OneDescriptor' BY Zenon, <1>a, <1>b, DescriptorSame
<1>4. PoolOK' BY <1>a DEF TypeOK, Placed, LocksOK, PoolOK, OneDescriptor,
      Acquires, CancelWriter, Unregister
<1>5. AheadOK' BY DEF TypeOK, Placed, AheadOK, CancelWriter, GotoNotify,
      Unregister, Over, InWorker, Subscribed, Local, Released
<1>6. OrphansOK' BY DEF TypeOK, Placed, OrphansOK, CancelWriter, GotoNotify,
      Unregister, Over, InWorker, Subscribed, Local, Released
<1>7. SleepersTold' BY DEF TypeOK, Placed, Places, ReaderPlaces, WriterPlaces,
      OrphansOK, SleepersTold, Waiting, CancelWriter, GotoNotify, Unregister, Over,
      InWorker, Subscribed, Local, Released
<1> QED BY <1>1, <1>2, <1>3, <1>4, <1>5, <1>6, <1>7

LEMMA EndInterestInv ==
  ASSUME Inv, NEW w \in Writers, EndInterest(w)
  PROVE  Inv'
<1> USE Kinds DEF Inv
<1>a. \A r \in Readers : \/ pc'[r] = pc[r]
                         \/ pc[r] = "asleep" /\ pc'[r] = "wait"
  BY DEF TypeOK, Placed, EndInterest, GotoNotify
<1>1. TypeOK' BY DEF TypeOK, Placed, Places, ReaderPlaces, WriterPlaces,
      EndInterest, GotoNotify, Unregister, Over, Subscribed, Local, Released
<1>2. LocksOK' BY DEF TypeOK, Placed, LocksOK, EndInterest, GotoNotify,
      Unregister, Over, Subscribed, Local, Released
<1>b. lease' = lease /\ refs' = refs BY DEF EndInterest
<1>3. OneDescriptor' BY Zenon, <1>a, <1>b, DescriptorSame
<1>4. PoolOK' BY <1>a DEF TypeOK, Placed, LocksOK, PoolOK, OneDescriptor,
      Acquires, EndInterest, Unregister
<1>5. AheadOK' BY DEF TypeOK, Placed, AheadOK, EndInterest, GotoNotify,
      Unregister, Over, Subscribed, Local, Released
<1>6. OrphansOK' BY DEF TypeOK, Placed, OrphansOK, EndInterest, GotoNotify,
      Unregister, Over, Subscribed, Local, Released
<1>7. SleepersTold' BY DEF TypeOK, Placed, Places, ReaderPlaces, WriterPlaces,
      OrphansOK, SleepersTold, Waiting, EndInterest, GotoNotify, Unregister, Over,
      Subscribed, Local, Released
<1> QED BY <1>1, <1>2, <1>3, <1>4, <1>5, <1>6, <1>7

LEMMA LockExclusiveFailsInv ==
  ASSUME Inv, NEW w \in Writers, LockExclusiveFails(w)
  PROVE  Inv'
<1> USE Kinds DEF Inv
<1>a. \A r \in Readers : \/ pc'[r] = pc[r]
                         \/ pc[r] = "asleep" /\ pc'[r] = "wait"
  BY DEF TypeOK, Placed, LockExclusiveFails, GotoNotify
<1>1. TypeOK' BY DEF TypeOK, Placed, Places, ReaderPlaces, WriterPlaces,
      LockExclusiveFails, GotoNotify, Unregister, Over, Subscribed, Local, Released
<1>2. LocksOK' BY DEF TypeOK, Placed, LocksOK, LockExclusiveFails, GotoNotify,
      Unregister, Over, Subscribed, Local, Released
<1>3. OneDescriptor' BY <1>a DEF TypeOK, Placed, LocksOK, OneDescriptor,
      Acquires, LockExclusiveFails, Unregister
<1>4. PoolOK' BY <1>a DEF TypeOK, Placed, LocksOK, PoolOK, OneDescriptor,
      Acquires, LockExclusiveFails, Unregister
<1>5. AheadOK' BY DEF TypeOK, Placed, AheadOK, LockExclusiveFails, GotoNotify,
      Unregister, Over, Subscribed, Local, Released
<1>6. OrphansOK' BY DEF TypeOK, Placed, OrphansOK, LockExclusiveFails,
      GotoNotify, Unregister, Over, Subscribed, Local, Released
<1>7. SleepersTold' BY DEF TypeOK, Placed, Places, ReaderPlaces, WriterPlaces,
      OrphansOK, SleepersTold, Waiting, LockExclusiveFails, GotoNotify, Unregister,
      Over, Subscribed, Local, Released
<1> QED BY <1>1, <1>2, <1>3, <1>4, <1>5, <1>6, <1>7

LEMMA RegisterInv ==
  ASSUME Inv, NEW w \in Writers, Register(w)
  PROVE  Inv'
<1> USE Kinds DEF Inv
<1>a. \A r \in Readers : \/ pc'[r] = pc[r]
                         \/ pc[r] = "asleep" /\ pc'[r] = "wait"
  BY DEF TypeOK, Placed, Register, GotoNotify
<1>1. TypeOK' BY DEF TypeOK, Placed, Places, ReaderPlaces, WriterPlaces, Register,
      GotoNotify, Subscribed, Local
<1>2. LocksOK' BY DEF TypeOK, Placed, LocksOK, Register, GotoNotify,
      Subscribed, Local
<1>3. OneDescriptor' BY <1>a DEF TypeOK, Placed, LocksOK, OneDescriptor,
      Acquires, Register
<1>4. PoolOK' BY <1>a DEF TypeOK, Placed, LocksOK, PoolOK, OneDescriptor,
      Acquires, Register
<1>5. AheadOK' BY DEF TypeOK, Placed, AheadOK, Register, GotoNotify,
      Subscribed, Local
<1>6. OrphansOK' BY DEF TypeOK, Placed, OrphansOK, Register, GotoNotify,
      Subscribed, Local
<1>7. SleepersTold' BY DEF TypeOK, Placed, Places, ReaderPlaces, WriterPlaces,
      OrphansOK, SleepersTold, Waiting, Register, GotoNotify, Subscribed, Local
<1> QED BY <1>1, <1>2, <1>3, <1>4, <1>5, <1>6, <1>7

LEMMA RegisterDeleterInv ==
  ASSUME Inv, NEW w \in Writers, RegisterDeleter(w)
  PROVE  Inv'
<1> USE Kinds DEF Inv
<1>a. \A r \in Readers : \/ pc'[r] = pc[r]
                         \/ pc[r] = "asleep" /\ pc'[r] = "wait"
  BY DEF TypeOK, Placed, RegisterDeleter, GotoNotify
<1>1. TypeOK' BY DEF TypeOK, Placed, Places, ReaderPlaces, WriterPlaces,
      RegisterDeleter, GotoNotify, Subscribed, Local
<1>2. LocksOK' BY DEF TypeOK, Placed, LocksOK, RegisterDeleter, GotoNotify,
      Subscribed, Local
<1>3. OneDescriptor' BY <1>a DEF TypeOK, Placed, LocksOK, OneDescriptor,
      Acquires, RegisterDeleter
<1>4. PoolOK' BY <1>a DEF TypeOK, Placed, LocksOK, PoolOK, OneDescriptor,
      Acquires, RegisterDeleter
<1>5. AheadOK' BY DEF TypeOK, Placed, AheadOK, RegisterDeleter, GotoNotify,
      Subscribed, Local
<1>6. OrphansOK' BY DEF TypeOK, Placed, OrphansOK, RegisterDeleter, GotoNotify,
      Subscribed, Local
<1>7. SleepersTold' BY DEF TypeOK, Placed, Places, ReaderPlaces, WriterPlaces,
      OrphansOK, SleepersTold, Waiting, RegisterDeleter, GotoNotify, Subscribed,
      Local
<1> QED BY <1>1, <1>2, <1>3, <1>4, <1>5, <1>6, <1>7

LEMMA TryExclusiveInv ==
  ASSUME Inv, NEW w \in Writers, TryExclusive(w)
  PROVE  Inv'
<1> USE Kinds DEF Inv
<1>1. TypeOK' BY DEF TypeOK, Placed, Places, ReaderPlaces, WriterPlaces,
      TryExclusive, Goto, Settle, Unsubscribe, Deliver, CanExclude, Over
<1>2. LocksOK' BY DEF TypeOK, Placed, LocksOK, TryExclusive, Goto, Settle,
      Unsubscribe, Deliver, CanExclude, Over
<1>3. OneDescriptor' BY DEF TypeOK, Placed, LocksOK, OneDescriptor, Acquires,
      TryExclusive, Goto, Settle, Unsubscribe, Deliver, CanExclude, Over
<1>4. PoolOK' BY DEF TypeOK, Placed, LocksOK, PoolOK, OneDescriptor, Acquires,
      TryExclusive, Goto, Settle, Unsubscribe, Deliver, CanExclude, Over
<1>5. AheadOK' BY DEF TypeOK, Placed, AheadOK, TryExclusive, Goto, Settle,
      Unsubscribe, Deliver, CanExclude, Over
<1>6. OrphansOK' BY DEF TypeOK, Placed, OrphansOK, TryExclusive, Goto, Settle,
      Unsubscribe, Deliver, CanExclude, Over
<1>7. SleepersTold' BY DEF TypeOK, Placed, Places, ReaderPlaces, WriterPlaces,
      OrphansOK, SleepersTold, Waiting, TryExclusive, Goto, Settle, Unsubscribe,
      Deliver, CanExclude, Over
<1> QED BY <1>1, <1>2, <1>3, <1>4, <1>5, <1>6, <1>7

LEMMA LockExclusiveInv ==
  ASSUME Inv, NEW w \in Writers, LockExclusive(w)
  PROVE  Inv'
<1> USE Kinds DEF Inv
<1>1. TypeOK' BY DEF TypeOK, Placed, Places, ReaderPlaces, WriterPlaces,
      LockExclusive, Goto, CanExclude
<1>2. LocksOK' BY DEF TypeOK, Placed, LocksOK, LockExclusive, Goto, CanExclude
<1>3. OneDescriptor' BY DEF TypeOK, Placed, LocksOK, OneDescriptor, Acquires,
      LockExclusive, Goto, CanExclude
<1>4. PoolOK' BY DEF TypeOK, Placed, LocksOK, PoolOK, OneDescriptor, Acquires,
      LockExclusive, Goto, CanExclude
<1>5. AheadOK' BY DEF TypeOK, Placed, AheadOK, LockExclusive, Goto, CanExclude
<1>6. OrphansOK' BY DEF TypeOK, Placed, OrphansOK, LockExclusive, Goto,
      CanExclude
<1>7. SleepersTold' BY DEF TypeOK, Placed, Places, ReaderPlaces, WriterPlaces,
      OrphansOK, SleepersTold, Waiting, LockExclusive, Goto, CanExclude
<1> QED BY <1>1, <1>2, <1>3, <1>4, <1>5, <1>6, <1>7

LEMMA EnterWriterGateInv ==
  ASSUME Inv, NEW w \in Writers, EnterWriterGate(w)
  PROVE  Inv'
<1> USE Kinds DEF Inv
<1>1. TypeOK' BY DEF TypeOK, Placed, Places, ReaderPlaces, WriterPlaces,
      EnterWriterGate, Goto
<1>2. LocksOK' BY DEF TypeOK, Placed, LocksOK, EnterWriterGate, Goto
<1>3. OneDescriptor' BY DEF TypeOK, Placed, LocksOK, OneDescriptor, Acquires,
      EnterWriterGate, Goto
<1>4. PoolOK' BY DEF TypeOK, Placed, LocksOK, PoolOK, OneDescriptor, Acquires,
      EnterWriterGate, Goto
<1>5. AheadOK' BY DEF TypeOK, Placed, AheadOK, EnterWriterGate, Goto
<1>6. OrphansOK' BY DEF TypeOK, Placed, OrphansOK, EnterWriterGate, Goto
<1>7. SleepersTold' BY DEF TypeOK, Placed, Places, ReaderPlaces, WriterPlaces,
      OrphansOK, SleepersTold, Waiting, EnterWriterGate, Goto
<1> QED BY <1>1, <1>2, <1>3, <1>4, <1>5, <1>6, <1>7

LEMMA SpawnTryInv ==
  ASSUME Inv, NEW w \in Writers, SpawnTry(w)
  PROVE  Inv'
<1> USE Kinds DEF Inv
<1>1. TypeOK' BY DEF TypeOK, Placed, Places, ReaderPlaces, WriterPlaces, SpawnTry,
      Goto
<1>2. LocksOK' BY DEF TypeOK, Placed, LocksOK, SpawnTry, Goto
<1>3. OneDescriptor' BY DEF TypeOK, Placed, LocksOK, OneDescriptor, Acquires,
      SpawnTry, Goto
<1>4. PoolOK' BY DEF TypeOK, Placed, LocksOK, PoolOK, OneDescriptor, Acquires,
      SpawnTry, Goto
<1>5. AheadOK' BY DEF TypeOK, Placed, AheadOK, SpawnTry, Goto
<1>6. OrphansOK' BY DEF TypeOK, Placed, OrphansOK, SpawnTry, Goto
<1>7. SleepersTold' BY DEF TypeOK, Placed, Places, ReaderPlaces, WriterPlaces,
      OrphansOK, SleepersTold, Waiting, SpawnTry, Goto
<1> QED BY <1>1, <1>2, <1>3, <1>4, <1>5, <1>6, <1>7

LEMMA TryDeleteInv ==
  ASSUME Inv, NEW w \in Writers, TryDelete(w)
  PROVE  Inv'
<1> USE Kinds DEF Inv
<1>1. TypeOK' BY DEF TypeOK, Placed, Places, ReaderPlaces, WriterPlaces, TryDelete,
      Goto, Over, CanExclude
<1>2. LocksOK' BY DEF TypeOK, Placed, LocksOK, TryDelete, Goto, Over,
      CanExclude
<1>3. OneDescriptor' BY DEF TypeOK, Placed, LocksOK, OneDescriptor, Acquires,
      TryDelete, Goto, Over, CanExclude
<1>4. PoolOK' BY DEF TypeOK, Placed, LocksOK, PoolOK, OneDescriptor, Acquires,
      TryDelete, Goto, Over, CanExclude
<1>5. AheadOK' BY DEF TypeOK, Placed, AheadOK, TryDelete, Goto, Over,
      CanExclude
<1>6. OrphansOK' BY DEF TypeOK, Placed, OrphansOK, TryDelete, Goto, Over,
      CanExclude
<1>7. SleepersTold' BY DEF TypeOK, Placed, Places, ReaderPlaces, WriterPlaces,
      OrphansOK, SleepersTold, Waiting, TryDelete, Goto, Over, CanExclude
<1> QED BY <1>1, <1>2, <1>3, <1>4, <1>5, <1>6, <1>7

LEMMA DropWriterInv ==
  ASSUME Inv, NEW w \in Writers, DropWriter(w)
  PROVE  Inv'
<1> USE Kinds DEF Inv
<1>1. TypeOK' BY DEF TypeOK, Placed, Places, ReaderPlaces, WriterPlaces, DropWriter,
      Goto
<1>2. LocksOK' BY DEF TypeOK, Placed, LocksOK, DropWriter, Goto
<1>3. OneDescriptor' BY DEF TypeOK, Placed, LocksOK, OneDescriptor, Acquires,
      DropWriter, Goto
<1>4. PoolOK' BY DEF TypeOK, Placed, LocksOK, PoolOK, OneDescriptor, Acquires,
      DropWriter, Goto
<1>5. AheadOK' BY DEF TypeOK, Placed, AheadOK, DropWriter, Goto
<1>6. OrphansOK' BY DEF TypeOK, Placed, OrphansOK, DropWriter, Goto
<1>7. SleepersTold' BY DEF TypeOK, Placed, Places, ReaderPlaces, WriterPlaces,
      OrphansOK, SleepersTold, Waiting, DropWriter, Goto
<1> QED BY <1>1, <1>2, <1>3, <1>4, <1>5, <1>6, <1>7

LEMMA CloseExclusiveInv ==
  ASSUME Inv, NEW w \in Writers, CloseExclusive(w)
  PROVE  Inv'
<1> USE Kinds DEF Inv
<1>1. TypeOK' BY DEF TypeOK, Placed, Places, ReaderPlaces, WriterPlaces,
      CloseExclusive, Goto, Settle, Over
<1>2. LocksOK' BY DEF TypeOK, Placed, LocksOK, CloseExclusive, Goto, Settle,
      Over
<1>3. OneDescriptor' BY DEF TypeOK, Placed, LocksOK, OneDescriptor, Acquires,
      CloseExclusive, Goto, Settle, Over
<1>4. PoolOK' BY DEF TypeOK, Placed, LocksOK, PoolOK, OneDescriptor, Acquires,
      CloseExclusive, Goto, Settle, Over
<1>5. AheadOK' BY DEF TypeOK, Placed, AheadOK, CloseExclusive, Goto, Settle,
      Over
<1>6. OrphansOK' BY DEF TypeOK, Placed, OrphansOK, CloseExclusive, Goto,
      Settle, Over
<1>7. SleepersTold' BY DEF TypeOK, Placed, Places, ReaderPlaces, WriterPlaces,
      OrphansOK, SleepersTold, Waiting, CloseExclusive, Goto, Settle, Over
<1> QED BY <1>1, <1>2, <1>3, <1>4, <1>5, <1>6, <1>7

LEMMA AwaitReleaseInv ==
  ASSUME Inv, NEW c \in Callers, AwaitRelease(c)
  PROVE  Inv'
<1> USE Kinds DEF Inv
<1>1. TypeOK' BY DEF TypeOK, Placed, Places, ReaderPlaces, WriterPlaces,
      AwaitRelease, Goto
<1>2. LocksOK' BY DEF TypeOK, Placed, LocksOK, AwaitRelease, Goto
<1>3. OneDescriptor' BY DEF TypeOK, Placed, LocksOK, OneDescriptor, Acquires,
      AwaitRelease, Goto
<1>4. PoolOK' BY DEF TypeOK, Placed, LocksOK, PoolOK, OneDescriptor, Acquires,
      AwaitRelease, Goto
<1>5. AheadOK' BY DEF TypeOK, Placed, AheadOK, AwaitRelease, Goto
<1>6. OrphansOK' BY DEF TypeOK, Placed, OrphansOK, AwaitRelease, Goto
<1>7. SleepersTold' BY DEF TypeOK, Placed, Places, ReaderPlaces, WriterPlaces,
      OrphansOK, SleepersTold, Waiting, AwaitRelease, Goto
<1> QED BY <1>1, <1>2, <1>3, <1>4, <1>5, <1>6, <1>7

LEMMA TimerInv ==
  ASSUME Inv, NEW c \in Callers, Timer(c)
  PROVE  Inv'
<1> USE Kinds DEF Inv
<1>1. TypeOK' BY DEF TypeOK, Placed, Places, ReaderPlaces, WriterPlaces, Timer, Goto
<1>2. LocksOK' BY DEF TypeOK, Placed, LocksOK, Timer, Goto
<1>3. OneDescriptor' BY DEF TypeOK, Placed, LocksOK, OneDescriptor, Acquires,
      Timer, Goto
<1>4. PoolOK' BY DEF TypeOK, Placed, LocksOK, PoolOK, OneDescriptor, Acquires,
      Timer, Goto
<1>5. AheadOK' BY DEF TypeOK, Placed, AheadOK, Timer, Goto
<1>6. OrphansOK' BY DEF TypeOK, Placed, OrphansOK, Timer, Goto
<1>7. SleepersTold' BY DEF TypeOK, Placed, Places, ReaderPlaces, WriterPlaces,
      OrphansOK, SleepersTold, Waiting, Timer, Goto
<1> QED BY <1>1, <1>2, <1>3, <1>4, <1>5, <1>6, <1>7

LEMMA StutterInv ==
  ASSUME Inv, UNCHANGED vars
  PROVE  Inv'
<1> USE DEF vars
<1>1. TypeOK' BY DEF Inv, TypeOK, Placed
<1>2. LocksOK' BY DEF Inv, LocksOK
<1>3. PoolOK' BY DEF Inv, PoolOK
<1>4. OneDescriptor' BY DescriptorSame DEF Inv
<1>5. AheadOK' BY DEF Inv, AheadOK
<1>6. OrphansOK' BY DEF Inv, OrphansOK
<1>7. SleepersTold' BY DEF Inv, SleepersTold, Waiting
<1> QED BY Zenon, <1>1, <1>2, <1>3, <1>4, <1>5, <1>6, <1>7 DEF Inv

LEMMA NextInv ==
  ASSUME Inv, [Next]_vars
  PROVE  Inv'
<1>1. ASSUME NEW r \in Readers, ReaderStep(r) PROVE Inv'
  BY <1>1, ReuseInv, EnterGateInv, AdmitInv, LockSharedInv, PublishInv, AbandonInv,
     WaitInv, AwaitChangeInv, DropReaderInv, CloseSharedInv, AnnounceInv,
     AwaitReleaseInv DEF ReaderStep, Callers
<1>2. ASSUME NEW w \in Writers, WriterStep(w) PROVE Inv'
  BY <1>2, LockExclusiveInv, EnterWriterGateInv, SpawnTryInv, TryExclusiveInv,
     RegisterDeleterInv, DropWriterInv, CloseExclusiveInv, EndInterestInv,
     AwaitReleaseInv DEF WriterStep, Callers
<1>3. ASSUME NEW r \in Readers,
     Begin(r) \/ LockSharedFails(r) \/ CancelReader(r) PROVE Inv'
  BY <1>3, BeginInv, LockSharedFailsInv, CancelReaderInv
<1>4. ASSUME NEW w \in Writers,
             Register(w) \/ TryDelete(w) \/ LockExclusiveFails(w) \/ CancelWriter(w)
      PROVE  Inv'
  BY <1>4, RegisterInv, TryDeleteInv, LockExclusiveFailsInv, CancelWriterInv
<1>5. ASSUME NEW c \in AsyncReaders \cup AsyncWriters, Timer(c) PROVE Inv'
  BY <1>5, TimerInv DEF Callers, Readers, Writers
<1>6. CASE UNCHANGED vars BY <1>6, StutterInv
<1> QED BY <1>1, <1>2, <1>3, <1>4, <1>5, <1>6, DieInv DEF Next

(* The invariant holds, and with it the type invariant. *)
THEOREM LeaseInvariant == Spec => []Inv
<1>1. Init => Inv BY InitInv
<1>2. Inv /\ [Next]_vars => Inv' BY NextInv
<1> QED BY <1>1, <1>2, PTL DEF Spec

(* Callers of every kind, in any number of processes, that fail, are       *)
(* cancelled or die: an exclusive lease (exclusive, exclusive_async or     *)
(* try_exclusive) never coexists with another lease of the entry.          *)
THEOREM ExclusionHolds == Spec => []Exclusion
<1>1. Inv => Exclusion
  BY LeaseAssumption DEF Inv, TypeOK, LocksOK, Exclusion, Holding, Callers, Readers,
     Writers
<1> QED BY <1>1, LeaseInvariant, PTL

(* SharedLeaseEntry::admit hands out one reservation at a time, and only   *)
(* while no lease of the process refers to an open file.                   *)
THEOREM DescriptorHolds == Spec => []OneDescriptor
<1>1. Inv => OneDescriptor BY DEF Inv
<1> QED BY <1>1, LeaseInvariant, PTL

(* A reader gets no lease before every writer of its process that was      *)
(* registered when it asked has left: SharedLeaseWriter.                   *)
THEOREM WriterFirstHolds == Spec => []WriterFirst
<1>1. Inv => WriterFirst BY DEF Inv, LocksOK, AheadOK, WriterFirst
<1> QED BY <1>1, LeaseInvariant, PTL

(* No reader sleeps, in a thread or in a task, once what it waits for is   *)
(* over: notify_waiters is called wherever admission may have changed.     *)
THEOREM WakeupsHold == Spec => []SleepersTold
<1>1. Inv => SleepersTold BY DEF Inv
<1> QED BY <1>1, LeaseInvariant, PTL

=============================================================================
