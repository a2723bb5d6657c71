----------------------------- MODULE StorageLease -----------------------------
(***************************************************************************)
(* Leases on one storage entry (crates/image/lib/storage_lease.rs).        *)
(* Processes share the entry through the OS lock of its sidecar file;      *)
(* within a process the readers share one locked descriptor, found through *)
(* the pool's SharedLeaseEntry, and writers register their interest there  *)
(* so that no reader is admitted past them.                                *)
(*                                                                         *)
(* Readers call shared (which blocks its thread) or shared_async, writers  *)
(* exclusive, exclusive_async, or, to delete, try_exclusive.  A future may *)
(* be dropped at any await, while the worker it spawned runs on; a process *)
(* may die; opening or locking the sidecar may fail.                       *)
(***************************************************************************)
EXTENDS Naturals, Sequences

CONSTANTS
  SyncReaders, AsyncReaders,               \* callers of shared, shared_async
  SyncWriters, AsyncWriters, Deleters,     \* of exclusive, exclusive_async, try_exclusive
  Procs,      \* the processes
  ProcOf,     \* the process of each caller
  Again,      \* callers that come back once they are done
  MayFail, MayCancel, MayDie,
  None

Readers == SyncReaders \cup AsyncReaders
Writers == SyncWriters \cup AsyncWriters \cup Deleters
Callers == Readers \cup Writers

ASSUME LeaseAssumption ==
  /\ SyncReaders \cap AsyncReaders = {} /\ Readers \cap Writers = {}
  /\ SyncWriters \cap AsyncWriters = {}
  /\ (SyncWriters \cup AsyncWriters) \cap Deleters = {}
  /\ ProcOf \in [Callers -> Procs] /\ Again \subseteq Callers
  /\ {MayFail, MayCancel, MayDie} \subseteq BOOLEAN
  /\ None \notin Callers

VARIABLES
  pc,        \* where each caller is
  lease,     \* SharedLeaseState of each process's entry
  refs,      \* readers that own a reference to their process's pooled file
  interest,  \* live SharedLeaseWriters: writers_waiting of a process counts its own
  sh,        \* readers that alone own a file with the shared OS lock
  ex,        \* the writer whose file has the exclusive OS lock
  gate,      \* the async gates: holder first, then those waiting
  gen, rel,  \* callers with an unseen change of generation, of released
  orphan,    \* callers whose future was dropped while its worker runs
  ahead      \* history: the local writers registered when a reader began

vars == <<pc, lease, refs, interest, sh, ex, gate, gen, rel, orphan, ahead>>

Local(p) == {c \in Callers : ProcOf[c] = p}
Waiting(p) == \E w \in interest : ProcOf[w] = p

\* Mutant: the pool keeps the file of readers long gone for valid.
AliveForEver(p) == lease[p] = "held"

(* The weak reference of a Held lease can be upgraded. *)
Alive(p) == lease[p] = "held" /\ \E r \in refs : ProcOf[r] = p

(* flock: what other files have locked decides. *)
CanShare == ex = None
CanExclude == ex = None /\ sh = {} /\ refs = {}

Over(c) == IF c \in Again THEN "idle" ELSE "done"

(* A worker hands its outcome to its future, or to nobody. *)
Deliver(c, next) == IF c \in orphan THEN Over(c) ELSE next

Without(q, c) == SelectSeq(q, LAMBDA d : d # c)

Enter(c) ==
  IF c \in Readers THEN [gate EXCEPT ![ProcOf[c]].readers = Append(@, c)]
  ELSE [gate EXCEPT ![ProcOf[c]].writers = Append(@, c)]
Leave(c) == [gate EXCEPT ![ProcOf[c]] =
               [readers |-> Without(@.readers, c), writers |-> Without(@.writers, c)]]

Goto(c, where) == pc' = [pc EXCEPT ![c] = where]

(* A caller is subscribed from the time it has passed its gate. *)
Subscribed(c) == c \in AsyncReaders \cup AsyncWriters /\ c \notin orphan
  /\ pc[c] \in {"loop", "admit", "lock", "publish", "abandon", "changed", "retry", "try"}

(* released.send_modify *)
Released(p) == rel \cup {c \in Local(p) : Subscribed(c)}

(* notify_waiters, by a caller on its way: wakes the threads asleep on the *)
(* condition variable and changes the generation.                          *)
GotoNotify(c, where) ==
  LET near == Local(ProcOf[c]) IN
  /\ pc' = [d \in Callers |-> IF d = c THEN where
              ELSE IF d \in near /\ pc[d] = "asleep" THEN "wait" ELSE pc[d]]
  /\ gen' = {d \in gen \cup {d \in near \cap Readers : Subscribed(d)} :
               d # c \/ where = "retry"}

(* The worker of a dropped future has nothing more to do. *)
Settle(c) == orphan' = IF pc'[c] \in {"idle", "done"} THEN orphan \ {c} ELSE orphan

(* The future returns, or is dropped: so are its gate and its receivers. *)
Unsubscribe(c) == gate' = Leave(c) /\ gen' = gen \ {c} /\ rel' = rel \ {c}

Init ==
  /\ pc = [c \in Callers |-> "idle"] /\ lease = [p \in Procs |-> "vacant"]
  /\ refs = {} /\ interest = {} /\ sh = {} /\ ex = None
  /\ gate = [p \in Procs |-> [readers |-> <<>>, writers |-> <<>>]]
  /\ gen = {} /\ rel = {} /\ orphan = {} /\ ahead = [r \in Readers |-> {}]

-----------------------------------------------------------------------------
(* Readers. *)

(* shared goes straight to admit; shared_async first tries a warm file. *)
Begin(r) ==
  /\ pc[r] = "idle"
  /\ Goto(r, IF r \in SyncReaders THEN "admit" ELSE "reuse")
  /\ ahead' = [ahead EXCEPT ![r] = {w \in interest : ProcOf[w] = ProcOf[r]}]
  /\ UNCHANGED <<lease, refs, interest, sh, ex, gate, gen, rel, orphan>>

(* SharedLeaseEntry::reuse, before the gate and then on every turn of the  *)
(* retry loop, which first marks the releases so far as seen.              *)
Reuse(r) ==
  /\ pc[r] \in {"reuse", "loop"}
  /\ IF ~ Waiting(ProcOf[r]) /\ Alive(ProcOf[r])
     THEN /\ refs' = refs \cup {r} /\ Goto(r, "holding")
          /\ gate' = Leave(r) /\ gen' = gen \ {r}
     ELSE /\ UNCHANGED <<refs, gen>>
          /\ IF pc[r] = "loop" THEN Goto(r, "admit") /\ UNCHANGED gate
             ELSE /\ Goto(r, "gate")
                  /\ gate' = Enter(r)
  /\ rel' = rel \ {r}
  /\ UNCHANGED <<lease, interest, sh, ex, orphan, ahead>>

(* The gate is first come, first served; its holder subscribes. *)
EnterGate(r) ==
  /\ pc[r] = "gate" /\ Head(gate[ProcOf[r]].readers) = r
  /\ Goto(r, "loop") /\ gen' = gen \ {r} /\ rel' = rel \ {r}
  /\ UNCHANGED <<lease, refs, interest, sh, ex, gate, orphan, ahead>>

\* Mutant: a registered writer does not hold back readers of a warm file.
AdmitPastWriter(r) ==
  /\ pc[r] = "admit"
  /\ LET p == ProcOf[r] IN
       \/ /\ Alive(p)
          /\ Goto(r, "holding") /\ refs' = refs \cup {r} /\ Unsubscribe(r)
          /\ UNCHANGED lease
       \/ /\ ~ Alive(p) /\ (Waiting(p) \/ lease[p] = "acquiring")
          /\ Goto(r, IF r \in SyncReaders THEN "wait" ELSE Deliver(r, "changed"))
          /\ UNCHANGED <<lease, refs, gate, gen, rel>>
       \/ /\ ~ Waiting(p) /\ ~ Alive(p) /\ lease[p] # "acquiring"
          /\ lease' = [lease EXCEPT ![p] = "acquiring"] /\ Goto(r, "lock")
          /\ UNCHANGED <<refs, gate, gen, rel>>
  /\ Settle(r) /\ UNCHANGED <<interest, sh, ex, ahead>>

\* Mutant: a second reader may reserve the slot while one is acquiring it.
AdmitTwice(r) ==
  /\ pc[r] = "admit"
  /\ LET p == ProcOf[r] IN
       \/ /\ Waiting(p)
          /\ Goto(r, IF r \in SyncReaders THEN "wait" ELSE Deliver(r, "changed"))
          /\ UNCHANGED <<lease, refs, gate, gen, rel>>
       \/ /\ ~ Waiting(p) /\ Alive(p)
          /\ Goto(r, "holding") /\ refs' = refs \cup {r} /\ Unsubscribe(r)
          /\ UNCHANGED lease
       \/ /\ ~ Waiting(p) /\ ~ Alive(p)
          /\ lease' = [lease EXCEPT ![p] = "acquiring"] /\ Goto(r, "lock")
          /\ UNCHANGED <<refs, gate, gen, rel>>
  /\ Settle(r) /\ UNCHANGED <<interest, sh, ex, ahead>>

(* SharedLeaseEntry::admit: wait, reuse the file, or reserve the slot. *)
Admit(r) ==
  /\ pc[r] = "admit"
  /\ LET p == ProcOf[r] IN
       \/ /\ Waiting(p) \/ (~ Alive(p) /\ lease[p] = "acquiring")
          /\ Goto(r, IF r \in SyncReaders THEN "wait" ELSE Deliver(r, "changed"))
          /\ UNCHANGED <<lease, refs, gate, gen, rel>>
       \/ /\ ~ Waiting(p) /\ Alive(p)
          /\ Goto(r, "holding") /\ refs' = refs \cup {r} /\ Unsubscribe(r)
          /\ UNCHANGED lease
       \/ /\ ~ Waiting(p) /\ ~ Alive(p) /\ lease[p] # "acquiring"
          /\ lease' = [lease EXCEPT ![p] = "acquiring"] /\ Goto(r, "lock")
          /\ UNCHANGED <<refs, gate, gen, rel>>
  /\ Settle(r) /\ UNCHANGED <<interest, sh, ex, ahead>>

(* shared blocks in the OS lock; shared_async's worker tries it once. *)
LockShared(r) ==
  /\ pc[r] = "lock"
  /\ \/ CanShare /\ sh' = sh \cup {r} /\ Goto(r, "publish")
     \/ ~ CanShare /\ r \in AsyncReaders /\ Goto(r, "abandon") /\ UNCHANGED sh
  /\ UNCHANGED <<lease, refs, interest, ex, gate, gen, rel, orphan, ahead>>

LockSharedFails(r) ==
  /\ MayFail /\ pc[r] = "lock" /\ Goto(r, "failing")
  /\ UNCHANGED <<lease, refs, interest, sh, ex, gate, gen, rel, orphan, ahead>>

(* SharedLeaseAcquisition::publish, and the lease is returned. *)
Publish(r) ==
  /\ pc[r] = "publish"
  /\ lease' = [lease EXCEPT ![ProcOf[r]] = "held"]
  /\ refs' = refs \cup {r} /\ sh' = sh \ {r}
  /\ GotoNotify(r, "holding") /\ gate' = Leave(r) /\ rel' = rel \ {r}
  /\ UNCHANGED <<interest, ex, orphan, ahead>>

\* Mutant: the slot is returned without telling those who wait for it.
AbandonQuietly(r) ==
  /\ pc[r] \in {"abandon", "failing"}
  /\ lease' = [lease EXCEPT ![ProcOf[r]] = "vacant"]
  /\ Goto(r, IF pc[r] = "failing" THEN Over(r) ELSE Deliver(r, "retry"))
  /\ IF pc[r] = "failing" THEN gate' = Leave(r) /\ rel' = rel \ {r} ELSE UNCHANGED <<gate, rel>>
  /\ Settle(r) /\ UNCHANGED <<refs, interest, sh, ex, gen, ahead>>

(* SharedLeaseAcquisition::drop: abandon_acquisition returns the slot. *)
Abandon(r) ==
  /\ pc[r] \in {"abandon", "failing"}
  /\ lease' = [lease EXCEPT ![ProcOf[r]] = "vacant"]
  /\ GotoNotify(r, IF pc[r] = "failing" THEN Over(r) ELSE Deliver(r, "retry"))
  /\ IF pc[r] = "failing" THEN gate' = Leave(r) /\ rel' = rel \ {r} ELSE UNCHANGED <<gate, rel>>
  /\ Settle(r) /\ UNCHANGED <<refs, interest, sh, ex, ahead>>

(* shared on Wait: under the mutex, sleep or go on. *)
Wait(r) ==
  /\ pc[r] = "wait"
  /\ Goto(r, IF Waiting(ProcOf[r]) \/ lease[ProcOf[r]] = "acquiring"
             THEN "asleep" ELSE "admit")
  /\ UNCHANGED <<lease, refs, interest, sh, ex, gate, gen, rel, orphan, ahead>>

(* shared_async on Wait: generation.changed(). *)
AwaitChange(r) ==
  /\ pc[r] = "changed" /\ r \in gen
  /\ Goto(r, "loop") /\ gen' = gen \ {r}
  /\ UNCHANGED <<lease, refs, interest, sh, ex, gate, rel, orphan, ahead>>

(* The last reference to go closes the file. *)
DropReader(r) ==
  /\ pc[r] = "holding" /\ r \in Readers
  /\ refs' = refs \ {r}
  /\ IF \A s \in refs : ProcOf[s] = ProcOf[r] => s = r
     THEN sh' = sh \cup {r} /\ Goto(r, "close")
     ELSE UNCHANGED sh /\ Goto(r, Over(r))
  /\ Settle(r) /\ UNCHANGED <<lease, interest, ex, gate, gen, rel, ahead>>

(* LeaseFile::drop: close, and only then announce it. *)
CloseShared(r) ==
  /\ pc[r] = "close" /\ r \in Readers
  /\ sh' = sh \ {r} /\ Goto(r, "announce")
  /\ UNCHANGED <<lease, refs, interest, ex, gate, gen, rel, orphan, ahead>>

\* Mutant: the release of the file is not announced.
AnnounceNothing(r) ==
  /\ pc[r] = "announce" /\ Goto(r, Over(r))
  /\ Settle(r) /\ UNCHANGED <<lease, refs, interest, sh, ex, gate, gen, rel, ahead>>

Announce(r) ==
  /\ pc[r] = "announce"
  /\ Goto(r, Over(r)) /\ rel' = Released(ProcOf[r])
  /\ Settle(r) /\ UNCHANGED <<lease, refs, interest, sh, ex, gate, gen, ahead>>

-----------------------------------------------------------------------------
(* Writers. *)

(* SharedLeaseWriter::new, before a writer waits for the lock. *)
Register(w) ==
  /\ pc[w] = "idle" /\ w \notin Deleters
  /\ interest' = interest \cup {w}
  /\ GotoNotify(w, IF w \in SyncWriters THEN "lock" ELSE "gate")
  /\ gate' = IF w \in SyncWriters THEN gate
             ELSE Enter(w)
  /\ UNCHANGED <<lease, refs, sh, ex, rel, orphan, ahead>>

(* SharedLeaseWriter::drop *)
Unregister(w) ==
  /\ interest' = interest \ {w} /\ rel' = Released(ProcOf[w]) \ {w}
  /\ ahead' = [r \in Readers |-> ahead[r] \ {w}]

(* exclusive blocks in the OS lock. *)
LockExclusive(w) ==
  /\ pc[w] = "lock" /\ CanExclude
  /\ ex' = w /\ Goto(w, "holding")
  /\ UNCHANGED <<lease, refs, interest, sh, gate, gen, rel, orphan, ahead>>

LockExclusiveFails(w) ==
  /\ MayFail /\ pc[w] \in {"lock", "try"} /\ w \notin Deleters \cup orphan
  /\ Unregister(w) /\ GotoNotify(w, Over(w)) /\ gate' = Leave(w)
  /\ UNCHANGED <<lease, refs, sh, ex, orphan>>

(* exclusive_async: one at a time retries, each time after marking the     *)
(* releases so far as seen.                                                *)
EnterWriterGate(w) ==
  /\ pc[w] = "gate" /\ Head(gate[ProcOf[w]].writers) = w
  /\ Goto(w, "loop") /\ rel' = rel \ {w}
  /\ UNCHANGED <<lease, refs, interest, sh, ex, gate, gen, orphan, ahead>>

SpawnTry(w) ==
  /\ pc[w] = "loop" /\ Goto(w, "try") /\ rel' = rel \ {w}
  /\ UNCHANGED <<lease, refs, interest, sh, ex, gate, gen, orphan, ahead>>

(* try_exclusive_keyed.  A lock that nobody waits for any more is closed.  *)
TryExclusive(w) ==
  /\ pc[w] = "try"
  /\ IF CanExclude
     THEN ex' = w /\ Goto(w, IF w \in orphan THEN "close" ELSE "holding") /\ Unsubscribe(w)
     ELSE UNCHANGED <<ex, gate, gen, rel>> /\ Goto(w, Deliver(w, "retry"))
  /\ Settle(w) /\ UNCHANGED <<lease, refs, interest, sh, ahead>>

(* try_exclusive: a deleter registers only once it has the lock. *)
TryDelete(w) ==
  /\ pc[w] = "idle" /\ w \in Deleters
  /\ IF CanExclude THEN ex' = w /\ Goto(w, "register")
     ELSE UNCHANGED ex /\ Goto(w, Over(w))
  /\ UNCHANGED <<lease, refs, interest, sh, gate, gen, rel, orphan, ahead>>

RegisterDeleter(w) ==
  /\ pc[w] = "register"
  /\ interest' = interest \cup {w} /\ GotoNotify(w, "holding")
  /\ UNCHANGED <<lease, refs, sh, ex, gate, rel, orphan, ahead>>

(* StorageLease's fields drop in order: the file first. *)
DropWriter(w) ==
  /\ pc[w] = "holding" /\ w \in Writers
  /\ ex' = None /\ Goto(w, "unregister")
  /\ UNCHANGED <<lease, refs, interest, sh, gate, gen, rel, orphan, ahead>>

(* The file of an orphaned attempt has nobody to announce its release. *)
CloseExclusive(w) ==
  /\ pc[w] = "close" /\ w \in Writers
  /\ ex' = None /\ Goto(w, Over(w))
  /\ Settle(w) /\ UNCHANGED <<lease, refs, interest, sh, gate, gen, rel, ahead>>

EndInterest(w) ==
  /\ pc[w] = "unregister"
  /\ Unregister(w) /\ GotoNotify(w, Over(w))
  /\ UNCHANGED <<lease, refs, sh, ex, gate, orphan>>

-----------------------------------------------------------------------------
(* Both retry loops wait for a local release, or for a timer. *)
AwaitRelease(c) ==
  /\ pc[c] = "retry" /\ c \in rel
  /\ Goto(c, "loop") /\ rel' = rel \ {c}
  /\ UNCHANGED <<lease, refs, interest, sh, ex, gate, gen, orphan, ahead>>

Timer(c) ==
  /\ pc[c] = "retry" /\ Goto(c, "loop")
  /\ UNCHANGED <<lease, refs, interest, sh, ex, gate, gen, rel, orphan, ahead>>

(* The future is dropped at an await.  Its worker, if any, finishes. *)
InWorker(c) == IF c \in AsyncReaders THEN pc[c] \in {"admit", "lock", "publish", "abandon", "failing"}
               ELSE pc[c] = "try"
CancelReader(r) ==
  /\ MayCancel /\ r \in AsyncReaders \ orphan
  /\ InWorker(r) \/ pc[r] \in {"gate", "changed", "retry"}
  /\ Unsubscribe(r)
  /\ IF InWorker(r) THEN orphan' = orphan \cup {r} /\ UNCHANGED pc
     ELSE Goto(r, Over(r)) /\ UNCHANGED orphan
  /\ UNCHANGED <<lease, refs, interest, sh, ex, ahead>>

CancelWriter(w) ==
  /\ MayCancel /\ w \in AsyncWriters \ orphan
  /\ InWorker(w) \/ pc[w] \in {"gate", "retry"}
  /\ gate' = Leave(w) /\ Unregister(w)
  /\ IF InWorker(w) THEN orphan' = orphan \cup {w} /\ GotoNotify(w, pc[w])
     ELSE GotoNotify(w, Over(w)) /\ UNCHANGED orphan
  /\ UNCHANGED <<lease, refs, sh, ex>>

(* A process dies: its files close, and nobody hears of it. *)
Die(p) ==
  /\ MayDie /\ \E c \in Local(p) : pc[c] \notin {"idle", "done"}
  /\ pc' = [c \in Callers |-> IF ProcOf[c] = p THEN Over(c) ELSE pc[c]]
  /\ lease' = [lease EXCEPT ![p] = "vacant"]
  /\ gate' = [gate EXCEPT ![p] = [readers |-> <<>>, writers |-> <<>>]]
  /\ refs' = refs \ Local(p) /\ interest' = interest \ Local(p) /\ sh' = sh \ Local(p)
  /\ ex' = IF ex \in Local(p) THEN None ELSE ex
  /\ gen' = gen \ Local(p) /\ rel' = rel \ Local(p) /\ orphan' = orphan \ Local(p)
  /\ ahead' = [r \in Readers |-> ahead[r] \ Local(p)]

ReaderStep(r) ==
  \/ Reuse(r) \/ EnterGate(r) \/ Admit(r) \/ LockShared(r) \/ Publish(r) \/ Abandon(r)
  \/ Wait(r) \/ AwaitChange(r) \/ DropReader(r) \/ CloseShared(r) \/ Announce(r)
  \/ AwaitRelease(r)

WriterStep(w) ==
  \/ LockExclusive(w) \/ EnterWriterGate(w) \/ SpawnTry(w) \/ TryExclusive(w)
  \/ RegisterDeleter(w) \/ DropWriter(w) \/ CloseExclusive(w) \/ EndInterest(w)
  \/ AwaitRelease(w)

Next ==
  \/ \E r \in Readers : \/ ReaderStep(r) \/ Begin(r)
                        \/ LockSharedFails(r) \/ CancelReader(r)
  \/ \E w \in Writers : \/ WriterStep(w) \/ Register(w) \/ TryDelete(w)
                        \/ LockExclusiveFails(w) \/ CancelWriter(w)
  \/ \E c \in AsyncReaders \cup AsyncWriters : Timer(c)
  \/ \E p \in Procs : Die(p)

Spec == Init /\ [][Next]_vars

(* Threads and tasks run, and whoever holds a lease drops it some day.     *)
(* Nothing is assumed of the timers.                                       *)
Fairness == /\ \A r \in Readers : WF_vars(ReaderStep(r))
            /\ \A w \in Writers : WF_vars(WriterStep(w))

FairSpec == Spec /\ Fairness

-----------------------------------------------------------------------------
(* Where a caller of each kind can be. *)
ReaderPlaces == {"idle", "done", "admit", "lock", "publish", "failing",
                 "holding", "close", "announce"}
WriterPlaces == {"idle", "done", "holding", "unregister"}
Places == ReaderPlaces \cup WriterPlaces \cup
  {"wait", "asleep", "reuse", "gate", "loop", "abandon", "changed", "retry", "try", "register"}
Placed ==
  /\ pc \in [Callers -> Places]
  /\ \A c \in SyncReaders : pc[c] \in ReaderPlaces \cup {"wait", "asleep"}
  /\ \A c \in AsyncReaders : pc[c] \in ReaderPlaces \cup
       {"reuse", "gate", "loop", "abandon", "changed", "retry"}
  /\ \A c \in SyncWriters : pc[c] \in WriterPlaces \cup {"lock"}
  /\ \A c \in AsyncWriters : pc[c] \in WriterPlaces \cup {"gate", "loop", "try", "retry", "close"}
  /\ \A c \in Deleters : pc[c] \in WriterPlaces \cup {"register"}

(* Type invariant.  A blocking reader never retries, a writer never sleeps. *)
TypeOK ==
  /\ Placed
  /\ lease \in [Procs -> {"vacant", "acquiring", "held"}]
  /\ refs \subseteq Readers /\ sh \subseteq Readers /\ interest \subseteq Writers
  /\ ex \in Writers \cup {None}
  /\ gen \subseteq Callers /\ rel \subseteq Callers /\ orphan \subseteq Callers
  /\ ahead \in [Readers -> SUBSET Writers]

Holding(c) == pc[c] = "holding"

(* An exclusive lease excludes every other lease, in every process. *)
Exclusion ==
  \A w \in Writers : Holding(w) =>
    \A c \in Callers \ {w} : ~ Holding(c)

Acquires(r) == pc[r] \in {"lock", "publish", "abandon", "failing"}

(* The readers of a process share one descriptor: while one of them        *)
(* acquires it no other does, no lease refers to another, and the slot is  *)
(* reserved; and it is reserved for nobody else.                           *)
OneDescriptor ==
  /\ \A r, s \in Readers :
       Acquires(r) /\ ProcOf[r] = ProcOf[s] => (Acquires(s) => r = s) /\ s \notin refs
  /\ \A r \in Readers : Acquires(r) => lease[ProcOf[r]] = "acquiring"
  /\ \A p \in Procs :
       lease[p] = "acquiring" => \E r \in Readers : Acquires(r) /\ ProcOf[r] = p

(* A reader is not admitted past a writer of its process that registered   *)
(* before it asked.                                                        *)
WriterFirst == \A r \in Readers : r \in refs => ahead[r] = {}

(* Wakeups are not lost.  A reader sleeps, on the condition variable or    *)
(* for a change of the generation, only while a writer is registered or    *)
(* another reader acquires the file.                                       *)
SleepersTold ==
  \A r \in Readers :
    pc[r] = "asleep" \/ (pc[r] = "changed" /\ r \notin gen) =>
      Waiting(ProcOf[r]) \/ lease[ProcOf[r]] = "acquiring"

(* Readers of its process that come back for ever do not starve a writer,  *)
(* and no release is missed: it gets its lease without the help of a timer *)
(* (while nobody is cancelled and the process has the entry for itself).   *)
WriterServed ==
  \A w \in SyncWriters \cup AsyncWriters : pc[w] \in {"lock", "gate"} ~> Holding(w)
=============================================================================
