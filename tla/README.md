# microsandbox in TLA+

microsandbox runs a workload in a micro-VM.  A host process, the *runtime*
(`crates/runtime`), owns the VM and an *agent relay*; inside the VM `agentd`
(`crates/agentd`) runs processes, file operations and TCP streams.  SDK clients
(`sdk/rust`, `packages/agent-client`) connect to the relay over a socket.  Images
and disks are shared by the runtimes of a host and guarded by storage leases
(`crates/image`).

This directory models the parts of that system whose correctness depends on the
order in which independent tasks run: who may use an execution slot, who may send
how many bytes, which frame belongs to whom, who may open or delete a storage
entry, when the workload may be frozen and its input reopened.  TLC checks the models
on small instances; TLAPS proves the central properties for every instance.

## Inventory

| Part | State | Operations | What makes it hard | What must hold | Module |
| --- | --- | --- | --- | --- | --- |
| Execution tracker of the relay (`runner/relay/exec_admission.rs`) | reservations, per-execution counters, stdin queues, the round robin | admit, client and guest messages, enqueue, take, cancel, release | three kinds of task share it, a lock is dropped between charging bytes and queueing them | limits, no gap in stdin, nothing after a cancel, turns in the round robin | `ExecAdmission`, `ExecAdmissionTurns` |
| Execution I/O (SDK `exec/io.rs`, relay, agentd `agent.rs`, `session.rs`, `exec_output.rs`) | stdin window, acknowledgement counters at four parties, processes, slot leases | write, commit, close, output, acknowledge, kill, exit, clean-up | merged and delayed acknowledgements, partial writes, vanishing clients, reused IDs | no conforming peer is refused, EOF and exit come last, slots come back | `ExecFlow` |
| Cross-lane merger (`GuestFrameMerger`, `ring_reader_task` in `runner/relay.rs`) | per-operation held records, finish and terminal | register, push, drain, drop | two console ports are read in any relative order | an in-order stream that ends once | `GuestMerger`, `ClientStream` |
| Bulk file read (SDK `sandbox/fs.rs`, `protocol/bulk.rs`, relay, agentd `fs.rs`, `agent.rs`) | credit states, read task, bulk queue | open, accept, read, credit, finish, cancel, purge | two lanes, late credit, dropped streams, reused IDs | whole file or an error, windows, isolation of owners, termination | `BulkRead` |
| Storage leases (`image/lib/storage_lease.rs`) | pool slot, writer interest, OS lock, gates, watch channels | shared, shared_async, exclusive, exclusive_async, try_exclusive, drops | threads, tasks, cancelled futures with running workers, dying processes | exclusion, one descriptor, writers first, no lost wakeup | `StorageLease` |
| Freeze barrier (`runner/workload_control.rs`, `checkpoint/coordinator.rs`, the relay's writers and readers, `agentd/workload.rs`, `agent.rs`) | gates, fence, parked writers, the two input ledgers, pending requests, the guest's latch | gate, park, freeze, cut, pause, resume, thaw, restore | requests that time out and are answered later, two ports, wakeups, a guest that cannot freeze | an exact cut, input only while the workload runs, no attempt that hangs | `WorkloadBarrier` |
| Relay control writer, bulk scheduler, input-stall watchdog | conflict classes, deficits | select, write, yield | control must not wait behind bulk | order within a class, fairness | admission and the overtaking of data by control in `WorkloadBarrier`, FIFO channels in `ExecFlow` and `BulkRead`; the rest is not modelled |
| Checkpoint publication, control executor, jobs, writeback admission, metrics registry, SDK lifecycle | see `PROJECT.json` | | crash points, retries, shared memory | | not modelled |
| Image pulls and formats, network engine, virtual filesystems, database, codec, CLI, bindings | | | content or input and output, hardly any protocol | | not modelled |

`PROJECT.json` lists every part with its sources and status, the source lines of
every definition, and the hazards: what can go wrong, at which line, and the
properties that would notice.

## Modules

Each component module declares CONSTANTS for the limits of the code and for the
bounds of the instance; comments mark which is which.  `MC*.tla` only name the
model values of the instances.  Operators introduced by a comment `Mutant:`
are faulty variants of the operator below them.  No specification uses them: they
are what the properties have been tried against.

### ExecAdmission

The tracker is one locked table used by the reader task of every client, the
reader of the guest's output and the writer of the guest's input.  Every operation
holds the lock, so every operation is one action; where a task calls two
operations (charging stdin in `client_message`, then queueing it in
`enqueue_input`), there are two actions, with the bytes in `hand` in between.
`session`, `pending`, `ready` are the code's tables, `conn` follows
`client_reader_task` from its accept through its clean-up, `kicked` is the watch
channel that ends it.  Chunks of stdin are intervals of byte offsets: contents do
not matter to any decision, lengths and order do.  Peers are arbitrary: they may
send any length and any acknowledgement, so what holds here holds for a
misbehaving guest or client too.

`ExecAdmissionTurns` adds the history that the fairness of `take_input` is about and
nothing else: `passed` has the pair `<<x, y>>` when `y` was served since `x` last had its
turn (was offered to the transport, taken or not), `overtaken` who saw somebody served
twice meanwhile.

### ExecFlow

Conjoins each action of `ExecAdmission` with the frame that causes it, and adds
the SDK's stdin window, event mapper and acknowledgement sender, and agentd's
sessions.  FIFO channels with capacities join the parties; a bounded channel makes
its sender wait, as the sockets and rings do.  A client may vanish at any moment.
The relay then cancels its input, kills what it started, asks the guest to clean
the ID range up, and leases the range again only after the guest's answer; frames
carry the *incarnation* of the client they belong to, which the properties use and
the code mostly does not.  A process may read part of its input, close it, write
output while it has window, and exit; after a range clean-up its reader tasks live
on (`orphans`) and their events arrive late.  `Listed` is the order in which the relay's
hash map yields the executions it kills: a constant, of which only `ListedAssumption`
is known (each key once), and which the instance takes from the model checker.

### GuestMerger and ClientStream

`GuestMerger` is `GuestFrameMerger::push`, `push_raw`, `drain_flow`, `drop_flow`
and `drop_incarnation`, with the ownership filter of `ring_reader_task`: a bulk
record names its owner, a control frame belongs to whoever owns the slot when it
is read.  The guest may send anything.  A held record is an interval; the loop of
`drain_flow` is expressed by what it removes (the held records up to the first
byte none of them covers): held records do not overlap (`HeldApart`).  A record that
arrives is compared with three entries of the ordered map only, as in the code: the one at
its offset, its `Predecessor` and its `Successor`.
`ClientStream` is the promise to the client in one variable: acceptance, a growing
prefix, a finish at exactly its end, nothing after a cut but the terminal, one
terminal.  `InOrderStream` says that `GuestMerger` implements it, with `sent` as
the refinement mapping.  `sent` is what the client can tell: a second finish at the
same offset, or an acceptance read after a cut, is forwarded by the code and leaves it as
it is.

### BulkRead

Conjoins the merger's actions with the frames of one file read: the SDK's stream
and receive state, the relay's client reader, agentd's main loop, read task and
bulk scheduler.  Its channels are the socket both ways, the control stream to the
guest, the queue of task output, the bulk queue, and the two lanes back.  The
relay reads the lanes in any order.  Files have any size up to `MaxSize`, reads may
be short or fail, the client may drop the stream, give up before the acceptance,
or vanish; the next client of the slot uses the same correlation ID.

### StorageLease

One entry, its sidecar lock file and, per process, the pool's `SharedLeaseEntry`.
`sh` and `ex` are the holders of the OS lock outside the pool, `refs` the owners of
the pooled file.  A caller's place `pc` advances at every point where the code
releases the entry's mutex, calls the OS, or awaits.  The state change of `publish`,
`abandon_acquisition`, `SharedLeaseWriter::new` and `drop` and the notification
right after it are one action: nobody can observe the change and then go to sleep
on the old state, and a notification that comes later only wakes somebody for one
more look.  A future dropped while its `spawn_blocking` worker runs leaves an
*orphan*, which finishes its attempt and delivers it to nobody.  `gen` and `rel`
are the receivers that have an unseen change of the two watch channels.  A process
may die at any step.

### WorkloadBarrier

One attempt to freeze the workload, and the next, from the gate to the thaw.

| State | Code |
| --- | --- |
| `wc`, `private` | `WorkloadControl::state` and its mailbox of lifecycle frames |
| `woken` | who has an unseen notification of `changed` |
| `writer`, `queue`, `wire` | the two ring writers, what clients have queued, what has been pushed to the guest on each port |
| `co` | where the coordinator's thread is in `freeze_workload`, `pause_user`, `resume_user`, `thaw_workload`, and the reply it was handed |
| `guest` | agentd's main loop: its input ledger, the freeze that waits for its cut, the latch, the parked bulk writer, the frames not flushed yet |
| `toHost`, `bulkOut` | the guest's output on the primary port and on the bulk port |

A record counts as one unit of the bytes and of the frames which the code counts
separately under the same comparisons.  A writer registers with `changed` and parks
in one step (`WriterTop`): the code registers first, so nothing is missed in
between.  agentd handles frames in batches; a read may end after any frame, and what
a batch leaves to say is flushed at its end.  Every wait of the coordinator may time
out, every reply may come after that, the guest may have no freezer, a cgroup write
or the heartbeat may fail.  `Restore` replaces the host by a new one over the
captured guest, as a child of a checkpoint is: new writers, new queues, the captured
ledgers, and a thaw before the relay runs.  `dead` is the end of an attempt whose
thaw was not confirmed: the input stays fenced.

## Runs

Every property of a passing run is violated once the operator named in
`PROJECT.json` under "mutants" is replaced by its faulty variant.

| Run | Instance | What it checks |
| --- | --- | --- |
| `tracker` | three executions of one client for two slots, input allowance 1, output allowance 3 | `SlotsBounded`, `WithinAllowances`, `StdinContiguous`, `EveryQueueScheduledOnce`, `CancelledInputStops`, `NobodyOvertaken`: the tracker's promises under arbitrary peers |
| `flow_input` | one execution, four bytes of stdin in writes of one or two | `CountersOrdered`, `PermitsConserved`, `EofComplete`, and `StdinSettles` under fairness: stdin from the caller to the process and its acknowledgements back |
| `flow_output` | one ID leased by two clients in turn, dual port, four units of output, kills | `OwnFramesOnly`, `GuestHoldsSlot`, `ChecksPass`, `ExitAfterOutput`, and `SlotReclaimed`, `ExitReleasesSlot` under fairness: nothing crosses to the next client, no party refuses a peer that follows the protocol, the exit is the last word, the slot comes back |
| `merger` | two successive clients, offsets up to 5, three held records of at most 4 bytes | `HeldApart`, `WithinBudget`, `WaitsForGap`, `InOrderStream`, `TerminalAfterFinish` |
| `read_reuse` | two successive clients, two bytes | `OwnerIsolation` |
| `read_live` | one client, three bytes in records of at most two, window two, read errors | `LanesAgree`, `StreamValid`, `ReadExact`, `ReadEnds`, `DropReleases`, `SlotReturns` |
| `read_late_credit` | as `read_live`, without read errors | violated: `LateCreditHarmless` |
| `lease` | a blocking and an async reader that come back, a blocking and an async writer in one process, a deleter in another; failures, cancellation, deaths | `Exclusion`, `OneDescriptor`, `WriterFirst`, `SleepersTold` |
| `lease_live` | one process, readers that come back for ever | `WriterServed` |
| `barrier` | one port, two data records and a control record under one credit each, two attempts or an attempt and a restored child, guests with and without a freezer | `NoCrossing`, `LedgersOrdered`, `OwnReply`, `AdmitsWhileRunning`: safety of the barrier whatever fails, times out or is answered late |
| `barrier_live` | two ports, two bulk records, one attempt, one record of output | `CutExact`, and `AttemptSettles`, `InputMoves` under fairness |
| `barrier_frozen` | one port, one stdin record, one attempt | violated: `FrozenIsLast` |

### The bounds

The interesting cases need few bytes and few parties:

* Stdin: an allowance of three with chunks of two and four bytes to write lets the
  caller run out of permits, lets two writes merge, refuses a merge for size, and
  lets a process take part of a chunk.  Output: single units of charge two under an
  allowance of three make the process wait for every acknowledgement.  The overhead
  charge is never 0, so a charge is never mistaken for a length.
* Three executions for two slots are the least for which the round robin, the slot
  limit and the scan for input that fits all differ from doing nothing.  They are
  alike, hence the symmetry; what was forwarded to an execution that has ended is not
  part of the view, since no action reads it again.  Two successive clients are the least for reuse of an
  ID.  `ExecFlow` runs with one ID at a time, so the answer of the relay to a full
  sandbox occurs in `tracker` only.
* In the merger five bytes and three held records give a gap, adjacent and
  overlapping neighbours on both sides, held records that are no neighbours of the one
  that arrives, a full budget by count and by bytes.
* A three byte file with records of two and a window of two needs credit in the
  middle and has a short last record.
* Leases: one caller of each kind; the readers return, so there is always a next
  reader.  The proofs lift the numbers.
* The barrier: one credit per class blocks the second record of a class and lets
  control overtake data; two attempts, under equal or different names, let the
  replies to the first arrive during the second.  A third would start as the second
  did, from a released gate.  With two ports the primary port carries lifecycle
  frames alone, so that the cut waits for the bulk port.

`MaxOffset`, `MaxStdin`, `MaxOutput`, `MaxSize`, `MaxLives`, `MaxCommands` bound histories and
stand in no code; the others are limits of the code with small values.  Counters in
the code are 64 bits wide and start at 0; no session reaches their end, and
`checked_add` would refuse it, so they are naturals here.  The runs other than
`tracker` do not check deadlock: when clients are done, or their bound is used up,
the system rests.  The liveness properties say what may not rest.

### Fairness

* `flow_input`, `flow_output` (`FlowFairness`): each loop of relay and agentd is a task of a runtime
  that polls every ready task, and is weakly fair.  A writer that reserved permits
  commits or is cancelled, the event mapper maps, the caller reads what it has
  asked for (or drops the reader), a process takes the input it is offered, and a
  killed process dies.  Nobody is forced to connect, request, write, close, kill or
  vanish, and a process that is not killed need not exit.
* `read_live` (`Fairness`): likewise, with the two lanes as two tasks of the relay,
  and a client that keeps reading a stream it has not dropped.  A read error is
  never forced.
* `lease_live` (`Fairness`): threads and tasks run and every lease is dropped some
  day.  Nothing is assumed of timers: `WriterServed` shows that within a process
  the notifications suffice.  The OS lock is taken when it is free; a blocking
  `flock` that is free only now and then (other processes' readers) may starve, as
  the module's documentation says, and is not claimed.

* `barrier_live` (`Fairness`): writers, coordinator, readers and agentd's loop run
  whenever they can.  No timer is assumed to fire, so `AttemptSettles` rests on the
  notifications alone; no client sends, no process writes or consumes anything unless
  it chooses to.

Where a task would be starved by another only under an unfair lock or channel the
fairness is that of the primitive: tokio's mutex is first come first served, which
the gates model as queues.

## Disagreements with the repository's own words

* `read_late_credit`: credit that reaches agentd after a filesystem read's terminal
  response is answered with a cancellation and a failed response and purges the
  records still queued (`crates/agentd/lib/agent.rs:3119-3128`), so a file that was
  read completely fails to read.  The TCP branch beside it says of the same case
  (`agent.rs:3133-3135`): "Late credit has no recipient and must not cancel that
  tail or manufacture a second terminal response."
* `barrier_frozen`: a read of agentd that returns the stdin of a flow-controlled
  execution and the freeze behind it answers with the frozen acknowledgement and
  then, at the end of the batch, with a stdin acknowledgement
  (`crates/agentd/lib/agent.rs:1092-1095`, which does not look at `output_parked`).
  The host ends the relay over any byte behind a frozen acknowledgement it waits for
  (`crates/runtime/lib/runner/relay.rs:4258-4267`).
  `crates/protocol/VERSIONING.md:167` says the guest "parks output at complete frames".
  The relay fails closed: `AdmitsWhileRunning` and `NoCrossing` hold all the same.

A delay that contradicts nothing but a comment's "immediately"
(`crates/image/lib/storage_lease.rs:52`) has no run: the attempt of a cancelled
`exclusive_async` may still take the lock after its interest has ended, and its close
then notifies nobody (`storage_lease.rs:734-744`); a local caller that saw the lock
taken waits for its timer.

## Proofs

TLAPS proves theorems about three components, for every value of the
constants that satisfies the named assumptions: `LimitsAssumption` (what
`ExecLimits::validate` guarantees), `OwnerAssumption` and `BoundAssumption`;
`MergerAssumption`; `LeaseAssumption` (callers of different kinds differ, and each
has a process).

`ExecAdmissionProofs`
: `AllowancesHold`: both allowances, so that the tracker's unchecked subtractions do
  not underflow.  Inductive with the counters' types (`CountersOK`).
: `SlotsHold`: at most `MaxExecutions` reservations and none for a slot handed back;
  uses the finiteness of `Ids` for cardinalities.
: `StdinHolds`: accepted stdin is one gapless sequence.  `StdinContiguous` alone is not
  inductive: queueing what a reader task has in hand keeps the chain only if those are
  the bytes that come next, and nobody else's.  `StdinInv` adds that (`HandIsNext`),
  and that only live executions with open input have a queue (`QueuesLive`).  The
  lemmas about chains say what appending, merging into the tail and taking the head
  do to them.
: `CancelHolds`: the action property `CancelledInputStops`, from the same invariant.
: `ScheduleHolds`: types and `EveryQueueScheduledOnce`; `RoundRobinHolds`:
  `NobodyOvertaken`.  `Scheduled` says the former of the queues alone, which
  `QueuesLive` allows; `InTurn` adds that whoever was served while an execution waited is
  behind it in the queue.  What `retain` leaves of a queue is the chosen positions in
  their order (`Kept`); that every rank up to their number is taken (`NthExists`)
  follows because ranking a finite set of positions is an injection between sets of
  the same size.  The queue after `take_input` is three parts without a common entry.

`GuestMergerProofs`
: `MergerHolds`: types and `WaitsForGap`; `HeldApartHolds`: `HeldApart`.  `MergerInv` adds, for each
  operation, how a flow's counters agree with what its client has seen (`KeyOK`) and
  which owners can have flows (`SlotOK`).  The central lemmas are about draining:
  the run of held records that goes out covers exactly the bytes up to `Reach`, what
  stays is apart and waits for a gap.  That the least and the greatest element they
  need exist follows from the well-foundedness of the naturals.  `Neighbours` is why
  the overlap test suffices: the held records are apart, so one that clears its two
  neighbours clears them all.
: `MergerInOrder`: every step of the merger is a step of `ClientStream` or leaves the
  client's view alone, hence the refinement `InOrderStream`.
: `TerminalHolds`: the action property `TerminalAfterFinish`.
: `BudgetHolds`: `WithinBudget`.  The bytes held for one operation are a set of offsets
  here, one for each byte of a held record; held records lie apart, so the byte sets
  of two of them are disjoint and counting them counts every byte once.

`StorageLeaseProofs`
: `ExclusionHolds`, `DescriptorHolds`, `WriterFirstHolds`, `WakeupsHold`.  One invariant,
  `Inv`, carries all four: who has the OS lock in terms of the callers' places
  (`LocksOK`), a file with owners is the pooled one (`PoolOK`), which writers a reader
  still has before it (`AheadOK`), and where an orphaned worker can be (`OrphansOK`).
  `PoolOK` is what makes `admit` safe: a reader reserves the slot only when the weak
  reference is dead, so no lease refers to an older file.  There is one lemma per
  action.

Only model-checked:

* liveness: TLAPS does not reason about fairness here;
* the properties of the compositions `ExecFlow` and `BulkRead`; of what they compose, the
  tracker and the merger are proved;
* the properties of `WorkloadBarrier`.

## Not modelled

Left out of the modelled parts: bytes and encodings; process creation, PTYs and logs;
connections that predate the execution policy (`policy` is modelled, their unlimited
traffic is not); the input-stall watchdog's clock; storage descriptor pins and the sweep
of idle pool entries.  Bulk records and control share a FIFO per lane, which is what
the relay's writers preserve within one operation; the deficit round robin between
operations and the per-client conflict keys of the control queue are therefore absent.
What a capture writes while the VM is paused is a no-op in `WorkloadBarrier`: it touches
neither ledger.

Parts that have a protocol of their own and no module here: writeback admission (fair
shares of the dirty pages over a database whose owners crash), the control executor's
revision fences, managed jobs and their recovery, checkpoint publication, the metrics
registry's sequence counters, the bulk write and TCP paths beside `BulkRead`, signal
leases of execution control.  They share no state with the modelled parts other than
the channels, so nothing here depends on them; their hazards stand in `PROJECT.json`
with that note.

Parts without a protocol to explore: image pulls and on-disk formats, the network
engine's packet processing, the virtual filesystems (sequential per request), SQL
queries (SQLite serialises them), the codec, the command line, the bindings, and the
guest's boot sequence.
