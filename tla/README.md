# A verification of liburing-rs

`liburing-rs` wraps the C library liburing: a ring owner with a submission and
a completion queue, two asynchronous front ends on top of it, and examples.
This directory models the parts of it that have control worth checking, in
TLA+; TLC checks the models on small instances and TLAPS proves the safety
properties for all sizes, and that the ring and the tokio front end implement what
they promise. Paths are relative to the parent of this directory (`src/` is the repository, `src/src/` its crate).

## 1. The system

| Part | State | Operations | What makes it correct |
|---|---|---|---|
| `IoUring`, `SubmissionQueue`, `CompletionQueue`, `Cqe` (`src/src/uring.rs`, `queue.rs`) | two rings shared with the kernel: free-running u32 counters, slots, a Cqe guard that points into the ring | new/with_flags/with_params, get_sqe, prepare, submit, submit_and_wait, space_left, is_full, wait_cqe, peek_cqe, peek_batch, drop of a Cqe, drop of the ring | requests go in and completions come out once and in order; an entry belongs to one side at a time; a Cqe stays readable while it is alive; `space_left` is a promise |
| `AsyncIoUring` for tokio (`async_io/tokio_impl.rs`) | ring, `AsyncFd`, `wakers`, `next_user_data`, one mutex around them; `op` and `user_data` of each future | submit_op, `SubmitFuture::poll`, drop of a future | a future resolves, to the result of its own operation |
| `AsyncIoUring` for async-std (`async_io/async_std_impl.rs`) | ring in a mutex; one blocking closure per operation | submit_op, the closure, drop of a future | the same |
| `io_uring-cp` (`src/examples/io_uring-cp.rs`) | byte and in-flight counters, `pending_operations` with the buffers | the copy loop | Ok means copied; the loop ends; the counters match the ring; a buffer outlives its operation |
| `link-cp` (`src/examples/link-cp.rs`) | `offset`, `operations`, `inflight` | the copy loop over linked pairs | the same, and a write only after its read |
| `nop`, `read_file`, `cat`, `poll-bench`, the async nops and poll benchmarks | a ring, a file or a pipe, cat's `offset` | one loop each | what is printed is the file; rounds do not leak into each other; no buffer is freed under an operation; the loop ends |
| `build.rs` | `OUT_DIR`, which outlives a run: the clone, the library in it, `bindings.rs` | probe, clone, configure, make, bindgen | bindings match the library that is linked; a build that is tried again succeeds |
| `ops.rs`, `error.rs` | none | encodings, conversions | modelled as far as a ring or an example depends on them |
| `sys.rs`, `lib.rs`, `async_io.rs` | none | flags, re-exports, bindings | not modelled (section 7) |

How they interact. The program calls the ring through `&mut` methods, so a ring
has one caller at a time; the other actor is the kernel, which posts completions
whenever it likes and, with SQPOLL, takes entries whenever it likes. The
front ends share one ring between tasks or blocking threads under a mutex; the
tokio one is called back by the runtime, whose I/O driver watches the ring's
descriptor. The examples own their ring and talk to nobody else. The build script
talks to later runs of itself, through `OUT_DIR`.

What is hard: the wrapping counters at a full or an empty ring; completions
held back on overflow; the time between `get_sqe` and the end of `prepare`;
futures that reap each other's completions; wakeups that arrive before, during
or after the registration for them; futures dropped with their operation in
flight; submissions that fail or take only some of the entries; short reads and
writes; builds that are killed half way. `PROJECT.json` lists each hazard at the
line where it bites.

## 2. Modules

    RingQueues          plain FIFO queues: what a ring promises
      ^ refined by  Ring                             MCRing           RingProofs
      ^ used by     TokioRing    (refines SubmitOp)  MCTokioRing      TokioProofs
                    AsyncStdRing (refines SubmitOp)  MCAsyncStdRing   AsyncStdProofs
                    CopyFile                         MCCopyFile       CopyFileProofs
                    LinkCopy                         MCLinkCopy       LinkCopyProofs
                    Examples                                          ExamplesProofs
    SubmitOp            what submit_op promises, for both front ends
    BuildScript                                                       BuildProofs
    QueueLemmas         facts about queues, for the proofs of the ring and its clients

The clients of the ring are composed with `RingQueues`, not with `Ring`: `Ring`
is checked to implement it, so that the counters do not have to be carried
through every client.

**Ring.** The counters are `sqHead`, `sqTail`, `sqeTail`, `cqHead`, `cqTail`
(`*sq.khead`, `*sq.ktail`, `sq.sqe_tail`, `*cq.khead`, `*cq.ktail`), all modulo
`CounterMod` (2^32 in the program). `sqe` is the slot of the `&mut io_uring_sqe`
a caller holds, `cqe` that of the live `Cqe`. The guards `Idle` and `Free` are the borrow
checker: `get_sqe` and `wait_cqe` borrow the queue, which borrows the ring, so
no method is callable while an entry or a Cqe is alive. An entry dropped unprepared
is followed by the drop of the ring only (section 7). A call that blocks is
two steps (`call`), with the kernel between them. `WithFlags` chooses, for each
ring it opens, whether it has an SQPOLL thread (`sqPoll`, out of `SqPollChoice`).
`space` is a history variable: what the program still counts on since it last
asked `space_left`. What liburing does inside a call (the room test of
`io_uring_get_sqe`, publishing the tail, refilling an empty ring on peek) and what
the kernel does (`Consume`, `FlushOverflow`, `SqThread`, `PostCqe`, `Cancelled`) is
external: not under `src/`, modelled from how `src/` uses it. The counters' memory
order is not modelled: liburing publishes and reads them with acquire and release.

**TokioRing.** A poll is divided at the points where another thread's progress
could be seen: locking, submitting, each turn of the drain loop, arming. `wakers`,
`nextUserData` and `userData` are the fields of the same names; `poll[t]` is the
position in `SubmitFuture::poll`, `woken`, `ready`, `reader`, `edge` and `event`
the runtime's side. `program`, chosen in `Init` out of `Programs`, says which
tasks there are, on how many workers, which operations outlast `submit()` (the
others, a Nop, complete inside it), and whether submissions fail, futures are
dropped and the driver shuts down. The driver is edge-triggered epoll with one
reader slot per descriptor, as `AsyncFd::poll_read_ready` documents it. A task
awaits its futures one after another. Not modelled: tokio's cooperative budget
(which only delays a poll), poisoning of the mutex, two futures joined in one
task.

**AsyncStdRing.** One closure per future, on the blocking pool. `submit_op` is an
`async fn` on `&mut self`: one future is alive at a time, but the closures of
dropped futures run on. `After` says which operation cannot complete before
which other.

**CopyFile, LinkCopy.** The program's local variables under their names in TLA+
spelling; `pc` is the position in the loop. What a buffer holds is abstracted: a
byte of the destination counts as written when an operation that carries the
source's data covered it; in `LinkCopy`, which goes by blocks, a block is `written`
when a write moved the whole of it, and `cut` when its read or its write moved less.
`CopyFile` follows the buffers themselves, which live in `pending_operations` until
their operation is taken out of it or the function returns. In `LinkCopy`, `Alone`
is the rule by which the kernel forms chains: a write is linked to the read before
it if both were taken in one submission.

**Examples.** The eight small programs are sequences of the same few calls, so
one module has an action for each call (`Queue`, `Submit`, `Unblock`, `Wait`,
`Own`, `Result`, `Peek`, `Write`, `ReadBack`) and a table, `Steps`, of the order in
which each program makes them; `program` is chosen in `Init`. What a program
does with an error is in `Fails`: return it, or, in the async benchmarks, print it
and go on. `Prepare`, `ReadFromSlice`, `SetFlags`, `SetUserData` and `PollFixed`
are the entries of `ops.rs` and of the examples' own `PollOp`.

**BuildScript.** `clone`, `built` and `bindings` are what is under `OUT_DIR` and
survives a run; `pc`, `include` and `links` are the run's. Releases of liburing are
numbers. git, configure, make, bindgen and pkg-config are external: a tool may fail
(`ToolFails`), everything may be killed (`Kill`: what was being written may be
cut), packages change under the script's feet, `MIN_VERSION` is raised between
runs.

## 3. Runs

| Run | Question | Bounds | States |
|---|---|---|---|
| ring | rings with and without SQPOLL, overflow, Cqe, drop and reopening, progress; the inductive invariant | 3 requests, rings of 2 entries, counters modulo 4 | 146,086 |
| tokio | own results, registrations, and why a future may never resolve | 3 tasks with 2 futures, 2 entries, four programs (`Various`) | 122,626 |
| tokio_lost_wakeup | finding | 1 task, 2 slow futures, 1 worker | |
| tokio_stolen | finding | 2 tasks, 1 slow future each, 2 workers | |
| asyncstd_pool | faults, drops, an operation that depends on another | 3 futures, 2 entries | 3,446 |
| asyncstd_stale | finding | 2 futures | |
| cp_full | errors and short submits; buffers | 11 bytes, blocks of 2 (the last of 1), depth 3 | 440,511 |
| cp_short | finding | 3 bytes | |
| link_cp | errors, short reads and writes | 5 bytes, blocks of 2 (the last of 1), depth 4 | 144,031 |
| link_cp_split | finding | 3 bytes | |
| examples | the eight small programs under errors, short submits, signals, short reads | depth 3, 4 entries, 5 bytes, blocks of 2, 6 rounds | 2,411 |
| build | repeated builds over what earlier ones left | 3 releases, 3 failures or kills, 3 changes | 59,988 |

Why the bounds are enough. Two entries in each ring and counters modulo 4 make
every slot be reused and every counter wrap, several times; with one request more than
the rings hold, the submission queue is full with requests elsewhere and the
completion ring overflows while more completions arrive. The ring's safety is
proved for all sizes besides (section 5). Two tasks are what it takes for one
future to reap another's completion, and three for a bystander; two futures per
task for state left by a future to meet the next one; one worker for the runtime on
which a driver is not turned while a poll runs. The copies have
more blocks than fit in the queue at once, and a last block that is not whole;
link-cp reaches the odd `inflight` at which a pair is admitted with one place free.
The examples' file takes three blocks, the last one not whole, and six rounds make
an async benchmark that survives errors fill its ring of four entries. Three
releases let an installed package be too old, right and newer; two faults in one
run and one in the next are what it takes to cut a clone and then fail over it.
`CHECK_DEADLOCK FALSE` is given where the program ends by itself: a copy that
returned, tasks with no future left. The ring and build runs check deadlock.

**Properties.** The modules state each one above its definition. The main ones:

- `ImplementsQueues`: the rings, the overflow list and SQPOLL refine FIFO queues,
  through wraps, short and failed submissions, interrupted waits, and drop.
- `EachRequestOnce`, `CqeStable`, `WithinRings`, `SpaceIsKept`, `DraftIsPrivate`:
  the hazards of section 1 on the ring; `SubmittedIsReaped`: with overflow, and
  with no signal to end a wait, a program that keeps asking for completions sees every
  one, unless it waits for more of them than there are operations in the ring.
- `ImplementsSubmitOp`: a future returns its own operation's result, and an
  operation is carried out once. For tokio it holds under every fault modelled. For
  async-std it does not (a finding); `OwnResultUntilFailure` is what holds, and
  `LeftByFailures` says how far later results are shifted.
- `CompletionsAreDelivered` (once its operation was carried out, a waiting future
  resolves, by whichever way the completion reaches it), `FutureResolves`: fail for
  tokio (two findings).
  `WaitsForAReason` says what is left of them: a tokio future that never resolves has
  one of three reasons (its operation stayed in the submission queue, another poll
  consumed its completion, or its wakeup was lost), and has none of them in a program
  whose operations complete inside `submit()`.
- `SleepersAreRegistered`, `WakersAreOwn`, `QuietBetweenPolls`: what the wakers map
  and the ring look like while nobody polls.
- `ResolvesUnlessHeldUp`: async-std futures resolve unless an operation in flight
  depends on one that cannot be submitted because the mutex is held for it.
- `CountersMatchRing`, `BuffersAreKept`, `InflightIsExact`, `CopyIsComplete`,
  `OkMeansWritten`, `WriteAfterRead`, `CopyEnds`: the copies. `OkMeansWritten` does not
  say that link-cp copied the file, because its Ok does not mean that: it says that
  what is missing is the blocks with a short read or a short write, and no other.
  `BuffersAreKept` is about a copy that still runs; one that returns an error frees
  the buffers of whatever is in flight.
- `OwedIsOutstanding`, `RoundIsClean`, `FileIsPrinted`, `NothingOutlivesMain`,
  `EndsUnlessShort`: the small examples.
- `BindingsMatchLibrary`, `RetriesSucceed`: the build.

Every property of a passing run is broken by a mutant of the code: the operators marked
`MUTANT` in the modules, each before the definition it replaces.

## 4. Fairness

Safety runs assume none. `Ring!FairSpec`: the kernel completes what it holds and
its threads run, and a call that blocks returns once its completions are there. No
signal is ever assumed, so a `submit_and_wait` for more completions than there are
operations may block for ever, and is the exception in `SubmittedIsReaped`. The rest
are conditions on the program, not consequences of the code: it comes back to
`peek_cqe` again and again (SF: other calls may come between), drops the Cqe it gets
and prepares the entry it took. `TokioRing!FairSpec`: the runtime polls woken
tasks and turns its driver although workers are shared (SF), a poll goes on
(WF), the mutex is granted to each waiter in the end (SF), the kernel completes what
it took. Nothing is assumed of drops or of a shutdown. `AsyncStdRing!FairSpec`: the same for
closures; an interruption is never assumed. `CopyFile` and `LinkCopy`: the program runs
until it returns and the kernel completes operations; no fairness says which of
several operations completes first, nor that anything succeeds. `Examples!FairSpec`:
a program that can go on does, the kernel completes what it can (a poll only after the
pipe was written); signals and failures are never assumed. `BuildScript!FairSpec`:
a script that runs goes on, and whoever builds tries again until it works; tools
need not fail, machines need not crash, packages need not change.

## 5. Proofs

All theorems are proved for every value of the constants, from the `ASSUME` of the
module they are about. Two kinds have a hypothesis besides, on constants that choose
which faults there are: `OkMeansCopied` assumes no short writes, and the theorems of
LinkCopyProofs that `submit()` takes every entry it is given. Both hypotheses are
needed: `cp_short` and `link_cp_split` are the counterexamples. Every safety invariant
of a passing run is a theorem.

`QueueLemmas` has what the proofs share: what appending, dropping, and taking the k
oldest elements do to the range and the length of a queue (`TakeFirst`, `RangeTail`,
`AppendNew`), and `Once(q, I, c)`, a request in one place of queue, kernel and
completions, which pushing, taking, completing and reaping preserve (`OncePush` to
`OnceReap`).

**RingProofs** (rings not empty, the counters' modulus a multiple of both sizes
and above `SqEntries + 1`):

    RingInvariant         Spec => []RingInv
    TypeCorrect           Spec => []TypeOK
    StaysWithinRings      Spec => []WithinRings
    SpaceStays            Spec => []SpaceIsKept
    DraftStaysPrivate     Spec => []DraftIsPrivate
    CqesStayReadable      Spec => CqeStable
    RingImplementsQueues  Spec => ImplementsQueues
    RequestsAreOnce       Spec => []EachRequestOnce

None of the invariants is inductive by itself. `DraftIsPrivate` holds because the
entry being prepared is the last one handed out and is not published
(`DraftIsLast`); `TypeOK` needs that what the kernel takes has been prepared
(`WindowPrepared`), or NoReq would get into `inflight`; `WithinRings` needs that
a live Cqe is there to be counted when it is dropped (`GuardIsOldest`), or
dropping it would move `cqHead` past `cqTail`; `SpaceIsKept` follows from
`space <= SpaceLeft`, which get_sqe spends one by one and the kernel only
increases. `RingInv` is their conjunction; `ring` checks it first.

The argument: section 1 of the module reduces the modular arithmetic to distances
(`GrowFront`, `ShrinkBack`, `BackToFront`, `AddTwice`, `SlotsDistinct`: counters less
than a ring apart select different slots, because the modulus is a multiple of
the size). `RingInv` is then split into a part over the submission ring, one over
the completion ring and one over the caller (`Parts`), and each action is
shown to preserve the parts it touches, with one lemma for what several actions
share (`EnterKeepsParts`, `FlushKeepsCq`, `ConsumePrepared`). `CqeStable` is an
action property and follows from `RingInv`: every slot is selected by some counter
within a ring's length after `cqTail` (`SlotsReached`), and none of those in the
room that is left is one that holds a completion (`RoomIsFree`), so neither a
refill nor a post writes where the program may read. The assumption
`SqEntries + 1 < CounterMod` came out of the proof: with `SqEntries = CounterMod - 1`
the room test of get_sqe, itself modular, would accept an entry of a full ring.

The refinement maps the slots between `sqHead` and the last prepared entry to `sq`,
and those between `cqHead` and `cqTail`, with the overflow list behind them, to `cq`.
Sections 6 and 7 say what each action does to these windows as sequences: an
entry prepared is appended, `Consume` moves the oldest ones into the kernel, a flush moves
completions from the list to the ring and leaves their concatenation as it is, a
dropped Cqe takes the head off. Section 8 has a lemma for each action that names the
step of `RingQueues` it is. `EachRequestOnce` is then proved where it is easy to see, on
the plain queues: that a request is in one place is kept by every step of `RingQueues`
(`OnceStep`), and so, by the refinement, by every step of the ring; `OnceInv` adds that a
closed ring is empty, whatever the kernel still works on (`ClosedStaysEmpty`).

**TokioProofs** (`Tasks` finite, so that user_data are; any program):

    WakerInvariant          Spec => []WakerInv
    WakersStayOwn           Spec => []WakersAreOwn
    SleepersStayRegistered  Spec => []SleepersAreRegistered
    UserDataIsUnique        no two futures have the same user_data
    SharedInvariant         Spec => []SharedInv
    SharedTypeCorrect       Spec => []TypeOK
    PollsLeaveNothing       Spec => []QuietBetweenPolls
    MutexExcludes           no two tasks between lock() and the end of its poll
    TokioKeepsPromise       Spec => ImplementsSubmitOp

`SleepersAreRegistered` fails if another future's step removes or overwrites the
waker of a sleeping one. That none does rests on user_data being given out once
(`Numbered`, which also counts them, so that the last future still has an index in
the map) and on a future having one exactly from its first poll on (`Phases`): the
future that registers or is forgotten is then always the poller's own or that of a
task which is woken in the same step. `StepOutsideInner` does the steps of the kernel and
the driver at once, `OverFacts` all the ways a future ends. Of the ring nothing is
needed for these four.

`SharedInv` adds the ring: what is queued, taken and executed are disjoint sets of
operations that have a user_data (`RingInv`), a future that is not Ok returned
nothing (`OnlyOkReturns`), one task holds the mutex (`OneLocked`), and `CalmInv`: in
a program whose operations complete inside `submit()` the poller's own operation is
the only one the ring ever holds, and it is reaped before the poll ends.
`QuietBetweenPolls` is the part of it that holds while nobody polls. The refinement
of `SubmitOp` needs that an operation is executed once, which is `RingInv`, and that
the Cqe a future resolves with is its own, as user_data are unique (`OwnCqe`); each step is
then one of `SubmitOp` (`LockIsAwait`, `CompleteIsExecute`, `DrainIsResolve`) or leaves
its variables alone.

**AsyncStdProofs** (any dependencies between operations, every fault):

    PoolInvariant         Spec => []PoolInv
    PoolTypeCorrect       Spec => []TypeOK
    FailuresLeaveOneEach  Spec => []LeftByFailures
    ResultsAreOwn         Spec => []OwnResultUntilFailure

The two properties speak of the ring while nobody holds the mutex and of futures
that are over; the steps in between need a balance that also holds in the middle of a
closure: the ring has one operation for each failed closure and one for the closure
that waits (`Balanced`), of which there is one at most (`OneHolder`). It is a balance
because an operation is in one place and submitted once (`NoRepeats`, `RingIsOwned`);
`TakeFirst` says that a submission, however short, moves operations and loses none. While
nothing failed the balance leaves room for one operation only, which is the waiting
closure's own (`OwnOnly`).

**CopyFileProofs** (any file, block and queue size; short reads, short submissions
and errors):

    CopyInvariant     Spec => []CopyInv
    CopyTypeCorrect   Spec => []TypeOK
    CountersAreExact  Spec => []CountersMatchRing
    BuffersStayKept   Spec => []BuffersAreKept
    OkMeansCopied     ~ShortWrites => (Spec => []CopyIsComplete)

The three invariants relate counters to sets of operations, and nothing in them says
that two operations are different. `CopyInv` does: the elements of
`pending_operations` are pieces of the file before `offset` that do not overlap
(`Blocks`), each of them is in one place of the ring or among the drained completions
(`Placed`), and so a counter is the size of a set (`Counted`). A read that completes
short leaves a smaller piece, which stays within the old one. For `CopyIsComplete`,
`bytesToWrite` is exactly the number of bytes not written for good (`Exact`), which is
where short writes have to be excluded; with them it still covers what is in flight
(`Owing`), and that is enough for the counters.

**LinkCopyProofs** (any file, block and queue size, errors and short transfers, all
under `~ShortSubmits`):

    LinkInvariant       Spec => []LinkInv
    LinkTypeCorrect     Spec => []TypeOK
    InflightStaysExact  Spec => []InflightIsExact
    WritesFollowReads   Spec => []WriteAfterRead
    BlocksAccounted     Spec => []DestInv
    OkMeansAllWritten   Spec => []OkMeansWritten

`WriteAfterRead` is about one step, the write's, and needs the history of the pair:
the queue holds whole pairs, in order (`Alternate`), until the kernel takes them all; a
read in the kernel has its write there, held back (`Linked`); and a block that was
write has run was read whole (`Followed`). Both counters follow
from a pair being queued whole (`Counted`), and that it always is from `QUEUE_DEPTH`
being even: an empty ring is filled by whole pairs. `OkMeansWritten` is an equality of
sets of blocks at the end, and needs to know at each step what became of each block
that was queued (`DestInv`): its read is to come, or was short, or was whole, and
then its write is to come, or was short, or whole; or an error was met, which is in a
completion until it ends the copy (`Erred`). Ok comes with an empty ring and without
an error, so every block is written or cut, and none is both.

**ExamplesProofs** (any batch, ring, file and block size, all eight programs):

    ExampleInvariant      Spec => [](ExampleInv /\ NopStarts)
    ExamplesTypeCorrect   Spec => []TypeOK
    OwedStaysOutstanding  Spec => []OwedIsOutstanding
    RoundsStartClean      Spec => []RoundIsClean
    FileGetsPrinted       Spec => []FileIsPrinted
    NothingIsLeft         Spec => []NothingOutlivesMain

The properties look at the start of a round and at the end of main. `ExampleInv` says
what each step of each program leaves in the ring: read_file and cat a single read,
not queued, queued, or taken (`ReadInv`); poll-bench as many polls as it waits for
(`PollInv`); the nops and the async programs nothing that the kernel keeps, because
what they queue is done inside `submit()` (`InlineInv`, which needs that the byte is in
the pipe by then, `Piped`). `AllOrNone` is the step on which this turns: of the entries a
submission takes, the kernel completes all at once or none. That a read ends where
the next one begins (`BytesJoin`) gives `FileIsPrinted`.

**BuildProofs** (any releases, any number of failures, kills and changes):

    BuildInvariant       Spec => []BuildInv
    BuildTypeCorrect     Spec => []TypeOK
    BindingsAlwaysMatch  Spec => []BindingsMatchLibrary

`BindingsMatchLibrary` speaks of the end of a run; `ScriptKnows` carries to it what
each position in the script implies of `OUT_DIR`: past `configure` the clone is whole,
past `make` the library is the clone's, and which library cargo was told to link.

Only model-checked, because liveness under fairness is out of the prover's reach:
`SubmittedIsReaped`, `WaitsForAReason`, `ResolvesUnlessHeldUp`, `CopyEnds`,
`EndsUnlessShort` and `RetriesSucceed`; and what the findings violate.

## 6. Findings

1. **tokio, lost wakeup** (`tokio_impl.rs:184`). A poll that finds the `AsyncFd`
   ready clears it and returns Pending without registering for the next edge. The
   readiness may be stale (an event dispatched for a completion that is reaped
   by then): the future sleeps outside of the reader slot, and nobody wakes it.
2. **tokio, completion taken by another poll** (`tokio_impl.rs:166`). The result is
   dropped with the Cqe. The future it was for is woken, finds an empty queue when it
   is polled, registers with the driver and waits for ever.
3. **async-std, result of another operation** (`async_std_impl.rs:79`). After an
   error between get_sqe and the end of the closure, later futures get the results
   of earlier operations.
4. **io_uring-cp, short transfers** (`io_uring-cp.rs:94`). After a short read the
   outer loop spins for ever; a short write is counted as whole.
5. **link-cp, cut chain** (`link-cp.rs:71`). A short submission separates a read
   from its write, which then runs first.

Seen while modelling and not a run of its own:

- under short submissions link-cp can queue a pair by half as well (its read is then
  counted nowhere: `InflightIsExact` fails when `ShortSubmits` is TRUE);
- after a short read link-cp reports a cancelled operation, after a short write nothing
  at all, and in both cases it goes on to print "All operations completed successfully"
  with the block, or the rest of it, missing (`OkMeansWritten` names these blocks);
- an async-std future dropped while its operation waits keeps the mutex, and later
  futures with it;
- read_file takes a `submit_and_wait` that a signal ended for one that waited, prints
  nothing and returns Ok with its read in flight (the exception in
  `NothingOutlivesMain`);
- a tokio future that fails or is dropped leaves its waker in the map, until its
  completion is drained if it has one (`WakersAreOwn` allows it);
- poll-bench waits for a whole batch after it warned that fewer were submitted
  (the exception in `EndsUnlessShort`);
- the build script tests for the clone's directory only: one cut by a kill makes
  every later build fail (the exception in `RetriesSucceed`), and one of an older
  release is built although `MIN_VERSION` was raised since (`BindingsMatchLibrary` speaks
  of the clone's release, not of the one wanted);
- with the system's package the script links `uring`, while `sys.rs:16` and
  `build.rs:16` say that some functions are in `liburing-ffi` only.

## 7. Not modelled

- `as_raw_mut` (hands out the C structure; anything may follow) and `as_raw_fd`.
- `sys.rs`, `lib.rs`, `async_io.rs`: flags, bindings, re-exports. Error conversions and
  messages: no state of their own. Operation encodings are C code of liburing.
- `from_slice` of a slice of 2^32 bytes or more, whose length is cut to u32, and the wrap of
  `next_user_data`: out of any bound, and nothing around the cast or the increment
  to check. User_data are unbounded in the model.
- A panic in a caller's `prepare`, which poisons the mutex.
- The submission of an entry obtained from get_sqe and never prepared. `Ring` lets the
  ring be dropped with such an entry, as `src/tests/advanced.rs:351-356` does; every
  other caller in the repository prepares it at once.
- A new ring opened while operations of the last one are in flight: that the kernel
  keeps the completions of a ring with that ring is taken for granted.
- A Cqe that is forgotten rather than dropped, which the ring would deliver again and
  again: nothing in the repository does it, and liveness assumes that none is.
- Kernels older than 5.5, which drop completions on overflow.
- Two futures of one tokio task polled at once (join!, select! of two).
- Statistics, formatting, command lines.

## 8. Plan

Built: the ring, the front ends, the two copies, the small examples and the build
script, each with its proofs. Left:

1. TokioRing with futures joined in one task, which changes the reader slot and
   the waker per user_data.
2. What can be said of LinkCopy under short submissions: its counters are not exact
   then (section 6), but the loop still ends.
3. Action properties of the clients in the manner of `CqeStable`: that a future which
   is over stays as it is is part of the refinement for tokio, and could be stated for
   async-std until its first failure.

Linked timeouts and multishot operations are not wrapped by the code, and stay out.
