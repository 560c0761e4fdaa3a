# ProjectD server: a verification project

TLA+ models of `ProjectD_Server`, the C++ game server of this repository, with TLC configurations and TLAPS
proofs. Paths below are relative to `src/ProjectD_Server/`.

## 1. The system and its parts

The server is a library, `ServerCore`, and a small game on top of it. Six worker threads (main and five
more, `ProjectD_Server.cpp:46-55`) all run `DoWorkerJob`: take one I/O completion from the completion port
and run its whole handler, then execute job queues that nobody else executes. A dummy client uses the same
library: two threads dispatch completions, main broadcasts.

| Component | State | Operations | Interacts with |
|---|---|---|---|
| Job scheduler (`JobQueue`, `GlobalQueue`, `LockQueue`, `ThreadManager`, `DoWorkerJob`) | per queue `_jobs`, `_jobCount`; the global queue; per thread `LCurrentJobQueue`, `LEndTickCount` | `DoAsync`/`Push`, `Execute`, `ClearJob`, `DoGlobalQueueWork` | called by packet handlers and by jobs; runs jobs, which call `Send` |
| `Lock` | `_lockFlag` (owner : 16, readers : 16), `_writeCount` | `WriteLcok`, `WriteUnlock`, `ReadLock`, `ReadUnlock` through guards | used by every component below and `LockQueue` |
| `Session` | `_connected`, `_sendRegistered`, `_sendQueue`, four I/O events with an owner reference | `Send`, `Connect`, `Disconnect`, `Register*`, `Process*` | Winsock, `Service`, the callbacks of the game |
| `RecvBuffer`, `PacketSession` | `_readPos`, `_writePos`, bytes | `OnWrite`, `OnRecv`, `OnRead`, `Clean` | called by `ProcessRecv`; calls `OnRecvPacket` |
| `IocpCore` | the port | `Register`, `Dispatch` | hands completions to sessions and to `Listener` |
| `Service`, `Listener` | `_sessions`, `_sessionCount`; the accept events | `AddSession`, `ReleaseSession`, `BroadCast`, `Start`; `RegisterAccept`, `ProcessAccept` | create, connect and keep sessions |
| Send buffers | per-thread chunk, pool of chunks | `Open`, `Close`, `Pop`, `Push` | packets are written into them, sessions send them |
| Memory pools | size table, free lists, counters | `Allocate`, `Release` | under every object and container |
| `DeadLockProfiler` (debug builds) | graph of lock orders, per-thread stack | `PushLock`, `PopLock`, `CheckCycle` | called by `Lock` |
| Game server (`Room`, `GameSession`, handlers) | players of the room, of a session | login, enter, chat | `Room` is a `JobQueue`; handlers `DoAsync` on it and `Send` |
| Reference counts, byte readers, addresses, socket wrappers, packet generator, protobuf, Unreal stub | none that changes over time, or unused | | |

What is hard here, and what makes each part correct:

* **Scheduler.** Threads share queues with two atomics and two spin-locked queues. A queue must never be
  executed by two threads, never be forgotten, and keep its order, whatever interleaves with the two steps
  of `Push`, with the settling of a batch and with the 64 ms deadline.
* **Lock.** Lock-free code with a plain counter next to an atomic word, nesting, and a timeout that kills
  the program.
* **Session.** One `OVERLAPPED` for sending is shared by all senders under a flag that is partly used
  outside the lock. Any call may fail at once or later. Disconnects arrive from several handlers. The object
  must outlive its requests and leave its service once.
* **Receive path.** Arbitrary cuts of a byte stream, a buffer that is compacted with `memcpy`.
* **Send buffers and their memory.** Packets are written into chunks that go from thread to thread through a
  pool, by whichever thread drops the last reference, and the packet objects lie in a lock-free list that
  clears, links and counts in separate steps. Two packets must never share a byte, no chunk or block may be
  lost or handed out twice.
* **Memory table.** Three loops with running bounds must leave a pool for every size.
* **Profiler.** A depth-first search with discovery numbers over the lock orders of all threads, to crash
  exactly when they form a cycle.
* **Listener.** `Dispatch` goes by the accept event, not by the call that completed; errors register the
  event again, and one error registers it twice. No event may be forgotten.
* **Game.** Handlers of many workers submit jobs to the room while sessions come and go. Everybody must see
  the chats in one order, and a chat must reach all who had entered.

`PROJECT.json` lists each of these hazards at its line, with the properties that cover it or the reason why
none does.

## 2. Modules

| Module | What it is |
|---|---|
| `SerialExecutor` | what a `JobQueue` promises: an ordered, one-at-a-time executor (abstract) |
| `JobQueue` | the scheduler, one step per access to shared memory |
| `MCJobQueue`, `JobQueue.cfg` | its small instance |
| `JobQueueProofs` | type, custody, serial execution, the count and the order, for all constants, and that the scheduler implements the safety part of `SerialExecutor` |
| `RWLock` | what `Lock` promises: a reader-writer lock whose guards nest (abstract) |
| `SpinLock`, `SpinLock.cfg` | `Lock`, one step per access to `_lockFlag` or `_writeCount` |
| `SpinLockProofs` | exclusion, the word, the counter, which unlocks crash, and that `RWLock` is implemented |
| `Session`, `MCSession`, `Session*.cfg` | the life and the sending side of one session, with the kernel |
| `SessionProofs` | all its safety properties |
| `RecvBuffer`, `MCRecvBuffer`, `RecvBuffer.cfg` | the receive path below `ProcessRecv` |
| `RecvBufferProofs` | room, intact data, framing |
| `MemoryPool` | `MemoryPool` and `StompAllocator` under an `ObjectPool`: the blocks of one size |
| `SendBuffer`, `MCSendBuffer`, `SendBuffer*.cfg` | chunks and packets, over `MemoryPool` |
| `SendBufferProofs` | packets apart, chunks and blocks in one place, true counters, no failing assertion but the one on the size |
| `MemoryManager`, `MCMemoryManager`, `MemoryManager.cfg` | the table that the constructor fills |
| `DeadLockProfiler`, `MCDeadLockProfiler`, `DeadLockProfiler.cfg` | the profiler under the locks that call it |
| `DeadLockProfilerProofs` | that it crashes exactly on a cycle, prints one, and what deadlocks it cannot see |
| `Listener`, `MCListener`, `Listener.cfg` | the accept events over many sessions, call by call |
| `ListenerProofs` | that no accept event is forgotten, and which session a completion connects |
| `GameServer`, `MCGameServer`, `GameServer.cfg` | connected sessions, packet handlers and the room, over `SerialExecutor` |
| `GameServerProofs` | the order of the chats and whom they reach |

The models are stacked by what they may assume. `SpinLock` shows that critical sections exclude each other;
`JobQueue` and `Session` then treat a critical section as one step. `RecvBuffer` shows that the receive path
never refuses bytes by itself; `Session` then lets `ProcessRecv` disconnect on 0 bytes only. `JobQueue`
implements `SerialExecutor`; `GameServer` then takes the room's queue at that word, `Session::Send` at the word
of `WireKeepsOrder`, and the `Listener` at the word of `ConnectsItsOwn`. `SendBuffer` extends `MemoryPool`,
whose actions are parts of its own.

Definitions named after a fault (`CountIfEmpty`, `WholeHeader`, ...; in the later modules their comments
begin with "Mutant") are deliberate faults, one for each property: put in the place of the definition next
to them, the property fails.

### JobQueue

A thread is at a program counter: in an I/O handler (`dispatch`), between two queues (`global`), in `Push`
(`count`, `enqueue`, `hand`), in `Execute` (`pop`, `run`), or in a job (`body`). The memory operations are
steps: `CountJob` is the `fetch_add`, `EnqueueJob` is `_jobs.Push` with the decision after it, `HandOver` is
`GGlobalQueue->Push`, from `Push` or from the end of `Execute`, `PopAll` takes the batch, `Settle` is the
`fetch_sub` with the three ways on. `TakeGlobal` is the pop in `DoGlobalQueueWork`. `slice` compares the
clock with `LEndTickCount`, since `Execute` tests `>=` and `DoGlobalQueueWork` tests `>`: the value `at`
tells them apart. A job is a model value; `Target` and `Calls` say where it goes and what it submits. A job
is submitted once at most, since every `DoAsync` makes a new `Job`.
`ClearJob` has no caller in the repository; any thread may call it, `MaxCleared` bounds the jobs it drops.
`arrived`, `started` and `cleared` are history.

### SpinLock

The two halves of `_lockFlag` are the variables `owner` and `readers`; the owner's bits are 0 for `None`.
Each of `WriteLcok`, `WriteUnlock`, `ReadLock`, `ReadUnlock` is a chain of steps; the inner loops of 5000
attempts are retries without a bound, and `TimeOut` may follow any failed attempt. `held` is each thread's
stack of guards: `AskWrite` and `AskRead` open one, `CloseGuard` closes the youngest, as C++ destructors do.
Guards nest in any order. A thread that asks to write while it has only read guards waits for itself, and one
that releases a write while it still has a read guard crashes: that is the rule at `Lock.cpp:54`, reads have to
be released before a write is, and `OnlyOwnReadsCrash` says that it hits no other thread. That the read count
does not overflow is an assumption (`SpinLockAssumption`).

### Session

Every handler is cut at its accesses to shared state, and `pc` and `stack` give each thread its place in the
calls (`ProcessSend` calls `RegisterSend` under the lock, which calls `HandleError`, which calls
`Disconnect`...). The kernel is `flying`, the requests in flight, and `sock`. `WSASend` and `WSARecv` answer
one of `Answers`; a completion in `flying` is taken by any worker at any time (`Dispatch`), with bytes, with
none, or failed: `IocpCore::Dispatch` does not tell them apart, so neither does the action. `owned` is the
set of events whose `owner` is set: a request in flight outside it could outlive the session. A server's
session starts with `Accept`, the end of `Listener::ProcessAccept`; the client's with `RegisterConnect` in
main. Senders are jobs of the room (server) or main in `BroadCast` under the service's lock (client).
`pushed`, `wire`, `dropped` and `callbacks` are history.

### RecvBuffer

A byte is its offset in the peer's stream, so "the right byte" can be stated. `layout[i]` is the size that a
header at offset `i` carries. `Receive(n)` writes any number of bytes that fits; `OnWrite`, `OnRecvPacket`,
`OnRecvReturns`, `OnRead` and `Clean` follow `ProcessRecv`. `Moved` is the `memcpy`: with overlapping
regions its outcome is undefined, and the model then allows junk.

### MemoryPool and SendBuffer

`SendBufferManager::Open` is `Open` (the thread looks at its own chunk), `PopChunk` (under the pool's lock),
`Swap` (`LSendBufferChunk = Pop()` and `Reset`) and, if `Swap` dropped the last reference to the old chunk,
`PushGlobal`, the deleter of a chunk, which runs inside whatever its thread is doing. `OpenChunk` and
`MakeBuffer` are `SendBufferChunk::Open`, cut where `MakeShared` allocates; `Close` is `SendBuffer::Close`.
`Destroy` is the end of a packet, in any thread, since the sessions that queue it are on any worker; it
drops the chunk and gives the block back (`FreeBlock`, `FreeStep`). A `shared_ptr` is modelled by who refers
(`Holders`): the step that takes away the last holder goes on to the deleter. Allocated blocks identify the
live `SendBuffer` objects; `header` is their `MemoryHeader`. Both allocators are modelled: `stomp` is chosen
in the initial state and never changes. This commit defines `_STOMP` (`Types.h:43`), so the free list runs
only in a build without it. The size a packet is closed with is the one it was opened with, as in
`MakeSendBuffer`. A packet may be larger than a chunk: it then gets a new chunk and fails the assertion of
`SendBufferChunk::Open`, which is `OpenTooLarge`; `tooLarge` tells this assertion from the others.

### MemoryManager

One step is one turn of a loop of the constructor or the end of a loop. `size` goes on from one loop to the
next, as in the code. The limits and steps are the constants of the code, not small ones.

### DeadLockProfiler

`PushLock` is the report of a request, up to the search if the order is a new one; `Acquire` is the rest of
`WriteLcok`, `PopLock` and `Unlock` are the two halves of `WriteUnlock`. So the stack of the profiler and the
guards a thread really holds are two variables, and other threads run between. Names are per class, since
the name of a lock is `typeid(this).name()` of its owner. `prof` is the thread that holds the profiler's own
lock during a search: the others go on trying for their locks and giving them back, and report nothing. The
search has the numbers, the `finished` flags and the parents of the code; its recursion is the stack `calls`.
`DfsRoot` is a turn of the loop of `CheckCycle`, `DfsVisit` one of the loop of `Dfs`, which takes successors
in ascending order as a `set` does, `DfsReturn` the end of a call, `PrintCycle` a turn of the loop that
prints, up to the crash, and `CheckCycleEnds` the end of the search and of `PushLock`. Locks are exclusive,
as `READ_LOCK` is used nowhere; timeouts are left to `SpinLock`.

### Listener and GameServer

In `Listener` an actor is a call in progress: the handler of the completion of the `AcceptEx` that was given
session `s` is actor `s`, the registration of event `e` by `StartAccept` is actor `e`. `pc` says where it is in
`ProcessAccept` and `RegisterAccept`, `back` where its `RegisterAccept` returns to, `session` and `fresh` are
its locals. `acceptSession` is the session an accept event refers to, `eventOf` the event a session was offered
with. `Dispatch` knows the event only, so `ProcessAccept` works on the session its event refers to by then,
which may be another one if the event was registered again meanwhile. `SetUpdateAcceptSocket`, `getpeername`
and `AcceptEx` may each fail; after a failed `getpeername` `ProcessAccept` registers the event and goes on, so
that it registers it twice, and two workers can be in `ProcessAccept` with one event. A session is destroyed
when no event, no local and, since it was never connected, no service refers to it (`Orphans`, `Destroy`); its
socket is closed, and a call of `AcceptEx` on it completes with an error and is processed like any other.
`completion` are the calls that have completed and await `Dispatch`. `vanished` is a count of history and the
bound on failures of `getpeername`. An assignment to `acceptEvent->session` is one step: two workers that get
there at once race on the `shared_ptr`, which is possible only after a failed `getpeername`.

The handlers of `ClientPacketHandler.cpp` are cut where they touch shared state: `Handle_C_ENTER_GAME`
submits the job, `EnterGameSend` sends `S_ENTER_GAME`, and the room may run in between. They check nothing, and
neither do the actions: a client may log in again and again, which gives it two more players each time, ask
for any of its players any number of times, and chat without having entered. `entrant` is the player that each
call of `Room::Enter` was given, a session and an index of its `_players`. An index beyond the end is undefined
behaviour: the handler reads past the vector and follows the pointer it found, and `EnterGameOutside` ends the
program. `StartJob`, `Enter`, `BroadcastSend` and `EndBroadcast` are the jobs of the `Room`, one step per
`Send` of the loop; the order of jobs is that of `SerialExecutor`. `Room::_players` is a map by player, so a
player that enters twice is in it once, and a session with two players in it gets each chat twice. `cast` is
what is left of the loop's players, in any order. A packet sent to a session that is not connected is dropped,
and messages are short enough for a chunk. Only one handler of a session runs at a time, as a session has one
receive. `audience` is history.

## 3. Runs

| Run | Instance | What it shows |
|---|---|---|
| `jobqueue` | 2 threads, 2 queues, 4 jobs, one job cleared; 51 592 states | one executor per queue; exactly one custodian; exact count; order; every job runs; a drained queue goes idle unless cleared; refinement of `SerialExecutor` |
| `spinlock` | 2 threads, 3 nested guards in any order, timeouts; 32 005 states | exclusion; the word and the counter; an unlock crashes only a thread that still reads; waiting for ever needs others that keep getting the lock, or a write asked for inside a read; refinement of `RWLock` |
| `session` | 2 workers, 2 senders, both types, all failures, 3 sends, 1 message; 721 777 states | one send at a time; requests are owned; order on the wire; one release; callbacks |
| `session_liveness` | a server's session, no failures on a healthy socket, 2 sends; 61 877 states | the queue drains unless a `WSASend` stays pending for ever; a close is noticed; a disconnected session is released |
| `session_stranded` | a `WSASend` that fails at once | **violated**: see findings |
| `recvbuffer` | 3 buffers of 4 bytes, packets of 2 to 4 bytes, 24 bytes, 9 streams | room; data intact; whole packets, in order, at once |
| `sendbuffer` | 2 threads, 3 chunks of 3 units, 3 packets of 1 to 4 units, both allocators; 790 057 states | packets apart; chunks and blocks in one place; counters; no assertion fails but the one on the size of a packet |
| `sendbuffer_large` | 1 thread, 2 chunks of 3 units, packets of 1 to 4 units | **violated**: see findings |
| `memory_table` | the code's constants | **violated**: see findings |
| `profiler` | 2 threads, 4 locks of 3 classes, 3 nested guards; 878 448 states | crashes iff the orders form a cycle; what it prints is one; only objects of one class can deadlock |
| `listener` | 2 accept events, 5 sessions, 2 failures of `getpeername` for each event; 56 645 states | registrations add up; a completion connects its own session until `getpeername` fails |
| `gameserver` | 2 sessions, 4 players in all, 3 requests to enter, 2 chats, 1 disconnect; 2 280 663 states | one order of chats; a chat reaches its audience, once for each player |

Why the bounds are enough to be interesting:

* `jobqueue`: two queues are needed for the hand-over from inside a job, two threads for every race of the
  two atomics, and a job that submits to its own and to another queue, with one more job from outside on the
  second queue, for a submission at each point of an `Execute`.
* `spinlock`: three nested guards are the fewest for write-read-write, which crashes, and write-write-read,
  which does not; two threads make every conflict. The proofs lift the bounds.
* `session`: three sends are one in flight, one queued behind it and one that races with the completion.
  There is a single send event, so two workers and two senders fill every role, with a worker left for a
  disconnect.
* `recvbuffer`: 24 bytes go through a buffer of 12 twice, so `Clean` resets, compacts and does nothing. The
  proofs lift the bounds.
* `sendbuffer`: a thread keeps one chunk, so three chunks are one for each thread and one that is full of
  queued packets, or in the pool, or being recycled. Three blocks are two packets in one chunk and one in
  another. Packets of one to three units fill a chunk exactly, or leave a rest that is too small; one of
  four is larger than a chunk. The proofs
  lift the bounds.
* `profiler`: two objects of one class and two other classes allow every cycle of two and of three names,
  and the case the profiler cannot see; three nested guards put a lock between two others. A cycle of three
  orders is made by two threads one after the other, since the orders are remembered. The proofs lift the
  bounds.
* `listener`: one event with two extra registrations has three calls at a time, each with its session, and one
  more session that is being connected; a second event shares the sessions with it. The proofs lift the
  bounds.
* `gameserver`: four players are two sessions with two each, or one that has logged in twice. Three requests
  are two players of one session and one of the other, or one player twice; two chats give an order, and one
  disconnect may strike before, in or after a broadcast. The proofs lift the bounds.

Deadlock is checked in `jobqueue`. In the others the program may stop: no more sends within the bound, a crash
or a failed assertion, a stream that has ended, a constructor that is done, no chunk left of the bounded number,
no client or chat left. In `profiler` threads may really deadlock, on two objects of one class;
`OnlyOneClassDeadlocks` is about that.

### Fairness

* `jobqueue`: every thread goes on (`WF` of its steps and of the clock). `SF(TakeGlobal)`: a worker whose
  `Dispatch(10)` brings nothing reaches `DoGlobalQueueWork` with 54 of its 64 ms left, so it is not late in
  every turn. A server that is overloaded for ever is outside this assumption, and would starve the global
  queue.
* `spinlock`: threads inside the lock go on; `SF(CloseGuard)`: critical sections end. Nothing is assumed of
  who wins an exchange.
* `session_liveness`: threads go on. `ConnectEx` and `DisconnectEx` complete, and a `WSARecv` does once the
  connection is over. Of a `WSASend`, and of a `WSARecv` on a healthy socket, nothing is assumed, as a peer may
  never read and never send: `QueueDrains` therefore allows a queue that waits behind a `WSASend` that is
  pending for ever.

The other runs have safety properties only and no fairness.

## 4. Findings

1. **A stranded buffer** (`session_stranded`, `Session.cpp:208`). After an immediate failure of `WSASend`
   that does not disconnect, the flag is cleared outside the lock; a buffer pushed in between waits until
   somebody sends again.
2. **A packet larger than a chunk** (`sendbuffer_large`, `SendBuffer.cpp:48`). `SendBufferChunk::Open` asserts
   that a packet has at most 6000 bytes. `MakeSendBuffer` opens what a message takes, up to 65535 bytes, and
   `Handle_C_CHAT` repeats a message as long as the one it received (`ClientPacketHandler.cpp:87-89`). Nothing
   in between bounds it.
3. **Sizes without a pool** (`memory_table`, `Memory.cpp:46`). The loops count on with `size` from one to
   the next: 32 to 1024, 1056 to 1952, 2080 to 3872. The entries from 3873 to 4096, which `Memory.h:20`
   calls the largest pool size, stay unwritten, and `Allocate` would follow them. They are used only without
   `_STOMP`.

Some behaviours of the models that no run asks about. One is against a comment, on a path that only the dummy
client has: a `ConnectEx` that completes with an error is processed as a success (`Session.cpp:217`), so
`_connected`, which is there for checking the state of the connection (`Session.h:76`), is set on a socket that
was never connected. Of the others no text of the repository promises anything else. In `Session`, if
`DisconnectEx` fails at once the session is never released; if `WSARecv` fails with another error than a reset
it stays connected and deaf; on a client `OnDisconnected` may overtake `OnConnected`. The properties
`DisconnectedIsReleased` and `CloseIsNoticed` are checked without such failures, `CallbacksInOrder` asks for the
order on a server only. In `JobQueue` a queue that was cleared never counts as idle again, and an overloaded
server would starve the global queue. In `SpinLock` write, read, write guards of one thread crash when the inner
write is closed, which the rule at `Lock.cpp:54` says, although C++ closes them in no other order; nothing in
the repository nests them so. In `Listener`, after a failed `getpeername`, the event has one registration too
many for ever: each registration destroys the session that the one before had offered, and two completions may
connect one session. In `GameServer` a client may get a chat before `S_ENTER_GAME`; one that enters with several
of its players gets each chat once for each; one that names a player it does not have ends the program; and
players never leave the room (`Room::Leave` has no caller). In `DeadLockProfiler` two objects of one class may
deadlock unseen, and a thread that takes `A`, `B` and `A` again, which the lock allows, is reported as a cycle.

## 5. Proofs

TLAPS proves the following for every value of the constants, from the named assumptions alone.

* **JobQueueProofs** (`JobQueueAssumption`: finitely many threads, `None` is not a queue or a job, `Target`
  and `Calls` are typed, and no two places in the bodies of jobs submit the same job). `TypeCorrect`, then
  `QueueHasOneCustodian`, `SerialExecution` and `CountIsExact`. The last three are not inductive alone: that a
  submitter that counts 0 may take custody needs "count 0 means nobody has custody", and that an executor that
  settles to 0 may let go needs the exact count and that it is the only executor. The invariant is therefore
  `TypeOK`, `Shape` (which locals are set at which program counter), `Custody` (each queue's count is nonzero
  iff somebody has the duty, and no two do) and `CountExact` together. `Custody` states with quantifiers what
  `OneCustodian` states with a set of tagged holders; the bridge is a lemma. `JobsRunInOrder` adds what an
  executor still has of its batch: the jobs that arrived are those begun, then the rest of the batch of the
  executor, then those in the queue, so that a new executor goes on where the last one stopped.
  `ImplementsExecutor` maps `EnqueueJob` to `Submit`, the start
  of a job to `Start`, its end to `Finish`, `ClearJob` to `Drop`, and every other step to a stutter. It uses
  these invariants and one more, `JobOnce`: a job that somebody is pushing or is going to
  submit has not been submitted, by anyone. That is not inductive without knowing that what a body submits is
  submitted only by that body, after it began (`Fresh`), and that a body is begun once, which is the order
  again. The fairness of `SerialExecutor!Spec` stays with TLC.
* **SpinLockProofs** (`SpinLockAssumption`). `MutualExclusion`, `WordTellsTheTruth`, `WriteCountIsPrivate`,
  `OwnReadsCrash`, `TypeCorrect`. The invariant `LockInv` adds to them what a thread knows at each program
  counter and that `_writeCount` is the number of write guards, less one while the owner is between the exchange
  and the increment or between the decrement and the store. Guards are places on stacks, and the lemmas
  `PushGuard` and `PopGuard` say how opening and closing changes their number. Guards of any nesting and
  timeouts are included. `OwnReadsCrash` rests on the same invariant: when an owner closes a write guard, the
  readers that the word counts are its own. `Implementation` maps the step that pushes or pops a guard to the
  step of `RWLock`, and all others to stutters.
* **RecvBufferProofs** (`RecvBufferAssumption`: at least 3 buffers, packets of at least a header and at most a
  buffer size). `AlwaysRoom`, `DataIsIntact`, `Framing`, `NothingLeftBehind`, `TypeCorrect`. The invariant
  says that the bytes up to the end are the last that arrived, that the packets delivered end inside them, and
  that less than one packet is left when the framing loop has ended: so the data that `Clean` moves is shorter
  than a buffer size and lies behind at least one, which is why `memcpy` cannot overlap.
* **SessionProofs** (`SessionAssumption`). `SendEventIsExclusive`, `RequestsHoldReferences`,
  `ReleaseFindsSession`, `CallbacksAreInOrder`, `PacketsLeaveInOrder`, `TypeCorrect`. A thread's place is its
  program counter with the stack of the functions it is in; `Place` lists the places there are. From its place
  follows what a thread is in charge of: using the send event, receiving, beginning the connection, ending it.
  The invariant says that each of these charges is with one thread, or with the kernel, and never with both;
  that a session in its first steps is known to nobody else; and that requests are owned. `OneSendAtATime`
  alone is not inductive: `_sendRegistered` may be read by any thread, and only the charge tells who set it.
  The order on the wire builds on that: the buffers in the event count as unsent while the thread in charge
  has them and no `WSASend` has taken them, and what is on the wire, then those, then the queue, is what was
  pushed without what was given up, in the same order; whoever drains the queue finds the event empty.
* **SendBufferProofs** (`MemoryPoolAssumption`, `SendBufferAssumption`: a packet has at least one byte, and may
  be larger than a chunk). `PacketsApart`, `ChunksNotLost`, `BlocksNotLost`, `CountersAreTrue`,
  `OtherAssertionsHold`, `TypeCorrect`. The invariant says where each block and each chunk is, that packets of a
  chunk end where it is used up to, and that the one being written begins there. That `Reset` cannot hit a chunk
  in use needs "a chunk that `Pop` has delivered has no packets", which needs the places of chunks. For the
  counters each thread between two steps of the pool is a block that is counted on one side and linked on the
  other.
* **DeadLockProfilerProofs** (`ProfilerAssumption`: `None` is not a lock or a thread; the sets may be
  infinite). `CrashMeansCycle`, `PrintsACycle`, `DeadlocksHaveOneClass`. The invariant is the textbook
  argument for depth-first search, kept while the search runs: the ids discovered and not finished are the
  path of calls, in the order of their numbers, and `_parent` leads back along it (`Path`); an order that was
  looked at leads to a finished id or on along the path (`Looked`); what lies behind finished ids is finished
  and has no cycle (`NoCycleBehind`). So a search that ends has found all orders without a cycle, and a back
  edge closes one. Between searches the orders form no cycle and every stack keeps to them (`Orders`), which
  gives the third theorem. In a smallest deadlock over two classes, take the ids on the stacks of its threads.
  Each comes before another of them: where it is not on top, up that stack; and if it is only on tops, the
  threads that wait for it are not all, so one of them waits for a thread that waits for another class and has
  the id below its top. That is a cycle.
* **ListenerProofs** (`ListenerAssumption`: finitely many sessions, which are not events; failures of
  `getpeername` are bounded by any number). `NoEventForgotten`, `ConnectsOwn`. `RegistrationsAddUp` needs what
  an actor's locals are at each place (`Shape`), that a session which an event or a local refers to exists and
  belongs to that event (`Alive`), and that a session which is offered, or whose completion waits, has no
  handler yet (`Awaited`); without them a registration could destroy a session that was counted for another
  event. With one registration and no failure, `OneCall` says that an event has a single call, so whoever is
  in `ProcessAccept` is alone with the event, and the session that it read is the one whose call completed.
* **GameServerProofs** (`GameServerAssumption`: finitely many requests to enter; chats are not the other
  packets). `ChatsInOneOrder`, `ChatsReachAudience`. The invariant says where a job of the room is (`JobsOnce`),
  that the room is the players whose entering has ended (`RoomOfEntered`), that the audience of a waiting chat
  is those who had asked to enter and do not wait behind it (`AudienceAhead`), that a chat which is being
  broadcast comes last on every wire that has it (`WiresFollow`), and that a session has been sent as many
  copies of a chat as it has players in the room that the loop has passed (`Reached`).

Model-checked only: liveness, which is out of the prover's reach (`EveryJobRuns`, `DrainedQueueGoesIdle`,
`OnlyOvertaken`, `QueueDrains`, `CloseIsNoticed`, `DisconnectedIsReleased`, and the fairness in
`ImplementsSerialExecutor`), and the three runs that find a violation. Every other property of the runs is the
property of a theorem.

## 6. Not modelled

* Windows itself: the kernel and the clock are nondeterministic. Allocation failure. The contents of
  packets.
* Thread start and `Join`: the workers never end. The shutdown: `CloseService` is empty.
* `Room::Leave`, `GameSessionManager::Broadcast`: nobody calls them. `GameSessionManager` is otherwise a set
  under a lock that is never read.
* `MemoryManager::Allocate` and `Release` beyond the table and the pool they go to: the rest is `malloc`.
  The destructors at the end of the program.
* The loop of `ClientService::Start`, which creates sessions one after the other in one thread: `Session`
  models one of them.
* The depth of the recursion of `RegisterAccept` while `AcceptEx` fails at once: the model has each call, and
  no stack.
* Reference counts of `RefCountable` (the server uses `std::shared_ptr`), byte readers and writers, type
  lists, socket and address wrappers: no state over time, or unused.
* The packet generator, generated message classes, vendored protobuf, the Unreal stub.

The last item is nearly all of the repository by lines: the hand-written program is about 4,000 lines, the
rest under `Libraries/` is a copy of protobuf. The models cover the stateful part of the former.

## 7. Plan

Done, in the order of importance: the scheduler, the lock, the session, the receive path, the send buffers
and their memory, the listener, the game, the profiler, the memory table, with their proofs. What could
follow:

1. `GameServer` on `Listener`, so that a session that was connected twice is seen by the game.
2. Several sessions with their own send events in one model, with packets shared by their queues, on
   `SendBuffer`.
3. A model of shutdown and of `Room::Leave`, once the code has one.
