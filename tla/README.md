# A TLA+ model of elliptics

Elliptics is a distributed key/value storage. A node keeps connections
(*states*) to other nodes and clients, a route table from key ranges to states,
and pools of threads that execute commands. This directory models the parts in
which threads, messages and failures meet, checks them with TLC on small
instances, and proves the main safety properties of its core with TLAPS for all
instances. `PROJECT.json` lists the components, runs, mutants, findings, hazards
and theorems, and maps every definition to the lines it models.

## The system

| part | source | module |
|---|---|---|
| operation locks, one per key | `library/locks.c` | `OpLock`, `KeyLock` |
| transactions of a connection | `library/trans.c`, `net.c` | `Trans` |
| IO thread pools | `library/pool.c` | `IoPool`, `ReplyOrder` |
| send queue and watermarks | `library/net.c`, `pool.c`, `dnet.c` | `SendQueue` |
| route table, states, join | `library/node.c`, `net.c`, `dnet.c` | `RouteTable` |
| connecting, reconnection, discovery | `library/dnet_common.c`, `trans.c`, `net.c`, `discovery.c` | `Connect` |
| command dispatcher, notifications | `library/dnet.c`, `notify.c` | `Commands` |
| iterators | `library/dnet.c`, `dnet_common.c` | `Iterator` |
| containers of iterator results | `library/dnet_common.c` | `Container` |
| cache | `cache/` | `Cache` |
| secondary indexes | `indexes/`, `bindings/cpp/session_indexes.cpp` | `Indexes`, `IndexFind` |
| blocking calls of the C client | `library/dnet_common.c` | `ClientWait` |
| requests and results of the C++ client | `bindings/cpp/callback_p.h`, `async_result.cpp` | `Request`, `AsyncResult` |
| calls built from requests | `bindings/cpp/session.cpp` | `Latest`, `ChunkWrite`, `Range` |
| server-side applications | `srw/srw.cpp` | `Srw` |
| start and stop of a server | `example/config.c`, `library/server.c`, `node.c` | `Lifecycle` |
| red-black tree | `library/rbtree.c` | `RbTree` |

A client's call becomes one or more requests (`ClientWait`, `Request`), each of
them a transaction (`Trans`) to the state that the route table gives for its key
(`RouteTable`, kept filled by `Connect`). The bytes go through the send queue of
the connection (`SendQueue`). The network thread of the peer reads them and puts
the request into a pool (`IoPool`), where an IO thread takes it, locks the key
(`OpLock`) and executes it (`Commands`), in the cache, the backend, the indexes, an
iterator or an application. The replies travel the same way back, and an IO
thread of the sender runs the callback of the transaction, which ends the request
(`Request`), fills its result (`AsyncResult`) or wakes the caller (`ClientWait`).

## Modules

In all modules an action is what the code does between two points at which
another thread may see it: a critical section, a callback, one message. Names are
the source's. Bounds on what an environment does (faults, messages, spurious
wakeups) are constants in the guards.

**`OpLock`** has the entry table (`lock_tree`, `lock_list`), the fields of the
entries (`refcnt`, `locked`) and the threads sleeping on them. An operation is
two actions, one under the table lock and one under the entry lock, because
everything interesting happens in between. The function returns silently when
the list is empty; `exhausted` remembers that this has happened. `KeyLock` is
the abstract lock per key.

**`Trans`** has the tree and the timeout list of one connection, the reference
counts of the transactions and of the state, and the threads that race for a
transaction: its sender, the IO thread with a reply, the stall checker, the
network thread and a handler that reset the connection.

**`IoPool`** has the request list of a pool and what each thread has claimed
and is working on. `ReplyOrder` is the abstract promise: a queue per transaction
that one worker at a time empties.

**`SendQueue`** has the send queue, the registration for EPOLLOUT, the counter
of iterator replies and the sleeping iterators. The reply is queued, counted
and slept on in three actions; the network thread unlinks, counts down and
broadcasts in three.

**`RouteTable`** has the groups with their sorted arrays of ids, the lists the
states are on, their reference counts, and the threads that create, join, reset
and look up states. What the code does under `state_lock` is one action;
`dnet_cmd_join_client` unlinks the state without that lock, which is an action of
its own. `Search` is the binary search of the code, compared with the nearest id
by `SearchNearest`. A join that was overtaken by a reset puts a dead state into
the table (`zombies` remembers it); lookups may then get a state whose last
reference has been put, so `NoUseAfterFree` is claimed only until that happens.

**`Connect`** follows each descriptor from `socket()` through greeting and route
list to a state, its reset and the reconnection list, for the main thread, the
reconnection thread and the threads that handle route lists. `twice` remembers
that a descriptor was closed by two owners.

**`Commands`** follows requests through `dnet_process_cmd_raw`: the lock of the
key, the handler, the flag that asks for an acknowledge and everybody who clears
or sets it, and the packets sent. The cache is reduced to what decides who
answers. Adding, removing and sending notifications are commands too.

**`Cache`** has the containers of one `cache_t`, the objects and the disk. A step
is one hold of `m_lock` or one disk operation without it; the life-check thread
and the destructor run beside the commands.

**`Iterator`** has a list of iterators, each in the thread that runs it, and the
threads that pause, continue and cancel them. **`Container`** appends, sorts and
subtracts the responses they send.

**`Indexes`** has the list of an object's indexes, the tables of the indexes, the
functors that update them, and the operation lock, which an update keeps until
the last node has answered. **`IndexFind`** has the shards a search asks at the
same time, group after group.

**`ClientWait`** has the `struct dnet_wait` that a caller shares with the
callbacks of its transactions, and who frees it when. **`Request`** counts the
transactions of a request in `start()` and `handle()` and asks one group after
another. **`AsyncResult`** has the queue, the handlers, filter and checker of a
result, and results made from others. **`Latest`** has clients that look up, read,
convert and write the replicas of one object; **`ChunkWrite`** one write in chunks
over groups that may fail; **`Range`** the walk over the ring of ids.

**`Srw`** has the events of one application and the holders of their upstream; the
engine is external. **`Lifecycle`** has the stages of a start with the label each
failure jumps to, and the order in which a stop undoes them while threads still
serve. **`RbTree`** is the tree as a function from keys to nodes.

`MC` modules give sets their values. `MCOpLock`, `MCRouteTable`, `MCClient` and
`MCServer` each check several components in one run: the variable `part`, chosen
in the initial state, says which component a behaviour is about, and `Only` keeps
the variables of the others still. Such a run visits the sum of the state spaces
of its components, not their product; components do not interact in it. Where
they do interact in the code, the module of one contains what it needs of the other
(the operation lock in `Commands` and `Indexes`, the end of a transaction in
`ClientWait` and `Request`), as the other module shows it to be.

## Runs

| run | shows |
|---|---|
| `oplock` | mutual exclusion, no recycled entry in use, no lost wakeup, no refusal, progress per key and the refinement of `KeyLock` with an entry per thread; what still holds with one entry and `dnet_optrylock`; updates of indexes exclude each other, keep list and tables alike and are answered; searches are exact; the red-black tree and the difference of containers |
| `trans` | one callback at a time, one final callback, no use after free of transaction or state, exact reference counts, under replies, timeouts and resets |
| `trans_reset` | every listed transaction gets its final callback, by a reply, a timeout, a reset or the failure of its send (memory may be short), when no partial replies are sent |
| `client` | replies to one transaction are handled one at a time, in order, and all of them; reference counts when requests cannot be queued; the waits of the C client; requests, results and calls of the C++ client |
| `send_queue` | nothing waits in the queue without EPOLLOUT, what is queued on a live connection is sent, and the length of the queue is bounded |
| `cluster` | the table can always be searched and leads to the nearest id and a listed state, groups are counted exactly, no state loses ids to another; one state per peer, no socket lost, no peer forgotten |
| `server` | cache and disk agree with what was acknowledged; commands are answered once, under their lock; iterators send every key once and heed a pause; nothing is left after a failed start or a stop; events of applications are answered once; all of it ends |

Five runs show that the code does not do what its comments or its changelog say;
`findings` quotes them:

- `trans_nomem_race`: the error path of `dnet_trans_send` may remove a
  transaction whose callback another thread is running.
- `trans_orphan`: a partial reply races with a reset, and its transaction is
  never dropped.
- `trans_late`: a transaction inserted after the reset is never dropped.
- `send_interrupt`: an iterator asleep at the high watermark is not interrupted
  when its peer disconnects.
- `index_errors`: an update of indexes in which a step fails is not answered.

Other claims of comments and headers hold only with an exception. The run checks
the claim with its exception; the bare claim is stated in the module for the
reader, is not true of the code, and belongs to no run:

| claim | module | what the code does |
|---|---|---|
| `AckSent` | `Commands` | a write that meets an append in the cache gets no acknowledge |
| `NoLockKeepsLocks` | `Commands` | a lookup through the cache loses `DNET_FLAGS_NOLOCK`, and the command unlocks what it never locked |
| `AlwaysLinked` | `Cache` | an object may be erased from `m_lifeset` after a write dropped its lifetime |
| `CasCompares` | `Cache` | a write at offset 0 of a key that is not cached compares before it has looked at the disk |
| `EmptyTimesAskForAll` | `Iterator` | a time range with both ends empty is not ignored |
| `BackendCleaned` | `Lifecycle` | some failures of a start leave the backend |
| `ClosedOnce` | `Connect` | an error path closes a descriptor that was closed already |
| `RemoveBlocks` | `ClientWait` | `dnet_remove_object` does not wait for its acknowledge |
| `AllGroupsTook` | `ChunkWrite` | the result of a chunked write has no total, so `checkers::all` turns it down |
| `ConvertsLatest` | `Latest` | `write_cas` reads the first group that has the object, not the latest replica |
| `HonoursLimit` | `Range` | a node counts keys it did not send, and the walk wraps the limit around |
| `DiffIsNewer` | `Container` | a response of the same time and a larger size counts as newer |
| `UpdatesAlwaysExclude` | `Indexes` | an update that needs no other node releases the lock twice |
| `AckedIsIndexed` | `Indexes` | the final answer has the status of the last node only |

### Bounds

Three threads, two keys and one to three entries let an entry be recycled
between the two halves of an operation. Two transactions with a partial and a
final reply let every pair of threads meet on one transaction while another
keeps the list non-empty. A connection is reset after two stalls, in `trans_reset`
after one, where memory may be short as well. Two threads and two transactions with two replies let
one thread be passed over by the other; the safety part is proved for any number.
Watermarks of 2 and 1 with two iterators let both sleep, be woken late and sleep
again; the nine requests that may be queued exceed the bound that is checked.

Three connections, two of them from one peer and all with an id in common, let
ids be skipped, freed and taken again while a fourth thread searches. Ids a peer
announces are distinct, and it joins once per connection, as this code does. One
peer and two descriptors let a reconnection meet an accepted connection, and a
descriptor be reused under the thread that had it.

Two groups are enough to ask one after the other, to lose one, and to hold
different replicas; two entries and two sources to have a result end while
another is delivered; two clients and two attempts to make a conditional write
fail and be repeated. Contents of up to four chunks of every size have a first, a
middle and a last chunk, and one that is not full. Two updates of two indexes, one
of which lives on another node, overlap in every way the operation lock allows.
Eight keys give red-black trees in which every case of insertion and erasure
occurs. Two keys, two IO threads, three commands and two ticks of the clock let
the life-check thread expire or write back an object around every command; two of
three requests to the dispatcher meet on a key while a third removes a
notification or finds the node read-only.

`QueueBounded` says how far the watermarks really bound the queue. An iterator
may exceed the high watermark by *two* replies, since the broadcast follows the
decrement outside the lock and may wake an iterator that has just gone back to
sleep; with one reply per iterator the bound is violated. The terms `others` and
`spurious` are needed too: the network thread counts down for requests that were
never counted, so `send_queue_size` is not, as elliptics.h:151 has it, the number
of queued iterator replies, and on a busy connection the bound drifts.

### Fairness

Threads that can run do run (weak fairness of each thread). A transaction the
checker looks at again and again times out in the end, a peer that stays
connected reads, and the reconnection thread goes on with its list although
other threads disable it for a while (strong fairness). Where a module builds on
transactions, each of them is assumed to end, which `trans_reset` shows except for
the cases of `trans_orphan` and `trans_late`. An engine closes the streams it took. Nothing forces a caller to start an operation, a peer to
answer, a timeout to fire first, or a fault to happen. Spurious wakeups have no
fairness.

Deadlock is checked in `oplock`, whose threads go on for ever. The other systems
come to rest: all requests are served, the pool has exited, the call has returned.

## Proofs

The theorems hold for every value of the constants that satisfies the named
assumptions of the modules: `OpLock` needs finite sets of threads and entries,
`Trans` a finite set of transactions, `SendQueue` of iterators and `RouteTable` of
connections and of threads that look keys up, because their invariants count; `IoPool`
needs neither, only the bound `MaxReplies` on replies per transaction. `SendQueue`
also assumes that the low watermark is below the high one. `ClientWait`
assumes a finite set of groups that is smaller than the number of references a caller
holds in advance while it sends (`HOLD`, `INT_MAX`), and `Connect` that the configured
addresses are addresses of peers and that the limit on descriptors is a number.

- `OpLockProofs`: the table is consistent; mutual exclusion, no stale entry and
  no lost wakeup until the list has run empty. The invariant has a part that
  always holds (the table) and one that holds until then: every thread that
  waits for or works under an entry is covered by one of its references, a set
  flag belongs to one holder, and without `dnet_optrylock` callers the references
  are exactly those threads (a refused `dnet_optrylock` leaves one behind). With
  as many entries as threads and no such caller the list never runs empty and
  the table refines `KeyLock`. The property
  `FewEntriesSafe` states the first of these theorems of another instance of the
  table, with fewer entries than threads.
- `TransProofs`: reference counts are exact, nothing freed is held, the final
  callback runs at most once, callbacks run one at a time, and the state outlives
  all that refers to it. All of it assumes that memory does not run out
  (`~NoMemory`); what happens when it does is only model-checked. The inductive
  invariant says for each place a sender, IO thread or dropper can be in which
  references it owns and on which lists its transaction is. `TransSteps` defines it
  and proves that every step keeps the types and the account of the references, and
  leaves alone the transactions it does not concern; `TransProofs` puts these
  together. For the
  state a second invariant, `StateInv`, counts: its references are one of the network
  thread, and one for each transaction that is allocated, each sender and each IO
  thread at work, and each reply that is still to be read. Every action changes one
  of these sets by one element and the counter by one, or neither.
- `IoPoolProofs`: replies are handled exclusively, and the pool refines
  `ReplyOrder`. The invariant relates claims to work in progress and says that
  the queued replies of a transaction follow the handled ones without a gap.
- `SendQueueProofs`: the queue is never left without EPOLLOUT, and its length is
  bounded. The first is inductive with the place of the network thread. For the
  bound, `Accounted` balances the length of the queue with the counter, the
  replies queued and not counted yet, the request unlinked and not counted down yet,
  and the requests nobody counts; `CountBounded` bounds the counter by the high
  watermark, one reply per iterator, and one more for each that sleeps.
- `RouteTableProofs`: a group is referenced by exactly the states in it, every id of
  the table leads to a state of the group that is not freed, a group that exists can be
  searched, the search finds the nearest id, no connection disturbs the ids of another,
  and, until a state comes into the table after its reset, nobody holds a freed state.
  It begins with lemmas about the arrays. `SortIdsSorts`: the array `SortIds`
  makes is sorted and has the entries it was made of. `SearchFinds`: in a sorted array
  the loop of the binary search ends at the right place; if it did not for some bounds,
  there would be such bounds of least distance, and one turn of the loop leads to
  closer ones. The invariant says that the arrays are sorted and hold ids of members
  only, at least one of each member; that a group counts its members; that a state
  counts the threads that create, join or poll it and the ones that looked it up; and,
  in `Place`, where these threads can be when a state is in the table, dying or freed.
- `ClientWaitProofs`: a wait structure is freed when the caller and all callbacks are
  done with it and not touched afterwards, the private data outlives the callbacks that
  read it, a call that did not time out returns after the last answer and returns what
  the answers say. The invariant counts: the references are the caller's, one for each
  transaction that is under way, and the ones held in advance while transactions are
  still sent; and the condition counts the transactions that have woken the caller.
  For each call another part relates the status it collects to the answers so far.
  `dnet_remove_object` with several transactions and `dnet_update_status` are left
  out, as in the property: their counters are wrong. A read goes from group to group
  with one structure, so for it the invariant only says that a condition that is not
  negative comes from an acknowledgement of some group.
- `ConnectProofs`: one state for a peer, no lost socket, no forgotten peer. The
  invariant has three parts. `OwnInv`: the sockets that are in no state and the
  threads between opening and inserting one correspond one to one. `RouteInv`: two
  states of the table have different addresses; it holds because `dnet_idc_create`
  refuses ids that are there, whatever the two searches before it found. `KeptInv`: a
  wanted address is on a list, has a state that will put it there, or is the one the
  reconnection thread is trying; and when that thread gives up because a state
  exists, this is a state that will bring the address back.

The strengthened invariants were checked with TLC before they were proved.

Only model-checked: all liveness properties (fairness is out of the prover's
reach); what selects from or counts in sequences, like the order in which an iterator
sends (`SentInOrder`), the final answers of a script, the list of the cache or the
results of an asynchronous call, because what such a selection gives for every
sequence needs an induction over data;
what happens without memory; and the components beyond the core: `Commands`, `Cache`,
`Iterator`, `Container`, `Indexes`, `IndexFind`, the other client modules, `Srw`,
`Lifecycle`, `RbTree`.

## Not modelled

Logging, hash functions, wrappers of system calls, the parsing of options, the
bytes of messages and the files of the backends, and the recovery programs in
Python, which drive iterators, containers and sessions. Within the modelled parts:
the order of the timeout list (any listed transaction may time out), the weights
of states, the forwarding of commands to other nodes, the packing of index
tables, statistics, and the destruction of tables after all threads have stopped.
