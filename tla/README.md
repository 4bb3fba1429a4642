# A TLA+ development of rocksfs

rocksfs is a metadata service for a distributed file system. Client processes intercept
file system calls and send metadata operations over eRPC to a server process. The server
spreads the directories over *regions*, ranges of hashes of parent inode numbers, and splits
a region that has grown too large: the upper part of its range moves to another thread while
the region goes on serving. This directory models the server's threads, the split and the
clients' part in it, the readers-writer lock they share, the descriptor table, the
directory listings and the dentry cache of a client, and the eRPC library between them: its
datapath, its session management and its buffer allocator. TLC checks the models on small
instances and TLAPS proves the safety properties for all values of the constants.

## 1. Inventory

### The parts, their state and their operations

| part | code | state | operations |
|---|---|---|---|
| readers-writer lock | `include/util/rwlock.h` | `m_readCount`, `m_writeCount`, `m_isWriting`, two condition variables | lockRead, unlockRead, lockWrite, unlockWrite |
| regions | `include/common/region.h`, `include/server/region_and_log.h` | a range, the id of the left half, `kv_num`, `log_id`, a status | range check, status check, threshold test, the arithmetic of a split |
| foreground thread | `src/server/server_handler.cc`, `metafs_server.cc` | `s_ctx`: its `region_map`, `metadb`, `alloc_inode`, `pinode_table` | handlers of open, mknod, stat, unlink, mkdir, readdir, rmdir, getinode, read_region_map |
| operation log | `src/server/region_and_log.cc` (log_op) | `log_id` of the region, one log database per thread | append, read a batch, replay |
| split thread | `metafs_server.cc` (split_region_thread), `region_and_log.cc` | the queue entry it works on, a thread-local `s_ctx`, the log cursor | create the region on the target, scan directories, send log, publish, finish |
| global region map | `metafs_server.h` | `global_region_map`, `global_region_id`, an RWLock | copied to clients; the split thread replaces one entry by two |
| metadata client | `src/client/metaclient.cc`, `src/rpc/rpc_client.cc` | a cached region map, a dentry cache, one request buffer | route, send, retry once, read the region map |
| dentry cache | `include/client/dentry_cache.h`, `include/common/lrucache.h` | path to inode, LRU | lookup, insert |
| open files | `src/client/open_file_map.cc`, `open_dir.cc` | descriptor table, directory buffers | add, remove, dup, getdents paging |
| system call hooks | `src/client/hooks.cc`, `preload.cc` | - | translate a call to a client operation |
| metadata store | the library metakv (not in the repository) | (parent, name) to inode, inode to stat | insert, get, delete, ReadDir |
| eRPC datapath | `thirdparty/eRPC/src/rpc_impl`: `rpc_req.cc`, `rpc_resp.cc`, `rpc_cr.cc`, `rpc_rfr.cc`, `rpc_kick.cc`, `rpc_queues.cc`, `rpc_pkt_loss.cc`, `rpc_rx.cc` | per session: slots with packet counters, credits, backlog; per Rpc: stall queue, timing wheel, TX batch | enqueue_request, enqueue_response, one handler per packet type, roll back after a timeout |
| eRPC session management | `rpc_sm_api.cc`, `rpc_sm_helpers.cc`, `rpc_connect_handlers.cc`, `rpc_disconnect_handlers.cc`, `nexus_sm_thread.cc` | `session_vec_`, session states, `sm_pending_reqs_`, `conn_req_token_map_`, ring entries | create, destroy, handlers of the four packet types, retries |
| eRPC allocator | `util/huge_alloc.cc`, `huge_alloc.h` | free list per class, reserved regions | alloc, free_buf, alloc_raw |
| other parts of eRPC | `cc/`, `heartbeat_mgr.h`, `nexus_bg_thread.cc`, `transport_impl/` | timing wheel, rate control, devices | pacing, I/O |
| configuration, logging, ids | `cJSON.cc`, `parser.h`, `fs_log.h`, `memcached_tool.h` | - | start-up only |

### How they interact

* A client computes the hash of the parent inode, looks the region up in its **cached** map
  and sends the request to the session of that region (`id` for an initial region,
  `JumpConsistentHash(id)` for a split-off one).
* The foreground thread looks the region up in its own map **by a field of the request that
  the client never sets**: the field overlays the client's id in the buffer that the first
  call, read_region_map, leaves behind. The handler of client `c` therefore works on region
  `c` of the thread that the request reaches. The hash field is not set either.
* mknod and mkdir that push `kv_num` above the threshold set the status by compare-and-swap,
  take ids from `global_region_id` until one leads to another thread, put the new region
  into their own `region_map` and push `(thread, id)` on the shared queue.
* The split thread pops an entry, asks the target thread to create the region (NotReady),
  scans the origin's `pinode_table` under its read lock, and sends the log in batches. When few
  records are left it replaces the map entry under the map's write lock and sets the origin to
  SplitAlmostDone, so that clients are told to refresh their map. With the last batch the target
  starts to serve, and the origin returns to Normal.

* The threads of a client process share one descriptor table. A hook looks a descriptor up in one
  lock period and uses it in another.

* Every call above is an eRPC request on a session. RpcClient and the split thread connect to all
  server threads first and wait for the callbacks; the servers may start later. A request's message buffer
  belongs to eRPC until the continuation runs; then RpcClient fills it again for the next call.
  The handlers are not idempotent: mknod answers kExists to a second copy.

Foreground threads and the split thread share `region_map`, the status, `log_id`,
`pinode_table`, the log database and the global map. Only the two maps have locks.

### What is hard

* **Interleavings**: a handler checks the status once and uses it several steps later; the
  split thread reads the log first and `log_id` afterwards; mkdir decides by the status
  whether to record a directory while the split thread scans the table; the lock's notifications;
  a descriptor number is chosen, checked and inserted under separate locks, and getdents reads
  and writes its position in separate steps.
* **Ordering**: the target must not serve before the origin has stopped; the map entry must
  not lead to a thread without the region.
* **An unreliable network**: packets are lost, arrive late, twice and in any order; timeouts come too early; a
  request is sent again while its handler runs, its answer arrives after the slot has gone on. Buffers
  must not be reused while the NIC has still to read them. Connect requests are repeated and meet sessions
  that were disconnected.
* **Boundaries**: `end/2` and `end/2 + 1` computed at two places and times on closed ranges;
  an unsigned comparison of a signed count; one byte read where eight were written; descriptor
  numbers that run out and start again; size classes of the allocator.
* **Progress**: a request completes whichever packets are lost, and although slots wait for credits; a client connects
  to a server that starts later; a split has to end although the foreground thread keeps logging; the event
  loops end after 1000 seconds.

`PROJECT.json` lists the hazards at their lines, with the properties that cover them. Smaller ones that no property
covers:

* threads of one client share the request buffers and the dentry cache, whose lock is a NullLock (`dentry_cache.h:24`);
  the cache is not told of removals (`metaclient.cc:97`);
* foreground threads read `st_ctx`, which the split thread creates while they already serve (`region_and_log.cc:56`);
* the region map is copied into a message with room for a fixed number of entries (`server_handler.cc:513`);
* a listing of an empty directory leaves `is_uncomplete` and `next_offset` of an older response (`server_handler.cc:382`);
* mkdir answers 0 also after an error (`hooks.cc:303`), and every lseek fails (`hooks.cc:494`);
* eRPC's control packets take their buffers from a ring that is reused without asking the NIC (`rpc_cr.cc:11`);
  `create_session` may return -ENOMEM, which `rpc_client.h:72` does not test; `msb_index(0)` is bsr on 0
  (`math_utils.h:38`); the slots of the timing wheel are computed from truncated cycles (`timing_wheel.h:151`).

### What makes each part correct

| part | properties |
|---|---|
| lock | exclusion, exact counters and writers first (proved), no lost wake-up, progress; it implements `ReadersWriters` |
| global map | always a partition of the hash space; agrees with the threads' regions; changes only as `Ownership` allows |
| split pipeline | one split per region at a time; the code's assertions hold; a split ends; no two threads serve one hash |
| log | no gaps |
| descriptors | an open gets a number of its own, a close hits the file it found |
| listings | no entry is passed over, every record lies within the caller's buffer |
| dentry cache | list and table agree, the oldest goes first, the last value is found |
| handlers | a success is whole although the two writes behind it may fail one by one; entries keep their stats; `kv_num` never exceeds what is stored |
| eRPC datapath | every request is handled once and completed once with its own answer (`RpcService`); credits add up; no slot is forgotten; assertions hold for packets of any age; the NIC reads only live buffers; requests complete |
| eRPC sessions | at most one server session each; a connected client has a live peer; ring entries add up; callbacks in order; connecting ends in a callback |
| eRPC allocator | every byte in exactly one buffer; the smallest class that fits |

## 2. Modules

| module | what it is |
|---|---|
| `ReadersWriters` | the abstract readers-writer lock |
| `RWLock` | rwlock.h; one action per call, per wake-up, and one for wake-ups without a cause |
| `RWLockProofs` | its theorems |
| `Regions` | constants, ranges, split arithmetic, statuses, `find_region_id` |
| `MetaKV` | the store of a thread, external, from how the handlers use it |
| `ServerContext` | the shared variables, `Init`, and the process dying (`p_assert`, null dereference) |
| `FsHandlers` | the steps of a foreground thread |
| `RegionSplit` | the steps of the split thread and of the handlers it calls on the target |
| `MetaClient` | the steps of a client |
| `Ownership` | the abstract specification of splitting: who owns which hashes |
| `MetaFS` | the composition, fairness and the properties |
| `ServerProofs` | its theorems: types; the region map and the refinement of `Ownership`; the split pipeline, the log and the stores with failing writes |
| `OpenFileMap` | the descriptor table: numbers, the validation flag, the mutex, dup, dup2 |
| `Hooks` | the system call hooks on it: open, close, fstat, getdents, getdents64, and the properties |
| `HooksProofs` | its theorems |
| `LruCache` | lrucache.h as the dentry cache uses it |
| `LruCacheProofs` | its theorems |
| `RpcService` | the abstract specification of remote procedure calls: issued, handled, answered, done, once each |
| `ErpcDatapath` | both ends of one eRPC session over a network that loses, repeats and reorders |
| `ErpcDatapathProofs`, `ErpcServiceProofs` | its inductive invariant and the properties of credits, queues, assertions and the wheel; right answers, live buffers and the refinement of `RpcService` |
| `ErpcSession` | connecting and disconnecting sessions over UDP |
| `ErpcSessionProofs` | its theorems |
| `HugeAlloc` | the allocator of message buffers |
| `HugeAllocProofs` | its theorems |
| `MCRWLock`, `MCMetaFS`, `MCHooks`, `MCLruCache`, `MCErpcDatapath` | instances for TLC; `MCMetaFS` holds the real values of the two hash functions for the numbers that occur |

### State and steps

`region[t][id]` is what `s_ctx_arr[t].region_map` holds under `id`, with the status "Absent" for an
id it does not hold. `globalMap`, `globalId`, `queue`, `store`, `allocInode`, `pinodeTable` and
`logDb` are the variables of the same names in the code. `fg[t]`, `split` and `client[c]` hold what
the threads keep on their stacks: a `pc`, the request, the log id taken, and so on. `view[c]` is a client's
cached map. `crash` is "no" or the reason why the process died; no step follows then.

A step is the code between two accesses to state that another thread can change. A
handler of mknod or mkdir runs `idle -> status -> exec [-> addstat] [-> table] -> cas [-> split] -> log [-> logId -> put] -> reply`,
one of unlink or rmdir `idle -> status -> exec [-> delstat] -> log [-> logId -> put] -> reply`: the head with the range check,
`check_region_status`, the first call of the store (`InsertFileInode`, `DeleteFileInode`), the second (`InsertStat`,
`DeleteStat`) with the change of `kv_num`, the insertion into `pinode_table`, the threshold test with the compare-and-swap, each round
of the search for an id, the test whether to log, taking the log id, writing the record, the response. Every call of the store may
fail (`StoreMayFail`); it then changes nothing and returns an error, with which the handler goes on as the code does. A failed
`InsertStat` leaves an entry without a stat, which is counted: the client is told kENOENT, a repeated create kEXIST, a
stat kENOENT. A failed write to the log ends the process (`log_op_fail`). A rejected
request reads the status a second time, as the code does. The split thread
runs `poll -> create -> createReq -> createResp -> scan -> logRead -> logLeft [-> shrink -> publish]
-> logReq -> logResp`, then `logRead` again or `reset -> poll`; its RPCs are synchronous, and
the handler of the target runs when the target's foreground thread is idle. `TableLocked` and
`MapLocked` say when the split thread holds a lock that others need.

In `Hooks`, `thr[t]` is the call that thread `t` is in. `add` is `gen -> check [-> exist [-> regen -> exist
...]] -> insert`: each step is one lock period (or one read of the atomic flag), and dup runs the same
steps while it owns the recursive mutex. close is exist, then remove; fstat is exist, then get;
getdents is exist, get_dir, reading the position (`get_pos`), the loop with one step per record (`put_dent`, `end_dents`), and
setting the position (`set_pos`). `AsInt` and `AsUnsigned` are the conversions of the caller's size to an int and of `count - written`
to an unsigned int, with `UIntRange` for 2^32. An object is a small id that serves again when neither a descriptor nor a call refers to it.
`seen` records, for the properties only, which entries were handed out, and `dead` that a null pointer was dereferenced (fstat does so when another
thread closes its descriptor between exist and get); nothing follows then. Names are represented by
their lengths, which decide the size of a record. The answers of the server are chosen freely; a
failed open touches no descriptor. What the hooks return is left out.

`LruCache` has the list and the set of keys of the table; `At(k)` is the iterator that the table has for a key, as the place of
its node. `recent` and `latest` record, for the
properties, the order of use and the last value of each key.

In `ErpcDatapath`, `cl` and `sv` are the Rpc objects of the two ends, each run by one thread, so that a handler is one
step. `cl.slot[s]` has the fields of `SSlot` that matter: the request (`tx_msgbuf_`, None when free),
`cur_req_num_`, `num_tx_`, `num_rx_`, the response as far as it was copied, the wheel flags and count. Slots of the server
have `req_msgbuf_` (`body`), `tx_msgbuf_` (`resp`), `req_type_` (`busy`) and `sav_num_req_pkts_`. `credits`,
`free`, `backlog`, `stallq` and `wheel` are the queues of the code. `out` is the TX batch together with what was posted to
the NIC and not read yet: a packet there still refers to its message buffer, and `Drain` is
`drain_tx_batch_and_dma_queue`. What a packet carries is fixed in the model when it enters `out`, while the code keeps a pointer to the
buffer (`rpc.h:710`) that the NIC reads later; the two are the same as long as the buffer is not given back first, which is what
`ClientTxLive` and `ServerTxLive` say. With pacing `ClientTxLive` can fail (`paced_retx`), and `RightAnswers`, `ImplementsService` and their
theorems then speak of the packets as they were posted. The payload of a packet is the number of its request, which is enough to tell a wrong answer. `net` is a
set, and reading a packet does not remove it, so every packet may arrive again at any later time. Time does not
exist: a slot whose packets are under way may time out at any moment (`PktLossRetransmit`), a packet may leave the wheel at any moment,
and Timely's rate is a choice (`Congestion`) made anew whenever the code asks. Handlers answer at
some later step (`EnqueueResponse`), which includes the same event loop round. `ran` and `got` are histories for the properties.

In `ErpcSession`, `cl.state` is the state of the client's sessions ("gone" when the pointer in
`session_vec_` is null again), `sv.vec` the server's `session_vec_` with the client each session is for, `sv.token`
the `conn_req_token_map_`, `pending` the set `sm_pending_reqs_`, `cl.unresolved` a record of the sessions for which the client
found no route to the server's address, and `sv.up` says whether the Nexus has the
server's hook. Ring entries are counted in sessions. `MayFail` lets memory or routing information be missing, so that
the server refuses or the client has to disconnect at once. `HugeAlloc` is sequential: its operations run under a lock. Addresses are offsets into the memory reserved so far, so
that regions follow each other; a region keeps its address (`buf`) and whether it bypasses the classes (`raw`).
`SplitDown` is the loop of `alloc` that splits class after class, as a recursive function of its turns.

Abstractions of data: an inode number is the allocating thread, its counter and the
directory bit; a stat is only present or absent; a message holds `MsgLogs` log records; names are
model values. Path resolution is abstracted to the directories a client can know of
(`KnownDirs`), removed ones included, since the dentry cache is not told of removals. Replay is
modelled by what the handler does: the one byte it reads at the start of a record makes every
record a delete under the parent whose number is that byte.

`send_request` starts nothing beyond the bounds `MaxInode`, `MaxLogId` and `MaxMiscount` (`WithinBounds`), and ids end at
`MaxRegionId`. The program has no such limits; they bound the state space only, safety is proved without regard to their values, and `SplitCompletes`
is stated so that it does not profit from them. Client ids are those of initial regions (`ClientAssumption`): a larger one can
name a temporary region that the split thread deletes while a handler uses it.

Lines named `Mutant:` in the modules are variants of the definition that follows them, with a
plausible slip in it. `PROJECT.json` pairs each property with the variant that breaks it.

## 3. Runs

All instances of `MetaFS` have two foreground threads, as `config/` does, `SplitThreshold = 0`
so that the first entry starts a split, one log record per message, and `AlmostDoneLogs = 2`, so
that the transfer passes through all its states.

| run | what it shows |
|---|---|
| `rwlock` | four threads lock and unlock in every order, with spurious wake-ups: `MutualExclusion`, `NoLostWakeup`, refinement of `ReadersWriters`; with fairness, a waiting writer leads to a writer inside, and waiting readers get in once writers stop coming |
| `metafs` | one client calls seven of the eight operations (mknod is in `metafs_two`) while region 0 splits and calls of the store fail: map, ownership, log and store properties; with fairness, a split that has started ends, unless the process dies, a thread leaves its event loop, or the region goes on logging |
| `metafs_two` | two clients on two threads, both regions split at once and share the queue: no region is queued twice, the pipeline's assertions hold |
| `hooks` | two threads that open, close, fstat and list, before the numbers start again: `OpenGetsItsFile`, `CloseHitsItsFile`; overlapping listings pass no entry over (`NothingSkipped`), and records stay within the buffer (`GetdentsFits`) |
| `hooks_wrap` | one thread with open, close, dup and dup2, numbers start again while files are open: opens get numbers of their own |
| `lru_cache` | list and table agree, the most recent keys stay, a lookup finds the last value |
| `erpc` | one session with three slots, two credits, four requests of one to three packets, pacing, repeated and late packets, timeouts at any time: credits, queues, assertions, wheel flags, the server's buffers, right answers, and the refinement of `RpcService` |
| `erpc_lossy` | two slots and one credit over a network that also drops packets, without pacing: with fairness every request completes; the client's buffers are not reused too early |
| `erpc_session` | two sessions, a server that starts late with room for one, failures, lost connect packets: one server session each, live peers, ring entries, assertions, callbacks; with fairness every attempt to connect ends in a callback |
| `huge_alloc` | three classes, splits over two classes, a reservation that succeeds once and then fails, raw regions in between: no overlap, no leak, right classes |

Two runs show that the code does something else than a comment beside it says
(`findings` in `PROJECT.json` has the quotations):

| run | shows |
|---|---|
| `left_half` | region `[n, 2n-1]` is cut to `[n, n-1]`: `end/2` is the middle only of a range that starts at 0 |
| `paced_retx` | a retransmission that pacing puts into the timing wheel reaches the TX batch after the drain; the late answer to the first copy completes the request, and its buffer is the caller's again while the NIC has still to read it |

`MetaFS` builds on what `RpcService` promises: its requests arrive once and are answered once, and its clients and the split
thread wait for each answer. `erpc` shows that the datapath keeps that promise over an unreliable network.

Five further disagreements can be seen in the models, each by stating the quoted sentence as an invariant or an
action property; they are not runs of their own:

* `server_handler.cc:99`: after a failed range check the handlers send kUpdateRegionMap and go on; the operation is
  carried out and a second response enqueued for the request. `region_and_log.h:75` says that the client is told to refresh
  its map. The second `enqueue_response` also breaks eRPC's contract (`rpc_resp.cc:61` asserts that no response is stored).
* `region_and_log.cc:173`: a handler that was admitted earlier logs after the last batch has been put together; the target
  never gets the record, although `region_and_log.h:96` lets it serve only when all logs are applied.
* `server_handler.cc:277`: a directory made during a split never gets into `pinode_table`, although line 236 says
  that mkdir has to insert it for later splits.
* `server_handler.cc:92`: after a split, a request routed to the target meets a null region pointer and the process dies;
  `rpc_common.h:166` has an answer for requests at the wrong region.
* `open_file_map.cc:143`: the validation flag is reset while another thread has a number it has not inserted; the number is
  given out twice, of which line 193 says "This must not happen." It needs two threads and a second round of numbers.

More places where code and comment disagree, modelled as the code has them:

* `server_handler.cc:437`: `has_files` is `count == 0`, so rmdir removes a directory with entries,
  although the other branch says "can not rmdir, has file in this directoty".
* `server_handler.cc:629`: one byte is read where the record holds the eight bytes of the parent's
  number; the PUT flag in its second highest bit is never seen, and the target replays a put as a delete.
* `open_file_map.cc:176`: dup2 onto the very next number does not set the flag "to prevent duplicate
  fd idx in the future"; the next open returns that descriptor. The call is kept apart as `dup2next`
  and left out of the runs; no hook calls dup2 so far.
* `hooks.cc:523`: getdents reads and sets the position in separate lock periods, so two threads that list one
  directory may get the same entries (none is passed over), although the header expects that "multiple threads may want to
  update the file position".
* `hooks.cc:700`: getdents64 is called with the fourth argument, not the third, as the size of the buffer.
* `rpc_sm_helpers.cc:22`: every response takes its session off `sm_pending_reqs_`, also a late connect response for a session that is
  disconnecting. If its disconnect request was lost, nobody repeats it, and the callback that `rpc.h:221`
  promises does not come. No liveness of disconnecting is therefore stated. RocksFS does not destroy sessions, but eRPC disconnects
  one that it cannot use (`rpc_connect_handlers.cc:192`); if such a disconnect request is lost as well, the loop of `rpc_client.h:72`
  never gets its callback. `erpc_session` therefore loses connect packets only: with lost disconnect requests `ConnectEnds` is false.
* `rpc.h:192`: "A session management callback of type kConnected or kConnectFailed will be invoked after session creation
  completes or fails." When the client finds no route to the server (`rpc_connect_handlers.cc:182-204`) it disconnects the new session, and the only
  callback is kDisconnected. `CallbacksInOrder` has the promise for all sessions but these (`cl.unresolved`).
* `region.h:35` says of SplitAlmostDone that operations are not logged; `log_op` is called in that status too
  (`server_handler.cc:133`), by handlers that were admitted before.
* `server_handler.cc:608` warns that counting is inaccurate in a replay: every record changes `kv_num`, whether its
  operation did anything or not, and rmdir counts a removal that failed (line 446). `kv_num` can so fall short, even below zero, and a negative
  count is above the unsigned threshold and starts a split. `KvNumNeverOver` states the direction that holds.
* `rpc_connect_handlers.cc:168`: "The server didn't allocate session resources": a second copy of the connect request may be
  accepted after the first was refused, and then the server keeps a session that nobody disconnects.
* `rpc_disconnect_handlers.cc:59`: the comment says that ring entries are freed before the disconnect request
  is sent; they are freed when its answer arrives (line 90), which `RingsConserved` follows.

They bear on the passing runs. `MapsArePartitions`, `ImplementsOwnership` and `OneServerPerHash` are
checked and proved for splits of region 0, since `left_half` breaks them for the others;
`metafs_two` checks, and `ServerProofs` proves, what holds nevertheless for all clients. `hooks` has two threads and no second round of
numbers, `hooks_wrap` a second round and one thread, because the reset of the flag goes wrong with both. That fstat never
meets a null pointer is not stated: with two threads it is false, since a close may come between exist and get.

### Bounds

* `HashRange = 4` leaves room for one split of region 0 and for hashes on both sides of the border; a second split starts,
  takes an id and sends log, and stops at "range too small" (`shrink_left`) before it publishes anything. The values of XXH3 are scaled down from the real ones.
  The root hashes into region 0, so that in the runs a replay finds no entry of the root at its target; that a
  replay that does find one is harmless (`EntriesKeepStats`) rests on the proof.
* `MaxRegionId` 6 or 7: with the real `JumpConsistentHash(id, 2)`, 4 is the first id that thread 0
  may give away and 2, 3 are passed over, so the search loop runs several rounds; 5 and 6 are for the beginning of a second split.
* `MaxInode = 3` gives a directory, an entry and a repeated create. `MaxLogId = 2` gives
  FarToDone, AlmostDone and Done; the records of a first split are still there in a second. `MaxMiscount = 1` lets `kv_num` become
  negative, by an rmdir whose removal fails. `metafs` has `StoreMayFail`, which every call of the store uses;
  `metafs_two`, about the pipeline, has not. Nor does it let the event loops end (`LoopMayEnd`), which takes 1000 seconds: a
  thread that has left its loop only takes steps away.
* One name is enough: entries differ by parent, and every conflict is about one name.
* `MaxFd` stands for the 2^31 numbers of an int. Four or five numbers and two files at a time
  are enough for a second round that meets open descriptors. `MayWrap = FALSE` stops opening before it.
  With so few numbers a second round would come within one call; `ShortPause` excludes that a number in the
  hands of another thread comes up again, which in the code takes 2^31 opens during one call.
  `hooks` takes its two threads as symmetric: no definition tells them apart.
* Buffers of 24, 64 and 120 bytes, where 120 is negative as an int since `UIntRange = 128`, and names of 1, 12 and 3 characters (records of 24, 40, 24 bytes, or 24, 32,
  24 in getdents64): none, one or two records fit, and both ends of the list are met. Registers may hold
  anything; a small value and the largest, -1 as an int, stand for it.
* Four keys in a cache of two with one more allowed: growth to the hard limit, pruning, and a return of dropped keys.
* The lock's predicates look at 0, 1 and more threads of a kind; four threads give two of each.

* `erpc`: three slots and four requests let one slot carry a second request and one request wait in the backlog; two
  credits are fewer than the slots, so slots stall, and fewer than the packets of the longest messages, so that credit
  returns, requests for response and roll backs in the middle of a message occur. `erpc_lossy` has a smaller instance (one credit, messages of
  one or two packets) because of the cost of liveness. Both runs keep packets for ever, or until they are dropped.
* `erpc_session`: two sessions, since sessions meet only in the ring entries; the server has room for one, so that a second is refused
  and may be accepted later.
* `huge_alloc`: with three classes, a split passes through a class in between; sizes 2, 3 and 8 lie at both edges of the classes
  2, 4, 8; thirteen hugepages of 4 bytes hold one reservation of 16 bytes and one of 32 only when few raw regions were taken.

Deadlock is not checked in the `MetaFS` runs: the process may die, the event loops end, and clients
stop at the bounds; nor in those of `Hooks`, where a client that may not start a second round closes its
files and stops; nor in those of eRPC, where nothing is left to do when all requests are answered, or when the sessions are gone. In the runs of the lock and of the cache it is checked.

### Fairness

`RWLock`: a woken thread gets the mutex and a holder releases (`ReadGuard`, `WriteGuard`); nobody has
to ask for the lock. `MetaFS`: the event loop of a foreground thread takes what has arrived, and the
split thread keeps running, while the process lives. Clients may stop at any moment, and no thread
has to leave its loop. A client that logs faster than the split thread sends could keep
the transfer FarToDone for ever (`region_and_log.cc:144`); the code has nothing against that. `SplitCompletes` says so: from every moment of a
split on, it ends or another record is written.

`ErpcDatapath`: both event loops run for ever (the loops of RpcClient until the answer is there, those of the server for the time of
`run_event_loop`), so the stall queue, the wheel and the TX batches are served, the scan finds a slot that
waits, and handlers answer. Strong fairness is assumed of the delivery of the packet a slot needs answered next, and of its
answer: a packet that is sent again and again gets through. Other packets need no fairness. With pacing and timers
that are always early the client may send for ever (the copy in the wheel makes it ignore the answer to the
first), so liveness is checked without pacing; `timing_wheel.h:32` calls a wheel shorter than the timeout recommended but not
required. `ErpcSession`: the server thread starts, the scan repeats requests, a packet that may be lost
gets through when it is sent again and again (strong fairness for connect packets), and one that is not lost arrives
(weak fairness for disconnect packets).

## 4. Proofs

`RWLockProofs`, for any finite set of threads. The inductive invariant
`IInv == TypeOK /\ MutualExclusion /\ CountersExact /\ NoLostWakeup` has one lemma per action. The
properties need each other: that a free lock follows from counters that are zero needs
`CountersExact`, and that the last writer's `notify_all` reaches everybody needs that readers wait
only while a writer is counted. From it follow `RWLockMutualExclusion`, `RWLockNoLostWakeup`,
`RWLockCountersExact`, `RWLockWriterPreference` (an action property) and `RWLockRefinement`, the
implementation of `ReadersWriters`.

`ServerProofs` has three parts. The first is for all values of the constants that satisfy the named assumptions of `Regions`,
`MetaKV`, `ServerContext` and `MetaClient`: `MetaFSTypeOK` is inductive because `TypeOK` says more than
types: the client of a busy thread is known, the split thread has its context and region past the
poll, and its log cursor lies within the log.

The second is for `ClientIds = {0}`, the first client that memcached numbers. Its requests reach
region 0 only, the case in which splitting by `end/2` is right. `PartitionsHold` (`[]MapsArePartitions`)
and `SplitsImplementOwnership` rest on `SplitInv`:

* `OnlyThread0`: no other thread handles a request, or has a region with the client's id;
* `OnePlace`: the split of region 0 is with the foreground thread, in the queue, or with the split
  thread, and the status says so;
* `PendingInv`: the region that has been cut off starts where the shrunk region 0 will end, up to
  the end of region 0, although the two are computed at different times;
* `FreshIds`: ids at or above `global_region_id` are unused;
* `MapInv`: the map, with the old entry while it is locked, is a partition that has region 0 as it is.

`SplitKeepsPartition` is the arithmetic core: cutting one range of a partition gives a partition.
Steps that the map does not notice share the lemma `QuietStep`. The refinement maps `owned` to
`VisibleMap`; only `publish_halves` is a step of `Ownership`.

The third separates what holds for **every** set of clients from what needs the client 0. `PipeInv` is inductive for any
clients:

* `HomeInv`: a thread holds its own initial region and no other, and its handlers work on that one (a request of another
  client kills the process);
* `IdsInv`: an id taken for a split is used once, leads to another thread, and is known to the origin only until the target
  was asked to create the region;
* `HolderInv`: a split is with the foreground thread, in the queue or with the split thread, once, exactly while the status
  says so;
* `MatchInv`: the global map agrees with the threads, and the target has the range that the map is about to show;
* `PublishedInv`: a split-off region is served only when the map shows it, and the map shows it once the origin refuses.

From it follow `PipelineNeverAsserts`, `MapAlwaysMatches` and `OneSplitAlways`. That a region is handed over in this order is
not visible in any single step: `PublishedInv` needs `HolderInv`, so that no second split of the region intervenes, and
`MatchInv` needs `IdsInv`, so that no other split touches the target's region. `LogNeverHasGaps` adds `LogInv`: while a record is being written its place is at
or before the end of the log, and `log_id` is one above it, or 0 when a split has ended in between. `SuccessesAreWhole` and
`EntriesAlwaysKeepStats` hold with any failures of the store and add `StoreInv`: the entries of a store have each key once and each number once, and the
numbers are below the counter of the thread (`GoodStore`); between the two calls of the store, a create still has the entry of its first
call, a removal no longer has its entry and no other entry has the number whose stat is about to go, and an answer
of success is true already (`RequestOK`); and the client whose request is handled waits. Without the first
part `DeleteStat` could take the stat of another entry. Steps that leave
regions, queue and map alone (`QuietServer`) share one lemma.

For `ClientIds = {0}` one more follows. `NeverTwoServers` needs no induction of its own: what a thread serves is in the map or
about to be (`ServedIsVisible`), and by `SplitInv` the map is a partition. With several clients it is false: `end/2` leaves overlapping ranges.

`HooksProofs`. `HooksTypeOK`, `NothingEverSkipped` and `GetdentsAlwaysFits` hold for all values of the constants. `HooksInv` adds to the types that
a call has its number and its object when it needs them, that the entries before the position a listing goes on from, or is about to set, were handed out (`NothingSkipped` alone
says nothing of the positions in the threads' hands), and that getdents has written no more than the caller's size. The last
part rests on the arithmetic of the loop: as long as that is so, `count - written` in unsigned arithmetic is what is left of
the buffer, although `count` may be negative. An object's entries stay as they are while a call refers to it
(`Frame`): an id serves again only when nobody does.

* For any number of threads before the numbers start again (`FirstRound`: `MayWrap = FALSE` and no dup, which no hook calls), `RoundInv` gives
  `OpenAlwaysGetsItsFile` and `CloseAlwaysHitsItsFile`: there are numbers left for all that wait for one (`NumbersLeft`, by the
  number of waiting threads), a number that a thread holds is free and in nobody else's hands, a closing thread's included
  (`Fresh`), and a close still finds its own file or none (`Closing`).
* For one thread in any round, with dup and dup2 (`Alone`), `AloneInv` gives `OpenGetsItsFileAlone`: while the flag is not
  set no descriptor lies at or above the counter (`FlagMeaning`). dup2 onto the very next number, which breaks that, is excluded by name.

With two threads in a second round `OpenGetsItsFile` is false, as said above.

`ErpcSessionProofs`, for any number of sessions, any ring sizes, with or without failures and for any set of
packet types that may be lost. None of the properties is inductive alone: a disconnect request on the wire says something
about the server's session only if one knows where its number came from. `IInv` ties packets, tokens and sessions together:

* `TokensMatch`: the token map and `session_vec_` are inverse to each other;
* `PacketsMatch`: a connect response without an error and every disconnect packet name the server session made for
  their client, and a disconnect packet is on the wire only when the client has given the session up;
* `PeersMatch`: the server's number that a connected or disconnecting client holds is that of its own session;
* `DeadAfterDisconnect`: a server session is alive unless its client has asked for the end;
* `ConnectKeepsTrying` and `EventsMatch`: what was reported to the application follows from the state of the session and from
  whether its route could be resolved (`Told`).

There is one lemma per action, in which the parts an action can disturb are proved one by one. From `IInv` follow
`NoSecondSession`, `ConnectedPeers`, `HandlersAssert`, `ConnectsRetried` and `CallbacksMakeSense`.
`RingEntriesConserved` has an induction of its own on top, in which the number of sessions that hold entries changes with the
counter; the cardinality facts are lemmas about adding and removing one element.

`ErpcDatapathProofs`, for any number of slots, credits and requests of any lengths, with pacing or without, over a network that loses,
repeats, delays and reorders. A handler runs several of the code's functions in a row, between which the
properties do not hold, so the invariant is written for arguments: `Inv(c, v, n, x)` speaks of a client `c`, a server `v`, a network
`n` and the slots `x` that the running handler is about to serve, and `IInv == Inv(cl, sv, net, {}) /\ BacklogOK(cl)`. There is one
lemma per function of the client on `Inv`, and one per handler. Its parts:

* `SlotsOK`: counters of both ends lie within the packets of their request, and (`SlotsMatch`) the server's request number is the
  client's or one window behind, in which case it has answered;
* `PacketsOK`: a packet of any age has a number at most its receiver's, and says the truth if the number is the current
  one: a request packet carries the slot's request, a response packet the server's response, and a
  credit return or a request for response one of the numbers that such a packet may have;
* `FreeOK`, `StallOK`, `BacklogOK`: every slot is in the free list once or active; one that waits for its first credit is in the stall
  queue once; requests wait only while no slot is free;
* `CreditsOK` and `WheelOK`: credits and unanswered packets add up; the wheel flags and the count say which packets are in the wheel.

`PacketsOK` is what makes late packets harmless, and it needs `SlotsMatch`: the number of a slot grows by the window only
when the answer is complete. From `IInv` follow `TypeCorrect`, `CreditsAlwaysConserved`, `NoSlotEverForgotten`, `AssertsAlwaysHold` and
`WheelFlagsAlwaysExact`.

`ErpcServiceProofs` adds three invariants to `IInv`. `HistInv` says of each request where it is (not issued, waiting, in one
slot, complete), and how often its handler has run and its continuation was called; it gives `AlwaysRightAnswers` and
`DatapathImplementsService`: every step of the datapath moves one request one stage on in `RpcService`, or none. `PostedInv` says that what the server has
posted and not sent is still awaited by the client; it gives `ServerTxAlwaysLive`. `UnpacedInv` is its counterpart at the client;
it is inductive only without pacing and gives `UnpacedClientTxLive`. With pacing the property is false, as `paced_retx` shows.

`LruCacheProofs`, for any keys and values, any size and elasticity. `KeepsRecent` is not inductive: that a list moved by one node
is still a prefix of the keys used needs that neither has a key twice (`RecentDistinct`), and that a node is found needs that the
table has the keys of the list (`TableIsList`), whose number is then the length of the list. `IInv` has these, `ListIsRecent` (node by
node, the list is the beginning of `recent`), `RoomUsed`, `HardLimit` and `LatestValue`. Moving a node to the front is one lemma on
lists (`MoveToFront`), used for the list and for `recent` alike; dropping nodes from the back is a prefix of a prefix. From `IInv`
follow `HoldsTheRecent`, `AnswersTheLatest` and `StaysBounded`.

`HugeAllocProofs`, for any class size, any number of classes, any amount of memory and any sizes asked for. `EveryByteOnce` counts the buffers that hold a byte;
the invariant behind it says the same without counting, and with arguments, since `alloc` splits several times in one step:
`Tiles(fl, u, B)` says that the free buffers `fl` and the buffers in use `u` are pairwise apart, lie within the bytes `B`,
and leave none of `B` out. There is one lemma for each thing that happens to the lists: `SplitTiles` (two halves for a
buffer), `SplitDownTiles` (any number of turns), `TakeTiles` and `GiveTiles` (a buffer changes sides) and
`AddTiles` (a region is cut into buffers of the largest class). `IInv` adds what these need: a reservation is a whole number of buffers (`WholeBuffers`; the
hugepage size divides it, so that `round_up` adds no bytes that would leak), regions lie below `shm_reserved`, and each buffer in
use fits its class (`Fits`). Then `NothingOverlapsNorLeaks`, `RoomAndNoMore` and `AllocatorNeverAsserts` follow; the last states the assertions of
`alloc`, `split` and `free_buf` (`AllocAssertsHold`). `AllocAssumption`
is about sizes: the largest class is a number of hugepages (8 MB and 2 MB in the code), and the initial size a number of buffers of that class. The
constructor only raises the initial size to the largest class; that it is a multiple is so because its one caller passes 8 MB (`rpc.h:79`). With
another size the rest of each region would be in no buffer.

Two definitions here are recursive functions, the powers of two (`shl`) and the turns of the loop (`SplitDown`). That functions with
these equations exist, and what they are for all numbers, is proved by induction. The library's induction theorems take an operator;
`SetInduction` takes a set instead, and follows from `SmallestNumber`, which rests on the well-foundedness of the natural numbers.

The type invariants `TypeOK` of `RWLock`, `MetaFS`, `Hooks`, `ErpcDatapath` and `ErpcSession`, and the parts `CountersExact` and
`ConnectKeepsTrying` of the inductive invariants, are proved and not repeated in the runs.

Every safety property of a passing run but `KvNumNeverOver`, which sums over a thread's regions, is also a theorem, some of them under the
conditions named above (client 0, one thread, no pacing). Only model-checked are `KvNumNeverOver` and the liveness properties: `RequestsComplete`,
`ConnectEnds`, `SplitCompletes`, `WriterProgress` and `ReaderProgress`. Fairness and ENABLED are outside what the provers handle.

## 5. Not modelled

* `s2s_send_region_handler`: `rpc_send_region` stops at `p_assert(false)` before it could send a
  directory; that stop is modelled (`rpc_send_region_dir`).
* What the hooks return; path prefixes; the rounds of RPC_Readdir; the rewritten libc functions of
  `hooks.cc`, which `HOOK_REWRITE 0` compiles out. read, write and fsync have no effect, and lseek
  (`hook_lseek`) always fails because it assigns SEEK_SET to its flag.
* Threads of one client that share the request buffers and the dentry cache, neither of which has a lock.
* Several server processes: `config/` has one, and ids are handed out per process.
* Configuration, cJSON, logging, memcached: I/O, or other projects' code. Reading and
  writing file data is empty in the code.
* eRPC: the arithmetic of the timing wheel and of Timely (floating point, cycle counts); background threads and their queues (no handler
  is registered for them, and `config/` starts none); the heartbeat manager, which is constructed and never called; session
  resets (`rpc_reset_handlers.cc`), called only under `if (false)`; the transports and the NIC, except for when it reads a
  buffer; the ring of control buffers; fault injection for eRPC's tests. A session in `ErpcDatapath` stays
  connected: the two eRPC modules are not composed.
* The vendored sources beside them (xxHash, MICA with rapidjson, eRPC's example applications with a raft library): most of the lines
  of the repository, of which rocksfs uses one hash function.
* Deletion of region objects under a handler that uses them; the message that carries the
  region map when it outgrows its buffer; start-up before all threads are registered.

## 6. Plan

Done: the lock, the server with its split, the client's part in it, `Ownership`, the descriptor table with
the hooks that use it, the LRU cache, eRPC's datapath, session management and allocator, `RpcService`, and the
theorems above.

1. **Proofs.** `SplitInv` for several clients needs a split that halves the range. The two disagreements on descriptors as theorems
   about what still holds: with two threads in a second round, a number is given out twice only after a reset of the flag.
2. **eRPC.** The timing wheel with cycles as integers: a packet near the horizon, when the slot width is
   truncated. Disconnecting sessions that still carry requests.
3. **Client side.** The rounds of RPC_Readdir with the fields that a response for an empty directory leaves
   as they were; path resolution over the cache, and whether a stale entry leads to a wrong parent; what
   the hooks return. An abstract descriptor table that `OpenFileMap` implements.
4. **Log order and message limits.** The keys of the log as the bytes that the database compares; the number of
   regions a map message can hold; the search for an id with one session, which never ends.
5. **Stale records.** A second split sends records of the first again; state what the target may
   receive, and check it.
6. **Several processes.** Ids that collide; threads that wait for each other across processes.
