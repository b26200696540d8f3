# TLA+ models of minipython

minipython runs MicroPython as a mini-os unikernel on Xen.  Its files come from SHFS, a
read-only, content-addressed file system (`src/minios/shfs/`): an object is found by the
digest of its contents in a hash table that is read when the volume is mounted, and its
chunks are read with asynchronous block I/O through a chunk cache.  Volumes are written
with tools on another host (`src/minios/shfs/shfs-tools/`), also while they are mounted.
Its network is lwIP, which scripts use through the sockets of `src/minios/mods/modlwip.c`.

This directory holds TLA+ modules for the parts of the system that keep state and run
interleaved, TLC instances of them, and TLAPS proofs.  `PROJECT.json` maps every
definition to the source lines it stands for, every property to a plausible mistake it
notices, and lists the hazards of the code and the properties that cover them.

    tlc -config ShfsCache.cfg MCShfsCache          # model-check one run
    tlapm ShfsCacheProofs.tla                      # check the proofs

## 1. The system

### How it runs

mini-os schedules **cooperatively**: a task keeps the processor until it blocks on a
semaphore or calls `schedule()`.  I/O completions are callbacks, but they run only
when somebody **polls** the block devices (`shfs_poll_blkdevs`), on that task's stack.
Every function that neither polls nor schedules is therefore atomic, and the interesting
interleavings are at `shfs_aio_wait` (polls, then schedules), at the busy loops that poll
without scheduling (`*_nosched`, the flush, the load of the hash table) and at
`down()`.

### Components

| component | state | operations | talks to |
|---|---|---|---|
| element lists `dlist.h` | head and element pointers | append, prepend, unlink, relink, walk | the cache |
| chunk cache `shfs_cache.c/.h` | pool, hash lists, available (LRU) list, reference counts, chains of waiting callers | `aread`, `read`, `readahead`, `eblank`, `release`, `release_ioabort`, flush, completion callback | AIO tokens; called by open files and by remount |
| asynchronous I/O `shfs.c/.h` | token pool, per token: requests in flight, result, callback | `shfs_aio_chunk`, wait, finalize, poll | block devices; called by cache, mount, reads |
| block devices `blkdev.c/.h` | list of open devices, request pools | open, close, issue, callback, synchronous I/O | blkfront (mini-os) |
| rings and pools `ring.h`, `mempool.c/.h` | ring indices, free objects | enqueue, dequeue (one, several, as many as possible), pick, put | block devices, AIO, cache |
| hash table `htable.c/.h`, `shfs_btable.h` | buckets, list of elements | lookup, add, remove, pick, feed | mount, remount, open |
| mount `shfs.c` | `shfs_mounted`, `shfs_vol`, `shfs_mount_lock` | `mount_shfs`, `load_vol_*` | all of the above |
| remount, umount `shfs.c` | the same; `update` and `updatelock` of every entry | `remount_shfs`, `umount_shfs` | open files, cache |
| open files `shfs_fio.c/.h` | `refcount` per entry, `shfs_nb_open` | open by digest, by name, of the default, clone, close, direct and cached reads | hash table, cache, AIO |
| interfaces, sockets `mods/modlwip.c` | interfaces; per socket: state, pcb, one incoming pbuf or connection, leftover, timeout | bind, listen, connect, accept, send, receive, close, look up a name; lwIP's callbacks | lwIP, Xenstore |
| tools `shfs-tools/*` | allocation list, buffered hash table, volume layout | shfs_mkfs; add, remove, link, set and clear the default | the volume on the devices |
| interpreter port `minipython.c`, `main.c`, ... | lexer buffer | read a script, run it | open files |

### What is hard, and what makes each part correct

* **Chunk cache.**  Callers share one buffer and one read per chunk; a caller may abort
  while its read goes on, a read may fail with or without anybody waiting, the token pool
  and the buffer pool may run dry halfway through `shfs_cache_aread`, and a flush runs
  completions between its own steps.  Correct means: reference counts are exact, no chunk
  is cached twice, nobody's buffer is evicted or overwritten, every waiting caller is
  answered once and with the right bytes, no token is lost, and the available list is
  exactly the unreferenced buffers.
* **Open files against remount and umount.**  A remount or a forced umount waits for files
  to be closed, entry by entry, while other tasks run; opens must be kept out of an entry
  that is being replaced and nothing may be freed under a user; a remount may fail
  halfway.  Correct means: counts and locks agree with the descriptors, meta data of an
  open file does not change, the two indices agree, a remount leaves the table of the
  device and the right default file, reads return the file that was opened.
* **Asynchronous I/O.**  One token stands for a request to every member; issuing may yield,
  answers come in any order, one member may refuse.  Correct means one callback per token,
  after the last answer, with an error if any member failed.
* **Mount.**  Devices are probed, the members among them found, and five things acquired in
  order; each step may fail.  Correct means that a failed mount leaves no device open and
  nothing allocated, and that a device that is no member is closed just once.
* **Rings and pools.**  Index arithmetic modulo the size, one slot always empty, bulk
  operations up to the boundary; data and meta data of objects in one block of memory, each
  aligned.  Correct means that no object is lost or doubled and that no two share a byte.
* **Hash table.**  Places are overwritten while their elements are on a list, or not.  Correct
  means that list and buckets agree, since a forced umount walks the one and look-up uses
  the other.
* **Sockets.**  lwIP's callbacks change a socket between any two polls of a blocking call:
  data, close by the peer, reset, a second connection for the listener's only slot, also after
  the script has closed or dropped the socket.  Correct means that pointers between sockets and
  pcbs match, that a stream is read as it was sent, that its end comes last, and that
  calls return.
* **Tools.**  Three programs take turns on the same devices and each may end at any write.
  Correct means that a volume is only mounted when it was formatted to the end, that sizes and
  places agree between the programs, and that files keep their contents whenever
  shfs_admin dies; first fit has to search overlapping ranges.

## 2. The modules

    Dlist ──────┬─ DlistOps ──(implements)── ElementOrder
                │      └──────────────────────────┐
                └─ ShfsCache ─(implements)── ChunkReads
                      │  └─ MCShfsCache           │
    ShfsFio ── MCShfsFio                          │
    ShfsAio ──(implements)── AioCalls             │
                                                  │
    Ring ── Mempool ──────────────────────────────┤
    Htable ───────────────────────────────────────┼─ Structures ── MCStructures
    ShfsAlloc ────────────────────────────────┬───┤
    ShfsLayout ── ShfsDisk ─┬─ ShfsMkfs ──┐   │   │
         └──────────────────┼─────────────┼───┼───┘
                            ├─ ShfsAdmin ─┼───┘
                            └─ ShfsMount ─┴─ Volume ── MCVolume
    LwipEther ── LwipSocket ── MCLwipSocket

    DlistProofs ─── ShfsCacheProofs
    Counting ────┬─ ShfsCacheProofs
                 ├─ ShfsFioProofs
                 ├─ ShfsAioProofs
                 ├─ VolumeProofs
                 └─ StructuresProofs
    LwipSocketProofs

### Dlist, DlistOps, ElementOrder: `dlist.h`

`Dlist` has one operator per macro, on a record of the head's and the elements' pointers.
The macros do not check whether an element is on the list they are given, and neither do
the operators; what `dlist_unlink` does to an element that is on no list matters later.
`DlistOps` makes a system of one list used as the macros ask for and shows that a walk of
the pointers implements `ElementOrder`: elements, each once, in an order.

### ShfsCache: `shfs_cache.c`, `shfs_cache.h`

| variable | code |
|---|---|
| `free` | the buffers in the mempool (and what the heap can still give, `SHFS_CACHE_GROW`) |
| `addr`, `refcount`, `invalid`, `chain`, `busy` | `cce->addr`, `refcount`, `invalid`, `aio_chain`, `t != NULL` |
| `data` | which chunk's bytes are in the buffer |
| `clist`, `alist`, `nbRef` | hash table, available list (a `Dlist` record), `nb_ref_entries` |
| `tokFree` | tokens left in `aiotoken_pool` |
| `cce`, `tok`, `want` | per caller: the entry it holds, its chained token, the chunk it asked for |
| `call`, `flush`, `pin` | where in `shfs_cache_aread` or in the flush the processor is |
| `trap` | a `BUG_ON` fired or the null pointer was written through |

`shfs_cache_aread` is `AreadHit` or `AreadMiss` (look-up, add, reference), then
`ReadaheadAdd`/`ReadaheadSkip` per chunk read ahead, then `AreadReturn` (chaining the
caller, or giving the reference back when there is no token); nothing else is enabled in
between, as nothing in it polls or schedules.  `Eblank`, `Release`, `ReleaseIoabort`,
`Finalize` are one action each.  `Complete` is the callback `_cce_aiocb`: notification of the
chain, and destruction of an entry whose read failed while nobody refers to it.  `FlushBegin`,
`FlushPin`, `FlushDrop`, `FlushEnd` are the flush, between whose steps `Complete` is the
only thing enabled.  The collision lists of the hash table are a set: they are only searched,
and entries are appended and unlinked only when they are off and on the list.

Abstractions: statistics left out; callbacks of callers are NULL, as everywhere in the tree;
a request that is refused is refused at once (a pool of `NbReq` requests), and `errno` is not
kept.

### ChunkReads: the contract of the cache

One variable, what each caller sees: idle, waiting for a chunk, ready with its bytes, failed, or
blank.  It says that two callers of a chunk see the same thing, that one answer reaches all who
wait, that nothing a caller holds changes, and that there are no more different chunks in
use than buffers.  `ImplementsContract` is the refinement.

### ShfsFio: `shfs_fio.c`, and remount and umount of `shfs.c`

| variable | code |
|---|---|
| `dtab`, `dat`, `edits` | the volume on the device, and how often shfs_admin changed it |
| `mounted`, `nbOpen`, `def` | `shfs_mounted`, `shfs_nb_open`, `shfs_vol.def_bentry` |
| `hash` | digests in the bucket table; an entry is on the table's list iff its digest is not zero |
| `tab` | the buffered hash table, `*bentry->hentry` |
| `refcount`, `update`, `lock` | of `struct shfs_bentry`; `lock` is the count of `updatelock` |
| `cbuf` | what of each chunk is in the cache |
| `fd`, `rd`, `got`, `since` | per client: descriptor, read in progress, last result; edits when it opened |
| `task` | the task that holds `shfs_mount_lock`, and how far it is |

One action is what a task does between two calls that may schedule.  A remount is
`RemountBegin`, `RemountRead` per chunk of the table, `RemountEntry` per entry (nothing else runs
between entries, so `Sched` is false), and `RemountWake` when it had to wait for a file.  The two branches of
`reload_vol_htable`, digest changed or not, differ only in their statistics, and are one
action.  A forced umount locks the listed entries one by one (`UmountLock`), frees everything
(`UmountFree`), and closes the devices (`UmountEnd`).  In `UmountLock` the
order of the list is left open, and other tasks may run between two entries even where the
lock was free, which adds behaviours and takes none away.

The environment is one action per call of shfs_admin (`AddFile`, `RmFile`, `SetDefault`), at any time, as
its README allows: "you have to run remount on a MiniCache Domain after you did changes to the object store
while it is mounted".

Abstractions: files are one chunk long and no links; the chunk cache is one variable, with eviction,
sharing of a read and a flush that spares what is being read, the detail being `ShfsCache`'s;
a mount of `ShfsFio` succeeds; names are unique and a name goes with a digest; cookies and
statistics are left out.  `shfs_fio_openh` does not check that a volume is mounted; the
model leaves that to its callers (there are none in the tree).

### ShfsAio: `shfs_aio_chunk` and the tokens of `shfs.c`, `shfs.h`; requests of `blkdev.h`, `blkdev.c`

| variable | code |
|---|---|
| `stripemode` | `shfs_vol.stripemode`; either, and it does not change |
| `freeTok` | `shfs_vol.aiotoken_pool` |
| `infly` | `t->infly` |
| `cb`, `bad`, `failed` | sets: tokens with `t->cb != NULL`, tokens with `t->ret < 0`, callers with `iosync.ret < 0` |
| `reqpool` | free request objects of each member's device |
| `ring` | what the devices work on: on whose behalf (a token, or a caller that waits in `blkdev_sync_io`), and which strip |
| `pc`, `tok`, `res` | of each caller: what it waits for, with which token, and what it was told last |

A call of `shfs_aio_chunk` is one action, as nothing in it yields unless it fails halfway: refused (`ChunkRefused`), accepted
(`ChunkAccepted`), or refused after some of the strips were issued (`ChunkCancelled`, which waits, and `CancelEnd`).
`blkdev_async_io` would yield if a ring were full, and an answer could then overtake the count of its request; a pool has one
object less than a ring has slots (`MAX_REQUESTS`), and `PoolsExact` says that this is enough, whoever else uses the device.
`Answer` is what a poll does with one answer: `_shfs_aio_cb` with the caller's callback, which finalizes the token before
anything else (as `_cce_aiocb` and `_load_vol_htable_cb` do), or `_blkdev_sync_io_cb`.

Abstractions: blkfront accepts a request if it has a slot, and answers in any order; what `blkdev_async_io` checks of the
buffer and the mode of the device does not fail; buffers and sectors are left out.  Callers in the tree ask for one chunk at a
time; the model asks for up to three, because the check before the loop rounds down
and only a longer range, or fewer strips than members, fails halfway.

`AioCalls` is the contract: a request is answered once, after all its parts, with an error iff one of them failed or could
not be issued.  `ImplementsCalls` is the refinement; a token is what makes the state of a call visible.

### Structures: Ring and Mempool, Htable, ShfsAlloc, ShfsLayout, with DlistOps

`Structures` puts the data structures below the file system into one instance; a behaviour uses one of them.

| module | code | what its state stands for |
|---|---|---|
| `Ring` | `ring.h`, the layout part of `mempool.c/.h` | no state: a ring is a record of slots, two indices and a size that is a power of two |
| `Mempool` | `mempool.c/.h` | `pool`: what was asked for, the layout and the ring of free objects; `area`: `lhr`, `len`, `ltr`, `data` of each object; `held`: the user's |
| `Htable` | `htable.c/.h`, `shfs_btable.h` | `ht`: the digest at each place, `head`, `tail`, and `prev`, `next` of each element |
| `ShfsAlloc` | `shfs_alloc.c/.h` | no state: a list of ranges; `FindFirst` is `_shfs_alist_find_ff` |
| `ShfsLayout` | size arithmetic of `shfs_mkfs.c`, `load_vol_cconf`, strips of `shfs.c` and `tools_common.c` | no state: a layout is mode, number of members and stripe size |

`Mempool` picks and puts objects one by one and in bulk, moves the ends of their data, and frees the pool.
In `Htable` the zero digest marks a free place, as in the code; `Add` is what the callers of `htable_add` do, who look
the digest up before, since `htable_add` itself does not.  Digests are numbers, and the bucket is the number modulo the
buckets, which is what `_htable_bkt_no` makes of (the lower 32 bits of) a digest.

### Volume: ShfsLayout, ShfsDisk, ShfsMkfs, ShfsAdmin, ShfsAlloc, ShfsMount

| variable | code |
|---|---|
| `disk` | of each device, what its stripes hold: a label, the configuration, a chunk of the table, a block of a file, zeros |
| `mk` | shfs_mkfs: which step, which member or chunk next |
| `ad` | a session of shfs_admin: members, the buffered table and which of its chunks were changed, the ranges, the default, the file being copied |
| `commands`, `lost`, `tainted`, `faulted` | history: how many commands; of each volume, which removals were forgotten with a session, whether its containers have overlapped, whether a command on it failed halfway or forgot one |
| `km` | `mount_shfs`: step, devices left to probe, detected, members, devices to be closed |
| `mounted`, `refs`, `heap` | `shfs_mounted`, the count of `open_blkdev` per device, how many of each allocation there are |

One write to a device is one action; every program may end before each of them (`MkStop`, `AdStop`, `CopyFails`), by
an error, a signal or a kill.  `ShfsMkfs` erases the labels, then the table or the whole volume, writes the
configuration, then the labels.  `ShfsAdmin` loads the table and the ranges (`AdLoad`), executes commands on its copy, writes
contents at once (`CopyBlock`) and changed chunks of the table when it ends (`WriteBack`).  `ShfsMount` is `mount_shfs` with
a failing and a succeeding branch of every step, each failing branch freeing what that `goto` frees; `Stays` are the
devices its load_vol_cconf leaves open.  A list of devices given to shfs_admin or to a mount may be in any order and
may lack a member or have a device too many, but shfs_admin ends when it is empty ("No SHFS disk found", 434).

`VolumeAssumption` is what the two programs ensure before they start, or what the layout gives: a volume has at least one member
(`shfs_mkfs.c:313`) and no member twice, its meta data fit into it, indices of stripes do not overflow a word, and what is registered for a link
(`FarAway`) lies behind the meta data and beyond every volume, as bytes of a URL taken for a chunk number do.

The histories are kept per volume.  What goes wrong on one says nothing about another: two volumes that share a device are not both mountable,
since each has its label in the same place.  `ContentsKept` speaks of the volumes that `mount_shfs` accepts (`Mountable`): every label is there, and the
volume fits on its members.

Abstractions: one program is on the devices at a time (`ShfsFio` has a volume that is changed while mounted); a
chunk is written at once; a new volume has identifiers nothing else has; load_vol_htable is one step that cleans up after
itself; the copy of the hash table, which the code disables, is left out; `ShfsAdmin` has one bucket, since which place
in a bucket an object gets is `Htable`'s matter.

### LwipEther, LwipSocket: `mods/modlwip.c`

| variable | code |
|---|---|
| `lwip_ether_objs`, `noip_off` | the interfaces, and the static offset of the search for a vif without address |
| `sock[s]` | `lwip_socket_obj_t`: `type`, `pcb`, `state`, `pbuf` and `connection` (`incoming`), `leftover` (`leftover_count`), `peer`, `timeout`; and, for the properties, how many bytes were read (`got`) and whether the script was told of the end (`eof`) |
| `pcb[p]` | lwIP's control block as far as modlwip.c relies on it: state, callback argument, whether an error callback is set, which receive callback, what lwIP keeps because it was refused, window, room for sending, what the peer has sent |
| `call` | the call a script waits in |
| `fault` | what stopped the script: a freed pcb (`"slot"`) or socket (`"stale"`) used, an index out of bounds (`"index"`), a failed assertion (`"assert"`), the pcb of a listener used like another (`"listener"`), no pcb used (`"nopcb"`) |
| `resetWaiting` | history: a connection was reset while it waited in a listener's slot |

A script is one thread.  A method that does not wait is one action; one that waits is an action that begins the wait
and one that ends it (`AcceptReturns`, `RecvReturns`, ..., `TimeOut`).  lwIP's callbacks (`Established`, `SynArrives`, `DataArrives`, `FinArrives`,
`ResetArrives`, `Redeliver`, `DatagramArrives`, `NameFound`) are enabled only where the code polls: accept, connect and recvfrom
with a timeout delay without polling, recv and send poll.  lwIP itself is not in this repository; it is modelled as
modlwip.c uses it, with the two things that matter here: a pcb keeps its callbacks and their argument after `tcp_close` until it is freed, and a pcb
made by a listener has no error callback until one is set.

What a method does not check, the model does not either: `Connect` may be called on a socket of either kind, lwIP may refuse it, and
on a listener (`ConnectListener`) it sets a callback in a pcb that has no room for it, as listen leaves `state` at `STATE_NEW`; `Recv`
on a listener takes the connection in its slot for a buffer; `Bind`, and `SetOption` (an option, or a `write` of a datagram), hand lwIP
the pcb of a socket that has none.  Whether lwIP's `tcp_bind` and `udp_bind` refuse NULL depends on its version, so
`Bind` has both outcomes.  A fault ends the behaviour: nothing is claimed of what comes after.

Abstractions: bytes are numbered in the order they are sent, so that a buffer is a first byte and a length; addresses that are neither
multicast nor broadcast; Python callbacks for incoming connections are left out, and so are calls that change no state: sending datagrams and
options of a pcb that is there, and send on a listener, where the room for sending is read past the pcb but `tcp_write` refuses whatever was read; lwIP has memory
for what it is asked; sockets of a type other than stream and datagram, whose making is refused, are left out.

## 3. What is checked

Runs expected to pass:

| run | shows | bounds |
|---|---|---|
| `cache` | no read fails: `AlistExact`, `FlushReleases`, `WaiterAnswered`, `FlushReturns` | 2 buffers, 2 callers, 3 chunks, 1 read-ahead, 3 tokens, 2 requests: the token pool runs dry |
| `cache_faults` | reads fail: `IInv` and what survives (`OneBufferPerChunk`, `ChainExact`, `ReadReturnsChunk`, `HeldIsStable`, `OnlyListTraps`), `ImplementsContract` | 3 buffers, one of them from the heap, and 4 tokens |
| `fio_safe` | `UnmountedIsUnused`, `FioInv` (with `CountsExact`, `LockExact`, `IndexMatches`, `DefaultFlagged`), `NothingFreedInUse`, `RemountApplies`, `OpenIsStable`, `OpensObject`, `DirectReadFresh` | 2 clients with clones, 2 entries in 2 table chunks, 2 edits, failing table reads; first mounted with two files and a default, or with one file and a free entry |
| `fio_live` | `RemountReturns`, `UmountReturns` | 1 edit, failing table reads, no clones |
| `aio` | `PoolsExact`, `ImplementsCalls`, `Answered` | 3 callers, 2 tokens, 2 members with 2 requests each, ranges of 1 to 3 chunks in both stripe modes |
| `structures` | `ListExact`, `ImplementsOrder`; `PoolExact`, `AreasApart`; `TableExact`; `FirstFitExact`; `LayoutFits` | lists of 4 elements; pools of 1 to 3 objects in 54 layouts; 2 buckets of 2 places and 5 digests; 9 chunks and files of up to 3; up to 3 members of up to 9 units, stripes of 1 or 2 |
| `volume` | `ContentsKept`, `WhatMountsIsFormatted`, `DevicesReleased`, `MountCleansUp` | 3 devices of 5 stripes; a second volume that takes over one of the first one's two members; 2 entries in 2 table chunks, files of 1 and 2 blocks, a link; 4 commands, 2 lost token pools |
| `socket` | `PointersMatch`, `StreamExact`, `EofIsEnd`, `FaultsKnown`, `CallsReturn` | 2 sockets, 2 pcbs, a window of 2 bytes, a peer that sends up to 2, timeouts none and some; one interface of a domain with two vifs |

**Why these bounds.**  Two callers are enough for every pairing of operations on one buffer; what a third would do to them is in
`aio`, where calls do not share.  Three chunks with one
read-ahead give a chunk that is asked for, one that is read ahead, and the end of the
volume.  The tokens (4 or 3) and the requests (2) are fewer than the callers can use, so
that every refusal happens.  In `ShfsFio` two entries are one that a remount has done and one that it
has not, and they fill their chunks (where they do not, a remount comes to `fio_feed`'s assertion); two edits are a removal and the addition that takes over the entry or the chunk.
In `ShfsAio` two tokens and four requests are fewer than three callers want, so that each
refusal happens with others in flight; three chunks over two members make an odd number of strips, which the check lets pass and the loop does
not.  Four list elements are every shape in which the element, its neighbours and both ends differ; a pool of three has a
ring of four slots and one of two a ring of four, so that both the exact and the roomy size occur, and repeated picks and puts carry the indices around it.
Four commands are an addition, a removal, another addition into the freed chunks, and one more edit to tell the table on the device from the one in memory.
A stream of two bytes with a window of two is read in one piece, in two, held and kept by lwIP at once; the second pcb is
a connection that waits while the first listens.  `FarAway` is where the registration of a link lies: further than any chunk, as the bytes of a URL are.
`MaxLeak` bounds the token pools a failing mount loses, so that the next mount may be seen.

The clients are interchangeable, hence the symmetry, which is not used where liveness is checked.
`CHECK_DEADLOCK FALSE` is set where the system may really stop: at a trap (cache with failing reads), at a fault (sockets), in a layout
or at the end of the last volume, and where a run looks for a violation.

Not exercised: a timeout of 0 in `socket`, whose branches are those of a call that finds nothing to do; an address other than
0.0.0.0, so that the search for a vif without address in `AddIf` is not reached; both are modelled.

**Fairness.**  `ShfsCache`: a function that has been entered returns (weak fairness of `Aread` and
`Flushing`), and the device answers every read: strong fairness of `Complete`, since whoever waits polls each
time it is scheduled, while other callers may pass through the cache in between
(`shfs_aio_wait`).  Nothing is assumed of callers, who may hold buffers for ever.
`ShfsFio`: the device answers, a runnable task is scheduled, and a client that opened a file closes it in the end
(strong, since it may go on reading); without that no one could promise that a remount returns.
`shfs_fio_openf` does not look at `update`, so clients could pass a descriptor
around for ever and a remount would starve; nothing in the tree calls it, and `fio_live` runs
without it.
`ShfsAio`: whoever waits polls, so the devices' answers arrive (weak fairness of the answers to each token or synchronous call),
and a wait that is over ends.
`LwipSocket`: a waiting loop looks again and time passes (weak fairness of `Returns`), and lwIP and its peers do not stop: what was
kept is handed over, a connection is made or refused, data is acknowledged, the name server answers (weak fairness of `Answers`).  Peers need
not send, and nobody needs to connect; `CallsReturn` says of which calls a return can be promised then.

Runs expected to find a violation (the findings; each says what the code does against what
the repository says of it):

| run | what happens |
|---|---|
| `cache_flush` | The read of a chunk fails while a caller waits for it.  On release the entry, which is referenced and so not on the available list, is unlinked from that list (`shfs_cache.c:292`); without neighbours its unlinking sets both ends of the head to NULL.  All unreferenced buffers are lost to eviction and to the flush; a later append to a list without tail writes through NULL. |
| `fio_stale` | A chunk that is being read while a remount flushes the cache stays there with its old bytes, and the file that the remount put on that chunk is read with them. |
| `fio_umount` | `shfs_admin` removes the default file by clearing its digest and leaves the default flag; mount and remount believe the flag, and `open("")` yields a removed object (the other runs of `ShfsFio` leave that edit out). Its entry is not on the table's list; a forced umount does not wait for the descriptor and frees the volume under it. |
| `fio_feed` | A table of three entries in chunks of two: a remount works through the last chunk to its end (`shfs.c:738`), although the fourth entry is none, and feeds it to a bucket past the last one; `shfs_btable.h:146` asserts against it. |

### Other observations

What the models or their writing showed of the code, without a run of its own; the modules have the code's behaviour.

*Kernel.*
`mount_shfs` returns the result of the last step that succeeded when the token pool or the buffer cannot be allocated (581, 601), and loses the token pool when the table cannot be loaded (597); while it closes
the members, which may schedule, `shfs_mounted` is still set (639).
`load_vol_htable` frees chunks that are still being read when an allocation fails (461).
`if (!ret < 0)` (615) never holds.
`shfs_io_chunk` tries again on EBUSY, but `shfs_aio_chunk` says EAGAIN.  A request that blkfront refuses for another reason than EBUSY does not go back to its pool (`blkdev.h:150`).

*Structures.*  `alloc_enhanced_mempool` looks at the wrong pointer for a failed allocation of the data area (`mempool.c:135`).
`mempool_put` ignores the result of the enqueue; `PoolExact` says that it never fails.  `ring_try_enqueue_multiple` loops past its elements (`ring.h:161`; nothing calls it).
`htable_pick` accepts a number one past the last place (`htable.h:196`; nothing calls it).  `_htable_bkt_no` computes with 32 of 64 bits (`htable.h:138`).

*Tools.*  shfs_mkfs subtracts unsigned sizes (396-399): a member smaller than a chunk makes a huge volume; `LayoutFits` is for larger ones.  The best fit finds nothing.
First fit compares a range with the end of the one before it, not with the greatest end so far, and may hand out chunks in use once ranges overlap; `FirstFitExact` is
for ranges that do not, and `ContentsKept` says when they begin to: after a copy that failed, whose entry stays while its chunks are given back (949), or a removal that was
never written.  The digest of a file leaves out a last chunk that is full (853), so that two files may be taken for one.  Links are registered as ranges (634).
A removed entry keeps its flags.  The zero that ends the name of a volume is stored one byte behind its array (`shfs_mkfs.c:141`, `shfs_admin.c:447`).

*Interfaces, sockets.*  `lwip_find_ip` returns the first vif whichever vif has the address; the search for a vif without address goes one past the last.
accept, connect and recvfrom with a timeout delay without polling, so that nothing can arrive while they wait.  sendall on a socket that is still
being connected loops for ever, and so does getaddrinfo without an interface.  A connection that is closed by its peer before it is accepted
loses the end of its stream, and recv waits for it for ever; one that is reset leaves a freed pcb in the listener's slot (`FaultsKnown`, "slot").
After close, lwIP still calls back on the socket's memory ("stale").  The state of a socket whose peer has closed is used as an index of the table of errors, in front of its
beginning, when the socket has lost its pcb (1167) and when connect finds that state at the end of its wait (1146, 1157) ("index").
recv on a stream socket that was never connected, or whose connect timed out, does not wait, as its state is not negative, and fails the assertion that
it has an error, `assert(socket->state < 0)` (634); so does recv on a listener ("assert").
connect on a listener writes past lwIP's smaller pcb (1120), and recv on one takes a waiting connection for a buffer ("listener").
bind, setsockopt and a write of a datagram use the pcb of a socket that was closed or reset (973, 977, 1396, 1434) ("nopcb").
read on a datagram socket that was closed and has no timeout waits for ever.  A socket of an unknown type raises before its fields are set, and the collector closes it all the same (699).

## 4. What is proved

`DlistProofs` has lemmas on the list operators: what unlink, append and a walk preserve (links
come in pairs, the ends have no outer neighbours, a detached element stays detached).

`ShfsCacheProofs` proves, for every number of buffers, callers, chunks, tokens and requests, every read-ahead
and with failing reads or without (from `ConstantAssumption`: the sets are finite, NULL is not
among them, the numbers are naturals):

* `CacheInvariant`: `IInv` is an invariant, one lemma per action (`AreadHitIInv`, ..., `FlushDropIInv`);
* `CacheTypeOK`, `CacheRefcountExact`, `CacheNbRefExact`, `CachePooledIsUnused`,
  `CacheOneBufferPerChunk`, `CacheChainExact`, `CacheTokensConserved`, `CacheReadReturnsChunk`,
  `CacheBlankIsPrivate`: the safety invariants of `cache_faults`, from it;
* `CacheHeldIsStable` and `CacheOnlyListTraps`: action properties, from the same invariant;
* `CacheImplementsContract`: the refinement of `ChunkReads`;
* `CacheAlistExact`, `CacheFlushReleases`, `CacheNeverTraps`: where no read fails (`~IoFaults`), the available list is exact, a flush
  leaves nothing behind, and the system never stops.  Where reads fail none of the three holds (`cache_flush`).

None of these is inductive by itself.  `RefcountExact` needs to know that a caller's entry is
not in the pool; that a failed read's entry may be destroyed needs `ChainExact` (nobody waits) and
`RefcountExact` (nobody holds); and that an evicted buffer is unused needs that what the available list reaches is
unreferenced, although after a failed read the list need not reach everything.
So `IInv` adds to the properties

* `ListInv`: links come in pairs, and what is in the pool or held is detached from the available list, which
  is what of `AlistExact` survives a failed read;
* `EntryInv`: hashed means having an address, a blank has exactly one holder, and a buffer that is valid and not
  being read has the bytes of its chunk;
* `HandleInv`: a caller's token matches the state of its entry;
* `CtlInv`: `aread` and the flush exclude each other, and the flush pins only what nobody holds.

Cardinalities change by one in each step; `HoldCounts` and `DropCounts` do that once for all actions.

For the refinement, `ViewShape` says what a handle stands for by the state of its entry.  A read that failed may be handed out again only
while somebody still holds it, hence `FailedInv`: an entry whose read failed is kept only for a caller that was told so, or for the flush.  `NeededFits`
finds a buffer for every chunk and blank in use.

Without failing reads the list is a chain of exactly the unreferenced entries (`AlistInv`).  Steps change it by one entry,
at its end (`ListsMore`) or anywhere (`ListsLess`).  What keeps it so is `ReadInv`, which failing reads break: an entry with a
chunk is valid or being read, so that a release never destroys one, which would unlink an entry that is not on the list.

`ShfsFioProofs` proves, for every number of clients, entries, chunks and edits, for clones and failing table reads or
without, from `FioAssumption` and from `~RmDefault` (shfs_admin does not remove a file while it is the
default; `fio_umount` shows what happens when it does):

* `FioSafe`: `FioInv` is an invariant, one lemma per action;
* `FioTypes`, `CountsAreExact`, `LocksAreExact`, `IndexAgrees`, `UmountIsSafe`, `FreesNothingInUse`: safety invariants of `fio_safe`,
  from it;
* `OpenFilesAreStable`, `OnlyObjectsOpen`, `DirectReadsAreFresh`: its action properties, from it;
* `RemountsApply`: a remount that read the table leaves the default where the flag is and, unless the volume was edited meanwhile, the table as on
  the device, wherever it was not stopped by the assertion that `fio_feed` shows to fail.

That a forced umount frees nothing under a user needs that every open file's entry is on the table's list.  That is
not so while a remount waits for a file whose entry is cleared on the device (the bucket has lost its digest by then), and it is enough
that a remount and an umount exclude each other.  `FioInv` therefore has, besides the properties,

* `OpenInv`: an open file is on the list, or the remount waits for it; it has a digest and is not locked by an umount;
  a read is of the chunk of an open file, and what is read through the cache is not evicted;
* `TaskInv`: what the task in `shfs_mount_lock` knows at each of its waits, and that what it has locked cannot be opened;
* `TabInv`, `DiskInv`: what is the default has a digest, in memory and on the device; no chunk has two files.

What a remount has done is a matter of how far it has come: `RemountInv` says that the entries it has been through are those of its
buffer, which is the device's table unless that was edited (`task.since`), and that the default is the last of them with a flag, or, if none has one,
an entry still to come (`Applied`).  The old default may thus survive entries without a flag, and is gone when the last one has been fed.

`ShfsAioProofs` proves, for every number of callers, tokens, members and ring slots, for ranges of every length and both
stripe modes, from `AioAssumption`:

* `AioSafe`: `AioInv` is an invariant, one lemma per action;
* `AioPoolsExact`: tokens and request objects are lent, never lost or lent twice, and no member has more requests than slots.

That a token is lent once needs its callback to come once, hence after the last answer, and this needs the count of a
token to be right; the count in turn is right because requests are new elements of `ring`.  So `AioInv` adds

* `TokInv`: a token is free or with exactly one caller;
* `FlightInv`: `infly` counts the requests of its token, and a token that is free, or a caller that does not wait in
  `blkdev_sync_io`, has none, whichever way the last call ended;
* `PoolInv`: per member, free objects and requests in flight make up the pool.

`IssueCounts` and `PutCounts` do the counting, for all strips of a call and for one answer.

`LwipSocketProofs` proves, for every number of sockets, pcbs, interfaces and bytes, every window and send buffer, from
`LwipSocketAssumption`:

* `SocketSafe`: `SocketInv` is an invariant; the kinds of step that actions are made of are lemmas (on a socket with its pcb, on a socket without,
  on a waiting connection, a new socket, a socket that goes), and each action has one that says which it is;
* `SocketPointersMatch`, `SocketStreamExact`, `SocketEofIsEnd`: the safety invariants of `socket`, from it;
* `SocketFaultsKnown`: its action property, what must have happened before each of the six faults; the guards of the calls
  say less, so that this too needs the invariant: that a stream whose state is no error and that has no pcb was closed by its peer, for instance, and
  that a late callback belongs to a pcb that is being closed.

That a stream is read as it was sent needs to know which pcb may still call back to which socket, and that a pcb whose
callbacks are those of a waiting connection keeps what arrives.  So `SocketInv` adds

* `OwnInv`: a socket's state, its kind and its pcb agree, and the pcb has the callbacks of that kind; a socket without pcb is in error or was closed
  by its peer;
* `SlotInv`, `PcbInv`: only a listener has a connection waiting, which is alive unless one was reset there; every pcb belongs to a socket, waits
  in a slot, is being closed, or is free;
* `KeptInv`, `ArrivedInv`: what was sent is what the script read, then what the socket holds, then what lwIP keeps, without gap or overlap, with the
  window to match;
* `CallInv`: a call that waits does so on a socket of the kind and state it was made for, while callbacks change it.

`VolumeProofs` proves, for every number of devices, of their stripes, of volumes and of commands, for every layout and every way the
programs may end, from `VolumeAssumption`:

* `VolumeInvariant`: `IInv` is an invariant, with a lemma for each step of shfs_mkfs, of a mount and of a session of shfs_admin
  (`DiskStarts`, `MountStarts`, `ProbeStep`, ..., `LoadStep`, ..., `WriteBackStep`), put together in `VolumeStep`;
* `MountedIsFormatted`: what mounts, or would, was formatted to its end;
* `DevicesAreReleased`, `MountsCleanUp`: a mount that fails leaves no device open and frees what it took, but for the token
  pools `MountCleansUp` names.

That what mounts was formatted to its end is a matter of the order in which labels are erased and written; that it stays so needs that
nothing else is ever written where a label, the configuration or another program's chunk of the table lies.  `IInv` has three parts.

* `DiskInv`: a label lies on the device it names; while a volume is formatted its labels are erased before anything else is, no
  member has one while the table is erased and the configuration written, and with the first new label the table is zero and the
  configuration there; a volume of which every label is there has its configuration and, chunk by chunk, a table of its own
  whose entries point behind the meta data (`FormattedOK`).
* `AdOK`: the members of a session are those of a formatted volume; its list of ranges begins with the meta data, and
  nothing later in it begins within them, whatever overlaps further on.  First fit therefore never finds a place for a file in the
  meta data, and the contents a session writes never reach a label, the configuration or the table.  That the first ranges stay
  first needs what registering and unregistering do to the list (`RegisterKeeps`, `UnregisterKeeps`) and where the search ends (`FoundFirst`).
* `KmInv`: where a mount has come to determines which devices it has open (`InUse`, which `refs` must equal) and which allocations it
  has, and no device is twice on a list.

`FilesAreKept`, the last of its theorems, is `ContentsKept`, by `ContentsInv` besides `IInv`, one lemma per step (`AddFileKeeps`, `CopyBlockKeeps`, `WriteBackKeeps`, ...).
A file keeps its blocks as long as nobody is given its chunks.  Whom shfs_admin gives chunks to depends on its list of ranges, which it builds
from the table when it starts and never writes, and not on the table; so the proof is about three things that must agree, of which the
property shows only the blocks.  `ContentsInv` says, of every volume that mounts,

* where no session is on it (`OnDisk`): unless containers have overlapped, each file that was added, and whose removal was not forgotten, has its
  blocks; and unless a command failed halfway, the table is `Orderly`: entries have nothing in common, links lie beyond the volume
  (`FarAway`), and there is at most one file without blocks, since all of those have the same digest;
* where one is (`InMemory`), the same of the table in memory.  In addition: the blocks of the file being copied are there up to the one that is next
  (`FilesKept`); the entries in a chunk of the table that is not marked as modified are as on the device (`TableRead`), or the next session would find others than
  this one had; the list of ranges is in order, without overlap, and has one for each file (`Registered`: `Sorted`, `HasFiles`).

With the ranges in order, what the first fit finds is clear of all of them (`FoundIsClear`).  The search compares with the end of the last
range only, which is why `Sorted` is needed and why nothing can be said once a command has failed halfway: then there is an entry without a range.
Registering keeps the order (`SortedRegister`), and so does taking out the first range that is equal to a removed file's (`SortedUnregister`), which is
no other file's: equal ranges that are not empty overlap, and there is at most one file without blocks.  Making ranges of the table, as a session does when it
begins, gives an ordered list again (`RangesSorted`, by the least entry for which it would not).  A chunk of the table that is written back does not
disturb a block, as containers begin behind the meta data (`IInv`).  shfs_mkfs writes to no volume that mounts: it erases a label first, after which
the volumes that had the device do not mount, and what it writes last is the label of a volume whose table is empty (`FormatKeeps`).

`StructuresProofs` proves, for every set of elements, every pool, hash table, volume and file, from `StructuresAssumption` (sizes
are naturals, an alignment is at most `MinAlign` or a multiple of it, which holds for the powers of two that `mempool.c:86` asserts,
no digest in use is zero, and the sizes of members fit the word):

* `StructuresInvariant`: `StructuresInv` is an invariant, with a part for each structure;
* `ListsStayExact`, `TablesStayExact`, `PoolsStayExact`, `PoolAreasApart`, `FirstFitFinds`, `LayoutsFit`: the invariants of `structures`, from it;
* `ListsImplementOrder`: the refinement of `ElementOrder`, one operation at a time.

So each property that the run checks is proved for every value of the constants.  What each rests on:

* Lists and the hash table are both a `Chain` (of `Counting`): pointers that follow an order without repetition, with both ends where the head says.
  It is turned round (`ChainBackwards`), gets one more at either end (`ChainMore`, `ChainFront`) and one less anywhere (`ChainLess`), and a walk
  of the model along it meets its order (`SteppingIs`).  `ListInv` adds that an element off the list has no pointers, which
  `dlist_is_linked` needs; `TableInv`, that the places on the list are those with a digest and lie in the digest's bucket, without
  which a look-up would pass it by.  An element that left the table's list keeps its pointers, so nothing is said of those.
* `RingInv`: the slots between the indices are the free objects, each once, and the ring has a slot more than there are objects, as
  `log2` of `mempool.c`, which rounds up, leaves one (`RoomForAll`).  Hence an enqueue never fails, which is why `mempool_put` may ignore its result.
* `PoolInv`: the areas of the objects keep the length, and ends, that the layout gave them; that they are apart is then arithmetic on
  `align_up` (`AlignUpIs`, `ObjectsTogether`, `ObjectsApart`).
* `RangesInv`: the ranges are ordered and end inside the volume.  `_shfs_alist_find_ff` skips a run of ranges without room
  between them (`RunIs`), and the first run to end is the first room (`FoundIs`, `FitFirst`).
* `VolInv`: a layout is what shfs_mkfs computes; the rest is division (`CombinedFits`, `IndependentFits`).

`Counting` has what several of the proofs rest on: two facts on cardinalities, that a set of naturals has a least member (`NatLeast`,
by which induction is done without the library's operator-valued theorem), that a finite set of them has a greatest
(`MaxInRange`), what `InsertAt` and `RemoveAt` make of a sequence, and the lemmas on chains, which the lists of `StructuresProofs` and the available list
of the cache share.

`AioImplementsCalls` is the refinement of `AioCalls` by `ShfsAio`, step by step: each action of the implementation is one of the contract's
actions or changes nothing a caller sees (`ViewInv` ties what a caller is told to its token and to the answers that are still due).

Every invariant that a passing run checks is thus proved.  Only model-checked is liveness, which is out of the prover's reach.

## 5. What is not modelled, and why

* Statistics, shell commands, parsing and printing of digests and of options, wrappers of `os`, `time` and FAT, and debugging aids have little or no
  state of their own, or do nothing but input and output.
* The interpreter port (`minipython.c`, `main.c`) is glue between MicroPython and mini-os, neither of which is here.
* In modelled components: cookies and links of open files (`ShfsFio`), reads of files longer than a chunk; the table's private data and `htable_pick`; rings as anything but
  pools of free objects; what several programs do to the devices at the same time, except for the edits in `ShfsFio`; callbacks from lwIP to Python.
* Tasks that run while a failing mount closes its members, and the reads that go on when `load_vol_htable` gives up (hazards without a property): both
  end in memory that was freed, of which the models have no notion beyond the traps listed.
* mini-os (semaphores, scheduler, blkfront), lwIP, MicroPython and mhash are not in this repository; they are modelled as the code uses them.

`PROJECT.json` has the status of every component.

## 6. Plan

What could come next: a failing mount beside other tasks; callbacks that enter the cache from `_cce_aiocb`; the file reader of `minipython.c`.
