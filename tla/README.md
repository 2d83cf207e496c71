# A formal model of zlOS

This directory holds TLA+ specifications of the core of the zlOS kernel (`src/kernel/src`),
the configurations that model-check them with TLC, and theorems about them that
TLAPS checks. Paths below are relative to `src/`; `block.c:125` means line 125 of the
file of that name. Every definition that stands for code is listed, with its lines, under
`map` in `PROJECT.json`.

    tlc -workers 2 -config MCBlockCache.cfg MCBlockCache      # any run: PROJECT.json lists them
    tlapm PmmProofs.tla                                       # any *Proofs module

## 1. The system

The repository is a language tool chain (`zl`) and an operating system written with it.
The kernel is one image: a cooperative main loop in `kernel/src/kernel.zl` that polls the
network, the input devices and the windows once a frame, C subsystems it calls, and two
ring-3 process slots that a timer can interrupt. There is no preemption inside the kernel
but for interrupt handlers, and the only thing most of those do is leave a log record.
What makes it hard is therefore not locks. It is calls that fail half way, hardware that
acts between two steps (the MMU, a disk controller, a peer on the network), power that goes
between two disk writes, and counters that wrap.

### 1.1 Components

| component | files | state | operations | modelled by |
|---|---|---|---|---|
| block cache | `drivers/storage/block.c` | 128 pages with an age and a dirty sequence number, `dirty_n` | `block_read/write/service/flush` | `BlockCache`, `WriteBack` |
| nvme | `drivers/storage/nvme.c` | two queue pairs, phase tags, one bounce page | bring-up, read, write, give up | `Nvme`, `BlockDevice` |
| zlfs | `fs/fs.c` | superblock, two directory slots with generations, runs of blocks, the directory in memory | `fs_mkfs`, `fs_mount`, `fs_create/write/delete/rename/sync` | `Zlfs`, `Volume`, `ZlfsVolume` |
| physical page allocator | `core/pmm.c` | owner of each page, quotas, counters, cursor | `pmm_init_*`, `pmm_alloc`, `pmm_release`, `pmm_set_owner_limit`, audit | `Pmm` |
| process address space | `core/process_memory.c`, `core/anon_memory.c`, `arch/x86/page_table_txn.c`, half of `arch/x86/usermode.c` | image frames, the anonymous window, page-table entries, the translations the CPU caches | prepare, release, reserve, commit, CR3 loads, the page walk | `ProcessSpace` |
| ring-3 scheduling, messages, windows | the other half of `usermode.c`, `graphics/windowing/userwin.c` | trap frames, FPU images, mailboxes, window handles | enter, preempt, yield, exit, fault, send, receive, open, close | `Ring3` |
| scheduler | `core/sched.c` | the task table | create, yield, sleep, exit | `Sched` |
| log recorder | `core/zllog.c` | record ring, interrupt lane, slots and superblocks on the log partition | append, drain, mount, flush, rotate, complete | `LogLane`, `ZlLog` |
| tcp | `net/tcp.c` (driven by `net/http.c`, `web/browser.c`) | one client connection | connect, send, recv, close, abort, input, tick | `Tcp`, `TcpConnection` |
| dhcp, dns, the UDP sink | `net/dhcp.c`, `net/dns.c`, the addresses of `net/net.c` | one exchange each, the name cache, who receives UDP | start, receive, poll, reset, navigate | `NetConfig` |
| boot state | `core/boot/boot_state.c` | attempts and failures per generation | prepare, mark ready | no: nothing calls it yet, so the order of its calls and its storage would be invented |
| network drivers | `drivers/network/*.c` | descriptor rings | send, poll | no: what they lose, repeat or delay is what the networks of `TcpConnection` and `NetConfig` do |
| arena, exec, interpreter | `core/arena.c`, `core/exec.c`, `runtime/interp_kernel.c` | the program arena | alloc, reset, run | no: a bump pointer with one caller, and a language semantics that a test corpus checks |
| heap | `core/heap.c` | size classes, free lists | alloc, free | no: sequential, with its own self-test at boot |
| interrupts, paging, SMP, PCI, RTC | `arch/x86/*.c` | hardware registers | set-up | no: only what the modules above need of them (the tick, the page walk) |
| input, display, graphics, windows | `drivers/input`, `drivers/display`, `graphics/` | devices and pixels | draw, poll | no, but for who owns a window (`Ring3`): register sequences and layout |
| tls, crypto, x509 | `net/` | keys and transcripts | handshake | no: arithmetic and parsing, which test vectors check |
| web engine | `web/html.c`, `css.c`, `layout.c`, `js.c` | documents | parse, lay out | no: sequential functions of data |
| boot loaders, crash pages, tar, images | `kernel/boot`, `core/crash.c`, `fs/tar.c` | firmware tables, text | boot, print, decode | no: straight-line code and decoders of immutable data |
| zl tool chain | `src/`, `freestanding/`, `stdlib/` | programs | compile, run | no: sequential transformations, tested differentially |

### 1.2 How they interact

    browser_tick --> http_poll --> tcp_send/recv/close        idt_ticks (100 Hz)
         |  |                          |                         |         |
         |  +--> dns_start/dns_poll    +--> net_send_ip       tcp_tick   sched.c
         +-----> tcp_tick    |                 ^
    dhcp_work --> dhcp_poll -+--> net sinks ---+

    zl programs --> fs_write --> block_write ... block_flush --> nvme_write_from --> disk
                      zlfs          cache   block_service           queue pairs   controller

    interrupt handlers --> interrupt lane --> ring in memory --> slots of the log partition
    (any time)             LogLane            zllog_append        zllog_flush_if_due, zllog_complete

    process64_prepare / system calls --> anon_memory --> page_table_txn --> page tables <-- MMU
            |                                |                                 (any time)
            +--> mailboxes, userwin --> wm   +--> pmm_alloc / pmm_release

Everything is a direct call. The shared state is the block cache between zlfs and the disk,
the page allocator between the processes, the page tables between the kernel and the
MMU, the rings between the NVMe driver and its controller, the lane between interrupt handlers
and the recorder, and the one UDP sink between DHCP and the resolver. There are no callbacks
except the packet sinks of `net.c`.

The main loop (`kernel.zl:14385`, `:14769`) goes round `wm_frame`, `blk_work`, `dhcp_work`,
`idle` for as long as the desktop runs: this is where `block_service` is called
(`freestanding/runtime_kernel.c:2773`), where the browser ticks, and, in `idle`, where the
log is checkpointed (`runtime_kernel.c:1468`). The fairness assumed in 4.2 comes from it.

### 1.3 What is hard, and what correctness means

* **Block cache.** A write is accepted into memory, reordered by age for eviction and by
  sequence for draining, and lost on a power cut. Correct: no accepted write is lost or
  shadowed while the power stays; blocks reach the disk in the order of their last writes;
  a flush that says yes has stored everything; a full cache drains.
* **NVMe.** An entry of the completion ring is new when its phase bit says so; a command given
  up after three seconds is answered later, into the same ring; a bring-up that failed half way is
  done again over rings the controller may still know. Correct: driver and controller
  always agree which entries are new; to its callers the whole is a disk that does one thing at a time.
* **zlfs.** Power can go, and the device can refuse, between any two block writes of an
  operation. Correct: each operation is atomic against both, two files never share a block.
* **Page allocator.** A table and a dozen counters kept in step by hand, through a roll back.
  Correct: the audit never fires, nobody loses a page, nobody sees another's bytes.
* **Process memory.** Page-table writes are visible to the MMU one by one, a flush can fail,
  and so can the undoing of it. Correct: no entry or cached translation reaches a frame that
  somebody else owns; nothing leaks.
* **Ring 3.** The one set of registers and of FPU state goes through a trap frame, two static
  areas and a table, in an order that depends on who left user mode how. Correct: everybody resumes with
  what they left; messages are not lost, repeated or inherited; windows go with their process. While a
  process is resumed the stack lies inside its own record, with interrupts on.
* **Scheduler.** Suspended tasks, ticks that wrap, tasks that are all asleep. Correct: one
  task runs, nobody is woken early, nobody is passed over, sleepers return.
* **Log recorder.** Handlers interrupt one another between reserving a cell and publishing it; a
  flush writes data, header and superblock in turn, and any of them can fail or be half stored.
  Correct: a record is forgotten only when the partition keeps it, and a header never counts what is
  not there.
* **TCP.** Loss, duplication, reordering, windows that close, sequence numbers that wrap, and
  a timer that races all of it. Correct: both streams arrive whole and in order, closed
  means delivered, nothing waits for ever.
* **DHCP and DNS.** Replies that come late, twice, or to somebody else, since there is one UDP sink
  and the user may navigate at any time. Correct: a lease puts in force
  what one offer and one acknowledgement said, no page gets a stale or foreign answer, both exchanges end.

`hazards` in `PROJECT.json` lists these at their lines with the properties that watch them.

## 2. Plan

Done, in this order: storage from the block cache to the volume; page allocator; process memory;
TCP; scheduler; interrupt lane and log; NVMe; ring 3; address configuration. Three abstract
specifications are stated and implemented: `WriteBack` (what the cache promises), `BlockDevice`
(what the NVMe driver promises) and `Volume` (what the file system promises). The chain from zlfs
down to the controller is then: `ZlfsVolume` implements `Volume`; `Zlfs` is written on `WriteBack`,
which `BlockCache` implements; `BlockCache` writes blocks one at a time to a disk that says yes or
no, which is `BlockDevice`, which `Nvme` implements.

What would be next:

1. **File handles of usermode.c**: a directory slot that is removed and created again makes an open
   handle name another file; it needs `Zlfs` and `Ring3` composed.
2. **boot_state.c**, once something calls it: is a good image ever excluded for good (the
   degraded choice of `boot_state.c:158` always takes the recovery image, good or not)?
3. **The transmit ring of virtio_net.c**, which hands a frame over without waiting for earlier ones
   (`:528`).

## 3. The modules

Each `MC*` module instantiates one of these for TLC. Where one run explores several kinds of
behaviour that do not meet, the module has a constant `Plans` and a variable `plan` chosen initially
and never changed: a plan bounds what the environment does (how many calls, failures, power cuts),
never what the code does.

### Storage: `WriteBack`, `BlockCache`, `Nvme`, `BlockDevice`, `Zlfs`, `Volume`, `ZlfsVolume`

`BlockCache` has every page, its age and its sequence number, and one action per exported
call. `block_flush` is the one that is split: each round of its loop is a step
(`FlushRound`), so the power (`CachePowerCut`) can go between two device writes, and a device
write that fails (`ServiceFails`) may or may not have reached the disk. `latest` is a history
variable: the last accepted write of each block. Reads that fail change nothing and are left
out.

`WriteBack` is the promise: a queue of dirty blocks in the order of their last writes, drained
from the front. `BlockCache` implements it (`ImplementsWriteBack`: `DirtyQueue` sorts the
dirty pages by sequence number), and `Zlfs` is written on top of it: `WriteBlocks` queues,
`Flushed` and `FlushFails` drain.

`Nvme` has the two submission and two completion rings in memory, the driver's tails, heads and
expected phases (`drv`), and the controller's own (`ctl`). The driver's actions follow `cq_wait`:
`SkipAnswer` for an entry that answers another command, `TakeAnswer` for its own, `GiveUp` after
three seconds. `BringUp`, `BringUpFails`, `SetupSubmit`, `SetupAnswered` and `Abandon` are
`nvme_setup`. The controller, which is external, fetches in order, carries out in any order and answers
at any time. `power` is its own state: told to stop, it is off when the driver's two seconds are over or
still stopping, since nvme.c:544 does not look at the result; a stopping controller keeps its queues and
goes on with what it holds until it is off (`Stops`). One that is enabled again while it stops is taken
to start anew (`Enabled`).
`LateData` says whether it still moves the block of a command the driver has given up. `Setup` is
the sequence of commands of the bring-up. `BlockDevice` is the promise: a call moves one block,
once, or is refused.

`Zlfs` has the on-disk format as three kinds of block (superblock, header and directory block
per slot, data block), the directory in memory, and the call that is waiting in
`fsdev_sync` (`op`). A call runs up to its first flush in one action; each flush is a
step of its own: `DataFlushed`, `DirFlushed`, `CommitFlushed`, `FormatFlushed`, `SyncFlushed`
or `FlushFails`. One directory entry per directory block is the finest way a directory can
be torn. File contents are one value per write, which is what tells a mixture apart.
`Promised` says that the device stores every header it is given and that every block can be read at
mount; `RunsDisjoint` of the mounted directory is stated under it, since `dir_sum` is a plain sum
that cannot tell every torn directory from a whole one (number 18 of section 7), and without it only
of what a call makes of a disjoint directory.
Version 1 volumes and the string handling of names are left out.

`Volume` is what a user wants: named files, operations that happen or do not, and a set
`safe` of volumes that a power cut now may leave. `ZlfsVolume` computes that state from the
state of `Zlfs` (`safe` by running the mount code over every prefix of the queue) and states
`ImplementsVolume`. Under a plan without `Promised` the three variables stay as they are: there the
refinement promises nothing, and `zlfs_mixed` shows why it cannot.

### Memory: `Pmm`, `ProcessSpace`

`Pmm` keeps the allocator's variables in one record `pmm`, and `pmm_alloc` and `pmm_release`
as functions of it, so that `ProcessSpace` can use the same definitions through `INSTANCE`.
`Init` takes any memory map of `Ranges` and admits its pages as `pmm_init_ranges` does, in
bytes, so that descriptors that begin or end inside a page matter. `soiled` says which pages
hold data, for `zero_page`; a page of `Unmapped` is one that `zero_page` cannot reach, which
takes the roll back of `pmm_alloc`.

`ProcessSpace` runs a call one frame, one page-table write and one flush at a time (`op.pc` is the
place in the code). Between any two of these steps `Walk` may happen: the MMU caches a translation
and sets the Accessed bit. `Faults` chooses what may go wrong: a write whose verification is made to
fail (the code's fault injection) or a flush that is refused, and then the undoing (`Restore`,
`Reflushed`, `CompareRestored`) may fail too and leave windows "broken". An image is one or more
frames; its contents, permissions and register frames are left out.

### Processes: `Ring3`

The processor's registers and FPU state, the trap frame, the two static FPU areas and the process
table, with one action per way in and out of user mode: entering and resuming, the timer, a system call
that returns, yields or exits, a fault. The way in is two steps: `Step` loads the FPU state and moves the
stack, `Iretq` pops the registers and leaves. Between them interrupts are on, and `user64_resume_asm`
stands on `saved_frame` in the process's own record (usermode.c:1713): `StrikeRecord` is an interrupt
there, which pushes its frame over the fields that lie before it (`has_frame`, `started`, and as far as
its handler reaches `state` and `pid`), with any outcome. `struck` and `lost` are history: the slots that
befell, and the identifiers their records had before and after. The handlers that such an interrupt runs
leave the FPU registers alone, which `kernel/tools/checks/check-isr-sse.sh` keeps true, so the FPU state
that was loaded stays. Register contents are one value of `Value`, which is enough to
tell whose they are. A mailbox is its ring with head, tail and count. `userwin.c` is there with the
window manager's slots, which the user and other applications open and close as they like. `left`,
`kernelFpu`, `sent` and `strikes` are history variables too.

### Scheduler: `Sched`

The task table and, for each task, where it is suspended (`pc`): in its own code, in the loop
of `task_sleep`, or in the loop of `task_exit`. `Clock` is the timer interrupt; ticks are
modulo `TickMod` and `now` starts anywhere. `left` and `ahead` are history variables: the
time a sleeper still has, and who has been switched to while a task could have run.

### Log: `LogLane`, `ZlLog`

`LogLane` is the lane interrupt handlers write to: load `irq_write`, reserve a cell, fill it,
publish it, each a step of its own, in as many nested or parallel handlers as there are, against a
drain that takes the published cells in order. `ZlLog` extends it with the ring in memory and its
ceilings for ordinary and sampled records, the mount, and the flush: records, header, superblock,
each write with its cache flush a step. The device may fail a write, having stored any part of it or
holding it in its own cache. A reboot mounts what is left. `kept` is a history variable: which
record was forgotten, and the slot it went to. A mount may fail to read a copy of the superblock or the
header of the slot left writing, and does without (`valid`, `header`). So `spent.back` is history as well:
whether the numbers were ever taken back, by a retry that the end of the slot cuts short or by such a
mount when that makes its first number a lower one (`Behind`; number 17 of section 7). A slot that is full is sealed and the next one
started (`SlotSealed`, `SlotLeft`, `SlotRestarted`); `Completed` is the orderly halt.

### Network: `Tcp`, `TcpConnection`, `NetConfig`

`Tcp` has no variables: each C function is a function of the record of tcp.c's static
variables, and the segments it sends collect in `out`. `TcpConnection` supplies the rest: the
application (when `http.c` writes, reads, closes, keeps, takes again and aborts a connection), the frame
loop that ticks (`app.ticked`: a fetch is on, so `browser_tick` gets as far as `tcp_tick`), and
a peer on a lossy network. The network needs no queue: what the client ever sent stays on
`wire`, the peer takes any of it at any time, and it may at any time send whatever an honest
peer in its state may have sent, old acknowledgements included. That covers loss, repetition,
delay and reordering in both directions. A byte is its own position in the stream, so a wrong
byte shows. The retransmit timer is armed or not; its length is left out.
`EdgeIsKept` and `KeptUntilReceived` are stated against the peer's knowledge.

`NetConfig` runs the two main-loop clients of UDP on one clock: `dhcp_work` (its retries and the
receipt of offers, acknowledgements and refusals; `Options` is how those of the acknowledgement go over
those of the offer, dhcp.c:151) and `browser_tick` (the lookup of a page, its
answer or time-out, and the name cache). `navigate` and `NavigateNumber` are the browser's address
bar, which the user may use at any time and which take the UDP sink. The network keeps every message
DHCP may still receive, so that it is lost, repeated or late as it likes; a reply of the resolver
may be `MaxDelay` ticks late. A REQUEST is broadcast, and any server may acknowledge or refuse it; one of
`Unsigned` leaves option 54 out, and its acknowledgement is taken whoever was chosen (dhcp.c:147). Which
of mask, gateway and resolver a message names is in `Says`; what a setting is worth is told by who gave
it. A lookup by a resolver that is not in `Resolvers` sends nothing.

## 4. Runs

| run | instance | shows |
|---|---|---|
| `block_cache` | 2 pages, 3 blocks, 2 values, 5 cache accesses between power cuts | coherence, honest flush, `BlockCache` implements `WriteBack`, a full cache drains |
| `nvme` | rings of 3, 4 identifiers, 1 given-up command, 2 blocks, 2 values | driver and controller in step, ready means whole and not ready means that no block moves, `Nvme` implements `BlockDevice` |
| `zlfs_volume` | 2 files, 3 data blocks, runs up to 2, 4 cache pages; 5 calls with data flushes that may fail, or 4 with every fault | `Zlfs` implements `Volume`; `alloc_run` is first fit; no two files share a block while only data flushes fail, and whatever fails no call makes two files share one |
| `zlfs_mixed` | the same, 4 calls, header flushes may fail | **violated**: `FoundFilesAreWhole` |
| `pmm` | 145 memory maps, up to 5 pages, 2 owners, limits 1, 2 and none, a page that cannot be zeroed | audit, honest account, admission, ownership, zeroing |
| `process_space` | 2 processes, windows of 2, images of 1, 3 frames, every fault | no dangling or leaked frame, checks never fire, buffers mapped, broken windows are held |
| `ring3` | 2 slots, one reused under two identifiers; register values, mailboxes of 2, or 2 user windows over 2 slots; one overwritten record, with register values or with windows | contexts, mail, windows |
| `sched` | 3 tasks, 6 ticks | none early, none passed over twice, sleepers return |
| `zllog` | 2 handlers over a lane of 2; a ring of 4, 2 slots of 3 records; five plans of failures, power cuts and rotations | the lane is exact; what is forgotten is kept; headers are true; numbers grow unless one of three known ways took them back; the ring empties |
| `tcp` | sending 3 bytes in segments of 2 with windows 0 and 3; or receiving 4 bytes over two connections with resets; sequence numbers modulo 32 from 30 and 29 | both streams right and whole, nothing dropped early, window kept; while a fetch is on, the SYN and the bytes written are answered or given up |
| `tcp_rewind` | a sender and a peer that only acknowledges | **violated**: `CumulativeAckValid` |
| `net` | 3 DHCP servers (one unsigned, one that names only a gateway, one with a resolver that can be reached), 2 names, 2 lookups, 1 retry, a cache of 2 | a lease puts in force what one offer and one acknowledgement said, answers are current, exchanges end |

### 4.1 Why the bounds are enough

* *Block cache.* Two pages are the least with an order to get wrong, three blocks the least
  that force an eviction. `MaxClock` bounds ages between power cuts at 5: enough to fill,
  rewrite, drain and evict. It is below `Word`, so this run does not wrap (see 7.1); the
  proofs do not have that bound.
* *NVMe.* Rings of three wrap with every third command, so each phase comes several times, and four
  identifiers wrap while one given-up command still holds one. `MaxGivenUp` is the controller's
  side: the driver has no check against a ring filled by commands it has given up (`Depth - 1` of
  them, 63 in the code), and this bound excludes it. An identifier is not given out again while it
  is held (`NewCid`), which 65536 of them do in practice. The proofs keep both assumptions and have
  no other bound. That a stopping controller is enabled again as if it were off is the one assumption
  about its power.
* *zlfs.* Three data blocks and runs of up to two give gaps, fragmentation and no
  room. Four cache pages are less than two operations queue, so refusals happen. Generations
  are modulo 4 and wrap within the five calls. Each call may be interrupted at every block.
* *Page allocator.* Descriptors of 3, 8 and 12 bytes over pages of 4 give every alignment;
  five pages and two owners give exhaustion by quota and by memory, and the wrap of the
  cursor. The proofs have no bounds.
* *Process memory.* Three frames for two processes run out in every call, and windows of two
  give transactions of several entries and runs that overlap partly.
* *Ring 3.* Two slots are what the kernel has. Two register values tell two contexts apart; the two
  identifiers of the first slot make a successor; a mailbox of two fills and wraps. The three plans
  (contexts; mail; windows) do not meet in the code; two more let an interrupt overwrite one record, of
  which every later outcome follows. The proofs have no bounds.
* *Scheduler.* Three tasks are the least with one to overtake. A range of six ticks clamps a nap of
  4 to 2 and wraps in every behaviour. `MaxLate` keeps a task that is due from being kept waiting
  for half the range of the clock (248 days at 100 Hz), after which it would count as asleep again;
  the proofs keep that assumption for every range.
* *Log.* One handler that overtakes another between every two of its steps needs two, and a lane of
  two fills with three records. Slots of three rotate after two flushes. A plan has at most two
  failures or two power cuts: a failure, of a write or of a read at mount, before or after a cut with
  records made meanwhile; two failures of one boot; three boots. A failed checkpoint that is retried fills its slot and rotates.
  `LogLane`'s indexes are taken to stay below 2^32, where the code's "not valid" mark 0 would come
  by; the proofs have no other bound.
* *TCP.* Sequence numbers start just below the wrap. Three bytes with segments of two give a full
  and a short segment; tries are 2 instead of 6 and 12, so that giving up is reached; the
  duplicate-acknowledgement counter may reach 4, one past the fast retransmit. Both directions at
  full length at once are not explored: `Sending` has one byte coming in, `Receiving` none going
  out.
* *DHCP and DNS.* Three servers, of which any acknowledges or refuses, make an offer, signed and unsigned
  acknowledgements and a refusal from different servers meet; what they name differs, so a setting of the
  offer is kept, replaced, or made up (the mask). A lifetime of 0 and one above `MAX_TTL` are the two that
  the cache clamps. Six ticks wrap in every behaviour. A reply that is up to two ticks late can come
  after the lookup it belongs to was given up and another begun. The code's transaction numbers and
  ports are taken to differ within `MaxQueries`.

### 4.2 Fairness

Only where the code gives it:

* `BlockCache!MainLoopSpec`: a flush that has been called goes on (`WF(FlushRound)`), since it is a
  loop that waits for the controller with a limit; and the main loop calls `block_service` every
  time round (`SF(Served)`: a served block is written. Strong, because flushes, during which it is
  not enabled, may come again and again in between; it says that the device does not refuse every
  write from some time on).
* `TcpConnection!TickedSpec`: `WF(RunTimers)` while a fetch is on and no longer: `browser_tick` returns
  before it calls `tcp_tick` after that (browser.c:1440), and the test command `web_gate` (kernel.zl:8918)
  stops calling it at the same point, though `tcp.h:74` says of the timers
  "Called from the same frame loop". In what is safety anybody may tick at any time. Nothing is assumed
  of the peer or the network: `AttemptsEnd` holds because the tries run out, and it speaks of what happens
  during a fetch, the SYN and the bytes written. That a close ends is not so (numbers 8 and 9 of section 7).
* `Sched!FairSpec`: interrupts go on coming (`Clock`), the loops in `task_sleep` and `task_exit`
  go on, and a task that runs goes on to its next `task_sleep`, as `counter_task` (`sched.c:359`) and
  so every task of the kernel does. A task that never yields would stop everything: that is what
  cooperative means.
* `ZlLog!FlushingSpec`: the idle loop goes on calling `zllog_flush_if_due`, and a call that was made
  goes on.
* `NetConfig!FairSpec`: the main loop goes round (`dhcp_work`, and the tick of the open browser
  window) and so does the clock. Nothing is assumed of servers, resolver or network.

### 4.3 Deadlock

Checked everywhere except in the TCP and log runs, where the system may really stop: all connections
allowed by the bound have been opened and closed; the machine has halted after `zllog_complete`
(`kernel.zl:14871`).

## 5. Proofs

Eight modules prove, for every value of the constants that satisfies the named assumptions:

| theorem | statement |
|---|---|
| `StorageProofs!TypeCorrect`, `CoherentAlways`, `CounterExact` | `CacheSpec => []CacheTypeOK`, `[]Coherent`, `[]DirtyCounted` |
| `StorageProofs!FlushTheorem` | `CacheSpec => FlushOkMeansStored` |
| `StorageProofs!CacheIsQueue` | with `MaxClock < Word`: `CacheSpec => ImplementsWriteBack` |
| `StorageProofs!AllocAlwaysFirstFit`, `RunsAlwaysDisjoint` | `Spec => []AllocIsFirstFit`, `[]RunsDisjoint` |
| `StorageProofs!VolumeAlwaysOK` | `Spec => []VolumeOK`: entries and runs in range, calls keep files apart, whatever the device does |
| `StorageProofs!ZlfsIsVolume` | `VSpec => ImplementsVolume` |
| `StorageProofs!HeadersComeLast` | `Spec => [](op.at = "header" => SlotDir(disk, op.slot) = op.dir)` |
| `PmmProofs!TypeCorrect`, `AuditAlwaysClean`, `CursorAlwaysLow`, `AccountAlwaysHonest` | `Spec => []TypeOK`, `[]AuditClean`, `[]CursorBelowFree`, `[]AccountIsHonest` |
| `PmmProofs!OwnershipTheorem`, `ZeroedTheorem`, `UsablePagesTheorem` | `Spec => OwnershipMoves`, `HandedOutZeroed`, `[]OnlyUsablePages` |
| `SchedProofs!TypeCorrect`, `OneRunsAlways` | `Spec => []TypeOK`, `[]OneRuns` |
| `SchedProofs!NobodyOvertakenTwice`, `NobodyEarly` | `Spec => OvertakenOnce`, `NeverEarly` |
| `ZlLogProofs!LaneTypeCorrect`, `LaneExactAlways` | `LaneSpec => []LaneTypeOK`, `[]LaneExact` |
| `ZlLogProofs!LogImplementsLane`, `LogDrainsExactly`, `TypeCorrect` | `Spec => LaneSpec`, `[]LaneExact`, `[]TypeOK` |
| `ZlLogProofs!ForgottenAlwaysKept`, `CheckpointAlwaysTrue`, `BootsAlwaysInOrder` | `Spec => []ForgottenIsKept`, `[]CheckpointIsTrue`, `[]BootsInOrder` |
| `Ring3Proofs!TypeCorrect`, `MailAlwaysInOrder`, `WindowsGoWithOwner` | `Spec => []TypeOK`, `[]MailInOrder`, `[]NoWindowOutlivesOwner` |
| `Ring3Proofs!ContextsNeverMix` | `Spec => EachResumesItsOwn` |
| `ProcessSpaceProofs!TypeCorrect`, `NeverDangling`, `NothingLeaks` | `Spec => []TypeOK`, `[]NoDangling`, `[]FramesAccounted` |
| `ProcessSpaceProofs!CommittedIsMapped`, `ChecksNeverFail` | `Spec => []BuffersMapped`, `[]ChecksPass` |
| `ProcessSpaceProofs!BrokenKept` | `Spec => BrokenStaysHeld` |
| `NetProofs!LeaseAlwaysWired` | `Spec => []BoundMeansWired` |
| `NetProofs!AnswersAlwaysCurrent` | with `MaxDelay <= AskTicks`: `Spec => AnswerIsCurrent` |
| `NetProofs!SegmentsAlwaysMatch`, `BytesKeptUntilReceived` | `TcpSpec => []SegmentsMatchStream`, `[]KeptUntilReceived` |
| `NetProofs!CloseAlwaysComplete`, `BuffersStayInBounds` | `TcpSpec => []OrderlyCloseIsComplete`, `[]TcpTypeOK` |
| `NetProofs!ReceivedAlwaysPrefix`, `EdgeNeverTakenBack` | with `SynDataAgain = FALSE`: `TcpSpec => []ReceivedIsPrefix`, `[]EdgeIsKept` |
| `NvmeProofs!AlwaysInStep`, `ReadyAlwaysWhole` | `Spec => []InStep`, `[]ReadyIsWhole` |
| `NvmeProofs!ActsAsDevice` | with `LateData = FALSE`: `Spec => ImplementsBlockDevice` |

Type invariants, `DirtyCounted`, `CursorBelowFree` and `OneRuns` are proved and no longer run.

* **Block cache.** The inductive invariant is `TypeOK`, `Coherent` and `DirtyCounted` together.
  None of them is inductive alone: that an uncached block can be read from the disk needs that only clean
  pages are evicted, which needs that clean pages are stored; that a flush which says yes stored
  everything needs the counter to be exact, since the code looks at `dirty_n` and not at the
  pages. The wrap of the sequence numbers does no harm to any of these, only to the order,
  so the theorems hold without a bound on `clock` or `wseq`.
* **Block cache, a queue.** Below the wrap (`MaxClock < Word`; number 1 of section 7 is why) the
  refinement needs `Numbered`: each dirty page has a sequence number of its own, none is above
  `wseq`, and `wseq` has not overtaken `clock`. Then a page's rank, the number of dirty pages with a
  smaller number, is its place in `DirtyQueue`, and as there are as many ranks as pages every place is
  one's (`Listed`, `ListedOnce`). A write gives its page the last rank and moves those behind its old
  one up by one, which is what `Enqueue` does (`WriteListed`, `EnqueueOne`); the page that
  `block_service` takes has rank 1 (`ServedListed`). The rest are steps that change no rank.
* **zlfs, the search.** `alloc_run` looks at one gap at a time, by a recursive function from place
  to place. `AllocRunIsLeastFit` says that it returns the least place from which the run fits, for
  every directory whose runs are disjoint. A minimal counterexample (`WellFoundedInduction`, over
  the places counted from the end) would hand the question to the next gap, where there is none. That
  the runs are disjoint is needed: behind a run that overlaps the next one the walk goes back.
* **zlfs, the volume.** `VolumeOK` is inductive whatever the device does: it holds the ranges, and
  that a call which starts from a disjoint directory is about to publish a disjoint one, which is
  `alloc_run`'s lemma for `fs_create` and `fs_write`. `OpOK` is what the call in progress stands for:
  a header is queued alone, when all of its directory is on the disk (`HeadersComeLast`). What a mount
  finds is `Recoverable`, an invariant of plans with `Promised`: the active slot is newer than the
  other by one generation and its header agrees with its blocks (`Vouched`), and nothing queued
  touches it (`Clear`). Between a power cut or a failed format and the next mount no slot is in
  charge, and `Sound` says what any number of queued blocks may leave: a superblock that reads blank;
  or a vouched slot with nothing queued for it; or one whose blocks are queued behind a blank
  superblock (`Guarded`), since a format does queue over what an earlier call left. The disk in the
  theorems is the one after any prefix of the queue (`Drained`, whose lemma `StoredOK` says that each
  block has what it had or the value queued for it), so a power cut adds no case. `GenMod > 3`
  makes generations that are one apart ordered through the wrap.
* **zlfs, atomic.** `ZlfsIsVolume` needs two more invariants of plans with `Promised`. `Dependable`
  is about the contents: no write is queued for a block that the newest directory on the disk names,
  or the volume is blank and stays blank (`Intact`); and a mounted volume's superblock is set. It is
  kept by `fs_write` because the run it writes to is apart from every published one, its own file's
  included unless that was never written (`WriteApart`), and by the other calls because they queue no
  data. `Mirror` says that `vol`, `next` and `safe` are what `VNext` computes. From these, `CrashIs`: a
  mount of any prefix of a queue without headers finds a blank volume or the one volume `Kept`, so
  `safe` has at most two members (`ServingFacts`) and no prefix has to be looked at again. `safe` has
  the result of a call in it only while a header is queued, and then the queue is that one block
  (`HeaderOutcomes`): the old slot is the newest before it is stored and the new one after
  (`HeaderVouchesOn`). A flush that fails can only take volumes away from `safe`, since what it
  leaves drains to nothing that the whole queue could not (`DrainedAgain`, `CrashShrinks`). Each
  action is then a step of `Volume` (`VolumeStep`): calls are `Begin`, a refused block or a failed
  flush `Abort`, a flush `Progress`, `Commit` or `Formatted`. That an unused entry has no length
  (`FsEntry`) is what makes an empty slot the same file table entry whatever was in it.
* **Page allocator.** The invariant is that `pmm` is well typed, the counters agree with the table
  (`Audit`) and no free page lies below the cursor (`LowCursor`). The
  last is what makes the circular scan complete, hence `AccountIsHonest`, and it is preserved by
  `pmm_release` only because the cursor moves down, and by the roll back of `pmm_alloc` only because
  it moves no further than the page. The counters are cardinalities of sets of pages, so the
  lemmas are about adding and removing one element of a finite set.
* **Process address space.** The invariant says of each process what its bookkeeping and its page
  tables may hold at each place of a call. `Books`: its counters count its windows, and no frame is
  named twice. `Charged`: the allocator charges to it exactly the frames that its windows, its
  image or the hands of the call in progress name. `Mapped`: an entry that is present is a window's
  or that of the window being put in or taken out. `Cached`: a translation may outlive its entry until
  the flush that the call is about to make, and no longer, unless the window is broken.
  `Progress`: what `op` holds at each `pc`. None is inductive alone: that a frame may be
  released needs that neither entry nor translation is left, which needs to know that the
  flush of this call succeeded; that a flush is enough needs to know which entries the call changed.
  Facts about `pmm_alloc` and `pmm_release` are lemmas about the operators that `Pmm` and
  `ProcessSpace` share. `SpaceAssumption` says of the owners that they are pairwise different and
  none is "free" or "reserved".
* **Scheduler.** `OneRuns` ties the state of each task to where it is suspended; with `TypeOK`, and
  `Fresh` (nothing has yet run in the free part of the table, so a created task starts at its
  entry), it is inductive. `OvertakenOnce` adds `Passed`: who has been switched to since a task
  could run lies between that task and the running one, going round the table, so the round robin
  reaches the waiting task before it comes back to any of them. `NeverEarly` adds `Sleeps`: a
  sleeper's deadline is ahead by at least the time it has left and at most half the range
  (`ToCome`), or behind by no more than `MaxLate` (`Gone`), which is what the comparison modulo the
  clock's range tells apart.
* **Interrupt lane.** The invariant follows each handler from loading the index to publishing: the
  cells between the drain and `irq_write` are a window of at most the lane's size, so no two of
  their indexes share a cell; a reserved cell is not published, and a published one holds what its
  handler filled in.
* **Log.** A write that fails, or in the middle of which the power goes, may leave any part of it, and
  the device may hold another part in its own cache. So the invariant is not about the partition but
  about everything the device may hold of each block (`Device`); a write adds what it brings
  (`Midway`). The lemma that carries the proof is `ReachedIsOld`: no write touches a record that a
  header counts, so success, failure and power cut are one and the same step for what is counted,
  and only checkpoints and new slots change that. `Counts`: counted records are of the header's
  boot; `Keeps`: what was forgotten is counted by every header its slot may have; `Own` and
  `Working`: what the recorder knows of its slot at each place of a flush. For the numbers the mount
  must find the right superblock: while the slot has room it is the one in memory (`InCharge`), and
  a record in a slot that is not active lies below that superblock's next number (`Follows`), one
  in the active slot below its header's last (`Tops`). With `Later` this puts `durable_next`
  above every number that can be found. `Tops` is what a last number that goes back would break, and what could not be read at mount is what
  `durable_next` would then have to be above without, hence `spent.back` (number 17 of section 7). `LogImplementsLane` is the composition: every step of the
  log is one of the lane's or leaves the lane alone, so the lane's own theorem holds inside the log.
* **Ring 3.** Besides the three properties the invariant needs `Running` (which process the mode,
  `cur` and the table agree on), `Contexts` (where the state of a suspended process is: trap frame
  and CPU, the stubs on the way in, or table) and `Tails` (tail is head plus count modulo the ring). A
  record that an interrupt overwrites keeps its frame, FPU image and mailbox, which lie at or behind
  `saved_frame`, so no invariant about them is touched; what it no longer says truly is what `struck`
  and `lost` exempt.
* **Address configuration.** `Chosen` says that while DHCP asks for an address the options it holds are
  those of an offer of the chosen server (`FromOffer`), and `Leased` that a lease has merged the one
  acknowledgement still known into them and put the result in force (`AckLeases`, `PollBinds`). Nothing
  takes it apart again (`LeaseStays`): sending a message never binds, what is forgotten when DHCP ends is
  not what the lease rests on, and a navigation sets the same address and sink that a lease has set.
* **Lookups.** `Looking` follows a reply's age through every place an answer can come from: the
  network, the resolver's result, the cache. A cache entry that has not expired, by the clock that wraps,
  is one whose reply is no older than `MaxDelay` and the life that is used up (`SecondPasses` is the
  arithmetic). `Unleased` says that nothing is looked up before there is a lease. `MaxDelay <= AskTicks` is the hypothesis that
  number 16 of section 7 shows to be needed.
* **TCP.** Every sequence number is turned into its place in its stream (`Una`, `Nxt`, `Rcv`,
  `Waiting`). `TcpAssumption` and `ConnectionAssumption` keep both streams below half the circle, and
  there `Compare` shows that the code's signed comparisons order places; from then on the proof is
  about plain integers. `Sender` is the sending half: `1 <= Una <= Nxt`, the buffer is the bytes from
  `Una` to the last one written, `Nxt` is past the FIN exactly while `fin_sent`, and `Una <= Held`, the
  first number that the peer lacks. That the peer's acknowledgements are honest does not give the last
  by itself: it is `new_ack` that must not count the FIN as a byte and must ignore what lies above
  `snd_nxt`, which a retransmission may have moved down. It carries `KeptUntilReceived` and
  `OrderlyCloseIsComplete`, while `Link` (what is on the wire is the SYN, a byte under its own number
  or the wanted FIN) carries `SegmentsMatchStream` and gives meaning to `Held`. `Receives` is the other
  half: `Rcv` is the number of bytes got plus one, or two with the FIN; the slot holds bytes of the
  stream, and its FIN is the end of it; `ooo_fin_ready` only when nothing is missing. `EdgesFit`
  bounds the edge the peer was told, and that of each segment on its way out, by `Room`: each
  function of tcp.c leaves `Room` alone or makes it larger, `take_fin` by the FIN's own number. The
  two halves meet nowhere (`SendStep` and `RecvStep`: what one changes, the other does not read), so
  each function is proved for one of them. `SynDataAgain = FALSE` is needed by the receiving half
  alone, and number 10 of section 7 shows why.
* **NVMe, in step.** `Agree` says of each queue that the entries with the phase the driver looks for
  are exactly those from its head to the controller's next, and that the controller posts the next
  one right. It is inductive with what ties the rings to the bring-up: `Prepared` (while the I/O
  submission queue is not there and its ring is not fresh, no command is on its way that would
  create it), `Early` (it is not created before the bring-up asks for it), `Told` (what the driver's
  flags say) and `Served` (the controller holds commands only of queues it has). That no block moves while
  the driver is not ready needs no more than these: a controller that is still stopping holds at most
  what the bring-up asked for.
* **NVMe, a disk.** The refinement follows the one command the driver waits for under its
  identifier, through the submission ring (`Entries`), the controller and the completion ring: there
  is one of it (`IoOnce`), it asks for the call's block, and it is done exactly when the block has
  moved (`IoMine`), and then the bounce page holds what the disk does (`BounceIs`). `AdminMine` and
  `AdminDone` are the same for the commands of the bring-up, and `Up` is what a half-done bring-up
  may leave.

Left to TLC: liveness under fairness and everything with ENABLED, which the prover does not do.
Every invariant and action property of the runs that pass, and every refinement, is proved, some
under the hypothesis on a constant that the table gives.

## 6. Disagreements kept as runs

* `zlfs_mixed`: the flush of a directory header fails, the call reports failure, and a later write
  goes over blocks that the header on the disk names; a power cut then finds a file made of two writes
  (fs.c:876).
* `tcp_rewind`: after a retransmission timeout `snd_nxt` lies below what the peer has acknowledged,
  and that acknowledgement is ignored from then on (tcp.c:991 against tcp.c:572).

## 7. Other disagreements, found by the same models

Each was produced by TLC; what to change in a configuration, and the property to ask for, is in brackets.

1. `write_seq` is compared without regard to wrap-around (block.c:125), so after 2^32 writes a newer
   block is stored before an older one. [`MCBlockCache.cfg`: `Word = 4`, `MaxClock = 9`,
   `ImplementsWriteBack`]
2. A failed header flush leaves the generation that fs.c:428 calls "not published" dirty in the
   cache, to be stored by the next flush. [`MCZlfsVolume.cfg`: `Plans <- MCFlushPlans`,
   `FailedCallLeavesNoTrace`]
3. A slot that cannot be read counts as invalid, and the older generation is mounted (fs.c:383 against
   fs.c:341). [`MCZlfsVolume.cfg`: `MountFindsNewest`]
4. A format refused at its very first write calls an intact volume unformatted (fs.c:531 against
   fs.c:528). [`MCZlfsVolume.cfg`: `CacheN = 3`, `UnformattedIsBlank`]
5. A file of more blocks than the cache has pages is always refused, though a run was found for it
   (fs.c:893 against fs.c:720). [`MCZlfsVolume.cfg`: `CacheN = 3`, `NBlocks = 5`, `MaxRun = 4`,
   `WriteThatFitsIsTaken`]
6. An Accessed bit that the CPU sets during a roll back makes the comparison in page_table_txn.c:15
   fail, and the windows are broken for good, though :94 and user-process-abi.md:79 allow for such
   bits. [`MCProcessSpace.cfg`: `BrokenOnlyByRefusedFlush`]
7. Behind a zero window bytes wait with no timer armed: `on_ack` disarms it, `pump_send` does not
   arm it, and a window update that repeats `snd_una` does not reach `pump_send` (tcp.c:618, :950
   against :946). [`MCTcp.cfg`: `SomethingAsksAgain`]
8. A FIN that arrives in FIN_WAIT_1 while bytes are queued leads to CLOSING, where `pump_send` does
   nothing (tcp.c:338): the rest is never sent and CLOSING is never left, even if somebody always ticks.
   [`MCTcp.cfg`: `SPECIFICATION AlwaysTickedSpec`, `ClosingEnds`]
9. Both callers of `tcp_tick` stop when the fetch ends, `browser_tick` by its first line (browser.c:1440)
   and `web_gate` by leaving its loop (kernel.zl:8916), which is when the connection is closed: no close
   is retransmitted or given up (tcp.h:74, tcp.c:1002). [`MCTcp.cfg`: `ClosesEnd`]
10. A repeated SYN|ACK that carries data is taken one byte too far (tcp.c:693 against :10).
    [`MCTcp.cfg`: `SynDataAgain = TRUE`, `ReceivedIsPrefix`]
11. `task_sleep(0)` does not yield, so a task that naps for 0 ticks starves the others. No caller does.
    [`MCSched.cfg`: `Naps = {0, 1}`, `SleepersWake`]
12. When the header of a checkpoint cannot be written the slot's count has already advanced, so the
    retry writes the same records behind themselves, and a reader finds them twice (zllog.c:1183
    against :1146 and tests/host/zllog_e2e_test.py:188). [`MCZlLog.cfg`: `NamedOnce`]
13. A command given up after three seconds (nvme.c:278) and carried out later moves its block by the
    one bounce page, which by then is another command's: the wrong bytes are written, or a read
    returns another block. [`MCNvme.cfg`: `LateData = TRUE`, `ImplementsBlockDevice`]
14. The user closes the window of a process and another application opens one in the same
    window-manager slot: the process's own close, or its end, then closes that one (userwin.c:137).
    [`MCRing3.cfg`: `ClosesOnlyItsOwn`]
15. Navigating to a dotted address while DHCP asks gives the UDP sink to the resolver
    (browser.c:1270), so DHCP hears nothing until it asks again, against dhcp.c:3.
    [`MCNetConfig.cfg`: `AskerHears`]
16. A resolver that nobody polls any more stays ASKING; a reply that waited in the card's ring is
    taken hours later by a ping, and cached with its full life (dns.c:371 against dns.c:128 "A TTL
    is honoured"). [`MCNetConfig.cfg`: `MaxDelay = 5`, `AnswerIsCurrent`]
17. A checkpoint whose header failed is tried again with fewer records when the slot's end is near, and
    `slot_last_sequence` goes back (zllog.c:1180). If the power goes before the rotation publishes the
    superblock, the next boot goes on from that number and uses numbers again, against zllog.c:928
    "keep sequence numbers monotonic". [`MCZlLog.cfg`: `Capacity = 5`, a plan of two events, one
    failure and one power cut, `NumbersMonotonic`] The same happens when a mount cannot read the header
    of the slot left writing, and goes on from the superblock's number without saying so (:932)
    [`MCZlLog.cfg`: `NumbersMonotonic`], or cannot read the newer superblock and takes the older one
    (:795, :918), if the two are more than a slot apart because a publication failed between them
    [`MCZlLog.cfg`: `Slots = 3`, a plan of one event, two failures and one power cut,
    `NumbersMonotonic`]. Otherwise the slot that is started next is the newest, so its records are gone
    before their turn, and two boots have the same `session_boot_id` (:924).
18. `dir_sum` adds up the words of a directory (fs.c:279), so a directory of which one block is new and
    another old can have the sum that its old header names (fs.c:394). If then the newer slot
    cannot be read at mount, or its header was stored though its flush failed, the torn directory is
    mounted and two files may share a block, against fs.c:341 "Mount selects the newest fully valid
    generation". [`MCZlfsVolume.cfg`: `Plans` of one plan with faults `{"read"}` and 6 calls,
    `mounted => Disjoint(dir)`]
19. `user64_resume_asm` pops the registers with the stack on `saved_frame` and interrupts on
    (usermode.c:1713), so an interrupt there pushes its frame over `has_frame`, `started` and what lies
    before them in the process's record (:488-495). A process may then be started anew, with the FPU state
    it left, or be lost with its windows, against :1138 "Yielded register/iret state
    lives in the process object and is resumed under that process's CR3". The model keeps to `pid`, `state` and the two flags; `cr3`
    lies there as well. [`MCRing3.cfg`: `RecordsKept`]
20. A controller that did not stop within two seconds, when a bring-up was abandoned, reads as not
    enabled at the next one, which then writes the queue registers without waiting, against nvme.c:305
    "Take it down before touching the queue registers". [`MCNvme.cfg`: `TouchedWhenDown`]
21. An acknowledgement that leaves its server's name out is taken from anybody (dhcp.c:147), so address,
    mask, gateway and resolver of one lease may be of two servers. [`MCNetConfig.cfg`:
    `LeaseOfOneServer`]

The passing runs state what holds apart from these, and name the constant that excludes each
(`Plans` and `Promised`, `SynDataAgain`, `Naps`, `MaxClock`, `LateData`, `MaxDelay`); `AttemptsEnd`
excludes a peer that ever shut its window and what comes after a fetch, `BootsInOrder` numbers that one of
the three ways of number 17 took back, `EachResumesItsOwn` and `NoWindowOutlivesOwner` what an
overwritten record says of its own process, and `BoundMeansWired` does not say that an unsigned
acknowledgement is the chosen server's.

## 8. Not modelled

The map covers a few percent of the repository's lines, and more of it would not be modelling: most
of the rest is fonts and icons, register sequences of display, USB and radio hardware, pixels and
layout, parsers, ciphers, and a compiler, whose errors are wrong values in sequential code and not
wrong orders of steps. Section 1.1 gives the reason for each part. Inside the modelled parts:

* *Block cache.* Reads that fail. A block that is written again for each page served may keep the
  other dirty pages waiting as long as that goes on; no property is about it.
* *NVMe.* A block write that the controller completed is durable: the driver issues no NVMe Flush
  (nvme.c:471), so a drive with a volatile cache may break this. A controller that is enabled while it
  still stops and keeps its queues, and what identify reports beyond whether it is accepted. `settings.c` and `nv_write` of
  `kernel.zl` use the same bounce page themselves; direct calls from one thread, they do not run
  during a call of the driver.
* *zlfs.* Version 1 volumes, names as strings, the `probe_device` set-up and diagnostics.
* *Page allocator.* The refusal counters and the boot self-test.
* *Ring 3.* Files and their handles, the query for the last sender, the budget of sixteen turns,
  event queues, a prepare that fails (it is in `ProcessSpace`), and whether the window manager runs,
  which is left open. In `ProcessSpace` whether a process may run at all is left open.
* *Scheduler.* Stacks, registers, and sleeping before `sched_init`.
* *Log.* Counters, spans and the text pump, which only make records; a checkpoint triggered by a
  late frame; the parsing of the partition table, which is one refusal (a read that fails there is
  for good). Superblocks and slot headers differ only in their first 512 bytes, so a device that
  stores a sector at a time keeps them whole. A repeated refusal makes a record each time. What the
  model shows and no property is about: a superblock that cannot be published leaves the next slot
  chosen, so every retry starts another slot; a boot is counted as completed again when a rotation
  is retried.
* *TCP.* Checksums, ports, the length of the timeout, and so that a deadline which falls on tick 0
  reads as no deadline (tcp.c:319); the counters nobody reads. FIN_WAIT_2 has no timer (tcp.c:796),
  so nothing is claimed of a peer that never closes; nor has `http_poll` a limit on a peer that says
  nothing.
* *DHCP and DNS.* The shell's diagnostics (`dns_up`, `ip_up`, `dns_ask`), ARP and ICMP; a server
  makes one offer and gives one verdict, a resolver answers a query once; a message of an exchange
  that is over is forgotten; a cache entry is not left alone for half the range of the clock
  (dns.c:149). A server speaks only while DHCP would hear it. The time a lease lasts is left out: the
  code keeps it and renews no lease.
