-------------------------------- MODULE Zlfs --------------------------------
(***************************************************************************)
(* fs/fs.c, format version 2: a superblock, two directory slots written    *)
(* alternately, and files as contiguous runs that are never overwritten    *)
(* while they are published. Block I/O goes through the write-back cache   *)
(* (module WriteBack): fsdev_write queues a block, fsdev_sync drains the   *)
(* queue. Every fsdev_sync is a step of its own, so that the device can    *)
(* fail, and the power go, between any two blocks it stores.               *)
(***************************************************************************)
EXTENDS Naturals, Sequences, FiniteSets

CONSTANTS
    MaxFiles,   \* directory entries (FS_MAXFILES)
    NBlocks,    \* blocks in the data area (sb_data_blocks)
    MaxRun,     \* longest file the environment writes, in blocks
    Names,      \* file names, as the numbers they add to a directory sum
    Data,       \* file contents, one value per write
    CacheN,     \* pages of the block cache
    GenMod,     \* 2^32: dir_generation is a u32
    Plans       \* what the device may do ("data", "header", "read"), and the
                \* bound on the calls that change the volume, one plan per behaviour

ASSUME SizesAssumption ==
    /\ {MaxFiles, NBlocks, MaxRun, CacheN} \subseteq Nat \ {0}
    /\ GenMod \in Nat /\ GenMod % 2 = 0 /\ GenMod > 2
ASSUME NamesAssumption == Names \subseteq Nat \ {0} /\ Data \subseteq Nat \ {0}
ASSUME PlansAssumption == Plans \subseteq [faults : SUBSET {"data", "header", "read"}, calls : Nat]

VARIABLES
    disk, queue,   \* the disk behind its write-back cache (WriteBack)
    mounted,
    why,            \* fs_why_code
    dir,            \* dirbuf, the directory in memory
    active,         \* dir_active: the slot the directory was read from
    gen,            \* dir_generation
    op,             \* the call waiting in fsdev_sync
    calls,          \* mutating calls made (bounded by plan.calls)
    plan            \* the plan of this behaviour, never changed

vars == <<disk, queue, mounted, why, dir, active, gen, op, calls, plan>>

File == 1..MaxFiles
DataEnd == NBlocks + 1          \* first block after the data area

SB == <<"sb", 0, 0>>
Header(s) == <<"hdr", s, 0>>
DirBlock(s, i) == <<"dir", s, i>>
DataBlock(b) == <<"data", b, 0>>
Addr == {SB} \cup {Header(s) : s \in {0, 1}} \cup {DirBlock(s, i) : s \in {0, 1}, i \in File}
        \cup {DataBlock(b) : b \in 1..NBlocks}

Cache == INSTANCE WriteBack WITH media <- disk, Val <- {}

\* A directory entry; name 0 is an entry without FE_USED (all zero). One entry
\* per directory block: the finest way a directory can be torn.
NoEntry == [name |-> 0, start |-> 0, len |-> 0, blocks |-> 0]
NoDir == [i \in File |-> NoEntry]
Used(d) == {i \in File : d[i].name # 0}

\* dir_sum: the words of the directory added up. It does not see an exchange
\* of equal amounts between entries.
dir_sum(d) ==
    LET sum[i \in 0..MaxFiles] ==
            IF i = 0 THEN 0
            ELSE sum[i - 1] + d[i].name + d[i].start + d[i].len + d[i].blocks
    IN  sum[MaxFiles]

generation_newer(a, b) == a # b /\ (a + GenMod - b) % GenMod < GenMod \div 2
NextGen == (gen + 1) % GenMod

\* Lengths are counted in blocks; an empty file owns one.
blocks_for(len) == IF len = 0 THEN 1 ELSE len
-----------------------------------------------------------------------------
\* Mutant of alloc_run: a bump allocator, which never reuses a deleted run.
BumpRun(d, need) ==
    LET ends == {1} \cup {d[i].start + d[i].blocks : i \in Used(d)}
        top == CHOOSE e \in ends : \A f \in ends : f <= e
    IN  IF top + need <= DataEnd THEN top ELSE 0

\* alloc_run: first fit over the gaps between runs, 0 when there is none.
alloc_run(d, need) ==
    LET Ahead(c) == {i \in Used(d) : d[i].start >= c}
        Nearest(c) == CHOOSE i \in Ahead(c) : \A j \in Ahead(c) :
            \/ d[i].start < d[j].start
            \/ d[i].start = d[j].start /\ i <= j
        NextStart(c) == IF Ahead(c) = {} THEN DataEnd ELSE d[Nearest(c)].start
        NextEnd(c) == d[Nearest(c)].start + d[Nearest(c)].blocks
        fit[c \in 1..DataEnd] ==
            IF NextStart(c) - c >= need THEN c
            ELSE IF Ahead(c) = {} \/ NextEnd(c) >= DataEnd THEN 0
            ELSE fit[NextEnd(c)]
    IN  fit[1]

\* The first directory entry not in use, as a set of at most one.
FirstFree(d) == {i \in File \ Used(d) : \A j \in File \ Used(d) : i <= j}
-----------------------------------------------------------------------------
\* fsdev_write of blocks ws in turn, stopping at the first one refused.
WriteBlocks(q, ws) ==
    LET After(n) == Cache!Enqueue(q, SubSeq(ws, 1, n))
        taken == CHOOSE n \in 0..Len(ws) :
            /\ \A k \in 1..n : Cache!Accepts(After(k - 1), ws[k].addr)
            /\ n < Len(ws) => ~Cache!Accepts(After(n), ws[n + 1].addr)
    IN  [queue |-> After(taken), all |-> taken = Len(ws)]

DirWrites(s, d) == [i \in File |-> [addr |-> DirBlock(s, i), val |-> d[i]]]
HeaderWrite(s, g, d) ==
    <<[addr |-> Header(s), val |-> [magic |-> TRUE, gen |-> g, sum |-> dir_sum(d)]]>>
SbWrite(v) == <<[addr |-> SB, val |-> v]>>

NoOp == [at |-> "idle", kind |-> "none", slot |-> 0, gen |-> 0, dir |-> NoDir]
Idle == op.at = "idle"

\* A mutating call may be made, and is counted.
Call == Idle /\ calls < plan.calls /\ calls' = calls + 1

\* dir_write_slot up to its first fsdev_sync; a refused block ends the call.
DirWriteSlot(q, kind, s, g, d) ==
    LET w == WriteBlocks(q, DirWrites(s, d)) IN
    /\ queue' = w.queue
    /\ op' = IF w.all
             THEN [at |-> "dir", kind |-> kind, slot |-> s, gen |-> g, dir |-> d]
             ELSE NoOp

\* dir_commit: publish directory d through the slot that is not active.
DirCommit(q, d) == DirWriteSlot(q, "edit", 1 - active, NextGen, d)
-----------------------------------------------------------------------------
fs_mkfs ==
    /\ Call
    /\ mounted' = FALSE /\ why' = "unformatted"
    /\ dir' = NoDir /\ active' = 0 /\ gen' = 1
    /\ LET w == WriteBlocks(queue, SbWrite(0)) IN
       IF w.all THEN DirWriteSlot(w.queue, "format1", 1, 0, NoDir)
       ELSE UNCHANGED <<queue, op>>
    /\ UNCHANGED disk

fs_create(n, len) ==
    /\ Call /\ mounted
    /\ \A i \in Used(dir) : dir[i].name # n
    /\ LET start == alloc_run(dir, blocks_for(len)) IN
       /\ start # 0
       /\ \E i \in FirstFree(dir) :
            DirCommit(queue, [dir EXCEPT ![i] =
                [name |-> n, start |-> start, len |-> 0, blocks |-> blocks_for(len)]])
    /\ UNCHANGED <<disk, mounted, why, dir, active, gen>>

\* Mutant of WriteBase: an in-place overwrite whenever the file fits its run.
InPlaceIfItFits(i, need) ==
    IF need <= dir[i].blocks THEN dir[i].start ELSE alloc_run(dir, need)

\* Mutant of WriteBase: the run of a file never written, however small.
OwnRunIfUnwritten(i, need) ==
    IF dir[i].len = 0 THEN dir[i].start ELSE alloc_run(dir, need)

\* Where fs_write puts the data: 0 when no run is free.
WriteBase(i, need) ==
    IF dir[i].len = 0 /\ need <= dir[i].blocks
    THEN dir[i].start ELSE alloc_run(dir, need)

\* Into its own run if the file was never written and fits it, into a free
\* run otherwise; the entry is published once the data has been flushed.
fs_write(i, len, v) ==
    /\ Call /\ mounted /\ i \in Used(dir)
    /\ LET need == blocks_for(len)
           base == WriteBase(i, need)
           w == WriteBlocks(queue, [k \in 1..need |->
                    [addr |-> DataBlock(base + k - 1), val |-> IF k <= len THEN v ELSE 0]])
           d == [dir EXCEPT ![i] =
                    [name |-> dir[i].name, start |-> base, len |-> len, blocks |-> need]]
       IN
       /\ base # 0
       /\ queue' = w.queue
       /\ op' = IF w.all
                THEN [at |-> "data", kind |-> "edit", slot |-> 0, gen |-> 0, dir |-> d]
                ELSE NoOp
    /\ UNCHANGED <<disk, mounted, why, dir, active, gen>>

fs_delete(i) ==
    /\ Call /\ mounted /\ i \in Used(dir)
    /\ DirCommit(queue, [dir EXCEPT ![i] = NoEntry])
    /\ UNCHANGED <<disk, mounted, why, dir, active, gen>>

fs_rename(i, n) ==
    /\ Call /\ mounted /\ i \in Used(dir)
    /\ \A j \in Used(dir) \ {i} : dir[j].name # n
    /\ DirCommit(queue, [dir EXCEPT ![i].name = n])
    /\ UNCHANGED <<disk, mounted, why, dir, active, gen>>

fs_sync ==
    /\ Idle
    /\ op' = [NoOp EXCEPT !.at = "sync"]
    /\ UNCHANGED <<disk, queue, mounted, why, dir, active, gen, calls>>
-----------------------------------------------------------------------------
\* fsdev_sync answers 1: everything queued is stored.
Flushed == disk' = Cache!View(disk, queue)

DataFlushed ==
    /\ op.at = "data" /\ Flushed
    /\ DirCommit(<<>>, op.dir)
    /\ UNCHANGED <<mounted, why, dir, active, gen, calls>>

DirFlushed ==
    /\ op.at = "dir" /\ Flushed
    /\ queue' = HeaderWrite(op.slot, op.gen, op.dir)
    /\ op' = [op EXCEPT !.at = "header"]
    /\ UNCHANGED <<mounted, why, dir, active, gen, calls>>

\* The last step of dir_commit: the new generation becomes the active one.
CommitFlushed ==
    /\ op.at = "header" /\ op.kind = "edit" /\ Flushed
    /\ queue' = <<>> /\ op' = NoOp
    /\ dir' = op.dir /\ active' = op.slot /\ gen' = op.gen
    /\ UNCHANGED <<mounted, why, calls>>

\* fs_mkfs between its two dir_write_slot calls, and after them.
FormatFlushed ==
    /\ op.at = "header" /\ op.kind # "edit" /\ Flushed
    /\ IF op.kind = "format1"
       THEN /\ DirWriteSlot(<<>>, "format0", 0, 1, NoDir)
            /\ UNCHANGED <<mounted, why>>
       ELSE /\ queue' = SbWrite(1) /\ op' = NoOp
            /\ mounted' = TRUE /\ why' = "ok"
    /\ UNCHANGED <<dir, active, gen, calls>>

SyncFlushed ==
    /\ op.at = "sync" /\ Flushed
    /\ queue' = <<>> /\ op' = NoOp
    /\ UNCHANGED <<mounted, why, dir, active, gen, calls>>

\* fsdev_sync answers 0 after k blocks: block k + 1 stays queued, stored or
\* not. The call gives up; the directory in memory is as it was before it.
FlushFails ==
    /\ op.at # "idle"
    /\ (IF op.at = "header" THEN "header" ELSE "data") \in plan.faults
    /\ \E k \in 0..Len(queue) - 1 :
        /\ disk' \in {Cache!Drained(disk, queue, k), Cache!Drained(disk, queue, k + 1)}
        /\ queue' = Cache!DropFirst(queue, k)
    /\ op' = NoOp
    /\ UNCHANGED <<mounted, why, dir, active, gen, calls>>
-----------------------------------------------------------------------------
\* dir_read_slot on the blocks m.
SlotDir(m, s) == [i \in File |-> m[DirBlock(s, i)]]
SlotValid(m, s) ==
    m[Header(s)].magic /\ m[Header(s)].sum = dir_sum(SlotDir(m, s))

\* dir_load: the slot chosen among those that can be read, as a set.
Chosen(m, readable) ==
    LET valid == {s \in readable : SlotValid(m, s)} IN
    {s \in valid : \A t \in valid \ {s} :
        IF s = 1 THEN generation_newer(m[Header(1)].gen, m[Header(0)].gen)
        ELSE ~generation_newer(m[Header(1)].gen, m[Header(0)].gen)}

InRange(d) == \A i \in Used(d) :
    d[i].blocks > 0 /\ d[i].start >= 1 /\ d[i].start + d[i].blocks <= DataEnd
    /\ d[i].len <= d[i].blocks

\* A block read is refused when every page is dirty and none holds it; the
\* device may fail any read that it has to answer.
Unreadable(as) ==
    /\ \E a \in as : a \notin Cache!Queued(queue)
    /\ Len(queue) = CacheN \/ "read" \in plan.faults
MustBeUnreadable(as) ==
    Len(queue) = CacheN /\ \E a \in as : a \notin Cache!Queued(queue)
SlotBlocks(s) == {Header(s)} \cup {DirBlock(s, i) : i \in File}

fs_mount ==
    /\ Idle
    /\ \E lost \in SUBSET {{SB}, SlotBlocks(0), SlotBlocks(1)} :
        /\ \A as \in lost : Unreadable(as)
        /\ \A as \in {{SB}, SlotBlocks(0), SlotBlocks(1)} \ lost : ~MustBeUnreadable(as)
        /\ LET m == Cache!View(disk, queue)
               chosen == Chosen(m, {s \in {0, 1} : SlotBlocks(s) \notin lost})
           IN
           /\ why' = IF {SB} \in lost THEN "unreadable"
                     ELSE IF m[SB] = 0 THEN "unformatted"
                     ELSE IF chosen = {} THEN "dirload"
                     ELSE IF \A s \in chosen : ~InRange(SlotDir(m, s)) THEN "direntry"
                     ELSE "ok"
           /\ mounted' = (why' = "ok")
           /\ IF mounted'
              THEN \E s \in chosen :
                   dir' = SlotDir(m, s) /\ active' = s /\ gen' = m[Header(s)].gen
              ELSE dir' = NoDir /\ active' = 0 /\ gen' = 0
    /\ UNCHANGED <<disk, queue, op, calls>>

\* Power is lost, in the middle of a flush if one is under way.
PowerCut ==
    /\ disk' \in {Cache!Drained(disk, queue, k) : k \in 0..(IF Idle THEN 0 ELSE Len(queue))}
    /\ queue' = <<>> /\ op' = NoOp
    /\ mounted' = FALSE /\ why' = "ok"
    /\ dir' = NoDir /\ active' = 0 /\ gen' = 0
    /\ UNCHANGED calls
-----------------------------------------------------------------------------
\* A disk that has never been formatted.
Init ==
    /\ disk = [a \in Addr |->
                CASE a[1] = "hdr" -> [magic |-> FALSE, gen |-> 0, sum |-> 0]
                  [] a[1] = "dir" -> NoEntry
                  [] OTHER -> 0]
    /\ queue = <<>>
    /\ mounted = FALSE /\ why = "ok"
    /\ dir = NoDir /\ active = 0 /\ gen = 0
    /\ op = NoOp
    /\ calls = 0
    /\ plan \in Plans

Step ==
    \/ fs_mkfs \/ fs_mount \/ fs_sync
    \/ \E n \in Names, len \in 0..MaxRun : fs_create(n, len)
    \/ \E i \in File, len \in 0..MaxRun, v \in Data : fs_write(i, len, v)
    \/ \E i \in File : fs_delete(i) \/ \E n \in Names : fs_rename(i, n)
    \/ DataFlushed \/ DirFlushed \/ CommitFlushed \/ FormatFlushed \/ SyncFlushed
    \/ FlushFails
    \/ PowerCut
Next == Step /\ UNCHANGED plan

Spec == Init /\ [][Next]_vars
-----------------------------------------------------------------------------
Entry == [name : Names \cup {0}, start : 0..NBlocks, len : 0..MaxRun, blocks : 0..MaxRun]

TypeOK ==
    /\ DOMAIN disk = Addr
    /\ Cache!Queued(queue) \subseteq Addr /\ Len(queue) <= CacheN
    /\ mounted \in BOOLEAN
    /\ why \in {"ok", "unreadable", "unformatted", "dirload", "direntry"}
    /\ dir \in [File -> Entry]
    /\ active \in {0, 1} /\ gen \in 0..GenMod - 1
    /\ op.at \in {"idle", "data", "dir", "header", "sync"}
    /\ calls \in 0..plan.calls
    /\ op.kind \in {"none", "edit", "format1", "format0"}

Run(d, i) == d[i].start..(d[i].start + d[i].blocks - 1)

Disjoint(d) == InRange(d) /\ \A i, j \in Used(d) : i # j => Run(d, i) \cap Run(d, j) = {}

\* The device stores every header it is given, and every block can be read.
Promised == plan.faults \subseteq {"data"}

(***************************************************************************)
(* No two files share a block, in the mounted directory and in the one an  *)
(* operation is about to publish: alloc_run looks at the entries in memory *)
(* only, whatever failed operations have left on the disk. A device that   *)
(* fails header flushes or reads at mount can make a torn directory the    *)
(* newest one, and dir_sum may not tell: then no operation makes it worse. *)
(***************************************************************************)
RunsDisjoint == mounted =>
    /\ Promised => Disjoint(dir)
    /\ Disjoint(dir) => Disjoint(op.dir)

(***************************************************************************)
(* alloc_run's walk from gap to gap (fs.c:723) against its purpose: the    *)
(* lowest place where the run fits, and 0 only when it fits nowhere.       *)
(***************************************************************************)
Fits(d, need) == {s \in 1..NBlocks : s + need <= DataEnd
    /\ \A i \in Used(d) : Run(d, i) \cap (s..s + need - 1) = {}}
FirstFit(d, need, s) ==
    IF Fits(d, need) = {} THEN s = 0
    ELSE s \in Fits(d, need) /\ \A t \in Fits(d, need) : s <= t
AllocIsFirstFit == mounted /\ Disjoint(dir) =>
    \A need \in 1..NBlocks : FirstFit(dir, need, alloc_run(dir, need))

\* The files directory d names, with the contents m holds for them.
Files(m, d) == [i \in File |->
    [name |-> d[i].name,
     data |-> [k \in 1..d[i].len |-> m[DataBlock(d[i].start + k - 1)]]]]
Outcome(s, f) == [state |-> s, files |-> f]
NoFile == [name |-> 0, data |-> <<>>]
NoFiles == [i \in File |-> NoFile]

\* What a mount of the blocks m, all of them readable, finds.
Recovered(m) ==
    LET chosen == Chosen(m, {0, 1}) IN
    IF m[SB] = 0 THEN Outcome("unformatted", NoFiles)
    ELSE IF \E s \in chosen : InRange(SlotDir(m, s))
    THEN LET d == SlotDir(m, CHOOSE s \in chosen : TRUE)
         IN  Outcome("ok", Files(m, d))
    ELSE Outcome("refused", NoFiles)

\* The disks a power cut could leave, and what is found on them.
CrashDisks(m, q) == {Cache!Drained(m, q, k) : k \in 0..Len(q)}
CrashOutcomes(m, q) == {Recovered(d) : d \in CrashDisks(m, q)}

(***************************************************************************)
(* fs.c:528: "the honest answer to 'why is nothing mounted' is that the    *)
(* volume is blank. If it fails partway that is still true, and it is the  *)
(* one cause for which offering a format again is correct."                *)
(***************************************************************************)
UnformattedIsBlank == ~mounted /\ why = "unformatted" => Cache!View(disk, queue)[SB] = 0

(***************************************************************************)
(* fs.c:720 names the limit on a file: "a file cannot grow past half the   *)
(* free space, which is a stated limit". So a write for which alloc_run    *)
(* found a run, on a device without faults, gets as far as its flush.      *)
(***************************************************************************)
WriteThatFitsIsTaken ==
    [][\A i \in File, len \in 0..MaxRun, v \in Data :
        fs_write(i, len, v) => op'.at = "data"]_vars
=============================================================================
