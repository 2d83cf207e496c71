---------------------------- MODULE ProcessSpace ----------------------------
(***************************************************************************)
(* The memory of ring-3 processes: process_memory.c (the frames of an      *)
(* image), anon_memory.c (the window of pages a process reserves, commits  *)
(* and releases), page_table_txn.c (the transaction both go through) and   *)
(* the address-space half of usermode.c. A call is run one frame, one      *)
(* page-table write or one flush at a time, because the MMU reads the same *)
(* tables at any moment: it caches translations and sets Accessed bits.    *)
(***************************************************************************)
EXTENDS Naturals, Sequences, FiniteSets

CONSTANTS
    Proc,       \* process slots (U64_PROCS)
    NWindows,   \* pages of the anonymous window (ANON_MEMORY_PAGE_COUNT)
    NImage,     \* frames of an image (PROCESS_MEMORY_PAGE_COUNT)
    NPages,     \* frames the allocator manages
    ImageOwner, \* PROCESS_MEMORY_OWNER_BASE + index, of each slot
    AnonOwner,  \* ANON_MEMORY_OWNER_BASE + index
    Faults      \* what may go wrong in a transaction: "flush", "inject"

ASSUME SpaceAssumption ==
    /\ NWindows \in Nat \ {0} /\ NImage \in Nat \ {0} /\ NPages \in Nat \ {0}
    /\ Faults \subseteq {"flush", "inject"} /\ "kernel" \notin Proc
    /\ DOMAIN ImageOwner = Proc /\ DOMAIN AnonOwner = Proc
    /\ \A p, q \in Proc : ImageOwner[p] # AnonOwner[q]
    /\ \A p, q \in Proc : p # q => /\ ImageOwner[p] # ImageOwner[q]
                                    /\ AnonOwner[p] # AnonOwner[q]
    /\ \A p \in Proc : {ImageOwner[p], AnonOwner[p]} \cap {"free", "reserved"} = {}

VARIABLES
    pmm,        \* the page allocator
    space,      \* per process: image frames, window bookkeeping, page-table entries
    cr3,        \* whose page tables the CPU uses
    tlb,        \* the window translations it has cached
    op          \* the call in progress

vars == <<pmm, space, cr3, tlb, op>>

Window == 1..NWindows
Owner == {ImageOwner[p] : p \in Proc} \cup {AnonOwner[p] : p \in Proc}
Unlimited == NPages + 2 * NImage + NWindows

Frames == INSTANCE Pmm WITH Limits <- {}, Unmapped <- {}, PageBytes <- 1,
                            Ranges <- {}, map <- <<>>, soiled <- {}

Absent == [frame |-> 0, accessed |-> FALSE]
Present(f) == [frame |-> f, accessed |-> FALSE]

Empty == [mem |-> <<>>,
          states |-> [w \in Window |-> "free"], pages |-> [w \in Window |-> 0],
          entries |-> [w \in Window |-> Absent],
          reserved |-> 0, committed |-> 0, broken |-> 0]

Idle == [call |-> "none", proc |-> "kernel", pc |-> "idle", first |-> 1, count |-> 0,
         got |-> <<>>, changes |-> <<>>, applied |-> 0]

Run(first, count) == first..first + count - 1
InState(s, st) == {w \in Window : s.states[w] = st}
-----------------------------------------------------------------------------
process_memory_check(p) ==
    LET mem == space[p].mem IN
    /\ Len(mem) = NImage
    /\ \A i \in 1..NImage : /\ pmm.owners[mem[i]] = ImageOwner[p]
                            /\ \A j \in 1..i - 1 : mem[i] # mem[j]

shape_check(p, free_entries) ==
    LET s == space[p]
        held == InState(s, "committed") \cup InState(s, "broken")
    IN  /\ \A w \in InState(s, "free") : s.pages[w] = 0 /\ (free_entries => s.entries[w] = Absent)
        /\ \A w \in InState(s, "reserved") : s.pages[w] = 0 /\ s.entries[w] = Absent
        /\ \A w \in held : /\ s.pages[w] # 0 /\ pmm.owners[s.pages[w]] = AnonOwner[p]
                           /\ \A v \in held \ {w} : s.pages[v] # s.pages[w]
        /\ \A w \in InState(s, "committed") : s.entries[w].frame = s.pages[w]
        /\ s.reserved = Cardinality(Window \ InState(s, "free"))
        /\ s.committed = Cardinality(InState(s, "committed"))
        /\ s.broken = Cardinality(InState(s, "broken"))
-----------------------------------------------------------------------------
(* Calls. A process makes the anon_memory ones under its own page tables;   *)
(* images are built and torn down under the kernel's.                       *)

Start(call, p, first, count, pc) ==
    [Idle EXCEPT !.call = call, !.proc = p, !.first = first, !.count = count, !.pc = pc]

Syscall(p) == cr3 = p /\ op = Idle /\ shape_check(p, FALSE)

anon_memory_reserve(p, first, count) ==
    /\ Syscall(p)
    /\ \A w \in Run(first, count) :
        space[p].states[w] = "free" /\ space[p].entries[w] = Absent
    /\ space' = [space EXCEPT
        ![p].states = [w \in Window |-> IF w \in Run(first, count) THEN "reserved" ELSE @[w]],
        ![p].reserved = @ + count]
    /\ UNCHANGED <<pmm, cr3, tlb, op>>

anon_memory_commit(p, first, count) ==
    /\ Syscall(p)
    /\ \A w \in Run(first, count) :
        space[p].states[w] = "reserved" /\ space[p].entries[w] = Absent
    /\ op' = Start("commit", p, first, count, "alloc")
    /\ UNCHANGED <<pmm, space, cr3, tlb>>

\* The transaction that unmaps the committed windows of a run; without one it
\* goes straight to the bookkeeping.
Unmapping(o, first, count) ==
    LET s == space[o.proc]
        mapped == {w \in Run(first, count) : s.states[w] = "committed"}
        Nth(k) == CHOOSE w \in mapped : Cardinality({v \in mapped : v <= w}) = k
    IN  [o EXCEPT
            !.first = first, !.count = count, !.applied = 0,
            !.pc = IF mapped = {} THEN "free" ELSE "stale",
            !.changes = [k \in 1..Cardinality(mapped) |->
                [window |-> Nth(k), before |-> s.entries[Nth(k)], after |-> Absent]]]

anon_memory_release(p, first, count) ==
    /\ Syscall(p)
    /\ \A w \in Run(first, count) : space[p].states[w] \in {"reserved", "committed"}
    /\ op' = Unmapping(Start("release", p, first, count, "free"), first, count)
    /\ UNCHANGED <<pmm, space, cr3, tlb>>

\* Twice an image, since the successor is acquired before its predecessor goes.
ImageLimit == 2 * NImage

process64_prepare(p) ==
    /\ cr3 = "kernel" /\ op = Idle
    /\ pmm.owner_used[ImageOwner[p]] <= ImageLimit
    /\ pmm.owner_used[AnonOwner[p]] <= NWindows
    /\ pmm' = [pmm EXCEPT !.owner_limits[ImageOwner[p]] = ImageLimit,
                          !.owner_limits[AnonOwner[p]] = NWindows]
    /\ op' = Start("prepare", p, 1, NImage, "alloc")
    /\ UNCHANGED <<space, cr3, tlb>>

process64_release_slot(p) ==
    /\ cr3 = "kernel" /\ op = Idle /\ process_memory_check(p)
    /\ op' = Start("exit", p, 1, 0, "scan")
    /\ UNCHANGED <<pmm, space, cr3, tlb>>
-----------------------------------------------------------------------------
(* The allocation loops of process_memory_acquire and anon_memory_commit.  *)

Payer == (IF op.call = "prepare" THEN ImageOwner ELSE AnonOwner)[op.proc]

\* Mutant of Mapping: the run always starts at the first window.
MappingFromFirst(got) ==
    [k \in 1..op.count |->
        [window |-> k, before |-> space[op.proc].entries[k], after |-> Present(got[k])]]

\* vmm_pt_txn_reserve over the run, once its frames are there.
Mapping(got) ==
    [k \in 1..op.count |->
        [window |-> op.first + k - 1,
         before |-> space[op.proc].entries[op.first + k - 1], after |-> Present(got[k])]]

TakeFrame ==
    LET frame == Frames!AllocPage(pmm, Payer)
        got == Append(op.got, frame)
    IN  /\ op.pc = "alloc" /\ frame # 0
        /\ pmm' = Frames!AfterAlloc(pmm, Payer)
        /\ op' = IF Len(got) < op.count THEN [op EXCEPT !.got = got]
                 ELSE IF op.call = "commit"
                 THEN [op EXCEPT !.got = got, !.changes = Mapping(got), !.pc = "stale"]
                 ELSE [op EXCEPT !.got = got,
                        !.pc = IF space[op.proc].mem = <<>> THEN "publish" ELSE "scan"]
        /\ UNCHANGED <<space, cr3, tlb>>

OutOfFrames ==
    /\ op.pc = "alloc" /\ Frames!AllocPage(pmm, Payer) = 0
    /\ op' = [op EXCEPT !.pc = "undo"]
    /\ UNCHANGED <<pmm, space, cr3, tlb>>

\* release_pages and the roll back of process_memory_acquire, last frame first.
Undo ==
    /\ op.pc = "undo"
    /\ IF op.got = <<>>
       THEN op' = Idle /\ UNCHANGED pmm
       ELSE /\ pmm' = Frames!AfterRelease(pmm, op.got[Len(op.got)], Payer)
            /\ op' = [op EXCEPT !.got = SubSeq(@, 1, Len(@) - 1)]
    /\ UNCHANGED <<space, cr3, tlb>>
-----------------------------------------------------------------------------
(* vmm_pt_txn_apply and restore_applied.                                    *)

\* Mutant of Failed: what the call took stays taken.
FailedKeepsFrames == Idle

\* A failed call keeps nothing it took; a release or an exit took nothing.
Failed == IF op.call \in {"commit", "prepare"} THEN [op EXCEPT !.pc = "undo"] ELSE Idle

Entry(c) == space[op.proc].entries[c.window]

CheckStale ==
    /\ op.pc = "stale"
    /\ op' = IF \A k \in DOMAIN op.changes : Entry(op.changes[k]) = op.changes[k].before
             THEN [op EXCEPT !.pc = "write"] ELSE Failed
    /\ UNCHANGED <<pmm, space, cr3, tlb>>

\* The verify that follows ignores what the MMU sets, so it cannot fail.
WriteEntry ==
    LET c == op.changes[op.applied + 1]
        last == op.applied + 1 = Len(op.changes)
    IN  /\ op.pc = "write"
        /\ space' = [space EXCEPT ![op.proc].entries[c.window] = c.after]
        /\ \E pc \in {IF last THEN "flush" ELSE "write"} \cup
                     (IF "inject" \in Faults THEN {"restore"} ELSE {}) :
               op' = [op EXCEPT !.applied = @ + 1, !.pc = pc]
        /\ UNCHANGED <<pmm, cr3, tlb>>

\* An inactive process is flushed by its next CR3 load.
process64_flush_anonymous == IF cr3 = op.proc THEN {} ELSE tlb

\* The frames of a commit in their windows.
Recorded(s, state) ==
    [s EXCEPT
        !.pages = [w \in Window |-> IF w \in Run(op.first, op.count)
                                    THEN op.got[w - op.first + 1] ELSE @[w]],
        !.states = [w \in Window |-> IF w \in Run(op.first, op.count) THEN state ELSE @[w]]]

\* Mutant of Settled: the windows are committed, and not counted.
SettledUncounted(s) == Recorded(s, "committed")

Settled(s) == [Recorded(s, "committed") EXCEPT !.committed = @ + op.count]

Flushed ==
    /\ op.pc = "flush"
    /\ tlb' = process64_flush_anonymous
    /\ IF op.call = "commit"
       THEN op' = Idle /\ space' = [space EXCEPT ![op.proc] = Settled(@)]
       ELSE op' = [op EXCEPT !.pc = "free"] /\ UNCHANGED space
    /\ UNCHANGED <<pmm, cr3>>

FlushRefused ==
    /\ op.pc = "flush" /\ "flush" \in Faults
    /\ op' = [op EXCEPT !.pc = "restore"]
    /\ UNCHANGED <<pmm, space, cr3, tlb>>

Restore ==
    LET undone(w) == {k \in 1..op.applied : op.changes[k].window = w} IN
    /\ op.pc = "restore"
    /\ space' = [space EXCEPT ![op.proc].entries = [w \in Window |->
            IF undone(w) = {} THEN @[w] ELSE op.changes[CHOOSE k \in undone(w) : TRUE].before]]
    /\ op' = [op EXCEPT !.pc = "reflush"]
    /\ UNCHANGED <<pmm, cr3, tlb>>

Reflushed ==
    /\ op.pc = "reflush"
    /\ tlb' = process64_flush_anonymous
    /\ op' = [op EXCEPT !.pc = "compare"]
    /\ UNCHANGED <<pmm, space, cr3>>

\* Where nobody can say what is mapped, the frames are held back.
Broken(s) ==
    LET hit == Run(op.first, op.count) \cap InState(s, "committed") IN
    IF op.call = "commit" THEN [Recorded(s, "broken") EXCEPT !.broken = @ + op.count]
    ELSE [s EXCEPT
            !.states = [w \in Window |-> IF w \in hit THEN "broken" ELSE @[w]],
            !.committed = @ - Cardinality(hit), !.broken = @ + Cardinality(hit)]

\* Mutant of RollbackFails: treated as any other failure.
RollbackReclaims == op' = Failed /\ UNCHANGED <<pmm, space, cr3, tlb>>

RollbackFails ==
    /\ space' = [space EXCEPT ![op.proc] = Broken(@)]
    /\ op' = IF op.call = "prepare" THEN Failed ELSE Idle
    /\ UNCHANGED <<pmm, cr3, tlb>>

ReflushRefused == op.pc = "reflush" /\ "flush" \in Faults /\ RollbackFails

RestoredExactly ==
    \A k \in 1..op.applied : Entry(op.changes[k]) = op.changes[k].before

CompareRestored ==
    /\ op.pc = "compare"
    /\ \/ RestoredExactly /\ op' = Failed /\ UNCHANGED <<pmm, space, cr3, tlb>>
       \/ ~RestoredExactly /\ RollbackFails
-----------------------------------------------------------------------------

Forgotten(s, w) ==
    [s EXCEPT !.pages[w] = 0, !.states[w] = "free", !.reserved = @ - 1,
              !.committed = IF s.states[w] = "committed" THEN @ - 1 ELSE @]

\* The last loop of anon_memory_release, one window at a time.
FreeWindow ==
    LET s == space[op.proc]
        w == op.first
    IN  /\ op.pc = "free" /\ op.count > 0
        /\ pmm' = IF s.states[w] # "committed" THEN pmm
                  ELSE Frames!AfterRelease(pmm, s.pages[w], AnonOwner[op.proc])
        /\ space' = [space EXCEPT ![op.proc] = Forgotten(@, w)]
        /\ op' = [op EXCEPT !.first = @ + 1, !.count = @ - 1]
        /\ UNCHANGED <<cr3, tlb>>

Released ==
    /\ op.pc = "free" /\ op.count = 0
    /\ op' = IF op.call = "release" THEN Idle ELSE [op EXCEPT !.pc = "scan"]
    /\ UNCHANGED <<pmm, space, cr3, tlb>>

\* Mutant of Destroyable: broken windows do not stop it.
DestroyableAnyway(p) == shape_check(p, TRUE)

Destroyable(p) == shape_check(p, TRUE) /\ space[p].broken = 0

\* anon_memory_destroy: run after run until every window is free.
Scan ==
    LET s == space[op.proc]
        busy == Window \ InState(s, "free")
        first == CHOOSE w \in busy : \A v \in busy : w <= v
        count == CHOOSE n \in 1..NWindows : /\ Run(first, n) \subseteq busy
                                            /\ first + n \notin busy
    IN  /\ op.pc = "scan"
        /\ op' = IF ~Destroyable(op.proc) THEN Failed
                 ELSE IF busy = {} THEN [op EXCEPT !.pc = "unimage"]
                 ELSE Unmapping(op, first, count)
        /\ UNCHANGED <<pmm, space, cr3, tlb>>

\* process_memory_release.
FreeImage ==
    LET mem == space[op.proc].mem IN
    /\ op.pc = "unimage"
    /\ pmm' = Frames!AfterRelease(pmm, mem[Len(mem)], ImageOwner[op.proc])
    /\ space' = [space EXCEPT ![op.proc].mem = SubSeq(@, 1, Len(@) - 1)]
    /\ op' = IF Len(mem) > 1 THEN op
             ELSE IF op.call = "exit" THEN Idle ELSE [op EXCEPT !.pc = "publish"]
    /\ UNCHANGED <<cr3, tlb>>

\* The end of process64_prepare: the new page table is blank.
Publish ==
    /\ op.pc = "publish"
    /\ space' = [space EXCEPT ![op.proc] = [Empty EXCEPT !.mem = op.got]]
    /\ op' = Idle
    /\ UNCHANGED <<pmm, cr3, tlb>>
-----------------------------------------------------------------------------
(* user64_enter_asm, user64_resume_asm and user64_abort load CR3; whether  *)
(* the process may still run (its state) is left out.                      *)

LoadCr3(from, to) ==
    /\ cr3 = from /\ op = Idle
    /\ cr3' = to /\ tlb' = {}
    /\ UNCHANGED <<pmm, space, op>>

user64_enter(p) == space[p].mem # <<>> /\ LoadCr3("kernel", p)
user64_abort == cr3 \in Proc /\ LoadCr3(cr3, "kernel")

\* The MMU walks the tables of the running process, on demand or ahead of it.
Walk(w) ==
    LET frame == space[cr3].entries[w].frame IN
    /\ cr3 \in Proc /\ frame # 0
    /\ tlb' = tlb \cup {[window |-> w, frame |-> frame]}
    /\ space' = [space EXCEPT ![cr3].entries[w].accessed = TRUE]
    /\ UNCHANGED <<pmm, cr3, op>>
-----------------------------------------------------------------------------
Init ==
    /\ pmm = [Frames!pmm_init_ranges(<<[base |-> 1, bytes |-> NPages, usable |-> TRUE]>>)
                EXCEPT !.live = TRUE]
    /\ space = [p \in Proc |-> Empty]
    /\ cr3 = "kernel" /\ tlb = {} /\ op = Idle

Anonymous(p) == \E first \in Window : \E count \in 1..NWindows - first + 1 :
    \/ anon_memory_reserve(p, first, count)
    \/ anon_memory_commit(p, first, count)
    \/ anon_memory_release(p, first, count)

Transaction ==
    \/ CheckStale \/ WriteEntry \/ Flushed \/ FlushRefused
    \/ Restore \/ Reflushed \/ ReflushRefused \/ CompareRestored

Next ==
    \/ \E p \in Proc : \/ Anonymous(p) \/ process64_prepare(p)
                       \/ process64_release_slot(p) \/ user64_enter(p)
    \/ user64_abort
    \/ TakeFrame \/ OutOfFrames \/ Undo
    \/ Transaction
    \/ FreeWindow \/ Released \/ Scan \/ FreeImage \/ Publish
    \/ \E w \in Window : Walk(w)

Spec == Init /\ [][Next]_vars
-----------------------------------------------------------------------------
TypeOK ==
    /\ Frames!StateOK(pmm)
    /\ space \in [Proc -> [mem : Seq(1..NPages),
            states : [Window -> {"free", "reserved", "committed", "broken"}],
            pages : [Window -> 0..NPages],
            entries : [Window -> [frame : 0..NPages, accessed : BOOLEAN]],
            reserved : 0..NWindows, committed : 0..NWindows, broken : 0..NWindows]]
    /\ cr3 \in Proc \cup {"kernel"}
    /\ tlb \subseteq [window : Window, frame : 1..NPages]

(***************************************************************************)
(* Nothing the MMU can reach is a frame somebody else has: a frame behind  *)
(* a page-table entry or a cached translation, also half way through a     *)
(* transaction or after a failed roll back, is owned by that process.      *)
(***************************************************************************)
NoDangling ==
    /\ \A p \in Proc, w \in Window :
        LET frame == space[p].entries[w].frame
        IN  frame # 0 => pmm.owners[frame] = AnonOwner[p]
    /\ \A t \in tlb : pmm.owners[t.frame] = AnonOwner[cr3]

(***************************************************************************)
(* Between calls every frame charged to a process is one its bookkeeping   *)
(* still names, once: failed allocations, transactions and exits leak no   *)
(* frame and record none twice.                                            *)
(***************************************************************************)
FramesAccounted ==
    op = Idle => \A p \in Proc :
        LET Named(i) == {w \in Window : space[p].pages[w] = i} IN
        /\ Frames!OwnedBy(pmm, AnonOwner[p]) =
              {space[p].pages[w] : w \in {v \in Window : space[p].pages[v] # 0}}
        /\ \A i \in 1..NPages : Cardinality(Named(i)) <= 1
        /\ Frames!OwnedBy(pmm, ImageOwner[p]) = {space[p].mem[i] : i \in DOMAIN space[p].mem}
        /\ space[p].mem = <<>> => space[p] = Empty

(***************************************************************************)
(* The checks the code makes before it touches anything (anon_memory.c:32, *)
(* process_memory.c:17) never report corruption between calls.             *)
(***************************************************************************)
ChecksPass ==
    op = Idle => \A p \in Proc : space[p].mem # <<>> =>
        process_memory_check(p) /\ (space[p].broken = 0 => shape_check(p, TRUE))

(***************************************************************************)
(* user64_range (usermode.c:808) lets the kernel touch exactly committed   *)
(* windows: between calls they are all mapped to their own frame, and no   *)
(* free or reserved window has an entry or a cached translation left.      *)
(***************************************************************************)
BuffersMapped ==
    op = Idle => \A p \in Proc, w \in Window :
        LET s == space[p] IN
        /\ s.states[w] = "committed" => s.entries[w].frame = s.pages[w]
        /\ s.states[w] \in {"free", "reserved"} =>
              s.entries[w] = Absent /\ (cr3 = p => \A t \in tlb : t.window # w)

(***************************************************************************)
(* A broken window is never taken back into use or given up: its frame     *)
(* stays charged to the process, whose slot is then never released.        *)
(***************************************************************************)
BrokenStaysHeld ==
    [][\A p \in Proc, w \in Window : space[p].states[w] = "broken" =>
        space'[p].states[w] = "broken" /\ space'[p].pages[w] = space[p].pages[w]
        /\ space'[p].mem # <<>>]_vars

(***************************************************************************)
(* user-process-abi.md:79: "The page-table invariant admits x86's          *)
(* hardware-managed accessed and dirty bits", and page_table_txn.c:94 says *)
(* they "are not a verify failure". So a roll back whose flush went        *)
(* through leaves no window broken.                                        *)
(***************************************************************************)
BrokenOnlyByRefusedFlush ==
    [][\A p \in Proc : space'[p].broken > space[p].broken => op.pc = "reflush"]_vars
=============================================================================
