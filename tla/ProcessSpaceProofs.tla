------------------------- MODULE ProcessSpaceProofs -------------------------
(***************************************************************************)
(* For any number of processes, windows and frames, and any frames per     *)
(* image: no page-table entry and no cached translation of a process       *)
(* reaches a frame somebody else has, at any step of any call, whatever    *)
(* fails; between calls no frame is lost and the bookkeeping, the page     *)
(* tables and the allocator say the same.                                  *)
(***************************************************************************)
EXTENDS ProcessSpace, Integers, FiniteSetTheorems, SequenceTheorems, TLAPS

-----------------------------------------------------------------------------
(* The allocator, through the lemmas about its states.                      *)

Pages == INSTANCE PmmProofs WITH Limits <- {}, Unmapped <- {}, PageBytes <- 1,
                                 Ranges <- {}, map <- <<>>, soiled <- {}

LEMMA PagesAssumed == Pages!PmmAssumption /\ Pages!RangesAssumption
<1>1. Owner \cap {"free", "reserved"} = {}
  BY SpaceAssumption DEF Owner
<1>2. Unlimited \in Nat /\ NPages <= Unlimited
  BY SpaceAssumption DEF Unlimited
<1> QED  BY <1>1, <1>2, SpaceAssumption DEF Pages!PmmAssumption, Pages!RangesAssumption, Pages!Page

\* Both instances of the allocator are the same one.
LEMMA SamePages ==
    ASSUME NEW s, NEW o
    PROVE  /\ Frames!AllocPage(s, o) = Pages!AllocPage(s, o)
           /\ Frames!AfterAlloc(s, o) = Pages!AfterAlloc(s, o)
           /\ \A f : Frames!AfterRelease(s, f, o) = Pages!AfterRelease(s, f, o)
<1>1. Frames!NextFree(s) = Pages!NextFree(s)
  BY DEF Frames!NextFree, Pages!NextFree, Frames!ScanPage, Pages!ScanPage
<1>2. Frames!OverQuota(s, o) = Pages!OverQuota(s, o)
  BY DEF Frames!OverQuota, Pages!OverQuota
<1>3. Frames!Counted(s, o) = Pages!Counted(s, o)
  BY DEF Frames!Counted, Pages!Counted, Frames!Larger, Pages!Larger
<1>4. Frames!AllocPage(s, o) = Pages!AllocPage(s, o)
  BY <1>1, <1>2 DEF Frames!AllocPage, Pages!AllocPage
<1>5. Frames!AfterAlloc(s, o) = Pages!AfterAlloc(s, o)
  BY <1>1, <1>2, <1>3 DEF Frames!AfterAlloc, Pages!AfterAlloc, Frames!CursorAfter, Pages!CursorAfter
<1>6. ASSUME NEW f PROVE Frames!AfterRelease(s, f, o) = Pages!AfterRelease(s, f, o)
  BY DEF Frames!AfterRelease, Pages!AfterRelease, Frames!ReleaseOK, Pages!ReleaseOK,
         Frames!CursorAfterRelease, Pages!CursorAfterRelease
<1> QED  BY <1>4, <1>5, <1>6

LEMMA StateSame == ASSUME NEW s, Pages!Good(s) PROVE Frames!StateOK(s)
  BY DEF Pages!Good, Frames!StateOK, Pages!StateOK, Frames!Page, Pages!Page

Good(s) == Pages!Good(s) /\ s.live

\* pmm.c:285: a frame that is handed out was free and is the payer's.
LEMMA FrameTaken ==
    ASSUME NEW s, Good(s), NEW o \in Owner, Frames!AllocPage(s, o) # 0
    PROVE  LET f == Frames!AllocPage(s, o)
               t == Frames!AfterAlloc(s, o)
           IN  /\ Good(t) /\ f \in 1..NPages /\ s.owners[f] = "free"
               /\ t.owners = [s.owners EXCEPT ![f] = o]
<1> DEFINE f == Frames!AllocPage(s, o)
           t == Frames!AfterAlloc(s, o)
<1>1. Pages!StateOK(s) /\ Pages!Good(s)
  BY DEF Good, Pages!Good
<1>2. f = Pages!NextFree(s) /\ t.owners = [s.owners EXCEPT ![f] = o]
  <2>1. IF Pages!AllocPage(s, o) = 0 THEN Pages!AfterAlloc(s, o).owners = s.owners
        ELSE /\ Pages!AllocPage(s, o) = Pages!NextFree(s)
             /\ Pages!AfterAlloc(s, o).owners = [s.owners EXCEPT ![Pages!NextFree(s)] = o]
    BY <1>1, PagesAssumed, Pages!AllocOwners
  <2>2. Frames!AllocPage(s, o) = Pages!AllocPage(s, o) /\ Frames!AfterAlloc(s, o) = Pages!AfterAlloc(s, o)
    BY SamePages
  <2> QED  BY <2>1, <2>2
<1>3. f \in Pages!OwnedBy(s, "free")
  BY <1>1, <1>2, PagesAssumed, Pages!ScanFinds
<1>4. f \in 1..NPages /\ s.owners[f] = "free"
  BY <1>3 DEF Pages!OwnedBy, Pages!Page
<1>5. Pages!Good(t)
  BY <1>1, SamePages, PagesAssumed, Pages!AllocKeepsGood
<1>6. t.live
  <2> DEFINE c == Pages!Counted(s, o)
  <2>1. c.live = s.live /\ "live" \in DOMAIN c
    BY <1>1 DEF Pages!Counted, Pages!StateOK
  <2>2. CASE ~s.live \/ Pages!OverQuota(s, o) \/ Pages!NextFree(s) = 0
    <3>1. Pages!AllocPage(s, o) = 0
      BY <2>2 DEF Pages!AllocPage
    <3> QED  BY <3>1, SamePages
  <2>3. CASE ~(~s.live \/ Pages!OverQuota(s, o) \/ Pages!NextFree(s) = 0)
    <3>1. t = [c EXCEPT !.owners[Pages!NextFree(s)] = o,
            !.free = @ - 1, !.used = @ + 1, !.owner_used[o] = @ + 1,
            !.cursor = Pages!CursorAfter(Pages!NextFree(s))]
      BY <2>3, SamePages DEF Pages!AfterAlloc
    <3> HIDE DEF c, t
    <3> QED  BY <2>1, <3>1 DEF Good
  <2> QED  BY <2>2, <2>3
<1> QED  BY <1>2, <1>4, <1>5, <1>6 DEF Good

\* pmm.c:326: an owner's frame goes back to the free ones.
LEMMA FrameReturned ==
    ASSUME NEW s, Good(s), NEW o \in Owner, NEW f \in 1..NPages, s.owners[f] = o
    PROVE  LET t == Frames!AfterRelease(s, f, o) IN
           Good(t) /\ t.owners = [s.owners EXCEPT ![f] = "free"]
<1> DEFINE t == Frames!AfterRelease(s, f, o)
<1>1. Pages!StateOK(s) /\ Pages!Good(s) /\ f \in Pages!Page /\ Pages!ReleaseOK(s, f, o)
  BY DEF Good, Pages!Good, Pages!Page, Pages!ReleaseOK
<1>2. t.owners = [s.owners EXCEPT ![f] = "free"]
  <2>1. Pages!AfterRelease(s, f, o).owners = [s.owners EXCEPT ![f] = "free"]
    BY <1>1, PagesAssumed, Pages!ReleaseOwners
  <2> QED  BY <2>1, SamePages
<1>3. Pages!Good(t)
  <2>1. Pages!Good(Pages!AfterRelease(s, f, o))
    BY <1>1, PagesAssumed, Pages!ReleaseKeepsGood
  <2> QED  BY <2>1, SamePages
<1>4. t.live
  <2>1. Pages!AfterRelease(s, f, o) =
          [s EXCEPT !.owners[f] = "free", !.used = @ - 1, !.owner_used[o] = @ - 1,
                    !.free = @ + 1, !.cursor = Pages!CursorAfterRelease(s, f)]
    BY <1>1 DEF Pages!AfterRelease
  <2>2. t = Pages!AfterRelease(s, f, o)
    BY SamePages
  <2> HIDE DEF t
  <2> QED  BY <1>1, <2>1, <2>2 DEF Good, Pages!StateOK
<1> QED  BY <1>2, <1>3, <1>4 DEF Good

\* The limits process64_prepare sets keep what is owned already.
LEMMA LimitsSet ==
    ASSUME NEW s, Good(s), NEW p \in Proc,
           s.owner_used[ImageOwner[p]] <= ImageLimit, s.owner_used[AnonOwner[p]] <= NWindows
    PROVE  LET t == [s EXCEPT !.owner_limits[ImageOwner[p]] = ImageLimit,
                              !.owner_limits[AnonOwner[p]] = NWindows]
           IN  Good(t) /\ t.owners = s.owners
<1> DEFINE u == [s EXCEPT !.owner_limits[ImageOwner[p]] = ImageLimit]
           t == [u EXCEPT !.owner_limits[AnonOwner[p]] = NWindows]
<1>1. /\ ImageOwner[p] \in Owner /\ AnonOwner[p] \in Owner
      /\ ImageLimit \in Nat /\ NWindows \in Nat
  BY SpaceAssumption DEF Owner, ImageLimit
<1>2. Pages!Good(s) /\ Pages!StateOK(s) /\ s.live
  BY DEF Good, Pages!Good
<1>3. \A o \in Owner : s.owner_used[o] \in Nat
  BY <1>2 DEF Pages!StateOK
<1>4. Pages!Good(u)
  BY <1>1, <1>2, <1>3, PagesAssumed, Pages!LimitKeepsGood
<1>5. u.owner_used = s.owner_used /\ u.live /\ u.owners = s.owners
  BY <1>2 DEF Pages!StateOK
<1>6. Pages!Good(t)
  <2> HIDE DEF u
  <2> QED  BY <1>1, <1>3, <1>4, <1>5, PagesAssumed, Pages!LimitKeepsGood
<1>7. t.live /\ t.owners = s.owners
  BY <1>2 DEF Pages!StateOK
<1>8. t = [s EXCEPT !.owner_limits[ImageOwner[p]] = ImageLimit,
                    !.owner_limits[AnonOwner[p]] = NWindows]
  BY <1>2 DEF Pages!StateOK
<1> QED  BY <1>6, <1>7, <1>8 DEF Good
-----------------------------------------------------------------------------
(* The inductive invariant: what a process's space s has to do with the     *)
(* call o in progress for it, the owners of the frames and the translations *)
(* T the CPU has cached of it.                                              *)

Entry64 == [frame : 0..NPages, accessed : BOOLEAN]
Translation == [window : Window, frame : 1..NPages]
Change == [window : Window, before : Entry64, after : Entry64]

\* The program counters of vmm_pt_txn_apply, those with tables half written first.
Unsettled == {"write", "flush", "restore"}
Applying == Unsettled \cup {"stale", "reflush", "compare"}

SpaceType ==
    [mem : Seq(1..NPages),
     states : [Window -> {"free", "reserved", "committed", "broken"}],
     pages : [Window -> 0..NPages], entries : [Window -> Entry64],
     reserved : 0..NWindows, committed : 0..NWindows, broken : 0..NWindows]

OpType ==
    [call : {"none", "commit", "release", "prepare", "exit"},
     proc : Proc \cup {"kernel"},
     pc : {"idle", "alloc", "undo", "free", "scan", "unimage", "publish"} \cup Applying,
     first : Nat, count : Nat, got : Seq(1..NPages), changes : Seq(Change), applied : Nat]

Mine(p) == IF op.proc = p THEN op ELSE Idle
Seen(p) == IF cr3 = p THEN tlb ELSE {}

RunOf(o) == Run(o.first, o.count)
Touched(o) == {o.changes[k].window : k \in 1..o.applied}

\* The counters count, and no frame is in two windows or twice in the image.
Books(s, o) ==
    /\ \A w \in Window : s.pages[w] = 0 <=> s.states[w] \in {"free", "reserved"}
    /\ \A v, w \in Window : s.pages[v] = s.pages[w] => s.pages[v] = 0 \/ v = w
    /\ s.reserved = Cardinality(Window \ InState(s, "free"))
    /\ s.committed = Cardinality(InState(s, "committed"))
    /\ s.broken = Cardinality(InState(s, "broken"))
    /\ \A i, j \in DOMAIN s.mem : s.mem[i] = s.mem[j] => i = j
    /\ Len(s.mem) \in {0, NImage} \/ (o.pc = "unimage" /\ Len(s.mem) <= NImage)
    /\ s.mem = <<>> => \A w \in Window : s.states[w] = "free"

\* What p is charged for is in a window, in its image or in the call's hands.
Charged(p, s, o, owners) ==
    /\ \A f \in 1..NPages : owners[f] = AnonOwner[p] <=>
        \/ \E w \in Window : s.pages[w] = f
        \/ o.call = "commit" /\ \E i \in DOMAIN o.got : o.got[i] = f
    /\ \A f \in 1..NPages : owners[f] = ImageOwner[p] <=>
        \/ \E i \in DOMAIN s.mem : s.mem[i] = f
        \/ o.call = "prepare" /\ \E i \in DOMAIN o.got : o.got[i] = f
    /\ \A i, j \in DOMAIN o.got : o.got[i] = o.got[j] => i = j
    /\ o.call = "commit" => \A w \in Window, i \in DOMAIN o.got : s.pages[w] # o.got[i]
    /\ o.call = "prepare" => \A i \in DOMAIN s.mem, j \in DOMAIN o.got : s.mem[i] # o.got[j]

\* Windows mapped before they are committed, and unmapped while they still are.
Pushed(o) == IF o.call = "commit" /\ o.pc \in Unsettled THEN Touched(o) ELSE {}
Pulled(o) == IF o.pc = "free" THEN RunOf(o)
             ELSE IF o.call # "commit" /\ o.pc \in Unsettled THEN Touched(o) ELSE {}

Mapped(s, o) == \A w \in Window :
    /\ s.states[w] \in {"free", "reserved"} =>
        IF w \in Pushed(o) THEN s.entries[w].frame = o.got[w - o.first + 1]
        ELSE s.entries[w] = Absent
    /\ s.states[w] = "committed" =>
        IF w \in Pulled(o) THEN s.entries[w] = Absent ELSE s.entries[w].frame = s.pages[w]
    /\ s.states[w] = "broken" => s.entries[w].frame \in {0, s.pages[w]}

\* A translation may outlive its entry until the flush, and no longer.
Cached(s, o, T) == \A t \in T :
    \/ s.pages[t.window] = t.frame /\ ~(o.pc = "free" /\ t.window \in RunOf(o))
    \/ /\ o.call = "commit" /\ o.pc \in Unsettled \cup {"reflush"}
       /\ \E k \in 1..o.applied : o.changes[k].window = t.window /\ o.got[k] = t.frame

Progress(o) ==
    /\ o.pc \in Applying => o.changes # <<>>
    /\ o.pc \in {"alloc", "stale"} => o.applied = 0
    /\ o.pc = "write" => o.applied < Len(o.changes)
    /\ o.pc = "flush" => o.applied = Len(o.changes)
    /\ o.pc \in {"restore", "reflush", "compare"} => o.applied \in 1..Len(o.changes)

Committing(s, o) ==
    /\ o.pc \in Applying \cup {"alloc", "undo"}
    /\ o.count \in 1..NWindows /\ RunOf(o) \subseteq Window
    /\ \A w \in RunOf(o) : s.states[w] = "reserved"
    /\ Len(o.got) <= o.count /\ (o.pc = "alloc" => Len(o.got) < o.count)
    /\ o.pc \in Applying =>
        /\ Len(o.got) = o.count
        /\ o.changes = [k \in 1..o.count |-> [window |-> o.first + k - 1,
                            before |-> Absent, after |-> Present(o.got[k])]]

\* The changes of a teardown are one for each committed window of its run.
Unmaps(s, o) ==
    /\ \A k \in DOMAIN o.changes :
        /\ o.changes[k].window \in RunOf(o) /\ s.states[o.changes[k].window] = "committed"
        /\ o.changes[k].before.frame = s.pages[o.changes[k].window]
        /\ o.changes[k].after = Absent
    /\ \A w \in RunOf(o) : s.states[w] = "committed" =>
        \E k \in DOMAIN o.changes : o.changes[k].window = w
    /\ \A j, k \in DOMAIN o.changes : o.changes[j].window = o.changes[k].window => j = k

Tearing(s, o) ==
    /\ o.pc \in Applying \cup {"free"}
    /\ RunOf(o) \subseteq Window
    /\ \A w \in RunOf(o) : s.states[w] \in {"reserved", "committed"}
    /\ o.pc \in Applying => Unmaps(s, o)

Calling(s, o) ==
    /\ o.call = "none" => o = Idle
    /\ o.call = "commit" => Committing(s, o)
    /\ o.call = "release" => Tearing(s, o)
    /\ o.call = "exit" => Tearing(s, o) \/ o.pc \in {"scan", "unimage"}
    /\ o.call = "prepare" =>
        /\ Tearing(s, o) \/ o.pc \in {"alloc", "undo", "scan", "unimage", "publish"}
        /\ Len(o.got) <= NImage
        /\ o.pc = "alloc" => Len(o.got) < NImage /\ o.count = NImage
        /\ o.pc \notin {"alloc", "undo"} => Len(o.got) = NImage
    /\ o.call \in {"release", "exit"} => o.got = <<>>
    /\ o.pc \in {"unimage", "publish"} => \A w \in Window : s.states[w] = "free"
    /\ o.pc \in Applying \cup {"free", "scan", "unimage"} => s.mem # <<>>
    /\ o.pc = "publish" => s.mem = <<>>
    /\ Progress(o)

ProcOK(p, s, o, owners, T) ==
    Books(s, o) /\ Charged(p, s, o, owners) /\ Mapped(s, o) /\ Cached(s, o, T) /\ Calling(s, o)

\* Images change under the kernel's page tables, windows under the process's own.
Running ==
    /\ op.proc \in Proc <=> op.call # "none"
    /\ op.call = "none" => op = Idle
    /\ cr3 \in Proc => space[cr3].mem # <<>>
    /\ cr3 = "kernel" => tlb = {}
    /\ op.call \in {"commit", "release"} => cr3 = op.proc
    /\ op.call \in {"prepare", "exit"} => cr3 = "kernel"

Types ==
    /\ Good(pmm) /\ space \in [Proc -> SpaceType] /\ cr3 \in Proc \cup {"kernel"}
    /\ tlb \subseteq Translation /\ op \in OpType

IInv ==
    /\ Types /\ Running
    /\ \A p \in Proc : ProcOK(p, space[p], Mine(p), pmm.owners, Seen(p))
-----------------------------------------------------------------------------
LEMMA OwnersDiffer ==
    ASSUME NEW p \in Proc, NEW q \in Proc
    PROVE  /\ ImageOwner[p] # AnonOwner[q]
           /\ p # q => ImageOwner[p] # ImageOwner[q] /\ AnonOwner[p] # AnonOwner[q]
           /\ ImageOwner[p] # "free" /\ AnonOwner[p] # "free"
           /\ ImageOwner[p] # "reserved" /\ AnonOwner[p] # "reserved"
           /\ ImageOwner[p] \in Owner /\ AnonOwner[p] \in Owner
<1>1. {ImageOwner[p], AnonOwner[p]} \cap {"free", "reserved"} = {}
  BY SpaceAssumption
<1>2. /\ ImageOwner[p] # "free" /\ AnonOwner[p] # "free"
      /\ ImageOwner[p] # "reserved" /\ AnonOwner[p] # "reserved"
  BY <1>1
<1>3. ImageOwner[p] \in Owner /\ AnonOwner[p] \in Owner
  BY DEF Owner
<1>4. ImageOwner[p] # AnonOwner[q]
  BY SpaceAssumption
<1>5. p # q => ImageOwner[p] # ImageOwner[q] /\ AnonOwner[p] # AnonOwner[q]
  BY SpaceAssumption
<1> QED  BY <1>2, <1>3, <1>4, <1>5

\* The call in progress is some process's, or there is none.
LEMMA MineIsOp ==
    ASSUME Running, NEW p \in Proc, op.proc \in {p, "kernel"}
    PROVE  /\ Mine(p) = op
           /\ \A q \in Proc \ {p} : Mine(q) = Idle
<1>1. "kernel" \notin Proc
  BY SpaceAssumption
<1>2. CASE op.proc = p
  BY <1>2 DEF Mine
<1>3. CASE op.proc = "kernel"
  <2>1. op = Idle
    BY <1>1, <1>3 DEF Running
  <2> QED  BY <1>1, <1>3, <2>1 DEF Mine
<1> QED  BY <1>2, <1>3

LEMMA Unfolded ==
    ASSUME IInv, NEW p \in Proc, op.proc \in {p, "kernel"}
    PROVE  /\ Types /\ Running
           /\ ProcOK(p, space[p], op, pmm.owners, Seen(p))
           /\ space[p] \in SpaceType
BY MineIsOp DEF IInv, Types

\* A step that touches one process only keeps the invariant of the others.
LEMMA Assemble ==
    ASSUME IInv, NEW p \in Proc, op.proc \in {p, "kernel"}, op'.proc \in {p, "kernel"},
           \A q \in Proc \ {p} : space'[q] = space[q] /\ Seen(q)' \subseteq Seen(q),
           \A f \in 1..NPages : pmm'.owners[f] # pmm.owners[f] =>
                {pmm.owners[f], pmm'.owners[f]} \subseteq {"free", ImageOwner[p], AnonOwner[p]},
           Types', Running',
           ProcOK(p, space'[p], op', pmm'.owners, Seen(p)')
    PROVE  IInv'
<1>1. Mine(p)' = op' /\ \A q \in Proc \ {p} : Mine(q)' = Mine(q)
  <2>1. Running  BY DEF IInv
  <2>2. \A q \in Proc \ {p} : Mine(q) = Idle
    BY <2>1, MineIsOp
  <2>3. "kernel" \notin Proc
    BY SpaceAssumption
  <2>4. CASE op'.proc = p
    BY <2>2, <2>4 DEF Mine
  <2>5. CASE op'.proc = "kernel"
    <3>1. op' = Idle
      BY <2>3, <2>5 DEF Running
    <3> QED  BY <2>2, <2>3, <2>5, <3>1 DEF Mine
  <2> QED  BY <2>4, <2>5
<1>2. ASSUME NEW q \in Proc \ {p}
      PROVE  ProcOK(q, space'[q], Mine(q)', pmm'.owners, Seen(q)')
  <2>1. ProcOK(q, space[q], Mine(q), pmm.owners, Seen(q))
    BY DEF IInv
  <2>2. space'[q] = space[q] /\ Mine(q)' = Mine(q) /\ Seen(q)' \subseteq Seen(q)
    BY <1>1
  <2>3. \A f \in 1..NPages : /\ pmm'.owners[f] = AnonOwner[q] <=> pmm.owners[f] = AnonOwner[q]
                             /\ pmm'.owners[f] = ImageOwner[q] <=> pmm.owners[f] = ImageOwner[q]
    <3>1. /\ AnonOwner[q] \notin {"free", ImageOwner[p], AnonOwner[p]}
          /\ ImageOwner[q] \notin {"free", ImageOwner[p], AnonOwner[p]}
      BY OwnersDiffer
    <3> QED  BY <3>1
  <2>4. Charged(q, space[q], Mine(q), pmm'.owners)
    BY <2>1, <2>3 DEF ProcOK, Charged
  <2>5. Cached(space[q], Mine(q), Seen(q)')
    BY <2>1, <2>2 DEF ProcOK, Cached
  <2> QED  BY <2>1, <2>2, <2>4, <2>5 DEF ProcOK
<1>3. \A q \in Proc : ProcOK(q, space'[q], Mine(q)', pmm'.owners, Seen(q)')
  BY <1>1, <1>2
<1> QED  BY <1>3 DEF IInv

\* A step of the call alone.
LEMMA OpStep ==
    ASSUME IInv, NEW p \in Proc, op.proc \in {p, "kernel"}, op'.proc \in {p, "kernel"},
           UNCHANGED <<pmm, space, cr3, tlb>>, op' \in OpType,
           op'.proc = p <=> op'.call # "none", op'.call = "none" => op' = Idle,
           op'.call \in {"commit", "release"} => cr3 = p,
           op'.call \in {"prepare", "exit"} => cr3 = "kernel",
           ProcOK(p, space[p], op', pmm.owners, Seen(p))
    PROVE  IInv'
<1>1. Types /\ Running
  BY DEF IInv
<1>2. Types'
  BY <1>1 DEF Types
<1>3. Running'
  BY <1>1, SpaceAssumption DEF Running
<1>4. \A q \in Proc : Seen(q)' = Seen(q) /\ space'[q] = space[q]
  BY DEF Seen
<1>5. ProcOK(p, space'[p], op', pmm'.owners, Seen(p)')
  BY <1>4
<1>6. \A f \in 1..NPages : pmm'.owners[f] = pmm.owners[f]
  OBVIOUS
<1> QED  BY <1>2, <1>3, <1>4, <1>5, <1>6, Assemble
-----------------------------------------------------------------------------
(* How the parts of the invariant of one process carry over from a call o   *)
(* to the next state o1 of it.                                              *)

LEMMA SameBooks ==
    ASSUME NEW s, NEW o, NEW o1, Books(s, o), o.pc # "unimage"
    PROVE  Books(s, o1)
BY DEF Books

LEMMA SameCharges ==
    ASSUME NEW p, NEW s, NEW owners, NEW o, NEW o1, Charged(p, s, o, owners), o1.got = o.got,
           o1.call = o.call \/ o.got = <<>>
    PROVE  Charged(p, s, o1, owners)
<1>1. CASE o1.call = o.call
  BY <1>1 DEF Charged
<1>2. CASE o.got = <<>>
  BY <1>2 DEF Charged
<1> QED  BY <1>1, <1>2

LEMMA SameMaps ==
    ASSUME NEW s, NEW o, NEW o1, Mapped(s, o), Pulled(o1) = Pulled(o), Pushed(o1) = Pushed(o),
           Pushed(o) = {} \/ (o1.got = o.got /\ o1.first = o.first)
    PROVE  Mapped(s, o1)
<1>1. CASE Pushed(o) = {}
  BY <1>1 DEF Mapped
<1>2. CASE o1.got = o.got /\ o1.first = o.first
  BY <1>2 DEF Mapped
<1> QED  BY <1>1, <1>2

\* No entry is half way: what the tables hold of a window, its state tells.
Plain(o) == o.pc \notin Unsettled \cup {"reflush", "free"}

LEMMA PlainMaps ==
    ASSUME NEW s, NEW o, NEW o1, NEW T, Mapped(s, o), Cached(s, o, T), Plain(o), Plain(o1)
    PROVE  Mapped(s, o1) /\ Cached(s, o1, T)
<1>1. Pushed(o) = {} /\ Pulled(o) = {} /\ Pushed(o1) = {} /\ Pulled(o1) = {}
  BY DEF Plain, Pushed, Pulled
<1>2. Cached(s, o1, T)
  BY DEF Cached, Plain
<1> QED  BY <1>1, <1>2, SameMaps

LEMMA IdleFacts ==
    /\ Idle \in OpType /\ Idle.call = "none" /\ Idle.pc = "idle" /\ Idle.got = <<>>
    /\ Idle.proc = "kernel" /\ Plain(Idle)
<1>1. <<>> \in Seq(1..NPages) /\ <<>> \in Seq(Change)
  OBVIOUS
<1>2. Idle \in OpType
  BY <1>1 DEF Idle, OpType
<1> QED  BY <1>2 DEF Idle, Plain, Unsettled

LEMMA IdleCalls == ASSUME NEW s PROVE Calling(s, Idle)
BY IdleFacts DEF Calling, Progress, Applying, Unsettled, Idle

\* Only the program counter moves.
LEMMA PcMoves ==
    ASSUME NEW o \in OpType, NEW c \in {"undo", "write", "restore", "reflush", "compare", "free",
                                        "scan", "unimage", "publish"}
    PROVE  LET o1 == [o EXCEPT !.pc = c] IN
           /\ o1 \in OpType /\ o1.pc = c /\ o1.call = o.call /\ o1.proc = o.proc
           /\ o1.first = o.first /\ o1.count = o.count /\ o1.got = o.got
           /\ o1.changes = o.changes /\ o1.applied = o.applied
BY DEF OpType, Applying, Unsettled

\* A call that fails where no entry is half way.
Fail(o) == IF o.call \in {"commit", "prepare"} THEN [o EXCEPT !.pc = "undo"] ELSE Idle

LEMMA FailKeeps ==
    ASSUME NEW p, NEW s, NEW o \in OpType, NEW owners, NEW T, ProcOK(p, s, o, owners, T),
           o.pc \in {"alloc", "stale", "compare", "scan"}
    PROVE  ProcOK(p, s, Fail(o), owners, T)
<1> DEFINE o1 == Fail(o)
<1>1. Plain(o)
  BY DEF Plain, Unsettled
<1>2. CASE o.call \in {"commit", "prepare"}
  <2>1. /\ o1.pc = "undo" /\ o1.call = o.call /\ o1.got = o.got /\ Plain(o1)
        /\ o1.first = o.first /\ o1.count = o.count
    BY <1>2, PcMoves DEF Fail, Plain, Unsettled
  <2> HIDE DEF o1
  <2>2. Books(s, o1)
    BY SameBooks DEF ProcOK
  <2>3. Charged(p, s, o1, owners)
    BY <2>1, SameCharges DEF ProcOK
  <2>4. Mapped(s, o1) /\ Cached(s, o1, T)
    BY <1>1, <2>1, PlainMaps DEF ProcOK
  <2>5. Calling(s, o1)
    BY <1>2, <2>1 DEF ProcOK, Calling, Committing, RunOf, Progress, Applying, Unsettled
  <2> QED  BY <2>2, <2>3, <2>4, <2>5 DEF ProcOK, o1
<1>3. CASE o.call \notin {"commit", "prepare"}
  <2>1. o1 = Idle
    BY <1>3 DEF Fail
  <2>2. o.got = <<>>
    BY <1>3, IdleFacts DEF ProcOK, Calling, OpType
  <2>3. Books(s, o1)
    BY SameBooks DEF ProcOK
  <2>4. Charged(p, s, o1, owners)
    BY <2>1, <2>2, SameCharges, IdleFacts DEF ProcOK
  <2>5. Mapped(s, o1) /\ Cached(s, o1, T)
    BY <1>1, <2>1, PlainMaps, IdleFacts DEF ProcOK
  <2> QED  BY <2>1, <2>3, <2>4, <2>5, IdleCalls DEF ProcOK
<1> QED  BY <1>2, <1>3

\* The call moves on within its transaction.
LEMMA Advances ==
    ASSUME NEW s, NEW o, NEW o1, Calling(s, o), o.pc \in Applying, o1.pc \in Applying, Progress(o1),
           o1.call = o.call, o1.first = o.first, o1.count = o.count, o1.got = o.got,
           o1.changes = o.changes
    PROVE  Calling(s, o1)
<1>0. RunOf(o1) = RunOf(o)
  BY DEF RunOf
<1>1. Committing(s, o) => Committing(s, o1)
  BY <1>0 DEF Committing, Applying, Unsettled
<1>2. Unmaps(s, o) => Unmaps(s, o1)
  BY <1>0 DEF Unmaps
<1>3. Tearing(s, o) => Tearing(s, o1)
  BY <1>0, <1>2 DEF Tearing
<1>4. /\ o.pc \notin {"alloc", "undo", "scan", "unimage", "publish", "idle"}
      /\ o1.pc \notin {"alloc", "undo", "scan", "unimage", "publish", "idle"}
  BY DEF Applying, Unsettled
<1>5. o.call # "none"
  BY <1>4, IdleFacts DEF Calling
<1> QED  BY <1>1, <1>3, <1>4, <1>5 DEF Calling

\* A call of the given kind has just begun.
LEMMA Starts ==
    ASSUME NEW p \in Proc, NEW call \in {"commit", "release", "prepare", "exit"},
           NEW first \in Nat, NEW count \in Nat, NEW pc \in {"alloc", "scan", "free"}
    PROVE  LET o1 == Start(call, p, first, count, pc) IN
           /\ o1 \in OpType /\ o1.call = call /\ o1.proc = p /\ o1.pc = pc /\ o1.first = first
           /\ o1.count = count /\ o1.got = <<>> /\ o1.changes = <<>> /\ o1.applied = 0
BY IdleFacts DEF Start, Idle, OpType
-----------------------------------------------------------------------------
(* The steps that move only the call.                                       *)

LEMMA CallIsSomebodys ==
    ASSUME IInv, op.pc # "idle"
    PROVE  /\ op.proc \in Proc /\ op.call # "none" /\ Types /\ Running
           /\ ProcOK(op.proc, space[op.proc], op, pmm.owners, Seen(op.proc))
           /\ op \in OpType /\ space[op.proc] \in SpaceType
<1>1. op.call # "none" /\ op.proc \in Proc
  BY IdleFacts DEF IInv, Running
<1> QED  BY <1>1, Unfolded DEF Types

LEMMA CommitStarts ==
    ASSUME IInv, NEW p \in Proc, NEW first \in Window, NEW count \in 1..NWindows - first + 1,
           anon_memory_commit(p, first, count)
    PROVE  IInv'
<1> DEFINE s == space[p]
<1>1. /\ op = Idle /\ cr3 = p /\ UNCHANGED <<pmm, space, cr3, tlb>>
      /\ \A w \in Run(first, count) : s.states[w] = "reserved"
  BY DEF anon_memory_commit, Syscall
<1>2. op' = Start("commit", p, first, count, "alloc")
  BY DEF anon_memory_commit
<1>3. NWindows \in Nat /\ first \in Nat /\ count \in Nat /\ count \in 1..NWindows /\ Run(first, count) \subseteq Window
  BY SpaceAssumption DEF Window, Run
<1>4. /\ op' \in OpType
      /\ op'.call = "commit" /\ op'.proc = p /\ op'.pc = "alloc" /\ op'.first = first
      /\ op'.count = count /\ op'.got = <<>> /\ op'.changes = <<>> /\ op'.applied = 0
  BY <1>2, <1>3, Starts
<1>5. ProcOK(p, s, op, pmm.owners, Seen(p))
  BY <1>1, Unfolded, IdleFacts
<1>6. Mapped(s, op') /\ Cached(s, op', Seen(p))
  BY <1>1, <1>4, <1>5, PlainMaps, IdleFacts DEF ProcOK, Plain, Unsettled
<1>7. Books(s, op') /\ Charged(p, s, op', pmm.owners)
  BY <1>1, <1>4, <1>5, SameBooks, SameCharges, IdleFacts DEF ProcOK
<1>8. Calling(s, op')
  BY <1>1, <1>3, <1>4 DEF Calling, Committing, RunOf, Progress, Applying, Unsettled
<1> QED  BY <1>1, <1>4, <1>6, <1>7, <1>8, OpStep, IdleFacts DEF ProcOK

LEMMA ExitStarts ==
    ASSUME IInv, NEW p \in Proc, process64_release_slot(p)
    PROVE  IInv'
<1> DEFINE s == space[p]
<1>1. op = Idle /\ cr3 = "kernel" /\ UNCHANGED <<pmm, space, cr3, tlb>> /\ Len(s.mem) = NImage
  BY DEF process64_release_slot, process_memory_check
<1>2. op' = Start("exit", p, 1, 0, "scan")
  BY DEF process64_release_slot
<1>4. op' \in OpType /\ op'.call = "exit" /\ op'.proc = p /\ op'.pc = "scan" /\ op'.got = <<>>
  BY <1>2, Starts
<1>5. ProcOK(p, s, op, pmm.owners, Seen(p))
  BY <1>1, Unfolded, IdleFacts
<1>6. Mapped(s, op') /\ Cached(s, op', Seen(p))
  BY <1>1, <1>4, <1>5, PlainMaps, IdleFacts DEF ProcOK, Plain, Unsettled
<1>7. Books(s, op') /\ Charged(p, s, op', pmm.owners)
  BY <1>1, <1>4, <1>5, SameBooks, SameCharges, IdleFacts DEF ProcOK
<1>8. s.mem # <<>>
  BY <1>1, SpaceAssumption
<1>9. Calling(s, op')
  BY <1>4, <1>8 DEF Calling, Progress, Applying, Unsettled
<1> QED  BY <1>1, <1>4, <1>6, <1>7, <1>9, OpStep, IdleFacts DEF ProcOK

\* What fails before it has touched the tables, or has put them back.
LEMMA FailStep ==
    ASSUME IInv, op.pc \in {"alloc", "stale", "compare", "scan"},
           op' = Fail(op), UNCHANGED <<pmm, space, cr3, tlb>>
    PROVE  IInv'
<1> DEFINE p == op.proc
<1>1. /\ p \in Proc /\ op.call # "none" /\ Types /\ Running /\ op \in OpType
      /\ ProcOK(p, space[p], op, pmm.owners, Seen(p))
  BY CallIsSomebodys
<1>2. ProcOK(p, space[p], op', pmm.owners, Seen(p))
  BY <1>1, FailKeeps
<1>3. CASE op.call \in {"commit", "prepare"}
  <2>1. op' \in OpType /\ op'.call = op.call /\ op'.proc = p
    BY <1>1, <1>3, PcMoves DEF Fail
  <2> QED  BY <1>1, <1>2, <1>3, <2>1, OpStep DEF Running
<1>4. CASE op.call \notin {"commit", "prepare"}
  <2>1. op' = Idle
    BY <1>4 DEF Fail
  <2> QED  BY <1>1, <1>2, <2>1, OpStep, IdleFacts, SpaceAssumption
<1> QED  BY <1>3, <1>4

LEMMA NoFrames == IInv /\ OutOfFrames => IInv'
<1> SUFFICES ASSUME IInv, OutOfFrames PROVE IInv'
  OBVIOUS
<1>1. op.pc = "alloc" /\ op' = [op EXCEPT !.pc = "undo"] /\ UNCHANGED <<pmm, space, cr3, tlb>>
  BY DEF OutOfFrames
<1>2. op.call \in {"commit", "prepare"}
  BY <1>1, CallIsSomebodys DEF ProcOK, Calling, Tearing, Applying, Unsettled, OpType
<1> QED  BY <1>1, <1>2, FailStep DEF Fail

LEMMA Checked == IInv /\ CheckStale => IInv'
<1> SUFFICES ASSUME IInv, CheckStale PROVE IInv'
  OBVIOUS
<1> DEFINE p == op.proc
           s == space[p]
<1>1. op.pc = "stale" /\ UNCHANGED <<pmm, space, cr3, tlb>>
  BY DEF CheckStale
<1>2. /\ p \in Proc /\ op.call # "none" /\ Types /\ Running /\ op \in OpType
      /\ ProcOK(p, space[p], op, pmm.owners, Seen(p))
  BY <1>1, CallIsSomebodys
<1>3. CASE op' = Failed
  BY <1>1, <1>3, FailStep DEF Failed, Fail
<1>4. CASE op' = [op EXCEPT !.pc = "write"]
  <2>1. /\ op' \in OpType /\ op'.pc = "write" /\ op'.call = op.call /\ op'.proc = op.proc
        /\ op'.first = op.first /\ op'.count = op.count /\ op'.got = op.got
        /\ op'.changes = op.changes /\ op'.applied = op.applied
    BY <1>2, <1>4, PcMoves
  <2>2. op.applied = 0 /\ op.changes # <<>>
    BY <1>1, <1>2 DEF ProcOK, Calling, Progress, Applying
  <2>3. Books(s, op') /\ Charged(p, s, op', pmm.owners)
    BY <1>1, <1>2, <2>1, SameBooks, SameCharges DEF ProcOK
  <2>4. Pushed(op') = {} /\ Pulled(op') = {} /\ Pushed(op) = {} /\ Pulled(op) = {}
    BY <1>1, <2>1, <2>2 DEF Pushed, Pulled, Touched, Unsettled
  <2>5. Mapped(s, op')
    BY <1>2, <2>4, SameMaps DEF ProcOK
  <2>6. Cached(s, op', Seen(p))
    BY <1>1, <1>2, <2>1 DEF ProcOK, Cached, Unsettled
  <2>7. Progress(op')
    <3>1. Len(op.changes) \in Nat /\ (Len(op.changes) = 0 => op.changes = <<>>)
      BY <1>2 DEF OpType
    <3> QED  BY <2>1, <2>2, <3>1 DEF Progress, Applying, Unsettled
  <2>8. Calling(s, op')
    BY <1>1, <1>2, <2>1, <2>7, Advances DEF ProcOK, Applying, Unsettled
  <2> QED  BY <1>1, <1>2, <2>1, <2>3, <2>5, <2>6, <2>8, OpStep DEF ProcOK, Running
<1> QED  BY <1>3, <1>4 DEF CheckStale

LEMMA FlushFails == IInv /\ FlushRefused => IInv'
<1> SUFFICES ASSUME IInv, FlushRefused PROVE IInv'
  OBVIOUS
<1> DEFINE p == op.proc
           s == space[p]
<1>1. op.pc = "flush" /\ op' = [op EXCEPT !.pc = "restore"] /\ UNCHANGED <<pmm, space, cr3, tlb>>
  BY DEF FlushRefused
<1>2. /\ p \in Proc /\ op.call # "none" /\ Types /\ Running /\ op \in OpType
      /\ ProcOK(p, space[p], op, pmm.owners, Seen(p))
  BY <1>1, CallIsSomebodys
<1>3. /\ op' \in OpType /\ op'.pc = "restore" /\ op'.call = op.call /\ op'.proc = op.proc
      /\ op'.first = op.first /\ op'.count = op.count /\ op'.got = op.got
      /\ op'.changes = op.changes /\ op'.applied = op.applied
  BY <1>1, <1>2, PcMoves
<1>4. Books(s, op') /\ Charged(p, s, op', pmm.owners)
  BY <1>1, <1>2, <1>3, SameBooks, SameCharges DEF ProcOK
<1>5. Pushed(op') = Pushed(op) /\ Pulled(op') = Pulled(op)
  BY <1>1, <1>3 DEF Pushed, Pulled, Touched, Unsettled
<1>6. Mapped(s, op')
  BY <1>2, <1>3, <1>5, SameMaps DEF ProcOK
<1>7. Cached(s, op', Seen(p))
  BY <1>1, <1>2, <1>3 DEF ProcOK, Cached, Unsettled
<1>8. Progress(op')
  <2>1. Len(op.changes) \in Nat /\ (Len(op.changes) = 0 => op.changes = <<>>)
    BY <1>2 DEF OpType
  <2>2. op.applied = Len(op.changes) /\ op.changes # <<>>
    BY <1>1, <1>2 DEF ProcOK, Calling, Progress, Applying, Unsettled
  <2> QED  BY <1>3, <2>1, <2>2 DEF Progress, Applying, Unsettled
<1>9. Calling(s, op')
  BY <1>1, <1>2, <1>3, <1>8, Advances DEF ProcOK, Applying, Unsettled
<1> QED  BY <1>1, <1>2, <1>3, <1>4, <1>6, <1>7, <1>9, OpStep DEF ProcOK, Running

\* A run whose windows are all free again.
LEMMA RunReleased == IInv /\ Released => IInv'
<1> SUFFICES ASSUME IInv, Released PROVE IInv'
  OBVIOUS
<1> DEFINE p == op.proc
           s == space[p]
<1>1. op.pc = "free" /\ op.count = 0 /\ UNCHANGED <<pmm, space, cr3, tlb>>
  BY DEF Released
<1>2. /\ p \in Proc /\ op.call # "none" /\ Types /\ Running /\ op \in OpType
      /\ ProcOK(p, space[p], op, pmm.owners, Seen(p))
  BY <1>1, CallIsSomebodys
<1>3. Pushed(op) = {} /\ Pulled(op) = {}
  BY <1>1, <1>2 DEF Pushed, Pulled, RunOf, Run, Unsettled, OpType
<1>4. \A t \in Seen(p) : s.pages[t.window] = t.frame
  BY <1>1, <1>2 DEF ProcOK, Cached, Unsettled
<1>5. CASE op.call = "release"
  <2>1. op' = Idle
    BY <1>5 DEF Released
  <2>2. op.got = <<>>
    BY <1>2, <1>5 DEF ProcOK, Calling
  <2>3. Books(s, Idle) /\ Charged(p, s, Idle, pmm.owners)
    BY <1>1, <1>2, <2>2, SameBooks, SameCharges, IdleFacts DEF ProcOK
  <2>4. Pushed(Idle) = {} /\ Pulled(Idle) = {}
    BY IdleFacts DEF Plain, Pushed, Pulled
  <2>5. Mapped(s, Idle) /\ Cached(s, Idle, Seen(p))
    BY <1>2, <1>3, <1>4, <2>4, SameMaps, IdleFacts DEF ProcOK, Cached
  <2> QED  BY <1>1, <1>2, <2>1, <2>3, <2>5, OpStep, IdleFacts, IdleCalls, SpaceAssumption DEF ProcOK
<1>6. CASE op.call # "release"
  <2>1. op' = [op EXCEPT !.pc = "scan"]
    BY <1>6 DEF Released
  <2>2. /\ op' \in OpType /\ op'.pc = "scan" /\ op'.call = op.call /\ op'.proc = op.proc
        /\ op'.got = op.got
    BY <1>2, <2>1, PcMoves
  <2>3. Books(s, op') /\ Charged(p, s, op', pmm.owners)
    BY <1>1, <1>2, <2>2, SameBooks, SameCharges DEF ProcOK
  <2>4. Pushed(op') = {} /\ Pulled(op') = {}
    BY <2>2 DEF Pushed, Pulled, Unsettled
  <2>5. Mapped(s, op') /\ Cached(s, op', Seen(p))
    BY <1>2, <1>3, <1>4, <2>2, <2>4, SameMaps DEF ProcOK, Cached
  <2>6. op.call \in {"exit", "prepare"}
    BY <1>1, <1>2, <1>6 DEF ProcOK, Calling, Committing, Applying, Unsettled, OpType
  <2>7. Calling(s, op')
    BY <1>1, <1>2, <2>2, <2>6 DEF ProcOK, Calling, Progress, Applying, Unsettled
  <2> QED  BY <1>1, <1>2, <2>2, <2>3, <2>5, <2>7, OpStep DEF ProcOK, Running
<1> QED  BY <1>5, <1>6
-----------------------------------------------------------------------------
(* Counting windows.                                                        *)

LEMMA WindowSets ==
    ASSUME NEW S, S \subseteq Window
    PROVE  IsFiniteSet(S) /\ Cardinality(S) \in 0..NWindows /\ (Cardinality(S) = 0 <=> S = {})
<1>1. NWindows \in Nat /\ IsFiniteSet(Window) /\ Cardinality(Window) = NWindows
  BY SpaceAssumption, FS_Interval DEF Window
<1>2. IsFiniteSet(S) /\ Cardinality(S) <= Cardinality(Window)
  BY <1>1, FS_Subset
<1> QED  BY <1>1, <1>2, FS_CardinalityType, FS_EmptySet

LEMMA Together ==
    ASSUME NEW S, NEW T, S \subseteq Window, T \subseteq Window, S \cap T = {}
    PROVE  Cardinality(S \cup T) = Cardinality(S) + Cardinality(T)
<1>1. /\ IsFiniteSet(S) /\ IsFiniteSet(T) /\ Cardinality(S \cap T) = 0
      /\ Cardinality(S) \in Nat /\ Cardinality(T) \in Nat
  BY WindowSets, FS_EmptySet, FS_CardinalityType
<1>2. Cardinality(S \cup T) = Cardinality(S) + Cardinality(T) - Cardinality(S \cap T)
  BY <1>1, FS_Union
<1> QED  BY <1>1, <1>2

LEMMA RunCount ==
    ASSUME NEW first \in Nat, NEW count \in Nat
    PROVE  Cardinality(Run(first, count)) = count
<1>1. Cardinality(first..first + count - 1) =
        IF first > first + count - 1 THEN 0 ELSE first + count - 1 - first + 1
  BY FS_Interval
<1> QED  BY <1>1 DEF Run

\* Unmapping numbers the windows of a run by how many are not above them.
Rank(M, w) == Cardinality({v \in M : v <= w})

LEMMA RankMeets ==
    ASSUME NEW M, M \subseteq Window
    PROVE  /\ \A w \in M : Rank(M, w) \in 1..Cardinality(M)
           /\ \A v, w \in M : Rank(M, v) = Rank(M, w) => v = w
           /\ \A k \in 1..Cardinality(M) : \E w \in M : Rank(M, w) = k
<1>0. /\ IsFiniteSet(M) /\ Cardinality(M) \in Nat /\ M \subseteq Nat
  <2>1. IsFiniteSet(M) /\ Cardinality(M) \in Nat
    BY WindowSets, FS_CardinalityType
  <2>2. M \subseteq Nat
    BY SpaceAssumption DEF Window
  <2> QED  BY <2>1, <2>2
<1>1. ASSUME NEW w \in M PROVE Rank(M, w) \in 1..Cardinality(M)
  <2> DEFINE S == {v \in M : v <= w}
  <2>1. S \subseteq M /\ w \in S
    BY <1>0
  <2>2. IsFiniteSet(S) /\ Cardinality(S) <= Cardinality(M) /\ Cardinality(S) \in Nat
    BY <1>0, <2>1, FS_Subset, FS_CardinalityType
  <2>3. Cardinality(S) # 0
    BY <2>1, <2>2, FS_EmptySet
  <2> QED  BY <1>0, <2>2, <2>3 DEF Rank
<1>2. ASSUME NEW v \in M, NEW w \in M, v < w PROVE Rank(M, v) < Rank(M, w)
  <2> DEFINE S == {u \in M : u <= v}
             T == {u \in M : u <= w}
  <2>0. v \in Nat /\ w \in Nat /\ ~(w <= v)
    BY <1>0, <1>2
  <2>1. S \subseteq T /\ w \in T /\ w \notin S /\ T \subseteq M
    <3>1. ASSUME NEW u \in M, u <= v PROVE u <= w
      <4>1. u \in Nat
        BY <1>0
      <4> QED  BY <2>0, <3>1, <4>1
    <3>2. w <= w
      BY <2>0
    <3> QED  BY <2>0, <3>1, <3>2
  <2>2. IsFiniteSet(T)
    BY <1>0, <2>1, FS_Subset
  <2>3. Cardinality(S) <= Cardinality(T) /\ Cardinality(S) # Cardinality(T)
    BY <2>1, <2>2, FS_Subset
  <2>4. Cardinality(S) \in Nat /\ Cardinality(T) \in Nat
    BY <2>1, <2>2, FS_Subset, FS_CardinalityType
  <2> QED  BY <2>3, <2>4 DEF Rank
<1>3. ASSUME NEW v \in M, NEW w \in M, Rank(M, v) = Rank(M, w) PROVE v = w
  <2>1. v \in Nat /\ w \in Nat /\ Rank(M, v) \in Nat /\ Rank(M, w) \in Nat
    BY <1>0, <1>1
  <2>2. ~(v < w) /\ ~(w < v)
    BY <1>2, <1>3, <2>1
  <2> QED  BY <2>1, <2>2
<1>4. ASSUME NEW k \in 1..Cardinality(M) PROVE \E w \in M : Rank(M, w) = k
  <2> DEFINE f == [w \in M |-> Rank(M, w)]
             T == 1..Cardinality(M)
  <2>1. IsFiniteSet(T) /\ Cardinality(T) = Cardinality(M)
    BY <1>0, FS_Interval
  <2>2. f \in Injection(M, T)
    BY <1>1, <1>3 DEF Injection, IsInjective
  <2>3. f \in Surjection(M, T)
    BY <2>1, <2>2, FS_Injection
  <2> QED  BY <2>3 DEF Surjection
<1> QED  BY <1>1, <1>3, <1>4
-----------------------------------------------------------------------------
(* The steps of a process's memory, in general.                             *)

LEMMA Step ==
    ASSUME IInv, NEW p \in Proc, op.proc \in {p, "kernel"}, op' \in OpType,
           op'.proc \in {p, "kernel"}, op'.proc = p <=> op'.call # "none",
           op'.call = "none" => op' = Idle,
           op'.call \in {"commit", "release"} => cr3 = p,
           op'.call \in {"prepare", "exit"} => cr3 = "kernel",
           NEW s1 \in SpaceType, space' = [space EXCEPT ![p] = s1], cr3 = p => s1.mem # <<>>,
           cr3' = cr3, tlb' \subseteq Translation, cr3 = p \/ tlb' = tlb,
           Good(pmm'),
           \A f \in 1..NPages : pmm'.owners[f] # pmm.owners[f] =>
                {pmm.owners[f], pmm'.owners[f]} \subseteq {"free", ImageOwner[p], AnonOwner[p]},
           ProcOK(p, s1, op', pmm'.owners, Seen(p)')
    PROVE  IInv'
<1>1. Types /\ Running /\ "kernel" \notin Proc
  BY SpaceAssumption DEF IInv
<1>2. space'[p] = s1 /\ \A q \in Proc \ {p} : space'[q] = space[q]
  BY <1>1 DEF Types
<1>3. Types'
  BY <1>1 DEF Types
<1>4. Running'
  <2>1. cr3' \in Proc => space'[cr3'].mem # <<>>
    BY <1>1, <1>2 DEF Running
  <2>2. cr3' = "kernel" => tlb' = {}
    BY <1>1 DEF Running
  <2>3. op'.proc \in Proc <=> op'.call # "none"
    BY <1>1
  <2>4. op'.call # "none" => op'.proc = p
    OBVIOUS
  <2> QED  BY <2>1, <2>2, <2>3, <2>4, <1>1 DEF Running
<1>5. \A q \in Proc \ {p} : Seen(q)' \subseteq Seen(q)
  BY DEF Seen
<1> QED  BY <1>2, <1>3, <1>4, <1>5, Assemble
-----------------------------------------------------------------------------
(* Teardowns.                                                               *)

LEMMA UnmappingShape ==
    ASSUME NEW p \in Proc, NEW o \in OpType, o.proc = p, space[p] \in SpaceType,
           NEW first \in Nat, NEW count \in Nat, Run(first, count) \subseteq Window,
           \A w \in Run(first, count) : space[p].states[w] = "committed" =>
                space[p].entries[w].frame = space[p].pages[w]
    PROVE  LET o1 == Unmapping(o, first, count) IN
           /\ o1 \in OpType /\ o1.call = o.call /\ o1.proc = p /\ o1.got = o.got
           /\ o1.first = first /\ o1.count = count /\ o1.applied = 0
           /\ \/ o1.pc = "stale" /\ o1.changes # <<>> /\ Unmaps(space[p], o1)
              \/ /\ o1.pc = "free"
                 /\ \A w \in Run(first, count) : space[p].states[w] # "committed"
<1> DEFINE s == space[p]
           M == {w \in Run(first, count) : s.states[w] = "committed"}
           Nth(k) == CHOOSE w \in M : Cardinality({v \in M : v <= w}) = k
           m == Cardinality(M)
           ch == [k \in 1..m |-> [window |-> Nth(k), before |-> s.entries[Nth(k)], after |-> Absent]]
           pc1 == IF M = {} THEN "free" ELSE "stale"
           o1 == Unmapping(o, first, count)
<1>1. M \subseteq Window /\ m \in Nat /\ (m = 0 <=> M = {})
  BY WindowSets, SpaceAssumption
<1>2. \A k \in 1..m : Nth(k) \in M /\ Rank(M, Nth(k)) = k
  <2> SUFFICES ASSUME NEW k \in 1..m PROVE Nth(k) \in M /\ Rank(M, Nth(k)) = k
    OBVIOUS
  <2>1. \E w \in M : Rank(M, w) = k
    <3> HIDE DEF M
    <3> QED  BY <1>1, RankMeets
  <2> QED  BY <2>1 DEF Rank
<1>3. \A w \in M : \E k \in 1..m : Nth(k) = w
  <2> HIDE DEF M, Nth, m
  <2>1. m = Cardinality(M)
    BY DEF m
  <2> SUFFICES ASSUME NEW w \in M PROVE \E k \in 1..m : Nth(k) = w
    OBVIOUS
  <2>2. Rank(M, w) \in 1..m
    BY <1>1, <2>1, RankMeets
  <2>3. Nth(Rank(M, w)) \in M /\ Rank(M, Nth(Rank(M, w))) = Rank(M, w)
    BY <1>2, <2>2
  <2>4. Nth(Rank(M, w)) = w
    BY <1>1, <2>3, RankMeets
  <2> QED  BY <2>2, <2>4
<1>4. o1 = [o EXCEPT !.first = first, !.count = count, !.applied = 0, !.pc = pc1, !.changes = ch]
  BY DEF Unmapping
<1>5. \A w \in M : w \in Window /\ s.entries[w] \in Entry64 /\ s.states[w] = "committed"
                   /\ w \in Run(first, count)
  BY <1>1 DEF SpaceType
<1> HIDE DEF M, Nth, m
<1>6. Absent \in Entry64
  BY SpaceAssumption DEF Absent, Entry64
<1>7. ch \in [1..m -> Change]
  BY <1>2, <1>5, <1>6 DEF Change
<1>8. ch \in Seq(Change) /\ DOMAIN ch = 1..m
  BY <1>1, <1>7, SeqDef
<1>9. \A k \in 1..m : ch[k].window = Nth(k) /\ ch[k].before = s.entries[Nth(k)] /\ ch[k].after = Absent
  OBVIOUS
<1>10. pc1 \in {"free", "stale"}
  OBVIOUS
<1> HIDE DEF ch, pc1, o1
<1>11. /\ o1 \in OpType /\ o1.call = o.call /\ o1.proc = p /\ o1.got = o.got
       /\ o1.first = first /\ o1.count = count /\ o1.applied = 0 /\ o1.pc = pc1 /\ o1.changes = ch
  BY <1>4, <1>8, <1>10 DEF OpType, Applying, Unsettled
<1>12. CASE M = {}
  <2>1. \A w \in Run(first, count) : s.states[w] # "committed"
    BY <1>12 DEF M
  <2> QED  BY <1>11, <1>12, <2>1 DEF pc1, o1
<1>13. CASE M # {}
  <2>1. 1 \in DOMAIN ch /\ ch # <<>>
    <3>1. 1 \in 1..m
      BY <1>1, <1>13
    <3>2. 1 \notin DOMAIN <<>>
      OBVIOUS
    <3> QED  BY <1>8, <3>1, <3>2
  <2>2. RunOf(o1) = Run(first, count)
    BY <1>11 DEF RunOf
  <2>3. \A k \in DOMAIN ch : /\ ch[k].window \in RunOf(o1) /\ s.states[ch[k].window] = "committed"
                             /\ ch[k].before.frame = s.pages[ch[k].window] /\ ch[k].after = Absent
    BY <1>2, <1>5, <1>8, <1>9, <2>2
  <2>4. \A w \in RunOf(o1) : s.states[w] = "committed" => \E k \in DOMAIN ch : ch[k].window = w
    <3>1. \A w \in RunOf(o1) : s.states[w] = "committed" => w \in M
      BY <2>2 DEF M
    <3> QED  BY <1>3, <1>8, <1>9, <3>1
  <2>5. \A j, k \in DOMAIN ch : ch[j].window = ch[k].window => j = k
    BY <1>2, <1>8, <1>9
  <2>6. Unmaps(s, o1)
    BY <1>11, <2>3, <2>4, <2>5 DEF Unmaps
  <2> QED  BY <1>11, <1>13, <2>1, <2>6 DEF pc1, o1
<1> QED  BY <1>12, <1>13

\* From a call that has not touched the tables to its teardown.
LEMMA TeardownBegins ==
    ASSUME NEW p, NEW s \in SpaceType, NEW o, NEW o1 \in OpType, NEW owners, NEW T,
           T \subseteq Translation, ProcOK(p, s, o, owners, T), Plain(o), o.pc # "unimage",
           o1.got = o.got, o1.call = o.call \/ o.got = <<>>,
           o1.call \in {"release", "exit", "prepare"},
           RunOf(o1) \subseteq Window, \A w \in RunOf(o1) : s.states[w] \in {"reserved", "committed"},
           o1.applied = 0, s.mem # <<>>,
           IF o1.call = "prepare" THEN Len(o1.got) = NImage ELSE o1.got = <<>>,
           \/ o1.pc = "stale" /\ o1.changes # <<>> /\ Unmaps(s, o1)
           \/ o1.pc = "free" /\ \A w \in RunOf(o1) : s.states[w] # "committed"
    PROVE  ProcOK(p, s, o1, owners, T)
<1>1. Books(s, o1) /\ Charged(p, s, o1, owners)
  BY SameBooks, SameCharges DEF ProcOK
<1>2. Pushed(o) = {} /\ Pulled(o) = {} /\ Pushed(o1) = {}
  BY DEF Plain, Pushed, Pulled, Unsettled
<1>3. Calling(s, o1)
  <2>1. Progress(o1)
    BY DEF Progress, Applying, Unsettled
  <2>2. Tearing(s, o1)
    BY DEF Tearing, Applying, Unsettled
  <2>3. o1.pc \in {"stale", "free"} /\ NImage \in Nat
    BY SpaceAssumption
  <2> QED  BY <2>1, <2>2, <2>3 DEF Calling
<1>4. CASE o1.pc = "stale"
  <2>1. Mapped(s, o1) /\ Cached(s, o1, T)
    BY <1>4, PlainMaps DEF ProcOK, Plain, Unsettled
  <2> QED  BY <1>1, <1>3, <2>1 DEF ProcOK
<1>5. CASE o1.pc = "free" /\ \A w \in RunOf(o1) : s.states[w] # "committed"
  <2>1. Mapped(s, o1)
    BY <1>2, <1>5 DEF ProcOK, Mapped, Pulled
  <2>2. \A w \in RunOf(o1) : s.states[w] = "reserved" /\ s.pages[w] = 0
    BY <1>5 DEF ProcOK, Books
  <2>3. Cached(s, o1, T)
    <3> SUFFICES ASSUME NEW t \in T PROVE s.pages[t.window] = t.frame /\ t.window \notin RunOf(o1)
      BY DEF Cached
    <3>1. s.pages[t.window] = t.frame
      BY DEF ProcOK, Cached, Plain
    <3>2. t.frame # 0
      BY SpaceAssumption DEF Translation
    <3> QED  BY <2>2, <3>1, <3>2
  <2> QED  BY <1>1, <1>3, <2>1, <2>3 DEF ProcOK
<1> QED  BY <1>4, <1>5

LEMMA ReleaseStarts ==
    ASSUME IInv, NEW p \in Proc, NEW first \in Window, NEW count \in 1..NWindows - first + 1,
           anon_memory_release(p, first, count)
    PROVE  IInv'
<1> DEFINE s == space[p]
           o == Start("release", p, first, count, "free")
<1>1. /\ op = Idle /\ cr3 = p /\ UNCHANGED <<pmm, space, cr3, tlb>>
      /\ \A w \in Run(first, count) : s.states[w] \in {"reserved", "committed"}
      /\ op' = Unmapping(o, first, count)
  BY DEF anon_memory_release, Syscall
<1>2. NWindows \in Nat /\ first \in Nat /\ count \in Nat /\ Run(first, count) \subseteq Window
  BY SpaceAssumption DEF Window, Run
<1>3. /\ ProcOK(p, s, op, pmm.owners, Seen(p)) /\ Types /\ Running /\ s \in SpaceType
      /\ Seen(p) \subseteq Translation
  BY <1>1, Unfolded, IdleFacts DEF Seen, Types
<1>4. o \in OpType /\ o.call = "release" /\ o.proc = p /\ o.got = <<>>
  BY <1>2, IdleFacts DEF Start, Idle, OpType
<1>5. s.mem # <<>>
  BY <1>1, <1>3 DEF Running
<1>6. \A w \in Window : s.states[w] = "committed" => s.entries[w].frame = s.pages[w]
  BY <1>1, <1>3, IdleFacts DEF ProcOK, Mapped, Pulled, Plain
<1> HIDE DEF o
<1>7. /\ op' \in OpType /\ op'.call = "release" /\ op'.proc = p /\ op'.got = <<>>
      /\ op'.applied = 0 /\ RunOf(op') = Run(first, count)
      /\ \/ op'.pc = "stale" /\ op'.changes # <<>> /\ Unmaps(s, op')
         \/ op'.pc = "free" /\ \A w \in Run(first, count) : s.states[w] # "committed"
  <2>1. \A w \in Run(first, count) : s.states[w] = "committed" => s.entries[w].frame = s.pages[w]
    BY <1>2, <1>6
  <2> QED  BY <1>1, <1>2, <1>3, <1>4, <2>1, UnmappingShape DEF RunOf
<1>8. ProcOK(p, s, op', pmm.owners, Seen(p))
  BY <1>1, <1>2, <1>3, <1>5, <1>7, TeardownBegins, IdleFacts
<1> QED  BY <1>1, <1>7, <1>8, OpStep, IdleFacts

\* anon_memory_destroy finds the first run of windows that are not free.
LEMMA FirstRun ==
    ASSUME NEW B, B \subseteq Window, B # {}
    PROVE  LET first == CHOOSE w \in B : \A v \in B : w <= v
               count == CHOOSE n \in 1..NWindows : Run(first, n) \subseteq B /\ first + n \notin B
           IN  first \in Nat /\ count \in Nat /\ Run(first, count) \subseteq B
<1> DEFINE first == CHOOSE w \in B : \A v \in B : w <= v
           count == CHOOSE n \in 1..NWindows : Run(first, n) \subseteq B /\ first + n \notin B
<1>1. NWindows \in Nat /\ B \subseteq Nat
  BY SpaceAssumption DEF Window
<1>2. \E w \in B : \A v \in B : w <= v
  BY <1>1, PagesAssumed, Pages!LeastExists
<1>3. first \in B
  BY <1>2
<1> HIDE DEF first
<1>4. first \in 1..NWindows
  BY <1>3 DEF Window
<1> DEFINE G == {n \in Nat : first + n \notin B}
<1>5. NWindows + 1 - first \in G
  <2>1. first + (NWindows + 1 - first) \notin Window /\ NWindows + 1 - first \in Nat
    BY <1>1, <1>4 DEF Window
  <2> QED  BY <2>1
<1>6. \E n \in G : \A k \in G : n <= k
  <2>1. G \subseteq Nat /\ G # {}
    BY <1>5
  <2> HIDE DEF G
  <2> QED  BY <2>1, PagesAssumed, Pages!LeastExists
<1>7. PICK n \in G : \A k \in G : n <= k
  BY <1>6
<1>8. n # 0
  BY <1>3, <1>4, <1>7
<1>9. n \in 1..NWindows
  BY <1>1, <1>4, <1>5, <1>7, <1>8
<1>10. Run(first, n) \subseteq B
  <2> SUFFICES ASSUME NEW w \in first..first + n - 1 PROVE w \in B
    BY DEF Run
  <2>1. w - first \in Nat /\ w - first < n /\ first + (w - first) = w
    BY <1>4, <1>9
  <2> QED  BY <1>1, <1>7, <1>9, <2>1
<1>11. first + n \notin B
  BY <1>7
<1>12. count \in 1..NWindows /\ Run(first, count) \subseteq B
  BY <1>9, <1>10, <1>11
<1> HIDE DEF count
<1>13. first \in Nat /\ count \in Nat /\ Run(first, count) \subseteq B
  BY <1>1, <1>4, <1>12
<1> QED  BY <1>13 DEF first, count

LEMMA Scanned == IInv /\ Scan => IInv'
<1> SUFFICES ASSUME IInv, Scan PROVE IInv'
  OBVIOUS
<1> DEFINE p == op.proc
           s == space[p]
           busy == Window \ InState(s, "free")
           first == CHOOSE w \in busy : \A v \in busy : w <= v
           count == CHOOSE n \in 1..NWindows : Run(first, n) \subseteq busy /\ first + n \notin busy
<1>1. op.pc = "scan" /\ UNCHANGED <<pmm, space, cr3, tlb>>
  BY DEF Scan
<1>2. /\ p \in Proc /\ op.call # "none" /\ Types /\ Running /\ op \in OpType /\ s \in SpaceType
      /\ ProcOK(p, s, op, pmm.owners, Seen(p))
  BY <1>1, CallIsSomebodys
<1>3. CASE ~Destroyable(p)
  <2>1. op' = Failed
    BY <1>3 DEF Scan
  <2> QED  BY <1>1, <2>1, FailStep DEF Failed, Fail
<1>4. op.call \in {"exit", "prepare"} /\ s.mem # <<>> /\ Plain(op)
      /\ IF op.call = "prepare" THEN Len(op.got) = NImage ELSE op.got = <<>>
  BY <1>1, <1>2 DEF ProcOK, Calling, Committing, Tearing, Plain, Applying, Unsettled, OpType
<1>5. CASE Destroyable(p) /\ busy = {}
  <2>1. op' = [op EXCEPT !.pc = "unimage"]
    BY <1>5 DEF Scan
  <2>2. /\ op' \in OpType /\ op'.pc = "unimage" /\ op'.call = op.call /\ op'.proc = op.proc
        /\ op'.got = op.got
    BY <1>2, <2>1, PcMoves
  <2>3. Books(s, op') /\ Charged(p, s, op', pmm.owners)
    BY <1>1, <1>2, <2>2, SameBooks, SameCharges DEF ProcOK
  <2>4. Mapped(s, op') /\ Cached(s, op', Seen(p))
    BY <1>2, <1>4, <2>2, PlainMaps DEF ProcOK, Plain, Unsettled
  <2>5. \A w \in Window : s.states[w] = "free"
    BY <1>5 DEF InState
  <2>6. NImage \in Nat
    BY SpaceAssumption
  <2>7. Calling(s, op')
    BY <1>4, <2>2, <2>5, <2>6 DEF Calling, Progress, Applying, Unsettled
  <2> QED  BY <1>1, <1>2, <2>2, <2>3, <2>4, <2>7, OpStep DEF ProcOK, Running
<1>6. CASE Destroyable(p) /\ busy # {}
  <2>1. op' = Unmapping(op, first, count)
    BY <1>6 DEF Scan
  <2>2. first \in Nat /\ count \in Nat /\ Run(first, count) \subseteq busy
    <3> HIDE DEF busy
    <3>1. busy \subseteq Window
      BY DEF busy
    <3> QED  BY <1>6, <3>1, FirstRun
  <2> HIDE DEF first, count
  <2>3. InState(s, "broken") = {}
    <3>1. s.broken = 0 /\ s.broken = Cardinality(InState(s, "broken"))
      BY <1>2, <1>6 DEF Destroyable, ProcOK, Books
    <3>2. InState(s, "broken") \subseteq Window
      BY DEF InState
    <3> QED  BY <3>1, <3>2, WindowSets
  <2>4. Run(first, count) \subseteq Window
        /\ \A w \in Run(first, count) : s.states[w] \in {"reserved", "committed"}
    BY <1>2, <2>2, <2>3 DEF InState, SpaceType
  <2>5. \A w \in Window : s.states[w] = "committed" => s.entries[w].frame = s.pages[w]
    BY <1>2, <1>4 DEF ProcOK, Mapped, Pulled, Plain
  <2>6. /\ op' \in OpType /\ op'.call = op.call /\ op'.proc = p /\ op'.got = op.got
        /\ op'.applied = 0 /\ RunOf(op') = Run(first, count)
        /\ \/ op'.pc = "stale" /\ op'.changes # <<>> /\ Unmaps(s, op')
           \/ op'.pc = "free" /\ \A w \in Run(first, count) : s.states[w] # "committed"
    BY <1>2, <2>1, <2>2, <2>4, <2>5, UnmappingShape DEF RunOf
  <2>7. Seen(p) \subseteq Translation
    BY <1>2 DEF Seen, Types
  <2>8. ProcOK(p, s, op', pmm.owners, Seen(p))
    BY <1>1, <1>2, <1>4, <2>4, <2>6, <2>7, TeardownBegins
  <2> QED  BY <1>1, <1>2, <2>6, <2>8, OpStep DEF Running
<1> QED  BY <1>3, <1>5, <1>6
-----------------------------------------------------------------------------
(* Frames taken, given back and changing hands.                             *)

LEMMA ReserveKeeps ==
    ASSUME IInv, NEW p \in Proc, NEW first \in Window, NEW count \in 1..NWindows - first + 1,
           anon_memory_reserve(p, first, count)
    PROVE  IInv'
<1> DEFINE s == space[p]
           st == [w \in Window |-> IF w \in Run(first, count) THEN "reserved" ELSE s.states[w]]
           s1 == [s EXCEPT !.states = st, !.reserved = @ + count]
<1>1. /\ op = Idle /\ cr3 = p /\ UNCHANGED <<pmm, cr3, tlb, op>>
      /\ \A w \in Run(first, count) : s.states[w] = "free" /\ s.entries[w] = Absent
  BY DEF anon_memory_reserve, Syscall
<1>2. /\ NWindows \in Nat /\ first \in Nat /\ count \in Nat /\ count \in 1..NWindows
      /\ Run(first, count) \subseteq Window
  BY SpaceAssumption DEF Window, Run
<1>3. /\ ProcOK(p, s, op, pmm.owners, Seen(p)) /\ Types /\ Running /\ s \in SpaceType
  BY <1>1, Unfolded, IdleFacts
<1>4. space' = [space EXCEPT ![p] = s1]
  BY <1>3 DEF anon_memory_reserve, Types
<1>5. st \in [Window -> {"free", "reserved", "committed", "broken"}]
  BY <1>3 DEF SpaceType
<1>6. /\ s1.mem = s.mem /\ s1.states = st /\ s1.pages = s.pages /\ s1.entries = s.entries
      /\ s1.reserved = s.reserved + count /\ s1.committed = s.committed /\ s1.broken = s.broken
  BY <1>3 DEF SpaceType
<1>7. /\ InState(s1, "committed") = InState(s, "committed")
      /\ InState(s1, "broken") = InState(s, "broken")
      /\ Window \ InState(s1, "free") = (Window \ InState(s, "free")) \cup Run(first, count)
      /\ (Window \ InState(s, "free")) \cap Run(first, count) = {}
  BY <1>1, <1>2, <1>6 DEF InState
<1>8. s1.reserved = Cardinality(Window \ InState(s1, "free"))
  <2>1. Cardinality(Window \ InState(s1, "free")) =
            Cardinality(Window \ InState(s, "free")) + Cardinality(Run(first, count))
    BY <1>2, <1>7, Together
  <2> QED  BY <1>2, <1>3, <1>6, <2>1, RunCount DEF ProcOK, Books
<1>9. s1 \in SpaceType
  <2>1. s.reserved + count \in 0..NWindows
    BY <1>6, <1>8, WindowSets
  <2> QED  BY <1>3, <1>5, <2>1 DEF SpaceType
<1>10. s.mem # <<>>
  BY <1>1, <1>3 DEF Running
<1> HIDE DEF s1, st
<1>11. Books(s1, op)
  <2>1. \A w \in Window : s1.pages[w] = 0 <=> s1.states[w] \in {"free", "reserved"}
    BY <1>1, <1>3, <1>6 DEF ProcOK, Books, st
  <2> QED  BY <1>3, <1>6, <1>7, <1>8, <1>10, <2>1 DEF ProcOK, Books
<1>12. Charged(p, s1, op, pmm.owners)
  BY <1>3, <1>6 DEF ProcOK, Charged
<1>13. Pushed(op) = {} /\ Pulled(op) = {}
  BY <1>1, IdleFacts DEF Plain, Pushed, Pulled
<1>14. Mapped(s1, op)
  BY <1>1, <1>3, <1>6, <1>13 DEF ProcOK, Mapped, st
<1>15. Cached(s1, op, Seen(p))
  BY <1>3, <1>6 DEF ProcOK, Cached
<1>16. ProcOK(p, s1, op', pmm'.owners, Seen(p)')
  BY <1>1, <1>11, <1>12, <1>14, <1>15, IdleCalls DEF ProcOK, Seen
<1>17. tlb \subseteq Translation /\ Good(pmm) /\ op \in OpType
  BY <1>3 DEF Types
<1>18. op'.proc = "kernel" /\ op.proc = "kernel" /\ op'.call = "none" /\ p # "kernel" /\ op' = Idle
  BY <1>1, IdleFacts, SpaceAssumption
<1>19. pmm' = pmm /\ tlb' = tlb /\ cr3' = cr3 /\ s1.mem # <<>> /\ op' \in OpType
  BY <1>1, <1>6, <1>10, <1>17
<1> QED  BY <1>1, <1>4, <1>9, <1>16, <1>17, <1>18, <1>19, Step

LEMMA PrepareStarts ==
    ASSUME IInv, NEW p \in Proc, process64_prepare(p)
    PROVE  IInv'
<1> DEFINE s == space[p]
<1>1. op = Idle /\ cr3 = "kernel" /\ UNCHANGED <<space, cr3, tlb>>
  BY DEF process64_prepare
<1>2. op' = Start("prepare", p, 1, NImage, "alloc")
  BY DEF process64_prepare
<1>3. NImage \in Nat \ {0}
  BY SpaceAssumption
<1>4. /\ op' \in OpType /\ op'.call = "prepare" /\ op'.proc = p /\ op'.pc = "alloc"
      /\ op'.got = <<>> /\ op'.count = NImage /\ op'.applied = 0
  <2> DEFINE o1 == Start("prepare", p, 1, NImage, "alloc")
  <2>1. /\ o1 \in OpType /\ o1.call = "prepare" /\ o1.proc = p /\ o1.pc = "alloc"
        /\ o1.got = <<>> /\ o1.count = NImage /\ o1.applied = 0
    BY <1>3, IdleFacts DEF Start, Idle, OpType
  <2> QED  BY <1>2, <2>1
<1>5. /\ ProcOK(p, s, op, pmm.owners, Seen(p)) /\ Types /\ Running /\ s \in SpaceType
  BY <1>1, Unfolded, IdleFacts
<1>6. Good(pmm') /\ pmm'.owners = pmm.owners
  BY <1>5, LimitsSet DEF process64_prepare, Types
<1>7. Mapped(s, op') /\ Cached(s, op', Seen(p))
  BY <1>1, <1>4, <1>5, PlainMaps, IdleFacts DEF ProcOK, Plain, Unsettled
<1>8. Books(s, op') /\ Charged(p, s, op', pmm.owners)
  BY <1>1, <1>4, <1>5, SameBooks, SameCharges, IdleFacts DEF ProcOK
<1>9. Calling(s, op')
  <2>1. Len(op'.got) = 0
    BY <1>4
  <2>2. op'.pc = "alloc" /\ op'.applied = 0 /\ op'.got = <<>> /\ op'.call = "prepare"
    BY <1>4
  <2>3. Progress(op')
    BY <2>2 DEF Progress, Applying, Unsettled
  <2> QED  BY <1>3, <1>4, <2>1, <2>2, <2>3 DEF Calling, Applying, Unsettled
<1>10. ProcOK(p, s, op', pmm'.owners, Seen(p)')
  BY <1>1, <1>6, <1>7, <1>8, <1>9 DEF ProcOK, Seen
<1>11. space' = [space EXCEPT ![p] = s] /\ tlb \subseteq Translation /\ cr3 # p
  BY <1>1, <1>5, SpaceAssumption DEF Types
<1> QED  BY <1>1, <1>4, <1>5, <1>6, <1>10, <1>11, Step, IdleFacts

LEMMA AppendShape ==
    ASSUME NEW S, NEW q \in Seq(S), NEW e \in S
    PROVE  /\ Len(q) \in Nat /\ DOMAIN q = 1..Len(q)
           /\ Append(q, e) \in Seq(S) /\ Len(Append(q, e)) = Len(q) + 1
           /\ DOMAIN Append(q, e) = 1..Len(q) + 1
           /\ \A i \in 1..Len(q) : Append(q, e)[i] = q[i] /\ q[i] \in S
           /\ Append(q, e)[Len(q) + 1] = e
<1>1. /\ Append(q, e) \in Seq(S) /\ Len(Append(q, e)) = Len(q) + 1
      /\ \A i \in 1..Len(q) : Append(q, e)[i] = q[i]
      /\ Append(q, e)[Len(q) + 1] = e
  BY AppendProperties
<1> QED  BY <1>1, LenProperties

\* The frame the call takes next is nobody's.
LEMMA ChargeMore ==
    ASSUME NEW p \in Proc, NEW s \in SpaceType, NEW o \in OpType, NEW o1, NEW owners, NEW owners1,
           NEW payer, payer = (IF o.call = "prepare" THEN ImageOwner ELSE AnonOwner)[p],
           NEW f \in 1..NPages, Charged(p, s, o, owners), owners[f] = "free",
           o.call \in {"commit", "prepare"}, o1.call = o.call, o1.got = Append(o.got, f),
           \A g \in 1..NPages : owners1[g] = IF g = f THEN payer ELSE owners[g]
    PROVE  Charged(p, s, o1, owners1)
<1>1. ImageOwner[p] # AnonOwner[p] /\ ImageOwner[p] # "free" /\ AnonOwner[p] # "free"
  BY OwnersDiffer
<1>2. /\ o.got \in Seq(1..NPages) /\ o1.got \in Seq(1..NPages) /\ Len(o.got) \in Nat
      /\ DOMAIN o.got = 1..Len(o.got) /\ DOMAIN o1.got = 1..Len(o.got) + 1
      /\ \A i \in 1..Len(o.got) : o1.got[i] = o.got[i] /\ o.got[i] \in 1..NPages
      /\ o1.got[Len(o.got) + 1] = f
  <2>1. o.got \in Seq(1..NPages)
    BY DEF OpType
  <2> DEFINE q == o.got
             q1 == Append(q, f)
  <2>2. /\ Len(q) \in Nat /\ DOMAIN q = 1..Len(q) /\ q1 \in Seq(1..NPages)
        /\ DOMAIN q1 = 1..Len(q) + 1
        /\ \A i \in 1..Len(q) : q1[i] = q[i] /\ q[i] \in 1..NPages
        /\ q1[Len(q) + 1] = f
    <3> DEFINE S == 1..NPages
    <3> HIDE DEF q, S
    <3>1. q \in Seq(S) /\ f \in S
      BY <2>1 DEF q, S
    <3>2. /\ Len(q) \in Nat /\ DOMAIN q = 1..Len(q) /\ Append(q, f) \in Seq(S)
          /\ DOMAIN Append(q, f) = 1..Len(q) + 1
          /\ \A i \in 1..Len(q) : Append(q, f)[i] = q[i] /\ q[i] \in S
          /\ Append(q, f)[Len(q) + 1] = f
      BY <3>1, AppendShape
    <3> QED  BY <3>2 DEF S
  <2>3. o1.got = q1
    OBVIOUS
  <2> QED  BY <2>1, <2>2, <2>3
<1>3. /\ \A w \in Window : s.pages[w] # f
      /\ o.call = "commit" => \A i \in DOMAIN o.got : o.got[i] # f
      /\ \A i \in DOMAIN s.mem : s.mem[i] # f
      /\ o.call = "prepare" => \A i \in DOMAIN o.got : o.got[i] # f
  BY <1>1 DEF Charged
<1>4. \A i \in DOMAIN o.got : o.got[i] # f
  BY <1>3
<1>5. \A g \in 1..NPages : (\E i \in DOMAIN o1.got : o1.got[i] = g) <=>
                            (g = f \/ \E i \in DOMAIN o.got : o.got[i] = g)
  BY <1>2
<1>6. \A g \in 1..NPages : owners1[g] = AnonOwner[p] <=>
        \/ \E w \in Window : s.pages[w] = g
        \/ o1.call = "commit" /\ \E i \in DOMAIN o1.got : o1.got[i] = g
  BY <1>1, <1>3, <1>5 DEF Charged
<1>7. \A g \in 1..NPages : owners1[g] = ImageOwner[p] <=>
        \/ \E i \in DOMAIN s.mem : s.mem[i] = g
        \/ o1.call = "prepare" /\ \E i \in DOMAIN o1.got : o1.got[i] = g
  BY <1>1, <1>3, <1>5 DEF Charged
<1>8. \A i, j \in DOMAIN o1.got : o1.got[i] = o1.got[j] => i = j
  <2>1. \A i, j \in DOMAIN o.got : o.got[i] = o.got[j] => i = j
    BY DEF Charged
  <2> QED  BY <1>2, <1>4, <2>1
<1>9. o1.call = "commit" => \A w \in Window, i \in DOMAIN o1.got : s.pages[w] # o1.got[i]
  BY <1>2, <1>3 DEF Charged
<1>10. o1.call = "prepare" => \A i \in DOMAIN s.mem, j \in DOMAIN o1.got : s.mem[i] # o1.got[j]
  BY <1>2, <1>3 DEF Charged
<1> QED  BY <1>6, <1>7, <1>8, <1>9, <1>10 DEF Charged

LEMMA Taken == IInv /\ TakeFrame => IInv'
<1> SUFFICES ASSUME IInv, TakeFrame PROVE IInv'
  OBVIOUS
<1>0. PICK p \in Proc : p = op.proc
  BY CallIsSomebodys DEF TakeFrame
<1> DEFINE s == space[p]
           f == Frames!AllocPage(pmm, Payer)
           got == Append(op.got, f)
<1>1. /\ op.pc = "alloc" /\ f # 0 /\ pmm' = Frames!AfterAlloc(pmm, Payer)
      /\ UNCHANGED <<space, cr3, tlb>>
  BY DEF TakeFrame
<1>2. /\ op.proc = p /\ op.call # "none" /\ Types /\ Running /\ op \in OpType /\ s \in SpaceType
      /\ ProcOK(p, s, op, pmm.owners, Seen(p))
  BY <1>0, <1>1, CallIsSomebodys
<1>3. op.call \in {"commit", "prepare"}
  BY <1>1, <1>2 DEF ProcOK, Calling, Tearing, Applying, Unsettled, OpType
<1>4. Payer \in Owner /\ Payer = (IF op.call = "prepare" THEN ImageOwner ELSE AnonOwner)[p]
  BY <1>2, OwnersDiffer DEF Payer
<1>5. /\ Good(pmm') /\ f \in 1..NPages /\ pmm.owners[f] = "free"
      /\ pmm'.owners = [pmm.owners EXCEPT ![f] = Payer]
  BY <1>1, <1>2, <1>4, FrameTaken DEF Types
<1>6. op' = IF Len(got) < op.count THEN [op EXCEPT !.got = got]
            ELSE IF op.call = "commit"
            THEN [op EXCEPT !.got = got, !.changes = Mapping(got), !.pc = "stale"]
            ELSE [op EXCEPT !.got = got,
                    !.pc = IF space[op.proc].mem = <<>> THEN "publish" ELSE "scan"]
  BY DEF TakeFrame
<1> HIDE DEF f
<1>7. DOMAIN pmm.owners = 1..NPages
  BY <1>2 DEF Types, Good, Pages!Good, Pages!StateOK, Pages!Page
<1>8. \A g \in 1..NPages : pmm'.owners[g] = IF g = f THEN Payer ELSE pmm.owners[g]
  BY <1>5, <1>7
<1>9. got \in Seq(1..NPages) /\ Len(got) = Len(op.got) + 1 /\ Len(op.got) \in Nat /\ op.count \in Nat
  <2>1. op.got \in Seq(1..NPages) /\ op.count \in Nat
    BY <1>2 DEF OpType
  <2> QED  BY <1>5, <2>1, AppendShape
<1>10. Seen(p)' = Seen(p)
  BY <1>1 DEF Seen
<1>11. ASSUME op' \in OpType, op'.call = op.call, op'.proc = op.proc, op'.got = got,
              op'.pc \in {"alloc", "stale", "publish", "scan"}, Calling(s, op')
       PROVE  IInv'
  <2>1. Books(s, op')
    BY <1>1, <1>2, SameBooks DEF ProcOK
  <2>2. Charged(p, s, op', pmm'.owners)
    <3> DEFINE owners0 == pmm.owners
               owners1 == pmm'.owners
               payer == Payer
    <3>1. \A g \in 1..NPages : owners1[g] = IF g = f THEN payer ELSE owners0[g]
      BY <1>8
    <3>2. /\ Charged(p, s, op, owners0) /\ op'.got = Append(op.got, f) /\ op'.call = op.call
          /\ s \in SpaceType /\ op \in OpType /\ f \in 1..NPages /\ owners0[f] = "free"
          /\ op.call \in {"commit", "prepare"}
          /\ payer = (IF op.call = "prepare" THEN ImageOwner ELSE AnonOwner)[p]
      BY <1>2, <1>3, <1>4, <1>5, <1>11 DEF ProcOK
    <3> HIDE DEF owners0, owners1, s, payer
    <3>4. Charged(p, s, op', owners1)
      BY <3>1, <3>2, ChargeMore
    <3> QED  BY <3>4 DEF owners1, s
  <2>3. Plain(op) /\ Plain(op')
    BY <1>1, <1>11 DEF Plain, Unsettled
  <2>4. Mapped(s, op') /\ Cached(s, op', Seen(p))
    BY <1>2, <2>3, PlainMaps DEF ProcOK
  <2>5. ProcOK(p, s, op', pmm'.owners, Seen(p)')
    BY <1>10, <1>11, <2>1, <2>2, <2>4 DEF ProcOK
  <2>6. /\ cr3 = p => s.mem # <<>>
        /\ op.call \in {"commit", "release"} => cr3 = p
        /\ op.call \in {"prepare", "exit"} => cr3 = "kernel"
    BY <1>2 DEF Running
  <2>7. \A g \in 1..NPages : pmm'.owners[g] # pmm.owners[g] =>
            {pmm.owners[g], pmm'.owners[g]} \subseteq {"free", ImageOwner[p], AnonOwner[p]}
    BY <1>3, <1>4, <1>5, <1>8
  <2>8. space' = [space EXCEPT ![p] = s] /\ tlb' \subseteq Translation /\ cr3' = cr3 /\ tlb' = tlb
    BY <1>1, <1>2 DEF Types
  <2>9. op.proc \in {p, "kernel"} /\ op'.proc \in {p, "kernel"} /\ op'.call # "none" /\ op'.proc = p
    BY <1>2, <1>11
  <2> QED  BY <1>2, <1>5, <1>11, <2>5, <2>6, <2>7, <2>8, <2>9, Step
<1> HIDE DEF got
<1>12. CASE Len(got) < op.count
  <2>1. op' = [op EXCEPT !.got = got]
    BY <1>6, <1>12
  <2>2. /\ op' \in OpType /\ op'.call = op.call /\ op'.proc = op.proc /\ op'.got = got
        /\ op'.pc = op.pc /\ op'.first = op.first /\ op'.count = op.count /\ op'.applied = op.applied
    BY <1>2, <1>9, <2>1 DEF OpType
  <2>3. Progress(op')
    BY <1>1, <1>2, <2>2 DEF ProcOK, Calling, Progress, Applying, Unsettled
  <2>4. ASSUME op.call = "commit" PROVE Calling(s, op')
    <3>1. Committing(s, op')
      BY <1>1, <1>2, <1>9, <1>12, <2>2, <2>4 DEF ProcOK, Calling, Committing, RunOf, Applying, Unsettled
    <3>2. s.mem # <<>> /\ op'.pc = "alloc" /\ op'.call = "commit"
      BY <1>1, <1>2, <2>2, <2>4 DEF Running
    <3> QED  BY <2>3, <3>1, <3>2 DEF Calling, Applying, Unsettled
  <2>5. ASSUME op.call = "prepare" PROVE Calling(s, op')
    <3>1. op.count = NImage
      BY <1>1, <1>2, <2>5 DEF ProcOK, Calling
    <3>2. NImage \in Nat
      BY SpaceAssumption
    <3>3. op'.pc = "alloc" /\ op'.call = "prepare" /\ op'.count = NImage /\ Len(op'.got) < NImage
      BY <1>1, <1>12, <2>2, <2>5, <3>1
    <3>4. Len(op'.got) <= NImage
      BY <1>9, <2>2, <3>2, <3>3
    <3> QED  BY <2>3, <3>3, <3>4 DEF Calling, Applying, Unsettled
  <2>6. op.call = "commit" \/ op.call = "prepare"
    BY <1>3
  <2>7. Calling(s, op')
    BY <2>4, <2>5, <2>6
  <2> QED  BY <1>1, <1>11, <2>2, <2>7
<1>13. CASE ~(Len(got) < op.count) /\ op.call = "commit"
  <2>1. op' = [op EXCEPT !.got = got, !.changes = Mapping(got), !.pc = "stale"]
    BY <1>6, <1>13
  <2>2. Committing(s, op) /\ Len(op.got) < op.count /\ op.applied = 0
    BY <1>1, <1>2, <1>13 DEF ProcOK, Calling, Committing, Progress
  <2>3. \A w \in RunOf(op) : s.entries[w] = Absent
    <3>1. Pushed(op) = {}
      BY <1>1 DEF Pushed, Unsettled
    <3> QED  BY <1>2, <2>2, <3>1 DEF ProcOK, Mapped, Committing
  <2>4. \A k \in 1..op.count : op.first + k - 1 \in RunOf(op)
    <3>1. op.first \in Nat
      BY <1>2 DEF OpType
    <3> QED  BY <1>9, <3>1 DEF RunOf, Run
  <2>5. Mapping(got) = [k \in 1..op.count |-> [window |-> op.first + k - 1,
                            before |-> Absent, after |-> Present(got[k])]]
    BY <1>0, <2>3, <2>4 DEF Mapping
  <2>6. Len(got) = op.count
    BY <1>9, <1>13, <2>2
  <2>7. Mapping(got) \in Seq(Change) /\ Mapping(got) # <<>>
    <3>1. \A k \in 1..op.count : got[k] \in 1..NPages
      BY <1>9, <2>6, ElementOfSeq
    <3>2. \A k \in 1..op.count : op.first + k - 1 \in Window
      BY <2>2, <2>4 DEF Committing
    <3>3. Absent \in Entry64 /\ \A k \in 1..op.count : Present(got[k]) \in Entry64
      BY <3>1, SpaceAssumption DEF Absent, Present, Entry64
    <3>4. Mapping(got) \in [1..op.count -> Change]
      BY <2>5, <3>2, <3>3 DEF Change
    <3>5. 1 \in 1..op.count /\ 1 \notin DOMAIN <<>>
      BY <1>9, <2>2
    <3> QED  BY <1>9, <3>4, <3>5, SeqDef
  <2>8. /\ op' \in OpType /\ op'.call = op.call /\ op'.proc = op.proc /\ op'.got = got
        /\ op'.pc = "stale" /\ op'.first = op.first /\ op'.count = op.count
        /\ op'.changes = Mapping(got) /\ op'.applied = op.applied
    <3> DEFINE ch == Mapping(got)
    <3> HIDE DEF ch
    <3>1. op' = [op EXCEPT !.got = got, !.changes = ch, !.pc = "stale"] /\ ch \in Seq(Change)
      BY <2>1, <2>7 DEF ch
    <3>2. /\ op' \in OpType /\ op'.call = op.call /\ op'.proc = op.proc /\ op'.got = got
          /\ op'.pc = "stale" /\ op'.first = op.first /\ op'.count = op.count
          /\ op'.changes = ch /\ op'.applied = op.applied
      BY <1>2, <1>9, <3>1 DEF OpType, Applying, Unsettled
    <3> QED  BY <3>2 DEF ch
  <2>9. Committing(s, op')
    BY <1>9, <2>2, <2>5, <2>6, <2>8 DEF Committing, RunOf, Applying, Unsettled
  <2>10. Progress(op')
    BY <2>2, <2>7, <2>8 DEF Progress, Applying, Unsettled
  <2>11. s.mem # <<>>
    BY <1>2, <1>13 DEF Running
  <2>12. Calling(s, op')
    BY <1>13, <2>8, <2>9, <2>10, <2>11 DEF Calling, Applying, Unsettled
  <2> QED  BY <1>11, <2>8, <2>12
<1>14. CASE ~(Len(got) < op.count) /\ op.call = "prepare"
  <2> DEFINE c == IF s.mem = <<>> THEN "publish" ELSE "scan"
  <2>1. op' = [op EXCEPT !.got = got, !.pc = c]
    BY <1>0, <1>6, <1>14
  <2>2. c \in {"publish", "scan"} /\ (c = "publish" <=> s.mem = <<>>)
    OBVIOUS
  <2> HIDE DEF c
  <2>3. /\ op' \in OpType /\ op'.call = op.call /\ op'.proc = op.proc /\ op'.got = got
        /\ op'.pc = c
    BY <1>2, <1>9, <2>1, <2>2 DEF OpType
  <2>4. Len(got) = NImage
    <3>1. op.count = NImage /\ Len(op.got) < NImage /\ NImage \in Nat
      BY <1>1, <1>2, <1>14, SpaceAssumption DEF ProcOK, Calling
    <3> QED  BY <1>9, <1>14, <3>1
  <2>5. s.mem = <<>> => \A w \in Window : s.states[w] = "free"
    BY <1>2 DEF ProcOK, Books
  <2>6. Progress(op')
    BY <2>2, <2>3 DEF Progress, Applying, Unsettled
  <2>7. NImage \in Nat
    BY SpaceAssumption
  <2>8. Calling(s, op')
    BY <1>14, <2>2, <2>3, <2>4, <2>5, <2>6, <2>7 DEF Calling, Applying, Unsettled
  <2> QED  BY <1>11, <2>2, <2>3, <2>8
<1> QED  BY <1>3, <1>12, <1>13, <1>14

\* A sequence without its last element.
LEMMA FrontShape ==
    ASSUME NEW S, NEW q \in Seq(S), q # <<>>
    PROVE  LET r == SubSeq(q, 1, Len(q) - 1) IN
           /\ Len(q) \in Nat \ {0} /\ DOMAIN q = 1..Len(q) /\ q[Len(q)] \in S
           /\ r \in Seq(S) /\ Len(r) = Len(q) - 1 /\ DOMAIN r = 1..Len(q) - 1
           /\ \A i \in 1..Len(q) - 1 : r[i] = q[i]
<1> DEFINE n == Len(q)
           r == SubSeq(q, 1, n - 1)
<1>1. n \in Nat /\ DOMAIN q = 1..n /\ \A i \in 1..n : q[i] \in S
  BY LenProperties, ElementOfSeq
<1>2. n # 0
  BY EmptySeq
<1> HIDE DEF n
<1>3. 1 \in Int /\ n - 1 \in Int /\ \A i \in 1..n - 1 : q[i] \in S
  BY <1>1
<1>4. /\ r \in Seq(S) /\ Len(r) = IF 1 <= n - 1 THEN n - 1 - 1 + 1 ELSE 0
      /\ \A i \in 1..n - 1 - 1 + 1 : r[i] = q[1 + i - 1]
  BY <1>3, SubSeqProperties
<1> HIDE DEF r
<1>5. Len(r) = n - 1 /\ \A i \in 1..n - 1 : r[i] = q[i]
  BY <1>1, <1>2, <1>4
<1>6. DOMAIN r = 1..n - 1
  BY <1>4, <1>5, LenProperties
<1>7. q[n] \in S /\ n \in Nat \ {0}
  BY <1>1, <1>2
<1> QED  BY <1>1, <1>4, <1>5, <1>6, <1>7 DEF n, r

\* The last frame the call took is nobody's again.
LEMMA ChargeLess ==
    ASSUME NEW p \in Proc, NEW s \in SpaceType, NEW o \in OpType, NEW o1, NEW owners, NEW owners1,
           NEW n \in Nat \ {0}, DOMAIN o.got = 1..n, DOMAIN o1.got = 1..n - 1,
           \A i \in 1..n - 1 : o1.got[i] = o.got[i],
           Charged(p, s, o, owners), o.call \in {"commit", "prepare"}, o1.call = o.call,
           \A g \in 1..NPages : owners1[g] = IF g = o.got[n] THEN "free" ELSE owners[g]
    PROVE  Charged(p, s, o1, owners1)
<1>1. ImageOwner[p] # AnonOwner[p] /\ ImageOwner[p] # "free" /\ AnonOwner[p] # "free"
  BY OwnersDiffer
<1>2. \A i, j \in 1..n : o.got[i] = o.got[j] => i = j
  BY DEF Charged
<1>3. ASSUME NEW g
      PROVE  (\E i \in 1..n - 1 : o1.got[i] = g) <=> (g # o.got[n] /\ \E i \in 1..n : o.got[i] = g)
  <2>1. \A i : i \in 1..n <=> i \in 1..n - 1 \/ i = n
    OBVIOUS
  <2>2. n \notin 1..n - 1 /\ n \in 1..n
    OBVIOUS
  <2>3. \A i \in 1..n - 1 : o1.got[i] = o.got[i] /\ o.got[i] # o.got[n]
    BY <1>2, <2>1, <2>2
  <2> QED  BY <2>1, <2>3
<1>4. /\ o.call = "commit" => \A w \in Window : s.pages[w] # o.got[n]
      /\ o.call = "prepare" => \A i \in DOMAIN s.mem : s.mem[i] # o.got[n]
  BY DEF Charged
<1>5. \A g \in 1..NPages : owners1[g] = AnonOwner[p] <=>
        \/ \E w \in Window : s.pages[w] = g
        \/ o1.call = "commit" /\ \E i \in DOMAIN o1.got : o1.got[i] = g
  <2> SUFFICES ASSUME NEW g \in 1..NPages
               PROVE  owners1[g] = AnonOwner[p] <=>
                        \/ \E w \in Window : s.pages[w] = g
                        \/ o1.call = "commit" /\ \E i \in DOMAIN o1.got : o1.got[i] = g
    OBVIOUS
  <2>1. owners[g] = AnonOwner[p] <=>
          \/ \E w \in Window : s.pages[w] = g
          \/ o.call = "commit" /\ \E i \in 1..n : o.got[i] = g
    BY DEF Charged
  <2>2. CASE g # o.got[n]
    BY <1>3, <2>1, <2>2
  <2>3. CASE g = o.got[n]
    <3>1. owners1[g] # AnonOwner[p]
      BY <1>1, <2>3
    <3>2. ~ \E w \in Window : s.pages[w] = g
      <4>1. CASE o.call = "commit"
        BY <1>4, <2>3, <4>1
      <4>2. CASE o.call = "prepare"
        <5>1. \E i \in DOMAIN o.got : o.got[i] = g
          BY <2>3
        <5>2. owners[g] = ImageOwner[p]
          BY <4>2, <5>1 DEF Charged
        <5> QED  BY <1>1, <2>1, <5>2
      <4> QED  BY <4>1, <4>2
    <3> QED  BY <1>3, <2>3, <3>1, <3>2
  <2> QED  BY <2>2, <2>3
<1>6. \A g \in 1..NPages : owners1[g] = ImageOwner[p] <=>
        \/ \E i \in DOMAIN s.mem : s.mem[i] = g
        \/ o1.call = "prepare" /\ \E i \in DOMAIN o1.got : o1.got[i] = g
  <2> SUFFICES ASSUME NEW g \in 1..NPages
               PROVE  owners1[g] = ImageOwner[p] <=>
                        \/ \E i \in DOMAIN s.mem : s.mem[i] = g
                        \/ o1.call = "prepare" /\ \E i \in DOMAIN o1.got : o1.got[i] = g
    OBVIOUS
  <2>1. owners[g] = ImageOwner[p] <=>
          \/ \E i \in DOMAIN s.mem : s.mem[i] = g
          \/ o.call = "prepare" /\ \E i \in 1..n : o.got[i] = g
    BY DEF Charged
  <2>2. CASE g # o.got[n]
    BY <1>3, <2>1, <2>2
  <2>3. CASE g = o.got[n]
    <3>1. owners1[g] # ImageOwner[p]
      BY <1>1, <2>3
    <3>2. ~ \E i \in DOMAIN s.mem : s.mem[i] = g
      <4>1. CASE o.call = "prepare"
        BY <1>4, <2>3, <4>1
      <4>2. CASE o.call = "commit"
        <5>1. \E i \in DOMAIN o.got : o.got[i] = g
          BY <2>3
        <5>2. owners[g] = AnonOwner[p]
          BY <4>2, <5>1 DEF Charged
        <5> QED  BY <1>1, <2>1, <5>2
      <4> QED  BY <4>1, <4>2
    <3> QED  BY <1>3, <2>3, <3>1, <3>2
  <2> QED  BY <2>2, <2>3
<1>7. \A i, j \in DOMAIN o1.got : o1.got[i] = o1.got[j] => i = j
  BY <1>2
<1>8. o1.call = "commit" => \A w \in Window, i \in DOMAIN o1.got : s.pages[w] # o1.got[i]
  BY DEF Charged
<1>9. o1.call = "prepare" => \A i \in DOMAIN s.mem, j \in DOMAIN o1.got : s.mem[i] # o1.got[j]
  BY DEF Charged
<1> QED  BY <1>5, <1>6, <1>7, <1>8, <1>9 DEF Charged

LEMMA Undone == IInv /\ Undo => IInv'
<1> SUFFICES ASSUME IInv, Undo PROVE IInv'
  OBVIOUS
<1>0. PICK p \in Proc : p = op.proc
  BY CallIsSomebodys DEF Undo
<1> DEFINE s == space[p]
<1>1. op.pc = "undo" /\ UNCHANGED <<space, cr3, tlb>>
  BY DEF Undo
<1>2. /\ op.proc = p /\ op.call # "none" /\ Types /\ Running /\ op \in OpType /\ s \in SpaceType
      /\ ProcOK(p, s, op, pmm.owners, Seen(p))
  BY <1>0, <1>1, CallIsSomebodys
<1>3. op.call \in {"commit", "prepare"} /\ Plain(op)
  BY <1>1, <1>2 DEF ProcOK, Calling, Tearing, Applying, Unsettled, OpType, Plain
<1>4. CASE op.got = <<>>
  <2>1. op' = Idle /\ UNCHANGED pmm
    BY <1>4 DEF Undo
  <2>2. Books(s, Idle) /\ Charged(p, s, Idle, pmm.owners)
    BY <1>1, <1>2, <1>4, SameBooks, SameCharges, IdleFacts DEF ProcOK
  <2>3. Mapped(s, Idle) /\ Cached(s, Idle, Seen(p))
    BY <1>2, <1>3, PlainMaps, IdleFacts DEF ProcOK
  <2>4. ProcOK(p, s, Idle, pmm.owners, Seen(p))
    BY <2>2, <2>3, IdleCalls DEF ProcOK
  <2> QED  BY <1>1, <1>2, <2>1, <2>4, OpStep, IdleFacts, SpaceAssumption
<1>5. CASE op.got # <<>>
  <2> DEFINE n == Len(op.got)
             f == op.got[n]
             r == SubSeq(op.got, 1, n - 1)
  <2>1. pmm' = Frames!AfterRelease(pmm, f, Payer) /\ op' = [op EXCEPT !.got = r]
    BY <1>5 DEF Undo
  <2>2. /\ n \in Nat \ {0} /\ DOMAIN op.got = 1..n /\ f \in 1..NPages
        /\ r \in Seq(1..NPages) /\ Len(r) = n - 1 /\ DOMAIN r = 1..n - 1
        /\ \A i \in 1..n - 1 : r[i] = op.got[i]
    <3> DEFINE q == op.got
               S == 1..NPages
    <3> HIDE DEF q, S
    <3>1. q \in Seq(S) /\ q # <<>>
      BY <1>2, <1>5 DEF OpType, q, S
    <3>2. /\ Len(q) \in Nat \ {0} /\ DOMAIN q = 1..Len(q) /\ q[Len(q)] \in S
          /\ SubSeq(q, 1, Len(q) - 1) \in Seq(S)
          /\ Len(SubSeq(q, 1, Len(q) - 1)) = Len(q) - 1
          /\ DOMAIN SubSeq(q, 1, Len(q) - 1) = 1..Len(q) - 1
          /\ \A i \in 1..Len(q) - 1 : SubSeq(q, 1, Len(q) - 1)[i] = q[i]
      BY <3>1, FrontShape
    <3> QED  BY <3>2 DEF q, S
  <2> HIDE DEF n, f, r
  <2>3. f = op.got[n] /\ n = Len(op.got)
    BY DEF f, n
  <2>4. Payer \in Owner /\ Payer = (IF op.call = "prepare" THEN ImageOwner ELSE AnonOwner)[p]
    BY <1>2, OwnersDiffer DEF Payer
  <2>5. pmm.owners[f] = Payer
    <3>1. \E i \in DOMAIN op.got : op.got[i] = f
      BY <2>2, <2>3
    <3> QED  BY <1>2, <1>3, <2>2, <2>4, <3>1 DEF ProcOK, Charged
  <2>6. Good(pmm') /\ pmm'.owners = [pmm.owners EXCEPT ![f] = "free"]
    BY <1>2, <2>1, <2>2, <2>4, <2>5, FrameReturned DEF Types
  <2>7. DOMAIN pmm.owners = 1..NPages
    BY <1>2 DEF Types, Good, Pages!Good, Pages!StateOK, Pages!Page
  <2>8. \A g \in 1..NPages : pmm'.owners[g] = IF g = f THEN "free" ELSE pmm.owners[g]
    BY <2>6, <2>7
  <2>9. /\ op' \in OpType /\ op'.call = op.call /\ op'.proc = op.proc /\ op'.got = r
        /\ op'.pc = op.pc /\ op'.first = op.first /\ op'.count = op.count /\ op'.applied = op.applied
    BY <1>2, <2>1, <2>2 DEF OpType
  <2>10. Books(s, op')
    BY <1>1, <1>2, SameBooks DEF ProcOK
  <2>11. Charged(p, s, op', pmm'.owners)
    <3> DEFINE owners0 == pmm.owners
               owners1 == pmm'.owners
    <3>1. \A g \in 1..NPages : owners1[g] = IF g = op.got[n] THEN "free" ELSE owners0[g]
      BY <2>3, <2>8
    <3>2. /\ Charged(p, s, op, owners0) /\ op'.call = op.call
          /\ s \in SpaceType /\ op \in OpType /\ op.call \in {"commit", "prepare"}
          /\ DOMAIN op.got = 1..n /\ DOMAIN op'.got = 1..n - 1
          /\ \A i \in 1..n - 1 : op'.got[i] = op.got[i]
      BY <1>2, <1>3, <2>2, <2>9 DEF ProcOK
    <3> HIDE DEF owners0, owners1, s
    <3>3. Charged(p, s, op', owners1)
      BY <2>2, <3>1, <3>2, ChargeLess
    <3> QED  BY <3>3 DEF owners1, s
  <2>12. Mapped(s, op') /\ Cached(s, op', Seen(p))
    BY <1>2, <1>3, <2>9, PlainMaps DEF ProcOK, Plain
  <2>13. Calling(s, op')
    <3>1. Progress(op')
      BY <1>1, <2>9 DEF Progress, Applying, Unsettled
    <3>2. ASSUME op.call = "commit" PROVE Calling(s, op')
      <4>1. Committing(s, op')
        BY <1>1, <1>2, <2>2, <2>3, <2>9, <3>2 DEF ProcOK, Calling, Committing, RunOf, OpType, Applying, Unsettled
      <4>2. s.mem # <<>> /\ op'.pc = "undo" /\ op'.call = "commit"
        BY <1>1, <1>2, <2>9, <3>2 DEF Running
      <4> QED  BY <3>1, <4>1, <4>2 DEF Calling, Applying, Unsettled
    <3>3. ASSUME op.call = "prepare" PROVE Calling(s, op')
      <4>1. n <= NImage /\ NImage \in Nat
        BY <1>2, <2>3, <3>3, SpaceAssumption DEF ProcOK, Calling
      <4>2. op'.pc = "undo" /\ op'.call = "prepare" /\ Len(op'.got) <= NImage
        BY <1>1, <2>2, <2>9, <3>3, <4>1
      <4> QED  BY <3>1, <4>2 DEF Calling, Applying, Unsettled
    <3>4. op.call = "commit" \/ op.call = "prepare"
      BY <1>3
    <3> QED  BY <3>2, <3>3, <3>4
  <2>14. ProcOK(p, s, op', pmm'.owners, Seen(p)')
    BY <1>1, <2>10, <2>11, <2>12, <2>13 DEF ProcOK, Seen
  <2>15. /\ cr3 = p => s.mem # <<>>
         /\ op.call \in {"commit", "release"} => cr3 = p
         /\ op.call \in {"prepare", "exit"} => cr3 = "kernel"
    BY <1>2 DEF Running
  <2>16. \A g \in 1..NPages : pmm'.owners[g] # pmm.owners[g] =>
            {pmm.owners[g], pmm'.owners[g]} \subseteq {"free", ImageOwner[p], AnonOwner[p]}
    BY <1>3, <2>4, <2>5, <2>8
  <2>17. space' = [space EXCEPT ![p] = s] /\ tlb' \subseteq Translation /\ cr3' = cr3 /\ tlb' = tlb
    BY <1>1, <1>2 DEF Types
  <2>18. op.proc \in {p, "kernel"} /\ op'.proc \in {p, "kernel"} /\ op'.call # "none" /\ op'.proc = p
    BY <1>2, <2>9
  <2> QED  BY <1>2, <2>6, <2>9, <2>14, <2>15, <2>16, <2>17, <2>18, Step
<1> QED  BY <1>4, <1>5

\* process_memory.c: an image goes frame by frame; nothing else names its frames.
LEMMA ImageFreed == IInv /\ FreeImage => IInv'
<1> SUFFICES ASSUME IInv, FreeImage PROVE IInv'
  OBVIOUS
<1>0. PICK p \in Proc : p = op.proc
  BY CallIsSomebodys DEF FreeImage
<1> DEFINE s == space[p]
           mem == s.mem
           n == Len(mem)
           f == mem[n]
           r == SubSeq(mem, 1, n - 1)
           s1 == [s EXCEPT !.mem = r]
<1>1. op.pc = "unimage" /\ UNCHANGED <<cr3, tlb>>
  BY DEF FreeImage
<1>2. /\ op.proc = p /\ op.call # "none" /\ Types /\ Running /\ op \in OpType /\ s \in SpaceType
      /\ ProcOK(p, s, op, pmm.owners, Seen(p))
  BY <1>0, <1>1, CallIsSomebodys
<1>3. op.call \in {"exit", "prepare"} /\ cr3 = "kernel" /\ p # "kernel" /\ mem # <<>> /\ Plain(op)
      /\ \A w \in Window : s.states[w] = "free"
  BY <1>1, <1>2, SpaceAssumption
     DEF ProcOK, Calling, Committing, Tearing, Running, Applying, Unsettled, OpType, Plain
<1>4. /\ pmm' = Frames!AfterRelease(pmm, f, ImageOwner[p]) /\ space' = [space EXCEPT ![p] = s1]
      /\ op' = IF n > 1 THEN op ELSE IF op.call = "exit" THEN Idle ELSE [op EXCEPT !.pc = "publish"]
  <2>1. space'[p] = [s EXCEPT !.mem = SubSeq(@, 1, Len(@) - 1)]
    BY <1>0, <1>2 DEF FreeImage, Types
  <2> QED  BY <1>0, <1>2 DEF FreeImage, Types
<1>5. /\ n \in Nat \ {0} /\ DOMAIN mem = 1..n /\ f \in 1..NPages
      /\ r \in Seq(1..NPages) /\ Len(r) = n - 1 /\ DOMAIN r = 1..n - 1
      /\ \A i \in 1..n - 1 : r[i] = mem[i]
  <2> DEFINE q == mem
             S == 1..NPages
  <2> HIDE DEF q, S
  <2>1. q \in Seq(S) /\ q # <<>>
    BY <1>2, <1>3 DEF SpaceType, q, S
  <2>2. /\ Len(q) \in Nat \ {0} /\ DOMAIN q = 1..Len(q) /\ q[Len(q)] \in S
        /\ SubSeq(q, 1, Len(q) - 1) \in Seq(S)
        /\ Len(SubSeq(q, 1, Len(q) - 1)) = Len(q) - 1
        /\ DOMAIN SubSeq(q, 1, Len(q) - 1) = 1..Len(q) - 1
        /\ \A i \in 1..Len(q) - 1 : SubSeq(q, 1, Len(q) - 1)[i] = q[i]
    BY <2>1, FrontShape
  <2> QED  BY <2>2 DEF q, S
<1>6. n <= NImage /\ NImage \in Nat \ {0}
  BY <1>2, <1>5, SpaceAssumption DEF ProcOK, Books
<1>7. f = mem[n] /\ n = Len(mem)
  OBVIOUS
<1> HIDE DEF f, n, r
<1>8. /\ s1 \in SpaceType /\ s1.mem = r /\ s1.states = s.states /\ s1.pages = s.pages
      /\ s1.entries = s.entries /\ s1.reserved = s.reserved
      /\ s1.committed = s.committed /\ s1.broken = s.broken
  BY <1>2, <1>5 DEF SpaceType
<1>9. pmm.owners[f] = ImageOwner[p] /\ ImageOwner[p] \in Owner
  <2>1. n \in DOMAIN mem /\ mem[n] = f
    BY <1>5, <1>7
  <2> QED  BY <1>2, <1>5, <2>1, OwnersDiffer DEF ProcOK, Charged
<1>10. Good(pmm') /\ pmm'.owners = [pmm.owners EXCEPT ![f] = "free"]
  BY <1>2, <1>4, <1>5, <1>9, FrameReturned DEF Types
<1>11. DOMAIN pmm.owners = 1..NPages
  BY <1>2 DEF Types, Good, Pages!Good, Pages!StateOK, Pages!Page
<1>12. \A g \in 1..NPages : pmm'.owners[g] = IF g = f THEN "free" ELSE pmm.owners[g]
  BY <1>10, <1>11
<1>13. /\ op' \in OpType /\ op'.got = op.got /\ (n > 1 => op' = op)
       /\ n = 1 => IF op.call = "exit" THEN op' = Idle
                   ELSE op'.call = "prepare" /\ op'.pc = "publish"
       /\ op'.proc \in {p, "kernel"} /\ (op'.proc = p <=> op'.call # "none")
       /\ op'.call = "none" => op' = Idle
       /\ op'.call \in {"none", op.call}
  <2>1. op.call = "exit" => op.got = <<>>
    BY <1>2 DEF ProcOK, Calling
  <2>2. CASE n > 1
    BY <1>2, <1>4, <2>2
  <2>3. CASE n = 1 /\ op.call = "exit"
    BY <1>2, <1>3, <1>4, <2>1, <2>3, IdleFacts
  <2>4. CASE n = 1 /\ op.call = "prepare"
    <3>1. op' = [op EXCEPT !.pc = "publish"]
      BY <1>4, <2>4
    <3>2. /\ op' \in OpType /\ op'.pc = "publish" /\ op'.call = op.call /\ op'.proc = op.proc
          /\ op'.got = op.got
      BY <1>2, <3>1, PcMoves
    <3> QED  BY <1>2, <2>4, <3>2
  <2>5. n > 1 \/ n = 1
    BY <1>5
  <2> QED  BY <1>3, <2>2, <2>3, <2>4, <2>5
<1> HIDE DEF s1, mem, s
<1>14. mem = s.mem
  BY DEF mem
<1>15. n > 1 \/ n = 1
  BY <1>5
<1>16. op'.pc = IF n > 1 THEN "unimage" ELSE IF op.call = "exit" THEN "idle" ELSE "publish"
  BY <1>1, <1>13, <1>15, IdleFacts
<1>17. (s1.mem = <<>>) <=> n = 1
  <2>1. n = 1 => r = <<>>
    BY <1>5, EmptySeq
  <2>2. n > 1 => 1 \in DOMAIN r
    BY <1>5
  <2>3. 1 \notin DOMAIN <<>>
    OBVIOUS
  <2> QED  BY <1>8, <1>15, <2>1, <2>2, <2>3
<1>18. Books(s1, op')
  <2>1. \A i, j \in 1..n : mem[i] = mem[j] => i = j
    BY <1>2, <1>5, <1>14 DEF ProcOK, Books
  <2>2. \A i, j \in DOMAIN s1.mem : s1.mem[i] = s1.mem[j] => i = j
    BY <1>5, <1>8, <2>1
  <2>3. Len(s1.mem) = 0 \/ (op'.pc = "unimage" /\ Len(s1.mem) <= NImage)
    BY <1>5, <1>6, <1>8, <1>15, <1>16
  <2>4. \A st : InState(s1, st) = InState(s, st)
    BY <1>8 DEF InState
  <2> QED  BY <1>2, <1>3, <1>8, <2>2, <2>3, <2>4 DEF ProcOK, Books
<1>19. Charged(p, s1, op', pmm'.owners)
  <2> DEFINE owners0 == pmm.owners
             owners1 == pmm'.owners
  <2>0. /\ \A g \in 1..NPages : owners1[g] = IF g = f THEN "free" ELSE owners0[g]
        /\ owners0[f] = ImageOwner[p] /\ Charged(p, s, op, owners0)
    BY <1>2, <1>9, <1>12 DEF ProcOK
  <2> HIDE DEF owners0, owners1
  <2>1. ImageOwner[p] # AnonOwner[p] /\ ImageOwner[p] # "free" /\ AnonOwner[p] # "free"
    BY OwnersDiffer
  <2>2. /\ op.call # "commit" /\ op'.call # "commit" /\ (op'.call = "prepare" => op.call = "prepare")
        /\ op.call = "prepare" => op'.call = "prepare" \/ op.got = <<>>
    <3>1. op.call = "prepare" => op'.call = "prepare"
      BY <1>13, <1>15
    <3> QED  BY <1>3, <1>13, <3>1, IdleFacts
  <2>3. \A g \in 1..NPages : owners1[g] = AnonOwner[p] <=> \E w \in Window : s1.pages[w] = g
    BY <1>8, <2>0, <2>1, <2>2 DEF Charged
  <2>4. \A i, j \in 1..n : mem[i] = mem[j] => i = j
    BY <1>2, <1>5, <1>14 DEF ProcOK, Books
  <2>5. \A g : (\E i \in 1..n - 1 : r[i] = g) <=> (g # f /\ \E i \in 1..n : mem[i] = g)
    BY <1>5, <1>7, <2>4
  <2>6. op.call = "prepare" => \A i \in 1..n, j \in DOMAIN op.got : mem[i] # op.got[j]
    BY <1>5, <1>14, <2>0 DEF Charged
  <2>7. op.call = "prepare" => \A j \in DOMAIN op.got : op.got[j] # f
    BY <1>5, <1>7, <2>6
  <2>8. \A g \in 1..NPages : owners1[g] = ImageOwner[p] <=>
          \/ \E i \in DOMAIN s1.mem : s1.mem[i] = g
          \/ op'.call = "prepare" /\ \E i \in DOMAIN op'.got : op'.got[i] = g
    <3> SUFFICES ASSUME NEW g \in 1..NPages
                 PROVE  owners1[g] = ImageOwner[p] <=>
                          \/ \E i \in 1..n - 1 : r[i] = g
                          \/ op.call = "prepare" /\ \E i \in DOMAIN op.got : op.got[i] = g
      BY <1>5, <1>8, <1>13, <2>2
    <3>1. owners0[g] = ImageOwner[p] <=>
          \/ \E i \in 1..n : mem[i] = g
          \/ op.call = "prepare" /\ \E i \in DOMAIN op.got : op.got[i] = g
      BY <1>5, <1>14, <2>0 DEF Charged
    <3> QED  BY <2>0, <2>1, <2>5, <2>7, <3>1
  <2>9. \A i, j \in DOMAIN op'.got : op'.got[i] = op'.got[j] => i = j
    BY <1>13, <2>0 DEF Charged
  <2>10. op'.call = "prepare" => \A i \in DOMAIN s1.mem, j \in DOMAIN op'.got : s1.mem[i] # op'.got[j]
    BY <1>5, <1>8, <1>13, <2>2, <2>6
  <2>11. Charged(p, s1, op', owners1)
    BY <2>2, <2>3, <2>8, <2>9, <2>10 DEF Charged
  <2> QED  BY <2>11 DEF owners1
<1>20. Seen(p) = {} /\ Seen(p)' = {}
  BY <1>1, <1>3 DEF Seen
<1>21. Mapped(s1, op') /\ Cached(s1, op', Seen(p)')
  <2>1. Pushed(op) = {} /\ Pushed(op') = {}
    BY <1>1, <1>16 DEF Pushed, Unsettled
  <2>2. \A w \in Window : s.entries[w] = Absent
    BY <1>2, <1>3, <2>1 DEF ProcOK, Mapped
  <2>3. Mapped(s1, op')
    BY <1>3, <1>8, <2>1, <2>2 DEF Mapped
  <2> QED  BY <1>20, <2>3 DEF Cached
<1>22. Calling(s1, op')
  <2>1. CASE n > 1
    <3>1. op' = op /\ s1.mem # <<>> /\ s.mem # <<>>
      BY <1>3, <1>13, <1>14, <1>17, <2>1
    <3>2. Calling(s, op) /\ Progress(op)
      BY <1>2 DEF ProcOK, Calling
    <3>3. op.call \notin {"none", "commit", "release"}
      BY <1>3
    <3> QED  BY <1>1, <1>3, <1>8, <3>1, <3>2, <3>3 DEF Calling, Applying, Unsettled
  <2>2. CASE n = 1 /\ op.call = "exit"
    BY <1>13, <2>2, IdleCalls
  <2>3. CASE n = 1 /\ op.call = "prepare"
    <3>1. op'.call = "prepare" /\ op'.pc = "publish"
      BY <1>13, <2>3
    <3>2. Len(op'.got) = NImage
      BY <1>1, <1>2, <1>13, <2>3 DEF ProcOK, Calling
    <3>3. Progress(op')
      BY <3>1 DEF Progress, Applying, Unsettled
    <3>4. s1.mem = <<>> /\ \A w \in Window : s1.states[w] = "free"
      BY <1>3, <1>8, <1>17, <2>3
    <3> QED  BY <1>6, <3>1, <3>2, <3>3, <3>4 DEF Calling, Applying, Unsettled
  <2> QED  BY <1>3, <1>15, <2>1, <2>2, <2>3
<1>23. ProcOK(p, s1, op', pmm'.owners, Seen(p)')
  BY <1>18, <1>19, <1>21, <1>22 DEF ProcOK
<1>24. \A g \in 1..NPages : pmm'.owners[g] # pmm.owners[g] =>
          {pmm.owners[g], pmm'.owners[g]} \subseteq {"free", ImageOwner[p], AnonOwner[p]}
  BY <1>9, <1>12
<1>25. /\ tlb' = tlb /\ cr3' = cr3 /\ tlb' \subseteq Translation /\ cr3 # p
       /\ op'.call \notin {"commit", "release"} /\ (op'.call \in {"prepare", "exit"} => cr3 = "kernel")
  BY <1>1, <1>2, <1>3, <1>13 DEF Types
<1>26. op.proc \in {p, "kernel"} /\ s1 \in SpaceType /\ space' = [space EXCEPT ![p] = s1]
  BY <1>2, <1>4, <1>8
<1> QED  BY <1>10, <1>13, <1>23, <1>24, <1>25, <1>26, Step

\* usermode.c: the new image takes the place of the one torn down.
LEMMA Published == IInv /\ Publish => IInv'
<1> SUFFICES ASSUME IInv, Publish PROVE IInv'
  OBVIOUS
<1>0. PICK p \in Proc : p = op.proc
  BY CallIsSomebodys DEF Publish
<1> DEFINE s == space[p]
           s1 == [Empty EXCEPT !.mem = op.got]
<1>1. op.pc = "publish" /\ op' = Idle /\ UNCHANGED <<pmm, cr3, tlb>>
  BY DEF Publish
<1>2. /\ op.proc = p /\ op.call # "none" /\ Types /\ Running /\ op \in OpType /\ s \in SpaceType
      /\ ProcOK(p, s, op, pmm.owners, Seen(p))
  BY <1>0, <1>1, CallIsSomebodys
<1>3. op.call = "prepare" /\ cr3 = "kernel" /\ p # "kernel" /\ s.mem = <<>>
      /\ (\A w \in Window : s.states[w] = "free") /\ Len(op.got) = NImage
  BY <1>1, <1>2, SpaceAssumption
     DEF ProcOK, Calling, Committing, Tearing, Running, Applying, Unsettled, OpType
<1>4. space' = [space EXCEPT ![p] = s1]
  BY <1>0 DEF Publish
<1>5. NImage \in Nat \ {0} /\ NWindows \in Nat \ {0} /\ NPages \in Nat \ {0}
  BY SpaceAssumption
<1>6. op.got \in Seq(1..NPages)
  BY <1>2 DEF OpType
<1>7. /\ s1.mem = op.got /\ s1.states = [w \in Window |-> "free"] /\ s1.pages = [w \in Window |-> 0]
      /\ s1.entries = [w \in Window |-> Absent] /\ s1.reserved = 0
      /\ s1.committed = 0 /\ s1.broken = 0
  BY DEF Empty
<1>8. s1 \in SpaceType
  <2>1. Absent \in Entry64
    BY <1>5 DEF Absent, Entry64
  <2> QED  BY <1>5, <1>6, <2>1 DEF SpaceType, Empty
<1> HIDE DEF s1
<1>9. Books(s1, Idle)
  <2>1. Cardinality({}) = 0
    BY FS_EmptySet
  <2>2. /\ Window \ InState(s1, "free") = {} /\ InState(s1, "committed") = {}
        /\ InState(s1, "broken") = {}
    BY <1>7 DEF InState
  <2>3. \A i, j \in DOMAIN s1.mem : s1.mem[i] = s1.mem[j] => i = j
    BY <1>2, <1>7 DEF ProcOK, Charged
  <2>4. Len(s1.mem) = NImage
    BY <1>3, <1>7
  <2>5. s1.mem # <<>>
    BY <1>5, <2>4
  <2> QED  BY <1>7, <2>1, <2>2, <2>3, <2>4, <2>5 DEF Books
<1>10. Charged(p, s1, Idle, pmm.owners)
  <2>1. Idle.got = <<>> /\ Idle.call = "none" /\ DOMAIN <<>> = {}
    BY IdleFacts
  <2>2. \A w \in Window : s.pages[w] = 0
    BY <1>2, <1>3 DEF ProcOK, Books
  <2>3. \A f \in 1..NPages : ~(\E w \in Window : s.pages[w] = f) /\ ~(\E w \in Window : s1.pages[w] = f)
    BY <1>7, <2>2
  <2>4. \A f \in 1..NPages : pmm.owners[f] # AnonOwner[p]
    BY <1>2, <1>3, <2>3 DEF ProcOK, Charged
  <2>5. DOMAIN s.mem = {}
    BY <1>3
  <2>6. \A f \in 1..NPages : pmm.owners[f] = ImageOwner[p] <=> \E i \in DOMAIN s1.mem : s1.mem[i] = f
    BY <1>2, <1>3, <1>7, <2>5 DEF ProcOK, Charged
  <2> QED  BY <2>1, <2>3, <2>4, <2>6 DEF Charged
<1>11. Seen(p)' = {}
  BY <1>1, <1>3 DEF Seen
<1>12. Mapped(s1, Idle) /\ Cached(s1, Idle, Seen(p)')
  <2>1. Pushed(Idle) = {} /\ Pulled(Idle) = {}
    BY IdleFacts DEF Plain, Pushed, Pulled
  <2> QED  BY <1>7, <1>11, <2>1 DEF Mapped, Cached
<1>13. ProcOK(p, s1, op', pmm'.owners, Seen(p)')
  BY <1>1, <1>9, <1>10, <1>12, IdleCalls DEF ProcOK
<1>14. tlb \subseteq Translation /\ Good(pmm) /\ cr3 # p
  BY <1>2, <1>3 DEF Types
<1>15. op' \in OpType /\ op'.call = "none" /\ op'.proc = "kernel"
  BY <1>1, IdleFacts
<1> QED  BY <1>1, <1>2, <1>3, <1>4, <1>8, <1>13, <1>14, <1>15, Step
-----------------------------------------------------------------------------
(* The transaction.                                                         *)

\* Only the page-table entries move.
LEMMA EntriesMove ==
    ASSUME NEW p, NEW s, NEW s1, NEW o, NEW owners, NEW T,
           s1.mem = s.mem, s1.states = s.states, s1.pages = s.pages, s1.reserved = s.reserved,
           s1.committed = s.committed, s1.broken = s.broken
    PROVE  /\ Books(s, o) => Books(s1, o)
           /\ Charged(p, s, o, owners) => Charged(p, s1, o, owners)
           /\ Cached(s, o, T) => Cached(s1, o, T)
           /\ Calling(s, o) => Calling(s1, o)
<1>1. \A st : InState(s1, st) = InState(s, st)
  BY DEF InState
<1>2. Books(s, o) => Books(s1, o)
  BY <1>1 DEF Books
<1>3. Charged(p, s, o, owners) => Charged(p, s1, o, owners)
  BY DEF Charged
<1>4. Cached(s, o, T) => Cached(s1, o, T)
  BY DEF Cached
<1>5. (Committing(s, o) <=> Committing(s1, o)) /\ (Tearing(s, o) <=> Tearing(s1, o))
  BY DEF Committing, Tearing, Unmaps
<1>6. Calling(s, o) => Calling(s1, o)
  BY <1>5 DEF Calling
<1> QED  BY <1>2, <1>3, <1>4, <1>6

\* What a transaction in progress knows of its changes.
LEMMA InTransaction ==
    ASSUME IInv, op.pc \in Applying
    PROVE  LET p == op.proc  s == space[p] IN
           /\ p \in Proc /\ p # "kernel" /\ op.call # "none" /\ Types /\ Running /\ op \in OpType
           /\ s \in SpaceType /\ Seen(p) \subseteq Translation
           /\ ProcOK(p, s, op, pmm.owners, Seen(p)) /\ s.mem # <<>>
           /\ Len(op.changes) \in Nat \ {0} /\ DOMAIN op.changes = 1..Len(op.changes)
           /\ \A k \in 1..Len(op.changes) : op.changes[k] \in Change
           /\ op.applied \in Nat /\ op.applied <= Len(op.changes)
           /\ \/ op.call = "commit" /\ Committing(s, op)
              \/ op.call \in {"release", "exit", "prepare"} /\ Tearing(s, op) /\ Unmaps(s, op)
<1> DEFINE p == op.proc
           s == space[p]
<1>0. op.pc \notin {"idle", "alloc", "undo", "free", "scan", "unimage", "publish"}
  BY DEF Applying, Unsettled
<1>1. /\ p \in Proc /\ op.call # "none" /\ Types /\ Running /\ op \in OpType /\ s \in SpaceType
      /\ ProcOK(p, s, op, pmm.owners, Seen(p))
  BY <1>0, CallIsSomebodys
<1>2. p # "kernel"
  BY <1>1, SpaceAssumption
<1>3. Seen(p) \subseteq Translation
  BY <1>1 DEF Seen, Types
<1>4. Calling(s, op) /\ Progress(op) /\ op.changes # <<>> /\ s.mem # <<>>
  BY <1>1 DEF ProcOK, Calling, Progress
<1>5. op.changes \in Seq(Change) /\ op.applied \in Nat
  BY <1>1 DEF OpType
<1>6. /\ Len(op.changes) \in Nat \ {0} /\ DOMAIN op.changes = 1..Len(op.changes)
      /\ \A k \in 1..Len(op.changes) : op.changes[k] \in Change
  <2> DEFINE q == op.changes
  <2> HIDE DEF q
  <2>1. q \in Seq(Change) /\ q # <<>>
    BY <1>4, <1>5 DEF q
  <2>2. Len(q) \in Nat \ {0} /\ DOMAIN q = 1..Len(q) /\ \A k \in 1..Len(q) : q[k] \in Change
    BY <2>1, LenProperties, ElementOfSeq, EmptySeq
  <2> QED  BY <2>2 DEF q
<1>7. op.applied <= Len(op.changes)
  BY <1>0, <1>4, <1>5, <1>6 DEF Progress, Applying, Unsettled
<1>8. \/ op.call = "commit" /\ Committing(s, op)
      \/ op.call \in {"release", "exit", "prepare"} /\ Tearing(s, op) /\ Unmaps(s, op)
  BY <1>0, <1>1, <1>4 DEF Calling, Tearing, OpType
<1> QED  BY <1>1, <1>2, <1>3, <1>4, <1>5, <1>6, <1>7, <1>8

LEMMA Written == IInv /\ WriteEntry => IInv'
<1> SUFFICES ASSUME IInv, WriteEntry PROVE IInv'
  OBVIOUS
<1>0. op.pc = "write" /\ op.pc \in Applying /\ op.pc # "idle" /\ UNCHANGED <<pmm, cr3, tlb>>
  BY DEF WriteEntry, Applying, Unsettled
<1>00. PICK p \in Proc : p = op.proc
  BY <1>0, InTransaction
<1> DEFINE s == space[p]
           n == Len(op.changes)
           k == op.applied + 1
           c == op.changes[k]
           w == c.window
           s1 == [s EXCEPT !.entries[w] = c.after]
<1>1. /\ op.proc = p /\ p # "kernel" /\ op.call # "none" /\ Types /\ Running /\ op \in OpType
      /\ s \in SpaceType /\ Seen(p) \subseteq Translation
      /\ ProcOK(p, s, op, pmm.owners, Seen(p)) /\ s.mem # <<>>
      /\ n \in Nat \ {0} /\ DOMAIN op.changes = 1..n
      /\ \A i \in 1..n : op.changes[i] \in Change
      /\ op.applied \in Nat
      /\ \/ op.call = "commit" /\ Committing(s, op)
         \/ op.call \in {"release", "exit", "prepare"} /\ Tearing(s, op) /\ Unmaps(s, op)
  BY <1>0, <1>00, InTransaction
<1>2. op.applied < n
  BY <1>0, <1>1 DEF ProcOK, Calling, Progress
<1> HIDE DEF n
<1>3. k \in 1..n /\ c \in Change
  BY <1>1, <1>2
<1>4. space' = [space EXCEPT ![p] = s1]
  BY <1>00, <1>1 DEF WriteEntry, Types
<1>5. PICK pc \in {"flush", "write", "restore"} :
         /\ op' = [op EXCEPT !.applied = k, !.pc = pc]
         /\ (pc = "flush" => k = n) /\ (pc = "write" => k # n)
  BY DEF WriteEntry, n
<1> HIDE DEF k, c
<1>6. w \in Window /\ c.after \in Entry64
  BY <1>3 DEF Change
<1>7. s1.entries = [s.entries EXCEPT ![w] = c.after]
      /\ s1.mem = s.mem /\ s1.states = s.states /\ s1.pages = s.pages
      /\ s1.reserved = s.reserved /\ s1.committed = s.committed /\ s1.broken = s.broken
  BY <1>1 DEF SpaceType
<1>8. s1 \in SpaceType
  BY <1>1, <1>6 DEF SpaceType
<1>9. /\ op' \in OpType /\ op'.pc = pc /\ op'.applied = k /\ op'.call = op.call /\ op'.proc = p
      /\ op'.first = op.first /\ op'.count = op.count /\ op'.got = op.got /\ op'.changes = op.changes
  <2>1. k \in Nat
    BY <1>1, <1>3
  <2>2. op' = [op EXCEPT !.applied = k, !.pc = pc] /\ op \in OpType /\ op.proc = p
    BY <1>1, <1>5
  <2> QED  BY <2>1, <2>2 DEF OpType, Applying, Unsettled
<1> HIDE DEF s1, w, s
<1>10. k = op.applied + 1 /\ n = Len(op.changes) /\ c = op.changes[k] /\ w = c.window
  BY DEF k, n, c, w
<1>11. op.changes # <<>> /\ op'.pc \in Applying /\ op'.pc \in Unsettled
  BY <1>0, <1>1, <1>9 DEF ProcOK, Calling, Progress, Applying, Unsettled
<1>12. Progress(op')
  BY <1>1, <1>3, <1>5, <1>9, <1>10, <1>11 DEF Progress, Applying, Unsettled
<1>13. Calling(s, op') /\ Books(s, op') /\ Charged(p, s, op', pmm.owners)
  BY <1>0, <1>1, <1>9, <1>11, <1>12, Advances, SameBooks, SameCharges DEF ProcOK
<1>14. Cached(s, op', Seen(p))
  BY <1>0, <1>1, <1>3, <1>9, <1>10, <1>11 DEF ProcOK, Cached, Unsettled
<1>15. /\ Calling(s1, op') /\ Books(s1, op') /\ Charged(p, s1, op', pmm.owners)
       /\ Cached(s1, op', Seen(p))
  BY <1>7, <1>13, <1>14, EntriesMove
<1>16. \A v : v \in Touched(op') <=> v \in Touched(op) \/ v = w
  <2>1. 1..k = 1..op.applied \cup {k}
    BY <1>1, <1>10
  <2> QED  BY <1>9, <1>10, <2>1 DEF Touched
<1>17. /\ s1.entries[w] = c.after
       /\ \A v \in Window : v # w => s1.entries[v] = s.entries[v]
  BY <1>1, <1>6, <1>7 DEF SpaceType
<1>18. Mapped(s1, op')
  <2>1. CASE op.call = "commit" /\ Committing(s, op)
    <3>1. /\ w = op.first + k - 1 /\ c.after = Present(op.got[k]) /\ s.states[w] = "reserved"
          /\ op.first \in Nat
      <4>1. /\ op.changes = [i \in 1..op.count |-> [window |-> op.first + i - 1,
                              before |-> Absent, after |-> Present(op.got[i])]]
            /\ \A v \in RunOf(op) : s.states[v] = "reserved"
        BY <1>0, <2>1 DEF Committing
      <4>2. k \in 1..op.count
        BY <1>1, <1>3, <4>1
      <4>3. op.first \in Nat /\ op.count \in Nat
        BY <1>1 DEF OpType
      <4>4. op.first + k - 1 \in RunOf(op)
        BY <4>2, <4>3 DEF RunOf, Run
      <4> QED  BY <1>10, <4>1, <4>2, <4>3, <4>4
    <3>2. Pushed(op') = Touched(op') /\ Pushed(op) = Touched(op) /\ Pulled(op') = {} /\ Pulled(op) = {}
      BY <1>0, <1>9, <1>11, <2>1 DEF Pushed, Pulled, Unsettled
    <3>3. s1.entries[w].frame = op.got[w - op.first + 1]
      <4>1. w - op.first + 1 = k
        BY <1>1, <1>3, <3>1
      <4> QED  BY <1>17, <3>1, <4>1 DEF Present
    <3>4. Mapped(s, op)
      BY <1>1 DEF ProcOK
    <3> QED  BY <1>7, <1>9, <1>16, <1>17, <3>1, <3>2, <3>3, <3>4 DEF Mapped
  <2>2. CASE op.call \in {"release", "exit", "prepare"} /\ Unmaps(s, op)
    <3>1. c.after = Absent /\ s.states[w] = "committed"
      BY <1>1, <1>3, <1>10, <2>2 DEF Unmaps
    <3>2. Pulled(op') = Touched(op') /\ Pulled(op) = Touched(op) /\ Pushed(op') = {} /\ Pushed(op) = {}
      BY <1>0, <1>9, <1>11, <2>2 DEF Pushed, Pulled, Unsettled
    <3>4. Mapped(s, op)
      BY <1>1 DEF ProcOK
    <3> QED  BY <1>7, <1>16, <1>17, <3>1, <3>2, <3>4 DEF Mapped
  <2> QED  BY <1>1, <2>1, <2>2
<1>19. Seen(p)' = Seen(p)
  BY <1>0 DEF Seen
<1>20. ProcOK(p, s1, op', pmm'.owners, Seen(p)')
  BY <1>0, <1>15, <1>18, <1>19 DEF ProcOK
<1>21. /\ op'.call \in {"commit", "release"} => cr3 = p
       /\ op'.call \in {"prepare", "exit"} => cr3 = "kernel"
       /\ op'.call # "none"
  BY <1>1, <1>9 DEF Running
<1>22. tlb \subseteq Translation /\ Good(pmm) /\ pmm' = pmm /\ tlb' = tlb /\ cr3' = cr3
  BY <1>0, <1>1 DEF Types
<1> QED  BY <1>1, <1>4, <1>7, <1>8, <1>9, <1>20, <1>21, <1>22, Step

\* A roll back puts every entry back as it was, but for the bits of the MMU.
LEMMA Restored == IInv /\ Restore => IInv'
<1> SUFFICES ASSUME IInv, Restore PROVE IInv'
  OBVIOUS
<1>0. op.pc = "restore" /\ op.pc \in Applying /\ op.pc # "idle" /\ UNCHANGED <<pmm, cr3, tlb>>
  BY DEF Restore, Applying, Unsettled
<1>00. PICK p \in Proc : p = op.proc
  BY <1>0, InTransaction
<1> DEFINE s == space[p]
           n == Len(op.changes)
           undone(w) == {k \in 1..op.applied : op.changes[k].window = w}
           en == [w \in Window |-> IF undone(w) = {} THEN s.entries[w]
                                   ELSE op.changes[CHOOSE k \in undone(w) : TRUE].before]
           s1 == [s EXCEPT !.entries = en]
<1>1. /\ op.proc = p /\ p # "kernel" /\ op.call # "none" /\ Types /\ Running /\ op \in OpType
      /\ s \in SpaceType /\ Seen(p) \subseteq Translation
      /\ ProcOK(p, s, op, pmm.owners, Seen(p)) /\ s.mem # <<>>
      /\ n \in Nat \ {0} /\ DOMAIN op.changes = 1..n
      /\ \A i \in 1..n : op.changes[i] \in Change
      /\ op.applied \in Nat /\ op.applied <= n
      /\ \/ op.call = "commit" /\ Committing(s, op)
         \/ op.call \in {"release", "exit", "prepare"} /\ Tearing(s, op) /\ Unmaps(s, op)
  BY <1>0, <1>00, InTransaction
<1>2. space' = [space EXCEPT ![p] = s1] /\ op' = [op EXCEPT !.pc = "reflush"]
  BY <1>00, <1>1 DEF Restore, Types
<1> HIDE DEF n
<1>3. \A w \in Window : \/ w \notin Touched(op) /\ en[w] = s.entries[w]
                        \/ \E k \in 1..n : /\ op.changes[k].window = w
                                           /\ w \in Touched(op) /\ en[w] = op.changes[k].before
  <2> SUFFICES ASSUME NEW w \in Window
               PROVE  \/ w \notin Touched(op) /\ en[w] = s.entries[w]
                      \/ \E k \in 1..n : /\ op.changes[k].window = w
                                         /\ w \in Touched(op) /\ en[w] = op.changes[k].before
    OBVIOUS
  <2>1. CASE undone(w) = {}
    <3>1. w \notin Touched(op)
      BY <2>1 DEF Touched
    <3> QED  BY <2>1, <3>1
  <2>2. CASE undone(w) # {}
    <3> DEFINE k == CHOOSE i \in undone(w) : TRUE
    <3>1. k \in undone(w)
      BY <2>2
    <3>2. en[w] = op.changes[k].before
      BY <2>2
    <3> HIDE DEF k, en
    <3>3. k \in 1..op.applied /\ op.changes[k].window = w
      BY <3>1
    <3>4. k \in 1..n /\ w \in Touched(op)
      BY <1>1, <3>3 DEF Touched
    <3> QED  BY <3>2, <3>3, <3>4
  <2> QED  BY <2>1, <2>2
<1>4. DOMAIN en = Window
  OBVIOUS
<1>5. en \in [Window -> Entry64]
  <2>1. ASSUME NEW w \in Window PROVE en[w] \in Entry64
    BY <1>1, <1>3 DEF Change, SpaceType
  <2> QED  BY <2>1
<1> HIDE DEF en
<1>6. /\ s1.entries = en /\ s1 \in SpaceType
      /\ s1.mem = s.mem /\ s1.states = s.states /\ s1.pages = s.pages
      /\ s1.reserved = s.reserved /\ s1.committed = s.committed /\ s1.broken = s.broken
  BY <1>1, <1>5 DEF SpaceType
<1>7. /\ op' \in OpType /\ op'.pc = "reflush" /\ op'.applied = op.applied /\ op'.call = op.call
      /\ op'.proc = p /\ op'.first = op.first /\ op'.count = op.count /\ op'.got = op.got
      /\ op'.changes = op.changes
  BY <1>1, <1>2, PcMoves
<1> HIDE DEF s1, s
<1>8. Progress(op')
  <2>1. n = Len(op.changes)
    BY DEF n
  <2>2. op.applied \in 1..n /\ op.changes # <<>>
    BY <1>0, <1>1, <2>1 DEF ProcOK, Calling, Progress
  <2> QED  BY <1>7, <2>1, <2>2 DEF Progress, Applying, Unsettled
<1>9. Calling(s, op') /\ Books(s, op') /\ Charged(p, s, op', pmm.owners)
  BY <1>0, <1>1, <1>7, <1>8, Advances, SameBooks, SameCharges DEF ProcOK, Applying
<1>10. Cached(s, op', Seen(p))
  BY <1>0, <1>1, <1>7 DEF ProcOK, Cached, Unsettled
<1>11. /\ Calling(s1, op') /\ Books(s1, op') /\ Charged(p, s1, op', pmm.owners)
       /\ Cached(s1, op', Seen(p))
  BY <1>6, <1>9, <1>10, EntriesMove
<1>12. Pushed(op') = {} /\ Pulled(op') = {}
  BY <1>7 DEF Pushed, Pulled, Unsettled
<1>13. Mapped(s, op)
  BY <1>1 DEF ProcOK
<1>14. Mapped(s1, op')
  <2>1. CASE op.call = "commit" /\ Committing(s, op)
    <3>1. Pushed(op) = Touched(op) /\ Pulled(op) = {}
      BY <1>0, <2>1 DEF Pushed, Pulled, Unsettled
    <3>2. \A k \in 1..n : op.changes[k].before = Absent /\ s.states[op.changes[k].window] = "reserved"
      <4>1. /\ op.changes = [i \in 1..op.count |-> [window |-> op.first + i - 1,
                              before |-> Absent, after |-> Present(op.got[i])]]
            /\ \A v \in RunOf(op) : s.states[v] = "reserved"
        BY <1>0, <2>1 DEF Committing
      <4>2. op.first \in Nat /\ op.count \in Nat
        BY <1>1 DEF OpType
      <4>3. \A k \in 1..op.count : op.first + k - 1 \in RunOf(op)
        BY <4>2 DEF RunOf, Run
      <4>4. \A k \in 1..n : k \in 1..op.count
        BY <1>1, <4>1
      <4> QED  BY <4>1, <4>3, <4>4
    <3> QED  BY <1>3, <1>6, <1>12, <1>13, <3>1, <3>2 DEF Mapped
  <2>2. CASE op.call \in {"release", "exit", "prepare"} /\ Unmaps(s, op)
    <3>1. Pulled(op) = Touched(op) /\ Pushed(op) = {}
      BY <1>0, <2>2 DEF Pushed, Pulled, Unsettled
    <3>2. \A k \in 1..n : /\ s.states[op.changes[k].window] = "committed"
                          /\ op.changes[k].before.frame = s.pages[op.changes[k].window]
      BY <1>1, <2>2 DEF Unmaps
    <3> QED  BY <1>3, <1>6, <1>12, <1>13, <3>1, <3>2 DEF Mapped
  <2> QED  BY <1>1, <2>1, <2>2
<1>15. Seen(p)' = Seen(p)
  BY <1>0 DEF Seen
<1>16. ProcOK(p, s1, op', pmm'.owners, Seen(p)')
  BY <1>0, <1>11, <1>14, <1>15 DEF ProcOK
<1>17. /\ op'.call \in {"commit", "release"} => cr3 = p
       /\ op'.call \in {"prepare", "exit"} => cr3 = "kernel"
       /\ op'.call # "none"
  BY <1>1, <1>7 DEF Running
<1>18. tlb \subseteq Translation /\ Good(pmm) /\ pmm' = pmm /\ tlb' = tlb /\ cr3' = cr3
  BY <1>0, <1>1 DEF Types
<1> QED  BY <1>1, <1>2, <1>6, <1>7, <1>16, <1>17, <1>18, Step

\* After a flush the running process has no translation left.
LEMMA Forgets ==
    ASSUME NEW p \in Proc, op.proc = p, cr3' = cr3, tlb' = process64_flush_anonymous
    PROVE  /\ Seen(p)' = {} /\ tlb' \subseteq tlb
           /\ cr3 = p \/ tlb' = tlb
BY DEF Seen, process64_flush_anonymous

LEMMA Reflushes == IInv /\ Reflushed => IInv'
<1> SUFFICES ASSUME IInv, Reflushed PROVE IInv'
  OBVIOUS
<1>0. op.pc = "reflush" /\ op.pc \in Applying /\ op.pc # "idle" /\ UNCHANGED <<pmm, space, cr3>>
  BY DEF Reflushed, Applying, Unsettled
<1>00. PICK p \in Proc : p = op.proc
  BY <1>0, InTransaction
<1> DEFINE s == space[p]
<1>1. /\ op.proc = p /\ p # "kernel" /\ op.call # "none" /\ Types /\ Running /\ op \in OpType
      /\ s \in SpaceType /\ ProcOK(p, s, op, pmm.owners, Seen(p)) /\ s.mem # <<>>
  BY <1>0, <1>00, InTransaction
<1>2. op' = [op EXCEPT !.pc = "compare"] /\ tlb' = process64_flush_anonymous
  BY DEF Reflushed
<1>3. Seen(p)' = {} /\ tlb' \subseteq Translation /\ (cr3 = p \/ tlb' = tlb)
  BY <1>0, <1>1, <1>2, Forgets DEF Types
<1>4. /\ op' \in OpType /\ op'.pc = "compare" /\ op'.applied = op.applied /\ op'.call = op.call
      /\ op'.proc = p /\ op'.first = op.first /\ op'.count = op.count /\ op'.got = op.got
      /\ op'.changes = op.changes
  BY <1>1, <1>2, PcMoves
<1>5. Progress(op')
  BY <1>0, <1>1, <1>4 DEF ProcOK, Calling, Progress, Applying, Unsettled
<1>6. Calling(s, op') /\ Books(s, op') /\ Charged(p, s, op', pmm.owners)
  BY <1>0, <1>1, <1>4, <1>5, Advances, SameBooks, SameCharges DEF ProcOK, Applying
<1>7. /\ Pushed(op') = {} /\ Pulled(op') = {} /\ Pushed(op) = {} /\ Pulled(op) = {}
  BY <1>0, <1>4 DEF Pushed, Pulled, Unsettled
<1>8. Mapped(s, op')
  BY <1>1, <1>7, SameMaps DEF ProcOK
<1>9. ProcOK(p, s, op', pmm'.owners, Seen(p)')
  BY <1>0, <1>3, <1>6, <1>8 DEF ProcOK, Cached
<1>10. /\ op'.call \in {"commit", "release"} => cr3 = p
       /\ op'.call \in {"prepare", "exit"} => cr3 = "kernel"
       /\ op'.call # "none"
  BY <1>1, <1>4 DEF Running
<1>11. Good(pmm) /\ pmm' = pmm /\ cr3' = cr3 /\ space' = [space EXCEPT ![p] = s]
  BY <1>0, <1>1 DEF Types
<1> QED  BY <1>1, <1>3, <1>4, <1>9, <1>10, <1>11, Step

\* The run of a commit, recorded as committed or as broken.
CommittedAs(s, st) ==
    IF st = "committed" THEN [Recorded(s, st) EXCEPT !.committed = @ + op.count]
    ELSE [Recorded(s, st) EXCEPT !.broken = @ + op.count]

LEMMA CommitRecorded ==
    ASSUME IInv, op.call = "commit", op.pc \in Applying, NEW p \in Proc, op.proc = p,
           NEW st \in {"committed", "broken"}
    PROVE  LET s == space[p]
               s2 == CommittedAs(s, st)
           IN  /\ s2 \in SpaceType /\ s2.mem = s.mem /\ s2.entries = s.entries
               /\ Books(s2, Idle) /\ Charged(p, s2, Idle, pmm.owners)
               /\ \A w \in RunOf(op) : /\ w \in Window /\ w - op.first + 1 \in 1..op.count
                                       /\ s2.states[w] = st /\ s2.pages[w] = op.got[w - op.first + 1]
                                       /\ s.states[w] = "reserved" /\ s.pages[w] = 0
               /\ \A w \in Window : w \notin RunOf(op) =>
                        s2.states[w] = s.states[w] /\ s2.pages[w] = s.pages[w]
<1> DEFINE s == space[p]
           R == RunOf(op)
           pg == [w \in Window |-> IF w \in Run(op.first, op.count) THEN op.got[w - op.first + 1]
                                   ELSE s.pages[w]]
           sts == [w \in Window |-> IF w \in Run(op.first, op.count) THEN st ELSE s.states[w]]
           r == Recorded(s, st)
           s2 == CommittedAs(s, st)
<1>1. /\ Types /\ op \in OpType /\ s \in SpaceType /\ ProcOK(p, s, op, pmm.owners, Seen(p))
      /\ Committing(s, op) /\ s.mem # <<>>
  BY InTransaction
<1>2. /\ op.first \in Nat /\ op.count \in Nat /\ op.count \in 1..NWindows /\ R \subseteq Window
      /\ Len(op.got) = op.count /\ NWindows \in Nat
      /\ \A w \in R : s.states[w] = "reserved"
  BY <1>1, SpaceAssumption DEF Committing, OpType
<1>3. DOMAIN op.got = 1..op.count /\ \A i \in 1..op.count : op.got[i] \in 1..NPages
  <2> DEFINE q == op.got
             S == 1..NPages
  <2> HIDE DEF q, S
  <2>1. q \in Seq(S) /\ Len(q) = op.count
    BY <1>1, <1>2 DEF q, S, OpType
  <2>2. DOMAIN q = 1..op.count /\ \A i \in 1..op.count : q[i] \in S
    BY <2>1, LenProperties, ElementOfSeq
  <2> QED  BY <2>2 DEF q, S
<1>4. /\ \A w \in R : w \in Window /\ w - op.first + 1 \in 1..op.count
      /\ \A i \in 1..op.count : op.first + i - 1 \in R /\ (op.first + i - 1) - op.first + 1 = i
  <2>1. R = op.first..op.first + op.count - 1
    BY DEF RunOf, Run
  <2>2. op.first \in Nat /\ op.count \in Nat
    BY <1>2
  <2> HIDE DEF R
  <2>3. \A w \in R : w - op.first + 1 \in 1..op.count
    BY <2>1, <2>2
  <2>4. \A i \in 1..op.count : op.first + i - 1 \in R /\ (op.first + i - 1) - op.first + 1 = i
    BY <2>1, <2>2
  <2> QED  BY <1>2, <2>3, <2>4
<1>5. r = [s EXCEPT !.pages = pg, !.states = sts]
  BY DEF Recorded
<1>6. /\ \A w \in R : pg[w] = op.got[w - op.first + 1] /\ pg[w] \in 1..NPages /\ sts[w] = st
      /\ \A w \in Window : w \notin R => pg[w] = s.pages[w] /\ sts[w] = s.states[w]
  BY <1>2, <1>3, <1>4 DEF RunOf
<1>7. /\ pg \in [Window -> 0..NPages]
      /\ sts \in [Window -> {"free", "reserved", "committed", "broken"}]
  <2>1. \A w \in Window : pg[w] \in 0..NPages
    <3>1. \A w \in Window : s.pages[w] \in 0..NPages
      BY <1>1 DEF SpaceType
    <3>2. DOMAIN pg = Window
      OBVIOUS
    <3>3. 1..NPages \subseteq 0..NPages
      BY SpaceAssumption
    <3> HIDE DEF pg, R
    <3> QED  BY <1>6, <3>1, <3>3
  <2>2. \A w \in Window : sts[w] \in {"free", "reserved", "committed", "broken"}
    BY <1>1 DEF SpaceType
  <2> QED  BY <2>1, <2>2
<1> HIDE DEF pg, sts, R
<1>8. /\ r.mem = s.mem /\ r.entries = s.entries /\ r.pages = pg /\ r.states = sts
      /\ r.reserved = s.reserved /\ r.committed = s.committed /\ r.broken = s.broken
      /\ DOMAIN r = {"mem", "states", "pages", "entries", "reserved", "committed", "broken"}
  BY <1>1, <1>5 DEF SpaceType
<1>9. /\ s2.mem = s.mem /\ s2.entries = s.entries /\ s2.pages = pg /\ s2.states = sts
      /\ s2.reserved = s.reserved
      /\ s2.committed = IF st = "committed" THEN s.committed + op.count ELSE s.committed
      /\ s2.broken = IF st = "committed" THEN s.broken ELSE s.broken + op.count
  <2> HIDE DEF r
  <2>1. s2 = IF st = "committed" THEN [r EXCEPT !.committed = @ + op.count]
             ELSE [r EXCEPT !.broken = @ + op.count]
    BY DEF CommittedAs, r
  <2> QED  BY <1>8, <2>1
<1>10. /\ InState(s2, st) = InState(s, st) \cup R /\ InState(s, st) \cap R = {}
       /\ InState(s2, "free") = InState(s, "free")
       /\ \A x \in {"committed", "broken"} : x # st => InState(s2, x) = InState(s, x)
  BY <1>2, <1>6, <1>9 DEF InState
<1>11. Cardinality(InState(s2, st)) = Cardinality(InState(s, st)) + op.count
  <2>1. Cardinality(R) = op.count
    BY <1>2, RunCount DEF R, RunOf
  <2>2. InState(s, st) \subseteq Window
    BY DEF InState
  <2> QED  BY <1>2, <1>10, <2>1, <2>2, Together
<1>12. /\ s2.reserved = Cardinality(Window \ InState(s2, "free"))
       /\ s2.committed = Cardinality(InState(s2, "committed"))
       /\ s2.broken = Cardinality(InState(s2, "broken"))
  <2>1. /\ s.reserved = Cardinality(Window \ InState(s, "free"))
        /\ s.committed = Cardinality(InState(s, "committed"))
        /\ s.broken = Cardinality(InState(s, "broken"))
    BY <1>1 DEF ProcOK, Books
  <2> HIDE DEF s2, r, s
  <2>2. CASE st = "committed"
    BY <1>9, <1>10, <1>11, <2>1, <2>2
  <2>3. CASE st = "broken"
    BY <1>9, <1>10, <1>11, <2>1, <2>3
  <2> QED  BY <2>2, <2>3
<1>13. s2 \in SpaceType
  <2>1. /\ s2.reserved \in 0..NWindows /\ s2.committed \in 0..NWindows /\ s2.broken \in 0..NWindows
    <3>1. \A x : InState(s2, x) \subseteq Window
      BY DEF InState
    <3>2. Window \ InState(s2, "free") \subseteq Window
      OBVIOUS
    <3> QED  BY <1>12, <3>1, <3>2, WindowSets
  <2>2. s2 = [r EXCEPT !.committed = s2.committed, !.broken = s2.broken]
    <3>1. s2 = IF st = "committed" THEN [r EXCEPT !.committed = @ + op.count]
               ELSE [r EXCEPT !.broken = @ + op.count]
      BY DEF CommittedAs
    <3> HIDE DEF r, s2
    <3> QED  BY <1>8, <3>1
  <2>3. r = [s EXCEPT !.pages = pg, !.states = sts]
    BY <1>5
  <2> HIDE DEF r, s2
  <2>4. r \in SpaceType
    BY <1>1, <1>7, <2>3 DEF SpaceType
  <2> QED  BY <2>1, <2>2, <2>4 DEF SpaceType
<1> HIDE DEF s2, r, s
<1>14. \A i, j \in 1..op.count : op.got[i] = op.got[j] => i = j
  BY <1>1, <1>3 DEF ProcOK, Charged
<1>15. \A w \in Window, i \in 1..op.count : s.pages[w] # op.got[i]
  BY <1>1, <1>3 DEF ProcOK, Charged
<1>16. \A v, w \in Window : pg[v] = pg[w] => pg[v] = 0 \/ v = w
  <2> SUFFICES ASSUME NEW v \in Window, NEW w \in Window, pg[v] = pg[w] PROVE pg[v] = 0 \/ v = w
    OBVIOUS
  <2>1. CASE v \in R /\ w \in R
    <3>1. v - op.first + 1 = w - op.first + 1
      BY <1>4, <1>6, <1>14, <2>1
    <3>2. v \in Nat /\ w \in Nat
      BY <1>2 DEF Window
    <3> QED  BY <1>2, <3>1, <3>2
  <2>2. CASE v \notin R /\ w \notin R
    BY <1>1, <1>6, <2>2 DEF ProcOK, Books
  <2>3. CASE (v \in R) # (w \in R)
    BY <1>4, <1>6, <1>15, <2>3
  <2> QED  BY <2>1, <2>2, <2>3
<1>17. \A w \in Window : pg[w] = 0 <=> sts[w] \in {"free", "reserved"}
  <2>1. \A w \in Window : s.pages[w] = 0 <=> s.states[w] \in {"free", "reserved"}
    BY <1>1 DEF ProcOK, Books
  <2> QED  BY <1>6, <2>1, SpaceAssumption
<1>18. Books(s2, Idle)
  <2>1. /\ \A i, j \in DOMAIN s.mem : s.mem[i] = s.mem[j] => i = j
        /\ Len(s.mem) \in {0, NImage}
    BY <1>1 DEF ProcOK, Books, Applying, Unsettled
  <2> QED  BY <1>1, <1>9, <1>12, <1>16, <1>17, <2>1 DEF Books
<1>19. \A f \in 1..NPages : (\E w \in Window : pg[w] = f) <=>
          \/ \E w \in Window : s.pages[w] = f
          \/ \E i \in 1..op.count : op.got[i] = f
  <2> SUFFICES ASSUME NEW f \in 1..NPages
               PROVE  (\E w \in Window : pg[w] = f) <=>
                        \/ \E w \in Window : s.pages[w] = f
                        \/ \E i \in 1..op.count : op.got[i] = f
    OBVIOUS
  <2>1. ASSUME NEW w \in Window, pg[w] = f
        PROVE  (\E v \in Window : s.pages[v] = f) \/ \E i \in 1..op.count : op.got[i] = f
    BY <1>4, <1>6, <2>1
  <2>2. ASSUME NEW w \in Window, s.pages[w] = f PROVE \E v \in Window : pg[v] = f
    <3>1. w \notin R
      BY <1>1, <1>2, <2>2 DEF ProcOK, Books
    <3> QED  BY <1>6, <2>2, <3>1
  <2>3. ASSUME NEW i \in 1..op.count, op.got[i] = f PROVE \E v \in Window : pg[v] = f
    BY <1>4, <1>6, <2>3
  <2> QED  BY <2>1, <2>2, <2>3
<1>20. Charged(p, s2, Idle, pmm.owners)
  <2>1. Idle.got = <<>> /\ Idle.call = "none" /\ DOMAIN <<>> = {}
    BY IdleFacts
  <2>2. \A f \in 1..NPages : pmm.owners[f] = AnonOwner[p] <=> \E w \in Window : s2.pages[w] = f
    BY <1>1, <1>3, <1>9, <1>19 DEF ProcOK, Charged
  <2>3. \A f \in 1..NPages : pmm.owners[f] = ImageOwner[p] <=> \E i \in DOMAIN s2.mem : s2.mem[i] = f
    BY <1>1, <1>9 DEF ProcOK, Charged
  <2> QED  BY <2>1, <2>2, <2>3 DEF Charged
<1>21. \A w \in R : s.pages[w] = 0 /\ s.states[w] = "reserved"
  BY <1>1, <1>2 DEF ProcOK, Books
<1> QED  BY <1>4, <1>6, <1>9, <1>13, <1>18, <1>20, <1>21 DEF s2, s, R

\* The windows of a commit's changes are those of its run, in order.
LEMMA CommitTouches ==
    ASSUME NEW s, NEW o \in OpType, Committing(s, o), o.pc \in Applying, o.applied <= o.count
    PROVE  /\ Touched(o) \subseteq RunOf(o) /\ (o.applied = o.count => Touched(o) = RunOf(o))
           /\ \A k \in 1..o.applied : /\ o.changes[k].window = o.first + k - 1
                                      /\ o.changes[k].window - o.first + 1 = k
<1>1. o.first \in Nat /\ o.count \in Nat /\ o.applied \in Nat
  BY DEF OpType
<1>2. o.changes = [k \in 1..o.count |-> [window |-> o.first + k - 1,
                        before |-> Absent, after |-> Present(o.got[k])]]
  BY DEF Committing
<1>3. \A k \in 1..o.applied : o.changes[k].window = o.first + k - 1
  BY <1>1, <1>2
<1>4. \A k \in 1..o.applied : o.first + k - 1 \in RunOf(o) /\ (o.first + k - 1) - o.first + 1 = k
  BY <1>1 DEF RunOf, Run
<1>5. ASSUME o.applied = o.count, NEW w \in RunOf(o) PROVE w \in Touched(o)
  <2>1. w \in o.first..o.first + o.count - 1
    BY <1>5 DEF RunOf, Run
  <2>2. w - o.first + 1 \in 1..o.applied /\ o.first + (w - o.first + 1) - 1 = w
    BY <1>1, <1>5, <2>1
  <2> QED  BY <1>3, <2>2 DEF Touched
<1>6. Touched(o) \subseteq RunOf(o)
  BY <1>3, <1>4 DEF Touched
<1> QED  BY <1>3, <1>4, <1>5, <1>6

LEMMA FlushDone == IInv /\ Flushed => IInv'
<1> SUFFICES ASSUME IInv, Flushed PROVE IInv'
  OBVIOUS
<1>0. op.pc = "flush" /\ op.pc \in Applying /\ op.pc # "idle" /\ UNCHANGED <<pmm, cr3>>
      /\ tlb' = process64_flush_anonymous
  BY DEF Flushed, Applying, Unsettled
<1>00. PICK p \in Proc : p = op.proc
  BY <1>0, InTransaction
<1> DEFINE s == space[p]
           n == Len(op.changes)
<1>1. /\ op.proc = p /\ p # "kernel" /\ op.call # "none" /\ Types /\ Running /\ op \in OpType
      /\ s \in SpaceType /\ ProcOK(p, s, op, pmm.owners, Seen(p)) /\ s.mem # <<>>
      /\ n \in Nat \ {0} /\ DOMAIN op.changes = 1..n
      /\ \/ op.call = "commit" /\ Committing(s, op)
         \/ op.call \in {"release", "exit", "prepare"} /\ Tearing(s, op) /\ Unmaps(s, op)
  BY <1>0, <1>00, InTransaction
<1>2. op.applied = n
  BY <1>0, <1>1 DEF ProcOK, Calling, Progress
<1>3. Seen(p)' = {} /\ tlb' \subseteq Translation /\ (cr3 = p \/ tlb' = tlb)
  BY <1>0, <1>1, Forgets DEF Types
<1>4. Good(pmm) /\ pmm' = pmm /\ cr3' = cr3
  BY <1>0, <1>1 DEF Types
<1> HIDE DEF n
<1>5. CASE op.call = "commit" /\ Committing(s, op)
  <2> DEFINE s2 == CommittedAs(s, "committed")
  <2>1. op' = Idle /\ space' = [space EXCEPT ![p] = s2]
    BY <1>00, <1>1, <1>5 DEF Flushed, Settled, CommittedAs, Types
  <2>2. /\ s2 \in SpaceType /\ s2.mem = s.mem /\ s2.entries = s.entries
        /\ Books(s2, Idle) /\ Charged(p, s2, Idle, pmm.owners)
        /\ \A w \in RunOf(op) : /\ w - op.first + 1 \in 1..op.count /\ w \in Window
                                /\ s2.states[w] = "committed" /\ s2.pages[w] = op.got[w - op.first + 1]
                                /\ s.states[w] = "reserved"
        /\ \A w \in Window : w \notin RunOf(op) =>
                 s2.states[w] = s.states[w] /\ s2.pages[w] = s.pages[w]
    BY <1>0, <1>1, <1>5, CommitRecorded
  <2> HIDE DEF s2, s
  <2>3. Touched(op) = RunOf(op)
    <3>1. op.count \in Nat /\ n = op.count
      <4>1. DOMAIN op.changes = 1..op.count /\ op.count \in Nat
        BY <1>0, <1>1, <1>5 DEF Committing, OpType
      <4> QED  BY <1>1, <4>1
    <3> QED  BY <1>0, <1>1, <1>2, <1>5, <3>1, CommitTouches
  <2>4. Pushed(op) = RunOf(op) /\ Pulled(op) = {} /\ Pushed(Idle) = {} /\ Pulled(Idle) = {}
    BY <1>0, <1>5, <2>3, IdleFacts DEF Pushed, Pulled, Unsettled, Plain
  <2>5. Mapped(s2, Idle)
    <3>1. Mapped(s, op)
      BY <1>1 DEF ProcOK
    <3>2. \A w \in RunOf(op) : s2.entries[w].frame = s2.pages[w]
      BY <2>2, <2>4, <3>1 DEF Mapped
    <3> QED  BY <2>2, <2>4, <3>1, <3>2 DEF Mapped
  <2>6. ProcOK(p, s2, op', pmm'.owners, Seen(p)')
    BY <1>3, <1>4, <2>1, <2>2, <2>5, IdleCalls DEF ProcOK, Cached
  <2>7. op' \in OpType /\ op'.call = "none" /\ op'.proc = "kernel" /\ s2.mem # <<>>
    BY <1>1, <2>1, <2>2, IdleFacts
  <2> QED  BY <1>1, <1>3, <1>4, <2>1, <2>2, <2>6, <2>7, Step
<1>6. CASE op.call \in {"release", "exit", "prepare"} /\ Tearing(s, op) /\ Unmaps(s, op)
  <2>1. op' = [op EXCEPT !.pc = "free"] /\ space' = [space EXCEPT ![p] = s]
    BY <1>1, <1>6 DEF Flushed, Types
  <2>2. /\ op' \in OpType /\ op'.pc = "free" /\ op'.applied = op.applied /\ op'.call = op.call
        /\ op'.proc = p /\ op'.first = op.first /\ op'.count = op.count /\ op'.got = op.got
        /\ op'.changes = op.changes
    BY <1>1, <2>1, PcMoves
  <2>3. Books(s, op') /\ Charged(p, s, op', pmm.owners)
    BY <1>0, <1>1, <2>2, SameBooks, SameCharges DEF ProcOK
  <2>4. RunOf(op') = RunOf(op) /\ Touched(op) = {op.changes[k].window : k \in 1..n}
    BY <1>2, <2>2 DEF RunOf, Touched
  <2>5. /\ Pushed(op) = {} /\ Pulled(op) = Touched(op)
        /\ Pushed(op') = {} /\ Pulled(op') = RunOf(op)
    BY <1>0, <1>6, <2>2, <2>4 DEF Pushed, Pulled, Unsettled
  <2>6. Touched(op) \subseteq RunOf(op)
        /\ \A w \in RunOf(op) : s.states[w] = "committed" => w \in Touched(op)
    BY <1>1, <1>6, <2>4 DEF Unmaps
  <2>7. Mapped(s, op')
    BY <1>1, <2>5, <2>6 DEF ProcOK, Mapped
  <2>8. Calling(s, op')
    <3>1. Progress(op')
      BY <2>2 DEF Progress, Applying, Unsettled
    <3>2. Tearing(s, op')
      BY <1>6, <2>2, <2>4 DEF Tearing, Applying, Unsettled
    <3>3. Calling(s, op) /\ op.pc \notin {"alloc", "undo", "scan", "unimage", "publish"}
      BY <1>0, <1>1 DEF ProcOK
    <3>4. op'.call # "none" /\ op'.call # "commit" /\ op.call = op'.call
      BY <1>6, <2>2
    <3> QED  BY <1>1, <2>2, <3>1, <3>2, <3>3, <3>4 DEF Calling, Applying, Unsettled
  <2>9. ProcOK(p, s, op', pmm'.owners, Seen(p)')
    BY <1>3, <1>4, <2>3, <2>7, <2>8 DEF ProcOK, Cached
  <2>10. /\ op'.call \in {"commit", "release"} => cr3 = p
         /\ op'.call \in {"prepare", "exit"} => cr3 = "kernel"
         /\ op'.call # "none"
    BY <1>1, <2>2 DEF Running
  <2> QED  BY <1>1, <1>3, <1>4, <2>1, <2>2, <2>9, <2>10, Step
<1> QED  BY <1>1, <1>5, <1>6

\* A teardown nobody can roll back: its committed windows are broken.
LEMMA HitBroken ==
    ASSUME IInv, op.pc \in Applying, NEW p \in Proc, op.proc = p, op.call # "commit"
    PROVE  LET s == space[p]
               s2 == Broken(s)
           IN  /\ s2 \in SpaceType /\ s2.mem = s.mem /\ s2.entries = s.entries /\ s2.pages = s.pages
               /\ Books(s2, op) /\ Charged(p, s2, op, pmm.owners)
               /\ \A w \in Window : \/ s2.states[w] = s.states[w]
                                    \/ s.states[w] = "committed" /\ s2.states[w] = "broken"
<1> DEFINE s == space[p]
           hit == Run(op.first, op.count) \cap InState(s, "committed")
           sts == [w \in Window |-> IF w \in hit THEN "broken" ELSE s.states[w]]
           s2 == Broken(s)
<1>1. s \in SpaceType /\ ProcOK(p, s, op, pmm.owners, Seen(p)) /\ op.pc # "unimage" /\ s.mem # <<>>
  BY InTransaction DEF Applying, Unsettled
<1>2. s2 = [s EXCEPT !.states = sts, !.committed = @ - Cardinality(hit), !.broken = @ + Cardinality(hit)]
  BY DEF Broken
<1>3. hit \subseteq Window /\ hit \subseteq InState(s, "committed")
  BY DEF InState
<1>4. sts \in [Window -> {"free", "reserved", "committed", "broken"}]
  BY <1>1 DEF SpaceType
<1>5. /\ s2.mem = s.mem /\ s2.entries = s.entries /\ s2.pages = s.pages /\ s2.states = sts
      /\ s2.reserved = s.reserved /\ s2.committed = s.committed - Cardinality(hit)
      /\ s2.broken = s.broken + Cardinality(hit)
  <2> HIDE DEF hit, sts
  <2> QED  BY <1>1, <1>2 DEF SpaceType
<1>6. /\ \A w \in hit : s.states[w] = "committed" /\ sts[w] = "broken"
      /\ \A w \in Window : w \notin hit => sts[w] = s.states[w]
  BY <1>3 DEF InState
<1> HIDE DEF hit, sts, s2, s
<1>7. /\ InState(s2, "free") = InState(s, "free")
      /\ InState(s2, "committed") = InState(s, "committed") \ hit
      /\ InState(s2, "broken") = InState(s, "broken") \cup hit
      /\ InState(s, "broken") \cap hit = {}
  BY <1>3, <1>5, <1>6 DEF InState
<1>8. /\ \A x : InState(s, x) \subseteq Window /\ InState(s2, x) \subseteq Window
      /\ Window \ InState(s, "free") \subseteq Window
  BY DEF InState
<1>9. Cardinality(InState(s2, "broken")) = Cardinality(InState(s, "broken")) + Cardinality(hit)
  BY <1>3, <1>7, <1>8, Together
<1>10. Cardinality(InState(s2, "committed")) = Cardinality(InState(s, "committed")) - Cardinality(hit)
  <2> DEFINE A == InState(s2, "committed")
  <2>1. InState(s, "committed") = A \cup hit /\ A \cap hit = {} /\ A \subseteq Window
    BY <1>3, <1>7, <1>8
  <2>2. Cardinality(A) \in Nat /\ Cardinality(hit) \in Nat
    <3> HIDE DEF A
    <3> QED  BY <1>3, <2>1, WindowSets
  <2>3. Cardinality(A \cup hit) = Cardinality(A) + Cardinality(hit)
    <3> HIDE DEF A
    <3> QED  BY <1>3, <2>1, Together
  <2>4. Cardinality(InState(s, "committed")) = Cardinality(A \cup hit)
    BY <2>1
  <2>5. A = InState(s2, "committed")
    OBVIOUS
  <2> HIDE DEF A
  <2> QED  BY <2>2, <2>3, <2>4, <2>5
<1>11. /\ s2.reserved = Cardinality(Window \ InState(s2, "free"))
       /\ s2.committed = Cardinality(InState(s2, "committed"))
       /\ s2.broken = Cardinality(InState(s2, "broken"))
  BY <1>1, <1>5, <1>7, <1>9, <1>10 DEF ProcOK, Books
<1>12. s2 \in SpaceType
  <2>1. s2.committed \in 0..NWindows /\ s2.broken \in 0..NWindows
    BY <1>8, <1>11, WindowSets
  <2>2. s2 = [s EXCEPT !.states = sts, !.committed = s2.committed, !.broken = s2.broken]
    BY <1>1, <1>2, <1>5 DEF SpaceType
  <2> QED  BY <1>1, <1>4, <2>1, <2>2 DEF SpaceType
<1>13. \A w \in Window : s2.pages[w] = 0 <=> s2.states[w] \in {"free", "reserved"}
  BY <1>1, <1>5, <1>6 DEF ProcOK, Books
<1>14. Books(s2, op)
  BY <1>1, <1>5, <1>11, <1>13 DEF ProcOK, Books
<1>15. Charged(p, s2, op, pmm.owners)
  BY <1>1, <1>5 DEF ProcOK, Charged
<1> QED  BY <1>5, <1>6, <1>12, <1>14, <1>15 DEF s2, s

LEMMA RollBackFailed ==
    ASSUME IInv, op.pc \in {"reflush", "compare"}, RollbackFails
    PROVE  IInv'
<1>0. op.pc \in Applying /\ op.pc # "idle" /\ UNCHANGED <<pmm, cr3, tlb>>
  BY DEF RollbackFails, Applying, Unsettled
<1>00. PICK p \in Proc : p = op.proc
  BY <1>0, InTransaction
<1> DEFINE s == space[p]
           s2 == Broken(s)
<1>1. /\ op.proc = p /\ p # "kernel" /\ op.call # "none" /\ Types /\ Running /\ op \in OpType
      /\ s \in SpaceType /\ Seen(p) \subseteq Translation
      /\ ProcOK(p, s, op, pmm.owners, Seen(p)) /\ s.mem # <<>>
      /\ op.applied <= Len(op.changes)
      /\ \/ op.call = "commit" /\ Committing(s, op)
         \/ op.call \in {"release", "exit", "prepare"} /\ Tearing(s, op) /\ Unmaps(s, op)
  BY <1>0, <1>00, InTransaction
<1>2. /\ space' = [space EXCEPT ![p] = s2]
      /\ op' = IF op.call = "prepare" THEN [op EXCEPT !.pc = "undo"] ELSE Idle
  BY <1>00, <1>1 DEF RollbackFails, Failed, Types
<1>3. Good(pmm) /\ pmm' = pmm /\ cr3' = cr3 /\ tlb' = tlb /\ tlb \subseteq Translation
      /\ Seen(p)' = Seen(p)
  BY <1>0, <1>1 DEF Types, Seen
<1>4. Pushed(op) = {} /\ Pulled(op) = {}
  BY DEF Pushed, Pulled, Unsettled
<1>5. Pushed(Idle) = {} /\ Pulled(Idle) = {}
  BY IdleFacts DEF Plain, Pushed, Pulled
<1>6. Mapped(s, op)
  BY <1>1 DEF ProcOK
<1>7. \A w \in Window : s.pages[w] = 0 <=> s.states[w] \in {"free", "reserved"}
  BY <1>1 DEF ProcOK, Books
<1>8. NPages \in Nat /\ (\A t \in Seen(p) : t.window \in Window /\ t.frame # 0)
  BY <1>1, SpaceAssumption DEF Translation
<1>9. CASE op.call = "commit" /\ Committing(s, op)
  <2>1. s2 = CommittedAs(s, "broken")
    BY <1>9 DEF Broken, CommittedAs
  <2>2. /\ s2 \in SpaceType /\ s2.mem = s.mem /\ s2.entries = s.entries
        /\ Books(s2, Idle) /\ Charged(p, s2, Idle, pmm.owners)
        /\ \A w \in RunOf(op) : /\ w \in Window /\ s2.states[w] = "broken"
                                /\ s2.pages[w] = op.got[w - op.first + 1]
                                /\ s.states[w] = "reserved" /\ s.pages[w] = 0
        /\ \A w \in Window : w \notin RunOf(op) =>
                 s2.states[w] = s.states[w] /\ s2.pages[w] = s.pages[w]
    BY <1>0, <1>1, <1>9, <2>1, CommitRecorded
  <2> HIDE DEF s2, s
  <2>3. Mapped(s2, Idle)
    <3>1. \A w \in RunOf(op) : s2.entries[w].frame = 0
      BY <1>4, <1>6, <2>2 DEF Mapped, Absent
    <3> QED  BY <1>4, <1>5, <1>6, <2>2, <3>1 DEF Mapped
  <2>4. Cached(s2, Idle, Seen(p))
    <3> SUFFICES ASSUME NEW t \in Seen(p) PROVE s2.pages[t.window] = t.frame
      BY IdleFacts DEF Cached
    <3>1. CASE s.pages[t.window] = t.frame
      BY <1>7, <1>8, <2>2, <3>1
    <3>2. CASE \E k \in 1..op.applied : op.changes[k].window = t.window /\ op.got[k] = t.frame
      <4>1. PICK k \in 1..op.applied : op.changes[k].window = t.window /\ op.got[k] = t.frame
        BY <3>2
      <4>2. op.applied <= op.count
        <5>1. Len(op.changes) = op.count
          BY <1>0, <1>1, <1>9 DEF Committing, OpType
        <5> QED  BY <1>1, <5>1
      <4>3. t.window \in RunOf(op) /\ t.window - op.first + 1 = k
        <5>1. Touched(op) \subseteq RunOf(op) /\ op.changes[k].window - op.first + 1 = k
          BY <1>0, <1>1, <1>9, <4>2, CommitTouches
        <5> QED  BY <4>1, <5>1 DEF Touched
      <4> QED  BY <2>2, <4>1, <4>3
    <3> QED  BY <1>1, <3>1, <3>2 DEF ProcOK, Cached
  <2>5. op' = Idle
    BY <1>2, <1>9
  <2>6. ProcOK(p, s2, op', pmm'.owners, Seen(p)')
    BY <1>3, <2>2, <2>3, <2>4, <2>5, IdleCalls DEF ProcOK
  <2>7. op' \in OpType /\ op'.call = "none" /\ op'.proc = "kernel" /\ s2.mem # <<>>
    BY <1>1, <2>2, <2>5, IdleFacts
  <2> QED  BY <1>1, <1>2, <1>3, <2>2, <2>5, <2>6, <2>7, Step
<1>10. CASE op.call \in {"release", "exit", "prepare"}
  <2>1. /\ s2 \in SpaceType /\ s2.mem = s.mem /\ s2.entries = s.entries /\ s2.pages = s.pages
        /\ Books(s2, op) /\ Charged(p, s2, op, pmm.owners)
        /\ \A w \in Window : \/ s2.states[w] = s.states[w]
                             \/ s.states[w] = "committed" /\ s2.states[w] = "broken"
    BY <1>0, <1>1, <1>10, HitBroken
  <2> HIDE DEF s2, s
  <2>2. /\ op' \in OpType /\ op'.got = op.got /\ op'.pc = IF op.call = "prepare" THEN "undo" ELSE "idle"
        /\ op'.proc \in {p, "kernel"} /\ (op'.proc = p <=> op'.call # "none")
        /\ op'.call = "none" => op' = Idle
        /\ op'.call = IF op.call = "prepare" THEN "prepare" ELSE "none"
    <3>1. CASE op.call = "prepare"
      <4>1. op' = [op EXCEPT !.pc = "undo"]
        BY <1>2, <3>1
      <4>2. op' \in OpType /\ op'.pc = "undo" /\ op'.call = op.call /\ op'.proc = p /\ op'.got = op.got
        BY <1>1, <4>1, PcMoves
      <4> QED  BY <1>1, <3>1, <4>2
    <3>2. CASE op.call # "prepare"
      <4>1. op' = Idle /\ op.got = <<>>
        BY <1>1, <1>2, <1>10, <3>2 DEF ProcOK, Calling
      <4> QED  BY <1>1, <3>2, <4>1, IdleFacts
    <3> QED  BY <3>1, <3>2
  <2>3. Pushed(op') = {} /\ Pulled(op') = {}
    BY <2>2 DEF Pushed, Pulled, Unsettled
  <2>4. Mapped(s2, op')
    BY <1>4, <1>6, <2>1, <2>3 DEF Mapped
  <2>5. Cached(s2, op', Seen(p))
    BY <1>1, <1>10, <2>1, <2>2 DEF ProcOK, Cached
  <2>6. Books(s2, op')
    BY <1>0, <2>1, SameBooks DEF Applying, Unsettled
  <2>7. Charged(p, s2, op', pmm.owners)
    <3>1. op'.call = op.call \/ op.got = <<>>
      BY <1>1, <1>10, <2>2 DEF ProcOK, Calling
    <3> QED  BY <2>1, <2>2, <3>1, SameCharges
  <2>8. Calling(s2, op')
    <3>1. CASE op.call = "prepare"
      <4>1. op'.call = "prepare" /\ op'.pc = "undo"
        BY <2>2, <3>1, IdleFacts
      <4>2. Len(op'.got) <= NImage
        BY <1>1, <2>2, <3>1 DEF ProcOK, Calling
      <4>3. Progress(op')
        BY <4>1 DEF Progress, Applying, Unsettled
      <4> QED  BY <4>1, <4>2, <4>3 DEF Calling, Applying, Unsettled
    <3>2. CASE op.call # "prepare"
      BY <2>2, <3>2, IdleCalls
    <3> QED  BY <3>1, <3>2
  <2>9. ProcOK(p, s2, op', pmm'.owners, Seen(p)')
    BY <1>3, <2>4, <2>5, <2>6, <2>7, <2>8 DEF ProcOK
  <2>10. /\ op'.call \notin {"commit", "release"}
         /\ op'.call \in {"prepare", "exit"} => cr3 = "kernel"
         /\ s2.mem # <<>>
    BY <1>1, <2>1, <2>2 DEF Running
  <2> QED  BY <1>1, <1>2, <1>3, <2>1, <2>2, <2>9, <2>10, Step
<1> QED  BY <1>1, <1>9, <1>10

LEMMA Compared == IInv /\ CompareRestored => IInv'
<1> SUFFICES ASSUME IInv, CompareRestored PROVE IInv'
  OBVIOUS
<1>1. op.pc = "compare"
  BY DEF CompareRestored
<1>2. CASE op' = Failed /\ UNCHANGED <<pmm, space, cr3, tlb>>
  BY <1>1, <1>2, FailStep DEF Failed, Fail
<1>3. CASE RollbackFails
  BY <1>1, <1>3, RollBackFailed
<1> QED  BY <1>2, <1>3 DEF CompareRestored

LEMMA ReflushFails == IInv /\ ReflushRefused => IInv'
BY RollBackFailed DEF ReflushRefused

\* anon_memory_release gives one window of the run back.
LEMMA WindowFreed == IInv /\ FreeWindow => IInv'
<1> SUFFICES ASSUME IInv, FreeWindow PROVE IInv'
  OBVIOUS
<1>0. op.pc = "free" /\ op.count > 0 /\ UNCHANGED <<cr3, tlb>>
  BY DEF FreeWindow
<1>00. PICK p \in Proc : p = op.proc
  BY <1>0, CallIsSomebodys
<1> DEFINE s == space[p]
           w == op.first
           f == s.pages[w]
           s1 == Forgotten(s, w)
           owners1 == pmm'.owners
<1>1. /\ op.proc = p /\ op.call # "none" /\ Types /\ Running /\ op \in OpType /\ s \in SpaceType
      /\ ProcOK(p, s, op, pmm.owners, Seen(p)) /\ p # "kernel"
  BY <1>0, <1>00, CallIsSomebodys, SpaceAssumption
<1>2. op.call \in {"release", "exit", "prepare"} /\ Tearing(s, op) /\ s.mem # <<>>
  BY <1>0, <1>1 DEF ProcOK, Calling, Committing, Applying, Unsettled, OpType
<1>3. w \in Nat /\ op.count \in Nat /\ w \in RunOf(op) /\ w \in Window
  <2>1. w \in Nat /\ op.count \in Nat
    BY <1>1 DEF OpType
  <2>2. w \in RunOf(op)
    BY <1>0, <2>1 DEF RunOf, Run
  <2> QED  BY <1>2, <2>1, <2>2 DEF Tearing
<1>4. s.states[w] \in {"reserved", "committed"}
  BY <1>2, <1>3 DEF Tearing
<1>5. /\ space' = [space EXCEPT ![p] = s1] /\ op' = [op EXCEPT !.first = w + 1, !.count = @ - 1]
      /\ pmm' = IF s.states[w] # "committed" THEN pmm ELSE Frames!AfterRelease(pmm, f, AnonOwner[p])
  BY <1>00, <1>1 DEF FreeWindow, Types
<1>6. s1 = [s EXCEPT !.pages[w] = 0, !.states[w] = "free", !.reserved = @ - 1,
                     !.committed = IF s.states[w] = "committed" THEN @ - 1 ELSE @]
  BY DEF Forgotten
<1>7. /\ s1.mem = s.mem /\ s1.entries = s.entries /\ s1.broken = s.broken
      /\ s1.pages = [s.pages EXCEPT ![w] = 0] /\ s1.states = [s.states EXCEPT ![w] = "free"]
      /\ s1.reserved = s.reserved - 1
      /\ s1.committed = IF s.states[w] = "committed" THEN s.committed - 1 ELSE s.committed
  BY <1>1, <1>6 DEF SpaceType
<1>8. /\ op' \in OpType /\ op'.call = op.call /\ op'.proc = p /\ op'.pc = "free" /\ op'.got = op.got
      /\ op'.first = w + 1 /\ op'.count = op.count - 1
  <2> DEFINE a == w + 1
             b == op.count - 1
  <2>1. a \in Nat /\ b \in Nat
    BY <1>0, <1>3
  <2>2. op' = [op EXCEPT !.first = a, !.count = b]
    BY <1>5
  <2>3. op \in OpType /\ op.pc = "free" /\ op.proc = p
    BY <1>0, <1>1
  <2> HIDE DEF a, b
  <2>4. /\ op' \in OpType /\ op'.call = op.call /\ op'.proc = p /\ op'.pc = "free"
        /\ op'.got = op.got /\ op'.first = a /\ op'.count = b
    BY <2>1, <2>2, <2>3 DEF OpType
  <2> QED  BY <2>4 DEF a, b
<1> HIDE DEF w, s1, s, f
<1>9. /\ s1.pages[w] = 0 /\ s1.states[w] = "free" /\ f = s.pages[w]
      /\ \A v \in Window : v # w => s1.pages[v] = s.pages[v] /\ s1.states[v] = s.states[v]
  BY <1>1, <1>3, <1>7 DEF SpaceType, f
<1>10. /\ InState(s1, "free") = InState(s, "free") \cup {w}
       /\ w \notin InState(s, "free") /\ w \notin InState(s, "broken")
       /\ InState(s1, "broken") = InState(s, "broken")
       /\ InState(s1, "committed") = InState(s, "committed") \ {w}
  BY <1>3, <1>4, <1>9 DEF InState
<1>11. \A A : A \subseteq Window /\ w \in A => Cardinality(A \ {w}) = Cardinality(A) - 1
  <2> SUFFICES ASSUME NEW A, A \subseteq Window, w \in A
               PROVE  Cardinality(A \ {w}) = Cardinality(A) - 1
    OBVIOUS
  <2>1. IsFiniteSet(A)
    BY WindowSets
  <2> QED  BY <2>1, FS_RemoveElement
<1>12. /\ s1.reserved = Cardinality(Window \ InState(s1, "free"))
       /\ s1.committed = Cardinality(InState(s1, "committed"))
       /\ s1.broken = Cardinality(InState(s1, "broken"))
  <2>1. /\ s.reserved = Cardinality(Window \ InState(s, "free"))
        /\ s.committed = Cardinality(InState(s, "committed"))
        /\ s.broken = Cardinality(InState(s, "broken"))
    BY <1>1 DEF ProcOK, Books
  <2>2. Cardinality(Window \ InState(s1, "free")) = Cardinality(Window \ InState(s, "free")) - 1
    <3> DEFINE A == Window \ InState(s, "free")
    <3>1. A \subseteq Window /\ w \in A /\ Window \ InState(s1, "free") = A \ {w}
      BY <1>3, <1>10
    <3>2. Cardinality(A \ {w}) = Cardinality(A) - 1
      BY <1>11, <3>1
    <3> QED  BY <3>1, <3>2
  <2>3. CASE s.states[w] = "committed"
    <3>1. InState(s, "committed") \subseteq Window /\ w \in InState(s, "committed")
      BY <1>3, <2>3 DEF InState
    <3>2. Cardinality(InState(s1, "committed")) = Cardinality(InState(s, "committed")) - 1
      BY <1>10, <1>11, <3>1
    <3> QED  BY <1>7, <1>10, <2>1, <2>2, <2>3, <3>2
  <2>4. CASE s.states[w] # "committed"
    <3>1. InState(s1, "committed") = InState(s, "committed")
      BY <1>10, <2>4 DEF InState
    <3> QED  BY <1>7, <1>10, <2>1, <2>2, <2>4, <3>1
  <2> QED  BY <2>3, <2>4
<1>13. s1 \in SpaceType
  <2>1. /\ \A x : InState(s1, x) \subseteq Window
        /\ Window \ InState(s1, "free") \subseteq Window
    BY DEF InState
  <2>2. s1.reserved \in 0..NWindows /\ s1.committed \in 0..NWindows
    BY <1>12, <2>1, WindowSets
  <2>3. s1 = [s EXCEPT !.pages = s1.pages, !.states = s1.states, !.reserved = s1.reserved,
                       !.committed = s1.committed]
    BY <1>1, <1>6, <1>7 DEF s1, s, SpaceType
  <2>4. /\ s1.pages \in [Window -> 0..NPages]
        /\ s1.states \in [Window -> {"free", "reserved", "committed", "broken"}]
    <3>1. 0 \in 0..NPages
      BY SpaceAssumption
    <3> QED  BY <1>1, <1>7, <3>1 DEF SpaceType
  <2> QED  BY <1>1, <2>2, <2>3, <2>4 DEF SpaceType
<1>14. \A v \in Window : s.pages[v] = 0 <=> s.states[v] \in {"free", "reserved"}
  BY <1>1 DEF ProcOK, Books
<1>15. \A u, v \in Window : s.pages[u] = s.pages[v] => s.pages[u] = 0 \/ u = v
  BY <1>1 DEF ProcOK, Books
<1>16. Books(s1, op')
  <2>1. \A v \in Window : s1.pages[v] = 0 <=> s1.states[v] \in {"free", "reserved"}
    BY <1>9, <1>14
  <2>2. \A u, v \in Window : s1.pages[u] = s1.pages[v] => s1.pages[u] = 0 \/ u = v
    BY <1>9, <1>15
  <2>3. /\ \A i, j \in DOMAIN s.mem : s.mem[i] = s.mem[j] => i = j
        /\ Len(s.mem) \in {0, NImage}
    BY <1>0, <1>1 DEF ProcOK, Books
  <2> QED  BY <1>2, <1>7, <1>12, <2>1, <2>2, <2>3 DEF Books
<1>17. s.states[w] = "committed" => f \in 1..NPages /\ pmm.owners[f] = AnonOwner[p]
  <2> SUFFICES ASSUME s.states[w] = "committed" PROVE f \in 1..NPages /\ pmm.owners[f] = AnonOwner[p]
    OBVIOUS
  <2>1. f # 0 /\ f \in 0..NPages
    BY <1>1, <1>3, <1>9, <1>14 DEF SpaceType
  <2>2. f \in 1..NPages
    BY <2>1, SpaceAssumption
  <2>3. \E v \in Window : s.pages[v] = f
    BY <1>3, <1>9
  <2> QED  BY <1>1, <2>2, <2>3 DEF ProcOK, Charged
<1>18. /\ Good(pmm')
       /\ \A g \in 1..NPages : owners1[g] =
            IF s.states[w] = "committed" /\ g = f THEN "free" ELSE pmm.owners[g]
  <2>1. CASE s.states[w] # "committed"
    BY <1>1, <1>5, <2>1 DEF Types
  <2>2. CASE s.states[w] = "committed"
    <3>1. AnonOwner[p] \in Owner /\ Good(pmm)
      BY <1>1, OwnersDiffer DEF Types
    <3>2. Good(pmm') /\ pmm'.owners = [pmm.owners EXCEPT ![f] = "free"]
      BY <1>5, <1>17, <2>2, <3>1, FrameReturned
    <3>3. DOMAIN pmm.owners = 1..NPages
      BY <3>1 DEF Good, Pages!Good, Pages!StateOK, Pages!Page
    <3> QED  BY <2>2, <3>2, <3>3
  <2> QED  BY <2>1, <2>2
<1>19. Charged(p, s1, op', owners1)
  <2> DEFINE owners0 == pmm.owners
  <2>0. /\ \A g \in 1..NPages : owners1[g] =
            IF s.states[w] = "committed" /\ g = f THEN "free" ELSE owners0[g]
        /\ s.states[w] = "committed" => owners0[f] = AnonOwner[p]
        /\ Charged(p, s, op, owners0)
    BY <1>1, <1>17, <1>18 DEF ProcOK
  <2> HIDE DEF owners0, owners1
  <2>1. ImageOwner[p] # AnonOwner[p] /\ ImageOwner[p] # "free" /\ AnonOwner[p] # "free"
    BY OwnersDiffer
  <2>2. \A g \in 1..NPages : (\E v \in Window : s1.pages[v] = g) <=>
            /\ \E v \in Window : s.pages[v] = g
            /\ ~(s.states[w] = "committed" /\ g = f)
    <3> SUFFICES ASSUME NEW g \in 1..NPages
                 PROVE  (\E v \in Window : s1.pages[v] = g) <=>
                          /\ \E v \in Window : s.pages[v] = g
                          /\ ~(s.states[w] = "committed" /\ g = f)
      OBVIOUS
    <3>1. g # 0
      BY SpaceAssumption
    <3>2. ASSUME NEW v \in Window, s1.pages[v] = g
          PROVE  s.pages[v] = g /\ ~(s.states[w] = "committed" /\ g = f)
      <4>1. v # w
        BY <1>9, <3>1, <3>2
      <4>2. s.pages[v] = g
        BY <1>9, <3>2, <4>1
      <4>3. g # f
        BY <1>3, <1>9, <1>15, <3>1, <4>1, <4>2
      <4> QED  BY <4>2, <4>3
    <3>3. ASSUME NEW v \in Window, s.pages[v] = g, ~(s.states[w] = "committed" /\ g = f)
          PROVE  s1.pages[v] = g
      <4>1. v # w
        BY <1>3, <1>4, <1>9, <1>14, <3>1, <3>3
      <4> QED  BY <1>9, <3>3, <4>1
    <3> QED  BY <3>2, <3>3
  <2>3. \A g \in 1..NPages : owners1[g] = AnonOwner[p] <=> \E v \in Window : s1.pages[v] = g
    BY <1>2, <2>0, <2>1, <2>2 DEF Charged
  <2>4. \A g \in 1..NPages : owners1[g] = ImageOwner[p] <=> owners0[g] = ImageOwner[p]
    BY <2>0, <2>1
  <2>5. op'.call # "commit"
    BY <1>2, <1>8
  <2> QED  BY <1>7, <1>8, <2>0, <2>3, <2>4, <2>5 DEF Charged
<1>20. \A v \in Window : v \in RunOf(op') <=> v \in RunOf(op) /\ v # w
  <2>1. \A v \in Window : v \in Nat
    BY SpaceAssumption DEF Window
  <2>2. RunOf(op) = w..w + op.count - 1 /\ RunOf(op') = w + 1..w + 1 + (op.count - 1) - 1
    BY <1>8 DEF RunOf, Run, w
  <2> QED  BY <1>0, <1>3, <2>1, <2>2
<1>21. Mapped(s1, op')
  <2>1. /\ Pushed(op) = {} /\ Pulled(op) = RunOf(op)
        /\ Pushed(op') = {} /\ Pulled(op') = RunOf(op')
    BY <1>0, <1>2, <1>8 DEF Pushed, Pulled
  <2>2. Mapped(s, op)
    BY <1>1 DEF ProcOK
  <2>3. s1.entries[w] = Absent
    BY <1>3, <1>4, <1>7, <2>1, <2>2 DEF Mapped
  <2> QED  BY <1>7, <1>9, <1>20, <2>1, <2>2, <2>3 DEF Mapped
<1>22. Cached(s1, op', Seen(p))
  <2> SUFFICES ASSUME NEW t \in Seen(p)
               PROVE  s1.pages[t.window] = t.frame /\ t.window \notin RunOf(op')
    BY DEF Cached
  <2>1. t.window \in Window
    BY <1>1 DEF Seen, Types, Translation
  <2>2. s.pages[t.window] = t.frame /\ t.window \notin RunOf(op)
    BY <1>0, <1>1, <1>2 DEF ProcOK, Cached
  <2> QED  BY <1>3, <1>9, <1>20, <2>1, <2>2
<1>23. Calling(s1, op')
  <2>1. Progress(op')
    BY <1>8 DEF Progress, Applying, Unsettled
  <2>2. Tearing(s1, op')
    <3>1. RunOf(op) \subseteq Window
      BY <1>2 DEF Tearing
    <3>2. RunOf(op') \subseteq RunOf(op)
      <4>1. RunOf(op) = w..w + op.count - 1 /\ RunOf(op') = w + 1..w + 1 + (op.count - 1) - 1
        BY <1>8 DEF RunOf, Run, w
      <4> QED  BY <1>3, <4>1
    <3>3. \A v \in RunOf(op') : s1.states[v] \in {"reserved", "committed"}
      BY <1>2, <1>9, <1>20, <3>1, <3>2 DEF Tearing
    <3> QED  BY <1>8, <3>1, <3>2, <3>3 DEF Tearing, Applying, Unsettled
  <2>3. Calling(s, op)
    BY <1>1 DEF ProcOK
  <2> QED  BY <1>0, <1>2, <1>7, <1>8, <2>1, <2>2, <2>3 DEF Calling, Applying, Unsettled
<1>24. Seen(p)' = Seen(p)
  BY <1>0 DEF Seen
<1>25. ProcOK(p, s1, op', pmm'.owners, Seen(p)')
  BY <1>16, <1>19, <1>21, <1>22, <1>23, <1>24 DEF ProcOK
<1>26. /\ op'.call \in {"commit", "release"} => cr3 = p
       /\ op'.call \in {"prepare", "exit"} => cr3 = "kernel"
       /\ op'.call # "none" /\ s1.mem # <<>>
  BY <1>1, <1>2, <1>7, <1>8 DEF Running
<1>27. tlb' = tlb /\ cr3' = cr3 /\ tlb' \subseteq Translation
  BY <1>0, <1>1 DEF Types
<1>28. \A g \in 1..NPages : pmm'.owners[g] # pmm.owners[g] =>
          {pmm.owners[g], pmm'.owners[g]} \subseteq {"free", ImageOwner[p], AnonOwner[p]}
  BY <1>17, <1>18
<1> QED  BY <1>1, <1>5, <1>8, <1>13, <1>18, <1>25, <1>26, <1>27, <1>28, Step
-----------------------------------------------------------------------------
(* The processor, and the specification.                                    *)

\* Whose tables are used changes between calls, and drops all translations.
LEMMA Cr3Loaded ==
    ASSUME IInv, NEW from, NEW to \in Proc \cup {"kernel"}, LoadCr3(from, to),
           to \in Proc => space[to].mem # <<>>
    PROVE  IInv'
<1>1. op = Idle /\ cr3' = to /\ tlb' = {} /\ UNCHANGED <<pmm, space, op>>
  BY DEF LoadCr3
<1>2. Types /\ Running /\ \A p \in Proc : ProcOK(p, space[p], Mine(p), pmm.owners, Seen(p))
  BY DEF IInv
<1>3. Types'
  BY <1>1, <1>2 DEF Types
<1>4. Running'
  <2>1. op'.call = "none" /\ op'.proc \notin Proc
    BY <1>1, IdleFacts, SpaceAssumption
  <2> QED  BY <1>1, <2>1 DEF Running
<1>5. \A p \in Proc : Mine(p)' = Mine(p) /\ Seen(p)' = {}
  BY <1>1 DEF Mine, Seen
<1>6. \A p \in Proc : ProcOK(p, space'[p], Mine(p)', pmm'.owners, Seen(p)')
  BY <1>1, <1>2, <1>5 DEF ProcOK, Cached
<1> QED  BY <1>3, <1>4, <1>6 DEF IInv

LEMMA Entered == ASSUME IInv, NEW p \in Proc, user64_enter(p) PROVE IInv'
BY Cr3Loaded DEF user64_enter

LEMMA Aborted == ASSUME IInv, user64_abort PROVE IInv'
<1>1. "kernel" \notin Proc
  BY SpaceAssumption
<1> QED  BY <1>1, Cr3Loaded DEF user64_abort

\* The MMU caches what an entry says, and marks it.
LEMMA Walked == ASSUME IInv, NEW w \in Window, Walk(w) PROVE IInv'
<1>0. PICK p \in Proc : p = cr3
  BY DEF Walk
<1> DEFINE s == space[p]
           f == s.entries[w].frame
           e == [s.entries[w] EXCEPT !.accessed = TRUE]
           s1 == [s EXCEPT !.entries[w] = e]
           o == Mine(p)
<1>1. /\ f # 0 /\ tlb' = tlb \cup {[window |-> w, frame |-> f]} /\ UNCHANGED <<pmm, cr3, op>>
  BY <1>0 DEF Walk
<1>2. /\ Types /\ Running /\ s \in SpaceType /\ ProcOK(p, s, o, pmm.owners, Seen(p))
  BY DEF IInv, Types
<1>3. space' = [space EXCEPT ![p] = s1]
  <2>1. s.entries[w] \in Entry64
    BY <1>2 DEF SpaceType
  <2> QED  BY <1>0, <1>2 DEF Walk, Types, SpaceType
<1>4. s.entries[w] \in Entry64 /\ f \in 1..NPages
  <2>1. s.entries[w] \in Entry64
    BY <1>2 DEF SpaceType
  <2>2. f \in 0..NPages
    BY <2>1 DEF Entry64
  <2> QED  BY <1>1, <2>1, <2>2, SpaceAssumption
<1>5. e \in Entry64 /\ e.frame = f
  BY <1>4 DEF Entry64
<1> HIDE DEF e, f
<1>6. /\ s1.entries = [s.entries EXCEPT ![w] = e] /\ s1.mem = s.mem /\ s1.states = s.states
      /\ s1.pages = s.pages /\ s1.reserved = s.reserved /\ s1.committed = s.committed
      /\ s1.broken = s.broken
  BY <1>2 DEF SpaceType
<1>7. s1 \in SpaceType
  BY <1>2, <1>5 DEF SpaceType
<1> HIDE DEF s1, s, o
<1>8. Mapped(s, o) /\ f = s.entries[w].frame
  BY <1>2 DEF ProcOK, f
<1>9. s.entries[w] # Absent
  BY <1>1, <1>8 DEF Absent
<1>10. s1.entries[w] = e /\ \A v \in Window : v # w => s1.entries[v] = s.entries[v]
  BY <1>2, <1>6 DEF SpaceType
<1>11. Mapped(s1, o)
  <2> SUFFICES ASSUME NEW v \in Window
               PROVE  /\ s1.states[v] \in {"free", "reserved"} =>
                          IF v \in Pushed(o) THEN s1.entries[v].frame = o.got[v - o.first + 1]
                          ELSE s1.entries[v] = Absent
                      /\ s1.states[v] = "committed" =>
                          IF v \in Pulled(o) THEN s1.entries[v] = Absent
                          ELSE s1.entries[v].frame = s1.pages[v]
                      /\ s1.states[v] = "broken" => s1.entries[v].frame \in {0, s1.pages[v]}
    BY DEF Mapped
  <2>1. CASE v = w
    BY <1>5, <1>6, <1>8, <1>9, <1>10, <2>1 DEF Mapped
  <2>2. CASE v # w
    BY <1>6, <1>8, <1>10, <2>2 DEF Mapped
  <2> QED  BY <2>1, <2>2
<1>12. Books(s1, o) /\ Charged(p, s1, o, pmm.owners) /\ Calling(s1, o)
  BY <1>2, <1>6, EntriesMove DEF ProcOK
<1>13. Seen(p)' = Seen(p) \cup {[window |-> w, frame |-> f]}
  BY <1>0, <1>1 DEF Seen
<1>14. /\ o \in OpType /\ s.states[w] \in {"free", "reserved", "committed", "broken"}
       /\ o.call = "commit" => Committing(s, o)
  BY <1>2, IdleFacts DEF Mine, Types, SpaceType, ProcOK, Calling, o
<1>15. \/ s.pages[w] = f /\ ~(o.pc = "free" /\ w \in RunOf(o))
       \/ /\ o.call = "commit" /\ o.pc \in Unsettled \cup {"reflush"}
          /\ \E k \in 1..o.applied : o.changes[k].window = w /\ o.got[k] = f
  <2>0. o.pc = "free" => Tearing(s, o)
    BY <1>2, <1>14, IdleFacts DEF ProcOK, Calling, Committing, Applying, Unsettled, OpType
  <2>1. CASE s.states[w] = "committed"
    BY <1>8, <1>9, <2>1 DEF Mapped, Pulled
  <2>2. CASE s.states[w] = "broken"
    BY <1>1, <1>8, <2>0, <2>2 DEF Mapped, Tearing
  <2>3. CASE s.states[w] \in {"free", "reserved"}
    <3>1. w \in Pushed(o) /\ f = o.got[w - o.first + 1]
      BY <1>8, <1>9, <2>3 DEF Mapped
    <3>2. o.call = "commit" /\ o.pc \in Unsettled /\ w \in Touched(o)
      BY <3>1 DEF Pushed
    <3>3. PICK k \in 1..o.applied : o.changes[k].window = w
      BY <3>2 DEF Touched
    <3>4. Committing(s, o) /\ o.pc \in Applying
      BY <1>14, <3>2 DEF Applying
    <3>5. o.applied <= o.count
      <4>1. Len(o.changes) = o.count
        BY <1>14, <3>4 DEF Committing, OpType
      <4>2. Progress(o) /\ o.count \in Nat /\ o.applied \in Nat
        BY <1>2, <1>14 DEF ProcOK, Calling, OpType
      <4> QED  BY <3>2, <4>1, <4>2 DEF Progress, Unsettled
    <3>6. w - o.first + 1 = k
      BY <1>14, <3>3, <3>4, <3>5, CommitTouches
    <3> QED  BY <3>1, <3>2, <3>3, <3>6
  <2> QED  BY <1>14, <2>1, <2>2, <2>3
<1>16. Cached(s1, o, Seen(p)')
  <2>1. Cached(s, o, Seen(p))
    BY <1>2 DEF ProcOK
  <2> QED  BY <1>6, <1>13, <1>15, <2>1 DEF Cached
<1>17. "kernel" \notin Proc /\ \A q \in Proc : Mine(q)' = Mine(q)
  BY <1>1, SpaceAssumption DEF Mine
<1>18. \A q \in Proc \ {p} : Seen(q)' = Seen(q) /\ space'[q] = space[q]
  BY <1>0, <1>1, <1>2, <1>3 DEF Seen, Types
<1>19. space'[p] = s1
  BY <1>2, <1>3 DEF Types
<1>20. ProcOK(p, space'[p], Mine(p)', pmm'.owners, Seen(p)')
  BY <1>1, <1>11, <1>12, <1>16, <1>17, <1>19 DEF ProcOK, o
<1>21. \A q \in Proc : ProcOK(q, space'[q], Mine(q)', pmm'.owners, Seen(q)')
  <2> SUFFICES ASSUME NEW q \in Proc \ {p} PROVE ProcOK(q, space'[q], Mine(q)', pmm'.owners, Seen(q)')
    BY <1>20
  <2>1. ProcOK(q, space[q], Mine(q), pmm.owners, Seen(q))
    BY DEF IInv
  <2> QED  BY <1>1, <1>17, <1>18, <2>1
<1>22. Types'
  <2>1. tlb' \subseteq Translation
    BY <1>1, <1>2, <1>4 DEF Types, Translation
  <2> QED  BY <1>1, <1>2, <1>3, <1>7, <2>1 DEF Types
<1>23. Running'
  <2>1. \A q \in Proc : space'[q].mem = space[q].mem
    BY <1>6, <1>18, <1>19 DEF s
  <2> QED  BY <1>0, <1>1, <1>2, <1>17, <2>1 DEF Running
<1> QED  BY <1>21, <1>22, <1>23 DEF IInv

\* Before the first call no frame is anybody's.
LEMMA Fresh ==
    LET s == [Frames!pmm_init_ranges(<<[base |-> 1, bytes |-> NPages, usable |-> TRUE]>>)
                EXCEPT !.live = TRUE]
    IN  Good(s) /\ \A f \in 1..NPages : s.owners[f] \in {"free", "reserved"}
<1> DEFINE m == <<[base |-> 1, bytes |-> NPages, usable |-> TRUE]>>
           r == Pages!pmm_init_ranges(m)
           s == [r EXCEPT !.live = TRUE]
<1> HIDE DEF m
<1>1. Pages!Good(r)
  BY PagesAssumed, Pages!InitGood
<1>2. \A f \in 1..NPages : r.owners[f] \in {"free", "reserved"}
  BY DEF Pages!pmm_init_ranges, Pages!Page
<1> HIDE DEF r
<1>3. /\ Pages!StateOK(r) /\ Pages!Audit(r) /\ Pages!LowCursor(r)
  BY <1>1 DEF Pages!Good
<1>4. /\ s.owners = r.owners /\ s.cursor = r.cursor /\ s.total = r.total /\ s.free = r.free
      /\ s.used = r.used /\ s.high = r.high /\ s.owner_used = r.owner_used
      /\ s.owner_high = r.owner_high /\ s.owner_limits = r.owner_limits /\ s.live = TRUE
      /\ Pages!StateOK(s)
  BY <1>3 DEF Pages!StateOK
<1> HIDE DEF s
<1>5. \A o : Pages!OwnedBy(s, o) = Pages!OwnedBy(r, o)
  BY <1>4 DEF Pages!OwnedBy
<1>6. Pages!Audit(s) /\ Pages!LowCursor(s)
  BY <1>3, <1>4, <1>5 DEF Pages!Audit, Pages!LowCursor
<1>7. Good(s) /\ \A f \in 1..NPages : s.owners[f] \in {"free", "reserved"}
  BY <1>2, <1>4, <1>6 DEF Good, Pages!Good
<1>8. Frames!pmm_init_ranges(m) = Pages!pmm_init_ranges(m)
  <2>1. \A x : Frames!RangePages(x) = Pages!RangePages(x)
    BY DEF Frames!RangePages, Pages!RangePages, Frames!Page, Pages!Page
  <2>2. Frames!Admitted(m) = Pages!Admitted(m)
    BY <2>1 DEF Frames!Admitted, Pages!Admitted
  <2>3. \A A : Frames!Cardinality(A) = Pages!Cardinality(A)
    BY DEF Frames!Cardinality, Pages!Cardinality
  <2> DEFINE a == Frames!Admitted(m)
             Booked(A) == [owners |-> [p \in 1..NPages |-> IF p \in A THEN "free" ELSE "reserved"],
                           cursor |-> 1, total |-> Pages!Cardinality(A),
                           free |-> Pages!Cardinality(A), used |-> 0, high |-> 0,
                           owner_used |-> [o \in Owner |-> 0], owner_high |-> [o \in Owner |-> 0],
                           owner_limits |-> [o \in Owner |-> Unlimited], live |-> A # {}]
  <2>4. Pages!pmm_init_ranges(m) = Booked(Pages!Admitted(m))
    BY DEF Pages!pmm_init_ranges, Pages!Page
  <2>5. Frames!pmm_init_ranges(m) = Booked(a)
    BY <2>3 DEF Frames!pmm_init_ranges, Frames!Page
  <2> QED  BY <2>2, <2>4, <2>5
<1> QED  BY <1>7, <1>8 DEF s, r, m

LEMMA Starting == Init => IInv
<1> SUFFICES ASSUME Init PROVE IInv
  OBVIOUS
<1>1. Good(pmm) /\ \A f \in 1..NPages : pmm.owners[f] \in {"free", "reserved"}
  BY Fresh DEF Init
<1>2. space = [p \in Proc |-> Empty] /\ cr3 = "kernel" /\ tlb = {} /\ op = Idle
  BY DEF Init
<1>3. NWindows \in Nat /\ NPages \in Nat /\ "kernel" \notin Proc
  BY SpaceAssumption
<1>4. /\ Empty.mem = <<>> /\ Empty.states = [w \in Window |-> "free"]
      /\ Empty.pages = [w \in Window |-> 0] /\ Empty.entries = [w \in Window |-> Absent]
      /\ Empty.reserved = 0 /\ Empty.committed = 0 /\ Empty.broken = 0
  BY DEF Empty
<1>5. Empty \in SpaceType
  <2>1. Absent \in Entry64
    BY <1>3 DEF Absent, Entry64
  <2>2. <<>> \in Seq(1..NPages)
    OBVIOUS
  <2> QED  BY <1>3, <2>1, <2>2 DEF SpaceType, Empty
<1>6. Types /\ Running
  BY <1>1, <1>2, <1>3, <1>5, IdleFacts DEF Types, Running
<1>7. ASSUME NEW p \in Proc PROVE ProcOK(p, Empty, Idle, pmm.owners, {})
  <2>1. Books(Empty, Idle)
    <3>1. /\ Window \ InState(Empty, "free") = {} /\ InState(Empty, "committed") = {}
          /\ InState(Empty, "broken") = {}
      BY <1>4 DEF InState
    <3>2. Cardinality({}) = 0 /\ Len(<<>>) = 0 /\ DOMAIN <<>> = {}
      BY FS_EmptySet
    <3> QED  BY <1>4, <3>1, <3>2 DEF Books
  <2>2. Charged(p, Empty, Idle, pmm.owners)
    <3>1. \A f \in 1..NPages : pmm.owners[f] # AnonOwner[p] /\ pmm.owners[f] # ImageOwner[p]
      BY <1>1, OwnersDiffer
    <3>2. \A f \in 1..NPages : ~ \E w \in Window : Empty.pages[w] = f
      BY <1>3, <1>4
    <3>3. Idle.got = <<>> /\ Idle.call = "none" /\ DOMAIN <<>> = {}
      BY IdleFacts
    <3> QED  BY <1>4, <3>1, <3>2, <3>3 DEF Charged
  <2>3. Mapped(Empty, Idle)
    <3>1. Pushed(Idle) = {} /\ Pulled(Idle) = {}
      BY IdleFacts DEF Plain, Pushed, Pulled
    <3> QED  BY <1>4, <3>1 DEF Mapped
  <2> QED  BY <2>1, <2>2, <2>3, IdleCalls DEF ProcOK, Cached
<1>8. ASSUME NEW p \in Proc PROVE ProcOK(p, space[p], Mine(p), pmm.owners, Seen(p))
  <2>1. space[p] = Empty /\ Mine(p) = Idle /\ Seen(p) = {}
    BY <1>2, <1>3 DEF Mine, Seen
  <2> QED  BY <1>7, <2>1
<1> QED  BY <1>6, <1>8 DEF IInv

LEMMA Keeps == IInv /\ [Next]_vars => IInv'
<1> SUFFICES ASSUME IInv, [Next]_vars PROVE IInv'
  OBVIOUS
<1>1. ASSUME NEW p \in Proc, Anonymous(p) PROVE IInv'
  BY <1>1, ReserveKeeps, CommitStarts, ReleaseStarts DEF Anonymous
<1>2. ASSUME NEW p \in Proc, process64_prepare(p) PROVE IInv'
  BY <1>2, PrepareStarts
<1>3. ASSUME NEW p \in Proc, process64_release_slot(p) PROVE IInv'
  BY <1>3, ExitStarts
<1>4. ASSUME NEW p \in Proc, user64_enter(p) PROVE IInv'
  BY <1>4, Entered
<1>5. CASE user64_abort  BY <1>5, Aborted
<1>6. CASE TakeFrame  BY <1>6, Taken
<1>7. CASE OutOfFrames  BY <1>7, NoFrames
<1>8. CASE Undo  BY <1>8, Undone
<1>9. CASE Transaction
  BY <1>9, Checked, Written, FlushDone, FlushFails, Restored, Reflushes, ReflushFails, Compared
     DEF Transaction
<1>10. CASE FreeWindow  BY <1>10, WindowFreed
<1>11. CASE Released  BY <1>11, RunReleased
<1>12. CASE Scan  BY <1>12, Scanned
<1>13. CASE FreeImage  BY <1>13, ImageFreed
<1>14. CASE Publish  BY <1>14, Published
<1>15. ASSUME NEW w \in Window, Walk(w) PROVE IInv'
  BY <1>15, Walked
<1>16. CASE UNCHANGED vars
  <2>1. UNCHANGED <<pmm, space, cr3, tlb, op>>
    BY <1>16 DEF vars
  <2>2. Types' /\ Running'
    BY <2>1 DEF IInv, Types, Running
  <2>3. \A p \in Proc : Mine(p)' = Mine(p) /\ Seen(p)' = Seen(p)
    BY <2>1 DEF Mine, Seen
  <2>4. \A p \in Proc : ProcOK(p, space'[p], Mine(p)', pmm'.owners, Seen(p)')
    BY <2>1, <2>3 DEF IInv
  <2> QED  BY <2>2, <2>4 DEF IInv
<1> QED  BY <1>1, <1>2, <1>3, <1>4, <1>5, <1>6, <1>7, <1>8, <1>9, <1>10, <1>11, <1>12, <1>13,
            <1>14, <1>15, <1>16 DEF Next

\* The inductive invariant, on which all that follows rests.
THEOREM Invariance == Spec => []IInv
BY Starting, Keeps, PTL DEF Spec
-----------------------------------------------------------------------------
(* What follows from the invariant.                                         *)

LEMMA ProcFacts ==
    ASSUME IInv, NEW p \in Proc
    PROVE  LET s == space[p]  o == Mine(p) IN
           /\ Types /\ Running /\ s \in SpaceType /\ o \in OpType
           /\ ProcOK(p, s, o, pmm.owners, Seen(p))
           /\ o.call = "commit" => Committing(s, o)
           /\ op = Idle => o = Idle
BY IdleFacts DEF IInv, Types, Mine, ProcOK, Calling

(***************************************************************************)
(* The allocator's state, the windows' states, frames and entries and the  *)
(* cached translations keep their types, and the counters of reserved,     *)
(* committed and broken windows stay within the size of the window.        *)
(***************************************************************************)
THEOREM TypeCorrect == Spec => []TypeOK
<1>1. ASSUME IInv PROVE TypeOK
  <2>1. Types
    BY <1>1 DEF IInv
  <2>2. Frames!StateOK(pmm)
    BY <2>1, StateSame DEF Types, Good
  <2> QED  BY <2>1, <2>2 DEF Types, TypeOK, SpaceType, Entry64, Translation
<1> QED  BY <1>1, Invariance, PTL

\* The frames a commit has taken are in range of its changes.
LEMMA TakenSoFar ==
    ASSUME NEW s, NEW o \in OpType, Committing(s, o), Progress(o), o.pc \in Applying, o.pc # "stale"
    PROVE  o.applied <= o.count /\ DOMAIN o.got = 1..o.count /\ o.applied \in Nat /\ o.count \in Nat
<1>1. Len(o.changes) = o.count /\ Len(o.got) = o.count /\ o.got \in Seq(1..NPages)
      /\ o.applied \in Nat /\ o.count \in Nat
  BY DEF Committing, OpType
<1>2. DOMAIN o.got = 1..o.count
  <2> DEFINE q == o.got
             S == 1..NPages
  <2> HIDE DEF q, S
  <2>1. q \in Seq(S) /\ Len(q) = o.count
    BY <1>1 DEF q, S
  <2>2. DOMAIN q = 1..o.count
    BY <2>1, LenProperties
  <2> QED  BY <2>2 DEF q
<1> QED  BY <1>1, <1>2 DEF Progress, Applying, Unsettled

LEMMA NothingDangles == IInv => NoDangling
<1> SUFFICES ASSUME IInv PROVE NoDangling
  OBVIOUS
<1>0. NPages \in Nat /\ "kernel" \notin Proc
  BY SpaceAssumption
<1>1. ASSUME NEW p \in Proc, NEW w \in Window, space[p].entries[w].frame # 0
      PROVE  pmm.owners[space[p].entries[w].frame] = AnonOwner[p]
  <2> DEFINE s == space[p]
             o == Mine(p)
             f == s.entries[w].frame
  <2>1. /\ s \in SpaceType /\ o \in OpType /\ ProcOK(p, s, o, pmm.owners, Seen(p))
        /\ o.call = "commit" => Committing(s, o)
    BY ProcFacts
  <2>2. f \in 1..NPages /\ s.entries[w] # Absent
    <3>1. f \in 0..NPages
      BY <2>1 DEF SpaceType, Entry64
    <3> QED  BY <1>0, <1>1, <3>1 DEF Absent
  <2>3. s.states[w] \in {"free", "reserved", "committed", "broken"}
    BY <2>1 DEF SpaceType
  <2> HIDE DEF s, o
  <2>4. CASE s.states[w] \in {"committed", "broken"}
    <3>1. s.pages[w] = f
      BY <1>1, <2>1, <2>2, <2>4 DEF ProcOK, Mapped, s
    <3> QED  BY <2>1, <2>2, <3>1 DEF ProcOK, Charged, s
  <2>5. CASE s.states[w] \in {"free", "reserved"}
    <3>1. w \in Pushed(o) /\ f = o.got[w - o.first + 1]
      BY <2>1, <2>2, <2>5 DEF ProcOK, Mapped
    <3>2. o.call = "commit" /\ o.pc \in Unsettled /\ w \in Touched(o)
      BY <3>1 DEF Pushed
    <3>3. PICK k \in 1..o.applied : o.changes[k].window = w
      BY <3>2 DEF Touched
    <3>4. Committing(s, o) /\ o.pc \in Applying /\ o.pc # "stale" /\ Progress(o)
      BY <2>1, <3>2 DEF Applying, Unsettled, ProcOK, Calling
    <3>5. o.applied <= o.count /\ DOMAIN o.got = 1..o.count /\ o.applied \in Nat /\ o.count \in Nat
      BY <2>1, <3>4, TakenSoFar
    <3>6. w - o.first + 1 = k
      BY <2>1, <3>3, <3>4, <3>5, CommitTouches
    <3>7. k \in DOMAIN o.got /\ o.got[k] = f
      BY <3>1, <3>5, <3>6
    <3> QED  BY <2>1, <2>2, <3>2, <3>7 DEF ProcOK, Charged, s
  <2> QED  BY <2>3, <2>4, <2>5
<1>2. ASSUME NEW t \in tlb PROVE pmm.owners[t.frame] = AnonOwner[cr3]
  <2>0. cr3 \in Proc /\ t \in Translation
    BY DEF IInv, Types, Running
  <2>1. PICK p \in Proc : p = cr3
    BY <2>0
  <2> DEFINE s == space[p]
             o == Mine(p)
  <2>2. /\ s \in SpaceType /\ o \in OpType /\ ProcOK(p, s, o, pmm.owners, Seen(p))
        /\ o.call = "commit" => Committing(s, o)
    BY ProcFacts
  <2>3. t \in Seen(p) /\ t.frame \in 1..NPages /\ t.window \in Window
    BY <2>0, <2>1 DEF Seen, Translation
  <2> HIDE DEF s, o
  <2>4. CASE s.pages[t.window] = t.frame
    BY <2>1, <2>2, <2>3, <2>4 DEF ProcOK, Charged
  <2>5. CASE /\ o.call = "commit" /\ o.pc \in Unsettled \cup {"reflush"}
             /\ \E k \in 1..o.applied : o.changes[k].window = t.window /\ o.got[k] = t.frame
    <3>1. Committing(s, o) /\ o.pc \in Applying /\ o.pc # "stale" /\ Progress(o)
      BY <2>2, <2>5 DEF Applying, Unsettled, ProcOK, Calling
    <3>2. o.applied <= o.count /\ DOMAIN o.got = 1..o.count /\ o.applied \in Nat /\ o.count \in Nat
      BY <2>2, <3>1, TakenSoFar
    <3>3. \E k \in DOMAIN o.got : o.got[k] = t.frame
      BY <2>5, <3>2
    <3> QED  BY <2>1, <2>2, <2>3, <2>5, <3>3 DEF ProcOK, Charged
  <2> QED  BY <2>2, <2>3, <2>4, <2>5 DEF ProcOK, Cached
<1> QED  BY <1>1, <1>2 DEF NoDangling

(***************************************************************************)
(* anon_memory.c, process_memory.c: no frame behind an entry or a cached   *)
(* translation of a process is anybody else's, also between two writes of  *)
(* a transaction and after a roll back that failed.                        *)
(***************************************************************************)
THEOREM NeverDangling == Spec => []NoDangling
BY Invariance, NothingDangles, PTL

LEMMA Between ==
    ASSUME IInv, op = Idle, NEW p \in Proc
    PROVE  LET s == space[p] IN
           /\ s \in SpaceType /\ Books(s, Idle)
           /\ \A f \in 1..NPages : /\ pmm.owners[f] = AnonOwner[p] <=> \E w \in Window : s.pages[w] = f
                                   /\ pmm.owners[f] = ImageOwner[p] <=> \E i \in DOMAIN s.mem : s.mem[i] = f
           /\ \A w \in Window :
                /\ s.states[w] \in {"free", "reserved"} => s.entries[w] = Absent
                /\ s.states[w] = "committed" => s.entries[w].frame = s.pages[w]
           /\ \A t \in Seen(p) : s.pages[t.window] = t.frame
           /\ Len(s.mem) \in {0, NImage} /\ DOMAIN s.mem = 1..Len(s.mem)
           /\ (s.mem = <<>> <=> Len(s.mem) = 0)
           /\ \A i \in DOMAIN s.mem : s.mem[i] \in 1..NPages
<1> DEFINE s == space[p]
<1>1. s \in SpaceType /\ ProcOK(p, s, Idle, pmm.owners, Seen(p))
  BY ProcFacts
<1>2. Pushed(Idle) = {} /\ Pulled(Idle) = {}
  BY IdleFacts DEF Plain, Pushed, Pulled
<1>3. Idle.got = <<>> /\ DOMAIN <<>> = {} /\ Idle.call = "none" /\ Idle.pc = "idle"
  BY IdleFacts
<1>4. \A f \in 1..NPages : /\ pmm.owners[f] = AnonOwner[p] <=> \E w \in Window : s.pages[w] = f
                           /\ pmm.owners[f] = ImageOwner[p] <=> \E i \in DOMAIN s.mem : s.mem[i] = f
  BY <1>1, <1>3 DEF ProcOK, Charged
<1>5. \A w \in Window :
                /\ s.states[w] \in {"free", "reserved"} => s.entries[w] = Absent
                /\ s.states[w] = "committed" => s.entries[w].frame = s.pages[w]
  BY <1>1, <1>2 DEF ProcOK, Mapped
<1>6. \A t \in Seen(p) : s.pages[t.window] = t.frame
  BY <1>1, <1>3 DEF ProcOK, Cached
<1>7. Books(s, Idle) /\ Len(s.mem) \in {0, NImage}
  BY <1>1, <1>3 DEF ProcOK, Books
<1>8. DOMAIN s.mem = 1..Len(s.mem) /\ (s.mem = <<>> <=> Len(s.mem) = 0)
      /\ \A i \in DOMAIN s.mem : s.mem[i] \in 1..NPages
  <2> DEFINE q == s.mem
             S == 1..NPages
  <2> HIDE DEF q, S
  <2>1. q \in Seq(S)
    BY <1>1 DEF q, S, SpaceType
  <2>2. /\ DOMAIN q = 1..Len(q) /\ (q = <<>> <=> Len(q) = 0)
        /\ \A i \in DOMAIN q : q[i] \in S
    BY <2>1, LenProperties, ElementOfSeq, EmptySeq
  <2> QED  BY <2>2 DEF q, S
<1> QED  BY <1>1, <1>4, <1>5, <1>6, <1>7, <1>8

LEMMA AllAccounted == IInv => FramesAccounted
<1> SUFFICES ASSUME IInv, op = Idle, NEW p \in Proc
             PROVE  LET Named(i) == {w \in Window : space[p].pages[w] = i} IN
                    /\ Frames!OwnedBy(pmm, AnonOwner[p]) =
                          {space[p].pages[w] : w \in {v \in Window : space[p].pages[v] # 0}}
                    /\ \A i \in 1..NPages : Cardinality(Named(i)) <= 1
                    /\ Frames!OwnedBy(pmm, ImageOwner[p]) = {space[p].mem[i] : i \in DOMAIN space[p].mem}
                    /\ space[p].mem = <<>> => space[p] = Empty
  BY DEF FramesAccounted
<1> DEFINE s == space[p]
           Named(i) == {w \in Window : s.pages[w] = i}
<1>1. /\ s \in SpaceType /\ Books(s, Idle)
      /\ \A f \in 1..NPages : /\ pmm.owners[f] = AnonOwner[p] <=> \E w \in Window : s.pages[w] = f
                              /\ pmm.owners[f] = ImageOwner[p] <=> \E i \in DOMAIN s.mem : s.mem[i] = f
      /\ \A w \in Window : s.states[w] \in {"free", "reserved"} => s.entries[w] = Absent
      /\ \A i \in DOMAIN s.mem : s.mem[i] \in 1..NPages
  BY Between
<1>2. NPages \in Nat /\ \A w \in Window : s.pages[w] \in 0..NPages
  BY <1>1, SpaceAssumption DEF SpaceType
<1>3. Frames!OwnedBy(pmm, AnonOwner[p]) = {s.pages[w] : w \in {v \in Window : s.pages[v] # 0}}
  <2>1. \A f : f \in Frames!OwnedBy(pmm, AnonOwner[p]) <=> f \in 1..NPages /\ pmm.owners[f] = AnonOwner[p]
    BY DEF Frames!OwnedBy, Frames!Page
  <2>2. \A f : f \in {s.pages[w] : w \in {v \in Window : s.pages[v] # 0}}
                <=> \E w \in Window : s.pages[w] = f /\ f # 0
    OBVIOUS
  <2>3. \A f : (\E w \in Window : s.pages[w] = f /\ f # 0) <=>
               f \in 1..NPages /\ \E w \in Window : s.pages[w] = f
    BY <1>2
  <2> QED  BY <1>1, <2>1, <2>2, <2>3
<1>4. Frames!OwnedBy(pmm, ImageOwner[p]) = {s.mem[i] : i \in DOMAIN s.mem}
  <2>1. \A f : f \in Frames!OwnedBy(pmm, ImageOwner[p]) <=> f \in 1..NPages /\ pmm.owners[f] = ImageOwner[p]
    BY DEF Frames!OwnedBy, Frames!Page
  <2> QED  BY <1>1, <2>1
<1>5. ASSUME NEW i \in 1..NPages PROVE Cardinality(Named(i)) <= 1
  <2>1. \A v, w \in Named(i) : v = w
    BY <1>1, <1>2 DEF Books
  <2> HIDE DEF Named
  <2>2. CASE Named(i) = {}
    BY <2>2, FS_EmptySet
  <2>3. CASE Named(i) # {}
    <3>1. PICK w : Named(i) = {w}
      BY <2>1, <2>3
    <3>2. Cardinality({w}) = 1
      BY FS_Singleton
    <3> QED  BY <3>1, <3>2
  <2> QED  BY <2>2, <2>3
<1>6. ASSUME s.mem = <<>> PROVE s = Empty
  <2>1. \A w \in Window : s.states[w] = "free" /\ s.pages[w] = 0 /\ s.entries[w] = Absent
    BY <1>1, <1>6 DEF Books
  <2>2. s.reserved = 0 /\ s.committed = 0 /\ s.broken = 0
    <3>1. /\ Window \ InState(s, "free") = {} /\ InState(s, "committed") = {}
          /\ InState(s, "broken") = {}
      BY <2>1 DEF InState
    <3> QED  BY <1>1, <3>1, FS_EmptySet DEF Books
  <2>3. /\ s.states = [w \in Window |-> "free"] /\ s.pages = [w \in Window |-> 0]
        /\ s.entries = [w \in Window |-> Absent]
    BY <1>1, <2>1 DEF SpaceType
  <2> HIDE DEF s
  <2> QED  BY <1>1, <1>6, <2>2, <2>3 DEF SpaceType, Empty
<1> QED  BY <1>3, <1>4, <1>5, <1>6

(***************************************************************************)
(* Between calls the frames charged to a process are those of its windows  *)
(* and of its image, each in one place: no failed allocation, transaction, *)
(* exit or restart leaks a frame, and a slot without image is as new.      *)
(***************************************************************************)
THEOREM NothingLeaks == Spec => []FramesAccounted
BY Invariance, AllAccounted, PTL

LEMMA BuffersInPlace == IInv => BuffersMapped
<1> SUFFICES ASSUME IInv, op = Idle, NEW p \in Proc, NEW w \in Window
             PROVE  LET s == space[p] IN
                    /\ s.states[w] = "committed" => s.entries[w].frame = s.pages[w]
                    /\ s.states[w] \in {"free", "reserved"} =>
                          s.entries[w] = Absent /\ (cr3 = p => \A t \in tlb : t.window # w)
  BY DEF BuffersMapped
<1> DEFINE s == space[p]
<1>1. /\ Books(s, Idle)
      /\ s.states[w] \in {"free", "reserved"} => s.entries[w] = Absent
      /\ s.states[w] = "committed" => s.entries[w].frame = s.pages[w]
      /\ \A t \in Seen(p) : s.pages[t.window] = t.frame
  BY Between
<1>2. ASSUME s.states[w] \in {"free", "reserved"}, cr3 = p, NEW t \in tlb PROVE t.window # w
  <2>1. t \in Seen(p) /\ t \in Translation
    BY <1>2 DEF Seen, IInv, Types
  <2>2. t.frame # 0
    BY <2>1, SpaceAssumption DEF Translation
  <2> QED  BY <1>1, <1>2, <2>1, <2>2 DEF Books
<1> QED  BY <1>1, <1>2

(***************************************************************************)
(* user64_range (usermode.c:808): between calls what it takes for memory   *)
(* of the process is mapped to the process's own frames, and a window that *)
(* was given back is neither mapped nor cached any more.                   *)
(***************************************************************************)
THEOREM CommittedIsMapped == Spec => []BuffersMapped
BY Invariance, BuffersInPlace, PTL

LEMMA ChecksHold == IInv => ChecksPass
<1> SUFFICES ASSUME IInv, op = Idle, NEW p \in Proc, space[p].mem # <<>>
             PROVE  process_memory_check(p) /\ (space[p].broken = 0 => shape_check(p, TRUE))
  BY DEF ChecksPass
<1> DEFINE s == space[p]
           held == InState(s, "committed") \cup InState(s, "broken")
<1>1. /\ s \in SpaceType /\ Books(s, Idle)
      /\ \A f \in 1..NPages : /\ pmm.owners[f] = AnonOwner[p] <=> \E w \in Window : s.pages[w] = f
                              /\ pmm.owners[f] = ImageOwner[p] <=> \E i \in DOMAIN s.mem : s.mem[i] = f
      /\ \A w \in Window : /\ s.states[w] \in {"free", "reserved"} => s.entries[w] = Absent
                           /\ s.states[w] = "committed" => s.entries[w].frame = s.pages[w]
      /\ Len(s.mem) \in {0, NImage} /\ DOMAIN s.mem = 1..Len(s.mem)
      /\ (s.mem = <<>> <=> Len(s.mem) = 0)
      /\ \A i \in DOMAIN s.mem : s.mem[i] \in 1..NPages
  BY Between
<1>2. process_memory_check(p)
  <2>1. Len(s.mem) = NImage /\ DOMAIN s.mem = 1..NImage /\ NImage \in Nat
    BY <1>1, SpaceAssumption
  <2>2. \A i \in 1..NImage : pmm.owners[s.mem[i]] = ImageOwner[p]
    BY <1>1, <2>1
  <2>3. \A i, j \in 1..NImage : s.mem[i] = s.mem[j] => i = j
    BY <1>1, <2>1 DEF Books
  <2>4. \A i \in 1..NImage : \A j \in 1..i - 1 : s.mem[i] # s.mem[j]
    <3> SUFFICES ASSUME NEW i \in 1..NImage, NEW j \in 1..i - 1 PROVE s.mem[i] # s.mem[j]
      OBVIOUS
    <3>1. j \in 1..NImage /\ i # j
      BY <2>1
    <3> QED  BY <2>3, <3>1
  <2> QED  BY <2>1, <2>2, <2>4 DEF process_memory_check
<1>3. shape_check(p, TRUE)
  <2>1. \A w \in InState(s, "free") : s.pages[w] = 0 /\ s.entries[w] = Absent
    BY <1>1 DEF InState, Books
  <2>2. \A w \in InState(s, "reserved") : s.pages[w] = 0 /\ s.entries[w] = Absent
    BY <1>1 DEF InState, Books
  <2>3. \A w \in held : w \in Window /\ s.pages[w] # 0 /\ s.pages[w] \in 1..NPages
    <3>1. \A w \in Window : s.pages[w] \in 0..NPages
      BY <1>1 DEF SpaceType
    <3>2. \A w \in held : w \in Window /\ s.states[w] \in {"committed", "broken"}
      BY DEF InState
    <3> HIDE DEF held, s
    <3>3. \A w \in held : s.pages[w] # 0
      BY <1>1, <3>2 DEF Books
    <3> QED  BY <3>1, <3>2, <3>3, SpaceAssumption
  <2>4. \A w \in held : pmm.owners[s.pages[w]] = AnonOwner[p]
    BY <1>1, <2>3
  <2>5. \A w \in held : \A v \in held \ {w} : s.pages[v] # s.pages[w]
    BY <1>1, <2>3 DEF Books
  <2>6. \A w \in InState(s, "committed") : s.entries[w].frame = s.pages[w]
    BY <1>1 DEF InState
  <2>7. /\ s.reserved = Cardinality(Window \ InState(s, "free"))
        /\ s.committed = Cardinality(InState(s, "committed"))
        /\ s.broken = Cardinality(InState(s, "broken"))
    BY <1>1 DEF Books
  <2> QED  BY <2>1, <2>2, <2>3, <2>4, <2>5, <2>6, <2>7 DEF shape_check
<1> QED  BY <1>2, <1>3

(***************************************************************************)
(* shape_check (anon_memory.c:32) and process_memory_check                 *)
(* (process_memory.c:17) report no corruption between calls: whatever      *)
(* failed before, the next call is not refused for it.                     *)
(***************************************************************************)
THEOREM ChecksNeverFail == Spec => []ChecksPass
BY Invariance, ChecksHold, PTL

\* A broken window stays as it is from space s to s1 of a process.
Held(s, s1) == \A w \in Window : s.states[w] = "broken" =>
    s1.states[w] = "broken" /\ s1.pages[w] = s.pages[w] /\ s1.mem # <<>>

LEMMA HeldAlone ==
    ASSUME IInv, NEW p \in Proc, NEW s1, space' = [space EXCEPT ![p] = s1], Held(space[p], s1),
           NEW q \in Proc
    PROVE  Held(space[q], space'[q])
<1>1. space[q].mem = <<>> => \A w \in Window : space[q].states[w] = "free"
  BY DEF IInv, ProcOK, Books
<1>2. space' \in [Proc -> {space[x] : x \in Proc} \cup {s1}]
      /\ space'[p] = s1 /\ \A x \in Proc \ {p} : space'[x] = space[x]
  BY DEF IInv, Types
<1> QED  BY <1>1, <1>2 DEF Held

LEMMA HeldSame ==
    ASSUME IInv, NEW q \in Proc, space' = space
    PROVE  Held(space[q], space'[q])
<1>1. space[q].mem = <<>> => \A w \in Window : space[q].states[w] = "free"
  BY DEF IInv, ProcOK, Books
<1> QED  BY <1>1 DEF Held

\* Steps that move other fields than the states, frames and image do not touch it.
LEMMA HeldEntries ==
    ASSUME IInv, NEW p \in Proc, NEW q \in Proc, NEW en,
           space' = [space EXCEPT ![p].entries = en]
    PROVE  Held(space[q], space'[q])
<1> DEFINE s == space[p]
           s1 == [s EXCEPT !.entries = en]
<1>1. s \in SpaceType /\ (s.mem = <<>> => \A w \in Window : s.states[w] = "free")
  BY DEF IInv, Types, ProcOK, Books
<1>2. s1.states = s.states /\ s1.pages = s.pages /\ s1.mem = s.mem
  BY <1>1 DEF SpaceType
<1>3. space' = [space EXCEPT ![p] = s1]
  OBVIOUS
<1> HIDE DEF s1
<1>4. Held(s, s1)
  BY <1>1, <1>2 DEF Held
<1> QED  BY <1>3, <1>4, HeldAlone

LEMMA ReserveHolds ==
    ASSUME IInv, NEW p \in Proc, NEW first \in Window, NEW count \in 1..NWindows - first + 1,
           anon_memory_reserve(p, first, count), NEW q \in Proc
    PROVE  Held(space[q], space'[q])
<1> DEFINE s == space[p]
           st == [w \in Window |-> IF w \in Run(first, count) THEN "reserved" ELSE s.states[w]]
           s1 == [s EXCEPT !.states = st, !.reserved = @ + count]
<1>1. /\ op = Idle /\ cr3 = p
      /\ \A w \in Run(first, count) : s.states[w] = "free"
  BY DEF anon_memory_reserve, Syscall
<1>2. /\ ProcOK(p, s, op, pmm.owners, Seen(p)) /\ Types /\ Running /\ s \in SpaceType
  BY <1>1, Unfolded, IdleFacts
<1>3. space' = [space EXCEPT ![p] = s1]
  BY <1>2 DEF anon_memory_reserve, Types
<1>4. s1.mem = s.mem /\ s1.states = st /\ s1.pages = s.pages
  BY <1>2 DEF SpaceType
<1>5. s.mem # <<>>
  BY <1>1, <1>2 DEF Running
<1> HIDE DEF s1
<1>6. Held(s, s1)
  BY <1>1, <1>4, <1>5 DEF Held
<1> HIDE DEF s
<1> QED  BY <1>3, <1>6, HeldAlone DEF s

LEMMA WriteHolds == ASSUME IInv, WriteEntry, NEW q \in Proc PROVE Held(space[q], space'[q])
<1>1. PICK p \in Proc : p = op.proc
  BY CallIsSomebodys DEF WriteEntry
<1> DEFINE c == op.changes[op.applied + 1]
           en == [space[p].entries EXCEPT ![c.window] = c.after]
<1>2. space' = [space EXCEPT ![p].entries = en]
  BY <1>1 DEF WriteEntry
<1> QED  BY <1>2, HeldEntries

LEMMA RestoreHolds == ASSUME IInv, Restore, NEW q \in Proc PROVE Held(space[q], space'[q])
<1>1. PICK p \in Proc : p = op.proc
  BY CallIsSomebodys DEF Restore
<1> DEFINE undone(w) == {k \in 1..op.applied : op.changes[k].window = w}
           en == [w \in Window |-> IF undone(w) = {} THEN space[p].entries[w]
                                   ELSE op.changes[CHOOSE k \in undone(w) : TRUE].before]
<1>2. space' = [space EXCEPT ![p].entries = en]
  BY <1>1 DEF Restore, IInv, Types
<1> QED  BY <1>2, HeldEntries

LEMMA WalkHolds ==
    ASSUME IInv, NEW w \in Window, Walk(w), NEW q \in Proc
    PROVE  Held(space[q], space'[q])
<1>1. cr3 \in Proc
  BY DEF Walk
<1> DEFINE en == [space[cr3].entries EXCEPT ![w].accessed = TRUE]
<1>2. space' = [space EXCEPT ![cr3].entries = en]
  BY DEF Walk
<1> QED  BY <1>1, <1>2, HeldEntries

\* A run of a commit takes windows that were reserved, so never a broken one.
LEMMA RecordHolds ==
    ASSUME IInv, op.call = "commit", op.pc \in Applying, NEW p \in Proc, op.proc = p,
           NEW st \in {"committed", "broken"}
    PROVE  Held(space[p], CommittedAs(space[p], st))
<1> DEFINE s == space[p]
           s2 == CommittedAs(s, st)
<1>1. /\ s2.mem = s.mem
      /\ \A w \in RunOf(op) : s.states[w] = "reserved"
      /\ \A w \in Window : w \notin RunOf(op) => s2.states[w] = s.states[w] /\ s2.pages[w] = s.pages[w]
  BY CommitRecorded
<1>2. s.mem # <<>>
  BY InTransaction
<1> HIDE DEF s, s2
<1>3. Held(s, s2)
  BY <1>1, <1>2 DEF Held
<1> QED  BY <1>3 DEF s, s2

LEMMA FlushHolds == ASSUME IInv, Flushed, NEW q \in Proc PROVE Held(space[q], space'[q])
<1>1. op.pc = "flush" /\ op.pc \in Applying
  BY DEF Flushed, Applying, Unsettled
<1>2. PICK p \in Proc : p = op.proc
  BY <1>1, InTransaction
<1>3. CASE op.call = "commit"
  <2>1. space' = [space EXCEPT ![p] = CommittedAs(space[p], "committed")]
    BY <1>2, <1>3 DEF Flushed, Settled, CommittedAs, IInv, Types
  <2>2. Held(space[p], CommittedAs(space[p], "committed"))
    BY <1>1, <1>2, <1>3, RecordHolds
  <2> QED  BY <2>1, <2>2, HeldAlone
<1>4. CASE op.call # "commit"
  BY <1>4, HeldSame DEF Flushed
<1> QED  BY <1>3, <1>4

LEMMA RollBackHolds ==
    ASSUME IInv, op.pc \in {"reflush", "compare"}, RollbackFails, NEW q \in Proc
    PROVE  Held(space[q], space'[q])
<1>1. op.pc \in Applying
  BY DEF Applying
<1>2. PICK p \in Proc : p = op.proc
  BY <1>1, InTransaction
<1> DEFINE s == space[p]
           s2 == Broken(s)
<1>3. /\ op.call \in {"commit", "release", "exit", "prepare"} /\ s.mem # <<>>
      /\ space \in [Proc -> SpaceType]
  BY <1>1, <1>2, InTransaction DEF Types
<1>4. space' = [space EXCEPT ![p] = s2]
  BY <1>2, <1>3 DEF RollbackFails
<1>5. CASE op.call = "commit"
  <2>1. s2 = CommittedAs(s, "broken")
    BY <1>5 DEF Broken, CommittedAs
  <2>2. Held(s, s2)
    BY <1>1, <1>2, <1>5, <2>1, RecordHolds
  <2> QED  BY <1>4, <2>2, HeldAlone
<1>6. CASE op.call # "commit"
  <2>1. /\ s2.mem = s.mem /\ s2.pages = s.pages
        /\ \A w \in Window : s2.states[w] = s.states[w] \/ s.states[w] = "committed"
    BY <1>1, <1>2, <1>3, <1>6, HitBroken
  <2> HIDE DEF s2, s
  <2>2. Held(s, s2)
    BY <1>3, <2>1 DEF Held
  <2> QED  BY <1>4, <2>2, HeldAlone DEF s
<1> QED  BY <1>5, <1>6

LEMMA FreeHolds == ASSUME IInv, FreeWindow, NEW q \in Proc PROVE Held(space[q], space'[q])
<1>1. op.pc = "free" /\ op.count > 0
  BY DEF FreeWindow
<1>2. PICK p \in Proc : p = op.proc
  BY <1>1, CallIsSomebodys
<1> DEFINE s == space[p]
           w == op.first
           s1 == Forgotten(s, w)
<1>3. /\ op.proc = p /\ op.call # "none" /\ Types /\ Running /\ op \in OpType /\ s \in SpaceType
      /\ ProcOK(p, s, op, pmm.owners, Seen(p))
  BY <1>1, <1>2, CallIsSomebodys
<1>4. Tearing(s, op) /\ s.mem # <<>>
  BY <1>1, <1>3 DEF ProcOK, Calling, Committing, Applying, Unsettled, OpType
<1>5. w \in RunOf(op)
  <2>1. w \in Nat /\ op.count \in Nat
    BY <1>3 DEF OpType
  <2> QED  BY <1>1, <2>1 DEF RunOf, Run
<1>6. s.states[w] \in {"reserved", "committed"} /\ w \in Window
  BY <1>4, <1>5 DEF Tearing
<1>7. space' = [space EXCEPT ![p] = s1]
  BY <1>2, <1>3 DEF FreeWindow, Types
<1>8. /\ s1.mem = s.mem /\ s1.pages = [s.pages EXCEPT ![w] = 0]
      /\ s1.states = [s.states EXCEPT ![w] = "free"]
  BY <1>3 DEF SpaceType, Forgotten
<1> HIDE DEF w, s1
<1>9. \A v \in Window : v # w => s1.pages[v] = s.pages[v] /\ s1.states[v] = s.states[v]
  BY <1>3, <1>6, <1>8 DEF SpaceType
<1> HIDE DEF s
<1>10. Held(s, s1)
  BY <1>4, <1>6, <1>8, <1>9 DEF Held
<1> QED  BY <1>7, <1>10, HeldAlone DEF s

\* An image goes, and another comes, only when every window is free.
LEMMA ImageHolds == ASSUME IInv, FreeImage \/ Publish, NEW q \in Proc PROVE Held(space[q], space'[q])
<1>1. op.pc \in {"unimage", "publish"}
  BY DEF FreeImage, Publish
<1>2. PICK p \in Proc : p = op.proc
  BY <1>1, CallIsSomebodys
<1>3. \A w \in Window : space[p].states[w] = "free"
  BY <1>1, <1>2, CallIsSomebodys DEF ProcOK, Calling
<1>4. PICK s1 : space' = [space EXCEPT ![p] = s1]
  <2>1. CASE FreeImage
    BY <1>2, <2>1 DEF FreeImage
  <2>2. CASE Publish
    BY <1>2, <2>2 DEF Publish
  <2> QED  BY <2>1, <2>2
<1>5. Held(space[p], s1)
  BY <1>3 DEF Held
<1> QED  BY <1>4, <1>5, HeldAlone

LEMMA StepHolds ==
    ASSUME IInv, [Next]_vars, NEW q \in Proc
    PROVE  Held(space[q], space'[q])
<1>1. ASSUME NEW p \in Proc, Anonymous(p) PROVE Held(space[q], space'[q])
  BY <1>1, ReserveHolds, HeldSame DEF Anonymous, anon_memory_commit, anon_memory_release
<1>2. CASE \E p \in Proc : process64_prepare(p) \/ process64_release_slot(p) \/ user64_enter(p)
  BY <1>2, HeldSame DEF process64_prepare, process64_release_slot, user64_enter, LoadCr3
<1>3. CASE user64_abort \/ TakeFrame \/ OutOfFrames \/ Undo \/ Released \/ Scan
  BY <1>3, HeldSame DEF user64_abort, LoadCr3, TakeFrame, OutOfFrames, Undo, Released, Scan
<1>4. CASE CheckStale \/ FlushRefused \/ Reflushed
  BY <1>4, HeldSame DEF CheckStale, FlushRefused, Reflushed
<1>5. CASE WriteEntry  BY <1>5, WriteHolds
<1>6. CASE Flushed  BY <1>6, FlushHolds
<1>7. CASE Restore  BY <1>7, RestoreHolds
<1>8. CASE ReflushRefused  BY <1>8, RollBackHolds DEF ReflushRefused
<1>9. CASE CompareRestored  BY <1>9, RollBackHolds, HeldSame DEF CompareRestored
<1>10. CASE FreeWindow  BY <1>10, FreeHolds
<1>11. CASE FreeImage \/ Publish  BY <1>11, ImageHolds
<1>12. ASSUME NEW w \in Window, Walk(w) PROVE Held(space[q], space'[q])
  BY <1>12, WalkHolds
<1>13. CASE UNCHANGED vars
  BY <1>13, HeldSame DEF vars
<1> QED  BY <1>1, <1>2, <1>3, <1>4, <1>5, <1>6, <1>7, <1>8, <1>9, <1>10, <1>11, <1>12, <1>13
         DEF Next, Transaction

LEMMA NothingUnbreaks ==
    IInv /\ [Next]_vars => [\A p \in Proc, w \in Window : space[p].states[w] = "broken" =>
        space'[p].states[w] = "broken" /\ space'[p].pages[w] = space[p].pages[w]
        /\ space'[p].mem # <<>>]_vars
BY StepHolds DEF Held

(***************************************************************************)
(* anon_memory.c:218 and 279: no later call of any process, and no         *)
(* teardown, takes a broken window back or gives its frame away, and the   *)
(* slot keeps its image for as long.                                       *)
(***************************************************************************)
THEOREM BrokenKept == Spec => BrokenStaysHeld
BY Invariance, NothingUnbreaks, PTL DEF Spec, BrokenStaysHeld
=====
