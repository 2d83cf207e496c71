---------------------------- MODULE BlockCache ----------------------------
(***************************************************************************)
(* drivers/storage/block.c: the write-back cache between zlfs and the NVMe *)
(* driver. Every page, its age and its dirty sequence number are modelled; *)
(* block_flush is one block_service per step, so that the power can go     *)
(* between any two of its device writes.                                   *)
(***************************************************************************)
EXTENDS Naturals, FiniteSets, Sequences

CONSTANTS
    N,          \* cache pages (BLOCK_CACHE_N)
    Lba,        \* logical block addresses of the device
    Val,        \* block contents
    Word,       \* 2^32: clock_hand, age, write_seq and seq are u32
    MaxClock    \* bound on clock_hand (Word or more: the counters wrap)

ASSUME NAssumption == N \in Nat \ {0}
ASSUME WordAssumption == Word \in Nat /\ Word > 1
ASSUME MaxClockAssumption == MaxClock \in Nat
ASSUME LbaAssumption == Lba # {} /\ Val # {}

VARIABLES
    page,       \* pages[]
    media,      \* the blocks the controller has stored
    clock,      \* clock_hand
    wseq,       \* write_seq
    dirtyN,     \* dirty_n, the counter block_flush reports from
    flush,      \* iterations left to a block_flush in progress, 0 if none
    flushed,    \* what the last block_flush returned
    latest      \* history: the last write block_write accepted for each lba

cachevars == <<page, media, clock, wseq, dirtyN, flush, flushed, latest>>

Index == 1..N
Page == [valid : BOOLEAN, dirty : BOOLEAN, lba : Lba, data : Val,
         seq : 0..Word - 1, age : 0..Word - 1]

Bump(c) == (c + 1) % Word
First(S) == {i \in S : \A j \in S : i <= j}

Hit(l) == {i \in Index : page[i].valid /\ page[i].lba = l}
find_page(l) == First(Hit(l))

Dirty == {i \in Index : page[i].dirty}
Invalid == {i \in Index : ~page[i].valid}

\* The clean pages nobody has used for longest; the scan's <= keeps the last.
EldestClean ==
    {i \in Index \ Dirty : \A j \in Index \ Dirty :
        \/ page[i].age < page[j].age
        \/ page[i].age = page[j].age /\ j <= i}

\* Mutant of take_page: the scan forgets that dirty pages may not be evicted.
TakesDirtyPage ==
    IF Invalid # {} THEN First(Invalid)
    ELSE {i \in Index : \A j \in Index : page[i].age <= page[j].age}

\* The page a miss may use: empty when every page is dirty.
take_page == IF Invalid # {} THEN First(Invalid) ELSE EldestClean

\* Mutant of OldestDirty: the least recently used dirty page goes first.
LeastRecentlyUsedDirty == {i \in Dirty : \A j \in Dirty : page[i].age <= page[j].age}

\* The page block_service writes next: the smallest sequence number, compared
\* without regard to wrap-around; the scan's <= keeps the last.
OldestDirty ==
    {i \in Dirty : \A j \in Dirty :
        \/ page[i].seq < page[j].seq
        \/ page[i].seq = page[j].seq /\ j <= i}

\* A page of the zeroed BSS; its lba and data mean nothing until it is valid.
BlankPage ==
    [valid |-> FALSE, dirty |-> FALSE, lba |-> CHOOSE l \in Lba : TRUE,
     data |-> CHOOSE v \in Val : TRUE, seq |-> 0, age |-> 0]

NotFlushing == flush = 0
Bounded == clock < MaxClock
-----------------------------------------------------------------------------
\* A hit copies the page out and refreshes its age.
ReadHit(l) ==
    /\ NotFlushing /\ Bounded
    /\ \E i \in find_page(l) : page' = [page EXCEPT ![i].age = Bump(clock)]
    /\ clock' = Bump(clock)
    /\ UNCHANGED <<media, wseq, dirtyN, flush, flushed, latest>>

\* A miss that the device answers replaces a clean page. (One that it does
\* not, or that finds every page dirty, leaves the cache as it was.)
ReadMiss(l) ==
    /\ NotFlushing /\ Bounded
    /\ Hit(l) = {}
    /\ \E i \in take_page :
        page' = [page EXCEPT ![i] = [@ EXCEPT !.valid = TRUE, !.dirty = FALSE,
                    !.lba = l, !.data = media[l], !.age = Bump(clock)]]
    /\ clock' = Bump(clock)
    /\ UNCHANGED <<media, wseq, dirtyN, flush, flushed, latest>>


block_write(l, v) ==
    /\ NotFlushing /\ Bounded
    /\ \E i \in (IF Hit(l) # {} THEN find_page(l) ELSE take_page) :
        /\ page' = [page EXCEPT ![i] =
                [valid |-> TRUE, dirty |-> TRUE, lba |-> l, data |-> v,
                 seq |-> Bump(wseq), age |-> Bump(clock)]]
        /\ dirtyN' = IF page[i].dirty THEN dirtyN ELSE dirtyN + 1
    /\ clock' = Bump(clock)
    /\ wseq' = Bump(wseq)
    /\ latest' = [latest EXCEPT ![l] = v]
    /\ UNCHANGED <<media, flush, flushed>>

\* Mutant of ServicePage: the page written stays dirty.
StaysDirty(i) ==
    /\ media' = [media EXCEPT ![page[i].lba] = page[i].data]
    /\ dirtyN' = IF dirtyN = 0 THEN 0 ELSE dirtyN - 1
    /\ UNCHANGED page

\* One block_service that finds dirty page i and is acknowledged.
ServicePage(i) ==
    /\ media' = [media EXCEPT ![page[i].lba] = page[i].data]
    /\ page' = [page EXCEPT ![i].dirty = FALSE]
    /\ dirtyN' = IF dirtyN = 0 THEN 0 ELSE dirtyN - 1

\* One that the controller refuses or does not answer in time: the page stays
\* dirty, and the block may or may not have been stored.
ServiceFails(i) ==
    /\ \/ UNCHANGED media
       \/ media' = [media EXCEPT ![page[i].lba] = page[i].data]
    /\ UNCHANGED <<page, dirtyN>>

\* block_service called on its own, by the main loop.
block_service ==
    /\ NotFlushing
    /\ \E i \in OldestDirty : ServicePage(i) \/ ServiceFails(i)
    /\ UNCHANGED <<clock, wseq, flush, flushed, latest>>


block_flush ==
    /\ NotFlushing
    /\ flush' = N
    /\ flushed' = "running"
    /\ UNCHANGED <<page, media, clock, wseq, dirtyN, latest>>

\* Mutant of FlushRound: "if (r <= 0) return 1", a refusal read as "nothing left".
RefusalEndsFlush ==
    /\ flush > 0
    /\ \/ /\ Dirty = {}
          /\ flush' = 0 /\ flushed' = "ok"
          /\ UNCHANGED <<page, media, dirtyN>>
       \/ \E i \in OldestDirty :
          /\ ServicePage(i)
          /\ flush' = flush - 1
          /\ flushed' = IF flush > 1 THEN "running" ELSE "failed"
       \/ \E i \in OldestDirty :
          /\ ServiceFails(i)
          /\ flush' = 0 /\ flushed' = "ok"
    /\ UNCHANGED <<clock, wseq, latest>>

\* One round of the loop in block_flush; after the last the counter decides.
FlushRound ==
    /\ flush > 0
    /\ \/ /\ Dirty = {}
          /\ flush' = 0 /\ flushed' = "ok"
          /\ UNCHANGED <<page, media, dirtyN>>
       \/ \E i \in OldestDirty :
          /\ ServicePage(i)
          /\ flush' = flush - 1
          /\ flushed' = IF flush > 1 THEN "running"
                        ELSE IF dirtyN' = 0 THEN "ok" ELSE "failed"
       \/ \E i \in OldestDirty :
          /\ ServiceFails(i)
          /\ flush' = 0 /\ flushed' = "failed"
    /\ UNCHANGED <<clock, wseq, latest>>

\* Power is lost: the cache is memory, the blocks stored are not.
CachePowerCut ==
    /\ page' = [i \in Index |-> BlankPage]
    /\ clock' = 0 /\ wseq' = 0 /\ dirtyN' = 0
    /\ flush' = 0 /\ flushed' = "none"
    /\ latest' = media
    /\ UNCHANGED media
-----------------------------------------------------------------------------
CacheInit ==
    /\ media \in [Lba -> Val]
    /\ page = [i \in Index |-> BlankPage]
    /\ clock = 0 /\ wseq = 0 /\ dirtyN = 0
    /\ flush = 0 /\ flushed = "none"
    /\ latest = media

CacheNext ==
    \/ \E l \in Lba : ReadHit(l) \/ ReadMiss(l)
    \/ \E l \in Lba, v \in Val : block_write(l, v)
    \/ block_flush
    \/ FlushRound
    \/ block_service
    \/ CachePowerCut

CacheSpec == CacheInit /\ [][CacheNext]_cachevars

\* Every wake of the kernel's main loop calls block_service once, whatever the
\* frame before it did; a flush, once called, runs to its end; and the device
\* does not refuse every write from some time on.
Served ==
    /\ NotFlushing
    /\ \E i \in OldestDirty : ServicePage(i)
    /\ UNCHANGED <<clock, wseq, flush, flushed, latest>>
MainLoopSpec == CacheSpec /\ WF_cachevars(FlushRound) /\ SF_cachevars(Served)
-----------------------------------------------------------------------------
CacheTypeOK ==
    /\ page \in [Index -> Page]
    /\ media \in [Lba -> Val]
    /\ latest \in [Lba -> Val]
    /\ clock \in 0..Word - 1
    /\ wseq \in 0..Word - 1
    /\ dirtyN \in Nat
    /\ flush \in 0..N
    /\ flushed \in {"none", "running", "ok", "failed"}

(***************************************************************************)
(* No accepted write is lost or shadowed: a block is cached at most once   *)
(* (find_page stops at the first match), a cached copy is the last write   *)
(* accepted, a clean copy is also what the medium holds, and a block that  *)
(* is not cached can be read back from the medium.                         *)
(***************************************************************************)
CachedOnce == \A i, j \in Index :
    page[i].valid /\ page[j].valid /\ page[i].lba = page[j].lba => i = j
CachedIsLatest == \A i \in Index :
    page[i].valid => page[i].data = latest[page[i].lba]
CleanIsStored == \A i \in Index :
    page[i].valid /\ ~page[i].dirty => page[i].data = media[page[i].lba]
UncachedIsStored == \A l \in Lba : Hit(l) = {} => media[l] = latest[l]
DirtyIsValid == \A i \in Index : page[i].dirty => page[i].valid

Coherent ==
    CachedOnce /\ CachedIsLatest /\ CleanIsStored /\ UncachedIsStored /\ DirtyIsValid

(***************************************************************************)
(* block_flush answers from dirty_n and from a loop of N rounds, not by    *)
(* looking at the pages. When it answers 1, before anything else is        *)
(* written, every block is on the medium.                                  *)
(***************************************************************************)
FlushOkMeansStored ==
    [][flushed' = "ok" /\ flushed # "ok" => media' = latest']_cachevars

\* dirty_n counts the dirty pages, whatever order the calls come in.
DirtyCounted == dirtyN = Cardinality(Dirty)

(***************************************************************************)
(* block.c:6: "Dirty sequence order preserves the zlfs data-before-        *)
(* directory publication order". The dirty pages sorted by their sequence  *)
(* numbers are the queue of WriteBack, and every operation of the cache is *)
(* one of WriteBack's (or none).                                           *)
(***************************************************************************)
Rank(i) == Cardinality({j \in Dirty : page[j].seq < page[i].seq}) + 1
DirtyQueue ==
    [k \in 1..Cardinality(Dirty) |->
        LET i == CHOOSE p \in Dirty : Rank(p) = k
        IN  [addr |-> page[i].lba, val |-> page[i].data]]

WB == INSTANCE WriteBack WITH Addr <- Lba, CacheN <- N, queue <- DirtyQueue
ImplementsWriteBack == WB!Spec

(***************************************************************************)
(* block.c:3: "The main loop calls block_service() outside wm_frame(),     *)
(* which writes at most one dirty block". So a cache that is refusing new  *)
(* work because every page is dirty comes out of that state, whoever       *)
(* flushes, rewrites or reads meanwhile.                                   *)
(***************************************************************************)
Full == Cardinality(Dirty) = N
FullCacheDrains == Full ~> ~Full
=============================================================================
