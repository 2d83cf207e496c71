---------------------------- MODULE StorageProofs ----------------------------
(***************************************************************************)
(* The block cache, for any number of pages, any device and any word size: *)
(* it loses no accepted write (Coherent), dirty_n counts its dirty pages   *)
(* (DirtyCounted), and a block_flush that answers 1 has left every         *)
(* accepted write on the medium (FlushOkMeansStored). Below the wrap of    *)
(* its counters it is the queue of WriteBack (CacheIsQueue, at the end).   *)
(*                                                                         *)
(* Zlfs on top of it, for any number of entries, blocks, pages and calls:  *)
(* alloc_run is first fit (AllocIsFirstFit), no two files share a block,   *)
(* whatever data flush fails and wherever the power goes (RunsDisjoint),   *)
(* and every operation is atomic: ZlfsVolume implements Volume             *)
(* (ZlfsIsVolume).                                                         *)
(***************************************************************************)
EXTENDS BlockCache, ZlfsVolume, FiniteSetTheorems, SequenceTheorems, WellFoundedInduction, TLAPS

(***************************************************************************)
(*                           The block cache                               *)
(***************************************************************************)

\* The inductive invariant: coherence of the pages needs their types, and the
\* counter is only right while a page that leaves Dirty was in it.
IInv == CacheTypeOK /\ Coherent /\ DirtyCounted

\* Which pages the scans of block.c can return.
LEMMA ScansReturnPages ==
    ASSUME CacheTypeOK, DirtyIsValid
    PROVE  /\ \A l \in Lba : find_page(l) \subseteq Hit(l)
           /\ \A l \in Lba : Hit(l) \subseteq Index
           /\ take_page \subseteq Index \ Dirty
           /\ OldestDirty \subseteq Dirty
           /\ Dirty \subseteq Index
  BY DEF find_page, take_page, OldestDirty, Dirty, Invalid, First, EldestClean,
         Hit, DirtyIsValid

LEMMA DirtyFinite == IsFiniteSet(Dirty) /\ Cardinality(Dirty) \in Nat
<1>1. IsFiniteSet(Index)  BY NAssumption, FS_Interval DEF Index
<1>2. Dirty \subseteq Index  BY DEF Dirty
<1> QED  BY <1>1, <1>2, FS_Subset, FS_CardinalityType

LEMMA BumpType == \A c \in 0..Word - 1 : Bump(c) \in 0..Word - 1
  BY WordAssumption DEF Bump

\* Every operation changes at most one page, so the set of dirty pages gains
\* that page, loses it, or stays.
LEMMA CountOfOneChange ==
    ASSUME NEW i \in Index, DirtyCounted, IsFiniteSet(Dirty)
    PROVE  /\ Dirty' = Dirty \cup {i} /\ i \notin Dirty /\ dirtyN' = dirtyN + 1
                => DirtyCounted'
           /\ Dirty' = Dirty \ {i} /\ i \in Dirty
                /\ dirtyN' = (IF dirtyN = 0 THEN 0 ELSE dirtyN - 1)
                => DirtyCounted'
           /\ Dirty' = Dirty /\ dirtyN' = dirtyN => DirtyCounted'
<1>1. Dirty' = Dirty \cup {i} /\ i \notin Dirty
        => Cardinality(Dirty') = Cardinality(Dirty) + 1
  BY FS_AddElement
<1>2. Dirty' = Dirty \ {i} /\ i \in Dirty
        => Cardinality(Dirty') = Cardinality(Dirty) - 1
  BY FS_RemoveElement
<1>3. i \in Dirty => Cardinality(Dirty) # 0
  BY FS_EmptySet
<1> QED
  BY <1>1, <1>2, <1>3 DEF DirtyCounted
-----------------------------------------------------------------------------
LEMMA InitInv == CacheInit => IInv
<1> SUFFICES ASSUME CacheInit PROVE IInv  OBVIOUS
<1>1. BlankPage \in Page
  BY LbaAssumption, WordAssumption DEF BlankPage, Page
<1>2. CacheTypeOK
  BY <1>1, NAssumption, WordAssumption DEF CacheInit, CacheTypeOK, Index
<1>3. Coherent
  BY DEF CacheInit, Coherent, CachedOnce, CachedIsLatest, CleanIsStored, UncachedIsStored,
         DirtyIsValid, Hit, BlankPage
<1>4. Dirty = {}  BY DEF CacheInit, Dirty, BlankPage
<1>5. DirtyCounted  BY <1>4, FS_EmptySet DEF CacheInit, DirtyCounted
<1> QED  BY <1>2, <1>3, <1>5 DEF IInv

LEMMA ReadHitInv ==
    ASSUME IInv, NEW l \in Lba, ReadHit(l)
    PROVE  IInv'
<1> USE DEF IInv
<1>1. PICK i \in find_page(l) : page' = [page EXCEPT ![i].age = Bump(clock)]
  BY DEF ReadHit
<1>2. i \in Index  BY ScansReturnPages DEF Coherent
<1>3. CacheTypeOK'
  BY <1>1, <1>2, BumpType DEF ReadHit, CacheTypeOK, Page
<1>4. \A j \in Index : /\ page'[j].valid = page[j].valid
                       /\ page'[j].dirty = page[j].dirty
                       /\ page'[j].lba = page[j].lba
                       /\ page'[j].data = page[j].data
  BY <1>1, <1>2 DEF CacheTypeOK, Page
<1>5. Coherent'
  BY <1>4 DEF ReadHit, Coherent, CachedOnce, CachedIsLatest, CleanIsStored,
              UncachedIsStored, DirtyIsValid, Hit
<1>6. Dirty' = Dirty  BY <1>4 DEF Dirty
<1>7. DirtyCounted'  BY <1>2, <1>6, CountOfOneChange, DirtyFinite DEF ReadHit
<1> QED  BY <1>3, <1>5, <1>7

LEMMA ReadMissInv ==
    ASSUME IInv, NEW l \in Lba, ReadMiss(l)
    PROVE  IInv'
<1> USE DEF IInv
<1>1. PICK i \in take_page :
        page' = [page EXCEPT ![i] = [@ EXCEPT !.valid = TRUE, !.dirty = FALSE,
                    !.lba = l, !.data = media[l], !.age = Bump(clock)]]
  BY DEF ReadMiss
<1>2. i \in Index /\ i \notin Dirty  BY ScansReturnPages DEF Coherent
<1>3. /\ page'[i].valid /\ ~page'[i].dirty /\ page'[i].lba = l
      /\ page'[i].data = media[l]
      /\ \A j \in Index \ {i} : page'[j] = page[j]
  BY <1>1, <1>2 DEF CacheTypeOK, Page
<1>4. CacheTypeOK'
  <2>1. Bump(clock) \in 0..Word - 1 /\ page[i] \in Page /\ media[l] \in Val
    BY <1>2, BumpType DEF CacheTypeOK
  <2>2. [page[i] EXCEPT !.valid = TRUE, !.dirty = FALSE, !.lba = l,
            !.data = media[l], !.age = Bump(clock)] \in Page
    BY <2>1 DEF Page
  <2>3. page' \in [Index -> Page]  BY <1>1, <1>2, <2>2 DEF CacheTypeOK
  <2> QED  BY <2>1, <2>3 DEF ReadMiss, CacheTypeOK
<1>5. media[l] = latest[l] /\ \A j \in Index : page[j].valid => page[j].lba # l
  BY DEF ReadMiss, Coherent, UncachedIsStored, Hit
<1>6. CachedOnce' /\ CachedIsLatest' /\ CleanIsStored' /\ DirtyIsValid'
  BY <1>2, <1>3, <1>5
     DEF ReadMiss, Coherent, CachedOnce, CachedIsLatest, CleanIsStored, DirtyIsValid
<1>7. UncachedIsStored'
  <2> SUFFICES ASSUME NEW m \in Lba, Hit(m)' = {}
               PROVE  media'[m] = latest'[m]
    BY DEF UncachedIsStored
  <2>1. \A j \in Index : ~(page'[j].valid /\ page'[j].lba = m)
    BY DEF Hit
  <2>2. CASE page[i].valid /\ page[i].lba = m
    BY <1>2, <2>2 DEF ReadMiss, Coherent, CachedIsLatest, CleanIsStored, Dirty
  <2>3. CASE ~(page[i].valid /\ page[i].lba = m)
    <3>1. Hit(m) = {}  BY <1>3, <2>1, <2>3 DEF Hit
    <3> QED  BY <3>1 DEF ReadMiss, Coherent, UncachedIsStored
  <2> QED  BY <2>2, <2>3
<1>8. Dirty' = Dirty  BY <1>2, <1>3 DEF Dirty
<1>9. DirtyCounted'  BY <1>2, <1>8, CountOfOneChange, DirtyFinite DEF ReadMiss
<1> QED  BY <1>4, <1>6, <1>7, <1>9 DEF Coherent

LEMMA WriteInv ==
    ASSUME IInv, NEW l \in Lba, NEW v \in Val, block_write(l, v)
    PROVE  IInv'
<1> USE DEF IInv
<1>1. PICK i \in (IF Hit(l) # {} THEN find_page(l) ELSE take_page) :
        /\ page' = [page EXCEPT ![i] =
                [valid |-> TRUE, dirty |-> TRUE, lba |-> l, data |-> v,
                 seq |-> Bump(wseq), age |-> Bump(clock)]]
        /\ dirtyN' = IF page[i].dirty THEN dirtyN ELSE dirtyN + 1
  BY DEF block_write
<1>2. /\ i \in Index
      /\ Hit(l) # {} => i \in Hit(l)
      /\ Hit(l) = {} => i \notin Dirty
  BY ScansReturnPages DEF Coherent
<1>3. /\ page'[i].valid /\ page'[i].dirty /\ page'[i].lba = l /\ page'[i].data = v
      /\ \A j \in Index \ {i} : page'[j] = page[j]
  BY <1>1, <1>2 DEF CacheTypeOK
<1>4. latest' = [latest EXCEPT ![l] = v] /\ media' = media
  BY DEF block_write
<1>5. CacheTypeOK'
  <2>1. Bump(clock) \in 0..Word - 1 /\ Bump(wseq) \in 0..Word - 1
    BY BumpType DEF CacheTypeOK
  <2>2. page' \in [Index -> Page]  BY <1>1, <1>2, <2>1 DEF CacheTypeOK, Page
  <2>3. dirtyN' \in Nat  BY <1>1 DEF CacheTypeOK
  <2> QED  BY <1>4, <2>1, <2>2, <2>3 DEF block_write, CacheTypeOK
<1>6. \A j \in Index \ {i} : ~(page[j].valid /\ page[j].lba = l)
  BY <1>2 DEF Coherent, CachedOnce, Hit
<1>7. CachedOnce' /\ DirtyIsValid'
  BY <1>2, <1>3, <1>6 DEF Coherent, CachedOnce, DirtyIsValid
<1>8. CachedIsLatest' /\ CleanIsStored'
  BY <1>2, <1>3, <1>4, <1>6
     DEF Coherent, CachedIsLatest, CleanIsStored, CacheTypeOK, Page
<1>9. UncachedIsStored'
  <2> SUFFICES ASSUME NEW m \in Lba, Hit(m)' = {}
               PROVE  media'[m] = latest'[m]
    BY DEF UncachedIsStored
  <2>1. \A j \in Index : ~(page'[j].valid /\ page'[j].lba = m)
    BY DEF Hit
  <2>2. m # l  BY <1>2, <1>3, <2>1
  <2>3. latest'[m] = latest[m]  BY <1>4, <2>2 DEF CacheTypeOK
  <2>4. CASE page[i].valid /\ page[i].lba = m
    <3>1. i \notin Dirty  BY <1>2, <2>2, <2>4 DEF Hit
    <3> QED
      BY <1>2, <1>4, <2>3, <2>4, <3>1 DEF Coherent, CachedIsLatest, CleanIsStored, Dirty
  <2>5. CASE ~(page[i].valid /\ page[i].lba = m)
    <3>1. Hit(m) = {}  BY <1>3, <2>1, <2>5 DEF Hit
    <3> QED  BY <1>4, <2>3, <3>1 DEF Coherent, UncachedIsStored
  <2> QED  BY <2>4, <2>5
<1>10. Dirty' = Dirty \cup {i}  BY <1>2, <1>3 DEF Dirty
<1>11. DirtyCounted'
  <2>1. CASE i \in Dirty
    <3>1. Dirty' = Dirty /\ dirtyN' = dirtyN  BY <1>1, <1>10, <2>1 DEF Dirty
    <3> QED  BY <1>2, <3>1, CountOfOneChange, DirtyFinite
  <2>2. CASE i \notin Dirty
    <3>1. dirtyN' = dirtyN + 1  BY <1>1, <1>2, <2>2 DEF Dirty
    <3> QED  BY <1>2, <1>10, <2>2, <3>1, CountOfOneChange, DirtyFinite
  <2> QED  BY <2>1, <2>2
<1> QED  BY <1>5, <1>7, <1>8, <1>9, <1>11 DEF Coherent

\* Writing a dirty page back, whether or not the controller answers.
LEMMA ServicePageInv ==
    ASSUME IInv, NEW i \in OldestDirty, ServicePage(i), latest' = latest
    PROVE  /\ page' \in [Index -> Page] /\ media' \in [Lba -> Val] /\ dirtyN' \in Nat
           /\ Coherent' /\ DirtyCounted'
<1> USE DEF IInv
<1>1. i \in Dirty /\ i \in Index  BY ScansReturnPages DEF Coherent
<1>2. page[i].valid /\ page[i].lba \in Lba /\ page[i].data = latest[page[i].lba]
  BY <1>1 DEF Dirty, Coherent, DirtyIsValid, CachedIsLatest, CacheTypeOK, Page
<1>3. /\ ~page'[i].dirty /\ page'[i].valid /\ page'[i].lba = page[i].lba
      /\ page'[i].data = page[i].data
      /\ \A j \in Index \ {i} : page'[j] = page[j]
  BY <1>1, <1>2 DEF ServicePage, CacheTypeOK, Page
<1>4. page' \in [Index -> Page] /\ media' \in [Lba -> Val] /\ dirtyN' \in Nat
  <2>1. page' \in [Index -> Page]  BY <1>1 DEF ServicePage, CacheTypeOK, Page
  <2>2. media' \in [Lba -> Val]  BY <1>1 DEF ServicePage, CacheTypeOK, Page
  <2>3. dirtyN' \in Nat  BY DEF ServicePage, CacheTypeOK
  <2> QED  BY <2>1, <2>2, <2>3
<1>5. /\ media'[page[i].lba] = page[i].data
      /\ \A m \in Lba : m # page[i].lba => media'[m] = media[m]
  BY <1>2 DEF ServicePage, CacheTypeOK
<1>6. CachedOnce' /\ CachedIsLatest' /\ DirtyIsValid'
  BY <1>1, <1>3, <1>2 DEF Coherent, CachedOnce, CachedIsLatest, DirtyIsValid
<1>7. CleanIsStored'
  <2> SUFFICES ASSUME NEW j \in Index, page'[j].valid, ~page'[j].dirty
               PROVE  page'[j].data = media'[page'[j].lba]
    BY DEF CleanIsStored
  <2>1. CASE j = i  BY <1>3, <1>5, <2>1
  <2>2. CASE j # i
    <3>1. page[j].lba # page[i].lba /\ page[j].lba \in Lba
      BY <1>1, <1>2, <1>3, <2>2 DEF Coherent, CachedOnce, CacheTypeOK, Page
    <3> QED  BY <1>3, <1>5, <2>2, <3>1 DEF Coherent, CleanIsStored
  <2> QED  BY <2>1, <2>2
<1>8. UncachedIsStored'
  <2> SUFFICES ASSUME NEW m \in Lba, Hit(m)' = {}
               PROVE  media'[m] = latest'[m]
    BY DEF UncachedIsStored
  <2>1. Hit(m) = {} /\ m # page[i].lba  BY <1>1, <1>2, <1>3 DEF Hit
  <2> QED  BY <1>5, <2>1 DEF Coherent, UncachedIsStored
<1>9. Dirty' = Dirty \ {i}  BY <1>1, <1>3 DEF Dirty
<1>10. DirtyCounted'
  BY <1>1, <1>9, CountOfOneChange, DirtyFinite DEF ServicePage
<1> QED  BY <1>4, <1>6, <1>7, <1>8, <1>10 DEF Coherent

LEMMA ServiceFailsInv ==
    ASSUME IInv, NEW i \in OldestDirty, ServiceFails(i), latest' = latest
    PROVE  /\ page' \in [Index -> Page] /\ media' \in [Lba -> Val] /\ dirtyN' \in Nat
           /\ Coherent' /\ DirtyCounted'
<1> USE DEF IInv
<1>1. i \in Dirty /\ i \in Index  BY ScansReturnPages DEF Coherent
<1>2. page[i].valid /\ page[i].lba \in Lba /\ page[i].dirty
  BY <1>1 DEF Dirty, Coherent, DirtyIsValid, CacheTypeOK, Page
<1>3. page' = page /\ dirtyN' = dirtyN  BY DEF ServiceFails
<1>4. media' \in [Lba -> Val]
  BY <1>1 DEF ServiceFails, CacheTypeOK, Page
<1>5. \A m \in Lba : m # page[i].lba => media'[m] = media[m]
  BY <1>2 DEF ServiceFails, CacheTypeOK
<1>6. \A j \in Index : page[j].valid /\ ~page[j].dirty => page[j].lba # page[i].lba
  BY <1>1, <1>2 DEF Coherent, CachedOnce
<1>7. CachedOnce' /\ CachedIsLatest' /\ DirtyIsValid'
  BY <1>3 DEF Coherent, CachedOnce, CachedIsLatest, DirtyIsValid
<1>8. CleanIsStored'
  BY <1>3, <1>5, <1>6 DEF Coherent, CleanIsStored, CacheTypeOK, Page
<1>9. UncachedIsStored'
  BY <1>1, <1>2, <1>3, <1>5 DEF Coherent, UncachedIsStored, Hit
<1>10. DirtyCounted'  BY <1>3 DEF DirtyCounted, Dirty
<1> QED  BY <1>3, <1>4, <1>7, <1>8, <1>9, <1>10 DEF Coherent, CacheTypeOK

LEMMA PowerCutInv == ASSUME IInv, CachePowerCut PROVE IInv'
<1> USE DEF IInv
<1>1. BlankPage \in Page
  BY LbaAssumption, WordAssumption DEF BlankPage, Page
<1>2. CacheTypeOK'
  BY <1>1, NAssumption, WordAssumption DEF CachePowerCut, CacheTypeOK, Index
<1>3. Coherent'
  BY DEF CachePowerCut, Coherent, CachedOnce, CachedIsLatest, CleanIsStored,
         UncachedIsStored, DirtyIsValid, Hit, BlankPage
<1>4. Dirty' = {}  BY DEF CachePowerCut, Dirty, BlankPage
<1>5. DirtyCounted'  BY <1>4, FS_EmptySet DEF CachePowerCut, DirtyCounted
<1> QED  BY <1>2, <1>3, <1>5

LEMMA FlushRoundInv == ASSUME IInv, FlushRound PROVE IInv'
<1> USE DEF IInv
<1>1. clock' = clock /\ wseq' = wseq /\ latest' = latest  BY DEF FlushRound
<1>2. CASE UNCHANGED <<page, media, dirtyN>> /\ flush' = 0 /\ flushed' = "ok"
  BY <1>1, <1>2, NAssumption
     DEF CacheTypeOK, Coherent, CachedOnce, CachedIsLatest, CleanIsStored,
         UncachedIsStored, DirtyIsValid, Hit, DirtyCounted, Dirty
<1>3. ASSUME NEW i \in OldestDirty, ServicePage(i), flush' = flush - 1, flush > 0,
             flushed' \in {"running", "ok", "failed"}
      PROVE  IInv'
  <2>1. flush' \in 0..N  BY <1>3, NAssumption DEF CacheTypeOK
  <2> QED  BY <1>1, <1>3, <2>1, ServicePageInv DEF CacheTypeOK
<1>4. ASSUME NEW i \in OldestDirty, ServiceFails(i), flush' = 0, flushed' = "failed"
      PROVE  IInv'
  <2>1. flush' \in 0..N  BY <1>4, NAssumption
  <2> QED  BY <1>1, <1>4, <2>1, ServiceFailsInv DEF CacheTypeOK
<1> QED  BY <1>2, <1>3, <1>4 DEF FlushRound

LEMMA NextInv == IInv /\ [CacheNext]_cachevars => IInv'
<1> SUFFICES ASSUME IInv, [CacheNext]_cachevars PROVE IInv'  OBVIOUS
<1>1. CASE \E l \in Lba : ReadHit(l) \/ ReadMiss(l)
  BY <1>1, ReadHitInv, ReadMissInv
<1>2. CASE \E l \in Lba, v \in Val : block_write(l, v)
  BY <1>2, WriteInv
<1>3. CASE block_flush
  BY <1>3, NAssumption
     DEF block_flush, IInv, CacheTypeOK, Coherent, CachedOnce, CachedIsLatest,
         CleanIsStored, UncachedIsStored, DirtyIsValid, Hit, DirtyCounted, Dirty
<1>4. CASE FlushRound  BY <1>4, FlushRoundInv
<1>5. CASE CachePowerCut  BY <1>5, PowerCutInv
<1>6. CASE block_service
  <2>1. PICK i \in OldestDirty : ServicePage(i) \/ ServiceFails(i)
    BY <1>6 DEF block_service
  <2>2. UNCHANGED <<clock, wseq, flush, flushed, latest>>
    BY <1>6 DEF block_service
  <2> QED  BY <2>1, <2>2, ServicePageInv, ServiceFailsInv DEF IInv, CacheTypeOK
<1>7. CASE UNCHANGED cachevars
  BY <1>7 DEF cachevars, IInv, CacheTypeOK, Coherent, CachedOnce, CachedIsLatest,
              CleanIsStored, UncachedIsStored, DirtyIsValid, Hit, DirtyCounted, Dirty
<1> QED
  BY <1>1, <1>2, <1>3, <1>4, <1>5, <1>6, <1>7 DEF CacheNext
-----------------------------------------------------------------------------
THEOREM Invariance == CacheSpec => []IInv
  BY InitInv, NextInv, PTL DEF CacheSpec

(* The state of block.c keeps its types: in particular no scan returns an  *)
(* index outside pages[] and dirty_n never goes below zero.                *)
THEOREM TypeCorrect == CacheSpec => []CacheTypeOK
<1>1. IInv => CacheTypeOK  BY DEF IInv
<1> QED  BY Invariance, <1>1, PTL

(* No write block_write accepted is lost, shadowed by another page, or     *)
(* overwritten by an older copy, whatever is evicted, refused or retried.  *)
THEOREM CoherentAlways == CacheSpec => []Coherent
<1>1. IInv => Coherent  BY DEF IInv
<1> QED  BY Invariance, <1>1, PTL

(* dirty_n, from which block_flush reports success, is the number of dirty *)
(* pages.                                                                  *)
THEOREM CounterExact == CacheSpec => []DirtyCounted
<1>1. IInv => DirtyCounted  BY DEF IInv
<1> QED  BY Invariance, <1>1, PTL

LEMMA NoneCounted == DirtyCounted /\ dirtyN = 0 => Dirty = {}
  BY DirtyFinite, FS_EmptySet DEF DirtyCounted

LEMMA NoDirtyMeansStored == CacheTypeOK /\ Coherent /\ Dirty = {} => media = latest
<1> SUFFICES ASSUME CacheTypeOK, Coherent, Dirty = {} PROVE media = latest  OBVIOUS
<1>1. ASSUME NEW l \in Lba PROVE media[l] = latest[l]
  <2>1. CASE Hit(l) = {}  BY <2>1 DEF Coherent, UncachedIsStored
  <2>2. CASE Hit(l) # {}
    <3>1. PICK i \in Index : page[i].valid /\ page[i].lba = l  BY <2>2 DEF Hit
    <3>2. ~page[i].dirty  BY DEF Dirty
    <3> QED  BY <3>1, <3>2 DEF Coherent, CachedIsLatest, CleanIsStored
  <2> QED  BY <2>1, <2>2
<1> QED  BY <1>1 DEF CacheTypeOK

(* When block_flush answers 1, the medium holds the last accepted write of *)
(* every block: a loop of N rounds is enough, and the counter it answers   *)
(* from cannot be zero while a page is dirty.                              *)
THEOREM FlushTheorem == CacheSpec => FlushOkMeansStored
<1>1. IInv /\ [CacheNext]_cachevars => (flushed' = "ok" /\ flushed # "ok" => media' = latest')
  <2> SUFFICES ASSUME IInv, [CacheNext]_cachevars, flushed' = "ok", flushed # "ok"
               PROVE  media' = latest'
    OBVIOUS
  <2>1. IInv'  BY NextInv
  <2>2. FlushRound
    BY DEF CacheNext, ReadHit, ReadMiss, block_write, block_flush,
           CachePowerCut, block_service, cachevars
  <2>3. Dirty' = {}
    <3>1. CASE Dirty = {} /\ UNCHANGED page  BY <3>1 DEF Dirty
    <3>2. CASE dirtyN' = 0
      <4>1. (DirtyCounted /\ dirtyN = 0 => Dirty = {})'
        BY NoneCounted, PTL
      <4> QED  BY <2>1, <3>2, <4>1 DEF IInv
    <3> QED  BY <2>2, <3>1, <3>2 DEF FlushRound
  <2>4. (CacheTypeOK /\ Coherent /\ Dirty = {} => media = latest)'
    BY NoDirtyMeansStored, PTL
  <2> QED  BY <2>1, <2>3, <2>4 DEF IInv
<1> QED  BY Invariance, <1>1, PTL DEF CacheSpec, FlushOkMeansStored
-----------------------------------------------------------------------------
(***************************************************************************)
(* Zlfs: sequences, and the walk of alloc_run over a disjoint directory.   *)
(***************************************************************************)

Pairs == {ss \in Nat \X Nat : ss[1] < ss[2]}

LEMMA LeastOf ==
    ASSUME NEW T, T \subseteq Nat, T # {}
    PROVE  \E x \in T : \A y \in T : x <= y
<1>1. IsWellFoundedOn(Pairs, Nat)
  BY NatLessThanWellFounded DEF Pairs, OpToRel
<1>2. PICK x \in T : \A y \in T : <<y, x>> \notin Pairs
  BY <1>1, WFMin
<1>3. ASSUME NEW y \in T PROVE x <= y
  <2>1. x \in Nat /\ y \in Nat
    OBVIOUS
  <2>2. ~(y < x)
    BY <1>2, <2>1 DEF Pairs
  <2> QED  BY <2>1, <2>2
<1> QED  BY <1>3

LEMMA GreatestOf ==
    ASSUME NEW T, T \subseteq Nat, T # {}, NEW b \in Nat, \A x \in T : x <= b
    PROVE  \E x \in T : \A y \in T : y <= x
<1> DEFINE D == {b - x : x \in T}
<1>1. D \subseteq Nat /\ D # {}
  <2>1. ASSUME NEW x \in T PROVE b - x \in Nat
    <3>1. x \in Nat /\ x <= b
      OBVIOUS
    <3> QED  BY <3>1
  <2> QED  BY <2>1
<1>2. PICK d \in D : \A y \in D : d <= y
  <2> HIDE DEF D
  <2> QED  BY <1>1, LeastOf
<1>3. PICK x \in T : d = b - x
  OBVIOUS
<1>4. ASSUME NEW y \in T PROVE y <= x
  <2>1. b - x <= b - y
    BY <1>2, <1>3
  <2>2. x \in Nat /\ y \in Nat
    OBVIOUS
  <2> HIDE DEF D
  <2> QED  BY <2>1, <2>2
<1> QED  BY <1>4

\* f is the recursion from x over the first n steps.
Recurses(f, S, x, n, step) ==
    f \in [0..n -> S] /\ f[0] = x /\ \A i \in 1..n : f[i] = step[i][f[i - 1]]

LEMMA Recursion ==
    ASSUME NEW S, NEW x \in S, NEW n \in Nat, NEW step \in [1..n -> [S -> S]]
    PROVE  \E f : Recurses(f, S, x, n, step)
<1> DEFINE Good(f, k) == f[0] = x /\ \A i \in 1..k : f[i] = step[i][f[i - 1]]
           T == {k \in 0..n : ~ \E f \in [0..k -> S] : Good(f, k)}
<1>1. SUFFICES ASSUME T # {} PROVE FALSE
  <2>1. n \notin T
    BY <1>1
  <2> QED  BY <2>1 DEF Recurses
<1>2. PICK k \in T : \A y \in T : k <= y
  <2>1. T \subseteq Nat
    OBVIOUS
  <2> HIDE DEF T
  <2> QED  BY <1>1, <2>1, LeastOf
<1>3. k \in 0..n /\ ~ \E f \in [0..k -> S] : Good(f, k)
  OBVIOUS
<1>4. k # 0
  <2> SUFFICES ASSUME k = 0 PROVE FALSE
    OBVIOUS
  <2> DEFINE f == [i \in 0..0 |-> x]
  <2>1. f \in [0..0 -> S] /\ f[0] = x
    OBVIOUS
  <2>2. Good(f, 0)
    BY <2>1
  <2> QED  BY <1>3, <2>1, <2>2
<1>5. k - 1 \in 0..n /\ k - 1 \notin T
  <2>1. k \in Nat /\ k > 0 /\ k - 1 \in 0..n /\ ~(k <= k - 1)
    BY <1>3, <1>4
  <2> HIDE DEF T
  <2> QED  BY <1>2, <2>1
<1>6. PICK f \in [0..(k - 1) -> S] : Good(f, k - 1)
  BY <1>5
<1> DEFINE g == [i \in 0..k |-> IF i = k THEN step[k][f[k - 1]] ELSE f[i]]
<1>7. f[k - 1] \in S /\ k \in 1..n
  BY <1>3, <1>4
<1>8. step[k][f[k - 1]] \in S
  BY <1>7
<1>9. g \in [0..k -> S]
  <2> SUFFICES ASSUME NEW i \in 0..k PROVE (IF i = k THEN step[k][f[k - 1]] ELSE f[i]) \in S
    OBVIOUS
  <2>1. i # k => i \in 0..(k - 1)
    BY <1>3
  <2> QED  BY <1>8, <2>1
<1>10. ASSUME NEW i \in 1..k PROVE g[i] = step[i][g[i - 1]]
  <2>1. i - 1 \in 0..k /\ i \in 0..k /\ i - 1 # k
    BY <1>3
  <2>2. g[i - 1] = f[i - 1]
    BY <2>1
  <2>3. CASE i = k
    BY <2>1, <2>2, <2>3
  <2>4. CASE i # k
    <3>1. i \in 1..(k - 1)
      BY <1>3, <2>4
    <3> QED  BY <1>6, <2>1, <2>2, <2>4, <3>1
  <2> QED  BY <2>3, <2>4
<1>11. g[0] = x
  BY <1>3, <1>4, <1>6
<1>12. Good(g, k)
  BY <1>10, <1>11
<1> QED  BY <1>3, <1>9, <1>12
----------------------------------------------------------------------------
\* The queue entries among the first k that as does not name, in their order.
KeptOf(q, as) ==
    CHOOSE f : f = [k \in 0..Len(q) |->
            IF k = 0 THEN <<>>
            ELSE IF q[k].addr \in as THEN f[k - 1]
            ELSE Append(f[k - 1], q[k])]

LEMMA EnqueueIs ==
    ASSUME NEW q, NEW ws
    PROVE  Cache!Enqueue(q, ws) = KeptOf(q, Cache!Queued(ws))[Len(q)] \o ws
  BY DEF Cache!Enqueue, KeptOf

KeptSteps(q, as, S) ==
    /\ KeptOf(q, as) \in [0..Len(q) -> Seq(S)]
    /\ KeptOf(q, as)[0] = <<>>
    /\ \A k \in 1..Len(q) : KeptOf(q, as)[k] =
            IF q[k].addr \in as THEN KeptOf(q, as)[k - 1] ELSE Append(KeptOf(q, as)[k - 1], q[k])

LEMMA KeptStep ==
    ASSUME NEW S, NEW q \in Seq(S), NEW as
    PROVE  KeptSteps(q, as, S)
<1> DEFINE n == Len(q)
           body(f) == [k \in 0..n |->
                IF k = 0 THEN <<>>
                ELSE IF q[k].addr \in as THEN f[k - 1]
                ELSE Append(f[k - 1], q[k])]
           step == [k \in 1..n |-> [s \in Seq(S) |->
                IF q[k].addr \in as THEN s ELSE Append(s, q[k])]]
<1>1. n \in Nat /\ \A k \in 1..n : q[k] \in S
  OBVIOUS
<1>2. step \in [1..n -> [Seq(S) -> Seq(S)]]
  <2> SUFFICES ASSUME NEW k \in 1..n, NEW s \in Seq(S)
               PROVE  (IF q[k].addr \in as THEN s ELSE Append(s, q[k])) \in Seq(S)
    OBVIOUS
  <2>1. q[k] \in S
    BY <1>1
  <2>2. Append(s, q[k]) \in Seq(S)
    BY <2>1
  <2> QED  BY <2>2
<1>3. PICK g \in [0..n -> Seq(S)] :
        g[0] = <<>> /\ \A k \in 1..n : g[k] = step[k][g[k - 1]]
  <2>1. <<>> \in Seq(S) /\ n \in Nat
    OBVIOUS
  <2> DEFINE Q == Seq(S)
  <2>2. <<>> \in Q /\ n \in Nat /\ step \in [1..n -> [Q -> Q]]
    BY <1>2, <2>1
  <2> HIDE DEF step, n, Q
  <2>3. PICK g : Recurses(g, Q, <<>>, n, step)
    BY <2>2, Recursion
  <2> QED  BY <2>3 DEF Q, Recurses
<1>4. \A k \in 1..n : g[k] = IF q[k].addr \in as THEN g[k - 1] ELSE Append(g[k - 1], q[k])
  <2> SUFFICES ASSUME NEW k \in 1..n
               PROVE  g[k] = IF q[k].addr \in as THEN g[k - 1] ELSE Append(g[k - 1], q[k])
    OBVIOUS
  <2>1. k - 1 \in 0..n
    BY <1>1
  <2>2. g[k - 1] \in Seq(S)
    BY <2>1
  <2> QED  BY <1>3, <2>2
<1>5. g = body(g)
  <2>1. \A k \in 0..n : g[k] = body(g)[k]
    <3> SUFFICES ASSUME NEW k \in 0..n PROVE g[k] = body(g)[k]
      OBVIOUS
    <3>1. k = 0 \/ k \in 1..n
      BY <1>1
    <3> QED  BY <1>3, <1>4, <3>1
  <2> QED  BY <2>1
<1>6. KeptOf(q, as) = CHOOSE f : f = body(f)
  BY DEF KeptOf
<1>7. KeptOf(q, as) = body(KeptOf(q, as))
  BY <1>5, <1>6
<1> DEFINE h == KeptOf(q, as)
<1>8. h[0] = <<>> /\ \A k \in 1..n : h[k] = IF q[k].addr \in as THEN h[k - 1] ELSE Append(h[k - 1], q[k])
  <2>1. \A k \in 1..n : k \in 0..n /\ k # 0
    BY <1>1
  <2>2. 0 \in 0..n
    BY <1>1
  <2> HIDE DEF h
  <2>3. h = body(h)
    BY <1>7 DEF h
  <2> QED  BY <2>1, <2>2, <2>3
<1>9. \A k \in 0..n : h[k] \in Seq(S)
  <2> DEFINE T == {k \in 0..n : h[k] \notin Seq(S)}
  <2> SUFFICES ASSUME T # {} PROVE FALSE
    OBVIOUS
  <2> HIDE DEF h
  <2>1. PICK k \in T : \A y \in T : k <= y
    <3>1. T \subseteq Nat
      BY <1>1
    <3> HIDE DEF T
    <3> QED  BY <3>1, LeastOf
  <2>2. k # 0
    <3>1. <<>> \in Seq(S)
      OBVIOUS
    <3> QED  BY <1>8, <3>1
  <2>3. k \in 1..n /\ k - 1 \in 0..n /\ k - 1 \notin T
    BY <1>1, <2>1, <2>2
  <2>4. h[k - 1] \in Seq(S)
    BY <2>3
  <2>5. h[k] \in Seq(S)
    <3>1. q[k] \in S
      BY <1>1, <2>3
    <3>2. Append(h[k - 1], q[k]) \in Seq(S)
      BY <2>4, <3>1
    <3> QED  BY <1>8, <2>3, <2>4, <3>2
  <2> QED  BY <2>5
<1>10. h \in [0..n -> Seq(S)]
  <2> HIDE DEF h
  <2>1. h = body(h)
    BY <1>7 DEF h
  <2>2. DOMAIN h = 0..n /\ h = [k \in 0..n |-> h[k]]
    BY <2>1
  <2> QED  BY <1>9, <2>2
<1> QED  BY <1>8, <1>10 DEF KeptSteps
----------------------------------------------------------------------------
\* An entry that is not in use has no length: a format and a delete store zeros.
FsEntry == {e \in [name : Nat, start : Nat, len : Nat, blocks : Nat] :
                e.name = 0 => e.len = 0}
FsDir == [File -> FsEntry]

LEMMA SizeFacts ==
    /\ MaxFiles \in Nat /\ MaxFiles > 0 /\ NBlocks \in Nat /\ NBlocks > 0
    /\ MaxRun \in Nat /\ MaxRun > 0 /\ CacheN \in Nat /\ CacheN > 0
    /\ DataEnd \in Nat /\ DataEnd = NBlocks + 1 /\ File \subseteq Nat /\ 1 \in File
  BY SizesAssumption DEF DataEnd, File

\* Two intervals have nothing in common when one ends before the other starts.
LEMMA Apart ==
    ASSUME NEW a \in Nat, NEW b \in Nat \ {0}, NEW s \in Nat, NEW n \in Nat \ {0}
    PROVE  (a..(a + b - 1)) \cap (s..(s + n - 1)) = {} <=> a + b <= s \/ s + n <= a
<1>1. ASSUME (a..(a + b - 1)) \cap (s..(s + n - 1)) = {} PROVE a + b <= s \/ s + n <= a
  <2> SUFFICES ASSUME ~(a + b <= s), ~(s + n <= a) PROVE FALSE
    OBVIOUS
  <2>1. CASE a >= s
    <3>1. a \in a..(a + b - 1) /\ a \in s..(s + n - 1)
      BY <2>1
    <3> QED  BY <1>1, <3>1
  <2>2. CASE a < s
    <3>1. s \in a..(a + b - 1) /\ s \in s..(s + n - 1)
      BY <2>2
    <3> QED  BY <1>1, <3>1
  <2> QED  BY <2>1, <2>2
<1>2. ASSUME a + b <= s \/ s + n <= a, NEW x \in (a..(a + b - 1)) \cap (s..(s + n - 1)) PROVE FALSE
  <2>1. x \in Nat /\ a <= x /\ x <= a + b - 1 /\ s <= x /\ x <= s + n - 1
    OBVIOUS
  <2> QED  BY <1>2, <2>1
<1> QED  BY <1>1, <1>2

\* A file's run is where its entry says, and before or after any other's.
LEMMA RunFacts ==
    ASSUME NEW d \in FsDir, Disjoint(d), NEW i \in Used(d)
    PROVE  /\ i \in File /\ d[i] \in FsEntry
           /\ d[i].start \in Nat /\ d[i].blocks \in Nat /\ d[i].len \in Nat
           /\ d[i].blocks > 0 /\ d[i].start >= 1 /\ d[i].start + d[i].blocks <= DataEnd
           /\ d[i].len <= d[i].blocks
           /\ \A j \in Used(d) : i # j =>
                \/ d[i].start + d[i].blocks <= d[j].start
                \/ d[j].start + d[j].blocks <= d[i].start
<1>1. \A k \in Used(d) : k \in File /\ d[k] \in FsEntry
  BY DEF Used, FsDir
<1>2. \A k \in Used(d) :
        /\ d[k].start \in Nat /\ d[k].blocks \in Nat \ {0} /\ d[k].len \in Nat
        /\ d[k].start >= 1 /\ d[k].start + d[k].blocks <= DataEnd /\ d[k].len <= d[k].blocks
  BY <1>1 DEF Disjoint, InRange, FsEntry
<1>3. ASSUME NEW j \in Used(d), i # j
      PROVE  d[i].start + d[i].blocks <= d[j].start \/ d[j].start + d[j].blocks <= d[i].start
  <2>1. Run(d, i) \cap Run(d, j) = {}
    BY <1>3 DEF Disjoint
  <2> QED  BY <1>2, <2>1, Apart DEF Run
<1> QED  BY <1>1, <1>2, <1>3

AheadOf(d, c) == {i \in Used(d) : d[i].start >= c}
IsNearest(d, c, i) ==
    i \in AheadOf(d, c) /\ \A j \in AheadOf(d, c) :
        \/ d[i].start < d[j].start
        \/ d[i].start = d[j].start /\ i <= j
NearestTo(d, c) == CHOOSE i \in AheadOf(d, c) : \A j \in AheadOf(d, c) :
        \/ d[i].start < d[j].start
        \/ d[i].start = d[j].start /\ i <= j
StartAfter(d, c) == IF AheadOf(d, c) = {} THEN DataEnd ELSE d[NearestTo(d, c)].start
EndAfter(d, c) == d[NearestTo(d, c)].start + d[NearestTo(d, c)].blocks

LEMMA NearestFound ==
    ASSUME NEW d \in FsDir, NEW c \in Nat, AheadOf(d, c) # {}
    PROVE  IsNearest(d, c, NearestTo(d, c))
<1> DEFINE A == AheadOf(d, c)
           T == {d[i].start : i \in A}
<1>1. \A i \in A : i \in Nat /\ d[i].start \in Nat
  BY SizeFacts DEF AheadOf, Used, FsDir, FsEntry
<1>2. PICK t \in T : \A u \in T : t <= u
  <2>1. T \subseteq Nat /\ T # {}
    BY <1>1
  <2> HIDE DEF T
  <2> QED  BY <2>1, LeastOf
<1> DEFINE B == {i \in A : d[i].start = t}
<1>3. PICK i \in B : \A j \in B : i <= j
  <2>1. B \subseteq Nat /\ B # {}
    BY <1>1
  <2> HIDE DEF B
  <2> QED  BY <2>1, LeastOf
<1>4. i \in A /\ d[i].start = t
  OBVIOUS
<1>5. ASSUME NEW j \in A PROVE d[i].start < d[j].start \/ (d[i].start = d[j].start /\ i <= j)
  <2>1. t <= d[j].start
    BY <1>2
  <2>2. d[j].start = t => i <= j
    BY <1>3
  <2>3. d[i].start \in Nat /\ d[j].start \in Nat
    BY <1>1, <1>4
  <2> QED  BY ONLY <1>4, <2>1, <2>2, <2>3
<1> HIDE DEF A, T, B
<1>6. \E x \in AheadOf(d, c) : \A j \in AheadOf(d, c) :
        d[x].start < d[j].start \/ (d[x].start = d[j].start /\ x <= j)
  BY <1>4, <1>5 DEF A
<1> QED  BY <1>6 DEF IsNearest, NearestTo

\* Where a run of need blocks fits, as seen from c on.
FitsFrom(d, need, c) == {s \in c..NBlocks : s + need <= DataEnd
    /\ \A i \in AheadOf(d, c) : d[i].start + d[i].blocks <= s \/ s + need <= d[i].start}
LeastFit(d, need, c) ==
    IF FitsFrom(d, need, c) = {} THEN 0
    ELSE CHOOSE s \in FitsFrom(d, need, c) : \A t \in FitsFrom(d, need, c) : s <= t

LEMMA LeastFitFound ==
    ASSUME NEW d, NEW need, NEW c \in Nat, FitsFrom(d, need, c) # {}
    PROVE  /\ LeastFit(d, need, c) \in FitsFrom(d, need, c)
           /\ \A t \in FitsFrom(d, need, c) : LeastFit(d, need, c) <= t
<1>1. FitsFrom(d, need, c) \subseteq Nat
  BY SizeFacts DEF FitsFrom
<1>2. \E s \in FitsFrom(d, need, c) : \A t \in FitsFrom(d, need, c) : s <= t
  BY <1>1, LeastOf
<1> QED  BY <1>2 DEF LeastFit

\* One turn of alloc_run's loop.
LEMMA LeastFitStep ==
    ASSUME NEW d \in FsDir, Disjoint(d), NEW need \in Nat \ {0}, NEW c \in 1..DataEnd
    PROVE  /\ LeastFit(d, need, c) =
                IF StartAfter(d, c) - c >= need THEN c
                ELSE IF AheadOf(d, c) = {} \/ EndAfter(d, c) >= DataEnd THEN 0
                ELSE LeastFit(d, need, EndAfter(d, c))
           /\ AheadOf(d, c) # {} => EndAfter(d, c) \in Nat /\ EndAfter(d, c) > c
<1> DEFINE A == AheadOf(d, c)
           F == FitsFrom(d, need, c)
           st == StartAfter(d, c)
           en == EndAfter(d, c)
           n == NearestTo(d, c)
<1>1. /\ need \in Nat /\ need > 0 /\ c \in Nat /\ c >= 1 /\ c <= DataEnd
      /\ DataEnd \in Nat /\ NBlocks \in Nat /\ DataEnd = NBlocks + 1
  BY SizeFacts
<1>2. \A i \in A : /\ i \in Used(d) /\ d[i].start \in Nat /\ d[i].blocks \in Nat /\ d[i].blocks > 0
                   /\ d[i].start >= c /\ d[i].start + d[i].blocks <= DataEnd
  BY RunFacts DEF AheadOf
<1>3. A # {} => /\ n \in A /\ st = d[n].start /\ en = d[n].start + d[n].blocks
                /\ \A j \in A : st <= d[j].start
  <2> SUFFICES ASSUME A # {} PROVE n \in A /\ st = d[n].start /\ en = d[n].start + d[n].blocks
                                   /\ \A j \in A : st <= d[j].start
    OBVIOUS
  <2>1. IsNearest(d, c, n)
    BY <1>1, NearestFound
  <2>2. n \in A /\ \A j \in A : d[n].start < d[j].start \/ d[n].start = d[j].start
    BY <2>1 DEF IsNearest
  <2>3. st = d[n].start /\ en = d[n].start + d[n].blocks
    BY DEF StartAfter, EndAfter
  <2> HIDE DEF A, n, st, en
  <2> QED  BY <1>2, <2>2, <2>3
<1>4. A = {} => st = DataEnd
  BY DEF StartAfter
<1>5. st \in Nat /\ st >= c /\ st <= DataEnd
  <2> HIDE DEF A, n, st, en
  <2>1. CASE A = {}
    BY <1>1, <1>4, <2>1
  <2>2. CASE A # {}
    BY <1>1, <1>2, <1>3, <2>2
  <2> QED  BY <2>1, <2>2
<1>6. A # {} => en \in Nat /\ en > c
  <2> HIDE DEF A, n, st, en
  <2> QED  BY <1>1, <1>2, <1>3, <1>5
<1>7. CASE st - c >= need
  <2>1. c \in F
    <3>1. c \in c..NBlocks /\ c + need <= DataEnd
      <4> HIDE DEF st
      <4> QED  BY <1>1, <1>5, <1>7
    <3>2. ASSUME NEW i \in A PROVE c + need <= d[i].start
      <4>1. st <= d[i].start /\ d[i].start \in Nat
        <5> HIDE DEF A, n, st, en
        <5> QED  BY <1>2, <1>3
      <4> HIDE DEF A, st
      <4> QED  BY <1>1, <1>5, <1>7, <4>1
    <3> QED  BY <3>1, <3>2 DEF FitsFrom
  <2>2. LeastFit(d, need, c) \in F /\ LeastFit(d, need, c) <= c
    BY <1>1, <2>1, LeastFitFound
  <2>3. LeastFit(d, need, c) = c
    <3>1. LeastFit(d, need, c) \in c..NBlocks
      BY <2>2 DEF FitsFrom
    <3> QED  BY <1>1, <2>2, <3>1
  <2> HIDE DEF A, n, st, en
  <2> QED  BY <1>6, <1>7, <2>3 DEF A, st, en
<1>8. CASE ~(st - c >= need) /\ A = {}
  <2>1. F = {}
    <3> SUFFICES ASSUME NEW s \in F PROVE FALSE
      OBVIOUS
    <3>1. s \in c..NBlocks /\ s + need <= DataEnd
      BY DEF FitsFrom
    <3> HIDE DEF A, n, st, en, F
    <3> QED  BY <1>1, <1>4, <1>8, <3>1
  <2> QED  BY <1>8, <2>1 DEF LeastFit
<1>9. CASE ~(st - c >= need) /\ A # {}
  <2>1. ASSUME NEW s \in F PROVE s \in Nat /\ s >= en /\ s + need <= DataEnd
    <3>1. s \in c..NBlocks /\ s + need <= DataEnd
      BY DEF FitsFrom
    <3>2. d[n].start + d[n].blocks <= s \/ s + need <= d[n].start
      BY <1>3, <1>9 DEF FitsFrom
    <3> HIDE DEF A, n, st, en, F
    <3> QED  BY <1>1, <1>3, <1>5, <1>9, <3>1, <3>2
  <2>2. CASE en >= DataEnd
    <3>1. F = {}
      <4> HIDE DEF A, n, st, en, F
      <4> QED  BY <1>1, <1>6, <1>9, <2>1, <2>2
    <3>2. LeastFit(d, need, c) = 0
      BY <3>1 DEF LeastFit
    <3> HIDE DEF A, n, st, en, F
    <3> QED  BY <1>6, <1>9, <2>2, <3>2 DEF A, st, en
  <2>3. CASE ~(en >= DataEnd)
    <3> DEFINE G == FitsFrom(d, need, en)
    <3>1. AheadOf(d, en) = A \ {n}
      <4>1. ASSUME NEW i \in AheadOf(d, en) PROVE i \in A /\ i # n
        <5>1. i \in Used(d) /\ d[i].start >= en /\ d[i].start \in Nat
          BY RunFacts DEF AheadOf
        <5>2. en > c /\ en \in Nat /\ n \in A /\ en > d[n].start /\ d[n].start \in Nat
          <6> HIDE DEF A, n, st, en
          <6> QED  BY <1>2, <1>3, <1>6, <1>9
        <5>3. d[i].start >= c
          <6> HIDE DEF en
          <6> QED  BY <1>1, <5>1, <5>2
        <5>4. i # n
          <6> HIDE DEF en, n
          <6> QED  BY <5>1, <5>2
        <5> QED  BY <5>1, <5>3, <5>4 DEF AheadOf
      <4>2. ASSUME NEW i \in A \ {n} PROVE i \in AheadOf(d, en)
        <5>1. n \in Used(d) /\ i \in Used(d) /\ i # n
          BY <1>2, <1>3, <1>9
        <5>2. d[n].start + d[n].blocks <= d[i].start \/ d[i].start + d[i].blocks <= d[n].start
          BY <5>1, RunFacts
        <5>3. d[i].start >= en
          <6> HIDE DEF A, n, st, en
          <6> QED  BY <1>2, <1>3, <1>9, <5>2
        <5> QED  BY <5>1, <5>3 DEF AheadOf
      <4> QED  BY <4>1, <4>2
    <3>2. F = G
      <4>1. ASSUME NEW s \in F PROVE s \in G
        <5>1. s \in c..NBlocks /\ s + need <= DataEnd /\ s >= en
              /\ \A i \in A : d[i].start + d[i].blocks <= s \/ s + need <= d[i].start
          BY <2>1 DEF FitsFrom
        <5>2. s \in en..NBlocks
          <6> HIDE DEF A, n, st, en, F, G
          <6> QED  BY <1>1, <1>6, <1>9, <5>1
        <5> QED  BY <3>1, <5>1, <5>2 DEF FitsFrom
      <4>2. ASSUME NEW s \in G PROVE s \in F
        <5>1. s \in en..NBlocks /\ s + need <= DataEnd
              /\ \A i \in A \ {n} : d[i].start + d[i].blocks <= s \/ s + need <= d[i].start
          BY <3>1 DEF FitsFrom
        <5>2. s \in c..NBlocks /\ d[n].start + d[n].blocks <= s
          <6> HIDE DEF A, n, st, en, F, G
          <6> QED  BY <1>1, <1>3, <1>6, <1>9, <5>1
        <5>3. \A i \in A : d[i].start + d[i].blocks <= s \/ s + need <= d[i].start
          BY <5>1, <5>2
        <5> QED  BY <5>1, <5>2, <5>3 DEF FitsFrom
      <4> QED  BY <4>1, <4>2
    <3>3. LeastFit(d, need, c) = LeastFit(d, need, en)
      BY <3>2 DEF LeastFit
    <3> HIDE DEF A, n, st, en, F, G
    <3> QED  BY <1>6, <1>9, <2>3, <3>3 DEF A, st, en
  <2> QED  BY <2>2, <2>3
<1> QED  BY <1>7, <1>8, <1>9

LEMMA LeastFitIsFirst ==
    ASSUME NEW d \in FsDir, Disjoint(d), NEW need \in Nat \ {0}
    PROVE  FirstFit(d, need, LeastFit(d, need, 1))
<1>1. FitsFrom(d, need, 1) = Fits(d, need)
  <2>1. AheadOf(d, 1) = Used(d)
    BY RunFacts DEF AheadOf
  <2>2. ASSUME NEW s \in 1..NBlocks, NEW i \in Used(d)
        PROVE  Run(d, i) \cap (s..(s + need - 1)) = {}
               <=> d[i].start + d[i].blocks <= s \/ s + need <= d[i].start
    <3>1. d[i].start \in Nat /\ d[i].blocks \in Nat \ {0} /\ s \in Nat
      BY RunFacts, SizeFacts
    <3> QED  BY <3>1, Apart DEF Run
  <2> QED  BY <2>1, <2>2 DEF FitsFrom, Fits
<1>2. FitsFrom(d, need, 1) # {} =>
        /\ LeastFit(d, need, 1) \in FitsFrom(d, need, 1)
        /\ \A t \in FitsFrom(d, need, 1) : LeastFit(d, need, 1) <= t
  BY LeastFitFound
<1> QED  BY <1>1, <1>2 DEF FirstFit, LeastFit

\* What alloc_run's recursion, which looks at one gap at a time, comes to.
LEMMA AllocRunIsLeastFit ==
    ASSUME NEW d \in FsDir, Disjoint(d), NEW need \in Nat \ {0}
    PROVE  alloc_run(d, need) = LeastFit(d, need, 1)
<1> DEFINE body(f) == [c \in 1..DataEnd |->
                IF StartAfter(d, c) - c >= need THEN c
                ELSE IF AheadOf(d, c) = {} \/ EndAfter(d, c) >= DataEnd THEN 0
                ELSE f[EndAfter(d, c)]]
           g == [c \in 1..DataEnd |-> LeastFit(d, need, c)]
           h == CHOOSE f : f = body(f)
<1>1. alloc_run(d, need) = h[1]
  BY DEF alloc_run, StartAfter, EndAfter, AheadOf, NearestTo
<1>2. \A c \in 1..DataEnd : AheadOf(d, c) # {} /\ ~(EndAfter(d, c) >= DataEnd) =>
            EndAfter(d, c) \in 1..DataEnd /\ EndAfter(d, c) > c
  <2> SUFFICES ASSUME NEW c \in 1..DataEnd, AheadOf(d, c) # {}, ~(EndAfter(d, c) >= DataEnd)
               PROVE  EndAfter(d, c) \in 1..DataEnd /\ EndAfter(d, c) > c
    OBVIOUS
  <2>1. EndAfter(d, c) \in Nat /\ EndAfter(d, c) > c
    BY LeastFitStep
  <2> QED  BY <2>1, SizeFacts
<1>3. g = body(g)
  <2>1. ASSUME NEW c \in 1..DataEnd PROVE g[c] = body(g)[c]
    <3>1. LeastFit(d, need, c) =
                IF StartAfter(d, c) - c >= need THEN c
                ELSE IF AheadOf(d, c) = {} \/ EndAfter(d, c) >= DataEnd THEN 0
                ELSE LeastFit(d, need, EndAfter(d, c))
      BY LeastFitStep
    <3>2. AheadOf(d, c) # {} /\ ~(EndAfter(d, c) >= DataEnd) =>
            g[EndAfter(d, c)] = LeastFit(d, need, EndAfter(d, c))
      BY <1>2
    <3>3. g[c] = LeastFit(d, need, c)
      OBVIOUS
    <3> HIDE DEF g
    <3> QED  BY <3>1, <3>2, <3>3
  <2> QED  BY <2>1
<1>4. h = body(h)
  <2> HIDE DEF body, g
  <2> QED  BY <1>3
<1> DEFINE T == {c \in 1..DataEnd : h[c] # LeastFit(d, need, c)}
<1>5. T = {}
  <2> SUFFICES ASSUME T # {} PROVE FALSE
    OBVIOUS
  <2> HIDE DEF h
  <2>1. PICK c \in T : \A y \in T : y <= c
    <3>1. T \subseteq Nat /\ (\A x \in T : x <= DataEnd) /\ DataEnd \in Nat
      BY SizeFacts
    <3> HIDE DEF T
    <3> QED  BY <3>1, GreatestOf
  <2>2. c \in 1..DataEnd /\ h[c] # LeastFit(d, need, c)
    OBVIOUS
  <2>3. h[c] = IF StartAfter(d, c) - c >= need THEN c
               ELSE IF AheadOf(d, c) = {} \/ EndAfter(d, c) >= DataEnd THEN 0
               ELSE h[EndAfter(d, c)]
    BY <1>4, <2>2
  <2>4. LeastFit(d, need, c) =
                IF StartAfter(d, c) - c >= need THEN c
                ELSE IF AheadOf(d, c) = {} \/ EndAfter(d, c) >= DataEnd THEN 0
                ELSE LeastFit(d, need, EndAfter(d, c))
    BY <2>2, LeastFitStep
  <2>5. AheadOf(d, c) # {} /\ ~(EndAfter(d, c) >= DataEnd)
        /\ h[EndAfter(d, c)] # LeastFit(d, need, EndAfter(d, c))
    BY <2>2, <2>3, <2>4
  <2>6. EndAfter(d, c) \in T /\ EndAfter(d, c) > c /\ EndAfter(d, c) \in Nat /\ c \in Nat
    BY <1>2, <2>2, <2>5, SizeFacts
  <2> HIDE DEF T
  <2> QED  BY <2>1, <2>6
<1>6. 1 \in 1..DataEnd
  BY SizeFacts
<1> QED  BY <1>1, <1>5, <1>6

LEMMA AllocRunFirstFit ==
    ASSUME NEW d \in FsDir, Disjoint(d), NEW need \in Nat \ {0}
    PROVE  FirstFit(d, need, alloc_run(d, need))
  BY AllocRunIsLeastFit, LeastFitIsFirst
----------------------------------------------------------------------------
Distinct(q) == \A i, j \in 1..Len(q) : q[i].addr = q[j].addr => i = j

\* What the first k entries of q leave in f[k] when as are taken out.
KeptWell(q, as, s, k) ==
    /\ \A i \in 1..Len(s) : s[i].addr \notin as /\ \E j \in 1..k : s[i] = q[j]
    /\ \A j \in 1..k : q[j].addr \notin as => \E i \in 1..Len(s) : s[i] = q[j]
    /\ Distinct(s)

LEMMA KeptFacts ==
    ASSUME NEW S, NEW q \in Seq(S), NEW as, Distinct(q)
    PROVE  /\ KeptOf(q, as)[Len(q)] \in Seq(S)
           /\ KeptWell(q, as, KeptOf(q, as)[Len(q)], Len(q))
<1> DEFINE n == Len(q)
           f == KeptOf(q, as)
           T == {k \in 0..n : ~KeptWell(q, as, f[k], k)}
<1>1. /\ f \in [0..n -> Seq(S)] /\ f[0] = <<>> /\ n \in Nat
      /\ \A k \in 1..n : f[k] = IF q[k].addr \in as THEN f[k - 1] ELSE Append(f[k - 1], q[k])
  <2>1. n \in Nat
    OBVIOUS
  <2>2. KeptSteps(q, as, S)
    BY KeptStep
  <2> QED  BY <2>1, <2>2 DEF KeptSteps
<1> HIDE DEF f
<1>2. SUFFICES ASSUME T # {} PROVE FALSE
  <2>1. n \in 0..n /\ f[n] \in Seq(S)
    BY <1>1
  <2> QED  BY <2>1 DEF f
<1>3. PICK k \in T : \A y \in T : k <= y
  <2>1. T \subseteq Nat
    BY <1>1
  <2> HIDE DEF T
  <2> QED  BY <1>2, <2>1, LeastOf
<1>4. k \in 0..n /\ ~KeptWell(q, as, f[k], k)
  OBVIOUS
<1>5. k # 0
  <2>1. KeptWell(q, as, <<>>, 0)
    BY DEF KeptWell, Distinct
  <2> QED  BY <1>1, <1>4, <2>1
<1>6. k \in 1..n /\ k - 1 \in 0..n /\ k \in Nat
  BY <1>1, <1>4, <1>5
<1>7. KeptWell(q, as, f[k - 1], k - 1)
  <2>1. k - 1 \notin T
    <3>1. ~(k <= k - 1)
      BY <1>6
    <3> HIDE DEF T
    <3> QED  BY <1>3, <3>1
  <2> QED  BY <1>6, <2>1
<1> DEFINE s == f[k - 1]
           e == q[k]
<1>8. s \in Seq(S) /\ e \in S /\ f[k] = IF e.addr \in as THEN s ELSE Append(s, e)
  <2>1. q[k] \in S
    BY <1>6
  <2>2. f[k - 1] \in Seq(S)
    BY <1>1, <1>6
  <2> QED  BY <1>1, <1>6, <2>1, <2>2
<1>9. \A i \in 1..(k - 1) : i \in 1..k /\ i \in 1..n /\ i # k
  BY <1>1, <1>6
<1>10. k \in 1..k /\ \A i \in 1..k : i = k \/ i \in 1..(k - 1)
  BY <1>6
<1> HIDE DEF s, e, T
<1>11. CASE e.addr \in as
  <2>1. KeptWell(q, as, s, k)
    BY <1>7, <1>9, <1>10, <1>11 DEF KeptWell, s, e
  <2> QED  BY <1>4, <1>8, <1>11, <2>1
<1>12. CASE e.addr \notin as
  <2> DEFINE r == Append(s, e)
             l == Len(s)
  <2>1. l \in Nat /\ Len(r) = l + 1 /\ r[l + 1] = e /\ \A i \in 1..l : r[i] = s[i]
    BY <1>8
  <2> HIDE DEF r, l
  <2>2. \A i \in 1..(l + 1) : i = l + 1 \/ i \in 1..l
    BY <2>1
  <2>3. /\ \A i \in 1..l : s[i].addr \notin as /\ \E j \in 1..(k - 1) : s[i] = q[j]
        /\ \A j \in 1..(k - 1) : q[j].addr \notin as => \E i \in 1..l : s[i] = q[j]
        /\ \A i, j \in 1..l : s[i].addr = s[j].addr => i = j
    BY <1>7 DEF KeptWell, Distinct, s, l
  <2>4. ASSUME NEW i \in 1..(l + 1) PROVE r[i].addr \notin as /\ \E j \in 1..k : r[i] = q[j]
    <3>1. CASE i = l + 1
      BY <1>10, <1>12, <2>1, <3>1 DEF e
    <3>2. CASE i \in 1..l
      <4>1. PICK j \in 1..(k - 1) : s[i] = q[j]
        BY <2>3, <3>2
      <4> QED  BY <1>9, <2>1, <2>3, <3>2, <4>1
    <3> QED  BY <2>2, <3>1, <3>2
  <2>5. ASSUME NEW j \in 1..k, q[j].addr \notin as PROVE \E i \in 1..(l + 1) : r[i] = q[j]
    <3>1. CASE j = k
      <4>1. l + 1 \in 1..(l + 1)
        BY <2>1
      <4> QED  BY <2>1, <3>1, <4>1 DEF e
    <3>2. CASE j \in 1..(k - 1)
      <4>1. PICK i \in 1..l : s[i] = q[j]
        BY <2>3, <2>5, <3>2
      <4>2. i \in 1..(l + 1)
        BY <2>1
      <4> QED  BY <2>1, <4>1, <4>2
    <3> QED  BY <1>10, <3>1, <3>2
  <2>6. ASSUME NEW i \in 1..(l + 1), NEW j \in 1..(l + 1), r[i].addr = r[j].addr PROVE i = j
    <3>1. \A x \in 1..l : s[x].addr # e.addr
      <4> SUFFICES ASSUME NEW x \in 1..l, s[x].addr = e.addr PROVE FALSE
        OBVIOUS
      <4>1. PICK y \in 1..(k - 1) : s[x] = q[y]
        BY <2>3
      <4>2. q[y].addr = q[k].addr
        BY <4>1 DEF e
      <4>3. y \in 1..Len(q) /\ k \in 1..Len(q) /\ y # k
        BY <1>6, <1>9
      <4> QED  BY <4>2, <4>3 DEF Distinct
    <3>2. CASE i = l + 1 /\ j = l + 1
      BY <3>2
    <3>3. CASE i \in 1..l /\ j = l + 1
      BY <2>1, <2>6, <3>1, <3>3
    <3>4. CASE i = l + 1 /\ j \in 1..l
      BY <2>1, <2>6, <3>1, <3>4
    <3>5. CASE i \in 1..l /\ j \in 1..l
      BY <2>1, <2>3, <2>6, <3>5
    <3> QED  BY <2>2, <3>2, <3>3, <3>4, <3>5
  <2>7. KeptWell(q, as, r, k)
    BY <2>1, <2>4, <2>5, <2>6 DEF KeptWell, Distinct
  <2> QED  BY <1>4, <1>8, <1>12, <2>7 DEF r
<1> QED  BY <1>11, <1>12

LEMMA QueuedIs ==
    ASSUME NEW S, NEW q \in Seq(S)
    PROVE  Cache!Queued(q) = {q[k].addr : k \in 1..Len(q)}
<1>1. DOMAIN q = 1..Len(q)
  OBVIOUS
<1> QED  BY <1>1 DEF Cache!Queued

\* A queue of accepted writes: what was queued before and is not rewritten,
\* p entries, then the writes in their order.
Enqueued(S, q, ws, r, p) ==
    /\ r \in Seq(S) /\ Len(r) = p + Len(ws) /\ Len(r) \in Nat
    /\ \A k \in 1..p : r[k].addr \notin Cache!Queued(ws) /\ \E j \in 1..Len(q) : r[k] = q[j]
    /\ \A j \in 1..Len(q) : q[j].addr \notin Cache!Queued(ws) => \E k \in 1..p : r[k] = q[j]
    /\ \A k \in 1..Len(ws) : p + k \in 1..Len(r) /\ r[p + k] = ws[k]
    /\ \A k \in 1..Len(r) : k \in 1..p \/ \E j \in 1..Len(ws) : k = p + j
    /\ Distinct(r)
    /\ Cache!Queued(r) = Cache!Queued(q) \cup Cache!Queued(ws)

LEMMA EnqueueFacts ==
    ASSUME NEW S, NEW q \in Seq(S), NEW ws \in Seq(S), Distinct(q), Distinct(ws)
    PROVE  \E p \in Nat : Enqueued(S, q, ws, Cache!Enqueue(q, ws), p)
<1> DEFINE as == Cache!Queued(ws)
           t == KeptOf(q, as)[Len(q)]
           r == Cache!Enqueue(q, ws)
           p == Len(t)
           n == Len(ws)
<1>1. r = t \o ws
  BY EnqueueIs
<1>2. t \in Seq(S) /\ KeptWell(q, as, t, Len(q))
  BY KeptFacts
<1> HIDE DEF t, r, as
<1>3. /\ r \in Seq(S) /\ p \in Nat /\ n \in Nat /\ Len(r) = p + n
      /\ (\A k \in 1..p : r[k] = t[k]) /\ (\A k \in 1..n : r[p + k] = ws[k])
  <2>1. /\ t \o ws \in Seq(S) /\ Len(t) \in Nat /\ Len(ws) \in Nat /\ Len(t \o ws) = Len(t) + Len(ws)
    BY <1>2
  <2>2. \A k \in 1..Len(t) : (t \o ws)[k] = t[k]
    BY <1>2
  <2>3. \A k \in 1..Len(ws) : (t \o ws)[Len(t) + k] = ws[k]
    BY <1>2
  <2> QED  BY <1>1, <2>1, <2>2, <2>3
<1>4. as = {ws[k].addr : k \in 1..n}
  BY QueuedIs DEF as
<1>5. /\ \A k \in 1..p : t[k].addr \notin as /\ \E j \in 1..Len(q) : t[k] = q[j]
      /\ \A j \in 1..Len(q) : q[j].addr \notin as => \E k \in 1..p : t[k] = q[j]
      /\ \A i, j \in 1..p : t[i].addr = t[j].addr => i = j
  BY <1>2 DEF KeptWell, Distinct
<1> HIDE DEF p, n
<1>6. \A k \in 1..n : p + k \in 1..Len(r)
  BY <1>3
<1>7. ASSUME NEW k \in 1..Len(r) PROVE k \in 1..p \/ \E j \in 1..n : k = p + j
  <2>1. CASE k <= p
    BY <1>3, <2>1
  <2>2. CASE k > p
    <3>1. k - p \in 1..n /\ k = p + (k - p)
      BY <1>3, <2>2
    <3> QED  BY <3>1
  <2> QED  BY <1>3, <2>1, <2>2
<1>8. Distinct(r)
  <2> SUFFICES ASSUME NEW i \in 1..Len(r), NEW j \in 1..Len(r), r[i].addr = r[j].addr PROVE i = j
    BY DEF Distinct
  <2>1. CASE i \in 1..p /\ j \in 1..p
    BY <1>3, <1>5, <2>1
  <2>0. ASSUME NEW a \in 1..p, NEW x \in 1..n PROVE r[a].addr # r[p + x].addr
    <3>1. r[a].addr \notin as
      BY <1>3, <1>5
    <3>2. r[p + x].addr \in as
      BY <1>3, <1>4
    <3> QED  BY <3>1, <3>2
  <2>2. CASE i \in 1..p /\ \E x \in 1..n : j = p + x
    BY <2>0, <2>2
  <2>3. CASE j \in 1..p /\ \E x \in 1..n : i = p + x
    BY <2>0, <2>3
  <2>4. CASE (\E x \in 1..n : i = p + x) /\ \E x \in 1..n : j = p + x
    <3>1. PICK x \in 1..n : i = p + x
      BY <2>4
    <3>2. PICK y \in 1..n : j = p + y
      BY <2>4
    <3>3. x = y
      BY <1>3, <3>1, <3>2 DEF Distinct, n
    <3> QED  BY <3>1, <3>2, <3>3
  <2> QED  BY <1>7, <2>1, <2>2, <2>3, <2>4
<1>9. Cache!Queued(r) = Cache!Queued(q) \cup as
  <2>1. Cache!Queued(r) = {r[k].addr : k \in 1..Len(r)} /\ Cache!Queued(q) = {q[k].addr : k \in 1..Len(q)}
    BY <1>3, QueuedIs
  <2>2. ASSUME NEW k \in 1..Len(r) PROVE r[k].addr \in Cache!Queued(q) \cup as
    <3>1. CASE k \in 1..p
      <4>1. PICK j \in 1..Len(q) : t[k] = q[j]
        BY <1>5, <3>1
      <4>2. r[k] = t[k]
        BY <1>3, <3>1
      <4> QED  BY <2>1, <4>1, <4>2
    <3>2. CASE \E j \in 1..n : k = p + j
      BY <1>3, <1>4, <3>2
    <3> QED  BY <1>7, <3>1, <3>2
  <2>3. ASSUME NEW k \in 1..Len(q), q[k].addr \notin as PROVE \E j \in 1..Len(r) : r[j].addr = q[k].addr
    <3>1. PICK j \in 1..p : t[j] = q[k]
      BY <1>5, <2>3
    <3>2. j \in 1..Len(r)
      BY <1>3
    <3> QED  BY <1>3, <3>1, <3>2
  <2>4. ASSUME NEW k \in 1..n PROVE \E j \in 1..Len(r) : r[j].addr = ws[k].addr
    BY <1>3, <1>6
  <2>5. Cache!Queued(r) \subseteq Cache!Queued(q) \cup as
    BY <2>1, <2>2
  <2>6. as \subseteq Cache!Queued(r)
    BY <1>4, <2>1, <2>4
  <2>7. Cache!Queued(q) \subseteq Cache!Queued(r)
    BY <2>1, <2>3, <2>6
  <2> QED  BY <2>5, <2>6, <2>7
<1>10. Len(r) \in Nat
  BY <1>3
<1>11. /\ \A k \in 1..p : r[k].addr \notin as /\ \E j \in 1..Len(q) : r[k] = q[j]
       /\ \A j \in 1..Len(q) : q[j].addr \notin as => \E k \in 1..p : r[k] = q[j]
  <2>1. ASSUME NEW k \in 1..p PROVE r[k].addr \notin as /\ \E j \in 1..Len(q) : r[k] = q[j]
    <3>1. r[k] = t[k] /\ t[k].addr \notin as
      BY <1>3, <1>5
    <3>2. PICK j \in 1..Len(q) : t[k] = q[j]
      BY <1>5
    <3>3. r[k] = q[j]
      BY <3>1, <3>2
    <3> QED  BY <3>1, <3>3
  <2>2. ASSUME NEW j \in 1..Len(q), q[j].addr \notin as PROVE \E k \in 1..p : r[k] = q[j]
    <3>1. PICK k \in 1..p : t[k] = q[j]
      BY <1>5, <2>2
    <3>2. r[k] = t[k]
      BY <1>3
    <3> QED  BY <3>1, <3>2
  <2> QED  BY <2>1, <2>2
<1>12. \A k \in 1..n : p + k \in 1..Len(r) /\ r[p + k] = ws[k]
  BY <1>3, <1>6
<1>13. Enqueued(S, q, ws, r, p)
  BY <1>3, <1>7, <1>8, <1>9, <1>10, <1>11, <1>12 DEF Enqueued, n, as
<1> QED  BY <1>3, <1>13 DEF r
----------------------------------------------------------------------------
IsFunction(m) == m = [a \in DOMAIN m |-> m[a]]

\* The medium r after the first k entries of q: what they wrote, and m elsewhere.
Stored(m, q, k, r) ==
    /\ DOMAIN r = DOMAIN m /\ IsFunction(r)
    /\ \A a \in DOMAIN m : (\A j \in 1..k : q[j].addr # a) => r[a] = m[a]
    /\ \A j \in 1..k : q[j].addr \in DOMAIN m => r[q[j].addr] = q[j].val

DrainOf(m, q, k) ==
    CHOOSE f : f = [j \in 0..k |->
            IF j = 0 THEN m ELSE [f[j - 1] EXCEPT ![q[j].addr] = q[j].val]]

LEMMA DrainedIs ==
    ASSUME NEW m, NEW q, NEW k
    PROVE  Cache!Drained(m, q, k) = DrainOf(m, q, k)[k]
  BY DEF Cache!Drained, DrainOf

LEMMA DrainedFacts ==
    ASSUME NEW S, NEW q \in Seq(S), Distinct(q), NEW m, IsFunction(m), NEW k \in 0..Len(q)
    PROVE  Stored(m, q, k, Cache!Drained(m, q, k))
<1> DEFINE Vals == {m[a] : a \in DOMAIN m} \cup {q[j].val : j \in 1..Len(q)}
           D == [DOMAIN m -> Vals]
           step == [j \in 1..k |-> [x \in D |-> [x EXCEPT ![q[j].addr] = q[j].val]]]
           body(f) == [j \in 0..k |->
                IF j = 0 THEN m ELSE [f[j - 1] EXCEPT ![q[j].addr] = q[j].val]]
           h == DrainOf(m, q, k)
<1>1. k \in Nat /\ Len(q) \in Nat /\ \A j \in 1..k : j \in 1..Len(q)
  OBVIOUS
<1>2. m \in D
  BY DEF IsFunction
<1>3. step \in [1..k -> [D -> D]]
  <2> SUFFICES ASSUME NEW j \in 1..k, NEW x \in D PROVE [x EXCEPT ![q[j].addr] = q[j].val] \in D
    OBVIOUS
  <2>1. q[j].val \in Vals
    BY <1>1
  <2> HIDE DEF Vals
  <2> QED  BY <2>1
<1>4. PICK g : Recurses(g, D, m, k, step)
  <2> HIDE DEF D, step
  <2> QED  BY <1>1, <1>2, <1>3, Recursion
<1>5. /\ g \in [0..k -> D] /\ g[0] = m
      /\ \A j \in 1..k : g[j] = [g[j - 1] EXCEPT ![q[j].addr] = q[j].val]
  <2>1. g \in [0..k -> D] /\ g[0] = m /\ \A j \in 1..k : g[j] = step[j][g[j - 1]]
    BY <1>4 DEF Recurses
  <2>2. \A j \in 1..k : g[j - 1] \in D
    <3> HIDE DEF D
    <3> QED  BY <1>1, <2>1
  <2> QED  BY <2>1, <2>2
<1>6. g = body(g)
  <2>1. \A j \in 0..k : g[j] = body(g)[j]
    <3> SUFFICES ASSUME NEW j \in 0..k PROVE g[j] = body(g)[j]
      OBVIOUS
    <3>1. j = 0 \/ j \in 1..k
      BY <1>1
    <3> QED  BY <1>5, <3>1
  <2> QED  BY <1>5, <2>1
<1>7. h = body(h)
  <2>1. h = CHOOSE f : f = body(f)
    BY DEF DrainOf
  <2> QED  BY <1>6, <2>1
<1>8. h[0] = m /\ \A j \in 1..k : h[j] = [h[j - 1] EXCEPT ![q[j].addr] = q[j].val]
  <2>1. \A j \in 1..k : j \in 0..k /\ j # 0
    BY <1>1
  <2>2. 0 \in 0..k
    BY <1>1
  <2> HIDE DEF h
  <2> QED  BY <1>7, <2>1, <2>2
<1> HIDE DEF h
<1> DEFINE T == {j \in 0..k : ~Stored(m, q, j, h[j])}
<1>9. SUFFICES ASSUME T # {} PROVE FALSE
  <2>1. k \in 0..k
    BY <1>1
  <2> QED  BY <2>1, DrainedIs DEF h
<1>10. PICK j \in T : \A y \in T : j <= y
  <2>1. T \subseteq Nat
    BY <1>1
  <2> HIDE DEF T
  <2> QED  BY <1>9, <2>1, LeastOf
<1>11. j \in 0..k /\ ~Stored(m, q, j, h[j])
  OBVIOUS
<1>12. j # 0
  <2>1. Stored(m, q, 0, m)
    BY DEF Stored
  <2> QED  BY <1>8, <1>11, <2>1
<1>13. j \in 1..k /\ j - 1 \in 0..k /\ j \in Nat
  BY <1>1, <1>11, <1>12
<1>14. Stored(m, q, j - 1, h[j - 1])
  <2>1. j - 1 \notin T
    <3>1. ~(j <= j - 1)
      BY <1>13
    <3> HIDE DEF T
    <3> QED  BY <1>10, <3>1
  <2> QED  BY <1>13, <2>1
<1> HIDE DEF T
<1> DEFINE r == h[j - 1]
           a0 == q[j].addr
<1>15. h[j] = [r EXCEPT ![a0] = q[j].val]
  BY <1>8, <1>13
<1>16. DOMAIN r = DOMAIN m /\ IsFunction(r)
  BY <1>14 DEF Stored
<1>17. \A i \in 1..j : i = j \/ i \in 1..(j - 1)
  BY <1>13
<1>18. j \in 1..j /\ \A i \in 1..(j - 1) : i \in 1..j /\ i # j /\ i \in 1..Len(q)
  BY <1>1, <1>13
<1>19. DOMAIN h[j] = DOMAIN m /\ IsFunction(h[j])
  <2> HIDE DEF r, a0
  <2> QED  BY <1>15, <1>16 DEF IsFunction
<1>20. ASSUME NEW a \in DOMAIN m, \A i \in 1..j : q[i].addr # a PROVE h[j][a] = m[a]
  <2>1. a # a0 /\ \A i \in 1..(j - 1) : q[i].addr # a
    BY <1>18, <1>20
  <2>2. r[a] = m[a]
    BY <1>14, <2>1 DEF Stored
  <2> HIDE DEF r, a0
  <2> QED  BY <1>15, <1>16, <2>1, <2>2
<1>21. ASSUME NEW i \in 1..j, q[i].addr \in DOMAIN m PROVE h[j][q[i].addr] = q[i].val
  <2>1. CASE i = j
    <3> HIDE DEF r
    <3> QED  BY <1>15, <1>16, <1>21, <2>1
  <2>2. CASE i \in 1..(j - 1)
    <3>1. q[i].addr # a0
      BY <1>1, <1>13, <1>18, <2>2 DEF Distinct
    <3>2. r[q[i].addr] = q[i].val
      BY <1>14, <1>21, <2>2 DEF Stored
    <3> HIDE DEF r, a0
    <3> QED  BY <1>15, <1>16, <1>21, <3>1, <3>2
  <2> QED  BY <1>17, <2>1, <2>2
<1>22. Stored(m, q, j, h[j])
  BY <1>19, <1>20, <1>21 DEF Stored
<1> QED  BY <1>11, <1>22
----------------------------------------------------------------------------
\* The block writes a call makes: a prefix of them is accepted, which holds
\* those that were queued anyway.
LEMMA WriteBlocksFacts ==
    ASSUME NEW S, NEW q \in Seq(S), NEW ws \in Seq(S), Distinct(q), Distinct(ws)
    PROVE  \E n \in 0..Len(ws) :
           /\ WriteBlocks(q, ws).queue = Cache!Enqueue(q, SubSeq(ws, 1, n))
           /\ WriteBlocks(q, ws).all = (n = Len(ws))
           /\ \A i \in 1..Len(ws) :
                (\A j \in 1..i : ws[j].addr \in Cache!Queued(q)) => i <= n
<1> DEFINE After(n) == Cache!Enqueue(q, SubSeq(ws, 1, n))
           l == Len(ws)
           Good(n) == \A k \in 1..n : Cache!Accepts(After(k - 1), ws[k].addr)
           Grants == {n \in 0..l : Good(n)}
           Most(n) == /\ Good(n)
                      /\ n < l => ~Cache!Accepts(After(n), ws[n + 1].addr)
           taken == CHOOSE n \in 0..l : Most(n)
<1>1. l \in Nat
  OBVIOUS
<1>2. WriteBlocks(q, ws) = [queue |-> After(taken), all |-> taken = l]
  BY DEF WriteBlocks
<1> HIDE DEF After, l
<1>3. PICK n \in Grants : \A y \in Grants : y <= n
  <2>1. Grants \subseteq Nat /\ (\A x \in Grants : x <= l) /\ Grants # {}
    <3>1. 0 \in Grants
      BY <1>1
    <3> HIDE DEF Good
    <3>2. \A x \in Grants : x \in 0..l
      OBVIOUS
    <3> HIDE DEF Grants
    <3> QED  BY <1>1, <3>1, <3>2
  <2> HIDE DEF Grants
  <2> QED  BY <1>1, <2>1, GreatestOf
<1>4. n \in 0..l /\ Good(n)
  OBVIOUS
<1>5. Most(n)
  <2> SUFFICES ASSUME n < l, Cache!Accepts(After(n), ws[n + 1].addr) PROVE FALSE
    BY <1>4
  <2>1. n + 1 \in 0..l /\ ~(n + 1 <= n) /\ (n + 1) - 1 = n
    BY <1>1, <1>4
  <2>2. ASSUME NEW k \in 1..(n + 1) PROVE Cache!Accepts(After(k - 1), ws[k].addr)
    <3>1. k \in 1..n \/ k = n + 1
      BY <1>4
    <3> QED  BY <1>4, <2>1, <3>1
  <2>3. n + 1 \in Grants
    BY <2>1, <2>2
  <2> HIDE DEF Grants
  <2> QED  BY <1>3, <2>1, <2>3
<1> HIDE DEF Grants, Good, Most
<1>6. taken \in 0..l /\ Most(taken)
  BY <1>4, <1>5
<1> HIDE DEF taken
<1>7. ASSUME NEW i \in 1..l, \A j \in 1..i : ws[j].addr \in Cache!Queued(q) PROVE i <= taken
  <2> SUFFICES ASSUME ~(i <= taken) PROVE FALSE
    OBVIOUS
  <2>1. taken < l /\ taken + 1 \in 1..i /\ taken \in Nat /\ taken <= l
    BY <1>1, <1>6
  <2>2. ~Cache!Accepts(After(taken), ws[taken + 1].addr)
    BY <1>6, <2>1 DEF Most
  <2>3. ws[taken + 1].addr \in Cache!Queued(q)
    BY <1>7, <2>1
  <2> DEFINE p == SubSeq(ws, 1, taken)
  <2>4. /\ p \in Seq(S) /\ Len(p) = taken /\ \A x \in 1..taken : p[x] = ws[x]
    <3>1. taken \in 0..Len(ws)
      BY <1>6 DEF l
    <3> QED  BY <3>1
  <2>5. Distinct(p)
    <3> HIDE DEF p
    <3>1. \A x \in 1..taken : x \in 1..Len(ws)
      BY <1>1, <2>1 DEF l
    <3> QED  BY <2>4, <3>1 DEF Distinct
  <2>6. Cache!Queued(Cache!Enqueue(q, p)) = Cache!Queued(q) \cup Cache!Queued(p)
    <3> HIDE DEF p
    <3>1. \E z \in Nat : Enqueued(S, q, p, Cache!Enqueue(q, p), z)
      BY <2>4, <2>5, EnqueueFacts
    <3> QED  BY <3>1 DEF Enqueued
  <2> QED  BY <2>2, <2>3, <2>6 DEF After, Cache!Accepts
<1> QED  BY <1>2, <1>6, <1>7 DEF After, l
----------------------------------------------------------------------------
\* A directory may overlap and alloc_run still end, inside the data area.
LEMMA InRangeFacts ==
    ASSUME NEW d \in FsDir, InRange(d), NEW i \in Used(d)
    PROVE  /\ d[i].start \in Nat /\ d[i].blocks \in Nat /\ d[i].len \in Nat
           /\ d[i].blocks > 0 /\ d[i].start >= 1 /\ d[i].start + d[i].blocks <= DataEnd
           /\ d[i].len <= d[i].blocks
<1>1. i \in File /\ d[i] \in FsEntry
  BY DEF Used, FsDir
<1> QED  BY <1>1 DEF InRange, FsEntry

LEMMA GapFacts ==
    ASSUME NEW d \in FsDir, InRange(d), NEW c \in 1..DataEnd
    PROVE  /\ StartAfter(d, c) \in Nat /\ StartAfter(d, c) <= DataEnd /\ StartAfter(d, c) >= c
           /\ AheadOf(d, c) # {} => EndAfter(d, c) \in Nat /\ EndAfter(d, c) > c
<1>1. c \in Nat /\ c <= DataEnd /\ DataEnd \in Nat
  BY SizeFacts
<1>2. CASE AheadOf(d, c) = {}
  BY <1>1, <1>2 DEF StartAfter
<1>3. CASE AheadOf(d, c) # {}
  <2> DEFINE n == NearestTo(d, c)
  <2>1. n \in Used(d) /\ d[n].start >= c
    BY <1>1, <1>3, NearestFound DEF IsNearest, AheadOf
  <2>2. /\ d[n].start \in Nat /\ d[n].blocks \in Nat /\ d[n].blocks > 0
        /\ d[n].start + d[n].blocks <= DataEnd
    BY <2>1, InRangeFacts
  <2>3. StartAfter(d, c) = d[n].start /\ EndAfter(d, c) = d[n].start + d[n].blocks
    BY <1>3 DEF StartAfter, EndAfter
  <2> HIDE DEF n
  <2> QED  BY <1>1, <2>1, <2>2, <2>3
<1> QED  BY <1>2, <1>3

Walk(d, need, f, c) ==
    IF StartAfter(d, c) - c >= need THEN c
    ELSE IF AheadOf(d, c) = {} \/ EndAfter(d, c) >= DataEnd THEN 0
    ELSE f[EndAfter(d, c)]

LEMMA WalkEnds ==
    ASSUME NEW d \in FsDir, InRange(d), NEW need \in Nat \ {0}
    PROVE  \E f : f = [c \in 1..DataEnd |-> Walk(d, need, f, c)]
<1> DEFINE Done(f, b) == f = [c \in b..DataEnd |-> Walk(d, need, f, c)]
           T == {b \in 1..(DataEnd + 1) : ~ \E f : Done(f, b)}
<1>1. DataEnd \in Nat /\ DataEnd >= 1
  BY SizeFacts
<1>2. SUFFICES ASSUME T # {} PROVE FALSE
  <2>1. 1 \in 1..(DataEnd + 1)
    BY <1>1
  <2> QED  BY <2>1
<1>3. PICK b \in T : \A y \in T : y <= b
  <2>1. T \subseteq Nat /\ (\A y \in T : y <= DataEnd + 1) /\ DataEnd + 1 \in Nat
    <3> HIDE DEF Done
    <3>1. \A y \in T : y \in 1..(DataEnd + 1)
      OBVIOUS
    <3> HIDE DEF T
    <3> QED  BY <1>1, <3>1
  <2> HIDE DEF T
  <2> QED  BY <1>2, <2>1, GreatestOf
<1>4. b \in 1..(DataEnd + 1) /\ ~ \E f : Done(f, b)
  OBVIOUS
<1>5. b # DataEnd + 1
  <2> SUFFICES ASSUME b = DataEnd + 1 PROVE \E f : Done(f, b)
    BY <1>4
  <2> DEFINE f0 == [c \in b..DataEnd |-> 0]
  <2>1. b..DataEnd = {}
    BY <1>1
  <2>2. f0 = [c \in b..DataEnd |-> Walk(d, need, f0, c)]
    BY <2>1
  <2> QED  BY <2>2
<1>6. b \in 1..DataEnd /\ b + 1 \in 1..(DataEnd + 1) /\ b \in Nat /\ ~(b + 1 <= b)
  BY <1>1, <1>4, <1>5
<1>7. PICK f : Done(f, b + 1)
  <2>1. b + 1 \notin T
    <3> HIDE DEF T
    <3> QED  BY <1>3, <1>6
  <2> QED  BY <1>6, <2>1
<1> DEFINE g == [c \in b..DataEnd |-> IF c = b THEN Walk(d, need, f, b) ELSE f[c]]
<1>8. \A c \in b..DataEnd : c \in 1..DataEnd /\ (c = b \/ c \in (b + 1)..DataEnd)
  BY <1>1, <1>6
<1>9. ASSUME NEW c \in b..DataEnd PROVE Walk(d, need, g, c) = Walk(d, need, f, c)
  <2>1. c \in 1..DataEnd
    BY <1>8
  <2>2. AheadOf(d, c) # {} => EndAfter(d, c) \in Nat /\ EndAfter(d, c) > c
    BY <2>1, GapFacts
  <2>3. AheadOf(d, c) # {} /\ ~(EndAfter(d, c) >= DataEnd) => g[EndAfter(d, c)] = f[EndAfter(d, c)]
    <3> SUFFICES ASSUME AheadOf(d, c) # {}, ~(EndAfter(d, c) >= DataEnd)
                 PROVE  g[EndAfter(d, c)] = f[EndAfter(d, c)]
      OBVIOUS
    <3>1. EndAfter(d, c) \in b..DataEnd /\ EndAfter(d, c) # b
      BY <1>1, <1>6, <2>1, <2>2
    <3> QED  BY <3>1
  <2> HIDE DEF g
  <2> QED  BY <2>3 DEF Walk
<1>10. \A c \in b..DataEnd : g[c] = Walk(d, need, g, c)
  <2> SUFFICES ASSUME NEW c \in b..DataEnd PROVE g[c] = Walk(d, need, g, c)
    OBVIOUS
  <2>1. CASE c = b
    BY <1>9, <2>1
  <2>2. CASE c # b
    <3>1. c \in (b + 1)..DataEnd
      BY <1>8, <2>2
    <3>2. f[c] = Walk(d, need, f, c)
      BY <1>7, <3>1
    <3> QED  BY <1>9, <2>2, <3>2
  <2> QED  BY <2>1, <2>2
<1>11. Done(g, b)
  <2>1. g = [c \in b..DataEnd |-> g[c]]
    OBVIOUS
  <2> HIDE DEF g
  <2> QED  BY <1>10, <2>1
<1> QED  BY <1>4, <1>11

LEMMA AllocRunInRange ==
    ASSUME NEW d \in FsDir, InRange(d), NEW need \in Nat \ {0}
    PROVE  LET s == alloc_run(d, need) IN
           s \in Nat /\ (s # 0 => s \in 1..NBlocks /\ s + need <= DataEnd)
<1> DEFINE h == CHOOSE f : f = [c \in 1..DataEnd |-> Walk(d, need, f, c)]
           Ok(s) == s \in Nat /\ (s # 0 => s \in 1..NBlocks /\ s + need <= DataEnd)
           T == {c \in 1..DataEnd : ~Ok(h[c])}
<1>1. alloc_run(d, need) = h[1]
  BY DEF alloc_run, Walk, StartAfter, EndAfter, AheadOf, NearestTo
<1>2. h = [c \in 1..DataEnd |-> Walk(d, need, h, c)]
  BY WalkEnds
<1> HIDE DEF h
<1>3. 1 \in 1..DataEnd /\ DataEnd \in Nat /\ DataEnd = NBlocks + 1 /\ NBlocks \in Nat /\ need \in Nat /\ need > 0
  BY SizeFacts
<1>4. SUFFICES ASSUME T # {} PROVE FALSE
  BY <1>1, <1>3
<1>5. PICK c \in T : \A y \in T : y <= c
  <2>1. T \subseteq Nat /\ \A y \in T : y <= DataEnd
    <3> HIDE DEF Ok
    <3>1. \A y \in T : y \in 1..DataEnd
      OBVIOUS
    <3> HIDE DEF T
    <3> QED  BY <1>3, <3>1
  <2> HIDE DEF T
  <2> QED  BY <1>3, <1>4, <2>1, GreatestOf
<1>6. c \in 1..DataEnd /\ ~Ok(h[c])
  OBVIOUS
<1>7. h[c] = Walk(d, need, h, c)
  <2> HIDE DEF T
  <2> QED  BY <1>2, <1>6
<1> DEFINE st == StartAfter(d, c)
           en == EndAfter(d, c)
<1>8. st \in Nat /\ st <= DataEnd /\ st >= c /\ (AheadOf(d, c) # {} => en \in Nat /\ en > c)
  BY <1>6, GapFacts
<1>9. h[c] = IF st - c >= need THEN c
             ELSE IF AheadOf(d, c) = {} \/ en >= DataEnd THEN 0
             ELSE h[en]
  BY <1>7 DEF Walk
<1> HIDE DEF st, en
<1>10. CASE st - c >= need
  <2>1. c \in 1..NBlocks /\ c + need <= DataEnd /\ c \in Nat
    BY <1>3, <1>6, <1>8, <1>10
  <2> QED  BY <1>6, <1>9, <1>10, <2>1
<1>11. CASE ~(st - c >= need) /\ (AheadOf(d, c) = {} \/ en >= DataEnd)
  BY <1>6, <1>9, <1>11
<1>12. CASE ~(st - c >= need) /\ ~(AheadOf(d, c) = {} \/ en >= DataEnd)
  <2>1. en \in 1..DataEnd /\ ~(en <= c)
    BY <1>3, <1>6, <1>8, <1>12
  <2>2. en \notin T
    <3> HIDE DEF T
    <3> QED  BY <1>5, <2>1
  <2>3. Ok(h[en])
    BY <2>1, <2>2
  <2> QED  BY <1>6, <1>9, <1>12, <2>3
<1> QED  BY <1>10, <1>11, <1>12
----------------------------------------------------------------------------
LEMMA AddrFacts ==
    /\ SB \in Addr /\ \A s \in {0, 1} : Header(s) \in Addr /\ Header(s) # SB
    /\ \A s \in {0, 1}, i \in File :
        /\ DirBlock(s, i) \in Addr /\ DirBlock(s, i) # SB
        /\ \A t \in {0, 1} : DirBlock(s, i) # Header(t)
        /\ \A t \in {0, 1}, j \in File : DirBlock(s, i) = DirBlock(t, j) => s = t /\ i = j
    /\ Header(0) # Header(1)
    /\ \A b \in 1..NBlocks :
        /\ DataBlock(b) \in Addr /\ DataBlock(b) # SB
        /\ \A s \in {0, 1} : DataBlock(b) # Header(s) /\ \A i \in File : DataBlock(b) # DirBlock(s, i)
    /\ \A a, b \in 1..NBlocks : DataBlock(a) = DataBlock(b) => a = b
  BY DEF SB, Header, DirBlock, DataBlock, Addr

\* What may be stored in block a, and what a disk and a queue of writes hold.
BlockFits(a, v) ==
    /\ a = SB => v \in {0, 1}
    /\ \A s \in {0, 1} : a = Header(s) => v.gen \in 0..(GenMod - 1)
    /\ \A s \in {0, 1}, i \in File : a = DirBlock(s, i) => v \in FsEntry
DiskOK(m) == DOMAIN m = Addr /\ IsFunction(m) /\ \A a \in Addr : BlockFits(a, m[a])
IsQueue(q) == \E S : q \in Seq(S)
QueueOK(q) ==
    /\ IsQueue(q) /\ Distinct(q)
    /\ \A k \in 1..Len(q) : q[k].addr \in Addr /\ BlockFits(q[k].addr, q[k].val)

LEMMA CommonRange ==
    ASSUME NEW p, NEW q, IsQueue(p), IsQueue(q)
    PROVE  \E S : p \in Seq(S) /\ q \in Seq(S)
<1>1. PICK S : p \in Seq(S)
  BY DEF IsQueue
<1>2. PICK T : q \in Seq(T)
  BY DEF IsQueue
<1>3. p \in Seq(S \cup T) /\ q \in Seq(S \cup T)
  BY <1>1, <1>2
<1> QED  BY <1>3

\* r is the queue q once the first n of the writes ws have been accepted.
Merged(q, ws, n, r) ==
    /\ QueueOK(r)
    /\ \A k \in 1..Len(r) :
        \/ \E j \in 1..Len(q) : r[k] = q[j] /\ \A i \in 1..n : ws[i].addr # q[j].addr
        \/ \E i \in 1..n : r[k] = ws[i]
    /\ \A i \in 1..n : \E k \in 1..Len(r) : r[k] = ws[i]
    /\ \A j \in 1..Len(q) : (\A i \in 1..n : ws[i].addr # q[j].addr) =>
        \E k \in 1..Len(r) :
            r[k] = q[j] /\ \A l \in 1..Len(r) : (\E i \in 1..n : r[l] = ws[i]) => k < l

LEMMA MergedFacts ==
    ASSUME NEW q, NEW ws, QueueOK(q), QueueOK(ws), NEW n \in 0..Len(ws)
    PROVE  Merged(q, ws, n, Cache!Enqueue(q, SubSeq(ws, 1, n)))
<1>1. PICK S : q \in Seq(S) /\ ws \in Seq(S)
  BY CommonRange DEF QueueOK
<1> DEFINE p == SubSeq(ws, 1, n)
           r == Cache!Enqueue(q, p)
<1>2. n \in Nat /\ Len(q) \in Nat /\ Len(ws) \in Nat /\ \A i \in 1..n : i \in 1..Len(ws)
  BY <1>1
<1>3. p \in Seq(S) /\ Len(p) = n /\ \A i \in 1..n : p[i] = ws[i]
  BY <1>1
<1> HIDE DEF p
<1>4. Distinct(p)
  BY <1>2, <1>3 DEF Distinct, QueueOK
<1>5. Cache!Queued(p) = {ws[i].addr : i \in 1..n}
  BY <1>3, QueuedIs
<1>6. PICK z \in Nat : Enqueued(S, q, p, r, z)
  BY <1>1, <1>3, <1>4, EnqueueFacts DEF QueueOK
<1> HIDE DEF r
<1>7. ASSUME NEW k \in 1..z
      PROVE  \E j \in 1..Len(q) : r[k] = q[j] /\ \A i \in 1..n : ws[i].addr # q[j].addr
  <2>1. PICK j \in 1..Len(q) : r[k] = q[j]
    BY <1>6 DEF Enqueued
  <2>2. q[j].addr \notin Cache!Queued(p)
    BY <1>6, <2>1 DEF Enqueued
  <2> QED  BY <1>5, <2>1, <2>2
<1>8. ASSUME NEW i \in 1..n PROVE z + i \in 1..Len(r) /\ r[z + i] = ws[i]
  BY <1>3, <1>6 DEF Enqueued
<1>9. ASSUME NEW k \in 1..Len(r) PROVE k \in 1..z \/ \E i \in 1..n : k = z + i
  BY <1>3, <1>6 DEF Enqueued
<1>10. QueueOK(r)
  <2>1. IsQueue(r) /\ Distinct(r)
    BY <1>6 DEF IsQueue, Enqueued
  <2>2. ASSUME NEW k \in 1..Len(r) PROVE r[k].addr \in Addr /\ BlockFits(r[k].addr, r[k].val)
    <3>1. CASE k \in 1..z
      BY <1>7, <3>1 DEF QueueOK
    <3>2. CASE \E i \in 1..n : k = z + i
      BY <1>2, <1>8, <3>2 DEF QueueOK
    <3> QED  BY <1>9, <3>1, <3>2
  <2> QED  BY <2>1, <2>2 DEF QueueOK
<1>11. ASSUME NEW k \in 1..Len(r)
       PROVE  \/ \E j \in 1..Len(q) : r[k] = q[j] /\ \A i \in 1..n : ws[i].addr # q[j].addr
              \/ \E i \in 1..n : r[k] = ws[i]
  BY <1>7, <1>8, <1>9
<1>12. ASSUME NEW j \in 1..Len(q), \A i \in 1..n : ws[i].addr # q[j].addr
       PROVE  \E k \in 1..Len(r) :
                r[k] = q[j] /\ \A l \in 1..Len(r) : (\E i \in 1..n : r[l] = ws[i]) => k < l
  <2>1. q[j].addr \notin Cache!Queued(p)
    BY <1>5, <1>12
  <2>2. PICK k \in 1..z : r[k] = q[j]
    BY <1>6, <2>1 DEF Enqueued
  <2>3. k \in 1..Len(r)
    BY <1>3, <1>6, <1>2 DEF Enqueued
  <2>4. ASSUME NEW l \in 1..Len(r), NEW i \in 1..n, r[l] = ws[i] PROVE k < l
    <3>1. l \notin 1..z
      <4> SUFFICES ASSUME l \in 1..z PROVE FALSE
        OBVIOUS
      <4>1. r[l].addr # ws[i].addr
        BY <1>7
      <4> QED  BY <2>4, <4>1
    <3> QED  BY <1>6, <3>1 DEF Enqueued
  <2> QED  BY <2>2, <2>3, <2>4
<1>13. \A i \in 1..n : \E k \in 1..Len(r) : r[k] = ws[i]
  BY <1>8
<1>14. Merged(q, ws, n, r)
  BY <1>10, <1>11, <1>12, <1>13 DEF Merged
<1> QED  BY <1>14 DEF r, p

\* What a call's block writes do to the queue.
LEMMA WrittenFacts ==
    ASSUME NEW q, NEW ws, QueueOK(q), QueueOK(ws)
    PROVE  \E n \in 0..Len(ws) :
           /\ Merged(q, ws, n, WriteBlocks(q, ws).queue)
           /\ WriteBlocks(q, ws).all = (n = Len(ws))
           /\ \A i \in 1..Len(ws) :
                (\A j \in 1..i : \E k \in 1..Len(q) : q[k].addr = ws[j].addr) => i <= n
<1>1. PICK S : q \in Seq(S) /\ ws \in Seq(S)
  BY CommonRange DEF QueueOK
<1>2. PICK n \in 0..Len(ws) :
           /\ WriteBlocks(q, ws).queue = Cache!Enqueue(q, SubSeq(ws, 1, n))
           /\ WriteBlocks(q, ws).all = (n = Len(ws))
           /\ \A i \in 1..Len(ws) :
                (\A j \in 1..i : ws[j].addr \in Cache!Queued(q)) => i <= n
  BY <1>1, WriteBlocksFacts DEF QueueOK
<1>3. Merged(q, ws, n, WriteBlocks(q, ws).queue)
  BY <1>2, MergedFacts
<1>4. Cache!Queued(q) = {q[k].addr : k \in 1..Len(q)}
  BY <1>1, QueuedIs
<1>5. ASSUME NEW i \in 1..Len(ws), \A j \in 1..i : \E k \in 1..Len(q) : q[k].addr = ws[j].addr
      PROVE  i <= n
  BY <1>2, <1>4, <1>5
<1> QED  BY <1>2, <1>3, <1>5

LEMMA StoredOK ==
    ASSUME NEW m, NEW q, DiskOK(m), QueueOK(q), NEW k \in 0..Len(q)
    PROVE  DiskOK(Cache!Drained(m, q, k)) /\ Stored(m, q, k, Cache!Drained(m, q, k))
<1> DEFINE r == Cache!Drained(m, q, k)
<1>1. PICK S : q \in Seq(S)
  BY DEF QueueOK, IsQueue
<1>2. Stored(m, q, k, r)
  BY <1>1, DrainedFacts DEF QueueOK, DiskOK
<1> HIDE DEF r
<1>3. \A j \in 1..k : j \in 1..Len(q)
  BY <1>1
<1>4. ASSUME NEW a \in Addr PROVE BlockFits(a, r[a])
  <2>1. CASE \A j \in 1..k : q[j].addr # a
    BY <1>2, <2>1 DEF Stored, DiskOK
  <2>2. CASE \E j \in 1..k : q[j].addr = a
    <3>1. PICK j \in 1..k : q[j].addr = a
      BY <2>2
    <3>2. r[a] = q[j].val
      BY <1>2, <3>1 DEF Stored, DiskOK
    <3> QED  BY <1>3, <3>1, <3>2 DEF QueueOK
  <2> QED  BY <2>1, <2>2
<1>5. DiskOK(r)
  BY <1>2, <1>4 DEF DiskOK, Stored
<1> QED  BY <1>2, <1>5 DEF r

LEMMA ViewOK ==
    ASSUME NEW m, NEW q, DiskOK(m), QueueOK(q)
    PROVE  DiskOK(Cache!View(m, q)) /\ Stored(m, q, Len(q), Cache!View(m, q))
<1>1. PICK S : q \in Seq(S)
  BY DEF QueueOK, IsQueue
<1>2. Len(q) \in 0..Len(q)
  BY <1>1
<1> QED  BY <1>2, StoredOK DEF Cache!View

LEMMA DropFirstOK ==
    ASSUME NEW q, QueueOK(q), NEW k \in 0..Len(q)
    PROVE  /\ QueueOK(Cache!DropFirst(q, k))
           /\ Len(Cache!DropFirst(q, k)) = Len(q) - k /\ Len(q) \in Nat
           /\ \A i \in 1..(Len(q) - k) : k + i \in 1..Len(q) /\ Cache!DropFirst(q, k)[i] = q[k + i]
<1>1. PICK S : q \in Seq(S)
  BY DEF QueueOK, IsQueue
<1> DEFINE r == Cache!DropFirst(q, k)
<1>2. r = SubSeq(q, k + 1, Len(q)) /\ Len(q) \in Nat /\ k \in Nat /\ k <= Len(q)
  BY <1>1 DEF Cache!DropFirst
<1>3. r \in Seq(S) /\ Len(r) = Len(q) - k /\ \A i \in 1..(Len(q) - k) : r[i] = q[k + i]
  BY <1>1, <1>2
<1> HIDE DEF r
<1>4. \A i \in 1..(Len(q) - k) : k + i \in 1..Len(q)
  BY <1>2
<1>5. Distinct(r)
  <2> SUFFICES ASSUME NEW i \in 1..Len(r), NEW j \in 1..Len(r), r[i].addr = r[j].addr PROVE i = j
    BY DEF Distinct
  <2>1. k + i = k + j
    BY <1>3, <1>4 DEF QueueOK, Distinct
  <2> QED  BY <1>2, <1>3, <2>1
<1>6. QueueOK(r)
  BY <1>3, <1>4, <1>5 DEF QueueOK, IsQueue
<1> QED  BY <1>2, <1>3, <1>4, <1>6 DEF r

LEMMA EmptyOK == QueueOK(<<>>) /\ Len(<<>>) = 0
<1>1. <<>> \in Seq({})
  OBVIOUS
<1>2. Len(<<>>) = 0
  OBVIOUS
<1> QED  BY <1>1, <1>2 DEF QueueOK, IsQueue, Distinct

LEMMA DirWritesOK ==
    ASSUME NEW s \in {0, 1}, NEW d \in FsDir
    PROVE  /\ QueueOK(DirWrites(s, d)) /\ Len(DirWrites(s, d)) = MaxFiles
           /\ \A i \in File : DirWrites(s, d)[i] = [addr |-> DirBlock(s, i), val |-> d[i]]
<1> DEFINE S == [addr : Addr, val : FsEntry]
           ws == DirWrites(s, d)
<1>1. \A i \in File : d[i] \in FsEntry /\ DirBlock(s, i) \in Addr
  BY AddrFacts DEF FsDir
<1>2. \A i \in File : ws[i] = [addr |-> DirBlock(s, i), val |-> d[i]]
  BY DEF DirWrites
<1>3. ws \in [1..MaxFiles -> S]
  BY <1>1 DEF DirWrites, File
<1>4. MaxFiles \in Nat /\ File = 1..MaxFiles
  BY SizeFacts DEF File
<1> HIDE DEF ws, S
<1>5. ws \in Seq(S) /\ Len(ws) = MaxFiles
  BY <1>3, <1>4
<1>6. Distinct(ws)
  <2>1. ASSUME NEW i \in File PROVE ws[i].addr = DirBlock(s, i)
    <3>1. ws[i] = [addr |-> DirBlock(s, i), val |-> d[i]]
      BY <1>2
    <3> QED  BY <3>1
  <2> QED  BY <1>4, <1>5, <2>1, AddrFacts DEF Distinct
<1>7. ASSUME NEW i \in File PROVE ws[i].addr \in Addr /\ BlockFits(ws[i].addr, ws[i].val)
  <2>1. ws[i].addr = DirBlock(s, i) /\ ws[i].val \in FsEntry
    <3>1. ws[i] = [addr |-> DirBlock(s, i), val |-> d[i]]
      BY <1>2
    <3>2. ws[i].addr = DirBlock(s, i) /\ ws[i].val = d[i]
      BY <3>1
    <3> QED  BY <1>1, <3>2
  <2>2. DirBlock(s, i) \in Addr /\ DirBlock(s, i) # SB /\ \A t \in {0, 1} : DirBlock(s, i) # Header(t)
    BY AddrFacts
  <2> QED  BY <2>1, <2>2 DEF BlockFits
<1>8. QueueOK(ws)
  BY <1>4, <1>5, <1>6, <1>7 DEF QueueOK, IsQueue
<1> QED  BY <1>2, <1>5, <1>8 DEF ws

LEMMA OneWriteOK ==
    ASSUME NEW a \in Addr, NEW v, BlockFits(a, v)
    PROVE  /\ QueueOK(<<[addr |-> a, val |-> v]>>) /\ Len(<<[addr |-> a, val |-> v]>>) = 1
           /\ <<[addr |-> a, val |-> v]>>[1] = [addr |-> a, val |-> v]
<1> DEFINE ws == <<[addr |-> a, val |-> v]>>
<1>1. ws \in Seq({[addr |-> a, val |-> v]}) /\ Len(ws) = 1 /\ ws[1] = [addr |-> a, val |-> v]
  OBVIOUS
<1> HIDE DEF ws
<1>2. 1..1 = {1}
  OBVIOUS
<1>3. QueueOK(ws)
  BY <1>1, <1>2 DEF QueueOK, IsQueue, Distinct
<1> QED  BY <1>1, <1>3 DEF ws

LEMMA SbWriteOK ==
    ASSUME NEW v \in {0, 1}
    PROVE  QueueOK(SbWrite(v)) /\ Len(SbWrite(v)) = 1 /\ SbWrite(v)[1] = [addr |-> SB, val |-> v]
<1>1. SB \in Addr /\ BlockFits(SB, v)
  BY AddrFacts DEF BlockFits
<1> QED  BY <1>1, OneWriteOK DEF SbWrite

LEMMA HeaderWriteOK ==
    ASSUME NEW s \in {0, 1}, NEW g \in 0..(GenMod - 1), NEW d
    PROVE  /\ QueueOK(HeaderWrite(s, g, d)) /\ Len(HeaderWrite(s, g, d)) = 1
           /\ HeaderWrite(s, g, d)[1] =
                [addr |-> Header(s), val |-> [magic |-> TRUE, gen |-> g, sum |-> dir_sum(d)]]
<1> DEFINE v == [magic |-> TRUE, gen |-> g, sum |-> dir_sum(d)]
<1>1. v.gen = g
  OBVIOUS
<1> HIDE DEF v
<1>2. Header(s) \in Addr /\ BlockFits(Header(s), v)
  BY <1>1, AddrFacts DEF BlockFits
<1>3. HeaderWrite(s, g, d) = <<[addr |-> Header(s), val |-> v]>>
  BY DEF HeaderWrite, v
<1>4. /\ QueueOK(HeaderWrite(s, g, d)) /\ Len(HeaderWrite(s, g, d)) = 1
      /\ HeaderWrite(s, g, d)[1] = [addr |-> Header(s), val |-> v]
  BY <1>2, <1>3, OneWriteOK
<1> QED  BY <1>4 DEF v

DataWrites(base, need, len, v) ==
    [k \in 1..need |-> [addr |-> DataBlock(base + k - 1), val |-> IF k <= len THEN v ELSE 0]]

LEMMA DataWritesOK ==
    ASSUME NEW base \in Nat, NEW need \in Nat, base >= 1, base + need <= DataEnd, NEW len, NEW v
    PROVE  /\ QueueOK(DataWrites(base, need, len, v)) /\ Len(DataWrites(base, need, len, v)) = need
           /\ \A k \in 1..need : \E b \in 1..NBlocks : DataWrites(base, need, len, v)[k].addr = DataBlock(b)
<1> DEFINE ws == DataWrites(base, need, len, v)
           S == [addr : Addr, val : {v, 0}]
<1>1. \A k \in 1..need : base + k - 1 \in 1..NBlocks
  BY SizeFacts
<1>2. \A k \in 1..need : ws[k].addr = DataBlock(base + k - 1)
  BY DEF DataWrites
<1>3. ws \in [1..need -> S]
  <2>1. \A k \in 1..need : DataBlock(base + k - 1) \in Addr
    BY <1>1, AddrFacts
  <2> QED  BY <2>1 DEF DataWrites
<1> HIDE DEF ws, S
<1>4. ws \in Seq(S) /\ Len(ws) = need
  BY <1>3
<1>5. Distinct(ws)
  <2> SUFFICES ASSUME NEW i \in 1..need, NEW j \in 1..need, ws[i].addr = ws[j].addr PROVE i = j
    BY <1>4 DEF Distinct
  <2>1. DataBlock(base + i - 1) = DataBlock(base + j - 1)
    BY <1>2
  <2>2. base + i - 1 \in 1..NBlocks /\ base + j - 1 \in 1..NBlocks
    BY <1>1
  <2>3. base + i - 1 = base + j - 1
    BY <2>1, <2>2, AddrFacts
  <2> QED  BY <2>3
<1>6. ASSUME NEW k \in 1..need PROVE ws[k].addr \in Addr /\ BlockFits(ws[k].addr, ws[k].val)
  BY <1>1, <1>2, AddrFacts DEF BlockFits
<1>7. QueueOK(ws)
  BY <1>4, <1>5, <1>6 DEF QueueOK, IsQueue
<1> QED  BY <1>1, <1>2, <1>4, <1>7 DEF ws
----------------------------------------------------------------------------
\* An entry e can be put at i: it lies in the data area and, when d is
\* disjoint, no other file has a block of its run.
Placeable(d, i, e) ==
    /\ e \in FsEntry /\ e.name # 0
    /\ e.blocks > 0 /\ e.start >= 1 /\ e.start + e.blocks <= DataEnd /\ e.len <= e.blocks
    /\ Disjoint(d) => \A j \in Used(d) \ {i} :
        d[j].start + d[j].blocks <= e.start \/ e.start + e.blocks <= d[j].start

LEMMA PlaceKeeps ==
    ASSUME NEW d \in FsDir, InRange(d), NEW i \in File, NEW e, Placeable(d, i, e)
    PROVE  /\ [d EXCEPT ![i] = e] \in FsDir /\ InRange([d EXCEPT ![i] = e])
           /\ Disjoint(d) => Disjoint([d EXCEPT ![i] = e])
<1> DEFINE r == [d EXCEPT ![i] = e]
<1>1. /\ e \in FsEntry /\ e.name # 0 /\ e.start \in Nat /\ e.blocks \in Nat /\ e.len \in Nat
      /\ e.blocks > 0 /\ e.start >= 1 /\ e.start + e.blocks <= DataEnd /\ e.len <= e.blocks
  BY DEF Placeable, FsEntry
<1>2. r \in FsDir /\ r[i] = e /\ \A j \in File \ {i} : r[j] = d[j]
  BY <1>1 DEF FsDir
<1> HIDE DEF r
<1>3. Used(r) \subseteq File /\ Used(r) = {i} \cup (Used(d) \ {i})
  BY <1>1, <1>2 DEF Used
<1>4. InRange(r)
  <2> SUFFICES ASSUME NEW j \in Used(r)
               PROVE  r[j].blocks > 0 /\ r[j].start >= 1 /\ r[j].start + r[j].blocks <= DataEnd
                      /\ r[j].len <= r[j].blocks
    BY DEF InRange
  <2>1. CASE j = i
    BY <1>1, <1>2, <2>1
  <2>2. CASE j # i
    BY <1>2, <1>3, <2>2 DEF InRange
  <2> QED  BY <2>1, <2>2
<1>5. ASSUME Disjoint(d) PROVE Disjoint(r)
  <2>1. ASSUME NEW j \in Used(d) \ {i}
        PROVE  Run(r, i) \cap Run(r, j) = {}
    <3>1. /\ d[j].start \in Nat /\ d[j].blocks \in Nat \ {0}
          /\ d[j].start + d[j].blocks <= e.start \/ e.start + e.blocks <= d[j].start
      BY <1>5, InRangeFacts DEF Placeable
    <3>2. Run(r, i) = e.start..(e.start + e.blocks - 1) /\ Run(r, j) = d[j].start..(d[j].start + d[j].blocks - 1)
      BY <1>2, <1>3 DEF Run
    <3>3. e.start \in Nat /\ e.blocks \in Nat \ {0}
      BY <1>1
    <3>4. e.start + e.blocks <= d[j].start \/ d[j].start + d[j].blocks <= e.start
      BY <3>1
    <3>5. (e.start..(e.start + e.blocks - 1)) \cap (d[j].start..(d[j].start + d[j].blocks - 1)) = {}
      BY <3>1, <3>3, <3>4, Apart
    <3> QED  BY <3>2, <3>5
  <2>2. ASSUME NEW j \in Used(r), NEW k \in Used(r), j # k PROVE Run(r, j) \cap Run(r, k) = {}
    <3>1. CASE j = i
      BY <1>3, <2>1, <2>2, <3>1
    <3>2. CASE k = i
      BY <1>3, <2>1, <2>2, <3>2
    <3>3. CASE j # i /\ k # i
      <4>1. Run(r, j) = Run(d, j) /\ Run(r, k) = Run(d, k) /\ j \in Used(d) /\ k \in Used(d)
        BY <1>2, <1>3, <3>3 DEF Run
      <4> QED  BY <1>5, <2>2, <4>1 DEF Disjoint
    <3> QED  BY <3>1, <3>2, <3>3
  <2> QED  BY <1>4, <2>2 DEF Disjoint
<1> QED  BY <1>2, <1>4, <1>5 DEF r

LEMMA NoDirOK ==
    /\ NoEntry \in FsEntry /\ NoEntry.name = 0 /\ NoDir \in FsDir
    /\ Used(NoDir) = {} /\ InRange(NoDir) /\ Disjoint(NoDir)
<1>1. NoEntry \in FsEntry /\ NoEntry.name = 0
  BY DEF NoEntry, FsEntry
<1>2. NoDir \in FsDir /\ Used(NoDir) = {}
  BY <1>1 DEF NoDir, FsDir, Used
<1> QED  BY <1>1, <1>2 DEF InRange, Disjoint

LEMMA DeleteKeeps ==
    ASSUME NEW d \in FsDir, InRange(d), NEW i \in File
    PROVE  /\ [d EXCEPT ![i] = NoEntry] \in FsDir /\ InRange([d EXCEPT ![i] = NoEntry])
           /\ Disjoint(d) => Disjoint([d EXCEPT ![i] = NoEntry])
<1> DEFINE r == [d EXCEPT ![i] = NoEntry]
<1>1. r \in FsDir /\ r[i] = NoEntry /\ \A j \in File \ {i} : r[j] = d[j]
  BY NoDirOK DEF FsDir
<1> HIDE DEF r
<1>2. Used(r) = Used(d) \ {i} /\ Used(d) \subseteq File
  BY <1>1, NoDirOK DEF Used
<1>3. InRange(r)
  BY <1>1, <1>2 DEF InRange
<1>4. Disjoint(d) => Disjoint(r)
  BY <1>1, <1>2, <1>3 DEF Disjoint, Run
<1> QED  BY <1>1, <1>3, <1>4 DEF r

LEMMA BlocksFor ==
    ASSUME NEW len \in Nat
    PROVE  blocks_for(len) \in Nat \ {0} /\ len <= blocks_for(len)
  BY DEF blocks_for

\* alloc_run's place for a run, whoever owns it.
LEMMA AllocPlaceable ==
    ASSUME NEW d \in FsDir, InRange(d), NEW i \in File, NEW need \in Nat \ {0},
           alloc_run(d, need) # 0,
           NEW n \in Nat \ {0}, NEW len \in Nat, len <= need
    PROVE  Placeable(d, i, [name |-> n, start |-> alloc_run(d, need), len |-> len, blocks |-> need])
<1> DEFINE s == alloc_run(d, need)
           e == [name |-> n, start |-> s, len |-> len, blocks |-> need]
<1>1. s \in Nat /\ s \in 1..NBlocks /\ s + need <= DataEnd
  BY AllocRunInRange
<1>2. ASSUME Disjoint(d), NEW j \in Used(d)
      PROVE  d[j].start + d[j].blocks <= s \/ s + need <= d[j].start
  <2>1. s \in Fits(d, need)
    <3>1. FirstFit(d, need, s)
      BY <1>2, AllocRunFirstFit
    <3> QED  BY <3>1 DEF FirstFit
  <2>2. Run(d, j) \cap (s..(s + need - 1)) = {}
    BY <2>1 DEF Fits
  <2>3. d[j].start \in Nat /\ d[j].blocks \in Nat \ {0}
    BY InRangeFacts
  <2> HIDE DEF s
  <2> QED  BY <1>1, <2>2, <2>3, Apart DEF Run
<1> HIDE DEF s
<1>3. e \in FsEntry /\ e.name = n /\ e.start = s /\ e.blocks = need /\ e.len = len
  BY <1>1 DEF FsEntry
<1> HIDE DEF e
<1>4. Placeable(d, i, e)
  BY <1>1, <1>2, <1>3 DEF Placeable
<1> QED  BY <1>4 DEF s, e

LEMMA RenameKeeps ==
    ASSUME NEW d \in FsDir, InRange(d), NEW i \in Used(d), NEW n \in Nat \ {0}
    PROVE  /\ [d EXCEPT ![i].name = n] \in FsDir /\ InRange([d EXCEPT ![i].name = n])
           /\ Disjoint(d) => Disjoint([d EXCEPT ![i].name = n])
<1> DEFINE e == [d[i] EXCEPT !.name = n]
<1>1. i \in File /\ d[i] \in FsEntry
  BY DEF Used, FsDir
<1>2. e \in FsEntry /\ e.name = n /\ e.start = d[i].start /\ e.blocks = d[i].blocks /\ e.len = d[i].len
  BY <1>1 DEF FsEntry
<1>3. [d EXCEPT ![i].name = n] = [d EXCEPT ![i] = e]
  BY <1>1 DEF FsDir
<1> HIDE DEF e
<1>4. Placeable(d, i, e)
  <2>1. ASSUME Disjoint(d), NEW j \in Used(d) \ {i}
        PROVE  d[j].start + d[j].blocks <= e.start \/ e.start + e.blocks <= d[j].start
    BY <1>2, <2>1, RunFacts
  <2> QED  BY <1>2, <2>1, InRangeFacts DEF Placeable
<1> QED  BY <1>1, <1>3, <1>4, PlaceKeeps

\* Where fs_write puts file i: in the data area, and apart from the other files.
LEMMA WriteBasePlaceable ==
    ASSUME dir \in FsDir, InRange(dir), NEW i \in Used(dir), NEW len \in Nat,
           WriteBase(i, blocks_for(len)) # 0
    PROVE  /\ WriteBase(i, blocks_for(len)) \in Nat /\ WriteBase(i, blocks_for(len)) >= 1
           /\ WriteBase(i, blocks_for(len)) + blocks_for(len) <= DataEnd
           /\ Placeable(dir, i, [name |-> dir[i].name, start |-> WriteBase(i, blocks_for(len)),
                                 len |-> len, blocks |-> blocks_for(len)])
<1> DEFINE need == blocks_for(len)
           base == WriteBase(i, need)
           e == [name |-> dir[i].name, start |-> base, len |-> len, blocks |-> need]
<1>1. i \in File /\ dir[i] \in FsEntry /\ dir[i].name \in Nat \ {0}
  BY DEF Used, FsDir, FsEntry
<1>2. need \in Nat /\ need > 0 /\ len <= need
  BY BlocksFor
<1>3. /\ dir[i].start \in Nat /\ dir[i].blocks \in Nat /\ dir[i].start >= 1
      /\ dir[i].start + dir[i].blocks <= DataEnd
  BY InRangeFacts
<1> HIDE DEF need
<1>5. CASE dir[i].len = 0 /\ need <= dir[i].blocks
  <2>1. base = dir[i].start
    BY <1>5 DEF WriteBase
  <2> HIDE DEF base
  <2>2. base \in Nat /\ base >= 1 /\ base + need <= DataEnd
    BY <1>2, <1>3, <1>5, <2>1, SizeFacts
  <2>3. e \in FsEntry /\ e.name # 0 /\ e.start = base /\ e.len = len /\ e.blocks = need
    BY <1>1, <1>2, <2>2 DEF FsEntry
  <2> HIDE DEF e
  <2>4. ASSUME Disjoint(dir), NEW j \in Used(dir) \ {i}
        PROVE  dir[j].start + dir[j].blocks <= e.start \/ e.start + e.blocks <= dir[j].start
    <3>1. \/ dir[i].start + dir[i].blocks <= dir[j].start
          \/ dir[j].start + dir[j].blocks <= dir[i].start
      BY <2>4, RunFacts
    <3>2. dir[j].start \in Nat /\ dir[j].blocks \in Nat
      BY InRangeFacts
    <3> QED  BY <1>2, <1>3, <1>5, <2>1, <2>3, <3>1, <3>2
  <2>5. Placeable(dir, i, e)
    BY <1>2, <2>2, <2>3, <2>4 DEF Placeable
  <2> QED  BY <2>2, <2>5 DEF base, e, need
<1>6. CASE ~(dir[i].len = 0 /\ need <= dir[i].blocks)
  <2>1. base = alloc_run(dir, need)
    BY <1>6 DEF WriteBase
  <2>2. base # 0
    BY DEF need
  <2>3. base \in Nat /\ base >= 1 /\ base + need <= DataEnd
    <3>1. base \in Nat /\ (base # 0 => base \in 1..NBlocks /\ base + need <= DataEnd)
      BY <1>2, <2>1, AllocRunInRange
    <3> QED  BY <2>2, <3>1
  <2>4. Placeable(dir, i, [name |-> dir[i].name, start |-> base, len |-> len, blocks |-> need])
    BY <1>1, <1>2, <2>1, <2>2, AllocPlaceable
  <2> QED  BY <2>3, <2>4 DEF need
<1> QED  BY <1>5, <1>6
-----------------------------------------------------------------------------
(***************************************************************************)
(* Zlfs: the types of the volume, and disjointness of what is published,   *)
(* whatever the device does.                                               *)
(***************************************************************************)

FsOp == [at : {"idle", "data", "dir", "header", "sync"}, kind : {"none", "edit", "format1", "format0"},
         slot : {0, 1}, gen : 0..(GenMod - 1), dir : FsDir]

\* The types of the volume, runs inside the data area, and that a call begun
\* on a disjoint directory is about to publish a disjoint one.
VolumeOK ==
    /\ DiskOK(disk) /\ QueueOK(queue)
    /\ mounted \in BOOLEAN /\ dir \in FsDir /\ InRange(dir)
    /\ active \in {0, 1} /\ gen \in 0..(GenMod - 1)
    /\ op \in FsOp /\ InRange(op.dir)
    /\ Disjoint(dir) => Disjoint(op.dir)
    /\ op.at = "idle" => op = NoOp

LEMMA GenFacts ==
    /\ GenMod \in Nat /\ GenMod > 3 /\ GenMod % 2 = 0
    /\ 0 \in 0..(GenMod - 1) /\ 1 \in 0..(GenMod - 1)
    /\ GenMod \div 2 \in Nat /\ GenMod \div 2 > 1 /\ GenMod \div 2 < GenMod - 1
<1>1. GenMod \in Nat /\ GenMod > 2 /\ GenMod % 2 = 0
  BY SizesAssumption
<1>2. GenMod = 2 * (GenMod \div 2) /\ GenMod \div 2 \in Nat
  BY <1>1
<1> QED  BY <1>1, <1>2

LEMMA NextGenIs ==
    ASSUME NEW g \in 0..(GenMod - 1)
    PROVE  (g + 1) % GenMod = IF g + 1 < GenMod THEN g + 1 ELSE 0
<1>1. GenMod \in Nat /\ GenMod > 3
  BY GenFacts
<1>2. CASE g + 1 < GenMod
  BY <1>1, <1>2
<1>3. CASE g + 1 = GenMod
  BY <1>1, <1>3
<1> QED  BY <1>1, <1>2, <1>3

LEMMA NoOpOK == NoOp \in FsOp /\ NoOp.dir = NoDir /\ NoOp.at = "idle" /\ NoOp.kind = "none"
  BY NoDirOK, GenFacts DEF FsOp, NoOp

\* Every block of directory d is queued for slot s.
DirQueued(q, s, d) ==
    \A i \in File : \E k \in 1..Len(q) : q[k] = [addr |-> DirBlock(s, i), val |-> d[i]]
DirOp(kind, s, g, d) == [at |-> "dir", kind |-> kind, slot |-> s, gen |-> g, dir |-> d]

LEMMA DirWriteSlotFacts ==
    ASSUME NEW q, QueueOK(q), NEW kind, NEW s \in {0, 1}, NEW g, NEW d \in FsDir,
           DirWriteSlot(q, kind, s, g, d)
    PROVE  /\ QueueOK(queue')
           /\ op' = NoOp \/ (op' = DirOp(kind, s, g, d) /\ DirQueued(queue', s, d))
           /\ \E n \in 0..MaxFiles :
                /\ Merged(q, DirWrites(s, d), n, queue')
                /\ \A i \in File : (\A j \in 1..i : \E k \in 1..Len(q) : q[k].addr = DirBlock(s, j)) => i <= n
<1> DEFINE ws == DirWrites(s, d)
<1>1. /\ QueueOK(ws) /\ Len(ws) = MaxFiles
      /\ \A i \in File : ws[i] = [addr |-> DirBlock(s, i), val |-> d[i]]
  BY DirWritesOK
<1> HIDE DEF ws
<1>2. ASSUME NEW i \in File PROVE ws[i].addr = DirBlock(s, i)
  <2>1. ws[i] = [addr |-> DirBlock(s, i), val |-> d[i]]
    BY <1>1
  <2> QED  BY <2>1
<1>3. MaxFiles \in Nat /\ File = 1..MaxFiles
  BY SizeFacts DEF File
<1>4. /\ queue' = WriteBlocks(q, ws).queue
      /\ op' = IF WriteBlocks(q, ws).all THEN DirOp(kind, s, g, d) ELSE NoOp
  BY DEF DirWriteSlot, DirOp, ws
<1>5. PICK n \in 0..MaxFiles :
           /\ Merged(q, ws, n, queue')
           /\ WriteBlocks(q, ws).all = (n = MaxFiles)
           /\ \A i \in 1..MaxFiles :
                (\A j \in 1..i : \E k \in 1..Len(q) : q[k].addr = ws[j].addr) => i <= n
  BY <1>1, <1>4, WrittenFacts
<1>6. QueueOK(queue')
  BY <1>5 DEF Merged
<1>7. ASSUME WriteBlocks(q, ws).all PROVE DirQueued(queue', s, d)
  <2>1. n = MaxFiles
    BY <1>5, <1>7
  <2> QED  BY <1>1, <1>3, <1>5, <2>1 DEF DirQueued, Merged
<1>8. op' = NoOp \/ (op' = DirOp(kind, s, g, d) /\ DirQueued(queue', s, d))
  BY <1>4, <1>7
<1>9. ASSUME NEW i \in File, \A j \in 1..i : \E k \in 1..Len(q) : q[k].addr = DirBlock(s, j)
      PROVE  i <= n
  <2>1. \A j \in 1..i : j \in File
    BY <1>3
  <2>2. \A j \in 1..i : \E k \in 1..Len(q) : q[k].addr = ws[j].addr
    BY <1>2, <1>9, <2>1
  <2> QED  BY <1>3, <1>5, <2>2
<1> QED  BY <1>5, <1>6, <1>8, <1>9 DEF ws

LEMMA NextGenOK ==
    ASSUME gen \in 0..(GenMod - 1)
    PROVE  NextGen \in 0..(GenMod - 1)
  BY NextGenIs, GenFacts DEF NextGen

LEMMA FlushOK ==
    ASSUME VolumeOK, Flushed
    PROVE  DiskOK(disk')
  BY ViewOK DEF VolumeOK, Flushed

\* What a commit leaves, whether its blocks were taken or not.
LEMMA CommitOK ==
    ASSUME VolumeOK, NEW q, QueueOK(q), NEW d \in FsDir, InRange(d), Disjoint(dir) => Disjoint(d),
           DirCommit(q, d), DiskOK(disk'), UNCHANGED <<mounted, dir, active, gen>>
    PROVE  VolumeOK'
<1>1. 1 - active \in {0, 1} /\ NextGen \in 0..(GenMod - 1)
  BY NextGenOK DEF VolumeOK
<1>2. DirWriteSlot(q, "edit", 1 - active, NextGen, d)
  BY DEF DirCommit
<1>3. QueueOK(queue') /\ (op' = NoOp \/ op' = DirOp("edit", 1 - active, NextGen, d))
  BY <1>1, <1>2, DirWriteSlotFacts
<1>4. op' \in FsOp /\ (op'.dir = NoDir \/ op'.dir = d) /\ (op'.at = "idle" => op' = NoOp)
  <2>1. CASE op' = NoOp
    BY <2>1, NoOpOK
  <2>2. CASE op' = DirOp("edit", 1 - active, NextGen, d)
    BY <1>1, <2>2 DEF DirOp, FsOp
  <2> QED  BY <1>3, <2>1, <2>2
<1>5. InRange(op'.dir) /\ (Disjoint(dir) => Disjoint(op'.dir))
  BY <1>4, NoDirOK
<1> QED  BY <1>3, <1>4, <1>5 DEF VolumeOK

\* The actions of Step, one at a time.
LEMMA TypesInit == Init => VolumeOK
<1> SUFFICES ASSUME Init PROVE VolumeOK
  OBVIOUS
<1>1. DiskOK(disk)
  <2>1. DOMAIN disk = Addr /\ IsFunction(disk)
    BY DEF Init, IsFunction
  <2>2. disk[SB] = 0
    BY AddrFacts DEF Init, SB
  <2>3. \A s \in {0, 1} : disk[Header(s)] = [magic |-> FALSE, gen |-> 0, sum |-> 0]
    BY AddrFacts DEF Init, Header
  <2>4. \A s \in {0, 1} : disk[Header(s)].gen = 0
    BY <2>3
  <2>5. \A s \in {0, 1}, i \in File : disk[DirBlock(s, i)] = NoEntry
    BY AddrFacts DEF Init, DirBlock
  <2> QED  BY <2>1, <2>2, <2>4, <2>5, NoDirOK, GenFacts DEF DiskOK, BlockFits
<1> QED  BY <1>1, EmptyOK, NoDirOK, NoOpOK, GenFacts DEF Init, VolumeOK

LEMMA TypesMkfs ==
    ASSUME VolumeOK, fs_mkfs
    PROVE  VolumeOK'
<1>1. /\ QueueOK(SbWrite(0)) /\ Len(SbWrite(0)) = 1
      /\ mounted' = FALSE /\ dir' = NoDir /\ active' = 0 /\ gen' = 1 /\ disk' = disk
  BY SbWriteOK DEF fs_mkfs
<1>2. QueueOK(WriteBlocks(queue, SbWrite(0)).queue)
  BY <1>1, WrittenFacts DEF VolumeOK, Merged
<1>3. CASE WriteBlocks(queue, SbWrite(0)).all
  <2>1. DirWriteSlot(WriteBlocks(queue, SbWrite(0)).queue, "format1", 1, 0, NoDir)
    BY <1>3 DEF fs_mkfs
  <2>2. QueueOK(queue') /\ (op' = NoOp \/ op' = DirOp("format1", 1, 0, NoDir))
    BY <1>2, <2>1, NoDirOK, DirWriteSlotFacts
  <2>3. op' \in FsOp /\ op'.dir = NoDir /\ (op'.at = "idle" => op' = NoOp)
    <3>1. CASE op' = NoOp
      BY <3>1, NoOpOK
    <3>2. CASE op' = DirOp("format1", 1, 0, NoDir)
      BY <3>2, NoDirOK, GenFacts DEF DirOp, FsOp
    <3> QED  BY <2>2, <3>1, <3>2
  <2> QED  BY <1>1, <2>2, <2>3, NoDirOK, GenFacts DEF VolumeOK
<1>4. CASE ~WriteBlocks(queue, SbWrite(0)).all
  <2>1. queue' = queue /\ op' = op /\ Idle
    BY <1>4 DEF fs_mkfs, Call
  <2>2. op = NoOp
    BY <2>1 DEF VolumeOK, Idle
  <2> QED  BY <1>1, <2>1, <2>2, NoDirOK, NoOpOK, GenFacts DEF VolumeOK
<1> QED  BY <1>3, <1>4

LEMMA TypesCreate ==
    ASSUME VolumeOK, NEW n \in Names, NEW len \in 0..MaxRun, fs_create(n, len)
    PROVE  VolumeOK'
<1> DEFINE need == blocks_for(len)
           start == alloc_run(dir, need)
           e == [name |-> n, start |-> start, len |-> 0, blocks |-> need]
<1>1. need \in Nat \ {0} /\ n \in Nat \ {0}
  BY BlocksFor, SizeFacts, NamesAssumption
<1>2. start # 0
  BY DEF fs_create
<1>3. PICK i \in FirstFree(dir) : DirCommit(queue, [dir EXCEPT ![i] = e])
  BY DEF fs_create
<1>4. i \in File
  BY DEF FirstFree
<1> HIDE DEF need
<1>5. Placeable(dir, i, e)
  BY <1>1, <1>2, <1>4, AllocPlaceable DEF VolumeOK
<1> HIDE DEF e
<1>6. /\ [dir EXCEPT ![i] = e] \in FsDir /\ InRange([dir EXCEPT ![i] = e])
      /\ Disjoint(dir) => Disjoint([dir EXCEPT ![i] = e])
  BY <1>4, <1>5, PlaceKeeps DEF VolumeOK
<1>7. DiskOK(disk') /\ UNCHANGED <<mounted, dir, active, gen>> /\ QueueOK(queue)
  BY DEF fs_create, VolumeOK
<1> QED  BY <1>3, <1>6, <1>7, CommitOK

LEMMA TypesDelete ==
    ASSUME VolumeOK, NEW i \in File, fs_delete(i)
    PROVE  VolumeOK'
<1>1. /\ [dir EXCEPT ![i] = NoEntry] \in FsDir /\ InRange([dir EXCEPT ![i] = NoEntry])
      /\ Disjoint(dir) => Disjoint([dir EXCEPT ![i] = NoEntry])
  BY DeleteKeeps DEF VolumeOK
<1>2. /\ DirCommit(queue, [dir EXCEPT ![i] = NoEntry])
      /\ DiskOK(disk') /\ UNCHANGED <<mounted, dir, active, gen>> /\ QueueOK(queue)
  BY DEF fs_delete, VolumeOK
<1> QED  BY <1>1, <1>2, CommitOK

LEMMA TypesRename ==
    ASSUME VolumeOK, NEW i \in File, NEW n \in Names, fs_rename(i, n)
    PROVE  VolumeOK'
<1>1. i \in Used(dir) /\ n \in Nat \ {0}
  BY NamesAssumption DEF fs_rename
<1>2. /\ [dir EXCEPT ![i].name = n] \in FsDir /\ InRange([dir EXCEPT ![i].name = n])
      /\ Disjoint(dir) => Disjoint([dir EXCEPT ![i].name = n])
  BY <1>1, RenameKeeps DEF VolumeOK
<1>3. /\ DirCommit(queue, [dir EXCEPT ![i].name = n])
      /\ DiskOK(disk') /\ UNCHANGED <<mounted, dir, active, gen>> /\ QueueOK(queue)
  BY DEF fs_rename, VolumeOK
<1> QED  BY <1>2, <1>3, CommitOK

\* The directory fs_write is about to publish, and what it queues first.
Rewritten(i, len) ==
    [dir EXCEPT ![i] = [name |-> dir[i].name, start |-> WriteBase(i, blocks_for(len)),
                        len |-> len, blocks |-> blocks_for(len)]]
DataOp(d) == [at |-> "data", kind |-> "edit", slot |-> 0, gen |-> 0, dir |-> d]

LEMMA FsWriteFacts ==
    ASSUME VolumeOK, NEW i \in File, NEW len \in 0..MaxRun, NEW v \in Data, fs_write(i, len, v)
    PROVE  /\ Rewritten(i, len) \in FsDir /\ InRange(Rewritten(i, len))
           /\ Disjoint(dir) => Disjoint(Rewritten(i, len))
           /\ QueueOK(queue') /\ (op' = NoOp \/ op' = DataOp(Rewritten(i, len)))
           /\ \E ws : \E k \in 0..Len(ws) :
                /\ QueueOK(ws) /\ Merged(queue, ws, k, queue')
                /\ \A j \in 1..Len(ws) : \E b \in 1..NBlocks : ws[j].addr = DataBlock(b)
<1> DEFINE need == blocks_for(len)
           base == WriteBase(i, need)
           ws == DataWrites(base, need, len, v)
           e == [name |-> dir[i].name, start |-> base, len |-> len, blocks |-> need]
           w == WriteBlocks(queue, ws)
<1>1. i \in Used(dir) /\ len \in Nat /\ need \in Nat
  BY SizeFacts, BlocksFor DEF fs_write
<1>2. base # 0 /\ queue' = w.queue /\ op' = IF w.all THEN DataOp([dir EXCEPT ![i] = e]) ELSE NoOp
  BY DEF fs_write, DataWrites, DataOp
<1>3. base \in Nat /\ base >= 1 /\ base + need <= DataEnd /\ Placeable(dir, i, e)
  BY <1>1, <1>2, WriteBasePlaceable DEF VolumeOK
<1>4. /\ [dir EXCEPT ![i] = e] \in FsDir /\ InRange([dir EXCEPT ![i] = e])
      /\ Disjoint(dir) => Disjoint([dir EXCEPT ![i] = e])
  <2> HIDE DEF e
  <2> QED  BY <1>3, PlaceKeeps DEF VolumeOK
<1>5. Rewritten(i, len) = [dir EXCEPT ![i] = e]
  BY DEF Rewritten
<1> HIDE DEF need, base, e
<1>6. QueueOK(ws) /\ Len(ws) = need /\ \A j \in 1..need : \E b \in 1..NBlocks : ws[j].addr = DataBlock(b)
  BY <1>1, <1>3, DataWritesOK
<1> HIDE DEF ws
<1>7. PICK k \in 0..Len(ws) : Merged(queue, ws, k, queue')
  BY <1>2, <1>6, WrittenFacts DEF VolumeOK
<1>8. QueueOK(queue')
  BY <1>7 DEF Merged
<1>9. \E x : \E j \in 0..Len(x) :
                /\ QueueOK(x) /\ Merged(queue, x, j, queue')
                /\ \A l \in 1..Len(x) : \E b \in 1..NBlocks : x[l].addr = DataBlock(b)
  BY <1>6, <1>7
<1> QED  BY <1>2, <1>4, <1>5, <1>8, <1>9

LEMMA TypesWrite ==
    ASSUME VolumeOK, NEW i \in File, NEW len \in 0..MaxRun, NEW v \in Data, fs_write(i, len, v)
    PROVE  VolumeOK'
<1> DEFINE d == Rewritten(i, len)
<1>1. /\ d \in FsDir /\ InRange(d) /\ (Disjoint(dir) => Disjoint(d))
      /\ QueueOK(queue') /\ (op' = NoOp \/ op' = DataOp(d))
  BY FsWriteFacts
<1>2. UNCHANGED <<disk, mounted, dir, active, gen>>
  BY DEF fs_write
<1> HIDE DEF d
<1>3. op' \in FsOp /\ (op'.dir = NoDir \/ op'.dir = d) /\ (op'.at = "idle" => op' = NoOp)
  <2>1. CASE op' = NoOp
    BY <2>1, NoOpOK
  <2>2. CASE op' = DataOp(d)
    BY <1>1, <2>2, GenFacts DEF DataOp, FsOp
  <2> QED  BY <1>1, <2>1, <2>2
<1>4. InRange(op'.dir) /\ (Disjoint(dir) => Disjoint(op'.dir))
  BY <1>1, <1>3, NoDirOK
<1> QED  BY <1>1, <1>2, <1>3, <1>4 DEF VolumeOK

LEMMA TypesFlushed ==
    ASSUME VolumeOK, DataFlushed \/ DirFlushed \/ CommitFlushed \/ SyncFlushed
    PROVE  VolumeOK'
<1>1. ASSUME DataFlushed PROVE VolumeOK'
  <2>1. DiskOK(disk') /\ DirCommit(<<>>, op.dir) /\ UNCHANGED <<mounted, dir, active, gen>>
    BY <1>1, FlushOK DEF DataFlushed
  <2>2. op.dir \in FsDir /\ InRange(op.dir) /\ (Disjoint(dir) => Disjoint(op.dir))
    BY DEF VolumeOK, FsOp
  <2> QED  BY <2>1, <2>2, EmptyOK, CommitOK
<1>2. ASSUME DirFlushed PROVE VolumeOK'
  <2>1. DiskOK(disk') /\ queue' = HeaderWrite(op.slot, op.gen, op.dir) /\ op' = [op EXCEPT !.at = "header"]
        /\ UNCHANGED <<mounted, dir, active, gen>>
    BY <1>2, FlushOK DEF DirFlushed
  <2>2. op.slot \in {0, 1} /\ op.gen \in 0..(GenMod - 1)
    BY DEF VolumeOK, FsOp
  <2>3. QueueOK(queue')
    BY <2>1, <2>2, HeaderWriteOK
  <2>4. op' \in FsOp /\ op'.dir = op.dir /\ op'.at = "header"
    BY <2>1 DEF VolumeOK, FsOp
  <2> QED  BY <2>1, <2>3, <2>4 DEF VolumeOK
<1>3. ASSUME CommitFlushed PROVE VolumeOK'
  <2>1. DiskOK(disk') /\ queue' = <<>> /\ op' = NoOp /\ dir' = op.dir /\ active' = op.slot
        /\ gen' = op.gen /\ mounted' = mounted
    BY <1>3, FlushOK DEF CommitFlushed
  <2>2. op.slot \in {0, 1} /\ op.gen \in 0..(GenMod - 1) /\ op.dir \in FsDir /\ InRange(op.dir)
    BY DEF VolumeOK, FsOp
  <2> QED  BY <2>1, <2>2, EmptyOK, NoOpOK, NoDirOK DEF VolumeOK
<1>4. ASSUME SyncFlushed PROVE VolumeOK'
  <2>1. DiskOK(disk') /\ queue' = <<>> /\ op' = NoOp /\ UNCHANGED <<mounted, dir, active, gen>>
    BY <1>4, FlushOK DEF SyncFlushed
  <2> QED  BY <2>1, EmptyOK, NoOpOK, NoDirOK DEF VolumeOK
<1> QED  BY <1>1, <1>2, <1>3, <1>4

LEMMA TypesFormat ==
    ASSUME VolumeOK, FormatFlushed
    PROVE  VolumeOK'
<1>1. DiskOK(disk') /\ UNCHANGED <<dir, active, gen>>
  BY FlushOK DEF FormatFlushed
<1>2. CASE op.kind = "format1"
  <2>1. DirWriteSlot(<<>>, "format0", 0, 1, NoDir) /\ mounted' = mounted
    BY <1>2 DEF FormatFlushed
  <2>2. QueueOK(queue') /\ (op' = NoOp \/ op' = DirOp("format0", 0, 1, NoDir))
    BY <2>1, EmptyOK, NoDirOK, DirWriteSlotFacts
  <2>3. op' \in FsOp /\ op'.dir = NoDir /\ (op'.at = "idle" => op' = NoOp)
    <3>1. CASE op' = NoOp
      BY <3>1, NoOpOK
    <3>2. CASE op' = DirOp("format0", 0, 1, NoDir)
      BY <3>2, NoDirOK, GenFacts DEF DirOp, FsOp
    <3> QED  BY <2>2, <3>1, <3>2
  <2> QED  BY <1>1, <2>1, <2>2, <2>3, NoDirOK DEF VolumeOK
<1>3. CASE op.kind # "format1"
  <2>1. queue' = SbWrite(1) /\ op' = NoOp /\ mounted' = TRUE
    BY <1>3 DEF FormatFlushed
  <2> QED  BY <1>1, <2>1, SbWriteOK, NoOpOK, NoDirOK DEF VolumeOK
<1> QED  BY <1>2, <1>3

LEMMA TypesFails ==
    ASSUME VolumeOK, FlushFails
    PROVE  VolumeOK'
<1>1. PICK k \in 0..Len(queue) - 1 :
        /\ disk' \in {Cache!Drained(disk, queue, k), Cache!Drained(disk, queue, k + 1)}
        /\ queue' = Cache!DropFirst(queue, k)
  BY DEF FlushFails
<1>2. Len(queue) \in Nat
  BY EmptyOK DEF VolumeOK, QueueOK, IsQueue
<1>3. k \in 0..Len(queue) /\ k + 1 \in 0..Len(queue)
  BY <1>2
<1>4. DiskOK(disk')
  BY <1>1, <1>3, StoredOK DEF VolumeOK
<1>5. QueueOK(queue')
  BY <1>1, <1>3, DropFirstOK DEF VolumeOK
<1>6. op' = NoOp /\ UNCHANGED <<mounted, dir, active, gen>>
  BY DEF FlushFails
<1> QED  BY <1>4, <1>5, <1>6, NoOpOK, NoDirOK DEF VolumeOK

LEMMA TypesCut ==
    ASSUME VolumeOK, PowerCut
    PROVE  VolumeOK'
<1>1. PICK k \in 0..(IF Idle THEN 0 ELSE Len(queue)) : disk' = Cache!Drained(disk, queue, k)
  BY DEF PowerCut
<1>2. Len(queue) \in Nat
  BY DEF VolumeOK, QueueOK, IsQueue
<1>3. k \in 0..Len(queue)
  BY <1>1, <1>2
<1>4. DiskOK(disk')
  BY <1>1, <1>3, StoredOK DEF VolumeOK
<1>5. queue' = <<>> /\ op' = NoOp /\ mounted' = FALSE /\ dir' = NoDir /\ active' = 0 /\ gen' = 0
  BY DEF PowerCut
<1> QED  BY <1>4, <1>5, EmptyOK, NoOpOK, NoDirOK, GenFacts DEF VolumeOK

\* dir_load takes at most one of the two slots.
LEMMA ChosenIsOne ==
    ASSUME NEW m, NEW r, NEW s \in {0, 1}, s \in Chosen(m, r), NEW t \in {0, 1}, t \in Chosen(m, r)
    PROVE  s = t
<1>1. CASE s = 1 /\ t = 0
  BY <1>1 DEF Chosen
<1>2. CASE s = 0 /\ t = 1
  BY <1>2 DEF Chosen
<1> QED  BY <1>1, <1>2

\* A mount that succeeds: the slot taken, and what was read of it.
LEMMA MountFacts ==
    ASSUME fs_mount, mounted'
    PROVE  \E lost \in SUBSET {{SB}, SlotBlocks(0), SlotBlocks(1)}, s \in {0, 1} :
            /\ \A as \in lost : Unreadable(as)
            /\ \A as \in {{SB}, SlotBlocks(0), SlotBlocks(1)} \ lost : ~MustBeUnreadable(as)
            /\ Cache!View(disk, queue)[SB] # 0
            /\ s \in Chosen(Cache!View(disk, queue), {t \in {0, 1} : SlotBlocks(t) \notin lost})
            /\ InRange(SlotDir(Cache!View(disk, queue), s))
            /\ dir' = SlotDir(Cache!View(disk, queue), s) /\ active' = s
            /\ gen' = Cache!View(disk, queue)[Header(s)].gen
<1> DEFINE m == Cache!View(disk, queue)
           R(lost) == {t \in {0, 1} : SlotBlocks(t) \notin lost}
           All == {{SB}, SlotBlocks(0), SlotBlocks(1)}
<1>1. PICK lost \in SUBSET All :
        /\ \A as \in lost : Unreadable(as)
        /\ \A as \in All \ lost : ~MustBeUnreadable(as)
        /\ why' = IF {SB} \in lost THEN "unreadable"
                  ELSE IF m[SB] = 0 THEN "unformatted"
                  ELSE IF Chosen(m, R(lost)) = {} THEN "dirload"
                  ELSE IF \A s \in Chosen(m, R(lost)) : ~InRange(SlotDir(m, s)) THEN "direntry"
                  ELSE "ok"
        /\ mounted' = (why' = "ok")
        /\ IF mounted'
           THEN \E s \in Chosen(m, R(lost)) :
                dir' = SlotDir(m, s) /\ active' = s /\ gen' = m[Header(s)].gen
           ELSE dir' = NoDir /\ active' = 0 /\ gen' = 0
  BY DEF fs_mount
<1> HIDE DEF m, All
<1>2. R(lost) \subseteq {0, 1} /\ Chosen(m, R(lost)) \subseteq {0, 1}
  BY DEF Chosen
<1> HIDE DEF R
<1>3. PICK s \in Chosen(m, R(lost)) : dir' = SlotDir(m, s) /\ active' = s /\ gen' = m[Header(s)].gen
  BY <1>1
<1>4. why' = "ok"
  BY <1>1
<1>5. m[SB] # 0 /\ \E t \in Chosen(m, R(lost)) : InRange(SlotDir(m, t))
  BY <1>1, <1>4
<1>6. InRange(SlotDir(m, s))
  BY <1>2, <1>5, ChosenIsOne
<1> QED  BY <1>1, <1>2, <1>3, <1>5, <1>6 DEF m, R, All

LEMMA SlotDirOK ==
    ASSUME NEW m, DiskOK(m), NEW s \in {0, 1}
    PROVE  SlotDir(m, s) \in FsDir /\ m[Header(s)].gen \in 0..(GenMod - 1)
<1>1. \A i \in File : m[DirBlock(s, i)] \in FsEntry
  BY AddrFacts DEF DiskOK, BlockFits
<1> QED  BY <1>1, AddrFacts DEF SlotDir, FsDir, DiskOK, BlockFits

LEMMA TypesMount ==
    ASSUME VolumeOK, fs_mount
    PROVE  VolumeOK'
<1>1. UNCHANGED <<disk, queue, op>> /\ op = NoOp /\ mounted' \in BOOLEAN
  BY DEF fs_mount, Idle, VolumeOK
<1>2. dir' \in FsDir /\ InRange(dir') /\ active' \in {0, 1} /\ gen' \in 0..(GenMod - 1)
  <2>1. CASE mounted'
    <3>1. DiskOK(Cache!View(disk, queue))
      BY ViewOK DEF VolumeOK
    <3>2. PICK s \in {0, 1} :
            /\ InRange(SlotDir(Cache!View(disk, queue), s))
            /\ dir' = SlotDir(Cache!View(disk, queue), s) /\ active' = s
            /\ gen' = Cache!View(disk, queue)[Header(s)].gen
      BY <2>1, MountFacts
    <3> QED  BY <3>1, <3>2, SlotDirOK
  <2>2. CASE ~mounted'
    <3>1. dir' = NoDir /\ active' = 0 /\ gen' = 0
      BY <2>2 DEF fs_mount
    <3> QED  BY <3>1, NoDirOK, GenFacts
  <2> QED  BY <2>1, <2>2
<1> QED  BY <1>1, <1>2, NoOpOK, NoDirOK DEF VolumeOK

LEMMA TypesKept == VolumeOK /\ [Next]_vars => VolumeOK'
<1> SUFFICES ASSUME VolumeOK, [Next]_vars PROVE VolumeOK'
  OBVIOUS
<1>1. CASE UNCHANGED vars
  BY <1>1 DEF vars, VolumeOK
<1>2. CASE fs_sync
  <2>1. UNCHANGED <<disk, queue, mounted, dir, active, gen>> /\ op' = [NoOp EXCEPT !.at = "sync"]
    BY <1>2 DEF fs_sync
  <2>2. op' \in FsOp /\ op'.dir = NoDir /\ op'.at # "idle"
    BY <2>1, NoOpOK DEF FsOp
  <2> QED  BY <2>1, <2>2, NoDirOK DEF VolumeOK
<1>3. CASE fs_mkfs \/ fs_mount
  BY <1>3, TypesMkfs, TypesMount
<1>4. CASE \E n \in Names, len \in 0..MaxRun : fs_create(n, len)
  BY <1>4, TypesCreate
<1>5. CASE \E i \in File, len \in 0..MaxRun, v \in Data : fs_write(i, len, v)
  BY <1>5, TypesWrite
<1>6. CASE \E i \in File : fs_delete(i) \/ \E n \in Names : fs_rename(i, n)
  BY <1>6, TypesDelete, TypesRename
<1>7. CASE DataFlushed \/ DirFlushed \/ CommitFlushed \/ SyncFlushed
  BY <1>7, TypesFlushed
<1>8. CASE FormatFlushed \/ FlushFails \/ PowerCut
  BY <1>8, TypesFormat, TypesFails, TypesCut
<1> QED  BY <1>1, <1>2, <1>3, <1>4, <1>5, <1>6, <1>7, <1>8 DEF Next, Step

(* fs.c:576 to :1070: whatever the device stores, refuses or loses, the    *)
(* volume in memory is one the code may work with: entries are names with  *)
(* runs inside the data area, the active slot and the generation are in    *)
(* range, and a call never publishes files that share a block unless the   *)
(* directory it started from already had such files.                       *)
THEOREM VolumeAlwaysOK == Spec => []VolumeOK
  BY TypesInit, TypesKept, PTL DEF Spec

(* alloc_run, fs.c:723: for every mounted directory whose files share no   *)
(* block and every length, the walk from gap to gap finds the lowest place *)
(* where the run fits, and gives up only when there is none.               *)
THEOREM AllocAlwaysFirstFit == Spec => []AllocIsFirstFit
<1>1. VolumeOK => AllocIsFirstFit
  <2> SUFFICES ASSUME VolumeOK, Disjoint(dir), NEW need \in 1..NBlocks
               PROVE  FirstFit(dir, need, alloc_run(dir, need))
    BY DEF AllocIsFirstFit
  <2>1. need \in Nat \ {0}
    BY SizeFacts
  <2> QED  BY <2>1, AllocRunFirstFit DEF VolumeOK
<1> QED  BY <1>1, VolumeAlwaysOK, PTL
-----------------------------------------------------------------------------
(***************************************************************************)
(* Zlfs: what a disk and its queue of writes promise of the next mount.    *)
(***************************************************************************)

NoHeaders(q) == \A k \in 1..Len(q) : q[k].addr # Header(0) /\ q[k].addr # Header(1)
Blanks(e) == e.addr = SB /\ e.val = 0

\* Nothing queued changes what a mount reads of slot c.
Clear(q, c) == NoHeaders(q) /\ \A k \in 1..Len(q), i \in File : q[k].addr # DirBlock(c, i)

\* The blocks of slot 1 are queued from the first one on, behind a superblock
\* that says the volume is blank.
Guarded(q) ==
    /\ NoHeaders(q)
    /\ \A k \in 1..Len(q), i \in File : q[k].addr = DirBlock(1, i) =>
        \E j \in 1..(k - 1) : Blanks(q[j])
    /\ \A i \in File : \A j \in 1..i : (\E k \in 1..Len(q) : q[k].addr = DirBlock(1, i)) =>
        \E k \in 1..Len(q) : q[k].addr = DirBlock(1, j)

\* Slot c holds a whole disjoint directory, one generation newer than the other.
Vouched(m, c, g) ==
    /\ m[Header(c)] = [magic |-> TRUE, gen |-> g, sum |-> dir_sum(SlotDir(m, c))]
    /\ (m[Header(1 - c)].gen + 1) % GenMod = g
    /\ Disjoint(SlotDir(m, c))
Newest(m, c) == Vouched(m, c, m[Header(c)].gen)

Blanked(m, q) == m[SB] = 0 /\ \A k \in 1..Len(q) : q[k].addr = SB => q[k].val = 0

\* However much of the queue is stored, what is mounted then is blank or disjoint.
Sound(m, q) ==
    \/ Blanked(m, q)
    \/ Newest(m, 0) /\ Clear(q, 0)
    \/ Newest(m, 1) /\ Guarded(q)

LEMMA VouchedIsNewest ==
    ASSUME NEW m, NEW c \in {0, 1}, NEW g, Vouched(m, c, g)
    PROVE  m[Header(c)].gen = g /\ Newest(m, c)
  BY DEF Vouched, Newest

LEMMA ClearSound ==
    ASSUME NEW m, NEW q, NEW c \in {0, 1}, Newest(m, c), Clear(q, c)
    PROVE  Sound(m, q)
<1>1. CASE c = 0
  BY <1>1 DEF Sound
<1>2. CASE c = 1
  BY <1>2 DEF Sound, Clear, Guarded
<1> QED  BY <1>1, <1>2

LEMMA SoundEmpty ==
    ASSUME NEW m, NEW q, Sound(m, q)
    PROVE  Sound(m, <<>>)
<1>1. Len(<<>>) = 0 /\ 1..0 = {}
  BY EmptyOK
<1> QED  BY <1>1 DEF Sound, Blanked, Clear, Guarded, NoHeaders

\* A block not among the first k of the queue is on r as it was on m.
LEMMA KeptBlock ==
    ASSUME NEW m, NEW q, DiskOK(m), QueueOK(q), NEW k \in 0..Len(q), NEW a \in Addr,
           \A j \in 1..k : q[j].addr # a
    PROVE  Cache!Drained(m, q, k)[a] = m[a]
  BY StoredOK DEF Stored, DiskOK

LEMMA VouchedStored ==
    ASSUME NEW m, NEW q, DiskOK(m), QueueOK(q), NEW k \in 0..Len(q), NEW c \in {0, 1}, NEW g,
           Vouched(m, c, g), NoHeaders(q),
           \A j \in 1..k, i \in File : q[j].addr # DirBlock(c, i)
    PROVE  /\ Vouched(Cache!Drained(m, q, k), c, g)
           /\ SlotDir(Cache!Drained(m, q, k), c) = SlotDir(m, c)
<1> DEFINE r == Cache!Drained(m, q, k)
<1>1. \A j \in 1..k : j \in 1..Len(q)
  BY DEF QueueOK, IsQueue
<1>2. r[Header(0)] = m[Header(0)] /\ r[Header(1)] = m[Header(1)]
  BY <1>1, KeptBlock, AddrFacts DEF NoHeaders
<1>3. \A i \in File : r[DirBlock(c, i)] = m[DirBlock(c, i)]
  BY KeptBlock, AddrFacts
<1> HIDE DEF r
<1>4. SlotDir(r, c) = SlotDir(m, c)
  BY <1>3 DEF SlotDir
<1>5. r[Header(c)] = m[Header(c)] /\ r[Header(1 - c)] = m[Header(1 - c)]
  <2>1. c = 0 \/ c = 1
    OBVIOUS
  <2>2. 1 - 0 = 1 /\ 1 - 1 = 0
    OBVIOUS
  <2> QED  BY <1>2, <2>1, <2>2
<1> QED  BY <1>4, <1>5 DEF Vouched, r

LEMMA BlankedStored ==
    ASSUME NEW m, NEW q, DiskOK(m), QueueOK(q), NEW k \in 0..Len(q),
           (m[SB] = 0 /\ \A j \in 1..k : q[j].addr = SB => q[j].val = 0)
           \/ \E j \in 1..k : Blanks(q[j])
    PROVE  Cache!Drained(m, q, k)[SB] = 0
<1> DEFINE r == Cache!Drained(m, q, k)
<1>1. \A j \in 1..k : j \in 1..Len(q)
  BY DEF QueueOK, IsQueue
<1>2. \A j \in 1..k : q[j].addr \in DOMAIN m => r[q[j].addr] = q[j].val
  BY StoredOK DEF Stored
<1>3. SB \in Addr /\ SB \in DOMAIN m
  BY AddrFacts DEF DiskOK
<1> HIDE DEF r
<1>4. CASE \E j \in 1..k : q[j].addr = SB
  <2>1. PICK j \in 1..k : q[j].addr = SB
    BY <1>4
  <2>2. r[SB] = q[j].val
    BY <1>2, <1>3, <2>1
  <2>3. q[j].val = 0
    <3>1. CASE \E l \in 1..k : Blanks(q[l])
      <4>1. PICK l \in 1..k : Blanks(q[l])
        BY <3>1
      <4>2. l = j
        BY <1>1, <2>1, <4>1 DEF QueueOK, Distinct, Blanks
      <4> QED  BY <4>1, <4>2 DEF Blanks
    <3> QED  BY <2>1, <3>1
  <2> QED  BY <2>2, <2>3 DEF r
<1>5. CASE \A j \in 1..k : q[j].addr # SB
  <2>1. m[SB] = 0
    BY <1>5 DEF Blanks
  <2> QED  BY <1>3, <1>5, <2>1, KeptBlock
<1> QED  BY <1>4, <1>5

\* Storing k blocks and forgetting l of them, in a flush that stops or ends.
LEMMA SoundStored ==
    ASSUME NEW m, NEW q, DiskOK(m), QueueOK(q), NEW k \in 0..Len(q), NEW l \in 0..k,
           NoHeaders(q), Sound(m, q)
    PROVE  Sound(Cache!Drained(m, q, k), Cache!DropFirst(q, l)) /\ NoHeaders(Cache!DropFirst(q, l))
<1> DEFINE r == Cache!Drained(m, q, k)
           p == Cache!DropFirst(q, l)
<1>1. Len(q) \in Nat /\ k \in Nat /\ l \in Nat /\ l <= k /\ k <= Len(q)
  BY DEF QueueOK, IsQueue
<1>2. /\ QueueOK(p) /\ Len(p) = Len(q) - l
      /\ \A i \in 1..Len(p) : l + i \in 1..Len(q) /\ p[i] = q[l + i]
  <2>1. l \in 0..Len(q)
    BY <1>1
  <2>2. /\ QueueOK(p) /\ Len(p) = Len(q) - l
        /\ \A i \in 1..(Len(q) - l) : l + i \in 1..Len(q) /\ p[i] = q[l + i]
    BY <2>1, DropFirstOK
  <2> HIDE DEF p
  <2> QED  BY <2>2
<1>3. ASSUME NEW j \in 1..Len(q), j > l PROVE \E i \in 1..Len(p) : i = j - l /\ p[i] = q[j]
  <2>1. j - l \in 1..Len(p) /\ l + (j - l) = j
    BY <1>1, <1>2, <1>3
  <2> QED  BY <1>2, <2>1
<1> HIDE DEF r, p
<1>4. NoHeaders(p)
  BY <1>2 DEF NoHeaders
<1>5. CASE \E j \in 1..k : Blanks(q[j])
  <2>1. r[SB] = 0
    BY <1>5, BlankedStored DEF r
  <2>2. ASSUME NEW i \in 1..Len(p), p[i].addr = SB PROVE p[i].val = 0
    <3>1. PICK b \in 1..k : Blanks(q[b])
      BY <1>5
    <3>2. b \in 1..Len(q) /\ l + i \in 1..Len(q) /\ q[l + i].addr = SB /\ q[b].addr = SB
      BY <1>1, <1>2, <2>2, <3>1 DEF Blanks
    <3>3. l + i = b
      BY <3>2 DEF QueueOK, Distinct
    <3> QED  BY <1>2, <3>1, <3>3 DEF Blanks
  <2> QED  BY <1>4, <2>1, <2>2 DEF Sound, Blanked, r, p
<1>6. CASE Blanked(m, q)
  <2>1. r[SB] = 0
    BY <1>1, <1>6, BlankedStored DEF r, Blanked
  <2>2. \A i \in 1..Len(p) : p[i].addr = SB => p[i].val = 0
    BY <1>2, <1>6 DEF Blanked
  <2> QED  BY <1>4, <2>1, <2>2 DEF Sound, Blanked, r, p
<1>7. CASE Newest(m, 0) /\ Clear(q, 0)
  <2>1. Vouched(r, 0, m[Header(0)].gen)
    BY <1>1, <1>7, VouchedStored DEF r, Clear, Newest
  <2>2. Clear(p, 0)
    BY <1>2, <1>4, <1>7 DEF Clear
  <2> QED  BY <1>4, <2>1, <2>2, VouchedIsNewest DEF Sound, r, p
<1>8. CASE Newest(m, 1) /\ Guarded(q) /\ ~\E j \in 1..k : Blanks(q[j])
  <2>1. ASSUME NEW j \in 1..Len(q), NEW i \in File, q[j].addr = DirBlock(1, i) 
        PROVE  \E b \in (k + 1)..(j - 1) : Blanks(q[b])
    <3>1. PICK b \in 1..(j - 1) : Blanks(q[b])
      BY <1>8, <2>1 DEF Guarded
    <3>2. b \notin 1..k
      BY <1>8, <3>1
    <3> QED  BY <1>1, <3>1, <3>2
  <2>2. \A j \in 1..k, i \in File : q[j].addr # DirBlock(1, i)
    BY <1>1, <2>1
  <2>3. Vouched(r, 1, m[Header(1)].gen)
    BY <1>8, <2>2, VouchedStored DEF r, Newest
  <2>4. ASSUME NEW a \in 1..Len(p), NEW i \in File, p[a].addr = DirBlock(1, i)
        PROVE  \E b \in 1..(a - 1) : Blanks(p[b])
    <3>1. l + a \in 1..Len(q) /\ q[l + a].addr = DirBlock(1, i)
      BY <1>2, <2>4
    <3>2. PICK b \in (k + 1)..(l + a - 1) : Blanks(q[b])
      BY <2>1, <3>1
    <3>3. b \in 1..Len(q) /\ b > l /\ b - l \in 1..(a - 1)
      BY <1>1, <1>2, <3>1, <3>2
    <3>4. p[b - l] = q[b]
      BY <1>3, <3>3
    <3> QED  BY <3>2, <3>3, <3>4
  <2>5. ASSUME NEW i \in File, NEW j \in 1..i, \E a \in 1..Len(p) : p[a].addr = DirBlock(1, i)
        PROVE  \E a \in 1..Len(p) : p[a].addr = DirBlock(1, j)
    <3>1. PICK a \in 1..Len(p) : p[a].addr = DirBlock(1, i)
      BY <2>5
    <3>2. l + a \in 1..Len(q) /\ q[l + a].addr = DirBlock(1, i)
      BY <1>2, <3>1
    <3>3. PICK b \in 1..Len(q) : q[b].addr = DirBlock(1, j)
      BY <1>8, <3>2 DEF Guarded
    <3>4. j \in File
      BY SizeFacts DEF File
    <3>5. b > l
      BY <1>1, <2>2, <3>3, <3>4
    <3> QED  BY <1>3, <3>3, <3>5
  <2>6. Guarded(p)
    BY <1>4, <2>4, <2>5 DEF Guarded
  <2> QED  BY <1>4, <2>3, <2>6, VouchedIsNewest DEF Sound, r, p
<1> QED  BY <1>5, <1>6, <1>7, <1>8 DEF Sound

LEMMA ClearMerged ==
    ASSUME NEW q, NEW ws, NEW n \in 0..Len(ws), NEW r, Merged(q, ws, n, r), NEW c \in {0, 1},
           QueueOK(ws), Clear(q, c), Clear(ws, c)
    PROVE  Clear(r, c)
<1>1. \A i \in 1..n : i \in 1..Len(ws)
  BY DEF QueueOK, IsQueue
<1>2. \A k \in 1..Len(r) : (\E j \in 1..Len(q) : r[k] = q[j]) \/ \E j \in 1..Len(ws) : r[k] = ws[j]
  BY <1>1 DEF Merged
<1> QED  BY <1>2 DEF Clear, NoHeaders

LEMMA NoHeadersMerged ==
    ASSUME NEW q, NEW ws, NEW n \in 0..Len(ws), NEW r, Merged(q, ws, n, r),
           QueueOK(ws), NoHeaders(q), NoHeaders(ws)
    PROVE  NoHeaders(r)
<1>1. \A i \in 1..n : i \in 1..Len(ws)
  BY DEF QueueOK, IsQueue
<1>2. \A k \in 1..Len(r) : (\E j \in 1..Len(q) : r[k] = q[j]) \/ \E j \in 1..Len(ws) : r[k] = ws[j]
  BY <1>1 DEF Merged
<1> QED  BY <1>2 DEF NoHeaders

LEMMA DirWritesClear ==
    ASSUME NEW s \in {0, 1}, NEW d \in FsDir
    PROVE  /\ NoHeaders(DirWrites(s, d)) /\ Clear(DirWrites(s, d), 1 - s)
           /\ \A i \in 1..Len(DirWrites(s, d)) : DirWrites(s, d)[i].addr # SB
<1> DEFINE ws == DirWrites(s, d)
<1>1. Len(ws) = MaxFiles /\ File = 1..MaxFiles
  BY DirWritesOK DEF File
<1>2. ASSUME NEW i \in File PROVE ws[i].addr = DirBlock(s, i)
  <2>1. ws[i] = [addr |-> DirBlock(s, i), val |-> d[i]]
    BY DirWritesOK
  <2> HIDE DEF ws
  <2> QED  BY <2>1
<1> HIDE DEF ws
<1>3. NoHeaders(ws) /\ \A i \in 1..Len(ws) : ws[i].addr # SB
  BY <1>1, <1>2, AddrFacts DEF NoHeaders
<1>4. 1 - s \in {0, 1} /\ 1 - s # s
  OBVIOUS
<1>5. \A k \in 1..Len(ws), i \in File : ws[k].addr # DirBlock(1 - s, i)
  BY <1>1, <1>2, <1>4, AddrFacts
<1> QED  BY <1>3, <1>5 DEF Clear, ws

\* fs_mkfs queues a blank superblock, then slot 1: its blocks still queued from
\* an earlier call are accepted again, and so move behind the superblock.
LEMMA SoundMkfs ==
    ASSUME NEW m, NEW q, QueueOK(q), NoHeaders(q), Sound(m, q),
           NEW r, Merged(q, SbWrite(0), 1, r),
           NEW p, NEW n \in 0..MaxFiles, Merged(r, DirWrites(1, NoDir), n, p),
           \A i \in File : (\A j \in 1..i : \E k \in 1..Len(r) : r[k].addr = DirBlock(1, j)) => i <= n
    PROVE  Sound(m, p) /\ NoHeaders(p) /\ \E k \in 1..Len(p) : Blanks(p[k])
<1> DEFINE sb == SbWrite(0)
           ws == DirWrites(1, NoDir)
<1>1. QueueOK(sb) /\ Len(sb) = 1 /\ sb[1] = [addr |-> SB, val |-> 0]
  BY SbWriteOK
<1> HIDE DEF sb
<1>2. sb[1].addr = SB /\ Blanks(sb[1]) /\ 1..1 = {1}
  BY <1>1 DEF Blanks
<1>3. NoHeaders(sb) /\ \A i \in File, c \in {0, 1} : sb[1].addr # DirBlock(c, i)
  BY <1>1, <1>2, AddrFacts DEF NoHeaders
<1>4. QueueOK(ws) /\ Len(ws) = MaxFiles /\ NoHeaders(ws) /\ \A i \in 1..MaxFiles : ws[i].addr # SB
  BY DirWritesOK, DirWritesClear, NoDirOK
<1>5. ASSUME NEW i \in File PROVE ws[i].addr = DirBlock(1, i)
  <2>1. ws[i] = [addr |-> DirBlock(1, i), val |-> NoDir[i]]
    BY NoDirOK, DirWritesOK
  <2> HIDE DEF ws
  <2> QED  BY <2>1
<1>6. Clear(ws, 0)
  <2>1. Clear(ws, 1 - 1)
    BY DirWritesClear, NoDirOK
  <2> QED  BY <2>1
<1> HIDE DEF ws
<1>7. File = 1..MaxFiles /\ MaxFiles \in Nat /\ n \in Nat /\ n <= MaxFiles /\ File \subseteq Nat
  BY SizeFacts DEF File
<1>8. QueueOK(r) /\ QueueOK(p) /\ Len(r) \in Nat /\ Len(p) \in Nat
  BY DEF Merged, QueueOK, IsQueue, sb, ws
<1>9. NoHeaders(r)
  BY <1>1, <1>3, NoHeadersMerged DEF sb
<1>10. NoHeaders(p)
  BY <1>4, <1>9, NoHeadersMerged DEF ws
<1>11. \A k \in 1..Len(r) : (\E j \in 1..Len(q) : r[k] = q[j] /\ q[j].addr # SB) \/ r[k] = sb[1]
  BY <1>2 DEF Merged, sb
<1>12. \E k \in 1..Len(r) : r[k] = sb[1]
  BY <1>2 DEF Merged, sb
<1>13. ASSUME NEW k \in 1..Len(p)
       PROVE  \/ \E j \in 1..Len(r) : p[k] = r[j] /\ \A i \in 1..n : ws[i].addr # r[j].addr
              \/ \E i \in 1..n : p[k] = ws[i]
  BY DEF Merged, ws
<1>14. PICK b \in 1..Len(p) :
         p[b] = sb[1] /\ \A l \in 1..Len(p) : (\E i \in 1..n : p[l] = ws[i]) => b < l
  <2>1. PICK j \in 1..Len(r) : r[j] = sb[1]
    BY <1>12
  <2>2. \A i \in 1..n : ws[i].addr # r[j].addr
    BY <1>2, <1>4, <1>7, <2>1
  <2>3. PICK k \in 1..Len(p) :
          p[k] = r[j] /\ \A l \in 1..Len(p) : (\E i \in 1..n : p[l] = ws[i]) => k < l
    BY <2>2 DEF Merged, ws
  <2> QED  BY <2>1, <2>3
<1>15. Blanks(p[b])
  BY <1>2, <1>14
<1>16. CASE Blanked(m, q)
  <2>1. \A k \in 1..Len(r) : r[k].addr = SB => r[k].val = 0
    BY <1>2, <1>11 DEF Blanks
  <2>2. \A k \in 1..Len(p) : p[k].addr = SB => p[k].val = 0
    BY <1>4, <1>7, <1>13, <2>1
  <2> QED  BY <1>10, <1>15, <1>16, <2>2 DEF Sound, Blanked
<1>17. CASE Newest(m, 0) /\ Clear(q, 0)
  <2>1. Clear(sb, 0)
    BY <1>1, <1>2, <1>3 DEF Clear
  <2>2. Clear(r, 0)
    <3>1. 1 \in 0..Len(sb) /\ Merged(q, sb, 1, r)
      BY <1>1 DEF sb
    <3> QED  BY <1>1, <1>17, <2>1, <3>1, ClearMerged
  <2>3. Clear(p, 0)
    BY <1>4, <1>6, <2>2, ClearMerged DEF ws
  <2> QED  BY <1>10, <1>15, <1>17, <2>3 DEF Sound
<1>18. CASE Newest(m, 1) /\ Guarded(q)
  <2>1. ASSUME NEW i \in File, NEW k \in 1..Len(r), r[k].addr = DirBlock(1, i)
        PROVE  i <= n
    <3>1. PICK j \in 1..Len(q) : q[j].addr = DirBlock(1, i)
      BY <1>2, <1>11, <2>1, AddrFacts
    <3>2. ASSUME NEW h \in 1..i PROVE \E l \in 1..Len(r) : r[l].addr = DirBlock(1, h)
      <4>1. h \in File
        BY <1>7
      <4>2. PICK l \in 1..Len(q) : q[l].addr = DirBlock(1, h)
        BY <1>18, <3>1 DEF Guarded
      <4>3. \A e \in 1..1 : sb[e].addr # q[l].addr
        BY <1>2, <4>1, <4>2, AddrFacts
      <4>4. \E e \in 1..Len(r) : r[e] = q[l]
        BY <4>3 DEF Merged, sb
      <4> QED  BY <4>2, <4>4
    <3> QED  BY <3>2
  <2>2. ASSUME NEW i \in File, NEW k \in 1..Len(p), p[k].addr = DirBlock(1, i)
        PROVE  i \in 1..n /\ \E j \in 1..n : p[k] = ws[j]
    <3>1. CASE \E j \in 1..n : p[k] = ws[j]
      <4>1. PICK j \in 1..n : p[k] = ws[j]
        BY <3>1
      <4>2. j \in File /\ DirBlock(1, j) = DirBlock(1, i)
        BY <1>5, <1>7, <2>2, <4>1
      <4> QED  BY <4>1, <4>2, AddrFacts
    <3>2. CASE \E j \in 1..Len(r) : p[k] = r[j] /\ \A h \in 1..n : ws[h].addr # r[j].addr
      <4>1. PICK j \in 1..Len(r) : p[k] = r[j] /\ \A h \in 1..n : ws[h].addr # r[j].addr
        BY <3>2
      <4>2. i <= n
        BY <2>1, <2>2, <4>1
      <4>3. i \in 1..n
        BY <1>7, <4>2
      <4> QED  BY <1>5, <2>2, <4>1, <4>3
    <3> QED  BY <1>13, <3>1, <3>2
  <2>3. ASSUME NEW k \in 1..Len(p), NEW i \in File, p[k].addr = DirBlock(1, i)
        PROVE  \E j \in 1..(k - 1) : Blanks(p[j])
    <3>1. b < k
      BY <1>14, <2>2, <2>3
    <3> QED  BY <1>8, <1>15, <3>1
  <2>4. ASSUME NEW i \in File, NEW j \in 1..i, \E k \in 1..Len(p) : p[k].addr = DirBlock(1, i)
        PROVE  \E k \in 1..Len(p) : p[k].addr = DirBlock(1, j)
    <3>1. i \in 1..n
      BY <2>2, <2>4
    <3>2. j \in 1..n /\ j \in File
      BY <1>7, <3>1
    <3>3. PICK k \in 1..Len(p) : p[k] = ws[j]
      BY <3>2 DEF Merged, ws
    <3> QED  BY <1>5, <3>2, <3>3
  <2>5. Guarded(p)
    BY <1>10, <2>3, <2>4 DEF Guarded
  <2> QED  BY <1>10, <1>15, <1>18, <2>5 DEF Sound
<1> QED  BY <1>16, <1>17, <1>18 DEF Sound

\* One header stored: that block and no other.
LEMMA HeaderStored ==
    ASSUME NEW m, DiskOK(m), NEW s \in {0, 1}, NEW g \in 0..(GenMod - 1), NEW d,
           NEW r, r = Cache!View(m, HeaderWrite(s, g, d))
    PROVE  /\ r[Header(s)] = [magic |-> TRUE, gen |-> g, sum |-> dir_sum(d)]
           /\ r[Header(1 - s)] = m[Header(1 - s)] /\ r[SB] = m[SB]
           /\ \A c \in {0, 1} : SlotDir(r, c) = SlotDir(m, c)
<1> DEFINE q == HeaderWrite(s, g, d)
           v == [magic |-> TRUE, gen |-> g, sum |-> dir_sum(d)]
<1>1. QueueOK(q) /\ Len(q) = 1 /\ q[1] = [addr |-> Header(s), val |-> v]
  BY HeaderWriteOK
<1>2. Stored(m, q, Len(q), r)
  BY <1>1, ViewOK
<1> HIDE DEF q, v
<1>3. q[1].addr = Header(s) /\ q[1].val = v /\ 1..1 = {1}
  BY <1>1
<1>4. r[Header(s)] = v /\ \A a \in Addr : a # Header(s) => r[a] = m[a]
  BY <1>1, <1>2, <1>3, AddrFacts DEF Stored, DiskOK
<1>5. Header(1 - s) \in Addr /\ Header(1 - s) # Header(s)
  <2>1. s = 0 \/ s = 1
    OBVIOUS
  <2>2. 1 - 0 = 1 /\ 1 - 1 = 0
    OBVIOUS
  <2> QED  BY <2>1, <2>2, AddrFacts
<1>6. \A c \in {0, 1}, i \in File : r[DirBlock(c, i)] = m[DirBlock(c, i)]
  BY <1>4, AddrFacts
<1>7. \A c \in {0, 1} : SlotDir(r, c) = SlotDir(m, c)
  BY <1>6 DEF SlotDir
<1> QED  BY <1>4, <1>5, <1>7, AddrFacts DEF q, v
-----------------------------------------------------------------------------
(***************************************************************************)
(* Zlfs: the call in progress, and disjointness of what is mounted.        *)
(***************************************************************************)

\* What the call in progress stands for. A header is queued alone, and only
\* when every block of its directory is on the disk.
OpOK ==
    /\ op.at \in {"idle", "sync"} => op.kind = "none"
    /\ op.at = "data" => op.kind = "edit"
    /\ op.at \in {"dir", "header"} => op.kind # "none"
    /\ op.kind = "edit" => mounted
    /\ op.kind = "edit" /\ op.at \in {"dir", "header"} => op.slot = 1 - active /\ op.gen = NextGen
    /\ op.kind \in {"format1", "format0"} =>
        ~mounted /\ dir = NoDir /\ active = 0 /\ gen = 1 /\ op.dir = NoDir
    /\ op.kind = "format1" => op.slot = 1 /\ op.gen = 0
    /\ op.kind = "format0" => op.slot = 0 /\ op.gen = 1
    /\ op.at = "dir" => DirQueued(queue, op.slot, op.dir)
    /\ op.at = "header" => queue = HeaderWrite(op.slot, op.gen, op.dir)
                           /\ SlotDir(disk, op.slot) = op.dir

\* When the device stores every header it is given and reads what it holds.
Recoverable ==
    /\ op.at # "header" => NoHeaders(queue)
    /\ mounted => /\ Vouched(disk, active, gen) /\ SlotDir(disk, active) = dir
                  /\ op.at # "header" => Clear(queue, active)
    /\ ~mounted /\ op.at # "header" => Sound(disk, queue)
    /\ op.kind = "format1" /\ op.at = "dir" => \E k \in 1..Len(queue) : Blanks(queue[k])
    /\ op.kind = "format0" \/ (op.kind = "format1" /\ op.at = "header") =>
        disk[SB] = 0 /\ \A k \in 1..Len(queue) : queue[k].addr # SB
    /\ op.kind = "format0" => disk[Header(1)].gen = 0

LEMMA NoOpNow ==
    ASSUME op' = NoOp
    PROVE  OpOK'
  BY DEF OpOK, NoOp

LEMMA OpOKInit == Init => OpOK
  BY DEF Init, OpOK, NoOp

LEMMA DirOpFacts ==
    ASSUME NEW kind, NEW s, NEW g, NEW d, op' = DirOp(kind, s, g, d)
    PROVE  op'.at = "dir" /\ op'.kind = kind /\ op'.slot = s /\ op'.gen = g /\ op'.dir = d
  BY DEF DirOp

LEMMA OpCommit ==
    ASSUME VolumeOK, mounted, NEW q, QueueOK(q), NEW d \in FsDir, DirCommit(q, d),
           UNCHANGED <<mounted, dir, active, gen>>
    PROVE  OpOK' /\ (op' = NoOp \/ (op'.at = "dir" /\ op'.kind = "edit"))
<1>1. 1 - active \in {0, 1}
  BY DEF VolumeOK
<1>2. DirWriteSlot(q, "edit", 1 - active, NextGen, d)
  BY DEF DirCommit
<1>3. op' = NoOp \/ (op' = DirOp("edit", 1 - active, NextGen, d) /\ DirQueued(queue', 1 - active, d))
  BY <1>1, <1>2, DirWriteSlotFacts
<1>4. CASE op' = NoOp
  BY <1>4, NoOpNow
<1>5. CASE op' = DirOp("edit", 1 - active, NextGen, d) /\ DirQueued(queue', 1 - active, d)
  <2>1. op'.at = "dir" /\ op'.kind = "edit" /\ op'.slot = 1 - active /\ op'.gen = NextGen /\ op'.dir = d
    BY <1>5, DirOpFacts
  <2>2. NextGen' = NextGen
    BY DEF NextGen
  <2> QED  BY <1>5, <2>1, <2>2 DEF OpOK
<1> QED  BY <1>3, <1>4, <1>5

\* A flush that ends stores the whole directory queued for a slot.
LEMMA DirStored ==
    ASSUME NEW m, NEW q, DiskOK(m), QueueOK(q), NEW s \in {0, 1}, NEW d \in FsDir, DirQueued(q, s, d)
    PROVE  SlotDir(Cache!View(m, q), s) = d
<1> DEFINE r == Cache!View(m, q)
<1>1. Stored(m, q, Len(q), r)
  BY ViewOK
<1> HIDE DEF r
<1>2. ASSUME NEW i \in File PROVE r[DirBlock(s, i)] = d[i]
  <2>1. PICK k \in 1..Len(q) : q[k] = [addr |-> DirBlock(s, i), val |-> d[i]]
    BY DEF DirQueued
  <2>2. q[k].addr = DirBlock(s, i) /\ q[k].val = d[i]
    BY <2>1
  <2> QED  BY <1>1, <2>2, AddrFacts DEF Stored, DiskOK
<1>3. SlotDir(r, s) = [i \in File |-> d[i]]
  BY <1>2 DEF SlotDir
<1>4. d = [i \in File |-> d[i]]
  BY DEF FsDir
<1> QED  BY <1>3, <1>4 DEF r

LEMMA CreateCommits ==
    ASSUME VolumeOK, NEW n \in Names, NEW len \in 0..MaxRun, fs_create(n, len)
    PROVE  \E d \in FsDir : DirCommit(queue, d)
<1> DEFINE e == [name |-> n, start |-> alloc_run(dir, blocks_for(len)), len |-> 0, blocks |-> blocks_for(len)]
<1>1. PICK i \in FirstFree(dir) : DirCommit(queue, [dir EXCEPT ![i] = e])
  BY DEF fs_create
<1>2. i \in File
  BY DEF FirstFree
<1>3. alloc_run(dir, blocks_for(len)) # 0 /\ n \in Nat \ {0} /\ blocks_for(len) \in Nat \ {0}
  BY NamesAssumption, BlocksFor, SizeFacts DEF fs_create
<1>4. Placeable(dir, i, e)
  BY <1>2, <1>3, AllocPlaceable DEF VolumeOK
<1> HIDE DEF e
<1>5. [dir EXCEPT ![i] = e] \in FsDir
  BY <1>2, <1>4, PlaceKeeps DEF VolumeOK
<1> QED  BY <1>1, <1>5

LEMMA OpKept == VolumeOK /\ OpOK /\ [Next]_vars => OpOK'
<1> SUFFICES ASSUME VolumeOK, OpOK, [Next]_vars PROVE OpOK'
  OBVIOUS
<1>1. CASE UNCHANGED vars
  BY <1>1 DEF vars, OpOK, NextGen
<1>2. CASE fs_sync
  <2>1. op' = [NoOp EXCEPT !.at = "sync"]
    BY <1>2 DEF fs_sync
  <2>2. op'.at = "sync" /\ op'.kind = "none"
    BY <2>1 DEF NoOp
  <2> QED  BY <2>2 DEF OpOK
<1>3. CASE fs_mkfs
  <2>1. mounted' = FALSE /\ dir' = NoDir /\ active' = 0 /\ gen' = 1
    BY <1>3 DEF fs_mkfs
  <2>2. CASE WriteBlocks(queue, SbWrite(0)).all
    <3>1. DirWriteSlot(WriteBlocks(queue, SbWrite(0)).queue, "format1", 1, 0, NoDir)
      BY <1>3, <2>2 DEF fs_mkfs
    <3>2. QueueOK(WriteBlocks(queue, SbWrite(0)).queue)
      BY SbWriteOK, WrittenFacts DEF VolumeOK, Merged
    <3>3. op' = NoOp \/ (op' = DirOp("format1", 1, 0, NoDir) /\ DirQueued(queue', 1, NoDir))
      BY <3>1, <3>2, NoDirOK, DirWriteSlotFacts
    <3>4. CASE op' = NoOp
      BY <3>4, NoOpNow
    <3>5. CASE op' = DirOp("format1", 1, 0, NoDir) /\ DirQueued(queue', 1, NoDir)
      <4>1. op'.at = "dir" /\ op'.kind = "format1" /\ op'.slot = 1 /\ op'.gen = 0 /\ op'.dir = NoDir
        BY <3>5, DirOpFacts
      <4> QED  BY <2>1, <3>5, <4>1 DEF OpOK
    <3> QED  BY <3>3, <3>4, <3>5
  <2>3. CASE ~WriteBlocks(queue, SbWrite(0)).all
    <3>1. op' = op /\ Idle
      BY <1>3, <2>3 DEF fs_mkfs, Call
    <3> QED  BY <3>1, NoOpNow DEF Idle, VolumeOK
  <2> QED  BY <2>2, <2>3
<1>4. CASE fs_mount
  BY <1>4, NoOpNow DEF fs_mount, Idle, VolumeOK
<1>5. ASSUME NEW n \in Names, NEW len \in 0..MaxRun, fs_create(n, len) PROVE OpOK'
  <2>1. PICK d \in FsDir : DirCommit(queue, d)
    BY <1>5, CreateCommits
  <2>2. mounted /\ UNCHANGED <<mounted, dir, active, gen>>
    BY <1>5 DEF fs_create
  <2> QED  BY <2>1, <2>2, OpCommit DEF VolumeOK
<1>6. ASSUME NEW i \in File, NEW len \in 0..MaxRun, NEW v \in Data, fs_write(i, len, v) PROVE OpOK'
  <2>1. op' = NoOp \/ op' = DataOp(Rewritten(i, len))
    BY <1>6, FsWriteFacts
  <2>2. mounted' = mounted /\ mounted
    BY <1>6 DEF fs_write
  <2>3. CASE op' = NoOp
    BY <2>3, NoOpNow
  <2>4. CASE op' = DataOp(Rewritten(i, len))
    <3>1. op'.at = "data" /\ op'.kind = "edit"
      BY <2>4 DEF DataOp
    <3> QED  BY <2>2, <3>1 DEF OpOK
  <2> QED  BY <2>1, <2>3, <2>4
<1>7. ASSUME NEW i \in File, fs_delete(i) PROVE OpOK'
  <2>1. [dir EXCEPT ![i] = NoEntry] \in FsDir
    BY DeleteKeeps DEF VolumeOK
  <2>2. DirCommit(queue, [dir EXCEPT ![i] = NoEntry]) /\ mounted /\ UNCHANGED <<mounted, dir, active, gen>>
    BY <1>7 DEF fs_delete
  <2> QED  BY <2>1, <2>2, OpCommit DEF VolumeOK
<1>8. ASSUME NEW i \in File, NEW n \in Names, fs_rename(i, n) PROVE OpOK'
  <2>1. i \in Used(dir) /\ n \in Nat \ {0}
    BY <1>8, NamesAssumption DEF fs_rename
  <2>2. [dir EXCEPT ![i].name = n] \in FsDir
    BY <2>1, RenameKeeps DEF VolumeOK
  <2>3. DirCommit(queue, [dir EXCEPT ![i].name = n]) /\ mounted /\ UNCHANGED <<mounted, dir, active, gen>>
    BY <1>8 DEF fs_rename
  <2> QED  BY <2>2, <2>3, OpCommit DEF VolumeOK
<1>9. CASE DataFlushed
  <2>1. DirCommit(<<>>, op.dir) /\ UNCHANGED <<mounted, dir, active, gen>> /\ mounted
    BY <1>9 DEF DataFlushed, OpOK
  <2>2. op.dir \in FsDir
    BY DEF VolumeOK, FsOp
  <2> QED  BY <2>1, <2>2, EmptyOK, OpCommit
<1>10. CASE DirFlushed
  <2>1. /\ op.at = "dir" /\ queue' = HeaderWrite(op.slot, op.gen, op.dir) /\ op' = [op EXCEPT !.at = "header"]
        /\ disk' = Cache!View(disk, queue) /\ UNCHANGED <<mounted, dir, active, gen>>
    BY <1>10 DEF DirFlushed, Flushed
  <2>2. /\ op'.at = "header" /\ op'.kind = op.kind /\ op'.slot = op.slot /\ op'.gen = op.gen
        /\ op'.dir = op.dir /\ op.dir \in FsDir /\ op.slot \in {0, 1}
    BY <2>1 DEF VolumeOK, FsOp
  <2>3. SlotDir(disk', op.slot) = op.dir
    BY <2>1, <2>2, DirStored DEF OpOK, VolumeOK
  <2>4. NextGen' = NextGen
    BY <2>1 DEF NextGen
  <2> QED  BY <2>1, <2>2, <2>3, <2>4 DEF OpOK
<1>11. CASE FormatFlushed
  <2>1. CASE op.kind = "format1"
    <3>1. DirWriteSlot(<<>>, "format0", 0, 1, NoDir) /\ UNCHANGED <<mounted, dir, active, gen>>
      BY <1>11, <2>1 DEF FormatFlushed
    <3>2. op' = NoOp \/ (op' = DirOp("format0", 0, 1, NoDir) /\ DirQueued(queue', 0, NoDir))
      BY <3>1, EmptyOK, NoDirOK, DirWriteSlotFacts
    <3>3. ~mounted /\ dir = NoDir /\ active = 0 /\ gen = 1
      BY <2>1 DEF OpOK
    <3>4. CASE op' = NoOp
      BY <3>4, NoOpNow
    <3>5. CASE op' = DirOp("format0", 0, 1, NoDir) /\ DirQueued(queue', 0, NoDir)
      <4>1. op'.at = "dir" /\ op'.kind = "format0" /\ op'.slot = 0 /\ op'.gen = 1 /\ op'.dir = NoDir
        BY <3>5, DirOpFacts
      <4> QED  BY <3>1, <3>3, <3>5, <4>1 DEF OpOK
    <3> QED  BY <3>2, <3>4, <3>5
  <2>2. CASE op.kind # "format1"
    BY <1>11, <2>2, NoOpNow DEF FormatFlushed
  <2> QED  BY <2>1, <2>2
<1>12. CASE CommitFlushed \/ SyncFlushed \/ FlushFails \/ PowerCut
  BY <1>12, NoOpNow DEF CommitFlushed, SyncFlushed, FlushFails, PowerCut
<1> QED  BY <1>1, <1>2, <1>3, <1>4, <1>5, <1>6, <1>7, <1>8, <1>9, <1>10, <1>11, <1>12 DEF Next, Step

LEMMA EmptyClear ==
    /\ NoHeaders(<<>>) /\ \A c \in {0, 1} : Clear(<<>>, c)
    /\ \A k \in 1..Len(<<>>) : FALSE
<1>1. Len(<<>>) = 0 /\ 1..0 = {}
  BY EmptyOK
<1> QED  BY <1>1 DEF NoHeaders, Clear

LEMMA SoundNow ==
    ASSUME VolumeOK, Recoverable, op.at # "header"
    PROVE  Sound(disk, queue) /\ NoHeaders(queue)
<1>1. CASE mounted
  BY <1>1, VouchedIsNewest, ClearSound DEF Recoverable, VolumeOK
<1>2. CASE ~mounted
  BY <1>2 DEF Recoverable
<1> QED  BY <1>1, <1>2 DEF Recoverable

\* A step after which no call is in progress, or one that has begun.
LEMMA QuietKept ==
    ASSUME op'.kind \in {"none", "edit"}, op'.at # "header", NoHeaders(queue'),
           mounted' => Vouched(disk', active', gen') /\ SlotDir(disk', active') = dir'
                       /\ Clear(queue', active'),
           ~mounted' => Sound(disk', queue')
    PROVE  Recoverable'
  BY DEF Recoverable

LEMMA NoOpFields == NoOp.kind \in {"none", "edit"} /\ NoOp.at # "header"
  BY DEF NoOp

LEMMA CommitKept ==
    ASSUME VolumeOK, mounted, NEW q, QueueOK(q), Clear(q, active), NEW d \in FsDir, DirCommit(q, d),
           UNCHANGED <<mounted, dir, active, gen>>,
           Vouched(disk', active, gen), SlotDir(disk', active) = dir
    PROVE  Recoverable'
<1>1. active \in {0, 1} /\ 1 - active \in {0, 1} /\ 1 - (1 - active) = active
  BY DEF VolumeOK
<1> DEFINE ws == DirWrites(1 - active, d)
<1>2. DirWriteSlot(q, "edit", 1 - active, NextGen, d)
  BY DEF DirCommit
<1>3. QueueOK(ws) /\ Len(ws) = MaxFiles /\ Clear(ws, active)
  BY <1>1, DirWritesOK, DirWritesClear
<1>4. PICK n \in 0..MaxFiles : Merged(q, ws, n, queue')
  BY <1>1, <1>2, DirWriteSlotFacts
<1> HIDE DEF ws
<1>5. Clear(queue', active)
  BY <1>1, <1>3, <1>4, ClearMerged
<1>6. NoHeaders(queue')
  BY <1>5 DEF Clear
<1>7. op'.kind \in {"none", "edit"} /\ op'.at # "header"
  BY NoOpFields, OpCommit
<1> QED  BY <1>5, <1>6, <1>7, QuietKept

LEMMA KeptInit == Init => Recoverable
<1> SUFFICES ASSUME Init PROVE Recoverable
  OBVIOUS
<1>1. disk[SB] = 0 /\ queue = <<>> /\ ~mounted /\ op = NoOp
  BY AddrFacts DEF Init, SB
<1>2. NoHeaders(queue) /\ Blanked(disk, queue)
  BY <1>1, EmptyClear DEF Blanked
<1> QED  BY <1>1, <1>2 DEF Recoverable, Sound, NoOp

LEMMA KeptMkfs ==
    ASSUME VolumeOK, OpOK, Recoverable, fs_mkfs
    PROVE  Recoverable'
<1> DEFINE w == WriteBlocks(queue, SbWrite(0))
           r == w.queue
<1>1. op = NoOp /\ op.at = "idle" /\ mounted' = FALSE /\ disk' = disk
  BY NoOpOK DEF fs_mkfs, Call, Idle, VolumeOK
<1>2. Sound(disk, queue) /\ NoHeaders(queue) /\ QueueOK(queue)
  BY <1>1, SoundNow DEF VolumeOK
<1>3. QueueOK(SbWrite(0)) /\ Len(SbWrite(0)) = 1
  BY SbWriteOK
<1>4. PICK l \in 0..Len(SbWrite(0)) :
        Merged(queue, SbWrite(0), l, r) /\ w.all = (l = Len(SbWrite(0)))
  BY <1>2, <1>3, WrittenFacts
<1>5. CASE WriteBlocks(queue, SbWrite(0)).all
  <2>1. DirWriteSlot(r, "format1", 1, 0, NoDir)
    BY <1>5 DEF fs_mkfs
  <2> HIDE DEF w, r
  <2>2. Merged(queue, SbWrite(0), 1, r) /\ QueueOK(r)
    <3>1. l = 1
      BY <1>3, <1>4, <1>5 DEF w
    <3> QED  BY <1>4, <3>1 DEF Merged
  <2>3. op' = NoOp \/ op' = DirOp("format1", 1, 0, NoDir)
    BY <2>1, <2>2, NoDirOK, DirWriteSlotFacts
  <2>4. PICK n \in 0..MaxFiles :
          /\ Merged(r, DirWrites(1, NoDir), n, queue')
          /\ \A i \in File : (\A j \in 1..i : \E k \in 1..Len(r) : r[k].addr = DirBlock(1, j)) => i <= n
    <3>1. NoDir \in FsDir /\ 1 \in {0, 1} /\ QueueOK(r)
      BY <2>2, NoDirOK
    <3> QED  BY <2>1, <3>1, DirWriteSlotFacts
  <2>5. Sound(disk, queue') /\ NoHeaders(queue') /\ \E k \in 1..Len(queue') : Blanks(queue'[k])
    BY <1>2, <2>2, <2>4, SoundMkfs
  <2>6. CASE op' = NoOp
    BY <1>1, <2>5, <2>6, NoOpFields, QuietKept
  <2>7. CASE op' = DirOp("format1", 1, 0, NoDir)
    <3>1. op'.at = "dir" /\ op'.kind = "format1"
      BY <2>7, DirOpFacts
    <3> QED  BY <1>1, <2>5, <3>1 DEF Recoverable
  <2> QED  BY <2>3, <2>6, <2>7
<1>6. CASE ~WriteBlocks(queue, SbWrite(0)).all
  <2>1. queue' = queue /\ op' = op
    BY <1>6 DEF fs_mkfs
  <2> QED  BY <1>1, <1>2, <2>1, NoOpFields, QuietKept
<1> QED  BY <1>5, <1>6

LEMMA KeptEdit ==
    ASSUME VolumeOK, OpOK, Recoverable, mounted, Idle, NEW d \in FsDir, DirCommit(queue, d),
           UNCHANGED <<disk, mounted, dir, active, gen>>
    PROVE  Recoverable'
<1>1. /\ Vouched(disk, active, gen) /\ SlotDir(disk, active) = dir /\ Clear(queue, active)
      /\ QueueOK(queue)
  BY DEF Recoverable, Idle, VolumeOK
<1> QED  BY <1>1, CommitKept

LEMMA KeptWrite ==
    ASSUME VolumeOK, OpOK, Recoverable, NEW i \in File, NEW len \in 0..MaxRun, NEW v \in Data,
           fs_write(i, len, v)
    PROVE  Recoverable'
<1>1. mounted /\ Idle /\ UNCHANGED <<disk, mounted, dir, active, gen>>
  BY DEF fs_write, Call
<1>2. /\ Vouched(disk, active, gen) /\ SlotDir(disk, active) = dir /\ Clear(queue, active)
      /\ active \in {0, 1}
  BY <1>1 DEF Recoverable, Idle, VolumeOK
<1>3. op' = NoOp \/ op' = DataOp(Rewritten(i, len))
  BY FsWriteFacts
<1>4. PICK ws : \E k \in 0..Len(ws) :
        /\ QueueOK(ws) /\ Merged(queue, ws, k, queue')
        /\ \A j \in 1..Len(ws) : \E b \in 1..NBlocks : ws[j].addr = DataBlock(b)
  BY FsWriteFacts
<1>5. PICK k \in 0..Len(ws) : QueueOK(ws) /\ Merged(queue, ws, k, queue')
  BY <1>4
<1>6. \A j \in 1..Len(ws) : \E b \in 1..NBlocks : ws[j].addr = DataBlock(b)
  BY <1>4
<1>7. Clear(ws, active)
  BY <1>2, <1>6, AddrFacts DEF Clear, NoHeaders
<1>8. Clear(queue', active)
  BY <1>2, <1>5, <1>7, ClearMerged
<1>9. op'.kind \in {"none", "edit"} /\ op'.at # "header"
  <2>1. DataOp(Rewritten(i, len)).kind = "edit" /\ DataOp(Rewritten(i, len)).at = "data"
    BY DEF DataOp
  <2> QED  BY <1>3, <2>1, NoOpFields
<1> QED  BY <1>1, <1>2, <1>8, <1>9, QuietKept DEF Clear

\* What a flush that ends leaves of the slot in use.
LEMMA FlushKeeps ==
    ASSUME VolumeOK, Recoverable, mounted, op.at # "header", Flushed
    PROVE  Vouched(disk', active, gen) /\ SlotDir(disk', active) = dir
<1>1. /\ Vouched(disk, active, gen) /\ SlotDir(disk, active) = dir /\ Clear(queue, active)
      /\ active \in {0, 1} /\ DiskOK(disk) /\ QueueOK(queue)
  BY DEF Recoverable, VolumeOK
<1>2. Len(queue) \in 0..Len(queue)
  BY <1>1 DEF QueueOK, IsQueue
<1>3. disk' = Cache!Drained(disk, queue, Len(queue))
  BY DEF Flushed, Cache!View
<1> QED  BY <1>1, <1>2, <1>3, VouchedStored DEF Clear

LEMMA KeptDataFlushed ==
    ASSUME VolumeOK, OpOK, Recoverable, DataFlushed
    PROVE  Recoverable'
<1>1. /\ op.at = "data" /\ mounted /\ DirCommit(<<>>, op.dir)
      /\ UNCHANGED <<mounted, dir, active, gen>> /\ op.dir \in FsDir /\ active \in {0, 1}
  BY DEF DataFlushed, OpOK, VolumeOK, FsOp
<1>2. Vouched(disk', active, gen) /\ SlotDir(disk', active) = dir
  BY <1>1, FlushKeeps DEF DataFlushed
<1> QED  BY <1>1, <1>2, EmptyOK, EmptyClear, CommitKept

LEMMA KeptDirFlushed ==
    ASSUME VolumeOK, OpOK, Recoverable, DirFlushed
    PROVE  Recoverable'
<1>1. /\ op.at = "dir" /\ queue' = HeaderWrite(op.slot, op.gen, op.dir) /\ op' = [op EXCEPT !.at = "header"]
      /\ Flushed /\ UNCHANGED <<mounted, dir, active, gen>>
  BY DEF DirFlushed
<1>2. op'.at = "header" /\ op'.kind = op.kind /\ op.slot \in {0, 1} /\ op.gen \in 0..(GenMod - 1)
  BY <1>1 DEF VolumeOK, FsOp
<1>3. mounted => Vouched(disk', active, gen) /\ SlotDir(disk', active) = dir
  BY <1>1, FlushKeeps
<1>4. \A k \in 1..Len(queue') : queue'[k].addr # SB
  <2> DEFINE v == [magic |-> TRUE, gen |-> op.gen, sum |-> dir_sum(op.dir)]
             q == HeaderWrite(op.slot, op.gen, op.dir)
  <2>1. Len(q) = 1 /\ q[1] = [addr |-> Header(op.slot), val |-> v]
    BY <1>2, HeaderWriteOK
  <2> HIDE DEF v, q
  <2>2. q[1].addr = Header(op.slot) /\ 1..1 = {1}
    BY <2>1
  <2>3. \A k \in 1..Len(q) : q[k].addr # SB
    BY <1>2, <2>1, <2>2, AddrFacts
  <2> QED  BY <1>1, <2>3 DEF q
<1>5. DiskOK(disk) /\ QueueOK(queue) /\ disk' = Cache!Drained(disk, queue, Len(queue)) /\ NoHeaders(queue)
  BY <1>1 DEF Flushed, Cache!View, VolumeOK, Recoverable
<1>6. Len(queue) \in 0..Len(queue)
  BY <1>5 DEF QueueOK, IsQueue
<1>7. CASE op.kind = "format1"
  <2>1. \E k \in 1..Len(queue) : Blanks(queue[k])
    BY <1>1, <1>7 DEF Recoverable
  <2>2. disk'[SB] = 0
    BY <1>5, <1>6, <2>1, BlankedStored
  <2> QED  BY <1>1, <1>2, <1>3, <1>4, <1>7, <2>2 DEF Recoverable
<1>8. CASE op.kind = "format0"
  <2>1. disk[SB] = 0 /\ (\A k \in 1..Len(queue) : queue[k].addr # SB) /\ disk[Header(1)].gen = 0
    BY <1>8 DEF Recoverable
  <2>2. disk'[SB] = 0 /\ disk'[Header(1)] = disk[Header(1)]
    BY <1>5, <1>6, <2>1, KeptBlock, AddrFacts DEF NoHeaders
  <2> QED  BY <1>1, <1>2, <1>3, <1>4, <1>8, <2>1, <2>2 DEF Recoverable
<1>9. CASE op.kind \notin {"format1", "format0"}
  <2>1. op.kind = "edit"
    BY <1>1, <1>9 DEF OpOK, VolumeOK, FsOp
  <2> QED  BY <1>1, <1>2, <1>3, <2>1 DEF Recoverable, OpOK
<1> QED  BY <1>7, <1>8, <1>9

\* The new header is stored and the other one is a generation behind it.
LEMMA HeaderVouches ==
    ASSUME VolumeOK, OpOK, NEW s \in {0, 1}, NEW g \in 0..(GenMod - 1), NEW d,
           SlotDir(disk, s) = d, Disjoint(d), (disk[Header(1 - s)].gen + 1) % GenMod = g,
           NEW r, r = Cache!View(disk, HeaderWrite(s, g, d))
    PROVE  Vouched(r, s, g) /\ SlotDir(r, s) = d
<1>1. /\ r[Header(s)] = [magic |-> TRUE, gen |-> g, sum |-> dir_sum(d)]
      /\ r[Header(1 - s)] = disk[Header(1 - s)] /\ SlotDir(r, s) = d
  BY HeaderStored DEF VolumeOK
<1> QED  BY <1>1 DEF Vouched

LEMMA KeptCommitFlushed ==
    ASSUME VolumeOK, OpOK, Recoverable, CommitFlushed
    PROVE  Recoverable'
<1>1. /\ op.at = "header" /\ op.kind = "edit" /\ queue' = <<>> /\ op' = NoOp
      /\ dir' = op.dir /\ active' = op.slot /\ gen' = op.gen /\ mounted' = mounted
      /\ disk' = Cache!View(disk, queue)
  BY DEF CommitFlushed, Flushed
<1>2. /\ mounted /\ op.slot = 1 - active /\ op.gen = NextGen
      /\ queue = HeaderWrite(op.slot, op.gen, op.dir) /\ SlotDir(disk, op.slot) = op.dir
  BY <1>1 DEF OpOK
<1>3. /\ active \in {0, 1} /\ op.slot \in {0, 1} /\ op.gen \in 0..(GenMod - 1) /\ 1 - op.slot = active
      /\ Disjoint(dir) => Disjoint(op.dir)
  BY <1>2 DEF VolumeOK, FsOp
<1>4. Vouched(disk, active, gen) /\ SlotDir(disk, active) = dir
  BY <1>2 DEF Recoverable
<1>5. Disjoint(op.dir) /\ (disk[Header(1 - op.slot)].gen + 1) % GenMod = op.gen
  BY <1>2, <1>3, <1>4, VouchedIsNewest DEF Vouched, NextGen
<1>6. Vouched(disk', op.slot, op.gen) /\ SlotDir(disk', op.slot) = op.dir
  BY <1>1, <1>2, <1>3, <1>5, HeaderVouches
<1> QED  BY <1>1, <1>2, <1>3, <1>6, NoOpFields, EmptyClear, QuietKept

LEMMA KeptFormatFlushed ==
    ASSUME VolumeOK, OpOK, Recoverable, FormatFlushed
    PROVE  Recoverable'
<1>1. /\ op.at = "header" /\ op.kind # "edit" /\ disk' = Cache!View(disk, queue)
      /\ UNCHANGED <<dir, active, gen>>
  BY DEF FormatFlushed, Flushed
<1>2. op.kind \in {"format1", "format0"} /\ op.slot \in {0, 1} /\ op.gen \in 0..(GenMod - 1)
  BY <1>1 DEF OpOK, VolumeOK, FsOp
<1>3. /\ ~mounted /\ dir = NoDir /\ active = 0 /\ gen = 1 /\ op.dir = NoDir /\ disk[SB] = 0
      /\ queue = HeaderWrite(op.slot, op.gen, op.dir) /\ SlotDir(disk, op.slot) = op.dir
  BY <1>1, <1>2 DEF OpOK, Recoverable
<1>4. /\ disk'[Header(op.slot)] = [magic |-> TRUE, gen |-> op.gen, sum |-> dir_sum(op.dir)]
      /\ disk'[SB] = 0
  BY <1>1, <1>2, <1>3, HeaderStored DEF VolumeOK
<1>5. CASE op.kind = "format1"
  <2>1. DirWriteSlot(<<>>, "format0", 0, 1, NoDir) /\ mounted' = mounted
    BY <1>5 DEF FormatFlushed
  <2>2. op.slot = 1 /\ op.gen = 0
    BY <1>5 DEF OpOK
  <2>3. disk'[Header(1)].gen = 0
    BY <1>4, <2>2
  <2>4. NoDir \in FsDir /\ 0 \in {0, 1} /\ QueueOK(<<>>)
    BY NoDirOK, EmptyOK
  <2>5. op' = NoOp \/ op' = DirOp("format0", 0, 1, NoDir)
    BY <2>1, <2>4, DirWriteSlotFacts
  <2>6. PICK n \in 0..MaxFiles : Merged(<<>>, DirWrites(0, NoDir), n, queue')
    BY <2>1, <2>4, DirWriteSlotFacts
  <2>7. /\ QueueOK(DirWrites(0, NoDir)) /\ Len(DirWrites(0, NoDir)) = MaxFiles
        /\ NoHeaders(DirWrites(0, NoDir))
        /\ \A i \in 1..Len(DirWrites(0, NoDir)) : DirWrites(0, NoDir)[i].addr # SB
    BY <2>4, DirWritesOK, DirWritesClear
  <2>8. NoHeaders(queue')
    BY <2>6, <2>7, EmptyClear, NoHeadersMerged
  <2>9. \A k \in 1..Len(queue') : queue'[k].addr # SB
    <3>1. n \in Nat /\ MaxFiles \in Nat /\ n <= MaxFiles
      BY SizeFacts
    <3>2. \A k \in 1..Len(queue') : \E i \in 1..n : queue'[k] = DirWrites(0, NoDir)[i]
      BY <2>6, EmptyClear DEF Merged
    <3> QED  BY <2>7, <3>1, <3>2
  <2>10. Sound(disk', queue')
    BY <1>4, <2>9 DEF Sound, Blanked
  <2>11. CASE op' = NoOp
    BY <1>3, <2>1, <2>8, <2>10, <2>11, NoOpFields, QuietKept
  <2>12. CASE op' = DirOp("format0", 0, 1, NoDir)
    <3>1. op'.at = "dir" /\ op'.kind = "format0"
      BY <2>12, DirOpFacts
    <3> QED  BY <1>3, <1>4, <2>1, <2>3, <2>8, <2>9, <2>10, <3>1 DEF Recoverable
  <2> QED  BY <2>5, <2>11, <2>12
<1>6. CASE op.kind = "format0"
  <2>1. queue' = SbWrite(1) /\ op' = NoOp
    BY <1>6 DEF FormatFlushed
  <2>2. op.slot = 0 /\ op.gen = 1 /\ disk[Header(1)].gen = 0
    BY <1>6 DEF OpOK, Recoverable
  <2>3. (disk[Header(1 - 0)].gen + 1) % GenMod = 1
    <3>1. 1 - 0 = 1 /\ 0 \in 0..(GenMod - 1) /\ 0 + 1 < GenMod /\ 0 + 1 = 1
      BY GenFacts
    <3>2. (0 + 1) % GenMod = 1
      BY <3>1, NextGenIs
    <3> QED  BY <2>2, <3>1, <3>2
  <2>4. 0 \in {0, 1} /\ 1 \in 0..(GenMod - 1)
    BY GenFacts
  <2>5. /\ SlotDir(disk, 0) = NoDir /\ disk' = Cache!View(disk, HeaderWrite(0, 1, NoDir))
    BY <1>1, <1>3, <2>2
  <2>6. Vouched(disk', 0, 1) /\ SlotDir(disk', 0) = NoDir
    BY <2>3, <2>4, <2>5, NoDirOK, HeaderVouches
  <2>7. Clear(queue', 0) /\ NoHeaders(queue')
    <3> DEFINE q == SbWrite(1)
    <3>1. Len(q) = 1 /\ q[1] = [addr |-> SB, val |-> 1]
      BY SbWriteOK
    <3> HIDE DEF q
    <3>2. q[1].addr = SB /\ 1..1 = {1}
      BY <3>1
    <3>3. Clear(q, 0) /\ NoHeaders(q)
      BY <3>1, <3>2, AddrFacts DEF Clear, NoHeaders
    <3> QED  BY <2>1, <3>3 DEF q
  <2>8. mounted' = TRUE
    BY <1>6 DEF FormatFlushed
  <2> QED  BY <1>1, <1>3, <2>1, <2>6, <2>7, <2>8, NoOpFields, QuietKept
<1> QED  BY <1>2, <1>5, <1>6

\* A flush that stops after k blocks, its next one stored or not, or that ends.
LEMMA KeptStored ==
    ASSUME VolumeOK, OpOK, Recoverable, op.at # "header", op' = NoOp,
           NEW k \in 0..Len(queue), NEW l \in 0..k,
           disk' = Cache!Drained(disk, queue, k), queue' = Cache!DropFirst(queue, l),
           UNCHANGED <<mounted, dir, active, gen>>
    PROVE  Recoverable'
<1>1. Sound(disk, queue) /\ NoHeaders(queue) /\ DiskOK(disk) /\ QueueOK(queue)
  BY SoundNow DEF VolumeOK
<1>2. Sound(disk', queue') /\ NoHeaders(queue')
  BY <1>1, SoundStored
<1>3. ASSUME mounted
      PROVE  Vouched(disk', active, gen) /\ SlotDir(disk', active) = dir /\ Clear(queue', active)
  <2>1. /\ Vouched(disk, active, gen) /\ SlotDir(disk, active) = dir /\ Clear(queue, active)
        /\ active \in {0, 1}
    BY <1>3 DEF Recoverable, VolumeOK
  <2>2. /\ Len(queue) \in Nat /\ k \in Nat /\ l \in Nat /\ l <= k /\ k <= Len(queue)
    BY <1>1 DEF QueueOK, IsQueue
  <2>3. \A j \in 1..k : j \in 1..Len(queue)
    BY <2>2
  <2>4. Vouched(disk', active, gen) /\ SlotDir(disk', active) = dir
    BY <1>1, <2>1, <2>3, VouchedStored DEF Clear
  <2>5. l \in 0..Len(queue)
    BY <2>2
  <2>6. Len(queue') = Len(queue) - l
        /\ \A i \in 1..(Len(queue) - l) : l + i \in 1..Len(queue) /\ queue'[i] = queue[l + i]
    BY <1>1, <2>5, DropFirstOK
  <2>7. Clear(queue', active)
    BY <1>2, <2>1, <2>6 DEF Clear
  <2> QED  BY <2>4, <2>7
<1> QED  BY <1>2, <1>3, NoOpFields, QuietKept

LEMMA KeptSyncFlushed ==
    ASSUME VolumeOK, OpOK, Recoverable, SyncFlushed
    PROVE  Recoverable'
<1>1. Len(queue) \in 0..Len(queue) /\ QueueOK(queue)
  BY DEF VolumeOK, QueueOK, IsQueue
<1>2. Cache!DropFirst(queue, Len(queue)) = <<>>
  <2>1. QueueOK(Cache!DropFirst(queue, Len(queue))) /\ Len(Cache!DropFirst(queue, Len(queue))) = Len(queue) - Len(queue)
    BY <1>1, DropFirstOK
  <2>2. PICK S : Cache!DropFirst(queue, Len(queue)) \in Seq(S)
    BY <2>1 DEF QueueOK, IsQueue
  <2>3. Len(Cache!DropFirst(queue, Len(queue))) = 0
    BY <1>1, <2>1
  <2> QED  BY <2>2, <2>3
<1>3. /\ op.at # "header" /\ op' = NoOp /\ UNCHANGED <<mounted, dir, active, gen>>
      /\ disk' = Cache!Drained(disk, queue, Len(queue)) /\ queue' = Cache!DropFirst(queue, Len(queue))
  BY <1>2 DEF SyncFlushed, Flushed, Cache!View
<1>4. Len(queue) \in 0..Len(queue)
  BY <1>1
<1> QED  BY <1>3, <1>4, KeptStored

LEMMA KeptFails ==
    ASSUME VolumeOK, OpOK, Recoverable, Promised, FlushFails
    PROVE  Recoverable'
<1>1. op.at # "header" /\ op' = NoOp /\ UNCHANGED <<mounted, dir, active, gen>>
  BY DEF FlushFails, Promised
<1>2. PICK k \in 0..Len(queue) - 1 :
        /\ disk' \in {Cache!Drained(disk, queue, k), Cache!Drained(disk, queue, k + 1)}
        /\ queue' = Cache!DropFirst(queue, k)
  BY DEF FlushFails
<1>3. Len(queue) \in Nat
  BY DEF VolumeOK, QueueOK, IsQueue
<1>4. k \in 0..Len(queue) /\ k + 1 \in 0..Len(queue) /\ k \in 0..k /\ k \in 0..(k + 1)
  BY <1>3
<1>5. CASE disk' = Cache!Drained(disk, queue, k)
  BY <1>1, <1>2, <1>4, <1>5, KeptStored
<1>6. CASE disk' = Cache!Drained(disk, queue, k + 1)
  BY <1>1, <1>2, <1>4, <1>6, KeptStored
<1> QED  BY <1>2, <1>5, <1>6

LEMMA NothingStored ==
    ASSUME NEW m, NEW q
    PROVE  Cache!Drained(m, q, 0) = m
<1> DEFINE f == [j \in 0..0 |-> m]
<1>1. 0..0 = {0}
  OBVIOUS
<1>2. f = [j \in 0..0 |-> IF j = 0 THEN m ELSE [f[j - 1] EXCEPT ![q[j].addr] = q[j].val]]
  <2>1. \A j \in 0..0 : j = 0
    OBVIOUS
  <2> QED  BY <2>1
<1>3. DrainOf(m, q, 0) = [j \in 0..0 |-> IF j = 0 THEN m
                          ELSE [DrainOf(m, q, 0)[j - 1] EXCEPT ![q[j].addr] = q[j].val]]
  BY <1>2 DEF DrainOf
<1>4. DrainOf(m, q, 0)[0] = m
  BY <1>1, <1>3
<1> QED  BY <1>4, DrainedIs

LEMMA HeaderOnly ==
    ASSUME VolumeOK, OpOK, op.at = "header"
    PROVE  Cache!View(disk, queue)[SB] = disk[SB]
<1>1. DiskOK(disk) /\ op.slot \in {0, 1} /\ op.gen \in 0..(GenMod - 1)
      /\ queue = HeaderWrite(op.slot, op.gen, op.dir)
  BY DEF VolumeOK, OpOK, FsOp
<1>2. /\ Cache!View(disk, queue)[Header(op.slot)] =
            [magic |-> TRUE, gen |-> op.gen, sum |-> dir_sum(op.dir)]
      /\ Cache!View(disk, queue)[SB] = disk[SB]
  BY <1>1, HeaderStored
<1> QED  BY <1>2

LEMMA KeptCut ==
    ASSUME VolumeOK, OpOK, Recoverable, PowerCut
    PROVE  Recoverable'
<1>1. PICK k \in 0..(IF Idle THEN 0 ELSE Len(queue)) : disk' = Cache!Drained(disk, queue, k)
  BY DEF PowerCut
<1>2. Len(queue) \in Nat /\ QueueOK(queue) /\ DiskOK(disk)
  BY DEF VolumeOK, QueueOK, IsQueue
<1>3. k \in 0..Len(queue)
  BY <1>1, <1>2
<1>4. queue' = <<>> /\ op' = NoOp /\ mounted' = FALSE
  BY DEF PowerCut
<1>5. Sound(disk', <<>>)
  <2>1. CASE op.at # "header"
    <3>1. Sound(disk, queue) /\ NoHeaders(queue)
      BY <2>1, SoundNow
    <3>2. 0 \in 0..k
      BY <1>2, <1>3
    <3>3. Sound(disk', Cache!DropFirst(queue, 0))
      BY <1>1, <1>2, <1>3, <3>1, <3>2, SoundStored
    <3> QED  BY <3>3, SoundEmpty
  <2>2. CASE op.at = "header"
    <3>1. /\ queue = HeaderWrite(op.slot, op.gen, op.dir) /\ SlotDir(disk, op.slot) = op.dir
          /\ op.kind \in {"edit", "format1", "format0"}
      BY <2>2 DEF OpOK, VolumeOK, FsOp
    <3>2. op.slot \in {0, 1} /\ op.gen \in 0..(GenMod - 1)
      BY DEF VolumeOK, FsOp
    <3>3. Len(queue) = 1
      BY <3>1, <3>2, HeaderWriteOK
    <3>4. disk' = disk \/ disk' = Cache!View(disk, queue)
      <4>1. k = 0 \/ k = 1
        BY <1>3, <3>3
      <4> QED  BY <1>1, <3>3, <4>1, NothingStored DEF Cache!View
    <3>5. CASE op.kind = "edit"
      <4>1. /\ mounted /\ op.slot = 1 - active /\ op.gen = NextGen /\ active \in {0, 1}
            /\ 1 - op.slot = active /\ (Disjoint(dir) => Disjoint(op.dir))
        BY <2>2, <3>5 DEF OpOK, VolumeOK
      <4>2. Vouched(disk, active, gen) /\ SlotDir(disk, active) = dir
        BY <4>1 DEF Recoverable
      <4>3. CASE disk' = disk
        BY <4>1, <4>2, <4>3, VouchedIsNewest, EmptyClear, ClearSound
      <4>4. CASE disk' = Cache!View(disk, queue)
        <5>1. Disjoint(op.dir) /\ (disk[Header(1 - op.slot)].gen + 1) % GenMod = op.gen
          BY <4>1, <4>2, VouchedIsNewest DEF Vouched, NextGen
        <5>2. Vouched(disk', op.slot, op.gen)
          BY <3>1, <3>2, <4>4, <5>1, HeaderVouches
        <5> QED  BY <3>2, <5>2, VouchedIsNewest, EmptyClear, ClearSound
      <4> QED  BY <3>4, <4>3, <4>4
    <3>6. CASE op.kind # "edit"
      <4>1. disk[SB] = 0
        BY <2>2, <3>1, <3>6 DEF Recoverable
      <4>2. disk'[SB] = 0
        <5>1. Cache!View(disk, queue)[SB] = disk[SB]
          BY <2>2, HeaderOnly
        <5> QED  BY <3>4, <4>1, <5>1
      <4> QED  BY <4>2, EmptyClear DEF Sound, Blanked
    <3> QED  BY <3>5, <3>6
  <2> QED  BY <2>1, <2>2
<1> QED  BY <1>4, <1>5, NoOpFields, EmptyClear, QuietKept

LEMMA GenerationAhead ==
    ASSUME NEW a \in 0..(GenMod - 1), NEW b \in 0..(GenMod - 1)
    PROVE  /\ (b + 1) % GenMod = a => generation_newer(a, b)
           /\ (a + 1) % GenMod = b => ~generation_newer(a, b)
<1> DEFINE half == GenMod \div 2
<1>1. GenMod \in Nat /\ GenMod > 3 /\ half \in Nat /\ half > 1 /\ half < GenMod - 1
  BY GenFacts
<1> HIDE DEF half
<1>2. ASSUME (b + 1) % GenMod = a PROVE a # b /\ (a + GenMod - b) % GenMod < half
  <2>1. a = IF b + 1 < GenMod THEN b + 1 ELSE 0
    BY <1>2, NextGenIs
  <2>2. a # b /\ (a + GenMod - b = GenMod + 1 \/ a + GenMod - b = 1)
    BY <1>1, <2>1
  <2>3. (GenMod + 1) % GenMod = 1 /\ 1 % GenMod = 1
    BY <1>1
  <2> QED  BY <1>1, <2>2, <2>3
<1>3. ASSUME (a + 1) % GenMod = b PROVE ~((a + GenMod - b) % GenMod < half)
  <2>1. b = IF a + 1 < GenMod THEN a + 1 ELSE 0
    BY <1>3, NextGenIs
  <2>2. a + GenMod - b = GenMod - 1 \/ a + GenMod - b = GenMod + (GenMod - 1)
    BY <1>1, <2>1
  <2>3. (GenMod - 1) % GenMod = GenMod - 1 /\ (GenMod + (GenMod - 1)) % GenMod = GenMod - 1
    BY <1>1
  <2>4. (a + GenMod - b) % GenMod = GenMod - 1
    BY <2>2, <2>3
  <2> QED  BY <1>1, <2>4
<1> QED  BY <1>2, <1>3 DEF generation_newer, half

\* A mount that succeeds takes the slot the disk vouches for: nothing of it is
\* queued, since a queued block of it waits behind a blank superblock.
LEMMA KeptMount ==
    ASSUME VolumeOK, OpOK, Recoverable, Promised, fs_mount
    PROVE  Recoverable'
<1> DEFINE m == Cache!View(disk, queue)
<1>1. op = NoOp /\ op' = NoOp /\ op.at # "header" /\ disk' = disk /\ queue' = queue
  BY NoOpFields DEF fs_mount, Idle, VolumeOK
<1>2. /\ Sound(disk, queue) /\ NoHeaders(queue) /\ DiskOK(disk) /\ QueueOK(queue)
      /\ Len(queue) \in 0..Len(queue)
  BY <1>1, SoundNow DEF VolumeOK, QueueOK, IsQueue
<1>3. ASSUME mounted'
      PROVE  Vouched(disk, active', gen') /\ SlotDir(disk, active') = dir' /\ Clear(queue, active')
  <2>1. PICK lost \in SUBSET {{SB}, SlotBlocks(0), SlotBlocks(1)}, s \in {0, 1} :
            /\ \A as \in lost : Unreadable(as)
            /\ \A as \in {{SB}, SlotBlocks(0), SlotBlocks(1)} \ lost : ~MustBeUnreadable(as)
            /\ m[SB] # 0
            /\ s \in Chosen(m, {t \in {0, 1} : SlotBlocks(t) \notin lost})
            /\ dir' = SlotDir(m, s) /\ active' = s /\ gen' = m[Header(s)].gen
    BY <1>3, MountFacts
  <2>2. Stored(disk, queue, Len(queue), m) /\ m = Cache!Drained(disk, queue, Len(queue))
    BY <1>2, ViewOK DEF Cache!View
  <2> DEFINE readable == {t \in {0, 1} : SlotBlocks(t) \notin lost}
  <2> HIDE DEF m
  <2>3. ~Blanked(disk, queue) /\ ~\E k \in 1..Len(queue) : Blanks(queue[k])
    BY <1>2, <2>1, <2>2, BlankedStored DEF Blanked
  <2>4. PICK c \in {0, 1} : Newest(disk, c) /\ Clear(queue, c)
    <3>1. CASE Newest(disk, 0) /\ Clear(queue, 0)
      BY <3>1
    <3>2. CASE Newest(disk, 1) /\ Guarded(queue)
      <4>1. Len(queue) \in Nat
        BY <1>2
      <4>2. ASSUME NEW k \in 1..Len(queue), NEW i \in File PROVE queue[k].addr # DirBlock(1, i)
        <5>1. \A j \in 1..(k - 1) : j \in 1..Len(queue)
          BY <4>1
        <5> QED  BY <2>3, <3>2, <5>1 DEF Guarded
      <4> QED  BY <1>2, <3>2, <4>2 DEF Clear
    <3> QED  BY <1>2, <2>3, <3>1, <3>2 DEF Sound
  <2>5. /\ m[Header(0)] = disk[Header(0)] /\ m[Header(1)] = disk[Header(1)]
    BY <1>2, <2>2, KeptBlock, AddrFacts DEF NoHeaders
  <2>6. Vouched(m, c, disk[Header(c)].gen) /\ SlotDir(m, c) = SlotDir(disk, c)
    BY <1>2, <2>2, <2>4, VouchedStored DEF Newest, Clear
  <2>7. SlotValid(m, c)
    <3> DEFINE h == [magic |-> TRUE, gen |-> disk[Header(c)].gen, sum |-> dir_sum(SlotDir(m, c))]
    <3>1. m[Header(c)] = h
      BY <2>6 DEF Vouched
    <3>2. h.magic /\ h.sum = dir_sum(SlotDir(m, c))
      OBVIOUS
    <3> HIDE DEF h
    <3> QED  BY <3>1, <3>2 DEF SlotValid
  <2>8. SlotBlocks(c) \notin lost
    <3> SUFFICES ASSUME SlotBlocks(c) \in lost PROVE FALSE
      OBVIOUS
    <3>1. Len(queue) = CacheN
      BY <2>1 DEF Unreadable, Promised
    <3>2. ASSUME NEW t \in {0, 1} PROVE MustBeUnreadable(SlotBlocks(t))
      <4>1. PICK S : queue \in Seq(S)
        BY <1>2 DEF QueueOK, IsQueue
      <4>2. Cache!Queued(queue) = {queue[k].addr : k \in 1..Len(queue)}
        BY <4>1, QueuedIs
      <4>3. Header(t) \notin Cache!Queued(queue) /\ Header(t) \in SlotBlocks(t)
        BY <1>2, <4>2 DEF NoHeaders, SlotBlocks
      <4> QED  BY <3>1, <4>3 DEF MustBeUnreadable
    <3>3. SlotBlocks(0) \in lost /\ SlotBlocks(1) \in lost
      BY <2>1, <3>2
    <3> QED  BY <2>1, <3>3 DEF Chosen
  <2>9. s = c
    <3> SUFFICES ASSUME s # c PROVE FALSE
      OBVIOUS
    <3>1. s \in readable /\ c \in readable /\ SlotValid(m, s)
      BY <2>1, <2>8 DEF Chosen
    <3>2. c \in {t \in readable : SlotValid(m, t)} \ {s}
      BY <2>7, <3>1
    <3>3. IF s = 1 THEN generation_newer(m[Header(1)].gen, m[Header(0)].gen)
          ELSE ~generation_newer(m[Header(1)].gen, m[Header(0)].gen)
      BY <2>1, <3>2 DEF Chosen
    <3> DEFINE a == m[Header(1)].gen
               b == m[Header(0)].gen
    <3>4. a \in 0..(GenMod - 1) /\ b \in 0..(GenMod - 1)
      BY <1>2, <2>5, AddrFacts DEF DiskOK, BlockFits
    <3>5. CASE c = 1
      <4>1. (m[Header(1 - 1)].gen + 1) % GenMod = a
        BY <2>5, <2>6, <3>5 DEF Vouched
      <4>2. (b + 1) % GenMod = a /\ s = 0
        BY <3>5, <4>1
      <4>3. ~generation_newer(a, b)
        BY <3>3, <4>2
      <4> HIDE DEF a, b
      <4> QED  BY <3>4, <4>2, <4>3, GenerationAhead
    <3>6. CASE c = 0
      <4>1. (m[Header(1 - 0)].gen + 1) % GenMod = b
        BY <2>5, <2>6, <3>6 DEF Vouched
      <4>2. (a + 1) % GenMod = b /\ s = 1
        BY <3>6, <4>1
      <4>3. generation_newer(a, b)
        BY <3>3, <4>2
      <4> HIDE DEF a, b
      <4> QED  BY <3>4, <4>2, <4>3, GenerationAhead
    <3> QED  BY <3>5, <3>6
  <2>10. gen' = disk[Header(c)].gen
    <3>1. c = 0 \/ c = 1
      OBVIOUS
    <3> QED  BY <2>1, <2>5, <2>9, <3>1
  <2> QED  BY <2>1, <2>4, <2>6, <2>9, <2>10 DEF Newest
<1> QED  BY <1>1, <1>2, <1>3, NoOpFields, QuietKept

LEMMA RecoverableKept == VolumeOK /\ OpOK /\ (Promised => Recoverable) /\ [Next]_vars => (Promised => Recoverable)'
<1> SUFFICES ASSUME VolumeOK, OpOK, Promised => Recoverable, [Next]_vars, Promised'
             PROVE  Recoverable'
  OBVIOUS
<1>1. Promised /\ Recoverable
  BY DEF Next, vars, Promised
<1>2. CASE UNCHANGED vars
  BY <1>1, <1>2 DEF vars, Recoverable
<1>3. CASE fs_sync
  <2>1. UNCHANGED <<disk, queue, mounted, dir, active, gen>> /\ op' = [NoOp EXCEPT !.at = "sync"] /\ op.at = "idle"
    BY <1>3 DEF fs_sync, Idle
  <2>2. op'.at = "sync" /\ op'.kind = "none"
    BY <2>1 DEF NoOp
  <2>3. Sound(disk, queue) /\ NoHeaders(queue)
    BY <1>1, <2>1, SoundNow
  <2> QED  BY <1>1, <2>1, <2>2, <2>3, QuietKept DEF Recoverable
<1>4. CASE fs_mkfs \/ fs_mount
  BY <1>1, <1>4, KeptMkfs, KeptMount
<1>5. ASSUME NEW n \in Names, NEW len \in 0..MaxRun, fs_create(n, len) PROVE Recoverable'
  <2>1. PICK d \in FsDir : DirCommit(queue, d)
    BY <1>5, CreateCommits
  <2>2. mounted /\ Idle /\ UNCHANGED <<disk, mounted, dir, active, gen>>
    BY <1>5 DEF fs_create, Call
  <2> QED  BY <1>1, <2>1, <2>2, KeptEdit
<1>6. CASE \E i \in File, len \in 0..MaxRun, v \in Data : fs_write(i, len, v)
  BY <1>1, <1>6, KeptWrite
<1>7. ASSUME NEW i \in File, fs_delete(i) PROVE Recoverable'
  <2>1. [dir EXCEPT ![i] = NoEntry] \in FsDir
    BY DeleteKeeps DEF VolumeOK
  <2>2. DirCommit(queue, [dir EXCEPT ![i] = NoEntry]) /\ mounted /\ Idle /\ UNCHANGED <<disk, mounted, dir, active, gen>>
    BY <1>7 DEF fs_delete, Call
  <2> QED  BY <1>1, <2>1, <2>2, KeptEdit
<1>8. ASSUME NEW i \in File, NEW n \in Names, fs_rename(i, n) PROVE Recoverable'
  <2>1. i \in Used(dir) /\ n \in Nat \ {0}
    BY <1>8, NamesAssumption DEF fs_rename
  <2>2. [dir EXCEPT ![i].name = n] \in FsDir
    BY <2>1, RenameKeeps DEF VolumeOK
  <2>3. DirCommit(queue, [dir EXCEPT ![i].name = n]) /\ mounted /\ Idle /\ UNCHANGED <<disk, mounted, dir, active, gen>>
    BY <1>8 DEF fs_rename, Call
  <2> QED  BY <1>1, <2>2, <2>3, KeptEdit
<1>9. CASE DataFlushed \/ DirFlushed \/ CommitFlushed \/ FormatFlushed \/ SyncFlushed
  BY <1>1, <1>9, KeptDataFlushed, KeptDirFlushed, KeptCommitFlushed, KeptFormatFlushed, KeptSyncFlushed
<1>10. CASE FlushFails \/ PowerCut
  BY <1>1, <1>10, KeptFails, KeptCut
<1> QED  BY <1>2, <1>3, <1>4, <1>5, <1>6, <1>7, <1>8, <1>9, <1>10 DEF Next, Step

(* fs.c:717, :876: no two files of the mounted directory share a block, as *)
(* long as only data flushes fail, through every power cut and mount; and  *)
(* whatever fails, no call publishes files that share one if the directory *)
(* in memory has none.                                                     *)
THEOREM RunsAlwaysDisjoint == Spec => []RunsDisjoint
<1> DEFINE I == VolumeOK /\ OpOK /\ (Promised => Recoverable)
<1>1. Init => I
  BY TypesInit, OpOKInit, KeptInit
<1>2. I /\ [Next]_vars => I'
  BY TypesKept, OpKept, RecoverableKept
<1>3. I => RunsDisjoint
  <2> SUFFICES ASSUME I, mounted PROVE (Promised => Disjoint(dir)) /\ (Disjoint(dir) => Disjoint(op.dir))
    BY DEF RunsDisjoint
  <2> QED  BY DEF Recoverable, Vouched, VolumeOK
<1> QED  BY <1>1, <1>2, <1>3, PTL DEF Spec

(* fs.c:342 to :351, whatever the device does: when the header of a slot   *)
(* is sent, every block of the directory it vouches for is on the disk.    *)
THEOREM HeadersComeLast ==
    Spec => [](op.at = "header" => SlotDir(disk, op.slot) = op.dir)
<1>1. VolumeOK /\ OpOK /\ [Next]_vars => (VolumeOK /\ OpOK)'
  BY TypesKept, OpKept
<1>2. OpOK => (op.at = "header" => SlotDir(disk, op.slot) = op.dir)
  BY DEF OpOK
<1> QED  BY <1>1, <1>2, TypesInit, OpOKInit, PTL DEF Spec
-----------------------------------------------------------------------------
(***************************************************************************)
(* Zlfs is Volume (ImplementsVolume). What a directory names is read back  *)
(* unchanged as long as no write is queued for its blocks.                 *)
(***************************************************************************)
Unset == Outcome("unformatted", NoFiles)
Nothing == Outcome("none", NoFiles)

\* The contents entry e names, and that no write of q lies in them.
Contents(m, e) == [k \in 1..e.len |-> m[DataBlock(e.start + k - 1)]]
Spares(q, e) == \A k \in 1..e.len : \A j \in 1..Len(q) : q[j].addr # DataBlock(e.start + k - 1)
Avoids(q, d) == \A i \in File : Spares(q, d[i])
NoData(q) == \A j \in 1..Len(q) : \A b \in 1..NBlocks : q[j].addr # DataBlock(b)

\* The contents of e lie in the data area.
Placed(e) == e \in FsEntry /\ (e.len > 0 => e.start >= 1 /\ e.start + e.len <= DataEnd)

LEMMA VolumeConstants ==
    /\ V!Empty = NoFiles /\ V!None = Nothing /\ V!Unformatted = Unset
    /\ V!Blank = Outcome("ok", NoFiles)
  BY DEF V!Empty, V!None, V!Unformatted, V!Blank, NoFiles, Nothing, Unset, Outcome

LEMMA OutcomeFields ==
    ASSUME NEW s, NEW f
    PROVE  Outcome(s, f).state = s /\ Outcome(s, f).files = f
  BY DEF Outcome

LEMMA FilesAre ==
    ASSUME NEW m, NEW d
    PROVE  /\ Files(m, d) = [i \in File |-> [name |-> d[i].name, data |-> Contents(m, d[i])]]
           /\ \A i \in File : Files(m, d)[i].name = d[i].name /\ Files(m, d)[i].data = Contents(m, d[i])
<1>1. Files(m, d) = [i \in File |-> [name |-> d[i].name, data |-> Contents(m, d[i])]]
  BY DEF Files, Contents
<1>2. ASSUME NEW i \in File PROVE Files(m, d)[i].name = d[i].name /\ Files(m, d)[i].data = Contents(m, d[i])
  <2>1. Files(m, d)[i] = [name |-> d[i].name, data |-> Contents(m, d[i])]
    BY <1>1
  <2> QED  BY <2>1
<1> QED  BY <1>1, <1>2

LEMMA SameFiles ==
    ASSUME NEW m, NEW r, NEW d, \A i \in File : Contents(m, d[i]) = Contents(r, d[i])
    PROVE  Files(m, d) = Files(r, d)
  BY FilesAre

LEMMA PlacedIn ==
    ASSUME NEW d \in FsDir, InRange(d), NEW i \in File
    PROVE  Placed(d[i])
<1>1. d[i] \in FsEntry /\ d[i].len \in Nat /\ (d[i].len > 0 => i \in Used(d))
  BY DEF FsDir, FsEntry, Used
<1>2. ASSUME i \in Used(d) PROVE d[i].start >= 1 /\ d[i].start + d[i].len <= DataEnd
  <2>1. d[i].start \in Nat /\ d[i].blocks \in Nat /\ d[i].len \in Nat /\ DataEnd \in Nat
    BY <1>1, SizeFacts DEF FsEntry
  <2>2. d[i].start >= 1 /\ d[i].start + d[i].blocks <= DataEnd /\ d[i].len <= d[i].blocks
    BY <1>2 DEF InRange
  <2> QED  BY <2>1, <2>2
<1> QED  BY <1>1, <1>2 DEF Placed

LEMMA PlacedBlocks ==
    ASSUME NEW e, Placed(e)
    PROVE  /\ e.len \in Nat /\ e.start \in Nat
           /\ \A k \in 1..e.len : e.start + k - 1 \in 1..NBlocks /\ DataBlock(e.start + k - 1) \in Addr
<1>1. e.len \in Nat /\ e.start \in Nat
  BY DEF Placed, FsEntry
<1>2. ASSUME NEW k \in 1..e.len PROVE e.start + k - 1 \in 1..NBlocks
  <2>1. e.start >= 1 /\ e.start + e.len <= NBlocks + 1 /\ NBlocks \in Nat
    BY <1>1, SizeFacts DEF Placed, DataEnd
  <2> QED  BY <1>1, <2>1
<1> QED  BY <1>1, <1>2, AddrFacts

LEMMA EmptyContents ==
    ASSUME NEW m, NEW e, e.len = 0
    PROVE  Contents(m, e) = <<>> /\ \A q : Spares(q, e)
<1>1. 1..0 = {}
  OBVIOUS
<1> QED  BY <1>1 DEF Contents, Spares

\* A block among those the first k of the queue, or not among them, on the disk.
LEMMA DrainedBlock ==
    ASSUME NEW m, NEW q, DiskOK(m), QueueOK(q), NEW k \in 0..Len(q), NEW a \in Addr
    PROVE  /\ (\A j \in 1..k : q[j].addr # a) => Cache!Drained(m, q, k)[a] = m[a]
           /\ \A j \in 1..k : q[j].addr = a => Cache!Drained(m, q, k)[a] = q[j].val
<1>1. \A j \in 1..k : q[j].addr \in DOMAIN m => Cache!Drained(m, q, k)[q[j].addr] = q[j].val
  BY StoredOK DEF Stored
<1> QED  BY <1>1, KeptBlock DEF DiskOK

LEMMA ContentsKept ==
    ASSUME NEW m, NEW q, DiskOK(m), QueueOK(q), NEW k \in 0..Len(q), NEW e, Placed(e), Spares(q, e)
    PROVE  Contents(Cache!Drained(m, q, k), e) = Contents(m, e)
<1>1. \A j \in 1..k : j \in 1..Len(q)
  BY DEF QueueOK, IsQueue
<1>2. ASSUME NEW j \in 1..e.len
      PROVE  Cache!Drained(m, q, k)[DataBlock(e.start + j - 1)] = m[DataBlock(e.start + j - 1)]
  <2>1. DataBlock(e.start + j - 1) \in Addr
    BY PlacedBlocks
  <2>2. \A i \in 1..k : q[i].addr # DataBlock(e.start + j - 1)
    BY <1>1 DEF Spares
  <2> QED  BY <2>1, <2>2, KeptBlock
<1> QED  BY <1>2 DEF Contents

LEMMA FilesKept ==
    ASSUME NEW m, NEW q, DiskOK(m), QueueOK(q), NEW k \in 0..Len(q),
           NEW d \in FsDir, InRange(d), Avoids(q, d)
    PROVE  Files(Cache!Drained(m, q, k), d) = Files(m, d)
<1>1. ASSUME NEW i \in File
      PROVE  Contents(Cache!Drained(m, q, k), d[i]) = Contents(m, d[i])
  BY PlacedIn, ContentsKept DEF Avoids
<1> QED  BY <1>1, SameFiles

LEMMA ViewDrained ==
    ASSUME NEW m, NEW q, QueueOK(q)
    PROVE  Cache!View(m, q) = Cache!Drained(m, q, Len(q)) /\ Len(q) \in 0..Len(q) /\ 0 \in 0..Len(q)
<1>1. Len(q) \in Nat
  BY DEF QueueOK, IsQueue
<1> QED  BY <1>1 DEF Cache!View

LEMMA NoDataAvoids ==
    ASSUME NEW q, NoData(q), NEW d \in FsDir, InRange(d)
    PROVE  Avoids(q, d)
<1> SUFFICES ASSUME NEW i \in File, NEW k \in 1..d[i].len, NEW j \in 1..Len(q)
             PROVE  q[j].addr # DataBlock(d[i].start + k - 1)
  BY DEF Avoids, Spares
<1>1. d[i].start + k - 1 \in 1..NBlocks
  BY PlacedIn, PlacedBlocks
<1> QED  BY <1>1 DEF NoData

LEMMA AvoidsMerged ==
    ASSUME NEW q, NEW ws, NEW n \in 0..Len(ws), NEW r, Merged(q, ws, n, r), QueueOK(ws),
           NEW d, Avoids(q, d), Avoids(ws, d)
    PROVE  Avoids(r, d)
<1>1. \A i \in 1..n : i \in 1..Len(ws)
  BY DEF QueueOK, IsQueue
<1>2. \A k \in 1..Len(r) : (\E j \in 1..Len(q) : r[k] = q[j]) \/ \E j \in 1..Len(ws) : r[k] = ws[j]
  BY <1>1 DEF Merged
<1>3. ASSUME NEW i \in File, NEW x \in 1..d[i].len, NEW k \in 1..Len(r)
      PROVE  r[k].addr # DataBlock(d[i].start + x - 1)
  <2> DEFINE b == DataBlock(d[i].start + x - 1)
  <2>1. \A j \in 1..Len(q) : q[j].addr # b
    BY DEF Avoids, Spares
  <2>2. \A j \in 1..Len(ws) : ws[j].addr # b
    BY DEF Avoids, Spares
  <2> HIDE DEF b
  <2>3. r[k].addr # b
    BY <1>2, <2>1, <2>2
  <2> QED  BY <2>3 DEF b
<1> QED  BY <1>3 DEF Avoids, Spares
-----------------------------------------------------------------------------
LEMMA HeaderGen ==
    ASSUME NEW m, DiskOK(m), NEW c \in {0, 1}
    PROVE  m[Header(c)].gen \in 0..(GenMod - 1) /\ 1 - c \in {0, 1}
  BY AddrFacts DEF DiskOK, BlockFits

LEMMA NotBothAhead ==
    ASSUME NEW a \in 0..(GenMod - 1), NEW b \in 0..(GenMod - 1), (a + 1) % GenMod = b
    PROVE  (b + 1) % GenMod # a
<1>1. b = IF a + 1 < GenMod THEN a + 1 ELSE 0
  BY NextGenIs
<1>2. (b + 1) % GenMod = IF b + 1 < GenMod THEN b + 1 ELSE 0
  BY NextGenIs
<1> QED  BY <1>1, <1>2, GenFacts

LEMMA OneNewest ==
    ASSUME NEW m, DiskOK(m), NEW c \in {0, 1}, NEW t \in {0, 1}, Newest(m, c), Newest(m, t)
    PROVE  c = t
<1> SUFFICES ASSUME c # t PROVE FALSE
  OBVIOUS
<1>1. 1 - c = t /\ 1 - t = c
  OBVIOUS
<1>2. (m[Header(t)].gen + 1) % GenMod = m[Header(c)].gen /\ (m[Header(c)].gen + 1) % GenMod = m[Header(t)].gen
  BY <1>1 DEF Newest, Vouched
<1> QED  BY <1>2, HeaderGen, NotBothAhead

LEMMA ChosenNewest ==
    ASSUME NEW m, DiskOK(m), NEW c \in {0, 1}, Newest(m, c)
    PROVE  Chosen(m, {0, 1}) = {c}
<1>1. SlotValid(m, c)
  <2> DEFINE h == [magic |-> TRUE, gen |-> m[Header(c)].gen, sum |-> dir_sum(SlotDir(m, c))]
  <2>1. m[Header(c)] = h
    BY DEF Newest, Vouched
  <2>2. h.magic /\ h.sum = dir_sum(SlotDir(m, c))
    OBVIOUS
  <2> HIDE DEF h
  <2> QED  BY <2>1, <2>2 DEF SlotValid
<1> DEFINE a == m[Header(1)].gen
           b == m[Header(0)].gen
           valid == {s \in {0, 1} : SlotValid(m, s)}
<1>2. a \in 0..(GenMod - 1) /\ b \in 0..(GenMod - 1)
  BY HeaderGen
<1>3. Chosen(m, {0, 1}) = {s \in valid : \A t \in valid \ {s} :
        IF s = 1 THEN generation_newer(a, b) ELSE ~generation_newer(a, b)}
  BY DEF Chosen
<1>4. (m[Header(1 - c)].gen + 1) % GenMod = m[Header(c)].gen
  BY DEF Newest, Vouched
<1>5. c = 1 => (b + 1) % GenMod = a
  BY <1>4
<1>6. c = 0 => (a + 1) % GenMod = b
  BY <1>4
<1>7. c \in valid /\ valid \subseteq {0, 1}
  BY <1>1
<1> HIDE DEF a, b, valid
<1>8. (c = 1 => generation_newer(a, b)) /\ (c = 0 => ~generation_newer(a, b))
  BY <1>2, <1>5, <1>6, GenerationAhead
<1>9. c \in Chosen(m, {0, 1})
  BY <1>3, <1>7, <1>8
<1>10. ASSUME NEW s \in Chosen(m, {0, 1}), s # c PROVE FALSE
  <2>1. s \in valid /\ c \in valid \ {s}
    BY <1>3, <1>7, <1>10
  <2>2. IF s = 1 THEN generation_newer(a, b) ELSE ~generation_newer(a, b)
    BY <1>3, <1>10, <2>1
  <2> QED  BY <1>7, <1>8, <1>10, <2>1, <2>2
<1> QED  BY <1>9, <1>10

LEMMA RecoveredNewest ==
    ASSUME NEW m, DiskOK(m), NEW c \in {0, 1}, Newest(m, c), m[SB] # 0
    PROVE  Recovered(m) = Outcome("ok", Files(m, SlotDir(m, c)))
<1>1. Chosen(m, {0, 1}) = {c}
  BY ChosenNewest
<1>2. InRange(SlotDir(m, c))
  BY DEF Newest, Vouched, Disjoint
<1>3. (CHOOSE s \in {c} : TRUE) = c
  OBVIOUS
<1> QED  BY <1>1, <1>2, <1>3 DEF Recovered

LEMMA RecoveredBlank ==
    ASSUME NEW m, m[SB] = 0
    PROVE  Recovered(m) = Unset
  BY DEF Recovered, Unset
-----------------------------------------------------------------------------
(***************************************************************************)
(* What a power cut finds: wherever a flush stops, the volume is blank or  *)
(* the one of the slot that was the newest.                                *)
(***************************************************************************)
LEMMA SameDisk ==
    ASSUME NEW m, NEW r, DiskOK(m), DiskOK(r), \A a \in Addr : m[a] = r[a]
    PROVE  m = r
<1>1. m = [a \in Addr |-> m[a]] /\ r = [a \in Addr |-> r[a]]
  BY DEF DiskOK, IsFunction
<1>2. [a \in Addr |-> m[a]] = [a \in Addr |-> r[a]]
  OBVIOUS
<1> QED  BY <1>1, <1>2

\* What a flush that stopped leaves can be drained to nothing the whole queue
\* could not.
LEMMA DrainedAgain ==
    ASSUME NEW m, NEW q, DiskOK(m), QueueOK(q), NEW k \in 0..Len(q), NEW l \in 0..k,
           NEW j \in 0..(Len(q) - l)
    PROVE  \E n \in 0..Len(q) :
             /\ Cache!Drained(Cache!Drained(m, q, k), Cache!DropFirst(q, l), j) = Cache!Drained(m, q, n)
             /\ j = Len(q) - l => n = Len(q)
<1> DEFINE p == Cache!DropFirst(q, l)
           r1 == Cache!Drained(m, q, k)
           r2 == Cache!Drained(r1, p, j)
           n == IF k >= l + j THEN k ELSE l + j
           r3 == Cache!Drained(m, q, n)
<1>1. Len(q) \in Nat /\ k \in Nat /\ l \in Nat /\ j \in Nat /\ l <= k /\ k <= Len(q) /\ l + j <= Len(q)
  BY DEF QueueOK, IsQueue
<1>2. /\ QueueOK(p) /\ Len(p) = Len(q) - l
      /\ \A i \in 1..j : l + i \in 1..Len(q) /\ p[i] = q[l + i]
  <2>1. l \in 0..Len(q)
    BY <1>1
  <2>2. /\ QueueOK(p) /\ Len(p) = Len(q) - l
        /\ \A i \in 1..(Len(q) - l) : l + i \in 1..Len(q) /\ p[i] = q[l + i]
    BY <2>1, DropFirstOK
  <2> HIDE DEF p
  <2>3. \A i \in 1..j : i \in 1..(Len(q) - l)
    BY <1>1
  <2> QED  BY <2>2, <2>3
<1>3. n \in 0..Len(q) /\ n \in Nat /\ k <= n /\ l + j <= n /\ (n = k \/ n = l + j)
  BY <1>1
<1> HIDE DEF p, n
<1>4. j \in 0..Len(p)
  BY <1>1, <1>2
<1>5. DiskOK(r1) /\ DiskOK(r3)
  BY <1>3, StoredOK
<1> HIDE DEF r1
<1>6. DiskOK(r2)
  BY <1>2, <1>4, <1>5, StoredOK
<1>10. /\ \A a \in Addr : (\A i \in 1..j : p[i].addr # a) => r2[a] = r1[a]
       /\ \A a \in Addr : \A i \in 1..j : p[i].addr = a => r2[a] = p[i].val
  <2>1. QueueOK(p)
    BY <1>2
  <2>2. ASSUME NEW a \in Addr
        PROVE  /\ (\A i \in 1..j : p[i].addr # a) => r2[a] = r1[a]
               /\ \A i \in 1..j : p[i].addr = a => r2[a] = p[i].val
    BY <1>4, <1>5, <2>1, DrainedBlock, SMTT(30)
  <2> QED  BY <2>2
<1> HIDE DEF r2, r3
<1>7. ASSUME NEW a \in Addr PROVE r2[a] = r3[a]
  <2>1. CASE \E i \in 1..j : p[i].addr = a
    <3>1. PICK i \in 1..j : p[i].addr = a
      BY <2>1
    <3>2. r2[a] = p[i].val
      BY <1>10, <3>1
    <3>3. l + i \in 1..n /\ q[l + i].addr = a /\ p[i] = q[l + i]
      BY <1>1, <1>2, <1>3, <3>1
    <3>4. r3[a] = q[l + i].val
      BY <1>3, <3>3, DrainedBlock DEF r3
    <3> QED  BY <3>2, <3>3, <3>4
  <2>2. CASE ~\E i \in 1..j : p[i].addr = a
    <3>1. r2[a] = r1[a]
      BY <1>10, <2>2
    <3>2. CASE \E i \in 1..k : q[i].addr = a
      <4>1. PICK i \in 1..k : q[i].addr = a
        BY <3>2
      <4>2. i \in 1..n
        BY <1>1, <1>3
      <4>3. r1[a] = q[i].val /\ r3[a] = q[i].val
        BY <1>3, <4>1, <4>2, DrainedBlock DEF r1, r3
      <4> QED  BY <3>1, <4>3
    <3>3. CASE ~\E i \in 1..k : q[i].addr = a
      <4>1. r1[a] = m[a]
        BY <3>3, DrainedBlock DEF r1
      <4>2. ASSUME NEW i \in 1..n, q[i].addr = a PROVE FALSE
        <5>1. ~(i \in 1..k)
          BY <3>3, <4>2
        <5>2. i - l \in 1..j /\ l + (i - l) = i
          BY <1>1, <1>3, <5>1
        <5>3. p[i - l] = q[i]
          BY <1>2, <5>2
        <5> QED  BY <2>2, <4>2, <5>2, <5>3
      <4>3. r3[a] = m[a]
        BY <1>3, <4>2, DrainedBlock, SMTT(30) DEF r3
      <4> QED  BY <3>1, <4>1, <4>3
    <3> QED  BY <3>2, <3>3
  <2> QED  BY <2>1, <2>2
<1>8. r2 = r3
  BY <1>5, <1>6, <1>7, SameDisk
<1>9. j = Len(q) - l => n = Len(q)
  BY <1>1, <1>3
<1> QED  BY <1>3, <1>8, <1>9 DEF r1, r2, r3, p

LEMMA CrashShrinks ==
    ASSUME NEW m, NEW q, DiskOK(m), QueueOK(q), NEW k \in 0..Len(q), NEW l \in 0..k
    PROVE  /\ CrashOutcomes(Cache!Drained(m, q, k), Cache!DropFirst(q, l)) \subseteq CrashOutcomes(m, q)
           /\ Cache!View(Cache!Drained(m, q, k), Cache!DropFirst(q, l)) = Cache!View(m, q)
<1> DEFINE p == Cache!DropFirst(q, l)
           r == Cache!Drained(m, q, k)
<1>1. Len(q) \in Nat /\ l \in 0..Len(q) /\ Len(q) - l \in 0..(Len(q) - l)
  BY DEF QueueOK, IsQueue
<1>2. Len(p) = Len(q) - l
  BY <1>1, DropFirstOK
<1>3. ASSUME NEW j \in 0..(Len(q) - l)
      PROVE  \E n \in 0..Len(q) : Cache!Drained(r, p, j) = Cache!Drained(m, q, n) /\ (j = Len(q) - l => n = Len(q))
  BY DrainedAgain
<1> HIDE DEF p, r
<1>4. CrashOutcomes(r, p) \subseteq CrashOutcomes(m, q)
  <2>1. CrashDisks(r, p) \subseteq CrashDisks(m, q)
    BY <1>2, <1>3 DEF CrashDisks
  <2> QED  BY <2>1 DEF CrashOutcomes
<1>5. Cache!Drained(r, p, Len(p)) = Cache!Drained(m, q, Len(q))
  BY <1>1, <1>2, <1>3
<1> QED  BY <1>4, <1>5 DEF p, r, Cache!View

LEMMA CrashEmpty ==
    ASSUME NEW m
    PROVE  CrashOutcomes(m, <<>>) = {Recovered(m)} /\ Cache!View(m, <<>>) = m
<1>1. Len(<<>>) = 0 /\ 0..0 = {0}
  BY EmptyOK
<1>2. CrashDisks(m, <<>>) = {m}
  BY <1>1, NothingStored DEF CrashDisks
<1> QED  BY <1>1, <1>2, NothingStored DEF CrashOutcomes, Cache!View

LEMMA CrashOutcome ==
    ASSUME NEW m, NEW q, NEW k \in 0..Len(q)
    PROVE  Recovered(Cache!Drained(m, q, k)) \in CrashOutcomes(m, q)
  BY DEF CrashOutcomes, CrashDisks

\* Of the disk and of the queue drained, whichever is asked for.
LEMMA CrashEnds ==
    ASSUME NEW m, NEW q, QueueOK(q)
    PROVE  Recovered(m) \in CrashOutcomes(m, q) /\ Recovered(Cache!View(m, q)) \in CrashOutcomes(m, q)
  BY ViewDrained, CrashOutcome, NothingStored
-----------------------------------------------------------------------------
\* No write is queued for the contents of a directory the disk vouches for.
Untouched(m, q) == \A c \in {0, 1} : Newest(m, c) => Avoids(q, SlotDir(m, c))
Intact(m, q) == Blanked(m, q) \/ Untouched(m, q)

\* What is found while the superblock is set.
Kept(m) == Outcome("ok", Files(m, SlotDir(m, CHOOSE c \in {0, 1} : Newest(m, c))))

LEMMA KeptIs ==
    ASSUME NEW m, DiskOK(m), NEW c \in {0, 1}, Newest(m, c)
    PROVE  Kept(m) = Outcome("ok", Files(m, SlotDir(m, c)))
<1>1. (CHOOSE t \in {0, 1} : Newest(m, t)) = c
  BY OneNewest
<1> QED  BY <1>1 DEF Kept

LEMMA NewestRange ==
    ASSUME NEW m, DiskOK(m), NEW c \in {0, 1}, Newest(m, c)
    PROVE  SlotDir(m, c) \in FsDir /\ InRange(SlotDir(m, c)) /\ Disjoint(SlotDir(m, c))
  BY SlotDirOK DEF Newest, Vouched, Disjoint

\* Until a blank superblock is stored, the slot in use is the one it was.
LEMMA NewestStored ==
    ASSUME NEW m, NEW q, DiskOK(m), QueueOK(q), NoHeaders(q), Sound(m, q), NEW k \in 0..Len(q),
           ~Blanked(m, q), ~\E j \in 1..k : Blanks(q[j])
    PROVE  \E c \in {0, 1} :
             /\ Newest(m, c) /\ Newest(Cache!Drained(m, q, k), c)
             /\ SlotDir(Cache!Drained(m, q, k), c) = SlotDir(m, c)
<1>1. \A j \in 1..k : j \in 1..Len(q)
  BY DEF QueueOK, IsQueue
<1>2. PICK c \in {0, 1} : Newest(m, c) /\ \A j \in 1..k, i \in File : q[j].addr # DirBlock(c, i)
  <2>1. CASE Newest(m, 0) /\ Clear(q, 0)
    BY <1>1, <2>1 DEF Clear
  <2>2. CASE Newest(m, 1) /\ Guarded(q)
    <3>1. ASSUME NEW j \in 1..k, NEW i \in File PROVE q[j].addr # DirBlock(1, i)
      <4>1. \A b \in 1..(j - 1) : b \in 1..k
        BY DEF QueueOK, IsQueue
      <4> QED  BY <1>1, <2>2, <4>1 DEF Guarded
    <3> QED  BY <2>2, <3>1
  <2> QED  BY <2>1, <2>2 DEF Sound
<1>3. /\ Vouched(Cache!Drained(m, q, k), c, m[Header(c)].gen)
      /\ SlotDir(Cache!Drained(m, q, k), c) = SlotDir(m, c)
  BY <1>2, VouchedStored DEF Newest
<1> QED  BY <1>2, <1>3, VouchedIsNewest

LEMMA NotBlanked ==
    ASSUME NEW m, NEW q, DiskOK(m), QueueOK(q), NEW k \in 0..Len(q), Cache!Drained(m, q, k)[SB] # 0
    PROVE  ~Blanked(m, q) /\ ~\E j \in 1..k : Blanks(q[j])
<1>1. \A j \in 1..k : j \in 1..Len(q)
  BY DEF QueueOK, IsQueue
<1> QED  BY <1>1, BlankedStored DEF Blanked

\* Wherever the power goes, the volume is blank or what it was.
LEMMA CrashIs ==
    ASSUME NEW m, NEW q, DiskOK(m), QueueOK(q), NoHeaders(q), Sound(m, q), Intact(m, q),
           NEW k \in 0..Len(q)
    PROVE  Recovered(Cache!Drained(m, q, k)) =
             IF Cache!Drained(m, q, k)[SB] = 0 THEN Unset ELSE Kept(m)
<1> DEFINE r == Cache!Drained(m, q, k)
<1>1. CASE r[SB] = 0
  BY <1>1, RecoveredBlank
<1>2. CASE r[SB] # 0
  <2>0. ~Blanked(m, q) /\ ~\E j \in 1..k : Blanks(q[j])
    BY <1>2, NotBlanked
  <2>1. PICK c \in {0, 1} : Newest(m, c) /\ Newest(r, c) /\ SlotDir(r, c) = SlotDir(m, c)
    BY <2>0, NewestStored
  <2>2. DiskOK(r)
    BY StoredOK
  <2>3. Avoids(q, SlotDir(m, c))
    BY <2>0, <2>1 DEF Intact, Untouched
  <2>4. SlotDir(m, c) \in FsDir /\ InRange(SlotDir(m, c))
    BY <2>1, NewestRange
  <2>5. Files(r, SlotDir(m, c)) = Files(m, SlotDir(m, c))
    BY <2>3, <2>4, FilesKept
  <2> HIDE DEF r
  <2>6. Recovered(r) = Outcome("ok", Files(r, SlotDir(r, c)))
    BY <1>2, <2>1, <2>2, RecoveredNewest
  <2> QED  BY <1>2, <2>1, <2>5, <2>6, KeptIs DEF r
<1> QED  BY <1>1, <1>2
-----------------------------------------------------------------------------
(***************************************************************************)
(* The second half of the invariant: no write is queued for the contents   *)
(* of a directory the disk vouches for, or the volume is blank and stays   *)
(* so (Intact). Without it an overwritten file could be found half new.    *)
(***************************************************************************)
\* The volume that is mounted, and its blocks, whatever is queued.
Dependable ==
    /\ Intact(disk, queue)
    /\ mounted => Cache!View(disk, queue)[SB] # 0

LEMMA ViewMerged ==
    ASSUME NEW m, NEW q, DiskOK(m), QueueOK(q), NEW ws, NEW n, NEW r, Merged(q, ws, n, r),
           NEW a \in Addr, \A i \in 1..n : ws[i].addr # a
    PROVE  Cache!View(m, r)[a] = Cache!View(m, q)[a]
<1>1. QueueOK(r)
  BY DEF Merged
<1>2. /\ \A b \in Addr : (\A j \in 1..Len(q) : q[j].addr # b) => Cache!View(m, q)[b] = m[b]
      /\ \A b \in Addr : \A j \in 1..Len(q) : q[j].addr = b => Cache!View(m, q)[b] = q[j].val
  BY ViewDrained, DrainedBlock
<1>3. /\ \A b \in Addr : (\A j \in 1..Len(r) : r[j].addr # b) => Cache!View(m, r)[b] = m[b]
      /\ \A b \in Addr : \A j \in 1..Len(r) : r[j].addr = b => Cache!View(m, r)[b] = r[j].val
  BY <1>1, ViewDrained, DrainedBlock
<1>4. CASE \E j \in 1..Len(q) : q[j].addr = a
  <2>1. PICK j \in 1..Len(q) : q[j].addr = a
    BY <1>4
  <2>2. PICK k \in 1..Len(r) : r[k] = q[j]
    BY <2>1 DEF Merged
  <2> QED  BY <1>2, <1>3, <2>1, <2>2
<1>5. CASE ~\E j \in 1..Len(q) : q[j].addr = a
  <2>1. \A k \in 1..Len(r) : r[k].addr # a
    BY <1>5 DEF Merged
  <2> QED  BY <1>2, <1>3, <1>5, <2>1
<1> QED  BY <1>4, <1>5

LEMMA NoDataMerged ==
    ASSUME NEW q, NEW ws, NEW n \in 0..Len(ws), NEW r, Merged(q, ws, n, r), QueueOK(ws),
           NoData(q), NoData(ws)
    PROVE  NoData(r)
<1>1. \A i \in 1..n : i \in 1..Len(ws)
  BY DEF QueueOK, IsQueue
<1>2. \A k \in 1..Len(r) : (\E j \in 1..Len(q) : r[k] = q[j]) \/ \E j \in 1..Len(ws) : r[k] = ws[j]
  BY <1>1 DEF Merged
<1> QED  BY <1>2 DEF NoData

LEMMA NoDataUntouched ==
    ASSUME NEW m, DiskOK(m), NEW q, NoData(q)
    PROVE  Untouched(m, q)
  BY NewestRange, NoDataAvoids DEF Untouched

LEMMA UntouchedMerged ==
    ASSUME NEW m, DiskOK(m), NEW q, NEW ws, NEW n \in 0..Len(ws), NEW r, Merged(q, ws, n, r),
           QueueOK(ws), NoData(ws), Untouched(m, q)
    PROVE  Untouched(m, r)
<1> SUFFICES ASSUME NEW c \in {0, 1}, Newest(m, c) PROVE Avoids(r, SlotDir(m, c))
  BY DEF Untouched
<1>1. Avoids(ws, SlotDir(m, c)) /\ Avoids(q, SlotDir(m, c))
  BY NoDataUntouched DEF Untouched
<1> QED  BY <1>1, AvoidsMerged

LEMMA BlankedMerged ==
    ASSUME NEW m, NEW q, NEW ws, NEW n \in 0..Len(ws), NEW r, Merged(q, ws, n, r), QueueOK(ws),
           Blanked(m, q), \A i \in 1..Len(ws) : ws[i].addr = SB => ws[i].val = 0
    PROVE  Blanked(m, r)
<1>1. \A i \in 1..n : i \in 1..Len(ws)
  BY DEF QueueOK, IsQueue
<1>2. \A k \in 1..Len(r) : (\E j \in 1..Len(q) : r[k] = q[j]) \/ \E j \in 1..Len(ws) : r[k] = ws[j]
  BY <1>1 DEF Merged
<1> QED  BY <1>2 DEF Blanked

LEMMA NoDataEmpty == NoData(<<>>)
  BY EmptyClear DEF NoData

LEMMA NoDataOne ==
    ASSUME NEW a, NEW v, \A b \in 1..NBlocks : a # DataBlock(b)
    PROVE  NoData(<<[addr |-> a, val |-> v]>>)
<1> DEFINE e == [addr |-> a, val |-> v]
<1>1. e.addr = a
  OBVIOUS
<1> HIDE DEF e
<1>2. Len(<<e>>) = 1 /\ <<e>>[1] = e /\ 1..1 = {1}
  OBVIOUS
<1>3. NoData(<<e>>)
  BY <1>1, <1>2 DEF NoData
<1> QED  BY <1>3 DEF e

LEMMA NoDataSb == ASSUME NEW v PROVE NoData(SbWrite(v))
  BY NoDataOne, AddrFacts DEF SbWrite

LEMMA NoDataHeader ==
    ASSUME NEW s \in {0, 1}, NEW g, NEW d
    PROVE  NoData(HeaderWrite(s, g, d))
  BY NoDataOne, AddrFacts DEF HeaderWrite

LEMMA NoDataDir ==
    ASSUME NEW s \in {0, 1}, NEW d \in FsDir
    PROVE  /\ NoData(DirWrites(s, d)) /\ QueueOK(DirWrites(s, d)) /\ Len(DirWrites(s, d)) = MaxFiles
           /\ \A i \in 1..Len(DirWrites(s, d)) : DirWrites(s, d)[i].addr # SB
<1> DEFINE ws == DirWrites(s, d)
<1>1. QueueOK(ws) /\ Len(ws) = MaxFiles /\ File = 1..MaxFiles
  BY DirWritesOK DEF File
<1>2. ASSUME NEW i \in File PROVE ws[i].addr = DirBlock(s, i)
  <2>1. ws[i] = [addr |-> DirBlock(s, i), val |-> d[i]]
    BY DirWritesOK
  <2> HIDE DEF ws
  <2> QED  BY <2>1
<1>3. \A i \in 1..Len(ws) : ws[i].addr # SB
  BY DirWritesClear
<1> HIDE DEF ws
<1>4. NoData(ws)
  BY <1>1, <1>2, AddrFacts DEF NoData
<1> QED  BY <1>1, <1>3, <1>4 DEF ws

\* What dir_write_slot leaves of a queue, seen from outside the slot.
LEMMA DirSlotQueue ==
    ASSUME NEW q, QueueOK(q), NEW kind, NEW s \in {0, 1}, NEW g, NEW d \in FsDir,
           DirWriteSlot(q, kind, s, g, d)
    PROVE  /\ NoData(q) => NoData(queue')
           /\ \A m : DiskOK(m) =>
                /\ Untouched(m, q) => Untouched(m, queue')
                /\ Blanked(m, q) => Blanked(m, queue')
                /\ Cache!View(m, queue')[SB] = Cache!View(m, q)[SB]
<1> DEFINE ws == DirWrites(s, d)
<1>1. PICK n \in 0..MaxFiles : Merged(q, ws, n, queue')
  BY DirWriteSlotFacts
<1>2. NoData(ws) /\ QueueOK(ws) /\ Len(ws) = MaxFiles /\ \A i \in 1..Len(ws) : ws[i].addr # SB
  BY NoDataDir
<1> HIDE DEF ws
<1>3. n \in 0..Len(ws) /\ \A i \in 1..n : ws[i].addr # SB
  BY <1>2, SizeFacts
<1>4. NoData(q) => NoData(queue')
  BY <1>1, <1>2, <1>3, NoDataMerged
<1>5. ASSUME NEW m, DiskOK(m)
      PROVE  /\ Untouched(m, q) => Untouched(m, queue')
             /\ Blanked(m, q) => Blanked(m, queue')
             /\ Cache!View(m, queue')[SB] = Cache!View(m, q)[SB]
  BY <1>1, <1>2, <1>3, <1>5, UntouchedMerged, BlankedMerged, ViewMerged, AddrFacts
<1> QED  BY <1>4, <1>5

LEMMA IntactStored ==
    ASSUME NEW m, NEW q, DiskOK(m), QueueOK(q), NoHeaders(q), Sound(m, q), Intact(m, q),
           NEW k \in 0..Len(q), NEW l \in 0..k
    PROVE  Intact(Cache!Drained(m, q, k), Cache!DropFirst(q, l))
<1> DEFINE r == Cache!Drained(m, q, k)
           p == Cache!DropFirst(q, l)
<1>1. Len(q) \in Nat /\ l \in 0..Len(q) /\ \A j \in 1..k : j \in 1..Len(q)
  BY DEF QueueOK, IsQueue
<1>2. \A i \in 1..Len(p) : l + i \in 1..Len(q) /\ p[i] = q[l + i]
  <2>1. /\ Len(p) = Len(q) - l
        /\ \A i \in 1..(Len(q) - l) : l + i \in 1..Len(q) /\ p[i] = q[l + i]
    BY <1>1, DropFirstOK
  <2> HIDE DEF p
  <2> QED  BY <2>1
<1>3. DiskOK(r)
  BY StoredOK
<1> HIDE DEF p, r
<1>4. CASE Blanked(m, q) \/ \E j \in 1..k : Blanks(q[j])
  <2>1. r[SB] = 0
    BY <1>1, <1>4, BlankedStored DEF r, Blanked
  <2>2. ASSUME NEW i \in 1..Len(p), p[i].addr = SB PROVE p[i].val = 0
    <3>1. l + i \in 1..Len(q) /\ q[l + i].addr = SB /\ p[i] = q[l + i]
      BY <1>2, <2>2
    <3>2. CASE Blanked(m, q)
      BY <3>1, <3>2 DEF Blanked
    <3>3. CASE \E j \in 1..k : Blanks(q[j])
      <4>1. PICK j \in 1..k : Blanks(q[j])
        BY <3>3
      <4>2. j = l + i
        BY <1>1, <3>1, <4>1 DEF QueueOK, Distinct, Blanks
      <4> QED  BY <3>1, <4>1, <4>2 DEF Blanks
    <3> QED  BY <1>4, <3>2, <3>3
  <2> QED  BY <2>1, <2>2 DEF Intact, Blanked, r, p
<1>5. CASE ~Blanked(m, q) /\ ~\E j \in 1..k : Blanks(q[j])
  <2>1. PICK c \in {0, 1} : Newest(m, c) /\ Newest(r, c) /\ SlotDir(r, c) = SlotDir(m, c)
    BY <1>5, NewestStored DEF r
  <2>2. Avoids(q, SlotDir(m, c))
    BY <1>5, <2>1 DEF Intact, Untouched
  <2>3. Avoids(p, SlotDir(m, c))
    BY <1>2, <2>2 DEF Avoids, Spares
  <2>4. \A t \in {0, 1} : Newest(r, t) => t = c
    BY <1>3, <2>1, OneNewest
  <2> QED  BY <2>1, <2>3, <2>4 DEF Intact, Untouched, r, p
<1> QED  BY <1>4, <1>5
-----------------------------------------------------------------------------
\* While a directory is mounted, its contents are on the disk.
LEMMA MountedFacts ==
    ASSUME VolumeOK, Recoverable, Dependable, mounted
    PROVE  /\ active \in {0, 1} /\ DiskOK(disk) /\ QueueOK(queue)
           /\ Newest(disk, active) /\ SlotDir(disk, active) = dir /\ Disjoint(dir)
           /\ dir \in FsDir /\ InRange(dir)
           /\ \A c \in {0, 1} : Newest(disk, c) => c = active
           /\ Untouched(disk, queue) /\ Avoids(queue, dir)
           /\ Kept(disk) = Outcome("ok", Files(disk, dir))
<1>1. /\ active \in {0, 1} /\ DiskOK(disk) /\ QueueOK(queue) /\ dir \in FsDir /\ InRange(dir)
      /\ Vouched(disk, active, gen) /\ SlotDir(disk, active) = dir
  BY DEF VolumeOK, Recoverable
<1>2. Newest(disk, active) /\ Disjoint(dir)
  BY <1>1, VouchedIsNewest DEF Vouched
<1>3. \A c \in {0, 1} : Newest(disk, c) => c = active
  BY <1>1, <1>2, OneNewest
<1>4. Untouched(disk, queue)
  <2>1. Cache!Drained(disk, queue, Len(queue))[SB] # 0 /\ Len(queue) \in 0..Len(queue)
    BY <1>1, ViewDrained DEF Dependable
  <2>2. ~Blanked(disk, queue)
    BY <1>1, <2>1, NotBlanked
  <2> QED  BY <2>2 DEF Dependable, Intact
<1>5. Avoids(queue, dir)
  BY <1>1, <1>2, <1>4 DEF Untouched
<1>6. Kept(disk) = Outcome("ok", Files(disk, dir))
  BY <1>1, <1>2, KeptIs
<1> QED  BY <1>1, <1>2, <1>3, <1>4, <1>5, <1>6

\* The steps of the invariant.
LEMMA DependableInit == Init => Dependable
<1> SUFFICES ASSUME Init PROVE Dependable
  OBVIOUS
<1>1. DiskOK(disk) /\ queue = <<>> /\ mounted = FALSE
  BY TypesInit DEF Init, VolumeOK
<1> QED  BY <1>1, NoDataEmpty, NoDataUntouched DEF Dependable, Intact

LEMMA DependableMkfs ==
    ASSUME VolumeOK, Dependable, fs_mkfs
    PROVE  Dependable'
<1>1. mounted' = FALSE /\ disk' = disk /\ DiskOK(disk) /\ QueueOK(queue)
  BY DEF fs_mkfs, VolumeOK
<1>2. Intact(disk, queue)
  BY DEF Dependable
<1> DEFINE r == WriteBlocks(queue, SbWrite(0)).queue
<1>3. QueueOK(SbWrite(0)) /\ Len(SbWrite(0)) = 1 /\ SbWrite(0)[1] = [addr |-> SB, val |-> 0]
  BY SbWriteOK
<1>4. SbWrite(0)[1].val = 0 /\ 1..1 = {1}
  BY <1>3
<1>5. CASE WriteBlocks(queue, SbWrite(0)).all
  <2>1. DirWriteSlot(r, "format1", 1, 0, NoDir)
    BY <1>5 DEF fs_mkfs
  <2>2. PICK n \in 0..Len(SbWrite(0)) : Merged(queue, SbWrite(0), n, r)
    BY <1>1, <1>3, WrittenFacts
  <2> HIDE DEF r
  <2>3. QueueOK(r)
    BY <2>2 DEF Merged
  <2>4. Untouched(disk, queue) => Untouched(disk, r)
    BY <1>1, <1>3, <2>2, NoDataSb, UntouchedMerged
  <2>5. Blanked(disk, queue) => Blanked(disk, r)
    BY <1>3, <1>4, <2>2, BlankedMerged
  <2>6. (Untouched(disk, r) => Untouched(disk, queue')) /\ (Blanked(disk, r) => Blanked(disk, queue'))
    BY <1>1, <2>1, <2>3, NoDirOK, DirSlotQueue
  <2> QED  BY <1>1, <1>2, <2>4, <2>5, <2>6 DEF Dependable, Intact
<1>6. CASE ~WriteBlocks(queue, SbWrite(0)).all
  <2>1. queue' = queue
    BY <1>6 DEF fs_mkfs
  <2> QED  BY <1>1, <1>2, <2>1 DEF Dependable
<1> QED  BY <1>5, <1>6

\* A call that only writes a directory.
LEMMA DependableEdit ==
    ASSUME VolumeOK, Recoverable, Dependable, mounted, NEW d \in FsDir, DirCommit(queue, d),
           UNCHANGED <<disk, mounted>>
    PROVE  Dependable'
<1>1. DiskOK(disk) /\ QueueOK(queue) /\ Untouched(disk, queue) /\ active \in {0, 1}
  BY MountedFacts
<1>2. 1 - active \in {0, 1} /\ DirWriteSlot(queue, "edit", 1 - active, NextGen, d)
  BY <1>1 DEF DirCommit
<1>3. Untouched(disk, queue') /\ Cache!View(disk, queue')[SB] = Cache!View(disk, queue)[SB]
  BY <1>1, <1>2, DirSlotQueue
<1> QED  BY <1>3 DEF Dependable, Intact

\* The queue after fs_write: up to n blocks of the new run have been taken.
WriteQueue(i, len, v) ==
    DataWrites(WriteBase(i, blocks_for(len)), blocks_for(len), len, v)

LEMMA FsWriteQueue ==
    ASSUME VolumeOK, NEW i \in File, NEW len \in 0..MaxRun, NEW v \in Data, fs_write(i, len, v)
    PROVE  /\ WriteBase(i, blocks_for(len)) \in Nat /\ blocks_for(len) \in Nat \ {0} /\ len \in Nat
           /\ len <= blocks_for(len)
           /\ WriteBase(i, blocks_for(len)) >= 1
           /\ WriteBase(i, blocks_for(len)) + blocks_for(len) <= DataEnd
           /\ QueueOK(WriteQueue(i, len, v)) /\ Len(WriteQueue(i, len, v)) = blocks_for(len)
           /\ \A k \in 1..blocks_for(len) :
                /\ WriteQueue(i, len, v)[k].addr = DataBlock(WriteBase(i, blocks_for(len)) + k - 1)
                /\ WriteQueue(i, len, v)[k].val = IF k <= len THEN v ELSE 0
           /\ \E n \in 0..blocks_for(len) :
                /\ Merged(queue, WriteQueue(i, len, v), n, queue')
                /\ op' = IF n = blocks_for(len) THEN DataOp(Rewritten(i, len)) ELSE NoOp
<1> DEFINE need == blocks_for(len)
           base == WriteBase(i, need)
           ws == DataWrites(base, need, len, v)
           w == WriteBlocks(queue, ws)
<1>1. i \in Used(dir) /\ len \in Nat /\ need \in Nat \ {0} /\ len <= need
  BY SizeFacts, BlocksFor DEF fs_write
<1>2. base # 0 /\ queue' = w.queue /\ op' = IF w.all THEN DataOp(Rewritten(i, len)) ELSE NoOp
  BY DEF fs_write, DataWrites, DataOp, Rewritten
<1>3. base \in Nat /\ base >= 1 /\ base + need <= DataEnd
  BY <1>1, <1>2, WriteBasePlaceable DEF VolumeOK
<1>4. ws = WriteQueue(i, len, v)
  BY DEF WriteQueue
<1> HIDE DEF need, base
<1>5. QueueOK(ws) /\ Len(ws) = need
  BY <1>1, <1>3, DataWritesOK
<1>6. ASSUME NEW k \in 1..need
      PROVE  ws[k].addr = DataBlock(base + k - 1) /\ ws[k].val = IF k <= len THEN v ELSE 0
  <2>1. ws[k] = [addr |-> DataBlock(base + k - 1), val |-> IF k <= len THEN v ELSE 0]
    BY <1>6 DEF DataWrites
  <2> HIDE DEF ws
  <2> QED  BY <2>1
<1> HIDE DEF ws
<1>7. PICK n \in 0..Len(ws) : Merged(queue, ws, n, queue') /\ w.all = (n = Len(ws))
  BY <1>2, <1>5, WrittenFacts DEF VolumeOK
<1>8. Merged(queue, ws, n, queue') /\ op' = IF n = need THEN DataOp(Rewritten(i, len)) ELSE NoOp
  BY <1>2, <1>5, <1>7
<1> QED  BY <1>1, <1>3, <1>4, <1>5, <1>6, <1>7, <1>8 DEF need, base

\* The run fs_write puts a file in holds nothing that is published.
LEMMA WriteApart ==
    ASSUME dir \in FsDir, Disjoint(dir), NEW i \in Used(dir), NEW len \in Nat,
           WriteBase(i, blocks_for(len)) # 0, NEW j \in Used(dir), dir[j].len # 0
    PROVE  \/ dir[j].start + dir[j].blocks <= WriteBase(i, blocks_for(len))
           \/ WriteBase(i, blocks_for(len)) + blocks_for(len) <= dir[j].start
<1> DEFINE need == blocks_for(len)
           base == WriteBase(i, need)
           e == [name |-> dir[i].name, start |-> base, len |-> len, blocks |-> need]
<1>1. InRange(dir) /\ need \in Nat \ {0}
  BY BlocksFor DEF Disjoint
<1>2. dir[j].start \in Nat /\ dir[j].blocks \in Nat \ {0}
  BY <1>1, InRangeFacts
<1>3. CASE dir[i].len = 0 /\ need <= dir[i].blocks
  <2>1. j # i
    BY <1>3
  <2>2. Placeable(dir, i, e)
    BY <1>1, WriteBasePlaceable
  <2>3. e.start = base /\ e.blocks = need
    OBVIOUS
  <2> HIDE DEF e, need, base
  <2> QED  BY <2>1, <2>2, <2>3 DEF Placeable, need, base
<1>4. CASE ~(dir[i].len = 0 /\ need <= dir[i].blocks)
  <2>1. base = alloc_run(dir, need) /\ base # 0
    BY <1>4 DEF WriteBase
  <2> HIDE DEF need, base
  <2>2. base \in Nat /\ base \in Fits(dir, need)
    <3>1. FirstFit(dir, need, base) /\ base \in Nat
      BY <1>1, <2>1, AllocRunFirstFit, AllocRunInRange
    <3> QED  BY <2>1, <3>1 DEF FirstFit
  <2>3. Run(dir, j) \cap (base..(base + need - 1)) = {}
    BY <2>2 DEF Fits
  <2> QED  BY <1>1, <1>2, <2>2, <2>3, Apart DEF Run, need, base
<1> QED  BY <1>3, <1>4

LEMMA WriteAvoids ==
    ASSUME VolumeOK, Recoverable, Dependable, NEW i \in File, NEW len \in 0..MaxRun, NEW v \in Data,
           fs_write(i, len, v)
    PROVE  Avoids(queue', dir)
<1> DEFINE ws == WriteQueue(i, len, v)
           need == blocks_for(len)
           base == WriteBase(i, need)
<1>1. mounted /\ i \in Used(dir) /\ base # 0
  BY DEF fs_write
<1>2. Avoids(queue, dir) /\ dir \in FsDir /\ InRange(dir) /\ Disjoint(dir)
  BY <1>1, MountedFacts
<1>3. /\ QueueOK(ws) /\ Len(ws) = need /\ base \in Nat /\ need \in Nat /\ base >= 1 /\ base + need <= DataEnd
      /\ \A k \in 1..need : ws[k].addr = DataBlock(base + k - 1)
      /\ len \in Nat
  BY FsWriteQueue
<1>4. PICK n \in 0..need : Merged(queue, ws, n, queue')
  BY FsWriteQueue
<1>5. \A j \in Used(dir) : dir[j].len # 0 =>
        dir[j].start + dir[j].blocks <= base \/ base + need <= dir[j].start
  BY <1>1, <1>2, <1>3, WriteApart
<1> HIDE DEF ws, need, base
<1>6. ASSUME NEW j \in File, NEW k \in 1..dir[j].len, NEW l \in 1..Len(ws)
      PROVE  ws[l].addr # DataBlock(dir[j].start + k - 1)
  <2>1. dir[j] \in FsEntry /\ dir[j].len \in Nat /\ dir[j].start \in Nat /\ dir[j].blocks \in Nat
    BY <1>2 DEF FsDir, FsEntry
  <2>2. dir[j].len # 0 /\ j \in Used(dir)
    BY <2>1, <1>6 DEF FsEntry, Used
  <2>3. dir[j].len <= dir[j].blocks
    BY <1>2, <2>2 DEF InRange
  <2>4. dir[j].start + k - 1 # base + l - 1
    BY <1>3, <1>5, <2>1, <2>2, <2>3, SMTT(30)
  <2>5. dir[j].start + k - 1 \in 1..NBlocks
    BY <1>2, PlacedIn, PlacedBlocks
  <2>6. base + l - 1 \in 1..NBlocks
    BY <1>3, SizeFacts
  <2>7. ws[l].addr = DataBlock(base + l - 1)
    BY <1>3
  <2> QED  BY <2>4, <2>5, <2>6, <2>7, AddrFacts
<1>7. Avoids(ws, dir)
  BY <1>6 DEF Avoids, Spares
<1> QED  BY <1>2, <1>3, <1>4, <1>7, AvoidsMerged

LEMMA DependableWrite ==
    ASSUME VolumeOK, Recoverable, Dependable, NEW i \in File, NEW len \in 0..MaxRun, NEW v \in Data,
           fs_write(i, len, v)
    PROVE  Dependable'
<1>1. mounted /\ UNCHANGED <<disk, mounted>>
  BY DEF fs_write
<1>2. /\ DiskOK(disk) /\ QueueOK(queue) /\ SlotDir(disk, active) = dir
      /\ \A c \in {0, 1} : Newest(disk, c) => c = active
  BY <1>1, MountedFacts
<1>3. Untouched(disk, queue')
  BY <1>2, WriteAvoids DEF Untouched
<1> DEFINE ws == WriteQueue(i, len, v)
           need == blocks_for(len)
           base == WriteBase(i, need)
<1>4. /\ base \in Nat /\ need \in Nat /\ base >= 1 /\ base + need <= DataEnd
      /\ \A k \in 1..need : ws[k].addr = DataBlock(base + k - 1)
  BY FsWriteQueue
<1>5. PICK n \in 0..need : Merged(queue, ws, n, queue')
  BY FsWriteQueue
<1> HIDE DEF ws, need, base
<1>6. ASSUME NEW k \in 1..n PROVE ws[k].addr # SB
  <2>1. k \in 1..need /\ base + k - 1 \in 1..NBlocks
    BY <1>4, SizeFacts
  <2> QED  BY <1>4, <2>1, AddrFacts
<1>7. Cache!View(disk, queue')[SB] = Cache!View(disk, queue)[SB]
  BY <1>2, <1>5, <1>6, ViewMerged, AddrFacts
<1> QED  BY <1>1, <1>3, <1>7 DEF Dependable, Intact

LEMMA FlushFacts ==
    ASSUME VolumeOK, Flushed
    PROVE  /\ DiskOK(disk) /\ QueueOK(queue) /\ DiskOK(disk')
           /\ disk' = Cache!View(disk, queue) /\ disk' = Cache!Drained(disk, queue, Len(queue))
           /\ Len(queue) \in 0..Len(queue)
  BY FlushOK, ViewDrained DEF VolumeOK, Flushed

LEMMA HeaderSparesSb ==
    ASSUME NEW m, DiskOK(m), NEW s \in {0, 1}, NEW g \in 0..(GenMod - 1), NEW d
    PROVE  Cache!View(m, HeaderWrite(s, g, d))[SB] = m[SB]
<1>1. /\ Cache!View(m, HeaderWrite(s, g, d))[Header(s)] =
            [magic |-> TRUE, gen |-> g, sum |-> dir_sum(d)]
      /\ Cache!View(m, HeaderWrite(s, g, d))[SB] = m[SB]
  BY HeaderStored
<1> QED  BY <1>1

LEMMA DependableFlushed ==
    ASSUME VolumeOK, OpOK, Dependable,
           DataFlushed \/ DirFlushed \/ CommitFlushed \/ SyncFlushed \/ FormatFlushed
    PROVE  Dependable'
<1>1. Flushed
  BY DEF DataFlushed, DirFlushed, CommitFlushed, SyncFlushed, FormatFlushed
<1>2. DiskOK(disk') /\ disk' = Cache!View(disk, queue)
  BY <1>1, FlushFacts
<1>3. mounted => disk'[SB] # 0
  BY <1>2 DEF Dependable
<1>4. op.slot \in {0, 1} /\ op.gen \in 0..(GenMod - 1) /\ op.dir \in FsDir
  BY DEF VolumeOK, FsOp
<1>5. ASSUME NoData(queue'), mounted' => Cache!View(disk', queue')[SB] # 0
      PROVE  Dependable'
  BY <1>2, <1>5, NoDataUntouched DEF Dependable, Intact
<1>6. CASE DataFlushed
  <2>1. mounted' = mounted /\ DirCommit(<<>>, op.dir)
    BY <1>6 DEF DataFlushed
  <2>2. DirWriteSlot(<<>>, "edit", 1 - active, NextGen, op.dir) /\ 1 - active \in {0, 1}
    BY <2>1 DEF DirCommit, VolumeOK
  <2>3. NoData(queue') /\ Cache!View(disk', queue')[SB] = Cache!View(disk', <<>>)[SB]
    BY <1>2, <1>4, <2>2, EmptyOK, NoDataEmpty, DirSlotQueue
  <2> QED  BY <1>3, <1>5, <2>1, <2>3, CrashEmpty
<1>7. CASE DirFlushed
  <2>1. mounted' = mounted /\ queue' = HeaderWrite(op.slot, op.gen, op.dir)
    BY <1>7 DEF DirFlushed
  <2>2. Cache!View(disk', queue')[SB] = disk'[SB]
    BY <1>2, <1>4, <2>1, HeaderSparesSb
  <2> QED  BY <1>3, <1>4, <1>5, <2>1, <2>2, NoDataHeader
<1>8. CASE CommitFlushed \/ SyncFlushed
  <2>1. mounted' = mounted /\ queue' = <<>>
    BY <1>8 DEF CommitFlushed, SyncFlushed
  <2> QED  BY <1>3, <1>5, <2>1, NoDataEmpty, CrashEmpty
<1>9. CASE FormatFlushed
  <2>1. CASE op.kind = "format1"
    <3>1. mounted' = mounted /\ DirWriteSlot(<<>>, "format0", 0, 1, NoDir) /\ ~mounted
      BY <1>9, <2>1 DEF FormatFlushed, OpOK
    <3>2. NoData(queue')
      BY <3>1, EmptyOK, NoDataEmpty, NoDirOK, DirSlotQueue
    <3> QED  BY <1>5, <3>1, <3>2
  <2>2. CASE op.kind # "format1"
    <3>1. queue' = SbWrite(1)
      BY <1>9, <2>2 DEF FormatFlushed
    <3>2. QueueOK(SbWrite(1)) /\ Len(SbWrite(1)) = 1 /\ SbWrite(1)[1] = [addr |-> SB, val |-> 1]
      BY SbWriteOK
    <3>3. SbWrite(1)[1].addr = SB /\ SbWrite(1)[1].val = 1 /\ 1 \in 1..1
      BY <3>2
    <3>4. Cache!View(disk', SbWrite(1))[SB] = 1
      BY <1>2, <3>2, <3>3, ViewDrained, DrainedBlock, AddrFacts
    <3> QED  BY <1>5, <3>1, <3>4, NoDataSb
  <2> QED  BY <2>1, <2>2
<1> QED  BY <1>6, <1>7, <1>8, <1>9

LEMMA FailFacts ==
    ASSUME VolumeOK, FlushFails
    PROVE  \E k \in 0..Len(queue) : \E l \in 0..k :
             disk' = Cache!Drained(disk, queue, k) /\ queue' = Cache!DropFirst(queue, l)
<1>1. PICK k \in 0..Len(queue) - 1 :
        /\ disk' \in {Cache!Drained(disk, queue, k), Cache!Drained(disk, queue, k + 1)}
        /\ queue' = Cache!DropFirst(queue, k)
  BY DEF FlushFails
<1>2. Len(queue) \in Nat
  BY DEF VolumeOK, QueueOK, IsQueue
<1>3. k \in 0..Len(queue) /\ k + 1 \in 0..Len(queue) /\ k \in 0..k /\ k \in 0..(k + 1)
  BY <1>2
<1> QED  BY <1>1, <1>3

LEMMA DependableFails ==
    ASSUME VolumeOK, Recoverable, Dependable, Promised, FlushFails
    PROVE  Dependable'
<1>1. op.at # "header" /\ mounted' = mounted /\ DiskOK(disk) /\ QueueOK(queue)
  BY DEF FlushFails, Promised, VolumeOK
<1>6. PICK k \in 0..Len(queue) : \E l \in 0..k :
        disk' = Cache!Drained(disk, queue, k) /\ queue' = Cache!DropFirst(queue, l)
  BY FailFacts
<1>2. PICK l \in 0..k :
        disk' = Cache!Drained(disk, queue, k) /\ queue' = Cache!DropFirst(queue, l)
  BY <1>6
<1>3. Sound(disk, queue) /\ NoHeaders(queue)
  BY <1>1, SoundNow
<1>4. Intact(disk', queue')
  BY <1>1, <1>2, <1>3, IntactStored DEF Dependable
<1>5. Cache!View(disk', queue') = Cache!View(disk, queue)
  BY <1>1, <1>2, CrashShrinks
<1> QED  BY <1>1, <1>4, <1>5 DEF Dependable

LEMMA DependableMount ==
    ASSUME VolumeOK, Dependable, fs_mount
    PROVE  Dependable'
<1>1. UNCHANGED <<disk, queue>>
  BY DEF fs_mount
<1>2. mounted' => Cache!View(disk, queue)[SB] # 0
  BY MountFacts
<1> QED  BY <1>1, <1>2 DEF Dependable

LEMMA DependableCut ==
    ASSUME VolumeOK, PowerCut
    PROVE  Dependable'
<1>1. queue' = <<>> /\ mounted' = FALSE
  BY DEF PowerCut
<1>2. DiskOK(disk')
  <2>1. VolumeOK'
    BY TypesCut
  <2> QED  BY <2>1 DEF VolumeOK
<1> QED  BY <1>1, <1>2, NoDataEmpty, NoDataUntouched DEF Dependable, Intact

LEMMA DependableKept ==
    ASSUME VolumeOK, OpOK, Recoverable, Dependable, Promised, [Next]_vars
    PROVE  Dependable'
<1>1. CASE UNCHANGED vars \/ fs_sync
  BY <1>1 DEF vars, fs_sync, Dependable
<1>2. CASE fs_mkfs \/ fs_mount
  BY <1>2, DependableMkfs, DependableMount
<1>3. ASSUME NEW n \in Names, NEW len \in 0..MaxRun, fs_create(n, len) PROVE Dependable'
  <2>1. PICK d \in FsDir : DirCommit(queue, d)
    BY <1>3, CreateCommits
  <2>2. mounted /\ UNCHANGED <<disk, mounted>>
    BY <1>3 DEF fs_create
  <2> QED  BY <2>1, <2>2, DependableEdit
<1>4. CASE \E i \in File, len \in 0..MaxRun, v \in Data : fs_write(i, len, v)
  BY <1>4, DependableWrite
<1>5. ASSUME NEW i \in File, fs_delete(i) PROVE Dependable'
  <2>1. [dir EXCEPT ![i] = NoEntry] \in FsDir
    BY DeleteKeeps DEF VolumeOK
  <2>2. DirCommit(queue, [dir EXCEPT ![i] = NoEntry]) /\ mounted /\ UNCHANGED <<disk, mounted>>
    BY <1>5 DEF fs_delete
  <2> QED  BY <2>1, <2>2, DependableEdit
<1>6. ASSUME NEW i \in File, NEW n \in Names, fs_rename(i, n) PROVE Dependable'
  <2>1. i \in Used(dir) /\ n \in Nat \ {0}
    BY <1>6, NamesAssumption DEF fs_rename
  <2>2. [dir EXCEPT ![i].name = n] \in FsDir
    BY <2>1, RenameKeeps DEF VolumeOK
  <2>3. DirCommit(queue, [dir EXCEPT ![i].name = n]) /\ mounted /\ UNCHANGED <<disk, mounted>>
    BY <1>6 DEF fs_rename
  <2> QED  BY <2>2, <2>3, DependableEdit
<1>7. CASE DataFlushed \/ DirFlushed \/ CommitFlushed \/ FormatFlushed \/ SyncFlushed
  BY <1>7, DependableFlushed
<1>8. CASE FlushFails \/ PowerCut
  BY <1>8, DependableFails, DependableCut
<1> QED  BY <1>1, <1>2, <1>3, <1>4, <1>5, <1>6, <1>7, <1>8 DEF Next, Step
-----------------------------------------------------------------------------
(***************************************************************************)
(* The state of zlfs in the terms of Volume.                               *)
(***************************************************************************)
Reliable == VolumeOK /\ OpOK /\ Recoverable /\ Dependable

\* Directory d is mounted from slot c, and no header is being written.
Serving(m, q, d, c) ==
    /\ DiskOK(m) /\ QueueOK(q) /\ NoHeaders(q) /\ Sound(m, q) /\ Untouched(m, q)
    /\ c \in {0, 1} /\ Newest(m, c) /\ SlotDir(m, c) = d
    /\ Cache!View(m, q)[SB] # 0

\* The same without a mount: what the disk and the queue promise.
Calm(m, q) == DiskOK(m) /\ QueueOK(q) /\ NoHeaders(q) /\ Sound(m, q) /\ Intact(m, q)

StateFacts ==
    op.at # "header" => Calm(disk, queue) /\ (mounted => Serving(disk, queue, dir, active))

LEMMA ReliableState == Reliable => StateFacts
<1> SUFFICES ASSUME Reliable, op.at # "header"
             PROVE  Calm(disk, queue) /\ (mounted => Serving(disk, queue, dir, active))
  BY DEF StateFacts
<1>1. Sound(disk, queue) /\ NoHeaders(queue) /\ DiskOK(disk) /\ QueueOK(queue)
  BY SoundNow DEF Reliable, VolumeOK
<1> QED  BY <1>1, MountedFacts DEF Reliable, Serving, Dependable, Calm

LEMMA ReliableNext ==
    ASSUME Reliable', op'.at # "header"
    PROVE  Calm(disk', queue') /\ (mounted' => Serving(disk', queue', dir', active'))
<1>1. Reliable' => StateFacts'
  BY ReliableState, PTL
<1> QED  BY <1>1 DEF StateFacts

LEMMA ServingFacts ==
    ASSUME NEW m, NEW q, NEW d, NEW c, Serving(m, q, d, c)
    PROVE  /\ d \in FsDir /\ InRange(d) /\ Avoids(q, d) /\ Disjoint(d)
           /\ Kept(m) = Outcome("ok", Files(m, d))
           /\ Files(Cache!View(m, q), d) = Files(m, d)
           /\ Live(TRUE, d, m, q) = Kept(m)
           /\ CrashOutcomes(m, q) = {Kept(m)} \cup (IF m[SB] = 0 THEN {Unset} ELSE {})
<1>1. DiskOK(m) /\ QueueOK(q) /\ c \in {0, 1} /\ Newest(m, c) /\ SlotDir(m, c) = d
  BY DEF Serving
<1>2. d \in FsDir /\ InRange(d) /\ Avoids(q, d) /\ Disjoint(d)
  BY <1>1, NewestRange DEF Serving, Untouched
<1>3. Kept(m) = Outcome("ok", Files(m, d))
  BY <1>1, KeptIs
<1>4. Cache!View(m, q) = Cache!Drained(m, q, Len(q)) /\ Len(q) \in 0..Len(q) /\ 0 \in 0..Len(q)
  BY <1>1, ViewDrained
<1>5. Files(Cache!View(m, q), d) = Files(m, d)
  BY <1>1, <1>2, <1>4, FilesKept
<1>6. Live(TRUE, d, m, q) = Kept(m)
  BY <1>3, <1>5 DEF Live
<1>7. ASSUME NEW k \in 0..Len(q)
      PROVE  Recovered(Cache!Drained(m, q, k)) =
               IF Cache!Drained(m, q, k)[SB] = 0 THEN Unset ELSE Kept(m)
  BY CrashIs DEF Serving, Intact
<1>8. ASSUME NEW k \in 0..Len(q), Cache!Drained(m, q, k)[SB] = 0 PROVE m[SB] = 0
  <2> SUFFICES ASSUME m[SB] # 0 PROVE FALSE
    OBVIOUS
  <2>1. PICK j \in 1..k : q[j].addr = SB
    BY <1>1, <1>8, DrainedBlock, AddrFacts
  <2>2. q[j].val = 0
    BY <1>1, <1>8, <2>1, DrainedBlock, AddrFacts
  <2>3. j \in 1..Len(q) /\ Blanks(q[j])
    BY <1>1, <2>1, <2>2 DEF Blanks, QueueOK, IsQueue
  <2>4. Cache!View(m, q)[SB] = 0
    BY <1>1, <1>4, <2>3, BlankedStored
  <2> QED  BY <2>4 DEF Serving
<1>9. CrashOutcomes(m, q) \subseteq {Kept(m)} \cup (IF m[SB] = 0 THEN {Unset} ELSE {})
  BY <1>7, <1>8 DEF CrashOutcomes, CrashDisks
<1>10. Kept(m) \in CrashOutcomes(m, q)
  <2>1. Recovered(Cache!View(m, q)) = Kept(m)
    BY <1>4, <1>7 DEF Serving
  <2> QED  BY <1>1, <2>1, CrashEnds
<1>11. m[SB] = 0 => Unset \in CrashOutcomes(m, q)
  BY <1>1, CrashEnds, RecoveredBlank
<1> QED  BY <1>2, <1>3, <1>5, <1>6, <1>9, <1>10, <1>11

LEMMA OutcomesApart ==
    /\ \A f, g : Outcome("ok", f) # Nothing /\ Outcome("ok", f) # Unset
    /\ Nothing # Unset
    /\ \A f, g : Outcome("ok", f) = Outcome("ok", g) => f = g
<1>1. Nothing.state = "none" /\ Unset.state = "unformatted"
  BY OutcomeFields DEF Nothing, Unset
<1> QED  BY <1>1, OutcomeFields

LEMMA LiveUnmounted == \A d, m, q : Live(FALSE, d, m, q) = Nothing
  BY DEF Live, Nothing

LEMMA MakingIs ==
    ASSUME NEW o, NEW m, NEW q
    PROVE  /\ o.kind = "none" => Making(o, m, q) = Nothing
           /\ o.kind # "none" => Making(o, m, q) = Outcome("ok", Files(Cache!View(m, q), o.dir))
                                 /\ Making(o, m, q) # Nothing
  BY OutcomesApart DEF Making, Nothing

LEMMA NoFilesIs == \A m : Files(m, NoDir) = NoFiles
<1> TAKE m
<1>1. NoEntry.len = 0 /\ NoEntry.name = 0
  BY DEF NoEntry
<1>2. ASSUME NEW i \in File PROVE NoDir[i].name = 0 /\ Contents(m, NoDir[i]) = <<>>
  BY <1>1, EmptyContents DEF NoDir
<1>3. Files(m, NoDir) = [i \in File |-> [name |-> 0, data |-> <<>>]]
  BY <1>2, FilesAre
<1> QED  BY <1>3 DEF NoFiles, NoFile

\* No power cut finds anything but a blank volume or the one that was.
LEMMA CrashesAre ==
    ASSUME NEW m, NEW q, Calm(m, q)
    PROVE  /\ \A o \in CrashOutcomes(m, q) : o = Unset \/ o = Kept(m)
           /\ m[SB] # 0 => Kept(m) \in CrashOutcomes(m, q)
<1>1. \A k \in 0..Len(q) : Recovered(Cache!Drained(m, q, k)) =
               IF Cache!Drained(m, q, k)[SB] = 0 THEN Unset ELSE Kept(m)
  BY CrashIs DEF Calm
<1>2. \A o \in CrashOutcomes(m, q) : o = Unset \/ o = Kept(m)
  BY <1>1 DEF CrashOutcomes, CrashDisks
<1>3. m[SB] # 0 => Recovered(m) = Kept(m)
  BY <1>1, ViewDrained, NothingStored DEF Calm
<1> QED  BY <1>2, <1>3, CrashEnds DEF Calm
-----------------------------------------------------------------------------
(***************************************************************************)
(* The steps of zlfs, each a step of Volume: format, mount, sync, power    *)
(* cut and failed flush; then the calls that edit a directory; then the    *)
(* flushes that carry a call on.                                           *)
(***************************************************************************)
\* The abstract volume is what the state of zlfs says it is.
Mirror ==
    /\ vol = Live(mounted, dir, disk, queue)
    /\ next = Making(op, disk, queue)
    /\ safe = CrashOutcomes(disk, queue)

AbstractStep == V!Next \/ UNCHANGED <<vol, next, safe>>

\* The abstract volume while one is mounted.
LEMMA ServedIs ==
    ASSUME NEW m, NEW q, NEW d, NEW c, Serving(m, q, d, c),
           NEW v, NEW s, v = Live(TRUE, d, m, q), s = CrashOutcomes(m, q)
    PROVE  /\ v = Kept(m) /\ v = Outcome("ok", Files(m, d)) /\ v # Unset /\ v # Nothing
           /\ v \in s /\ s \subseteq {v, Unset} /\ (m[SB] # 0 => s = {v})
<1>1. v = Kept(m) /\ v = Outcome("ok", Files(m, d))
  BY ServingFacts
<1>2. v # Unset /\ v # Nothing
  BY <1>1, OutcomesApart
<1>3. s = {v} \cup (IF m[SB] = 0 THEN {Unset} ELSE {})
  BY <1>1, ServingFacts
<1> QED  BY <1>1, <1>2, <1>3

LEMMA BlankedOutcomes ==
    ASSUME NEW m, NEW q, DiskOK(m), QueueOK(q), Blanked(m, q)
    PROVE  CrashOutcomes(m, q) = {Unset}
<1>1. ASSUME NEW k \in 0..Len(q) PROVE Recovered(Cache!Drained(m, q, k)) = Unset
  <2>1. \A j \in 1..k : j \in 1..Len(q)
    BY DEF QueueOK, IsQueue
  <2>2. Cache!Drained(m, q, k)[SB] = 0
    BY <2>1, BlankedStored DEF Blanked
  <2> QED  BY <2>2, RecoveredBlank
<1>2. 0 \in 0..Len(q)
  BY ViewDrained
<1> QED  BY <1>1, <1>2 DEF CrashOutcomes, CrashDisks

LEMMA MountedIs ==
    ASSUME Mirror, mounted \in BOOLEAN
    PROVE  (mounted => V!Mounted) /\ (~mounted => ~V!Mounted /\ vol = Nothing)
<1>1. CASE mounted
  <2>1. vol = Outcome("ok", Files(Cache!View(disk, queue), dir))
    BY <1>1 DEF Mirror, Live
  <2> QED  BY <1>1, <2>1, OutcomeFields DEF V!Mounted
<1>2. CASE ~mounted
  <2>1. vol = Nothing
    BY <1>2 DEF Mirror, Live, Nothing
  <2> QED  BY <1>2, <2>1, OutcomeFields DEF V!Mounted, Nothing
<1> QED  BY <1>1, <1>2

\* The queue of a format: its superblock is blank, if it was taken at all.
LEMMA MkfsQueue ==
    ASSUME VolumeOK, fs_mkfs
    PROVE  queue' = queue \/ \A k \in 1..Len(queue') : queue'[k].addr = SB => queue'[k].val = 0
<1> DEFINE r == WriteBlocks(queue, SbWrite(0)).queue
<1>1. QueueOK(queue)
  BY DEF VolumeOK
<1>2. QueueOK(SbWrite(0)) /\ Len(SbWrite(0)) = 1 /\ SbWrite(0)[1] = [addr |-> SB, val |-> 0]
  BY SbWriteOK
<1>3. SbWrite(0)[1].val = 0 /\ SbWrite(0)[1].addr = SB /\ 1..1 = {1}
  BY <1>2
<1>4. CASE WriteBlocks(queue, SbWrite(0)).all
  <2>1. DirWriteSlot(r, "format1", 1, 0, NoDir)
    BY <1>4 DEF fs_mkfs
  <2>2. Merged(queue, SbWrite(0), 1, r)
    <3>1. PICK l \in 0..Len(SbWrite(0)) :
            /\ Merged(queue, SbWrite(0), l, r)
            /\ WriteBlocks(queue, SbWrite(0)).all = (l = Len(SbWrite(0)))
      BY <1>1, <1>2, WrittenFacts
    <3>2. l = 1
      BY <1>2, <1>4, <3>1
    <3> QED  BY <3>1, <3>2
  <2> HIDE DEF r
  <2>3. QueueOK(r) /\ \A k \in 1..Len(r) : r[k].addr = SB => r[k].val = 0
    <3>1. QueueOK(r)
      BY <2>2 DEF Merged
    <3>2. ASSUME NEW k \in 1..Len(r), r[k].addr = SB PROVE r[k].val = 0
      <4>1. \/ \E j \in 1..Len(queue) : r[k] = queue[j] /\ \A i \in 1..1 : SbWrite(0)[i].addr # queue[j].addr
            \/ \E i \in 1..1 : r[k] = SbWrite(0)[i]
        BY <2>2 DEF Merged
      <4> QED  BY <1>3, <3>2, <4>1
    <3> QED  BY <3>1, <3>2
  <2>4. PICK n \in 0..MaxFiles : Merged(r, DirWrites(1, NoDir), n, queue')
    BY <2>1, <2>3, NoDirOK, DirWriteSlotFacts
  <2>5. \A i \in 1..n : DirWrites(1, NoDir)[i].addr # SB
    <3>1. \A i \in 1..n : i \in 1..MaxFiles
      BY SizeFacts
    <3> QED  BY <3>1, NoDirOK, NoDataDir
  <2> QED  BY <2>3, <2>4, <2>5, SMTT(30) DEF Merged
<1>5. CASE ~WriteBlocks(queue, SbWrite(0)).all
  BY <1>5 DEF fs_mkfs
<1> QED  BY <1>4, <1>5

LEMMA FormatStep ==
    ASSUME Reliable, Reliable', Mirror, Mirror', fs_mkfs
    PROVE  V!Next
<1>1. op = NoOp /\ op.at # "header" /\ mounted' = FALSE /\ disk' = disk
  BY NoOpFields DEF fs_mkfs, Call, Idle, Reliable, VolumeOK
<1>2. next = Nothing
  BY <1>1, NoOpOK, MakingIs DEF Mirror
<1>3. vol' = Nothing
  BY <1>1, LiveUnmounted DEF Mirror
<1>4. op'.at # "header"
  <2>1. CASE WriteBlocks(queue, SbWrite(0)).all
    <3>1. op' = DirOp("format1", 1, 0, NoDir) \/ op' = NoOp
      BY <2>1 DEF fs_mkfs, DirWriteSlot, DirOp
    <3> QED  BY <3>1, DirOpFacts, NoOpFields
  <2>2. CASE ~WriteBlocks(queue, SbWrite(0)).all
    BY <1>1, <2>2 DEF fs_mkfs
  <2> QED  BY <2>1, <2>2
<1>5. next' = Nothing \/ next' = Outcome("ok", NoFiles)
  <2>1. op'.kind = "none" \/ op'.dir = NoDir
    BY <1>1 DEF Reliable, OpOK, VolumeOK, FsOp
  <2> QED  BY <2>1, MakingIs, NoFilesIs DEF Mirror
<1>6. Calm(disk, queue) /\ Calm(disk, queue')
  BY <1>1, <1>4, ReliableState, ReliableNext DEF StateFacts
<1>7. safe' # {}
  BY <1>1, <1>6, CrashEnds DEF Mirror, Calm
<1>8. safe' \subseteq safe \cup {Unset}
  <2>1. CASE disk[SB] # 0
    BY <1>1, <1>6, <2>1, CrashesAre DEF Mirror
  <2>2. CASE disk[SB] = 0
    <3>1. CASE queue' = queue
      BY <1>1, <3>1 DEF Mirror
    <3>2. CASE queue' # queue
      <4>1. Blanked(disk, queue')
        BY <2>2, <3>2, MkfsQueue DEF Blanked, Reliable
      <4> QED  BY <1>1, <1>6, <4>1, BlankedOutcomes DEF Mirror, Calm
    <3> QED  BY <3>1, <3>2
  <2> QED  BY <2>1, <2>2
<1>9. V!Format
  BY <1>2, <1>3, <1>5, <1>7, <1>8, VolumeConstants DEF V!Format
<1> QED  BY <1>9 DEF V!Next

LEMMA SyncCallStep ==
    ASSUME Reliable, Mirror, Mirror', fs_sync
    PROVE  UNCHANGED <<vol, next, safe>>
<1>1. UNCHANGED <<disk, queue, mounted, dir>> /\ op = NoOp /\ op' = [NoOp EXCEPT !.at = "sync"]
  BY DEF fs_sync, Idle, Reliable, VolumeOK
<1>2. op.kind = "none" /\ op'.kind = "none"
  BY <1>1 DEF NoOp
<1>3. next = Nothing /\ next' = Nothing
  BY <1>2, MakingIs DEF Mirror
<1> QED  BY <1>1, <1>3 DEF Mirror

LEMMA MountStep ==
    ASSUME Reliable, Reliable', Mirror, Mirror', fs_mount
    PROVE  V!Next
<1>1. UNCHANGED <<disk, queue, op>> /\ op = NoOp /\ op'.at # "header" /\ mounted' \in BOOLEAN
  BY NoOpFields DEF fs_mount, Idle, Reliable, VolumeOK
<1>2. next = Nothing /\ next' = next /\ safe' = safe
  BY <1>1, NoOpOK, MakingIs DEF Mirror
<1>3. vol' = Nothing \/ (vol' \in safe /\ vol' # Unset)
  <2>1. CASE mounted'
    <3>1. Serving(disk', queue', dir', active')
      BY <1>1, <2>1, ReliableNext
    <3>2. vol' = Live(TRUE, dir', disk', queue') /\ safe' = CrashOutcomes(disk', queue')
      BY <2>1 DEF Mirror
    <3>3. vol' = Outcome("ok", Files(disk', dir')) /\ vol' \in safe' /\ safe' \subseteq {vol', Unset}
      BY <3>1, <3>2, ServedIs
    <3> QED  BY <1>2, <3>3, OutcomesApart
  <2>2. CASE ~mounted'
    BY <1>1, <2>2, LiveUnmounted DEF Mirror
  <2> QED  BY <2>1, <2>2
<1>4. V!Mount
  BY <1>2, <1>3, VolumeConstants DEF V!Mount
<1> QED  BY <1>4 DEF V!Next

LEMMA CutStep ==
    ASSUME Reliable, Mirror, Mirror', PowerCut
    PROVE  V!Next
<1>1. PICK k \in 0..(IF Idle THEN 0 ELSE Len(queue)) : disk' = Cache!Drained(disk, queue, k)
  BY DEF PowerCut
<1>2. k \in 0..Len(queue)
  BY <1>1 DEF Reliable, VolumeOK, QueueOK, IsQueue
<1>3. queue' = <<>> /\ op' = NoOp /\ mounted' = FALSE
  BY DEF PowerCut
<1>4. vol' = Nothing /\ next' = Nothing
  BY <1>3, NoOpOK, MakingIs, LiveUnmounted DEF Mirror
<1>5. safe' = {Recovered(disk')}
  BY <1>3, CrashEmpty DEF Mirror
<1>6. Recovered(disk') \in safe
  BY <1>1, <1>2, CrashOutcome DEF Mirror
<1>7. V!PowerCut
  BY <1>4, <1>5, <1>6, VolumeConstants DEF V!PowerCut
<1> QED  BY <1>7 DEF V!Next

LEMMA SyncFlushedStep ==
    ASSUME Reliable, Reliable', Mirror, Mirror', SyncFlushed
    PROVE  V!Next
<1>1. /\ op.at = "sync" /\ Flushed /\ queue' = <<>> /\ op' = NoOp
      /\ UNCHANGED <<mounted, dir, active>>
  BY DEF SyncFlushed
<1>2. next = Nothing /\ next' = Nothing
  BY <1>1, NoOpOK, MakingIs DEF Mirror, Reliable, OpOK
<1>3. DiskOK(disk) /\ QueueOK(queue) /\ disk' = Cache!View(disk, queue) /\ mounted \in BOOLEAN
  BY <1>1, FlushFacts DEF Reliable, VolumeOK
<1>4. safe' # {} /\ safe' \subseteq safe
  BY <1>1, <1>3, CrashEmpty, CrashEnds DEF Mirror
<1>5. vol' = vol /\ (mounted => vol \in safe')
  <2>1. CASE mounted
    <3>1. Serving(disk, queue, dir, active) /\ Serving(disk', queue', dir', active')
      BY <1>1, <2>1, ReliableState, ReliableNext, NoOpFields DEF StateFacts
    <3>2. Kept(disk) = Outcome("ok", Files(disk', dir)) /\ vol = Kept(disk)
      BY <1>3, <2>1, <3>1, ServingFacts DEF Mirror
    <3>3. vol' = Outcome("ok", Files(disk', dir')) /\ vol' \in safe' /\ safe' \subseteq {vol', Unset}
      <4>1. vol' = Live(TRUE, dir', disk', queue') /\ safe' = CrashOutcomes(disk', queue')
        BY <1>1, <2>1 DEF Mirror
      <4> QED  BY <3>1, <4>1, ServedIs
    <3> QED  BY <1>1, <3>2, <3>3
  <2>2. CASE ~mounted
    BY <1>1, <1>3, <2>2, LiveUnmounted DEF Mirror
  <2> QED  BY <2>1, <2>2
<1>6. V!Sync
  BY <1>2, <1>3, <1>4, <1>5, MountedIs, VolumeConstants DEF V!Sync, V!Settles
<1> QED  BY <1>6 DEF V!Next

LEMMA FailStep ==
    ASSUME Reliable, Reliable', Promised, Mirror, Mirror', FlushFails
    PROVE  V!Next
<1>1. op.at # "header" /\ op' = NoOp /\ UNCHANGED <<mounted, dir, active>> /\ mounted \in BOOLEAN
  BY DEF FlushFails, Promised, Reliable, VolumeOK
<1>2. next' = Nothing
  BY <1>1, NoOpOK, MakingIs DEF Mirror
<1>3. PICK k \in 0..Len(queue) : \E l \in 0..k :
        disk' = Cache!Drained(disk, queue, k) /\ queue' = Cache!DropFirst(queue, l)
  BY FailFacts DEF Reliable
<1>4. DiskOK(disk) /\ QueueOK(queue) /\ QueueOK(queue')
  BY DEF Reliable, VolumeOK
<1>5. safe' # {} /\ safe' \subseteq safe
  BY <1>3, <1>4, CrashShrinks, CrashEnds DEF Mirror
<1>6. vol' = vol /\ (mounted => vol \in safe' /\ safe' \subseteq {vol, Unset})
  <2>1. CASE mounted
    <3>1. Serving(disk, queue, dir, active) /\ Serving(disk', queue', dir', active')
      BY <1>1, <2>1, ReliableState, ReliableNext, NoOpFields DEF StateFacts
    <3>2. Kept(disk) = Outcome("ok", Files(disk, dir)) /\ vol = Kept(disk)
      BY <2>1, <3>1, ServingFacts DEF Mirror
    <3>3. vol' = Outcome("ok", Files(disk', dir')) /\ vol' \in safe' /\ safe' \subseteq {vol', Unset}
      <4>1. vol' = Live(TRUE, dir', disk', queue') /\ safe' = CrashOutcomes(disk', queue')
        BY <1>1, <2>1 DEF Mirror
      <4> QED  BY <3>1, <4>1, ServedIs
    <3>4. Files(disk', dir) = Files(disk, dir)
      <4>1. dir \in FsDir /\ InRange(dir) /\ Avoids(queue, dir)
        BY <3>1, ServingFacts
      <4> QED  BY <1>3, <1>4, <4>1, FilesKept
    <3> QED  BY <1>1, <3>2, <3>3, <3>4
  <2>2. CASE ~mounted
    BY <1>1, <2>2, LiveUnmounted DEF Mirror
  <2> QED  BY <2>1, <2>2
<1>7. V!Settles(safe) /\ (V!Mounted => mounted)
  BY <1>1, <1>5, <1>6, MountedIs DEF V!Settles
<1>8. CASE op.kind = "none"
  <2>1. next = Nothing
    BY <1>8, MakingIs DEF Mirror
  <2>2. V!Sync
    BY <1>2, <1>6, <1>7, <2>1, VolumeConstants DEF V!Sync
  <2> QED  BY <2>2 DEF V!Next
<1>9. CASE op.kind # "none"
  <2>1. next # Nothing /\ next # Unset
    BY <1>9, MakingIs, OutcomesApart DEF Mirror
  <2>2. V!Abort
    BY <1>2, <1>6, <1>7, <2>1, VolumeConstants DEF V!Abort
  <2> QED  BY <2>2 DEF V!Next
<1> QED  BY <1>8, <1>9
-----------------------------------------------------------------------------
\* A call that has only queued blocks.
Queueing == mounted /\ Idle /\ UNCHANGED <<disk, mounted, dir, active>> /\ op'.at # "header"

LEMMA QueueingIs ==
    ASSUME Reliable, Reliable', Mirror, Mirror', Queueing
    PROVE  /\ vol = Outcome("ok", Files(disk, dir)) /\ vol' = vol /\ safe' = safe /\ next = Nothing
           /\ V!Mounted /\ dir \in FsDir /\ InRange(dir) /\ Avoids(queue', dir) /\ Disjoint(dir)
           /\ DiskOK(disk) /\ QueueOK(queue) /\ QueueOK(queue')
           /\ op' = NoOp => UNCHANGED <<vol, next, safe>>
<1>1. /\ mounted /\ op = NoOp /\ op.at # "header" /\ UNCHANGED <<disk, mounted, dir, active>>
      /\ op'.at # "header" /\ DiskOK(disk) /\ QueueOK(queue) /\ QueueOK(queue')
  BY NoOpFields DEF Queueing, Idle, Reliable, VolumeOK
<1>2. Serving(disk, queue, dir, active)
  BY <1>1, ReliableState DEF StateFacts
<1>3. Serving(disk', queue', dir', active')
  BY <1>1, ReliableNext
<1>4. vol = Live(TRUE, dir, disk, queue) /\ safe = CrashOutcomes(disk, queue)
  BY <1>1 DEF Mirror
<1>5. vol' = Live(TRUE, dir', disk', queue') /\ safe' = CrashOutcomes(disk', queue')
  BY <1>1 DEF Mirror
<1>6. /\ vol = Kept(disk) /\ Kept(disk) = Outcome("ok", Files(disk, dir))
      /\ safe = {Kept(disk)} \cup (IF disk[SB] = 0 THEN {Unset} ELSE {})
      /\ dir \in FsDir /\ InRange(dir) /\ Disjoint(dir)
  BY <1>2, <1>4, ServingFacts
<1>7. /\ vol' = Kept(disk')
      /\ safe' = {Kept(disk')} \cup (IF disk'[SB] = 0 THEN {Unset} ELSE {})
      /\ Avoids(queue', dir')
  BY <1>3, <1>5, ServingFacts
<1>8. next = Nothing
  BY <1>1, NoOpOK, MakingIs DEF Mirror
<1>9. op' = NoOp => next' = Nothing
  BY NoOpOK, MakingIs DEF Mirror
<1>10. V!Mounted
  BY <1>6, OutcomeFields DEF V!Mounted
<1> QED  BY <1>1, <1>6, <1>7, <1>8, <1>9, <1>10

\* The call of an edit, once its blocks are queued.
LEMMA EditBegins ==
    ASSUME Reliable, Reliable', Mirror, Mirror', Queueing, NEW d, op'.kind # "none", op'.dir = d,
           V!IsEdit(Files(disk, dir), Files(Cache!View(disk, queue'), d))
    PROVE  V!Next
<1>1. disk' = disk
  BY DEF Queueing
<1>2. next' = Outcome("ok", Files(Cache!View(disk', queue'), op'.dir))
  BY MakingIs DEF Mirror
<1>3. next'.state = "ok" /\ next'.files = Files(Cache!View(disk, queue'), d)
  BY <1>1, <1>2, OutcomeFields
<1>4. /\ vol = Outcome("ok", Files(disk, dir)) /\ vol' = vol /\ safe' = safe /\ next = Nothing
      /\ V!Mounted
  BY QueueingIs
<1>5. vol.files = Files(disk, dir)
  BY <1>4, OutcomeFields
<1>6. V!Begin
  BY <1>3, <1>4, <1>5, VolumeConstants DEF V!Begin
<1> QED  BY <1>6 DEF V!Next

\* A call that only writes a directory: create, delete and rename.
LEMMA EditStep ==
    ASSUME Reliable, Reliable', Mirror, Mirror', mounted, Idle,
           UNCHANGED <<disk, mounted, dir, active>>,
           NEW d \in FsDir, DirCommit(queue, d),
           \A i \in File : d[i].len = 0 \/ (d[i].start = dir[i].start /\ d[i].len = dir[i].len),
           V!IsEdit(Files(disk, dir), Files(disk, d))
    PROVE  AbstractStep
<1>1. op' = NoOp \/ op' = DirOp("edit", 1 - active, NextGen, d)
  BY DEF DirCommit, DirWriteSlot, DirOp
<1>2. Queueing
  BY <1>1, NoOpFields, DirOpFacts DEF Queueing
<1>3. Avoids(queue', dir) /\ dir \in FsDir /\ InRange(dir) /\ DiskOK(disk) /\ QueueOK(queue')
  BY <1>2, QueueingIs
<1>4. ASSUME NEW i \in File PROVE Contents(Cache!View(disk, queue'), d[i]) = Contents(disk, d[i])
  <2>1. CASE d[i].len = 0
    BY <2>1, EmptyContents
  <2>2. CASE d[i].start = dir[i].start /\ d[i].len = dir[i].len
    <3>1. \A m : Contents(m, d[i]) = Contents(m, dir[i])
      BY <2>2 DEF Contents
    <3>2. Placed(dir[i]) /\ Spares(queue', dir[i])
      BY <1>3, PlacedIn DEF Avoids
    <3>3. Cache!View(disk, queue') = Cache!Drained(disk, queue', Len(queue')) /\ Len(queue') \in 0..Len(queue')
      BY <1>3, ViewDrained
    <3>4. Contents(Cache!View(disk, queue'), dir[i]) = Contents(disk, dir[i])
      BY <1>3, <3>2, <3>3, ContentsKept
    <3> QED  BY <3>1, <3>4
  <2> QED  BY <2>1, <2>2
<1>5. Files(Cache!View(disk, queue'), d) = Files(disk, d)
  BY <1>4, SameFiles
<1>6. CASE op' = NoOp
  BY <1>2, <1>6, QueueingIs DEF AbstractStep
<1>7. CASE op' = DirOp("edit", 1 - active, NextGen, d)
  <2>1. op'.kind # "none" /\ op'.dir = d
    BY <1>7, DirOpFacts
  <2> QED  BY <1>2, <1>5, <2>1, EditBegins DEF AbstractStep
<1> QED  BY <1>1, <1>6, <1>7

\* One entry changes: what is left of an edit to show.
LEMMA EditIs ==
    ASSUME NEW f, NEW g, NEW i \in File, \A j \in File \ {i} : g[j] = f[j],
           \/ f[i] = NoFile /\ V!Fresh(f, i, g[i].name) /\ g[i].data = <<>>
           \/ f[i] # NoFile /\ g[i] = NoFile
           \/ f[i] # NoFile /\ V!Fresh(f, i, g[i].name) /\ g[i].data = f[i].data
           \/ f[i] # NoFile /\ g[i].name = f[i].name /\ OneWrite(g[i].data)
    PROVE  V!IsEdit(f, g)
  BY DEF V!IsEdit

LEMMA FileIs ==
    ASSUME NEW m, NEW d \in FsDir, NEW i \in File
    PROVE  /\ Files(m, d)[i] = [name |-> d[i].name, data |-> Contents(m, d[i])]
           /\ Files(m, d)[i].name = d[i].name /\ Files(m, d)[i].data = Contents(m, d[i])
           /\ d[i].name = 0 <=> Files(m, d)[i] = NoFile
<1>1. /\ Files(m, d)[i] = [name |-> d[i].name, data |-> Contents(m, d[i])]
      /\ Files(m, d)[i].name = d[i].name /\ Files(m, d)[i].data = Contents(m, d[i])
  BY FilesAre
<1>2. NoFile.name = 0
  BY DEF NoFile
<1>3. d[i].name = 0 => Contents(m, d[i]) = <<>>
  BY EmptyContents DEF FsDir, FsEntry
<1>4. d[i].name = 0 => Files(m, d)[i] = NoFile
  BY <1>1, <1>3 DEF NoFile
<1> QED  BY <1>1, <1>2, <1>4

LEMMA OthersSame ==
    ASSUME NEW m, NEW c \in FsDir, NEW d \in FsDir, NEW i \in File, \A j \in File \ {i} : d[j] = c[j]
    PROVE  \A j \in File \ {i} : Files(m, d)[j] = Files(m, c)[j]
<1> TAKE j \in File \ {i}
<1>1. Files(m, d)[j] = [name |-> d[j].name, data |-> Contents(m, d[j])]
  BY FileIs
<1>2. Files(m, c)[j] = [name |-> c[j].name, data |-> Contents(m, c[j])]
  BY FileIs
<1> QED  BY <1>1, <1>2

\* The name a call was given is in use nowhere else (fs_find_index).
LEMMA FreshIs ==
    ASSUME NEW m, dir \in FsDir, NEW i \in File, NEW n \in Names,
           \A j \in Used(dir) \ {i} : dir[j].name # n
    PROVE  V!Fresh(Files(m, dir), i, n)
<1>1. n # 0
  BY NamesAssumption
<1>2. ASSUME NEW j \in File \ {i} PROVE Files(m, dir)[j].name # n
  <2>1. dir[j].name # n
    BY <1>1 DEF Used
  <2>2. Files(m, dir)[j].name = dir[j].name
    BY FilesAre
  <2> QED  BY <2>1, <2>2
<1> QED  BY <1>1, <1>2 DEF V!Fresh

LEMMA CreateStep ==
    ASSUME Reliable, Reliable', Mirror, Mirror', NEW n \in Names, NEW len \in 0..MaxRun,
           fs_create(n, len)
    PROVE  AbstractStep
<1> DEFINE need == blocks_for(len)
           start == alloc_run(dir, need)
           e == [name |-> n, start |-> start, len |-> 0, blocks |-> need]
<1>1. /\ mounted /\ Idle /\ UNCHANGED <<disk, mounted, dir, active>>
      /\ \A i \in Used(dir) : dir[i].name # n
      /\ start # 0
  BY DEF fs_create, Call
<1>2. PICK i \in FirstFree(dir) : DirCommit(queue, [dir EXCEPT ![i] = e])
  BY DEF fs_create
<1> DEFINE d == [dir EXCEPT ![i] = e]
<1>3. i \in File /\ dir[i].name = 0 /\ dir \in FsDir /\ InRange(dir)
  BY <1>2 DEF FirstFree, Used, Reliable, VolumeOK
<1>4. e.name = n /\ e.len = 0
  OBVIOUS
<1>5. d \in FsDir
  <2>1. len \in Nat /\ need \in Nat \ {0} /\ n \in Nat \ {0} /\ 0 \in Nat /\ 0 <= need
    BY SizeFacts, BlocksFor, NamesAssumption
  <2>2. Placeable(dir, i, e)
    BY <1>1, <1>3, <2>1, AllocPlaceable
  <2> HIDE DEF e
  <2> QED  BY <1>3, <2>2, PlaceKeeps
<1> HIDE DEF e
<1>6. d[i] = e /\ \A j \in File \ {i} : d[j] = dir[j]
  BY <1>3 DEF FsDir
<1> HIDE DEF d
<1>7. \A j \in File : d[j].len = 0 \/ (d[j].start = dir[j].start /\ d[j].len = dir[j].len)
  BY <1>4, <1>6
<1>8. V!IsEdit(Files(disk, dir), Files(disk, d))
  <2>1. Files(disk, dir)[i] = NoFile
    BY <1>3, FileIs
  <2>2. Files(disk, d)[i].name = n /\ Files(disk, d)[i].data = <<>>
    <3>1. Files(disk, d)[i].name = d[i].name /\ Files(disk, d)[i].data = Contents(disk, d[i])
      BY <1>3, FilesAre
    <3>2. Contents(disk, d[i]) = <<>>
      BY <1>4, <1>6, EmptyContents
    <3> QED  BY <1>4, <1>6, <3>1, <3>2
  <2>3. V!Fresh(Files(disk, dir), i, n)
    BY <1>1, <1>3, FreshIs
  <2>4. \A j \in File \ {i} : Files(disk, d)[j] = Files(disk, dir)[j]
    BY <1>3, <1>5, <1>6, OthersSame
  <2> QED  BY <1>3, <2>1, <2>2, <2>3, <2>4, EditIs
<1>9. DirCommit(queue, d)
  BY <1>2 DEF d
<1> QED  BY <1>1, <1>5, <1>7, <1>8, <1>9, EditStep

LEMMA DeleteStep ==
    ASSUME Reliable, Reliable', Mirror, Mirror', NEW i \in File, fs_delete(i)
    PROVE  AbstractStep
<1> DEFINE d == [dir EXCEPT ![i] = NoEntry]
<1>1. /\ mounted /\ Idle /\ UNCHANGED <<disk, mounted, dir, active>> /\ i \in Used(dir)
      /\ DirCommit(queue, d)
  BY DEF fs_delete, Call
<1>2. dir \in FsDir /\ InRange(dir)
  BY DEF Reliable, VolumeOK
<1>3. d \in FsDir
  BY <1>2, DeleteKeeps
<1>4. d[i] = NoEntry /\ \A j \in File \ {i} : d[j] = dir[j]
  BY <1>2 DEF FsDir
<1> HIDE DEF d
<1>5. NoEntry.len = 0 /\ NoEntry.name = 0
  BY DEF NoEntry
<1>6. \A j \in File : d[j].len = 0 \/ (d[j].start = dir[j].start /\ d[j].len = dir[j].len)
  BY <1>4, <1>5
<1>7. V!IsEdit(Files(disk, dir), Files(disk, d))
  <2>1. Files(disk, dir)[i] # NoFile /\ Files(disk, d)[i] = NoFile
    <3>1. dir[i].name # 0 /\ d[i].name = 0
      BY <1>1, <1>4, <1>5 DEF Used
    <3>2. Files(disk, dir)[i] # NoFile
      BY <1>2, <3>1, FileIs
    <3>3. Files(disk, d)[i] = NoFile
      BY <1>3, <3>1, FileIs
    <3> QED  BY <3>2, <3>3
  <2>2. \A j \in File \ {i} : Files(disk, d)[j] = Files(disk, dir)[j]
    BY <1>2, <1>3, <1>4, OthersSame
  <2> QED  BY <2>1, <2>2, EditIs
<1> QED  BY <1>1, <1>3, <1>6, <1>7, EditStep

LEMMA RenameStep ==
    ASSUME Reliable, Reliable', Mirror, Mirror', NEW i \in File, NEW n \in Names, fs_rename(i, n)
    PROVE  AbstractStep
<1> DEFINE d == [dir EXCEPT ![i].name = n]
<1>1. /\ mounted /\ Idle /\ UNCHANGED <<disk, mounted, dir, active>> /\ i \in Used(dir)
      /\ DirCommit(queue, d) /\ \A j \in Used(dir) \ {i} : dir[j].name # n
  BY DEF fs_rename, Call
<1>2. dir \in FsDir /\ InRange(dir) /\ n \in Nat \ {0}
  BY NamesAssumption DEF Reliable, VolumeOK
<1>3. d \in FsDir
  BY <1>1, <1>2, RenameKeeps
<1>4. /\ d[i].name = n /\ d[i].start = dir[i].start /\ d[i].len = dir[i].len
      /\ \A j \in File \ {i} : d[j] = dir[j]
  BY <1>2 DEF FsDir, FsEntry
<1> HIDE DEF d
<1>5. \A j \in File : d[j].len = 0 \/ (d[j].start = dir[j].start /\ d[j].len = dir[j].len)
  BY <1>4
<1>6. Contents(disk, d[i]) = Contents(disk, dir[i])
  BY <1>4 DEF Contents
<1>7. V!IsEdit(Files(disk, dir), Files(disk, d))
  <2>1. Files(disk, dir)[i] # NoFile
    <3>1. dir[i].name # 0
      BY <1>1 DEF Used
    <3> QED  BY <1>2, <3>1, FileIs
  <2>2. Files(disk, d)[i].name = n /\ Files(disk, d)[i].data = Files(disk, dir)[i].data
    <3>1. Files(disk, d)[i].name = d[i].name /\ Files(disk, d)[i].data = Contents(disk, d[i])
      BY <1>3, FileIs
    <3>2. Files(disk, dir)[i].data = Contents(disk, dir[i])
      BY <1>2, FileIs
    <3> QED  BY <1>4, <1>6, <3>1, <3>2
  <2>3. V!Fresh(Files(disk, dir), i, Files(disk, d)[i].name)
    BY <1>1, <1>2, <2>2, FreshIs
  <2>4. \A j \in File \ {i} : Files(disk, d)[j] = Files(disk, dir)[j]
    BY <1>2, <1>3, <1>4, OthersSame
  <2> DEFINE f == Files(disk, dir)
             g == Files(disk, d)
  <2>5. f[i] # NoFile /\ g[i].data = f[i].data
    BY <2>1, <2>2
  <2>6. V!Fresh(f, i, g[i].name)
    BY <2>3
  <2>7. \A j \in File \ {i} : g[j] = f[j]
    BY <2>4
  <2> HIDE DEF f, g
  <2>8. V!IsEdit(f, g)
    BY <2>5, <2>6, <2>7, EditIs
  <2> QED  BY <2>8 DEF f, g
<1> QED  BY <1>1, <1>3, <1>5, <1>7, EditStep
-----------------------------------------------------------------------------
\* What fs_write has queued is one value throughout the file it writes.
LEMMA WrittenData ==
    ASSUME VolumeOK, NEW i \in File, NEW len \in 0..MaxRun, NEW v \in Data, fs_write(i, len, v),
           op' = DataOp(Rewritten(i, len)), op' # NoOp
    PROVE  OneWrite(Contents(Cache!View(disk, queue'), Rewritten(i, len)[i]))
<1> DEFINE ws == WriteQueue(i, len, v)
           need == blocks_for(len)
           base == WriteBase(i, need)
           e == Rewritten(i, len)[i]
           r == Cache!View(disk, queue')
<1>1. /\ base \in Nat /\ need \in Nat \ {0} /\ len \in Nat /\ len <= need
      /\ base >= 1 /\ base + need <= DataEnd
      /\ \A k \in 1..need : ws[k].addr = DataBlock(base + k - 1) /\ ws[k].val = IF k <= len THEN v ELSE 0
  <2>1. /\ base \in Nat /\ need \in Nat \ {0} /\ len \in Nat /\ len <= need
        /\ base >= 1 /\ base + need <= DataEnd
    BY FsWriteQueue, SMTT(30)
  <2>2. ASSUME NEW k \in 1..need
        PROVE  ws[k].addr = DataBlock(base + k - 1) /\ ws[k].val = IF k <= len THEN v ELSE 0
    BY FsWriteQueue, SMTT(30)
  <2> QED  BY <2>1, <2>2
<1>2. PICK n \in 0..need : /\ Merged(queue, ws, n, queue')
                           /\ op' = IF n = need THEN DataOp(Rewritten(i, len)) ELSE NoOp
  BY FsWriteQueue
<1>3. n = need
  BY <1>2
<1>4. e.start = base /\ e.len = len
  <2>1. e = [name |-> dir[i].name, start |-> base, len |-> len, blocks |-> need]
    BY DEF Rewritten, VolumeOK, FsDir
  <2> HIDE DEF e, base, need
  <2> QED  BY <2>1
<1>5. DiskOK(disk) /\ QueueOK(queue')
  BY <1>2 DEF VolumeOK, Merged
<1>6. r = Cache!Drained(disk, queue', Len(queue')) /\ Len(queue') \in 0..Len(queue')
  BY <1>5, ViewDrained
<1> HIDE DEF ws, need, base, e, r
<1>7. ASSUME NEW k \in 1..len PROVE r[DataBlock(base + k - 1)] = v
  <2>1. k \in 1..need /\ k \in 1..n /\ base + k - 1 \in 1..NBlocks
    BY <1>1, <1>3, SizeFacts
  <2>2. ws[k].addr = DataBlock(base + k - 1) /\ ws[k].val = v
    BY <1>1, <2>1
  <2>3. PICK l \in 1..Len(queue') : queue'[l] = ws[k]
    BY <1>2, <2>1 DEF Merged
  <2>4. DataBlock(base + k - 1) \in Addr
    BY <2>1, AddrFacts
  <2>5. queue'[l].addr = DataBlock(base + k - 1)
    BY <2>2, <2>3
  <2>6. r[DataBlock(base + k - 1)] = queue'[l].val
    BY <1>5, <1>6, <2>3, <2>4, <2>5, DrainedBlock
  <2> QED  BY <2>2, <2>3, <2>6
<1>8. Contents(r, e) = [k \in 1..len |-> r[DataBlock(base + k - 1)]]
  BY <1>4 DEF Contents
<1> QED  BY <1>7, <1>8 DEF OneWrite, e, r

LEMMA WriteStep ==
    ASSUME Reliable, Reliable', Mirror, Mirror', NEW i \in File, NEW len \in 0..MaxRun, NEW v \in Data,
           fs_write(i, len, v)
    PROVE  AbstractStep
<1> DEFINE d == Rewritten(i, len)
           r == Cache!View(disk, queue')
<1>1. /\ mounted /\ Idle /\ UNCHANGED <<disk, mounted, dir, active>> /\ i \in Used(dir)
      /\ VolumeOK
  BY DEF fs_write, Call, Reliable
<1>2. d \in FsDir /\ (op' = NoOp \/ op' = DataOp(d))
  BY <1>1, FsWriteFacts
<1>3. DataOp(d).at = "data" /\ DataOp(d).kind = "edit" /\ DataOp(d).dir = d
  BY DEF DataOp
<1>4. Queueing
  BY <1>1, <1>2, <1>3, NoOpFields DEF Queueing
<1>5. Avoids(queue', dir) /\ dir \in FsDir /\ InRange(dir) /\ DiskOK(disk) /\ QueueOK(queue')
  BY <1>4, QueueingIs
<1>6. d[i].name = dir[i].name /\ \A j \in File \ {i} : d[j] = dir[j]
  BY <1>5 DEF Rewritten, FsDir
<1>7. CASE op' = NoOp
  BY <1>4, <1>7, QueueingIs DEF AbstractStep
<1>8. CASE op' = DataOp(d) /\ op' # NoOp
  <2>1. OneWrite(Contents(r, d[i]))
    BY <1>1, <1>8, WrittenData
  <2>2. Files(r, dir) = Files(disk, dir)
    BY <1>5, ViewDrained, FilesKept
  <2> HIDE DEF d, r
  <2>3. Files(r, d)[i].name = d[i].name /\ Files(r, d)[i].data = Contents(r, d[i])
    BY <1>2, FileIs
  <2>4. Files(disk, dir)[i] # NoFile /\ Files(disk, dir)[i].name = dir[i].name
    BY <1>1, <1>5, FileIs DEF Used
  <2>5. \A j \in File \ {i} : Files(r, d)[j] = Files(disk, dir)[j]
    BY <1>2, <1>5, <1>6, <2>2, OthersSame
  <2> DEFINE f == Files(disk, dir)
             g == Files(r, d)
  <2>6. f[i] # NoFile /\ g[i].name = f[i].name /\ OneWrite(g[i].data)
    BY <1>6, <2>1, <2>3, <2>4
  <2>7. \A j \in File \ {i} : g[j] = f[j]
    BY <2>5
  <2> HIDE DEF f, g
  <2>8. V!IsEdit(f, g)
    BY <2>6, <2>7, EditIs
  <2>9. op'.kind # "none" /\ op'.dir = d
    BY <1>3, <1>8
  <2>10. V!IsEdit(Files(disk, dir), Files(Cache!View(disk, queue'), d))
    BY <2>8 DEF f, g, r
  <2> QED  BY <1>4, <2>9, <2>10, EditBegins DEF AbstractStep
<1> QED  BY <1>2, <1>7, <1>8

\* A flush that succeeded, with no header among the blocks, while mounted.
LEMMA FlushedIs ==
    ASSUME Reliable, Reliable', Mirror, Mirror', mounted, op.at # "header", Flushed,
           UNCHANGED <<mounted, dir, active>>
    PROVE  /\ vol = Outcome("ok", Files(disk, dir)) /\ Files(disk', dir) = Files(disk, dir)
           /\ vol \in safe /\ V!Mounted /\ disk'[SB] # 0 /\ Disjoint(dir)
           /\ dir \in FsDir /\ InRange(dir)
           /\ op'.at # "header" => vol' = vol /\ safe' = {vol}
<1>1. VolumeOK /\ DiskOK(disk) /\ QueueOK(queue) /\ disk' = Cache!View(disk, queue)
      /\ disk' = Cache!Drained(disk, queue, Len(queue)) /\ Len(queue) \in 0..Len(queue)
  BY FlushFacts DEF Reliable
<1>2. Serving(disk, queue, dir, active)
  BY ReliableState DEF StateFacts
<1>3. vol = Live(TRUE, dir, disk, queue) /\ safe = CrashOutcomes(disk, queue)
  BY DEF Mirror
<1>4. vol = Outcome("ok", Files(disk, dir)) /\ vol \in safe
  BY <1>2, <1>3, ServedIs
<1>5. dir \in FsDir /\ InRange(dir) /\ Avoids(queue, dir) /\ Disjoint(dir)
  BY <1>2, ServingFacts
<1>6. Files(disk', dir) = Files(disk, dir)
  BY <1>1, <1>5, FilesKept
<1>7. disk'[SB] # 0
  BY <1>1, <1>2 DEF Serving
<1>8. V!Mounted
  BY <1>4, OutcomeFields DEF V!Mounted
<1>9. ASSUME op'.at # "header" PROVE vol' = vol /\ safe' = {vol}
  <2>1. Serving(disk', queue', dir', active')
    BY <1>9, ReliableNext
  <2>2. vol' = Live(TRUE, dir', disk', queue') /\ safe' = CrashOutcomes(disk', queue')
    BY DEF Mirror
  <2>3. /\ vol' = Kept(disk') /\ Kept(disk') = Outcome("ok", Files(disk', dir'))
        /\ safe' = {Kept(disk')} \cup (IF disk'[SB] = 0 THEN {Unset} ELSE {})
    BY <2>1, <2>2, ServingFacts
  <2> QED  BY <1>4, <1>6, <1>7, <2>3
<1> QED  BY <1>4, <1>5, <1>6, <1>7, <1>8, <1>9

\* The files an operation makes are on the disk once its blocks are.
LEMMA MakingFlushed ==
    ASSUME Reliable, Mirror, Mirror', Flushed, op.kind # "none", op'.kind # "none", op'.dir = op.dir,
           NoData(queue'), QueueOK(queue')
    PROVE  /\ next = Outcome("ok", Files(disk', op.dir)) /\ next' = next
           /\ next # Nothing /\ next # Unset
<1>1. DiskOK(disk') /\ disk' = Cache!View(disk, queue)
  BY FlushFacts DEF Reliable
<1>2. op.dir \in FsDir /\ InRange(op.dir)
  BY DEF Reliable, VolumeOK, FsOp
<1>3. Files(Cache!View(disk', queue'), op.dir) = Files(disk', op.dir)
  BY <1>1, <1>2, ViewDrained, NoDataAvoids, FilesKept
<1>4. next = Outcome("ok", Files(Cache!View(disk, queue), op.dir))
  BY MakingIs DEF Mirror
<1>5. next' = Outcome("ok", Files(Cache!View(disk', queue'), op'.dir))
  BY MakingIs DEF Mirror
<1> QED  BY <1>1, <1>3, <1>4, <1>5, OutcomesApart

LEMMA DataFlushedStep ==
    ASSUME Reliable, Reliable', Mirror, Mirror', DataFlushed
    PROVE  V!Next
<1>1. /\ op.at = "data" /\ Flushed /\ DirCommit(<<>>, op.dir) /\ UNCHANGED <<mounted, dir, active>>
      /\ op.kind = "edit" /\ mounted /\ op.dir \in FsDir /\ active \in {0, 1}
      /\ QueueOK(queue')
  BY DEF DataFlushed, Reliable, OpOK, VolumeOK, FsOp
<1>2. 1 - active \in {0, 1} /\ DirWriteSlot(<<>>, "edit", 1 - active, NextGen, op.dir)
  BY <1>1 DEF DirCommit
<1>3. op' = NoOp \/ op' = DirOp("edit", 1 - active, NextGen, op.dir)
  BY <1>2 DEF DirWriteSlot, DirOp
<1>4. op'.at # "header"
  BY <1>3, NoOpFields, DirOpFacts
<1>5. vol' = vol /\ safe' = {vol} /\ vol \in safe /\ V!Mounted
  BY <1>1, <1>4, FlushedIs
<1>6. V!Settles(safe) /\ V!Settles(safe \cup {next} \cup (IF V!Mounted THEN {} ELSE {V!Unformatted}))
  BY <1>5 DEF V!Settles
<1>7. next # Nothing
  BY <1>1, MakingIs DEF Mirror
<1>8. CASE op' = NoOp
  <2>1. next' = Nothing
    BY <1>8, NoOpOK, MakingIs DEF Mirror
  <2>2. V!Abort
    BY <1>5, <1>6, <1>7, <2>1, VolumeConstants DEF V!Abort
  <2> QED  BY <2>2 DEF V!Next
<1>9. CASE op' = DirOp("edit", 1 - active, NextGen, op.dir)
  <2>1. op'.kind = "edit" /\ op'.dir = op.dir
    BY <1>9, DirOpFacts
  <2>2. NoData(queue')
    BY <1>1, <1>2, EmptyOK, NoDataEmpty, DirSlotQueue
  <2>3. next' = next
    BY <1>1, <2>1, <2>2, MakingFlushed
  <2>4. V!Progress
    BY <1>5, <1>6, <1>7, <2>3, VolumeConstants DEF V!Progress
  <2> QED  BY <2>4 DEF V!Next
<1> QED  BY <1>3, <1>8, <1>9
-----------------------------------------------------------------------------
\* A header behind the entries it speaks for: before it is stored the other
\* slot is the newest, and afterwards this one.
LEMMA HeaderVouchesOn ==
    ASSUME NEW m, DiskOK(m), NEW s \in {0, 1}, NEW g \in 0..(GenMod - 1), NEW d,
           SlotDir(m, s) = d, Disjoint(d), (m[Header(1 - s)].gen + 1) % GenMod = g,
           NEW r, r = Cache!View(m, HeaderWrite(s, g, d))
    PROVE  Newest(r, s) /\ SlotDir(r, s) = d /\ r[SB] = m[SB]
<1>1. /\ r[Header(s)] = [magic |-> TRUE, gen |-> g, sum |-> dir_sum(d)]
      /\ r[Header(1 - s)] = m[Header(1 - s)] /\ r[SB] = m[SB]
      /\ \A c \in {0, 1} : SlotDir(r, c) = SlotDir(m, c)
  BY HeaderStored
<1>2. Vouched(r, s, g)
  BY <1>1 DEF Vouched
<1> QED  BY <1>1, <1>2, VouchedIsNewest

LEMMA HeaderOutcomes ==
    ASSUME NEW m, NEW s \in {0, 1}, NEW g \in 0..(GenMod - 1), NEW d
    PROVE  CrashOutcomes(m, HeaderWrite(s, g, d)) =
             {Recovered(m), Recovered(Cache!View(m, HeaderWrite(s, g, d)))}
<1> DEFINE q == HeaderWrite(s, g, d)
<1>1. QueueOK(q) /\ Len(q) = 1
  BY HeaderWriteOK
<1> HIDE DEF q
<1>2. Cache!View(m, q) = Cache!Drained(m, q, 1) /\ 0..Len(q) = {0, 1}
  <2>1. Cache!View(m, q) = Cache!Drained(m, q, Len(q))
    BY <1>1, ViewDrained
  <2>2. 0..1 = {0, 1}
    OBVIOUS
  <2> QED  BY <1>1, <2>1, <2>2
<1>3. Cache!Drained(m, q, 0) = m
  BY NothingStored
<1>4. CrashOutcomes(m, q) = {Recovered(Cache!Drained(m, q, k)) : k \in {0, 1}}
  BY <1>2 DEF CrashOutcomes, CrashDisks
<1> QED  BY <1>2, <1>3, <1>4 DEF q

LEMMA DirFlushedStep ==
    ASSUME Reliable, Reliable', Mirror, Mirror', DirFlushed
    PROVE  V!Next
<1> DEFINE q == HeaderWrite(op.slot, op.gen, op.dir)
<1>1. /\ op.at = "dir" /\ Flushed /\ queue' = q /\ op' = [op EXCEPT !.at = "header"]
      /\ UNCHANGED <<mounted, dir, active, gen>>
  BY DEF DirFlushed
<1>2. /\ op.slot \in {0, 1} /\ op.gen \in 0..(GenMod - 1) /\ op.dir \in FsDir /\ op.kind # "none"
      /\ op.kind \in {"edit", "format1", "format0"} /\ mounted \in BOOLEAN
      /\ op'.kind = op.kind /\ op'.dir = op.dir /\ op'.slot = op.slot /\ op'.at = "header"
  BY <1>1 DEF Reliable, OpOK, VolumeOK, FsOp
<1>3. DiskOK(disk') /\ disk' = Cache!View(disk, queue) /\ DiskOK(disk) /\ QueueOK(queue)
  BY <1>1, FlushFacts DEF Reliable
<1>4. QueueOK(queue') /\ NoData(queue')
  BY <1>1, <1>2, HeaderWriteOK, NoDataHeader
<1>5. next = Outcome("ok", Files(disk', op.dir)) /\ next' = next /\ next # Nothing
  BY <1>1, <1>2, <1>4, MakingFlushed
<1>6. CASE op.kind = "edit"
  <2>1. mounted /\ op.slot = 1 - active /\ op.gen = NextGen /\ active \in {0, 1} /\ gen \in 0..(GenMod - 1)
    BY <1>1, <1>6 DEF Reliable, OpOK, VolumeOK
  <2>2. /\ vol = Outcome("ok", Files(disk, dir)) /\ Files(disk', dir) = Files(disk, dir)
        /\ vol \in safe /\ V!Mounted /\ disk'[SB] # 0 /\ Disjoint(dir)
        /\ dir \in FsDir /\ InRange(dir)
    BY <1>1, <2>1, FlushedIs
  <2>3. Vouched(disk', active, gen) /\ SlotDir(disk', active) = dir
    BY <1>1, <2>1, FlushKeeps DEF Reliable
  <2>4. Newest(disk', active) /\ disk'[Header(active)].gen = gen
    BY <2>1, <2>3, VouchedIsNewest
  <2>5. Recovered(disk') = vol
    BY <1>3, <2>1, <2>2, <2>3, <2>4, RecoveredNewest
  <2>6. Files(Cache!View(disk', queue'), op.dir) = Files(disk', op.dir)
    <3>1. InRange(op.dir)
      BY DEF Reliable, VolumeOK
    <3> QED  BY <1>2, <1>3, <1>4, <3>1, ViewDrained, NoDataAvoids, FilesKept
  <2>7. Files(Cache!View(disk', queue'), dir) = Files(disk', dir)
    BY <1>3, <1>4, <2>2, ViewDrained, NoDataAvoids, FilesKept
  <2>8. Recovered(Cache!View(disk', queue')) = next
    <3>1. SlotDir(disk', op.slot) = op.dir
      BY <1>2 DEF Reliable, OpOK
    <3>2. Disjoint(op.dir)
      BY <2>2 DEF Reliable, VolumeOK
    <3>3. (disk'[Header(1 - op.slot)].gen + 1) % GenMod = op.gen
      BY <2>1, <2>4 DEF NextGen
    <3> DEFINE r == Cache!View(disk', queue')
    <3>4. r = Cache!View(disk', HeaderWrite(op.slot, op.gen, op.dir)) /\ DiskOK(r)
      BY <1>1, <1>3, <1>4, ViewOK
    <3> HIDE DEF r
    <3>5. Newest(r, op.slot) /\ SlotDir(r, op.slot) = op.dir /\ r[SB] = disk'[SB]
      BY <1>2, <1>3, <3>1, <3>2, <3>3, <3>4, HeaderVouchesOn
    <3>6. Recovered(r) = Outcome("ok", Files(r, op.dir))
      BY <1>2, <2>2, <3>4, <3>5, RecoveredNewest
    <3> QED  BY <1>5, <2>6, <3>6 DEF r
  <2>9. safe' = {vol, next}
    <3>1. safe' = CrashOutcomes(disk', HeaderWrite(op.slot, op.gen, op.dir))
      BY <1>1 DEF Mirror
    <3> QED  BY <1>1, <1>2, <2>5, <2>8, <3>1, HeaderOutcomes
  <2>10. vol' = vol
    BY <1>1, <2>1, <2>2, <2>7 DEF Mirror, Live
  <2>11. V!Settles(safe \cup {next} \cup (IF V!Mounted THEN {} ELSE {V!Unformatted}))
    BY <2>2, <2>9 DEF V!Settles
  <2>12. V!Progress
    BY <1>5, <2>10, <2>11, VolumeConstants DEF V!Progress
  <2> QED  BY <2>12 DEF V!Next
<1>7. CASE op.kind # "edit"
  <2>1. ~mounted
    BY <1>2, <1>7 DEF Reliable, OpOK
  <2>2. vol = Nothing /\ vol' = Nothing /\ ~V!Mounted
    BY <1>1, <1>2, <2>1, MountedIs, LiveUnmounted DEF Mirror
  <2>3. disk'[SB] = 0 /\ \A k \in 1..Len(queue') : queue'[k].addr # SB
    BY <1>2, <1>7 DEF Reliable, Recoverable
  <2>4. safe' = {Unset}
    BY <1>3, <1>4, <2>3, BlankedOutcomes DEF Mirror, Blanked
  <2>5. V!Settles(safe \cup {next} \cup (IF V!Mounted THEN {} ELSE {V!Unformatted}))
    BY <2>2, <2>4, VolumeConstants DEF V!Settles
  <2>6. V!Progress
    BY <1>5, <2>2, <2>5, VolumeConstants DEF V!Progress
  <2> QED  BY <2>6 DEF V!Next
<1> QED  BY <1>6, <1>7

LEMMA CommitFlushedStep ==
    ASSUME Reliable, Reliable', Mirror, Mirror', CommitFlushed
    PROVE  V!Next
<1>1. /\ op.at = "header" /\ op.kind = "edit" /\ Flushed /\ queue' = <<>> /\ op' = NoOp
      /\ dir' = op.dir /\ mounted' = mounted /\ mounted
  BY DEF CommitFlushed, Reliable, OpOK
<1>2. disk' = Cache!View(disk, queue)
  BY <1>1, FlushFacts DEF Reliable
<1>3. Serving(disk', queue', dir', active')
  BY <1>1, ReliableNext, NoOpFields
<1>4. vol' = Live(TRUE, dir', disk', queue') /\ safe' = CrashOutcomes(disk', queue')
  BY <1>1 DEF Mirror
<1>5. /\ vol' = Kept(disk') /\ Kept(disk') = Outcome("ok", Files(disk', dir'))
      /\ safe' = {Kept(disk')} \cup (IF disk'[SB] = 0 THEN {Unset} ELSE {})
  BY <1>3, <1>4, ServingFacts
<1>6. disk'[SB] # 0
  BY <1>1, <1>3, CrashEmpty DEF Serving
<1>7. next = Outcome("ok", Files(disk', dir')) /\ next # Nothing
  BY <1>1, <1>2, MakingIs DEF Mirror
<1>8. next' = Nothing
  BY <1>1, NoOpOK, MakingIs DEF Mirror
<1>9. V!Mounted
  BY <1>1, MountedIs DEF Reliable, VolumeOK
<1>10. V!Commit
  BY <1>5, <1>6, <1>7, <1>8, <1>9, VolumeConstants DEF V!Commit
<1> QED  BY <1>10 DEF V!Next

LEMMA FormatFlushedStep ==
    ASSUME Reliable, Reliable', Mirror, Mirror', FormatFlushed
    PROVE  V!Next
<1>1. /\ op.at = "header" /\ op.kind \in {"format1", "format0"} /\ Flushed
      /\ UNCHANGED <<dir, active, gen>> /\ ~mounted /\ dir = NoDir /\ op.dir = NoDir /\ mounted \in BOOLEAN
  BY DEF FormatFlushed, Reliable, OpOK, VolumeOK, FsOp
<1>2. DiskOK(disk') /\ disk' = Cache!View(disk, queue) /\ DiskOK(disk) /\ QueueOK(queue)
  BY <1>1, FlushFacts DEF Reliable
<1>3. vol = Nothing /\ ~V!Mounted
  BY <1>1, MountedIs
<1>4. next = Outcome("ok", NoFiles) /\ next # Nothing /\ next # Unset
  BY <1>1, MakingIs, NoFilesIs, OutcomesApart DEF Mirror
<1>5. disk[SB] = 0 /\ disk'[SB] = 0
  BY <1>1, <1>2, HeaderOnly DEF Reliable, Recoverable
<1>6. CASE op.kind = "format1"
  <2>1. DirWriteSlot(<<>>, "format0", 0, 1, NoDir) /\ mounted' = mounted
    BY <1>1, <1>6 DEF FormatFlushed
  <2>2. op' = NoOp \/ op' = DirOp("format0", 0, 1, NoDir)
    BY <2>1 DEF DirWriteSlot, DirOp
  <2>3. vol' = Nothing
    BY <1>1, <2>1, LiveUnmounted DEF Mirror
  <2>4. Blanked(disk', <<>>)
    BY <1>5, EmptyOK DEF Blanked
  <2>5. QueueOK(queue') /\ Blanked(disk', queue')
    BY <1>2, <2>1, <2>4, EmptyOK, NoDirOK, DirSlotQueue, DirWriteSlotFacts
  <2>6. safe' = {Unset}
    BY <1>2, <2>5, BlankedOutcomes DEF Mirror
  <2>7. Unset \in safe
    BY <1>2, <1>5, CrashEnds, RecoveredBlank DEF Mirror
  <2>8. V!Settles(safe) /\ V!Settles(safe \cup {next} \cup (IF V!Mounted THEN {} ELSE {V!Unformatted}))
    BY <1>3, <2>6, <2>7 DEF V!Settles
  <2>9. CASE op' = NoOp
    <3>1. next' = Nothing
      BY <2>9, NoOpOK, MakingIs DEF Mirror
    <3>2. V!Abort
      BY <1>3, <1>4, <2>3, <2>8, <3>1, VolumeConstants DEF V!Abort
    <3> QED  BY <3>2 DEF V!Next
  <2>10. CASE op' = DirOp("format0", 0, 1, NoDir)
    <3>1. op'.kind = "format0" /\ op'.dir = NoDir
      BY <2>10, DirOpFacts
    <3>2. next' = Outcome("ok", NoFiles)
      BY <3>1, MakingIs, NoFilesIs DEF Mirror
    <3>3. V!Progress
      BY <1>3, <1>4, <2>3, <2>8, <3>2, VolumeConstants DEF V!Progress
    <3> QED  BY <3>3 DEF V!Next
  <2> QED  BY <2>2, <2>9, <2>10
<1>7. CASE op.kind = "format0"
  <2>1. queue' = SbWrite(1) /\ op' = NoOp /\ mounted' = TRUE /\ dir' = NoDir
    BY <1>1, <1>7 DEF FormatFlushed
  <2>2. Serving(disk', queue', dir', active')
    BY <2>1, ReliableNext, NoOpFields
  <2>3. vol' = Live(TRUE, dir', disk', queue') /\ safe' = CrashOutcomes(disk', queue')
    BY <2>1 DEF Mirror
  <2>4. vol' = Outcome("ok", Files(disk', dir')) /\ vol' \in safe' /\ safe' \subseteq {vol', Unset}
    BY <2>2, <2>3, ServedIs
  <2>5. vol' = Outcome("ok", NoFiles)
    BY <2>1, <2>4, NoFilesIs
  <2>6. next' = Nothing
    BY <2>1, NoOpOK, MakingIs DEF Mirror
  <2>7. V!Formatted
    BY <1>3, <1>4, <2>4, <2>5, <2>6, VolumeConstants DEF V!Formatted
  <2> QED  BY <2>7 DEF V!Next
<1> QED  BY <1>1, <1>6, <1>7
-----------------------------------------------------------------------------
\* One step of zlfs, on a device that stores every header, is one of Volume.
LEMMA VolumeStep ==
    ASSUME Reliable, Reliable', Promised, Mirror, Mirror', [Next]_vars
    PROVE  AbstractStep
<1>1. CASE UNCHANGED vars
  <2>1. UNCHANGED <<disk, queue, mounted, dir, op>>
    BY <1>1 DEF vars
  <2> QED  BY <2>1 DEF Mirror, AbstractStep, Live, Making, CrashOutcomes, CrashDisks
<1>2. CASE fs_mkfs
  BY <1>2, FormatStep DEF AbstractStep
<1>3. CASE fs_mount
  BY <1>3, MountStep DEF AbstractStep
<1>4. CASE fs_sync
  BY <1>4, SyncCallStep DEF AbstractStep
<1>5. CASE \E n \in Names, len \in 0..MaxRun : fs_create(n, len)
  BY <1>5, CreateStep
<1>6. CASE \E i \in File, len \in 0..MaxRun, v \in Data : fs_write(i, len, v)
  BY <1>6, WriteStep
<1>7. CASE \E i \in File : fs_delete(i) \/ \E n \in Names : fs_rename(i, n)
  BY <1>7, DeleteStep, RenameStep
<1>8. CASE DataFlushed
  BY <1>8, DataFlushedStep DEF AbstractStep
<1>9. CASE DirFlushed
  BY <1>9, DirFlushedStep DEF AbstractStep
<1>10. CASE CommitFlushed
  BY <1>10, CommitFlushedStep DEF AbstractStep
<1>11. CASE FormatFlushed
  BY <1>11, FormatFlushedStep DEF AbstractStep
<1>12. CASE SyncFlushed
  BY <1>12, SyncFlushedStep DEF AbstractStep
<1>13. CASE FlushFails
  BY <1>13, FailStep DEF AbstractStep
<1>14. CASE PowerCut
  BY <1>14, CutStep DEF AbstractStep
<1> QED  BY <1>1, <1>2, <1>3, <1>4, <1>5, <1>6, <1>7, <1>8, <1>9, <1>10, <1>11, <1>12, <1>13, <1>14
         DEF Next, Step

VolumeInv == VolumeOK /\ OpOK /\ (Promised => Recoverable /\ Dependable /\ Mirror)

LEMMA VolumeStarts == VInit => VolumeInv /\ V!Init
<1> SUFFICES ASSUME VInit PROVE VolumeInv /\ V!Init
  OBVIOUS
<1>1. Init /\ Mirror
  BY DEF VInit, Mirror
<1>2. VolumeOK /\ OpOK /\ Recoverable /\ Dependable
  BY <1>1, TypesInit, OpOKInit, KeptInit, DependableInit
<1>3. mounted = FALSE /\ queue = <<>> /\ op = NoOp /\ disk[SB] = 0
  BY <1>1, AddrFacts DEF Init, SB
<1>4. vol = Nothing /\ next = Nothing
  BY <1>1, <1>3, LiveUnmounted, NoOpOK, MakingIs DEF Mirror
<1>5. safe = {Unset}
  BY <1>1, <1>3, CrashEmpty, RecoveredBlank DEF Mirror
<1> QED  BY <1>1, <1>2, <1>4, <1>5, VolumeConstants DEF VolumeInv, V!Init

LEMMA VolumeKept ==
    VolumeInv /\ [VNext]_<<vars, vol, next, safe>> => VolumeInv' /\ [V!Next]_(V!vars)
<1> SUFFICES ASSUME VolumeInv, [VNext]_<<vars, vol, next, safe>>
             PROVE  VolumeInv' /\ [V!Next]_(V!vars)
  OBVIOUS
<1>1. [Next]_vars
  BY DEF VNext
<1>2. plan' = plan
  BY <1>1 DEF Next, vars
<1>3. Promised' = Promised
  BY <1>2 DEF Promised
<1>4. VolumeOK /\ OpOK /\ VolumeOK' /\ OpOK'
  BY <1>1, TypesKept, OpKept DEF VolumeInv
<1>5. CASE ~Promised
  <2>1. UNCHANGED <<vol, next, safe>>
    BY <1>5 DEF VNext
  <2> QED  BY <1>3, <1>4, <1>5, <2>1 DEF VolumeInv, V!vars
<1>6. CASE Promised
  <2>1. Recoverable /\ Dependable /\ Mirror /\ Reliable
    BY <1>4, <1>6 DEF VolumeInv, Reliable
  <2>2. Recoverable'
    BY <1>1, <1>3, <1>4, <1>6, <2>1, RecoverableKept
  <2>3. Dependable'
    BY <1>1, <1>4, <1>6, <2>1, DependableKept
  <2>4. Mirror'
    <3>1. CASE VNext
      BY <1>6, <3>1 DEF VNext, Mirror
    <3>2. CASE UNCHANGED <<vars, vol, next, safe>>
      <4>1. UNCHANGED <<disk, queue, mounted, dir, op, vol, next, safe>>
        BY <3>2 DEF vars
      <4> QED  BY <2>1, <4>1 DEF Mirror, Live, Making, CrashOutcomes, CrashDisks
    <3> QED  BY <3>1, <3>2
  <2>5. Reliable'
    BY <1>4, <2>2, <2>3 DEF Reliable
  <2>6. AbstractStep
    BY <1>1, <1>6, <2>1, <2>4, <2>5, VolumeStep
  <2> QED  BY <1>4, <2>2, <2>3, <2>4, <2>6 DEF VolumeInv, AbstractStep, V!vars
<1> QED  BY <1>5, <1>6

(***************************************************************************)
(* zlfs implements the volume: on a device that stores every header it is  *)
(* given (it may fail any other flush), and wherever the power goes, each  *)
(* of fs_create, fs_write, fs_delete and fs_rename either becomes part of  *)
(* the volume or leaves it as it was, a call that reports failure leaves   *)
(* nothing a mount could find, and a format that is cut short never mounts.*)
(***************************************************************************)
THEOREM ZlfsIsVolume == VSpec => ImplementsVolume
<1>1. VInit => VolumeInv /\ V!Init
  BY VolumeStarts
<1>2. VolumeInv /\ [VNext]_<<vars, vol, next, safe>> => VolumeInv' /\ [V!Next]_(V!vars)
  BY VolumeKept
<1> QED  BY <1>1, <1>2, PTL DEF VSpec, ImplementsVolume, V!Spec
-----------------------------------------------------------------------------
(***************************************************************************)
(* The block cache as a queue. The pages P are sorted by the sequence      *)
(* numbers of the dirty ones.                                              *)
(***************************************************************************)
DirtyOf(P) == {i \in Index : P[i].dirty}
Before(P, i) == {j \in DirtyOf(P) : P[j].seq < P[i].seq}
RankOf(P, i) == Cardinality(Before(P, i)) + 1
EntryOf(P, i) == [addr |-> P[i].lba, val |-> P[i].data]
QueueOf(P) ==
    [k \in 1..Cardinality(DirtyOf(P)) |->
        LET i == CHOOSE p \in DirtyOf(P) : RankOf(P, p) = k
        IN  [addr |-> P[i].lba, val |-> P[i].data]]
Write == [addr : Lba, val : Val]

\* No two dirty pages have the same sequence number.
Sorted(P) == P \in [Index -> Page]
    /\ \A i, j \in DirtyOf(P) : P[i].seq = P[j].seq => i = j

\* q is the queue of the dirty pages.
Listed(P, q) ==
    /\ q \in Seq(Write) /\ Len(q) = Cardinality(DirtyOf(P))
    /\ \A i \in DirtyOf(P) : RankOf(P, i) \in 1..Len(q) /\ q[RankOf(P, i)] = EntryOf(P, i)
    /\ \A k \in 1..Len(q) : \E i \in DirtyOf(P) : RankOf(P, i) = k

LEMMA QueueIs == DirtyQueue = QueueOf(page) /\ DirtyQueue' = QueueOf(page')
<1>1. Dirty = DirtyOf(page) /\ Dirty' = DirtyOf(page')
  BY DEF Dirty, DirtyOf
<1>2. DirtyQueue = QueueOf(page)
  BY <1>1 DEF DirtyQueue, QueueOf, Rank, RankOf, Before
<1>3. DirtyQueue' = QueueOf(page')
  BY <1>1 DEF DirtyQueue, QueueOf, Rank, RankOf, Before
<1> QED  BY <1>2, <1>3

LEMMA DirtyOfFinite ==
    ASSUME NEW P
    PROVE  /\ IsFiniteSet(DirtyOf(P)) /\ Cardinality(DirtyOf(P)) \in Nat
           /\ \A i : IsFiniteSet(Before(P, i)) /\ Cardinality(Before(P, i)) \in Nat
                     /\ Before(P, i) \subseteq DirtyOf(P)
<1>1. IsFiniteSet(Index)
  BY NAssumption, FS_Interval DEF Index
<1>2. DirtyOf(P) \subseteq Index /\ \A i : Before(P, i) \subseteq DirtyOf(P)
  BY DEF DirtyOf, Before
<1>3. IsFiniteSet(DirtyOf(P)) /\ \A i : IsFiniteSet(Before(P, i))
  BY <1>1, <1>2, FS_Subset
<1> QED  BY <1>2, <1>3, FS_CardinalityType

LEMMA RanksApart ==
    ASSUME NEW P, Sorted(P)
    PROVE  /\ \A i \in DirtyOf(P) : RankOf(P, i) \in 1..Cardinality(DirtyOf(P))
           /\ \A i, j \in DirtyOf(P) : P[i].seq < P[j].seq => RankOf(P, i) < RankOf(P, j)
           /\ \A i, j \in DirtyOf(P) : RankOf(P, i) = RankOf(P, j) => i = j
<1>1. ASSUME NEW i \in DirtyOf(P) PROVE RankOf(P, i) \in 1..Cardinality(DirtyOf(P)) /\ P[i].seq \in Nat
  <2>1. i \in Index /\ P[i].seq \in Nat
    BY WordAssumption DEF Sorted, Page, DirtyOf
  <2>2. i \notin Before(P, i) /\ Before(P, i) \subseteq DirtyOf(P)
    BY <2>1 DEF Before
  <2>3. Cardinality(Before(P, i)) <= Cardinality(DirtyOf(P)) /\ Cardinality(Before(P, i)) # Cardinality(DirtyOf(P))
    BY <2>2, DirtyOfFinite, FS_Subset
  <2> QED  BY <2>1, <2>3, DirtyOfFinite DEF RankOf
<1>2. ASSUME NEW i \in DirtyOf(P), NEW j \in DirtyOf(P), P[i].seq < P[j].seq
      PROVE  RankOf(P, i) < RankOf(P, j)
  <2>1. Before(P, i) \subseteq Before(P, j) /\ i \in Before(P, j) /\ i \notin Before(P, i)
    BY <1>1, <1>2 DEF Before
  <2>2. Cardinality(Before(P, i)) <= Cardinality(Before(P, j)) /\ Cardinality(Before(P, i)) # Cardinality(Before(P, j))
    BY <2>1, DirtyOfFinite, FS_Subset
  <2> QED  BY <2>2, DirtyOfFinite DEF RankOf
<1>3. ASSUME NEW i \in DirtyOf(P), NEW j \in DirtyOf(P), RankOf(P, i) = RankOf(P, j)
      PROVE  i = j
  <2>1. ~(P[i].seq < P[j].seq) /\ ~(P[j].seq < P[i].seq)
    BY <1>1, <1>2, <1>3
  <2>2. P[i].seq = P[j].seq
    BY <1>1, <2>1
  <2> QED  BY <2>2 DEF Sorted
<1> QED  BY <1>1, <1>2, <1>3

\* As many ranks as there are dirty pages: every place of the queue is one's.
LEMMA RanksFill ==
    ASSUME NEW P, Sorted(P)
    PROVE  \A k \in 1..Cardinality(DirtyOf(P)) : \E i \in DirtyOf(P) : RankOf(P, i) = k
<1> DEFINE D == DirtyOf(P)
           n == Cardinality(D)
           f == [i \in D |-> RankOf(P, i)]
<1>1. f \in Injection(D, 1..n)
  BY RanksApart DEF Injection, IsInjective
<1>2. n \in Nat /\ IsFiniteSet(1..n) /\ Cardinality(1..n) = n
  <2>1. n \in Nat
    BY DirtyOfFinite
  <2> HIDE DEF n
  <2>2. Cardinality(1..n) = IF 1 > n THEN 0 ELSE n - 1 + 1
    BY <2>1, FS_Interval
  <2> QED  BY <2>1, <2>2, FS_Interval
<1>3. f \in Surjection(D, 1..n)
  <2> HIDE DEF f, D
  <2>1. Cardinality(D) = Cardinality(1..n)
    BY <1>2 DEF n
  <2> HIDE DEF n
  <2> QED  BY <1>1, <1>2, <2>1, FS_Injection
<1> QED  BY <1>3 DEF Surjection

LEMMA QueueListed ==
    ASSUME NEW P, Sorted(P)
    PROVE  Listed(P, QueueOf(P))
<1> DEFINE D == DirtyOf(P)
           n == Cardinality(D)
           q == QueueOf(P)
<1>1. n \in Nat
  BY DirtyOfFinite
<1>2. ASSUME NEW i \in D PROVE EntryOf(P, i) \in Write
  BY DEF Sorted, Page, DirtyOf, EntryOf, Write
<1>3. ASSUME NEW i \in D PROVE RankOf(P, i) \in 1..n /\ q[RankOf(P, i)] = EntryOf(P, i)
  <2>1. RankOf(P, i) \in 1..n
    BY RanksApart
  <2>2. (CHOOSE p \in D : RankOf(P, p) = RankOf(P, i)) = i
    BY RanksApart
  <2> QED  BY <2>1, <2>2 DEF QueueOf, EntryOf
<1>4. \A k \in 1..n : \E i \in D : RankOf(P, i) = k
  BY RanksFill
<1>5. q \in [1..n -> Write]
  <2>1. ASSUME NEW k \in 1..n PROVE q[k] \in Write
    <3>1. PICK i \in D : RankOf(P, i) = k
      BY <1>4
    <3> QED  BY <1>2, <1>3, <3>1
  <2>2. DOMAIN q = 1..n /\ q = [k \in 1..n |-> q[k]]
    BY DEF QueueOf
  <2> HIDE DEF q
  <2> QED  BY <2>1, <2>2
<1>6. q \in Seq(Write) /\ Len(q) = n
  <2> HIDE DEF q, n
  <2> QED  BY <1>1, <1>5
<1> QED  BY <1>3, <1>4, <1>6 DEF Listed

LEMMA ListedOnce ==
    ASSUME NEW P, NEW q, NEW r, Listed(P, q), Listed(P, r)
    PROVE  q = r
<1>1. Len(q) = Len(r) /\ q \in Seq(Write) /\ r \in Seq(Write)
  BY DEF Listed
<1>2. ASSUME NEW k \in 1..Len(q) PROVE q[k] = r[k]
  BY DEF Listed
<1> QED  BY <1>1, <1>2
-----------------------------------------------------------------------------
\* q without its m-th entry (all of q when there is none).
Without(q, m, k, s) ==
    /\ Len(s) = IF k < m THEN k ELSE k - 1
    /\ \A x \in 1..Len(s) : s[x] = IF x < m THEN q[x] ELSE q[x + 1]

LEMMA KeptOne ==
    ASSUME NEW S, NEW q \in Seq(S), NEW a, NEW m \in 1..(Len(q) + 1),
           \A j \in 1..Len(q) : q[j].addr = a <=> j = m
    PROVE  KeptOf(q, {a})[Len(q)] \in Seq(S) /\ Without(q, m, Len(q), KeptOf(q, {a})[Len(q)])
<1> DEFINE n == Len(q)
           f == KeptOf(q, {a})
           T == {k \in 0..n : ~Without(q, m, k, f[k])}
<1>1. /\ f \in [0..n -> Seq(S)] /\ f[0] = <<>> /\ n \in Nat
      /\ \A k \in 1..n : f[k] = IF q[k].addr \in {a} THEN f[k - 1] ELSE Append(f[k - 1], q[k])
  <2>1. n \in Nat
    OBVIOUS
  <2>2. KeptSteps(q, {a}, S)
    BY KeptStep
  <2> QED  BY <2>1, <2>2 DEF KeptSteps
<1> HIDE DEF f
<1>2. SUFFICES ASSUME T # {} PROVE FALSE
  <2>1. n \in 0..n /\ f[n] \in Seq(S)
    BY <1>1
  <2> QED  BY <2>1 DEF f
<1>3. PICK k \in T : \A y \in T : k <= y
  <2>1. T \subseteq Nat
    BY <1>1
  <2> HIDE DEF T
  <2> QED  BY <1>2, <2>1, LeastOf
<1>4. k \in 0..n /\ ~Without(q, m, k, f[k]) /\ m \in 1..(n + 1)
  OBVIOUS
<1>5. k # 0
  <2>1. Without(q, m, 0, <<>>)
    BY <1>4 DEF Without
  <2> QED  BY <1>1, <1>4, <2>1
<1>6. k \in 1..n /\ k - 1 \in 0..n /\ k \in Nat /\ m \in Nat
  BY <1>1, <1>4, <1>5
<1>7. Without(q, m, k - 1, f[k - 1])
  <2>1. k - 1 \notin T
    <3>1. ~(k <= k - 1)
      BY <1>6
    <3> HIDE DEF T
    <3> QED  BY <1>3, <3>1
  <2> QED  BY <1>6, <2>1
<1> DEFINE s == f[k - 1]
<1>8. s \in Seq(S) /\ q[k] \in S /\ f[k] = IF k = m THEN s ELSE Append(s, q[k])
  <2>1. q[k] \in S
    BY <1>6
  <2>2. f[k - 1] \in Seq(S)
    BY <1>1, <1>6
  <2>3. q[k].addr \in {a} <=> k = m
    BY <1>6
  <2> QED  BY <1>1, <1>6, <2>1, <2>2, <2>3
<1> HIDE DEF s, T
<1>9. CASE k = m
  <2>1. Without(q, m, k, s)
    BY <1>6, <1>7, <1>9 DEF Without, s
  <2> QED  BY <1>4, <1>8, <1>9, <2>1
<1>10. CASE k # m
  <2> DEFINE r == Append(s, q[k])
             l == Len(s)
  <2>1. l \in Nat /\ Len(r) = l + 1 /\ r[l + 1] = q[k] /\ \A i \in 1..l : r[i] = s[i]
    BY <1>8
  <2> HIDE DEF r
  <2>2. l = (IF k - 1 < m THEN k - 1 ELSE k - 2) /\ \A x \in 1..l : s[x] = IF x < m THEN q[x] ELSE q[x + 1]
    BY <1>6, <1>7 DEF Without, s
  <2> HIDE DEF l
  <2>3. Len(r) = IF k < m THEN k ELSE k - 1
    BY <1>6, <1>10, <2>1, <2>2
  <2>4. ASSUME NEW x \in 1..Len(r) PROVE r[x] = IF x < m THEN q[x] ELSE q[x + 1]
    <3>1. CASE x \in 1..l
      BY <2>1, <2>2, <3>1
    <3>2. CASE x = l + 1
      BY <1>6, <1>10, <2>1, <2>2, <3>2
    <3> QED  BY <2>1, <3>1, <3>2
  <2>5. Without(q, m, k, r)
    BY <2>3, <2>4 DEF Without
  <2> QED  BY <1>4, <1>8, <1>10, <2>5 DEF r
<1> QED  BY <1>9, <1>10

\* The queue r after entry e has moved to, or come to, the back; m is where its block was.
MovedBack(q, m, e, r) ==
    /\ Len(r) = IF m <= Len(q) THEN Len(q) ELSE Len(q) + 1
    /\ \A x \in 1..Len(r) :
        r[x] = IF x = Len(r) THEN e ELSE IF x < m THEN q[x] ELSE q[x + 1]

LEMMA EnqueueOne ==
    ASSUME NEW S, NEW q \in Seq(S), NEW e \in S, NEW m \in 1..(Len(q) + 1),
           \A j \in 1..Len(q) : q[j].addr = e.addr <=> j = m
    PROVE  WB!Enqueue(q, <<e>>) \in Seq(S) /\ MovedBack(q, m, e, WB!Enqueue(q, <<e>>))
<1> DEFINE s == KeptOf(q, {e.addr})[Len(q)]
<1>1. s \in Seq(S) /\ Without(q, m, Len(q), s)
  BY KeptOne
<1>2. WB!Queued(<<e>>) = {e.addr}
  BY DEF WB!Queued
<1>3. WB!Enqueue(q, <<e>>) = s \o <<e>>
  <2>1. WB!Enqueue(q, <<e>>) = KeptOf(q, WB!Queued(<<e>>))[Len(q)] \o <<e>>
    BY DEF WB!Enqueue, KeptOf
  <2> QED  BY <1>2, <2>1
<1> HIDE DEF s
<1> DEFINE r == s \o <<e>>
<1>4. r \in Seq(S) /\ Len(r) = Len(s) + 1 /\ r[Len(s) + 1] = e /\ \A x \in 1..Len(s) : r[x] = s[x]
  BY <1>1
<1> HIDE DEF r
<1>5. Len(s) \in Nat /\ Len(q) \in Nat
  BY <1>1
<1>6. MovedBack(q, m, e, r)
  <2> DEFINE l == Len(s)
             n == Len(q)
  <2>1. l = (IF n < m THEN n ELSE n - 1) /\ \A x \in 1..l : s[x] = IF x < m THEN q[x] ELSE q[x + 1]
    BY <1>1 DEF Without
  <2>2. l \in Nat /\ n \in Nat /\ m \in 1..(n + 1) /\ Len(r) = l + 1 /\ r[l + 1] = e
        /\ \A x \in 1..l : r[x] = s[x]
    BY <1>4, <1>5
  <2> HIDE DEF l, n
  <2>3. ASSUME NEW x \in 1..Len(r)
        PROVE  r[x] = IF x = Len(r) THEN e ELSE IF x < m THEN q[x] ELSE q[x + 1]
    <3>1. CASE x = l + 1
      BY <2>2, <3>1
    <3>2. CASE x \in 1..l
      <4>1. r[x] = s[x] /\ s[x] = (IF x < m THEN q[x] ELSE q[x + 1]) /\ x # Len(r)
        BY <2>1, <2>2, <3>2
      <4> QED  BY <4>1
    <3> QED  BY <2>2, <3>1, <3>2
  <2>4. Len(r) = IF m <= n THEN n ELSE n + 1
    BY <2>1, <2>2
  <2> QED  BY <2>3, <2>4 DEF MovedBack, n
<1> QED  BY <1>3, <1>4, <1>6 DEF r

PageRewritten(P, R, i, l, v, s, g) ==
    R = [P EXCEPT ![i] =
            [valid |-> TRUE, dirty |-> TRUE, lba |-> l, data |-> v, seq |-> s, age |-> g]]

LEMMA WriteListed ==
    ASSUME NEW P, NEW q, Sorted(P), Listed(P, q),
           NEW i \in Index, NEW m \in 1..(Len(q) + 1),
           m = (IF i \in DirtyOf(P) THEN RankOf(P, i) ELSE Len(q) + 1),
           NEW l \in Lba, NEW v \in Val, NEW s \in 0..(Word - 1), NEW g \in 0..(Word - 1),
           \A j \in DirtyOf(P) : P[j].seq < s,
           NEW R, PageRewritten(P, R, i, l, v, s, g),
           NEW r \in Seq(Write), MovedBack(q, m, [addr |-> l, val |-> v], r)
    PROVE  Sorted(R) /\ Listed(R, r)
<1> DEFINE D == DirtyOf(P)
           E == DirtyOf(R)
           page1 == [valid |-> TRUE, dirty |-> TRUE, lba |-> l, data |-> v, seq |-> s, age |-> g]
<1>1. page1 \in Page /\ page1.dirty /\ page1.seq = s /\ page1.lba = l /\ page1.data = v
  BY DEF Page
<1>2. R \in [Index -> Page] /\ R[i] = page1 /\ \A j \in Index : j # i => R[j] = P[j]
  <2> HIDE DEF page1
  <2>1. P \in [Index -> Page] /\ R = [P EXCEPT ![i] = page1]
    BY DEF Sorted, PageRewritten, page1
  <2> QED  BY <1>1, <2>1
<1> HIDE DEF page1
<1>3. E = D \cup {i} /\ \A j \in D : j \in Index /\ P[j].seq \in 0..(Word - 1)
  BY <1>1, <1>2 DEF DirtyOf, Sorted, Page
<1>4. /\ R[i].dirty /\ R[i].seq = s /\ R[i].lba = l /\ R[i].data = v /\ i \in E
      /\ \A j \in D : j # i => R[j] = P[j]
      /\ \A j \in D : P[j].seq < s /\ P[j].seq \in Nat
      /\ Word \in Nat /\ s \in Nat
  <2>1. Word \in Nat /\ s \in Nat
    BY WordAssumption
  <2>2. R[i].dirty /\ R[i].seq = s /\ R[i].lba = l /\ R[i].data = v /\ i \in E
    BY <1>1, <1>2, <1>3
  <2>3. \A j \in D : j # i => R[j] = P[j]
    BY <1>2, <1>3
  <2>4. \A j \in D : P[j].seq < s /\ P[j].seq \in Nat
    BY <1>3, <2>1
  <2> QED  BY <2>1, <2>2, <2>3, <2>4
<1>5. Sorted(R)
  <2> SUFFICES ASSUME NEW x \in E, NEW y \in E, R[x].seq = R[y].seq PROVE x = y
    BY <1>2 DEF Sorted
  <2>1. CASE x = i /\ y = i
    BY <2>1
  <2>2. CASE x = i /\ y # i
    <3>1. y \in D /\ R[y] = P[y] /\ P[y].seq < s /\ P[y].seq \in Nat /\ R[x].seq = s
      BY <1>3, <1>4, <2>2
    <3> QED  BY <1>4, <3>1
  <2>3. CASE x # i /\ y = i
    <3>1. x \in D /\ R[x] = P[x] /\ P[x].seq < s /\ P[x].seq \in Nat /\ R[y].seq = s
      BY <1>3, <1>4, <2>3
    <3> QED  BY <1>4, <3>1
  <2>4. CASE x # i /\ y # i
    BY <1>2, <1>3, <2>4 DEF Sorted
  <2> QED  BY <2>1, <2>2, <2>3, <2>4
<1>6. Len(r) = Cardinality(E) /\ Len(q) = Cardinality(D) /\ Len(q) \in Nat /\ Len(r) \in Nat
  <2>1. Len(q) = Cardinality(D) /\ Cardinality(D) \in Nat
    BY DirtyOfFinite DEF Listed
  <2>2. Cardinality(E) = IF i \in D THEN Cardinality(D) ELSE Cardinality(D) + 1
    <3> HIDE DEF D, E
    <3> QED  BY <1>3, DirtyOfFinite, FS_AddElement DEF D
  <2>3. i \in D => m \in 1..Len(q)
    BY DEF Listed
  <2>4. m <= Len(q) <=> i \in D
    BY <2>1, <2>3
  <2> HIDE DEF D, E
  <2> QED  BY <2>1, <2>2, <2>4 DEF MovedBack
<1>7. RankOf(R, i) = Len(r)
  <2>1. Before(R, i) = E \ {i}
    <3>1. Before(R, i) = {j \in E : R[j].seq < s}
      BY <1>4 DEF Before
    <3>2. \A j \in E \ {i} : R[j].seq < s
      BY <1>3, <1>4
    <3>3. ~(R[i].seq < s)
      BY <1>4
    <3> HIDE DEF E
    <3> QED  BY <3>1, <3>2, <3>3
  <2>2. Cardinality(E \ {i}) = Cardinality(E) - 1
    <3>1. IsFiniteSet(E) /\ i \in E
      BY <1>3, DirtyOfFinite
    <3> HIDE DEF E
    <3> QED  BY <3>1, FS_RemoveElement
  <2>3. Cardinality(E) = Len(r) /\ Len(r) \in Nat
    BY <1>6
  <2>4. RankOf(R, i) = Cardinality(E \ {i}) + 1
    BY <2>1 DEF RankOf
  <2>5. Cardinality(E \ {i}) = Len(r) - 1
    BY <2>2, <2>3
  <2> HIDE DEF E
  <2> QED  BY <2>3, <2>4, <2>5
<1>8. ASSUME NEW j \in D, j # i
      PROVE  /\ RankOf(P, j) \in 1..Len(q) /\ RankOf(P, j) # m
             /\ RankOf(R, j) = IF RankOf(P, j) > m THEN RankOf(P, j) - 1 ELSE RankOf(P, j)
  <2>1. Before(R, j) = Before(P, j) \ {i}
    <3>1. R[j].seq = P[j].seq /\ P[j].seq \in Nat
      BY <1>4, <1>8
    <3>2. Before(R, j) = {k \in E : R[k].seq < P[j].seq}
      BY <3>1 DEF Before
    <3>3. Before(P, j) = {k \in D : P[k].seq < P[j].seq}
      BY DEF Before
    <3>4. ~(R[i].seq < P[j].seq)
      BY <1>4, <3>1
    <3>5. \A k \in D : k # i => R[k].seq = P[k].seq
      BY <1>4
    <3> HIDE DEF D, E
    <3> QED  BY <1>3, <3>2, <3>3, <3>4, <3>5
  <2>2. Cardinality(Before(R, j)) = IF i \in Before(P, j) THEN Cardinality(Before(P, j)) - 1 ELSE Cardinality(Before(P, j))
    BY <2>1, DirtyOfFinite, FS_RemoveElement
  <2>3. RankOf(P, j) \in 1..Len(q)
    BY DEF Listed
  <2>4. CASE i \in Before(P, j)
    <3>1. i \in D /\ RankOf(P, i) < RankOf(P, j)
      BY <2>4, RanksApart DEF Before
    <3>2. m = RankOf(P, i) /\ RankOf(R, j) = Cardinality(Before(P, j)) - 1 + 1
      BY <2>2, <2>4, <3>1 DEF RankOf
    <3>3. RankOf(P, j) = Cardinality(Before(P, j)) + 1 /\ Cardinality(Before(P, j)) \in Nat
      BY DirtyOfFinite DEF RankOf
    <3>4. m \in Nat /\ RankOf(P, j) > m /\ RankOf(R, j) = RankOf(P, j) - 1
      BY <2>3, <3>1, <3>2, <3>3
    <3> QED  BY <2>3, <3>4
  <2>5. CASE i \notin Before(P, j)
    <3>1. i \in D => RankOf(P, j) < RankOf(P, i)
      <4> SUFFICES ASSUME i \in D PROVE RankOf(P, j) < RankOf(P, i)
        OBVIOUS
      <4>1. ~(P[i].seq < P[j].seq) /\ P[i].seq # P[j].seq
        BY <1>8, <2>5 DEF Before, Sorted
      <4>2. P[j].seq < P[i].seq
        BY <1>3, <1>4, <4>1
      <4> QED  BY <4>2, RanksApart
    <3>2. RankOf(P, j) < m
      BY <1>6, <2>3, <3>1
    <3>3. RankOf(R, j) = RankOf(P, j)
      BY <2>2, <2>5 DEF RankOf
    <3> QED  BY <1>6, <2>3, <3>2, <3>3
  <2> QED  BY <2>4, <2>5
<1>9. ASSUME NEW j \in E PROVE RankOf(R, j) \in 1..Len(r) /\ r[RankOf(R, j)] = EntryOf(R, j)
  <2>1. RankOf(R, j) \in 1..Len(r)
    BY <1>5, <1>6, RanksApart
  <2>2. CASE j = i
    BY <1>1, <1>2, <1>7, <2>1, <2>2 DEF MovedBack, EntryOf
  <2>3. CASE j # i
    <3>1. j \in D /\ q[RankOf(P, j)] = EntryOf(P, j) /\ EntryOf(R, j) = EntryOf(P, j)
      BY <1>2, <1>3, <2>3 DEF Listed, EntryOf
    <3> DEFINE x == RankOf(P, j)
    <3>2. x \in 1..Len(q) /\ x # m /\ RankOf(R, j) = IF x > m THEN x - 1 ELSE x
      BY <1>8, <2>3, <3>1
    <3>3. x > m => m <= Len(q)
      BY <1>6, <3>2
    <3>4. RankOf(R, j) # Len(r)
      <4>1. RankOf(R, j) # RankOf(R, i)
        BY <1>3, <1>5, <2>3, RanksApart
      <4> QED  BY <1>7, <4>1
    <3> HIDE DEF x
    <3>5. r[RankOf(R, j)] = IF RankOf(R, j) < m THEN q[RankOf(R, j)] ELSE q[RankOf(R, j) + 1]
      BY <2>1, <3>4 DEF MovedBack
    <3>6. r[RankOf(R, j)] = q[x]
      <4>1. CASE x > m
        <5>1. RankOf(R, j) = x - 1 /\ ~(x - 1 < m) /\ x - 1 + 1 = x
          BY <3>2, <4>1
        <5> QED  BY <3>5, <5>1
      <4>2. CASE x < m
        BY <3>2, <3>5, <4>2
      <4> QED  BY <3>2, <4>1, <4>2
    <3> QED  BY <2>1, <3>1, <3>6 DEF x
  <2> QED  BY <2>2, <2>3
<1>10. \A k \in 1..Len(r) : \E j \in E : RankOf(R, j) = k
  BY <1>5, <1>6, RanksFill
<1> QED  BY <1>5, <1>6, <1>9, <1>10 DEF Listed
-----------------------------------------------------------------------------
LEMMA ServedListed ==
    ASSUME NEW P, NEW q, Sorted(P), Listed(P, q),
           NEW i \in DirtyOf(P), \A j \in DirtyOf(P) : P[i].seq <= P[j].seq,
           NEW R, R = [P EXCEPT ![i].dirty = FALSE]
    PROVE  Listed(R, Tail(q)) /\ q # <<>> /\ q[1] = EntryOf(P, i) /\ Sorted(R)
<1> DEFINE D == DirtyOf(P)
           E == DirtyOf(R)
<1>1. P \in [Index -> Page] /\ i \in Index /\ \A j \in D : j \in Index /\ P[j].seq \in Nat
  BY WordAssumption DEF Sorted, Page, DirtyOf
<1>2. R \in [Index -> Page] /\ ~R[i].dirty /\ \A j \in Index : j # i => R[j] = P[j]
  <2>1. [P[i] EXCEPT !.dirty = FALSE] \in Page /\ ~[P[i] EXCEPT !.dirty = FALSE].dirty
    BY <1>1 DEF Page
  <2>2. R = [P EXCEPT ![i] = [P[i] EXCEPT !.dirty = FALSE]]
    BY <1>1
  <2> QED  BY <1>1, <2>1, <2>2
<1>3. E = D \ {i}
  BY <1>1, <1>2 DEF DirtyOf
<1>4. \A j \in D : j # i => R[j] = P[j]
  BY <1>1, <1>2
<1>5. Sorted(R)
  <2> SUFFICES ASSUME NEW x \in E, NEW y \in E, R[x].seq = R[y].seq PROVE x = y
    BY <1>2 DEF Sorted
  <2>1. x \in D /\ y \in D /\ R[x] = P[x] /\ R[y] = P[y]
    BY <1>3, <1>4
  <2> QED  BY <2>1 DEF Sorted
<1>6. RankOf(P, i) = 1
  <2>1. Before(P, i) = {}
    BY <1>1 DEF Before
  <2> QED  BY <2>1, FS_EmptySet DEF RankOf
<1>7. /\ Len(q) = Cardinality(D) /\ Len(q) \in Nat /\ Len(q) > 0 /\ q \in Seq(Write)
      /\ q[1] = EntryOf(P, i) /\ q # <<>>
  BY <1>6 DEF Listed
<1>8. Tail(q) \in Seq(Write) /\ Len(Tail(q)) = Len(q) - 1 /\ \A x \in 1..(Len(q) - 1) : Tail(q)[x] = q[x + 1]
  BY <1>7
<1>9. Cardinality(E) = Len(q) - 1
  <2>1. Cardinality(D \ {i}) = Cardinality(D) - 1
    <3>1. IsFiniteSet(D) /\ i \in D
      BY DirtyOfFinite
    <3> HIDE DEF D
    <3> QED  BY <3>1, FS_RemoveElement
  <2> QED  BY <1>3, <1>7, <2>1
<1>10. ASSUME NEW j \in E
       PROVE  /\ RankOf(R, j) = RankOf(P, j) - 1 /\ RankOf(P, j) \in 1..Len(q)
              /\ q[RankOf(P, j)] = EntryOf(R, j)
  <2>1. j \in D /\ j # i /\ R[j] = P[j] /\ q[RankOf(P, j)] = EntryOf(P, j) /\ RankOf(P, j) \in 1..Len(q)
    BY <1>3, <1>4 DEF Listed
  <2>2. Before(R, j) = Before(P, j) \ {i}
    <3>1. Before(R, j) = {k \in E : R[k].seq < P[j].seq}
      BY <2>1 DEF Before
    <3>2. Before(P, j) = {k \in D : P[k].seq < P[j].seq}
      BY DEF Before
    <3> HIDE DEF D, E
    <3> QED  BY <1>3, <1>4, <3>1, <3>2
  <2>3. i \in Before(P, j)
    <3>1. P[i].seq # P[j].seq /\ P[i].seq <= P[j].seq /\ P[i].seq \in Nat /\ P[j].seq \in Nat
      BY <1>1, <2>1 DEF Sorted
    <3> QED  BY <3>1 DEF Before
  <2>4. Cardinality(Before(R, j)) = Cardinality(Before(P, j)) - 1
    <3>1. IsFiniteSet(Before(P, j))
      BY DirtyOfFinite
    <3>2. Cardinality(Before(P, j) \ {i}) = Cardinality(Before(P, j)) - 1
      BY <2>3, <3>1, FS_RemoveElement
    <3> QED  BY <2>2, <3>2
  <2>5. Cardinality(Before(P, j)) \in Nat
    BY DirtyOfFinite
  <2>6. RankOf(R, j) = RankOf(P, j) - 1
    BY <2>4, <2>5 DEF RankOf
  <2> QED  BY <2>1, <2>6 DEF EntryOf
<1>11. ASSUME NEW j \in E PROVE RankOf(R, j) \in 1..Len(Tail(q)) /\ Tail(q)[RankOf(R, j)] = EntryOf(R, j)
  <2>1. RankOf(R, j) \in 1..(Len(q) - 1)
    BY <1>5, <1>9, RanksApart
  <2>2. /\ RankOf(R, j) = RankOf(P, j) - 1 /\ RankOf(P, j) \in 1..Len(q)
        /\ q[RankOf(P, j)] = EntryOf(R, j)
    BY <1>10
  <2> DEFINE x == RankOf(R, j)
             y == RankOf(P, j)
  <2>3. x = y - 1 /\ y \in 1..Len(q) /\ q[y] = EntryOf(R, j) /\ x \in 1..(Len(q) - 1)
    BY <2>1, <2>2
  <2> HIDE DEF x, y
  <2>4. x + 1 = y
    BY <2>3
  <2>5. Tail(q)[x] = EntryOf(R, j) /\ x \in 1..Len(Tail(q))
    BY <1>7, <1>8, <2>3, <2>4
  <2> QED  BY <2>5 DEF x
<1>12. \A k \in 1..Len(Tail(q)) : \E j \in E : RankOf(R, j) = k
  BY <1>5, <1>8, <1>9, RanksFill
<1> QED  BY <1>5, <1>7, <1>8, <1>9, <1>11, <1>12 DEF Listed

\* Nothing that the queue shows has changed.
LEMMA SameListed ==
    ASSUME NEW P, NEW q, Sorted(P), Listed(P, q), NEW R \in [Index -> Page],
           \A i \in Index : R[i].dirty = P[i].dirty
              /\ (P[i].dirty => R[i].seq = P[i].seq /\ R[i].lba = P[i].lba /\ R[i].data = P[i].data)
    PROVE  Sorted(R) /\ Listed(R, q)
<1>1. DirtyOf(R) = DirtyOf(P)
  BY DEF DirtyOf
<1>2. \A i \in DirtyOf(P) : R[i].seq = P[i].seq /\ R[i].lba = P[i].lba /\ R[i].data = P[i].data
  BY DEF DirtyOf
<1>3. Sorted(R)
  BY <1>1, <1>2 DEF Sorted
<1>4. \A i \in DirtyOf(P) : Before(R, i) = Before(P, i)
  BY <1>1, <1>2 DEF Before
<1>5. \A i \in DirtyOf(P) : RankOf(R, i) = RankOf(P, i) /\ EntryOf(R, i) = EntryOf(P, i)
  BY <1>2, <1>4 DEF RankOf, EntryOf
<1> QED  BY <1>1, <1>3, <1>5 DEF Listed
-----------------------------------------------------------------------------
(***************************************************************************)
(* Below the wrap the sequence numbers are those of an ever growing        *)
(* counter: every dirty page has its own, and none is above write_seq,     *)
(* which has not overtaken clock_hand.                                     *)
(***************************************************************************)
Numbered ==
    /\ Sorted(page) /\ \A i \in Dirty : page[i].seq <= wseq
    /\ wseq <= clock /\ clock <= MaxClock

LEMMA NumberedOnce ==
    ASSUME MaxClock < Word, Bounded, clock \in 0..(Word - 1), wseq \in 0..(Word - 1), wseq <= clock
    PROVE  /\ Bump(clock) = clock + 1 /\ Bump(clock) <= MaxClock /\ Bump(clock) \in 0..(Word - 1)
           /\ Bump(wseq) = wseq + 1 /\ Bump(wseq) <= Bump(clock) /\ Bump(wseq) \in 0..(Word - 1)
<1>1. clock + 1 < Word /\ wseq + 1 < Word /\ clock + 1 <= MaxClock /\ clock \in Nat /\ wseq \in Nat
  BY WordAssumption, MaxClockAssumption DEF Bounded
<1>2. (clock + 1) % Word = clock + 1
  BY <1>1, WordAssumption
<1>3. (wseq + 1) % Word = wseq + 1
  BY <1>1, WordAssumption
<1>4. Bump(clock) = clock + 1 /\ Bump(wseq) = wseq + 1
  BY <1>2, <1>3 DEF Bump
<1>5. clock + 1 \in 0..(Word - 1) /\ wseq + 1 \in 0..(Word - 1) /\ wseq + 1 <= clock + 1
  BY <1>1, WordAssumption
<1> QED  BY <1>1, <1>4, <1>5

\* The queue of the cache, before and after a step that keeps the numbers in order.
LEMMA QueueNow ==
    ASSUME Sorted(page)
    PROVE  Listed(page, DirtyQueue)
  BY QueueIs, QueueListed

LEMMA QueueNext ==
    ASSUME Sorted(page'), NEW r, Listed(page', r)
    PROVE  DirtyQueue' = r
  BY QueueIs, QueueListed, ListedOnce

LEMMA NumberedSame ==
    ASSUME Numbered, page' \in [Index -> Page],
           \A i \in Index : page'[i].dirty = page[i].dirty
              /\ (page[i].dirty => page'[i].seq = page[i].seq /\ page'[i].lba = page[i].lba
                                   /\ page'[i].data = page[i].data),
           wseq' = wseq
    PROVE  Sorted(page') /\ DirtyQueue' = DirtyQueue /\ (\A i \in Dirty : page[i].seq <= wseq)'
<1>1. Sorted(page') /\ Listed(page', DirtyQueue)
  BY SameListed, QueueNow DEF Numbered
<1>2. (\A i \in Dirty : page[i].seq <= wseq)'
  BY DEF Numbered, Dirty
<1> QED  BY <1>1, <1>2, QueueNext
-----------------------------------------------------------------------------
CacheInv == IInv /\ Numbered

LEMMA StartsAsQueue == CacheInit => Numbered /\ WB!Init
<1> SUFFICES ASSUME CacheInit PROVE Numbered /\ WB!Init
  OBVIOUS
<1>1. DirtyOf(page) = {} /\ page \in [Index -> Page] /\ Dirty = {} /\ clock = 0 /\ wseq = 0
  BY LbaAssumption, WordAssumption DEF CacheInit, DirtyOf, Dirty, BlankPage, Page
<1>2. Sorted(page)
  BY <1>1 DEF Sorted
<1>3. Numbered
  BY <1>1, <1>2, MaxClockAssumption DEF Numbered
<1>4. DirtyQueue \in Seq(Write) /\ Len(DirtyQueue) = 0
  BY <1>1, <1>2, QueueNow, FS_EmptySet DEF Listed
<1>5. DirtyQueue = <<>>
  BY <1>4
<1> QED  BY <1>3, <1>5 DEF WB!Init, CacheInit

LEMMA ReadIsNone ==
    ASSUME MaxClock < Word, CacheInv, IInv', NEW l \in Lba, ReadHit(l) \/ ReadMiss(l)
    PROVE  Numbered' /\ UNCHANGED WB!wbVars
<1>1. /\ wseq' = wseq /\ media' = media /\ clock' = Bump(clock) /\ Bounded /\ page' \in [Index -> Page]
      /\ page \in [Index -> Page]
      /\ clock \in 0..(Word - 1) /\ wseq \in 0..(Word - 1) /\ wseq <= clock
  BY DEF ReadHit, ReadMiss, CacheInv, IInv, CacheTypeOK, Numbered
<1>2. \A i \in Index : page'[i].dirty = page[i].dirty
          /\ (page[i].dirty => page'[i].seq = page[i].seq /\ page'[i].lba = page[i].lba
                               /\ page'[i].data = page[i].data)
  <2>1. CASE ReadHit(l)
    <3>1. PICK h \in find_page(l) : page' = [page EXCEPT ![h].age = Bump(clock)]
      BY <2>1 DEF ReadHit
    <3>2. h \in Index
      BY ScansReturnPages DEF CacheInv, IInv, Coherent
    <3> QED  BY <1>1, <3>1, <3>2 DEF Page
  <2>2. CASE ReadMiss(l)
    <3>1. PICK h \in take_page :
            page' = [page EXCEPT ![h] = [@ EXCEPT !.valid = TRUE, !.dirty = FALSE,
                        !.lba = l, !.data = media[l], !.age = Bump(clock)]]
      BY <2>2 DEF ReadMiss
    <3>2. h \in Index /\ ~page[h].dirty
      BY ScansReturnPages DEF CacheInv, IInv, Coherent, Dirty
    <3>3. ~page'[h].dirty /\ \A i \in Index \ {h} : page'[i] = page[i]
      BY <1>1, <3>1, <3>2 DEF Page
    <3>4. page[h].dirty \in BOOLEAN /\ page'[h].dirty \in BOOLEAN
      BY <1>1, <3>2 DEF Page
    <3>5. page'[h].dirty = page[h].dirty
      BY <3>2, <3>3, <3>4
    <3>6. ASSUME NEW i \in Index
          PROVE  page'[i].dirty = page[i].dirty
                 /\ (page[i].dirty => page'[i].seq = page[i].seq /\ page'[i].lba = page[i].lba
                               /\ page'[i].data = page[i].data)
      <4>1. CASE i = h
        BY <3>2, <3>5, <4>1
      <4>2. CASE i # h
        BY <3>3, <4>2
      <4> QED  BY <4>1, <4>2
    <3> QED  BY <3>6
  <2> QED  BY <2>1, <2>2
<1>3. Sorted(page') /\ DirtyQueue' = DirtyQueue /\ (\A i \in Dirty : page[i].seq <= wseq)'
  BY <1>1, <1>2, NumberedSame DEF CacheInv
<1>4. wseq <= Bump(clock) /\ Bump(clock) <= MaxClock
  <2>1. /\ Bump(clock) = clock + 1 /\ Bump(clock) <= MaxClock
    BY <1>1, NumberedOnce
  <2> QED  BY <1>1, <2>1
<1>5. Numbered'
  BY <1>1, <1>3, <1>4 DEF Numbered
<1> QED  BY <1>1, <1>3, <1>5 DEF WB!wbVars

LEMMA QuietIsNone ==
    ASSUME CacheInv, IInv', UNCHANGED <<page, media, clock, wseq>>
    PROVE  Numbered' /\ UNCHANGED WB!wbVars
<1>1. page' \in [Index -> Page]
  BY DEF IInv, CacheTypeOK
<1>2. Sorted(page') /\ DirtyQueue' = DirtyQueue /\ (\A i \in Dirty : page[i].seq <= wseq)'
  BY <1>1, NumberedSame DEF CacheInv
<1>3. Numbered'
  BY <1>2 DEF CacheInv, Numbered
<1> QED  BY <1>2, <1>3 DEF WB!wbVars

LEMMA CutIsPowerCut ==
    ASSUME CachePowerCut
    PROVE  Numbered' /\ WB!PowerCut
<1>1. DirtyOf(page') = {} /\ page' \in [Index -> Page] /\ Dirty' = {} /\ clock' = 0 /\ wseq' = 0
  BY LbaAssumption, WordAssumption DEF CachePowerCut, DirtyOf, Dirty, BlankPage, Page
<1>2. Sorted(page')
  BY <1>1 DEF Sorted
<1>3. Numbered'
  BY <1>1, <1>2, MaxClockAssumption DEF Numbered
<1>4. Listed(page', <<>>)
  BY <1>1, FS_EmptySet DEF Listed
<1>5. DirtyQueue' = <<>>
  BY <1>2, <1>4, QueueNext
<1> QED  BY <1>3, <1>5 DEF WB!PowerCut, CachePowerCut
-----------------------------------------------------------------------------
LEMMA DrainedOne ==
    ASSUME NEW m \in [Lba -> Val], NEW q \in Seq(Write), Len(q) > 0
    PROVE  WB!Drained(m, q, 1) = [m EXCEPT ![q[1].addr] = q[1].val]
<1> DEFINE put(x, j) == [x EXCEPT ![q[j].addr] = q[j].val]
           body(f) == [j \in 0..1 |-> IF j = 0 THEN m ELSE put(f[j - 1], j)]
           g == [j \in 0..1 |-> IF j = 0 THEN m ELSE put(m, 1)]
           h == DrainOf(m, q, 1)
<1>1. h = CHOOSE f : f = body(f)
  BY DEF DrainOf
<1> HIDE DEF put, h
<1>2. g = body(g)
  <2>1. g[0] = m
    OBVIOUS
  <2>2. \A j \in 0..1 : j = 0 \/ (j = 1 /\ j - 1 = 0)
    OBVIOUS
  <2> HIDE DEF g
  <2>3. \A j \in 0..1 : (IF j = 0 THEN m ELSE put(g[j - 1], j)) = IF j = 0 THEN m ELSE put(m, 1)
    BY <2>1, <2>2
  <2> QED  BY <2>3 DEF g
<1>3. h = body(h)
  BY <1>1, <1>2
<1>4. h[0] = m /\ 1 \in 0..1 /\ 1 # 0 /\ 1 - 1 = 0
  BY <1>3
<1>5. h[1] = put(h[0], 1)
  BY <1>3, <1>4
<1>6. WB!Drained(m, q, 1) = h[1]
  BY DEF WB!Drained, DrainOf, h
<1> QED  BY <1>4, <1>5, <1>6 DEF put

\* The page block_service takes is at the front of the queue.
LEMMA OldestIsFront ==
    ASSUME CacheInv, NEW i \in OldestDirty
    PROVE  /\ i \in DirtyOf(page) /\ i \in Index
           /\ \A j \in DirtyOf(page) : page[i].seq <= page[j].seq
           /\ DirtyQueue \in Seq(Write) /\ DirtyQueue # <<>>
           /\ WB!Drained(media, DirtyQueue, 1) = [media EXCEPT ![page[i].lba] = page[i].data]
           /\ Listed([page EXCEPT ![i].dirty = FALSE], Tail(DirtyQueue))
           /\ Sorted([page EXCEPT ![i].dirty = FALSE])
<1>1. i \in DirtyOf(page) /\ i \in Index /\ Dirty = DirtyOf(page)
  BY ScansReturnPages DEF CacheInv, IInv, Coherent, DirtyOf, Dirty
<1>2. \A j \in DirtyOf(page) : page[j].seq \in Nat
  BY WordAssumption DEF CacheInv, IInv, CacheTypeOK, Page, DirtyOf
<1>3. \A j \in DirtyOf(page) : page[i].seq <= page[j].seq
  BY <1>1, <1>2 DEF OldestDirty
<1>4. Sorted(page) /\ Listed(page, DirtyQueue)
  BY QueueNow DEF CacheInv, Numbered
<1>5. DEFINE R == [page EXCEPT ![i].dirty = FALSE]
<1>6. /\ Listed(R, Tail(DirtyQueue)) /\ Sorted(R)
      /\ DirtyQueue # <<>> /\ DirtyQueue[1] = EntryOf(page, i)
  BY <1>1, <1>3, <1>4, ServedListed
<1>7. DirtyQueue \in Seq(Write) /\ Len(DirtyQueue) > 0
  BY <1>4, <1>6 DEF Listed
<1>8. DirtyQueue[1].addr = page[i].lba /\ DirtyQueue[1].val = page[i].data
  BY <1>6 DEF EntryOf
<1>9. media \in [Lba -> Val]
  BY DEF CacheInv, IInv, CacheTypeOK
<1>10. WB!Drained(media, DirtyQueue, 1) = [media EXCEPT ![page[i].lba] = page[i].data]
  BY <1>7, <1>8, <1>9, DrainedOne
<1> QED  BY <1>1, <1>3, <1>6, <1>7, <1>10

LEMMA ServiceIsDrain ==
    ASSUME CacheInv, IInv', NEW i \in OldestDirty, ServicePage(i) \/ ServiceFails(i),
           UNCHANGED <<clock, wseq>>
    PROVE  Numbered' /\ (WB!Next \/ UNCHANGED WB!wbVars)
<1>1. CASE ServicePage(i)
  <2>1. page' = [page EXCEPT ![i].dirty = FALSE] /\ media' = [media EXCEPT ![page[i].lba] = page[i].data]
    BY <1>1 DEF ServicePage
  <2>2. Sorted(page') /\ Listed(page', Tail(DirtyQueue))
    BY <2>1, OldestIsFront
  <2>3. DirtyQueue' = Tail(DirtyQueue)
    BY <2>2, QueueNext
  <2>4. media' = WB!Drained(media, DirtyQueue, 1) /\ DirtyQueue # <<>>
    BY <2>1, OldestIsFront
  <2>5. WB!WriteBackOldest
    BY <2>3, <2>4 DEF WB!WriteBackOldest
  <2>6. \A j \in Dirty' : j \in Dirty /\ page'[j].seq = page[j].seq
    BY <2>1 DEF Dirty, CacheInv, IInv, CacheTypeOK, Page
  <2>7. Numbered'
    BY <2>2, <2>6 DEF CacheInv, Numbered
  <2> QED  BY <2>5, <2>7 DEF WB!Next
<1>2. CASE ServiceFails(i) /\ media' = media
  BY <1>2, QuietIsNone DEF ServiceFails
<1>3. CASE ServiceFails(i) /\ media' # media
  <2>1. page' = page /\ media' = [media EXCEPT ![page[i].lba] = page[i].data]
    BY <1>3 DEF ServiceFails
  <2>2. page' \in [Index -> Page] /\ Sorted(page') /\ DirtyQueue' = DirtyQueue
        /\ (\A j \in Dirty : page[j].seq <= wseq)'
    <3>1. page' \in [Index -> Page]
      BY DEF IInv, CacheTypeOK
    <3> QED  BY <2>1, <3>1, NumberedSame DEF CacheInv
  <2>3. WB!WrittenButNotAcknowledged
    BY <2>1, <2>2, OldestIsFront DEF WB!WrittenButNotAcknowledged
  <2>4. Numbered'
    BY <2>2 DEF CacheInv, Numbered
  <2> QED  BY <2>3, <2>4 DEF WB!Next
<1> QED  BY <1>1, <1>2, <1>3

LEMMA WriteIsPut ==
    ASSUME MaxClock < Word, CacheInv, IInv', NEW l \in Lba, NEW v \in Val, block_write(l, v)
    PROVE  Numbered' /\ WB!Put(l, v)
<1> DEFINE s == Bump(wseq)
           g == Bump(clock)
           q == DirtyQueue
           e == [addr |-> l, val |-> v]
<1>1. PICK i \in (IF Hit(l) # {} THEN find_page(l) ELSE take_page) :
        page' = [page EXCEPT ![i] = [valid |-> TRUE, dirty |-> TRUE, lba |-> l, data |-> v,
                                     seq |-> s, age |-> g]]
  BY DEF block_write
<1>2. i \in Index /\ (i \in Dirty => i \in Hit(l))
  BY <1>1, ScansReturnPages DEF CacheInv, IInv, Coherent
<1>3. /\ media' = media /\ clock' = g /\ wseq' = s /\ Bounded
      /\ clock \in 0..(Word - 1) /\ wseq \in 0..(Word - 1) /\ wseq <= clock
  BY DEF block_write, CacheInv, IInv, CacheTypeOK, Numbered
<1>4. s = wseq + 1 /\ s <= g /\ g <= MaxClock /\ s \in 0..(Word - 1) /\ g \in 0..(Word - 1)
  BY <1>3, NumberedOnce
<1>5. Sorted(page) /\ Listed(page, q) /\ Dirty = DirtyOf(page)
  BY QueueNow DEF CacheInv, Numbered, Dirty, DirtyOf
<1>6. ASSUME NEW j \in Dirty PROVE page[j].lba = l <=> j = i
  <2>1. j \in Index /\ page[j].valid
    BY DEF CacheInv, IInv, Coherent, DirtyIsValid, Dirty
  <2>2. CASE j = i
    BY <1>2, <2>2 DEF Hit
  <2>3. ASSUME page[j].lba = l, j # i PROVE FALSE
    <3>1. j \in Hit(l)
      BY <2>1, <2>3 DEF Hit
    <3>2. i \in Hit(l)
      BY <1>1, <3>1, ScansReturnPages DEF CacheInv, IInv, Coherent
    <3> QED  BY <2>3, <3>1, <3>2 DEF CacheInv, IInv, Coherent, CachedOnce, Hit
  <2> QED  BY <2>2, <2>3
<1>7. \A j \in DirtyOf(page) : page[j].seq < s
  BY <1>3, <1>4, <1>5, WordAssumption DEF CacheInv, Numbered, Sorted, Page, DirtyOf
<1> DEFINE m == IF i \in DirtyOf(page) THEN RankOf(page, i) ELSE Len(q) + 1
<1>8. q \in Seq(Write) /\ Len(q) \in Nat /\ e \in Write /\ e.addr = l /\ Len(q) = Cardinality(Dirty)
  <2>1. e \in Write /\ e.addr = l
    BY DEF Write
  <2> QED  BY <1>5, <2>1 DEF Listed
<1>9. m \in 1..(Len(q) + 1)
  BY <1>5, <1>8 DEF Listed
<1>10. ASSUME NEW x \in 1..Len(q) PROVE q[x].addr = e.addr <=> x = m
  <2>1. PICK j \in Dirty : RankOf(page, j) = x
    BY <1>5 DEF Listed
  <2>2. q[x].addr = page[j].lba
    <3>1. EntryOf(page, j).addr = page[j].lba
      BY DEF EntryOf
    <3>2. q[RankOf(page, j)] = EntryOf(page, j)
      BY <1>5 DEF Listed
    <3> QED  BY <2>1, <3>1, <3>2
  <2>3. CASE i \in Dirty
    <3>1. m = RankOf(page, i)
      BY <1>5, <2>3
    <3>2. x = m <=> j = i
      BY <1>5, <2>1, <2>3, <3>1, RanksApart
    <3> QED  BY <1>6, <1>8, <2>2, <3>2
  <2>4. CASE i \notin Dirty
    <3>1. m = Len(q) + 1 /\ x # m
      BY <1>5, <1>8, <2>4
    <3>2. j # i
      BY <2>4
    <3> QED  BY <1>6, <1>8, <2>2, <3>1, <3>2
  <2> QED  BY <2>3, <2>4
<1>11. WB!Enqueue(q, <<e>>) \in Seq(Write) /\ MovedBack(q, m, e, WB!Enqueue(q, <<e>>))
  <2> HIDE DEF m, q, e
  <2> QED  BY <1>8, <1>9, <1>10, EnqueueOne
<1>12. Sorted(page') /\ Listed(page', WB!Enqueue(q, <<e>>))
  <2> DEFINE r == WB!Enqueue(q, <<e>>)
  <2>1. r \in Seq(Write) /\ MovedBack(q, m, [addr |-> l, val |-> v], r)
    BY <1>11
  <2>2. m = (IF i \in DirtyOf(page) THEN RankOf(page, i) ELSE Len(q) + 1)
    OBVIOUS
  <2>3. Sorted(page) /\ Listed(page, q)
    BY <1>5
  <2>4. PageRewritten(page, page', i, l, v, s, g)
    BY <1>1 DEF PageRewritten
  <2> HIDE DEF r, m, q, s, g, e
  <2>5. Sorted(page') /\ Listed(page', r)
    BY <1>2, <1>4, <1>7, <1>9, <2>1, <2>2, <2>3, <2>4, WriteListed
  <2> QED  BY <2>5 DEF r
<1>13. DirtyQueue' = WB!Enqueue(q, <<e>>)
  BY <1>12, QueueNext
<1>14. WB!Accepts(q, l)
  <2>1. CASE i \in Dirty
    <3>1. m \in 1..Len(q) /\ q[m].addr = l
      <4>1. m \in 1..Len(q)
        BY <1>5, <2>1 DEF Listed
      <4> HIDE DEF m, q, e
      <4> QED  BY <1>8, <1>10, <4>1
    <3>2. m \in DOMAIN q
      <4> HIDE DEF m, q
      <4> QED  BY <1>8, <3>1
    <3> QED  BY <3>1, <3>2 DEF WB!Accepts, WB!Queued
  <2>2. CASE i \notin Dirty
    <3>1. Dirty \subseteq Index \ {i} /\ IsFiniteSet(Index) /\ Cardinality(Index) = N
      BY <2>2, NAssumption, FS_Interval DEF Dirty, Index
    <3>2. IsFiniteSet(Index \ {i}) /\ Cardinality(Index \ {i}) = N - 1
      BY <1>2, <3>1, FS_RemoveElement
    <3>3. Cardinality(Dirty) <= N - 1
      BY <3>1, <3>2, FS_Subset
    <3>4. Len(q) < N
      BY <1>8, <3>3, NAssumption
    <3> QED  BY <3>4 DEF WB!Accepts
  <2> QED  BY <2>1, <2>2
<1>15. WB!Put(l, v)
  BY <1>3, <1>13, <1>14 DEF WB!Put
<1>16. \A j \in Dirty' : page'[j].seq <= s
  <2> SUFFICES ASSUME NEW j \in Dirty' PROVE page'[j].seq <= s
    OBVIOUS
  <2>1. CASE j = i
    <3>1. page'[i].seq = s
      BY <1>1, <1>2 DEF CacheInv, IInv, CacheTypeOK
    <3> QED  BY <1>4, <2>1, <3>1
  <2>2. CASE j # i
    <3>1. page'[j] = page[j] /\ j \in DirtyOf(page)
      BY <1>1, <1>2, <2>2 DEF CacheInv, IInv, CacheTypeOK, Dirty, DirtyOf
    <3>2. page[j].seq < s /\ page[j].seq \in Nat /\ s \in Nat
      BY <1>4, <1>5, <1>7, <3>1, WordAssumption DEF Sorted, Page, DirtyOf
    <3> QED  BY <3>1, <3>2
  <2> QED  BY <2>1, <2>2
<1>17. Numbered'
  BY <1>3, <1>4, <1>12, <1>16 DEF Numbered
<1> QED  BY <1>15, <1>17
-----------------------------------------------------------------------------
LEMMA QueueStep ==
    MaxClock < Word /\ CacheInv /\ IInv' /\ [CacheNext]_cachevars
        => Numbered' /\ [WB!Next]_(WB!wbVars)
<1> SUFFICES ASSUME MaxClock < Word, CacheInv, IInv', [CacheNext]_cachevars
             PROVE  Numbered' /\ (WB!Next \/ UNCHANGED WB!wbVars)
  OBVIOUS
<1>1. CASE \E l \in Lba : ReadHit(l) \/ ReadMiss(l)
  BY <1>1, ReadIsNone
<1>2. CASE \E l \in Lba, v \in Val : block_write(l, v)
  BY <1>2, WriteIsPut DEF WB!Next
<1>3. CASE block_flush \/ UNCHANGED cachevars
  BY <1>3, QuietIsNone DEF block_flush, cachevars
<1>4. CASE FlushRound
  <2>1. UNCHANGED <<clock, wseq>>
    BY <1>4 DEF FlushRound
  <2>2. CASE UNCHANGED <<page, media>>
    BY <2>1, <2>2, QuietIsNone
  <2>3. CASE \E i \in OldestDirty : ServicePage(i) \/ ServiceFails(i)
    BY <2>1, <2>3, ServiceIsDrain
  <2> QED  BY <1>4, <2>2, <2>3 DEF FlushRound
<1>5. CASE block_service
  BY <1>5, ServiceIsDrain DEF block_service
<1>6. CASE CachePowerCut
  BY <1>6, CutIsPowerCut DEF WB!Next
<1> QED  BY <1>1, <1>2, <1>3, <1>4, <1>5, <1>6 DEF CacheNext

(* block.c:6 "Dirty sequence order preserves the zlfs data-before-         *)
(* directory publication order": until write_seq wraps, the cache is the   *)
(* queue that WriteBack promises: what was accepted reaches the medium in  *)
(* the order of the last writes, and a power cut loses the rest and        *)
(* nothing else.                                                           *)
THEOREM CacheIsQueue == MaxClock < Word => (CacheSpec => ImplementsWriteBack)
<1> SUFFICES ASSUME MaxClock < Word PROVE CacheSpec => ImplementsWriteBack
  OBVIOUS
<1>1. CacheInit => IInv /\ Numbered /\ WB!Init
  BY InitInv, StartsAsQueue
<1>2. IInv /\ Numbered /\ IInv' /\ [CacheNext]_cachevars => Numbered' /\ [WB!Next]_(WB!wbVars)
  BY QueueStep DEF CacheInv
<1> QED  BY <1>1, <1>2, NextInv, PTL DEF CacheSpec, ImplementsWriteBack, WB!Spec
=============================================================================
