------------------------------ MODULE PmmProofs ------------------------------
(***************************************************************************)
(* For any number of pages, any set of owners and any memory map: the      *)
(* audit of pmm.c is clean in every reachable state, the cursor is below   *)
(* every free page, what an owner is told is available can be allocated,   *)
(* and pages move only through free, zeroed on the way.                    *)
(*                                                                         *)
(* The lemmas are about allocator states s, not about the variable pmm, so *)
(* that a module which makes several calls in one step can use them.       *)
(***************************************************************************)
EXTENDS Pmm, Integers, FiniteSetTheorems, WellFoundedInduction, TLAPS

Good(s) == StateOK(s) /\ Audit(s) /\ LowCursor(s)

Less == {ss \in Nat \X Nat : ss[1] < ss[2]}

\* The scan stops at the least hit, which exists if there is a hit at all.
LEMMA LeastExists ==
    ASSUME NEW T, T \subseteq Nat, T # {}
    PROVE  \E x \in T : \A y \in T : x <= y
<1>1. IsWellFoundedOn(Less, Nat)
  BY NatLessThanWellFounded DEF Less, OpToRel
<1>2. PICK x \in T : \A y \in T : <<y, x>> \notin Less
  BY <1>1, WFMin
<1>3. \A y \in T : x <= y
  <2> SUFFICES ASSUME NEW y \in T PROVE x <= y  OBVIOUS
  <2>1. x \in Nat /\ y \in Nat  OBVIOUS
  <2>2. ~(y < x)  BY <1>2, <2>1 DEF Less
  <2> QED  BY <2>1, <2>2
<1> QED  BY <1>3

\* pmm.c:285: the scan finds a free page whenever there is one, and the lowest
\* of them when none is below the cursor.
LEMMA ScanFinds ==
    ASSUME NEW s, StateOK(s)
    PROVE  /\ NextFree(s) = 0 => OwnedBy(s, "free") = {}
           /\ NextFree(s) # 0 => NextFree(s) \in OwnedBy(s, "free")
           /\ NextFree(s) # 0 /\ LowCursor(s)
                => \A p \in OwnedBy(s, "free") : NextFree(s) <= p
<1> DEFINE hits == {k \in 0..NPages - 1 : s.owners[ScanPage(s.cursor, k)] = "free"}
<1>0. NPages \in Nat \ {0} /\ s.cursor \in 1..NPages
  BY PmmAssumption DEF StateOK, Page
<1>1. \A k \in 0..NPages - 1 : ScanPage(s.cursor, k) \in Page
  BY <1>0 DEF ScanPage, Page
<1>2. \A p \in Page : \E k \in 0..NPages - 1 : ScanPage(s.cursor, k) = p
  <2> TAKE p \in Page
  <2>1. CASE s.cursor <= p
    <3>1. p - s.cursor \in 0..NPages - 1 /\ ScanPage(s.cursor, p - s.cursor) = p
      BY <1>0, <2>1 DEF ScanPage, Page
    <3> QED  BY <3>1
  <2>2. CASE p < s.cursor
    <3>1. /\ p - s.cursor + NPages \in 0..NPages - 1
          /\ ScanPage(s.cursor, p - s.cursor + NPages) = p
      BY <1>0, <2>2 DEF ScanPage, Page
    <3> QED  BY <3>1
  <2> QED  BY <1>0, <2>1, <2>2 DEF Page
<1>3. CASE hits = {}
  <2>1. OwnedBy(s, "free") = {}  BY <1>2, <1>3 DEF OwnedBy
  <2>2. NextFree(s) = 0  BY <1>3 DEF NextFree
  <2> QED  BY <2>1, <2>2
<1>4. CASE hits # {}
  <2> DEFINE m == CHOOSE k \in hits : \A j \in hits : k <= j
  <2>1. hits \subseteq Nat  BY <1>0
  <2>2. \E k \in hits : \A j \in hits : k <= j
    <3> HIDE DEF hits
    <3> QED  BY <1>4, <2>1, LeastExists
  <2>3. m \in hits /\ \A j \in hits : m <= j
    <3> HIDE DEF hits
    <3> QED  BY <2>2
  <2>4. NextFree(s) = ScanPage(s.cursor, m)  BY <1>4 DEF NextFree
  <2>5. NextFree(s) \in OwnedBy(s, "free")
    BY <1>1, <2>3, <2>4 DEF OwnedBy
  <2>6. NextFree(s) # 0  BY <1>0, <2>5 DEF OwnedBy, Page
  <2>7. ASSUME LowCursor(s), NEW p \in OwnedBy(s, "free")
        PROVE  NextFree(s) <= p
    <3> HIDE DEF m
    <3>1. p \in Page /\ s.owners[p] = "free" /\ s.cursor <= p
      BY <2>7 DEF OwnedBy, LowCursor
    <3>2. p - s.cursor \in hits
      BY <1>0, <3>1 DEF ScanPage, Page
    <3>3. m <= p - s.cursor  BY <2>3, <3>2
    <3> QED  BY <1>0, <2>3, <2>4, <3>1, <3>3 DEF ScanPage, Page
  <2> QED  BY <2>5, <2>6, <2>7
<1> QED  BY <1>3, <1>4

\* Sets of pages are finite, and count one more or less with a page.
LEMMA CountPages ==
    ASSUME NEW S, S \subseteq Page
    PROVE  /\ IsFiniteSet(S) /\ Cardinality(S) \in Nat
           /\ Cardinality(S) = 0 <=> S = {}
           /\ \A p \in Page \ S : Cardinality(S \cup {p}) = Cardinality(S) + 1
           /\ \A p \in S : Cardinality(S \ {p}) = Cardinality(S) - 1
<1>1. IsFiniteSet(Page)  BY PmmAssumption, FS_Interval DEF Page
<1>2. IsFiniteSet(S)  BY <1>1, FS_Subset
<1> QED  BY <1>2, FS_CardinalityType, FS_EmptySet, FS_AddElement, FS_RemoveElement

\* What a change of one page from owner a to owner b does to the audit.
LEMMA OneMove ==
    ASSUME NEW s, NEW t, StateOK(s), NEW p \in Page, NEW b,
           t.owners = [s.owners EXCEPT ![p] = b], s.owners[p] # b
    PROVE  /\ \A a \in Owner \cup {"free"} : a # b /\ a # s.owners[p]
                => OwnedBy(t, a) = OwnedBy(s, a)
           /\ Cardinality(OwnedBy(t, b)) = Cardinality(OwnedBy(s, b)) + 1
           /\ Cardinality(OwnedBy(t, s.owners[p])) = Cardinality(OwnedBy(s, s.owners[p])) - 1
<1>1. s.owners \in [Page -> Owner \cup {"free", "reserved"}]  BY DEF StateOK
<1>2. /\ OwnedBy(t, b) = OwnedBy(s, b) \cup {p}
      /\ p \in Page \ OwnedBy(s, b)
  BY <1>1 DEF OwnedBy
<1>3. /\ OwnedBy(t, s.owners[p]) = OwnedBy(s, s.owners[p]) \ {p}
      /\ p \in OwnedBy(s, s.owners[p])
  BY <1>1 DEF OwnedBy
<1>4. /\ OwnedBy(s, b) \subseteq Page
      /\ OwnedBy(s, s.owners[p]) \subseteq Page
  BY DEF OwnedBy
<1>5. \A a \in Owner \cup {"free"} : a # b /\ a # s.owners[p]
        => OwnedBy(t, a) = OwnedBy(s, a)
  BY <1>1 DEF OwnedBy
<1> QED  BY <1>2, <1>3, <1>4, <1>5, CountPages

Owned(s) == {p \in Page : s.owners[p] \in Owner}

LEMMA OneTaken ==
    ASSUME NEW s, NEW t, StateOK(s), NEW p \in OwnedBy(s, "free"), NEW o \in Owner,
           t.owners = [s.owners EXCEPT ![p] = o]
    PROVE  /\ Cardinality(OwnedBy(t, "free")) = Cardinality(OwnedBy(s, "free")) - 1
           /\ Cardinality(Owned(t)) = Cardinality(Owned(s)) + 1
           /\ \A a \in Owner : Cardinality(OwnedBy(t, a)) =
                Cardinality(OwnedBy(s, a)) + (IF a = o THEN 1 ELSE 0)
<1>1. /\ p \in Page /\ s.owners[p] = "free" /\ "free" \notin Owner
      /\ s.owners \in [Page -> Owner \cup {"free", "reserved"}]
  BY PmmAssumption DEF StateOK, OwnedBy
<1>2. Owned(t) = Owned(s) \cup {p} /\ p \in Page \ Owned(s)
  BY <1>1 DEF Owned
<1>3. Owned(s) \subseteq Page  BY DEF Owned
<1>4. \A a \in Owner : OwnedBy(s, a) \subseteq Page  BY DEF OwnedBy
<1>5. \A a \in Owner : Cardinality(OwnedBy(s, a)) \in Nat  BY <1>4, CountPages
<1>6. /\ \A a \in Owner : a # o => OwnedBy(t, a) = OwnedBy(s, a)
      /\ Cardinality(OwnedBy(t, o)) = Cardinality(OwnedBy(s, o)) + 1
      /\ Cardinality(OwnedBy(t, "free")) = Cardinality(OwnedBy(s, "free")) - 1
  BY <1>1, OneMove
<1> QED  BY <1>2, <1>3, <1>5, <1>6, CountPages

LEMMA OneReturned ==
    ASSUME NEW s, NEW t, StateOK(s), NEW o \in Owner, NEW p \in OwnedBy(s, o),
           t.owners = [s.owners EXCEPT ![p] = "free"]
    PROVE  /\ Cardinality(OwnedBy(t, "free")) = Cardinality(OwnedBy(s, "free")) + 1
           /\ Cardinality(Owned(t)) = Cardinality(Owned(s)) - 1
           /\ \A a \in Owner : Cardinality(OwnedBy(t, a)) =
                Cardinality(OwnedBy(s, a)) - (IF a = o THEN 1 ELSE 0)
<1>1. /\ p \in Page /\ s.owners[p] = o /\ "free" \notin Owner
      /\ s.owners \in [Page -> Owner \cup {"free", "reserved"}]
  BY PmmAssumption DEF StateOK, OwnedBy
<1>2. Owned(t) = Owned(s) \ {p} /\ p \in Owned(s)
  BY <1>1 DEF Owned
<1>3. Owned(s) \subseteq Page  BY DEF Owned
<1>4. \A a \in Owner : OwnedBy(s, a) \subseteq Page  BY DEF OwnedBy
<1>5. \A a \in Owner : Cardinality(OwnedBy(s, a)) \in Nat  BY <1>4, CountPages
<1>6. /\ \A a \in Owner : a # o => OwnedBy(t, a) = OwnedBy(s, a)
      /\ Cardinality(OwnedBy(t, o)) = Cardinality(OwnedBy(s, o)) - 1
      /\ Cardinality(OwnedBy(t, "free")) = Cardinality(OwnedBy(s, "free")) + 1
  BY <1>1, OneMove
<1> QED  BY <1>2, <1>3, <1>5, <1>6, CountPages
-----------------------------------------------------------------------------
\* pmm_alloc keeps the allocator good, whether it takes a page or not.
LEMMA AllocKeepsGood ==
    ASSUME NEW s, Good(s), NEW o \in Owner
    PROVE  Good(AfterAlloc(s, o))
<1> DEFINE t == AfterAlloc(s, o)
           page == NextFree(s)
           c == Counted(s, o)
<1>1. StateOK(s) /\ Audit(s) /\ LowCursor(s) /\ NPages \in Nat \ {0}
  BY PmmAssumption DEF Good
<1>2. /\ StateOK(c) /\ c.owners = s.owners /\ c.cursor = s.cursor /\ c.total = s.total
      /\ c.free = s.free /\ c.used = s.used /\ c.owner_used = s.owner_used
      /\ c.owner_limits = s.owner_limits
      /\ c.high >= s.used + 1 /\ c.owner_high[o] >= s.owner_used[o] + 1
      /\ \A a \in Owner : c.owner_high[a] >= s.owner_high[a]
  <2> DEFINE high == Larger(s.high, s.used + 1)
             ohigh == [s.owner_high EXCEPT ![o] = Larger(@, s.owner_used[o] + 1)]
  <2>1. s.high \in Nat /\ s.used \in Nat /\ s.owner_used[o] \in Nat
        /\ s.owner_high \in [Owner -> Nat]
    BY <1>1 DEF StateOK
  <2>2. high \in Nat /\ high >= s.used + 1
    BY <2>1 DEF Larger
  <2>3. /\ ohigh \in [Owner -> Nat] /\ ohigh[o] >= s.owner_used[o] + 1
        /\ \A a \in Owner : ohigh[a] >= s.owner_high[a]
    BY <2>1 DEF Larger
  <2>4. c = [s EXCEPT !.high = high, !.owner_high = ohigh]
    BY <1>1 DEF Counted, StateOK
  <2> HIDE DEF high, ohigh, c
  <2> QED  BY <1>1, <2>2, <2>3, <2>4 DEF StateOK
<1>3. CASE ~s.live \/ OverQuota(s, o) \/ page = 0
  BY <1>3 DEF AfterAlloc, Good
<1>4. CASE s.live /\ ~OverQuota(s, o) /\ page # 0 /\ page \in Unmapped
  <2>1. t = [c EXCEPT !.cursor = page]  BY <1>4 DEF AfterAlloc
  <2>2. page \in OwnedBy(s, "free") /\ \A p \in OwnedBy(s, "free") : page <= p
    BY <1>1, <1>4, ScanFinds
  <2>3. page \in Page  BY <2>2 DEF OwnedBy
  <2>4. StateOK(t)  BY <1>2, <2>1, <2>3 DEF StateOK
  <2>5. \A a : OwnedBy(t, a) = OwnedBy(s, a)
    BY <1>2, <2>1 DEF OwnedBy, StateOK
  <2>6. Audit(t)
    <3>1. t.owners = s.owners /\ t.total = s.total /\ t.free = s.free /\ t.used = s.used
          /\ t.owner_used = s.owner_used /\ t.owner_limits = s.owner_limits
          /\ t.high = c.high /\ t.owner_high = c.owner_high
      BY <1>2, <2>1 DEF StateOK
    <3>2. t.used <= t.high  BY <1>1, <1>2, <3>1 DEF StateOK
    <3>3. \A a \in Owner : t.owner_used[a] <= t.owner_high[a]
      BY <1>1, <1>2, <3>1 DEF StateOK, Audit
    <3> QED  BY <1>1, <2>5, <3>1, <3>2, <3>3 DEF Audit
  <2>7. LowCursor(t)
    BY <1>2, <2>1, <2>2, <2>5 DEF LowCursor, StateOK
  <2> QED  BY <2>4, <2>6, <2>7 DEF Good
<1>5. CASE s.live /\ ~OverQuota(s, o) /\ page # 0 /\ page \notin Unmapped
  <2>1. t = [c EXCEPT !.owners[page] = o, !.free = @ - 1, !.used = @ + 1,
                      !.owner_used[o] = @ + 1, !.cursor = CursorAfter(page)]
    BY <1>5 DEF AfterAlloc
  <2>2. page \in OwnedBy(s, "free") /\ \A p \in OwnedBy(s, "free") : page <= p
    BY <1>1, <1>5, ScanFinds
  <2>3. page \in Page /\ s.owners[page] = "free" /\ CursorAfter(page) \in Page
    BY <1>1, <2>2 DEF OwnedBy, CursorAfter, Page
  <2>4. /\ t.owners = [s.owners EXCEPT ![page] = o]
        /\ t.free = s.free - 1 /\ t.used = s.used + 1 /\ t.total = s.total
        /\ t.owner_used = [s.owner_used EXCEPT ![o] = @ + 1]
        /\ t.owner_limits = s.owner_limits
        /\ t.high = c.high /\ t.owner_high = c.owner_high /\ t.cursor = CursorAfter(page)
        /\ t.live = c.live
    BY <1>2, <2>1 DEF StateOK
  <2>5. /\ Cardinality(OwnedBy(t, "free")) = Cardinality(OwnedBy(s, "free")) - 1
        /\ Cardinality(Owned(t)) = Cardinality(Owned(s)) + 1
        /\ \A a \in Owner : Cardinality(OwnedBy(t, a)) =
                Cardinality(OwnedBy(s, a)) + (IF a = o THEN 1 ELSE 0)
    <3> HIDE DEF t, page
    <3> QED  BY <1>1, <2>2, <2>4, OneTaken
  <2>6. s.free # 0
    <3>1. OwnedBy(s, "free") \subseteq Page  BY DEF OwnedBy
    <3> QED  BY <1>1, <2>2, <3>1, CountPages DEF Audit
  <2>7. StateOK(t)
    <3>1. [c.owners EXCEPT ![page] = o] \in [Page -> Owner \cup {"free", "reserved"}]
      BY <1>2, <2>3 DEF StateOK
    <3>2. c.free - 1 \in Nat /\ c.used + 1 \in Nat
      BY <1>1, <1>2, <2>6 DEF StateOK
    <3>3. [c.owner_used EXCEPT ![o] = @ + 1] \in [Owner -> Nat]
      BY <1>2 DEF StateOK
    <3> HIDE DEF t, c, page
    <3> QED  BY <1>2, <2>1, <2>3, <3>1, <3>2, <3>3 DEF StateOK
  <2>8. Audit(t)
    <3>1. \A a \in Owner : t.owner_used[a] = s.owner_used[a] + (IF a = o THEN 1 ELSE 0)
      BY <1>1, <2>4 DEF StateOK
    <3>2. \A a \in Owner : /\ t.owner_used[a] <= t.owner_high[a]
                            /\ t.owner_used[a] <= t.owner_limits[a]
      BY <1>1, <1>2, <1>5, <2>4, <3>1 DEF StateOK, Audit, OverQuota
    <3>3. t.used <= t.high /\ t.free + t.used = t.total
      BY <1>1, <1>2, <2>4 DEF StateOK, Audit
    <3> QED  BY <1>1, <2>4, <2>5, <3>1, <3>2, <3>3 DEF Audit, Owned
  <2>9. LowCursor(t)
    <3> SUFFICES ASSUME NEW p \in OwnedBy(t, "free") PROVE t.cursor <= p
      BY DEF LowCursor
    <3>1. p \in Page /\ s.owners[p] = "free" /\ p # page
      BY <1>1, <2>3, <2>4, PmmAssumption DEF OwnedBy, StateOK
    <3>2. page <= p  BY <2>2, <3>1 DEF OwnedBy
    <3> QED  BY <1>1, <2>3, <2>4, <3>1, <3>2 DEF CursorAfter, Page
  <2> QED  BY <2>7, <2>8, <2>9 DEF Good
<1> QED  BY <1>3, <1>4, <1>5

LEMMA ReleaseKeepsGood ==
    ASSUME NEW s, Good(s), NEW p \in Page, NEW o \in Owner
    PROVE  Good(AfterRelease(s, p, o))
<1> DEFINE t == AfterRelease(s, p, o)
<1>1. StateOK(s) /\ Audit(s) /\ LowCursor(s)  BY DEF Good
<1>2. CASE ~ReleaseOK(s, p, o)  BY <1>2 DEF AfterRelease
<1>3. CASE ReleaseOK(s, p, o)
  <2>1. p \in OwnedBy(s, o)  BY <1>3 DEF ReleaseOK, OwnedBy
  <2>2. t = [s EXCEPT !.owners[p] = "free", !.used = @ - 1, !.owner_used[o] = @ - 1,
                      !.free = @ + 1, !.cursor = CursorAfterRelease(s, p)]
    BY <1>3 DEF AfterRelease
  <2>3. /\ t.owners = [s.owners EXCEPT ![p] = "free"]
        /\ t.free = s.free + 1 /\ t.used = s.used - 1 /\ t.total = s.total
        /\ t.owner_used = [s.owner_used EXCEPT ![o] = @ - 1]
        /\ t.owner_limits = s.owner_limits /\ t.owner_high = s.owner_high
        /\ t.high = s.high /\ t.cursor = CursorAfterRelease(s, p)
    BY <1>1, <2>2 DEF StateOK
  <2>4. /\ Cardinality(OwnedBy(t, "free")) = Cardinality(OwnedBy(s, "free")) + 1
        /\ Cardinality(Owned(t)) = Cardinality(Owned(s)) - 1
        /\ \A a \in Owner : Cardinality(OwnedBy(t, a)) =
                Cardinality(OwnedBy(s, a)) - (IF a = o THEN 1 ELSE 0)
    <3> HIDE DEF t
    <3> QED  BY <1>1, <2>1, <2>3, OneReturned
  <2>5. s.used # 0 /\ s.owner_used[o] # 0
    <3>1. OwnedBy(s, o) \subseteq Page /\ Owned(s) \subseteq Page /\ p \in Owned(s)
      BY <2>1 DEF OwnedBy, Owned
    <3>2. Cardinality(OwnedBy(s, o)) # 0 /\ Cardinality(Owned(s)) # 0
      BY <2>1, <3>1, CountPages
    <3> QED  BY <1>1, <3>2 DEF Audit, Owned
  <2>6. StateOK(t)
    <3>1. [s.owners EXCEPT ![p] = "free"] \in [Page -> Owner \cup {"free", "reserved"}]
      BY <1>1 DEF StateOK
    <3>2. s.free + 1 \in Nat /\ s.used - 1 \in Nat
      BY <1>1, <2>5 DEF StateOK
    <3>3. [s.owner_used EXCEPT ![o] = @ - 1] \in [Owner -> Nat]
      BY <1>1, <2>5 DEF StateOK
    <3>4. CursorAfterRelease(s, p) \in Page
      BY <1>1 DEF StateOK, CursorAfterRelease
    <3> HIDE DEF t
    <3> QED  BY <1>1, <2>2, <3>1, <3>2, <3>3, <3>4 DEF StateOK
  <2>7. Audit(t)
    <3>1. \A a \in Owner : t.owner_used[a] = s.owner_used[a] - (IF a = o THEN 1 ELSE 0)
      BY <1>1, <2>3 DEF StateOK
    <3>2. \A a \in Owner : /\ t.owner_used[a] <= t.owner_high[a]
                            /\ t.owner_used[a] <= t.owner_limits[a]
      BY <1>1, <2>3, <3>1 DEF StateOK, Audit
    <3>3. t.used <= t.high /\ t.free + t.used = t.total
      BY <1>1, <2>3 DEF StateOK, Audit
    <3> QED  BY <1>1, <2>3, <2>4, <3>1, <3>2, <3>3 DEF Audit, Owned
  <2>8. LowCursor(t)
    <3> SUFFICES ASSUME NEW q \in OwnedBy(t, "free") PROVE t.cursor <= q
      BY DEF LowCursor
    <3>1. q \in Page /\ (s.owners[q] = "free" \/ q = p)
      BY <1>1, <2>3 DEF OwnedBy, StateOK
    <3>2. s.owners[q] = "free" => s.cursor <= q
      BY <1>1, <3>1 DEF LowCursor, OwnedBy
    <3> QED  BY <1>1, <2>3, <3>1, <3>2, PmmAssumption DEF CursorAfterRelease, Page, StateOK
  <2> QED  BY <2>6, <2>7, <2>8 DEF Good
<1> QED  BY <1>2, <1>3

\* What pmm_alloc does to the page table.
LEMMA AllocOwners ==
    ASSUME NEW s, StateOK(s), NEW o \in Owner
    PROVE  IF AllocPage(s, o) = 0 THEN AfterAlloc(s, o).owners = s.owners
           ELSE /\ AllocPage(s, o) = NextFree(s)
                /\ AfterAlloc(s, o).owners = [s.owners EXCEPT ![NextFree(s)] = o]
<1> DEFINE c == Counted(s, o)
           page == NextFree(s)
<1>1. c.owners = s.owners /\ c \in [DOMAIN s -> UNION {{s[f], c[f]} : f \in DOMAIN s}]
  BY DEF Counted, StateOK
<1>2. CASE ~s.live \/ OverQuota(s, o) \/ page = 0
  BY <1>2 DEF AllocPage, AfterAlloc
<1>3. CASE s.live /\ ~OverQuota(s, o) /\ page # 0 /\ page \in Unmapped
  <2>1. AllocPage(s, o) = 0  BY <1>3 DEF AllocPage
  <2>2. AfterAlloc(s, o) = [c EXCEPT !.cursor = page]  BY <1>3 DEF AfterAlloc
  <2> QED  BY <1>1, <2>1, <2>2
<1>4. CASE s.live /\ ~OverQuota(s, o) /\ page # 0 /\ page \notin Unmapped
  <2>1. AllocPage(s, o) = page  BY <1>4 DEF AllocPage
  <2>2. AfterAlloc(s, o) =
          [c EXCEPT !.owners[page] = o, !.free = @ - 1, !.used = @ + 1,
                    !.owner_used[o] = @ + 1, !.cursor = CursorAfter(page)]
    BY <1>4 DEF AfterAlloc
  <2> QED  BY <1>1, <1>4, <2>1, <2>2
<1> QED  BY <1>2, <1>3, <1>4

LEMMA ReleaseOwners ==
    ASSUME NEW s, StateOK(s), NEW p \in Page, NEW o \in Owner
    PROVE  IF ReleaseOK(s, p, o)
           THEN s.owners[p] = o /\ AfterRelease(s, p, o).owners = [s.owners EXCEPT ![p] = "free"]
           ELSE AfterRelease(s, p, o) = s
<1>1. CASE ReleaseOK(s, p, o)
  <2>1. AfterRelease(s, p, o) =
          [s EXCEPT !.owners[p] = "free", !.used = @ - 1, !.owner_used[o] = @ - 1,
                    !.free = @ + 1, !.cursor = CursorAfterRelease(s, p)]
    BY <1>1 DEF AfterRelease
  <2>2. AfterRelease(s, p, o).owners = [s.owners EXCEPT ![p] = "free"]
    BY <2>1 DEF StateOK
  <2> QED  BY <1>1, <2>2 DEF ReleaseOK
<1>2. CASE ~ReleaseOK(s, p, o)  BY <1>2 DEF AfterRelease
<1> QED  BY <1>1, <1>2

LEMMA LimitKeepsGood ==
    ASSUME NEW s, Good(s), NEW o \in Owner, NEW n \in Nat, n >= s.owner_used[o]
    PROVE  Good([s EXCEPT !.owner_limits[o] = n])
<1> DEFINE t == [s EXCEPT !.owner_limits[o] = n]
<1>1. StateOK(s) /\ Audit(s) /\ LowCursor(s)  BY DEF Good
<1>2. StateOK(t)  BY <1>1 DEF StateOK
<1>3. /\ t.owners = s.owners /\ t.free = s.free /\ t.used = s.used /\ t.total = s.total
      /\ t.high = s.high /\ t.owner_used = s.owner_used /\ t.owner_high = s.owner_high
      /\ t.cursor = s.cursor /\ t.owner_limits = [s.owner_limits EXCEPT ![o] = n]
  BY <1>1 DEF StateOK
<1>4. \A a : OwnedBy(t, a) = OwnedBy(s, a)  BY <1>3 DEF OwnedBy
<1>5. \A a \in Owner : t.owner_used[a] <= t.owner_limits[a]
  BY <1>1, <1>3 DEF StateOK, Audit
<1>6. Audit(t)
  <2> HIDE DEF t
  <2> QED  BY <1>1, <1>3, <1>4, <1>5 DEF Audit
<1>7. LowCursor(t)
  <2> HIDE DEF t
  <2> QED  BY <1>1, <1>3, <1>4 DEF LowCursor
<1> QED  BY <1>2, <1>6, <1>7 DEF Good

LEMMA InitGood == ASSUME NEW m PROVE Good(pmm_init_ranges(m))
<1> DEFINE s == pmm_init_ranges(m)
           admitted == Admitted(m)
<1>1. admitted \subseteq Page  BY DEF Admitted, RangePages
<1>2. OwnedBy(s, "free") = admitted  BY <1>1 DEF pmm_init_ranges, OwnedBy
<1>3. /\ \A o \in Owner : OwnedBy(s, o) = {}
      /\ {p \in Page : s.owners[p] \in Owner} = {}
  BY PmmAssumption DEF pmm_init_ranges, OwnedBy
<1>4. Cardinality(admitted) \in Nat /\ Cardinality({}) = 0
  BY <1>1, CountPages, FS_EmptySet
<1>5. StateOK(s)
  <2>1. 1 \in Page /\ Unlimited \in Nat  BY PmmAssumption DEF Page
  <2> QED  BY <1>4, <2>1 DEF pmm_init_ranges, StateOK
<1>6. Audit(s)
  <2>1. /\ s.free = Cardinality(admitted) /\ s.total = Cardinality(admitted)
        /\ s.used = 0 /\ s.high = 0
        /\ \A o \in Owner : /\ s.owner_used[o] = 0 /\ s.owner_high[o] = 0
                            /\ s.owner_limits[o] = Unlimited
    BY DEF pmm_init_ranges
  <2>2. Unlimited \in Nat  BY PmmAssumption
  <2> HIDE DEF s, admitted
  <2>3. s.free = Cardinality(OwnedBy(s, "free"))  BY <1>2, <2>1
  <2>4. s.used = Cardinality({p \in Page : s.owners[p] \in Owner})
    BY <1>3, <1>4, <2>1
  <2>5. \A o \in Owner : s.owner_used[o] = Cardinality(OwnedBy(s, o))
    BY <1>3, <1>4, <2>1
  <2>6. /\ s.free + s.used = s.total /\ s.used <= s.high
        /\ \A o \in Owner : s.owner_used[o] <= s.owner_high[o]
                            /\ s.owner_used[o] <= s.owner_limits[o]
    BY <1>4, <2>1, <2>2
  <2> QED  BY <2>3, <2>4, <2>5, <2>6 DEF Audit
<1>7. LowCursor(s)  BY DEF pmm_init_ranges, LowCursor, OwnedBy, Page
<1> QED  BY <1>5, <1>6, <1>7 DEF Good
-----------------------------------------------------------------------------
\* The inductive invariant: the quota bound of the audit needs the counters
\* to be right, and these need the scan to return a page that is free.
IInv == Good(pmm) /\ soiled \subseteq Page

LEMMA StepKeepsInv == IInv /\ [Next]_pmm_vars => IInv'
<1> SUFFICES ASSUME IInv, [Next]_pmm_vars PROVE IInv'  OBVIOUS
<1>1. ASSUME NEW o \in Owner, pmm_alloc(o) PROVE IInv'
  BY <1>1, AllocKeepsGood DEF pmm_alloc, zero_page, IInv
<1>2. ASSUME NEW o \in Owner, NEW n \in Limits, pmm_set_owner_limit(o, n) PROVE IInv'
  BY <1>2, LimitKeepsGood, PmmAssumption DEF pmm_set_owner_limit, IInv
<1>3. ASSUME NEW p \in Page, UsePage(p) PROVE IInv'
  BY <1>3 DEF UsePage, IInv
<1>4. ASSUME NEW p \in Page, NEW o \in Owner, pmm_release(p, o) PROVE IInv'
  BY <1>4, ReleaseKeepsGood DEF pmm_release, IInv
<1>5. CASE UNCHANGED pmm_vars  BY <1>5 DEF pmm_vars, IInv
<1> QED  BY <1>1, <1>2, <1>3, <1>4, <1>5 DEF Next

(***************************************************************************)
(* The three facts together, for every reachable state.                    *)
(***************************************************************************)
THEOREM Invariance == Spec => []IInv
<1>1. Init => IInv  BY InitGood DEF Init, IInv
<1> QED  BY <1>1, StepKeepsInv, PTL DEF Spec

(***************************************************************************)
(* Every reachable state of the allocator is well typed.                   *)
(***************************************************************************)
THEOREM TypeCorrect == Spec => []TypeOK
<1>1. IInv => TypeOK  BY DEF IInv, Good, TypeOK
<1> QED  BY <1>1, Invariance, PTL

(***************************************************************************)
(* pmm_check (pmm.c:457) finds nothing, however alloc, its rollback,       *)
(* release and limit changes follow each other.                            *)
(***************************************************************************)
THEOREM AuditAlwaysClean == Spec => []AuditClean
<1>1. IInv => AuditClean  BY DEF IInv, Good, AuditClean
<1> QED  BY <1>1, Invariance, PTL

(***************************************************************************)
(* No free page is ever below the cursor, so pmm_alloc (pmm.c:276) gives   *)
(* out the lowest free page, as the self-test at pmm.c:399 expects.        *)
(***************************************************************************)
THEOREM CursorAlwaysLow == Spec => []CursorBelowFree
<1>1. IInv => CursorBelowFree  BY DEF IInv, Good, CursorBelowFree
<1> QED  BY <1>1, Invariance, PTL

(***************************************************************************)
(* pmm_owner_account (pmm.c:354) says a page is available exactly when     *)
(* pmm_alloc would return one, a page that cannot be zeroed apart.         *)
(***************************************************************************)
THEOREM AccountAlwaysHonest == Spec => []AccountIsHonest
<1>1. IInv => AccountIsHonest
  <2> SUFFICES ASSUME IInv, pmm.live, NEW o \in Owner
               PROVE  /\ AllocPage(pmm, o) # 0 => Available(pmm, o) > 0
                      /\ Available(pmm, o) > 0 =>
                            AllocPage(pmm, o) # 0 \/ NextFree(pmm) \in Unmapped
    BY DEF AccountIsHonest
  <2>1. StateOK(pmm) /\ Audit(pmm)  BY DEF IInv, Good
  <2>2. /\ pmm.free \in Nat /\ pmm.owner_used[o] \in Nat /\ pmm.owner_limits[o] \in Nat
        /\ pmm.owner_used[o] <= pmm.owner_limits[o]
    BY <2>1 DEF StateOK, Audit
  <2>3. pmm.free = 0 <=> NextFree(pmm) = 0
    <3>1. OwnedBy(pmm, "free") \subseteq Page /\ 0 \notin Page
      BY DEF OwnedBy, Page
    <3>2. pmm.free = 0 <=> OwnedBy(pmm, "free") = {}
      BY <2>1, <3>1, CountPages DEF Audit
    <3> QED  BY <2>1, <3>1, <3>2, ScanFinds
  <2>4. AllocPage(pmm, o) # 0 <=>
            /\ pmm.owner_used[o] < pmm.owner_limits[o]
            /\ NextFree(pmm) \notin Unmapped \cup {0}
    BY <2>2 DEF AllocPage, OverQuota
  <2>5. pmm.owner_limits[o] = Unlimited /\ pmm.free > 0
            => pmm.owner_used[o] < pmm.owner_limits[o]
    <3>1. OwnedBy(pmm, o) \cap OwnedBy(pmm, "free") = {} /\ OwnedBy(pmm, o) \subseteq Page
          /\ OwnedBy(pmm, "free") \subseteq Page
      BY PmmAssumption DEF OwnedBy
    <3>2. IsFiniteSet(Page) /\ Cardinality(Page) = NPages
      BY PmmAssumption, FS_Interval DEF Page
    <3>3. pmm.free > 0 => OwnedBy(pmm, o) # Page
      BY <2>1, <3>1, CountPages DEF Audit
    <3>4. pmm.free > 0 => Cardinality(OwnedBy(pmm, o)) < NPages
      BY <3>1, <3>2, <3>3, FS_Subset, FS_CardinalityType
    <3>5. pmm.owner_used[o] = Cardinality(OwnedBy(pmm, o))  BY <2>1 DEF Audit
    <3> QED  BY <2>2, <3>4, <3>5, PmmAssumption
  <2> QED  BY <2>2, <2>3, <2>4, <2>5 DEF Available
<1> QED  BY <1>1, Invariance, PTL

\* A page comes from the free ones, or goes back to them by its owner's release.
Moves == \A p \in Page : pmm'.owners[p] # pmm.owners[p] =>
    \/ pmm.owners[p] = "free" /\ pmm'.owners[p] \in Owner
    \/ pmm.owners[p] \in Owner /\ pmm_release(p, pmm.owners[p])

LEMMA NextMoves == IInv /\ Next => Moves
<1> USE DEF Moves
<1> SUFFICES ASSUME IInv, Next PROVE Moves  OBVIOUS
<1>0. StateOK(pmm)  BY DEF IInv, Good
<1>1. ASSUME NEW o \in Owner, pmm_alloc(o) PROVE Moves
  <2>1. \/ pmm'.owners = pmm.owners
        \/ /\ NextFree(pmm) # 0
           /\ pmm'.owners = [pmm.owners EXCEPT ![NextFree(pmm)] = o]
    BY <1>0, <1>1, AllocOwners DEF pmm_alloc
  <2>2. NextFree(pmm) # 0 => pmm.owners[NextFree(pmm)] = "free"
    BY <1>0, ScanFinds DEF OwnedBy
  <2> QED  BY <1>0, <2>1, <2>2 DEF StateOK
<1>2. ASSUME NEW o \in Owner, NEW n \in Limits, pmm_set_owner_limit(o, n) PROVE Moves
  BY <1>0, <1>2 DEF pmm_set_owner_limit, StateOK
<1>3. ASSUME NEW p \in Page, UsePage(p) PROVE Moves
  BY <1>3 DEF UsePage
<1>4. ASSUME NEW p \in Page, NEW o \in Owner, pmm_release(p, o) PROVE Moves
  <2>1. \/ pmm'.owners = pmm.owners
        \/ pmm.owners[p] = o /\ pmm'.owners = [pmm.owners EXCEPT ![p] = "free"]
    <3>1. pmm' = AfterRelease(pmm, p, o)  BY <1>4 DEF pmm_release
    <3>2. CASE ReleaseOK(pmm, p, o)  BY <1>0, <3>1, <3>2, ReleaseOwners
    <3>3. CASE ~ReleaseOK(pmm, p, o)
      <4>1. pmm' = pmm  BY <1>0, <3>1, <3>3, ReleaseOwners
      <4> QED  BY <4>1
    <3> QED  BY <3>2, <3>3
  <2> QED  BY <1>0, <1>4, <2>1 DEF StateOK
<1> QED  BY <1>1, <1>2, <1>3, <1>4 DEF Next

(***************************************************************************)
(* No release by another owner, no second release and no allocation moves  *)
(* a page that somebody owns or that is reserved (pmm.c:326).              *)
(***************************************************************************)
THEOREM OwnershipTheorem == Spec => OwnershipMoves
<1>1. IInv /\ [Next]_pmm_vars =>
        [\A p \in Page : pmm'.owners[p] # pmm.owners[p] =>
            \/ pmm.owners[p] = "free" /\ pmm'.owners[p] \in Owner
            \/ pmm.owners[p] \in Owner /\ pmm_release(p, pmm.owners[p])]_pmm_vars
  BY NextMoves DEF Moves
<1> QED  BY <1>1, Invariance, PTL DEF Spec, OwnershipMoves

(***************************************************************************)
(* A page that leaves the free state has been zeroed in the same call      *)
(* (pmm.c:301), whatever its last owner wrote.                             *)
(***************************************************************************)
THEOREM ZeroedTheorem == Spec => HandedOutZeroed
<1> DEFINE Zeroed == \A p \in Page :
        pmm.owners[p] = "free" /\ pmm'.owners[p] # "free" => p \notin soiled'
<1>1. IInv /\ [Next]_pmm_vars => [Zeroed]_pmm_vars
  <2> SUFFICES ASSUME IInv, Next PROVE Zeroed  OBVIOUS
  <2>0. StateOK(pmm)  BY DEF IInv, Good
  <2>1. ASSUME NEW o \in Owner, pmm_alloc(o) PROVE Zeroed
    <3>1. CASE AllocPage(pmm, o) = 0
      <4>1. pmm'.owners = pmm.owners
        BY <2>0, <2>1, <3>1, AllocOwners DEF pmm_alloc
      <4> QED  BY <4>1
    <3>2. CASE AllocPage(pmm, o) # 0
      <4>1. pmm'.owners = [pmm.owners EXCEPT ![NextFree(pmm)] = o]
            /\ AllocPage(pmm, o) = NextFree(pmm)
        BY <2>0, <2>1, <3>2, AllocOwners DEF pmm_alloc
      <4> QED  BY <2>0, <2>1, <4>1 DEF pmm_alloc, zero_page, StateOK
    <3> QED  BY <3>1, <3>2
  <2>2. ASSUME NEW o \in Owner, NEW n \in Limits, pmm_set_owner_limit(o, n) PROVE Zeroed
    BY <2>0, <2>2 DEF pmm_set_owner_limit, StateOK
  <2>3. ASSUME NEW p \in Page, UsePage(p) PROVE Zeroed
    BY <2>3 DEF UsePage
  <2>4. ASSUME NEW p \in Page, NEW o \in Owner, pmm_release(p, o) PROVE Zeroed
    <3>1. \/ pmm'.owners = pmm.owners
          \/ pmm.owners[p] = o /\ pmm'.owners = [pmm.owners EXCEPT ![p] = "free"]
      <4>1. pmm' = AfterRelease(pmm, p, o)  BY <2>4 DEF pmm_release
      <4>2. CASE ReleaseOK(pmm, p, o)  BY <2>0, <4>1, <4>2, ReleaseOwners
      <4>3. CASE ~ReleaseOK(pmm, p, o)
        <5>1. pmm' = pmm  BY <2>0, <4>1, <4>3, ReleaseOwners
        <5> QED  BY <5>1
      <4> QED  BY <4>2, <4>3
    <3> QED  BY <2>0, <3>1 DEF StateOK
  <2> QED  BY <2>1, <2>2, <2>3, <2>4 DEF Next
<1> QED  BY <1>1, Invariance, PTL DEF Spec, HandedOutZeroed
-----------------------------------------------------------------------------
(* The admission of pages: what the divisions of apply_range make of a      *)
(* descriptor that starts or ends inside a page.                            *)

LEMMA Scaled == ASSUME NEW B \in Nat, NEW x \in Int, NEW y \in Int, x <= y PROVE x * B <= y * B
<1>1. (y - x) * B >= 0
  OBVIOUS
<1>2. (y - x) * B = y * B - x * B
  OBVIOUS
<1> QED  BY <1>1, <1>2

LEMMA Divided == ASSUME NEW B \in Nat \ {0}, NEW a \in Nat
                 PROVE  /\ a \div B \in Nat /\ a % B \in 0 .. B - 1
                        /\ a = (a \div B) * B + (a % B)
OBVIOUS

\* The whole pages before address a, and the pages it touches or ends at.
LEMMA Floor == ASSUME NEW B \in Nat \ {0}, NEW a \in Nat, NEW p \in Nat
               PROVE  a \div B <= p <=> a < (p + 1) * B
<1> DEFINE q == a \div B
<1>1. q \in Nat /\ a % B \in 0 .. B - 1 /\ a = q * B + (a % B)
  BY Divided
<1> HIDE DEF q
<1>2. (p + 1) * B = p * B + B /\ (q + 1) * B = q * B + B /\ p * B \in Nat /\ q * B \in Nat
  BY <1>1
<1>3. q <= p => q * B <= p * B
  BY <1>1, Scaled
<1>4. p + 1 <= q => (p + 1) * B <= q * B
  BY <1>1, Scaled
<1> QED  BY <1>1, <1>2, <1>3, <1>4 DEF q

LEMMA Ceiling == ASSUME NEW B \in Nat \ {0}, NEW a \in Nat, NEW p \in Nat
                 PROVE  a \div B + (IF a % B # 0 THEN 1 ELSE 0) <= p <=> a <= p * B
<1> DEFINE q == a \div B
<1>1. q \in Nat /\ a % B \in 0 .. B - 1 /\ a = q * B + (a % B)
  BY Divided
<1> HIDE DEF q
<1>2. (p + 1) * B = p * B + B /\ (q + 1) * B = q * B + B /\ p * B \in Nat /\ q * B \in Nat
  BY <1>1
<1>3. q + 1 <= p => (q + 1) * B <= p * B
  BY <1>1, Scaled
<1>4. q <= p => q * B <= p * B
  BY <1>1, Scaled
<1>5. p + 1 <= q => (p + 1) * B <= q * B
  BY <1>1, Scaled
<1>6. p = q => p * B = q * B
  OBVIOUS
<1> QED  BY <1>1, <1>2, <1>3, <1>4, <1>5, <1>6 DEF q

LEMMA PageBounds == ASSUME NEW p \in Page
                    PROVE  /\ p \in Nat /\ p * PageBytes \in Nat
                           /\ (p + 1) * PageBytes = p * PageBytes + PageBytes
                           /\ Bytes(p) = p * PageBytes .. p * PageBytes + PageBytes - 1
<1>1. p \in Nat /\ PageBytes \in Nat
  BY PmmAssumption DEF Page
<1>2. (p + 1) * PageBytes = p * PageBytes + PageBytes /\ p * PageBytes \in Nat
  BY <1>1
<1> QED  BY <1>1, <1>2 DEF Bytes

\* A usable range reaches the pages that lie in it whole.
LEMMA UsableReaches ==
    ASSUME NEW r, r.base \in Nat, r.bytes \in Nat \ {0}, r.usable = TRUE, NEW p \in Page
    PROVE  p \in RangePages(r) <=> Bytes(p) \subseteq Span(r)
<1> DEFINE end == r.base + r.bytes
           lo == p * PageBytes
<1>1. PageBytes \in Nat \ {0} /\ p \in Nat /\ end \in Nat
  BY PageBounds, PmmAssumption
<1>2. p \in RangePages(r) <=>
        /\ r.base \div PageBytes + (IF r.base % PageBytes # 0 THEN 1 ELSE 0) <= p
        /\ p < end \div PageBytes
  <2>1. p \in RangePages(r) <=>
        /\ r.base \div PageBytes + (IF r.base % PageBytes # 0 THEN 1 ELSE 0) <= p
        /\ p < end \div PageBytes + 0
    BY DEF RangePages
  <2>2. end \div PageBytes \in Nat
    BY <1>1, Divided
  <2> QED  BY <2>1, <2>2
<1>3. p \in RangePages(r) <=> r.base <= lo /\ lo + PageBytes <= end
  <2>1. end \div PageBytes \in Nat
    BY <1>1, Divided
  <2>2. end \div PageBytes <= p <=> end < lo + PageBytes
    BY <1>1, Floor, PageBounds
  <2>3. r.base \div PageBytes + (IF r.base % PageBytes # 0 THEN 1 ELSE 0) <= p <=> r.base <= lo
    BY <1>1, Ceiling
  <2>4. lo \in Nat
    BY PageBounds
  <2> HIDE DEF lo
  <2> QED  BY <1>1, <1>2, <2>1, <2>2, <2>3, <2>4
<1>4. Bytes(p) = lo .. lo + PageBytes - 1 /\ lo \in Nat
  BY PageBounds
<1> HIDE DEF lo
<1>5. lo \in Bytes(p) /\ lo + PageBytes - 1 \in Bytes(p)
  BY <1>1, <1>4
<1> QED  BY <1>1, <1>3, <1>4, <1>5 DEF Span

\* A reserved range reaches the pages it touches.
LEMMA ReservedReaches ==
    ASSUME NEW r, r.base \in Nat, r.bytes \in Nat \ {0}, r.usable = FALSE, NEW p \in Page
    PROVE  p \in RangePages(r) <=> Bytes(p) \cap Span(r) # {}
<1> DEFINE end == r.base + r.bytes
           lo == p * PageBytes
<1>1. PageBytes \in Nat \ {0} /\ p \in Nat /\ end \in Nat
  BY PageBounds, PmmAssumption
<1>2. p \in RangePages(r) <=>
        /\ r.base \div PageBytes <= p
        /\ p < end \div PageBytes + (IF end % PageBytes # 0 THEN 1 ELSE 0)
  <2>1. p \in RangePages(r) <=>
        /\ r.base \div PageBytes + 0 <= p
        /\ p < end \div PageBytes + (IF end % PageBytes # 0 THEN 1 ELSE 0)
    BY DEF RangePages
  <2>2. r.base \div PageBytes \in Nat
    BY <1>1, Divided
  <2> QED  BY <2>1, <2>2
<1>3. p \in RangePages(r) <=> r.base < lo + PageBytes /\ lo < end
  <2>1. end \div PageBytes + (IF end % PageBytes # 0 THEN 1 ELSE 0) \in Nat
    BY <1>1, Divided
  <2>2. r.base \div PageBytes <= p <=> r.base < lo + PageBytes
    BY <1>1, Floor, PageBounds
  <2>3. end \div PageBytes + (IF end % PageBytes # 0 THEN 1 ELSE 0) <= p <=> end <= lo
    BY <1>1, Ceiling
  <2>4. lo \in Nat
    BY PageBounds
  <2> QED  BY <1>1, <1>2, <2>1, <2>2, <2>3, <2>4
<1>4. Bytes(p) = lo .. lo + PageBytes - 1 /\ lo \in Nat
  BY PageBounds
<1> HIDE DEF lo
<1>5. lo < end /\ r.base < lo + PageBytes =>
        (IF lo < r.base THEN r.base ELSE lo) \in Bytes(p) \cap Span(r)
  BY <1>1, <1>4 DEF Span
<1>6. \A x \in Bytes(p) \cap Span(r) : lo < end /\ r.base < lo + PageBytes
  BY <1>1, <1>4 DEF Span
<1> QED  BY <1>3, <1>5, <1>6

\* What pmm_init_ranges admits.
Wanted(m) ==
    {p \in Page : /\ \E i \in DOMAIN m : m[i].usable /\ Bytes(p) \subseteq Span(m[i])
                  /\ \A i \in DOMAIN m : m[i].usable \/ Bytes(p) \cap Span(m[i]) = {}}

LEMMA AdmittedIsWanted == ASSUME NEW m \in Ranges PROVE Admitted(m) = Wanted(m)
<1>1. \A i \in DOMAIN m : m[i].base \in Nat /\ m[i].bytes \in Nat \ {0} /\ m[i].usable \in BOOLEAN
  BY RangesAssumption
<1>2. \A i \in DOMAIN m : \A p \in Page :
        /\ m[i].usable = TRUE => (p \in RangePages(m[i]) <=> Bytes(p) \subseteq Span(m[i]))
        /\ m[i].usable = FALSE => (p \in RangePages(m[i]) <=> Bytes(p) \cap Span(m[i]) # {})
  BY <1>1, UsableReaches, ReservedReaches
<1>3. \A i \in DOMAIN m : RangePages(m[i]) \subseteq Page
  BY DEF RangePages
<1>4. ASSUME NEW p \in Page
      PROVE  p \in Admitted(m) <=>
                /\ \E i \in DOMAIN m : m[i].usable = TRUE /\ p \in RangePages(m[i])
                /\ \A i \in DOMAIN m : m[i].usable = FALSE => p \notin RangePages(m[i])
  BY DEF Admitted
<1>5. Admitted(m) \subseteq Page
  BY <1>3 DEF Admitted
<1> QED  BY <1>1, <1>2, <1>4, <1>5 DEF Wanted

LEMMA InitAdmits ==
    ASSUME NEW m \in Ranges
    PROVE  {p \in Page : pmm_init_ranges(m).owners[p] # "reserved"} = Wanted(m)
<1>1. \A p \in Page : pmm_init_ranges(m).owners[p] # "reserved" <=> p \in Admitted(m)
  BY DEF pmm_init_ranges
<1> QED  BY <1>1, AdmittedIsWanted DEF Wanted

(***************************************************************************)
(* Only whole usable pages that no reserved descriptor touches are ever    *)
(* handed out (pmm.c:107, pmm.c:149), for any map, page size and number of *)
(* descriptors, and all of them are.                                       *)
(***************************************************************************)
THEOREM UsablePagesTheorem == Spec => []OnlyUsablePages
<1> DEFINE J == /\ map \in Ranges
                /\ {p \in Page : pmm.owners[p] # "reserved"} = Wanted(map)
<1>1. Init => J  BY InitAdmits DEF Init
<1>2. IInv /\ J /\ [Next]_pmm_vars => J'
  <2> SUFFICES ASSUME IInv, J, [Next]_pmm_vars PROVE J'  OBVIOUS
  <2>1. map' = map  BY DEF Next, pmm_alloc, pmm_release, pmm_set_owner_limit, UsePage, pmm_vars
  <2>2. \A p \in Page : pmm'.owners[p] # "reserved" <=> pmm.owners[p] # "reserved"
    <3>1. CASE UNCHANGED pmm_vars  BY <3>1 DEF pmm_vars
    <3>2. CASE Next
      <4>1. Moves  BY <3>2, NextMoves
      <4>2. ASSUME NEW p \in Page, pmm_release(p, pmm.owners[p]), pmm.owners[p] \in Owner
            PROVE  pmm'.owners[p] # "reserved"
        <5>1. pmm' = AfterRelease(pmm, p, pmm.owners[p]) /\ StateOK(pmm)
          BY <4>2 DEF pmm_release, IInv, Good
        <5>2. CASE ReleaseOK(pmm, p, pmm.owners[p])
          <6>1. pmm'.owners = [pmm.owners EXCEPT ![p] = "free"]
            BY <4>2, <5>1, <5>2, ReleaseOwners
          <6> QED  BY <5>1, <6>1 DEF StateOK
        <5>3. CASE ~ReleaseOK(pmm, p, pmm.owners[p])
          <6>1. pmm' = pmm  BY <4>2, <5>1, <5>3, ReleaseOwners
          <6> QED  BY <4>2, <6>1, PmmAssumption
        <5> QED  BY <5>2, <5>3
      <4>3. "free" # "reserved" /\ "reserved" \notin Owner  BY PmmAssumption
      <4> QED  BY <4>1, <4>2, <4>3 DEF Moves
    <3> QED  BY <3>1, <3>2
  <2> QED  BY <2>1, <2>2
<1>3. J => OnlyUsablePages  BY DEF OnlyUsablePages, Wanted
<1> QED  BY <1>1, <1>2, <1>3, Invariance, PTL DEF Spec
=============================================================================
