--------------------------------- MODULE Pmm ---------------------------------
(***************************************************************************)
(* core/pmm.c: the physical page allocator. Every page is reserved, free   *)
(* or owned; an allocation takes the next free page at or after a cursor,  *)
(* going round, within its owner's limit, and hands it out zeroed. The     *)
(* refusal counters, which nothing reads back, are left out.               *)
(***************************************************************************)
EXTENDS Naturals, FiniteSets

CONSTANTS
    NPages,     \* managed pages: page p stands for address p * PMM_PAGE_BYTES
    Owner,      \* the owners any_owner accepts
    Unlimited,  \* PMM_LIMIT_UNLIMITED
    Limits,     \* the limits pmm_set_owner_limit is called with
    Unmapped,   \* pages page_pointer has no pointer for
    PageBytes, Ranges  \* the memory map: bytes per page, and its descriptors

Page == 1..NPages

ASSUME PmmAssumption ==
    /\ NPages \in Nat \ {0} /\ PageBytes \in Nat \ {0}
    /\ Unlimited \in Nat /\ NPages <= Unlimited
    /\ Limits \subseteq Nat
    /\ Unmapped \subseteq Page
    /\ Owner \cap {"free", "reserved"} = {}

\* What range_shape (pmm.c:91) lets through, and how the handover reads it.
ASSUME RangesAssumption ==
    \A m \in Ranges : \A i \in DOMAIN m :
        m[i].base \in Nat /\ m[i].bytes \in Nat \ {0} /\ m[i].usable \in BOOLEAN

VARIABLES
    map,        \* the sealed memory map of the boot handover
    pmm,        \* the allocator's static variables
    soiled      \* pages that hold somebody's data

pmm_vars == <<map, pmm, soiled>>
-----------------------------------------------------------------------------
\* apply_range, as the pages it reaches. A page counts as usable if it lies in
\* the range whole, as reserved if a byte of it does.
RangePages(r) ==
    LET end == r.base + r.bytes
        inside == r.base % PageBytes # 0 /\ r.usable
        touched == end % PageBytes # 0 /\ ~r.usable
        first == r.base \div PageBytes + (IF inside THEN 1 ELSE 0)
        after == end \div PageBytes + (IF touched THEN 1 ELSE 0)
    IN  {p \in Page : first <= p /\ p < after}

\* Mutant of Admitted: descriptors applied in the order of the map.
AdmittedInOrder(m) ==
    {p \in Page : \E i \in DOMAIN m : m[i].usable /\ p \in RangePages(m[i])
        /\ \A j \in DOMAIN m : j > i /\ ~m[j].usable => p \notin RangePages(m[j])}

\* The two passes of pmm_init_ranges: usable ranges first, reserved ones win.
Admitted(m) ==
    LET Covered(usable) ==
            UNION {RangePages(m[i]) : i \in {j \in DOMAIN m : m[j].usable = usable}}
    IN  Covered(TRUE) \ Covered(FALSE)

\* reset_state and the two passes; without a free page it does not go live.
\* pmm_init_boot adds its own memory map to m as one more reserved range.
pmm_init_ranges(m) ==
    LET free == Admitted(m) IN
    [owners |-> [p \in Page |-> IF p \in free THEN "free" ELSE "reserved"],
     cursor |-> 1,
     total |-> Cardinality(free), free |-> Cardinality(free), used |-> 0, high |-> 0,
     owner_used |-> [o \in Owner |-> 0],
     owner_high |-> [o \in Owner |-> 0],
     owner_limits |-> [o \in Owner |-> Unlimited],
     live |-> free # {}]
-----------------------------------------------------------------------------
\* The k-th page the scan of pmm_alloc looks at.
ScanPage(c, k) == IF c + k <= NPages THEN c + k ELSE c + k - NPages

\* The page the scan stops at, 0 if it goes all the way round.
NextFree(s) ==
    LET hits == {k \in 0..NPages - 1 : s.owners[ScanPage(s.cursor, k)] = "free"}
    IN  IF hits = {} THEN 0
        ELSE ScanPage(s.cursor, CHOOSE k \in hits : \A j \in hits : k <= j)

Larger(a, b) == IF a > b THEN a ELSE b

\* Mutant of OverQuota: one page over the limit.
QuotaOffByOne(s, o) == s.owner_used[o] > s.owner_limits[o]

OverQuota(s, o) == s.owner_used[o] >= s.owner_limits[o]

\* The page pmm_alloc returns to owner o, 0 when it refuses.
AllocPage(s, o) ==
    IF ~s.live \/ OverQuota(s, o) \/ NextFree(s) \in Unmapped
    THEN 0 ELSE NextFree(s)


CursorAfter(page) == IF page = NPages THEN 1 ELSE page + 1

\* The marks a page leaves in the statistics, which no refusal takes back.
Counted(s, o) ==
    [s EXCEPT !.high = Larger(@, s.used + 1),
              !.owner_high[o] = Larger(@, s.owner_used[o] + 1)]

\* Mutant of AfterAlloc: the quota is looked at, and not charged.
AllocUncharged(s, o) ==
    LET page == NextFree(s) IN
    IF ~s.live \/ OverQuota(s, o) \/ page \in Unmapped \cup {0} THEN s
    ELSE [Counted(s, o) EXCEPT !.owners[page] = o, !.free = @ - 1, !.used = @ + 1]

\* The state pmm_alloc leaves: zero_page may fail after the page was taken.
AfterAlloc(s, o) ==
    LET page == NextFree(s) IN
    IF ~s.live \/ OverQuota(s, o) \/ page = 0 THEN s
    ELSE IF page \in Unmapped THEN [Counted(s, o) EXCEPT !.cursor = page]
    ELSE [Counted(s, o) EXCEPT
            !.owners[page] = o,
            !.free = @ - 1, !.used = @ + 1, !.owner_used[o] = @ + 1,
            !.cursor = CursorAfter(page)]

\* Mutant of ReleaseOK: any owner may release any page.
ReleaseAnyOwner(s, p, o) == s.live /\ s.owners[p] \notin {"free", "reserved"}

ReleaseOK(s, p, o) == s.live /\ s.owners[p] = o


CursorAfterRelease(s, p) == IF p < s.cursor THEN p ELSE s.cursor

AfterRelease(s, p, o) ==
    IF ~ReleaseOK(s, p, o) THEN s
    ELSE [s EXCEPT
            !.owners[p] = "free",
            !.used = @ - 1, !.owner_used[o] = @ - 1, !.free = @ + 1,
            !.cursor = CursorAfterRelease(s, p)]

\* available_pages of pmm_owner_account.
Available(s, o) ==
    LET room == s.owner_limits[o] - s.owner_used[o]
    IN  IF s.owner_limits[o] # Unlimited /\ s.free > room THEN room ELSE s.free
-----------------------------------------------------------------------------
\* Mutant of zero_page: only a page that was handed out before.
ZeroRecycledOnly(p) == IF pmm.used < pmm.high THEN soiled \ {p} ELSE soiled

zero_page(p) == soiled \ {p}

pmm_alloc(o) ==
    /\ pmm' = AfterAlloc(pmm, o)
    /\ soiled' = zero_page(AllocPage(pmm, o))
    /\ UNCHANGED map

pmm_release(p, o) ==
    /\ pmm' = AfterRelease(pmm, p, o)
    /\ UNCHANGED <<map, soiled>>

pmm_set_owner_limit(o, n) ==
    /\ pmm.live /\ n >= pmm.owner_used[o]
    /\ pmm' = [pmm EXCEPT !.owner_limits[o] = n]
    /\ UNCHANGED <<map, soiled>>

\* An owner writes to a page of its own.
UsePage(p) ==
    /\ pmm.owners[p] \in Owner
    /\ soiled' = soiled \cup {p}
    /\ UNCHANGED <<map, pmm>>

Init ==
    /\ map \in Ranges
    /\ pmm = pmm_init_ranges(map)
    /\ soiled = Page        \* what the firmware left there

Next ==
    \/ \E o \in Owner : pmm_alloc(o) \/ \E n \in Limits : pmm_set_owner_limit(o, n)
    \/ \E p \in Page : UsePage(p) \/ \E o \in Owner : pmm_release(p, o)

Spec == Init /\ [][Next]_pmm_vars
-----------------------------------------------------------------------------
OwnedBy(s, o) == {p \in Page : s.owners[p] = o}

StateOK(s) ==
    s \in [owners : [Page -> Owner \cup {"free", "reserved"}], cursor : Page,
          total : Nat, free : Nat, used : Nat, high : Nat,
          owner_used : [Owner -> Nat], owner_high : [Owner -> Nat],
          owner_limits : [Owner -> Nat], live : BOOLEAN]

TypeOK == StateOK(pmm) /\ soiled \subseteq Page

(***************************************************************************)
(* pmm_check (pmm.c:457), the audit of the counters against the table,     *)
(* never has anything to report: alloc, its rollback and release keep      *)
(* seven counters and a table in step.                                     *)
(***************************************************************************)
Audit(s) ==
    /\ s.free = Cardinality(OwnedBy(s, "free"))
    /\ s.used = Cardinality({p \in Page : s.owners[p] \in Owner})
    /\ s.free + s.used = s.total
    /\ s.used <= s.high
    /\ \A o \in Owner :
        /\ s.owner_used[o] = Cardinality(OwnedBy(s, o))
        /\ s.owner_used[o] <= s.owner_high[o]
        /\ s.owner_used[o] <= s.owner_limits[o]
AuditClean == Audit(pmm)

(***************************************************************************)
(* What pmm_owner_account (pmm.c:354) says is available can be had: an     *)
(* allocation succeeds only when it says more than 0, and then fails only  *)
(* at a page that cannot be zeroed. The scan from the cursor never misses  *)
(* a free page.                                                            *)
(***************************************************************************)
AccountIsHonest ==
    pmm.live => \A o \in Owner :
        /\ AllocPage(pmm, o) # 0 => Available(pmm, o) > 0
        /\ Available(pmm, o) > 0 => AllocPage(pmm, o) # 0 \/ NextFree(pmm) \in Unmapped

(***************************************************************************)
(* Allocation is by lowest address: no free page is below the cursor, so   *)
(* the page released last is the next one out if nothing below it is free. *)
(* The boot self-test counts on it (pmm.c:399) and takes anything else for *)
(* corruption, which turns the allocator off.                              *)
(***************************************************************************)
LowCursor(s) == \A p \in OwnedBy(s, "free") : s.cursor <= p
CursorBelowFree == LowCursor(pmm)

(***************************************************************************)
(* pmm.c:149: "Reserved descriptors win even if a malformed source         *)
(* overlaps them with a usable descriptor." A page is admitted if all its  *)
(* bytes are in one usable range and none of them in a reserved range.     *)
(***************************************************************************)
Bytes(p) == p * PageBytes..(p + 1) * PageBytes - 1
Span(r) == r.base..r.base + r.bytes - 1
OnlyUsablePages ==
    {p \in Page : pmm.owners[p] # "reserved"} =
    {p \in Page : /\ \E i \in DOMAIN map : map[i].usable /\ Bytes(p) \subseteq Span(map[i])
                  /\ \A i \in DOMAIN map :
                        map[i].usable \/ Bytes(p) \cap Span(map[i]) = {}}

(***************************************************************************)
(* A page is taken only from the free ones and leaves its owner only by    *)
(* that owner's own release, so nobody can lose a page to a wrong or a     *)
(* second release; a reserved page never moves.                            *)
(***************************************************************************)
OwnershipMoves ==
    [][\A p \in Page : pmm'.owners[p] # pmm.owners[p] =>
        \/ pmm.owners[p] = "free" /\ pmm'.owners[p] \in Owner
        \/ pmm.owners[p] \in Owner /\ pmm_release(p, pmm.owners[p])]_pmm_vars

(***************************************************************************)
(* A page starts its life with an owner zeroed, whoever had it before.     *)
(***************************************************************************)
HandedOutZeroed ==
    [][\A p \in Page : pmm.owners[p] = "free" /\ pmm'.owners[p] # "free" => p \notin soiled']_pmm_vars
=============================================================================
