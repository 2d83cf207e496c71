----------------------------- MODULE WriteBack -----------------------------
(***************************************************************************)
(* What the bounded write-back cache of drivers/storage/block.c promises   *)
(* to the filesystem above it: accepted writes wait in the order in which  *)
(* each block was last written, they reach the medium from the front of    *)
(* that queue, and a power cut loses the queue and nothing else.           *)
(*                                                                         *)
(* BlockCache implements this specification; Zlfs is built on its state    *)
(* and its operators.                                                      *)
(***************************************************************************)
EXTENDS Naturals, Sequences

CONSTANTS
    Addr,       \* block addresses
    Val,        \* block contents
    CacheN      \* pages in the cache (BLOCK_CACHE_N)

VARIABLES
    media,      \* media[a]: the contents of block a on the medium
    queue       \* dirty blocks, oldest last-write first: <<[addr, val], ...>>

wbVars == <<media, queue>>

Queued(q) == {q[k].addr : k \in DOMAIN q}

\* The queue after block writes ws have been accepted one after another: a
\* block rewritten while dirty moves to the back with its new contents.
Enqueue(q, ws) ==
    LET kept[k \in 0..Len(q)] ==
            IF k = 0 THEN <<>>
            ELSE IF q[k].addr \in Queued(ws) THEN kept[k - 1]
            ELSE Append(kept[k - 1], q[k])
    IN  kept[Len(q)] \o ws

\* The medium once the first k queued blocks have been written to it.
Drained(m, q, k) ==
    LET stored[j \in 0..k] ==
            IF j = 0 THEN m ELSE [stored[j - 1] EXCEPT ![q[j].addr] = q[j].val]
    IN  stored[k]

DropFirst(q, k) == SubSeq(q, k + 1, Len(q))

\* What a read through the cache returns for every block.
View(m, q) == Drained(m, q, Len(q))

\* A write is refused when every page is dirty and none of them is its block.
Accepts(q, a) == a \in Queued(q) \/ Len(q) < CacheN
-----------------------------------------------------------------------------
Put(a, v) ==
    /\ Accepts(queue, a)
    /\ queue' = Enqueue(queue, <<[addr |-> a, val |-> v]>>)
    /\ UNCHANGED media

WriteBackOldest ==
    /\ queue # <<>>
    /\ media' = Drained(media, queue, 1)
    /\ queue' = Tail(queue)

\* The device reported failure although it had stored the block.
WrittenButNotAcknowledged ==
    /\ queue # <<>>
    /\ media' = Drained(media, queue, 1)
    /\ UNCHANGED queue

PowerCut ==
    /\ queue' = <<>>
    /\ UNCHANGED media

Init ==
    /\ media \in [Addr -> Val]
    /\ queue = <<>>

Next ==
    \/ \E a \in Addr, v \in Val : Put(a, v)
    \/ WriteBackOldest
    \/ WrittenButNotAcknowledged
    \/ PowerCut

Spec == Init /\ [][Next]_wbVars
=============================================================================
