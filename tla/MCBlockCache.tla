--------------------------- MODULE MCBlockCache ---------------------------
(* Two pages in front of three blocks: every page can be dirty, clean      *)
(* pages are evicted, and a dirty block can be rewritten.                  *)
EXTENDS BlockCache
MCLba == 0..2
MCVal == 0..1
=============================================================================
