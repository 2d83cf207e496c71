--------------------------- MODULE MCProcessSpace ---------------------------
\* Two slots, whose four owners are distinct.
EXTENDS ProcessSpace
CONSTANTS p, q, pImage, qImage, pAnon, qAnon
MCImageOwner == [i \in {p, q} |-> IF i = p THEN pImage ELSE qImage]
MCAnonOwner == [i \in {p, q} |-> IF i = p THEN pAnon ELSE qAnon]
=============================================================================
