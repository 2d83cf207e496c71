------------------------------- MODULE MCPmm -------------------------------
\* Maps of two descriptors over three pages of four bytes, whole or not.
EXTENDS Pmm, Sequences
MCRange == [base : {4, 5, 8}, bytes : {3, 8, 12}, usable : BOOLEAN]
MCFirst == [base : {4, 5}, bytes : {8, 12}, usable : {TRUE}]
MCRanges == {<<r, t>> : r \in MCFirst, t \in MCRange} \cup {<<t, r>> : r \in MCFirst, t \in MCRange}
\* One map, five pages in all of which the second is reserved.
MCWhole == {<<[base |-> 4, bytes |-> 20, usable |-> TRUE],
              [base |-> 8, bytes |-> 1, usable |-> FALSE]>>}
MCMaps == MCRanges \cup MCWhole
============================================================================
