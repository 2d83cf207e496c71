------------------------------- MODULE MCZlfs -------------------------------
EXTENDS ZlfsVolume
MCNames == {1, 2}
MCData == {1, 2}
\* Data flushes that are refused, and anything that can fail.
MCPlans == {[faults |-> {"data"}, calls |-> 5],
            [faults |-> {"data", "header", "read"}, calls |-> 4]}
MCFlushPlans == {[faults |-> {"data", "header"}, calls |-> 4]}
=============================================================================
