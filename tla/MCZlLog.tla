------------------------------- MODULE MCZlLog -------------------------------
EXTENDS ZlLog
\* Interrupts and a flush; a failure with more records and a power cut, in any
\* order; two failures of one boot; boots and rotations.
Interrupting == [events |-> 0, irqs |-> 3, faults |-> 0, cuts |-> 0]
Failing == [events |-> 1, irqs |-> 0, faults |-> 1, cuts |-> 1]
Retrying == [events |-> 0, irqs |-> 0, faults |-> 2, cuts |-> 0]
Rebooting == [events |-> 1, irqs |-> 0, faults |-> 0, cuts |-> 2]
Rotating == [events |-> 2, irqs |-> 0, faults |-> 0, cuts |-> 1]
MCPlans == {Interrupting, Failing, Retrying, Rebooting, Rotating}
==============================================================================
