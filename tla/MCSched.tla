------------------------------- MODULE MCSched -------------------------------
\* Three tasks on a clock of six ticks that starts anywhere.
EXTENDS Sched
==============================================================================
