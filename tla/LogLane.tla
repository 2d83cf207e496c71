------------------------------- MODULE LogLane -------------------------------
(***************************************************************************)
(* The interrupt lane of core/zllog.c: a ring of cells that handlers fill  *)
(* by reserving an index (a compare-and-swap on irq_write), writing the    *)
(* cell field by field and storing at + 1 in its valid word; normal code   *)
(* drains it in index order. Handlers nest and run on several processors,  *)
(* so any of them may be stopped between any two of its steps.             *)
(***************************************************************************)
EXTENDS Naturals, Sequences

CONSTANTS
    Isr,        \* handlers that may be inside zllog_event_irq at once
    LaneSize,   \* ZLLOG_IRQ_RECORDS
    MaxIrq      \* bound: records accepted by the lane; irq_write is a u32

ASSUME LaneAssumption == LaneSize \in Nat \ {0} /\ MaxIrq \in Nat

VARIABLES
    cell,       \* irq_records: the valid word and two fields of each cell
    wr, rd,     \* irq_write, irq_read
    isr,        \* per handler: where it is and the write and index it holds
    drain,      \* the drain loop: where it is and the end it read
    drained     \* history: the fields of the records drained, in order

laneVars == <<cell, wr, rd, isr, drain, drained>>

Cell(at) == at % LaneSize

\* A record is written in two halves; each names the handler and its index.
Half == [by : Isr, at : 0..MaxIrq]
BlankCell == [valid |-> 0, a |-> <<>>, b |-> <<>>]
Handler == [pc : {"idle", "read", "swap", "first", "second", "publish"},
            at : 0..MaxIrq]
NoDrain == [pc |-> "idle", end |-> 0]
-----------------------------------------------------------------------------
LoadWrite(i) ==
    /\ isr[i].pc = "idle"
    /\ isr' = [isr EXCEPT ![i] = [pc |-> "read", at |-> wr]]
    /\ UNCHANGED <<cell, wr, rd, drain, drained>>

\* write - read is unsigned: a read index that has passed the loaded write
\* makes it huge, and the record is refused like one for a full lane.
Full(write) == write < rd \/ write - rd >= LaneSize

\* Mutant of Full: one cell too many.
FullOneLate(write) == write < rd \/ write - rd > LaneSize

LoadRead(i) ==
    /\ isr[i].pc = "read"
    /\ isr' = [isr EXCEPT ![i].pc = IF Full(isr[i].at) THEN "idle" ELSE "swap"]
    /\ UNCHANGED <<cell, wr, rd, drain, drained>>

\* Mutant of Reserve: a plain store where the compare-and-swap is.
StoresWrite(i) ==
    /\ isr[i].pc = "swap" /\ isr[i].at < MaxIrq
    /\ wr' = isr[i].at + 1
    /\ isr' = [isr EXCEPT ![i].pc = "first"]
    /\ UNCHANGED <<cell, rd, drain, drained>>

\* The swap fails when somebody else has reserved, and may fail anyway (weak).
Reserve(i) ==
    /\ isr[i].pc = "swap"
    /\ \/ /\ wr = isr[i].at /\ wr < MaxIrq
          /\ wr' = wr + 1
          /\ isr' = [isr EXCEPT ![i].pc = "first"]
       \/ /\ isr' = [isr EXCEPT ![i] = [pc |-> "read", at |-> wr]]
          /\ UNCHANGED wr
    /\ UNCHANGED <<cell, rd, drain, drained>>

FillFirst(i) ==
    /\ isr[i].pc = "first"
    /\ cell' = [cell EXCEPT ![Cell(isr[i].at)].a = [by |-> i, at |-> isr[i].at]]
    /\ isr' = [isr EXCEPT ![i].pc = "second"]
    /\ UNCHANGED <<wr, rd, drain, drained>>

FillSecond(i) ==
    /\ isr[i].pc = "second"
    /\ cell' = [cell EXCEPT ![Cell(isr[i].at)].b = [by |-> i, at |-> isr[i].at]]
    /\ isr' = [isr EXCEPT ![i].pc = "publish"]
    /\ UNCHANGED <<wr, rd, drain, drained>>

Publish(i) ==
    /\ isr[i].pc = "publish"
    /\ cell' = [cell EXCEPT ![Cell(isr[i].at)].valid = isr[i].at + 1]
    /\ isr' = [isr EXCEPT ![i].pc = "idle"]
    /\ UNCHANGED <<wr, rd, drain, drained>>
-----------------------------------------------------------------------------
\* drain_irq_records, one atomic operation at a time.
DrainStart ==
    /\ drain.pc = "idle"
    /\ drain' = [pc |-> "take", end |-> wr]
    /\ UNCHANGED <<cell, wr, rd, isr, drained>>

Takes == drain.pc = "take" /\ rd # drain.end /\ cell[Cell(rd)].valid = rd + 1

DrainTake ==
    /\ Takes
    /\ drained' = Append(drained, <<cell[Cell(rd)].a, cell[Cell(rd)].b>>)
    /\ drain' = [drain EXCEPT !.pc = "clear"]
    /\ UNCHANGED <<cell, wr, rd, isr>>

DrainClear ==
    /\ drain.pc = "clear"
    /\ cell' = [cell EXCEPT ![Cell(rd)].valid = 0]
    /\ drain' = [drain EXCEPT !.pc = "advance"]
    /\ UNCHANGED <<wr, rd, isr, drained>>

DrainAdvance ==
    /\ drain.pc = "advance"
    /\ rd' = rd + 1
    /\ drain' = [drain EXCEPT !.pc = "take"]
    /\ UNCHANGED <<cell, wr, isr, drained>>

\* Nothing left up to the end it read, or a cell that is not published yet.
DrainEnd ==
    /\ drain.pc = "take" /\ ~Takes
    /\ drain' = NoDrain
    /\ UNCHANGED <<cell, wr, rd, isr, drained>>
-----------------------------------------------------------------------------
LaneInit ==
    /\ cell = [c \in 0..LaneSize - 1 |-> BlankCell]
    /\ wr = 0 /\ rd = 0
    /\ isr = [i \in Isr |-> [pc |-> "idle", at |-> 0]]
    /\ drain = NoDrain /\ drained = <<>>

\* The image is loaded again: the lane is in its BSS.
LaneReset ==
    /\ cell' = [c \in 0..LaneSize - 1 |-> BlankCell]
    /\ wr' = 0 /\ rd' = 0
    /\ isr' = [i \in Isr |-> [pc |-> "idle", at |-> 0]]
    /\ drain' = NoDrain /\ drained' = <<>>

Handle(i) ==
    \/ LoadWrite(i) \/ LoadRead(i) \/ Reserve(i)
    \/ FillFirst(i) \/ FillSecond(i) \/ Publish(i)
DrainNext == DrainStart \/ DrainTake \/ DrainClear \/ DrainAdvance \/ DrainEnd
LaneNext == (\E i \in Isr : Handle(i)) \/ DrainNext \/ LaneReset
LaneSpec == LaneInit /\ [][LaneNext]_laneVars
-----------------------------------------------------------------------------
LaneTypeOK ==
    /\ cell \in [0..LaneSize - 1 -> [valid : 0..MaxIrq, a : Half \cup {<<>>}, b : Half \cup {<<>>}]]
    /\ wr \in 0..MaxIrq /\ rd \in 0..MaxIrq
    /\ isr \in [Isr -> Handler]
    /\ drain \in [pc : {"idle", "take", "clear", "advance"}, end : 0..MaxIrq]

(***************************************************************************)
(* zllog.c:332 and :361. What is drained is what was accepted: record n of *)
(* the drain is the one that reserved index n - 1, both halves of it from  *)
(* the handler that did - however handlers overtake one another, and       *)
(* although their cells are used again.                                    *)
(***************************************************************************)
LaneExact ==
    \A n \in DOMAIN drained : \E i \in Isr :
        drained[n] = <<[by |-> i, at |-> n - 1], [by |-> i, at |-> n - 1]>>
=============================================================================
