-------------------------------- MODULE ZlLog --------------------------------
(***************************************************************************)
(* core/zllog.c: the boot log. Records are appended to a ring in memory,   *)
(* by normal code and from the interrupt lane (LogLane), and flushed to    *)
(* slots of a log partition: data first, then the slot header that counts  *)
(* them, then they are forgotten. Two superblocks, written in turn, name   *)
(* the active slot. Each write with its cache flush is a step: the device  *)
(* may fail it, having stored any part of it or keeping it in its own      *)
(* cache, and the power may go in the middle.                              *)
(***************************************************************************)
EXTENDS LogLane, FiniteSets

CONSTANTS
    RamRecords,     \* ZLLOG_RAM_RECORDS
    RamNormal,      \* ceiling of ordinary records (RAM_RECORDS - 512)
    RamSampled,     \* ceiling of sampled ones (2048)
    Slots,          \* slots of the partition
    Capacity,       \* records of a slot
    Chunk,          \* records one flush writes (512)
    Plans           \* bounds on the environment, one plan per behaviour

\* Records made by normal code, records the lane may accept, device failures
\* and power cuts.
Plan == [events : Nat, irqs : Nat, faults : Nat, cuts : Nat]

ASSUME LogAssumption ==
    /\ {RamRecords, RamNormal, RamSampled, Slots, Capacity, Chunk} \subseteq Nat \ {0}
    /\ RamSampled <= RamNormal /\ RamNormal <= RamRecords
    /\ Plans \subseteq Plan /\ \A p \in Plans : p.irqs <= MaxIrq

VARIABLES
    media,      \* the blocks of the log partition
    pending,    \* written blocks the device still holds in its own cache
    ram,        \* ram_records: number, identity and boot of each record
    seq,        \* next_sequence
    up,         \* "early", "mounted", "refused" for this boot, or "halted"
    super,      \* the superblock in memory, and the copy it came from
    slot,       \* slot_active, slot_index, slot_record_count, slot_last_sequence
    lost,       \* ram_dropped, reported_ram_dropped
    job,        \* the flush under way
    kept,       \* history: the records forgotten, and the slot each went to
    spent,      \* history: records made, events, failures and power cuts so far,
                \* and whether a slot's last number, or the first of a boot,
                \* has gone back
    plan        \* the plan of this behaviour, never changed

logVars == <<media, pending, ram, seq, up, super, slot, lost, job, kept, spent, plan>>
vars == <<laneVars, logVars>>

None == Slots           \* ZLLOG_NONE_SLOT
Slot == 0..Slots - 1
Super(c) == <<"super", c, 0>>
Hdr(s) == <<"head", s, 0>>
Rec(s, p) == <<"rec", s, p>>
Addr == {Super(c) : c \in {0, 1}} \cup {Hdr(s) : s \in Slot}
        \cup {Rec(s, p) : s \in Slot, p \in 0..Capacity - 1}

BlankHead == [state |-> "blank", last |-> 0, count |-> 0, boot |-> 0]
BlankRec == [seq |-> 0, id |-> 0, boot |-> 0]
BlankSuper(g) == [gen |-> g, active |-> None, after |-> None, next |-> 1]
NoSlot == [active |-> FALSE, index |-> 0, count |-> 0, last |-> 0]
NoJob == [pc |-> "idle", n |-> 0, then |-> "data", ok |-> TRUE, completing |-> FALSE]

Boot == spent.cuts

\* The superblock b in memory, read from or written to a copy.
FromCopy(b, copy) ==
    [gen |-> b.gen, active |-> b.active, after |-> b.after, next |-> b.next, copy |-> copy]
Least(a, b) == IF a < b THEN a ELSE b
Most(a, b) == IF a < b THEN b ELSE a
-----------------------------------------------------------------------------
Ring == [ram |-> ram, seq |-> seq, made |-> spent.made, dropped |-> lost.dropped]

\* make_record and ring_append of one record whose ceiling is limit. A record
\* that is refused has used up its number.
Record(r, limit) ==
    [r EXCEPT
        !.ram = IF Len(@) >= limit THEN @
                ELSE Append(@, [seq |-> r.seq, id |-> r.made + 1, boot |-> Boot]),
        !.dropped = IF Len(r.ram) >= limit THEN @ + 1 ELSE @,
        !.seq = @ + 1, !.made = @ + 1]
Critical(r) == Record(r, RamRecords)
Normal(r) == Record(r, RamNormal)

SetRing(r) ==
    /\ ram' = r.ram /\ seq' = r.seq
    /\ lost' = [lost EXCEPT !.dropped = r.dropped]
    /\ spent' = [spent EXCEPT !.made = r.made]
-----------------------------------------------------------------------------
SlotPage(state, last, count) ==
    [a \in {Hdr(slot.index)} |->
        [state |-> state, last |-> last, count |-> count, boot |-> Boot]]

\* The superblock after one more publication.
NextSuper(active) ==
    [gen |-> super.gen + 1, active |-> active,
     after |-> IF active = None THEN super.after ELSE active, next |-> seq]

\* It goes to the copy that is not the current one.
SuperPage(b) == [a \in {Super(1 - super.copy)} |-> b]

\* The blocks the step at job.pc writes.
Writes ==
    CASE job.pc \in {"start", "check"} -> SlotPage("writing", slot.last, slot.count)
      [] job.pc = "enter" -> SuperPage(NextSuper(slot.index))
      [] job.pc = "data" ->
            [a \in {Rec(slot.index, slot.count + k) : k \in 0..job.n - 1} |->
                ram[a[3] - slot.count + 1]]
      [] job.pc \in {"seal", "final"} -> SlotPage("complete", slot.last, slot.count)
      [] job.pc \in {"leave", "close"} -> SuperPage(NextSuper(None))
      [] OTHER -> << >>

Only(f, S) == [a \in S |-> f[a]]
Over(f, g) == [a \in DOMAIN f \cup DOMAIN g |-> IF a \in DOMAIN f THEN f[a] ELSE g[a]]

\* The write and xhci_msc_sync_cache answer 1.
Stored ==
    /\ media' = Over(Over(Writes, pending), media)
    /\ pending' = << >>

\* One of them answers 0, and any part of the blocks was taken. What waited in
\* the device may have been stored before it was written again.
HalfStored ==
    \E S \in SUBSET DOMAIN Writes :
        /\ pending' = Over(Only(Writes, S), pending)
        /\ \E old \in SUBSET (S \cap DOMAIN pending) :
            media' = Over(Only(pending, old), media)

\* What a power cut now could leave on the partition.
CrashMedia ==
    {Over(Only(Writes, S), Over(Only(pending, P), media)) :
        S \in SUBSET DOMAIN Writes, P \in SUBSET DOMAIN pending}
-----------------------------------------------------------------------------
\* The inner flush returns ok; zllog_flush drains the lane once more.
Return(ok) == job' = [job EXCEPT !.pc = "return", !.ok = ok]

\* Mutant of next_slot: the slot that was used last is taken again.
SameSlot == IF super.active # None THEN super.active
            ELSE IF super.after = None THEN 0 ELSE super.after

\* The slot after the active one or, with none active, after the last one used.
next_slot ==
    IF super.active # None THEN (super.active + 1) % Slots
    ELSE IF super.after = None THEN 0 ELSE (super.after + 1) % Slots

\* Mutant of StartSlot: the count of the slot before is kept.
KeepsCount(then) ==
    /\ slot' = [slot EXCEPT !.active = FALSE, !.index = next_slot]
    /\ job' = [job EXCEPT !.pc = "start", !.then = then]
    /\ kept' = {k \in kept : k.slot # next_slot}

\* start_slot up to its first write, from which on the slot's old records go.
StartSlot(then) ==
    /\ slot' = [active |-> FALSE, index |-> next_slot, count |-> 0, last |-> 0]
    /\ job' = [job EXCEPT !.pc = "start", !.then = then]
    /\ kept' = {k \in kept : k.slot # next_slot}

\* Mutant of SlotFull: one record late.
SlotOverfull(count) == count > Capacity
SlotFull(count) == count >= Capacity

\* The records this flush writes.
Batch(records, count) == Least(Least(Len(records), Chunk), Capacity - count)

\* Write the ring out, as far as one flush goes.
WriteOut(records, count) ==
    IF records = <<>> THEN Return(TRUE)
    ELSE job' = IF SlotFull(count) THEN [job EXCEPT !.pc = "seal", !.then = "data"]
                ELSE [job EXCEPT !.pc = "data", !.n = Batch(records, count)]
-----------------------------------------------------------------------------
\* One record from the rest of the kernel, in the middle of nothing.
Event(limit) ==
    /\ job.pc = "idle" /\ up # "halted" /\ spent.events < plan.events
    /\ LET r == Record(Ring, limit) IN
       /\ ram' = r.ram /\ seq' = r.seq
       /\ lost' = [lost EXCEPT !.dropped = r.dropped]
       /\ spent' = [spent EXCEPT !.made = r.made, !.events = @ + 1]
    /\ UNCHANGED <<laneVars, media, pending, up, super, slot, job, kept>>

Interrupt(i) ==
    /\ Handle(i) /\ wr' <= plan.irqs
    /\ UNCHANGED logVars

\* Of the superblock copies that could be read, the one mount selects.
Selected(m, valid) ==
    IF 0 \in valid /\ \A c \in valid : m[Super(0)].gen >= m[Super(c)].gen THEN 0 ELSE 1

\* Mutant of durable_next: the checkpoint of the slot left writing is ignored.
NextOfSuper(m, copy, header) == Most(m[Super(copy)].next, 1)

\* The first number of this boot by one copy: after those of the slot it left
\* writing, if the header of that slot can be read.
durable_next(m, copy, header) ==
    LET s == m[Super(copy)] IN
    IF s.active # None /\ header
    THEN Most(Most(s.next, 1), m[Hdr(s.active)].last + 1)
    ELSE Most(s.next, 1)

\* What could not be read makes the first number a lower one.
Behind(m, copy, header) ==
    durable_next(m, copy, header) < durable_next(m, Selected(m, {0, 1}), TRUE)

\* Records made so far get the numbers after those on the partition.
Rebased(first) ==
    [Ring EXCEPT
        !.ram = [i \in DOMAIN ram |-> [ram[i] EXCEPT !.seq = first + i - 1]],
        !.seq = first + Len(ram)]

\* Copies of the superblock, and the header of the slot left writing, that a
\* read fails for are done without.
Unread(valid, header) == (IF valid = {0, 1} THEN 0 ELSE 1) + (IF header THEN 0 ELSE 1)

zllog_mount(valid, header) ==
    /\ up = "early" /\ job.pc = "idle"
    /\ spent.faults + Unread(valid, header) <= plan.faults
    /\ LET m == Over(pending, media)
           copy == Selected(m, valid)
           r == Normal(Normal(Rebased(durable_next(m, copy, header)))) IN
       /\ header \/ m[Super(copy)].active # None
       /\ super' = FromCopy(m[Super(copy)], copy)
       /\ ram' = r.ram /\ seq' = r.seq
       /\ lost' = [lost EXCEPT !.dropped = r.dropped]
       /\ spent' = [spent EXCEPT !.made = r.made, !.faults = @ + Unread(valid, header),
                                 !.back = @ \/ Behind(m, copy, header)]
    /\ up' = "mounted"
    /\ job' = [NoJob EXCEPT !.pc = "drain"]
    /\ DrainStart
    /\ UNCHANGED <<media, pending, slot, kept>>

\* The stick is not there yet (tried again later), or is not ours.
zllog_mount_refused(for_good) ==
    /\ up = "early" /\ job.pc = "idle" /\ spent.faults < plan.faults
    /\ LET r == Critical(Critical(Ring)) IN
       /\ ram' = r.ram /\ seq' = r.seq
       /\ lost' = [lost EXCEPT !.dropped = r.dropped]
       /\ spent' = [spent EXCEPT !.made = r.made, !.faults = @ + 1]
    /\ up' = IF for_good THEN "refused" ELSE "early"
    /\ UNCHANGED <<laneVars, media, pending, super, slot, job, kept>>

\* zllog_flush from the idle loop, zllog_complete from the end of the kernel.
FlushCall(completing) ==
    /\ up = "mounted" /\ job.pc = "idle"
    /\ job' = [NoJob EXCEPT !.pc = "drain", !.completing = completing]
    /\ DrainStart
    /\ UNCHANGED <<media, pending, ram, seq, up, super, slot, lost, kept, spent>>

\* drain_irq_records: each record has a severity of its own.
Drain ==
    /\ drain.pc # "idle"
    /\ \/ /\ DrainTake
          /\ \E limit \in {RamRecords, RamNormal} : SetRing(Record(Ring, limit))
       \/ (DrainClear \/ DrainAdvance) /\ UNCHANGED <<ram, seq, lost, spent>>
    /\ UNCHANGED <<media, pending, up, super, slot, job, kept>>

\* Records refused since the last report are reported, and the flush begins.
FlushDrained ==
    /\ job.pc = "drain" /\ DrainEnd
    /\ LET r == IF lost.dropped # lost.reported THEN Critical(Ring) ELSE Ring IN
       /\ ram' = r.ram /\ seq' = r.seq
       /\ spent' = [spent EXCEPT !.made = r.made]
       /\ lost' = [dropped |-> r.dropped, reported |-> lost.dropped]
       /\ IF slot.active THEN WriteOut(r.ram, slot.count) /\ UNCHANGED <<slot, kept>>
          ELSE StartSlot("data")
    /\ UNCHANGED <<media, pending, up, super>>
-----------------------------------------------------------------------------
\* The step at pc writes its blocks and flushes them, or fails.
At(pc) == job.pc = pc /\ UNCHANGED <<laneVars, up>>

SlotStarted ==
    /\ At("start") /\ Stored
    /\ job' = [job EXCEPT !.pc = "enter"]
    /\ UNCHANGED <<ram, seq, super, slot, lost, kept, spent>>

SlotEntered ==
    /\ At("enter") /\ Stored
    /\ super' = FromCopy(NextSuper(slot.index), 1 - super.copy)
    /\ slot' = [slot EXCEPT !.active = TRUE]
    /\ IF job.then = "data" THEN WriteOut(ram, slot.count) ELSE Return(TRUE)
    /\ UNCHANGED <<ram, seq, lost, kept, spent>>

\* Mutant of DataStored: the records are forgotten before they are counted.
ForgetsEarly ==
    /\ At("data") /\ Stored
    /\ slot' = [slot EXCEPT !.count = @ + job.n, !.last = ram[job.n].seq]
    /\ job' = [job EXCEPT !.pc = "check", !.n = 0]
    /\ ram' = SubSeq(ram, job.n + 1, Len(ram))
    /\ kept' = kept \cup {[id |-> ram[k].id, slot |-> slot.index] : k \in 1..job.n}
    /\ UNCHANGED <<seq, super, lost, spent>>

\* A retry that the end of the slot cuts short sets the last number back.
DataStored ==
    /\ At("data") /\ Stored
    /\ slot' = [slot EXCEPT !.count = @ + job.n,
                             !.last = IF job.n = 0 THEN @ ELSE ram[job.n].seq]
    /\ spent' = [spent EXCEPT !.back = @ \/ slot'.last < slot.last]
    /\ job' = [job EXCEPT !.pc = "check"]
    /\ UNCHANGED <<ram, seq, super, lost, kept>>

\* The header counts the records: they are forgotten.
Checkpointed ==
    /\ At("check") /\ Stored
    /\ ram' = SubSeq(ram, job.n + 1, Len(ram))
    /\ kept' = kept \cup {[id |-> ram[k].id, slot |-> slot.index] : k \in 1..job.n}
    /\ super' = [super EXCEPT !.next = seq]
    /\ IF ram' # <<>> /\ SlotFull(slot.count)
       THEN job' = [job EXCEPT !.pc = "seal", !.then = "end"]
       ELSE Return(TRUE)
    /\ UNCHANGED <<seq, slot, lost, spent>>

\* rotate_full_slot: seal the slot, leave it, start the next.
SlotSealed ==
    /\ At("seal") /\ Stored
    /\ job' = [job EXCEPT !.pc = "leave"]
    /\ UNCHANGED <<ram, seq, super, slot, lost, kept, spent>>

SlotLeft ==
    /\ At("leave") /\ Stored
    /\ super' = FromCopy(NextSuper(None), 1 - super.copy)
    /\ slot' = [slot EXCEPT !.active = FALSE]
    /\ job' = [job EXCEPT !.pc = "restart"]
    /\ SetRing(Normal(Ring))
    /\ UNCHANGED kept

SlotRestarted ==
    /\ At("restart")
    /\ StartSlot(job.then)
    /\ UNCHANGED <<media, pending, ram, seq, super, lost, spent>>

\* Mutant of StepFails: what cannot be written is given up.
GivesUp ==
    /\ job.pc \in {"data", "check"} /\ spent.faults < plan.faults /\ HalfStored
    /\ ram' = SubSeq(ram, job.n + 1, Len(ram))
    /\ kept' = kept \cup {[id |-> ram[k].id, slot |-> slot.index] : k \in 1..job.n}
    /\ spent' = [spent EXCEPT !.faults = @ + 1]
    /\ Return(FALSE)
    /\ UNCHANGED <<laneVars, up, seq, super, slot, lost>>

\* What was set in memory before the write stays set: the superblock of a
\* publication that failed, the count of a checkpoint that failed.
StepFails ==
    /\ job.pc \in {"start", "enter", "data", "check", "seal", "leave"}
    /\ spent.faults < plan.faults /\ HalfStored
    /\ spent' = [spent EXCEPT !.faults = @ + 1]
    /\ super' = CASE job.pc = "enter" -> FromCopy(NextSuper(slot.index), super.copy)
                  [] job.pc = "leave" -> FromCopy(NextSuper(None), super.copy)
                  [] OTHER -> super
    /\ Return(FALSE)
    /\ UNCHANGED <<laneVars, up, ram, seq, slot, lost, kept>>

\* The lane is drained again before zllog_flush returns.
Returning ==
    /\ job.pc = "return" /\ DrainStart
    /\ job' = [job EXCEPT !.pc = "tail"]
    /\ UNCHANGED <<media, pending, ram, seq, up, super, slot, lost, kept, spent>>

Returned ==
    /\ job.pc = "tail" /\ DrainEnd
    /\ SetRing(IF job.ok THEN Ring ELSE Critical(Ring))
    /\ job' = IF job.completing /\ job.ok
              THEN [job EXCEPT !.pc = IF ram # <<>> THEN "again" ELSE "final"]
              ELSE NoJob
    /\ up' = IF job.completing /\ ~job.ok THEN "halted" ELSE up
    /\ UNCHANGED <<media, pending, super, slot, kept>>

\* zllog_complete flushes until the ring is empty, then closes the slot.
FlushAgain ==
    /\ job.pc = "again" /\ DrainStart
    /\ job' = [job EXCEPT !.pc = "drain"]
    /\ UNCHANGED <<media, pending, ram, seq, up, super, slot, lost, kept, spent>>

Finalized ==
    /\ At("final") /\ Stored
    /\ job' = [job EXCEPT !.pc = "close"]
    /\ UNCHANGED <<ram, seq, super, slot, lost, kept, spent>>

\* The kernel halts after zllog_complete, whatever it answered.
Completed ==
    /\ job.pc = "close" /\ Stored
    /\ super' = FromCopy(NextSuper(None), 1 - super.copy)
    /\ slot' = [slot EXCEPT !.active = FALSE]
    /\ up' = "halted" /\ job' = NoJob
    /\ UNCHANGED <<laneVars, ram, seq, lost, kept, spent>>

CompleteFails ==
    /\ job.pc \in {"final", "close"} /\ spent.faults < plan.faults /\ HalfStored
    /\ spent' = [spent EXCEPT !.faults = @ + 1]
    /\ super' = IF job.pc = "close" THEN FromCopy(NextSuper(None), super.copy) ELSE super
    /\ up' = "halted" /\ job' = NoJob
    /\ UNCHANGED <<laneVars, ram, seq, slot, lost, kept>>

\* Power is lost, perhaps in the middle of a write, and comes back.
PowerCut ==
    /\ spent.cuts < plan.cuts
    /\ media' \in CrashMedia /\ pending' = << >>
    /\ LaneReset
    /\ ram' = <<>> /\ seq' = 1 /\ up' = "early"
    /\ super' = FromCopy(BlankSuper(0), 0) /\ slot' = NoSlot /\ job' = NoJob
    /\ lost' = [dropped |-> 0, reported |-> 0]
    /\ spent' = [spent EXCEPT !.cuts = @ + 1]
    /\ UNCHANGED kept
-----------------------------------------------------------------------------
\* tools/zllog.py has made the partition: copy A is generation 1, B is 0.
Init ==
    /\ LaneInit
    /\ media = [a \in Addr |-> CASE a[1] = "super" -> BlankSuper(1 - a[2])
                                 [] a[1] = "head" -> BlankHead
                                 [] OTHER -> BlankRec]
    /\ pending = << >>
    /\ ram = <<>> /\ seq = 1 /\ up = "early"
    /\ super = FromCopy(BlankSuper(0), 0) /\ slot = NoSlot /\ job = NoJob
    /\ lost = [dropped |-> 0, reported |-> 0]
    /\ kept = {} /\ spent = [made |-> 0, events |-> 0, faults |-> 0, cuts |-> 0, back |-> FALSE]
    /\ plan \in Plans

FlushStep ==
    \/ Drain \/ FlushDrained
    \/ SlotStarted \/ SlotEntered \/ DataStored \/ Checkpointed
    \/ SlotSealed \/ SlotLeft \/ SlotRestarted \/ StepFails
    \/ Returning \/ Returned \/ FlushAgain
    \/ Finalized \/ Completed \/ CompleteFails

Step ==
    \/ \E limit \in {RamRecords, RamNormal, RamSampled} : Event(limit)
    \/ \E i \in Isr : Interrupt(i)
    \/ \E valid \in {{0, 1}, {0}, {1}}, header \in BOOLEAN : zllog_mount(valid, header)
    \/ \E for_good \in BOOLEAN : zllog_mount_refused(for_good)
    \/ \E completing \in BOOLEAN : FlushCall(completing)
    \/ FlushStep
    \/ PowerCut
Next == Step /\ UNCHANGED plan
Spec == Init /\ [][Next]_vars

\* The idle loop calls zllog_flush_if_due, and a call that was made goes on.
FlushingSpec == Spec /\ WF_vars(FlushCall(FALSE) /\ UNCHANGED plan)
                     /\ WF_vars(FlushStep /\ UNCHANGED plan)
-----------------------------------------------------------------------------
TypeOK ==
    /\ LaneTypeOK
    /\ DOMAIN media = Addr /\ DOMAIN pending \subseteq Addr
    /\ Len(ram) <= RamRecords
    /\ up \in {"early", "mounted", "refused", "halted"}
    /\ super.active \in Slot \cup {None} /\ super.copy \in {0, 1}
    /\ slot.index \in Slot /\ slot.count \in 0..Capacity
    /\ job.n \in 0..Chunk
    /\ lost.reported <= lost.dropped

\* The records a reader of the partition m finds in slot s.
Named(m, s) == {m[Rec(s, p)] : p \in 0..m[Hdr(s)].count - 1}

(***************************************************************************)
(* zllog.c:1145. Whatever fails, and whenever the power goes, a record     *)
(* that was forgotten is found in the slot it was written to, until that   *)
(* slot is started again.                                                  *)
(***************************************************************************)
ForgottenIsKept ==
    \A m \in CrashMedia, k \in kept : \E r \in Named(m, k.slot) : r.id = k.id

(***************************************************************************)
(* zllog.c:1067. A slot that is used again never shows what it held        *)
(* before: every record its header counts was made by the boot that wrote  *)
(* the header.                                                             *)
(***************************************************************************)
CheckpointIsTrue ==
    \A m \in CrashMedia, s \in Slot : \A r \in Named(m, s) :
        r.id # 0 /\ r.boot = m[Hdr(s)].boot

\* A reader finds q in an earlier boot's records and r in a later one's, and r
\* has no higher number.
NumberUsedAgain(m) ==
    \E s, t \in Slot : \E q \in Named(m, s), r \in Named(m, t) :
        q.boot < r.boot /\ r.seq <= q.seq

(***************************************************************************)
(* zllog.c:928: numbers stay monotonic over power cuts. Every record found *)
(* of a later boot has a higher number than every one of an earlier boot,  *)
(* but for three ways in which the code takes the numbers back:            *)
(*  - a checkpoint that failed is tried again with fewer records at the    *)
(*    end of a slot, whose last number is then not its highest (:1180);    *)
(*  - a mount cannot read the header of the slot left writing, and goes on *)
(*    from the superblock's number (:932);                                 *)
(*  - a mount cannot read the newer superblock, and goes on from the older *)
(*    one's number (:918).                                                 *)
(* A failed read that costs no number is not excepted.                     *)
(***************************************************************************)
BootsInOrder == ~spent.back => \A m \in CrashMedia : ~NumberUsedAgain(m)

(***************************************************************************)
(* A mounted log gets rid of its records, rotation and failures included,  *)
(* once the device has stopped failing.                                    *)
(***************************************************************************)
EvidenceSettles == up = "mounted" ~> (ram = <<>> \/ up # "mounted")
-----------------------------------------------------------------------------
(***************************************************************************)
(* zllog.c:928 wants numbers monotonic, failed checkpoints and failed      *)
(* reads or not.                                                           *)
(***************************************************************************)
NumbersMonotonic == \A m \in CrashMedia : ~NumberUsedAgain(m)

(***************************************************************************)
(* zllog.c:1146: "A failed write retries from the old header boundary",    *)
(* and tests/host/zllog_e2e_test.py:188 wants the numbers of a slot to be  *)
(* a range. So no record is found twice.                                   *)
(***************************************************************************)
NamedOnce ==
    \A s, t \in Slot : \A p \in 0..media[Hdr(s)].count - 1, q \in 0..media[Hdr(t)].count - 1 :
        <<s, p>> # <<t, q>> => media[Rec(s, p)].id # media[Rec(t, q)].id
=============================================================================
