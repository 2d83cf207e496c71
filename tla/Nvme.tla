-------------------------------- MODULE Nvme --------------------------------
(***************************************************************************)
(* The NVMe driver, drivers/storage/nvme.c, and the controller it drives.  *)
(* Two queue pairs, admin and I/O; one command at a time, waited for by    *)
(* polling and given up after three seconds although the controller still  *)
(* holds it; one bounce page all data moves through; a bring-up that may   *)
(* fail at every step and be asked for again.  The controller, external,   *)
(* fetches in order, carries out in any order and answers at any time      *)
(* later in the next entry of the completion ring.                         *)
(***************************************************************************)
EXTENDS Naturals, Sequences, FiniteSets

CONSTANTS
    Lba, Val, None,
    Depth,       \* QDEPTH, the entries of a ring
    CidMod,      \* command identifiers wrap here (65536 in the code)
    MaxGivenUp,  \* bound: I/O commands given up that the controller still holds
    LateData     \* may the controller move the block of a command given up?

ASSUME DepthAssumption ==
    MaxGivenUp \in Nat /\ Depth \in Nat /\ MaxGivenUp + 1 < Depth

IoCall == [op : {"read", "write"}, lba : Lba, val : Val \cup {None}, moved : BOOLEAN]
ASSUME NoneAssumption == None \notin IoCall

VARIABLES
    ready,      \* nv_ready
    setupDone,  \* nv_setup_done
    stage,      \* nvme_setup is at its stage-th admin command; 0: not running
    want,       \* the identifier cq_wait waits for, None when nothing is asked
    nextCid,    \* next_cid
    drv,        \* per queue: tail, head, phase (asq_tail, acq_head, ... iocq_phase)
    sq, cq,     \* the rings in memory
    bounce,     \* the page at NMEM_DATA
    call,       \* the read or write under way, None between calls
    reply,      \* what the last one answered
    power,      \* the controller: "off", "on", or told to stop and still "stopping"
    queues,     \* the queues it has
    ctl,        \* per queue: next to fetch, next to post, phase to post with
    inFlight,   \* the commands it has fetched and not answered
    disk

driverVars == <<ready, setupDone, stage, want, nextCid, drv>>
ringVars == <<sq, cq>>
callVars == <<call, reply>>
controllerVars == <<power, queues, ctl, inFlight, disk>>
vars == <<driverVars, ringVars, bounce, callVars, controllerVars>>

Admin == 0
Io == 1
Queue == {Admin, Io}
Slot == 0 .. Depth - 1
Cid == 0 .. CidMod - 1
ASSUME CidAssumption == CidMod \in Nat \ {0, 1} /\ None \notin Cid
Succ(i) == (i + 1) % Depth

\* The commands of nvme_setup after the controller is enabled, in order.
Setup == <<"identify_controller", "identify_namespace", "create_cq", "create_sq">>

BlankSq == [i \in Slot |-> None]
BlankEntry == [cid |-> None, phase |-> 0, ok |-> FALSE]
BlankCq == [i \in Slot |-> BlankEntry]
DriverStart == [tail |-> 0, head |-> 0, phase |-> 1]
ControllerStart == [fetch |-> 0, post |-> 0, phase |-> 1]
No == [ok |-> FALSE, val |-> None]

Idle == stage = 0 /\ call = None
Waiting == want # None
Waited == IF stage > 0 THEN Admin ELSE Io   \* the queue cq_wait polls

\* The slots from a up to, not including, b.
Span(a, b) == {i \in Slot : IF a <= b THEN a <= i /\ i < b ELSE a <= i \/ i < b}

\* Identifiers the controller, or an entry nobody has read, still carries.
Held(q) ==
    {c.cid : c \in {d \in inFlight : d.q = q}}
    \cup {sq[q][i].cid : i \in Span(ctl[q].fetch, drv[q].tail)}
    \cup {cq[q][i].cid : i \in Span(drv[q].head, ctl[q].post)}

TypeOK ==
    /\ ready \in BOOLEAN /\ setupDone \in BOOLEAN
    /\ stage \in 0 .. Len(Setup)
    /\ want \in Cid \cup {None} /\ nextCid \in Cid
    /\ drv \in [Queue -> [tail : Slot, head : Slot, phase : {0, 1}]]
    /\ ctl \in [Queue -> [fetch : Slot, post : Slot, phase : {0, 1}]]
    /\ power \in {"off", "on", "stopping"} /\ queues \subseteq {"admin", "cq", "sq"}
    /\ bounce \in Val /\ disk \in [Lba -> Val] /\ call \in IoCall \cup {None}

\* The firmware may have booted from the controller and left it running.
Init ==
    /\ ready = FALSE /\ setupDone = FALSE /\ stage = 0 /\ want = None
    /\ nextCid = 1
    /\ drv = [q \in Queue |-> DriverStart]
    /\ sq = [q \in Queue |-> BlankSq] /\ cq = [q \in Queue |-> BlankCq]
    /\ bounce \in Val
    /\ call = None /\ reply = No
    /\ power \in {"off", "on"} /\ queues = {} /\ inFlight = {}
    /\ ctl = [q \in Queue |-> ControllerStart]
    /\ disk \in [Lba -> Val]
-----------------------------------------------------------------------------
\* next_cid++.  With 65536 identifiers none is still held when its turn comes
\* again; bound: of the few here, one that is held is passed over.
NewCid(q) ==
    LET turn(k) == (nextCid + k) % CidMod
        k == CHOOSE j \in 0 .. CidMod - 1 :
                 /\ turn(j) \notin Held(q)
                 /\ \A i \in 0 .. j - 1 : turn(i) \in Held(q)
    IN  turn(k)

\* Bound: one of them is free.
Numbered(q) ==
    /\ Cid \ Held(q) # {}
    /\ want' = NewCid(q) /\ nextCid' = (NewCid(q) + 1) % CidMod

\* admin_cmd and io_one up to the doorbell, which is the driver's own tail.
Submit(q, op, lba) ==
    /\ Numbered(q)
    /\ sq' = [sq EXCEPT ![q][drv[q].tail] = [cid |-> NewCid(q), op |-> op, lba |-> lba]]
    /\ drv' = [drv EXCEPT ![q].tail = Succ(drv[q].tail)]

\* The controller stops: it has no queues and drops what it holds.
SwitchedOff == power' = "off" /\ queues' = {} /\ inFlight' = {}

\* CC_EN is cleared and two seconds pass: the controller has stopped, or is
\* still stopping and does what it likes with what it holds.
ToldToStop ==
    \/ SwitchedOff
    \/ power' = "stopping" /\ UNCHANGED <<queues, inFlight>>

\* CC_EN is set: a controller that was stopped, and, assumed, one that was
\* still stopping, starts from nothing but the admin queue.
Enabled == power' = "on" /\ queues' = {"admin"} /\ inFlight' = {}

\* nvme_init takes the admin rings back to their start before it enables.
FreshAdmin ==
    /\ drv' = [drv EXCEPT ![Admin] = DriverStart]
    /\ sq' = [sq EXCEPT ![Admin] = BlankSq]
    /\ cq' = [cq EXCEPT ![Admin] = BlankCq]
    /\ ctl' = [ctl EXCEPT ![Admin] = ControllerStart]

\* nvme_setup, nvme_init: a running controller goes down in time, and it comes
\* ready.  One already told to stop is not waited for.
BringUp ==
    /\ Idle /\ ~setupDone
    /\ FreshAdmin /\ Enabled
    /\ ready' = TRUE /\ stage' = 1
    /\ UNCHANGED <<setupDone, want, nextCid, bounce, callVars, disk>>

\* It does not go down in time, or does not come up in time and may later.
BringUpFails ==
    /\ Idle /\ ~setupDone
    /\ \/ /\ power = "on" /\ power' = "stopping"
          /\ UNCHANGED <<drv, ringVars, queues, ctl, inFlight>>
       \/ FreshAdmin /\ Enabled
    /\ UNCHANGED <<ready, setupDone, stage, want, nextCid, bounce, callVars, disk>>

\* nvme_create_io_queues blanks both I/O rings before its first command.
FreshIo ==
    /\ drv' = [drv EXCEPT ![Io] = DriverStart,
                          ![Admin].tail = Succ(drv[Admin].tail)]
    /\ cq' = [cq EXCEPT ![Io] = BlankCq]
    /\ sq' = [sq EXCEPT ![Io] = BlankSq,
                        ![Admin][drv[Admin].tail] =
                            [cid |-> NewCid(Admin), op |-> Setup[stage], lba |-> None]]

\* The next command of the bring-up.
SetupSubmit ==
    /\ stage > 0 /\ ~Waiting
    /\ IF Setup[stage] = "create_cq"
       THEN FreshIo /\ Numbered(Admin)
       ELSE Submit(Admin, Setup[stage], None) /\ UNCHANGED cq
    /\ UNCHANGED <<ready, setupDone, stage, bounce, callVars, controllerVars>>

\* Mutant: the flag outlives the controller it was about.
AbandonKeepsReady ==
    /\ setupDone' = FALSE /\ stage' = 0
    /\ ToldToStop
    /\ UNCHANGED ready

\* nvme_abandon_partial_setup: it goes on whether the controller stopped or not.
Abandon ==
    /\ ready' = FALSE /\ setupDone' = FALSE /\ stage' = 0
    /\ ToldToStop

\* nvme_setup goes on with the next command, ends, or undoes what it has done.
SetupAnswered(ok) ==
    IF ok THEN
        /\ stage' = IF stage = Len(Setup) THEN 0 ELSE stage + 1
        /\ setupDone' = (stage = Len(Setup))
        /\ UNCHANGED <<ready, power, queues, inFlight>>
    ELSE Abandon

\* nvme_identify_namespace may refuse the geometry a good answer describes.
MayRefuse == Setup[stage] = "identify_namespace"

\* nvme_read_to and nvme_write_from before a successful bring-up.
NotReady ==
    /\ Idle /\ ~ready
    /\ reply' = No
    /\ UNCHANGED <<driverVars, ringVars, bounce, call, controllerVars>>

\* nvme_write_from fills the bounce page first; nvme_read_to does not.
StartWrite(lba, val) ==
    /\ Idle /\ ready
    /\ bounce' = val
    /\ call' = [op |-> "write", lba |-> lba, val |-> val, moved |-> FALSE]
    /\ Submit(Io, "write", lba)
    /\ UNCHANGED <<ready, setupDone, stage, cq, reply, controllerVars>>

StartRead(lba) ==
    /\ Idle /\ ready
    /\ call' = [op |-> "read", lba |-> lba, val |-> None, moved |-> FALSE]
    /\ Submit(Io, "read", lba)
    /\ UNCHANGED <<ready, setupDone, stage, cq, bounce, reply, controllerVars>>

\* The call returns; a read that succeeded copies the bounce page out.
IoAnswered(ok) ==
    /\ reply' = [ok |-> ok,
                 val |-> IF ok /\ call.op = "read" THEN bounce ELSE None]
    /\ call' = None

\* cq_wait: the entry at the head carries the phase the driver expects.
Arrived(q) == cq[q][drv[q].head].phase = drv[q].phase

\* Mutant: any answer will do.
AnyAnswer(e) == e.phase \in {0, 1}

\* The identifier decides whose answer an entry is.
IsOwn(e) == e.cid = want

\* Mutant: the phase stays when the head wraps.
PhaseForgotten(q) ==
    /\ drv' = [drv EXCEPT ![q].head = Succ(drv[q].head)]
    /\ cq' = [cq EXCEPT ![q][drv[q].head] = [BlankEntry EXCEPT !.phase = drv[q].phase]]

\* The head moves on, and the phase with it at the end of the ring.  Of an
\* entry behind the head only the phase is ever looked at: the rest is dropped.
Taken(q) ==
    /\ drv' = [drv EXCEPT ![q].head = Succ(drv[q].head),
                          ![q].phase = IF Succ(drv[q].head) = 0 THEN 1 - @ ELSE @]
    /\ cq' = [cq EXCEPT ![q][drv[q].head] = [BlankEntry EXCEPT !.phase = drv[q].phase]]

\* An answer to a command given up earlier is stepped over.
SkipAnswer ==
    LET q == Waited IN
    /\ Waiting /\ Arrived(q)
    /\ ~IsOwn(cq[q][drv[q].head])
    /\ Taken(q)
    /\ UNCHANGED <<ready, setupDone, stage, want, nextCid, sq, bounce, callVars,
                   controllerVars>>

TakeAnswer ==
    LET q == Waited
        e == cq[q][drv[q].head]
    IN
    /\ Waiting /\ Arrived(q)
    /\ IsOwn(e)
    /\ Taken(q)
    /\ want' = None
    /\ IF q = Admin
       THEN /\ \E refused \in {FALSE, MayRefuse} : SetupAnswered(e.ok /\ ~refused)
            /\ UNCHANGED callVars
       ELSE /\ IoAnswered(e.ok)
            /\ UNCHANGED <<ready, setupDone, stage, power, queues, inFlight>>
    /\ UNCHANGED <<nextCid, sq, bounce, ctl, disk>>

\* cq_wait gives up after three seconds.
GiveUp ==
    /\ Waiting
    /\ want' = None
    /\ IF Waited = Admin
       THEN SetupAnswered(FALSE) /\ UNCHANGED callVars
       ELSE /\ Cardinality(Held(Io)) <= MaxGivenUp
            /\ IoAnswered(FALSE)
            /\ UNCHANGED <<ready, setupDone, stage, power, queues, inFlight>>
    /\ UNCHANGED <<nextCid, drv, ringVars, bounce, ctl, disk>>
-----------------------------------------------------------------------------
(* The controller, which works on while it is stopping.                    *)

Has(q) == IF q = Admin THEN "admin" \in queues ELSE "sq" \in queues

\* It has stopped at last.
Stops ==
    /\ power = "stopping"
    /\ SwitchedOff
    /\ UNCHANGED <<driverVars, ringVars, bounce, callVars, ctl, disk>>

\* A fetched entry is never looked at again, by either side: dropped.
Fetch(q) ==
    /\ Has(q) /\ ctl[q].fetch # drv[q].tail
    /\ inFlight' = inFlight \cup
          {[q |-> q, cid |-> sq[q][ctl[q].fetch].cid, op |-> sq[q][ctl[q].fetch].op,
            lba |-> sq[q][ctl[q].fetch].lba, done |-> FALSE]}
    /\ ctl' = [ctl EXCEPT ![q].fetch = Succ(@)]
    /\ sq' = [sq EXCEPT ![q][ctl[q].fetch] = None]
    /\ UNCHANGED <<driverVars, cq, bounce, callVars, power, queues, disk>>

Done(c) == inFlight' = (inFlight \ {c}) \cup {[c EXCEPT !.done = TRUE]}

\* Creating a queue that exists, or one before its completion queue, fails.
CreateQueue(c) ==
    /\ \/ c.op = "create_cq" /\ "cq" \notin queues /\ queues' = queues \cup {"cq"}
       \/ /\ c.op = "create_sq" /\ "cq" \in queues /\ "sq" \notin queues
          /\ queues' = queues \cup {"sq"}
    /\ ctl' = [ctl EXCEPT ![Io] = ControllerStart]
    /\ UNCHANGED <<bounce, call, disk>>

Identify(c) ==
    /\ c.op \in {"identify_controller", "identify_namespace"}
    /\ UNCHANGED <<queues, ctl, bounce, call, disk>>

\* The block moves between the bounce page and the disk.
MoveBlock(c) ==
    /\ c.op \in {"read", "write"}
    /\ c.cid = want \/ LateData
    /\ IF c.op = "read"
       THEN bounce' = disk[c.lba] /\ UNCHANGED disk
       ELSE disk' = [disk EXCEPT ![c.lba] = bounce] /\ UNCHANGED bounce
    /\ call' = IF c.cid = want THEN [call EXCEPT !.moved = TRUE] ELSE call
    /\ UNCHANGED <<queues, ctl>>

CarryOut(c) ==
    /\ ~c.done
    /\ Done(c)
    /\ CreateQueue(c) \/ Identify(c) \/ MoveBlock(c)
    /\ UNCHANGED <<driverVars, ringVars, reply, power>>

\* Success is answered for what was carried out, failure at any time; there
\* must be room in the ring.
Answer(c, ok) ==
    LET q == c.q IN
    /\ ok => c.done
    /\ Succ(ctl[q].post) # drv[q].head
    /\ inFlight' = inFlight \ {c}
    /\ cq' = [cq EXCEPT ![q][ctl[q].post] =
                 [cid |-> c.cid, phase |-> ctl[q].phase, ok |-> ok]]
    /\ ctl' = [ctl EXCEPT ![q].post = Succ(@),
                          ![q].phase = IF Succ(ctl[q].post) = 0 THEN 1 - @ ELSE @]
    /\ UNCHANGED <<driverVars, sq, bounce, callVars, power, queues, disk>>
-----------------------------------------------------------------------------
Driver ==
    \/ BringUp \/ BringUpFails \/ SetupSubmit
    \/ NotReady
    \/ \E lba \in Lba : StartRead(lba)
    \/ \E lba \in Lba, val \in Val : StartWrite(lba, val)
    \/ SkipAnswer \/ TakeAnswer \/ GiveUp

Controller ==
    \/ Stops
    \/ \E q \in Queue : Fetch(q)
    \/ \E c \in inFlight : CarryOut(c)
    \/ \E c \in inFlight, ok \in BOOLEAN : Answer(c, ok)

Next == Driver \/ Controller

Spec == Init /\ [][Next]_vars
-----------------------------------------------------------------------------
\* Driver and controller count the same entries as new, whatever commands
\* were given up, whatever bring-ups failed and however often the rings have
\* wrapped: exactly the entries between the driver's head and the
\* controller's next post carry the phase the driver will look for there
\* (cq_wait's phase test against nvme_init's and create_io_queues' resets).
PhaseAt(q, i) == IF i >= drv[q].head THEN drv[q].phase ELSE 1 - drv[q].phase

InStep ==
    \A q \in Queue : Has(q) =>
        \A i \in Slot :
            cq[q][i].phase = PhaseAt(q, i) <=> i \in Span(drv[q].head, ctl[q].post)

\* Between calls the driver says it is ready exactly when its bring-up went to
\* the end; then the controller has all three queues, and otherwise, whatever
\* bring-up failed and however late the controller stops, no read or write is
\* with it (nvme_ready() is what fs.c and block.c ask).
ReadyIsWhole ==
    stage = 0 => /\ ready = setupDone
                 /\ ready => power = "on" /\ queues = {"admin", "cq", "sq"}
                 /\ ~ready => \A c \in inFlight : c.q = Admin

\* The queue registers are only touched while the controller is down
\* (nvme.c:305).  Not so: after an abandoned bring-up CC_EN is clear, and the
\* next one does not wait.  In no run's list; README.md gives the steps.
TouchedWhenDown == [][BringUp => power # "stopping"]_vars

\* Calls to the driver are calls to a disk that does one thing at a time: yes
\* means this call's block moved, and a read brings what the disk holds.
Device == INSTANCE BlockDevice
ImplementsBlockDevice == Device!Spec
=============================================================================
