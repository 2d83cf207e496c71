------------------------------ MODULE NvmeProofs ------------------------------
(***************************************************************************)
(* Driver and controller agree which completion entries are new, for rings *)
(* of any size and any number of commands given up.                        *)
(***************************************************************************)
EXTENDS Nvme, WellFoundedInduction, TLAPS

Bit == {0, 1}

\* What the argument needs to know of the rings and of the commands in the controller.
RingsTyped ==
    /\ stage \in 0 .. 4
    /\ drv \in [Queue -> [tail : Slot, head : Slot, phase : Bit]]
    /\ ctl \in [Queue -> [fetch : Slot, post : Slot, phase : Bit]]
    /\ DOMAIN sq = Queue /\ DOMAIN cq = Queue
    /\ \A q \in Queue : /\ DOMAIN sq[q] = Slot /\ DOMAIN cq[q] = Slot
                        /\ \A i \in Slot : DOMAIN cq[q][i] = {"cid", "phase", "ok"}

Served ==
    /\ \A c \in inFlight : /\ DOMAIN c = {"q", "cid", "op", "lba", "done"}
                           /\ c.q \in Queue /\ Has(c.q)
    /\ "sq" \in queues => "cq" \in queues
    /\ stage > 0 => "admin" \in queues

\* What the flags say, and that the driver waits only in a bring-up or a call.
Told ==
    /\ stage = 0 => ready = setupDone
    /\ stage > 0 => ready
    /\ ready => power = "on"
    /\ want # None => ready
    /\ want # None /\ stage = 0 => call \in IoCall

\* Rings that nobody has used: the driver looks for a one and finds noughts.
Unused(q) ==
    /\ drv[q].head = 0 /\ drv[q].phase = 1
    /\ \A i \in Slot : cq[q][i].phase = 0

\* The controller posts with the phase that the driver will look for there.
PostsRight(q) == ctl[q].phase = PhaseAt(q, ctl[q].post)
NewOnes(q) == \A i \in Slot : cq[q][i].phase = PhaseAt(q, i) <=> i \in Span(drv[q].head, ctl[q].post)
Agree(q) == PostsRight(q) /\ NewOnes(q)

\* A command to create the submission queue that the controller holds or will fetch.
Pending ==
    \/ \E c \in inFlight : c.q = Admin /\ c.op = "create_sq" /\ ~c.done
    \/ /\ "admin" \in queues
       /\ \E i \in Span(ctl[Admin].fetch, drv[Admin].tail) : sq[Admin][i].op = "create_sq"

\* Where the I/O rings are used, or will be when the queue is there, nobody has used them.
Clean == "sq" \in queues \/ Unused(Io)
Prepared ==
    ~Clean => /\ ~Pending
              /\ stage \in 0 .. 3 /\ (stage = 3 => want = None)
              /\ stage = 0 => ~ready /\ want = None
Early == stage \in 1 .. 3 => "sq" \notin queues /\ ~Pending

IInv == RingsTyped /\ Served /\ Told /\ Prepared /\ Early /\ \A q \in Queue : Has(q) => Agree(q)
-----------------------------------------------------------------------------
LEMMA DepthIs == Depth \in Nat \ {0, 1} /\ 0 \in Slot
BY DepthAssumption DEF Slot

LEMMA SuccIs == ASSUME NEW i \in Slot
                PROVE  Succ(i) = (IF i + 1 = Depth THEN 0 ELSE i + 1) /\ Succ(i) \in Slot
<1>1. CASE i + 1 = Depth
    BY <1>1, DepthIs DEF Succ, Slot
<1>2. CASE i + 1 # Depth
    <2>1. i + 1 \in 0 .. Depth - 1
        BY <1>2, DepthIs DEF Slot
    <2> QED BY <1>2, <2>1, DepthIs DEF Succ, Slot
<1> QED BY <1>1, <1>2

LEMMA SpanGrows == ASSUME NEW a \in Slot, NEW b \in Slot
                   PROVE  Span(a, Succ(b)) \subseteq Span(a, b) \cup {b}
BY SuccIs, DepthIs DEF Span, Slot

LEMMA SpanShrinks == ASSUME NEW a \in Slot, NEW b \in Slot, a # b
                     PROVE  Span(Succ(a), b) \subseteq Span(a, b)
BY SuccIs, DepthIs DEF Span, Slot

\* nvme.c:270: the driver takes the entry at its head.
LEMMA TakenAgrees ==
    ASSUME RingsTyped, NEW q \in Queue, Agree(q), Arrived(q), Taken(q), ctl'[q] = ctl[q]
    PROVE  Agree(q)'
<1> DEFINE h == drv[q].head
           p == drv[q].phase
           b == ctl[q].post
<1>1. h \in Slot /\ p \in Bit /\ b \in Slot
    BY DEF RingsTyped
<1>2. /\ drv'[q].head = Succ(h)
      /\ drv'[q].phase = IF Succ(h) = 0 THEN 1 - p ELSE p
      /\ cq'[q][h].phase = p
      /\ \A i \in Slot \ {h} : cq'[q][i] = cq[q][i]
    BY <1>1 DEF Taken, RingsTyped, BlankEntry
<1>3. Succ(h) = IF h + 1 = Depth THEN 0 ELSE h + 1
    BY <1>1, SuccIs
<1>4. h # b
    BY <1>1, DepthIs DEF Arrived, Agree, NewOnes, PhaseAt, Span, Slot
<1>5. PostsRight(q)'
    BY <1>1, <1>2, <1>3, <1>4, DepthIs DEF Agree, PostsRight, PhaseAt, Slot, Bit
<1>6. ASSUME NEW i \in Slot
      PROVE  cq'[q][i].phase = PhaseAt(q, i)' <=> i \in Span(Succ(h), b)
    <2>1. cq[q][i].phase = PhaseAt(q, i) <=> i \in Span(h, b)
        BY DEF Agree, NewOnes
    <2>2. CASE i = h
        BY <1>1, <1>2, <1>3, <1>4, <2>2, DepthIs DEF PhaseAt, Span, Slot, Bit
    <2>3. CASE i # h
        BY <1>1, <1>2, <1>3, <1>4, <2>1, <2>3, DepthIs DEF PhaseAt, Span, Slot, Bit
    <2> QED BY <2>2, <2>3
<1> QED BY <1>2, <1>5, <1>6 DEF Agree, NewOnes

\* The controller posts an entry where there is room.
LEMMA PostAgrees ==
    ASSUME RingsTyped, NEW c, NEW ok, c.q \in Queue, Agree(c.q), Answer(c, ok)
    PROVE  Agree(c.q)'
<1> DEFINE q == c.q
           h == drv[q].head
           p == drv[q].phase
           b == ctl[q].post
<1>1. h \in Slot /\ p \in Bit /\ b \in Slot /\ ctl[q].phase \in Bit
    BY DEF RingsTyped
<1>2. /\ ctl'[q].post = Succ(b)
      /\ ctl'[q].phase = IF Succ(b) = 0 THEN 1 - ctl[q].phase ELSE ctl[q].phase
      /\ cq'[q][b].phase = ctl[q].phase
      /\ \A i \in Slot \ {b} : cq'[q][i] = cq[q][i]
      /\ drv' = drv /\ Succ(b) # h
    BY <1>1 DEF Answer, RingsTyped, driverVars
<1>3. Succ(b) = IF b + 1 = Depth THEN 0 ELSE b + 1
    BY <1>1, SuccIs
<1>4. ctl[q].phase = IF b >= h THEN p ELSE 1 - p
    BY DEF Agree, PostsRight, PhaseAt
<1>5. PostsRight(q)'
    BY <1>1, <1>2, <1>3, <1>4, DepthIs DEF PostsRight, PhaseAt, Slot, Bit
<1>6. ASSUME NEW i \in Slot
      PROVE  cq'[q][i].phase = PhaseAt(q, i) <=> i \in Span(h, Succ(b))
    <2>1. cq[q][i].phase = PhaseAt(q, i) <=> i \in Span(h, b)
        BY DEF Agree, NewOnes
    <2>2. CASE i = b
        BY <1>1, <1>2, <1>3, <1>4, <2>2, DepthIs DEF PhaseAt, Span, Slot, Bit
    <2>3. CASE i # b
        BY <1>1, <1>2, <1>3, <2>1, <2>3, DepthIs DEF PhaseAt, Span, Slot, Bit
    <2> QED BY <2>2, <2>3
<1> QED BY <1>2, <1>5, <1>6 DEF Agree, NewOnes, PhaseAt

\* Who the command is for, and what the driver goes on with, come from the sequence of nvme_setup.
LEMMA SetupIs == /\ Len(Setup) = 4 /\ Setup[3] = "create_cq" /\ Setup[4] = "create_sq"
                 /\ \A k \in 1 .. 3 : Setup[k] # "create_sq"
                 /\ \A k \in 1 .. 4 : Setup[k] = "create_cq" => k = 3
BY DEF Setup

\* A new command in the admin ring creates the submission queue only if it is the fourth.
LEMMA SubmitPending ==
    ASSUME RingsTyped, NEW cid, NEW lba, stage \in 1 .. 4, UNCHANGED <<queues, inFlight>>,
           ctl'[Admin] = ctl[Admin], drv'[Admin].tail = Succ(drv[Admin].tail),
           sq'[Admin] = [sq[Admin] EXCEPT ![drv[Admin].tail] =
                            [cid |-> cid, op |-> Setup[stage], lba |-> lba]]
    PROVE  Pending' => Pending \/ stage = 4
<1> DEFINE f == ctl[Admin].fetch
           t == drv[Admin].tail
<1>1. f \in Slot /\ t \in Slot /\ DOMAIN sq[Admin] = Slot
    BY DEF RingsTyped, Queue
<1>2. Span(f, Succ(t)) \subseteq Span(f, t) \cup {t}
    BY <1>1, SpanGrows
<1>3. stage # 4 => Setup[stage] # "create_sq"
    BY SetupIs
<1> QED BY <1>1, <1>2, <1>3 DEF Pending

\* The driver submits to one ring and touches neither head, phase nor entries of the other side.
LEMMA SubmitTyped ==
    ASSUME RingsTyped, NEW q \in Queue, NEW op, NEW lba, Submit(q, op, lba)
    PROVE  /\ drv' \in [Queue -> [tail : Slot, head : Slot, phase : Bit]]
           /\ DOMAIN sq' = Queue /\ \A r \in Queue : DOMAIN sq'[r] = Slot
           /\ \A r \in Queue : drv'[r].head = drv[r].head /\ drv'[r].phase = drv[r].phase
<1>1. Succ(drv[q].tail) \in Slot
    BY SuccIs DEF RingsTyped
<1> QED BY <1>1 DEF Submit, RingsTyped

LEMMA SameRingsAgree ==
    ASSUME NEW q, drv'[q].head = drv[q].head, drv'[q].phase = drv[q].phase, cq'[q] = cq[q],
           ctl'[q].post = ctl[q].post, ctl'[q].phase = ctl[q].phase
    PROVE  Agree(q)' <=> Agree(q)
BY DEF Agree, PostsRight, NewOnes, PhaseAt

\* Fresh rings agree with a controller that has not posted yet.
LEMMA UnusedAgree ==
    ASSUME NEW q, Unused(q)', ctl'[q] = ControllerStart
    PROVE  Agree(q)'
<1>1. \A i \in Slot : i >= 0 /\ ~(i < 0)
    BY DepthIs DEF Slot
<1> QED BY <1>1, DepthIs DEF Agree, PostsRight, NewOnes, PhaseAt, Unused, ControllerStart, Span
-----------------------------------------------------------------------------
LEMMA FreshAdminHolds ==
    ASSUME IInv, BringUp \/ (BringUpFails /\ FreshAdmin /\ Enabled)
    PROVE  IInv'
<1>0. /\ FreshAdmin /\ queues' = {"admin"} /\ inFlight' = {} /\ want' = want /\ call' = call
      /\ power' = "on"
      /\ (stage' = 1 /\ ready') \/ (stage' = 0 /\ ready' = ready)
      /\ setupDone' = setupDone
      /\ ~setupDone /\ stage = 0 /\ want = None
    <2>1. Idle /\ ~setupDone /\ want = None
        BY NoneAssumption DEF BringUp, BringUpFails, Idle, IInv, Told
    <2>2. CASE BringUp
        BY <2>1, <2>2 DEF BringUp, Enabled, Idle, callVars
    <2>3. CASE BringUpFails /\ FreshAdmin /\ Enabled
        BY <2>1, <2>3 DEF BringUpFails, Enabled, Idle, callVars
    <2> QED BY <2>2, <2>3
<1>1. RingsTyped'
    <2>1. DriverStart \in [tail : Slot, head : Slot, phase : Bit]
        BY DepthIs DEF DriverStart, Bit
    <2>2. ControllerStart \in [fetch : Slot, post : Slot, phase : Bit]
        BY DepthIs DEF ControllerStart, Bit
    <2>3. DOMAIN BlankSq = Slot /\ DOMAIN BlankCq = Slot
          /\ \A i \in Slot : DOMAIN BlankCq[i] = {"cid", "phase", "ok"}
        BY DEF BlankSq, BlankCq, BlankEntry
    <2>4. drv' \in [Queue -> [tail : Slot, head : Slot, phase : Bit]]
          /\ ctl' \in [Queue -> [fetch : Slot, post : Slot, phase : Bit]]
        BY <1>0, <2>1, <2>2 DEF FreshAdmin, IInv, RingsTyped
    <2> QED BY <1>0, <2>3, <2>4 DEF FreshAdmin, IInv, RingsTyped
<1>2. /\ drv'[Admin] = DriverStart /\ ctl'[Admin] = ControllerStart /\ cq'[Admin] = BlankCq
      /\ drv'[Io] = drv[Io] /\ cq'[Io] = cq[Io]
    BY <1>0 DEF FreshAdmin, IInv, RingsTyped, Queue, Admin, Io
<1>3. Served' /\ Told'
    BY <1>0 DEF Served, Told, IInv
<1>4. Unused(Admin)'
    BY <1>2 DEF Unused, DriverStart, BlankCq, BlankEntry
<1>5. \A q \in Queue : Has(q)' => Agree(q)'
    BY <1>0, <1>2, <1>4, UnusedAgree DEF Has, Queue, Admin, Io
<1>6. Prepared' /\ Early'
    <2>1. ~Pending'
        BY <1>0, <1>2, DepthIs DEF Pending, ControllerStart, DriverStart, Span, Slot
    <2>2. stage' = 0 => ~ready'
        BY <1>0 DEF IInv, Told
    <2> QED BY <1>0, <2>1, <2>2 DEF Prepared, Early
<1> QED BY <1>1, <1>3, <1>5, <1>6 DEF IInv

\* The controller is gone, and nobody waits.
LEMMA OffHolds ==
    ASSUME IInv, RingsTyped', queues' = {}, inFlight' = {}, want' = None, stage' = 0,
           ready' = setupDone', ~ready'
    PROVE  IInv'
<1>1. Served' /\ Told' /\ Prepared' /\ Early'
    BY DEF Served, Told, Prepared, Early, Pending
<1>2. \A q \in Queue : ~Has(q)'
    BY DEF Has
<1> QED BY <1>1, <1>2 DEF IInv

\* The controller has been told to stop and still works, and nobody waits.
LEMMA StoppingHolds ==
    ASSUME IInv, RingsTyped', UNCHANGED <<queues, inFlight>>, want' = None, stage' = 0,
           ready' = setupDone', ~ready', Clean => Clean', Pending' = Pending,
           \A q \in Queue : Has(q)' => Agree(q)'
    PROVE  IInv'
<1>1. Served' /\ Told' /\ Early'
    BY DEF IInv, Served, Has, Told, Early
<1>2. ~Clean => ~Pending
    BY DEF IInv, Prepared
<1>3. Prepared'
    BY <1>2 DEF Prepared
<1> QED BY <1>1, <1>3 DEF IInv

\* Nothing of all this moves.
LEMMA OthersHold ==
    ASSUME IInv, UNCHANGED <<ready, setupDone, stage, want, drv, sq, cq, power, queues, ctl, inFlight>>,
           call' = call \/ want = None
    PROVE  IInv'
<1>1. RingsTyped' /\ Served' /\ Told' /\ Prepared' /\ Early'
    BY DEF IInv, RingsTyped, Served, Has, Told, Prepared, Early, Clean, Pending, Unused
<1>2. \A q \in Queue : Has(q)' => Agree(q)'
    BY DEF IInv, Has, Agree, PostsRight, NewOnes, PhaseAt
<1> QED BY <1>1, <1>2 DEF IInv

LEMMA StartHolds ==
    ASSUME IInv, NEW op, NEW lba, Idle, ready, Submit(Io, op, lba), call' \in IoCall,
           UNCHANGED <<ready, setupDone, stage, cq, controllerVars>>
    PROVE  IInv'
<1>1. RingsTyped' /\ \A r \in Queue : drv'[r].head = drv[r].head /\ drv'[r].phase = drv[r].phase
    BY SubmitTyped DEF IInv, RingsTyped, Queue, Io, controllerVars
<1>2. Served' /\ Told'
    BY DEF IInv, Served, Told, Has, controllerVars
<1>3. Clean'
    <2>1. Clean
        BY DEF IInv, Prepared, Idle
    <2>2. Unused(Io) => Unused(Io)'
        BY <1>1 DEF Unused, Queue, Io
    <2> QED BY <2>1, <2>2 DEF Clean, controllerVars
<1>4. \A q \in Queue : Has(q)' => Agree(q)'
    BY <1>1, SameRingsAgree DEF IInv, Has, controllerVars
<1> QED BY <1>1, <1>2, <1>3, <1>4 DEF IInv, Prepared, Early, Idle

LEMMA SetupSubmitHolds ==
    ASSUME IInv, SetupSubmit
    PROVE  IInv'
<1>0. /\ stage \in 1 .. 4 /\ want = None /\ stage' = stage /\ ready' = ready
      /\ setupDone' = setupDone /\ call' = call /\ UNCHANGED <<power, queues, ctl, inFlight>>
    BY DEF SetupSubmit, IInv, RingsTyped, Waiting, callVars, controllerVars
<1>1. Served' /\ Told'
    BY <1>0 DEF IInv, Served, Told, Has
<1>2. CASE Setup[stage] = "create_cq"
    <2>1. FreshIo /\ stage = 3
        BY <1>0, <1>2, SetupIs DEF SetupSubmit
    <2>2. /\ DriverStart \in [tail : Slot, head : Slot, phase : Bit]
          /\ DOMAIN BlankSq = Slot /\ DOMAIN BlankCq = Slot
          /\ \A i \in Slot : DOMAIN BlankCq[i] = {"cid", "phase", "ok"}
          /\ Succ(drv[Admin].tail) \in Slot
        BY DepthIs, SuccIs
        DEF DriverStart, Bit, BlankSq, BlankCq, BlankEntry, IInv, RingsTyped, Queue, Admin
    <2>3. RingsTyped'
        BY <1>0, <2>1, <2>2 DEF FreshIo, IInv, RingsTyped, Queue, Admin, Io
    <2>4. /\ drv'[Io] = DriverStart /\ cq'[Io] = BlankCq /\ cq'[Admin] = cq[Admin]
          /\ drv'[Admin].head = drv[Admin].head /\ drv'[Admin].phase = drv[Admin].phase
        BY <2>1 DEF FreshIo, IInv, RingsTyped, Queue, Admin, Io
    <2>5. Unused(Io)'
        BY <2>4 DEF Unused, DriverStart, BlankCq, BlankEntry
    <2>6. Has(Admin)' => Agree(Admin)'
        BY <1>0, <2>4, SameRingsAgree DEF IInv, Has, Queue, Admin
    <2>7. ~Has(Io)'
        BY <1>0, <2>1 DEF IInv, Early, Has, Admin, Io
    <2>8. Early'
        <3>1. /\ drv'[Admin].tail = Succ(drv[Admin].tail)
              /\ sq'[Admin] = [sq[Admin] EXCEPT ![drv[Admin].tail] =
                            [cid |-> NewCid(Admin), op |-> Setup[stage], lba |-> None]]
            BY <2>1 DEF FreshIo, IInv, RingsTyped, Queue, Admin, Io
        <3>2. Pending' => Pending
            BY <1>0, <2>1, <3>1, SubmitPending DEF IInv
        <3> QED BY <1>0, <3>2 DEF IInv, Early
    <2> QED BY <1>1, <2>3, <2>5, <2>6, <2>7, <2>8 DEF IInv, Prepared, Clean, Queue
<1>3. CASE Setup[stage] # "create_cq"
    <2>1. Submit(Admin, Setup[stage], None) /\ cq' = cq
        BY <1>3 DEF SetupSubmit
    <2>2. RingsTyped' /\ \A r \in Queue : drv'[r].head = drv[r].head /\ drv'[r].phase = drv[r].phase
        BY <1>0, <2>1, SubmitTyped DEF IInv, RingsTyped, Queue, Admin
    <2>3. \A q \in Queue : Has(q)' => Agree(q)'
        BY <1>0, <2>1, <2>2, SameRingsAgree DEF IInv, Has
    <2>4. Clean' <=> Clean
        BY <1>0, <2>1, <2>2 DEF Clean, Unused, Queue, Io
    <2>5. Pending' => Pending \/ stage = 4
        <3>1. /\ drv'[Admin].tail = Succ(drv[Admin].tail)
              /\ sq'[Admin] = [sq[Admin] EXCEPT ![drv[Admin].tail] =
                            [cid |-> NewCid(Admin), op |-> Setup[stage], lba |-> None]]
            BY <2>1 DEF Submit, IInv, RingsTyped, Queue, Admin
        <3> QED BY <1>0, <3>1, SubmitPending DEF IInv
    <2>6. stage # 3
        BY <1>3, SetupIs
    <2>7. Prepared' /\ Early'
        BY <1>0, <2>4, <2>5, <2>6 DEF IInv, Prepared, Early
    <2> QED BY <1>1, <2>2, <2>3, <2>7 DEF IInv
<1> QED BY <1>2, <1>3

\* The driver takes an entry and is done with its command.
LEMMA TakenTyped ==
    ASSUME RingsTyped, NEW q \in Queue, Taken(q)
    PROVE  /\ drv' \in [Queue -> [tail : Slot, head : Slot, phase : Bit]]
           /\ DOMAIN cq' = Queue
           /\ \A r \in Queue : /\ DOMAIN cq'[r] = Slot /\ drv'[r].tail = drv[r].tail
                               /\ \A i \in Slot : DOMAIN cq'[r][i] = {"cid", "phase", "ok"}
           /\ \A r \in Queue \ {q} : drv'[r] = drv[r] /\ cq'[r] = cq[r]
<1>1. Succ(drv[q].head) \in Slot /\ drv[q].phase \in Bit /\ 1 - drv[q].phase \in Bit
    BY SuccIs DEF RingsTyped, Bit
<1>2. drv' \in [Queue -> [tail : Slot, head : Slot, phase : Bit]]
    <2>1. PICK n \in Bit : n = IF Succ(drv[q].head) = 0 THEN 1 - drv[q].phase ELSE drv[q].phase
        BY <1>1
    <2>2. drv' = [drv EXCEPT ![q].head = Succ(drv[q].head), ![q].phase = n]
        BY <2>1 DEF Taken
    <2>3. drv \in [Queue -> [tail : Slot, head : Slot, phase : Bit]]
        BY DEF RingsTyped
    <2> QED BY <1>1, <2>2, <2>3
<1>3. \A r \in Queue : drv'[r].tail = drv[r].tail
    BY <1>1 DEF Taken, RingsTyped
<1>4. DOMAIN cq' = Queue /\ \A r \in Queue : DOMAIN cq'[r] = Slot
    BY DEF Taken, RingsTyped
<1>5. \A r \in Queue \ {q} : drv'[r] = drv[r] /\ cq'[r] = cq[r]
    BY DEF Taken, RingsTyped
<1>6. ASSUME NEW i \in Slot PROVE DOMAIN cq'[q][i] = {"cid", "phase", "ok"}
    <2>1. drv[q].head \in Slot /\ DOMAIN cq = Queue /\ DOMAIN cq[q] = Slot
        BY DEF RingsTyped
    <2>2. cq'[q][i] = IF i = drv[q].head THEN [BlankEntry EXCEPT !.phase = drv[q].phase]
                                          ELSE cq[q][i]
        BY <2>1 DEF Taken
    <2>3. DOMAIN cq[q][i] = {"cid", "phase", "ok"}
        BY DEF RingsTyped
    <2> QED BY <2>2, <2>3 DEF BlankEntry
<1>7. \A r \in Queue : \A i \in Slot : DOMAIN cq'[r][i] = {"cid", "phase", "ok"}
    BY <1>5, <1>6 DEF RingsTyped
<1> QED BY <1>2, <1>3, <1>4, <1>5, <1>7

LEMMA TakenHolds ==
    ASSUME IInv, NEW q \in Queue, q = Waited, Waiting, Arrived(q), Taken(q), UNCHANGED <<sq, ctl>>
    PROVE  /\ RingsTyped' <=> stage' \in 0 .. 4
           /\ Clean /\ queues' = queues => Clean'
           /\ queues' = queues /\ inFlight' = inFlight => Pending' = Pending
           /\ queues' = queues => \A r \in Queue : Has(r)' => Agree(r)'
<1>1. RingsTyped
    BY DEF IInv
<1>2. /\ drv' \in [Queue -> [tail : Slot, head : Slot, phase : Bit]]
      /\ DOMAIN cq' = Queue
      /\ \A r \in Queue : /\ DOMAIN cq'[r] = Slot /\ drv'[r].tail = drv[r].tail
                          /\ \A i \in Slot : DOMAIN cq'[r][i] = {"cid", "phase", "ok"}
      /\ \A r \in Queue \ {q} : drv'[r] = drv[r] /\ cq'[r] = cq[r]
    BY <1>1, TakenTyped
<1>3. RingsTyped' <=> stage' \in 0 .. 4
    BY <1>1, <1>2 DEF RingsTyped
\* Where the I/O rings are unused there is nothing to take.
<1>4. q = Io => "sq" \in queues
    <2>1. q = Io => Clean
        BY DEF IInv, Prepared, RingsTyped, Waited, Waiting, Admin, Io
    <2>2. ~(Unused(Io) /\ Arrived(Io))
        BY DepthIs DEF Unused, Arrived
    <2> QED BY <2>1, <2>2 DEF Clean
<1>5. Clean /\ queues' = queues => Clean'
    BY <1>2, <1>4 DEF Clean, Unused, Queue, Io
<1>6. queues' = queues /\ inFlight' = inFlight => Pending' = Pending
    BY <1>2 DEF Pending, Queue, Admin
<1>7. Has(q) /\ Agree(q)
    BY <1>4 DEF Waited, Has, IInv, Served, Admin, Io
<1>8. Agree(q)'
    BY <1>1, <1>7, TakenAgrees
<1>9. ASSUME queues' = queues, NEW r \in Queue \ {q}, Has(r)' PROVE Agree(r)'
    <2>1. Agree(r)
        BY <1>9 DEF IInv, Has
    <2>2. drv'[r] = drv[r] /\ cq'[r] = cq[r] /\ ctl'[r] = ctl[r]
        BY <1>2
    <2> QED BY <2>1, <2>2, SameRingsAgree
<1> QED BY <1>3, <1>5, <1>6, <1>8, <1>9

LEMMA SkipHolds == ASSUME IInv, SkipAnswer PROVE IInv'
<1>1. /\ Waiting /\ Arrived(Waited) /\ Taken(Waited)
      /\ UNCHANGED <<ready, setupDone, stage, want, sq, ctl, power, queues, inFlight, call>>
      /\ Waited \in Queue
    BY DEF SkipAnswer, callVars, controllerVars, Waited, Queue
<1>2. /\ RingsTyped' /\ (Clean => Clean') /\ Pending' = Pending
      /\ \A q \in Queue : Has(q)' => Agree(q)'
    BY <1>1, TakenHolds DEF IInv, RingsTyped
<1>3. Served' /\ Told' /\ Prepared' /\ Early'
    BY <1>1, <1>2 DEF IInv, Served, Has, Told, Prepared, Early
<1> QED BY <1>2, <1>3 DEF IInv

LEMMA TakeHolds == ASSUME IInv, TakeAnswer PROVE IInv'
<1>1. /\ Waiting /\ Arrived(Waited) /\ Taken(Waited) /\ want' = None /\ UNCHANGED <<sq, ctl>>
    BY DEF TakeAnswer
<1>q. PICK w \in Queue : w = Waited
    BY DEF Waited, Queue
<1>2. /\ RingsTyped' <=> stage' \in 0 .. 4
      /\ Clean /\ queues' = queues => Clean'
      /\ queues' = queues /\ inFlight' = inFlight => Pending' = Pending
      /\ queues' = queues => \A q \in Queue : Has(q)' => Agree(q)'
    BY <1>1, <1>q, TakenHolds
<1>3. CASE Waited = Admin /\ Abandon
    <2>1. stage' = 0 /\ ready' = setupDone' /\ ~ready' /\ ToldToStop
        BY <1>3 DEF Abandon
    <2>2. RingsTyped'
        BY <1>2, <2>1
    <2>3. CASE SwitchedOff
        BY <1>1, <2>1, <2>2, <2>3, OffHolds DEF SwitchedOff
    <2>4. CASE UNCHANGED <<queues, inFlight>>
        BY <1>1, <1>2, <2>1, <2>2, <2>4, StoppingHolds
    <2> QED BY <2>1, <2>3, <2>4 DEF ToldToStop
<1>4. CASE /\ Waited = Admin
           /\ stage' = IF stage = Len(Setup) THEN 0 ELSE stage + 1
           /\ setupDone' = (stage = Len(Setup))
           /\ UNCHANGED <<ready, power, queues, inFlight>>
    <2>1. stage \in 1 .. 4 /\ stage' \in 0 .. 4 /\ (stage' = 0 <=> stage = 4) /\ (stage # 4 => stage' = stage + 1)
        BY <1>4, SetupIs DEF IInv, RingsTyped, Waited, Admin, Io
    <2>2. /\ RingsTyped' /\ (Clean => Clean') /\ Pending' = Pending
          /\ \A q \in Queue : Has(q)' => Agree(q)'
        BY <1>2, <1>4, <2>1
    <2>3. setupDone' = (stage' = 0)
        BY <1>4, <2>1, SetupIs
    <2>4. Served'
        BY <1>4, <2>1 DEF IInv, Served, Has
    <2>7. Told'
        <3>1. ready' /\ power' = "on"
            BY <1>4, <2>1 DEF IInv, Told
        <3>2. setupDone' \in BOOLEAN /\ (stage' = 0 => setupDone')
            BY <2>3
        <3> QED BY <1>1, <3>1, <3>2 DEF Told
    <2>5. Prepared'
        BY <1>1, <1>4, <2>1, <2>2 DEF IInv, Prepared, Waiting
    <2>6. Early'
        BY <1>4, <2>1, <2>2 DEF IInv, Early
    <2> QED BY <2>2, <2>4, <2>5, <2>6, <2>7 DEF IInv
<1>5. CASE Waited = Io /\ UNCHANGED <<ready, setupDone, stage, power, queues, inFlight>>
    <2>1. /\ RingsTyped' /\ (Clean => Clean') /\ Pending' = Pending
          /\ \A q \in Queue : Has(q)' => Agree(q)'
        BY <1>2, <1>5 DEF IInv, RingsTyped
    <2>2. Served' /\ Told' /\ Prepared' /\ Early'
        BY <1>1, <1>5, <2>1 DEF IInv, Served, Has, Told, Prepared, Early
    <2> QED BY <2>1, <2>2 DEF IInv
<1> QED BY <1>3, <1>4, <1>5 DEF TakeAnswer, SetupAnswered, Waited

\* It is told to stop between two answers.
LEMMA SameHolds ==
    ASSUME IInv, RingsTyped', UNCHANGED <<drv, sq, cq, queues, ctl, inFlight>>, want' = None,
           stage' = 0, ready' = setupDone', ~ready'
    PROVE  IInv'
<1>1. (Clean => Clean') /\ Pending' = Pending
    BY DEF Clean, Unused, Pending
<1>2. \A q \in Queue : Has(q)' => Agree(q)'
    BY DEF IInv, Has, Agree, PostsRight, NewOnes, PhaseAt
<1> QED BY <1>1, <1>2, StoppingHolds

LEMMA GiveUpHolds == ASSUME IInv, GiveUp PROVE IInv'
<1>1. want' = None /\ UNCHANGED <<drv, sq, cq, ctl>>
    BY DEF GiveUp, ringVars
<1>2. CASE Waited = Admin
    <2>1. Abandon
        BY <1>2 DEF GiveUp, SetupAnswered
    <2>2. RingsTyped'
        BY <1>1, <2>1 DEF Abandon, IInv, RingsTyped
    <2>3. CASE SwitchedOff
        BY <1>1, <2>1, <2>2, <2>3, OffHolds DEF Abandon, SwitchedOff
    <2>4. CASE UNCHANGED <<queues, inFlight>>
        BY <1>1, <2>1, <2>2, <2>4, SameHolds DEF Abandon
    <2> QED BY <2>1, <2>3, <2>4 DEF Abandon, ToldToStop
<1>3. CASE Waited # Admin
    <2>1. UNCHANGED <<ready, setupDone, stage, power, queues, inFlight>>
        BY <1>3 DEF GiveUp
    <2>2. RingsTyped' /\ Served' /\ Told' /\ Prepared' /\ Early'
        BY <1>1, <2>1
        DEF IInv, RingsTyped, Served, Has, Told, Prepared, Early, Clean, Pending, Unused
    <2>3. \A q \in Queue : Has(q)' => Agree(q)'
        BY <1>1, <2>1 DEF IInv, Has, Agree, PostsRight, NewOnes, PhaseAt
    <2> QED BY <2>2, <2>3 DEF IInv
<1> QED BY <1>2, <1>3

\* The way down failed, or the way up did and the controller may come up later.
LEMMA BringUpFailsHolds == ASSUME IInv, BringUpFails PROVE IInv'
<1>1. /\ stage = 0 /\ want = None /\ ~ready
      /\ UNCHANGED <<ready, setupDone, stage, want, call>>
    BY NoneAssumption DEF BringUpFails, Idle, IInv, Told, callVars
<1>2. CASE UNCHANGED <<drv, ringVars, queues, ctl, inFlight>>
    <2>1. RingsTyped'
        BY <1>1, <1>2 DEF IInv, RingsTyped, ringVars
    <2>2. ready' = setupDone'
        BY <1>1 DEF IInv, Told
    <2> QED BY <1>1, <1>2, <2>1, <2>2, SameHolds DEF ringVars
<1>3. CASE FreshAdmin /\ Enabled
    BY <1>3, FreshAdminHolds
<1> QED BY <1>2, <1>3 DEF BringUpFails

LEMMA DriverHolds == ASSUME IInv, Driver PROVE IInv'
<1>1. CASE BringUp
    BY <1>1, FreshAdminHolds
<1>2. CASE BringUpFails
    BY <1>2, BringUpFailsHolds
<1>3. CASE SetupSubmit
    BY <1>3, SetupSubmitHolds
<1>4. CASE NotReady
    BY <1>4, OthersHold DEF NotReady, driverVars, ringVars, controllerVars
<1>5. ASSUME NEW lba \in Lba, StartRead(lba) PROVE IInv'
    <2>1. call' \in IoCall
        BY <1>5 DEF StartRead, IoCall
    <2> QED BY <1>5, <2>1, StartHolds DEF StartRead
<1>6. ASSUME NEW lba \in Lba, NEW val \in Val, StartWrite(lba, val) PROVE IInv'
    <2>1. call' \in IoCall
        BY <1>6 DEF StartWrite, IoCall
    <2> QED BY <1>6, <2>1, StartHolds DEF StartWrite
<1>7. CASE SkipAnswer
    BY <1>7, SkipHolds
<1>8. CASE TakeAnswer
    BY <1>8, TakeHolds
<1>9. CASE GiveUp
    BY <1>9, GiveUpHolds
<1> QED BY <1>1, <1>2, <1>3, <1>4, <1>5, <1>6, <1>7, <1>8, <1>9 DEF Driver
-----------------------------------------------------------------------------
\* The controller has stopped at last: that concerns no driver that is ready.
LEMMA StopsHolds == ASSUME IInv, Stops PROVE IInv'
<1>1. /\ ~ready /\ stage = 0 /\ want = None
      /\ UNCHANGED <<ready, setupDone, stage, want, drv, sq, cq, ctl>>
    <2>1. power # "on" /\ UNCHANGED <<ready, setupDone, stage, want, drv, sq, cq, ctl>>
        BY DEF Stops, driverVars, ringVars
    <2>2. ~ready /\ stage \in 0 .. 4
        BY <2>1 DEF IInv, Told, RingsTyped
    <2> QED BY <2>1, <2>2 DEF IInv, Told
<1>2. RingsTyped' /\ ready' = setupDone'
    BY <1>1 DEF IInv, RingsTyped, Told
<1> QED BY <1>1, <1>2, OffHolds DEF Stops, SwitchedOff

\* Fetching a command brings no new one to create the submission queue.
LEMMA FetchKeepsPending == ASSUME RingsTyped, NEW q \in Queue, Fetch(q) PROVE Pending' => Pending
<1> DEFINE f == ctl[q].fetch
           c == [q |-> q, cid |-> sq[q][f].cid, op |-> sq[q][f].op,
                 lba |-> sq[q][f].lba, done |-> FALSE]
<1>f1. /\ Has(q) /\ f # drv[q].tail /\ inFlight' = inFlight \cup {c}
       /\ UNCHANGED <<ready, setupDone, stage, want, drv, cq, call, queues>>
    BY DEF Fetch, driverVars, callVars
<1>f2. /\ f \in Slot /\ Succ(f) \in Slot /\ drv[q].tail \in Slot /\ RingsTyped
    BY SuccIs DEF RingsTyped
<1>f3. /\ ctl' = [ctl EXCEPT ![q].fetch = Succ(f)]
       /\ sq' = [sq EXCEPT ![q][f] = None]
    BY DEF Fetch
<1>1. CASE q = Admin
    <2>1. Span(Succ(f), drv[q].tail) \subseteq Span(f, drv[q].tail)
        BY <1>f1, <1>f2, SpanShrinks
    <2>2. f \in Span(f, drv[q].tail)
        BY <1>f1, <1>f2, DepthIs DEF Span, Slot
    <2>3. f \notin Span(Succ(f), drv[q].tail)
        BY <1>f1, <1>f2, SuccIs, DepthIs DEF Span, Slot
    <2>4. ctl'[Admin].fetch = Succ(f) /\ \A i \in Slot \ {f} : sq'[Admin][i] = sq[Admin][i]
        BY <1>f2, <1>f3, <1>1 DEF RingsTyped, Queue
    <2>5. ASSUME NEW i \in Span(Succ(f), drv[q].tail), sq'[Admin][i].op = "create_sq"
          PROVE  i \in Span(f, drv[q].tail) /\ sq[Admin][i].op = "create_sq"
        BY <2>1, <2>3, <2>4, <2>5 DEF Span
    <2>6. c.op = "create_sq" => sq[Admin][f].op = "create_sq"
        BY <1>1
    <2>7. "admin" \in queues
        BY <1>f1, <1>1 DEF Has
    <2> QED BY <1>f1, <1>1, <2>2, <2>4, <2>5, <2>6, <2>7 DEF Pending
<1>2. CASE q # Admin
    <2>1. ctl'[Admin] = ctl[Admin] /\ sq'[Admin] = sq[Admin] /\ c.q # Admin
        BY <1>f3, <1>2, <1>f2 DEF RingsTyped, Queue
    <2> QED BY <1>f1, <2>1 DEF Pending
<1> QED BY <1>1, <1>2

\* The controller reads the next entry of a submission ring.
LEMMA FetchHolds == ASSUME IInv, NEW q \in Queue, Fetch(q) PROVE IInv'
<1> DEFINE f == ctl[q].fetch
           c == [q |-> q, cid |-> sq[q][f].cid, op |-> sq[q][f].op,
                 lba |-> sq[q][f].lba, done |-> FALSE]
<1>1. /\ Has(q) /\ f # drv[q].tail /\ inFlight' = inFlight \cup {c}
      /\ UNCHANGED <<ready, setupDone, stage, want, drv, cq, call, power, queues>>
    BY DEF Fetch, driverVars, callVars
<1>2. /\ f \in Slot /\ Succ(f) \in Slot /\ drv[q].tail \in Slot /\ RingsTyped
    BY SuccIs DEF IInv, RingsTyped
<1>3. /\ ctl' = [ctl EXCEPT ![q].fetch = Succ(f)]
      /\ sq' = [sq EXCEPT ![q][f] = None]
    BY DEF Fetch
<1>4. RingsTyped'
    <2>1. ctl' \in [Queue -> [fetch : Slot, post : Slot, phase : Bit]]
        BY <1>2, <1>3 DEF RingsTyped
    <2>2. DOMAIN sq' = Queue /\ \A r \in Queue : DOMAIN sq'[r] = Slot
        BY <1>2, <1>3 DEF RingsTyped
    <2> QED BY <1>1, <1>2, <2>1, <2>2 DEF RingsTyped
<1>5. Served' /\ Told'
    <2>1. DOMAIN c = {"q", "cid", "op", "lba", "done"} /\ c.q = q
        OBVIOUS
    <2> QED BY <1>1, <2>1 DEF IInv, Served, Has, Told
<1>6. \A r \in Queue : Has(r)' => Agree(r)'
    <2>1. \A r \in Queue : ctl'[r].post = ctl[r].post /\ ctl'[r].phase = ctl[r].phase
        BY <1>2, <1>3 DEF RingsTyped
    <2> QED BY <1>1, <2>1, SameRingsAgree DEF IInv, Has
<1>7. Pending' => Pending
    BY <1>2, FetchKeepsPending
<1>8. Clean' <=> Clean
    BY <1>1 DEF Clean, Unused
<1>9. Prepared' /\ Early'
    BY <1>1, <1>7, <1>8 DEF IInv, Prepared, Early
<1> QED BY <1>4, <1>5, <1>6, <1>9 DEF IInv

\* The controller does what a command asks for; only creating a queue concerns the rings.
LEMMA CarryOutHolds == ASSUME IInv, NEW c \in inFlight, CarryOut(c) PROVE IInv'
<1> DEFINE d == [c EXCEPT !.done = TRUE]
<1>1. /\ ~c.done /\ inFlight' = (inFlight \ {c}) \cup {d}
      /\ UNCHANGED <<ready, setupDone, stage, want, drv, sq, cq, power>>
    BY DEF CarryOut, Done, driverVars, ringVars
<1>2. /\ RingsTyped /\ DOMAIN c = {"q", "cid", "op", "lba", "done"} /\ c.q \in Queue /\ Has(c.q)
      /\ DOMAIN d = DOMAIN c /\ d.q = c.q /\ d.done
    BY DEF IInv, Served
<1>3. ASSUME queues \subseteq queues', "sq" \in queues' => "cq" \in queues'
      PROVE  Served'
    BY <1>1, <1>2, <1>3 DEF IInv, Served, Has
<1>4. ctl'[Admin] = ctl[Admin] /\ ("admin" \in queues' <=> "admin" \in queues) => (Pending' => Pending)
    BY <1>1, <1>2 DEF Pending
<1>5. Unused(Io) => Unused(Io)'
    BY <1>1 DEF Unused
<1>6. CASE CreateQueue(c)
    <2>1. /\ ctl' = [ctl EXCEPT ![Io] = ControllerStart] /\ UNCHANGED call
          /\ "admin" \in queues' <=> "admin" \in queues
          /\ queues \subseteq queues'
        BY <1>6 DEF CreateQueue
    <2>2. /\ "sq" \notin queues /\ ("sq" \in queues' => "cq" \in queues')
          /\ "sq" \in queues' => c.op = "create_sq"
        BY <1>6 DEF CreateQueue, IInv, Served
    <2>3. ctl'[Io] = ControllerStart /\ ctl'[Admin] = ctl[Admin]
        BY <1>2, <2>1 DEF RingsTyped, Queue, Admin, Io
    <2>4. RingsTyped'
        <3>1. ControllerStart \in [fetch : Slot, post : Slot, phase : Bit]
            BY DepthIs DEF ControllerStart, Bit
        <3>2. ctl' \in [Queue -> [fetch : Slot, post : Slot, phase : Bit]]
            BY <1>2, <2>1, <3>1 DEF RingsTyped
        <3> QED BY <1>1, <1>2, <3>2 DEF RingsTyped
    <2>5. c.q = Admin
        BY <1>2, <2>2 DEF Has, Queue
    <2>6. c.op = "create_sq" => Pending
        BY <1>1, <2>5 DEF Pending
    <2>7. "sq" \in queues' => Unused(Io)
        BY <2>2, <2>6 DEF IInv, Prepared, Clean
    <2>8. Prepared' /\ Early'
        BY <1>1, <1>4, <1>5, <2>1, <2>2, <2>3, <2>6 DEF IInv, Prepared, Early, Clean
    <2>9. Has(Io)' => Agree(Io)'
        BY <1>5, <2>3, <2>7, UnusedAgree DEF Has, Admin, Io
    <2>10. Has(Admin)' => Agree(Admin)'
        BY <1>1, <2>1, <2>3, SameRingsAgree DEF IInv, Has, Queue, Admin
    <2>11. Told'
        BY <1>1, <2>1 DEF IInv, Told
    <2> QED BY <1>3, <2>1, <2>2, <2>4, <2>8, <2>9, <2>10, <2>11 DEF IInv, Queue
<1>7. CASE Identify(c) \/ MoveBlock(c)
    <2>1. UNCHANGED <<queues, ctl>> /\ (call \in IoCall => call' \in IoCall)
        <3>1. CASE Identify(c)
            BY <3>1 DEF Identify
        <3>2. CASE MoveBlock(c)
            <4>1. call' = [call EXCEPT !.moved = TRUE] \/ call' = call
                BY <3>2 DEF MoveBlock
            <4>2. call \in IoCall => [call EXCEPT !.moved = TRUE] \in IoCall
                BY DEF IoCall
            <4> QED BY <3>2, <4>1, <4>2 DEF MoveBlock
        <3> QED BY <1>7, <3>1, <3>2
    <2>2. RingsTyped'
        BY <1>1, <1>2, <2>1 DEF RingsTyped
    <2>3. Served'
        BY <1>3, <2>1 DEF IInv, Served
    <2>4. Told'
        BY <1>1, <2>1 DEF IInv, Told
    <2>5. Prepared' /\ Early'
        BY <1>1, <1>4, <1>5, <2>1 DEF IInv, Prepared, Early, Clean
    <2>6. \A r \in Queue : Has(r)' => Agree(r)'
        BY <1>1, <2>1, SameRingsAgree DEF IInv, Has
    <2> QED BY <2>2, <2>3, <2>4, <2>5, <2>6 DEF IInv
<1> QED BY <1>6, <1>7 DEF CarryOut

LEMMA AnswerHolds == ASSUME IInv, NEW c \in inFlight, NEW ok \in BOOLEAN, Answer(c, ok) PROVE IInv'
<1> DEFINE q == c.q
           b == ctl[q].post
<1>1. /\ inFlight' = inFlight \ {c}
      /\ UNCHANGED <<ready, setupDone, stage, want, drv, sq, call, power, queues>>
    BY DEF Answer, driverVars, callVars
<1>2. RingsTyped /\ q \in Queue /\ Has(q) /\ b \in Slot /\ Succ(b) \in Slot
    <2>1. RingsTyped /\ q \in Queue /\ Has(q)
        BY DEF IInv, Served
    <2> QED BY <2>1, SuccIs DEF RingsTyped
<1>3. /\ cq' = [cq EXCEPT ![q][b] = [cid |-> c.cid, phase |-> ctl[q].phase, ok |-> ok]]
      /\ ctl' = [ctl EXCEPT ![q].post = Succ(b),
                            ![q].phase = IF Succ(b) = 0 THEN 1 - ctl[q].phase ELSE ctl[q].phase]
    BY DEF Answer
<1>4. RingsTyped'
    <2>1. PICK n \in Bit : n = IF Succ(b) = 0 THEN 1 - ctl[q].phase ELSE ctl[q].phase
        BY <1>2 DEF RingsTyped, Bit
    <2>2. ctl' = [ctl EXCEPT ![q].post = Succ(b), ![q].phase = n]
        BY <1>3, <2>1
    <2>3. ctl' \in [Queue -> [fetch : Slot, post : Slot, phase : Bit]]
        BY <1>2, <2>2 DEF RingsTyped
    <2>4. DOMAIN cq' = Queue /\ \A r \in Queue : DOMAIN cq'[r] = Slot
        BY <1>2, <1>3 DEF RingsTyped
    <2>5. \A i \in Slot : DOMAIN cq'[q][i] = {"cid", "phase", "ok"}
        <3>1. cq'[q] = [cq[q] EXCEPT ![b] = [cid |-> c.cid, phase |-> ctl[q].phase, ok |-> ok]]
            BY <1>2, <1>3 DEF RingsTyped
        <3> QED BY <1>2, <3>1 DEF RingsTyped
    <2>6. \A r \in Queue \ {q} : cq'[r] = cq[r]
        BY <1>2, <1>3 DEF RingsTyped
    <2>7. \A r \in Queue : \A i \in Slot : DOMAIN cq'[r][i] = {"cid", "phase", "ok"}
        BY <1>2, <2>5, <2>6 DEF RingsTyped
    <2> QED BY <1>1, <1>2, <2>3, <2>4, <2>7 DEF RingsTyped
<1>5. Served' /\ Told'
    BY <1>1 DEF IInv, Served, Has, Told
<1>6. \A r \in Queue : ctl'[r].fetch = ctl[r].fetch
    BY <1>2, <1>3 DEF RingsTyped
<1>7. Pending' => Pending
    BY <1>1, <1>6 DEF Pending, Queue
<1>8. Clean => Clean'
    <2>1. q = Io => "sq" \in queues
        BY <1>2 DEF Has, Admin, Io
    <2>2. q # Io => cq'[Io] = cq[Io]
        BY <1>2, <1>3 DEF RingsTyped, Queue
    <2> QED BY <1>1, <2>1, <2>2 DEF Clean, Unused
<1>9. Prepared' /\ Early'
    BY <1>1, <1>7, <1>8 DEF IInv, Prepared, Early
<1>10. Agree(q)'
    BY <1>2, PostAgrees DEF IInv
<1>11. ASSUME NEW r \in Queue \ {q}, Has(r)' PROVE Agree(r)'
    <2>1. drv'[r] = drv[r] /\ cq'[r] = cq[r] /\ ctl'[r] = ctl[r]
        BY <1>1, <1>2, <1>3 DEF RingsTyped
    <2> QED BY <1>1, <1>11, <2>1, SameRingsAgree DEF IInv, Has
<1> QED BY <1>4, <1>5, <1>9, <1>10, <1>11 DEF IInv

LEMMA InitHolds == Init => IInv
<1> SUFFICES ASSUME Init PROVE IInv
    OBVIOUS
<1>1. RingsTyped
    <2>1. /\ DriverStart \in [tail : Slot, head : Slot, phase : Bit]
          /\ ControllerStart \in [fetch : Slot, post : Slot, phase : Bit]
        BY DepthIs DEF DriverStart, ControllerStart, Bit
    <2>2. DOMAIN BlankSq = Slot /\ DOMAIN BlankCq = Slot
          /\ \A i \in Slot : DOMAIN BlankCq[i] = {"cid", "phase", "ok"}
        BY DEF BlankSq, BlankCq, BlankEntry
    <2> QED BY <2>1, <2>2 DEF Init, RingsTyped
<1>2. Served /\ Told /\ Early
    <2>1. Served
        BY DEF Init, Served
    <2>2. Told
        <3>1. stage = 0 /\ ~(stage > 0) /\ want = None
            BY DEF Init
        <3>2. ~ready /\ ready = setupDone
            BY DEF Init
        <3> QED BY <3>1, <3>2 DEF Told
    <2>3. stage \notin 1 .. 3
        BY DEF Init
    <2> QED BY <2>1, <2>2, <2>3 DEF Early
<1>3. Unused(Io)
    BY DEF Init, Unused, DriverStart, BlankCq, BlankEntry, Queue
<1>4. \A q \in Queue : ~Has(q)
    BY DEF Init, Has
<1> QED BY <1>1, <1>2, <1>3, <1>4 DEF IInv, Prepared, Clean

LEMMA Inductive == IInv /\ [Next]_vars => IInv'
<1> SUFFICES ASSUME IInv, [Next]_vars PROVE IInv'
    OBVIOUS
<1>1. CASE Driver
    BY <1>1, DriverHolds
<1>2. CASE Controller
    BY <1>2, StopsHolds, FetchHolds, CarryOutHolds, AnswerHolds DEF Controller
<1>3. CASE UNCHANGED vars
    BY <1>3, OthersHold DEF vars, driverVars, ringVars, callVars, controllerVars
<1> QED BY <1>1, <1>2, <1>3 DEF Next

\* Whatever was given up, whichever bring-up failed and however often the rings wrapped,
\* the entries that carry the phase cq_wait looks for are those the controller has posted.
THEOREM AlwaysInStep == Spec => []InStep
<1>1. IInv => InStep
    BY DEF IInv, InStep, Agree, NewOnes
<1> QED BY <1>1, InitHolds, Inductive, PTL DEF Spec
-----------------------------------------------------------------------------
(***************************************************************************)
(* The driver and its controller are a disk that does one thing at a time, *)
(* as long as a controller leaves alone the block of a command given up:   *)
(* a yes means that this call's block has moved, once, and a read brings   *)
(* what the disk holds.  The argument follows the one command the driver   *)
(* waits for, under its identifier, through the submission ring, the       *)
(* controller and the completion ring.                                     *)
(***************************************************************************)

Sent(q) == Span(ctl[q].fetch, drv[q].tail)     \* commands the controller will fetch
Posted(q) == Span(drv[q].head, ctl[q].post)    \* answers the driver will take

\* The I/O rings have been blanked for a bring-up that has yet to end, or was given up.
IoUntouched ==
    stage = 4 \/ (stage = 3 /\ want # None) \/ Pending \/ "sq" \in queues

\* How far the bring-up is.
Up ==
    /\ nextCid \in Cid
    /\ queues \subseteq {"admin", "cq", "sq"}
    /\ stage > 0 => ~setupDone
    /\ ~setupDone => \A c \in inFlight : c.q = Admin
    /\ setupDone => "admin" \in queues /\ "sq" \in queues
    /\ stage = 0 /\ want # None => setupDone
    /\ ~setupDone /\ IoUntouched =>
          drv[Io].tail = 0 /\ ("sq" \in queues => ctl[Io].fetch = 0)

\* Who is told by a command's number and what it asks for.
Block == {"read", "write"}
Entries ==
    /\ \A c \in inFlight : c.cid \in Cid /\ (c.q = Admin => c.op \notin Block)
    /\ \A i \in Sent(Admin) : sq[Admin][i].cid \in Cid /\ sq[Admin][i].op \notin Block
    /\ "sq" \in queues => \A i \in Sent(Io) : sq[Io][i].cid \in Cid
    /\ \A q \in Queue : \A i \in Slot : cq[q][i].ok \in BOOLEAN

\* The command of the bring-up that the driver waits for.
AdminMine ==
    stage > 0 /\ want # None =>
        /\ \A c \in inFlight : c.q = Admin /\ c.cid = want => c.op = Setup[stage]
        /\ \A i \in Sent(Admin) : sq[Admin][i].cid = want => sq[Admin][i].op = Setup[stage]
AdminDone ==
    stage = 4 /\ want # None /\ "sq" \notin queues =>
        /\ \A c \in inFlight : c.q = Admin /\ c.cid = want => ~c.done
        /\ \A i \in Posted(Admin) : cq[Admin][i].cid = want => cq[Admin][i].ok = FALSE

\* The command of the call that the driver waits for: there is one of it.
IoMine ==
    stage = 0 /\ want # None =>
        /\ \A c \in inFlight : c.q = Io /\ c.cid = want =>
              c.op = call.op /\ c.lba = call.lba /\ (c.done <=> call.moved)
        /\ \A i \in Sent(Io) : sq[Io][i].cid = want =>
              sq[Io][i].op = call.op /\ sq[Io][i].lba = call.lba /\ ~call.moved
        /\ \A i \in Posted(Io) : cq[Io][i].cid = want /\ cq[Io][i].ok = TRUE => call.moved
IoOnce ==
    stage = 0 /\ want # None =>
        /\ \A c, d \in inFlight : c.q = Io /\ d.q = Io /\ c.cid = want /\ d.cid = want => c = d
        /\ \A i, j \in Sent(Io) : sq[Io][i].cid = want /\ sq[Io][j].cid = want => i = j
        /\ \A c \in inFlight, i \in Sent(Io) : ~(c.q = Io /\ c.cid = want /\ sq[Io][i].cid = want)

\* What the one page holds for it.
BounceIs ==
    stage = 0 /\ want # None =>
        /\ call.op = "write" /\ ~call.moved => bounce = call.val
        /\ call.op = "read" /\ call.moved => bounce = disk[call.lba]

\* The bring-up's part of the argument, which nothing late can disturb, and the call's.
QInv == Up /\ Entries /\ AdminMine /\ AdminDone
Mine == IoMine /\ IoOnce /\ BounceIs

\* What a step looks like to the caller.
Seen == [Device!Next]_<<disk, call, reply>>

\* A step keeps the one, and the other if it was so.
Kept == QInv' /\ (Mine => Mine' /\ Seen)
-----------------------------------------------------------------------------
LEMMA LeastExists ==
    ASSUME NEW T, T \subseteq Nat, T # {}
    PROVE  \E x \in T : \A y \in T : x <= y
<1> DEFINE Less == {ss \in Nat \X Nat : ss[1] < ss[2]}
<1>1. IsWellFoundedOn(Less, Nat)
    BY NatLessThanWellFounded DEF OpToRel
<1>2. PICK x \in T : \A y \in T : <<y, x>> \notin Less
    BY <1>1, WFMin
<1>3. ASSUME NEW y \in T PROVE x <= y
    <2>1. x \in Nat /\ y \in Nat
        OBVIOUS
    <2>2. ~(y < x)
        BY <1>2, <2>1
    <2> QED BY <2>1, <2>2
<1> QED BY <1>3

\* next_cid goes on to an identifier that nobody holds.
LEMMA FreshCid ==
    ASSUME NEW q, nextCid \in Cid, Cid \ Held(q) # {}
    PROVE  NewCid(q) \in Cid /\ NewCid(q) \notin Held(q)
<1> DEFINE turn(k) == (nextCid + k) % CidMod
           T == {j \in 0 .. CidMod - 1 : turn(j) \notin Held(q)}
<1>1. \A k \in 0 .. CidMod - 1 : turn(k) \in Cid
    BY CidAssumption DEF Cid
<1>2. PICK c \in Cid : c \notin Held(q)
    OBVIOUS
<1>3. \E j \in 0 .. CidMod - 1 : turn(j) = c
    <2>1. CASE c >= nextCid
        <3>1. c - nextCid \in 0 .. CidMod - 1 /\ turn(c - nextCid) = c
            BY <2>1, CidAssumption DEF Cid
        <3> QED BY <3>1
    <2>2. CASE c < nextCid
        <3>1. c + CidMod - nextCid \in 0 .. CidMod - 1 /\ turn(c + CidMod - nextCid) = c
            BY <2>2, CidAssumption DEF Cid
        <3> QED BY <3>1
    <2> QED BY <2>1, <2>2, CidAssumption DEF Cid
<1>4. PICK k \in T : \A j \in T : k <= j
    <2>1. T # {}
        BY <1>2, <1>3
    <2>2. T \subseteq Nat
        BY CidAssumption
    <2> QED BY <2>1, <2>2, LeastExists
<1>5. k \in 0 .. CidMod - 1 /\ turn(k) \notin Held(q) /\ \A i \in 0 .. k - 1 : turn(i) \in Held(q)
    BY <1>4, CidAssumption
<1> HIDE DEF T
<1> QED BY <1>1, <1>5 DEF NewCid

\* A command enters its ring under an identifier of its own.
LEMMA Submitted ==
    ASSUME RingsTyped, nextCid \in Cid, NEW q \in Queue, Numbered(q),
           \A i \in Slot \ {drv[q].tail} : sq'[q][i] = sq[q][i],
           drv'[q].tail = Succ(drv[q].tail), drv'[q].head = drv[q].head,
           ctl' = ctl, inFlight' = inFlight, cq'[q] = cq[q]
    PROVE  /\ want' = NewCid(q) /\ want' \in Cid /\ nextCid' \in Cid
           /\ \A c \in inFlight' : c.q = q => c.cid # want'
           /\ \A i \in Posted(q)' : cq'[q][i].cid # want'
           /\ \A i \in Sent(q)' : i # drv[q].tail =>
                 i \in Sent(q) /\ sq'[q][i] = sq[q][i] /\ sq[q][i].cid # want'
<1> DEFINE t == drv[q].tail
<1>1. want' = NewCid(q) /\ want' \in Cid /\ want' \notin Held(q)
    BY FreshCid DEF Numbered
<1>2. nextCid' \in Cid
    BY <1>1, CidAssumption DEF Numbered, Cid
<1>3. /\ \A c \in inFlight : c.q = q => c.cid # want'
      /\ \A i \in Sent(q) : sq[q][i].cid # want'
      /\ \A i \in Posted(q) : cq[q][i].cid # want'
    BY <1>1 DEF Held, Sent, Posted
<1>4. Sent(q) \subseteq Slot /\ Sent(q)' \subseteq Sent(q) \cup {t}
    <2>1. t \in Slot /\ ctl[q].fetch \in Slot
        BY DEF RingsTyped
    <2>2. Span(ctl[q].fetch, Succ(t)) \subseteq Span(ctl[q].fetch, t) \cup {t}
        BY <2>1, SpanGrows
    <2> QED BY <2>1, <2>2 DEF Sent, Span
<1>5. Posted(q)' = Posted(q)
    BY DEF Posted
<1> QED BY <1>1, <1>2, <1>3, <1>4, <1>5

LEMMA Quiet == ASSUME want' = None PROVE AdminMine' /\ AdminDone' /\ Mine'
BY DEF Mine, AdminMine, AdminDone, IoMine, IoOnce, BounceIs

LEMMA NobodyAsks == ASSUME IInv, Idle PROVE want = None
BY NoneAssumption DEF IInv, Told, Idle

\* The controller is off or has just come up, and nobody waits.
LEMMA OffDevice ==
    ASSUME QInv, want' = None, stage' \in {0, 1}, ~setupDone', inFlight' = {}, nextCid' = nextCid,
           \/ queues' = {} /\ Sent(Admin)' = Sent(Admin) /\ sq'[Admin] = sq[Admin]
           \/ queues' = {"admin"} /\ Sent(Admin)' = {},
           \A q \in Queue : \A i \in Slot : cq'[q][i].ok \in BOOLEAN
    PROVE  QInv' /\ Mine'
<1>1. ~Pending'
    BY DEF Pending, Sent
<1>2. Up'
    BY <1>1 DEF QInv, Up, IoUntouched
<1>3. Entries'
    BY DEF QInv, Entries
<1> QED BY <1>2, <1>3, Quiet DEF QInv

\* The controller has been told to stop and still works.
LEMMA StoppingDevice ==
    ASSUME IInv, QInv, want' = None, stage' = 0, ~setupDone, ~setupDone', nextCid' = nextCid,
           UNCHANGED <<sq, ctl, queues, inFlight>>, \A q \in Queue : drv'[q].tail = drv[q].tail,
           \A q \in Queue : \A i \in Slot : cq'[q][i].ok \in BOOLEAN
    PROVE  QInv' /\ Mine'
<1>1. Pending' = Pending /\ Sent(Admin)' = Sent(Admin) /\ Sent(Io)' = Sent(Io)
    BY DEF Pending, Sent, Queue
<1>2. IoUntouched' => IoUntouched
    BY <1>1 DEF IoUntouched
<1>3. Up'
    BY <1>2 DEF QInv, Up, Queue
<1>4. Entries'
    BY <1>1 DEF QInv, Entries
<1> QED BY <1>3, <1>4, Quiet DEF QInv

LEMMA FreshAdminDevice ==
    ASSUME IInv, QInv, FreshAdmin, queues' = {"admin"}, inFlight' = {}, want' = None,
           stage' \in {0, 1}, ~setupDone', nextCid' = nextCid
    PROVE  QInv' /\ Mine'
<1>1. /\ drv'[Admin] = DriverStart /\ ctl'[Admin] = ControllerStart
      /\ cq'[Admin] = BlankCq /\ cq'[Io] = cq[Io]
    BY DEF FreshAdmin, IInv, RingsTyped, Queue, Admin, Io
<1>2. Sent(Admin)' = {}
    BY <1>1, DepthIs DEF Sent, Span, Slot, DriverStart, ControllerStart
<1>3. ASSUME NEW q \in Queue, NEW i \in Slot PROVE cq'[q][i].ok \in BOOLEAN
    <2>1. BlankCq[i].ok = FALSE
        BY DEF BlankCq, BlankEntry
    <2>2. cq[Io][i].ok \in BOOLEAN
        BY DEF QInv, Entries, Queue
    <2> QED BY <1>1, <2>1, <2>2 DEF Queue
<1> QED BY <1>2, <1>3, OffDevice

LEMMA BringUpDevice == ASSUME IInv, QInv, BringUp PROVE Kept
<1>1. /\ want' = None /\ stage' = 1 /\ ~setupDone' /\ nextCid' = nextCid
      /\ FreshAdmin /\ queues' = {"admin"} /\ inFlight' = {}
    BY NobodyAsks DEF BringUp, Enabled
<1> QED BY <1>1, FreshAdminDevice DEF BringUp, callVars, Seen, Kept

LEMMA BringUpFailsDevice == ASSUME IInv, QInv, BringUpFails PROVE Kept
<1>1. /\ want' = None /\ stage' = 0 /\ ~setupDone' /\ nextCid' = nextCid
    BY NobodyAsks DEF BringUpFails, Idle
<1>2. CASE UNCHANGED <<drv, ringVars, queues, ctl, inFlight>>
    <2>1. sq' = sq /\ cq' = cq /\ drv' = drv /\ ~setupDone
        BY <1>2 DEF ringVars, BringUpFails
    <2>2. QInv' /\ Mine'
        BY <1>1, <1>2, <2>1, StoppingDevice DEF QInv, Entries
    <2> QED BY <2>2 DEF BringUpFails, callVars, Seen, Kept
<1>3. CASE FreshAdmin /\ Enabled
    BY <1>1, <1>3, FreshAdminDevice DEF BringUpFails, Enabled, callVars, Seen, Kept
<1> QED BY <1>2, <1>3 DEF BringUpFails

LEMMA NotReadyDevice == ASSUME IInv, QInv, NotReady PROVE Kept
<1>1. QInv' /\ (Mine => Mine')
    BY DEF NotReady, QInv, Up, IoUntouched, Entries, Mine, AdminMine, AdminDone, IoMine, IoOnce, BounceIs,
           Pending, Sent, Posted, driverVars, ringVars, controllerVars
<1>2. Device!AnswerNo
    BY DEF NotReady, Device!AnswerNo, No, Device!No, Idle, controllerVars
<1> QED BY <1>1, <1>2 DEF Seen, Device!Next, Kept

\* A write or a read goes into the I/O ring.
LEMMA StartDevice ==
    ASSUME IInv, IInv', QInv, NEW op \in Block, NEW lba \in Lba, NEW val \in Val \cup {None},
           Idle, ready, Submit(Io, op, lba),
           call' = [op |-> op, lba |-> lba, val |-> val, moved |-> FALSE],
           op = "write" => bounce' = val,
           UNCHANGED <<ready, setupDone, stage, cq, reply, controllerVars>>
    PROVE  Kept
<1>0. /\ RingsTyped /\ Io \in Queue /\ nextCid \in Cid /\ stage = 0 /\ setupDone
      /\ "sq" \in queues /\ UNCHANGED <<queues, ctl, inFlight, disk>>
    BY DEF IInv, Told, QInv, Up, Idle, Queue, controllerVars
<1>1. /\ sq'[Io] = [sq[Io] EXCEPT ![drv[Io].tail] = [cid |-> NewCid(Io), op |-> op, lba |-> lba]]
      /\ sq'[Admin] = sq[Admin] /\ drv'[Admin] = drv[Admin]
      /\ drv'[Io].tail = Succ(drv[Io].tail) /\ drv'[Io].head = drv[Io].head
    BY <1>0 DEF Submit, RingsTyped, Queue, Admin, Io
<1>2. /\ want' \in Cid /\ nextCid' \in Cid
      /\ \A c \in inFlight' : c.q = Io => c.cid # want'
      /\ \A i \in Posted(Io)' : cq'[Io][i].cid # want'
      /\ \A i \in Sent(Io)' :
            \/ i = drv[Io].tail /\ sq'[Io][i] = [cid |-> want', op |-> op, lba |-> lba]
            \/ i \in Sent(Io) /\ sq'[Io][i] = sq[Io][i] /\ sq[Io][i].cid # want'
    <2> DEFINE t == drv[Io].tail
    <2>1. Numbered(Io) /\ cq'[Io] = cq[Io] /\ t \in Slot /\ DOMAIN sq[Io] = Slot
        BY <1>0 DEF Submit, RingsTyped
    <2>2. /\ sq'[Io][t] = [cid |-> NewCid(Io), op |-> op, lba |-> lba]
          /\ \A i \in Slot \ {t} : sq'[Io][i] = sq[Io][i]
        BY <1>1, <2>1
    <2> QED BY <1>0, <1>1, <2>1, <2>2, Submitted DEF Sent, Posted
<1>3. Up'
    BY <1>0, <1>2 DEF QInv, Up
<1>4. Entries'
    <2>1. Sent(Admin)' = Sent(Admin)
        BY <1>0, <1>1 DEF Sent
    <2> QED BY <1>0, <1>1, <1>2, <2>1 DEF QInv, Entries
<1>7. AdminMine' /\ AdminDone'
    BY <1>0 DEF AdminMine, AdminDone
<1>5. Mine'
    <2>2. IoMine'
        BY <1>2 DEF IoMine
    <2>3. IoOnce'
        BY <1>2 DEF IoOnce
    <2>4. BounceIs'
        BY DEF BounceIs, Block
    <2> QED BY <2>2, <2>3, <2>4 DEF Mine
<1>6. Device!Ask
    <2>1. call' \in Device!Call /\ ~call'.moved
        BY DEF Device!Call, Block
    <2> QED BY <1>0, <2>1 DEF Device!Ask, Idle
<1> QED BY <1>3, <1>4, <1>5, <1>6, <1>7 DEF QInv, Kept, Seen, Device!Next

\* The next command of the bring-up goes into the admin ring.
LEMMA SetupSubmitDevice == ASSUME IInv, IInv', QInv, SetupSubmit PROVE Kept
<1>0. /\ RingsTyped /\ Admin \in Queue /\ nextCid \in Cid /\ stage \in 1 .. 4 /\ ~setupDone
      /\ want = None
      /\ UNCHANGED <<ready, setupDone, stage, bounce, call, reply, queues, ctl, inFlight, disk>>
    BY DEF SetupSubmit, IInv, RingsTyped, QInv, Up, Queue, Waiting, callVars, controllerVars
<1>1. /\ Numbered(Admin) /\ cq'[Admin] = cq[Admin]
      /\ sq'[Admin] = [sq[Admin] EXCEPT ![drv[Admin].tail] =
                          [cid |-> NewCid(Admin), op |-> Setup[stage], lba |-> None]]
      /\ drv'[Admin].tail = Succ(drv[Admin].tail) /\ drv'[Admin].head = drv[Admin].head
      /\ \/ stage = 3 /\ drv'[Io].tail = 0 /\ cq'[Io] = BlankCq
         \/ stage # 3 /\ drv'[Io] = drv[Io] /\ sq'[Io] = sq[Io] /\ cq' = cq
    <2>1. CASE Setup[stage] = "create_cq"
        <3>1. FreshIo /\ Numbered(Admin) /\ stage = 3
            BY <1>0, <2>1, SetupIs DEF SetupSubmit
        <3> QED BY <1>0, <3>1 DEF FreshIo, DriverStart, RingsTyped, Queue, Admin, Io
    <2>2. CASE Setup[stage] # "create_cq"
        <3>1. Submit(Admin, Setup[stage], None) /\ cq' = cq /\ stage # 3
            BY <2>2, SetupIs DEF SetupSubmit
        <3> QED BY <1>0, <3>1 DEF Submit, RingsTyped, Queue, Admin, Io
    <2> QED BY <2>1, <2>2
<1>2. /\ want' \in Cid /\ nextCid' \in Cid
      /\ \A c \in inFlight' : c.q = Admin => c.cid # want'
      /\ \A i \in Posted(Admin)' : cq'[Admin][i].cid # want'
      /\ \A i \in Sent(Admin)' :
            \/ i = drv[Admin].tail /\ sq'[Admin][i] = [cid |-> want', op |-> Setup[stage], lba |-> None]
            \/ i \in Sent(Admin) /\ sq'[Admin][i] = sq[Admin][i] /\ sq[Admin][i].cid # want'
    <2> DEFINE t == drv[Admin].tail
    <2>1. t \in Slot /\ DOMAIN sq[Admin] = Slot
        BY <1>0 DEF RingsTyped
    <2>2. /\ sq'[Admin][t] = [cid |-> NewCid(Admin), op |-> Setup[stage], lba |-> None]
          /\ \A i \in Slot \ {t} : sq'[Admin][i] = sq[Admin][i]
        BY <1>1, <2>1
    <2> QED BY <1>0, <1>1, <2>2, Submitted DEF Sent, Posted
<1>3. Up'
    <2>1. stage = 3 => "sq" \notin queues
        BY DEF IInv, Early
    <2>2. stage \in 1 .. 3 => ~IoUntouched' \/ stage = 3
        BY <1>0 DEF IInv, Early, IoUntouched
    <2>3. stage = 4 => IoUntouched
        BY DEF IoUntouched
    <2>4. stage # 4 => stage \in 1 .. 3
        BY <1>0
    <2> QED BY <1>0, <1>1, <1>2, <2>1, <2>2, <2>3, <2>4 DEF QInv, Up
<1>4. Entries'
    <2>1. Setup[stage] \notin Block
        BY <1>0 DEF Setup, Block
    <2>2. "sq" \in queues' => \A i \in Sent(Io)' : sq'[Io][i].cid \in Cid
        <3>1. stage = 3 => "sq" \notin queues
            BY DEF IInv, Early
        <3>2. stage # 3 => Sent(Io)' = Sent(Io)
            BY <1>0, <1>1 DEF Sent
        <3> QED BY <1>0, <1>1, <3>1, <3>2 DEF QInv, Entries
    <2>3. ASSUME NEW q \in Queue, NEW i \in Slot PROVE cq'[q][i].ok \in BOOLEAN
        <3>1. BlankCq[i].ok = FALSE
            BY DEF BlankCq, BlankEntry
        <3>2. cq[Admin][i].ok \in BOOLEAN /\ cq[Io][i].ok \in BOOLEAN
            BY DEF QInv, Entries, Queue
        <3> QED BY <1>1, <3>1, <3>2 DEF Queue
    <2>4. \A i \in Sent(Admin)' : sq'[Admin][i].cid \in Cid /\ sq'[Admin][i].op \notin Block
        BY <1>2, <2>1 DEF QInv, Entries
    <2>5. \A c \in inFlight' : c.cid \in Cid /\ (c.q = Admin => c.op \notin Block)
        BY <1>0 DEF QInv, Entries
    <2> QED BY <2>2, <2>3, <2>4, <2>5 DEF Entries
<1>5. AdminMine' /\ AdminDone'
    <2>1. AdminMine'
        BY <1>0, <1>2 DEF AdminMine
    <2>2. AdminDone'
        BY <1>2 DEF AdminDone
    <2> QED BY <2>1, <2>2
<1>6. Mine'
    BY <1>0 DEF Mine, IoMine, IoOnce, BounceIs
<1> QED BY <1>0, <1>3, <1>4, <1>5, <1>6 DEF QInv, Kept, Seen

\* The queue the driver waits at is there, and what lies at its head was posted.
LEMMA TakenDevice ==
    ASSUME IInv, QInv, Waiting, NEW q \in Queue, q = Waited, Arrived(q), Taken(q), ctl' = ctl
    PROVE  LET h == drv[q].head
           IN  /\ h \in Slot /\ h \in Posted(q)
               /\ h \notin Posted(q)' /\ \A r \in Queue : Posted(r)' \subseteq Posted(r)
               /\ \A r \in Queue, i \in Slot : ~(r = q /\ i = h) => cq'[r][i] = cq[r][i]
               /\ \A r \in Queue : drv'[r].tail = drv[r].tail
               /\ \A r \in Queue, i \in Slot : cq'[r][i].ok \in BOOLEAN
<1> DEFINE h == drv[q].head
           p == ctl[q].post
<1>1. Has(q)
    BY DEF IInv, Served, RingsTyped, QInv, Up, Waiting, Waited, Queue, Admin, Io, Has
<1>2. /\ h \in Slot /\ p \in Slot /\ DOMAIN cq = Queue /\ DOMAIN cq[q] = Slot
      /\ drv \in [Queue -> [tail : Slot, head : Slot, phase : Bit]]
    BY <1>1 DEF IInv, RingsTyped
<1>3. /\ drv'[q].head = Succ(h) /\ \A r \in Queue : drv'[r].tail = drv[r].tail
      /\ \A r \in Queue \ {q} : drv'[r] = drv[r]
    BY <1>1, <1>2 DEF Taken
<1>4. h \in Posted(q)
    <2>1. cq[q][h].phase = PhaseAt(q, h)
        BY <1>2 DEF Arrived, PhaseAt, Slot
    <2> QED BY <1>1, <1>2, <2>1 DEF IInv, Agree, NewOnes, Posted
<1>5. h \notin Posted(q)' /\ Posted(q)' \subseteq Posted(q)
    <2>1. h # p
        BY <1>2, <1>4 DEF Posted, Span, Slot
    <2>2. Span(Succ(h), p) \subseteq Span(h, p)
        BY <1>2, <2>1, SpanShrinks
    <2>3. h \notin Span(Succ(h), p)
        <3>1. Succ(h) = IF h + 1 = Depth THEN 0 ELSE h + 1
            BY <1>2, SuccIs
        <3> QED BY <1>2, <2>1, <3>1, DepthIs DEF Span, Slot
    <2> QED BY <1>3, <2>2, <2>3 DEF Posted
<1>6. \A r \in Queue \ {q} : Posted(r)' = Posted(r)
    BY <1>3 DEF Posted
<1>7. /\ cq'[q][h] = [BlankEntry EXCEPT !.phase = drv[q].phase]
      /\ \A r \in Queue, i \in Slot : ~(r = q /\ i = h) => cq'[r][i] = cq[r][i]
    BY <1>1, <1>2 DEF Taken
<1>8. ASSUME NEW r \in Queue, NEW i \in Slot PROVE cq'[r][i].ok \in BOOLEAN
    <2>1. cq'[q][h].ok = FALSE
        BY <1>7 DEF BlankEntry
    <2>2. cq[r][i].ok \in BOOLEAN
        BY DEF QInv, Entries
    <2> QED BY <1>7, <2>1, <2>2
<1> QED BY <1>2, <1>3, <1>4, <1>5, <1>6, <1>7, <1>8

LEMMA SkipDevice == ASSUME IInv, QInv, SkipAnswer PROVE Kept
<1> DEFINE q == Waited
<1>0. /\ Waiting /\ Arrived(q) /\ Taken(q) /\ q \in Queue
      /\ UNCHANGED <<setupDone, stage, want, nextCid, sq, bounce, call, reply, queues, ctl,
                     inFlight, disk>>
    BY DEF SkipAnswer, Waited, Queue, callVars, controllerVars
<1>1. /\ \A r \in Queue : Posted(r)' \subseteq Posted(r) /\ drv'[r].tail = drv[r].tail
      /\ \A r \in Queue, i \in Slot : i \in Posted(r)' => cq'[r][i] = cq[r][i]
      /\ \A r \in Queue, i \in Slot : cq'[r][i].ok \in BOOLEAN
    <2>1. PICK p \in Queue : p = q
        BY <1>0
    <2> QED BY <1>0, <2>1, TakenDevice
<1>2. Sent(Admin)' = Sent(Admin) /\ Sent(Io)' = Sent(Io)
    BY <1>0, <1>1 DEF Sent, Queue
<1>3. Up'
    BY <1>0, <1>1, <1>2 DEF QInv, Up, IoUntouched, Pending, Sent, Queue
<1>4. Entries'
    BY <1>0, <1>1, <1>2 DEF QInv, Entries
<1>5. \A r \in Queue : Posted(r)' \subseteq Slot
    BY DEF Posted, Span
<1>6. AdminMine' /\ AdminDone'
    <2>1. AdminMine'
        BY <1>0, <1>2 DEF QInv, AdminMine
    <2>2. AdminDone'
        BY <1>0, <1>1, <1>5 DEF QInv, AdminDone, Queue
    <2> QED BY <2>1, <2>2
<1>7. ASSUME Mine PROVE Mine'
    <2>1. IoMine'
        BY <1>0, <1>1, <1>2, <1>5, <1>7 DEF Mine, IoMine, Queue
    <2>2. IoOnce'
        BY <1>0, <1>2, <1>7 DEF Mine, IoOnce
    <2>3. BounceIs'
        BY <1>0, <1>7 DEF Mine, BounceIs
    <2> QED BY <2>1, <2>2, <2>3 DEF Mine
<1> QED BY <1>0, <1>3, <1>4, <1>6, <1>7 DEF QInv, Kept, Seen

\* The bring-up goes on, ends, or is undone.
LEMMA TakeAdminDevice == ASSUME IInv, QInv, TakeAnswer, stage > 0 PROVE Kept
<1> DEFINE h == drv[Admin].head
           e == cq[Admin][h]
<1>0. /\ Waiting /\ Arrived(Admin) /\ Taken(Admin) /\ Waited = Admin /\ Admin \in Queue
      /\ e.cid = want /\ want' = None /\ UNCHANGED <<nextCid, sq, bounce, ctl, disk, call, reply>>
      /\ stage \in 1 .. 4 /\ ~setupDone
    BY DEF TakeAnswer, Waited, IsOwn, Queue, callVars, IInv, RingsTyped, QInv, Up
<1>1. /\ h \in Slot /\ h \in Posted(Admin)
      /\ \A r \in Queue : drv'[r].tail = drv[r].tail
      /\ \A r \in Queue, i \in Slot : cq'[r][i].ok \in BOOLEAN
    BY <1>0, TakenDevice
<1>2. Sent(Admin)' = Sent(Admin) /\ Sent(Io)' = Sent(Io)
    BY <1>0, <1>1 DEF Sent, Queue, Admin, Io
<1>3. CASE Abandon
    <2>1. CASE SwitchedOff
        BY <1>0, <1>1, <1>2, <1>3, <2>1, OffDevice DEF Abandon, SwitchedOff, Seen, Kept
    <2>2. CASE UNCHANGED <<queues, inFlight>>
        BY <1>0, <1>1, <1>3, <2>2, StoppingDevice DEF Abandon, Seen, Kept
    <2> QED BY <1>3, <2>1, <2>2 DEF Abandon, ToldToStop
<1>4. CASE /\ e.ok /\ stage' = (IF stage = Len(Setup) THEN 0 ELSE stage + 1)
           /\ setupDone' = (stage = Len(Setup))
           /\ UNCHANGED <<ready, power, queues, inFlight>>
    <2>1. stage = 4 => "sq" \in queues
        BY <1>0, <1>1, <1>4 DEF QInv, AdminDone, Waiting
    <2>2. stage = 3 => drv[Io].tail = 0 /\ "sq" \notin queues
        BY <1>0 DEF QInv, Up, IoUntouched, Waiting, IInv, Early
    <2>3. \/ stage' = 0 /\ stage = 4 /\ setupDone'
          \/ stage' = stage + 1 /\ stage \in 1 .. 3 /\ ~setupDone'
        <3>1. CASE stage = 4
            BY <1>4, <3>1, SetupIs
        <3>2. CASE stage # 4
            <4>1. stage' = stage + 1 /\ stage \in 1 .. 3
                BY <1>0, <1>4, <3>2, SetupIs
            <4>2. ~setupDone'
                BY <1>4, <3>2, SetupIs
            <4> QED BY <4>1, <4>2
        <3> QED BY <3>1, <3>2
    <2>4. "admin" \in queues
        BY <1>0 DEF IInv, Served
    <2>5. Up'
        <3>1. ~setupDone' /\ IoUntouched' => drv'[Io].tail = 0 /\ "sq" \notin queues'
            <4>1. Pending' = Pending
                BY <1>0, <1>1, <1>4 DEF Pending, Queue
            <4>2. stage \in 1 .. 3 => ~Pending /\ "sq" \notin queues
                BY DEF IInv, Early
            <4>3. ~setupDone' /\ IoUntouched' => stage = 3
                BY <1>0, <1>4, <2>3, <4>1, <4>2 DEF IoUntouched
            <4> QED BY <1>1, <1>4, <2>2, <4>3 DEF Queue, Io
        <3>2. ~setupDone' => \A c \in inFlight' : c.q = Admin
            BY <1>0, <1>4, <2>3 DEF QInv, Up
        <3>6. stage' > 0 => ~setupDone'
            BY <1>0, <2>3
        <3>3. setupDone' => "admin" \in queues' /\ "sq" \in queues'
            BY <1>0, <1>4, <2>1, <2>3, <2>4
        <3>4. nextCid' \in Cid /\ queues' \subseteq {"admin", "cq", "sq"}
            BY <1>0, <1>4 DEF QInv, Up
        <3>5. stage' = 0 => setupDone'
            BY <1>0, <2>3
        <3> QED BY <1>0, <3>1, <3>2, <3>3, <3>4, <3>5, <3>6 DEF Up
    <2>6. Entries'
        BY <1>0, <1>1, <1>2, <1>4 DEF QInv, Entries
    <2> QED BY <1>0, <2>5, <2>6, Quiet DEF QInv, Kept, Seen
<1>5. PICK refused \in {FALSE, MayRefuse} : SetupAnswered(e.ok /\ ~refused)
    BY <1>0 DEF TakeAnswer
<1> QED BY <1>3, <1>4, <1>5 DEF SetupAnswered

\* The call is answered.
LEMMA TakeIoDevice == ASSUME IInv, QInv, TakeAnswer, stage = 0 PROVE Kept
<1> DEFINE h == drv[Io].head
           e == cq[Io][h]
<1>0. /\ Waiting /\ Arrived(Io) /\ Taken(Io) /\ Waited = Io /\ Io \in Queue /\ Io # Admin
      /\ e.cid = want /\ want' = None /\ IoAnswered(e.ok)
      /\ UNCHANGED <<nextCid, sq, bounce, ctl, disk, ready, setupDone, stage, power, queues, inFlight>>
    BY DEF TakeAnswer, Waited, IsOwn, Queue, Admin, Io
<1>1. /\ h \in Slot /\ h \in Posted(Io) /\ e.ok \in BOOLEAN
      /\ \A r \in Queue : drv'[r].tail = drv[r].tail
      /\ \A r \in Queue, i \in Slot : cq'[r][i].ok \in BOOLEAN
    BY <1>0, TakenDevice DEF QInv, Entries
<1>2. Sent(Admin)' = Sent(Admin) /\ Sent(Io)' = Sent(Io)
    BY <1>0, <1>1 DEF Sent, Queue
<1>3. Up'
    BY <1>0, <1>1, <1>2 DEF QInv, Up, IoUntouched, Pending, Sent, Queue
<1>4. Entries'
    BY <1>0, <1>1, <1>2 DEF QInv, Entries
<1>5. ASSUME Mine PROVE Device!AnswerYes \/ Device!AnswerNo
    <2>0. call \in IoCall /\ call # None
        BY <1>0, NoneAssumption DEF IInv, Told, Waiting
    <2>1. CASE e.ok = TRUE
        <3>1. call.moved
            BY <1>0, <1>1, <1>5, <2>1 DEF Mine, IoMine, Waiting
        <3>2. call.op = "read" => bounce = disk[call.lba]
            BY <1>0, <1>5, <3>1 DEF Mine, BounceIs, Waiting
        <3> QED BY <1>0, <2>0, <2>1, <3>1, <3>2 DEF IoAnswered, Device!AnswerYes
    <2>2. CASE e.ok = FALSE
        BY <1>0, <2>2 DEF IoAnswered, Device!AnswerNo, Device!No
    <2> QED BY <1>1, <2>1, <2>2
<1> QED BY <1>0, <1>3, <1>4, <1>5, Quiet DEF QInv, Kept, Seen, Device!Next

LEMMA GiveUpDevice == ASSUME IInv, QInv, GiveUp PROVE Kept
<1>0. want' = None /\ UNCHANGED <<nextCid, drv, sq, cq, bounce, ctl, disk>>
    BY DEF GiveUp, ringVars
<1>1. Sent(Admin)' = Sent(Admin) /\ Sent(Io)' = Sent(Io)
    BY <1>0 DEF Sent
<1>2. CASE Waited = Admin
    <2>1. Abandon /\ UNCHANGED callVars
        BY <1>2 DEF GiveUp, SetupAnswered
    <2>2. ~setupDone
        BY <1>2 DEF Waited, Admin, Io, QInv, Up
    <2>3. CASE SwitchedOff
        BY <1>0, <1>1, <2>1, <2>3, OffDevice
        DEF Abandon, SwitchedOff, callVars, Seen, Kept, QInv, Entries
    <2>4. CASE UNCHANGED <<queues, inFlight>>
        BY <1>0, <2>1, <2>2, <2>4, StoppingDevice
        DEF Abandon, callVars, Seen, Kept, QInv, Entries
    <2> QED BY <2>1, <2>3, <2>4 DEF Abandon, ToldToStop
<1>3. CASE Waited # Admin
    <2>1. IoAnswered(FALSE) /\ UNCHANGED <<ready, setupDone, stage, power, queues, inFlight>>
        BY <1>3 DEF GiveUp
    <2>2. Up' /\ Entries'
        BY <1>0, <1>1, <2>1 DEF QInv, Up, IoUntouched, Entries, Pending
    <2>3. Device!AnswerNo
        BY <1>0, <2>1 DEF IoAnswered, Device!AnswerNo, Device!No
    <2> QED BY <1>0, <2>2, <2>3, Quiet DEF QInv, Kept, Seen, Device!Next
<1> QED BY <1>2, <1>3
-----------------------------------------------------------------------------
\* It has stopped at last.
LEMMA StopsDevice == ASSUME IInv, IInv', QInv, Stops PROVE Kept
<1>1. /\ UNCHANGED <<ready, setupDone, stage, want, nextCid, drv, sq, cq, ctl, bounce, disk, call, reply>>
      /\ queues' = {} /\ inFlight' = {} /\ power # "on"
    BY DEF Stops, SwitchedOff, driverVars, ringVars, callVars
<1>2. stage = 0 /\ want = None /\ ~setupDone
    <2>1. ~ready /\ stage \in 0 .. 4
        BY <1>1 DEF IInv, Told, RingsTyped
    <2> QED BY <2>1 DEF IInv, Told
<1>3. Sent(Admin)' = Sent(Admin)
    BY <1>1 DEF Sent
<1>4. \A q \in Queue : \A i \in Slot : cq'[q][i].ok \in BOOLEAN
    BY <1>1 DEF QInv, Entries
<1> QED BY <1>1, <1>2, <1>3, <1>4, OffDevice DEF Kept, Seen

\* A command moves from its ring into the controller.
LEMMA FetchDevice == ASSUME IInv, QInv, NEW q \in Queue, Fetch(q) PROVE Kept
<1> DEFINE f == ctl[q].fetch
           c == [q |-> q, cid |-> sq[q][f].cid, op |-> sq[q][f].op,
                 lba |-> sq[q][f].lba, done |-> FALSE]
<1>0. /\ Has(q) /\ f # drv[q].tail /\ inFlight' = inFlight \cup {c}
      /\ ctl' = [ctl EXCEPT ![q].fetch = Succ(f)] /\ sq' = [sq EXCEPT ![q][f] = None]
      /\ UNCHANGED <<ready, setupDone, stage, want, nextCid, drv, cq, bounce, call, reply,
                     queues, disk>>
    BY DEF Fetch, driverVars, callVars
<1>1. /\ RingsTyped /\ f \in Slot /\ drv[q].tail \in Slot
      /\ ctl'[q].fetch = Succ(f) /\ \A r \in Queue \ {q} : ctl'[r] = ctl[r] /\ sq'[r] = sq[r]
      /\ \A r \in Queue : ctl'[r].post = ctl[r].post
      /\ \A i \in Slot \ {f} : sq'[q][i] = sq[q][i]
    BY <1>0 DEF IInv, RingsTyped
<1>2. f \in Sent(q) /\ Sent(q)' \subseteq Sent(q) \ {f} /\ Sent(q) \subseteq Slot
    <2>1. Span(Succ(f), drv[q].tail) \subseteq Span(f, drv[q].tail)
        BY <1>0, <1>1, SpanShrinks
    <2>2. f \in Span(f, drv[q].tail)
        BY <1>0, <1>1, DepthIs DEF Span, Slot
    <2>3. f \notin Span(Succ(f), drv[q].tail)
        <3>1. Succ(f) = IF f + 1 = Depth THEN 0 ELSE f + 1
            BY <1>1, SuccIs
        <3> QED BY <1>0, <1>1, <3>1, DepthIs DEF Span, Slot
    <2> QED BY <1>0, <1>1, <2>1, <2>2, <2>3 DEF Sent, Span
<1>3. /\ \A i \in Sent(q)' : i \in Sent(q) /\ i # f /\ sq'[q][i] = sq[q][i]
      /\ \A r \in Queue \ {q} : Sent(r)' = Sent(r) /\ sq'[r] = sq[r]
      /\ \A r \in Queue : Posted(r)' = Posted(r)
    BY <1>0, <1>1, <1>2 DEF Sent, Posted
<1>4. ~setupDone => q = Admin
    <2>1. q # Admin => q = Io /\ IoUntouched /\ "sq" \in queues
        BY <1>0 DEF Has, IoUntouched, Queue
    <2> QED BY <1>0, <2>1 DEF QInv, Up
<1>5. Up'
    <2>1. Pending' => Pending
        BY <1>1, FetchKeepsPending
    <2>2. ~setupDone => ctl'[Io] = ctl[Io]
        BY <1>1, <1>4 DEF Queue, Admin, Io
    <2>3. ~setupDone => \A d \in inFlight' : d.q = Admin
        BY <1>0, <1>4 DEF QInv, Up
    <2>4. IoUntouched' => IoUntouched
        BY <1>0, <2>1 DEF IoUntouched
    <2> QED BY <1>0, <2>2, <2>3, <2>4 DEF QInv, Up
<1>6. Entries'
    <2>1. c.cid \in Cid /\ (c.q = Admin => c.op \notin Block)
        <3>1. CASE q = Admin
            BY <1>2, <3>1 DEF QInv, Entries
        <3>2. CASE q # Admin
            BY <1>0, <1>2, <3>2 DEF QInv, Entries, Has, Queue
        <3> QED BY <3>1, <3>2
    <2>2. \A i \in Sent(Admin)' : sq'[Admin][i].cid \in Cid /\ sq'[Admin][i].op \notin Block
        BY <1>3 DEF QInv, Entries, Queue
    <2>3. "sq" \in queues' => \A i \in Sent(Io)' : sq'[Io][i].cid \in Cid
        BY <1>0, <1>3 DEF QInv, Entries, Queue
    <2>4. \A d \in inFlight' : d.cid \in Cid /\ (d.q = Admin => d.op \notin Block)
        BY <1>0, <2>1 DEF QInv, Entries
    <2>5. \A r \in Queue : \A i \in Slot : cq'[r][i].ok \in BOOLEAN
        BY <1>0 DEF QInv, Entries
    <2> QED BY <2>2, <2>3, <2>4, <2>5 DEF Entries
<1>7. AdminMine' /\ AdminDone'
    <2>1. AdminMine'
        <3>1. CASE q = Admin
            BY <1>0, <1>2, <1>3, <3>1 DEF QInv, AdminMine
        <3>2. CASE q # Admin
            BY <1>0, <1>3, <3>2 DEF QInv, AdminMine, Queue
        <3> QED BY <3>1, <3>2
    <2>2. AdminDone'
        BY <1>0, <1>3 DEF QInv, AdminDone, Queue
    <2> QED BY <2>1, <2>2
<1>8. ASSUME Mine PROVE Mine'
    <2>1. IoMine'
        <3>1. CASE q = Io
            BY <1>0, <1>2, <1>3, <1>8, <3>1 DEF Mine, IoMine, Queue
        <3>2. CASE q # Io
            BY <1>0, <1>3, <1>8, <3>2 DEF Mine, IoMine, Queue
        <3> QED BY <3>1, <3>2
    <2>2. IoOnce'
        <3>1. CASE q = Io
            <4> SUFFICES ASSUME stage = 0, want # None
                         PROVE  IoOnce'
                BY <1>0 DEF IoOnce
            <4>1. /\ \A x, y \in inFlight : x.q = Io /\ y.q = Io /\ x.cid = want /\ y.cid = want => x = y
                  /\ \A i, j \in Sent(Io) : sq[Io][i].cid = want /\ sq[Io][j].cid = want => i = j
                  /\ \A x \in inFlight, i \in Sent(Io) : ~(x.q = Io /\ x.cid = want /\ sq[Io][i].cid = want)
                BY <1>8 DEF Mine, IoOnce
            <4>2. c.cid = sq[Io][f].cid /\ f \in Sent(Io)
                BY <1>2, <3>1
            <4>3. \A x \in inFlight : x.q = Io /\ x.cid = want => c.cid # want
                BY <4>1, <4>2
            <4>4. \A i \in Sent(Io)' : i \in Sent(Io) /\ i # f /\ sq'[Io][i] = sq[Io][i]
                BY <1>3, <3>1
            <4>5. \A i \in Sent(Io)' : sq'[Io][i].cid = want => c.cid # want
                BY <4>1, <4>2, <4>4
            <4> HIDE DEF c
            <4>6. \A x, y \in inFlight' : x.q = Io /\ y.q = Io /\ x.cid = want /\ y.cid = want => x = y
                BY <1>0, <4>1, <4>3
            <4>7. \A i, j \in Sent(Io)' : sq'[Io][i].cid = want /\ sq'[Io][j].cid = want => i = j
                BY <4>1, <4>4
            <4>8. \A x \in inFlight', i \in Sent(Io)' : ~(x.q = Io /\ x.cid = want /\ sq'[Io][i].cid = want)
                BY <1>0, <4>1, <4>4, <4>5
            <4> QED BY <1>0, <4>6, <4>7, <4>8 DEF IoOnce
        <3>2. CASE q # Io
            BY <1>0, <1>3, <1>8, <3>2 DEF Mine, IoOnce, Queue
        <3> QED BY <3>1, <3>2
    <2>3. BounceIs'
        BY <1>0, <1>8 DEF Mine, BounceIs
    <2> QED BY <2>1, <2>2, <2>3 DEF Mine
<1> QED BY <1>0, <1>5, <1>6, <1>7, <1>8 DEF QInv, Kept, Seen

\* The controller creates a queue, identifies itself, or moves the block of the call waited for.
LEMMA CarryOutDevice ==
    ASSUME IInv, QInv, NEW c \in inFlight, CarryOut(c)
    PROVE  QInv' /\ (LateData = FALSE /\ Mine => Mine' /\ Seen)
<1> DEFINE d == [c EXCEPT !.done = TRUE]
<1>0. /\ ~c.done /\ inFlight' = (inFlight \ {c}) \cup {d}
      /\ UNCHANGED <<ready, setupDone, stage, want, nextCid, drv, sq, cq, reply>>
    BY DEF CarryOut, Done, driverVars, ringVars
<1>1. /\ DOMAIN c = {"q", "cid", "op", "lba", "done"} /\ c.cid \in Cid
      /\ (c.q = Admin => c.op \notin Block) /\ c.q \in Queue /\ RingsTyped
      /\ d.q = c.q /\ d.cid = c.cid /\ d.op = c.op /\ d.lba = c.lba /\ d.done
    BY DEF IInv, Served, QInv, Entries
<1>2. CASE CreateQueue(c)
    <2>1. /\ ctl' = [ctl EXCEPT ![Io] = ControllerStart] /\ UNCHANGED <<bounce, call, disk>>
          /\ ~setupDone /\ queues \subseteq queues' /\ queues' \subseteq {"admin", "cq", "sq"}
          /\ "sq" \in queues' => c.op = "create_sq"
        BY <1>2 DEF CreateQueue, IInv, Served, QInv, Up
    <2>2. ctl'[Io].fetch = 0 /\ ctl'[Admin] = ctl[Admin]
        BY <1>1, <2>1 DEF RingsTyped, Queue, Admin, Io, ControllerStart
    <2>3. Sent(Admin)' = Sent(Admin) /\ Posted(Admin)' = Posted(Admin)
        BY <1>0, <2>2 DEF Sent, Posted
    <2>4. c.op = "create_sq" => Pending
        <3>1. c.q = Admin
            BY <1>1, <1>2 DEF CreateQueue, IInv, Served, Has, Queue
        <3> QED BY <1>0, <3>1 DEF Pending
    <2>5. Up'
        <3>1. Pending' => Pending
            <4>1. "admin" \in queues' => "admin" \in queues
                BY <1>2 DEF CreateQueue
            <4> QED BY <1>0, <1>1, <2>2, <4>1 DEF Pending
        <3>2. ~setupDone => \A e \in inFlight' : e.q = Admin
            BY <1>0, <1>1 DEF QInv, Up
        <3>3. IoUntouched' => IoUntouched
            BY <1>0, <2>1, <2>4, <3>1 DEF IoUntouched
        <3> QED BY <1>0, <2>1, <2>2, <3>2, <3>3 DEF QInv, Up
    <2>6. Entries'
        <3>1. "sq" \in queues' => Sent(Io)' = {}
            <4>1. "sq" \in queues' => drv[Io].tail = 0
                BY <2>1, <2>4 DEF QInv, Up, IoUntouched
            <4> QED BY <1>0, <2>2, <4>1, DepthIs DEF Sent, Span, Slot
        <3> QED BY <1>0, <1>1, <2>3, <3>1 DEF QInv, Entries
    <2>7. AdminMine' /\ AdminDone'
        <3>1. AdminMine'
            BY <1>0, <1>1, <2>3 DEF QInv, AdminMine
        <3>2. AdminDone'
            <4>1. ASSUME stage = 4, want # None, c.cid = want PROVE "sq" \in queues'
                BY <1>1, <1>2, <4>1, SetupIs DEF QInv, Up, AdminMine, CreateQueue
            <4> QED BY <1>0, <1>1, <2>1, <2>3, <4>1 DEF QInv, AdminDone
        <3> QED BY <3>1, <3>2
    <2>8. Mine'
        <3>1. stage = 0 => want = None
            BY <2>1 DEF QInv, Up
        <3> QED BY <1>0, <3>1 DEF Mine, IoMine, IoOnce, BounceIs
    <2> QED BY <1>0, <2>1, <2>5, <2>6, <2>7, <2>8 DEF QInv, Seen
<1>3. ASSUME UNCHANGED <<queues, ctl>>
      PROVE  /\ Up' /\ Entries' /\ AdminMine' /\ (c.op # "create_sq" => AdminDone')
             /\ IoOnce => IoOnce'
    <2>1. /\ Sent(Admin)' = Sent(Admin) /\ Sent(Io)' = Sent(Io)
          /\ Posted(Admin)' = Posted(Admin)
        BY <1>0, <1>3 DEF Sent, Posted
    <2>2. Up'
        <3>1. Pending' => Pending
            BY <1>0, <1>1, <1>3, <2>1 DEF Pending, Sent
        <3>2. ~setupDone => \A e \in inFlight' : e.q = Admin
            BY <1>0, <1>1 DEF QInv, Up
        <3>3. IoUntouched' => IoUntouched
            BY <1>0, <1>3, <3>1 DEF IoUntouched
        <3> QED BY <1>0, <1>3, <3>2, <3>3 DEF QInv, Up
    <2>3. Entries'
        BY <1>0, <1>1, <1>3, <2>1 DEF QInv, Entries
    <2>4. AdminMine'
        BY <1>0, <1>1, <2>1 DEF QInv, AdminMine
    <2>5. c.op # "create_sq" => AdminDone'
        <3>1. ASSUME stage = 4, want # None, c.cid = want, c.q = Admin PROVE c.op = "create_sq"
            BY <3>1, SetupIs DEF QInv, AdminMine
        <3> QED BY <1>0, <1>1, <1>3, <2>1, <3>1 DEF QInv, AdminDone
    <2>6. IoOnce => IoOnce'
        <3> SUFFICES ASSUME IoOnce, stage = 0, want # None
                     PROVE  IoOnce'
            BY <1>0 DEF IoOnce
        <3>1. /\ \A x, y \in inFlight : x.q = Io /\ y.q = Io /\ x.cid = want /\ y.cid = want => x = y
              /\ \A i, j \in Sent(Io) : sq[Io][i].cid = want /\ sq[Io][j].cid = want => i = j
              /\ \A x \in inFlight, i \in Sent(Io) : ~(x.q = Io /\ x.cid = want /\ sq[Io][i].cid = want)
            BY DEF IoOnce
        <3>2. d.q = c.q /\ d.cid = c.cid
            BY <1>1
        <3> HIDE DEF d
        <3>3. \A x, y \in inFlight' : x.q = Io /\ y.q = Io /\ x.cid = want /\ y.cid = want => x = y
            BY <1>0, <3>1, <3>2
        <3>4. \A x \in inFlight', i \in Sent(Io) : ~(x.q = Io /\ x.cid = want /\ sq[Io][i].cid = want)
            BY <1>0, <3>1, <3>2
        <3> QED BY <1>0, <2>1, <3>1, <3>3, <3>4 DEF IoOnce
    <2> QED BY <2>2, <2>3, <2>4, <2>5, <2>6
<1>4. CASE Identify(c)
    <2>1. UNCHANGED <<queues, ctl, bounce, call, disk>> /\ c.op \notin Block
          /\ c.op # "create_sq"
        BY <1>4 DEF Identify, Block
    <2>2. ASSUME IoMine PROVE IoMine'
        <3>1. stage = 0 /\ want # None => ~(c.q = Io /\ c.cid = want)
            BY <2>1, <2>2 DEF IoMine, IInv, Told, IoCall, Block
        <3>2. Sent(Io)' = Sent(Io) /\ Posted(Io)' = Posted(Io)
            BY <1>0, <2>1 DEF Sent, Posted
        <3> QED BY <1>0, <1>1, <2>1, <2>2, <3>1, <3>2 DEF IoMine
    <2>3. BounceIs => BounceIs'
        BY <1>0, <2>1 DEF BounceIs
    <2> QED BY <1>0, <1>3, <2>1, <2>2, <2>3 DEF QInv, Mine, Seen
<1>5. CASE MoveBlock(c)
    <2>q. QInv'
        <3>1. UNCHANGED <<queues, ctl>> /\ c.op # "create_sq"
            BY <1>5 DEF MoveBlock
        <3> QED BY <1>3, <3>1 DEF QInv
    <2> SUFFICES ASSUME LateData = FALSE, Mine
                 PROVE  Mine' /\ Seen
        BY <2>q
    <2>1. /\ c.op \in Block /\ c.op # "create_sq" /\ c.cid = want /\ c.q = Io /\ want # None
          /\ UNCHANGED <<queues, ctl>> /\ call' = [call EXCEPT !.moved = TRUE]
          /\ stage = 0
        <3>1. c.op \in Block /\ c.op # "create_sq" /\ c.cid = want
              /\ UNCHANGED <<queues, ctl>> /\ call' = [call EXCEPT !.moved = TRUE]
            BY <1>5 DEF MoveBlock, Block
        <3>2. c.q = Io /\ want # None
            BY <1>1, <3>1, CidAssumption DEF Queue
        <3>3. stage \in 0 .. 4 /\ (stage > 0 => c.q = Admin) /\ Admin # Io
            BY <1>1 DEF RingsTyped, QInv, Up, Admin, Io
        <3> QED BY <3>1, <3>2, <3>3
    <2>2. /\ call \in IoCall /\ call.op = c.op /\ call.lba = c.lba /\ ~call.moved
          /\ call # None
        BY <1>0, <2>1, NoneAssumption DEF IInv, Told, Mine, IoMine
    <2>3. /\ call'.op = call.op /\ call'.lba = call.lba /\ call'.val = call.val
          /\ call'.moved = TRUE
        BY <2>1, <2>2 DEF IoCall
    <2>4. Device!Transfer /\ BounceIs'
        <3>1. CASE call.op = "write"
            <4>1. bounce = call.val
                BY <2>1, <2>2, <3>1 DEF Mine, BounceIs
            <4>2. disk' = [disk EXCEPT ![call.lba] = call.val]
                BY <1>5, <2>2, <3>1, <4>1 DEF MoveBlock
            <4> QED BY <1>0, <2>1, <2>2, <2>3, <3>1, <4>2 DEF Device!Transfer, BounceIs
        <3>2. CASE call.op = "read"
            <4>1. bounce' = disk[call.lba] /\ disk' = disk
                BY <1>5, <2>2, <3>2 DEF MoveBlock
            <4> QED BY <1>0, <2>1, <2>2, <2>3, <3>2, <4>1 DEF Device!Transfer, BounceIs
        <3> QED BY <2>2, <3>1, <3>2 DEF IoCall
    <2>5. IoMine'
        <3>1. /\ \A e \in inFlight : e.q = Io /\ e.cid = want => e = c
              /\ \A i \in Sent(Io) : sq[Io][i].cid # want
            BY <2>1 DEF Mine, IoOnce
        <3>2. Sent(Io)' = Sent(Io)
            BY <1>0, <2>1 DEF Sent
        <3>3. ASSUME NEW e \in inFlight', e.q = Io, e.cid = want
              PROVE  e.op = call'.op /\ e.lba = call'.lba /\ e.done
            BY <1>0, <1>1, <2>2, <2>3, <3>1, <3>3
        <3> QED BY <1>0, <2>3, <3>1, <3>2, <3>3 DEF IoMine
    <2> QED BY <1>0, <1>3, <2>1, <2>4, <2>5 DEF Mine, Seen, Device!Next
<1> QED BY <1>2, <1>4, <1>5 DEF CarryOut

\* The controller posts an answer.
LEMMA AnswerDevice ==
    ASSUME IInv, QInv, NEW c \in inFlight, NEW ok \in BOOLEAN, Answer(c, ok)
    PROVE  Kept
<1> DEFINE b == ctl[c.q].post
           e == [cid |-> c.cid, phase |-> ctl[c.q].phase, ok |-> ok]
<1>0. /\ inFlight' = inFlight \ {c} /\ (ok => c.done)
      /\ UNCHANGED <<ready, setupDone, stage, want, nextCid, drv, sq, bounce, call, reply,
                     queues, disk>>
    BY DEF Answer, driverVars, callVars
<1>1. RingsTyped /\ c.q \in Queue /\ b \in Slot
    BY DEF IInv, Served, RingsTyped
<1>2. /\ cq' = [cq EXCEPT ![c.q][b] = e]
      /\ \A r \in Queue : ctl'[r].fetch = ctl[r].fetch
      /\ ctl'[c.q].post = Succ(b)
      /\ \A r \in Queue \ {c.q} : ctl'[r] = ctl[r] /\ cq'[r] = cq[r]
    BY <1>1 DEF Answer, RingsTyped
<1>3. \A r \in Queue, i \in Slot :
          IF r = c.q /\ i = b THEN cq'[r][i] = e ELSE cq'[r][i] = cq[r][i]
    BY <1>1, <1>2 DEF RingsTyped
<1>4. /\ Posted(c.q)' \subseteq Posted(c.q) \cup {b}
      /\ \A r \in Queue \ {c.q} : Posted(r)' = Posted(r)
      /\ \A r \in Queue : Sent(r)' = Sent(r) /\ Posted(r) \subseteq Slot
    <2>1. drv[c.q].head \in Slot
        BY <1>1 DEF RingsTyped
    <2>2. Span(drv[c.q].head, Succ(b)) \subseteq Span(drv[c.q].head, b) \cup {b}
        BY <1>1, <2>1, SpanGrows
    <2> QED BY <1>0, <1>1, <1>2, <2>2 DEF Posted, Sent, Span
<1>5. Up'
    <2>1. Pending' => Pending
        BY <1>0, <1>2 DEF Pending, Queue
    <2>2. IoUntouched' => IoUntouched
        BY <1>0, <2>1 DEF IoUntouched
    <2> QED BY <1>0, <1>2, <2>2 DEF QInv, Up, Queue
<1>6. Entries'
    <2>1. \A r \in Queue, i \in Slot : cq'[r][i].ok \in BOOLEAN
        <3>1. e.ok \in BOOLEAN
            OBVIOUS
        <3>2. \A r \in Queue, i \in Slot : cq[r][i].ok \in BOOLEAN
            BY DEF QInv, Entries
        <3> HIDE DEF e
        <3> QED BY <1>3, <3>1, <3>2
    <2>2. \A x \in inFlight' : x.cid \in Cid /\ (x.q = Admin => x.op \notin Block)
        BY <1>0 DEF QInv, Entries
    <2> QED BY <1>0, <1>4, <2>1, <2>2 DEF QInv, Entries, Queue
<1>7. AdminMine' /\ AdminDone'
    <2>1. AdminMine'
        BY <1>0, <1>4 DEF QInv, AdminMine, Queue
    <2>2. AdminDone'
        <3> SUFFICES ASSUME stage = 4, want # None, "sq" \notin queues
                     PROVE  AdminDone'
            BY <1>0 DEF AdminDone
        <3>1. /\ \A x \in inFlight : x.q = Admin /\ x.cid = want => ~x.done
              /\ \A i \in Posted(Admin) : cq[Admin][i].cid = want => cq[Admin][i].ok = FALSE
            BY DEF QInv, AdminDone
        <3>2. ASSUME NEW i \in Posted(Admin)', cq'[Admin][i].cid = want
              PROVE  cq'[Admin][i].ok = FALSE
            <4>1. CASE c.q = Admin /\ i = b
                BY <1>0, <1>1, <1>3, <3>1, <3>2, <4>1
            <4>2. CASE ~(c.q = Admin /\ i = b)
                BY <1>1, <1>3, <1>4, <3>1, <3>2, <4>2 DEF Queue
            <4> QED BY <4>1, <4>2
        <3> QED BY <1>0, <3>1, <3>2 DEF AdminDone
    <2> QED BY <2>1, <2>2
<1>8. ASSUME Mine PROVE Mine'
    <2>1. IoMine'
        <3> SUFFICES ASSUME stage = 0, want # None
                     PROVE  IoMine'
            BY <1>0 DEF IoMine
        <3>1. /\ \A x \in inFlight : x.q = Io /\ x.cid = want =>
                    x.op = call.op /\ x.lba = call.lba /\ (x.done <=> call.moved)
              /\ \A i \in Sent(Io) : sq[Io][i].cid = want =>
                    sq[Io][i].op = call.op /\ sq[Io][i].lba = call.lba /\ ~call.moved
              /\ \A i \in Posted(Io) : cq[Io][i].cid = want /\ cq[Io][i].ok = TRUE => call.moved
            BY <1>8 DEF Mine, IoMine
        <3>2. ASSUME NEW i \in Posted(Io)', cq'[Io][i].cid = want, cq'[Io][i].ok = TRUE
              PROVE  call.moved
            <4>1. CASE c.q = Io /\ i = b
                BY <1>0, <1>1, <1>3, <3>1, <3>2, <4>1
            <4>2. CASE ~(c.q = Io /\ i = b)
                BY <1>1, <1>3, <1>4, <3>1, <3>2, <4>2 DEF Queue
            <4> QED BY <4>1, <4>2
        <3> QED BY <1>0, <1>4, <3>1, <3>2 DEF IoMine, Queue
    <2>2. IoOnce'
        BY <1>0, <1>4, <1>8 DEF Mine, IoOnce, Queue
    <2>3. BounceIs'
        BY <1>0, <1>8 DEF Mine, BounceIs
    <2> QED BY <2>1, <2>2, <2>3 DEF Mine
<1> QED BY <1>0, <1>5, <1>6, <1>7, <1>8 DEF QInv, Kept, Seen
-----------------------------------------------------------------------------
LEMMA StartsAsDevice == Init => QInv /\ Mine /\ Device!Init
<1> SUFFICES ASSUME Init PROVE QInv /\ Mine /\ Device!Init
    OBVIOUS
<1>1. /\ stage = 0 /\ want = None /\ ~setupDone /\ inFlight = {} /\ queues = {} /\ nextCid = 1
      /\ drv[Admin] = DriverStart /\ ctl[Admin] = ControllerStart
      /\ \A q \in Queue : cq[q] = BlankCq
    BY DEF Init, Queue
<1>2. Sent(Admin) = {}
    BY <1>1, DepthIs DEF Sent, Span, Slot, DriverStart, ControllerStart
<1>3. ASSUME NEW q \in Queue, NEW i \in Slot PROVE cq[q][i].ok \in BOOLEAN
    <2>1. BlankCq[i].ok = FALSE
        BY DEF BlankCq, BlankEntry
    <2> QED BY <1>1, <2>1
<1>4. Up
    BY <1>1, <1>2, CidAssumption DEF Up, IoUntouched, Pending, Sent, Cid
<1>5. Entries
    BY <1>1, <1>2, <1>3 DEF Entries
<1>6. AdminMine /\ AdminDone /\ Mine
    BY <1>1 DEF Mine, AdminMine, AdminDone, IoMine, IoOnce, BounceIs
<1>7. Device!Init
    BY DEF Init, Device!Init, No, Device!No
<1> QED BY <1>4, <1>5, <1>6, <1>7 DEF QInv

LEMMA DeviceStep ==
    ASSUME IInv, IInv', QInv, [Next]_vars
    PROVE  QInv' /\ (LateData = FALSE /\ Mine => Mine' /\ Seen)
<1>1. ASSUME NEW lba \in Lba, StartRead(lba) PROVE Kept
    <2>1. "read" \in Block /\ None \in Val \cup {None}
        BY DEF Block
    <2> QED BY <1>1, <2>1, StartDevice DEF StartRead
<1>2. ASSUME NEW lba \in Lba, NEW val \in Val, StartWrite(lba, val) PROVE Kept
    <2>1. "write" \in Block /\ val \in Val \cup {None}
        BY DEF Block
    <2> QED BY <1>2, <2>1, StartDevice DEF StartWrite
<1>3. CASE TakeAnswer
    <2>1. stage > 0 \/ stage = 0
        BY DEF IInv, RingsTyped
    <2> QED BY <1>3, <2>1, TakeAdminDevice, TakeIoDevice DEF Kept
<1>4. CASE Driver
    BY <1>1, <1>2, <1>3, <1>4, BringUpDevice, BringUpFailsDevice, SetupSubmitDevice,
       NotReadyDevice, SkipDevice, GiveUpDevice DEF Driver, Kept
<1>5. CASE Controller
    BY <1>5, StopsDevice, FetchDevice, CarryOutDevice, AnswerDevice DEF Controller, Kept
<1>6. CASE UNCHANGED vars
    BY <1>6 DEF QInv, Up, IoUntouched, Entries, Mine, AdminMine, AdminDone, IoMine, IoOnce, BounceIs, Seen,
                Pending, Sent, Posted, vars, driverVars, ringVars, callVars, controllerVars
<1> QED BY <1>4, <1>5, <1>6 DEF Next

\* nvme_read_to and nvme_write_from do what block.c and zllog.c take them to do, for rings of
\* any size, however the bring-ups went and whatever was given up, as long as the controller
\* leaves the block of a command given up alone.
THEOREM ActsAsDevice == LateData = FALSE => (Spec => ImplementsBlockDevice)
<1> SUFFICES ASSUME LateData = FALSE PROVE Spec => ImplementsBlockDevice
    OBVIOUS
<1>1. QInv /\ Mine /\ IInv /\ IInv' /\ [Next]_vars => QInv' /\ Mine' /\ [Device!Next]_(Device!vars)
    BY DeviceStep DEF Seen, Device!vars
<1>2. Init => Device!Init /\ QInv /\ Mine
    BY StartsAsDevice
<1> QED BY <1>1, <1>2, InitHolds, Inductive, PTL DEF Spec, ImplementsBlockDevice, Device!Spec

\* Whatever bring-up failed, however late the controller stops and whatever it does with the
\* commands given up: between calls ready means that the bring-up went to the end and all
\* three queues are there, and a driver that is not ready has no read or write out.
THEOREM ReadyAlwaysWhole == Spec => []ReadyIsWhole
<1>1. QInv /\ IInv /\ IInv' /\ [Next]_vars => QInv'
    BY DeviceStep
<1>2. Init => QInv
    BY StartsAsDevice
<1>3. IInv /\ QInv => ReadyIsWhole
    <2>1. ASSUME IInv, QInv, stage = 0, ready PROVE power = "on" /\ queues = {"admin", "cq", "sq"}
        BY <2>1 DEF IInv, Told, Served, QInv, Up
    <2>2. ASSUME IInv, QInv, stage = 0, ~ready PROVE \A c \in inFlight : c.q = Admin
        BY <2>2 DEF IInv, Told, QInv, Up
    <2> QED BY <2>1, <2>2 DEF ReadyIsWhole, IInv, Told
<1> QED BY <1>1, <1>2, <1>3, InitHolds, Inductive, PTL DEF Spec
=============================================================================
