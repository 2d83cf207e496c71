----------------------------- MODULE Ring3Proofs -----------------------------
(***************************************************************************)
(* For any number of slots, identifiers, windows and register values: each *)
(* side of a switch finds its own context, mail arrives once and in order, *)
(* and no window outlives its process, also when interrupts overwrite the  *)
(* records of processes that are being resumed.                            *)
(***************************************************************************)
EXTENDS Ring3, WellFoundedInduction, TLAPS

\* Below a trap and in user mode there is a process that runs.
Running ==
    mode # "kernel" =>
        /\ cur \in Proc
        /\ cur \in struck \/ (procs[cur].state = "runnable" /\ procs[cur].started)

\* Where the context of everybody who is not on the CPU is kept.
OffCpu(p) == procs[p].state = "runnable" /\ (mode = "kernel" \/ cur # p)
Contexts ==
    /\ \A p \in Proc : OffCpu(p) =>
          IF procs[p].started \/ p \in struck
          THEN /\ procs[p].has_frame
               /\ procs[p].frame = left[p].regs /\ procs[p].fx = left[p].fpu
          ELSE procs[p].fx = 0
    /\ mode = "entering" => cur \in struck \/ fpu = 0
    /\ mode = "resuming" => procs[cur].frame = left[cur].regs /\ fpu = left[cur].fpu
    /\ mode = "trap" => trapFrame = left[cur].regs /\ fxUser = left[cur].fpu
    /\ mode # "kernel" => fxKernel = kernelFpu

\* Whose identifier is its own.
Named ==
    \A p \in Proc : /\ p \in struck => procs[p].pid \in lost
                    /\ p \notin struck /\ procs[p].state = "runnable" => procs[p].pid # None

\* The tail of an inbox is where its messages end.
Tails ==
    \A p \in Proc : LET box == procs[p].inbox
                    IN box.tail = (box.head + box.count) % IpcSlots

IInv == TypeOK /\ Running /\ Contexts /\ Tails /\ Named /\ MailInOrder /\ NoWindowOutlivesOwner
-----------------------------------------------------------------------------
Less == {ss \in Nat \X Nat : ss[1] < ss[2]}

LEMMA FirstIsIn ==
    ASSUME NEW S, S \subseteq Nat, S # {}
    PROVE  First(S) \in S
<1>1. IsWellFoundedOn(Less, Nat)
    BY NatLessThanWellFounded DEF Less, OpToRel
<1>2. PICK x \in S : \A y \in S : <<y, x>> \notin Less
    BY <1>1, WFMin
<1>3. \A y \in S : x <= y
    <2> SUFFICES ASSUME NEW y \in S PROVE x <= y
        OBVIOUS
    <2>1. x \in Nat /\ y \in Nat /\ ~(y < x)
        BY <1>2 DEF Less
    <2> QED BY <2>1
<1> QED BY <1>3 DEF First

Window == [used : BOOLEAN, owner : Pid, wm : WmSlot \cup {None}]
WindowsTyped ==
    windows \in [UserWin -> Window] /\ wm \in [WmSlot -> UserWin \cup {App, None}]

LEMMA ClosedTyped ==
    ASSUME WindowsTyped, NEW W, Closed(W)
    PROVE  WindowsTyped'
<1>1. NoWindow \in Window
    <2>1. None \in Pid
        BY DEF Pid
    <2> QED BY <2>1 DEF NoWindow, Window
<1>2. windows' \in [UserWin -> Window]
    BY <1>1 DEF Closed, WindowsTyped
<1>3. wm' \in [WmSlot -> UserWin \cup {App, None}]
    BY DEF Closed, WindowsTyped
<1> QED BY <1>2, <1>3 DEF WindowsTyped, Window

LEMMA OpenedTyped ==
    ASSUME WindowsTyped, NEW pid \in Pid, userwin_open(pid)
    PROVE  WindowsTyped'
<1> DEFINE unused == {w \in UserWin : ~windows[w].used}
           free == {s \in WmSlot : wm[s] = None}
           opened(s) == [used |-> TRUE, owner |-> pid, wm |-> s]
<1>0. UserWin \subseteq Nat /\ WmSlot \subseteq Nat
    BY Ring3Assumption
<1>1. First(unused) \in UserWin
    <2>1. unused \subseteq Nat /\ unused # {}
        BY <1>0 DEF userwin_open
    <2> QED BY <2>1, FirstIsIn
<1>2. \A s \in WmSlot \cup {None} : opened(s) \in Window
    BY DEF Window
<1>3. CASE windows' = [windows EXCEPT ![First(unused)] = opened(None)] /\ UNCHANGED wm
    BY <1>1, <1>2, <1>3 DEF WindowsTyped
<1>4. CASE /\ free # {}
           /\ windows' = [windows EXCEPT ![First(unused)] = opened(First(free))]
           /\ wm' = [wm EXCEPT ![First(free)] = First(unused)]
    <2>1. First(free) \in WmSlot
        <3>1. free \subseteq Nat /\ free # {}
            BY <1>0, <1>4
        <3> QED BY <3>1, FirstIsIn
    <2>2. opened(First(free)) \in Window
        BY <1>2, <2>1
    <2> HIDE DEF opened, unused, free
    <2> QED BY <1>1, <1>4, <2>1, <2>2 DEF WindowsTyped
<1> QED BY <1>3, <1>4 DEF userwin_open

LEMMA PlanStays == [Next]_vars => plan' = plan
BY DEF Next, vars, Load, Unload, Step, StrikeRecord, Iretq, OtherWindow, KernelWorks, UserWorks, Trap, OtherCall, Yield,
       Exit, Tick, Fault, Send, Receive, WinOpen, WinClose, Abort, BackToUser

\* The parts of TypeOK, so that a step only looks at the ones it can disturb.
CpuTyped ==
    /\ mode \in {"kernel", "entering", "resuming", "user", "trap"} /\ cur \in Proc \cup {None}
    /\ {regs, fpu, trapFrame, fxUser, fxKernel, kernelFpu} \subseteq Value
    /\ left \in [Proc -> Context]
ProcsTyped == procs \in [Proc -> Process] /\ sent \in [Proc -> Seq(Message)]
HistoryTyped == struck \subseteq Proc /\ lost \subseteq Pid /\ strikes \in Nat

LEMMA TypeParts ==
    TypeOK <=> plan \in Plans /\ CpuTyped /\ ProcsTyped /\ WindowsTyped /\ HistoryTyped
BY DEF TypeOK, CpuTyped, ProcsTyped, WindowsTyped, HistoryTyped, Window

LEMMA InboxTyped == ASSUME ProcsTyped, NEW p \in Proc
                    PROVE  procs[p] \in Process /\ procs[p].inbox \in Mailbox
BY DEF ProcsTyped, Process

LEMMA CpuStep ==
    ASSUME plan \in Plans, CpuTyped, ProcsTyped, Running, [Next]_vars
    PROVE  CpuTyped'
<1>1. Value' = Value /\ Context' = Context
    BY PlanStays DEF Value, Context
<1>2. 0 \in Value
    BY Ring3Assumption DEF Value
<1>3. \A p \in Proc : procs[p].frame \in Value /\ procs[p].fx \in Value
    BY InboxTyped DEF Process
<1>4. ASSUME NEW p \in Proc, Load(p) \/ Unload(p) \/ Step(p) PROVE CpuTyped'
    BY <1>1, <1>3, <1>4 DEF Load, Unload, Step, CpuTyped, cpuVars
<1>11. CASE StrikeRecord
    BY <1>1, <1>11 DEF StrikeRecord, CpuTyped, cpuVars
<1>12. CASE Iretq
    BY <1>1, <1>3, <1>12 DEF Iretq, CpuTyped, Running
<1>5. CASE OtherWindow \/ KernelWorks \/ UserWorks
    BY <1>1, <1>5 DEF OtherWindow, KernelWorks, UserWorks, CpuTyped, cpuVars, Context
<1>6. CASE Trap
    BY <1>1, <1>6 DEF Trap, Left, CpuTyped, Context
<1>7. CASE Tick \/ Yield \/ Exit \/ Fault
    <2>1. left' \in [Proc -> Context]
        BY <1>7 DEF Tick, Yield, Exit, Fault, Left, CpuTyped, Context
    <2> QED BY <1>1, <1>7, <2>1 DEF Tick, Yield, Exit, Fault, Abort, CpuTyped
<1>8. CASE OtherCall \/ Receive \/ WinOpen \/ WinClose
    BY <1>1, <1>8 DEF OtherCall, Receive, WinOpen, WinClose, BackToUser, CpuTyped
<1>9. ASSUME NEW pid, NEW data, Send(pid, data) PROVE CpuTyped'
    BY <1>1, <1>9 DEF Send, BackToUser, CpuTyped
<1>10. CASE UNCHANGED vars
    BY <1>1, <1>10 DEF vars, cpuVars, CpuTyped
<1> QED BY <1>4, <1>5, <1>6, <1>7, <1>8, <1>9, <1>10, <1>11, <1>12 DEF Next

LEMMA WindowStep ==
    ASSUME ProcsTyped, WindowsTyped, Running, [Next]_vars
    PROVE  WindowsTyped'
<1>1. \A p \in Proc : procs[p].pid \in Pid
    BY InboxTyped DEF Process
<1>2. ASSUME NEW pid, CloseOwner(pid) \/ UNCHANGED winVars PROVE WindowsTyped'
    BY <1>2, ClosedTyped DEF CloseOwner, winVars, WindowsTyped, Window
<1>3. ASSUME NEW p \in Proc, Load(p) \/ Unload(p) \/ Step(p) PROVE WindowsTyped'
    BY <1>2, <1>3 DEF Load, Unload, Step
<1>4. CASE OtherWindow
    BY <1>4 DEF OtherWindow, WindowsTyped, Window
<1>5. CASE Exit \/ Fault
    BY <1>2, <1>5 DEF Exit, Fault, FaultCloses
<1>6. CASE WinOpen
    BY <1>1, <1>6, OpenedTyped DEF WinOpen, Running
<1>7. CASE WinClose
    BY <1>7, ClosedTyped DEF WinClose
<1>8. ASSUME UNCHANGED winVars PROVE WindowsTyped'
    BY <1>8 DEF winVars, WindowsTyped, Window
<1> QED BY <1>3, <1>4, <1>5, <1>6, <1>7, <1>8
        DEF Next, vars, StrikeRecord, Iretq, KernelWorks, UserWorks, Trap, OtherCall, Yield, Tick,
            Send, Receive

LEMMA HistoryStep ==
    ASSUME ProcsTyped, HistoryTyped, Running, [Next]_vars
    PROVE  HistoryTyped'
<1>1. ASSUME UNCHANGED history PROVE HistoryTyped'
    BY <1>1 DEF history, HistoryTyped
<1>2. ASSUME NEW p \in Proc, Load(p) \/ Unload(p) PROVE HistoryTyped'
    BY <1>2 DEF Load, Unload, HistoryTyped
<1>3. CASE StrikeRecord
    <2>1. cur \in Proc /\ procs[cur].pid \in Pid
        BY <1>3, InboxTyped DEF StrikeRecord, Running, Process
    <2> QED BY <1>3, <2>1 DEF StrikeRecord, HistoryTyped
<1> QED BY <1>1, <1>2, <1>3
        DEF Next, vars, Step, Iretq, OtherWindow, KernelWorks, UserWorks, Trap, OtherCall, Yield, Exit,
            Tick, Fault, Send, Receive, WinOpen, WinClose, Abort, BackToUser

\* An index of an inbox goes round.
LEMMA RoundTyped == ASSUME NEW i \in 0 .. IpcSlots - 1 PROVE (i + 1) % IpcSlots \in 0 .. IpcSlots - 1
BY Ring3Assumption

LEMMA AddedTyped ==
    ASSUME NEW box \in Mailbox, box.count < IpcSlots, NEW message \in Message
    PROVE  [box EXCEPT !.ring[box.tail] = message, !.tail = (@ + 1) % IpcSlots,
                       !.count = @ + 1] \in Mailbox
<1>1. (box.tail + 1) % IpcSlots \in 0 .. IpcSlots - 1
    BY RoundTyped DEF Mailbox
<1>2. box.count + 1 \in 0 .. IpcSlots
    BY Ring3Assumption DEF Mailbox
<1>3. [box.ring EXCEPT ![box.tail] = message] \in [0 .. IpcSlots - 1 -> Message]
    BY DEF Mailbox
<1> QED BY <1>1, <1>2, <1>3 DEF Mailbox

LEMMA TakenTyped ==
    ASSUME NEW box \in Mailbox, box.count > 0
    PROVE  [box EXCEPT !.head = (@ + 1) % IpcSlots, !.count = @ - 1] \in Mailbox
<1>1. (box.head + 1) % IpcSlots \in 0 .. IpcSlots - 1
    BY RoundTyped DEF Mailbox
<1>2. box.count - 1 \in 0 .. IpcSlots
    BY Ring3Assumption DEF Mailbox
<1> QED BY <1>1, <1>2 DEF Mailbox

\* What an inbox holds, oldest first.
Contents(box) == [i \in 1 .. box.count |-> box.ring[(box.head + i - 1) % IpcSlots]]
Ends(box) == box.tail = (box.head + box.count) % IpcSlots

LEMMA SameSequence ==
    ASSUME NEW M, NEW s \in Seq(M), NEW f, DOMAIN f = 1 .. Len(s), f = [i \in DOMAIN f |-> f[i]],
           \A i \in 1 .. Len(s) : f[i] = s[i]
    PROVE  f = s
OBVIOUS

LEMMA MailLength ==
    ASSUME ProcsTyped, MailInOrder, NEW p \in Proc
    PROVE  Len(sent[p]) = procs[p].inbox.count
<1>1. sent[p] \in Seq(Message) /\ procs[p].inbox.count \in Nat
    BY InboxTyped DEF ProcsTyped, Mailbox
<1>2. DOMAIN sent[p] = 1 .. procs[p].inbox.count
    BY DEF MailInOrder, Inbox
<1> QED BY <1>1, <1>2

\* The slot i places behind the head.
Behind(h, i) == (h + i) % IpcSlots

LEMMA Round ==
    ASSUME NEW h \in 0 .. IpcSlots - 1, NEW i \in 0 .. IpcSlots
    PROVE  Behind(h, i) = IF h + i < IpcSlots THEN h + i ELSE h + i - IpcSlots
<1> DEFINE n == IpcSlots
           q == (h + i) \div n
<1>1. n \in Nat \ {0}
    BY Ring3Assumption
<1>2. h + i = n * q + ((h + i) % n) /\ q \in Int /\ (h + i) % n \in 0 .. n - 1
    BY <1>1
<1>3. h + i \in 0 .. 2 * n - 1
    BY <1>1
<1> HIDE DEF q
<1>4. q = 0 \/ q = 1
    <2>1. q < 2
        BY <1>1, <1>2, <1>3
    <2>2. q > -1
        BY <1>1, <1>2, <1>3
    <2> QED BY <1>2, <2>1, <2>2
<1> QED BY <1>1, <1>2, <1>4 DEF Behind

LEMMA NextBehind ==
    ASSUME NEW h \in 0 .. IpcSlots - 1, NEW i \in 0 .. IpcSlots - 1
    PROVE  /\ Behind(Behind(h, 1), i) = Behind(h, i + 1)
           /\ Behind(Behind(h, i), 1) = Behind(h, i + 1)
<1>1. IpcSlots \in Nat \ {0} /\ 1 \in 0 .. IpcSlots /\ i + 1 \in 0 .. IpcSlots /\ i \in 0 .. IpcSlots
    BY Ring3Assumption
<1>2. Behind(h, 1) = IF h + 1 < IpcSlots THEN h + 1 ELSE h + 1 - IpcSlots
    BY <1>1, Round
<1>3. Behind(h, i) = IF h + i < IpcSlots THEN h + i ELSE h + i - IpcSlots
    BY <1>1, Round
<1>4. Behind(h, i + 1) = IF h + (i + 1) < IpcSlots THEN h + (i + 1) ELSE h + (i + 1) - IpcSlots
    BY <1>1, Round
<1>5. Behind(h, 1) \in 0 .. IpcSlots - 1 /\ Behind(h, i) \in 0 .. IpcSlots - 1
    BY <1>1, <1>2, <1>3
<1>6. ASSUME NEW x \in 0 .. IpcSlots - 1, NEW j \in 0 .. IpcSlots
      PROVE  Behind(x, j) = IF x + j < IpcSlots THEN x + j ELSE x + j - IpcSlots
    BY Round
<1>7. Behind(Behind(h, 1), i) =
        IF Behind(h, 1) + i < IpcSlots THEN Behind(h, 1) + i ELSE Behind(h, 1) + i - IpcSlots
    BY <1>1, <1>5, <1>6
<1>8. Behind(Behind(h, i), 1) =
        IF Behind(h, i) + 1 < IpcSlots THEN Behind(h, i) + 1 ELSE Behind(h, i) + 1 - IpcSlots
    BY <1>1, <1>5, <1>6
<1> QED BY <1>1, <1>2, <1>3, <1>4, <1>7, <1>8

LEMMA ApartBehind ==
    ASSUME NEW h \in 0 .. IpcSlots - 1, NEW i \in 0 .. IpcSlots - 1, NEW j \in 0 .. IpcSlots - 1,
           i # j
    PROVE  Behind(h, i) # Behind(h, j) /\ Behind(h, i) \in 0 .. IpcSlots - 1
<1>1. IpcSlots \in Nat \ {0} /\ i \in 0 .. IpcSlots /\ j \in 0 .. IpcSlots
    BY Ring3Assumption
<1>2. Behind(h, i) = IF h + i < IpcSlots THEN h + i ELSE h + i - IpcSlots
    BY <1>1, Round
<1>3. Behind(h, j) = IF h + j < IpcSlots THEN h + j ELSE h + j - IpcSlots
    BY <1>1, Round
<1> QED BY <1>1, <1>2, <1>3

LEMMA ContentsAt ==
    ASSUME NEW box, box.head \in Nat, NEW i \in 1 .. box.count, box.count \in Nat
    PROVE  Contents(box)[i] = box.ring[Behind(box.head, i - 1)]
<1>1. box.head + i - 1 = box.head + (i - 1)
    OBVIOUS
<1>2. Contents(box)[i] = box.ring[(box.head + i - 1) % IpcSlots]
    BY DEF Contents
<1> QED BY <1>1, <1>2 DEF Behind

LEMMA ContentsAre ==
    ASSUME NEW box, box.head \in Nat, box.count \in Nat, NEW s \in Seq(Message),
           Len(s) = box.count,
           \A i \in 1 .. box.count : box.ring[Behind(box.head, i - 1)] = s[i]
    PROVE  Contents(box) = s
<1>1. /\ DOMAIN Contents(box) = 1 .. box.count
      /\ Contents(box) = [i \in DOMAIN Contents(box) |-> Contents(box)[i]]
    BY DEF Contents
<1>2. \A i \in 1 .. box.count : Contents(box)[i] = s[i]
    BY ContentsAt
<1> QED BY <1>1, <1>2, SameSequence

LEMMA AddedInOrder ==
    ASSUME NEW box \in Mailbox, box.count < IpcSlots, NEW message \in Message,
           NEW s \in Seq(Message), Contents(box) = s, Ends(box), NEW new,
           new = [box EXCEPT !.ring[box.tail] = message, !.tail = (@ + 1) % IpcSlots,
                             !.count = @ + 1]
    PROVE  Contents(new) = Append(s, message) /\ Ends(new)
<1>1. /\ IpcSlots \in Nat \ {0} /\ box.head \in 0 .. IpcSlots - 1
      /\ box.count \in 0 .. (IpcSlots - 1) /\ box.ring \in [0 .. IpcSlots - 1 -> Message]
    BY Ring3Assumption DEF Mailbox
<1>2. /\ new.head = box.head /\ new.count = box.count + 1
      /\ new.tail = Behind(box.tail, 1)
      /\ new.ring = [box.ring EXCEPT ![box.tail] = message]
    BY DEF Mailbox, Behind
<1>3. Len(s) = box.count
    BY <1>1 DEF Contents
<1>4. box.tail = Behind(box.head, box.count) /\ box.tail \in 0 .. IpcSlots - 1
    BY DEF Ends, Behind, Mailbox
<1>5. ASSUME NEW i \in 1 .. new.count
      PROVE  new.ring[Behind(new.head, i - 1)] = Append(s, message)[i]
    <2>1. CASE i = box.count + 1
        BY <1>1, <1>2, <1>3, <1>4, <2>1
    <2>2. CASE i \in 1 .. box.count
        <3>1. /\ i - 1 \in 0 .. IpcSlots - 1 /\ i - 1 # box.count
              /\ box.count \in 0 .. IpcSlots - 1
            BY <1>1, <2>2
        <3>2. Behind(box.head, i - 1) # box.tail /\ Behind(box.head, i - 1) \in 0 .. IpcSlots - 1
            BY <1>1, <1>4, <3>1, ApartBehind
        <3>3. box.ring[Behind(box.head, i - 1)] = s[i]
            BY <1>1, <2>2, ContentsAt
        <3>4. Append(s, message)[i] = s[i]
            BY <1>3, <2>2
        <3>5. new.ring[Behind(box.head, i - 1)] = box.ring[Behind(box.head, i - 1)]
            BY <1>1, <1>2, <3>2
        <3> QED BY <1>2, <3>3, <3>4, <3>5
    <2>3. i = box.count + 1 \/ i \in 1 .. box.count
        BY <1>1, <1>2
    <2> QED BY <2>1, <2>2, <2>3
<1>6. Contents(new) = Append(s, message)
    <2>1. /\ Append(s, message) \in Seq(Message) /\ Len(Append(s, message)) = new.count
          /\ new.head \in Nat /\ new.count \in Nat
        BY <1>1, <1>2, <1>3
    <2> QED BY <1>5, <2>1, ContentsAre
<1>7. Ends(new)
    <2>1. Behind(box.tail, 1) = Behind(box.head, box.count + 1)
        <3>1. box.count \in 0 .. IpcSlots - 1
            BY <1>1
        <3> QED BY <1>1, <1>4, <3>1, NextBehind
    <2> QED BY <1>2, <2>1 DEF Ends, Behind
<1> QED BY <1>6, <1>7

LEMMA TakenInOrder ==
    ASSUME NEW box \in Mailbox, box.count > 0,
           NEW s \in Seq(Message), Contents(box) = s, Ends(box), NEW new,
           new = [box EXCEPT !.head = (@ + 1) % IpcSlots, !.count = @ - 1]
    PROVE  Contents(new) = Tail(s) /\ Ends(new)
<1>1. /\ IpcSlots \in Nat \ {0} /\ box.head \in 0 .. IpcSlots - 1
      /\ box.count \in 1 .. IpcSlots
    BY Ring3Assumption DEF Mailbox
<1>2. /\ new.head = Behind(box.head, 1) /\ new.count = box.count - 1
      /\ new.tail = box.tail /\ new.ring = box.ring
    BY DEF Mailbox, Behind
<1>3. Len(s) = box.count
    BY <1>1 DEF Contents
<1>4. \A i \in 1 .. box.count : box.ring[Behind(box.head, i - 1)] = s[i]
    BY <1>1, ContentsAt
<1>5. new.head \in 0 .. IpcSlots - 1
    BY <1>1, <1>2 DEF Behind
<1>6. ASSUME NEW i \in 0 .. new.count
      PROVE  Behind(new.head, i) = Behind(box.head, i + 1)
    <2>1. i \in 0 .. IpcSlots - 1
        BY <1>1, <1>2
    <2> QED BY <1>1, <1>2, <2>1, NextBehind
<1>7. ASSUME NEW i \in 1 .. new.count
      PROVE  new.ring[Behind(new.head, i - 1)] = Tail(s)[i]
    <2>1. /\ i - 1 \in 0 .. new.count /\ i + 1 \in 1 .. box.count
          /\ (i - 1) + 1 = i /\ (i + 1) - 1 = i
        <3> DEFINE m == new.count
                   n == box.count
        <3>1. m = n - 1 /\ n \in Nat /\ i \in 1 .. m
            BY <1>1, <1>2
        <3> HIDE DEF m, n
        <3>2. i - 1 \in 0 .. m /\ i + 1 \in 1 .. n /\ (i - 1) + 1 = i /\ (i + 1) - 1 = i
            BY <3>1
        <3> QED BY <3>2 DEF m, n
    <2>2. Behind(new.head, i - 1) = Behind(box.head, i)
        BY <1>6, <2>1
    <2>3. box.ring[Behind(box.head, i)] = s[i + 1]
        BY <1>4, <2>1
    <2>4. Tail(s)[i] = s[i + 1]
        BY <1>1, <1>2, <1>3
    <2> QED BY <1>2, <2>2, <2>3, <2>4
<1>8. Contents(new) = Tail(s)
    <2>1. /\ Tail(s) \in Seq(Message) /\ Len(Tail(s)) = new.count
          /\ new.head \in Nat /\ new.count \in Nat
        BY <1>1, <1>2, <1>3, <1>5
    <2> QED BY <1>7, <2>1, ContentsAre
<1>9. Ends(new)
    <2>1. Behind(new.head, new.count) = Behind(box.head, box.count)
        <3>1. new.count \in 0 .. new.count /\ new.count + 1 = box.count
            BY <1>1, <1>2
        <3> QED BY <1>6, <3>1
    <2> QED BY <1>2, <2>1 DEF Ends, Behind
<1> QED BY <1>8, <1>9

LEMMA ProcsStep ==
    ASSUME plan \in Plans, CpuTyped, ProcsTyped, Running, MailInOrder, [Next]_vars
    PROVE  ProcsTyped'
<1>1. Value' = Value /\ Message' = Message /\ Mailbox' = Mailbox /\ Process' = Process
    BY PlanStays DEF Value, Message, Mailbox, Process
<1>2. 0 \in Value /\ IpcSlots \in Nat \ {0} /\ 0 \in 0 .. IpcSlots - 1
    BY Ring3Assumption DEF Value
<1>3. \A p \in Proc : procs[p] \in Process /\ procs[p].inbox \in Mailbox
    BY InboxTyped
<1> DEFINE Typed == procs' \in [Proc -> Process] /\ sent' \in [Proc -> Seq(Message)]
<1>4. ASSUME NEW p \in Proc, NEW r \in Process, procs' = [procs EXCEPT ![p] = r], sent' = sent
      PROVE  Typed
    BY <1>4 DEF ProcsTyped
<1>5. ASSUME UNCHANGED <<procs, sent>> PROVE Typed
    BY <1>5 DEF ProcsTyped
<1>6. ASSUME NEW p \in Proc, Load(p) PROVE Typed
    <2>1. PICK pid \in PidsOf[p] :
            procs' = [procs EXCEPT ![p] =
              [Blank EXCEPT !.pid = pid, !.state = "runnable",
                            !.frame = procs[p].frame, !.inbox = Reset(procs[p].inbox)]]
        BY <1>6 DEF Load
    <2>2. Reset(procs[p].inbox) \in Mailbox
        BY <1>2, <1>3 DEF Reset, EmptyInbox, Mailbox
    <2>3. pid \in Pid
        BY DEF Pid
    <2>4. [Blank EXCEPT !.pid = pid, !.state = "runnable",
                        !.frame = procs[p].frame, !.inbox = Reset(procs[p].inbox)] \in Process
        BY <1>2, <1>3, <2>2, <2>3 DEF Process, Blank
    <2>5. sent' \in [Proc -> Seq(Message)]
        BY <1>6 DEF ProcsTyped, Load
    <2> QED BY <2>1, <2>4, <2>5 DEF ProcsTyped
<1>7. ASSUME NEW p \in Proc, Unload(p) PROVE Typed
    <2>1. [procs[p] EXCEPT !.pid = None, !.state = "free"] \in Process
        BY <1>3 DEF Process, Pid
    <2>2. procs' = [procs EXCEPT ![p] = [procs[p] EXCEPT !.pid = None, !.state = "free"]]
        BY <1>7 DEF Unload, ProcsTyped
    <2> QED BY <1>4, <1>7, <2>1, <2>2 DEF Unload
<1>8. ASSUME NEW p \in Proc, Step(p) PROVE Typed
    <2>1. \/ procs' = [procs EXCEPT ![p] = [procs[p] EXCEPT !.started = TRUE]]
          \/ procs' = [procs EXCEPT ![p] = [procs[p] EXCEPT !.has_frame = FALSE]]
        BY <1>8 DEF Step, ProcsTyped
    <2>2. /\ [procs[p] EXCEPT !.started = TRUE] \in Process
          /\ [procs[p] EXCEPT !.has_frame = FALSE] \in Process
        BY <1>3 DEF Process
    <2> QED BY <1>4, <1>8, <2>1, <2>2 DEF Step
<1>9. ASSUME Yield \/ Tick PROVE Typed
    <2>1. PICK frame \in Value, fx \in Value :
              procs' \in {Saved(frame, fx), [Saved(frame, fx) EXCEPT ![cur].state = "runnable"]}
        BY <1>9 DEF Yield, Tick, CpuTyped
    <2>2. cur \in Proc /\ sent' = sent
        BY <1>9 DEF Yield, Tick, Abort, Running
    <2>3. [procs[cur] EXCEPT !.frame = frame, !.has_frame = TRUE, !.fx = fx] \in Process
        BY <1>3, <2>2 DEF Process
    <2>4. Saved(frame, fx) \in [Proc -> Process]
        BY <2>2, <2>3 DEF Saved, ProcsTyped
    <2>5. [Saved(frame, fx) EXCEPT ![cur].state = "runnable"] \in [Proc -> Process]
        BY <2>2, <2>4 DEF Process
    <2> QED BY <2>1, <2>2, <2>4, <2>5 DEF ProcsTyped
<1>13. ASSUME StrikeRecord PROVE Typed
    <2>1. PICK pid \in Pid, state \in {"free", "runnable", "exited", "faulted"} :
            \E started, has_frame \in BOOLEAN :
                procs' = [procs EXCEPT ![cur] = [@ EXCEPT !.pid = pid, !.state = state,
                                                  !.started = started, !.has_frame = has_frame]]
        BY <1>13 DEF StrikeRecord
    <2>2. PICK started \in BOOLEAN, has_frame \in BOOLEAN :
                procs' = [procs EXCEPT ![cur] = [@ EXCEPT !.pid = pid, !.state = state,
                                                  !.started = started, !.has_frame = has_frame]]
        BY <2>1
    <2>3. cur \in Proc /\ sent' = sent
        BY <1>13 DEF StrikeRecord, Running
    <2>4. [procs[cur] EXCEPT !.pid = pid, !.state = state, !.started = started,
                             !.has_frame = has_frame] \in Process
        BY <1>3, <2>3 DEF Process
    <2> QED BY <1>4, <2>2, <2>3, <2>4
<1>10. ASSUME Exit \/ Fault PROVE Typed
    <2>1. PICK end \in {"exited", "faulted"} :
            procs' = [procs EXCEPT ![cur] = [procs[cur] EXCEPT !.state = end]]
        BY <1>10 DEF Exit, Fault, ProcsTyped
    <2>2. cur \in Proc /\ sent' = sent
        BY <1>10 DEF Exit, Fault, Abort, Running
    <2>3. [procs[cur] EXCEPT !.state = end] \in Process
        BY <1>3, <2>2 DEF Process
    <2> QED BY <1>4, <2>1, <2>2, <2>3
<1>11. ASSUME NEW pid, NEW data \in Value, Send(pid, data) PROVE Typed
    <2>1. cur \in Proc
        BY <1>11 DEF Send, Running
    <2> DEFINE message == [from |-> procs[cur].pid, data |-> data]
               added(box) == [box EXCEPT !.ring[box.tail] = message,
                                         !.tail = (@ + 1) % IpcSlots, !.count = @ + 1]
    <2>2. message \in Message
        BY <1>3, <2>1 DEF Message, Process
    <2>3. PICK p \in Receivers(pid) :
            /\ Room(p)
            /\ procs' = [procs EXCEPT ![p].inbox = added(procs[p].inbox)]
            /\ sent' = [sent EXCEPT ![p] = Append(@, message)]
        BY <1>11 DEF Send
    <2>4. p \in Proc /\ procs[p].inbox \in Mailbox
        BY <1>3 DEF Receivers
    <2> HIDE DEF message
    <2>5. added(procs[p].inbox) \in Mailbox
        BY <1>2, <2>2, <2>3, <2>4, AddedTyped DEF Room
    <2> HIDE DEF added
    <2>6. procs' \in [Proc -> Process]
        BY <1>3, <2>3, <2>4, <2>5 DEF ProcsTyped, Process
    <2>7. sent' \in [Proc -> Seq(Message)]
        BY <2>2, <2>3, <2>4 DEF ProcsTyped
    <2> QED BY <2>6, <2>7
<1>12. ASSUME Receive PROVE Typed
    <2> DEFINE taken(box) == [box EXCEPT !.head = (@ + 1) % IpcSlots, !.count = @ - 1]
    <2>1. /\ cur \in Proc /\ procs[cur].inbox.count > 0
          /\ procs' = [procs EXCEPT ![cur].inbox = taken(procs[cur].inbox)]
          /\ sent' = [sent EXCEPT ![cur] = Tail(@)]
        BY <1>12 DEF Receive, Running
    <2>2. taken(procs[cur].inbox) \in Mailbox
        BY <1>2, <1>3, <2>1, TakenTyped
    <2> HIDE DEF taken
    <2>3. procs' \in [Proc -> Process]
        BY <1>3, <2>1, <2>2 DEF ProcsTyped, Process
    <2>4. sent[cur] \in Seq(Message) /\ sent[cur] # <<>>
        BY <1>3, <2>1, MailLength DEF ProcsTyped
    <2> QED BY <2>1, <2>3, <2>4 DEF ProcsTyped
<1> QED BY <1>1, <1>5, <1>6, <1>7, <1>8, <1>9, <1>10, <1>11, <1>12, <1>13
        DEF Next, vars, ProcsTyped, Iretq, OtherWindow, KernelWorks, UserWorks, Trap, OtherCall, WinOpen,
            WinClose

\* What does not concern an inbox leaves every inbox alone.
LEMMA InboxKept ==
    ASSUME ProcsTyped, NEW p \in Proc, NEW q,
           \/ procs' = [procs EXCEPT ![q].started = TRUE]
           \/ procs' = [procs EXCEPT ![q].has_frame = FALSE]
           \/ \E frame, fx : procs' = Saved(frame, fx)
           \/ \E end : procs' = [procs EXCEPT ![q].state = end]
           \/ Tick \/ StrikeRecord
    PROVE  procs'[p].inbox = procs[p].inbox
<1>1. p \in DOMAIN procs /\ "inbox" \in DOMAIN procs[p]
    BY DEF ProcsTyped, Process
<1>2. CASE procs' = [procs EXCEPT ![q].started = TRUE]
    BY <1>1, <1>2
<1>3. CASE procs' = [procs EXCEPT ![q].has_frame = FALSE]
    BY <1>1, <1>3
<1>4. ASSUME NEW frame, NEW fx, procs' = Saved(frame, fx)
      PROVE  procs'[p].inbox = procs[p].inbox
    BY <1>1, <1>4 DEF Saved
<1>5. ASSUME NEW end, procs' = [procs EXCEPT ![q].state = end]
      PROVE  procs'[p].inbox = procs[p].inbox
    BY <1>1, <1>5
<1>6. CASE Tick
    BY <1>1, <1>6 DEF Tick, Saved
<1>7. CASE StrikeRecord
    BY <1>1, <1>7 DEF StrikeRecord
<1> QED BY <1>2, <1>3, <1>4, <1>5, <1>6, <1>7

LEMMA MailStep ==
    ASSUME ProcsTyped, Running, Tails, MailInOrder, [Next]_vars
    PROVE  Tails' /\ MailInOrder'
<1> DEFINE InOrder(p) == Contents(procs[p].inbox) = sent[p] /\ Ends(procs[p].inbox)
<1>1. Tails /\ MailInOrder <=> \A p \in Proc : InOrder(p)
    BY DEF Tails, MailInOrder, Inbox, Contents, Ends
<1>2. Tails' /\ MailInOrder' <=> \A p \in Proc : InOrder(p)'
    BY DEF Tails, MailInOrder, Inbox, Contents, Ends
<1>3. SUFFICES ASSUME NEW p \in Proc PROVE InOrder(p)'
    BY <1>2
<1>4. /\ InOrder(p) /\ procs[p].inbox \in Mailbox /\ sent[p] \in Seq(Message)
    BY <1>1, InboxTyped DEF ProcsTyped
<1> HIDE DEF InOrder
<1>5. ASSUME procs'[p].inbox = procs[p].inbox, sent'[p] = sent[p] PROVE InOrder(p)'
    BY <1>4, <1>5 DEF InOrder, Contents, Ends
<1>6. ASSUME NEW q \in Proc, Load(q) PROVE InOrder(p)'
    <2>1. CASE q = p
        <3>1. procs'[p].inbox = Reset(procs[p].inbox) /\ sent'[p] = <<>>
            BY <1>6, <2>1 DEF Load, Blank, ProcsTyped, Process
        <3> DEFINE new == procs'[p].inbox
        <3>2. new.count = 0 /\ new.head = 0 /\ new.tail = 0
            BY <1>4, <3>1 DEF Reset, EmptyInbox, Mailbox
        <3>3. Ends(procs'[p].inbox)
            BY <3>2, Ring3Assumption DEF Ends
        <3>4. Contents(procs'[p].inbox) = <<>>
            BY <3>2 DEF Contents
        <3> QED BY <3>1, <3>3, <3>4 DEF InOrder, Contents, Ends
    <2>2. CASE q # p
        BY <1>5, <1>6, <2>2 DEF Load, ProcsTyped
    <2> QED BY <2>1, <2>2
<1>7. ASSUME NEW q \in Proc, Unload(q) \/ Step(q) PROVE InOrder(p)'
    <2>1. procs'[p].inbox = procs[p].inbox
        <3>1. CASE Unload(q)
            BY <1>4, <3>1 DEF Unload, ProcsTyped, Process
        <3>2. CASE Step(q)
            <4>1. \/ procs' = [procs EXCEPT ![q].started = TRUE]
                  \/ procs' = [procs EXCEPT ![q].has_frame = FALSE]
                BY <3>2 DEF Step
            <4> QED BY <4>1, InboxKept
        <3> QED BY <1>7, <3>1, <3>2
    <2>2. sent' = sent
        BY <1>7 DEF Unload, Step
    <2> QED BY <1>5, <2>1, <2>2
<1>8. CASE Yield \/ Tick \/ Exit \/ Fault \/ StrikeRecord
    <2>1. procs'[p].inbox = procs[p].inbox
        <3>1. \/ \E frame, fx : procs' = Saved(frame, fx)
              \/ \E end : procs' = [procs EXCEPT ![cur].state = end]
              \/ Tick \/ StrikeRecord
            BY <1>8 DEF Yield, Exit, Fault
        <3> QED BY <3>1, InboxKept
    <2>2. sent' = sent
        BY <1>8 DEF Yield, Tick, Exit, Fault, StrikeRecord, Abort
    <2> QED BY <1>5, <2>1, <2>2
<1>9. ASSUME NEW pid, NEW data \in Value, Send(pid, data) PROVE InOrder(p)'
    <2>1. cur \in Proc
        BY <1>9 DEF Send, Running
    <2> DEFINE message == [from |-> procs[cur].pid, data |-> data]
               added(box) == [box EXCEPT !.ring[box.tail] = message,
                                         !.tail = (@ + 1) % IpcSlots, !.count = @ + 1]
    <2>2. message \in Message
        BY <2>1, InboxTyped DEF Message, Process
    <2>3. PICK q \in Receivers(pid) :
            /\ procs[q].inbox.count < IpcSlots
            /\ procs' = [procs EXCEPT ![q].inbox = added(procs[q].inbox)]
            /\ sent' = [sent EXCEPT ![q] = Append(@, message)]
        BY <1>9 DEF Send, Room
    <2> HIDE DEF message
    <2>4. CASE q = p
        <3>1. procs'[p].inbox = added(procs[p].inbox) /\ sent'[p] = Append(sent[p], message)
            BY <2>3, <2>4 DEF ProcsTyped, Process
        <3>2. Contents(procs'[p].inbox) = Append(sent[p], message) /\ Ends(procs'[p].inbox)
            BY <1>4, <2>2, <2>3, <2>4, <3>1, AddedInOrder DEF InOrder
        <3> QED BY <3>1, <3>2 DEF InOrder, Contents, Ends
    <2>5. CASE q # p
        BY <1>5, <2>3, <2>5 DEF ProcsTyped
    <2> QED BY <2>4, <2>5
<1>10. CASE Receive
    <2> DEFINE taken(box) == [box EXCEPT !.head = (@ + 1) % IpcSlots, !.count = @ - 1]
    <2>1. /\ cur \in Proc /\ procs[cur].inbox.count > 0
          /\ procs' = [procs EXCEPT ![cur].inbox = taken(procs[cur].inbox)]
          /\ sent' = [sent EXCEPT ![cur] = Tail(@)]
        BY <1>10 DEF Receive, Running
    <2>2. CASE cur = p
        <3>1. procs'[p].inbox = taken(procs[p].inbox) /\ sent'[p] = Tail(sent[p])
            BY <2>1, <2>2 DEF ProcsTyped, Process
        <3>2. Contents(procs'[p].inbox) = Tail(sent[p]) /\ Ends(procs'[p].inbox)
            BY <1>4, <2>1, <2>2, <3>1, TakenInOrder DEF InOrder
        <3> QED BY <3>1, <3>2 DEF InOrder, Contents, Ends
    <2>3. CASE cur # p
        BY <1>5, <2>1, <2>3 DEF ProcsTyped
    <2> QED BY <2>2, <2>3
<1>11. CASE UNCHANGED <<procs, sent>>
    BY <1>5, <1>11
<1> QED BY <1>6, <1>7, <1>8, <1>9, <1>10, <1>11
        DEF Next, vars, Iretq, OtherWindow, KernelWorks, UserWorks, Trap, OtherCall, WinOpen, WinClose

\* The trap handlers keep the context of whoever leaves the CPU, and Load and Step of whoever enters.
LEMMA ContextStep ==
    ASSUME ProcsTyped, CpuTyped, Running, Contexts, [Next]_vars
    PROVE  Running' /\ Contexts'
<1>1. \A p \in Proc : procs[p] \in Process
    BY InboxTyped
<1>2. ASSUME NEW p \in Proc, Load(p) PROVE Running' /\ Contexts'
    <2>1. /\ ~procs'[p].started /\ procs'[p].fx = 0 /\ p \notin struck'
          /\ \A q \in Proc \ {p} : procs'[q] = procs[q] /\ (q \in struck' <=> q \in struck)
        BY <1>2 DEF Load, Blank, ProcsTyped
    <2>2. mode = "kernel" /\ mode' = "kernel" /\ left' = left
        BY <1>2 DEF Load
    <2> QED BY <2>1, <2>2 DEF Running, Contexts, OffCpu
<1>3. ASSUME NEW p \in Proc, Unload(p) PROVE Running' /\ Contexts'
    <2>1. /\ procs'[p].state = "free"
          /\ \A q \in Proc \ {p} : procs'[q] = procs[q] /\ (q \in struck' <=> q \in struck)
        BY <1>1, <1>3 DEF Unload, ProcsTyped, Process
    <2>2. mode = "kernel" /\ mode' = "kernel" /\ left' = left
        BY <1>3 DEF Unload, cpuVars
    <2> QED BY <2>1, <2>2 DEF Running, Contexts, OffCpu
<1>4. ASSUME NEW p \in Proc, Step(p) PROVE Running' /\ Contexts'
    <2>1. /\ procs'[p].state = "runnable" /\ procs'[p].started
          /\ procs'[p].frame = procs[p].frame
          /\ \A q \in Proc \ {p} : procs'[q] = procs[q]
        BY <1>1, <1>4 DEF Step, ProcsTyped, Process
    <2>2. /\ mode = "kernel" /\ cur' = p /\ left' = left /\ struck' = struck /\ OffCpu(p)
          /\ fpu' = procs[p].fx /\ fxKernel' = kernelFpu'
          /\ \/ mode' = "entering" /\ ~procs[p].started
             \/ mode' = "resuming" /\ procs[p].started
        BY <1>4 DEF Step, OffCpu, history
    <2>3. Running'
        BY <2>1, <2>2 DEF Running
    <2>4. \A q \in Proc : OffCpu(q)' => q # p /\ OffCpu(q)
        BY <2>1, <2>2 DEF OffCpu
    <2> QED BY <2>1, <2>2, <2>3, <2>4 DEF Contexts
<1>5. CASE KernelWorks \/ UserWorks \/ OtherWindow
    BY <1>5 DEF KernelWorks, UserWorks, OtherWindow, cpuVars, history, Running, Contexts, OffCpu
<1>15. CASE Iretq
    BY <1>15 DEF Iretq, history, Running, Contexts, OffCpu
<1>16. CASE StrikeRecord
    <2>1. /\ mode = "resuming" /\ UNCHANGED cpuVars /\ struck' = struck \cup {cur} /\ cur \in Proc
          /\ procs'[cur].frame = procs[cur].frame
          /\ \A p \in Proc \ {cur} : procs'[p] = procs[p]
        BY <1>1, <1>16 DEF StrikeRecord, Running, ProcsTyped, Process
    <2>2. \A p \in Proc : OffCpu(p)' => p # cur /\ OffCpu(p)
        BY <2>1 DEF OffCpu, cpuVars
    <2> QED BY <2>1, <2>2 DEF Running, Contexts, cpuVars
<1>6. ASSUME mode # "kernel", Left
      PROVE  /\ left'[cur].regs = regs /\ left'[cur].fpu = fpu
             /\ \A p \in Proc \ {cur} : left'[p] = left[p]
    BY <1>6 DEF Left, CpuTyped, Running
<1>7. CASE Trap
    <2>1. \A p \in Proc : OffCpu(p)' => p # cur /\ OffCpu(p)
        BY <1>7 DEF Trap, OffCpu
    <2> QED BY <1>6, <1>7, <2>1 DEF Trap, history, Running, Contexts
<1>8. CASE OtherCall \/ WinOpen \/ WinClose
    BY <1>8 DEF OtherCall, WinOpen, WinClose, BackToUser, history, Running, Contexts, OffCpu
<1>9. ASSUME Yield \/ Tick PROVE Running' /\ Contexts'
    <2>1. /\ mode' = "kernel" /\ mode # "kernel" /\ cur' = cur /\ cur \in Proc
          /\ struck' = struck
        BY <1>9 DEF Yield, Tick, Abort, history, Running
    <2>2. /\ procs'[cur].has_frame
          /\ procs'[cur].frame = left'[cur].regs /\ procs'[cur].fx = left'[cur].fpu
          /\ procs'[cur].started = procs[cur].started
        <3>1. CASE Yield
            <4>1. /\ procs'[cur].frame = trapFrame /\ procs'[cur].fx = fxUser
                  /\ procs'[cur].has_frame /\ left' = left
                  /\ procs'[cur].started = procs[cur].started
                BY <1>1, <2>1, <3>1 DEF Yield, Saved, ProcsTyped, Process
            <4> QED BY <3>1, <4>1 DEF Yield, Contexts
        <3>2. CASE Tick
            <4>1. /\ procs'[cur].frame = regs /\ procs'[cur].fx = fpu
                  /\ procs'[cur].has_frame /\ Left
                  /\ procs'[cur].started = procs[cur].started
                BY <1>1, <2>1, <3>2 DEF Tick, Saved, ProcsTyped, Process
            <4> QED BY <1>6, <2>1, <4>1
        <3> QED BY <1>9, <3>1, <3>2
    <2>3. cur \in struck \/ procs'[cur].started
        BY <2>1, <2>2 DEF Running
    <2>4. ASSUME NEW p \in Proc \ {cur} PROVE procs'[p] = procs[p] /\ left'[p] = left[p]
        <3>1. CASE Yield
            BY <3>1 DEF Yield, Saved, ProcsTyped
        <3>2. CASE Tick
            <4>1. procs'[p] = procs[p]
                BY <3>2 DEF Tick, Saved, ProcsTyped
            <4> QED BY <1>6, <2>1, <3>2, <4>1 DEF Tick
        <3> QED BY <1>9, <3>1, <3>2
    <2>5. \A p \in Proc \ {cur} : OffCpu(p)' => OffCpu(p)
        BY <2>1, <2>4 DEF OffCpu
    <2> QED BY <2>1, <2>2, <2>3, <2>4, <2>5 DEF Running, Contexts
<1>10. CASE Exit \/ Fault
    <2>1. /\ mode' = "kernel" /\ mode # "kernel" /\ cur' = cur /\ cur \in Proc
          /\ struck' = struck /\ left' = left
          /\ procs'[cur].state # "runnable"
          /\ \A p \in Proc \ {cur} : procs'[p] = procs[p]
        BY <1>1, <1>10 DEF Exit, Fault, Abort, history, Running, ProcsTyped, Process
    <2>2. \A p \in Proc : OffCpu(p)' => p # cur /\ OffCpu(p)
        BY <2>1 DEF OffCpu
    <2> QED BY <2>1, <2>2 DEF Running, Contexts
<1>11. ASSUME \E q \in Proc : \E box : procs' = [procs EXCEPT ![q].inbox = box], BackToUser,
              mode = "trap"
       PROVE  Running' /\ Contexts'
    <2>1. \A p \in Proc : /\ procs'[p].state = procs[p].state
                          /\ procs'[p].started = procs[p].started
                          /\ procs'[p].has_frame = procs[p].has_frame
                          /\ procs'[p].frame = procs[p].frame /\ procs'[p].fx = procs[p].fx
        BY <1>1, <1>11 DEF ProcsTyped, Process
    <2>2. \A p \in Proc : OffCpu(p)' => OffCpu(p)
        BY <1>11, <2>1 DEF BackToUser, OffCpu
    <2> QED BY <1>11, <2>1, <2>2 DEF BackToUser, history, Running, Contexts
<1>12. CASE Receive
    BY <1>11, <1>12 DEF Receive, Running
<1>13. ASSUME NEW pid, NEW data, Send(pid, data) PROVE Running' /\ Contexts'
    BY <1>11, <1>13 DEF Send, Receivers
<1>14. CASE UNCHANGED vars
    BY <1>14 DEF vars, cpuVars, history, Running, Contexts, OffCpu
<1> QED BY <1>2, <1>3, <1>4, <1>5, <1>7, <1>8, <1>9, <1>10, <1>12, <1>13, <1>14, <1>15, <1>16 DEF Next

\* A window stays with a process that may run.
Owned(w) ==
    \/ windows[w].owner \in lost
    \/ \E p \in Proc : procs[p].pid = windows[w].owner /\ procs[p].state = "runnable"

LEMMA NamedStep ==
    ASSUME ProcsTyped, Running, Named, [Next]_vars
    PROVE  Named'
<1>1. \A p \in Proc : procs[p] \in Process
    BY InboxTyped
<1>2. ASSUME UNCHANGED history,
             \A p \in Proc : /\ procs'[p].pid = procs[p].pid
                             /\ \/ procs'[p].state # "runnable" \/ procs[p].state = "runnable"
                                \/ p \in struck
      PROVE  Named'
    BY <1>2 DEF history, Named
<1>3. ASSUME NEW p \in Proc, Load(p) PROVE Named'
    <2>1. /\ procs'[p].pid \in PidsOf[p] /\ p \notin struck' /\ lost' = lost
          /\ \A q \in Proc \ {p} : procs'[q] = procs[q] /\ (q \in struck' <=> q \in struck)
        BY <1>3 DEF Load, ProcsTyped, Blank
    <2> QED BY <2>1, Ring3Assumption DEF Named
<1>4. ASSUME NEW p \in Proc, Unload(p) PROVE Named'
    <2>1. /\ procs'[p].state = "free" /\ p \notin struck' /\ lost' = lost
          /\ \A q \in Proc \ {p} : procs'[q] = procs[q] /\ (q \in struck' <=> q \in struck)
        BY <1>1, <1>4 DEF Unload, ProcsTyped, Process
    <2> QED BY <2>1 DEF Named
<1>5. ASSUME NEW p \in Proc, Step(p) PROVE Named'
    <2>1. ASSUME NEW q \in Proc
          PROVE  procs'[q].pid = procs[q].pid /\ procs'[q].state = procs[q].state
        <3>1. DOMAIN procs[q] = DOMAIN Blank /\ q \in DOMAIN procs
            BY <1>1 DEF ProcsTyped, Process, Blank
        <3>2. CASE procs' = [procs EXCEPT ![p].started = TRUE]
            BY <3>1, <3>2 DEF Blank
        <3>3. CASE procs' = [procs EXCEPT ![p].has_frame = FALSE]
            BY <3>1, <3>3 DEF Blank
        <3> QED BY <1>5, <3>2, <3>3 DEF Step
    <2> QED BY <1>2, <1>5, <2>1 DEF Step
<1>6. CASE StrikeRecord
    <2>1. cur \in Proc /\ struck' = struck \cup {cur}
        BY <1>6 DEF StrikeRecord, Running
    <2>2. \A p \in Proc \ {cur} : procs'[p] = procs[p]
        BY <1>6 DEF StrikeRecord, ProcsTyped
    <2>3. procs'[cur].pid \in lost' /\ lost \subseteq lost'
        BY <1>1, <1>6, <2>1 DEF StrikeRecord, ProcsTyped, Process
    <2> QED BY <2>1, <2>2, <2>3 DEF Named
<1>7. CASE Yield \/ Tick \/ Exit \/ Fault
    <2>1. cur \in Proc /\ UNCHANGED history
        BY <1>7 DEF Yield, Tick, Exit, Fault, Abort, Running
    <2>2. cur \in struck \/ procs[cur].state = "runnable"
        BY <1>7 DEF Yield, Tick, Exit, Fault, Running
    <2>3. procs'[cur].pid = procs[cur].pid
        <3>1. CASE Yield
            BY <1>1, <2>1, <3>1 DEF Yield, Saved, ProcsTyped, Process
        <3>2. CASE Tick
            BY <1>1, <2>1, <3>2 DEF Tick, Saved, ProcsTyped, Process
        <3>3. CASE Exit \/ Fault
            BY <1>1, <2>1, <3>3 DEF Exit, Fault, ProcsTyped, Process
        <3> QED BY <1>7, <3>1, <3>2, <3>3
    <2>4. \A p \in Proc \ {cur} : procs'[p] = procs[p]
        BY <1>7 DEF Yield, Tick, Exit, Fault, Saved, ProcsTyped
    <2> QED BY <1>2, <2>1, <2>2, <2>3, <2>4
<1>8. ASSUME NEW q, NEW box, procs' = [procs EXCEPT ![q].inbox = box], UNCHANGED history
      PROVE  Named'
    <2>1. \A p \in Proc : procs'[p].state = procs[p].state /\ procs'[p].pid = procs[p].pid
        BY <1>1, <1>8 DEF ProcsTyped, Process
    <2> QED BY <1>2, <1>8, <2>1
<1>9. ASSUME NEW pid, NEW data, Send(pid, data) PROVE Named'
    BY <1>8, <1>9 DEF Send, BackToUser
<1>10. CASE Receive
    BY <1>8, <1>10 DEF Receive, BackToUser
<1>11. ASSUME UNCHANGED <<procs, history>> PROVE Named'
    BY <1>2, <1>11
<1> QED BY <1>3, <1>4, <1>5, <1>6, <1>7, <1>9, <1>10, <1>11
        DEF Next, vars, Iretq, OtherWindow, KernelWorks, UserWorks, Trap, OtherCall, WinOpen,
            WinClose, BackToUser

LEMMA ClosingHolds ==
    ASSUME WindowsTyped, NoWindowOutlivesOwner, NEW W, Closed(W)
    PROVE  /\ \A w \in UserWin : windows'[w].used => w \notin W /\ windows'[w] = windows[w]
           /\ \A s \in WmSlot, w \in UserWin :
                wm'[s] = w => windows'[w].used /\ windows'[w].wm = s
<1>1. None \notin UserWin
    BY Ring3Assumption
<1>2. \A w \in UserWin : windows'[w] = IF w \in W THEN NoWindow ELSE windows[w]
    BY DEF Closed, WindowsTyped
<1>3. \A s \in WmSlot : wm'[s] = IF \E w \in W : windows[w].wm = s THEN None ELSE wm[s]
    BY DEF Closed, WindowsTyped
<1>4. ~NoWindow.used
    BY DEF NoWindow
<1>5. ASSUME NEW s \in WmSlot, NEW w \in UserWin, wm'[s] = w
      PROVE  windows'[w].used /\ windows'[w].wm = s
    <2>1. wm[s] = w /\ ~\E v \in W : windows[v].wm = s
        BY <1>1, <1>3, <1>5
    <2>2. windows[w].used /\ windows[w].wm = s
        BY <2>1 DEF NoWindowOutlivesOwner
    <2> QED BY <1>2, <2>1, <2>2
<1> QED BY <1>2, <1>4, <1>5

LEMMA OpeningHolds ==
    ASSUME WindowsTyped, NoWindowOutlivesOwner, NEW pid, userwin_open(pid)
    PROVE  /\ \A w \in UserWin : windows'[w].used => \/ windows'[w].owner = pid
                                                     \/ windows'[w] = windows[w]
           /\ \A s \in WmSlot, w \in UserWin :
                wm'[s] = w => windows'[w].used /\ windows'[w].wm = s
<1> DEFINE unused == {w \in UserWin : ~windows[w].used}
           free == {s \in WmSlot : wm[s] = None}
           new == First(unused)
           opened(s) == [used |-> TRUE, owner |-> pid, wm |-> s]
<1>0. UserWin \subseteq Nat /\ WmSlot \subseteq Nat
    BY Ring3Assumption
<1>1. new \in UserWin /\ ~windows[new].used
    <2>1. unused \subseteq Nat /\ unused # {}
        BY <1>0 DEF userwin_open
    <2> QED BY <2>1, FirstIsIn
<1>2. \A s \in WmSlot : wm[s] # new
    BY <1>1 DEF NoWindowOutlivesOwner
<1>3. CASE windows' = [windows EXCEPT ![new] = opened(None)] /\ UNCHANGED wm
    BY <1>1, <1>2, <1>3 DEF WindowsTyped, NoWindowOutlivesOwner
<1>4. CASE /\ free # {}
           /\ windows' = [windows EXCEPT ![new] = opened(First(free))]
           /\ wm' = [wm EXCEPT ![First(free)] = new]
    <2>1. First(free) \in WmSlot
        <3>1. free \subseteq Nat
            BY <1>0
        <3> QED BY <1>4, <3>1, FirstIsIn
    <2> HIDE DEF new, free
    <2> QED BY <1>1, <1>2, <1>4, <2>1 DEF WindowsTyped, NoWindowOutlivesOwner
<1> QED BY <1>3, <1>4 DEF userwin_open

LEMMA OwnersHold ==
    ASSUME ProcsTyped, WindowsTyped, Running, Named, NoWindowOutlivesOwner, [Next]_vars
    PROVE  NoWindowOutlivesOwner'
<1>1. \A p \in Proc : procs[p] \in Process
    BY InboxTyped
<1>2. \A w \in UserWin : windows[w].used => Owned(w)
    BY DEF NoWindowOutlivesOwner, Owned
\* Only p ceases to own, and all it owned is closed.
<1>3. ASSUME NEW p \in Proc, CloseOwner(procs[p].pid), lost' = lost,
             \A q \in Proc \ {p} : procs'[q] = procs[q]
      PROVE  NoWindowOutlivesOwner'
    <2>1. ASSUME NEW w \in UserWin, windows'[w].used PROVE Owned(w)'
        <3>1. w \notin OwnedBy(procs[p].pid) /\ windows'[w] = windows[w]
            BY <1>3, <2>1, ClosingHolds DEF CloseOwner
        <3>2. CASE windows[w].owner \in lost
            BY <1>3, <3>1, <3>2 DEF Owned
        <3>3. CASE windows[w].owner \notin lost
            <4>1. PICK q \in Proc : procs[q].pid = windows[w].owner /\ procs[q].state = "runnable"
                BY <1>2, <2>1, <3>1, <3>3 DEF Owned
            <4>2. q # p
                BY <2>1, <3>1, <4>1 DEF OwnedBy
            <4> QED BY <1>3, <3>1, <4>1, <4>2 DEF Owned
        <3> QED BY <3>2, <3>3
    <2>2. \A s \in WmSlot, w \in UserWin : wm'[s] = w => windows'[w].used /\ windows'[w].wm = s
        BY <1>3, ClosingHolds DEF CloseOwner
    <2> QED BY <2>1, <2>2 DEF NoWindowOutlivesOwner, Owned
\* Who may run, may run on, and the windows of nobody new are changed.
<1>4. ASSUME \A p \in Proc : procs[p].state = "runnable" /\ procs[p].pid \notin lost' =>
                procs'[p].state = "runnable" /\ procs'[p].pid = procs[p].pid,
             lost \subseteq lost',
             \A w \in UserWin : windows'[w].used => windows'[w] = windows[w],
             \A s \in WmSlot, w \in UserWin :
                wm'[s] = w => windows'[w].used /\ windows'[w].wm = s
      PROVE  NoWindowOutlivesOwner'
    BY <1>2, <1>4 DEF NoWindowOutlivesOwner, Owned
<1>5. ASSUME \A p \in Proc : procs[p].state = "runnable" /\ procs[p].pid \notin lost' =>
                procs'[p].state = "runnable" /\ procs'[p].pid = procs[p].pid,
             lost \subseteq lost',
             UNCHANGED winVars
      PROVE  NoWindowOutlivesOwner'
    BY <1>4, <1>5 DEF winVars, NoWindowOutlivesOwner
<1>6. ASSUME NEW p \in Proc, Load(p) PROVE NoWindowOutlivesOwner'
    <2>1. \A q \in Proc \ {p} : procs'[q] = procs[q]
        BY <1>6 DEF Load, ProcsTyped
    <2>2. CASE procs[p].state # "free" /\ procs[p].pid # None
        BY <1>3, <1>6, <2>1, <2>2 DEF Load
    <2>3. CASE procs[p].state = "free" \/ procs[p].pid = None
        <3>1. UNCHANGED winVars /\ lost' = lost
            BY <1>6, <2>3 DEF Load
        <3>2. procs[p].state # "runnable" \/ procs[p].pid \in lost
            BY <2>3 DEF Named
        <3> QED BY <1>5, <2>1, <3>1, <3>2
    <2> QED BY <2>2, <2>3
<1>7. ASSUME NEW p \in Proc, Unload(p) PROVE NoWindowOutlivesOwner'
    <2>1. \A q \in Proc \ {p} : procs'[q] = procs[q]
        BY <1>7 DEF Unload, ProcsTyped
    <2> QED BY <1>3, <1>7, <2>1 DEF Unload
<1>8. ASSUME NEW p \in Proc, Step(p) PROVE NoWindowOutlivesOwner'
    <2>1. \A q \in Proc : procs'[q].state = procs[q].state /\ procs'[q].pid = procs[q].pid
        <3>1. \/ procs' = [procs EXCEPT ![p].started = TRUE]
              \/ procs' = [procs EXCEPT ![p].has_frame = FALSE]
            BY <1>8 DEF Step
        <3>2. ASSUME NEW q \in Proc PROVE DOMAIN procs[q] = DOMAIN Blank /\ q \in DOMAIN procs
            BY <1>1 DEF ProcsTyped, Process, Blank
        <3>3. CASE procs' = [procs EXCEPT ![p].started = TRUE]
            BY <3>2, <3>3 DEF Blank
        <3>4. CASE procs' = [procs EXCEPT ![p].has_frame = FALSE]
            BY <3>2, <3>4 DEF Blank
        <3> QED BY <3>1, <3>3, <3>4
    <2> QED BY <1>5, <1>8, <2>1 DEF Step, history
<1>9. CASE Yield \/ Tick
    <2>1. ASSUME NEW q \in Proc
          PROVE  /\ procs'[q].pid = procs[q].pid
                 /\ procs[q].state = "runnable" => procs'[q].state = "runnable"
        <3>1. CASE Yield
            BY <1>1, <3>1 DEF Yield, Saved, ProcsTyped, Process
        <3>2. CASE Tick
            BY <1>1, <3>2 DEF Tick, Saved, ProcsTyped, Process
        <3> QED BY <1>9, <3>1, <3>2
    <2> QED BY <1>5, <1>9, <2>1 DEF Yield, Tick, Abort, history
\* What the overwritten record owned is exempt.
<1>18. CASE StrikeRecord
    <2>1. cur \in Proc /\ lost \subseteq lost' /\ procs[cur].pid \in lost' /\ UNCHANGED winVars
        BY <1>18 DEF StrikeRecord, Running
    <2>2. \A q \in Proc \ {cur} : procs'[q] = procs[q]
        BY <1>18 DEF StrikeRecord, ProcsTyped
    <2> QED BY <1>5, <2>1, <2>2
<1>10. CASE Exit \/ Fault
    <2>1. CloseOwner(procs[cur].pid) /\ cur \in Proc
        BY <1>10 DEF Exit, Fault, FaultCloses, Running
    <2>2. \A q \in Proc \ {cur} : procs'[q] = procs[q]
        BY <1>10 DEF Exit, Fault, ProcsTyped
    <2>3. lost' = lost
        BY <1>10 DEF Exit, Fault, Abort, history
    <2> QED BY <1>3, <2>1, <2>2, <2>3
<1>11. ASSUME NEW q, NEW box, procs' = [procs EXCEPT ![q].inbox = box], UNCHANGED winVars,
              lost' = lost
       PROVE  NoWindowOutlivesOwner'
    <2>1. \A p \in Proc : procs'[p].state = procs[p].state /\ procs'[p].pid = procs[p].pid
        BY <1>1, <1>11 DEF ProcsTyped, Process
    <2> QED BY <1>5, <1>11, <2>1
<1>12. CASE Receive
    BY <1>11, <1>12 DEF Receive, BackToUser, history
<1>13. ASSUME NEW pid, NEW data, Send(pid, data) PROVE NoWindowOutlivesOwner'
    BY <1>11, <1>13 DEF Send, BackToUser, history
<1>14. CASE WinOpen
    <2>1. userwin_open(procs[cur].pid) /\ procs' = procs /\ lost' = lost
        BY <1>14 DEF WinOpen, BackToUser, history
    <2>2. cur \in Proc /\ (procs[cur].state = "runnable" \/ procs[cur].pid \in lost)
        BY <1>14 DEF WinOpen, Running, Named
    <2> QED BY <1>2, <2>1, <2>2, OpeningHolds DEF NoWindowOutlivesOwner, Owned
<1>15. CASE WinClose
    <2>1. PICK W : Closed(W)
        BY <1>15 DEF WinClose
    <2> QED BY <1>4, <1>15, <2>1, ClosingHolds DEF WinClose, BackToUser, history
<1>16. CASE OtherWindow
    <2>1. None \notin UserWin /\ App \notin UserWin
        BY Ring3Assumption
    <2>2. \A s \in WmSlot, w \in UserWin : wm'[s] = w => wm[s] = w
        BY <1>16, <2>1 DEF OtherWindow, WindowsTyped
    <2> QED BY <1>4, <1>16, <2>2 DEF OtherWindow, history, NoWindowOutlivesOwner
<1>17. ASSUME UNCHANGED <<procs, winVars, history>> PROVE NoWindowOutlivesOwner'
    BY <1>5, <1>17 DEF history
<1> QED BY <1>6, <1>7, <1>8, <1>9, <1>10, <1>12, <1>13, <1>14, <1>15, <1>16, <1>17, <1>18
        DEF Next, vars, Iretq, KernelWorks, UserWorks, Trap, OtherCall, BackToUser
-----------------------------------------------------------------------------
LEMMA InitHolds == Init => IInv
<1> SUFFICES ASSUME Init PROVE IInv
    OBVIOUS
<1>1. 0 \in Value /\ IpcSlots \in Nat \ {0} /\ None \notin UserWin
    BY Ring3Assumption DEF Init, Value
<1>2. EmptyInbox \in Mailbox
    <2>1. NoMessage \in Message
        BY <1>1 DEF NoMessage, Message, Pid
    <2> QED BY <1>1, <2>1 DEF EmptyInbox, Mailbox
<1>3. Blank \in Process
    BY <1>1, <1>2 DEF Blank, Process, Pid
<1>4. NoWindow \in Window
    BY DEF NoWindow, Window, Pid
<1>5. TypeOK
    BY <1>1, <1>3, <1>4 DEF Init, TypeOK, Context, Window
<1>6. Running /\ Contexts
    BY DEF Init, Running, Contexts, OffCpu, Blank
<1>7. Tails
    <2>1. ASSUME NEW p \in Proc
          PROVE  procs[p].inbox.tail = 0 /\ procs[p].inbox.head = 0 /\ procs[p].inbox.count = 0
        BY DEF Init, Blank, EmptyInbox
    <2>2. (0 + 0) % IpcSlots = 0
        BY <1>1
    <2> QED BY <2>1, <2>2 DEF Tails
<1>8. MailInOrder
    <2>1. ASSUME NEW p \in Proc PROVE Inbox(p) = sent[p]
        <3>1. procs[p].inbox.count = 0 /\ sent[p] = <<>>
            BY DEF Init, Blank, EmptyInbox
        <3> QED BY <3>1 DEF Inbox
    <2> QED BY <2>1 DEF MailInOrder
<1>9. NoWindowOutlivesOwner
    BY <1>1 DEF Init, NoWindowOutlivesOwner, NoWindow
<1>10. Named
    BY DEF Init, Named, Blank
<1> QED BY <1>5, <1>6, <1>7, <1>8, <1>9, <1>10 DEF IInv

LEMMA Inductive == IInv /\ [Next]_vars => IInv'
<1> SUFFICES ASSUME IInv, [Next]_vars PROVE IInv'
    OBVIOUS
<1>1. /\ plan \in Plans /\ CpuTyped /\ ProcsTyped /\ WindowsTyped
      /\ HistoryTyped /\ Running /\ Contexts /\ Tails /\ Named /\ MailInOrder
      /\ NoWindowOutlivesOwner
    BY TypeParts DEF IInv
<1>2. TypeOK'
    <2>1. plan' \in Plans' /\ CpuTyped' /\ ProcsTyped' /\ WindowsTyped' /\ HistoryTyped'
        BY <1>1, PlanStays, CpuStep, ProcsStep, WindowStep, HistoryStep
    <2> QED BY <2>1 DEF TypeOK, CpuTyped, ProcsTyped, WindowsTyped, HistoryTyped, Window
<1> QED BY <1>1, <1>2, MailStep, ContextStep, NamedStep, OwnersHold DEF IInv

LEMMA Invariant == Spec => []IInv
BY InitHolds, Inductive, PTL DEF Spec

\* Slots, frames, inboxes and windows keep their form, whatever the numbers of each.
THEOREM TypeCorrect == Spec => []TypeOK
<1>1. IInv => TypeOK
    BY DEF IInv
<1> QED BY Invariant, <1>1, PTL

\* usermode.c:1005-1028: an inbox gives every accepted message once, in order and only to the load
\* it was sent to, for any number of slots and messages.
THEOREM MailAlwaysInOrder == Spec => []MailInOrder
<1>1. IInv => MailInOrder
    BY DEF IInv
<1> QED BY Invariant, <1>1, PTL

\* userwin.c:148: a process takes its windows with it however it ends, whatever the user and other
\* applications open and close meanwhile.
THEOREM WindowsGoWithOwner == Spec => []NoWindowOutlivesOwner
<1>1. IInv => NoWindowOutlivesOwner
    BY DEF IInv
<1> QED BY Invariant, <1>1, PTL

\* usermode.c:1083-1155 and the trap stubs: for any number of processes and any contents of the
\* registers and the FPU, whoever is resumed finds its own context, and the kernel its FPU state.
\* An interrupt in user64_resume_asm may overwrite the record, and so the process be started anew
\* with its old FPU state; nobody's context is mixed up by it.
THEOREM ContextsNeverMix == Spec => EachResumesItsOwn
<1> DEFINE Resumable ==
              \A p \in Proc :
                  procs[p].state = "runnable" /\ procs[p].started /\ (mode = "kernel" \/ cur # p)
                      => procs[p].has_frame
           Switch ==
              /\ mode # "user" /\ mode' = "user" =>
                    IF mode = "entering" THEN cur \in struck \/ fpu' = 0 ELSE ComesBack(cur)
              /\ mode # "kernel" /\ mode' = "kernel" => fpu' = kernelFpu
<1>1. IInv => Resumable
    BY DEF IInv, Contexts, OffCpu
<1>2. IInv /\ [Next]_vars => [Switch]_vars
    <2> SUFFICES ASSUME IInv, Next PROVE Switch
        BY DEF vars
    <2>1. CpuTyped /\ Running /\ Contexts
        BY TypeParts DEF IInv
    <2>2. \A p \in Proc : left[p] = [regs |-> left[p].regs, fpu |-> left[p].fpu]
        BY <2>1 DEF CpuTyped, Context
    <2>3. CASE Iretq
        <3>1. CASE mode = "entering"
            BY <2>1, <2>3, <3>1 DEF Iretq, Contexts
        <3>2. CASE mode = "resuming"
            <4>1. regs' = left[cur].regs /\ fpu' = left[cur].fpu /\ cur \in Proc
                BY <2>1, <2>3, <3>2 DEF Iretq, Contexts, Running
            <4> QED BY <2>2, <2>3, <3>2, <4>1 DEF Iretq, ComesBack
        <3> QED BY <2>3, <3>1, <3>2 DEF Iretq
    <2>4. CASE mode = "trap" /\ BackToUser
        <3>1. mode' = "user" /\ cur' = cur /\ cur \in Proc
            BY <2>1, <2>4 DEF BackToUser, Running
        <3>2. regs' = left[cur].regs /\ fpu' = left[cur].fpu
            BY <2>1, <2>4 DEF BackToUser, Contexts
        <3> QED BY <2>4, <2>2, <3>1, <3>2 DEF ComesBack
    <2>5. CASE mode # "kernel" /\ Abort
        BY <2>1, <2>5 DEF Abort, Contexts
    <2>6. CASE mode' = mode \/ mode' \in {"trap", "entering", "resuming"}
        BY <2>6
    <2> QED BY <2>1, <2>3, <2>4, <2>5, <2>6
            DEF Next, CpuTyped, Load, Unload, Step, StrikeRecord, OtherWindow, KernelWorks, UserWorks,
                Trap, OtherCall, Yield, Exit, Tick, Fault, Send, Receive, WinOpen, WinClose, cpuVars
<1> HIDE DEF Resumable, Switch
<1>3. Spec => []Resumable /\ [][Switch]_vars
    BY Invariant, <1>1, <1>2, PTL DEF Spec
<1> QED BY <1>3 DEF EachResumesItsOwn, Resumable, Switch
=============================================================================
