-------------------------------- MODULE Ring3 --------------------------------
(***************************************************************************)
(* Ring-3 processes: arch/x86/usermode.c (entering, system calls, the      *)
(* timer, faults, messages) and graphics/windowing/userwin.c (the windows  *)
(* of a process, beside the window manager's own).  One CPU: user code     *)
(* runs until it traps, the kernel until it returns.  Gates shut interrupts*)
(* out, so a trap is handled in one piece; on the way into user mode they  *)
(* are on, and a resumed process is loaded from the top of a stack that is *)
(* its own record.  The kernel side of an address space is ProcessSpace;   *)
(* files are reached by handles and left out.                              *)
(***************************************************************************)
EXTENDS Naturals, Sequences

CONSTANTS
    Proc,       \* process slots (U64_PROCS)
    PidsOf,     \* the process identifiers each slot is loaded with
    IpcSlots,   \* messages an inbox holds (U64_IPC_SLOTS)
    UserWin,    \* windows processes may have (USERWIN_MAX)
    WmSlot,     \* windows the window manager has (WM_MAX)
    App,        \* a window that belongs to no process
    None,
    Plans       \* which calls processes make, which register values they use, and how
                \* often an interrupt overwrites a record

Call == {"yield", "exit", "fault", "send", "receive", "win_open", "win_close"}

ASSUME Ring3Assumption ==
    /\ IpcSlots \in Nat \ {0} /\ WmSlot \subseteq Nat /\ UserWin \subseteq Nat
    /\ None \notin UserWin /\ App \notin UserWin
    /\ \A p, q \in Proc : p # q => PidsOf[p] \cap PidsOf[q] = {}
    /\ \A p \in Proc : None \notin PidsOf[p]
    /\ \A plan \in Plans : plan.calls \subseteq Call /\ 0 \in plan.values
                             /\ plan.strikes \in Nat

VARIABLES
    plan,
    mode,       \* who runs: "kernel", "entering" and "resuming" (the stubs on the way to
                \* user mode), "user", or "trap" (kernel code below a trap)
    cur,        \* proc64, the process entered last
    regs, fpu,  \* the CPU's registers and FPU state
    trapFrame,  \* the registers saved at the top of the trap
    fxUser,     \* user64_fx_user
    fxKernel,   \* user64_fx_kernel
    procs,      \* procs64[] and procs64_fx[]
    windows,    \* userwin.c: windows[]
    wm,         \* what each window of the window manager shows
    left,       \* history: the state in which each process last left user mode
    kernelFpu,  \* history: the kernel's FPU state when it last entered a process
    sent,       \* history: the messages accepted for each process and not yet taken
    struck,     \* history: the slots whose record an interrupt overwrote since their load
    lost,       \* history: the identifiers those records had before and after
    strikes     \* how often that happened

cpuVars == <<mode, cur, regs, fpu, trapFrame, fxUser, fxKernel, left,
             kernelFpu>>
winVars == <<windows, wm>>
history == <<struck, lost, strikes>>
vars == <<plan, cpuVars, procs, winVars, sent, history>>

Value == plan.values
Context == [regs : Value, fpu : Value]

NoMessage == [from |-> None, data |-> 0]
EmptyInbox == [ring |-> [i \in 0 .. IpcSlots - 1 |-> NoMessage],
               head |-> 0, tail |-> 0, count |-> 0]

Blank == [pid |-> None, state |-> "free", started |-> FALSE, has_frame |-> FALSE,
          frame |-> 0, fx |-> 0, inbox |-> EmptyInbox]

NoWindow == [used |-> FALSE, owner |-> None, wm |-> None]

Pid == (UNION {PidsOf[p] : p \in Proc}) \cup {None}
Message == [from : Pid, data : Value]
Mailbox == [ring : [0 .. IpcSlots - 1 -> Message], head : 0 .. IpcSlots - 1,
            tail : 0 .. IpcSlots - 1, count : 0 .. IpcSlots]
Process == [pid : Pid, state : {"free", "runnable", "exited", "faulted"}, started : BOOLEAN,
            has_frame : BOOLEAN, frame : Value, fx : Value, inbox : Mailbox]

TypeOK ==
    /\ plan \in Plans
    /\ mode \in {"kernel", "entering", "resuming", "user", "trap"} /\ cur \in Proc \cup {None}
    /\ {regs, fpu, trapFrame, fxUser, fxKernel, kernelFpu} \subseteq Value
    /\ procs \in [Proc -> Process] /\ left \in [Proc -> Context]
    /\ windows \in [UserWin -> [used : BOOLEAN, owner : Pid, wm : WmSlot \cup {None}]]
    /\ wm \in [WmSlot -> UserWin \cup {App, None}]
    /\ sent \in [Proc -> Seq(Message)]
    /\ struck \subseteq Proc /\ lost \subseteq Pid /\ strikes \in Nat

Init ==
    /\ plan \in Plans
    /\ mode = "kernel" /\ cur = None
    /\ regs = 0 /\ fpu = 0 /\ trapFrame = 0 /\ fxUser = 0 /\ fxKernel = 0
    /\ procs = [p \in Proc |-> Blank]
    /\ windows = [w \in UserWin |-> NoWindow]
    /\ wm = [s \in WmSlot |-> None]
    /\ left = [p \in Proc |-> [regs |-> 0, fpu |-> 0]] /\ kernelFpu = 0
    /\ sent = [p \in Proc |-> <<>>]
    /\ struck = {} /\ lost = {} /\ strikes = 0
-----------------------------------------------------------------------------
(* Windows (userwin.c).                                                    *)

First(S) == CHOOSE s \in S : \A t \in S : s <= t

OwnedBy(pid) == {w \in UserWin : windows[w].used /\ windows[w].owner = pid}

\* userwin_close of every window in W: the window manager's slot is closed
\* if it is open, whatever it shows by now.
Closed(W) ==
    /\ windows' = [w \in UserWin |-> IF w \in W THEN NoWindow ELSE windows[w]]
    /\ wm' = [s \in WmSlot |-> IF \E w \in W : windows[w].wm = s THEN None ELSE wm[s]]

\* userwin_close_owner.
CloseOwner(pid) == Closed(OwnedBy(pid))

\* userwin_open takes the first unused window and, when the window manager
\* runs, which is left open here, its first free slot; with none it refuses.
userwin_open(pid) ==
    LET unused == {w \in UserWin : ~windows[w].used}
        free == {s \in WmSlot : wm[s] = None}
        opened(s) == [used |-> TRUE, owner |-> pid, wm |-> s]
    IN
    /\ unused # {}
    /\ \/ /\ windows' = [windows EXCEPT ![First(unused)] = opened(None)]
          /\ UNCHANGED wm
       \/ /\ free # {}
          /\ windows' = [windows EXCEPT ![First(unused)] = opened(First(free))]
          /\ wm' = [wm EXCEPT ![First(free)] = First(unused)]

\* The user and the other applications open and close windows, too.
OtherWindow ==
    /\ mode = "kernel"
    /\ "win_open" \in plan.calls
    /\ \/ \E s \in WmSlot : wm[s] # None /\ wm' = [wm EXCEPT ![s] = None]
       \/ LET free == {s \in WmSlot : wm[s] = None} IN
          free # {} /\ wm' = [wm EXCEPT ![First(free)] = App]
    /\ UNCHANGED <<plan, cpuVars, procs, windows, sent, history>>
-----------------------------------------------------------------------------
(* The kernel loads, unloads and enters processes.                         *)

\* Mutant: the mail of the predecessor is kept.
KeepMail(inbox) == inbox

\* The entries of an inbox stay in memory, its indexes start again.
Reset(inbox) == [EmptyInbox EXCEPT !.ring = inbox.ring]

\* process64_prepare and user64_load_process, when they succeed.
Load(p) ==
    /\ mode = "kernel"
    /\ \E pid \in PidsOf[p] :
          procs' = [procs EXCEPT ![p] =
              [Blank EXCEPT !.pid = pid, !.state = "runnable",
                            !.frame = procs[p].frame, !.inbox = Reset(procs[p].inbox)]]
    /\ IF procs[p].state # "free" /\ procs[p].pid # None
       THEN CloseOwner(procs[p].pid)
       ELSE UNCHANGED winVars
    /\ cur' = p
    /\ sent' = [sent EXCEPT ![p] = <<>>]
    /\ struck' = struck \ {p}
    /\ UNCHANGED <<plan, mode, regs, fpu, trapFrame, fxUser, fxKernel, left, kernelFpu, lost,
                   strikes>>

\* A slot is loaded while it holds page frames: its record says so, unless
\* an interrupt overwrote it.
Loaded(p) == procs[p].state # "free" \/ p \in struck

\* process64_release_slot, when it succeeds.
Unload(p) ==
    /\ mode = "kernel"
    /\ Loaded(p)
    /\ CloseOwner(procs[p].pid)
    /\ procs' = [procs EXCEPT ![p].pid = None, ![p].state = "free"]
    /\ struck' = struck \ {p}
    /\ UNCHANGED <<plan, cpuVars, sent, lost, strikes>>

\* user64_step: select, then user64_enter_asm the first time and
\* user64_resume_asm afterwards, both of which put the kernel's FPU away and
\* load the process's.
Step(p) ==
    /\ mode = "kernel"
    /\ procs[p].state = "runnable"
    /\ cur' = p
    /\ fxKernel' = fpu
    /\ kernelFpu' = fpu
    /\ fxUser' = procs[p].fx /\ fpu' = procs[p].fx
    /\ \/ /\ ~procs[p].started
          /\ procs' = [procs EXCEPT ![p].started = TRUE]
          /\ mode' = "entering"
       \/ /\ procs[p].started /\ procs[p].has_frame
          /\ procs' = [procs EXCEPT ![p].has_frame = FALSE]
          /\ mode' = "resuming"
    /\ UNCHANGED <<plan, regs, trapFrame, left, winVars, sent, history>>

\* An interrupt while user64_resume_asm pops the registers off saved_frame:
\* what it pushes lands on the fields before saved_frame.  Its handler keeps
\* to the general registers, which it restores (check-isr-sse.sh).
StrikeRecord ==
    /\ mode = "resuming"
    /\ strikes < plan.strikes /\ strikes' = strikes + 1
    /\ \E pid \in Pid, state \in {"free", "runnable", "exited", "faulted"},
          started, has_frame \in BOOLEAN :
          /\ procs' = [procs EXCEPT ![cur] = [@ EXCEPT !.pid = pid, !.state = state,
                                                !.started = started, !.has_frame = has_frame]]
          /\ lost' = lost \cup {procs[cur].pid, pid}
    /\ struck' = struck \cup {cur}
    /\ UNCHANGED <<plan, cpuVars, winVars, sent>>

\* The pops, in a process that is resumed, and iretq.
Iretq ==
    /\ mode \in {"entering", "resuming"}
    /\ mode' = "user"
    /\ regs' = IF mode = "resuming" THEN procs[cur].frame ELSE regs
    /\ UNCHANGED <<plan, cur, fpu, trapFrame, fxUser, fxKernel, left, kernelFpu, procs,
                   winVars, sent, history>>

\* Kernel code, compiled for the same FPU, works in every register.
KernelWorks ==
    /\ mode \in {"kernel", "trap"}
    /\ \E c \in Context : regs' = c.regs /\ fpu' = c.fpu
    /\ UNCHANGED <<plan, mode, cur, trapFrame, fxUser, fxKernel, left, kernelFpu,
                   procs, winVars, sent, history>>

UserWorks ==
    /\ mode = "user"
    /\ \E c \in Context : regs' = c.regs /\ fpu' = c.fpu
    /\ UNCHANGED <<plan, mode, cur, trapFrame, fxUser, fxKernel, left, kernelFpu,
                   procs, winVars, sent, history>>
-----------------------------------------------------------------------------
(* Traps.                                                                  *)

Left == left' = [left EXCEPT ![cur] = [regs |-> regs, fpu |-> fpu]]

\* syscall_isr up to user64_dispatch.
Trap ==
    /\ mode = "user"
    /\ mode' = "trap"
    /\ trapFrame' = regs /\ fxUser' = fpu
    /\ Left
    /\ UNCHANGED <<plan, cur, regs, fpu, fxKernel, kernelFpu, procs, winVars, sent, history>>

\* syscall_isr from label 6.
BackToUser ==
    /\ mode' = "user"
    /\ regs' = trapFrame /\ fpu' = fxUser
    /\ UNCHANGED <<plan, cur, trapFrame, fxUser, fxKernel, left, kernelFpu, history>>

\* user64_abort, and labels 9 and 7 on the stack user64_step left.
Abort ==
    /\ mode' = "kernel"
    /\ fpu' = fxKernel
    /\ UNCHANGED <<plan, cur, regs, trapFrame, fxKernel, kernelFpu, sent, history>>

\* Mutant: only yield keeps the FPU image.
SavedFrameOnly(frame, fx) ==
    [procs EXCEPT ![cur] = [@ EXCEPT !.frame = frame, !.has_frame = TRUE,
                                     !.fx = IF mode = "trap" THEN fx ELSE @]]

\* What user64_after_syscall and user64_timer_dispatch keep of a process.
Saved(frame, fx) ==
    [procs EXCEPT ![cur] = [@ EXCEPT !.frame = frame, !.has_frame = TRUE, !.fx = fx]]

\* Every call that changes none of this, and every refused one.
OtherCall ==
    /\ mode = "trap"
    /\ BackToUser
    /\ UNCHANGED <<procs, winVars, sent>>

Yield ==
    /\ mode = "trap" /\ "yield" \in plan.calls
    /\ procs' = Saved(trapFrame, fxUser)
    /\ Abort
    /\ UNCHANGED <<fxUser, left, winVars>>

Exit ==
    /\ mode = "trap" /\ "exit" \in plan.calls
    /\ CloseOwner(procs[cur].pid)
    /\ procs' = [procs EXCEPT ![cur].state = "exited"]
    /\ Abort
    /\ UNCHANGED <<fxUser, left>>

\* user64_timer_isr on a tick in ring 3, with user64_preempt_on.  A tick in
\* ring 0 is StrikeRecord, or changes nothing here.
Tick ==
    /\ mode = "user"
    /\ procs' = [Saved(regs, fpu) EXCEPT ![cur].state = "runnable"]
    /\ fxUser' = fpu
    /\ Left
    /\ Abort
    /\ UNCHANGED winVars

\* Mutant: the windows of a process that faults stay.
KeepWindows(pid) == UNCHANGED winVars

\* What a fault does to the windows of its process.
FaultCloses(pid) == CloseOwner(pid)

\* user64_mark_fault.
Fault ==
    /\ mode = "user" /\ "fault" \in plan.calls
    /\ FaultCloses(procs[cur].pid)
    /\ procs' = [procs EXCEPT ![cur].state = "faulted"]
    /\ Abort
    /\ UNCHANGED <<fxUser, left>>

\* process64_pid: the process that may be sent to.
Receivers(pid) == {p \in Proc : procs[p].state = "runnable" /\ procs[p].pid = pid}

Room(p) == procs[p].inbox.count < IpcSlots

Send(pid, data) ==
    /\ mode = "trap" /\ "send" \in plan.calls
    /\ \E p \in Receivers(pid) :
          LET box == procs[p].inbox
              message == [from |-> procs[cur].pid, data |-> data]
          IN
          /\ Room(p)
          /\ procs' = [procs EXCEPT ![p].inbox =
                [box EXCEPT !.ring[box.tail] = message,
                            !.tail = (@ + 1) % IpcSlots,
                            !.count = @ + 1]]
          /\ sent' = [sent EXCEPT ![p] = Append(@, message)]
    /\ BackToUser
    /\ UNCHANGED winVars

Receive ==
    LET box == procs[cur].inbox IN
    /\ mode = "trap" /\ "receive" \in plan.calls
    /\ box.count > 0
    /\ procs' = [procs EXCEPT ![cur].inbox = [box EXCEPT !.head = (@ + 1) % IpcSlots,
                                                         !.count = @ - 1]]
    /\ sent' = [sent EXCEPT ![cur] = Tail(@)]
    /\ BackToUser
    /\ UNCHANGED winVars

WinOpen ==
    /\ mode = "trap" /\ "win_open" \in plan.calls
    /\ userwin_open(procs[cur].pid)
    /\ BackToUser
    /\ UNCHANGED <<procs, sent>>

WinClose ==
    /\ mode = "trap" /\ "win_close" \in plan.calls
    /\ \E w \in OwnedBy(procs[cur].pid) : Closed({w})
    /\ BackToUser
    /\ UNCHANGED <<procs, sent>>
-----------------------------------------------------------------------------
Next ==
    \/ \E p \in Proc : Load(p) \/ Unload(p) \/ Step(p)
    \/ StrikeRecord \/ Iretq
    \/ OtherWindow \/ KernelWorks \/ UserWorks
    \/ Trap \/ OtherCall \/ Yield \/ Exit \/ Tick \/ Fault
    \/ \E pid \in UNION {PidsOf[p] : p \in Proc}, data \in Value : Send(pid, data)
    \/ Receive \/ WinOpen \/ WinClose

Spec == Init /\ [][Next]_vars
-----------------------------------------------------------------------------
\* Whoever comes back to the CPU finds the registers and the FPU as it left
\* them, whatever ran in between, and the kernel its FPU; a process that may
\* run and has run can be resumed (user64_step, syscall_isr, user64_timer_isr
\* and user64_abort share one FPU image per side and one frame per process).
\* An interrupt that overwrites a record may make its process start anew, and
\* then not with a clean FPU; it mixes up no context.
ComesBack(who) == [regs |-> regs', fpu |-> fpu'] = left[who]

EachResumesItsOwn ==
    /\ [](\A p \in Proc :
              procs[p].state = "runnable" /\ procs[p].started /\ (mode = "kernel" \/ cur # p)
                  => procs[p].has_frame)
    /\ [][/\ mode # "user" /\ mode' = "user" =>
                IF mode = "entering" THEN cur \in struck \/ fpu' = 0 ELSE ComesBack(cur)
          /\ mode # "kernel" /\ mode' = "kernel" => fpu' = kernelFpu]_vars

\* An inbox holds what was accepted for this load of its process and not yet
\* taken, in the order of the sends and with the senders' identifiers
\* (U64_SYS_SEND, U64_SYS_RECV, and process64_prepare's reset between them).
Inbox(p) ==
    LET box == procs[p].inbox IN
    [i \in 1 .. box.count |-> box.ring[(box.head + i - 1) % IpcSlots]]

MailInOrder == \A p \in Proc : Inbox(p) = sent[p]

\* A window in use belongs to a process that can still run, unless the record
\* of its owner was overwritten, and a slot of the window manager that shows a
\* process's window is the one that window has: user-process-abi.md, "closes
\* every owned window on exit or fault".
NoWindowOutlivesOwner ==
    /\ \A w \in UserWin : windows[w].used =>
          \/ windows[w].owner \in lost
          \/ \E p \in Proc : procs[p].pid = windows[w].owner /\ procs[p].state = "runnable"
    /\ \A s \in WmSlot, w \in UserWin : wm[s] = w => windows[w].used /\ windows[w].wm = s

\* Not so, see the README: no interrupt overwrites the record of a process.
RecordsKept == struck = {}

\* Not so, see the README: a process closes no window but its own.
ClosesOnlyItsOwn ==
    [][\A s \in WmSlot : mode = "trap" /\ wm[s] = App => wm'[s] = App]_vars
=============================================================================
