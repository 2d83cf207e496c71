-------------------------------- MODULE Sched --------------------------------
(***************************************************************************)
(* core/sched.c: cooperative round robin over a table of tasks that are    *)
(* never reaped. A task is suspended inside yield(), called by itself, by  *)
(* the loop of task_sleep or by the loop of task_exit; pc says where it    *)
(* goes on, as its stack does. Ticks are 32-bit and compared modulo their  *)
(* range. What task_sleep does before sched_init is left out.              *)
(***************************************************************************)
EXTENDS Integers

CONSTANTS
    MAX_TASKS,
    TickMod,    \* 2^32 in the code
    Naps,       \* bound: the arguments task_sleep is called with
    MaxLate     \* bound: ticks a due task may be kept waiting

Half == TickMod \div 2
ASSUME SchedAssumption ==
    /\ MAX_TASKS \in Nat \ {0}
    /\ TickMod \in Nat /\ TickMod % 2 = 0 /\ TickMod > 4
    /\ Naps \subseteq Nat
    /\ MaxLate \in Nat /\ MaxLate < Half - 1

Task == 0..(MAX_TASKS - 1)
Tick == 0..(TickMod - 1)

VARIABLES
    ntasks, current,
    state,      \* TASK_FREE, TASK_READY, TASK_RUNNING or TASK_DONE
    wake_at,    \* 0: not asleep
    now,        \* idt_ticks()
    pc,         \* "runs", or in task_sleep before its test or in its yield, or "exits"
    due,        \* task_sleep's own copy of the deadline
    left,       \* ticks the task has still to sleep: time itself, not in the code
    ahead       \* tasks switched to since this one could last have run: likewise

vars == <<ntasks, current, state, wake_at, now, pc, due, left, ahead>>
-----------------------------------------------------------------------------
\* Mutant of Before: compared as plain numbers.
BeforePlain(a, b) == a < b
\* (int)(a - b) < 0
Before(a, b) == (a - b) % TickMod >= Half

Runnable(i) ==
    /\ i < ntasks /\ state[i] \notin {"DONE", "FREE"}
    /\ wake_at[i] # 0 => ~Before(now, wake_at[i])

\* The n-th task after the current one, going round.
After(n) == (current + n) % ntasks
Found == \E n \in 1..ntasks : Runnable(After(n))

\* Mutant of pick_next: the scan starts at the front of the table.
PickLowest ==
    IF \E i \in 0..(ntasks - 1) : i # current /\ Runnable(i)
    THEN CHOOSE i \in 0..(ntasks - 1) :
            i # current /\ Runnable(i) /\ \A j \in 0..(i - 1) : j = current \/ ~Runnable(j)
    ELSE current
pick_next ==
    IF Found
    THEN After(CHOOSE n \in 1..ntasks :
                Runnable(After(n)) /\ \A m \in 1..(n - 1) : ~Runnable(After(m)))
    ELSE current

\* A task whose turn it could be at every switch is overtaken once by each other.
Waits(i) == Runnable(i) /\ i # current

\* yield(), with the caller going on at label when it runs again.
Yield(label) ==
    LET next == IF ntasks < 2 THEN current ELSE pick_next IN
    /\ pc' = [pc EXCEPT ![current] = label]
    /\ wake_at' = IF ntasks >= 2 /\ Found THEN [wake_at EXCEPT ![next] = 0] ELSE wake_at
    /\ IF next = current THEN UNCHANGED <<current, state, ahead>>
       ELSE /\ state' = [state EXCEPT
                    ![current] = IF @ = "RUNNING" THEN "READY" ELSE @,
                    ![next] = "RUNNING"]
            /\ current' = next
            /\ ahead' = [i \in Task |->
                    IF i = next \/ ~Waits(i) THEN {} ELSE ahead[i] \cup {next}]
    /\ UNCHANGED <<ntasks, now, due, left>>
-----------------------------------------------------------------------------
task_create ==
    /\ pc[current] = "runs" /\ ntasks < MAX_TASKS
    /\ ntasks' = ntasks + 1
    /\ state' = [state EXCEPT ![ntasks] = "READY"]
    /\ wake_at' = [wake_at EXCEPT ![ntasks] = 0]
    /\ UNCHANGED <<current, now, pc, due, left, ahead>>

yield == pc[current] = "runs" /\ Yield("runs")

\* Mutant of sleep_deadline: the deadline is allowed to be the sentinel.
DeadlineAsItIs(ticks) == (now + ticks) % TickMod
sleep_deadline(ticks) ==
    LET d == (now + (IF ticks > Half - 1 THEN Half - 1 ELSE ticks)) % TickMod
    IN  IF d = 0 THEN 1 ELSE d

task_sleep ==
    /\ pc[current] = "runs"
    /\ \E ticks \in Naps :
        /\ due' = [due EXCEPT ![current] = sleep_deadline(ticks)]
        /\ wake_at' = [wake_at EXCEPT ![current] = sleep_deadline(ticks)]
        /\ left' = [left EXCEPT ![current] = IF ticks > Half - 1 THEN Half - 1 ELSE ticks]
    /\ pc' = [pc EXCEPT ![current] = "tests"]
    /\ UNCHANGED <<ntasks, current, state, now, ahead>>

\* while ((int)(idt_ticks() - t) < 0) of task_sleep.
SleepTest ==
    /\ pc[current] = "tests"
    /\ IF Before(now, due[current])
       THEN /\ pc' = [pc EXCEPT ![current] = "yields"]
            /\ UNCHANGED wake_at
       ELSE /\ pc' = [pc EXCEPT ![current] = "runs"]
            /\ wake_at' = [wake_at EXCEPT ![current] = 0]
    /\ UNCHANGED <<ntasks, current, state, now, due, left, ahead>>
\* Mutant of SleepYield: one yield was taken for the sleep.
SleepYieldOnce == pc[current] = "yields" /\ Yield("runs")
SleepYield == pc[current] = "yields" /\ Yield("tests")

task_exit ==
    /\ pc[current] = "runs"
    /\ state' = [state EXCEPT ![current] = "DONE"]
    /\ pc' = [pc EXCEPT ![current] = "exits"]
    /\ UNCHANGED <<ntasks, current, wake_at, now, due, left, ahead>>
ExitYield == pc[current] = "exits" /\ Yield("exits")

\* The timer interrupt. Half the range late, a due task would look asleep again.
Late(i) == wake_at[i] # 0 /\ ~Before(now, wake_at[i]) /\ (now - wake_at[i]) % TickMod >= MaxLate
Clock ==
    /\ \A i \in Task : ~Late(i)
    /\ pc[current] \in {"tests", "yields"} =>
        Before(now, due[current]) \/ (now - due[current]) % TickMod < MaxLate
    /\ now' = (now + 1) % TickMod
    /\ left' = [i \in Task |-> IF left[i] = 0 THEN 0 ELSE left[i] - 1]
    /\ UNCHANGED <<ntasks, current, state, wake_at, pc, due, ahead>>
-----------------------------------------------------------------------------
\* sched_init: the shell becomes task 0.
Init ==
    /\ ntasks = 1 /\ current = 0
    /\ state = [i \in Task |-> IF i = 0 THEN "RUNNING" ELSE "FREE"]
    /\ wake_at = [i \in Task |-> 0] /\ due = [i \in Task |-> 0]
    /\ now \in Tick
    /\ pc = [i \in Task |-> "runs"]
    /\ left = [i \in Task |-> 0] /\ ahead = [i \in Task |-> {}]

Next == task_create \/ yield \/ task_sleep \/ SleepTest \/ SleepYield
        \/ task_exit \/ ExitYield \/ Clock
Spec == Init /\ [][Next]_vars

\* counter_task: a task that runs goes on to sleep; interrupts go on coming.
FairSpec ==
    /\ Spec /\ WF_vars(Clock) /\ WF_vars(task_sleep) /\ WF_vars(SleepTest)
    /\ WF_vars(SleepYield) /\ WF_vars(ExitYield)
-----------------------------------------------------------------------------
TypeOK ==
    /\ ntasks \in 1..MAX_TASKS /\ current \in 0..(ntasks - 1)
    /\ state \in [Task -> {"FREE", "READY", "RUNNING", "DONE"}]
    /\ wake_at \in [Task -> Tick] /\ due \in [Task -> Tick] /\ now \in Tick
    /\ pc \in [Task -> {"runs", "tests", "yields", "exits"}]
    /\ left \in [Task -> 0..(Half - 1)] /\ ahead \in [Task -> SUBSET Task]

\* The table says of the current task alone that it runs, and of a task that has
\* exited nothing but that, though its loop may be the only thing left to run.
OneRuns ==
    \A i \in Task :
        /\ state[i] = "RUNNING" <=> i = current /\ pc[i] # "exits"
        /\ state[i] = "DONE" <=> i < ntasks /\ pc[i] = "exits"
        /\ state[i] = "FREE" <=> i >= ntasks

\* A task goes on after task_sleep only when its time is up, whoever else is
\* asleep, and is not switched to before that either.
NeverEarly ==
    [][/\ pc'[current'] = "runs" => left'[current'] = 0
       /\ current' # current => left[current'] = 0]_vars

\* While a task could run at every switch, no other is switched to twice.
OvertakenOnce ==
    [][current' # current =>
        \A i \in Task : Waits(i) /\ i # current' => current' \notin ahead[i]]_vars

\* A sleeping task returns from task_sleep.
SleepersWake ==
    \A i \in Task : pc[i] \in {"tests", "yields"} ~> pc[i] = "runs"
=============================================================================
