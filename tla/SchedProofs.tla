----------------------------- MODULE SchedProofs -----------------------------
(***************************************************************************)
(* For any number of tasks, any range of the tick counter and any naps:    *)
(* the table of sched.c is well typed, and says of the current task alone  *)
(* that it runs, whoever sleeps, exits or is created.                      *)
(***************************************************************************)
EXTENDS Sched, WellFoundedInduction, TLAPS

\* No task has run in the part of the table still free.
Fresh == \A i \in Task : i >= ntasks => pc[i] = "runs"

\* Which task is switched to depends on the table, whether the table stays
\* right on which task that is, and on where a new task starts.
IInv == TypeOK /\ OneRuns /\ Fresh

Less == {ss \in Nat \X Nat : ss[1] < ss[2]}

\* The scan of pick_next stops at the first hit, which exists if any does.
LEMMA LeastExists ==
    ASSUME NEW T, T \subseteq Nat, T # {}
    PROVE  \E x \in T : \A y \in T : x <= y
<1>1. IsWellFoundedOn(Less, Nat)
  BY NatLessThanWellFounded DEF Less, OpToRel
<1>2. PICK x \in T : \A y \in T : <<y, x>> \notin Less
  BY <1>1, WFMin
<1>3. \A y \in T : x <= y
  <2> SUFFICES ASSUME NEW y \in T PROVE x <= y  OBVIOUS
  <2>1. x \in Nat /\ y \in Nat /\ ~(y < x)  BY <1>2 DEF Less
  <2> QED  BY <2>1
<1> QED  BY <1>3

\* The n-th task after the current one, without the remainder.
LEMMA AfterIs ==
    ASSUME TypeOK, NEW n \in 1..ntasks
    PROVE  /\ After(n) = IF current + n < ntasks THEN current + n ELSE current + n - ntasks
           /\ After(n) \in 0..(ntasks - 1)
<1>1. current \in 0..(ntasks - 1) /\ ntasks \in Nat \ {0}
  BY SchedAssumption DEF TypeOK
<1>2. CASE current + n < ntasks  BY <1>1, <1>2 DEF After
<1>3. CASE current + n >= ntasks  BY <1>1, <1>3 DEF After
<1> QED  BY <1>1, <1>2, <1>3

\* sched.c:268: pick_next returns the first task round the table that can run.
LEMMA PickIsFirst ==
    ASSUME TypeOK, Found
    PROVE  \E n \in 1..ntasks :
              /\ pick_next = After(n) /\ Runnable(After(n))
              /\ \A m \in 1..(n - 1) : ~Runnable(After(m))
<1> DEFINE hits == {n \in 1..ntasks : Runnable(After(n))}
           Least(x) == Runnable(After(x)) /\ \A m \in 1..(x - 1) : ~Runnable(After(m))
<1>1. ntasks \in Nat \ {0}
  BY SchedAssumption DEF TypeOK
<1>2. hits # {} /\ hits \subseteq Nat  BY DEF Found
<1>3. PICK n \in hits : \A m \in hits : n <= m  BY <1>2, LeastExists
<1>4. n \in 1..ntasks /\ Least(n)
  BY <1>1, <1>3
<1>5. /\ (CHOOSE x \in 1..ntasks : Least(x)) \in 1..ntasks
      /\ Least(CHOOSE x \in 1..ntasks : Least(x))
  BY <1>4
<1>6. pick_next = After(CHOOSE x \in 1..ntasks : Least(x))
  BY DEF pick_next
<1>7. PICK k \in 1..ntasks : pick_next = After(k) /\ Least(k)
  <2> HIDE DEF Least
  <2> QED  BY <1>5, <1>6
<1> QED  BY <1>7

\* What it returns is in the table, and is the caller or can run; if nothing
\* can run it is the caller.
LEMMA PickIsRunnable ==
    ASSUME TypeOK
    PROVE  /\ pick_next \in 0..(ntasks - 1)
           /\ pick_next # current => Runnable(pick_next) /\ Found
<1>1. CASE ~Found
  BY <1>1 DEF pick_next, TypeOK
<1>2. CASE Found
  BY <1>2, PickIsFirst, AfterIs
<1> QED  BY <1>1, <1>2

\* Deadlines are ticks, never the 0 that stands for awake (sched.c:281).
LEMMA DeadlineIsTick ==
    ASSUME NEW t \in Nat, now \in Tick
    PROVE  sleep_deadline(t) \in Tick \ {0}
<1>1. TickMod \in Nat /\ TickMod > 4 /\ now \in Nat
  BY SchedAssumption DEF Tick
<1>2. Half \in Nat
  BY SchedAssumption DEF Half
<1>3. (IF t > Half - 1 THEN Half - 1 ELSE t) \in Int
  BY <1>2
<1> DEFINE d == (now + (IF t > Half - 1 THEN Half - 1 ELSE t)) % TickMod
<1>4. d \in 0..(TickMod - 1)
  BY <1>1, <1>3
<1>5. sleep_deadline(t) = IF d = 0 THEN 1 ELSE d
  BY DEF sleep_deadline
<1> HIDE DEF d
<1> QED  BY <1>1, <1>4, <1>5 DEF Tick
-----------------------------------------------------------------------------
LEMMA InitInv == Init => IInv
<1> SUFFICES ASSUME Init PROVE IInv  OBVIOUS
<1>1. Half \in Nat /\ Half >= 1  BY SchedAssumption DEF Half
<1>2. 0 \in Tick /\ 0 \in 0..(Half - 1)  BY <1>1, SchedAssumption DEF Tick
<1>3. TypeOK  BY <1>2, SchedAssumption DEF Init, TypeOK, Task
<1>4. OneRuns  BY SchedAssumption DEF Init, OneRuns, Task
<1>5. Fresh  BY DEF Init, Fresh
<1> QED  BY <1>3, <1>4, <1>5 DEF IInv

\* yield keeps the table right, from wherever it is called and wherever its
\* caller goes on: from the loop of task_exit only back into it.
LEMMA YieldInv ==
    ASSUME IInv, NEW label \in {"runs", "tests", "exits"}, Yield(label),
           label = "exits" <=> pc[current] = "exits"
    PROVE  IInv'
<1> DEFINE next == IF ntasks < 2 THEN current ELSE pick_next
<1>1. TypeOK /\ OneRuns /\ Fresh  BY DEF IInv
<1>2. /\ ntasks \in 1..MAX_TASKS /\ current \in 0..(ntasks - 1)
      /\ 0..(ntasks - 1) \subseteq Task /\ MAX_TASKS \in Nat
  BY <1>1, SchedAssumption DEF TypeOK, Task
<1>3. next \in 0..(ntasks - 1) /\ (next # current => Runnable(next))
  BY <1>1, <1>2, PickIsRunnable
<1>4. /\ pc' = [pc EXCEPT ![current] = label]
      /\ wake_at' = wake_at \/ wake_at' = [wake_at EXCEPT ![next] = 0]
      /\ UNCHANGED <<ntasks, now, due, left>>
      /\ \/ next = current /\ UNCHANGED <<current, state, ahead>>
         \/ /\ next # current
            /\ state' = [state EXCEPT
                    ![current] = IF @ = "RUNNING" THEN "READY" ELSE @,
                    ![next] = "RUNNING"]
            /\ current' = next
            /\ ahead' = [i \in Task |->
                    IF i = next \/ ~Waits(i) THEN {} ELSE ahead[i] \cup {next}]
  BY DEF Yield
<1> HIDE DEF next
<1>5. TypeOK'
  <2>1. 0 \in Tick  BY SchedAssumption DEF Tick
  <2>2. wake_at' \in [Task -> Tick]
    <3>1. wake_at \in [Task -> Tick]  BY <1>1 DEF TypeOK
    <3> QED  BY <1>4, <2>1, <3>1
  <2>6. pc' \in [Task -> {"runs", "tests", "yields", "exits"}]
    <3>1. pc \in [Task -> {"runs", "tests", "yields", "exits"}]  BY <1>1 DEF TypeOK
    <3>2. pc' = [pc EXCEPT ![current] = label]  BY <1>4
    <3>3. label \in {"runs", "tests", "yields", "exits"}  OBVIOUS
    <3> QED  BY <3>1, <3>2, <3>3
  <2>3. current' \in 0..(ntasks - 1)  BY <1>2, <1>3, <1>4
  <2>4. state' \in [Task -> {"FREE", "READY", "RUNNING", "DONE"}]
    BY <1>1, <1>4 DEF TypeOK
  <2>5. ahead' \in [Task -> SUBSET Task]
    BY <1>1, <1>2, <1>3, <1>4 DEF TypeOK
  <2> QED  BY <1>1, <1>4, <2>2, <2>3, <2>4, <2>5, <2>6 DEF TypeOK
<1>6. OneRuns'
  <2>1. CASE next = current
    BY <1>1, <1>2, <1>4, <2>1 DEF OneRuns, TypeOK
  <2>2. CASE next # current
    <3>1. state[next] \notin {"DONE", "FREE"}  BY <1>3, <2>2 DEF Runnable
    <3>2. next \in Task /\ current \in Task /\ pc[next] # "exits" /\ next < ntasks
      BY <1>1, <1>2, <1>3, <3>1 DEF OneRuns
    <3>3. /\ current' = next /\ ntasks' = ntasks
          /\ state'[next] = "RUNNING" /\ pc'[next] = pc[next]
          /\ state'[current] = IF state[current] = "RUNNING" THEN "READY" ELSE state[current]
          /\ pc'[current] = label
          /\ \A i \in Task \ {next, current} : state'[i] = state[i] /\ pc'[i] = pc[i]
      BY <1>1, <1>4, <2>2, <3>2 DEF TypeOK
    <3>4. state[current] = IF label = "exits" THEN "DONE" ELSE "RUNNING"
      BY <1>1, <1>2, <3>2 DEF OneRuns
    <3>5. \A i \in Task : state'[i] = "RUNNING" <=> i = next /\ pc'[i] # "exits"
      BY <1>1, <2>2, <3>2, <3>3, <3>4 DEF OneRuns
    <3>6. \A i \in Task : state'[i] = "DONE" <=> i < ntasks /\ pc'[i] = "exits"
      BY <1>1, <1>2, <2>2, <3>2, <3>3, <3>4 DEF OneRuns
    <3>7. \A i \in Task : state'[i] = "FREE" <=> i >= ntasks
      BY <1>1, <1>2, <1>3, <2>2, <3>2, <3>3, <3>4 DEF OneRuns
    <3> QED  BY <3>3, <3>5, <3>6, <3>7 DEF OneRuns
  <2> QED  BY <2>1, <2>2
<1>7. Fresh'
  BY <1>1, <1>2, <1>4 DEF Fresh, TypeOK
<1> QED  BY <1>5, <1>6, <1>7 DEF IInv
-----------------------------------------------------------------------------
LEMMA StepInv == IInv /\ [Next]_vars => IInv'
<1> SUFFICES ASSUME IInv, [Next]_vars PROVE IInv'  OBVIOUS
<1>1. TypeOK /\ OneRuns /\ Fresh  BY DEF IInv
<1>2. /\ ntasks \in 1..MAX_TASKS /\ current \in 0..(ntasks - 1)
      /\ current \in Task /\ MAX_TASKS \in Nat
  BY <1>1, SchedAssumption DEF TypeOK, Task
<1>3. Half \in Nat /\ Half >= 1 /\ 0 \in Tick /\ 1 \in Tick
  BY SchedAssumption DEF Half, Tick
<1>4. CASE task_create
  <2>1. ntasks \in Task /\ ntasks # current
    BY <1>2, <1>4 DEF task_create, Task
  <2>2. TypeOK'
    BY <1>1, <1>2, <1>3, <1>4, <2>1 DEF task_create, TypeOK
  <2>3. OneRuns'
    <3>1. state[ntasks] = "FREE" /\ pc[ntasks] # "exits"
      BY <1>1, <1>2, <2>1 DEF OneRuns, Fresh
    <3>2. /\ ntasks' = ntasks + 1 /\ UNCHANGED <<current, pc>>
          /\ state'[ntasks] = "READY"
          /\ \A i \in Task \ {ntasks} : state'[i] = state[i]
      BY <1>1, <1>4, <2>1 DEF task_create, TypeOK
    <3>3. \A i \in Task : i < ntasks + 1 <=> i < ntasks \/ i = ntasks
      BY <1>2 DEF Task
    <3>4. \A i \in Task : i >= ntasks + 1 <=> i >= ntasks /\ i # ntasks
      BY <1>2 DEF Task
    <3>5. \A i \in Task \ {ntasks} :
            /\ state'[i] = "RUNNING" <=> i = current' /\ pc'[i] # "exits"
            /\ state'[i] = "DONE" <=> i < ntasks' /\ pc'[i] = "exits"
            /\ state'[i] = "FREE" <=> i >= ntasks'
      BY <1>1, <3>2, <3>3, <3>4 DEF OneRuns
    <3>6. ntasks < ntasks' /\ ~(ntasks >= ntasks') /\ ntasks # current'
      BY <1>2, <2>1, <3>2
    <3> QED  BY <3>1, <3>2, <3>5, <3>6 DEF OneRuns
  <2>4. Fresh'
    BY <1>1, <1>2, <1>4 DEF task_create, Fresh, Task
  <2> QED  BY <2>2, <2>3, <2>4 DEF IInv
<1>5. CASE yield
  BY <1>5, YieldInv DEF yield
<1>6. CASE task_sleep
  <2>1. PICK ticks \in Naps :
            /\ due' = [due EXCEPT ![current] = sleep_deadline(ticks)]
            /\ wake_at' = [wake_at EXCEPT ![current] = sleep_deadline(ticks)]
            /\ left' = [left EXCEPT ![current] = IF ticks > Half - 1 THEN Half - 1 ELSE ticks]
    BY <1>6 DEF task_sleep
  <2>2. ticks \in Nat  BY SchedAssumption
  <2>3. sleep_deadline(ticks) \in Tick  BY <1>1, <2>2, DeadlineIsTick DEF TypeOK
  <2>4. (IF ticks > Half - 1 THEN Half - 1 ELSE ticks) \in 0..(Half - 1)
    BY <1>3, <2>2
  <2>5. TypeOK'
    BY <1>1, <1>2, <1>6, <2>1, <2>3, <2>4 DEF task_sleep, TypeOK
  <2>6. OneRuns'
    BY <1>1, <1>2, <1>6 DEF task_sleep, OneRuns, TypeOK
  <2>7. Fresh'
    BY <1>1, <1>2, <1>6 DEF task_sleep, Fresh, TypeOK
  <2> QED  BY <2>5, <2>6, <2>7 DEF IInv
<1>7. CASE SleepTest
  <2>1. TypeOK'
    BY <1>1, <1>2, <1>3, <1>7 DEF SleepTest, TypeOK
  <2>2. OneRuns'
    BY <1>1, <1>2, <1>7 DEF SleepTest, OneRuns, TypeOK
  <2>3. Fresh'
    BY <1>1, <1>2, <1>7 DEF SleepTest, Fresh, TypeOK
  <2> QED  BY <2>1, <2>2, <2>3 DEF IInv
<1>8. CASE SleepYield
  BY <1>8, YieldInv DEF SleepYield
<1>9. CASE task_exit
  <2>1. TypeOK'
    BY <1>1, <1>2, <1>9 DEF task_exit, TypeOK
  <2>2. OneRuns'
    BY <1>1, <1>2, <1>9 DEF task_exit, OneRuns, TypeOK
  <2>3. Fresh'
    BY <1>1, <1>2, <1>9 DEF task_exit, Fresh, TypeOK
  <2> QED  BY <2>1, <2>2, <2>3 DEF IInv
<1>10. CASE ExitYield
  BY <1>10, YieldInv DEF ExitYield
<1>11. CASE Clock
  <2>1. now' \in Tick
    BY <1>1, <1>11, SchedAssumption DEF Clock, TypeOK, Tick
  <2>2. left' \in [Task -> 0..(Half - 1)]
    BY <1>1, <1>3, <1>11 DEF Clock, TypeOK
  <2>3. TypeOK'  BY <1>1, <1>11, <2>1, <2>2 DEF Clock, TypeOK
  <2>4. OneRuns'  BY <1>1, <1>11 DEF Clock, OneRuns
  <2>5. Fresh'  BY <1>1, <1>11 DEF Clock, Fresh
  <2> QED  BY <2>3, <2>4, <2>5 DEF IInv
<1>12. CASE UNCHANGED vars
  BY <1>1, <1>12 DEF vars, IInv, TypeOK, OneRuns, Fresh, Task
<1> QED
  BY <1>4, <1>5, <1>6, <1>7, <1>8, <1>9, <1>10, <1>11, <1>12 DEF Next

(***************************************************************************)
(* The inductive invariant holds in every reachable state.                 *)
(***************************************************************************)
THEOREM Invariance == Spec => []IInv
  BY InitInv, StepInv, PTL DEF Spec

(***************************************************************************)
(* The table stays within MAX_TASKS and current within the table, deadlines*)
(* and the clock within the range of the tick counter (sched.c:221, :281). *)
(***************************************************************************)
THEOREM TypeCorrect == Spec => []TypeOK
<1>1. IInv => TypeOK  BY DEF IInv
<1> QED  BY <1>1, Invariance, PTL

(***************************************************************************)
(* One task runs, and an exited one never again (sched.c:289, :329): the   *)
(* table says RUNNING of the current task alone, DONE of exactly those in  *)
(* the loop of task_exit, FREE of exactly the rest of the table.           *)
(***************************************************************************)
THEOREM OneRunsAlways == Spec => []OneRuns
<1>1. IInv => OneRuns  BY DEF IInv
<1> QED  BY <1>1, Invariance, PTL
-----------------------------------------------------------------------------
(***************************************************************************)
(* Nobody is overtaken twice by the same task: seen from a task that could *)
(* run at every switch, the current task only ever moves further round the *)
(* table, so it has passed exactly those it will not meet again.           *)
(***************************************************************************)
Round(i, j) == IF j >= i THEN j - i ELSE j - i + ntasks   \* steps from i on to j

Passed ==
    \A i \in Task :
        /\ ahead[i] # {} => i < ntasks /\ i # current
        /\ \A j \in ahead[i] : j < ntasks /\ Round(i, j) <= Round(i, current)

\* The scan from the current task stops at the latest at one that waits.
LEMMA PickGoesOn ==
    ASSUME TypeOK, NEW i \in Task, Waits(i), i # pick_next
    PROVE  Round(i, current) < Round(i, pick_next)
<1> DEFINE m == IF i > current THEN i - current ELSE i - current + ntasks
<1>1. /\ current \in 0..(ntasks - 1) /\ ntasks \in Nat /\ i \in 0..(ntasks - 1)
      /\ i # current /\ Runnable(i)
  BY SchedAssumption DEF TypeOK, Waits, Runnable, Task
<1>2. m \in 1..(ntasks - 1)
  BY <1>1
<1>3. After(m) = i
  <2>1. m \in 1..ntasks  BY <1>1, <1>2
  <2>2. After(m) = IF current + m < ntasks THEN current + m ELSE current + m - ntasks
    BY <2>1, AfterIs
  <2> QED  BY <1>1, <2>2
<1>4. Found
  BY <1>1, <1>2, <1>3 DEF Found
<1>5. PICK k \in 1..ntasks :
         /\ pick_next = After(k) /\ Runnable(After(k))
         /\ \A x \in 1..(k - 1) : ~Runnable(After(x))
  BY <1>4, PickIsFirst
<1>6. k < m
  <2>1. k # m  BY <1>3, <1>5
  <2>2. m \notin 1..(k - 1)  BY <1>1, <1>3, <1>5
  <2> QED  BY <1>1, <1>2, <2>1, <2>2
<1>7. pick_next = IF current + k < ntasks THEN current + k ELSE current + k - ntasks
  BY <1>5, AfterIs
<1> QED  BY <1>1, <1>6, <1>7 DEF Round

\* A switch, seen from the others.
LEMMA SwitchPasses ==
    ASSUME TypeOK, Passed, NEW label, Yield(label)
    PROVE  /\ Passed'
           /\ current' # current =>
                 \A i \in Task : Waits(i) /\ i # current' => current' \notin ahead[i]
<1>1. /\ current \in 0..(ntasks - 1) /\ ntasks \in Nat /\ ntasks' = ntasks
      /\ \A i \in Task : ahead[i] \in SUBSET Nat /\ i \in Nat
  BY SchedAssumption DEF TypeOK, Task, Yield
<1>2. CASE current' = current
  <2>1. ahead' = ahead
    BY <1>2 DEF Yield
  <2> QED  BY <1>1, <1>2, <2>1 DEF Passed, Round
<1>3. CASE current' # current
  <2>1. /\ current' = pick_next /\ pick_next \in 0..(ntasks - 1)
        /\ ahead' = [i \in Task |->
                IF i = pick_next \/ ~Waits(i) THEN {} ELSE ahead[i] \cup {pick_next}]
    BY <1>3, PickIsRunnable DEF Yield
  <2>2. ASSUME NEW i \in Task, Waits(i), i # pick_next
        PROVE  /\ i < ntasks
               /\ \A j \in ahead[i] : j < ntasks /\ Round(i, j) < Round(i, pick_next)
    <3>1. Round(i, current) < Round(i, pick_next)  BY <2>2, PickGoesOn
    <3>2. \A j \in ahead[i] : j < ntasks /\ Round(i, j) <= Round(i, current)
      BY DEF Passed
    <3>3. /\ \A j \in ahead[i] : Round(i, j) \in Int
          /\ Round(i, current) \in Int /\ Round(i, pick_next) \in Int
      BY <1>1, <2>1 DEF Round
    <3>4. i < ntasks  BY <2>2 DEF Waits, Runnable
    <3> QED  BY <3>1, <3>2, <3>3, <3>4
  <2>3. ASSUME NEW i \in Task, Waits(i), i # pick_next PROVE pick_next \notin ahead[i]
    <3>1. Round(i, pick_next) \in Int  BY <1>1, <2>1 DEF Round
    <3> QED  BY <2>2, <2>3, <3>1
  <2>4. Passed'
    <3>1. ASSUME NEW i \in Task
          PROVE  /\ ahead'[i] # {} => i < ntasks /\ i # pick_next
                 /\ \A j \in ahead'[i] : j < ntasks /\ Round(i, j) <= Round(i, pick_next)
      <4>1. CASE i = pick_next \/ ~Waits(i)
        BY <2>1, <4>1
      <4>2. CASE i # pick_next /\ Waits(i)
        <5>1. ahead'[i] = ahead[i] \cup {pick_next}  BY <2>1, <4>2
        <5>2. /\ \A j \in ahead[i] : Round(i, j) \in Int
              /\ Round(i, pick_next) \in Int /\ pick_next < ntasks
          BY <1>1, <2>1 DEF Round
        <5> QED  BY <2>2, <4>2, <5>1, <5>2
      <4> QED  BY <4>1, <4>2
    <3> QED  BY <1>1, <2>1, <3>1 DEF Passed, Round
  <2> QED  BY <2>1, <2>3, <2>4
<1> QED  BY <1>2, <1>3

LEMMA InitPassed == Init => Passed
BY DEF Init, Passed

LEMMA StepPassed ==
    ASSUME IInv, Passed, [Next]_vars
    PROVE  /\ Passed'
           /\ current' # current =>
                 \A i \in Task : Waits(i) /\ i # current' => current' \notin ahead[i]
<1>1. TypeOK  BY DEF IInv
<1>2. CASE yield \/ SleepYield \/ ExitYield
  BY <1>1, <1>2, SwitchPasses DEF yield, SleepYield, ExitYield
<1>3. CASE task_create
  <2>1. /\ current \in 0..(ntasks - 1) /\ ntasks \in Nat
        /\ \A i \in Task : ahead[i] \in SUBSET Nat /\ i \in Nat
    BY <1>1, SchedAssumption DEF TypeOK, Task
  <2>2. ntasks' = ntasks + 1 /\ UNCHANGED <<current, ahead>>
    BY <1>3 DEF task_create
  <2>3. ASSUME NEW i \in Task, NEW j \in ahead[i]
        PROVE  j < ntasks + 1 /\ Round(i, j)' <= Round(i, current)'
    <3>1. j \in Nat /\ i < ntasks /\ j < ntasks /\ Round(i, j) <= Round(i, current)
      BY <2>1, <2>3 DEF Passed
    <3> QED  BY <2>1, <2>2, <3>1 DEF Round
  <2>4. \A i \in Task : ahead[i] # {} => i < ntasks + 1 /\ i # current
    BY <2>1 DEF Passed
  <2> QED  BY <2>2, <2>3, <2>4 DEF Passed
<1>4. CASE task_sleep \/ SleepTest \/ task_exit \/ Clock \/ UNCHANGED vars
  <2>1. UNCHANGED <<ntasks, current, ahead>>
    BY <1>4 DEF task_sleep, SleepTest, task_exit, Clock, vars
  <2> QED  BY <2>1 DEF Passed, Round
<1> QED  BY <1>2, <1>3, <1>4 DEF Next

(***************************************************************************)
(* A task that can run at every switch is overtaken at most once by each   *)
(* of the others, whatever their number (pick_next, sched.c:268).          *)
(***************************************************************************)
THEOREM NobodyOvertakenTwice == Spec => OvertakenOnce
<1>1. IInv /\ Passed /\ [Next]_vars => Passed'
  BY StepPassed
<1>2. IInv /\ Passed /\ [Next]_vars =>
        [current' # current =>
            \A i \in Task : Waits(i) /\ i # current' => current' \notin ahead[i]]_vars
  BY StepPassed
<1> QED  BY <1>1, <1>2, InitInv, InitPassed, StepInv, PTL DEF Spec, OvertakenOnce
-----------------------------------------------------------------------------
(***************************************************************************)
(* Nobody sleeps short: what a sleeper has still to sleep fits between now *)
(* and its deadline on the circle of ticks, until the deadline is reached; *)
(* after that it is seen as due until it runs, as long as the clock is not *)
(* half the circle late.                                                   *)
(***************************************************************************)
Sleeping(i) == pc[i] \in {"tests", "yields"}
Gone(i) == left[i] = 0 /\ (now - due[i]) % TickMod <= MaxLate
ToCome(i) == (due[i] - now) % TickMod \in 1..Half /\ left[i] <= (due[i] - now) % TickMod

Sleeps ==
    \A i \in Task :
        /\ Sleeping(i) =>
              /\ due[i] # 0
              /\ Gone(i) \/ ToCome(i)
              /\ \/ wake_at[i] = due[i]
                 \/ wake_at[i] = 0 /\ Gone(i) /\ i = current /\ pc[i] = "tests"
        /\ pc[i] = "yields" => i = current
        /\ ~Sleeping(i) => wake_at[i] = 0
        /\ pc[i] = "runs" => left[i] = 0

LEMMA HalfIs == Half \in Nat /\ 2 * Half = TickMod /\ Half >= 3 /\ MaxLate \in Nat /\ MaxLate < Half - 1
BY SchedAssumption DEF Half

\* The distance from one tick to another, without the remainder.
Apart(a, b) == IF a >= b THEN a - b ELSE a - b + TickMod

LEMMA TicksApart ==
    ASSUME NEW a \in Tick, NEW b \in Tick
    PROVE  (a - b) % TickMod = Apart(a, b)
<1>1. a \in Nat /\ b \in Nat /\ a < TickMod /\ b < TickMod /\ TickMod \in Nat \ {0}
  BY SchedAssumption DEF Tick
<1>2. CASE a >= b  BY <1>1, <1>2 DEF Apart
<1>3. CASE a < b  BY <1>1, <1>3 DEF Apart
<1> QED  BY <1>1, <1>2, <1>3

\* sched.c:274, :281: a deadline lies at most half the circle ahead.
LEMMA DeadlineIsAhead ==
    ASSUME NEW t \in Nat, now \in Tick
    PROVE  LET d == sleep_deadline(t)
               n == IF t > Half - 1 THEN Half - 1 ELSE t
           IN  /\ d \in Tick /\ d # 0
               /\ \/ (d - now) % TickMod \in 1..Half /\ n <= (d - now) % TickMod
                  \/ n = 0 /\ (now - d) % TickMod <= MaxLate
<1> DEFINE n == IF t > Half - 1 THEN Half - 1 ELSE t
           e == IF now + n < TickMod THEN now + n ELSE now + n - TickMod
           d == IF e = 0 THEN 1 ELSE e
<1>1. n \in 0..(Half - 1) /\ now \in 0..(TickMod - 1) /\ TickMod \in Nat
  BY HalfIs, SchedAssumption DEF Tick
<1>2. (now + n) % TickMod = e
  <2>1. CASE now + n < TickMod  BY <1>1, <2>1
  <2>2. CASE now + n >= TickMod  BY <1>1, HalfIs, <2>2
  <2> QED  BY <1>1, <2>1, <2>2
<1>3. sleep_deadline(t) = d
  BY <1>2 DEF sleep_deadline
<1>4. d \in Tick /\ d # 0
  BY <1>1, HalfIs DEF Tick
<1>5. (d - now) % TickMod = Apart(d, now) /\ (now - d) % TickMod = Apart(now, d)
  BY <1>4, TicksApart
<1>6. \/ Apart(d, now) \in 1..Half /\ n <= Apart(d, now)
      \/ n = 0 /\ Apart(now, d) <= MaxLate
  BY <1>1, HalfIs DEF Apart
<1> QED  BY <1>3, <1>4, <1>5, <1>6

\* Before tells the one from the other.
LEMMA BeforeTells ==
    ASSUME TypeOK, NEW i \in Task
    PROVE  /\ Gone(i) => ~Before(now, due[i])
           /\ ToCome(i) => Before(now, due[i])
<1>1. now \in Tick /\ due[i] \in Tick  BY DEF TypeOK
<1>2. /\ (due[i] - now) % TickMod = Apart(due[i], now)
      /\ (now - due[i]) % TickMod = Apart(now, due[i])
  BY <1>1, TicksApart
<1>3. now \in 0..(TickMod - 1) /\ due[i] \in 0..(TickMod - 1)
  BY <1>1 DEF Tick
<1>4. /\ Apart(now, due[i]) <= MaxLate => ~(Apart(now, due[i]) >= Half)
      /\ Apart(due[i], now) \in 1..Half => Apart(now, due[i]) >= Half
  BY <1>3, HalfIs DEF Apart
<1> QED  BY <1>2, <1>4 DEF Gone, ToCome, Before

\* A task other than the current one that can run has slept enough.
LEMMA RunnableIsGone ==
    ASSUME IInv, Sleeps, NEW i \in Task, Runnable(i), i # current \/ pc[i] = "yields"
    PROVE  /\ Sleeping(i) => Gone(i) /\ (pc[i] = "tests" \/ i = current)
           /\ left[i] = 0 \/ pc[i] = "exits"
           /\ pc[i] # "exits"
<1>1. pc[i] # "exits"
  BY DEF Runnable, IInv, OneRuns
<1>2. Sleeping(i) => Gone(i)
  BY BeforeTells DEF Sleeps, Runnable, IInv
<1>3. ~Sleeping(i) => left[i] = 0
  BY <1>1 DEF Sleeps, Sleeping, IInv, TypeOK
<1> QED  BY <1>1, <1>2, <1>3 DEF Gone, Sleeping, Sleeps

LEMMA YieldSleeps ==
    ASSUME IInv, Sleeps, NEW label, Yield(label),
           \/ label = "runs" /\ pc[current] = "runs"
           \/ label = "tests" /\ pc[current] = "yields"
           \/ label = "exits" /\ pc[current] = "exits"
    PROVE  /\ Sleeps'
           /\ current' # current => left[current'] = 0
<1> DEFINE next == IF ntasks < 2 THEN current ELSE pick_next
<1>1. /\ current \in Task /\ next \in Task
      /\ next # current => Runnable(next)
      /\ pc' = [pc EXCEPT ![current] = label]
      /\ \/ wake_at' = wake_at /\ next = current
         \/ wake_at' = [wake_at EXCEPT ![next] = 0] /\ (next = current => Runnable(current))
      /\ current' = next /\ UNCHANGED <<now, due, left>>
  <2>1. /\ current \in 0..(ntasks - 1) /\ ntasks \in 1..MAX_TASKS
        /\ pick_next \in 0..(ntasks - 1) /\ (pick_next # current => Runnable(pick_next) /\ Found)
        /\ Found /\ pick_next = current => Runnable(current)
    BY PickIsRunnable, PickIsFirst DEF IInv, TypeOK
  <2>2. current \in Task /\ next \in Task /\ (next # current => Runnable(next))
    BY <2>1, SchedAssumption DEF Task
  <2>3. \/ wake_at' = wake_at /\ next = current
        \/ wake_at' = [wake_at EXCEPT ![next] = 0] /\ (next = current => Runnable(current))
    BY <2>1 DEF Yield
  <2>4. /\ pc' = [pc EXCEPT ![current] = label]
        /\ current' = next /\ UNCHANGED <<now, due, left>>
    BY DEF Yield
  <2> QED  BY <2>2, <2>3, <2>4
<1>3. /\ pc \in [Task -> {"runs", "tests", "yields", "exits"}] /\ wake_at \in [Task -> Tick]
  BY DEF IInv, TypeOK
<1> HIDE DEF next
<1>4. /\ pc'[current] = label /\ \A i \in Task \ {current} : pc'[i] = pc[i]
      /\ \A i \in Task \ {next} : wake_at'[i] = wake_at[i]
  BY <1>1, <1>3
<1>5. \A i \in Task : Gone(i)' = Gone(i) /\ ToCome(i)' = ToCome(i)
  BY <1>1 DEF Gone, ToCome
<1>6. ASSUME NEW i \in Task
      PROVE  /\ Sleeping(i)' =>
                  /\ due[i] # 0
                  /\ Gone(i) \/ ToCome(i)
                  /\ \/ wake_at'[i] = due[i]
                     \/ wake_at'[i] = 0 /\ Gone(i) /\ i = next /\ pc'[i] = "tests"
             /\ pc'[i] = "yields" => i = next
             /\ ~Sleeping(i)' => wake_at'[i] = 0
             /\ pc'[i] = "runs" => left[i] = 0
  <2>1. Sleeping(i)' => Sleeping(i)
    BY <1>4 DEF Sleeping
  <2>2. Sleeping(i) => Sleeping(i)'
    BY <1>4 DEF Sleeping
  <2>3. pc'[i] # "yields"
    BY <1>4 DEF Sleeps
  <2>4. pc'[i] = "runs" => left[i] = 0
    BY <1>4 DEF Sleeps
  <2>5. ~Sleeping(i) => wake_at'[i] = 0
    BY <1>1, <1>3, <1>4 DEF Sleeps
  <2>6. ASSUME Sleeping(i)
        PROVE  \/ wake_at'[i] = due[i]
               \/ wake_at'[i] = 0 /\ Gone(i) /\ i = next /\ pc'[i] = "tests"
    <3>1. i # current \/ pc[i] = "yields"
      BY <1>4, <2>6 DEF Sleeping
    <3>2. wake_at[i] = due[i]
      BY <2>6, <3>1 DEF Sleeps
    <3>3. CASE wake_at'[i] = wake_at[i]
      BY <3>2, <3>3
    <3>4. CASE wake_at'[i] # wake_at[i]
      <4>1. i = next /\ wake_at'[i] = 0 /\ Runnable(i)
        BY <1>1, <1>3, <3>4
      <4>2. Gone(i)
        BY <2>6, <3>1, <4>1, RunnableIsGone
      <4>3. pc'[i] = "tests"
        BY <1>4, <2>2, <2>3, <2>6 DEF Sleeping
      <4> QED  BY <4>1, <4>2, <4>3
    <3> QED  BY <3>3, <3>4
  <2>7. Sleeping(i)' => due[i] # 0 /\ (Gone(i) \/ ToCome(i))
    BY <2>1 DEF Sleeps
  <2> QED  BY <2>1, <2>2, <2>3, <2>4, <2>5, <2>6, <2>7
<1>7. Sleeps'
  BY <1>1, <1>5, <1>6 DEF Sleeps, Sleeping
<1>8. current' # current => left[current'] = 0
  BY <1>1, RunnableIsGone
<1> QED  BY <1>7, <1>8

\* The clock moves on by one.
LEMMA ClockSleeps == ASSUME IInv, Sleeps, Clock PROVE Sleeps'
<1>1. /\ now \in 0..(TickMod - 1) /\ TickMod \in Nat
      /\ \A i \in Task : due[i] \in 0..(TickMod - 1) /\ left[i] \in Nat
  BY SchedAssumption, HalfIs DEF IInv, TypeOK, Tick
<1>2. now' = IF now + 1 = TickMod THEN 0 ELSE now + 1
  <2>1. now' = (now + 1) % TickMod  BY DEF Clock
  <2>2. CASE now + 1 = TickMod  BY <1>1, <2>1, <2>2, HalfIs
  <2>3. CASE now + 1 # TickMod  BY <1>1, <2>1, <2>3
  <2> QED  BY <2>2, <2>3
<1>3. now' \in 0..(TickMod - 1)
  BY <1>1, <1>2, HalfIs
<1>4. /\ UNCHANGED <<current, pc, wake_at, due>>
      /\ \A i \in Task : left'[i] = IF left[i] = 0 THEN 0 ELSE left[i] - 1
  BY DEF Clock
<1>5. ASSUME NEW i \in Task
      PROVE  /\ (due[i] - now) % TickMod = Apart(due[i], now)
             /\ (now - due[i]) % TickMod = Apart(now, due[i])
             /\ (due[i] - now') % TickMod = Apart(due[i], now')
             /\ (now' - due[i]) % TickMod = Apart(now', due[i])
  <2>1. due[i] \in Tick /\ now \in Tick /\ now' \in Tick
    BY <1>1, <1>3 DEF Tick
  <2> QED  BY <2>1, TicksApart
<1>6. ASSUME NEW i \in Task, Sleeping(i), Gone(i)
      PROVE  left'[i] = 0 /\ (now' - due[i]) % TickMod <= MaxLate
  <2>1. left[i] = 0 /\ (now - due[i]) % TickMod <= MaxLate
    BY <1>6 DEF Gone
  <2>2. ~Before(now, due[i])
    BY <1>6, BeforeTells DEF IInv
  <2>3. (now - due[i]) % TickMod # MaxLate
    <3>1. CASE wake_at[i] = due[i]
      <4>1. ~Late(i) /\ wake_at[i] # 0
        BY <1>6, <3>1 DEF Clock, Sleeps
      <4>2. ~((now - due[i]) % TickMod >= MaxLate)
        BY <2>2, <3>1, <4>1 DEF Late
      <4> QED  BY <4>2, HalfIs
    <3>2. CASE wake_at[i] # due[i]
      <4>1. i = current /\ pc[i] = "tests"
        BY <1>6, <3>2 DEF Sleeps
      <4>2. (now - due[i]) % TickMod < MaxLate
        BY <2>2, <4>1 DEF Clock
      <4> QED  BY <4>2, HalfIs
    <3> QED  BY <3>1, <3>2
  <2>4. Apart(now, due[i]) <= MaxLate /\ Apart(now, due[i]) # MaxLate
    BY <1>5, <2>1, <2>3
  <2>5. Apart(now', due[i]) <= MaxLate
    BY <1>1, <1>2, <2>4, HalfIs DEF Apart
  <2> QED  BY <1>4, <1>5, <2>1, <2>5
<1>7. ASSUME NEW i \in Task, Sleeping(i), ToCome(i)
      PROVE  \/ left'[i] = 0 /\ (now' - due[i]) % TickMod <= MaxLate
             \/ (due[i] - now') % TickMod \in 1..Half /\ left'[i] <= (due[i] - now') % TickMod
  <2>1. (due[i] - now) % TickMod \in 1..Half /\ left[i] <= (due[i] - now) % TickMod
    BY <1>7 DEF ToCome
  <2>2. Apart(due[i], now) \in 1..Half /\ left[i] <= Apart(due[i], now)
    BY <1>5, <2>1
  <2>3. left'[i] = IF left[i] = 0 THEN 0 ELSE left[i] - 1
    BY <1>4
  <2>4. \/ left'[i] = 0 /\ Apart(now', due[i]) <= MaxLate
        \/ Apart(due[i], now') \in 1..Half /\ left'[i] <= Apart(due[i], now')
    BY <1>1, <1>2, <2>2, <2>3, HalfIs DEF Apart
  <2> QED  BY <1>5, <2>4
<1>8. ASSUME NEW i \in Task, Sleeping(i)
      PROVE  /\ Gone(i)' \/ ToCome(i)'
             /\ Gone(i) => Gone(i)'
  BY <1>4, <1>6, <1>7, <1>8 DEF Sleeps, Gone, ToCome
<1>9. \A i \in Task : left[i] = 0 => left'[i] = 0
  BY <1>4
<1> QED  BY <1>4, <1>8, <1>9 DEF Sleeps, Sleeping

LEMMA InitSleeps == Init => Sleeps
BY DEF Init, Sleeps, Sleeping

LEMMA StepSleeps ==
    ASSUME IInv, Sleeps, [Next]_vars
    PROVE  /\ Sleeps'
           /\ current' # current => left[current'] = 0
<1>1. /\ current \in Task /\ TypeOK /\ Fresh
      /\ pc \in [Task -> {"runs", "tests", "yields", "exits"}]
  <2>1. TypeOK /\ Fresh  BY DEF IInv
  <2> QED  BY <2>1, SchedAssumption DEF TypeOK, Task
<1>3. CASE yield \/ SleepYield \/ ExitYield
  BY <1>3, YieldSleeps DEF yield, SleepYield, ExitYield
<1>4. CASE task_create
  <2>1. UNCHANGED <<current, now, pc, due, left>> /\ wake_at' = [wake_at EXCEPT ![ntasks] = 0]
    BY <1>4 DEF task_create
  <2>2. ntasks \in Task => ~Sleeping(ntasks)
    BY <1>1 DEF Fresh, Sleeping, TypeOK
  <2>3. \A i \in Task : wake_at'[i] = wake_at[i] \/ (wake_at'[i] = 0 /\ ~Sleeping(i))
    BY <1>1, <2>1, <2>2 DEF TypeOK
  <2>4. Sleeps'
    BY <2>1, <2>3 DEF Sleeps, Sleeping, Gone, ToCome
  <2> QED  BY <2>1, <2>4
<1>5. CASE task_sleep
  <2>1. PICK ticks \in Naps :
            /\ due' = [due EXCEPT ![current] = sleep_deadline(ticks)]
            /\ wake_at' = [wake_at EXCEPT ![current] = sleep_deadline(ticks)]
            /\ left' = [left EXCEPT ![current] = IF ticks > Half - 1 THEN Half - 1 ELSE ticks]
    BY <1>5 DEF task_sleep
  <2>2. ticks \in Nat /\ now \in Tick  BY <1>1, SchedAssumption DEF TypeOK
  <2>3. /\ UNCHANGED <<current, now>> /\ pc' = [pc EXCEPT ![current] = "tests"]
        /\ pc[current] = "runs"
    BY <1>5 DEF task_sleep
  <2>4. /\ due'[current] # 0 /\ wake_at'[current] = due'[current] /\ pc'[current] = "tests"
        /\ Gone(current)' \/ ToCome(current)'
    <3>1. /\ due'[current] = sleep_deadline(ticks) /\ wake_at'[current] = sleep_deadline(ticks)
          /\ left'[current] = IF ticks > Half - 1 THEN Half - 1 ELSE ticks
          /\ pc'[current] = "tests"
      BY <1>1, <2>1, <2>3 DEF TypeOK
    <3> QED  BY <2>2, <2>3, <3>1, DeadlineIsAhead DEF Gone, ToCome
  <2>5. \A i \in Task \ {current} :
            due'[i] = due[i] /\ wake_at'[i] = wake_at[i] /\ left'[i] = left[i] /\ pc'[i] = pc[i]
    BY <1>1, <2>1, <2>3 DEF TypeOK
  <2>6. Sleeps'
    <3>1. ASSUME NEW i \in Task
          PROVE  /\ Sleeping(i)' =>
                      /\ due'[i] # 0
                      /\ Gone(i)' \/ ToCome(i)'
                      /\ \/ wake_at'[i] = due'[i]
                         \/ wake_at'[i] = 0 /\ Gone(i)' /\ i = current' /\ pc'[i] = "tests"
                 /\ pc'[i] = "yields" => i = current'
                 /\ ~Sleeping(i)' => wake_at'[i] = 0
                 /\ pc'[i] = "runs" => left'[i] = 0
      <4>1. CASE i = current
        BY <2>3, <2>4, <4>1 DEF Sleeping
      <4>2. CASE i # current
        BY <2>3, <2>5, <4>2 DEF Sleeps, Sleeping, Gone, ToCome
      <4> QED  BY <4>1, <4>2
    <3> QED  BY <3>1 DEF Sleeps
  <2> QED  BY <2>3, <2>6
<1>6. CASE SleepTest
  <2>1. UNCHANGED <<current, now, due, left>> /\ pc[current] = "tests"
    BY <1>6 DEF SleepTest
  <2>2. CASE Before(now, due[current])
    <3>1. pc' = [pc EXCEPT ![current] = "yields"] /\ wake_at' = wake_at
      BY <1>6, <2>2 DEF SleepTest
    <3>2. wake_at[current] = due[current]
      BY <1>1, <2>1, <2>2, BeforeTells DEF Sleeps, Sleeping
    <3>3. Sleeps'
      BY <1>1, <2>1, <3>1, <3>2 DEF Sleeps, Sleeping, Gone, ToCome
    <3> QED  BY <2>1, <3>3
  <2>3. CASE ~Before(now, due[current])
    <3>1. pc' = [pc EXCEPT ![current] = "runs"] /\ wake_at' = [wake_at EXCEPT ![current] = 0]
      BY <1>6, <2>3 DEF SleepTest
    <3>2. left[current] = 0
      BY <1>1, <2>1, <2>3, BeforeTells DEF Sleeps, Sleeping, Gone
    <3>3. Sleeps'
      BY <1>1, <2>1, <3>1, <3>2 DEF Sleeps, Sleeping, Gone, ToCome, TypeOK
    <3> QED  BY <2>1, <3>3
  <2> QED  BY <2>2, <2>3
<1>7. CASE task_exit
  <2>1. UNCHANGED <<current, now, due, left, wake_at>> /\ pc' = [pc EXCEPT ![current] = "exits"]
        /\ pc[current] = "runs"
    BY <1>7 DEF task_exit
  <2>2. Sleeps'
    BY <1>1, <2>1 DEF Sleeps, Sleeping, Gone, ToCome
  <2> QED  BY <2>1, <2>2
<1>8. CASE Clock
  <2>1. Sleeps' /\ current' = current
    BY <1>8, ClockSleeps DEF Clock
  <2> QED  BY <2>1
<1>9. CASE UNCHANGED vars
  BY <1>9 DEF vars, Sleeps, Sleeping, Gone, ToCome
<1> QED  BY <1>3, <1>4, <1>5, <1>6, <1>7, <1>8, <1>9 DEF Next

(***************************************************************************)
(* Nobody goes on, or is switched to, before its time is up, on a clock of *)
(* any range that wraps, whoever else sleeps (sched.c:274, :323), as long  *)
(* as a task that is due is not kept waiting for half that range.          *)
(***************************************************************************)
THEOREM NobodyEarly == Spec => NeverEarly
<1> DEFINE Rested == pc[current] = "runs" => left[current] = 0
<1>1. IInv /\ Sleeps => Rested
  <2> SUFFICES ASSUME IInv, Sleeps  PROVE Rested  OBVIOUS
  <2>1. ntasks \in 1..MAX_TASKS /\ current \in 0..(ntasks - 1) /\ MAX_TASKS \in Nat
    BY SchedAssumption DEF IInv, TypeOK
  <2>2. current \in Task  BY <2>1 DEF Task
  <2> QED  BY <2>2 DEF Sleeps
<1>2. ASSUME IInv, Sleeps, [Next]_vars, Rested'
      PROVE  [/\ pc'[current'] = "runs" => left'[current'] = 0
              /\ current' # current => left[current'] = 0]_vars
  BY <1>2, StepSleeps
<1>3. IInv /\ Sleeps /\ [Next]_vars => Sleeps'
  BY StepSleeps
<1> HIDE DEF Rested
<1> QED  BY <1>1, <1>2, <1>3, InitInv, InitSleeps, StepInv, PTL DEF Spec, NeverEarly
=============================================================================
