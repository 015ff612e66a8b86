------------------------------- MODULE Sched -------------------------------
(***************************************************************************)
(* The scheduler of AsymptoteOS: kernel/sched.c, kernel/fork.c and the     *)
(* timer path of boot/start.S, with the callers init/main.c gives them.    *)
(*                                                                         *)
(* There is one processor.  The runnable tasks hang on one circular list   *)
(* through task_struct.list, a sleeping task hangs on the list headed by   *)
(* wait_queue_head, and `current' is the task whose stack is in use.  The  *)
(* timer interrupt may strike between any two instructions, except in the  *)
(* short sections between disable_schedule and enable_schedule, which are  *)
(* one step here.  An action is the work of the running task between two   *)
(* accesses to memory that another task may also use.                      *)
(*                                                                         *)
(* The code checks none of the rules its callers have to keep.  The ghost  *)
(* variable breach collects the rules that a step has broken:              *)
(*   "boot"  the timer fired before the first do_fork cleared the state    *)
(*           word of the boot task, and memory held something else than 0  *)
(*   "fork"  do_fork was entered while another task was inside it          *)
(*   "sleep" a task used the wait queue while another one was using it, or *)
(*           after another one had                                         *)
(*   "wake"  wake_up was called when no task was asleep on the queue       *)
(*   "exit"  a task ended while it was the one that a task falling asleep  *)
(*           had picked to run next                                        *)
(* wild says that the processor has followed a pointer to memory that is   *)
(* no task_struct and no list_head; from there on anything can happen and  *)
(* the model stops.                                                        *)
(***************************************************************************)
EXTENDS Integers, DList

CONSTANTS MaxTask,    \* bound: number of task_structs do_fork may hand out
          MaxPid,     \* bound: number of pids do_fork may hand out
          Sleepers    \* the slots whose function is lcd_task, which sleeps

Boot == 0             \* the task that runs init(), on the boot stack
Wq   == -1            \* wait_queue_head
Null == -2            \* a pointer nobody has set
Task == 0 .. MaxTask  \* slot i > 0 is TASK_STRUCT_ADDR_BASE + (i-1)*TASK_SIZE
Node == Task \cup {Wq}

ASSUME SchedAssumption ==
    /\ MaxTask \in Nat \ {0}
    /\ MaxPid \in Nat
    /\ Sleepers \subseteq 1 .. MaxTask

VARIABLES
    next, prev,   \* the links of every list_head of the module
    state,        \* task_struct.state: 0 runnable, 1 asleep
    tmp,          \* sched.c:40, where the task after a sleeper is kept
    cur,          \* the task `current' stands for
    pc,           \* where each task is in sleep_on, do_fork, do_exit
    base,         \* the next slot get_task_struct_addr hands out
    pid,          \* the static counter of do_fork
    pidOf,        \* task_struct.pid
    reg,          \* the slot a task inside do_fork has been given
    preg,         \* the pid a task inside do_fork has read
    breach, wild  \* ghosts, see above

links == <<next, prev>>
forks == <<base, pid, pidOf, reg, preg>>
vars  == <<next, prev, state, tmp, cur, pc, base, pid, pidOf, reg, preg,
           breach, wild>>

\* none: no such task yet; fresh: lcd_task before its list_init; run: the
\* task's own code; save, mark, move: not yet past that step of sleep_on;
\* asleep: past sleep_on and not woken; slot, bump, readpid, setpid, link:
\* before that step of do_fork; exited: in the endless loop of do_exit.
InSleep == {"mark", "move"}
InFork  == {"bump", "readpid", "setpid", "link"}
PC      == {"none", "fresh", "run", "asleep", "exited"} \cup InSleep \cup InFork

\* The tasks that ought to be on the run queue.
Ring == {t \in Task : pc[t] \notin {"none", "asleep", "exited"}}

Rules == {"boot", "fork", "sleep", "wake", "exit"}

\* The rule r is broken by this step unless ok holds.
Demand(r, ok) == breach' = IF ok THEN breach ELSE breach \cup {r}

\* The running task t is at point l of its code.
At(t, l) == ~wild /\ cur = t /\ pc[t] = l
Goto(t, l) == pc' = [pc EXCEPT ![t] = l]

-----------------------------------------------------------------------------
(* sleep_on(&wait_queue_head), sched.c:69-79, called by lcd_task           *)

\* list_init(&wait_queue_head), the first statement of lcd_task
WqInit(t) ==
    /\ At(t, "fresh")
    /\ next' = ListInit(next, Wq)
    /\ prev' = ListInit(prev, Wq)
    /\ Goto(t, "run")
    /\ Demand("sleep", next[Wq] = Null)
    /\ UNCHANGED <<state, tmp, cur, forks, wild>>

\* tmp = current->list.next
SleepSave(t) ==
    /\ t \in Sleepers
    /\ At(t, "run")
    /\ tmp' = next[t]
    /\ Goto(t, "mark")
    /\ Demand("sleep", /\ next[Wq] \in {Wq, t}
                       /\ \A u \in Task : pc[u] \notin InSleep \cup {"asleep"})
    /\ UNCHANGED <<links, state, cur, forks, wild>>

\* Slip: the task forgets to mark itself asleep.
SleepMarkForgets(t) ==
    /\ At(t, "mark")
    /\ Goto(t, "move")
    /\ UNCHANGED <<links, state, tmp, cur, forks, breach, wild>>

\* current->state = 1
SleepMark(t) ==
    /\ At(t, "mark")
    /\ state' = [state EXCEPT ![t] = 1]
    /\ Goto(t, "move")
    /\ UNCHANGED <<links, tmp, cur, forks, breach, wild>>

\* Slip: the task goes on the wait queue without leaving the run queue.
SleepMoveStaysQueued(t) ==
    /\ At(t, "move")
    /\ next[Wq] # Null
    /\ next' = AddNext(next, prev, t, Wq)
    /\ prev' = AddPrev(next, prev, t, Wq)
    /\ Goto(t, "asleep")
    /\ UNCHANGED <<state, tmp, cur, forks, breach, wild>>

\* The task leaves the run queue for the wait queue, interrupts off.  It
\* does not give up the processor: sleep_on returns, and the next timer
\* interrupt switches away.
SleepMove(t) ==
    LET nx == DelNext(next, prev, t)
        pv == DelPrev(next, prev, t)
    IN  /\ At(t, "move")
        /\ IF Null \in {next[t], prev[t]} \/ nx[Wq] = Null
           THEN wild' = TRUE /\ UNCHANGED <<links, pc>>
           ELSE /\ next' = AddNext(nx, pv, t, Wq)
                /\ prev' = AddPrev(nx, pv, t, Wq)
                /\ Goto(t, "asleep")
                /\ UNCHANGED wild
        /\ UNCHANGED <<state, tmp, cur, forks, breach>>

-----------------------------------------------------------------------------
(* wake_up(&wait_queue_head), sched.c:60-66, called by the shell           *)

\* Slip: the sleeper is made runnable, but not linked into the run queue.
WakeUpLeavesUnlinked(t) ==
    LET q == next[Wq]
    IN  /\ t \in Task \ (Sleepers \cup {Boot})
        /\ At(t, "run")
        /\ q \in Task
        /\ pc[q] = "asleep"
        /\ state' = [state EXCEPT ![q] = 0]
        /\ Goto(q, "run")
        /\ UNCHANGED <<links, tmp, cur, forks, breach, wild>>

\* The task of the queue's first entry is made runnable and linked after
\* the caller, interrupts off.  It is never taken off the wait queue.
WakeUp(t) ==
    LET q == next[Wq]
    IN  /\ t \in Task \ (Sleepers \cup {Boot})
        /\ At(t, "run")
        /\ IF q \in Task /\ next[t] # Null
           THEN /\ state' = [state EXCEPT ![q] = 0]
                /\ next' = AddNext(next, prev, q, t)
                /\ prev' = AddPrev(next, prev, q, t)
                /\ pc' = IF pc[q] = "asleep" THEN [pc EXCEPT ![q] = "run"] ELSE pc
                /\ UNCHANGED wild
           ELSE wild' = TRUE /\ UNCHANGED <<links, state, pc>>
        /\ Demand("wake", q \in Task /\ pc[q] = "asleep")
        /\ UNCHANGED <<tmp, cur, forks>>

-----------------------------------------------------------------------------
(* do_fork, fork.c:45-70, called by init() and the shell                   *)

\* get_task_struct_addr, first half: the static variable is read ...
ForkSlot(t) ==
    /\ t \in Task \ Sleepers
    /\ At(t, "run")
    /\ base <= MaxTask
    /\ reg' = [reg EXCEPT ![t] = base]
    /\ Goto(t, "bump")
    /\ Demand("fork", \A u \in Task : pc[u] \notin InFork)
    /\ UNCHANGED <<links, state, tmp, cur, base, pid, pidOf, preg, wild>>

\* Slip: the address moves on by two slots at once.
ForkBumpTwice(t) ==
    /\ At(t, "bump")
    /\ base' = reg[t] + 2
    /\ next' = [next EXCEPT ![reg[t]] = Null]
    /\ prev' = [prev EXCEPT ![reg[t]] = Null]
    /\ state' = [state EXCEPT ![reg[t]] = 0]
    /\ Goto(t, "readpid")
    /\ UNCHANGED <<tmp, cur, pid, pidOf, reg, preg, breach, wild>>

\* ... and written back; then the new task_struct is cleared.
ForkBump(t) ==
    /\ At(t, "bump")
    /\ base' = reg[t] + 1
    /\ next' = [next EXCEPT ![reg[t]] = Null]
    /\ prev' = [prev EXCEPT ![reg[t]] = Null]
    /\ state' = [state EXCEPT ![reg[t]] = 0]
    /\ Goto(t, "readpid")
    /\ UNCHANGED <<tmp, cur, pid, pidOf, reg, preg, breach, wild>>

\* pid++, first half: the counter is read ...
ForkReadPid(t) ==
    /\ At(t, "readpid")
    /\ pid <= MaxPid
    /\ preg' = [preg EXCEPT ![t] = pid]
    /\ Goto(t, "setpid")
    /\ UNCHANGED <<links, state, tmp, cur, base, pid, pidOf, reg, breach, wild>>

\* Slip: the counter is used but not advanced.
ForkSetPidSame(t) ==
    /\ At(t, "setpid")
    /\ pid' = preg[t]
    /\ pidOf' = [pidOf EXCEPT ![reg[t]] = preg[t]]
    /\ state' = [state EXCEPT ![t] = 0]
    /\ Goto(t, "link")
    /\ UNCHANGED <<links, tmp, cur, base, reg, preg, breach, wild>>

\* ... and written back; tsk->pid and current->state are set.
ForkSetPid(t) ==
    /\ At(t, "setpid")
    /\ pid' = preg[t] + 1
    /\ pidOf' = [pidOf EXCEPT ![reg[t]] = preg[t]]
    /\ state' = [state EXCEPT ![t] = 0]
    /\ Goto(t, "link")
    /\ UNCHANGED <<links, tmp, cur, base, reg, preg, breach, wild>>

\* Slip: do_fork returns without linking the child.
ForkLinkForgets(t) ==
    LET k == reg[t]
    IN  /\ At(t, "link")
        /\ pc' = [pc EXCEPT ![t] = "run",
                            ![k] = IF k \in Sleepers THEN "fresh" ELSE "run"]
        /\ UNCHANGED <<links, state, tmp, cur, forks, breach, wild>>

\* The new task is linked before the caller, interrupts off.
ForkLink(t) ==
    LET k == reg[t]
    IN  /\ At(t, "link")
        /\ IF prev[t] = Null
           THEN wild' = TRUE /\ UNCHANGED <<links, pc>>
           ELSE /\ next' = AddTailNext(next, prev, k, t)
                /\ prev' = AddTailPrev(next, prev, k, t)
                /\ pc' = [pc EXCEPT ![t] = "run",
                                    ![k] = IF k \in Sleepers THEN "fresh" ELSE "run"]
                /\ UNCHANGED wild
        /\ UNCHANGED <<state, tmp, cur, forks, breach>>

-----------------------------------------------------------------------------
(* do_exit, fork.c:81-88, called by print_task and fs_task                 *)

\* Slip: the task ends without leaving the run queue.
ExitStaysQueued(t) ==
    /\ t \in Task \ (Sleepers \cup {Boot})
    /\ At(t, "run")
    /\ Goto(t, "exited")
    /\ Demand("exit", ~(tmp = t /\ \E u \in Task : pc[u] \in InSleep))
    /\ UNCHANGED <<links, state, tmp, cur, forks, wild>>

\* The task leaves the run queue, interrupts off, and spins until the timer
\* switches away.  Its task_struct and its links stay as they are.
Exit(t) ==
    /\ t \in Task \ (Sleepers \cup {Boot})
    /\ At(t, "run")
    /\ IF Null \in {next[t], prev[t]}
       THEN wild' = TRUE /\ UNCHANGED <<links, pc>>
       ELSE /\ next' = DelNext(next, prev, t)
            /\ prev' = DelPrev(next, prev, t)
            /\ Goto(t, "exited")
            /\ UNCHANGED wild
    /\ Demand("exit", ~(tmp = t /\ \E u \in Task : pc[u] \in InSleep))
    /\ UNCHANGED <<state, tmp, cur, forks>>

-----------------------------------------------------------------------------
(* The timer interrupt, start.S:144-186                                    *)

\* Slip: the state is not looked at.
CommonScheduleNext == next[cur]

\* __common_schedule, sched.c:42-48
CommonSchedule == IF state[cur] = 0 THEN next[cur] ELSE tmp

\* The context of the running task goes to its stack and that of the task
\* CommonSchedule names comes back.
Tick ==
    /\ ~wild
    /\ IF CommonSchedule \in Task /\ pc[CommonSchedule] # "none"
       THEN cur' = CommonSchedule /\ UNCHANGED wild
       ELSE wild' = TRUE /\ UNCHANGED cur
    /\ Demand("boot", cur = Boot => state[Boot] = 0)
    /\ UNCHANGED <<links, state, tmp, pc, forks>>

\* Nothing is known of a processor gone wild.
Wild == wild /\ UNCHANGED vars

-----------------------------------------------------------------------------
\* After task_init and timer0_init; nothing clears the .bss section or the
\* memory of the boot stack, so the state word of the boot task is arbitrary.
Init ==
    /\ next = [n \in Node |-> IF n = Boot THEN Boot ELSE Null]
    /\ prev = [n \in Node |-> IF n = Boot THEN Boot ELSE Null]
    /\ state \in {[t \in Task |-> IF t = Boot THEN s ELSE 0] : s \in {0, 1}}
    /\ tmp = Null
    /\ cur = Boot
    /\ pc = [t \in Task |-> IF t = Boot THEN "run" ELSE "none"]
    /\ base = 1
    /\ pid = 0
    /\ pidOf = [t \in Task |-> 0]
    /\ reg = [t \in Task |-> 0]
    /\ preg = [t \in Task |-> 0]
    /\ breach = {}
    /\ wild = FALSE

Sleep(t) == WqInit(t) \/ SleepSave(t) \/ SleepMark(t) \/ SleepMove(t)
Fork(t)  == \/ ForkSlot(t) \/ ForkBump(t) \/ ForkReadPid(t)
            \/ ForkSetPid(t) \/ ForkLink(t)

Next == \/ \E t \in Task : Sleep(t) \/ WakeUp(t) \/ Fork(t) \/ Exit(t)
        \/ Tick
        \/ Wild

Spec == Init /\ [][Next]_vars

\* The same system with callers that keep every rule.
CarefulSpec == Init /\ [][Next /\ breach' = {}]_vars

\* timer0 reloads itself (drivers/init.c:35), so that interrupts keep coming;
\* a task that gets the processor again and again inside do_fork or sleep_on
\* gets on with it, since a time slice is much longer than either function.
Fairness ==
    /\ WF_vars(Tick /\ breach' = {})
    /\ \A t \in Task : /\ SF_vars(Fork(t) /\ pc[t] \in InFork)
                       /\ SF_vars(Sleep(t) /\ pc[t] \in InSleep)

CarefulFairSpec == CarefulSpec /\ Fairness

-----------------------------------------------------------------------------
(* Properties                                                              *)

TypeOK ==
    /\ next \in [Node -> Node \cup {Null}]
    /\ prev \in [Node -> Node \cup {Null}]
    /\ state \in [Task -> {0, 1}]
    /\ tmp \in Node \cup {Null}
    /\ cur \in Task
    /\ pc \in [Task -> PC]
    /\ base \in 1 .. MaxTask + 1
    /\ pid \in 0 .. MaxPid + 1
    /\ pidOf \in [Task -> 0 .. MaxPid]
    /\ reg \in [Task -> Task]
    /\ preg \in [Task -> 0 .. MaxPid]
    /\ breach \in SUBSET Rules
    /\ wild \in BOOLEAN

\* A caller may even end a task that a sleeper has picked to run next.
LinksInOrder == breach \subseteq {"exit"}

\* While callers keep the rules for fork, sleep and wake, the run queue is one
\* circular list of exactly the tasks that ought to run: no fork loses its
\* child, no sleep or exit loses a neighbour, no wake links a task twice
\* (the list calls of sched.c and fork.c).
RunQueueIntact == LinksInOrder => IsRing(next, prev, Ring)

\* Under the same rules the kernel never follows a bad pointer: neither the
\* timer (list_entry of the wait queue head or of an unset tmp) nor the list
\* calls (an unset link).
NeverWild == LinksInOrder => ~wild

\* While no two tasks are inside do_fork together, a task_struct is handed out
\* once and a pid belongs to one task (fork.c:8-16 and 47-62).
ForksDistinct ==
    "fork" \notin breach =>
        /\ \A t \in Task : pc[t] \in InFork => pc[reg[t]] = "none"
        /\ \A t, u \in Task \ {Boot} :
              pc[t] # "none" /\ pc[u] # "none" /\ t # u => pidOf[t] # pidOf[u]

\* While every rule is kept, the timer never gives the processor to a task that
\* sleeps or has ended (sched.c:42-48; start.S:181-186).
DispatchRunnable ==
    [][cur' # cur /\ breach' = {} => cur' \in Ring]_vars

\* The timer serves every runnable task, again and again: no wake-up is slept
\* through and no task is starved by others that fork, exit, sleep and wake.
EveryTaskRuns == \A t \in Task : t \in Ring ~> (cur = t \/ t \notin Ring)

\* A do_fork that was entered returns, and the child it made gets to run.
ForkCompletes ==
    \A t, k \in Task :
        (pc[t] = "readpid" /\ reg[t] = k) ~> (cur = k /\ pc[k] \in {"fresh", "run"})

\* A sleep_on that was entered puts its caller to sleep, and the processor goes
\* to somebody else.
SleepCompletes ==
    \A t \in Task : pc[t] = "mark" ~> (pc[t] = "asleep" /\ cur # t)
=============================================================================
