---------------------------------- MODULE Sched ----------------------------------
(***************************************************************************)
(* The scheduler, the wait and sleep queues, signals, and the life of a    *)
(* process (fork, exit, wait4, kill), with the exceptions that drive them: *)
(*   rust/src/kernel/{scheduler,wait,task,signal,tty,syscall}.rs,          *)
(*   exception/{vector.S,handler.c}, kernel/main.c.                        *)
(*                                                                         *)
(* There is one CPU.  el1_exception_entry unmasks interrupts as long as    *)
(* irq_nest_level is at most NestLimit, so kernel code is preemptible: an  *)
(* interrupt may arrive between any two steps of a system call, of         *)
(* schedule() or of another handler's way out.  stack[t] is what task t    *)
(* has still to do in the kernel, next step first; <<>> is user mode (or,  *)
(* for idle, the thread's loop).  What runs with interrupts masked (a      *)
(* KMutex or ALL_TASKS held) is one step, and so is an interrupt handler's *)
(* body: the GIC holds back interrupts until GICC_EOIR is written.         *)
(*                                                                         *)
(* schedule() is seven points.  From the store of CURRENT_TASK to          *)
(* context_switch the CPU still is on the old task's stack: sp is whose    *)
(* stack it is on, cur is CURRENT_TASK.  A handler that calls schedule()   *)
(* in between has the old stack saved into the next task's context, and    *)
(* one that touches READY_QUEUE in the middle of a push or a pop races     *)
(* with it (VecDeque is not reentrant).  What memory holds then is         *)
(* undefined: torn records it, and no step of the model follows.           *)
(*                                                                         *)
(* Left out: time slices are reduced to "the slice ran out at this tick",  *)
(* the terminal's line to "a line is ready", address spaces and files    *)
(* to nothing.  SignalState.blocked and PREEMPT_COUNT are never set by any *)
(* caller, so they are constant here.                                      *)
(***************************************************************************)
EXTENDS Naturals, Sequences, FiniteSets

CONSTANTS Tasks,       \* every task that ever exists
          NoTask,      \* ppid 0
          Idle,        \* the idle thread, priority 0
          Shell,       \* the first user process, in the terminal's foreground
          Prio,        \* Task.prio: Tasks -> Nat; a forked child has its parent's
          Ops,         \* the system calls user processes make
          KillSignals, \* the signals they send with kill
          Targets,     \* the tasks whose pid they pass to it
          Keys,        \* what the terminal receives
          NestLimit,   \* vector.S: handlers above this nesting level stay masked
          Leaked,      \* exits before the run starts (each leaves a level behind)
          MaxSleep,    \* longest sleep(), in ticks
          MaxEntries   \* bound: no nested interrupt once the queues hold so many

SIGINT == 2
SIGKILL == 9
SIGTERM == 15
SIGCHLD == 17
SIGCONT == 18
SIGSTOP == 19
Signals == {SIGINT, SIGKILL, SIGTERM, SIGCHLD, SIGCONT, SIGSTOP}

Points == {"yield", "read", "fork", "wait4", "kill", "exit", "sleep",
           "register", "alive", "we_top", "we_check", "read_copy", "sleep_insert",
           "sigchld", "enqueue", "push", "scan", "scan_idle", "switch", "panic",
           "signals", "resched", "ret"}

ASSUME TaskAssumption ==
    /\ {Idle, Shell} \subseteq Tasks /\ Idle # Shell /\ NoTask \notin Tasks
    /\ Tasks \cap Points = {}
    /\ Prio \in [Tasks -> Nat]
    /\ \A t \in Tasks \ {Idle} : Prio[t] > Prio[Idle]
\* There are PRIO_NR ready queues.
ASSUME PrioAssumption == IsFiniteSet({Prio[t] : t \in Tasks})
ASSUME InputAssumption ==
    /\ Ops \subseteq {"yield", "read", "fork", "wait4", "kill", "exit", "sleep"}
    /\ KillSignals \subseteq Signals /\ Targets \subseteq Tasks
    /\ Keys \subseteq {"line", "ctrl_c", "ctrl_z"}
ASSUME BoundAssumption ==
    /\ NestLimit \in Nat /\ Leaked \in Nat /\ MaxSleep \in Nat /\ MaxEntries \in Nat

VARIABLES state,        \* Task.state; NEW before the task is created
          cur,          \* CURRENT_TASK
          ready,        \* READY_QUEUE: per priority, the queued tasks
          waitq,        \* TTY0.wq
          sleepq,       \* SLEEP_QUEUE, with the ticks left until expire_tick
          due,          \* sleep()'s local expire_tick, as ticks left
          line_ready,   \* TTY0.line_ready
          need_resched, \* NEED_RESCHED
          pending,      \* Task.signals.pending
          listed,       \* ALL_TASKS
          parent,       \* Task.ppid
          child,        \* do_fork's local: the child that is not registered yet
          stack,        \* kernel program points, next one first
          sp,           \* whose kernel stack the CPU is on
          nest,         \* irq_nest_level
          masked,       \* PSTATE.I
          torn          \* history: a context or READY_QUEUE was written half-way

queues == <<ready, waitq, sleepq>>
life == <<listed, parent, child>>
cpu == <<sp, nest, masked, torn>>
vars == <<state, cur, ready, waitq, sleepq, due, line_ready, need_resched, pending,
          listed, parent, child, stack, sp, nest, masked, torn>>

States == {"NEW", "RUNNING", "SLEEPING", "DEAD", "ZOMBIE"}
\* A task among the points ahead is the local next_ptr of schedule() with the store of
\* it into CURRENT_TASK still to come.
Steps == Points \cup Tasks
Priorities == {Prio[t] : t \in Tasks}

InReady(t) == \E i \in DOMAIN ready[Prio[t]] : ready[Prio[t]][i] = t
InWaitq(t) == \E i \in DOMAIN waitq : waitq[i] = t
InSleepq(t) == \E i \in DOMAIN sleepq : sleepq[i].task = t

-----------------------------------------------------------------------------------
\* Boot: rust_main creates idle and then the shell; the shell, which has the
\* higher priority, is the first task to run.
Init ==
    /\ state = [t \in Tasks |-> IF t \in {Idle, Shell} THEN "RUNNING" ELSE "NEW"]
    /\ cur = Shell
    /\ ready = [p \in Priorities |-> IF p = Prio[Idle] THEN <<Idle>> ELSE <<>>]
    /\ waitq = <<>> /\ sleepq = <<>>
    /\ due = [t \in Tasks |-> 0]
    /\ line_ready = FALSE /\ need_resched = FALSE
    /\ pending = [t \in Tasks |-> {}]
    /\ listed = {Idle, Shell}
    /\ parent = [t \in Tasks |-> NoTask]
    /\ child = [t \in Tasks |-> NoTask]
    /\ stack = [t \in Tasks |-> <<>>]
    /\ sp = Shell
    /\ nest = Leaked
    /\ masked = FALSE
    /\ torn = FALSE

-----------------------------------------------------------------------------------
\* The kernel stack of the running task.
At(point) == stack[sp] # <<>> /\ Head(stack[sp]) = point
Become(points) == stack' = [stack EXCEPT ![sp] = points \o Tail(@)]

\* Mutated form: every handler runs with interrupts on.
EntryNeverMasked == FALSE

\* el1_exception_entry: one level deeper; interrupts stay masked beyond the limit.
EntryMasked == nest + 1 > NestLimit
Enter(points) ==
    /\ nest' = nest + 1
    /\ masked' = EntryMasked
    /\ stack' = [stack EXCEPT ![sp] = points \o @]

\* An operation on READY_QUEUE that an interrupt has put off and may have cut in two,
\* below that interrupt's frame: whoever touches the queue now may tear it.
QueuePoints == {"fork", "push", "scan", "scan_idle"}
HalfDone == \E t \in Tasks : \E i \in DOMAIN stack[t] :
               i > 1 /\ stack[t][i] \in QueuePoints /\ stack[t][i - 1] = "ret"

\* Mutated form: the task is put at the head of its queue.
AddReadyFront(q, t) == [q EXCEPT ![Prio[t]] = <<t>> \o @]

\* add_task_ready: append to the queue of the task's priority, whatever is in it.
AddReady(q, t) == [q EXCEPT ![Prio[t]] = Append(@, t)]

\* The tasks of ts with priority p, in the order of ts.
OfPrio(ts, p) ==
    LET at == {i \in DOMAIN ts : Prio[ts[i]] = p}
        nth(k) == CHOOSE i \in at : Cardinality({j \in at : j <= i}) = k
    IN  [k \in 1..Cardinality(at) |-> ts[nth(k)]]
AddAllReady(q, ts) == [p \in Priorities |-> q[p] \o OfPrio(ts, p)]

-----------------------------------------------------------------------------------
\* signal.rs
DefaultAction(sig) == CASE sig = SIGCHLD -> "Ignore"
                        [] sig = SIGSTOP -> "Stop"
                        [] sig = SIGCONT -> "Cont"
                        [] OTHER -> "Terminate"

CheckPending(t) == IF pending[t] = {} THEN 0
                   ELSE CHOOSE s \in pending[t] : \A r \in pending[t] : s <= r

HasFatalPending(t) == \E s \in pending[t] : DefaultAction(s) \in {"Terminate", "Stop"}

\* do_kill, once find_task_by_pid has found the target.
Deliver(t, sig) ==
    /\ state' = [state EXCEPT ![t] = CASE sig = SIGKILL -> "DEAD"
                                       [] sig = SIGSTOP -> "SLEEPING"
                                       [] sig = SIGCONT -> "RUNNING"
                                       [] OTHER -> @]
    /\ pending' = [pending EXCEPT ![t] = IF sig \in {SIGSTOP, SIGCONT} THEN @
                                         ELSE @ \cup {sig}]

-----------------------------------------------------------------------------------
\* A user process makes a system call (SVC): vector.S, then handle_syscall.
Syscall(op) ==
    /\ ~torn /\ stack[sp] = <<>> /\ cur # Idle
    /\ Enter(<<op, "signals", "ret">>)
    /\ UNCHANGED <<state, cur, queues, due, line_ready, need_resched, pending, life, sp, torn>>

\* SYS_SCHED_YIELD only asks for a reschedule.
Yield ==
    /\ At("yield")
    /\ need_resched' = TRUE
    /\ Become(<<>>)
    /\ UNCHANGED <<state, cur, queues, due, line_ready, pending, life, cpu>>

\* SYS_KILL: any registered task, idle included (pid 1), or a pid that is not found.
Kill ==
    /\ At("kill")
    /\ \/ \E t \in listed \cap Targets, sig \in KillSignals : Deliver(t, sig)
       \/ UNCHANGED <<state, pending>>
    /\ Become(<<>>)
    /\ UNCHANGED <<cur, queues, due, line_ready, need_resched, life, cpu>>

\* Mutated form: the child starts inside the exception handler, before the level is
\* decremented.
ChildInHandler == <<"ret">>

\* The child's context resumes at el1_exception_exit, after the decrement.
ChildStack == <<>>

\* do_fork and add_task's first half: the child is in the ready queue, in user
\* mode, before it is in ALL_TASKS.
Fork ==
    /\ At("fork")
    /\ \E c \in Tasks :
          /\ state[c] = "NEW"
          /\ state' = [state EXCEPT ![c] = "RUNNING"]
          /\ parent' = [parent EXCEPT ![c] = cur]
          /\ child' = [child EXCEPT ![sp] = c]
          /\ ready' = AddReady(ready, c)
          /\ stack' = [stack EXCEPT ![c] = ChildStack, ![sp] = <<"register">> \o Tail(@)]
    /\ torn' \in {FALSE, HalfDone}
    /\ UNCHANGED <<cur, waitq, sleepq, due, line_ready, need_resched, pending, listed,
                   sp, nest, masked>>

\* do_fork without memory for the page table.
ForkFails ==
    /\ At("fork")
    /\ Become(<<>>)
    /\ UNCHANGED <<state, cur, queues, due, line_ready, need_resched, pending, life, cpu>>

Register ==
    /\ At("register")
    /\ listed' = listed \cup {child[sp]}
    /\ child' = [child EXCEPT ![sp] = NoTask]
    /\ Become(<<>>)
    /\ UNCHANGED <<state, cur, queues, due, line_ready, need_resched, pending, parent, cpu>>

\* find_zombie_child: drop the DEAD tasks from ALL_TASKS, then reap a zombie child.
Purged == {t \in listed : state[t] # "DEAD"}
Zombies(t) == {c \in Purged : parent[c] = t /\ state[c] = "ZOMBIE"}

Reap ==
    /\ At("wait4")
    /\ listed' = Purged
    /\ \E c \in Zombies(cur) : state' = [state EXCEPT ![c] = "DEAD"]
    /\ Become(<<>>)
    /\ UNCHANGED <<cur, queues, due, line_ready, need_resched, pending, parent, child, cpu>>

NothingToReap ==
    /\ At("wait4") /\ Zombies(cur) = {}
    /\ listed' = Purged
    /\ Become(<<"alive">>)
    /\ UNCHANGED <<state, cur, queues, due, line_ready, need_resched, pending, parent, child, cpu>>

\* do_wait4's second look at ALL_TASKS: 0 with a reschedule if a child lives, else
\* ECHILD.
HasAlive(t) == \E c \in listed : parent[c] = t /\ state[c] \notin {"DEAD", "ZOMBIE"}

WaitAlive ==
    /\ At("alive")
    /\ need_resched' = (need_resched \/ HasAlive(cur))
    /\ Become(<<>>)
    /\ UNCHANGED <<state, cur, queues, due, line_ready, pending, life, cpu>>

-----------------------------------------------------------------------------------
\* read_line: wait_event on TTY0.wq until a line is ready or a fatal signal pends.
ReadLine ==
    /\ At("read")
    /\ Become(<<"we_top", "read_copy">>)
    /\ UNCHANGED <<state, cur, queues, due, line_ready, need_resched, pending, life, cpu>>

\* Mutated form: the waiter is queued without looking at the condition again.
NeverCondition(t) == FALSE

Condition(t) == line_ready \/ HasFatalPending(t)

\* Mutated form: a second waiter overwrites the first.
OneWaiter(t) == <<t>>

WithWaiter(t) == Append(waitq, t)

\* The points of schedule().
Schedule == <<"enqueue", "scan", "switch">>

\* One pass of wait_event's loop, under the queue's lock.
WaitDone ==
    /\ At("we_top") /\ Condition(cur)
    /\ Become(<<>>)
    /\ UNCHANGED <<state, cur, queues, due, line_ready, need_resched, pending, life, cpu>>

WaitSleep ==
    /\ At("we_top") /\ ~Condition(cur)
    /\ state' = [state EXCEPT ![cur] = "SLEEPING"]
    /\ waitq' = WithWaiter(cur)
    /\ Become(<<"we_check">>)
    /\ UNCHANGED <<cur, ready, sleepq, due, line_ready, need_resched, pending, life, cpu>>

\* The state is read again after the lock is dropped; schedule() runs only if it
\* still is SLEEPING.
WaitCheck ==
    /\ At("we_check")
    /\ Become(IF state[cur] = "SLEEPING" THEN Schedule \o <<"we_top">>
                                         ELSE <<"we_top">>)
    /\ UNCHANGED <<state, cur, queues, due, line_ready, need_resched, pending, life, cpu>>

\* The rest of read_line: either no line was ready, or the line is taken.
ReadCopy ==
    /\ At("read_copy")
    /\ line_ready' = FALSE
    /\ Become(<<>>)
    /\ UNCHANGED <<state, cur, queues, due, need_resched, pending, life, cpu>>

-----------------------------------------------------------------------------------
\* sleep: expire_tick is computed before interrupts are masked.
Sleep ==
    /\ At("sleep")
    /\ \E ticks \in 1..MaxSleep : due' = [due EXCEPT ![sp] = ticks]
    /\ Become(<<"sleep_insert">>)
    /\ UNCHANGED <<state, cur, queues, line_ready, need_resched, pending, life, cpu>>

\* How many entries of the sleep queue come before one with this many ticks left.
InsertAt(left) == Cardinality({i \in DOMAIN sleepq : \A j \in 1..i : sleepq[j].left <= left})

SleepInsert ==
    /\ At("sleep_insert")
    /\ state' = [state EXCEPT ![cur] = "SLEEPING"]
    /\ LET n == InsertAt(due[sp])
       IN  sleepq' = SubSeq(sleepq, 1, n) \o <<[task |-> cur, left |-> due[sp]]>>
                       \o SubSeq(sleepq, n + 1, Len(sleepq))
    /\ due' = [due EXCEPT ![sp] = 0]
    /\ Become(Schedule)
    /\ UNCHANGED <<cur, ready, waitq, line_ready, need_resched, pending, life, cpu>>

-----------------------------------------------------------------------------------
\* Mutated form: schedule() before the parent is notified.
ExitThenNotify == Schedule \o <<"sigchld">>

ExitSteps == <<"sigchld">> \o Schedule

\* do_exit_with: ZOMBIE, then SIGCHLD to the parent, then schedule().
Exit ==
    /\ At("exit")
    /\ state' = [state EXCEPT ![cur] = "ZOMBIE"]
    /\ Become(ExitSteps)
    /\ UNCHANGED <<cur, queues, due, line_ready, need_resched, pending, life, cpu>>

NotifyParent ==
    /\ At("sigchld")
    /\ IF parent[cur] \in listed THEN Deliver(parent[cur], SIGCHLD)
                                 ELSE UNCHANGED <<state, pending>>
    /\ Become(<<>>)
    /\ UNCHANGED <<cur, queues, due, line_ready, need_resched, life, cpu>>

-----------------------------------------------------------------------------------
\* Mutated form: every task goes back, whatever its state.
RequeueAlways == TRUE

\* Mutated form: idle does not go back.
RequeueUser == state[cur] = "RUNNING" /\ cur # Idle

Requeue == state[cur] = "RUNNING"

\* schedule() takes CURRENT_TASK for the task whose context it will save.  On another
\* task's stack it is the wrong one, and that context is lost.
Enqueue ==
    /\ At("enqueue")
    /\ torn' = (cur # sp)
    /\ Become(IF Requeue THEN <<"push">> ELSE <<>>)
    /\ UNCHANGED <<state, cur, queues, due, line_ready, need_resched, pending, life,
                   sp, nest, masked>>

\* The running task goes back to its queue.
Push ==
    /\ At("push")
    /\ ready' = AddReady(ready, cur)
    /\ torn' \in {FALSE, HalfDone}
    /\ Become(<<>>)
    /\ UNCHANGED <<state, cur, waitq, sleepq, due, line_ready, need_resched, pending, life,
                   sp, nest, masked>>

\* The scan for the next task: the queues above idle's, whose tasks all have the
\* priority of the first process, and then idle's.  A queue that fills after the scan
\* has passed it is not looked at again.
NonEmpty == {p \in Priorities : ready[p] # <<>>}
UserQueues == NonEmpty \ {Prio[Idle]}

Take(p) ==
    /\ ready' = [ready EXCEPT ![p] = Tail(@)]
    /\ torn' \in {FALSE, HalfDone}
    /\ Become(<<Head(ready[p])>>)
    /\ UNCHANGED <<state, cur, waitq, sleepq, due, line_ready, need_resched, pending, life,
                   sp, nest, masked>>

PickUser ==
    /\ At("scan")
    /\ \E p \in UserQueues : (\A r \in UserQueues : r <= p) /\ Take(p)

PassUsers ==
    /\ At("scan") /\ UserQueues = {}
    /\ Become(<<"scan_idle">>)
    /\ UNCHANGED <<state, cur, queues, due, line_ready, need_resched, pending, life, cpu>>

PickIdle ==
    /\ At("scan_idle") /\ Prio[Idle] \in NonEmpty
    /\ Take(Prio[Idle])

\* expect("schedule: no runnable task in ready queue!"); the panic handler loops.
Panic ==
    /\ At("scan_idle") /\ Prio[Idle] \notin NonEmpty
    /\ Become(<<"panic">>)
    /\ UNCHANGED <<state, cur, queues, due, line_ready, need_resched, pending, life, cpu>>

Store ==
    /\ stack[sp] # <<>> /\ Head(stack[sp]) \in Tasks
    /\ cur' = Head(stack[sp])
    /\ Become(<<>>)
    /\ UNCHANGED <<state, queues, due, line_ready, need_resched, pending, life, cpu>>

\* A task that runs for the first time is entered with interrupts on (kthread_entry,
\* el1_exception_exit); one that was switched out inherits the mask of the task that
\* switched.
MaskOnResume(t) == IF stack[t] = <<>> THEN FALSE ELSE masked

\* context_switch, whose next is cur.  A new process goes on at el1_exception_exit,
\* where an interrupt after the write of ELR_EL1 overwrites it before eret.
ContextSwitch ==
    /\ At("switch")
    /\ sp' = cur
    /\ masked' = MaskOnResume(cur)
    /\ torn' \in {FALSE, ~masked /\ cur # Idle /\ stack[cur] = <<>>}
    /\ Become(<<>>)
    /\ UNCHANGED <<state, cur, queues, due, line_ready, need_resched, pending, life, nest>>

-----------------------------------------------------------------------------------
\* rust_check_signals on the way out of a system call or an interrupt, with the
\* caller's do_exit when it returns 1.
CheckSignals ==
    /\ At("signals")
    /\ LET sig == CheckPending(cur)
           act == DefaultAction(sig)
       IN  CASE sig = 0 ->
                  /\ Become(<<>>)
                  /\ UNCHANGED <<state, pending>>
             [] sig # 0 /\ act = "Terminate" ->
                  /\ state' = [state EXCEPT ![cur] = "DEAD"]
                  /\ pending' = [pending EXCEPT ![cur] = {}]
                  /\ Become(<<"exit">>)
             [] OTHER ->
                  /\ state' = [state EXCEPT ![cur] = CASE act = "Stop" -> "SLEEPING"
                                                       [] act = "Cont" -> "RUNNING"
                                                       [] OTHER -> @]
                  /\ pending' = [pending EXCEPT ![cur] = @ \ {sig}]
                  /\ Become(<<>>)
    /\ UNCHANGED <<cur, queues, due, line_ready, need_resched, life, cpu>>

\* rust_check_and_schedule.
CheckAndSchedule ==
    /\ At("resched")
    /\ need_resched' = FALSE
    /\ Become(IF need_resched THEN Schedule ELSE <<>>)
    /\ UNCHANGED <<state, cur, queues, due, line_ready, pending, life, cpu>>

\* The end of el1_exception_entry: one level up, and eret restores the mask of the
\* interrupted code, which had interrupts on.
ExceptionReturn ==
    /\ At("ret")
    /\ nest' = nest - 1
    /\ masked' = FALSE
    /\ Become(<<>>)
    /\ UNCHANGED <<state, cur, queues, due, line_ready, need_resched, pending, life, sp, torn>>

-----------------------------------------------------------------------------------
Entries == Len(waitq) + Len(sleepq)
             + Cardinality(UNION {{<<p, i>> : i \in DOMAIN ready[p]} : p \in Priorities})

\* Mutated form: signals are looked at only after system calls.
IrqNoSignals == <<"resched", "ret">>

\* c_exception_handler_el1 after the handler: signals, then the reschedule.
IrqSteps == <<"signals", "resched", "ret">>

\* An interrupt is taken: interrupts are on, and a nested one finds the queues
\* below the bound.
Interrupted ==
    /\ ~torn /\ ~masked
    /\ stack[sp] # <<>> => Entries < MaxEntries
    /\ Enter(IrqSteps)
    /\ UNCHANGED sp

\* Mutated form: the difference is taken after the deadline has passed, too.
ElapsedWraps(left) == left - 1

\* One tick nearer to expire_tick; a deadline that has passed is due at once.
Elapsed(left) == IF left = 0 THEN 0 ELSE left - 1

\* Mutated form: the head is popped before its deadline is looked at.
ExpiredOneMore(q) == IF q = <<>> THEN 0 ELSE 1

\* rust_check_sleepers wakes the expired head of the queue; the scan stops at the
\* first entry that is not due.
Expired(q) == CHOOSE n \in 0..Len(q) :
                 /\ \A i \in 1..n : q[i].left = 0
                 /\ n < Len(q) => q[n + 1].left > 0
Aged(q) == [i \in DOMAIN q |-> [q[i] EXCEPT !.left = Elapsed(@)]]
TaskOf(q) == [i \in DOMAIN q |-> q[i].task]
Awake(ts) == [t \in Tasks |-> IF \E i \in DOMAIN ts : ts[i] = t THEN "RUNNING" ELSE state[t]]

\* timer_irq_handler: system_tick, rust_check_sleepers, rust_timer_tick.
TimerInterrupt(slice_over) ==
    /\ Interrupted
    /\ LET q == Aged(sleepq)
           n == Expired(q)
           woken == TaskOf(SubSeq(q, 1, n))
       IN  /\ sleepq' = SubSeq(q, n + 1, Len(q))
           /\ state' = Awake(woken)
           /\ ready' = AddAllReady(ready, woken)
           /\ torn' \in {FALSE, woken # <<>> /\ HalfDone}
    /\ due' = [t \in Tasks |-> Elapsed(due[t])]
    /\ need_resched' = (need_resched \/ slice_over)
    /\ UNCHANGED <<cur, waitq, line_ready, pending, life>>

\* wake_up(&TTY0.wq): every waiter becomes RUNNING and is queued.
WokenByLine == waitq

\* uart_irq_callback: a line ends.
LineInterrupt ==
    /\ Interrupted
    /\ line_ready' = TRUE
    /\ state' = Awake(WokenByLine)
    /\ ready' = AddAllReady(ready, WokenByLine)
    /\ waitq' = SubSeq(waitq, Len(WokenByLine) + 1, Len(waitq))
    /\ torn' \in {FALSE, WokenByLine # <<>> /\ HalfDone}
    /\ UNCHANGED <<cur, sleepq, due, need_resched, pending, life>>

\* uart_irq_callback: Ctrl-C and Ctrl-Z signal the foreground process.
KeySignal(key) == IF key = "ctrl_c" THEN SIGINT ELSE SIGSTOP
KeyInterrupt(key) ==
    /\ Interrupted
    /\ pending' = IF Shell \in listed
                  THEN [pending EXCEPT ![Shell] = @ \cup {KeySignal(key)}] ELSE pending
    /\ UNCHANGED <<state, cur, queues, due, line_ready, need_resched, life, torn>>

-----------------------------------------------------------------------------------
Kernel ==
    /\ ~torn
    /\ \/ Yield \/ Kill \/ Fork \/ ForkFails \/ Register \/ Reap \/ NothingToReap \/ WaitAlive
       \/ ReadLine \/ WaitDone \/ WaitSleep \/ WaitCheck \/ ReadCopy
       \/ Sleep \/ SleepInsert \/ Exit \/ NotifyParent
       \/ Enqueue \/ Push \/ PickUser \/ PassUsers \/ PickIdle \/ Panic \/ Store \/ ContextSwitch
       \/ CheckSignals \/ CheckAndSchedule \/ ExceptionReturn

Interrupt ==
    \/ \E slice_over \in BOOLEAN : TimerInterrupt(slice_over)
    \/ "line" \in Keys /\ LineInterrupt
    \/ \E key \in Keys \ {"line"} : KeyInterrupt(key)

Next == Kernel \/ Interrupt \/ \E op \in Ops : Syscall(op)

Spec == Init /\ [][Next]_vars

\* Fairness.  The CPU goes on with the running task's kernel code, and a pending
\* tick is taken as soon as interrupts are on, however short that is; a slice is a
\* finite number of ticks, so it ends again and again.  Nothing obliges a process to
\* make system calls or a user to type.
Fairness == /\ WF_vars(Kernel)
            /\ SF_vars(TimerInterrupt(TRUE))
FairSpec == Spec /\ Fairness

-----------------------------------------------------------------------------------
\* Every variable has its type.
TypeOK ==
    /\ state \in [Tasks -> States]
    /\ cur \in Tasks /\ sp \in Tasks
    /\ ready \in [Priorities -> Seq(Tasks)]
    /\ waitq \in Seq(Tasks)
    /\ sleepq \in Seq([task : Tasks, left : Nat])
    /\ due \in [Tasks -> Nat]
    /\ line_ready \in BOOLEAN /\ need_resched \in BOOLEAN /\ masked \in BOOLEAN /\ torn \in BOOLEAN
    /\ pending \in [Tasks -> SUBSET Signals]
    /\ listed \subseteq Tasks
    /\ parent \in [Tasks -> Tasks \cup {NoTask}]
    /\ child \in [Tasks -> Tasks \cup {NoTask}]
    /\ stack \in [Tasks -> Seq(Steps)]
    /\ nest \in Nat

Occurrences(seq, x) == Cardinality({i \in DOMAIN seq : seq[i] = x})

\* Popped from READY_QUEUE by some schedule() that has not stored it yet.
Picked(t) == \E u \in Tasks : \E i \in DOMAIN stack[u] : stack[u][i] = t

\* Until a context is torn, no task is lost by the scheduler: whatever interrupts schedule(), wait_event()
\* or sleep(), a RUNNING task is the current one, in the ready queue or on the way
\* from the one to the other.
RunnableIsQueued ==
    torn \/ \A t \in Tasks : state[t] = "RUNNING" => t = cur \/ InReady(t) \/ Picked(t)

\* A task that went to sleep can be found by whoever has to wake it.
SleeperIsQueued ==
    \A t \in Tasks : state[t] = "SLEEPING" /\ t # cur => InWaitq(t) \/ InSleepq(t) \/ InReady(t)

\* No lost wake-up: nobody sleeps on the terminal's queue while a line is ready.
NoLostWakeup == line_ready => waitq = <<>>

\* schedule() always finds a task, so its expect("schedule: no runnable task in
\* ready queue!") does not panic the kernel.
NeverPanics == \A t \in Tasks : Occurrences(stack[t], "panic") = 0

\* No context is overwritten with another task's stack, no handler touches READY_QUEUE in
\* the middle of a push or a pop, and no interrupt spoils the first eret of a process.
NeverTorn == ~torn

\* The exception frames on the kernel stacks, counted from the bottom of each.
FromBottom(s, k) == s[Len(s) + 1 - k]
FramesOf(s) == {k \in DOMAIN s : FromBottom(s, k) = "ret"}
Frames == UNION {{t} \X FramesOf(stack[t]) : t \in Tasks}

\* Until a context is torn, irq_nest_level counts the exception frames on all kernel
\* stacks, those of exited tasks included; it is never decremented for a frame that is
\* not there.
NestCountsFrames == torn \/ nest = Leaked + Cardinality(Frames)

\* No task is in the ready queue twice, so none is scheduled for something it has
\* already done.
NoDoubleEnqueue == \A t \in Tasks : Occurrences(ready[Prio[t]], t) <= 1

\* do_exit_with notifies the parent: no zombie is switched out before its SIGCHLD.
ExitNotifiesParent ==
    \A t \in Tasks : state[t] = "ZOMBIE" /\ t # cur => Occurrences(stack[t], "sigchld") = 0

\* rust_check_sleepers wakes no sleeper before its deadline: an entry leaves the
\* sleep queue only at the tick that makes it due, and every due entry leaves then.
WokenWhenDue ==
    [][\A t \in Tasks : InSleepq(t) =>
         (InSleepq(t)' <=> \/ sleepq' = sleepq
                           \/ \E i \in DOMAIN sleepq : sleepq[i].task = t /\ sleepq[i].left > 1
                           \/ Len(sleepq') > Len(sleepq))]_vars

\* Round robin: every queued user task runs again, whatever the others do.
ReadyRuns == \A t \in Tasks \ {Idle} : InReady(t) ~> cur = t

\* SIGKILL terminates: a queued task it marks DEAD still gets to run its own exit.
KilledExits ==
    \A t \in Tasks : (InReady(t) /\ SIGKILL \in pending[t]) ~> state[t] = "ZOMBIE"
==================================================================================
