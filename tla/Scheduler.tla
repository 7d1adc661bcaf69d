------------------------------ MODULE Scheduler ------------------------------
(***************************************************************************)
(* The task scheduler and the counting semaphores of the kernel            *)
(* (kernel/task/scheduler.c, kernel/task/synch.c, kernel/time.c).          *)
(*                                                                         *)
(* One processor; kernel code runs with interrupts masked, so it is atomic *)
(* from one call of schedule() to the next.  A semaphore is a bare counter *)
(* without a wait queue: schedule() itself polls the semaphore, the        *)
(* interrupt flag and the deadline of every task it passes on its way      *)
(* round the circular task list.                                           *)
(*                                                                         *)
(* Times are kept as remaining ticks (left = wait_timeout_u - now, slice = *)
(* cpu_end - now, both floored at 0), which is all the code compares.      *)
(***************************************************************************)
EXTENDS Integers, Sequences, FiniteSets

CONSTANTS
    Tasks,     \* task descriptors
    Task0,     \* the boot task, head of the task list
    Idle,      \* the task that registers itself as the idle task
    Sems,      \* semaphores
    NoSem,     \* the NULL semaphore of a pure timed wait
    Slice,     \* length of a time slice in ticks (10000 us)
    Deadlines, \* bound: the relative timeouts, in ticks, of timed waits
    MaxUps,    \* bound: how often each semaphore is raised
    Controls   \* bound: the control flags tasks set on one another

ASSUME SchedulerAssumption ==
    /\ IsFiniteSet(Tasks)
    /\ Task0 \in Tasks /\ Idle \in Tasks /\ Task0 # Idle
    /\ NoSem \notin Sems
    /\ Slice \in Nat /\ Deadlines \subseteq Nat /\ MaxUps \in Nat
    /\ Controls \subseteq {"INTERRUPT", "STOPPED", "DEBUG_STOP"}

Flags == {"RUNNING", "READY", "STOPPED", "TIMEDWAIT", "BLOCKED", "INTERRUPT",
          "INTERRUPTED", "TIMED_OUT", "DEBUG_STOP"}

VARIABLES
    task_list,   \* the circular list, as a sequence starting at task 0
    current,     \* scheduler_current_task
    idle_task,   \* scheduler_idle_task, {} while it is NULL
    state,       \* task->state, a set of flags
    waiting_on,  \* task->waiting_on
    left,        \* task->wait_timeout_u, relative to now
    slice,       \* cpu_end of the current task, relative to now
    sem,         \* the semaphore counters
    wait,        \* the suspended scheduler_block_on() of a task
    given,       \* history: how often a semaphore was raised
    taken        \* history: how many waits on it were granted

vars == <<task_list, current, idle_task, state, waiting_on, left, slice, sem,
          wait, given, taken>>
clocks == <<waiting_on, left>>

(* scheduler_block_on(mask, flags): intr is SCHED_WAITF_INTR, deferred the
   local variable that remembers an interrupt of an uninterruptible wait. *)
NoWait == [active |-> FALSE, mask |-> {}, intr |-> FALSE, deferred |-> FALSE]
Wait(mask, intr) ==
    [active |-> TRUE, mask |-> mask, intr |-> intr, deferred |-> FALSE]
Waits == [active : BOOLEAN, mask : SUBSET {"BLOCKED", "TIMEDWAIT"},
          intr : BOOLEAN, deferred : BOOLEAN]

Listed == {task_list[i] : i \in DOMAIN task_list}
Position(t) == CHOOSE i \in DOMAIN task_list : task_list[i] = t

(* How many steps along the list it is from t to u. *)
Distance(t, u) == (Position(u) - Position(t)) % Len(task_list)

----------------------------------------------------------------------------
(* What schedule() reads when it is entered. *)
Now == [state |-> state, sem |-> sem, on |-> waiting_on, left |-> left,
        slice |-> slice]

(* scheduler_handle_resume: what a poll finds out about task t. *)
Granted(e, t) == /\ "BLOCKED" \in e.state[t]
                 /\ e.on[t] \in Sems /\ e.sem[e.on[t]] > 0
Interrupted(e, t) == "INTERRUPT" \in e.state[t]
Elapsed(e, t) == "TIMEDWAIT" \in e.state[t] /\ e.left[t] = 0

(* Mutant: an elapsed timer readies the task without saying so. *)
WakeFlags_silent(e, t) ==
    (IF Granted(e, t) \/ Elapsed(e, t) THEN {"READY"} ELSE {})
    \cup (IF Interrupted(e, t) THEN {"READY", "INTERRUPTED"} ELSE {})

WakeFlags(e, t) ==
    (IF Granted(e, t) THEN {"READY"} ELSE {})
    \cup (IF Interrupted(e, t) THEN {"READY", "INTERRUPTED"} ELSE {})
    \cup (IF Elapsed(e, t) THEN {"READY", "TIMED_OUT"} ELSE {})

SpentFlags(e, t) ==
    (IF Granted(e, t) THEN {"BLOCKED"} ELSE {})
    \cup (IF Interrupted(e, t) THEN {"INTERRUPT"} ELSE {})
    \cup (IF Elapsed(e, t) THEN {"TIMEDWAIT"} ELSE {})

scheduler_handle_resume(e, t) ==
    IF "READY" \in e.state[t] THEN e.state[t]
    ELSE (e.state[t] \ SpentFlags(e, t)) \cup WakeFlags(e, t)

(* Mutant: the debugger's stop is not looked at. *)
scheduler_may_run_debugged(e, t) ==
    /\ e.state[t] \cap {"RUNNING", "STOPPED"} = {}
    /\ "READY" \in scheduler_handle_resume(e, t)

(* A poll changes a task only when it makes it ready, and the search ends
   there: one call of schedule() consumes at most one token. *)
scheduler_may_run(e, t) ==
    /\ e.state[t] \cap {"RUNNING", "STOPPED", "DEBUG_STOP"} = {}
    /\ "READY" \in scheduler_handle_resume(e, t)

STATE_MAY_RUN(S) == "READY" \in S /\ S \cap {"STOPPED", "DEBUG_STOP"} = {}

(* Select t, with the flags the poll left it, and switch to it. *)
Dispatch(e, t, S) ==
    /\ current' = t
    /\ slice' = Slice
    /\ state' = [e.state EXCEPT ![t] = S \cup {"RUNNING"}]

(* Mutant: the poll tests the semaphore without taking the token. *)
Resume_untaken(e, t) ==
    /\ Dispatch(e, t, scheduler_handle_resume(e, t))
    /\ sem' = e.sem

Resume(e, t) ==
    /\ Dispatch(e, t, scheduler_handle_resume(e, t))
    /\ sem' = IF "READY" \notin e.state[t] /\ Granted(e, t)
              THEN [e.sem EXCEPT ![e.on[t]] = @ - 1] ELSE e.sem

(* Mutant: the search stops one task early. *)
Candidates_short(e) ==
    {t \in Listed \ {current} : /\ scheduler_may_run(e, t)
                                /\ Distance(current, t) < Len(task_list) - 1}

(* The tasks the search passes before it is back at the current one. *)
Candidates(e) == {t \in Listed \ {current} : scheduler_may_run(e, t)}

(* Mutant: the old task stays marked as running. *)
SwitchedOut_marked(e) == e

SwitchedOut(e) == [e EXCEPT !.state[current] = @ \ {"RUNNING"}]

(* schedule(): the first runnable task after the current one in list order,
   else the current one, else the idle task. *)
schedule(e) ==
    LET k      == SwitchedOut(e)
        others == Candidates(k)
    IN  \/ /\ STATE_MAY_RUN(e.state[current]) /\ e.slice > 0
           /\ state' = e.state /\ sem' = e.sem /\ slice' = e.slice
           /\ UNCHANGED current
        \/ /\ ~(STATE_MAY_RUN(e.state[current]) /\ e.slice > 0)
           /\ \/ \E t \in others :
                   /\ \A u \in others : Distance(current, t) <= Distance(current, u)
                   /\ Resume(k, t)
              \/ /\ others = {} /\ scheduler_may_run(k, current)
                 /\ Resume(k, current)
              \/ /\ others = {} /\ ~scheduler_may_run(k, current)
                 /\ \E t \in idle_task : Dispatch(k, t, k.state[t])
                 /\ sem' = k.sem

----------------------------------------------------------------------------
(* The current task runs ordinary code: it is not inside a wait, where
   interrupts are masked, nor on its way to become the idle task. *)
Busy == ~wait[current].active /\ current # Idle
Interruptible == ~wait[current].active /\ (current = Idle => idle_task # {})
(* The tasks of processes that can be signalled: not those of process 0. *)
Signalled == Listed \ {Task0, Idle}

Init ==
    /\ task_list = <<Task0, Idle>>
    /\ current = Task0
    /\ idle_task = {}
    /\ state = [t \in Tasks |-> IF t \in {Task0, Idle} THEN {"READY"} ELSE {}]
    /\ waiting_on = [t \in Tasks |-> NoSem]
    /\ left = [t \in Tasks |-> 0]
    /\ slice = 0
    /\ sem = [s \in Sems |-> 0]
    /\ wait = [t \in Tasks |-> NoWait]
    /\ given = [s \in Sems |-> 0]
    /\ taken = [s \in Sems |-> 0]

(* idle_task(): the first thing the idle task does when it is dispatched. *)
scheduler_set_as_idle ==
    /\ current = Idle /\ idle_task = {}
    /\ idle_task' = {Idle}
    /\ state' = [state EXCEPT ![Idle] = {"STOPPED"}]
    /\ UNCHANGED <<task_list, current, clocks, slice, sem, wait, given, taken>>

scheduler_spawn(t) ==
    /\ Busy
    /\ t \notin Listed
    /\ task_list' = Append(task_list, t)
    /\ state' = [state EXCEPT ![t] = {"READY"}]
    /\ wait' = [wait EXCEPT ![t] = NoWait]
    /\ waiting_on' = [waiting_on EXCEPT ![t] = NoSem]
    /\ left' = [left EXCEPT ![t] = 0]
    /\ UNCHANGED <<current, idle_task, slice, sem, given, taken>>

(* The token of a task that is reaped between its grant and its resumption
   goes with it. *)
HasToken(t) == /\ wait[t].active /\ "BLOCKED" \in wait[t].mask
               /\ "BLOCKED" \notin state[t]

Unlinked(t) == [i \in 1..(Len(task_list) - 1) |->
                   task_list[IF i < Position(t) THEN i ELSE i + 1]]

scheduler_reap(t) ==
    /\ Busy
    /\ t \in Signalled \ {current}
    /\ task_list' = Unlinked(t)
    /\ state' = [state EXCEPT ![t] = {}]
    /\ wait' = [wait EXCEPT ![t] = NoWait]
    /\ waiting_on' = [waiting_on EXCEPT ![t] = NoSem]
    /\ left' = [left EXCEPT ![t] = 0]
    /\ taken' = IF HasToken(t) THEN [taken EXCEPT ![waiting_on[t]] = @ + 1]
                ELSE taken
    /\ UNCHANGED <<current, idle_task, slice, sem, given>>

Raise(s) == /\ given[s] < MaxUps
            /\ given' = [given EXCEPT ![s] = @ + 1]

(* semaphore_up by the running task. *)
semaphore_up(s) ==
    /\ Busy
    /\ Raise(s)
    /\ sem' = [sem EXCEPT ![s] = @ + 1]
    /\ UNCHANGED <<task_list, current, idle_task, state, clocks, slice, wait, taken>>

(* Leaving the kernel, and sched_yield: schedule() and nothing else. *)
KernelExit ==
    /\ Interruptible
    /\ schedule(Now)
    /\ UNCHANGED <<task_list, idle_task, clocks, wait, given, taken>>

(* timer_interrupt(), then the common interrupt exit with the time moved on. *)
TickDown(n) == IF n > 0 THEN n - 1 ELSE 0

TimerInterrupt ==
    LET ticked == [t \in Tasks |-> TickDown(left[t])]
    IN  /\ Interruptible
        /\ left' = ticked
        /\ schedule([Now EXCEPT !.left = ticked, !.slice = TickDown(@)])
        /\ UNCHANGED <<task_list, idle_task, waiting_on, wait, given, taken>>

(* A device interrupt whose handler raises a semaphore. *)
DeviceInterrupt(s) ==
    /\ Interruptible
    /\ Raise(s)
    /\ schedule([Now EXCEPT !.sem[s] = @ + 1])
    /\ UNCHANGED <<task_list, idle_task, clocks, wait, taken>>

(* Mutant: the counter is decremented without a test for zero. *)
semaphore_try_down_unchecked(s) ==
    /\ Busy
    /\ sem' = [sem EXCEPT ![s] = @ - 1]
    /\ taken' = [taken EXCEPT ![s] = @ + 1]
    /\ UNCHANGED <<task_list, current, idle_task, state, clocks, slice, wait, given>>

(* semaphore_ndown that finds a token. *)
semaphore_try_down(s) ==
    /\ Busy
    /\ sem[s] > 0
    /\ sem' = [sem EXCEPT ![s] = @ - 1]
    /\ taken' = [taken EXCEPT ![s] = @ + 1]
    /\ UNCHANGED <<task_list, current, idle_task, state, clocks, slice, wait, given>>

(* block_on_internal up to schedule(). *)
Block(mask, on, lf) ==
    [state |-> [state EXCEPT ![current] = (@ \ {"READY"}) \cup mask],
     sem |-> sem, on |-> on, left |-> lf, slice |-> slice]

(* scheduler_wait on s (NoSem: none) for at most n ticks (n < 0: no timeout),
   entered from semaphore_ndown when there is no token. *)
scheduler_wait(s, n, intr) ==
    LET mask == (IF s = NoSem THEN {} ELSE {"BLOCKED"})
                \cup (IF n < 0 THEN {} ELSE {"TIMEDWAIT"})
        on   == IF s = NoSem THEN waiting_on ELSE [waiting_on EXCEPT ![current] = s]
        lf   == IF n < 0 THEN left ELSE [left EXCEPT ![current] = n]
    IN  /\ Busy
        /\ mask # {}
        /\ s # NoSem => sem[s] = 0
        /\ waiting_on' = on /\ left' = lf
        /\ wait' = [wait EXCEPT ![current] = Wait(mask, intr)]
        /\ schedule(Block(mask, on, lf))
        /\ UNCHANGED <<task_list, idle_task, given, taken>>

(* block_on_internal after schedule(): why the task was resumed. *)
Reason(t) ==
    CASE "BLOCKED" \in wait[t].mask /\ "BLOCKED" \notin state[t] -> "OK"
      [] "BLOCKED" \notin wait[t].mask \/ "BLOCKED" \in state[t] ->
            IF "INTERRUPTED" \in state[t] THEN "INTR"
            ELSE IF "TIMED_OUT" \in state[t] THEN "TIMEOUT" ELSE "UNKNOWN"

Cleared(t) == state[t] \ (wait[t].mask \cup {"INTERRUPTED", "TIMED_OUT"})

(* Mutant: the second round waits for the semaphore only. *)
BlockAgain_untimed ==
    LET t == current IN
    /\ wait[t].active /\ ~wait[t].intr /\ Reason(t) = "INTR"
    /\ wait' = [wait EXCEPT ![t].deferred = TRUE]
    /\ schedule([Now EXCEPT !.state[t] = (Cleared(t) \ {"READY"})
                                         \cup (wait[t].mask \ {"TIMEDWAIT"})])
    /\ UNCHANGED <<task_list, idle_task, clocks, given, taken>>

(* scheduler_block_on: an uninterruptible wait blocks again ... *)
BlockAgain ==
    LET t == current IN
    /\ wait[t].active /\ ~wait[t].intr /\ Reason(t) = "INTR"
    /\ wait' = [wait EXCEPT ![t].deferred = TRUE]
    /\ schedule([Now EXCEPT !.state[t] = (Cleared(t) \ {"READY"}) \cup wait[t].mask])
    /\ UNCHANGED <<task_list, idle_task, clocks, given, taken>>

(* ... and every other outcome returns from the wait. *)
WaitReturns ==
    LET t == current IN
    /\ wait[t].active
    /\ Reason(t) \in {"OK", "TIMEOUT"} \/ (Reason(t) = "INTR" /\ wait[t].intr)
    /\ state' = [state EXCEPT ![t] =
                    Cleared(t) \cup (IF wait[t].deferred THEN {"INTERRUPT"} ELSE {})]
    /\ wait' = [wait EXCEPT ![t] = NoWait]
    /\ taken' = IF Reason(t) = "OK" THEN [taken EXCEPT ![waiting_on[t]] = @ + 1]
                ELSE taken
    /\ UNCHANGED <<task_list, current, idle_task, clocks, slice, sem, given>>

SetFlag(t, f) ==
    /\ Busy /\ f \in Controls /\ t \in Signalled
    /\ state' = [state EXCEPT ![t] = @ \cup {f}]
    /\ UNCHANGED <<task_list, current, idle_task, clocks, slice, sem, wait, given, taken>>

ClearFlag(t, f) ==
    /\ Busy /\ t \in Signalled
    /\ state' = [state EXCEPT ![t] = @ \ {f}]
    /\ UNCHANGED <<task_list, current, idle_task, clocks, slice, sem, wait, given, taken>>

scheduler_interrupt_task(t) == SetFlag(t, "INTERRUPT")
scheduler_debug_stop_task(t) == SetFlag(t, "DEBUG_STOP")
scheduler_debug_start_task(t) == ClearFlag(t, "DEBUG_STOP")
scheduler_continue_task(t) == ClearFlag(t, "STOPPED")

(* process_stop and process_deschedule stop the threads of a process; when
   the current task is one of them the caller goes on to schedule(). *)
scheduler_stop_task(t) ==
    IF t # current THEN SetFlag(t, "STOPPED")
    ELSE /\ Busy /\ "STOPPED" \in Controls /\ t \in Signalled
         /\ schedule([Now EXCEPT !.state[t] = @ \cup {"STOPPED"}])
         /\ UNCHANGED <<task_list, idle_task, clocks, wait, given, taken>>

Timeouts == {-1} \cup Deadlines

Next ==
    \/ scheduler_set_as_idle
    \/ KernelExit \/ TimerInterrupt \/ BlockAgain \/ WaitReturns
    \/ \E t \in Tasks : \/ scheduler_spawn(t) \/ scheduler_reap(t)
                        \/ scheduler_interrupt_task(t)
                        \/ scheduler_debug_stop_task(t)
                        \/ scheduler_debug_start_task(t)
                        \/ scheduler_stop_task(t) \/ scheduler_continue_task(t)
    \/ \E s \in Sems : semaphore_up(s) \/ DeviceInterrupt(s) \/ semaphore_try_down(s)
    \/ \E s \in Sems \cup {NoSem}, n \in Timeouts, intr \in BOOLEAN :
          scheduler_wait(s, n, intr)

Spec == Init /\ [][Next]_vars

(* Code that has been resumed goes on, and the timer, whose interrupt stays
   latched while interrupts are masked, keeps firing. *)
Fairness == /\ WF_vars(scheduler_set_as_idle) /\ SF_vars(TimerInterrupt)
            /\ WF_vars(BlockAgain) /\ WF_vars(WaitReturns)
FairSpec == Spec /\ Fairness

----------------------------------------------------------------------------
TypeOK ==
    /\ task_list \in Seq(Tasks)
    /\ current \in Tasks
    /\ idle_task \in {{}, {Idle}}
    /\ state \in [Tasks -> SUBSET Flags]
    /\ waiting_on \in [Tasks -> Sems \cup {NoSem}]
    /\ left \in [Tasks -> Nat]
    /\ slice \in Nat
    /\ sem \in [Sems -> Nat]
    /\ wait \in [Tasks -> Waits]
    /\ given \in [Sems -> Nat]
    /\ taken \in [Sems -> Nat]

(* The assertion at the end of block_on_internal ("Unknown reason for thread
   wakeup!") is never reached: whenever a waiting task is the current one,
   its token was taken, it was interrupted, or its deadline passed. *)
KnownWakeup == wait[current].active => Reason(current) # "UNKNOWN"

(* The tasks that were readied with a token of s and have not yet run. *)
Holders(s) == {t \in Tasks : waiting_on[t] = s /\ HasToken(t)}

(* Semaphore tokens are neither lost nor forged by polling: every token ever
   raised is in the counter, was handed out by a successful down, or belongs
   to exactly one task that the scheduler has readied and that has not yet
   run.  A poll that made two tasks ready, polled a stopped task, or polled a
   ready task a second time would break this. *)
TokensConserved ==
    \A s \in Sems : given[s] = sem[s] + taken[s] + Cardinality(Holders(s))

(* RUNNING is the flag of the current task alone: schedule() never leaves it
   on the task it switches away from, which could then never run again. *)
OnlyCurrentRuns ==
    \A t \in Tasks : "RUNNING" \in state[t] => t = current

(* A task that is stopped (by a signal or by a debugger) stays suspended and
   keeps its wait untouched: schedule() does not switch to it, no poll takes
   a token for it, and its interrupt and its deadline stay pending. *)
StoppedIsFrozen ==
    [][\A t \in Signalled :
         (t # current /\ state[t] \cap {"STOPPED", "DEBUG_STOP"} # {}
            /\ t \in Listed')
         => /\ current' # t
            /\ wait'[t] = wait[t]
            /\ state[t] \ state'[t] \subseteq {"STOPPED", "DEBUG_STOP"}]_vars

(* The processor idles only when nothing can run: when schedule() falls back
   to the idle task, no listed task could have been resumed. *)
IdleOnlyWhenNothingRuns ==
    [][(current' \in idle_task /\ current \notin idle_task) =>
         \A t \in Listed' : ~scheduler_may_run(Now, t)']_vars

Runnable(t) == /\ t \in Listed /\ state[t] \cap {"STOPPED", "DEBUG_STOP"} = {}
               /\ "READY" \in state[t]

(* No starvation: once tasks are no longer created and reaped, round robin over
   the task list gives every ready task the processor, unless it is stopped
   first.  (New tasks are put at the end of the list, so that tasks which
   spawn one another for ever can keep the search from reaching its head.) *)
ReadyRuns ==
    <>[][UNCHANGED task_list]_vars =>
        \A t \in Tasks : Runnable(t) ~> (current = t \/ ~Runnable(t))

Waiting(t) == wait[t].active /\ state[t] \cap {"STOPPED", "DEBUG_STOP"} = {}

(* A wait with a deadline ends, whatever happens to the semaphore, once tasks
   are no longer created and reaped (as for ReadyRuns) and unless the waiting
   task is stopped or interrupted again and again: an uninterruptible wait
   that is interrupted forgets that its deadline has passed and finds out only
   at the next poll. *)
TimedWaitEnds ==
    \A t \in Tasks :
        (<>[][UNCHANGED task_list]_vars /\ <>[]("INTERRUPT" \notin state[t])) =>
            ((Waiting(t) /\ "TIMEDWAIT" \in wait[t].mask) ~> ~Waiting(t))
=============================================================================
