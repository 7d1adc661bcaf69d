----------------------------- MODULE SchedulerStep -----------------------------
(***************************************************************************)
(* The inductive invariant of Scheduler and what one call of schedule()    *)
(* does to it.                                                             *)
(*                                                                         *)
(* The invariant relates the flags of a task to the wait it is suspended   *)
(* in.  It is stated for arbitrary flags st and waits w, because           *)
(* schedule() is entered in the middle of a step, with flags that no state *)
(* of the specification holds.                                             *)
(***************************************************************************)
EXTENDS Scheduler, FiniteSetTheorems, TLAPS

(* The two wait flags are set only as the task's own wait asked for, and a
   waiting task that is ready has a reason to be. *)
Explained(S, w) == \/ "BLOCKED" \in w.mask /\ "BLOCKED" \notin S
                   \/ "INTERRUPTED" \in S \/ "TIMED_OUT" \in S
FlagsFit(st, w) ==
    \A t \in Tasks : /\ st[t] \cap {"BLOCKED", "TIMEDWAIT"} \subseteq w[t].mask
                     /\ w[t].active /\ "READY" \in st[t] => Explained(st[t], w[t])
                     /\ ~w[t].active => w[t].mask = {}

Entry == [state : [Tasks -> SUBSET Flags], sem : [Sems -> Nat],
          on : [Tasks -> Sems \cup {NoSem}], left : [Tasks -> Nat], slice : Nat]

Marked(st, c) == \A t \in Tasks : "RUNNING" \in st[t] => t = c

WaitInv ==
    /\ FlagsFit(state, wait)
    /\ wait[current].active => "READY" \in state[current]
    /\ ~wait[Idle].active
    /\ Marked(state, current)

----------------------------------------------------------------------------
(* What one call of schedule() does, whatever it is entered with. *)
LEMMA ScheduleType ==
    ASSUME TypeOK, NEW e \in Entry, schedule(e)
    PROVE  /\ current' \in Tasks /\ state' \in [Tasks -> SUBSET Flags]
           /\ sem' \in [Sems -> Nat] /\ slice' \in Nat
  <1> USE SchedulerAssumption DEF TypeOK
  <1> DEFINE k == SwitchedOut(e)
  <1>1. k \in Entry /\ k.sem = e.sem
    BY Zenon DEF SwitchedOut, Entry, Flags
  <1>2. Listed \subseteq Tasks
    BY DEF Listed
  <1>3. ASSUME NEW t \in Tasks, Resume(k, t)
        PROVE  /\ current' \in Tasks /\ state' \in [Tasks -> SUBSET Flags]
               /\ sem' \in [Sems -> Nat] /\ slice' \in Nat
    <2>1. scheduler_handle_resume(k, t) \subseteq Flags
      BY <1>1, SMTT(30) DEF scheduler_handle_resume, WakeFlags, SpentFlags, Flags, Entry
    <2>2. sem' \in [Sems -> Nat]
      <3>1. k.sem \in [Sems -> Nat]
        BY <1>1 DEF Entry
      <3>2. CASE Granted(k, t)
        <4>1. k.on[t] \in Sems /\ k.sem[k.on[t]] > 0
          BY <3>2 DEF Granted
        <4>2. k.sem[k.on[t]] - 1 \in Nat
          BY <3>1, <4>1
        <4>3. [k.sem EXCEPT ![k.on[t]] = @ - 1] \in [Sems -> Nat]
          BY <3>1, <4>2, Zenon
        <4> QED BY <1>3, <3>1, <4>3 DEF Resume
      <3> QED BY <1>3, <3>1, <3>2 DEF Resume
    <2> QED BY <1>1, <1>3, <2>1, <2>2, Zenon DEF Resume, Dispatch, Entry, Flags
  <1>4. ASSUME NEW t \in idle_task, Dispatch(k, t, k.state[t]), sem' = k.sem
        PROVE  /\ current' \in Tasks /\ state' \in [Tasks -> SUBSET Flags]
               /\ sem' \in [Sems -> Nat] /\ slice' \in Nat
    BY <1>1, <1>4 DEF Dispatch, Entry, Flags
  <1>5. CASE STATE_MAY_RUN(e.state[current]) /\ e.slice > 0
    BY <1>5 DEF schedule, Entry
  <1>6. CASE ~(STATE_MAY_RUN(e.state[current]) /\ e.slice > 0)
    BY <1>2, <1>3, <1>4, <1>6 DEF schedule, Candidates
  <1> QED BY <1>5, <1>6

LEMMA ScheduleFits ==
    ASSUME TypeOK, NEW e \in Entry, NEW w \in [Tasks -> Waits],
           FlagsFit(e.state, w), Marked(e.state, current), ~w[Idle].active,
           w[current].active => "READY" \notin e.state[current],
           schedule(e)
    PROVE  /\ FlagsFit(state', w) /\ Marked(state', current')
           /\ w[current'].active => "READY" \in state'[current']
  <1> DEFINE k == SwitchedOut(e)
  <1>0. current \in Tasks /\ Listed \subseteq Tasks /\ idle_task \subseteq {Idle}
        /\ Idle \in Tasks
    BY SchedulerAssumption DEF TypeOK, Listed
  <1>1. /\ k \in Entry
        /\ \A t \in Tasks : k.state[t] = IF t = current THEN e.state[t] \ {"RUNNING"}
                                         ELSE e.state[t]
    BY <1>0, Zenon DEF SwitchedOut, Entry, Flags
  <1>2. FlagsFit(k.state, w) /\ \A t \in Tasks : "RUNNING" \notin k.state[t]
    BY <1>0, <1>1, ZenonT(40) DEF FlagsFit, Marked, Explained
  <1>3. ASSUME NEW t \in Tasks, Resume(k, t), scheduler_may_run(k, t)
        PROVE  /\ FlagsFit(state', w) /\ Marked(state', current')
               /\ w[current'].active => "READY" \in state'[current']
    <2> DEFINE S == scheduler_handle_resume(k, t)
    <2>1. /\ current' = t
          /\ state' = [k.state EXCEPT ![t] = S \cup {"RUNNING"}]
      BY <1>3 DEF Resume, Dispatch
    <2>2. k.state \in [Tasks -> SUBSET Flags]
      BY <1>1 DEF Entry
    <2>3. "READY" \in S
      BY <1>3 DEF scheduler_may_run
    <2>4. S \cap {"BLOCKED", "TIMEDWAIT"} \subseteq w[t].mask
      BY <1>2 DEF FlagsFit, scheduler_handle_resume, WakeFlags, SpentFlags
    <2>5. w[t].active => Explained(S, w[t])
      <3>1. CASE "READY" \in k.state[t]
        BY <1>2, <3>1, SMTT(30) DEF FlagsFit, scheduler_handle_resume
      <3>2. CASE "READY" \notin k.state[t] /\ Granted(k, t)
        BY <1>2, <3>2 DEF FlagsFit, scheduler_handle_resume, Granted, WakeFlags,
             SpentFlags, Explained
      <3>3. CASE "READY" \notin k.state[t] /\ ~Granted(k, t)
        BY <2>3, <3>3 DEF scheduler_handle_resume, WakeFlags, SpentFlags, Explained
      <3> QED BY <3>1, <3>2, <3>3
    <2>6. FlagsFit(state', w)
      BY <1>2, <2>1, <2>2, <2>4, <2>5 DEF FlagsFit, Explained
    <2> QED BY <1>2, <2>1, <2>2, <2>3, <2>6 DEF Marked
  <1>4. ASSUME NEW t \in idle_task, Dispatch(k, t, k.state[t])
        PROVE  /\ FlagsFit(state', w) /\ Marked(state', current')
               /\ w[current'].active => "READY" \in state'[current']
    <2>1. t = Idle /\ k.state \in [Tasks -> SUBSET Flags]
      BY <1>0, <1>1, <1>4 DEF Entry
    <2>2. /\ current' = Idle
          /\ state' = [k.state EXCEPT ![Idle] = @ \cup {"RUNNING"}]
      BY <1>4, <2>1 DEF Dispatch
    <2> QED BY <1>0, <1>2, <2>1, <2>2 DEF FlagsFit, Marked, Explained
  <1>5. CASE STATE_MAY_RUN(e.state[current]) /\ e.slice > 0
    BY <1>5 DEF schedule, STATE_MAY_RUN
  <1>6. CASE ~(STATE_MAY_RUN(e.state[current]) /\ e.slice > 0)
    BY <1>0, <1>3, <1>4, <1>6 DEF schedule, Candidates
  <1> QED BY <1>5, <1>6

(* The tasks that hold a token of s, for given flags, semaphores and waits. *)
Holding(st, on, w, s) ==
    {t \in Tasks : /\ on[t] = s /\ w[t].active
                   /\ "BLOCKED" \in w[t].mask /\ "BLOCKED" \notin st[t]}

LEMMA HoldingFinite ==
    ASSUME NEW st, NEW on, NEW w, NEW s
    PROVE  /\ IsFiniteSet(Holding(st, on, w, s))
           /\ Cardinality(Holding(st, on, w, s)) \in Nat
  BY SchedulerAssumption, FS_Subset, FS_CardinalityType DEF Holding

(* A token that schedule() takes from a counter goes to one waiting task. *)
LEMMA ScheduleTokens ==
    ASSUME TypeOK, NEW e \in Entry, NEW w \in [Tasks -> Waits],
           FlagsFit(e.state, w), ~w[Idle].active, schedule(e), NEW s \in Sems
    PROVE  sem'[s] + Cardinality(Holding(state', e.on, w, s))
               = e.sem[s] + Cardinality(Holding(e.state, e.on, w, s))
  <1> DEFINE k == SwitchedOut(e)
             H == Holding(e.state, e.on, w, s)
  <1>0. current \in Tasks /\ Listed \subseteq Tasks /\ idle_task \subseteq {Idle}
        /\ Idle \in Tasks
    BY SchedulerAssumption DEF TypeOK, Listed
  <1>1. /\ k \in Entry /\ k.sem = e.sem /\ k.on = e.on
        /\ \A t \in Tasks : k.state[t] = IF t = current THEN e.state[t] \ {"RUNNING"}
                                         ELSE e.state[t]
    BY <1>0, SMTT(30) DEF SwitchedOut, Entry, Flags
  <1>2. k.state \in [Tasks -> SUBSET Flags] /\ e.sem \in [Sems -> Nat]
    BY <1>1 DEF Entry
  <1>3. ASSUME NEW t \in Tasks, Resume(k, t)
        PROVE  sem'[s] + Cardinality(Holding(state', e.on, w, s))
                   = e.sem[s] + Cardinality(H)
    <2> DEFINE S == scheduler_handle_resume(k, t)
    <2>1. state' = [k.state EXCEPT ![t] = S \cup {"RUNNING"}]
      BY <1>3 DEF Resume, Dispatch
    <2>2. \A u \in Tasks \ {t} : u \in Holding(state', e.on, w, s) <=> u \in H
      BY <1>1, <1>2, <2>1, Zenon DEF Holding
    <2>3. CASE "READY" \notin k.state[t] /\ Granted(k, t) /\ e.on[t] = s
      <3>1. "BLOCKED" \in e.state[t] /\ "BLOCKED" \notin S
        BY <1>1, <2>3, Zenon DEF Granted, scheduler_handle_resume, SpentFlags, WakeFlags
      <3>2. "BLOCKED" \in w[t].mask /\ w[t].active
        BY <3>1 DEF FlagsFit
      <3>3. t \notin H
        BY <3>1 DEF Holding
      <3>4. t \in Holding(state', e.on, w, s)
        BY <1>2, <2>1, <2>3, <3>1, <3>2 DEF Holding
      <3>5. Holding(state', e.on, w, s) = H \cup {t}
        BY <2>2, <3>3, <3>4 DEF Holding
      <3>6. Cardinality(Holding(state', e.on, w, s)) = Cardinality(H) + 1
        BY <3>3, <3>5, HoldingFinite, FS_AddElement, Zenon
      <3>7. sem'[s] = e.sem[s] - 1
        BY <1>1, <1>2, <1>3, <2>3 DEF Resume
      <3> QED BY <1>2, <3>6, <3>7, HoldingFinite
    <2>4. CASE ~("READY" \notin k.state[t] /\ Granted(k, t) /\ e.on[t] = s)
      <3>1. sem'[s] = e.sem[s]
        <4>1. CASE "READY" \notin k.state[t] /\ Granted(k, t)
          BY <1>1, <1>2, <1>3, <2>4, <4>1 DEF Resume, Granted
        <4>2. CASE ~("READY" \notin k.state[t] /\ Granted(k, t))
          BY <1>1, <1>3, <4>2 DEF Resume
        <4> QED BY <4>1, <4>2
      <3>2. e.on[t] = s => ("BLOCKED" \in S <=> "BLOCKED" \in e.state[t])
        BY <1>1, <2>4, Zenon DEF scheduler_handle_resume, SpentFlags, WakeFlags
      <3>3. t \in Holding(state', e.on, w, s) <=> t \in H
        BY <1>1, <1>2, <2>1, <3>2 DEF Holding
      <3>4. Holding(state', e.on, w, s) = H
        BY <2>2, <3>3 DEF Holding
      <3> QED BY <3>1, <3>4
    <2> QED BY <2>3, <2>4
  <1>4. ASSUME NEW t \in idle_task, Dispatch(k, t, k.state[t]), sem' = k.sem
        PROVE  sem'[s] + Cardinality(Holding(state', e.on, w, s))
                   = e.sem[s] + Cardinality(H)
    <2>1. state' = [k.state EXCEPT ![Idle] = @ \cup {"RUNNING"}]
      BY <1>0, <1>4 DEF Dispatch
    <2>2. Holding(state', e.on, w, s) = H
      BY <1>0, <1>1, <1>2, <2>1, Zenon DEF Holding
    <2> QED BY <1>1, <1>4, <2>2
  <1>5. CASE STATE_MAY_RUN(e.state[current]) /\ e.slice > 0
    BY <1>5 DEF schedule
  <1>6. CASE ~(STATE_MAY_RUN(e.state[current]) /\ e.slice > 0)
    BY <1>0, <1>3, <1>4, <1>6 DEF schedule, Candidates
  <1> QED BY <1>5, <1>6

----------------------------------------------------------------------------
(* Only listed tasks wait, the current and the idle task are listed, and a
   task that waits for a token knows which. *)
ListInv ==
    /\ current \in Listed /\ Idle \in Listed
    /\ \A t \in Tasks : wait[t].active => t \in Listed
    /\ \A t \in Tasks : "BLOCKED" \in wait[t].mask => waiting_on[t] \in Sems

IInv == TypeOK /\ WaitInv /\ ListInv /\ TokensConserved

LEMMA HoldersAreHolding ==
    \A s \in Sems : Holders(s) = Holding(state, waiting_on, wait, s)
  BY SMTT(30) DEF Holders, HasToken, Holding

LEMMA ScheduleListed ==
    ASSUME TypeOK, ListInv, NEW e, schedule(e)
    PROVE  current' \in Listed
  BY DEF TypeOK, ListInv, schedule, Candidates, Resume, Dispatch

(* A step that prepares the entry e and then calls schedule() keeps the
   invariant if e and the new waits do. *)
LEMMA ScheduleStep ==
    ASSUME IInv, NEW e \in Entry, schedule(e),
           wait' \in [Tasks -> Waits], given' \in [Sems -> Nat],
           FlagsFit(e.state, wait'), Marked(e.state, current),
           ~wait'[Idle].active,
           wait'[current].active => "READY" \notin e.state[current],
           waiting_on' = e.on, left' = e.left,
           UNCHANGED <<task_list, idle_task, taken>>,
           \A t \in Tasks : wait'[t].active => t \in Listed,
           \A t \in Tasks : "BLOCKED" \in wait'[t].mask => e.on[t] \in Sems,
           \A s \in Sems : given'[s] = e.sem[s] + taken[s]
               + Cardinality(Holding(e.state, e.on, wait', s))
    PROVE  IInv'
  <1> USE DEF IInv
  <1>1. TypeOK'
    BY ScheduleType, Zenon DEF TypeOK, Entry
  <1>2. WaitInv'
    BY ScheduleFits DEF WaitInv
  <1>3. ListInv'
    BY ScheduleListed DEF ListInv, Listed
  <1>4. ASSUME NEW s \in Sems
        PROVE  given'[s] = sem'[s] + taken'[s] + Cardinality(Holders(s)')
    <2>1. Holders(s)' = Holding(state', e.on, wait', s)
      BY DEF Holders, HasToken, Holding
    <2>2. sem'[s] + Cardinality(Holding(state', e.on, wait', s))
            = e.sem[s] + Cardinality(Holding(e.state, e.on, wait', s))
      BY ScheduleTokens, SMTT(30)
    <2>3. /\ given'[s] \in Nat /\ e.sem[s] \in Nat /\ taken[s] \in Nat
          /\ sem'[s] \in Nat
          /\ Cardinality(Holding(state', e.on, wait', s)) \in Nat
          /\ Cardinality(Holding(e.state, e.on, wait', s)) \in Nat
      BY <1>1, HoldingFinite, SMTT(30) DEF TypeOK, Entry
    <2> QED BY <2>1, <2>2, <2>3
  <1>5. TokensConserved'
    BY <1>4 DEF TokensConserved
  <1> QED BY <1>1, <1>2, <1>3, <1>5

(* The entries the actions prepare. *)
LEMMA NowEntry ==
    ASSUME TypeOK
    PROVE  /\ Now \in Entry
           /\ Now.state = state /\ Now.sem = sem /\ Now.on = waiting_on
           /\ Now.left = left /\ Now.slice = slice
  BY DEF TypeOK, Now, Entry

LEMMA InitInv == Init => IInv
  <1> SUFFICES ASSUME Init PROVE IInv
    OBVIOUS
  <1>1. TypeOK
    BY SchedulerAssumption DEF Init, TypeOK, Flags, Waits, NoWait
  <1>2. WaitInv
    BY SchedulerAssumption DEF Init, WaitInv, FlagsFit, Marked, NoWait
  <1>3. ListInv
    BY SchedulerAssumption DEF Init, ListInv, Listed, NoWait
  <1>4. TokensConserved
    <2>1. ASSUME NEW s \in Sems PROVE Holders(s) = {}
      BY DEF Init, Holders, HasToken, NoWait
    <2>2. Cardinality({}) = 0
      BY FS_EmptySet
    <2>3. ASSUME NEW s \in Sems
          PROVE  given[s] = 0 /\ sem[s] = 0 /\ taken[s] = 0
      BY DEF Init
    <2> QED BY <2>1, <2>2, <2>3 DEF TokensConserved
  <1> QED BY <1>1, <1>2, <1>3, <1>4 DEF IInv

(* Steps that only schedule, with time moved on or a semaphore raised. *)
LEMMA InterruptInv ==
    ASSUME IInv, KernelExit \/ TimerInterrupt \/ \E s \in Sems : DeviceInterrupt(s)
    PROVE  IInv'
  <1> USE DEF IInv
  <1>0. /\ ~wait[current].active /\ wait' = wait /\ wait' \in [Tasks -> Waits]
        /\ UNCHANGED <<task_list, idle_task, waiting_on, taken>>
    BY Zenon DEF KernelExit, TimerInterrupt, DeviceInterrupt, Interruptible, clocks, TypeOK
  <1>1. /\ FlagsFit(state, wait) /\ Marked(state, current) /\ ~wait[Idle].active
        /\ \A t \in Tasks : wait[t].active => t \in Listed
        /\ \A t \in Tasks : "BLOCKED" \in wait[t].mask => waiting_on[t] \in Sems
    BY DEF WaitInv, ListInv
  <1>2. ASSUME NEW s \in Sems
        PROVE  given[s] = sem[s] + taken[s]
                 + Cardinality(Holding(state, waiting_on, wait, s))
    BY HoldersAreHolding DEF TokensConserved
  <1>3. CASE KernelExit
    BY <1>0, <1>1, <1>2, <1>3, NowEntry, ScheduleStep, Zenon DEF KernelExit, clocks, TypeOK
  <1>4. CASE TimerInterrupt
    <2> DEFINE ticked == [t \in Tasks |-> TickDown(left[t])]
               e == [Now EXCEPT !.left = ticked, !.slice = TickDown(@)]
    <2>1. ticked \in [Tasks -> Nat] /\ TickDown(slice) \in Nat
      BY DEF TickDown, TypeOK
    <2>2. /\ e \in Entry /\ e.state = state /\ e.sem = sem /\ e.on = waiting_on
          /\ e.left = ticked
      BY <2>1, Zenon DEF TypeOK, Now, Entry
    <2>3. schedule(e) /\ left' = ticked /\ given' = given
      BY <1>4 DEF TimerInterrupt
    <2> HIDE DEF e, ticked
    <2> QED BY <1>0, <1>1, <1>2, <2>2, <2>3, ScheduleStep, Zenon DEF TypeOK
  <1>5. ASSUME NEW s \in Sems, DeviceInterrupt(s)
        PROVE  IInv'
    <2> DEFINE e == [Now EXCEPT !.sem[s] = @ + 1]
    <2>1. /\ e \in Entry /\ e.state = state /\ e.on = waiting_on /\ e.left = left
          /\ e.sem = [sem EXCEPT ![s] = @ + 1]
      <3>1. [sem EXCEPT ![s] = @ + 1] \in [Sems -> Nat]
        BY DEF TypeOK
      <3>2. e = [state |-> state, sem |-> [sem EXCEPT ![s] = @ + 1],
                 on |-> waiting_on, left |-> left, slice |-> slice]
        BY DEF Now
      <3> QED BY <3>1, <3>2, Zenon DEF TypeOK, Entry
    <2>2. /\ schedule(e) /\ left' = left /\ given' = [given EXCEPT ![s] = @ + 1]
      BY <1>5 DEF DeviceInterrupt, Raise, clocks
    <2>3. given' \in [Sems -> Nat]
      BY <2>2 DEF TypeOK
    <2> HIDE DEF e
    <2>4. ASSUME NEW r \in Sems
          PROVE  given'[r] = e.sem[r] + taken[r]
                   + Cardinality(Holding(state, waiting_on, wait, r))
      BY <1>2, <2>1, <2>2, HoldingFinite DEF TypeOK
    <2> QED BY <1>0, <1>1, <2>1, <2>2, <2>3, <2>4, ScheduleStep, Zenon
  <1> QED BY <1>3, <1>4, <1>5

=============================================================================
