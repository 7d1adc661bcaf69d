--------------------------- MODULE SchedulerProofs ---------------------------
(***************************************************************************)
(* Scheduler for any set of tasks and semaphores: type correctness, the    *)
(* assertion of block_on_internal, the RUNNING flag and the conservation   *)
(* of semaphore tokens.  One lemma per action; those that end in           *)
(* schedule() prepare an entry and cite ScheduleStep.                      *)
(***************************************************************************)
EXTENDS SchedulerStep

(* An entry that differs from the present in the flags of the current task. *)
LEMMA FlagEntry ==
    ASSUME TypeOK, NEW S \in SUBSET Flags, NEW on \in [Tasks -> Sems \cup {NoSem}],
           NEW lf \in [Tasks -> Nat], NEW e,
           e = [state |-> [state EXCEPT ![current] = S], sem |-> sem,
                on |-> on, left |-> lf, slice |-> slice]
    PROVE  /\ e \in Entry /\ e.state = [state EXCEPT ![current] = S]
           /\ e.sem = sem /\ e.on = on /\ e.left = lf
  BY DEF TypeOK, Entry

LEMMA BlockInv ==
    ASSUME IInv, NEW s \in Sems \cup {NoSem}, NEW n \in Timeouts,
           NEW intr \in BOOLEAN, scheduler_wait(s, n, intr)
    PROVE  IInv'
  <1> USE DEF IInv
  <1> DEFINE mask == (IF s = NoSem THEN {} ELSE {"BLOCKED"})
                     \cup (IF n < 0 THEN {} ELSE {"TIMEDWAIT"})
             on == IF s = NoSem THEN waiting_on ELSE [waiting_on EXCEPT ![current] = s]
             lf == IF n < 0 THEN left ELSE [left EXCEPT ![current] = n]
             S == (state[current] \ {"READY"}) \cup mask
             e == Block(mask, on, lf)
  <1>0. /\ ~wait[current].active /\ current # Idle /\ current \in Tasks
        /\ wait' = [wait EXCEPT ![current] = Wait(mask, intr)]
        /\ waiting_on' = on /\ left' = lf /\ schedule(e)
        /\ UNCHANGED <<task_list, idle_task, given, taken>>
    BY DEF scheduler_wait, Busy, TypeOK
  <1>1. mask \subseteq {"BLOCKED", "TIMEDWAIT"} /\ S \in SUBSET Flags
    BY <1>0 DEF TypeOK, Flags
  <1>2. on \in [Tasks -> Sems \cup {NoSem}] /\ lf \in [Tasks -> Nat]
    BY <1>0, SchedulerAssumption DEF TypeOK, Timeouts
  <1>3. "BLOCKED" \in mask => s \in Sems /\ on[current] = s
    BY <1>0 DEF TypeOK
  <1>3a. \A t \in Tasks \ {current} : on[t] = waiting_on[t]
    BY DEF TypeOK
  <1>4. /\ e \in Entry /\ e.state = [state EXCEPT ![current] = S]
        /\ e.sem = sem /\ e.on = on /\ e.left = lf
    <2>1. e = [state |-> [state EXCEPT ![current] = S], sem |-> sem,
               on |-> on, left |-> lf, slice |-> slice]
      BY DEF Block
    <2> HIDE DEF e, S, on, lf
    <2> QED BY <1>1, <1>2, <2>1, FlagEntry, SMTT(30)
  <1>5. /\ wait' \in [Tasks -> Waits]
        /\ wait'[current].active /\ wait'[current].mask = mask
        /\ \A t \in Tasks \ {current} : wait'[t] = wait[t]
    BY <1>0, <1>1 DEF TypeOK, Waits, Wait
  <1> HIDE DEF mask, on, lf, S, e
  <1>6. S \cap {"BLOCKED", "TIMEDWAIT"} \subseteq mask /\ "READY" \notin S
    BY <1>0, <1>1 DEF S, WaitInv, FlagsFit
  <1>7. FlagsFit(e.state, wait')
    BY <1>0, <1>4, <1>5, <1>6 DEF TypeOK, WaitInv, FlagsFit
  <1>8. Marked(e.state, current)
    BY <1>4 DEF TypeOK, WaitInv, Marked
  <1>9. /\ ~wait'[Idle].active
        /\ wait'[current].active => "READY" \notin e.state[current]
    BY <1>0, <1>4, <1>5, <1>6, SchedulerAssumption DEF TypeOK, WaitInv
  <1>10. /\ \A t \in Tasks : wait'[t].active => t \in Listed
         /\ \A t \in Tasks : "BLOCKED" \in wait'[t].mask => e.on[t] \in Sems
    BY <1>0, <1>3, <1>3a, <1>4, <1>5 DEF ListInv
  <1>11. ASSUME NEW r \in Sems
         PROVE  given'[r] = e.sem[r] + taken[r]
                  + Cardinality(Holding(e.state, e.on, wait', r))
    <2>1. "BLOCKED" \in mask => "BLOCKED" \in S
      BY DEF S
    <2>2. Holding(e.state, e.on, wait', r) = Holders(r)
      BY <1>0, <1>3a, <1>4, <1>5, <2>1 DEF Holding, Holders, HasToken, TypeOK
    <2> QED BY <1>0, <1>4, <2>2 DEF TokensConserved
  <1> QED BY <1>0, <1>4, <1>5, <1>7, <1>8, <1>9, <1>10, <1>11, ScheduleStep, Zenon DEF TypeOK

LEMMA BlockAgainInv ==
    ASSUME IInv, BlockAgain
    PROVE  IInv'
  <1> USE DEF IInv
  <1> DEFINE S == (Cleared(current) \ {"READY"}) \cup wait[current].mask
             e == [Now EXCEPT !.state[current] = S]
  <1>0. /\ wait[current].active /\ Reason(current) = "INTR" /\ current \in Tasks
        /\ wait' = [wait EXCEPT ![current].deferred = TRUE]
        /\ schedule(e)
        /\ UNCHANGED <<task_list, idle_task, waiting_on, left, given, taken>>
    BY DEF BlockAgain, TypeOK, clocks
  <1>1. S \in SUBSET Flags
    BY <1>0 DEF TypeOK, Flags, Cleared, Waits
  <1>2. /\ e \in Entry /\ e.state = [state EXCEPT ![current] = S]
        /\ e.sem = sem /\ e.on = waiting_on /\ e.left = left
    <2>1. e = [state |-> [state EXCEPT ![current] = S], sem |-> sem,
               on |-> waiting_on, left |-> left, slice |-> slice]
      BY SMTT(30) DEF Now
    <2> HIDE DEF e, S
    <2>2. waiting_on \in [Tasks -> Sems \cup {NoSem}] /\ left \in [Tasks -> Nat]
      BY DEF TypeOK
    <2> QED BY <1>1, <2>1, <2>2, FlagEntry
  <1>3. /\ wait' \in [Tasks -> Waits]
        /\ \A t \in Tasks : wait'[t].active = wait[t].active /\ wait'[t].mask = wait[t].mask
    BY <1>0, ZenonT(40) DEF TypeOK, Waits
  <1>4. /\ S \cap {"BLOCKED", "TIMEDWAIT"} \subseteq wait[current].mask
        /\ "READY" \notin S /\ ("BLOCKED" \in wait[current].mask => "BLOCKED" \in S)
    BY <1>0, Zenon DEF Cleared, WaitInv, FlagsFit, TypeOK, Waits
  <1>5. ~("BLOCKED" \in wait[current].mask /\ "BLOCKED" \notin state[current])
    BY <1>0 DEF Reason
  <1>5a. "RUNNING" \in S => "RUNNING" \in state[current]
    BY <1>0, Zenon DEF Cleared, TypeOK, Waits
  <1> HIDE DEF S, e
  <1>6. FlagsFit(e.state, wait')
    BY <1>0, <1>2, <1>3, <1>4 DEF TypeOK, WaitInv, FlagsFit, Explained
  <1>7. Marked(e.state, current)
    BY <1>2 DEF TypeOK, WaitInv, Marked
  <1>8. /\ ~wait'[Idle].active
        /\ wait'[current].active => "READY" \notin e.state[current]
    BY <1>0, <1>2, <1>3, <1>4, SchedulerAssumption DEF TypeOK, WaitInv
  <1>9. /\ \A t \in Tasks : wait'[t].active => t \in Listed
        /\ \A t \in Tasks : "BLOCKED" \in wait'[t].mask => e.on[t] \in Sems
    BY <1>2, <1>3 DEF ListInv
  <1>10. ASSUME NEW r \in Sems
         PROVE  given'[r] = e.sem[r] + taken[r]
                  + Cardinality(Holding(e.state, e.on, wait', r))
    <2>1. Holding(e.state, e.on, wait', r) = Holders(r)
      BY <1>0, <1>2, <1>3, <1>4, <1>5 DEF Holding, Holders, HasToken, TypeOK
    <2> QED BY <1>0, <1>2, <2>1 DEF TokensConserved
  <1> QED BY <1>0, <1>2, <1>3, <1>6, <1>7, <1>8, <1>9, <1>10, ScheduleStep, Zenon DEF TypeOK

(* A step without schedule(): the current task and the semaphores waited for
   stay, and the flags and waits of the other tasks change alike. *)
LEMMA WaitReturnsInv ==
    ASSUME IInv, WaitReturns
    PROVE  IInv'
  <1> USE DEF IInv
  <1> DEFINE S == Cleared(current)
                  \cup (IF wait[current].deferred THEN {"INTERRUPT"} ELSE {})
  <1>0. /\ wait[current].active /\ current \in Tasks /\ Idle \in Tasks
        /\ state' = [state EXCEPT ![current] = S]
        /\ wait' = [wait EXCEPT ![current] = NoWait]
        /\ taken' = IF Reason(current) = "OK"
                    THEN [taken EXCEPT ![waiting_on[current]] = @ + 1] ELSE taken
        /\ UNCHANGED <<task_list, current, idle_task, waiting_on, left, slice, sem, given>>
        /\ Listed' = Listed
    BY SchedulerAssumption DEF WaitReturns, TypeOK, clocks, Listed
  <1>1. S \in SUBSET Flags /\ S \cap {"BLOCKED", "TIMEDWAIT"} = {}
        /\ ("RUNNING" \in S => "RUNNING" \in state[current])
    BY <1>0 DEF TypeOK, Cleared, Flags, WaitInv, FlagsFit, Waits
  <1>2. Reason(current) = "OK" => waiting_on[current] \in Sems
    BY <1>0 DEF Reason, ListInv
  <1>3. HasToken(current) <=> Reason(current) = "OK"
    BY <1>0 DEF HasToken, Reason
  <1> HIDE DEF S
  <1>4. TypeOK'
    <2>1. taken' \in [Sems -> Nat]
      BY <1>0, <1>2 DEF TypeOK
    <2>2. wait' \in [Tasks -> Waits]
      BY <1>0 DEF TypeOK, NoWait, Waits
    <2> QED BY <1>0, <1>1, <2>1, <2>2 DEF TypeOK
  <1>5. WaitInv'
    BY <1>0, <1>1 DEF TypeOK, WaitInv, FlagsFit, Marked, NoWait, Explained
  <1>6. ListInv'
    BY <1>0 DEF TypeOK, ListInv, NoWait
  <1>7. ASSUME NEW s \in Sems
        PROVE  given'[s] = sem'[s] + taken'[s] + Cardinality(Holders(s)')
    <2>0. /\ IsFiniteSet(Holders(s)) /\ Cardinality(Holders(s)) \in Nat
          /\ given[s] = sem[s] + taken[s] + Cardinality(Holders(s))
          /\ given[s] \in Nat /\ sem[s] \in Nat /\ taken[s] \in Nat
      BY HoldersAreHolding, HoldingFinite DEF TokensConserved, TypeOK
    <2>1. \A t \in Tasks : HasToken(t)' <=> (t # current /\ HasToken(t))
      BY <1>0 DEF HasToken, TypeOK, NoWait
    <2>2. Holders(s)' = Holders(s) \ {current}
      BY <1>0, <2>1 DEF Holders
    <2>3. CASE current \in Holders(s)
      <3>1. taken'[s] = taken[s] + 1
        BY <1>0, <1>3, <2>3 DEF Holders, TypeOK
      <3>2. Cardinality(Holders(s)') = Cardinality(Holders(s)) - 1
        BY <2>0, <2>2, <2>3, FS_RemoveElement, Zenon
      <3> QED BY <1>0, <2>0, <3>1, <3>2
    <2>4. CASE current \notin Holders(s)
      <3>1. taken'[s] = taken[s]
        BY <1>0, <1>2, <1>3, <2>4 DEF Holders, TypeOK
      <3>2. Holders(s)' = Holders(s)
        BY <2>2, <2>4
      <3> QED BY <1>0, <2>0, <3>1, <3>2
    <2> QED BY <2>3, <2>4
  <1> QED BY <1>4, <1>5, <1>6, <1>7 DEF TokensConserved

(* Raising, taking, and the flags that processes set on each other. *)
LEMMA CounterInv ==
    ASSUME IInv, NEW s \in Sems, semaphore_up(s) \/ semaphore_try_down(s)
    PROVE  IInv'
  <1> USE DEF IInv
  <1>0. /\ sem \in [Sems -> Nat] /\ given \in [Sems -> Nat] /\ taken \in [Sems -> Nat]
        /\ UNCHANGED <<task_list, current, idle_task, state, waiting_on, left, slice, wait>>
    BY DEF semaphore_up, semaphore_try_down, clocks, TypeOK
  <1>1. \A r \in Sems : Holders(r)' = Holders(r) /\ Cardinality(Holders(r)) \in Nat
    BY <1>0, HoldersAreHolding, HoldingFinite, Zenon DEF Holders, HasToken
  <1>2. /\ sem' \in [Sems -> Nat] /\ given' \in [Sems -> Nat] /\ taken' \in [Sems -> Nat]
        /\ \A r \in Sems : given[r] = sem[r] + taken[r] + Cardinality(Holders(r))
                        => given'[r] = sem'[r] + taken'[r] + Cardinality(Holders(r))
    <2>1. CASE semaphore_up(s)
      BY <1>0, <1>1, <2>1 DEF semaphore_up, Raise
    <2>2. CASE semaphore_try_down(s)
      <3>1. sem[s] - 1 \in Nat
        BY <1>0, <2>2 DEF semaphore_try_down
      <3> QED BY <1>0, <1>1, <2>2, <3>1 DEF semaphore_try_down
    <2> QED BY <2>1, <2>2
  <1>3. TokensConserved'
    BY <1>1, <1>2 DEF TokensConserved
  <1>4. TypeOK'
    BY <1>0, <1>2 DEF TypeOK
  <1> QED BY <1>0, <1>3, <1>4 DEF WaitInv, ListInv, FlagsFit, Marked, Explained, Listed

LEMMA FlagInv ==
    ASSUME IInv, NEW t \in Tasks, NEW f \in {"INTERRUPT", "STOPPED", "DEBUG_STOP"},
           SetFlag(t, f) \/ ClearFlag(t, f)
    PROVE  IInv'
  <1> USE DEF IInv
  <1> DEFINE W == {"READY", "RUNNING", "BLOCKED", "TIMEDWAIT", "INTERRUPTED", "TIMED_OUT"}
  <1>0. /\ UNCHANGED <<task_list, current, idle_task, waiting_on, left, slice, sem, wait,
                       given, taken>>
        /\ state' \in [Tasks -> SUBSET Flags]
        /\ ~wait[current].active
    BY ZenonT(40) DEF SetFlag, ClearFlag, Busy, clocks, TypeOK, Flags
  <1>1. \A u \in Tasks, g \in W : g \in state'[u] <=> g \in state[u]
    <2>1. \A g \in W : g # f
      OBVIOUS
    <2>2. \A u \in Tasks : state'[u] \in {state[u], state[u] \cup {f}, state[u] \ {f}}
      BY DEF SetFlag, ClearFlag, TypeOK
    <2> HIDE DEF W
    <2> QED BY <2>1, <2>2
  <1>2. TokensConserved'
    BY <1>0, <1>1 DEF TokensConserved, Holders, HasToken
  <1>3. \A u \in Tasks : state'[u] \cap {"BLOCKED", "TIMEDWAIT"}
                         = state[u] \cap {"BLOCKED", "TIMEDWAIT"}
    BY <1>1
  <1>4. WaitInv'
    <2>1. FlagsFit(state', wait')
      BY <1>0, <1>1, <1>3 DEF WaitInv, FlagsFit, Explained
    <2> QED BY <1>0, <1>1, <2>1 DEF WaitInv, Marked
  <1> QED BY <1>0, <1>2, <1>4 DEF TypeOK, ListInv, Listed

LEMMA StopSelfInv ==
    ASSUME IInv, NEW t \in Tasks, scheduler_stop_task(t)
    PROVE  IInv'
  <1> USE DEF IInv
  <1>1. CASE t # current
    BY <1>1, FlagInv DEF scheduler_stop_task
  <1>2. CASE t = current
    <2> DEFINE S == state[current] \cup {"STOPPED"}
               e == [Now EXCEPT !.state[current] = S]
    <2>0. /\ ~wait[current].active /\ schedule(e)
          /\ UNCHANGED <<task_list, idle_task, waiting_on, left, wait, given, taken>>
      <3>1. [Now EXCEPT !.state[current] = @ \cup {"STOPPED"}] = e
        BY DEF Now
      <3> HIDE DEF e
      <3> QED BY <1>2, <3>1 DEF scheduler_stop_task, Busy, clocks
    <2>1. S \in SUBSET Flags
      BY DEF TypeOK, Flags
    <2>2. /\ e \in Entry /\ e.state = [state EXCEPT ![current] = S]
          /\ e.sem = sem /\ e.on = waiting_on /\ e.left = left
      <3>1. e = [state |-> [state EXCEPT ![current] = S], sem |-> sem,
                 on |-> waiting_on, left |-> left, slice |-> slice]
        BY DEF Now
      <3>2. waiting_on \in [Tasks -> Sems \cup {NoSem}] /\ left \in [Tasks -> Nat]
        BY DEF TypeOK
      <3> HIDE DEF e, S
      <3> QED BY <2>1, <3>1, <3>2, FlagEntry
    <2>3. /\ S \cap {"BLOCKED", "TIMEDWAIT"} = state[current] \cap {"BLOCKED", "TIMEDWAIT"}
          /\ "BLOCKED" \in S <=> "BLOCKED" \in state[current]
      OBVIOUS
    <2> HIDE DEF e, S
    <2>4. FlagsFit(e.state, wait')
      BY <2>0, <2>2, <2>3 DEF TypeOK, WaitInv, FlagsFit, Explained
    <2>5. Marked(e.state, current)
      BY <2>2 DEF TypeOK, WaitInv, Marked
    <2>6. /\ ~wait'[Idle].active /\ ~wait'[current].active
          /\ wait' \in [Tasks -> Waits] /\ given' \in [Sems -> Nat]
          /\ \A u \in Tasks : wait'[u].active => u \in Listed
          /\ \A u \in Tasks : "BLOCKED" \in wait'[u].mask => e.on[u] \in Sems
      BY <2>0, <2>2 DEF TypeOK, WaitInv, ListInv
    <2>7. ASSUME NEW r \in Sems
          PROVE  given'[r] = e.sem[r] + taken[r]
                   + Cardinality(Holding(e.state, e.on, wait', r))
      <3>1. Holding(e.state, e.on, wait', r) = Holders(r)
        BY <2>0, <2>2, <2>3 DEF Holding, Holders, HasToken, TypeOK
      <3> QED BY <2>0, <2>2, <3>1 DEF TokensConserved
    <2> QED BY <2>0, <2>2, <2>4, <2>5, <2>6, <2>7, ScheduleStep, Zenon
  <1> QED BY <1>1, <1>2

(* The task list: a new task at its end, a reaped one out of its middle. *)
LEMMA SpawnListed ==
    ASSUME TypeOK, NEW t \in Tasks, task_list' = Append(task_list, t)
    PROVE  /\ Listed \subseteq Listed' /\ t \in Listed'
           /\ task_list' \in Seq(Tasks)
  <1>1. /\ task_list \in Seq(Tasks) /\ task_list' \in Seq(Tasks)
        /\ Len(task_list') = Len(task_list) + 1
        /\ \A i \in 1..Len(task_list) : task_list'[i] = task_list[i]
        /\ task_list'[Len(task_list) + 1] = t
    BY DEF TypeOK
  <1>2. DOMAIN task_list = 1..Len(task_list) /\ DOMAIN task_list' = 1..(Len(task_list) + 1)
        /\ Len(task_list) \in Nat
    BY <1>1
  <1> QED BY <1>1, <1>2 DEF Listed

LEMMA ReapListed ==
    ASSUME TypeOK, NEW t \in Listed, task_list' = Unlinked(t)
    PROVE  Listed \ {t} \subseteq Listed' /\ task_list' \in Seq(Tasks)
  <1> DEFINE n == Len(task_list)
             p == Position(t)
  <1>0. task_list \in Seq(Tasks) /\ n \in Nat
    BY DEF TypeOK
  <1>1. p \in 1..n /\ task_list[p] = t
    BY DEF Position, Listed
  <1>2. Len(task_list') = n - 1 /\ n - 1 \in Nat
        /\ task_list' \in Seq(Tasks)
    BY <1>0, <1>1 DEF Unlinked
  <1>3. ASSUME NEW u \in Listed \ {t}
        PROVE  u \in Listed'
    <2>1. PICK i \in 1..n : task_list[i] = u
      BY DEF Listed
    <2>2. i # p
      BY <1>1, <2>1
    <2>3. CASE i < p
      <3>1. i \in 1..(n - 1) /\ task_list'[i] = u
        BY <1>0, <1>1, <2>1, <2>3 DEF Unlinked
      <3> QED BY <1>2, <3>1 DEF Listed
    <2>4. CASE i > p
      <3>1. i - 1 \in 1..(n - 1) /\ task_list'[i - 1] = u
        BY <1>0, <1>1, <2>1, <2>4 DEF Unlinked
      <3> QED BY <1>2, <3>1 DEF Listed
    <2> QED BY <1>1, <2>2, <2>3, <2>4
  <1> QED BY <1>2, <1>3

(* A task that is not current enters or leaves the list with no wait. *)
LEMMA SpawnInv ==
    ASSUME IInv, NEW t \in Tasks, scheduler_spawn(t)
    PROVE  IInv'
  <1> USE DEF IInv
  <1>0. /\ t \notin Listed /\ t # current /\ ~wait[t].active /\ wait[t].mask = {}
        /\ ~wait[current].active
        /\ Listed \subseteq Listed' /\ task_list' \in Seq(Tasks)
        /\ state' = [state EXCEPT ![t] = {"READY"}]
        /\ wait' = [wait EXCEPT ![t] = NoWait]
        /\ waiting_on' = [waiting_on EXCEPT ![t] = NoSem]
        /\ left' = [left EXCEPT ![t] = 0]
        /\ UNCHANGED <<current, idle_task, slice, sem, given, taken>>
    BY SpawnListed DEF scheduler_spawn, ListInv, WaitInv, FlagsFit, Busy
  <1>1. TypeOK'
    BY <1>0 DEF TypeOK, NoWait, Waits, Flags
  <1>2. WaitInv'
    BY <1>0, SchedulerAssumption DEF TypeOK, WaitInv, FlagsFit, Marked, NoWait, Explained
  <1>3. ListInv'
    BY <1>0 DEF TypeOK, ListInv, NoWait
  <1>4. \A s \in Sems : Holders(s)' = Holders(s)
    BY <1>0 DEF Holders, HasToken, TypeOK, NoWait
  <1> QED BY <1>0, <1>1, <1>2, <1>3, <1>4 DEF TokensConserved

LEMMA ReapInv ==
    ASSUME IInv, NEW t \in Tasks, scheduler_reap(t)
    PROVE  IInv'
  <1> USE DEF IInv
  <1>0. /\ t \in Listed /\ t # current /\ t # Idle /\ ~wait[current].active
        /\ task_list' = Unlinked(t)
        /\ state' = [state EXCEPT ![t] = {}]
        /\ wait' = [wait EXCEPT ![t] = NoWait]
        /\ waiting_on' = [waiting_on EXCEPT ![t] = NoSem]
        /\ left' = [left EXCEPT ![t] = 0]
        /\ taken' = IF HasToken(t) THEN [taken EXCEPT ![waiting_on[t]] = @ + 1] ELSE taken
        /\ UNCHANGED <<current, idle_task, slice, sem, given>>
    BY DEF scheduler_reap, Signalled, Busy
  <1>1. Listed \ {t} \subseteq Listed' /\ task_list' \in Seq(Tasks)
    BY <1>0, ReapListed
  <1>2. HasToken(t) => waiting_on[t] \in Sems
    BY DEF HasToken, ListInv
  <1>3. TypeOK'
    <2>1. taken' \in [Sems -> Nat]
      BY <1>0, <1>2 DEF TypeOK
    <2> QED BY <1>0, <1>1, <2>1 DEF TypeOK, NoWait, Waits, Flags
  <1>4. WaitInv'
    BY <1>0, SchedulerAssumption DEF TypeOK, WaitInv, FlagsFit, Marked, NoWait, Explained
  <1>5. ListInv'
    BY <1>0, <1>1 DEF TypeOK, ListInv, NoWait
  <1>6. ASSUME NEW s \in Sems
        PROVE  given'[s] = sem'[s] + taken'[s] + Cardinality(Holders(s)')
    <2>0. /\ IsFiniteSet(Holders(s)) /\ Cardinality(Holders(s)) \in Nat
          /\ given[s] = sem[s] + taken[s] + Cardinality(Holders(s))
          /\ given[s] \in Nat /\ sem[s] \in Nat /\ taken[s] \in Nat
      BY HoldersAreHolding, HoldingFinite DEF TokensConserved, TypeOK
    <2>1. \A u \in Tasks : HasToken(u)' <=> (u # t /\ HasToken(u))
      BY <1>0 DEF HasToken, TypeOK, NoWait
    <2>2. Holders(s)' = Holders(s) \ {t}
      BY <1>0, <2>1 DEF Holders, TypeOK
    <2>3. CASE t \in Holders(s)
      <3>1. taken'[s] = taken[s] + 1
        BY <1>0, <2>3 DEF Holders, TypeOK
      <3>2. Cardinality(Holders(s)') = Cardinality(Holders(s)) - 1
        BY <2>0, <2>2, <2>3, FS_RemoveElement, ZenonT(40)
      <3> QED BY <1>0, <2>0, <3>1, <3>2
    <2>4. CASE t \notin Holders(s)
      <3>1. taken'[s] = taken[s]
        BY <1>0, <1>2, <2>4 DEF Holders, TypeOK
      <3>2. Holders(s)' = Holders(s)
        BY <2>2, <2>4
      <3> QED BY <1>0, <2>0, <3>1, <3>2
    <2> QED BY <2>3, <2>4
  <1> QED BY <1>3, <1>4, <1>5, <1>6 DEF TokensConserved

LEMMA SetAsIdleInv ==
    ASSUME IInv, scheduler_set_as_idle
    PROVE  IInv'
  <1> USE DEF IInv
  <1>0. /\ current = Idle /\ ~wait[Idle].active /\ wait[Idle].mask = {} /\ Idle \in Tasks
        /\ idle_task' = {Idle} /\ state' = [state EXCEPT ![Idle] = {"STOPPED"}]
        /\ UNCHANGED <<task_list, current, waiting_on, left, slice, sem, wait, given, taken>>
    BY SchedulerAssumption DEF scheduler_set_as_idle, clocks, WaitInv, FlagsFit
  <1>1. TypeOK'
    BY <1>0 DEF TypeOK, Flags
  <1>2. WaitInv'
    BY <1>0 DEF TypeOK, WaitInv, FlagsFit, Marked, Explained
  <1>3. TokensConserved'
    BY <1>0, Zenon DEF TokensConserved, Holders, HasToken, TypeOK
  <1> QED BY <1>0, <1>1, <1>2, <1>3 DEF ListInv, Listed

----------------------------------------------------------------------------
LEMMA StepInv ==
    ASSUME IInv, [Next]_vars
    PROVE  IInv'
  <1>1. CASE UNCHANGED vars
    BY <1>1 DEF vars, clocks, IInv, TypeOK, WaitInv, FlagsFit, Explained, Marked, ListInv,
         Listed, TokensConserved, Holders, HasToken
  <1>2. ASSUME NEW t \in Tasks,
               \/ scheduler_interrupt_task(t) \/ scheduler_debug_stop_task(t)
               \/ scheduler_debug_start_task(t) \/ scheduler_continue_task(t)
        PROVE  IInv'
    BY <1>2, FlagInv DEF scheduler_interrupt_task, scheduler_debug_stop_task,
         scheduler_debug_start_task, scheduler_continue_task
  <1> QED BY <1>1, <1>2, SetAsIdleInv, InterruptInv, BlockAgainInv, WaitReturnsInv,
             SpawnInv, ReapInv, StopSelfInv, CounterInv, BlockInv, SMTT(30) DEF Next

(* What the invariant says of the wait the current task is in. *)
LEMMA InvKnown == IInv => KnownWakeup /\ OnlyCurrentRuns
  <1> SUFFICES ASSUME IInv PROVE KnownWakeup /\ OnlyCurrentRuns
    OBVIOUS
  <1>1. KnownWakeup
    BY DEF IInv, TypeOK, WaitInv, FlagsFit, Explained, KnownWakeup, Reason
  <1> QED BY <1>1 DEF IInv, WaitInv, Marked, OnlyCurrentRuns

(* The scheduler's state stays well typed, whatever the number of tasks,
   semaphores, deadlines and raised tokens: no counter goes below zero. *)
THEOREM SchedulerTyped == Spec => []TypeOK
  <1>1. IInv => TypeOK
    BY DEF IInv
  <1> QED BY <1>1, InitInv, StepInv, PTL DEF Spec

(* "Unknown reason for thread wakeup!" of block_on_internal is unreachable. *)
THEOREM WakeupIsKnown == Spec => []KnownWakeup
  BY InvKnown, InitInv, StepInv, PTL DEF Spec

(* Polling neither loses nor forges a token of a semaphore. *)
THEOREM TokensAreConserved == Spec => []TokensConserved
  <1>1. IInv => TokensConserved
    BY DEF IInv
  <1> QED BY <1>1, InitInv, StepInv, PTL DEF Spec

(* schedule() leaves RUNNING on no task but the one it switches to. *)
THEOREM RunningIsCurrent == Spec => []OnlyCurrentRuns
  BY InvKnown, InitInv, StepInv, PTL DEF Spec

=============================================================================
