------------------------------ MODULE Process -------------------------------
(***************************************************************************)
(* kernel/proc/process.c, the exit and waitpid calls of sc_process.c and   *)
(* the default actions of signal.c: the process table, and the child       *)
(* events by which a parent learns of its children and reaps them.         *)
(*                                                                         *)
(* Every process has one task.  Which signal is handled when is the        *)
(* subject of Signals; here a process that returns to user mode may be     *)
(* terminated or stopped by one.  A wait is interrupted at any time.       *)
(***************************************************************************)
EXTENDS Integers, Sequences, FiniteSets, SequencesExt

CONSTANTS MaxPid,     \* bound: the last pid that fork hands out
          Selectors,  \* pid arguments of waitpid
          MaxStops,   \* bound: stops by a signal
          MaxSema,    \* bound: tokens of child_sema at which nothing new happens
          Pgids       \* process groups that are made

ASSUME ProcessAssumption ==
    /\ MaxPid \in Nat \ {0} /\ Selectors \subseteq Int
    /\ MaxStops \in Nat /\ MaxSema \in Nat /\ Pgids \subseteq Nat \ {0}

VARIABLES proc,          \* the process table
          child_events,  \* of each process, in the order of arrival
          child_sema,
          call,          \* what the task of a process is doing
          pid_counter,
          stops,         \* how often a process was stopped
          hung           \* waitpid repeats for ever, interrupts masked

vars == <<proc, child_events, child_sema, call, pid_counter, stops, hung>>

Pids == 0..MaxPid
InitPid == 1
NoProc == [state |-> "none", old_state |-> "none", parent_pid |-> 0, pgid |-> 0,
           stopped |-> FALSE]
Exists(p) == proc[p].state # "none"
User == [at |-> "user"]
Waits(p) == call[p].at = "waitpid"
(* The task of p is in user mode and may be chosen by the scheduler. *)
Runs(p) == p # 0 /\ Exists(p) /\ call[p] = User /\ ~proc[p].stopped /\ ~hung

(* The kernel's own process and init, which kinit_start_uinit spawned. *)
Init ==
    /\ proc = [p \in Pids |-> IF p > InitPid THEN NoProc
                              ELSE [NoProc EXCEPT !.state = "READY"]]
    /\ child_events = [p \in Pids |-> <<>>]
    /\ child_sema = [p \in Pids |-> 0]
    /\ call = [p \in Pids |-> User]
    /\ pid_counter = InitPid + 1 /\ stops = 0 /\ hung = FALSE

----------------------------------------------------------------------------
fork_process(p) ==
    /\ Runs(p) /\ pid_counter <= MaxPid
    /\ proc' = [proc EXCEPT ![pid_counter] =
                    [state |-> "READY", old_state |-> "none", parent_pid |-> p,
                     pgid |-> proc[p].pgid, stopped |-> FALSE]]
    /\ pid_counter' = pid_counter + 1
    /\ UNCHANGED <<child_events, child_sema, call, stops, hung>>

setpgid(p, q, g) ==
    /\ Runs(p) /\ Exists(q) /\ q # 0
    /\ proc' = [proc EXCEPT ![q].pgid = g]
    /\ UNCHANGED <<child_events, child_sema, call, pid_counter, stops, hung>>

(* Mutant: the parent is not woken. *)
process_child_event_silent(p, event) ==
    LET q == IF Exists(proc[p].parent_pid) THEN proc[p].parent_pid ELSE InitPid
        ev == [child |-> p, pgid |-> proc[p].pgid, event |-> event]
    IN  /\ child_sema[q] < MaxSema
        /\ child_events' = [child_events EXCEPT ![q] = Append(@, ev)]
        /\ UNCHANGED child_sema

(* The parent, or init when there is none, is told and woken. *)
process_child_event(p, event) ==
    LET q == IF Exists(proc[p].parent_pid) THEN proc[p].parent_pid ELSE InitPid
        ev == [child |-> p, pgid |-> proc[p].pgid, event |-> event]
    IN  /\ child_sema[q] < MaxSema
        /\ child_events' = [child_events EXCEPT ![q] = Append(@, ev)]
        /\ child_sema' = [child_sema EXCEPT ![q] = @ + 1]

(* exit, or a signal whose default action is to terminate: the parent is told
   first, then the streams and the memory map are given up, which may wait. *)
sys_exit(p) ==
    /\ Runs(p) /\ p # InitPid
    /\ proc' = [proc EXCEPT ![p].state = "KILLED"]
    /\ process_child_event(p, "KILLED")
    /\ call' = [call EXCEPT ![p] = [at |-> "closing"]]
    /\ UNCHANGED <<pid_counter, stops, hung>>

process_deschedule(p) ==
    /\ call[p].at = "closing" /\ ~hung
    /\ proc' = [proc EXCEPT ![p].stopped = TRUE]
    /\ call' = [call EXCEPT ![p] = [at |-> "descheduled"]]
    /\ UNCHANGED <<child_events, child_sema, pid_counter, stops, hung>>

(* Mutant: a process that is stopped already can be stopped again. *)
process_stop_again(p) ==
    /\ Exists(p) /\ call[p] = User /\ ~hung /\ p > InitPid
    /\ proc' = [proc EXCEPT ![p].old_state = proc[p].state, ![p].state = "STOPPED",
                            ![p].stopped = TRUE]
    /\ process_child_event(p, "STOPPED")
    /\ UNCHANGED <<call, pid_counter, stops, hung>>

(* process_stop by the default action of a signal, with the report. *)
process_stop(p) ==
    /\ Runs(p) /\ p # InitPid /\ stops < MaxStops
    /\ proc' = [proc EXCEPT ![p].old_state = proc[p].state, ![p].state = "STOPPED",
                            ![p].stopped = TRUE]
    /\ process_child_event(p, "STOPPED")
    /\ stops' = stops + 1
    /\ UNCHANGED <<call, pid_counter, hung>>

(* Mutant: the state of the process is not looked at. *)
process_continue_any(p, q) ==
    /\ Runs(p) /\ Exists(q) /\ proc[q].stopped
    /\ proc' = [proc EXCEPT ![q].state = IF @ = "STOPPED" THEN proc[q].old_state ELSE "READY",
                            ![q].stopped = FALSE]
    /\ UNCHANGED <<child_events, child_sema, call, pid_counter, stops, hung>>

(* Mutant: the state is restored, the task is not. *)
process_continue_unscheduled(p, q) ==
    /\ Runs(p) /\ Exists(q) /\ proc[q].state = "STOPPED"
    /\ proc' = [proc EXCEPT ![q].state = proc[q].old_state]
    /\ UNCHANGED <<child_events, child_sema, call, pid_counter, stops, hung>>

(* SIGCONT or SIGKILL for a stopped process (process_handle_signal_scheduling). *)
process_continue(p, q) ==
    /\ Runs(p) /\ Exists(q) /\ proc[q].state = "STOPPED"
    /\ proc' = [proc EXCEPT ![q].state = proc[q].old_state, ![q].stopped = FALSE]
    /\ UNCHANGED <<child_events, child_sema, call, pid_counter, stops, hung>>

----------------------------------------------------------------------------
(* The events that a selector picks from: of a group, any, or of one child. *)
Picks(evs, sel) == {i \in DOMAIN evs : \/ sel < -1 /\ evs[i].pgid = -sel
                                       \/ sel = -1
                                       \/ sel > 0 /\ evs[i].child = sel}

(* The first of them, but the last of all for -1. *)
Selected(evs, sel) ==
    CHOOSE i \in Picks(evs, sel) :
        \A j \in Picks(evs, sel) : IF sel = -1 THEN j <= i ELSE i <= j
Wanted(e, c) == e.event = "KILLED" \/ c.untraced

(* One round of the loop of waitpid: an event is found, or an unwanted one is
   absorbed and a token is taken, or none is left to take. *)
Round(r, c) ==
    LET none == Picks(r.evs, c.sel) = {}
        i == Selected(r.evs, c.sel)
    IN  CASE r.end # "no" -> r
          [] r.end = "no" /\ ~none /\ Wanted(r.evs[i], c) -> [r EXCEPT !.end = "event"]
          [] r.end = "no" /\ ~none /\ ~Wanted(r.evs[i], c) ->
                [r EXCEPT !.evs = RemoveAt(r.evs, i),
                          !.sema = IF c.nohang \/ @ = 0 THEN @ ELSE @ - 1,
                          !.end = IF c.nohang \/ r.sema > 0 THEN "no" ELSE "wait"]
          [] r.end = "no" /\ none ->
                [r EXCEPT !.sema = IF c.nohang \/ @ = 0 THEN @ ELSE @ - 1,
                          !.end = IF c.nohang THEN "nothing"
                                  ELSE IF r.sema > 0 THEN "no" ELSE "wait"]
Search(c, evs, sema) ==
    FoldLeft(LAMBDA r, i : Round(r, c), [evs |-> evs, sema |-> sema, end |-> "no"],
             [i \in 1..(Len(evs) + sema + 1) |-> i])

(* Mutant: the event of the child that was reaped stays in the list. *)
Report_kept(p, c, r) ==
    LET e == r.evs[Selected(r.evs, c.sel)] IN
    /\ child_events' = [child_events EXCEPT ![p] = r.evs]
    /\ \/ /\ Exists(e.child)
          /\ proc' = IF e.event = "KILLED" THEN [proc EXCEPT ![e.child] = NoProc] ELSE proc
          /\ call' = [call EXCEPT ![p] = User,
                                  ![e.child] = IF e.event = "KILLED" THEN User ELSE @]
          /\ UNCHANGED hung
       \/ /\ ~Exists(e.child)
          /\ call' = [call EXCEPT ![p] = User]
          /\ hung' = (c.sel < 0)
          /\ UNCHANGED proc

(* The event found: a child that was killed is reaped (process_reap), and the
   event absorbed.  When the child is gone already the search is repeated: for
   a single pid it then ends with ECHILD, otherwise it never ends. *)
Report(p, c, r) ==
    LET i == Selected(r.evs, c.sel)
        e == r.evs[i]
    IN  \/ /\ Exists(e.child)
           /\ child_events' = [child_events EXCEPT
                  ![p] = RemoveAt(r.evs, i),
                  ![e.child] = IF e.event = "KILLED" THEN <<>> ELSE @]
           /\ proc' = IF e.event = "KILLED" THEN [proc EXCEPT ![e.child] = NoProc] ELSE proc
           /\ call' = [call EXCEPT ![p] = User,
                                   ![e.child] = IF e.event = "KILLED" THEN User ELSE @]
           /\ UNCHANGED hung
        \/ /\ ~Exists(e.child)
           /\ child_events' = [child_events EXCEPT ![p] = r.evs]
           /\ call' = [call EXCEPT ![p] = User]
           /\ hung' = (c.sel < 0)
           /\ UNCHANGED proc

(* The loop of waitpid, entered with sema tokens. *)
Loop(p, c, sema) ==
    LET r == Search(c, child_events[p], sema) IN
    /\ child_sema' = [child_sema EXCEPT ![p] = r.sema]
    /\ \/ r.end = "event" /\ Report(p, c, r)
       \/ /\ r.end = "nothing"
          /\ child_events' = [child_events EXCEPT ![p] = r.evs]
          /\ call' = [call EXCEPT ![p] = User]
          /\ UNCHANGED <<proc, hung>>
       \/ /\ r.end = "wait"
          /\ child_events' = [child_events EXCEPT ![p] = r.evs]
          /\ call' = [call EXCEPT ![p] = c]
          /\ UNCHANGED <<proc, hung>>
    /\ UNCHANGED <<pid_counter, stops>>

(* waitpid(0) asks for the group whose number is the caller's pid; ECHILD for a
   pid that does not exist. *)
sys_waitpid(p, pid, nohang, untraced) ==
    LET sel == IF pid = 0 THEN -p ELSE pid IN
    /\ Runs(p)
    /\ sel > 0 => sel \in Pids /\ Exists(sel)
    /\ Loop(p, [at |-> "waitpid", sel |-> sel, nohang |-> nohang, untraced |-> untraced],
            child_sema[p])

WaitResumes(p) ==
    /\ Waits(p) /\ ~proc[p].stopped /\ ~hung /\ child_sema[p] > 0
    /\ Loop(p, call[p], child_sema[p] - 1)

(* A signal ends the wait: EINTR. *)
Interrupted(p) ==
    /\ Waits(p) /\ ~proc[p].stopped /\ ~hung
    /\ call' = [call EXCEPT ![p] = User]
    /\ UNCHANGED <<proc, child_events, child_sema, pid_counter, stops, hung>>

Next ==
    \E p \in Pids :
        \/ fork_process(p) \/ sys_exit(p) \/ process_deschedule(p) \/ process_stop(p)
        \/ \E q \in Pids : process_continue(p, q)
        \/ \E q \in Pids, g \in Pgids : setpgid(p, q, g)
        \/ \E s \in Selectors, h \in BOOLEAN, u \in BOOLEAN : sys_waitpid(p, s, h, u)
        \/ WaitResumes(p) \/ Interrupted(p)

Spec == Init /\ [][Next]_vars

----------------------------------------------------------------------------
Events == [child : Pids, pgid : Pgids \cup {0}, event : {"KILLED", "STOPPED"}]
States == {"none", "READY", "STOPPED", "KILLED"}

TypeOK ==
    /\ proc \in [Pids -> [state : States, old_state : {"none", "READY"},
                          parent_pid : Pids, pgid : Pgids \cup {0}, stopped : BOOLEAN]]
    /\ child_events \in [Pids -> Seq(Events)]
    /\ child_sema \in [Pids -> Nat]
    /\ \A p \in Pids : call[p].at \in {"user", "waitpid", "closing", "descheduled"}
    /\ pid_counter \in Nat /\ stops \in Nat /\ hung \in BOOLEAN

(* A death is reported once, and the process is in the table until the report
   is taken: so no process is reaped twice, and none before it has died. *)
KilledReportedOnce ==
    \A p, q \in Pids : \A i \in DOMAIN child_events[p], j \in DOMAIN child_events[q] :
        child_events[p][i].event = "KILLED" =>
            /\ proc[child_events[p][i].child].state = "KILLED"
            /\ child_events[q][j] = child_events[p][i] => p = q /\ i = j

(* The task of a process is held exactly while the process is stopped, or dead
   and done with its streams: none is left behind when it is continued. *)
HeldWhileStopped ==
    \A p \in Pids : Exists(p) =>
        (proc[p].stopped <=> proc[p].state = "STOPPED" \/ call[p].at = "descheduled")

(* A process that has died never comes back, whatever signals it is sent while
   its parent does not look: it is reaped, or stays dead. *)
DeadStaysDead ==
    [][\A p \in Pids : proc[p].state = "KILLED" => proc'[p].state \in {"KILLED", "none"}]_vars

(* A waitpid with WUNTRACED that waits beside an event it asked for has a token.
   (Without WUNTRACED an unwanted event costs a token that may be another's.) *)
NoLostWakeup ==
    \A p \in Pids :
        Waits(p) /\ call[p].untraced /\ Picks(child_events[p], call[p].sel) # {}
            => child_sema[p] > 0

(* Somebody who is alive can learn of every death: "Orphaned processes get
   reaped by init" when the parent is gone (process_child_event). *)
OrphansReaped ==
    \A p \in Pids : proc[p].state = "KILLED" =>
        \E q \in Pids : /\ proc[q].state \in {"READY", "STOPPED", "KILLED"}
                        /\ \E i \in DOMAIN child_events[q] :
                              /\ child_events[q][i].child = p
                              /\ child_events[q][i].event = "KILLED"

=============================================================================
