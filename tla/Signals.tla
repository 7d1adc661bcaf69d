------------------------------ MODULE Signals -------------------------------
(***************************************************************************)
(* kernel/proc/signal.c, signal_api.c and arch/i386/signal.c: the signals  *)
(* of one process, which has one task.  They are sent by others at any     *)
(* time, to the process (kill) or to its task (a debugger, an exception),  *)
(* and handled by do_signals at the end of every system call.              *)
(*                                                                         *)
(* The process is not traced, and its stacks have room for handler frames. *)
(* sr_mask and sr_flags of the frames live on the user stack.              *)
(***************************************************************************)
EXTENDS Integers, Sequences, FiniteSets, SequencesExt

CONSTANTS Sent,      \* signals that others send
          Targets,   \* those the program sets actions for
          Masks,     \* sets for sigprocmask and sigsuspend
          Actions,   \* sigaction arguments: [handler, flags, sa_mask]
          MaxSends,  \* bounds: signals sent,
          MaxCalls   \* and calls of sigaction, sigprocmask, sigaltstack and fork

SIGKILL == 9
SIGSTOP == 23
SIGCONT == 19
StopSignals == {SIGSTOP, 24, 26, 27}

VARIABLES t,      \* the process and its task
          sends, calls,
          outer,  \* the mask that was set outside of handlers
          forked  \* history: fork was called by a handler on the alternate stack

vars == <<t, sends, calls, outer, forked>>

sig_action_default == [handler |-> "DFL", flags |-> {}, sa_mask |-> {}]
User == [in |-> "user"]

Init ==
    /\ t = [thread |-> {}, process |-> {}, mask |-> {}, frames |-> <<>>,
            action |-> [s \in Sent |-> sig_action_default], altstack |-> "disabled",
            state |-> "READY", interrupt |-> FALSE, at |-> User, left |-> {}]
    /\ sends = 0 /\ calls = 0 /\ outer = {} /\ forked = FALSE

----------------------------------------------------------------------------
signal_default_action(s) ==
    CASE s \in StopSignals -> "STOP"
      [] s \in {0, 7, 18, SIGCONT, 20, 21, 25} -> "IGNORE"
      [] OTHER -> "TERM"

(* SIGKILL and SIGCONT resume the process; an unmasked signal interrupts.
   Nothing happens while no signal is pending for the process as a whole. *)
process_handle_signal_scheduling(r) ==
    IF r.process = {} THEN r
    ELSE [r EXCEPT
            !.state = IF @ = "STOPPED" /\ r.process \cap {SIGCONT, SIGKILL} # {}
                      THEN "READY" ELSE @,
            !.interrupt = @ \/ (r.thread \cup r.process) \ r.mask # {}]

Discarded(s) == IF s = SIGCONT THEN StopSignals
                ELSE IF s \in StopSignals THEN {SIGCONT} ELSE {}

(* Mutant: the sender stops the process. *)
process_send_signal_stops(s) ==
    /\ t.state # "KILLED" /\ sends < MaxSends
    /\ t' = process_handle_signal_scheduling(
                [t EXCEPT !.process = (@ \cup {s}) \ Discarded(s),
                          !.state = IF s \in StopSignals THEN "STOPPED" ELSE @])
    /\ sends' = sends + 1
    /\ UNCHANGED <<calls, outer, forked>>

process_send_signal(s) ==
    /\ t.state # "KILLED" /\ sends < MaxSends
    /\ t' = process_handle_signal_scheduling(
                [t EXCEPT !.process = (@ \cup {s}) \ Discarded(s)])
    /\ sends' = sends + 1
    /\ UNCHANGED <<calls, outer, forked>>

thread_send_signal(s) ==
    /\ t.state # "KILLED" /\ sends < MaxSends
    /\ t' = process_handle_signal_scheduling(
                [t EXCEPT !.thread = (@ \cup {s}) \ Discarded(s),
                          !.process = @ \ Discarded(s)])
    /\ sends' = sends + 1
    /\ UNCHANGED <<calls, outer, forked>>

----------------------------------------------------------------------------
(* Mutant: the alternate stack is used although a handler runs on it. *)
invoke_signal_handler_onstack(r, s) ==
    LET a == r.action[s]
        on == "ONSTACK" \in a.flags /\ r.altstack # "disabled"
    IN  [r EXCEPT
            !.frames = Append(@, [sr_sig |-> s, sr_mask |-> r.mask, sr_onstack |-> on]),
            !.mask = @ \cup a.sa_mask
                     \cup (IF a.flags \cap {"RESETHAND", "NODEFER"} = {} THEN {s} ELSE {}),
            !.action[s].handler = IF "RESETHAND" \in a.flags THEN "DFL" ELSE @,
            !.altstack = IF on THEN "used" ELSE @]

invoke_signal_handler(r, s) ==
    LET a == r.action[s]
        on == "ONSTACK" \in a.flags /\ r.altstack = "free"
    IN  [r EXCEPT
            !.frames = Append(@, [sr_sig |-> s, sr_mask |-> r.mask, sr_onstack |-> on]),
            !.mask = @ \cup a.sa_mask
                     \cup (IF a.flags \cap {"RESETHAND", "NODEFER"} = {} THEN {s} ELSE {}),
            !.action[s].handler = IF "RESETHAND" \in a.flags THEN "DFL" ELSE @,
            !.altstack = IF on THEN "used" ELSE @]

(* One signal; end says whether the loop of do_signals goes on. *)
process_handle_signal(r, s) ==
    LET a == r.action[s]
        default == signal_default_action(s)
    IN  CASE a.handler = "IGN" ->
                [r EXCEPT !.action[s].handler = IF "RESETHAND" \in a.flags THEN "DFL" ELSE @]
          [] a.handler = "DFL" /\ default = "TERM" ->
                [r EXCEPT !.state = "KILLED", !.end = "killed"]
          [] a.handler = "DFL" /\ default = "STOP" ->
                [r EXCEPT !.state = "STOPPED", !.end = "stopped"]
          [] a.handler = "DFL" /\ default = "IGNORE" -> r
          [] a.handler = "FUNC" -> [invoke_signal_handler(r, s) EXCEPT !.end = "handler"]

(* The loop over a set of signals in ascending order; what is left of the set
   when the process stops in the middle is handled when it is continued. *)
HandleAll(r, active, thread) ==
    FoldLeft(LAMBDA x, s :
                CASE x.end = "stopped" -> [x EXCEPT !.rest = @ \cup {s}]
                  [] x.end \in {"handler", "killed"} -> x
                  [] x.end = "no" ->
                        process_handle_signal(
                            IF thread THEN [x EXCEPT !.thread = @ \ {s}]
                                      ELSE [x EXCEPT !.process = @ \ {s}], s),
             r, SetToSortSeq(active, <))

(* Mutant: the second loop goes by the set of the first. *)
SecondLoop_stale(x) ==
    IF x.end \in {"stopped", "killed"} THEN [x EXCEPT !.second = FALSE]
    ELSE HandleAll([x EXCEPT !.end = "no"], t.thread \ t.mask, FALSE)

(* The second loop looks at the pending set of the task, too, and removes what
   it handles from that of the process. *)
SecondLoop(x) ==
    IF x.end \in {"stopped", "killed"} THEN [x EXCEPT !.second = FALSE]
    ELSE HandleAll([x EXCEPT !.end = "no"], x.thread \ x.mask, FALSE)

Looping(r) == [thread |-> r.thread, process |-> r.process, mask |-> r.mask,
               frames |-> r.frames, action |-> r.action, altstack |-> r.altstack,
               state |-> r.state, end |-> "no", rest |-> {}, second |-> TRUE]

(* The end of do_signals: back to user mode, or suspended in process_stop. *)
Exit(r, x) ==
    [thread |-> x.thread, process |-> x.process, mask |-> x.mask, frames |-> x.frames,
     action |-> x.action, altstack |-> x.altstack, state |-> x.state,
     interrupt |-> r.interrupt,
     at |-> IF x.end = "stopped" THEN [in |-> "stop", rest |-> x.rest, second |-> x.second]
            ELSE User,
     left |-> IF x.end = "no" /\ Len(x.frames) = Len(r.frames)
              THEN (x.thread \cup x.process) \ x.mask ELSE {}]

do_signals(r) == Exit(r, SecondLoop(HandleAll(Looping(r), r.thread \ r.mask, TRUE)))

(* A stopped process was continued: do_signals goes on where it stopped. *)
Continued ==
    /\ t.at.in = "stop" /\ t.state = "READY"
    /\ t' = LET x == HandleAll(Looping(t), t.at.rest, ~t.at.second)
            IN  Exit(t, IF t.at.second \/ x.end \in {"stopped", "killed"}
                        THEN [x EXCEPT !.second = t.at.second] ELSE SecondLoop(x))
    /\ UNCHANGED <<sends, calls, outer, forked>>

----------------------------------------------------------------------------
Runs == t.at = User /\ t.state = "READY"

(* The end of any other system call or interrupt. *)
KernelExit ==
    /\ Runs
    /\ t' = do_signals(t)
    /\ UNCHANGED <<sends, calls, outer, forked>>

_sys_sigaction(s, a) ==
    /\ Runs /\ calls < MaxCalls /\ s \notin {SIGKILL, SIGSTOP}
    /\ t' = do_signals([t EXCEPT !.action[s] = a])
    /\ calls' = calls + 1
    /\ UNCHANGED <<sends, outer, forked>>

(* signal() is sigaction() without flags. *)
_sys_signal(s, disp) == _sys_sigaction(s, [sig_action_default EXCEPT !.handler = disp])

(* SIG_SETMASK; SIG_BLOCK and SIG_UNBLOCK compute the new mask from the old. *)
_sys_sigprocmask(m) ==
    /\ Runs /\ calls < MaxCalls
    /\ t' = do_signals([t EXCEPT !.mask = m \ {SIGKILL, SIGSTOP}])
    /\ outer' = IF t.frames = <<>> THEN m \ {SIGKILL, SIGSTOP} ELSE outer
    /\ calls' = calls + 1
    /\ UNCHANGED <<sends, forked>>

(* EPERM while a handler runs on the stack. *)
_sys_sigaltstack(enable) ==
    /\ Runs /\ calls < MaxCalls
    /\ t' = do_signals(IF t.altstack = "used" THEN t
                       ELSE [t EXCEPT !.altstack = IF enable THEN "free" ELSE "disabled"])
    /\ calls' = calls + 1
    /\ UNCHANGED <<sends, outer, forked>>

(* posix_fork: scheduler_spawn calls signal_init_task for the current task and
   not for the new one, which has copied its mask and stack.  The caller's own
   pending set and mask are cleared, and its alternate stack is disabled, be it
   in use or not. *)
posix_fork ==
    /\ Runs /\ calls < MaxCalls
    /\ t' = do_signals([t EXCEPT !.thread = {}, !.mask = {}, !.altstack = "disabled"])
    /\ outer' = IF t.frames = <<>> THEN {} ELSE outer
    /\ forked' = (forked \/ t.altstack = "used")
    /\ calls' = calls + 1
    /\ UNCHANGED sends

(* sigsuspend waits with another mask for an interrupt ... *)
_sys_sigsuspend(m) ==
    /\ Runs
    /\ t' = [t EXCEPT !.at = [in |-> "sigsuspend", before |-> t.mask],
                      !.mask = m \ {SIGKILL, SIGSTOP}]
    /\ UNCHANGED <<sends, calls, outer, forked>>

(* ... and puts the old mask back before the signal is handled. *)
SuspendReturns ==
    /\ t.at.in = "sigsuspend" /\ t.interrupt
    /\ t' = do_signals([t EXCEPT !.interrupt = FALSE, !.mask = t.at.before])
    /\ UNCHANGED <<sends, calls, outer, forked>>

(* Another blocking call returns EINTR. *)
CallInterrupted ==
    /\ Runs /\ t.interrupt
    /\ t' = do_signals([t EXCEPT !.interrupt = FALSE])
    /\ UNCHANGED <<sends, calls, outer, forked>>

(* Mutant: only the handler's own signal is unmasked. *)
exit_signal_handler_own ==
    LET f == Last(t.frames) IN
    /\ Runs /\ t.frames # <<>>
    /\ t' = do_signals([t EXCEPT !.frames = Front(@), !.mask = @ \ {f.sr_sig},
                                 !.altstack = IF f.sr_onstack /\ @ = "used" THEN "free" ELSE @])
    /\ UNCHANGED <<sends, calls, outer, forked>>

(* A handler returns. *)
exit_signal_handler ==
    LET f == Last(t.frames) IN
    /\ Runs /\ t.frames # <<>>
    /\ t' = do_signals([t EXCEPT !.frames = Front(@), !.mask = f.sr_mask,
                                 !.altstack = IF f.sr_onstack /\ @ = "used" THEN "free" ELSE @])
    /\ UNCHANGED <<sends, calls, outer, forked>>

Next ==
    \/ \E s \in Sent : process_send_signal(s) \/ thread_send_signal(s)
    \/ \E s \in Targets, a \in Actions : _sys_sigaction(s, a)
    \/ \E s \in Targets, h \in {"DFL", "IGN", "FUNC"} : _sys_signal(s, h)
    \/ \E m \in Masks : _sys_sigprocmask(m) \/ _sys_sigsuspend(m)
    \/ \E e \in BOOLEAN : _sys_sigaltstack(e)
    \/ posix_fork \/ KernelExit \/ Continued \/ SuspendReturns \/ CallInterrupted \/ exit_signal_handler

Spec == Init /\ [][Next]_vars

----------------------------------------------------------------------------
(* The types; a process is stopped only where do_signals stopped it. *)
TypeOK ==
    /\ t.thread \subseteq Sent /\ t.process \subseteq Sent /\ t.left \subseteq Sent
    /\ t.mask \subseteq Sent
    /\ t.action \in [Sent -> [handler : {"DFL", "IGN", "FUNC"},
                              flags : SUBSET {"RESETHAND", "NODEFER", "ONSTACK"},
                              sa_mask : SUBSET Sent]]
    /\ t.altstack \in {"disabled", "free", "used"}
    /\ t.state \in {"READY", "STOPPED", "KILLED"} /\ t.interrupt \in BOOLEAN
    /\ t.at.in \in {"user", "stop", "sigsuspend"} /\ forked \in BOOLEAN
    /\ t.state = "STOPPED" => t.at.in = "stop"

(* A handler is never entered for a signal that is masked at that moment, be
   it by the handler that the same do_signals entered just before. *)
HandlerRespectsMask ==
    \A i \in DOMAIN t.frames : t.frames[i].sr_sig \notin t.frames[i].sr_mask

(* The alternate stack is marked as used while exactly one handler runs on it,
   however handlers nest: a second one never overwrites its frame, and the mark
   goes with the "outermost handler on the alternative stack".  A fork in that
   handler removes the mark under it; such a process is exempt. *)
OneHandlerOnAltStack ==
    LET on == {i \in DOMAIN t.frames : t.frames[i].sr_onstack}
    IN  forked \/ Cardinality(on) = IF t.altstack = "used" THEN 1 ELSE 0

(* When all handlers have returned the mask is the one that was set outside of
   them, by sigprocmask or by a fork that cleared it, whatever they, sigsuspend,
   sa_mask and a fork within them did to it. *)
MaskUnwinds ==
    IF t.frames # <<>> THEN t.frames[1].sr_mask = outer
    ELSE (IF t.at.in = "sigsuspend" THEN t.at.before ELSE t.mask) = outer

(* "Handle all unmasked pending signals" (do_signals): when it goes back to the
   program, and not to a handler, no unmasked signal is pending. *)
HandlesAll == t.left = {}

=============================================================================
