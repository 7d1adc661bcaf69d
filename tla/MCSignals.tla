----------------------------- MODULE MCSignals ------------------------------
(* Signals for TLC: SIGKILL, SIGUSR1 and 2, SIGCONT, SIGSTOP, and kinds of handlers. *)
EXTENDS Signals

Some == {SIGKILL, 16, 17, SIGCONT, SIGSTOP}
Func(f, m) == [handler |-> "FUNC", flags |-> f, sa_mask |-> m]
SomeActions == {Func({"ONSTACK"}, {17, SIGSTOP}), Func({"ONSTACK", "NODEFER"}, {}),
                Func({"RESETHAND"}, {}),
                [handler |-> "IGN", flags |-> {"RESETHAND"}, sa_mask |-> {}]}
SomeMasks == {{}, {16, SIGSTOP}}
=============================================================================
