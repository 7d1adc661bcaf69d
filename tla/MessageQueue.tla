---------------------------- MODULE MessageQueue ----------------------------
(***************************************************************************)
(* kernel/svipc/msg.c: a System V message queue and the processes that     *)
(* send to it, receive from it, create and remove it.                      *)
(*                                                                         *)
(* A handler is atomic up to its wait for rwaitsem or swaitsem; a wake-up  *)
(* takes the token and runs on in the same step.  A wait that cannot go on *)
(* first uses up every token there is.  The caller's permissions are left  *)
(* out: a refused call changes nothing.                                    *)
(***************************************************************************)
EXTENDS Integers, Sequences, FiniteSets, SequencesExt

CONSTANTS Senders, Receivers, \* processes
          Types,              \* message types in use (> 0)
          Selectors,          \* msgtyp arguments of msgrcv
          Sizes,              \* sizes of messages and of receive buffers
          msg_qbytes,         \* CONFIG_SYSV_MSG_SIZE_LIMIT
          Flood,              \* tokens that IPC_RMID adds (999999)
          Removable,          \* whether anyone removes the queue
          MaxSends, MaxId,    \* bounds: messages sent to a queue, queues created,
          MaxBelow            \* how far refs may fall below zero

ASSUME QueueAssumption ==
    /\ Types \subseteq Nat \ {0} /\ Selectors \subseteq Int /\ Sizes \subseteq Nat \ {0}
    /\ msg_qbytes \in Nat \ {0} /\ Flood \in Nat /\ Removable \in BOOLEAN
    /\ MaxSends \in Nat /\ MaxId \in Nat \ {0} /\ MaxBelow \in Nat /\ Senders \cap Receivers = {}

VARIABLES q,           \* the queue's msg_info; id = 0 when there is none
          msg_id_ctr,
          call,        \* the wait a process is suspended in
          sent, got,   \* messages of this queue, in the order of msgsnd and of msgrcv
          waited       \* history: the processes that have waited on this queue

vars == <<q, msg_id_ctr, call, sent, got, waited>>

Procs == Senders \cup Receivers
NoCall == [on |-> 0]
NoQueue == [id |-> 0, del |-> FALSE, refs |-> 0, used_bytes |-> 0, msg_qnum |-> 0,
            rwaitsem |-> 0, swaitsem |-> 0, msgs |-> <<>>]
Alive == q.id # 0
(* Processes that are suspended on the semaphores of the queue. *)
Waiting == {p \in Procs : call[p].on = q.id /\ Alive}

Returns(p) == /\ call' = [call EXCEPT ![p] = NoCall]
              /\ UNCHANGED waited
Suspends(p, c) == /\ call' = [call EXCEPT ![p] = c]
                  /\ waited' = waited \cup {p}

Init == /\ q = NoQueue /\ msg_id_ctr = 1
        /\ call = [p \in Procs |-> NoCall]
        /\ sent = <<>> /\ got = <<>> /\ waited = {}

msg_recv_iterator(rtype, msg) == \/ rtype = 0
                                 \/ rtype > 0 /\ msg.mtype = rtype
                                 \/ rtype < 0 /\ msg.mtype <= -rtype
Matches(rtype) == {i \in DOMAIN q.msgs : msg_recv_iterator(rtype, q.msgs[i])}

(* Mutant: the newest match is taken. *)
Match_newest(rtype) == CHOOSE i \in Matches(rtype) : \A j \in Matches(rtype) : j <= i

(* llist_iterate_select: the first match. *)
Match(rtype) == CHOOSE i \in Matches(rtype) : \A j \in Matches(rtype) : i <= j

Full == q.used_bytes >= msg_qbytes

----------------------------------------------------------------------------
(* _sys_msgget that does not find the key. *)
_sys_msgget ==
    /\ ~Alive /\ msg_id_ctr < MaxId
    /\ q' = [NoQueue EXCEPT !.id = msg_id_ctr]
    /\ msg_id_ctr' = msg_id_ctr + 1
    /\ sent' = <<>> /\ got' = <<>> /\ waited' = {}
    /\ UNCHANGED call

(* Mutant: used_bytes falls by the size of the caller's buffer. *)
Receive_unqueued(p, c, tokens) ==
    LET i == Match(c.rtype)
        m == q.msgs[i]
    IN  \/ /\ m.msize > c.msgsz /\ ~c.noerror
           /\ q' = [q EXCEPT !.refs = @ - 1, !.rwaitsem = tokens]
           /\ Returns(p)  \* E2BIG
           /\ UNCHANGED got
        \/ /\ m.msize <= c.msgsz \/ c.noerror
           /\ q' = [q EXCEPT !.msgs = RemoveAt(@, i), !.msg_qnum = @ - 1,
                             !.used_bytes = @ - c.msgsz, !.refs = @ - 1,
                             !.rwaitsem = tokens, !.swaitsem = @ + 1]
           /\ got' = Append(got, m)
           /\ Returns(p)  \* OK

(* Mutant: a receive wakes no sender. *)
Receive_silent(p, c, tokens) ==
    LET i == Match(c.rtype)
        m == q.msgs[i]
    IN  \/ /\ m.msize > c.msgsz /\ ~c.noerror
           /\ q' = [q EXCEPT !.refs = @ - 1, !.rwaitsem = tokens]
           /\ Returns(p)  \* E2BIG
           /\ UNCHANGED got
        \/ /\ m.msize <= c.msgsz \/ c.noerror
           /\ q' = [q EXCEPT !.msgs = RemoveAt(@, i), !.msg_qnum = @ - 1,
                             !.used_bytes = @ - m.msize, !.refs = @ - 1,
                             !.rwaitsem = tokens]
           /\ got' = Append(got, m)
           /\ Returns(p)  \* OK

(* The end of _sys_msgrcv, with a match.  The reference is given up whether
   or not the call had to wait for the message and so had taken one. *)
Receive(p, c, tokens) ==
    LET i == Match(c.rtype)
        m == q.msgs[i]
    IN  \/ /\ m.msize > c.msgsz /\ ~c.noerror
           /\ q' = [q EXCEPT !.refs = @ - 1, !.rwaitsem = tokens]
           /\ Returns(p)  \* E2BIG
           /\ UNCHANGED got
        \/ /\ m.msize <= c.msgsz \/ c.noerror
           /\ q' = [q EXCEPT !.msgs = RemoveAt(@, i), !.msg_qnum = @ - 1,
                             !.used_bytes = @ - m.msize, !.refs = @ - 1,
                             !.rwaitsem = tokens, !.swaitsem = @ + 1]
           /\ got' = Append(got, m)
           /\ Returns(p)  \* OK

_sys_msgrcv(p, rtype, size, noerror, nowait) ==
    LET c == [on |-> q.id, rtype |-> rtype, msgsz |-> size, noerror |-> noerror]
    IN  /\ Alive /\ call[p] = NoCall /\ q.refs > -MaxBelow
        /\ \/ /\ q.del
              /\ Returns(p)  \* EIDRM
              /\ UNCHANGED <<q, got>>
           \/ /\ ~q.del /\ Matches(rtype) # {}
              /\ Receive(p, c, q.rwaitsem)
           \/ /\ ~q.del /\ Matches(rtype) = {} /\ nowait
              /\ Returns(p)  \* ENOMSG
              /\ UNCHANGED <<q, got>>
           \/ /\ ~q.del /\ Matches(rtype) = {} /\ ~nowait
              /\ q' = [q EXCEPT !.refs = @ + 1, !.rwaitsem = 0]
              /\ Suspends(p, c)
              /\ UNCHANGED got
        /\ UNCHANGED <<msg_id_ctr, sent>>

(* msg_do_delete, or the reference dropped: the end of a wait that failed. *)
DropReference(p, r) ==
    /\ q' = IF q.del /\ r.refs = 0 THEN NoQueue ELSE r
    /\ Returns(p)
    /\ UNCHANGED <<msg_id_ctr, sent, got>>

ReceiverResumes(p) ==
    LET c == call[p] IN
    /\ p \in Waiting /\ q.rwaitsem > 0
    /\ \/ /\ q.del
          /\ DropReference(p, [q EXCEPT !.refs = @ - 1, !.rwaitsem = @ - 1])  \* EIDRM
       \/ /\ ~q.del /\ Matches(c.rtype) # {}
          /\ Receive(p, c, q.rwaitsem - 1)
          /\ UNCHANGED <<msg_id_ctr, sent>>
       \/ /\ ~q.del /\ Matches(c.rtype) = {}
          /\ q' = [q EXCEPT !.rwaitsem = 0]
          /\ UNCHANGED <<msg_id_ctr, call, sent, got, waited>>

Interrupted(p) ==
    /\ p \in Waiting
    /\ DropReference(p, [q EXCEPT !.refs = @ - 1])  \* EINTR

----------------------------------------------------------------------------
(* Mutant: a send wakes no receiver. *)
Send_silent(p, c, held, tokens) ==
    LET m == [mtype |-> c.mtype, msize |-> c.msgsz, no |-> Len(sent) + 1]
    IN  \/ /\ q' = [q EXCEPT !.msgs = Append(@, m), !.msg_qnum = @ + 1,
                             !.used_bytes = @ + m.msize, !.refs = @ - held,
                             !.swaitsem = tokens]
           /\ sent' = Append(sent, m)
           /\ Returns(p)  \* OK
        \/ /\ q' = [q EXCEPT !.refs = @ - held, !.swaitsem = tokens]
           /\ Returns(p)  \* ENOMEM
           /\ UNCHANGED sent

(* The end of _sys_msgsnd, with room for a message; memory may run out.  The
   number of sends tells messages apart. *)
Send(p, c, held, tokens) ==
    LET m == [mtype |-> c.mtype, msize |-> c.msgsz, no |-> Len(sent) + 1]
    IN  \/ /\ q' = [q EXCEPT !.msgs = Append(@, m), !.msg_qnum = @ + 1,
                             !.used_bytes = @ + m.msize, !.refs = @ - held,
                             !.rwaitsem = @ + 1, !.swaitsem = tokens]
           /\ sent' = Append(sent, m)
           /\ Returns(p)  \* OK
        \/ /\ q' = [q EXCEPT !.refs = @ - held, !.swaitsem = tokens]
           /\ Returns(p)  \* ENOMEM
           /\ UNCHANGED sent

_sys_msgsnd(p, type, size, nowait) ==
    LET c == [on |-> q.id, mtype |-> type, msgsz |-> size]
    IN  /\ Alive /\ call[p] = NoCall /\ Len(sent) < MaxSends
        /\ \/ /\ q.del
              /\ Returns(p)  \* EIDRM
              /\ UNCHANGED <<q, sent>>
           \/ /\ ~q.del /\ ~Full
              /\ Send(p, c, 0, q.swaitsem)
           \/ /\ ~q.del /\ Full /\ nowait
              /\ Returns(p)  \* EAGAIN
              /\ UNCHANGED <<q, sent>>
           \/ /\ ~q.del /\ Full /\ ~nowait
              /\ q' = [q EXCEPT !.refs = @ + 1, !.swaitsem = 0]
              /\ Suspends(p, c)
              /\ UNCHANGED sent
        /\ UNCHANGED <<msg_id_ctr, got>>

(* Mutant: a woken sender does not look for room again. *)
SenderResumes_unchecked(p) ==
    /\ p \in Waiting /\ q.swaitsem > 0
    /\ \/ /\ q.del
          /\ DropReference(p, [q EXCEPT !.refs = @ - 1, !.swaitsem = @ - 1])  \* EIDRM
       \/ /\ ~q.del
          /\ Send(p, call[p], 1, q.swaitsem - 1)
          /\ UNCHANGED <<msg_id_ctr, got>>

SenderResumes(p) ==
    /\ p \in Waiting /\ q.swaitsem > 0
    /\ \/ /\ q.del
          /\ DropReference(p, [q EXCEPT !.refs = @ - 1, !.swaitsem = @ - 1])  \* EIDRM
       \/ /\ ~q.del /\ ~Full
          /\ Send(p, call[p], 1, q.swaitsem - 1)
          /\ UNCHANGED <<msg_id_ctr, got>>
       \/ /\ ~q.del /\ Full
          /\ q' = [q EXCEPT !.swaitsem = 0]
          /\ UNCHANGED <<msg_id_ctr, call, sent, got, waited>>

(* Mutant: only the receivers are woken. *)
IPC_RMID_receivers ==
    /\ Removable /\ Alive
    /\ q.rwaitsem < Flood /\ q.swaitsem < Flood
    /\ q' = IF q.refs = 0 THEN NoQueue
            ELSE [q EXCEPT !.del = TRUE, !.rwaitsem = @ + Flood]
    /\ UNCHANGED <<msg_id_ctr, call, sent, got, waited>>

(* _sys_msgctl(IPC_RMID): delete at once, or leave it to the last waiter. *)
IPC_RMID ==
    /\ Removable /\ Alive
    /\ q.rwaitsem < Flood /\ q.swaitsem < Flood
    /\ q' = IF q.refs = 0 THEN NoQueue
            ELSE [q EXCEPT !.del = TRUE, !.rwaitsem = @ + Flood, !.swaitsem = @ + Flood]
    /\ UNCHANGED <<msg_id_ctr, call, sent, got, waited>>

Next ==
    \/ _sys_msgget \/ IPC_RMID
    \/ \E p \in Receivers :
          \/ \E t \in Selectors, n \in Sizes, e \in BOOLEAN, w \in BOOLEAN :
                _sys_msgrcv(p, t, n, e, w)
          \/ ReceiverResumes(p)
    \/ \E p \in Senders :
          \/ \E t \in Types, n \in Sizes, w \in BOOLEAN : _sys_msgsnd(p, t, n, w)
          \/ SenderResumes(p)
    \/ \E p \in Procs : Interrupted(p)

Spec == Init /\ [][Next]_vars

(* A token that stays is taken by a task that keeps waiting for it. *)
FairSpec == /\ Spec
            /\ \A p \in Receivers : WF_vars(ReceiverResumes(p))
            /\ \A p \in Senders : WF_vars(SenderResumes(p))

----------------------------------------------------------------------------
Messages == [mtype : Types, msize : Sizes, no : Nat]
SelectSeqOf(s, t) == SelectSeq(s, LAMBDA m : m.mtype = t)

TypeOK ==
    /\ q \in [id : Nat, del : BOOLEAN, refs : Int, used_bytes : Nat, msg_qnum : Nat,
              rwaitsem : Nat, swaitsem : Nat, msgs : Seq(Messages)]
    /\ msg_id_ctr \in 1..MaxId
    /\ \A p \in Procs : call[p].on \in Nat
    /\ sent \in Seq(Messages) /\ got \in Seq(Messages) /\ waited \subseteq Procs

(* While the queue exists no message is lost, forged or received twice, and
   those of one type are received in the order they were sent, whoever sends
   and whatever selectors, buffer sizes and waits are involved. *)
InOrderPerType ==
    Alive =>
        \A t \in Types : SelectSeqOf(sent, t) = SelectSeqOf(got \o q.msgs, t)

(* used_bytes and msg_qnum count exactly the queued messages, and a queue is
   overfull by less than one message: no sender that was woken for room that
   another one has taken meanwhile goes ahead. *)
Accounted ==
    LET sizes == [i \in DOMAIN q.msgs |-> q.msgs[i].msize]
    IN  /\ q.used_bytes = FoldSeq(+, 0, sizes) /\ q.msg_qnum = Len(q.msgs)
        /\ \A n \in Sizes : (\A k \in Sizes : k <= n) => q.used_bytes < msg_qbytes + n

(* p is the only one of its side that ever waited on this queue; the others
   have found what they needed, or have not asked to wait. *)
OnlyWaiter(p, side) == waited \cap side = {p}

(* A waiting process that could go on has a token to go on with, although it
   uses up the tokens of messages it did not ask for, and although others send
   and receive without waiting.  It is promised to the only receiver and to the
   only sender that wait, see MatchWakesReceiver. *)
NoLostWakeup ==
    \A p \in Waiting :
        /\ OnlyWaiter(p, Receivers) /\ Matches(call[p].rtype) # {} => q.rwaitsem > 0
        /\ OnlyWaiter(p, Senders) /\ ~Full => q.swaitsem > 0

(* "Wake up any processes blocking on the queue" (_sys_msgsnd): msgrcv does not
   sleep for ever beside a message that it asked for. *)
MatchWakesReceiver ==
    \A p \in Receivers :
        (p \in Waiting /\ Matches(call[p].rtype) # {})
            ~> (p \notin Waiting \/ Matches(call[p].rtype) = {})

(* msgsnd does not sleep for ever beside a queue with room, if no other sender
   ever waits on it. *)
RoomWakesSender ==
    LET BesideRoom == \E p \in Waiting : OnlyWaiter(p, Senders) /\ ~Full
    IN  BesideRoom ~> ~BesideRoom

(* A removed queue whose references are the processes that wait on it is freed
   in the end, by the last of them: IPC_RMID gets them all out of their waits,
   senders and receivers.  With references too few, see NoStaleWaiter, it is
   freed under those who wait, or never. *)
RemovalWakesAll == (q.del /\ q.refs = Cardinality(Waiting)) ~> ~Alive

(* A process that waits holds the queue: it is not freed under it. *)
NoStaleWaiter == \A p \in Procs : call[p].on # 0 => call[p].on = q.id

=============================================================================
