------------------------------- MODULE SemSet -------------------------------
(***************************************************************************)
(* kernel/svipc/sem.c: a System V semaphore set and the processes that     *)
(* operate on it, create and remove it.                                    *)
(*                                                                         *)
(* semop is atomic up to its wait for nwaitsem or zwaitsem; a wake-up takes *)
(* the token and runs on in the same step.  A call that still cannot       *)
(* proceed first uses up every token there is.  Semaphores and operations  *)
(* are numbered from 1.  The caller's permissions are left out: a refused  *)
(* call changes nothing.                                                   *)
(*                                                                         *)
(* Callers may name semaphores that the set does not have, and may wait at *)
(* a position of their list that lies behind the array of semaphores.  The *)
(* counters there are memory of somebody else: the model keeps them apart  *)
(* and says nothing about their owner.                                     *)
(***************************************************************************)
EXTENDS Integers, Sequences, FiniteSets, SequencesExt

CONSTANTS Procs,
          nsems,      \* semaphores in the set
          OpLists,    \* sops arguments: sequences of [num, op, nowait]
          SetValues,  \* values for SETVAL and SETALL
          Range16,    \* values of an unsigned short (65536)
          Flood,      \* tokens that IPC_RMID adds (999999)
          Removable,  \* whether anyone removes the set
          MaxId,      \* bounds: sets created,
          MaxTokens   \* and the tokens at which no new call is made

Sems == 1..nsems
SemBuf == [num : Int, op : Int, nowait : BOOLEAN]
(* Where the waits are counted: the array and what the lists reach behind it. *)
Slots == Sems \cup UNION {DOMAIN ops : ops \in OpLists}

ASSUME SemAssumption ==
    /\ nsems \in Nat \ {0} /\ OpLists \subseteq Seq(SemBuf) /\ SetValues \subseteq Nat
    /\ Range16 \in Nat \ {0} /\ Flood \in Nat /\ Removable \in BOOLEAN
    /\ MaxId \in Nat /\ MaxTokens \in Nat

VARIABLES set,         \* the set's sem_info_t; id = None when there is none
          sem_id_ctr,
          call,        \* the wait a process is suspended in
          failed,      \* the list on which a kernel assertion has failed
          regular      \* history: how this set has been used, see Regular

vars == <<set, sem_id_ctr, call, failed, regular>>

None == -1
NoCall == [on |-> None]
NoSet == [id |-> None, del |-> FALSE, refs |-> 0, nwaitsem |-> 0, zwaitsem |-> 0,
          semval |-> [s \in Sems |-> 0],
          semncnt |-> [s \in Slots |-> 0], semzcnt |-> [s \in Slots |-> 0]]
Alive == set.id # None
(* Processes that are suspended on the semaphores of the set. *)
Waiting == {p \in Procs : Alive /\ call[p].on = set.id}

halted == failed # <<>>

Returns(p) == call' = [call EXCEPT ![p] = NoCall]

Init == /\ set = NoSet /\ sem_id_ctr = 0 /\ failed = <<>> /\ regular = TRUE
        /\ call = [p \in Procs |-> NoCall]

----------------------------------------------------------------------------
checkblock_int(r, o) == \/ o.op = 0 /\ r.semval[o.num] # 0
                        \/ o.op < 0 /\ r.semval[o.num] < -o.op

(* The operations at which the loop stops, because checkblock_int fails its
   assertion on the number or because they block; it stops at the first. *)
Blocking(r, ops) == {n \in DOMAIN ops : ops[n].num \in Sems => checkblock_int(r, ops[n])}
nblock(r, ops) == Min(Blocking(r, ops))

(* assert() stops the machine; what it leaves behind is not looked at. *)
Halt(ops) == failed' = ops /\ UNCHANGED <<set, call>>

(* Mutant: one waiter is woken, not all of them. *)
_sys_semop_int_one(r, o) ==
    IF ~r.ok \/ checkblock_int(r, o) THEN [r EXCEPT !.ok = FALSE]
    ELSE LET v == (r.semval[o.num] + o.op) % Range16 IN
         [r EXCEPT !.semval[o.num] = v,
                   !.nwaitsem = @ + (IF o.op > 0 /\ r.semncnt[o.num] > 0 THEN 1 ELSE 0),
                   !.zwaitsem = @ + (IF o.op < 0 /\ v = 0 /\ r.semzcnt[o.num] > 0
                                     THEN 1 ELSE 0)]

(* Mutant: a semaphore that becomes zero wakes nobody. *)
_sys_semop_int_silent(r, o) ==
    IF ~r.ok \/ checkblock_int(r, o) THEN [r EXCEPT !.ok = FALSE]
    ELSE [r EXCEPT !.semval[o.num] = (@ + o.op) % Range16,
                   !.nwaitsem = @ + (IF o.op > 0 THEN r.semncnt[o.num] ELSE 0)]

(* One operation; ok tells that no assertion has failed: they say that the
   operation does not block. *)
_sys_semop_int(r, o) ==
    IF ~r.ok \/ checkblock_int(r, o) THEN [r EXCEPT !.ok = FALSE]
    ELSE LET v == (r.semval[o.num] + o.op) % Range16 IN
         [r EXCEPT !.semval[o.num] = v,
                   !.wrapped = @ \/ r.semval[o.num] + o.op >= Range16,
                   !.nwaitsem = @ + (IF o.op > 0 THEN r.semncnt[o.num] ELSE 0),
                   !.zwaitsem = @ + (IF o.op < 0 /\ v = 0 THEN r.semzcnt[o.num] ELSE 0)]

(* All of them, in order, on the set r, and the return from semop. *)
Perform(p, ops, r) ==
    LET start == [ok |-> TRUE, wrapped |-> FALSE, semval |-> r.semval,
                  nwaitsem |-> r.nwaitsem, zwaitsem |-> r.zwaitsem,
                  semncnt |-> r.semncnt, semzcnt |-> r.semzcnt]
    IN  \E end \in {FoldLeft(_sys_semop_int, start, ops)} :
            /\ IF end.ok
               THEN /\ set' = [r EXCEPT !.semval = end.semval, !.nwaitsem = end.nwaitsem,
                                        !.zwaitsem = end.zwaitsem, !.refs = @ - 1]
                    /\ Returns(p)
                    /\ UNCHANGED failed
               ELSE Halt(ops)
            /\ regular' = (regular /\ ~end.wrapped)

(* Mutant: the waiter is not counted. *)
Block_uncounted(p, ops, r, n) ==
    LET z == ops[n].op = 0
    IN  /\ set' = IF z THEN [r EXCEPT !.zwaitsem = 0] ELSE [r EXCEPT !.nwaitsem = 0]
        /\ call' = [call EXCEPT ![p] = [on |-> r.id, ops |-> ops, nblock |-> n, waitz |-> z]]
        /\ UNCHANGED <<failed, regular>>

(* The operation that a process waits for. *)
Awaited(p) == call[p].ops[call[p].nblock]

(* The processes that wait in one of the two ways wait for the same operation,
   and where _sys_semop_int looks for them: they are counted under the position
   of the operation in the list, and must be so under its semaphore. *)
Regular ==
    \A p, q \in Waiting :
        /\ Awaited(p).num = call[p].nblock
        /\ call[p].waitz = call[q].waitz => Awaited(p) = Awaited(q)

(* The wait for an operation that blocks.  It is counted in the semaphore whose
   number is the position of the operation in the list. *)
Block(p, ops, r, n) ==
    LET z == ops[n].op = 0
    IN  /\ set' = IF z THEN [r EXCEPT !.semzcnt[n] = @ + 1, !.zwaitsem = 0]
                       ELSE [r EXCEPT !.semncnt[n] = @ + 1, !.nwaitsem = 0]
        /\ call' = [call EXCEPT ![p] = [on |-> r.id, ops |-> ops, nblock |-> n, waitz |-> z]]
        /\ regular' = (regular /\ Regular')
        /\ UNCHANGED failed

(* The wait is over: the set without the count of p and without its token. *)
Uncounted(p, tokens) ==
    LET c == call[p] IN
    IF c.waitz THEN [set EXCEPT !.semzcnt[c.nblock] = @ - 1, !.zwaitsem = @ - tokens]
               ELSE [set EXCEPT !.semncnt[c.nblock] = @ - 1, !.nwaitsem = @ - tokens]

(* Mutant: the reference is dropped, but the last one does not delete the set. *)
DropReference_kept(p, r) ==
    /\ set' = [r EXCEPT !.refs = @ - 1]
    /\ Returns(p)
    /\ UNCHANGED <<failed, regular>>

(* A wait that failed drops the reference; the last one deletes the set. *)
DropReference(p, r) ==
    /\ set' = IF r.del /\ r.refs = 1 THEN NoSet ELSE [r EXCEPT !.refs = @ - 1]
    /\ Returns(p)
    /\ UNCHANGED <<failed, regular>>

(* The loop of semop: the checks of all operations, then a wait or, with
   nothing to wait for, the operations. *)
Try(p, ops, r) ==
    \/ /\ Blocking(r, ops) = {}
       /\ Perform(p, ops, r)
    \/ /\ Blocking(r, ops) # {}
       /\ \E n \in {nblock(r, ops)} :
          \/ /\ ops[n].num \notin Sems
             /\ Halt(ops)
             /\ UNCHANGED regular
          \/ /\ ops[n].num \in Sems
             /\ IF ops[n].nowait THEN DropReference(p, r)  \* EAGAIN
                                 ELSE Block(p, ops, r, n)

_sys_semop(p, ops) ==
    /\ Alive /\ ~halted /\ call[p] = NoCall
    /\ set.nwaitsem <= MaxTokens /\ set.zwaitsem <= MaxTokens
    /\ \/ /\ set.del
          /\ Returns(p)  \* EIDRM
          /\ UNCHANGED <<set, failed, regular>>
       \/ /\ ~set.del
          /\ Try(p, ops, [set EXCEPT !.refs = @ + 1])
    /\ UNCHANGED sem_id_ctr

(* Mutant: a woken call does not look again whether it may proceed. *)
SemopResumes_unchecked(p) ==
    /\ p \in Waiting /\ ~halted
    /\ (IF call[p].waitz THEN set.zwaitsem ELSE set.nwaitsem) > 0
    /\ LET r == Uncounted(p, 1) IN
       \/ /\ set.del
          /\ DropReference(p, r)  \* EIDRM
       \/ /\ ~set.del
          /\ Perform(p, call[p].ops, r)
    /\ UNCHANGED sem_id_ctr

SemopResumes(p) ==
    /\ p \in Waiting /\ ~halted
    /\ (IF call[p].waitz THEN set.zwaitsem ELSE set.nwaitsem) > 0
    /\ \E r \in {Uncounted(p, 1)} :
       \/ /\ set.del
          /\ DropReference(p, r)  \* EIDRM
       \/ /\ ~set.del
          /\ Try(p, call[p].ops, r)
    /\ UNCHANGED sem_id_ctr

Interrupted(p) ==
    /\ p \in Waiting /\ ~halted
    /\ DropReference(p, Uncounted(p, 0))  \* EINTR
    /\ UNCHANGED sem_id_ctr

----------------------------------------------------------------------------
(* _sys_semget that does not find the key. *)
_sys_semget ==
    /\ ~Alive /\ sem_id_ctr < MaxId
    /\ set' = [NoSet EXCEPT !.id = sem_id_ctr]
    /\ sem_id_ctr' = sem_id_ctr + 1
    /\ regular' = TRUE
    /\ UNCHANGED <<call, failed>>

(* _sys_semctl(SETVAL) and (SETALL): no waiting process is woken.  The check of
   semnum lets the one behind the last semaphore pass, which is not in the set. *)
SETVAL(s, v) ==
    /\ Alive /\ ~halted
    /\ set' = IF s \in Sems THEN [set EXCEPT !.semval[s] = v % Range16] ELSE set
    /\ regular' = (regular /\ (Waiting = {} \/ s \notin Sems))
    /\ UNCHANGED <<sem_id_ctr, call, failed>>

SETALL(v) ==
    /\ Alive /\ ~halted
    /\ set' = [set EXCEPT !.semval = [s \in Sems |-> v % Range16]]
    /\ regular' = (regular /\ Waiting = {})
    /\ UNCHANGED <<sem_id_ctr, call, failed>>

(* Mutant: only those that wait for a larger value are woken. *)
IPC_RMID_nwait ==
    /\ Removable /\ Alive /\ ~halted
    /\ set.nwaitsem < Flood /\ set.zwaitsem < Flood
    /\ set' = IF set.refs = 0 THEN NoSet ELSE [set EXCEPT !.del = TRUE, !.nwaitsem = @ + Flood]
    /\ UNCHANGED <<sem_id_ctr, call, failed, regular>>

(* _sys_semctl(IPC_RMID): delete at once, or leave it to the last waiter. *)
IPC_RMID ==
    /\ Removable /\ Alive /\ ~halted
    /\ set.nwaitsem < Flood /\ set.zwaitsem < Flood
    /\ set' = IF set.refs = 0 THEN NoSet
              ELSE [set EXCEPT !.del = TRUE, !.nwaitsem = @ + Flood, !.zwaitsem = @ + Flood]
    /\ UNCHANGED <<sem_id_ctr, call, failed, regular>>

Next == \/ _sys_semget \/ IPC_RMID
        \/ \E s \in 1..(nsems + 1), v \in SetValues : SETVAL(s, v)
        \/ \E v \in SetValues : SETALL(v)
        \/ \E p \in Procs : \/ \E ops \in OpLists : _sys_semop(p, ops)
                            \/ SemopResumes(p)
                            \/ Interrupted(p)

Spec == Init /\ [][Next]_vars

(* A token that stays is taken by a task that keeps waiting for it. *)
FairSpec == Spec /\ \A p \in Procs : WF_vars(SemopResumes(p))

----------------------------------------------------------------------------
Shorts == 0..(Range16 - 1)

TypeOK ==
    /\ set \in [id : Int, del : BOOLEAN, refs : Int, nwaitsem : Nat, zwaitsem : Nat,
                semval : [Sems -> Shorts], semncnt : [Slots -> Nat], semzcnt : [Slots -> Nat]]
    /\ sem_id_ctr \in 0..MaxId /\ failed \in OpLists \cup {<<>>} /\ regular \in BOOLEAN
    /\ \A p \in Procs : call[p].on \in Int

(* A list whose operations are on semaphores of the set, each on another. *)
Proper(ops) == /\ \A n \in DOMAIN ops : ops[n].num \in Sems
               /\ \A n, m \in DOMAIN ops : ops[n].num = ops[m].num => n = m

(* The assertions of checkblock_int and _sys_semop_int hold for every proper
   list: what the checks found of all its operations is still so when each is
   carried out, whatever others, with proper lists or not, did while it waited.
   A list with a number beyond the set fails sem.c:75, and one that takes twice
   from a semaphore can fail sem.c:102. *)
AssertsHold == halted => ~Proper(failed)

(* The references are exactly the processes that wait, and each of them is
   counted once: so a set is not freed under a process, a removed set is freed
   by the last one to leave, and the next set starts with nobody waiting. *)
HeldByWaiters ==
    /\ set.refs = Cardinality(Waiting)
    /\ set.del => Waiting # {}
    /\ \A p \in Procs : call[p].on # None => p \in Waiting
    /\ FoldSeq(+, 0, set.semncnt) + FoldSeq(+, 0, set.semzcnt) = Cardinality(Waiting)

(* p sleeps although its operations could be carried out, on a set that was
   always regular, that no value was set of while processes waited, and none
   of whose values has wrapped round. *)
Possible(p) == regular /\ ~halted /\ p \in Waiting /\ Blocking(set, call[p].ops) = {}

(* A waiting process whose operations could be carried out has a token: as many
   are added as wait, and those that are interrupted, go back to sleep or run
   on with the other kind of wait leave enough.  Outside of regular use it is
   not so: the waits of the whole set share two counters. *)
NoLostWakeup ==
    \A p \in Procs :
        Possible(p) => (IF call[p].waitz THEN set.zwaitsem ELSE set.nwaitsem) > 0

(* In regular use semop does not sleep for ever while its operations could be
   carried out. *)
PossibleSemopReturns == \A p \in Procs : Possible(p) ~> ~Possible(p)

(* A removed set is freed in the end, by the last process to leave it: IPC_RMID
   gets all that wait out of their waits, however the set was used before. *)
RemovalWakesAll == set.del ~> ~Alive

=============================================================================
