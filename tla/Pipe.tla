-------------------------------- MODULE Pipe --------------------------------
(***************************************************************************)
(* kernel/pipe.c: the byte buffer behind pipes, FIFOs and terminal input.  *)
(*                                                                         *)
(* pipe_read and pipe_write run atomically up to the point where they wait *)
(* for a token of read_lock or write_lock.  The scheduler takes the token  *)
(* and resumes the waiting task in one step (see Scheduler), so a wake-up  *)
(* is one action too.  A wait may also end with a signal (EINTR).          *)
(*                                                                         *)
(* The i-th byte of a message of n bytes of process p is <<p, n, i>>.      *)
(* received records the bytes copied out of the buffer and sent those      *)
(* copied into it, less the ones that a read of no bytes has thrown away.  *)
(* pipe_write never reduces count: a message of more than Size bytes is    *)
(* copied in turns that may run past the end of the caller's buffer.       *)
(***************************************************************************)
EXTENDS Naturals, Sequences, FiniteSets

CONSTANTS Readers, Writers,   \* processes that may open either end
          Size,               \* CONFIG_PIPE_BUFFER_SIZE
          ReadCounts, WriteCounts,   \* byte counts that callers ask for
          Junk,               \* whatever lies behind a caller's buffer
          MaxCalls            \* bound: number of calls

ASSUME PipeAssumption ==
    /\ Size \in Nat \ {0} /\ ReadCounts \subseteq Nat /\ WriteCounts \subseteq Nat
    /\ MaxCalls \in Nat /\ Readers \cap Writers = {}

VARIABLES buffer,             \* contents of pipe->buffer, offset 0 first
          read_ptr, write_ptr,
          read_lock, write_lock,
          open_read, open_write,  \* who holds an end: the usage counts
          call,               \* the call a process is suspended in
          calls, sent, received,
          waited              \* history: who has entered semaphore_ndown

lock_vars == <<read_lock, write_lock>>
ends == <<open_read, open_write>>
vars == <<buffer, read_ptr, write_ptr, lock_vars, ends, call, calls, sent,
          received, waited>>

Procs == Readers \cup Writers
Statuses == {"OK", "EOF", "EAGAIN", "EPIPE", "EINTR"}
NoCall == [n |-> 0, pos |-> 0, active |-> FALSE]
Call(n, pos) == [n |-> n, pos |-> pos, active |-> TRUE]
Least(i, j) == IF i < j THEN i ELSE j

read_usage_count == Cardinality(open_read)
write_usage_count == Cardinality(open_write)
Avail == write_ptr - read_ptr
Room == Size - write_ptr
Taken(n) == [i \in 1..n |-> buffer[read_ptr + i]]

(* The status a call returns with is named here and not kept. *)
Returns(p, status) == status \in Statuses /\ call' = [call EXCEPT ![p] = NoCall]
Suspends(p, n, pos) == call' = [call EXCEPT ![p] = Call(n, pos)]

Reset == read_ptr' = 0 /\ write_ptr' = 0 /\ UNCHANGED buffer

(* Mutant: the remaining bytes are moved with the pointers left alone. *)
Shift_unmoved(from) ==
    /\ UNCHANGED buffer
    /\ read_ptr' = 0 /\ write_ptr' = write_ptr - from

(* Mutant: read_ptr is not set back. *)
Shift_unreset(from) ==
    /\ buffer' = [i \in 1..Size |-> IF from + i <= write_ptr THEN buffer[from + i]
                                    ELSE buffer[i]]
    /\ read_ptr' = from /\ write_ptr' = write_ptr - from

(* memcpy_o through a bounce buffer: the unread bytes move to the front. *)
Shift(from) ==
    /\ buffer' = [i \in 1..Size |-> IF from + i <= write_ptr THEN buffer[from + i]
                                    ELSE buffer[i]]
    /\ read_ptr' = 0 /\ write_ptr' = write_ptr - from

(* Mutant: a read that leaves bytes behind wakes no writer. *)
TakeBytes_silent(p, n, tokens) ==
    LET k == Least(Avail, n)
    IN  /\ k > 0
        /\ \/ /\ k = Avail /\ Reset
              /\ write_lock' = write_lock + 1
           \/ /\ k < Avail /\ Shift(read_ptr + k)
              /\ UNCHANGED write_lock
        /\ received' = received \o Taken(k)
        /\ read_lock' = tokens
        /\ Returns(p, "OK")
        /\ UNCHANGED <<sent, waited>>

(* pipe_read with bytes to read.  When some stay behind, the shift needs
   memory, and without it the call returns with the pointers advanced. *)
TakeBytes(p, n, tokens) ==
    LET k == Least(Avail, n)
    IN  /\ k > 0
        /\ \/ /\ k = Avail /\ Reset
              /\ write_lock' = write_lock + 1
           \/ /\ k < Avail /\ Shift(read_ptr + k)
              /\ write_lock' = write_lock + 1
           \/ /\ k < Avail /\ read_ptr' = read_ptr + k
              /\ UNCHANGED <<buffer, write_ptr, write_lock>>
        /\ received' = received \o Taken(k)
        /\ read_lock' = tokens
        /\ Returns(p, "OK")
        /\ UNCHANGED <<sent, waited>>

(* semaphore_ndown is entered unless the caller asked not to block. *)
Waits(p, non_block) == waited' = IF non_block THEN waited ELSE waited \cup {p}

(* pipe_read with nothing to copy: the pointers are reset.  A read of no bytes
   comes here too, whatever is queued, and so throws the queued bytes away.
   While there are writers the loop uses up every token of read_lock, raising
   write_lock each time, before it waits. *)
FindEmpty(p, n, tokens, non_block) ==
    /\ Least(Avail, n) = 0
    /\ Reset
    /\ \/ /\ non_block
          /\ write_lock' = write_lock + 1 /\ read_lock' = tokens
          /\ Returns(p, IF write_usage_count # 0 THEN "EAGAIN" ELSE "EOF")
       \/ /\ ~non_block /\ write_usage_count # 0
          /\ write_lock' = write_lock + 1 + tokens /\ read_lock' = 0
          /\ Suspends(p, n, 0)
       \/ /\ ~non_block /\ write_usage_count = 0 /\ tokens > 0
          /\ write_lock' = write_lock + 1 /\ read_lock' = tokens - 1
          /\ Returns(p, "EOF")
       \/ /\ ~non_block /\ write_usage_count = 0 /\ tokens = 0
          /\ write_lock' = write_lock + 1 /\ read_lock' = 0
          /\ Suspends(p, n, 0)
    /\ sent' = IF n = 0 THEN received ELSE sent
    /\ Waits(p, non_block)
    /\ UNCHANGED received

pipe_read(p, n, non_block) ==
    /\ p \in open_read /\ ~call[p].active /\ calls < MaxCalls
    /\ calls' = calls + 1
    /\ TakeBytes(p, n, read_lock) \/ FindEmpty(p, n, read_lock, non_block)
    /\ UNCHANGED ends

(* semaphore_ndown in pipe_read is granted a token. *)
ReaderResumes(p) ==
    LET n == call[p].n IN
    /\ p \in open_read /\ call[p].active /\ read_lock > 0
    /\ \/ /\ Avail # 0 \/ write_usage_count # 0
          /\ \/ TakeBytes(p, n, read_lock - 1)
             \/ FindEmpty(p, n, read_lock - 1, FALSE)
       \/ /\ Avail = 0 /\ write_usage_count = 0
          /\ read_lock' = read_lock - 1
          /\ Returns(p, "EOF")
          /\ UNCHANGED <<buffer, read_ptr, write_ptr, write_lock, sent, received, waited>>
    /\ UNCHANGED <<ends, calls>>

----------------------------------------------------------------------------
(* The bytes pos+1 .. pos+k of the caller's buffer of n bytes. *)
UserBytes(p, n, pos, k) == [i \in 1..k |-> IF pos + i <= n THEN <<p, n, pos + i>> ELSE Junk]

(* Mutant: room is compared with the buffer size only. *)
MustWait_partial(n) == Room = 0

(* A write of at most Size bytes waits until it fits as a whole; one of no
   bytes finds no room, whatever there is. *)
MustWait(n) == LET turn == Least(Room, n)
               IN  turn = 0 \/ (turn < n /\ n <= Size)

(* pipe_write without room: every token of write_lock is used up first. *)
NoRoom(p, n, pos, tokens, non_block) ==
    /\ Waits(p, non_block)
    /\ \/ /\ non_block /\ write_lock' = tokens
          /\ Returns(p, IF read_usage_count # 0 THEN "EAGAIN" ELSE "EPIPE")
       \/ /\ ~non_block /\ read_usage_count # 0
          /\ write_lock' = 0
          /\ Suspends(p, n, pos)
       \/ /\ ~non_block /\ read_usage_count = 0 /\ tokens > 0
          /\ write_lock' = tokens - 1
          /\ Returns(p, "EPIPE")
       \/ /\ ~non_block /\ read_usage_count = 0 /\ tokens = 0
          /\ write_lock' = 0
          /\ Suspends(p, n, pos)


UpReadLock == read_lock' = read_lock + 1

(* current_pos after k more bytes; past the end of the caller's buffer, where
   the loop no longer ends, it is not told how far. *)
Advance(pos, k, n) == Least(pos + k, n + 1)

(* One turn of the loop in pipe_write.  Only a write of more than Size bytes
   needs another, and the first one then leaves the buffer full. *)
PutBytes(p, n, pos, tokens, non_block) ==
    LET k == Least(Room, n)
        bytes == UserBytes(p, n, pos, k)
    IN  \/ /\ MustWait(n)
           /\ NoRoom(p, n, pos, tokens, non_block)
           /\ UNCHANGED <<buffer, read_ptr, write_ptr, read_lock, sent, received>>
        \/ /\ ~MustWait(n)
           /\ buffer' = [i \in 1..Size |-> IF i \in (write_ptr + 1)..(write_ptr + k)
                                           THEN bytes[i - write_ptr] ELSE buffer[i]]
           /\ write_ptr' = write_ptr + k
           /\ UpReadLock
           /\ sent' = sent \o bytes
           /\ IF pos + k = n
              THEN write_lock' = tokens /\ Returns(p, "OK") /\ UNCHANGED waited
              ELSE NoRoom(p, n, Advance(pos, k, n), tokens, non_block)
           /\ UNCHANGED <<read_ptr, received>>

pipe_write(p, n, non_block) ==
    /\ p \in open_write /\ ~call[p].active /\ calls < MaxCalls
    /\ calls' = calls + 1
    /\ PutBytes(p, n, 0, write_lock, non_block)
    /\ UNCHANGED ends

(* semaphore_ndown in pipe_write is granted a token. *)
WriterResumes(p) ==
    /\ p \in open_write /\ call[p].active /\ write_lock > 0
    /\ \/ /\ read_usage_count # 0
          /\ PutBytes(p, call[p].n, call[p].pos, write_lock - 1, FALSE)
       \/ /\ read_usage_count = 0
          /\ write_lock' = write_lock - 1
          /\ Returns(p, "EPIPE")
          /\ UNCHANGED <<buffer, read_ptr, write_ptr, read_lock, sent, received, waited>>
    /\ UNCHANGED <<ends, calls>>

(* A signal ends the wait. *)
Interrupted(p) ==
    /\ call[p].active
    /\ Returns(p, "EINTR")
    /\ UNCHANGED <<buffer, read_ptr, write_ptr, lock_vars, ends, calls, sent, received,
                   waited>>

----------------------------------------------------------------------------
pipe_open_read(p) ==
    /\ p \in Readers \ open_read /\ calls < MaxCalls
    /\ open_read' = open_read \cup {p}
    /\ calls' = calls + 1
    /\ UNCHANGED <<buffer, read_ptr, write_ptr, lock_vars, open_write, call, sent,
                   received, waited>>

pipe_open_write(p) ==
    /\ p \in Writers \ open_write /\ calls < MaxCalls
    /\ open_write' = open_write \cup {p}
    /\ calls' = calls + 1
    /\ UNCHANGED <<buffer, read_ptr, write_ptr, lock_vars, open_read, call, sent,
                   received, waited>>

(* The last reader to close an end raises the other end's lock, once. *)
pipe_close_read(p) ==
    /\ p \in open_read /\ ~call[p].active /\ calls < MaxCalls
    /\ calls' = calls + 1
    /\ open_read' = open_read \ {p}
    /\ write_lock' = write_lock + (IF open_read = {p} THEN 1 ELSE 0)
    /\ UNCHANGED <<buffer, read_ptr, write_ptr, read_lock, open_write, call,
                   sent, received, waited>>

pipe_close_write(p) ==
    /\ p \in open_write /\ ~call[p].active /\ calls < MaxCalls
    /\ calls' = calls + 1
    /\ open_write' = open_write \ {p}
    /\ read_lock' = read_lock + (IF open_write = {p} THEN 1 ELSE 0)
    /\ UNCHANGED <<buffer, read_ptr, write_ptr, write_lock, open_read, call,
                   sent, received, waited>>

(* A new pipe that some of its processes have opened. *)
Init ==
    /\ buffer = [i \in 1..Size |-> Junk]
    /\ read_ptr = 0 /\ write_ptr = 0
    /\ read_lock = 0 /\ write_lock = 0
    /\ open_read \in SUBSET Readers /\ open_write \in SUBSET Writers
    /\ call = [p \in Procs |-> NoCall]
    /\ calls = 0 /\ sent = <<>> /\ received = <<>> /\ waited = {}

Next ==
    \/ \E p \in Readers : \/ \E n \in ReadCounts, nb \in BOOLEAN : pipe_read(p, n, nb)
                          \/ ReaderResumes(p)
                          \/ pipe_open_read(p) \/ pipe_close_read(p)
    \/ \E p \in Writers : \/ \E n \in WriteCounts, nb \in BOOLEAN : pipe_write(p, n, nb)
                          \/ WriterResumes(p)
                          \/ pipe_open_write(p) \/ pipe_close_write(p)
    \/ \E p \in Procs : Interrupted(p)

Spec == Init /\ [][Next]_vars

(* The scheduler polls every waiting task in turn: a token that stays is
   taken. *)
FairSpec == /\ Spec
            /\ \A p \in Readers : WF_vars(ReaderResumes(p))
            /\ \A p \in Writers : WF_vars(WriterResumes(p))

----------------------------------------------------------------------------
Bytes == (Writers \X WriteCounts \X (Nat \ {0})) \cup {Junk}

(* Read and write never leave the buffer: the pointers stay ordered. *)
TypeOK ==
    /\ buffer \in [1..Size -> Bytes]
    /\ read_ptr \in Nat /\ write_ptr \in Nat
    /\ read_ptr <= write_ptr /\ write_ptr <= Size
    /\ read_lock \in Nat /\ write_lock \in Nat
    /\ open_read \subseteq Readers /\ open_write \subseteq Writers
    /\ call \in [Procs -> [n : Nat, pos : Nat, active : BOOLEAN]]
    /\ calls \in Nat
    /\ sent \in Seq(Bytes) /\ received \in Seq(Bytes) /\ waited \subseteq Procs

(* Every byte that was written is delivered once and in order: what was
   received, followed by what the buffer holds, is what was sent.  The shift
   of pipe_read and its out-of-memory path keep it, with several readers and
   writers that wait, for messages that fit and for those that do not.  Only
   a read of no bytes loses what is queued, and sent leaves that out. *)
Fifo == sent = received \o Taken(Avail)

(* What enters the buffer in one turn: a message of at most Size bytes as a
   whole, a larger one in pieces that may run into what lies behind it. *)
Whole == {UserBytes(p, n, 0, n) : p \in Writers, n \in {m \in WriteCounts : m <= Size}}
Pieces == UNION {{UserBytes(p, n, pos, k) : pos \in 0..n, k \in 1..Size} :
                     p \in Writers, n \in {m \in WriteCounts : m > Size}}

(* pipe_read and pipe_write implement a bounded queue: messages of at most
   Size bytes enter it as a whole, however full it was and whoever else was
   writing, and reads take bytes from its front or, asking for none, empty it. *)
Channel == INSTANCE ByteChannel WITH Messages <- Whole \cup Pieces
ImplementsChannel == Channel!Spec

(* p is the only process of its side that ever waited; the others have used
   the pipe without blocking. *)
OnlyWaiter(p, side) == waited \cap side = {p}

(* A process that could go on has a token to go on with: a reader is not
   left waiting beside unread bytes, nor a writer beside room for all of its
   message, although others read and write in between.  It is promised to the
   only reader and to the only writer that wait: a read of some of the bytes
   raises no token for the next reader. *)
NoLostWakeup ==
    /\ \A p \in Readers :
           call[p].active /\ OnlyWaiter(p, Readers) /\ Avail > 0 => read_lock > 0
    /\ \A p \in Writers :
           call[p].active /\ OnlyWaiter(p, Writers) /\ ~MustWait(call[p].n) => write_lock > 0


=============================================================================
