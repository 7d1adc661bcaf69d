----------------------------- MODULE BlockCache -----------------------------
(***************************************************************************)
(* kernel/dev/blkdev.c and kernel/dev/blkcache.c: one block device behind  *)
(* its write-back cache.  read and write hold the lock of the device all   *)
(* the time, sync takes no lock.  Every call of the driver (ata.c, without *)
(* its ports) waits, for a lock of its own and for the disk: the disk gets *)
(* the data of a write at one moment (Transfer), the caller learns of it   *)
(* at a later one.  Between two waits a call is atomic; the lock of the    *)
(* cache is never held over a wait and is left out.                        *)
(***************************************************************************)
EXTENDS Integers, Sequences, FiniteSets, SequencesExt

CONSTANTS Procs, BlockSize, Blocks,   \* BlockSize bytes in each of Blocks blocks
          max_entries,
          Extents,                    \* <<file_offset, count>> of the calls
          Values                      \* bytes that are written

VARIABLES entries,     \* cache descriptors: offset, dirty flag and data
          block_list,  \* the list of those in use
          lock, call, disk, halted,
          latest,      \* history: the bytes last written, in the cache or not
          spoiled      \* history: the blocks whose fetch has failed

vars == <<entries, block_list, lock, call, disk, halted, latest, spoiled>>

Bytes == 0 .. Blocks * BlockSize - 1
Block(b) == b .. b + BlockSize - 1
Offsets == {x \in Bytes : x % BlockSize = 0}
Zeroes == [i \in 0 .. BlockSize - 1 |-> 0]
OnDisk(b) == [i \in 0 .. BlockSize - 1 |-> disk[b + i]]
Idle == [at |-> "idle"]

Init ==
    /\ entries = [e \in 1 .. max_entries |-> [offset |-> 0, dirty |-> FALSE, data |-> Zeroes]]
    /\ block_list = <<>> /\ lock = 1 /\ call = [p \in Procs |-> Idle]
    /\ disk = [x \in Bytes |-> 1] /\ latest = disk /\ halted = FALSE /\ spoiled = {}

----------------------------------------------------------------------------
(* The state s of a call between two waits, and the cache operations on it. *)
State(c) == [entries |-> entries, list |-> block_list, lock |-> lock, latest |-> latest,
             halted |-> FALSE, call |-> c]

Finds(s, off) == {e \in ToSet(s.list) : s.entries[e].offset = off}
blkcache_find(s, off) == CHOOSE e \in Finds(s, off) : TRUE
blkcache_get_discard_candidate(s) == Head(s.list)

Full(s) == Len(s.list) = max_entries

(* Mutant: the discarded block may be dirty. *)
CandidateDirty_never(s) == FALSE

CandidateDirty(s) == s.entries[blkcache_get_discard_candidate(s)].dirty

(* blkcache_get of a block that is not cached: a new descriptor or the memory of
   the discard candidate, at the end of the list and cleared. *)
blkcache_get(s, off) ==
    LET e == IF Full(s) THEN blkcache_get_discard_candidate(s) ELSE Len(s.list) + 1
    IN  [s EXCEPT !.list = Append(IF Full(s) THEN Tail(@) ELSE @, e),
                  !.entries[e] = [offset |-> off, dirty |-> FALSE, data |-> Zeroes]]

Return(s) == [s EXCEPT !.lock = @ + 1, !.call = Idle]

(* An error ends the call, too; what was copied so far stays. *)
Fail(s) == [s EXCEPT !.lock = @ + 1, !.call = Idle]

(* The chunk between the cache entry and the buffer of the caller. *)
CopyChunk(s, e, in_block, n) ==
    LET span == in_block .. in_block + n - 1
        off == s.entries[e].offset
        old == s.entries[e]
        new == [i \in 0 .. BlockSize - 1 |-> IF i \in span THEN s.call.val ELSE old.data[i]]
    IN  IF s.call.op = "read" THEN [s EXCEPT !.call.done = @ + n]
        ELSE [s EXCEPT !.call.done = @ + n,
                       !.entries[e] = [offset |-> off, dirty |-> TRUE, data |-> new],
                       !.latest = [x \in Bytes |-> IF x - off \in span THEN s.call.val ELSE @[x]]]

(* Mutant: the retry flushes the newest block. *)
FlushCandidate_last(s) ==
    LET e == Last(s.list)
    IN  [s EXCEPT !.call.at = "flush", !.call.ent = e, !.call.off = s.entries[e].offset]

(* device_block_flush of the discard candidate, up to the driver's wait. *)
FlushCandidate(s) ==
    LET e == blkcache_get_discard_candidate(s)
    IN  [s EXCEPT !.call.at = "flush", !.call.ent = e, !.call.off = s.entries[e].offset]

(* One turn of the loop of device_block_read or device_block_write: a cached
   block is copied, one that is replaced as a whole gets an entry without being
   read, any other is fetched.  A full cache whose candidate is dirty is flushed
   once, and must not be found so again. *)
Chunk(s, memory) ==
    LET c == s.call
        in_block == (c.pos + c.done) % BlockSize
        off == c.pos + c.done - in_block
        left == c.count - c.done
        n == IF left > BlockSize - in_block THEN BlockSize - in_block ELSE left
        got == blkcache_get(s, off)
    IN  CASE left = 0 -> Return(s)
          [] left > 0 /\ Finds(s, off) # {} ->
                CopyChunk([s EXCEPT !.call.flushed = FALSE], blkcache_find(s, off), in_block, n)
          [] left > 0 /\ Finds(s, off) = {} /\ ~Full(s) /\ ~memory -> Fail(s)
          [] left > 0 /\ Finds(s, off) = {} /\ Full(s) /\ CandidateDirty(s) ->
                IF c.flushed THEN [s EXCEPT !.halted = TRUE, !.call.at = "halted"]
                ELSE FlushCandidate(s)
          [] OTHER ->
                IF c.op = "write" /\ n = BlockSize
                THEN CopyChunk([got EXCEPT !.call.flushed = FALSE], Last(got.list), in_block, n)
                ELSE [got EXCEPT !.call.at = "fetch", !.call.ent = Last(got.list),
                                 !.call.off = off]

(* The loop, up to the next wait or to the end: the states it may end in, as
   memory for a new entry may or may not be found. *)
Continue(s) ==
    FoldLeft(LAMBDA states, i :
                UNION {IF x.call.at = "run" THEN {Chunk(x, memory) : memory \in BOOLEAN}
                       ELSE {x} : x \in states},
             {[s EXCEPT !.call.at = "run"]}, [i \in 1 .. Blocks + 1 |-> i])

Becomes(p, s) ==
    /\ entries' = s.entries /\ block_list' = s.list /\ lock' = s.lock
    /\ latest' = s.latest /\ halted' = s.halted
    /\ call' = [call EXCEPT ![p] = s.call]

----------------------------------------------------------------------------
(* device_block_read and device_block_write, waiting for the device. *)
Call(p, op, x, v) ==
    /\ call[p] = Idle
    /\ call' = [call EXCEPT ![p] = [at |-> "lock", op |-> op, pos |-> x[1], count |-> x[2],
                                    val |-> v, done |-> 0, flushed |-> FALSE,
                                    ent |-> 0, off |-> 0, sent |-> FALSE]]
    /\ UNCHANGED <<entries, block_list, lock, disk, halted, latest, spoiled>>

(* Mutant: a caller does not wait for the device. *)
Locks_unlocked(p) ==
    /\ call[p].at = "lock"
    /\ \E s \in Continue(State(call[p])) : Becomes(p, s)
    /\ UNCHANGED <<disk, spoiled>>

Locks(p) ==
    /\ call[p].at = "lock" /\ lock = 1
    /\ \E s \in Continue([State(call[p]) EXCEPT !.lock = 0]) : Becomes(p, s)
    /\ UNCHANGED <<disk, spoiled>>

(* The lock of the driver: from the transfer to the return of one call no other
   call has anything done. *)
DriverFree == \A q \in Procs : call[q].at \in {"flush", "sync"} => ~call[q].sent

(* ata_write hands the data to the disk: what the entry holds at that time. *)
Transfer(p) ==
    LET c == call[p] IN
    /\ c.at \in {"flush", "sync"} /\ ~c.sent /\ DriverFree
    /\ disk' = [x \in Bytes |-> IF x \in Block(c.off) THEN entries[c.ent].data[x - c.off]
                                ELSE disk[x]]
    /\ call' = [call EXCEPT ![p].sent = TRUE]
    /\ UNCHANGED <<entries, block_list, lock, halted, latest, spoiled>>

(* Mutant: the entry stays dirty and is flushed again. *)
Flushed_again(p) ==
    LET c == call[p] IN
    /\ c.at = "flush" /\ c.sent
    /\ \E s \in Continue(State([c EXCEPT !.sent = FALSE])) : Becomes(p, s)
    /\ UNCHANGED <<disk, spoiled>>

Flushed(p) ==
    LET c == call[p] IN
    /\ c.at = "flush" /\ c.sent
    /\ \E s \in Continue([State([c EXCEPT !.sent = FALSE, !.flushed = TRUE])
                           EXCEPT !.entries[c.ent].dirty = FALSE]) : Becomes(p, s)
    /\ UNCHANGED <<disk, spoiled>>

(* Mutant: the flag is cleared whatever the driver says. *)
FlushFails_clean(p) ==
    LET c == call[p] IN
    /\ c.at = "flush" /\ ~c.sent /\ DriverFree
    /\ Becomes(p, Fail([State(c) EXCEPT !.entries[c.ent].dirty = FALSE]))
    /\ UNCHANGED <<disk, spoiled>>

FlushFails(p) ==
    /\ call[p].at = "flush" /\ ~call[p].sent /\ DriverFree
    /\ Becomes(p, Fail(State(call[p])))
    /\ UNCHANGED <<disk, spoiled>>

Fetched(p) ==
    LET c == call[p] IN
    /\ c.at = "fetch" /\ DriverFree
    /\ \E s \in Continue([State(c) EXCEPT !.entries[c.ent].data = OnDisk(c.off)]) :
            Becomes(p, s)
    /\ UNCHANGED <<disk, spoiled>>

(* A read that fails leaves its entry in the cache, clean and full of zeroes. *)
FetchFails(p) ==
    /\ call[p].at = "fetch" /\ DriverFree
    /\ spoiled' = spoiled \cup {call[p].off}
    /\ Becomes(p, Fail(State(call[p])))
    /\ UNCHANGED disk

----------------------------------------------------------------------------
(* sync: device_block_flush_all writes the first dirty block of the list until
   there is none.  The offset is read at the call of the driver. *)
Dirty(es) == SelectSeq(block_list, LAMBDA e : es[e].dirty)

FlushNext(p, es) ==
    /\ entries' = es
    /\ call' = [call EXCEPT ![p] =
                    IF Dirty(es) = <<>> THEN Idle
                    ELSE LET e == Head(Dirty(es))
                         IN  [at |-> "sync", ent |-> e, off |-> es[e].offset, sent |-> FALSE]]
    /\ UNCHANGED <<block_list, lock, disk, halted, latest, spoiled>>

Sync(p) == call[p] = Idle /\ FlushNext(p, entries)
SyncFlushed(p) ==
    /\ call[p].at = "sync" /\ call[p].sent
    /\ FlushNext(p, [entries EXCEPT ![call[p].ent].dirty = FALSE])
SyncFails(p) ==
    /\ call[p].at = "sync" /\ ~call[p].sent /\ DriverFree
    /\ call' = [call EXCEPT ![p] = Idle]
    /\ UNCHANGED <<entries, block_list, lock, disk, halted, latest, spoiled>>

----------------------------------------------------------------------------
Driver(p) ==
    Transfer(p) \/ Flushed(p) \/ FlushFails(p) \/ Fetched(p) \/ FetchFails(p)

Next ==
    \E p \in Procs :
        \/ \E x \in Extents : Call(p, "read", x, 0) \/ \E v \in Values : Call(p, "write", x, v)
        \/ Locks(p) \/ Driver(p)

Syncing == \E p \in Procs : Sync(p) \/ SyncFlushed(p) \/ SyncFails(p)

Spec == Init /\ [][Next]_vars /\ \A p \in Procs : WF_vars(Driver(p))
SyncSpec == Init /\ [][Next \/ Syncing]_vars

----------------------------------------------------------------------------
Entry == [offset : Offsets, dirty : BOOLEAN, data : [0 .. BlockSize - 1 -> Values \cup {0, 1}]]

(* The types; the lock of the device counts its holder. *)
TypeOK ==
    /\ entries \in [1 .. max_entries -> Entry]
    /\ Len(block_list) <= max_entries /\ ToSet(block_list) \subseteq 1 .. max_entries
    /\ disk \in [Bytes -> Values \cup {0, 1}] /\ latest \in [Bytes -> Values \cup {1}]
    /\ spoiled \subseteq Offsets
    /\ lock = 1 - Cardinality({p \in Procs : call[p].at \in {"flush", "fetch", "halted"}})

Loading == {call[p].ent : p \in {q \in Procs : call[q].at = "fetch"}}

(* What a read finds, in the cache or on the disk, is what was written last,
   whatever was evicted, written back, or failed to be, in between.  A block
   whose fetch failed is exempt: "TODO: Invalidate cache entry if this fails". *)
NothingLost ==
    \A b \in Offsets \ spoiled :
        LET cached == {e \in ToSet(block_list) \ Loading : entries[e].offset = b}
            view == IF cached = {} THEN OnDisk(b) ELSE entries[CHOOSE e \in cached : TRUE].data
        IN  view = [i \in 0 .. BlockSize - 1 |-> latest[b + i]]

(* A clean entry may be discarded: the disk holds the same bytes. *)
CleanIsOnDisk ==
    \A e \in ToSet(block_list) \ Loading :
        (~entries[e].dirty /\ entries[e].offset \notin spoiled)
            => entries[e].data = OnDisk(entries[e].offset)

(* The retry after a flush gets its entry: assert( entry != NULL ). *)
AssertsHold == ~halted

(* Every error path gives the device back: it is free again and again. *)
LockReleased == []<>(lock = 1)

=============================================================================
