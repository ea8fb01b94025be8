----------------------------- MODULE BlockStore -----------------------------
(***************************************************************************)
(* The block file of db.cpp (blockfile.db), its free list, and the index   *)
(* file (index.save) from which a restart rebuilds the free list.          *)
(*                                                                         *)
(* Lengths are counted in blocks of BLOCK_LENGTH bytes.  The length passed *)
(* to ftruncate is a 32 bit product, so it wraps at Wrap = 2^32 /          *)
(* BLOCK_LENGTH blocks.                                                    *)
(***************************************************************************)
EXTENDS Integers, Sequences, FiniteSets

CONSTANTS Entries,     \* cache entries whose values fit a block
          KeepFree,    \* the file shrinks only above this many free blocks (256)
          MaxBlocks,   \* db_block_allocate_new refuses from here on (2147483647)
          MaxLoad,     \* BLOCK_MAX_LOAD: blocks kept when the index is lost (8192)
          Wrap         \* blocks at which the 32 bit file length wraps (2^20)

NoBlock == -1
NoEntry == "none"

ASSUME BlockAssumption ==
    /\ IsFiniteSet(Entries) /\ NoEntry \notin Entries
    /\ KeepFree \in Nat /\ MaxLoad \in Nat /\ MaxBlocks \in Nat
    /\ Wrap \in Nat /\ MaxLoad < Wrap

VARIABLES
    free,      \* db.free_blocks, a stack with its top first
    nfree,     \* db.blocks_free
    exist,     \* db.blocks_exist
    held,      \* cache_entry.block of each entry
    done,      \* entries whose value is completely written (not ->writing)
    gone,      \* entries deleted (->deleted) while a connection still uses them
    pinned,    \* entries loaded from the index: refs starts at 1, no one drops it
    leaked,    \* blocks of deleted entries that were never given back
    flen,      \* length of blockfile.db
    disk,      \* disk[b]: the entry whose value block b of the file contains
    child,     \* the flushing child: "none", "writing", "unlinked"
    snap,      \* the child's copy of the entries, taken by fork()
    saved,     \* the blocks recorded in index.save
    indexed,   \* whether index.save exists
    crashed,   \* history: the process has been killed, or db_close lost its index
    wrapped    \* history: the file length has wrapped

alloc == <<free, nfree, exist>>
ents == <<held, done, gone, pinned, leaked>>
file == <<flen, disk, wrapped>>
index == <<child, snap, saved, indexed, crashed>>
vars == <<alloc, ents, file, index>>

BlockIds == 0 .. MaxBlocks - 1
Maybe    == BlockIds \cup {NoBlock}
Nothing  == [e \in Entries |-> NoBlock]
Blocks(h) == {h[e] : e \in Entries} \ {NoBlock}

Init ==
    /\ free = <<>> /\ nfree = 0 /\ exist = 0
    /\ held = Nothing
    /\ done = {} /\ gone = {} /\ pinned = {} /\ leaked = {}
    /\ flen = 0
    /\ disk = [b \in BlockIds |-> NoEntry]
    /\ child = "none"
    /\ snap = Nothing /\ saved = Nothing
    /\ indexed = FALSE
    /\ crashed = "no" /\ wrapped = "no"

-----------------------------------------------------------------------------
(* The allocator *)

\* db_block_size: bytes beyond the new length are lost.
db_block_size(n) ==
    /\ flen' = n % Wrap
    /\ disk' = [b \in BlockIds |-> IF b < n % Wrap THEN disk[b] ELSE NoEntry]
    /\ wrapped' = IF n < Wrap THEN wrapped ELSE "yes"

\* Mutant: the new free block is not counted.
db_block_free_uncounted(b) ==
    /\ free' = <<b>> \o free
    /\ UNCHANGED <<nfree, exist, file>>

\* Mutant: the file shrinks whichever block is freed.
db_block_free_any(b) ==
    \/ /\ nfree > KeepFree
       /\ exist' = exist - 1
       /\ db_block_size(exist - 1)
       /\ UNCHANGED <<free, nfree>>
    \/ /\ nfree <= KeepFree
       /\ free' = <<b>> \o free
       /\ nfree' = nfree + 1
       /\ UNCHANGED <<exist, file>>

\* db_block_free: give up the last block if enough are free, else push.
db_block_free(b) ==
    \/ /\ b + 1 = exist /\ nfree > KeepFree
       /\ exist' = exist - 1
       /\ db_block_size(exist - 1)
       /\ UNCHANGED <<free, nfree>>
    \/ /\ ~ (b + 1 = exist /\ nfree > KeepFree)
       /\ free' = <<b>> \o free
       /\ nfree' = nfree + 1
       /\ UNCHANGED <<exist, file>>

\* Mutant: the block handed out stays on the free list.
Reuse_kept(e) ==
    /\ free # <<>>
    /\ held' = [held EXCEPT ![e] = Head(free)]
    /\ UNCHANGED <<alloc, file>>

\* db_block_allocate_new, first branch: pop the free list.
Reuse(e) ==
    /\ free # <<>>
    /\ held' = [held EXCEPT ![e] = Head(free)]
    /\ free' = Tail(free)
    /\ nfree' = nfree - 1
    /\ UNCHANGED <<exist, file>>

\* Mutant: the limit on the number of blocks is not checked.
Extend_unlimited(e) ==
    /\ free = <<>>
    /\ held' = [held EXCEPT ![e] = exist]
    /\ exist' = exist + 1
    /\ db_block_size(exist + 1)
    /\ UNCHANGED <<free, nfree>>

\* db_block_allocate_new, last branch: grow the file by a block.
Extend(e) ==
    /\ free = <<>> /\ exist < MaxBlocks
    /\ held' = [held EXCEPT ![e] = exist]
    /\ exist' = exist + 1
    /\ db_block_size(exist + 1)
    /\ UNCHANGED <<free, nfree>>

\* db_target_write_allocate gives an entry its block.  With MaxBlocks in use
\* db_block_allocate_new returns -1 and changes nothing.
Allocate(e) ==
    /\ held[e] = NoBlock
    /\ Reuse(e) \/ Extend(e)
    /\ UNCHANGED <<done, gone, pinned, leaked, index>>

\* The value reaches the file through write(); a write past the end grows it.
WriteValue(e) ==
    /\ held[e] # NoBlock /\ e \notin done
    /\ disk' = [disk EXCEPT ![held[e]] = e]
    /\ flen' = IF held[e] < flen THEN flen ELSE held[e] + 1
    /\ done' = done \cup {e}
    /\ UNCHANGED <<alloc, held, gone, pinned, leaked, index, wrapped>>

\* db_target_write_allocate for a longer value: the entry moves to a file.
Switch(e) ==
    /\ held[e] # NoBlock /\ e \notin done
    /\ db_block_free(held[e])
    /\ held' = [held EXCEPT ![e] = NoBlock]
    /\ UNCHANGED <<done, gone, pinned, leaked, index>>

\* The entry of a key that was deleted, replaced or evicted leaves the hash
\* set, and keeps its block while connections use it.
Delete(e) ==
    /\ e \notin gone \cup pinned
    /\ gone' = gone \cup {e}
    /\ UNCHANGED <<alloc, held, done, pinned, leaked, file, index>>

\* db_entry_actually_delete: the last reference to a deleted entry is dropped.
Release(e) ==
    /\ held[e] # NoBlock /\ e \in gone
    /\ db_block_free(held[e])
    /\ held' = [held EXCEPT ![e] = NoBlock]
    /\ done' = done \ {e}
    /\ gone' = gone \ {e}
    /\ UNCHANGED <<pinned, leaked, index>>

\* db_entry_actually_delete of an entry without a block.
Forget(e) ==
    /\ held[e] = NoBlock /\ e \in gone
    /\ gone' = gone \ {e}
    /\ UNCHANGED <<alloc, held, done, pinned, leaked, file, index>>

\* A loaded entry is deleted or replaced: db_load_from_save_insert took a
\* reference that nothing releases, so its block is not given back.
ReleaseLoaded(e) ==
    /\ e \in pinned
    /\ held' = [held EXCEPT ![e] = NoBlock]
    /\ done' = done \ {e}
    /\ pinned' = pinned \ {e}
    /\ leaked' = leaked \cup {held[e]}
    /\ UNCHANGED <<gone, alloc, file, index>>

-----------------------------------------------------------------------------
(* The index file *)

\* Entries that are being written or deleted are left out of the index.
Completed == [e \in Entries |-> IF e \in done \ gone THEN held[e] ELSE NoBlock]

\* db_lru_gc forks when no flush is running; the child sees this snapshot.
ForkFlush ==
    /\ child = "none"
    /\ child' = "writing"
    /\ snap' = Completed
    /\ UNCHANGED <<alloc, ents, file, saved, indexed, crashed>>

\* db_index_flush in the child: index.temp is complete, unlink(index.save).
ChildUnlink ==
    /\ child = "writing"
    /\ child' = "unlinked"
    /\ indexed' = FALSE
    /\ UNCHANGED <<alloc, ents, file, snap, saved, crashed>>

\* index.temp could not be opened or written: the old index stays.
ChildFails ==
    /\ child = "writing"
    /\ child' = "none"
    /\ snap' = Nothing
    /\ UNCHANGED <<alloc, ents, file, saved, indexed, crashed>>

\* rename(index.temp, index.save), then the child exits.
ChildRename ==
    /\ child = "unlinked"
    /\ child' = "none"
    /\ saved' = snap
    /\ indexed' = TRUE
    /\ snap' = Nothing
    /\ UNCHANGED <<alloc, ents, file, crashed>>

\* The sequences that list the blocks of S in descending order.
Descending(S) ==
    {f \in [1 .. Cardinality(S) -> S] :
        /\ \A i, j \in 1 .. Cardinality(S) : i < j => f[i] > f[j]
        /\ \A b \in S : \E i \in 1 .. Cardinality(S) : f[i] = b}

\* Mutant: every block of the file is put on the free list.
FreeUnused_all(n, h) ==
    /\ exist' = n
    /\ free' \in Descending(0 .. n - 1)
    /\ nfree' = n
    /\ held' = h
    /\ done' = {e \in Entries : h[e] # NoBlock}
    /\ pinned' = done' /\ gone' = {}
    /\ leaked' = {}
    /\ IF n < flen THEN db_block_size(n) ELSE UNCHANGED file

\* The loop that calls db_block_free on every block of 0 .. n - 1 that h does
\* not use.  Only its last call can find the last block, and shrink the file.
FreeUnused(n, h) ==
    LET unused == (0 .. n - 1) \ Blocks(h)
        shrink == n - 1 \in unused /\ Cardinality(unused \ {n - 1}) > KeepFree
        listed == IF shrink THEN unused \ {n - 1} ELSE unused
        len    == IF shrink THEN n - 1 ELSE n
    IN  /\ exist' = len
        /\ free' \in Descending(listed)
        /\ nfree' = Cardinality(listed)
        /\ held' = h
        /\ done' = {e \in Entries : h[e] # NoBlock}
        /\ pinned' = done' /\ gone' = {}
        /\ leaked' = {}
        /\ IF len < flen THEN db_block_size(len) ELSE UNCHANGED file

\* db_load_from_save: entries whose block is beyond the file are skipped.
Load(idx) ==
    FreeUnused(flen, [e \in Entries |->
                        IF idx[e] \in 0 .. flen - 1 THEN idx[e] ELSE NoBlock])

\* db_open with no index: at most MaxLoad blocks are kept, all of them free.
Blank ==
    FreeUnused(IF flen > MaxLoad THEN MaxLoad ELSE flen, Nothing)

\* The process and its child are killed; the next start finds what is on disk.
\* With no child this is also db_close when db_index_flush cannot open or write
\* index.temp, and leaves the old index: nothing tells the two apart afterwards.
Crash ==
    /\ IF indexed THEN Load(saved) ELSE Blank
    /\ crashed' = "yes"
    /\ child' = "none" /\ snap' = Nothing
    /\ UNCHANGED <<saved, indexed>>

\* db_close waits for the child, then writes the index itself; the next start
\* loads it.  When the index cannot be written the step is Crash.
StopStart ==
    /\ child = "none"
    /\ saved' = Completed
    /\ indexed' = TRUE
    /\ Load(Completed)
    /\ UNCHANGED <<child, snap, crashed>>

Next ==
    \/ \E e \in Entries : Allocate(e) \/ WriteValue(e) \/ Switch(e)
                            \/ Delete(e) \/ Release(e) \/ Forget(e) \/ ReleaseLoaded(e)
    \/ ForkFlush \/ ChildUnlink \/ ChildFails \/ ChildRename
    \/ Crash \/ StopStart

Spec == Init /\ [][Next]_vars

-----------------------------------------------------------------------------
(* Properties *)

\* The fields of db keep their types: block numbers stay below the limit that
\* db_block_allocate_new enforces, and an entry loaded from the index is
\* complete and not deleted.
TypeOK ==
    /\ free \in Seq(BlockIds) /\ nfree \in Nat
    /\ exist \in 0 .. MaxBlocks /\ flen \in 0 .. MaxBlocks
    /\ held \in [Entries -> Maybe]
    /\ done \subseteq Entries /\ gone \subseteq Entries
    /\ pinned \subseteq done \ gone
    /\ leaked \subseteq BlockIds
    /\ disk \in [BlockIds -> Entries \cup {NoEntry}]
    /\ child \in {"none", "writing", "unlinked"}
    /\ snap \in [Entries -> Maybe] /\ saved \in [Entries -> Maybe]
    /\ indexed \in BOOLEAN
    /\ crashed \in {"no", "yes"} /\ wrapped \in {"no", "yes"}

\* The free list has no duplicates, and db.blocks_free counts it exactly: the
\* counter is kept by hand in db_block_free, db_block_allocate_new and db_open.
FreeListExact ==
    /\ nfree = Len(free)
    /\ \A i, j \in 1 .. Len(free) : free[i] = free[j] => i = j

Free == {free[i] : i \in 1 .. Len(free)}

\* The blocks of the file are exactly those held, free or leaked, and no block
\* is two of these: none is lost by shrinking, growing or rebuilding the list.
Partition ==
    /\ 0 .. exist - 1 = Blocks(held) \cup Free \cup leaked
    /\ Blocks(held) \cap Free = {}
    /\ leaked \cap Free = {}
    /\ leaked \cap Blocks(held) = {}

Pool == INSTANCE BlockPool WITH NoBlock <- NoBlock

\* Two live keys never share a block.
BlockExclusive == Pool!Exclusive(held)

\* The allocator with its free list implements the pool of blocks: it grants
\* only blocks nobody holds, and a restart, after a crash or a clean stop,
\* brings back only grants that the index on disk records.
PoolSpec == Pool!Spec

\* A value that was written completely stays readable: the block of a key
\* contains that key's value until the key is deleted.
ValueKept == \A e \in done : disk[held[e]] = e

\* Growing and shrinking the file, and stopping and starting the process, keep
\* every value, until it is killed or the file has grown to the size at which
\* the length that db_block_size computes wraps.
ValueLasts == crashed = "no" /\ wrapped = "no" => ValueKept
=============================================================================
