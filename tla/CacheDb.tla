------------------------------- MODULE CacheDb -------------------------------
(***************************************************************************)
(* The in-memory database of db.cpp: tables, cache entries, their          *)
(* reference counts, the LRU list, the size counters, and where each value *)
(* is stored.  The struct db_details is a record d, and each function of   *)
(* db.cpp is an operator from records to records of the same name.         *)
(*                                                                         *)
(* A pointer is an id, and a freed structure is one that is not live.  An  *)
(* access to freed memory or a dereference of NULL, and the deletion of an *)
(* entry or table that is deleted already (asserted against at 1277, 1302  *)
(* and 1328), set d.fault, and that is the last step of the process.       *)
(*                                                                         *)
(* The program is the release build, which is compiled with NDEBUG: a      *)
(* failed assertion does not stop it.  One more can fail here, that a      *)
(* table which is deleted has its name (1266, 1331).  The build goes on,   *)
(* and d.nameless records it.                                              *)
(***************************************************************************)
EXTENDS SequencesExt, FiniteSetsExt, Integers

CONSTANTS
    TableNames, Keys,
    KeyHash,       \* KeyHash[k]: hash_string of key k
    EntryIds,      \* ids of cache_entry structures, a bound on how many are live
    TableIds,      \* ids of db_table structures
    Blocks,        \* blocks of the block file (BlockStore allocates them)
    BlockLength,   \* BLOCK_LENGTH: a longer value has a file of its own
    LenWrap,       \* 2^32: lengths, and their differences, are uint32_t
    MaxSize,       \* settings.max_size
    ClearSize,     \* settings.max_size * settings.db_lru_clear
    LruEvery       \* DB_LRU_EVERY: inserts between two garbage collections

Null == 0          \* the NULL pointer, no id
NewEntry == -2     \* cache_entry.block: nothing allocated yet
NoBlock == -1      \* cache_entry.block: no block, the value has a file of its own

ASSUME DbAssumption ==
    /\ Null \notin EntryIds /\ Null \notin TableIds
    /\ EntryIds \subseteq Nat /\ TableIds \subseteq Nat /\ Blocks \subseteq Nat
    /\ IsFiniteSet(EntryIds) /\ IsFiniteSet(TableIds) /\ IsFiniteSet(Blocks)
    /\ BlockLength \in Nat /\ LenWrap \in Nat \ {0} /\ MaxSize \in Nat /\ ClearSize \in Nat
    /\ LruEvery \in Nat \ {0}
    /\ DOMAIN KeyHash = Keys

Hashes == {KeyHash[k] : k \in Keys}

DeadEntry == [live |-> FALSE, tab |-> Null, key |-> Null, writing |-> FALSE,
              deleted |-> FALSE, refs |-> 0, len |-> 0, block |-> NewEntry,
              exp |-> 0, file |-> FALSE, lru_next |-> Null, lru_prev |-> Null]
DeadTable == [live |-> FALSE, name |-> Null, refs |-> 0, deleted |-> FALSE,
              slot |-> [h \in Hashes |-> Null]]

\* db_open on an empty directory.
EmptyDb ==
    [ents    |-> [e \in EntryIds |-> DeadEntry],
     tabs    |-> [t \in TableIds |-> DeadTable],
     tables  |-> [n \in TableNames |-> Null],   \* db.tables
     lru_head |-> Null, lru_tail |-> Null,
     used    |-> {},                            \* blocks granted to entries
     size    |-> 0,                             \* db_size_bytes
     keys    |-> 0,                             \* db_keys
     inserts |-> 0,                             \* db_stats_inserts % LruEvery
     orphan  |-> FALSE,                         \* see Orphan
     nameless |-> FALSE,                        \* see AssertNamed
     fault   |-> "none"]                        \* see Fault

\* The file of e, if it has one, is left behind: nothing will unlink it.
Orphan(d, e) == [d EXCEPT !.orphan = @ \/ d.ents[e].file]

Fault(d, what) == [d EXCEPT !.fault = what]
Entries(d, t)  == {d.tabs[t].slot[h] : h \in Hashes} \ {Null}   \* kh_val
IsFile(d, e)   == d.ents[e].len > BlockLength                   \* IS_SINGLE_FILE

\* The hash set of table t cannot be used: kh_destroy has been called, or the
\* table has been freed.
Unusable(d, t) == d.tabs[t].deleted \/ ~ d.tabs[t].live
Misused(d, t)  == Fault(d, IF d.tabs[t].live THEN "destroyed hash set" ELSE "freed table")

-----------------------------------------------------------------------------
(* Reference counts *)

\* db_table_actually_delete: whatever table has the name now is dropped.
db_table_actually_delete(d, t) ==
    [d EXCEPT !.tables[d.tabs[t].name] = Null, !.tabs[t] = DeadTable]

db_table_deref(d, t, actually_delete) ==
    IF ~ d.tabs[t].live THEN Fault(d, "freed table")
    ELSE LET d1 == [d EXCEPT !.tabs[t].refs = @ - 1]
         IN  IF d1.tabs[t].refs = 0 /\ (actually_delete \/ d1.tabs[t].deleted)
             THEN db_table_actually_delete(d1, t)
             ELSE d1

db_table_incref(d, t) == [d EXCEPT !.tabs[t].refs = @ + 1]

\* Mutant: the block of a freed entry is not given back.
db_entry_actually_delete_kept(d, e) ==
    [Orphan(d, e) EXCEPT !.ents[e] = DeadEntry]

\* db_entry_actually_delete: the block is given back, a file is not unlinked.
db_entry_actually_delete(d, e) ==
    [Orphan(d, e) EXCEPT !.used = @ \ {d.ents[e].block}, !.ents[e] = DeadEntry]

db_entry_deref(d, e, table) ==
    LET d1 == [d EXCEPT !.ents[e].refs = @ - 1]
        t  == d.ents[e].tab
        d2 == IF table /\ t # Null THEN db_table_deref(d1, t, FALSE) ELSE d1
    IN  IF d2.ents[e].refs = 0 /\ d2.ents[e].deleted
        THEN db_entry_actually_delete(d2, e)
        ELSE d2

db_entry_incref(d, e, table) ==
    LET d1 == [d EXCEPT !.ents[e].refs = @ + 1]
    IN  IF table THEN db_table_incref(d1, d.ents[e].tab) ELSE d1

-----------------------------------------------------------------------------
(* The LRU list *)

\* Mutant: the neighbour behind keeps its link to the node.
db_lru_remove_node_behind(d, e) ==
    LET x  == d.ents[e]
        d1 == IF x.lru_prev # Null THEN [d EXCEPT !.ents[x.lru_prev].lru_next = x.lru_next]
              ELSE [d EXCEPT !.lru_head = x.lru_next]
        d2 == IF x.lru_next # Null THEN d1 ELSE [d1 EXCEPT !.lru_tail = x.lru_prev]
    IN  [d2 EXCEPT !.ents[e].lru_next = Null, !.ents[e].lru_prev = Null]

\* A node that is not in the list would be taken for its only one.
db_lru_remove_node(d, e) ==
    LET x  == d.ents[e]
        d1 == IF x.lru_prev # Null THEN [d EXCEPT !.ents[x.lru_prev].lru_next = x.lru_next]
              ELSE [d EXCEPT !.lru_head = x.lru_next]
        d2 == IF x.lru_next # Null THEN [d1 EXCEPT !.ents[x.lru_next].lru_prev = x.lru_prev]
              ELSE [d1 EXCEPT !.lru_tail = x.lru_prev]
    IN  [d2 EXCEPT !.ents[e].lru_next = Null, !.ents[e].lru_prev = Null]

\* At the tail.
db_lru_insert(d, e) ==
    LET d1 == [d EXCEPT !.ents[e].lru_prev = d.lru_tail, !.ents[e].lru_next = Null]
        d2 == IF d.lru_tail = Null THEN d1 ELSE [d1 EXCEPT !.ents[d.lru_tail].lru_next = e]
    IN  [d2 EXCEPT !.lru_tail = e, !.lru_head = IF @ = Null THEN e ELSE @]

db_lru_hit(d, e) == db_lru_insert(db_lru_remove_node(d, e), e)

-----------------------------------------------------------------------------
(* Deleting entries and tables *)

\* Mutant: an upload in progress is not taken off the size.
Unlink_partial(d, e) ==
    LET x  == d.ents[e]
        d1 == [d EXCEPT !.ents[e].file = @ /\ ~ IsFile(d, e),
                        !.ents[e].deleted = TRUE,
                        !.tabs[x.tab].slot[KeyHash[x.key]] = Null]
    IN  IF x.writing THEN d1
        ELSE db_lru_remove_node([d1 EXCEPT !.size = @ - x.len], e)

\* What db_entry_handle_delete and db_entry_handle_softdelete have in common.
Unlink(d, e) ==
    LET x  == d.ents[e]
        d1 == [d EXCEPT !.ents[e].file = @ /\ ~ IsFile(d, e),
                        !.ents[e].deleted = TRUE,
                        !.tabs[x.tab].slot[KeyHash[x.key]] = Null,
                        !.size = @ - x.len]
    IN  IF x.writing THEN d1 ELSE db_lru_remove_node(d1, e)

\* assert(k != kh_end(db.tables)) of db_delete_table_entry and its caller.
\* Where it is compiled out, kh_del ignores the end of the hash set.
AssertNamed(d, t) == [d EXCEPT !.nameless = @ \/ d.tables[d.tabs[t].name] = Null]

\* db_delete_table_entry: destroy the hash set, drop the name, drop the
\* reference the keys held.
db_delete_table_entry(d, t) ==
    LET d1 == [AssertNamed(d, t) EXCEPT !.tabs[t].deleted = TRUE,
                                        !.tables[d.tabs[t].name] = Null]
    IN  db_table_deref(d1, t, TRUE)

\* Mutant: an entry keeps pointing to its deleted table, to release it later.
db_entry_handle_delete_tied(d, e) ==
    LET t == d.ents[e].tab
    IN  IF d.tabs[t].deleted \/ d.ents[e].deleted THEN Fault(d, "deleted twice")
        ELSE LET d1 == [Unlink(d, e) EXCEPT !.keys = @ - 1]
             IN  IF Entries(d1, t) # {} THEN d1 ELSE db_delete_table_entry(d1, t)

\* db_entry_handle_delete.  With its last key a table goes too.
db_entry_handle_delete(d, e) ==
    LET t == d.ents[e].tab
    IN  CASE t = Null -> Fault(d, "null table")
          [] t # Null /\ Unusable(d, t) -> Misused(d, t)
          [] t # Null /\ ~ Unusable(d, t) /\ d.ents[e].deleted -> Fault(d, "deleted twice")
          [] OTHER ->
                LET d1 == [Unlink(d, e) EXCEPT !.keys = @ - 1]
                IN  IF Entries(d1, t) # {} THEN d1
                    ELSE [db_delete_table_entry(d1, t) EXCEPT !.ents[e].tab = Null]

\* Mutant: a replaced entry is freed while it is read.
db_entry_handle_softdelete_now(d, e) ==
    IF d.ents[e].deleted THEN d ELSE db_entry_actually_delete(Unlink(d, e), e)

\* db_entry_handle_softdelete: the key is replaced, or its table deleted.
db_entry_handle_softdelete(d, e) ==
    IF d.ents[e].deleted THEN d
    ELSE LET d1 == Unlink(d, e)
         IN  IF d1.ents[e].refs = 0 THEN db_entry_actually_delete(d1, e) ELSE d1

\* db_table_handle_delete.  The loop reads each entry once more, in
\* db_entry_cleanup, after db_entry_handle_softdelete has freed those nobody
\* refers to.  This is the outcome in which the memory is as it was left: the
\* file it would unlink is gone already.  For the other one see EndDropFreed.
db_table_handle_delete(d, t) ==
    IF Unusable(d, t) THEN Misused(d, t)
    ELSE LET es == Entries(d, t)
             d1 == FoldSet(LAMBDA e, acc : db_entry_handle_softdelete(acc, e), d, es)
         IN  db_delete_table_entry(d1, t)

-----------------------------------------------------------------------------
(* Garbage collection *)

\* The body of the loops of db_lru_cleanup_percent and db_expire_cursor_table.
Evict(d, e) ==
    IF d.ents[e].refs = 0
    THEN db_entry_deref(db_entry_handle_delete(db_entry_incref(d, e, TRUE), e), e, TRUE)
    ELSE db_entry_handle_delete(d, e)

\* Keys reachable through db.tables.
Indexed(d) == UNION {Entries(d, t) : t \in {d.tables[n] : n \in TableNames} \ {Null}}

Expired(d, e, now) == d.ents[e].exp # 0 /\ d.ents[e].exp < now

\* db_expire_cursor.  One call visits at least 4096 keys, here all there are.
db_expire_cursor(d, now) ==
    FoldSet(LAMBDA e, acc : Evict(acc, e), d, {e \in Indexed(d) : Expired(d, e, now)})

\* One round of the loop of db_lru_cleanup_percent.
CleanupHead(acc) ==
    LET l == acc.d.lru_head
    IN  CASE l = Null \/ acc.bytes <= 0 -> acc
          [] l # Null /\ acc.bytes > 0 /\ (acc.d.ents[l].writing \/ acc.d.ents[l].deleted) ->
                [acc EXCEPT !.d = db_lru_remove_node(@, l)]
          [] OTHER -> [d |-> Evict(acc.d, l), bytes |-> acc.bytes - acc.d.ents[l].len]

\* Each round takes an entry out of the list.
db_lru_cleanup_percent(d, bytes) ==
    FoldSet(LAMBDA i, acc : CleanupHead(acc), [d |-> d, bytes |-> bytes], EntryIds).d

\* Mutant: the database is only brought down to its limit.
db_lru_gc_limit(d, now) ==
    LET d1 == db_expire_cursor(d, now)
    IN  IF MaxSize > 0 /\ MaxSize < d1.size
        THEN db_lru_cleanup_percent(d1, d1.size - MaxSize)
        ELSE d1

\* db_lru_gc.  The number of bytes is computed from an unsigned difference:
\* when the expired keys alone brought the size below the limit it is out of
\* the range of int, becomes INT_MIN, and nothing more is removed.
db_lru_gc(d, now) ==
    LET d1 == db_expire_cursor(d, now)
    IN  IF MaxSize > 0 /\ MaxSize < d.size /\ MaxSize <= d1.size
        THEN db_lru_cleanup_percent(d1, (d1.size - MaxSize) + ClearSize)
        ELSE d1

-----------------------------------------------------------------------------
(* Looking up tables and entries.  Each returns the database and a pointer. *)

Return(d, p) == [db |-> d, ret |-> p]

db_table_get_read(d, n) ==
    IF d.tables[n] = Null THEN Return(d, Null)
    ELSE Return(db_table_incref(d, d.tables[n]), d.tables[n])

\* A new table t has the caller's reference only.
db_table_get_write(d, n, t) ==
    IF d.tables[n] # Null THEN db_table_get_read(d, n)
    ELSE Return([d EXCEPT !.tables[n] = t,
                          !.tabs[t] = [DeadTable EXCEPT !.live = TRUE, !.name = n,
                                                        !.refs = 1]], t)

\* Mutant: a value is read before it is complete.
db_entry_get_read_early(d, t, k, now) ==
    LET e == d.tabs[t].slot[KeyHash[k]]
    IN  IF e = Null THEN Return(d, Null)
        ELSE IF d.ents[e].key # k THEN Return(d, Null)
        ELSE Return(db_entry_incref(db_lru_hit(d, e), e, FALSE), e)

\* Mutant: the key is not compared.
db_entry_get_read_hash(d, t, k, now) ==
    LET e == d.tabs[t].slot[KeyHash[k]]
    IN  IF e = Null THEN Return(d, Null)
        ELSE IF d.ents[e].writing THEN Return(d, Null)
        ELSE Return(db_entry_incref(db_lru_hit(d, e), e, FALSE), e)

\* A key that is expired is deleted on the way; one that another key collides
\* with, or that is still being written, is not found.
db_entry_get_read(d, t, k, now) ==
    LET e == d.tabs[t].slot[KeyHash[k]]
    IN  IF e = Null THEN Return(d, Null)
        ELSE IF Expired(d, e, now)
        THEN Return(db_entry_deref(db_entry_handle_delete(
                        db_entry_incref(d, e, FALSE), e), e, FALSE), Null)
        ELSE IF d.ents[e].key # k \/ d.ents[e].writing THEN Return(d, Null)
        ELSE Return(db_entry_incref(db_lru_hit(d, e), e, FALSE), e)

\* Mutant: replacing a key counts it again, and whether it is the first of its
\* table is asked after the old one is gone.
db_entry_get_write_again(d, t, k, now, e) ==
    LET old == d.tabs[t].slot[KeyHash[k]]
        d1  == IF old = Null THEN d ELSE db_entry_handle_softdelete(d, old)
        d2  == [d1 EXCEPT !.keys = @ + 1,
                          !.ents[e] = [DeadEntry EXCEPT !.live = TRUE, !.tab = t,
                                          !.key = k, !.refs = 1, !.writing = TRUE],
                          !.tabs[t].slot[KeyHash[k]] = e,
                          !.tabs[t].refs = IF Entries(d1, t) = {} THEN @ + 1 ELSE @]
    IN  IF old # Null /\ d.ents[old].writing THEN Return(d, Null) ELSE Return(d2, e)

\* The new entry e that a PUT fills.  Null when another connection is writing the key.
\* The key is not compared: a colliding key is replaced.
db_entry_get_write(d, t, k, now, e) ==
    LET old   == d.tabs[t].slot[KeyHash[k]]
        first == Entries(d, t) = {}
        ins   == (d.inserts + 1) % LruEvery
        d1    == [d EXCEPT !.inserts = ins]
        d2    == IF old = Null THEN [d1 EXCEPT !.keys = @ + 1]
                 ELSE db_entry_handle_softdelete(d1, old)
        d3    == [d2 EXCEPT !.ents[e] = [DeadEntry EXCEPT !.live = TRUE, !.tab = t,
                                            !.key = k, !.refs = 1, !.writing = TRUE],
                            !.tabs[t].slot[KeyHash[k]] = e,
                            !.tabs[t].refs = IF first THEN @ + 1 ELSE @]
    IN  IF old # Null /\ d.ents[old].writing THEN Return(d1, Null)
        ELSE Return(IF ins = 0 THEN db_lru_gc(d3, now) ELSE d3, e)

\* Mutant: no reference is taken.
db_entry_get_delete_unref(d, t, k) ==
    LET e == d.tabs[t].slot[KeyHash[k]]
    IN  IF e = Null \/ (e # Null /\ d.ents[e].key # k) THEN Return(d, Null) ELSE Return(d, e)

db_entry_get_delete(d, t, k) ==
    LET e == d.tabs[t].slot[KeyHash[k]]
    IN  IF e = Null \/ (e # Null /\ d.ents[e].key # k) THEN Return(d, Null)
        ELSE Return(db_entry_incref(d, e, FALSE), e)

-----------------------------------------------------------------------------
(* Storing a value *)

\* db_block_allocate_new: some block that no entry holds (see BlockStore), or
\* -1 when there is none.
FreeBlock(d) == IF Blocks \ d.used = {} THEN NoBlock ELSE Min(Blocks \ d.used)

\* get_key_path: the name of an entry's file contains the hash of its table.
NoPath(d, e) == d.ents[e].tab = Null

\* db_entry_open_create never opens an old file: one there was stays behind.
db_entry_open_create(d, e) ==
    [Orphan(d, e) EXCEPT !.ents[e].file = TRUE]

\* db_target_write_allocate: choose block or file for a value of len bytes,
\* count it, and open it.  A second call for the same entry may switch.  The
\* difference of the lengths is a uint32_t, the size it is added to a uint64_t.
db_target_write_allocate(d, e, len) ==
    LET x     == d.ents[e]
        small == len <= BlockLength
        block == IF ~ small THEN NoBlock
                 ELSE IF x.block = NewEntry \/ IsFile(d, e) THEN FreeBlock(d) ELSE x.block
        freed == IF small THEN {} ELSE {x.block}
        d1    == [d EXCEPT !.used = (@ \ freed) \cup ({block} \cap Blocks),
                           !.ents[e] = [x EXCEPT !.block = block, !.len = len,
                                                 !.file = @ /\ ~ small],
                           !.size = @ + ((len - x.len) % LenWrap)]
    IN  IF NoPath(d, e) /\ (IsFile(d, e) \/ ~ small) THEN Fault(d, "null table")
        ELSE IF small THEN d1 ELSE db_entry_open_create(d1, e)

\* db_entry_delete: unlink the file of an entry.
db_entry_delete(d, e) ==
    IF NoPath(d, e) THEN Fault(d, "null table") ELSE [d EXCEPT !.ents[e].file = FALSE]

\* db_complete_writing
db_complete_writing(d, e) ==
    LET d1 == [d EXCEPT !.ents[e].writing = FALSE]
    IN  IF d.ents[e].deleted THEN d1 ELSE db_lru_insert(d1, e)
=============================================================================
