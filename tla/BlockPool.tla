----------------------------- MODULE BlockPool -----------------------------
(***************************************************************************)
(* What the block file promises the rest of the database: a block is       *)
(* granted to one cache entry at a time, and a restart brings back only    *)
(* grants that were made, as the last complete index recorded them.        *)
(* db_target_write_allocate stores the granted number in                   *)
(* cache_entry.block, db_entry_actually_delete gives it back.  Which block *)
(* is granted, how the file grows, and how free blocks are remembered is   *)
(* left open; BlockStore is the allocator of db.cpp and implements this.   *)
(***************************************************************************)
EXTENDS Integers

CONSTANTS Entries,   \* cache entries that may hold a block
          NoBlock    \* cache_entry.block when no block is held (-1)

VARIABLES held,      \* held[e] is the block entry e holds, or NoBlock
          snap,      \* the grants an index being written will record
          saved      \* the grants the index on disk records

grants == <<held, snap, saved>>

\* No two entries hold the same block.
Exclusive(h) == \A e, f \in Entries : h[e] = h[f] /\ h[e] # NoBlock => e = f

\* The assignment h keeps some of the grants of g and makes none.
Keeps(h, g) == \A e \in Entries : h[e] \in {g[e], NoBlock}

Nothing == [e \in Entries |-> NoBlock]

Init == held = Nothing /\ snap = Nothing /\ saved = Nothing

Grant(e) == /\ held[e] = NoBlock
            /\ held'[e] \in Nat
            /\ \A f \in Entries : held[f] # held'[e]
            /\ held' = [held EXCEPT ![e] = held'[e]]
            /\ UNCHANGED <<snap, saved>>

Release(e) == /\ held[e] # NoBlock
              /\ held' = [held EXCEPT ![e] = NoBlock]
              /\ UNCHANGED <<snap, saved>>

\* An index is begun, and later takes the place of the one on disk.
Begin  == Keeps(snap', held) /\ UNCHANGED <<held, saved>>
Commit == saved' = snap /\ snap' = Nothing /\ UNCHANGED held

\* A crash falls back to the index on disk, a clean stop writes a new one.
Crash   == Keeps(held', saved) /\ snap' = Nothing /\ UNCHANGED saved
Restart == Keeps(saved', held) /\ Keeps(held', saved') /\ UNCHANGED snap

Next == \/ \E e \in Entries : Grant(e) \/ Release(e)
        \/ Begin \/ Commit \/ Crash \/ Restart

Spec == Init /\ [][Next]_grants
=============================================================================
