-------------------------- MODULE BlockStoreProofs --------------------------
(***************************************************************************)
(* The block allocator of db.cpp, for every number of entries and blocks:  *)
(* the free list and its counter stay exact, every block of the file is    *)
(* accounted for once, and no block has two holders.                       *)
(***************************************************************************)
EXTENDS BlockStore, FiniteSetTheorems, SequenceTheorems, TLAPS

\* An entry that is completely written holds a block.
DoneHeld == \A e \in done : held[e] # NoBlock

\* The inductive invariant.  Exclusiveness of the saved and snapshot indexes
\* is what a restart needs to establish exclusiveness of the loaded entries.
Inv ==
    /\ TypeOK /\ FreeListExact /\ Partition /\ BlockExclusive
    /\ DoneHeld
    /\ Pool!Exclusive(saved) /\ Pool!Exclusive(snap)

\* The initial state, an empty block file and no index, satisfies Inv.
LEMMA InitInv == Init => Inv
  <1> SUFFICES ASSUME Init PROVE Inv
    OBVIOUS
  <1> USE BlockAssumption DEF Init, Nothing, NoBlock, Maybe, BlockIds
  <1>1. TypeOK
    <2>1. Nothing \in [Entries -> Maybe]
      OBVIOUS
    <2>2. free \in Seq(BlockIds)
      OBVIOUS
    <2>3. disk \in [BlockIds -> Entries \cup {NoEntry}]
      OBVIOUS
    <2>4. /\ exist \in 0 .. MaxBlocks /\ flen \in 0 .. MaxBlocks /\ nfree \in Nat
      OBVIOUS
    <2>5. done \subseteq Entries /\ gone \subseteq Entries /\ pinned \subseteq done \ gone /\ leaked \subseteq BlockIds
      OBVIOUS
    <2>6. indexed \in BOOLEAN
      BY Zenon
    <2>7. child \in {"none", "writing", "unlinked"}
      OBVIOUS
    <2> QED BY <2>1, <2>2, <2>3, <2>4, <2>5, <2>6, <2>7 DEF TypeOK
  <1>2. FreeListExact
    BY DEF FreeListExact
  <1>3. Partition
    BY DEF Partition, Blocks, Free
  <1>4. BlockExclusive /\ Pool!Exclusive(saved) /\ Pool!Exclusive(snap)
    BY DEF BlockExclusive, Pool!Exclusive
  <1>5. DoneHeld
    BY DEF DoneHeld
  <1> QED BY <1>1, <1>2, <1>3, <1>4, <1>5 DEF Inv

\* Truncating the block file keeps its contents well typed.
LEMMA SizeType ==
    ASSUME TypeOK, NEW n \in 0 .. MaxBlocks, db_block_size(n)
    PROVE  /\ flen' \in 0 .. MaxBlocks
           /\ disk' \in [BlockIds -> Entries \cup {NoEntry}]
           /\ wrapped' \in {"no", "yes"}
  <1>1. n % Wrap \in 0 .. MaxBlocks
    BY BlockAssumption
  <1> QED BY <1>1 DEF TypeOK, db_block_size

\* Granting a block that nobody holds leaves the holders exclusive.
LEMMA GrantBlock ==
    ASSUME NEW h \in [Entries -> Maybe], Pool!Exclusive(h),
           NEW e \in Entries, NEW b, b \notin Blocks(h)
    PROVE  Pool!Exclusive([h EXCEPT ![e] = b])
  BY DEF Blocks, Pool!Exclusive

\* db_block_allocate_new, popping the list or extending the file, keeps Inv.
LEMMA AllocateInv ==
    ASSUME Inv, NEW e \in Entries, Allocate(e)
    PROVE  Inv'
  <1> USE BlockAssumption DEF Inv, NoBlock, Maybe, BlockIds
  <1>1. CASE Reuse(e)
    <2>1. TypeOK'
      BY <1>1 DEF Allocate, Reuse, TypeOK, FreeListExact, file, index
    <2> DEFINE b == Head(free)
    <2>2. /\ Len(free) \in Nat \ {0}
          /\ b = free[1] /\ b \in Free /\ b \in BlockIds
          /\ free' = Tail(free)
      BY <1>1 DEF Reuse, TypeOK, Free
    <2>3. /\ Len(free') = Len(free) - 1
          /\ \A i \in 1 .. Len(free) - 1 : free'[i] = free[i + 1]
      BY <2>2, HeadTailProperties DEF TypeOK
    <2>4. FreeListExact'
      BY <1>1, <2>2, <2>3 DEF Allocate, Reuse, FreeListExact
    <2>5. Free' = Free \ {b}
      <3>1. ASSUME NEW c \in Free' PROVE c \in Free \ {b}
        BY <2>2, <2>3, <3>1 DEF Free, FreeListExact
      <3>2. ASSUME NEW c \in Free \ {b} PROVE c \in Free'
        <4>1. PICK i \in 1 .. Len(free) : free[i] = c
          BY <3>2 DEF Free
        <4>2. i - 1 \in 1 .. Len(free') /\ free'[i - 1] = c
          BY <2>2, <2>3, <3>2, <4>1
        <4> QED BY <4>2 DEF Free
      <3> QED BY <3>1, <3>2
    <2>6. Blocks(held)' = Blocks(held) \cup {b}
      BY <1>1, <2>2 DEF Allocate, Reuse, TypeOK, Blocks
    <2>7. Partition'
      BY <1>1, <2>2, <2>5, <2>6 DEF Allocate, Reuse, Partition
    <2>8. BlockExclusive'
      <3>1. b \notin Blocks(held) /\ held' = [held EXCEPT ![e] = b]
        BY <1>1, <2>2 DEF Reuse, Partition
      <3> QED BY <3>1, GrantBlock DEF TypeOK, BlockExclusive, Pool!Exclusive
    <2>9. DoneHeld'
      BY <1>1, <2>2 DEF Allocate, Reuse, DoneHeld, TypeOK
    <2>10. (Pool!Exclusive(saved) /\ Pool!Exclusive(snap))'
      BY DEF Allocate, index
    <2> QED BY <2>1, <2>4, <2>7, <2>8, <2>9, <2>10
  <1>2. CASE Extend(e)
    <2>1. TypeOK'
      BY <1>2, SizeType DEF Allocate, Extend, TypeOK, index
    <2>2. FreeListExact'
      BY <1>2 DEF Extend, FreeListExact
    <2>3. Blocks(held)' = Blocks(held) \cup {exist}
      BY <1>2 DEF Allocate, Extend, TypeOK, Blocks
    <2>4. Free' = Free /\ leaked' = leaked /\ exist' = exist + 1
      BY <1>2 DEF Allocate, Extend, Free
    <2>5. Partition'
      BY <2>3, <2>4 DEF Partition, TypeOK
    <2>6. BlockExclusive'
      <3>1. exist \notin Blocks(held) /\ held' = [held EXCEPT ![e] = exist]
        BY <1>2 DEF Extend, Partition, TypeOK
      <3> QED BY <3>1, GrantBlock DEF TypeOK, BlockExclusive, Pool!Exclusive
    <2>7. DoneHeld'
      BY <1>2 DEF Allocate, Extend, DoneHeld, TypeOK
    <2>8. (Pool!Exclusive(saved) /\ Pool!Exclusive(snap))'
      BY DEF Allocate, index
    <2> QED BY <2>1, <2>2, <2>5, <2>6, <2>7, <2>8
  <1> QED BY <1>1, <1>2 DEF Allocate

\* Writing a value into its block keeps Inv.
LEMMA WriteValueInv ==
    ASSUME Inv, NEW e \in Entries, WriteValue(e)
    PROVE  Inv'
  <1> USE BlockAssumption DEF Inv, NoBlock, Maybe, BlockIds
  <1>1. TypeOK'
    <2>1. disk' \in [BlockIds -> Entries \cup {NoEntry}]
      BY DEF WriteValue, TypeOK
    <2>2. flen' \in 0 .. MaxBlocks
      BY DEF WriteValue, TypeOK
    <2> QED BY <2>1, <2>2 DEF WriteValue, TypeOK, alloc, index
  <1>2. FreeListExact' /\ Partition' /\ BlockExclusive'
    BY DEF WriteValue, FreeListExact, Partition, Blocks, Free, BlockExclusive,
           Pool!Exclusive, alloc
  <1>3. DoneHeld'
    BY DEF WriteValue, DoneHeld
  <1>4. (Pool!Exclusive(saved) /\ Pool!Exclusive(snap))'
    BY DEF WriteValue, index
  <1> QED BY <1>1, <1>2, <1>3, <1>4

\* Giving a block up leaves the other holders alone.
LEMMA DropBlocks ==
    ASSUME NEW h \in [Entries -> Maybe], Pool!Exclusive(h),
           NEW e \in Entries, h[e] # NoBlock
    PROVE  /\ Blocks([h EXCEPT ![e] = NoBlock]) = Blocks(h) \ {h[e]}
           /\ Pool!Exclusive([h EXCEPT ![e] = NoBlock])
           /\ h[e] \in Blocks(h) /\ h[e] \in BlockIds
  BY DEF Blocks, Pool!Exclusive, Maybe, NoBlock

\* Deleting an entry that is in use, or freeing one without a block, keeps Inv.
LEMMA DeleteInv ==
    ASSUME Inv, NEW e \in Entries, Delete(e) \/ Forget(e)
    PROVE  Inv'
  <1>1. /\ UNCHANGED <<alloc, held, done, pinned, leaked, file, index>>
        /\ gone' \subseteq Entries /\ pinned \cap gone' = {}
    BY DEF Delete, Forget, Inv, TypeOK
  <1>2. TypeOK'
    BY <1>1 DEF Inv, TypeOK, alloc, file, index
  <1>3. FreeListExact' /\ Partition'
    BY <1>1 DEF Inv, FreeListExact, Partition, Blocks, Free, alloc
  <1>4. BlockExclusive' /\ DoneHeld' /\ (Pool!Exclusive(saved) /\ Pool!Exclusive(snap))'
    BY <1>1 DEF Inv, BlockExclusive, DoneHeld, Pool!Exclusive, index
  <1> QED BY <1>2, <1>3, <1>4 DEF Inv

\* db_block_free, pushing the block or shrinking the file, keeps Inv.
LEMMA ReleaseInv ==
    ASSUME Inv, NEW e \in Entries, Release(e) \/ Switch(e)
    PROVE  Inv'
  <1> USE BlockAssumption DEF Inv, BlockIds
  <1> DEFINE b == held[e]
  <1>1. /\ held \in [Entries -> Maybe] /\ Pool!Exclusive(held) /\ held[e] # NoBlock
        /\ held' = [held EXCEPT ![e] = NoBlock]
    BY DEF Release, Switch, TypeOK, BlockExclusive
  <1>2. /\ Blocks(held)' = Blocks(held) \ {b}
        /\ BlockExclusive'
        /\ b \in Blocks(held) /\ b \in BlockIds
    BY <1>1, DropBlocks DEF Blocks, BlockExclusive, Pool!Exclusive
  <1>3. /\ held' \in [Entries -> Maybe]
        /\ done' = done \ {e} /\ gone' \subseteq gone
        /\ e \notin pinned /\ pinned' = pinned
        /\ leaked' = leaked /\ UNCHANGED index
        /\ db_block_free(b)
    <2>1. held' \in [Entries -> Maybe]
      BY <1>1 DEF Maybe
    <2>2. CASE Release(e)
      BY <2>1, <2>2 DEF Release, TypeOK
    <2>3. CASE Switch(e)
      BY <2>1, <2>3 DEF Switch, TypeOK
    <2> QED BY <2>2, <2>3
  <1>4. DoneHeld'
    BY <1>1, <1>3 DEF DoneHeld, TypeOK
  <1>5. (Pool!Exclusive(saved) /\ Pool!Exclusive(snap))'
    BY <1>3 DEF index
  <1>6. b \notin Free /\ b \notin leaked /\ b \in 0 .. exist - 1
    BY <1>2 DEF Partition
  <1>7. CASE b + 1 = exist /\ nfree > KeepFree
    <2>1. exist' = exist - 1 /\ db_block_size(exist - 1) /\ UNCHANGED <<free, nfree>>
      BY <1>3, <1>7 DEF db_block_free
    <2>2. /\ flen' \in 0 .. MaxBlocks /\ disk' \in [BlockIds -> Entries \cup {NoEntry}]
          /\ wrapped' \in {"no", "yes"}
      <3>1. exist - 1 \in 0 .. MaxBlocks
        BY <1>7, <1>2 DEF TypeOK
      <3> QED BY <2>1, <3>1, SizeType
    <2>3. TypeOK'
      BY <2>1, <2>2, <1>3, <1>7, <1>2 DEF TypeOK, index
    <2>4. FreeListExact' /\ Free' = Free
      BY <2>1 DEF FreeListExact, Free
    <2>5. Partition'
      BY <2>1, <2>4, <1>2, <1>3, <1>6, <1>7 DEF Partition, TypeOK
    <2> QED BY <2>3, <2>4, <2>5, <1>2, <1>4, <1>5
  <1>8. CASE ~ (b + 1 = exist /\ nfree > KeepFree)
    <2>1. /\ free' = <<b>> \o free /\ nfree' = nfree + 1
          /\ exist' = exist /\ UNCHANGED file
      BY <1>3, <1>8 DEF db_block_free
    <2>2. /\ free' \in Seq(BlockIds) /\ Len(free') = Len(free) + 1
          /\ Len(free) \in Nat /\ free'[1] = b
          /\ \A i \in 2 .. Len(free') : free'[i] = free[i - 1]
      BY <2>1, <1>2 DEF TypeOK
    <2>3. TypeOK'
      BY <2>1, <2>2, <1>3 DEF TypeOK, index, file
    <2>4. Free' = Free \cup {b}
      <3> DEFINE k == Len(free)
      <3>1. \A i \in 1 .. k : free'[i + 1] = free[i]
        <4> TAKE i \in 1 .. k
        <4>1. i + 1 \in 2 .. Len(free') /\ (i + 1) - 1 = i
          BY <2>2
        <4> QED BY <2>2, <4>1
      <3>2. Len(free') = k + 1 /\ k \in Nat
        BY <2>2
      <3>3. \A i \in 1 .. k + 1 : i = 1 \/ i - 1 \in 1 .. k
        BY <3>2
      <3>4. \A i \in 1 .. k : i + 1 \in 1 .. k + 1
        BY <3>2
      <3>5. 1 \in 1 .. k + 1
        BY <3>2
      <3>6. \A i \in 2 .. k + 1 : free'[i] = free[i - 1] /\ i - 1 \in 1 .. k
        BY <2>2, <3>2
      <3> HIDE DEF k
      <3>7. Free' = {free'[i] : i \in 1 .. k + 1} /\ Free = {free[i] : i \in 1 .. k}
        BY <3>2 DEF Free, k
      <3>8. ASSUME NEW x \in Free' PROVE x \in Free \cup {b}
        <4>1. PICK i \in 1 .. k + 1 : x = free'[i]
          BY <3>7
        <4>2. i = 1 \/ i \in 2 .. k + 1
          BY <3>2
        <4> QED BY <2>2, <3>6, <3>7, <4>1, <4>2
      <3>9. ASSUME NEW x \in Free \cup {b} PROVE x \in Free'
        BY <2>2, <3>1, <3>4, <3>5, <3>7
      <3> QED BY <3>8, <3>9
    <2>5. FreeListExact'
      BY <2>1, <2>2, <1>6 DEF FreeListExact, Free
    <2>6. Partition'
      BY <2>1, <2>4, <1>2, <1>3, <1>6 DEF Partition
    <2> QED BY <2>3, <2>5, <2>6, <1>2, <1>4, <1>5
  <1> QED BY <1>7, <1>8

\* Losing the block of a loaded entry keeps Inv.
LEMMA ReleaseLoadedInv ==
    ASSUME Inv, NEW e \in Entries, ReleaseLoaded(e)
    PROVE  Inv'
  <1> USE BlockAssumption DEF Inv, BlockIds
  <1>1. /\ held \in [Entries -> Maybe] /\ Pool!Exclusive(held) /\ held[e] # NoBlock
        /\ held' = [held EXCEPT ![e] = NoBlock]
    BY DEF ReleaseLoaded, TypeOK, BlockExclusive, DoneHeld
  <1>2. /\ Blocks(held)' = Blocks(held) \ {held[e]}
        /\ BlockExclusive'
        /\ held[e] \in Blocks(held) /\ held[e] \in BlockIds
    BY <1>1, DropBlocks DEF Blocks, BlockExclusive, Pool!Exclusive
  <1>3. TypeOK'
    BY <1>2 DEF ReleaseLoaded, TypeOK, alloc, file, index, Maybe
  <1>4. FreeListExact' /\ Free' = Free /\ exist' = exist
    BY DEF ReleaseLoaded, FreeListExact, Free, alloc
  <1>5. Partition'
    BY <1>2, <1>4 DEF ReleaseLoaded, Partition
  <1>6. DoneHeld' /\ (Pool!Exclusive(saved) /\ Pool!Exclusive(snap))'
    BY DEF ReleaseLoaded, DoneHeld, TypeOK, index
  <1> QED BY <1>2, <1>3, <1>4, <1>5, <1>6

\* The steps of an index flush keep Inv.
LEMMA FlushInv ==
    ASSUME Inv, ForkFlush \/ ChildUnlink \/ ChildFails \/ ChildRename
    PROVE  Inv'
  <1> USE BlockAssumption DEF Inv, index
  <1>1. Completed \in [Entries -> Maybe] /\ Pool!Exclusive(Completed)
    BY DEF Completed, TypeOK, Maybe, BlockExclusive, Pool!Exclusive
  <1>2. Nothing \in [Entries -> Maybe] /\ Pool!Exclusive(Nothing)
    BY DEF Nothing, Maybe, Pool!Exclusive
  <1>3. UNCHANGED <<alloc, ents, file>>
    BY DEF ForkFlush, ChildUnlink, ChildFails, ChildRename
  <1>4. FreeListExact' /\ Partition' /\ BlockExclusive' /\ DoneHeld'
    <2>1. free' = free /\ nfree' = nfree /\ exist' = exist
      BY <1>3 DEF alloc
    <2>2. held' = held /\ done' = done /\ leaked' = leaked
      BY <1>3 DEF ents
    <2>3. FreeListExact'
      BY <2>1 DEF FreeListExact
    <2>4. Partition'
      BY <2>1, <2>2 DEF Partition, Blocks, Free
    <2> QED BY <2>2, <2>3, <2>4 DEF BlockExclusive, Pool!Exclusive, DoneHeld
  <1>5. CASE ForkFlush
    BY <1>1, <1>3, <1>4, <1>5 DEF ForkFlush, TypeOK, alloc, ents, file, Pool!Exclusive
  <1>6. CASE ChildUnlink
    <2>1. indexed' \in BOOLEAN
      BY <1>6, Zenon DEF ChildUnlink
    <2> QED BY <1>3, <1>4, <1>6, <2>1 DEF ChildUnlink, TypeOK, alloc, ents, file, Pool!Exclusive
  <1>7. CASE ChildRename
    <2>1. indexed' \in BOOLEAN
      BY <1>7, Zenon DEF ChildRename
    <2> QED BY <1>2, <1>3, <1>4, <1>7, <2>1 DEF ChildRename, TypeOK, alloc, ents, file, Pool!Exclusive
  <1>8. CASE ChildFails
    BY <1>2, <1>3, <1>4, <1>8 DEF ChildFails, TypeOK, alloc, ents, file, Pool!Exclusive
  <1> QED BY <1>5, <1>6, <1>7, <1>8

\* The rebuilt free list: what db_load_from_save and db_open leave behind.
LEMMA FreeUnusedInv ==
    ASSUME Inv, NEW n \in 0 .. MaxBlocks, n <= flen,
           NEW h \in [Entries -> Maybe], Pool!Exclusive(h),
           Blocks(h) \subseteq 0 .. n - 1,
           FreeUnused(n, h)
    PROVE  /\ free' \in Seq(BlockIds) /\ nfree' \in Nat
           /\ exist' \in 0 .. MaxBlocks /\ flen' \in 0 .. MaxBlocks
           /\ disk' \in [BlockIds -> Entries \cup {NoEntry}]
           /\ wrapped' \in {"no", "yes"}
           /\ held' = h /\ done' = {e \in Entries : h[e] # NoBlock}
           /\ pinned' = done' /\ gone' = {} /\ leaked' = {}
           /\ FreeListExact' /\ Partition' /\ BlockExclusive' /\ DoneHeld'
  <1> USE BlockAssumption DEF Inv, BlockIds
  <1> DEFINE unused == (0 .. n - 1) \ Blocks(h)
             shrink == n - 1 \in unused /\ Cardinality(unused \ {n - 1}) > KeepFree
             listed == IF shrink THEN unused \ {n - 1} ELSE unused
             len    == IF shrink THEN n - 1 ELSE n
             c      == Cardinality(listed)
  <1>1. /\ exist' = len /\ free' \in Descending(listed) /\ nfree' = c
        /\ held' = h /\ done' = {e \in Entries : h[e] # NoBlock}
        /\ pinned' = done' /\ gone' = {} /\ leaked' = {}
        /\ IF len < flen THEN db_block_size(len) ELSE UNCHANGED file
    BY DEF FreeUnused
  <1>2. /\ len \in 0 .. MaxBlocks
        /\ listed \subseteq BlockIds
        /\ 0 .. len - 1 = Blocks(h) \cup listed
        /\ Blocks(h) \cap listed = {}
    <2>1. CASE shrink
      BY <2>1
    <2>2. CASE ~ shrink
      BY <2>2
    <2> QED BY <2>1, <2>2
  <1>3. IsFiniteSet(listed)
    <2>1. IsFiniteSet(0 .. n - 1)
      BY FS_Interval
    <2>2. listed \subseteq 0 .. n - 1
      OBVIOUS
    <2> QED BY <2>1, <2>2, FS_Subset
  <1>4. c \in Nat
    BY <1>3, FS_CardinalityType
  <1> HIDE DEF unused, shrink, listed, len, c
  <1>5. /\ free' \in [1 .. c -> listed]
        /\ \A i, j \in 1 .. c : i < j => free'[i] > free'[j]
        /\ \A b \in listed : \E i \in 1 .. c : free'[i] = b
    BY <1>1 DEF Descending, c
  <1>6. free' \in Seq(BlockIds) /\ Len(free') = c
    BY <1>2, <1>4, <1>5
  <1>7. FreeListExact'
    <2>1. \A i \in 1 .. c : free'[i] \in Int
      BY <1>2, <1>5
    <2> QED BY <1>1, <1>4, <1>5, <1>6, <2>1 DEF FreeListExact
  <1>8. Free' = listed
    BY <1>5, <1>6 DEF Free
  <1>9. Partition'
    BY <1>1, <1>2, <1>8 DEF Partition
  <1>10. BlockExclusive' /\ DoneHeld'
    BY <1>1 DEF BlockExclusive, Pool!Exclusive, DoneHeld
  <1>11. /\ flen' \in 0 .. MaxBlocks /\ disk' \in [BlockIds -> Entries \cup {NoEntry}]
         /\ wrapped' \in {"no", "yes"}
    <2>1. CASE len < flen
      BY <1>1, <1>2, <2>1, SizeType
    <2>2. CASE ~ (len < flen)
      BY <1>1, <2>2 DEF file, TypeOK
    <2> QED BY <2>1, <2>2
  <1> QED BY <1>1, <1>2, <1>4, <1>6, <1>7, <1>9, <1>10, <1>11

\* The entries a restart loads from an index: some of those recorded.
Loaded(idx) == [e \in Entries |->
                  IF idx[e] \in 0 .. flen - 1 THEN idx[e] ELSE NoBlock]

\* The loaded entries hold different blocks of the file.
LEMMA LoadedType ==
    ASSUME TypeOK, NEW idx \in [Entries -> Maybe], Pool!Exclusive(idx)
    PROVE  /\ Loaded(idx) \in [Entries -> Maybe]
           /\ Pool!Exclusive(Loaded(idx))
           /\ Blocks(Loaded(idx)) \subseteq 0 .. flen - 1
           /\ flen \in 0 .. MaxBlocks /\ flen <= flen
  BY BlockAssumption DEF Loaded, TypeOK, Maybe, NoBlock, BlockIds, Pool!Exclusive, Blocks

\* A restart, with an index or without, establishes Inv again.
LEMMA RestartInv ==
    ASSUME Inv, Crash \/ StopStart
    PROVE  Inv'
  <1> USE BlockAssumption DEF Inv
  <1>1. /\ Completed \in [Entries -> Maybe] /\ Pool!Exclusive(Completed)
        /\ Nothing \in [Entries -> Maybe] /\ Pool!Exclusive(Nothing)
        /\ Blocks(Nothing) = {}
    BY DEF Completed, TypeOK, Maybe, BlockExclusive, Pool!Exclusive, Nothing, Blocks
  <1>2. PICK n \in 0 .. MaxBlocks, h \in [Entries -> Maybe] :
           /\ n <= flen /\ Pool!Exclusive(h) /\ Blocks(h) \subseteq 0 .. n - 1
           /\ FreeUnused(n, h)
    <2>1. ASSUME NEW idx \in [Entries -> Maybe], Pool!Exclusive(idx), Load(idx)
          PROVE  \E n \in 0 .. MaxBlocks, h \in [Entries -> Maybe] :
                    /\ n <= flen /\ Pool!Exclusive(h) /\ Blocks(h) \subseteq 0 .. n - 1
                    /\ FreeUnused(n, h)
      <3>1. FreeUnused(flen, Loaded(idx))
        BY <2>1 DEF Load, Loaded
      <3> QED BY <2>1, <3>1, LoadedType
    <2>2. ASSUME Blank
          PROVE  \E n \in 0 .. MaxBlocks, h \in [Entries -> Maybe] :
                    /\ n <= flen /\ Pool!Exclusive(h) /\ Blocks(h) \subseteq 0 .. n - 1
                    /\ FreeUnused(n, h)
      <3> DEFINE m == IF flen > MaxLoad THEN MaxLoad ELSE flen
      <3>1. FreeUnused(m, Nothing)
        BY <2>2 DEF Blank
      <3>2. m \in 0 .. MaxBlocks /\ m <= flen
        BY DEF TypeOK
      <3> HIDE DEF m
      <3> QED BY <1>1, <3>1, <3>2
    <2>3. CASE Crash
      BY <2>1, <2>2, <2>3 DEF Crash, TypeOK
    <2>4. CASE StopStart
      BY <2>1, <2>4, <1>1 DEF StopStart
    <2> QED BY <2>3, <2>4
  <1>3. /\ free' \in Seq(BlockIds) /\ nfree' \in Nat
        /\ exist' \in 0 .. MaxBlocks /\ flen' \in 0 .. MaxBlocks
        /\ disk' \in [BlockIds -> Entries \cup {NoEntry}]
        /\ wrapped' \in {"no", "yes"}
        /\ held' = h /\ done' = {e \in Entries : h[e] # NoBlock}
        /\ pinned' = done' /\ gone' = {} /\ leaked' = {}
        /\ FreeListExact' /\ Partition' /\ BlockExclusive' /\ DoneHeld'
    BY <1>2, FreeUnusedInv
  <1>4. CASE Crash
    <2>1. /\ child' = "none" /\ snap' = Nothing /\ saved' = saved /\ indexed' = indexed
          /\ crashed' = "yes"
      BY <1>4 DEF Crash
    <2>2. TypeOK'
      BY <1>1, <1>3, <2>1 DEF TypeOK
    <2> QED BY <1>1, <1>3, <2>1, <2>2 DEF Pool!Exclusive
  <1>5. CASE StopStart
    <2>1. child' = child /\ snap' = snap /\ saved' = Completed /\ crashed' = crashed
      BY <1>5 DEF StopStart
    <2>2. indexed' \in BOOLEAN
      BY <1>5, Zenon DEF StopStart
    <2>3. TypeOK'
      BY <1>1, <1>3, <2>1, <2>2 DEF TypeOK
    <2> QED BY <1>1, <1>3, <2>1, <2>3 DEF Pool!Exclusive
  <1> QED BY <1>4, <1>5

\* Every step of the specification keeps the invariant.
LEMMA NextInv == Inv /\ [Next]_vars => Inv'
  <1> SUFFICES ASSUME Inv, [Next]_vars PROVE Inv'
    OBVIOUS
  <1>1. CASE \E e \in Entries : \/ Allocate(e) \/ WriteValue(e) \/ Switch(e) \/ Delete(e)
                                \/ Release(e) \/ Forget(e) \/ ReleaseLoaded(e)
    BY <1>1, AllocateInv, WriteValueInv, DeleteInv, ReleaseInv, ReleaseLoadedInv
  <1>2. CASE ForkFlush \/ ChildUnlink \/ ChildFails \/ ChildRename
    BY <1>2, FlushInv
  <1>3. CASE Crash \/ StopStart
    BY <1>3, RestartInv
  <1>4. CASE UNCHANGED vars
    <2>1. /\ free' = free /\ nfree' = nfree /\ exist' = exist
          /\ held' = held /\ done' = done /\ gone' = gone
          /\ pinned' = pinned /\ leaked' = leaked
          /\ flen' = flen /\ disk' = disk
          /\ child' = child /\ snap' = snap /\ saved' = saved /\ indexed' = indexed
          /\ crashed' = crashed /\ wrapped' = wrapped
      BY <1>4 DEF vars, alloc, ents, file, index
    <2>2. TypeOK'
      BY <2>1 DEF Inv, TypeOK
    <2>3. FreeListExact'
      BY <2>1 DEF Inv, FreeListExact
    <2>4. Partition'
      BY <2>1 DEF Inv, Partition, Blocks, Free
    <2> QED BY <2>1, <2>2, <2>3, <2>4 DEF Inv, BlockExclusive, Pool!Exclusive, DoneHeld
  <1> QED BY <1>1, <1>2, <1>3, <1>4 DEF Next

\* The inductive invariant holds in every reachable state.
THEOREM InvHolds == Spec => []Inv
  BY InitInv, NextInv, PTL DEF Spec

\* The variables of the allocator keep their types, whatever the number of
\* entries and blocks, across deletions, flushes, crashes and restarts.
THEOREM TypeCorrect == Spec => []TypeOK
  BY InvHolds, PTL DEF Inv

\* db.free_blocks never lists a block twice and db.blocks_free counts it.
THEOREM FreeListCorrect == Spec => []FreeListExact
  BY InvHolds, PTL DEF Inv

\* Each block of the file is held, free or leaked, and only one of these.
THEOREM PartitionCorrect == Spec => []Partition
  BY InvHolds, PTL DEF Inv

\* No two cache entries ever hold the same block.
THEOREM ExclusiveCorrect == Spec => []BlockExclusive
  BY InvHolds, PTL DEF Inv

-----------------------------------------------------------------------------
(* The allocator implements the pool of blocks *)

\* A step of the allocator grants a block nobody holds, takes one back,
\* begins or installs an index, restarts from one, or changes no grant.
LEMMA PoolStep == Inv /\ Inv' /\ [Next]_vars => [Pool!Next]_(Pool!grants)
  <1> SUFFICES ASSUME Inv, Inv', [Next]_vars PROVE [Pool!Next]_(Pool!grants)
    OBVIOUS
  <1> USE DEF Pool!Next
  <1>1. ASSUME NEW e \in Entries, Allocate(e) PROVE Pool!Grant(e)
    <2>1. /\ held \in [Entries -> Maybe] /\ held[e] = NoBlock
          /\ free \in Seq(BlockIds) /\ exist \in Nat
      BY <1>1, BlockAssumption DEF Inv, TypeOK, Allocate
    <2>2. ASSUME NEW b \in Nat, held' = [held EXCEPT ![e] = b], b \notin Blocks(held)
          PROVE  Pool!Grant(e)
      BY <1>1, <2>1, <2>2 DEF Allocate, index, Pool!Grant, Blocks, NoBlock
    <2>3. CASE Reuse(e)
      <3>1. Head(free) \in Free /\ Head(free) \in Nat
        <4>1. Len(free) \in Nat /\ Len(free) # 0 /\ free[1] = Head(free) /\ free[1] \in BlockIds
          BY <2>1, <2>3 DEF Reuse
        <4> QED BY <4>1, BlockAssumption DEF Free, BlockIds
      <3> QED BY <2>2, <2>3, <3>1 DEF Reuse, Inv, Partition
    <2>4. CASE Extend(e)
      <3>1. exist \notin Blocks(held)
        BY <2>1 DEF Inv, Partition
      <3> QED BY <2>1, <2>2, <2>4, <3>1 DEF Extend
    <2> QED BY <1>1, <2>3, <2>4 DEF Allocate
  <1>2. ASSUME NEW e \in Entries, Release(e) \/ Switch(e) \/ ReleaseLoaded(e)
        PROVE  Pool!Release(e)
    BY <1>2 DEF Release, Switch, ReleaseLoaded, index, Pool!Release, Inv, DoneHeld, TypeOK
  <1>3. ASSUME NEW e \in Entries, WriteValue(e) \/ Delete(e) \/ Forget(e)
        PROVE  UNCHANGED Pool!grants
    BY <1>3 DEF WriteValue, Delete, Forget, index, Pool!grants
  <1>4. CASE ForkFlush
    <2>1. Pool!Keeps(Completed, held)
      BY DEF Pool!Keeps, Completed
    <2> QED BY <1>4, <2>1 DEF ForkFlush, ents, Pool!Begin
  <1>5. CASE ChildUnlink
    BY <1>5 DEF ChildUnlink, ents, Pool!grants
  <1>6. CASE ChildRename
    BY <1>6 DEF ChildRename, ents, Pool!Commit, Nothing, Pool!Nothing
  <1>7. CASE Crash
    <2>1. Pool!Keeps(held', saved)
      <3>1. CASE indexed
        BY <1>7, <3>1 DEF Crash, Load, FreeUnused, Pool!Keeps
      <3>2. CASE ~ indexed
        BY <1>7, <3>2 DEF Crash, Blank, FreeUnused, Pool!Keeps, Nothing
      <3> QED BY <3>1, <3>2
    <2> QED BY <1>7, <2>1 DEF Crash, Pool!Crash, Nothing, Pool!Nothing
  <1>8. CASE StopStart
    <2>1. Pool!Keeps(saved', held)
      BY <1>8 DEF StopStart, Pool!Keeps, Completed
    <2>2. Pool!Keeps(held', saved')
      BY <1>8 DEF StopStart, Load, FreeUnused, Pool!Keeps
    <2> QED BY <1>8, <2>1, <2>2 DEF StopStart, Pool!Restart
  <1>9. CASE UNCHANGED vars
    BY <1>9 DEF vars, ents, index, Pool!grants
  <1>10. CASE ChildFails
    <2>1. Pool!Keeps(Nothing, held)
      BY DEF Pool!Keeps, Nothing
    <2> QED BY <1>10, <2>1 DEF ChildFails, ents, Pool!Begin
  <1> QED BY <1>1, <1>2, <1>3, <1>4, <1>5, <1>6, <1>7, <1>8, <1>9, <1>10 DEF Next

\* The free-list allocator of db.cpp refines BlockPool.
THEOREM PoolRefined == Spec => PoolSpec
  <1>1. Init => Pool!Init
    BY DEF Init, Pool!Init, Nothing, Pool!Nothing
  <1> QED BY <1>1, PoolStep, InvHolds, PTL DEF Spec, PoolSpec, Pool!Spec

-----------------------------------------------------------------------------
(* Values survive until the process is killed or the length wraps *)

\* The file is exactly as long as the allocator believes, and each complete
\* value is in its block.
ValueInv == flen = exist /\ ValueKept

\* Unless the length wraps db_block_size sets the one it is asked for.
LEMMA SizeExact ==
    ASSUME TypeOK, NEW n \in 0 .. MaxBlocks, db_block_size(n), wrapped' = "no"
    PROVE  flen' = n /\ \A b \in BlockIds : b < n => disk'[b] = disk[b]
  <1>1. n < Wrap
    BY DEF db_block_size
  <1>2. n % Wrap = n
    BY <1>1, BlockAssumption
  <1> QED BY <1>2 DEF db_block_size

\* The block of a complete value is below the end of the file.
LEMMA DoneBlock ==
    ASSUME Inv, NEW e \in done
    PROVE  held[e] \in BlockIds /\ held[e] < exist /\ e \in Entries
           /\ held[e] \in Blocks(held)
  <1>1. e \in Entries /\ held[e] \in BlockIds /\ held[e] \in Blocks(held)
    BY DEF Inv, TypeOK, DoneHeld, Blocks, Maybe
  <1>2. held[e] \in 0 .. exist - 1 /\ exist \in Nat
    BY <1>1, BlockAssumption DEF Inv, Partition, TypeOK
  <1> QED BY <1>1, <1>2

\* Allocation, writing and deletion keep every other key's value.
LEMMA EntryValue ==
    ASSUME Inv, Inv', ValueInv, wrapped' = "no", NEW e \in Entries,
           \/ Allocate(e) \/ WriteValue(e) \/ Switch(e) \/ Delete(e)
           \/ Release(e) \/ Forget(e) \/ ReleaseLoaded(e)
    PROVE  ValueInv'
  <1> USE BlockAssumption DEF ValueInv
  <1>1. CASE Allocate(e)
    <2>1. e \notin done /\ done' = done
      BY <1>1 DEF Allocate, Inv, DoneHeld
    <2>2. \A f \in done : held'[f] = held[f]
      BY <1>1, <2>1 DEF Allocate, Reuse, Extend, Inv, TypeOK
    <2>3. CASE Reuse(e)
      BY <2>1, <2>2, <2>3 DEF Reuse, file, ValueKept
    <2>4. CASE Extend(e)
      <3>1. exist + 1 \in 0 .. MaxBlocks /\ exist' = exist + 1 /\ db_block_size(exist + 1)
        BY <2>4 DEF Extend, Inv, TypeOK
      <3>2. flen' = exist' /\ \A b \in BlockIds : b < exist + 1 => disk'[b] = disk[b]
        BY <3>1, SizeExact DEF Inv
      <3>3. \A f \in done : held[f] \in BlockIds /\ held[f] < exist + 1
        BY DoneBlock DEF Inv, TypeOK, BlockIds
      <3> QED BY <2>1, <2>2, <3>2, <3>3 DEF ValueKept
    <2> QED BY <1>1, <2>3, <2>4 DEF Allocate
  <1>2. CASE WriteValue(e)
    <2>1. held' = held /\ exist' = exist /\ done' = done \cup {e} /\ e \notin done
      BY <1>2 DEF WriteValue, alloc
    <2>2. held[e] \in BlockIds /\ held[e] < exist
      <3>1. held[e] \in BlockIds /\ held[e] \in Blocks(held)
        BY <1>2 DEF WriteValue, Inv, TypeOK, Maybe, Blocks
      <3> QED BY <3>1 DEF Inv, Partition, TypeOK
    <2>3. \A f \in done : held[f] # held[e]
      <3>1. held[e] # NoBlock /\ done \subseteq Entries
        BY <1>2 DEF WriteValue, Inv, TypeOK
      <3> QED BY <2>1, <3>1 DEF Inv, BlockExclusive, Pool!Exclusive
    <2>4. flen' = flen /\ disk' = [disk EXCEPT ![held[e]] = e]
      BY <1>2, <2>2 DEF WriteValue
    <2>5. \A f \in done : disk'[held[f]] = f
      BY <2>3, <2>4, DoneBlock DEF ValueKept, Inv, TypeOK
    <2>6. disk'[held[e]] = e
      BY <2>2, <2>4 DEF Inv, TypeOK
    <2> QED BY <2>1, <2>4, <2>5, <2>6 DEF ValueKept
  <1>3. CASE Release(e) \/ Switch(e)
    <2>1. /\ done' = done \ {e} /\ held[e] # NoBlock /\ held[e] \in Maybe
          /\ \A f \in done' : held'[f] = held[f] /\ held[f] # held[e]
      BY <1>3 DEF Release, Switch, Inv, TypeOK, BlockExclusive, Pool!Exclusive
    <2>2. CASE UNCHANGED <<exist, file>>
      BY <2>1, <2>2 DEF file, ValueKept
    <2>3. CASE held[e] + 1 = exist /\ exist' = exist - 1 /\ db_block_size(exist - 1)
      <3>1. exist - 1 \in 0 .. MaxBlocks
        BY <2>1, <2>3 DEF Inv, TypeOK, Maybe, BlockIds
      <3>2. flen' = exist' /\ \A b \in BlockIds : b < exist - 1 => disk'[b] = disk[b]
        BY <2>3, <3>1, SizeExact DEF Inv
      <3>3. \A f \in done' : held[f] \in BlockIds /\ held[f] < exist - 1
        <4> SUFFICES ASSUME NEW f \in done' PROVE held[f] \in BlockIds /\ held[f] < exist - 1
          OBVIOUS
        <4>1. f \in done /\ held[f] # held[e]
          BY <2>1
        <4>2. held[f] \in BlockIds /\ held[f] < exist
          BY <4>1, DoneBlock
        <4> QED BY <2>1, <2>3, <4>1, <4>2 DEF Inv, TypeOK, BlockIds, Maybe, NoBlock
      <3> QED BY <2>1, <3>2, <3>3 DEF ValueKept
    <2> QED BY <1>3, <2>2, <2>3 DEF Release, Switch, db_block_free
  <1>4. CASE ReleaseLoaded(e)
    <2>1. \A f \in done' : f \in done /\ held'[f] = held[f]
      BY <1>4 DEF ReleaseLoaded, Inv, TypeOK
    <2> QED BY <1>4, <2>1 DEF ReleaseLoaded, alloc, file, ValueKept
  <1>5. CASE Delete(e) \/ Forget(e)
    BY <1>5 DEF Delete, Forget, alloc, file, ValueKept
  <1> QED BY <1>1, <1>2, <1>3, <1>4, <1>5

\* A clean stop and start brings back exactly the complete values.
LEMMA StopStartValue ==
    ASSUME Inv, ValueInv, wrapped' = "no", StopStart
    PROVE  ValueInv'
  <1> USE BlockAssumption DEF ValueInv
  <1> DEFINE h == Loaded(Completed)
             unused == (0 .. flen - 1) \ Blocks(h)
             shrink == /\ flen - 1 \in unused
                       /\ Cardinality(unused \ {flen - 1}) > KeepFree
             len    == IF shrink THEN flen - 1 ELSE flen
  <1>1. FreeUnused(flen, h)
    BY DEF StopStart, Load, Loaded
  <1>2. /\ exist' = len /\ held' = h /\ done' = {e \in Entries : h[e] # NoBlock}
        /\ IF len < flen THEN db_block_size(len) ELSE UNCHANGED file
    BY <1>1 DEF FreeUnused
  <1>3. \A e \in done' : /\ e \in done /\ h[e] = held[e]
                          /\ h[e] \in Blocks(h) /\ h[e] \in BlockIds
    <2> SUFFICES ASSUME NEW e \in done'
                 PROVE  /\ e \in done /\ h[e] = held[e]
                        /\ h[e] \in Blocks(h) /\ h[e] \in BlockIds
      OBVIOUS
    <2>1. e \in Entries /\ h[e] # NoBlock
      BY <1>2
    <2>2. h[e] = Completed[e] /\ Completed[e] # NoBlock
      BY <2>1 DEF Loaded
    <2>3. e \in done /\ h[e] = held[e]
      BY <2>1, <2>2 DEF Completed
    <2>4. h[e] \in Blocks(h)
      BY <2>1 DEF Blocks
    <2> QED BY <2>3, <2>4, DoneBlock
  <1>4. \A e \in done' : h[e] < len
    <2> SUFFICES ASSUME NEW e \in done' PROVE h[e] < len
      OBVIOUS
    <2>1. h[e] \in 0 .. MaxBlocks - 1 /\ h[e] < flen /\ h[e] \in Blocks(h) /\ flen \in Nat
      BY <1>3, DoneBlock DEF Inv, TypeOK, BlockIds
    <2>2. h[e] \notin unused
      BY <2>1
    <2> HIDE DEF unused, h
    <2>3. shrink => h[e] # flen - 1
      BY <2>2
    <2> HIDE DEF shrink
    <2> QED BY <2>1, <2>3
  <1>5. len \in 0 .. MaxBlocks /\ flen \in Nat
    BY DEF Inv, TypeOK
  <1>6. flen' = exist' /\ \A b \in BlockIds : b < len => disk'[b] = disk[b]
    <2>1. CASE len < flen
      BY <1>2, <1>5, <2>1, SizeExact DEF Inv
    <2>2. CASE ~ (len < flen)
      BY <1>2, <1>5, <2>2 DEF file
    <2> QED BY <2>1, <2>2
  <1> HIDE DEF h, len
  <1> QED BY <1>2, <1>3, <1>4, <1>6 DEF ValueKept

\* No step forgets a crash or a wrapped length, and Crash is the only one that
\* the values may not survive.
LEMMA HistoryKept ==
    ASSUME [Next]_vars
    PROVE  /\ crashed' = "no" => crashed = "no" /\ ~ Crash
           /\ wrapped' = "no" => wrapped = "no"
  <1> USE DEF db_block_size, db_block_free, FreeUnused, alloc, ents, file, index
  <1>0. Crash => crashed' = "yes"
    BY DEF Crash
  <1>1. ASSUME NEW e \in Entries, \/ Allocate(e) \/ WriteValue(e) \/ Switch(e) \/ Delete(e)
                                  \/ Release(e) \/ Forget(e) \/ ReleaseLoaded(e)
        PROVE  crashed' = crashed /\ (wrapped' = "no" => wrapped = "no")
    BY <1>1 DEF Allocate, Reuse, Extend, WriteValue, Switch, Delete, Release, Forget,
                ReleaseLoaded
  <1>2. CASE ForkFlush \/ ChildUnlink \/ ChildFails \/ ChildRename \/ UNCHANGED vars
    <2>1. crashed' = crashed /\ wrapped' = wrapped
      BY <1>2 DEF ForkFlush, ChildUnlink, ChildFails, ChildRename, vars
    <2> QED BY <1>0, <2>1
  <1>3. CASE Crash \/ StopStart
    BY <1>3, <1>0 DEF Crash, StopStart, Load, Blank
  <1> QED BY <1>1, <1>2, <1>3, <1>0 DEF Next

\* Every complete value stays in its block until the process is killed, or the
\* block file has grown to the size at which its 32 bit length wraps, wherever
\* that is.
THEOREM ValueLastsCorrect == Spec => []ValueLasts
  <1> DEFINE Lasting == crashed = "no" /\ wrapped = "no" => ValueInv
  <1>1. Init => Lasting
    BY DEF Init, ValueInv, ValueKept
  <1>2. Inv /\ Inv' /\ Lasting /\ [Next]_vars => Lasting'
    <2> SUFFICES ASSUME Inv, Inv', Lasting, [Next]_vars, crashed' = "no", wrapped' = "no"
                 PROVE  ValueInv'
      OBVIOUS
    <2>1. ValueInv /\ ~ Crash
      BY HistoryKept
    <2>2. CASE \E e \in Entries : \/ Allocate(e) \/ WriteValue(e) \/ Switch(e) \/ Delete(e)
                                  \/ Release(e) \/ Forget(e) \/ ReleaseLoaded(e)
      BY <2>1, <2>2, EntryValue
    <2>3. CASE ForkFlush \/ ChildUnlink \/ ChildFails \/ ChildRename \/ UNCHANGED vars
      BY <2>1, <2>3 DEF ForkFlush, ChildUnlink, ChildFails, ChildRename, vars, alloc, ents, file,
                        ValueInv, ValueKept
    <2>4. CASE StopStart
      BY <2>1, <2>4, StopStartValue
    <2> QED BY <2>1, <2>2, <2>3, <2>4 DEF Next
  <1>3. Lasting => ValueLasts
    BY DEF ValueInv, ValueLasts
  <1> QED BY <1>1, <1>2, <1>3, InvHolds, PTL DEF Spec
=============================================================================
