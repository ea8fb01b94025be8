--------------------------- MODULE CacheDbProofs ---------------------------
(***************************************************************************)
(* What every operation of CacheDb keeps, for any number of entries,       *)
(* tables, keys, blocks and lengths.                                       *)
(*                                                                         *)
(* Sound(d, H, U) says that the database d is in order when each entry e   *)
(* has H[e] holders and each table t has U[t] users: counts of entries are *)
(* exact, blocks have one owner, hash sets hold keys of their own table,   *)
(* and a table in use is counted.  Each operation of db.cpp has a lemma    *)
(* here that says which counts it takes a sound database to, and that the  *)
(* holders of an entry still find in it what they found before (Keeps).    *)
(* CacheServerProofs uses them with the counts of its connections.         *)
(*                                                                         *)
(* The loops of db.cpp are folds over finite sets.  The first lemmas show  *)
(* that such a loop has a result and that it keeps what its body keeps, by *)
(* a least counterexample: the smallest set over which it would fail.      *)
(*                                                                         *)
(* The last lemmas are about what the LRU list and the counters are made   *)
(* of: doubly linked lists and sums over finite sets.                      *)
(***************************************************************************)
EXTENDS CacheDb, FiniteSetTheorems, WellFoundedInduction, TLAPS

-----------------------------------------------------------------------------
(* Loops over finite sets.                                                 *)

\* A nonempty set of numbers has a least element.
LEMMA Least ==
    ASSUME NEW T \in SUBSET Nat, T # {}
    PROVE  \E n \in T : \A m \in T : n <= m
  <1> DEFINE R == {ss \in Nat \X Nat : ss[1] < ss[2]}
  <1>0. R = OpToRel(<, Nat)
    BY DEF OpToRel
  <1>1. IsWellFoundedOn(R, Nat)
    BY <1>0, NatLessThanWellFounded, Zenon
  <1> HIDE DEF R
  <1>2. PICK n \in T : \A m \in T : ~ (<<m, n>> \in R)
    BY <1>1, WFMin
  <1>3. n \in Nat /\ \A m \in T : m \in Nat /\ ~ (m < n)
    BY <1>2 DEF R
  <1> QED BY <1>3

Pick(s) == CHOOSE x \in s : TRUE

\* What FoldSet chooses is a member.
LEMMA PickIn == ASSUME NEW s, s # {} PROVE Pick(s) \in s
  BY DEF Pick

\* g maps each part of S to what the loop with body F makes of base over it.
Solution(g, S, base, F) ==
    \A s \in SUBSET S : g[s] = IF s = {} THEN base ELSE F[<<Pick(s), g[s \ {Pick(s)}]>>]

\* The same as far as the results are known to be in Good.
GoodSolution(g, S, Good, base, F) ==
    /\ \A s \in SUBSET S : s = {} => g[s] = base
    /\ \A s \in SUBSET S : s # {} /\ g[s \ {Pick(s)}] \in Good =>
               g[s] = F[<<Pick(s), g[s \ {Pick(s)}]>>]

\* A loop over a finite set S whose body is the function F on Good states has
\* a result for every subset, and all results are Good.
LEMMA LoopExists ==
    ASSUME NEW S, IsFiniteSet(S), NEW Good, NEW base \in Good,
           NEW F \in [S \X Good -> Good]
    PROVE  \E g \in [SUBSET S -> Good] : Solution(g, S, base, F)
  <1> DEFINE Small(n) == {s \in SUBSET S : Cardinality(s) <= n}
             Solves(g, n) == \A s \in Small(n) :
               g[s] = IF s = {} THEN base ELSE F[<<Pick(s), g[s \ {Pick(s)}]>>]
             Bad == {n \in Nat : \A g \in [Small(n) -> Good] : ~ Solves(g, n)}
  <1>0. \A s \in SUBSET S : /\ IsFiniteSet(s) /\ Cardinality(s) \in Nat
                            /\ Cardinality(s) <= Cardinality(S)
    BY FS_Subset, FS_CardinalityType
  <1>1. \A s \in SUBSET S : s # {} =>
           /\ Pick(s) \in S /\ s \ {Pick(s)} \in SUBSET S
           /\ Cardinality(s \ {Pick(s)}) = Cardinality(s) - 1 /\ Cardinality(s) > 0
    <2> SUFFICES ASSUME NEW s \in SUBSET S, s # {}
                 PROVE  /\ Pick(s) \in S /\ s \ {Pick(s)} \in SUBSET S
                        /\ Cardinality(s \ {Pick(s)}) = Cardinality(s) - 1 /\ Cardinality(s) > 0
      OBVIOUS
    <2>1. Pick(s) \in s
      BY PickIn
    <2>2. Cardinality(s \ {Pick(s)}) = Cardinality(s) - 1
      BY <1>0, <2>1, FS_RemoveElement
    <2>3. Cardinality(s) # 0
      BY <1>0, FS_EmptySet
    <2> QED BY <1>0, <2>1, <2>2, <2>3
  <1>2. Bad = {}
    <2> SUFFICES ASSUME Bad # {} PROVE FALSE
      OBVIOUS
    <2>1. PICK n \in Bad : \A m \in Bad : n <= m
      <3>1. Bad \in SUBSET Nat
        OBVIOUS
      <3> HIDE DEF Bad
      <3> QED BY <3>1, Least
    <2>2. n \in Nat
      OBVIOUS
    <2>3. n # 0
      <3> SUFFICES ASSUME n = 0 PROVE FALSE
        OBVIOUS
      <3> DEFINE g == [s \in Small(0) |-> base]
      <3>1. \A s \in Small(0) : s = {}
        <4> SUFFICES ASSUME NEW s \in SUBSET S, Cardinality(s) <= 0 PROVE s = {}
          OBVIOUS
        <4>1. ~ (Cardinality(s) > 0)
          BY <1>0
        <4> QED BY <1>1, <4>1
      <3>2. g \in [Small(0) -> Good] /\ Solves(g, 0)
        BY <3>1
      <3> QED BY <2>1, <3>2
    <2>4. n - 1 \in Nat /\ n - 1 \notin Bad
      <3>1. n - 1 \in Nat /\ ~ (n <= n - 1)
        BY <2>2, <2>3
      <3> HIDE DEF Bad
      <3> QED BY <2>1, <3>1
    <2>5. PICK g \in [Small(n - 1) -> Good] : Solves(g, n - 1)
      BY <2>4
    <2> DEFINE h == [s \in Small(n) |->
                       IF s = {} THEN base ELSE F[<<Pick(s), g[s \ {Pick(s)}]>>]]
    <2>6. \A s \in Small(n) : s # {} => s \ {Pick(s)} \in Small(n - 1) /\ Pick(s) \in S
      BY <1>0, <1>1, <2>2
    <2>7. \A s \in Small(n - 1) : s \in Small(n)
      BY <1>0, <2>2
    <2> HIDE DEF Small
    <2>8. \A s \in Small(n) : s # {} => g[s \ {Pick(s)}] \in Good
      BY <2>6, <2>5
    <2>9. h \in [Small(n) -> Good]
      BY <2>6, <2>8
    <2>10. \A s \in Small(n - 1) : h[s] = g[s]
      BY <2>5, <2>7
    <2>11. Solves(h, n)
      BY <2>6, <2>7, <2>10
    <2> QED BY <2>1, <2>9, <2>11
  <1>3. Cardinality(S) \in Nat
    BY FS_CardinalityType
  <1>4. PICK g \in [Small(Cardinality(S)) -> Good] : Solves(g, Cardinality(S))
    BY <1>2, <1>3
  <1>5. Small(Cardinality(S)) = SUBSET S
    BY <1>0
  <1> QED BY <1>4, <1>5 DEF Solution

\* Any solution of the equation of such a loop stays Good.
LEMMA LoopGood ==
    ASSUME NEW S, IsFiniteSet(S), NEW Good, NEW base \in Good,
           NEW F \in [S \X Good -> Good],
           NEW g, GoodSolution(g, S, Good, base, F)
    PROVE  g[S] \in Good
  <1> DEFINE Bad == {n \in Nat : \E s \in SUBSET S : Cardinality(s) = n /\ g[s] \notin Good}
  <1>0. \A s \in SUBSET S : IsFiniteSet(s) /\ Cardinality(s) \in Nat
    BY FS_Subset, FS_CardinalityType
  <1>2. Bad = {}
    <2> SUFFICES ASSUME Bad # {} PROVE FALSE
      OBVIOUS
    <2>1. PICK n \in Bad : \A m \in Bad : n <= m
      <3>1. Bad \in SUBSET Nat
        OBVIOUS
      <3> HIDE DEF Bad
      <3> QED BY <3>1, Least
    <2>2. PICK s \in SUBSET S : Cardinality(s) = n /\ g[s] \notin Good
      OBVIOUS
    <2>3. s # {}
      BY <2>2 DEF GoodSolution
    <2>4. Pick(s) \in s
      BY <2>3, PickIn
    <2>5. Cardinality(s \ {Pick(s)}) = n - 1
      BY <1>0, <2>2, <2>4, FS_RemoveElement
    <2>6. s \ {Pick(s)} \in SUBSET S
      OBVIOUS
    <2>7. Cardinality(s \ {Pick(s)}) \in Nat
      BY <1>0, <2>6
    <2>8. g[s \ {Pick(s)}] \in Good
      BY <2>1, <2>5, <2>6, <2>7
    <2>9. g[s] = F[<<Pick(s), g[s \ {Pick(s)}]>>]
      BY <2>3, <2>8 DEF GoodSolution
    <2> QED BY <2>2, <2>4, <2>8, <2>9
  <1>3. Cardinality(S) \in Nat /\ S \in SUBSET S
    BY <1>0
  <1> QED BY <1>2, <1>3

-----------------------------------------------------------------------------
(* The database as a record, and what its operations keep.                 *)

Ptr == EntryIds \cup {Null}

Entry == [live : BOOLEAN, tab : TableIds \cup {Null}, key : Keys \cup {Null},
          writing : BOOLEAN, deleted : BOOLEAN, refs : Int, len : Nat,
          block : Blocks \cup {NoBlock, NewEntry}, exp : Nat, file : BOOLEAN,
          lru_next : Ptr, lru_prev : Ptr]

Table == [live : BOOLEAN, name : TableNames \cup {Null}, refs : Int, deleted : BOOLEAN,
          slot : [Hashes -> Ptr]]

Faults == {"none", "freed table", "destroyed hash set", "null table", "deleted twice",
           "freed key", "no buckets", "freed entry"}

Db == [ents : [EntryIds -> Entry], tabs : [TableIds -> Table],
       tables : [TableNames -> TableIds \cup {Null}],
       lru_head : Ptr, lru_tail : Ptr, used : SUBSET Blocks,
       size : Int, keys : Int, inserts : 0 .. LruEvery - 1, orphan : BOOLEAN,
       nameless : BOOLEAN, fault : Faults]

\* What the rest of this module reads of entry e is the same in r as in d.
SameEntry(d, r, e) ==
    /\ r.ents[e].live = d.ents[e].live /\ r.ents[e].tab = d.ents[e].tab
    /\ r.ents[e].key = d.ents[e].key /\ r.ents[e].writing = d.ents[e].writing
    /\ r.ents[e].deleted = d.ents[e].deleted /\ r.ents[e].refs = d.ents[e].refs
    /\ r.ents[e].len = d.ents[e].len /\ r.ents[e].block = d.ents[e].block

\* r differs from d in the LRU list, the counters, files, times and faults only.
SameCore(d, r) ==
    /\ r \in Db
    /\ \A e \in EntryIds : SameEntry(d, r, e)
    /\ r.tabs = d.tabs /\ r.tables = d.tables /\ r.used = d.used
    /\ r.nameless = d.nameless

\* The links of the LRU list are not part of the core.
LEMMA SetLinks ==
    ASSUME NEW d \in Db, NEW e \in EntryIds, NEW n \in Ptr
    PROVE  /\ SameCore(d, [d EXCEPT !.ents[e].lru_next = n])
           /\ SameCore(d, [d EXCEPT !.ents[e].lru_prev = n])
           /\ SameCore(d, [d EXCEPT !.lru_head = n])
           /\ SameCore(d, [d EXCEPT !.lru_tail = n])
  <1>1. SameCore(d, [d EXCEPT !.ents[e].lru_next = n])
    BY SMTT(60) DEF Db, Entry, SameCore, SameEntry
  <1>2. SameCore(d, [d EXCEPT !.ents[e].lru_prev = n])
    BY SMTT(60) DEF Db, Entry, SameCore, SameEntry
  <1>3. SameCore(d, [d EXCEPT !.lru_head = n]) /\ SameCore(d, [d EXCEPT !.lru_tail = n])
    BY DEF Db, SameCore, SameEntry
  <1> QED BY <1>1, <1>2, <1>3

\* Two changes outside the core are one.
LEMMA SameCoreTrans ==
    ASSUME NEW d, NEW r, NEW q, SameCore(d, r), SameCore(r, q)
    PROVE  SameCore(d, q)
  BY DEF SameCore, SameEntry

\* The pointers of the LRU list have their types.
LEMMA Links ==
    ASSUME NEW d \in Db, NEW e \in EntryIds
    PROVE  d.ents[e].lru_next \in Ptr /\ d.ents[e].lru_prev \in Ptr
           /\ d.lru_head \in Ptr /\ d.lru_tail \in Ptr
  BY DEF Db, Entry

\* db_lru_remove_node changes links only.
LEMMA RemoveNodeCore ==
    ASSUME NEW d \in Db, NEW e \in EntryIds
    PROVE  SameCore(d, db_lru_remove_node(d, e))
  <1> DEFINE x  == d.ents[e]
             d1 == IF x.lru_prev # Null THEN [d EXCEPT !.ents[x.lru_prev].lru_next = x.lru_next]
                   ELSE [d EXCEPT !.lru_head = x.lru_next]
             d2 == IF x.lru_next # Null THEN [d1 EXCEPT !.ents[x.lru_next].lru_prev = x.lru_prev]
                   ELSE [d1 EXCEPT !.lru_tail = x.lru_prev]
             d3 == [d2 EXCEPT !.ents[e].lru_next = Null]
             d4 == [d3 EXCEPT !.ents[e].lru_prev = Null]
  <1>0. x.lru_next \in Ptr /\ x.lru_prev \in Ptr /\ Null \in Ptr
    BY Links DEF Ptr
  <1>1. SameCore(d, d1)
    BY <1>0, SetLinks DEF Ptr
  <1>2. SameCore(d1, d2)
    <2> HIDE DEF d1, x
    <2>1. d1 \in Db
      BY <1>1 DEF SameCore
    <2> QED BY <1>0, <2>1, SetLinks DEF Ptr
  <1>3. SameCore(d2, d3)
    <2>1. d2 \in Db
      BY Zenon, <1>2 DEF SameCore
    <2> HIDE DEF d2
    <2> QED BY Zenon, <1>0, <2>1, SetLinks
  <1>4. SameCore(d3, d4)
    <2>1. d3 \in Db
      BY Zenon, <1>3 DEF SameCore
    <2> HIDE DEF d3
    <2> QED BY Zenon, <1>0, <2>1, SetLinks
  <1>5. db_lru_remove_node(d, e) = d4
    BY DEF db_lru_remove_node
  <1> HIDE DEF d1, d2, d3, d4
  <1> QED BY <1>1, <1>2, <1>3, <1>4, <1>5, SameCoreTrans

\* db_lru_insert changes links only.
LEMMA InsertCore ==
    ASSUME NEW d \in Db, NEW e \in EntryIds
    PROVE  SameCore(d, db_lru_insert(d, e))
  <1> DEFINE d0 == [d EXCEPT !.ents[e].lru_prev = d.lru_tail]
             d1 == [d0 EXCEPT !.ents[e].lru_next = Null]
             d2 == IF d.lru_tail = Null THEN d1 ELSE [d1 EXCEPT !.ents[d.lru_tail].lru_next = e]
             d3 == [d2 EXCEPT !.lru_tail = e]
             d4 == [d3 EXCEPT !.lru_head = IF d3.lru_head = Null THEN e ELSE d3.lru_head]
  <1>0. d.lru_tail \in Ptr /\ Null \in Ptr /\ e \in Ptr
    BY Links DEF Ptr
  <1>1. SameCore(d, d0)
    BY <1>0, SetLinks
  <1>2. SameCore(d0, d1)
    <2>1. d0 \in Db
      BY <1>1 DEF SameCore
    <2> HIDE DEF d0
    <2> QED BY <1>0, <2>1, SetLinks
  <1>3. SameCore(d1, d2)
    <2>1. d1 \in Db /\ SameCore(d1, d1)
      BY <1>2 DEF SameCore, SameEntry
    <2> HIDE DEF d1
    <2> QED BY <1>0, <2>1, SetLinks DEF Ptr
  <1>4. SameCore(d2, d3)
    <2>1. d2 \in Db
      BY <1>3 DEF SameCore
    <2> HIDE DEF d2
    <2> QED BY <1>0, <2>1, SetLinks
  <1>5. SameCore(d3, d4)
    <2>1. d3 \in Db
      BY <1>4 DEF SameCore
    <2> HIDE DEF d3
    <2>2. d3.lru_head \in Ptr
      BY <2>1, Links
    <2> QED BY <1>0, <2>1, <2>2, SetLinks
  <1>6. db_lru_insert(d, e) = d4
    BY DEF db_lru_insert, Db
  <1> HIDE DEF d0, d1, d2, d3, d4
  <1> QED BY <1>1, <1>2, <1>3, <1>4, <1>5, <1>6, SameCoreTrans

\* db_lru_hit changes links only.
LEMMA HitCore ==
    ASSUME NEW d \in Db, NEW e \in EntryIds
    PROVE  SameCore(d, db_lru_hit(d, e))
  <1>1. SameCore(d, db_lru_remove_node(d, e))
    BY RemoveNodeCore
  <1>2. db_lru_remove_node(d, e) \in Db
    BY <1>1 DEF SameCore
  <1>3. SameCore(db_lru_remove_node(d, e), db_lru_insert(db_lru_remove_node(d, e), e))
    BY SMTT(60), <1>2, InsertCore
  <1> QED BY <1>1, <1>3, SameCoreTrans DEF db_lru_hit

-----------------------------------------------------------------------------
(* The invariant of the database.  H[e] is the number of references that   *)
(* connections and handlers hold on entry e, U[t] that of the references   *)
(* they hold on table t themselves or through an entry.                    *)

Counts == [EntryIds -> Nat]
TableUses == [TableIds -> Nat]

EntryOK(d, H, e) ==
    LET x == d.ents[e]
    IN  /\ x.refs = H[e]
        /\ IF x.live
           THEN /\ x.key \in Keys
                /\ x.len > BlockLength => x.block = NoBlock
           ELSE x.tab = Null /\ x.block = NewEntry

BlocksOK(d) ==
    /\ d.used = {d.ents[e].block : e \in {f \in EntryIds : d.ents[f].live}} \cap Blocks
    /\ \A e, f \in EntryIds : d.ents[e].live /\ d.ents[f].live /\ d.ents[e].block \in Blocks
                                /\ d.ents[e].block = d.ents[f].block => e = f

\* A hash set holds keys of its own table, at their places, and while it is
\* in use they are complete when nobody writes them.
SlotOK(d, t, h) ==
    LET e == d.tabs[t].slot[h]
    IN  e # Null => /\ d.ents[e].live /\ ~ d.ents[e].deleted
                    /\ d.ents[e].tab = t /\ KeyHash[d.ents[e].key] = h
                    /\ ~ Unusable(d, t) /\ ~ d.ents[e].writing => d.ents[e].len > 0

\* A table in use is counted, and once more for its keys.
TableOK(d, U, t) ==
    LET x == d.tabs[t]
    IN  x.refs >= CASE ~ x.live -> 0
                    [] x.live /\ x.deleted -> 1
                    [] x.live /\ ~ x.deleted -> U[t] + (IF Entries(d, t) = {} THEN 0 ELSE 1)

Base(d, H, U) ==
    /\ d \in Db /\ H \in Counts /\ U \in TableUses
    /\ \A e \in EntryIds : EntryOK(d, H, e)
    /\ BlocksOK(d)
    /\ \A t \in TableIds, h \in Hashes : SlotOK(d, t, h)
    /\ \A t \in TableIds : TableOK(d, U, t)

\* An entry that is deleted is in memory only while somebody uses it.
NoZombie(d, H) == \A e \in EntryIds : d.ents[e].live /\ d.ents[e].deleted => H[e] > 0

Sound(d, H, U) == Base(d, H, U) /\ NoZombie(d, H)

\* What the users of an entry see of it stays.
Keeps(d, r, H) ==
    \A e \in EntryIds : H[e] > 0 =>
        /\ r.ents[e].live = d.ents[e].live /\ r.ents[e].key = d.ents[e].key
        /\ r.ents[e].writing = d.ents[e].writing
        /\ r.ents[e].len = d.ents[e].len /\ r.ents[e].tab \in {d.ents[e].tab, Null}

\* The users of an entry are users of its table.
Covered(d, H, U) ==
    \A e \in EntryIds : H[e] > 0 /\ d.ents[e].tab # Null => U[d.ents[e].tab] > 0

\* A place of a hash set is sound again when what it says of its entry is the same.
LEMMA SlotKept ==
    ASSUME NEW d, NEW r, NEW t, NEW h, NEW e, SlotOK(d, t, h),
           e = d.tabs[t].slot[h], r.tabs[t].slot[h] = e,
           e # Null => /\ r.ents[e].live = d.ents[e].live
                       /\ r.ents[e].deleted = d.ents[e].deleted
                       /\ r.ents[e].tab = d.ents[e].tab /\ r.ents[e].key = d.ents[e].key
                       /\ r.ents[e].writing = d.ents[e].writing /\ r.ents[e].len = d.ents[e].len,
           Unusable(d, t) => Unusable(r, t)
    PROVE  SlotOK(r, t, h)
  <1>1. CASE e = Null
    BY <1>1 DEF SlotOK
  <1>2. CASE e # Null
    <2>1. /\ d.ents[e].live /\ ~ d.ents[e].deleted
          /\ d.ents[e].tab = t /\ KeyHash[d.ents[e].key] = h
          /\ ~ Unusable(d, t) /\ ~ d.ents[e].writing => d.ents[e].len > 0
      BY <1>2, Zenon DEF SlotOK
    <2>2. /\ r.ents[e].live /\ ~ r.ents[e].deleted
          /\ r.ents[e].tab = t /\ KeyHash[r.ents[e].key] = h
      BY Zenon, <1>2, <2>1
    <2>3. ASSUME ~ Unusable(r, t), ~ r.ents[e].writing PROVE r.ents[e].len > 0
      <3>1. ~ Unusable(d, t) /\ ~ d.ents[e].writing
        BY <1>2, <2>3, Zenon
      <3>2. d.ents[e].len > 0
        BY <2>1, <3>1, Zenon
      <3> QED BY <1>2, <3>2, Zenon
    <2> QED BY <2>2, <2>3, ZenonT(60) DEF SlotOK
  <1> QED BY <1>1, <1>2

\* What two steps keep for users, both together keep.
LEMMA KeepsTrans ==
    ASSUME NEW d, NEW r, NEW q, NEW H, Keeps(d, r, H), Keeps(r, q, H)
    PROVE  Keeps(d, q, H)
  BY DEF Keeps

\* A step that keeps used entries keeps their tables used.
LEMMA KeepsCovered ==
    ASSUME NEW d, NEW r, NEW H, NEW U, Keeps(d, r, H), Covered(d, H, U)
    PROVE  Covered(r, H, U)
  BY DEF Keeps, Covered

\* The types of what the lemmas below read of a database.
LEMMA DbFields ==
    ASSUME NEW d \in Db
    PROVE  /\ \A e \in EntryIds :
                /\ d.ents[e].live \in BOOLEAN /\ d.ents[e].tab \in TableIds \cup {Null}
                /\ d.ents[e].key \in Keys \cup {Null} /\ d.ents[e].writing \in BOOLEAN
                /\ d.ents[e].deleted \in BOOLEAN /\ d.ents[e].refs \in Int
                /\ d.ents[e].len \in Nat /\ d.ents[e].block \in Blocks \cup {NoBlock, NewEntry}
           /\ \A t \in TableIds :
                /\ d.tabs[t].live \in BOOLEAN /\ d.tabs[t].refs \in Int
                /\ d.tabs[t].deleted \in BOOLEAN /\ d.tabs[t].name \in TableNames \cup {Null}
                /\ d.tabs[t].slot \in [Hashes -> Ptr]
                /\ \A h \in Hashes : d.tabs[t].slot[h] \in Ptr
           /\ d.used \in SUBSET Blocks
  BY DEF Db, Entry, Table

\* Changes outside the core keep the database sound.
LEMMA CoreSound ==
    ASSUME NEW d, NEW r, NEW H, NEW U, SameCore(d, r)
    PROVE  /\ Base(d, H, U) => Base(r, H, U)
           /\ NoZombie(d, H) => NoZombie(r, H)
           /\ Sound(d, H, U) => Sound(r, H, U)
           /\ Keeps(d, r, H)
  <1>1. \A e \in EntryIds : SameEntry(d, r, e)
    BY DEF SameCore
  <1>2. NoZombie(d, H) => NoZombie(r, H)
    BY <1>1 DEF NoZombie, SameEntry
  <1>3. Keeps(d, r, H)
    BY <1>1 DEF Keeps, SameEntry
  <1>4. ASSUME Base(d, H, U) PROVE Base(r, H, U)
    <2>1. r \in Db /\ r.tabs = d.tabs /\ r.used = d.used
      BY DEF SameCore
    <2>2. \A e \in EntryIds : EntryOK(r, H, e)
      BY <1>1, <1>4 DEF Base, EntryOK, SameEntry
    <2>3. BlocksOK(r)
      BY <1>1, <1>4, <2>1 DEF Base, BlocksOK, SameEntry
    <2>4. \A t \in TableIds, h \in Hashes : SlotOK(r, t, h)
      <3>1. d \in Db
        BY <1>4 DEF Base
      <3>2. ASSUME NEW t \in TableIds, NEW h \in Hashes PROVE SlotOK(r, t, h)
        <4>1. SlotOK(d, t, h) /\ d.tabs[t].slot[h] \in EntryIds \cup {Null}
          BY <1>4, <3>1, DbFields DEF Base, Ptr
        <4>2. Unusable(d, t) => Unusable(r, t)
          BY <2>1 DEF Unusable
        <4> QED BY <1>1, <2>1, <4>1, <4>2, SlotKept DEF SameEntry
      <3> QED BY <3>2
    <2>5. \A t \in TableIds : TableOK(r, U, t)
      BY <1>4, <2>1 DEF Base, TableOK, Entries
    <2> QED BY <1>4, <2>1, <2>2, <2>3, <2>4, <2>5 DEF Base
  <1> QED BY <1>2, <1>3, <1>4 DEF Sound

\* Counting fewer users of tables asks for less.
LEMMA FewerUses ==
    ASSUME NEW d, NEW H, NEW U, NEW V \in TableUses, Base(d, H, U),
           \A t \in TableIds : d.tabs[t].live /\ ~ d.tabs[t].deleted => V[t] <= U[t]
    PROVE  Base(d, H, V)
  <1>1. d \in Db /\ U \in [TableIds -> Nat] /\ V \in [TableIds -> Nat]
    BY DEF Base, TableUses
  <1>2. \A t \in TableIds : TableOK(d, V, t)
    <2> SUFFICES ASSUME NEW t \in TableIds PROVE TableOK(d, V, t)
      OBVIOUS
    <2>1. TableOK(d, U, t) /\ d.tabs[t].refs \in Int /\ U[t] \in Nat /\ V[t] \in Nat
          /\ d.tabs[t].live \in BOOLEAN /\ d.tabs[t].deleted \in BOOLEAN
      BY <1>1, DbFields DEF Base
    <2>2. d.tabs[t].live /\ ~ d.tabs[t].deleted => V[t] <= U[t]
      OBVIOUS
    <2> QED BY <2>1, <2>2 DEF TableOK
  <1> QED BY <1>2 DEF Base

-----------------------------------------------------------------------------
(* References.                                                             *)

\* r differs from d in the counts of entries only.
ButRefs(d, r) ==
    \A e \in EntryIds :
        /\ r.ents[e].live = d.ents[e].live /\ r.ents[e].tab = d.ents[e].tab
        /\ r.ents[e].key = d.ents[e].key /\ r.ents[e].writing = d.ents[e].writing
        /\ r.ents[e].deleted = d.ents[e].deleted
        /\ r.ents[e].len = d.ents[e].len /\ r.ents[e].block = d.ents[e].block

\* The count of an entry is set.
WithRefs(d, e, n) == [d EXCEPT !.ents[e].refs = n]

\* What assigning the count of an entry does.
LEMMA SetRefs ==
    ASSUME NEW d \in Db, NEW e \in EntryIds, NEW n \in Int
    PROVE  LET r == WithRefs(d, e, n)
           IN  /\ r \in Db /\ r.tabs = d.tabs /\ r.used = d.used
               /\ ButRefs(d, r) /\ r.ents[e].refs = n
               /\ \A f \in EntryIds : f # e => r.ents[f].refs = d.ents[f].refs
  <1> DEFINE r == WithRefs(d, e, n)
  <1>1. d.ents \in [EntryIds -> Entry]
    BY DEF Db
  <1>2. [d.ents[e] EXCEPT !.refs = n] \in Entry
    BY <1>1 DEF Entry
  <1>3. r = [d EXCEPT !.ents = [d.ents EXCEPT ![e] = [d.ents[e] EXCEPT !.refs = n]]]
    BY DEF Db, WithRefs
  <1>4. r.ents = [d.ents EXCEPT ![e] = [d.ents[e] EXCEPT !.refs = n]]
        /\ r.tabs = d.tabs /\ r.used = d.used
    BY <1>3 DEF Db
  <1>5. r \in Db
    BY <1>1, <1>2, <1>3 DEF Db
  <1> HIDE DEF r
  <1>6. \A f \in EntryIds : r.ents[f] = IF f = e THEN [d.ents[e] EXCEPT !.refs = n] ELSE d.ents[f]
    BY <1>1, <1>4
  <1>7. ButRefs(d, r) /\ r.ents[e].refs = n
        /\ \A f \in EntryIds : f # e => r.ents[f].refs = d.ents[f].refs
    BY <1>1, <1>6 DEF ButRefs, Entry
  <1> QED BY <1>4, <1>5, <1>7 DEF r

\* H counts as G does but for e.
ButFor(H, G, e) == G \in Counts /\ \A f \in EntryIds : f # e => G[f] = H[f]

\* One holder more, or less, is one reference more, or less.
LEMMA EntryCount ==
    ASSUME NEW d, NEW H, NEW U, Base(d, H, U), NEW e \in EntryIds,
           NEW n \in Nat, NEW G, ButFor(H, G, e), G[e] = n
    PROVE  LET r == WithRefs(d, e, n)
           IN  Base(r, G, U) /\ Keeps(d, r, H)
               /\ \A f \in EntryIds : /\ r.ents[f].live = d.ents[f].live
                                      /\ r.ents[f].deleted = d.ents[f].deleted
                                      /\ r.ents[f].tab = d.ents[f].tab
  <1> DEFINE r == WithRefs(d, e, n)
  <1>1. d \in Db /\ H \in [EntryIds -> Nat] /\ n \in Int
    BY DEF Base, Counts
  <1>2. /\ r \in Db /\ r.tabs = d.tabs /\ r.used = d.used
        /\ ButRefs(d, r) /\ r.ents[e].refs = n
        /\ \A f \in EntryIds : f # e => r.ents[f].refs = d.ents[f].refs
    BY <1>1, SetRefs
  <1>3. G \in Counts /\ G[e] = n /\ \A f \in EntryIds : f # e => G[f] = H[f]
    BY DEF ButFor
  <1> HIDE DEF r
  <1>4. \A f \in EntryIds : EntryOK(r, G, f)
    <2>1. \A f \in EntryIds : EntryOK(d, H, f)
      BY DEF Base
    <2> QED BY <1>2, <1>3, <2>1 DEF EntryOK, ButRefs
  <1>5. BlocksOK(r)
    <2>1. BlocksOK(d)
      BY DEF Base
    <2> QED BY <1>2, <2>1 DEF BlocksOK, ButRefs
  <1>6. \A t \in TableIds, h \in Hashes : SlotOK(r, t, h)
    <2>1. \A t \in TableIds, h \in Hashes : d.tabs[t].slot[h] \in EntryIds \cup {Null}
      BY <1>1, DbFields DEF Ptr
    <2>2. \A t \in TableIds, h \in Hashes : SlotOK(d, t, h)
      BY DEF Base
    <2>3. ASSUME NEW t \in TableIds, NEW h \in Hashes PROVE SlotOK(r, t, h)
      <3>1. Unusable(d, t) => Unusable(r, t)
        BY <1>2 DEF Unusable
      <3> QED BY <1>2, <2>1, <2>2, <3>1, SlotKept DEF ButRefs
    <2> QED BY <2>3
  <1>7. \A t \in TableIds : TableOK(r, U, t)
    <2>1. \A t \in TableIds : TableOK(d, U, t)
      BY DEF Base
    <2>2. \A t \in TableIds : Entries(r, t) = Entries(d, t)
      BY <1>2 DEF Entries
    <2> QED BY <1>2, <2>1, <2>2 DEF TableOK
  <1>8. Base(r, G, U)
    BY <1>2, <1>3, <1>4, <1>5, <1>6, <1>7 DEF Base
  <1>9. Keeps(d, r, H)
    BY <1>2 DEF Keeps, ButRefs
  <1>10. \A f \in EntryIds : /\ r.ents[f].live = d.ents[f].live
                             /\ r.ents[f].deleted = d.ents[f].deleted
                             /\ r.ents[f].tab = d.ents[f].tab
    BY <1>2 DEF ButRefs
  <1> QED BY <1>8, <1>9, <1>10 DEF r

\* The count of a table is set.
LEMMA SetTableRefs ==
    ASSUME NEW d \in Db, NEW t \in TableIds, NEW n \in Int
    PROVE  LET r == [d EXCEPT !.tabs[t].refs = n]
           IN  /\ r \in Db /\ r.ents = d.ents /\ r.used = d.used
               /\ \A s \in TableIds : s # t => r.tabs[s] = d.tabs[s]
               /\ r.tabs[t].live = d.tabs[t].live /\ r.tabs[t].name = d.tabs[t].name
               /\ r.tabs[t].deleted = d.tabs[t].deleted /\ r.tabs[t].slot = d.tabs[t].slot
               /\ r.tabs[t].refs = n
  BY DEF Db, Table

\* Assigning a large enough count to a table.
LEMMA TableCount ==
    ASSUME NEW d, NEW H, NEW U, Base(d, H, U), NEW t \in TableIds,
           NEW n \in Int, NEW V \in TableUses, \A s \in TableIds : s # t => V[s] = U[s],
           n >= CASE ~ d.tabs[t].live -> 0
                  [] d.tabs[t].live /\ d.tabs[t].deleted -> 1
                  [] d.tabs[t].live /\ ~ d.tabs[t].deleted ->
                         V[t] + (IF Entries(d, t) = {} THEN 0 ELSE 1)
    PROVE  LET r == [d EXCEPT !.tabs[t].refs = n]
           IN  Base(r, H, V) /\ Keeps(d, r, H) /\ r.ents = d.ents
  <1> DEFINE r == [d EXCEPT !.tabs[t].refs = n]
  <1>1. d \in Db
    BY DEF Base
  <1>2. /\ r \in Db /\ r.ents = d.ents /\ r.used = d.used
        /\ \A s \in TableIds : s # t => r.tabs[s] = d.tabs[s]
        /\ r.tabs[t].live = d.tabs[t].live /\ r.tabs[t].name = d.tabs[t].name
        /\ r.tabs[t].deleted = d.tabs[t].deleted /\ r.tabs[t].slot = d.tabs[t].slot
        /\ r.tabs[t].refs = n
    BY <1>1, SetTableRefs
  <1> HIDE DEF r
  <1>3. \A s \in TableIds : r.tabs[s].slot = d.tabs[s].slot
    BY <1>2
  <1>4. \A s \in TableIds : Entries(r, s) = Entries(d, s)
    BY <1>3 DEF Entries
  <1>5. \A s \in TableIds : TableOK(r, V, s)
    <2> SUFFICES ASSUME NEW s \in TableIds PROVE TableOK(r, V, s)
      OBVIOUS
    <2>1. CASE s = t
      BY <1>2, <1>4, <2>1 DEF TableOK
    <2>2. CASE s # t
      BY SMTT(60), <1>2, <1>4, <2>2 DEF TableOK, Base
    <2> QED BY <2>1, <2>2
  <1>6. \A s \in TableIds, h \in Hashes : SlotOK(r, s, h)
    <2> SUFFICES ASSUME NEW s \in TableIds, NEW h \in Hashes PROVE SlotOK(r, s, h)
      OBVIOUS
    <2>1. SlotOK(d, s, h) /\ r.tabs[s].slot[h] = d.tabs[s].slot[h]
      BY <1>3 DEF Base
    <2>2. Unusable(r, s) <=> Unusable(d, s)
      BY <1>2 DEF Unusable
    <2> QED BY Zenon, <1>2, <2>1, <2>2 DEF SlotOK
  <1>7. BlocksOK(r) /\ \A e \in EntryIds : EntryOK(r, H, e)
    BY <1>2 DEF BlocksOK, EntryOK, Base
  <1>8. Keeps(d, r, H)
    BY <1>2 DEF Keeps
  <1>9. Base(r, H, V)
    BY <1>2, <1>5, <1>6, <1>7 DEF Base
  <1> QED BY <1>2, <1>8, <1>9 DEF r

\* A fault changes nothing else.
LEMMA FaultCore ==
    ASSUME NEW d \in Db, NEW what \in Faults
    PROVE  SameCore(d, Fault(d, what))
  BY DEF Db, Fault, SameCore, SameEntry

\* Taking a reference on a table, by its name or with an entry.
LEMMA TableIncref ==
    ASSUME NEW d, NEW H, NEW U, Base(d, H, U), NEW t \in TableIds,
           NEW V \in TableUses, V[t] <= U[t] + 1, \A s \in TableIds : s # t => V[s] = U[s]
    PROVE  LET r == db_table_incref(d, t)
           IN  /\ Base(r, H, V) /\ Keeps(d, r, H) /\ r.ents = d.ents
  <1> DEFINE n == d.tabs[t].refs + 1
             r == [d EXCEPT !.tabs[t].refs = n]
  <1>1. d \in Db /\ U \in [TableIds -> Nat] /\ TableOK(d, U, t)
    BY DEF Base, TableUses
  <1>2. d.tabs[t].refs \in Int /\ d.tabs[t].live \in BOOLEAN /\ d.tabs[t].deleted \in BOOLEAN
    BY <1>1, DbFields
  <1>3. V[t] \in Nat /\ U[t] \in Nat
    BY <1>1 DEF TableUses
  <1>4. n \in Int
    BY <1>2
  <1>5. n >= CASE ~ d.tabs[t].live -> 0
               [] d.tabs[t].live /\ d.tabs[t].deleted -> 1
               [] d.tabs[t].live /\ ~ d.tabs[t].deleted ->
                      V[t] + (IF Entries(d, t) = {} THEN 0 ELSE 1)
    BY <1>1, <1>2, <1>3 DEF TableOK
  <1>6. db_table_incref(d, t) = r
    BY DEF db_table_incref
  <1> HIDE DEF n
  <1>7. Base(r, H, V) /\ Keeps(d, r, H) /\ r.ents = d.ents
    BY <1>4, <1>5, TableCount
  <1> QED BY <1>6, <1>7

\* The table is freed.
LEMMA TableDrop ==
    ASSUME NEW d, NEW H, NEW U, Base(d, H, U), NEW t \in TableIds
    PROVE  LET r == db_table_actually_delete(d, t)
           IN  Base(r, H, U) /\ Keeps(d, r, H) /\ r.ents = d.ents
  <1> DEFINE r == db_table_actually_delete(d, t)
  <1>1. d \in Db
    BY DEF Base
  <1>2. r.ents = d.ents /\ r.used = d.used
    BY <1>1 DEF db_table_actually_delete, Db
  <1>3. r.tabs = [d.tabs EXCEPT ![t] = DeadTable]
    BY <1>1 DEF db_table_actually_delete, Db
  <1>4. DeadTable \in Table
    <2>1. [h \in Hashes |-> Null] \in [Hashes -> Ptr]
      BY DEF Ptr
    <2> QED BY <2>1 DEF DeadTable, Table
  <1>5. r \in Db
    <2>1. /\ [d.tables EXCEPT ![d.tabs[t].name] = Null] \in [TableNames -> TableIds \cup {Null}]
          /\ [d.tabs EXCEPT ![t] = DeadTable] \in [TableIds -> Table]
      BY <1>1, <1>4 DEF Db
    <2> QED BY <1>1, <2>1 DEF db_table_actually_delete, Db
  <1>6. \A s \in TableIds : r.tabs[s] = IF s = t THEN DeadTable ELSE d.tabs[s]
    BY <1>1, <1>3 DEF Db
  <1> HIDE DEF r
  <1>7. \A s \in TableIds : TableOK(r, U, s)
    <2> SUFFICES ASSUME NEW s \in TableIds PROVE TableOK(r, U, s)
      OBVIOUS
    <2>1. CASE s = t
      BY <1>6, <2>1 DEF TableOK, DeadTable
    <2>2. CASE s # t
      <3>1. r.tabs[s] = d.tabs[s] /\ TableOK(d, U, s)
        BY <1>6, <2>2 DEF Base
      <3>2. Entries(r, s) = Entries(d, s)
        BY <3>1 DEF Entries
      <3> QED BY <3>1, <3>2 DEF TableOK
    <2> QED BY <2>1, <2>2
  <1>8. \A s \in TableIds, h \in Hashes : SlotOK(r, s, h)
    <2> SUFFICES ASSUME NEW s \in TableIds, NEW h \in Hashes PROVE SlotOK(r, s, h)
      BY SMTT(60)
    <2>1. CASE s = t
      BY <1>6, <2>1 DEF SlotOK, DeadTable
    <2>2. CASE s # t
      <3>1. SlotOK(d, s, h) /\ r.tabs[s] = d.tabs[s]
        BY <1>6, <2>2 DEF Base
      <3>2. Unusable(d, s) => Unusable(r, s)
        BY <3>1 DEF Unusable
      <3> QED BY <1>2, <3>1, <3>2, SlotKept
    <2> QED BY <2>1, <2>2
  <1>9. BlocksOK(r) /\ \A e \in EntryIds : EntryOK(r, H, e)
    BY <1>2 DEF BlocksOK, EntryOK, Base
  <1>10. Base(r, H, U)
    BY <1>5, <1>7, <1>8, <1>9 DEF Base
  <1>11. Keeps(d, r, H)
    BY <1>2 DEF Keeps
  <1> QED BY <1>2, <1>10, <1>11 DEF r

\* Giving a reference on a table back.
LEMMA TableDeref ==
    ASSUME NEW d, NEW H, NEW U, Base(d, H, U), NEW t \in TableIds,
           NEW actually_delete \in BOOLEAN,
           NEW V \in TableUses, \A s \in TableIds : s # t => V[s] = U[s],
           d.tabs[t].live /\ ~ d.tabs[t].deleted => V[t] + 1 <= U[t]
    PROVE  LET r == db_table_deref(d, t, actually_delete)
           IN  Base(r, H, V) /\ Keeps(d, r, H)
               /\ \A e \in EntryIds : SameEntry(d, r, e)
  <1> DEFINE n == d.tabs[t].refs - 1
             d1 == [d EXCEPT !.tabs[t].refs = n]
  <1>1. d \in Db /\ U \in [TableIds -> Nat] /\ TableOK(d, U, t) /\ V \in [TableIds -> Nat]
    BY DEF Base, TableUses
  <1>2. d.tabs[t].refs \in Int /\ d.tabs[t].live \in BOOLEAN /\ d.tabs[t].deleted \in BOOLEAN
    BY <1>1, DbFields
  <1>3. /\ d1 \in Db /\ d1.ents = d.ents /\ d1.used = d.used
        /\ \A s \in TableIds : s # t => d1.tabs[s] = d.tabs[s]
        /\ d1.tabs[t].live = d.tabs[t].live /\ d1.tabs[t].name = d.tabs[t].name
        /\ d1.tabs[t].deleted = d.tabs[t].deleted /\ d1.tabs[t].slot = d.tabs[t].slot
        /\ d1.tabs[t].refs = n
    <2>1. n \in Int
      BY <1>2
    <2> HIDE DEF n
    <2> QED BY <1>1, <2>1, SetTableRefs
  <1>4. CASE ~ d.tabs[t].live
    <2>1. db_table_deref(d, t, actually_delete) = Fault(d, "freed table")
      BY <1>4 DEF db_table_deref
    <2>2. SameCore(d, Fault(d, "freed table"))
      BY <1>1, FaultCore DEF Faults
    <2>3. Base(d, H, V)
      <3>1. \A s \in TableIds : d.tabs[s].live /\ ~ d.tabs[s].deleted => V[s] <= U[s]
        BY SMTT(60), <1>1, <1>4
      <3> QED BY <3>1, FewerUses
    <2> QED BY <2>1, <2>2, <2>3, CoreSound DEF SameCore
  <1>5. CASE d.tabs[t].live /\ n = 0 /\ (actually_delete \/ d.tabs[t].deleted)
    <2>1. db_table_deref(d, t, actually_delete) = db_table_actually_delete(d1, t)
      BY <1>3, <1>5 DEF db_table_deref
    <2>2. db_table_actually_delete(d1, t) = db_table_actually_delete(d, t)
      <3>1. d1 = [d EXCEPT !.tabs = [d.tabs EXCEPT ![t] = [d.tabs[t] EXCEPT !.refs = n]]]
        BY <1>1 DEF Db
      <3>2. [d1.tabs EXCEPT ![t] = DeadTable] = [d.tabs EXCEPT ![t] = DeadTable]
        BY <1>1, <3>1 DEF Db
      <3> DEFINE A == [d.tables EXCEPT ![d.tabs[t].name] = Null]
                 B == [d.tabs EXCEPT ![t] = DeadTable]
      <3>3. db_table_actually_delete(d, t) = [d EXCEPT !.tables = A, !.tabs = B]
        BY <1>1 DEF db_table_actually_delete, Db
      <3>4. d1.tables = d.tables
        BY <1>1, <3>1 DEF Db
      <3>5. db_table_actually_delete(d1, t) = [d1 EXCEPT !.tables = A, !.tabs = B]
        <4>1. [d1.tables EXCEPT ![d1.tabs[t].name] = Null] = A
          BY <1>3, <3>4
        <4> HIDE DEF A, B, d1
        <4> QED BY <1>3, <3>2, <4>1 DEF db_table_actually_delete, Db, B
      <3> HIDE DEF A, B
      <3>6. [d1 EXCEPT !.tables = A, !.tabs = B] = [d EXCEPT !.tables = A, !.tabs = B]
        BY <1>1, <3>1 DEF Db
      <3> QED BY <3>3, <3>5, <3>6
    <2> DEFINE r == db_table_actually_delete(d, t)
    <2>3. Base(r, H, U) /\ Keeps(d, r, H) /\ r.ents = d.ents
      BY TableDrop
    <2>4. \A s \in TableIds : r.tabs[s] = IF s = t THEN DeadTable ELSE d.tabs[s]
      BY <1>1 DEF db_table_actually_delete, Db
    <2>5. \A s \in TableIds : r.tabs[s].live /\ ~ r.tabs[s].deleted => V[s] <= U[s]
      BY <1>1, <2>4 DEF DeadTable
    <2> HIDE DEF r
    <2>6. Base(r, H, V)
      BY <2>3, <2>5, FewerUses
    <2> QED BY <2>1, <2>2, <2>3, <2>6 DEF r, SameEntry
  <1>6. CASE d.tabs[t].live /\ ~ (n = 0 /\ (actually_delete \/ d.tabs[t].deleted))
    <2>1. db_table_deref(d, t, actually_delete) = d1
      BY <1>3, <1>6 DEF db_table_deref
    <2>2. n \in Int
      BY <1>2
    <2>3. n >= CASE ~ d.tabs[t].live -> 0
                 [] d.tabs[t].live /\ d.tabs[t].deleted -> 1
                 [] d.tabs[t].live /\ ~ d.tabs[t].deleted ->
                        V[t] + (IF Entries(d, t) = {} THEN 0 ELSE 1)
      <3>1. U[t] \in Nat /\ V[t] \in Nat
        BY <1>1
      <3>2. CASE d.tabs[t].deleted
        BY <1>1, <1>2, <1>6, <3>2 DEF TableOK
      <3>3. CASE ~ d.tabs[t].deleted
        BY <1>1, <1>2, <1>6, <3>1, <3>3 DEF TableOK
      <3> QED BY <3>2, <3>3
    <2> HIDE DEF n
    <2>4. Base(d1, H, V) /\ Keeps(d, d1, H) /\ d1.ents = d.ents
      BY <2>2, <2>3, TableCount
    <2> QED BY <2>1, <2>4 DEF SameEntry
  <1> QED BY <1>4, <1>5, <1>6

\* kh_destroy: the table is marked, and nobody finds it any more.
LEMMA TableMark ==
    ASSUME NEW d, NEW H, NEW U, Base(d, H, U), NEW t \in TableIds,
           d.tabs[t].live => d.tabs[t].refs > 0
    PROVE  LET r == [AssertNamed(d, t) EXCEPT !.tabs[t].deleted = TRUE,
                                              !.tables[d.tabs[t].name] = Null]
           IN  Base(r, H, U) /\ r.ents = d.ents /\ r.tabs[t].deleted
  <1> DEFINE x == [d.tabs[t] EXCEPT !.deleted = TRUE]
             b == d.nameless \/ d.tables[d.tabs[t].name] = Null
             r == [AssertNamed(d, t) EXCEPT !.tabs[t].deleted = TRUE,
                                            !.tables[d.tabs[t].name] = Null]
  <1>1. d \in Db
    BY DEF Base
  <1>2. d.tabs[t] \in Table
    BY <1>1 DEF Db
  <1>3. x \in Table /\ x.slot = d.tabs[t].slot /\ x.live = d.tabs[t].live
        /\ x.refs = d.tabs[t].refs /\ x.deleted
    BY <1>2 DEF Table
  <1>4. /\ [d.tables EXCEPT ![d.tabs[t].name] = Null] \in [TableNames -> TableIds \cup {Null}]
        /\ [d.tabs EXCEPT ![t] = x] \in [TableIds -> Table]
    <2> HIDE DEF x
    <2> QED BY <1>1, <1>3 DEF Db
  <1>5. r = [d EXCEPT !.nameless = b, !.tabs = [d.tabs EXCEPT ![t] = x],
                      !.tables = [d.tables EXCEPT ![d.tabs[t].name] = Null]]
    BY <1>1 DEF Db, AssertNamed
  <1>6. r \in Db /\ r.ents = d.ents /\ r.used = d.used
        /\ \A s \in TableIds : r.tabs[s] = IF s = t THEN x ELSE d.tabs[s]
    <2>1. b \in BOOLEAN
      BY <1>1 DEF Db
    <2> HIDE DEF b, x
    <2> QED BY ZenonT(60), <1>1, <1>4, <1>5, <2>1 DEF Db
  <1> HIDE DEF r, x
  <1>7. \A s \in TableIds : r.tabs[s].slot = d.tabs[s].slot
    BY <1>3, <1>6
  <1>8. \A s \in TableIds : TableOK(r, U, s)
    <2> SUFFICES ASSUME NEW s \in TableIds PROVE TableOK(r, U, s)
      OBVIOUS
    <2>0. TableOK(d, U, s) /\ d.tabs[s].refs \in Int
      BY <1>1, DbFields DEF Base
    <2>1. CASE s = t
      <3>1. r.tabs[s].live = d.tabs[s].live /\ r.tabs[s].refs = d.tabs[s].refs /\ r.tabs[s].deleted
        BY <1>3, <1>6, <2>1
      <3>2. d.tabs[s].live \in BOOLEAN
        BY <1>1, DbFields
      <3> QED BY <2>0, <2>1, <3>1, <3>2 DEF TableOK
    <2>2. CASE s # t
      <3>1. Entries(r, s) = Entries(d, s)
        BY <1>7 DEF Entries
      <3> QED BY <1>6, <2>0, <2>2, <3>1 DEF TableOK
    <2> QED BY <2>1, <2>2
  <1>9. \A s \in TableIds, h \in Hashes : SlotOK(r, s, h)
    <2>1. \A s \in TableIds, h \in Hashes : SlotOK(d, s, h)
      BY DEF Base
    <2> SUFFICES ASSUME NEW s \in TableIds, NEW h \in Hashes PROVE SlotOK(r, s, h)
      OBVIOUS
    <2>2. Unusable(d, s) => Unusable(r, s)
      BY <1>3, <1>6 DEF Unusable
    <2> QED BY <1>6, <1>7, <2>1, <2>2, SlotKept
  <1>10. BlocksOK(r) /\ \A e \in EntryIds : EntryOK(r, H, e)
    BY <1>6 DEF BlocksOK, EntryOK, Base
  <1>11. Base(r, H, U)
    BY <1>6, <1>8, <1>9, <1>10 DEF Base
  <1> QED BY <1>3, <1>6, <1>11 DEF r

\* A table goes with the reference that its keys held.
LEMMA DeleteTable ==
    ASSUME NEW d, NEW H, NEW U, Base(d, H, U), NEW t \in TableIds,
           d.tabs[t].live => d.tabs[t].refs > 0
    PROVE  LET r == db_delete_table_entry(d, t)
           IN  Base(r, H, U) /\ Keeps(d, r, H) /\ \A e \in EntryIds : SameEntry(d, r, e)
  <1> DEFINE d1 == [AssertNamed(d, t) EXCEPT !.tabs[t].deleted = TRUE,
                                             !.tables[d.tabs[t].name] = Null]
             r == db_table_deref(d1, t, TRUE)
  <1>1. Base(d1, H, U) /\ d1.ents = d.ents /\ d1.tabs[t].deleted
    BY TableMark
  <1> HIDE DEF d1
  <1>2. U \in TableUses
    BY DEF Base
  <1>3. Base(r, H, U) /\ Keeps(d1, r, H) /\ \A e \in EntryIds : SameEntry(d1, r, e)
    BY <1>1, <1>2, TableDeref
  <1>4. db_delete_table_entry(d, t) = r
    BY DEF db_delete_table_entry, d1
  <1> HIDE DEF r
  <1>5. Keeps(d, r, H) /\ \A e \in EntryIds : SameEntry(d, r, e)
    BY <1>1, <1>3 DEF Keeps, SameEntry
  <1> QED BY <1>3, <1>4, <1>5

\* Another holder of an entry.
LEMMA EntryIncref ==
    ASSUME NEW d, NEW H, NEW U, Base(d, H, U), NEW e \in EntryIds,
           NEW G, ButFor(H, G, e), G[e] = H[e] + 1
    PROVE  LET r == db_entry_incref(d, e, FALSE)
           IN  /\ Base(r, G, U) /\ Keeps(d, r, H)
               /\ NoZombie(d, H) => NoZombie(r, G)
               /\ \A f \in EntryIds : /\ r.ents[f].live = d.ents[f].live
                                      /\ r.ents[f].deleted = d.ents[f].deleted
                                      /\ r.ents[f].tab = d.ents[f].tab
               /\ r.tabs = d.tabs
  <1> DEFINE n == G[e]
             r == WithRefs(d, e, n)
  <1>1. H \in [EntryIds -> Nat] /\ EntryOK(d, H, e) /\ d \in Db
    BY DEF Base, Counts
  <1>2. n \in Nat /\ n = d.ents[e].refs + 1 /\ n > 0 /\ n \in Int
    BY <1>1 DEF EntryOK
  <1>3. db_entry_incref(d, e, FALSE) = r
    BY <1>2 DEF db_entry_incref, WithRefs
  <1> HIDE DEF n
  <1>4. Base(r, G, U) /\ Keeps(d, r, H)
        /\ \A f \in EntryIds : /\ r.ents[f].live = d.ents[f].live
                               /\ r.ents[f].deleted = d.ents[f].deleted
                               /\ r.ents[f].tab = d.ents[f].tab
    BY <1>2, EntryCount DEF n
  <1>5. r.tabs = d.tabs
    BY <1>1, <1>2, SetRefs
  <1> HIDE DEF r
  <1>6. NoZombie(d, H) => NoZombie(r, G)
    BY <1>2, <1>4 DEF NoZombie, ButFor, n
  <1> QED BY <1>3, <1>4, <1>5, <1>6

\* A deleted entry without holders is freed, and its block with it.
LEMMA FreeEntry ==
    ASSUME NEW d, NEW H, NEW U, Base(d, H, U), NEW e \in EntryIds,
           d.ents[e].live => d.ents[e].deleted, H[e] = 0
    PROVE  LET r == db_entry_actually_delete(d, e)
           IN  /\ Base(r, H, U) /\ Keeps(d, r, H) /\ ~ r.ents[e].live
               /\ r.tabs = d.tabs
               /\ \A f \in EntryIds : f # e => r.ents[f] = d.ents[f]
  <1> DEFINE r == db_entry_actually_delete(d, e)
  <1>1. d \in Db /\ d.used \in SUBSET Blocks /\ DOMAIN H = EntryIds
    BY DbFields DEF Base, Counts
  <1>2. DeadEntry \in Entry
    BY DEF DeadEntry, Entry, Ptr
  <1>3. [d.ents EXCEPT ![e] = DeadEntry] \in [EntryIds -> Entry]
    BY <1>1, <1>2 DEF Db
  <1>4. r = [d EXCEPT !.orphan = d.orphan \/ d.ents[e].file, !.used = d.used \ {d.ents[e].block},
                      !.ents = [d.ents EXCEPT ![e] = DeadEntry]]
    BY <1>1 DEF db_entry_actually_delete, Orphan, Db
  <1>5. /\ r \in Db /\ r.tabs = d.tabs /\ r.used = d.used \ {d.ents[e].block}
        /\ r.ents = [d.ents EXCEPT ![e] = DeadEntry]
    <2>1. (d.orphan \/ d.ents[e].file) \in BOOLEAN
      OBVIOUS
    <2>2. d.used \ {d.ents[e].block} \in SUBSET Blocks
      BY <1>1
    <2> QED BY <1>1, <1>3, <1>4, <2>1, <2>2 DEF Db
  <1>6. r.ents[e] = DeadEntry /\ \A f \in EntryIds : f # e => r.ents[f] = d.ents[f]
    BY <1>1, <1>5 DEF Db
  <1> HIDE DEF r
  <1>7. \A f \in EntryIds : EntryOK(r, H, f)
    <2> SUFFICES ASSUME NEW f \in EntryIds PROVE EntryOK(r, H, f)
      OBVIOUS
    <2>1. CASE f = e
      BY <1>6, <2>1 DEF EntryOK, DeadEntry
    <2>2. CASE f # e
      BY <1>6, <2>2 DEF EntryOK, Base
    <2> QED BY <2>1, <2>2
  <1>8. BlocksOK(r)
    <2>1. BlocksOK(d)
      BY DEF Base
    <2>2. \A f \in EntryIds : r.ents[f].live <=> f # e /\ d.ents[f].live
      BY <1>1, <1>6, DbFields DEF DeadEntry
    <2>3. r.used = {r.ents[f].block : f \in {g \in EntryIds : r.ents[g].live}} \cap Blocks
      <3>1. ASSUME NEW b \in r.used
            PROVE  b \in Blocks /\ \E f \in EntryIds : r.ents[f].live /\ r.ents[f].block = b
        <4>1. b \in d.used /\ b # d.ents[e].block
          BY <1>5, <3>1
        <4>2. PICK f \in EntryIds : d.ents[f].live /\ d.ents[f].block = b
          BY <2>1, <4>1 DEF BlocksOK
        <4>3. f # e
          BY <4>1, <4>2
        <4>4. r.ents[f].live /\ r.ents[f].block = b
          BY <1>6, <2>2, <4>2, <4>3
        <4> QED BY <1>1, <4>1, <4>4
      <3>2. ASSUME NEW f \in EntryIds, r.ents[f].live, r.ents[f].block \in Blocks
            PROVE  r.ents[f].block \in r.used
        <4>1. f # e /\ d.ents[f].live /\ r.ents[f] = d.ents[f]
          BY <1>6, <2>2, <3>2
        <4>2. d.ents[f].block \in d.used
          BY <2>1, <3>2, <4>1 DEF BlocksOK
        <4>3. d.ents[f].block # d.ents[e].block
          <5>1. CASE d.ents[e].live
            BY <2>1, <3>2, <4>1, <5>1 DEF BlocksOK
          <5>2. CASE ~ d.ents[e].live
            <6>1. d.ents[e].block = NewEntry
              BY <5>2 DEF Base, EntryOK
            <6>2. NewEntry \notin Blocks
              BY DbAssumption DEF NewEntry
            <6> QED BY <3>2, <4>1, <6>1, <6>2
          <5> QED BY <5>1, <5>2
        <4> QED BY <1>5, <4>1, <4>2, <4>3
      <3> QED BY <3>1, <3>2
    <2>4. \A f, g \in EntryIds : r.ents[f].live /\ r.ents[g].live /\ r.ents[f].block \in Blocks
                                  /\ r.ents[f].block = r.ents[g].block => f = g
      BY <1>6, <2>1, <2>2 DEF BlocksOK
    <2> QED BY <2>3, <2>4 DEF BlocksOK
  <1>9. \A t \in TableIds, h \in Hashes : SlotOK(r, t, h)
    <2> SUFFICES ASSUME NEW t \in TableIds, NEW h \in Hashes PROVE SlotOK(r, t, h)
      OBVIOUS
    <2>1. SlotOK(d, t, h) /\ d.tabs[t].slot[h] \in Ptr
      BY <1>1, DbFields DEF Base
    <2>2. d.tabs[t].slot[h] # e
      BY <2>1, DbAssumption DEF SlotOK
    <2>3. Unusable(d, t) => Unusable(r, t)
      BY <1>5 DEF Unusable
    <2> DEFINE f == d.tabs[t].slot[h]
    <2>4. f # Null => r.ents[f] = d.ents[f]
      BY <1>6, <2>1, <2>2 DEF Ptr
    <2>5. r.tabs[t].slot[h] = f
      BY <1>5
    <2> HIDE DEF f
    <2> QED BY <2>1, <2>3, <2>4, <2>5, SlotKept DEF f
  <1>10. \A t \in TableIds : TableOK(r, U, t)
    <2>1. \A t \in TableIds : Entries(r, t) = Entries(d, t)
      BY <1>5 DEF Entries
    <2> QED BY <1>5, <2>1 DEF TableOK, Base
  <1>11. Base(r, H, U)
    BY <1>5, <1>7, <1>8, <1>9, <1>10 DEF Base
  <1>12. Keeps(d, r, H)
    BY <1>6 DEF Keeps
  <1>13. ~ r.ents[e].live
    BY <1>6 DEF DeadEntry
  <1> QED BY <1>5, <1>6, <1>11, <1>12, <1>13 DEF r

\* A holder of an entry leaves, with its reference on the table or without.
LEMMA EntryDeref ==
    ASSUME NEW d, NEW H, NEW U, Sound(d, H, U), NEW e \in EntryIds, H[e] > 0,
           NEW table \in BOOLEAN, NEW V \in TableUses,
           \A s \in TableIds : V[s] = U[s] \/ (table /\ s = d.ents[e].tab),
           \A s \in TableIds : table /\ s = d.ents[e].tab /\ d.tabs[s].live /\ ~ d.tabs[s].deleted
               => V[s] + 1 <= U[s],
           NEW G, ButFor(H, G, e), G[e] = H[e] - 1
    PROVE  LET r == db_entry_deref(d, e, table)
           IN  Sound(r, G, V) /\ Keeps(d, r, G)
  <1> DEFINE n  == G[e]
             d1 == WithRefs(d, e, n)
             t  == d.ents[e].tab
             d2 == IF table /\ t # Null THEN db_table_deref(d1, t, FALSE) ELSE d1
  <1>1. /\ d \in Db /\ Base(d, H, U) /\ NoZombie(d, H) /\ H \in [EntryIds -> Nat]
        /\ EntryOK(d, H, e) /\ U \in [TableIds -> Nat]
    BY DEF Sound, Base, Counts, TableUses
  <1>2. n \in Nat /\ n = d.ents[e].refs - 1 /\ t \in TableIds \cup {Null}
    BY <1>1, DbFields DEF EntryOK, ButFor, Counts
  <1>3. G[e] = n /\ (\A f \in EntryIds : f # e => G[f] = H[f]) /\ \A f \in EntryIds : G[f] > 0 => H[f] > 0
    BY <1>1 DEF ButFor
  <1>4. Base(d1, G, U) /\ Keeps(d, d1, H)
        /\ \A f \in EntryIds : /\ d1.ents[f].live = d.ents[f].live
                               /\ d1.ents[f].deleted = d.ents[f].deleted
                               /\ d1.ents[f].tab = d.ents[f].tab
    <2> HIDE DEF n
    <2> QED BY <1>1, <1>2, <1>3, EntryCount
  <1>5. d1.tabs = d.tabs /\ d1.ents[e].refs = n
    <2>1. n \in Int
      BY <1>2
    <2> HIDE DEF n
    <2> QED BY <1>1, <2>1, SetRefs
  <1>10. n # 0 => n > 0
    <2>1. n \in Nat
      BY <1>2
    <2> HIDE DEF n
    <2> QED BY <2>1
  <1> HIDE DEF d1, n
  <1>6. Base(d2, G, V) /\ Keeps(d1, d2, G) /\ \A f \in EntryIds : SameEntry(d1, d2, f)
    <2>1. CASE table /\ t # Null
      <3>1. t \in TableIds
        BY <1>2, <2>1
      <3>2. \A s \in TableIds : s # t => V[s] = U[s]
        OBVIOUS
      <3>3. d1.tabs[t].live /\ ~ d1.tabs[t].deleted => V[t] + 1 <= U[t]
        BY SMTT(60), <1>5, <2>1, <3>1
      <3> HIDE DEF t
      <3> QED BY <1>4, <2>1, <3>1, <3>2, <3>3, TableDeref
    <2>2. CASE ~ (table /\ t # Null)
      <3>1. \A s \in TableIds : V[s] = U[s]
        BY <2>2, DbAssumption
      <3>2. Base(d1, G, V)
        <4>1. \A s \in TableIds : U[s] \in Nat
          BY <1>1
        <4>2. \A s \in TableIds : d1.tabs[s].live /\ ~ d1.tabs[s].deleted => V[s] <= U[s]
          BY SMTT(60), <3>1, <4>1
        <4> QED BY <1>4, <4>2, FewerUses
      <3> QED BY <2>2, <3>2 DEF Keeps, SameEntry
    <2> QED BY <2>1, <2>2
  <1>7. /\ d2.ents[e].refs = n
        /\ d2.ents[e].deleted = d.ents[e].deleted
        /\ \A f \in EntryIds : d2.ents[f].live = d.ents[f].live /\ d2.ents[f].deleted = d.ents[f].deleted
    BY ZenonT(60), <1>2, <1>4, <1>5, <1>6 DEF SameEntry
  <1>8. Keeps(d, d2, G)
    <2>1. Keeps(d, d1, G)
      BY <1>3, <1>4 DEF Keeps
    <2> QED BY <1>6, <2>1, KeepsTrans
  <1>9. db_entry_deref(d, e, table) = IF d2.ents[e].refs = 0 /\ d2.ents[e].deleted
                                     THEN db_entry_actually_delete(d2, e) ELSE d2
    BY <1>2 DEF db_entry_deref, d1, WithRefs
  <1> HIDE DEF d2
  <1>11. CASE n = 0 /\ d2.ents[e].deleted
    <2> DEFINE r == db_entry_actually_delete(d2, e)
    <2>1. Base(r, G, V) /\ Keeps(d2, r, G) /\ ~ r.ents[e].live
          /\ \A f \in EntryIds : f # e => r.ents[f] = d2.ents[f]
      BY <1>3, <1>6, <1>7, <1>11, FreeEntry
    <2> HIDE DEF r
    <2>2. NoZombie(r, G)
      BY <1>1, <1>3, <1>7, <2>1 DEF NoZombie
    <2>3. db_entry_deref(d, e, table) = r
      BY <1>7, <1>9, <1>11 DEF r
    <2> QED BY <1>8, <2>1, <2>2, <2>3, KeepsTrans DEF Sound
  <1>12. CASE ~ (n = 0 /\ d2.ents[e].deleted)
    <2>1. NoZombie(d2, G)
      <3>1. \A f \in EntryIds \ {e} : d2.ents[f].live /\ d2.ents[f].deleted => G[f] > 0
        BY <1>1, <1>3, <1>7 DEF NoZombie
      <3>2. ASSUME d2.ents[e].deleted PROVE G[e] > 0
        <4>1. n # 0
          BY <1>12, <3>2
        <4>2. n > 0
          BY <1>10, <4>1
        <4> QED BY <1>3, <4>2, Zenon
      <3> QED BY <3>1, <3>2 DEF NoZombie
    <2>2. db_entry_deref(d, e, table) = d2
      BY <1>7, <1>9, <1>12
    <2> QED BY <1>6, <1>8, <2>1, <2>2 DEF Sound
  <1> QED BY <1>11, <1>12

-----------------------------------------------------------------------------
(* Deleting.                                                               *)

\* r differs from d in the mark of entry e, among what is read of entries here.
Marked(d, r, e) ==
    /\ r.ents[e].deleted
    /\ \A f \in EntryIds :
        /\ r.ents[f].live = d.ents[f].live /\ r.ents[f].tab = d.ents[f].tab
        /\ r.ents[f].key = d.ents[f].key /\ r.ents[f].writing = d.ents[f].writing
        /\ r.ents[f].refs = d.ents[f].refs
        /\ r.ents[f].len = d.ents[f].len /\ r.ents[f].block = d.ents[f].block
        /\ f # e => r.ents[f].deleted = d.ents[f].deleted

\* The tables of r are those of d, but for their hash sets.
SameTables(d, r) ==
    \A t \in TableIds :
        /\ r.tabs[t].live = d.tabs[t].live /\ r.tabs[t].refs = d.tabs[t].refs
        /\ r.tabs[t].deleted = d.tabs[t].deleted /\ r.tabs[t].name = d.tabs[t].name

\* The place of entry e is empty, the others are as they were.
Cleared(d, r, e) ==
    \A t \in TableIds, h \in Hashes :
        r.tabs[t].slot[h] =
            IF t = d.ents[e].tab /\ h = KeyHash[d.ents[e].key] THEN Null ELSE d.tabs[t].slot[h]

Unlinked(d, r, e) ==
    /\ r \in Db /\ r.used = d.used /\ r.tables = d.tables /\ r.nameless = d.nameless
    /\ Marked(d, r, e) /\ SameTables(d, r) /\ Cleared(d, r, e)

\* What Unlink changes: flag, slot, size and links.
LEMMA UnlinkShape ==
    ASSUME NEW d \in Db, NEW e \in EntryIds
    PROVE  Unlinked(d, Unlink(d, e), e)
  <1> DEFINE x == d.ents[e]
             y == [x EXCEPT !.file = x.file /\ ~ IsFile(d, e), !.deleted = TRUE]
             E == [d.ents EXCEPT ![e] = y]
             T == [d.tabs EXCEPT ![x.tab] =
                     [d.tabs[x.tab] EXCEPT !.slot = [d.tabs[x.tab].slot EXCEPT ![KeyHash[x.key]] = Null]]]
             z == d.size - x.len
             d1 == [d EXCEPT !.ents = E, !.tabs = T, !.size = z]
  <1>1. /\ d.ents \in [EntryIds -> Entry] /\ d.tabs \in [TableIds -> Table]
        /\ d.size \in Int /\ x \in Entry /\ x.len \in Nat
    BY DEF Db, Entry
  <1>2. y \in Entry /\ y.live = x.live /\ y.tab = x.tab /\ y.key = x.key /\ y.writing = x.writing
        /\ y.refs = x.refs /\ y.len = x.len /\ y.block = x.block /\ y.deleted = TRUE
    <2>1. (x.file /\ ~ IsFile(d, e)) \in BOOLEAN
      OBVIOUS
    <2> HIDE DEF x
    <2> QED BY <1>1, <2>1 DEF Entry
  <1>3. E \in [EntryIds -> Entry] /\ E[e] = y /\ \A f \in EntryIds : f # e => E[f] = d.ents[f]
    <2> HIDE DEF y
    <2> QED BY <1>1, <1>2
  <1>4. /\ T \in [TableIds -> Table]
        /\ \A t \in TableIds :
              /\ T[t].live = d.tabs[t].live /\ T[t].refs = d.tabs[t].refs
              /\ T[t].deleted = d.tabs[t].deleted /\ T[t].name = d.tabs[t].name
              /\ \A h \in Hashes : T[t].slot[h] =
                   IF t = x.tab /\ h = KeyHash[x.key] THEN Null ELSE d.tabs[t].slot[h]
    <2>1. CASE x.tab \in TableIds
      <3> DEFINE t == x.tab
                 s == [d.tabs[t].slot EXCEPT ![KeyHash[x.key]] = Null]
                 w == [d.tabs[t] EXCEPT !.slot = s]
      <3>1. d.tabs[t] \in Table /\ d.tabs[t].slot \in [Hashes -> Ptr] /\ Null \in Ptr
        BY <1>1, <2>1 DEF Table, Ptr
      <3>2. s \in [Hashes -> Ptr] /\ \A h \in Hashes :
                s[h] = IF h = KeyHash[x.key] THEN Null ELSE d.tabs[t].slot[h]
        BY <3>1
      <3> HIDE DEF s
      <3>3. w \in Table /\ w.live = d.tabs[t].live /\ w.refs = d.tabs[t].refs
            /\ w.deleted = d.tabs[t].deleted /\ w.slot = s /\ w.name = d.tabs[t].name
        BY <3>1, <3>2 DEF Table
      <3>4. T = [d.tabs EXCEPT ![t] = w]
        BY DEF s
      <3> HIDE DEF w, T, t
      <3>5. T \in [TableIds -> Table]
        BY Zenon, <1>1, <3>3, <3>4
      <3>6. \A u \in TableIds : T[u] = IF u = t THEN w ELSE d.tabs[u]
        BY SMTT(60), <1>1, <3>4
      <3> QED BY <3>2, <3>3, <3>5, <3>6 DEF t
    <2>2. CASE x.tab \notin TableIds
      <3>1. T = d.tabs
        BY <1>1, <2>2
      <3> QED BY <1>1, <2>2, <3>1
    <2> QED BY ZenonT(60), <2>1, <2>2
  <1>5. z \in Int
    BY <1>1
  <1>6. /\ d1 \in Db /\ d1.ents = E /\ d1.tabs = T /\ d1.used = d.used
        /\ d1.tables = d.tables /\ d1.nameless = d.nameless
    <2> HIDE DEF E, T, z
    <2> QED BY <1>3, <1>4, <1>5 DEF Db
  <1>7. Unlink(d, e) = IF x.writing THEN d1 ELSE db_lru_remove_node(d1, e)
    <2>1. d1 = [d EXCEPT !.ents[e].file = @ /\ ~ IsFile(d, e), !.ents[e].deleted = TRUE,
                         !.tabs[x.tab].slot[KeyHash[x.key]] = Null, !.size = @ - x.len]
      BY ZenonT(60), <1>1 DEF Db
    <2> QED BY <2>1 DEF Unlink
  <1>8. SameCore(d1, Unlink(d, e))
    <2>1. SameCore(d1, d1)
      BY <1>6 DEF SameCore, SameEntry
    <2>2. SameCore(d1, db_lru_remove_node(d1, e))
      BY <1>6, RemoveNodeCore
    <2> HIDE DEF d1
    <2> QED BY <1>7, <2>1, <2>2
  <1> HIDE DEF d1, E, T, y
  <1>9. Unlinked(d, d1, e)
    <2>1. Marked(d, d1, e)
      BY <1>2, <1>3, <1>6 DEF Marked
    <2>2. SameTables(d, d1)
      BY <1>4, <1>6 DEF SameTables
    <2>3. Cleared(d, d1, e)
      BY <1>4, <1>6 DEF Cleared
    <2> QED BY <1>6, <2>1, <2>2, <2>3 DEF Unlinked
  <1>10. Marked(d, Unlink(d, e), e)
    BY <1>8, <1>9 DEF SameCore, SameEntry, Unlinked, Marked
  <1>11. SameTables(d, Unlink(d, e)) /\ Cleared(d, Unlink(d, e), e)
    BY <1>8, <1>9 DEF SameCore, Unlinked, SameTables, Cleared
  <1> QED BY <1>8, <1>9, <1>10, <1>11 DEF SameCore, Unlinked

\* Unlink keeps Base; a deleted entry may be without users until it is freed.
LEMMA UnlinkBase ==
    ASSUME NEW d, NEW H, NEW U, Base(d, H, U), NEW e \in EntryIds
    PROVE  LET r == Unlink(d, e)
           IN  Base(r, H, U) /\ Keeps(d, r, H) /\ Unlinked(d, r, e)
  <1> DEFINE r == Unlink(d, e)
  <1>1. d \in Db
    BY DEF Base
  <1>2. Unlinked(d, r, e) /\ r \in Db /\ r.used = d.used
        /\ Marked(d, r, e) /\ SameTables(d, r) /\ Cleared(d, r, e)
    BY <1>1, UnlinkShape DEF Unlinked
  <1> HIDE DEF r
  <1>3. \A f \in EntryIds : EntryOK(r, H, f)
    <2>1. \A f \in EntryIds : EntryOK(d, H, f)
      BY DEF Base
    <2> QED BY <1>2, <2>1 DEF EntryOK, Marked
  <1>4. BlocksOK(r)
    <2>1. BlocksOK(d)
      BY DEF Base
    <2> QED BY <1>2, <2>1 DEF BlocksOK, Marked
  <1>5. \A t \in TableIds, h \in Hashes : SlotOK(r, t, h)
    <2> SUFFICES ASSUME NEW t \in TableIds, NEW h \in Hashes, r.tabs[t].slot[h] # Null
                 PROVE  SlotOK(r, t, h)
      BY DEF SlotOK
    <2> DEFINE f == d.tabs[t].slot[h]
    <2>1. r.tabs[t].slot[h] = f /\ ~ (t = d.ents[e].tab /\ h = KeyHash[d.ents[e].key])
      BY <1>2 DEF Cleared
    <2>2. SlotOK(d, t, h)
      BY DEF Base
    <2>3. f \in EntryIds /\ f # Null
      BY SMTT(60), <1>1, <2>1, DbFields DEF Ptr
    <2>4. d.ents[f].live /\ ~ d.ents[f].deleted /\ d.ents[f].tab = t /\ KeyHash[d.ents[f].key] = h
      BY SMTT(60), <2>2, <2>3 DEF SlotOK
    <2>5. f # e
      BY <2>1, <2>4
    <2> HIDE DEF f
    <2>6. r.ents[f].live = d.ents[f].live /\ r.ents[f].tab = d.ents[f].tab
          /\ r.ents[f].key = d.ents[f].key /\ r.ents[f].deleted = d.ents[f].deleted
          /\ r.ents[f].writing = d.ents[f].writing /\ r.ents[f].len = d.ents[f].len
      BY <1>2, <2>3, <2>5 DEF Marked
    <2>7. Unusable(r, t) <=> Unusable(d, t)
      BY SMTT(60), <1>2 DEF SameTables, Unusable
    <2>8. ~ Unusable(d, t) /\ ~ d.ents[f].writing => d.ents[f].len > 0
      BY <2>2, <2>3 DEF SlotOK, f
    <2> QED BY SMTT(60), <2>1, <2>4, <2>6, <2>7, <2>8 DEF SlotOK
  <1>6. \A t \in TableIds : TableOK(r, U, t)
    <2> SUFFICES ASSUME NEW t \in TableIds PROVE TableOK(r, U, t)
      OBVIOUS
    <2>1. Entries(d, t) = {} => Entries(r, t) = {}
      BY <1>2 DEF Entries, Cleared
    <2>2. TableOK(d, U, t) /\ U[t] \in Nat /\ d.tabs[t].refs \in Int
      BY <1>1, DbFields DEF Base, TableUses
    <2>3. r.tabs[t].live = d.tabs[t].live /\ r.tabs[t].refs = d.tabs[t].refs
          /\ r.tabs[t].deleted = d.tabs[t].deleted
      BY <1>2 DEF SameTables
    <2> QED BY <2>1, <2>2, <2>3 DEF TableOK
  <1>7. Base(r, H, U)
    <2> QED BY <1>2, <1>3, <1>4, <1>5, <1>6 DEF Base
  <1>8. Keeps(d, r, H)
    BY <1>2 DEF Keeps, Marked
  <1> QED BY <1>2, <1>7, <1>8 DEF r

\* No place of a hash set is filled.
NoNewKeys(d, r) ==
    \A t \in TableIds, h \in Hashes : r.tabs[t].slot[h] \in {d.tabs[t].slot[h], Null}

\* Replacing an entry keeps the database sound whether it is in use or not.
LEMMA SoftDelete ==
    ASSUME NEW d, NEW H, NEW U, Sound(d, H, U), NEW e \in EntryIds
    PROVE  LET r == db_entry_handle_softdelete(d, e)
           IN  /\ Sound(r, H, U) /\ Keeps(d, r, H)
               /\ SameTables(d, r) /\ NoNewKeys(d, r)
               /\ \A f \in EntryIds : f # e => r.ents[f].live = d.ents[f].live
  <1> DEFINE r  == db_entry_handle_softdelete(d, e)
             d1 == Unlink(d, e)
             r2 == db_entry_actually_delete(d1, e)
  <1>1. Base(d, H, U) /\ NoZombie(d, H)
    BY DEF Sound
  <1>2. CASE d.ents[e].deleted
    <2>1. r = d
      BY <1>2 DEF db_entry_handle_softdelete
    <2>2. Keeps(d, d, H) /\ SameTables(d, d) /\ NoNewKeys(d, d)
      BY DEF Keeps, SameTables, NoNewKeys
    <2> QED BY <2>1, <2>2
  <1>3. CASE ~ d.ents[e].deleted
    <2>1. Base(d1, H, U) /\ Keeps(d, d1, H) /\ Marked(d, d1, e) /\ SameTables(d, d1)
          /\ Cleared(d, d1, e)
      BY <1>1, UnlinkBase DEF Unlinked
    <2>6. NoNewKeys(d, d1)
      BY <2>1 DEF Cleared, NoNewKeys
    <2>2. r = IF d1.ents[e].refs = 0 THEN r2 ELSE d1
      BY <1>3 DEF db_entry_handle_softdelete
    <2> HIDE DEF d1, r
    <2>3. EntryOK(d1, H, e) /\ H[e] \in Nat
      BY <2>1 DEF Base, Counts
    <2>4. CASE d1.ents[e].refs = 0
      <3>1. H[e] = 0 /\ d1.ents[e].deleted
        BY <2>1, <2>3, <2>4 DEF EntryOK, Marked
      <3>2. /\ Base(r2, H, U) /\ Keeps(d1, r2, H) /\ ~ r2.ents[e].live /\ r2.tabs = d1.tabs
            /\ \A f \in EntryIds : f # e => r2.ents[f] = d1.ents[f]
        BY <2>1, <3>1, FreeEntry
      <3> HIDE DEF r2
      <3>3. NoZombie(r2, H)
        BY <1>1, <2>1, <3>2 DEF NoZombie, Marked
      <3>4. Sound(r2, H, U) /\ Keeps(d, r2, H)
        BY <2>1, <3>2, <3>3, KeepsTrans DEF Sound
      <3>5. r = r2
        BY <2>2, <2>4
      <3>6. SameTables(d, r2) /\ NoNewKeys(d, r2)
        BY <2>1, <2>6, <3>2 DEF SameTables, NoNewKeys
      <3>7. \A f \in EntryIds : f # e => r2.ents[f].live = d.ents[f].live
        BY <2>1, <3>2 DEF Marked
      <3> QED BY <3>4, <3>5, <3>6, <3>7 DEF r
    <2>5. CASE d1.ents[e].refs # 0
      <3>1. H[e] > 0
        BY <2>3, <2>5 DEF EntryOK
      <3>2. NoZombie(d1, H)
        BY <1>1, <2>1, <3>1 DEF NoZombie, Marked
      <3>3. Sound(d1, H, U) /\ r = d1
        BY <2>1, <2>2, <2>5, <3>2 DEF Sound
      <3>4. \A f \in EntryIds : d1.ents[f].live = d.ents[f].live
        BY <2>1 DEF Marked
      <3> QED BY <2>1, <2>6, <3>3, <3>4 DEF r
    <2> QED BY <2>4, <2>5
  <1> QED BY <1>2, <1>3

\* An entry that is in no table forgets the one it was in.
LEMMA ForgetTable ==
    ASSUME NEW d, NEW H, NEW U, Base(d, H, U), NEW e \in EntryIds, d.ents[e].deleted
    PROVE  LET r == [d EXCEPT !.ents[e].tab = Null]
           IN  Base(r, H, U) /\ Keeps(d, r, H)
               /\ \A f \in EntryIds : r.ents[f].live = d.ents[f].live
                                      /\ r.ents[f].deleted = d.ents[f].deleted
  <1> DEFINE y == [d.ents[e] EXCEPT !.tab = Null]
             r == [d EXCEPT !.ents[e].tab = Null]
  <1>1. d \in Db /\ d.ents \in [EntryIds -> Entry] /\ d.ents[e] \in Entry
    BY DEF Base, Db
  <1>2. y \in Entry /\ y.live = d.ents[e].live /\ y.key = d.ents[e].key
        /\ y.writing = d.ents[e].writing /\ y.refs = d.ents[e].refs /\ y.len = d.ents[e].len
        /\ y.block = d.ents[e].block /\ y.deleted = d.ents[e].deleted /\ y.tab = Null
    BY <1>1 DEF Entry
  <1>3. r = [d EXCEPT !.ents = [d.ents EXCEPT ![e] = y]]
    BY <1>1 DEF Db
  <1> HIDE DEF y
  <1>4. r \in Db /\ r.tabs = d.tabs /\ r.used = d.used
        /\ \A f \in EntryIds : r.ents[f] = IF f = e THEN y ELSE d.ents[f]
    <2>1. [d.ents EXCEPT ![e] = y] \in [EntryIds -> Entry]
      BY <1>1, <1>2
    <2> QED BY <1>1, <1>3, <2>1 DEF Db
  <1> HIDE DEF r
  <1>5. \A f \in EntryIds : EntryOK(r, H, f)
    <2>1. \A f \in EntryIds : EntryOK(d, H, f)
      BY DEF Base
    <2>2. EntryOK(r, H, e)
      <3>1. EntryOK(d, H, e) /\ r.ents[e] = y
        BY <1>4, <2>1
      <3> QED BY <1>2, <3>1 DEF EntryOK
    <2>3. ASSUME NEW f \in EntryIds, f # e PROVE EntryOK(r, H, f)
      <3>1. EntryOK(d, H, f) /\ r.ents[f] = d.ents[f]
        BY <1>4, <2>1, <2>3
      <3> QED BY <3>1 DEF EntryOK
    <2> QED BY <2>2, <2>3
  <1>6. BlocksOK(r)
    <2>1. BlocksOK(d)
      BY DEF Base
    <2>2. \A f \in EntryIds : r.ents[f].live = d.ents[f].live /\ r.ents[f].block = d.ents[f].block
      BY <1>2, <1>4
    <2> QED BY SMTT(60), <1>4, <2>1, <2>2 DEF BlocksOK
  <1>7. \A t \in TableIds, h \in Hashes : SlotOK(r, t, h)
    <2> SUFFICES ASSUME NEW t \in TableIds, NEW h \in Hashes PROVE SlotOK(r, t, h)
      OBVIOUS
    <2>1. SlotOK(d, t, h) /\ d.tabs[t].slot[h] \in Ptr
      BY <1>1, DbFields DEF Base
    <2>2. d.tabs[t].slot[h] # e
      BY <2>1, DbAssumption DEF SlotOK
    <2> QED BY ZenonT(60), <1>4, <2>1, <2>2 DEF SlotOK, Ptr, Unusable
  <1>8. \A t \in TableIds : TableOK(r, U, t)
    <2>1. \A t \in TableIds : Entries(r, t) = Entries(d, t)
      BY <1>4 DEF Entries
    <2> QED BY <1>4, <2>1 DEF TableOK, Base
  <1>9. Base(r, H, U)
    BY <1>4, <1>5, <1>6, <1>7, <1>8 DEF Base
  <1>10. Keeps(d, r, H)
    BY <1>2, <1>4 DEF Keeps
  <1>11. \A f \in EntryIds : r.ents[f].live = d.ents[f].live /\ r.ents[f].deleted = d.ents[f].deleted
    BY <1>2, <1>4
  <1> QED BY <1>9, <1>10, <1>11 DEF r

\* A step that changes nothing keeps everything.
LEMMA KeepsRefl == ASSUME NEW d, NEW H PROVE Keeps(d, d, H)
  BY DEF Keeps

\* The counter of keys is not part of the core.
LEMMA KeysCore ==
    ASSUME NEW d \in Db
    PROVE  SameCore(d, [d EXCEPT !.keys = @ - 1]) /\ SameCore(d, [d EXCEPT !.keys = @ + 1])
  BY DEF Db, SameCore, SameEntry

\* A fault keeps the database sound.
LEMMA FaultSound ==
    ASSUME NEW d, NEW H, NEW U, Sound(d, H, U), NEW what \in Faults
    PROVE  Sound(Fault(d, what), H, U) /\ Keeps(d, Fault(d, what), H)
  <1>1. d \in Db
    BY DEF Sound, Base
  <1> QED BY <1>1, FaultCore, CoreSound

\* Deleting an entry that somebody uses, and its table with its last key.
LEMMA HandleDelete ==
    ASSUME NEW d, NEW H, NEW U, Sound(d, H, U), NEW e \in EntryIds, H[e] > 0,
           d.ents[e].tab # Null => U[d.ents[e].tab] > 0
    PROVE  LET r == db_entry_handle_delete(d, e)
           IN  /\ Sound(r, H, U) /\ Keeps(d, r, H)
               /\ \/ r.ents[e].deleted \/ r.ents[e].tab = Null
                  \/ Unusable(r, r.ents[e].tab)
  <1> DEFINE t  == d.ents[e].tab
             r  == db_entry_handle_delete(d, e)
             d0 == Unlink(d, e)
             d1 == [d0 EXCEPT !.keys = @ - 1]
             d2 == db_delete_table_entry(d1, t)
             d3 == [d2 EXCEPT !.ents[e].tab = Null]
  <1>1. d \in Db /\ Base(d, H, U) /\ NoZombie(d, H) /\ t \in TableIds \cup {Null} /\ U \in [TableIds -> Nat]
    <2>1. d \in Db /\ Base(d, H, U) /\ NoZombie(d, H)
      BY DEF Sound, Base
    <2> QED BY <2>1, DbFields DEF Base, TableUses
  <1>2. CASE t = Null
    <2>1. r = Fault(d, "null table")
      BY <1>2 DEF db_entry_handle_delete
    <2>2. r.ents[e].tab = Null
      BY <1>1, <1>2, <2>1 DEF Fault, Db
    <2> QED BY <2>1, <2>2, FaultSound DEF Faults
  <1>3. CASE t # Null /\ Unusable(d, t)
    <2>1. r = Misused(d, t)
      BY <1>3 DEF db_entry_handle_delete
    <2>2. r = Fault(d, "destroyed hash set") \/ r = Fault(d, "freed table")
      BY <2>1 DEF Misused
    <2>3. Unusable(r, r.ents[e].tab)
      BY <1>1, <1>3, <2>2 DEF Fault, Unusable, Db
    <2> QED BY <2>2, <2>3, FaultSound DEF Faults
  <1>4. CASE t # Null /\ ~ Unusable(d, t) /\ d.ents[e].deleted
    <2>1. r = Fault(d, "deleted twice")
      BY <1>4 DEF db_entry_handle_delete
    <2>2. r.ents[e].deleted
      BY <1>1, <1>4, <2>1 DEF Fault, Db
    <2> QED BY <2>1, <2>2, FaultSound DEF Faults
  <1>5. CASE t # Null /\ ~ Unusable(d, t) /\ ~ d.ents[e].deleted
    <2>1. r = IF Entries(d1, t) # {} THEN d1 ELSE d3
      BY <1>5 DEF db_entry_handle_delete
    <2>2. t \in TableIds /\ d.tabs[t].live /\ ~ d.tabs[t].deleted /\ U[t] > 0
      BY <1>1, <1>5 DEF Unusable
    <2> HIDE DEF t
    <2>3. Base(d0, H, U) /\ Keeps(d, d0, H) /\ d0 \in Db /\ Marked(d, d0, e) /\ SameTables(d, d0)
      BY <1>1, UnlinkBase DEF Unlinked
    <2> HIDE DEF d0
    <2>4. SameCore(d0, d1)
      BY <2>3, KeysCore
    <2> HIDE DEF d1
    <2>5. Base(d1, H, U) /\ Keeps(d, d1, H)
      BY <2>3, <2>4, CoreSound, KeepsTrans
    <2>6. d1.ents[e].deleted
          /\ \A f \in EntryIds \ {e} : d1.ents[f].live = d.ents[f].live
                                       /\ d1.ents[f].deleted = d.ents[f].deleted
      BY <2>3, <2>4 DEF SameCore, SameEntry, Marked
    <2>7. NoZombie(d1, H)
      BY <1>1, <2>6 DEF NoZombie
    <2>8. CASE Entries(d1, t) # {}
      BY <2>1, <2>5, <2>6, <2>7, <2>8 DEF Sound
    <2>9. CASE Entries(d1, t) = {}
      <3>1. d1.tabs[t].live => d1.tabs[t].refs > 0
        <4>1. TableOK(d1, U, t) /\ d1.tabs[t].refs \in Int /\ U[t] \in Nat
          BY <1>1, <2>2, <2>5, DbFields DEF Base
        <4>2. d1.tabs[t].live /\ ~ d1.tabs[t].deleted
          BY <2>2, <2>3, <2>4 DEF SameCore, SameTables
        <4> QED BY <2>2, <2>9, <4>1, <4>2 DEF TableOK
      <3>2. Base(d2, H, U) /\ Keeps(d1, d2, H) /\ \A f \in EntryIds : SameEntry(d1, d2, f)
        BY <2>2, <2>5, <3>1, DeleteTable
      <3> HIDE DEF d2
      <3>3. d2.ents[e].deleted
            /\ \A f \in EntryIds : d2.ents[f].live = d1.ents[f].live
                                   /\ d2.ents[f].deleted = d1.ents[f].deleted
        BY <2>6, <3>2 DEF SameEntry
      <3>4. Base(d3, H, U) /\ Keeps(d2, d3, H)
            /\ \A f \in EntryIds : d3.ents[f].live = d2.ents[f].live
                                   /\ d3.ents[f].deleted = d2.ents[f].deleted
        BY <3>2, <3>3, ForgetTable
      <3> HIDE DEF d3
      <3>5. NoZombie(d3, H)
        BY <2>7, <3>3, <3>4 DEF NoZombie
      <3>6. Keeps(d, d3, H)
        BY <2>5, <3>2, <3>4, KeepsTrans
      <3> QED BY <2>1, <2>9, <3>3, <3>4, <3>5, <3>6 DEF Sound
    <2> QED BY <2>8, <2>9
  <1> QED BY <1>2, <1>3, <1>4, <1>5

\* A loop of db_table_handle_delete: every key of a table is replaced by nothing.
LEMMA SoftDeleteLoop ==
    ASSUME NEW S, IsFiniteSet(S), NEW Good, NEW base \in Good,
           \A e \in S, a \in Good : db_entry_handle_softdelete(a, e) \in Good
    PROVE  FoldSet(LAMBDA e, acc : db_entry_handle_softdelete(acc, e), base, S) \in Good
  <1> DEFINE F == [p \in S \X Good |-> db_entry_handle_softdelete(p[2], p[1])]
             Eq(g) == g = [s \in SUBSET S |-> IF s = {} THEN base
                             ELSE db_entry_handle_softdelete(g[s \ {Pick(s)}], Pick(s))]
             iter == CHOOSE g : Eq(g)
  <1>1. F \in [S \X Good -> Good]
    OBVIOUS
  <1>2. \A e \in S, a \in Good : F[<<e, a>>] = db_entry_handle_softdelete(a, e)
    OBVIOUS
  <1> HIDE DEF F
  <1>3. PICK g \in [SUBSET S -> Good] : Solution(g, S, base, F)
    BY <1>1, LoopExists
  <1>4. \A s \in SUBSET S : s # {} => Pick(s) \in S /\ s \ {Pick(s)} \in SUBSET S
    BY PickIn
  <1>5. Eq(g)
    BY <1>2, <1>3, <1>4 DEF Solution
  <1>6. Eq(iter)
    BY <1>5, Zenon
  <1> HIDE DEF iter
  <1>7. iter[S] \in Good
    <2>1. \A s \in SUBSET S : s = {} => iter[s] = base
      BY <1>6
    <2>2. \A s \in SUBSET S : s # {} /\ iter[s \ {Pick(s)}] \in Good =>
               iter[s] = F[<<Pick(s), iter[s \ {Pick(s)}]>>]
      BY <1>6, <1>2, <1>4
    <2>3. GoodSolution(iter, S, Good, base, F)
      BY <2>1, <2>2 DEF GoodSolution
    <2> QED BY <1>1, <2>3, LoopGood
  <1>8. FoldSet(LAMBDA e, acc : db_entry_handle_softdelete(acc, e), base, S) = iter[S]
    BY DEF FoldSet, MapThenFoldSet, Pick, iter
  <1> QED BY <1>7, <1>8

\* Deleting a table that somebody uses.
LEMMA HandleDeleteTable ==
    ASSUME NEW d, NEW H, NEW U, Sound(d, H, U), NEW t \in TableIds, U[t] > 0
    PROVE  LET r == db_table_handle_delete(d, t)
           IN  Sound(r, H, U) /\ Keeps(d, r, H)
  <1> DEFINE r == db_table_handle_delete(d, t)
             Good == {a \in Db : Sound(a, H, U) /\ Keeps(d, a, H) /\ SameTables(d, a)}
             S  == Entries(d, t)
             d1 == FoldSet(LAMBDA e, acc : db_entry_handle_softdelete(acc, e), d, S)
             d2 == db_delete_table_entry(d1, t)
  <1>1. d \in Db /\ U \in [TableIds -> Nat]
    BY DEF Sound, Base, TableUses
  <1>2. CASE Unusable(d, t)
    <2>1. r = Fault(d, "destroyed hash set") \/ r = Fault(d, "freed table")
      BY <1>2 DEF db_table_handle_delete, Misused
    <2> QED BY <2>1, FaultSound DEF Faults
  <1>3. CASE ~ Unusable(d, t)
    <2>1. r = d2
      BY <1>3 DEF db_table_handle_delete
    <2>2. S \subseteq EntryIds /\ IsFiniteSet(S)
      <3>1. S \subseteq EntryIds
        BY <1>1, DbFields DEF Entries, Ptr
      <3> QED BY <3>1, DbAssumption, FS_Subset
    <2> HIDE DEF S
    <2>3. d \in Good
      BY <1>1, KeepsRefl DEF SameTables
    <2>4. ASSUME NEW e \in S, NEW a \in Good PROVE db_entry_handle_softdelete(a, e) \in Good
      <3> DEFINE q == db_entry_handle_softdelete(a, e)
      <3>1. Sound(q, H, U) /\ Keeps(a, q, H) /\ SameTables(a, q)
        BY <2>2, SoftDelete
      <3> HIDE DEF q
      <3>2. Keeps(d, q, H)
        BY <3>1, KeepsTrans
      <3>3. SameTables(d, q)
        BY <3>1 DEF SameTables
      <3>4. q \in Db
        BY <3>1 DEF Sound, Base
      <3> QED BY <3>1, <3>2, <3>3, <3>4 DEF q
    <2> HIDE DEF Good
    <2>5. d1 \in Good
      BY <2>2, <2>3, <2>4, SoftDeleteLoop
    <2> HIDE DEF d1
    <2>6. Sound(d1, H, U) /\ Keeps(d, d1, H) /\ SameTables(d, d1)
      BY <2>5 DEF Good
    <2>7. d1.tabs[t].live => d1.tabs[t].refs > 0
      <3>1. d.tabs[t].live /\ ~ d.tabs[t].deleted
        BY <1>3 DEF Unusable
      <3>2. d1.tabs[t].live /\ ~ d1.tabs[t].deleted
        BY <2>6, <3>1 DEF SameTables
      <3>3. TableOK(d1, U, t) /\ d1.tabs[t].refs \in Int /\ U[t] \in Nat
        BY <1>1, <2>6, DbFields DEF Sound, Base
      <3> QED BY <3>2, <3>3 DEF TableOK
    <2>8. Base(d2, H, U) /\ Keeps(d1, d2, H) /\ \A e \in EntryIds : SameEntry(d1, d2, e)
      BY <2>6, <2>7, DeleteTable DEF Sound
    <2> HIDE DEF d2
    <2>9. NoZombie(d2, H)
      BY <2>6, <2>8 DEF NoZombie, Sound, SameEntry
    <2> QED BY <2>1, <2>6, <2>8, <2>9, KeepsTrans DEF Sound
  <1> QED BY <1>2, <1>3

-----------------------------------------------------------------------------
(* Garbage collection.                                                     *)

\* db_entry_incref without its table.
LEMMA NoTableIncref ==
    ASSUME NEW d \in Db
    PROVE  db_table_incref(d, Null) = d
  <1>1. Null \notin TableIds /\ d.tabs \in [TableIds -> Table]
    BY DbAssumption DEF Db
  <1> DEFINE x == [d.tabs[Null] EXCEPT !.refs = @ + 1]
  <1>2. [d.tabs EXCEPT ![Null] = x] = d.tabs
    <2> HIDE DEF x
    <2> QED BY <1>1
  <1>3. db_table_incref(d, Null) = [d EXCEPT !.tabs = [d.tabs EXCEPT ![Null] = x]]
    BY DEF db_table_incref
  <1>4. [d EXCEPT !.tabs = d.tabs] = d
    BY DEF Db
  <1> QED BY <1>2, <1>3, <1>4

\* Evicting an entry keeps what its users see, whatever state it is in.
LEMMA EvictSound ==
    ASSUME NEW d, NEW H, NEW U, Sound(d, H, U), Covered(d, H, U), NEW e \in EntryIds
    PROVE  LET r == Evict(d, e)
           IN  Sound(r, H, U) /\ Keeps(d, r, H)
  <1> DEFINE t  == d.ents[e].tab
             r  == Evict(d, e)
             G  == [f \in EntryIds |-> IF f = e THEN 1 ELSE H[f]]
             V  == [s \in TableIds |-> IF s = t THEN U[s] + 1 ELSE U[s]]
             d0 == db_entry_incref(d, e, FALSE)
             d1 == db_table_incref(d0, t)
             d2 == db_entry_handle_delete(d1, e)
             d3 == db_entry_deref(d2, e, TRUE)
  <1>1. /\ Base(d, H, U) /\ NoZombie(d, H) /\ EntryOK(d, H, e) /\ t \in TableIds \cup {Null}
        /\ H \in [EntryIds -> Nat] /\ U \in [TableIds -> Nat]
    <2>1. d \in Db /\ Base(d, H, U) /\ NoZombie(d, H)
      BY DEF Sound, Base
    <2> QED BY <2>1, DbFields DEF Base, TableUses, Counts
  <1>2. CASE d.ents[e].refs # 0
    <2>1. H[e] > 0
      BY <1>1, <1>2 DEF EntryOK
    <2>2. t # Null => U[t] > 0
      BY <2>1 DEF Covered
    <2>3. r = db_entry_handle_delete(d, e)
      BY <1>2 DEF Evict
    <2> QED BY <2>1, <2>2, <2>3, HandleDelete
  <1>3. CASE d.ents[e].refs = 0
    <2>1. H[e] = 0
      BY <1>1, <1>3 DEF EntryOK
    <2>2. ButFor(H, G, e) /\ G[e] = H[e] + 1 /\ G[e] > 0
      BY <1>1, <2>1 DEF ButFor, Counts
    <2>3. \A a, b : Keeps(a, b, G) => Keeps(a, b, H)
      BY <1>1, <2>1 DEF Keeps
    <2>4. ButFor(G, H, e) /\ H[e] = G[e] - 1
      BY <1>1, <2>1 DEF ButFor, Counts
    <2>5. V \in TableUses /\ (\A s \in TableIds : s # t => V[s] = U[s])
          /\ (t \in TableIds => V[t] = U[t] + 1 /\ V[t] > 0 /\ U[t] \in Nat)
      BY <1>1 DEF TableUses
    <2>6. r = d3
      BY <1>3 DEF Evict, db_entry_incref
    <2> HIDE DEF G, V
    <2>7. Base(d0, G, U) /\ Keeps(d, d0, H) /\ NoZombie(d0, G) /\ d0.ents[e].tab = t
      BY ZenonT(60), <1>1, <2>2, EntryIncref
    <2> HIDE DEF d0
    <2>8. Base(d1, G, V) /\ Keeps(d0, d1, G) /\ d1.ents = d0.ents
      <3>1. CASE t \in TableIds
        <4> HIDE DEF t
        <4>1. V[t] <= U[t] + 1
          BY <2>5, <3>1
        <4> QED BY <2>5, <2>7, <3>1, <4>1, TableIncref
      <3>2. CASE t = Null
        <4>1. d1 = d0
          BY <2>7, <3>2, NoTableIncref DEF Base
        <4>2. \A s \in TableIds : V[s] = U[s] /\ U[s] \in Nat
          BY <1>1, <2>5, <3>2, DbAssumption
        <4> HIDE DEF d1, t
        <4>3. Base(d0, G, V)
          <5>1. \A s \in TableIds : d0.tabs[s].live /\ ~ d0.tabs[s].deleted => V[s] <= U[s]
            BY <4>2
          <5> QED BY <2>5, <2>7, <5>1, FewerUses
        <4> QED BY <4>1, <4>3, KeepsRefl
      <3> QED BY <1>1, <3>1, <3>2
    <2> HIDE DEF d1
    <2>9. Sound(d1, G, V)
      BY <2>7, <2>8 DEF Sound, NoZombie
    <2>10. Sound(d2, G, V) /\ Keeps(d1, d2, G)
      <3>1. d1.ents[e].tab = t
        BY <2>7, <2>8
      <3>2. d1.ents[e].tab # Null => V[d1.ents[e].tab] > 0
        BY <1>1, <2>5, <3>1
      <3> QED BY <2>2, <2>9, <3>2, HandleDelete
    <2> HIDE DEF d2
    <2>11. d2.ents[e].tab \in {t, Null}
      BY <2>2, <2>7, <2>8, <2>10 DEF Keeps
    <2>12. U \in TableUses
      BY <1>1 DEF TableUses
    <2>13. Sound(d3, H, U) /\ Keeps(d2, d3, H)
      <3>1. CASE d2.ents[e].tab = t
        <4>1. \A s \in TableIds : U[s] = V[s] \/ (TRUE /\ s = d2.ents[e].tab)
          BY <2>5, <3>1
        <4>2. \A s \in TableIds : TRUE /\ s = d2.ents[e].tab /\ d2.tabs[s].live /\ ~ d2.tabs[s].deleted
                => U[s] + 1 <= V[s]
          <5> HIDE DEF t
          <5> QED BY <2>5, <3>1
        <4> QED BY <2>2, <2>4, <2>10, <2>12, <4>1, <4>2, EntryDeref
      <3>2. CASE d2.ents[e].tab = Null
        <4>1. \A s \in TableIds : U[s] <= V[s]
          <5> SUFFICES ASSUME NEW s \in TableIds PROVE U[s] <= V[s]
            OBVIOUS
          <5>1. U[s] \in Nat
            BY <1>1
          <5> QED BY <2>5, <5>1
        <4>2. Base(d2, G, U)
          BY <2>10, <2>12, <4>1, FewerUses DEF Sound
        <4>3. Sound(d2, G, U)
          BY <2>10, <4>2 DEF Sound
        <4>4. \A s \in TableIds : s # d2.ents[e].tab
          BY <3>2, DbAssumption
        <4> QED BY <2>2, <2>4, <2>12, <4>3, <4>4, EntryDeref
      <3> QED BY <2>11, <3>1, <3>2
    <2> HIDE DEF d3
    <2>14. Keeps(d, d3, H)
      BY <2>3, <2>7, <2>8, <2>10, <2>13, KeepsTrans
    <2> QED BY <2>6, <2>13, <2>14
  <1> QED BY <1>2, <1>3

\* The loop of db_expire_cursor over the keys that have expired.
LEMMA EvictLoop ==
    ASSUME NEW S, IsFiniteSet(S), NEW Good, NEW base \in Good,
           \A e \in S, a \in Good : Evict(a, e) \in Good
    PROVE  FoldSet(LAMBDA e, acc : Evict(acc, e), base, S) \in Good
  <1> DEFINE F == [p \in S \X Good |-> Evict(p[2], p[1])]
             Eq(g) == g = [s \in SUBSET S |-> IF s = {} THEN base
                             ELSE Evict(g[s \ {Pick(s)}], Pick(s))]
             iter == CHOOSE g : Eq(g)
  <1>1. F \in [S \X Good -> Good]
    OBVIOUS
  <1>2. \A e \in S, a \in Good : F[<<e, a>>] = Evict(a, e)
    OBVIOUS
  <1> HIDE DEF F
  <1>3. PICK g \in [SUBSET S -> Good] : Solution(g, S, base, F)
    BY <1>1, LoopExists
  <1>4. \A s \in SUBSET S : s # {} => Pick(s) \in S /\ s \ {Pick(s)} \in SUBSET S
    BY PickIn
  <1>5. Eq(g)
    BY <1>2, <1>3, <1>4 DEF Solution
  <1>6. Eq(iter)
    BY <1>5, Zenon
  <1> HIDE DEF iter
  <1>7. iter[S] \in Good
    <2>1. \A s \in SUBSET S : s = {} => iter[s] = base
      BY <1>6
    <2>2. \A s \in SUBSET S : s # {} /\ iter[s \ {Pick(s)}] \in Good =>
               iter[s] = F[<<Pick(s), iter[s \ {Pick(s)}]>>]
      BY <1>6, <1>2, <1>4
    <2>3. GoodSolution(iter, S, Good, base, F)
      BY <2>1, <2>2 DEF GoodSolution
    <2> QED BY <1>1, <2>3, LoopGood
  <1>8. FoldSet(LAMBDA e, acc : Evict(acc, e), base, S) = iter[S]
    BY DEF FoldSet, MapThenFoldSet, Pick, iter
  <1> QED BY <1>7, <1>8

\* The loop of db_lru_cleanup_percent.
LEMMA CleanupLoop ==
    ASSUME NEW S, IsFiniteSet(S), NEW Good, NEW base \in Good,
           \A a \in Good : CleanupHead(a) \in Good
    PROVE  FoldSet(LAMBDA i, acc : CleanupHead(acc), base, S) \in Good
  <1> DEFINE F == [p \in S \X Good |-> CleanupHead(p[2])]
             Eq(g) == g = [s \in SUBSET S |-> IF s = {} THEN base
                             ELSE CleanupHead(g[s \ {Pick(s)}])]
             iter == CHOOSE g : Eq(g)
  <1>1. F \in [S \X Good -> Good]
    OBVIOUS
  <1>2. \A i \in S, a \in Good : F[<<i, a>>] = CleanupHead(a)
    OBVIOUS
  <1> HIDE DEF F
  <1>3. PICK g \in [SUBSET S -> Good] : Solution(g, S, base, F)
    BY <1>1, LoopExists
  <1>4. \A s \in SUBSET S : s # {} => Pick(s) \in S /\ s \ {Pick(s)} \in SUBSET S
    BY PickIn
  <1>5. Eq(g)
    BY <1>2, <1>3, <1>4 DEF Solution
  <1>6. Eq(iter)
    BY <1>5, Zenon
  <1> HIDE DEF iter
  <1>7. iter[S] \in Good
    <2>1. \A s \in SUBSET S : s = {} => iter[s] = base
      BY <1>6
    <2>2. \A s \in SUBSET S : s # {} /\ iter[s \ {Pick(s)}] \in Good =>
               iter[s] = F[<<Pick(s), iter[s \ {Pick(s)}]>>]
      BY SMTT(60), <1>6, <1>2, <1>4
    <2>3. GoodSolution(iter, S, Good, base, F)
      BY <2>1, <2>2 DEF GoodSolution
    <2> QED BY <1>1, <2>3, LoopGood
  <1>8. FoldSet(LAMBDA i, acc : CleanupHead(acc), base, S) = iter[S]
    BY DEF FoldSet, MapThenFoldSet, Pick, iter
  <1> QED BY <1>7, <1>8

\* The loop of db_expire_cursor.
LEMMA ExpireSound ==
    ASSUME NEW d, NEW H, NEW U, Sound(d, H, U), Covered(d, H, U), NEW time
    PROVE  LET r == db_expire_cursor(d, time)
           IN  Sound(r, H, U) /\ Keeps(d, r, H)
  <1> DEFINE S == {e \in Indexed(d) : Expired(d, e, time)}
             Good == {a \in Db : Sound(a, H, U) /\ Keeps(d, a, H)}
             r == FoldSet(LAMBDA e, acc : Evict(acc, e), d, S)
  <1>1. d \in Db
    BY DEF Sound, Base
  <1>2. S \subseteq EntryIds /\ IsFiniteSet(S)
    <2>1. \A t \in TableIds : Entries(d, t) \subseteq EntryIds
      BY <1>1, DbFields DEF Entries, Ptr
    <2>2. \A n \in TableNames : d.tables[n] \in TableIds \cup {Null}
      BY <1>1 DEF Db
    <2>3. S \subseteq EntryIds
      BY <2>1, <2>2 DEF Indexed
    <2> HIDE DEF S
    <2> QED BY <2>3, DbAssumption, FS_Subset
  <1> HIDE DEF S
  <1>3. d \in Good
    BY <1>1, KeepsRefl
  <1>4. ASSUME NEW e \in S, NEW a \in Good PROVE Evict(a, e) \in Good
    <2> DEFINE q == Evict(a, e)
    <2>1. Covered(a, H, U)
      BY KeepsCovered
    <2>2. Sound(q, H, U) /\ Keeps(a, q, H)
      BY <1>2, <2>1, EvictSound
    <2> HIDE DEF q
    <2>3. Keeps(d, q, H) /\ q \in Db
      BY <2>2, KeepsTrans DEF Sound, Base
    <2> QED BY <2>2, <2>3 DEF q
  <1> HIDE DEF Good
  <1>5. r \in Good
    BY <1>2, <1>3, <1>4, EvictLoop
  <1>6. db_expire_cursor(d, time) = r
    BY DEF db_expire_cursor, S
  <1> QED BY <1>5, <1>6 DEF Good

\* The loop of db_lru_cleanup_percent.
LEMMA CleanupSound ==
    ASSUME NEW d, NEW H, NEW U, Sound(d, H, U), Covered(d, H, U), NEW bytes \in Int
    PROVE  LET r == db_lru_cleanup_percent(d, bytes)
           IN  Sound(r, H, U) /\ Keeps(d, r, H)
  <1> DEFINE Good == {a \in [d : Db, bytes : Int] : Sound(a.d, H, U) /\ Keeps(d, a.d, H)}
             base == [d |-> d, bytes |-> bytes]
             r == FoldSet(LAMBDA i, acc : CleanupHead(acc), base, EntryIds)
  <1>1. d \in Db
    BY DEF Sound, Base
  <1>2. base \in Good
    BY <1>1, KeepsRefl
  <1>3. ASSUME NEW a \in Good PROVE CleanupHead(a) \in Good
    <2> DEFINE l == a.d.lru_head
               q1 == db_lru_remove_node(a.d, l)
               q2 == Evict(a.d, l)
    <2>1. a \in [d : Db, bytes : Int] /\ a.d \in Db /\ Sound(a.d, H, U) /\ Keeps(d, a.d, H)
          /\ l \in EntryIds \cup {Null}
      BY DEF Db, Ptr
    <2>2. CASE l = Null \/ a.bytes <= 0
      BY <2>2 DEF CleanupHead
    <2>3. CASE l # Null /\ a.bytes > 0 /\ (a.d.ents[l].writing \/ a.d.ents[l].deleted)
      <3>1. CleanupHead(a) = [a EXCEPT !.d = q1]
        BY <2>3 DEF CleanupHead
      <3>2. Sound(q1, H, U) /\ Keeps(a.d, q1, H) /\ q1 \in Db
        <4>1. SameCore(a.d, q1)
          BY <2>1, <2>3, RemoveNodeCore
        <4> QED BY <2>1, <4>1, CoreSound DEF SameCore
      <3> HIDE DEF q1
      <3>3. Keeps(d, q1, H)
        BY <2>1, <3>2, KeepsTrans
      <3>4. [a EXCEPT !.d = q1] \in [d : Db, bytes : Int] /\ [a EXCEPT !.d = q1].d = q1
        BY <2>1, <3>2
      <3> QED BY <3>1, <3>2, <3>3, <3>4
    <2>4. CASE l # Null /\ a.bytes > 0 /\ ~ (a.d.ents[l].writing \/ a.d.ents[l].deleted)
      <3> DEFINE b == a.bytes - a.d.ents[l].len
      <3>1. CleanupHead(a) = [d |-> q2, bytes |-> b]
        BY <2>4 DEF CleanupHead
      <3>2. b \in Int
        BY <2>1, <2>4, DbFields
      <3>3. Sound(q2, H, U) /\ Keeps(a.d, q2, H)
        <4>1. Covered(a.d, H, U)
          BY <2>1, KeepsCovered
        <4> QED BY <2>1, <2>4, <4>1, EvictSound
      <3> HIDE DEF q2, b
      <3>4. Keeps(d, q2, H) /\ q2 \in Db
        BY <2>1, <3>3, KeepsTrans DEF Sound, Base
      <3> QED BY <3>1, <3>2, <3>3, <3>4
    <2> QED BY <2>2, <2>3, <2>4
  <1> HIDE DEF Good
  <1>4. r \in Good
    BY <1>2, <1>3, DbAssumption, CleanupLoop
  <1>5. db_lru_cleanup_percent(d, bytes) = r.d
    BY DEF db_lru_cleanup_percent
  <1> QED BY <1>4, <1>5 DEF Good

\* db_lru_gc
LEMMA GcSound ==
    ASSUME NEW d, NEW H, NEW U, Sound(d, H, U), Covered(d, H, U), NEW time
    PROVE  LET r == db_lru_gc(d, time)
           IN  Sound(r, H, U) /\ Keeps(d, r, H)
  <1> DEFINE d1 == db_expire_cursor(d, time)
             b  == (d1.size - MaxSize) + ClearSize
             d2 == db_lru_cleanup_percent(d1, b)
  <1>1. Sound(d1, H, U) /\ Keeps(d, d1, H)
    BY ExpireSound
  <1> HIDE DEF d1
  <1>2. b \in Int
    <2>1. d1.size \in Int
      BY <1>1 DEF Sound, Base, Db
    <2> QED BY <2>1, DbAssumption
  <1>3. Covered(d1, H, U)
    BY <1>1, KeepsCovered
  <1> HIDE DEF b
  <1>4. Sound(d2, H, U) /\ Keeps(d1, d2, H)
    BY <1>1, <1>2, <1>3, CleanupSound
  <1>5. Keeps(d, d2, H)
    BY <1>1, <1>4, KeepsTrans
  <1>6. db_lru_gc(d, time) \in {d1, d2}
    BY DEF db_lru_gc, d1, b
  <1> QED BY <1>1, <1>4, <1>5, <1>6

-----------------------------------------------------------------------------
(* Looking up tables and entries.                                          *)

\* The table that is looked up is used once more.
OneMore(U, V, t) ==
    V \in TableUses /\ \A s \in TableIds : V[s] <= IF s = t THEN U[s] + 1 ELSE U[s]

\* A reference taken for one more user.
LEMMA MoreUses ==
    ASSUME NEW d, NEW H, NEW U, Sound(d, H, U), NEW t \in TableIds,
           NEW V, OneMore(U, V, t)
    PROVE  LET r == db_table_incref(d, t)
           IN  Sound(r, H, V) /\ Keeps(d, r, H) /\ r.ents = d.ents
  <1> DEFINE r == db_table_incref(d, t)
             W == [s \in TableIds |-> IF s = t THEN U[s] + 1 ELSE U[s]]
  <1>1. Base(d, H, U) /\ NoZombie(d, H) /\ U \in [TableIds -> Nat]
    BY DEF Sound, Base, TableUses
  <1>2. W \in TableUses /\ W[t] <= U[t] + 1 /\ \A s \in TableIds : s # t => W[s] = U[s]
    BY <1>1 DEF TableUses
  <1>3. V \in TableUses /\ \A s \in TableIds : V[s] <= W[s]
    BY DEF OneMore
  <1> HIDE DEF W, r
  <1>4. Base(r, H, W) /\ Keeps(d, r, H) /\ r.ents = d.ents
    BY <1>1, <1>2, TableIncref DEF r
  <1>5. Base(r, H, V)
    BY <1>3, <1>4, FewerUses
  <1>6. NoZombie(r, H)
    BY <1>1, <1>4 DEF NoZombie
  <1> QED BY <1>4, <1>5, <1>6 DEF Sound, r

\* db_table_get_read, with the caller as one more user.
LEMMA TableGetRead ==
    ASSUME NEW d, NEW H, NEW U, Sound(d, H, U), NEW n \in TableNames
    PROVE  LET q == db_table_get_read(d, n)
           IN  /\ q.ret \in TableIds \cup {Null} /\ q.db.ents = d.ents
               /\ \A V : OneMore(U, V, q.ret) => Sound(q.db, H, V)
  <1> DEFINE t == d.tables[n]
             q == db_table_get_read(d, n)
             r == db_table_incref(d, t)
  <1>1. t \in TableIds \cup {Null} /\ Base(d, H, U)
    BY DEF Sound, Base, Db
  <1>2. CASE t = Null
    <2>1. q.ret = Null /\ q.db = d
      BY <1>2 DEF db_table_get_read, Return
    <2>2. ASSUME NEW V, OneMore(U, V, Null) PROVE Sound(d, H, V)
      <3>1. V \in TableUses /\ \A s \in TableIds : V[s] <= U[s]
        BY <2>2, DbAssumption DEF OneMore
      <3>2. Base(d, H, V)
        BY <1>1, <3>1, FewerUses
      <3> QED BY <3>2 DEF Sound
    <2> QED BY <2>1, <2>2
  <1>3. CASE t \in TableIds
    <2>1. q.ret = t /\ q.db = r
      BY <1>3, DbAssumption DEF db_table_get_read, Return
    <2> HIDE DEF q, t
    <2>2. \A V : OneMore(U, V, t) => Sound(r, H, V)
      BY <1>3, MoreUses
    <2>3. r.ents = d.ents
      <3>1. d \in Db
        BY <1>1 DEF Base
      <3> QED BY <3>1 DEF db_table_incref, Db
    <2> QED BY <1>3, <2>1, <2>2, <2>3 DEF q
  <1> QED BY <1>1, <1>2, <1>3

\* A table that is created has its creator as its only user.
LEMMA TableGetWrite ==
    ASSUME NEW d, NEW H, NEW U, Sound(d, H, U), NEW n \in TableNames, NEW t \in TableIds,
           d.tables[n] = Null => ~ d.tabs[t].live /\ U[t] = 0
    PROVE  LET q == db_table_get_write(d, n, t)
           IN  /\ q.ret \in TableIds \cup {Null} /\ q.db.ents = d.ents
               /\ \A V : OneMore(U, V, q.ret) => Sound(q.db, H, V)
  <1> DEFINE x == [DeadTable EXCEPT !.live = TRUE, !.name = n, !.refs = 1]
             r == [d EXCEPT !.tables[n] = t, !.tabs[t] = x]
             q == db_table_get_write(d, n, t)
  <1>1. CASE d.tables[n] # Null
    <2>1. db_table_get_write(d, n, t) = db_table_get_read(d, n)
      BY <1>1 DEF db_table_get_write
    <2> QED BY <2>1, TableGetRead
  <1>2. CASE d.tables[n] = Null
    <2>1. q.ret = t /\ q.db = r
      BY <1>2 DEF db_table_get_write, Return
    <2>2. d \in Db /\ Base(d, H, U) /\ NoZombie(d, H)
      BY DEF Sound, Base
    <2>3. DeadTable \in Table /\ ~ DeadTable.deleted /\ \A h \in Hashes : DeadTable.slot[h] = Null
      <3>1. [h \in Hashes |-> Null] \in [Hashes -> Ptr]
        BY DEF Ptr
      <3> QED BY <3>1 DEF DeadTable, Table
    <2>4. x \in Table /\ x.live /\ x.refs = 1 /\ ~ x.deleted /\ \A h \in Hashes : x.slot[h] = Null
      <3>1. x.slot = DeadTable.slot /\ x.deleted = DeadTable.deleted /\ x.live = TRUE /\ x.refs = 1
        BY <2>3 DEF Table
      <3>2. x \in Table
        <4> DEFINE x1 == [DeadTable EXCEPT !.live = TRUE]
                   x2 == [x1 EXCEPT !.name = n]
        <4>1. x1 \in Table
          BY <2>3 DEF Table
        <4>2. x = [x2 EXCEPT !.refs = 1]
          BY <2>3 DEF Table
        <4> HIDE DEF x1
        <4>3. x2 \in Table
          BY <4>1 DEF Table
        <4> HIDE DEF x2, x
        <4> QED BY <4>2, <4>3 DEF Table
      <3> QED BY <2>3, <3>1, <3>2
    <2> HIDE DEF x
    <2>5. r \in Db /\ r.ents = d.ents /\ r.used = d.used
          /\ \A s \in TableIds : r.tabs[s] = IF s = t THEN x ELSE d.tabs[s]
      <3>1. [d.tabs EXCEPT ![t] = x] \in [TableIds -> Table]
            /\ [d.tables EXCEPT ![n] = t] \in [TableNames -> TableIds \cup {Null}]
        BY <2>2, <2>4 DEF Db
      <3> QED BY <2>2, <3>1 DEF Db
    <2> HIDE DEF r, q
    <2>6. \A s \in TableIds, h \in Hashes : SlotOK(r, s, h)
      <3> SUFFICES ASSUME NEW s \in TableIds, NEW h \in Hashes PROVE SlotOK(r, s, h)
        BY SMTT(60)
      <3>1. CASE s = t
        BY SMTT(60), <2>4, <2>5, <3>1 DEF SlotOK
      <3>2. CASE s # t
        <4>1. SlotOK(d, s, h) /\ r.tabs[s] = d.tabs[s]
          BY <2>2, <2>5, <3>2 DEF Base
        <4> QED BY Zenon, <2>5, <4>1 DEF SlotOK, Unusable
      <3> QED BY <3>1, <3>2
    <2>7. BlocksOK(r) /\ NoZombie(r, H) /\ \A e \in EntryIds : EntryOK(r, H, e)
      BY <2>2, <2>5 DEF BlocksOK, NoZombie, EntryOK, Base
    <2>8. ASSUME NEW V, OneMore(U, V, t) PROVE \A s \in TableIds : TableOK(r, V, s)
      <3> SUFFICES ASSUME NEW s \in TableIds PROVE TableOK(r, V, s)
        OBVIOUS
      <3>1. V[s] \in Nat /\ U[s] \in Nat /\ V[s] <= IF s = t THEN U[s] + 1 ELSE U[s]
        BY <2>2, <2>8 DEF OneMore, TableUses, Base
      <3>2. CASE s = t
        <4>1. Entries(r, s) = {}
          BY <2>4, <2>5, <3>2 DEF Entries
        <4>2. V[s] <= 1
          BY <1>2, <3>1, <3>2
        <4> QED BY <2>4, <2>5, <3>1, <3>2, <4>1, <4>2 DEF TableOK
      <3>3. CASE s # t
        <4>1. Entries(r, s) = Entries(d, s) /\ r.tabs[s] = d.tabs[s]
          BY <2>5, <3>3 DEF Entries
        <4>2. TableOK(d, U, s) /\ d.tabs[s].refs \in Int /\ V[s] <= U[s]
          BY <2>2, <3>1, <3>3, DbFields DEF Base
        <4> QED BY <3>1, <4>1, <4>2 DEF TableOK
      <3> QED BY <3>2, <3>3
    <2>9. \A V : OneMore(U, V, t) => Sound(r, H, V)
      BY <2>2, <2>5, <2>6, <2>7, <2>8 DEF Sound, Base, OneMore
    <2> QED BY <2>1, <2>5, <2>9 DEF q
  <1> QED BY <1>1, <1>2

\* Entry e, found in table t, has one more holder in r than in d.
Taken(d, r, H, U, e, t) ==
    /\ r.ents[e].live /\ r.ents[e].tab = t /\ Keeps(d, r, H)
    /\ \A G : ButFor(H, G, e) /\ G[e] = H[e] + 1 => Sound(r, G, U)

\* db_entry_incref, with the caller as one more user.
LEMMA TakeEntry ==
    ASSUME NEW d, NEW H, NEW U, Sound(d, H, U), NEW e \in EntryIds, NEW t, d.ents[e].live,
           d.ents[e].tab = t
    PROVE  Taken(d, db_entry_incref(d, e, FALSE), H, U, e, t)
  <1> DEFINE r == db_entry_incref(d, e, FALSE)
  <1>1. Base(d, H, U) /\ NoZombie(d, H) /\ H \in [EntryIds -> Nat]
    BY DEF Sound, Base, Counts
  <1>2. ASSUME NEW G, ButFor(H, G, e), G[e] = H[e] + 1
        PROVE  Sound(r, G, U) /\ Keeps(d, r, H) /\ r.ents[e].live /\ r.ents[e].tab = t
    <2>1. /\ Base(r, G, U) /\ Keeps(d, r, H) /\ (NoZombie(d, H) => NoZombie(r, G))
          /\ \A f \in EntryIds : /\ r.ents[f].live = d.ents[f].live
                                 /\ r.ents[f].deleted = d.ents[f].deleted
                                 /\ r.ents[f].tab = d.ents[f].tab
      BY <1>1, <1>2, EntryIncref
    <2> HIDE DEF r
    <2> QED BY <1>1, <2>1 DEF Sound
  <1>3. \E G : ButFor(H, G, e) /\ G[e] = H[e] + 1
    <2> DEFINE G == [f \in EntryIds |-> IF f = e THEN H[e] + 1 ELSE H[f]]
    <2>1. ButFor(H, G, e) /\ G[e] = H[e] + 1
      BY <1>1 DEF ButFor, Counts
    <2> QED BY <2>1
  <1> HIDE DEF r
  <1>4. Keeps(d, r, H) /\ r.ents[e].live /\ r.ents[e].tab = t
    BY SMTT(60), <1>2, <1>3
  <1> QED BY <1>2, <1>4 DEF Taken, r

\* What is at a place of a hash set.
LEMMA AtPlace ==
    ASSUME NEW d, NEW H, NEW U, Sound(d, H, U), NEW t \in TableIds, NEW k \in Keys, NEW e,
           e = d.tabs[t].slot[KeyHash[k]]
    PROVE  /\ e \in EntryIds \cup {Null}
           /\ e # Null => /\ e \in EntryIds /\ d.ents[e].live /\ d.ents[e].tab = t
                          /\ ~ d.ents[e].deleted
           /\ e # Null /\ ~ Unusable(d, t) /\ ~ d.ents[e].writing => d.ents[e].len > 0
  <1> DEFINE h == KeyHash[k]
  <1>1. h \in Hashes
    BY DEF Hashes
  <1> HIDE DEF h
  <1>2. d \in Db /\ SlotOK(d, t, h)
    BY <1>1 DEF Sound, Base
  <1>3. e = d.tabs[t].slot[h] /\ e \in EntryIds \cup {Null}
    BY SMTT(60), <1>1, <1>2, DbFields DEF h, Ptr
  <1> QED BY <1>2, <1>3 DEF SlotOK

\* db_entry_get_read: what is returned is complete, and has the key asked for.
LEMMA EntryGetRead ==
    ASSUME NEW d, NEW H, NEW U, Sound(d, H, U), NEW t \in TableIds, NEW k \in Keys, NEW time,
           ~ Unusable(d, t), U[t] > 0
    PROVE  LET q == db_entry_get_read(d, t, k, time)
               x == q.db.ents[q.ret]
           IN  \/ q.ret = Null /\ Sound(q.db, H, U) /\ Keeps(d, q.db, H)
               \/ /\ q.ret \in EntryIds /\ Taken(d, q.db, H, U, q.ret, t)
                  /\ x.key = k /\ ~ x.writing /\ x.len > 0
  <1> DEFINE q  == db_entry_get_read(d, t, k, time)
             e  == d.tabs[t].slot[KeyHash[k]]
             G  == [f \in EntryIds |-> IF f = e THEN H[e] + 1 ELSE H[f]]
             d1 == db_entry_incref(d, e, FALSE)
             d2 == db_entry_handle_delete(d1, e)
             d3 == db_entry_deref(d2, e, FALSE)
             d4 == db_lru_hit(d, e)
             d5 == db_entry_incref(d4, e, FALSE)
  <1>1. d \in Db /\ Base(d, H, U) /\ H \in [EntryIds -> Nat] /\ U \in [TableIds -> Nat]
    BY SMTT(60) DEF Sound, Base, Counts, TableUses
  <1>2. /\ e \in EntryIds \cup {Null}
        /\ e # Null => e \in EntryIds /\ d.ents[e].live /\ d.ents[e].tab = t
        /\ e # Null /\ ~ d.ents[e].writing => d.ents[e].len > 0
    <2>1. e = d.tabs[t].slot[KeyHash[k]]
      OBVIOUS
    <2> HIDE DEF e
    <2> QED BY <2>1, AtPlace
  <1>3. CASE e = Null \/ (e # Null /\ ~ Expired(d, e, time) /\ (d.ents[e].key # k \/ d.ents[e].writing))
    <2>1. q.ret = Null /\ q.db = d
      BY Zenon, <1>3 DEF db_entry_get_read, Return
    <2> QED BY SMTT(60), <2>1, KeepsRefl
  <1>4. CASE e # Null /\ Expired(d, e, time)
    <2>1. q.ret = Null /\ q.db = d3
      BY <1>4 DEF db_entry_get_read, Return
    <2> HIDE DEF q, e
    <2>2. ButFor(H, G, e) /\ G[e] = H[e] + 1 /\ G[e] > 0
          /\ ButFor(G, H, e) /\ H[e] = G[e] - 1 /\ \A f \in EntryIds : H[f] > 0 => G[f] > 0
      BY <1>1, <1>2, <1>4 DEF ButFor, Counts
    <2> HIDE DEF G
    <2>3. Sound(d1, G, U) /\ Keeps(d, d1, H) /\ d1.ents[e].tab = t
      BY ZenonT(60), <1>2, <1>4, <2>2, TakeEntry DEF Taken
    <2> HIDE DEF d1
    <2>4. Sound(d2, G, U) /\ Keeps(d1, d2, G)
      BY <1>2, <1>4, <2>2, <2>3, HandleDelete
    <2>5. Keeps(d1, d2, H)
      BY <2>2, <2>4 DEF Keeps
    <2> HIDE DEF d2
    <2>6. Sound(d3, H, U) /\ Keeps(d2, d3, H)
      <3>1. U \in TableUses
        BY <1>1 DEF TableUses
      <3>2. /\ \A s \in TableIds : U[s] = U[s] \/ (FALSE /\ s = d2.ents[e].tab)
            /\ \A s \in TableIds : FALSE /\ s = d2.ents[e].tab /\ d2.tabs[s].live
                  /\ ~ d2.tabs[s].deleted => U[s] + 1 <= U[s]
        OBVIOUS
      <3> QED BY <1>2, <1>4, <2>2, <2>4, <3>1, <3>2, EntryDeref
    <2> HIDE DEF d3
    <2>7. Keeps(d, d3, H)
      BY <2>3, <2>5, <2>6, KeepsTrans
    <2> QED BY <2>1, <2>6, <2>7 DEF q
  <1>5. CASE e # Null /\ ~ Expired(d, e, time) /\ ~ (d.ents[e].key # k \/ d.ents[e].writing)
    <2>1. q.ret = e /\ q.db = d5
      BY <1>5 DEF db_entry_get_read, Return
    <2> HIDE DEF q, e
    <2>2. e \in EntryIds /\ d.ents[e].live /\ d.ents[e].tab = t /\ ~ d.ents[e].writing
          /\ d.ents[e].len > 0 /\ d.ents[e].key = k
      BY <1>2, <1>5
    <2>3. SameCore(d, d4)
      BY <1>1, <2>2, HitCore
    <2>4. Sound(d4, H, U) /\ Keeps(d, d4, H) /\ d4.ents[e].live /\ d4.ents[e].tab = t
      BY <2>2, <2>3, CoreSound DEF SameCore, SameEntry
    <2> HIDE DEF d4
    <2>5. Taken(d4, d5, H, U, e, t)
      BY <2>2, <2>4, TakeEntry
    <2>6. d5.ents[e].key = k /\ ~ d5.ents[e].writing /\ d5.ents[e].len > 0
      <3>1. d4.ents[e].key = k /\ ~ d4.ents[e].writing /\ d4.ents[e].len > 0 /\ d4 \in Db
        BY <2>2, <2>3 DEF SameCore, SameEntry
      <3>2. d5 = WithRefs(d4, e, d4.ents[e].refs + 1)
        BY DEF db_entry_incref, WithRefs
      <3>3. d4.ents[e].refs + 1 \in Int
        BY <2>2, <3>1, DbFields
      <3>4. ButRefs(d4, d5)
        BY ZenonT(60), <2>2, <3>1, <3>2, <3>3, SetRefs
      <3> QED BY <2>2, <3>1, <3>4 DEF ButRefs
    <2> HIDE DEF d5
    <2>7. Taken(d, d5, H, U, e, t)
      BY <2>4, <2>5, KeepsTrans DEF Taken
    <2> QED BY <2>1, <2>2, <2>6, <2>7 DEF q
  <1> QED BY Zenon, <1>2, <1>3, <1>4, <1>5

\* db_entry_get_delete
LEMMA EntryGetDelete ==
    ASSUME NEW d, NEW H, NEW U, Sound(d, H, U), NEW t \in TableIds, NEW k \in Keys
    PROVE  LET q == db_entry_get_delete(d, t, k)
           IN  \/ q.ret = Null /\ q.db = d
               \/ q.ret \in EntryIds /\ Taken(d, q.db, H, U, q.ret, t)
  <1> DEFINE q  == db_entry_get_delete(d, t, k)
             e  == d.tabs[t].slot[KeyHash[k]]
             r  == db_entry_incref(d, e, FALSE)
  <1>1. e \in EntryIds \cup {Null} /\ (e # Null => d.ents[e].live /\ d.ents[e].tab = t)
    <2>1. e = d.tabs[t].slot[KeyHash[k]]
      BY SMTT(60)
    <2> HIDE DEF e
    <2> QED BY <2>1, AtPlace
  <1>2. CASE e = Null \/ (e # Null /\ d.ents[e].key # k)
    BY <1>2 DEF db_entry_get_delete, Return
  <1>3. CASE ~ (e = Null \/ (e # Null /\ d.ents[e].key # k))
    <2>1. q.ret = e /\ q.db = r
      BY <1>3 DEF db_entry_get_delete, Return
    <2> HIDE DEF q, e
    <2>2. e \in EntryIds /\ d.ents[e].live /\ d.ents[e].tab = t
      BY <1>1, <1>3
    <2>3. Taken(d, r, H, U, e, t)
      BY <2>2, TakeEntry
    <2> QED BY <2>1, <2>2, <2>3 DEF q
  <1> QED BY <1>2, <1>3

\* A new entry that its creator holds and writes, at its place in table t.
NewKey(d, e, t, k, n) ==
    [d EXCEPT !.ents[e] = [DeadEntry EXCEPT !.live = TRUE, !.tab = t, !.key = k,
                                            !.refs = 1, !.writing = TRUE],
              !.tabs[t].slot[KeyHash[k]] = e,
              !.tabs[t].refs = n]

\* What inserting a new entry changes.
LEMMA NewKeyShape ==
    ASSUME NEW d \in Db, NEW e \in EntryIds, NEW t \in TableIds, NEW k \in Keys, NEW n \in Int
    PROVE  LET r == NewKey(d, e, t, k, n)
               x == r.ents[e]
           IN  /\ r \in Db /\ r.used = d.used /\ r.tables = d.tables /\ r.nameless = d.nameless
               /\ r.tabs[t].name = d.tabs[t].name
               /\ x.live /\ x.tab = t /\ x.key = k /\ x.refs = 1 /\ x.writing /\ ~ x.deleted
               /\ x.len = 0 /\ x.block = NewEntry /\ x.exp = 0 /\ ~ x.file
               /\ r.lru_head = d.lru_head /\ r.lru_tail = d.lru_tail /\ r.size = d.size
               /\ r.keys = d.keys /\ r.orphan = d.orphan /\ r.fault = d.fault
               /\ \A f \in EntryIds : f # e => r.ents[f] = d.ents[f]
               /\ \A s \in TableIds : s # t => r.tabs[s] = d.tabs[s]
               /\ r.tabs[t].live = d.tabs[t].live /\ r.tabs[t].deleted = d.tabs[t].deleted
               /\ r.tabs[t].refs = n
               /\ \A h \in Hashes :
                    r.tabs[t].slot[h] = IF h = KeyHash[k] THEN e ELSE d.tabs[t].slot[h]
  <1> DEFINE y == [DeadEntry EXCEPT !.live = TRUE, !.tab = t, !.key = k, !.refs = 1, !.writing = TRUE]
             y1 == [DeadEntry EXCEPT !.live = TRUE, !.tab = t]
             y2 == [y1 EXCEPT !.key = k]
             y3 == [y2 EXCEPT !.refs = 1]
             o == d.tabs[t]
             p == [o.slot EXCEPT ![KeyHash[k]] = e]
             w == [o EXCEPT !.slot = p, !.refs = n]
             E == [d.ents EXCEPT ![e] = y]
             T == [d.tabs EXCEPT ![t] = w]
             r == [d EXCEPT !.ents = E, !.tabs = T]
  <1>1. d.ents \in [EntryIds -> Entry] /\ d.tabs \in [TableIds -> Table] /\ o \in Table
        /\ o.slot \in [Hashes -> Ptr] /\ e \in Ptr
    BY DEF Db, Table, Ptr
  <1>2. DeadEntry \in Entry /\ ~ DeadEntry.deleted /\ DeadEntry.len = 0 /\ DeadEntry.block = NewEntry
        /\ DeadEntry.exp = 0 /\ ~ DeadEntry.file
    BY DEF DeadEntry, Entry, Ptr
  <1>3. y = [y3 EXCEPT !.writing = TRUE]
    BY <1>2 DEF Entry
  <1>4. y \in Entry /\ y.live /\ y.tab = t /\ y.key = k /\ y.refs = 1 /\ y.writing /\ ~ y.deleted
        /\ y.len = 0 /\ y.block = NewEntry /\ y.exp = 0 /\ ~ y.file
    <2> HIDE DEF y
    <2>1. y1 \in Entry /\ ~ y1.deleted /\ y1.len = 0 /\ y1.block = NewEntry /\ y1.live /\ y1.tab = t
          /\ y1.exp = 0 /\ ~ y1.file
      BY <1>2 DEF Entry
    <2> HIDE DEF y1
    <2>2. y2 \in Entry /\ ~ y2.deleted /\ y2.len = 0 /\ y2.block = NewEntry /\ y2.live /\ y2.tab = t
          /\ y2.key = k /\ y2.exp = 0 /\ ~ y2.file
      BY <2>1 DEF Entry
    <2> HIDE DEF y2
    <2>3. y3 \in Entry /\ ~ y3.deleted /\ y3.len = 0 /\ y3.block = NewEntry /\ y3.live /\ y3.tab = t
          /\ y3.key = k /\ y3.refs = 1 /\ y3.exp = 0 /\ ~ y3.file
      BY <2>2 DEF Entry
    <2> HIDE DEF y3
    <2> QED BY <1>3, <2>3 DEF Entry
  <1> HIDE DEF y
  <1>5. E \in [EntryIds -> Entry] /\ E[e] = y /\ \A f \in EntryIds : f # e => E[f] = d.ents[f]
    BY <1>1, <1>4
  <1>6. p \in [Hashes -> Ptr] /\ \A h \in Hashes : p[h] = IF h = KeyHash[k] THEN e ELSE o.slot[h]
    BY <1>1
  <1> HIDE DEF p
  <1>7. w \in Table /\ w.live = o.live /\ w.deleted = o.deleted /\ w.refs = n /\ w.slot = p
        /\ w.name = o.name
    <2> HIDE DEF o
    <2> QED BY <1>1, <1>6 DEF Table
  <1> HIDE DEF w
  <1>8. T \in [TableIds -> Table] /\ T[t] = w /\ \A s \in TableIds : s # t => T[s] = d.tabs[s]
    BY <1>1, <1>7
  <1>9. NewKey(d, e, t, k, n) = r
    BY ZenonT(60), <1>1 DEF NewKey, Db, y, w, p
  <1> HIDE DEF E, T
  <1>10. r \in Db /\ r.used = d.used /\ r.tables = d.tables
         /\ r.nameless = d.nameless /\ r.ents = E /\ r.tabs = T
         /\ r.lru_head = d.lru_head /\ r.lru_tail = d.lru_tail /\ r.size = d.size
         /\ r.keys = d.keys /\ r.orphan = d.orphan /\ r.fault = d.fault
    BY <1>5, <1>8 DEF Db
  <1> HIDE DEF r
  <1> QED BY <1>4, <1>5, <1>6, <1>7, <1>8, <1>9, <1>10

\* Inserting a new entry with its first user.
LEMMA NewKeySound ==
    ASSUME NEW d, NEW H, NEW U, Sound(d, H, U), NEW e \in EntryIds, ~ d.ents[e].live, H[e] = 0,
           NEW t \in TableIds, NEW k \in Keys, NEW n \in Int, n >= U[t] + 1,
           NEW G, ButFor(H, G, e), G[e] = 1
    PROVE  LET r == NewKey(d, e, t, k, n)
           IN  /\ Sound(r, G, U) /\ Keeps(d, r, H)
               /\ r.ents[e].live /\ r.ents[e].writing /\ r.ents[e].tab = t /\ r.ents[e].key = k
  <1> DEFINE r == NewKey(d, e, t, k, n)
  <1>1. d \in Db /\ Base(d, H, U) /\ NoZombie(d, H) /\ U \in [TableIds -> Nat]
    BY DEF Sound, Base, TableUses
  <1>2. /\ r \in Db /\ r.used = d.used
        /\ r.ents[e].live /\ r.ents[e].tab = t /\ r.ents[e].key = k /\ r.ents[e].refs = 1
        /\ r.ents[e].writing /\ ~ r.ents[e].deleted
        /\ r.ents[e].len = 0 /\ r.ents[e].block = NewEntry
        /\ \A f \in EntryIds : f # e => r.ents[f] = d.ents[f]
        /\ \A s \in TableIds : s # t => r.tabs[s] = d.tabs[s]
        /\ r.tabs[t].live = d.tabs[t].live /\ r.tabs[t].deleted = d.tabs[t].deleted
        /\ r.tabs[t].refs = n
        /\ \A h \in Hashes :
             r.tabs[t].slot[h] = IF h = KeyHash[k] THEN e ELSE d.tabs[t].slot[h]
    BY <1>1, NewKeyShape
  <1> HIDE DEF r
  <1>3. G \in Counts /\ \A f \in EntryIds : f # e => G[f] = H[f]
    BY DEF ButFor
  <1>4. \A f \in EntryIds : EntryOK(r, G, f)
    <2> SUFFICES ASSUME NEW f \in EntryIds PROVE EntryOK(r, G, f)
      OBVIOUS
    <2>1. CASE f = e
      <3>1. ~ (0 > BlockLength)
        BY DbAssumption
      <3> QED BY <1>2, <2>1, <3>1 DEF EntryOK
    <2>2. CASE f # e
      <3>1. EntryOK(d, H, f) /\ r.ents[f] = d.ents[f] /\ G[f] = H[f]
        BY <1>1, <1>2, <1>3, <2>2 DEF Base
      <3> QED BY <3>1 DEF EntryOK
    <2> QED BY <2>1, <2>2
  <1>5. BlocksOK(r)
    <2>1. BlocksOK(d) /\ NewEntry \notin Blocks
      BY <1>1, DbAssumption DEF Base, NewEntry
    <2>2. \A f \in EntryIds : r.ents[f].live /\ r.ents[f].block \in Blocks
                              <=> d.ents[f].live /\ r.ents[f].block \in Blocks /\ f # e
      BY <1>2, <2>1
    <2>3. r.used = {r.ents[f].block : f \in {g \in EntryIds : r.ents[g].live}} \cap Blocks
      <3>1. ASSUME NEW b \in d.used
            PROVE  b \in Blocks /\ \E f \in EntryIds : r.ents[f].live /\ r.ents[f].block = b
        BY <1>2, <2>1 DEF BlocksOK
      <3>2. ASSUME NEW f \in EntryIds, r.ents[f].live, r.ents[f].block \in Blocks
            PROVE  r.ents[f].block \in d.used
        <4>1. f # e /\ r.ents[f] = d.ents[f] /\ d.ents[f].live
          BY <1>2, <2>2, <3>2
        <4> QED BY <2>1, <3>2, <4>1 DEF BlocksOK
      <3> QED BY <1>2, <3>1, <3>2
    <2>4. \A f, g \in EntryIds : r.ents[f].live /\ r.ents[g].live /\ r.ents[f].block \in Blocks
                                  /\ r.ents[f].block = r.ents[g].block => f = g
      BY <1>2, <2>1, <2>2 DEF BlocksOK
    <2> QED BY <2>3, <2>4 DEF BlocksOK
  <1>6. \A s \in TableIds, h \in Hashes : SlotOK(r, s, h)
    <2> SUFFICES ASSUME NEW s \in TableIds, NEW h \in Hashes PROVE SlotOK(r, s, h)
      OBVIOUS
    <2>1. CASE s = t /\ h = KeyHash[k]
      BY ZenonT(60), <1>2, <2>1 DEF SlotOK
    <2>2. CASE ~ (s = t /\ h = KeyHash[k])
      <3>1. r.tabs[s].slot[h] = d.tabs[s].slot[h] /\ SlotOK(d, s, h)
        BY <1>1, <1>2, <2>2 DEF Base
      <3>2. d.tabs[s].slot[h] \in EntryIds \cup {Null}
        BY SMTT(60), <1>1, DbFields DEF Ptr
      <3>3. d.tabs[s].slot[h] # Null => r.ents[d.tabs[s].slot[h]] = d.ents[d.tabs[s].slot[h]]
        BY <1>2, <3>1, <3>2 DEF SlotOK
      <3>4. Unusable(r, s) <=> Unusable(d, s)
        BY <1>2 DEF Unusable
      <3> QED BY Zenon, <3>1, <3>3, <3>4 DEF SlotOK
    <2> QED BY <2>1, <2>2
  <1>7. \A s \in TableIds : TableOK(r, U, s)
    <2> SUFFICES ASSUME NEW s \in TableIds PROVE TableOK(r, U, s)
      OBVIOUS
    <2>1. CASE s = t
      <3>1. U[t] \in Nat /\ n \in Int /\ n >= U[t] + 1
        BY <1>1
      <3> QED BY <1>2, <2>1, <3>1 DEF TableOK
    <2>2. CASE s # t
      <3>1. r.tabs[s] = d.tabs[s] /\ TableOK(d, U, s)
        BY <1>1, <1>2, <2>2 DEF Base
      <3>2. Entries(r, s) = Entries(d, s)
        BY <3>1 DEF Entries
      <3> QED BY <3>1, <3>2 DEF TableOK
    <2> QED BY <2>1, <2>2
  <1>8. Base(r, G, U)
    BY <1>1, <1>2, <1>3, <1>4, <1>5, <1>6, <1>7 DEF Base
  <1>9. NoZombie(r, G)
    BY <1>1, <1>2, <1>3 DEF NoZombie
  <1>10. Keeps(d, r, H)
    <2>1. \A f \in EntryIds : H[f] > 0 => f # e
      OBVIOUS
    <2> QED BY <1>2, <2>1 DEF Keeps
  <1> QED BY <1>2, <1>8, <1>9, <1>10 DEF r, Sound

\* The entry that a PUT gets is new, and its own until it is complete.
LEMMA EntryGetWrite ==
    ASSUME NEW d, NEW H, NEW U, Sound(d, H, U), Covered(d, H, U),
           NEW t \in TableIds, NEW k \in Keys, NEW time, ~ Unusable(d, t), U[t] > 0,
           NEW e \in EntryIds, ~ d.ents[e].live, H[e] = 0
    PROVE  LET q == db_entry_get_write(d, t, k, time, e)
               x == q.db.ents[e]
           IN  /\ Keeps(d, q.db, H)
               /\ \/ q.ret = Null /\ Sound(q.db, H, U)
                  \/ /\ q.ret = e /\ x.live /\ x.writing /\ x.key = k /\ x.tab \in {t, Null}
                     /\ \A G : ButFor(H, G, e) /\ G[e] = 1 => Sound(q.db, G, U)
  <1> DEFINE q   == db_entry_get_write(d, t, k, time, e)
             old == d.tabs[t].slot[KeyHash[k]]
             first == Entries(d, t) = {}
             ins == (d.inserts + 1) % LruEvery
             d1  == [d EXCEPT !.inserts = ins]
             d2  == IF old = Null THEN [d1 EXCEPT !.keys = @ + 1]
                    ELSE db_entry_handle_softdelete(d1, old)
             n   == IF first THEN d2.tabs[t].refs + 1 ELSE d2.tabs[t].refs
             d3  == NewKey(d2, e, t, k, n)
             d4  == db_lru_gc(d3, time)
  <1>1. d \in Db /\ Base(d, H, U) /\ H \in [EntryIds -> Nat] /\ U \in [TableIds -> Nat]
    BY DEF Sound, Base, Counts, TableUses
  <1>2. /\ old \in EntryIds \cup {Null}
        /\ old # Null => old \in EntryIds /\ d.ents[old].live
    <2>1. old = d.tabs[t].slot[KeyHash[k]]
      OBVIOUS
    <2> HIDE DEF old
    <2> QED BY <2>1, AtPlace
  <1> HIDE DEF old
  <1>3. SameCore(d, d1)
    <2>1. d.inserts \in 0 .. LruEvery - 1 /\ LruEvery \in Nat \ {0}
      BY <1>1, DbAssumption DEF Db
    <2>2. ins \in 0 .. LruEvery - 1
      BY <2>1
    <2> HIDE DEF ins
    <2> QED BY <1>1, <2>2 DEF Db, SameCore, SameEntry
  <1>4. d1 \in Db /\ Sound(d1, H, U) /\ Keeps(d, d1, H) /\ d1.tabs = d.tabs
        /\ \A f \in EntryIds : d1.ents[f].live = d.ents[f].live
    BY <1>3, CoreSound DEF SameCore, SameEntry
  <1> HIDE DEF d1
  <1>5. /\ Sound(d2, H, U) /\ Keeps(d1, d2, H) /\ SameTables(d1, d2)
        /\ d2.ents[e].live = d1.ents[e].live
    <2>1. CASE old = Null
      <3>1. SameCore(d1, d2)
        BY <1>4, <2>1, KeysCore
      <3> HIDE DEF d2
      <3> QED BY <1>4, <3>1, CoreSound DEF SameCore, SameEntry, SameTables
    <2>2. CASE old # Null
      <3>1. old \in EntryIds /\ old # e
        BY <1>2, <2>2
      <3>2. d2 = db_entry_handle_softdelete(d1, old)
        BY <2>2
      <3> HIDE DEF d2
      <3> QED BY <1>4, <3>1, <3>2, SoftDelete
    <2> QED BY <2>1, <2>2
  <1>6. d2 \in Db /\ Keeps(d, d2, H) /\ ~ d2.ents[e].live
    BY <1>4, <1>5, KeepsTrans DEF Sound, Base
  <1>7. q = IF old # Null /\ d.ents[old].writing THEN Return(d1, Null)
            ELSE Return(IF ins = 0 THEN d4 ELSE d3, e)
    <2> DEFINE g == [d2 EXCEPT !.ents[e] = [DeadEntry EXCEPT !.live = TRUE, !.tab = t,
                                              !.key = k, !.refs = 1, !.writing = TRUE],
                              !.tabs[t].slot[KeyHash[k]] = e,
                              !.tabs[t].refs = IF first THEN @ + 1 ELSE @]
    <2>1. g = d3
      <3> HIDE DEF d2, first
      <3>1. d2.tabs \in [TableIds -> Table] /\ d2.tabs[t] \in Table
        BY <1>6 DEF Db
      <3> DEFINE p == [d2.tabs[t].slot EXCEPT ![KeyHash[k]] = e]
      <3>2. [d2.tabs[t] EXCEPT !.slot = p].refs = d2.tabs[t].refs
        BY <3>1 DEF Table
      <3> QED BY <1>6, <3>1, <3>2 DEF NewKey, Db
    <2>2. q = IF old # Null /\ d.ents[old].writing THEN Return(d1, Null)
              ELSE Return(IF ins = 0 THEN db_lru_gc(g, time) ELSE g, e)
      BY Zenon DEF db_entry_get_write, d1, old
    <2> HIDE DEF q, g, d3
    <2> QED BY <2>1, <2>2
  <1> HIDE DEF d2
  <1>8. n \in Int /\ n >= U[t] + 1
    <2>1. TableOK(d, U, t) /\ d.tabs[t].refs \in Int /\ U[t] \in Nat /\ d.tabs[t].live
          /\ ~ d.tabs[t].deleted
      BY <1>1, DbFields DEF Base, Unusable
    <2>2. d2.tabs[t].refs = d.tabs[t].refs
      BY <1>4, <1>5 DEF SameTables
    <2> QED BY <2>1, <2>2 DEF TableOK
  <1> HIDE DEF n, q, ins
  <1>9. CASE old # Null /\ d.ents[old].writing
    <2>1. q.ret = Null /\ q.db = d1
      BY <1>7, <1>9 DEF Return
    <2> QED BY <1>4, <2>1 DEF q
  <1>10. CASE ~ (old # Null /\ d.ents[old].writing)
    <2>1. q.ret = e /\ q.db \in {d3, d4}
      BY <1>7, <1>10 DEF Return
    <2>2. ASSUME NEW G, ButFor(H, G, e), G[e] = 1
          PROVE  /\ Sound(d3, G, U) /\ Keeps(d2, d3, H) /\ d3.ents[e].live /\ d3.ents[e].writing
                 /\ d3.ents[e].tab = t /\ d3.ents[e].key = k
                 /\ Sound(d4, G, U) /\ Keeps(d3, d4, G) /\ Keeps(d3, d4, H)
      <3>1. /\ Sound(d3, G, U) /\ Keeps(d2, d3, H) /\ d3.ents[e].live /\ d3.ents[e].writing
            /\ d3.ents[e].tab = t /\ d3.ents[e].key = k
        BY <1>5, <1>6, <1>8, <2>2, NewKeySound
      <3> HIDE DEF d3
      <3>2. Keeps(d, d3, H)
        BY <1>6, <3>1, KeepsTrans
      <3>3. Covered(d3, G, U)
        <4>1. Covered(d3, H, U)
          BY <3>2, KeepsCovered
        <4> QED BY <2>2, <3>1, <4>1 DEF Covered, ButFor
      <3>4. Sound(d4, G, U) /\ Keeps(d3, d4, G)
        BY <3>1, <3>3, GcSound
      <3> HIDE DEF d4
      <3>5. \A f \in EntryIds : H[f] > 0 => G[f] > 0
        BY <2>2 DEF ButFor
      <3>6. Keeps(d3, d4, H)
        BY <3>4, <3>5 DEF Keeps
      <3> QED BY <3>1, <3>4, <3>6
    <2> DEFINE G0 == [f \in EntryIds |-> IF f = e THEN 1 ELSE H[f]]
    <2>3. ButFor(H, G0, e) /\ G0[e] = 1
      BY <1>1 DEF ButFor, Counts
    <2> HIDE DEF G0, d3, d4
    <2>4. /\ Keeps(d2, d3, H) /\ d3.ents[e].live /\ d3.ents[e].writing /\ d3.ents[e].tab = t
          /\ d3.ents[e].key = k /\ Keeps(d3, d4, G0) /\ Keeps(d3, d4, H)
      BY <2>2, <2>3
    <2>5. Keeps(d, d3, H) /\ Keeps(d, d4, H)
      BY <1>6, <2>4, KeepsTrans
    <2>6. d4.ents[e].live /\ d4.ents[e].writing /\ d4.ents[e].key = k /\ d4.ents[e].tab \in {t, Null}
      BY <2>3, <2>4 DEF Keeps
    <2>7. \A G : ButFor(H, G, e) /\ G[e] = 1 => Sound(d3, G, U) /\ Sound(d4, G, U)
      BY <2>2
    <2> QED BY <2>1, <2>4, <2>5, <2>6, <2>7 DEF q
  <1> QED BY <1>9, <1>10

-----------------------------------------------------------------------------
(* Storing a value.                                                        *)

\* db_block_allocate_new returns a block nobody holds, or none.
LEMMA FreeBlockType ==
    ASSUME NEW d \in Db
    PROVE  FreeBlock(d) \in Blocks \cup {NoBlock} /\ FreeBlock(d) \notin d.used
  <1> DEFINE S == Blocks \ d.used
  <1>1. Blocks \subseteq Nat /\ d.used \subseteq Blocks
    BY DbAssumption, DbFields
  <1>2. CASE S = {}
    <2>1. FreeBlock(d) = NoBlock
      BY <1>2 DEF FreeBlock
    <2>2. NoBlock \notin d.used
      BY <1>1 DEF NoBlock
    <2> QED BY <2>1, <2>2
  <1>3. CASE S # {}
    <2>1. S \in SUBSET Nat
      BY <1>1
    <2>2. FreeBlock(d) = Min(S)
      BY <1>3 DEF FreeBlock
    <2> HIDE DEF S
    <2>3. \E n \in S : \A m \in S : n <= m
      BY <1>3, <2>1, Least
    <2>4. Min(S) \in S
      BY <2>3 DEF Min
    <2> QED BY <2>2, <2>4 DEF S
  <1> QED BY <1>2, <1>3

\* Of an entry, its length and its place may differ in r.
ButValue(d, r, e) ==
    /\ r.tabs = d.tabs /\ r.tables = d.tables /\ r.nameless = d.nameless
    /\ \A f \in EntryIds :
        /\ r.ents[f].live = d.ents[f].live /\ r.ents[f].tab = d.ents[f].tab
        /\ r.ents[f].key = d.ents[f].key /\ r.ents[f].writing = d.ents[f].writing
        /\ r.ents[f].deleted = d.ents[f].deleted /\ r.ents[f].refs = d.ents[f].refs
    /\ \A f \in EntryIds \ {e} : r.ents[f].len = d.ents[f].len /\ r.ents[f].block = d.ents[f].block

\* The value of an entry that is being written may move to a free block or to a file.
LEMMA ValueSound ==
    ASSUME NEW d, NEW r, NEW H, NEW U, Sound(d, H, U), NEW e \in EntryIds,
           d.ents[e].live, d.ents[e].writing, ButValue(d, r, e), r \in Db, r.tabs = d.tabs,
           r.ents[e].len > BlockLength => r.ents[e].block = NoBlock,
           r.ents[e].block \in Blocks => r.ents[e].block = d.ents[e].block
                                         \/ r.ents[e].block \notin d.used,
           \A b \in Blocks : b \in r.used <=> \/ b = r.ents[e].block
                                              \/ b \in d.used /\ b # d.ents[e].block
    PROVE  Sound(r, H, U)
  <1>1. d \in Db /\ Base(d, H, U) /\ NoZombie(d, H) /\ d.used \subseteq Blocks /\ r.used \subseteq Blocks
    BY DbFields DEF Sound, Base
  <1>2. /\ \A f \in EntryIds :
            /\ r.ents[f].live = d.ents[f].live /\ r.ents[f].tab = d.ents[f].tab
            /\ r.ents[f].key = d.ents[f].key /\ r.ents[f].writing = d.ents[f].writing
            /\ r.ents[f].deleted = d.ents[f].deleted /\ r.ents[f].refs = d.ents[f].refs
        /\ \A f \in EntryIds : f # e =>
             r.ents[f].len = d.ents[f].len /\ r.ents[f].block = d.ents[f].block
    BY DEF ButValue
  <1>3. \A f \in EntryIds : EntryOK(r, H, f)
    <2> SUFFICES ASSUME NEW f \in EntryIds PROVE EntryOK(r, H, f)
      OBVIOUS
    <2>1. EntryOK(d, H, f)
      BY <1>1 DEF Base
    <2>2. CASE f = e
      BY <1>2, <2>1, <2>2 DEF EntryOK
    <2>3. CASE f # e
      BY <1>2, <2>1, <2>3 DEF EntryOK
    <2> QED BY <2>2, <2>3
  <1>4. BlocksOK(r)
    <2>1. BlocksOK(d)
      BY <1>1 DEF Base
    <2>2. \A f \in EntryIds : d.ents[f].live /\ d.ents[f].block \in Blocks => d.ents[f].block \in d.used
      BY <2>1 DEF BlocksOK
    <2>3. \A f \in EntryIds : f # e /\ r.ents[f].live /\ r.ents[f].block \in Blocks
             => r.ents[f].block \in d.used /\ r.ents[f].block # d.ents[e].block
      <3> SUFFICES ASSUME NEW f \in EntryIds, f # e, r.ents[f].live, r.ents[f].block \in Blocks
                   PROVE  r.ents[f].block \in d.used /\ r.ents[f].block # d.ents[e].block
        OBVIOUS
      <3>1. d.ents[f].live /\ d.ents[f].block \in Blocks /\ r.ents[f].block = d.ents[f].block
        BY <1>2
      <3> QED BY <2>1, <2>2, <3>1 DEF BlocksOK
    <2>4. r.used = {r.ents[f].block : f \in {g \in EntryIds : r.ents[g].live}} \cap Blocks
      <3>1. ASSUME NEW b \in r.used
            PROVE  b \in Blocks /\ \E f \in EntryIds : r.ents[f].live /\ r.ents[f].block = b
        <4>1. CASE b = r.ents[e].block
          BY <1>1, <1>2, <4>1
        <4>2. CASE b \in d.used /\ b # d.ents[e].block
          <5>1. PICK f \in EntryIds : d.ents[f].live /\ d.ents[f].block = b
            BY <2>1, <4>2 DEF BlocksOK
          <5>2. f # e
            BY <4>2, <5>1
          <5> QED BY <1>1, <1>2, <4>2, <5>1, <5>2
        <4> QED BY <1>1, <4>1, <4>2
      <3>2. ASSUME NEW f \in EntryIds, r.ents[f].live, r.ents[f].block \in Blocks
            PROVE  r.ents[f].block \in r.used
        BY <2>3, <3>2
      <3> QED BY <3>1, <3>2
    <2>5. \A f, g \in EntryIds : r.ents[f].live /\ r.ents[g].live /\ r.ents[f].block \in Blocks
                                  /\ r.ents[f].block = r.ents[g].block => f = g
      <3> SUFFICES ASSUME NEW f \in EntryIds, NEW g \in EntryIds, r.ents[f].live, r.ents[g].live,
                          r.ents[f].block \in Blocks, r.ents[f].block = r.ents[g].block
                   PROVE  f = g
        OBVIOUS
      <3>1. CASE f # e /\ g # e
        BY <1>2, <2>1, <3>1 DEF BlocksOK
      <3>2. CASE f = e /\ g # e
        BY <2>3, <3>2
      <3>3. CASE g = e /\ f # e
        BY <2>3, <3>3
      <3> QED BY <3>1, <3>2, <3>3
    <2> QED BY <2>4, <2>5 DEF BlocksOK
  <1>5. \A t \in TableIds, h \in Hashes : SlotOK(r, t, h)
    <2> SUFFICES ASSUME NEW t \in TableIds, NEW h \in Hashes PROVE SlotOK(r, t, h)
      OBVIOUS
    <2> DEFINE f == d.tabs[t].slot[h]
    <2>1. SlotOK(d, t, h) /\ f \in EntryIds \cup {Null}
      BY <1>1, DbFields DEF Base, Ptr
    <2>2. Unusable(r, t) <=> Unusable(d, t)
      BY DEF Unusable
    <2>3. CASE f = e
      BY <1>2, <2>1, <2>2, <2>3 DEF SlotOK
    <2>4. CASE f # e
      BY <1>2, <2>1, <2>2, <2>4, SlotKept
    <2> QED BY <2>3, <2>4
  <1>6. \A t \in TableIds : TableOK(r, U, t)
    <2>1. \A t \in TableIds : TableOK(d, U, t) /\ Entries(r, t) = Entries(d, t)
      BY <1>1 DEF Base, Entries
    <2> QED BY <2>1 DEF TableOK
  <1>7. NoZombie(r, H)
    BY <1>1, <1>2 DEF NoZombie
  <1> QED BY <1>1, <1>3, <1>4, <1>5, <1>6, <1>7 DEF Sound, Base

\* The time to live and the file of an entry are not part of the core.
LEMMA EntryCore ==
    ASSUME NEW d \in Db, NEW e \in EntryIds, NEW y \in Entry,
           y.live = d.ents[e].live, y.tab = d.ents[e].tab, y.key = d.ents[e].key,
           y.writing = d.ents[e].writing, y.deleted = d.ents[e].deleted,
           y.refs = d.ents[e].refs, y.len = d.ents[e].len, y.block = d.ents[e].block
    PROVE  SameCore(d, [d EXCEPT !.ents = [d.ents EXCEPT ![e] = y]])
  <1> DEFINE r == [d EXCEPT !.ents = [d.ents EXCEPT ![e] = y]]
  <1>1. [d.ents EXCEPT ![e] = y] \in [EntryIds -> Entry]
    BY DEF Db
  <1>2. r \in Db /\ r.tabs = d.tabs /\ r.used = d.used
        /\ \A f \in EntryIds : r.ents[f] = IF f = e THEN y ELSE d.ents[f]
    BY <1>1 DEF Db
  <1> HIDE DEF r
  <1>3. \A f \in EntryIds : SameEntry(d, r, f)
    BY <1>2 DEF SameEntry
  <1> QED BY <1>2, <1>3 DEF SameCore, r

\* The expiry is outside the core.
LEMMA ExpiryCore ==
    ASSUME NEW d \in Db, NEW e \in EntryIds, NEW n \in Nat
    PROVE  SameCore(d, [d EXCEPT !.ents[e].exp = n])
  <1> DEFINE y == [d.ents[e] EXCEPT !.exp = n]
  <1>1. d.ents[e] \in Entry
    BY DEF Db
  <1>2. /\ y \in Entry /\ y.live = d.ents[e].live /\ y.tab = d.ents[e].tab /\ y.key = d.ents[e].key
        /\ y.writing = d.ents[e].writing /\ y.deleted = d.ents[e].deleted
        /\ y.refs = d.ents[e].refs /\ y.len = d.ents[e].len /\ y.block = d.ents[e].block
    BY <1>1 DEF Entry
  <1>3. [d EXCEPT !.ents[e].exp = n] = [d EXCEPT !.ents = [d.ents EXCEPT ![e] = y]]
    BY DEF Db
  <1> HIDE DEF y
  <1> QED BY <1>2, <1>3, EntryCore

\* So is the file,
LEMMA FileCore ==
    ASSUME NEW d \in Db, NEW e \in EntryIds, NEW b \in BOOLEAN
    PROVE  SameCore(d, [d EXCEPT !.ents[e].file = b])
  <1> DEFINE y == [d.ents[e] EXCEPT !.file = b]
  <1>1. d.ents[e] \in Entry
    BY DEF Db
  <1>2. /\ y \in Entry /\ y.live = d.ents[e].live /\ y.tab = d.ents[e].tab /\ y.key = d.ents[e].key
        /\ y.writing = d.ents[e].writing /\ y.deleted = d.ents[e].deleted
        /\ y.refs = d.ents[e].refs /\ y.len = d.ents[e].len /\ y.block = d.ents[e].block
    BY <1>1 DEF Entry
  <1>3. [d EXCEPT !.ents[e].file = b] = [d EXCEPT !.ents = [d.ents EXCEPT ![e] = y]]
    BY DEF Db
  <1> HIDE DEF y
  <1> QED BY <1>2, <1>3, EntryCore

\* the record of a file left behind,
LEMMA OrphanCore ==
    ASSUME NEW d \in Db, NEW e \in EntryIds
    PROVE  SameCore(d, Orphan(d, e))
  <1>1. (d.orphan \/ d.ents[e].file) \in BOOLEAN
    OBVIOUS
  <1> QED BY <1>1 DEF Orphan, Db, SameCore, SameEntry

\* and what db_entry_delete
LEMMA EntryDeleteCore ==
    ASSUME NEW d \in Db, NEW e \in EntryIds
    PROVE  SameCore(d, db_entry_delete(d, e))
  <1>1. SameCore(d, [d EXCEPT !.ents[e].file = FALSE])
    BY FileCore
  <1>2. SameCore(d, Fault(d, "null table"))
    BY FaultCore DEF Faults
  <1> QED BY <1>1, <1>2 DEF db_entry_delete

\* and db_entry_open_create do.
LEMMA OpenCreateCore ==
    ASSUME NEW d \in Db, NEW e \in EntryIds
    PROVE  SameCore(d, db_entry_open_create(d, e))
  <1>1. SameCore(d, Orphan(d, e)) /\ Orphan(d, e) \in Db
    BY OrphanCore DEF SameCore
  <1>2. SameCore(Orphan(d, e), [Orphan(d, e) EXCEPT !.ents[e].file = TRUE])
    BY <1>1, FileCore
  <1> QED BY <1>1, <1>2, SameCoreTrans DEF db_entry_open_create

\* db_target_write_allocate, also when it is called again for the same entry.
LEMMA WriteAllocate ==
    ASSUME NEW d, NEW H, NEW U, Sound(d, H, U), NEW e \in EntryIds, NEW len \in Nat,
           d.ents[e].live, d.ents[e].writing
    PROVE  LET r == db_target_write_allocate(d, e, len)
           IN  Sound(r, H, U) /\ ButValue(d, r, e)
  <1> DEFINE x     == d.ents[e]
             small == len <= BlockLength
             block == IF ~ small THEN NoBlock
                      ELSE IF x.block = NewEntry \/ IsFile(d, e) THEN FreeBlock(d) ELSE x.block
             freed == IF small THEN {} ELSE {x.block}
             u     == (d.used \ freed) \cup ({block} \cap Blocks)
             z     == d.size + ((len - x.len) % LenWrap)
             y     == [x EXCEPT !.block = block, !.len = len, !.file = x.file /\ ~ small]
             d1    == [d EXCEPT !.used = u, !.ents = [d.ents EXCEPT ![e] = y], !.size = z]
             r     == db_target_write_allocate(d, e, len)
             d2    == db_entry_open_create(d1, e)
  <1>1. /\ d \in Db /\ EntryOK(d, H, e) /\ d.ents \in [EntryIds -> Entry] /\ x \in Entry
        /\ d.used \subseteq Blocks /\ x.len \in Nat /\ d.size \in Int
        /\ x.block \in Blocks \cup {NoBlock, NewEntry}
    BY DbFields DEF Sound, Base, Db
  <1>2. NoBlock \notin Blocks /\ NewEntry \notin Blocks /\ BlockLength \in Nat /\ LenWrap \in Nat \ {0}
    BY DbAssumption DEF NoBlock, NewEntry
  <1>3. FreeBlock(d) \in Blocks \cup {NoBlock} /\ FreeBlock(d) \notin d.used
    BY <1>1, FreeBlockType
  <1>4. IsFile(d, e) => x.block = NoBlock
    BY <1>1 DEF EntryOK, IsFile
  <1>5. /\ block \in Blocks \cup {NoBlock, NewEntry}
        /\ len > BlockLength => block = NoBlock
        /\ block \in Blocks => block = x.block \/ block \notin d.used
    BY <1>1, <1>2, <1>3
  <1>6. /\ u \in SUBSET Blocks
        /\ \A b \in Blocks : b \in u <=> b = block \/ (b \in d.used /\ b # x.block)
    <2>1. CASE ~ small
      BY <1>1, <1>2, <2>1
    <2>2. CASE small /\ (x.block = NewEntry \/ IsFile(d, e))
      BY <1>1, <1>2, <1>4, <2>2
    <2>3. CASE small /\ ~ (x.block = NewEntry \/ IsFile(d, e))
      BY <1>1, <1>2, <2>3
    <2> QED BY <2>1, <2>2, <2>3
  <1>7. z \in Int
    BY <1>1, <1>2
  <1>8. db_target_write_allocate(d, e, len) =
            IF NoPath(d, e) /\ (IsFile(d, e) \/ ~ small) THEN Fault(d, "null table")
            ELSE IF small THEN d1 ELSE d2
    <2> DEFINE g == [d EXCEPT !.used = (@ \ freed) \cup ({block} \cap Blocks),
                              !.ents[e] = [x EXCEPT !.block = block, !.len = len,
                                                    !.file = @ /\ ~ small],
                              !.size = @ + ((len - x.len) % LenWrap)]
    <2>1. g = d1
      <3> HIDE DEF block, freed, small
      <3> QED BY <1>1 DEF Db
    <2>2. db_target_write_allocate(d, e, len) =
            IF NoPath(d, e) /\ (IsFile(d, e) \/ ~ small) THEN Fault(d, "null table")
            ELSE IF small THEN g ELSE db_entry_open_create(g, e)
      BY Zenon DEF db_target_write_allocate
    <2> HIDE DEF g, d1
    <2> QED BY <2>1, <2>2
  <1> HIDE DEF r, block, u, z, freed
  <1>9. /\ y \in Entry /\ y.block = block /\ y.len = len /\ y.live = x.live /\ y.tab = x.tab
        /\ y.key = x.key /\ y.writing = x.writing /\ y.deleted = x.deleted /\ y.refs = x.refs
    <2>1. (x.file /\ ~ small) \in BOOLEAN
      OBVIOUS
    <2> HIDE DEF x, small
    <2> QED BY <1>1, <1>5, <2>1 DEF Entry
  <1> HIDE DEF y
  <1>10. d1 \in Db /\ d1.tabs = d.tabs /\ d1.tables = d.tables
         /\ d1.nameless = d.nameless /\ d1.used = u
         /\ \A f \in EntryIds : d1.ents[f] = IF f = e THEN y ELSE d.ents[f]
    <2>1. [d.ents EXCEPT ![e] = y] \in [EntryIds -> Entry]
      BY <1>1, <1>9
    <2> QED BY <1>1, <1>6, <1>7, <2>1 DEF Db
  <1> HIDE DEF d1
  <1>11. ButValue(d, d1, e)
    BY <1>9, <1>10 DEF ButValue
  <1>12. d1.ents[e].block = block /\ d1.ents[e].len = len
    BY <1>9, <1>10
  <1>13. Sound(d1, H, U)
    BY <1>5, <1>6, <1>10, <1>11, <1>12, ValueSound
  <1>14. SameCore(d1, d2)
    BY <1>10, OpenCreateCore
  <1>15. Sound(d2, H, U) /\ ButValue(d, d2, e)
    BY <1>11, <1>13, <1>14, CoreSound DEF SameCore, SameEntry, ButValue
  <1> HIDE DEF d2
  <1>16. CASE NoPath(d, e) /\ (IsFile(d, e) \/ ~ small)
    <2>1. r = Fault(d, "null table")
      BY <1>8, <1>16 DEF r
    <2>2. SameCore(d, r)
      BY <1>1, <2>1, FaultCore DEF Faults
    <2> QED BY <2>2, CoreSound DEF SameCore, SameEntry, ButValue, r
  <1>17. CASE ~ (NoPath(d, e) /\ (IsFile(d, e) \/ ~ small))
    <2>1. r \in {d1, d2}
      BY <1>8, <1>17 DEF r
    <2> QED BY <1>11, <1>13, <1>15, <2>1 DEF r
  <1> QED BY <1>16, <1>17

\* Entry e is no longer being written.
ButWriting(d, r, e) ==
    /\ r.tabs = d.tabs /\ r.tables = d.tables /\ r.nameless = d.nameless
    /\ ~ r.ents[e].writing
    /\ \A f \in EntryIds :
        /\ r.ents[f].live = d.ents[f].live /\ r.ents[f].tab = d.ents[f].tab
        /\ r.ents[f].key = d.ents[f].key /\ r.ents[f].len = d.ents[f].len
        /\ r.ents[f].deleted = d.ents[f].deleted /\ r.ents[f].refs = d.ents[f].refs
        /\ r.ents[f].block = d.ents[f].block
        /\ f # e => r.ents[f].writing = d.ents[f].writing

\* An upload ends when it is complete or when nobody finds its entry.
LEMMA StopWriting ==
    ASSUME NEW d, NEW H, NEW U, Sound(d, H, U), NEW e \in EntryIds,
           \/ d.ents[e].len > 0 \/ d.ents[e].deleted \/ d.ents[e].tab = Null
           \/ Unusable(d, d.ents[e].tab)
    PROVE  LET r == [d EXCEPT !.ents[e].writing = FALSE]
           IN  Sound(r, H, U) /\ ButWriting(d, r, e)
  <1> DEFINE y == [d.ents[e] EXCEPT !.writing = FALSE]
             r == [d EXCEPT !.ents[e].writing = FALSE]
  <1>1. d \in Db /\ Base(d, H, U) /\ NoZombie(d, H) /\ d.ents \in [EntryIds -> Entry]
        /\ d.ents[e] \in Entry
    BY DEF Sound, Base, Db
  <1>2. /\ y \in Entry /\ ~ y.writing /\ y.live = d.ents[e].live /\ y.tab = d.ents[e].tab
        /\ y.key = d.ents[e].key /\ y.len = d.ents[e].len /\ y.deleted = d.ents[e].deleted
        /\ y.refs = d.ents[e].refs /\ y.block = d.ents[e].block
    BY <1>1 DEF Entry
  <1>3. r = [d EXCEPT !.ents = [d.ents EXCEPT ![e] = y]]
    BY <1>1 DEF Db
  <1> HIDE DEF y
  <1>4. r \in Db /\ r.tabs = d.tabs /\ r.tables = d.tables
        /\ r.nameless = d.nameless /\ r.used = d.used
        /\ \A f \in EntryIds : r.ents[f] = IF f = e THEN y ELSE d.ents[f]
    <2>1. [d.ents EXCEPT ![e] = y] \in [EntryIds -> Entry]
      BY <1>1, <1>2
    <2> QED BY <1>1, <1>3, <2>1 DEF Db
  <1> HIDE DEF r
  <1>5. ButWriting(d, r, e)
    BY <1>2, <1>4 DEF ButWriting
  <1>6. \A f \in EntryIds : EntryOK(r, H, f)
    <2>1. \A f \in EntryIds : EntryOK(d, H, f)
      BY <1>1 DEF Base
    <2> QED BY <1>5, <2>1 DEF EntryOK, ButWriting
  <1>7. BlocksOK(r) /\ NoZombie(r, H)
    <2>1. BlocksOK(d)
      BY <1>1 DEF Base
    <2>2. BlocksOK(r)
      BY <1>4, <1>5, <2>1 DEF BlocksOK, ButWriting
    <2> QED BY <1>1, <1>5, <2>2 DEF NoZombie, ButWriting
  <1>8. \A t \in TableIds, h \in Hashes : SlotOK(r, t, h)
    <2> SUFFICES ASSUME NEW t \in TableIds, NEW h \in Hashes PROVE SlotOK(r, t, h)
      OBVIOUS
    <2> DEFINE f == d.tabs[t].slot[h]
    <2>1. SlotOK(d, t, h) /\ f \in EntryIds \cup {Null}
      BY <1>1, DbFields DEF Base, Ptr
    <2>2. Unusable(r, t) <=> Unusable(d, t)
      BY <1>4 DEF Unusable
    <2>3. CASE f = e
      <3>1. d.ents[e].live /\ ~ d.ents[e].deleted /\ d.ents[e].tab = t /\ KeyHash[d.ents[e].key] = h
        BY <2>1, <2>3, DbAssumption DEF SlotOK
      <3>2. d.ents[e].len > 0 \/ Unusable(d, t)
        BY <3>1, DbAssumption
      <3>3. r.tabs[t].slot[h] = e /\ r.ents[e] = y
        BY SMTT(60), <1>4, <2>3
      <3> QED BY <1>2, <2>2, <3>1, <3>2, <3>3 DEF SlotOK
    <2>4. CASE f # e
      BY Zenon, <1>4, <2>1, <2>2, <2>4 DEF SlotOK
    <2> QED BY <2>3, <2>4
  <1>9. \A t \in TableIds : TableOK(r, U, t)
    <2>1. \A t \in TableIds : TableOK(d, U, t) /\ Entries(r, t) = Entries(d, t)
      BY <1>1, <1>4 DEF Base, Entries
    <2> QED BY <1>4, <2>1 DEF TableOK
  <1>10. Sound(r, H, U)
    BY <1>1, <1>4, <1>6, <1>7, <1>8, <1>9 DEF Sound, Base
  <1> QED BY <1>5, <1>10 DEF r

\* db_complete_writing of a value that is not empty.
LEMMA CompleteWriting ==
    ASSUME NEW d, NEW H, NEW U, Sound(d, H, U), NEW e \in EntryIds, d.ents[e].len > 0
    PROVE  LET r == db_complete_writing(d, e)
           IN  Sound(r, H, U) /\ ButWriting(d, r, e)
  <1> DEFINE d1 == [d EXCEPT !.ents[e].writing = FALSE]
             d2 == db_lru_insert(d1, e)
  <1>1. Sound(d1, H, U) /\ ButWriting(d, d1, e)
    BY StopWriting
  <1>2. db_complete_writing(d, e) \in {d1, d2}
    BY DEF db_complete_writing
  <1> HIDE DEF d1
  <1>3. SameCore(d1, d2)
    BY <1>1, InsertCore DEF Sound, Base
  <1>4. Sound(d2, H, U) /\ ButWriting(d, d2, e)
    BY <1>1, <1>3, CoreSound DEF SameCore, SameEntry, ButWriting
  <1> QED BY <1>1, <1>2, <1>4

-----------------------------------------------------------------------------
(* Sums and loops over finite sets.                                        *)

\* Sums(g, f): g[s] is the sum of f over s, as MapThenSumSet computes it.
Sums(g, f) ==
    \A s \in SUBSET EntryIds : g[s] = IF s = {} THEN 0 ELSE f[Pick(s)] + g[s \ {Pick(s)}]

SumOver(f, s) == (CHOOSE g \in [SUBSET EntryIds -> Int] : Sums(g, f))[s]

\* Sums of integers exist.
LEMMA SumExists ==
    ASSUME NEW f \in [EntryIds -> Int]
    PROVE  \E g \in [SUBSET EntryIds -> Int] : Sums(g, f)
  <1> DEFINE F == [p \in EntryIds \X Int |-> f[p[1]] + p[2]]
  <1>1. F \in [EntryIds \X Int -> Int]
    OBVIOUS
  <1>2. \A e \in EntryIds, a \in Int : F[<<e, a>>] = f[e] + a
    BY Zenon
  <1> HIDE DEF F
  <1>3. PICK g \in [SUBSET EntryIds -> Int] : Solution(g, EntryIds, 0, F)
    <2>1. IsFiniteSet(EntryIds) /\ 0 \in Int
      BY DbAssumption
    <2> QED BY <1>1, <2>1, LoopExists
  <1>4. \A s \in SUBSET EntryIds : s # {} => Pick(s) \in EntryIds /\ s \ {Pick(s)} \in SUBSET EntryIds
    BY PickIn
  <1>5. Sums(g, f)
    BY <1>2, <1>3, <1>4 DEF Solution, Sums
  <1> QED BY <1>5

\* What a sum is made of.
LEMMA SumSteps ==
    ASSUME NEW f \in [EntryIds -> Int], NEW s \in SUBSET EntryIds
    PROVE  /\ SumOver(f, s) \in Int
           /\ SumOver(f, s) = IF s = {} THEN 0 ELSE f[Pick(s)] + SumOver(f, s \ {Pick(s)})
  <1> DEFINE g == CHOOSE h \in [SUBSET EntryIds -> Int] : Sums(h, f)
  <1>1. g \in [SUBSET EntryIds -> Int] /\ Sums(g, f)
    BY SumExists
  <1>2. \A u : SumOver(f, u) = g[u]
    BY DEF SumOver
  <1> HIDE DEF g
  <1> QED BY <1>1, <1>2 DEF Sums

\* A smallest set of a nonempty collection.
LEMMA Smallest ==
    ASSUME NEW C \in SUBSET (SUBSET EntryIds), C # {}
    PROVE  \E s \in C : \A u \in C : ~ (Cardinality(u) < Cardinality(s))
  <1> DEFINE T == {Cardinality(s) : s \in C}
  <1>1. \A s \in C : Cardinality(s) \in Nat
    BY DbAssumption, FS_Subset, FS_CardinalityType
  <1>2. T \in SUBSET Nat /\ T # {}
    BY <1>1
  <1> HIDE DEF T
  <1>3. PICK n \in T : \A m \in T : n <= m
    BY <1>2, Least
  <1>4. PICK s \in C : Cardinality(s) = n
    BY <1>3 DEF T
  <1>5. \A u \in C : Cardinality(u) \in T
    BY DEF T
  <1>6. \A u \in C : n <= Cardinality(u) /\ Cardinality(u) \in Nat /\ n \in Nat
    BY <1>1, <1>3, <1>4, <1>5
  <1> QED BY <1>4, <1>6

\* Without one of its members a set is smaller.
LEMMA Smaller ==
    ASSUME NEW s \in SUBSET EntryIds, NEW x \in s
    PROVE  /\ s \ {x} \in SUBSET EntryIds /\ Cardinality(s \ {x}) < Cardinality(s)
           /\ Cardinality(s \ {x}) = Cardinality(s) - 1
           /\ Cardinality(s) \in Nat /\ Cardinality(s \ {x}) \in Nat
  <1>1. IsFiniteSet(s) /\ IsFiniteSet(s \ {x})
    BY DbAssumption, FS_Subset
  <1>2. Cardinality(s) \in Nat /\ Cardinality(s \ {x}) \in Nat
    BY <1>1, FS_CardinalityType
  <1>3. Cardinality(s \ {x}) = Cardinality(s) - 1
    BY <1>1, FS_RemoveElement
  <1> QED BY <1>2, <1>3

\* Any member may be taken out of a sum first.
LEMMA SumRemove ==
    ASSUME NEW f \in [EntryIds -> Int], NEW t \in SUBSET EntryIds, NEW z \in t
    PROVE  SumOver(f, t) = f[z] + SumOver(f, t \ {z})
  <1> DEFINE S(u) == SumOver(f, u)
             C == {s \in SUBSET EntryIds : \E x \in s : S(s) # f[x] + S(s \ {x})}
  <1>1. \A s \in SUBSET EntryIds : S(s) \in Int /\ S(s) = IF s = {} THEN 0 ELSE f[Pick(s)] + S(s \ {Pick(s)})
    BY SumSteps
  <1> HIDE DEF S
  <1>2. C = {}
    <2> SUFFICES ASSUME C # {} PROVE FALSE
      OBVIOUS
    <2>1. PICK s \in C : \A u \in C : ~ (Cardinality(u) < Cardinality(s))
      <3>1. C \in SUBSET (SUBSET EntryIds)
        OBVIOUS
      <3> HIDE DEF C
      <3> QED BY <3>1, Smallest
    <2>2. s \in SUBSET EntryIds
      OBVIOUS
    <2>3. PICK x \in s : S(s) # f[x] + S(s \ {x})
      OBVIOUS
    <2> DEFINE p == Pick(s)
    <2>4. p \in s /\ S(s) = f[p] + S(s \ {p})
      BY <1>1, <2>2, <2>3, PickIn
    <2> HIDE DEF p
    <2>5. p # x
      BY <2>3, <2>4
    <2>6. s \ {x} \notin C /\ s \ {p} \notin C /\ s \ {x} \in SUBSET EntryIds /\ s \ {p} \in SUBSET EntryIds
      <3>1. Cardinality(s \ {x}) < Cardinality(s) /\ Cardinality(s \ {p}) < Cardinality(s)
        BY <2>2, <2>3, <2>4, Smaller
      <3> HIDE DEF C
      <3> QED BY <2>1, <2>2, <3>1
    <2>7. S(s \ {p}) = f[x] + S((s \ {p}) \ {x})
      BY <2>3, <2>5, <2>6
    <2>8. S(s \ {x}) = f[p] + S((s \ {x}) \ {p})
      BY <2>4, <2>5, <2>6
    <2>9. (s \ {p}) \ {x} = (s \ {x}) \ {p} /\ (s \ {p}) \ {x} \in SUBSET EntryIds
      BY <2>2
    <2>10. S((s \ {p}) \ {x}) \in Int /\ f[x] \in Int /\ f[p] \in Int
      BY <1>1, <2>2, <2>4, <2>9
    <2>11. S(s) = f[p] + (f[x] + S((s \ {p}) \ {x}))
      BY <2>4, <2>7
    <2>12. f[x] + S(s \ {x}) = f[x] + (f[p] + S((s \ {p}) \ {x}))
      BY <2>8, <2>9
    <2> HIDE DEF C
    <2> QED BY <2>3, <2>10, <2>11, <2>12
  <1>3. S(t) = f[z] + S(t \ {z})
    BY <1>2
  <1> QED BY <1>3 DEF S

\* Sums of functions that agree are the same.
LEMMA SumSame ==
    ASSUME NEW f \in [EntryIds -> Int], NEW g \in [EntryIds -> Int], NEW t \in SUBSET EntryIds,
           \A e \in t : f[e] = g[e]
    PROVE  SumOver(f, t) = SumOver(g, t)
  <1> DEFINE C == {s \in SUBSET t : SumOver(f, s) # SumOver(g, s)}
  <1>1. C = {}
    <2> SUFFICES ASSUME C # {} PROVE FALSE
      OBVIOUS
    <2>1. PICK s \in C : \A u \in C : ~ (Cardinality(u) < Cardinality(s))
      <3>1. C \in SUBSET (SUBSET EntryIds)
        OBVIOUS
      <3> HIDE DEF C
      <3> QED BY <3>1, Smallest
    <2>2. s \in SUBSET EntryIds /\ s \in SUBSET t
      OBVIOUS
    <2> DEFINE p == Pick(s)
    <2>3. s # {}
      BY SumSteps
    <2>4. p \in s /\ SumOver(f, s) = f[p] + SumOver(f, s \ {p})
          /\ SumOver(g, s) = g[p] + SumOver(g, s \ {p})
      BY <2>2, <2>3, SumSteps, PickIn
    <2> HIDE DEF p
    <2>5. s \ {p} \notin C
      <3>1. Cardinality(s \ {p}) < Cardinality(s)
        BY <2>2, <2>4, Smaller
      <3> HIDE DEF C
      <3> QED BY <2>1, <3>1
    <2>6. SumOver(f, s \ {p}) = SumOver(g, s \ {p})
      BY <2>2, <2>5
    <2>7. SumOver(f, s) = SumOver(g, s)
      BY <2>2, <2>4, <2>6
    <2> QED BY <2>7
  <1> QED BY <1>1

-----------------------------------------------------------------------------
(* Doubly linked lists.  The nodes L are listed in the order of p, with    *)
(* links N to the next and P to the previous, from head h to tail t.       *)

NextIs(L, p, e, n) ==
    IF n = Null THEN \A g \in L : p[g] <= p[e]
    ELSE n \in L /\ p[e] < p[n] /\ \A g \in L : p[g] <= p[e] \/ p[n] <= p[g]
PrevIs(L, p, e, n) ==
    IF n = Null THEN \A g \in L : p[e] <= p[g]
    ELSE n \in L /\ p[n] < p[e] /\ \A g \in L : p[g] <= p[n] \/ p[e] <= p[g]
HeadIs(L, p, h) == IF h = Null THEN L = {} ELSE h \in L /\ \A g \in L : p[h] <= p[g]
TailIs(L, p, t) == IF t = Null THEN L = {} ELSE t \in L /\ \A g \in L : p[g] <= p[t]

List(L, N, P, h, t, p) ==
    /\ L \subseteq EntryIds /\ p \in [EntryIds -> Nat]
    /\ \A e, f \in L : p[e] = p[f] => e = f
    /\ \A e \in L : NextIs(L, p, e, N[e]) /\ PrevIs(L, p, e, P[e])
    /\ HeadIs(L, p, h) /\ TailIs(L, p, t)

\* The links when the neighbours of a node x are linked to each other.
Bypass(L, N, P, h, t, x, M, Q, i, j) ==
    /\ \A e \in L \ {x} : M[e] = IF e = P[x] THEN N[x] ELSE N[e]
    /\ \A e \in L \ {x} : Q[e] = IF e = N[x] THEN P[x] ELSE P[e]
    /\ i = IF P[x] = Null THEN N[x] ELSE h
    /\ j = IF N[x] = Null THEN P[x] ELSE t

\* A node is taken out: its neighbours are linked to each other.
LEMMA ListRemove ==
    ASSUME NEW L, NEW N, NEW P, NEW h, NEW t, NEW p, List(L, N, P, h, t, p), NEW x \in L,
           NEW M, NEW Q, NEW i, NEW j, Bypass(L, N, P, h, t, x, M, Q, i, j)
    PROVE  List(L \ {x}, M, Q, i, j, p)
  <1> DEFINE K == L \ {x}
  <1>1. /\ L \subseteq EntryIds /\ p \in [EntryIds -> Nat] /\ Null \notin EntryIds
        /\ \A e, f \in L : p[e] = p[f] => e = f
        /\ \A e \in L : p[e] \in Nat
    BY DbAssumption DEF List
  <1>2. \A e \in L : NextIs(L, p, e, N[e]) /\ PrevIs(L, p, e, P[e])
    BY DEF List
  <1>3. HeadIs(L, p, h) /\ TailIs(L, p, t)
    BY DEF List
  <1>4. ASSUME NEW e \in K PROVE NextIs(K, p, e, M[e])
    BY <1>1, <1>2, SMTT(60) DEF Bypass, NextIs, PrevIs
  <1>5. ASSUME NEW e \in K PROVE PrevIs(K, p, e, Q[e])
    BY <1>1, <1>2, SMTT(60) DEF Bypass, NextIs, PrevIs
  <1>6. HeadIs(K, p, i)
    BY <1>1, <1>2, <1>3, SMTT(60) DEF Bypass, NextIs, PrevIs, HeadIs
  <1>7. TailIs(K, p, j)
    BY <1>1, <1>2, <1>3, SMTT(60) DEF Bypass, NextIs, PrevIs, TailIs
  <1> QED BY <1>1, <1>4, <1>5, <1>6, <1>7 DEF List

\* The links when x is behind the tail.
Behind(L, N, P, h, t, x, M, Q, i) ==
    /\ \A e \in L : M[e] = IF e = t THEN x ELSE N[e]
    /\ \A e \in L : Q[e] = P[e]
    /\ M[x] = Null /\ Q[x] = t /\ i = IF h = Null THEN x ELSE h

\* A node is added at the tail.
LEMMA ListInsert ==
    ASSUME NEW L, NEW N, NEW P, NEW h, NEW t, NEW p, List(L, N, P, h, t, p),
           NEW x \in EntryIds, x \notin L, NEW M, NEW Q, NEW i, Behind(L, N, P, h, t, x, M, Q, i)
    PROVE  \E q : List(L \cup {x}, M, Q, i, x, q)
  <1> DEFINE K == L \cup {x}
             q == [p EXCEPT ![x] = IF t = Null THEN 0 ELSE p[t] + 1]
  <1>1. /\ L \subseteq EntryIds /\ p \in [EntryIds -> Nat] /\ Null \notin EntryIds
        /\ \A e, f \in L : p[e] = p[f] => e = f
        /\ \A e \in L : p[e] \in Nat
    BY DbAssumption DEF List
  <1>2. \A e \in L : NextIs(L, p, e, N[e]) /\ PrevIs(L, p, e, P[e])
    BY DEF List
  <1>3. HeadIs(L, p, h) /\ TailIs(L, p, t)
    BY DEF List
  <1>4. /\ q \in [EntryIds -> Nat] /\ \A e \in L : q[e] = p[e] /\ q[e] < q[x]
        /\ q[x] \in Nat /\ K \subseteq EntryIds /\ x # Null
    BY <1>1, <1>3 DEF TailIs
  <1> HIDE DEF q
  <1>5. \A e, f \in K : q[e] = q[f] => e = f
    BY <1>1, <1>4
  <1>6. ASSUME NEW e \in K PROVE NextIs(K, q, e, M[e])
    <2>1. CASE e = x
      BY <1>1, <1>4, <2>1 DEF NextIs, Behind
    <2>2. CASE e # x /\ e = t
      BY <1>1, <1>3, <1>4, <2>2 DEF NextIs, TailIs, Behind
    <2>3. CASE e # x /\ e # t
      <3>1. e \in L /\ M[e] = N[e] /\ NextIs(L, p, e, N[e])
        BY <1>2, <2>3 DEF Behind
      <3>2. N[e] # Null
        BY <1>1, <1>3, <2>3, <3>1 DEF NextIs, TailIs
      <3> QED BY <1>1, <1>4, <3>1, <3>2 DEF NextIs
    <2> QED BY <2>1, <2>2, <2>3
  <1>7. ASSUME NEW e \in K PROVE PrevIs(K, q, e, Q[e])
    <2>1. CASE e = x
      BY <1>1, <1>3, <1>4, <2>1 DEF PrevIs, TailIs, Behind
    <2>2. CASE e # x
      <3>1. e \in L /\ Q[e] = P[e] /\ PrevIs(L, p, e, P[e])
        BY <1>2, <2>2 DEF Behind
      <3> QED BY <1>1, <1>4, <3>1 DEF PrevIs
    <2> QED BY <2>1, <2>2
  <1>8. HeadIs(K, q, i) /\ TailIs(K, q, x)
    BY <1>1, <1>3, <1>4 DEF HeadIs, TailIs, Behind
  <1> QED BY <1>4, <1>5, <1>6, <1>7, <1>8 DEF List

\* How many nodes come before e.
Index(L, p, e) == Cardinality({f \in L : p[f] < p[e]})

\* The nodes reached from the head over at most n links, and Null behind the last.
Upto(L, p, n) == {e \in L : Index(L, p, e) <= n} \cup {x \in {Null} : Cardinality(L) <= n}

\* The numbers of the nodes, one after the other.
LEMMA ListIndex ==
    ASSUME NEW L, NEW N, NEW P, NEW h, NEW t, NEW p, List(L, N, P, h, t, p)
    PROVE  /\ Cardinality(L) \in Nat
           /\ \A e \in L : Index(L, p, e) \in Nat /\ Index(L, p, e) < Cardinality(L)
           /\ \A e \in L : N[e] # Null => N[e] \in L /\ Index(L, p, N[e]) = Index(L, p, e) + 1
           /\ \A e \in L : N[e] = Null <=> Index(L, p, e) + 1 = Cardinality(L)
           /\ \A e \in L : Index(L, p, e) = 0 <=> e = h
           /\ \A e \in L : e # h => P[e] \in L /\ N[P[e]] = e
           /\ L # {} => h \in L /\ t \in L /\ N[t] = Null /\ P[h] = Null
           /\ L = {} => h = Null /\ t = Null
           /\ h = Null => L = {}
           /\ \A e \in L : N[e] # Null => P[N[e]] = e
  <1> DEFINE B(e) == {f \in L : p[f] < p[e]}
  <1>1. /\ L \subseteq EntryIds /\ p \in [EntryIds -> Nat] /\ Null \notin EntryIds
        /\ \A e, f \in L : p[e] = p[f] => e = f
        /\ \A e \in L : p[e] \in Nat
    BY DbAssumption DEF List
  <1>2. \A e \in L : NextIs(L, p, e, N[e]) /\ PrevIs(L, p, e, P[e])
    BY DEF List
  <1>3. HeadIs(L, p, h) /\ TailIs(L, p, t)
    BY DEF List
  <1>4. IsFiniteSet(L) /\ Cardinality(L) \in Nat
    BY <1>1, DbAssumption, FS_Subset, FS_CardinalityType
  <1>5. \A e \in L : IsFiniteSet(B(e)) /\ Index(L, p, e) = Cardinality(B(e)) /\ Index(L, p, e) \in Nat
                     /\ e \notin B(e) /\ B(e) \subseteq L
    BY <1>1, <1>4, FS_Subset, FS_CardinalityType DEF Index
  <1>6. ASSUME NEW e \in L PROVE Cardinality(B(e) \cup {e}) = Index(L, p, e) + 1
    BY <1>5, FS_AddElement
  <1>7. ASSUME NEW e \in L, N[e] # Null PROVE N[e] \in L /\ Index(L, p, N[e]) = Index(L, p, e) + 1
    <2>1. N[e] \in L /\ p[e] < p[N[e]] /\ \A g \in L : p[g] <= p[e] \/ p[N[e]] <= p[g]
      BY <1>2, <1>7 DEF NextIs
    <2>2. B(N[e]) = B(e) \cup {e}
      BY <1>1, <2>1
    <2> QED BY <1>5, <1>6, <2>1, <2>2
  <1>8. ASSUME NEW e \in L, N[e] = Null PROVE Index(L, p, e) + 1 = Cardinality(L)
    <2>1. \A g \in L : p[g] <= p[e]
      BY <1>2, <1>8 DEF NextIs
    <2>2. B(e) \cup {e} = L
      BY <1>1, <2>1
    <2> QED BY <1>6, <2>2
  <1>9. ASSUME NEW e \in L PROVE Index(L, p, e) < Cardinality(L)
    <2>1. IsFiniteSet(B(e) \cup {e}) /\ Cardinality(B(e) \cup {e}) <= Cardinality(L)
      BY <1>4, <1>5, FS_Subset
    <2>2. Cardinality(B(e) \cup {e}) = Index(L, p, e) + 1 /\ Index(L, p, e) \in Nat
      BY <1>5, <1>6
    <2> HIDE DEF B
    <2> QED BY <1>4, <2>1, <2>2
  <1>10. ASSUME NEW e \in L, Index(L, p, e) + 1 = Cardinality(L) PROVE N[e] = Null
    <2> SUFFICES ASSUME N[e] # Null PROVE FALSE
      OBVIOUS
    <2> QED BY <1>4, <1>5, <1>7, <1>9, <1>10
  <1>11. ASSUME NEW e \in L PROVE Index(L, p, e) = 0 <=> e = h
    <2>1. Index(L, p, e) = 0 <=> B(e) = {}
      BY <1>5, FS_EmptySet
    <2>2. h \in L /\ \A g \in L : p[h] <= p[g]
      BY <1>3 DEF HeadIs
    <2>3. B(e) = {} <=> \A g \in L : p[e] <= p[g]
      BY <1>1
    <2> QED BY <1>1, <2>1, <2>2, <2>3
  <1>12. ASSUME NEW e \in L, e # h PROVE P[e] \in L /\ N[P[e]] = e
    <2>1. h \in L /\ \A g \in L : p[h] <= p[g]
      BY <1>3 DEF HeadIs
    <2>2. P[e] \in L /\ p[P[e]] < p[e] /\ \A g \in L : p[g] <= p[P[e]] \/ p[e] <= p[g]
      BY <1>1, <1>2, <1>12, <2>1 DEF PrevIs
    <2>3. NextIs(L, p, P[e], N[P[e]])
      BY <1>2, <2>2
    <2> QED BY <1>1, <2>2, <2>3 DEF NextIs
  <1>13. L # {} => h \in L /\ t \in L /\ N[t] = Null /\ P[h] = Null
    BY <1>1, <1>2, <1>3 DEF HeadIs, TailIs, NextIs, PrevIs
  <1>14. L = {} => h = Null /\ t = Null
    BY <1>3 DEF HeadIs, TailIs
  <1>15. h = Null => L = {}
    BY <1>3 DEF HeadIs
  <1>16. ASSUME NEW e \in L, N[e] # Null PROVE P[N[e]] = e
    <2>1. N[e] \in L /\ p[e] < p[N[e]] /\ \A g \in L : p[g] <= p[e] \/ p[N[e]] <= p[g]
      BY <1>2, <1>16 DEF NextIs
    <2>2. PrevIs(L, p, N[e], P[N[e]])
      BY <1>2, <2>1
    <2> QED BY <1>1, <2>1, <2>2 DEF PrevIs
  <1> HIDE DEF B
  <1> QED BY <1>4, <1>5, <1>7, <1>8, <1>9, <1>10, <1>11, <1>12, <1>13, <1>14, <1>15, <1>16

\* Following the links of a list from its head leads to each of its nodes.
LEMMA ListReached ==
    ASSUME NEW L, NEW N, NEW P, NEW h, NEW t, NEW p, List(L, N, P, h, t, p)
    PROVE  /\ Upto(L, p, 0) = {h}
           /\ \A n \in Nat \ {0} : Upto(L, p, n) =
                Upto(L, p, n - 1) \cup {N[e] : e \in Upto(L, p, n - 1) \ {Null}}
           /\ Upto(L, p, Cardinality(EntryIds)) \ {Null} = L
  <1> DEFINE I(e) == Index(L, p, e)
             k == Cardinality(L)
             Up(n) == Upto(L, p, n)
  <1>0. L \subseteq EntryIds /\ Null \notin EntryIds /\ Null \notin L
    BY DbAssumption DEF List
  <1>1. /\ k \in Nat
        /\ \A e \in L : I(e) \in Nat /\ I(e) < k
        /\ \A e \in L : N[e] # Null => N[e] \in L /\ I(N[e]) = I(e) + 1
        /\ \A e \in L : N[e] = Null <=> I(e) + 1 = k
        /\ \A e \in L : I(e) = 0 <=> e = h
        /\ \A e \in L : e # h => P[e] \in L /\ N[P[e]] = e
        /\ L # {} => h \in L /\ t \in L /\ N[t] = Null
        /\ L = {} => h = Null /\ t = Null
        /\ h = Null => L = {}
    BY ListIndex
  <1>2. \A n : Up(n) = {e \in L : I(e) <= n} \cup {x \in {Null} : k <= n}
    BY DEF Upto
  <1>3. k = 0 <=> L = {}
    <2>1. IsFiniteSet(L)
      BY <1>0, DbAssumption, FS_Subset
    <2> QED BY <2>1, FS_EmptySet
  <1>4. k <= Cardinality(EntryIds) /\ Cardinality(EntryIds) \in Nat
    BY <1>0, DbAssumption, FS_Subset, FS_CardinalityType
  <1> HIDE DEF I, k, Up
  <1>5. Up(0) = {h}
    <2>1. CASE L = {}
      BY <1>1, <1>2, <1>3, <2>1
    <2>2. CASE L # {}
      <3>1. ~ (k <= 0)
        BY <1>1, <1>3, <2>2
      <3>2. \A e \in L : I(e) <= 0 <=> e = h
        BY <1>1
      <3> QED BY <1>0, <1>1, <1>2, <2>2, <3>1, <3>2
    <2> QED BY <2>1, <2>2
  <1>6. ASSUME NEW n \in Nat \ {0}
        PROVE  Up(n) = Up(n - 1) \cup {N[e] : e \in Up(n - 1) \ {Null}}
    <2>1. Up(n - 1) \ {Null} = {e \in L : I(e) <= n - 1}
      BY <1>0, <1>2
    <2>2. ASSUME NEW x \in Up(n), x \notin Up(n - 1)
          PROVE  \E e \in L : I(e) <= n - 1 /\ N[e] = x
      <3>1. CASE x = Null
        <4>1. k <= n /\ ~ (k <= n - 1)
          BY <1>0, <1>2, <2>2, <3>1
        <4>2. k = n /\ L # {}
          BY <1>1, <1>3, <4>1
        <4>3. t \in L /\ N[t] = Null /\ I(t) + 1 = k /\ I(t) \in Nat
          BY <1>1, <4>2
        <4> QED BY <3>1, <4>2, <4>3
      <3>2. CASE x # Null
        <4>1. x \in L /\ I(x) <= n /\ ~ (I(x) <= n - 1)
          BY <1>2, <2>2, <3>2
        <4>2. I(x) \in Nat
          BY <1>1, <4>1
        <4>3. I(x) = n
          BY <4>1, <4>2
        <4>4. x # h
          BY <1>1, <4>1, <4>3
        <4>5. P[x] \in L /\ N[P[x]] = x
          BY <1>1, <4>1, <4>4
        <4>6. I(P[x]) \in Nat /\ I(x) = I(P[x]) + 1
          BY <1>1, <3>2, <4>5
        <4> QED BY <4>3, <4>5, <4>6
      <3> QED BY <3>1, <3>2
    <2>3. ASSUME NEW e \in L, I(e) <= n - 1 PROVE N[e] \in Up(n)
      <3>0. I(e) \in Nat
        BY <1>1
      <3>1. CASE N[e] = Null
        <4>1. I(e) + 1 = k
          BY <1>1, <3>1
        <4>2. k <= n
          BY <2>3, <3>0, <4>1
        <4> QED BY <1>2, <3>1, <4>2
      <3>2. CASE N[e] # Null
        <4>1. N[e] \in L /\ I(N[e]) = I(e) + 1
          BY <1>1, <3>2
        <4>2. I(N[e]) <= n
          BY <2>3, <3>0, <4>1
        <4> QED BY <1>2, <4>1, <4>2
      <3> QED BY <3>1, <3>2
    <2>4. Up(n - 1) \subseteq Up(n)
      <3>1. \A e \in L : I(e) <= n - 1 => I(e) <= n
        BY <1>1
      <3>2. k <= n - 1 => k <= n
        BY <1>1
      <3> QED BY <1>2, <3>1, <3>2
    <2> QED BY <2>1, <2>2, <2>3, <2>4
  <1>7. Up(Cardinality(EntryIds)) \ {Null} = L
    <2>1. \A e \in L : I(e) <= Cardinality(EntryIds)
      BY <1>1, <1>4
    <2> QED BY <1>0, <1>2, <2>1
  <1> QED BY <1>5, <1>6, <1>7 DEF Up
=============================================================================
