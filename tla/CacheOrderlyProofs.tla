------------------------ MODULE CacheOrderlyProofs ------------------------
(***************************************************************************)
(* The bookkeeping of the database: LRU list, counters, files, and the     *)
(* references of tables; and why nothing is used after it is gone.         *)
(*                                                                         *)
(* Fine(d, k) is what every function of db.cpp keeps: positions can be     *)
(* given to the complete keys along which the links of the LRU list run    *)
(* (List), a key is at its place in a table that can be used, a hash set   *)
(* holds nothing but its keys, and counters and files are those of the     *)
(* keys, where they are exact at all (Counted, Filed). k are the keys that *)
(* a function which is not finished has removed and not yet subtracted.    *)
(* OInv joins Fine to the invariant of CacheServerProofs.                  *)
(*                                                                         *)
(* Counts of tables need more. Tallied says that the references of a table *)
(* are its users and one for its keys, Stays and Ends say what a function  *)
(* may do to the table of others, and TInv adds Tallied and the names to   *)
(* OInv. FInv adds what a handler must find where the last one has left it *)
(* (Ready), so that no function is called on something that is gone.       *)
(***************************************************************************)
EXTENDS CacheServerProofs

-----------------------------------------------------------------------------
(* Finding and filling entries.                                            *)

\* The list of d holds L.
ListAt(d, L) == \E p : List(L, Nexts(d), Prevs(d), d.lru_head, d.lru_tail, p)

\* db_lru_remove_node of a node of the list.
LEMMA RemoveList ==
    ASSUME NEW d \in Db, NEW L, ListAt(d, L), NEW e \in L
    PROVE  LET r == db_lru_remove_node(d, e)
           IN  ButLinks(d, r) /\ ListAt(r, L \ {e})
  <1> DEFINE r == db_lru_remove_node(d, e)
             n == d.ents[e].lru_next
             v == d.ents[e].lru_prev
             N == Nexts(d)
             P == Prevs(d)
             M == Nexts(r)
             Q == Prevs(r)
  <1>1. PICK p : List(L, N, P, d.lru_head, d.lru_tail, p)
    BY DEF ListAt
  <1>2. L \subseteq EntryIds /\ e \in EntryIds
    BY <1>1 DEF List
  <1>3. /\ ButLinks(d, r)
        /\ \A f \in EntryIds \ {e} : M[f] = (IF f = v THEN n ELSE N[f]) /\ Q[f] = (IF f = n THEN v ELSE P[f])
        /\ r.lru_head = IF v = Null THEN n ELSE d.lru_head
        /\ r.lru_tail = IF n = Null THEN v ELSE d.lru_tail
    BY <1>2, RemoveLinks
  <1>4. n = N[e] /\ v = P[e]
    BY <1>2 DEF Nexts, Prevs
  <1> HIDE DEF r, n, v, N, P, M, Q
  <1>5. Bypass(L, N, P, d.lru_head, d.lru_tail, e, M, Q, r.lru_head, r.lru_tail)
    BY <1>2, <1>3, <1>4 DEF Bypass
  <1>6. List(L \ {e}, M, Q, r.lru_head, r.lru_tail, p)
    BY <1>1, <1>5, ListRemove
  <1>7. ListAt(r, L \ {e})
    BY <1>6 DEF ListAt, M, Q
  <1> QED BY <1>3, <1>7 DEF r

\* db_lru_insert of a node that is not in the list.
LEMMA InsertList ==
    ASSUME NEW d \in Db, NEW L, ListAt(d, L), NEW e \in EntryIds, e \notin L
    PROVE  LET r == db_lru_insert(d, e)
           IN  ButLinks(d, r) /\ ListAt(r, L \cup {e})
  <1> DEFINE r == db_lru_insert(d, e)
             N == Nexts(d)
             P == Prevs(d)
             M == Nexts(r)
             Q == Prevs(r)
  <1>1. PICK p : List(L, N, P, d.lru_head, d.lru_tail, p)
    BY DEF ListAt
  <1>2. L \subseteq EntryIds /\ TailIs(L, p, d.lru_tail) /\ HeadIs(L, p, d.lru_head) /\ e # Null
    BY <1>1, DbAssumption DEF List
  <1>3. d.lru_tail # e
    BY <1>2 DEF TailIs
  <1>4. /\ ButLinks(d, r)
        /\ \A f \in EntryIds \ {e} : M[f] = (IF f = d.lru_tail THEN e ELSE N[f]) /\ Q[f] = P[f]
        /\ M[e] = Null /\ Q[e] = d.lru_tail
        /\ r.lru_head = IF d.lru_head = Null THEN e ELSE d.lru_head
        /\ r.lru_tail = e
    BY <1>3, InsertLinks
  <1> HIDE DEF r, N, P, M, Q
  <1>5. Behind(L, N, P, d.lru_head, d.lru_tail, e, M, Q, r.lru_head)
    BY <1>2, <1>4 DEF Behind
  <1>6. \E q : List(L \cup {e}, M, Q, r.lru_head, e, q)
    BY <1>1, <1>5, ListInsert
  <1>7. ListAt(r, L \cup {e})
    BY <1>4, <1>6 DEF ListAt, M, Q
  <1> QED BY <1>4, <1>7 DEF r

\* Only the links changed, and they are those of a list again.
LEMMA LinksFine ==
    ASSUME NEW d, NEW k, Fine(d, k), NEW r, ButLinks(d, r), ListAt(r, Complete(d))
    PROVE  Fine(r, k) /\ Kept(r) = Kept(d) /\ r.fault = d.fault
  <1>1. /\ d \in Db /\ r \in Db /\ k \in Int /\ \A e \in EntryIds : SameEntry(d, r, e)
        /\ r.tabs = d.tabs
        /\ \A e \in EntryIds : r.ents[e].file = d.ents[e].file /\ r.ents[e].exp = d.ents[e].exp
        /\ r.size = d.size /\ r.keys = d.keys /\ r.orphan = d.orphan /\ r.fault = d.fault
    BY DEF Fine, ButLinks, SameCore
  <1>2. Kept(r) = Kept(d) /\ Complete(r) = Complete(d) /\ Lens(r) = Lens(d)
    BY <1>1 DEF Kept, Complete, Lens, SameEntry
  <1>3. ListOK(r)
    BY <1>2 DEF ListOK, ListAt
  <1>4. \A e \in Kept(d) : e \in EntryIds /\ AtHome(d, e)
    BY DEF Fine, Kept
  <1>5. \A e \in Kept(r) : AtHome(r, e)
    BY <1>1, <1>2, <1>4 DEF AtHome, SameEntry, Unusable
  <1>6. \A t \in TableIds, h \in Hashes : SlotHolds(r, t, h)
    <2>1. \A t \in TableIds, h \in Hashes : SlotHolds(d, t, h)
      BY DEF Fine
    <2> QED BY <1>1, <1>2, <1>4, <2>1 DEF SlotHolds, SameEntry
  <1>7. CountOK(r, k)
    BY <1>1, <1>2 DEF Fine, CountOK
  <1>8. FilesOK(r)
    BY <1>1, <1>2 DEF Fine, FilesOK, IsFile, SameEntry
  <1>9. ValuesOK(r)
    BY <1>1, <1>2, <1>4 DEF Fine, ValuesOK, SameEntry
  <1> QED BY <1>1, <1>2, <1>3, <1>5, <1>6, <1>7, <1>8, <1>9 DEF Fine

\* db_lru_hit of a complete key.
LEMMA HitFine ==
    ASSUME NEW d, NEW k, Fine(d, k), NEW e \in Complete(d)
    PROVE  LET r == db_lru_hit(d, e)
           IN  Fine(r, k) /\ Kept(r) = Kept(d) /\ r.fault = d.fault
  <1> DEFINE L  == Complete(d)
             d1 == db_lru_remove_node(d, e)
             r  == db_lru_insert(d1, e)
  <1>1. d \in Db /\ ListAt(d, L) /\ e \in EntryIds
    BY DEF Fine, ListOK, ListAt, Complete, Kept
  <1> HIDE DEF L
  <1>2. ButLinks(d, d1) /\ ListAt(d1, L \ {e})
    BY <1>1, RemoveList DEF L
  <1>3. db_lru_hit(d, e) = r
    BY DEF db_lru_hit
  <1> HIDE DEF d1
  <1>4. ButLinks(d1, r) /\ ListAt(r, (L \ {e}) \cup {e})
    <2>1. d1 \in Db
      BY <1>2 DEF ButLinks, SameCore
    <2> QED BY <1>1, <1>2, <2>1, InsertList
  <1>5. (L \ {e}) \cup {e} = L
    BY DEF L
  <1> HIDE DEF r
  <1>6. ButLinks(d, r)
    BY <1>2, <1>4, ButLinksTrans
  <1> QED BY <1>3, <1>4, <1>5, <1>6, LinksFine DEF L

\* The tables nobody can reach any more have no keys.
LEMMA SettleFine ==
    ASSUME NEW d, NEW k, Fine(d, k), NEW cs, NEW b \in BOOLEAN, NEW r, r = Settled(d, cs, b)
    PROVE  Fine(r, k) /\ r.ents = d.ents /\ r.fault = d.fault /\ r.lru_head = d.lru_head
           /\ r.size = d.size
  <1> DEFINE X == {t \in TableIds : d.tabs[t].live /\
                     t \notin {cs[c].tab : c \in Conns} \cup {d.tables[n] : n \in TableNames}
                              \cup {d.ents[e].tab : e \in {f \in EntryIds : d.ents[f].live}}}
             T == [t \in TableIds |-> IF t \in X THEN DeadTable ELSE d.tabs[t]]
             q == [d EXCEPT !.tabs = T]
  <1>1. r = [q EXCEPT !.orphan = @ /\ b]
    BY DEF Settle, Settled
  <1>2. \A t \in X : NoKeys(d, t)
    BY DEF NoKeys, Kept
  <1> HIDE DEF X
  <1>3. T \in [TableIds -> Table]
    <2>1. DeadTable \in Table /\ d \in Db
      BY DEF DeadTable, Table, Ptr, Fine
    <2> QED BY <2>1 DEF Db
  <1>4. \A t \in TableIds : T[t] = IF t \in X THEN DeadTable ELSE d.tabs[t]
    OBVIOUS
  <1> HIDE DEF T
  <1>5. /\ d \in Db /\ r \in Db /\ r.ents = d.ents /\ r.tabs = T /\ r.lru_head = d.lru_head
        /\ r.lru_tail = d.lru_tail /\ r.size = d.size /\ r.keys = d.keys /\ r.fault = d.fault
        /\ r.orphan = (d.orphan /\ b)
    BY <1>1, <1>3 DEF Fine, Db
  <1>6. \A t \in TableIds : SameTable(d, r, t)
    <2>1. \A h \in Hashes : DeadTable.slot[h] = Null
      BY DEF DeadTable
    <2> QED BY <1>2, <1>4, <1>5, <2>1 DEF SameTable, NoKeys
  <1>7. Alike(d, r)
    BY <1>5, <1>6, TablesAlike
  <1> QED BY <1>5, <1>7, AlikeFine

\* What a look-up returns is a key; nothing fails.
Got(d, q, k) ==
    /\ Fine(q.db, k) /\ q.db.fault = d.fault
    /\ q.ret # Null => q.ret \in Kept(q.db)

\* db_entry_get_read
LEMMA GetReadFine ==
    ASSUME NEW d, NEW k, Fine(d, k), NEW t \in TableIds, NEW key \in Keys, NEW time
    PROVE  Got(d, db_entry_get_read(d, t, key, time), k)
  <1> DEFINE e  == d.tabs[t].slot[KeyHash[key]]
             d1 == db_entry_incref(d, e, FALSE)
             d2 == db_entry_handle_delete(d1, e)
             d3 == db_entry_deref(d2, e, FALSE)
             d4 == db_lru_hit(d, e)
             d5 == db_entry_incref(d4, e, FALSE)
             q  == db_entry_get_read(d, t, key, time)
  <1>1. d \in Db /\ KeyHash[key] \in Hashes /\ (e # Null => e \in Kept(d))
    BY DEF Fine, SlotHolds, Hashes
  <1>2. q = IF e = Null THEN Return(d, Null)
            ELSE IF Expired(d, e, time) THEN Return(d3, Null)
            ELSE IF d.ents[e].key # key \/ d.ents[e].writing THEN Return(d, Null)
            ELSE Return(d5, e)
    BY DEF db_entry_get_read
  <1> SUFFICES Got(d, q, k)
    OBVIOUS
  <1> HIDE DEF q, e
  <1>3. CASE e = Null
    BY <1>2, <1>3 DEF Return, Got
  <1>4. CASE e # Null /\ Expired(d, e, time)
    <2>0. e \in EntryIds /\ d.ents[e].live /\ e \in Kept(d)
      BY <1>1, <1>4 DEF Kept
    <2>1. Alike(d, d1) /\ d1.fault = d.fault
      BY <1>1, <2>0, IncrefAlike
    <2> HIDE DEF d1
    <2>2. Fine(d1, k) /\ e \in Kept(d1) /\ d1.ents[e].live
      BY <2>0, <2>1, AlikeFine DEF Alike, Kept
    <2>3. Without(d1, d2, k, e)
      BY <2>0, <2>2, HandleDeleteFine
    <2> HIDE DEF d2
    <2>4. Fine(d2, k) /\ d2.fault = d1.fault
      BY <2>2, <2>3 DEF Without
    <2>5. Alike(d2, d3) /\ d3.fault = d2.fault
      BY <2>0, <2>4, DerefAlike
    <2> HIDE DEF d3
    <2>6. Fine(d3, k)
      BY <2>4, <2>5, AlikeFine
    <2> QED BY <1>2, <1>4, <2>1, <2>4, <2>5, <2>6 DEF Return, Got
  <1>5. CASE e # Null /\ ~ Expired(d, e, time)
    <2>1. CASE d.ents[e].key # key \/ d.ents[e].writing
      BY <1>2, <1>5, <2>1 DEF Return, Got
    <2>2. CASE ~ (d.ents[e].key # key \/ d.ents[e].writing)
      <3>1. e \in Complete(d) /\ e \in EntryIds
        BY <1>1, <1>5, <2>2 DEF Complete, Kept
      <3>2. Fine(d4, k) /\ Kept(d4) = Kept(d) /\ d4.fault = d.fault
        BY <3>1, HitFine
      <3> HIDE DEF d4
      <3>3. Alike(d4, d5) /\ d5.fault = d4.fault
        BY <3>1, <3>2, IncrefAlike DEF Fine
      <3> HIDE DEF d5
      <3>4. Fine(d5, k) /\ e \in Kept(d5)
        BY <1>1, <1>5, <3>2, <3>3, AlikeFine DEF Alike
      <3> QED BY <1>2, <1>5, <2>2, <3>2, <3>3, <3>4 DEF Return, Got
    <2> QED BY <2>1, <2>2
  <1> QED BY <1>3, <1>4, <1>5

\* db_entry_get_delete
LEMMA GetDeleteFine ==
    ASSUME NEW d, NEW k, Fine(d, k), NEW t \in TableIds, NEW key \in Keys
    PROVE  LET q == db_entry_get_delete(d, t, key)
           IN  Got(d, q, k) /\ Alike(d, q.db)
  <1> DEFINE e  == d.tabs[t].slot[KeyHash[key]]
             d1 == db_entry_incref(d, e, FALSE)
             q  == db_entry_get_delete(d, t, key)
  <1>1. d \in Db /\ KeyHash[key] \in Hashes /\ (e # Null => e \in Kept(d))
    BY DEF Fine, SlotHolds, Hashes
  <1>2. q = IF e = Null \/ (e # Null /\ d.ents[e].key # key) THEN Return(d, Null)
            ELSE Return(d1, e)
    BY DEF db_entry_get_delete
  <1> SUFFICES Got(d, q, k) /\ Alike(d, q.db)
    OBVIOUS
  <1> HIDE DEF q, e
  <1>3. CASE e = Null \/ (e # Null /\ d.ents[e].key # key)
    <2>1. Alike(d, d)
      BY <1>1 DEF Alike, SameKey, SameTable
    <2> QED BY <1>2, <1>3, <2>1 DEF Return, Got
  <1>4. CASE ~ (e = Null \/ (e # Null /\ d.ents[e].key # key))
    <2>1. e \in EntryIds /\ e \in Kept(d)
      BY <1>1, <1>4 DEF Kept
    <2>2. Alike(d, d1) /\ d1.fault = d.fault
      BY <1>1, <2>1, IncrefAlike
    <2> HIDE DEF d1
    <2>3. Fine(d1, k) /\ e \in Kept(d1)
      BY <2>1, <2>2, AlikeFine DEF Alike
    <2> QED BY <1>2, <1>4, <2>2, <2>3 DEF Return, Got
  <1> QED BY <1>3, <1>4

\* A new entry is a key that is still counted.
LEMMA NewKeyFine ==
    ASSUME NEW d, NEW k \in Int, Fine(d, k + 1), NEW e \in EntryIds, ~ d.ents[e].live,
           NEW t \in TableIds, ~ Unusable(d, t), NEW key \in Keys,
           d.tabs[t].slot[KeyHash[key]] = Null, NEW n \in Int
    PROVE  LET r == NewKey(d, e, t, key, n)
           IN  /\ Fine(r, k) /\ Kept(r) = Kept(d) \cup {e} /\ r.fault = d.fault
               /\ r.ents[e].writing /\ r.ents[e].exp = 0
  <1> DEFINE r == NewKey(d, e, t, key, n)
             x == r.ents[e]
  <1>1. d \in Db /\ e \notin Kept(d) /\ Kept(d) \subseteq EntryIds /\ KeyHash[key] \in Hashes
    BY DEF Fine, Kept, Hashes
  <1>2. /\ r \in Db /\ r.tables = d.tables
        /\ x.live /\ x.tab = t /\ x.key = key /\ x.writing /\ ~ x.deleted
        /\ x.len = 0 /\ x.exp = 0 /\ ~ x.file
        /\ \A f \in EntryIds : f # e => r.ents[f] = d.ents[f]
        /\ \A s \in TableIds : s # t => r.tabs[s] = d.tabs[s]
        /\ r.tabs[t].live = d.tabs[t].live /\ r.tabs[t].deleted = d.tabs[t].deleted
        /\ \A h \in Hashes : r.tabs[t].slot[h] = IF h = KeyHash[key] THEN e ELSE d.tabs[t].slot[h]
    BY <1>1, NewKeyShape
  <1>3. r.lru_head = d.lru_head /\ r.lru_tail = d.lru_tail /\ r.size = d.size /\ r.keys = d.keys
        /\ r.orphan = d.orphan /\ r.fault = d.fault
    BY <1>1, NewKeyShape
  <1> HIDE DEF r
  <1>4. Kept(r) = Kept(d) \cup {e} /\ Complete(r) = Complete(d)
    BY <1>1, <1>2 DEF Kept, Complete
  <1>5. ListOK(r)
    <2>1. \A f \in Complete(d) : r.ents[f] = d.ents[f]
      BY <1>1, <1>2 DEF Complete, Kept
    <2>2. ListOK(d)
      BY DEF Fine
    <2> QED BY <1>1, <1>2, <1>3, <1>4, <2>1, <2>2, ListSame
  <1>6. ASSUME NEW f \in Kept(r) PROVE AtHome(r, f)
    <2>1. CASE f = e
      BY <1>1, <1>2, <2>1 DEF AtHome, Unusable
    <2>2. CASE f # e
      <3>1. f \in Kept(d) /\ AtHome(d, f) /\ r.ents[f] = d.ents[f]
        BY <1>1, <1>2, <1>4, <2>2 DEF Fine
      <3> DEFINE s == d.ents[f].tab
                 h == KeyHash[d.ents[f].key]
      <3>2. s \in TableIds /\ d.ents[f].key \in Keys /\ ~ Unusable(d, s) /\ d.tabs[s].slot[h] = f
            /\ f # Null /\ h \in Hashes
        BY <1>1, <3>1, DbAssumption DEF AtHome, Hashes
      <3>3. ~ (s = t /\ h = KeyHash[key])
        BY <3>2
      <3>4. r.tabs[s].slot[h] = f /\ ~ Unusable(r, s)
        BY <1>2, <3>2, <3>3 DEF Unusable
      <3> QED BY <3>1, <3>2, <3>4 DEF AtHome
    <2> QED BY <2>1, <2>2
  <1>7. ASSUME NEW s \in TableIds, NEW h \in Hashes PROVE SlotHolds(r, s, h)
    <2>1. SlotHolds(d, s, h)
      BY DEF Fine
    <2>2. CASE s = t /\ h = KeyHash[key]
      BY <1>2, <1>4, <2>2 DEF SlotHolds
    <2>3. CASE ~ (s = t /\ h = KeyHash[key])
      <3>1. r.tabs[s].slot[h] = d.tabs[s].slot[h]
        BY <1>2, <2>3
      <3> QED BY <1>1, <1>2, <1>4, <2>1, <3>1 DEF SlotHolds
    <2> QED BY <2>2, <2>3
  <1>8. CountOK(r, k)
    <2> SUFFICES ASSUME Counted
                 PROVE  r.keys = Cardinality(Kept(r)) + k /\ r.size = SumOver(Lens(r), Kept(r))
      BY DEF CountOK
    <2>1. d.keys = Cardinality(Kept(d)) + (k + 1) /\ d.size = SumOver(Lens(d), Kept(d))
      BY DEF Fine, CountOK
    <2>2. Kept(r) \in SUBSET EntryIds /\ e \in Kept(r) /\ Kept(r) \ {e} = Kept(d)
      BY <1>1, <1>4
    <2>3. Cardinality(Kept(d)) = Cardinality(Kept(r)) - 1 /\ Cardinality(Kept(r)) \in Nat
      BY <2>2, Smaller
    <2>4. Lens(r) \in [EntryIds -> Int] /\ Lens(r)[e] = 0
      BY <1>2, DbFields DEF Lens
    <2>5. SumOver(Lens(r), Kept(r)) = Lens(r)[e] + SumOver(Lens(r), Kept(d))
      BY <2>2, <2>4, SumRemove
    <2>6. SumOver(Lens(r), Kept(d)) = SumOver(Lens(d), Kept(d))
      <3>1. \A f \in Kept(d) : r.ents[f].len = d.ents[f].len
        BY <1>1, <1>2
      <3> QED BY <1>1, <1>2, <3>1, LensSame
    <2>7. SumOver(Lens(r), Kept(d)) \in Int
      BY <1>1, <2>4, SumSteps
    <2> QED BY <1>3, <2>1, <2>3, <2>4, <2>5, <2>6, <2>7
  <1>9. FilesOK(r)
    <2> SUFFICES ASSUME Filed
                 PROVE  (\A f \in EntryIds : r.ents[f].file <=> f \in Kept(r) /\ IsFile(r, f)) /\ ~ r.orphan
      BY DEF FilesOK
    <2>1. (\A f \in EntryIds : d.ents[f].file <=> f \in Kept(d) /\ IsFile(d, f)) /\ ~ d.orphan
      BY DEF Fine, FilesOK
    <2>2. ~ IsFile(r, e)
      BY <1>2, DbAssumption DEF IsFile
    <2>3. \A f \in EntryIds : f # e => (r.ents[f].file <=> f \in Kept(r) /\ IsFile(r, f))
      BY <1>2, <1>4, <2>1 DEF IsFile
    <2> QED BY <1>2, <1>3, <2>1, <2>2, <2>3
  <1>10. ValuesOK(r)
    <2>1. \A f \in Kept(r) : f # e => f \in Kept(d) /\ r.ents[f] = d.ents[f]
      BY <1>1, <1>2, <1>4
    <2>2. ValuesOK(d)
      BY DEF Fine
    <2> QED BY <1>2, <2>1, <2>2 DEF ValuesOK
  <1>11. Fine(r, k)
    BY <1>2, <1>5, <1>6, <1>7, <1>8, <1>9, <1>10 DEF Fine
  <1> QED BY <1>2, <1>3, <1>4, <1>11 DEF r

\* What a replaced key leaves of tables and of other entries.
LEMMA SoftDeleteRest ==
    ASSUME NEW d \in Db, NEW e \in Kept(d)
    PROVE  LET r == db_entry_handle_softdelete(d, e)
           IN  /\ SameTables(d, r) /\ Cleared(d, r, e) /\ r.tables = d.tables
               /\ r.nameless = d.nameless
               /\ \A f \in EntryIds : f # e => /\ r.ents[f].live = d.ents[f].live
                                               /\ r.ents[f].tab = d.ents[f].tab
               /\ r.ents[e].live => r.ents[e].tab = d.ents[e].tab
  <1> DEFINE d1 == Unlink(d, e)
             d2 == db_entry_actually_delete(d1, e)
  <1>1. e \in EntryIds /\ ~ d.ents[e].deleted
    BY DEF Kept
  <1>2. db_entry_handle_softdelete(d, e) = IF d1.ents[e].refs = 0 THEN d2 ELSE d1
    BY <1>1 DEF db_entry_handle_softdelete
  <1>3. Unlinked(d, d1, e)
    BY <1>1, UnlinkShape
  <1> HIDE DEF d1
  <1>4. d1 \in Db /\ e \notin Kept(d1)
    BY <1>3 DEF Unlinked, Marked, Kept
  <1>5. /\ d2.tabs = d1.tabs /\ d2.tables = d1.tables
        /\ d2.nameless = d1.nameless /\ ~ d2.ents[e].live
        /\ \A f \in EntryIds : f # e => d2.ents[f] = d1.ents[f]
    BY <1>1, <1>4, FreeAlike
  <1> HIDE DEF d2
  <1>6. /\ SameTables(d, d1) /\ Cleared(d, d1, e) /\ d1.tables = d.tables
        /\ d1.nameless = d.nameless
        /\ \A f \in EntryIds : d1.ents[f].live = d.ents[f].live /\ d1.ents[f].tab = d.ents[f].tab
    BY <1>3 DEF Unlinked, Marked
  <1>7. SameTables(d, d2) /\ Cleared(d, d2, e)
    BY <1>5, <1>6 DEF SameTables, Cleared
  <1>8. CASE d1.ents[e].refs = 0
    <2> SUFFICES /\ SameTables(d, d2) /\ Cleared(d, d2, e) /\ d2.tables = d.tables
                 /\ d2.nameless = d.nameless
                 /\ \A f \in EntryIds : f # e => /\ d2.ents[f].live = d.ents[f].live
                                                 /\ d2.ents[f].tab = d.ents[f].tab
                 /\ d2.ents[e].live => d2.ents[e].tab = d.ents[e].tab
      BY <1>2, <1>8, Zenon
    <2> QED BY <1>5, <1>6, <1>7
  <1>9. CASE d1.ents[e].refs # 0
    <2> SUFFICES /\ SameTables(d, d1) /\ Cleared(d, d1, e) /\ d1.tables = d.tables
                 /\ d1.nameless = d.nameless
                 /\ \A f \in EntryIds : f # e => /\ d1.ents[f].live = d.ents[f].live
                                                 /\ d1.ents[f].tab = d.ents[f].tab
                 /\ d1.ents[e].live => d1.ents[e].tab = d.ents[e].tab
      BY <1>2, <1>9, Zenon
    <2> QED BY <1>1, <1>6
  <1> QED BY <1>8, <1>9

\* db_entry_get_write
LEMMA GetWriteFine ==
    ASSUME NEW d, NEW k, Fine(d, k), NEW t \in TableIds, ~ Unusable(d, t), NEW key \in Keys,
           NEW time \in Nat, NEW e \in EntryIds, ~ d.ents[e].live
    PROVE  Got(d, db_entry_get_write(d, t, key, time, e), k)
  <1> DEFINE q   == db_entry_get_write(d, t, key, time, e)
             old == d.tabs[t].slot[KeyHash[key]]
             first == Entries(d, t) = {}
             ins == (d.inserts + 1) % LruEvery
             d1  == [d EXCEPT !.inserts = ins]
             d2  == IF old = Null THEN [d1 EXCEPT !.keys = @ + 1]
                    ELSE db_entry_handle_softdelete(d1, old)
             n   == IF first THEN d2.tabs[t].refs + 1 ELSE d2.tabs[t].refs
             d3  == NewKey(d2, e, t, key, n)
             d4  == db_lru_gc(d3, time)
  <1>1. d \in Db /\ k \in Int /\ KeyHash[key] \in Hashes /\ e # Null /\ e \notin Kept(d)
        /\ (old # Null => old \in Kept(d))
    BY DbAssumption DEF Fine, SlotHolds, Hashes, Kept
  <1>2. /\ Alike(d, d1) /\ d1.fault = d.fault /\ d1.ents = d.ents /\ d1.tabs = d.tabs
    <2>1. d.inserts \in 0 .. LruEvery - 1 /\ LruEvery \in Nat \ {0}
      BY <1>1, DbAssumption DEF Db
    <2>2. ins \in 0 .. LruEvery - 1
      BY <2>1
    <2> HIDE DEF ins
    <2> QED BY <1>1, <2>2, InsertsAlike
  <1> HIDE DEF old, first, d1
  <1>3. Fine(d1, k) /\ d1 \in Db /\ Kept(d1) = Kept(d)
    BY <1>2, AlikeFine DEF Alike
  <1>4. /\ Fine(d2, k + 1) /\ d2.fault = d.fault /\ d2 \in Db /\ ~ d2.ents[e].live
        /\ ~ Unusable(d2, t) /\ d2.tabs[t].slot[KeyHash[key]] = Null
    <2>1. CASE old = Null
      <3> DEFINE m == d1.keys + 1
                 w == [d1 EXCEPT !.keys = m]
      <3>1. m \in Int
        BY <1>3 DEF Db
      <3>2. d2 = w
        BY <1>3, <2>1 DEF Db
      <3> HIDE DEF d2, m
      <3>3. /\ w \in Db /\ w.keys = m /\ w.ents = d1.ents /\ w.tabs = d1.tabs
            /\ w.lru_head = d1.lru_head /\ w.lru_tail = d1.lru_tail
            /\ w.size = d1.size /\ w.orphan = d1.orphan /\ w.fault = d1.fault
        BY <1>3, <3>1 DEF Db
      <3> HIDE DEF w
      <3>4. Fine(w, k + 1)
        BY <1>3, <3>3, KeysFine DEF m
      <3> QED BY <1>1, <1>2, <2>1, <3>2, <3>3, <3>4 DEF old, Unusable
    <2>2. CASE old # Null
      <3>1. old \in Kept(d1) /\ old # e
        BY <1>1, <1>3, <2>2
      <3>2. d2 = db_entry_handle_softdelete(d1, old)
        BY <2>2
      <3> HIDE DEF d2
      <3>3. Fine(d2, k + 1) /\ d2.fault = d1.fault
        BY <1>3, <3>1, <3>2, SoftDeleteFine
      <3>4. SameTables(d1, d2) /\ Cleared(d1, d2, old) /\ d2.ents[e].live = d1.ents[e].live
        BY <1>3, <3>1, <3>2, SoftDeleteRest
      <3>5. d1.ents[old].tab = t /\ KeyHash[d1.ents[old].key] = KeyHash[key]
        BY <1>1, <1>2, <2>2 DEF Fine, SlotHolds, old
      <3>6. d2.tabs[t].slot[KeyHash[key]] = Null
        BY <1>1, <3>4, <3>5 DEF Cleared
      <3>7. ~ Unusable(d2, t)
        BY <1>2, <3>4 DEF SameTables, Unusable
      <3> QED BY <1>2, <3>3, <3>4, <3>6, <3>7 DEF Fine
    <2> QED BY <2>1, <2>2
  <1>5. q = IF old # Null /\ d.ents[old].writing THEN Return(d1, Null)
            ELSE Return(IF ins = 0 THEN d4 ELSE d3, e)
    <2> DEFINE g == [d2 EXCEPT !.ents[e] = [DeadEntry EXCEPT !.live = TRUE, !.tab = t,
                                              !.key = key, !.refs = 1, !.writing = TRUE],
                              !.tabs[t].slot[KeyHash[key]] = e,
                              !.tabs[t].refs = IF first THEN @ + 1 ELSE @]
    <2>1. g = d3
      <3> HIDE DEF d2, first
      <3>1. d2.tabs \in [TableIds -> Table] /\ d2.tabs[t] \in Table
        BY <1>4 DEF Db
      <3> DEFINE p == [d2.tabs[t].slot EXCEPT ![KeyHash[key]] = e]
      <3>2. [d2.tabs[t] EXCEPT !.slot = p].refs = d2.tabs[t].refs
        BY <3>1 DEF Table
      <3> QED BY <1>4, <3>1, <3>2 DEF NewKey, Db
    <2>2. q = IF old # Null /\ d.ents[old].writing THEN Return(d1, Null)
              ELSE Return(IF ins = 0 THEN db_lru_gc(g, time) ELSE g, e)
      BY Zenon DEF db_entry_get_write, d1, old, first
    <2> HIDE DEF q, g, d3
    <2> QED BY <2>1, <2>2
  <1>6. n \in Int
    <2> HIDE DEF d2, first
    <2>1. d2.tabs[t].refs \in Int
      BY <1>4, DbFields
    <2> QED BY <2>1
  <1> SUFFICES Got(d, q, k)
    OBVIOUS
  <1> HIDE DEF d2, n, q, ins
  <1>7. Fine(d3, k) /\ d3.fault = d.fault /\ e \in Kept(d3) /\ d3.ents[e].writing /\ d3.ents[e].exp = 0
    <2>1. Fine(d3, k) /\ Kept(d3) = Kept(d2) \cup {e} /\ d3.fault = d2.fault
          /\ d3.ents[e].writing /\ d3.ents[e].exp = 0
      BY <1>1, <1>4, <1>6, NewKeyFine
    <2> QED BY <1>4, <2>1
  <1> HIDE DEF d3
  <1>8. Fine(d4, k) /\ d4.fault = d.fault /\ e \in Kept(d4)
    BY <1>7, GcFine
  <1> HIDE DEF d4
  <1>9. CASE old # Null /\ d.ents[old].writing
    BY <1>2, <1>3, <1>5, <1>9 DEF Return, Got
  <1>10. CASE ~ (old # Null /\ d.ents[old].writing)
    BY <1>5, <1>7, <1>8, <1>10 DEF Return, Got
  <1> QED BY <1>9, <1>10

-----------------------------------------------------------------------------
(* Storing a value.                                                        *)

\* r is d with e a value of len bytes.
Stored(d, r, e, len) ==
    /\ r \in Db /\ r.tabs = d.tabs /\ r.lru_head = d.lru_head /\ r.lru_tail = d.lru_tail
    /\ r.keys = d.keys /\ r.fault = d.fault
    /\ r.size = d.size + ((len - d.ents[e].len) % LenWrap)
    /\ \A f \in EntryIds :
         /\ r.ents[f].live = d.ents[f].live /\ r.ents[f].tab = d.ents[f].tab
         /\ r.ents[f].key = d.ents[f].key /\ r.ents[f].writing = d.ents[f].writing
         /\ r.ents[f].deleted = d.ents[f].deleted /\ r.ents[f].exp = d.ents[f].exp
         /\ r.ents[f].lru_next = d.ents[f].lru_next /\ r.ents[f].lru_prev = d.ents[f].lru_prev
         /\ f # e => /\ r.ents[f].len = d.ents[f].len /\ r.ents[f].block = d.ents[f].block
                     /\ r.ents[f].file = d.ents[f].file
    /\ r.ents[e].len = len /\ r.ents[e].block # NewEntry
    /\ r.ents[e].file <=> len > BlockLength
    /\ r.orphan => d.orphan \/ d.ents[e].file

\* db_target_write_allocate, when it can name the file.
LEMMA AllocateParts ==
    ASSUME NEW d \in Db, NEW e \in EntryIds, NEW len \in Nat,
           ~ (NoPath(d, e) /\ (IsFile(d, e) \/ ~ (len <= BlockLength)))
    PROVE  Stored(d, db_target_write_allocate(d, e, len), e, len)
  <1> DEFINE x     == d.ents[e]
             small == len <= BlockLength
             block == IF ~ small THEN NoBlock
                      ELSE IF x.block = NewEntry \/ IsFile(d, e) THEN FreeBlock(d) ELSE x.block
             freed == IF small THEN {} ELSE {x.block}
             u     == (d.used \ freed) \cup ({block} \cap Blocks)
             z     == d.size + ((len - x.len) % LenWrap)
             b     == x.file /\ ~ small
             y     == [x EXCEPT !.block = block, !.len = len, !.file = b]
             d1    == [d EXCEPT !.used = u, !.ents = [d.ents EXCEPT ![e] = y], !.size = z]
             d2    == db_entry_open_create(d1, e)
             r     == db_target_write_allocate(d, e, len)
  <1>1. /\ d.ents \in [EntryIds -> Entry] /\ x \in Entry /\ d.used \subseteq Blocks
        /\ x.len \in Nat /\ d.size \in Int /\ x.block \in Blocks \cup {NoBlock, NewEntry}
    BY DbFields DEF Db
  <1>2. /\ NewEntry \notin Blocks /\ NewEntry # NoBlock /\ BlockLength \in Nat
        /\ LenWrap \in Nat \ {0}
    BY DbAssumption DEF NoBlock, NewEntry
  <1>3. block \in Blocks \cup {NoBlock, NewEntry} /\ block # NewEntry
    BY <1>1, <1>2, FreeBlockType
  <1>4. u \in SUBSET Blocks /\ z \in Int /\ b \in BOOLEAN
    <2> HIDE DEF block
    <2> QED BY <1>1, <1>2
  <1>5. r = IF small THEN d1 ELSE d2
    <2> DEFINE g == [d EXCEPT !.used = (@ \ freed) \cup ({block} \cap Blocks),
                              !.ents[e] = [x EXCEPT !.block = block, !.len = len,
                                                    !.file = @ /\ ~ small],
                              !.size = @ + ((len - x.len) % LenWrap)]
    <2>1. g = d1
      <3> HIDE DEF block, freed, small
      <3> QED BY <1>1 DEF Db
    <2>2. r = IF NoPath(d, e) /\ (IsFile(d, e) \/ ~ small) THEN Fault(d, "null table")
              ELSE IF small THEN g ELSE db_entry_open_create(g, e)
      BY Zenon DEF db_target_write_allocate
    <2> HIDE DEF g, d1, r
    <2> QED BY <2>1, <2>2
  <1> SUFFICES Stored(d, r, e, len)
    OBVIOUS
  <1> HIDE DEF r, block, u, z, freed, b
  <1>6. /\ y \in Entry /\ y.block = block /\ y.len = len /\ y.file = b /\ y.live = x.live
        /\ y.tab = x.tab /\ y.key = x.key /\ y.writing = x.writing /\ y.deleted = x.deleted
        /\ y.exp = x.exp /\ y.lru_next = x.lru_next /\ y.lru_prev = x.lru_prev
    <2> HIDE DEF x
    <2> QED BY <1>1, <1>3, <1>4 DEF Entry
  <1> HIDE DEF y
  <1>7. /\ d1 \in Db /\ d1.tabs = d.tabs /\ d1.lru_head = d.lru_head /\ d1.lru_tail = d.lru_tail
        /\ d1.keys = d.keys /\ d1.fault = d.fault /\ d1.size = z /\ d1.orphan = d.orphan
        /\ \A f \in EntryIds : d1.ents[f] = IF f = e THEN y ELSE d.ents[f]
    <2>1. [d.ents EXCEPT ![e] = y] \in [EntryIds -> Entry]
      BY <1>1, <1>6
    <2> QED BY <1>1, <1>4, <2>1 DEF Db
  <1> HIDE DEF d1
  <1>8. CASE small
    <2>1. ~ b /\ ~ (len > BlockLength) /\ r = d1
      BY <1>2, <1>5, <1>8 DEF b
    <2> QED BY <1>3, <1>6, <1>7, <2>1 DEF Stored, z
  <1>9. CASE ~ small
    <2> DEFINE w == [d1.ents[e] EXCEPT !.file = TRUE]
               o == Orphan(d1, e)
    <2>1. d1.ents[e] \in Entry /\ d1.ents \in [EntryIds -> Entry]
      BY <1>7 DEF Db
    <2>2. /\ w \in Entry /\ w.block = block /\ w.len = len /\ w.file = TRUE /\ w.live = x.live
          /\ w.tab = x.tab /\ w.key = x.key /\ w.writing = x.writing /\ w.deleted = x.deleted
          /\ w.exp = x.exp /\ w.lru_next = x.lru_next /\ w.lru_prev = x.lru_prev
      BY <1>6, <1>7, <2>1 DEF Entry
    <2>3. /\ o \in Db /\ o.ents = d1.ents /\ o.tabs = d1.tabs /\ o.lru_head = d1.lru_head
          /\ o.lru_tail = d1.lru_tail /\ o.keys = d1.keys /\ o.fault = d1.fault
          /\ o.size = d1.size /\ o.orphan = (d1.orphan \/ d1.ents[e].file)
      <3>1. (d1.orphan \/ d1.ents[e].file) \in BOOLEAN
        OBVIOUS
      <3> QED BY <1>7, <3>1 DEF Orphan, Db
    <2>4. r = WithEntry(o, e, w)
      <3>1. d2 = [o EXCEPT !.ents[e].file = TRUE]
        BY DEF db_entry_open_create
      <3> HIDE DEF d2, o
      <3>2. o.ents[e] = d1.ents[e]
        BY <2>3
      <3>3. [o EXCEPT !.ents[e].file = TRUE] = WithEntry(o, e, [o.ents[e] EXCEPT !.file = TRUE])
        BY <2>3 DEF WithEntry, Db
      <3> QED BY <1>5, <1>9, <3>1, <3>2, <3>3
    <2> HIDE DEF o, w
    <2>5. /\ r \in Db /\ \A f \in EntryIds : r.ents[f] = IF f = e THEN w ELSE o.ents[f]
          /\ r.tabs = o.tabs /\ r.lru_head = o.lru_head /\ r.lru_tail = o.lru_tail
          /\ r.size = o.size /\ r.keys = o.keys /\ r.orphan = o.orphan /\ r.fault = o.fault
      BY <2>2, <2>3, <2>4, SetEntry
    <2>6. len > BlockLength
      BY <1>2, <1>9
    <2>7. r.orphan => d.orphan \/ x.file
      BY <1>6, <1>7, <2>3, <2>5 DEF b
    <2> HIDE DEF small
    <2> QED BY <1>3, <1>6, <1>7, <2>2, <2>3, <2>5, <2>6, <2>7 DEF Stored, z
  <1> QED BY <1>8, <1>9

\* The first length of an upload is its length; a later one, or the length of
\* an upload that is no key any more, may be counted wrongly.
LEMMA AllocateFine ==
    ASSUME NEW d, NEW k, Fine(d, k), NEW e \in EntryIds, NEW len \in Lengths,
           SplitHead = FALSE => e \in Kept(d),
           RepeatLength = FALSE => d.ents[e].block = NewEntry
    PROVE  LET r == db_target_write_allocate(d, e, len)
           IN  /\ Fine(r, k) /\ Kept(r) = Kept(d)
               /\ e \in Kept(d) => r.fault = d.fault
  <1> DEFINE r == db_target_write_allocate(d, e, len)
  <1>1. d \in Db /\ k \in Int /\ len \in Nat /\ d.ents[e].len \in Nat /\ d.size \in Int
    BY ServerAssumption, DbFields DEF Fine, Db
  <1>2. \A f \in Kept(d) : f \in EntryIds /\ AtHome(d, f) /\ d.ents[f].tab # Null
    BY DbAssumption DEF Fine, AtHome, Kept
  <1>3. \/ r = Fault(d, "null table") /\ e \notin Kept(d)
        \/ Stored(d, r, e, len)
    <2>1. CASE NoPath(d, e) /\ (IsFile(d, e) \/ ~ (len <= BlockLength))
      <3>1. r = Fault(d, "null table")
        BY <2>1, Zenon DEF db_target_write_allocate
      <3> QED BY <1>2, <2>1, <3>1 DEF NoPath
    <2>2. CASE ~ (NoPath(d, e) /\ (IsFile(d, e) \/ ~ (len <= BlockLength)))
      BY <1>1, <2>2, AllocateParts
    <2> QED BY <2>1, <2>2
  <1> SUFFICES Fine(r, k) /\ Kept(r) = Kept(d) /\ (e \in Kept(d) => r.fault = d.fault)
    OBVIOUS
  <1> HIDE DEF r
  <1>4. CASE r = Fault(d, "null table") /\ e \notin Kept(d)
    <2>1. Alike(d, r)
      BY <1>1, <1>4, FaultAlike DEF Faults
    <2> QED BY <1>4, <2>1, AlikeFine DEF Alike
  <1>5. CASE Stored(d, r, e, len)
    <2>1. r \in Db /\ r.fault = d.fault
      BY <1>5 DEF Stored
    <2>2. Kept(r) = Kept(d) /\ Complete(r) = Complete(d)
      BY <1>5 DEF Stored, Kept, Complete
    <2>3. ListOK(r)
      <3>1. ListOK(d) /\ Complete(d) \subseteq EntryIds
        BY DEF Fine, Complete, Kept
      <3>2. \A f \in Complete(d) : r.ents[f].lru_next = d.ents[f].lru_next
                                   /\ r.ents[f].lru_prev = d.ents[f].lru_prev
        BY <1>5, <3>1 DEF Stored
      <3>3. r.lru_head = d.lru_head /\ r.lru_tail = d.lru_tail
        BY <1>5 DEF Stored
      <3> QED BY <1>1, <2>1, <2>2, <3>1, <3>2, <3>3, ListSame
    <2>4. \A f \in Kept(r) : AtHome(r, f)
      BY <1>2, <1>5, <2>2 DEF Stored, AtHome, Unusable
    <2>5. \A t \in TableIds, h \in Hashes : SlotHolds(r, t, h)
      <3> SUFFICES ASSUME NEW t \in TableIds, NEW h \in Hashes PROVE SlotHolds(r, t, h)
        OBVIOUS
      <3>1. SlotHolds(d, t, h)
        BY DEF Fine
      <3> QED BY <1>2, <1>5, <2>2, <3>1 DEF Stored, SlotHolds
    <2>6. ASSUME SplitHead = FALSE, RepeatLength = FALSE
          PROVE  e \in Kept(d) /\ d.ents[e].len = 0
      BY <2>6 DEF Fine, ValuesOK
    <2>7. CountOK(r, k)
      <3> SUFFICES ASSUME Counted
                   PROVE  r.keys = Cardinality(Kept(r)) + k /\ r.size = SumOver(Lens(r), Kept(r))
        BY DEF CountOK
      <3>1. d.keys = Cardinality(Kept(d)) + k /\ d.size = SumOver(Lens(d), Kept(d))
        BY DEF Fine, CountOK
      <3>2. e \in Kept(d) /\ d.ents[e].len = 0 /\ len < LenWrap
        BY <2>6 DEF Counted
      <3>3. r.size = d.size + len
        <4>1. (len - 0) % LenWrap = len
          BY <1>1, <3>2, DbAssumption
        <4> QED BY <1>5, <3>2, <4>1 DEF Stored
      <3> DEFINE K == Kept(d) \ {e}
                 a == SumOver(Lens(d), K)
      <3>4. Lens(d) \in [EntryIds -> Int] /\ Lens(r) \in [EntryIds -> Int]
            /\ Kept(d) \in SUBSET EntryIds /\ K \in SUBSET EntryIds
        BY <1>1, <2>1, DbFields DEF Lens, Kept
      <3>5. a \in Int
        BY <3>4, SumSteps
      <3>6. SumOver(Lens(r), K) = a
        <4>1. \A f \in K : r.ents[f].len = d.ents[f].len
          BY <1>5 DEF Stored, Kept
        <4> QED BY <1>1, <2>1, <3>4, <4>1, LensSame
      <3> HIDE DEF a
      <3>7. SumOver(Lens(d), Kept(d)) = Lens(d)[e] + a
        BY <3>2, <3>4, SumRemove DEF a
      <3>8. SumOver(Lens(r), Kept(d)) = Lens(r)[e] + a
        BY <3>2, <3>4, <3>6, SumRemove
      <3>9. Lens(d)[e] = 0 /\ Lens(r)[e] = len
        BY <1>5, <3>2 DEF Lens, Stored
      <3> HIDE DEF K
      <3>10. SumOver(Lens(r), Kept(d)) = len + SumOver(Lens(d), Kept(d))
        BY <1>1, <3>5, <3>7, <3>8, <3>9
      <3>11. r.size = SumOver(Lens(r), Kept(d))
        BY <1>1, <3>1, <3>3, <3>10
      <3>12. r.keys = d.keys
        BY <1>5 DEF Stored
      <3> QED BY <2>2, <3>1, <3>11, <3>12
    <2>8. FilesOK(r)
      <3> SUFFICES ASSUME Filed
                   PROVE  (\A f \in EntryIds : r.ents[f].file <=> f \in Kept(r) /\ IsFile(r, f)) /\ ~ r.orphan
        BY DEF FilesOK
      <3>1. (\A f \in EntryIds : d.ents[f].file <=> f \in Kept(d) /\ IsFile(d, f)) /\ ~ d.orphan
        BY DEF Fine, FilesOK
      <3>2. e \in Kept(d) /\ d.ents[e].len = 0
        BY <2>6 DEF Filed
      <3>3. ~ IsFile(d, e)
        BY <3>2, DbAssumption DEF IsFile
      <3>4. ~ r.orphan
        BY <1>5, <3>1, <3>3 DEF Stored
      <3>5. ASSUME NEW f \in EntryIds PROVE r.ents[f].file <=> f \in Kept(r) /\ IsFile(r, f)
        BY <1>5, <2>2, <3>1, <3>2 DEF Stored, IsFile
      <3> QED BY <3>4, <3>5
    <2>9. ValuesOK(r)
      <3> SUFFICES ASSUME NEW f \in Kept(d)
                   PROVE  /\ Ttls = {} => r.ents[f].exp = 0
                          /\ r.ents[f].len \in Lengths \cup {0}
                          /\ r.ents[f].block = NewEntry => r.ents[f].len = 0
        BY <2>2 DEF ValuesOK
      <3>1. /\ Ttls = {} => d.ents[f].exp = 0
            /\ d.ents[f].len \in Lengths \cup {0}
            /\ d.ents[f].block = NewEntry => d.ents[f].len = 0
            /\ f \in EntryIds
        BY DEF Fine, ValuesOK, Kept
      <3>2. CASE f = e
        BY <1>5, <3>1, <3>2 DEF Stored
      <3>3. CASE f # e
        BY <1>5, <3>1, <3>3 DEF Stored
      <3> QED BY <3>2, <3>3
    <2> QED BY <1>1, <2>1, <2>2, <2>3, <2>4, <2>5, <2>7, <2>8, <2>9 DEF Fine
  <1> QED BY <1>3, <1>4, <1>5

\* X-Ttl.
LEMMA ExpiryAlike ==
    ASSUME NEW d \in Db, NEW e \in EntryIds, NEW n \in Nat, Ttls # {}
    PROVE  LET r == [d EXCEPT !.ents[e].exp = n]
           IN  Alike(d, r) /\ r.fault = d.fault
  <1> DEFINE y == [d.ents[e] EXCEPT !.exp = n]
  <1>1. d.ents[e] \in Entry
    BY DEF Db
  <1>2. /\ y \in Entry /\ y.live = d.ents[e].live /\ y.deleted = d.ents[e].deleted
        /\ y.tab = d.ents[e].tab /\ y.key = d.ents[e].key /\ y.writing = d.ents[e].writing
        /\ y.len = d.ents[e].len /\ y.block = d.ents[e].block /\ y.file = d.ents[e].file
        /\ y.lru_next = d.ents[e].lru_next /\ y.lru_prev = d.ents[e].lru_prev
    BY <1>1 DEF Entry
  <1>3. [d EXCEPT !.ents[e].exp = n] = WithEntry(d, e, y)
    BY DEF Db, WithEntry
  <1> HIDE DEF y
  <1>4. WithEntry(d, e, y).fault = d.fault
    BY <1>2, SetEntry
  <1>5. Alike(d, WithEntry(d, e, y))
    BY <1>2, EntryAlike DEF Kept
  <1> QED BY <1>3, <1>4, <1>5

\* Closing the file of an upload, where files may be lost.
LEMMA EntryDeleteAlike ==
    ASSUME NEW d \in Db, NEW e \in EntryIds, ~ Filed
    PROVE  Alike(d, db_entry_delete(d, e))
  <1> DEFINE y == [d.ents[e] EXCEPT !.file = FALSE]
  <1>1. d.ents[e] \in Entry
    BY DEF Db
  <1>2. /\ y \in Entry /\ y.live = d.ents[e].live /\ y.deleted = d.ents[e].deleted
        /\ y.tab = d.ents[e].tab /\ y.key = d.ents[e].key /\ y.writing = d.ents[e].writing
        /\ y.len = d.ents[e].len /\ y.block = d.ents[e].block /\ y.exp = d.ents[e].exp
        /\ y.lru_next = d.ents[e].lru_next /\ y.lru_prev = d.ents[e].lru_prev
    BY <1>1 DEF Entry
  <1>3. [d EXCEPT !.ents[e].file = FALSE] = WithEntry(d, e, y)
    BY DEF Db, WithEntry
  <1> HIDE DEF y
  <1>4. Alike(d, WithEntry(d, e, y))
    BY <1>2, EntryAlike DEF Kept
  <1>5. Alike(d, Fault(d, "null table"))
    BY FaultAlike DEF Faults
  <1> QED BY <1>3, <1>4, <1>5 DEF db_entry_delete

\* Entry e of d, no longer written.
Written(d, e) == WithEntry(d, e, [d.ents[e] EXCEPT !.writing = FALSE])

\* What is no longer written.
LEMMA WrittenParts ==
    ASSUME NEW d \in Db, NEW e \in EntryIds
    PROVE  /\ [d EXCEPT !.ents[e].writing = FALSE] = Written(d, e)
           /\ LET y == Written(d, e).ents[e]
                  x == d.ents[e]
              IN  /\ ~ y.writing /\ y.live = x.live /\ y.deleted = x.deleted /\ y.tab = x.tab
                  /\ y.key = x.key /\ y.len = x.len /\ y.block = x.block /\ y.exp = x.exp
                  /\ y.file = x.file /\ y.lru_next = x.lru_next /\ y.lru_prev = x.lru_prev
           /\ Written(d, e) = WithEntry(d, e, Written(d, e).ents[e])
           /\ Written(d, e).ents[e] \in Entry
  <1> DEFINE y == [d.ents[e] EXCEPT !.writing = FALSE]
  <1>1. d.ents[e] \in Entry
    BY DEF Db
  <1>2. /\ y \in Entry /\ y.live = d.ents[e].live /\ y.deleted = d.ents[e].deleted
        /\ y.tab = d.ents[e].tab /\ y.key = d.ents[e].key /\ ~ y.writing
        /\ y.len = d.ents[e].len /\ y.block = d.ents[e].block /\ y.exp = d.ents[e].exp
        /\ y.lru_next = d.ents[e].lru_next /\ y.lru_prev = d.ents[e].lru_prev
        /\ y.file = d.ents[e].file
    BY <1>1 DEF Entry
  <1>3. [d EXCEPT !.ents[e].writing = FALSE] = WithEntry(d, e, y)
    BY DEF Db, WithEntry
  <1>4. Written(d, e) = WithEntry(d, e, y)
    BY DEF Written
  <1> HIDE DEF y
  <1>5. Written(d, e).ents[e] = y
    BY <1>2, <1>4, SetEntry
  <1> QED BY <1>2, <1>3, <1>4, <1>5

\* The end of an upload that is no key any more.
LEMMA WrittenAlike ==
    ASSUME NEW d \in Db, NEW e \in EntryIds, e \notin Kept(d)
    PROVE  LET r == [d EXCEPT !.ents[e].writing = FALSE]
           IN  /\ Alike(d, r) /\ r.fault = d.fault /\ ~ r.ents[e].writing
               /\ r.ents[e].tab = d.ents[e].tab /\ r.tabs = d.tabs
  <1> DEFINE r == Written(d, e)
             y == r.ents[e]
  <1>1. /\ [d EXCEPT !.ents[e].writing = FALSE] = r /\ y \in Entry /\ r = WithEntry(d, e, y)
        /\ ~ y.writing /\ y.live = d.ents[e].live /\ y.deleted = d.ents[e].deleted
        /\ y.file = d.ents[e].file /\ y.tab = d.ents[e].tab
    BY WrittenParts
  <1> HIDE DEF r, y
  <1>2. Alike(d, r) /\ r.fault = d.fault /\ r.tabs = d.tabs
    <2>1. Alike(d, WithEntry(d, e, y))
      BY <1>1, EntryAlike DEF Kept
    <2>2. WithEntry(d, e, y).fault = d.fault /\ WithEntry(d, e, y).tabs = d.tabs
      BY <1>1, SetEntry
    <2> QED BY <1>1, <2>1, <2>2
  <1> QED BY <1>1, <1>2 DEF y

\* r is d with e no longer written, but for the links of the LRU list.
Finished(d, r, e) ==
    /\ r \in Db /\ r.tabs = d.tabs /\ r.size = d.size /\ r.keys = d.keys
    /\ r.orphan = d.orphan /\ r.fault = d.fault
    /\ \A f \in EntryIds :
         /\ r.ents[f].live = d.ents[f].live /\ r.ents[f].deleted = d.ents[f].deleted
         /\ r.ents[f].tab = d.ents[f].tab /\ r.ents[f].key = d.ents[f].key
         /\ r.ents[f].len = d.ents[f].len /\ r.ents[f].block = d.ents[f].block
         /\ r.ents[f].exp = d.ents[f].exp /\ r.ents[f].file = d.ents[f].file
         /\ r.ents[f].writing <=> f # e /\ d.ents[f].writing

\* db_complete_writing
LEMMA CompleteFine ==
    ASSUME NEW d, NEW k, Fine(d, k), NEW e \in EntryIds, d.ents[e].live, d.ents[e].writing
    PROVE  LET r == db_complete_writing(d, e)
           IN  Fine(r, k) /\ Kept(r) = Kept(d) /\ r.fault = d.fault
  <1> DEFINE d1 == [d EXCEPT !.ents[e].writing = FALSE]
             r  == db_lru_insert(d1, e)
  <1>1. d \in Db /\ k \in Int
    BY DEF Fine
  <1>2. CASE d.ents[e].deleted
    <2>1. db_complete_writing(d, e) = d1
      BY <1>2 DEF db_complete_writing
    <2>2. Alike(d, d1) /\ d1.fault = d.fault
      BY <1>1, <1>2, WrittenAlike DEF Kept
    <2> HIDE DEF d1
    <2> QED BY <2>1, <2>2, AlikeFine DEF Alike
  <1>3. CASE ~ d.ents[e].deleted
    <2>1. db_complete_writing(d, e) = r
      BY <1>3 DEF db_complete_writing
    <2>2. /\ Finished(d, d1, e) /\ d1 \in Db
          /\ d1.lru_head = d.lru_head /\ d1.lru_tail = d.lru_tail
          /\ \A f \in EntryIds : /\ d1.ents[f].lru_next = d.ents[f].lru_next
                                /\ d1.ents[f].lru_prev = d.ents[f].lru_prev
      <3> DEFINE y == Written(d, e).ents[e]
      <3>1. d1 = WithEntry(d, e, y) /\ y \in Entry /\ ~ y.writing
            /\ y.live = d.ents[e].live /\ y.deleted = d.ents[e].deleted /\ y.tab = d.ents[e].tab
            /\ y.key = d.ents[e].key /\ y.len = d.ents[e].len /\ y.block = d.ents[e].block
            /\ y.exp = d.ents[e].exp /\ y.file = d.ents[e].file
            /\ y.lru_next = d.ents[e].lru_next /\ y.lru_prev = d.ents[e].lru_prev
        <4> HIDE DEF d1
        <4>1. d1 = Written(d, e)
          BY <1>1, WrittenParts DEF d1
        <4> QED BY <1>1, <4>1, WrittenParts
      <3> HIDE DEF d1, y
      <3>2. /\ d1 \in Db /\ \A f \in EntryIds : d1.ents[f] = IF f = e THEN y ELSE d.ents[f]
            /\ d1.tabs = d.tabs /\ d1.lru_head = d.lru_head /\ d1.lru_tail = d.lru_tail
            /\ d1.size = d.size /\ d1.keys = d.keys /\ d1.orphan = d.orphan /\ d1.fault = d.fault
        BY <1>1, <3>1, SetEntry
      <3> QED BY <3>1, <3>2 DEF Finished
    <2>3. ListAt(d1, Complete(d))
      <3>1. Nexts(d1) = Nexts(d) /\ Prevs(d1) = Prevs(d)
        BY <2>2 DEF Nexts, Prevs
      <3> QED BY <2>2, <3>1 DEF Fine, ListOK, ListAt
    <2>4. e \in Kept(d) /\ e \notin Complete(d)
      BY <1>3 DEF Kept, Complete
    <2>5. ButLinks(d1, r) /\ ListAt(r, Complete(d) \cup {e})
      BY <2>2, <2>3, <2>4, InsertList
    <2> HIDE DEF r
    <2>6. Finished(d, r, e)
      <3>1. /\ r \in Db /\ r.tabs = d1.tabs /\ r.size = d1.size /\ r.keys = d1.keys
            /\ r.orphan = d1.orphan /\ r.fault = d1.fault
            /\ \A f \in EntryIds : SameEntry(d1, r, f) /\ r.ents[f].exp = d1.ents[f].exp
                                  /\ r.ents[f].file = d1.ents[f].file
        BY <2>5 DEF ButLinks, SameCore
      <3>2. ASSUME NEW f \in EntryIds PROVE r.ents[f].writing <=> f # e /\ d.ents[f].writing
        <4>1. r.ents[f].writing = d1.ents[f].writing
          BY <3>1 DEF SameEntry
        <4>2. d1.ents[f].writing <=> f # e /\ d.ents[f].writing
          BY <2>2 DEF Finished
        <4> QED BY <4>1, <4>2, Zenon
      <3>3. \A f \in EntryIds :
              /\ r.ents[f].live = d.ents[f].live /\ r.ents[f].deleted = d.ents[f].deleted
              /\ r.ents[f].tab = d.ents[f].tab /\ r.ents[f].key = d.ents[f].key
              /\ r.ents[f].len = d.ents[f].len /\ r.ents[f].block = d.ents[f].block
              /\ r.ents[f].exp = d.ents[f].exp /\ r.ents[f].file = d.ents[f].file
        <4> SUFFICES ASSUME NEW f \in EntryIds
                     PROVE  /\ r.ents[f].live = d.ents[f].live /\ r.ents[f].deleted = d.ents[f].deleted
                            /\ r.ents[f].tab = d.ents[f].tab /\ r.ents[f].key = d.ents[f].key
                            /\ r.ents[f].len = d.ents[f].len /\ r.ents[f].block = d.ents[f].block
                            /\ r.ents[f].exp = d.ents[f].exp /\ r.ents[f].file = d.ents[f].file
          OBVIOUS
        <4>1. /\ d1.ents[f].live = d.ents[f].live /\ d1.ents[f].deleted = d.ents[f].deleted
              /\ d1.ents[f].tab = d.ents[f].tab /\ d1.ents[f].key = d.ents[f].key
              /\ d1.ents[f].len = d.ents[f].len /\ d1.ents[f].block = d.ents[f].block
              /\ d1.ents[f].exp = d.ents[f].exp /\ d1.ents[f].file = d.ents[f].file
          BY <2>2 DEF Finished
        <4>2. /\ r.ents[f].live = d1.ents[f].live /\ r.ents[f].deleted = d1.ents[f].deleted
              /\ r.ents[f].tab = d1.ents[f].tab /\ r.ents[f].key = d1.ents[f].key
              /\ r.ents[f].len = d1.ents[f].len /\ r.ents[f].block = d1.ents[f].block
              /\ r.ents[f].exp = d1.ents[f].exp /\ r.ents[f].file = d1.ents[f].file
          BY <3>1 DEF SameEntry
        <4> QED BY <4>1, <4>2, Zenon
      <3>4. /\ r \in Db /\ r.tabs = d.tabs /\ r.size = d.size /\ r.keys = d.keys
            /\ r.orphan = d.orphan /\ r.fault = d.fault
        BY <2>2, <3>1 DEF Finished
      <3> QED BY <3>2, <3>3, <3>4 DEF Finished
    <2>7. Kept(r) = Kept(d) /\ Complete(r) = Complete(d) \cup {e} /\ Lens(r) = Lens(d)
      BY <2>4, <2>6 DEF Finished, Kept, Complete, Lens
    <2>8. ListOK(r)
      BY <2>5, <2>7 DEF ListOK, ListAt
    <2>9. \A f \in Kept(d) : f \in EntryIds /\ AtHome(d, f)
      BY DEF Fine, Kept
    <2>10. \A f \in Kept(r) : AtHome(r, f)
      BY <2>6, <2>7, <2>9 DEF Finished, AtHome, Unusable
    <2>11. \A t \in TableIds, h \in Hashes : SlotHolds(r, t, h)
      <3>1. \A t \in TableIds, h \in Hashes : SlotHolds(d, t, h)
        BY DEF Fine
      <3> QED BY <2>6, <2>7, <2>9, <3>1 DEF Finished, SlotHolds
    <2>12. CountOK(r, k)
      BY <2>6, <2>7 DEF Finished, Fine, CountOK
    <2>13. FilesOK(r)
      BY <2>6, <2>7 DEF Finished, Fine, FilesOK, IsFile
    <2>14. ValuesOK(r)
      BY <2>6, <2>7, <2>9 DEF Finished, Fine, ValuesOK
    <2> QED BY <1>1, <2>1, <2>6, <2>7, <2>8, <2>10, <2>11, <2>12, <2>13, <2>14 DEF Fine, Finished
  <1> QED BY <1>2, <1>3

\* Abort of an unfinished upload.
LEMMA AbortFine ==
    ASSUME NEW d, NEW k, Fine(d, k), NEW x, x.ent \in EntryIds, d.ents[x.ent].live
    PROVE  LET r == Abort(x, d)
           IN  Fine(r, k) /\ r.fault = d.fault /\ ~ r.ents[x.ent].writing
  <1> DEFINE e  == x.ent
             d1 == IF d.ents[e].deleted THEN d ELSE db_entry_handle_delete(d, e)
             r  == [d1 EXCEPT !.ents[e].writing = FALSE]
  <1>1. Fine(d1, k) /\ d1.fault = d.fault /\ e \notin Kept(d1)
    <2>1. CASE d.ents[e].deleted
      BY <2>1 DEF Kept
    <2>2. CASE ~ d.ents[e].deleted
      <3>1. Without(d, db_entry_handle_delete(d, e), k, e)
        BY HandleDeleteFine
      <3> QED BY <2>2, <3>1 DEF Without, Kept
    <2> QED BY <2>1, <2>2
  <1>2. Abort(x, d) = r
    BY DEF Abort
  <1> HIDE DEF d1
  <1>3. Alike(d1, r) /\ r.fault = d1.fault /\ ~ r.ents[e].writing
    BY <1>1, WrittenAlike DEF Fine
  <1> HIDE DEF r
  <1> QED BY <1>1, <1>2, <1>3, AlikeFine

\* cache_destroy.  Only where files may be lost does a connection close the
\* file of an upload that is not its own.
LEMMA DestroyFine ==
    ASSUME NEW d, NEW k, Fine(d, k), NEW x \in Conn,
           x.ent # Null => d.ents[x.ent].live,
           Filed /\ x.ent # Null /\ x.fd /\ ~ x.writing => ~ d.ents[x.ent].writing
    PROVE  Fine(cache_destroy(x, d), k)
  <1> DEFINE e == x.ent
             t == x.tab
  <1>1. e \in EntryIds \cup {Null} /\ t \in TableIds \cup {Null}
    BY DEF Conn
  <1>2. CASE e # Null
    <2> DEFINE d1 == IF x.writing THEN Abort(x, d) ELSE d
               d2 == IF x.fd /\ d1.ents[e].writing THEN db_entry_delete(d1, e) ELSE d1
    <2>1. Fine(d1, k) /\ (x.writing => ~ d1.ents[e].writing) /\ (~ x.writing => d1 = d)
      BY <1>1, <1>2, AbortFine
    <2>2. cache_destroy(x, d) = db_entry_deref(d2, e, TRUE)
      BY <1>2 DEF cache_destroy, db_target_entry_close
    <2> HIDE DEF d1
    <2>3. Fine(d2, k)
      <3>1. CASE x.fd /\ d1.ents[e].writing
        <4>1. ~ Filed
          BY <1>2, <2>1, <3>1
        <4>2. Alike(d1, db_entry_delete(d1, e))
          BY <1>1, <1>2, <2>1, <4>1, EntryDeleteAlike DEF Fine
        <4> QED BY <2>1, <3>1, <4>2, AlikeFine
      <3>2. CASE ~ (x.fd /\ d1.ents[e].writing)
        BY <2>1, <3>2
      <3> QED BY <3>1, <3>2
    <2> HIDE DEF d2
    <2>4. Alike(d2, db_entry_deref(d2, e, TRUE))
      BY <1>1, <1>2, <2>3, DerefAlike
    <2> QED BY <2>2, <2>3, <2>4, AlikeFine
  <1>3. CASE e = Null /\ t # Null
    <2>1. cache_destroy(x, d) = db_table_deref(d, t, FALSE)
      BY <1>3 DEF cache_destroy
    <2>2. Alike(d, db_table_deref(d, t, FALSE))
      BY <1>1, <1>3, TableDerefAlike
    <2> QED BY <2>1, <2>2, AlikeFine
  <1>4. CASE e = Null /\ t = Null
    BY <1>4 DEF cache_destroy
  <1> QED BY <1>2, <1>3, <1>4

\* With requests that drop tables the counters are not exact anyway.
LEMMA FineAny ==
    ASSUME NEW d, NEW k, Fine(d, k), NEW j \in Int, ~ Counted
    PROVE  Fine(d, j)
  BY DEF Fine, CountOK

\* Looking up a table.
LEMMA TableGetReadAlike ==
    ASSUME NEW d \in Db, NEW n \in TableNames
    PROVE  LET q == db_table_get_read(d, n)
           IN  Alike(d, q.db) /\ q.db.fault = d.fault
  <1> DEFINE t == d.tables[n]
             r == [d EXCEPT !.tabs[t].refs = @ + 1]
  <1>1. t \in TableIds \cup {Null} /\ Alike(d, d)
    BY DEF Db, Alike, SameKey, SameTable
  <1>2. CASE t = Null
    BY <1>1, <1>2 DEF db_table_get_read, Return
  <1>3. CASE t # Null
    <2> DEFINE m == d.tabs[t].refs + 1
    <2>1. m \in Int /\ t \in TableIds
      BY <1>1, <1>3, DbFields
    <2>2. r = [d EXCEPT !.tabs[t].refs = m]
      BY <2>1 DEF Db
    <2>3. db_table_get_read(d, n).db = r
      BY <1>3 DEF db_table_get_read, Return, db_table_incref
    <2> HIDE DEF r, m
    <2>4. Alike(d, r) /\ r.fault = d.fault
      BY <2>1, <2>2, TableRefsAlike
    <2> QED BY <2>3, <2>4
  <1> QED BY <1>2, <1>3

\* A new table has no keys.
LEMMA TableGetWriteAlike ==
    ASSUME NEW d, NEW k, Fine(d, k), NEW n \in TableNames, NEW t \in TableIds,
           d.tables[n] = Null => ~ d.tabs[t].live
    PROVE  LET q == db_table_get_write(d, n, t)
           IN  Alike(d, q.db) /\ q.db.fault = d.fault
  <1>1. d \in Db
    BY DEF Fine
  <1>2. CASE d.tables[n] # Null
    BY <1>1, <1>2, TableGetReadAlike DEF db_table_get_write
  <1>3. CASE d.tables[n] = Null
    <2> DEFINE y == [DeadTable EXCEPT !.live = TRUE, !.name = n, !.refs = 1]
               N == [d.tables EXCEPT ![n] = t]
               r == [d EXCEPT !.tables[n] = t, !.tabs[t] = y]
    <2>1. NoKeys(d, t)
      BY <1>3, UnusableEmpty DEF Unusable
    <2>2. y \in Table /\ \A h \in Hashes : y.slot[h] = Null
      <3> DEFINE y1 == [DeadTable EXCEPT !.live = TRUE]
                 y2 == [y1 EXCEPT !.name = n]
      <3>1. DeadTable \in Table /\ \A h \in Hashes : DeadTable.slot[h] = Null
        <4>1. [h \in Hashes |-> Null] \in [Hashes -> Ptr]
          BY DEF Ptr
        <4> QED BY <4>1 DEF DeadTable, Table
      <3>2. y1 \in Table /\ y1.slot = DeadTable.slot
        BY <3>1 DEF Table
      <3>3. y = [y2 EXCEPT !.refs = 1]
        BY <3>1 DEF Table
      <3> HIDE DEF y1, y
      <3>4. y2 \in Table /\ y2.slot = DeadTable.slot
        BY <3>2 DEF Table
      <3> HIDE DEF y2
      <3>5. y \in Table /\ y.slot = DeadTable.slot
        BY <3>3, <3>4 DEF Table
      <3> QED BY <3>1, <3>5
    <2>3. N \in [TableNames -> TableIds \cup {Null}]
      BY <1>1 DEF Db
    <2>4. db_table_get_write(d, n, t).db = r
      BY <1>3 DEF db_table_get_write, Return
    <2> HIDE DEF y
    <2>5. r = WithTable(d, t, y, N)
      BY <1>1 DEF WithTable, Db
    <2> HIDE DEF r, N
    <2>6. Alike(d, WithTable(d, t, y, N)) /\ WithTable(d, t, y, N).fault = d.fault
      BY <1>1, <2>1, <2>2, <2>3, TableAlike
    <2> QED BY <2>4, <2>5, <2>6
  <1> QED BY <1>2, <1>3

\* db_table_handle_delete: the keys go one by one, then the table, which has
\* none left.
LEMMA DropFine ==
    ASSUME NEW d, NEW k, Fine(d, k), NEW t \in TableIds, ~ Counted
    PROVE  LET r == db_table_handle_delete(d, t)
           IN  Fine(r, k) /\ (~ Unusable(d, t) => r.fault = d.fault)
  <1> DEFINE S == Entries(d, t)
             r == FoldSet(LAMBDA e, acc : db_entry_handle_softdelete(acc, e), d, S)
             G(s) == {a \in Db : /\ Fine(a, k) /\ a.fault = d.fault /\ Kept(a) = Kept(d) \ s
                                 /\ a.tabs[t].live
                                 /\ \A f \in Kept(a) : a.ents[f].tab = d.ents[f].tab}
             Q == [s \in SUBSET S |-> G(s)]
  <1>1. d \in Db /\ k \in Int
    BY DEF Fine
  <1>2. CASE Unusable(d, t)
    <2>1. Alike(d, Misused(d, t))
      BY <1>1, FaultAlike DEF Misused, Faults
    <2> QED BY <1>2, <2>1, AlikeFine DEF db_table_handle_delete
  <1>3. CASE ~ Unusable(d, t)
    <2>1. db_table_handle_delete(d, t) = db_delete_table_entry(r, t)
      BY <1>3 DEF db_table_handle_delete
    <2>2. S \subseteq Kept(d) /\ S \in SUBSET EntryIds
      BY DEF Entries, Fine, SlotHolds, Kept
    <2>3. \A f \in Kept(d) : d.ents[f].tab = t => f \in S
      <3> SUFFICES ASSUME NEW f \in Kept(d), d.ents[f].tab = t PROVE f \in S
        OBVIOUS
      <3>1. AtHome(d, f) /\ f # Null
        BY DbAssumption DEF Fine, Kept
      <3>2. d.ents[f].key \in Keys /\ d.tabs[t].slot[KeyHash[d.ents[f].key]] = f
        BY <3>1 DEF AtHome
      <3> QED BY <3>1, <3>2 DEF Entries, Hashes
    <2> HIDE DEF S
    <2>4. PICK g : /\ FoldSet(LAMBDA e, acc : db_entry_handle_softdelete(acc, e), d, S) = g[S]
                   /\ g[{}] = d
                   /\ \A s \in SUBSET S : s # {} =>
                         g[s] = db_entry_handle_softdelete(g[s \ {Pick(s)}], Pick(s))
      BY <1>1, <2>2, SoftDeleteFold
    <2>5. r = g[S]
      BY <2>4
    <2> HIDE DEF r
    <2>6. g[{}] \in Q[{}]
      BY <1>1, <1>3, <2>4 DEF Unusable
    <2>7. ASSUME NEW s \in SUBSET S, s # {}, g[s \ {Pick(s)}] \in Q[s \ {Pick(s)}] PROVE g[s] \in Q[s]
      <3> DEFINE e == Pick(s)
                 a == g[s \ {e}]
                 b == db_entry_handle_softdelete(a, e)
      <3>1. e \in s /\ s \ {e} \in SUBSET S
        BY <2>7, PickIn
      <3>2. g[s] = b
        BY <2>4, <2>7
      <3>3. /\ Fine(a, k) /\ a.fault = d.fault /\ Kept(a) = Kept(d) \ (s \ {e}) /\ a.tabs[t].live
            /\ \A f \in Kept(a) : a.ents[f].tab = d.ents[f].tab
        BY <2>7, <3>1
      <3> HIDE DEF e, a
      <3>4. e \in Kept(a) /\ a \in Db
        BY <2>2, <3>1, <3>3 DEF Fine
      <3>5. Fine(b, k + 1) /\ Kept(b) = Kept(a) \ {e} /\ b.fault = a.fault
        BY <3>3, <3>4, SoftDeleteFine
      <3>6. SameTables(a, b) /\ \A f \in EntryIds : f # e => b.ents[f].tab = a.ents[f].tab
        BY <3>4, SoftDeleteRest
      <3> HIDE DEF b
      <3>7. Fine(b, k) /\ b \in Db
        BY <1>1, <3>5, FineAny DEF Fine
      <3>8. Kept(b) = Kept(d) \ s /\ b.tabs[t].live /\ b.fault = d.fault
        BY <3>1, <3>3, <3>5, <3>6 DEF SameTables
      <3>9. \A f \in Kept(b) : b.ents[f].tab = d.ents[f].tab
        BY <3>3, <3>5, <3>6 DEF Kept
      <3> QED BY <3>2, <3>7, <3>8, <3>9
    <2>8. g[S] \in Q[S]
      <3> HIDE DEF Q
      <3> QED BY <2>2, <2>6, <2>7, Stages
    <2>9. /\ Fine(r, k) /\ r.fault = d.fault /\ Kept(r) = Kept(d) \ S /\ r.tabs[t].live
          /\ \A f \in Kept(r) : r.ents[f].tab = d.ents[f].tab
      BY <2>5, <2>8
    <2>10. NoKeys(r, t)
      BY <2>3, <2>9 DEF NoKeys
    <2>11. Alike(r, db_delete_table_entry(r, t)) /\ db_delete_table_entry(r, t).fault = r.fault
      BY <2>9, <2>10, DeleteTableAlike
    <2> QED BY <2>1, <2>9, <2>11, AlikeFine
  <1> QED BY <1>2, <1>3

-----------------------------------------------------------------------------
(* The steps of the server keep the bookkeeping.                           *)

\* What the bookkeeping needs to know of a connection: it serves a request that
\* clients send, only a value longer than a block is opened as a file, and the
\* upload of a head that arrives in one piece is a key to its end.
Proper(d, x) ==
    /\ x.at # "idle" => x.kind \in Requests
    /\ x.ent # Null => x.kind \in {"GET", "PUT", "DELETE"}
    /\ x.kind = "DELETE" /\ x.fd => \E len \in Lengths : len > BlockLength
    /\ SplitHead = FALSE /\ x.kind = "PUT" /\ x.at = "head" /\ x.ent # Null => x.ent \in Kept(d)

OInv == /\ SInv
        /\ Fine(db, 0)
        /\ \A c \in Conns : Proper(db, conn[c])

\* A step of c from such a state.
Handling(c) == OInv /\ SInv' /\ Runs(c)

\* The step of handler and loop.
LEMMA StepFine ==
    ASSUME NEW c \in Conns, Handling(c), NEW d, Fine(d, 0), NEW r, Step(c, d, r), Proper(d, r)
    PROVE  OInv'
  <1>1. SInv /\ d \in Db
    BY DEF Handling, OInv, Fine
  <1>2. /\ db'.ents = d.ents /\ conn'[c] = r
        /\ \A b \in Conns \ {c} : conn'[b] = conn[b]
    BY <1>1, StepView
  <1>3. Fine(db', 0)
    <2> DEFINE b == ~ db.orphan
    <2>1. b \in BOOLEAN
      OBVIOUS
    <2>2. db' = Settled(d, conn', b)
      BY DEF Step, Settled
    <2> HIDE DEF b
    <2> QED BY <2>1, <2>2, SettleFine
  <1>4. Fine(db, 0)'
    <2>1. Kept(db') = Kept(db)' /\ Complete(db') = Complete(db)'
      BY DEF Kept, Complete
    <2> QED BY <1>3
  <1>5. Kept(db') = Kept(d)
    BY <1>2 DEF Kept
  <1>6. ASSUME NEW b \in Conns PROVE Proper(db', conn'[b])
    <2>1. CASE b = c
      BY <1>2, <1>5, <2>1 DEF Proper
    <2>2. CASE b # c
      <3>1. Proper(db, conn[b]) /\ conn'[b] = conn[b]
        BY <1>2, <2>2 DEF Handling, OInv
      <3>2. SplitHead = FALSE => conn[b].at # "head"
        BY <2>2 DEF Handling, Runs, Heads
      <3> QED BY <3>1, <3>2 DEF Proper
    <2> QED BY <2>1, <2>2
  <1>7. \A b \in Conns : Proper(db, conn[b])'
    <2> SUFFICES ASSUME NEW b \in Conns PROVE Proper(db', conn'[b])
      OBVIOUS
    <2> QED BY <1>6
  <1> QED BY <1>4, <1>7 DEF OInv, Handling

\* What the invariant says of connection c, which runs a handler.
LEMMA Handled ==
    ASSUME NEW c \in Conns, Handling(c)
    PROVE  /\ SInv /\ Runs(c) /\ Fine(db, 0) /\ Proper(db, conn[c]) /\ db \in Db
           /\ conn[c] \in Conn /\ ConnOK(db, conn[c]) /\ now \in Nat
           /\ conn[c].ent # Null => conn[c].ent \in EntryIds
           /\ conn[c].tab # Null => conn[c].tab \in TableIds
  <1>1. SInv /\ Runs(c) /\ Fine(db, 0) /\ Proper(db, conn[c])
    BY DEF Handling, OInv
  <1>2. now \in Nat
    BY <1>1 DEF SInv
  <1> QED BY <1>1, <1>2, ConnFields

\* A connection goes on to its next handler.
LEMMA GotoFine ==
    ASSUME NEW c \in Conns, Handling(c), conn[c].at # "idle", NEW d, Fine(d, 0),
           NEW where \in {"reply", "body", "send", "list"}, Goto(c, d, where)
    PROVE  OInv'
  <1> DEFINE x == conn[c]
             r == [x EXCEPT !.at = where]
  <1>1. x \in Conn /\ Proper(db, x)
    BY Handled
  <1>2. r.at = where /\ r.kind = x.kind /\ r.ent = x.ent /\ r.fd = x.fd
    BY <1>1 DEF Conn
  <1>3. Step(c, d, r)
    BY DEF Goto
  <1> HIDE DEF r
  <1>4. Proper(d, r)
    BY <1>1, <1>2 DEF Proper
  <1> QED BY <1>3, <1>4, StepFine

\* EndPut, EndGet, EndList, EndBulk, HeadRefused, BodyFailed and KeyRefused
\* leave the database alone.
LEMMA QuietFine ==
    ASSUME NEW c \in Conns, Handling(c),
           \/ EndPut(c) \/ EndGet(c) \/ EndList(c) \/ EndBulk(c) \/ HeadRefused(c)
           \/ BodyFailed(c) \/ KeyRefused(c)
    PROVE  OInv'
  <1>1. Fine(db, 0)
    BY Handled
  <1>2. conn[c].at # "idle"
    BY DEF EndPut, EndGet, EndList, EndBulk, HeadRefused, BodyFailed, KeyRefused
  <1>3. PICK where \in {"reply", "body", "send", "list"} : Goto(c, db, where)
    BY DEF EndPut, EndGet, EndList, EndBulk, HeadRefused, BodyFailed, KeyRefused, Goto
  <1> QED BY <1>1, <1>2, <1>3, GotoFine

\* DELETE of a key.
LEMMA EndDeleteFine == ASSUME NEW c \in Conns, Handling(c), EndDelete(c) PROVE OInv'
  <1> DEFINE e == conn[c].ent
             d == db_entry_handle_delete(db, e)
  <1>1. conn[c].at # "idle" /\ Goto(c, IF e = Null THEN db ELSE d, "reply")
    BY DEF EndDelete
  <1>2. Fine(db, 0) /\ ConnOK(db, conn[c]) /\ (e # Null => e \in EntryIds)
    BY Handled
  <1> HIDE DEF d, e
  <1>3. CASE e = Null
    BY <1>1, <1>2, <1>3, GotoFine
  <1>4. CASE e # Null
    <2>1. db.ents[e].live
      BY <1>2, <1>4 DEF ConnOK, e
    <2>2. Without(db, d, 0, e)
      BY <1>2, <1>4, <2>1, HandleDeleteFine DEF d
    <2>3. Fine(d, 0)
      BY <2>2 DEF Without
    <2> QED BY <1>1, <1>4, <2>3, GotoFine
  <1> QED BY <1>3, <1>4

\* DELETE of a table.
LEMMA EndDropFine == ASSUME NEW c \in Conns, Handling(c), EndDrop(c) PROVE OInv'
  <1> DEFINE t == conn[c].tab
             d == db_table_handle_delete(db, t)
  <1>1. conn[c].at # "idle" /\ conn[c].kind = "DROP" /\ Goto(c, IF t = Null THEN db ELSE d, "reply")
    BY DEF EndDrop
  <1>2. Fine(db, 0) /\ Proper(db, conn[c]) /\ (t # Null => t \in TableIds)
    BY Handled
  <1>3. ~ Counted
    BY <1>1, <1>2 DEF Proper, Counted
  <1> HIDE DEF d, t
  <1>4. CASE t = Null
    BY <1>1, <1>2, <1>4, GotoFine
  <1>5. CASE t # Null
    <2>1. Fine(d, 0)
      BY <1>2, <1>3, <1>5, DropFine DEF d
    <2> QED BY <1>1, <1>5, <2>1, GotoFine
  <1> QED BY <1>4, <1>5

\* The connection keeps its state, the database its keys.
LEMMA SameConnFine ==
    ASSUME NEW c \in Conns, Handling(c), NEW d, Step(c, d, conn[c]), Alike(db, d)
    PROVE  OInv'
  <1>1. Fine(db, 0) /\ Proper(db, conn[c])
    BY Handled
  <1>2. Fine(d, 0) /\ Kept(d) = Kept(db)
    BY <1>1, AlikeFine DEF Alike
  <1>3. Proper(d, conn[c])
    BY <1>1, <1>2 DEF Proper
  <1> QED BY <1>2, <1>3, StepFine

\* DELETE of a table, which reads an entry it has freed.
LEMMA EndDropFreedFine ==
    ASSUME NEW c \in Conns, Handling(c), EndDropFreed(c) PROVE OInv'
  <1>1. Alike(db, Fault(db, "freed entry")) /\ Step(c, Fault(db, "freed entry"), conn[c])
    BY Handled, FaultAlike DEF EndDropFreed, Faults
  <1> QED BY <1>1, SameConnFine

\* A fault, after which nothing happens any more.
LEMMA MisusedFine ==
    ASSUME NEW c \in Conns, Handling(c), NEW t, Step(c, Misused(db, t), conn[c])
    PROVE  OInv'
  <1>1. Alike(db, Misused(db, t))
    BY Handled, FaultAlike DEF Misused, Faults
  <1> QED BY <1>1, SameConnFine

\* The listing of a table.
LEMMA ListStepFine == ASSUME NEW c \in Conns, Handling(c), ListStep(c) PROVE OInv'
  <1>1. db \in Db /\ conn[c] \in Conn /\ Fine(db, 0) /\ Proper(db, conn[c])
    BY Handled
  <1>2. ASSUME NEW e \in Entries(db, conn[c].tab), Step(c, db, [conn[c] EXCEPT !.peek = e])
        PROVE  OInv'
    <2> DEFINE r == [conn[c] EXCEPT !.peek = e]
    <2>1. r.at = conn[c].at /\ r.kind = conn[c].kind /\ r.ent = conn[c].ent /\ r.fd = conn[c].fd
      BY <1>1 DEF Conn
    <2>2. Step(c, db, r)
      BY <1>2
    <2> HIDE DEF r
    <2>3. Proper(db, r)
      BY <1>1, <2>1 DEF Proper
    <2> QED BY <1>1, <2>2, <2>3, StepFine
  <1>3. ASSUME NEW what \in Faults, Step(c, Fault(db, what), conn[c]) PROVE OInv'
    BY <1>1, <1>3, FaultAlike, SameConnFine
  <1>4. "freed key" \in Faults /\ "no buckets" \in Faults
    BY DEF Faults
  <1> QED BY <1>2, <1>3, <1>4, MisusedFine DEF ListStep

\* X-Ttl.
LEMMA XTtlFine ==
    ASSUME NEW c \in Conns, Handling(c), NEW ttl \in Ttls, XTtl(c, ttl)
    PROVE  OInv'
  <1> DEFINE n == now + ttl
             d == [db EXCEPT !.ents[conn[c].ent].exp = n]
  <1>1. db \in Db /\ conn[c].ent \in EntryIds /\ Step(c, d, conn[c])
    BY Handled DEF XTtl, Header
  <1>2. n \in Nat /\ Ttls # {}
    BY Handled, ServerAssumption
  <1> HIDE DEF n
  <1>3. Alike(db, d)
    BY <1>1, <1>2, ExpiryAlike
  <1> QED BY <1>1, <1>3, SameConnFine

\* Content-Length.
LEMMA ContentLengthFine ==
    ASSUME NEW c \in Conns, Handling(c), NEW len \in Lengths, ContentLength(c, len)
    PROVE  OInv'
  <1> DEFINE x == conn[c]
             e == x.ent
             d == db_target_write_allocate(db, e, len)
             b == len > BlockLength
             r == [x EXCEPT !.fd = b]
  <1>1. /\ x \in Conn /\ Fine(db, 0) /\ Proper(db, x) /\ x.kind = "PUT" /\ x.at = "head"
        /\ e # Null /\ e \in EntryIds /\ Step(c, d, r)
        /\ RepeatLength \/ db.ents[e].block = NewEntry
    BY Handled DEF ContentLength, Header
  <1>2. SplitHead = FALSE => e \in Kept(db)
    BY <1>1 DEF Proper
  <1>3. r.at = x.at /\ r.kind = x.kind /\ r.ent = x.ent
    BY <1>1 DEF Conn
  <1> HIDE DEF d, r, x
  <1>4. Fine(d, 0) /\ Kept(d) = Kept(db)
    BY <1>1, <1>2, AllocateFine DEF d
  <1>5. Proper(d, r)
    BY <1>1, <1>3, <1>4 DEF Proper
  <1> QED BY <1>1, <1>4, <1>5, StepFine

\* A connection after its first handler.
LEMMA AskingFine ==
    ASSUME NEW c \in Conns, Handling(c), NEW d, Alike(db, d), NEW where, where # "head",
           NEW kind \in Requests, NEW t, Step(c, d, Asking(where, kind, t))
    PROVE  OInv'
  <1> DEFINE r == Asking(where, kind, t)
  <1>1. r.at = where /\ r.kind = kind /\ r.ent = Null /\ r.fd = FALSE
    BY DEF Asking, Closed
  <1>2. Fine(d, 0)
    BY Handled, AlikeFine
  <1> HIDE DEF r
  <1>3. Proper(d, r)
    BY <1>1 DEF Proper
  <1> QED BY <1>2, <1>3, StepFine DEF r

\* LIST, DROP and BULK.
LEMMA TableRequestFine ==
    ASSUME NEW c \in Conns, Handling(c), NEW kind, NEW n \in TableNames, TableRequest(c, kind, n)
    PROVE  OInv'
  <1> DEFINE q == db_table_get_read(db, n)
  <1>1. Step(c, q.db, Asking("tablehead", kind, q.ret)) /\ kind \in Requests
    BY Zenon DEF TableRequest, Asking
  <1>2. Alike(db, q.db)
    BY Handled, TableGetReadAlike
  <1> HIDE DEF q
  <1> QED BY <1>1, <1>2, AskingFine

\* The request line of a request for a key.
LEMMA KeyRequestFine ==
    ASSUME NEW c \in Conns, Handling(c), NEW kind, NEW n \in TableNames, KeyRequest(c, kind, n)
    PROVE  OInv'
  <1> DEFINE t == Min(FreshTables)
             create == kind \in {"PUT", "PURGE"}
             q == IF create THEN db_table_get_write(db, n, t) ELSE db_table_get_read(db, n)
             where == IF q.ret = Null THEN "reply" ELSE "url"
  <1>1. /\ Step(c, q.db, Asking(where, kind, q.ret)) /\ kind \in Requests
        /\ create /\ db.tables[n] = Null => FreshTables # {}
    BY Zenon DEF KeyRequest, Asking
  <1>2. where # "head"
    OBVIOUS
  <1>3. db \in Db /\ Fine(db, 0) /\ SInv
    BY Handled
  <1>4. Alike(db, q.db)
    <2>1. CASE ~ create \/ db.tables[n] # Null
      <3> DEFINE p == db_table_get_read(db, n)
      <3>1. q = p
        BY <2>1 DEF db_table_get_write
      <3>2. Alike(db, p.db)
        BY <1>3, TableGetReadAlike
      <3> HIDE DEF q, p
      <3> QED BY <3>1, <3>2
    <2>2. CASE create /\ db.tables[n] = Null
      <3> DEFINE p == db_table_get_write(db, n, t)
      <3>1. q = p
        BY <2>2
      <3>2. t \in TableIds /\ ~ db.tabs[t].live
        BY <1>1, <1>3, <2>2, FreshTable
      <3> HIDE DEF t
      <3>3. Alike(db, p.db)
        BY <1>3, <3>2, TableGetWriteAlike
      <3> HIDE DEF q, p
      <3> QED BY <3>1, <3>3
    <2> QED BY <2>1, <2>2
  <1> HIDE DEF q, where
  <1> QED BY <1>1, <1>2, <1>4, AskingFine

\* ADMIN /gc.
LEMMA AdminGcFine == ASSUME NEW c \in Conns, Handling(c), AdminGc(c) PROVE OInv'
  <1> DEFINE d == db_lru_gc(db, now)
  <1>1. Step(c, d, [Closed EXCEPT !.at = "reply", !.kind = "GC"]) /\ "GC" \in Requests
    BY DEF AdminGc
  <1> DEFINE r == [Closed EXCEPT !.at = "reply", !.kind = "GC"]
  <1>2. r.at = "reply" /\ r.kind = "GC" /\ r.ent = Null
    BY DEF Closed
  <1>3. Fine(d, 0)
    BY Handled, GcFine
  <1> HIDE DEF d, r
  <1>4. Proper(d, r)
    BY <1>1, <1>2 DEF Proper
  <1> QED BY <1>1, <1>3, <1>4, StepFine DEF r

\* What a look-up finds goes with the connection.
LEMMA FoundFine ==
    ASSUME NEW c \in Conns, Handling(c), NEW x, x = conn[c], x.at = "url",
           x.kind \in {"GET", "PUT", "DELETE"}, NEW k \in Keys, NEW q, Got(db, q, 0),
           NEW fd, fd = Opens(x, q.db, q.ret), NEW writing \in BOOLEAN,
           NEW d, d = IF q.ret = Null THEN db_table_deref(q.db, x.tab, FALSE) ELSE q.db,
           Step(c, d, Found(x, q.ret, IF q.ret = Null THEN Null ELSE k, fd, writing))
    PROVE  OInv'
  <1> DEFINE e == q.ret
             key == IF e = Null THEN Null ELSE k
             r == Found(x, e, key, fd, writing)
  <1>1. /\ x \in Conn /\ Proper(db, x) /\ Fine(q.db, 0) /\ (e # Null => e \in Kept(q.db))
        /\ x.tab \in TableIds
    BY Handled DEF Got, ConnOK
  <1>2. Fine(d, 0)
    <2>1. CASE e = Null
      <3>1. Alike(q.db, db_table_deref(q.db, x.tab, FALSE))
        BY <1>1, TableDerefAlike
      <3>2. d = db_table_deref(q.db, x.tab, FALSE)
        BY <2>1
      <3> QED BY <1>1, <3>1, <3>2, AlikeFine
    <2>2. CASE e # Null
      BY <1>1, <2>2
    <2> QED BY <2>1, <2>2
  <1>3. r.at = "head" /\ r.kind = x.kind /\ r.ent = e /\ r.fd = fd
    BY <1>1, Zenon DEF Found, Conn
  <1>4. e # Null => d = q.db
    OBVIOUS
  <1>5. fd => e # Null /\ IsFile(q.db, e)
    BY DEF Opens
  <1>6. fd => \E len \in Lengths : len > BlockLength
    <2> SUFFICES ASSUME fd PROVE \E len \in Lengths : len > BlockLength
      OBVIOUS
    <2>1. e \in Kept(q.db) /\ q.db.ents[e].len > BlockLength
      BY <1>1, <1>5 DEF IsFile
    <2>2. q.db.ents[e].len \in Lengths \cup {0}
      BY <1>1, <2>1 DEF Fine, ValuesOK
    <2>3. ~ (0 > BlockLength)
      BY DbAssumption
    <2> QED BY <2>1, <2>2, <2>3
  <1>7. Step(c, d, r)
    OBVIOUS
  <1> HIDE DEF r, key
  <1>8. Proper(d, r)
    BY <1>1, <1>3, <1>4, <1>6 DEF Proper
  <1> QED BY <1>2, <1>7, <1>8, StepFine

\* http_key_lookup.
LEMMA KeyLookupFine ==
    ASSUME NEW c \in Conns, Handling(c), NEW k \in Keys, KeyLookup(c, k)
    PROVE  OInv'
  <1> DEFINE x == conn[c]
             q == CASE x.kind = "GET"    -> db_entry_get_read(db, x.tab, k, now)
                    [] x.kind = "PUT"    -> db_entry_get_write(db, x.tab, k, now, Min(FreshEntries))
                    [] x.kind = "DELETE" -> db_entry_get_delete(db, x.tab, k)
             d == IF q.ret = Null THEN db_table_deref(q.db, x.tab, FALSE) ELSE q.db
             fd == Opens(x, q.db, q.ret)
             writing == x.kind = "PUT" /\ q.ret # Null
             r == Found(x, q.ret, IF q.ret = Null THEN Null ELSE k, fd, writing)
  <1>1. CASE Unusable(db, x.tab)
    BY <1>1, MisusedFine DEF KeyLookup
  <1>2. CASE ~ Unusable(db, x.tab)
    <2>1. x.at = "url" /\ (x.kind = "PUT" => FreshEntries # {})
      BY <1>2 DEF KeyLookup
    <2>2. Step(c, d, r)
      BY <1>2, ZenonT(60) DEF KeyLookup, Found
    <2>3. /\ x.kind \in {"GET", "PUT", "DELETE"} /\ Fine(db, 0) /\ x.tab \in TableIds
          /\ now \in Nat /\ SInv
      BY <2>1, Handled DEF ConnOK, KeyKinds, KeyLookup
    <2>4. Got(db, q, 0)
      <3> HIDE DEF x
      <3>1. CASE x.kind = "GET"
        <4>1. q = db_entry_get_read(db, x.tab, k, now)
          BY <3>1
        <4> HIDE DEF q
        <4> QED BY <2>3, <4>1, GetReadFine
      <3>2. CASE x.kind = "PUT"
        <4> DEFINE e == Min(FreshEntries)
        <4>1. q = db_entry_get_write(db, x.tab, k, now, e)
          BY <3>2
        <4>2. e \in EntryIds /\ ~ db.ents[e].live
          BY <2>1, <2>3, <3>2, FreshEntry
        <4> HIDE DEF q, e
        <4> QED BY <1>2, <2>3, <4>1, <4>2, GetWriteFine
      <3>3. CASE x.kind = "DELETE"
        <4>1. q = db_entry_get_delete(db, x.tab, k)
          BY <3>3
        <4> HIDE DEF q
        <4>2. LET p == db_entry_get_delete(db, x.tab, k) IN Got(db, p, 0) /\ Alike(db, p.db)
          BY <2>3, GetDeleteFine
        <4> QED BY <4>1, <4>2
      <3> QED BY <2>3, <3>1, <3>2, <3>3
    <2>5. writing \in BOOLEAN
      OBVIOUS
    <2>6. d = IF q.ret = Null THEN db_table_deref(q.db, x.tab, FALSE) ELSE q.db
      BY SMTT(60)
    <2>7. Step(c, d, Found(x, q.ret, IF q.ret = Null THEN Null ELSE k, fd, writing))
      BY <2>2
    <2>8. fd = Opens(x, q.db, q.ret)
      OBVIOUS
    <2> HIDE DEF q, d, fd, writing, r
    <2> QED BY <2>1, <2>3, <2>4, <2>5, <2>6, <2>7, <2>8, FoundFine
  <1> QED BY <1>1, <1>2

\* X-Delete.
LEMMA XDeleteFine ==
    ASSUME NEW c \in Conns, Handling(c), NEW k \in Keys, XDelete(c, k)
    PROVE  OInv'
  <1> DEFINE x == conn[c]
             t == x.tab
             q == db_entry_get_delete(db, t, k)
             d1 == db_entry_handle_delete(q.db, q.ret)
             p == db_entry_deref(d1, q.ret, FALSE)
  <1>1. /\ x.at = "tablehead" /\ t \in TableIds /\ x \in Conn /\ Fine(db, 0) /\ x.ent = Null
        /\ Proper(db, x)
    BY Handled DEF XDelete, Header, ConnOK
  <1>2. CASE Unusable(db, t)
    BY <1>2, MisusedFine DEF XDelete
  <1>3. CASE ~ Unusable(db, t)
    <2>1. \/ q.ret = Null /\ Step(c, q.db, x)
          \/ q.ret # Null /\ Step(c, p, IF d1.ents[q.ret].tab = Null THEN [x EXCEPT !.tab = Null] ELSE x)
      BY Zenon, <1>3 DEF XDelete
    <2>2. Got(db, q, 0) /\ Alike(db, q.db)
      BY <1>1, GetDeleteFine
    <2> HIDE DEF q
    <2>3. CASE q.ret = Null
      BY <2>1, <2>2, <2>3, SameConnFine
    <2>4. CASE q.ret # Null
      <3>1. Fine(q.db, 0) /\ q.ret \in Kept(q.db)
        BY <2>2, <2>4 DEF Got
      <3>2. q.ret \in EntryIds /\ q.db.ents[q.ret].live
        BY <3>1 DEF Kept
      <3>3. Without(q.db, d1, 0, q.ret)
        BY <3>1, <3>2, HandleDeleteFine
      <3> HIDE DEF d1
      <3>4. Fine(d1, 0)
        BY <3>3 DEF Without
      <3>5. Alike(d1, p)
        BY <3>2, <3>4, DerefAlike
      <3> HIDE DEF p
      <3>6. Fine(p, 0)
        BY <3>4, <3>5, AlikeFine
      <3>7. Step(c, p, [x EXCEPT !.tab = Null]) \/ Step(c, p, x)
        BY <2>1, <2>4
      <3>8. CASE Step(c, p, x)
        <4>1. Proper(p, x)
          BY <1>1 DEF Proper
        <4> QED BY <3>6, <3>8, <4>1, StepFine
      <3>9. CASE Step(c, p, [x EXCEPT !.tab = Null])
        <4> DEFINE r == [x EXCEPT !.tab = Null]
        <4>1. r.at = x.at /\ r.ent = x.ent /\ r.kind = x.kind /\ r.fd = x.fd
          BY <1>1 DEF Conn
        <4>2. Step(c, p, r)
          BY <3>9
        <4> HIDE DEF r
        <4>3. Proper(p, r)
          BY <1>1, <4>1 DEF Proper
        <4> QED BY <3>6, <4>2, <4>3, StepFine
      <3> QED BY <3>7, <3>8, <3>9
    <2> QED BY <2>3, <2>4
  <1> QED BY <1>2, <1>3

\* The end of an upload.
LEMMA BodyDoneFine == ASSUME NEW c \in Conns, Handling(c), BodyDone(c) PROVE OInv'
  <1> DEFINE x == conn[c]
             e == x.ent
             d == IF x.writing THEN db_complete_writing(db, e) ELSE db
             r == [x EXCEPT !.at = "reply", !.writing = FALSE]
  <1>1. x \in Conn /\ ConnOK(db, x) /\ Proper(db, x) /\ Fine(db, 0) /\ x.at = "body" /\ Step(c, d, r)
    BY Handled DEF BodyDone
  <1>2. r.at = "reply" /\ r.kind = x.kind /\ r.ent = e /\ r.fd = x.fd
    BY <1>1 DEF Conn
  <1>3. Fine(d, 0)
    <2>1. CASE x.writing
      <3>1. e \in EntryIds /\ db.ents[e].live /\ db.ents[e].writing
        BY <1>1, <2>1 DEF ConnOK, Conn
      <3> DEFINE y == db_complete_writing(db, e)
      <3>2. Fine(y, 0)
        BY <1>1, <3>1, CompleteFine
      <3> QED BY <2>1, <3>2
    <2>2. CASE ~ x.writing
      BY <1>1, <2>2
    <2> QED BY <2>1, <2>2
  <1> HIDE DEF d, r
  <1>4. Proper(d, r)
    BY <1>1, <1>2 DEF Proper
  <1> QED BY <1>1, <1>3, <1>4, StepFine

\* The end of a request.
LEMMA CleanupStepFine == ASSUME NEW c \in Conns, Handling(c), Cleanup(c) PROVE OInv'
  <1> DEFINE x == conn[c]
             d == cache_destroy(x, db)
  <1>1. /\ x \in Conn /\ ConnOK(db, x) /\ Proper(db, x) /\ Fine(db, 0) /\ x.at # "idle"
        /\ Step(c, d, Closed)
    BY Handled DEF Cleanup
  <1> HIDE DEF x
  <1>2. x.ent # Null => db.ents[x.ent].live
    BY <1>1 DEF ConnOK
  <1>3. ASSUME Filed, x.ent # Null, x.fd, ~ x.writing PROVE ~ db.ents[x.ent].writing
    <2>1. x.kind # "DELETE"
      <3> SUFFICES ASSUME x.kind = "DELETE" PROVE FALSE
        OBVIOUS
      <3>1. PICK len \in Lengths : len > BlockLength
        BY <1>1, <1>3 DEF Proper
      <3>2. len <= BlockLength
        BY <1>1, <1>3 DEF Proper, Filed
      <3> QED BY <3>1, <3>2, ServerAssumption, DbAssumption
    <2>2. x.kind \in {"GET", "PUT"}
      BY <1>1, <1>3, <2>1 DEF Proper
    <2> QED BY <1>1, <1>3, <2>2 DEF ConnOK
  <1>4. Fine(d, 0)
    BY <1>1, <1>2, <1>3, DestroyFine
  <1>5. Proper(d, Closed)
    BY DEF Proper, Closed
  <1> QED BY <1>1, <1>4, <1>5, StepFine DEF x

-----------------------------------------------------------------------------
(* The theorems.                                                           *)

\* Nothing is kept of an empty database.
LEMMA EmptyFine == Fine(EmptyDb, 0)
  <1> DEFINE d == EmptyDb
  <1>1. /\ d \in Db /\ \A e \in EntryIds : d.ents[e] = DeadEntry
        /\ \A t \in TableIds : d.tabs[t] = DeadTable
        /\ d.lru_head = Null /\ d.lru_tail = Null /\ d.keys = 0 /\ d.size = 0 /\ d.orphan = FALSE
    BY EmptyDbType DEF EmptyDb
  <1>2. DeadEntry.live = FALSE /\ DeadEntry.file = FALSE /\ \A h \in Hashes : DeadTable.slot[h] = Null
    BY DEF DeadEntry, DeadTable
  <1> HIDE DEF d
  <1>3. Kept(d) = {} /\ Complete(d) = {}
    BY <1>1, <1>2 DEF Kept, Complete
  <1>4. ListOK(d)
    <2> DEFINE p == [e \in EntryIds |-> 0]
    <2>1. List({}, Nexts(d), Prevs(d), Null, Null, p)
      BY DEF List, HeadIs, TailIs
    <2> QED BY <1>1, <1>3, <2>1 DEF ListOK
  <1>5. \A t \in TableIds, h \in Hashes : SlotHolds(d, t, h)
    BY <1>1, <1>2 DEF SlotHolds
  <1>6. CountOK(d, 0)
    <2>1. SumOver(Lens(d), {}) = 0
      <3>1. Lens(d) \in [EntryIds -> Int]
        BY <1>1, DbFields DEF Lens
      <3> QED BY <3>1, SumSteps
    <2>2. Cardinality({}) = 0
      BY FS_EmptySet
    <2> QED BY <1>1, <1>3, <2>1, <2>2 DEF CountOK
  <1>7. FilesOK(d) /\ ValuesOK(d)
    BY <1>1, <1>2, <1>3 DEF FilesOK, ValuesOK
  <1> QED BY <1>1, <1>3, <1>4, <1>5, <1>6, <1>7 DEF Fine, d

\* The initial state.
LEMMA InitOrderly == Init => OInv
  <1> SUFFICES ASSUME Init PROVE OInv
    OBVIOUS
  <1>1. SInv /\ Fine(db, 0)
    BY InitInv, EmptyFine DEF Init
  <1>2. \A c \in Conns : conn[c] = Closed
    BY DEF Init
  <1>3. Proper(db, Closed)
    BY DEF Proper, Closed
  <1> QED BY <1>1, <1>2, <1>3 DEF OInv

\* A step that leaves database and connections alone.
LEMMA StutterOrderly == ASSUME OInv, SInv', UNCHANGED <<db, conn>> PROVE OInv'
  <1>1. db' = db /\ conn' = conn
    OBVIOUS
  <1>2. Fine(db, 0)' /\ \A c \in Conns : Proper(db, conn[c])'
    <2>1. Fine(db', 0)
      BY <1>1 DEF OInv
    <2>2. Kept(db') = Kept(db)' /\ Complete(db') = Complete(db)'
      BY DEF Kept, Complete
    <2>3. Fine(db, 0)'
      BY <2>1, <2>2
    <2>4. ASSUME NEW c \in Conns PROVE Proper(db', conn'[c])
      BY <1>1 DEF OInv
    <2> QED BY <2>3, <2>4
  <1> QED BY <1>2 DEF OInv

\* Every step keeps the bookkeeping.
LEMMA NextOrderly == OInv /\ [Next]_vars => OInv'
  <1> SUFFICES ASSUME OInv, [Next]_vars PROVE OInv'
    OBVIOUS
  <1>0. SInv'
    BY NextInv DEF OInv
  <1>1. CASE UNCHANGED vars \/ Tick
    BY <1>0, <1>1, StutterOrderly DEF vars, Tick
  <1>2. ASSUME NEW c \in Conns, Runs(c) PROVE Handling(c)
    BY <1>0, <1>2 DEF Handling
  <1>3. ASSUME NEW c \in Conns, NEW kind \in Kinds, NEW n \in TableNames,
               KeyRequest(c, kind, n) \/ TableRequest(c, kind, n)
        PROVE  OInv'
    <2>1. Handling(c)
      BY <1>2, <1>3 DEF KeyRequest, TableRequest
    <2> QED BY <1>3, <2>1, KeyRequestFine, TableRequestFine
  <1>4. ASSUME NEW c \in Conns, NEW k \in Keys, KeyLookup(c, k) \/ XDelete(c, k)
        PROVE  OInv'
    <2>1. Handling(c)
      BY <1>2, <1>4 DEF KeyLookup, XDelete, Header
    <2> QED BY <1>4, <2>1, KeyLookupFine, XDeleteFine
  <1>5. ASSUME NEW c \in Conns, NEW len \in Lengths, ContentLength(c, len) PROVE OInv'
    <2>1. Handling(c)
      BY <1>2, <1>5 DEF ContentLength, Header
    <2> QED BY <1>5, <2>1, ContentLengthFine
  <1>6. ASSUME NEW c \in Conns, NEW ttl \in Ttls, XTtl(c, ttl) PROVE OInv'
    <2>1. Handling(c)
      BY <1>2, <1>6 DEF XTtl, Header
    <2> QED BY <1>6, <2>1, XTtlFine
  <1>7. ASSUME NEW c \in Conns, AdminGc(c) \/ EndDelete(c) \/ EndDrop(c) \/ EndDropFreed(c)
                                \/ BodyDone(c) \/ ListStep(c) \/ Cleanup(c)
        PROVE  OInv'
    <2>1. Handling(c)
      BY <1>2, <1>7 DEF AdminGc, EndDelete, EndDrop, EndDropFreed, BodyDone, ListStep, Cleanup
    <2> QED BY <1>7, <2>1, AdminGcFine, EndDeleteFine, EndDropFine, EndDropFreedFine,
            BodyDoneFine, ListStepFine, CleanupStepFine
  <1>8. ASSUME NEW c \in Conns, EndPut(c) \/ EndGet(c) \/ EndList(c) \/ EndBulk(c)
                                \/ HeadRefused(c) \/ BodyFailed(c) \/ KeyRefused(c)
        PROVE  OInv'
    <2>1. Handling(c)
      BY <1>2, <1>8 DEF EndPut, EndGet, EndList, EndBulk, HeadRefused, BodyFailed, KeyRefused
    <2> QED BY <1>8, <2>1, QuietFine
  <1> QED BY <1>1, <1>3, <1>4, <1>5, <1>6, <1>7, <1>8 DEF Next

\* The inductive invariant of the bookkeeping.
THEOREM Orderly == Spec => []OInv
  BY InitOrderly, NextOrderly, PTL DEF Spec

\* The LRU list has each complete key once, in both directions, whatever is
\* requested, evicted, replaced or cut off, in whatever order; no request is
\* excluded, and heads may be split.
THEOREM LruCorrect == Spec => []LruExact
  <1>1. OInv => LruExact
    BY ChainExact DEF OInv, Fine
  <1> QED BY <1>1, Orderly, PTL

\* The files on disk are those of the keys whose value is longer than a block,
\* also while a key is filled and when an upload is cut off, and none stays
\* behind; when heads arrive in one piece with one length each, and no long
\* value is deleted by DELETE, which unlinks the file of an upload in progress.
THEOREM FilesCorrect == ASSUME Filed PROVE Spec => []FilesExact
  <1>1. OInv => FilesExact
    BY DEF OInv, Fine, FilesOK, FilesExact, Kept, Live
  <1> QED BY <1>1, Orderly, PTL

\* A garbage collection removes what its comment says: keys until the size is
\* the configured share below the limit, or just below the limit when expired
\* keys were removed, or all of them.
THEOREM GcCorrect == Spec => GcTrims
  <1> DEFINE P == (\E c \in Conns : AdminGc(c)) /\ MaxSize > 0 /\ MaxSize < db.size =>
                    \/ db'.lru_head = Null
                    \/ db'.size <= MaxSize - (IF \E e \in Indexed(db) : Expired(db, e, now)
                                              THEN 0 ELSE ClearSize)
  <1>1. ASSUME OInv, NEW c \in Conns, AdminGc(c), MaxSize > 0, MaxSize < db.size
        PROVE  \/ db'.lru_head = Null
               \/ db'.size <= MaxSize - (IF \E e \in Indexed(db) : Expired(db, e, now)
                                         THEN 0 ELSE ClearSize)
    <2> DEFINE d == db_lru_gc(db, now)
               r == [Closed EXCEPT !.at = "reply", !.kind = "GC"]
               b == ~ db.orphan
    <2>1. Step(c, d, r)
      BY <1>1 DEF AdminGc
    <2>2. Fine(db, 0) /\ now \in Nat
      BY <1>1 DEF OInv, SInv
    <2>3. /\ Fine(d, 0)
          /\ \/ d.lru_head = Null
             \/ d.size <= MaxSize - (IF \E e \in Indexed(db) : Expired(db, e, now)
                                     THEN 0 ELSE ClearSize)
      BY <1>1, <2>2, GcFine
    <2> HIDE DEF d, r
    <2>4. db' = Settled(d, conn', b) /\ b \in BOOLEAN
      BY <2>1 DEF Step, Settled
    <2> HIDE DEF b
    <2>5. db'.lru_head = d.lru_head /\ db'.size = d.size
      BY <2>3, <2>4, SettleFine
    <2> QED BY <2>3, <2>5
  <1>2. OInv => [P]_vars
    BY <1>1
  <1> QED BY <1>2, Orderly, PTL DEF GcTrims

\* MapThenSumSet computes this sum.
LEMMA SumComputed ==
    ASSUME NEW S \in SUBSET EntryIds, db \in Db
    PROVE  MapThenSumSet(LAMBDA e : db.ents[e].len, S) = SumOver(Lens(db), S)
  <1> DEFINE F == Lens(db)
             Sum(s) == SumOver(F, s)
             Eq(g) == g = [s \in SUBSET S |-> IF s = {} THEN 0
                             ELSE db.ents[Pick(s)].len + g[s \ {Pick(s)}]]
             iter == CHOOSE g : Eq(g)
             g0 == [s \in SUBSET S |-> Sum(s)]
  <1>1. F \in [EntryIds -> Int] /\ \A e \in EntryIds : F[e] = db.ents[e].len
    BY DbFields DEF Lens
  <1> HIDE DEF F
  <1>2. \A s \in SUBSET EntryIds : s # {} => Pick(s) \in s /\ Pick(s) \in EntryIds /\ s \ {Pick(s)} \in SUBSET s
    BY PickIn
  <1>3. \A s \in SUBSET EntryIds : Sum(s) = IF s = {} THEN 0 ELSE F[Pick(s)] + Sum(s \ {Pick(s)})
    BY <1>1, SumSteps
  <1> HIDE DEF Sum
  <1>4. \A s \in SUBSET S : g0[s] = IF s = {} THEN 0 ELSE db.ents[Pick(s)].len + g0[s \ {Pick(s)}]
    BY <1>1, <1>2, <1>3
  <1>5. Eq(g0)
    <2>1. g0 = [s \in SUBSET S |-> g0[s]]
      OBVIOUS
    <2> HIDE DEF g0
    <2> QED BY <1>4, <2>1
  <1> HIDE DEF g0
  <1>6. Eq(iter)
    BY <1>5, Zenon
  <1>7. MapThenSumSet(LAMBDA e : db.ents[e].len, S) = iter[S]
    BY DEF MapThenSumSet, MapThenFoldSet, Pick
  <1> HIDE DEF iter
  <1>8. \A s \in SUBSET S : iter[s] = IF s = {} THEN 0 ELSE db.ents[Pick(s)].len + iter[s \ {Pick(s)}]
    BY <1>6
  <1> DEFINE C == {s \in SUBSET S : iter[s] # Sum(s)}
  <1>9. C = {}
    <2> SUFFICES ASSUME C # {} PROVE FALSE
      OBVIOUS
    <2>1. PICK s \in C : \A u \in C : ~ (Cardinality(u) < Cardinality(s))
      <3>1. C \in SUBSET (SUBSET EntryIds)
        OBVIOUS
      <3> HIDE DEF C
      <3> QED BY <3>1, Smallest
    <2>2. s \in SUBSET EntryIds /\ s \in SUBSET S /\ iter[s] # Sum(s)
      OBVIOUS
    <2>3. s # {}
      BY <1>3, <1>8, <2>2
    <2>4. s \ {Pick(s)} \notin C
      <3>1. Cardinality(s \ {Pick(s)}) < Cardinality(s)
        BY <1>2, <2>2, <2>3, Smaller
      <3> HIDE DEF C
      <3> QED BY <2>1, <3>1
    <2>5. iter[s \ {Pick(s)}] = Sum(s \ {Pick(s)})
      BY <2>2, <2>4
    <2> QED BY <1>1, <1>2, <1>3, <1>8, <2>2, <2>3, <2>5
  <1>10. iter[S] = Sum(S)
    BY <1>9
  <1> QED BY <1>7, <1>10 DEF Sum, F

\* db_size_bytes and db_keys are the size and the number of the keys, whatever
\* is uploaded, replaced, evicted, expired and cut off; when heads arrive in
\* one piece with one length each, below 2^32, and no table is dropped, which
\* leaves its keys counted.
THEOREM CountersCorrect == ASSUME Counted PROVE Spec => []CountersExact
  <1>1. ASSUME OInv PROVE CountersExact
    <2>1. Present = Kept(db) /\ Kept(db) \in SUBSET EntryIds
      BY DEF Present, Live, Kept
    <2>2. db \in Db /\ CountOK(db, 0)
      BY <1>1 DEF OInv, Fine
    <2>3. Cardinality(Kept(db)) \in Nat
      BY <2>1, DbAssumption, FS_Subset, FS_CardinalityType
    <2>4. db.keys = Cardinality(Kept(db)) /\ db.size = SumOver(Lens(db), Kept(db))
      BY <2>2, <2>3 DEF CountOK
    <2>5. MapThenSumSet(LAMBDA e : db.ents[e].len, Present) = SumOver(Lens(db), Present)
      BY <2>1, <2>2, SumComputed
    <2> QED BY <2>1, <2>4, <2>5 DEF CountersExact
  <1> QED BY <1>1, Orderly, PTL

-----------------------------------------------------------------------------
(* The users of tables.  Unless a table is dropped, the references of a    *)
(* table that are not the one of its keys are those of its users; a table  *)
(* that was deleted with its last key has them too, and one more when keys *)
(* do not expire: the deletion took the reference of the keys, and the     *)
(* user that deleted the last key, or the eviction, does not give back its *)
(* own, since the entry no longer has a table.                             *)

Spare == IF Ttls = {} THEN 1 ELSE 0

\* The reference of the keys, and the other ones.
KeyRef(d, t) == IF d.tabs[t].deleted \/ Entries(d, t) = {} THEN 0 ELSE 1
Rest(d, t)   == d.tabs[t].refs - KeyRef(d, t)

\* Table t is in memory as long as one of its u users needs it, and counts them.
Tallied(d, t, u) ==
    /\ u > 0 => d.tabs[t].live
    /\ d.tabs[t].live => IF d.tabs[t].deleted THEN Rest(d, t) >= u + Spare ELSE Rest(d, t) = u

\* A table that can be used is the one that is found by its name, and none was
\* deleted that was not.
Reach(d) == Ttls = {} =>
    /\ ~ d.nameless
    /\ \A t \in TableIds : ~ Unusable(d, t) =>
           d.tabs[t].name \in TableNames /\ d.tables[d.tabs[t].name] = t

\* From d to r nothing happens to table t that its users, some of them through
\* the entries S, would notice.
Stays(d, r, S, t) ==
    /\ r.tabs[t].live = d.tabs[t].live /\ r.tabs[t].deleted = d.tabs[t].deleted
    /\ Rest(r, t) = Rest(d, t)
    /\ \A e \in S : r.ents[e].tab = t <=> d.ents[e].tab = t

\* Or t is deleted with its last key, and a reference is left over.
Ends(d, r, S, t) ==
    /\ d.tabs[t].live /\ ~ d.tabs[t].deleted /\ r.tabs[t].live /\ r.tabs[t].deleted
    /\ \A e \in S : r.ents[e].tab = t => d.ents[e].tab = t
    /\ Rest(r, t) >= Rest(d, t)
    /\ \/ Rest(r, t) >= Rest(d, t) + Spare
       \/ \E e \in S : d.ents[e].tab = t /\ r.ents[e].tab # t

Ties(d, r, S) ==
    /\ \A t \in TableIds : Stays(d, r, S, t) \/ Ends(d, r, S, t)
    /\ Named(d) => Named(r)
    /\ Named(d) /\ Reach(d) => Reach(r)

\* Counts of tables are integers.
LEMMA RestType ==
    ASSUME NEW d \in Db, NEW t \in TableIds
    PROVE  Rest(d, t) \in Int /\ KeyRef(d, t) \in {0, 1} /\ d.tabs[t].refs \in Int
           /\ d.tabs[t].refs = Rest(d, t) + KeyRef(d, t)
  <1>1. d.tabs[t].refs \in Int
    BY DbFields
  <1>2. KeyRef(d, t) \in {0, 1}
    BY DEF KeyRef
  <1> QED BY <1>1, <1>2 DEF Rest

\* The room that keys without expiry leave.
LEMMA SpareType == Spare \in {0, 1} /\ (Ttls = {} <=> Spare = 1)
  BY DEF Spare

\* Ties hold across two changes that keep them.
LEMMA TiesTrans ==
    ASSUME NEW d \in Db, NEW r \in Db, NEW q \in Db, NEW S, Ties(d, r, S), Ties(r, q, S)
    PROVE  Ties(d, q, S)
  <1>1. ASSUME NEW t \in TableIds PROVE Stays(d, q, S, t) \/ Ends(d, q, S, t)
    <2>1. Rest(d, t) \in Int /\ Rest(r, t) \in Int /\ Rest(q, t) \in Int /\ Spare \in {0, 1}
      BY RestType, SpareType
    <2>2. CASE Stays(d, r, S, t) /\ Stays(r, q, S, t)
      BY <2>2 DEF Stays
    <2>3. CASE Stays(d, r, S, t) /\ Ends(r, q, S, t)
      BY <2>1, <2>3 DEF Stays, Ends
    <2>4. CASE Ends(d, r, S, t) /\ Stays(r, q, S, t)
      BY <2>1, <2>4 DEF Stays, Ends
    <2>5. CASE Ends(d, r, S, t) /\ Ends(r, q, S, t)
      BY <2>5 DEF Ends
    <2> QED BY <2>2, <2>3, <2>4, <2>5 DEF Ties
  <1> QED BY <1>1 DEF Ties

\* The tables of r are those of d.
LEMMA SameTabsTie ==
    ASSUME NEW d, NEW r, NEW S, r.tabs = d.tabs, r.tables = d.tables, r.nameless = d.nameless,
           \A e \in S : r.ents[e].tab = d.ents[e].tab
    PROVE  Ties(d, r, S) /\ \A t \in TableIds : Stays(d, r, S, t)
  <1>1. \A t \in TableIds : Stays(d, r, S, t)
    BY DEF Stays, Rest, KeyRef, Entries
  <1>2. Named(d) => Named(r)
    BY DEF Named, Unusable
  <1>3. Reach(d) => Reach(r)
    BY DEF Reach, Unusable
  <1> QED BY <1>1, <1>2, <1>3 DEF Ties

\* db_delete_table_entry of a table with other references than the one of its keys.
LEMMA DeleteTableShape ==
    ASSUME NEW d \in Db, NEW t \in TableIds, d.tabs[t].live, d.tabs[t].refs > 1
    PROVE  LET r == db_delete_table_entry(d, t)
           IN  /\ r \in Db /\ r.ents = d.ents
               /\ r.tables = [d.tables EXCEPT ![d.tabs[t].name] = Null]
               /\ (r.nameless => d.nameless \/ d.tables[d.tabs[t].name] = Null)
               /\ \A s \in TableIds : s # t => r.tabs[s] = d.tabs[s]
               /\ r.tabs[t].live /\ r.tabs[t].deleted /\ r.tabs[t].refs = d.tabs[t].refs - 1
               /\ r.tabs[t].name = d.tabs[t].name
  <1> DEFINE b == d.nameless \/ d.tables[d.tabs[t].name] = Null
             y == [d.tabs[t] EXCEPT !.deleted = TRUE]
             N == [d.tables EXCEPT ![d.tabs[t].name] = Null]
             m == [d EXCEPT !.tabs = [d.tabs EXCEPT ![t] = y], !.tables = N,
                            !.nameless = b]
             r == [m EXCEPT !.tabs[t].refs = @ - 1]
  <1>1. d.tabs \in [TableIds -> Table] /\ d.tabs[t] \in Table /\ d.tabs[t].refs \in Int
    BY DEF Db, Table
  <1>2. y.live /\ y.deleted /\ y.refs = d.tabs[t].refs /\ y.name = d.tabs[t].name
    BY <1>1 DEF Table
  <1>3. m.tabs[t] = y /\ m.ents = d.ents /\ m.tables = N /\ m.nameless = b
        /\ \A s \in TableIds : s # t => m.tabs[s] = d.tabs[s]
    BY <1>1 DEF Db
  <1>4. m = [AssertNamed(d, t) EXCEPT !.tabs[t].deleted = TRUE, !.tables[d.tabs[t].name] = Null]
    BY DEF Db, AssertNamed
  <1>5. m.tabs = [d.tabs EXCEPT ![t] = y] /\ DOMAIN m.tabs = TableIds
    BY <1>1 DEF Db
  <1>6. r.tabs = [m.tabs EXCEPT ![t] = [y EXCEPT !.refs = @ - 1]] /\ r.ents = m.ents
        /\ r.tables = m.tables /\ r.nameless = m.nameless
    BY <1>3, <1>5 DEF Db
  <1>7. r.tabs[t] = [y EXCEPT !.refs = @ - 1] /\ \A s \in TableIds : s # t => r.tabs[s] = m.tabs[s]
    BY <1>5, <1>6
  <1>8. [y EXCEPT !.refs = @ - 1].refs = y.refs - 1 /\ [y EXCEPT !.refs = @ - 1].live = y.live
        /\ [y EXCEPT !.refs = @ - 1].deleted = y.deleted /\ [y EXCEPT !.refs = @ - 1].name = y.name
    BY <1>1 DEF Table
  <1>9. r.tabs[t].refs # 0
    BY <1>1, <1>2, <1>7, <1>8
  <1>10. db_delete_table_entry(d, t) = r
    <2>1. db_delete_table_entry(d, t) = db_table_deref(m, t, TRUE)
      BY <1>4, Zenon DEF db_delete_table_entry
    <2>2. m.tabs[t].live
      BY <1>2, <1>3
    <2> HIDE DEF m
    <2> QED BY <1>9, <2>1, <2>2 DEF db_table_deref
  <1>11. r \in Db
    <2>1. db_delete_table_entry(d, t) \in Db
      BY DeleteTableShrinks DEF Shrinks
    <2> QED BY <1>10, <2>1
  <1> HIDE DEF r, m, y
  <1>12. r.tabs[t].live /\ r.tabs[t].deleted /\ r.tabs[t].refs = d.tabs[t].refs - 1
         /\ r.tabs[t].name = d.tabs[t].name
    BY <1>2, <1>7, <1>8
  <1>13. /\ r.ents = d.ents /\ r.tables = N /\ r.nameless = b
         /\ \A s \in TableIds : s # t => r.tabs[s] = d.tabs[s]
    BY <1>3, <1>6, <1>7
  <1> QED BY <1>10, <1>11, <1>12, <1>13, Zenon

\* Table s is counted the same in d and r.
SameUse(d, r, s) ==
    /\ r.tabs[s].live = d.tabs[s].live /\ r.tabs[s].deleted = d.tabs[s].deleted
    /\ r.tabs[s].name = d.tabs[s].name /\ r.tabs[s].refs = d.tabs[s].refs
    /\ KeyRef(r, s) = KeyRef(d, s)

\* The key e of table t is gone in r, or the table has been deleted with it.
Emptied(d, r, e, t) ==
    /\ \A s \in TableIds \ {t} : SameUse(d, r, s)
    /\ \A f \in EntryIds \ {e} : r.ents[f].tab = d.ents[f].tab
    /\ \A f \in EntryIds : r.ents[f].refs = d.ents[f].refs /\ r.ents[f].live = d.ents[f].live
    /\ r.ents[e].deleted
    /\ \/ SameUse(d, r, t) /\ r.tables = d.tables /\ r.nameless = d.nameless /\ r.ents[e].tab = t
       \/ /\ KeyRef(d, t) = 1 /\ r.tabs[t].live /\ r.tabs[t].deleted
          /\ r.tabs[t].refs = d.tabs[t].refs - 1
          /\ r.tables = [d.tables EXCEPT ![d.tabs[t].name] = Null]
          /\ (r.nameless => d.nameless \/ d.tables[d.tabs[t].name] = Null)
          /\ r.ents[e].tab = Null

\* Tables with the same counts and the same places, or places where there are keys.
LEMMA SameUseKeys ==
    ASSUME NEW d, NEW r, NEW t, r.tabs[t].live = d.tabs[t].live,
           r.tabs[t].deleted = d.tabs[t].deleted, r.tabs[t].name = d.tabs[t].name,
           r.tabs[t].refs = d.tabs[t].refs, Entries(r, t) = {} <=> Entries(d, t) = {}
    PROVE  SameUse(d, r, t)
  BY DEF SameUse, KeyRef

\* The same places hold the same keys.
LEMMA SameSlots ==
    ASSUME NEW d, NEW r, NEW t, \A h \in Hashes : r.tabs[t].slot[h] = d.tabs[t].slot[h]
    PROVE  Entries(r, t) = Entries(d, t)
  BY DEF Entries

\* What db_entry_handle_delete does to tables when it deletes a key.
LEMMA DeletionShape ==
    ASSUME NEW d, NEW k, Fine(d, k), NEW e \in Kept(d), NEW t, t = d.ents[e].tab,
           d.tabs[t].refs > 1
    PROVE  Emptied(d, db_entry_handle_delete(d, e), e, t)
  <1> DEFINE r  == db_entry_handle_delete(d, e)
             d0 == Unlink(d, e)
             d1 == [d0 EXCEPT !.keys = @ - 1]
             d2 == db_delete_table_entry(d1, t)
             d3 == [d2 EXCEPT !.ents[e].tab = Null]
  <1>1. /\ d \in Db /\ e \in EntryIds /\ t \in TableIds /\ t # Null /\ ~ Unusable(d, t)
        /\ ~ d.ents[e].deleted /\ d.ents[e].live
        /\ d.ents[e].key \in Keys /\ d.tabs[t].slot[KeyHash[d.ents[e].key]] = e
    BY DbAssumption DEF Kept, Fine, AtHome
  <1>2. r = IF Entries(d1, t) # {} THEN d1 ELSE d3
    BY <1>1 DEF db_entry_handle_delete
  <1>3. Unlinked(d, d0, e)
    BY <1>1, UnlinkShape
  <1> HIDE DEF d0, r
  <1>4. d0 \in Db
    BY <1>3 DEF Unlinked
  <1>5. d1 \in Db /\ d1.ents = d0.ents /\ d1.tabs = d0.tabs /\ d1.tables = d0.tables
        /\ d1.nameless = d0.nameless
    BY <1>4 DEF Db
  <1> HIDE DEF d1
  <1>6. \A f \in EntryIds : d1.ents[f].tab = d.ents[f].tab /\ d1.ents[f].refs = d.ents[f].refs
                            /\ d1.ents[f].live = d.ents[f].live
    BY <1>3, <1>5 DEF Unlinked, Marked
  <1>7. d1.ents[e].deleted /\ d1.tables = d.tables /\ d1.nameless = d.nameless
    BY <1>3, <1>5 DEF Unlinked, Marked
  <1>8. \A s \in TableIds : /\ d1.tabs[s].live = d.tabs[s].live /\ d1.tabs[s].refs = d.tabs[s].refs
                            /\ d1.tabs[s].deleted = d.tabs[s].deleted
                            /\ d1.tabs[s].name = d.tabs[s].name
    BY <1>3, <1>5 DEF Unlinked, SameTables
  <1>9. ASSUME NEW s \in TableIds \ {t} PROVE SameUse(d, d1, s)
    <2>1. \A h \in Hashes : d1.tabs[s].slot[h] = d.tabs[s].slot[h]
      BY <1>3, <1>5 DEF Unlinked, Cleared
    <2> QED BY <1>8, <2>1, SameSlots, SameUseKeys
  <1>10. Entries(d, t) # {} /\ KeyRef(d, t) = 1
    <2>1. e \in Entries(d, t)
      <3>1. KeyHash[d.ents[e].key] \in Hashes /\ e # Null
        BY <1>1, DbAssumption DEF Hashes
      <3> QED BY <1>1, <3>1 DEF Entries
    <2> QED BY <1>1, <2>1 DEF KeyRef, Unusable
  <1>11. CASE Entries(d1, t) # {}
    <2>1. r = d1
      BY <1>2, <1>11
    <2>2. SameUse(d, d1, t)
      BY <1>1, <1>8, <1>10, <1>11, SameUseKeys
    <2> QED BY <1>1, <1>6, <1>7, <1>9, <2>1, <2>2 DEF Emptied, r
  <1>12. CASE Entries(d1, t) = {}
    <2>1. r = d3
      BY <1>2, <1>12
    <2>2. d1.tabs[t].live /\ d1.tabs[t].refs > 1
      BY <1>1, <1>8 DEF Unusable
    <2>3. /\ d2 \in Db /\ d2.ents = d1.ents
          /\ d2.tables = [d1.tables EXCEPT ![d1.tabs[t].name] = Null]
          /\ (d2.nameless => d1.nameless \/ d1.tables[d1.tabs[t].name] = Null)
          /\ \A s \in TableIds : s # t => d2.tabs[s] = d1.tabs[s]
          /\ d2.tabs[t].live /\ d2.tabs[t].deleted /\ d2.tabs[t].refs = d1.tabs[t].refs - 1
      BY <1>1, <1>5, <2>2, DeleteTableShape
    <2> HIDE DEF d2
    <2>4. d3.tabs = d2.tabs /\ d3.tables = d2.tables
          /\ d3.nameless = d2.nameless /\ d3.ents[e].tab = Null
          /\ d3.ents[e].deleted = d2.ents[e].deleted
          /\ \A f \in EntryIds : /\ d3.ents[f].refs = d2.ents[f].refs
                                 /\ d3.ents[f].live = d2.ents[f].live
                                 /\ f # e => d3.ents[f].tab = d2.ents[f].tab
      <3>1. d2.ents \in [EntryIds -> Entry] /\ d2.ents[e] \in Entry
        BY <1>1, <2>3 DEF Db
      <3>2. d3.ents = [d2.ents EXCEPT ![e] = [d2.ents[e] EXCEPT !.tab = Null]]
            /\ d3.tabs = d2.tabs /\ d3.tables = d2.tables /\ d3.nameless = d2.nameless
        BY <2>3 DEF Db
      <3>3. d3.ents[e] = [d2.ents[e] EXCEPT !.tab = Null]
            /\ \A f \in EntryIds : f # e => d3.ents[f] = d2.ents[f]
        BY <1>1, <3>1, <3>2
      <3>4. LET y == [d2.ents[e] EXCEPT !.tab = Null]
            IN  y.tab = Null /\ y.refs = d2.ents[e].refs /\ y.live = d2.ents[e].live
                /\ y.deleted = d2.ents[e].deleted
        BY <3>1 DEF Entry
      <3> HIDE DEF d3
      <3> QED BY <3>2, <3>3, <3>4
    <2> HIDE DEF d3
    <2>5. ASSUME NEW s \in TableIds \ {t} PROVE SameUse(d, d3, s)
      <3>1. d3.tabs[s] = d1.tabs[s]
        BY <2>3, <2>4
      <3> QED BY <1>9, <3>1 DEF SameUse, KeyRef, Entries
    <2>6. d3.tabs[t].live /\ d3.tabs[t].deleted /\ d3.tabs[t].refs = d.tabs[t].refs - 1
          /\ d3.tables = [d.tables EXCEPT ![d.tabs[t].name] = Null]
          /\ (d3.nameless => d.nameless \/ d.tables[d.tabs[t].name] = Null)
      BY <1>1, <1>7, <1>8, <2>3, <2>4
    <2>7. \A f \in EntryIds : d3.ents[f].refs = d.ents[f].refs /\ d3.ents[f].live = d.ents[f].live
      BY <1>6, <2>3, <2>4
    <2>8. \A f \in EntryIds \ {e} : d3.ents[f].tab = d.ents[f].tab
      BY <1>6, <2>3, <2>4
    <2>9. d3.ents[e].deleted
      BY <1>7, <2>3, <2>4
    <2> QED BY <1>10, <2>1, <2>4, <2>5, <2>6, <2>7, <2>8, <2>9 DEF Emptied, r
  <1> QED BY <1>11, <1>12

\* A table that is deleted with its last key frees its own name only.
LEMMA EmptiedReach ==
    ASSUME NEW d \in Db, NEW r \in Db, NEW e, NEW t \in TableIds, ~ Unusable(d, t),
           Emptied(d, r, e, t), Reach(d)
    PROVE  Reach(r)
  <1> SUFFICES ASSUME Ttls = {}
               PROVE  ~ r.nameless /\ \A s \in TableIds : ~ Unusable(r, s) =>
                          r.tabs[s].name \in TableNames /\ r.tables[r.tabs[s].name] = s
    BY DEF Reach
  <1>1. d.tables \in [TableNames -> TableIds \cup {Null}]
    BY DEF Db
  <1>2. d.tabs[t].name \in TableNames /\ d.tables[d.tabs[t].name] = t /\ ~ d.nameless /\ t # Null
    BY DbAssumption DEF Reach
  <1>3. CASE SameUse(d, r, t) /\ r.tables = d.tables /\ r.nameless = d.nameless
    <2>1. \A s \in TableIds : SameUse(d, r, s)
      BY <1>3 DEF Emptied
    <2> QED BY <1>2, <1>3, <2>1 DEF Reach, SameUse, Unusable
  <1>4. CASE /\ r.tabs[t].deleted /\ r.tables = [d.tables EXCEPT ![d.tabs[t].name] = Null]
             /\ (r.nameless => d.nameless \/ d.tables[d.tabs[t].name] = Null)
    <2>1. ~ r.nameless
      BY <1>2, <1>4
    <2>2. ASSUME NEW s \in TableIds, ~ Unusable(r, s)
          PROVE  r.tabs[s].name \in TableNames /\ r.tables[r.tabs[s].name] = s
      <3>1. s # t
        BY <1>4, <2>2 DEF Unusable
      <3>2. SameUse(d, r, s)
        BY <3>1 DEF Emptied
      <3>3. r.tabs[s].name = d.tabs[s].name /\ d.tabs[s].name \in TableNames
            /\ d.tables[d.tabs[s].name] = s
        BY <2>2, <3>2 DEF Reach, SameUse, Unusable
      <3>4. d.tabs[s].name # d.tabs[t].name
        BY <1>2, <3>1, <3>3
      <3> QED BY <1>1, <1>2, <1>4, <3>3, <3>4
    <2> QED BY <2>1, <2>2
  <1> QED BY <1>3, <1>4 DEF Emptied

\* The same counts are the same to the users.
LEMMA UseStays ==
    ASSUME NEW d, NEW r, NEW S, NEW t, SameUse(d, r, t),
           \A e \in S : r.ents[e].tab = t <=> d.ents[e].tab = t
    PROVE  Stays(d, r, S, t)
  BY DEF Stays, SameUse, Rest

\* The deletion of a key in use, or of one that has expired.
LEMMA EmptiedTies ==
    ASSUME NEW d \in Db, NEW r \in Db, NEW e \in EntryIds, NEW t \in TableIds,
           ~ Unusable(d, t), d.ents[e].tab = t, Emptied(d, r, e, t), Shrinks(d, r),
           NEW S \in SUBSET EntryIds, e \in S \/ Ttls # {}
    PROVE  Ties(d, r, S)
  <1>1. ASSUME NEW s \in TableIds \ {t} PROVE Stays(d, r, S, s)
    <2>1. s # Null
      BY DbAssumption
    <2>2. \A f \in S : r.ents[f].tab = s <=> d.ents[f].tab = s
      BY <2>1 DEF Emptied
    <2> QED BY <2>2, UseStays DEF Emptied
  <1>2. Stays(d, r, S, t) \/ Ends(d, r, S, t)
    <2>1. CASE SameUse(d, r, t) /\ r.ents[e].tab = t
      <3>1. \A f \in S : r.ents[f].tab = t <=> d.ents[f].tab = t
        BY <2>1 DEF Emptied
      <3> QED BY <2>1, <3>1, UseStays
    <2>2. CASE /\ KeyRef(d, t) = 1 /\ r.tabs[t].live /\ r.tabs[t].deleted
               /\ r.tabs[t].refs = d.tabs[t].refs - 1 /\ r.ents[e].tab = Null
      <3>1. Rest(r, t) = Rest(d, t) /\ Rest(d, t) \in Int
        <4>1. KeyRef(r, t) = 0 /\ d.tabs[t].refs \in Int
          BY <2>2, RestType DEF KeyRef
        <4> QED BY <2>2, <4>1, RestType DEF Rest
      <3>2. \A f \in S : r.ents[f].tab = t => d.ents[f].tab = t
        BY <2>2, DbAssumption DEF Emptied
      <3>3. Spare = 0 \/ (e \in S /\ d.ents[e].tab = t /\ r.ents[e].tab # t)
        BY <2>2, DbAssumption, SpareType
      <3> QED BY <2>2, <3>1, <3>2, <3>3 DEF Ends, Unusable
    <2> QED BY <2>1, <2>2 DEF Emptied
  <1>3. Named(d) => Named(r)
    BY DEF Shrinks
  <1>4. Reach(d) => Reach(r)
    BY EmptiedReach
  <1> QED BY <1>1, <1>2, <1>3, <1>4 DEF Ties

\* The entries in use.
InUse(H) == {e \in EntryIds : H[e] > 0}

\* A table that is in use is counted more than once while it has a key.
LEMMA CountedTwice ==
    ASSUME NEW d, NEW H, NEW U, Sound(d, H, U), NEW k, Fine(d, k), NEW e \in Kept(d),
           U[d.ents[e].tab] > 0
    PROVE  d.tabs[d.ents[e].tab].refs > 1
  <1> DEFINE t == d.ents[e].tab
  <1>1. /\ e \in EntryIds /\ t \in TableIds /\ ~ Unusable(d, t)
        /\ d.ents[e].key \in Keys /\ d.tabs[t].slot[KeyHash[d.ents[e].key]] = e
    BY DEF Kept, Fine, AtHome
  <1>2. Entries(d, t) # {}
    <2>1. KeyHash[d.ents[e].key] \in Hashes /\ e # Null
      BY <1>1, DbAssumption DEF Hashes
    <2> QED BY <1>1, <2>1 DEF Entries
  <1>3. TableOK(d, U, t) /\ U[t] \in Nat /\ d.tabs[t].refs \in Int
    BY <1>1, DbFields DEF Sound, Base, TableUses
  <1> HIDE DEF t
  <1>4. d.tabs[t].refs >= U[t] + 1
    BY <1>1, <1>2, <1>3 DEF TableOK, Unusable
  <1> QED BY <1>3, <1>4 DEF t

\* db_entry_handle_delete.
LEMMA HandleDeleteTies ==
    ASSUME NEW d, NEW H, NEW U, Sound(d, H, U), Covered(d, H, U), NEW k, Fine(d, k),
           NEW e \in EntryIds, H[e] > 0
    PROVE  Ties(d, db_entry_handle_delete(d, e), InUse(H))
  <1> DEFINE r == db_entry_handle_delete(d, e)
             t == d.ents[e].tab
  <1>1. d \in Db /\ Shrinks(d, r) /\ r \in Db
    <2>1. d \in Db
      BY DEF Fine
    <2> QED BY <2>1, HandleDeleteShrinks DEF Shrinks
  <1>2. CASE e \in Kept(d)
    <2>1. t \in TableIds /\ ~ Unusable(d, t) /\ t # Null
      BY <1>2, DbAssumption DEF Fine, AtHome
    <2>2. U[t] > 0
      BY <2>1 DEF Covered
    <2>3. Emptied(d, r, e, t)
      BY <1>2, <2>2, CountedTwice, DeletionShape
    <2>4. InUse(H) \in SUBSET EntryIds /\ e \in InUse(H)
      BY DEF InUse
    <2> HIDE DEF r
    <2> QED BY <1>1, <2>1, <2>3, <2>4, EmptiedTies DEF r
  <1>3. CASE e \notin Kept(d)
    <2>1. d.ents[e].deleted \/ t = Null
      <3>1. EntryOK(d, H, e) /\ d.ents[e].deleted \in BOOLEAN
        BY <1>1, DbFields DEF Sound, Base
      <3> QED BY <1>3, <3>1 DEF EntryOK, Kept
    <2>2. \E what \in Faults : r = Fault(d, what)
      <3>1. r = Fault(d, "null table") \/ r = Fault(d, "destroyed hash set")
            \/ r = Fault(d, "freed table") \/ r = Fault(d, "deleted twice")
        BY <2>1 DEF db_entry_handle_delete, Misused
      <3> HIDE DEF r
      <3> QED BY Zenon, <3>1 DEF Faults
    <2>3. r.tabs = d.tabs /\ r.tables = d.tables /\ r.nameless = d.nameless /\ r.ents = d.ents
      BY <1>1, <2>2 DEF Fault, Db
    <2> HIDE DEF r
    <2> QED BY <2>3, SameTabsTie DEF r
  <1> QED BY <1>2, <1>3

\* Table t of r has one reference less than in d, or was freed with the last one.
Released(d, r, t) ==
    /\ \A s \in TableIds \ {t} : r.tabs[s] = d.tabs[s]
    /\ \/ /\ d.tabs[t].refs = 1 /\ d.tabs[t].deleted /\ ~ r.tabs[t].live
          /\ r.tables = [d.tables EXCEPT ![d.tabs[t].name] = Null]
       \/ /\ ~ (d.tabs[t].refs = 1 /\ d.tabs[t].deleted)
          /\ r.tabs[t].live /\ r.tabs[t].deleted = d.tabs[t].deleted
          /\ r.tabs[t].name = d.tabs[t].name /\ r.tabs[t].slot = d.tabs[t].slot
          /\ r.tabs[t].refs = d.tabs[t].refs - 1 /\ r.tables = d.tables /\ r.nameless = d.nameless

\* db_table_deref of a table in memory.
LEMMA TableDerefShape ==
    ASSUME NEW d \in Db, NEW t \in TableIds, d.tabs[t].live
    PROVE  LET r == db_table_deref(d, t, FALSE)
           IN  Released(d, r, t) /\ r.ents = d.ents /\ r \in Db
  <1> DEFINE r == db_table_deref(d, t, FALSE)
             n == d.tabs[t].refs - 1
             q == [d EXCEPT !.tabs[t].refs = n]
  <1>1. d.tabs[t].refs \in Int /\ n \in Int /\ d.tabs \in [TableIds -> Table]
    BY DbFields DEF Db
  <1>2. /\ q \in Db /\ q.ents = d.ents
        /\ \A s \in TableIds : s # t => q.tabs[s] = d.tabs[s]
        /\ q.tabs[t].live = d.tabs[t].live /\ q.tabs[t].name = d.tabs[t].name
        /\ q.tabs[t].deleted = d.tabs[t].deleted /\ q.tabs[t].slot = d.tabs[t].slot
        /\ q.tabs[t].refs = n
    <2>1. n \in Int
      BY <1>1
    <2> HIDE DEF n
    <2> QED BY <2>1 DEF Db, Table
  <1>3. q.tables = d.tables /\ q.nameless = d.nameless
    BY DEF Db
  <1>4. r = IF q.tabs[t].refs = 0 /\ (FALSE \/ q.tabs[t].deleted)
            THEN db_table_actually_delete(q, t) ELSE q
    BY DEF db_table_deref
  <1>5. n = 0 <=> d.tabs[t].refs = 1
    BY <1>1
  <1>6. r \in Db
    BY TableDerefShrinks DEF Shrinks
  <1> HIDE DEF q, n
  <1>7. CASE n = 0 /\ d.tabs[t].deleted
    <2>1. r = db_table_actually_delete(q, t)
      BY <1>2, <1>4, <1>7
    <2>2. r.ents = q.ents /\ r.tables = [q.tables EXCEPT ![q.tabs[t].name] = Null]
          /\ r.tabs = [q.tabs EXCEPT ![t] = DeadTable]
      BY <1>2, <2>1 DEF db_table_actually_delete, Db
    <2>3. r.tabs[t] = DeadTable /\ \A s \in TableIds : s # t => r.tabs[s] = q.tabs[s]
      <3>1. DOMAIN q.tabs = TableIds
        BY <1>2 DEF Db
      <3> HIDE DEF r
      <3> QED BY <2>2, <3>1
    <2> HIDE DEF r
    <2>4. ~ r.tabs[t].live
      BY <2>3 DEF DeadTable
    <2> QED BY <1>2, <1>3, <1>5, <1>6, <1>7, <2>2, <2>3, <2>4 DEF Released, r
  <1>8. CASE ~ (n = 0 /\ d.tabs[t].deleted)
    <2>1. r = q
      BY <1>2, <1>4, <1>8
    <2> HIDE DEF r
    <2> QED BY <1>2, <1>3, <1>5, <1>6, <1>8, <2>1 DEF Released, r, n
  <1> QED BY <1>7, <1>8

\* r is d without a reference of entry e and, if b, of its table.
DerefdEntry(d, r, e, b) ==
    /\ r \in Db
    /\ IF b /\ d.ents[e].tab # Null THEN Released(d, r, d.ents[e].tab)
       ELSE r.tabs = d.tabs /\ r.tables = d.tables /\ r.nameless = d.nameless
    /\ \A f \in EntryIds \ {e} : r.ents[f] = d.ents[f]
    /\ \/ r.ents[e].tab = d.ents[e].tab /\ r.ents[e].live = d.ents[e].live
          /\ r.ents[e].deleted = d.ents[e].deleted
       \/ d.ents[e].deleted /\ d.ents[e].refs = 1 /\ ~ r.ents[e].live
          /\ r.ents[e].tab = Null

\* db_entry_deref: the entry is freed with its last reference, the reference
\* of its table is given back when it has one.
LEMMA EntryDerefShape ==
    ASSUME NEW d \in Db, NEW e \in EntryIds, NEW b \in BOOLEAN,
           d.ents[e].tab # Null /\ b => d.tabs[d.ents[e].tab].live
    PROVE  DerefdEntry(d, db_entry_deref(d, e, b), e, b)
  <1> DEFINE t  == d.ents[e].tab
             r  == db_entry_deref(d, e, b)
             n  == d.ents[e].refs - 1
             d1 == WithRefs(d, e, n)
             d2 == IF b /\ t # Null THEN db_table_deref(d1, t, FALSE) ELSE d1
             d3 == db_entry_actually_delete(d2, e)
  <1>1. r = IF d2.ents[e].refs = 0 /\ d2.ents[e].deleted THEN d3 ELSE d2
    BY DEF db_entry_deref, WithRefs
  <1>2. n \in Int /\ t \in TableIds \cup {Null} /\ d.ents[e].refs \in Int
    BY DbFields
  <1>3. /\ d1 \in Db /\ d1.tabs = d.tabs
        /\ ButRefs(d, d1) /\ d1.ents[e].refs = n /\ d1.tables = d.tables
        /\ d1.nameless = d.nameless
        /\ \A f \in EntryIds : f # e => d1.ents[f].refs = d.ents[f].refs
    <2> HIDE DEF n
    <2>1. WithRefs(d, e, n).tables = d.tables /\ WithRefs(d, e, n).nameless = d.nameless
      BY DEF WithRefs, Db
    <2> QED BY <1>2, <2>1, SetRefs
  <1>4. \A f \in EntryIds \ {e} : d1.ents[f] = d.ents[f]
    BY DEF WithRefs, Db
  <1> HIDE DEF d1
  <1>5. /\ d2 \in Db /\ d2.ents = d1.ents
        /\ IF b /\ t # Null THEN Released(d, d2, t) ELSE d2.tabs = d.tabs /\ d2.tables = d.tables
           /\ d2.nameless = d.nameless
    <2>1. CASE b /\ t # Null
      <3>1. t \in TableIds /\ d1.tabs[t].live
        BY <1>2, <1>3, <2>1
      <3>2. Released(d1, db_table_deref(d1, t, FALSE), t)
            /\ db_table_deref(d1, t, FALSE).ents = d1.ents /\ db_table_deref(d1, t, FALSE) \in Db
        BY <1>3, <3>1, TableDerefShape
      <3>3. d2 = db_table_deref(d1, t, FALSE)
        BY <2>1
      <3> HIDE DEF d2
      <3>4. Released(d, d2, t)
        BY <1>3, <3>2, <3>3 DEF Released
      <3> QED BY <2>1, <3>2, <3>3, <3>4
    <2>2. CASE ~ (b /\ t # Null)
      BY <1>3, <2>2
    <2> QED BY <2>1, <2>2
  <1> HIDE DEF d2
  <1>6. d2.ents[e].refs = n /\ d2.ents[e].deleted = d.ents[e].deleted
        /\ d2.ents[e].tab = t /\ d2.ents[e].live = d.ents[e].live
        /\ \A f \in EntryIds \ {e} : d2.ents[f] = d.ents[f]
    BY <1>3, <1>4, <1>5 DEF ButRefs
  <1>7. CASE d2.ents[e].refs = 0 /\ d2.ents[e].deleted
    <2>1. e \notin Kept(d2)
      BY <1>7 DEF Kept
    <2>2. /\ d3.tabs = d2.tabs /\ d3.tables = d2.tables
          /\ d3.nameless = d2.nameless /\ ~ d3.ents[e].live /\ d3 \in Db
          /\ \A f \in EntryIds : f # e => d3.ents[f] = d2.ents[f]
      BY <1>5, <2>1, FreeAlike DEF Alike
    <2>3. d3.ents[e].tab = Null
      BY <1>5 DEF db_entry_actually_delete, Orphan, DeadEntry, Db
    <2>4. r = d3
      BY <1>1, <1>7
    <2> HIDE DEF r, d3
    <2>5. IF b /\ t # Null THEN Released(d, r, t) ELSE r.tabs = d.tabs /\ r.tables = d.tables
             /\ r.nameless = d.nameless
      BY <1>5, <2>2, <2>4 DEF Released
    <2>6. d.ents[e].refs = 1 /\ d.ents[e].deleted
      BY <1>2, <1>6, <1>7
    <2>7. \A f \in EntryIds \ {e} : r.ents[f] = d.ents[f]
      BY <1>6, <2>2, <2>4
    <2> QED BY <2>2, <2>3, <2>4, <2>5, <2>6, <2>7 DEF r, DerefdEntry
  <1>8. CASE ~ (d2.ents[e].refs = 0 /\ d2.ents[e].deleted)
    <2>1. r = d2
      BY <1>1, <1>8
    <2> HIDE DEF r
    <2> QED BY <1>5, <1>6, <2>1 DEF r, DerefdEntry
  <1> QED BY <1>7, <1>8

\* The counts of tables are all that changes.
LEMMA SameNames ==
    ASSUME NEW d, NEW r, r.tables = d.tables, r.nameless = d.nameless,
           \A t \in TableIds : /\ r.tabs[t].live = d.tabs[t].live
                               /\ r.tabs[t].deleted = d.tabs[t].deleted
                               /\ r.tabs[t].name = d.tabs[t].name
    PROVE  Reach(d) => Reach(r)
  BY DEF Reach, Unusable

\* db_entry_incref with the table of the entry.
LEMMA IncrefShape ==
    ASSUME NEW d \in Db, NEW e \in EntryIds, NEW t \in TableIds, t = d.ents[e].tab
    PROVE  LET r == db_entry_incref(d, e, TRUE)
           IN  /\ r \in Db /\ r.tables = d.tables
               /\ r.nameless = d.nameless /\ r.tabs[t].refs = d.tabs[t].refs + 1
               /\ \A s \in TableIds : /\ s # t => r.tabs[s] = d.tabs[s]
                                      /\ r.tabs[s].live = d.tabs[s].live
                                      /\ r.tabs[s].deleted = d.tabs[s].deleted
                                      /\ r.tabs[s].name = d.tabs[s].name
                                      /\ r.tabs[s].slot = d.tabs[s].slot
               /\ r.ents[e].refs = d.ents[e].refs + 1
               /\ \A f \in EntryIds : r.ents[f].tab = d.ents[f].tab
  <1> DEFINE n  == d.ents[e].refs + 1
             d1 == WithRefs(d, e, n)
             m  == d1.tabs[t].refs + 1
             d2 == [d1 EXCEPT !.tabs[t].refs = m]
  <1>1. n \in Int
    BY DbFields
  <1>2. db_entry_incref(d, e, TRUE) = d2
    BY DEF db_entry_incref, WithRefs, db_table_incref
  <1>3. /\ d1 \in Db /\ d1.tabs = d.tabs /\ ButRefs(d, d1) /\ d1.ents[e].refs = n
        /\ d1.tables = d.tables /\ d1.nameless = d.nameless
    <2> HIDE DEF n
    <2>1. WithRefs(d, e, n).tables = d.tables /\ WithRefs(d, e, n).nameless = d.nameless
      BY DEF WithRefs, Db
    <2> QED BY <1>1, <2>1, SetRefs
  <1> HIDE DEF d1, n
  <1>4. m \in Int /\ m = d.tabs[t].refs + 1
    BY <1>3, DbFields
  <1> HIDE DEF m
  <1>5. /\ d2 \in Db /\ d2.ents = d1.ents
        /\ \A s \in TableIds : s # t => d2.tabs[s] = d1.tabs[s]
        /\ d2.tabs[t].live = d1.tabs[t].live /\ d2.tabs[t].name = d1.tabs[t].name
        /\ d2.tabs[t].deleted = d1.tabs[t].deleted /\ d2.tabs[t].slot = d1.tabs[t].slot
        /\ d2.tabs[t].refs = m
    BY <1>3, <1>4, SetTableRefs
  <1>6. d2.tables = d1.tables /\ d2.nameless = d1.nameless
    BY <1>3 DEF Db
  <1> HIDE DEF d2
  <1> QED BY <1>2, <1>3, <1>4, <1>5, <1>6 DEF ButRefs, n

\* The eviction of a key nobody uses.
LEMMA UnusedEvictTies ==
    ASSUME NEW d, NEW H, NEW U, Sound(d, H, U), NEW k, Fine(d, k), NEW e \in Kept(d),
           H[e] = 0
    PROVE  Ties(d, Evict(d, e), InUse(H))
  <1> DEFINE t  == d.ents[e].tab
             d1 == db_entry_incref(d, e, TRUE)
             d2 == db_entry_handle_delete(d1, e)
             d3 == db_entry_deref(d2, e, TRUE)
  <1>1. /\ d \in Db /\ e \in EntryIds /\ t \in TableIds /\ t # Null /\ ~ Unusable(d, t)
        /\ d.ents[e].key \in Keys /\ d.tabs[t].slot[KeyHash[d.ents[e].key]] = e
    BY DbAssumption DEF Kept, Fine, AtHome
  <1>2. d.ents[e].refs = 0 /\ Evict(d, e) = d3
    <2>1. d.ents[e].refs = 0
      BY <1>1 DEF Sound, Base, EntryOK
    <2> QED BY <2>1 DEF Evict
  <1>3. Shrinks(d, d3)
    BY <1>1, <1>2, EvictShrinks
  <1>4. d.tabs[t].refs \in Int /\ d.tabs[t].refs >= 1 /\ KeyRef(d, t) = 1
    <2>1. Entries(d, t) # {}
      <3>1. KeyHash[d.ents[e].key] \in Hashes /\ e # Null
        BY <1>1, DbAssumption DEF Hashes
      <3> QED BY <1>1, <3>1 DEF Entries
    <2>2. TableOK(d, U, t) /\ U[t] \in Nat /\ d.tabs[t].refs \in Int
      BY <1>1, DbFields DEF Sound, Base, TableUses
    <2>3. d.tabs[t].refs >= U[t] + 1
      BY <1>1, <2>1, <2>2 DEF TableOK, Unusable
    <2> QED BY <1>1, <2>1, <2>2, <2>3 DEF KeyRef, Unusable
  <1> HIDE DEF t
  <1>5. /\ d1 \in Db /\ d1.tables = d.tables
        /\ d1.nameless = d.nameless /\ d1.tabs[t].refs = d.tabs[t].refs + 1
        /\ \A s \in TableIds : /\ s # t => d1.tabs[s] = d.tabs[s]
                               /\ d1.tabs[s].live = d.tabs[s].live
                               /\ d1.tabs[s].deleted = d.tabs[s].deleted
                               /\ d1.tabs[s].name = d.tabs[s].name
                               /\ d1.tabs[s].slot = d.tabs[s].slot
        /\ d1.ents[e].refs = d.ents[e].refs + 1
        /\ \A f \in EntryIds : d1.ents[f].tab = d.ents[f].tab
    BY <1>1, IncrefShape DEF t
  <1>6. Fine(d1, k) /\ e \in Kept(d1)
    <2>1. Alike(d, d1)
      BY <1>1, IncrefAlike
    <2> HIDE DEF d1
    <2> QED BY <2>1, AlikeFine DEF Alike
  <1> HIDE DEF d1
  <1>7. \A s \in TableIds : KeyRef(d1, s) = KeyRef(d, s)
    BY <1>5 DEF KeyRef, Entries
  <1>8. d1.ents[e].refs = 1 /\ d1.tabs[t].refs > 1 /\ t = d1.ents[e].tab
    BY <1>1, <1>2, <1>4, <1>5 DEF t
  <1>9. Emptied(d1, d2, e, t)
    BY <1>6, <1>8, DeletionShape
  <1>10. d2 \in Db
    BY <1>1, <1>5, HandleDeleteShrinks DEF Shrinks
  <1> HIDE DEF d2
  <1>11. d2.ents[e].refs = 1 /\ d2.ents[e].deleted
         /\ \A f \in EntryIds \ {e} : d2.ents[f].tab = d.ents[f].tab
    <2>1. /\ d2.ents[e].deleted /\ \A f \in EntryIds : d2.ents[f].refs = d1.ents[f].refs
          /\ \A f \in EntryIds \ {e} : d2.ents[f].tab = d1.ents[f].tab
      BY <1>9 DEF Emptied
    <2>2. \A f \in EntryIds : d1.ents[f].tab = d.ents[f].tab
      BY <1>5
    <2> QED BY <1>1, <1>8, <2>1, <2>2
  <1>12. d2.ents[e].tab # Null => d2.ents[e].tab = t /\ d2.tabs[t].live
    <2>1. \/ SameUse(d1, d2, t) /\ d2.ents[e].tab = t
          \/ d2.ents[e].tab = Null
      BY <1>9 DEF Emptied
    <2>2. d1.tabs[t].live
      BY <1>1, <1>5 DEF Unusable
    <2> QED BY <2>1, <2>2 DEF SameUse
  <1>13. /\ IF d2.ents[e].tab # Null THEN Released(d2, d3, t)
            ELSE d3.tabs = d2.tabs /\ d3.tables = d2.tables /\ d3.nameless = d2.nameless
         /\ \A f \in EntryIds \ {e} : d3.ents[f].tab = d.ents[f].tab
    <2>1. d2.ents[e].tab # Null => d2.tabs[d2.ents[e].tab].live
      BY <1>12
    <2>2. DerefdEntry(d2, d3, e, TRUE)
      BY <1>1, <1>10, <2>1, EntryDerefShape
    <2> HIDE DEF d3
    <2> QED BY <1>11, <1>12, <2>2 DEF DerefdEntry
  <1> HIDE DEF d3
  <1>14. e \notin InUse(H)
    BY DEF InUse
  <1>15. \A s \in TableIds, f \in InUse(H) : d3.ents[f].tab = s <=> d.ents[f].tab = s
    BY <1>13, <1>14 DEF InUse
  <1>16. ASSUME NEW s \in TableIds \ {t} PROVE Stays(d, d3, InUse(H), s)
    <2>1. d3.tabs[s] = d2.tabs[s] /\ SameUse(d1, d2, s) /\ d1.tabs[s] = d.tabs[s]
      BY <1>1, <1>5, <1>9, <1>13 DEF Emptied, Released
    <2>2. KeyRef(d3, s) = KeyRef(d2, s)
      BY <2>1 DEF KeyRef, Entries
    <2>3. Rest(d3, s) = Rest(d, s)
      BY <1>7, <2>1, <2>2 DEF SameUse, Rest
    <2> QED BY <1>15, <2>1, <2>3 DEF Stays, SameUse
  <1>17. CASE SameUse(d1, d2, t) /\ d2.tables = d1.tables
              /\ d2.nameless = d1.nameless /\ d2.ents[e].tab = t
    <2>1. Released(d2, d3, t) /\ ~ d2.tabs[t].deleted /\ d2.tabs[t].refs = d.tabs[t].refs + 1
      BY <1>1, <1>5, <1>13, <1>17 DEF SameUse, Unusable
    <2>2. /\ d3.tabs[t].live /\ d3.tabs[t].deleted = d.tabs[t].deleted /\ d3.tables = d.tables
          /\ d3.nameless = d.nameless
          /\ d3.tabs[t].slot = d2.tabs[t].slot /\ d3.tabs[t].refs = d2.tabs[t].refs - 1
          /\ d3.tabs[t].name = d.tabs[t].name /\ d.tabs[t].live
      BY <1>1, <1>5, <1>17, <2>1 DEF Released, SameUse, Unusable
    <2>3. KeyRef(d3, t) = KeyRef(d2, t)
      BY <1>1, <2>1, <2>2 DEF KeyRef, Entries, Unusable
    <2>4. Rest(d3, t) = Rest(d, t)
      BY <1>1, <1>4, <1>7, <1>17, <2>1, <2>2, <2>3 DEF SameUse, Rest
    <2>5. Stays(d, d3, InUse(H), t)
      BY <1>1, <1>15, <2>2, <2>4 DEF Stays
    <2>6. Reach(d) => Reach(d3)
      <3>1. ASSUME NEW s \in TableIds PROVE d3.tabs[s].live = d.tabs[s].live
              /\ d3.tabs[s].deleted = d.tabs[s].deleted /\ d3.tabs[s].name = d.tabs[s].name
        <4>1. CASE s = t
          BY <2>2, <4>1
        <4>2. CASE s # t
          BY <1>5, <1>9, <2>1, <4>2 DEF Released, Emptied, SameUse
        <4> QED BY <4>1, <4>2
      <3> QED BY <2>2, <3>1, SameNames
    <2> QED BY <1>3, <1>16, <2>5, <2>6, <1>2 DEF Ties, Shrinks
  <1>18. CASE /\ d2.tabs[t].live /\ d2.tabs[t].deleted /\ d2.ents[e].tab = Null
              /\ d2.tabs[t].refs = d1.tabs[t].refs - 1
    <2>1. d3.tabs = d2.tabs /\ d3.tables = d2.tables /\ d3.nameless = d2.nameless
      BY <1>13, <1>18
    <2>2. KeyRef(d3, t) = 0 /\ d3.tabs[t].refs = d.tabs[t].refs
      BY <1>4, <1>5, <1>18, <2>1 DEF KeyRef
    <2>3. Rest(d3, t) >= Rest(d, t) + Spare
      BY <1>4, <2>2, SpareType DEF Rest
    <2>4. Rest(d, t) \in Int /\ Rest(d3, t) >= Rest(d, t)
      BY <1>4, <2>2 DEF Rest
    <2>5. Ends(d, d3, InUse(H), t)
      BY <1>1, <1>15, <1>18, <2>1, <2>3, <2>4 DEF Ends, Unusable
    <2>6. Reach(d) => Reach(d3)
      <3>1. Reach(d) => Reach(d1)
        BY <1>5, SameNames
      <3>2. ~ Unusable(d1, t)
        BY <1>1, <1>5 DEF Unusable
      <3>3. Reach(d1) => Reach(d2)
        BY <1>1, <1>5, <1>9, <1>10, <3>2, EmptiedReach
      <3>4. Reach(d2) => Reach(d3)
        BY <2>1, SameNames
      <3> QED BY <3>1, <3>3, <3>4
    <2> QED BY <1>2, <1>3, <1>16, <2>5, <2>6 DEF Ties, Shrinks
  <1> QED BY <1>9, <1>17, <1>18 DEF Emptied

\* Evict.
LEMMA EvictTies ==
    ASSUME NEW d, NEW H, NEW U, Sound(d, H, U), Covered(d, H, U), NEW k, Fine(d, k),
           NEW e \in Kept(d)
    PROVE  Ties(d, Evict(d, e), InUse(H))
  <1>1. e \in EntryIds /\ H[e] \in Nat /\ d.ents[e].refs = H[e]
    BY DEF Kept, Sound, Base, EntryOK, Counts
  <1>2. CASE H[e] = 0
    BY <1>2, UnusedEvictTies
  <1>3. CASE H[e] # 0
    <2>1. H[e] > 0 /\ Evict(d, e) = db_entry_handle_delete(d, e)
      BY <1>1, <1>3 DEF Evict
    <2> QED BY <1>1, <2>1, HandleDeleteTies
  <1> QED BY <1>2, <1>3

\* Where a loop that evicts keys is.
Evicting(d, q, H, U, k) ==
    /\ q \in Db /\ Sound(q, H, U) /\ Covered(q, H, U) /\ Fine(q, k) /\ Ties(d, q, InUse(H))

\* It starts.
LEMMA EvictingStarts ==
    ASSUME NEW d, NEW H, NEW U, Sound(d, H, U), Covered(d, H, U), NEW k, Fine(d, k)
    PROVE  Evicting(d, d, H, U, k)
  <1>1. d \in Db
    BY DEF Fine
  <1>2. Ties(d, d, InUse(H))
    BY SameTabsTie
  <1> QED BY <1>1, <1>2 DEF Evicting

\* It evicts one more key.
LEMMA EvictingMore ==
    ASSUME NEW d \in Db, NEW q, NEW H, NEW U, NEW k, Evicting(d, q, H, U, k), NEW e \in Kept(q)
    PROVE  Evicting(d, Evict(q, e), H, U, k) /\ Kept(Evict(q, e)) = Kept(q) \ {e}
  <1> DEFINE r == Evict(q, e)
  <1>1. e \in EntryIds
    BY DEF Kept
  <1>2. Without(q, r, k, e)
    BY EvictFine DEF Evicting
  <1>3. Sound(r, H, U) /\ Keeps(q, r, H)
    BY <1>1, EvictSound DEF Evicting
  <1>4. Ties(q, r, InUse(H))
    BY EvictTies DEF Evicting
  <1> HIDE DEF r
  <1>5. Covered(r, H, U)
    BY <1>3, KeepsCovered DEF Evicting
  <1>6. r \in Db /\ Fine(r, k)
    BY <1>2 DEF Without, Fine
  <1>7. Ties(d, r, InUse(H))
    BY <1>4, <1>6, TiesTrans DEF Evicting
  <1> QED BY <1>2, <1>3, <1>5, <1>6, <1>7 DEF Evicting, Without, r

\* db_expire_cursor.
LEMMA ExpireTies ==
    ASSUME NEW d, NEW H, NEW U, Sound(d, H, U), Covered(d, H, U), NEW k, Fine(d, k), NEW time
    PROVE  Evicting(d, db_expire_cursor(d, time), H, U, k)
  <1> DEFINE S == {e \in Indexed(d) : Expired(d, e, time)}
             r == FoldSet(LAMBDA e, acc : Evict(acc, e), d, S)
             G(s) == {a \in Db : Evicting(d, a, H, U, k) /\ Kept(a) = Kept(d) \ s}
             Q == [s \in SUBSET S |-> G(s)]
  <1>1. S \subseteq Kept(d) /\ S \in SUBSET EntryIds /\ d \in Db
    BY IndexedKept DEF Kept, Fine
  <1>2. db_expire_cursor(d, time) = r
    BY DEF db_expire_cursor
  <1> HIDE DEF S
  <1>3. PICK g : /\ FoldSet(LAMBDA e, acc : Evict(acc, e), d, S) = g[S]
                 /\ g[{}] = d
                 /\ \A s \in SUBSET S : s # {} => g[s] = Evict(g[s \ {Pick(s)}], Pick(s))
    BY <1>1, EvictFold
  <1>4. r = g[S]
    BY <1>3
  <1> HIDE DEF r
  <1>5. g[{}] \in Q[{}]
    BY <1>1, <1>3, EvictingStarts
  <1>6. ASSUME NEW s \in SUBSET S, s # {}, g[s \ {Pick(s)}] \in Q[s \ {Pick(s)}] PROVE g[s] \in Q[s]
    <2> DEFINE e == Pick(s)
               a == g[s \ {e}]
               b == Evict(a, e)
    <2>1. e \in s /\ s \ {e} \in SUBSET S
      BY <1>6, PickIn
    <2>2. g[s] = b
      BY <1>3, <1>6
    <2>3. Evicting(d, a, H, U, k) /\ Kept(a) = Kept(d) \ (s \ {e})
      BY <1>6, <2>1
    <2> HIDE DEF e, a
    <2>4. e \in Kept(a)
      BY <1>1, <2>1, <2>3
    <2>5. Evicting(d, b, H, U, k) /\ Kept(b) = Kept(a) \ {e}
      BY <1>1, <2>3, <2>4, EvictingMore
    <2> HIDE DEF b
    <2>6. Kept(b) = Kept(d) \ s /\ b \in Db
      BY <2>1, <2>3, <2>5 DEF Evicting
    <2> QED BY <2>2, <2>5, <2>6
  <1>7. g[S] \in Q[S]
    <2> HIDE DEF Q
    <2> QED BY <1>1, <1>5, <1>6, Stages
  <1> QED BY <1>2, <1>4, <1>7

\* db_lru_cleanup_percent.
LEMMA CleanupTies ==
    ASSUME NEW d, NEW H, NEW U, Sound(d, H, U), Covered(d, H, U), NEW k, Fine(d, k),
           NEW bytes \in Int
    PROVE  Evicting(d, db_lru_cleanup_percent(d, bytes), H, U, k)
  <1> DEFINE Good == {a \in [d : Db, bytes : Int] : Evicting(d, a.d, H, U, k)}
             base == [d |-> d, bytes |-> bytes]
             r == FoldSet(LAMBDA i, acc : CleanupHead(acc), base, EntryIds)
  <1>1. db_lru_cleanup_percent(d, bytes) = r.d
    BY DEF db_lru_cleanup_percent
  <1>2. d \in Db
    BY DEF Fine
  <1>3. base \in Good
    BY <1>2, EvictingStarts
  <1>4. ASSUME NEW a \in Good PROVE CleanupHead(a) \in Good
    <2> DEFINE l == a.d.lru_head
               q == Evict(a.d, l)
               m == a.bytes - a.d.ents[l].len
    <2>1. a \in [d : Db, bytes : Int] /\ a.d \in Db /\ Evicting(d, a.d, H, U, k) /\ Fine(a.d, k)
      BY DEF Evicting
    <2>2. CASE l = Null \/ a.bytes <= 0
      BY <2>2 DEF CleanupHead
    <2>3. CASE l # Null /\ ~ (a.bytes <= 0)
      <3>1. l \in Complete(a.d)
        BY <2>1, <2>3, HeadComplete
      <3>2. l \in Kept(a.d) /\ ~ a.d.ents[l].writing /\ ~ a.d.ents[l].deleted /\ l \in EntryIds
        BY <3>1 DEF Complete, Kept
      <3>3. CleanupHead(a) = [d |-> q, bytes |-> m]
        BY <2>3, <3>2 DEF CleanupHead
      <3>4. Evicting(d, q, H, U, k) /\ q \in Db
        BY <1>2, <2>1, <3>2, EvictingMore DEF Evicting
      <3>5. m \in Int
        BY <2>1, <3>2, DbFields
      <3> HIDE DEF q, m
      <3> QED BY <3>3, <3>4, <3>5
    <2> QED BY <2>2, <2>3
  <1>5. r \in Good
    <2> HIDE DEF Good, base
    <2> QED BY <1>3, <1>4, DbAssumption, CleanupLoop
  <1> QED BY <1>1, <1>5

\* db_lru_gc.
LEMMA GcTies ==
    ASSUME NEW d, NEW H, NEW U, Sound(d, H, U), Covered(d, H, U), NEW k, Fine(d, k), NEW time
    PROVE  Ties(d, db_lru_gc(d, time), InUse(H))
  <1> DEFINE d1 == db_expire_cursor(d, time)
             b  == (d1.size - MaxSize) + ClearSize
             d2 == db_lru_cleanup_percent(d1, b)
  <1>1. Evicting(d, d1, H, U, k)
    BY ExpireTies
  <1>2. db_lru_gc(d, time) = IF MaxSize > 0 /\ MaxSize < d.size /\ MaxSize <= d1.size THEN d2 ELSE d1
    BY DEF db_lru_gc
  <1> HIDE DEF d1
  <1>3. b \in Int /\ d \in Db /\ d1 \in Db
    BY <1>1, DbAssumption DEF Evicting, Fine, Db
  <1> HIDE DEF b
  <1>4. Evicting(d1, d2, H, U, k)
    BY <1>1, <1>3, CleanupTies DEF Evicting
  <1> HIDE DEF d2
  <1>5. Ties(d, d2, InUse(H))
    BY <1>1, <1>3, <1>4, TiesTrans DEF Evicting
  <1> QED BY <1>1, <1>2, <1>5 DEF Evicting

\* From d to q an entry e of table t is handed out, whose users are the same.
Hands(d, q, S, e, t) ==
    \E m \in Db : /\ Ties(d, m, S) /\ \A s \in TableIds : Stays(d, m, S, s)
                  /\ m.ents[e].tab = t /\ Ties(m, q, S \cup {e})

\* A look-up hands out an entry, or finds none.
GivesOut(d, q, S, t) ==
    /\ q.ret = Null => Ties(d, q.db, S)
    /\ q.ret # Null => Hands(d, q.db, S, q.ret, t)

\* Tables stay as they are.
LEMMA SameHands ==
    ASSUME NEW d, NEW r \in Db, NEW S, r.tabs = d.tabs, r.tables = d.tables,
           r.nameless = d.nameless,
           \A f \in S : r.ents[f].tab = d.ents[f].tab, NEW e, NEW t, r.ents[e].tab = t
    PROVE  Hands(d, r, S, e, t)
  <1>1. Ties(d, r, S) /\ \A s \in TableIds : Stays(d, r, S, s)
    BY SameTabsTie
  <1>2. Ties(r, r, S \cup {e})
    BY SameTabsTie
  <1> QED BY <1>1, <1>2 DEF Hands

\* db_entry_incref without the table.
LEMMA IncrefOnly ==
    ASSUME NEW d \in Db, NEW e \in EntryIds
    PROVE  LET r == db_entry_incref(d, e, FALSE)
           IN  /\ r \in Db /\ r.tabs = d.tabs /\ r.tables = d.tables /\ r.nameless = d.nameless
               /\ r.ents[e].refs = d.ents[e].refs + 1
               /\ \A f \in EntryIds : r.ents[f].tab = d.ents[f].tab
               /\ \A f \in EntryIds : f # e => r.ents[f].refs = d.ents[f].refs
  <1> DEFINE n == d.ents[e].refs + 1
  <1>1. n \in Int
    BY DbFields
  <1>2. db_entry_incref(d, e, FALSE) = WithRefs(d, e, n)
    BY DEF db_entry_incref, WithRefs
  <1> HIDE DEF n
  <1>3. WithRefs(d, e, n).tables = d.tables /\ WithRefs(d, e, n).nameless = d.nameless
    BY DEF WithRefs, Db
  <1>4. /\ WithRefs(d, e, n) \in Db /\ WithRefs(d, e, n).tabs = d.tabs
        /\ ButRefs(d, WithRefs(d, e, n)) /\ WithRefs(d, e, n).ents[e].refs = n
        /\ \A f \in EntryIds : f # e => WithRefs(d, e, n).ents[f].refs = d.ents[f].refs
    BY <1>1, SetRefs
  <1> QED BY <1>2, <1>3, <1>4 DEF ButRefs, n

\* An expired key is deleted on the way.
LEMMA ExpiredTies ==
    ASSUME NEW d, NEW H, NEW U, Sound(d, H, U), NEW k, Fine(d, k), NEW e \in Kept(d),
           U[d.ents[e].tab] > 0, Ttls # {}
    PROVE  LET d1 == db_entry_incref(d, e, FALSE)
               d2 == db_entry_handle_delete(d1, e)
           IN  Ties(d, db_entry_deref(d2, e, FALSE), InUse(H))
  <1> DEFINE t  == d.ents[e].tab
             d1 == db_entry_incref(d, e, FALSE)
             d2 == db_entry_handle_delete(d1, e)
             d3 == db_entry_deref(d2, e, FALSE)
  <1>1. d \in Db /\ e \in EntryIds /\ t \in TableIds /\ ~ Unusable(d, t)
    BY DEF Kept, Fine, AtHome
  <1>2. d.tabs[t].refs > 1
    BY CountedTwice
  <1> HIDE DEF t
  <1>3. /\ d1 \in Db /\ d1.tabs = d.tabs /\ d1.tables = d.tables /\ d1.nameless = d.nameless
        /\ d1.ents[e].refs = d.ents[e].refs + 1
        /\ \A f \in EntryIds : d1.ents[f].tab = d.ents[f].tab
    BY <1>1, IncrefOnly
  <1>4. Fine(d1, k) /\ e \in Kept(d1)
    <2>1. Alike(d, d1)
      BY <1>1, IncrefAlike
    <2> HIDE DEF d1
    <2> QED BY <2>1, AlikeFine DEF Alike
  <1> HIDE DEF d1
  <1>5. t = d1.ents[e].tab /\ d1.tabs[t].refs > 1 /\ ~ Unusable(d1, t)
    BY <1>1, <1>2, <1>3 DEF t, Unusable
  <1>6. Emptied(d1, d2, e, t)
    BY <1>4, <1>5, DeletionShape
  <1>7. Shrinks(d1, d2)
    BY <1>1, <1>3, HandleDeleteShrinks
  <1> HIDE DEF d2
  <1>8. InUse(H) \in SUBSET EntryIds
    BY DEF InUse
  <1>9. Ties(d1, d2, InUse(H)) /\ d2 \in Db
    <2>1. d2 \in Db
      BY <1>7 DEF Shrinks
    <2> QED BY <1>1, <1>3, <1>5, <1>6, <1>7, <1>8, <2>1, EmptiedTies
  <1>10. Ties(d, d1, InUse(H))
    BY <1>3, <1>8, SameTabsTie
  <1>11. DerefdEntry(d2, d3, e, FALSE)
    BY <1>1, <1>9, EntryDerefShape
  <1> HIDE DEF d3
  <1>12. e \in InUse(H) => d2.ents[e].refs # 1
    <2>1. d.ents[e].refs = H[e] /\ H[e] \in Nat
      BY <1>1 DEF Sound, Base, EntryOK, Counts
    <2>2. d2.ents[e].refs = d1.ents[e].refs
      BY <1>1, <1>6 DEF Emptied
    <2> QED BY <1>3, <2>1, <2>2 DEF InUse
  <1>13. \A f \in InUse(H) : d3.ents[f].tab = d2.ents[f].tab
    BY <1>8, <1>11, <1>12 DEF DerefdEntry
  <1>14. d3 \in Db /\ d3.tabs = d2.tabs /\ d3.tables = d2.tables /\ d3.nameless = d2.nameless
    BY <1>11 DEF DerefdEntry
  <1>15. Ties(d2, d3, InUse(H))
    BY <1>13, <1>14, SameTabsTie
  <1>16. Ties(d, d2, InUse(H))
    BY <1>1, <1>3, <1>9, <1>10, TiesTrans
  <1> QED BY <1>1, <1>9, <1>14, <1>15, <1>16, TiesTrans DEF d1, d2, d3

\* db_entry_get_read
LEMMA GetReadHands ==
    ASSUME NEW d, NEW H, NEW U, Sound(d, H, U), NEW k, Fine(d, k), NEW t \in TableIds,
           U[t] > 0, NEW key \in Keys, NEW time
    PROVE  GivesOut(d, db_entry_get_read(d, t, key, time), InUse(H), t)
  <1> DEFINE e  == d.tabs[t].slot[KeyHash[key]]
             d1 == db_entry_incref(d, e, FALSE)
             d2 == db_entry_handle_delete(d1, e)
             d3 == db_entry_deref(d2, e, FALSE)
             d4 == db_lru_hit(d, e)
             d5 == db_entry_incref(d4, e, FALSE)
             q  == db_entry_get_read(d, t, key, time)
  <1>1. d \in Db /\ KeyHash[key] \in Hashes /\ (e # Null => e \in Kept(d) /\ d.ents[e].tab = t)
    BY DEF Fine, SlotHolds, Hashes
  <1>2. q = IF e = Null THEN Return(d, Null)
            ELSE IF Expired(d, e, time) THEN Return(d3, Null)
            ELSE IF d.ents[e].key # key \/ d.ents[e].writing THEN Return(d, Null)
            ELSE Return(d5, e)
    BY DEF db_entry_get_read
  <1>3. Ties(d, d, InUse(H))
    BY SameTabsTie
  <1> SUFFICES GivesOut(d, q, InUse(H), t)
    OBVIOUS
  <1> HIDE DEF q, e
  <1>4. CASE e = Null
    BY <1>2, <1>3, <1>4 DEF Return, GivesOut
  <1>5. CASE e # Null /\ Expired(d, e, time)
    <2>1. e \in Kept(d) /\ d.ents[e].tab = t
      BY <1>1, <1>5
    <2>2. Ttls # {}
      BY <1>5, <2>1 DEF Expired, Fine, ValuesOK
    <2>3. Ties(d, d3, InUse(H))
      BY <2>1, <2>2, ExpiredTies
    <2> HIDE DEF d3
    <2> QED BY <1>2, <1>5, <2>3 DEF Return, GivesOut
  <1>6. CASE e # Null /\ ~ Expired(d, e, time) /\ (d.ents[e].key # key \/ d.ents[e].writing)
    BY <1>2, <1>3, <1>6 DEF Return, GivesOut
  <1>7. CASE e # Null /\ ~ Expired(d, e, time) /\ ~ (d.ents[e].key # key \/ d.ents[e].writing)
    <2>1. e \in EntryIds /\ d.ents[e].tab = t
      BY <1>1, <1>7 DEF Kept
    <2>2. SameCore(d, d4)
      BY <1>1, <2>1, HitCore
    <2> HIDE DEF d4
    <2>3. /\ d5 \in Db /\ d5.tabs = d4.tabs /\ d5.tables = d4.tables /\ d5.nameless = d4.nameless
          /\ \A f \in EntryIds : d5.ents[f].tab = d4.ents[f].tab
      BY <2>1, <2>2, IncrefOnly DEF SameCore
    <2> HIDE DEF d5
    <2>4. /\ d5.tabs = d.tabs /\ d5.tables = d.tables
          /\ d5.nameless = d.nameless /\ d5.ents[e].tab = t
          /\ \A f \in InUse(H) : d5.ents[f].tab = d.ents[f].tab
      BY <2>1, <2>2, <2>3 DEF SameCore, SameEntry, InUse
    <2>5. Hands(d, d5, InUse(H), e, t)
      BY <2>3, <2>4, SameHands
    <2>6. q = Return(d5, e)
      BY <1>2, <1>7
    <2> QED BY <1>7, <2>5, <2>6 DEF Return, GivesOut
  <1> QED BY <1>4, <1>5, <1>6, <1>7

\* db_entry_get_delete
LEMMA GetDeleteHands ==
    ASSUME NEW d, NEW k, Fine(d, k), NEW t \in TableIds, NEW key \in Keys, NEW H
    PROVE  GivesOut(d, db_entry_get_delete(d, t, key), InUse(H), t)
  <1> DEFINE e  == d.tabs[t].slot[KeyHash[key]]
             d1 == db_entry_incref(d, e, FALSE)
             q  == db_entry_get_delete(d, t, key)
  <1>1. d \in Db /\ KeyHash[key] \in Hashes /\ (e # Null => e \in Kept(d) /\ d.ents[e].tab = t)
    BY DEF Fine, SlotHolds, Hashes
  <1>2. q = IF e = Null \/ (e # Null /\ d.ents[e].key # key) THEN Return(d, Null)
            ELSE Return(d1, e)
    BY DEF db_entry_get_delete
  <1>3. Ties(d, d, InUse(H))
    BY SameTabsTie
  <1> SUFFICES GivesOut(d, q, InUse(H), t)
    OBVIOUS
  <1> HIDE DEF q, e
  <1>4. CASE e = Null \/ (e # Null /\ d.ents[e].key # key)
    BY <1>2, <1>3, <1>4 DEF Return, GivesOut
  <1>5. CASE ~ (e = Null \/ (e # Null /\ d.ents[e].key # key))
    <2>1. e \in EntryIds /\ d.ents[e].tab = t
      BY <1>1, <1>5 DEF Kept
    <2>2. /\ d1 \in Db /\ d1.tabs = d.tabs /\ d1.tables = d.tables /\ d1.nameless = d.nameless
          /\ \A f \in EntryIds : d1.ents[f].tab = d.ents[f].tab
      BY <1>1, <2>1, IncrefOnly
    <2> HIDE DEF d1
    <2>3. Hands(d, d1, InUse(H), e, t)
      BY <2>1, <2>2, SameHands DEF InUse
    <2> QED BY <1>2, <1>5, <2>3 DEF Return, GivesOut
  <1> QED BY <1>4, <1>5

\* The new key of a table is counted when it is the only one.
LEMMA NewKeyHands ==
    ASSUME NEW d \in Db, NEW d2 \in Db, NEW S \in SUBSET EntryIds, NEW t \in TableIds,
           ~ Unusable(d, t), NEW key \in Keys, NEW e \in EntryIds, e \notin S,
           SameTables(d, d2), d2.tables = d.tables, d2.nameless = d.nameless,
           \A f \in S : d2.ents[f].tab = d.ents[f].tab,
           \A s \in TableIds, h \in Hashes :
               d2.tabs[s].slot[h] = d.tabs[s].slot[h] \/ (s = t /\ h = KeyHash[key])
    PROVE  LET n == IF Entries(d, t) = {} THEN d2.tabs[t].refs + 1 ELSE d2.tabs[t].refs
               r == NewKey(d2, e, t, key, n)
           IN  /\ r \in Db /\ Ties(d, r, S) /\ \A s \in TableIds : Stays(d, r, S, s)
               /\ r.ents[e].tab = t
  <1> DEFINE n == IF Entries(d, t) = {} THEN d2.tabs[t].refs + 1 ELSE d2.tabs[t].refs
             r == NewKey(d2, e, t, key, n)
  <1>0. n = IF Entries(d, t) = {} THEN d2.tabs[t].refs + 1 ELSE d2.tabs[t].refs
    OBVIOUS
  <1> HIDE DEF n
  <1>1. d.tabs[t].refs \in Int /\ d2.tabs[t].refs = d.tabs[t].refs /\ n \in Int
    BY <1>0, DbFields DEF SameTables
  <1>2. /\ r \in Db /\ r.tables = d2.tables /\ r.nameless = d2.nameless /\ r.ents[e].tab = t
        /\ r.tabs[t].name = d2.tabs[t].name
        /\ \A f \in EntryIds : f # e => r.ents[f] = d2.ents[f]
        /\ \A s \in TableIds : s # t => r.tabs[s] = d2.tabs[s]
        /\ r.tabs[t].live = d2.tabs[t].live /\ r.tabs[t].deleted = d2.tabs[t].deleted
        /\ r.tabs[t].refs = n
        /\ r.tabs[t].slot[KeyHash[key]] = e
    <2>1. KeyHash[key] \in Hashes
      BY DEF Hashes
    <2>2. \A h \in Hashes : r.tabs[t].slot[h] = IF h = KeyHash[key] THEN e ELSE d2.tabs[t].slot[h]
      BY <1>1, NewKeyShape
    <2>3. r.tabs[t].slot[KeyHash[key]] = e
      BY <2>1, <2>2
    <2> QED BY <1>1, <2>3, NewKeyShape
  <1> HIDE DEF r
  <1>3. \A f \in S, s \in TableIds : r.ents[f].tab = s <=> d.ents[f].tab = s
    BY <1>2
  <1>4. \A s \in TableIds : /\ r.tabs[s].live = d.tabs[s].live
                            /\ r.tabs[s].deleted = d.tabs[s].deleted
                            /\ r.tabs[s].name = d.tabs[s].name
    BY <1>2 DEF SameTables
  <1>5. ASSUME NEW s \in TableIds, s # t PROVE Stays(d, r, S, s)
    <2>1. Entries(r, s) = Entries(d, s) /\ r.tabs[s].refs = d.tabs[s].refs
      BY <1>2, <1>5 DEF Entries, SameTables
    <2>2. Rest(r, s) = Rest(d, s)
      BY <1>4, <2>1 DEF Rest, KeyRef
    <2> QED BY <1>3, <1>4, <2>2 DEF Stays
  <1>6. Stays(d, r, S, t)
    <2>1. Entries(r, t) # {}
      <3>1. KeyHash[key] \in Hashes /\ e # Null
        BY DbAssumption DEF Hashes
      <3> QED BY <1>2, <3>1 DEF Entries
    <2>2. ~ d.tabs[t].deleted /\ ~ r.tabs[t].deleted
      BY <1>4 DEF Unusable
    <2>3. KeyRef(r, t) = 1
      BY <2>1, <2>2 DEF KeyRef
    <2>4. KeyRef(d, t) = IF Entries(d, t) = {} THEN 0 ELSE 1
      BY <2>2 DEF KeyRef
    <2>5. Rest(r, t) = Rest(d, t)
      BY <1>0, <1>1, <1>2, <2>3, <2>4 DEF Rest
    <2> QED BY <1>3, <1>4, <2>5 DEF Stays
  <1>7. Named(d) => Named(r)
    <2>1. \A m \in TableNames : d.tables[m] \in TableIds \cup {Null}
      BY DEF Db
    <2> QED BY <1>2, <1>4, <2>1 DEF Named, Unusable
  <1>8. Reach(d) => Reach(r)
    BY <1>2, <1>4, SameNames
  <1> QED BY <1>2, <1>5, <1>6, <1>7, <1>8 DEF Ties, r, n

\* db_entry_get_write
LEMMA GetWriteHands ==
    ASSUME NEW d, NEW H, NEW U, Sound(d, H, U), Covered(d, H, U), NEW k, Fine(d, k),
           NEW t \in TableIds, ~ Unusable(d, t), U[t] > 0, NEW key \in Keys,
           NEW time, NEW e \in EntryIds, ~ d.ents[e].live, H[e] = 0
    PROVE  GivesOut(d, db_entry_get_write(d, t, key, time, e), InUse(H), t)
  <1> DEFINE q   == db_entry_get_write(d, t, key, time, e)
             old == d.tabs[t].slot[KeyHash[key]]
             first == Entries(d, t) = {}
             ins == (d.inserts + 1) % LruEvery
             d1  == [d EXCEPT !.inserts = ins]
             d2  == IF old = Null THEN [d1 EXCEPT !.keys = @ + 1]
                    ELSE db_entry_handle_softdelete(d1, old)
             n   == IF first THEN d2.tabs[t].refs + 1 ELSE d2.tabs[t].refs
             d3  == NewKey(d2, e, t, key, n)
             d4  == db_lru_gc(d3, time)
             S   == InUse(H)
             G   == [f \in EntryIds |-> IF f = e THEN 1 ELSE H[f]]
  <1>1. /\ d \in Db /\ k \in Int /\ KeyHash[key] \in Hashes /\ e # Null /\ e \notin Kept(d)
        /\ (old # Null => old \in Kept(d) /\ old \in EntryIds)
        /\ Base(d, H, U) /\ H \in [EntryIds -> Nat] /\ U \in [TableIds -> Nat]
    BY DbAssumption DEF Fine, SlotHolds, Hashes, Kept, Sound, Base, Counts, TableUses
  <1>2. S \in SUBSET EntryIds /\ e \notin S
    BY DEF InUse
  <1>3. /\ SameCore(d, d1) /\ Alike(d, d1) /\ d1.ents = d.ents /\ d1.tabs = d.tabs
        /\ d1.tables = d.tables /\ d1.nameless = d.nameless
    <2>1. d.inserts \in 0 .. LruEvery - 1 /\ LruEvery \in Nat \ {0}
      BY <1>1, DbAssumption DEF Db
    <2>2. ins \in 0 .. LruEvery - 1
      BY <2>1
    <2> HIDE DEF ins
    <2>3. Alike(d, d1) /\ d1.ents = d.ents /\ d1.tabs = d.tabs
      BY <1>1, <2>2, InsertsAlike
    <2> QED BY <1>1, <2>2, <2>3 DEF Db, SameCore, SameEntry
  <1> HIDE DEF old, first, d1, S
  <1>4. /\ Fine(d1, k) /\ d1 \in Db /\ Kept(d1) = Kept(d) /\ Sound(d1, H, U) /\ Keeps(d, d1, H)
    BY <1>3, AlikeFine, CoreSound DEF Alike
  <1>5. /\ d2 \in Db /\ Fine(d2, k + 1) /\ Sound(d2, H, U) /\ Keeps(d1, d2, H)
        /\ SameTables(d1, d2) /\ d2.tables = d1.tables
        /\ d2.nameless = d1.nameless /\ ~ d2.ents[e].live
        /\ \A f \in S : d2.ents[f].tab = d1.ents[f].tab
        /\ \A s \in TableIds, h \in Hashes :
               d2.tabs[s].slot[h] = d1.tabs[s].slot[h] \/ (s = t /\ h = KeyHash[key])
        /\ d2.tabs[t].slot[KeyHash[key]] = Null
    <2>1. CASE old = Null
      <3> DEFINE m == d1.keys + 1
                 w == [d1 EXCEPT !.keys = m]
      <3>1. m \in Int
        BY <1>4 DEF Db
      <3>2. d2 = w
        BY <1>4, <2>1 DEF Db
      <3>3. SameCore(d1, d2)
        BY <1>4, <2>1, KeysCore
      <3> HIDE DEF d2, m
      <3>4. /\ w \in Db /\ w.keys = m /\ w.ents = d1.ents /\ w.tabs = d1.tabs
            /\ w.lru_head = d1.lru_head /\ w.lru_tail = d1.lru_tail /\ w.tables = d1.tables
            /\ w.nameless = d1.nameless
            /\ w.size = d1.size /\ w.orphan = d1.orphan /\ w.fault = d1.fault
        BY <1>4, <3>1 DEF Db
      <3> HIDE DEF w
      <3>5. Fine(w, k + 1)
        BY <1>4, <3>4, KeysFine DEF m
      <3>6. Sound(d2, H, U) /\ Keeps(d1, d2, H)
        BY <1>4, <3>3, CoreSound
      <3>7. d2.ents = d.ents /\ d2.tabs = d.tabs /\ d2.tables = d1.tables
            /\ d2.nameless = d1.nameless /\ d2 \in Db
        BY <1>3, <3>2, <3>4
      <3>8. d2.tabs[t].slot[KeyHash[key]] = Null
        BY <2>1, <3>7 DEF old
      <3>9. SameTables(d1, d2)
        BY <1>3, <3>7 DEF SameTables
      <3>10. ~ d2.ents[e].live /\ \A f \in S : d2.ents[f].tab = d1.ents[f].tab
        BY <1>3, <3>7
      <3>11. \A s \in TableIds, h \in Hashes : d2.tabs[s].slot[h] = d1.tabs[s].slot[h]
        BY <1>3, <3>7
      <3>12. Fine(d2, k + 1)
        BY <3>2, <3>5
      <3> QED BY <3>6, <3>7, <3>8, <3>9, <3>10, <3>11, <3>12
    <2>2. CASE old # Null
      <3>1. old \in Kept(d1) /\ old # e /\ old \in EntryIds
        BY <1>1, <1>4, <2>2
      <3>2. d2 = db_entry_handle_softdelete(d1, old)
        BY <2>2
      <3> HIDE DEF d2
      <3>3. Fine(d2, k + 1)
        BY <1>4, <3>1, <3>2, SoftDeleteFine
      <3>4. /\ SameTables(d1, d2) /\ Cleared(d1, d2, old) /\ d2.tables = d1.tables
            /\ d2.nameless = d1.nameless
            /\ \A f \in EntryIds : f # old => /\ d2.ents[f].live = d1.ents[f].live
                                              /\ d2.ents[f].tab = d1.ents[f].tab
            /\ d2.ents[old].live => d2.ents[old].tab = d1.ents[old].tab
        BY <1>4, <3>1, <3>2, SoftDeleteRest
      <3>5. d1.ents[old].tab = t /\ KeyHash[d1.ents[old].key] = KeyHash[key]
        <4>1. SlotHolds(d, t, KeyHash[key])
          BY <1>1 DEF Fine
        <4> QED BY <1>3, <2>2, <4>1 DEF SlotHolds, old
      <3>6. Sound(d2, H, U) /\ Keeps(d1, d2, H)
        BY <1>4, <3>1, <3>2, SoftDelete
      <3>7. old \in S => d2.ents[old].live
        BY <3>1, <3>6 DEF S, InUse, Keeps, Kept
      <3>8. \A f \in S : d2.ents[f].tab = d1.ents[f].tab
        BY <1>2, <3>4, <3>7
      <3>9. \A s \in TableIds, h \in Hashes :
               d2.tabs[s].slot[h] = d1.tabs[s].slot[h] \/ (s = t /\ h = KeyHash[key])
        <4> SUFFICES ASSUME NEW s \in TableIds, NEW h \in Hashes, ~ (s = t /\ h = KeyHash[key])
                     PROVE  d2.tabs[s].slot[h] = d1.tabs[s].slot[h]
          OBVIOUS
        <4>1. d2.tabs[s].slot[h] = IF s = d1.ents[old].tab /\ h = KeyHash[d1.ents[old].key]
                                   THEN Null ELSE d1.tabs[s].slot[h]
          BY <3>4 DEF Cleared
        <4>2. ~ (s = d1.ents[old].tab /\ h = KeyHash[d1.ents[old].key])
          BY <3>5
        <4> QED BY <4>1, <4>2
      <3>10. d2.tabs[t].slot[KeyHash[key]] = Null
        BY <1>1, <3>4, <3>5 DEF Cleared
      <3>11. ~ d2.ents[e].live
        BY <1>3, <3>1, <3>4
      <3> QED BY <3>3, <3>4, <3>6, <3>8, <3>9, <3>10, <3>11 DEF Fine
    <2> QED BY <2>1, <2>2
  <1>6. q = IF old # Null /\ d.ents[old].writing THEN Return(d1, Null)
            ELSE Return(IF ins = 0 THEN d4 ELSE d3, e)
    <2> DEFINE g == [d2 EXCEPT !.ents[e] = [DeadEntry EXCEPT !.live = TRUE, !.tab = t,
                                              !.key = key, !.refs = 1, !.writing = TRUE],
                              !.tabs[t].slot[KeyHash[key]] = e,
                              !.tabs[t].refs = IF first THEN @ + 1 ELSE @]
    <2>1. g = d3
      <3> HIDE DEF d2, first
      <3>1. d2.tabs \in [TableIds -> Table] /\ d2.tabs[t] \in Table
        BY <1>5 DEF Db
      <3> DEFINE p == [d2.tabs[t].slot EXCEPT ![KeyHash[key]] = e]
      <3>2. [d2.tabs[t] EXCEPT !.slot = p].refs = d2.tabs[t].refs
        BY <3>1 DEF Table
      <3> QED BY <1>5, <3>1, <3>2 DEF NewKey, Db
    <2>2. q = IF old # Null /\ d.ents[old].writing THEN Return(d1, Null)
              ELSE Return(IF ins = 0 THEN db_lru_gc(g, time) ELSE g, e)
      BY Zenon DEF db_entry_get_write, d1, old, first
    <2> HIDE DEF q, g, d3
    <2> QED BY <2>1, <2>2
  <1> HIDE DEF d2
  <1>7. n \in Int /\ n >= U[t] + 1
    <2>1. TableOK(d, U, t) /\ d.tabs[t].refs \in Int /\ U[t] \in Nat /\ d.tabs[t].live
          /\ ~ d.tabs[t].deleted
      BY <1>1, DbFields DEF Base, Unusable
    <2>2. d2.tabs[t].refs = d.tabs[t].refs
      BY <1>3, <1>5 DEF SameTables
    <2> QED BY <2>1, <2>2 DEF TableOK, first
  <1> SUFFICES GivesOut(d, q, S, t)
    BY DEF S
  <1>8. n = IF Entries(d1, t) = {} THEN d2.tabs[t].refs + 1 ELSE d2.tabs[t].refs
    BY <1>3 DEF first, Entries
  <1>9. ~ Unusable(d1, t) /\ Ties(d, d1, S)
    BY <1>3, SameTabsTie DEF Unusable
  <1>10. /\ d3 \in Db /\ Ties(d1, d3, S) /\ \A s \in TableIds : Stays(d1, d3, S, s)
         /\ d3.ents[e].tab = t
    <2> DEFINE m == IF Entries(d1, t) = {} THEN d2.tabs[t].refs + 1 ELSE d2.tabs[t].refs
    <2>1. d3 = NewKey(d2, e, t, key, m)
      BY <1>8
    <2> HIDE DEF n, d3
    <2>2. LET r == NewKey(d2, e, t, key, m)
          IN  r \in Db /\ Ties(d1, r, S) /\ (\A s \in TableIds : Stays(d1, r, S, s))
              /\ r.ents[e].tab = t
      BY <1>2, <1>4, <1>5, <1>9, NewKeyHands
    <2> QED BY <2>1, <2>2
  <1>11. ButFor(H, G, e) /\ G[e] = 1 /\ InUse(G) = S \cup {e}
    BY <1>1 DEF ButFor, Counts, S, InUse
  <1> HIDE DEF G
  <1>12. /\ Sound(d3, G, U) /\ Keeps(d2, d3, H)
    <2> HIDE DEF n
    <2> QED BY <1>5, <1>7, <1>11, NewKeySound
  <1>13. ~ Unusable(d2, t)
    BY <1>3, <1>5 DEF SameTables, Unusable
  <1>14. Fine(d3, k)
    <2> HIDE DEF n
    <2> QED BY <1>1, <1>5, <1>7, <1>13, NewKeyFine
  <1> HIDE DEF n, q, ins, d3
  <1>15. Covered(d3, G, U)
    <2>1. Covered(d3, H, U)
      BY <1>4, <1>5, <1>12, KeepsCovered
    <2> QED BY <1>10, <1>11, <2>1 DEF Covered, ButFor
  <1>16. Ties(d3, d4, S \cup {e})
    BY <1>11, <1>12, <1>14, <1>15, GcTies
  <1> HIDE DEF d4
  <1>17. Ties(d3, d3, S \cup {e})
    BY SameTabsTie
  <1>18. CASE old # Null /\ d.ents[old].writing
    BY <1>6, <1>9, <1>18 DEF Return, GivesOut
  <1>19. CASE ~ (old # Null /\ d.ents[old].writing)
    <2>1. q.ret = e /\ q.db \in {d3, d4}
      BY <1>6, <1>19 DEF Return
    <2>2. Ties(d, d3, S)
      BY <1>1, <1>4, <1>9, <1>10, TiesTrans
    <2>3. \A s \in TableIds : Stays(d, d1, S, s)
      BY <1>3, SameTabsTie
    <2>4. \A s \in TableIds : Stays(d, d3, S, s)
      BY <1>10, <2>3 DEF Stays
    <2>5. Hands(d, q.db, S, e, t)
      BY <1>10, <1>16, <1>17, <2>1, <2>2, <2>4 DEF Hands
    <2> QED BY <1>1, <2>1, <2>5 DEF GivesOut
  <1> QED BY <1>18, <1>19

-----------------------------------------------------------------------------
(* The steps of the server keep the tables tied to their users.            *)

\* Every table is counted by the connections cs, and is found by its name.
Tidy(cs, d) ==
    /\ \A t \in TableIds : Tallied(d, t, UseCount(cs, d)[t])
    /\ Named(d) /\ Reach(d)

\* The entries that the connections cs hold.
HeldBy(cs) == {e \in EntryIds : \E c \in Conns : cs[c].ent = e}

\* A connection that holds an entry has no table of its own.
Apart(cs) == \A c \in Conns : cs[c].ent # Null => cs[c].tab = Null

\* These are the entries that are counted.
LEMMA HeldInUse == ASSUME NEW cs PROVE InUse(HoldCount(cs)) = HeldBy(cs)
  BY Held DEF InUse, HeldBy

\* The counts of tables are numbers.
LEMMA UseNat ==
    ASSUME NEW cs, NEW d, NEW t \in TableIds
    PROVE  UseCount(cs, d)[t] \in Nat /\ UseCount(cs, d)[t] = Cardinality(UsersIn(cs, d, t))
           /\ UsersIn(cs, d, t) \subseteq Conns
  <1>1. UseCount(cs, d)[t] \in Nat
    BY CountTypes DEF TableUses
  <1> QED BY <1>1 DEF UseCount, UsersIn

\* A connection that uses a table no longer, one user less.
LEMMA FewerTally ==
    ASSUME NEW cs, NEW d, NEW r, NEW t \in TableIds, UsersIn(cs, r, t) \subseteq UsersIn(cs, d, t)
    PROVE  /\ UseCount(cs, r)[t] <= UseCount(cs, d)[t]
           /\ UsersIn(cs, r, t) # UsersIn(cs, d, t) => UseCount(cs, r)[t] + 1 <= UseCount(cs, d)[t]
  <1>1. UseCount(cs, r)[t] <= UseCount(cs, d)[t]
    BY UsersShrink
  <1>2. ASSUME UsersIn(cs, r, t) # UsersIn(cs, d, t)
        PROVE  UseCount(cs, r)[t] + 1 <= UseCount(cs, d)[t]
    <2>1. PICK c \in UsersIn(cs, d, t) : c \notin UsersIn(cs, r, t)
      BY <1>2
    <2>2. UsersIn(cs, d, t) \subseteq Conns /\ UsersIn(cs, r, t) \subseteq Conns
      BY UseNat
    <2> DEFINE A == UsersIn(cs, r, t)
               B == A \cup {c}
    <2>3. B \subseteq UsersIn(cs, d, t)
      BY <2>1
    <2>4. Cardinality(B) = Cardinality(A) + 1 /\ Cardinality(A) \in Nat
      BY <2>1, <2>2, OneMoreCount
    <2> HIDE DEF B
    <2>5. Cardinality(B) <= Cardinality(UsersIn(cs, d, t))
      BY <2>2, <2>3, SubsetCount
    <2> QED BY <2>4, <2>5 DEF UseCount
  <1> QED BY <1>1, <1>2

\* The ties of a change keep the tables tidy.
LEMMA TiesTidy ==
    ASSUME NEW cs \in [Conns -> Conn], Apart(cs), NEW d \in Db, NEW r \in Db, Tidy(cs, d),
           Ties(d, r, HeldBy(cs))
    PROVE  Tidy(cs, r)
  <1> DEFINE S == HeldBy(cs)
  <1>1. \A c \in Conns : cs[c].ent # Null => cs[c].ent \in S
    BY DEF Conn, HeldBy
  <1>2. \A e \in S : e # Null /\ \E c \in Conns : cs[c].ent = e
    BY DbAssumption DEF HeldBy
  <1>3. Ties(d, r, S)
    OBVIOUS
  <1> HIDE DEF S
  <1>4. ASSUME NEW t \in TableIds PROVE Tallied(r, t, UseCount(cs, r)[t])
    <2> DEFINE u == UseCount(cs, d)[t]
               v == UseCount(cs, r)[t]
    <2>1. u \in Nat /\ v \in Nat /\ Tallied(d, t, u) /\ Spare \in {0, 1}
          /\ Rest(d, t) \in Int /\ Rest(r, t) \in Int
      BY UseNat, RestType, SpareType DEF Tidy
    <2>2. CASE Stays(d, r, S, t)
      <3>1. UsersIn(cs, r, t) = UsersIn(cs, d, t)
        BY <1>1, <2>2 DEF Stays, UsersIn
      <3>2. u = v
        BY <3>1 DEF UseCount
      <3> HIDE DEF u, v
      <3>3. Tallied(r, t, u)
        BY <2>1, <2>2 DEF Stays, Tallied
      <3> QED BY <3>2, <3>3 DEF v
    <2>3. CASE Ends(d, r, S, t)
      <3>1. UsersIn(cs, r, t) \subseteq UsersIn(cs, d, t)
        BY <1>1, <2>3 DEF Ends, UsersIn
      <3>2. v <= u
        BY <3>1, FewerTally
      <3>3. ASSUME NEW e \in S, d.ents[e].tab = t, r.ents[e].tab # t PROVE v + 1 <= u
        <4>1. PICK c \in Conns : cs[c].ent = e
          BY <1>2
        <4>2. cs[c].tab # t /\ cs[c].ent # Null
          BY <1>2, <4>1, DbAssumption DEF Apart
        <4>3. c \in UsersIn(cs, d, t) /\ c \notin UsersIn(cs, r, t)
          BY <3>3, <4>1, <4>2 DEF UsersIn
        <4>4. UsersIn(cs, r, t) # UsersIn(cs, d, t)
          BY <4>3
        <4> QED BY <3>1, <4>4, FewerTally
      <3> HIDE DEF u, v
      <3>4. Rest(d, t) = u
        BY <2>1, <2>3 DEF Ends, Tallied
      <3>5. Rest(r, t) >= v + Spare
        <4>1. CASE Rest(r, t) >= Rest(d, t) + Spare
          BY <2>1, <3>2, <3>4, <4>1
        <4>2. CASE \E e \in S : d.ents[e].tab = t /\ r.ents[e].tab # t
          <5>1. v + 1 <= u /\ Rest(r, t) >= Rest(d, t)
            BY <2>3, <3>3, <4>2 DEF Ends
          <5> QED BY <2>1, <3>4, <5>1
        <4> QED BY <2>3, <4>1, <4>2 DEF Ends
      <3> QED BY <2>3, <3>5 DEF Ends, Tallied, v
    <2> QED BY <1>3, <2>2, <2>3 DEF Ties
  <1> QED BY <1>3, <1>4 DEF Tidy, Ties

\* The same tables, used by the same connections.
LEMMA SameTidy ==
    ASSUME NEW cs, NEW bs, NEW d, NEW r, r.tabs = d.tabs, r.tables = d.tables,
           r.nameless = d.nameless,
           \A t \in TableIds : UsersIn(bs, r, t) = UsersIn(cs, d, t), Tidy(cs, d)
    PROVE  Tidy(bs, r)
  <1>1. UseCount(bs, r) = UseCount(cs, d)
    BY DEF UseCount
  <1>2. Named(r)
    BY DEF Tidy, Named, Unusable
  <1>3. Reach(r)
    BY DEF Tidy, Reach, Unusable
  <1>4. ASSUME NEW t \in TableIds PROVE Tallied(r, t, UseCount(bs, r)[t])
    <2>1. Tallied(d, t, UseCount(cs, d)[t])
      BY DEF Tidy
    <2> DEFINE u == UseCount(cs, d)[t]
    <2> HIDE DEF u
    <2>2. Tallied(d, t, u) => Tallied(r, t, u)
      BY DEF Tallied, Rest, KeyRef, Entries
    <2> QED BY <1>1, <2>1, <2>2 DEF u
  <1> QED BY <1>2, <1>3, <1>4 DEF Tidy

\* The one table that connection c uses is t.
UsesOnly(cs, d, c, t) == \A s \in TableIds : c \in UsersIn(cs, d, s) <=> s = t

\* The other connections hold entries of the same tables.
OthersTied(cs, d, q, c) ==
    \A b \in Conns \ {c} : cs[b].ent # Null => q.ents[cs[b].ent].tab = d.ents[cs[b].ent].tab

\* A connection leaves table t.
LEMMA LeaveTidy ==
    ASSUME NEW cs \in [Conns -> Conn], NEW c \in Conns, NEW r \in Conn, r.tab = Null, r.ent = Null,
           NEW d \in Db, NEW q \in Db, Tidy(cs, d), NEW t \in TableIds,
           UsesOnly(cs, d, c, t), Released(d, q, t), OthersTied(cs, d, q, c)
    PROVE  Tidy([cs EXCEPT ![c] = r], q)
  <1> DEFINE bs == [cs EXCEPT ![c] = r]
  <1>1. bs[c] = r /\ \A b \in Conns \ {c} : bs[b] = cs[b]
    OBVIOUS
  <1> HIDE DEF bs
  <1>2. ASSUME NEW s \in TableIds PROVE UsersIn(bs, q, s) = UsersIn(cs, d, s) \ {c}
    <2>1. s # Null
      BY DbAssumption
    <2> QED BY <1>1, <2>1 DEF UsersIn, OthersTied
  <1>3. UseCount(cs, d)[t] = UseCount(bs, q)[t] + 1
    <2>1. c \in UsersIn(cs, d, t)
      BY DEF UsesOnly
    <2> DEFINE A == UsersIn(bs, q, t)
    <2>2. A \subseteq Conns /\ c \notin A /\ UsersIn(cs, d, t) = A \cup {c}
      BY <1>2, <2>1, UseNat
    <2>3. Cardinality(A \cup {c}) = Cardinality(A) + 1
      BY <2>2, OneMoreCount
    <2> QED BY <2>2, <2>3 DEF UseCount
  <1>4. ASSUME NEW s \in TableIds, s # t PROVE UseCount(bs, q)[s] = UseCount(cs, d)[s]
    <2>1. UsersIn(bs, q, s) = UsersIn(cs, d, s)
      BY <1>2, <1>4 DEF UsesOnly
    <2> QED BY <2>1 DEF UseCount
  <1> DEFINE u == UseCount(cs, d)[t]
             v == UseCount(bs, q)[t]
  <1>5. u \in Nat /\ v \in Nat /\ u = v + 1 /\ Tallied(d, t, u) /\ Spare \in {0, 1}
        /\ d.tabs[t].refs \in Int
    BY <1>3, UseNat, SpareType, RestType DEF Tidy
  <1> HIDE DEF u, v
  <1>6. d.tabs[t].live
    BY <1>5 DEF Tallied
  <1>7. d.tabs[t].refs = 1 /\ d.tabs[t].deleted => v = 0 /\ Spare = 0
    <2> SUFFICES ASSUME d.tabs[t].refs = 1, d.tabs[t].deleted PROVE v = 0 /\ Spare = 0
      OBVIOUS
    <2>1. Rest(d, t) = 1
      BY DEF Rest, KeyRef
    <2>2. 1 >= u + Spare
      BY <1>5, <1>6, <2>1 DEF Tallied
    <2> QED BY <1>5, <2>2
  <1>8. Tallied(q, t, v)
    <2>1. CASE d.tabs[t].refs = 1 /\ d.tabs[t].deleted
      <3>1. ~ q.tabs[t].live
        BY <2>1 DEF Released
      <3> QED BY <1>7, <2>1, <3>1 DEF Tallied
    <2>2. CASE ~ (d.tabs[t].refs = 1 /\ d.tabs[t].deleted)
      <3>1. /\ q.tabs[t].live /\ q.tabs[t].deleted = d.tabs[t].deleted
            /\ q.tabs[t].slot = d.tabs[t].slot /\ q.tabs[t].refs = d.tabs[t].refs - 1
        BY <2>2 DEF Released
      <3>2. KeyRef(q, t) = KeyRef(d, t) /\ KeyRef(d, t) \in {0, 1}
        BY <3>1 DEF KeyRef, Entries
      <3>3. Rest(q, t) = Rest(d, t) - 1 /\ Rest(d, t) \in Int
        BY <1>5, <3>1, <3>2 DEF Rest
      <3> QED BY <1>5, <1>6, <3>1, <3>3 DEF Tallied
    <2> QED BY <2>1, <2>2
  <1>9. ASSUME NEW s \in TableIds PROVE Tallied(q, s, UseCount(bs, q)[s])
    <2>1. CASE s = t
      BY <1>8, <2>1 DEF v
    <2>2. CASE s # t
      <3>1. q.tabs[s] = d.tabs[s] /\ Tallied(d, s, UseCount(cs, d)[s])
        BY <2>2 DEF Released, Tidy
      <3> DEFINE w == UseCount(cs, d)[s]
      <3>2. UseCount(bs, q)[s] = w
        BY <1>4, <2>2
      <3> HIDE DEF w
      <3>3. Tallied(d, s, w) => Tallied(q, s, w)
        BY <3>1 DEF Tallied, Rest, KeyRef, Entries
      <3> QED BY <3>1, <3>2, <3>3 DEF w
    <2> QED BY <2>1, <2>2
  <1>10. Named(q) /\ Reach(q)
    <2>1. CASE d.tabs[t].refs = 1 /\ d.tabs[t].deleted
      <3>1. q.tables = [d.tables EXCEPT ![d.tabs[t].name] = Null] /\ Ttls # {}
            /\ \A s \in TableIds \ {t} : q.tabs[s] = d.tabs[s]
        BY <1>7, <2>1, SpareType DEF Released
      <3>2. ASSUME NEW n \in TableNames, q.tables[n] # Null
            PROVE  ~ Unusable(q, q.tables[n]) /\ q.tabs[q.tables[n]].name = n
        <4>1. q.tables[n] = d.tables[n] /\ d.tables[n] \in TableIds
          BY <3>1, <3>2 DEF Db, Ptr
        <4>2. ~ Unusable(d, d.tables[n]) /\ d.tabs[d.tables[n]].name = n
          BY <3>2, <4>1 DEF Tidy, Named
        <4>3. d.tables[n] # t
          BY <2>1, <4>2 DEF Unusable
        <4>4. q.tabs[d.tables[n]] = d.tabs[d.tables[n]]
          BY <3>1, <4>1, <4>3
        <4> QED BY <4>1, <4>2, <4>4 DEF Unusable
      <3> QED BY <3>1, <3>2 DEF Named, Reach
    <2>2. CASE ~ (d.tabs[t].refs = 1 /\ d.tabs[t].deleted)
      <3>0. /\ q.tables = d.tables /\ q.nameless = d.nameless /\ q.tabs[t].live = d.tabs[t].live
            /\ q.tabs[t].deleted = d.tabs[t].deleted /\ q.tabs[t].name = d.tabs[t].name
            /\ \A s \in TableIds \ {t} : q.tabs[s] = d.tabs[s]
        BY <1>6, <2>2 DEF Released
      <3>1. /\ q.tables = d.tables /\ q.nameless = d.nameless
            /\ \A s \in TableIds : /\ q.tabs[s].live = d.tabs[s].live
                                   /\ q.tabs[s].deleted = d.tabs[s].deleted
                                   /\ q.tabs[s].name = d.tabs[s].name
        BY <3>0, Zenon
      <3>2. Reach(q)
        BY <3>1, SameNames DEF Tidy
      <3>3. \A n \in TableNames : d.tables[n] # Null => d.tables[n] \in TableIds
        BY DEF Db, Ptr
      <3>4. Named(q)
        BY <3>1, <3>3 DEF Tidy, Named, Unusable
      <3> QED BY <3>2, <3>4
    <2> QED BY <2>1, <2>2
  <1> QED BY <1>9, <1>10 DEF Tidy, bs

\* What a look-up gives out is held instead of the table.
LEMMA HandsTidy ==
    ASSUME NEW cs \in [Conns -> Conn], NEW c \in Conns, NEW r \in Conn, Apart(cs),
           NEW d \in Db, NEW q \in Db, Tidy(cs, d), NEW t \in TableIds, cs[c].tab = t,
           cs[c].ent = Null, r.tab = Null, r.ent # Null,
           Hands(d, q, HeldBy(cs), r.ent, t)
    PROVE  Tidy([cs EXCEPT ![c] = r], q)
  <1> DEFINE bs == [cs EXCEPT ![c] = r]
  <1>1. bs[c] = r /\ (\A b \in Conns \ {c} : bs[b] = cs[b]) /\ bs \in [Conns -> Conn]
    OBVIOUS
  <1> HIDE DEF bs
  <1>2. PICK m \in Db : Ties(d, m, HeldBy(cs)) /\ m.ents[r.ent].tab = t
                        /\ Ties(m, q, HeldBy(cs) \cup {r.ent})
    BY DEF Hands
  <1>3. Tidy(cs, m)
    BY <1>2, TiesTidy
  <1>4. ASSUME NEW s \in TableIds PROVE UsersIn(bs, m, s) = UsersIn(cs, m, s)
    <2>1. c \in UsersIn(bs, m, s) <=> s = t
      BY <1>1, <1>2, DbAssumption DEF UsersIn
    <2>2. c \in UsersIn(cs, m, s) <=> s = t
      BY DbAssumption DEF UsersIn
    <2>3. \A b \in Conns \ {c} : b \in UsersIn(bs, m, s) <=> b \in UsersIn(cs, m, s)
      BY <1>1 DEF UsersIn
    <2>4. UsersIn(bs, m, s) \subseteq Conns /\ UsersIn(cs, m, s) \subseteq Conns
      BY DEF UsersIn
    <2> QED BY <2>1, <2>2, <2>3, <2>4
  <1>5. Tidy(bs, m)
    BY <1>3, <1>4, SameTidy
  <1>6. Apart(bs)
    BY <1>1 DEF Apart
  <1>7. HeldBy(bs) = HeldBy(cs) \cup {r.ent}
    <2>1. r.ent \in EntryIds
      BY DEF Conn
    <2>2. ASSUME NEW e \in EntryIds PROVE e \in HeldBy(bs) <=> e \in HeldBy(cs) \cup {r.ent}
      <3>1. e # Null
        BY DbAssumption
      <3>2. e \in HeldBy(bs) <=> e = r.ent \/ \E b \in Conns \ {c} : cs[b].ent = e
        BY <1>1 DEF HeldBy
      <3>3. e \in HeldBy(cs) <=> \E b \in Conns \ {c} : cs[b].ent = e
        BY <3>1 DEF HeldBy
      <3> QED BY <3>2, <3>3
    <2>3. HeldBy(bs) \subseteq EntryIds /\ HeldBy(cs) \subseteq EntryIds
      BY DEF HeldBy
    <2> QED BY <2>1, <2>2, <2>3
  <1>8. Tidy(bs, q)
    BY <1>1, <1>2, <1>5, <1>6, <1>7, TiesTidy
  <1> QED BY <1>8 DEF bs

\* From the connections cs to bs, table t has one more user.
Joined(cs, d, bs, q, t) ==
    \A s \in TableIds : UseCount(bs, q)[s] = UseCount(cs, d)[s] + (IF s = t THEN 1 ELSE 0)

\* A connection that uses no table takes table t, of which others may be users.
LEMMA OneMoreUser ==
    ASSUME NEW cs \in [Conns -> Conn], NEW c \in Conns, NEW r \in Conn, cs[c].tab = Null,
           cs[c].ent = Null, r.ent = Null, NEW d, NEW q, q.ents = d.ents
    PROVE  Joined(cs, d, [cs EXCEPT ![c] = r], q, r.tab)
  <1> DEFINE bs == [cs EXCEPT ![c] = r]
  <1>1. bs[c] = r /\ \A b \in Conns \ {c} : bs[b] = cs[b]
    OBVIOUS
  <1> HIDE DEF bs
  <1>2. ASSUME NEW s \in TableIds
        PROVE  UseCount(bs, q)[s] = UseCount(cs, d)[s] + (IF s = r.tab THEN 1 ELSE 0)
    <2> DEFINE A == UsersIn(cs, d, s)
    <2>1. c \notin A /\ A \subseteq Conns
      BY DbAssumption DEF UsersIn
    <2>2. \A b \in Conns \ {c} : b \in UsersIn(bs, q, s) <=> b \in A
      BY <1>1 DEF UsersIn
    <2>3. c \in UsersIn(bs, q, s) <=> s = r.tab
      BY <1>1 DEF UsersIn
    <2>4. UsersIn(bs, q, s) \subseteq Conns
      BY DEF UsersIn
    <2>5. UseCount(cs, d)[s] = Cardinality(A) /\ Cardinality(A) \in Nat
      BY UseNat
    <2>6. UseCount(bs, q)[s] = Cardinality(UsersIn(bs, q, s))
      BY UseNat
    <2> HIDE DEF A
    <2>7. CASE s = r.tab
      <3>1. UsersIn(bs, q, s) = A \cup {c}
        BY <2>1, <2>2, <2>3, <2>4, <2>7
      <3>2. Cardinality(A \cup {c}) = Cardinality(A) + 1
        BY <2>1, OneMoreCount
      <3> QED BY <2>5, <2>6, <2>7, <3>1, <3>2
    <2>8. CASE s # r.tab
      <3>1. UsersIn(bs, q, s) = A
        BY <2>1, <2>2, <2>3, <2>4, <2>8
      <3> QED BY <2>5, <2>6, <2>8, <3>1
    <2> QED BY <2>7, <2>8
  <1> QED BY <1>2 DEF bs, Joined

\* A connection finds a table by its name.
LEMMA FindTidy ==
    ASSUME NEW cs \in [Conns -> Conn], NEW c \in Conns, NEW r \in Conn, cs[c].tab = Null,
           cs[c].ent = Null, r.ent = Null, NEW d \in Db, Tidy(cs, d), NEW n \in TableNames,
           r.tab = db_table_get_read(d, n).ret
    PROVE  Tidy([cs EXCEPT ![c] = r], db_table_get_read(d, n).db)
  <1> DEFINE bs == [cs EXCEPT ![c] = r]
             t == d.tables[n]
             q == db_table_incref(d, t)
  <1>1. CASE t = Null
    <2>1. db_table_get_read(d, n).db = d /\ r.tab = Null
      BY <1>1 DEF db_table_get_read, Return
    <2>2. bs[c] = r /\ \A b \in Conns \ {c} : bs[b] = cs[b]
      OBVIOUS
    <2> HIDE DEF bs
    <2>3. \A s \in TableIds : UsersIn(bs, d, s) = UsersIn(cs, d, s)
      BY <2>1, <2>2, DbAssumption DEF UsersIn
    <2>4. Tidy(bs, d)
      BY <2>3, SameTidy
    <2> QED BY <2>1, <2>4 DEF bs
  <1>2. CASE t # Null
    <2>1. db_table_get_read(d, n).db = q /\ r.tab = t /\ t \in TableIds
      BY <1>2 DEF db_table_get_read, Return, Db
    <2>2. ~ Unusable(d, t)
      BY <1>2 DEF Tidy, Named
    <2>3. /\ q.tables = d.tables /\ q.nameless = d.nameless /\ q.ents = d.ents
          /\ q.tabs[t].live = d.tabs[t].live /\ q.tabs[t].deleted = d.tabs[t].deleted
          /\ q.tabs[t].name = d.tabs[t].name /\ q.tabs[t].slot = d.tabs[t].slot
          /\ q.tabs[t].refs = d.tabs[t].refs + 1
          /\ \A s \in TableIds \ {t} : q.tabs[s] = d.tabs[s]
      <3>1. d.tabs \in [TableIds -> Table] /\ d.tabs[t] \in Table
        BY <2>1 DEF Db
      <3> DEFINE y == [d.tabs[t] EXCEPT !.refs = @ + 1]
      <3>2. q.tabs = [d.tabs EXCEPT ![t] = y] /\ q.tables = d.tables
            /\ q.nameless = d.nameless /\ q.ents = d.ents
        BY <2>1, <3>1 DEF db_table_incref, Db
      <3>3. y.live = d.tabs[t].live /\ y.deleted = d.tabs[t].deleted /\ y.name = d.tabs[t].name
            /\ y.slot = d.tabs[t].slot /\ y.refs = d.tabs[t].refs + 1
        BY <3>1 DEF Table
      <3> HIDE DEF y, q
      <3>4. q.tabs[t] = y /\ \A s \in TableIds \ {t} : q.tabs[s] = d.tabs[s]
        BY <2>1, <3>1, <3>2
      <3> QED BY <3>2, <3>3, <3>4, Zenon
    <2> HIDE DEF q
    <2>4. \A s \in TableIds : UseCount(bs, q)[s] = UseCount(cs, d)[s] + (IF s = t THEN 1 ELSE 0)
      <3>1. q.ents = d.ents
        BY <2>3
      <3>2. Joined(cs, d, bs, q, r.tab)
        BY <3>1, OneMoreUser
      <3> QED BY <2>1, <3>2, Zenon DEF Joined
    <2> HIDE DEF bs, t
    <2>5. ASSUME NEW s \in TableIds PROVE Tallied(q, s, UseCount(bs, q)[s])
      <3> DEFINE u == UseCount(cs, d)[s]
      <3>1. u \in Nat /\ Tallied(d, s, u) /\ d.tabs[s].refs \in Int
        BY UseNat, RestType DEF Tidy
      <3>2. UseCount(bs, q)[s] = u + (IF s = t THEN 1 ELSE 0)
        BY <2>4
      <3> HIDE DEF u
      <3>3. CASE s = t
        <4>1. KeyRef(q, t) = KeyRef(d, t) /\ KeyRef(d, t) \in {0, 1}
          BY <2>3 DEF KeyRef, Entries
        <4>2. Rest(q, t) = Rest(d, t) + 1 /\ Rest(d, t) \in Int
          BY <2>3, <3>1, <3>3, <4>1 DEF Rest
        <4>3. d.tabs[t].live /\ ~ d.tabs[t].deleted
          BY <2>2 DEF Unusable
        <4> QED BY <2>3, <3>1, <3>2, <3>3, <4>2, <4>3 DEF Tallied
      <3>4. CASE s # t
        <4>1. q.tabs[s] = d.tabs[s]
          BY <2>3, <3>4
        <4>2. UseCount(bs, q)[s] = u
          BY <3>1, <3>2, <3>4
        <4> QED BY <3>1, <4>1, <4>2 DEF Tallied, Rest, KeyRef, Entries
      <3> QED BY <3>3, <3>4
    <2>6. \A s \in TableIds : /\ q.tabs[s].live = d.tabs[s].live
                              /\ q.tabs[s].deleted = d.tabs[s].deleted
                              /\ q.tabs[s].name = d.tabs[s].name
      BY <2>3, Zenon
    <2>7. Reach(q)
      BY <2>3, <2>6, SameNames DEF Tidy
    <2>8. \A m \in TableNames : d.tables[m] # Null => d.tables[m] \in TableIds
      BY DEF Db
    <2>9. Named(q)
      BY <2>3, <2>6, <2>8 DEF Tidy, Named, Unusable
    <2>10. Tidy(bs, q)
      BY <2>5, <2>7, <2>9 DEF Tidy
    <2> QED BY <2>1, <2>10 DEF bs, t
  <1> QED BY <1>1, <1>2

\* A connection creates table t.
LEMMA CreateTidy ==
    ASSUME NEW cs \in [Conns -> Conn], NEW c \in Conns, NEW r \in Conn, cs[c].tab = Null,
           cs[c].ent = Null, r.ent = Null, NEW d \in Db, Tidy(cs, d), NEW n \in TableNames,
           d.tables[n] = Null, NEW t \in TableIds, ~ d.tabs[t].live, r.tab = t,
           UseCount(cs, d)[t] = 0
    PROVE  Tidy([cs EXCEPT ![c] = r], db_table_get_write(d, n, t).db)
  <1> DEFINE bs == [cs EXCEPT ![c] = r]
             y == [DeadTable EXCEPT !.live = TRUE, !.name = n, !.refs = 1]
             q == [d EXCEPT !.tables[n] = t, !.tabs[t] = y]
  <1>1. db_table_get_write(d, n, t).db = q
    BY DEF db_table_get_write, Return
  <1>2. y.live /\ ~ y.deleted /\ y.name = n /\ y.refs = 1 /\ \A h \in Hashes : y.slot[h] = Null
    BY DEF DeadTable
  <1>3. d.tabs \in [TableIds -> Table] /\ d.tables \in [TableNames -> TableIds \cup {Null}]
    BY DEF Db
  <1>4. q.tabs[t] = y /\ q.ents = d.ents /\ q.tables[n] = t /\ q.nameless = d.nameless
        /\ (\A s \in TableIds \ {t} : q.tabs[s] = d.tabs[s])
        /\ (\A m \in TableNames \ {n} : q.tables[m] = d.tables[m])
    <2> HIDE DEF y
    <2> QED BY <1>3 DEF Db
  <1> HIDE DEF q, y
  <1>5. \A s \in TableIds : UseCount(bs, q)[s] = UseCount(cs, d)[s] + (IF s = t THEN 1 ELSE 0)
    <2>1. q.ents = d.ents
      BY <1>4
    <2>2. Joined(cs, d, bs, q, r.tab)
      BY <2>1, OneMoreUser
    <2> QED BY <2>2, Zenon DEF Joined
  <1> HIDE DEF bs
  <1>6. ASSUME NEW s \in TableIds PROVE Tallied(q, s, UseCount(bs, q)[s])
    <2> DEFINE u == UseCount(cs, d)[s]
    <2>1. u \in Nat /\ Tallied(d, s, u) /\ UseCount(bs, q)[s] = u + (IF s = t THEN 1 ELSE 0)
      BY <1>5, UseNat DEF Tidy
    <2>2. s = t => u = 0
      OBVIOUS
    <2> HIDE DEF u
    <2>3. CASE s = t
      <3>1. Entries(q, t) = {}
        BY <1>2, <1>4 DEF Entries
      <3>2. Rest(q, t) = 1
        BY <1>2, <1>4, <3>1 DEF Rest, KeyRef
      <3> QED BY <1>2, <1>4, <2>1, <2>2, <2>3, <3>2 DEF Tallied
    <2>4. CASE s # t
      <3>1. q.tabs[s] = d.tabs[s] /\ UseCount(bs, q)[s] = u
        BY <1>4, <2>1, <2>4
      <3> QED BY <2>1, <3>1 DEF Tallied, Rest, KeyRef, Entries
    <2> QED BY <2>3, <2>4
  <1>7. Named(q)
    <2> SUFFICES ASSUME NEW m \in TableNames, q.tables[m] # Null
                 PROVE  ~ Unusable(q, q.tables[m]) /\ q.tabs[q.tables[m]].name = m
      BY DEF Named
    <2>1. CASE m = n
      BY <1>2, <1>4, <2>1 DEF Unusable
    <2>2. CASE m # n
      <3>1. q.tables[m] = d.tables[m] /\ d.tables[m] \in TableIds
        BY <1>3, <1>4, <2>2
      <3>2. ~ Unusable(d, d.tables[m]) /\ d.tabs[d.tables[m]].name = m
        BY <3>1 DEF Tidy, Named
      <3>3. q.tabs[d.tables[m]] = d.tabs[d.tables[m]]
        BY <1>4, <3>1, <3>2 DEF Unusable
      <3> QED BY <3>1, <3>2, <3>3 DEF Unusable
    <2> QED BY <2>1, <2>2
  <1>8. Reach(q)
    <2> SUFFICES ASSUME Ttls = {}, NEW s \in TableIds, ~ Unusable(q, s)
                 PROVE  q.tabs[s].name \in TableNames /\ q.tables[q.tabs[s].name] = s
      BY <1>4 DEF Tidy, Reach
    <2>1. CASE s = t
      BY <1>2, <1>4, <2>1
    <2>2. CASE s # t
      <3>1. q.tabs[s] = d.tabs[s]
        BY <1>4, <2>2
      <3>2. d.tabs[s].name \in TableNames /\ d.tables[d.tabs[s].name] = s
        BY <3>1 DEF Tidy, Reach, Unusable
      <3>3. d.tabs[s].name # n
        BY <3>2, DbAssumption
      <3> QED BY <1>4, <3>1, <3>2, <3>3
    <2> QED BY <2>1, <2>2
  <1>9. Tidy(bs, q)
    BY <1>6, <1>7, <1>8 DEF Tidy
  <1> QED BY <1>1, <1>9 DEF bs

\* Tables that nobody points to are forgotten.
LEMMA SettleTidy ==
    ASSUME NEW cs \in [Conns -> Conn], NEW d \in Db, Tidy(cs, d), NEW b \in BOOLEAN,
           \A c \in Conns : cs[c].ent # Null => d.ents[cs[c].ent].live
    PROVE  Tidy(cs, Settled(d, cs, b))
  <1> DEFINE L == {t \in TableIds : d.tabs[t].live /\
                     t \notin {cs[c].tab : c \in Conns} \cup {d.tables[n] : n \in TableNames}
                              \cup {d.ents[e].tab : e \in {f \in EntryIds : d.ents[f].live}}}
             r == Settled(d, cs, b)
             T == [t \in TableIds |-> IF t \in L THEN DeadTable ELSE d.tabs[t]]
  <1>1. r.tabs = T /\ r.tables = d.tables /\ r.nameless = d.nameless /\ r.ents = d.ents
    <2>1. Settle(d, cs) = [d EXCEPT !.tabs = T]
      BY DEF Settle
    <2> HIDE DEF T
    <2> QED BY <2>1 DEF Settled, Db
  <1>2. \A t \in TableIds : IF t \in L THEN r.tabs[t] = DeadTable ELSE r.tabs[t] = d.tabs[t]
    BY <1>1
  <1>3. \A c \in Conns : cs[c].ent # Null => cs[c].ent \in EntryIds
    BY DEF Conn
  <1>4. \A t \in L : UsersIn(cs, d, t) = {}
    BY <1>3 DEF UsersIn
  <1> HIDE DEF L, T, r
  <1>5. UseCount(cs, r) = UseCount(cs, d)
    BY <1>1 DEF UseCount, UsersIn
  <1>6. ASSUME NEW t \in TableIds PROVE Tallied(r, t, UseCount(cs, r)[t])
    <2> DEFINE u == UseCount(cs, d)[t]
    <2>1. Tallied(d, t, u) /\ u \in Nat /\ UseCount(cs, r)[t] = u
      BY <1>5, UseNat DEF Tidy
    <2>2. CASE t \in L
      <3>1. ~ (u > 0)
        BY <1>4, <2>2, Used
      <3>2. ~ r.tabs[t].live
        BY <1>2, <2>2 DEF DeadTable
      <3> QED BY <2>1, <3>1, <3>2 DEF Tallied
    <2>3. CASE t \notin L
      <3>1. r.tabs[t] = d.tabs[t]
        BY <1>2, <2>3
      <3> HIDE DEF u
      <3> QED BY <2>1, <3>1 DEF Tallied, Rest, KeyRef, Entries
    <2> QED BY <2>2, <2>3
  <1>7. Named(r)
    BY SettleView DEF Tidy, r
  <1>8. Reach(r)
    <2> SUFFICES ASSUME Ttls = {}, NEW t \in TableIds, ~ Unusable(r, t)
                 PROVE  r.tabs[t].name \in TableNames /\ r.tables[r.tabs[t].name] = t
      BY <1>1 DEF Tidy, Reach
    <2>1. r.tabs[t] = d.tabs[t]
      BY <1>2 DEF Unusable, DeadTable
    <2> QED BY <1>1, <2>1 DEF Tidy, Reach, Unusable
  <1> QED BY <1>6, <1>7, <1>8 DEF Tidy, r

\* The invariant, and a step of c from it.
TInv == OInv /\ Tidy(conn, db)
Tending(c) == Handling(c) /\ Tidy(conn, db)

\* What it says of connection c.
LEMMA Tended ==
    ASSUME NEW c \in Conns, Tending(c)
    PROVE  /\ Handling(c) /\ SInv /\ conn \in [Conns -> Conn] /\ Apart(conn) /\ db \in Db
           /\ conn[c] \in Conn /\ ConnOK(db, conn[c]) /\ Fine(db, 0)
           /\ Sound(db, HoldCount(conn), UseCount(conn, db))
           /\ Covered(db, HoldCount(conn), UseCount(conn, db))
           /\ HeldBy(conn) = InUse(HoldCount(conn)) /\ Tidy(conn, db)
  <1>1. Handling(c) /\ SInv /\ Fine(db, 0) /\ Tidy(conn, db)
    BY Handled DEF Tending
  <1>2. Apart(conn)
    BY <1>1, ConnFields DEF Apart, ConnOK
  <1> QED BY <1>1, <1>2, ConnFields, HeldInUse

\* The step of handler and loop.
LEMMA StepTidy ==
    ASSUME NEW c \in Conns, Tending(c), NEW d \in Db, NEW r, Step(c, d, r),
           Tidy([conn EXCEPT ![c] = r], d)
    PROVE  Tidy(conn, db)'
  <1> DEFINE cs == [conn EXCEPT ![c] = r]
             b == ~ db.orphan
  <1>1. SInv /\ SInv'
    BY Tended DEF Handling
  <1>2. conn' = cs /\ db' = Settled(d, conn', b) /\ b \in BOOLEAN
    BY DEF Step, Settled
  <1>3. db'.ents = d.ents
    BY <1>1, StepView
  <1>4. conn' \in [Conns -> Conn] /\ \A a \in Conns : conn'[a].ent # Null => d.ents[conn'[a].ent].live
    BY <1>1, <1>3 DEF SInv, ConnOK
  <1> HIDE DEF cs, b
  <1>5. Tidy(conn', d)
    BY <1>2 DEF cs
  <1>6. Tidy(conn', db')
    BY <1>2, <1>4, <1>5, SettleTidy
  <1>7. UseCount(conn, db)' = UseCount(conn', db')
    BY DEF UseCount, UsersIn
  <1>8. Reach(db)' = Reach(db') /\ Named(db)' = Named(db')
    BY DEF Reach, Named, Unusable
  <1> QED BY <1>6, <1>7, <1>8 DEF Tidy, Tallied, Rest, KeyRef, Entries

\* Connection c keeps its table and its entry.
LEMMA KeepTidy ==
    ASSUME NEW c \in Conns, Tending(c), NEW d \in Db, NEW r, Step(c, d, r),
           r.ent = conn[c].ent, r.tab = conn[c].tab, Tidy(conn, d)
    PROVE  Tidy(conn, db)'
  <1> DEFINE cs == [conn EXCEPT ![c] = r]
  <1>1. conn \in [Conns -> Conn]
    BY Tended
  <1>2. cs[c] = r /\ \A b \in Conns \ {c} : cs[b] = conn[b]
    BY <1>1
  <1> HIDE DEF cs
  <1>3. \A t \in TableIds : UsersIn(cs, d, t) = UsersIn(conn, d, t)
    BY <1>2 DEF UsersIn
  <1>4. Tidy(cs, d)
    BY <1>3, SameTidy
  <1> QED BY <1>4, StepTidy DEF cs

\* The database keeps its tables and their entries.
LEMMA PlacesTidy ==
    ASSUME NEW c \in Conns, Tending(c), NEW d \in Db, d.tabs = db.tabs, d.tables = db.tables,
           d.nameless = db.nameless,
           \A e \in EntryIds : d.ents[e].tab = db.ents[e].tab
    PROVE  Tidy(conn, d)
  <1>1. \A b \in Conns : conn[b].ent # Null => conn[b].ent \in EntryIds
    BY Tended DEF Conn
  <1>2. \A t \in TableIds : UsersIn(conn, d, t) = UsersIn(conn, db, t)
    BY <1>1 DEF UsersIn
  <1> QED BY <1>2, Tended, SameTidy

\* A connection goes on to its next handler.
LEMMA GotoTidy ==
    ASSUME NEW c \in Conns, Tending(c), NEW d \in Db, NEW where, Goto(c, d, where), Tidy(conn, d)
    PROVE  Tidy(conn, db)'
  <1> DEFINE x == conn[c]
             r == [x EXCEPT !.at = where]
  <1>1. r.ent = x.ent /\ r.tab = x.tab
    BY Tended DEF Conn
  <1>2. Step(c, d, r)
    BY DEF Goto
  <1> HIDE DEF r
  <1> QED BY <1>1, <1>2, KeepTidy

\* A fault changes no table.
LEMMA FaultTidy ==
    ASSUME NEW c \in Conns, Tending(c), NEW what \in Faults, Step(c, Fault(db, what), conn[c])
    PROVE  Tidy(conn, db)'
  <1> DEFINE d == Fault(db, what)
  <1>1. SameCore(db, d)
    BY Tended, FaultCore
  <1> HIDE DEF d
  <1>2. Tidy(conn, d)
    BY <1>1, PlacesTidy DEF SameCore, SameEntry
  <1>3. Step(c, d, conn[c]) /\ d \in Db
    BY <1>1 DEF d, SameCore
  <1> QED BY <1>2, <1>3, KeepTidy

\* Nor does misusing one.
LEMMA MisusedTidy ==
    ASSUME NEW c \in Conns, Tending(c), NEW t, Step(c, Misused(db, t), conn[c])
    PROVE  Tidy(conn, db)'
  BY FaultTidy DEF Misused, Faults

\* EndPut, EndGet, EndList, EndBulk, HeadRefused, BodyFailed and KeyRefused.
LEMMA QuietTidy ==
    ASSUME NEW c \in Conns, Tending(c),
           \/ EndPut(c) \/ EndGet(c) \/ EndList(c) \/ EndBulk(c) \/ HeadRefused(c)
           \/ BodyFailed(c) \/ KeyRefused(c)
    PROVE  Tidy(conn, db)'
  <1>1. PICK where \in {"reply", "body", "send", "list"} : Goto(c, db, where)
    BY DEF EndPut, EndGet, EndList, EndBulk, HeadRefused, BodyFailed, KeyRefused, Goto
  <1> QED BY <1>1, Tended, GotoTidy

\* DELETE of a key.
LEMMA EndDeleteTidy == ASSUME NEW c \in Conns, Tending(c), EndDelete(c) PROVE Tidy(conn, db)'
  <1> DEFINE e == conn[c].ent
             d == db_entry_handle_delete(db, e)
             H == HoldCount(conn)
             U == UseCount(conn, db)
  <1>1. Goto(c, IF e = Null THEN db ELSE d, "reply")
    BY DEF EndDelete
  <1>2. Sound(db, H, U) /\ Covered(db, H, U) /\ Fine(db, 0) /\ db \in Db /\ SInv
        /\ (e # Null => e \in EntryIds /\ H[e] > 0)
    BY Tended, ConnFields
  <1> HIDE DEF d, e, H, U
  <1>3. CASE e = Null
    BY <1>1, <1>3, Tended, GotoTidy
  <1>4. CASE e # Null
    <2>1. Ties(db, d, InUse(H))
      BY <1>2, <1>4, HandleDeleteTies DEF d
    <2>2. d \in Db
      BY <1>2, <1>4, HandleDelete DEF d, Sound, Base, Covered
    <2>3. Tidy(conn, d)
      BY <2>1, <2>2, Tended, TiesTidy DEF H
    <2> QED BY <1>1, <1>4, <2>2, <2>3, GotoTidy
  <1> QED BY <1>3, <1>4

\* The listing of a table.
LEMMA ListStepTidy == ASSUME NEW c \in Conns, Tending(c), ListStep(c) PROVE Tidy(conn, db)'
  <1>1. db \in Db /\ conn[c] \in Conn /\ Tidy(conn, db)
    BY Tended
  <1>2. ASSUME NEW e \in Entries(db, conn[c].tab), Step(c, db, [conn[c] EXCEPT !.peek = e])
        PROVE  Tidy(conn, db)'
    <2> DEFINE r == [conn[c] EXCEPT !.peek = e]
    <2>1. r.tab = conn[c].tab /\ r.ent = conn[c].ent
      BY <1>1 DEF Conn
    <2>2. Step(c, db, r)
      BY <1>2
    <2> HIDE DEF r
    <2> QED BY <1>1, <2>1, <2>2, KeepTidy
  <1>3. "freed key" \in Faults /\ "no buckets" \in Faults
    BY DEF Faults
  <1> QED BY <1>2, <1>3, FaultTidy, MisusedTidy DEF ListStep

\* X-Ttl.
LEMMA XTtlTidy ==
    ASSUME NEW c \in Conns, Tending(c), NEW ttl \in Ttls, XTtl(c, ttl)
    PROVE  Tidy(conn, db)'
  <1> DEFINE n == now + ttl
             e == conn[c].ent
             y == [db.ents[e] EXCEPT !.exp = n]
             d == [db EXCEPT !.ents[e].exp = n]
  <1>1. db \in Db /\ e \in EntryIds /\ Step(c, d, conn[c])
    BY Handled, Tended DEF XTtl, Header
  <1>2. n \in Nat /\ Ttls # {}
    BY Handled, Tended, ServerAssumption
  <1> HIDE DEF n
  <1>3. Alike(db, d)
    BY <1>1, <1>2, ExpiryAlike
  <1>4. d.tabs = db.tabs /\ d.tables = db.tables
        /\ d.nameless = db.nameless /\ d.ents = [db.ents EXCEPT ![e] = y]
    BY <1>1 DEF Db
  <1>5. y.tab = db.ents[e].tab
    BY <1>1 DEF Db, Entry
  <1> HIDE DEF y, d
  <1>6. \A f \in EntryIds : d.ents[f].tab = db.ents[f].tab
    BY <1>1, <1>4, <1>5 DEF Db
  <1>7. Tidy(conn, d)
    BY <1>3, <1>4, <1>6, PlacesTidy DEF Alike
  <1> QED BY <1>1, <1>3, <1>7, KeepTidy DEF Alike

\* Content-Length.
LEMMA ContentLengthTidy ==
    ASSUME NEW c \in Conns, Tending(c), NEW len \in Lengths, ContentLength(c, len)
    PROVE  Tidy(conn, db)'
  <1> DEFINE x == conn[c]
             e == x.ent
             d == db_target_write_allocate(db, e, len)
             b == len > BlockLength
             r == [x EXCEPT !.fd = b]
  <1>1. /\ x \in Conn /\ Step(c, d, r) /\ e \in EntryIds /\ db.ents[e].live /\ db.ents[e].writing
        /\ Sound(db, HoldCount(conn), UseCount(conn, db)) /\ len \in Nat
    BY Tended, Handled, ServerAssumption DEF ContentLength, Header, ConnOK
  <1>2. r.ent = x.ent /\ r.tab = x.tab
    BY <1>1 DEF Conn
  <1>3. d \in Db /\ ButValue(db, d, e)
    BY <1>1, WriteAllocate DEF Sound, Base
  <1> HIDE DEF d, r
  <1>4. Tidy(conn, d)
    BY <1>3, PlacesTidy DEF ButValue
  <1> QED BY <1>1, <1>2, <1>3, <1>4, KeepTidy

\* The end of an upload.
LEMMA BodyDoneTidy == ASSUME NEW c \in Conns, Tending(c), BodyDone(c) PROVE Tidy(conn, db)'
  <1> DEFINE x == conn[c]
             e == x.ent
             d == db_complete_writing(db, e)
             r == [x EXCEPT !.at = "reply", !.writing = FALSE]
  <1>1. /\ x \in Conn /\ Step(c, IF x.writing THEN d ELSE db, r) /\ Tidy(conn, db) /\ db \in Db
        /\ Sound(db, HoldCount(conn), UseCount(conn, db))
        /\ x.writing => e \in EntryIds /\ db.ents[e].len > 0
    BY Tended, Handled DEF BodyDone, ConnOK
  <1>2. r.ent = x.ent /\ r.tab = x.tab
    BY <1>1 DEF Conn
  <1> HIDE DEF d, r
  <1>3. CASE x.writing
    <2>1. d \in Db /\ ButWriting(db, d, e)
      BY <1>1, <1>3, CompleteWriting DEF d, Sound, Base
    <2>2. Tidy(conn, d)
      BY <2>1, PlacesTidy DEF ButWriting
    <2> QED BY <1>1, <1>2, <1>3, <2>1, <2>2, KeepTidy
  <1>4. CASE ~ x.writing
    BY <1>1, <1>2, <1>4, KeepTidy
  <1> QED BY <1>3, <1>4

\* ADMIN /gc.
LEMMA AdminGcTidy == ASSUME NEW c \in Conns, Tending(c), AdminGc(c) PROVE Tidy(conn, db)'
  <1> DEFINE d == db_lru_gc(db, now)
             r == [Closed EXCEPT !.at = "reply", !.kind = "GC"]
             H == HoldCount(conn)
             U == UseCount(conn, db)
  <1>1. Step(c, d, r) /\ conn[c].at = "idle"
    BY DEF AdminGc
  <1>2. r.ent = Null /\ r.tab = Null
    BY DEF Closed
  <1>3. conn[c].ent = Null /\ conn[c].tab = Null
    BY <1>1, Tended DEF ConnOK
  <1>4. Sound(db, H, U) /\ Covered(db, H, U) /\ Fine(db, 0) /\ now \in Nat
    BY Tended, Handled
  <1> HIDE DEF d, r, H, U
  <1>5. Ties(db, d, InUse(H))
    BY <1>4, GcTies DEF d
  <1>6. d \in Db
    BY <1>4, GcFine DEF d, Fine
  <1>7. Tidy(conn, d)
    BY <1>5, <1>6, Tended, TiesTidy DEF H
  <1> QED BY <1>1, <1>2, <1>3, <1>6, <1>7, KeepTidy

\* The connection after a step.
LEMMA NextConn ==
    ASSUME NEW c \in Conns, Tending(c), NEW d, NEW r, Step(c, d, r)
    PROVE  r \in Conn
  <1>1. conn' \in [Conns -> Conn]
    BY DEF Tending, Handling, SInv
  <1>2. conn'[c] = r
    BY Tended DEF Step
  <1> QED BY <1>1, <1>2

\* A connection finds a table by its name, or does not.
LEMMA FoundByName ==
    ASSUME NEW c \in Conns, Tending(c), conn[c].at = "idle", NEW n \in TableNames, NEW where,
           NEW kind, NEW q, q = db_table_get_read(db, n), Step(c, q.db, Asking(where, kind, q.ret))
    PROVE  Tidy(conn, db)'
  <1> DEFINE r == Asking(where, kind, q.ret)
  <1>1. r.ent = Null /\ r.tab = q.ret
    BY DEF Asking, Closed
  <1>2. Step(c, q.db, r)
    OBVIOUS
  <1> HIDE DEF r
  <1>3. r \in Conn
    BY <1>2, NextConn
  <1>4. conn[c].ent = Null /\ conn[c].tab = Null /\ db \in Db
    BY Tended DEF ConnOK
  <1>5. q.db \in Db
    BY <1>4, TableGetReadAlike DEF Alike
  <1>6. Tidy([conn EXCEPT ![c] = r], q.db)
    BY <1>1, <1>3, <1>4, Tended, FindTidy
  <1> QED BY <1>2, <1>5, <1>6, StepTidy

\* LIST, DROP and BULK.
LEMMA TableRequestTidy ==
    ASSUME NEW c \in Conns, Tending(c), NEW kind, NEW n \in TableNames, TableRequest(c, kind, n)
    PROVE  Tidy(conn, db)'
  <1> DEFINE q == db_table_get_read(db, n)
  <1>1. Step(c, q.db, Asking("tablehead", kind, q.ret)) /\ conn[c].at = "idle"
    BY Zenon DEF TableRequest, Asking
  <1>2. \E p : p = q /\ Step(c, p.db, Asking("tablehead", kind, p.ret))
    BY <1>1
  <1> QED BY <1>1, <1>2, FoundByName

\* The request line of a request for a key.
LEMMA KeyRequestTidy ==
    ASSUME NEW c \in Conns, Tending(c), NEW kind, NEW n \in TableNames, KeyRequest(c, kind, n)
    PROVE  Tidy(conn, db)'
  <1> DEFINE t == Min(FreshTables)
             create == kind \in {"PUT", "PURGE"}
             q == IF create THEN db_table_get_write(db, n, t) ELSE db_table_get_read(db, n)
             where == IF q.ret = Null THEN "reply" ELSE "url"
  <1>1. /\ Step(c, q.db, Asking(where, kind, q.ret)) /\ conn[c].at = "idle"
        /\ create /\ db.tables[n] = Null => FreshTables # {}
    BY Zenon DEF KeyRequest, Asking
  <1>2. CASE ~ create \/ db.tables[n] # Null
    <2>1. q = db_table_get_read(db, n)
      BY <1>2 DEF db_table_get_write
    <2> HIDE DEF q, where
    <2> QED BY <1>1, <2>1, FoundByName
  <1>3. CASE create /\ db.tables[n] = Null
    <2> DEFINE p == db_table_get_write(db, n, t)
               r == Asking(where, kind, p.ret)
    <2>1. q = p /\ p.ret = t
      BY <1>3 DEF db_table_get_write, Return
    <2>2. t \in TableIds /\ ~ db.tabs[t].live /\ UseCount(conn, db)[t] = 0
      BY <1>1, <1>3, Tended, FreshTable
    <2>3. r.ent = Null /\ r.tab = p.ret
      BY DEF Asking, Closed
    <2>4. Step(c, p.db, r)
      BY <1>1, <2>1
    <2> HIDE DEF q, where, t, r
    <2>5. r \in Conn
      BY <2>4, NextConn
    <2>6. conn[c].ent = Null /\ conn[c].tab = Null /\ db \in Db
      BY <1>1, Tended DEF ConnOK
    <2>7. p.db \in Db
      <3>1. Fine(db, 0)
        BY Tended
      <3> QED BY <2>2, <3>1, TableGetWriteAlike DEF Alike
    <2>8. Tidy([conn EXCEPT ![c] = r], p.db)
      BY <1>3, <2>1, <2>2, <2>3, <2>5, <2>6, Tended, CreateTidy
    <2> QED BY <2>4, <2>7, <2>8, StepTidy
  <1> QED BY <1>2, <1>3

\* Connection c gives back the reference on its table, after a change of the database.
LEMMA GiveBackTidy ==
    ASSUME NEW c \in Conns, Tending(c), NEW t \in TableIds, conn[c].tab = t, conn[c].ent = Null,
           NEW q \in Db, Tidy(conn, q), NEW r, r.tab = Null, r.ent = Null,
           Step(c, db_table_deref(q, t, FALSE), r)
    PROVE  Tidy(conn, db)'
  <1> DEFINE d == db_table_deref(q, t, FALSE)
  <1>1. UsesOnly(conn, q, c, t)
    BY DbAssumption DEF UsersIn, UsesOnly
  <1>2. UseCount(conn, q)[t] > 0
    BY <1>1, Used DEF UsesOnly
  <1>3. q.tabs[t].live
    BY <1>2 DEF Tidy, Tallied
  <1>4. Released(q, d, t) /\ d.ents = q.ents /\ d \in Db
    BY <1>3, TableDerefShape
  <1>5. r \in Conn /\ conn \in [Conns -> Conn] /\ Step(c, d, r)
    BY Tended, NextConn
  <1> HIDE DEF d
  <1>6. Tidy([conn EXCEPT ![c] = r], d)
    <2>1. OthersTied(conn, q, d, c)
      BY <1>4 DEF OthersTied
    <2> QED BY <1>1, <1>4, <1>5, <2>1, LeaveTidy
  <1> QED BY <1>4, <1>5, <1>6, StepTidy

\* What a look-up finds goes with the connection.
LEMMA FoundTidy ==
    ASSUME NEW c \in Conns, Tending(c), NEW x, x = conn[c], x.at = "url",
           NEW q, q.db \in Db, GivesOut(db, q, InUse(HoldCount(conn)), x.tab),
           NEW r, r.tab = Null, r.ent = q.ret,
           NEW d, d = IF q.ret = Null THEN db_table_deref(q.db, x.tab, FALSE) ELSE q.db,
           Step(c, d, r)
    PROVE  Tidy(conn, db)'
  <1>1. x.ent = Null /\ x.tab \in TableIds /\ r \in Conn
    BY Tended, NextConn DEF ConnOK, Conn
  <1>2. CASE q.ret = Null
    <2>1. Ties(db, q.db, HeldBy(conn))
      BY <1>2, Tended DEF GivesOut
    <2>2. Tidy(conn, q.db)
      BY <2>1, Tended, TiesTidy
    <2>3. Step(c, db_table_deref(q.db, x.tab, FALSE), r)
      BY <1>2
    <2> QED BY <1>1, <1>2, <2>2, <2>3, GiveBackTidy
  <1>3. CASE q.ret # Null
    <2>1. Hands(db, q.db, HeldBy(conn), r.ent, x.tab)
      BY <1>3, Tended DEF GivesOut
    <2>2. Tidy([conn EXCEPT ![c] = r], q.db)
      BY <1>1, <1>3, <2>1, Tended, HandsTidy
    <2>3. d = q.db
      BY <1>3
    <2> QED BY <2>2, <2>3, StepTidy
  <1> QED BY <1>2, <1>3

\* http_key_lookup.
LEMMA KeyLookupTidy ==
    ASSUME NEW c \in Conns, Tending(c), NEW k \in Keys, KeyLookup(c, k)
    PROVE  Tidy(conn, db)'
  <1> DEFINE x == conn[c]
             q == CASE x.kind = "GET"    -> db_entry_get_read(db, x.tab, k, now)
                    [] x.kind = "PUT"    -> db_entry_get_write(db, x.tab, k, now, Min(FreshEntries))
                    [] x.kind = "DELETE" -> db_entry_get_delete(db, x.tab, k)
             d == IF q.ret = Null THEN db_table_deref(q.db, x.tab, FALSE) ELSE q.db
             fd == Opens(x, q.db, q.ret)
             writing == x.kind = "PUT" /\ q.ret # Null
             key == IF q.ret = Null THEN Null ELSE k
             r == Found(x, q.ret, key, fd, writing)
             H == HoldCount(conn)
             U == UseCount(conn, db)
  <1>1. CASE Unusable(db, x.tab)
    BY <1>1, MisusedTidy DEF KeyLookup
  <1>2. CASE ~ Unusable(db, x.tab)
    <2>1. x.at = "url" /\ (x.kind = "PUT" => FreshEntries # {})
      BY <1>2 DEF KeyLookup
    <2>2. Step(c, d, r)
      BY <1>2, ZenonT(60) DEF KeyLookup, Found
    <2>3. /\ x.kind \in {"GET", "PUT", "DELETE"} /\ Fine(db, 0) /\ x.tab \in TableIds
          /\ now \in Nat /\ SInv /\ Sound(db, H, U) /\ Covered(db, H, U) /\ U[x.tab] > 0
      BY <2>1, Handled, Tended, ConnFields DEF ConnOK, KeyKinds, KeyLookup
    <2> HIDE DEF H, U
    <2>4. Fine(q.db, 0) /\ GivesOut(db, q, InUse(H), x.tab)
      <3> HIDE DEF x
      <3>1. CASE x.kind = "GET"
        <4>1. q = db_entry_get_read(db, x.tab, k, now)
          BY <3>1
        <4> HIDE DEF q
        <4> QED BY <2>3, <4>1, GetReadFine, GetReadHands DEF Got
      <3>2. CASE x.kind = "PUT"
        <4> DEFINE e == Min(FreshEntries)
        <4>1. q = db_entry_get_write(db, x.tab, k, now, e)
          BY <3>2
        <4>2. e \in EntryIds /\ ~ db.ents[e].live /\ H[e] = 0
          BY <2>1, <2>3, <3>2, FreshEntry DEF H
        <4> HIDE DEF q, e
        <4> QED BY <1>2, <2>3, <4>1, <4>2, GetWriteFine, GetWriteHands DEF Got, x
      <3>3. CASE x.kind = "DELETE"
        <4> DEFINE p == db_entry_get_delete(db, x.tab, k)
        <4>1. q = p
          BY <3>3
        <4>2. Got(db, p, 0) /\ Alike(db, p.db)
          BY <2>3, GetDeleteFine
        <4>3. GivesOut(db, p, InUse(H), x.tab)
          BY <2>3, GetDeleteHands
        <4> HIDE DEF q, p
        <4> QED BY <4>1, <4>2, <4>3 DEF Got
      <3> QED BY <2>3, <3>1, <3>2, <3>3
    <2>5. fd \in BOOLEAN /\ writing \in BOOLEAN
      BY DEF Opens
    <2>6. d = IF q.ret = Null THEN db_table_deref(q.db, x.tab, FALSE) ELSE q.db
      BY SMTT(60)
    <2> HIDE DEF q, d, fd, writing, key
    <2>7. r.tab = Null /\ r.ent = q.ret
      BY Tended, Zenon DEF Found, Conn
    <2> HIDE DEF r
    <2> QED BY <2>1, <2>2, <2>4, <2>6, <2>7, FoundTidy DEF Fine, H
  <1> QED BY <1>1, <1>2

\* One more entry is held.
LEMMA HeldMore ==
    ASSUME NEW cs \in [Conns -> Conn], NEW c \in Conns, NEW r \in Conn, cs[c].ent = Null,
           r.ent # Null
    PROVE  HeldBy([cs EXCEPT ![c] = r]) = HeldBy(cs) \cup {r.ent}
  <1> DEFINE bs == [cs EXCEPT ![c] = r]
  <1>1. bs[c] = r /\ \A b \in Conns \ {c} : bs[b] = cs[b]
    OBVIOUS
  <1> HIDE DEF bs
  <1>2. r.ent \in EntryIds
    BY DEF Conn
  <1>3. ASSUME NEW e \in EntryIds PROVE e \in HeldBy(bs) <=> e \in HeldBy(cs) \cup {r.ent}
    <2>1. e # Null
      BY DbAssumption
    <2>2. e \in HeldBy(bs) <=> e = r.ent \/ \E b \in Conns \ {c} : cs[b].ent = e
      BY <1>1 DEF HeldBy
    <2>3. e \in HeldBy(cs) <=> \E b \in Conns \ {c} : cs[b].ent = e
      BY <2>1 DEF HeldBy
    <2> QED BY <2>2, <2>3
  <1>4. HeldBy(bs) \subseteq EntryIds /\ HeldBy(cs) \subseteq EntryIds
    BY DEF HeldBy
  <1>5. HeldBy(bs) = HeldBy(cs) \cup {r.ent}
    BY <1>2, <1>3, <1>4
  <1> QED BY <1>5 DEF bs

\* The entries that other connections hold stay where they are when e is left.
LEMMA OthersHold ==
    ASSUME NEW c \in Conns, Tending(c), NEW e \in EntryIds, NEW d, NEW b, NEW p,
           DerefdEntry(d, p, e, b), NEW r, Step(c, p, r)
    PROVE  OthersTied(conn, d, p, c)
  <1>1. SInv /\ SInv' /\ p \in Db
    BY Tended DEF Handling, DerefdEntry
  <1>2. db'.ents = p.ents /\ \A a \in Conns \ {c} : conn'[a] = conn[a]
    BY <1>1, StepView
  <1>3. ASSUME NEW a \in Conns \ {c}, conn[a].ent # Null
        PROVE  p.ents[conn[a].ent].tab = d.ents[conn[a].ent].tab
    <2>1. p.ents[conn[a].ent].live
      BY <1>1, <1>2, <1>3 DEF SInv, ConnOK
    <2>2. conn[a].ent \in EntryIds
      BY <1>3, Tended DEF Conn
    <2>3. CASE conn[a].ent = e
      BY <2>1, <2>3 DEF DerefdEntry
    <2>4. CASE conn[a].ent # e
      BY <2>2, <2>4 DEF DerefdEntry
    <2> QED BY <2>3, <2>4
  <1> QED BY <1>3 DEF OthersTied

\* X-Delete: the entry is held while it is deleted.
LEMMA XDeleteTidy ==
    ASSUME NEW c \in Conns, Tending(c), NEW k \in Keys, XDelete(c, k)
    PROVE  Tidy(conn, db)'
  <1> DEFINE x == conn[c]
             t == x.tab
             q == db_entry_get_delete(db, t, k)
             e == q.ret
             d1 == db_entry_handle_delete(q.db, e)
             p == db_entry_deref(d1, e, FALSE)
             tab == IF d1.ents[e].tab = Null THEN Null ELSE t
             r == IF d1.ents[e].tab = Null THEN [x EXCEPT !.tab = Null] ELSE x
             H == HoldCount(conn)
             U == UseCount(conn, db)
  <1>1. /\ t \in TableIds /\ t # Null /\ x \in Conn /\ x.ent = Null /\ Fine(db, 0)
        /\ Sound(db, H, U) /\ Covered(db, H, U) /\ U[t] > 0 /\ H \in Counts /\ SInv
        /\ conn \in [Conns -> Conn]
    BY Tended, ConnFields, CountTypes DEF XDelete, Header, ConnOK
  <1>2. CASE Unusable(db, t)
    BY <1>2, MisusedTidy DEF XDelete
  <1>3. CASE ~ Unusable(db, t) /\ e = Null
    <2>1. Step(c, q.db, x)
      BY Zenon, <1>3 DEF XDelete
    <2>2. Got(db, q, 0)
      BY <1>1, GetDeleteFine
    <2>3. GivesOut(db, q, InUse(H), t)
      BY <1>1, GetDeleteHands
    <2> HIDE DEF q, H, U
    <2>4. Ties(db, q.db, HeldBy(conn)) /\ q.db \in Db
      BY <1>3, <2>2, <2>3, Tended DEF GivesOut, Got, Fine, H
    <2>5. Tidy(conn, q.db)
      BY <2>4, Tended, TiesTidy
    <2> QED BY <2>1, <2>4, <2>5, KeepTidy
  <1>4. CASE ~ Unusable(db, t) /\ e # Null
    <2>1. Step(c, p, r)
      BY Zenon, <1>4 DEF XDelete
    <2>2. Got(db, q, 0)
      BY <1>1, GetDeleteFine
    <2>3. GivesOut(db, q, InUse(H), t)
      BY <1>1, GetDeleteHands
    <2>4. e \in EntryIds /\ Taken(db, q.db, H, U, e, t)
      BY <1>1, <1>4, EntryGetDelete
    <2>5. r.ent = Null /\ r.tab = tab
      BY <1>1 DEF Conn
    <2> DEFINE z == [x EXCEPT !.tab = Null, !.ent = e]
               cs == [conn EXCEPT ![c] = z]
               G == [H EXCEPT ![e] = @ + 1]
    <2>6. z \in Conn /\ z.tab = Null /\ z.ent = e
      BY <1>1, <2>4 DEF Conn
    <2> HIDE DEF q, d1, p, r, z
    <2>7. cs \in [Conns -> Conn] /\ cs[c] = z /\ (\A b \in Conns \ {c} : cs[b] = conn[b])
      BY <1>1, <2>6
    <2>8. Apart(cs)
      BY <2>6, <2>7, Tended DEF Apart
    <2>9. q.db \in Db /\ Fine(q.db, 0)
      BY <2>2 DEF Got, Fine
    <2>10. Tidy(cs, q.db)
      <3>1. Hands(db, q.db, HeldBy(conn), z.ent, t)
        BY <1>4, <2>3, <2>6, Tended DEF GivesOut
      <3> QED BY <1>1, <1>4, <2>6, <2>9, <3>1, Tended, HandsTidy
    <2>11. HeldBy(cs) = HeldBy(conn) \cup {e}
      <3>1. x.ent = Null /\ z.ent # Null
        BY <1>1, <1>4, <2>6
      <3>2. HeldBy(cs) = HeldBy(conn) \cup {z.ent}
        BY <1>1, <2>6, <3>1, HeldMore
      <3> QED BY <2>6, <3>2
    <2> HIDE DEF cs, H, U
    <2>12. ButFor(H, G, e) /\ G[e] = H[e] + 1 /\ G[e] > 0
           /\ \A f \in EntryIds : f # e => G[f] = H[f]
      BY <1>1, <2>4 DEF ButFor, Counts
    <2>13. InUse(G) = HeldBy(cs)
      <3>1. HeldBy(conn) = InUse(H)
        BY Tended DEF H
      <3> HIDE DEF G
      <3> QED BY <2>4, <2>11, <2>12, <3>1 DEF InUse
    <2> HIDE DEF G
    <2>14. Sound(q.db, G, U) /\ q.db.ents[e].tab = t /\ Keeps(db, q.db, H)
      BY <2>4, <2>12 DEF Taken
    <2>15. Covered(q.db, G, U)
      BY <1>1, <2>12, <2>14, DbAssumption DEF Covered, Keeps
    <2>16. Sound(d1, G, U) /\ Keeps(q.db, d1, G)
      BY <1>1, <2>4, <2>12, <2>14, HandleDelete DEF d1
    <2>17. Ties(q.db, d1, HeldBy(cs))
      BY <2>4, <2>9, <2>12, <2>13, <2>14, <2>15, HandleDeleteTies DEF d1
    <2>18. d1 \in Db /\ d1.ents[e].tab \in {t, Null}
      BY <2>4, <2>12, <2>14, <2>16 DEF Sound, Base, Keeps
    <2>19. Tidy(cs, d1)
      BY <2>7, <2>8, <2>9, <2>10, <2>17, <2>18, TiesTidy
    <2>20. DerefdEntry(d1, p, e, FALSE)
      BY <2>4, <2>18, EntryDerefShape DEF p
    <2>21. OthersTied(conn, d1, p, c)
      BY <2>1, <2>4, <2>20, OthersHold
    <2>22. p.tabs = d1.tabs /\ p.tables = d1.tables /\ p.nameless = d1.nameless /\ p \in Db
      BY <2>20 DEF DerefdEntry
    <2> DEFINE bs == [conn EXCEPT ![c] = r]
    <2>23. bs[c] = r /\ (\A b \in Conns \ {c} : bs[b] = conn[b])
      BY <1>1
    <2> HIDE DEF bs
    <2>24. ASSUME NEW s \in TableIds PROVE UsersIn(bs, p, s) = UsersIn(cs, d1, s)
      <3>1. s # Null
        BY DbAssumption
      <3>2. c \in UsersIn(cs, d1, s) <=> d1.ents[e].tab = s
        BY <1>4, <2>6, <2>7, <3>1 DEF UsersIn
      <3>3. c \in UsersIn(bs, p, s) <=> d1.ents[e].tab = s
        BY <2>5, <2>18, <2>23, <3>1 DEF UsersIn
      <3>4. \A b \in Conns \ {c} : b \in UsersIn(cs, d1, s) <=> b \in UsersIn(bs, p, s)
        BY <2>7, <2>21, <2>23 DEF UsersIn, OthersTied
      <3>5. UsersIn(cs, d1, s) \subseteq Conns /\ UsersIn(bs, p, s) \subseteq Conns
        BY DEF UsersIn
      <3> QED BY <3>2, <3>3, <3>4, <3>5
    <2>25. Tidy(bs, p)
      BY <2>19, <2>22, <2>24, SameTidy
    <2> QED BY <2>1, <2>22, <2>25, StepTidy DEF bs
  <1> QED BY <1>2, <1>3, <1>4

\* The upload that ends is deleted, unless it was.
LEMMA AbortTidy ==
    ASSUME NEW c \in Conns, Tending(c), conn[c].writing
    PROVE  Abort(conn[c], db) \in Db /\ Tidy(conn, Abort(conn[c], db))
  <1> DEFINE e == conn[c].ent
             d == db_entry_handle_delete(db, e)
             d1 == IF db.ents[e].deleted THEN db ELSE d
             q == [d1 EXCEPT !.ents[e].writing = FALSE]
             H == HoldCount(conn)
             U == UseCount(conn, db)
  <1>1. /\ Sound(db, H, U) /\ Covered(db, H, U) /\ Fine(db, 0) /\ db \in Db /\ SInv
        /\ e \in EntryIds /\ H[e] > 0
    BY Tended, ConnFields DEF ConnOK
  <1>2. Abort(conn[c], db) = q
    BY ZenonT(60) DEF Abort
  <1> HIDE DEF H, U
  <1>3. Ties(db, d, InUse(H))
    BY <1>1, HandleDeleteTies
  <1>4. d \in Db
    BY <1>1, HandleDelete DEF Sound, Base, Covered
  <1> HIDE DEF d
  <1>5. Tidy(conn, d1) /\ d1 \in Db
    BY <1>3, <1>4, Tended, TiesTidy DEF H
  <1> HIDE DEF d1
  <1>6. q = Written(d1, e)
    BY <1>1, <1>5, WrittenParts
  <1>7. q \in Db /\ q.tabs = d1.tabs /\ q.tables = d1.tables /\ q.nameless = d1.nameless
        /\ \A f \in EntryIds : q.ents[f].tab = d1.ents[f].tab
    <2> DEFINE y == [d1.ents[e] EXCEPT !.writing = FALSE]
    <2>1. y \in Entry /\ y.tab = d1.ents[e].tab
      <3>1. d1.ents[e] \in Entry
        BY <1>1, <1>5 DEF Db
      <3> QED BY <3>1 DEF Entry
    <2>2. q.ents = [d1.ents EXCEPT ![e] = y] /\ q.tabs = d1.tabs /\ q.tables = d1.tables
          /\ q.nameless = d1.nameless
      BY <1>1, <1>5 DEF Db
    <2>3. q = [d1 EXCEPT !.ents = [d1.ents EXCEPT ![e] = y]]
      BY <1>1, <1>5 DEF Db
    <2> HIDE DEF y
    <2>4. q \in Db
      BY <1>1, <1>5, <2>1, <2>3 DEF Db
    <2> HIDE DEF q
    <2> QED BY <1>1, <1>5, <2>1, <2>2, <2>4 DEF Db
  <1> HIDE DEF q
  <1>8. \A b \in Conns : conn[b].ent # Null => conn[b].ent \in EntryIds
    BY Tended DEF Conn
  <1>9. \A t \in TableIds : UsersIn(conn, q, t) = UsersIn(conn, d1, t)
    BY <1>7, <1>8 DEF UsersIn
  <1> QED BY <1>2, <1>5, <1>7, <1>9, SameTidy

\* The end of a request.
LEMMA CleanupTidy == ASSUME NEW c \in Conns, Tending(c), Cleanup(c) PROVE Tidy(conn, db)'
  <1> DEFINE x == conn[c]
             e == x.ent
  <1>1. Step(c, cache_destroy(x, db), Closed)
    BY DEF Cleanup
  <1>2. Closed.ent = Null /\ Closed.tab = Null
    BY DEF Closed
  <1>3. x \in Conn /\ conn \in [Conns -> Conn] /\ db \in Db /\ Tidy(conn, db) /\ ConnOK(db, x)
    BY Tended
  <1>4. CASE e # Null
    <2> DEFINE d0 == IF x.writing THEN Abort(x, db) ELSE db
               q  == IF x.fd /\ d0.ents[e].writing THEN db_entry_delete(d0, e) ELSE d0
               p  == db_entry_deref(q, e, TRUE)
               t  == q.ents[e].tab
    <2>1. Step(c, p, Closed)
      BY <1>1, <1>4 DEF cache_destroy, db_target_entry_close
    <2>2. e \in EntryIds /\ x.tab = Null
      BY <1>3, <1>4 DEF Conn, ConnOK
    <2>3. d0 \in Db /\ Tidy(conn, d0)
      BY <1>3, AbortTidy
    <2> HIDE DEF d0
    <2>4. q \in Db /\ Tidy(conn, q)
      <3>1. SameCore(d0, db_entry_delete(d0, e))
        BY <2>2, <2>3, EntryDeleteCore
      <3>2. q = d0 \/ SameCore(d0, q)
        BY <3>1
      <3> HIDE DEF q
      <3>3. CASE q = d0
        BY <2>3, <3>3
      <3>4. CASE SameCore(d0, q)
        <4>1. \A b \in Conns : conn[b].ent # Null => conn[b].ent \in EntryIds
          BY Tended DEF Conn
        <4>2. \A s \in TableIds : UsersIn(conn, q, s) = UsersIn(conn, d0, s)
          BY <3>4, <4>1 DEF UsersIn, SameCore, SameEntry
        <4> QED BY <2>3, <3>4, <4>2, SameTidy DEF SameCore
      <3> QED BY <3>2, <3>3, <3>4
    <2> HIDE DEF q, p
    <2>5. t \in TableIds \cup {Null}
      BY <2>2, <2>4, DbFields
    <2> HIDE DEF t
    <2>6. \A s \in TableIds : c \in UsersIn(conn, q, s) <=> s = t
      BY <1>4, <2>2, DbAssumption DEF UsersIn, t
    <2>7. t # Null => q.tabs[t].live
      <3> SUFFICES ASSUME t # Null PROVE q.tabs[t].live
        OBVIOUS
      <3>1. t \in TableIds /\ UseCount(conn, q)[t] > 0
        BY <2>5, <2>6, Used
      <3> QED BY <2>4, <3>1 DEF Tidy, Tallied
    <2>8. DerefdEntry(q, p, e, TRUE)
      BY <2>2, <2>4, <2>7, EntryDerefShape DEF p, t
    <2>9. OthersTied(conn, q, p, c)
      BY <2>1, <2>2, <2>8, OthersHold
    <2>10. Closed \in Conn /\ p \in Db
      BY <2>1, <2>8, NextConn DEF DerefdEntry
    <2>11. CASE t # Null
      <3>1. UsesOnly(conn, q, c, t) /\ t \in TableIds
        BY <2>5, <2>6, <2>11 DEF UsesOnly
      <3>2. Released(q, p, t)
        BY <2>8, <2>11 DEF DerefdEntry, t
      <3>3. Tidy([conn EXCEPT ![c] = Closed], p)
        BY <1>2, <1>3, <2>4, <2>9, <2>10, <3>1, <3>2, LeaveTidy
      <3> QED BY <2>1, <2>10, <3>3, StepTidy
    <2>12. CASE t = Null
      <3>1. p.tabs = q.tabs /\ p.tables = q.tables /\ p.nameless = q.nameless
        BY <2>8, <2>12 DEF DerefdEntry, t
      <3> DEFINE bs == [conn EXCEPT ![c] = Closed]
      <3>2. bs[c] = Closed /\ \A b \in Conns \ {c} : bs[b] = conn[b]
        BY <1>3
      <3> HIDE DEF bs
      <3>3. ASSUME NEW s \in TableIds PROVE UsersIn(bs, p, s) = UsersIn(conn, q, s)
        <4>1. s # Null
          BY DbAssumption
        <4>2. c \notin UsersIn(conn, q, s) /\ c \notin UsersIn(bs, p, s)
          BY <1>2, <2>6, <2>12, <3>2, <4>1 DEF UsersIn
        <4>3. \A b \in Conns \ {c} : b \in UsersIn(bs, p, s) <=> b \in UsersIn(conn, q, s)
          BY <2>9, <3>2 DEF UsersIn, OthersTied
        <4>4. UsersIn(bs, p, s) \subseteq Conns /\ UsersIn(conn, q, s) \subseteq Conns
          BY DEF UsersIn
        <4> QED BY <4>2, <4>3, <4>4
      <3>4. Tidy(bs, p)
        BY <2>4, <3>1, <3>3, SameTidy
      <3> QED BY <2>1, <2>10, <3>4, StepTidy DEF bs
    <2> QED BY <2>11, <2>12
  <1>5. CASE e = Null /\ x.tab # Null
    <2>1. Step(c, db_table_deref(db, x.tab, FALSE), Closed) /\ x.tab \in TableIds
      BY <1>1, <1>3, <1>5 DEF cache_destroy, Conn
    <2> QED BY <1>2, <1>3, <1>5, <2>1, GiveBackTidy
  <1>6. CASE e = Null /\ x.tab = Null
    <2>1. Step(c, db, Closed)
      BY <1>1, <1>6 DEF cache_destroy
    <2> QED BY <1>2, <1>3, <1>6, <2>1, KeepTidy
  <1> QED BY <1>4, <1>5, <1>6

\* No table is used at first.
LEMMA InitTidy == Init => TInv
  <1> SUFFICES ASSUME Init PROVE TInv
    OBVIOUS
  <1>1. OInv
    BY InitOrderly
  <1>2. /\ \A t \in TableIds : db.tabs[t] = DeadTable
        /\ \A n \in TableNames : db.tables[n] = Null
        /\ ~ db.nameless
        /\ \A c \in Conns : conn[c].tab = Null /\ conn[c].ent = Null
    BY DEF Init, EmptyDb, Closed
  <1>3. \A t \in TableIds : ~ db.tabs[t].live /\ Unusable(db, t)
    BY <1>2 DEF DeadTable, Unusable
  <1>4. ASSUME NEW t \in TableIds PROVE Tallied(db, t, UseCount(conn, db)[t])
    <2>1. UsersIn(conn, db, t) = {}
      BY <1>2, DbAssumption DEF UsersIn
    <2>2. UseCount(conn, db)[t] = 0
      BY <2>1, UseNat, FS_EmptySet
    <2> QED BY <1>3, <2>2 DEF Tallied
  <1>5. Named(db) /\ Reach(db)
    BY <1>2, <1>3, DbAssumption DEF Named, Reach
  <1> QED BY <1>1, <1>4, <1>5 DEF TInv, Tidy

\* A step that leaves database and connections alone.
LEMMA StutterTidy == ASSUME Tidy(conn, db), UNCHANGED <<db, conn>> PROVE Tidy(conn, db)'
  <1>1. db' = db /\ conn' = conn
    OBVIOUS
  <1>2. Tidy(conn', db')
    BY <1>1
  <1>3. UseCount(conn, db)' = UseCount(conn', db')
    BY DEF UseCount, UsersIn
  <1>4. Reach(db)' = Reach(db') /\ Named(db)' = Named(db')
    BY DEF Reach, Named, Unusable
  <1> QED BY <1>2, <1>3, <1>4 DEF Tidy, Tallied, Rest, KeyRef, Entries

\* Unless tables are dropped, every step keeps them tidy.
LEMMA NextTidy == ASSUME "DROP" \notin Requests PROVE TInv /\ [Next]_vars => TInv'
  <1> SUFFICES ASSUME TInv, [Next]_vars PROVE TInv'
    OBVIOUS
  <1>1. OInv /\ OInv' /\ SInv' /\ Tidy(conn, db)
    BY NextOrderly DEF TInv, OInv
  <1>2. CASE UNCHANGED vars \/ Tick
    <2>1. UNCHANGED <<db, conn>>
      BY <1>2 DEF vars, Tick
    <2> QED BY <1>1, <2>1, StutterTidy DEF TInv
  <1>3. ASSUME NEW c \in Conns, Runs(c) PROVE Tending(c)
    BY <1>1, <1>3 DEF Tending, Handling
  <1>4. ASSUME NEW c \in Conns, NEW kind \in Kinds, NEW n \in TableNames,
               KeyRequest(c, kind, n) \/ TableRequest(c, kind, n)
        PROVE  TInv'
    <2>1. Tending(c)
      BY <1>3, <1>4 DEF KeyRequest, TableRequest
    <2> QED BY <1>1, <1>4, <2>1, KeyRequestTidy, TableRequestTidy DEF TInv
  <1>5. ASSUME NEW c \in Conns, NEW k \in Keys, KeyLookup(c, k) \/ XDelete(c, k)
        PROVE  TInv'
    <2>1. Tending(c)
      BY <1>3, <1>5 DEF KeyLookup, XDelete, Header
    <2> QED BY <1>1, <1>5, <2>1, KeyLookupTidy, XDeleteTidy DEF TInv
  <1>6. ASSUME NEW c \in Conns, NEW len \in Lengths, ContentLength(c, len) PROVE TInv'
    <2>1. Tending(c)
      BY <1>3, <1>6 DEF ContentLength, Header
    <2> QED BY <1>1, <1>6, <2>1, ContentLengthTidy DEF TInv
  <1>7. ASSUME NEW c \in Conns, NEW ttl \in Ttls, XTtl(c, ttl) PROVE TInv'
    <2>1. Tending(c)
      BY <1>3, <1>7 DEF XTtl, Header
    <2> QED BY <1>1, <1>7, <2>1, XTtlTidy DEF TInv
  <1>8. ASSUME NEW c \in Conns, EndDrop(c) \/ EndDropFreed(c) PROVE FALSE
    <2>1. conn[c].at # "idle" /\ conn[c].kind = "DROP"
      BY <1>8 DEF EndDrop, EndDropFreed
    <2> QED BY <1>1, <2>1 DEF OInv, Proper
  <1>9. ASSUME NEW c \in Conns, AdminGc(c) \/ EndDelete(c) \/ BodyDone(c)
                                \/ ListStep(c) \/ Cleanup(c)
        PROVE  TInv'
    <2>1. Tending(c)
      BY <1>3, <1>9 DEF AdminGc, EndDelete, BodyDone, ListStep, Cleanup
    <2> QED BY <1>1, <1>9, <2>1, AdminGcTidy, EndDeleteTidy, BodyDoneTidy, ListStepTidy,
            CleanupTidy DEF TInv
  <1>10. ASSUME NEW c \in Conns, EndPut(c) \/ EndGet(c) \/ EndList(c) \/ EndBulk(c)
                                 \/ HeadRefused(c) \/ BodyFailed(c) \/ KeyRefused(c)
         PROVE  TInv'
    <2>1. Tending(c)
      BY <1>3, <1>10 DEF EndPut, EndGet, EndList, EndBulk, HeadRefused, BodyFailed, KeyRefused
    <2> QED BY <1>1, <1>10, <2>1, QuietTidy DEF TInv
  <1> QED BY <1>2, <1>4, <1>5, <1>6, <1>7, <1>8, <1>9, <1>10 DEF Next

\* The inductive invariant of the tables.
THEOREM Tables == ASSUME "DROP" \notin Requests PROVE Spec => []TInv
  BY InitTidy, NextTidy, PTL DEF Spec

\* A table is in memory as long as a connection uses it, itself or through an
\* entry, and its references are those of the connections and the one of its
\* keys, whichever of them ends first; unless tables are dropped, which takes
\* the reference of the keys a second time.
THEOREM TableRefsCorrect == ASSUME "DROP" \notin Requests PROVE Spec => []TableRefsExact
  <1>1. ASSUME TInv PROVE TableRefsExact
    <2>1. conn \in [Conns -> Conn] /\ db \in Db
      BY <1>1 DEF TInv, OInv, Fine, SInv
    <2>2. ASSUME NEW t \in TableIds
          PROVE  /\ UseCount(conn, db)[t] = Cardinality(Users(t)) /\ Cardinality(Users(t)) \in Nat
                 /\ Tallied(db, t, Cardinality(Users(t)))
      <3>1. UsersIn(conn, db, t) = Users(t)
        BY DEF UsersIn, Users
      <3> QED BY <1>1, <3>1, UseNat DEF TInv, Tidy
    <2>3. ASSUME NEW c \in Conns, conn[c].tab # Null PROVE conn[c].tab \in LiveTables
      <3> DEFINE t == conn[c].tab
      <3>1. t \in TableIds
        BY <2>1, <2>3 DEF Conn
      <3>2. c \in Users(t) /\ Users(t) \subseteq Conns
        BY DEF Users
      <3>3. Cardinality(Users(t)) > 0
        <4>1. IsFiniteSet(Users(t))
          BY <3>2, ServerAssumption, FS_Subset
        <4>2. Cardinality(Users(t)) # 0
          BY <3>2, <4>1, FS_EmptySet
        <4> QED BY <2>2, <3>1, <4>2
      <3> QED BY <2>2, <3>1, <3>3 DEF Tallied, LiveTables
    <2>4. ASSUME NEW t \in LiveTables
          PROVE  IF db.tabs[t].deleted THEN db.tabs[t].refs >= Cardinality(Users(t))
                 ELSE db.tabs[t].refs = Cardinality(Users(t)) + (IF Entries(db, t) = {} THEN 0 ELSE 1)
      <3>1. t \in TableIds /\ db.tabs[t].live
        BY DEF LiveTables
      <3>2. /\ Rest(db, t) \in Int /\ Spare \in {0, 1} /\ Cardinality(Users(t)) \in Nat
            /\ db.tabs[t].refs = Rest(db, t) + KeyRef(db, t)
        BY <2>1, <2>2, <3>1, RestType, SpareType
      <3>3. CASE db.tabs[t].deleted
        <4>1. KeyRef(db, t) = 0
          BY <3>3 DEF KeyRef
        <4>2. Rest(db, t) >= Cardinality(Users(t)) + Spare
          BY <2>2, <3>1, <3>3 DEF Tallied
        <4> QED BY <3>2, <3>3, <4>1, <4>2
      <3>4. CASE ~ db.tabs[t].deleted
        <4>1. KeyRef(db, t) = IF Entries(db, t) = {} THEN 0 ELSE 1
          BY <3>4 DEF KeyRef
        <4>2. Rest(db, t) = Cardinality(Users(t))
          BY <2>2, <3>1, <3>4 DEF Tallied
        <4> QED BY <3>2, <3>4, <4>1, <4>2
      <3> QED BY <3>3, <3>4
    <2> QED BY <2>3, <2>4 DEF TableRefsExact
  <1> QED BY <1>1, Tables, PTL

\* A table with keys is the one that is found by its name, unless tables are
\* dropped or keys expire: a table that is freed clears the entry of its name,
\* also when another table has the name by then.
THEOREM ReachableCorrect ==
    ASSUME "DROP" \notin Requests, Ttls = {} PROVE Spec => []TableReachable
  <1>1. TInv => TableReachable
    BY DEF TInv, Tidy, Reach, Unusable, TableReachable, LiveTables
  <1> QED BY <1>1, Tables, PTL

\* The name of a table that is deleted with its last key is in use, as
\* db_entry_handle_delete asserts, under the same conditions.
THEOREM NamedCorrect ==
    ASSUME "DROP" \notin Requests, Ttls = {} PROVE Spec => []TableNamed
  <1>1. TInv => TableNamed
    BY DEF TInv, Tidy, Reach, TableNamed
  <1> QED BY <1>1, Tables, PTL

-----------------------------------------------------------------------------
(* No fault.  A handler that was cut off finds its table destroyed, and so *)
(* does a listing, which keeps a key between two events; a table that was  *)
(* dropped is freed while it is used; and the entry of a long value that   *)
(* DELETE found loses its table before its file is closed.  Without these  *)
(* requests nothing that was freed is used.                                *)

Safe == /\ SplitHead = FALSE /\ "LIST" \notin Requests /\ "DROP" \notin Requests
        /\ "DELETE" \in Requests => \A len \in Lengths : len <= BlockLength

\* What the handlers of a head in one piece need of a connection: its table has
\* a name until the headers are read, and what DELETE found is a key.
Ready(d, x) ==
    /\ x.at # "list"
    /\ x.at = "tablehead" /\ x.tab # Null => \E n \in TableNames : d.tables[n] = x.tab
    /\ x.kind = "DELETE" /\ x.at = "head" /\ x.ent # Null => x.ent \in Kept(d)

FInv == TInv /\ RInv /\ NoFault /\ \A c \in Conns : Ready(db, conn[c])

\* A step of c from such a state, and what is to be shown of it.
Serving(c) == Tending(c) /\ RInv /\ \A b \in Conns : Ready(db, conn[b])
Unharmed   == NoFault' /\ \A c \in Conns : Ready(db', conn'[c])

\* The step of handler and loop.
LEMMA StepSafe ==
    ASSUME Safe, NEW c \in Conns, Serving(c), NEW d \in Db, d.fault = db.fault, NEW r,
           Step(c, d, r), Ready(d, r)
    PROVE  Unharmed
  <1>1. SInv /\ Runs(c)
    BY DEF Serving, Tending, Handling, OInv
  <1>2. /\ db'.tables = d.tables /\ db'.ents = d.ents
        /\ conn'[c] = r /\ \A b \in Conns \ {c} : conn'[b] = conn[b]
    BY <1>1, StepView
  <1>3. db'.fault = d.fault
    <2> DEFINE m == Settle(d, conn')
    <2>1. m.fault = d.fault /\ db' = [m EXCEPT !.orphan = @ /\ ~ db.orphan]
      BY DEF Step, Settle, Db
    <2>2. DOMAIN m = DOMAIN d
      BY DEF Settle
    <2> HIDE DEF m
    <2> QED BY <2>1, <2>2 DEF Db
  <1>4. NoFault'
    BY <1>1, <1>3 DEF NoFault, Runs
  <1>5. Kept(db') = Kept(d)
    BY <1>2 DEF Kept
  <1>6. ASSUME NEW b \in Conns PROVE Ready(db', conn'[b])
    <2>1. CASE b = c
      BY <1>2, <1>5, <2>1 DEF Ready
    <2>2. CASE b # c
      <3>1. conn'[b] = conn[b] /\ Ready(db, conn[b])
        BY <1>2, <2>2 DEF Serving
      <3>2. conn[b].at \notin Heads
        BY <1>1, <2>2 DEF Runs, Safe
      <3> QED BY <3>1, <3>2 DEF Ready, Heads
    <2> QED BY <2>1, <2>2
  <1> QED BY <1>4, <1>6 DEF Unharmed

\* What is known of a connection that runs.
LEMMA Served ==
    ASSUME NEW c \in Conns, Serving(c)
    PROVE  /\ Handling(c) /\ Tending(c) /\ Ready(db, conn[c]) /\ Fine(db, 0) /\ db \in Db
           /\ Proper(db, conn[c]) /\ conn[c] \in Conn /\ ConnOK(db, conn[c]) /\ now \in Nat
           /\ conn[c].ent # Null => conn[c].ent \in EntryIds
           /\ conn[c].tab # Null => conn[c].tab \in TableIds
  BY Handled DEF Serving, Tending

\* A connection past its head.
LEMMA PastSafe ==
    ASSUME Safe, NEW c \in Conns, Serving(c), NEW d \in Db, d.fault = db.fault, NEW r,
           Step(c, d, r), r.at \in {"idle", "url", "body", "send", "reply"}
    PROVE  Unharmed
  <1>1. Ready(d, r)
    BY DEF Ready
  <1> QED BY <1>1, StepSafe

\* A connection goes on to its next handler.
LEMMA GotoSafe ==
    ASSUME Safe, NEW c \in Conns, Serving(c), NEW d \in Db, d.fault = db.fault,
           NEW where \in {"body", "send", "reply"}, Goto(c, d, where)
    PROVE  Unharmed
  <1> DEFINE r == [conn[c] EXCEPT !.at = where]
  <1>1. r.at = where /\ Step(c, d, r)
    BY Served DEF Goto, Conn
  <1> HIDE DEF r
  <1> QED BY <1>1, PastSafe

\* The steps that leave the database alone.
LEMMA QuietSafe ==
    ASSUME Safe, NEW c \in Conns, Serving(c),
           \/ EndPut(c) \/ EndGet(c) \/ EndList(c) \/ EndBulk(c) \/ HeadRefused(c)
           \/ BodyFailed(c) \/ KeyRefused(c)
    PROVE  Unharmed
  <1>1. ~ EndList(c)
    <2> SUFFICES ASSUME EndList(c) PROVE FALSE
      OBVIOUS
    <2>1. conn[c].at # "idle" /\ conn[c].kind = "LIST"
      BY DEF EndList
    <2> QED BY <2>1, Served DEF Proper, Safe
  <1>2. \E where \in {"body", "send", "reply"} : Goto(c, db, where)
    BY <1>1 DEF EndPut, EndGet, EndBulk, HeadRefused, BodyFailed, KeyRefused, Goto
  <1> QED BY <1>2, Served, GotoSafe

\* DELETE of a key.
LEMMA EndDeleteSafe == ASSUME Safe, NEW c \in Conns, Serving(c), EndDelete(c) PROVE Unharmed
  <1> DEFINE e == conn[c].ent
             d == db_entry_handle_delete(db, e)
  <1>1. /\ conn[c].at = "head" /\ conn[c].kind = "DELETE"
        /\ Goto(c, IF e = Null THEN db ELSE d, "reply")
    BY DEF EndDelete
  <1>2. db \in Db /\ Fine(db, 0) /\ (e # Null => e \in EntryIds /\ e \in Kept(db))
    BY <1>1, Served DEF Ready
  <1> HIDE DEF d, e
  <1>3. CASE e = Null
    BY <1>1, <1>2, <1>3, GotoSafe
  <1>4. CASE e # Null
    <2>1. Without(db, d, 0, e)
      BY <1>2, <1>4, HandleDeleteFine DEF d, Kept
    <2>2. d \in Db /\ d.fault = db.fault
      BY <1>2, <1>4, <2>1 DEF Without, Fine
    <2> QED BY <1>1, <1>4, <2>2, GotoSafe
  <1> QED BY <1>3, <1>4

\* X-Ttl.
LEMMA XTtlSafe ==
    ASSUME Safe, NEW c \in Conns, Serving(c), NEW ttl \in Ttls, XTtl(c, ttl) PROVE Unharmed
  <1> DEFINE n == now + ttl
             d == [db EXCEPT !.ents[conn[c].ent].exp = n]
  <1>1. db \in Db /\ conn[c].ent \in EntryIds /\ Step(c, d, conn[c])
        /\ conn[c].at = "head" /\ conn[c].kind = "PUT"
    BY Served DEF XTtl, Header
  <1>2. n \in Nat /\ Ttls # {}
    BY Served, ServerAssumption
  <1> HIDE DEF n
  <1>3. Alike(db, d) /\ d.fault = db.fault
    BY <1>1, <1>2, ExpiryAlike
  <1> HIDE DEF d
  <1>4. Ready(d, conn[c])
    BY <1>1 DEF Ready
  <1> QED BY <1>1, <1>3, <1>4, StepSafe DEF Alike

\* Content-Length: the upload of a head in one piece is a key, and its file has
\* a name.
LEMMA ContentLengthSafe ==
    ASSUME Safe, NEW c \in Conns, Serving(c), NEW len \in Lengths, ContentLength(c, len)
    PROVE  Unharmed
  <1> DEFINE x == conn[c]
             e == x.ent
             d == db_target_write_allocate(db, e, len)
             b == len > BlockLength
             r == [x EXCEPT !.fd = b]
  <1>1. /\ x \in Conn /\ Fine(db, 0) /\ Proper(db, x) /\ x.kind = "PUT" /\ x.at = "head"
        /\ e # Null /\ e \in EntryIds /\ Step(c, d, r)
        /\ RepeatLength \/ db.ents[e].block = NewEntry
    BY Served DEF ContentLength, Header
  <1>2. e \in Kept(db)
    BY <1>1 DEF Proper, Safe
  <1>3. r.at = "head" /\ r.kind = "PUT"
    BY <1>1 DEF Conn
  <1> HIDE DEF d, r, x
  <1>4. Fine(d, 0) /\ d.fault = db.fault
    <2>1. SplitHead = FALSE => e \in Kept(db)
      BY <1>2
    <2>2. RepeatLength = FALSE => db.ents[e].block = NewEntry
      BY <1>1
    <2> QED BY <1>1, <1>2, <2>1, <2>2, AllocateFine DEF d
  <1>5. Ready(d, r)
    BY <1>3 DEF Ready
  <1> QED BY <1>1, <1>4, <1>5, StepSafe DEF Fine

\* The end of an upload.
LEMMA BodyDoneSafe == ASSUME Safe, NEW c \in Conns, Serving(c), BodyDone(c) PROVE Unharmed
  <1> DEFINE x == conn[c]
             e == x.ent
             y == db_complete_writing(db, e)
             r == [x EXCEPT !.at = "reply", !.writing = FALSE]
  <1>1. /\ x \in Conn /\ ConnOK(db, x) /\ Fine(db, 0) /\ db \in Db
        /\ Step(c, IF x.writing THEN y ELSE db, r)
    BY Served DEF BodyDone
  <1>2. r.at = "reply"
    BY <1>1 DEF Conn
  <1> HIDE DEF r, y
  <1>3. CASE x.writing
    <2>1. e \in EntryIds /\ db.ents[e].live /\ db.ents[e].writing
      BY <1>1, <1>3 DEF ConnOK, Conn
    <2>2. Fine(y, 0) /\ y.fault = db.fault
      BY <1>1, <2>1, CompleteFine DEF y
    <2> QED BY <1>1, <1>2, <1>3, <2>2, PastSafe DEF Fine
  <1>4. CASE ~ x.writing
    BY <1>1, <1>2, <1>4, PastSafe
  <1> QED BY <1>3, <1>4

\* ADMIN /gc.
LEMMA AdminGcSafe == ASSUME Safe, NEW c \in Conns, Serving(c), AdminGc(c) PROVE Unharmed
  <1> DEFINE d == db_lru_gc(db, now)
             r == [Closed EXCEPT !.at = "reply", !.kind = "GC"]
  <1>1. Step(c, d, r)
    BY DEF AdminGc
  <1>2. r.at = "reply"
    BY DEF Closed
  <1>3. Fine(d, 0) /\ d.fault = db.fault
    BY Served, GcFine
  <1> HIDE DEF d, r
  <1> QED BY <1>1, <1>2, <1>3, PastSafe DEF Fine

\* LIST, DROP and BULK.
LEMMA TableRequestSafe ==
    ASSUME Safe, NEW c \in Conns, Serving(c), NEW kind, NEW n \in TableNames, TableRequest(c, kind, n)
    PROVE  Unharmed
  <1> DEFINE q == db_table_get_read(db, n)
             r == Asking("tablehead", kind, q.ret)
  <1>1. Step(c, q.db, r)
    BY Zenon DEF TableRequest, Asking
  <1>2. Alike(db, q.db) /\ q.db.fault = db.fault
    BY Served, TableGetReadAlike
  <1>3. q.ret = db.tables[n] /\ q.db.tables = db.tables
    BY Served DEF db_table_get_read, db_table_incref, Return, Db
  <1>4. r.at = "tablehead" /\ r.tab = q.ret /\ r.ent = Null
    BY DEF Asking, Closed
  <1> HIDE DEF q, r
  <1>5. Ready(q.db, r)
    BY <1>3, <1>4 DEF Ready
  <1> QED BY <1>1, <1>2, <1>5, StepSafe DEF Alike

\* The request line of a request for a key.
LEMMA KeyRequestSafe ==
    ASSUME Safe, NEW c \in Conns, Serving(c), NEW kind, NEW n \in TableNames, KeyRequest(c, kind, n)
    PROVE  Unharmed
  <1> DEFINE t == Min(FreshTables)
             create == kind \in {"PUT", "PURGE"}
             q == IF create THEN db_table_get_write(db, n, t) ELSE db_table_get_read(db, n)
             where == IF q.ret = Null THEN "reply" ELSE "url"
             r == Asking(where, kind, q.ret)
  <1>1. /\ Step(c, q.db, r)
        /\ create /\ db.tables[n] = Null => FreshTables # {}
    BY Zenon DEF KeyRequest, Asking
  <1>2. r.at \in {"reply", "url"}
    BY DEF Asking, Closed
  <1> HIDE DEF r, where
  <1>3. q.db \in Db /\ q.db.fault = db.fault
    <2>1. CASE ~ create \/ db.tables[n] # Null
      <3> DEFINE p == db_table_get_read(db, n)
      <3>1. q = p
        BY <2>1 DEF db_table_get_write
      <3>2. Alike(db, p.db) /\ p.db.fault = db.fault
        BY Served, TableGetReadAlike
      <3> HIDE DEF q, p
      <3> QED BY <3>1, <3>2 DEF Alike
    <2>2. CASE create /\ db.tables[n] = Null
      <3> DEFINE p == db_table_get_write(db, n, t)
      <3>1. q = p
        BY <2>2
      <3>2. t \in TableIds /\ ~ db.tabs[t].live
        BY <1>1, <2>2, Served, Tended, FreshTable
      <3> HIDE DEF t
      <3>3. Alike(db, p.db) /\ p.db.fault = db.fault
        BY Served, <3>2, TableGetWriteAlike
      <3> HIDE DEF q, p
      <3> QED BY <3>1, <3>3 DEF Alike
    <2> QED BY <2>1, <2>2
  <1> HIDE DEF q
  <1> QED BY <1>1, <1>2, <1>3, PastSafe

\* A connection that uses a table of a tidy database: the table is in memory.
LEMMA UsedTableLive ==
    ASSUME NEW d, NEW cs, Tidy(cs, d), NEW c \in Conns, NEW t \in TableIds, c \in UsersIn(cs, d, t)
    PROVE  d.tabs[t].live
  <1>1. UseCount(cs, d)[t] > 0
    BY Used
  <1> QED BY <1>1 DEF Tidy, Tallied

\* Giving back a reference on such a table does not fail.
LEMMA GiveBackSafe ==
    ASSUME NEW d, Fine(d, 0), Tidy(conn, d), NEW c \in Conns, NEW t \in TableIds, conn[c].tab = t
    PROVE  db_table_deref(d, t, FALSE) \in Db /\ db_table_deref(d, t, FALSE).fault = d.fault
  <1>1. d.tabs[t].live
    <2>1. c \in UsersIn(conn, d, t)
      BY DEF UsersIn
    <2> QED BY <2>1, UsedTableLive
  <1> QED BY <1>1, TableDerefAlike DEF Alike

\* What a look-up finds goes with the connection.
LEMMA FoundSafe ==
    ASSUME Safe, NEW c \in Conns, Serving(c), NEW x, x = conn[c], x.at = "url",
           NEW q, Got(db, q, 0), GivesOut(db, q, InUse(HoldCount(conn)), x.tab),
           NEW r, r.at = "head", r.tab = Null, r.ent = q.ret,
           NEW d, d = IF q.ret = Null THEN db_table_deref(q.db, x.tab, FALSE) ELSE q.db,
           Step(c, d, r)
    PROVE  Unharmed
  <1>1. x.tab \in TableIds /\ q.db \in Db /\ Fine(q.db, 0) /\ q.db.fault = db.fault
    BY Served DEF ConnOK, Got, Fine, Conn
  <1>2. CASE q.ret = Null
    <2>1. Ties(db, q.db, HeldBy(conn))
      BY <1>2, Served, Tended DEF GivesOut
    <2>2. Tidy(conn, q.db)
      BY <1>1, <2>1, Served, Tended, TiesTidy
    <2>3. d = db_table_deref(q.db, x.tab, FALSE)
      BY <1>2
    <2>4. d \in Db /\ d.fault = db.fault
      BY <1>1, <2>2, <2>3, GiveBackSafe
    <2>5. Ready(d, r)
      BY <1>2 DEF Ready
    <2> QED BY <2>4, <2>5, StepSafe
  <1>3. CASE q.ret # Null
    <2>1. d = q.db /\ q.ret \in Kept(d)
      BY <1>3 DEF Got
    <2>2. Ready(d, r)
      BY <2>1 DEF Ready
    <2> QED BY <1>1, <2>1, <2>2, StepSafe
  <1> QED BY <1>2, <1>3

\* http_key_lookup: a table that was found by its name a moment ago still is.
LEMMA KeyLookupSafe ==
    ASSUME Safe, NEW c \in Conns, Serving(c), NEW k \in Keys, KeyLookup(c, k)
    PROVE  Unharmed
  <1> DEFINE x == conn[c]
             q == CASE x.kind = "GET"    -> db_entry_get_read(db, x.tab, k, now)
                    [] x.kind = "PUT"    -> db_entry_get_write(db, x.tab, k, now, Min(FreshEntries))
                    [] x.kind = "DELETE" -> db_entry_get_delete(db, x.tab, k)
             d == IF q.ret = Null THEN db_table_deref(q.db, x.tab, FALSE) ELSE q.db
             fd == Opens(x, q.db, q.ret)
             writing == x.kind = "PUT" /\ q.ret # Null
             key == IF q.ret = Null THEN Null ELSE k
             r == Found(x, q.ret, key, fd, writing)
             H == HoldCount(conn)
             U == UseCount(conn, db)
  <1>1. x.at = "url" /\ ~ Unusable(db, x.tab)
    <2>1. x.at = "url"
      BY DEF KeyLookup
    <2>2. PICK n \in TableNames : db.tables[n] = x.tab
      BY <2>1 DEF Serving, RInv
    <2>3. x.tab # Null
      BY <2>1, Served DEF ConnOK
    <2> QED BY <2>1, <2>2, <2>3 DEF Serving, RInv, Named
  <1>2. x.kind = "PUT" => FreshEntries # {}
    BY <1>1 DEF KeyLookup
  <1>3. Step(c, d, r)
    BY <1>1, ZenonT(60) DEF KeyLookup, Found
  <1>4. /\ x.kind \in {"GET", "PUT", "DELETE"} /\ Fine(db, 0) /\ x.tab \in TableIds
        /\ now \in Nat /\ SInv /\ Sound(db, H, U) /\ Covered(db, H, U) /\ U[x.tab] > 0
        /\ Tending(c)
    BY <1>1, Served, Tended, ConnFields DEF ConnOK, KeyKinds, KeyLookup
  <1> HIDE DEF H, U
  <1>5. Got(db, q, 0) /\ GivesOut(db, q, InUse(H), x.tab)
    <2> HIDE DEF x
    <2>1. CASE x.kind = "GET"
      <3>1. q = db_entry_get_read(db, x.tab, k, now)
        BY <2>1
      <3> HIDE DEF q
      <3> QED BY <1>4, <3>1, GetReadFine, GetReadHands
    <2>2. CASE x.kind = "PUT"
      <3> DEFINE e == Min(FreshEntries)
      <3>1. q = db_entry_get_write(db, x.tab, k, now, e)
        BY <2>2
      <3>2. e \in EntryIds /\ ~ db.ents[e].live /\ H[e] = 0
        BY <1>2, <1>4, <2>2, FreshEntry DEF H
      <3> HIDE DEF q, e
      <3> QED BY <1>1, <1>4, <3>1, <3>2, GetWriteFine, GetWriteHands DEF x
    <2>3. CASE x.kind = "DELETE"
      <3> DEFINE p == db_entry_get_delete(db, x.tab, k)
      <3>1. q = p
        BY <2>3
      <3>2. Got(db, p, 0) /\ Alike(db, p.db)
        BY <1>4, GetDeleteFine
      <3>3. GivesOut(db, p, InUse(H), x.tab)
        BY <1>4, GetDeleteHands
      <3> HIDE DEF q, p
      <3> QED BY <3>1, <3>2, <3>3
    <2> QED BY <1>4, <2>1, <2>2, <2>3
  <1>6. d = IF q.ret = Null THEN db_table_deref(q.db, x.tab, FALSE) ELSE q.db
    BY SMTT(60)
  <1> HIDE DEF q, d, fd, writing, key
  <1>7. r.at = "head" /\ r.tab = Null /\ r.ent = q.ret
    BY Served, Zenon DEF Found, Conn
  <1> HIDE DEF r
  <1> QED BY <1>1, <1>3, <1>5, <1>6, <1>7, FoundSafe DEF H

\* X-Delete: when the key was not the last of its table, the table keeps its
\* name; otherwise the connection forgets it.
LEMMA XDeleteSafe ==
    ASSUME Safe, NEW c \in Conns, Serving(c), NEW k \in Keys, XDelete(c, k)
    PROVE  Unharmed
  <1> DEFINE x == conn[c]
             t == x.tab
             q == db_entry_get_delete(db, t, k)
             e == q.ret
             d1 == db_entry_handle_delete(q.db, e)
             p == db_entry_deref(d1, e, FALSE)
             r == IF d1.ents[e].tab = Null THEN [x EXCEPT !.tab = Null] ELSE x
             H == HoldCount(conn)
             U == UseCount(conn, db)
  <1>1. /\ x.at = "tablehead" /\ t \in TableIds /\ t # Null /\ x \in Conn /\ Fine(db, 0)
        /\ db \in Db /\ Sound(db, H, U) /\ U[t] > 0
    BY Served, Tended, ConnFields DEF XDelete, Header
  <1>2. PICK n \in TableNames : db.tables[n] = t
    BY <1>1, Served DEF Ready
  <1>3. ~ Unusable(db, t)
    BY <1>1, <1>2 DEF Serving, RInv, Named
  <1>4. \/ e = Null /\ Step(c, q.db, x)
        \/ e # Null /\ Step(c, p, r)
    BY Zenon, <1>3 DEF XDelete
  <1>5. Got(db, q, 0) /\ Alike(db, q.db)
    BY <1>1, GetDeleteFine
  <1>6. q.db.tabs = db.tabs /\ q.db.tables = db.tables
    BY <1>1 DEF db_entry_get_delete, db_entry_incref, Return, Db
  <1> HIDE DEF q, H, U
  <1>7. CASE e = Null
    <2>1. Ready(q.db, x)
      BY <1>1, <1>2, <1>6 DEF Ready
    <2> QED BY <1>4, <1>5, <1>7, <2>1, StepSafe DEF Alike, Got
  <1>8. CASE e # Null
    <2>1. /\ Fine(q.db, 0) /\ q.db.fault = db.fault /\ e \in Kept(q.db) /\ e \in Kept(db)
          /\ e \in EntryIds /\ q.db.ents[e].live
      BY <1>5, <1>8 DEF Got, Alike, Kept
    <2>2. q.db.ents[e].tab = t /\ db.ents[e].tab = t
      <3>1. Taken(db, q.db, H, U, e, t)
        BY <1>1, <1>8, EntryGetDelete DEF q
      <3>2. SameKey(db, q.db, e)
        BY <1>5, <2>1 DEF Alike
      <3> QED BY <3>1, <3>2 DEF Taken, SameKey
    <2>3. q.db.tabs[t].refs > 1
      BY <1>1, <1>6, <2>1, <2>2, CountedTwice
    <2>4. Emptied(q.db, d1, e, t)
      BY <2>1, <2>2, <2>3, DeletionShape
    <2>5. Without(q.db, d1, 0, e)
      BY <2>1, HandleDeleteFine
    <2> HIDE DEF d1
    <2>6. Fine(d1, 0) /\ d1 \in Db /\ d1.fault = db.fault
      BY <2>1, <2>5 DEF Without, Fine
    <2>7. Alike(d1, p) /\ p.fault = d1.fault
      BY <2>1, <2>6, DerefAlike
    <2>8. p.tables = d1.tables
      BY <2>1, <2>6, EntryDerefShape DEF DerefdEntry
    <2> HIDE DEF p
    <2>9. r.at = "tablehead" /\ r.kind = x.kind
      BY <1>1 DEF Conn
    <2>10. r.tab # Null => r.tab = t /\ d1.tables = q.db.tables
      BY <1>1, <2>4 DEF Emptied, Conn
    <2> HIDE DEF r
    <2>11. Ready(p, r)
      BY <1>2, <1>6, <2>8, <2>9, <2>10 DEF Ready
    <2> QED BY <1>4, <1>8, <2>6, <2>7, <2>11, StepSafe DEF Alike
  <1> QED BY <1>7, <1>8

\* The end of a request: nobody closes the file of an upload but the upload.
LEMMA CleanupSafe == ASSUME Safe, NEW c \in Conns, Serving(c), Cleanup(c) PROVE Unharmed
  <1> DEFINE x == conn[c]
             e == x.ent
  <1>1. Step(c, cache_destroy(x, db), Closed) /\ x.at # "idle"
    BY DEF Cleanup
  <1>2. /\ x \in Conn /\ conn \in [Conns -> Conn] /\ db \in Db /\ Tidy(conn, db) /\ ConnOK(db, x)
        /\ Proper(db, x) /\ Fine(db, 0) /\ Tending(c)
    BY Served, Tended
  <1>3. Closed.at = "idle"
    BY DEF Closed
  <1>4. CASE e # Null
    <2> DEFINE d0 == IF x.writing THEN Abort(x, db) ELSE db
               p  == db_entry_deref(d0, e, TRUE)
               t  == d0.ents[e].tab
    <2>1. e \in EntryIds /\ db.ents[e].live
      BY <1>2, <1>4 DEF Conn, ConnOK
    <2>2. /\ d0 \in Db /\ Tidy(conn, d0) /\ Fine(d0, 0) /\ d0.fault = db.fault
          /\ x.writing => ~ d0.ents[e].writing
      BY <1>2, <2>1, AbortTidy, AbortFine
    <2>3. ~ (x.fd /\ d0.ents[e].writing)
      <3> SUFFICES ASSUME x.fd, ~ x.writing PROVE ~ db.ents[e].writing
        BY <2>2
      <3>1. x.kind # "DELETE"
        <4> SUFFICES ASSUME x.kind = "DELETE" PROVE FALSE
          OBVIOUS
        <4>1. PICK len \in Lengths : len > BlockLength
          BY <1>2 DEF Proper
        <4>2. len <= BlockLength
          BY <1>1, <1>2 DEF Proper, Safe
        <4> QED BY <4>1, <4>2, ServerAssumption, DbAssumption
      <3>2. x.kind \in {"GET", "PUT"}
        BY <1>2, <1>4, <3>1 DEF Proper
      <3> QED BY <1>2, <1>4, <3>2 DEF ConnOK
    <2>4. cache_destroy(x, db) = p
      BY <1>4, <2>3 DEF cache_destroy, db_target_entry_close
    <2> HIDE DEF d0
    <2>5. t # Null => d0.tabs[t].live
      <3> SUFFICES ASSUME t # Null PROVE d0.tabs[t].live
        OBVIOUS
      <3>1. t \in TableIds
        BY <2>1, <2>2, DbFields
      <3>2. c \in UsersIn(conn, d0, t)
        BY <1>4 DEF UsersIn
      <3> QED BY <2>2, <3>1, <3>2, UsedTableLive
    <2>6. Alike(d0, p) /\ p.fault = d0.fault
      BY <2>1, <2>2, <2>5, DerefAlike
    <2> QED BY <1>1, <1>3, <2>2, <2>4, <2>6, PastSafe DEF Alike
  <1>5. CASE e = Null /\ x.tab # Null
    <2>1. Step(c, db_table_deref(db, x.tab, FALSE), Closed) /\ x.tab \in TableIds
      BY <1>1, <1>2, <1>5 DEF cache_destroy, Conn
    <2>2. db_table_deref(db, x.tab, FALSE) \in Db /\ db_table_deref(db, x.tab, FALSE).fault = db.fault
      BY <1>2, <2>1, GiveBackSafe
    <2> QED BY <1>3, <2>1, <2>2, PastSafe
  <1>6. CASE e = Null /\ x.tab = Null
    <2>1. Step(c, db, Closed)
      BY <1>1, <1>6 DEF cache_destroy
    <2> QED BY <1>2, <1>3, <2>1, PastSafe
  <1> QED BY <1>4, <1>5, <1>6

\* Nothing happens at first.
LEMMA InitSafe == Init => FInv
  <1> SUFFICES ASSUME Init PROVE FInv
    OBVIOUS
  <1>1. TInv /\ RInv
    BY InitTidy, InitRefines
  <1>2. db.fault = "none" /\ \A c \in Conns : conn[c] = Closed
    BY DEF Init, EmptyDb
  <1>3. Closed.at = "idle"
    BY DEF Closed
  <1> QED BY <1>1, <1>2, <1>3 DEF FInv, NoFault, Ready

\* Without those requests every step is safe.
LEMMA NextSafe == ASSUME Safe PROVE FInv /\ [Next]_vars => FInv'
  <1> SUFFICES ASSUME FInv, [Next]_vars PROVE FInv'
    OBVIOUS
  <1>1. TInv /\ TInv' /\ RInv /\ RInv' /\ SInv' /\ OInv /\ Tidy(conn, db)
    <2>1. TInv /\ TInv' /\ RInv
      BY NextTidy DEF FInv, Safe
    <2>2. OInv /\ SInv /\ SInv' /\ Tidy(conn, db)
      BY <2>1 DEF TInv, OInv
    <2>3. RInv'
      BY <2>1, <2>2, NextRefines DEF Safe
    <2> QED BY <2>1, <2>2, <2>3
  <1>2. ASSUME Unharmed PROVE FInv'
    <2>1. Kept(db') = Kept(db)'
      BY DEF Kept
    <2>2. \A c \in Conns : Ready(db, conn[c])'
      BY <1>2, <2>1 DEF Unharmed, Ready
    <2> QED BY <1>1, <1>2, <2>2 DEF FInv, Unharmed
  <1>3. CASE UNCHANGED vars \/ Tick
    <2>1. db' = db /\ conn' = conn
      BY <1>3 DEF vars, Tick
    <2>2. NoFault'
      BY <2>1 DEF FInv, NoFault
    <2>3. \A c \in Conns : Ready(db', conn'[c])
      BY <2>1 DEF FInv
    <2> QED BY <1>2, <2>2, <2>3 DEF Unharmed
  <1>4. ASSUME NEW c \in Conns, Runs(c) PROVE Serving(c)
    BY <1>1, <1>4 DEF Serving, Tending, Handling, FInv
  <1>5. ASSUME NEW c \in Conns, NEW kind \in Kinds, NEW n \in TableNames,
               KeyRequest(c, kind, n) \/ TableRequest(c, kind, n)
        PROVE  FInv'
    <2>1. Serving(c)
      BY <1>4, <1>5 DEF KeyRequest, TableRequest
    <2> QED BY <1>2, <1>5, <2>1, KeyRequestSafe, TableRequestSafe
  <1>6. ASSUME NEW c \in Conns, NEW k \in Keys, KeyLookup(c, k) \/ XDelete(c, k)
        PROVE  FInv'
    <2>1. Serving(c)
      BY <1>4, <1>6 DEF KeyLookup, XDelete, Header
    <2> QED BY <1>2, <1>6, <2>1, KeyLookupSafe, XDeleteSafe
  <1>7. ASSUME NEW c \in Conns, NEW len \in Lengths, ContentLength(c, len) PROVE FInv'
    <2>1. Serving(c)
      BY <1>4, <1>7 DEF ContentLength, Header
    <2> QED BY <1>2, <1>7, <2>1, ContentLengthSafe
  <1>8. ASSUME NEW c \in Conns, NEW ttl \in Ttls, XTtl(c, ttl) PROVE FInv'
    <2>1. Serving(c)
      BY <1>4, <1>8 DEF XTtl, Header
    <2> QED BY <1>2, <1>8, <2>1, XTtlSafe
  <1>9. ASSUME NEW c \in Conns, EndDrop(c) \/ EndDropFreed(c) \/ ListStep(c) PROVE FALSE
    <2>1. CASE EndDrop(c) \/ EndDropFreed(c)
      <3>1. conn[c].at # "idle" /\ conn[c].kind = "DROP"
        BY <2>1 DEF EndDrop, EndDropFreed
      <3> QED BY <1>1, <3>1 DEF OInv, Proper, Safe
    <2>2. CASE ListStep(c)
      <3>1. conn[c].at = "list"
        BY <2>2 DEF ListStep
      <3> QED BY <3>1 DEF FInv, Ready
    <2> QED BY <1>9, <2>1, <2>2
  <1>10. ASSUME NEW c \in Conns, AdminGc(c) \/ EndDelete(c) \/ BodyDone(c) \/ Cleanup(c)
         PROVE  FInv'
    <2>1. Serving(c)
      BY <1>4, <1>10 DEF AdminGc, EndDelete, BodyDone, Cleanup
    <2> QED BY <1>2, <1>10, <2>1, AdminGcSafe, EndDeleteSafe, BodyDoneSafe, CleanupSafe
  <1>11. ASSUME NEW c \in Conns, EndPut(c) \/ EndGet(c) \/ EndList(c) \/ EndBulk(c)
                                 \/ HeadRefused(c) \/ BodyFailed(c) \/ KeyRefused(c)
         PROVE  FInv'
    <2>1. Serving(c)
      BY <1>4, <1>11 DEF EndPut, EndGet, EndList, EndBulk, HeadRefused, BodyFailed, KeyRefused
    <2> QED BY <1>2, <1>11, <2>1, QuietSafe
  <1> QED BY <1>3, <1>5, <1>6, <1>7, <1>8, <1>9, <1>10, <1>11 DEF Next

\* The server never uses a table, an entry or a hash set that is gone, nor the
\* table of an entry that has none, and deletes nothing twice; when heads
\* arrive in one piece, no table is listed or dropped, and no long value is
\* deleted by DELETE. That a deleted table still has its name, which
\* db_entry_handle_delete asserts, is not part of it: NamedCorrect.
THEOREM NoFaultCorrect == ASSUME Safe PROVE Spec => []NoFault
  <1>1. Init => FInv
    BY InitSafe
  <1>2. FInv /\ [Next]_vars => FInv'
    BY NextSafe
  <1>3. FInv => NoFault
    BY DEF FInv
  <1> QED BY <1>1, <1>2, <1>3, PTL DEF Spec

=============================================================================
