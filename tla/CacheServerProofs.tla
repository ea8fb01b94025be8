-------------------------- MODULE CacheServerProofs --------------------------
(***************************************************************************)
(* Proofs about CacheServer for any number of connections, entries,        *)
(* tables, keys and blocks, and for any of its requests: the types of the  *)
(* state, the exact counts of entries, the blocks, that a connection sends *)
(* the value it was asked for, and that the server implements Cache.       *)
(*                                                                         *)
(* The inductive invariant SInv counts the connections that hold each      *)
(* entry and use each table, says that the database is Sound for those     *)
(* counts (CacheDbProofs), what each connection relies on in the entry it  *)
(* holds, and that an entry has at most one writer.                        *)
(*                                                                         *)
(* At the end is what the functions of db.cpp that delete, evict and       *)
(* collect keys do to the bookkeeping of the database, Fine, which         *)
(* CacheOrderlyProofs goes on with.                                        *)
(***************************************************************************)
EXTENDS CacheServer, CacheDbProofs

-----------------------------------------------------------------------------
(* The invariant.                                                          *)

HoldersIn(cs, e) == {c \in Conns : cs[c].ent = e}
UsersIn(cs, d, t) ==
    {c \in Conns : cs[c].tab = t \/ (cs[c].ent # Null /\ d.ents[cs[c].ent].tab = t)}
HoldCount(cs) == [e \in EntryIds |-> Cardinality(HoldersIn(cs, e))]
UseCount(cs, d) == [t \in TableIds |-> Cardinality(UsersIn(cs, d, t))]

Conn == [at : Heads \cup {"idle", "body", "send", "list", "reply"},
         kind : Kinds, tab : TableIds \cup {Null}, ent : EntryIds \cup {Null},
         key : Keys \cup {Null}, fd : BOOLEAN, writing : BOOLEAN, peek : EntryIds \cup {Null}]

\* What a connection in state x relies on in the database d.
ConnOK(d, x) ==
    /\ x.ent # Null => d.ents[x.ent].live /\ x.tab = Null
    /\ x.writing => x.ent # Null /\ x.kind = "PUT" /\ d.ents[x.ent].writing
    /\ x.writing /\ x.at = "body" => d.ents[x.ent].len > 0
    /\ x.kind = "PUT" /\ x.at = "head" /\ x.ent # Null => x.writing
    /\ x.kind = "PUT" /\ x.ent # Null /\ ~ x.writing => ~ d.ents[x.ent].writing
    /\ x.kind = "GET" /\ x.ent # Null =>
            d.ents[x.ent].key = x.key /\ ~ d.ents[x.ent].writing /\ d.ents[x.ent].len > 0
    /\ x.at \in {"url", "list"} => x.tab # Null
    /\ x.at = "url" => x.kind \in KeyKinds
    /\ x.at \in {"idle", "url", "tablehead", "list"} => x.ent = Null /\ ~ x.writing
    /\ x.at = "idle" => x.tab = Null

SInv ==
    /\ conn \in [Conns -> Conn] /\ now \in 1 .. MaxTime
    /\ Sound(db, HoldCount(conn), UseCount(conn, db))
    /\ \A c \in Conns : ConnOK(db, conn[c])
    /\ \A b, c \in Conns :
          conn[b].writing /\ conn[c].writing /\ conn[b].ent = conn[c].ent => b = c

-----------------------------------------------------------------------------
(* Counting connections.                                                   *)

\* Fewer connections, a smaller count.
LEMMA SubsetCount ==
    ASSUME NEW S, NEW T, S \subseteq T, T \subseteq Conns
    PROVE  Cardinality(S) \in Nat /\ Cardinality(T) \in Nat /\ Cardinality(S) <= Cardinality(T)
  <1>1. IsFiniteSet(T)
    BY ServerAssumption, FS_Subset
  <1> QED BY <1>1, FS_Subset, FS_CardinalityType

\* One more connection, one more count.
LEMMA OneMoreCount ==
    ASSUME NEW S, S \subseteq Conns, NEW c \in Conns, c \notin S
    PROVE  Cardinality(S \cup {c}) = Cardinality(S) + 1 /\ Cardinality(S) \in Nat
  <1>1. IsFiniteSet(S)
    BY ServerAssumption, FS_Subset
  <1> QED BY <1>1, FS_AddElement, FS_CardinalityType

\* The counts have the types CacheDbProofs expects.
LEMMA CountTypes ==
    ASSUME NEW cs, NEW d
    PROVE  HoldCount(cs) \in Counts /\ UseCount(cs, d) \in TableUses
  <1>1. \A e \in EntryIds : Cardinality(HoldersIn(cs, e)) \in Nat
    BY SubsetCount DEF HoldersIn
  <1>2. \A t \in TableIds : Cardinality(UsersIn(cs, d, t)) \in Nat
    BY SubsetCount DEF UsersIn
  <1> QED BY <1>1, <1>2 DEF HoldCount, UseCount, Counts, TableUses

\* Whoever holds an entry is counted, and who is counted holds it.
LEMMA Held ==
    ASSUME NEW cs, NEW e \in EntryIds
    PROVE  HoldCount(cs)[e] > 0 <=> \E c \in Conns : cs[c].ent = e
  <1>1. IsFiniteSet(HoldersIn(cs, e))
    BY ServerAssumption, FS_Subset DEF HoldersIn
  <1>2. Cardinality(HoldersIn(cs, e)) = 0 <=> HoldersIn(cs, e) = {}
    BY <1>1, FS_EmptySet
  <1>3. Cardinality(HoldersIn(cs, e)) \in Nat
    BY <1>1, FS_CardinalityType
  <1>4. HoldersIn(cs, e) = {} <=> ~ \E c \in Conns : cs[c].ent = e
    BY DEF HoldersIn
  <1>5. HoldCount(cs)[e] = Cardinality(HoldersIn(cs, e))
    BY DEF HoldCount
  <1> QED BY <1>2, <1>3, <1>4, <1>5

\* The same for tables.
LEMMA Used ==
    ASSUME NEW cs, NEW d, NEW t \in TableIds
    PROVE  UseCount(cs, d)[t] > 0 <=> UsersIn(cs, d, t) # {}
  <1>1. IsFiniteSet(UsersIn(cs, d, t))
    BY ServerAssumption, FS_Subset DEF UsersIn
  <1>2. Cardinality(UsersIn(cs, d, t)) = 0 <=> UsersIn(cs, d, t) = {}
    BY <1>1, FS_EmptySet
  <1>3. Cardinality(UsersIn(cs, d, t)) \in Nat
    BY <1>1, FS_CardinalityType
  <1>5. UseCount(cs, d)[t] = Cardinality(UsersIn(cs, d, t))
    BY DEF UseCount
  <1> QED BY <1>2, <1>3, <1>5

\* The users of an entry are users of its table.
LEMMA AlwaysCovered ==
    ASSUME NEW cs, NEW d \in Db
    PROVE  Covered(d, HoldCount(cs), UseCount(cs, d))
  <1> SUFFICES ASSUME NEW e \in EntryIds, HoldCount(cs)[e] > 0, d.ents[e].tab # Null
               PROVE  UseCount(cs, d)[d.ents[e].tab] > 0
    BY DEF Covered
  <1>1. d.ents[e].tab \in TableIds
    BY DbFields
  <1>2. PICK c \in Conns : cs[c].ent = e
    BY Held
  <1>3. c \in UsersIn(cs, d, d.ents[e].tab)
    BY <1>2, DbAssumption DEF UsersIn
  <1> QED BY <1>1, <1>3, Used

\* Fewer users.
LEMMA UsersShrink ==
    ASSUME NEW cs, NEW d, NEW bs, NEW r, NEW t \in TableIds,
           UsersIn(bs, r, t) \subseteq UsersIn(cs, d, t)
    PROVE  UseCount(bs, r)[t] <= UseCount(cs, d)[t]
  <1>1. UsersIn(cs, d, t) \subseteq Conns
    BY DEF UsersIn
  <1>2. Cardinality(UsersIn(bs, r, t)) <= Cardinality(UsersIn(cs, d, t))
    BY <1>1, SubsetCount
  <1> QED BY <1>2 DEF UseCount

\* The database is sound for the connections that are there.
Fits(d, cs) == Sound(d, HoldCount(cs), UseCount(cs, d))

\* An operation that keeps what the connections hold fits them again.
LEMMA KeepsFits ==
    ASSUME NEW cs \in [Conns -> Conn], NEW d \in Db, NEW r, NEW H, H = HoldCount(cs),
           Sound(r, H, UseCount(cs, d)), Keeps(d, r, H)
    PROVE  Fits(r, cs)
  <1>1. ASSUME NEW t \in TableIds PROVE UseCount(cs, r)[t] <= UseCount(cs, d)[t]
    <2>1. ASSUME NEW c \in UsersIn(cs, r, t) PROVE c \in UsersIn(cs, d, t)
      <3>1. c \in Conns /\ cs[c].ent \in EntryIds \cup {Null} /\ t # Null
        BY DbAssumption DEF Conn, UsersIn
      <3>2. CASE cs[c].tab = t
        BY <3>1, <3>2 DEF UsersIn
      <3>3. CASE cs[c].ent # Null /\ r.ents[cs[c].ent].tab = t
        <4>1. HoldCount(cs)[cs[c].ent] > 0
          BY <3>1, <3>3, Held
        <4>2. d.ents[cs[c].ent].tab = t
          BY <3>1, <3>3, <4>1 DEF Keeps
        <4> QED BY <3>1, <3>3, <4>2 DEF UsersIn
      <3> QED BY <3>2, <3>3 DEF UsersIn
    <2> QED BY <2>1, UsersShrink
  <1>2. UseCount(cs, r) \in TableUses
    BY CountTypes
  <1>3. Base(r, H, UseCount(cs, r))
    BY <1>1, <1>2, FewerUses DEF Sound
  <1> QED BY <1>3 DEF Fits, Sound

\* A connection goes on with an entry of which it sees the same.
LEMMA KeepsConn ==
    ASSUME NEW d, NEW r, NEW G, Keeps(d, r, G), NEW x \in Conn, ConnOK(d, x),
           x.ent # Null => G[x.ent] > 0
    PROVE  ConnOK(r, x)
  <1>1. x.ent # Null => x.ent \in EntryIds
    BY DEF Conn
  <1>2. x.ent # Null => /\ r.ents[x.ent].live = d.ents[x.ent].live
                        /\ r.ents[x.ent].key = d.ents[x.ent].key
                        /\ r.ents[x.ent].writing = d.ents[x.ent].writing
                        /\ r.ents[x.ent].len = d.ents[x.ent].len
    BY <1>1 DEF Keeps
  <1> QED BY <1>2 DEF ConnOK

-----------------------------------------------------------------------------
(* What is common to all steps.                                            *)

\* r is d without the tables that nobody points to.
WithoutTables(d, r) ==
    /\ r \in Db /\ r.ents = d.ents /\ r.used = d.used
    /\ \A t \in TableIds : r.tabs[t] = d.tabs[t] \/ r.tabs[t] = DeadTable

\* Settle only forgets tables.
LEMMA SettleShape ==
    ASSUME NEW d \in Db, NEW cs, NEW b \in BOOLEAN
    PROVE  WithoutTables(d, [Settle(d, cs) EXCEPT !.orphan = @ /\ b])
  <1>1. DeadTable \in Table
    BY DbAssumption DEF DeadTable, Table, Ptr
  <1> DEFINE L == {t \in TableIds : d.tabs[t].live /\
                     t \notin {cs[c].tab : c \in Conns} \cup {d.tables[n] : n \in TableNames}
                              \cup {d.ents[e].tab : e \in {f \in EntryIds : d.ents[f].live}}}
             q == [d EXCEPT !.tabs = [t \in TableIds |-> IF t \in L THEN DeadTable ELSE d.tabs[t]]]
  <1>2. Settle(d, cs) = q
    BY DEF Settle
  <1> HIDE DEF L
  <1>3. WithoutTables(d, q)
    BY <1>1 DEF WithoutTables, Db
  <1>4. q \in Db
    BY <1>3 DEF WithoutTables
  <1> HIDE DEF q
  <1>5. [q EXCEPT !.orphan = @ /\ b] \in Db
    BY <1>4 DEF Db
  <1>6. WithoutTables(d, [q EXCEPT !.orphan = @ /\ b])
    BY <1>3, <1>4, <1>5 DEF WithoutTables, Db
  <1> QED BY <1>2, <1>6

\* Forgetting tables keeps the database sound.
LEMMA SettleSound ==
    ASSUME NEW d, NEW r, NEW H, NEW U, Sound(d, H, U), WithoutTables(d, r)
    PROVE  Sound(r, H, U)
  <1>0. d \in Db /\ H \in Counts /\ U \in TableUses /\ r \in Db
    BY DEF Sound, Base, WithoutTables
  <1>1. ASSUME NEW e \in EntryIds PROVE EntryOK(r, H, e)
    BY <1>1 DEF Sound, Base, EntryOK, WithoutTables
  <1>2. BlocksOK(r) /\ NoZombie(r, H)
    BY DEF Sound, Base, BlocksOK, NoZombie, WithoutTables
  <1>3. ASSUME NEW t \in TableIds, NEW h \in Hashes PROVE SlotOK(r, t, h)
    <2>1. CASE r.tabs[t] = d.tabs[t]
      <3>1. SlotOK(d, t, h) /\ r.ents = d.ents
        BY DEF Sound, Base, WithoutTables
      <3>2. Unusable(d, t) => Unusable(r, t)
        BY <2>1 DEF Unusable
      <3> QED BY <2>1, <3>1, <3>2, SlotKept
    <2>2. CASE r.tabs[t] = DeadTable
      BY <2>2 DEF SlotOK, DeadTable
    <2> QED BY SMTT(60), <2>1, <2>2 DEF WithoutTables
  <1>4. ASSUME NEW t \in TableIds PROVE TableOK(r, U, t)
    <2>1. CASE r.tabs[t] = d.tabs[t]
      <3>1. Entries(r, t) = Entries(d, t)
        BY <2>1 DEF Entries
      <3> QED BY <2>1, <3>1 DEF Sound, Base, TableOK
    <2>2. CASE r.tabs[t] = DeadTable
      BY <2>2 DEF TableOK, DeadTable
    <2> QED BY <2>1, <2>2 DEF WithoutTables
  <1> QED BY <1>0, <1>1, <1>2, <1>3, <1>4 DEF Sound, Base

\* A step that leaves a database which fits all connections keeps the invariant.
LEMMA StepInv ==
    ASSUME SInv, NEW c \in Conns, NEW d, NEW r \in Conn, Step(c, d, r),
           Fits(d, [conn EXCEPT ![c] = r]), ConnOK(d, r),
           \A b \in Conns \ {c} : ConnOK(d, conn[b]),
           r.writing => \A b \in Conns \ {c} : ~ (conn[b].writing /\ conn[b].ent = r.ent)
    PROVE  SInv'
  <1> DEFINE cs == [conn EXCEPT ![c] = r]
  <1>0. conn \in [Conns -> Conn] /\ now \in 1 .. MaxTime
    BY DEF SInv
  <1>1. conn' = cs /\ now' = now /\ cs \in [Conns -> Conn]
    BY <1>0 DEF Step
  <1>2. d \in Db
    BY DEF Fits, Sound, Base
  <1>3. db.orphan \in BOOLEAN
    BY DEF SInv, Sound, Base, Db
  <1>4. WithoutTables(d, db')
    BY <1>2, <1>3, SettleShape DEF Step
  <1>5. Sound(db', HoldCount(cs), UseCount(cs, d))
    BY <1>4, SettleSound DEF Fits
  <1>6. db'.ents = d.ents
    BY <1>4 DEF WithoutTables
  <1>7. UseCount(cs, db') = UseCount(cs, d)
    BY <1>6 DEF UseCount, UsersIn
  <1>8. ASSUME NEW b \in Conns PROVE ConnOK(db', conn'[b])
    <2>1. ConnOK(d, conn'[b])
      BY <1>0, <1>1
    <2> QED BY <2>1, <1>6 DEF ConnOK
  <1>9. ASSUME NEW a \in Conns, NEW b \in Conns, conn'[a].writing, conn'[b].writing,
               conn'[a].ent = conn'[b].ent
        PROVE  a = b
    <2>1. CASE a # c /\ b # c
      BY <1>0, <1>1, <1>9, <2>1 DEF SInv
    <2>2. CASE a = c /\ b # c
      BY <1>0, <1>1, <1>9, <2>2
    <2>3. CASE a # c /\ b = c
      BY <1>0, <1>1, <1>9, <2>3
    <2> QED BY <2>1, <2>2, <2>3
  <1>10. Sound(db', HoldCount(conn'), UseCount(conn', db'))
    BY <1>1, <1>5, <1>7
  <1>11. HoldCount(conn)' = HoldCount(conn') /\ UseCount(conn, db)' = UseCount(conn', db')
    BY DEF HoldCount, UseCount, HoldersIn, UsersIn
  <1>12. Sound(db, HoldCount(conn), UseCount(conn, db))'
    BY <1>10, <1>11
  <1> QED BY <1>0, <1>1, <1>8, <1>9, <1>12 DEF SInv

\* A connection that keeps its pointers changes no count.
LEMMA SamePointers ==
    ASSUME NEW cs \in [Conns -> Conn], NEW c \in Conns, NEW r \in Conn, NEW d,
           r.ent = cs[c].ent
    PROVE  /\ HoldCount([cs EXCEPT ![c] = r]) = HoldCount(cs)
           /\ r.tab = cs[c].tab => UseCount([cs EXCEPT ![c] = r], d) = UseCount(cs, d)
  <1> DEFINE bs == [cs EXCEPT ![c] = r]
  <1>1. \A b \in Conns : bs[b].ent = cs[b].ent
    OBVIOUS
  <1>2. r.tab = cs[c].tab => \A b \in Conns : bs[b].tab = cs[b].tab
    OBVIOUS
  <1> HIDE DEF bs
  <1>3. \A e \in EntryIds : HoldersIn(bs, e) = HoldersIn(cs, e)
    BY <1>1 DEF HoldersIn
  <1>4. HoldCount(bs) = HoldCount(cs)
    BY <1>3 DEF HoldCount
  <1>5. ASSUME r.tab = cs[c].tab PROVE UseCount(bs, d) = UseCount(cs, d)
    <2>1. \A t \in TableIds : UsersIn(bs, d, t) = UsersIn(cs, d, t)
      BY <1>1, <1>2, <1>5 DEF UsersIn
    <2> QED BY <2>1 DEF UseCount
  <1> QED BY <1>4, <1>5 DEF bs

\* What the invariant says of connection c.
LEMMA ConnFields ==
    ASSUME SInv, NEW c \in Conns
    PROVE  /\ conn \in [Conns -> Conn] /\ conn[c] \in Conn /\ ConnOK(db, conn[c])
           /\ conn[c].ent # Null => conn[c].ent \in EntryIds /\ HoldCount(conn)[conn[c].ent] > 0
           /\ conn[c].tab # Null => conn[c].tab \in TableIds /\ UseCount(conn, db)[conn[c].tab] > 0
           /\ db \in Db /\ Sound(db, HoldCount(conn), UseCount(conn, db))
           /\ Covered(db, HoldCount(conn), UseCount(conn, db))
  <1>1. conn \in [Conns -> Conn] /\ conn[c] \in Conn /\ ConnOK(db, conn[c])
    BY DEF SInv
  <1>2. conn[c].ent # Null => conn[c].ent \in EntryIds
    BY <1>1 DEF Conn
  <1>3. conn[c].ent # Null => HoldCount(conn)[conn[c].ent] > 0
    BY <1>2, Held
  <1>4. conn[c].tab # Null => conn[c].tab \in TableIds
    BY <1>1 DEF Conn
  <1>5. conn[c].tab # Null => c \in UsersIn(conn, db, conn[c].tab)
    BY DEF UsersIn
  <1>6. conn[c].tab # Null => UseCount(conn, db)[conn[c].tab] > 0
    BY <1>4, <1>5, Used
  <1>7. Sound(db, HoldCount(conn), UseCount(conn, db))
    BY DEF SInv
  <1>8. db \in Db
    BY <1>7 DEF Sound, Base
  <1>9. Covered(db, HoldCount(conn), UseCount(conn, db))
    BY <1>8, AlwaysCovered
  <1> QED BY <1>1, <1>2, <1>3, <1>4, <1>6, <1>7, <1>8, <1>9

\* A step in which connection c keeps its pointers, and the database keeps what
\* the connections see of their entries.
LEMMA QuietStep ==
    ASSUME SInv, NEW c \in Conns, NEW d, NEW r \in Conn, Step(c, d, r),
           r.ent = conn[c].ent, r.tab = conn[c].tab,
           Sound(d, HoldCount(conn), UseCount(conn, db)), Keeps(db, d, HoldCount(conn)),
           ConnOK(d, conn[c]) => ConnOK(d, r), r.writing => conn[c].writing
    PROVE  SInv'
  <1>1. conn \in [Conns -> Conn] /\ db \in Db
    BY ConnFields
  <1>2. Fits(d, conn)
    BY <1>1, KeepsFits
  <1>3. Fits(d, [conn EXCEPT ![c] = r])
    BY <1>1, <1>2, SamePointers DEF Fits
  <1>4. ASSUME NEW b \in Conns PROVE ConnOK(d, conn[b])
    BY <1>4, ConnFields, KeepsConn
  <1>5. r.writing => \A b \in Conns \ {c} : ~ (conn[b].writing /\ conn[b].ent = r.ent)
    BY DEF SInv
  <1> QED BY <1>3, <1>4, <1>5, StepInv

-----------------------------------------------------------------------------
(* The steps that keep the connection's pointers.                          *)

\* A connection goes on to its next handler.
LEMMA SetAt ==
    ASSUME NEW x \in Conn, NEW where \in {"reply", "body", "send", "list"}
    PROVE  LET r == [x EXCEPT !.at = where]
           IN  /\ r \in Conn /\ r.at = where
               /\ r.kind = x.kind /\ r.tab = x.tab /\ r.ent = x.ent /\ r.key = x.key
               /\ r.writing = x.writing
  BY DEF Conn, Heads

\* Steps that only go on to the next handler, after a call that keeps the database.
LEMMA GotoInv ==
    ASSUME SInv, NEW c \in Conns, NEW d, NEW where \in {"reply", "body", "send", "list"},
           Goto(c, d, where),
           Sound(d, HoldCount(conn), UseCount(conn, db)), Keeps(db, d, HoldCount(conn)),
           where = "list" => conn[c].at = "tablehead" /\ conn[c].tab # Null,
           where = "body" /\ conn[c].writing => d.ents[conn[c].ent].len > 0
    PROVE  SInv'
  <1> DEFINE x == conn[c]
             r == [x EXCEPT !.at = where]
  <1>1. x \in Conn
    BY ConnFields
  <1>2. /\ r \in Conn /\ r.at = where
        /\ r.kind = x.kind /\ r.tab = x.tab /\ r.ent = x.ent /\ r.key = x.key
        /\ r.writing = x.writing
    BY <1>1, SetAt
  <1>3. Step(c, d, r)
    BY DEF Goto
  <1> HIDE DEF r
  <1>4. ASSUME ConnOK(d, x) PROVE ConnOK(d, r)
    BY <1>2, <1>4 DEF ConnOK
  <1> QED BY <1>2, <1>3, <1>4, QuietStep

\* The database itself, when a handler leaves it alone.
LEMMA UnchangedDb ==
    ASSUME SInv
    PROVE  Sound(db, HoldCount(conn), UseCount(conn, db)) /\ Keeps(db, db, HoldCount(conn))
  BY KeepsRefl DEF SInv

\* The actions, one by one, beginning with the ends of the headers.
LEMMA EndGetInv == ASSUME SInv, NEW c \in Conns, EndGet(c) PROVE SInv'
  BY GotoInv, UnchangedDb DEF EndGet

\* PUT
LEMMA EndPutInv == ASSUME SInv, NEW c \in Conns, EndPut(c) PROVE SInv'
  <1> DEFINE e == conn[c].ent
             where == IF e # Null /\ db.ents[e].len = 0 THEN "reply" ELSE "body"
  <1>1. Goto(c, db, where)
    BY DEF EndPut
  <1>2. conn[c].writing => e # Null
    BY ConnFields DEF ConnOK
  <1>3. e # Null => db.ents[e].len \in Nat
    BY ConnFields, DbFields
  <1>4. where = "body" /\ conn[c].writing => db.ents[e].len > 0
    BY <1>2, <1>3
  <1> QED BY <1>1, <1>4, GotoInv, UnchangedDb

\* DELETE
LEMMA EndDeleteInv == ASSUME SInv, NEW c \in Conns, EndDelete(c) PROVE SInv'
  <1> DEFINE H == HoldCount(conn)
             U == UseCount(conn, db)
             e == conn[c].ent
  <1>1. CASE e = Null
    BY <1>1, GotoInv, UnchangedDb DEF EndDelete
  <1>2. CASE e # Null
    <2>1. e \in EntryIds /\ H[e] > 0 /\ Sound(db, H, U) /\ Covered(db, H, U)
      BY <1>2, ConnFields
    <2>2. db.ents[e].tab # Null => U[db.ents[e].tab] > 0
      BY <2>1 DEF Covered
    <2> DEFINE d == db_entry_handle_delete(db, e)
    <2>3. Goto(c, d, "reply")
      BY <1>2 DEF EndDelete
    <2> HIDE DEF H, U
    <2>4. Sound(d, H, U) /\ Keeps(db, d, H)
      BY <2>1, <2>2, HandleDelete
    <2> QED BY <2>3, <2>4, GotoInv DEF H, U
  <1> QED BY <1>1, <1>2

\* DELETE of a table
LEMMA EndDropInv == ASSUME SInv, NEW c \in Conns, EndDrop(c) PROVE SInv'
  <1> DEFINE H == HoldCount(conn)
             U == UseCount(conn, db)
             t == conn[c].tab
  <1>1. CASE t = Null
    BY <1>1, GotoInv, UnchangedDb DEF EndDrop
  <1>2. CASE t # Null
    <2>1. t \in TableIds /\ U[t] > 0 /\ Sound(db, H, U)
      BY <1>2, ConnFields
    <2> DEFINE d == db_table_handle_delete(db, t)
    <2>3. Goto(c, d, "reply")
      BY <1>2 DEF EndDrop
    <2> HIDE DEF H, U
    <2>4. Sound(d, H, U) /\ Keeps(db, d, H)
      BY <2>1, HandleDeleteTable
    <2> QED BY <2>3, <2>4, GotoInv DEF H, U
  <1> QED BY <1>1, <1>2

\* The requests that end without touching the database.
LEMMA EndOtherInv ==
    ASSUME SInv, NEW c \in Conns,
           EndList(c) \/ EndBulk(c) \/ HeadRefused(c) \/ BodyFailed(c) \/ KeyRefused(c)
    PROVE  SInv'
  <1>1. CASE EndList(c)
    BY <1>1, GotoInv, UnchangedDb DEF EndList
  <1>2. CASE EndBulk(c) \/ HeadRefused(c) \/ BodyFailed(c)
    BY <1>2, GotoInv, UnchangedDb DEF EndBulk, HeadRefused, BodyFailed
  <1>3. CASE KeyRefused(c)
    BY <1>3, GotoInv, UnchangedDb DEF KeyRefused, Goto
  <1> QED BY <1>1, <1>2, <1>3

\* A step that ends the process leaves what the connections hold.
LEMMA FaultInv ==
    ASSUME SInv, NEW c \in Conns, NEW what \in Faults, Step(c, Fault(db, what), conn[c])
    PROVE  SInv'
  <1>1. conn[c] \in Conn
    BY ConnFields
  <1>2. Sound(Fault(db, what), HoldCount(conn), UseCount(conn, db))
        /\ Keeps(db, Fault(db, what), HoldCount(conn))
    BY FaultSound, UnchangedDb
  <1> QED BY <1>1, <1>2, QuietStep

\* A table that is deleted or freed is used.
LEMMA MisusedInv ==
    ASSUME SInv, NEW c \in Conns, NEW t, Step(c, Misused(db, t), conn[c])
    PROVE  SInv'
  BY FaultInv DEF Misused, Faults

\* DELETE of a table, when an entry is read after it was freed
LEMMA EndDropFreedInv == ASSUME SInv, NEW c \in Conns, EndDropFreed(c) PROVE SInv'
  <1>1. Step(c, Fault(db, "freed entry"), conn[c])
    BY DEF EndDropFreed
  <1> QED BY <1>1, FaultInv DEF Faults

\* A step of a listing
LEMMA ListStepInv == ASSUME SInv, NEW c \in Conns, ListStep(c) PROVE SInv'
  <1> DEFINE x == conn[c]
  <1>1. CASE Step(c, Fault(db, "freed key"), x) \/ Step(c, Fault(db, "no buckets"), x)
    BY <1>1, FaultInv DEF Faults
  <1>2. CASE Step(c, Misused(db, x.tab), x)
    BY <1>2, MisusedInv
  <1>3. CASE x.at = "list" /\ \E e \in Entries(db, x.tab) : Step(c, db, [x EXCEPT !.peek = e])
    <2>1. PICK e \in Entries(db, x.tab) : Step(c, db, [x EXCEPT !.peek = e])
      BY <1>3
    <2>2. x \in Conn /\ ConnOK(db, x) /\ db \in Db
      BY ConnFields
    <2>3. x.tab \in TableIds
      BY <1>3, <2>2 DEF ConnOK, Conn
    <2>4. e \in EntryIds
      BY <2>2, <2>3, DbFields DEF Entries, Ptr
    <2> DEFINE r == [x EXCEPT !.peek = e]
    <2>5. /\ r \in Conn /\ r.at = x.at /\ r.kind = x.kind /\ r.tab = x.tab /\ r.ent = x.ent
          /\ r.key = x.key /\ r.writing = x.writing
      BY <2>2, <2>4 DEF Conn
    <2>6. Step(c, db, r)
      BY <2>1
    <2> HIDE DEF r
    <2>7. ConnOK(db, r)
      BY <2>2, <2>5 DEF ConnOK
    <2> QED BY <2>5, <2>6, <2>7, QuietStep, UnchangedDb
  <1> QED BY <1>1, <1>2, <1>3 DEF ListStep

\* X-Ttl
LEMMA XTtlInv == ASSUME SInv, NEW c \in Conns, NEW ttl \in Ttls, XTtl(c, ttl) PROVE SInv'
  <1> DEFINE x == conn[c]
             d == [db EXCEPT !.ents[x.ent].exp = now + ttl]
  <1>1. x \in Conn /\ x.ent \in EntryIds /\ db \in Db
    BY ConnFields DEF XTtl
  <1>2. now + ttl \in Nat
    BY ServerAssumption DEF SInv
  <1>3. SameCore(db, d)
    BY <1>1, <1>2, ExpiryCore
  <1>4. Step(c, d, x)
    BY DEF XTtl
  <1> HIDE DEF d
  <1>5. Sound(d, HoldCount(conn), UseCount(conn, db)) /\ Keeps(db, d, HoldCount(conn))
    BY <1>3, CoreSound, UnchangedDb
  <1> QED BY <1>1, <1>4, <1>5, QuietStep

\* A closed connection points to nothing.
LEMMA ClosedConn ==
    /\ Closed \in Conn
    /\ \A d : ConnOK(d, Closed)
  BY DEF Closed, Conn, ConnOK, Kinds, KeyKinds

\* ADMIN /gc
LEMMA AdminGcInv == ASSUME SInv, NEW c \in Conns, AdminGc(c) PROVE SInv'
  <1> DEFINE H == HoldCount(conn)
             U == UseCount(conn, db)
             d == db_lru_gc(db, now)
             r == [Closed EXCEPT !.at = "reply", !.kind = "GC"]
  <1>1. Sound(db, H, U) /\ Covered(db, H, U)
    BY ConnFields
  <1>2. conn[c].ent = Null /\ conn[c].tab = Null
    BY ConnFields DEF AdminGc, ConnOK
  <1>3. r \in Conn /\ r.ent = Null /\ r.tab = Null /\ ~ r.writing /\ ConnOK(d, r)
    BY DEF Closed, Conn, ConnOK, Kinds, KeyKinds
  <1>4. Step(c, d, r)
    BY DEF AdminGc
  <1> HIDE DEF H, U, r
  <1>5. Sound(d, H, U) /\ Keeps(db, d, H)
    BY <1>1, GcSound
  <1> HIDE DEF d
  <1> QED BY <1>2, <1>3, <1>4, <1>5, QuietStep DEF H, U

-----------------------------------------------------------------------------
(* The steps that fill the entry of an upload.                             *)

\* Entry e may have changed, but it is where it was.
OthersSee(d, r, e) ==
    \A f \in EntryIds :
        /\ r.ents[f].live = d.ents[f].live /\ r.ents[f].tab = d.ents[f].tab
        /\ f # e => /\ r.ents[f].key = d.ents[f].key /\ r.ents[f].writing = d.ents[f].writing
                    /\ r.ents[f].len = d.ents[f].len

\* Only its writer relies on the value of an entry that is being written.
LEMMA OthersConn ==
    ASSUME NEW d, NEW r, NEW e \in EntryIds, OthersSee(d, r, e), d.ents[e].writing,
           NEW x \in Conn, ConnOK(d, x), ~ (x.writing /\ x.ent = e)
    PROVE  ConnOK(r, x)
  <1>1. x.ent \in EntryIds \cup {Null}
    BY DEF Conn
  <1>2. CASE x.ent = e
    BY <1>2 DEF ConnOK, OthersSee
  <1>3. CASE x.ent # e
    <2>1. x.ent # Null => /\ r.ents[x.ent].live = d.ents[x.ent].live
                          /\ r.ents[x.ent].key = d.ents[x.ent].key
                          /\ r.ents[x.ent].writing = d.ents[x.ent].writing
                          /\ r.ents[x.ent].len = d.ents[x.ent].len
      BY <1>1, <1>3 DEF OthersSee
    <2> QED BY <2>1 DEF ConnOK
  <1> QED BY <1>2, <1>3

\* The users of a table depend only on the entries' tables.
LEMMA SameUsers ==
    ASSUME NEW cs \in [Conns -> Conn], NEW d, NEW r,
           \A f \in EntryIds : r.ents[f].tab = d.ents[f].tab
    PROVE  UseCount(cs, r) = UseCount(cs, d)
  <1>1. ASSUME NEW t \in TableIds PROVE UsersIn(cs, r, t) = UsersIn(cs, d, t)
    <2>1. \A c \in Conns : cs[c].ent # Null => cs[c].ent \in EntryIds
      BY DEF Conn
    <2> QED BY <2>1 DEF UsersIn
  <1> QED BY <1>1 DEF UseCount

\* A step of an upload, which changes the one entry that it alone writes.
LEMMA WriterInv ==
    ASSUME SInv, NEW c \in Conns, NEW d, NEW r \in Conn, Step(c, d, r), conn[c].writing,
           r.ent = conn[c].ent, r.tab = conn[c].tab, ConnOK(d, r),
           Sound(d, HoldCount(conn), UseCount(conn, db)), OthersSee(db, d, conn[c].ent)
    PROVE  SInv'
  <1> DEFINE e == conn[c].ent
  <1>1. conn \in [Conns -> Conn] /\ db \in Db /\ e \in EntryIds /\ db.ents[e].writing
    BY ConnFields DEF ConnOK
  <1>2. UseCount(conn, d) = UseCount(conn, db)
    BY <1>1, SameUsers DEF OthersSee
  <1>3. Fits(d, [conn EXCEPT ![c] = r])
    BY <1>1, <1>2, SamePointers DEF Fits
  <1>4. ASSUME NEW b \in Conns \ {c} PROVE ConnOK(d, conn[b]) /\ ~ (conn[b].writing /\ conn[b].ent = e)
    <2>1. ~ (conn[b].writing /\ conn[b].ent = e)
      BY DEF SInv
    <2>2. conn[b] \in Conn /\ ConnOK(db, conn[b])
      BY ConnFields
    <2> QED BY <1>1, <2>1, <2>2, OthersConn
  <1> QED BY <1>3, <1>4, StepInv

\* A connection opens a file.
LEMMA SetFd ==
    ASSUME NEW x \in Conn, NEW b \in BOOLEAN
    PROVE  LET r == [x EXCEPT !.fd = b]
           IN  /\ r \in Conn /\ r.at = x.at /\ r.kind = x.kind /\ r.tab = x.tab
               /\ r.ent = x.ent /\ r.key = x.key /\ r.writing = x.writing
  BY DEF Conn

\* Content-Length
LEMMA ContentLengthInv ==
    ASSUME SInv, NEW c \in Conns, NEW len \in Lengths, ContentLength(c, len)
    PROVE  SInv'
  <1> DEFINE x == conn[c]
             e == x.ent
             H == HoldCount(conn)
             U == UseCount(conn, db)
             d == db_target_write_allocate(db, e, len)
             r == [x EXCEPT !.fd = len > BlockLength]
  <1>1. x \in Conn /\ ConnOK(db, x) /\ Sound(db, H, U) /\ x.at = "head" /\ x.kind = "PUT"
        /\ e # Null /\ e \in EntryIds
    BY ConnFields DEF ContentLength, Header
  <1>2. x.writing /\ db.ents[e].live /\ db.ents[e].writing
    BY <1>1 DEF ConnOK
  <1>3. len \in Nat
    BY ServerAssumption
  <1>4. Step(c, d, r)
    BY DEF ContentLength
  <1>5. /\ r \in Conn /\ r.at = x.at /\ r.kind = x.kind /\ r.tab = x.tab /\ r.ent = x.ent
        /\ r.key = x.key /\ r.writing = x.writing
    <2> DEFINE b == len > BlockLength
    <2>1. b \in BOOLEAN
      OBVIOUS
    <2> HIDE DEF b
    <2>2. /\ [x EXCEPT !.fd = b] \in Conn /\ [x EXCEPT !.fd = b].at = x.at
          /\ [x EXCEPT !.fd = b].kind = x.kind /\ [x EXCEPT !.fd = b].tab = x.tab
          /\ [x EXCEPT !.fd = b].ent = x.ent /\ [x EXCEPT !.fd = b].key = x.key
          /\ [x EXCEPT !.fd = b].writing = x.writing
      BY <1>1, <2>1, SetFd
    <2> QED BY <2>2 DEF b
  <1> HIDE DEF H, U, r
  <1>6. Sound(d, H, U) /\ ButValue(db, d, e)
    BY <1>1, <1>2, <1>3, WriteAllocate
  <1> HIDE DEF d
  <1>7. OthersSee(db, d, e) /\ d.ents[e].live /\ d.ents[e].writing
    BY <1>1, <1>2, <1>6 DEF ButValue, OthersSee
  <1>8. ConnOK(d, r)
    BY <1>1, <1>2, <1>5, <1>7 DEF ConnOK
  <1> QED BY <1>2, <1>4, <1>5, <1>6, <1>7, <1>8, WriterInv DEF H, U

\* The end of an upload
LEMMA BodyDoneInv == ASSUME SInv, NEW c \in Conns, BodyDone(c) PROVE SInv'
  <1> DEFINE x == conn[c]
             e == x.ent
             H == HoldCount(conn)
             U == UseCount(conn, db)
             r == [x EXCEPT !.at = "reply", !.writing = FALSE]
  <1>1. x \in Conn /\ ConnOK(db, x) /\ Sound(db, H, U) /\ x.at = "body"
    BY ConnFields DEF BodyDone
  <1>2. /\ r \in Conn /\ r.at = "reply" /\ r.kind = x.kind /\ r.tab = x.tab /\ r.ent = x.ent
        /\ r.key = x.key /\ ~ r.writing
    BY <1>1 DEF Conn
  <1>3. Step(c, IF x.writing THEN db_complete_writing(db, e) ELSE db, r)
    BY DEF BodyDone
  <1> HIDE DEF r
  <1>4. CASE ~ x.writing
    <2>1. Step(c, db, r)
      BY <1>3, <1>4
    <2>2. x.kind = "PUT" /\ x.ent # Null => ~ db.ents[x.ent].writing
      BY <1>1, <1>4 DEF ConnOK
    <2>3. ConnOK(db, r)
      BY <1>1, <1>2, <2>2 DEF ConnOK
    <2> QED BY <1>2, <2>1, <2>3, QuietStep, UnchangedDb
  <1>5. CASE x.writing
    <2> DEFINE d == db_complete_writing(db, e)
    <2>1. e \in EntryIds /\ db.ents[e].len > 0 /\ db.ents[e].live /\ db.ents[e].writing
          /\ x.kind = "PUT" /\ x.tab = Null
      BY <1>1, <1>5 DEF ConnOK, Conn
    <2>2. Step(c, d, r)
      BY <1>3, <1>5
    <2> HIDE DEF H, U
    <2>3. Sound(d, H, U) /\ ButWriting(db, d, e)
      BY <1>1, <2>1, CompleteWriting
    <2> HIDE DEF d
    <2>4. OthersSee(db, d, e) /\ d.ents[e].live
      BY <2>1, <2>3 DEF ButWriting, OthersSee
    <2>5. ~ d.ents[e].writing
      BY <2>3 DEF ButWriting
    <2>6. ConnOK(d, r)
      BY <1>1, <1>2, <2>1, <2>4, <2>5 DEF ConnOK
    <2> QED BY <1>2, <1>5, <2>2, <2>3, <2>4, <2>6, WriterInv DEF H, U
  <1> QED BY <1>4, <1>5

-----------------------------------------------------------------------------
(* The request line: a table is looked up or created.                      *)

\* The least id is one of them.
LEMMA MinIn ==
    ASSUME NEW S \in SUBSET Nat, S # {}
    PROVE  Min(S) \in S
  <1>1. \E n \in S : \A m \in S : n <= m
    BY Least
  <1> QED BY <1>1 DEF Min

\* Connection c now points to table t, and to no entry.
LEMMA TakesTable ==
    ASSUME NEW cs \in [Conns -> Conn], NEW c \in Conns, NEW r \in Conn, NEW d,
           cs[c].tab = Null, cs[c].ent = Null, r.ent = Null
    PROVE  OneMore(UseCount(cs, d), UseCount([cs EXCEPT ![c] = r], d), r.tab)
  <1> DEFINE bs == [cs EXCEPT ![c] = r]
  <1>1. bs[c] = r /\ \A b \in Conns \ {c} : bs[b] = cs[b]
    OBVIOUS
  <1> HIDE DEF bs
  <1>2. UseCount(bs, d) \in TableUses
    BY CountTypes
  <1>3. ASSUME NEW s \in TableIds
        PROVE  UseCount(bs, d)[s] <= IF s = r.tab THEN UseCount(cs, d)[s] + 1 ELSE UseCount(cs, d)[s]
    <2>0. c \notin UsersIn(cs, d, s) /\ UsersIn(cs, d, s) \subseteq Conns
      BY DbAssumption DEF UsersIn
    <2>1. CASE s = r.tab
      <3>1. UsersIn(bs, d, s) \subseteq UsersIn(cs, d, s) \cup {c}
        BY <1>1 DEF UsersIn
      <3>2. UsersIn(cs, d, s) \cup {c} \subseteq Conns
        BY <2>0
      <3>3. Cardinality(UsersIn(bs, d, s)) <= Cardinality(UsersIn(cs, d, s) \cup {c})
        BY <3>1, <3>2, SubsetCount
      <3>4. Cardinality(UsersIn(cs, d, s) \cup {c}) = Cardinality(UsersIn(cs, d, s)) + 1
        BY <2>0, OneMoreCount
      <3> QED BY <2>1, <3>3, <3>4 DEF UseCount
    <2>2. CASE s # r.tab
      <3>1. UsersIn(bs, d, s) \subseteq UsersIn(cs, d, s)
        BY <1>1, <2>2 DEF UsersIn
      <3> QED BY <2>2, <3>1, UsersShrink
    <2> QED BY <2>1, <2>2
  <1> QED BY <1>2, <1>3 DEF OneMore, bs

\* A first handler, which takes a reference to a table and to no entry.
LEMMA RequestInv ==
    ASSUME SInv, NEW c \in Conns, conn[c].at = "idle", NEW d, NEW r \in Conn, Step(c, d, r),
           d.ents = db.ents, r.ent = Null, ConnOK(d, r), ~ r.writing,
           \A V : OneMore(UseCount(conn, db), V, r.tab) => Sound(d, HoldCount(conn), V)
    PROVE  SInv'
  <1> DEFINE cs == [conn EXCEPT ![c] = r]
  <1>1. conn \in [Conns -> Conn] /\ conn[c].ent = Null /\ conn[c].tab = Null
    BY ConnFields DEF ConnOK
  <1>2. OneMore(UseCount(conn, db), UseCount(cs, db), r.tab)
    BY <1>1, TakesTable
  <1>3. UseCount(cs, d) = UseCount(cs, db)
    BY DEF UseCount, UsersIn
  <1>4. HoldCount(cs) = HoldCount(conn)
    BY <1>1, SamePointers
  <1>5. Fits(d, cs)
    BY <1>2, <1>3, <1>4 DEF Fits
  <1>6. ASSUME NEW b \in Conns PROVE ConnOK(d, conn[b])
    <2>1. ConnOK(db, conn[b])
      BY ConnFields
    <2> QED BY <2>1 DEF ConnOK
  <1> QED BY <1>5, <1>6, StepInv

\* A connection that has asked for table t, or not found it.
Asking(where, kind, t) == [Closed EXCEPT !.at = where, !.kind = kind, !.tab = t]

\* The connection after its first handler.
LEMMA RequestConn ==
    ASSUME NEW where \in {"url", "reply", "tablehead"}, NEW kind \in Kinds,
           NEW t \in TableIds \cup {Null}, where = "url" => t # Null /\ kind \in KeyKinds
    PROVE  LET r == Asking(where, kind, t)
           IN  r \in Conn /\ r.ent = Null /\ r.tab = t /\ ~ r.writing /\ \A d : ConnOK(d, r)
  BY DEF Asking, Closed, Conn, ConnOK, Heads

\* The first handler of a request for a table
LEMMA TableRequestInv ==
    ASSUME SInv, NEW c \in Conns, NEW kind \in Kinds, NEW n \in TableNames,
           TableRequest(c, kind, n)
    PROVE  SInv'
  <1> DEFINE H == HoldCount(conn)
             U == UseCount(conn, db)
             q == db_table_get_read(db, n)
             r == [Closed EXCEPT !.at = "tablehead", !.kind = kind, !.tab = q.ret]
  <1>1. Sound(db, H, U)
    BY ConnFields
  <1>2. Step(c, q.db, r) /\ conn[c].at = "idle"
    BY DEF TableRequest
  <1> HIDE DEF H, U, q
  <1>3. /\ q.ret \in TableIds \cup {Null} /\ q.db.ents = db.ents
        /\ \A V : OneMore(U, V, q.ret) => Sound(q.db, H, V)
    BY <1>1, TableGetRead DEF q
  <1>4. r \in Conn /\ r.ent = Null /\ r.tab = q.ret /\ ~ r.writing /\ \A d : ConnOK(d, r)
    <2>1. r = Asking("tablehead", kind, q.ret)
      BY Zenon DEF Asking
    <2> HIDE DEF r
    <2> QED BY <1>3, <2>1, RequestConn
  <1> HIDE DEF r
  <1> QED BY <1>2, <1>3, <1>4, RequestInv DEF H, U

\* A table that malloc may return is used by nobody.
LEMMA FreshTable ==
    ASSUME SInv, FreshTables # {}
    PROVE  /\ Min(FreshTables) \in TableIds /\ ~ db.tabs[Min(FreshTables)].live
           /\ UseCount(conn, db)[Min(FreshTables)] = 0
  <1> DEFINE t == Min(FreshTables)
  <1>1. FreshTables \in SUBSET Nat
    BY DbAssumption DEF FreshTables
  <1>2. t \in FreshTables
    BY <1>1, MinIn
  <1> HIDE DEF t
  <1>3. t \in TableIds /\ ~ db.tabs[t].live /\ (\A c \in Conns : conn[c].tab # t)
        /\ (\A e \in EntryIds : db.ents[e].tab # t)
    BY <1>2 DEF FreshTables
  <1>4. conn \in [Conns -> Conn]
    BY DEF SInv
  <1>5. UsersIn(conn, db, t) = {}
    BY <1>3, <1>4 DEF UsersIn, Conn
  <1>6. UseCount(conn, db)[t] \in Nat
    BY <1>3, CountTypes DEF TableUses
  <1>7. UseCount(conn, db)[t] = 0
    BY <1>3, <1>5, <1>6, Used
  <1> QED BY <1>3, <1>7 DEF t

\* The first handler of a request for a key, which may create the table
LEMMA KeyRequestInv ==
    ASSUME SInv, NEW c \in Conns, NEW kind \in Kinds, NEW n \in TableNames,
           KeyRequest(c, kind, n)
    PROVE  SInv'
  <1> DEFINE H == HoldCount(conn)
             U == UseCount(conn, db)
             create == kind \in {"PUT", "PURGE"}
             q == IF create THEN db_table_get_write(db, n, Min(FreshTables))
                  ELSE db_table_get_read(db, n)
             r == [Closed EXCEPT !.at = IF q.ret = Null THEN "reply" ELSE "url",
                                 !.kind = kind, !.tab = q.ret]
  <1>1. Sound(db, H, U)
    BY ConnFields
  <1>2. Step(c, q.db, r) /\ conn[c].at = "idle" /\ (create /\ db.tables[n] = Null => FreshTables # {})
    BY DEF KeyRequest
  <1>3. /\ q.ret \in TableIds \cup {Null} /\ q.db.ents = db.ents
        /\ \A V : OneMore(U, V, q.ret) => Sound(q.db, H, V)
    <2>1. CASE ~ create \/ db.tables[n] # Null
      <3>1. q = db_table_get_read(db, n)
        BY <2>1 DEF db_table_get_write
      <3> HIDE DEF q, H, U
      <3> DEFINE p == db_table_get_read(db, n)
      <3>2. /\ p.ret \in TableIds \cup {Null} /\ p.db.ents = db.ents
            /\ \A V : OneMore(U, V, p.ret) => Sound(p.db, H, V)
        BY <1>1, TableGetRead
      <3> QED BY <3>1, <3>2
    <2>2. CASE create /\ db.tables[n] = Null
      <3> DEFINE t == Min(FreshTables)
                 p == db_table_get_write(db, n, t)
      <3>1. t \in TableIds /\ ~ db.tabs[t].live /\ U[t] = 0
        BY <1>2, <2>2, FreshTable
      <3>2. q = p
        BY <2>2
      <3> HIDE DEF q, H, U, t
      <3>3. /\ p.ret \in TableIds \cup {Null} /\ p.db.ents = db.ents
            /\ \A V : OneMore(U, V, p.ret) => Sound(p.db, H, V)
        BY <1>1, <3>1, TableGetWrite
      <3> QED BY <3>2, <3>3
    <2> QED BY <2>1, <2>2
  <1> HIDE DEF H, U, q
  <1>4. r \in Conn /\ r.ent = Null /\ r.tab = q.ret /\ ~ r.writing /\ \A d : ConnOK(d, r)
    <2> DEFINE where == IF q.ret = Null THEN "reply" ELSE "url"
    <2>1. where \in {"url", "reply", "tablehead"} /\ (where = "url" => q.ret # Null /\ kind \in KeyKinds)
      BY DEF KeyRequest
    <2> HIDE DEF where
    <2>2. LET p == Asking(where, kind, q.ret)
          IN  p \in Conn /\ p.ent = Null /\ p.tab = q.ret /\ ~ p.writing /\ \A d : ConnOK(d, p)
      BY <1>3, <2>1, RequestConn
    <2>3. r = Asking(where, kind, q.ret)
      BY Zenon DEF Asking, where
    <2> HIDE DEF r
    <2> QED BY <2>2, <2>3
  <1> HIDE DEF r
  <1> QED BY <1>2, <1>3, <1>4, RequestInv DEF H, U

-----------------------------------------------------------------------------
(* A connection leaves its table or its entry.                             *)

UsesLeft(cs, bs, d, c) ==
    \A s \in TableIds :
        UseCount(cs, d)[s] = UseCount(bs, d)[s] + (IF c \in UsersIn(cs, d, s) THEN 1 ELSE 0)
HoldsLeft(cs, bs, c) ==
    \A e \in EntryIds : HoldCount(cs)[e] = HoldCount(bs)[e] + (IF e = cs[c].ent THEN 1 ELSE 0)

\* Connection c points to nothing any more.
LEMMA LeaveCounts ==
    ASSUME NEW cs \in [Conns -> Conn], NEW c \in Conns, NEW r \in Conn, NEW d,
           r.tab = Null, r.ent = Null, NEW bs, bs = [cs EXCEPT ![c] = r]
    PROVE  UsesLeft(cs, bs, d, c) /\ HoldsLeft(cs, bs, c)
  <1>1. bs[c] = r /\ \A b \in Conns \ {c} : bs[b] = cs[b]
    OBVIOUS
  <1>2. ASSUME NEW s \in TableIds
        PROVE  UseCount(cs, d)[s] = UseCount(bs, d)[s] + (IF c \in UsersIn(cs, d, s) THEN 1 ELSE 0)
    <2>1. UsersIn(bs, d, s) \subseteq Conns /\ c \notin UsersIn(bs, d, s)
      BY <1>1, DbAssumption DEF UsersIn
    <2>2. UsersIn(cs, d, s) = UsersIn(bs, d, s) \cup (IF c \in UsersIn(cs, d, s) THEN {c} ELSE {})
      BY <1>1, <2>1 DEF UsersIn
    <2>3. Cardinality(UsersIn(bs, d, s) \cup {c}) = Cardinality(UsersIn(bs, d, s)) + 1
          /\ Cardinality(UsersIn(bs, d, s)) \in Nat
      BY <2>1, OneMoreCount
    <2>4. UseCount(cs, d)[s] = Cardinality(UsersIn(cs, d, s))
          /\ UseCount(bs, d)[s] = Cardinality(UsersIn(bs, d, s))
      BY DEF UseCount
    <2>5. CASE c \in UsersIn(cs, d, s)
      BY <2>2, <2>3, <2>4, <2>5
    <2>6. CASE c \notin UsersIn(cs, d, s)
      <3>1. UsersIn(cs, d, s) = UsersIn(bs, d, s)
        BY <2>2, <2>6
      <3> QED BY <3>1, <2>3, <2>4, <2>6
    <2> QED BY <2>5, <2>6
  <1>3. ASSUME NEW e \in EntryIds
        PROVE  HoldCount(cs)[e] = HoldCount(bs)[e] + (IF e = cs[c].ent THEN 1 ELSE 0)
    <2>1. HoldersIn(bs, e) \subseteq Conns /\ c \notin HoldersIn(bs, e)
      BY <1>1, DbAssumption DEF HoldersIn
    <2>3. Cardinality(HoldersIn(bs, e) \cup {c}) = Cardinality(HoldersIn(bs, e)) + 1
          /\ Cardinality(HoldersIn(bs, e)) \in Nat
      BY <2>1, OneMoreCount
    <2>4. HoldCount(cs)[e] = Cardinality(HoldersIn(cs, e))
          /\ HoldCount(bs)[e] = Cardinality(HoldersIn(bs, e))
      BY DEF HoldCount
    <2>5. CASE e = cs[c].ent
      <3>1. HoldersIn(cs, e) = HoldersIn(bs, e) \cup {c}
        BY <1>1, <2>5 DEF HoldersIn
      <3> QED BY <3>1, <2>3, <2>4, <2>5
    <2>6. CASE e # cs[c].ent
      <3>1. HoldersIn(cs, e) = HoldersIn(bs, e)
        BY <1>1, <2>1, <2>6 DEF HoldersIn
      <3> QED BY <3>1, <2>3, <2>4, <2>6
    <2> QED BY <2>5, <2>6
  <1> QED BY <1>2, <1>3 DEF UsesLeft, HoldsLeft

\* The reference on a table is given back.
LEMMA ReleaseTable ==
    ASSUME SInv, NEW c \in Conns, NEW t, t = conn[c].tab, t # Null, conn[c].ent = Null,
           NEW q, Sound(q, HoldCount(conn), UseCount(conn, db)), Keeps(db, q, HoldCount(conn)),
           NEW r \in Conn, r.ent = Null, r.tab = Null,
           NEW d, d = db_table_deref(q, t, FALSE), Step(c, d, r), ConnOK(d, r), ~ r.writing
    PROVE  SInv'
  <1> DEFINE cs == [conn EXCEPT ![c] = r]
             H == HoldCount(conn)
             U == UseCount(conn, q)
             V == UseCount(cs, q)
  <1>1. conn \in [Conns -> Conn] /\ cs \in [Conns -> Conn] /\ t \in TableIds /\ db \in Db
    BY ConnFields
  <1>2. Sound(q, H, U)
    BY <1>1, KeepsFits DEF Fits
  <1>3. HoldCount(cs) = H
    BY <1>1, SamePointers
  <1>4. \A s \in TableIds : U[s] = V[s] + (IF c \in UsersIn(conn, q, s) THEN 1 ELSE 0)
    <2>1. cs = [conn EXCEPT ![c] = r]
      OBVIOUS
    <2> HIDE DEF cs
    <2>2. UsesLeft(conn, cs, q, c)
      BY <1>1, <2>1, LeaveCounts
    <2> QED BY <2>2 DEF UsesLeft
  <1>5. \A s \in TableIds : c \in UsersIn(conn, q, s) <=> s = t
    BY <1>1 DEF UsersIn
  <1>6. V \in TableUses
    BY CountTypes
  <1>7. \A s \in TableIds : V[s] \in Nat
    BY <1>6 DEF TableUses
  <1> HIDE DEF H, U, V, cs
  <1>8. (\A s \in TableIds : s # t => V[s] = U[s]) /\ V[t] + 1 <= U[t]
    BY <1>1, <1>4, <1>5, <1>7
  <1>9. Base(d, H, V) /\ Keeps(q, d, H) /\ \A e \in EntryIds : SameEntry(q, d, e)
    BY ZenonT(60), <1>1, <1>2, <1>6, <1>8, TableDeref DEF Sound
  <1>10. NoZombie(d, H)
    BY <1>2, <1>9 DEF Sound, NoZombie, SameEntry
  <1>11. UseCount(cs, d) = V
    <2>1. \A f \in EntryIds : d.ents[f].tab = q.ents[f].tab
      BY <1>9 DEF SameEntry
    <2> QED BY <1>1, <2>1, SameUsers DEF V
  <1>12. Fits(d, cs)
    BY <1>3, <1>9, <1>10, <1>11 DEF Fits, Sound
  <1>13. Keeps(db, d, H)
    BY <1>9, KeepsTrans DEF H
  <1>14. ASSUME NEW b \in Conns PROVE ConnOK(d, conn[b])
    BY <1>13, ConnFields, KeepsConn DEF H
  <1> QED BY <1>12, <1>14, StepInv DEF cs

-----------------------------------------------------------------------------
(* http_key_lookup: a connection exchanges its table for an entry of it.   *)

\* The reference to a table becomes a reference to one of its entries.
LEMMA ExchangeInv ==
    ASSUME SInv, NEW c \in Conns, NEW t, t = conn[c].tab, t # Null, conn[c].ent = Null,
           NEW q, NEW e \in EntryIds, Keeps(db, q, HoldCount(conn)), q.ents[e].tab \in {t, Null},
           \A G : ButFor(HoldCount(conn), G, e) /\ G[e] = HoldCount(conn)[e] + 1
                    => Sound(q, G, UseCount(conn, db)),
           NEW r \in Conn, r.ent = e, r.tab = Null, Step(c, q, r), ConnOK(q, r),
           r.writing => HoldCount(conn)[e] = 0
    PROVE  SInv'
  <1> DEFINE cs == [conn EXCEPT ![c] = r]
             H == HoldCount(conn)
             U == UseCount(conn, db)
             G == HoldCount(cs)
             V == UseCount(cs, q)
  <1>1. conn \in [Conns -> Conn] /\ cs \in [Conns -> Conn] /\ t \in TableIds /\ db \in Db
    BY ConnFields
  <1>2. cs[c] = r /\ \A b \in Conns \ {c} : cs[b] = conn[b]
    BY <1>1
  <1>3. G \in Counts /\ V \in TableUses
    BY CountTypes
  <1> HIDE DEF cs
  <1>4. ASSUME NEW f \in EntryIds, f # e PROVE G[f] = H[f]
    <2>1. HoldersIn(cs, f) = HoldersIn(conn, f)
      BY <1>2, <1>4, DbAssumption DEF HoldersIn
    <2> QED BY <2>1 DEF HoldCount
  <1>5. G[e] = H[e] + 1
    <2>1. HoldersIn(cs, e) = HoldersIn(conn, e) \cup {c}
      BY <1>2 DEF HoldersIn
    <2>2. c \notin HoldersIn(conn, e) /\ HoldersIn(conn, e) \subseteq Conns
      BY DbAssumption DEF HoldersIn
    <2>3. Cardinality(HoldersIn(cs, e)) = Cardinality(HoldersIn(conn, e)) + 1
      BY <2>1, <2>2, OneMoreCount
    <2> QED BY <2>3 DEF HoldCount
  <1>6. Sound(q, G, U)
    <2> HIDE DEF G
    <2> QED BY <1>3, <1>4, <1>5 DEF ButFor
  <1>7. ASSUME NEW s \in TableIds PROVE V[s] <= U[s]
    <2>1. ASSUME NEW b \in UsersIn(cs, q, s) PROVE b \in UsersIn(conn, db, s)
      <3>1. b \in Conns /\ s # Null
        BY DbAssumption DEF UsersIn
      <3>2. CASE b = c
        <4>1. s = t
          BY <1>2, <3>1, <3>2 DEF UsersIn
        <4> QED BY <3>2, <4>1 DEF UsersIn
      <3>3. CASE b # c /\ conn[b].tab = s
        BY <3>1, <3>3 DEF UsersIn
      <3>4. CASE b # c /\ conn[b].ent # Null /\ q.ents[conn[b].ent].tab = s
        <4>1. conn[b].ent \in EntryIds /\ H[conn[b].ent] > 0
          BY <3>1, <3>4, ConnFields
        <4>2. db.ents[conn[b].ent].tab = s
          BY <3>1, <3>4, <4>1 DEF Keeps
        <4> QED BY <3>1, <3>4, <4>2 DEF UsersIn
      <3> QED BY <1>2, <3>1, <3>2, <3>3, <3>4 DEF UsersIn
    <2> QED BY <2>1, UsersShrink
  <1>8. Base(q, G, V)
    <2> HIDE DEF G, V, U
    <2> QED BY <1>3, <1>6, <1>7, FewerUses DEF Sound
  <1>9. Fits(q, cs)
    BY <1>6, <1>8 DEF Fits, Sound
  <1>10. ASSUME NEW b \in Conns PROVE ConnOK(q, conn[b])
    BY ConnFields, KeepsConn
  <1>11. ASSUME r.writing, NEW b \in Conns \ {c} PROVE ~ (conn[b].writing /\ conn[b].ent = r.ent)
    BY <1>11, Held
  <1> QED BY <1>9, <1>10, <1>11, StepInv DEF cs

\* The state of a connection that has looked up a key.
Found(x, e, k, fd, writing) ==
    [x EXCEPT !.at = "head", !.tab = Null, !.ent = e, !.key = k, !.fd = fd, !.writing = writing]

FoundOK(r, x, e, k, writing) ==
    /\ r \in Conn /\ r.at = "head" /\ r.kind = x.kind /\ r.tab = Null /\ r.ent = e
    /\ r.key = k /\ r.writing = writing

\* The connection after the lookup.
LEMMA FoundConn ==
    ASSUME NEW x \in Conn, NEW e \in EntryIds \cup {Null}, NEW k \in Keys \cup {Null},
           NEW fd \in BOOLEAN, NEW writing \in BOOLEAN
    PROVE  FoundOK(Found(x, e, k, fd, writing), x, e, k, writing)
  BY ZenonT(60) DEF Found, FoundOK, Conn, Heads

\* An entry that malloc may return is held by nobody.
LEMMA FreshEntry ==
    ASSUME SInv, FreshEntries # {}
    PROVE  /\ Min(FreshEntries) \in EntryIds /\ ~ db.ents[Min(FreshEntries)].live
           /\ HoldCount(conn)[Min(FreshEntries)] = 0
  <1> DEFINE e == Min(FreshEntries)
  <1>1. FreshEntries \in SUBSET Nat
    BY DbAssumption DEF FreshEntries
  <1>2. e \in FreshEntries
    BY <1>1, MinIn
  <1> HIDE DEF e
  <1>3. e \in EntryIds /\ ~ db.ents[e].live /\ (\A c \in Conns : conn[c].ent # e)
    BY <1>2 DEF FreshEntries
  <1>4. HoldCount(conn)[e] \in Nat
    BY <1>3, CountTypes DEF Counts
  <1>5. HoldCount(conn)[e] = 0
    BY <1>3, <1>4, Held
  <1> QED BY <1>3, <1>5 DEF e

\* What a lookup of key k by connection x returns in q.
Lookup(x, q, H, U, k) ==
    \/ q.ret = Null /\ Sound(q.db, H, U) /\ Keeps(db, q.db, H)
    \/ /\ q.ret \in EntryIds /\ Keeps(db, q.db, H)
       /\ q.db.ents[q.ret].live /\ q.db.ents[q.ret].tab \in {x.tab, Null}
       /\ \A G : ButFor(H, G, q.ret) /\ G[q.ret] = H[q.ret] + 1 => Sound(q.db, G, U)
       /\ x.kind = "PUT" => q.db.ents[q.ret].writing /\ H[q.ret] = 0
       /\ x.kind = "GET" => /\ q.db.ents[q.ret].key = k /\ ~ q.db.ents[q.ret].writing
                            /\ q.db.ents[q.ret].len > 0

\* Any lookup as described above keeps the invariant.
LEMMA LookupInv ==
    ASSUME SInv, NEW c \in Conns, NEW x, x = conn[c], x.at = "url",
           NEW k \in Keys, NEW q, Lookup(x, q, HoldCount(conn), UseCount(conn, db), k),
           NEW d, d = IF q.ret = Null THEN db_table_deref(q.db, x.tab, FALSE) ELSE q.db,
           NEW fd \in BOOLEAN, NEW writing \in BOOLEAN,
           writing <=> x.kind = "PUT" /\ q.ret # Null,
           Step(c, d, Found(x, q.ret, IF q.ret = Null THEN Null ELSE k, fd, writing))
    PROVE  SInv'
  <1> DEFINE H == HoldCount(conn)
             U == UseCount(conn, db)
             e == q.ret
             key == IF e = Null THEN Null ELSE k
             r == Found(x, e, key, fd, writing)
  <1>1. x \in Conn /\ x.ent = Null /\ x.tab # Null
    BY ConnFields DEF ConnOK
  <1>2. e \in EntryIds \cup {Null} /\ key \in Keys \cup {Null}
    BY DEF Lookup
  <1>3. Step(c, d, r)
    OBVIOUS
  <1> HIDE DEF key, r
  <1>4. /\ r \in Conn /\ r.at = "head" /\ r.kind = x.kind /\ r.tab = Null /\ r.ent = e
        /\ r.key = key /\ r.writing = writing
    <2>1. FoundOK(Found(x, e, key, fd, writing), x, e, key, writing)
      BY <1>1, <1>2, FoundConn
    <2> QED BY <2>1 DEF r, FoundOK
  <1>5. CASE e = Null
    <2>1. ConnOK(d, r) /\ ~ r.writing
      BY <1>4, <1>5 DEF ConnOK
    <2>2. Sound(q.db, H, U) /\ Keeps(db, q.db, H)
      BY <1>5, DbAssumption DEF Lookup
    <2>3. d = db_table_deref(q.db, x.tab, FALSE)
      BY SMTT(60), <1>5
    <2> HIDE DEF H, U
    <2> QED BY <1>1, <1>3, <1>4, <1>5, <2>1, <2>2, <2>3, ReleaseTable DEF H, U
  <1>6. CASE e # Null
    <2>1. /\ e \in EntryIds /\ Keeps(db, d, H)
          /\ d.ents[e].live /\ d.ents[e].tab \in {x.tab, Null}
          /\ \A G : ButFor(H, G, e) /\ G[e] = H[e] + 1 => Sound(d, G, U)
          /\ x.kind = "PUT" => d.ents[e].writing /\ H[e] = 0
          /\ x.kind = "GET" => /\ d.ents[e].key = k /\ ~ d.ents[e].writing /\ d.ents[e].len > 0
      BY <1>6 DEF Lookup
    <2>2. key = k
      BY <1>6 DEF key
    <2>3. writing <=> x.kind = "PUT"
      BY <1>6
    <2>4. ConnOK(d, r) /\ (r.writing => H[e] = 0)
      BY <1>4, <1>6, <2>1, <2>2, <2>3 DEF ConnOK
    <2> HIDE DEF H, U
    <2> QED BY <1>1, <1>3, <1>4, <2>1, <2>4, ExchangeInv DEF H, U
  <1> QED BY <1>5, <1>6

\* GET, DELETE and PUT look up as described above.
LEMMA LookupGet ==
    ASSUME SInv, NEW c \in Conns, NEW x, x = conn[c], x.at = "url", ~ Unusable(db, x.tab),
           NEW k \in Keys, x.kind = "GET"
    PROVE  Lookup(x, db_entry_get_read(db, x.tab, k, now), HoldCount(conn), UseCount(conn, db), k)
  <1> DEFINE H == HoldCount(conn)
             U == UseCount(conn, db)
             t == x.tab
             q == db_entry_get_read(db, t, k, now)
  <1>1. t \in TableIds /\ U[t] > 0 /\ Sound(db, H, U)
    BY SMTT(60), ConnFields DEF ConnOK
  <1> HIDE DEF H, U, q
  <1>2. \/ q.ret = Null /\ Sound(q.db, H, U) /\ Keeps(db, q.db, H)
        \/ /\ q.ret \in EntryIds /\ Taken(db, q.db, H, U, q.ret, t)
           /\ q.db.ents[q.ret].key = k /\ ~ q.db.ents[q.ret].writing
           /\ q.db.ents[q.ret].len > 0
    BY <1>1, EntryGetRead DEF q
  <1>3. Lookup(x, q, H, U, k)
    BY <1>2 DEF Lookup, Taken
  <1> QED BY <1>3 DEF H, U, q

\* DELETE
LEMMA LookupDelete ==
    ASSUME SInv, NEW c \in Conns, NEW x, x = conn[c], x.at = "url",
           NEW k \in Keys, x.kind = "DELETE"
    PROVE  Lookup(x, db_entry_get_delete(db, x.tab, k), HoldCount(conn), UseCount(conn, db), k)
  <1> DEFINE H == HoldCount(conn)
             U == UseCount(conn, db)
             t == x.tab
             q == db_entry_get_delete(db, t, k)
  <1>1. t \in TableIds /\ Sound(db, H, U)
    BY ConnFields DEF ConnOK
  <1> HIDE DEF H, U, q
  <1>2. \/ q.ret = Null /\ q.db = db
        \/ q.ret \in EntryIds /\ Taken(db, q.db, H, U, q.ret, t)
    BY <1>1, EntryGetDelete DEF q
  <1>3. Lookup(x, q, H, U, k)
    BY <1>1, <1>2, KeepsRefl DEF Lookup, Taken
  <1> QED BY <1>3 DEF H, U, q

\* PUT
LEMMA LookupPut ==
    ASSUME SInv, NEW c \in Conns, NEW x, x = conn[c], x.at = "url", ~ Unusable(db, x.tab),
           NEW k \in Keys, x.kind = "PUT", FreshEntries # {}
    PROVE  Lookup(x, db_entry_get_write(db, x.tab, k, now, Min(FreshEntries)),
                  HoldCount(conn), UseCount(conn, db), k)
  <1> DEFINE H == HoldCount(conn)
             U == UseCount(conn, db)
             t == x.tab
             e == Min(FreshEntries)
             q == db_entry_get_write(db, t, k, now, e)
  <1>1. t \in TableIds /\ U[t] > 0 /\ Sound(db, H, U) /\ Covered(db, H, U)
    BY ConnFields DEF ConnOK
  <1>2. e \in EntryIds /\ ~ db.ents[e].live /\ H[e] = 0
    BY FreshEntry
  <1> HIDE DEF H, U, q, e
  <1>3. /\ Keeps(db, q.db, H)
        /\ \/ q.ret = Null /\ Sound(q.db, H, U)
           \/ /\ q.ret = e /\ q.db.ents[e].live /\ q.db.ents[e].writing
              /\ q.db.ents[e].key = k /\ q.db.ents[e].tab \in {t, Null}
              /\ \A G : ButFor(H, G, e) /\ G[e] = 1 => Sound(q.db, G, U)
    BY <1>1, <1>2, EntryGetWrite DEF q
  <1>6. Lookup(x, q, H, U, k)
    <2>4. CASE q.ret = Null /\ Sound(q.db, H, U)
      BY <1>3, <2>4 DEF Lookup
    <2>5. CASE /\ q.ret = e /\ q.db.ents[e].live /\ q.db.ents[e].writing
               /\ q.db.ents[e].key = k /\ q.db.ents[e].tab \in {t, Null}
               /\ \A G : ButFor(H, G, e) /\ G[e] = 1 => Sound(q.db, G, U)
      <3>1. H[e] + 1 = 1
        BY <1>2
      <3>2. \A G : ButFor(H, G, e) /\ G[e] = H[e] + 1 => Sound(q.db, G, U)
        BY <2>5, <3>1
      <3> QED BY <1>2, <1>3, <2>5, <3>2 DEF Lookup
    <2> QED BY <1>3, <2>4, <2>5
  <1> QED BY <1>6 DEF H, U, q, e

\* http_key_lookup
LEMMA KeyLookupInv ==
    ASSUME SInv, NEW c \in Conns, NEW k \in Keys, KeyLookup(c, k)
    PROVE  SInv'
  <1> DEFINE x == conn[c]
             q == CASE x.kind = "GET"    -> db_entry_get_read(db, x.tab, k, now)
                    [] x.kind = "PUT"    -> db_entry_get_write(db, x.tab, k, now, Min(FreshEntries))
                    [] x.kind = "DELETE" -> db_entry_get_delete(db, x.tab, k)
             d == IF q.ret = Null THEN db_table_deref(q.db, x.tab, FALSE) ELSE q.db
             fd == Opens(x, q.db, q.ret)
             writing == x.kind = "PUT" /\ q.ret # Null
             r == Found(x, q.ret, IF q.ret = Null THEN Null ELSE k, fd, writing)
  <1>1. CASE Unusable(db, x.tab)
    BY <1>1, MisusedInv DEF KeyLookup
  <1>2. CASE ~ Unusable(db, x.tab)
    <2>1. x.at = "url" /\ (x.kind = "PUT" => FreshEntries # {})
      BY <1>2 DEF KeyLookup
    <2>2. Step(c, d, r)
      BY <1>2, ZenonT(60) DEF KeyLookup, Found
    <2>3. x.kind \in {"GET", "PUT", "DELETE"}
      BY <2>1, ConnFields DEF ConnOK, KeyKinds, KeyLookup
    <2>4. Lookup(x, q, HoldCount(conn), UseCount(conn, db), k)
      <3> HIDE DEF x
      <3>1. CASE x.kind = "GET"
        <4>1. q = db_entry_get_read(db, x.tab, k, now)
          BY <3>1
        <4> HIDE DEF q
        <4> QED BY <1>2, <2>1, <3>1, <4>1, LookupGet DEF x
      <3>2. CASE x.kind = "PUT"
        <4>1. q = db_entry_get_write(db, x.tab, k, now, Min(FreshEntries))
          BY <3>2
        <4> HIDE DEF q
        <4> QED BY <1>2, <2>1, <3>2, <4>1, LookupPut DEF x
      <3>3. CASE x.kind = "DELETE"
        <4>1. q = db_entry_get_delete(db, x.tab, k)
          BY <3>3
        <4> HIDE DEF q
        <4> QED BY <2>1, <3>3, <4>1, LookupDelete DEF x
      <3> QED BY <2>3, <3>1, <3>2, <3>3
    <2>5. fd \in BOOLEAN /\ writing \in BOOLEAN /\ (writing <=> x.kind = "PUT" /\ q.ret # Null)
      BY DEF Opens
    <2>6. d = IF q.ret = Null THEN db_table_deref(q.db, x.tab, FALSE) ELSE q.db
      BY SMTT(60)
    <2>7. Step(c, d, Found(x, q.ret, IF q.ret = Null THEN Null ELSE k, fd, writing))
      BY <2>2
    <2> HIDE DEF q, d, fd, writing, r
    <2> QED BY <2>1, <2>4, <2>5, <2>6, <2>7, LookupInv
  <1> QED BY <1>1, <1>2

-----------------------------------------------------------------------------
(* X-Delete: an entry is taken, deleted and left within one step.          *)

\* A connection may forget its table when it needs none.
LEMMA ForgetInv ==
    ASSUME SInv, NEW c \in Conns, NEW d, Step(c, d, [conn[c] EXCEPT !.tab = Null]),
           conn[c].at = "tablehead",
           Sound(d, HoldCount(conn), UseCount(conn, db)), Keeps(db, d, HoldCount(conn))
    PROVE  SInv'
  <1> DEFINE x == conn[c]
             r == [x EXCEPT !.tab = Null]
             cs == [conn EXCEPT ![c] = r]
  <1>1. x \in Conn /\ conn \in [Conns -> Conn] /\ db \in Db
    BY ConnFields
  <1>2. /\ r \in Conn /\ r.at = x.at /\ r.kind = x.kind /\ r.tab = Null /\ r.ent = x.ent
        /\ r.key = x.key /\ r.writing = x.writing
    BY <1>1 DEF Conn
  <1>3. Step(c, d, r)
    OBVIOUS
  <1> HIDE DEF r
  <1>4. Fits(d, conn)
    BY <1>1, KeepsFits
  <1>5. cs[c] = r /\ \A b \in Conns \ {c} : cs[b] = conn[b]
    BY <1>1
  <1>6. HoldCount(cs) = HoldCount(conn)
    BY <1>1, <1>2, SamePointers
  <1>7. UseCount(cs, d) \in TableUses
    BY CountTypes
  <1>8. ASSUME NEW s \in TableIds PROVE UseCount(cs, d)[s] <= UseCount(conn, d)[s]
    <2> HIDE DEF cs
    <2>1. UsersIn(cs, d, s) \subseteq UsersIn(conn, d, s)
      BY <1>2, <1>5, DbAssumption DEF UsersIn
    <2> QED BY <2>1, UsersShrink
  <1>9. Fits(d, cs)
    <2> HIDE DEF cs
    <2> QED BY <1>4, <1>6, <1>7, <1>8, FewerUses DEF Fits, Sound
  <1>10. ASSUME NEW b \in Conns PROVE ConnOK(d, conn[b])
    BY SMTT(60), ConnFields, KeepsConn
  <1>11. ConnOK(d, r) /\ ~ r.writing
    BY <1>2, <1>10, ConnFields DEF ConnOK
  <1> QED BY <1>2, <1>3, <1>9, <1>10, <1>11, StepInv

\* Take a reference to an entry, delete it, and release it.
LEMMA TakeDeleteLeave ==
    ASSUME NEW d, NEW q, NEW H, NEW U, Sound(d, H, U), NEW e \in EntryIds, NEW t \in TableIds,
           U[t] > 0, Taken(d, q, H, U, e, t)
    PROVE  LET p == db_entry_deref(db_entry_handle_delete(q, e), e, FALSE)
           IN  Sound(p, H, U) /\ Keeps(d, p, H)
  <1> DEFINE G == [H EXCEPT ![e] = @ + 1]
             d1 == db_entry_handle_delete(q, e)
             p == db_entry_deref(d1, e, FALSE)
  <1>1. H \in Counts /\ U \in TableUses
    BY DEF Sound, Base
  <1>2. ButFor(H, G, e) /\ G[e] = H[e] + 1 /\ G[e] > 0 /\ ButFor(G, H, e) /\ H[e] = G[e] - 1
    BY <1>1 DEF ButFor, Counts
  <1> HIDE DEF G, d1, p
  <1>3. Sound(q, G, U) /\ q.ents[e].tab = t /\ Keeps(d, q, H)
    BY <1>2 DEF Taken
  <1>4. Sound(d1, G, U) /\ Keeps(q, d1, G)
    BY <1>2, <1>3, HandleDelete DEF d1
  <1>5. Sound(p, H, U) /\ Keeps(d1, p, H)
    <2>1. \A s \in TableIds : U[s] = U[s] \/ (FALSE /\ s = d1.ents[e].tab)
      OBVIOUS
    <2> QED BY <1>1, <1>2, <1>4, <2>1, EntryDeref DEF p
  <1>6. Keeps(q, d1, H)
    <2>1. \A f \in EntryIds : H[f] > 0 => G[f] > 0
      BY <1>2 DEF ButFor
    <2> QED BY <1>4, <2>1 DEF Keeps
  <1>7. Keeps(d, p, H)
    BY <1>3, <1>5, <1>6, KeepsTrans
  <1> QED BY <1>5, <1>7 DEF p, d1

\* X-Delete
LEMMA XDeleteInv ==
    ASSUME SInv, NEW c \in Conns, NEW k \in Keys, XDelete(c, k)
    PROVE  SInv'
  <1> DEFINE x == conn[c]
             t == x.tab
             H == HoldCount(conn)
             U == UseCount(conn, db)
             q == db_entry_get_delete(db, t, k)
             d1 == db_entry_handle_delete(q.db, q.ret)
             p == db_entry_deref(d1, q.ret, FALSE)
  <1>1. x.at = "tablehead" /\ t # Null /\ t \in TableIds /\ U[t] > 0 /\ Sound(db, H, U) /\ x \in Conn
    BY ConnFields DEF XDelete, Header
  <1>2. CASE Unusable(db, t)
    BY <1>2, MisusedInv DEF XDelete
  <1>3. CASE ~ Unusable(db, t)
    <2>1. \/ q.ret = Null /\ Step(c, q.db, x)
          \/ q.ret # Null /\ Step(c, p, IF d1.ents[q.ret].tab = Null THEN [x EXCEPT !.tab = Null] ELSE x)
      BY <1>3 DEF XDelete
    <2> HIDE DEF q, H, U
    <2>2. \/ q.ret = Null /\ q.db = db
          \/ q.ret \in EntryIds /\ Taken(db, q.db, H, U, q.ret, t)
      BY <1>1, EntryGetDelete DEF q
    <2>3. CASE q.ret = Null
      <3>1. Step(c, db, x)
        BY <2>1, <2>2, <2>3, DbAssumption
      <3> QED BY <1>1, <3>1, QuietStep, UnchangedDb
    <2>4. CASE q.ret # Null
      <3>1. Sound(p, H, U) /\ Keeps(db, p, H)
        BY <1>1, <2>2, <2>4, TakeDeleteLeave
      <3>2. Step(c, p, [x EXCEPT !.tab = Null]) \/ Step(c, p, x)
        BY <2>1, <2>4
      <3> HIDE DEF p
      <3>3. CASE Step(c, p, x)
        BY <1>1, <3>1, <3>3, QuietStep DEF H, U
      <3>4. CASE Step(c, p, [x EXCEPT !.tab = Null])
        BY <1>1, <3>1, <3>4, ForgetInv DEF H, U
      <3> QED BY <3>2, <3>3, <3>4
    <2> QED BY SMTT(60), <2>3, <2>4
  <1> QED BY <1>2, <1>3

-----------------------------------------------------------------------------
(* The end of a request: cache_destroy.                                    *)

\* An upload that ends is no longer found, and no longer written.
LEMMA AbortSound ==
    ASSUME SInv, NEW c \in Conns, NEW x, x = conn[c], x.writing, NEW d, d = Abort(x, db)
    PROVE  /\ Fits(d, conn)
           /\ \A b \in Conns \ {c} : ConnOK(d, conn[b])
  <1> DEFINE H == HoldCount(conn)
             U == UseCount(conn, db)
             e == x.ent
             d1 == IF db.ents[e].deleted THEN db ELSE db_entry_handle_delete(db, e)
  <1>1. /\ e \in EntryIds /\ H[e] > 0 /\ Sound(db, H, U) /\ Covered(db, H, U) /\ db \in Db
        /\ db.ents[e].writing /\ conn \in [Conns -> Conn]
    BY ConnFields DEF ConnOK
  <1>2. db.ents[e].tab # Null => U[db.ents[e].tab] > 0
    BY <1>1 DEF Covered
  <1>3. d = [d1 EXCEPT !.ents[e].writing = FALSE]
    BY ZenonT(60) DEF Abort
  <1> HIDE DEF H, U
  <1>4. /\ Sound(d1, H, U) /\ Keeps(db, d1, H)
        /\ \/ d1.ents[e].deleted \/ d1.ents[e].tab = Null \/ Unusable(d1, d1.ents[e].tab)
    <2>1. CASE db.ents[e].deleted
      BY <1>1, <2>1, KeepsRefl
    <2>2. CASE ~ db.ents[e].deleted
      <3> DEFINE p == db_entry_handle_delete(db, e)
      <3>1. /\ Sound(p, H, U) /\ Keeps(db, p, H)
            /\ \/ p.ents[e].deleted \/ p.ents[e].tab = Null \/ Unusable(p, p.ents[e].tab)
        BY <1>1, <1>2, HandleDelete
      <3> QED BY <2>2, <3>1
    <2> QED BY <2>1, <2>2
  <1> HIDE DEF d1
  <1>5. Fits(d1, conn)
    BY <1>1, <1>4, KeepsFits DEF H, U
  <1> DEFINE W == UseCount(conn, d1)
  <1>6. Sound(d1, H, W)
    BY <1>5 DEF Fits, H
  <1> HIDE DEF W
  <1>7. Sound(d, H, W) /\ ButWriting(d1, d, e)
    BY <1>1, <1>3, <1>4, <1>6, StopWriting
  <1>8. UseCount(conn, d) = W
    <2>1. \A f \in EntryIds : d.ents[f].tab = d1.ents[f].tab
      BY <1>7 DEF ButWriting
    <2> QED BY <1>1, <2>1, SameUsers DEF W
  <1>9. Fits(d, conn)
    BY SMTT(60), <1>7, <1>8 DEF Fits, H
  <1>10. OthersSee(d1, d, e) /\ d1.ents[e].writing
    BY <1>1, <1>4, <1>7 DEF ButWriting, OthersSee, Keeps
  <1>11. ASSUME NEW b \in Conns \ {c} PROVE ConnOK(d, conn[b])
    <2>1. ConnOK(d1, conn[b]) /\ conn[b] \in Conn
      BY <1>4, ConnFields, KeepsConn DEF H
    <2>2. ~ (conn[b].writing /\ conn[b].ent = e)
      BY DEF SInv
    <2> QED BY <1>1, <1>10, <2>1, <2>2, OthersConn
  <1> QED BY <1>9, <1>11

\* The entry is left, with the reference on its table.
LEMMA LeaveEntry ==
    ASSUME SInv, NEW c \in Conns, NEW e, e = conn[c].ent, e # Null,
           NEW q, Fits(q, conn), \A b \in Conns \ {c} : ConnOK(q, conn[b]),
           NEW d, d = db_entry_deref(q, e, TRUE), Step(c, d, Closed)
    PROVE  SInv'
  <1> DEFINE cs == [conn EXCEPT ![c] = Closed]
             H == HoldCount(conn)
             G == HoldCount(cs)
             U == UseCount(conn, q)
             V == UseCount(cs, q)
  <1>0. Closed \in Conn /\ ConnOK(d, Closed) /\ ~ Closed.writing /\ Closed.ent = Null /\ Closed.tab = Null
    BY ClosedConn DEF Closed
  <1>1. conn \in [Conns -> Conn] /\ cs \in [Conns -> Conn] /\ e \in EntryIds /\ H[e] > 0
        /\ conn[c].tab = Null /\ cs = [conn EXCEPT ![c] = Closed]
    BY <1>0, ConnFields DEF ConnOK
  <1>2. \A b \in Conns \ {c} : cs[b] = conn[b]
    BY <1>1
  <1> HIDE DEF cs
  <1>3. UsesLeft(conn, cs, q, c) /\ HoldsLeft(conn, cs, c)
    BY <1>0, <1>1, LeaveCounts
  <1>4. G \in Counts /\ V \in TableUses /\ H \in Counts /\ U \in TableUses
    BY CountTypes
  <1>5. \A s \in TableIds : c \in UsersIn(conn, q, s) <=> s = q.ents[e].tab
    BY <1>1, DbAssumption DEF UsersIn
  <1>6. \A s \in TableIds : U[s] = V[s] + (IF s = q.ents[e].tab THEN 1 ELSE 0)
    BY <1>3, <1>5 DEF UsesLeft
  <1>7. \A f \in EntryIds : H[f] = G[f] + (IF f = e THEN 1 ELSE 0)
    BY <1>3 DEF HoldsLeft
  <1>8. Sound(q, H, U) /\ q \in Db
    BY DEF Fits, Sound, Base
  <1> HIDE DEF H, G, U, V
  <1>9. \A s \in TableIds : V[s] \in Nat /\ U[s] \in Nat
    BY <1>4 DEF TableUses
  <1>10. /\ \A s \in TableIds : V[s] = U[s] \/ (TRUE /\ s = q.ents[e].tab)
         /\ \A s \in TableIds : TRUE /\ s = q.ents[e].tab /\ q.tabs[s].live /\ ~ q.tabs[s].deleted
               => V[s] + 1 <= U[s]
    BY <1>6, <1>9
  <1>11. ButFor(H, G, e) /\ G[e] = H[e] - 1
    BY <1>1, <1>4, <1>7 DEF ButFor, Counts
  <1>12. Sound(d, G, V) /\ Keeps(q, d, G)
    BY <1>1, <1>4, <1>8, <1>10, <1>11, EntryDeref
  <1>13. Fits(d, cs)
    BY <1>1, <1>8, <1>12, KeepsFits DEF G, V
  <1>14. ASSUME NEW b \in Conns \ {c} PROVE ConnOK(d, conn[b])
    <2>1. conn[b] \in Conn /\ ConnOK(q, conn[b]) /\ (conn[b].ent # Null => conn[b].ent \in EntryIds)
      BY ConnFields
    <2>2. conn[b].ent # Null => G[conn[b].ent] > 0
      BY <1>2, <2>1, Held DEF G
    <2> QED BY <1>12, <2>1, <2>2, KeepsConn
  <1> QED BY <1>0, <1>1, <1>13, <1>14, StepInv

\* The end of a request, finished or not
LEMMA CleanupInv == ASSUME SInv, NEW c \in Conns, Cleanup(c) PROVE SInv'
  <1> DEFINE x == conn[c]
             e == x.ent
  <1>0. Step(c, cache_destroy(x, db), Closed)
    BY DEF Cleanup
  <1>1. x \in Conn /\ conn \in [Conns -> Conn] /\ db \in Db /\ ConnOK(db, x)
    BY ConnFields
  <1>2. CASE e # Null
    <2> DEFINE d0 == IF x.writing THEN Abort(x, db) ELSE db
               q  == IF x.fd /\ d0.ents[e].writing THEN db_entry_delete(d0, e) ELSE d0
    <2>0. e \in EntryIds
      BY <1>2, ConnFields
    <2>1. Step(c, db_entry_deref(q, e, TRUE), Closed)
      BY <1>0, <1>2 DEF cache_destroy, db_target_entry_close
    <2>2. Fits(d0, conn) /\ \A b \in Conns \ {c} : ConnOK(d0, conn[b])
      <3>1. CASE x.writing
        BY <3>1, AbortSound
      <3>2. CASE ~ x.writing
        BY <3>2, ConnFields DEF Fits
      <3> QED BY <3>1, <3>2
    <2> HIDE DEF d0
    <2>3. d0 \in Db
      BY <2>2 DEF Fits, Sound, Base
    <2>4. Fits(q, conn) /\ \A b \in Conns \ {c} : ConnOK(q, conn[b])
      <3>1. CASE q = d0
        BY <2>2, <3>1
      <3>2. CASE q = db_entry_delete(d0, e)
        <4> HIDE DEF q
        <4>1. SameCore(d0, q)
          BY <2>0, <2>3, <3>2, EntryDeleteCore
        <4>2. Keeps(d0, q, HoldCount(conn)) /\ Sound(q, HoldCount(conn), UseCount(conn, d0))
          BY <2>2, <4>1, CoreSound DEF Fits
        <4>3. Fits(q, conn)
          BY <1>1, <2>3, <4>2, KeepsFits
        <4>4. ASSUME NEW b \in Conns \ {c} PROVE ConnOK(q, conn[b])
          BY <2>2, <4>2, ConnFields, KeepsConn
        <4> QED BY <4>3, <4>4
      <3> QED BY <3>1, <3>2
    <2> HIDE DEF q
    <2> QED BY <1>2, <2>1, <2>4, LeaveEntry
  <1>3. CASE e = Null /\ x.tab # Null
    <2>1. Step(c, db_table_deref(db, x.tab, FALSE), Closed)
      BY <1>0, <1>3 DEF cache_destroy
    <2>2. Closed \in Conn /\ Closed.ent = Null /\ Closed.tab = Null /\ ~ Closed.writing
          /\ \A d : ConnOK(d, Closed)
      BY ClosedConn DEF Closed
    <2> QED BY <1>3, <2>1, <2>2, ReleaseTable, UnchangedDb
  <1>4. CASE e = Null /\ x.tab = Null
    <2>1. Step(c, db, Closed)
      BY <1>0, <1>4 DEF cache_destroy
    <2>2. Closed \in Conn /\ Closed.ent = Null /\ Closed.tab = Null /\ ~ Closed.writing
          /\ \A d : ConnOK(d, Closed)
      BY ClosedConn DEF Closed
    <2> QED BY <1>4, <2>1, <2>2, QuietStep, UnchangedDb
  <1> QED BY <1>2, <1>3, <1>4

-----------------------------------------------------------------------------
(* The invariant, and what follows from it.                                *)

\* The empty database has its type.
LEMMA EmptyDbType == EmptyDb \in Db
  <1>1. DeadEntry \in Entry /\ DeadTable \in Table
    BY DbAssumption DEF DeadEntry, DeadTable, Entry, Table, Ptr
  <1>2. 0 \in 0 .. LruEvery - 1
    BY DbAssumption
  <1> QED BY <1>1, <1>2 DEF EmptyDb, Db, Ptr, Faults

\* The initial state
LEMMA InitInv == Init => SInv
  <1> SUFFICES ASSUME Init PROVE SInv
    OBVIOUS
  <1> DEFINE H == HoldCount(conn)
             U == UseCount(conn, db)
  <1>1. conn \in [Conns -> Conn] /\ \A c \in Conns : conn[c] = Closed
    BY ClosedConn DEF Init
  <1>2. \A c \in Conns : ConnOK(db, conn[c]) /\ ~ conn[c].writing
    <2>1. ConnOK(db, Closed)
      BY ClosedConn
    <2>2. ~ Closed.writing
      BY DEF Closed
    <2> QED BY <1>1, <2>1, <2>2
  <1>3. now \in 1 .. MaxTime
    BY ServerAssumption DEF Init
  <1>4. H \in Counts /\ U \in TableUses
    BY CountTypes
  <1>5. \A e \in EntryIds : H[e] = 0
    <2>1. ASSUME NEW e \in EntryIds PROVE ~ (H[e] > 0)
      <3>1. \A c \in Conns : conn[c].ent # e
        BY <1>1, DbAssumption DEF Closed
      <3> QED BY <1>1, <3>1, Held
    <2>2. \A e \in EntryIds : H[e] \in Nat
      BY <1>4 DEF Counts
    <2> HIDE DEF H
    <2> QED BY <2>1, <2>2
  <1> HIDE DEF H, U
  <1>6. db \in Db /\ db = EmptyDb
    BY EmptyDbType DEF Init
  <1>7. \A e \in EntryIds : db.ents[e] = DeadEntry
    BY <1>6 DEF EmptyDb
  <1>8. \A t \in TableIds : db.tabs[t] = DeadTable
    BY <1>6 DEF EmptyDb
  <1>9. \A e \in EntryIds : EntryOK(db, H, e)
    BY <1>5, <1>7 DEF EntryOK, DeadEntry
  <1>10. \A e \in EntryIds : ~ db.ents[e].live
    BY <1>7 DEF DeadEntry
  <1>11. BlocksOK(db) /\ NoZombie(db, H)
    BY SMTT(60), <1>6, <1>10 DEF BlocksOK, NoZombie, EmptyDb
  <1>12. \A t \in TableIds, h \in Hashes : SlotOK(db, t, h)
    BY <1>8 DEF SlotOK, DeadTable
  <1>13. \A t \in TableIds : TableOK(db, U, t)
    BY <1>8 DEF TableOK, DeadTable
  <1>14. Sound(db, H, U)
    BY <1>4, <1>6, <1>9, <1>11, <1>12, <1>13 DEF Sound, Base
  <1> QED BY <1>1, <1>2, <1>3, <1>14 DEF SInv, H, U

\* Steps of the clock, and stuttering.
LEMMA StutterInv ==
    ASSUME SInv, UNCHANGED <<db, conn>>, now' \in 1 .. MaxTime
    PROVE  SInv'
  BY DEF SInv, HoldCount, UseCount, HoldersIn, UsersIn

\* Every step keeps the invariant.
LEMMA NextInv == SInv /\ [Next]_vars => SInv'
  <1> SUFFICES ASSUME SInv, [Next]_vars PROVE SInv'
    OBVIOUS
  <1>1. CASE \E c \in Conns, kind \in Kinds, n \in TableNames :
               KeyRequest(c, kind, n) \/ TableRequest(c, kind, n)
    BY <1>1, KeyRequestInv, TableRequestInv
  <1>2. CASE \E c \in Conns, k \in Keys : KeyLookup(c, k) \/ XDelete(c, k)
    BY <1>2, KeyLookupInv, XDeleteInv
  <1>3. CASE \E c \in Conns, len \in Lengths : ContentLength(c, len)
    BY <1>3, ContentLengthInv
  <1>4. CASE \E c \in Conns, ttl \in Ttls : XTtl(c, ttl)
    BY <1>4, XTtlInv
  <1>5. CASE \E c \in Conns : AdminGc(c) \/ EndPut(c) \/ EndGet(c) \/ EndDelete(c) \/ EndDrop(c)
    BY <1>5, AdminGcInv, EndPutInv, EndGetInv, EndDeleteInv, EndDropInv
  <1>6. CASE \E c \in Conns :
               EndList(c) \/ EndBulk(c) \/ HeadRefused(c) \/ BodyFailed(c) \/ KeyRefused(c)
    BY <1>6, EndOtherInv
  <1>7. CASE \E c \in Conns : BodyDone(c) \/ ListStep(c) \/ Cleanup(c) \/ EndDropFreed(c)
    BY <1>7, BodyDoneInv, ListStepInv, CleanupInv, EndDropFreedInv
  <1>8. CASE Tick
    <2>1. now \in Nat /\ now' = now + 1 /\ now < MaxTime /\ now >= 1
      BY <1>8 DEF Tick, SInv
    <2>2. now' \in 1 .. MaxTime
      BY <2>1, ServerAssumption
    <2> QED BY <1>8, <2>2, StutterInv DEF Tick
  <1>9. CASE UNCHANGED vars
    BY <1>9, StutterInv DEF vars, SInv
  <1> QED BY <1>1, <1>2, <1>3, <1>4, <1>5, <1>6, <1>7, <1>8, <1>9, Zenon DEF Next

\* The inductive invariant: after any sequence of requests, in any order and
\* cut anywhere, the database is sound for the connections there are.
THEOREM Invariant == Spec => []SInv
  BY InitInv, NextInv, PTL DEF Spec

\* No pointer, flag, length, block or position of a connection leaves its type,
\* and no count of references of an entry or a table becomes negative.
THEOREM TypeCorrect == Spec => []TypeOK
  <1>1. SInv => TypeOK
    <2> SUFFICES ASSUME SInv PROVE TypeOK
      OBVIOUS
    <2>1. db \in Db /\ HoldCount(conn) \in Counts /\ UseCount(conn, db) \in TableUses
      BY DEF SInv, Sound, Base
    <2>2. \A e \in EntryIds : db.ents[e].refs \in Nat
      BY <2>1 DEF SInv, Sound, Base, EntryOK, Counts
    <2>3. ASSUME NEW t \in TableIds PROVE db.tabs[t].refs \in Nat
      <3>1. db.tabs[t].refs \in Int /\ db.tabs[t].live \in BOOLEAN /\ db.tabs[t].deleted \in BOOLEAN
        BY <2>1, DbFields
      <3>2. UseCount(conn, db)[t] \in Nat /\ TableOK(db, UseCount(conn, db), t)
        BY <2>1 DEF SInv, Sound, Base, TableUses
      <3> QED BY <3>1, <3>2 DEF TableOK
    <2>4. db.ents \in [EntryIds -> Entry] /\ db.tabs \in [TableIds -> Table]
      BY <2>1 DEF Db
    <2>5. db.ents \in [EntryIds -> [live : BOOLEAN, tab : TableIds \cup {Null},
                       key : Keys \cup {Null}, writing : BOOLEAN, deleted : BOOLEAN,
                       refs : Nat, len : Nat, block : Blocks \cup {NoBlock, NewEntry},
                       exp : Nat, file : BOOLEAN,
                       lru_next : EntryIds \cup {Null}, lru_prev : EntryIds \cup {Null}]]
      BY <2>2, <2>4 DEF Entry, Ptr
    <2>6. db.tabs \in [TableIds -> [live : BOOLEAN, name : TableNames \cup {Null}, refs : Nat,
                       deleted : BOOLEAN, slot : [Hashes -> EntryIds \cup {Null}]]]
      BY <2>3, <2>4 DEF Table, Ptr
    <2>7. /\ db.tables \in [TableNames -> TableIds \cup {Null}]
          /\ {db.lru_head, db.lru_tail} \subseteq EntryIds \cup {Null} /\ db.used \subseteq Blocks
          /\ db.size \in Int /\ db.keys \in Int /\ db.inserts \in 0 .. LruEvery - 1
          /\ db.orphan \in BOOLEAN /\ db.nameless \in BOOLEAN
      BY <2>1 DEF Db, Ptr
    <2>8. conn \in [Conns -> Conn] /\ now \in 1 .. MaxTime
      BY DEF SInv
    <2> QED BY <2>5, <2>6, <2>7, <2>8 DEF TypeOK, Conn
  <1> QED BY <1>1, Invariant, PTL

\* The count of an entry is exactly the number of connections that use it,
\* whatever is deleted, replaced, evicted or expired meanwhile: no connection
\* is left with freed memory, and a deleted entry does not outlive its users.
THEOREM EntryRefsCorrect == Spec => []EntryRefsExact
  <1>1. SInv => EntryRefsExact
    <2> SUFFICES ASSUME SInv PROVE EntryRefsExact
      OBVIOUS
    <2>1. ASSUME NEW c \in Conns, conn[c].ent # Null PROVE conn[c].ent \in Live
      BY <2>1, ConnFields DEF ConnOK, Live
    <2>2. ASSUME NEW e \in Live
          PROVE  /\ db.ents[e].refs = Cardinality(Holders(e))
                 /\ db.ents[e].deleted => db.ents[e].refs > 0
      <3>1. e \in EntryIds /\ db.ents[e].live
        BY DEF Live
      <3>2. db.ents[e].refs = HoldCount(conn)[e]
        BY <3>1 DEF SInv, Sound, Base, EntryOK
      <3>3. HoldCount(conn)[e] = Cardinality(Holders(e))
        BY <3>1 DEF HoldCount, HoldersIn, Holders
      <3>4. db.ents[e].deleted => HoldCount(conn)[e] > 0
        BY <3>1 DEF SInv, Sound, NoZombie
      <3> QED BY <3>2, <3>3, <3>4
    <2> QED BY <2>1, <2>2 DEF EntryRefsExact
  <1> QED BY <1>1, Invariant, PTL

\* The blocks in use are those of the entries in memory, one entry each: no
\* block leaks when its entry is freed, and none is granted to a new value
\* while an old one is still sent from it.
THEOREM BlocksCorrect == Spec => []BlocksExact
  <1>1. SInv => BlocksExact
    BY DEF SInv, Sound, Base, BlocksOK, BlocksExact, Live
  <1> QED BY <1>1, Invariant, PTL

\* A connection that sends a value has the complete value of the key it was
\* asked for, although hashes are compared first, keys may collide and the key
\* may be deleted, replaced or evicted while it is sent.
THEOREM ReadsCorrect == Spec => []ReadsOwnKey
  <1>1. SInv => ReadsOwnKey
    BY DEF SInv, ConnOK, ReadsOwnKey
  <1> QED BY <1>1, Invariant, PTL

\* No two uploads fill the same entry, and the entry that is filled is in
\* memory and marked: no reader takes it for a complete value.
THEOREM OneWriter ==
    Spec => [](\A b, c \in Conns : conn[b].writing /\ conn[c].writing =>
                 /\ db.ents[conn[c].ent].live /\ db.ents[conn[c].ent].writing
                 /\ conn[b].ent = conn[c].ent => b = c)
  <1>1. SInv => \A b, c \in Conns : conn[b].writing /\ conn[c].writing =>
                 /\ db.ents[conn[c].ent].live /\ db.ents[conn[c].ent].writing
                 /\ conn[b].ent = conn[c].ent => b = c
    BY DEF SInv, ConnOK
  <1> QED BY <1>1, Invariant, PTL

-----------------------------------------------------------------------------
(* CacheServer implements Cache, for any number of connections, tables,    *)
(* keys and entries, and all kinds of requests, as long as a request head  *)
(* arrives in one piece.  Every function of db.cpp that does not insert a  *)
(* key shows less of the database than before: Shrinks.  Every handler is  *)
(* then a step of the abstract cache.                                      *)

\* A table that is found by a name has this name, and can be used.
Named(d) ==
    \A n \in TableNames : d.tables[n] # Null =>
        /\ ~ Unusable(d, d.tables[n])
        /\ d.tabs[d.tables[n]].name = n

\* An entry of r was there in d, with the same key and in the same state.
KeptEntry(d, r, e) ==
    r.ents[e].live => /\ d.ents[e].live /\ r.ents[e].key = d.ents[e].key
                      /\ r.ents[e].writing = d.ents[e].writing

\* Whatever is found in r is found in d.
Shrinks(d, r) ==
    /\ r \in Db
    /\ \A n \in TableNames : r.tables[n] \in {d.tables[n], Null}
    /\ NoNewKeys(d, r)
    /\ \A e \in EntryIds : KeptEntry(d, r, e)
    /\ Named(d) => Named(r)

\* Two calls that show less.
LEMMA ShrinksTrans ==
    ASSUME NEW d, NEW r, NEW q, Shrinks(d, r), Shrinks(r, q)
    PROVE  Shrinks(d, q)
  <1>1. \A n \in TableNames : q.tables[n] \in {d.tables[n], Null}
    BY DEF Shrinks
  <1>2. NoNewKeys(d, q)
    BY DEF Shrinks, NoNewKeys
  <1>3. \A e \in EntryIds : KeptEntry(d, q, e)
    BY DEF Shrinks, KeptEntry
  <1> QED BY <1>1, <1>2, <1>3 DEF Shrinks

\* Calls that leave the names and states of tables alone.
LEMMA FrameShrinks ==
    ASSUME NEW d \in Db, NEW r \in Db, r.tables = d.tables, NoNewKeys(d, r),
           \A t \in TableIds : /\ r.tabs[t].live = d.tabs[t].live
                               /\ r.tabs[t].deleted = d.tabs[t].deleted
                               /\ r.tabs[t].name = d.tabs[t].name,
           \A e \in EntryIds : KeptEntry(d, r, e)
    PROVE  Shrinks(d, r)
  <1>1. \A n \in TableNames : d.tables[n] \in TableIds \cup {Null}
    BY DEF Db
  <1>2. Named(d) => Named(r)
    BY <1>1 DEF Named, Unusable
  <1> QED BY <1>2 DEF Shrinks

\* Calls that change neither tables nor what is read of entries.
LEMMA CoreShrinks ==
    ASSUME NEW d \in Db, NEW r, SameCore(d, r)
    PROVE  Shrinks(d, r)
  <1>1. r \in Db /\ r.tables = d.tables /\ r.tabs = d.tabs
    BY DEF SameCore
  <1>2. NoNewKeys(d, r) /\ \A e \in EntryIds : KeptEntry(d, r, e)
    BY DEF SameCore, SameEntry, NoNewKeys, KeptEntry
  <1> QED BY <1>1, <1>2, FrameShrinks

\* A call that changes nothing.
LEMMA ShrinksRefl == ASSUME NEW d \in Db PROVE Shrinks(d, d)
  BY CoreShrinks DEF SameCore, SameEntry

\* A fault.
LEMMA FaultShrinks ==
    ASSUME NEW d \in Db, NEW what \in Faults
    PROVE  Shrinks(d, Fault(d, what))
  BY FaultCore, CoreShrinks

\* The count of a table.
LEMMA TableRefsShrinks ==
    ASSUME NEW d \in Db, NEW t \in TableIds, NEW n \in Int
    PROVE  Shrinks(d, [d EXCEPT !.tabs[t].refs = n])
  <1> DEFINE r == [d EXCEPT !.tabs[t].refs = n]
  <1>1. /\ r \in Db /\ r.ents = d.ents
        /\ \A s \in TableIds : s # t => r.tabs[s] = d.tabs[s]
        /\ r.tabs[t].live = d.tabs[t].live /\ r.tabs[t].name = d.tabs[t].name
        /\ r.tabs[t].deleted = d.tabs[t].deleted /\ r.tabs[t].slot = d.tabs[t].slot
    BY SetTableRefs
  <1>2. r.tables = d.tables
    BY DEF Db
  <1> HIDE DEF r
  <1>3. NoNewKeys(d, r) /\ \A e \in EntryIds : KeptEntry(d, r, e)
    BY <1>1 DEF NoNewKeys, KeptEntry
  <1>4. \A s \in TableIds : /\ r.tabs[s].live = d.tabs[s].live
                            /\ r.tabs[s].deleted = d.tabs[s].deleted
                            /\ r.tabs[s].name = d.tabs[s].name
    BY <1>1
  <1>5. Shrinks(d, r)
    BY <1>1, <1>2, <1>3, <1>4, FrameShrinks
  <1> QED BY <1>5 DEF r

\* db_table_incref, also when there is no table.
LEMMA TableIncrefShrinks ==
    ASSUME NEW d \in Db, NEW t \in TableIds \cup {Null}
    PROVE  Shrinks(d, db_table_incref(d, t))
  <1>1. CASE t = Null
    BY <1>1, NoTableIncref, ShrinksRefl
  <1>2. CASE t \in TableIds
    <2> DEFINE n == d.tabs[t].refs + 1
    <2>1. n \in Int
      BY <1>2, DbFields
    <2>2. db_table_incref(d, t) = [d EXCEPT !.tabs[t].refs = n]
      BY <1>2 DEF db_table_incref, Db
    <2> HIDE DEF n
    <2> QED BY <1>2, <2>1, <2>2, TableRefsShrinks
  <1> QED BY <1>1, <1>2

\* db_table_actually_delete drops a name, and no table that has another one.
LEMMA DropShrinks ==
    ASSUME NEW d \in Db, NEW t \in TableIds
    PROVE  Shrinks(d, db_table_actually_delete(d, t))
  <1> DEFINE r == db_table_actually_delete(d, t)
  <1>1. /\ r \in Db /\ r.ents = d.ents /\ r.tabs[t] = DeadTable
        /\ \A s \in TableIds : s # t => r.tabs[s] = d.tabs[s]
        /\ \A n \in TableNames : r.tables[n] = IF n = d.tabs[t].name THEN Null ELSE d.tables[n]
    <2>1. DeadTable \in Table
      BY DEF DeadTable, Table, Ptr
    <2> QED BY <2>1 DEF db_table_actually_delete, Db
  <1> HIDE DEF r
  <1>2. NoNewKeys(d, r) /\ \A e \in EntryIds : KeptEntry(d, r, e)
    BY <1>1 DEF NoNewKeys, KeptEntry, DeadTable
  <1>3. ASSUME Named(d), NEW n \in TableNames, r.tables[n] # Null
        PROVE  ~ Unusable(r, r.tables[n]) /\ r.tabs[r.tables[n]].name = n
    <2> DEFINE s == d.tables[n]
    <2>1. r.tables[n] = s /\ n # d.tabs[t].name /\ s # Null
      BY <1>1, <1>3
    <2>2. ~ Unusable(d, s) /\ d.tabs[s].name = n /\ s \in TableIds
      BY <1>3, <2>1 DEF Named, Db
    <2>3. r.tabs[s] = d.tabs[s]
      BY <1>1, <2>1, <2>2
    <2> QED BY <2>1, <2>2, <2>3 DEF Unusable
  <1>4. Shrinks(d, r)
    BY <1>1, <1>2, <1>3 DEF Shrinks, Named
  <1> QED BY <1>4 DEF r

\* db_table_deref
LEMMA TableDerefShrinks ==
    ASSUME NEW d \in Db, NEW t \in TableIds, NEW actually_delete \in BOOLEAN
    PROVE  Shrinks(d, db_table_deref(d, t, actually_delete))
  <1> DEFINE n == d.tabs[t].refs - 1
             d1 == [d EXCEPT !.tabs[t].refs = n]
             d2 == db_table_actually_delete(d1, t)
  <1>1. n \in Int
    BY DbFields
  <1>2. Shrinks(d, d1)
    <2> HIDE DEF n
    <2> QED BY <1>1, TableRefsShrinks
  <1>3. db_table_deref(d, t, actually_delete) \in {Fault(d, "freed table"), d1, d2}
    <2>1. d1 = [d EXCEPT !.tabs[t].refs = @ - 1]
      BY DEF Db
    <2> HIDE DEF d1
    <2> QED BY <2>1 DEF db_table_deref
  <1> HIDE DEF d1
  <1>4. d1 \in Db
    BY <1>2 DEF Shrinks
  <1>5. Shrinks(d, d2)
    BY <1>2, <1>4, DropShrinks, ShrinksTrans
  <1>6. Shrinks(d, Fault(d, "freed table"))
    BY FaultShrinks DEF Faults
  <1> QED BY <1>2, <1>3, <1>5, <1>6

\* The count of an entry.
LEMMA EntryRefsShrinks ==
    ASSUME NEW d \in Db, NEW e \in EntryIds, NEW n \in Int
    PROVE  Shrinks(d, WithRefs(d, e, n)) /\ WithRefs(d, e, n).tabs = d.tabs
           /\ WithRefs(d, e, n).tables = d.tables
  <1> DEFINE r == WithRefs(d, e, n)
  <1>1. r \in Db /\ r.tabs = d.tabs /\ ButRefs(d, r)
    BY SetRefs
  <1>2. r.tables = d.tables
    BY DEF WithRefs, Db
  <1> HIDE DEF r
  <1>3. NoNewKeys(d, r) /\ \A f \in EntryIds : KeptEntry(d, r, f)
    BY <1>1 DEF NoNewKeys, KeptEntry, ButRefs
  <1>4. Shrinks(d, r)
    BY <1>1, <1>2, <1>3, FrameShrinks
  <1> QED BY <1>1, <1>2, <1>4 DEF r

\* db_entry_actually_delete
LEMMA FreeShrinks ==
    ASSUME NEW d \in Db, NEW e \in EntryIds
    PROVE  Shrinks(d, db_entry_actually_delete(d, e))
  <1> DEFINE o == Orphan(d, e)
             u == o.used \ {d.ents[e].block}
             r == [o EXCEPT !.used = u, !.ents = [o.ents EXCEPT ![e] = DeadEntry]]
  <1>1. SameCore(d, o) /\ o \in Db
    BY OrphanCore DEF SameCore
  <1>2. DeadEntry \in Entry /\ ~ DeadEntry.live
    BY DEF DeadEntry, Entry, Ptr
  <1> HIDE DEF o
  <1>3. u \in SUBSET Blocks /\ o.ents \in [EntryIds -> Entry]
    BY <1>1 DEF Db
  <1> HIDE DEF u
  <1>4. /\ r \in Db /\ r.tabs = o.tabs /\ r.tables = o.tables
        /\ \A f \in EntryIds : r.ents[f] = IF f = e THEN DeadEntry ELSE o.ents[f]
    <2>1. [o.ents EXCEPT ![e] = DeadEntry] \in [EntryIds -> Entry]
      BY <1>2, <1>3
    <2> QED BY <1>1, <1>2, <1>3, <2>1 DEF Db
  <1>5. db_entry_actually_delete(d, e) = r
    BY <1>1 DEF db_entry_actually_delete, o, u, Db
  <1> HIDE DEF r
  <1>6. NoNewKeys(o, r) /\ \A f \in EntryIds : KeptEntry(o, r, f)
    BY <1>2, <1>4 DEF NoNewKeys, KeptEntry
  <1>7. Shrinks(o, r)
    BY <1>1, <1>4, <1>6, FrameShrinks
  <1> QED BY <1>1, <1>5, <1>7, CoreShrinks, ShrinksTrans

\* db_entry_deref
LEMMA EntryDerefShrinks ==
    ASSUME NEW d \in Db, NEW e \in EntryIds, NEW table \in BOOLEAN
    PROVE  Shrinks(d, db_entry_deref(d, e, table))
  <1> DEFINE n  == d.ents[e].refs - 1
             d1 == WithRefs(d, e, n)
             t  == d.ents[e].tab
             d2 == IF table /\ t # Null THEN db_table_deref(d1, t, FALSE) ELSE d1
             d3 == db_entry_actually_delete(d2, e)
  <1>1. n \in Int /\ t \in TableIds \cup {Null}
    BY DbFields
  <1>2. db_entry_deref(d, e, table) \in {d2, d3}
    <2>1. d1 = [d EXCEPT !.ents[e].refs = @ - 1]
      BY DEF WithRefs, Db
    <2> HIDE DEF d1
    <2> QED BY <2>1 DEF db_entry_deref
  <1>3. Shrinks(d, d1)
    <2> HIDE DEF n
    <2> QED BY <1>1, EntryRefsShrinks
  <1> HIDE DEF d1
  <1>4. d1 \in Db
    BY <1>3 DEF Shrinks
  <1>5. Shrinks(d1, d2)
    BY <1>1, <1>4, TableDerefShrinks, ShrinksRefl
  <1> HIDE DEF d2
  <1>6. d2 \in Db
    BY <1>5 DEF Shrinks
  <1>7. Shrinks(d2, d3)
    BY <1>6, FreeShrinks
  <1> HIDE DEF d3
  <1> QED BY <1>2, <1>3, <1>5, <1>7, ShrinksTrans

\* db_entry_incref
LEMMA EntryIncrefShrinks ==
    ASSUME NEW d \in Db, NEW e \in EntryIds, NEW table \in BOOLEAN
    PROVE  Shrinks(d, db_entry_incref(d, e, table))
  <1> DEFINE n  == d.ents[e].refs + 1
             d1 == WithRefs(d, e, n)
             d2 == db_table_incref(d1, d.ents[e].tab)
  <1>1. n \in Int /\ d.ents[e].tab \in TableIds \cup {Null}
    BY DbFields
  <1>2. db_entry_incref(d, e, table) = IF table THEN d2 ELSE d1
    <2>1. d1 = [d EXCEPT !.ents[e].refs = @ + 1]
      BY DEF WithRefs, Db
    <2> HIDE DEF d1
    <2> QED BY <2>1 DEF db_entry_incref
  <1>3. Shrinks(d, d1)
    <2> HIDE DEF n
    <2> QED BY <1>1, EntryRefsShrinks
  <1> HIDE DEF d1
  <1>4. Shrinks(d1, d2)
    BY <1>1, <1>3, TableIncrefShrinks DEF Shrinks
  <1> HIDE DEF d2
  <1> QED BY <1>2, <1>3, <1>4, ShrinksTrans

\* Unlink empties the place of an entry.
LEMMA UnlinkShrinks ==
    ASSUME NEW d \in Db, NEW e \in EntryIds
    PROVE  Shrinks(d, Unlink(d, e))
  <1> DEFINE r == Unlink(d, e)
  <1>1. Unlinked(d, r, e)
    BY UnlinkShape
  <1> HIDE DEF r
  <1>2. /\ r \in Db /\ r.tables = d.tables
        /\ \A t \in TableIds : /\ r.tabs[t].live = d.tabs[t].live
                               /\ r.tabs[t].deleted = d.tabs[t].deleted
                               /\ r.tabs[t].name = d.tabs[t].name
    BY <1>1 DEF Unlinked, SameTables
  <1>3. NoNewKeys(d, r) /\ \A f \in EntryIds : KeptEntry(d, r, f)
    BY <1>1 DEF Unlinked, Cleared, Marked, NoNewKeys, KeptEntry
  <1>4. Shrinks(d, r)
    BY <1>2, <1>3, FrameShrinks
  <1> QED BY <1>4 DEF r

\* db_delete_table_entry takes the name away from the table that it destroys.
LEMMA DeleteTableShrinks ==
    ASSUME NEW d \in Db, NEW t \in TableIds
    PROVE  Shrinks(d, db_delete_table_entry(d, t))
  <1> DEFINE x == [d.tabs[t] EXCEPT !.deleted = TRUE]
             b == d.nameless \/ d.tables[d.tabs[t].name] = Null
             r == [AssertNamed(d, t) EXCEPT !.tabs[t].deleted = TRUE,
                                            !.tables[d.tabs[t].name] = Null]
             T == [d.tabs EXCEPT ![t] = x]
             N == [d.tables EXCEPT ![d.tabs[t].name] = Null]
  <1>1. x \in Table /\ x.slot = d.tabs[t].slot /\ b \in BOOLEAN
    BY DEF Db, Table
  <1>2. r = [d EXCEPT !.nameless = b, !.tabs = T, !.tables = N]
    BY DEF Db, AssertNamed
  <1> HIDE DEF x, b
  <1>3. /\ r \in Db /\ r.ents = d.ents /\ r.tabs[t] = x
        /\ \A s \in TableIds : s # t => r.tabs[s] = d.tabs[s]
        /\ \A n \in TableNames : r.tables[n] = IF n = d.tabs[t].name THEN Null ELSE d.tables[n]
    <2>1. /\ T \in [TableIds -> Table] /\ T[t] = x
          /\ \A s \in TableIds : s # t => T[s] = d.tabs[s]
      BY <1>1 DEF Db
    <2>2. /\ N \in [TableNames -> TableIds \cup {Null}]
          /\ \A n \in TableNames : N[n] = IF n = d.tabs[t].name THEN Null ELSE d.tables[n]
      BY DEF Db
    <2> HIDE DEF T, N, r
    <2>3. r \in Db /\ r.ents = d.ents /\ r.tabs = T /\ r.tables = N
      BY <1>1, <1>2, <2>1, <2>2 DEF Db
    <2> QED BY <2>1, <2>2, <2>3
  <1> HIDE DEF r
  <1>4. NoNewKeys(d, r) /\ \A e \in EntryIds : KeptEntry(d, r, e)
    BY <1>1, <1>3 DEF NoNewKeys, KeptEntry
  <1>5. ASSUME Named(d), NEW n \in TableNames, r.tables[n] # Null
        PROVE  ~ Unusable(r, r.tables[n]) /\ r.tabs[r.tables[n]].name = n
    <2> DEFINE s == d.tables[n]
    <2>1. r.tables[n] = s /\ n # d.tabs[t].name /\ s # Null
      BY <1>3, <1>5
    <2>2. ~ Unusable(d, s) /\ d.tabs[s].name = n /\ s \in TableIds
      BY <1>5, <2>1 DEF Named, Db
    <2>3. r.tabs[s] = d.tabs[s]
      BY <1>3, <2>1, <2>2
    <2> QED BY <2>1, <2>2, <2>3 DEF Unusable
  <1>6. Shrinks(d, r)
    BY <1>3, <1>4, <1>5 DEF Shrinks, Named
  <1>7. db_delete_table_entry(d, t) = db_table_deref(r, t, TRUE)
    BY DEF db_delete_table_entry, r
  <1> QED BY <1>3, <1>6, <1>7, TableDerefShrinks, ShrinksTrans

\* An entry forgets its table.
LEMMA ForgetShrinks ==
    ASSUME NEW d \in Db, NEW e \in EntryIds
    PROVE  Shrinks(d, [d EXCEPT !.ents[e].tab = Null])
  <1> DEFINE y == [d.ents[e] EXCEPT !.tab = Null]
             r == [d EXCEPT !.ents[e].tab = Null]
  <1>1. d.ents \in [EntryIds -> Entry] /\ d.ents[e] \in Entry
    BY DEF Db
  <1>2. y \in Entry /\ y.live = d.ents[e].live /\ y.key = d.ents[e].key
        /\ y.writing = d.ents[e].writing
    BY <1>1 DEF Entry
  <1>3. r = [d EXCEPT !.ents = [d.ents EXCEPT ![e] = y]]
    BY <1>1 DEF Db
  <1> HIDE DEF y
  <1>4. r \in Db /\ r.tabs = d.tabs /\ r.tables = d.tables
        /\ \A f \in EntryIds : r.ents[f] = IF f = e THEN y ELSE d.ents[f]
    <2>1. [d.ents EXCEPT ![e] = y] \in [EntryIds -> Entry]
      BY <1>1, <1>2
    <2> QED BY <1>1, <1>3, <2>1 DEF Db
  <1> HIDE DEF r
  <1>5. NoNewKeys(d, r) /\ \A f \in EntryIds : KeptEntry(d, r, f)
    BY <1>2, <1>4 DEF NoNewKeys, KeptEntry
  <1>6. Shrinks(d, r)
    BY <1>4, <1>5, FrameShrinks
  <1> QED BY <1>6 DEF r

\* A table that cannot be used is used.
LEMMA MisusedShrinks ==
    ASSUME NEW d \in Db, NEW t
    PROVE  Shrinks(d, Misused(d, t))
  <1>1. Misused(d, t) \in {Fault(d, "destroyed hash set"), Fault(d, "freed table")}
    BY DEF Misused
  <1> QED BY <1>1, FaultShrinks DEF Faults

\* db_entry_handle_delete
LEMMA HandleDeleteShrinks ==
    ASSUME NEW d \in Db, NEW e \in EntryIds
    PROVE  Shrinks(d, db_entry_handle_delete(d, e))
  <1> DEFINE t  == d.ents[e].tab
             d0 == Unlink(d, e)
             d1 == [d0 EXCEPT !.keys = @ - 1]
             d2 == db_delete_table_entry(d1, t)
             d3 == [d2 EXCEPT !.ents[e].tab = Null]
  <1>1. t \in TableIds \cup {Null}
    BY SMTT(60), DbFields
  <1>2. \/ db_entry_handle_delete(d, e) \in {Fault(d, "null table"), Misused(d, t),
                                             Fault(d, "deleted twice"), d1}
        \/ t # Null /\ db_entry_handle_delete(d, e) = d3
    BY DEF db_entry_handle_delete
  <1>3. Shrinks(d, d0) /\ d0 \in Db
    BY UnlinkShrinks DEF Shrinks
  <1> HIDE DEF d0
  <1>4. Shrinks(d, d1) /\ d1 \in Db
    <2>1. SameCore(d0, d1)
      BY <1>3, KeysCore
    <2> HIDE DEF d1
    <2> QED BY <1>3, <2>1, CoreShrinks, ShrinksTrans DEF SameCore
  <1> HIDE DEF d1
  <1>5. t # Null => Shrinks(d, d3)
    <2> SUFFICES ASSUME t # Null PROVE Shrinks(d, d3)
      OBVIOUS
    <2>1. Shrinks(d1, d2)
      BY <1>1, <1>4, DeleteTableShrinks
    <2> HIDE DEF d2
    <2>2. Shrinks(d2, d3)
      BY <2>1, ForgetShrinks DEF Shrinks
    <2> HIDE DEF d3
    <2> QED BY <1>4, <2>1, <2>2, ShrinksTrans
  <1> HIDE DEF d3
  <1>6. /\ Shrinks(d, Fault(d, "null table")) /\ Shrinks(d, Fault(d, "deleted twice"))
        /\ Shrinks(d, Misused(d, t))
    BY FaultShrinks, MisusedShrinks DEF Faults
  <1> QED BY <1>2, <1>4, <1>5, <1>6

\* db_entry_handle_softdelete
LEMMA SoftDeleteShrinks ==
    ASSUME NEW d \in Db, NEW e \in EntryIds
    PROVE  Shrinks(d, db_entry_handle_softdelete(d, e))
  <1> DEFINE d1 == Unlink(d, e)
             d2 == db_entry_actually_delete(d1, e)
  <1>1. db_entry_handle_softdelete(d, e) \in {d, d1, d2}
    BY DEF db_entry_handle_softdelete
  <1>2. Shrinks(d, d1) /\ d1 \in Db
    BY UnlinkShrinks DEF Shrinks
  <1> HIDE DEF d1
  <1>3. Shrinks(d, d2)
    BY <1>2, FreeShrinks, ShrinksTrans
  <1> HIDE DEF d2
  <1> QED BY <1>1, <1>2, <1>3, ShrinksRefl

\* The keys of a table are entries.
LEMMA EntriesType ==
    ASSUME NEW d \in Db, NEW t \in TableIds
    PROVE  Entries(d, t) \subseteq EntryIds /\ IsFiniteSet(Entries(d, t))
  <1>1. Entries(d, t) \subseteq EntryIds
    BY DbFields DEF Entries, Ptr
  <1> QED BY <1>1, DbAssumption, FS_Subset

\* db_table_handle_delete
LEMMA HandleDeleteTableShrinks ==
    ASSUME NEW d \in Db, NEW t \in TableIds
    PROVE  Shrinks(d, db_table_handle_delete(d, t))
  <1> DEFINE Good == {a \in Db : Shrinks(d, a)}
             S  == Entries(d, t)
             d1 == FoldSet(LAMBDA e, acc : db_entry_handle_softdelete(acc, e), d, S)
             d2 == db_delete_table_entry(d1, t)
  <1>1. S \subseteq EntryIds /\ IsFiniteSet(S)
    BY EntriesType
  <1>2. db_table_handle_delete(d, t) \in {Misused(d, t), d2}
    BY DEF db_table_handle_delete
  <1> HIDE DEF S
  <1>3. d \in Good
    BY ShrinksRefl
  <1>4. ASSUME NEW e \in S, NEW a \in Good PROVE db_entry_handle_softdelete(a, e) \in Good
    <2>1. Shrinks(a, db_entry_handle_softdelete(a, e))
      BY <1>1, SoftDeleteShrinks
    <2> QED BY <2>1, ShrinksTrans DEF Shrinks
  <1> HIDE DEF Good
  <1>5. d1 \in Good
    BY <1>1, <1>3, <1>4, SoftDeleteLoop
  <1> HIDE DEF d1
  <1>6. Shrinks(d, d2)
    BY <1>5, DeleteTableShrinks, ShrinksTrans DEF Good
  <1> QED BY <1>2, <1>6, MisusedShrinks

\* The body of the two loops of a garbage collection.
LEMMA EvictShrinks ==
    ASSUME NEW d \in Db, NEW e \in EntryIds
    PROVE  Shrinks(d, Evict(d, e))
  <1> DEFINE d1 == db_entry_incref(d, e, TRUE)
             d2 == db_entry_handle_delete(d1, e)
             d3 == db_entry_deref(d2, e, TRUE)
  <1>1. Evict(d, e) \in {d3, db_entry_handle_delete(d, e)}
    BY DEF Evict
  <1>2. Shrinks(d, d1) /\ d1 \in Db
    BY EntryIncrefShrinks DEF Shrinks
  <1> HIDE DEF d1
  <1>3. Shrinks(d, d2) /\ d2 \in Db
    BY <1>2, HandleDeleteShrinks, ShrinksTrans DEF Shrinks
  <1> HIDE DEF d2
  <1>4. Shrinks(d, d3)
    BY <1>3, EntryDerefShrinks, ShrinksTrans
  <1> QED BY <1>1, <1>4, HandleDeleteShrinks

\* db_expire_cursor
LEMMA ExpireShrinks ==
    ASSUME NEW d \in Db, NEW time
    PROVE  Shrinks(d, db_expire_cursor(d, time))
  <1> DEFINE S == {e \in Indexed(d) : Expired(d, e, time)}
             Good == {a \in Db : Shrinks(d, a)}
             r == FoldSet(LAMBDA e, acc : Evict(acc, e), d, S)
  <1>1. S \subseteq EntryIds /\ IsFiniteSet(S)
    <2>1. \A t \in TableIds : Entries(d, t) \subseteq EntryIds
      BY EntriesType
    <2>2. \A n \in TableNames : d.tables[n] \in TableIds \cup {Null}
      BY DEF Db
    <2>3. S \subseteq EntryIds
      BY <2>1, <2>2 DEF Indexed
    <2> HIDE DEF S
    <2> QED BY <2>3, DbAssumption, FS_Subset
  <1>2. db_expire_cursor(d, time) = r
    BY DEF db_expire_cursor
  <1> HIDE DEF S
  <1>3. d \in Good
    BY ShrinksRefl
  <1>4. ASSUME NEW e \in S, NEW a \in Good PROVE Evict(a, e) \in Good
    <2>1. Shrinks(a, Evict(a, e))
      BY <1>1, EvictShrinks
    <2> QED BY <2>1, ShrinksTrans DEF Shrinks
  <1> HIDE DEF Good
  <1>5. r \in Good
    BY <1>1, <1>3, <1>4, EvictLoop
  <1> QED BY <1>2, <1>5 DEF Good

\* db_lru_cleanup_percent
LEMMA CleanupShrinks ==
    ASSUME NEW d \in Db, NEW bytes \in Int
    PROVE  Shrinks(d, db_lru_cleanup_percent(d, bytes))
  <1> DEFINE Good == {a \in [d : Db, bytes : Int] : Shrinks(d, a.d)}
             base == [d |-> d, bytes |-> bytes]
             r == FoldSet(LAMBDA i, acc : CleanupHead(acc), base, EntryIds)
  <1>1. base \in Good
    BY ShrinksRefl
  <1>2. ASSUME NEW a \in Good PROVE CleanupHead(a) \in Good
    <2> DEFINE l == a.d.lru_head
               q1 == db_lru_remove_node(a.d, l)
               q2 == Evict(a.d, l)
    <2>1. a \in [d : Db, bytes : Int] /\ a.d \in Db /\ Shrinks(d, a.d) /\ l \in EntryIds \cup {Null}
      BY DEF Db, Ptr
    <2>2. CASE l = Null \/ a.bytes <= 0
      BY <2>2 DEF CleanupHead
    <2>3. CASE l # Null /\ a.bytes > 0 /\ (a.d.ents[l].writing \/ a.d.ents[l].deleted)
      <3>1. CleanupHead(a) = [a EXCEPT !.d = q1]
        BY <2>3 DEF CleanupHead
      <3>2. Shrinks(a.d, q1)
        BY <2>1, <2>3, RemoveNodeCore, CoreShrinks
      <3> HIDE DEF q1
      <3>3. Shrinks(d, q1) /\ q1 \in Db
        BY <2>1, <3>2, ShrinksTrans DEF Shrinks
      <3>4. [a EXCEPT !.d = q1] \in [d : Db, bytes : Int] /\ [a EXCEPT !.d = q1].d = q1
        BY <2>1, <3>3
      <3> QED BY <3>1, <3>3, <3>4
    <2>4. CASE l # Null /\ a.bytes > 0 /\ ~ (a.d.ents[l].writing \/ a.d.ents[l].deleted)
      <3> DEFINE b == a.bytes - a.d.ents[l].len
      <3>1. CleanupHead(a) = [d |-> q2, bytes |-> b]
        BY <2>4 DEF CleanupHead
      <3>2. b \in Int
        BY <2>1, <2>4, DbFields
      <3>3. Shrinks(a.d, q2)
        BY <2>1, <2>4, EvictShrinks
      <3> HIDE DEF q2, b
      <3>4. Shrinks(d, q2) /\ q2 \in Db
        BY <2>1, <3>3, ShrinksTrans DEF Shrinks
      <3> QED BY <3>1, <3>2, <3>4
    <2> QED BY <2>2, <2>3, <2>4
  <1> HIDE DEF Good
  <1>3. r \in Good
    BY <1>1, <1>2, DbAssumption, CleanupLoop
  <1>4. db_lru_cleanup_percent(d, bytes) = r.d
    BY DEF db_lru_cleanup_percent
  <1> QED BY <1>3, <1>4 DEF Good

\* db_lru_gc
LEMMA GcShrinks ==
    ASSUME NEW d \in Db, NEW time
    PROVE  Shrinks(d, db_lru_gc(d, time))
  <1> DEFINE d1 == db_expire_cursor(d, time)
             b  == (d1.size - MaxSize) + ClearSize
             d2 == db_lru_cleanup_percent(d1, b)
  <1>1. db_lru_gc(d, time) \in {d1, d2}
    BY DEF db_lru_gc
  <1>2. Shrinks(d, d1)
    BY ExpireShrinks
  <1> HIDE DEF d1
  <1>3. d1 \in Db /\ b \in Int
    <2>1. d1 \in Db /\ d1.size \in Int
      BY <1>2 DEF Shrinks, Db
    <2> QED BY <2>1, DbAssumption
  <1> HIDE DEF b
  <1>4. Shrinks(d, d2)
    BY <1>2, <1>3, CleanupShrinks, ShrinksTrans
  <1> QED BY <1>1, <1>2, <1>4

-----------------------------------------------------------------------------
(* What a client finds *)

\* EntryAt of a database d.
LookAt(d, x, writing) ==
    LET t == d.tables[x[1]]
        e == IF t = Null THEN Null ELSE d.tabs[t].slot[KeyHash[x[2]]]
    IN  IF e = Null THEN Null
        ELSE IF d.ents[e].key = x[2] /\ d.ents[e].writing = writing THEN e ELSE Null

\* A client finds the same in d and in r.
SameView(d, r) == \A x \in Places, w \in BOOLEAN : LookAt(r, x, w) = LookAt(d, x, w)

\* At every place a client finds in r what it finds in d, or nothing.
Hides(d, r) ==
    \A x \in Places : \/ \A w \in BOOLEAN : LookAt(r, x, w) = LookAt(d, x, w)
                      \/ \A w \in BOOLEAN : LookAt(r, x, w) = Null

\* The entries in the hash sets are in memory.
SlotsLive(d) == \A t \in TableIds, h \in Hashes :
                    d.tabs[t].slot[h] # Null => d.ents[d.tabs[t].slot[h]].live

\* What is hidden twice is hidden.
LEMMA HidesTrans ==
    ASSUME NEW d, NEW r, NEW q, Hides(d, r), Hides(r, q)
    PROVE  Hides(d, q)
  BY DEF Hides

\* The same view hides nothing.
LEMMA SameHides ==
    ASSUME NEW d, NEW r, SameView(d, r)
    PROVE  Hides(d, r)
  BY SMTT(60) DEF SameView, Hides

\* A sound database has no freed entries in its hash sets.
LEMMA SoundLive ==
    ASSUME NEW d, NEW H, NEW U, Sound(d, H, U)
    PROVE  SlotsLive(d) /\ d \in Db
  BY DEF Sound, Base, SlotOK, SlotsLive

\* The two halves of a place.
LEMMA PlaceParts ==
    ASSUME NEW x \in Places
    PROVE  x[1] \in TableNames /\ x[2] \in Keys /\ x = <<x[1], x[2]>> /\ KeyHash[x[2]] \in Hashes
  BY DEF Places, Hashes

\* A call that shows less hides some places.
LEMMA ShrinksHides ==
    ASSUME NEW d \in Db, NEW r, Shrinks(d, r), SlotsLive(r)
    PROVE  Hides(d, r)
  <1> SUFFICES ASSUME NEW x \in Places
               PROVE  \/ \A w \in BOOLEAN : LookAt(r, x, w) = LookAt(d, x, w)
                      \/ \A w \in BOOLEAN : LookAt(r, x, w) = Null
    BY DEF Hides
  <1> DEFINE n == x[1]
             h == KeyHash[x[2]]
             t == r.tables[n]
             e == r.tabs[t].slot[h]
  <1>1. n \in TableNames /\ h \in Hashes
    BY PlaceParts
  <1>2. r \in Db /\ t \in TableIds \cup {Null} /\ t \in {d.tables[n], Null}
    BY SMTT(60), <1>1 DEF Shrinks, Db
  <1>3. CASE t = Null \/ e = Null
    BY ZenonT(60), <1>3 DEF LookAt
  <1>4. CASE t # Null /\ e # Null
    <2>1. d.tables[n] = t /\ d.tabs[t].slot[h] = e
      BY SMTT(60), <1>1, <1>2, <1>4 DEF Shrinks, NoNewKeys
    <2>2. e \in EntryIds /\ r.ents[e].live
      BY ZenonT(60), <1>1, <1>2, <1>4, DbFields DEF SlotsLive, Ptr
    <2>3. r.ents[e].key = d.ents[e].key /\ r.ents[e].writing = d.ents[e].writing
      BY Zenon, <2>2 DEF Shrinks, KeptEntry
    <2> QED BY Zenon, <1>4, <2>1, <2>3 DEF LookAt
  <1> QED BY <1>3, <1>4

\* The table called n has the same entries in d and in r, with the same keys and
\* in the same states.
SameFound(d, r, n) ==
    d.tables[n] # Null =>
        /\ r.tabs[d.tables[n]].slot = d.tabs[d.tables[n]].slot
        /\ \A h \in Hashes : LET e == d.tabs[d.tables[n]].slot[h]
                             IN  e # Null => /\ r.ents[e].key = d.ents[e].key
                                             /\ r.ents[e].writing = d.ents[e].writing

\* Databases with the same tables and entries that can be found.
LEMMA SameLook ==
    ASSUME NEW d, NEW r, r.tables = d.tables, \A n \in TableNames : SameFound(d, r, n)
    PROVE  SameView(d, r)
  <1> SUFFICES ASSUME NEW x \in Places, NEW w \in BOOLEAN
               PROVE  LookAt(r, x, w) = LookAt(d, x, w)
    BY DEF SameView
  <1>1. x[1] \in TableNames /\ KeyHash[x[2]] \in Hashes
    BY PlaceParts
  <1> QED BY ZenonT(60), <1>1 DEF LookAt, SameFound

\* The database Step leaves.
Settled(d, cs, b) == [Settle(d, cs) EXCEPT !.orphan = @ /\ b]

\* Settle forgets no table that can be found.
LEMMA SettleView ==
    ASSUME NEW d \in Db, NEW cs, NEW b \in BOOLEAN, NEW r, r = Settled(d, cs, b)
    PROVE  /\ r \in Db /\ r.tables = d.tables /\ r.ents = d.ents /\ SameView(d, r)
           /\ \A n \in TableNames : d.tables[n] # Null => r.tabs[d.tables[n]] = d.tabs[d.tables[n]]
           /\ Named(d) => Named(r)
           /\ Shrinks(d, r)
  <1> DEFINE L == {t \in TableIds : d.tabs[t].live /\
                     t \notin {cs[c].tab : c \in Conns} \cup {d.tables[n] : n \in TableNames}
                              \cup {d.ents[e].tab : e \in {f \in EntryIds : d.ents[f].live}}}
             q == [d EXCEPT !.tabs = [t \in TableIds |-> IF t \in L THEN DeadTable ELSE d.tabs[t]]]
  <1>1. r = [q EXCEPT !.orphan = @ /\ b]
    BY DEF Settle, Settled
  <1>2. WithoutTables(d, r)
    BY SettleShape DEF Settled
  <1>3. \A n \in TableNames : d.tables[n] \notin L
    OBVIOUS
  <1> HIDE DEF L
  <1>4. r.tables = d.tables /\ \A t \in TableIds : r.tabs[t] = IF t \in L THEN DeadTable ELSE d.tabs[t]
    <2>1. DeadTable \in Table
      BY DbAssumption DEF DeadTable, Table, Ptr
    <2>2. /\ q \in Db /\ q.tables = d.tables
          /\ q.tabs = [t \in TableIds |-> IF t \in L THEN DeadTable ELSE d.tabs[t]]
      BY <2>1 DEF Db
    <2> HIDE DEF q
    <2> QED BY <1>1, <2>2 DEF Db
  <1>5. \A n \in TableNames : d.tables[n] # Null => r.tabs[d.tables[n]] = d.tabs[d.tables[n]]
    BY <1>3, <1>4 DEF Db
  <1>6. r \in Db /\ r.ents = d.ents
    BY <1>2 DEF WithoutTables
  <1>7. SameView(d, r)
    BY Zenon, <1>4, <1>5, <1>6, SameLook DEF SameFound
  <1>8. Named(d) => Named(r)
    BY <1>4, <1>5 DEF Named, Unusable
  <1>9. NoNewKeys(d, r) /\ \A e \in EntryIds : KeptEntry(d, r, e)
    <2>1. \A h \in Hashes : DeadTable.slot[h] = Null
      BY DEF DeadTable
    <2> QED BY <1>4, <1>6, <2>1 DEF NoNewKeys, KeptEntry
  <1> QED BY <1>4, <1>5, <1>6, <1>7, <1>8, <1>9 DEF Shrinks

-----------------------------------------------------------------------------
(* Steps of the server and steps of the cache *)

\* A connection between request line and key has a table that can be found,
\* because no other connection is served meanwhile.
RInv ==
    /\ Named(db)
    /\ \A c \in Conns : conn[c].at = "url" => \E n \in TableNames : db.tables[n] = conn[c].tab

\* What a connection is being sent.
SentTo(x) == IF x.kind = "GET" THEN x.ent ELSE Null

\* The step of handler and loop in terms of what is found.
LEMMA StepView ==
    ASSUME SInv, NEW c \in Conns, NEW d \in Db, NEW r, Step(c, d, r)
    PROVE  /\ db' \in Db /\ db'.tables = d.tables /\ db'.ents = d.ents /\ SameView(d, db')
           /\ Named(d) => Named(db')
           /\ Shrinks(d, db')
           /\ conn'[c] = r /\ \A b \in Conns \ {c} : conn'[b] = conn[b]
  <1>1. conn \in [Conns -> Conn] /\ db \in Db
    BY ConnFields DEF SInv
  <1>2. conn' = [conn EXCEPT ![c] = r]
    BY DEF Step
  <1> DEFINE b == ~ db.orphan
  <1>3. b \in BOOLEAN
    OBVIOUS
  <1>4. db' = Settled(d, conn', b)
    BY DEF Step, Settled
  <1> HIDE DEF b
  <1>5. /\ db' \in Db /\ db'.tables = d.tables /\ db'.ents = d.ents /\ SameView(d, db')
        /\ Named(d) => Named(db')
        /\ Shrinks(d, db')
    BY <1>3, <1>4, SettleView
  <1> QED BY <1>1, <1>2, <1>5

\* RInv after a step of c.
LEMMA StepNamed ==
    ASSUME SInv, RInv, SplitHead = FALSE, NEW c \in Conns, NEW d \in Db, NEW r,
           Runs(c), Step(c, d, r), Named(d),
           r.at = "url" => \E n \in TableNames : d.tables[n] = r.tab
    PROVE  RInv'
  <1>1. Named(db') /\ db'.tables = d.tables /\ conn'[c] = r
        /\ \A b \in Conns \ {c} : conn'[b] = conn[b]
    BY StepView
  <1>2. \A b \in Conns \ {c} : conn[b].at # "url"
    BY DEF Runs, Heads
  <1>3. Named(db)'
    BY <1>1 DEF Named, Unusable
  <1> QED BY <1>1, <1>2, <1>3 DEF RInv

\* EntryAt before and after a step.
LEMMA Looks ==
    \A x \in Places, w \in BOOLEAN :
        EntryAt(x, w) = LookAt(db, x, w) /\ EntryAt(x, w)' = LookAt(db', x, w)
  BY DEF EntryAt, LookAt

\* A step that hides places and serves nobody removes keys.
LEMMA RemoveStep ==
    ASSUME Hides(db, db'), \A c \in Conns : SentTo(conn'[c]) = SentTo(conn[c])
    PROVE  Seen!Next
  <1> DEFINE gone == {x \in Places : \A w \in BOOLEAN : LookAt(db', x, w) = Null}
  <1>1. ASSUME NEW x \in Places, NEW w \in BOOLEAN
        PROVE  LookAt(db', x, w) = IF x \in gone THEN Null ELSE LookAt(db, x, w)
    BY DEF Hides
  <1>2. gone \in SUBSET Places
    OBVIOUS
  <1> HIDE DEF gone
  <1>3. \A x \in Places : /\ EntryAt(x, FALSE)' = IF x \in gone THEN Null ELSE EntryAt(x, FALSE)
                          /\ EntryAt(x, TRUE)' = IF x \in gone THEN Null ELSE EntryAt(x, TRUE)
    BY <1>1, Looks
  <1>4. [x \in Places |-> EntryAt(x, FALSE)]'
            = Seen!Without([x \in Places |-> EntryAt(x, FALSE)], gone)
    BY <1>3 DEF Seen!Without
  <1>5. [x \in Places |-> EntryAt(x, TRUE)]'
            = Seen!Without([x \in Places |-> EntryAt(x, TRUE)], gone)
    BY <1>3 DEF Seen!Without
  <1>6. UNCHANGED [c \in Conns |-> IF conn[c].kind = "GET" THEN conn[c].ent ELSE Null]
    BY DEF SentTo
  <1>7. Seen!Remove(gone)
    BY <1>4, <1>5, <1>6 DEF Seen!Remove
  <1> QED BY <1>2, <1>7 DEF Seen!Next


-----------------------------------------------------------------------------
(* The handlers *)

\* Where a step starts and ends, when request heads arrive in one piece.
Around == SInv /\ SInv' /\ RInv /\ SplitHead = FALSE

\* What each handler is to be.
Refines == Seen!Next /\ RInv'

\* A step of c that only removes keys.
LEMMA ShrinkStep ==
    ASSUME Around, NEW c \in Conns, NEW d, NEW r, Runs(c), Step(c, d, r), Shrinks(db, d),
           SentTo(r) = SentTo(conn[c]),
           r.at = "url" => \E n \in TableNames : d.tables[n] = r.tab
    PROVE  Refines
  <1>1. d \in Db /\ db \in Db /\ Named(d)
    BY ConnFields DEF Around, Shrinks, RInv
  <1>2. SlotsLive(db')
    BY SoundLive DEF Around, SInv
  <1>3. Shrinks(d, db') /\ conn'[c] = r /\ \A b \in Conns \ {c} : conn'[b] = conn[b]
    BY <1>1, StepView DEF Around
  <1>4. Shrinks(db, db')
    BY <1>3, ShrinksTrans
  <1>5. Hides(db, db')
    BY <1>1, <1>2, <1>4, ShrinksHides
  <1>6. \A b \in Conns : SentTo(conn'[b]) = SentTo(conn[b])
    BY <1>3
  <1>7. Seen!Next
    BY <1>5, <1>6, RemoveStep
  <1>8. RInv'
    BY <1>1, StepNamed DEF Around
  <1> QED BY <1>7, <1>8 DEF Refines

\* The same, of a connection that goes on with its request.
LEMMA GotoStep ==
    ASSUME Around, NEW c \in Conns, NEW d, NEW where \in {"reply", "body", "send", "list"},
           Runs(c), Goto(c, d, where), Shrinks(db, d)
    PROVE  Refines
  <1> DEFINE r == [conn[c] EXCEPT !.at = where]
  <1>1. conn[c] \in Conn
    BY ConnFields DEF Around
  <1>2. r.at = where /\ r.kind = conn[c].kind /\ r.ent = conn[c].ent
    BY <1>1, SetAt
  <1>3. Step(c, d, r)
    BY DEF Goto
  <1> HIDE DEF r
  <1>4. SentTo(r) = SentTo(conn[c])
    BY <1>2 DEF SentTo
  <1>5. r.at # "url"
    BY <1>2
  <1> QED BY <1>3, <1>4, <1>5, ShrinkStep

\* EndPut, EndGet, EndList, EndBulk, HeadRefused, BodyFailed and KeyRefused
\* leave the database alone.
LEMMA QuietRefines ==
    ASSUME Around, NEW c \in Conns,
           \/ EndPut(c) \/ EndGet(c) \/ EndList(c) \/ EndBulk(c) \/ HeadRefused(c)
           \/ BodyFailed(c) \/ KeyRefused(c)
    PROVE  Refines
  <1>1. Shrinks(db, db)
    BY ConnFields, ShrinksRefl DEF Around
  <1>2. Runs(c)
    BY DEF EndPut, EndGet, EndList, EndBulk, HeadRefused, BodyFailed, KeyRefused
  <1>3. PICK where \in {"reply", "body", "send", "list"} : Goto(c, db, where)
    BY DEF EndPut, EndGet, EndList, EndBulk, HeadRefused, BodyFailed, KeyRefused, Goto
  <1> QED BY <1>1, <1>2, <1>3, GotoStep

\* DELETE of a key.
LEMMA EndDeleteRefines == ASSUME Around, NEW c \in Conns, EndDelete(c) PROVE Refines
  <1>1. db \in Db /\ (conn[c].ent # Null => conn[c].ent \in EntryIds)
    BY ConnFields DEF Around
  <1>2. CASE conn[c].ent = Null
    BY <1>1, <1>2, ShrinksRefl, GotoStep DEF EndDelete
  <1>3. CASE conn[c].ent # Null
    BY <1>1, <1>3, HandleDeleteShrinks, GotoStep DEF EndDelete
  <1> QED BY <1>2, <1>3

\* DELETE of a table.
LEMMA EndDropRefines == ASSUME Around, NEW c \in Conns, EndDrop(c) PROVE Refines
  <1>1. db \in Db /\ (conn[c].tab # Null => conn[c].tab \in TableIds)
    BY ConnFields DEF Around
  <1>2. CASE conn[c].tab = Null
    BY <1>1, <1>2, ShrinksRefl, GotoStep DEF EndDrop
  <1>3. CASE conn[c].tab # Null
    BY <1>1, <1>3, HandleDeleteTableShrinks, GotoStep DEF EndDrop
  <1> QED BY <1>2, <1>3

\* A fault, after which nothing happens any more.
LEMMA SameConnRefines ==
    ASSUME Around, NEW c \in Conns, NEW d, Runs(c), Step(c, d, conn[c]), Shrinks(db, d),
           conn[c].at = "url" => d.tables = db.tables
    PROVE  Refines
  <1>1. conn[c].at = "url" => \E n \in TableNames : d.tables[n] = conn[c].tab
    BY DEF Around, RInv
  <1> QED BY <1>1, ShrinkStep

\* DELETE of a table, when an entry is read after it was freed.
LEMMA EndDropFreedRefines ==
    ASSUME Around, NEW c \in Conns, EndDropFreed(c) PROVE Refines
  <1> DEFINE what == "freed entry"
  <1>1. db \in Db /\ Runs(c) /\ conn[c].at # "url" /\ what \in Faults
    BY ConnFields DEF Around, EndDropFreed, Faults
  <1>2. Step(c, Fault(db, what), conn[c])
    BY DEF EndDropFreed
  <1> HIDE DEF what
  <1> QED BY <1>1, <1>2, FaultShrinks, SameConnRefines

\* The listing of a table.
LEMMA ListStepRefines == ASSUME Around, NEW c \in Conns, ListStep(c) PROVE Refines
  <1>1. db \in Db /\ conn[c] \in Conn /\ conn[c].at = "list" /\ Runs(c)
    BY ConnFields DEF Around, ListStep
  <1>2. ASSUME NEW e \in Entries(db, conn[c].tab), Step(c, db, [conn[c] EXCEPT !.peek = e])
        PROVE  Refines
    <2> DEFINE r == [conn[c] EXCEPT !.peek = e]
    <2>1. r.at = "list" /\ r.kind = conn[c].kind /\ r.ent = conn[c].ent
      BY <1>1 DEF Conn
    <2>2. Step(c, db, r)
      BY <1>2
    <2> HIDE DEF r
    <2>3. SentTo(r) = SentTo(conn[c]) /\ r.at # "url"
      BY <2>1 DEF SentTo
    <2> QED BY <1>1, <2>2, <2>3, ShrinksRefl, ShrinkStep
  <1>3. ASSUME NEW what \in Faults, Step(c, Fault(db, what), conn[c]) PROVE Refines
    BY <1>1, <1>3, FaultShrinks, SameConnRefines
  <1>4. ASSUME Step(c, Misused(db, conn[c].tab), conn[c]) PROVE Refines
    BY <1>1, <1>4, MisusedShrinks, SameConnRefines
  <1>5. "freed key" \in Faults /\ "no buckets" \in Faults
    BY DEF Faults
  <1> QED BY <1>2, <1>3, <1>4, <1>5 DEF ListStep

\* X-Ttl.
LEMMA XTtlRefines == ASSUME Around, NEW c \in Conns, NEW ttl \in Ttls, XTtl(c, ttl) PROVE Refines
  <1>1. db \in Db /\ conn[c].at = "head" /\ Runs(c) /\ conn[c].ent \in EntryIds
    BY ConnFields DEF Around, XTtl, Header
  <1>2. now + ttl \in Nat
    BY ServerAssumption DEF Around, SInv
  <1>3. Shrinks(db, [db EXCEPT !.ents[conn[c].ent].exp = now + ttl])
    BY <1>1, <1>2, ExpiryCore, CoreShrinks
  <1> QED BY <1>1, <1>3, SameConnRefines DEF XTtl

\* Content-Length.
LEMMA ContentLengthRefines ==
    ASSUME Around, NEW c \in Conns, NEW len \in Lengths, ContentLength(c, len)
    PROVE  Refines
  <1> DEFINE e == conn[c].ent
             d == db_target_write_allocate(db, e, len)
             r == [conn[c] EXCEPT !.fd = len > BlockLength]
  <1>1. /\ db \in Db /\ conn[c].at = "head" /\ Runs(c) /\ e \in EntryIds /\ conn[c] \in Conn
        /\ Sound(db, HoldCount(conn), UseCount(conn, db)) /\ ConnOK(db, conn[c])
        /\ conn[c].kind = "PUT" /\ Step(c, d, r)
    BY ConnFields DEF Around, ContentLength, Header
  <1>2. db.ents[e].live /\ db.ents[e].writing
    BY <1>1, DbAssumption DEF ConnOK
  <1>3. len \in Nat
    BY ServerAssumption
  <1>4. Sound(d, HoldCount(conn), UseCount(conn, db)) /\ ButValue(db, d, e)
    BY <1>1, <1>2, <1>3, WriteAllocate
  <1>5. r.at = "head" /\ r.kind = conn[c].kind /\ r.ent = conn[c].ent
    BY <1>1 DEF Conn
  <1> HIDE DEF d, r
  <1>6. d \in Db
    BY <1>4 DEF Sound, Base
  <1>7. /\ d.tables = db.tables /\ d.tabs = db.tabs
        /\ \A f \in EntryIds : KeptEntry(db, d, f)
    BY <1>4 DEF ButValue, KeptEntry
  <1>8. Shrinks(db, d)
    BY <1>1, <1>6, <1>7, FrameShrinks DEF NoNewKeys
  <1>9. SentTo(r) = SentTo(conn[c]) /\ r.at # "url"
    BY <1>5 DEF SentTo
  <1> QED BY <1>1, <1>8, <1>9, ShrinkStep

\* ADMIN /gc.
LEMMA AdminGcRefines == ASSUME Around, NEW c \in Conns, AdminGc(c) PROVE Refines
  <1> DEFINE r == [Closed EXCEPT !.at = "reply", !.kind = "GC"]
  <1>1. db \in Db /\ Runs(c) /\ conn[c].ent = Null /\ Step(c, db_lru_gc(db, now), r)
    BY ConnFields DEF Around, AdminGc, ConnOK
  <1>2. r.at # "url" /\ SentTo(r) = SentTo(conn[c])
    BY <1>1 DEF Closed, SentTo
  <1> HIDE DEF r
  <1> QED BY <1>1, <1>2, GcShrinks, ShrinkStep

\* The lookup of a table.
LEMMA TableGetReadShrinks ==
    ASSUME NEW d \in Db, NEW n \in TableNames
    PROVE  LET q == db_table_get_read(d, n)
           IN  Shrinks(d, q.db) /\ q.ret = d.tables[n] /\ q.db.tables = d.tables
  <1>1. d.tables[n] \in TableIds \cup {Null}
    BY DEF Db
  <1>2. CASE d.tables[n] = Null
    BY <1>2, ShrinksRefl DEF db_table_get_read, Return
  <1>3. CASE d.tables[n] # Null
    <2> DEFINE r == db_table_incref(d, d.tables[n])
    <2>1. Shrinks(d, r) /\ r.tables = d.tables
      BY <1>1, TableIncrefShrinks DEF db_table_incref, Db
    <2>2. db_table_get_read(d, n) = Return(r, d.tables[n])
      BY <1>3 DEF db_table_get_read
    <2> HIDE DEF r
    <2> QED BY <2>1, <2>2 DEF Return
  <1> QED BY <1>2, <1>3

\* The fields of a connection that asks for a table.
LEMMA AskingParts ==
    ASSUME NEW where, NEW kind, NEW t
    PROVE  LET r == Asking(where, kind, t)
           IN  r.at = where /\ r.tab = t /\ SentTo(r) = Null
  BY DEF Asking, Closed, SentTo

\* An idle connection is sent nothing.
LEMMA IdleSent ==
    ASSUME Around, NEW c \in Conns, conn[c].at \in {"idle", "url"}
    PROVE  conn[c].ent = Null /\ SentTo(conn[c]) = Null
  BY ConnFields DEF Around, ConnOK, SentTo

\* LIST, DROP and BULK.
LEMMA TableRequestRefines ==
    ASSUME Around, NEW c \in Conns, NEW kind, NEW n \in TableNames, TableRequest(c, kind, n)
    PROVE  Refines
  <1> DEFINE q == db_table_get_read(db, n)
             r == Asking("tablehead", kind, q.ret)
  <1>1. db \in Db /\ Runs(c) /\ SentTo(conn[c]) = Null
    BY ConnFields, IdleSent DEF Around, TableRequest
  <1>2. Step(c, q.db, r)
    BY DEF TableRequest, Asking
  <1>3. Shrinks(db, q.db)
    BY <1>1, TableGetReadShrinks
  <1>4. r.at = "tablehead" /\ SentTo(r) = Null
    BY AskingParts
  <1> HIDE DEF q, r
  <1> QED BY <1>1, <1>2, <1>3, <1>4, ShrinkStep

\* A step that leaves a client what it finds.
LEMMA ViewStep ==
    ASSUME Around, NEW c \in Conns, NEW d \in Db, NEW r, Runs(c), Step(c, d, r),
           SameView(db, d), Named(d), SentTo(r) = SentTo(conn[c]),
           r.at = "url" => \E n \in TableNames : d.tables[n] = r.tab
    PROVE  Refines
  <1>1. SameView(d, db') /\ conn'[c] = r /\ \A b \in Conns \ {c} : conn'[b] = conn[b]
    BY StepView DEF Around
  <1>2. Hides(db, db')
    BY <1>1, SameHides, HidesTrans
  <1>3. \A b \in Conns : SentTo(conn'[b]) = SentTo(conn[b])
    BY <1>1
  <1>4. Seen!Next
    BY <1>2, <1>3, RemoveStep
  <1>5. RInv'
    BY StepNamed DEF Around
  <1> QED BY <1>4, <1>5 DEF Refines

\* A new table is empty.
LEMMA NewTableView ==
    ASSUME NEW d \in Db, Named(d), NEW n \in TableNames, d.tables[n] = Null,
           NEW t \in TableIds, ~ d.tabs[t].live
    PROVE  LET q == db_table_get_write(d, n, t)
           IN  q.db \in Db /\ q.ret = t /\ q.db.tables[n] = t /\ SameView(d, q.db) /\ Named(q.db)
  <1> DEFINE y == [DeadTable EXCEPT !.live = TRUE, !.name = n, !.refs = 1]
             r == [d EXCEPT !.tables[n] = t, !.tabs[t] = y]
  <1>1. db_table_get_write(d, n, t) = Return(r, t)
    BY DEF db_table_get_write
  <1>2. y \in Table /\ y.live /\ y.name = n /\ ~ y.deleted /\ \A h \in Hashes : y.slot[h] = Null
    <2>1. DeadTable \in Table /\ ~ DeadTable.deleted /\ \A h \in Hashes : DeadTable.slot[h] = Null
      <3>1. [h \in Hashes |-> Null] \in [Hashes -> Ptr]
        BY DEF Ptr
      <3> QED BY <3>1 DEF DeadTable, Table
    <2>2. y.slot = DeadTable.slot /\ y.deleted = DeadTable.deleted /\ y.live = TRUE /\ y.name = n
      BY <2>1 DEF Table
    <2>3. y \in Table
      <3> DEFINE y1 == [DeadTable EXCEPT !.live = TRUE]
                 y2 == [y1 EXCEPT !.name = n]
      <3>1. y1 \in Table
        BY <2>1 DEF Table
      <3>2. y2 \in Table
        BY <3>1 DEF Table
      <3> HIDE DEF y1
      <3>3. y = [y2 EXCEPT !.refs = 1]
        BY DEF y1
      <3> HIDE DEF y, y2
      <3> QED BY <3>2, <3>3 DEF Table
    <2> QED BY <2>1, <2>2, <2>3
  <1> HIDE DEF y
  <1>3. /\ r \in Db /\ r.ents = d.ents
        /\ \A m \in TableNames : r.tables[m] = IF m = n THEN t ELSE d.tables[m]
        /\ \A s \in TableIds : r.tabs[s] = IF s = t THEN y ELSE d.tabs[s]
    BY <1>2 DEF Db
  <1> HIDE DEF r
  <1>4. \A m \in TableNames : d.tables[m] \in TableIds \cup {Null} /\ d.tables[m] # t
    BY DbAssumption DEF Db, Named, Unusable
  <1>5. Named(r)
    BY <1>2, <1>3, <1>4 DEF Named, Unusable
  <1>6. ASSUME NEW x \in Places, NEW w \in BOOLEAN PROVE LookAt(r, x, w) = LookAt(d, x, w)
    <2>1. x[1] \in TableNames /\ KeyHash[x[2]] \in Hashes
      BY SMTT(60), PlaceParts
    <2>2. CASE x[1] = n
      <3>1. LookAt(d, x, w) = Null
        BY <2>2 DEF LookAt
      <3>2. r.tables[x[1]] = t /\ r.tabs[t].slot[KeyHash[x[2]]] = Null
        BY SMTT(60), <1>2, <1>3, <2>1, <2>2
      <3> QED BY ZenonT(60), <3>1, <3>2 DEF LookAt
    <2>3. CASE x[1] # n
      <3>1. r.tables[x[1]] = d.tables[x[1]]
        BY <1>3, <2>1, <2>3
      <3>2. d.tables[x[1]] # Null => r.tabs[d.tables[x[1]]] = d.tabs[d.tables[x[1]]]
        BY <1>3, <1>4, <2>1
      <3> QED BY ZenonT(60), <1>3, <3>1, <3>2 DEF LookAt
    <2> QED BY <2>2, <2>3
  <1>7. SameView(d, r)
    BY <1>6 DEF SameView
  <1> QED BY <1>1, <1>3, <1>5, <1>7 DEF Return

\* GET, PUT, DELETE and PURGE.
LEMMA KeyRequestRefines ==
    ASSUME Around, NEW c \in Conns, NEW kind, NEW n \in TableNames, KeyRequest(c, kind, n)
    PROVE  Refines
  <1> DEFINE create == kind \in {"PUT", "PURGE"}
             q == IF create THEN db_table_get_write(db, n, Min(FreshTables))
                  ELSE db_table_get_read(db, n)
             where == IF q.ret = Null THEN "reply" ELSE "url"
             r == Asking(where, kind, q.ret)
  <1>1. db \in Db /\ Runs(c) /\ SentTo(conn[c]) = Null /\ Named(db)
        /\ (create /\ db.tables[n] = Null => FreshTables # {})
    BY ConnFields, IdleSent DEF Around, KeyRequest, RInv
  <1>2. Step(c, q.db, r)
    BY DEF KeyRequest, Asking
  <1>3. r.at = where /\ r.tab = q.ret /\ SentTo(r) = Null
    BY AskingParts
  <1> HIDE DEF r
  <1>4. CASE ~ create \/ db.tables[n] # Null
    <2>1. q = db_table_get_read(db, n)
      BY <1>4 DEF db_table_get_write
    <2> HIDE DEF q
    <2> DEFINE p == db_table_get_read(db, n)
    <2>2. Shrinks(db, p.db) /\ p.ret = db.tables[n] /\ p.db.tables = db.tables
      BY <1>1, TableGetReadShrinks
    <2> HIDE DEF p
    <2>3. Shrinks(db, q.db) /\ q.db.tables[n] = q.ret
      BY <2>1, <2>2 DEF p
    <2> QED BY <1>1, <1>2, <1>3, <2>3, ShrinkStep
  <1>5. CASE create /\ db.tables[n] = Null
    <2> DEFINE t == Min(FreshTables)
               p == db_table_get_write(db, n, t)
    <2>1. t \in TableIds /\ ~ db.tabs[t].live
      BY <1>1, <1>5, FreshTable DEF Around
    <2>2. q = p
      BY <1>5
    <2> HIDE DEF q, t
    <2>3. p.db \in Db /\ p.ret = t /\ p.db.tables[n] = t /\ SameView(db, p.db) /\ Named(p.db)
      BY <1>1, <1>5, <2>1, NewTableView
    <2> HIDE DEF p
    <2>4. q.db \in Db /\ q.db.tables[n] = q.ret /\ SameView(db, q.db) /\ Named(q.db)
      BY <2>2, <2>3
    <2> QED BY <1>1, <1>2, <1>3, <2>4, ViewStep
  <1> QED BY <1>4, <1>5

-----------------------------------------------------------------------------
(* The end of a request *)

\* A step that hides places and ends the answer to c, if there is one.
LEMMA LeaveStep ==
    ASSUME Hides(db, db'), NEW c \in Conns, SentTo(conn'[c]) = Null,
           \A b \in Conns \ {c} : SentTo(conn'[b]) = SentTo(conn[b])
    PROVE  Seen!Next
  <1> DEFINE sent == [b \in Conns |-> IF conn[b].kind = "GET" THEN conn[b].ent ELSE Null]
  <1>1. \E gone \in SUBSET Places : \A x \in Places, w \in BOOLEAN :
            LookAt(db', x, w) = IF x \in gone THEN Null ELSE LookAt(db, x, w)
    <2> DEFINE hidden == {x \in Places : \A w \in BOOLEAN : LookAt(db', x, w) = Null}
    <2>1. hidden \in SUBSET Places
      OBVIOUS
    <2>2. \A x \in Places, w \in BOOLEAN :
            LookAt(db', x, w) = IF x \in hidden THEN Null ELSE LookAt(db, x, w)
      BY DEF Hides
    <2> QED BY <2>1, <2>2
  <1>2. PICK gone \in SUBSET Places : \A x \in Places, w \in BOOLEAN :
            LookAt(db', x, w) = IF x \in gone THEN Null ELSE LookAt(db, x, w)
    BY <1>1
  <1>3. \A x \in Places : /\ EntryAt(x, FALSE)' = IF x \in gone THEN Null ELSE EntryAt(x, FALSE)
                          /\ EntryAt(x, TRUE)' = IF x \in gone THEN Null ELSE EntryAt(x, TRUE)
    BY <1>2, Looks
  <1>4. [x \in Places |-> EntryAt(x, FALSE)]'
            = Seen!Without([x \in Places |-> EntryAt(x, FALSE)], gone)
    BY <1>3 DEF Seen!Without
  <1>5. [x \in Places |-> EntryAt(x, TRUE)]'
            = Seen!Without([x \in Places |-> EntryAt(x, TRUE)], gone)
    BY <1>3 DEF Seen!Without
  <1>6. sent' = [sent EXCEPT ![c] = Null]
    BY DEF SentTo
  <1>7. Seen!Done(c, gone)
    BY <1>4, <1>5, <1>6 DEF Seen!Done
  <1> QED BY <1>7 DEF Seen!Next

\* A step of c that hides places, then removes keys, and closes c.
LEMMA CloseStep ==
    ASSUME Around, NEW c \in Conns, NEW q \in Db, NEW d, Runs(c), Step(c, d, Closed),
           Hides(db, q), Named(q), Shrinks(q, d)
    PROVE  Refines
  <1>1. d \in Db /\ Named(d)
    BY DEF Shrinks
  <1>2. SlotsLive(db')
    BY SoundLive DEF Around, SInv
  <1>3. Shrinks(d, db') /\ conn'[c] = Closed /\ \A b \in Conns \ {c} : conn'[b] = conn[b]
    BY <1>1, StepView DEF Around
  <1>4. Hides(q, db')
    BY <1>2, <1>3, ShrinksTrans, ShrinksHides
  <1>5. Hides(db, db')
    BY <1>4, HidesTrans
  <1>6. SentTo(Closed) = Null /\ Closed.at # "url"
    BY DEF SentTo, Closed
  <1>7. Seen!Next
    BY <1>3, <1>5, <1>6, LeaveStep
  <1>8. RInv'
    BY <1>1, <1>6, StepNamed DEF Around
  <1> QED BY <1>7, <1>8 DEF Refines

\* An entry that has been deleted is not found.
LEMMA DeletedUnseen ==
    ASSUME NEW d, NEW r, NEW H, NEW U, Sound(d, H, U), Named(d), NEW e \in EntryIds,
           \/ d.ents[e].deleted \/ d.ents[e].tab = Null \/ Unusable(d, d.ents[e].tab),
           ButWriting(d, r, e)
    PROVE  SameView(d, r) /\ (r \in Db => Named(r))
  <1>1. r.tables = d.tables /\ r.tabs = d.tabs /\ d \in Db
    BY DEF ButWriting, Sound, Base
  <1>2. ASSUME NEW n \in TableNames, d.tables[n] # Null, NEW h \in Hashes, NEW f,
               f = d.tabs[d.tables[n]].slot[h], f # Null
        PROVE  r.ents[f].key = d.ents[f].key /\ r.ents[f].writing = d.ents[f].writing
    <2> DEFINE t == d.tables[n]
    <2>1. t \in TableIds /\ ~ Unusable(d, t)
      BY <1>1, <1>2 DEF Db, Named
    <2>2. f \in EntryIds
      BY <1>1, <1>2, <2>1, DbFields DEF Ptr
    <2>3. SlotOK(d, t, h)
      BY SMTT(60), <2>1 DEF Sound, Base
    <2>4. ~ d.ents[f].deleted /\ d.ents[f].tab = t
      BY ZenonT(60), <1>2, <2>3 DEF SlotOK
    <2>5. f # e
      BY SMTT(60), <1>2, <2>1, <2>4
    <2> QED BY <2>2, <2>5 DEF ButWriting
  <1>3. \A n \in TableNames : SameFound(d, r, n)
    BY Zenon, <1>1, <1>2 DEF SameFound
  <1>4. SameView(d, r)
    BY <1>1, <1>3, SameLook
  <1> QED BY <1>1, <1>4 DEF Named, Unusable

\* The end of an unfinished upload.
LEMMA AbortHides ==
    ASSUME Around, NEW c \in Conns, NEW x, x = conn[c], x.writing, NEW d, d = Abort(x, db)
    PROVE  d \in Db /\ Hides(db, d) /\ Named(d)
  <1> DEFINE H == HoldCount(conn)
             U == UseCount(conn, db)
             e == x.ent
             d1 == IF db.ents[e].deleted THEN db ELSE db_entry_handle_delete(db, e)
  <1>1. /\ e \in EntryIds /\ H[e] > 0 /\ Sound(db, H, U) /\ Covered(db, H, U) /\ db \in Db
    BY ConnFields DEF ConnOK, Around
  <1>2. db.ents[e].tab # Null => U[db.ents[e].tab] > 0
    BY <1>1 DEF Covered
  <1>3. d = [d1 EXCEPT !.ents[e].writing = FALSE]
    BY ZenonT(60) DEF Abort
  <1> HIDE DEF H, U
  <1>4. /\ Sound(d1, H, U) /\ Shrinks(db, d1)
        /\ \/ d1.ents[e].deleted \/ d1.ents[e].tab = Null \/ Unusable(d1, d1.ents[e].tab)
    <2>1. CASE db.ents[e].deleted
      BY <1>1, <2>1, ShrinksRefl
    <2>2. CASE ~ db.ents[e].deleted
      <3> DEFINE p == db_entry_handle_delete(db, e)
      <3>1. /\ Sound(p, H, U)
            /\ \/ p.ents[e].deleted \/ p.ents[e].tab = Null \/ Unusable(p, p.ents[e].tab)
        BY <1>1, <1>2, HandleDelete
      <3>2. Shrinks(db, p)
        BY <1>1, HandleDeleteShrinks
      <3> QED BY <2>2, <3>1, <3>2
    <2> QED BY <2>1, <2>2
  <1> HIDE DEF d1
  <1>5. Sound(d, H, U) /\ ButWriting(d1, d, e)
    BY <1>1, <1>3, <1>4, StopWriting
  <1>6. Named(d1)
    BY <1>4 DEF Shrinks, Around, RInv
  <1>7. d \in Db
    BY <1>5 DEF Sound, Base
  <1>8. SameView(d1, d) /\ Named(d)
    BY <1>1, <1>4, <1>5, <1>6, <1>7, DeletedUnseen
  <1>9. SlotsLive(d1)
    BY <1>4, SoundLive
  <1>10. Hides(db, d1)
    BY <1>1, <1>4, <1>9, ShrinksHides
  <1> QED BY <1>7, <1>8, <1>10, SameHides, HidesTrans

\* http_cleanup.
LEMMA CleanupRefines == ASSUME Around, NEW c \in Conns, Cleanup(c) PROVE Refines
  <1> DEFINE x == conn[c]
             e == x.ent
  <1>1. Step(c, cache_destroy(x, db), Closed) /\ Runs(c)
    BY DEF Cleanup
  <1>2. /\ db \in Db /\ Named(db) /\ (e # Null => e \in EntryIds)
        /\ x.tab # Null => x.tab \in TableIds
    BY ConnFields DEF Around, RInv
  <1>3. Hides(db, db)
    BY DEF Hides
  <1>4. CASE e # Null
    <2> DEFINE d0 == IF x.writing THEN Abort(x, db) ELSE db
               q  == IF x.fd /\ d0.ents[e].writing THEN db_entry_delete(d0, e) ELSE d0
    <2>1. Step(c, db_entry_deref(q, e, TRUE), Closed)
      BY <1>1, <1>4 DEF cache_destroy, db_target_entry_close
    <2>2. d0 \in Db /\ Hides(db, d0) /\ Named(d0)
      <3>1. CASE x.writing
        BY <3>1, AbortHides
      <3>2. CASE ~ x.writing
        BY <1>2, <1>3, <3>2
      <3> QED BY <3>1, <3>2
    <2> HIDE DEF d0
    <2>3. Shrinks(d0, q)
      BY <1>2, <1>4, <2>2, ShrinksRefl, EntryDeleteCore, CoreShrinks
    <2> HIDE DEF q
    <2>4. q \in Db
      BY <2>3 DEF Shrinks
    <2>5. Shrinks(q, db_entry_deref(q, e, TRUE))
      BY <1>2, <1>4, <2>4, EntryDerefShrinks
    <2>6. Shrinks(d0, db_entry_deref(q, e, TRUE))
      BY <2>3, <2>5, ShrinksTrans
    <2> QED BY <1>1, <2>1, <2>2, <2>6, CloseStep
  <1>5. CASE e = Null /\ x.tab # Null
    <2>1. Step(c, db_table_deref(db, x.tab, FALSE), Closed)
      BY <1>1, <1>5 DEF cache_destroy
    <2>2. Shrinks(db, db_table_deref(db, x.tab, FALSE))
      BY <1>2, <1>5, TableDerefShrinks
    <2> QED BY <1>1, <1>2, <1>3, <2>1, <2>2, CloseStep
  <1>6. CASE e = Null /\ x.tab = Null
    <2>1. Step(c, db, Closed)
      BY <1>1, <1>6 DEF cache_destroy
    <2> QED BY <1>1, <1>2, <1>3, <2>1, ShrinksRefl, CloseStep
  <1> QED BY <1>4, <1>5, <1>6

\* X-Delete.
LEMMA XDeleteRefines ==
    ASSUME Around, NEW c \in Conns, NEW k \in Keys, XDelete(c, k)
    PROVE  Refines
  <1> DEFINE x == conn[c]
             t == x.tab
             q == db_entry_get_delete(db, t, k)
             d1 == db_entry_handle_delete(q.db, q.ret)
             p == db_entry_deref(d1, q.ret, FALSE)
  <1>1. /\ x.at = "tablehead" /\ t \in TableIds /\ x \in Conn /\ db \in Db /\ Runs(c)
        /\ x.ent = Null /\ Sound(db, HoldCount(conn), UseCount(conn, db))
    BY ConnFields DEF Around, XDelete, Header, ConnOK
  <1>2. CASE Unusable(db, t)
    BY <1>1, <1>2, MisusedShrinks, SameConnRefines DEF XDelete
  <1>3. CASE ~ Unusable(db, t)
    <2>1. \/ q.ret = Null /\ Step(c, q.db, x)
          \/ q.ret # Null /\ Step(c, p, IF d1.ents[q.ret].tab = Null THEN [x EXCEPT !.tab = Null] ELSE x)
      BY Zenon, <1>3 DEF XDelete
    <2>2. /\ q.ret = Null => q.db = db
          /\ q.ret # Null => q.ret \in EntryIds /\ q.db = db_entry_incref(db, q.ret, FALSE)
      <3>1. db.tabs[t].slot[KeyHash[k]] \in Ptr
        BY <1>1, DbFields DEF Hashes
      <3> QED BY Zenon, <3>1 DEF db_entry_get_delete, Return, Ptr
    <2> HIDE DEF q
    <2>3. CASE q.ret = Null
      BY <1>1, <2>1, <2>2, <2>3, ShrinksRefl, SameConnRefines
    <2>4. CASE q.ret # Null
      <3>1. Shrinks(db, q.db) /\ q.db \in Db
        BY <1>1, <2>2, <2>4, EntryIncrefShrinks DEF Shrinks
      <3>2. Shrinks(q.db, d1) /\ d1 \in Db
        BY <2>2, <2>4, <3>1, HandleDeleteShrinks DEF Shrinks
      <3> HIDE DEF d1
      <3>3. Shrinks(d1, p)
        BY <2>2, <2>4, <3>2, EntryDerefShrinks
      <3> HIDE DEF p
      <3>4. Shrinks(db, p)
        BY <3>1, <3>2, <3>3, ShrinksTrans
      <3>5. Step(c, p, [x EXCEPT !.tab = Null]) \/ Step(c, p, x)
        BY <2>1, <2>4
      <3>6. CASE Step(c, p, x)
        BY <1>1, <3>4, <3>6, SameConnRefines
      <3>7. CASE Step(c, p, [x EXCEPT !.tab = Null])
        <4> DEFINE r == [x EXCEPT !.tab = Null]
        <4>1. r.at = "tablehead" /\ r.ent = x.ent /\ r.kind = x.kind
          BY <1>1 DEF Conn
        <4>2. SentTo(r) = SentTo(conn[c]) /\ r.at # "url"
          BY <4>1 DEF SentTo
        <4>3. Step(c, p, r)
          BY <3>7
        <4> HIDE DEF r
        <4> QED BY <1>1, <3>4, <4>2, <4>3, ShrinkStep
      <3> QED BY <3>5, <3>6, <3>7
    <2> QED BY <2>3, <2>4
  <1> QED BY <1>2, <1>3

-----------------------------------------------------------------------------
(* The end of an upload *)

\* The entry in the hash set at place x, whatever its key.
SlotAt(d, x) == IF d.tables[x[1]] = Null THEN Null
                ELSE d.tabs[d.tables[x[1]]].slot[KeyHash[x[2]]]

\* LookAt compares the key of that entry.
LEMMA LookSlot ==
    ASSUME NEW d, NEW x, NEW w
    PROVE  LookAt(d, x, w) = IF SlotAt(d, x) = Null THEN Null
                             ELSE IF /\ d.ents[SlotAt(d, x)].key = x[2]
                                     /\ d.ents[SlotAt(d, x)].writing = w
                             THEN SlotAt(d, x) ELSE Null
  BY SMTT(60) DEF LookAt, SlotAt

\* What is known of the entry at a place.
LEMMA SlotSound ==
    ASSUME NEW d, NEW H, NEW U, Sound(d, H, U), NEW x \in Places, NEW e, e = SlotAt(d, x),
           e # Null
    PROVE  /\ e \in EntryIds /\ d.ents[e].live /\ d.ents[e].tab = d.tables[x[1]]
           /\ d.tables[x[1]] \in TableIds /\ d.tables[x[1]] # Null
           /\ KeyHash[d.ents[e].key] = KeyHash[x[2]] /\ d.ents[e].key \in Keys
           /\ d.ents[e].writing \in BOOLEAN
  <1> DEFINE t == d.tables[x[1]]
             h == KeyHash[x[2]]
  <1>1. x[1] \in TableNames /\ h \in Hashes
    BY PlaceParts
  <1>2. d \in Db
    BY SMTT(60) DEF Sound, Base
  <1>3. t \in TableIds /\ t # Null /\ e = d.tabs[t].slot[h]
    BY SMTT(60), <1>1, <1>2 DEF SlotAt, Db
  <1>4. e \in EntryIds
    BY SMTT(60), <1>1, <1>2, <1>3, DbFields DEF Ptr
  <1>5. SlotOK(d, t, h) /\ EntryOK(d, H, e)
    BY SMTT(60), <1>1, <1>3, <1>4 DEF Sound, Base
  <1>6. d.ents[e].live /\ d.ents[e].tab = t /\ KeyHash[d.ents[e].key] = h
    BY Zenon, <1>3, <1>5 DEF SlotOK
  <1>7. d.ents[e].key \in Keys
    BY <1>5, <1>6 DEF EntryOK
  <1> QED BY Zenon, <1>2, <1>3, <1>4, <1>6, <1>7, DbFields

\* The entry that a client finds is at one place only.
LEMMA OnePlace ==
    ASSUME NEW d, NEW H, NEW U, Sound(d, H, U), Named(d), NEW x \in Places, NEW y \in Places,
           SlotAt(d, x) # Null, SlotAt(d, x) = SlotAt(d, y),
           d.ents[SlotAt(d, x)].key = x[2], d.ents[SlotAt(d, x)].key = y[2]
    PROVE  x = y
  <1>1. d.tables[x[1]] # Null /\ d.tables[x[1]] = d.tables[y[1]]
    BY SlotSound
  <1>2. x[1] = y[1]
    BY <1>1, PlaceParts DEF Named
  <1> QED BY <1>2, PlaceParts

\* In r the entry e, which in d is being uploaded to p, is the value of p.
Completed(d, r, p, e) ==
    \A y \in Places :
        /\ LookAt(r, y, FALSE) = IF y = p THEN e ELSE LookAt(d, y, FALSE)
        /\ LookAt(r, y, TRUE) = IF y = p THEN Null ELSE LookAt(d, y, TRUE)

\* What a client finds when the upload of the entry at p is complete.
LEMMA CompleteView ==
    ASSUME NEW d, NEW H, NEW U, Sound(d, H, U), Named(d), NEW r \in Db, NEW e \in EntryIds,
           d.ents[e].writing, ButWriting(d, r, e), NEW p \in Places, LookAt(d, p, TRUE) = e
    PROVE  Completed(d, r, p, e)
  <1>0. e # Null
    BY DbAssumption
  <1>1. SlotAt(d, p) = e /\ d.ents[e].key = p[2]
    BY <1>0, LookSlot
  <1>2. SUFFICES ASSUME NEW y \in Places
                 PROVE  /\ LookAt(r, y, FALSE) = IF y = p THEN e ELSE LookAt(d, y, FALSE)
                        /\ LookAt(r, y, TRUE) = IF y = p THEN Null ELSE LookAt(d, y, TRUE)
    BY DEF Completed
  <1> DEFINE f == SlotAt(d, y)
  <1>3. SlotAt(r, y) = f
    BY DEF SlotAt, ButWriting
  <1>4. /\ f # Null => f \in EntryIds /\ d.ents[f].writing \in BOOLEAN
    BY SlotSound
  <1>5. f = e /\ d.ents[e].key = y[2] => y = p
    BY <1>0, <1>1, OnePlace
  <1> HIDE DEF f
  <1>6. /\ \A w : LookAt(r, y, w) = IF f = Null THEN Null
                                    ELSE IF r.ents[f].key = y[2] /\ r.ents[f].writing = w
                                    THEN f ELSE Null
        /\ \A w : LookAt(d, y, w) = IF f = Null THEN Null
                                    ELSE IF d.ents[f].key = y[2] /\ d.ents[f].writing = w
                                    THEN f ELSE Null
    BY <1>3, LookSlot DEF f
  <1>7. CASE f = e
    <2>1. r.ents[e].key = d.ents[e].key /\ r.ents[e].writing = FALSE
      BY DbFields DEF ButWriting
    <2>2. y = p => d.ents[e].key = y[2]
      BY <1>1
    <2>4. r.ents[e].key = y[2] => LookAt(r, y, FALSE) = e
      BY <1>6, <1>7, <1>0, <2>1
    <2>5. LookAt(r, y, TRUE) = Null
      BY <1>6, <1>7, <2>1
    <2>6. d.ents[e].key # y[2] => LookAt(r, y, FALSE) = Null /\ LookAt(d, y, FALSE) = Null
                                  /\ LookAt(d, y, TRUE) = Null
      BY <1>6, <1>7, <2>1
    <2> QED BY <1>5, <1>7, <2>1, <2>2, <2>4, <2>5, <2>6
  <1>8. CASE f # e
    <2>1. y # p
      BY <1>1, <1>8 DEF f
    <2>2. f # Null => r.ents[f].key = d.ents[f].key /\ r.ents[f].writing = d.ents[f].writing
      BY <1>4, <1>8 DEF ButWriting
    <2> QED BY <1>6, <2>1, <2>2
  <1> QED BY <1>7, <1>8

\* The end of an upload that nobody will see.
LEMMA UnseenView ==
    ASSUME NEW d, NEW H, NEW U, Sound(d, H, U), NEW r, NEW e \in EntryIds,
           d.ents[e].writing, ButWriting(d, r, e),
           \A p \in Places : LookAt(d, p, TRUE) # e
    PROVE  SameView(d, r)
  <1> SUFFICES ASSUME NEW y \in Places, NEW w \in BOOLEAN
               PROVE  LookAt(r, y, w) = LookAt(d, y, w)
    BY DEF SameView
  <1> DEFINE f == SlotAt(d, y)
             p == <<y[1], d.ents[f].key>>
  <1>1. SlotAt(r, y) = f
    BY DEF SlotAt, ButWriting
  <1>2. f # Null => f \in EntryIds /\ d.ents[f].key \in Keys
                    /\ KeyHash[d.ents[f].key] = KeyHash[y[2]]
    BY SlotSound
  <1>3. f # e
    <2> SUFFICES ASSUME f = e PROVE FALSE
      OBVIOUS
    <2>1. f # Null /\ d.ents[f].writing = TRUE
      BY <1>2, DbAssumption, DbFields DEF Sound, Base
    <2>2. p \in Places /\ p[1] = y[1] /\ p[2] = d.ents[f].key
      BY SMTT(60), <1>2, <2>1, PlaceParts DEF Places
    <2>3. SlotAt(d, p) = f
      BY Zenon, <1>2, <2>1, <2>2 DEF SlotAt
    <2> HIDE DEF f, p
    <2>4. LookAt(d, p, TRUE) = f
      BY <2>1, <2>2, <2>3, LookSlot
    <2> QED BY <2>2, <2>4
  <1> HIDE DEF f
  <1>4. f # Null => r.ents[f].key = d.ents[f].key /\ r.ents[f].writing = d.ents[f].writing
    BY <1>2, <1>3 DEF ButWriting
  <1> QED BY <1>1, <1>4, LookSlot DEF f

\* A step after which the upload at p is the value of p.
LEMMA FinishStep ==
    ASSUME NEW p \in Places, NEW e \in EntryIds, LookAt(db, p, TRUE) = e,
           Completed(db, db', p, e),
           \A b \in Conns : SentTo(conn'[b]) = SentTo(conn[b])
    PROVE  Seen!Next
  <1>1. EntryAt(p, TRUE) = e /\ e # Null
    BY Looks, DbAssumption
  <1>2. \A y \in Places : /\ EntryAt(y, FALSE)' = IF y = p THEN e ELSE EntryAt(y, FALSE)
                          /\ EntryAt(y, TRUE)' = IF y = p THEN Null ELSE EntryAt(y, TRUE)
    BY Looks DEF Completed
  <1>3. [y \in Places |-> EntryAt(y, FALSE)]'
            = [[y \in Places |-> EntryAt(y, FALSE)] EXCEPT ![p] = EntryAt(p, TRUE)]
    BY <1>1, <1>2
  <1>4. [y \in Places |-> EntryAt(y, TRUE)]'
            = [[y \in Places |-> EntryAt(y, TRUE)] EXCEPT ![p] = Null]
    BY <1>2
  <1>5. UNCHANGED [c \in Conns |-> IF conn[c].kind = "GET" THEN conn[c].ent ELSE Null]
    BY DEF SentTo
  <1>6. Seen!Finish(p)
    BY <1>1, <1>3, <1>4, <1>5 DEF Seen!Finish
  <1> QED BY <1>6 DEF Seen!Next

\* http_cache_handle_request_body.
LEMMA BodyDoneRefines == ASSUME Around, NEW c \in Conns, BodyDone(c) PROVE Refines
  <1> DEFINE x == conn[c]
             e == x.ent
             r == [x EXCEPT !.at = "reply", !.writing = FALSE]
             H == HoldCount(conn)
             U == UseCount(conn, db)
  <1>1. /\ x \in Conn /\ db \in Db /\ Runs(c) /\ x.at = "body" /\ ConnOK(db, x) /\ Named(db)
        /\ Sound(db, H, U)
    BY ConnFields DEF Around, BodyDone, RInv
  <1>2. r.at = "reply" /\ r.kind = x.kind /\ r.ent = x.ent
    BY <1>1 DEF Conn
  <1>3. Step(c, IF x.writing THEN db_complete_writing(db, e) ELSE db, r)
    BY DEF BodyDone
  <1> HIDE DEF r
  <1>4. SentTo(r) = SentTo(conn[c]) /\ r.at # "url"
    BY <1>2 DEF SentTo
  <1>5. CASE ~ x.writing
    BY <1>1, <1>3, <1>4, <1>5, ShrinksRefl, ShrinkStep
  <1>6. CASE x.writing
    <2> DEFINE d == db_complete_writing(db, e)
    <2>1. e \in EntryIds /\ db.ents[e].len > 0 /\ db.ents[e].writing
      BY <1>1, <1>6 DEF ConnOK, Conn
    <2>2. Step(c, d, r)
      BY <1>3, <1>6
    <2> HIDE DEF H, U
    <2>3. Sound(d, H, U) /\ ButWriting(db, d, e)
      BY <1>1, <2>1, CompleteWriting
    <2> HIDE DEF d
    <2>4. d \in Db
      BY <2>3 DEF Sound, Base
    <2>5. d.tables = db.tables /\ d.tabs = db.tabs
      BY <2>3 DEF ButWriting
    <2>6. Named(d)
      BY <1>1, <2>5 DEF Named, Unusable
    <2>7. CASE \A p \in Places : LookAt(db, p, TRUE) # e
      <3>1. SameView(db, d)
        BY <1>1, <2>1, <2>3, <2>7, UnseenView
      <3> QED BY <1>1, <1>4, <2>2, <2>4, <2>6, <3>1, ViewStep
    <2>8. ASSUME NEW p \in Places, LookAt(db, p, TRUE) = e PROVE Refines
      <3>1. Completed(db, d, p, e)
        BY <1>1, <2>1, <2>3, <2>4, <2>8, CompleteView
      <3>2. SameView(d, db') /\ conn'[c] = r /\ \A b \in Conns \ {c} : conn'[b] = conn[b]
        BY <2>2, <2>4, StepView DEF Around
      <3>3. Completed(db, db', p, e)
        BY <3>1, <3>2 DEF SameView, Completed
      <3>4. \A b \in Conns : SentTo(conn'[b]) = SentTo(conn[b])
        BY <1>4, <3>2
      <3>5. Seen!Next
        BY <2>1, <2>8, <3>3, <3>4, FinishStep
      <3>6. RInv'
        BY <1>1, <1>4, <2>2, <2>4, <2>6, StepNamed DEF Around
      <3> QED BY <3>5, <3>6 DEF Refines
    <2> QED BY <2>7, <2>8
  <1> QED BY <1>5, <1>6

-----------------------------------------------------------------------------
(* The lookup of a key *)

\* A step after which c is sent what it finds at p.
LEMMA ServeStep ==
    ASSUME SameView(db, db'), NEW c \in Conns, NEW p \in Places, NEW e \in EntryIds,
           LookAt(db, p, FALSE) = e, SentTo(conn[c]) = Null, SentTo(conn'[c]) = e,
           \A b \in Conns \ {c} : SentTo(conn'[b]) = SentTo(conn[b])
    PROVE  Seen!Next
  <1> DEFINE sent == [b \in Conns |-> IF conn[b].kind = "GET" THEN conn[b].ent ELSE Null]
  <1>1. EntryAt(p, FALSE) = e /\ e # Null
    BY Looks, DbAssumption
  <1>2. \A y \in Places : EntryAt(y, FALSE)' = EntryAt(y, FALSE) /\ EntryAt(y, TRUE)' = EntryAt(y, TRUE)
    BY Looks DEF SameView
  <1>3. [y \in Places |-> EntryAt(y, FALSE)]' = [y \in Places |-> EntryAt(y, FALSE)]
    BY <1>2
  <1>4. [y \in Places |-> EntryAt(y, TRUE)]' = [y \in Places |-> EntryAt(y, TRUE)]
    BY <1>2
  <1>5. sent' = [sent EXCEPT ![c] = EntryAt(p, FALSE)] /\ sent[c] = Null
    BY <1>1 DEF SentTo
  <1>6. Seen!Serve(c, p)
    BY <1>1, <1>3, <1>4, <1>5 DEF Seen!Serve
  <1> QED BY <1>6 DEF Seen!Next

\* What a GET finds, and leaves to be found.
Reads(d, q, t, k) ==
    \/ q.ret = Null /\ Shrinks(d, q.db)
    \/ /\ q.ret \in EntryIds /\ q.ret = d.tabs[t].slot[KeyHash[k]]
       /\ d.ents[q.ret].key = k /\ d.ents[q.ret].writing = FALSE
       /\ q.db \in Db /\ q.db.tables = d.tables /\ SameView(d, q.db) /\ (Named(d) => Named(q.db))

\* db_entry_get_read.
LEMMA GetReadView ==
    ASSUME NEW d \in Db, NEW t \in TableIds, NEW k \in Keys, NEW time,
           NEW q, q = db_entry_get_read(d, t, k, time)
    PROVE  Reads(d, q, t, k)
  <1> DEFINE e  == d.tabs[t].slot[KeyHash[k]]
             d1 == db_entry_incref(d, e, FALSE)
             d2 == db_entry_handle_delete(d1, e)
             d3 == db_entry_deref(d2, e, FALSE)
             d4 == db_lru_hit(d, e)
             d5 == db_entry_incref(d4, e, FALSE)
  <1>1. e \in EntryIds \cup {Null}
    BY DbFields DEF Hashes, Ptr
  <1>2. CASE e = Null \/ (e # Null /\ ~ Expired(d, e, time) /\ (d.ents[e].key # k \/ d.ents[e].writing))
    <2>1. q.ret = Null /\ q.db = d
      BY Zenon, <1>2 DEF db_entry_get_read, Return
    <2> QED BY <2>1, ShrinksRefl DEF Reads
  <1>3. CASE e # Null /\ Expired(d, e, time)
    <2>1. q.ret = Null /\ q.db = d3
      BY <1>3 DEF db_entry_get_read, Return
    <2> HIDE DEF e
    <2>2. e \in EntryIds
      BY <1>1, <1>3
    <2>3. Shrinks(d, d1) /\ d1 \in Db
      BY <2>2, EntryIncrefShrinks DEF Shrinks
    <2> HIDE DEF d1
    <2>4. Shrinks(d1, d2) /\ d2 \in Db
      BY <2>2, <2>3, HandleDeleteShrinks DEF Shrinks
    <2> HIDE DEF d2
    <2>5. Shrinks(d2, d3)
      BY <2>2, <2>4, EntryDerefShrinks
    <2> HIDE DEF d3
    <2> QED BY <2>1, <2>3, <2>4, <2>5, ShrinksTrans DEF Reads
  <1>4. CASE e # Null /\ ~ Expired(d, e, time) /\ d.ents[e].key = k /\ ~ d.ents[e].writing
    <2>1. q.ret = e /\ q.db = d5
      BY Zenon, <1>4 DEF db_entry_get_read, Return
    <2>2. e = d.tabs[t].slot[KeyHash[k]]
      OBVIOUS
    <2> HIDE DEF e
    <2>3. e \in EntryIds /\ d.ents[e].writing = FALSE
      BY <1>1, <1>4, DbFields
    <2>4. SameCore(d, d4)
      BY <2>3, HitCore
    <2> HIDE DEF d4
    <2>5. d4 \in Db /\ d4.tables = d.tables /\ d4.tabs = d.tabs
          /\ \A f \in EntryIds : SameEntry(d, d4, f)
      BY <2>4 DEF SameCore
    <2>6. d4.ents[e].refs + 1 \in Int
      BY <2>3, <2>5, DbFields
    <2>7. d5 = WithRefs(d4, e, d4.ents[e].refs + 1)
      BY DEF db_entry_incref, WithRefs
    <2> HIDE DEF d5
    <2>8. d5 \in Db /\ d5.tabs = d4.tabs /\ ButRefs(d4, d5) /\ d5.tables = d4.tables
      BY <2>3, <2>5, <2>6, <2>7, SetRefs, EntryRefsShrinks
    <2>9. d5.tables = d.tables /\ d5.tabs = d.tabs
          /\ \A f \in EntryIds : d5.ents[f].key = d.ents[f].key /\ d5.ents[f].writing = d.ents[f].writing
      BY <2>5, <2>8 DEF SameEntry, ButRefs
    <2>10. \A n \in TableNames : SameFound(d, d5, n)
      <3> SUFFICES ASSUME NEW n \in TableNames, d.tables[n] # Null
                   PROVE  \A h \in Hashes : d.tabs[d.tables[n]].slot[h] \in EntryIds \cup {Null}
        BY Zenon, <2>9 DEF SameFound
      <3>1. d.tables[n] \in TableIds
        BY DEF Db
      <3> QED BY SMTT(60), <3>1, DbFields DEF Ptr
    <2>11. SameView(d, d5)
      BY <2>9, <2>10, SameLook
    <2>12. Named(d) => Named(d5)
      BY <2>9 DEF Named, Unusable
    <2> QED BY <1>4, <2>1, <2>2, <2>3, <2>8, <2>9, <2>11, <2>12 DEF Reads
  <1> QED BY <1>2, <1>3, <1>4

\* In r the entry e is being uploaded to p; elsewhere r shows what d shows, or
\* nothing.
Inserted(d, r, p, e) ==
    /\ LookAt(r, p, TRUE) = e /\ LookAt(r, p, FALSE) = Null
    /\ \A y \in Places \ {p} : \/ \A w \in BOOLEAN : LookAt(r, y, w) = LookAt(d, y, w)
                               \/ \A w \in BOOLEAN : LookAt(r, y, w) = Null

\* NewKey on a database that shows less than d.
LEMMA NewKeyView ==
    ASSUME NEW d \in Db, NEW m, Shrinks(d, m), SlotsLive(m), Named(d),
           NEW e \in EntryIds, ~ d.ents[e].live, NEW n \in TableNames, NEW t \in TableIds,
           m.tables[n] = t, NEW k \in Keys, NEW refs \in Int, NEW r, r = NewKey(m, e, t, k, refs)
    PROVE  r \in Db /\ Named(r) /\ Inserted(d, r, <<n, k>>, e)
  <1> DEFINE p == <<n, k>>
  <1>1. m \in Db /\ Named(m)
    BY DEF Shrinks
  <1>2. /\ r \in Db /\ r.tables = m.tables
        /\ r.tabs[t].name = m.tabs[t].name
        /\ r.ents[e].key = k /\ r.ents[e].writing
        /\ \A f \in EntryIds : f # e => r.ents[f] = m.ents[f]
        /\ \A s \in TableIds : s # t => r.tabs[s] = m.tabs[s]
        /\ r.tabs[t].live = m.tabs[t].live /\ r.tabs[t].deleted = m.tabs[t].deleted
        /\ \A h \in Hashes : r.tabs[t].slot[h] = IF h = KeyHash[k] THEN e ELSE m.tabs[t].slot[h]
    BY <1>1, NewKeyShape
  <1>3. \A s \in TableNames : m.tables[s] \in TableIds \cup {Null}
    BY <1>1 DEF Db
  <1>4. Named(r)
    BY <1>1, <1>2, <1>3 DEF Named, Unusable
  <1>5. t # Null /\ e # Null /\ p \in Places /\ p[1] = n /\ p[2] = k /\ KeyHash[k] \in Hashes
        /\ r.ents[e].writing = TRUE
    BY <1>2, DbAssumption, DbFields DEF Places, Hashes
  <1>6. LookAt(r, p, TRUE) = e /\ LookAt(r, p, FALSE) = Null
    <2>1. SlotAt(r, p) = e
      BY <1>2, <1>5 DEF SlotAt
    <2>2. e # Null /\ r.ents[e].key = p[2] /\ r.ents[e].writing = TRUE
      BY <1>2, <1>5
    <2> HIDE DEF p
    <2>3. LookAt(r, p, TRUE) = IF SlotAt(r, p) = Null THEN Null
                               ELSE IF /\ r.ents[SlotAt(r, p)].key = p[2]
                                       /\ r.ents[SlotAt(r, p)].writing = TRUE
                               THEN SlotAt(r, p) ELSE Null
      BY LookSlot
    <2>4. LookAt(r, p, FALSE) = IF SlotAt(r, p) = Null THEN Null
                                ELSE IF /\ r.ents[SlotAt(r, p)].key = p[2]
                                        /\ r.ents[SlotAt(r, p)].writing = FALSE
                                THEN SlotAt(r, p) ELSE Null
      BY LookSlot
    <2> QED BY <2>1, <2>2, <2>3, <2>4
  <1> HIDE DEF p
  <1>7. ASSUME NEW y \in Places, y # p
        PROVE  \/ \A w \in BOOLEAN : LookAt(r, y, w) = LookAt(m, y, w)
               \/ \A w \in BOOLEAN : LookAt(r, y, w) = Null
    <2>1. y[1] \in TableNames /\ y[2] \in Keys /\ y = <<y[1], y[2]>> /\ KeyHash[y[2]] \in Hashes
      BY PlaceParts
    <2>2. CASE m.tables[y[1]] = t /\ KeyHash[y[2]] = KeyHash[k]
      <3>1. y[1] = n
        BY <1>1, <1>5, <2>1, <2>2 DEF Named
      <3>2. y[2] # k
        BY <1>7, <2>1, <3>1 DEF p
      <3>3. SlotAt(r, y) = e
        BY <1>2, <1>5, <2>1, <2>2 DEF SlotAt
      <3> QED BY <1>2, <3>2, <3>3, LookSlot
    <2>3. CASE ~ (m.tables[y[1]] = t /\ KeyHash[y[2]] = KeyHash[k])
      <3> DEFINE f == SlotAt(m, y)
      <3>1. SlotAt(r, y) = f
        BY <1>2, <1>3, <2>1, <2>3 DEF SlotAt
      <3>2. f # Null => f \in EntryIds /\ m.ents[f].live
        <4>1. CASE m.tables[y[1]] = Null
          BY <4>1 DEF SlotAt
        <4>2. CASE m.tables[y[1]] # Null
          <5>1. m.tables[y[1]] \in TableIds /\ f = m.tabs[m.tables[y[1]]].slot[KeyHash[y[2]]]
            BY <1>3, <2>1, <4>2 DEF SlotAt
          <5>2. m.tabs[m.tables[y[1]]].slot[KeyHash[y[2]]] \in Ptr
            BY <1>1, <2>1, <5>1, DbFields
          <5> QED BY Zenon, <2>1, <5>1, <5>2 DEF SlotsLive, Ptr
        <4> QED BY <4>1, <4>2
      <3>3. ~ m.ents[e].live
        BY DEF Shrinks, KeptEntry
      <3> HIDE DEF f
      <3>4. f # Null => r.ents[f] = m.ents[f]
        BY <1>2, <3>2, <3>3
      <3> QED BY <3>1, <3>4, LookSlot DEF f
    <2> QED BY <2>2, <2>3
  <1>8. Hides(d, m)
    BY ShrinksHides
  <1>9. ASSUME NEW y \in Places \ {p}
        PROVE  \/ \A w \in BOOLEAN : LookAt(r, y, w) = LookAt(d, y, w)
               \/ \A w \in BOOLEAN : LookAt(r, y, w) = Null
    BY <1>7, <1>8 DEF Hides
  <1>10. Inserted(d, r, p, e)
    BY <1>6, <1>9 DEF Inserted
  <1> QED BY <1>2, <1>4, <1>10 DEF p

\* A key that is replaced leaves its table.
LEMMA SoftDeleteTables ==
    ASSUME NEW d \in Db, NEW e \in EntryIds
    PROVE  db_entry_handle_softdelete(d, e).tables = d.tables
  <1> DEFINE d1 == Unlink(d, e)
             d2 == db_entry_actually_delete(d1, e)
  <1>1. d1 \in Db /\ d1.tables = d.tables
    BY UnlinkShape DEF Unlinked
  <1> HIDE DEF d1
  <1>2. d2.tables = d1.tables
    <2>1. Orphan(d1, e) \in Db /\ Orphan(d1, e).tables = d1.tables
      BY <1>1, OrphanCore DEF SameCore
    <2> QED BY <2>1 DEF db_entry_actually_delete, Db
  <1> HIDE DEF d2
  <1> QED BY <1>1, <1>2 DEF db_entry_handle_softdelete, d1, d2

\* What a PUT finds, and leaves to be found.
Writes(d, q, p, e) ==
    \/ q.ret = Null /\ Shrinks(d, q.db)
    \/ /\ q.ret = e /\ LookAt(d, p, TRUE) = Null
       /\ \E m \in Db : Named(m) /\ Inserted(d, m, p, e) /\ Shrinks(m, q.db)

\* db_entry_get_write.
LEMMA GetWriteView ==
    ASSUME NEW d, NEW H, NEW U, Sound(d, H, U), Named(d), NEW t \in TableIds, NEW k \in Keys,
           NEW time, NEW e \in EntryIds, ~ d.ents[e].live, NEW n \in TableNames,
           d.tables[n] = t, NEW q, q = db_entry_get_write(d, t, k, time, e)
    PROVE  Writes(d, q, <<n, k>>, e)
  <1> DEFINE old == d.tabs[t].slot[KeyHash[k]]
             first == Entries(d, t) = {}
             ins == (d.inserts + 1) % LruEvery
             d1  == [d EXCEPT !.inserts = ins]
             d2  == IF old = Null THEN [d1 EXCEPT !.keys = @ + 1]
                    ELSE db_entry_handle_softdelete(d1, old)
             refs == IF first THEN d2.tabs[t].refs + 1 ELSE d2.tabs[t].refs
             d3  == NewKey(d2, e, t, k, refs)
             d4  == db_lru_gc(d3, time)
             p   == <<n, k>>
  <1>1. d \in Db
    BY DEF Sound, Base
  <1>2. old \in EntryIds \cup {Null}
    BY <1>1, DbFields DEF Hashes, Ptr
  <1>3. SlotAt(d, p) = old /\ p[2] = k
    BY DbAssumption DEF SlotAt
  <1> HIDE DEF old, p
  <1>4. SameCore(d, d1)
    <2>1. d.inserts \in 0 .. LruEvery - 1 /\ LruEvery \in Nat \ {0}
      BY <1>1, DbAssumption DEF Db
    <2>2. ins \in 0 .. LruEvery - 1
      BY <2>1
    <2> HIDE DEF ins
    <2> QED BY <1>1, <2>2 DEF Db, SameCore, SameEntry
  <1>5. d1 \in Db /\ Sound(d1, H, U) /\ Shrinks(d, d1) /\ d1.tables = d.tables
    BY <1>1, <1>4, CoreSound, CoreShrinks DEF SameCore
  <1> HIDE DEF d1
  <1>6. Sound(d2, H, U) /\ Shrinks(d1, d2) /\ d2.tables = d1.tables
    <2>1. CASE old = Null
      <3>1. SameCore(d1, d2)
        BY <1>5, <2>1, KeysCore
      <3> HIDE DEF d2
      <3> QED BY <1>5, <3>1, CoreSound, CoreShrinks DEF SameCore
    <2>2. CASE old # Null
      <3>1. old \in EntryIds
        BY <1>2, <2>2
      <3>2. d2 = db_entry_handle_softdelete(d1, old)
        BY <2>2
      <3> HIDE DEF d2
      <3> QED BY <1>5, <3>1, <3>2, SoftDelete, SoftDeleteShrinks, SoftDeleteTables
    <2> QED BY <2>1, <2>2
  <1>7. Shrinks(d, d2) /\ d2 \in Db /\ SlotsLive(d2) /\ d2.tables[n] = t
    BY <1>5, <1>6, ShrinksTrans, SoundLive
  <1>8. q = IF old # Null /\ d.ents[old].writing THEN Return(d1, Null)
            ELSE Return(IF ins = 0 THEN d4 ELSE d3, e)
    <2> DEFINE g == [d2 EXCEPT !.ents[e] = [DeadEntry EXCEPT !.live = TRUE, !.tab = t,
                                              !.key = k, !.refs = 1, !.writing = TRUE],
                              !.tabs[t].slot[KeyHash[k]] = e,
                              !.tabs[t].refs = IF first THEN @ + 1 ELSE @]
    <2>1. g = d3
      <3> HIDE DEF d2, first
      <3>1. d2.tabs \in [TableIds -> Table] /\ d2.tabs[t] \in Table
        BY <1>7 DEF Db
      <3> DEFINE s == [d2.tabs[t].slot EXCEPT ![KeyHash[k]] = e]
      <3>2. [d2.tabs[t] EXCEPT !.slot = s].refs = d2.tabs[t].refs
        BY <3>1 DEF Table
      <3> QED BY <1>7, <3>1, <3>2 DEF NewKey, Db
    <2>2. q = IF old # Null /\ d.ents[old].writing THEN Return(d1, Null)
              ELSE Return(IF ins = 0 THEN db_lru_gc(g, time) ELSE g, e)
      BY Zenon DEF db_entry_get_write, d1, old
    <2> HIDE DEF g, d3
    <2> QED BY <2>1, <2>2
  <1> HIDE DEF d2
  <1>9. refs \in Int
    BY <1>7, DbFields
  <1> HIDE DEF refs
  <1>10. d3 \in Db /\ Named(d3) /\ Inserted(d, d3, p, e)
    BY <1>1, <1>7, <1>9, NewKeyView DEF p
  <1> HIDE DEF d3
  <1>11. Shrinks(d3, d4) /\ Shrinks(d3, d3)
    BY <1>10, GcShrinks, ShrinksRefl
  <1> HIDE DEF d4, ins
  <1>12. CASE old # Null /\ d.ents[old].writing
    <2>1. q = Return(d1, Null)
      BY <1>8, <1>12
    <2> QED BY <1>5, <2>1 DEF Writes, Return
  <1>13. CASE ~ (old # Null /\ d.ents[old].writing)
    <2>1. q = Return(d4, e) \/ q = Return(d3, e)
      BY <1>8, <1>13
    <2>2. q.ret = e /\ Shrinks(d3, q.db)
      BY <1>11, <2>1 DEF Return
    <2>3. LookAt(d, p, TRUE) = Null
      <3>1. old # Null => d.ents[old].writing # TRUE
        BY <1>13
      <3> QED BY <1>3, <3>1, LookSlot
    <2> QED BY <1>10, <2>2, <2>3 DEF Writes, p
  <1> QED BY <1>12, <1>13

\* A step that begins an upload, unless the garbage collection of the same step
\* has removed it.
LEMMA BeginStep ==
    ASSUME NEW p \in Places, NEW e \in EntryIds, NEW m, Inserted(db, m, p, e), Hides(m, db'),
           LookAt(db, p, TRUE) = Null,
           \A y \in Places, w \in BOOLEAN : LookAt(db, y, w) # e,
           \A b \in Conns : SentTo(conn[b]) # e,
           \A b \in Conns : SentTo(conn'[b]) = SentTo(conn[b])
    PROVE  Seen!Next
  <1> DEFINE value  == [y \in Places |-> EntryAt(y, FALSE)]
             upload == [y \in Places |-> EntryAt(y, TRUE)]
             sent   == [b \in Conns |-> IF conn[b].kind = "GET" THEN conn[b].ent ELSE Null]
  <1>1. \A y \in Places \ {p} : \/ \A w \in BOOLEAN : LookAt(db', y, w) = LookAt(db, y, w)
                                \/ \A w \in BOOLEAN : LookAt(db', y, w) = Null
    BY DEF Inserted, Hides
  <1>2. CASE \A w \in BOOLEAN : LookAt(db', p, w) = Null
    <2>1. Hides(db, db')
      BY <1>1, <1>2 DEF Hides
    <2> QED BY <2>1, RemoveStep
  <1>3. CASE ~ \A w \in BOOLEAN : LookAt(db', p, w) = Null
    <2>1. LookAt(db', p, TRUE) = e /\ LookAt(db', p, FALSE) = Null
      BY <1>3 DEF Hides, Inserted
    <2>2. \E gone \in SUBSET Places : p \notin gone /\ \A y \in Places \ {p}, w \in BOOLEAN :
              LookAt(db', y, w) = IF y \in gone THEN Null ELSE LookAt(db, y, w)
      <3> DEFINE hidden == {y \in Places \ {p} : \A w \in BOOLEAN : LookAt(db', y, w) = Null}
      <3>1. hidden \in SUBSET Places /\ p \notin hidden
        OBVIOUS
      <3>2. \A y \in Places \ {p}, w \in BOOLEAN :
                LookAt(db', y, w) = IF y \in hidden THEN Null ELSE LookAt(db, y, w)
        BY <1>1
      <3> QED BY <3>1, <3>2
    <2>3. PICK gone \in SUBSET Places : p \notin gone /\ \A y \in Places \ {p}, w \in BOOLEAN :
              LookAt(db', y, w) = IF y \in gone THEN Null ELSE LookAt(db, y, w)
      BY <2>2
    <2>4. \A y \in Places :
              /\ EntryAt(y, FALSE)' = IF y \in gone \cup {p} THEN Null ELSE EntryAt(y, FALSE)
              /\ EntryAt(y, TRUE)' = IF y = p THEN e ELSE IF y \in gone THEN Null ELSE EntryAt(y, TRUE)
      <3> SUFFICES ASSUME NEW y \in Places
                   PROVE  /\ EntryAt(y, FALSE)' = IF y \in gone \cup {p} THEN Null ELSE EntryAt(y, FALSE)
                          /\ EntryAt(y, TRUE)' = IF y = p THEN e
                                                 ELSE IF y \in gone THEN Null ELSE EntryAt(y, TRUE)
        OBVIOUS
      <3>1. /\ EntryAt(y, FALSE) = LookAt(db, y, FALSE) /\ EntryAt(y, FALSE)' = LookAt(db', y, FALSE)
            /\ EntryAt(y, TRUE) = LookAt(db, y, TRUE) /\ EntryAt(y, TRUE)' = LookAt(db', y, TRUE)
        BY Looks
      <3>2. CASE y = p
        BY <2>1, <3>1, <3>2
      <3>3. CASE y # p
        <4>1. /\ LookAt(db', y, FALSE) = IF y \in gone THEN Null ELSE LookAt(db, y, FALSE)
              /\ LookAt(db', y, TRUE) = IF y \in gone THEN Null ELSE LookAt(db, y, TRUE)
          BY <2>3, <3>3
        <4> QED BY <3>1, <3>3, <4>1
      <3> QED BY <3>2, <3>3
    <2>5. value' = Seen!Without(value, gone \cup {p})
      BY <2>4 DEF Seen!Without
    <2>6. upload' = [Seen!Without(upload, gone) EXCEPT ![p] = e]
      BY <2>4 DEF Seen!Without
    <2>7. sent' = sent
      BY DEF SentTo
    <2>8. upload[p] = Null
      BY Looks
    <2>9. e \notin {value[y] : y \in Places} \cup {upload[y] : y \in Places} \cup {sent[b] : b \in Conns}
      BY Looks DEF SentTo
    <2>10. e \notin Seen!InUse
      BY <2>9 DEF Seen!InUse
    <2>11. Seen!Begin(p, e, gone)
      BY <2>5, <2>6, <2>7, <2>8, <2>10 DEF Seen!Begin
    <2> QED BY <2>11 DEF Seen!Next
  <1> QED BY <1>2, <1>3

\* Entries that can be found or are being sent are in memory.
LEMMA FreshUnseen ==
    ASSUME SInv, NEW e \in EntryIds, ~ db.ents[e].live
    PROVE  /\ \A y \in Places, w \in BOOLEAN : LookAt(db, y, w) # e
           /\ \A b \in Conns : SentTo(conn[b]) # e
  <1>1. e # Null
    BY DbAssumption
  <1>2. ASSUME NEW y \in Places, NEW w \in BOOLEAN, LookAt(db, y, w) = e PROVE FALSE
    <2>1. SlotAt(db, y) = e
      BY <1>1, <1>2, LookSlot
    <2> QED BY <1>1, <2>1, SlotSound DEF SInv
  <1>3. ASSUME NEW b \in Conns, SentTo(conn[b]) = e PROVE FALSE
    BY <1>1, <1>3, ConnFields DEF SentTo, ConnOK
  <1> QED BY <1>2, <1>3

\* A lookup that finds nothing releases the table.
LEMMA NotFoundRefines ==
    ASSUME Around, NEW c \in Conns, NEW x, x = conn[c], x.at = "url", Runs(c),
           NEW q, q.ret = Null, Shrinks(db, q.db), NEW fd \in BOOLEAN, NEW writing \in BOOLEAN,
           Step(c, db_table_deref(q.db, x.tab, FALSE), Found(x, Null, Null, fd, writing))
    PROVE  Refines
  <1> DEFINE d == db_table_deref(q.db, x.tab, FALSE)
             r == Found(x, Null, Null, fd, writing)
  <1>1. x \in Conn /\ x.tab \in TableIds /\ SentTo(x) = Null
    BY ConnFields, IdleSent DEF Around, ConnOK
  <1>2. q.db \in Db
    BY DEF Shrinks
  <1>3. Shrinks(q.db, d)
    BY <1>1, <1>2, TableDerefShrinks
  <1>4. FoundOK(r, x, Null, Null, writing)
    BY <1>1, FoundConn
  <1>5. Step(c, d, r)
    OBVIOUS
  <1> HIDE DEF d, r
  <1>6. r.at # "url" /\ SentTo(r) = Null
    BY <1>4 DEF FoundOK, SentTo
  <1>7. Shrinks(db, d)
    BY <1>3, ShrinksTrans
  <1> QED BY <1>1, <1>5, <1>6, <1>7, ShrinkStep

\* What a lookup does, to the request of x for a key k of the table called n.
Seeks(x, q, n, k) ==
    \/ q.ret = Null /\ Shrinks(db, q.db)
    \/ x.kind = "DELETE" /\ q.ret \in EntryIds /\ Shrinks(db, q.db)
    \/ x.kind = "GET" /\ q.ret \in EntryIds /\ Reads(db, q, x.tab, k)
    \/ x.kind = "PUT" /\ q.ret \in EntryIds /\ Writes(db, q, <<n, k>>, q.ret)
       /\ ~ db.ents[q.ret].live

\* The three lookups are steps of the cache.
LEMMA SeekRefines ==
    ASSUME Around, NEW c \in Conns, NEW x, x = conn[c], x.at = "url", Runs(c),
           NEW n \in TableNames, db.tables[n] = x.tab, NEW k \in Keys,
           NEW q, Seeks(x, q, n, k),
           NEW d, d = IF q.ret = Null THEN db_table_deref(q.db, x.tab, FALSE) ELSE q.db,
           NEW fd \in BOOLEAN, NEW writing \in BOOLEAN,
           Step(c, d, Found(x, q.ret, IF q.ret = Null THEN Null ELSE k, fd, writing))
    PROVE  Refines
  <1> DEFINE e == q.ret
             r == Found(x, e, k, fd, writing)
             p == <<n, k>>
  <1>1. x \in Conn /\ x.tab \in TableIds /\ x.tab # Null /\ SentTo(x) = Null /\ db \in Db /\ Named(db)
    BY ConnFields, IdleSent DEF Around, ConnOK, RInv
  <1>2. CASE e = Null
    <2>1. Shrinks(db, q.db)
      BY <1>2, DbAssumption DEF Seeks
    <2>2. Step(c, db_table_deref(q.db, x.tab, FALSE), Found(x, Null, Null, fd, writing))
      BY <1>2
    <2> QED BY <1>2, <2>1, <2>2, NotFoundRefines
  <1>3. CASE e # Null
    <2>1. e \in EntryIds /\ Step(c, q.db, r)
      BY <1>3 DEF Seeks
    <2>2. FoundOK(r, x, e, k, writing)
      BY <1>1, <2>1, FoundConn
    <2> HIDE DEF r
    <2>3. r.at # "url" /\ r.kind = x.kind /\ r.ent = e
      BY <2>2 DEF FoundOK
    <2>4. p \in Places /\ p[1] = n /\ p[2] = k
      BY DEF Places
    <2>5. CASE x.kind = "DELETE"
      <3>1. SentTo(r) = Null
        BY <2>3, <2>5 DEF SentTo
      <3>2. Shrinks(db, q.db)
        BY <1>3, <2>5 DEF Seeks
      <3> QED BY <1>1, <2>1, <2>3, <3>1, <3>2, ShrinkStep
    <2>6. CASE x.kind = "GET"
      <3>1. Reads(db, q, x.tab, k)
        BY <1>3, <2>6 DEF Seeks
      <3>2. /\ e = db.tabs[x.tab].slot[KeyHash[k]]
            /\ db.ents[e].key = k /\ db.ents[e].writing = FALSE
            /\ q.db \in Db /\ SameView(db, q.db) /\ Named(q.db)
        BY SMTT(60), <1>1, <1>3, <3>1 DEF Reads
      <3>3. SlotAt(db, p) = e
        BY ZenonT(60), <1>1, <2>4, <3>2 DEF SlotAt
      <3>4. LookAt(db, p, FALSE) = e
        BY ZenonT(60), <1>3, <2>4, <3>2, <3>3, LookSlot
      <3>5. SameView(q.db, db') /\ conn'[c] = r /\ \A b \in Conns \ {c} : conn'[b] = conn[b]
        BY ZenonT(60), <2>1, <3>2, StepView DEF Around
      <3>6. SameView(db, db')
        BY Zenon, <3>2, <3>5 DEF SameView
      <3>7. SentTo(r) = e
        BY <2>3, <2>6 DEF SentTo
      <3>8. Seen!Next
        BY Zenon, <1>1, <2>1, <2>4, <3>4, <3>5, <3>6, <3>7, ServeStep
      <3>9. RInv'
        BY Zenon, <2>1, <2>3, <3>2, StepNamed DEF Around
      <3> QED BY <3>8, <3>9 DEF Refines
    <2>7. CASE x.kind = "PUT"
      <3>1. Writes(db, q, p, e) /\ ~ db.ents[e].live
        BY <1>3, <2>7 DEF Seeks
      <3>2. LookAt(db, p, TRUE) = Null
            /\ \E m \in Db : Named(m) /\ Inserted(db, m, p, e) /\ Shrinks(m, q.db)
        BY <1>3, <3>1 DEF Writes
      <3> HIDE DEF p
      <3>3. PICK m \in Db : Named(m) /\ Inserted(db, m, p, e) /\ Shrinks(m, q.db)
        BY <3>2
      <3>4. q.db \in Db /\ Named(q.db)
        BY <3>3 DEF Shrinks
      <3>5. Shrinks(q.db, db') /\ conn'[c] = r /\ \A b \in Conns \ {c} : conn'[b] = conn[b]
        BY <2>1, <3>4, StepView DEF Around
      <3>6. SlotsLive(db')
        BY SoundLive DEF Around, SInv
      <3>7. Hides(m, db')
        BY <3>3, <3>5, <3>6, ShrinksTrans, ShrinksHides
      <3>8. SentTo(r) = Null
        BY <2>3, <2>7 DEF SentTo
      <3>9. \A b \in Conns : SentTo(conn'[b]) = SentTo(conn[b])
        BY <1>1, <3>5, <3>8
      <3>10. /\ \A y \in Places, w \in BOOLEAN : LookAt(db, y, w) # e
             /\ \A b \in Conns : SentTo(conn[b]) # e
        BY <2>1, <3>1, FreshUnseen DEF Around
      <3>11. Seen!Next
        BY <2>1, <2>4, <3>2, <3>3, <3>7, <3>9, <3>10, BeginStep
      <3>12. RInv'
        BY <2>1, <2>3, <3>4, StepNamed DEF Around
      <3> QED BY <3>11, <3>12 DEF Refines
    <2> QED BY <1>3, <2>5, <2>6, <2>7 DEF Seeks
  <1> QED BY <1>2, <1>3

\* db_entry_get_delete.
LEMMA GetDeleteShrinks ==
    ASSUME NEW d \in Db, NEW t \in TableIds, NEW k \in Keys,
           NEW q, q = db_entry_get_delete(d, t, k)
    PROVE  q.ret \in EntryIds \cup {Null} /\ Shrinks(d, q.db)
  <1> DEFINE e == d.tabs[t].slot[KeyHash[k]]
  <1>1. e \in EntryIds \cup {Null}
    BY DbFields DEF Hashes, Ptr
  <1>2. \/ q.ret = Null /\ q.db = d
        \/ e # Null /\ q.ret = e /\ q.db = db_entry_incref(d, e, FALSE)
    BY DEF db_entry_get_delete, Return
  <1> HIDE DEF e
  <1> QED BY <1>1, <1>2, ShrinksRefl, EntryIncrefShrinks

\* http_key_lookup.
LEMMA KeyLookupRefines ==
    ASSUME Around, NEW c \in Conns, NEW k \in Keys, KeyLookup(c, k)
    PROVE  Refines
  <1> DEFINE x == conn[c]
             q == CASE x.kind = "GET"    -> db_entry_get_read(db, x.tab, k, now)
                    [] x.kind = "PUT"    -> db_entry_get_write(db, x.tab, k, now, Min(FreshEntries))
                    [] x.kind = "DELETE" -> db_entry_get_delete(db, x.tab, k)
             d == IF q.ret = Null THEN db_table_deref(q.db, x.tab, FALSE) ELSE q.db
             fd == Opens(x, q.db, q.ret)
             writing == x.kind = "PUT" /\ q.ret # Null
             r == Found(x, q.ret, IF q.ret = Null THEN Null ELSE k, fd, writing)
  <1>1. /\ x.at = "url" /\ x.kind # "PURGE" /\ Runs(c) /\ db \in Db /\ x.tab \in TableIds
        /\ x.tab # Null /\ x.kind \in KeyKinds /\ Named(db)
        /\ Sound(db, HoldCount(conn), UseCount(conn, db))
    BY ConnFields DEF Around, KeyLookup, ConnOK, RInv
  <1>2. PICK n \in TableNames : db.tables[n] = x.tab
    BY <1>1 DEF Around, RInv
  <1>3. ~ Unusable(db, x.tab)
    BY <1>1, <1>2 DEF Named
  <1>4. x.kind = "PUT" => FreshEntries # {}
    BY <1>3 DEF KeyLookup
  <1>5. Step(c, d, r)
    BY <1>3, ZenonT(60) DEF KeyLookup, Found
  <1>6. x.kind \in {"GET", "PUT", "DELETE"}
    BY <1>1 DEF KeyKinds
  <1>7. fd \in BOOLEAN /\ writing \in BOOLEAN
    BY DEF Opens
  <1>8. d = IF q.ret = Null THEN db_table_deref(q.db, x.tab, FALSE) ELSE q.db
    BY SMTT(60)
  <1>9. Step(c, d, Found(x, q.ret, IF q.ret = Null THEN Null ELSE k, fd, writing))
    BY <1>5
  <1> HIDE DEF r, d, fd, writing
  <1>10. Seeks(x, q, n, k)
    <2> HIDE DEF x
    <2>1. CASE x.kind = "GET"
      <3>1. q = db_entry_get_read(db, x.tab, k, now)
        BY <2>1
      <3> HIDE DEF q
      <3>2. Reads(db, q, x.tab, k)
        BY <1>1, <3>1, GetReadView
      <3>3. (q.ret = Null /\ Shrinks(db, q.db)) \/ q.ret \in EntryIds
        BY <3>2 DEF Reads
      <3> QED BY <2>1, <3>2, <3>3 DEF Seeks
    <2>2. CASE x.kind = "PUT"
      <3> DEFINE e == Min(FreshEntries)
      <3>1. q = db_entry_get_write(db, x.tab, k, now, e)
        BY <2>2
      <3>2. e \in EntryIds /\ ~ db.ents[e].live
        BY <1>4, <2>2, FreshEntry DEF Around
      <3> HIDE DEF q, e
      <3>3. Writes(db, q, <<n, k>>, e)
        BY <1>1, <1>2, <3>1, <3>2, GetWriteView
      <3>4. (q.ret = Null /\ Shrinks(db, q.db)) \/ q.ret = e
        BY <3>3 DEF Writes
      <3> QED BY <2>2, <3>2, <3>3, <3>4 DEF Seeks
    <2>3. CASE x.kind = "DELETE"
      <3>1. q = db_entry_get_delete(db, x.tab, k)
        BY <2>3
      <3> HIDE DEF q
      <3> QED BY <1>1, <2>3, <3>1, GetDeleteShrinks DEF Seeks
    <2> QED BY <1>6, <2>1, <2>2, <2>3
  <1> HIDE DEF q
  <1> QED BY <1>1, <1>2, <1>7, <1>8, <1>9, <1>10, SeekRefines

-----------------------------------------------------------------------------
(* The theorem *)

\* A step that leaves database and connections alone.
LEMMA StutterRefines ==
    ASSUME RInv, UNCHANGED <<db, conn>>
    PROVE  UNCHANGED Seen!cache /\ RInv'
  <1>1. db' = db /\ conn' = conn
    OBVIOUS
  <1>2. RInv'
    BY <1>1 DEF RInv, Named, Unusable
  <1>3. \A x \in Places : EntryAt(x, FALSE)' = EntryAt(x, FALSE) /\ EntryAt(x, TRUE)' = EntryAt(x, TRUE)
    BY <1>1, Looks
  <1>4. [x \in Places |-> EntryAt(x, FALSE)]' = [x \in Places |-> EntryAt(x, FALSE)]
    BY <1>3
  <1>5. [x \in Places |-> EntryAt(x, TRUE)]' = [x \in Places |-> EntryAt(x, TRUE)]
    BY <1>3
  <1>6. UNCHANGED [c \in Conns |-> IF conn[c].kind = "GET" THEN conn[c].ent ELSE Null]
    BY <1>1
  <1> QED BY <1>2, <1>4, <1>5, <1>6 DEF Seen!cache

\* Every step of the server is a step of the cache, or leaves it alone.
LEMMA NextRefines ==
    ASSUME SInv, SInv', RInv, SplitHead = FALSE, [Next]_vars
    PROVE  [Seen!Next]_(Seen!cache) /\ RInv'
  <1>1. Around
    BY DEF Around
  <1>2. CASE UNCHANGED vars \/ Tick
    BY <1>2, StutterRefines DEF vars, Tick
  <1>3. ASSUME NEW c \in Conns, NEW kind \in Kinds, NEW n \in TableNames,
               KeyRequest(c, kind, n) \/ TableRequest(c, kind, n)
        PROVE  Refines
    BY <1>1, <1>3, KeyRequestRefines, TableRequestRefines
  <1>4. ASSUME NEW c \in Conns, NEW k \in Keys, KeyLookup(c, k) \/ XDelete(c, k)
        PROVE  Refines
    BY <1>1, <1>4, KeyLookupRefines, XDeleteRefines
  <1>5. ASSUME NEW c \in Conns, NEW len \in Lengths, ContentLength(c, len) PROVE Refines
    BY <1>1, <1>5, ContentLengthRefines
  <1>6. ASSUME NEW c \in Conns, NEW ttl \in Ttls, XTtl(c, ttl) PROVE Refines
    BY <1>1, <1>6, XTtlRefines
  <1>7. ASSUME NEW c \in Conns, AdminGc(c) \/ EndDelete(c) \/ EndDrop(c) \/ EndDropFreed(c)
                                \/ BodyDone(c) \/ ListStep(c) \/ Cleanup(c)
        PROVE  Refines
    BY <1>1, <1>7, AdminGcRefines, EndDeleteRefines, EndDropRefines, EndDropFreedRefines,
       BodyDoneRefines, ListStepRefines, CleanupRefines
  <1>8. ASSUME NEW c \in Conns, EndPut(c) \/ EndGet(c) \/ EndList(c) \/ EndBulk(c)
                                \/ HeadRefused(c) \/ BodyFailed(c) \/ KeyRefused(c)
        PROVE  Refines
    BY <1>1, <1>8, QuietRefines
  <1>9. Refines \/ UNCHANGED vars \/ Tick
    BY <1>3, <1>4, <1>5, <1>6, <1>7, <1>8 DEF Next
  <1>10. CASE Refines
    BY <1>10 DEF Refines
  <1> QED BY <1>2, <1>9, <1>10

\* The empty database is the empty cache.
LEMMA InitRefines == Init => Seen!Init /\ RInv
  <1> SUFFICES ASSUME Init PROVE Seen!Init /\ RInv
    OBVIOUS
  <1>1. \A n \in TableNames : db.tables[n] = Null
    BY DEF Init, EmptyDb
  <1>2. \A c \in Conns : conn[c].at = "idle" /\ conn[c].kind = "GET" /\ conn[c].ent = Null
    BY DEF Init, Closed
  <1>3. RInv
    BY SMTT(60), <1>1, <1>2 DEF RInv, Named
  <1>4. \A x \in Places : EntryAt(x, FALSE) = Null /\ EntryAt(x, TRUE) = Null
    BY Zenon, <1>1, PlaceParts DEF EntryAt
  <1>5. /\ [x \in Places |-> EntryAt(x, FALSE)] = [x \in Places |-> Null]
        /\ [x \in Places |-> EntryAt(x, TRUE)] = [x \in Places |-> Null]
    BY <1>4
  <1>6. [c \in Conns |-> IF conn[c].kind = "GET" THEN conn[c].ent ELSE Null] = [c \in Conns |-> Null]
    BY <1>2
  <1> QED BY <1>3, <1>5, <1>6 DEF Seen!Init

\* CacheServer implements Cache: whatever the clients send, and whatever is
\* evicted, expires, is replaced or dropped meanwhile, a GET gets the complete
\* value the key has at that moment, a PUT is seen when it is complete and only
\* then, and no deleted or cancelled value is seen again; for every number of
\* connections, tables, keys and entries, when request heads are not split.
THEOREM CacheRefined == ASSUME SplitHead = FALSE PROVE Spec => CacheSpec
  <1>1. Init => Seen!Init /\ RInv
    BY InitRefines
  <1>2. SInv /\ SInv' /\ RInv /\ [Next]_vars => [Seen!Next]_(Seen!cache) /\ RInv'
    BY NextRefines
  <1>3. Spec => []SInv
    BY Invariant
  <1> QED BY <1>1, <1>2, <1>3, PTL DEF Spec, CacheSpec, Seen!Spec

-----------------------------------------------------------------------------
(* The bookkeeping of a database.                                          *)

\* The entries that are keys, and those whose value is complete.
Kept(d) == {e \in EntryIds : d.ents[e].live /\ ~ d.ents[e].deleted}
Complete(d) == {e \in Kept(d) : ~ d.ents[e].writing}

Nexts(d) == [e \in EntryIds |-> d.ents[e].lru_next]
Prevs(d) == [e \in EntryIds |-> d.ents[e].lru_prev]
Lens(d)  == [e \in EntryIds |-> d.ents[e].len]

\* The LRU list is a list of the complete keys.
ListOK(d) == \E p : List(Complete(d), Nexts(d), Prevs(d), d.lru_head, d.lru_tail, p)

\* A key is at its place in the hash set of its table, which can be used.
AtHome(d, e) ==
    LET x == d.ents[e]
    IN  /\ x.tab \in TableIds /\ x.key \in Keys /\ ~ Unusable(d, x.tab)
        /\ d.tabs[x.tab].slot[KeyHash[x.key]] = e

\* What is in a hash set is a key of its table, at its place.
SlotHolds(d, t, h) ==
    LET e == d.tabs[t].slot[h]
    IN  e # Null => e \in Kept(d) /\ d.ents[e].tab = t /\ KeyHash[d.ents[e].key] = h

\* The server runs in a way in which counters, or files, are exact.
Counted == /\ SplitHead = FALSE /\ RepeatLength = FALSE /\ "DROP" \notin Requests
           /\ \A len \in Lengths : len < LenWrap
Filed   == /\ SplitHead = FALSE /\ RepeatLength = FALSE
           /\ "DELETE" \in Requests => \A len \in Lengths : len <= BlockLength

\* k keys that are gone are still counted.
CountOK(d, k) ==
    Counted => /\ d.keys = Cardinality(Kept(d)) + k
               /\ d.size = SumOver(Lens(d), Kept(d))

\* A key has a file when its value is longer than a block, nothing else has one.
FilesOK(d) ==
    Filed => /\ \A e \in EntryIds : d.ents[e].file <=> e \in Kept(d) /\ IsFile(d, e)
             /\ ~ d.orphan

\* Without X-Ttl no key expires; the length of a value is one that was given,
\* and 0 while nothing is allocated for it.
ValuesOK(d) ==
    \A e \in Kept(d) : /\ Ttls = {} => d.ents[e].exp = 0
                       /\ d.ents[e].len \in Lengths \cup {0}
                       /\ d.ents[e].block = NewEntry => d.ents[e].len = 0

Fine(d, k) ==
    /\ d \in Db /\ k \in Int
    /\ ListOK(d)
    /\ \A e \in Kept(d) : AtHome(d, e)
    /\ \A t \in TableIds, h \in Hashes : SlotHolds(d, t, h)
    /\ CountOK(d, k) /\ FilesOK(d) /\ ValuesOK(d)

\* The links of a database in order are what db_validate_lru asserts.
LEMMA ChainExact == ASSUME db \in Db, ListOK(db) PROVE LruExact
  <1> DEFINE L == Complete(db)
             N == Nexts(db)
             P == Prevs(db)
             K == Cardinality(EntryIds)
             Eq(a) == a = [n \in 0 .. K |->
                             IF n = 0 THEN {db.lru_head}
                             ELSE a[n - 1] \cup {db.ents[e].lru_next : e \in a[n - 1] \ {Null}}]
             after == CHOOSE a : Eq(a)
  <1>1. PICK p : List(L, N, P, db.lru_head, db.lru_tail, p)
    BY DEF ListOK
  <1> DEFINE w == [n \in 0 .. K |-> Upto(L, p, n)]
  <1>2. L \subseteq EntryIds /\ K \in Nat
    BY DbAssumption, FS_CardinalityType DEF Complete, Kept
  <1> HIDE DEF L, K
  <1>3. /\ Upto(L, p, 0) = {db.lru_head}
        /\ \A n \in Nat \ {0} : Upto(L, p, n) =
             Upto(L, p, n - 1) \cup {N[e] : e \in Upto(L, p, n - 1) \ {Null}}
        /\ Upto(L, p, K) \ {Null} = L
    <2> HIDE DEF N, P
    <2> QED BY <1>1, ListReached DEF K
  <1>4. \A n : Upto(L, p, n) \ {Null} \subseteq L
    BY DEF Upto
  <1>5. \A n \in Nat \ {0} : {N[e] : e \in Upto(L, p, n - 1) \ {Null}} =
                             {db.ents[e].lru_next : e \in Upto(L, p, n - 1) \ {Null}}
    <2> SUFFICES ASSUME NEW n \in Nat \ {0}
                 PROVE  {N[e] : e \in Upto(L, p, n - 1) \ {Null}} =
                             {db.ents[e].lru_next : e \in Upto(L, p, n - 1) \ {Null}}
      OBVIOUS
    <2>1. \A e \in Upto(L, p, n - 1) \ {Null} : N[e] = db.ents[e].lru_next
      BY <1>2, <1>4 DEF Nexts
    <2> HIDE DEF N
    <2> QED BY <2>1
  <1> HIDE DEF N
  <1>6. \A n \in 0 .. K : /\ n = 0 => w[n] = {db.lru_head}
                          /\ n # 0 => w[n] = w[n - 1] \cup {db.ents[e].lru_next : e \in w[n - 1] \ {Null}}
    <2> SUFFICES ASSUME NEW n \in 0 .. K
                 PROVE  /\ n = 0 => w[n] = {db.lru_head}
                        /\ n # 0 => w[n] = w[n - 1] \cup {db.ents[e].lru_next : e \in w[n - 1] \ {Null}}
      OBVIOUS
    <2>1. w[n] = Upto(L, p, n)
      OBVIOUS
    <2>2. CASE n = 0
      BY <1>3, <2>1, <2>2
    <2>3. CASE n # 0
      <3>1. n \in Nat \ {0} /\ n - 1 \in 0 .. K
        BY <1>2, <2>3
      <3>2. w[n - 1] = Upto(L, p, n - 1)
        BY <3>1
      <3> HIDE DEF w
      <3> QED BY <1>3, <1>5, <2>1, <2>3, <3>1, <3>2
    <2> QED BY <2>2, <2>3
  <1>7. Eq(w)
    BY <1>6
  <1>8. Eq(after)
    BY <1>7, Zenon
  <1>9. w[K] = Upto(L, p, K)
    BY <1>2
  <1> HIDE DEF after, w
  <1>10. after[K] = w[K]
    <2> DEFINE T == {n \in 0 .. K : after[n] # w[n]}
    <2>1. T = {}
      <3> SUFFICES ASSUME T # {} PROVE FALSE
        OBVIOUS
      <3>1. T \in SUBSET Nat
        BY <1>2
      <3>2. PICK n \in T : \A m \in T : n <= m
        <4> HIDE DEF T
        <4> QED BY <3>1, Least
      <3>3. n \in 0 .. K /\ after[n] # w[n]
        OBVIOUS
      <3>4. n # 0
        BY <1>6, <1>8, <3>3
      <3>5. n - 1 \in 0 .. K
        BY <1>2, <3>3, <3>4
      <3>6. n - 1 \notin T
        <4>1. ~ (n <= n - 1)
          BY <1>2, <3>3
        <4> HIDE DEF T
        <4> QED BY <3>2, <4>1
      <3>7. after[n - 1] = w[n - 1]
        BY <3>5, <3>6
      <3>8. w[n] = w[n - 1] \cup {db.ents[e].lru_next : e \in w[n - 1] \ {Null}}
        BY <1>6, <3>3, <3>4
      <3>9. after[n] = after[n - 1] \cup {db.ents[e].lru_next : e \in after[n - 1] \ {Null}}
        BY <1>8, <3>3, <3>4
      <3> QED BY <3>3, <3>7, <3>8, <3>9
    <2> QED BY <1>2, <2>1
  <1>11. LruChain = after[K] \ {Null}
    BY DEF LruChain, after, K
  <1>12. LruChain = L
    BY <1>3, <1>9, <1>10, <1>11
  <1>13. L = {e \in Live : ~ db.ents[e].writing /\ ~ db.ents[e].deleted}
    BY DEF L, Complete, Kept, Live
  <1>14. /\ L # {} => db.lru_head \in L /\ db.lru_tail \in L /\ N[db.lru_tail] = Null /\ P[db.lru_head] = Null
         /\ L = {} => db.lru_tail = Null
         /\ \A e \in L : N[e] # Null => N[e] \in L /\ P[N[e]] = e
    <2> HIDE DEF P
    <2> QED BY <1>1, ListIndex
  <1>15. \A e \in L : N[e] = db.ents[e].lru_next /\ P[e] = db.ents[e].lru_prev
    BY <1>2 DEF N, Nexts, Prevs
  <1> HIDE DEF P
  <1> QED BY <1>12, <1>13, <1>14, <1>15 DEF LruExact

-----------------------------------------------------------------------------
(* What leaves the bookkeeping alone.                                      *)

\* What the bookkeeping reads of a key.
SameKey(d, r, e) ==
    /\ r.ents[e].tab = d.ents[e].tab /\ r.ents[e].key = d.ents[e].key
    /\ r.ents[e].writing = d.ents[e].writing /\ r.ents[e].len = d.ents[e].len
    /\ r.ents[e].lru_next = d.ents[e].lru_next /\ r.ents[e].lru_prev = d.ents[e].lru_prev
    /\ r.ents[e].block = d.ents[e].block
    /\ Ttls = {} => r.ents[e].exp = d.ents[e].exp

\* The table is as it was, or has no keys.
SameTable(d, r, t) ==
    \/ /\ r.tabs[t].live = d.tabs[t].live /\ r.tabs[t].deleted = d.tabs[t].deleted
       /\ r.tabs[t].slot = d.tabs[t].slot
    \/ /\ \A e \in Kept(d) : d.ents[e].tab # t
       /\ \A h \in Hashes : r.tabs[t].slot[h] \in {d.tabs[t].slot[h], Null}

Alike(d, r) ==
    /\ r \in Db /\ Kept(r) = Kept(d)
    /\ \A e \in Kept(d) : SameKey(d, r, e)
    /\ \A t \in TableIds : SameTable(d, r, t)
    /\ r.lru_head = d.lru_head /\ r.lru_tail = d.lru_tail
    /\ r.size = d.size /\ r.keys = d.keys
    /\ FilesOK(d) => FilesOK(r)

\* The members of a list and their links are all that matters.
LEMMA ListSame ==
    ASSUME NEW d \in Db, NEW r \in Db, ListOK(d), Complete(r) = Complete(d),
           \A e \in Complete(d) : r.ents[e].lru_next = d.ents[e].lru_next
                                  /\ r.ents[e].lru_prev = d.ents[e].lru_prev,
           r.lru_head = d.lru_head, r.lru_tail = d.lru_tail
    PROVE  ListOK(r)
  <1>1. PICK p : List(Complete(d), Nexts(d), Prevs(d), d.lru_head, d.lru_tail, p)
    BY DEF ListOK
  <1>2. \A e \in Complete(d) : Nexts(r)[e] = Nexts(d)[e] /\ Prevs(r)[e] = Prevs(d)[e]
    BY DEF Nexts, Prevs, Complete, Kept
  <1>3. List(Complete(r), Nexts(r), Prevs(r), r.lru_head, r.lru_tail, p)
    BY <1>1, <1>2 DEF List
  <1> QED BY <1>3 DEF ListOK

\* The lengths of the keys are all that matters to their sum.
LEMMA LensSame ==
    ASSUME NEW d \in Db, NEW r \in Db, NEW S \in SUBSET EntryIds,
           \A e \in S : r.ents[e].len = d.ents[e].len
    PROVE  SumOver(Lens(r), S) = SumOver(Lens(d), S)
  <1>1. Lens(d) \in [EntryIds -> Int] /\ Lens(r) \in [EntryIds -> Int]
    BY DbFields DEF Lens
  <1>2. \A e \in S : Lens(r)[e] = Lens(d)[e]
    BY DEF Lens
  <1> QED BY <1>1, <1>2, SumSame

\* What the bookkeeping does not read may change.
LEMMA AlikeFine ==
    ASSUME NEW d, NEW r, NEW k, Fine(d, k), Alike(d, r)
    PROVE  Fine(r, k)
  <1>1. d \in Db /\ r \in Db /\ k \in Int /\ Kept(r) = Kept(d) /\ Kept(d) \subseteq EntryIds
    BY DEF Fine, Alike, Kept
  <1>2. \A e \in Kept(d) : SameKey(d, r, e) /\ AtHome(d, e)
    BY DEF Fine, Alike
  <1>3. \A t \in TableIds : SameTable(d, r, t)
    BY DEF Alike
  <1>4. \A t \in TableIds, h \in Hashes : SlotHolds(d, t, h)
    BY DEF Fine
  <1>5. ListOK(r)
    <2>1. Complete(r) = Complete(d)
      BY <1>1, <1>2 DEF Complete, SameKey
    <2>2. \A e \in Complete(d) : r.ents[e].lru_next = d.ents[e].lru_next
                                 /\ r.ents[e].lru_prev = d.ents[e].lru_prev
      BY <1>2 DEF Complete, SameKey
    <2>3. ListOK(d) /\ r.lru_head = d.lru_head /\ r.lru_tail = d.lru_tail
      BY DEF Fine, Alike
    <2> QED BY <1>1, <2>1, <2>2, <2>3, ListSame
  <1>6. \A e \in Kept(r) : AtHome(r, e)
    <2> SUFFICES ASSUME NEW e \in Kept(d) PROVE AtHome(r, e)
      BY <1>1
    <2>1. AtHome(d, e) /\ r.ents[e].tab = d.ents[e].tab /\ r.ents[e].key = d.ents[e].key
      BY <1>2 DEF SameKey
    <2>2. SameTable(d, r, d.ents[e].tab)
      BY <1>3, <2>1 DEF AtHome
    <2> QED BY <2>1, <2>2 DEF AtHome, SameTable, Unusable
  <1>7. \A t \in TableIds, h \in Hashes : SlotHolds(r, t, h)
    <2> SUFFICES ASSUME NEW t \in TableIds, NEW h \in Hashes, r.tabs[t].slot[h] # Null
                 PROVE  SlotHolds(r, t, h)
      BY DEF SlotHolds
    <2>1. SlotHolds(d, t, h) /\ SameTable(d, r, t)
      BY <1>3, <1>4
    <2>2. r.tabs[t].slot[h] = d.tabs[t].slot[h]
      BY <2>1 DEF SameTable
    <2>3. d.tabs[t].slot[h] \in Kept(d)
      BY <2>1, <2>2 DEF SlotHolds
    <2> QED BY <1>1, <1>2, <2>1, <2>2, <2>3 DEF SlotHolds, SameKey
  <1>8. CountOK(r, k)
    <2>1. SumOver(Lens(r), Kept(d)) = SumOver(Lens(d), Kept(d))
      BY <1>1, <1>2, LensSame DEF SameKey
    <2> QED BY <1>1, <2>1 DEF CountOK, Fine, Alike
  <1>9. FilesOK(r)
    BY DEF Fine, Alike
  <1>10. ValuesOK(r)
    BY <1>1, <1>2 DEF Fine, ValuesOK, SameKey
  <1> QED BY <1>1, <1>5, <1>6, <1>7, <1>8, <1>9, <1>10 DEF Fine

-----------------------------------------------------------------------------
(* What the operations of the LRU list do to the links.                    *)

\* r differs from d in the links of the LRU list only.
ButLinks(d, r) ==
    /\ SameCore(d, r)
    /\ \A e \in EntryIds : r.ents[e].file = d.ents[e].file /\ r.ents[e].exp = d.ents[e].exp
    /\ r.size = d.size /\ r.keys = d.keys /\ r.orphan = d.orphan /\ r.fault = d.fault
    /\ r.inserts = d.inserts

\* Two changes of links.
LEMMA ButLinksTrans ==
    ASSUME NEW d, NEW r, NEW q, ButLinks(d, r), ButLinks(r, q)
    PROVE  ButLinks(d, q)
  <1>1. SameCore(d, q)
    BY SameCoreTrans DEF ButLinks
  <1> QED BY <1>1 DEF ButLinks

\* One link is set.
LEMMA SetNext ==
    ASSUME NEW d \in Db, NEW e \in EntryIds, NEW n \in Ptr
    PROVE  LET r == [d EXCEPT !.ents[e].lru_next = n]
           IN  /\ ButLinks(d, r) /\ r.lru_head = d.lru_head /\ r.lru_tail = d.lru_tail
               /\ \A f \in EntryIds : Nexts(r)[f] = IF f = e THEN n ELSE Nexts(d)[f]
               /\ Prevs(r) = Prevs(d) /\ r \in Db
  <1> DEFINE r == [d EXCEPT !.ents[e].lru_next = n]
             y == [d.ents[e] EXCEPT !.lru_next = n]
  <1>0. SameCore(d, r)
    BY SetLinks
  <1>1. d.ents \in [EntryIds -> Entry] /\ d.ents[e] \in Entry
    BY DEF Db
  <1>2. r.ents = [d.ents EXCEPT ![e] = y] /\ r.lru_head = d.lru_head /\ r.lru_tail = d.lru_tail
        /\ r.size = d.size /\ r.keys = d.keys /\ r.orphan = d.orphan /\ r.fault = d.fault
        /\ r.inserts = d.inserts
    BY DEF Db
  <1>3. y.lru_next = n /\ y.lru_prev = d.ents[e].lru_prev /\ y.file = d.ents[e].file
        /\ y.exp = d.ents[e].exp
    BY <1>1 DEF Entry
  <1> HIDE DEF r, y
  <1>4. \A f \in EntryIds : r.ents[f] = IF f = e THEN y ELSE d.ents[f]
    BY <1>1, <1>2
  <1>5. ButLinks(d, r)
    BY <1>0, <1>2, <1>3, <1>4 DEF ButLinks
  <1>6. (\A f \in EntryIds : Nexts(r)[f] = IF f = e THEN n ELSE Nexts(d)[f]) /\ Prevs(r) = Prevs(d)
    BY <1>3, <1>4 DEF Nexts, Prevs
  <1>7. r \in Db
    BY <1>5 DEF ButLinks, SameCore
  <1> QED BY <1>2, <1>5, <1>6, <1>7 DEF r

\* The same for the other link.
LEMMA SetPrev ==
    ASSUME NEW d \in Db, NEW e \in EntryIds, NEW n \in Ptr
    PROVE  LET r == [d EXCEPT !.ents[e].lru_prev = n]
           IN  /\ ButLinks(d, r) /\ r.lru_head = d.lru_head /\ r.lru_tail = d.lru_tail
               /\ \A f \in EntryIds : Prevs(r)[f] = IF f = e THEN n ELSE Prevs(d)[f]
               /\ Nexts(r) = Nexts(d) /\ r \in Db
  <1> DEFINE r == [d EXCEPT !.ents[e].lru_prev = n]
             y == [d.ents[e] EXCEPT !.lru_prev = n]
  <1>0. SameCore(d, r)
    BY SetLinks
  <1>1. d.ents \in [EntryIds -> Entry] /\ d.ents[e] \in Entry
    BY DEF Db
  <1>2. r.ents = [d.ents EXCEPT ![e] = y] /\ r.lru_head = d.lru_head /\ r.lru_tail = d.lru_tail
        /\ r.size = d.size /\ r.keys = d.keys /\ r.orphan = d.orphan /\ r.fault = d.fault
        /\ r.inserts = d.inserts
    BY DEF Db
  <1>3. y.lru_prev = n /\ y.lru_next = d.ents[e].lru_next /\ y.file = d.ents[e].file
        /\ y.exp = d.ents[e].exp
    BY <1>1 DEF Entry
  <1> HIDE DEF r, y
  <1>4. \A f \in EntryIds : r.ents[f] = IF f = e THEN y ELSE d.ents[f]
    BY <1>1, <1>2
  <1>5. ButLinks(d, r)
    BY <1>0, <1>2, <1>3, <1>4 DEF ButLinks
  <1>6. (\A f \in EntryIds : Prevs(r)[f] = IF f = e THEN n ELSE Prevs(d)[f]) /\ Nexts(r) = Nexts(d)
    BY <1>3, <1>4 DEF Nexts, Prevs
  <1>7. r \in Db
    BY <1>5 DEF ButLinks, SameCore
  <1> QED BY <1>2, <1>5, <1>6, <1>7 DEF r

\* Head or tail is set.
LEMMA SetEnds ==
    ASSUME NEW d \in Db, NEW n \in Ptr
    PROVE  LET r == [d EXCEPT !.lru_head = n]
               q == [d EXCEPT !.lru_tail = n]
           IN  /\ ButLinks(d, r) /\ r.lru_head = n /\ r.lru_tail = d.lru_tail
               /\ Nexts(r) = Nexts(d) /\ Prevs(r) = Prevs(d)
               /\ ButLinks(d, q) /\ q.lru_head = d.lru_head /\ q.lru_tail = n
               /\ Nexts(q) = Nexts(d) /\ Prevs(q) = Prevs(d) /\ r \in Db /\ q \in Db
  BY DEF Db, ButLinks, SameCore, SameEntry, Nexts, Prevs

\* db_lru_remove_node
LEMMA RemoveLinks ==
    ASSUME NEW d \in Db, NEW e \in EntryIds
    PROVE  LET r == db_lru_remove_node(d, e)
               n == d.ents[e].lru_next
               p == d.ents[e].lru_prev
           IN  /\ ButLinks(d, r)
               /\ \A f \in EntryIds \ {e} :
                    /\ Nexts(r)[f] = IF f = p THEN n ELSE Nexts(d)[f]
                    /\ Prevs(r)[f] = IF f = n THEN p ELSE Prevs(d)[f]
               /\ r.lru_head = IF p = Null THEN n ELSE d.lru_head
               /\ r.lru_tail = IF n = Null THEN p ELSE d.lru_tail
  <1> DEFINE n  == d.ents[e].lru_next
             p  == d.ents[e].lru_prev
             d1 == IF p # Null THEN [d EXCEPT !.ents[p].lru_next = n]
                   ELSE [d EXCEPT !.lru_head = n]
             d2 == IF n # Null THEN [d1 EXCEPT !.ents[n].lru_prev = p]
                   ELSE [d1 EXCEPT !.lru_tail = p]
             d3 == [d2 EXCEPT !.ents[e].lru_next = Null]
             d4 == [d3 EXCEPT !.ents[e].lru_prev = Null]
  <1>0. n \in Ptr /\ p \in Ptr /\ Null \in Ptr /\ (p # Null => p \in EntryIds)
        /\ (n # Null => n \in EntryIds) /\ Null \notin EntryIds
    BY Links, DbAssumption DEF Ptr
  <1> HIDE DEF n, p
  <1>1. /\ ButLinks(d, d1) /\ d1 \in Db
        /\ \A f \in EntryIds : Nexts(d1)[f] = IF f = p THEN n ELSE Nexts(d)[f]
        /\ Prevs(d1) = Prevs(d)
        /\ d1.lru_head = IF p = Null THEN n ELSE d.lru_head
        /\ d1.lru_tail = d.lru_tail
    <2>1. CASE p # Null
      <3>1. d1 = [d EXCEPT !.ents[p].lru_next = n]
        BY <2>1
      <3> HIDE DEF d1
      <3> QED BY <1>0, <2>1, <3>1, SetNext
    <2>2. CASE p = Null
      <3>1. d1 = [d EXCEPT !.lru_head = n]
        BY <2>2
      <3> HIDE DEF d1
      <3>2. /\ ButLinks(d, d1) /\ d1.lru_head = n /\ d1.lru_tail = d.lru_tail
            /\ Nexts(d1) = Nexts(d) /\ Prevs(d1) = Prevs(d) /\ d1 \in Db
        BY <1>0, <3>1, SetEnds
      <3> QED BY <1>0, <2>2, <3>2
    <2> QED BY <2>1, <2>2
  <1> HIDE DEF d1
  <1>2. /\ ButLinks(d1, d2) /\ d2 \in Db
        /\ \A f \in EntryIds : Prevs(d2)[f] = IF f = n THEN p ELSE Prevs(d1)[f]
        /\ Nexts(d2) = Nexts(d1)
        /\ d2.lru_tail = IF n = Null THEN p ELSE d1.lru_tail
        /\ d2.lru_head = d1.lru_head
    <2>1. CASE n # Null
      <3>1. d2 = [d1 EXCEPT !.ents[n].lru_prev = p]
        BY <2>1
      <3> HIDE DEF d2
      <3> QED BY <1>0, <1>1, <2>1, <3>1, SetPrev
    <2>2. CASE n = Null
      <3>1. d2 = [d1 EXCEPT !.lru_tail = p]
        BY <2>2
      <3> HIDE DEF d2
      <3>2. /\ ButLinks(d1, d2) /\ d2.lru_tail = p /\ d2.lru_head = d1.lru_head
            /\ Nexts(d2) = Nexts(d1) /\ Prevs(d2) = Prevs(d1) /\ d2 \in Db
        BY <1>0, <1>1, <3>1, SetEnds
      <3> QED BY <1>0, <2>2, <3>2
    <2> QED BY <2>1, <2>2
  <1>5. db_lru_remove_node(d, e) = d4
    BY DEF db_lru_remove_node, d1, n, p
  <1> HIDE DEF d2
  <1>3. /\ ButLinks(d2, d3) /\ d3 \in Db /\ Prevs(d3) = Prevs(d2)
        /\ \A f \in EntryIds \ {e} : Nexts(d3)[f] = Nexts(d2)[f]
        /\ d3.lru_tail = d2.lru_tail /\ d3.lru_head = d2.lru_head
    BY <1>0, <1>2, SetNext
  <1> HIDE DEF d3
  <1>4. /\ ButLinks(d3, d4) /\ d4 \in Db /\ Nexts(d4) = Nexts(d3)
        /\ \A f \in EntryIds \ {e} : Prevs(d4)[f] = Prevs(d3)[f]
        /\ d4.lru_tail = d3.lru_tail /\ d4.lru_head = d3.lru_head
    BY <1>0, <1>3, SetPrev
  <1> HIDE DEF d4
  <1>6. ButLinks(d, d4)
    BY <1>1, <1>2, <1>3, <1>4, ButLinksTrans
  <1> QED BY <1>1, <1>2, <1>3, <1>4, <1>5, <1>6 DEF n, p

\* db_lru_insert, of a node that is not the tail.
LEMMA InsertLinks ==
    ASSUME NEW d \in Db, NEW e \in EntryIds, d.lru_tail # e
    PROVE  LET r == db_lru_insert(d, e)
           IN  /\ ButLinks(d, r)
               /\ \A f \in EntryIds \ {e} : /\ Nexts(r)[f] = IF f = d.lru_tail THEN e ELSE Nexts(d)[f]
                                            /\ Prevs(r)[f] = Prevs(d)[f]
               /\ Nexts(r)[e] = Null /\ Prevs(r)[e] = d.lru_tail
               /\ r.lru_head = IF d.lru_head = Null THEN e ELSE d.lru_head
               /\ r.lru_tail = e
  <1> DEFINE t == d.lru_tail
             d0 == [d EXCEPT !.ents[e].lru_prev = t]
             d1 == [d0 EXCEPT !.ents[e].lru_next = Null]
             d2 == IF t = Null THEN d1 ELSE [d1 EXCEPT !.ents[t].lru_next = e]
             d3 == [d2 EXCEPT !.lru_tail = e]
             h  == IF d3.lru_head = Null THEN e ELSE d3.lru_head
             d4 == [d3 EXCEPT !.lru_head = h]
  <1>0. t \in Ptr /\ Null \in Ptr /\ e \in Ptr /\ (t # Null => t \in EntryIds) /\ t # e
        /\ Null \notin EntryIds
    BY Links, DbAssumption DEF Ptr
  <1>6. db_lru_insert(d, e) = d4
    BY DEF db_lru_insert, Db
  <1> HIDE DEF t
  <1>1. /\ ButLinks(d, d0) /\ d0 \in Db /\ Nexts(d0) = Nexts(d)
        /\ \A f \in EntryIds : Prevs(d0)[f] = IF f = e THEN t ELSE Prevs(d)[f]
        /\ d0.lru_tail = d.lru_tail /\ d0.lru_head = d.lru_head
    BY <1>0, SetPrev
  <1> HIDE DEF d0
  <1>2. /\ ButLinks(d0, d1) /\ d1 \in Db /\ Prevs(d1) = Prevs(d0)
        /\ \A f \in EntryIds : Nexts(d1)[f] = IF f = e THEN Null ELSE Nexts(d0)[f]
        /\ d1.lru_tail = d0.lru_tail /\ d1.lru_head = d0.lru_head
    BY <1>0, <1>1, SetNext
  <1> HIDE DEF d1
  <1>3. /\ ButLinks(d1, d2) /\ d2 \in Db /\ Prevs(d2) = Prevs(d1)
        /\ \A f \in EntryIds : Nexts(d2)[f] = IF f = t THEN e ELSE Nexts(d1)[f]
        /\ d2.lru_tail = d1.lru_tail /\ d2.lru_head = d1.lru_head
    <2>1. CASE t = Null
      BY <1>0, <1>2, <2>1 DEF ButLinks, SameCore, SameEntry
    <2>2. CASE t # Null
      <3>1. d2 = [d1 EXCEPT !.ents[t].lru_next = e]
        BY <2>2
      <3> HIDE DEF d2
      <3> QED BY <1>0, <1>2, <2>2, <3>1, SetNext
    <2> QED BY <2>1, <2>2
  <1> HIDE DEF d2
  <1>4. /\ ButLinks(d2, d3) /\ d3 \in Db /\ Prevs(d3) = Prevs(d2) /\ Nexts(d3) = Nexts(d2)
        /\ d3.lru_tail = e /\ d3.lru_head = d2.lru_head
    BY <1>0, <1>3, SetEnds
  <1> HIDE DEF d3
  <1>7. h \in Ptr
    BY <1>0, <1>4, Links
  <1> HIDE DEF h
  <1>5. /\ ButLinks(d3, d4) /\ d4 \in Db /\ Prevs(d4) = Prevs(d3) /\ Nexts(d4) = Nexts(d3)
        /\ d4.lru_tail = e /\ d4.lru_head = h
    BY <1>4, <1>7, SetEnds
  <1> HIDE DEF d4
  <1>8. ButLinks(d, d4)
    BY <1>1, <1>2, <1>3, <1>4, <1>5, ButLinksTrans
  <1> QED BY <1>0, <1>1, <1>2, <1>3, <1>4, <1>5, <1>6, <1>8 DEF h, t

-----------------------------------------------------------------------------
(* Deleting a key.                                                         *)

\* q is d with entry e marked, out of its hash set and off the size.
Struck(d, q, e) ==
    /\ q \in Db /\ Nexts(q) = Nexts(d) /\ Prevs(q) = Prevs(d)
    /\ q.lru_head = d.lru_head /\ q.lru_tail = d.lru_tail
    /\ q.size = d.size - d.ents[e].len /\ q.keys = d.keys
    /\ q.orphan = d.orphan /\ q.fault = d.fault /\ q.inserts = d.inserts
    /\ \A f \in EntryIds : q.ents[f].exp = d.ents[f].exp
    /\ \A f \in EntryIds \ {e} : q.ents[f].file = d.ents[f].file
    /\ q.ents[e].file <=> d.ents[e].file /\ ~ IsFile(d, e)

\* What Unlink does beside the list.
LEMMA UnlinkParts ==
    ASSUME NEW d \in Db, NEW e \in EntryIds
    PROVE  \E q : /\ Struck(d, q, e)
                  /\ Unlink(d, e) = IF d.ents[e].writing THEN q ELSE db_lru_remove_node(q, e)
  <1> DEFINE x == d.ents[e]
             b == x.file /\ ~ IsFile(d, e)
             y == [x EXCEPT !.file = b, !.deleted = TRUE]
             E == [d.ents EXCEPT ![e] = y]
             T == [d.tabs EXCEPT ![x.tab] =
                     [d.tabs[x.tab] EXCEPT !.slot = [d.tabs[x.tab].slot EXCEPT ![KeyHash[x.key]] = Null]]]
             z == d.size - x.len
             q == [d EXCEPT !.ents = E, !.tabs = T, !.size = z]
  <1>1. /\ d.ents \in [EntryIds -> Entry] /\ d.tabs \in [TableIds -> Table]
        /\ d.size \in Int /\ x \in Entry /\ x.len \in Nat
    BY DEF Db, Entry
  <1>2. y \in Entry /\ y.lru_next = x.lru_next /\ y.lru_prev = x.lru_prev /\ y.exp = x.exp
        /\ y.file = b
    <2>1. b \in BOOLEAN
      OBVIOUS
    <2> HIDE DEF x, b
    <2> QED BY <1>1, <2>1 DEF Entry
  <1>3. E \in [EntryIds -> Entry] /\ E[e] = y /\ \A f \in EntryIds : f # e => E[f] = d.ents[f]
    <2> HIDE DEF y
    <2> QED BY <1>1, <1>2
  <1>4. T \in [TableIds -> Table]
    <2>1. CASE x.tab \in TableIds
      <3> DEFINE t == x.tab
                 s == [d.tabs[t].slot EXCEPT ![KeyHash[x.key]] = Null]
                 w == [d.tabs[t] EXCEPT !.slot = s]
      <3>1. d.tabs[t] \in Table /\ d.tabs[t].slot \in [Hashes -> Ptr] /\ Null \in Ptr
        BY <1>1, <2>1 DEF Table, Ptr
      <3>2. s \in [Hashes -> Ptr]
        BY <3>1
      <3> HIDE DEF s
      <3>3. w \in Table
        BY <3>1, <3>2 DEF Table
      <3>4. T = [d.tabs EXCEPT ![t] = w]
        BY DEF s
      <3> HIDE DEF w, T, t
      <3> QED BY Zenon, <1>1, <3>3, <3>4
    <2>2. CASE x.tab \notin TableIds
      BY <1>1, <2>2
    <2> QED BY <2>1, <2>2
  <1>5. z \in Int
    BY <1>1
  <1>6. /\ q \in Db /\ q.ents = E /\ q.lru_head = d.lru_head /\ q.lru_tail = d.lru_tail
        /\ q.size = z /\ q.keys = d.keys /\ q.orphan = d.orphan /\ q.fault = d.fault
        /\ q.inserts = d.inserts
    <2> HIDE DEF E, T, z
    <2> QED BY <1>3, <1>4, <1>5 DEF Db
  <1>7. Unlink(d, e) = IF x.writing THEN q ELSE db_lru_remove_node(q, e)
    <2>1. q = [d EXCEPT !.ents[e].file = @ /\ ~ IsFile(d, e), !.ents[e].deleted = TRUE,
                        !.tabs[x.tab].slot[KeyHash[x.key]] = Null, !.size = @ - x.len]
      BY ZenonT(60), <1>1 DEF Db
    <2> QED BY <2>1 DEF Unlink
  <1> HIDE DEF q, E, T, y
  <1>8. Nexts(q) = Nexts(d) /\ Prevs(q) = Prevs(d)
    BY <1>2, <1>3, <1>6 DEF Nexts, Prevs
  <1>9. /\ \A f \in EntryIds : q.ents[f].exp = d.ents[f].exp
        /\ \A f \in EntryIds \ {e} : q.ents[f].file = d.ents[f].file
        /\ q.ents[e].file = b
    BY <1>2, <1>3, <1>6
  <1>10. Struck(d, q, e)
    BY <1>6, <1>8, <1>9 DEF Struck
  <1> QED BY <1>7, <1>10

\* The same with the list: the key is gone, what is left is as it was.
Struckout(d, r, e) ==
    /\ r \in Db /\ ListOK(r)
    /\ r.size = d.size - d.ents[e].len /\ r.keys = d.keys
    /\ r.orphan = d.orphan /\ r.fault = d.fault /\ r.inserts = d.inserts
    /\ \A f \in EntryIds : r.ents[f].exp = d.ents[f].exp
    /\ \A f \in EntryIds \ {e} : r.ents[f].file = d.ents[f].file
    /\ r.ents[e].file <=> d.ents[e].file /\ ~ IsFile(d, e)
    /\ Kept(r) = Kept(d) \ {e}

\* The list after a key is unlinked, which takes a complete one out of it.
LEMMA UnlinkList ==
    ASSUME NEW d \in Db, NEW e \in Kept(d), ListOK(d)
    PROVE  Struckout(d, Unlink(d, e), e)
  <1> DEFINE r == Unlink(d, e)
             L == Complete(d)
  <1>0. e \in EntryIds /\ d.ents[e].writing \in BOOLEAN
    BY DbFields DEF Kept
  <1>1. PICK q : Struck(d, q, e) /\ r = IF d.ents[e].writing THEN q ELSE db_lru_remove_node(q, e)
    BY <1>0, UnlinkParts
  <1>2. Marked(d, r, e) /\ r \in Db
    BY <1>0, UnlinkShape DEF Unlinked
  <1> HIDE DEF r
  <1>3. Kept(r) = Kept(d) \ {e} /\ Complete(r) = L \ {e}
    BY <1>2 DEF Kept, Complete, Marked
  <1>4. PICK p : List(L, Nexts(d), Prevs(d), d.lru_head, d.lru_tail, p)
    BY DEF ListOK
  <1>5. CASE d.ents[e].writing
    <2>1. r = q /\ e \notin L
      BY <1>1, <1>5 DEF Complete
    <2>2. L \ {e} = L
      BY <2>1
    <2>3. ListOK(r)
      BY <1>1, <1>3, <1>4, <2>1, <2>2 DEF ListOK, Struck
    <2>4. Struck(d, r, e)
      BY <1>1, <2>1
    <2>5. Struckout(d, r, e)
      BY <1>2, <1>3, <2>3, <2>4 DEF Struck, Struckout
    <2> QED BY <2>5 DEF r
  <1>6. CASE ~ d.ents[e].writing
    <2> DEFINE n == q.ents[e].lru_next
               v == q.ents[e].lru_prev
    <2>1. r = db_lru_remove_node(q, e) /\ e \in L /\ q \in Db
      BY <1>1, <1>6 DEF Complete, Struck
    <2>2. /\ ButLinks(q, r)
          /\ \A f \in EntryIds \ {e} :
               /\ Nexts(r)[f] = IF f = v THEN n ELSE Nexts(q)[f]
               /\ Prevs(r)[f] = IF f = n THEN v ELSE Prevs(q)[f]
          /\ r.lru_head = IF v = Null THEN n ELSE q.lru_head
          /\ r.lru_tail = IF n = Null THEN v ELSE q.lru_tail
      BY <1>0, <2>1, RemoveLinks
    <2>3. n = Nexts(d)[e] /\ v = Prevs(d)[e]
      <3>1. n = Nexts(q)[e] /\ v = Prevs(q)[e]
        BY <1>0 DEF Nexts, Prevs
      <3> QED BY <1>1, <3>1 DEF Struck
    <2>4. Nexts(q) = Nexts(d) /\ Prevs(q) = Prevs(d) /\ q.lru_head = d.lru_head /\ q.lru_tail = d.lru_tail
      BY <1>1 DEF Struck
    <2>5. L \subseteq EntryIds
      BY DEF Complete, Kept
    <2> HIDE DEF n, v, L
    <2>6. List(L \ {e}, Nexts(r), Prevs(r), r.lru_head, r.lru_tail, p)
      <3>1. \A f \in L \ {e} : Nexts(r)[f] = IF f = Prevs(d)[e] THEN Nexts(d)[e] ELSE Nexts(d)[f]
        BY <2>2, <2>3, <2>4, <2>5
      <3>2. \A f \in L \ {e} : Prevs(r)[f] = IF f = Nexts(d)[e] THEN Prevs(d)[e] ELSE Prevs(d)[f]
        BY <2>2, <2>3, <2>4, <2>5
      <3>3. r.lru_head = (IF Prevs(d)[e] = Null THEN Nexts(d)[e] ELSE d.lru_head)
            /\ r.lru_tail = (IF Nexts(d)[e] = Null THEN Prevs(d)[e] ELSE d.lru_tail)
        BY <2>2, <2>3, <2>4
      <3> DEFINE M == Nexts(r)
                 Q == Prevs(r)
                 N == Nexts(d)
                 P == Prevs(d)
      <3> HIDE DEF M, Q, N, P
      <3>4. List(L, N, P, d.lru_head, d.lru_tail, p) /\ e \in L
        BY <1>4, <2>1 DEF N, P
      <3>5. Bypass(L, N, P, d.lru_head, d.lru_tail, e, M, Q, r.lru_head, r.lru_tail)
        BY <3>1, <3>2, <3>3 DEF M, Q, N, P, Bypass
      <3>6. List(L \ {e}, M, Q, r.lru_head, r.lru_tail, p)
        BY <3>4, <3>5, ListRemove
      <3> QED BY <3>6 DEF M, Q
    <2>7. ListOK(r)
      BY <1>3, <2>6 DEF ListOK
    <2>8. /\ r.size = q.size /\ r.keys = q.keys /\ r.orphan = q.orphan /\ r.fault = q.fault
          /\ r.inserts = q.inserts
          /\ \A f \in EntryIds : r.ents[f].file = q.ents[f].file /\ r.ents[f].exp = q.ents[f].exp
      BY <2>2 DEF ButLinks
    <2>9. /\ q.size = d.size - d.ents[e].len /\ q.keys = d.keys
          /\ q.orphan = d.orphan /\ q.fault = d.fault /\ q.inserts = d.inserts
          /\ \A f \in EntryIds : q.ents[f].exp = d.ents[f].exp
          /\ \A f \in EntryIds \ {e} : q.ents[f].file = d.ents[f].file
          /\ q.ents[e].file <=> d.ents[e].file /\ ~ IsFile(d, e)
      BY <1>1 DEF Struck
    <2>10. Struckout(d, r, e)
      BY <1>0, <1>2, <1>3, <2>7, <2>8, <2>9 DEF Struckout
    <2> QED BY <2>10 DEF r
  <1> QED BY <1>0, <1>5, <1>6 DEF r

\* A key that is unlinked is still counted.
LEMMA UnlinkFine ==
    ASSUME NEW d, NEW k, Fine(d, k), NEW e \in Kept(d)
    PROVE  LET r == Unlink(d, e)
           IN  /\ Fine(r, k + 1) /\ Kept(r) = Kept(d) \ {e} /\ r.fault = d.fault
               /\ r.size = d.size - d.ents[e].len
  <1> DEFINE r == Unlink(d, e)
             t == d.ents[e].tab
             h == KeyHash[d.ents[e].key]
  <1>1. d \in Db /\ k \in Int /\ ListOK(d) /\ e \in EntryIds /\ Kept(d) \subseteq EntryIds
    BY DEF Fine, Kept
  <1>2. Struckout(d, r, e)
    BY <1>1, UnlinkList
  <1>3. r \in Db /\ Marked(d, r, e) /\ SameTables(d, r) /\ Cleared(d, r, e)
    BY <1>1, UnlinkShape DEF Unlinked
  <1> HIDE DEF r
  <1>4. Kept(r) = Kept(d) \ {e}
    BY <1>2 DEF Struckout
  <1>5. \A f \in Kept(d) : AtHome(d, f)
    BY DEF Fine
  <1>6. ASSUME NEW f \in Kept(r) PROVE AtHome(r, f)
    <2>1. f \in Kept(d) /\ f # e /\ f \in EntryIds /\ AtHome(d, f) /\ AtHome(d, e)
      BY <1>1, <1>4, <1>5
    <2>2. r.ents[f].tab = d.ents[f].tab /\ r.ents[f].key = d.ents[f].key
      BY <1>3, <2>1 DEF Marked
    <2> DEFINE s == d.ents[f].tab
               i == KeyHash[d.ents[f].key]
    <2>3. s \in TableIds /\ d.ents[f].key \in Keys /\ ~ Unusable(d, s) /\ d.tabs[s].slot[i] = f
          /\ d.tabs[t].slot[h] = e
      BY <2>1 DEF AtHome
    <2>4. i \in Hashes
      BY <2>3 DEF Hashes
    <2>5. ~ (s = t /\ i = h)
      BY <2>1, <2>3
    <2>6. r.tabs[s].slot[i] = f
      BY <1>3, <2>3, <2>4, <2>5 DEF Cleared
    <2>7. ~ Unusable(r, s)
      BY <1>3, <2>3 DEF Unusable, SameTables
    <2> QED BY <2>2, <2>3, <2>6, <2>7 DEF AtHome
  <1>7. ASSUME NEW s \in TableIds, NEW i \in Hashes PROVE SlotHolds(r, s, i)
    <2> SUFFICES ASSUME r.tabs[s].slot[i] # Null PROVE SlotHolds(r, s, i)
      BY DEF SlotHolds
    <2> DEFINE f == d.tabs[s].slot[i]
    <2>1. r.tabs[s].slot[i] = f /\ ~ (s = t /\ i = h)
      BY <1>3 DEF Cleared
    <2>2. SlotHolds(d, s, i)
      BY DEF Fine
    <2>3. f \in Kept(d) /\ d.ents[f].tab = s /\ KeyHash[d.ents[f].key] = i
      BY <2>1, <2>2 DEF SlotHolds
    <2>4. f # e
      BY <2>1, <2>3
    <2> HIDE DEF f
    <2>5. r.ents[f].tab = d.ents[f].tab /\ r.ents[f].key = d.ents[f].key
      BY <1>1, <1>3, <2>3 DEF Marked
    <2> QED BY <1>4, <2>1, <2>3, <2>4, <2>5 DEF SlotHolds
  <1>8. CountOK(r, k + 1)
    <2> DEFINE K == Kept(d)
               f == Lens(d)
    <2>1. f \in [EntryIds -> Int] /\ f[e] = d.ents[e].len
      BY <1>1, DbFields DEF Lens
    <2>2. K \in SUBSET EntryIds /\ e \in K
      BY <1>1
    <2> HIDE DEF K, f
    <2>3. SumOver(f, K) = f[e] + SumOver(f, K \ {e}) /\ f[e] \in Int
      BY <1>1, <2>1, <2>2, SumRemove
    <2>4. Cardinality(K \ {e}) = Cardinality(K) - 1 /\ Cardinality(K) \in Nat
      BY <2>2, Smaller
    <2>5. SumOver(Lens(r), K \ {e}) = SumOver(f, K \ {e})
      <3>1. \A g \in K \ {e} : r.ents[g].len = d.ents[g].len
        BY <1>3, <2>2 DEF Marked
      <3>2. K \ {e} \in SUBSET EntryIds
        BY <2>2
      <3> QED BY <1>1, <1>3, <3>1, <3>2, LensSame DEF f
    <2>6. SumOver(f, K \ {e}) \in Int
      BY <2>1, <2>2, SumSteps
    <2>7. r.size = d.size - f[e] /\ r.keys = d.keys
      BY <1>2, <2>1 DEF Struckout
    <2>8. CountOK(d, k)
      BY DEF Fine
    <2> SUFFICES ASSUME Counted PROVE r.keys = Cardinality(K \ {e}) + (k + 1) /\ r.size = SumOver(Lens(r), K \ {e})
      BY <1>4 DEF CountOK, K
    <2>9. d.keys = Cardinality(K) + k /\ d.size = SumOver(f, K)
      BY <2>8 DEF CountOK, K, f
    <2> QED BY <1>1, <2>3, <2>4, <2>5, <2>6, <2>7, <2>9
  <1>9. FilesOK(r)
    <2> SUFFICES ASSUME Filed
                 PROVE  (\A f \in EntryIds : r.ents[f].file <=> f \in Kept(r) /\ IsFile(r, f)) /\ ~ r.orphan
      BY DEF FilesOK
    <2>1. (\A f \in EntryIds : d.ents[f].file <=> f \in Kept(d) /\ IsFile(d, f)) /\ ~ d.orphan
      BY DEF Fine, FilesOK
    <2>2. \A f \in EntryIds : IsFile(r, f) <=> IsFile(d, f)
      BY <1>3 DEF IsFile, Marked
    <2>3. ~ r.orphan
      BY <1>2, <2>1 DEF Struckout
    <2>4. \A f \in EntryIds \ {e} : r.ents[f].file <=> f \in Kept(r) /\ IsFile(r, f)
      BY <1>2, <1>4, <2>1, <2>2 DEF Struckout
    <2>5. r.ents[e].file <=> e \in Kept(r) /\ IsFile(r, e)
      BY <1>1, <1>2, <1>4, <2>1 DEF Struckout
    <2> QED BY <2>3, <2>4, <2>5
  <1>10. ValuesOK(r)
    <2>1. \A f \in Kept(r) : /\ f \in Kept(d) /\ r.ents[f].exp = d.ents[f].exp
                             /\ r.ents[f].len = d.ents[f].len /\ r.ents[f].block = d.ents[f].block
      BY <1>1, <1>2, <1>3, <1>4 DEF Struckout, Marked
    <2> QED BY <2>1 DEF Fine, ValuesOK
  <1>11. Fine(r, k + 1)
    <2>1. ListOK(r) /\ k + 1 \in Int
      BY <1>1, <1>2 DEF Struckout
    <2> QED BY <1>3, <1>6, <1>7, <1>8, <1>9, <1>10, <2>1 DEF Fine
  <1> QED BY <1>2, <1>4, <1>11 DEF r, Struckout

-----------------------------------------------------------------------------
(* Counts, marks and freed structures leave the bookkeeping alone.         *)

\* Two changes that leave the bookkeeping alone.
LEMMA AlikeTrans ==
    ASSUME NEW d, NEW r, NEW q, Alike(d, r), Alike(r, q)
    PROVE  Alike(d, q)
  <1>1. Kept(r) = Kept(d) /\ Kept(q) = Kept(d) /\ \A e \in Kept(d) : SameKey(d, r, e) /\ SameKey(r, q, e)
    BY DEF Alike
  <1>2. \A e \in Kept(d) : SameKey(d, q, e)
    BY <1>1 DEF SameKey
  <1>3. ASSUME NEW t \in TableIds PROVE SameTable(d, q, t)
    <2>1. SameTable(d, r, t) /\ SameTable(r, q, t)
      BY DEF Alike
    <2>2. (\A e \in Kept(r) : r.ents[e].tab # t) <=> (\A e \in Kept(d) : d.ents[e].tab # t)
      BY <1>1 DEF SameKey
    <2> QED BY <2>1, <2>2 DEF SameTable
  <1> QED BY <1>1, <1>2, <1>3 DEF Alike

\* Entry e is set to y.
WithEntry(d, e, y) == [d EXCEPT !.ents = [d.ents EXCEPT ![e] = y]]

\* What the other entries and the rest keep.
LEMMA SetEntry ==
    ASSUME NEW d \in Db, NEW e \in EntryIds, NEW y \in Entry
    PROVE  LET r == WithEntry(d, e, y)
           IN  /\ r \in Db /\ \A f \in EntryIds : r.ents[f] = IF f = e THEN y ELSE d.ents[f]
               /\ r.tabs = d.tabs /\ r.tables = d.tables
               /\ r.nameless = d.nameless /\ r.used = d.used
               /\ r.lru_head = d.lru_head /\ r.lru_tail = d.lru_tail
               /\ r.size = d.size /\ r.keys = d.keys
               /\ r.orphan = d.orphan /\ r.fault = d.fault /\ r.inserts = d.inserts
  <1> DEFINE E == [d.ents EXCEPT ![e] = y]
  <1>1. E \in [EntryIds -> Entry] /\ \A f \in EntryIds : E[f] = IF f = e THEN y ELSE d.ents[f]
    BY DEF Db
  <1> HIDE DEF E
  <1>2. WithEntry(d, e, y) = [d EXCEPT !.ents = E]
    BY DEF WithEntry, E
  <1> QED BY <1>1, <1>2 DEF Db

\* What the bookkeeping reads of entry e is the same in y.
LEMMA EntryAlike ==
    ASSUME NEW d \in Db, NEW e \in EntryIds, NEW y \in Entry,
           y.live /\ ~ y.deleted <=> e \in Kept(d),
           e \in Kept(d) =>
             /\ y.tab = d.ents[e].tab /\ y.key = d.ents[e].key /\ y.writing = d.ents[e].writing
             /\ y.len = d.ents[e].len /\ y.lru_next = d.ents[e].lru_next
             /\ y.lru_prev = d.ents[e].lru_prev /\ y.block = d.ents[e].block
             /\ (Ttls = {} => y.exp = d.ents[e].exp),
           Filed => (y.file => d.ents[e].file) /\ (e \in Kept(d) => y.file = d.ents[e].file)
    PROVE  Alike(d, WithEntry(d, e, y))
  <1> DEFINE r == WithEntry(d, e, y)
  <1>1. /\ r \in Db /\ \A f \in EntryIds : r.ents[f] = IF f = e THEN y ELSE d.ents[f]
        /\ r.tabs = d.tabs /\ r.tables = d.tables /\ r.nameless = d.nameless
        /\ r.lru_head = d.lru_head /\ r.lru_tail = d.lru_tail
        /\ r.size = d.size /\ r.keys = d.keys /\ r.orphan = d.orphan
    BY SetEntry
  <1> HIDE DEF r
  <1>2. Kept(r) = Kept(d)
    BY <1>1 DEF Kept
  <1>3. \A f \in Kept(d) : SameKey(d, r, f)
    <2> SUFFICES ASSUME NEW f \in Kept(d) PROVE SameKey(d, r, f)
      OBVIOUS
    <2>1. f \in EntryIds
      BY DEF Kept
    <2> QED BY <1>1, <2>1 DEF SameKey
  <1>4. \A t \in TableIds : SameTable(d, r, t)
    BY <1>1 DEF SameTable
  <1>5. ASSUME FilesOK(d) PROVE FilesOK(r)
    <2> SUFFICES ASSUME Filed
                 PROVE  (\A f \in EntryIds : r.ents[f].file <=> f \in Kept(r) /\ IsFile(r, f)) /\ ~ r.orphan
      BY DEF FilesOK
    <2>1. (\A f \in EntryIds : d.ents[f].file <=> f \in Kept(d) /\ IsFile(d, f)) /\ ~ d.orphan
      BY <1>5 DEF FilesOK
    <2>2. ASSUME NEW f \in EntryIds, f # e PROVE r.ents[f].file <=> f \in Kept(r) /\ IsFile(r, f)
      BY <1>1, <1>2, <2>1, <2>2 DEF IsFile
    <2>3. r.ents[e].file <=> e \in Kept(r) /\ IsFile(r, e)
      <3>1. CASE e \in Kept(d)
        BY <1>1, <1>2, <2>1, <3>1 DEF IsFile
      <3>2. CASE e \notin Kept(d)
        BY <1>1, <1>2, <2>1, <3>2
      <3> QED BY <3>1, <3>2
    <2> QED BY <1>1, <2>1, <2>2, <2>3
  <1>6. Alike(d, r)
    BY <1>1, <1>2, <1>3, <1>4, <1>5 DEF Alike
  <1> QED BY <1>6 DEF r

\* Entries, list and counters are the same, and tables where they have keys.
LEMMA TablesAlike ==
    ASSUME NEW d \in Db, NEW r \in Db, r.ents = d.ents, \A t \in TableIds : SameTable(d, r, t),
           r.lru_head = d.lru_head, r.lru_tail = d.lru_tail, r.size = d.size, r.keys = d.keys,
           FilesOK(d) /\ r.orphan => d.orphan
    PROVE  Alike(d, r)
  <1>1. Kept(r) = Kept(d) /\ \A e \in Kept(d) : SameKey(d, r, e)
    BY DEF Kept, SameKey
  <1>2. FilesOK(d) => FilesOK(r)
    BY <1>1 DEF FilesOK, IsFile
  <1> QED BY <1>1, <1>2 DEF Alike

\* A fault leaves the bookkeeping alone.
LEMMA FaultAlike ==
    ASSUME NEW d \in Db, NEW what \in Faults
    PROVE  Alike(d, Fault(d, what)) /\ Fault(d, what).ents = d.ents
  <1> DEFINE r == Fault(d, what)
  <1>1. /\ r \in Db /\ r.ents = d.ents /\ r.tabs = d.tabs /\ r.lru_head = d.lru_head
        /\ r.lru_tail = d.lru_tail /\ r.size = d.size /\ r.keys = d.keys /\ r.orphan = d.orphan
    BY DEF Db, Fault
  <1> HIDE DEF r
  <1>2. \A t \in TableIds : SameTable(d, r, t)
    BY <1>1 DEF SameTable
  <1>3. Alike(d, r)
    BY <1>1, <1>2, TablesAlike
  <1> QED BY <1>1, <1>3 DEF r

\* A count of inserts leaves the bookkeeping alone.
LEMMA InsertsAlike ==
    ASSUME NEW d \in Db, NEW n \in 0 .. LruEvery - 1
    PROVE  LET r == [d EXCEPT !.inserts = n]
           IN  Alike(d, r) /\ r.fault = d.fault /\ r.ents = d.ents /\ r.tabs = d.tabs
               /\ r.tables = d.tables
  <1> DEFINE r == [d EXCEPT !.inserts = n]
  <1>1. /\ r \in Db /\ r.ents = d.ents /\ r.tabs = d.tabs /\ r.lru_head = d.lru_head
        /\ r.lru_tail = d.lru_tail /\ r.size = d.size /\ r.keys = d.keys /\ r.orphan = d.orphan
        /\ r.fault = d.fault /\ r.tables = d.tables
    BY DEF Db
  <1> HIDE DEF r
  <1>2. \A t \in TableIds : SameTable(d, r, t)
    BY <1>1 DEF SameTable
  <1>3. Alike(d, r)
    BY <1>1, <1>2, TablesAlike
  <1> QED BY <1>1, <1>3 DEF r

\* The count of an entry.
LEMMA RefsAlike ==
    ASSUME NEW d \in Db, NEW e \in EntryIds, NEW n \in Int
    PROVE  /\ Alike(d, WithRefs(d, e, n)) /\ WithRefs(d, e, n).fault = d.fault
           /\ WithRefs(d, e, n).tabs = d.tabs
           /\ \A f \in EntryIds : WithRefs(d, e, n).ents[f].tab = d.ents[f].tab
           /\ WithRefs(d, e, n).tables = d.tables
           /\ WithRefs(d, e, n).ents[e].refs = n
  <1> DEFINE y == [d.ents[e] EXCEPT !.refs = n]
  <1>1. d.ents[e] \in Entry
    BY DEF Db
  <1>2. y \in Entry /\ y.live = d.ents[e].live /\ y.deleted = d.ents[e].deleted
        /\ y.tab = d.ents[e].tab /\ y.key = d.ents[e].key /\ y.writing = d.ents[e].writing
        /\ y.len = d.ents[e].len /\ y.lru_next = d.ents[e].lru_next
        /\ y.lru_prev = d.ents[e].lru_prev /\ y.exp = d.ents[e].exp /\ y.file = d.ents[e].file
        /\ y.refs = n /\ y.block = d.ents[e].block
    BY <1>1 DEF Entry
  <1>3. WithRefs(d, e, n) = WithEntry(d, e, y)
    BY DEF WithRefs, WithEntry, Db
  <1> HIDE DEF y
  <1>4. Alike(d, WithEntry(d, e, y))
    BY <1>2, EntryAlike DEF Kept
  <1> QED BY <1>2, <1>3, <1>4, SetEntry

\* No key of d is in table t.
NoKeys(d, t) == \A e \in Kept(d) : d.ents[e].tab # t

\* The count of a table.
LEMMA TableRefsAlike ==
    ASSUME NEW d \in Db, NEW t \in TableIds, NEW n \in Int
    PROVE  LET r == [d EXCEPT !.tabs[t].refs = n]
           IN  Alike(d, r) /\ r.fault = d.fault /\ r.ents = d.ents
  <1> DEFINE r == [d EXCEPT !.tabs[t].refs = n]
  <1>1. /\ r \in Db /\ r.ents = d.ents
        /\ \A s \in TableIds : s # t => r.tabs[s] = d.tabs[s]
        /\ r.tabs[t].live = d.tabs[t].live
        /\ r.tabs[t].deleted = d.tabs[t].deleted /\ r.tabs[t].slot = d.tabs[t].slot
    BY SetTableRefs
  <1>2. r.lru_head = d.lru_head /\ r.lru_tail = d.lru_tail /\ r.size = d.size /\ r.keys = d.keys
        /\ r.orphan = d.orphan /\ r.fault = d.fault
    BY DEF Db
  <1> HIDE DEF r
  <1>3. \A s \in TableIds : SameTable(d, r, s)
    BY <1>1 DEF SameTable
  <1>4. Alike(d, r)
    BY <1>1, <1>2, <1>3, TablesAlike
  <1> QED BY <1>1, <1>2, <1>4 DEF r

\* Table t is set to y, and the names to N.
WithTable(d, t, y, N) == [d EXCEPT !.tabs = [d.tabs EXCEPT ![t] = y], !.tables = N]

\* A table without keys is replaced by another one without keys.
LEMMA TableAlike ==
    ASSUME NEW d \in Db, NEW t \in TableIds, NoKeys(d, t), NEW y \in Table,
           \A h \in Hashes : y.slot[h] \in {d.tabs[t].slot[h], Null},
           NEW N \in [TableNames -> TableIds \cup {Null}]
    PROVE  LET r == WithTable(d, t, y, N)
           IN  /\ Alike(d, r) /\ r.fault = d.fault /\ r.ents = d.ents /\ r.tables = N
               /\ \A s \in TableIds : r.tabs[s] = IF s = t THEN y ELSE d.tabs[s]
  <1> DEFINE T == [d.tabs EXCEPT ![t] = y]
             r == [d EXCEPT !.tabs = T, !.tables = N]
  <1>1. T \in [TableIds -> Table] /\ \A s \in TableIds : T[s] = IF s = t THEN y ELSE d.tabs[s]
    BY DEF Db
  <1> HIDE DEF T
  <1>2. /\ r \in Db /\ r.ents = d.ents /\ r.tabs = T /\ r.tables = N /\ r.lru_head = d.lru_head
        /\ r.lru_tail = d.lru_tail /\ r.size = d.size /\ r.keys = d.keys /\ r.orphan = d.orphan
        /\ r.fault = d.fault
    BY <1>1 DEF Db
  <1> HIDE DEF r
  <1>3. \A s \in TableIds : SameTable(d, r, s)
    BY <1>1, <1>2 DEF SameTable, NoKeys
  <1>4. Alike(d, r)
    BY <1>2, <1>3, TablesAlike
  <1> QED BY <1>1, <1>2, <1>4 DEF r, T, WithTable

\* db_table_actually_delete of a table without keys.
LEMMA DropAlike ==
    ASSUME NEW d \in Db, NEW t \in TableIds, NoKeys(d, t)
    PROVE  LET r == db_table_actually_delete(d, t)
           IN  Alike(d, r) /\ r.fault = d.fault /\ r.ents = d.ents
  <1> DEFINE N == [d.tables EXCEPT ![d.tabs[t].name] = Null]
  <1>1. DeadTable \in Table /\ \A h \in Hashes : DeadTable.slot[h] = Null
    BY DEF DeadTable, Table, Ptr
  <1>2. N \in [TableNames -> TableIds \cup {Null}]
    BY DEF Db
  <1>3. db_table_actually_delete(d, t) = WithTable(d, t, DeadTable, N)
    BY DEF db_table_actually_delete, Db, WithTable
  <1> DEFINE r == WithTable(d, t, DeadTable, N)
  <1> HIDE DEF N
  <1>4. \A h \in Hashes : DeadTable.slot[h] \in {d.tabs[t].slot[h], Null}
    BY <1>1
  <1>5. Alike(d, r) /\ r.fault = d.fault /\ r.ents = d.ents
    BY <1>1, <1>2, <1>4, TableAlike
  <1> QED BY <1>3, <1>5

\* What is recorded of an assertion leaves the bookkeeping alone.
LEMMA AssertAlike ==
    ASSUME NEW d \in Db, NEW t \in TableIds
    PROVE  LET r == AssertNamed(d, t)
           IN  /\ Alike(d, r) /\ r.fault = d.fault /\ r.ents = d.ents /\ r.tabs = d.tabs
               /\ r.tables = d.tables
               /\ r.nameless = (d.nameless \/ d.tables[d.tabs[t].name] = Null)
  <1> DEFINE b == d.nameless \/ d.tables[d.tabs[t].name] = Null
             r == [d EXCEPT !.nameless = b]
  <1>1. b \in BOOLEAN /\ AssertNamed(d, t) = r
    BY DEF Db, AssertNamed
  <1>2. /\ r \in Db /\ r.ents = d.ents /\ r.tabs = d.tabs /\ r.lru_head = d.lru_head
        /\ r.lru_tail = d.lru_tail /\ r.size = d.size /\ r.keys = d.keys /\ r.orphan = d.orphan
        /\ r.fault = d.fault /\ r.tables = d.tables /\ r.nameless = b
    <2> HIDE DEF b
    <2> QED BY <1>1 DEF Db
  <1> HIDE DEF r
  <1>3. \A s \in TableIds : SameTable(d, r, s)
    BY <1>2 DEF SameTable
  <1>4. Alike(d, r)
    BY <1>2, <1>3, TablesAlike
  <1> QED BY <1>1, <1>2, <1>4

\* The hash set of a table without keys is destroyed and its name dropped.
LEMMA MarkAlike ==
    ASSUME NEW d \in Db, NEW t \in TableIds, NoKeys(d, t)
    PROVE  LET r == [d EXCEPT !.tabs[t].deleted = TRUE, !.tables[d.tabs[t].name] = Null]
           IN  Alike(d, r) /\ r.fault = d.fault /\ r.ents = d.ents
               /\ r.tabs[t].live = d.tabs[t].live
  <1> DEFINE N == [d.tables EXCEPT ![d.tabs[t].name] = Null]
             y == [d.tabs[t] EXCEPT !.deleted = TRUE]
  <1>1. d.tabs[t] \in Table
    BY DEF Db
  <1>2. y \in Table /\ y.slot = d.tabs[t].slot /\ y.live = d.tabs[t].live
    BY <1>1 DEF Table
  <1>3. N \in [TableNames -> TableIds \cup {Null}]
    BY DEF Db
  <1>4. [d EXCEPT !.tabs[t].deleted = TRUE, !.tables[d.tabs[t].name] = Null] =
            WithTable(d, t, y, N)
    BY DEF Db, WithTable
  <1> DEFINE r == WithTable(d, t, y, N)
  <1> HIDE DEF N, y
  <1>5. \A h \in Hashes : y.slot[h] \in {d.tabs[t].slot[h], Null}
    BY <1>2
  <1>6. /\ Alike(d, r) /\ r.fault = d.fault /\ r.ents = d.ents
        /\ \A s \in TableIds : r.tabs[s] = IF s = t THEN y ELSE d.tabs[s]
    BY <1>2, <1>3, <1>5, TableAlike
  <1>7. r.tabs[t].live = d.tabs[t].live
    BY <1>2, <1>6
  <1> QED BY <1>4, <1>6, <1>7

\* A table that cannot be used has no keys.
LEMMA UnusableEmpty ==
    ASSUME NEW d, NEW k, Fine(d, k), NEW t \in TableIds, Unusable(d, t)
    PROVE  NoKeys(d, t) /\ \A h \in Hashes : d.tabs[t].slot[h] = Null
  <1>1. \A e \in Kept(d) : AtHome(d, e)
    BY DEF Fine
  <1>2. NoKeys(d, t)
    BY <1>1 DEF NoKeys, AtHome
  <1>3. \A h \in Hashes : SlotHolds(d, t, h)
    BY DEF Fine
  <1> QED BY <1>2, <1>3 DEF NoKeys, SlotHolds

\* A table has keys when its hash set is not empty.
LEMMA EmptySet ==
    ASSUME NEW d, NEW k, Fine(d, k), NEW t \in TableIds
    PROVE  Entries(d, t) = {} <=> NoKeys(d, t)
  <1>1. \A e \in Kept(d) : AtHome(d, e)
    BY DEF Fine
  <1>2. \A h \in Hashes : SlotHolds(d, t, h)
    BY DEF Fine
  <1>3. ASSUME Entries(d, t) = {}, NEW e \in Kept(d) PROVE d.ents[e].tab # t
    <2> SUFFICES ASSUME d.ents[e].tab = t PROVE FALSE
      OBVIOUS
    <2>1. d.tabs[t].slot[KeyHash[d.ents[e].key]] = e /\ KeyHash[d.ents[e].key] \in Hashes
      BY <1>1 DEF AtHome, Hashes
    <2>2. e # Null
      BY DbAssumption DEF Kept
    <2> QED BY <1>3, <2>1, <2>2 DEF Entries
  <1>4. ASSUME NoKeys(d, t) PROVE Entries(d, t) = {}
    BY <1>2, <1>4 DEF NoKeys, SlotHolds, Entries
  <1> QED BY <1>3, <1>4 DEF NoKeys

\* db_table_deref leaves the bookkeeping alone, and does not fail on a table
\* in memory.
LEMMA TableDerefAlike ==
    ASSUME NEW d, NEW k, Fine(d, k), NEW t \in TableIds, NEW b \in BOOLEAN,
           b => NoKeys(d, t)
    PROVE  LET r == db_table_deref(d, t, b)
           IN  /\ Alike(d, r) /\ r.ents = d.ents
               /\ d.tabs[t].live => r.fault = d.fault
  <1> DEFINE n  == d.tabs[t].refs - 1
             d1 == [d EXCEPT !.tabs[t].refs = n]
  <1>1. d \in Db /\ d.tabs[t].refs \in Int
    BY DbFields DEF Fine
  <1>2. n \in Int
    BY <1>1
  <1>3. CASE ~ d.tabs[t].live
    <2>1. db_table_deref(d, t, b) = Fault(d, "freed table")
      BY <1>3 DEF db_table_deref
    <2> DEFINE what == "freed table"
    <2>2. what \in Faults
      BY Zenon DEF Faults
    <2>3. db_table_deref(d, t, b) = Fault(d, what)
      BY <2>1
    <2> HIDE DEF what
    <2>4. Alike(d, Fault(d, what)) /\ Fault(d, what).ents = d.ents
      BY <1>1, <2>2, FaultAlike
    <2> QED BY <1>3, <2>3, <2>4
  <1>4. CASE d.tabs[t].live
    <2>1. db_table_deref(d, t, b) = IF d1.tabs[t].refs = 0 /\ (b \/ d1.tabs[t].deleted)
                                    THEN db_table_actually_delete(d1, t) ELSE d1
      BY <1>1, <1>4 DEF db_table_deref
    <2> HIDE DEF n
    <2>2. Alike(d, d1) /\ d1.fault = d.fault /\ d1.ents = d.ents
      BY <1>1, <1>2, TableRefsAlike
    <2>3. Fine(d1, k) /\ d1 \in Db
      BY <2>2, AlikeFine DEF Fine
    <2> HIDE DEF d1
    <2>4. CASE b \/ d1.tabs[t].deleted
      <3>1. NoKeys(d1, t)
        <4>1. CASE b
          BY <2>2, <4>1 DEF NoKeys, Alike, SameKey
        <4>2. CASE d1.tabs[t].deleted
          BY <2>3, <4>2, UnusableEmpty DEF Unusable
        <4> QED BY <2>4, <4>1, <4>2
      <3> DEFINE r == db_table_actually_delete(d1, t)
      <3>2. Alike(d1, r) /\ r.fault = d1.fault /\ r.ents = d1.ents
        BY <2>3, <3>1, DropAlike
      <3> HIDE DEF r
      <3>3. Alike(d, r)
        BY <2>2, <3>2, AlikeTrans
      <3> QED BY <2>1, <2>2, <3>2, <3>3 DEF r
    <2>5. CASE ~ (b \/ d1.tabs[t].deleted)
      BY <2>1, <2>2, <2>5
    <2> QED BY <2>4, <2>5
  <1> QED BY <1>1, <1>3, <1>4, DbFields

\* db_delete_table_entry of a table without keys.
LEMMA DeleteTableAlike ==
    ASSUME NEW d, NEW k, Fine(d, k), NEW t \in TableIds, NoKeys(d, t), d.tabs[t].live
    PROVE  LET r == db_delete_table_entry(d, t)
           IN  Alike(d, r) /\ r.fault = d.fault /\ r.ents = d.ents
  <1> DEFINE d0 == AssertNamed(d, t)
             d1 == [d0 EXCEPT !.tabs[t].deleted = TRUE, !.tables[d0.tabs[t].name] = Null]
             r == db_table_deref(d1, t, TRUE)
  <1>1. Alike(d, d0) /\ d0.fault = d.fault /\ d0.ents = d.ents /\ d0.tabs = d.tabs
    BY AssertAlike DEF Fine
  <1>2. db_delete_table_entry(d, t) = r
    BY <1>1 DEF db_delete_table_entry
  <1> HIDE DEF d0
  <1>3. d0 \in Db /\ NoKeys(d0, t) /\ d0.tabs[t].live
    BY <1>1 DEF NoKeys, Alike, SameKey, Fine
  <1>4. Alike(d0, d1) /\ d1.fault = d0.fault /\ d1.ents = d0.ents /\ d1.tabs[t].live
    BY <1>3, MarkAlike
  <1> HIDE DEF d1
  <1>5. Alike(d, d1) /\ d1.fault = d.fault /\ d1.ents = d.ents
    BY <1>1, <1>4, AlikeTrans
  <1>6. Fine(d1, k) /\ NoKeys(d1, t)
    BY <1>5, AlikeFine DEF NoKeys, Alike, SameKey
  <1>7. Alike(d1, r) /\ r.ents = d1.ents /\ r.fault = d1.fault
    BY <1>4, <1>6, TableDerefAlike
  <1> HIDE DEF r
  <1> QED BY <1>2, <1>5, <1>7, AlikeTrans

\* An entry that is no key is freed.
LEMMA FreeAlike ==
    ASSUME NEW d, d \in Db, NEW e \in EntryIds, e \notin Kept(d)
    PROVE  LET r == db_entry_actually_delete(d, e)
           IN  Alike(d, r) /\ r.fault = d.fault
               /\ r.tabs = d.tabs /\ r.tables = d.tables
               /\ r.nameless = d.nameless /\ ~ r.ents[e].live
               /\ \A f \in EntryIds : f # e => r.ents[f] = d.ents[f]
  <1> DEFINE d1 == Orphan(d, e)
             u  == d.used \ {d.ents[e].block}
             d2 == [d1 EXCEPT !.used = u]
             r  == WithEntry(d2, e, DeadEntry)
  <1>1. db_entry_actually_delete(d, e) = r
    BY DEF db_entry_actually_delete, WithEntry, Orphan, Db
  <1>2. d.ents[e].file \in BOOLEAN /\ d.orphan \in BOOLEAN /\ u \in SUBSET Blocks
    BY DEF Db, Entry
  <1>3. /\ d2 \in Db /\ d2.ents = d.ents /\ d2.tabs = d.tabs /\ d2.tables = d.tables
        /\ d2.nameless = d.nameless
        /\ d2.lru_head = d.lru_head
        /\ d2.lru_tail = d.lru_tail /\ d2.size = d.size /\ d2.keys = d.keys
        /\ d2.orphan = (d.orphan \/ d.ents[e].file) /\ d2.fault = d.fault
    <2> HIDE DEF u
    <2> QED BY <1>2 DEF Db, Orphan
  <1> HIDE DEF d2
  <1>4. Alike(d, d2)
    <2>1. Kept(d2) = Kept(d) /\ \A f \in Kept(d) : SameKey(d, d2, f)
      BY <1>3 DEF Kept, SameKey
    <2>2. FilesOK(d) => FilesOK(d2)
      BY <1>2, <1>3, <2>1 DEF FilesOK, IsFile
    <2>3. \A t \in TableIds : SameTable(d, d2, t)
      BY <1>3 DEF SameTable
    <2> QED BY <1>3, <2>1, <2>2, <2>3 DEF Alike
  <1>5. DeadEntry \in Entry /\ DeadEntry.live = FALSE /\ DeadEntry.file = FALSE
    BY DEF DeadEntry, Entry, Ptr
  <1>6. e \notin Kept(d2)
    BY <1>4 DEF Alike
  <1>7. Alike(d2, r)
    <2> HIDE DEF r
    <2> QED BY <1>3, <1>5, <1>6, EntryAlike DEF r
  <1>8. /\ r.fault = d2.fault /\ r.tabs = d2.tabs /\ r.tables = d2.tables
        /\ r.nameless = d2.nameless
        /\ \A f \in EntryIds : r.ents[f] = IF f = e THEN DeadEntry ELSE d2.ents[f]
    BY <1>3, <1>5, SetEntry
  <1> HIDE DEF r
  <1>9. Alike(d, r)
    BY <1>4, <1>7, AlikeTrans
  <1> QED BY <1>1, <1>3, <1>5, <1>8, <1>9

\* db_entry_incref
LEMMA IncrefAlike ==
    ASSUME NEW d \in Db, NEW e \in EntryIds, NEW b \in BOOLEAN
    PROVE  LET r == db_entry_incref(d, e, b)
           IN  Alike(d, r) /\ r.fault = d.fault /\ r \in Db
               /\ r.ents = WithRefs(d, e, d.ents[e].refs + 1).ents
               /\ \A t \in TableIds : r.tabs[t].live = d.tabs[t].live
  <1> DEFINE n  == d.ents[e].refs + 1
             d1 == WithRefs(d, e, n)
             t  == d.ents[e].tab
             m  == d1.tabs[t].refs + 1
             d2 == [d1 EXCEPT !.tabs[t].refs = m]
  <1>1. n \in Int /\ t \in TableIds \cup {Null}
    BY DbFields
  <1>2. db_entry_incref(d, e, b) = IF b THEN db_table_incref(d1, t) ELSE d1
    BY DEF db_entry_incref, WithRefs
  <1>3. Alike(d, d1) /\ d1.fault = d.fault /\ d1 \in Db /\ d1.tabs = d.tabs
    <2> HIDE DEF n
    <2> QED BY <1>1, RefsAlike DEF Alike
  <1> HIDE DEF d1
  <1>4. CASE b /\ t # Null
    <2>1. t \in TableIds /\ m \in Int
      BY <1>1, <1>3, <1>4, DbFields
    <2>2. db_table_incref(d1, t) = d2
      BY DEF db_table_incref
    <2> HIDE DEF m, t
    <2>3. Alike(d1, d2) /\ d2.fault = d1.fault /\ d2.ents = d1.ents
      BY <1>3, <2>1, TableRefsAlike
    <2>4. \A s \in TableIds : d2.tabs[s].live = d1.tabs[s].live
      BY <1>3, <2>1, SetTableRefs
    <2>5. Alike(d, d2) /\ d2 \in Db
      BY <1>3, <2>3, AlikeTrans DEF Alike
    <2> QED BY <1>2, <1>3, <1>4, <2>2, <2>3, <2>4, <2>5 DEF d1
  <1>5. CASE b /\ t = Null
    <2>1. db_table_incref(d1, t) = d1
      BY <1>3, <1>5, NoTableIncref
    <2> QED BY <1>2, <1>3, <1>5, <2>1 DEF d1
  <1>6. CASE ~ b
    BY <1>2, <1>3, <1>6 DEF d1
  <1> QED BY <1>4, <1>5, <1>6

\* db_entry_deref leaves the bookkeeping alone, and does not fail when the
\* table it counts down is in memory.
LEMMA DerefAlike ==
    ASSUME NEW d, NEW k, Fine(d, k), NEW e \in EntryIds, NEW b \in BOOLEAN
    PROVE  LET r == db_entry_deref(d, e, b)
               t == d.ents[e].tab
           IN  /\ Alike(d, r)
               /\ (b /\ t # Null => d.tabs[t].live) => r.fault = d.fault
  <1> DEFINE n  == d.ents[e].refs - 1
             d1 == WithRefs(d, e, n)
             t  == d.ents[e].tab
             d2 == IF b /\ t # Null THEN db_table_deref(d1, t, FALSE) ELSE d1
  <1>0. d \in Db
    BY DEF Fine
  <1>1. n \in Int /\ t \in TableIds \cup {Null}
    BY <1>0, DbFields
  <1>2. db_entry_deref(d, e, b) = IF d2.ents[e].refs = 0 /\ d2.ents[e].deleted
                                  THEN db_entry_actually_delete(d2, e) ELSE d2
    BY DEF db_entry_deref, WithRefs
  <1>3. Alike(d, d1) /\ d1.fault = d.fault /\ d1.tabs = d.tabs
    <2> HIDE DEF n
    <2> QED BY <1>0, <1>1, RefsAlike
  <1>4. Fine(d1, k)
    BY <1>3, AlikeFine
  <1> HIDE DEF d1
  <1>5. Alike(d1, d2) /\ ((b /\ t # Null => d.tabs[t].live) => d2.fault = d.fault)
    <2>1. CASE b /\ t # Null
      <3> DEFINE q == db_table_deref(d1, t, FALSE)
      <3>1. t \in TableIds /\ d2 = q
        BY <1>1, <2>1
      <3>2. Alike(d1, q) /\ (d1.tabs[t].live => q.fault = d1.fault)
        <4> HIDE DEF t
        <4> QED BY <1>4, <3>1, TableDerefAlike
      <3> QED BY <1>3, <2>1, <3>1, <3>2
    <2>2. CASE ~ (b /\ t # Null)
      <3>1. d2 = d1
        BY <2>2
      <3>2. Alike(d1, d1)
        BY <1>3 DEF Alike, SameKey, SameTable
      <3> QED BY <1>3, <2>2, <3>1, <3>2
    <2> QED BY <2>1, <2>2
  <1> HIDE DEF d2
  <1>6. Alike(d, d2) /\ d2 \in Db
    BY <1>3, <1>5, AlikeTrans DEF Alike
  <1>7. CASE d2.ents[e].refs = 0 /\ d2.ents[e].deleted
    <2> DEFINE r == db_entry_actually_delete(d2, e)
    <2>1. e \notin Kept(d2)
      BY <1>7 DEF Kept
    <2>2. Alike(d2, r) /\ r.fault = d2.fault
      BY <1>6, <2>1, FreeAlike
    <2>3. db_entry_deref(d, e, b) = r
      BY <1>2, <1>7
    <2> HIDE DEF r
    <2>4. Alike(d, r)
      BY <1>6, <2>2, AlikeTrans
    <2> QED BY <1>5, <2>2, <2>3, <2>4
  <1>8. CASE ~ (d2.ents[e].refs = 0 /\ d2.ents[e].deleted)
    <2>1. db_entry_deref(d, e, b) = d2
      BY <1>2, <1>8
    <2> QED BY <1>5, <1>6, <2>1
  <1> QED BY <1>7, <1>8

-----------------------------------------------------------------------------
(* Deleting and evicting keys.                                             *)

\* The number of keys is counted up or down.
LEMMA KeysFine ==
    ASSUME NEW d, NEW k, Fine(d, k), NEW j \in Int, NEW r \in Db, r.keys = d.keys + j,
           r.ents = d.ents, r.tabs = d.tabs, r.lru_head = d.lru_head, r.lru_tail = d.lru_tail,
           r.size = d.size, r.orphan = d.orphan
    PROVE  Fine(r, k + j) /\ Kept(r) = Kept(d)
  <1>1. d \in Db /\ k \in Int /\ k + j \in Int /\ Kept(r) = Kept(d) /\ Complete(r) = Complete(d)
        /\ Lens(r) = Lens(d) /\ Kept(d) \subseteq EntryIds
    BY DEF Fine, Kept, Complete, Lens
  <1>2. ListOK(r)
    BY <1>1, ListSame DEF Fine
  <1>3. \A e \in Kept(r) : AtHome(r, e)
    BY <1>1 DEF Fine, AtHome, Unusable
  <1>4. \A t \in TableIds, h \in Hashes : SlotHolds(r, t, h)
    BY <1>1 DEF Fine, SlotHolds
  <1>5. CountOK(r, k + j)
    <2>1. IsFiniteSet(Kept(d)) /\ Cardinality(Kept(d)) \in Nat /\ d.keys \in Int
      BY <1>1, DbAssumption, FS_Subset, FS_CardinalityType DEF Db
    <2>2. Counted => d.keys = Cardinality(Kept(d)) + k /\ d.size = SumOver(Lens(d), Kept(d))
      BY DEF Fine, CountOK
    <2> QED BY <1>1, <2>1, <2>2 DEF CountOK
  <1>6. FilesOK(r) /\ ValuesOK(r)
    BY <1>1 DEF Fine, FilesOK, ValuesOK, IsFile
  <1> QED BY <1>1, <1>2, <1>3, <1>4, <1>5, <1>6 DEF Fine

\* A deleted entry forgets its table.
LEMMA ForgetAlike ==
    ASSUME NEW d \in Db, NEW e \in EntryIds, e \notin Kept(d)
    PROVE  LET r == [d EXCEPT !.ents[e].tab = Null]
           IN  Alike(d, r) /\ r.fault = d.fault /\ r.tabs = d.tabs /\ r.ents[e].tab = Null
  <1> DEFINE y == [d.ents[e] EXCEPT !.tab = Null]
  <1>1. d.ents[e] \in Entry
    BY DEF Db
  <1>2. y \in Entry /\ y.live = d.ents[e].live /\ y.deleted = d.ents[e].deleted
        /\ y.file = d.ents[e].file /\ y.tab = Null
    BY <1>1 DEF Entry
  <1>3. [d EXCEPT !.ents[e].tab = Null] = WithEntry(d, e, y)
    BY DEF WithEntry, Db
  <1> HIDE DEF y
  <1>4. Alike(d, WithEntry(d, e, y))
    BY <1>2, EntryAlike DEF Kept
  <1>5. WithEntry(d, e, y).fault = d.fault /\ WithEntry(d, e, y).tabs = d.tabs
        /\ WithEntry(d, e, y).ents[e] = y
    BY <1>2, SetEntry
  <1> QED BY <1>2, <1>3, <1>4, <1>5

\* r is d without the key e.
Without(d, r, k, e) ==
    /\ Fine(r, k) /\ Kept(r) = Kept(d) \ {e}
    /\ e \in Kept(d) => r.fault = d.fault /\ r.size = d.size - d.ents[e].len

\* What is alike lacks the same key.
LEMMA WithoutAlike ==
    ASSUME NEW d, NEW r, NEW q, NEW k, NEW e, Without(d, r, k, e), Alike(r, q),
           e \in Kept(d) => q.fault = r.fault
    PROVE  Without(d, q, k, e)
  <1>1. Fine(q, k)
    BY AlikeFine DEF Without
  <1> QED BY <1>1 DEF Without, Alike

\* A fault takes nothing away.
LEMMA WithoutFault ==
    ASSUME NEW d, NEW k, Fine(d, k), NEW e, e \notin Kept(d), NEW what \in Faults
    PROVE  Without(d, Fault(d, what), k, e)
  <1>1. Alike(d, Fault(d, what))
    BY FaultAlike DEF Fine
  <1>2. Fine(Fault(d, what), k)
    BY <1>1, AlikeFine
  <1> QED BY <1>1, <1>2 DEF Without, Alike

\* db_entry_handle_delete deletes a key; it fails on an entry that is none.
LEMMA HandleDeleteFine ==
    ASSUME NEW d, NEW k, Fine(d, k), NEW e \in EntryIds, d.ents[e].live
    PROVE  LET r == db_entry_handle_delete(d, e)
           IN  /\ Without(d, r, k, e)
               /\ e \in Kept(d) /\ r.ents[e].tab # Null => r.tabs[r.ents[e].tab].live
  <1> DEFINE t  == d.ents[e].tab
             r  == db_entry_handle_delete(d, e)
             d0 == Unlink(d, e)
             d1 == [d0 EXCEPT !.keys = @ - 1]
             d2 == db_delete_table_entry(d1, t)
             d3 == [d2 EXCEPT !.ents[e].tab = Null]
  <1>1. d \in Db /\ t \in TableIds \cup {Null} /\ k \in Int /\ d.ents[e].deleted \in BOOLEAN
    BY DbFields DEF Fine
  <1>2. CASE e \notin Kept(d)
    <2>1. d.ents[e].deleted
      BY <1>1, <1>2 DEF Kept
    <2>2. r = Fault(d, "null table") \/ r = Fault(d, "destroyed hash set")
          \/ r = Fault(d, "freed table") \/ r = Fault(d, "deleted twice")
      BY <2>1 DEF db_entry_handle_delete, Misused
    <2>3. \E what \in Faults : r = Fault(d, what)
      BY Zenon, <2>2 DEF Faults
    <2> HIDE DEF r
    <2>4. Without(d, r, k, e)
      BY <1>2, <2>3, WithoutFault
    <2> QED BY <1>2, <2>4 DEF r
  <1>3. CASE e \in Kept(d)
    <2>1. t \in TableIds /\ t # Null /\ ~ Unusable(d, t) /\ ~ d.ents[e].deleted
      BY <1>3, DbAssumption DEF Kept, Fine, AtHome
    <2>2. r = IF Entries(d1, t) # {} THEN d1 ELSE d3
      BY <2>1 DEF db_entry_handle_delete
    <2>3. Fine(d0, k + 1) /\ Kept(d0) = Kept(d) \ {e} /\ d0.fault = d.fault
          /\ d0.size = d.size - d.ents[e].len
      BY <1>3, UnlinkFine
    <2>4. d0 \in Db /\ d0.ents[e].tab = t /\ d0.tabs[t].live
      <3>1. Unlinked(d, d0, e)
        BY <1>1, UnlinkShape
      <3> HIDE DEF d0
      <3> QED BY <2>1, <3>1 DEF Unlinked, Marked, SameTables, Unusable
    <2> HIDE DEF d0, t, r
    <2>5. /\ d1 \in Db /\ d1.keys = d0.keys + (-1) /\ d1.ents = d0.ents /\ d1.tabs = d0.tabs
          /\ d1.lru_head = d0.lru_head /\ d1.lru_tail = d0.lru_tail
          /\ d1.size = d0.size /\ d1.orphan = d0.orphan /\ d1.fault = d0.fault
      BY <2>4 DEF Db
    <2> HIDE DEF d1
    <2>6. Fine(d1, (k + 1) + (-1)) /\ Kept(d1) = Kept(d0)
      BY <2>3, <2>5, KeysFine
    <2>7. (k + 1) + (-1) = k
      BY <1>1
    <2>8. Without(d, d1, k, e) /\ Fine(d1, k) /\ d1 \in Db /\ e \notin Kept(d1)
      BY <2>3, <2>5, <2>6, <2>7 DEF Without
    <2>9. CASE Entries(d1, t) # {}
      BY <2>2, <2>4, <2>5, <2>8, <2>9 DEF r, t
    <2>10. CASE Entries(d1, t) = {}
      <3>1. NoKeys(d1, t)
        BY <2>1, <2>8, <2>10, EmptySet
      <3>2. Alike(d1, d2) /\ d2.fault = d1.fault
        BY <2>1, <2>4, <2>5, <2>8, <3>1, DeleteTableAlike
      <3> HIDE DEF d2
      <3>3. Without(d, d2, k, e) /\ d2 \in Db /\ e \notin Kept(d2)
        BY <2>8, <3>2, WithoutAlike DEF Alike
      <3>4. Alike(d2, d3) /\ d3.fault = d2.fault /\ d3.ents[e].tab = Null
        BY <3>3, ForgetAlike
      <3> HIDE DEF d3
      <3>5. Without(d, d3, k, e)
        BY <3>3, <3>4, WithoutAlike
      <3> QED BY <2>2, <2>10, <3>4, <3>5 DEF r
    <2> QED BY <2>9, <2>10
  <1> QED BY <1>2, <1>3

-----------------------------------------------------------------------------
(* Loops over keys.                                                        *)

\* What holds before a loop and is passed on by each round holds after it.
LEMMA Stages ==
    ASSUME NEW S \in SUBSET EntryIds, NEW g, NEW Q, g[{}] \in Q[{}],
           \A s \in SUBSET S : s # {} /\ g[s \ {Pick(s)}] \in Q[s \ {Pick(s)}] => g[s] \in Q[s]
    PROVE  g[S] \in Q[S]
  <1> DEFINE C == {s \in SUBSET S : g[s] \notin Q[s]}
  <1>1. C = {}
    <2> SUFFICES ASSUME C # {} PROVE FALSE
      OBVIOUS
    <2>1. PICK s \in C : \A u \in C : ~ (Cardinality(u) < Cardinality(s))
      <3>1. C \in SUBSET (SUBSET EntryIds)
        OBVIOUS
      <3> HIDE DEF C
      <3> QED BY <3>1, Smallest
    <2>2. s \in SUBSET EntryIds /\ s \in SUBSET S /\ g[s] \notin Q[s] /\ s # {}
      OBVIOUS
    <2>3. Pick(s) \in s
      BY <2>2, PickIn
    <2>4. s \ {Pick(s)} \notin C
      <3>1. Cardinality(s \ {Pick(s)}) < Cardinality(s)
        BY <2>2, <2>3, Smaller
      <3> HIDE DEF C
      <3> QED BY <2>1, <3>1
    <2>5. g[s \ {Pick(s)}] \in Q[s \ {Pick(s)}]
      BY <2>2, <2>4
    <2> QED BY <2>2, <2>5
  <1> QED BY <1>1

\* The rounds of db_expire_cursor.
LEMMA EvictFold ==
    ASSUME NEW S \in SUBSET EntryIds, NEW base \in Db
    PROVE  \E g : /\ FoldSet(LAMBDA e, acc : Evict(acc, e), base, S) = g[S]
                  /\ g[{}] = base
                  /\ \A s \in SUBSET S : s # {} => g[s] = Evict(g[s \ {Pick(s)}], Pick(s))
  <1> DEFINE Good == Db
             F == [p \in S \X Good |-> Evict(p[2], p[1])]
             Eq(g) == g = [s \in SUBSET S |-> IF s = {} THEN base
                             ELSE Evict(g[s \ {Pick(s)}], Pick(s))]
             iter == CHOOSE g : Eq(g)
  <1>0. \A e \in S, a \in Good : Evict(a, e) \in Good
    BY EvictShrinks DEF Shrinks
  <1> HIDE DEF Good
  <1>1. F \in [S \X Good -> Good]
    BY <1>0
  <1>2. \A e \in S, a \in Good : F[<<e, a>>] = Evict(a, e)
    OBVIOUS
  <1> HIDE DEF F
  <1>3. IsFiniteSet(S) /\ base \in Good
    BY DbAssumption, FS_Subset DEF Good
  <1>4. PICK g \in [SUBSET S -> Good] : Solution(g, S, base, F)
    BY <1>1, <1>3, LoopExists
  <1>5. \A s \in SUBSET S : s # {} => Pick(s) \in S /\ s \ {Pick(s)} \in SUBSET S
    BY PickIn
  <1>6. Eq(g)
    BY <1>2, <1>4, <1>5 DEF Solution
  <1>7. Eq(iter)
    BY <1>6, Zenon
  <1>8. FoldSet(LAMBDA e, acc : Evict(acc, e), base, S) = iter[S]
    BY DEF FoldSet, MapThenFoldSet, Pick
  <1> HIDE DEF iter
  <1>9. iter[{}] = base /\ \A s \in SUBSET S : s # {} => iter[s] = Evict(iter[s \ {Pick(s)}], Pick(s))
    BY <1>7
  <1> QED BY <1>8, <1>9

\* The rounds of db_table_handle_delete.
LEMMA SoftDeleteFold ==
    ASSUME NEW S \in SUBSET EntryIds, NEW base \in Db
    PROVE  \E g : /\ FoldSet(LAMBDA e, acc : db_entry_handle_softdelete(acc, e), base, S) = g[S]
                  /\ g[{}] = base
                  /\ \A s \in SUBSET S : s # {} => g[s] = db_entry_handle_softdelete(g[s \ {Pick(s)}], Pick(s))
  <1> DEFINE Good == Db
             F == [p \in S \X Good |-> db_entry_handle_softdelete(p[2], p[1])]
             Eq(g) == g = [s \in SUBSET S |-> IF s = {} THEN base
                             ELSE db_entry_handle_softdelete(g[s \ {Pick(s)}], Pick(s))]
             iter == CHOOSE g : Eq(g)
  <1>0. \A e \in S, a \in Good : db_entry_handle_softdelete(a, e) \in Good
    BY SoftDeleteShrinks DEF Shrinks
  <1> HIDE DEF Good
  <1>1. F \in [S \X Good -> Good]
    BY <1>0
  <1>2. \A e \in S, a \in Good : F[<<e, a>>] = db_entry_handle_softdelete(a, e)
    OBVIOUS
  <1> HIDE DEF F
  <1>3. IsFiniteSet(S) /\ base \in Good
    BY DbAssumption, FS_Subset DEF Good
  <1>4. PICK g \in [SUBSET S -> Good] : Solution(g, S, base, F)
    BY <1>1, <1>3, LoopExists
  <1>5. \A s \in SUBSET S : s # {} => Pick(s) \in S /\ s \ {Pick(s)} \in SUBSET S
    BY PickIn
  <1>6. Eq(g)
    BY <1>2, <1>4, <1>5 DEF Solution
  <1>7. Eq(iter)
    BY <1>6, Zenon
  <1>8. FoldSet(LAMBDA e, acc : db_entry_handle_softdelete(acc, e), base, S) = iter[S]
    BY DEF FoldSet, MapThenFoldSet, Pick
  <1> HIDE DEF iter
  <1>9. iter[{}] = base /\ \A s \in SUBSET S : s # {} => iter[s] = db_entry_handle_softdelete(iter[s \ {Pick(s)}], Pick(s))
    BY <1>7
  <1> QED BY <1>8, <1>9

\* The rounds of db_lru_cleanup_percent.
LEMMA CleanupFold ==
    ASSUME NEW S \in SUBSET EntryIds, NEW base \in [d : Db, bytes : Int]
    PROVE  \E g : /\ FoldSet(LAMBDA i, acc : CleanupHead(acc), base, S) = g[S]
                  /\ g[{}] = base
                  /\ \A s \in SUBSET S : s # {} => g[s] = CleanupHead(g[s \ {Pick(s)}])
  <1> DEFINE Good == [d : Db, bytes : Int]
             F == [p \in S \X Good |-> CleanupHead(p[2])]
             Eq(g) == g = [s \in SUBSET S |-> IF s = {} THEN base
                             ELSE CleanupHead(g[s \ {Pick(s)}])]
             iter == CHOOSE g : Eq(g)
  <1>0. \A e \in S, a \in Good : CleanupHead(a) \in Good
    <2> SUFFICES ASSUME NEW a \in Good PROVE CleanupHead(a) \in Good
      OBVIOUS
    <2> DEFINE l == a.d.lru_head
               q1 == db_lru_remove_node(a.d, l)
               q2 == Evict(a.d, l)
               b == a.bytes - a.d.ents[l].len
    <2>1. a \in [d : Db, bytes : Int] /\ a.d \in Db /\ l \in EntryIds \cup {Null}
      BY DEF Db, Ptr
    <2>2. CASE l = Null \/ a.bytes <= 0
      BY <2>2 DEF CleanupHead
    <2>3. CASE l # Null /\ a.bytes > 0 /\ (a.d.ents[l].writing \/ a.d.ents[l].deleted)
      <3>1. CleanupHead(a) = [a EXCEPT !.d = q1]
        BY <2>3 DEF CleanupHead
      <3>2. q1 \in Db
        BY <2>1, <2>3, RemoveNodeCore DEF SameCore
      <3> HIDE DEF q1
      <3> QED BY <2>1, <3>1, <3>2
    <2>4. CASE l # Null /\ a.bytes > 0 /\ ~ (a.d.ents[l].writing \/ a.d.ents[l].deleted)
      <3>1. CleanupHead(a) = [d |-> q2, bytes |-> b]
        BY <2>4 DEF CleanupHead
      <3>2. b \in Int
        BY <2>1, <2>4, DbFields
      <3>3. q2 \in Db
        BY <2>1, <2>4, EvictShrinks DEF Shrinks
      <3> HIDE DEF q2, b
      <3> QED BY <3>1, <3>2, <3>3
    <2> QED BY <2>2, <2>3, <2>4
  <1> HIDE DEF Good
  <1>1. F \in [S \X Good -> Good]
    BY <1>0
  <1>2. \A e \in S, a \in Good : F[<<e, a>>] = CleanupHead(a)
    OBVIOUS
  <1> HIDE DEF F
  <1>3. IsFiniteSet(S) /\ base \in Good
    BY DbAssumption, FS_Subset DEF Good
  <1>4. PICK g \in [SUBSET S -> Good] : Solution(g, S, base, F)
    BY <1>1, <1>3, LoopExists
  <1>5. \A s \in SUBSET S : s # {} => Pick(s) \in S /\ s \ {Pick(s)} \in SUBSET S
    BY PickIn
  <1>6. Eq(g)
    BY <1>2, <1>4, <1>5 DEF Solution
  <1>7. Eq(iter)
    BY <1>6, Zenon
  <1>8. FoldSet(LAMBDA i, acc : CleanupHead(acc), base, S) = iter[S]
    BY DEF FoldSet, MapThenFoldSet, Pick
  <1> HIDE DEF iter
  <1>9. iter[{}] = base /\ \A s \in SUBSET S : s # {} => iter[s] = CleanupHead(iter[s \ {Pick(s)}])
    BY <1>7
  <1> QED BY <1>8, <1>9

\* A key that is replaced is still counted.
LEMMA SoftDeleteFine ==
    ASSUME NEW d, NEW k, Fine(d, k), NEW e \in Kept(d)
    PROVE  LET r == db_entry_handle_softdelete(d, e)
           IN  Fine(r, k + 1) /\ Kept(r) = Kept(d) \ {e} /\ r.fault = d.fault
  <1> DEFINE d1 == Unlink(d, e)
             r  == db_entry_actually_delete(d1, e)
  <1>1. e \in EntryIds /\ ~ d.ents[e].deleted
    BY DEF Kept
  <1>2. db_entry_handle_softdelete(d, e) = IF d1.ents[e].refs = 0 THEN r ELSE d1
    BY <1>1 DEF db_entry_handle_softdelete
  <1>3. Fine(d1, k + 1) /\ Kept(d1) = Kept(d) \ {e} /\ d1.fault = d.fault
    BY UnlinkFine
  <1> HIDE DEF d1
  <1>4. Alike(d1, r) /\ r.fault = d1.fault
    BY <1>1, <1>3, FreeAlike DEF Fine
  <1> HIDE DEF r
  <1>5. Fine(r, k + 1) /\ Kept(r) = Kept(d1)
    BY <1>3, <1>4, AlikeFine DEF Alike
  <1> QED BY <1>2, <1>3, <1>4, <1>5

\* Evict takes a key away.
LEMMA EvictFine ==
    ASSUME NEW d, NEW k, Fine(d, k), NEW e \in Kept(d)
    PROVE  Without(d, Evict(d, e), k, e)
  <1> DEFINE d1 == db_entry_incref(d, e, TRUE)
             d2 == db_entry_handle_delete(d1, e)
             d3 == db_entry_deref(d2, e, TRUE)
             d4 == db_entry_handle_delete(d, e)
  <1>1. e \in EntryIds /\ d.ents[e].live /\ d \in Db
    BY DEF Kept, Fine
  <1>2. CASE d.ents[e].refs # 0
    <2>1. Evict(d, e) = d4
      BY <1>2 DEF Evict
    <2>2. Without(d, d4, k, e)
      BY <1>1, HandleDeleteFine
    <2> QED BY <2>1, <2>2
  <1>3. CASE d.ents[e].refs = 0
    <2>1. Evict(d, e) = d3
      BY <1>3 DEF Evict
    <2>2. Alike(d, d1) /\ d1.fault = d.fault
      BY <1>1, IncrefAlike
    <2> HIDE DEF d1
    <2>3. Fine(d1, k) /\ e \in Kept(d1) /\ d1.ents[e].live
      BY <2>2, AlikeFine DEF Alike, Kept
    <2>4. Without(d1, d2, k, e) /\ (d2.ents[e].tab # Null => d2.tabs[d2.ents[e].tab].live)
      BY <1>1, <2>3, HandleDeleteFine
    <2> HIDE DEF d2
    <2>5. Fine(d2, k)
      BY <2>4 DEF Without
    <2>6. Alike(d2, d3) /\ d3.fault = d2.fault
      BY <1>1, <2>4, <2>5, DerefAlike
    <2> HIDE DEF d3
    <2>7. Without(d1, d3, k, e)
      BY <2>4, <2>6, WithoutAlike
    <2>8. Kept(d1) = Kept(d) /\ d1.size = d.size /\ d1.ents[e].len = d.ents[e].len
      BY <2>2 DEF Alike, SameKey
    <2>9. Without(d, d3, k, e)
      BY <2>2, <2>3, <2>7, <2>8 DEF Without
    <2> QED BY <2>1, <2>9
  <1> QED BY <1>2, <1>3

\* What is found by name is a key.
LEMMA IndexedKept ==
    ASSUME NEW d, NEW k, Fine(d, k)
    PROVE  Indexed(d) \subseteq Kept(d)
  <1>1. d \in Db /\ \A n \in TableNames : d.tables[n] \in TableIds \cup {Null}
    BY DEF Fine, Db
  <1>2. \A t \in TableIds : Entries(d, t) \subseteq Kept(d)
    BY DEF Entries, Fine, SlotHolds
  <1> QED BY <1>1, <1>2 DEF Indexed

\* db_expire_cursor takes the expired keys away, and no others.
LEMMA ExpireFine ==
    ASSUME NEW d, NEW k, Fine(d, k), NEW time
    PROVE  LET r == db_expire_cursor(d, time)
           IN  /\ Fine(r, k) /\ r.fault = d.fault
               /\ Kept(r) = Kept(d) \ {e \in Indexed(d) : Expired(d, e, time)}
               /\ (~ \E e \in Indexed(d) : Expired(d, e, time)) => r = d
  <1> DEFINE S == {e \in Indexed(d) : Expired(d, e, time)}
             r == FoldSet(LAMBDA e, acc : Evict(acc, e), d, S)
             G(s) == {a \in Db : Fine(a, k) /\ a.fault = d.fault /\ Kept(a) = Kept(d) \ s}
             Q == [s \in SUBSET S |-> G(s)]
  <1>1. S \subseteq Kept(d) /\ S \in SUBSET EntryIds /\ d \in Db
    BY IndexedKept DEF Kept, Fine
  <1>2. db_expire_cursor(d, time) = r
    BY DEF db_expire_cursor
  <1>3. (~ \E e \in Indexed(d) : Expired(d, e, time)) <=> S = {}
    OBVIOUS
  <1> HIDE DEF S
  <1>4. PICK g : /\ FoldSet(LAMBDA e, acc : Evict(acc, e), d, S) = g[S]
                 /\ g[{}] = d
                 /\ \A s \in SUBSET S : s # {} => g[s] = Evict(g[s \ {Pick(s)}], Pick(s))
    BY <1>1, EvictFold
  <1>5. r = g[S]
    BY <1>4
  <1> HIDE DEF r
  <1>6. g[{}] \in Q[{}]
    BY <1>1, <1>4
  <1>7. ASSUME NEW s \in SUBSET S, s # {}, g[s \ {Pick(s)}] \in Q[s \ {Pick(s)}] PROVE g[s] \in Q[s]
    <2> DEFINE e == Pick(s)
               a == g[s \ {e}]
               b == Evict(a, e)
    <2>1. e \in s /\ s \ {e} \in SUBSET S
      BY <1>7, PickIn
    <2>2. g[s] = b
      BY <1>4, <1>7
    <2>3. Fine(a, k) /\ a.fault = d.fault /\ Kept(a) = Kept(d) \ (s \ {e})
      BY <1>7, <2>1
    <2> HIDE DEF e, a
    <2>4. e \in Kept(a)
      BY <1>1, <2>1, <2>3
    <2>5. Without(a, b, k, e)
      BY <2>3, <2>4, EvictFine
    <2> HIDE DEF b
    <2>6. Fine(b, k) /\ b.fault = d.fault /\ Kept(b) = Kept(d) \ s /\ b \in Db
      BY <2>1, <2>3, <2>4, <2>5 DEF Without, Fine
    <2> QED BY <2>2, <2>6
  <1>8. g[S] \in Q[S]
    <2> HIDE DEF Q
    <2> QED BY <1>1, <1>6, <1>7, Stages
  <1>9. S = {} => r = d
    BY <1>4, <1>5
  <1> QED BY <1>2, <1>3, <1>5, <1>8, <1>9 DEF S

-----------------------------------------------------------------------------
(* Garbage collection.                                                     *)

\* The head of the list is a complete key, when there is one.
LEMMA HeadComplete ==
    ASSUME NEW d, NEW k, Fine(d, k)
    PROVE  /\ d.lru_head # Null => d.lru_head \in Complete(d)
           /\ d.lru_head = Null <=> Complete(d) = {}
  <1>1. PICK p : List(Complete(d), Nexts(d), Prevs(d), d.lru_head, d.lru_tail, p)
    BY DEF Fine, ListOK
  <1> DEFINE L == Complete(d)
  <1>2. HeadIs(L, p, d.lru_head)
    BY <1>1 DEF List
  <1> HIDE DEF L
  <1>3. /\ d.lru_head # Null => d.lru_head \in L
        /\ d.lru_head = Null <=> L = {}
    BY <1>2 DEF HeadIs
  <1> QED BY <1>3 DEF L

\* Where db_lru_cleanup_percent(d, b) is when it has done n rounds.
Trimming(d, k, b, acc, n) ==
    /\ Fine(acc.d, k) /\ acc.d.fault = d.fault /\ acc.bytes \in Int
    /\ acc.d.size - acc.bytes = d.size - b
    /\ Kept(d) \ Complete(d) \subseteq Kept(acc.d) /\ Shrinks(d, acc.d)
    /\ \/ acc.d.lru_head = Null
       \/ acc.bytes <= 0
       \/ Cardinality(Complete(acc.d)) + n <= Cardinality(EntryIds)

\* One round.
LEMMA TrimmingStep ==
    ASSUME NEW d, NEW k, Fine(d, k), NEW b \in Int, NEW acc, NEW n \in Nat,
           Trimming(d, k, b, acc, n)
    PROVE  Trimming(d, k, b, CleanupHead(acc), n + 1)
  <1> DEFINE a == acc.d
             l == a.lru_head
             q == Evict(a, l)
             m == a.ents[l].len
             r == [d |-> q, bytes |-> acc.bytes - m]
  <1>1. Fine(a, k) /\ a \in Db /\ acc.bytes \in Int /\ a.size \in Int /\ d.size \in Int
    BY DEF Trimming, Fine, Db
  <1>2. CASE l = Null \/ acc.bytes <= 0
    <2>1. CleanupHead(acc) = acc
      BY <1>1, <1>2 DEF CleanupHead
    <2>2. /\ Fine(a, k) /\ a.fault = d.fault /\ acc.bytes \in Int
          /\ a.size - acc.bytes = d.size - b
          /\ Kept(d) \ Complete(d) \subseteq Kept(a) /\ Shrinks(d, a)
      BY DEF Trimming
    <2>3. Trimming(d, k, b, acc, n + 1)
      BY <1>2, <2>2 DEF Trimming
    <2> QED BY <2>1, <2>3
  <1>3. CASE l # Null /\ ~ (acc.bytes <= 0)
    <2>1. l \in Complete(a) /\ l \in Kept(a) /\ l \in EntryIds
          /\ ~ a.ents[l].writing /\ ~ a.ents[l].deleted
      BY <1>1, <1>3, HeadComplete DEF Complete, Kept
    <2>2. CleanupHead(acc) = r
      BY <1>3, <2>1 DEF CleanupHead
    <2>3. Without(a, q, k, l)
      BY <1>1, <2>1, EvictFine
    <2>4. Shrinks(a, q)
      BY <1>1, <2>1, EvictShrinks
    <2>5. m \in Nat
      BY <1>1, <2>1, DbFields
    <2> HIDE DEF q, m, l
    <2>6. Fine(q, k) /\ Kept(q) = Kept(a) \ {l} /\ q.fault = a.fault /\ q.size = a.size - m
      BY <2>1, <2>3 DEF Without, m
    <2>7. Kept(d) \ Complete(d) \subseteq Kept(q)
      <3>1. ASSUME NEW f \in Kept(d), f \notin Complete(d) PROVE f \in Kept(q)
        <4>1. f \in EntryIds /\ d.ents[f].writing
          BY <3>1 DEF Complete, Kept
        <4>2. f \in Kept(a)
          BY <3>1 DEF Trimming
        <4>3. a.ents[f].writing = d.ents[f].writing
          BY <4>1, <4>2 DEF Trimming, Shrinks, KeptEntry, Kept
        <4> QED BY <2>1, <2>6, <4>1, <4>2, <4>3
      <3> QED BY <3>1
    <2>8. Shrinks(d, q)
      BY <2>4, ShrinksTrans DEF Trimming
    <2>9. Complete(q) \subseteq Complete(a) \ {l}
      <3>1. ASSUME NEW f \in Complete(q) PROVE f \in Complete(a) \ {l}
        <4>1. f \in EntryIds /\ f \in Kept(q) /\ q.ents[f].live /\ ~ q.ents[f].writing
          BY <3>1 DEF Complete, Kept
        <4>2. a.ents[f].writing = q.ents[f].writing
          BY <2>4, <4>1 DEF Shrinks, KeptEntry
        <4> QED BY <2>6, <4>1, <4>2 DEF Complete
      <3> QED BY <3>1
    <2>10. Cardinality(Complete(q)) + (n + 1) <= Cardinality(EntryIds)
      <3>1. Complete(a) \in SUBSET EntryIds /\ Cardinality(EntryIds) \in Nat
        BY DbAssumption, FS_CardinalityType DEF Complete, Kept
      <3>2. Cardinality(Complete(a) \ {l}) = Cardinality(Complete(a)) - 1 /\ Cardinality(Complete(a)) \in Nat
        BY <2>1, <3>1, Smaller
      <3>3. IsFiniteSet(Complete(a) \ {l})
        BY <3>1, DbAssumption, FS_Subset
      <3>4. Cardinality(Complete(q)) <= Cardinality(Complete(a) \ {l}) /\ Cardinality(Complete(q)) \in Nat
        BY <2>9, <3>3, FS_Subset, FS_CardinalityType
      <3>5. Cardinality(Complete(a)) + n <= Cardinality(EntryIds)
        BY <1>3 DEF Trimming, l
      <3> QED BY <3>1, <3>2, <3>4, <3>5
    <2>11. q.fault = d.fault /\ acc.bytes - m \in Int /\ q.size - (acc.bytes - m) = d.size - b
      <3>1. a.fault = d.fault /\ a.size - acc.bytes = d.size - b
        BY DEF Trimming
      <3> QED BY <1>1, <2>5, <2>6, <3>1
    <2>12. Trimming(d, k, b, r, n + 1)
      BY <2>6, <2>7, <2>8, <2>10, <2>11 DEF Trimming
    <2> QED BY <2>2, <2>12
  <1> QED BY <1>2, <1>3

\* db_lru_cleanup_percent takes complete keys away, until the size is down by
\* b bytes or there are none left.
LEMMA CleanupFine ==
    ASSUME NEW d, NEW k, Fine(d, k), NEW b \in Int
    PROVE  LET r == db_lru_cleanup_percent(d, b)
           IN  /\ Fine(r, k) /\ r.fault = d.fault /\ Kept(d) \ Complete(d) \subseteq Kept(r)
               /\ r.lru_head = Null \/ r.size <= d.size - b
  <1> DEFINE base == [d |-> d, bytes |-> b]
             w == FoldSet(LAMBDA i, acc : CleanupHead(acc), base, EntryIds)
             G(s) == {acc \in [d : Db, bytes : Int] : Trimming(d, k, b, acc, Cardinality(s))}
             Q == [s \in SUBSET EntryIds |-> G(s)]
  <1>1. d \in Db /\ base \in [d : Db, bytes : Int] /\ base.d = d /\ base.bytes = b
    BY DEF Fine
  <1>2. db_lru_cleanup_percent(d, b) = w.d
    BY DEF db_lru_cleanup_percent
  <1> HIDE DEF base
  <1>3. PICK g : /\ FoldSet(LAMBDA i, acc : CleanupHead(acc), base, EntryIds) = g[EntryIds]
                 /\ g[{}] = base
                 /\ \A s \in SUBSET EntryIds : s # {} => g[s] = CleanupHead(g[s \ {Pick(s)}])
    <2>1. EntryIds \in SUBSET EntryIds
      OBVIOUS
    <2> QED BY <1>1, <2>1, CleanupFold
  <1>4. w = g[EntryIds]
    BY <1>3
  <1> HIDE DEF w
  <1>5. g[{}] \in Q[{}]
    <2>1. Complete(d) \subseteq EntryIds
      BY DEF Complete, Kept
    <2>2. /\ Cardinality({}) = 0 /\ Cardinality(Complete(d)) <= Cardinality(EntryIds)
          /\ Cardinality(Complete(d)) \in Nat
      BY <2>1, DbAssumption, FS_EmptySet, FS_Subset, FS_CardinalityType
    <2>3. Shrinks(d, d)
      BY <1>1, ShrinksRefl
    <2>4. Cardinality(Complete(d)) + 0 <= Cardinality(EntryIds)
      BY <2>2
    <2>5. Trimming(d, k, b, base, 0)
      BY <1>1, <2>3, <2>4 DEF Trimming
    <2> QED BY <1>1, <1>3, <2>2, <2>5
  <1>6. ASSUME NEW s \in SUBSET EntryIds, s # {}, g[s \ {Pick(s)}] \in Q[s \ {Pick(s)}] PROVE g[s] \in Q[s]
    <2> DEFINE e == Pick(s)
               a == g[s \ {e}]
               x == CleanupHead(a)
               n == Cardinality(s \ {e})
    <2>1. e \in s /\ s \ {e} \in SUBSET EntryIds
      BY <1>6, PickIn
    <2>2. g[s] = x
      BY <1>3, <1>6
    <2>3. n \in Nat /\ Cardinality(s) = n + 1
      BY <2>1, Smaller
    <2>4. Trimming(d, k, b, a, n) /\ a \in [d : Db, bytes : Int]
      BY <1>6, <2>1
    <2> HIDE DEF e, a, n
    <2>5. Trimming(d, k, b, x, n + 1)
      BY <2>3, <2>4, TrimmingStep
    <2>6. x \in [d : Db, bytes : Int]
      <3>1. x.d \in Db /\ x.bytes \in Int
        BY <2>5 DEF Trimming, Fine
      <3>2. x = a \/ (\E q, z : x = [d |-> q, bytes |-> z]) \/ (\E q : x = [a EXCEPT !.d = q])
        <4> DEFINE l == a.d.lru_head
                   q1 == db_lru_remove_node(a.d, l)
                   q2 == Evict(a.d, l)
        <4>1. CleanupHead(a) = CASE l = Null \/ a.bytes <= 0 -> a
                [] l # Null /\ a.bytes > 0 /\ (a.d.ents[l].writing \/ a.d.ents[l].deleted) ->
                      [a EXCEPT !.d = q1]
                [] OTHER -> [d |-> q2, bytes |-> a.bytes - a.d.ents[l].len]
          BY DEF CleanupHead
        <4> HIDE DEF q1, q2
        <4>2. a.bytes \in Int
          BY <2>4
        <4> QED BY <4>1, <4>2
      <3> HIDE DEF x
      <3>3. CASE \E q, z : x = [d |-> q, bytes |-> z]
        BY <3>1, <3>3
      <3>4. CASE \E q : x = [a EXCEPT !.d = q]
        <4>1. PICK q : x = [a EXCEPT !.d = q]
          BY <3>4
        <4>2. x = [d |-> q, bytes |-> a.bytes]
          BY <2>4, <4>1
        <4> QED BY <3>1, <4>2
      <3> QED BY <2>4, <3>2, <3>3, <3>4
    <2> HIDE DEF x
    <2> QED BY <2>2, <2>3, <2>5, <2>6
  <1>7. g[EntryIds] \in Q[EntryIds]
    <2>1. EntryIds \in SUBSET EntryIds
      OBVIOUS
    <2> HIDE DEF Q
    <2> QED BY <1>5, <1>6, <2>1, Stages
  <1>8. Trimming(d, k, b, w, Cardinality(EntryIds))
    BY <1>4, <1>7
  <1>9. w.d.lru_head = Null \/ w.bytes <= 0
    <2>1. Fine(w.d, k) /\ (\/ w.d.lru_head = Null
                           \/ w.bytes <= 0
                           \/ Cardinality(Complete(w.d)) + Cardinality(EntryIds) <= Cardinality(EntryIds))
      BY <1>8 DEF Trimming
    <2>2. IsFiniteSet(Complete(w.d)) /\ Cardinality(EntryIds) \in Nat
      BY DbAssumption, FS_CardinalityType, FS_Subset DEF Complete, Kept
    <2>3. Cardinality(Complete(w.d)) \in Nat /\ (Cardinality(Complete(w.d)) = 0 => Complete(w.d) = {})
      BY <2>2, FS_CardinalityType, FS_EmptySet
    <2>4. CASE Cardinality(Complete(w.d)) + Cardinality(EntryIds) <= Cardinality(EntryIds)
      <3>1. Complete(w.d) = {}
        BY <2>2, <2>3, <2>4
      <3> QED BY <2>1, <3>1, HeadComplete
    <2> QED BY <2>1, <2>4
  <1>10. w.d.size \in Int /\ w.bytes \in Int /\ d.size \in Int /\ w.d.size - w.bytes = d.size - b
    BY <1>1, <1>8 DEF Trimming, Fine, Db
  <1>11. w.d.lru_head = Null \/ w.d.size <= d.size - b
    BY <1>9, <1>10
  <1> QED BY <1>2, <1>8, <1>11 DEF Trimming

\* db_lru_gc, and what it promises of a database above its limit.
LEMMA GcFine ==
    ASSUME NEW d, NEW k, Fine(d, k), NEW time \in Nat
    PROVE  LET r == db_lru_gc(d, time)
           IN  /\ Fine(r, k) /\ r.fault = d.fault
               /\ \A f \in Kept(d) : d.ents[f].writing /\ d.ents[f].exp = 0 => f \in Kept(r)
               /\ MaxSize > 0 /\ MaxSize < d.size =>
                     \/ r.lru_head = Null
                     \/ r.size <= MaxSize - (IF \E e \in Indexed(d) : Expired(d, e, time)
                                             THEN 0 ELSE ClearSize)
  <1> DEFINE S  == {e \in Indexed(d) : Expired(d, e, time)}
             d1 == db_expire_cursor(d, time)
             b  == (d1.size - MaxSize) + ClearSize
             d2 == db_lru_cleanup_percent(d1, b)
             r  == db_lru_gc(d, time)
  <1>1. /\ Fine(d1, k) /\ d1.fault = d.fault /\ Kept(d1) = Kept(d) \ S
        /\ (S = {}) => d1 = d
    <2>1. (~ \E e \in Indexed(d) : Expired(d, e, time)) <=> S = {}
      OBVIOUS
    <2> QED BY <2>1, ExpireFine
  <1>2. (\E e \in Indexed(d) : Expired(d, e, time)) <=> S # {}
    OBVIOUS
  <1>3. \A f \in S : d.ents[f].exp # 0
    BY DEF Expired
  <1>4. r = IF MaxSize > 0 /\ MaxSize < d.size /\ MaxSize <= d1.size THEN d2 ELSE d1
    BY DEF db_lru_gc
  <1>5. Shrinks(d, d1)
    BY ExpireShrinks DEF Fine
  <1> HIDE DEF S, d1, r
  <1>6. b \in Int /\ d.size \in Int /\ d1.size \in Int /\ MaxSize \in Nat /\ ClearSize \in Nat
    BY <1>1, DbAssumption DEF Fine, Db
  <1>7. /\ Fine(d2, k) /\ d2.fault = d1.fault /\ Kept(d1) \ Complete(d1) \subseteq Kept(d2)
        /\ d2.lru_head = Null \/ d2.size <= d1.size - b
    <2> HIDE DEF b
    <2> QED BY <1>1, <1>6, CleanupFine
  <1> HIDE DEF d2
  <1>8. d1.size - b = MaxSize - ClearSize
    BY <1>6
  <1>9. ASSUME NEW f \in Kept(d), d.ents[f].writing, d.ents[f].exp = 0 PROVE f \in Kept(d1) /\ f \in Kept(d2)
    <2>1. f \in EntryIds /\ f \in Kept(d1)
      BY <1>1, <1>3, <1>9 DEF Kept
    <2>2. d1.ents[f].writing = d.ents[f].writing
      BY <1>5, <2>1 DEF Shrinks, KeptEntry, Kept
    <2>3. f \notin Complete(d1)
      BY <1>9, <2>2 DEF Complete
    <2> QED BY <1>7, <2>1, <2>3
  <1>10. MaxSize > 0 /\ MaxSize < d.size =>
           \/ r.lru_head = Null
           \/ r.size <= MaxSize - (IF S # {} THEN 0 ELSE ClearSize)
    <2> SUFFICES ASSUME MaxSize > 0, MaxSize < d.size
                 PROVE  \/ r.lru_head = Null
                        \/ r.size <= MaxSize - (IF S # {} THEN 0 ELSE ClearSize)
      OBVIOUS
    <2>1. CASE MaxSize <= d1.size
      <3>1. r = d2
        BY <1>4, <2>1
      <3>2. r.lru_head = Null \/ r.size <= MaxSize - ClearSize
        BY <1>7, <1>8, <3>1
      <3>3. r.size \in Int
        BY <1>7, <3>1 DEF Fine, Db
      <3> QED BY <1>6, <3>2, <3>3
    <2>2. CASE ~ (MaxSize <= d1.size)
      <3>1. r = d1 /\ S # {}
        BY <1>1, <1>4, <1>6, <2>2
      <3> QED BY <1>6, <2>2, <3>1
    <2> QED BY <2>1, <2>2
  <1> QED BY <1>1, <1>2, <1>4, <1>7, <1>9, <1>10 DEF r
=============================================================================
