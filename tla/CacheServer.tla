----------------------------- MODULE CacheServer -----------------------------
(***************************************************************************)
(* The cache connections of http_parse_cache.cpp, http_respond.cpp and     *)
(* http.cpp over the database of CacheDb.  One thread serves all           *)
(* connections: an action is what one call of a handler does, and          *)
(* connections interleave between handlers, as the event loop of           *)
(* connection.cpp lets them when their input arrives in pieces.            *)
(***************************************************************************)
EXTENDS CacheDb

CONSTANTS
    Conns,       \* client connections
    Requests,    \* the kinds of requests the clients send, a subset of Kinds
    Lengths,     \* values of Content-Length
    Ttls,        \* values of X-Ttl
    MaxTime,     \* bound on the clock
    RepeatLength,\* whether a PUT may have more than one Content-Length
    MaxKeys,     \* bound on db_keys, which can drift upwards
    MaxBytes,    \* bound on db_size_bytes, which can drift upwards
    SplitHead    \* FALSE: every request head arrives in one piece

\* GET also stands for HEAD.  LIST, DROP and BULK are GET, DELETE and PURGE of
\* a table, PURGE is PURGE of a key, GC is ADMIN /gc.
KeyKinds   == {"GET", "PUT", "DELETE", "PURGE"}
TableKinds == {"LIST", "DROP", "BULK"}
Kinds      == KeyKinds \cup TableKinds \cup {"GC"}

ASSUME ServerAssumption ==
    /\ Requests \subseteq Kinds /\ SplitHead \in BOOLEAN
    /\ Lengths \subseteq Nat /\ Ttls \subseteq Nat \ {0}
    /\ RepeatLength \in BOOLEAN
    /\ IsFiniteSet(Conns)
    /\ MaxTime \in Nat \ {0} /\ MaxKeys \in Nat /\ MaxBytes \in Nat

VARIABLES db, conn, now
vars == <<db, conn, now>>

Closed == [at |-> "idle", kind |-> "GET", tab |-> Null, ent |-> Null,
           key |-> Null, fd |-> FALSE, writing |-> FALSE, peek |-> Null]

Init ==
    /\ db = EmptyDb
    /\ conn = [c \in Conns |-> Closed]
    /\ now = 1

\* Where a connection waits for the rest of a request head.
Heads == {"url", "head", "tablehead"}

\* The handlers of c may run.
Runs(c) == /\ db.fault = "none"
           /\ SplitHead \/ \A x \in Conns \ {c} : conn[x].at \notin Heads

\* A table that was not freed but that nothing points to any more (the deletion
\* of the last key loses a reference) can never be used again: its id is reclaimed.
Settle(d, cs) ==
    LET pointed == {cs[c].tab : c \in Conns} \cup {d.tables[n] : n \in TableNames}
                   \cup {d.ents[e].tab : e \in {f \in EntryIds : d.ents[f].live}}
        lost    == {t \in TableIds : d.tabs[t].live /\ t \notin pointed}
    IN  [d EXCEPT !.tabs = [t \in TableIds |-> IF t \in lost THEN DeadTable ELSE @[t]]]

\* What malloc may return.  Memory that was freed while something points to it
\* is not handed out again, so that every later use of it is noticed.
FreshTables  == {t \in TableIds : /\ ~ db.tabs[t].live
                                  /\ \A c \in Conns : conn[c].tab # t
                                  /\ \A e \in EntryIds : db.ents[e].tab # t}
FreshEntries == {e \in EntryIds : /\ ~ db.ents[e].live
                                  /\ \A c \in Conns : e \notin {conn[c].ent, conn[c].peek}}

\* The step that leaves the database d and connection c as r.  An
\* orphaned file is remembered for one state.
Step(c, d, r) == /\ conn' = [conn EXCEPT ![c] = r]
                 /\ db' = [Settle(d, conn') EXCEPT !.orphan = @ /\ ~ db.orphan]
                 /\ UNCHANGED now

-----------------------------------------------------------------------------
(* The request line *)

\* http_read_requeststarturl1, "/table/": find or create the table.
KeyRequest(c, kind, n) ==
    /\ Runs(c) /\ conn[c].at = "idle" /\ kind \in Requests \cap KeyKinds
    /\ LET create == kind \in {"PUT", "PURGE"}
           r == IF create THEN db_table_get_write(db, n, Min(FreshTables)) ELSE db_table_get_read(db, n)
       IN  /\ create /\ db.tables[n] = Null => FreshTables # {}
           /\ Step(c, r.db, [Closed EXCEPT !.at = IF r.ret = Null THEN "reply" ELSE "url",
                                           !.kind = kind, !.tab = r.ret])

\* http_read_requeststarturl1, "/table ": find the table.
TableRequest(c, kind, n) ==
    /\ Runs(c) /\ conn[c].at = "idle" /\ kind \in Requests \cap TableKinds
    /\ LET r == db_table_get_read(db, n)
       IN  Step(c, r.db, [Closed EXCEPT !.at = "tablehead", !.kind = kind, !.tab = r.ret])

\* http_read_requeststarturl1, "ADMIN /gc".
AdminGc(c) ==
    /\ Runs(c) /\ conn[c].at = "idle" /\ "GC" \in Requests
    /\ Step(c, db_lru_gc(db, now), [Closed EXCEPT !.at = "reply", !.kind = "GC"])

\* db_target_setup opens the file of a value that has one, except for a PUT.
Opens(x, d, e) == x.kind # "PUT" /\ e # Null /\ IsFile(d, e)

\* http_key_lookup.  The connection's table reference now goes with the entry;
\* without an entry it is released.
KeyLookup(c, k) ==
    LET x == conn[c]
        r == CASE x.kind = "GET"    -> db_entry_get_read(db, x.tab, k, now)
               [] x.kind = "PUT"    -> db_entry_get_write(db, x.tab, k, now, Min(FreshEntries))
               [] x.kind = "DELETE" -> db_entry_get_delete(db, x.tab, k)
        d == IF r.ret = Null THEN db_table_deref(r.db, x.tab, FALSE) ELSE r.db
    IN  /\ Runs(c) /\ x.at = "url" /\ x.kind # "PURGE"
        /\ IF Unusable(db, x.tab) THEN Step(c, Misused(db, x.tab), x)
           ELSE /\ x.kind = "PUT" => /\ FreshEntries # {}
                                     /\ db.keys < MaxKeys \/ db.tabs[x.tab].slot[KeyHash[k]] # Null
                /\ Step(c, d, [x EXCEPT !.at = "head", !.tab = Null, !.ent = r.ret,
                                        !.key = IF r.ret = Null THEN Null ELSE k,
                                        !.fd = Opens(x, r.db, r.ret),
                                        !.writing = x.kind = "PUT" /\ r.ret # Null])

\* http_key_lookup for PURGE: 405, the table reference stays.
KeyRefused(c) ==
    /\ Runs(c) /\ conn[c].at = "url" /\ conn[c].kind = "PURGE"
    /\ Step(c, db, [conn[c] EXCEPT !.at = "reply"])

-----------------------------------------------------------------------------
(* The headers: http_read_header_extraction *)

Header(c, where, kind) ==
    /\ Runs(c) /\ conn[c].at = where /\ conn[c].kind = kind

ContentLength(c, len) ==
    /\ Header(c, "head", "PUT") /\ conn[c].ent # Null /\ db.size + len <= MaxBytes
    /\ RepeatLength \/ db.ents[conn[c].ent].block = NewEntry
    /\ Step(c, db_target_write_allocate(db, conn[c].ent, len),
            [conn[c] EXCEPT !.fd = len > BlockLength])

XTtl(c, ttl) ==
    /\ Header(c, "head", "PUT") /\ conn[c].ent # Null
    /\ Step(c, [db EXCEPT !.ents[conn[c].ent].exp = now + ttl], conn[c])

\* X-Delete of a PURGE request: the entry is looked up, deleted and released.
XDelete(c, k) ==
    /\ Header(c, "tablehead", "BULK") /\ conn[c].tab # Null
    /\ LET t == conn[c].tab
           r == db_entry_get_delete(db, t, k)
           d == db_entry_handle_delete(r.db, r.ret)
           x == conn[c]
       IN  IF Unusable(db, t) THEN Step(c, Misused(db, t), x)
           ELSE IF r.ret = Null THEN Step(c, r.db, x)
           ELSE Step(c, db_entry_deref(d, r.ret, FALSE),
                     IF d.ents[r.ret].tab = Null THEN [x EXCEPT !.tab = Null] ELSE x)

-----------------------------------------------------------------------------
(* The end of the headers: the router in http_read_headers *)

Goto(c, d, where) == Step(c, d, [conn[c] EXCEPT !.at = where])

\* PUT: a body follows, unless no length was given.
EndPut(c) ==
    /\ Runs(c) /\ conn[c].at = "head" /\ conn[c].kind = "PUT"
    /\ Goto(c, db, IF conn[c].ent # Null /\ db.ents[conn[c].ent].len = 0
                   THEN "reply" ELSE "body")

EndGet(c) ==
    /\ Runs(c) /\ conn[c].at = "head" /\ conn[c].kind = "GET"
    /\ Goto(c, db, IF conn[c].ent = Null THEN "reply" ELSE "send")

EndDelete(c) ==
    /\ Runs(c) /\ conn[c].at = "head" /\ conn[c].kind = "DELETE"
    /\ Goto(c, IF conn[c].ent = Null THEN db ELSE db_entry_handle_delete(db, conn[c].ent),
            "reply")

\* A header value that is not a number, or a head larger than the buffer.
HeadRefused(c) ==
    /\ Runs(c) /\ conn[c].at \in {"head", "tablehead"}
    /\ Goto(c, db, "reply")

EndList(c) ==
    /\ Runs(c) /\ conn[c].at = "tablehead" /\ conn[c].kind = "LIST"
    /\ Goto(c, db, IF conn[c].tab = Null THEN "reply" ELSE "list")

EndDrop(c) ==
    /\ Runs(c) /\ conn[c].at = "tablehead" /\ conn[c].kind = "DROP"
    /\ Goto(c, IF conn[c].tab = Null THEN db ELSE db_table_handle_delete(db, conn[c].tab),
            "reply")

\* The other outcome of db_table_handle_delete: the allocator keeps its own
\* links at the start of freed memory, where an entry has its table, and
\* db_entry_cleanup follows that pointer when the value has a file.
EndDropFreed(c) ==
    /\ Runs(c) /\ conn[c].at = "tablehead" /\ conn[c].kind = "DROP"
    /\ LET t == conn[c].tab
       IN  /\ t # Null /\ ~ Unusable(db, t)
           /\ \E e \in Entries(db, t) : db.ents[e].refs = 0 /\ IsFile(db, e)
    /\ Step(c, Fault(db, "freed entry"), conn[c])

EndBulk(c) ==
    /\ Runs(c) /\ conn[c].at = "tablehead" /\ conn[c].kind = "BULK"
    /\ Goto(c, db, "reply")

-----------------------------------------------------------------------------
(* The body and the response *)

\* http_cache_handle_request_body has read all of the body.
BodyDone(c) ==
    /\ Runs(c) /\ conn[c].at = "body"
    /\ conn[c].writing => db.ents[conn[c].ent].block # NoBlock \/ IsFile(db, conn[c].ent)
    /\ Step(c, IF conn[c].writing THEN db_complete_writing(db, conn[c].ent) ELSE db,
            [conn[c] EXCEPT !.at = "reply", !.writing = FALSE])

\* No block could be allocated: the position is negative and lseek64 fails.
BodyFailed(c) ==
    /\ Runs(c) /\ conn[c].at = "body" /\ conn[c].writing
    /\ db.ents[conn[c].ent].block = NoBlock /\ ~ IsFile(db, conn[c].ent)
    /\ Goto(c, db, "reply")

\* http_respond_listing: the write event sends the key chosen by the last one
\* from where the entry has it, then the next key of the table's hash set is
\* chosen; with no buckets its unsigned limit wraps around.
ListStep(c) ==
    /\ Runs(c) /\ conn[c].at = "list"
    /\ LET x == conn[c]
       IN  \/ /\ x.peek # Null /\ ~ db.ents[x.peek].live
              /\ Step(c, Fault(db, "freed key"), x)
           \/ /\ Unusable(db, x.tab)
              /\ Step(c, Misused(db, x.tab), x)
           \/ /\ ~ Unusable(db, x.tab) /\ Entries(db, x.tab) = {}
              /\ Step(c, Fault(db, "no buckets"), x)
           \/ /\ x.peek # Null => db.ents[x.peek].live
              /\ ~ Unusable(db, x.tab)
              /\ \E e \in Entries(db, x.tab) : Step(c, db, [x EXCEPT !.peek = e])

\* Mutant: a file is unlinked whenever it is closed.
db_target_entry_close_unlink(x, d) ==
    LET d1 == IF x.fd THEN [d EXCEPT !.ents[x.ent].file = FALSE] ELSE d
    IN  db_entry_deref(d1, x.ent, TRUE)

\* db_target_entry_close: whoever closes the file of an entry that is still
\* being written unlinks it.
db_target_entry_close(x, d) ==
    LET d1 == IF x.fd /\ d.ents[x.ent].writing THEN db_entry_delete(d, x.ent) ELSE d
    IN  db_entry_deref(d1, x.ent, TRUE)

\* Mutant: an upload is deleted although its key was deleted meanwhile.
Abort_again(x, d) ==
    [db_entry_handle_delete(d, x.ent) EXCEPT !.ents[x.ent].writing = FALSE]

\* The part of cache_destroy that ends an unfinished upload.
Abort(x, d) ==
    LET d1 == IF d.ents[x.ent].deleted THEN d ELSE db_entry_handle_delete(d, x.ent)
    IN  [d1 EXCEPT !.ents[x.ent].writing = FALSE]

\* cache_destroy: an unfinished upload is deleted, references are released.
cache_destroy(x, d) ==
    CASE x.ent # Null -> db_target_entry_close(x, IF x.writing THEN Abort(x, d) ELSE d)
      [] x.ent = Null /\ x.tab # Null -> db_table_deref(d, x.tab, FALSE)
      [] OTHER -> d

\* http_cleanup: the response is sent (http_respond_writeonly,
\* http_respond_contentbody), or the connection closes at any time.
Cleanup(c) ==
    /\ Runs(c) /\ conn[c].at # "idle"
    /\ SplitHead \/ conn[c].at \notin Heads
    /\ Step(c, cache_destroy(conn[c], db), Closed)

Tick ==
    /\ db.fault = "none" /\ now < MaxTime
    /\ now' = now + 1
    /\ UNCHANGED <<db, conn>>

Next ==
    \/ \E c \in Conns :
        \/ \E kind \in Kinds, n \in TableNames : KeyRequest(c, kind, n) \/ TableRequest(c, kind, n)
        \/ \E k \in Keys : KeyLookup(c, k) \/ XDelete(c, k)
        \/ \E len \in Lengths : ContentLength(c, len)
        \/ \E ttl \in Ttls : XTtl(c, ttl)
        \/ AdminGc(c) \/ KeyRefused(c)
        \/ EndPut(c) \/ EndGet(c) \/ EndDelete(c) \/ EndList(c)
        \/ EndDrop(c) \/ EndDropFreed(c) \/ EndBulk(c)
        \/ HeadRefused(c) \/ BodyDone(c) \/ BodyFailed(c) \/ ListStep(c) \/ Cleanup(c)
    \/ Tick

Spec == Init /\ [][Next]_vars
-----------------------------------------------------------------------------
(* Properties *)

Live       == {e \in EntryIds : db.ents[e].live}
Present    == {e \in Live : ~ db.ents[e].deleted}
LiveTables == {t \in TableIds : db.tabs[t].live}
Holders(e) == {c \in Conns : conn[c].ent = e}
Users(t)   == {c \in Conns :
                 conn[c].tab = t \/ (conn[c].ent # Null /\ db.ents[conn[c].ent].tab = t)}

\* The structures of db_structures.h and the state of a connection keep their
\* types; no reference count of an entry becomes negative.
TypeOK ==
    /\ db.ents \in [EntryIds -> [live : BOOLEAN, tab : TableIds \cup {Null},
                       key : Keys \cup {Null}, writing : BOOLEAN, deleted : BOOLEAN,
                       refs : Nat, len : Nat, block : Blocks \cup {NoBlock, NewEntry},
                       exp : Nat, file : BOOLEAN,
                       lru_next : EntryIds \cup {Null}, lru_prev : EntryIds \cup {Null}]]
    /\ db.tabs \in [TableIds -> [live : BOOLEAN, name : TableNames \cup {Null}, refs : Nat,
                       deleted : BOOLEAN, slot : [Hashes -> EntryIds \cup {Null}]]]
    /\ db.tables \in [TableNames -> TableIds \cup {Null}]
    /\ {db.lru_head, db.lru_tail} \subseteq EntryIds \cup {Null} /\ db.used \subseteq Blocks
    /\ db.size \in Int /\ db.keys \in Int /\ db.inserts \in 0 .. LruEvery - 1
    /\ db.orphan \in BOOLEAN /\ db.nameless \in BOOLEAN
    /\ conn \in [Conns -> [at : Heads \cup {"idle", "body", "send", "list", "reply"},
                       kind : Kinds, tab : TableIds \cup {Null}, ent : EntryIds \cup {Null},
                       key : Keys \cup {Null}, fd : BOOLEAN, writing : BOOLEAN,
                       peek : EntryIds \cup {Null}]]
    /\ now \in 1 .. MaxTime

\* Every connection's entry is in memory, and the count of an entry is the
\* number of connections that use it: an entry that is deleted, replaced or
\* evicted while it is sent or filled is freed by the last of them, not before.
EntryRefsExact ==
    /\ \A c \in Conns : conn[c].ent # Null => conn[c].ent \in Live
    /\ \A e \in Live : /\ db.ents[e].refs = Cardinality(Holders(e))
                       /\ db.ents[e].deleted => db.ents[e].refs > 0

\* A table that is not deleted is counted by its connections, and once more
\* while it has keys; a deleted one is in memory as long as it is used.
TableRefsExact ==
    /\ \A c \in Conns : conn[c].tab # Null => conn[c].tab \in LiveTables
    /\ \A t \in LiveTables :
        IF db.tabs[t].deleted THEN db.tabs[t].refs >= Cardinality(Users(t))
        ELSE db.tabs[t].refs = Cardinality(Users(t)) + (IF Entries(db, t) = {} THEN 0 ELSE 1)

\* The blocks in use are those of the entries in memory, and each has one
\* holder: a value that a connection still sends is not overwritten.
BlocksExact ==
    /\ db.used = {db.ents[e].block : e \in Live} \cap Blocks
    /\ \A e, f \in Live : db.ents[e].block = db.ents[f].block /\ e # f
                            => db.ents[e].block \notin Blocks

\* The entries of the LRU list, from its head on.
LruChain ==
    LET after[n \in 0 .. Cardinality(EntryIds)] ==
            IF n = 0 THEN {db.lru_head} 
            ELSE after[n - 1] \cup {db.ents[e].lru_next : e \in after[n - 1] \ {Null}}
    IN  after[Cardinality(EntryIds)] \ {Null}

\* The LRU list holds each complete key and nothing else, and its links are
\* those of a list, as db_validate_lru asserts in debug builds.
LruExact ==
    /\ LruChain = {e \in Live : ~ db.ents[e].writing /\ ~ db.ents[e].deleted}
    /\ IF LruChain = {} THEN db.lru_tail = Null
       ELSE /\ db.lru_tail \in LruChain /\ db.ents[db.lru_tail].lru_next = Null
            /\ db.ents[db.lru_head].lru_prev = Null
    /\ \A e \in LruChain : db.ents[e].lru_next # Null =>
            db.ents[db.ents[e].lru_next].lru_prev = e

\* db_size_bytes is the sum of the lengths of the keys, db_keys their number.
CountersExact ==
    /\ db.size = MapThenSumSet(LAMBDA e : db.ents[e].len, Present)
    /\ db.keys = Cardinality(Present)

\* A connection that sends a value sends the complete value of the key that
\* was asked for, also when keys collide and when the key is gone meanwhile.
ReadsOwnKey ==
    \A c \in Conns : conn[c].kind = "GET" /\ conn[c].ent # Null =>
        LET x == db.ents[conn[c].ent]
        IN  x.key = conn[c].key /\ ~ x.writing /\ x.len > 0

\* The file of a value longer than a block is there as long as its key, also
\* while the key is being written and while others close it; and it does not
\* stay on disk when its entry is freed.
FilesExact ==
    /\ \A e \in Live : ~ db.ents[e].deleted /\ IsFile(db, e) => db.ents[e].file
    /\ ~ db.orphan

\* A table with keys can be found by its name.
TableReachable ==
    \A t \in LiveTables : ~ db.tabs[t].deleted => db.tables[db.tabs[t].name] = t

\* The server does not use freed memory or a NULL pointer, and deletes no entry
\* and no table twice.  Of the assertions of db.cpp, those at 1277, 1302 and
\* 1328 then hold; the one about the names of tables is TableNamed.
NoFault == db.fault = "none"

\* A table that is deleted is still found by its name, as the assertions
\* k != kh_end(db.tables) say (1266, 1331): nobody takes the name of a table
\* away while it has keys.
TableNamed == ~ db.nameless

\* The path of an entry's file is only asked for while the entry has a table.
TableNotNull == db.fault # "null table"

\* The cache a client sees: the complete keys, the uploads that will become
\* keys, and the values that are being sent.
Places == TableNames \X Keys
EntryAt(x, writing) ==
    LET t == db.tables[x[1]]
        e == IF t = Null THEN Null ELSE db.tabs[t].slot[KeyHash[x[2]]]
    IN  IF e = Null THEN Null
        ELSE IF db.ents[e].key = x[2] /\ db.ents[e].writing = writing THEN e ELSE Null

Seen == INSTANCE Cache WITH
    Clients <- Conns, Values <- EntryIds, None <- Null,
    value  <- [x \in Places |-> EntryAt(x, FALSE)],
    upload <- [x \in Places |-> EntryAt(x, TRUE)],
    sent   <- [c \in Conns |-> IF conn[c].kind = "GET" THEN conn[c].ent ELSE Null]

\* Tables, entries, reference counts and handlers implement the cache: no
\* request sees a key that was deleted, an upload that was cancelled, or a
\* value that is taken away while it is sent.
CacheSpec == Seen!Spec

\* A garbage collection of a database above its limit brings it below the
\* limit, and by the configured share when no key had expired, or removes
\* every complete key.
GcTrims ==
    [][(\E c \in Conns : AdminGc(c)) /\ MaxSize > 0 /\ MaxSize < db.size =>
            \/ db'.lru_head = Null
            \/ db'.size <= MaxSize - (IF \E e \in Indexed(db) : Expired(db, e, now)
                                      THEN 0 ELSE ClearSize)]_vars

=============================================================================
