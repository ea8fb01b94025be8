# A TLA+ model of simple-cache

simple-cache is an HTTP key-value cache: one process, tables of keys, small values in the 4 KiB
blocks of one file, large values in files of their own, an LRU list under a size limit, and an index
file from which a restart recovers the keys. A second port counts for monitoring clients. This
directory models its storage engine, its cache protocol from the characters in the read buffer to the
entries in the tables, its event loop, its monitoring port and its signal handlers, checks them with
TLC, and proves with TLAPS that the block allocator, the queue between accept threads and loop, the
monitoring list and the flush of the index are correct, that reference counts and blocks of the server's
entries and its LRU list are exact under every interleaving, under which conditions its counters, files and
table references are exact too, tables keep their names and nothing is used after it is freed, that it implements an abstract
cache, and that the ring buffer is a queue. Source paths below are relative to `src/src/core/`.

## 1. Inventory

| component | state | operations | used by |
|---|---|---|---|
| block file and index (`db.cpp`) | `free_blocks`, `blocks_free`, `blocks_exist`, `blockfile.db`, `index.save` | allocate, free, grow, shrink, write the index, load, start blank | entries |
| flush (`db.cpp`, `timer.cpp`) | `current_flush`, `last_flush_ms`, `flush_pending`, the child | fork, poll, reap, put off, wait at the end | `db_lru_gc`, SIGUSR1, SIGCHLD, `db_close` |
| tables and entries (`db.cpp`) | `db.tables`, each table's hash set, `refs`, `deleted`, `writing`, `db_keys`, `db_size_bytes` | find, create, replace, delete, soft-delete, release | cache protocol, garbage collection |
| LRU, expiry, size limit (`db.cpp`) | `lru_head/tail`, `expires`, the expiry cursor | hit, insert, remove, `db_lru_gc` | every PUT, ADMIN /gc, SIGUSR1 |
| cache protocol (`http_parse_cache.cpp`, `http_respond.cpp`, `http.cpp`) | per connection: handler, method, table or entry pointer, descriptor, position, `is_writing` | one handler per part of a request | event loop |
| read buffer (`read_buffer.cpp`) | a ring of bytes with read and write position | copy, compare, parse number, move | every parser |
| event loop, accept threads (`connection.cpp`) | epoll set, queue `cq_head/cq_tail` under a mutex, connection table | accept, enqueue, dequeue, dispatch | all handlers |
| monitoring (`http_parse_mon.cpp`) | list of monitors ordered by time, pending list | add, tick, destroy | event loop, timer |
| timers, signals (`timer.cpp`, `signal_handle.cpp`) | `current_time` | SIGALRM, SIGCHLD, SIGUSR1, SIGTERM | all |
| settings, start (`settings.cpp`, `scache.cpp`) | `settings` | parse the command line | start |
| hashing, logging (`hash.cpp`, `khash.h`, `debug.h`) | none | vendored hash function and table, macros | all |

All handlers run on one thread; two more threads accept clients and pass them on, and signal handlers
interrupt the loop anywhere. What makes the code hard is that a request is handled in pieces:
between two pieces, while the rest of the head or body is on its way, any other connection may
delete, replace, evict or expire what this one points to. Reference counts on entries and tables,
the `deleted` and `writing` flags, and the rule "a file is unlinked by whoever deletes the key" must
hold together over all these orders. The other hard parts are the index, which is written by a
child process while the parent goes on reusing blocks, kills at any moment, and counters of several
widths. `hazards` in `PROJECT.json` lists these places line by line.

What makes each component correct:

- block file: every block is held by one entry, free, or (after a restart) lost, never two of
  these; the free count is exact; a complete value is where its key says.
- tables and entries: counts equal users; nothing is used after it is freed; counters equal what
  they count; a table can be found while it has keys.
- LRU and size: the list holds each complete key once; a collection reaches its target.
- event loop: a socket has one owner at any time; the queue is a queue; a client that connects is
  served; a signal stops the process.
- protocol: a GET sends the complete value of the key that was asked for; a file lives exactly as
  long as its key; an aborted upload leaves nothing behind; answers come in the order of the requests.
- read buffer: it is a queue of characters, whatever its positions.
- monitoring: each client is in the list once, the list is ordered by time, a client that reads is
  counted to and one that does not is dropped.
- flush: one process writes the index; a flush that was put off is made.

## 2. Modules

- **BlockPool**: abstract specification of the blocks. They are granted to one entry at a time; an
  index is begun, then committed; a crash falls back to the committed one. It says nothing of free lists.
- **BlockStore**: the allocator. `free`, `nfree`, `exist` are the fields of `db`, `held` is
  `cache_entry.block`, `flen` and `disk` are the block file, `child`, `snap`, `saved`, `indexed` the
  flush and the index. `db_block_free`, `Reuse`/`Extend` (the branches of
  `db_block_allocate_new`), `FreeUnused` (the loop both ways of opening share), `Crash` and
  `StopStart` (stop and the next start) are its operations. `gone` are entries deleted while a
  connection still uses them: they keep their block and are not written to the index. `pinned` are
  entries loaded from the index: the reference that `db_load_from_save_insert` takes is released
  by nobody. The history variables `crashed` and `wrapped` remember a kill and a file length beyond 32 bits.
- **Flush**: who writes the index, and when. `frame` holds the two calls of `db_lru_gc` that can be
  under way at once, the loop's (or its `db_close`) and that of the SIGUSR1 handler inside it; an
  action is what happens between two points where a signal matters. `child` is the state of every
  process id, so that an id can be reused once reaped. `crossed` and `early` record the two accidents
  the properties except: SIGUSR1 inside a decision, and a child that ended before its pid was stored
  or was reaped as killed.
- **Cache**: abstract specification of the server's keys: a key has a value from the end of an upload
  until it is removed or replaced, and a client is sent the value its key had when it asked. The end
  of an answer may remove keys too (`Done`): releasing the last reference to a deleted table drops
  whatever table has its name by then.
- **CacheDb**: the database as a record `d` and every function of `db.cpp` that changes tables,
  entries, counters or the LRU list as an operator from records to records under its C++ name. Hash
  sets are functions from hash to entry, so keys with one hash collide as they do in the code. The LRU
  list is `lru_head`, `lru_tail` and the links in the entries, as in the code. A call on a table whose
  hash set is destroyed or that is freed (`Unusable`) is a fault (`Misused`).
- **CacheServer**: connections over CacheDb. An action is one call of a handler: the first part of
  the URL (`KeyRequest`, `TableRequest`), the key (`KeyLookup`), a header (`ContentLength`, `XTtl`,
  `XDelete`), the end of the headers (`EndPut` ... `EndBulk`), the body, a step of a listing, the
  end of the response or the loss of the connection at any point (`Cleanup`), and the clock.
- **ReadBuffer**: the ring buffer, its positions reduced modulo `Wrap` as the 16-bit counters are, and
  the macros the parsers use: `RBUF_ITERATE` is `Steps`, `Pointer` and `At`.
- **HttpConnection**: one connection, from the characters the client sends to those it gets. An action
  is one `read`, one call of a handler (`Method`, `Table`, `Key`, `Version`, `HeaderName`, `HeaderLine`,
  `Extract`, `Route`, `Body`, `Eol`, or `Wait` when the input ends first), or one write event. `Return`
  is the rest of `http_read_handle`: the loop until no progress is made, and the check for a full
  buffer. The database is a function from keys to values; CacheServer is what stands behind it.
  `due` is what the client still waits for, `unread` the history of what is in the ring.
- **AcceptQueue**: `connection_handle_accept` and `connection_event_loop`, one action per system call
  or assignment that another thread can see: `pc[t]` is where a thread is, `lpc` where the loop is,
  `head`, `tail`, `next` are the pointers of the queue, `lock` the mutex, `event` the eventfd,
  `batch` the events of one `epoll_wait` still to be handled. The history variable `fifo` records
  what was inserted and not yet taken. `monitoring_check` appears as the removal of connections
  (`MonitorClose`) with the second close of their descriptor (`Reclose`), whose number a thread
  may have got for a new client in between (`reused`).
- **Monitoring**: the monitoring port. `head`, `tail`, `next`, `prev` are the list, `due` the ticks until
  `monitoring.scheduled`, `evfd` the eventfd between timer and loop. `monitoring_check` is cut
  (`Unhook`, then `Drop` or `Requeue`) where the timer's signal can see a half-changed list; `ripe`
  and `lag` stand for its copy of the clock. `inq` and `outq` are the events of one batch.
- **BlockStoreProofs**, **FlushProofs**, **AcceptQueueProofs**, **MonitoringProofs**, **CacheServerProofs**,
  **CacheOrderlyProofs**, **HttpConnectionProofs**: the theorems (section 5); **CacheDbProofs**: lemmas about
  each function of `db.cpp`.
- **MCBlockStore**, **MCCacheServer**, **MCAcceptQueue**, **MCHttpConnection**: symmetry, hash functions,
  keys and values for TLC. Monitoring and Flush are run as they are.

How they compose: CacheServer extends CacheDb and is checked against Cache; BlockStore is checked
against BlockPool and stands for the blocks CacheDb takes from a set. HttpConnection extends
ReadBuffer. AcceptQueue provides what CacheServer and HttpConnection assume, that handlers do not
overlap. Flush shows when the assumption of BlockStore holds that one child writes at a time.

Pointers are ids. A freed structure is one that is not `live`, and its id is not used again while
something still points to it, so that every later use is seen. A use of freed memory or NULL, a read
outside the ring, and the deletion of what is deleted already set a `fault` and end
the behaviour. A file that nothing
will unlink any more does not disturb the database; `db.orphan` shows it in the state after the step.

The modelled program is the release build, which `Makefile:17` compiles with `-DNDEBUG`: a failed assertion
does not stop it. Assertions that only the debug build (`-DDEBUG_BUILD`) evaluates and that can fail are modelled as
a fault where the state is meaningless afterwards (`db.cpp:1277`, `1302`, `1328`) and as a record of the
failure for `k != kh_end(db.tables)` at `db.cpp:1266` and `1331` (`nameless`, `AssertNamed`), after which the program goes on. The
others are left out, because the release build passes them without any change of its state. Section 4 says
where each of them fails: `http_parse_mon.cpp:413`, `read_buffer.cpp:43`, `db.cpp:1241`, `connection.cpp:473`,
`http_parse_cache.cpp:199` and `396`. No property says that a debug build does not stop there.

Memory that was just freed may still hold what it held, or not. `db_table_handle_delete` reads an entry after freeing it
(`db.cpp:1286`); its two outcomes are `EndDrop`, where the entry is as it was left, and `EndDropFreed`, where its table
pointer was overwritten.

Abstractions. In CacheServer a parsed request is of a kind, or refused; in HttpConnection a method, a
header name and a version are two characters each, and a number is one digit. Left out: the text of
responses and of the statistics page; collisions of table names; the position of the expiry cursor
(one pass of the model visits all keys, the code at least 4096); failing writes to files and partial writes to sockets;
`db_size_bytes` above 2 GiB, where the `int` of `bytes_to_remove` overflows. A crash kills the
flushing child with its parent (loss of power, or a kill of the process group). In Monitoring a
request is read in one step, and a write fills the socket until the client reads. In Flush the clock
is read and compared in one step, and the SIGCHLD handler is one step.

## 3. Runs

Expected to pass:

| run | question | size |
|---|---|---|
| `block_store` | ownership of blocks, the free list and the refinement of BlockPool under allocation, release, flush, crash and restart; values last until a crash | 2 entries, 3 blocks, the file shrinks above 0 free blocks, 2 blocks kept when blank |
| `cache_refs` | every kind of request, head cut anywhere, Content-Length repeated, keys with one hash, one block: entries, blocks, no key served for another | 2 keys, 2 connections, a small and a large value |
| `cache_orderly` | heads arrive whole, small values: counters, tables, LRU links, memory, and the refinement of Cache | 2 keys, 2 connections |
| `cache_expire` | large values, expiry, eviction by every PUT: files, counters, memory, the target of a collection | 2 colliding keys, 2 tables, 2 connections, 3 instants, limit 4, share 2 |
| `http_connection` | requests in pieces of any size; answers in order, none missing; the ring is a queue | ring of 22, positions modulo 44, 1 key, requests of 9 kinds of up to 34 characters, a client that waits and one that pipelines |
| `accept_queue` | the queue, its wake-ups, one owner per socket; clients are served, signals stop the process | 2 threads, a cache client and a monitoring client that come back any number of times |
| `monitoring` | the list, its order, who is dropped and who is counted to | 2 connections that come back any number of times, interval 3, loop and clients late by 1 |
| `flush` | one writer, stale pids, pending flushes, the end | 3 process ids, interval 2, signals at any point |

Expected to be violated, each the evidence of one finding (section 4):

| run | property | what the counterexample shows |
|---|---|---|
| `block_crash` | `ValueKept` | index written, key deleted, its block reused, kill: the key comes back with another key's value |
| `put_delete` | `TableNotNull` | DELETE of a table's only key during a large upload: `entry->table` is NULL when its file is closed |
| `table_name` | `TableNamed` | a table loses its name to the last user of its predecessor; deleting it then does not find it |
| `keep_alive` | `InOrder` | GET / and then another request on the same connection: the rest of the first head is answered |

Why `cache_refs` and `cache_orderly` are separate: some properties hold whatever the interleaving
(the first), others only as long as a request head arrives in one piece and no whole table is
deleted (the second); section 4 says by which steps each of them fails outside
these conditions, and section 5 which of the conditions each one needs. `LruExact` needs none; it is in the
second run because only entries in blocks, and several of them, make a list worth looking at. `Requests`, `SplitHead` and `RepeatLength` select the clients' behaviour; they
never change what the server does. `SplitHead = FALSE` restricts clients to heads that arrive in
one TCP segment, which the event loop handles without serving another connection. In HttpConnection
`Reconnects` are the kinds of requests after which a client opens a new connection, and a "steady"
client waits for each answer.

Bounds: `EntryIds`, `TableIds`, `Blocks` bound the live structures, `MaxKeys` and `MaxBytes` the
counters that drift, `MaxTime` the clock, `MaxBlocks` the file. Two connections suffice for every
pair "one uses, the other removes"; the ids of `cache_refs` let one entry be deleted and in use beside
the one in the hash set, three or four ids let both keys be in that state. `LenWrap = 100` and the
`Wrap` of BlockStore stand
for 2^32 and 2^20: only that a difference below zero becomes large, and that a length reaches the
limit, matters. `BlockLength = 2` puts 1 and 2 in a block and 3 in a file. A ring of 22 holds
exactly the longest good request; a request goes round its end when it arrives before the ring is
empty, and positions wrap after two rounds (in the code after four). Interval 3 with `Slack` 1 is the smallest for which `Slack + 1 < Interval`, the
assumption of the proof. Three process ids let a stale pid, a running child and a new one differ.

Deadlock is checked except in `cache_refs` and the violation runs of CacheServer, where the process may stop at a fault, and in `cache_expire`, where
a table lost under its name (section 4) can use up the entry ids. Two clients suffice for
`accept_queue`: the queue then has zero, one and two nodes, both threads contend for the mutex with
the loop, and a number freed by one client is reused by the other; longer queues are covered by the
proof, and so are longer monitoring lists.

Fairness:

- AcceptQueue. Each thread runs (`WF` of its steps): they are threads of
  the system's scheduler, and the timeouts of `epoll_wait` are what makes `Leave` and `Poll` steps that
  need no event. An accept thread that finds the mutex taken again and again gets it in the end
  (`SF` of `Lock`): POSIX does not promise it, but every holder releases the mutex after a few
  assignments and then makes system calls. With `WF` alone TLC shows the one schedule that starves a
  client, the other thread and the loop always taking the mutex first. Nothing is assumed of clients,
  signals or failures.
- HttpConnection. The loop serves an event of the connection (`WF`), needed only for the steady client,
  whose liveness is claimed. Nothing is assumed of the client.
- Monitoring. The loop runs (`WF`), the interval timer goes on (`SF`, since its guard, which keeps the
  clock from running away from a loop and clients that are late, holds again and again), and a
  client that reads does read (`WF` of `Drain`; it is what "reads" means).
- Flush. Keys go on being inserted (`SF` of `Gc`: a flush put off is only made by a later call, and
  the comment in `db_lru_gc` says no more), the loop gets on between signals (`SF`: SIGUSR1 does not
  come back to back for ever), children end, SIGCHLD is delivered, the clock runs (`WF`).

## 4. Findings

The violation runs above are quoted with the promise they break in `PROJECT.json`. The model
also reproduces the following behaviour of the code, which bounds what the passing runs can claim.

Storage:

- `db_block_size` computes the file length in 32 bits, so at 2^20 blocks it truncates the file to
  nothing. No run's file gets that far; the model contains the step (`Wrap`, `wrapped`), and `ValueLastsCorrect` proves that
  values last until exactly there.
- `index.save` is unlinked before `index.temp` is renamed to it: killed in between, the server starts
  with an empty database (`ChildUnlink`, `Crash`, `ChildRename`).
- When `db_close` cannot write `index.temp` it says so and exits, and the old index stays; the next start is that after
  a kill (`Crash`, `crashed`), with the same consequences. `StopStart` is a stop whose last index is written.
- An entry loaded from the index carries a reference nobody releases: deleting or replacing it never
  gives its block back (`ReleaseLoaded`, `leaked`).
- `currently_flushing` tests `if (w)` before `w == -1`, so a failed `waitpid` is judged by a status
  nobody has set, and a child that was killed is reaped and still taken for one that writes. With a
  child that ends before its pid is stored, this leaves a stale pid, and as long as the uninitialised
  status does not happen to say "exited" the index is never written again (`Stale` in `Flushes`).
- SIGUSR1 between the check of `current_flush` and its assignment starts a second child, and both write
  `index.temp`; SIGUSR1 or SIGCHLD during the wait in `db_close` ends the wait early (`crossed`).

Tables and entries:

- A key deleted between the request line and the Content-Length of its upload is counted for ever, and
  a second, smaller Content-Length adds almost 2^32 to `db_size_bytes` (`LenWrap`); deleting a table
  does not lower `db_keys`. `CountersExact` is
  therefore checked with whole heads, `RepeatLength = FALSE` and without DROP.
- Two DELETEs of one key whose heads overlap delete the entry twice (fault `deleted twice`), and the table a connection keeps
  between the parts of its URL may have lost its hash set (fault `destroyed hash set`): `NoFault` is
  checked and claimed with whole heads only. An unfinished DELETE unlinks the file of an upload that goes on; `FilesExact` is checked without DELETE.
- Deleting a table reads entries it has freed (`EndDropFreed`, fault `freed entry`). `NoFault` is checked without DROP.
- A file created after its key was deleted stays on disk (the other half of `FilesExact`).
- PURGE of a key is refused but leaves the table it created, without keys and without references;
  deleting such a table frees it under its user. `TableRefsExact` is checked and proved without DROP, and
  holds with PURGE: it allows the count 0 of such a table, which `db_check_table_refs` asserts to be 1 once no
  connection is left (`db.cpp:1241`): a debug build stops there.
- `db_table_actually_delete` removes whatever table has the hash of the freed one: when a table is
  deleted during a download and created again, the end of the download drops the new table. So
  does the last user of a table whose last key a GET found expired. `TableReachable` is therefore checked
  and proved without DROP and without lifetimes; in the abstract cache it is what `Done` allows. When
  the new table goes in its turn, by an upload that is cut off for example, its name is not in `db.tables` and the assertion
  `k != kh_end(db.tables)` is false; the release build goes on, since `kh_del` ignores the end of the hash set. `TableNamed`
  says that this does not happen: `table_name` refutes it with lifetimes, section 5 proves it without. `cache_expire`, where it
  happens, checks `NoFault`, which says nothing of names.
- Deleting the last key of a table loses a reference, and the table is never freed. The model
  reclaims the id of such a table (`Settle`).
- When expired keys alone bring the size under the limit, the LRU pass is skipped and the configured
  share below it is not reached; `GcTrims` asks for the share only when no key had expired.
- A listing sends a key by pointer on a later write event, when its entry may be freed (fault
  `freed key`), and a listing of a table that never had a key runs over its bucket array (`no buckets`).

Parser and ring buffer (`FaultsOnlyOnSplit` says that nothing else goes wrong for a client that waits):

- The value of a header ends at `\r` and two characters are taken: when the `\n` is not there yet, the
  read position passes the write position. The same happens after the URL `/`, which takes one
  character too many.
- A ring filled to the last character at an offset has `rbuf_read_to_end` equal to its whole size, and
  the scan leaves the memory; a number that straddles the end of the ring is measured by a difference of
  addresses that is negative, and `rbuf_strntol` looks at more characters than it should.
- `rbuf_copyn` asserts at a copy round the end of the ring that all that is left at the start of the memory is
  wanted (`read_buffer.cpp:43`), but the character that ends the name is still there: a debug build stops. The
  next line limits the copy, so the release build takes the right characters, which is what `RingExact` and `CopyExact` say.
- Two more assertions of the parser fail in a debug build: `http_parse_cache.cpp:199` for a URL that does not start with
  `/`, whose first character the release build takes for it, and `396` for a client that pipelines a request behind a listing.
- `http_handle_eolwritetoend` leaves the newline it has found in the ring, `http_stats_after_eol` the
  whole rest of the head. The former is harmless, since leading newlines are skipped.
- After an answer `http_read_handle` is called at once, and returns without looking at the ring when
  the socket has no more data: a pipelined request that is already in the ring waits for the next event.
  A body that goes round the end of the ring waits in the same way. `Answered` is therefore claimed for
  the client that waits for its answers.

Event loop and monitoring:

- `monitoring_check` frees connections in the middle of a batch of events; an event of the same batch
  for such a connection reads freed memory (`Freed`, `Stale`). Only a client that does not read is freed there
  (`OnlyStuckDropped`). It also closes their descriptors twice, so that
  a client accepted at that moment can lose its socket (`Reclose`). If nobody was accepted, `close` fails
  and so does the assertion on its result (`connection.cpp:473`) in a debug build.
- `monitoring_check` clears `prev` of the next client before it drops the head, and `monitoring_destroy` asserts that this link
  leads back (`http_parse_mon.cpp:413`): a debug build stops whenever a stuck client is dropped with another behind it.
  In the release build the list is right: `ListExact` describes the links the code makes,
  the cleared one included.
- When `epoll_ctl` fails for a new socket, the connection stays in the set with a closed descriptor
  (`Add`); lack of descriptors in `accept4` ends the process (`TooManyFiles`); the sockets still queued
  at the end are closed only by the exit.
- The comment "You have 5s to send a request" is not enforced: nothing calls `monitoring_pending_add`,
  and a silent connection stays. `http_discard_input` never takes anything out of the ring, so a
  client that keeps sending is closed when it is full (`Full`).
- In `http_read_handle`, `run` is not set when `monitoring_check` has just registered the connection for
  writing: what is returned may close the connection (`EventRead`).

## 5. Proofs

`BlockStoreProofs` proves, for every finite set of entries and any limits satisfying
`BlockAssumption` (`MaxLoad < Wrap`, as 8192 < 2^20):

- `TypeCorrect`, `FreeListCorrect`, `PartitionCorrect`, `ExclusiveCorrect`: the invariants of
  `block_store`, with crashes;
- `PoolRefined`: `Spec => PoolSpec`, the allocator implements BlockPool;
- `ValueLastsCorrect`: every complete value stays in its block until the process is killed or the length of
  the file wraps, whatever `MaxBlocks` and `Wrap` are. `block_crash` is the counterexample after a kill; after a wrap
  growing the file cuts off its contents.

The inductive invariant `Inv` joins the four invariants with `DoneHeld` (a complete entry holds a
block) and the exclusiveness of the assignments in the index on disk and in the child's snapshot.
The last is what a restart needs: the entries it loads are exclusive because the index was, and the
index was because it was a snapshot of exclusive holders. Each action has its lemma. `FreeUnusedInv`
shows that the rebuilt list contains exactly the unused blocks; it is shared by both kinds of start.
The refinement maps the variables of BlockPool to those of the same name; a step grants a
block that by `Partition` nobody holds, or releases, begins, commits, restarts or stutters.
`ValueInv` adds that the file is exactly as long as `blocks_exist` says, so that shrinking by one
block cuts off only the block being freed.

`AcceptQueueProofs` proves for every finite set of clients (`ClientAssumption` only keeps their names
apart from null and the eventfds) `TypeCorrect`, `QueueCorrect` and `WakeupCorrect`. Its inductive
invariant has five parts beside the types: `Full` (a thread carries a node, the loop has taken one,
where they use it); `Mutex` (who is between lock and unlock holds the mutex, so nobody else is);
`Apart` (a client is in one place among backlogs, hands and queue, so that clearing or setting the
`next` field of one node never touches another); `Chain` and `Ends` (the links, and the two
half-finished shapes between the assignments of an insertion and of a removal); and `Wake`: nodes
nobody will announce are nodes that the loop, still between `read` and the test for an empty queue,
is about to find. `NoLostWakeup` alone is not inductive, because the loop lowers the eventfd while
nodes are in the queue. Once the process has ended only the types are claimed.

`MonitoringProofs` proves `TypeCorrect`, `ListCorrect`, `SortedCorrect` and `DroppedCorrect` for every
finite set of connections, any interval and any buffer, as long as loop and clients are late by less
than the interval (`Slack + 1 < Interval`). That every link has its counterpart is not inductive, since a
cycle apart from the list would satisfy it; the invariant says that there is a sequence of exactly the
monitored connections along which the links run, and `AddKeeps`, `ToTailKeeps`, `DestroyKeeps`,
`UnhookKeeps` and `DropKeeps` give the new sequence for each operation. `Control` and `Batch` say where the
loop is and which events a batch can hold. `Timely` is the argument about time: a count is due at most
one interval after the copy of the clock, so that putting a connection at the tail keeps the order, and
a client that reads has almost the whole interval left while a count for it is unsent.

`FlushProofs` proves `WriterCorrect` and `StaleCorrect` for every finite set of process ids and any interval. As long
as SIGUSR1 has not come inside a decision, `OneChild` says that a child that was not reaped is the one
`current_flush` names or is about to name, and that whoever is going to fork or to write the index has
seen that there is none; `Known` says the converse, up to the two cases of `early`. Each group of steps that
treats the children alike (`MoveInv`, `DecideInv`, ...) has its lemma.

`AcceptQueueProofs` also proves `OwnerCorrect` (`OneOwner`): the owners of a socket are pairwise
exclusive by `Apart` and the places of threads and loop, and a set of which any two members are equal has at
most one.

`CacheServerProofs` proves, for every finite set of connections and of entry, table and block ids, any
tables, keys and hash function (colliding or not), any lengths, lifetimes and limits, every kind of
request and heads cut anywhere:

- `TypeCorrect`, `EntryRefsCorrect`, `BlocksCorrect`, `ReadsCorrect`: the invariants of `cache_refs`;
- `OneWriter`: no two uploads write to one entry, and nobody reads it.

The counts of `EntryRefsExact` are no invariant of one function of `db.cpp`: inside a handler they differ
from the number of users by the reference just taken or about to be released. The inductive invariant `SInv`
therefore says `Sound(db, H, U)` of a database and two functions, how many users each entry and each
table has, and every lemma of `CacheDbProofs` says how a function changes all three. `Sound` joins:
the count of an entry is `H`; an entry that is deleted has users; a hash set holds entries in memory that are not
deleted, of its own table, under their own hash, complete ones with a length; the blocks in use are those
of the entries, each of one; and the count of a table that is not deleted is *at least* its users
plus one for its keys. The last is weaker than `TableRefsExact`, which does not hold in general, and is just what
is needed to know that a table with users is not freed by the deletion of its last key. `ConnOK` says what
a connection's pointers are in each state. `Keeps` says what a function leaves alone of the entries other
connections use.

The loops (`db_table_handle_delete`, `db_expire_cursor`, `db_lru_cleanup_percent`) are folds over finite
sets. The library's induction theorems cannot be used, but what is needed is that every round keeps the
database in a set, and that follows from the least number of rounds for which it does not (`Least`,
`LoopExists`, `LoopGood`; `SoftDeleteLoop`, `EvictLoop` and `CleanupLoop` are its instances).

`CacheServerProofs` also proves `CacheRefined`: under `SplitHead = FALSE`, `Spec => CacheSpec`, with all
kinds of requests, expiry, eviction and collisions. `Shrinks(d, r)` says that what can be found in `r` could be
found in `d`, with the same key and state; it holds of every function of `db.cpp` but the insertion of a
key and the end of an upload, whatever the reference counts are, and it is transitive, so a handler
that only calls such functions is a `Remove` of the abstract cache (`ShrinkStep`). What is left are
the five handlers that do more: a new table is empty (`NewTableView`), a GET that finds its key leaves everything to
be found (`GetReadView`), a PUT inserts at one place and may lose it in the same step to the garbage
collection (`GetWriteView`, `BeginStep`), the end of the body turns the upload at one place into its
value, or is seen by nobody (`CompleteView`, `UnseenView`), and an upload that is cancelled is out of the
hash sets before its `writing` flag is cleared (`AbortHides`). Beside `SInv` this needs `RInv`: a table
found by a name can be used and has that name, so that an entry is found at one place only; and the table
of a connection that has sent its request line but not its key is one that can be found. The latter is
where whole heads are needed: with `SplitHead = TRUE` the table can be deleted and created again in
between, and a PUT goes into the old one.

`CacheOrderlyProofs` proves the bookkeeping, for any numbers of connections, entries, tables, keys and blocks,
colliding hashes included. `Orderly` and `Tables` are its inductive invariants `OInv` and `TInv`.

- `LruCorrect` (`LruExact`) and `GcCorrect` (`GcTrims`) need no hypothesis: every request, heads cut anywhere.
  The links being mutual is not inductive. `List` says that positions can be given to the complete keys
  so that each link leads to the next one in their order; removing, inserting and
  moving a node are proved once for links in general, and `db_lru_cleanup_percent` is a loop that has
  freed what it says, or come to the end, because the list holds every key.
- `FilesCorrect` (`FilesExact`) assumes `Filed`: whole heads, one Content-Length, and if there is DELETE,
  no value longer than a block. `CountersCorrect` (`CountersExact`) assumes `Counted`: whole heads, one
  Content-Length below `LenWrap`, no DROP. Section 4 says what
  goes wrong without them. `Fine(d, k)` has the number `k` of keys that are removed and still counted, for
  the states between two assignments of a function. The lemmas about sums and linked lists end `CacheDbProofs`,
  those about `Fine` end `CacheServerProofs`.
- `TableRefsCorrect` (`TableRefsExact`) assumes that there is no DROP, `ReachableCorrect` (`TableReachable`)
  no lifetimes either; both hold for heads cut anywhere. `Sound` has only bounds on the count of a table.
  The exact count (`Tallied`) is that of its users and one for its keys, until the table is deleted with its last
  key; from then on it is at least the number of its users, and without lifetimes one more
  (`Spare`), which is the reference section 4 calls lost: the table is never freed, so its name is never
  cleared when another table has it. When a GET finds the
  last key expired, the reference is given back, and the name can be cleared. What a
  function may do to the tables of others is `Ties`: nothing a user would notice (`Stays`), or the deletion with
  the last key (`Ends`).
- `NamedCorrect` (`TableNamed`) assumes what `ReachableCorrect` does, no DROP and no lifetimes, with heads cut anywhere.
  A table with keys is the one its name leads to, so its deletion with the last key finds the name; `Reach` therefore says
  beside this that no assertion on a name has failed, and every lemma on `Reach` carries both.
- `NoFaultCorrect` (`NoFault`) assumes `Safe`: whole heads, no listing, no DROP, and if there is
  DELETE, no value longer than a block. Lifetimes, eviction and collisions are included. It needs, beside `TInv` and
  the `RInv` of the refinement, what a handler finds where the last one has left it (`Ready`): a table
  with a name, and for DELETE an entry that is still a key. Then no function is called on a
  hash set that is gone (`Misused`), and no entry is deleted twice. It says nothing of the names of tables: with
  lifetimes, which it includes, `table_name` is a counterexample to `TableNamed`.

`Safe`, `Filed`, `Counted` and `SplitHead = FALSE` restrict what clients send, never what the server does.

`HttpConnectionProofs` proves `RingCorrect` (`RingExact`) for a memory of any size, positions that wrap at any
multiple of it, keys and values of any characters, and whatever client, handlers and answers do. Its
inductive invariant `QInv` says that the ring `Holds` what was read and not consumed, cell by cell, in terms of `Cell`:
the index some cells behind another. It includes the full ring, where `RingExact` claims nothing, since a
full ring is filled and emptied like any other. `Later` and `Twice` are the arithmetic of indices and wrapping positions, `Distances` says what
the four macros compute, `FillHolds` and `MoveHolds` that a read and `RBUF_READMOVE` keep the queue, and
`CopyExact` and `AtExact` that `rbuf_copyn` and `RBUF_ITERATE` find it. Of the handlers it needs
only that what they take out is a number of characters and not more than there are (`ScanKeeps`, `BodyKeeps`):
more is the fault `read past write`.

Only model-checked:

- all liveness: fairness and `ENABLED` are out of the provers' reach;
- `InOrder` and `FaultsOnlyOnSplit`: what a parser makes of requests of any length is a property of the
  whole text of a request and of all ways to cut it, which needs induction over data.

## 6. Not modelled, and what could follow

- Settings, process start, logging and the vendored hash code: sequential, with no protocol.
  `connection_setup` and `monitoring_close` belong here too.
- Partial writes to sockets (`http.cpp:116`) and failing writes to files (`http_parse_cache.cpp:696`): the
  code resends the start of a response after a partial write, so nothing about answers holds once a
  socket is full.
- Probing of colliding table names in `db_table_get_read`/`_write`, and the 15-bit count of references.
- The eviction of `db_lru_gc` when SIGUSR1 runs it inside another database operation: CacheDb's operators
  would have to be cut into single assignments. Flush models the same interruption for the part of
  `db_lru_gc` that decides about the index.
- The characters of listings, bulk deletions and monitoring requests, which use the same scans as the
  requests of HttpConnection.
- Theorems worth adding: `TableRefsExact` with DROP, whose tables lose the
  reference of their keys twice.
