---------------------------- MODULE AcceptQueue ----------------------------
(***************************************************************************)
(* The event loop of connection.cpp, its accept threads, and the linked    *)
(* list through which the threads hand accepted sockets to the loop.       *)
(*                                                                         *)
(* A client stands for its socket, for the queue node that carries the     *)
(* socket and for the scache_connection made of it; one that comes back    *)
(* later is the same client only when all three are free again.  What a    *)
(* handler does with the database is the subject of CacheServer: here it   *)
(* keeps or closes its connection.                                         *)
(***************************************************************************)
EXTENDS Naturals, Sequences, FiniteSets

CONSTANTS Clients,
          Monitors     \* the clients of the monitoring port

Threads == {"cache", "mon"}     \* the accept threads
Loop    == "loop"               \* the main thread
Nil     == "nil"                \* a null pointer
Evfds   == {"accept", "timer"}  \* the eventfds of the accept threads and the timer

ASSUME ClientAssumption ==
    /\ IsFiniteSet(Clients)
    /\ Monitors \subseteq Clients
    /\ Clients \cap ({Nil} \cup Evfds) = {}

VARIABLES
    stop,      \* stop_soon
    backlog,   \* the kernel's queue of each listener, oldest client first
    open,      \* clients whose socket the process holds open
    event,     \* whether the counter of the accept eventfd is above zero
    reused,    \* the socket that got the number of the one just closed
    pc,        \* where each accept thread is
    hand,      \* q: the node an accept thread is inserting
    lock,      \* the holder of cq_lock
    head,      \* cq_head
    tail,      \* cq_tail
    next,      \* the next field of each node
    fifo,      \* history: the nodes inserted and not yet taken, oldest first
    lpc,       \* where the loop is
    temp,      \* the node the loop took
    conns,     \* the set connections
    batch      \* events[]: the events the loop has still to handle

kernel == <<backlog, open, event, reused>>
queue  == <<lock, head, tail, next, fifo>>
loop   == <<lpc, temp, conns, batch>>
vars   == <<stop, kernel, pc, hand, queue, loop>>

Maybe(S) == S \cup {Nil}
Port(c)  == IF c \in Monitors THEN "mon" ELSE "cache"
Waiting  == {c \in Clients : \E i \in DOMAIN backlog[Port(c)] : backlog[Port(c)][i] = c}
Queued   == {fifo[i] : i \in DOMAIN fifo}
InHand   == {hand[t] : t \in Threads} \cup {temp}
Running  == lpc \notin {"done", "dead"}

Init ==
    /\ stop = FALSE
    /\ backlog = [t \in Threads |-> <<>>] /\ open = {}
    /\ event = FALSE /\ reused = Nil
    /\ pc = [t \in Threads |-> "start"] /\ hand = [t \in Threads |-> Nil]
    /\ lock = Nil /\ head = Nil /\ tail = Nil
    /\ next = [c \in Clients |-> Nil] /\ fifo = <<>>
    /\ lpc = "start" /\ temp = Nil /\ conns = {} /\ batch = {}

-----------------------------------------------------------------------------
(* The environment: clients that connect, and SIGINT or SIGTERM.           *)

Arrive(c) ==
    /\ Running
    /\ c \notin Waiting \cup InHand \cup Queued \cup conns
    /\ backlog' = [backlog EXCEPT ![Port(c)] = Append(@, c)]
    /\ UNCHANGED <<stop, open, event, reused, pc, hand, queue, loop>>

\* What is left of the process after FATAL, or after undefined behaviour.
Die ==
    /\ lpc' = "dead"
    /\ pc' = [u \in Threads |-> "exit"]
    /\ UNCHANGED <<stop, kernel, hand, queue, temp, conns, batch>>

abort_handler ==
    /\ Running /\ ~stop
    /\ stop' = TRUE
    /\ UNCHANGED <<kernel, pc, hand, queue, loop>>

\* A second signal forces the exit.
abort_again == Running /\ stop /\ Die

-----------------------------------------------------------------------------
(* An accept thread: connection_handle_accept.                             *)

\* The test of while (!stop_soon), between two rounds of a thread.
NextRound == IF stop THEN "exit" ELSE "wait"

Ready(t) ==
    /\ pc[t] = "start"
    /\ pc' = [pc EXCEPT ![t] = NextRound]
    /\ UNCHANGED <<stop, kernel, hand, queue, loop>>

\* Mutant: epoll_wait is repeated while it returns nothing, stop_soon or not.
Leave_never(t) == pc[t] = "wait" /\ stop /\ UNCHANGED vars

\* epoll_wait gives up after 500 ms and finds stop_soon set.
Leave(t) ==
    /\ pc[t] = "wait" /\ stop
    /\ pc' = [pc EXCEPT ![t] = "exit"]
    /\ UNCHANGED <<stop, kernel, hand, queue, loop>>

\* accept4 may give the socket the number that the loop has just closed and
\* is about to close a second time.
Accept(t) ==
    LET c == Head(backlog[t])
    IN  /\ pc[t] = "wait" /\ backlog[t] # <<>>
        /\ backlog' = [backlog EXCEPT ![t] = Tail(@)]
        /\ open' = open \cup {c}
        /\ \/ UNCHANGED reused
           \/ lpc = "reclose" /\ reused = Nil /\ reused' = c
        /\ hand' = [hand EXCEPT ![t] = c]
        /\ next' = [next EXCEPT ![c] = Nil]
        /\ pc' = [pc EXCEPT ![t] = "lock"]
        /\ UNCHANGED <<stop, event, lock, head, tail, fifo, loop>>

\* Mutant: the result of accept4 is used without a test.
Drop_unchecked(t) ==
    /\ pc[t] = "wait" /\ backlog[t] # <<>>
    /\ backlog' = [backlog EXCEPT ![t] = Tail(@)]
    /\ pc' = [pc EXCEPT ![t] = "lock"]
    /\ UNCHANGED <<stop, open, event, reused, hand, queue, loop>>

\* Mutant: the socket stays open when there is no memory for the node.
Drop_unclosed(t) ==
    /\ pc[t] = "wait" /\ backlog[t] # <<>>
    /\ backlog' = [backlog EXCEPT ![t] = Tail(@)]
    /\ open' = open \cup {Head(backlog[t])}
    /\ pc' = [pc EXCEPT ![t] = NextRound]
    /\ UNCHANGED <<stop, event, reused, hand, queue, loop>>

\* accept4 reports an aborted connection, or there is no memory for the
\* node and the socket is closed at once.
Drop(t) ==
    /\ pc[t] = "wait" /\ backlog[t] # <<>>
    /\ backlog' = [backlog EXCEPT ![t] = Tail(@)]
    /\ pc' = [pc EXCEPT ![t] = NextRound]
    /\ UNCHANGED <<stop, open, event, reused, hand, queue, loop>>

\* accept4 fails with EMFILE (files of entries use up descriptors too).
TooManyFiles(t) == pc[t] = "wait" /\ backlog[t] # <<>> /\ Die

Lock(t) ==
    /\ pc[t] = "lock" /\ lock = Nil
    /\ lock' = t
    /\ pc' = [pc EXCEPT ![t] = "link"]
    /\ UNCHANGED <<stop, kernel, hand, head, tail, next, fifo, loop>>

\* The first of the two assignments, by whether the queue is empty.
Link(t) ==
    /\ pc[t] = "link"
    /\ \/ /\ tail = Nil
          /\ tail' = hand[t]
          /\ pc' = [pc EXCEPT ![t] = "head"]
          /\ UNCHANGED next
       \/ /\ tail # Nil
          /\ next' = [next EXCEPT ![tail] = hand[t]]
          /\ pc' = [pc EXCEPT ![t] = "tail"]
          /\ UNCHANGED tail
    /\ UNCHANGED <<stop, kernel, hand, lock, head, fifo, loop>>

\* The second assignment, and pthread_mutex_unlock.
Unlock(t) ==
    /\ \/ pc[t] = "head" /\ head' = hand[t] /\ UNCHANGED tail
       \/ pc[t] = "tail" /\ tail' = hand[t] /\ UNCHANGED head
    /\ fifo' = Append(fifo, hand[t])
    /\ hand' = [hand EXCEPT ![t] = Nil]
    /\ lock' = Nil
    /\ pc' = [pc EXCEPT ![t] = "signal"]
    /\ UNCHANGED <<stop, kernel, next, loop>>

Signal(t) ==
    /\ pc[t] = "signal"
    /\ event' = TRUE
    /\ pc' = [pc EXCEPT ![t] = NextRound]
    /\ UNCHANGED <<stop, backlog, open, reused, hand, queue, loop>>

-----------------------------------------------------------------------------
(* The loop: connection_event_loop, and the end of main.                   *)

LoopRound == IF stop THEN "join" ELSE "epoll"

\* The spin until both accept threads have set ready.
Start ==
    /\ lpc = "start" /\ \A t \in Threads : pc[t] # "start"
    /\ lpc' = LoopRound
    /\ UNCHANGED <<stop, kernel, pc, hand, queue, temp, conns, batch>>

\* epoll_wait returns events of sockets and eventfds, or nothing at a timeout
\* that finds stop_soon set.  The timer reports only when a monitoring
\* connection is due.
Poll(S, timer) ==
    /\ lpc = "epoll"
    /\ S \subseteq conns \cap open
    /\ timer => conns \cap Monitors # {}
    /\ event \/ timer \/ S # {} \/ stop
    /\ batch' = S \cup {x \in Evfds : IF x = "accept" THEN event ELSE timer}
    /\ lpc' = "evfds"
    /\ UNCHANGED <<stop, kernel, pc, hand, queue, temp, conns>>

AcceptEvent ==
    /\ lpc = "evfds" /\ "accept" \in batch
    /\ batch' = batch \ {"accept"}
    /\ lpc' = "read"
    /\ UNCHANGED <<stop, kernel, pc, hand, queue, temp, conns>>

Read ==
    /\ lpc = "read"
    /\ \/ stop /\ lpc' = "evfds" /\ UNCHANGED event
       \/ ~stop /\ lpc' = "lock" /\ event' = FALSE
    /\ UNCHANGED <<stop, backlog, open, reused, pc, hand, queue, temp, conns, batch>>

LoopLock ==
    /\ lpc = "lock" /\ lock = Nil
    /\ lock' = Loop
    /\ lpc' = "pop"
    /\ UNCHANGED <<stop, kernel, pc, hand, head, tail, next, fifo, temp, conns, batch>>

\* The queue is empty: unlock and break.
Empty ==
    /\ lpc = "pop" /\ head = Nil
    /\ lock' = Nil
    /\ lpc' = "evfds"
    /\ UNCHANGED <<stop, kernel, pc, hand, head, tail, next, fifo, temp, conns, batch>>

Pop ==
    /\ lpc = "pop" /\ head # Nil
    /\ temp' = head
    /\ head' = next[head]
    /\ fifo' = Tail(fifo)
    /\ lpc' = "unlock"
    /\ UNCHANGED <<stop, kernel, pc, hand, lock, tail, next, conns, batch>>

\* Mutant: the last node leaves cq_tail behind.
LoopUnlock_tail ==
    /\ lpc = "unlock"
    /\ lock' = Nil
    /\ lpc' = "add"
    /\ UNCHANGED <<stop, kernel, pc, hand, head, tail, next, fifo, temp, conns, batch>>

LoopUnlock ==
    /\ lpc = "unlock"
    /\ tail' = IF head = Nil THEN Nil ELSE tail
    /\ lock' = Nil
    /\ lpc' = "add"
    /\ UNCHANGED <<stop, kernel, pc, hand, head, next, fifo, temp, conns, batch>>

\* Mutant: one socket per event: after it the loop goes on with the others.
Add_once ==
    /\ lpc = "add"
    /\ conns' = conns \cup {temp}
    /\ open' \in {open, open \ {temp}}
    /\ temp' = Nil
    /\ lpc' = "evfds"
    /\ UNCHANGED <<stop, backlog, event, reused, pc, hand, queue, batch>>

\* connection_add, then epoll_ctl, which may fail: the socket is closed but
\* the connection stays in the set.
Add ==
    /\ lpc = "add"
    /\ conns' = conns \cup {temp}
    /\ open' \in {open, open \ {temp}}
    /\ temp' = Nil
    /\ lpc' = "read"
    /\ UNCHANGED <<stop, backlog, event, reused, pc, hand, queue, batch>>

\* monitoring_check: a due connection that has not read its last message is
\* removed, which closes its socket ...
MonitorClose(c) ==
    /\ lpc = "evfds" /\ "timer" \in batch
    /\ c \in Monitors \cap conns \cap open
    /\ conns' = conns \ {c}
    /\ open' = open \ {c}
    /\ lpc' = "reclose"
    /\ UNCHANGED <<stop, backlog, event, reused, pc, hand, queue, temp, batch>>

\* ... and the number of the socket is closed again, whoever has it by now.
\* Nobody does in most cases: close fails, which only the debug build asserts
\* against (connection.cpp:473).
Reclose ==
    /\ lpc = "reclose"
    /\ open' = open \ {reused}
    /\ reused' = Nil
    /\ lpc' = "evfds"
    /\ UNCHANGED <<stop, backlog, event, pc, hand, queue, temp, conns, batch>>

MonitorDone ==
    /\ lpc = "evfds" /\ "timer" \in batch
    /\ batch' = batch \ {"timer"}
    /\ UNCHANGED <<stop, kernel, pc, hand, queue, lpc, temp, conns>>

EvfdsDone ==
    /\ lpc = "evfds" /\ batch \cap Evfds = {}
    /\ lpc' = "events"
    /\ UNCHANGED <<stop, kernel, pc, hand, queue, temp, conns, batch>>

\* The events of a connection whose handler wants to go on.
Keep(c) ==
    /\ lpc = "events" /\ c \in batch \cap conns
    /\ batch' = batch \ {c}
    /\ UNCHANGED <<stop, kernel, pc, hand, queue, lpc, temp, conns>>

\* do_close: http_cleanup and connection_remove.
Close(c) ==
    /\ lpc = "events" /\ c \in batch \cap conns
    /\ batch' = batch \ {c}
    /\ conns' = conns \ {c}
    /\ open' = open \ {c}
    /\ UNCHANGED <<stop, backlog, event, reused, pc, hand, queue, lpc, temp>>

\* The event of a connection that monitoring_check has freed in this round.
Freed(c) == lpc = "events" /\ c \in batch \ conns /\ Die

\* Mutant: the eventfd is lowered after the queue was emptied.
EndRound_lower ==
    /\ lpc = "events" /\ batch = {}
    /\ lpc' = LoopRound
    /\ event' = FALSE
    /\ UNCHANGED <<stop, backlog, open, reused, pc, hand, queue, temp, conns, batch>>

EndRound ==
    /\ lpc = "events" /\ batch = {}
    /\ lpc' = LoopRound
    /\ UNCHANGED <<stop, kernel, pc, hand, queue, temp, conns, batch>>

Join ==
    /\ lpc = "join" /\ \A t \in Threads : pc[t] = "exit"
    /\ lpc' = "cleanup"
    /\ UNCHANGED <<stop, kernel, pc, hand, queue, temp, conns, batch>>

\* connection_cleanup closes the listeners and the connections and frees the
\* queue; the sockets in the queue are closed by the exit of the process.
connection_cleanup ==
    /\ lpc = "cleanup"
    /\ lpc' = "done"
    /\ backlog' = [t \in Threads |-> <<>>]
    /\ open' = {}
    /\ head' = Nil /\ fifo' = <<>>
    /\ UNCHANGED <<stop, event, reused, pc, hand, lock, tail, next, temp, conns, batch>>

-----------------------------------------------------------------------------
ThreadStep(t) ==
    \/ Ready(t) \/ Leave(t) \/ Accept(t) \/ Drop(t) \/ TooManyFiles(t)
    \/ Lock(t) \/ Link(t) \/ Unlock(t) \/ Signal(t)

LoopStep ==
    \/ Start
    \/ \E S \in SUBSET Clients, timer \in BOOLEAN : Poll(S, timer)
    \/ AcceptEvent \/ Read \/ LoopLock \/ Empty \/ Pop \/ LoopUnlock \/ Add
    \/ Reclose \/ MonitorDone \/ EvfdsDone
    \/ \E c \in Clients : MonitorClose(c) \/ Keep(c) \/ Close(c) \/ Freed(c)
    \/ EndRound \/ Join \/ connection_cleanup

\* The process has ended.
Ended == ~Running /\ UNCHANGED vars

Next ==
    \/ \E c \in Clients : Arrive(c)
    \/ abort_handler \/ abort_again
    \/ \E t \in Threads : ThreadStep(t)
    \/ LoopStep
    \/ Ended

\* Threads run, and a thread that waits for a mutex that becomes free again
\* and again gets it in the end.
Fairness ==
    /\ \A t \in Threads : WF_vars(ThreadStep(t)) /\ SF_vars(Lock(t))
    /\ WF_vars(LoopStep)

Spec == Init /\ [][Next]_vars /\ Fairness

-----------------------------------------------------------------------------
\* Each variable has a value of its kind; in particular only sockets that
\* accept4 returned are inserted in the queue.
TypeOK ==
    /\ stop \in BOOLEAN /\ event \in BOOLEAN
    /\ backlog \in [Threads -> Seq(Clients)]
    /\ open \subseteq Clients /\ conns \subseteq Clients
    /\ batch \subseteq Clients \cup Evfds
    /\ reused \in Maybe(Clients)
    /\ pc \in [Threads -> {"start", "wait", "lock", "link", "head", "tail",
                           "signal", "exit"}]
    /\ hand \in [Threads -> Maybe(Clients)]
    /\ lock \in Maybe(Threads \cup {Loop})
    /\ head \in Maybe(Clients) /\ tail \in Maybe(Clients) /\ temp \in Maybe(Clients)
    /\ next \in [Clients -> Maybe(Clients)]
    /\ fifo \in Seq(Clients)
    /\ lpc \in {"start", "epoll", "evfds", "read", "lock", "pop", "unlock", "add",
                "reclose", "events", "join", "cleanup", "done", "dead"}

\* Whenever the mutex is free, following the next pointers from cq_head
\* visits the inserted nodes in the order of their insertion and ends at
\* cq_tail, whatever the threads and the loop did before (connection.cpp
\* 421-431 and 577-584).
QueueShape ==
    Running /\ lock = Nil =>
        IF fifo = <<>>
        THEN head = Nil /\ tail = Nil
        ELSE /\ head = fifo[1] /\ tail = fifo[Len(fifo)] /\ next[tail] = Nil
             /\ \A i \in 1 .. Len(fifo) - 1 : next[fifo[i]] = fifo[i + 1]

\* The loop never sleeps in epoll_wait on a queue that nobody will tell it
\* of: the eventfd is raised, or a thread is on its way to raise it.  The
\* loop lowers the eventfd before it looks at the queue (connection.cpp 437
\* and 573).
NoLostWakeup ==
    lpc = "epoll" /\ fifo # <<>> => event \/ \E t \in Threads : pc[t] = "signal"

\* An open socket is in exactly one place: in the hand of an accept thread,
\* in the queue once, in the hand of the loop, or in the connections set.
\* None is forgotten by an error path, and none has two owners.
OneOwner ==
    Running =>
      \A c \in open :
        Cardinality({t \in Threads : hand[t] = c})
          + Cardinality({i \in DOMAIN fifo : fifo[i] = c})
          + Cardinality({temp} \cap {c}) + Cardinality(conns \cap {c}) = 1

\* A client in the backlog becomes a connection, unless it is turned away or
\* the server stops.
Served ==
    \A c \in Clients :
        c \in Waiting ~> c \in conns \/ c \notin Waiting \cup open \/ stop \/ ~Running

\* After SIGINT or SIGTERM the process ends: both accept threads leave
\* within a timeout, and the loop gets the mutex and joins them.
Halts == stop ~> ~Running
=============================================================================
