----------------------------- MODULE Monitoring -----------------------------
(***************************************************************************)
(* The monitoring port (http_parse_mon.cpp): every client that asked for   *)
(* /conn gets a growing count at a fixed interval.  The clients are kept   *)
(* in a doubly linked list, the next one to be written to first; a signal  *)
(* handler looks at its head every few milliseconds and wakes the event    *)
(* loop through an eventfd.  A client whose last count is still unsent     *)
(* when its next one is due is disconnected.                               *)
(*                                                                         *)
(* The list of connections that have made no request, mon_pending, is      *)
(* always empty: nothing calls monitoring_pending_add.                     *)
(*                                                                         *)
(* The program is the release build, where a failed assertion does not     *)
(* stop it: see Drop.                                                      *)
(***************************************************************************)
EXTENDS Naturals, FiniteSets

CONSTANTS Conns,      \* scache_connections of the monitoring port
          Interval,   \* MONITORING_DEFAULT_INTERVAL, in ticks of the clock
          InputSize,  \* reads that fill the input buffer
          Slack       \* ticks by which the loop and the clients may be late

Nil == "nil"

\* What output_buffer points to: nothing, the head of the stream, the answer
\* to another request, or a count.
Output == {Nil, "stream", "reply", "count"}

ASSUME MonitoringAssumption ==
    /\ IsFiniteSet(Conns) /\ Nil \notin Conns
    /\ Interval \in Nat /\ InputSize \in Nat /\ Slack \in Nat
    /\ Slack + 1 < Interval

VARIABLES
    conn,    \* the members of each connection
    head,    \* mon_head
    tail,    \* mon_tail
    next,    \* monitoring.next of each connection
    prev,    \* monitoring.prev
    due,     \* ticks until monitoring.scheduled, 0 when it is reached
    evfd,    \* whether the counter of the timer's eventfd is above zero
    lpc,     \* where the event loop is
    temp,    \* conn, in monitoring_check
    ripe,    \* connections that are due at current_time_copy
    lag,     \* ticks since current_time_copy was taken
    late,    \* ticks since every count due was written and read
    inq,     \* EPOLLIN events of the batch that are still to be handled
    outq,    \* EPOLLOUT events
    sock,    \* the client's side of each connection
    fault    \* a connection was used after it was freed

list   == <<head, tail, next, prev, due>>
check  == <<temp, ripe, lag>>
events == <<inq, outq>>
vars   == <<conn, list, evfd, lpc, check, late, events, sock, fault>>

NoConnection ==
    [handler |-> "none", out |-> Nil, epollin |-> TRUE, writing |-> FALSE, input |-> 0]
NoSocket == [reads |-> FALSE, room |-> TRUE, gone |-> FALSE]

Exists(m)    == conn[m].handler # "none"
Monitored(m) == conn[m].writing
Monitors     == {m \in Conns : Monitored(m)}

Init ==
    /\ conn = [m \in Conns |-> NoConnection] /\ sock = [m \in Conns |-> NoSocket]
    /\ head = Nil /\ tail = Nil
    /\ next = [m \in Conns |-> Nil] /\ prev = [m \in Conns |-> Nil] /\ due = [m \in Conns |-> 0]
    /\ evfd = FALSE /\ lpc = "wait" /\ temp = Nil /\ ripe = {} /\ lag = 0 /\ late = 0
    /\ inq = {} /\ outq = {} /\ fault = FALSE

-----------------------------------------------------------------------------
(* The list.                                                                *)

\* Mutant: a new client is the last one to be written to.
monitoring_add_last(m) ==
    /\ due'  = [due EXCEPT ![m] = 0]
    /\ prev' = [prev EXCEPT ![m] = tail]
    /\ next' = IF tail = Nil THEN [next EXCEPT ![m] = Nil] ELSE [next EXCEPT ![m] = Nil, ![tail] = m]
    /\ head' = IF head = Nil THEN m ELSE head
    /\ tail' = m

\* monitoring_add: at the head, due now.
monitoring_add(m) ==
    /\ due'  = [due EXCEPT ![m] = 0]
    /\ next' = [next EXCEPT ![m] = head]
    /\ prev' = [c \in Conns |-> IF c = m THEN Nil ELSE IF c = head THEN m ELSE prev[c]]
    /\ head' = m
    /\ tail' = IF tail = Nil THEN m ELSE tail

\* monitoring_destroy, and the memory is free.  When both ends are gone the
\* links of the neighbours are not looked at.
monitoring_destroy(m) ==
    LET h == IF head = m THEN next[m] ELSE head
        t == IF tail = m THEN prev[m] ELSE tail
    IN  IF ~Monitored(m) THEN UNCHANGED list
        ELSE /\ head' = h /\ tail' = t
             /\ IF tail = m /\ h = Nil
                THEN next' = [next EXCEPT ![m] = Nil] /\ prev' = [prev EXCEPT ![m] = Nil]
                ELSE /\ next' = [c \in Conns |-> IF c = m THEN Nil
                                                 ELSE IF c = prev[m] THEN next[m] ELSE next[c]]
                     /\ prev' = [c \in Conns |-> IF c = m THEN Nil
                                                 ELSE IF c = next[m] THEN prev[m] ELSE prev[c]]
             /\ due' = [due EXCEPT ![m] = 0]

\* http_cleanup and connection_remove.
Close(m) ==
    /\ monitoring_destroy(m)
    /\ conn' = [conn EXCEPT ![m] = NoConnection]
    /\ sock' = [sock EXCEPT ![m] = NoSocket]

-----------------------------------------------------------------------------
(* The timer.                                                               *)

\* timer_handler: the clock goes on, and the loop is woken when the head of the
\* list is due.  It interrupts the loop anywhere.
monitoing_needs_to_run(d) == head # Nil /\ d[head] = 0

Gone     == {m \in Conns : Exists(m) /\ sock[m].gone}
Readers  == {m \in Conns : Exists(m) /\ conn[m].epollin}
Writable == {m \in Conns : Exists(m) /\ ~conn[m].epollin /\ (sock[m].room \/ sock[m].gone)}

\* Every count that was due has been written and read.
CaughtUp ==
    /\ lpc = "wait" /\ ~evfd
    /\ \A m \in Monitors : m \notin Writable /\ (sock[m].reads => sock[m].room)

Tick ==
    LET d == [m \in Conns |-> IF due[m] = 0 THEN 0 ELSE due[m] - 1]
    IN  /\ CaughtUp \/ late < Slack
        /\ due'  = d
        /\ late' = IF CaughtUp THEN 0 ELSE late + 1
        /\ lag'  = IF lpc \in {"check", "unhooked"} THEN lag + 1 ELSE lag
        /\ evfd' = (evfd \/ monitoing_needs_to_run(d))
        /\ UNCHANGED <<conn, head, tail, next, prev, lpc, temp, ripe, events, sock, fault>>

-----------------------------------------------------------------------------
(* The event loop.                                                          *)

\* epoll_wait, when the connections of s have sent something; the eventfd of
\* the timer is handled first: it is read and monitoring_check begins.
Wait(s) ==
    /\ lpc = "wait"
    /\ inq' = s \cup (Readers \cap Gone) /\ outq' = Writable
    /\ evfd \/ inq' # {} \/ outq' # {}
    /\ IF evfd THEN lpc' = "check" /\ ripe' = {m \in Monitors : due[m] = 0}
               ELSE lpc' = "events" /\ UNCHANGED ripe
    /\ evfd' = FALSE
    /\ UNCHANGED <<conn, list, temp, lag, late, sock, fault>>

CheckEnd ==
    /\ lpc = "check" /\ (head = Nil \/ head \notin ripe)
    /\ lpc' = "events" /\ ripe' = {} /\ lag' = 0
    /\ UNCHANGED <<conn, list, evfd, temp, late, events, sock, fault>>

\* The head of the list is due: it is taken out.
Unhook ==
    /\ lpc = "check" /\ head # Nil /\ head \in ripe
    /\ lpc' = "unhooked" /\ temp' = head /\ ripe' = ripe \ {head}
    /\ head' = next[head]
    /\ prev' = [c \in Conns |-> IF c = next[head] THEN Nil ELSE prev[c]]
    /\ UNCHANGED <<conn, tail, next, due, evfd, lag, late, events, sock, fault>>

\* Its last count is still there: it is disconnected.  Unhook has cleared the
\* link of the next client to it, so that with one behind it the assertion
\* t->monitoring.prev == connection of monitoring_destroy fails (413).
Drop ==
    /\ lpc = "unhooked" /\ conn[temp].out # Nil
    /\ Close(temp)
    /\ lpc' = "check" /\ temp' = Nil
    /\ UNCHANGED <<evfd, ripe, lag, late, events, fault>>

\* Mutant: the only client of the list is linked to itself.
ToTail_self(m) ==
    /\ tail' = m /\ head' = IF head = Nil THEN m ELSE head
    /\ prev' = [prev EXCEPT ![m] = tail]
    /\ next' = [next EXCEPT ![m] = Nil, ![tail] = m]
    /\ due'  = [due EXCEPT ![m] = Interval - lag]

\* Mutant: the old tail is not linked to the new one.
ToTail_lost(m) ==
    /\ tail' = m /\ head' = IF tail = m THEN m ELSE head
    /\ prev' = [prev EXCEPT ![m] = IF tail = m THEN Nil ELSE tail]
    /\ next' = [next EXCEPT ![m] = Nil]
    /\ due'  = [due EXCEPT ![m] = Interval - lag]

\* Mutant: the next count is due at once.
ToTail_now(m) ==
    /\ tail' = m /\ head' = IF tail = m THEN m ELSE head
    /\ prev' = [prev EXCEPT ![m] = IF tail = m THEN Nil ELSE tail]
    /\ next' = [c \in Conns |-> IF c = m THEN Nil ELSE IF c = tail THEN m ELSE next[c]]
    /\ due'  = [due EXCEPT ![m] = 0]

\* Move to the end, one interval after current_time_copy.
ToTail(m) ==
    /\ tail' = m /\ head' = IF tail = m THEN m ELSE head
    /\ prev' = [prev EXCEPT ![m] = IF tail = m THEN Nil ELSE tail]
    /\ next' = [c \in Conns |-> IF c = m THEN Nil ELSE IF c = tail THEN m ELSE next[c]]
    /\ due'  = [due EXCEPT ![m] = Interval - lag]

\* It goes to the tail, with the next count to write.
Requeue ==
    /\ lpc = "unhooked" /\ conn[temp].out = Nil
    /\ ToTail(temp)
    /\ conn' = [conn EXCEPT ![temp].out = "count", ![temp].epollin = FALSE]
    /\ lpc' = "check" /\ temp' = Nil
    /\ UNCHANGED <<evfd, ripe, lag, late, events, sock, fault>>

\* Mutant: the buffer may take one read more than it holds.
Full_late(c) == c.handler = "discard_input" /\ c.input > InputSize

\* Input that is never taken out has filled the buffer.
Full(c) == c.handler = "discard_input" /\ c.input = InputSize

\* http_read_handle.  A request is incomplete, is for /conn, is one that is
\* answered at once, or does not fit into the buffer.  A connection that
\* monitoring_check has just registered for writing returns an uninitialised
\* value, which may say close.
EventRead(m) ==
    LET c == conn[m]
    IN  /\ lpc = "events" /\ m \in inq /\ Exists(m)
        /\ inq' = inq \ {m}
        /\ \/ /\ sock[m].gone \/ ~c.epollin \/ Full(c) \/ c.handler = "request"
              /\ Close(m)
           \/ /\ ~sock[m].gone
              /\ UNCHANGED sock
              /\ \/ /\ c.handler = "request" /\ UNCHANGED conn
                 \/ /\ c.handler = "request"
                    /\ \E r \in {[handler |-> "start_to_count", out |-> "stream"],
                                 [handler |-> "writeonly", out |-> "reply"]} :
                          conn' = [conn EXCEPT ![m].handler = r.handler, ![m].out = r.out,
                                               ![m].epollin = FALSE]
                 \/ /\ Full(c) /\ ~c.epollin /\ UNCHANGED conn
                 \/ /\ c.handler = "discard_input" /\ ~Full(c)
                    /\ conn' = [conn EXCEPT ![m].input = @ + 1]
              /\ UNCHANGED list
        /\ UNCHANGED <<evfd, lpc, check, late, outq, fault>>

\* What the handler of m does when its output has been written.
Written(c) ==
    CASE c.handler = "start_to_count"    -> [c EXCEPT !.handler = "cleanupafterwrite", !.writing = TRUE]
      [] c.handler = "cleanupafterwrite" -> [c EXCEPT !.handler = "discard_input", !.epollin = TRUE]
      [] c.handler = "discard_input"     -> [c EXCEPT !.epollin = TRUE]
      [] c.handler = "writeonly"         -> [c EXCEPT !.handler = "request", !.epollin = TRUE]

\* http_write_handle.  A write fills the socket until the client reads.
EventWrite(m) ==
    /\ lpc = "events" /\ m \in outq /\ Exists(m)
    /\ outq' = outq \ {m}
    /\ IF sock[m].gone THEN Close(m)
       ELSE /\ conn' = [conn EXCEPT ![m] = Written([conn[m] EXCEPT !.out = Nil])]
            /\ sock' = IF conn[m].out = Nil THEN sock
                       ELSE [sock EXCEPT ![m].room = FALSE]
            /\ IF conn[m].handler = "start_to_count" THEN monitoring_add(m) ELSE UNCHANGED list
    /\ UNCHANGED <<evfd, lpc, check, late, inq, fault>>

\* An event of the batch for a connection that monitoring_check has freed.
Stale(m) ==
    /\ lpc = "events" /\ m \in inq \cup outq /\ ~Exists(m)
    /\ fault' = TRUE
    /\ UNCHANGED <<conn, list, evfd, lpc, check, late, events, sock>>

EventsEnd ==
    /\ lpc = "events" /\ inq = {} /\ outq = {}
    /\ lpc' = "wait"
    /\ UNCHANGED <<conn, list, evfd, check, late, events, sock, fault>>

-----------------------------------------------------------------------------
(* The clients.                                                             *)

\* connection_add and http_connection_handler; the client reads what it is
\* sent, or never does.
Connect(m) ==
    /\ lpc = "wait" /\ ~Exists(m)
    /\ conn' = [conn EXCEPT ![m].handler = "request"]
    /\ \E r \in BOOLEAN : sock' = [sock EXCEPT ![m].reads = r]
    /\ UNCHANGED <<list, evfd, lpc, check, late, events, fault>>

Drain(m) ==
    /\ Exists(m) /\ sock[m].reads /\ ~sock[m].room /\ ~sock[m].gone
    /\ sock' = [sock EXCEPT ![m].room = TRUE]
    /\ UNCHANGED <<conn, list, evfd, lpc, check, late, events, fault>>

Hangup(m) ==
    /\ Exists(m) /\ ~sock[m].gone
    /\ sock' = [sock EXCEPT ![m].gone = TRUE]
    /\ UNCHANGED <<conn, list, evfd, lpc, check, late, events, fault>>

-----------------------------------------------------------------------------
Running ==
    \/ CheckEnd \/ Unhook \/ Drop \/ Requeue \/ EventsEnd
    \/ \E m \in Conns : EventRead(m) \/ EventWrite(m) \/ Stale(m)

\* After a use of freed memory anything may happen: the behaviour ends there.
Lost == fault /\ UNCHANGED vars

Next ==
    \/ ~fault /\ Running
    \/ ~fault /\ \E s \in SUBSET (Readers \ Gone) : Wait(s)
    \/ ~fault /\ Tick
    \/ ~fault /\ \E m \in Conns : Connect(m) \/ Drain(m) \/ Hangup(m)
    \/ Lost

Spec ==
    /\ Init /\ [][Next]_vars
    /\ WF_vars(~fault /\ (Running \/ Wait({}))) /\ SF_vars(~fault /\ Tick)
    /\ \A m \in Conns : WF_vars(~fault /\ Drain(m))

-----------------------------------------------------------------------------
(* Properties.                                                              *)

Connection ==
    [handler : {"none", "request", "writeonly", "start_to_count", "cleanupafterwrite",
                "discard_input"},
     out : Output, epollin : BOOLEAN, writing : BOOLEAN, input : 0..InputSize]
Socket == [reads : BOOLEAN, room : BOOLEAN, gone : BOOLEAN]

\* The type of every variable.
TypeOK ==
    /\ conn \in [Conns -> Connection]
    /\ sock \in [Conns -> Socket]
    /\ {head, tail, temp} \subseteq Conns \cup {Nil}
    /\ next \in [Conns -> Conns \cup {Nil}] /\ prev \in [Conns -> Conns \cup {Nil}]
    /\ due \in [Conns -> 0..Interval]
    /\ lpc \in {"wait", "check", "unhooked", "events"}
    /\ evfd \in BOOLEAN /\ fault \in BOOLEAN /\ ripe \subseteq Conns
    /\ lag \in 0..Slack /\ late \in 0..Slack
    /\ inq \subseteq Conns /\ outq \subseteq Conns

InList == Monitors \ {temp}

\* The list of n connections is s: its two ends and the links in both
\* directions say the same.  monitoring_check may have one more connection,
\* temp, in its hand, which the end of an empty list still names.  The client
\* behind temp is the head already and has no link back to it.
Linked(s, n) ==
    /\ \A i, j \in 1..n : s[i] = s[j] => i = j
    /\ \A c \in InList : \E i \in 1..n : s[i] = c
    /\ head = IF n = 0 THEN Nil  ELSE s[1]
    /\ tail = IF n = 0 THEN temp ELSE s[n]
    /\ \A i \in 1..n : /\ next[s[i]] = IF i = n THEN Nil ELSE s[i + 1]
                       /\ prev[s[i]] = IF i = 1 THEN Nil ELSE s[i - 1]
    /\ temp # Nil => prev[temp] = Nil /\ next[temp] = head

\* The list holds exactly the connections that are counted to, each once: no
\* connection is forgotten and none that was freed is kept.  The timer's signal
\* handler follows mon_head at any of these points.  The link to temp is cleared,
\* as the code has it (477), although monitoring_destroy asserts it (413).
ListExact ==
    LET n == Cardinality(InList) IN \E s \in [1..n -> InList] : Linked(s, n)

\* The list is ordered by the time of the next count: what lets the timer and
\* monitoring_check look at its head only, and what the assertion under
\* DEBUG_MONITORING says.
Sorted == \A c \in InList : next[c] # Nil => due[c] <= due[next[c]]

\* Only a client that does not read is disconnected for its unsent output.
OnlyStuckDropped == lpc = "unhooked" /\ conn[temp].out # Nil => ~sock[temp].reads

\* A client that reads is sent one count after the other until it is
\* disconnected, whatever the other clients do.
Sent(m) == conn[m].out # Nil /\ conn'[m].out = Nil /\ conn'[m].writing
Counted ==
    \A m \in Conns : \/ []<><<Sent(m)>>_vars
                     \/ []<>(~Monitored(m) \/ ~sock[m].reads \/ fault)

\* A client that never reads does not stay connected.
Dropped == \A m \in Conns : (Monitored(m) /\ ~sock[m].reads) ~> (~Monitored(m) \/ fault)
=============================================================================
