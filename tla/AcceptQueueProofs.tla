------------------------- MODULE AcceptQueueProofs -------------------------
(***************************************************************************)
(* The hand-over of accepted sockets in connection.cpp, for every set of   *)
(* clients: the linked list is a queue whenever the mutex is free, the loop *)
(* never sleeps on sockets nobody will wake it for, and every open socket  *)
(* has one owner.                                                          *)
(***************************************************************************)
EXTENDS AcceptQueue, SequenceTheorems, FiniteSetTheorems, TLAPS

\* Where an accept thread carries a node, and where it holds the mutex.
Carrying == {"lock", "link", "head", "tail"}
Holding  == {"link", "head", "tail"}
Points   == {"start", "wait", "lock", "link", "head", "tail", "signal", "exit"}

\* A thread carries a node, and the loop has taken one, when they need it.
Full ==
    /\ \A t \in Threads : pc[t] \in Carrying => hand[t] \in Clients
    /\ lpc \in {"unlock", "add"} => temp \in Clients

\* The mutex belongs to whoever is between lock and unlock.
Mutex ==
    Running =>
      /\ \A t \in Threads : pc[t] \in Holding <=> lock = t
      /\ lpc \in {"pop", "unlock"} <=> lock = Loop

\* No client is in two places of those a node passes before the loop.
Apart ==
    /\ \A i, j \in 1 .. Len(fifo) : fifo[i] = fifo[j] => i = j
    /\ \A t \in Threads, i \in 1 .. Len(fifo) : hand[t] # fifo[i]
    /\ \A t, u \in Threads : hand[t] \in Clients /\ hand[t] = hand[u] => t = u
    /\ \A t \in Threads : \A i \in 1 .. Len(backlog[t]) :
         /\ Port(backlog[t][i]) = t
         /\ \A u \in Threads : hand[u] # backlog[t][i]
         /\ \A j \in 1 .. Len(fifo) : fifo[j] # backlog[t][i]
    /\ \A t \in Threads : \A i, j \in 1 .. Len(backlog[t]) :
         backlog[t][i] = backlog[t][j] => i = j

\* The links between the nodes in the queue, and the node in hand.
Chain ==
    /\ \A i \in 1 .. Len(fifo) - 1 : next[fifo[i]] = fifo[i + 1]
    /\ head = IF fifo = <<>> THEN Nil ELSE fifo[1]
    /\ \A t \in Threads : pc[t] \in Carrying => next[hand[t]] = Nil

\* The end of the queue is as it should be.
Settled ==
    IF fifo = <<>> THEN tail = Nil ELSE tail = fifo[Len(fifo)] /\ next[tail] = Nil

\* The end of the queue, and what the two critical sections leave of it
\* between their two assignments.
Ends ==
    /\ (\A t \in Threads : pc[t] \notin {"head", "tail"}) /\ lpc # "unlock" => Settled
    /\ lpc = "unlock" /\ fifo # <<>> => Settled
    /\ \A t \in Threads :
         /\ pc[t] = "head" => fifo = <<>> /\ tail = hand[t]
         /\ pc[t] = "tail" => /\ fifo # <<>> /\ tail = fifo[Len(fifo)]
                              /\ next[tail] = hand[t]

\* Nodes that nobody will announce are nodes the loop is about to find,
\* unless the loop is on its way out.
Wake ==
    Running /\ fifo # <<>> =>
      \/ event
      \/ \E t \in Threads : pc[t] = "signal"
      \/ lpc \in {"read", "lock", "pop", "unlock", "add"}
      \/ stop /\ lpc # "epoll"

\* The inductive invariant.
Inv == TypeOK /\ Full /\ Mutex /\ (Running => Apart /\ Chain /\ Ends) /\ Wake

\* The names of threads, of null and of the loop are different.
LEMMA Names == /\ Loop \notin Threads /\ Nil \notin Threads /\ Loop # Nil
               /\ Nil \notin Clients
  BY ClientAssumption DEF Loop, Threads, Nil, Evfds

\* The state in which the process starts satisfies the invariant.
LEMMA InitInv == Init => Inv
  <1> SUFFICES ASSUME Init PROVE Inv
    OBVIOUS
  <1> USE Names DEF Init
  <1>1. TypeOK
    <2>1. stop \in BOOLEAN /\ event \in BOOLEAN
      BY Zenon
    <2>2. backlog \in [Threads -> Seq(Clients)] /\ fifo \in Seq(Clients)
      OBVIOUS
    <2> QED BY <2>1, <2>2 DEF TypeOK, Maybe
  <1>2. Full /\ Mutex /\ Wake
    BY DEF Full, Mutex, Wake, Carrying, Holding
  <1>3. Apart /\ Chain /\ Ends
    BY DEF Apart, Chain, Ends, Settled, Carrying
  <1> QED BY <1>1, <1>2, <1>3 DEF Inv

-----------------------------------------------------------------------------
\* The steps that touch neither the queue nor the threads, by what they
\* leave alone.
Quiet ==
    /\ UNCHANGED <<backlog, pc, hand, queue>>
    /\ {lpc, lpc'} \cap {"pop", "unlock"} = {}
    /\ Running

\* Every step is one of an accept thread, of the loop inside its critical
\* section, or quiet.
LEMMA StepCases ==
    ASSUME [Next]_vars
    PROVE  \/ \E c \in Clients : Arrive(c)
           \/ \E t \in Threads : ThreadStep(t)
           \/ LoopLock \/ Empty \/ Pop \/ LoopUnlock
           \/ Quiet
           \/ abort_handler \/ UNCHANGED vars
           \/ connection_cleanup
           \/ abort_again \/ \E c \in Clients : Freed(c)
  <1> USE DEF Quiet, Running, queue, kernel
  <1>1. Start \/ AcceptEvent \/ Read \/ Add \/ Reclose \/ MonitorDone \/ EvfdsDone
          \/ EndRound \/ Join => Quiet
    BY DEF Start, AcceptEvent, Read, Add, Reclose, MonitorDone, EvfdsDone, EndRound, Join,
           LoopRound
  <1>2. \A S \in SUBSET Clients, timer \in BOOLEAN : Poll(S, timer) => Quiet
    BY DEF Poll
  <1>3. \A c \in Clients : MonitorClose(c) \/ Keep(c) \/ Close(c) => Quiet
    BY DEF MonitorClose, Keep, Close
  <1> QED BY <1>1, <1>2, <1>3 DEF Next, LoopStep, Ended

\* A step that ends the process leaves nothing to show but types.
LEMMA DeadInv ==
    ASSUME TypeOK', Full', ~ Running'
    PROVE  Inv'
  BY DEF Inv, Mutex, Wake

\* The type invariant is kept by the steps of an accept thread.
LEMMA ThreadType ==
    ASSUME Inv, NEW t \in Threads, ThreadStep(t)
    PROVE  TypeOK' /\ Full'
  <1> USE Names DEF Inv, TypeOK, Full, Maybe, Carrying, kernel, queue, loop
  <1>1. CASE Ready(t)
    BY <1>1 DEF Ready, NextRound
  <1>2. CASE Leave(t)
    BY <1>2 DEF Leave
  <1>3. CASE Accept(t)
    <2> DEFINE c == Head(backlog[t])
    <2>1. c \in Clients /\ Tail(backlog[t]) \in Seq(Clients)
      BY <1>3 DEF Accept
    <2> HIDE DEF c
    <2>2. /\ backlog' = [backlog EXCEPT ![t] = Tail(@)]
          /\ open' = open \cup {c} /\ reused' \in {reused, c}
          /\ hand' = [hand EXCEPT ![t] = c] /\ next' = [next EXCEPT ![c] = Nil]
          /\ pc' = [pc EXCEPT ![t] = "lock"]
          /\ UNCHANGED <<stop, event, lock, head, tail, fifo, loop>>
      BY <1>3 DEF Accept, c
    <2> QED BY <2>1, <2>2
  <1>4. CASE Drop(t)
    BY <1>4 DEF Drop, NextRound
  <1>5. CASE TooManyFiles(t)
    BY <1>5 DEF TooManyFiles, Die
  <1>6. CASE Lock(t)
    BY <1>6 DEF Lock
  <1>7. CASE Link(t)
    <2>1. hand[t] \in Clients
      BY <1>7 DEF Link
    <2>2. CASE tail = Nil
      BY <1>7, <2>1, <2>2 DEF Link
    <2>3. CASE tail # Nil
      BY <1>7, <2>1, <2>3 DEF Link
    <2> QED BY <2>2, <2>3
  <1>8. CASE Unlock(t)
    BY <1>8 DEF Unlock
  <1>9. CASE Signal(t)
    BY <1>9 DEF Signal, NextRound
  <1> QED BY <1>1, <1>2, <1>3, <1>4, <1>5, <1>6, <1>7, <1>8, <1>9 DEF ThreadStep

\* The type invariant is kept by the other steps.
LEMMA LoopType ==
    ASSUME Inv, \/ LoopStep \/ abort_handler \/ abort_again \/ UNCHANGED vars
                \/ \E c \in Clients : Arrive(c)
    PROVE  TypeOK' /\ Full'
  <1> USE Names DEF Inv, TypeOK, Full, Maybe, Carrying, kernel, queue, loop
  <1>1. CASE Start \/ EvfdsDone \/ EndRound \/ Join
    BY <1>1 DEF Start, EvfdsDone, EndRound, Join, LoopRound
  <1>2. ASSUME NEW S \in SUBSET Clients, NEW timer \in BOOLEAN, Poll(S, timer)
        PROVE  TypeOK' /\ Full'
    BY <1>2 DEF Poll
  <1>3. CASE AcceptEvent \/ MonitorDone
    BY <1>3 DEF AcceptEvent, MonitorDone
  <1>4. CASE Read
    BY <1>4 DEF Read
  <1>5. CASE LoopLock \/ Empty \/ LoopUnlock
    BY <1>5 DEF LoopLock, Empty, LoopUnlock
  <1>6. CASE Pop
    <2>1. fifo # <<>>
      BY <1>6 DEF Pop, Chain, Running
    <2>2. Tail(fifo) \in Seq(Clients) /\ head \in Clients
      BY <1>6, <2>1 DEF Pop
    <2> QED BY <1>6, <2>2 DEF Pop
  <1>7. CASE Add
    BY <1>7 DEF Add
  <1>8. CASE Reclose
    BY <1>8 DEF Reclose
  <1>9. ASSUME NEW c \in Clients, MonitorClose(c) \/ Keep(c) \/ Close(c) \/ Freed(c)
        PROVE  TypeOK' /\ Full'
    BY <1>9 DEF MonitorClose, Keep, Close, Freed, Die
  <1>10. CASE connection_cleanup
    <2>1. [t \in Threads |-> <<>>] \in [Threads -> Seq(Clients)] /\ <<>> \in Seq(Clients)
      OBVIOUS
    <2> QED BY <1>10, <2>1 DEF connection_cleanup
  <1>11. CASE abort_handler \/ abort_again
    BY <1>11 DEF abort_handler, abort_again, Die
  <1>12. CASE UNCHANGED vars
    BY <1>12 DEF vars
  <1>13. ASSUME NEW c \in Clients, Arrive(c)
         PROVE  TypeOK' /\ Full'
    <2>1. Port(c) \in Threads
      BY DEF Port, Threads
    <2>2. /\ backlog' = [backlog EXCEPT ![Port(c)] = Append(@, c)]
          /\ UNCHANGED <<stop, open, event, reused, pc, hand, queue, loop>>
      BY <1>13 DEF Arrive
    <2>3. backlog' \in [Threads -> Seq(Clients)]
      BY <2>1, <2>2
    <2> QED BY <2>2, <2>3
  <1> HIDE DEF Inv, TypeOK, Full
  <1>14. CASE LoopStep
    BY <1>14, <1>1, <1>2, <1>3, <1>4, <1>5, <1>6, <1>7, <1>8, <1>9, <1>10 DEF LoopStep
  <1> QED BY <1>11, <1>12, <1>13, <1>14

\* A quiet step changes nothing that the queue's part of Inv speaks of.
LEMMA QuietInv ==
    ASSUME Inv, Quiet, TypeOK', Full'
    PROVE  Mutex' /\ (Apart /\ Chain /\ Ends)'
  <1> USE DEF Inv, Quiet, queue
  <1>1. Mutex'
    BY DEF Mutex
  <1>2. Apart'
    BY DEF Apart, Port
  <1>3. Chain' /\ Ends'
    BY DEF Chain, Ends, Settled
  <1> QED BY <1>1, <1>2, <1>3

\* A client joins the backlog only when it is nowhere else.
LEMMA ArriveInv ==
    ASSUME Inv, NEW c \in Clients, Arrive(c), TypeOK', Full'
    PROVE  Mutex' /\ (Apart /\ Chain /\ Ends)'
  <1> USE DEF Inv, Arrive, queue, loop
  <1>1. Mutex'
    BY DEF Mutex, Running
  <1>2. Chain' /\ Ends'
    BY DEF Chain, Ends, Settled
  <1> DEFINE p == Port(c)
  <1>3. p \in Threads
    BY DEF Port, Threads
  <1>4. /\ \A i \in 1 .. Len(backlog[p]) : backlog[p][i] # c
        /\ \A t \in Threads : hand[t] # c
        /\ \A i \in 1 .. Len(fifo) : fifo[i] # c
    <2>1. fifo \in Seq(Clients) /\ backlog[p] \in Seq(Clients)
      BY <1>3 DEF TypeOK
    <2> QED BY <2>1 DEF Waiting, InHand, Queued
  <1>5. /\ backlog' = [backlog EXCEPT ![p] = Append(backlog[p], c)]
        /\ UNCHANGED <<fifo, hand>> /\ backlog \in [Threads -> Seq(Clients)] /\ Apart
    BY DEF TypeOK
  <1>6. \A t \in Threads : \A i \in 1 .. Len(backlog'[t]) :
           \/ i \in 1 .. Len(backlog[t]) /\ backlog'[t][i] = backlog[t][i]
           \/ t = p /\ i = Len(backlog[t]) + 1 /\ backlog'[t][i] = c
    BY <1>3, <1>5
  <1>7. Port(c) = p
    OBVIOUS
  <1> HIDE DEF p, Inv, Arrive
  <1>8. \A t \in Threads : Len(backlog[t]) \in Nat
    BY <1>5
  <1>9. Apart'
    <2>1. \A t \in Threads : \A i \in 1 .. Len(backlog'[t]) :
             /\ Port(backlog'[t][i]) = t
             /\ \A u \in Threads : hand[u] # backlog'[t][i]
             /\ \A j \in 1 .. Len(fifo) : fifo[j] # backlog'[t][i]
      BY <1>4, <1>5, <1>6, <1>7 DEF Apart
    <2>2. \A t \in Threads : \A i, j \in 1 .. Len(backlog'[t]) :
             backlog'[t][i] = backlog'[t][j] => i = j
      BY <1>4, <1>5, <1>6, <1>8 DEF Apart
    <2> QED BY <1>5, <2>1, <2>2 DEF Apart, Port
  <1> QED BY <1>1, <1>2, <1>9

-----------------------------------------------------------------------------
\* Steps of a thread outside the critical section that carry no node.
LEMMA RoundInv ==
    ASSUME Inv, Running, NEW t \in Threads, Ready(t) \/ Leave(t) \/ Signal(t), TypeOK', Full'
    PROVE  Mutex' /\ (Apart /\ Chain /\ Ends)'
  <1>1. /\ UNCHANGED <<backlog, hand, queue, lpc>>
        /\ pc[t] \notin Carrying
        /\ pc' = [pc EXCEPT ![t] = pc'[t]] /\ pc'[t] \in {"wait", "exit"}
    BY DEF Ready, Leave, Signal, NextRound, kernel, queue, loop, Inv, TypeOK, Carrying
  <1>2. Mutex /\ Apart /\ Chain /\ Ends /\ pc \in [Threads -> Points]
    BY DEF Inv, TypeOK, Points
  <1>3. Mutex'
    BY <1>1, <1>2, Names DEF Mutex, Running, Holding, Carrying, queue
  <1>4. Apart'
    BY <1>1, <1>2 DEF Apart, Port, queue
  <1>5. Chain' /\ Ends'
    BY <1>1, <1>2 DEF Chain, Ends, Settled, Carrying, queue
  <1> QED BY <1>3, <1>4, <1>5

\* What is left of a backlog after its head.
LEMMA TailFacts ==
    ASSUME NEW s \in Seq(Clients), s # <<>>
    PROVE  /\ Len(Tail(s)) = Len(s) - 1 /\ Len(s) \in Nat \ {0} /\ Head(s) = s[1]
           /\ \A i \in 1 .. Len(Tail(s)) : Tail(s)[i] = s[i + 1] /\ i + 1 \in 1 .. Len(s)
  OBVIOUS

\* An accepted socket that is refused only shortens the backlog.
LEMMA DropInv ==
    ASSUME Inv, Running, NEW t \in Threads, Drop(t), TypeOK', Full'
    PROVE  Mutex' /\ (Apart /\ Chain /\ Ends)'
  <1>1. /\ UNCHANGED <<hand, queue, lpc>>
        /\ pc[t] = "wait" /\ pc' = [pc EXCEPT ![t] = pc'[t]] /\ pc'[t] \in {"wait", "exit"}
        /\ backlog[t] # <<>> /\ backlog' = [backlog EXCEPT ![t] = Tail(backlog[t])]
    BY DEF Drop, NextRound, queue, loop, Inv, TypeOK
  <1>2. /\ Mutex /\ Apart /\ Chain /\ Ends /\ pc \in [Threads -> Points]
        /\ backlog \in [Threads -> Seq(Clients)]
    BY DEF Inv, TypeOK, Points
  <1>3. Mutex'
    BY <1>1, <1>2, Names DEF Mutex, Running, Holding, queue
  <1>4. Apart'
    <2>1. \A u \in Threads : Len(backlog[u]) \in Nat
      BY <1>2
    <2>2. \A u \in Threads : \A i \in 1 .. Len(backlog'[u]) :
             LET k == IF u = t THEN i + 1 ELSE i
             IN  k \in 1 .. Len(backlog[u]) /\ backlog'[u][i] = backlog[u][k]
      BY <1>1, <1>2, TailFacts
    <2>3. \A u \in Threads : Len(backlog'[u]) \in Nat
      BY DEF TypeOK
    <2> QED BY <1>1, <1>2, <2>1, <2>2, <2>3 DEF Apart, Port, queue
  <1>5. Chain' /\ Ends'
    BY <1>1, <1>2 DEF Chain, Ends, Settled, Carrying, queue
  <1> QED BY <1>3, <1>4, <1>5

\* The client that is accepted leaves the backlog for the hand of the thread.
LEMMA AcceptInv ==
    ASSUME Inv, Running, NEW t \in Threads, Accept(t), TypeOK', Full'
    PROVE  Mutex' /\ (Apart /\ Chain /\ Ends)'
  <1> DEFINE c == Head(backlog[t])
  <1>1. /\ UNCHANGED <<lock, head, tail, fifo, lpc>>
        /\ pc[t] = "wait" /\ pc' = [pc EXCEPT ![t] = "lock"]
        /\ backlog[t] # <<>> /\ backlog' = [backlog EXCEPT ![t] = Tail(backlog[t])]
        /\ hand' = [hand EXCEPT ![t] = c] /\ next' = [next EXCEPT ![c] = Nil]
    BY DEF Accept, loop
  <1>2. /\ Mutex /\ Apart /\ Chain /\ Ends /\ pc \in [Threads -> Points]
        /\ backlog \in [Threads -> Seq(Clients)] /\ fifo \in Seq(Clients)
        /\ hand \in [Threads -> Clients \cup {Nil}] /\ next \in [Clients -> Clients \cup {Nil}]
    BY DEF Inv, TypeOK, Maybe, Points
  <1>3. c = backlog[t][1] /\ 1 \in 1 .. Len(backlog[t]) /\ c \in Clients
    BY <1>1, <1>2, TailFacts
  <1>4. /\ Port(c) = t /\ \A u \in Threads : hand[u] # c
        /\ \A j \in 1 .. Len(fifo) : fifo[j] # c
    BY <1>2, <1>3 DEF Apart
  <1> HIDE DEF c
  <1>5. Mutex'
    BY <1>1, <1>2, Names DEF Mutex, Running, Holding
  <1>6. Apart'
    <2>1. \A u \in Threads : Len(backlog[u]) \in Nat /\ Len(backlog'[u]) \in Nat
      BY <1>2 DEF TypeOK
    <2>2. \A u \in Threads : \A i \in 1 .. Len(backlog'[u]) :
             LET k == IF u = t THEN i + 1 ELSE i
             IN  k \in 1 .. Len(backlog[u]) /\ backlog'[u][i] = backlog[u][k]
      BY <1>1, <1>2, TailFacts
    <2>3. \A u \in Threads : \A i \in 1 .. Len(backlog'[u]) : backlog'[u][i] # c
      <3> SUFFICES ASSUME NEW u \in Threads, NEW i \in 1 .. Len(backlog'[u])
                   PROVE  backlog'[u][i] # c
        OBVIOUS
      <3>1. CASE u = t
        <4>1. i + 1 \in 1 .. Len(backlog[t]) /\ backlog'[t][i] = backlog[t][i + 1] /\ i + 1 # 1
          BY <2>1, <2>2, <3>1
        <4> QED BY <4>1, <1>2, <1>3, <3>1 DEF Apart
      <3>2. CASE u # t
        <4>1. i \in 1 .. Len(backlog[u]) /\ backlog'[u][i] = backlog[u][i]
          BY <2>2, <3>2
        <4>2. Port(backlog[u][i]) = u
          BY <4>1, <1>2 DEF Apart
        <4> QED BY <4>1, <4>2, <1>4, <3>2
      <3> QED BY <3>1, <3>2
    <2>4. \A u \in Threads : hand'[u] = IF u = t THEN c ELSE hand[u]
      BY <1>1, <1>2
    <2>5. /\ \A i, j \in 1 .. Len(fifo) : fifo[i] = fifo[j] => i = j
          /\ \A u \in Threads, i \in 1 .. Len(fifo) : hand'[u] # fifo[i]
      BY <1>2, <1>4, <2>4 DEF Apart
    <2>6. \A v, u \in Threads : hand'[v] \in Clients /\ hand'[v] = hand'[u] => v = u
      BY <1>2, <1>4, <2>4 DEF Apart
    <2>7. \A v \in Threads : \A i \in 1 .. Len(backlog'[v]) :
             /\ Port(backlog'[v][i]) = v
             /\ \A u \in Threads : hand'[u] # backlog'[v][i]
             /\ \A j \in 1 .. Len(fifo) : fifo[j] # backlog'[v][i]
      <3> SUFFICES ASSUME NEW v \in Threads, NEW i \in 1 .. Len(backlog'[v])
                   PROVE  /\ Port(backlog'[v][i]) = v
                          /\ \A u \in Threads : hand'[u] # backlog'[v][i]
                          /\ \A j \in 1 .. Len(fifo) : fifo[j] # backlog'[v][i]
        OBVIOUS
      <3>1. PICK k \in 1 .. Len(backlog[v]) : backlog'[v][i] = backlog[v][k]
        BY <2>2
      <3>2. /\ Port(backlog[v][k]) = v
            /\ \A u \in Threads : hand[u] # backlog[v][k]
            /\ \A j \in 1 .. Len(fifo) : fifo[j] # backlog[v][k]
        BY <1>2 DEF Apart
      <3> QED BY <2>3, <2>4, <3>1, <3>2
    <2>8. \A v \in Threads : \A i, j \in 1 .. Len(backlog'[v]) :
             backlog'[v][i] = backlog'[v][j] => i = j
      <3> SUFFICES ASSUME NEW v \in Threads, NEW i \in 1 .. Len(backlog'[v]),
                          NEW j \in 1 .. Len(backlog'[v]), backlog'[v][i] = backlog'[v][j]
                   PROVE  i = j
        OBVIOUS
      <3>1. CASE v = t
        <4>1. /\ i + 1 \in 1 .. Len(backlog[v]) /\ backlog'[v][i] = backlog[v][i + 1]
              /\ j + 1 \in 1 .. Len(backlog[v]) /\ backlog'[v][j] = backlog[v][j + 1]
          BY <2>2, <3>1
        <4>2. i + 1 = j + 1
          BY <4>1, <1>2 DEF Apart
        <4> QED BY <2>1, <4>2
      <3>2. CASE v # t
        BY <1>2, <2>2, <3>2 DEF Apart
      <3> QED BY <3>1, <3>2
    <2>9. fifo' = fifo
      BY <1>1
    <2> QED BY ONLY <2>5, <2>6, <2>7, <2>8, <2>9 DEF Apart, Port
  <1>7. Chain'
    <2>1. \A i \in 1 .. Len(fifo) : next'[fifo[i]] = next[fifo[i]]
      BY <1>1, <1>2, <1>4
    <2>2. Len(fifo) \in Nat
      BY <1>2
    <2>3. \A u \in Threads : pc'[u] \in Carrying => next'[hand'[u]] = Nil
      BY <1>1, <1>2, <1>3, <1>4 DEF Chain, Carrying, Inv, Full
    <2> QED BY <1>1, <1>2, <2>1, <2>2, <2>3 DEF Chain
  <1>8. Ends'
    <2>1. fifo # <<>> => Len(fifo) \in 1 .. Len(fifo)
      BY <1>2
    <2>2. fifo # <<>> => next'[fifo[Len(fifo)]] = next[fifo[Len(fifo)]]
      BY <1>1, <1>2, <1>4, <2>1
    <2>3. \A u \in Threads : u # t => pc'[u] = pc[u] /\ hand'[u] = hand[u]
      BY <1>1, <1>2
    <2>4. pc'[t] = "lock"
      BY <1>1, <1>2
    <2> QED BY <1>1, <1>2, <2>2, <2>3, <2>4 DEF Ends, Settled
  <1> QED BY <1>5, <1>6, <1>7, <1>8

-----------------------------------------------------------------------------
\* Taking the mutex, by a thread or by the loop, changes nothing it guards.
LEMMA LockInv ==
    ASSUME Inv, Running, TypeOK', Full',
           \/ \E t \in Threads : Lock(t)
           \/ LoopLock
    PROVE  Mutex' /\ (Apart /\ Chain /\ Ends)'
  <1>1. /\ UNCHANGED <<backlog, hand, head, tail, next, fifo>> /\ lock = Nil
        /\ \A t \in Threads : pc[t] \notin Holding
        /\ \A t \in Threads : pc'[t] \notin {"head", "tail"}
        /\ \A t \in Threads : pc'[t] \in Carrying => pc[t] \in Carrying
        /\ lpc # "unlock" /\ lpc' # "unlock"
    BY Names DEF Lock, LoopLock, kernel, loop, Inv, Mutex, TypeOK, Holding, Carrying
  <1>2. Mutex'
    <2>1. CASE \E t \in Threads : Lock(t)
      BY <2>1, Names DEF Lock, Inv, Mutex, TypeOK, Holding, Running, loop
    <2>2. CASE LoopLock
      BY <2>2, Names DEF LoopLock, Inv, Mutex, Holding, Running
    <2> QED BY <2>1, <2>2
  <1>3. Apart /\ Chain /\ Ends
    BY DEF Inv
  <1>4. Apart'
    BY <1>1, <1>3 DEF Apart, Port
  <1>5. Chain' /\ Ends'
    BY <1>1, <1>3 DEF Chain, Ends, Settled, Holding
  <1> QED BY <1>2, <1>4, <1>5

\* Facts about a thread in its critical section: it is alone, and the node
\* it carries is not in the queue.
LEMMA Alone ==
    ASSUME Inv, Running, NEW t \in Threads, pc[t] \in Holding
    PROVE  /\ lock = t /\ lpc \notin {"pop", "unlock"}
           /\ \A u \in Threads : u # t => pc[u] \notin Holding
           /\ hand[t] \in Clients /\ next[hand[t]] = Nil
           /\ \A i \in 1 .. Len(fifo) : fifo[i] # hand[t] /\ fifo[i] \in Clients
           /\ \A u \in Threads : u # t => hand[u] # hand[t]
           /\ Len(fifo) \in Nat /\ (fifo # <<>> => Len(fifo) \in 1 .. Len(fifo))
           /\ pc \in [Threads -> Points] /\ next \in [Clients -> Clients \cup {Nil}]
           /\ hand \in [Threads -> Clients \cup {Nil}]
           /\ fifo \in Seq(Clients)
           /\ Mutex /\ Apart /\ Chain /\ Ends
  <1>1. Mutex /\ Apart /\ Chain /\ Ends /\ Full
    BY DEF Inv
  <1>2. /\ pc \in [Threads -> Points] /\ next \in [Clients -> Clients \cup {Nil}]
        /\ hand \in [Threads -> Clients \cup {Nil}] /\ fifo \in Seq(Clients)
    BY DEF Inv, TypeOK, Maybe, Points
  <1>3. Len(fifo) \in Nat /\ (fifo # <<>> => Len(fifo) \in 1 .. Len(fifo))
        /\ \A i \in 1 .. Len(fifo) : fifo[i] \in Clients
    BY <1>2
  <1>4. /\ lock = t /\ lpc \notin {"pop", "unlock"}
        /\ \A u \in Threads : u # t => pc[u] \notin Holding
    BY <1>1, Names DEF Mutex
  <1>5. hand[t] \in Clients /\ next[hand[t]] = Nil
    BY <1>1 DEF Full, Chain, Holding, Carrying
  <1>6. /\ \A i \in 1 .. Len(fifo) : fifo[i] # hand[t]
        /\ \A u \in Threads : u # t => hand[u] # hand[t]
    BY <1>1, <1>5 DEF Apart
  <1> QED BY <1>1, <1>2, <1>3, <1>4, <1>5, <1>6

\* The first assignment of an insertion.
LEMMA LinkInv ==
    ASSUME Inv, Running, NEW t \in Threads, Link(t), TypeOK', Full'
    PROVE  Mutex' /\ (Apart /\ Chain /\ Ends)'
  <1>1. pc[t] = "link" /\ UNCHANGED <<backlog, hand, lock, head, fifo, lpc>>
    BY DEF Link, kernel, loop
  <1>2. pc[t] \in Holding
    BY <1>1 DEF Holding
  <1>3. Settled
    BY <1>1, <1>2, Alone DEF Ends, Holding
  <1>4. Apart'
    BY <1>1, <1>2, Alone DEF Apart, Port
  <1>5. CASE tail = Nil
    <2>1. tail' = hand[t] /\ pc' = [pc EXCEPT ![t] = "head"] /\ next' = next
      BY <1>5 DEF Link
    <2>2. fifo = <<>>
      BY <1>2, <1>3, <1>5, Alone, Names DEF Settled
    <2>3. Mutex'
      BY <1>1, <1>2, <2>1, Alone, Names DEF Mutex, Holding, Running
    <2>4. Chain'
      BY <1>1, <1>2, <2>1, <2>2, Alone DEF Chain, Carrying, Holding
    <2>5. Ends'
      BY <1>1, <1>2, <2>1, <2>2, Alone DEF Ends, Holding
    <2> QED BY <1>4, <2>3, <2>4, <2>5
  <1>6. CASE tail # Nil
    <2>1. tail' = tail /\ pc' = [pc EXCEPT ![t] = "tail"] /\ next' = [next EXCEPT ![tail] = hand[t]]
      BY <1>6 DEF Link
    <2>2. fifo # <<>> /\ tail = fifo[Len(fifo)]
      BY <1>3, <1>6 DEF Settled
    <2>3. Mutex'
      BY <1>1, <1>2, <2>1, Alone, Names DEF Mutex, Holding, Running
    <2>4. next'[tail] = hand[t] /\ \A c \in Clients : c # tail => next'[c] = next[c]
      BY <1>2, <2>1, <2>2, Alone
    <2>5. \A i \in 1 .. Len(fifo) - 1 : fifo[i] # tail /\ fifo[i] \in Clients
      BY <1>2, <2>2, Alone DEF Apart
    <2>6. \A u \in Threads : pc[u] \in Carrying => hand[u] # tail /\ hand[u] \in Clients
      BY <1>2, <2>2, Alone DEF Apart, Inv, Full
    <2>7. \A u \in Threads : pc'[u] \in Carrying => pc[u] \in Carrying
      BY <1>2, <2>1, Alone DEF Holding, Carrying
    <2>8. Chain'
      BY <1>1, <1>2, <2>4, <2>5, <2>6, <2>7, Alone DEF Chain
    <2>9. Ends'
      BY <1>1, <1>2, <2>1, <2>2, <2>4, Alone DEF Ends, Holding
    <2> QED BY <1>4, <2>3, <2>8, <2>9
  <1> QED BY <1>5, <1>6

\* The second assignment of an insertion completes the queue.
LEMMA UnlockInv ==
    ASSUME Inv, Running, NEW t \in Threads, Unlock(t), TypeOK', Full'
    PROVE  Mutex' /\ (Apart /\ Chain /\ Ends)'
  <1> DEFINE c == hand[t]
             n == Len(fifo)
  <1>1. /\ UNCHANGED <<backlog, next, lpc>> /\ lock' = Nil
        /\ fifo' = Append(fifo, c) /\ hand' = [hand EXCEPT ![t] = Nil]
        /\ pc' = [pc EXCEPT ![t] = "signal"]
    BY DEF Unlock, kernel, loop
  <1>2. pc[t] \in Holding
    BY DEF Unlock, Holding
  <1>3. /\ Len(fifo') = n + 1 /\ fifo'[n + 1] = c
        /\ \A i \in 1 .. n : fifo'[i] = fifo[i]
        /\ n \in Nat /\ fifo' # <<>>
    BY <1>1, <1>2, Alone
  <1>4. /\ \A u \in Threads : u # t => hand'[u] = hand[u] /\ pc'[u] = pc[u]
        /\ hand'[t] = Nil /\ pc'[t] = "signal"
    BY <1>1, <1>2, Alone
  <1>5. Mutex'
    BY <1>1, <1>2, <1>4, Alone, Names DEF Mutex, Holding, Running
  <1>6. \A i \in 1 .. Len(fifo') : \/ i \in 1 .. n /\ fifo'[i] = fifo[i]
                                   \/ i = n + 1 /\ fifo'[i] = c
    BY <1>3
  <1>7. Apart /\ c \in Clients /\ (\A i \in 1 .. n : fifo[i] # c /\ fifo[i] \in Clients)
        /\ \A u \in Threads : u # t => hand[u] # c
    BY <1>2, Alone
  <1>8. backlog' = backlog /\ backlog \in [Threads -> Seq(Clients)]
        /\ \A u \in Threads : \A i \in 1 .. Len(backlog[u]) : backlog[u][i] \in Clients
    BY <1>1 DEF Inv, TypeOK
  <1> HIDE DEF c, n
  <1>9. Apart'
    <2>1. \A i, j \in 1 .. Len(fifo') : fifo'[i] = fifo'[j] => i = j
      BY <1>6, <1>7 DEF Apart, n
    <2>2. \A u \in Threads, i \in 1 .. Len(fifo') : hand'[u] # fifo'[i]
      BY <1>4, <1>6, <1>7, Names DEF Apart, n
    <2>3. \A v, u \in Threads : hand'[v] \in Clients /\ hand'[v] = hand'[u] => v = u
      BY <1>4, <1>7, Names DEF Apart
    <2>4. \A v \in Threads : \A i \in 1 .. Len(backlog[v]) :
             /\ Port(backlog[v][i]) = v
             /\ \A u \in Threads : hand'[u] # backlog[v][i]
             /\ \A j \in 1 .. Len(fifo') : fifo'[j] # backlog[v][i]
      BY <1>4, <1>6, <1>7, <1>8, Names DEF Apart, n, c
    <2>5. \A v \in Threads : \A i, j \in 1 .. Len(backlog[v]) :
             backlog[v][i] = backlog[v][j] => i = j
      BY <1>7 DEF Apart
    <2>6. backlog' = backlog
      BY <1>8
    <2> QED BY ONLY <2>1, <2>2, <2>3, <2>4, <2>5, <2>6 DEF Apart, Port
  <1>10. CASE pc[t] = "head"
    <2>1. head' = c /\ tail' = tail /\ fifo = <<>> /\ tail = c /\ n = 0 /\ next[c] = Nil
      BY <1>2, <1>10, Alone DEF Unlock, Ends, c, n
    <2>2. Chain'
      BY <1>1, <1>2, <1>3, <1>4, <2>1, Alone DEF Chain, Carrying
    <2>3. Ends'
      BY <1>1, <1>2, <1>3, <1>4, <2>1, Alone DEF Ends, Settled, Holding
    <2> QED BY <1>5, <1>9, <2>2, <2>3
  <1>11. CASE pc[t] = "tail"
    <2>1. /\ tail' = c /\ head' = head /\ fifo # <<>> /\ next[fifo[n]] = c /\ next[c] = Nil
          /\ head = fifo[1] /\ n \in Nat \ {0}
      BY <1>2, <1>11, Alone DEF Unlock, Ends, Chain, c, n
    <2>2. \A i \in 1 .. Len(fifo') - 1 : next'[fifo'[i]] = fifo'[i + 1]
      <3> SUFFICES ASSUME NEW i \in 1 .. n PROVE next[fifo[i]] = fifo'[i + 1]
        BY <1>1, <1>3
      <3>1. CASE i = n
        BY <1>3, <2>1, <3>1
      <3>2. CASE i # n
        <4>1. i \in 1 .. n - 1 /\ i + 1 \in 1 .. n
          BY <2>1, <3>2
        <4> QED BY <1>2, <1>3, <4>1, Alone DEF Chain, n
      <3> QED BY <3>1, <3>2
    <2>3. Chain'
      BY <1>1, <1>2, <1>3, <1>4, <2>1, <2>2, Alone DEF Chain, Carrying
    <2>4. Ends'
      BY <1>1, <1>2, <1>3, <1>4, <2>1, Alone DEF Ends, Settled, Holding
    <2> QED BY <1>5, <1>9, <2>3, <2>4
  <1> QED BY <1>10, <1>11 DEF Unlock

\* The loop is alone in its critical section.
LEMMA LoopAlone ==
    ASSUME Inv, lpc \in {"pop", "unlock"}
    PROVE  /\ Running /\ lock = Loop
           /\ \A t \in Threads : pc[t] \notin Holding
           /\ fifo \in Seq(Clients) /\ Len(fifo) \in Nat
           /\ Mutex /\ Apart /\ Chain /\ Ends
  <1>1. Running
    BY DEF Running
  <1>2. Mutex /\ Apart /\ Chain /\ Ends /\ fifo \in Seq(Clients)
    BY <1>1 DEF Inv, TypeOK
  <1>3. lock = Loop /\ \A t \in Threads : pc[t] \notin Holding
    BY <1>1, <1>2, Names DEF Mutex
  <1> QED BY <1>1, <1>2, <1>3

\* The loop leaves its critical section: an empty queue has no end, another
\* one keeps its end.
LEMMA LoopLeaveInv ==
    ASSUME Inv, Empty \/ LoopUnlock, TypeOK', Full'
    PROVE  Mutex' /\ (Apart /\ Chain /\ Ends)'
  <1>1. /\ UNCHANGED <<backlog, pc, hand, head, next, fifo>> /\ lock' = Nil
        /\ lpc \in {"pop", "unlock"} /\ lpc' \in {"evfds", "add"}
    BY DEF Empty, LoopUnlock, kernel
  <1>2. Mutex'
    BY <1>1, LoopAlone, Names DEF Mutex
  <1>3. Apart'
    BY <1>1, LoopAlone DEF Apart, Port
  <1>4. Chain'
    BY <1>1, LoopAlone DEF Chain
  <1>5. ASSUME Empty PROVE Ends'
    BY <1>1, <1>5, LoopAlone DEF Empty, Ends, Settled, Holding
  <1>6. ASSUME LoopUnlock PROVE Ends'
    <2>1. CASE fifo = <<>>
      <3>1. tail' = Nil
        BY <1>1, <1>6, <2>1, LoopAlone DEF LoopUnlock, Chain
      <3> QED BY <1>1, <2>1, <3>1, LoopAlone DEF Ends, Settled, Holding
    <2>2. CASE fifo # <<>>
      <3>1. head # Nil
        BY <1>1, <2>2, LoopAlone, Names DEF Chain
      <3>2. tail' = tail /\ Settled
        BY <1>1, <1>6, <2>2, <3>1, LoopAlone DEF LoopUnlock, Ends
      <3> QED BY <1>1, <2>2, <3>2, LoopAlone DEF Ends, Settled, Holding
    <2> QED BY <2>1, <2>2
  <1> QED BY <1>2, <1>3, <1>4, <1>5, <1>6

\* The loop takes the oldest node.
LEMMA PopInv ==
    ASSUME Inv, Pop, TypeOK', Full'
    PROVE  Mutex' /\ (Apart /\ Chain /\ Ends)'
  <1> DEFINE n == Len(fifo)
  <1>1. /\ UNCHANGED <<backlog, pc, hand, lock, tail, next>>
        /\ lpc = "pop" /\ lpc' = "unlock" /\ head # Nil
        /\ head' = next[head] /\ fifo' = Tail(fifo)
    BY DEF Pop, kernel
  <1>2. fifo # <<>> /\ head = fifo[1]
    BY <1>1, LoopAlone DEF Chain
  <1>3. /\ n \in Nat \ {0} /\ Len(fifo') = n - 1
        /\ \A i \in 1 .. Len(fifo') : fifo'[i] = fifo[i + 1] /\ i + 1 \in 1 .. n
        /\ fifo' \in Seq(Clients)
    BY <1>1, <1>2, LoopAlone, TailFacts DEF TypeOK
  <1>4. Settled
    BY <1>1, LoopAlone DEF Ends, Holding
  <1>5. Mutex'
    BY <1>1, LoopAlone, Names DEF Mutex, Running
  <1>6. Apart /\ Chain
    BY <1>1, LoopAlone
  <1> HIDE DEF n
  <1>7. Apart'
    <2>1. \A i, j \in 1 .. Len(fifo') : fifo'[i] = fifo'[j] => i = j
      <3> SUFFICES ASSUME NEW i \in 1 .. Len(fifo'), NEW j \in 1 .. Len(fifo'),
                          fifo'[i] = fifo'[j]
                   PROVE  i = j
        OBVIOUS
      <3>1. i + 1 = j + 1
        BY <1>3, <1>6 DEF Apart, n
      <3> QED BY <1>3, <3>1
    <2>2. \A t \in Threads, i \in 1 .. Len(fifo') : hand[t] # fifo'[i]
      BY <1>3, <1>6 DEF Apart, n
    <2>3. \A t \in Threads : \A i \in 1 .. Len(backlog[t]) :
             /\ Port(backlog[t][i]) = t
             /\ \A u \in Threads : hand[u] # backlog[t][i]
             /\ \A j \in 1 .. Len(fifo') : fifo'[j] # backlog[t][i]
      BY <1>3, <1>6 DEF Apart, n
    <2>4. /\ \A t, u \in Threads : hand[t] \in Clients /\ hand[t] = hand[u] => t = u
          /\ \A t \in Threads : \A i, j \in 1 .. Len(backlog[t]) :
               backlog[t][i] = backlog[t][j] => i = j
      BY <1>6 DEF Apart
    <2>5. backlog' = backlog /\ hand' = hand
      BY <1>1
    <2> QED BY ONLY <2>1, <2>2, <2>3, <2>4, <2>5 DEF Apart, Port
  <1>8. CASE n = 1
    <2>1. fifo' = <<>>
      BY <1>3, <1>8
    <2>2. head' = Nil
      BY <1>1, <1>2, <1>4, <1>8 DEF Settled, n
    <2>3. Chain'
      BY <1>1, <1>3, <1>6, <1>8, <2>1, <2>2 DEF Chain
    <2>4. Ends'
      BY <1>1, <2>1, LoopAlone DEF Ends, Holding
    <2> QED BY <1>5, <1>7, <2>3, <2>4
  <1>9. CASE n # 1
    <2>1. 1 \in 1 .. n - 1 /\ 1 \in 1 .. Len(fifo') /\ fifo' # <<>>
      BY <1>3, <1>9
    <2>2. head' = fifo'[1]
      BY <1>1, <1>2, <1>3, <1>6, <2>1 DEF Chain, n
    <2>3. \A i \in 1 .. Len(fifo') - 1 : next[fifo'[i]] = fifo'[i + 1]
      <3> SUFFICES ASSUME NEW i \in 1 .. Len(fifo') - 1
                   PROVE  next[fifo'[i]] = fifo'[i + 1]
        OBVIOUS
      <3>1. /\ i + 1 \in 1 .. n - 1 /\ i \in 1 .. Len(fifo') /\ i + 1 \in 1 .. Len(fifo')
        BY <1>3
      <3> QED BY <1>3, <1>6, <3>1 DEF Chain, n
    <2>4. tail = fifo[n] /\ next[tail] = Nil /\ fifo'[Len(fifo')] = fifo[n]
      BY <1>2, <1>3, <1>4, <1>9 DEF Settled, n
    <2>5. Chain'
      BY <1>1, <1>6, <2>1, <2>2, <2>3 DEF Chain
    <2>6. Ends'
      BY <1>1, <2>1, <2>4, LoopAlone DEF Ends, Settled, Holding
    <2> QED BY <1>5, <1>7, <2>5, <2>6
  <1> QED BY <1>8, <1>9

-----------------------------------------------------------------------------
\* The queue's part of the invariant is kept while the process runs.
LEMMA QueueStep ==
    ASSUME Inv, [Next]_vars, TypeOK', Full', Running'
    PROVE  Mutex' /\ (Apart /\ Chain /\ Ends)'
  <1>1. CASE UNCHANGED vars
    BY <1>1 DEF vars, kernel, queue, loop, Inv, Mutex, Apart, Port, Chain, Ends, Settled, Running
  <1>2. CASE abort_handler
    BY <1>2 DEF abort_handler, kernel, queue, loop, Inv, Mutex, Apart, Port, Chain, Ends,
                Settled, Running
  <1>3. ASSUME NEW t \in Threads, ThreadStep(t)
        PROVE  Mutex' /\ (Apart /\ Chain /\ Ends)'
    <2>1. CASE TooManyFiles(t)
      BY <2>1 DEF TooManyFiles, Die, Running
    <2>2. Running \/ TooManyFiles(t)
      BY <1>3 DEF ThreadStep, Running, Ready, Leave, Accept, Drop, Lock, Link, Unlock, Signal,
                  loop
    <2> QED BY <1>3, <2>1, <2>2, RoundInv, DropInv, AcceptInv, LockInv, LinkInv, UnlockInv
            DEF ThreadStep
  <1>4. CASE LoopLock
    BY <1>4, LockInv DEF LoopLock, Running
  <1>5. CASE connection_cleanup \/ abort_again \/ \E c \in Clients : Freed(c)
    BY <1>5 DEF connection_cleanup, abort_again, Freed, Die, Running
  <1> QED BY <1>1, <1>2, <1>3, <1>4, <1>5, StepCases, ArriveInv, QuietInv, LoopLeaveInv, PopInv

\* No step makes the loop forget nodes that are in the queue.
LEMMA WakeStep ==
    ASSUME Inv, [Next]_vars, TypeOK', Full'
    PROVE  Wake'
  <1> USE DEF kernel, queue, loop, Running, Wake
  <1>0. Wake /\ pc \in [Threads -> Points]
    BY DEF Inv, TypeOK, Points
  <1>1. CASE UNCHANGED vars \/ abort_handler \/ abort_again \/ \E c \in Clients : Arrive(c)
    BY <1>0, <1>1 DEF vars, abort_handler, abort_again, Die, Arrive
  <1>2. ASSUME NEW t \in Threads, ThreadStep(t)
        PROVE  Wake'
    <2>1. CASE Unlock(t)
      BY <1>0, <2>1 DEF Unlock
    <2>2. CASE Signal(t)
      BY <1>0, <2>2 DEF Signal
    <2>3. CASE TooManyFiles(t)
      BY <2>3 DEF TooManyFiles, Die
    <2>4. CASE Ready(t) \/ Leave(t) \/ Accept(t) \/ Drop(t) \/ Lock(t) \/ Link(t)
      <3>1. pc[t] # "signal" /\ UNCHANGED <<stop, event, fifo, lpc>>
            /\ \A u \in Threads : u # t => pc'[u] = pc[u]
        BY <1>0, <2>4 DEF Ready, Leave, Accept, Drop, Lock, Link
      <3> QED BY <1>0, <3>1
    <2> QED BY <1>2, <2>1, <2>2, <2>3, <2>4 DEF ThreadStep
  <1>3. CASE LoopStep
    <2>1. CASE Start \/ EndRound \/ Join
      BY <1>0, <2>1 DEF Start, EndRound, Join, LoopRound
    <2>2. ASSUME NEW S \in SUBSET Clients, NEW timer \in BOOLEAN, Poll(S, timer)
          PROVE  Wake'
      BY <1>0, <2>2 DEF Poll
    <2>3. CASE AcceptEvent \/ Read \/ LoopLock \/ Add
      BY <1>0, <2>3 DEF AcceptEvent, Read, LoopLock, Add
    <2>4. CASE Empty
      BY <2>4, LoopAlone, Names DEF Empty, Chain
    <2>5. CASE Pop \/ LoopUnlock
      BY <1>0, <2>5 DEF Pop, LoopUnlock
    <2>6. CASE Reclose \/ MonitorDone \/ EvfdsDone
      BY <1>0, <2>6 DEF Reclose, MonitorDone, EvfdsDone
    <2>7. ASSUME NEW c \in Clients, MonitorClose(c) \/ Keep(c) \/ Close(c) \/ Freed(c)
          PROVE  Wake'
      BY <1>0, <2>7 DEF MonitorClose, Keep, Close, Freed, Die
    <2>8. CASE connection_cleanup
      BY <2>8 DEF connection_cleanup
    <2> QED BY <1>3, <2>1, <2>2, <2>3, <2>4, <2>5, <2>6, <2>7, <2>8 DEF LoopStep
  <1> QED BY <1>1, <1>2, <1>3 DEF Next, Ended

\* Every step keeps the invariant.
LEMMA NextInv == Inv /\ [Next]_vars => Inv'
  <1> SUFFICES ASSUME Inv, [Next]_vars PROVE Inv'
    OBVIOUS
  <1>1. TypeOK' /\ Full'
    BY ThreadType, LoopType DEF Next, Ended
  <1>2. Wake'
    BY <1>1, WakeStep
  <1>3. CASE Running'
    BY <1>1, <1>2, <1>3, QueueStep DEF Inv
  <1>4. CASE ~ Running'
    BY <1>1, <1>4, DeadInv
  <1> QED BY <1>3, <1>4

\* The invariant holds in every reachable state.
THEOREM InvHolds == Spec => []Inv
  BY InitInv, NextInv, PTL DEF Spec

\* Every variable keeps its type: only accepted sockets enter the queue.
THEOREM TypeCorrect == Spec => []TypeOK
  <1>1. Inv => TypeOK
    BY DEF Inv
  <1> QED BY <1>1, InvHolds, PTL

\* Whenever the mutex is free, the linked list is the queue of the inserted
\* nodes, for every number of clients and every interleaving.
THEOREM QueueCorrect == Spec => []QueueShape
  <1>1. Inv => QueueShape
    <2> SUFFICES ASSUME Inv, Running, lock = Nil
                 PROVE  IF fifo = <<>>
                        THEN head = Nil /\ tail = Nil
                        ELSE /\ head = fifo[1] /\ tail = fifo[Len(fifo)] /\ next[tail] = Nil
                             /\ \A i \in 1 .. Len(fifo) - 1 : next[fifo[i]] = fifo[i + 1]
      BY DEF QueueShape
    <2>1. (\A t \in Threads : pc[t] \notin Holding) /\ lpc # "unlock"
      BY Names DEF Inv, Mutex
    <2>2. Settled
      BY <2>1 DEF Inv, Ends, Holding
    <2> QED BY <2>2 DEF Inv, Chain, Settled
  <1> QED BY <1>1, InvHolds, PTL

\* The loop never sleeps on a queue that nobody will tell it of.
THEOREM WakeupCorrect == Spec => []NoLostWakeup
  <1>1. Inv => NoLostWakeup
    BY DEF Inv, Wake, NoLostWakeup, Running
  <1> QED BY <1>1, InvHolds, PTL

-----------------------------------------------------------------------------
(* The owners of open sockets.                                             *)

Hands == {hand[t] : t \in Threads}
Lined == {c \in Clients : \E t \in Threads : \E i \in 1 .. Len(backlog[t]) : backlog[t][i] = c}

\* Hands that carry nothing are empty; the clients the loop has taken or
\* connected are in no place before it; every open socket is somewhere.
Sole ==
    /\ \A t \in Threads : pc[t] \notin Carrying => hand[t] = Nil
    /\ lpc \notin {"unlock", "add"} => temp = Nil
    /\ \A c \in Clients : c \in conns \/ c = temp => c \notin Hands \cup Queued \cup Lined
    /\ temp \notin conns
    /\ open \subseteq Hands \cup Queued \cup {temp} \cup conns

SoleInv == Inv /\ (Running => Sole)

\* The nodes of the queue, by their places in it.
LEMMA QueuedFacts ==
    ASSUME TypeOK
    PROVE  /\ Queued = {fifo[i] : i \in 1 .. Len(fifo)} /\ Queued \subseteq Clients
           /\ Hands \subseteq Clients \cup {Nil}
  <1>1. fifo \in Seq(Clients) /\ hand \in [Threads -> Clients \cup {Nil}]
    BY DEF TypeOK, Maybe
  <1> QED BY <1>1 DEF Queued, Hands

\* Steps that move nothing between the hands, the queue, the loop and the
\* connections: the backlog may get shorter, and sockets may be closed.
LEMMA SoleStill ==
    ASSUME SoleInv, Running, UNCHANGED <<hand, fifo, temp>>, Lined' \subseteq Lined,
           conns' \subseteq conns, open' \subseteq open, open' \cap conns \subseteq conns',
           lpc \in {"unlock", "add"} <=> lpc' \in {"unlock", "add"},
           \A t \in Threads : pc[t] \in Carrying <=> pc'[t] \in Carrying
    PROVE  Sole'
  <1>1. Sole
    BY DEF SoleInv
  <1>2. Hands' = Hands /\ Queued' = Queued
    BY DEF Hands, Queued
  <1> QED BY <1>1, <1>2 DEF Sole

\* A backlog that loses its head has fewer clients in line.
LEMMA LinedTail ==
    ASSUME TypeOK, NEW t \in Threads, backlog[t] # <<>>,
           backlog' = [backlog EXCEPT ![t] = Tail(@)]
    PROVE  Lined' \subseteq Lined /\ Head(backlog[t]) \in Lined
  <1>1. backlog \in [Threads -> Seq(Clients)]
    BY DEF TypeOK
  <1>2. \A u \in Threads : \A i \in 1 .. Len(backlog'[u]) :
           \E k \in 1 .. Len(backlog[u]) : backlog'[u][i] = backlog[u][k]
    <2> SUFFICES ASSUME NEW u \in Threads, NEW i \in 1 .. Len(backlog'[u])
                 PROVE  \E k \in 1 .. Len(backlog[u]) : backlog'[u][i] = backlog[u][k]
      OBVIOUS
    <2>1. CASE u = t
      <3>1. backlog'[u] = Tail(backlog[t]) /\ backlog[t] \in Seq(Clients)
        BY <1>1, <2>1
      <3> QED BY <2>1, <3>1, TailFacts
    <2>2. CASE u # t
      BY <1>1, <2>2
    <2> QED BY <2>1, <2>2
  <1>3. backlog[t] \in Seq(Clients)
    BY <1>1
  <1>4. Head(backlog[t]) = backlog[t][1] /\ 1 \in 1 .. Len(backlog[t])
        /\ Head(backlog[t]) \in Clients
    BY <1>3, TailFacts
  <1> QED BY <1>2, <1>4 DEF Lined

\* A thread hands its node on: to its hand, and from its hand to the queue.
LEMMA SoleThread ==
    ASSUME SoleInv, Running, NEW t \in Threads, ThreadStep(t), TypeOK', Running'
    PROVE  Sole'
  <1>0. /\ TypeOK /\ Inv /\ Sole /\ Full /\ Apart
        /\ hand \in [Threads -> Clients \cup {Nil}] /\ pc \in [Threads -> Points]
        /\ fifo \in Seq(Clients)
    BY DEF SoleInv, Inv, TypeOK, Maybe, Points
  <1>1. CASE Ready(t) \/ Leave(t) \/ Signal(t) \/ Lock(t) \/ Link(t)
    <2>1. /\ UNCHANGED <<hand, fifo, temp, backlog, conns, open, lpc>>
          /\ \A u \in Threads : pc[u] \in Carrying <=> pc'[u] \in Carrying
      BY <1>0, <1>1 DEF Ready, Leave, Signal, Lock, Link, NextRound, kernel, queue, loop, Carrying
    <2>2. Lined' = Lined
      BY <2>1 DEF Lined
    <2> QED BY <2>1, <2>2, SoleStill
  <1>2. CASE Drop(t)
    <2>1. /\ UNCHANGED <<hand, fifo, temp, conns, open, lpc>>
          /\ \A u \in Threads : pc[u] \in Carrying <=> pc'[u] \in Carrying
      BY <1>0, <1>2 DEF Drop, NextRound, queue, loop, Carrying
    <2>2. Lined' \subseteq Lined
      BY <1>0, <1>2, LinedTail DEF Drop
    <2> QED BY <2>1, <2>2, SoleStill
  <1>3. CASE Accept(t)
    <2> DEFINE c == Head(backlog[t])
    <2>1. /\ UNCHANGED <<fifo, temp, conns, lpc>> /\ open' = open \cup {c}
          /\ hand' = [hand EXCEPT ![t] = c] /\ pc' = [pc EXCEPT ![t] = "lock"]
          /\ pc[t] = "wait"
      BY <1>3 DEF Accept, loop
    <2>2. Lined' \subseteq Lined /\ c \in Lined
      BY <1>0, <1>3, LinedTail DEF Accept
    <2> HIDE DEF c
    <2>3. hand[t] = Nil
      BY <1>0, <2>1 DEF Sole, Carrying
    <2>4. Hands' \subseteq Hands \cup {c} /\ Hands \subseteq Hands' \cup {Nil} /\ c \in Hands'
      BY <1>0, <2>1, <2>3 DEF Hands
    <2>5. Queued' = Queued
      BY <2>1 DEF Queued
    <2>6. c \in Clients /\ c \notin conns /\ c # temp
      BY <1>0, <2>2 DEF Sole, Lined
    <2>7. \A u \in Threads : pc'[u] \notin Carrying => hand'[u] = Nil
      BY <1>0, <2>1 DEF Sole, Carrying
    <2>8. open \subseteq Clients
      BY <1>0 DEF TypeOK
    <2> QED BY <1>0, <2>1, <2>2, <2>4, <2>5, <2>6, <2>7, <2>8, Names DEF Sole
  <1>4. CASE Unlock(t)
    <2> DEFINE c == hand[t]
    <2>1. /\ UNCHANGED <<backlog, temp, conns, open, lpc>>
          /\ fifo' = Append(fifo, c) /\ hand' = [hand EXCEPT ![t] = Nil]
          /\ pc' = [pc EXCEPT ![t] = "signal"] /\ pc[t] \in Carrying
      BY <1>4 DEF Unlock, kernel, loop, Carrying
    <2>2. c \in Clients
      BY <1>0, <2>1 DEF Full
    <2>3. Lined' = Lined
      BY <2>1 DEF Lined
    <2>4. Queued' = Queued \cup {c}
      <3>1. /\ Len(fifo') = Len(fifo) + 1 /\ fifo'[Len(fifo) + 1] = c /\ Len(fifo) \in Nat
            /\ \A i \in 1 .. Len(fifo) : fifo'[i] = fifo[i]
        BY <1>0, <2>1, <2>2
      <3>2. Queued = {fifo[i] : i \in 1 .. Len(fifo)}
        BY <1>0, QueuedFacts
      <3>3. Queued' = {fifo'[i] : i \in 1 .. Len(fifo) + 1}
        <4>1. DOMAIN fifo' = 1 .. Len(fifo')
          BY DEF TypeOK
        <4> QED BY <3>1, <4>1 DEF Queued
      <3> QED BY <3>1, <3>2, <3>3
    <2>5. Hands' \subseteq Hands \cup {Nil} /\ Hands \subseteq Hands' \cup {c}
      BY <1>0, <2>1 DEF Hands
    <2>6. c \in Hands
      BY DEF Hands
    <2> HIDE DEF c
    <2>7. \A u \in Threads : pc'[u] \notin Carrying => hand'[u] = Nil
      BY <1>0, <2>1 DEF Sole, Carrying
    <2> QED BY <1>0, <2>1, <2>2, <2>3, <2>4, <2>5, <2>6, <2>7, Names DEF Sole
  <1>5. CASE TooManyFiles(t)
    BY <1>5 DEF TooManyFiles, Die, Running
  <1> QED BY <1>1, <1>2, <1>3, <1>4, <1>5 DEF ThreadStep

\* The loop takes the head of the queue, and makes a connection of it.
LEMMA SoleTake ==
    ASSUME SoleInv, Pop \/ Add, TypeOK'
    PROVE  Sole'
  <1>0. /\ TypeOK /\ Inv /\ Sole /\ Full /\ Apart /\ fifo \in Seq(Clients)
    BY DEF SoleInv, Inv, TypeOK, Running, Pop, Add
  <1>1. CASE Pop
    <2>1. /\ UNCHANGED <<backlog, pc, hand, conns, open>> /\ lpc = "pop" /\ lpc' = "unlock"
          /\ temp' = head /\ fifo' = Tail(fifo) /\ head # Nil
      BY <1>1 DEF Pop, kernel
    <2>2. fifo # <<>> /\ head = fifo[1]
      BY <1>0, <2>1, LoopAlone DEF Chain
    <2>3. /\ Len(fifo') = Len(fifo) - 1 /\ Len(fifo) \in Nat \ {0}
          /\ \A i \in 1 .. Len(fifo') : fifo'[i] = fifo[i + 1] /\ i + 1 \in 1 .. Len(fifo)
      BY <1>0, <2>1, <2>2, TailFacts
    <2>4. Queued = {fifo[i] : i \in 1 .. Len(fifo)} /\ Queued \subseteq Clients
      BY <1>0, QueuedFacts
    <2>5. Queued' = {fifo'[i] : i \in 1 .. Len(fifo')}
      <3>1. DOMAIN fifo' = 1 .. Len(fifo')
        BY DEF TypeOK
      <3> QED BY <3>1 DEF Queued
    <2>6. Queued' \subseteq Queued
      BY <2>3, <2>4, <2>5
    <2>7. Queued \subseteq Queued' \cup {head}
      <3> SUFFICES ASSUME NEW i \in 1 .. Len(fifo), i # 1
                   PROVE  fifo[i] \in Queued'
        BY <2>2, <2>4
      <3>1. i - 1 \in 1 .. Len(fifo') /\ (i - 1) + 1 = i
        BY <2>3
      <3>2. fifo'[i - 1] = fifo[i]
        BY <2>3, <3>1
      <3> QED BY <2>5, <3>1, <3>2
    <2>8. head \in Queued /\ head \notin Queued'
      <3>1. 1 \in 1 .. Len(fifo)
        BY <2>3
      <3>2. \A i \in 1 .. Len(fifo') : fifo'[i] # head
        <4> SUFFICES ASSUME NEW i \in 1 .. Len(fifo') PROVE fifo'[i] # head
          OBVIOUS
        <4>1. i + 1 \in 1 .. Len(fifo) /\ fifo'[i] = fifo[i + 1] /\ i + 1 # 1
          BY <2>3
        <4> QED BY <1>0, <2>2, <3>1, <4>1 DEF Apart
      <3> QED BY <2>2, <2>4, <2>5, <3>1, <3>2
    <2>9. Hands' = Hands /\ Lined' = Lined
      BY <2>1 DEF Hands, Lined
    <2>10. head \notin Hands /\ head \notin Lined /\ head \in Clients /\ head \notin conns
      <3>1. head \notin Hands
        BY <1>0, <2>2, <2>3 DEF Apart, Hands
      <3>2. head \notin Lined
        BY <1>0, <2>2, <2>3 DEF Apart, Lined
      <3>3. head \in Clients
        BY <2>4, <2>8
      <3> QED BY <1>0, <2>8, <3>1, <3>2, <3>3 DEF Sole
    <2>11. temp = Nil /\ open \subseteq Clients
      BY <1>0, <2>1 DEF Sole, TypeOK
    <2> QED BY <1>0, <2>1, <2>6, <2>7, <2>8, <2>9, <2>10, <2>11, Names DEF Sole
  <1>2. CASE Add
    <2>1. /\ UNCHANGED <<backlog, pc, hand, fifo>> /\ lpc = "add" /\ lpc' = "read"
          /\ conns' = conns \cup {temp} /\ open' \subseteq open /\ temp' = Nil
      BY <1>2 DEF Add, queue
    <2>2. Hands' = Hands /\ Lined' = Lined /\ Queued' = Queued
      BY <2>1 DEF Hands, Lined, Queued
    <2>3. temp \in Clients /\ conns \subseteq Clients
      BY <1>0, <2>1 DEF Full, TypeOK
    <2> QED BY <1>0, <2>1, <2>2, <2>3, Names DEF Sole
  <1> QED BY <1>1, <1>2

\* The other steps of the loop and of its environment.
LEMMA SoleLoop ==
    ASSUME SoleInv, Running, Running',
           \/ LoopStep /\ ~ Pop /\ ~ Add
           \/ abort_handler \/ UNCHANGED vars
    PROVE  Sole'
  <1> DEFINE Still ==
         /\ UNCHANGED <<hand, fifo, temp, pc, backlog>>
         /\ conns' \subseteq conns /\ open' \subseteq open /\ open' \cap conns \subseteq conns'
         /\ lpc \in {"unlock", "add"} <=> lpc' \in {"unlock", "add"}
  <1>1. Start \/ AcceptEvent \/ Read \/ LoopLock \/ Empty \/ LoopUnlock \/ Reclose \/ MonitorDone
          \/ EvfdsDone \/ EndRound \/ Join => Still
    BY DEF Start, AcceptEvent, Read, LoopLock, Empty, LoopUnlock, Reclose, MonitorDone, EvfdsDone,
           EndRound, Join, LoopRound, kernel, queue
  <1>2. \A S \in SUBSET Clients, timer \in BOOLEAN : Poll(S, timer) => Still
    BY DEF Poll, kernel, queue
  <1>3. \A c \in Clients : MonitorClose(c) \/ Keep(c) \/ Close(c) => Still
    BY DEF MonitorClose, Keep, Close, kernel, queue
  <1>4. abort_handler \/ UNCHANGED vars => Still
    BY DEF abort_handler, vars, kernel, queue, loop
  <1>5. ~ connection_cleanup /\ \A c \in Clients : ~ Freed(c)
    BY DEF connection_cleanup, Freed, Die, Running
  <1>6. Still
    BY <1>1, <1>2, <1>3, <1>4, <1>5 DEF LoopStep
  <1>7. Lined' = Lined
    BY <1>6 DEF Lined
  <1> QED BY <1>6, <1>7, SoleStill

\* Every step keeps every open socket with its one owner.
LEMMA SoleNext == SoleInv /\ [Next]_vars => SoleInv'
  <1> SUFFICES ASSUME SoleInv, [Next]_vars, Running' PROVE Sole'
    BY NextInv DEF SoleInv
  <1>1. TypeOK' /\ TypeOK
    BY NextInv DEF SoleInv, Inv
  <1>2. Running
    BY DEF Next, LoopStep, ThreadStep, Running, Arrive, abort_handler, abort_again, Die, Ended,
           Ready, Leave, Accept, Drop, TooManyFiles, Lock, Link, Unlock, Signal,
           Start, Poll, AcceptEvent, Read, LoopLock, Empty, Pop, LoopUnlock, Add, Reclose,
           MonitorDone, EvfdsDone, MonitorClose, Keep, Close, Freed, EndRound, Join,
           connection_cleanup, vars, loop
  <1>3. ASSUME NEW c \in Clients, Arrive(c) PROVE Sole'
    <2>1. /\ UNCHANGED <<open, hand, pc, fifo, temp, conns, lpc>>
          /\ backlog' = [backlog EXCEPT ![Port(c)] = Append(@, c)]
          /\ c \notin InHand \cup Queued \cup conns
      BY <1>3 DEF Arrive, queue, loop
    <2>2. Hands' = Hands /\ Queued' = Queued
      BY <2>1 DEF Hands, Queued
    <2>3. Lined' \subseteq Lined \cup {c}
      <3> DEFINE p == Port(c)
      <3>1. backlog \in [Threads -> Seq(Clients)] /\ p \in Threads
        BY <1>1 DEF TypeOK, Port, Threads
      <3>2. backlog' = [backlog EXCEPT ![p] = Append(backlog[p], c)]
        BY <2>1
      <3> HIDE DEF p
      <3>3. \A t \in Threads : \A i \in 1 .. Len(backlog'[t]) :
               \/ i \in 1 .. Len(backlog[t]) /\ backlog'[t][i] = backlog[t][i]
               \/ t = p /\ i = Len(backlog[t]) + 1 /\ backlog'[t][i] = c
        <4> SUFFICES ASSUME NEW t \in Threads, NEW i \in 1 .. Len(backlog'[t])
                     PROVE  \/ i \in 1 .. Len(backlog[t]) /\ backlog'[t][i] = backlog[t][i]
                            \/ t = p /\ i = Len(backlog[t]) + 1 /\ backlog'[t][i] = c
          OBVIOUS
        <4>1. CASE t = p
          <5>1. backlog[t] \in Seq(Clients) /\ backlog'[t] = Append(backlog[t], c)
            BY <3>1, <3>2, <4>1
          <5> QED BY <4>1, <5>1
        <4>2. CASE t # p
          BY <3>1, <3>2, <4>2
        <4> QED BY <4>1, <4>2
      <3> QED BY <3>3 DEF Lined
    <2>4. InHand = Hands \cup {temp}
      BY DEF InHand, Hands
    <2>5. Sole
      BY <1>2 DEF SoleInv
    <2> QED BY <2>1, <2>2, <2>3, <2>4, <2>5 DEF Sole
  <1>4. ~ abort_again /\ ~ Ended
    BY <1>2 DEF abort_again, Die, Running, Ended
  <1> QED BY <1>1, <1>2, <1>3, <1>4, SoleThread, SoleTake, SoleLoop DEF Next

\* A set that holds at most one element, by whether it holds one.
LEMMA AtMostOne ==
    ASSUME NEW S, NEW x, S \subseteq {x}
    PROVE  Cardinality(S) = IF x \in S THEN 1 ELSE 0
  <1>1. CASE x \in S
    <2>1. S = {x}
      BY <1>1
    <2> QED BY <1>1, <2>1, FS_Singleton
  <1>2. CASE x \notin S
    <2>1. S = {}
      BY <1>2
    <2> QED BY <1>2, <2>1, FS_EmptySet
  <1> QED BY <1>1, <1>2

\* Every open socket is in the hand of one accept thread, in the queue once,
\* in the hand of the loop or in the connections set, and in only one of
\* these, whatever the threads, the loop and the double close did before.
THEOREM OwnerCorrect == Spec => []OneOwner
  <1>1. Init => SoleInv
    <2> SUFFICES ASSUME Init PROVE Sole
      BY InitInv DEF SoleInv
    <2> QED BY Names DEF Init, Sole, Carrying, Hands, Queued, Lined
  <1>2. SoleInv => OneOwner
    <2> SUFFICES ASSUME SoleInv, Running, NEW c \in open
                 PROVE  Cardinality({t \in Threads : hand[t] = c})
                          + Cardinality({i \in DOMAIN fifo : fifo[i] = c})
                          + Cardinality({temp} \cap {c}) + Cardinality(conns \cap {c}) = 1
      BY DEF OneOwner
    <2>1. TypeOK /\ Sole /\ Apart /\ c \in Clients
      BY DEF SoleInv, Inv, TypeOK
    <2>2. Cardinality({t \in Threads : hand[t] = c}) = IF c \in Hands THEN 1 ELSE 0
      <3>1. CASE c \in Hands
        <4>1. PICK u \in Threads : hand[u] = c
          BY <3>1 DEF Hands
        <4>2. {t \in Threads : hand[t] = c} = {u}
          BY <2>1, <4>1 DEF Apart
        <4> QED BY <3>1, <4>2, FS_Singleton
      <3>2. CASE c \notin Hands
        <4>1. {t \in Threads : hand[t] = c} = {}
          BY <3>2 DEF Hands
        <4> QED BY <3>2, <4>1, FS_EmptySet
      <3> QED BY <3>1, <3>2
    <2>3. Cardinality({i \in DOMAIN fifo : fifo[i] = c}) = IF c \in Queued THEN 1 ELSE 0
      <3>0. DOMAIN fifo = 1 .. Len(fifo)
        BY <2>1 DEF TypeOK
      <3>1. CASE c \in Queued
        <4>1. PICK k \in DOMAIN fifo : fifo[k] = c
          BY <3>1 DEF Queued
        <4>2. {i \in DOMAIN fifo : fifo[i] = c} = {k}
          BY <2>1, <3>0, <4>1 DEF Apart
        <4> QED BY <3>1, <4>2, FS_Singleton
      <3>2. CASE c \notin Queued
        <4>1. {i \in DOMAIN fifo : fifo[i] = c} = {}
          BY <3>2 DEF Queued
        <4> QED BY <3>2, <4>1, FS_EmptySet
      <3> QED BY <3>1, <3>2
    <2>4. Cardinality({temp} \cap {c}) = IF c = temp THEN 1 ELSE 0
      <3>1. {temp} \cap {c} \subseteq {c} /\ (c \in {temp} \cap {c} <=> c = temp)
        OBVIOUS
      <3> QED BY <3>1, AtMostOne
    <2>5. Cardinality(conns \cap {c}) = IF c \in conns THEN 1 ELSE 0
      <3>1. conns \cap {c} \subseteq {c} /\ (c \in conns \cap {c} <=> c \in conns)
        OBVIOUS
      <3> QED BY <3>1, AtMostOne
    <2>6. c \notin Hands \/ c \notin Queued
      <3>1. Queued = {fifo[i] : i \in 1 .. Len(fifo)}
        BY <2>1, QueuedFacts
      <3> QED BY <2>1, <3>1 DEF Apart, Hands
    <2>7. c \in Hands \/ c \in Queued \/ c = temp \/ c \in conns
      BY <2>1 DEF Sole
    <2>8. c \in conns \/ c = temp => c \notin Hands /\ c \notin Queued
      BY <2>1 DEF Sole
    <2>9. ~ (c \in conns /\ c = temp)
      BY <2>1 DEF Sole
    <2> QED BY <2>2, <2>3, <2>4, <2>5, <2>6, <2>7, <2>8, <2>9
  <1> QED BY <1>1, <1>2, SoleNext, PTL DEF Spec
=============================================================================
