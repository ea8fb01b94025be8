---------------------------- MODULE FlushProofs ----------------------------
(***************************************************************************)
(* The children that write the index, for any number of process ids and    *)
(* any interval: one writes at a time, and current_flush becomes stale in  *)
(* two ways only.                                                          *)
(***************************************************************************)
EXTENDS Flush, FiniteSetTheorems, TLAPS

Places == {"idle", "poll", "waitpid", "limit", "fork", "assign",
           "close", "block", "write", "exited"}
Call   == [pc : Places, pid : Pids \cup {NoPid}, age : 0..Interval]

Types ==
    /\ frame \in [Frames -> Call]
    /\ current \in Pids \cup {NoPid}
    /\ since \in 0..Interval
    /\ child \in [Pids -> {"none", "running", "exited", "killed"}]

\* Unless SIGUSR1 has interrupted a decision, a handler runs only where the
\* loop has decided nothing yet; a child that was not reaped is the one that
\* current_flush names, or is about to name; and whoever is going to fork or
\* to write has made sure that there is none.
OneChild ==
    /\ frame["signal"].pc # "idle" => frame["loop"].pc \in {"idle", "poll", "close"}
    /\ (\A f \in Frames : frame[f].pc # "assign") => Children \subseteq {current}
    /\ \A f \in Frames :
          /\ frame[f].pc = "assign" => Children \subseteq {frame[f].pid}
          /\ frame[f].pc \in {"limit", "fork", "write"} => Children = {}
          /\ frame[f].pc \in {"waitpid", "block"} => frame[f].pid = current \/ Children = {}

\* What current_flush names, or is about to name, is a child, unless that ended
\* too early.
Known ==
    /\ early \/ current \in Children \cup {NoPid}
    /\ \A f \in Frames : frame[f].pc = "assign" => early \/ frame[f].pid \in Children

Inv == Types /\ (~crossed => OneChild /\ Known)

LEMMA InitInv == Init => Inv
<1> SUFFICES ASSUME Init PROVE Inv
  OBVIOUS
<1>1. Children = {}
  BY DEF Init, Children
<1>2. Types
  BY FlushAssumption DEF Init, Types, Idle, Call, Places
<1> QED BY <1>1, <1>2 DEF Init, Inv, OneChild, Known, Idle, Frames

-----------------------------------------------------------------------------
(* Steps that leave the children alone.                                     *)

\* The call f goes on to c, and current_flush stays as it is.
LEMMA MoveInv ==
    ASSUME Inv, NEW f \in Frames, NEW c \in Call, frame' = [frame EXCEPT ![f] = c],
           UNCHANGED <<current, child, crossed, early>>, since' \in 0..Interval,
           f = "loop" => frame["signal"].pc = "idle",
           f = "signal" => frame["signal"].pc # "idle",
           frame[f].pc # "assign", c.pc # "assign",
           ~crossed => /\ c.pc \in {"limit", "fork", "write"} => Children = {}
                       /\ c.pc \in {"waitpid", "block"} => c.pid = current \/ Children = {}
    PROVE  Inv'
<1>1. Types'
  BY DEF Inv, Types
<1>2. Children' = Children
  BY DEF Children
<1>3. /\ frame'[f] = c /\ \A g \in Frames : g # f => frame'[g] = frame[g]
  BY DEF Inv, Types
<1>4. ASSUME ~crossed PROVE OneChild' /\ Known'
  BY <1>2, <1>3, <1>4 DEF Inv, OneChild, Known, Frames
<1> QED BY <1>1, <1>4 DEF Inv

LEMMA CallType == ASSUME Types, NEW f \in Frames PROVE frame[f] \in Call
BY DEF Types

LEMMA DecideInv ==
    ASSUME Inv, NEW f \in Frames, Poll(f) \/ Limit(f) \/ ForkFails(f)
    PROVE  Inv'
<1>1. Types /\ frame[f] \in Call
  BY CallType DEF Inv
<1>2. CASE Poll(f)
  <2>1. PICK c : c = [frame[f] EXCEPT !.pc = IF current = NoPid THEN "limit" ELSE "waitpid",
                                      !.pid = current]
    OBVIOUS
  <2>2. frame' = [frame EXCEPT ![f] = c] /\ frame[f].pc = "poll"
    BY <1>2, <2>1 DEF Poll, At
  <2>3. /\ c \in Call /\ c.pid = current
        /\ c.pc = IF current = NoPid THEN "limit" ELSE "waitpid"
    BY <1>1, <2>1 DEF Types, Call, Places
  <2>4. ~crossed /\ current = NoPid => Children = {}
    <3>1. ASSUME ~crossed PROVE \A g \in Frames : frame[g].pc # "assign"
      BY <1>2, <3>1, <2>2 DEF Inv, OneChild, Frames, Poll, At
    <3>2. NoPid \notin Children
      BY FlushAssumption DEF Children
    <3> QED BY <3>1, <3>2 DEF Inv, OneChild
  <2> QED BY <1>1, <1>2, <2>2, <2>3, <2>4, MoveInv DEF Poll, At, Types
<1>3. CASE Limit(f)
  <2>1. frame[f].pc = "limit" /\ (~crossed => Children = {})
    BY <1>3 DEF Limit, At, Inv, OneChild
  <2>2. Idle \in Call /\ Idle.pc = "idle"
    BY FlushAssumption DEF Idle, Call, Places
  <2>3. PICK c : c = [frame[f] EXCEPT !.pc = "fork", !.age = 0]
    OBVIOUS
  <2>4. c \in Call /\ c.pc = "fork"
    <3>1. 0 \in 0..Interval
      BY FlushAssumption
    <3> QED BY <1>1, <2>3, <3>1 DEF Call, Places
  <2>5. frame' = [frame EXCEPT ![f] = Idle] \/ frame' = [frame EXCEPT ![f] = c]
    BY <1>3, <2>3 DEF Limit, Return
  <2> QED BY <1>1, <1>3, <2>1, <2>2, <2>4, <2>5, MoveInv DEF Limit, At, Types
<1>4. CASE ForkFails(f)
  <2>1. Idle \in Call /\ Idle.pc = "idle"
    BY FlushAssumption DEF Idle, Call, Places
  <2> QED BY <1>1, <1>4, <2>1, MoveInv DEF ForkFails, At, Types, Return
<1> QED BY <1>2, <1>3, <1>4

\* The loop begins or ends something.
LEMMA LoopInv == ASSUME Inv, Gc \/ Close \/ CloseCheck \/ Written PROVE Inv'
<1>1. Types /\ "loop" \in Frames /\ frame["loop"] \in Call
  BY CallType DEF Inv, Frames
<1>2. CASE Gc \/ Close \/ Written
  <2>1. PICK pc \in {"poll", "close", "exited"} :
            frame' = [frame EXCEPT !["loop"] = [frame["loop"] EXCEPT !.pc = pc]]
    BY <1>2 DEF Gc, Close, Written, Go
  <2>2. PICK c : c = [frame["loop"] EXCEPT !.pc = pc]
    OBVIOUS
  <2>3. c \in Call /\ c.pc = pc
    BY <1>1, <2>2 DEF Call, Places
  <2>4. /\ frame["loop"].pc # "assign" /\ frame["signal"].pc = "idle"
        /\ UNCHANGED <<current, child, crossed, early>> /\ since' \in 0..Interval
    BY <1>1, <1>2 DEF Gc, Close, Written, At, Types
  <2> QED BY <1>1, <2>1, <2>2, <2>3, <2>4, MoveInv
<1>3. CASE CloseCheck
  <2>1. PICK c : c = [frame["loop"] EXCEPT !.pc = IF current = NoPid THEN "write" ELSE "block",
                                           !.pid = current]
    OBVIOUS
  <2>2. frame' = [frame EXCEPT !["loop"] = c] /\ frame["loop"].pc = "close"
    BY <1>3, <2>1 DEF CloseCheck, At
  <2>3. /\ c \in Call /\ c.pid = current
        /\ c.pc = IF current = NoPid THEN "write" ELSE "block"
    BY <1>1, <2>1 DEF Types, Call, Places
  <2>4. ~crossed /\ current = NoPid => Children = {}
    <3>1. \A g \in Frames : frame[g].pc # "assign"
      BY <1>3 DEF Frames, CloseCheck, At
    <3>2. NoPid \notin Children
      BY FlushAssumption DEF Children
    <3> QED BY <3>1, <3>2 DEF Inv, OneChild
  <2> QED BY <1>1, <1>3, <2>2, <2>3, <2>4, MoveInv DEF CloseCheck, At, Types
<1> QED BY <1>2, <1>3

\* SIGUSR1: from here on the loop waits, or has been crossed.
LEMMA Sigusr1Inv == ASSUME Inv, Sigusr1 PROVE Inv'
<1>1. /\ frame' = [Interrupted(frame) EXCEPT !["signal"].pc = "poll"]
      /\ UNCHANGED <<current, since, child, early>> /\ Types
      /\ crossed' = (crossed \/ frame["loop"].pc \notin {"idle", "poll", "close"})
      /\ frame["signal"].pc = "idle"
  BY DEF Sigusr1, Inv
<1>2. frame["loop"] \in Call /\ frame["signal"] \in Call
  BY <1>1, CallType DEF Frames
<1>3. /\ frame'["loop"] = [frame["loop"] EXCEPT !.pid = IF frame["loop"].pc = "block" THEN NoPid ELSE @]
      /\ frame'["signal"] = [frame["signal"] EXCEPT !.pc = "poll"]
      /\ frame' \in [Frames -> Call]
  <2>1. [frame["loop"] EXCEPT !.pid = IF frame["loop"].pc = "block" THEN NoPid ELSE @] \in Call
    BY <1>2 DEF Call
  <2>2. [frame["signal"] EXCEPT !.pc = "poll"] \in Call
    BY <1>2 DEF Call, Places
  <2> QED BY <1>1, <2>1, <2>2 DEF Interrupted, Types, Frames
<1>4. Types'
  BY <1>1, <1>3 DEF Types
<1>5. Children' = Children
  BY <1>1 DEF Children
<1>6. ASSUME ~crossed' PROVE OneChild' /\ Known'
  <2>1. ~crossed /\ frame["loop"].pc \in {"idle", "poll", "close"}
    BY <1>1, <1>6
  <2>2. frame'["loop"].pc = frame["loop"].pc /\ frame'["signal"].pc = "poll"
    BY <1>2, <1>3 DEF Call
  <2> QED BY <1>1, <1>5, <2>1, <2>2 DEF Inv, OneChild, Known, Frames
<1> QED BY <1>4, <1>6 DEF Inv

LEMMA TickInv == ASSUME Inv, Tick PROVE Inv'
<1>1. /\ UNCHANGED <<current, child, crossed, early>> /\ Types /\ Children' = Children
      /\ since' \in 0..Interval
  BY FlushAssumption DEF Tick, Inv, Types, Children, Later
<1>2. \A f \in Frames : frame'[f] \in Call /\ frame'[f].pc = frame[f].pc /\ frame'[f].pid = frame[f].pid
  <2> SUFFICES ASSUME NEW f \in Frames
               PROVE  frame'[f] \in Call /\ frame'[f].pc = frame[f].pc /\ frame'[f].pid = frame[f].pid
    OBVIOUS
  <2>1. frame[f] \in Call
    BY <1>1, CallType
  <2>2. Later(frame[f].age) \in 0..Interval
    BY <2>1, FlushAssumption DEF Call, Later
  <2>3. \/ frame'[f] = frame[f]
        \/ frame'[f] = [frame[f] EXCEPT !.age = Later(frame[f].age)]
    BY DEF Tick
  <2> QED BY <2>1, <2>2, <2>3 DEF Call
<1>3. Types'
  <2>1. frame' = [f \in Frames |-> frame'[f]]
    BY DEF Tick
  <2> HIDE DEF Call
  <2> QED BY <1>1, <1>2, <2>1 DEF Types
<1>4. ASSUME ~crossed PROVE OneChild' /\ Known'
  BY <1>1, <1>2, <1>4 DEF Inv, OneChild, Known, Frames
<1> QED BY <1>1, <1>3, <1>4 DEF Inv

-----------------------------------------------------------------------------
(* Children come and go.                                                    *)

LEMMA ForkInv == ASSUME Inv, NEW f \in Frames, Fork(f) PROVE Inv'
<1>1. PICK p \in Pids \ Children :
          /\ child' = [child EXCEPT ![p] = "running"]
          /\ frame' = [frame EXCEPT ![f].pc = "assign", ![f].pid = p]
  BY DEF Fork
<1>2. /\ UNCHANGED <<current, since, crossed, early>> /\ Types
      /\ frame[f].pc = "fork" /\ (f = "loop" => frame["signal"].pc = "idle")
  BY DEF Fork, At, Inv
<1>3. PICK c : c = [frame[f] EXCEPT !.pc = "assign", !.pid = p]
  OBVIOUS
<1>4. c \in Call /\ c.pc = "assign" /\ c.pid = p
  BY <1>2, <1>3, CallType DEF Call, Places
<1>5. frame' = [frame EXCEPT ![f] = c]
  BY <1>1, <1>3
<1>6. Types'
  BY <1>1, <1>2, <1>4, <1>5 DEF Types
<1>7. Children' = Children \cup {p}
  BY <1>1, <1>2 DEF Children, Types
<1>8. frame'[f] = c /\ \A g \in Frames : g # f => frame'[g] = frame[g]
  BY <1>2, <1>5 DEF Types
<1>9. ASSUME ~crossed PROVE OneChild' /\ Known'
  <2>1. Children = {}
    BY <1>2, <1>9 DEF Inv, OneChild
  <2>2. Children' = {p}
    BY <2>1, <1>7
  <2>3. OneChild /\ Known
    BY <1>9 DEF Inv
  <2>4. CASE f = "loop"
    BY <2>2, <2>3, <2>4, <1>2, <1>4, <1>7, <1>8 DEF OneChild, Known, Frames
  <2>5. CASE f = "signal"
    <3>1. frame["loop"].pc \in {"idle", "poll", "close"}
      BY <2>3, <2>5, <1>2 DEF OneChild
    <3> QED BY <2>2, <2>3, <2>5, <3>1, <1>2, <1>4, <1>7, <1>8 DEF OneChild, Known, Frames
  <2> QED BY <2>4, <2>5 DEF Frames
<1> QED BY <1>2, <1>6, <1>9 DEF Inv

LEMMA AssignInv == ASSUME Inv, NEW f \in Frames, Assign(f) PROVE Inv'
<1>1. /\ UNCHANGED <<child, crossed, early>> /\ Types /\ Children' = Children
      /\ frame[f].pc = "assign" /\ (f = "loop" => frame["signal"].pc = "idle")
      /\ frame' = [frame EXCEPT ![f] = Idle] /\ current' = frame[f].pid /\ since' = frame[f].age
  BY DEF Assign, At, Inv, Return, Children
<1>2. Idle \in Call /\ Idle.pc = "idle"
  BY FlushAssumption DEF Idle, Call, Places
<1>3. frame[f].pid \in Pids \cup {NoPid} /\ frame[f].age \in 0..Interval
  BY <1>1, CallType DEF Call
<1>4. Types'
  BY <1>1, <1>2, <1>3 DEF Types
<1>5. frame'[f] = Idle /\ \A g \in Frames : g # f => frame'[g] = frame[g]
  BY <1>1 DEF Types
<1>6. ASSUME ~crossed PROVE OneChild' /\ Known'
  <2>1. OneChild /\ Known
    BY <1>6 DEF Inv
  <2>2. CASE f = "loop"
    BY <2>1, <2>2, <1>1, <1>2, <1>5 DEF OneChild, Known, Frames
  <2>3. CASE f = "signal"
    <3>1. frame["loop"].pc \in {"idle", "poll", "close"}
      BY <2>1, <2>3, <1>1 DEF OneChild
    <3> QED BY <2>1, <2>3, <3>1, <1>1, <1>2, <1>5 DEF OneChild, Known, Frames
  <2> QED BY <2>2, <2>3 DEF Frames
<1> QED BY <1>1, <1>4, <1>6 DEF Inv

LEMMA ChildEndsInv == ASSUME Inv, NEW p \in Pids, ChildEnds(p) PROVE Inv'
<1>1. UNCHANGED <<frame, current, since, crossed, early>> /\ Types
  BY DEF ChildEnds, Inv
<1>2. PICK end \in {"exited", "killed"} : child' = [child EXCEPT ![p] = end]
  BY DEF ChildEnds
<1>3. child[p] = "running"
  BY DEF ChildEnds, Running
<1>4. Types'
  BY <1>1, <1>2 DEF Types
<1>5. Children' = Children
  BY <1>1, <1>2, <1>3 DEF Children, Types
<1> QED BY <1>1, <1>4, <1>5 DEF Inv, OneChild, Known

LEMMA SigchldInv == ASSUME Inv, Sigchld PROVE Inv'
<1>1. /\ child' = [p \in Pids |-> IF p \in Zombies THEN "none" ELSE child[p]]
      /\ current' = (IF current \in Zombies THEN NoPid ELSE current)
      /\ early' = (early \/ \E f \in Frames : frame[f].pc = "assign" /\ frame[f].pid \in Zombies)
      /\ frame' = Interrupted(frame) /\ UNCHANGED <<since, crossed>> /\ Types /\ Zombies # {}
  BY DEF Sigchld, Inv
<1>2. frame["loop"] \in Call /\ frame["signal"] \in Call
  BY <1>1, CallType DEF Frames
<1>3. /\ frame'["loop"] = [frame["loop"] EXCEPT !.pid = IF frame["loop"].pc = "block" THEN NoPid ELSE @]
      /\ frame'["signal"] = frame["signal"]
      /\ frame' \in [Frames -> Call]
  <2>1. [frame["loop"] EXCEPT !.pid = IF frame["loop"].pc = "block" THEN NoPid ELSE @] \in Call
    BY <1>2 DEF Call
  <2> QED BY <1>1, <2>1 DEF Interrupted, Types, Frames
<1>4. Types'
  BY <1>1, <1>3 DEF Types
<1>5. Children' = Children \ Zombies /\ Zombies \subseteq Children
  BY <1>1 DEF Children, Zombies, Types
<1>6. /\ \A f \in Frames : frame'[f].pc = frame[f].pc
      /\ \A f \in Frames : frame[f].pc # "block" => frame'[f].pid = frame[f].pid
  BY <1>2, <1>3 DEF Call, Frames
<1>7. ASSUME ~crossed PROVE OneChild' /\ Known'
  <2>1. OneChild /\ Known
    BY <1>7 DEF Inv
  <2>2. Children' = {}
    <3>1. CASE \A f \in Frames : frame[f].pc # "assign"
      BY <3>1, <2>1, <1>1, <1>5 DEF OneChild
    <3>2. ASSUME NEW f \in Frames, frame[f].pc = "assign" PROVE Children' = {}
      BY <3>2, <2>1, <1>1, <1>5 DEF OneChild
    <3> QED BY <3>1, <3>2
  <2>3. OneChild'
    BY <2>1, <2>2, <1>6 DEF OneChild, Frames
  <2>4. Known'
    <3>1. ASSUME ~early' PROVE current' = NoPid
      <4>1. ~early /\ current \in Children \cup {NoPid}
        BY <3>1, <1>1, <2>1 DEF Known
      <4>2. current \in Zombies \/ current = NoPid
        BY <4>1, <2>2, <1>5
      <4> QED BY <4>2, <1>1
    <3>2. ASSUME NEW f \in Frames, frame[f].pc = "assign" PROVE early'
      <4>1. early \/ frame[f].pid \in Zombies
        BY <3>2, <2>1, <2>2, <1>5 DEF Known
      <4> QED BY <3>2, <4>1, <1>1
    <3> QED BY <3>1, <3>2, <1>6 DEF Known
  <2> QED BY <2>3, <2>4
<1> QED BY <1>1, <1>4, <1>7 DEF Inv

\* What waitpid takes away, and when currently_flushing lets the caller go on:
\* never with a child that was asked for and is running.
LEMMA WaitedFacts ==
    ASSUME Types, NEW p, NEW flushing \in Waited(p).flushing,
           child' = [q \in Pids |-> IF q \in Waited(p).reaped THEN "none" ELSE child[q]]
    PROVE  /\ Children' = Children \ Waited(p).reaped
           /\ child' \in [Pids -> {"none", "running", "exited", "killed"}]
           /\ Waited(p).reaped \subseteq {p}
           /\ ~flushing => p \notin Children'
<1>1. Children' = Children \ Waited(p).reaped
  BY DEF Children, Types
<1>2. child' \in [Pids -> {"none", "running", "exited", "killed"}]
  BY DEF Types
<1>3. CASE p \in Zombies
  <2>0. p \notin Running
    BY <1>3 DEF Zombies
  <2>1. Waited(p).reaped = {p}
    BY <1>3, <2>0 DEF Waited
  <2> QED BY <1>1, <1>2, <2>1
<1>4. CASE p \in Running
  BY <1>1, <1>2, <1>4 DEF Waited, Zombies
<1>5. CASE p \notin Zombies /\ p \notin Running
  <2>1. p \notin Children
    BY <1>5 DEF Zombies
  <2> QED BY <1>1, <1>2, <1>5, <2>1 DEF Waited
<1> QED BY <1>3, <1>4, <1>5

LEMMA WaitPidInv == ASSUME Inv, NEW f \in Frames, WaitPid(f) PROVE Inv'
<1>1. /\ UNCHANGED <<since, crossed>> /\ Types
      /\ frame[f].pc = "waitpid" /\ (f = "loop" => frame["signal"].pc = "idle")
  BY DEF WaitPid, At, Inv
<1>2. PICK p \in {frame[f].pid} \cup (IF current = NoPid THEN Children ELSE {current}) :
        /\ child' = [q \in Pids |-> IF q \in Waited(p).reaped THEN "none" ELSE child[q]]
        /\ \E flushing \in Waited(p).flushing :
              IF flushing
              THEN Return(f) /\ UNCHANGED current /\ early' = (early \/ Waited(p).reaped # {})
              ELSE Go(f, "limit") /\ current' = NoPid /\ UNCHANGED early
  BY DEF WaitPid
<1>3. PICK flushing \in Waited(p).flushing :
              IF flushing
              THEN Return(f) /\ UNCHANGED current /\ early' = (early \/ Waited(p).reaped # {})
              ELSE Go(f, "limit") /\ current' = NoPid /\ UNCHANGED early
  BY <1>2
<1>4. /\ Children' = Children \ Waited(p).reaped
      /\ child' \in [Pids -> {"none", "running", "exited", "killed"}]
      /\ Waited(p).reaped \subseteq {p}
      /\ ~flushing => p \notin Children'
  BY <1>1, <1>2, WaitedFacts
<1>5. PICK c : c = IF flushing THEN Idle ELSE [frame[f] EXCEPT !.pc = "limit"]
  OBVIOUS
<1>6. c \in Call /\ c.pc = IF flushing THEN "idle" ELSE "limit"
  <2>1. Idle \in Call /\ Idle.pc = "idle"
    BY FlushAssumption DEF Idle, Call, Places
  <2>2. [frame[f] EXCEPT !.pc = "limit"] \in Call /\ [frame[f] EXCEPT !.pc = "limit"].pc = "limit"
    BY <1>1, CallType DEF Call, Places
  <2> QED BY <1>5, <2>1, <2>2
<1>7. frame' = [frame EXCEPT ![f] = c]
  BY <1>3, <1>5 DEF Return, Go
<1>8. frame'[f] = c /\ \A g \in Frames : g # f => frame'[g] = frame[g]
  BY <1>1, <1>7 DEF Types
<1>9. current' = IF flushing THEN current ELSE NoPid
  BY <1>3
<1>10. Types'
  BY <1>1, <1>4, <1>6, <1>7, <1>9 DEF Types
<1>11. ASSUME ~crossed PROVE OneChild' /\ Known'
  <2>1. OneChild /\ Known
    BY <1>11 DEF Inv
  <2>2. \A g \in Frames : g # f => frame[g].pc \in {"idle", "poll", "close"}
    BY <2>1, <1>1 DEF OneChild, Frames
  <2>3. Children \subseteq {current} /\ (frame[f].pid = current \/ Children = {})
    BY <2>1, <2>2, <1>1 DEF OneChild
  <2>4. ~flushing => Children' = {}
    <3>1. NoPid \notin Children
      BY FlushAssumption DEF Children
    <3> QED BY <2>3, <3>1, <1>2, <1>4
  <2>5. OneChild'
    BY <2>2, <2>3, <2>4, <1>1, <1>4, <1>6, <1>8, <1>9 DEF OneChild, Frames
  <2>6. early' \/ current' \in Children' \cup {NoPid}
    <3>1. CASE flushing
      BY <3>1, <2>1, <1>3, <1>4 DEF Known
    <3>2. CASE ~flushing
      BY <3>2, <1>9
    <3> QED BY <3>1, <3>2
  <2>7. \A g \in Frames : frame'[g].pc # "assign"
    BY <2>2, <1>6, <1>8
  <2> QED BY <2>5, <2>6, <2>7 DEF Known
<1> QED BY <1>1, <1>10, <1>11 DEF Inv

LEMMA CloseWaitedInv == ASSUME Inv, CloseWaited PROVE Inv'
<1> DEFINE p == frame["loop"].pid
<1>1. /\ UNCHANGED <<since, crossed>> /\ Types /\ "loop" \in Frames
      /\ frame["loop"].pc = "block" /\ frame["signal"].pc = "idle" /\ p \notin Running
      /\ child' = [q \in Pids |-> IF q \in Waited(p).reaped THEN "none" ELSE child[q]]
      /\ early' = (early \/ (Waited(p).reaped # {} /\ current' # NoPid))
      /\ frame' = [frame EXCEPT !["loop"].pc = "write"]
  BY DEF CloseWaited, At, Inv, Go, Frames
<1>2. PICK flushing \in Waited(p).flushing : current' = IF flushing THEN current ELSE NoPid
  BY DEF CloseWaited
<1>3. /\ Children' = Children \ Waited(p).reaped
      /\ child' \in [Pids -> {"none", "running", "exited", "killed"}]
  BY <1>1, <1>2, WaitedFacts
<1>4. p \notin Children'
  BY <1>1, <1>3 DEF Waited, Zombies
<1>5. PICK c : c = [frame["loop"] EXCEPT !.pc = "write"]
  OBVIOUS
<1>6. c \in Call /\ c.pc = "write" /\ frame' = [frame EXCEPT !["loop"] = c]
  BY <1>1, <1>5, CallType DEF Call, Places
<1>7. frame'["loop"] = c /\ frame'["signal"] = frame["signal"]
  BY <1>1, <1>6 DEF Types, Frames
<1>8. Types'
  BY <1>1, <1>2, <1>3, <1>6 DEF Types
<1>9. ASSUME ~crossed PROVE OneChild' /\ Known'
  <2>1. OneChild /\ Known
    BY <1>9 DEF Inv
  <2>2. Children \subseteq {current} /\ (p = current \/ Children = {})
    BY <2>1, <1>1 DEF OneChild, Frames
  <2>3. Children' = {}
    BY <2>2, <1>3, <1>4
  <2>4. OneChild'
    BY <2>3, <1>1, <1>6, <1>7 DEF OneChild, Frames
  <2>5. early' \/ current' \in Children' \cup {NoPid}
    BY <2>1, <1>1, <1>2, <1>3 DEF Known
  <2> QED BY <2>4, <2>5, <1>1, <1>6, <1>7 DEF Known, Frames
<1> QED BY <1>1, <1>8, <1>9 DEF Inv

LEMMA StepInv == Inv /\ [Next]_vars => Inv'
<1> SUFFICES ASSUME Inv, [Next]_vars PROVE Inv'
  OBVIOUS
<1>1. CASE UNCHANGED vars
  <2>1. Children' = Children
    BY <1>1 DEF vars, Children
  <2> QED BY <1>1, <2>1 DEF vars, Inv, Types, OneChild, Known
<1>2. CASE \E f \in Frames : Step(f)
  BY <1>2, DecideInv, WaitPidInv, ForkInv, AssignInv DEF Step
<1>3. CASE Gc \/ Close \/ CloseCheck \/ Written
  BY <1>3, LoopInv
<1>4. CASE Sigusr1 \/ Sigchld \/ Tick \/ CloseWaited
  BY <1>4, Sigusr1Inv, SigchldInv, TickInv, CloseWaitedInv
<1>5. CASE \E p \in Pids : ChildEnds(p)
  BY <1>5, ChildEndsInv
<1> QED BY <1>1, <1>2, <1>3, <1>4, <1>5 DEF Next

LEMMA InvHolds == Spec => []Inv
BY InitInv, StepInv, PTL DEF Spec

-----------------------------------------------------------------------------
(* The theorems.                                                            *)

\* For any number of processes, two never write index.temp at once unless
\* SIGUSR1 arrives while db_lru_gc or db_close is deciding.
THEOREM WriterCorrect == Spec => []OneWriter
<1>1. Inv => OneWriter
  <2> SUFFICES ASSUME Inv, ~crossed PROVE Cardinality(Writers) <= 1
    BY DEF OneWriter
  <2>1. Running \subseteq Children /\ OneChild
    BY DEF Running, Children, Inv
  <2>2. \E x : Writers \subseteq {x}
    <3>1. CASE frame["loop"].pc = "write"
      <4>1. Running = {}
        BY <3>1, <2>1 DEF OneChild, Frames
      <4> QED BY <3>1, <4>1 DEF Writers
    <3>2. CASE frame["loop"].pc # "write"
      <4>1. \E x : Running \subseteq {x}
        BY <2>1 DEF OneChild
      <4> QED BY <3>2, <4>1 DEF Writers
    <3> QED BY <3>1, <3>2
  <2>3. PICK x : Writers \subseteq {x}
    BY <2>2
  <2>4. IsFiniteSet({x}) /\ Cardinality({x}) = 1
    BY FS_Singleton
  <2>5. Cardinality(Writers) <= Cardinality({x})
    BY <2>3, <2>4, FS_Subset
  <2> QED BY <2>4, <2>5
<1> QED BY <1>1, InvHolds, PTL

\* current_flush names a process that is not a child only after one of the two
\* early ends, for any number of processes.
THEOREM StaleCorrect == Spec => []StaleOnlyEarly
<1>1. Inv => StaleOnlyEarly
  BY DEF Inv, Known, StaleOnlyEarly, Stale
<1> QED BY <1>1, InvHolds, PTL
=============================================================================
