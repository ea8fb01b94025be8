------------------------------- MODULE Flush -------------------------------
(***************************************************************************)
(* Who writes the index, and when (db.cpp: db_lru_gc, currently_flushing,  *)
(* db_handle_sigchld, db_close; timer.cpp: the signal handlers).           *)
(*                                                                         *)
(* db_lru_gc ends by forking a child that writes index.temp and renames it *)
(* to index.save, unless a child is still writing or the last fork is too  *)
(* recent.  It is called by the event loop and, from the SIGUSR1 handler,  *)
(* in the middle of anything the loop does; the SIGCHLD handler interrupts *)
(* both.  BlockStore models what a child writes, and assumes that there is *)
(* one at a time; this module shows when that holds.                       *)
(***************************************************************************)
EXTENDS Naturals, FiniteSets

CONSTANTS Pids,      \* process ids, free to be used again once reaped
          Interval   \* DB_FLUSH_MIN_INTERVAL_MS, in ticks of the clock

NoPid  == "none"
Frames == {"loop", "signal"}

ASSUME FlushAssumption == NoPid \notin Pids /\ IsFiniteSet(Pids) /\ Interval \in Nat \ {0}

VARIABLES
    frame,    \* the calls of db_lru_gc and db_close: place, pid and age of now_ms
    current,  \* current_flush
    pending,  \* flush_pending
    since,    \* ticks since last_flush_ms, Interval when the limit is over
    child,    \* the state of every process id
    crossed,  \* SIGUSR1 came while the loop was deciding about a flush
    early     \* a child was reaped before or without its pid being cleared

vars == <<frame, current, pending, since, child, crossed, early>>

Idle     == [pc |-> "idle", pid |-> NoPid, age |-> 0]
Children == {p \in Pids : child[p] # "none"}
Running  == {p \in Pids : child[p] = "running"}
Zombies  == Children \ Running

Init ==
    /\ frame = [f \in Frames |-> Idle]
    /\ current = NoPid /\ pending = FALSE /\ since = Interval
    /\ child = [p \in Pids |-> "none"]
    /\ crossed = FALSE /\ early = FALSE

At(f, pc)  == frame[f].pc = pc /\ (f = "loop" => frame["signal"].pc = "idle")
Go(f, pc)  == frame' = [frame EXCEPT ![f].pc = pc]
Return(f)  == frame' = [frame EXCEPT ![f] = Idle]
\* A handler has run: a blocking waitpid returns -1.
Interrupted(fs) == [fs EXCEPT !["loop"].pid = IF fs["loop"].pc = "block" THEN NoPid ELSE @]
Closing    == frame["loop"].pc \in {"close", "block", "write", "exited"}

-----------------------------------------------------------------------------
(* db_lru_gc.                                                               *)

\* The loop has inserted an entry, or got an ADMIN request; the eviction that
\* comes first is CacheDb's.
Gc ==
    /\ At("loop", "idle") /\ Go("loop", "poll")
    /\ UNCHANGED <<current, pending, since, child, crossed, early>>

\* flush_handler.  The signal is blocked while its own handler runs.
Sigusr1 ==
    /\ frame["signal"].pc = "idle" /\ frame["loop"].pc # "exited"
    /\ frame' = [Interrupted(frame) EXCEPT !["signal"].pc = "poll"]
    /\ crossed' = (crossed \/ frame["loop"].pc \notin {"idle", "poll", "close"})
    /\ UNCHANGED <<current, pending, since, child, early>>

\* currently_flushing: no flush is known, or its pid is loaded.
Poll(f) ==
    /\ At(f, "poll")
    /\ frame' = [frame EXCEPT ![f].pc = IF current = NoPid THEN "limit" ELSE "waitpid",
                              ![f].pid = current]
    /\ UNCHANGED <<current, pending, since, child, crossed, early>>

\* Mutant: any answer of waitpid means that no child writes.
Waited_any(p) ==
    IF p \in Zombies THEN [reaped |-> {p}, flushing |-> {FALSE}]
    ELSE [reaped |-> {}, flushing |-> {FALSE}]

\* What waitpid returns for p, as currently_flushing reads it: the test for -1
\* comes after one that -1 already passes, with a status nobody has set; and
\* a child that was killed has not exited.
Waited(p) ==
    CASE p \in Zombies  -> [reaped |-> {p}, flushing |-> {child[p] = "killed"}]
      [] p \in Running  -> [reaped |-> {}, flushing |-> {TRUE}]
      [] OTHER          -> [reaped |-> {}, flushing |-> BOOLEAN]

\* waitpid with WNOHANG.  current_flush may be loaded again for the call; if
\* the SIGCHLD handler has cleared it, 0 stands for any child.
WaitPid(f) ==
    /\ At(f, "waitpid")
    /\ \E p \in {frame[f].pid} \cup (IF current = NoPid THEN Children ELSE {current}) :
          LET w == Waited(p)
          IN  /\ child' = [q \in Pids |-> IF q \in w.reaped THEN "none" ELSE child[q]]
              /\ \E flushing \in w.flushing :
                    IF flushing
                    THEN /\ Return(f) /\ UNCHANGED current
                         /\ early' = (early \/ w.reaped # {})
                    ELSE Go(f, "limit") /\ current' = NoPid /\ UNCHANGED early
    /\ UNCHANGED <<pending, since, crossed>>

\* Mutant: a call that is put off starts the interval anew.
Limit_restart(f) ==
    /\ At(f, "limit")
    /\ IF since < Interval THEN pending' = TRUE /\ since' = 0 /\ Return(f)
       ELSE pending' = FALSE /\ UNCHANGED since
            /\ frame' = [frame EXCEPT ![f].pc = "fork", ![f].age = 0]
    /\ UNCHANGED <<current, child, crossed, early>>

\* The rate limit; a signal between the clock and the comparison has the
\* effect of one before or after both.
Limit(f) ==
    /\ At(f, "limit")
    /\ IF since < Interval THEN pending' = TRUE /\ Return(f)
       ELSE pending' = FALSE /\ frame' = [frame EXCEPT ![f].pc = "fork", ![f].age = 0]
    /\ UNCHANGED <<current, since, child, crossed, early>>

\* db_index_flush forks.
Fork(f) ==
    /\ At(f, "fork")
    /\ \E p \in Pids \ Children :
          /\ child' = [child EXCEPT ![p] = "running"]
          /\ frame' = [frame EXCEPT ![f].pc = "assign", ![f].pid = p]
    /\ UNCHANGED <<current, pending, since, crossed, early>>

\* fork returns -1; the flush is no longer pending, but nothing limits the next.
ForkFails(f) ==
    /\ At(f, "fork") /\ Return(f)
    /\ UNCHANGED <<current, pending, since, child, crossed, early>>

\* current_flush = pid; last_flush_ms = now_ms.
Assign(f) ==
    /\ At(f, "assign") /\ Return(f)
    /\ current' = frame[f].pid /\ since' = frame[f].age
    /\ UNCHANGED <<pending, child, crossed, early>>

-----------------------------------------------------------------------------
(* db_close.                                                                *)

\* The loop has stopped, and the timer with it.
Close ==
    /\ At("loop", "idle") /\ Go("loop", "close")
    /\ UNCHANGED <<current, pending, since, child, crossed, early>>

CloseCheck ==
    /\ At("loop", "close")
    /\ frame' = [frame EXCEPT !["loop"].pc = IF current = NoPid THEN "write" ELSE "block",
                              !["loop"].pid = current]
    /\ UNCHANGED <<current, pending, since, child, crossed, early>>

\* Mutant: only the status of the child ends the wait.
CloseWaited_status ==
    /\ At("loop", "block") /\ frame["loop"].pid \in Zombies
    /\ child' = [child EXCEPT ![frame["loop"].pid] = "none"] /\ current' = NoPid
    /\ Go("loop", "write")
    /\ UNCHANGED <<pending, since, crossed, early>>

\* waitpid without WNOHANG: it waits for the child, or until a signal has been
\* handled.  What currently_flushing returns is not used.
CloseWaited ==
    /\ At("loop", "block")
    /\ frame["loop"].pid \notin Running
    /\ LET w == Waited(frame["loop"].pid)
       IN  /\ child' = [q \in Pids |-> IF q \in w.reaped THEN "none" ELSE child[q]]
           /\ \E flushing \in w.flushing : current' = IF flushing THEN current ELSE NoPid
           /\ early' = (early \/ (w.reaped # {} /\ current' # NoPid))
    /\ Go("loop", "write")
    /\ UNCHANGED <<pending, since, crossed>>

\* db_index_flush(false): the server has written the index itself, and exits.
Written ==
    /\ At("loop", "write") /\ Go("loop", "exited")
    /\ UNCHANGED <<current, pending, since, child, crossed, early>>

-----------------------------------------------------------------------------
(* Children, signals and the clock.                                         *)

\* A child has written the index, or could not; or it was killed.
ChildEnds(p) ==
    /\ p \in Running
    /\ \E end \in {"exited", "killed"} : child' = [child EXCEPT ![p] = end]
    /\ UNCHANGED <<frame, current, pending, since, crossed, early>>

\* Mutant: the flush that ended is not cleared.
Sigchld_keep ==
    /\ Zombies # {}
    /\ child' = [p \in Pids |-> IF p \in Zombies THEN "none" ELSE child[p]]
    /\ UNCHANGED <<frame, current, pending, since, crossed, early>>

\* child_handler: every child that ended is reaped, db_handle_sigchld clears
\* the current one.
Sigchld ==
    /\ Zombies # {}
    /\ child' = [p \in Pids |-> IF p \in Zombies THEN "none" ELSE child[p]]
    /\ current' = IF current \in Zombies THEN NoPid ELSE current
    /\ early' = (early \/ \E f \in Frames : frame[f].pc = "assign" /\ frame[f].pid \in Zombies)
    /\ frame' = Interrupted(frame)
    /\ UNCHANGED <<pending, since, crossed>>

Later(n) == IF n = Interval THEN n ELSE n + 1

Tick ==
    /\ since' = Later(since)
    /\ frame' = [f \in Frames |-> IF frame[f].pc \in {"fork", "assign"}
                                  THEN [frame[f] EXCEPT !.age = Later(@)] ELSE frame[f]]
    /\ UNCHANGED <<current, pending, child, crossed, early>>

-----------------------------------------------------------------------------
Step(f) == Poll(f) \/ WaitPid(f) \/ Limit(f) \/ Fork(f) \/ ForkFails(f) \/ Assign(f)

Next ==
    \/ \E f \in Frames : Step(f)
    \/ Gc \/ Sigusr1 \/ Sigchld \/ Tick
    \/ Close \/ CloseCheck \/ CloseWaited \/ Written
    \/ \E p \in Pids : ChildEnds(p)

Spec ==
    /\ Init /\ [][Next]_vars
    /\ SF_vars(Step("loop")) /\ WF_vars(Step("signal"))
    /\ SF_vars(Gc) /\ WF_vars(Tick) /\ WF_vars(Sigchld)
    /\ SF_vars(CloseCheck \/ CloseWaited \/ Written)
    /\ \A p \in Pids : WF_vars(ChildEnds(p))

-----------------------------------------------------------------------------
(* Properties.                                                              *)

Writers == Running \cup (IF frame["loop"].pc = "write" THEN {"server"} ELSE {})

\* Unless SIGUSR1 comes while the loop decides about a flush, at most one
\* process writes index.temp: the children of db_lru_gc one after the other,
\* and db_close after the last of them.
OneWriter == ~crossed => Cardinality(Writers) <= 1

Stale == current \notin Children \cup {NoPid}

\* current_flush names a process that no longer is a child only when the child
\* ended before its pid was stored, or was reaped as killed.
StaleOnlyEarly == ~crossed /\ Stale => early

\* A flush that was put off by the rate limit is made once the interval is
\* over, as db_lru_gc says, unless the pid has become stale: then
\* currently_flushing may say for ever that a child is writing.
Flushes == pending ~> (~pending \/ Stale \/ Closing)

\* When the server is stopped it does not wait for ever.
Halts == Closing ~> frame["loop"].pc = "exited"
=============================================================================
