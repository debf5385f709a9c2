---------------------------- MODULE BackgroundJobs ----------------------------
(***************************************************************************)
(* The background job registry (runtime.py, class BackgroundJobRegistry)   *)
(* between the requests that ask for a job and the io executor that runs   *)
(* it.  A key is (project, kind, dedupe key).  Every request of a key asks *)
(* to bring something up to date with a source that keeps changing: the    *)
(* index with the working tree (context.py,                                *)
(* _enqueue_background_index_refresh), and so on.                          *)
(*                                                                         *)
(* The registry's lock makes submit, and each of the updates of _run, one  *)
(* step.  A future is done only after _run has returned, which is a step   *)
(* later than the update that records the outcome.  The reporting counters *)
(* and time strings are left out.                                          *)
(***************************************************************************)
EXTENDS Integers, Sequences, FiniteSets

CONSTANTS Keys,        \* (project, kind, dedupe key)
          Tasks,       \* futures; one per key and one spare are enough
          NoTask,      \* a key that was never submitted
          Workers,     \* threads of the io executor
          Interval,    \* min_interval_seconds of each key, in ticks
          MaxEdits,    \* bound on changes of the source
          MaxFaults    \* bound on raised jobs, clock steps back and restarts

ASSUME JobsAssumption ==
    /\ Keys # {} /\ NoTask \notin Tasks
    /\ Workers \in Nat \ {0}
    /\ Interval \in [Keys -> Nat]
    /\ MaxEdits \in Nat /\ MaxFaults \in Nat

VARIABLES jobs,     \* _jobs: the latest future of each key
          state,    \* _state: status, and the age of last_started_monotonic
          task,     \* the futures, and how far _run is in each
          queue,    \* futures the executor has not started
          source,   \* what the jobs read, as a version number
          served,   \* the version each key's work has brought up to date
          asked,    \* the version there was when a key's last job was accepted
          faults

vars == <<jobs, state, task, queue, source, served, asked, faults>>

Phase == {"unused", "queued", "picked", "working", "computed", "returned",
          "raised", "settling", "broken", "ok", "failed"}
Status == {"none", "queued", "running", "complete", "failed"}

NoState == [status |-> "none", started |-> FALSE, age |-> 0]
Unused(k) == [key |-> k, pc |-> "unused", seen |-> 0]
AnyKey == CHOOSE k \in Keys : TRUE

-----------------------------------------------------------------------------
(* Submission.                                                             *)

Done(t) == task[t].pc \in {"unused", "ok", "failed"}

\* future.done() is false; IsRunning is the slip of asking future.running().
IsRunning(t) == t # NoTask /\ ~Done(t) /\ task[t].pc # "queued"
Unfinished(t) == t # NoTask /\ ~Done(t)

\* now - last_started < min_interval_seconds, on the wall clock: a clock that
\* was set back makes the age negative.
Throttled(k) ==
    Interval[k] > 0 /\ state[k].started /\ state[k].age < Interval[k]

\* A refused request leaves the state as it was.  SlidingWindow is the slip of
\* counting the interval from the last request, StatusKept of storing the answer.
SlidingWindow(k) == [state[k] EXCEPT !.age = 0]
StatusKept(k) == [state[k] EXCEPT !.status = "throttled"]
StateAfterRefusal(k) == state[k]

Refuse(k) ==
    /\ ~Unfinished(jobs[k]) /\ Throttled(k)
    /\ state' = [state EXCEPT ![k] = StateAfterRefusal(k)]
    /\ UNCHANGED <<jobs, task, queue, source, served, asked, faults>>

\* A key with an unfinished future gets no second one; the request is counted
\* as deduplicated and nothing else changes.
Deduplicate(k) ==
    /\ Unfinished(jobs[k])
    /\ UNCHANGED vars

Spare == {t \in Tasks : task[t].pc = "unused"}

Accept(k) ==
    /\ ~Unfinished(jobs[k]) /\ ~Throttled(k)
    /\ Spare # {}
    /\ LET t == CHOOSE u \in Spare : TRUE IN
         /\ jobs' = [jobs EXCEPT ![k] = t]
         /\ task' = [u \in Tasks |->
                IF u = t THEN [key |-> k, pc |-> "queued", seen |-> 0]
                ELSE IF u = jobs[k] /\ task[u].pc \in {"ok", "failed"} THEN Unused(k)
                ELSE task[u]]
         /\ queue' = Append(queue, t)
    /\ state' = [state EXCEPT ![k] = [status |-> "queued", started |-> TRUE, age |-> 0]]
    /\ asked' = [asked EXCEPT ![k] = source]
    /\ UNCHANGED <<source, served, faults>>

Submit(k) == Accept(k) \/ Deduplicate(k) \/ Refuse(k)

-----------------------------------------------------------------------------
(* The executor and _run.                                                  *)

Advance(t, pc) == task' = [task EXCEPT ![t].pc = pc]
SetStatus(t, status) == state' = [state EXCEPT ![task[t].key].status = status]

Busy == {t \in Tasks : ~Done(t) /\ task[t].pc # "queued"}

\* A free worker takes the oldest future.
Pick(t) ==
    /\ queue # <<>> /\ t = Head(queue)
    /\ Cardinality(Busy) < Workers
    /\ queue' = Tail(queue)
    /\ Advance(t, "picked")
    /\ UNCHANGED <<jobs, state, source, served, asked, faults>>

\* _run announces itself under the lock.
Announce(t) ==
    /\ task[t].pc = "picked"
    /\ Advance(t, "working") /\ SetStatus(t, "running")
    /\ UNCHANGED <<jobs, queue, source, served, asked, faults>>

\* What a run sees of the source it sees while it runs; SeenAtSubmit is the slip
\* of closing over a value read when the job was submitted.
SeenAtSubmit(t) == served[task[t].key]
Seen(t) == source

ReadSource(t) ==
    /\ task[t].pc = "working"
    /\ task' = [task EXCEPT ![t].pc = "computed", ![t].seen = Seen(t)]
    /\ UNCHANGED <<jobs, state, queue, source, served, asked, faults>>

Return(t) ==
    /\ task[t].pc = "computed"
    /\ served' = [served EXCEPT ![task[t].key] = task[t].seen]
    /\ Advance(t, "returned")
    /\ UNCHANGED <<jobs, state, queue, source, asked, faults>>

Raise(t) ==
    /\ faults < MaxFaults
    /\ task[t].pc \in {"working", "computed"}
    /\ faults' = faults + 1
    /\ Advance(t, "raised")
    /\ UNCHANGED <<jobs, state, queue, source, served, asked>>

\* The outcome is recorded under the lock while the future is still not done.
Record(t) ==
    /\ \/ task[t].pc = "returned" /\ Advance(t, "settling") /\ SetStatus(t, "complete")
       \/ task[t].pc = "raised" /\ Advance(t, "broken") /\ SetStatus(t, "failed")
    /\ UNCHANGED <<jobs, queue, source, served, asked, faults>>

\* _run has returned, or raised out: the future is done.
Settle(t) ==
    /\ task[t].pc \in {"settling", "broken"}
    /\ Advance(t, IF jobs[task[t].key] # t THEN "unused"
                  ELSE IF task[t].pc = "settling" THEN "ok" ELSE "failed")
    /\ UNCHANGED <<jobs, state, queue, source, served, asked, faults>>

RunStep(t) ==
    Pick(t) \/ Announce(t) \/ ReadSource(t) \/ Return(t) \/ Record(t) \/ Settle(t)

-----------------------------------------------------------------------------
(* Time and the outside.                                                   *)

MaxAge(k) == Interval[k] + MaxFaults

Tick ==
    /\ state' = [k \in Keys |-> IF state[k].started /\ state[k].age < MaxAge(k)
                                THEN [state[k] EXCEPT !.age = @ + 1] ELSE state[k]]
    /\ UNCHANGED <<jobs, task, queue, source, served, asked, faults>>

\* time.time() is set back by one tick.
ClockBack ==
    /\ faults < MaxFaults
    /\ faults' = faults + 1
    /\ state' = [k \in Keys |-> IF state[k].started
                                THEN [state[k] EXCEPT !.age = @ - 1] ELSE state[k]]
    /\ UNCHANGED <<jobs, task, queue, source, served, asked>>

Edit ==
    /\ source < MaxEdits
    /\ source' = source + 1
    /\ UNCHANGED <<jobs, state, task, queue, served, asked, faults>>

\* The process restarts: the registry and the executor's queue are memory, what
\* a run has brought up to date is on disk.
Restart ==
    /\ faults < MaxFaults
    /\ faults' = faults + 1
    /\ jobs' = [k \in Keys |-> NoTask]
    /\ state' = [k \in Keys |-> NoState]
    /\ task' = [t \in Tasks |-> Unused(AnyKey)]
    /\ queue' = <<>>
    /\ UNCHANGED <<source, served, asked>>

-----------------------------------------------------------------------------
Init ==
    /\ jobs = [k \in Keys |-> NoTask]
    /\ state = [k \in Keys |-> NoState]
    /\ task = [t \in Tasks |-> Unused(AnyKey)]
    /\ queue = <<>>
    /\ source = 0
    /\ served = [k \in Keys |-> 0]
    /\ asked = [k \in Keys |-> 0]
    /\ faults = 0

Next ==
    \/ \E k \in Keys : Submit(k)
    \/ \E t \in Tasks : RunStep(t) \/ Raise(t)
    \/ Tick \/ ClockBack \/ Edit \/ Restart

\* The pool's threads run, the work they run returns or raises, time passes; and
\* requests keep coming, for nothing but a request starts a job.
Fairness ==
    /\ \A t \in Tasks : WF_vars(RunStep(t))
    /\ WF_vars(Tick)
    /\ \A k \in Keys : WF_vars(Submit(k))

Spec == Init /\ [][Next]_vars
FairSpec == Spec /\ Fairness

-----------------------------------------------------------------------------
(* Properties.                                                             *)

\* Every variable holds a value of its type.
TypeOK ==
    /\ jobs \in [Keys -> Tasks \cup {NoTask}]
    /\ state \in [Keys -> [status: Status, started: BOOLEAN, age: Int]]
    /\ task \in [Tasks -> [key: Keys, pc: Phase, seen: Nat]]
    /\ queue \in Seq(Tasks)
    /\ source \in Nat /\ faults \in Nat
    /\ served \in [Keys -> Nat]
    /\ asked \in [Keys -> Nat]

\* Whatever requests, runs, clock steps and restarts interleave, a key never has
\* two unfinished futures: two refreshes of one index never run at once, and none
\* waits behind another of its own key (runtime.py, submit's done() check).
OneFuturePerKey ==
    \A t, u \in Tasks :
        ~Done(t) /\ ~Done(u) /\ task[t].key = task[u].key => t = u

\* _public_job.
Pending(k) == jobs[k] # NoTask /\ ~Done(jobs[k])
PublicStatus(k) ==
    IF jobs[k] # NoTask /\ task[jobs[k]].pc = "failed" THEN "failed"
    ELSE state[k].status

\* A key that is reported as not pending is reported with the outcome of its
\* latest future, and "complete" only when everything that had changed before
\* that future was accepted has been served.
ReportIsHonest ==
    \A k \in Keys : jobs[k] # NoTask /\ ~Pending(k) =>
        /\ PublicStatus(k) \in {"complete", "failed"}
        /\ state[k].status = PublicStatus(k)
        /\ PublicStatus(k) = "complete" => served[k] >= asked[k]

\* As long as requests keep coming, the changes made while a run was under way,
\* during a throttled interval, or before a failed run or a restart are served
\* in the end, although nothing remembers the requests that were turned away.
EventuallyServed == \A k \in Keys : []<>(served[k] = source)

=============================================================================
