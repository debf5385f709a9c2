------------------------- MODULE BackgroundJobsProofs -------------------------
(***************************************************************************)
(* Theorems about BackgroundJobs, for every number of keys, futures and    *)
(* workers, all intervals, and any number of edits and faults.             *)
(***************************************************************************)
EXTENDS BackgroundJobs, TLAPS

USE JobsAssumption

\* What makes OneFuturePerKey inductive: an outstanding future is its key's
\* latest one, and the executor's queue holds each future it has to start once.
LatestOutstanding == \A t \in Tasks : ~Done(t) => jobs[task[t].key] = t

QueueSound ==
    /\ \A i \in 1 .. Len(queue) : task[queue[i]].pc = "queued"
    /\ \A i, j \in 1 .. Len(queue) : queue[i] = queue[j] => i = j

Inv == TypeOK /\ LatestOutstanding /\ QueueSound

LEMMA AnyKeyType == AnyKey \in Keys
BY DEF AnyKey

\* A step that moves one future on from a phase in which the executor no longer
\* holds it keeps the queue as it is.
LEMMA QueueKept ==
    ASSUME QueueSound, queue \in Seq(Tasks), queue' = queue,
           \A t \in Tasks : task[t].pc = "queued" => task'[t].pc = "queued"
    PROVE  QueueSound'
BY DEF QueueSound

LEMMA JobsInit == Init => Inv
<1> SUFFICES ASSUME Init PROVE Inv
  OBVIOUS
<1>1. TypeOK
  BY AnyKeyType DEF Init, TypeOK, NoState, Unused, Status, Phase
<1>2. LatestOutstanding /\ QueueSound
  BY DEF Init, LatestOutstanding, QueueSound, Done, Unused
<1> QED
  BY <1>1, <1>2 DEF Inv

\* A request: refused, deduplicated, or accepted with a new future.
LEMMA SubmitStep ==
    ASSUME Inv, NEW k \in Keys, Submit(k)
    PROVE  Inv'
<1> USE DEF Inv
<1>1. CASE Refuse(k)
  <2>1. TypeOK'
    BY <1>1 DEF Refuse, StateAfterRefusal, TypeOK
  <2>2. LatestOutstanding' /\ QueueSound'
    BY <1>1 DEF Refuse, LatestOutstanding, QueueSound, Done
  <2> QED
    BY <2>1, <2>2
<1>2. CASE Deduplicate(k)
  BY <1>2 DEF Deduplicate, vars, TypeOK, LatestOutstanding, QueueSound, Done
<1>3. CASE Accept(k)
  <2> DEFINE t == CHOOSE u \in Spare : TRUE
             new == [key |-> k, pc |-> "queued", seen |-> 0]
  <2>1. t \in Tasks /\ task[t].pc = "unused"
    BY <1>3 DEF Accept, Spare
  <2>2. /\ jobs' = [jobs EXCEPT ![k] = t]
        /\ task' = [u \in Tasks |->
                IF u = t THEN new
                ELSE IF u = jobs[k] /\ task[u].pc \in {"ok", "failed"} THEN Unused(k)
                ELSE task[u]]
        /\ queue' = Append(queue, t)
        /\ state' = [state EXCEPT
                        ![k] = [status |-> "queued", started |-> TRUE, age |-> 0]]
        /\ asked' = [asked EXCEPT ![k] = source]
        /\ UNCHANGED <<source, served, faults>>
    BY <1>3 DEF Accept
  <2>3. jobs[k] = NoTask \/ Done(jobs[k])
    BY <1>3 DEF Accept, Unfinished
  <2> HIDE DEF t
  <2>4. TypeOK'
    <3>1. /\ new \in [key: Keys, pc: Phase, seen: Nat]
          /\ Unused(k) \in [key: Keys, pc: Phase, seen: Nat]
      BY DEF Phase, Unused
    <3>2. task' \in [Tasks -> [key: Keys, pc: Phase, seen: Nat]]
      BY <2>2, <3>1 DEF TypeOK
    <3>3. state' \in [Keys -> [status: Status, started: BOOLEAN, age: Int]]
      BY <2>2 DEF TypeOK, Status
    <3>4. queue' \in Seq(Tasks)
      BY <2>1, <2>2 DEF TypeOK
    <3>5. jobs' \in [Keys -> Tasks \cup {NoTask}] /\ asked' \in [Keys -> Nat]
      BY <2>1, <2>2 DEF TypeOK
    <3>6. source' \in Nat /\ faults' \in Nat /\ served' \in [Keys -> Nat]
      BY <2>2 DEF TypeOK
    <3> QED
      BY <3>2, <3>3, <3>4, <3>5, <3>6 DEF TypeOK
  <2>5. ASSUME NEW u \in Tasks, ~Done(u)'
        PROVE  jobs'[task'[u].key] = u
    <3>1. CASE u = t
      BY <2>2, <3>1 DEF TypeOK
    <3>2. CASE u # t
      <4>1. task'[u] = task[u] /\ ~Done(u)
        BY <2>2, <2>5, <3>2 DEF Done, Unused
      <4>2. jobs[task[u].key] = u /\ task[u].key \in Keys
        BY <4>1 DEF LatestOutstanding, TypeOK
      <4>3. task[u].key # k
        BY <2>3, <4>1, <4>2
      <4> QED
        BY <2>2, <4>1, <4>2, <4>3 DEF TypeOK
    <3> QED
      BY <3>1, <3>2
  <2>6. LatestOutstanding'
    BY <2>5 DEF LatestOutstanding
  <2>7. QueueSound'
    <3>1. queue \in Seq(Tasks) /\ Len(queue) \in Nat
      BY DEF TypeOK
    <3>2. /\ Len(queue') = Len(queue) + 1
          /\ \A i \in 1 .. Len(queue) : queue'[i] = queue[i]
          /\ queue'[Len(queue) + 1] = t
      BY <2>1, <2>2, <3>1
    <3>3. \A i \in 1 .. Len(queue) : queue[i] \in Tasks /\ queue[i] # t
      BY <2>1, <3>1 DEF QueueSound
    <3>4. \A i \in 1 .. Len(queue) : task'[queue[i]].pc = "queued"
      BY <2>2, <3>3 DEF QueueSound
    <3>5. task'[t].pc = "queued"
      BY <2>1, <2>2
    <3>6. \A i \in 1 .. Len(queue') : i \in 1 .. Len(queue) \/ i = Len(queue) + 1
      BY <3>1, <3>2
    <3>7. \A i \in 1 .. Len(queue') : task'[queue'[i]].pc = "queued"
      BY <3>2, <3>4, <3>5, <3>6
    <3>8. \A i, j \in 1 .. Len(queue') : queue'[i] = queue'[j] => i = j
      BY <3>2, <3>3, <3>6 DEF QueueSound
    <3> QED
      BY <3>7, <3>8 DEF QueueSound
  <2> QED
    BY <2>4, <2>6, <2>7
<1> QED
  BY <1>1, <1>2, <1>3 DEF Submit

\* A future the executor has started moves on within its run: it stays its
\* key's, and only Settle makes it done.
LEMMA RunningStep ==
    ASSUME Inv, NEW t \in Tasks, NEW run \in [key: Keys, pc: Phase, seen: Nat],
           run.key = task[t].key, run.pc # "queued",
           ~Done(t), task[t].pc # "queued",
           task' = [task EXCEPT ![t] = run],
           UNCHANGED <<jobs, queue>>
    PROVE  /\ task' \in [Tasks -> [key: Keys, pc: Phase, seen: Nat]]
           /\ LatestOutstanding'
           /\ QueueSound'
<1> USE DEF Inv
<1>1. task[t].key \in Keys /\ task \in [Tasks -> [key: Keys, pc: Phase, seen: Nat]]
  BY DEF TypeOK
<1>2. task' \in [Tasks -> [key: Keys, pc: Phase, seen: Nat]]
  BY <1>1
<1>3. \A u \in Tasks : task'[u].key = task[u].key /\ (u # t => task'[u] = task[u])
  BY <1>1
<1>4. LatestOutstanding'
  <2>1. ASSUME NEW u \in Tasks, ~Done(u)'
        PROVE  ~Done(u)
    BY <1>3, <2>1 DEF Done
  <2> QED
    BY <1>3, <2>1 DEF LatestOutstanding
<1>5. QueueSound'
  BY <1>3, QueueKept DEF TypeOK
<1> QED
  BY <1>2, <1>4, <1>5

\* The executor starts the oldest future.
LEMMA PickStep ==
    ASSUME Inv, NEW t \in Tasks, Pick(t)
    PROVE  Inv'
<1> USE DEF Inv
<1>1. queue \in Seq(Tasks) /\ queue # <<>> /\ Len(queue) \in Nat /\ t = queue[1]
  BY DEF Pick, TypeOK
<1>2. /\ queue' = Tail(queue) /\ queue' \in Seq(Tasks) /\ Len(queue) \in Nat \ {0}
      /\ Len(queue') = Len(queue) - 1
      /\ \A i \in 1 .. Len(queue') : queue'[i] = queue[i + 1]
  BY <1>1 DEF Pick
<1>3. task' = [task EXCEPT ![t].pc = "picked"] /\ task[t].pc = "queued"
  BY <1>1, <1>2 DEF Pick, Advance, QueueSound
<1>4. TypeOK'
  <2>1. task' \in [Tasks -> [key: Keys, pc: Phase, seen: Nat]]
    BY <1>3 DEF TypeOK, Phase
  <2> QED
    BY <1>2, <2>1 DEF Pick, TypeOK
<1>5. LatestOutstanding'
  BY <1>3 DEF Pick, LatestOutstanding, Done, TypeOK
<1>6. QueueSound'
  <2>1. \A i \in 1 .. Len(queue') : i + 1 \in 1 .. Len(queue) /\ i + 1 # 1
    BY <1>2
  <2>2. ASSUME NEW i \in 1 .. Len(queue')
        PROVE  task'[queue'[i]].pc = "queued"
    <3>1. queue'[i] = queue[i + 1] /\ queue[i + 1] \in Tasks
      BY <1>1, <1>2, <2>1
    <3>2. queue[i + 1] # t /\ task[queue[i + 1]].pc = "queued"
      BY <1>1, <1>2, <2>1 DEF QueueSound
    <3> QED
      BY <1>3, <3>1, <3>2 DEF TypeOK
  <2>3. ASSUME NEW i \in 1 .. Len(queue'), NEW j \in 1 .. Len(queue'),
               queue'[i] = queue'[j]
        PROVE  i = j
    <3>1. queue[i + 1] = queue[j + 1]
      BY <1>2, <2>3
    <3>2. i + 1 = j + 1
      BY <2>1, <3>1 DEF QueueSound
    <3> QED
      BY <1>2, <3>2
  <2> QED
    BY <2>2, <2>3 DEF QueueSound
<1> QED
  BY <1>4, <1>5, <1>6

\* What _run does, and what its work does, raising included.
LEMMA RunStepInv ==
    ASSUME Inv, NEW t \in Tasks, RunStep(t) \/ Raise(t)
    PROVE  Inv'
<1> USE DEF Inv
<1>1. task[t] \in [key: Keys, pc: Phase, seen: Nat]
  BY DEF TypeOK
<1>2. ASSUME NEW pc \in Phase \ {"queued"}, Advance(t, pc), ~Done(t),
             task[t].pc # "queued", UNCHANGED <<jobs, queue>>,
             state' \in [Keys -> [status: Status, started: BOOLEAN, age: Int]],
             served' \in [Keys -> Nat], faults' \in Nat,
             UNCHANGED <<source, asked>>
      PROVE  Inv'
  <2> DEFINE run == [task[t] EXCEPT !.pc = pc]
  <2>1. run \in [key: Keys, pc: Phase, seen: Nat] /\ run.key = task[t].key
        /\ run.pc # "queued"
    BY <1>1
  <2>2. task' = [task EXCEPT ![t] = run]
    BY <1>2 DEF Advance
  <2> HIDE DEF run
  <2> QED
    BY <1>2, <2>1, <2>2, RunningStep DEF TypeOK
<1>3. ASSUME NEW status \in Status, SetStatus(t, status)
      PROVE  state' \in [Keys -> [status: Status, started: BOOLEAN, age: Int]]
  BY <1>1, <1>3 DEF SetStatus, TypeOK
<1>4. CASE Announce(t)
  <2>1. "working" \in Phase \ {"queued"} /\ "running" \in Status
    BY DEF Phase, Status
  <2> QED
    BY <1>2, <1>3, <1>4, <2>1 DEF Announce, Done, TypeOK
<1>5. CASE ReadSource(t)
  <2> DEFINE run == [task[t] EXCEPT !.pc = "computed", !.seen = Seen(t)]
  <2>1. run \in [key: Keys, pc: Phase, seen: Nat] /\ run.key = task[t].key
        /\ run.pc # "queued"
    BY <1>1 DEF Seen, TypeOK, Phase
  <2>2. task' = [task EXCEPT ![t].pc = "computed", ![t].seen = Seen(t)]
    BY <1>5 DEF ReadSource
  <2>3. task' = [task EXCEPT ![t] = run]
    BY <1>1, <2>2 DEF TypeOK
  <2>4. ~Done(t) /\ task[t].pc # "queued"
    BY <1>5 DEF ReadSource, Done
  <2> HIDE DEF run
  <2> QED
    BY <1>5, <2>1, <2>3, <2>4, RunningStep DEF ReadSource, TypeOK
<1>6. CASE Return(t)
  <2>1. "returned" \in Phase \ {"queued"}
    BY DEF Phase
  <2>2. served' \in [Keys -> Nat]
    BY <1>1, <1>6 DEF Return, TypeOK
  <2> QED
    BY <1>2, <1>6, <2>1, <2>2 DEF Return, Done, TypeOK
<1>7. CASE Raise(t)
  <2>1. "raised" \in Phase \ {"queued"}
    BY DEF Phase
  <2>2. faults' \in Nat
    BY <1>7 DEF Raise, TypeOK
  <2>3. ~Done(t) /\ task[t].pc # "queued"
    BY <1>7 DEF Raise, Done
  <2> QED
    BY <1>2, <1>7, <2>1, <2>2, <2>3 DEF Raise, TypeOK
<1>8. CASE Record(t)
  <2>1. {"settling", "broken"} \subseteq Phase \ {"queued"}
        /\ {"complete", "failed"} \subseteq Status
    BY DEF Phase, Status
  <2> QED
    BY <1>2, <1>3, <1>8, <2>1 DEF Record, Done, TypeOK
<1>9. CASE Settle(t)
  <2> DEFINE pc == IF jobs[task[t].key] # t THEN "unused"
                   ELSE IF task[t].pc = "settling" THEN "ok" ELSE "failed"
  <2>1. pc \in Phase \ {"queued"}
    BY DEF Phase
  <2>2. Advance(t, pc)
    BY <1>9 DEF Settle
  <2> HIDE DEF pc
  <2> QED
    BY <1>2, <1>9, <2>1, <2>2 DEF Settle, Done, TypeOK
<1> QED
  BY <1>4, <1>5, <1>6, <1>7, <1>8, <1>9, PickStep DEF RunStep

LEMMA OutsideStep ==
    ASSUME Inv, Tick \/ ClockBack \/ Edit \/ Restart
    PROVE  Inv'
<1> USE DEF Inv
<1>1. CASE Tick \/ ClockBack \/ Edit
  <2>1. TypeOK'
    <3>1. state' \in [Keys -> [status: Status, started: BOOLEAN, age: Int]]
      <4>1. \A k \in Keys : state[k] \in [status: Status, started: BOOLEAN, age: Int]
        BY DEF TypeOK
      <4>2. \A k \in Keys :
              /\ [state[k] EXCEPT !.age = @ + 1]
                   \in [status: Status, started: BOOLEAN, age: Int]
              /\ [state[k] EXCEPT !.age = @ - 1]
                   \in [status: Status, started: BOOLEAN, age: Int]
        BY <4>1
      <4>3. CASE Tick
        BY <4>1, <4>2, <4>3 DEF Tick
      <4>4. CASE ClockBack
        BY <4>1, <4>2, <4>4 DEF ClockBack
      <4>5. CASE Edit
        BY <4>5 DEF Edit, TypeOK
      <4> QED
        BY <1>1, <4>3, <4>4, <4>5
    <3>2. source' \in Nat /\ faults' \in Nat
      BY <1>1 DEF Tick, ClockBack, Edit, TypeOK
    <3>3. UNCHANGED <<jobs, task, queue, served, asked>>
      BY <1>1 DEF Tick, ClockBack, Edit
    <3> QED
      BY <3>1, <3>2, <3>3 DEF TypeOK
  <2>2. LatestOutstanding' /\ QueueSound'
    BY <1>1 DEF Tick, ClockBack, Edit, LatestOutstanding, QueueSound, Done
  <2> QED
    BY <2>1, <2>2
<1>2. CASE Restart
  <2>1. TypeOK'
    BY <1>2, AnyKeyType DEF Restart, TypeOK, NoState, Unused, Status, Phase
  <2>2. LatestOutstanding' /\ QueueSound'
    BY <1>2 DEF Restart, LatestOutstanding, QueueSound, Done, Unused
  <2> QED
    BY <2>1, <2>2
<1> QED
  BY <1>1, <1>2

LEMMA JobsInvariant == Spec => []Inv
<1>1. Inv /\ [Next]_vars => Inv'
  <2> SUFFICES ASSUME Inv, [Next]_vars PROVE Inv'
    OBVIOUS
  <2>1. CASE UNCHANGED vars
    BY <2>1 DEF vars, Inv, TypeOK, LatestOutstanding, QueueSound, Done
  <2> QED
    BY <2>1, SubmitStep, RunStepInv, OutsideStep DEF Next
<1> QED
  BY <1>1, JobsInit, PTL DEF Spec

\* Every variable always holds a value of its type.
THEOREM JobsTypeCorrect == Spec => []TypeOK
<1>1. Inv => TypeOK
  BY DEF Inv
<1> QED
  BY <1>1, JobsInvariant, PTL

\* A key never has two unfinished futures, however requests, runs, failures,
\* clock steps and restarts interleave.
THEOREM OneFuture == Spec => []OneFuturePerKey
<1>1. Inv => OneFuturePerKey
  BY DEF Inv, LatestOutstanding, OneFuturePerKey
<1> QED
  BY <1>1, JobsInvariant, PTL

-----------------------------------------------------------------------------
(* What a key reports.                                                     *)

\* What the latest future t of key k has done so far, and what is recorded of it.
LatestIsOf(k, t) == task[t].key = k /\ task[t].pc # "unused"

ServesWhatWasAsked(k, t) ==
    /\ task[t].pc = "computed" => task[t].seen >= asked[k]
    /\ task[t].pc \in {"returned", "settling", "ok"} => served[k] >= asked[k]

OutcomeRecorded(k, t) ==
    /\ task[t].pc \in {"settling", "ok"} => state[k].status = "complete"
    /\ task[t].pc \in {"broken", "failed"} => state[k].status = "failed"

LatestHonest(k) ==
    jobs[k] # NoTask =>
        /\ LatestIsOf(k, jobs[k])
        /\ ServesWhatWasAsked(k, jobs[k])
        /\ OutcomeRecorded(k, jobs[k])

Honest ==
    /\ \A k \in Keys : asked[k] <= source
    /\ \A k \in Keys : LatestHonest(k)

LEMMA HonestInit == Init => Honest
BY DEF Init, Honest, LatestHonest

\* A request.  The future that Accept takes is nobody's latest one, and the one
\* it discards was the latest of its own key only.
LEMMA HonestSubmit ==
    ASSUME Inv, Honest, NEW k \in Keys, Submit(k)
    PROVE  Honest'
<1> USE DEF Inv
<1>1. CASE Refuse(k)
  <2>1. state' = state /\ UNCHANGED <<jobs, task, served, asked, source>>
    BY <1>1 DEF Refuse, StateAfterRefusal, TypeOK
  <2> QED
    BY <2>1 DEF Honest, LatestHonest, LatestIsOf, ServesWhatWasAsked, OutcomeRecorded
<1>2. CASE Deduplicate(k)
  BY <1>2 DEF Deduplicate, vars, Honest, LatestHonest, LatestIsOf, ServesWhatWasAsked,
              OutcomeRecorded
<1>3. CASE Accept(k)
  <2> DEFINE t == CHOOSE u \in Spare : TRUE
             new == [key |-> k, pc |-> "queued", seen |-> 0]
  <2>1. t \in Tasks /\ task[t].pc = "unused"
    BY <1>3 DEF Accept, Spare
  <2>2. /\ jobs' = [jobs EXCEPT ![k] = t]
        /\ task' = [u \in Tasks |->
                IF u = t THEN new
                ELSE IF u = jobs[k] /\ task[u].pc \in {"ok", "failed"} THEN Unused(k)
                ELSE task[u]]
        /\ state' = [state EXCEPT
                        ![k] = [status |-> "queued", started |-> TRUE, age |-> 0]]
        /\ asked' = [asked EXCEPT ![k] = source]
        /\ UNCHANGED <<source, served>>
    BY <1>3 DEF Accept
  <2> HIDE DEF t
  <2>3. \A j \in Keys : asked'[j] <= source'
    BY <2>2 DEF Honest, TypeOK
  <2>4. LatestHonest(k)'
    <3>1. jobs'[k] = t /\ task'[t].key = k /\ task'[t].pc = "queued"
      BY <2>1, <2>2 DEF TypeOK
    <3> QED
      BY <3>1 DEF LatestHonest, LatestIsOf, ServesWhatWasAsked, OutcomeRecorded
  <2>5. ASSUME NEW j \in Keys, j # k
        PROVE  LatestHonest(j)'
    <3>1. jobs'[j] = jobs[j] /\ asked'[j] = asked[j] /\ state'[j] = state[j]
          /\ served'[j] = served[j]
      BY <2>2, <2>5 DEF TypeOK
    <3>2. CASE jobs[j] = NoTask
      BY <3>1, <3>2 DEF LatestHonest
    <3>3. CASE jobs[j] # NoTask
      <4>1. jobs[j] \in Tasks /\ LatestHonest(j)
        BY <3>3 DEF TypeOK, Honest
      <4>2. jobs[j] # t /\ jobs[j] # jobs[k]
        <5>1. task[jobs[j]].key = j /\ task[jobs[j]].pc # "unused"
          BY <3>3, <4>1 DEF LatestHonest, LatestIsOf
        <5>2. jobs[k] # NoTask => task[jobs[k]].key = k
          BY DEF Honest, LatestHonest, LatestIsOf
        <5> QED
          BY <2>1, <2>5, <3>3, <5>1, <5>2
      <4>3. task'[jobs[j]] = task[jobs[j]]
        BY <2>2, <4>1, <4>2
      <4> QED
        BY <3>1, <3>3, <4>1, <4>3
           DEF LatestHonest, LatestIsOf, ServesWhatWasAsked, OutcomeRecorded
    <3> QED
      BY <3>2, <3>3
  <2> QED
    BY <2>3, <2>4, <2>5 DEF Honest
<1> QED
  BY <1>1, <1>2, <1>3 DEF Submit

\* A step of the run of t touches no key but t's own, whose latest future t is.
LEMMA HonestRun ==
    ASSUME Inv, Honest, NEW t \in Tasks, RunStep(t) \/ Raise(t)
    PROVE  Honest'
<1> USE DEF Inv
<1> PICK k \in Keys : k = task[t].key
  BY DEF TypeOK
<1>1. k = task[t].key /\ task[t] \in [key: Keys, pc: Phase, seen: Nat]
  BY DEF TypeOK
<1>2. ~Done(t)
  <2>1. CASE Pick(t)
    <3>1. queue \in Seq(Tasks) /\ queue # <<>> /\ Len(queue) \in Nat /\ t = queue[1]
      BY <2>1 DEF Pick, TypeOK
    <3>2. 1 \in 1 .. Len(queue)
      BY <3>1
    <3> QED
      BY <3>1, <3>2 DEF QueueSound, Done
  <2> QED
    BY <2>1 DEF RunStep, Announce, ReadSource, Return, Record, Settle, Raise, Done
<1>3. jobs[k] = t /\ t # NoTask /\ LatestHonest(k)
  BY <1>1, <1>2, JobsAssumption DEF LatestOutstanding, Honest
<1>4. UNCHANGED <<jobs, asked, source>>
  BY DEF RunStep, Pick, Announce, ReadSource, Return, Record, Settle, Raise
<1>5. \A u \in Tasks : u # t => task'[u] = task[u]
  BY DEF RunStep, Pick, Announce, ReadSource, Return, Record, Settle, Raise, Advance, TypeOK
<1>6. \A j \in Keys : j # k => state'[j] = state[j] /\ served'[j] = served[j]
  BY <1>1 DEF RunStep, Pick, Announce, ReadSource, Return, Record, Settle, Raise, SetStatus,
              TypeOK
<1>7. ASSUME NEW j \in Keys, j # k
      PROVE  LatestHonest(j)'
  <2>1. CASE jobs[j] = NoTask
    BY <1>4, <2>1 DEF LatestHonest
  <2>2. CASE jobs[j] # NoTask
    <3>1. jobs[j] \in Tasks /\ LatestHonest(j) /\ task[jobs[j]].key = j
      BY <2>2 DEF TypeOK, Honest, LatestHonest, LatestIsOf
    <3>2. task'[jobs[j]] = task[jobs[j]]
      BY <1>5, <1>7, <3>1
    <3> QED
      BY <1>4, <1>6, <1>7, <2>2, <3>1, <3>2
         DEF LatestHonest, LatestIsOf, ServesWhatWasAsked, OutcomeRecorded
  <2> QED
    BY <2>1, <2>2
<1>8. LatestHonest(k)'
  <2>1. SUFFICES /\ task'[t].key = k /\ task'[t].pc # "unused"
                 /\ task'[t].pc = "computed" => task'[t].seen >= asked[k]
                 /\ task'[t].pc \in {"returned", "settling", "ok"}
                      => served'[k] >= asked[k]
                 /\ task'[t].pc \in {"settling", "ok"}
                      => state'[k].status = "complete"
                 /\ task'[t].pc \in {"broken", "failed"}
                      => state'[k].status = "failed"
    BY <1>1, <1>3, <1>4, <2>1
       DEF LatestHonest, LatestIsOf, ServesWhatWasAsked, OutcomeRecorded
  <2>2. /\ task[t].pc = "computed" => task[t].seen >= asked[k]
        /\ task[t].pc \in {"returned", "settling", "ok"} => served[k] >= asked[k]
        /\ task[t].pc \in {"settling", "ok"} => state[k].status = "complete"
        /\ task[t].pc \in {"broken", "failed"} => state[k].status = "failed"
        /\ asked[k] <= source
    BY <1>1, <1>3
       DEF Honest, LatestHonest, LatestIsOf, ServesWhatWasAsked, OutcomeRecorded
  <2>3. CASE Pick(t)
    BY <1>1, <2>3 DEF Pick, Advance, TypeOK
  <2>4. CASE Announce(t)
    BY <1>1, <2>4 DEF Announce, Advance, TypeOK
  <2>5. CASE ReadSource(t)
    BY <1>1, <2>2, <2>5 DEF ReadSource, Seen, TypeOK
  <2>6. CASE Return(t)
    BY <1>1, <2>2, <2>6 DEF Return, Advance, TypeOK
  <2>7. CASE Raise(t)
    BY <1>1, <2>7 DEF Raise, Advance, TypeOK
  <2>8. CASE Record(t)
    BY <1>1, <2>2, <2>8 DEF Record, Advance, SetStatus, TypeOK
  <2>9. CASE Settle(t)
    BY <1>1, <1>3, <2>2, <2>9 DEF Settle, Advance, TypeOK
  <2> QED
    BY <2>3, <2>4, <2>5, <2>6, <2>7, <2>8, <2>9 DEF RunStep
<1> QED
  BY <1>4, <1>7, <1>8 DEF Honest

LEMMA HonestOutside ==
    ASSUME Inv, Honest, Tick \/ ClockBack \/ Edit \/ Restart
    PROVE  Honest'
<1> USE DEF Inv
<1>1. CASE Restart
  BY <1>1 DEF Restart, Honest, LatestHonest
<1>2. CASE Tick \/ ClockBack \/ Edit
  <2>1. \A j \in Keys : state'[j].status = state[j].status
    <3>1. \A j \in Keys : state[j] \in [status: Status, started: BOOLEAN, age: Int]
      BY DEF TypeOK
    <3>2. \A j \in Keys : /\ [state[j] EXCEPT !.age = @ + 1].status = state[j].status
                          /\ [state[j] EXCEPT !.age = @ - 1].status = state[j].status
      BY <3>1
    <3>3. CASE Tick
      BY <3>2, <3>3 DEF Tick
    <3>4. CASE ClockBack
      BY <3>2, <3>4 DEF ClockBack
    <3> QED
      BY <1>2, <3>3, <3>4 DEF Edit
  <2>2. UNCHANGED <<jobs, task, served, asked>> /\ source' >= source
    BY <1>2 DEF Tick, ClockBack, Edit, TypeOK
  <2>3. \A j \in Keys : asked'[j] <= source'
    BY <2>2, <1>2 DEF Honest, TypeOK, Edit, Tick, ClockBack
  <2>4. ASSUME NEW j \in Keys
        PROVE  LatestHonest(j)'
    <3>1. LatestHonest(j) /\ state'[j].status = state[j].status
      BY <2>1 DEF Honest
    <3> QED
      BY <2>2, <3>1 DEF LatestHonest, LatestIsOf, ServesWhatWasAsked, OutcomeRecorded
  <2> QED
    BY <2>3, <2>4 DEF Honest
<1> QED
  BY <1>1, <1>2

LEMMA HonestInvariant == Spec => []Honest
<1>1. Inv /\ Honest /\ [Next]_vars => Honest'
  <2> SUFFICES ASSUME Inv, Honest, [Next]_vars PROVE Honest'
    OBVIOUS
  <2>1. CASE UNCHANGED vars
    BY <2>1 DEF vars, Honest, LatestHonest, LatestIsOf, ServesWhatWasAsked, OutcomeRecorded
  <2> QED
    BY <2>1, HonestSubmit, HonestRun, HonestOutside DEF Next
<1> QED
  BY <1>1, HonestInit, JobsInvariant, PTL DEF Spec

\* A key that is reported as not pending is reported with the outcome of its
\* latest future; and where it is reported complete, everything that had changed
\* before that future was accepted has been served, whatever was edited, failed,
\* or was asked for in the meantime.
THEOREM ReportHonest == Spec => []ReportIsHonest
<1>1. Inv /\ Honest => ReportIsHonest
  <2> SUFFICES ASSUME Inv, Honest, NEW k \in Keys, jobs[k] # NoTask, ~Pending(k)
               PROVE  /\ PublicStatus(k) \in {"complete", "failed"}
                      /\ state[k].status = PublicStatus(k)
                      /\ PublicStatus(k) = "complete" => served[k] >= asked[k]
    BY DEF ReportIsHonest
  <2>1. task[jobs[k]].pc \in {"ok", "failed"}
    BY DEF Pending, Done, Honest, LatestHonest, LatestIsOf
  <2> QED
    BY <2>1 DEF PublicStatus, Honest, LatestHonest, ServesWhatWasAsked, OutcomeRecorded
<1> QED
  BY <1>1, JobsInvariant, HonestInvariant, PTL

=============================================================================
