---------------------------- MODULE WarmupLearning ----------------------------
(* Prompt-aware warm-up (context.py): a context pack leaves a manifest of its *)
(* terms, counts itself in the row "warmup:auto_learn" and submits one        *)
(* background run; the run waits for the request to finish its own writing,   *)
(* learns from the manifest, and searches the terms so that their fragments   *)
(* are cached.  A manual warm-up learns from the last manifest as well.       *)
(* What a term earned is kept in one statistics row per term; terms that      *)
(* never pay off turn negative and are skipped.                               *)
(* One route and the scope "." stand for all; a get and a put are two steps.  *)
EXTENDS Naturals, FiniteSets

CONSTANTS
    Packers,            \* threads that serve context packs
    Warmers,            \* threads that serve manual warm-ups
    Job,                \* the background run
    Terms,              \* reusable retrieval terms
    Defaults,           \* the route's default seeds
    MinPacks,           \* auto_learn_min_packs
    ZeroLimit,          \* WARMUP_NEGATIVE_ZERO_RESULT_THRESHOLD
    UnselectedLimit,    \* WARMUP_NEGATIVE_NEVER_SELECTED_THRESHOLD
    Interval,           \* auto_learn_min_interval_seconds
    Yields,             \* what the retrieval of a prompt may come to
    MaxPacks, MaxManual, MaxEdits, MaxTime      \* bounds

ASSUME WarmupAssumption ==
    /\ Job \notin Warmers
    /\ Defaults \subseteq Terms
    /\ Yields \subseteq {"none", "found", "selected"}
    /\ {MinPacks, Interval} \subseteq Nat
    /\ {ZeroLimit, UnselectedLimit} \subseteq Nat \ {0}
    /\ {MaxPacks, MaxManual, MaxEdits, MaxTime} \subseteq Nat

VARIABLES
    signature,  \* the refresh signature of the indexed tree
    prompt,     \* the row "warmup:prompt_manifest"
    auto,       \* the row "warmup:auto_learn": its counters
    stats,      \* the rows "warmup:term_stats:<term>"
    seeds,      \* the row "warmup:route_seeds"
    pack,       \* what each packer is doing after its answer is assembled
    work,       \* what the run and each manual warm-up are doing
    mark,       \* the run's change of the row "warmup:auto_learn"
    lastStart,  \* when the registry last accepted a run; None: never
    now,
    truth,      \* history: what the counters count, as it happened
    known,      \* history: what has been told of each term, in the order of the puts
    disturbed,  \* history: a change of the auto row was overwritten or cut short
    manuals     \* manual warm-ups so far

learning == <<stats, seeds, known>>
registry == <<lastStart, now>>
vars == <<signature, prompt, auto, learning, pack, work, mark, registry, truth,
          disturbed, manuals>>

None == [kind |-> "none"]
Workers == Warmers \cup {Job}

Counters == {"observed", "enqueued", "deduplicated", "throttled",
             "completed", "failed", "stale"}
Zero == [c \in Counters |-> 0]
Plus(row, c) == [row EXCEPT ![c] = @ + 1]

Manifests == [kind : {"manifest"}, sig : Nat, terms : SUBSET Terms, result : Yields,
              learned : SUBSET Terms, available : BOOLEAN]

NoStats == [zero |-> 0, unselected |-> 0, selected |-> FALSE, results |-> FALSE]
NothingKnown == [zero |-> 0, unselected |-> 0, zeros |-> 0, unselecteds |-> 0,
                 lost |-> {}]

IdlePack == [pc |-> "idle", copy |-> Zero, manifest |-> None, outcome |-> "",
             foreign |-> FALSE]
IdleWork == [pc |-> "idle", manifest |-> None, gate |-> FALSE, late |-> FALSE,
             owner |-> None, todo |-> {}, avoid |-> {}, term |-> None, result |-> "",
             row |-> NoStats, overtaken |-> FALSE]
NoMark == [pc |-> "idle", copy |-> Zero, status |-> "", foreign |-> FALSE]

-----------------------------------------------------------------------------
(* Term statistics.                                                          *)

\* KeptZero is the slip of not starting the count again after a result.
KeptZero(zero, result) == IF result = "none" THEN zero + 1 ELSE zero
ZeroAfter(zero, result) == IF result = "none" THEN zero + 1 ELSE 0

\* Decaying is the slip of taking one off for a selection instead of starting
\* the count again.
Decaying(row, result, asked) ==
    [row EXCEPT !.unselected = IF ~ asked THEN @
                               ELSE IF result = "selected" THEN @ - 1 ELSE @ + 1]

\* _warmup_update_term_stats; a search tells nothing of selection.
Observed(row, result, asked) ==
    [zero |-> ZeroAfter(row.zero, result),
     unselected |-> IF ~ asked THEN row.unselected
                    ELSE IF result = "selected" THEN 0 ELSE row.unselected + 1,
     selected |-> row.selected \/ result = "selected",
     results |-> row.results \/ result # "none"]

\* The history of a term, whatever its row says: the searches and prompts without
\* a result since the last with one, the prompts without a selection since the last
\* with one, how many of each there ever were, and which of the row's two counts
\* has, since then, been put over another update it was not made from.
Chosen(result, asked) == asked /\ result = "selected"
Passed(result, asked) == asked /\ result # "selected"
Remembered(past, result, asked, overtaken) ==
    [zero |-> IF result = "none" THEN past.zero + 1 ELSE 0,
     unselected |-> IF Chosen(result, asked) THEN 0
                    ELSE past.unselected + (IF Passed(result, asked) THEN 1 ELSE 0),
     zeros |-> past.zeros + (IF result = "none" THEN 1 ELSE 0),
     unselecteds |-> past.unselecteds + (IF Passed(result, asked) THEN 1 ELSE 0),
     lost |-> (past.lost \cup (IF overtaken THEN {"zero", "unselected"} ELSE {}))
                  \ ((IF result = "none" THEN {} ELSE {"zero"})
                      \cup (IF Chosen(result, asked) THEN {"unselected"} ELSE {}))]

Negative(t) == stats[t].zero >= ZeroLimit \/ stats[t].unselected >= UnselectedLimit
Negatives == {t \in Terms : Negative(t)}

\* _warmup_rebuild_route_seeds; the order and the limit of eight are left out.
Seeds == {t \in Terms \ Negatives : stats[t].selected /\ stats[t].results}

-----------------------------------------------------------------------------
(* The tail of a context pack: _prompt_warmup_manifest and                   *)
(* _maybe_enqueue_auto_warmup.                                               *)

\* A put of the auto row is foreign to every change of it that is under way.
WithForeign(packs) ==
    [p \in Packers |-> IF packs[p].pc = "idle" THEN packs[p]
                       ELSE [packs[p] EXCEPT !.foreign = TRUE]]
RunMarkIsForeign ==
    mark' = IF mark.pc = "load" THEN [mark EXCEPT !.foreign = TRUE] ELSE mark

Observe(p) ==
    /\ pack[p].pc = "idle"
    /\ truth.observed < MaxPacks
    /\ \E terms \in (SUBSET Terms) \ {{}}, result \in Yields, available \in BOOLEAN :
        LET manifest == [kind |-> "manifest", sig |-> signature, terms |-> terms,
                         result |-> result, learned |-> seeds, available |-> available]
        IN  /\ prompt' = manifest
            /\ pack' = [pack EXCEPT ![p] =
                   [IdlePack EXCEPT !.pc = "observed", !.copy = Plus(auto, "observed"),
                                    !.manifest = manifest]]
    /\ truth' = Plus(truth, "observed")
    /\ UNCHANGED <<signature, auto, learning, work, mark, registry, disturbed, manuals>>

\* The put of a pack: who loaded the row before has lost it.
PutAuto(p, row, next) ==
    /\ auto' = row
    /\ disturbed' = (disturbed \/ pack[p].foreign)
    /\ pack' = [WithForeign(pack) EXCEPT ![p] = next]
    /\ RunMarkIsForeign

Reluctant(p) == pack[p].copy.observed < MinPacks \/ ~ pack[p].manifest.available

Decline(p) ==
    /\ pack[p].pc = "observed"
    /\ Reluctant(p)
    /\ PutAuto(p, pack[p].copy, IdlePack)
    /\ UNCHANGED <<signature, prompt, learning, work, registry, truth, manuals>>

Attempt(p) ==
    /\ pack[p].pc = "observed"
    /\ ~ Reluctant(p)
    /\ PutAuto(p, pack[p].copy, [pack[p] EXCEPT !.pc = "attempted", !.foreign = FALSE])
    /\ UNCHANGED <<signature, prompt, learning, work, registry, truth, manuals>>

\* The registry: one run at a time, and none too soon after the last.
Outcome ==
    IF work[Job].pc # "idle" THEN "deduplicated"
    ELSE IF lastStart # None /\ now < lastStart.at + Interval THEN "throttled"
    ELSE "enqueued"

Submit(p) ==
    /\ pack[p].pc = "attempted"
    /\ pack' = [pack EXCEPT ![p].pc = "submitted", ![p].outcome = Outcome]
    /\ IF Outcome = "enqueued"
       THEN /\ work' = [work EXCEPT ![Job] =
                   [IdleWork EXCEPT !.pc = "gate", !.manifest = pack[p].manifest,
                                    !.owner = [kind |-> "packer", packer |-> p]]]
            /\ lastStart' = [kind |-> "time", at |-> now]
       ELSE UNCHANGED <<work, lastStart>>
    /\ truth' = Plus(truth, Outcome)
    /\ UNCHANGED <<signature, prompt, auto, learning, mark, now, disturbed, manuals>>

\* A run that was joined is pending too: PendingFirst is the slip of asking for
\* pending before deduplicated.
PendingFirst(outcome) == IF outcome = "deduplicated" THEN "enqueued" ELSE outcome
Recorded(outcome) == outcome

Mine(p) == /\ pack[p].outcome = "enqueued"
           /\ work[Job].owner = [kind |-> "packer", packer |-> p]

Conclude(p) ==
    /\ pack[p].pc = "submitted"
    /\ PutAuto(p, Plus(pack[p].copy, Recorded(pack[p].outcome)), IdlePack)
    /\ work' = IF Mine(p) /\ work[Job].pc = "gate"
               THEN [work EXCEPT ![Job].gate = TRUE] ELSE work
    /\ UNCHANGED <<signature, prompt, learning, registry, truth, manuals>>

\* The last put fails; context_pack goes on, and nobody opens the gate.
PutRaises(p) ==
    /\ pack[p].pc = "submitted"
    /\ pack' = [pack EXCEPT ![p] = IdlePack]
    /\ disturbed' = TRUE
    /\ UNCHANGED <<signature, prompt, auto, learning, work, mark, registry, truth, manuals>>

-----------------------------------------------------------------------------
(* The run, and what it shares with a manual warm-up.                        *)

\* Ungated is the slip of starting without a look at the gate.
Ungated(w) == TRUE
GateIsOpen(w) == work[w].gate

Marking(status) == mark' = [NoMark EXCEPT !.pc = "due", !.status = status]

Start ==
    /\ work[Job].pc = "gate"
    /\ GateIsOpen(Job)
    /\ work' = [work EXCEPT ![Job].pc = "running"]
    /\ Marking("running")
    /\ UNCHANGED <<signature, prompt, auto, learning, pack, registry, truth, disturbed,
                   manuals>>

\* WaitsForever is the slip of a wait without a time-out.
WaitsForever(w) == FALSE
WaitEnds(w) == ~ work[w].gate

GateTimesOut ==
    /\ work[Job].pc = "gate"
    /\ WaitEnds(Job)
    /\ work' = [work EXCEPT ![Job].pc = "running", ![Job].late = TRUE]
    /\ Marking("running")
    /\ UNCHANGED <<signature, prompt, auto, learning, pack, registry, truth, disturbed,
                   manuals>>

\* _auto_learn_mark_run loads the row and puts it back.  To the request that
\* started the run this is no foreign change, unless the run gave up waiting for it.
LoadMark ==
    /\ mark.pc = "due"
    /\ mark' = [mark EXCEPT !.pc = "load", !.copy = auto]
    /\ UNCHANGED <<signature, prompt, auto, learning, pack, work, registry, truth,
                   disturbed, manuals>>

Marked(row, status) == IF status \in Counters THEN Plus(row, status) ELSE row

PutMark ==
    /\ mark.pc = "load"
    /\ auto' = Marked(mark.copy, mark.status)
    /\ mark' = NoMark
    /\ disturbed' = (disturbed \/ mark.foreign)
    /\ pack' = [p \in Packers |-> IF Mine(p) /\ ~ work[Job].late THEN pack[p]
                                  ELSE WithForeign(pack)[p]]
    /\ work' = [work EXCEPT ![Job] =
           IF mark.status = "running" THEN [@ EXCEPT !.pc = "check"] ELSE IdleWork]
    /\ UNCHANGED <<signature, prompt, learning, registry, truth, manuals>>

\* The end of the run, still to be marked.
End(status) ==
    /\ Marking(status)
    /\ truth' = Plus(truth, status)

\* A manifest of another signature is not learned from.
Check ==
    /\ work[Job].pc = "check"
    /\ IF work[Job].manifest.sig = signature
       THEN /\ work' = [work EXCEPT ![Job].pc = "learn",
                                    ![Job].todo = work[Job].manifest.terms]
            /\ UNCHANGED <<mark, truth>>
       ELSE /\ work' = [work EXCEPT ![Job].pc = "ending"]
            /\ End("stale")
    /\ UNCHANGED <<signature, prompt, auto, learning, pack, registry, disturbed, manuals>>

BeginManual(w) ==
    /\ work[w].pc = "idle"
    /\ manuals < MaxManual
    /\ manuals' = manuals + 1
    /\ work' = [work EXCEPT ![w] =
           IF prompt # None /\ prompt.sig = signature
           THEN [IdleWork EXCEPT !.pc = "learn", !.manifest = prompt,
                                 !.todo = prompt.terms]
           ELSE [IdleWork EXCEPT !.pc = "learn"]]
    /\ UNCHANGED <<signature, prompt, auto, learning, pack, mark, registry, truth,
                   disturbed>>

\* The get of a term's row, with what is to be told of the term: the result and
\* the selection of the prompt's pack, or what a search finds.
LoadLearned(w, t) ==
    /\ work[w].pc = "learn"
    /\ t \in work[w].todo
    /\ work' = [work EXCEPT ![w].pc = "learned", ![w].term = t,
                    ![w].result = work[w].manifest.result,
                    ![w].row = stats[t]]
    /\ UNCHANGED <<signature, prompt, auto, learning, pack, mark, registry, truth,
                   disturbed, manuals>>

ToSearch(w, t) ==
    /\ work[w].pc = "search"
    /\ t \in work[w].todo \ work[w].avoid

LoadSearched(w, t) ==
    /\ ToSearch(w, t)
    /\ \E result \in {"none", "found"} :
        work' = [work EXCEPT ![w].pc = "searched", ![w].term = t,
                     ![w].result = result,
                     ![w].row = stats[t]]
    /\ UNCHANGED <<signature, prompt, auto, learning, pack, mark, registry, truth,
                   disturbed, manuals>>

\* A manual warm-up goes on where its learning, or one of its searches, fails.
LearningFails(w) ==
    /\ work[w].pc = "learn" /\ work[w].todo # {}
    /\ work' = [work EXCEPT ![w].todo = {}]
    /\ UNCHANGED <<signature, prompt, auto, learning, pack, mark, registry, truth,
                   disturbed, manuals>>

SearchFails(w, t) ==
    /\ ToSearch(w, t)
    /\ work' = [work EXCEPT ![w].todo = @ \ {t}]
    /\ UNCHANGED <<signature, prompt, auto, learning, pack, mark, registry, truth,
                   disturbed, manuals>>

\* The worker with that term behind it.
Told(w) ==
    [work[w] EXCEPT !.pc = IF @ = "learned" THEN "learn" ELSE "search",
                    !.todo = @ \ {work[w].term}, !.term = None, !.result = "",
                    !.row = NoStats, !.overtaken = FALSE]

\* A put overtakes whoever has got the row of that term and not put it yet.
PutTerm(w) ==
    /\ work[w].pc \in {"learned", "searched"}
    /\ LET asked == work[w].pc = "learned"  t == work[w].term IN
        /\ stats' = [stats EXCEPT ![t] = Observed(work[w].row, work[w].result, asked)]
        /\ known' = [known EXCEPT ![t] =
               Remembered(@, work[w].result, asked, work[w].overtaken)]
        /\ work' = [x \in Workers |->
               IF x = w THEN Told(w)
               ELSE IF work[x].term = t THEN [work[x] EXCEPT !.overtaken = TRUE]
               ELSE work[x]]
    /\ UNCHANGED <<signature, prompt, auto, seeds, pack, mark, registry, truth,
                   disturbed, manuals>>

\* A put of a manual warm-up fails: so does the rest of its learning, or that search.
PutFails(w) ==
    /\ work[w].pc \in {"learned", "searched"}
    /\ work' = [work EXCEPT ![w] =
           IF work[w].pc = "learned" THEN [Told(w) EXCEPT !.todo = {}] ELSE Told(w)]
    /\ UNCHANGED <<signature, prompt, auto, learning, pack, mark, registry, truth,
                   disturbed, manuals>>

\* The seeds are made anew, the negative terms listed, the searches planned: the
\* run searches the terms of its manifest and the seeds.
PlanRun ==
    /\ work[Job].pc = "learn" /\ work[Job].todo = {}
    /\ seeds' = Seeds
    /\ LET manifest == [work[Job].manifest EXCEPT !.learned = @ \cup Seeds]
       IN  work' = [work EXCEPT ![Job].pc = "search", ![Job].avoid = Negatives,
                        ![Job].manifest = manifest,
                        ![Job].todo = manifest.terms \cup manifest.learned]
    /\ UNCHANGED <<signature, prompt, auto, stats, known, pack, mark, registry, truth,
                   disturbed, manuals>>

\* A manual warm-up searches the seeds and the routes' defaults.
PlanManual(w) ==
    /\ work[w].pc = "learn" /\ work[w].todo = {}
    /\ seeds' = Seeds
    /\ work' = [work EXCEPT ![w].pc = "search", ![w].avoid = Negatives,
                    ![w].todo = Seeds \cup Defaults]
    /\ UNCHANGED <<signature, prompt, auto, stats, known, pack, mark, registry, truth,
                   disturbed, manuals>>

Searched(w) == work[w].pc = "search" /\ work[w].todo \subseteq work[w].avoid

\* The run puts its manifest back and ends.
FinishRun ==
    /\ Searched(Job)
    /\ prompt' = work[Job].manifest
    /\ work' = [work EXCEPT ![Job].pc = "ending"]
    /\ End("completed")
    /\ UNCHANGED <<signature, auto, learning, pack, registry, disturbed, manuals>>

\* A manual warm-up makes the seeds anew.
FinishManual(w) ==
    /\ Searched(w)
    /\ seeds' = Seeds
    /\ work' = [work EXCEPT ![w] = IdleWork]
    /\ UNCHANGED <<signature, prompt, auto, stats, known, pack, mark, registry, truth,
                   disturbed, manuals>>

\* A run may fail at any point, before or after it put its manifest back.
RunRaises ==
    /\ work[Job].pc \in {"learn", "learned", "search", "searched"}
    /\ \/ UNCHANGED prompt
       \/ Searched(Job) /\ prompt' = work[Job].manifest
    /\ work' = [work EXCEPT ![Job] = [IdleWork EXCEPT
                    !.pc = "ending", !.late = work[Job].late, !.owner = work[Job].owner]]
    /\ End("failed")
    /\ UNCHANGED <<signature, auto, learning, pack, registry, disturbed, manuals>>

-----------------------------------------------------------------------------
(* The surroundings.                                                         *)

Edit ==
    /\ signature < MaxEdits
    /\ signature' = signature + 1
    /\ UNCHANGED <<prompt, auto, learning, pack, work, mark, registry, truth, disturbed,
                   manuals>>

Tick ==
    /\ now < MaxTime
    /\ now' = now + 1
    /\ UNCHANGED <<signature, prompt, auto, learning, pack, work, mark, lastStart, truth,
                   disturbed, manuals>>

\* The process dies; the rows stay, and the registry begins anew.
Crash ==
    /\ \/ \E p \in Packers : pack[p].pc # "idle"
       \/ \E w \in Workers : work[w].pc # "idle"
    /\ pack' = [p \in Packers |-> IdlePack]
    /\ work' = [w \in Workers |-> IdleWork]
    /\ mark' = NoMark
    /\ lastStart' = None
    /\ disturbed' = TRUE
    /\ UNCHANGED <<signature, prompt, auto, learning, now, truth, manuals>>

-----------------------------------------------------------------------------
Init ==
    /\ signature = 0
    /\ prompt = None
    /\ auto = Zero
    /\ stats = [t \in Terms |-> NoStats]
    /\ seeds = {}
    /\ pack = [p \in Packers |-> IdlePack]
    /\ work = [w \in Workers |-> IdleWork]
    /\ mark = NoMark
    /\ lastStart = None
    /\ now = 0
    /\ truth = Zero
    /\ known = [t \in Terms |-> NothingKnown]
    /\ disturbed = FALSE
    /\ manuals = 0

Pack(p) == Observe(p) \/ Decline(p) \/ Attempt(p) \/ Submit(p) \/ Conclude(p)
              \/ PutRaises(p)
Working(w) == (\E t \in Terms : LoadLearned(w, t) \/ LoadSearched(w, t)) \/ PutTerm(w)
Run == Start \/ GateTimesOut \/ LoadMark \/ PutMark \/ Check \/ Working(Job)
           \/ PlanRun \/ FinishRun
Manual(w) == BeginManual(w) \/ Working(w) \/ PlanManual(w) \/ FinishManual(w)
                 \/ LearningFails(w) \/ PutFails(w) \/ \E t \in Terms : SearchFails(w, t)

Next ==
    \/ \E p \in Packers : Pack(p)
    \/ Run
    \/ RunRaises
    \/ \E w \in Warmers : Manual(w)
    \/ Edit
    \/ Tick
    \/ Crash

\* The executor's thread goes on with a run it has begun; nothing makes requests.
Spec == Init /\ [][Next]_vars /\ WF_vars(Run)

-----------------------------------------------------------------------------
(* Properties.                                                               *)

\* Every variable holds a value of its type.
TypeOK ==
    /\ signature \in 0..MaxEdits /\ now \in 0..MaxTime /\ manuals \in 0..MaxManual
    /\ prompt \in Manifests \cup {None}
    /\ {auto, truth} \subseteq [Counters -> Nat]
    /\ stats \in [Terms -> [zero : Nat, unselected : Nat,
                            selected : BOOLEAN, results : BOOLEAN]]
    /\ seeds \subseteq Terms
    /\ \A p \in Packers : /\ pack[p].copy \in [Counters -> Nat]
                          /\ pack[p].manifest \in Manifests \cup {None}
    /\ \A w \in Workers : /\ work[w].todo \subseteq Terms
                          /\ work[w].pc # "idle" /\ w = Job =>
                                work[w].owner.kind = "packer"
    /\ disturbed \in BOOLEAN

\* Whatever overlaps, fails or dies, no counter of the auto-learning row says
\* more than happened: packs, submissions by their outcome, ends of runs.  So no
\* warm-up is started before the configured number of packs.
NeverOverstated ==
    /\ \A c \in Counters : auto[c] <= truth[c]
    /\ truth.enqueued > 0 => truth.observed >= MinPacks

\* The gate does its work: unless requests overlapped, a put failed, the wait timed
\* out or the process died, the row says exactly what happened as soon as nobody
\* is changing it, the ends of runs a request has started included.
UndisturbedCountsAreExact ==
    ~ disturbed /\ mark.pc = "idle" /\ (\A p \in Packers : pack[p].pc = "idle") =>
        auto = truth

\* A term is skipped only for what was told of it, by whichever thread, in the order
\* of the puts: enough searches and prompts without a result since the last with
\* one, or enough prompts without a selection since the last with one.  One case is
\* excepted, and is in the code: where an update was put over another that came
\* between its get and its put, a result or a selection may be lost from the row,
\* and the term stays skipped although the last prompt selected it.  Even then there
\* were as many such searches or prompts in all, and the next result or selection
\* that is put makes the count exact again.
NegativeIsEarned ==
    \A t \in Negatives : LET k == known[t] IN
        \/ k.zero >= ZeroLimit
        \/ "zero" \in k.lost /\ k.zeros >= ZeroLimit
        \/ k.unselected >= UnselectedLimit
        \/ "unselected" \in k.lost /\ k.unselecteds >= UnselectedLimit

\* A run that was accepted ends, even if the request that started it never opens
\* its gate: the next pack can start another.
EveryRunEnds == work[Job].pc = "gate" ~> work[Job].pc = "idle"
=============================================================================
