---------------------------- MODULE MetricsStore ----------------------------
(* Metrics (metrics.py): every request ends by recording an event in the one *)
(* row "metrics:store": the row is loaded, every aggregate in it is brought  *)
(* up to date, and it is saved whole.  Readers compute averages, ratios, a   *)
(* percentile and the verdicts of the measurement matrix from the row.       *)
(* Time is counted in milliseconds; rounding is left out.                    *)
EXTENDS Integers, Sequences, FiniteSets, SequencesExt

CONSTANTS
    Recorders,      \* requests at work
    Events,         \* what requests may record
    Operations,     \* "context_pack", "context_admin.warmup", lookups ...
    Pack,           \* the operation of a context pack
    Warmup,         \* the operation of a cache warm-up
    Spaces,         \* cache namespaces
    Routes,         \* routes of a pack
    NoRoute,        \* route "": no pack
    RecentLimit,    \* the length of "recent", 50
    SnapshotLimit,  \* how many of these a plain snapshot shows, 12
    MaxEvents       \* bound of the number of events

ASSUME MetricsAssumption ==
    /\ {Pack, Warmup} \subseteq Operations /\ Pack # Warmup
    /\ NoRoute \notin Routes
    /\ RecentLimit \in Nat \ {0} /\ SnapshotLimit \in Nat \ {0} /\ MaxEvents \in Nat
    /\ Events \subseteq
        [op : Operations, elapsed : Nat, refresh : Nat, saved : Nat, deferred : Nat,
         hit : {"hit", "miss", "none"}, space : Spaces,
         fragments : [Spaces -> [hits : Nat, misses : Nat]],
         route : Routes \cup {NoRoute}, trigger : {"manual", "auto", ""}]

\* What the callers of record_event pass: only a pack has a route, and it has one;
\* only a pack saves tokens and defers bytes.
ASSUME CallersAssumption ==
    \A e \in Events :
        /\ e.op = Pack <=> e.route # NoRoute
        /\ e.op # Pack => e.saved = 0 /\ e.deferred = 0

ASSUME FiniteAssumption == IsFiniteSet(Spaces) /\ IsFiniteSet(Routes)

VARIABLES
    metrics,    \* the row
    task,       \* what each request is doing, with the copy it has loaded
    count,      \* events recorded so far
    log,        \* the events the row is made of, in order
    saves,      \* the numbers of the events saved, in order
    missed      \* events a later save did not know of, having loaded before them

vars == <<metrics, task, count, log, saves, missed>>

NoStats == [n |-> 0, total |-> 0, least |-> 0, most |-> 0, last |-> 0,
            saved |-> 0, deferred |-> 0]

Empty ==
    [requests |-> 0, saved |-> 0, deferred |-> 0, hits |-> 0, misses |-> 0,
     fragmentHits |-> 0, fragmentMisses |-> 0,
     spaces |-> [s \in Spaces |-> [hits |-> 0, misses |-> 0]],
     triggers |-> [manual |-> 0, auto |-> 0],
     operations |-> [o \in Operations |-> NoStats],
     refreshes |-> NoStats,
     routes |-> [r \in Routes |-> NoStats],
     recent |-> <<>>]

Idle == [pc |-> "idle"]

Init ==
    /\ metrics = Empty
    /\ task = [r \in Recorders |-> Idle]
    /\ count = 0
    /\ log = <<>>
    /\ saves = <<>>
    /\ missed = {}

-----------------------------------------------------------------------------
(* record_event, aggregate by aggregate.                                     *)

Least(a, b) == IF a < b THEN a ELSE b
Most(a, b) == IF a < b THEN b ELSE a

WithLatency(stats, elapsed) ==
    [stats EXCEPT !.n = @ + 1, !.total = @ + elapsed,
                  !.least = IF stats.n = 0 THEN elapsed ELSE Least(@, elapsed),
                  !.most = Most(@, elapsed), !.last = elapsed]

Updated(stats, e) ==
    [WithLatency(stats, e.elapsed) EXCEPT !.saved = @ + e.saved,
                                          !.deferred = @ + e.deferred]

WithTotals(row, e) ==
    [row EXCEPT !.requests = @ + 1, !.saved = @ + e.saved, !.deferred = @ + e.deferred]

WithLookup(row, e) ==
    IF e.hit = "none" THEN row
    ELSE IF e.hit = "hit"
    THEN [row EXCEPT !.hits = @ + 1, !.spaces[e.space].hits = @ + 1]
    ELSE [row EXCEPT !.misses = @ + 1, !.spaces[e.space].misses = @ + 1]

Sum(f) == FoldFunction(LAMBDA x, y : x + y, 0, f)
FragmentHits(e) == Sum([s \in Spaces |-> e.fragments[s].hits])
FragmentMisses(e) == Sum([s \in Spaces |-> e.fragments[s].misses])

WithFragments(row, e) ==
    [row EXCEPT
        !.fragmentHits = @ + (IF e.op = Pack THEN FragmentHits(e) ELSE 0),
        !.fragmentMisses = @ + (IF e.op = Pack THEN FragmentMisses(e) ELSE 0),
        !.spaces = [s \in Spaces |->
            [hits |-> @[s].hits + e.fragments[s].hits,
             misses |-> @[s].misses + e.fragments[s].misses]]]

WithTrigger(row, e) ==
    IF e.op # Warmup THEN row
    ELSE IF e.trigger = "auto" THEN [row EXCEPT !.triggers.auto = @ + 1]
    ELSE [row EXCEPT !.triggers.manual = @ + 1]

WithOperation(row, e) == [row EXCEPT !.operations[e.op] = Updated(@, e)]

\* Of the stages of a pack, the index refresh stands for all.
WithStages(row, e) ==
    IF e.op = Pack THEN [row EXCEPT !.refreshes = WithLatency(@, e.refresh)] ELSE row

WithRoute(row, e) ==
    IF e.route = NoRoute THEN row ELSE [row EXCEPT !.routes[e.route] = Updated(@, e)]

LastOf(s, n) == SubSeq(s, Most(1, Len(s) - n + 1), Len(s))

\* FirstOnes is the slip of keeping the oldest events for the recent ones, and
\* AllOnes of keeping all of them.
AllOnes(row, e) == [row EXCEPT !.recent = Append(@, e)]
FirstOnes(row, e) ==
    [row EXCEPT !.recent = SubSeq(Append(@, e), 1, Least(Len(@) + 1, RecentLimit))]
WithRecent(row, e) == [row EXCEPT !.recent = LastOf(Append(@, e), RecentLimit)]

Recorded(row, e) ==
    WithRecent(WithRoute(WithStages(WithOperation(WithTrigger(WithFragments(
        WithLookup(WithTotals(row, e), e), e), e), e), e), e), e)

-----------------------------------------------------------------------------
(* The steps of a request.                                                   *)

\* Truthy is the slip of taking a row without a hit for no row at all.
Truthy(row) == IF row.hits = 0 THEN Empty ELSE row
Loaded(row) == row

Load(r) ==
    /\ task[r] = Idle
    /\ count < MaxEvents
    /\ count' = count + 1
    /\ \E e \in Events :
        task' = [task EXCEPT ![r] = [pc |-> "save", event |-> e, number |-> count + 1,
                                     copy |-> Loaded(metrics), from |-> log, seen |-> Len(saves)]]
    /\ UNCHANGED <<metrics, log, saves, missed>>

Save(r) ==
    /\ task[r] # Idle
    /\ metrics' = Recorded(task[r].copy, task[r].event)
    /\ log' = Append(task[r].from, [number |-> task[r].number, event |-> task[r].event])
    /\ saves' = Append(saves, task[r].number)
    /\ missed' = missed \cup {saves[i] : i \in task[r].seen + 1 .. Len(saves)}
    /\ task' = [task EXCEPT ![r] = Idle]
    /\ UNCHANGED count

Crash ==
    /\ \E r \in Recorders : task[r] # Idle
    /\ task' = [r \in Recorders |-> Idle]
    /\ UNCHANGED <<metrics, count, log, saves, missed>>

Next == (\E r \in Recorders : Load(r) \/ Save(r)) \/ Crash

Spec == Init /\ [][Next]_vars

-----------------------------------------------------------------------------
(* The measurement matrix over a snapshot of the row: of all recent events where *)
(* it is asked for alone, of fewer where it comes with the metrics.              *)

Snapshot(row, window) == [row EXCEPT !.recent = LastOf(@, window)]
Windows == {RecentLimit, SnapshotLimit}

\* A measured value as a fraction, with the number of samples it rests on.
Measured(over, under, samples) == [over |-> over, under |-> under, samples |-> samples]
Ratio(over, under, samples) ==
    IF under = 0 THEN Measured(0, 1, samples) ELSE Measured(over, under, samples)

\* AsRecorded is the slip of taking ranks in the order of recording.
AsRecorded(values, i, j) == i < j
Ahead(values, i, j) == values[i] < values[j] \/ (values[i] = values[j] /\ i < j)
Ordered(values) ==
    [k \in 1..Cardinality(DOMAIN values) |->
        values[CHOOSE i \in DOMAIN values :
                   Cardinality({j \in DOMAIN values : Ahead(values, j, i)}) = k - 1]]

\* The percentile of numbers, interpolated between two ranks; the rank and the
\* fraction are in hundredths, as the value is.
Percentile(values, percent) ==
    LET ordered == Ordered(values)
        rank == (Len(ordered) - 1) * percent
        lower == rank \div 100
        upper == Least(lower + 1, Len(ordered) - 1)
        below == ordered[lower + 1]
    IN  100 * below + (ordered[upper + 1] - below) * (rank % 100)

\* The times of the packs among the recent events, by their places.
PackTimes(row) ==
    [i \in {k \in DOMAIN row.recent : row.recent[k].op = Pack} |-> row.recent[i].elapsed]

Value(row, key) ==
    LET pack == row.operations[Pack]  warm == row.operations[Warmup]  n == pack.n IN
    CASE key = "average" -> Ratio(pack.total, n, n)
      [] key = "p95" ->
            LET times == PackTimes(row)  samples == Cardinality(DOMAIN times) IN
            IF samples = 0 THEN Measured(0, 1, 0)
            ELSE Measured(Percentile(times, 95), 100, samples)
      [] key = "refresh" -> Ratio(row.refreshes.total, row.refreshes.n, row.refreshes.n)
      [] key = "warmup" -> Ratio(warm.total, warm.n, warm.n)
      [] key = "saved" -> Ratio(row.saved, n, n)
      [] key = "fragments" ->
            LET all == row.fragmentHits + row.fragmentMisses
            IN  Ratio(row.fragmentHits, all, all)
      [] key = "deferred" -> Measured(row.deferred, 1, n)

Keys == {"average", "p95", "refresh", "warmup", "saved", "fragments", "deferred"}

Passes(value, operator, target) ==
    IF operator = "<=" THEN value.over <= target * value.under
    ELSE value.over >= target * value.under

Verdict(row, key, target) ==
    LET value == Value(row, key) IN
    IF value.samples < target.samples THEN "insufficient"
    ELSE IF Passes(value, target.operator, target.target) THEN "pass" ELSE "fail"

-----------------------------------------------------------------------------
(* Properties.                                                               *)

Stats == [n : Nat, total : Nat, least : Nat, most : Nat, last : Nat, saved : Nat,
          deferred : Nat]

Row ==
    [requests : Nat, saved : Nat, deferred : Nat, hits : Nat, misses : Nat,
     fragmentHits : Nat, fragmentMisses : Nat,
     spaces : [Spaces -> [hits : Nat, misses : Nat]],
     triggers : [manual : Nat, auto : Nat],
     operations : [Operations -> Stats],
     refreshes : Stats,
     routes : [Routes -> Stats],
     recent : Seq(Events)]

Numbered == [number : 1..MaxEvents, event : Events]

\* Every variable holds a value of its type; the list of recent events is bounded.
TypeOK ==
    /\ metrics \in Row
    /\ Len(metrics.recent) <= RecentLimit
    /\ task \in [Recorders ->
           {Idle} \cup [pc : {"save"}, event : Events, number : 1..MaxEvents,
                        copy : Row, from : Seq(Numbered), seen : Nat]]
    /\ count \in 0..MaxEvents
    /\ log \in Seq(Numbered)
    /\ saves \in Seq(1..MaxEvents)
    /\ missed \subseteq 1..MaxEvents

\* An event that was recorded is counted in the row, or fell to a request that
\* had loaded the row before it; and none is counted twice.
EventsLostOnlyToOverlap ==
    /\ metrics.requests = Len(log)
    /\ \A i \in DOMAIN saves :
        \/ saves[i] \in missed
        \/ \E k \in DOMAIN log : log[k].number = saves[i]
    /\ \A k, l \in DOMAIN log : log[k].number = log[l].number => k = l

\* The events of an operation, as their places in a list, and what they amount to.
Of(list, o) == {k \in DOMAIN list : list[k].event.op = o}
Total(list, places, amount) == Sum([k \in places |-> amount[list[k].event]])

Elapsed == [e \in Events |-> e.elapsed]
Refresh == [e \in Events |-> e.refresh]
Saved == [e \in Events |-> e.saved]
Deferred == [e \in Events |-> e.deferred]
Hits == [e \in Events |-> FragmentHits(e)]
Misses == [e \in Events |-> FragmentMisses(e)]
HitsOf(s) == [e \in Events |-> e.fragments[s].hits]
MissesOf(s) == [e \in Events |-> e.fragments[s].misses]

Lookups(list, s, hit) ==
    {k \in DOMAIN list : list[k].event.hit = hit /\ list[k].event.space = s}

\* Whatever is lost, these aggregates of the row agree with one another: the recent
\* events, each operation's number, sum, extremes and last value, the sums over the
\* packs (tokens saved, bytes deferred, fragment hits and misses, refresh time) and
\* each space's hits and misses are those of one and the same list of events; the
\* warm-ups of the two triggers, and the packs of all routes, add up to the operations
\* of that list.  The other parts of the row are not spoken of: the hits and misses
\* over all spaces, the extremes of a stage, what one route or one trigger has.
AggregatesAgree ==
    /\ metrics.recent = [k \in 1..Least(Len(log), RecentLimit) |->
                            log[Most(0, Len(log) - RecentLimit) + k].event]
    /\ \A o \in Operations :
        LET stats == metrics.operations[o]  places == Of(log, o) IN
        /\ stats.n = Cardinality(places)
        /\ stats.total = Total(log, places, Elapsed)
        /\ places # {} =>
            /\ stats.least = Min({log[k].event.elapsed : k \in places})
            /\ stats.most = Max({log[k].event.elapsed : k \in places})
            /\ stats.last = log[Max(places)].event.elapsed
    /\ metrics.saved = Total(log, Of(log, Pack), Saved)
    /\ metrics.deferred = Total(log, Of(log, Pack), Deferred)
    /\ metrics.fragmentHits = Total(log, Of(log, Pack), Hits)
    /\ metrics.fragmentMisses = Total(log, Of(log, Pack), Misses)
    /\ metrics.refreshes.total = Total(log, Of(log, Pack), Refresh)
    /\ metrics.triggers.manual + metrics.triggers.auto = metrics.operations[Warmup].n
    /\ Sum([r \in Routes |-> metrics.routes[r].n]) = metrics.operations[Pack].n
    /\ \A s \in Spaces :
        /\ metrics.spaces[s].hits = Cardinality(Lookups(log, s, "hit"))
               + Total(log, DOMAIN log, HitsOf(s))
        /\ metrics.spaces[s].misses = Cardinality(Lookups(log, s, "miss"))
               + Total(log, DOMAIN log, MissesOf(s))

\* Of the values, the percentile has its share of the hundred below it and the
\* rest above, less than one value apart: a verdict on it is one on the recent packs.
RanksProperly(times, percent) ==
    LET value == Percentile(times, percent)
        n == Cardinality(DOMAIN times)
        above == {i \in DOMAIN times : 100 * times[i] > value}
        below == {i \in DOMAIN times : 100 * times[i] < value}
    IN  /\ 100 * (Cardinality(above) - 1) < (100 - percent) * (n - 1)
        /\ 100 * (Cardinality(below) - 1) < percent * (n - 1)
        /\ \E i \in DOMAIN times : 100 * times[i] >= value
        /\ \E i \in DOMAIN times : 100 * times[i] <= value

\* What a verdict is to be: none on too few samples.
Judged(samples, least, reached) ==
    IF samples < least THEN "insufficient" ELSE IF reached THEN "pass" ELSE "fail"

\* The verdicts against a target are what the packs and the warm-ups of the list say.
VerdictsAt(row, bound, least) ==
    LET packs == Of(log, Pack)  n == Cardinality(packs)
        warmups == Of(log, Warmup)  w == Cardinality(warmups)
        hits == Total(log, packs, Hits)
        looks == hits + Total(log, packs, Misses)
        upto == [operator |-> "<=", target |-> bound, samples |-> least]
        atleast == [operator |-> ">=", target |-> bound, samples |-> least]
    IN
    /\ Verdict(row, "average", upto) =
        Judged(n, least, Total(log, packs, Elapsed) <= bound * n)
    /\ Verdict(row, "saved", atleast) =
        Judged(n, least, Total(log, packs, Saved) >= bound * n)
    /\ Verdict(row, "refresh", upto) =
        Judged(n, least, Total(log, packs, Refresh) <= bound * n)
    /\ Verdict(row, "warmup", upto) =
        Judged(w, least, Total(log, warmups, Elapsed) <= bound * w)
    /\ Verdict(row, "fragments", atleast) =
        Judged(looks, least, hits >= bound * looks)
    /\ Verdict(row, "deferred", atleast) =
        Judged(n, least, Total(log, packs, Deferred) >= bound)
    /\ Verdict(row, "p95", upto) # "insufficient" => n >= least

\* The verdicts of the measurement matrix are what the packs and the warm-ups of
\* the list say, whichever snapshot they are made of: nothing other requests record
\* moves them, and no verdict is given on fewer samples than it asks for.  A
\* percentile is that of the packs its snapshot shows.
VerdictsAreOfPacks ==
    \A window \in Windows :
        LET row == Snapshot(metrics, window)  times == PackTimes(row) IN
        /\ \A bound \in {1, 2}, least \in {1, 3} : VerdictsAt(row, bound, least)
        /\ DOMAIN times # {} => RanksProperly(times, 95)
=============================================================================
