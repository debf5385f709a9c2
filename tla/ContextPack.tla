------------------------------ MODULE ContextPack ------------------------------
(* One context_pack request (context.py) after the index is ready: evidence is *)
(* retrieved in four stages that may each fail on their own, ranked, trimmed,  *)
(* and selected under limits; then the answer reports its own size in tokens,  *)
(* which changes its size.  The caches the summaries come from are modelled by *)
(* RetrievalCache, the reference that keeps the candidates by ResultReferences.*)
(* Paths are numbers, ordered as their names; a content is its length.         *)
EXTENDS Integers, Sequences, FiniteSets, SequencesExt

CONSTANTS
    Paths, TestPaths,   \* the repository's files, and those under tests/
    Named,              \* the lists of paths that requests name
    Length,             \* lines of each file, as it is now
    Chars,              \* characters of an excerpt of each file
    Lines, Scores,      \* where searches match, and how well
    MaxRows,            \* results of a search, symbols and owners of a request
    ItemCounts,         \* max_items of requests
    MinResults,         \* search results summarised in any case (8 and 12)
    Budget,             \* _planned_content_budget
    Trim,               \* characters kept of explicit and of other evidence
    Profiles,
    Texts, Baselines    \* sizes of the answer without its counts, and the baseline

ASSUME ContextPackAssumption ==
    /\ TestPaths \subseteq Paths /\ Paths \subseteq Nat
    /\ \A s \in Named : s \in Seq(Paths)
    /\ Length \in [Paths -> Nat] /\ Chars \in [Paths -> Nat] /\ Trim \in [BOOLEAN -> Nat]
    /\ Profiles \subseteq {"minimal", "normal"}
    /\ {MaxRows, MinResults, Budget} \cup ItemCounts \cup Texts \cup Baselines \subseteq Nat
    /\ Lines \cup Scores \subseteq Nat

VARIABLES
    stage,      \* what the request does next
    request,    \* profile and whether the prompt has terms
    explicit,   \* the paths named by the request
    rows,       \* what the last lookup returned
    todo,       \* what of it is not yet summarised
    memo,       \* summaries already made for this request
    candidates,
    omitted,    \* reasons of evidence left out, with what they are about
    selected,
    count       \* the answer's report of its own size

gathering == <<request, explicit, rows, todo, memo, candidates, omitted, selected>>
vars == <<stage, gathering, count>>

NoRequest == [profile |-> "normal", terms |-> FALSE, items |-> 0]
NoCount == [text |-> 0, baseline |-> 0, pass |-> 0, out |-> 0, base |-> 0,
            shown |-> [out |-> 0, base |-> 0], settled |-> FALSE]

Smallest(a, b) == IF a < b THEN a ELSE b
Largest(a, b) == IF a > b THEN a ELSE b

-----------------------------------------------------------------------------
(* Retrieval.                                                                *)

\* Unclamped is the slip of an anchor that is no line of the file any more.
Unclamped(path, anchor) == Largest(1, anchor - 2)

\* file_summary: the head of a file, or the lines around an anchor.
First(path, anchor) == Largest(1, Smallest(anchor, Largest(1, Length[path])) - 2)
LineRange(path, anchor) ==
    <<First(path, anchor),
      Smallest(Length[path], First(path, anchor) + (IF anchor = 0 THEN 3 ELSE 5))>>

Candidate(path, anchor, score, why) ==
    [path |-> path, range |-> LineRange(path, anchor), score |-> score, why |-> why,
     chars |-> Chars[path]]

\* _memoized_file_summary: a summary made before is not made again; making one
\* may fail, the file being gone or unreadable by now.
Summarised(path, anchor) ==
    memo' = memo \cup {<<path, anchor>>}
Fails(path, anchor) ==
    <<path, anchor>> \notin memo /\ UNCHANGED memo

\* _collect_paths names a path once, those of the call before those of the prompt.
Collected == {s \in Named : \A i, j \in DOMAIN s : s[i] = s[j] => i = j}

Begin ==
    /\ stage = "idle"
    /\ stage' = "explicit"
    /\ request' \in [profile : Profiles, terms : BOOLEAN, items : ItemCounts]
    /\ explicit' \in Collected
    /\ todo' = explicit'
    /\ UNCHANGED <<rows, memo, candidates, omitted, selected, count>>

NamedPath ==
    /\ stage = "explicit" /\ todo # <<>>
    /\ todo' = Tail(todo)
    /\ LET path == Head(todo) IN
        \/ /\ Summarised(path, 0)
           /\ candidates' = Append(candidates, Candidate(path, 0, 12, "explicit"))
           /\ UNCHANGED omitted
        \/ /\ Fails(path, 0)
           /\ omitted' = omitted \cup {[why |-> "unreadable", path |-> path]}
           /\ UNCHANGED candidates
    /\ UNCHANGED <<stage, request, explicit, rows, selected, count>>

\* Search results name a path once, the best first.
SearchRows ==
    {s \in SeqOf([path : Paths, line : Lines, score : Scores], MaxRows) :
        \A i, j \in DOMAIN s : i < j => s[i].path # s[j].path /\ s[i].score >= s[j].score}

\* _search_summary_limit
SummaryLimit(n) ==
    IF request.profile = "minimal" THEN Smallest(n, Largest(2 * request.items, MinResults))
    ELSE Smallest(n, Largest(3 * request.items, MinResults))

\* FailsQuietly is the slip of dropping a failure, as the symbol stage does.
FailsQuietly(why) == omitted
FailureNoted(why) == omitted \cup {[why |-> why]}

SearchFails ==
    /\ stage' = "symbols"
    /\ todo' = <<>>
    /\ omitted' = FailureNoted("search_failed")
    /\ UNCHANGED <<memo, candidates>>

Search ==
    /\ stage = "explicit" /\ todo = <<>>
    /\ IF request.terms
       THEN \/ /\ SearchFails
               /\ UNCHANGED rows
            \/ \E found \in SearchRows :
                LET limit == SummaryLimit(Len(found)) IN
                /\ stage' = "search"
                /\ rows' = found
                /\ todo' = SubSeq(found, 1, limit)
                /\ omitted' = IF Len(found) > limit
                              THEN omitted \cup {[why |-> "search_summary_limit"]}
                              ELSE omitted
                /\ UNCHANGED <<memo, candidates>>
       ELSE stage' = "symbols" /\ UNCHANGED <<rows, todo, omitted, memo, candidates>>
    /\ UNCHANGED <<request, explicit, selected, count>>

\* A summary that fails ends the whole stage.
SearchHit ==
    /\ stage = "search" /\ todo # <<>>
    /\ LET row == Head(todo) IN
        \/ /\ Summarised(row.path, row.line)
           /\ candidates' = Append(candidates,
                  Candidate(row.path, row.line, row.score + 4, "search"))
           /\ todo' = Tail(todo)
           /\ UNCHANGED <<stage, omitted>>
        \/ /\ Fails(row.path, row.line)
           /\ SearchFails
    /\ UNCHANGED <<request, explicit, rows, selected, count>>

SearchDone ==
    /\ stage = "search" /\ todo = <<>>
    /\ stage' = "symbols"
    /\ UNCHANGED <<gathering, count>>

EnoughRanked ==
    /\ request.profile = "minimal"
    /\ Len(candidates) >= 2 * request.items
    /\ Cardinality({candidates[i].path : i \in DOMAIN candidates}) >= request.items

SymbolRows == SeqOf([path : Paths, line : Lines], 1)

\* The lookup of symbols fails without a trace.
Symbols ==
    /\ stage = "symbols"
    /\ IF EnoughRanked
       THEN /\ stage' = "owners"
            /\ omitted' = omitted \cup {[why |-> "early_stop"]}
            /\ UNCHANGED todo
       ELSE /\ UNCHANGED omitted
            /\ \/ stage' = "owners" /\ UNCHANGED todo
               \/ \E found \in SymbolRows : stage' = "symbol" /\ todo' = found
    /\ UNCHANGED <<request, explicit, rows, memo, candidates, selected, count>>

SymbolHit ==
    /\ stage = "symbol" /\ todo # <<>>
    /\ LET row == Head(todo) IN
        \/ /\ Summarised(row.path, row.line)
           /\ candidates' = Append(candidates, Candidate(row.path, row.line, 8, "symbol"))
           /\ todo' = Tail(todo)
           /\ UNCHANGED stage
        \/ /\ Fails(row.path, row.line)
           /\ stage' = "owners" /\ todo' = <<>>
           /\ UNCHANGED candidates
    /\ UNCHANGED <<request, explicit, rows, omitted, selected, count>>

SymbolsDone ==
    /\ stage = "symbol" /\ todo = <<>>
    /\ stage' = "owners"
    /\ UNCHANGED <<gathering, count>>

\* The owners that the files' names tell, and those a search of the tests finds.
DirectOwners == SeqOf(TestPaths, 1)
FoundOwners == SeqOf(TestPaths, 1)

\* _cached_test_owner_paths: the owners found now or in the cached row, if there is
\* one, after those whose name says so now, each once.
OwnerRows ==
    {owners \in {direct \o found : direct \in DirectOwners, found \in FoundOwners} :
        \A i, j \in DOMAIN owners : owners[i] = owners[j] => i = j}

\* Owners of the named paths, without those that are candidates; the lookup may
\* raise, and the request with it.
Owners ==
    /\ stage = "owners"
    /\ \/ /\ stage' = "owner"
          /\ todo' \in OwnerRows
          /\ explicit = <<>> => todo' = <<>>
          /\ \A i \in DOMAIN todo', j \in DOMAIN candidates : candidates[j].path # todo'[i]
          /\ UNCHANGED <<request, explicit, rows, memo, candidates, omitted, selected>>
       \/ /\ stage' = "idle"
          /\ request' = NoRequest /\ explicit' = <<>> /\ rows' = <<>> /\ todo' = <<>>
          /\ memo' = {} /\ candidates' = <<>> /\ omitted' = {} /\ selected' = <<>>
    /\ UNCHANGED count

Owner ==
    /\ stage = "owner" /\ todo # <<>>
    /\ todo' = Tail(todo)
    /\ LET path == Head(todo) IN
        \/ /\ Summarised(path, 1)
           /\ candidates' = Append(candidates, Candidate(path, 1, 10, "owner"))
        \/ /\ Fails(path, 1)
           /\ UNCHANGED candidates
    /\ UNCHANGED <<stage, request, explicit, rows, omitted, selected, count>>

-----------------------------------------------------------------------------
(* Ranking, trimming and selection.                                          *)

\* _apply_route_ranking, for a coding prompt.
Ranked(c) ==
    [c EXCEPT !.score = @ + (IF Contains(explicit, c.path) THEN 6 ELSE 0)
                          + (IF c.why = "owner" THEN 4 ELSE 0)
                          + (IF c.path \in TestPaths THEN 2 ELSE 0)]

\* _profile_candidates
Profiled(c) ==
    [c EXCEPT !.chars = IF request.profile = "normal" THEN @
                        ELSE Smallest(@, Trim[c.why = "explicit"])]

Before(c, d) ==
    \/ c.score > d.score
    \/ c.score = d.score /\ c.path < d.path
    \/ c.score = d.score /\ c.path = d.path /\ c.range[1] < d.range[1]

\* The sort is stable: of equals, the one found first stays first.
Precedes(s, i, j) == Before(s[i], s[j]) \/ (~ Before(s[j], s[i]) /\ i < j)
Sorted(s) ==
    [k \in DOMAIN s |->
        s[CHOOSE i \in DOMAIN s : Cardinality({j \in DOMAIN s : Precedes(s, j, i)}) = k - 1]]

PerPath == IF request.profile = "minimal" THEN 1 ELSE 2

OfPath(items, path) == {i \in DOMAIN items : items[i].path = path}

\* AloneToo is the slip of holding the first item to the budget as well.
AloneToo(c, pass) == pass.used + c.chars <= Budget
Fits(c, pass) == pass.used + c.chars <= Budget \/ pass.items = <<>>

\* What keeps a candidate out, in the order the code asks.
Obstacle(c, pass) ==
    IF <<c.path, c.range>> \in pass.seen THEN "duplicate"
    ELSE IF Cardinality(OfPath(pass.items, c.path)) >= PerPath THEN "diversity_limit"
    ELSE IF Len(pass.items) >= request.items THEN "item_limit"
    ELSE IF ~ Fits(c, pass) THEN "budget_exhausted"
    ELSE "none"

Considered(pass, c) ==
    LET obstacle == Obstacle(c, pass)  seen == pass.seen \cup {<<c.path, c.range>>} IN
    IF obstacle = "none"
    THEN [pass EXCEPT !.seen = seen, !.items = Append(@, c), !.used = @ + c.chars]
    ELSE [pass EXCEPT !.seen = seen, !.out = @ \cup {[why |-> obstacle, item |-> c]}]

\* _select_candidates: one pass over the candidates, the best first.
Selection(sorted) ==
    LET after[k \in 0..Len(sorted)] ==
            IF k = 0 THEN [seen |-> {}, items |-> <<>>, used |-> 0, out |-> {}]
            ELSE Considered(after[k - 1], sorted[k])
    IN  after[Len(sorted)]

Select ==
    /\ stage = "owner" /\ todo = <<>>
    /\ stage' = "selected"
    /\ candidates' = Sorted([i \in DOMAIN candidates |-> Profiled(Ranked(candidates[i]))])
    /\ LET selection == Selection(candidates') IN
        /\ selected' = selection.items
        /\ omitted' = omitted \cup selection.out
    /\ UNCHANGED <<request, explicit, rows, todo, memo, count>>

-----------------------------------------------------------------------------
(* The answer's report of its own size.                                      *)

\* Of a number below a billion.
Digits(n) ==
    IF n < 10 THEN 1 ELSE IF n < 100 THEN 2 ELSE IF n < 1000 THEN 3
    ELSE IF n < 10000 THEN 4 ELSE IF n < 100000 THEN 5 ELSE IF n < 1000000 THEN 6
    ELSE IF n < 10000000 THEN 7 ELSE IF n < 100000000 THEN 8 ELSE 9

\* round(out / base, 4), as Python prints it.
Tenthousandths(out, base) ==
    IF base = 0 THEN 0
    ELSE LET twice == (20000 * out) \div base
             half == twice \div 2
             tie == (20000 * out) % base = 0
         IN  IF twice % 2 = 0 \/ (tie /\ half % 2 = 0) THEN half ELSE half + 1
Places(r) ==
    IF r % 1000 = 0 THEN 1 ELSE IF r % 100 = 0 THEN 2 ELSE IF r % 10 = 0 THEN 3 ELSE 4
RatioChars(out, base) == 2 + Places(Tenthousandths(out, base))

\* The characters of an answer that shows these counts: the output tokens and the
\* savings twice, the baseline and the ratio once.
AnswerChars(text, shown) ==
    text + 2 * Digits(shown.out) + Digits(shown.base)
         + 2 * Digits(Largest(0, shown.base - shown.out))
         + RatioChars(shown.out, shown.base)

\* TokenCounter's estimate.
Tokens(chars) == Largest(1, (chars + 3) \div 4)

Passes == 4

\* The answer is assembled with no count in it; what was gathered is let go.
Assemble ==
    /\ stage = "selected"
    /\ stage' = "counting"
    /\ \E text \in Texts, baseline \in Baselines :
        count' = [NoCount EXCEPT !.text = text, !.baseline = baseline,
                                 !.base = baseline, !.shown.base = baseline]
    /\ request' = NoRequest /\ explicit' = <<>> /\ rows' = <<>> /\ todo' = <<>>
    /\ memo' = {} /\ candidates' = <<>> /\ omitted' = {} /\ selected' = <<>>

\* OneMeasure is the slip of counting once, before the counts are in the answer.
OneMeasure(c) == stage = "counting" /\ c.pass < 1
Counting(c) == stage = "counting" /\ c.pass < Passes /\ ~ c.settled

CountPass ==
    /\ Counting(count)
    /\ LET out == Tokens(AnswerChars(count.text, count.shown))
           base == Largest(count.baseline, out)
       IN  count' = [count EXCEPT !.pass = @ + 1, !.shown = [out |-> out, base |-> base],
                         !.out = out, !.base = base,
                         !.settled = out = count.out /\ base = count.base]
    /\ UNCHANGED <<stage, gathering>>

\* record_event, the prune that may be due and the warm-up are other modules'.
Answer ==
    /\ stage = "counting" /\ ~ Counting(count)
    /\ stage' = "idle"
    /\ count' = NoCount
    /\ UNCHANGED gathering

-----------------------------------------------------------------------------
Init ==
    /\ stage = "idle" /\ request = NoRequest /\ explicit = <<>> /\ rows = <<>>
    /\ todo = <<>> /\ memo = {} /\ candidates = <<>> /\ omitted = {}
    /\ selected = <<>> /\ count = NoCount

Next ==
    \/ Begin \/ NamedPath \/ Search \/ SearchHit \/ SearchDone
    \/ Symbols \/ SymbolHit \/ SymbolsDone \/ Owners \/ Owner
    \/ Select \/ Assemble \/ CountPass \/ Answer

Spec == Init /\ [][Next]_vars

-----------------------------------------------------------------------------
(* Properties.                                                               *)

Reasons == {"unreadable", "search_summary_limit", "search_failed", "early_stop",
            "duplicate", "diversity_limit", "item_limit", "budget_exhausted"}

\* Every variable holds a value of its type.
TypeOK ==
    /\ stage \in {"idle", "explicit", "search", "symbols", "symbol", "owners", "owner",
                  "selected", "counting"}
    /\ request \in [profile : {"minimal", "normal"}, terms : BOOLEAN, items : Nat]
    /\ memo \subseteq Paths \X (Lines \cup {0, 1})
    /\ \A c \in ToSet(candidates) \cup ToSet(selected) :
        /\ c.path \in Paths
        /\ 1 <= c.range[1] /\ c.range[1] <= Largest(1, c.range[2])
        /\ c.range[2] <= Length[c.path]
    /\ \A o \in omitted : o.why \in Reasons
    /\ count.pass \in 0..Passes

\* Neither a path the request names nor a search hit is dropped in silence, nor is
\* evidence once there is some: when the selection is made, a named path is evidence or
\* was called unreadable, a search hit is evidence unless the answer says that the
\* search failed or was cut at its limit, and all evidence is selected or left out with
\* a reason.  This does not hold of what the symbol index and the lookup of test owners
\* return: if a summary of theirs raises, the answer says nothing of the row, nor of
\* the symbols after it.
NothingVanishes ==
    stage = "selected" =>
        LET Evidence(path, why) == \E c \in ToSet(candidates) : c.path = path /\ c.why = why
            Said(why) == \E o \in omitted : o.why = why
        IN  /\ \A path \in ToSet(explicit) :
                \/ Evidence(path, "explicit")
                \/ [why |-> "unreadable", path |-> path] \in omitted
            /\ \A i \in DOMAIN rows :
                \/ Evidence(rows[i].path, "search")
                \/ Said("search_failed")
                \/ i > SummaryLimit(Len(rows)) /\ Said("search_summary_limit")
            /\ \A c \in ToSet(candidates) :
                \/ c \in ToSet(selected)
                \/ \E o \in omitted : "item" \in DOMAIN o /\ o.item = c

Size(items) ==
    LET total[k \in 0..Len(items)] == IF k = 0 THEN 0 ELSE total[k - 1] + items[k].chars
    IN  total[Len(items)]

\* The selection keeps its limits and uses them: whatever is left out, for the
\* path, the number of items or the budget, could not be added to what was
\* selected in the end, and what stands in its way ranks no lower.
OmissionsAreForced ==
    stage = "selected" =>
        /\ Len(selected) <= request.items
        /\ \A path \in Paths : Cardinality(OfPath(selected, path)) <= PerPath
        /\ Size(selected) <= Budget \/ Len(selected) = 1
        /\ \A i, j \in DOMAIN selected :
            i # j => <<selected[i].path, selected[i].range>>
                        # <<selected[j].path, selected[j].range>>
        /\ request.items > 0 /\ candidates # <<>> => selected # <<>> /\ selected[1] = candidates[1]
        /\ \A o \in omitted :
            LET above == {i \in DOMAIN selected : ~ Before(o.item, selected[i])} IN
            CASE o.why = "diversity_limit" ->
                    Cardinality(above \cap OfPath(selected, o.item.path)) >= PerPath
              [] o.why = "item_limit" -> Cardinality(above) >= request.items
              [] o.why = "budget_exhausted" ->
                    above # {} /\ Size(selected) + o.item.chars > Budget
              [] o.why = "duplicate" ->
                    \E i, j \in DOMAIN candidates :
                        /\ i < j /\ candidates[j] = o.item
                        /\ candidates[i].path = o.item.path
                        /\ candidates[i].range = o.item.range
              [] OTHER -> TRUE

\* The answer reports its own size in tokens, the report being part of the answer:
\* what it shows in the end is exact if a pass changed nothing, and no more than
\* two tokens off if four passes did not settle it.
CountsWithinTwo ==
    stage = "counting" /\ ~ Counting(count) =>
        LET real == Tokens(AnswerChars(count.text, count.shown))
        IN  /\ count.settled => count.shown.out = real
            /\ count.shown.out - real \in -2..2
            /\ count.shown = [out |-> count.out, base |-> count.base]
=============================================================================
