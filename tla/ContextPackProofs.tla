--------------------------- MODULE ContextPackProofs ---------------------------
(***************************************************************************)
(* Theorems about ContextPack, for any repository, any results of the       *)
(* retrieval, any limits, and answers whose counts are below a billion.     *)
(***************************************************************************)
EXTENDS ContextPack, FunctionTheorems, FiniteSetTheorems, TLAPS

-----------------------------------------------------------------------------
(* The count of the answer's own tokens.  From the first pass on it is that   *)
(* of a text some 8 to 51 characters longer than the answer without counts,   *)
(* so two passes differ by less than twelve tokens, and by no more than a     *)
(* digit in each number they show: the next pass differs by two at most.      *)

Count ==
    [text : Nat, baseline : Nat, pass : 0..Passes, out : Nat, base : Nat,
     shown : [out : Nat, base : Nat], settled : BOOLEAN]
Real(c) == Tokens(AnswerChars(c.text, c.shown))

CountInv ==
    /\ count \in Count
    /\ count.shown = [out |-> count.out, base |-> count.base]
    /\ stage = "counting" =>
        /\ count.pass = 0 => ~ count.settled
        /\ count.pass >= 1 =>
            /\ \E e \in 8..51 : count.out = Tokens(count.text + e)
            /\ count.base = Largest(count.baseline, count.out)
        /\ count.pass >= 2 => count.out - Real(count) \in -2..2
        /\ count.settled => count.out = Real(count)

\* A number has one to nine digits; of numbers less than twelve apart, one has at most
\* one digit more.
LEMMA DigitsClose ==
    ASSUME NEW a \in Nat, NEW b \in Nat
    PROVE  /\ Digits(a) \in 1..9
           /\ a - b \in -11..11 => Digits(a) - Digits(b) \in -1..1
BY DEF Digits

\* The ratio takes three to six characters.
LEMMA RatioShort ==
    ASSUME NEW out, NEW base
    PROVE  RatioChars(out, base) \in 3..6
<1>1. \A r : Places(r) \in 1..4
  BY DEF Places
<1> QED
  BY <1>1 DEF RatioChars

\* What the counts add to an answer.
LEMMA ExtraChars ==
    ASSUME NEW text \in Nat, NEW shown \in [out : Nat, base : Nat]
    PROVE  \E e \in 8..51 : AnswerChars(text, shown) = text + e
<1> DEFINE saved == Largest(0, shown.base - shown.out)
<1>1. saved \in Nat
  BY DEF Largest
<1>2. Digits(shown.out) \in 1..9 /\ Digits(shown.base) \in 1..9 /\ Digits(saved) \in 1..9
  BY <1>1, DigitsClose
<1>3. RatioChars(shown.out, shown.base) \in 3..6
  BY RatioShort
<1>4. AnswerChars(text, shown) =
        text + 2 * Digits(shown.out) + Digits(shown.base) + 2 * Digits(saved)
             + RatioChars(shown.out, shown.base)
  BY DEF AnswerChars
<1>5. PICK e \in 8..51 : e = 2 * Digits(shown.out) + Digits(shown.base) + 2 * Digits(saved)
                               + RatioChars(shown.out, shown.base)
  BY <1>2, <1>3
<1> HIDE DEF saved
<1> QED
  BY <1>2, <1>3, <1>4, <1>5

\* Texts whose lengths differ by little have counts that differ by little.
LEMMA TokensClose ==
    ASSUME NEW a \in Nat, NEW b \in Nat
    PROVE  /\ Tokens(a) \in Nat
           /\ a - b \in -43..43 => Tokens(a) - Tokens(b) \in -11..11
           /\ a - b \in -8..8 => Tokens(a) - Tokens(b) \in -2..2
BY DEF Tokens, Largest

LEMMA SumsClose ==
    ASSUME NEW text \in Nat, NEW a \in Int, NEW b \in Int, NEW c \in Int, NEW d \in Int,
           NEW e \in Int, NEW f \in Int, NEW g \in 3..6, NEW h \in 3..6,
           a - b \in -1..1, c - d \in -1..1, e - f \in -1..1
    PROVE  (text + 2 * a + c + 2 * e + g) - (text + 2 * b + d + 2 * f + h) \in -8..8
OBVIOUS

\* Two passes that show numbers less than twelve apart count texts of nearly one length.
LEMMA ShownClose ==
    ASSUME NEW text \in Nat, NEW baseline \in Nat, NEW o \in Nat, NEW p \in Nat, o - p \in -11..11
    PROVE  AnswerChars(text, [out |-> o, base |-> Largest(baseline, o)])
             - AnswerChars(text, [out |-> p, base |-> Largest(baseline, p)]) \in -8..8
<1> DEFINE c == Largest(baseline, o)
           d == Largest(baseline, p)
           u == Largest(0, c - o)
           v == Largest(0, d - p)
<1>1. c \in Nat /\ d \in Nat /\ u \in Nat /\ v \in Nat /\ c - d \in -11..11 /\ u - v \in -11..11
  BY DEF Largest
<1> HIDE DEF c, d, u, v
<1>2. /\ Digits(o) - Digits(p) \in -1..1 /\ Digits(o) \in Int /\ Digits(p) \in Int
      /\ Digits(c) - Digits(d) \in -1..1 /\ Digits(c) \in Int /\ Digits(d) \in Int
      /\ Digits(u) - Digits(v) \in -1..1 /\ Digits(u) \in Int /\ Digits(v) \in Int
  BY <1>1, DigitsClose
<1>3. RatioChars(o, c) \in 3..6 /\ RatioChars(p, d) \in 3..6
  BY RatioShort
<1>4. /\ AnswerChars(text, [out |-> o, base |-> c]) =
             text + 2 * Digits(o) + Digits(c) + 2 * Digits(u) + RatioChars(o, c)
      /\ AnswerChars(text, [out |-> p, base |-> d]) =
             text + 2 * Digits(p) + Digits(d) + 2 * Digits(v) + RatioChars(p, d)
  BY DEF AnswerChars, u, v
<1>5. AnswerChars(text, [out |-> o, base |-> c]) - AnswerChars(text, [out |-> p, base |-> d])
        \in -8..8
  <2>1. (text + 2 * Digits(o) + Digits(c) + 2 * Digits(u) + RatioChars(o, c))
          - (text + 2 * Digits(p) + Digits(d) + 2 * Digits(v) + RatioChars(p, d)) \in -8..8
    BY <1>2, <1>3, SumsClose
  <2> QED
    BY <1>4, <2>1
<1> QED
  BY <1>5 DEF c, d

LEMMA CountStep ==
    ASSUME CountInv, CountPass
    PROVE  CountInv'
<1> DEFINE c == count
           out == Real(c)
           base == Largest(c.baseline, out)
<1>1. /\ c \in Count /\ c.text \in Nat /\ c.baseline \in Nat /\ c.pass \in 0..3
      /\ c.shown = [out |-> c.out, base |-> c.base] /\ c.out \in Nat /\ c.base \in Nat
      /\ stage = "counting" /\ stage' = stage /\ ~ c.settled
  BY DEF CountInv, Count, CountPass, Counting, Passes
<1>2. PICK e \in 8..51 : out = Tokens(c.text + e)
  BY <1>1, ExtraChars DEF Real
<1>3. out \in Nat /\ base \in Nat
  BY <1>1, <1>2, TokensClose DEF Largest
<1>4. count' = [c EXCEPT !.pass = @ + 1, !.shown = [out |-> out, base |-> base],
                         !.out = out, !.base = base,
                         !.settled = out = c.out /\ base = c.base]
  BY DEF CountPass, Real
<1> HIDE DEF out, base
<1>5. /\ count' \in Count
      /\ count'.shown = [out |-> out, base |-> base] /\ count'.out = out /\ count'.base = base
      /\ count'.text = c.text /\ count'.baseline = c.baseline /\ count'.pass = c.pass + 1
      /\ count'.settled = (out = c.out /\ base = c.base)
  <2> HIDE DEF c
  <2>1. /\ c.pass + 1 \in 0..Passes /\ [out |-> out, base |-> base] \in [out : Nat, base : Nat]
        /\ (out = c.out /\ base = c.base) \in BOOLEAN
    BY <1>1, <1>3 DEF Passes
  <2>2. c \in Count
    BY <1>1
  <2> QED
    BY <1>3, <1>4, <2>1, <2>2 DEF Count
<1>6. Real(count') = Tokens(AnswerChars(c.text, [out |-> out, base |-> base]))
  BY <1>5 DEF Real
<1>7. ASSUME out = c.out /\ base = c.base PROVE out = Real(count')
  BY <1>1, <1>6, <1>7 DEF Real, out
<1>8. ASSUME c.pass >= 1 PROVE out - Real(count') \in -2..2
  <2>1. PICK f \in 8..51 : c.out = Tokens(c.text + f)
    BY <1>1, <1>8 DEF CountInv
  <2>2. c.base = Largest(c.baseline, c.out)
    BY <1>1, <1>8 DEF CountInv
  <2>3. out - c.out \in -11..11
    <3>1. PICK x \in Nat, y \in Nat : x = c.text + e /\ y = c.text + f
      BY <1>1
    <3>2. x - y \in -43..43
      BY <1>1, <3>1
    <3>3. out = Tokens(x) /\ c.out = Tokens(y)
      BY <1>2, <2>1, <3>1
    <3> QED
      BY <3>2, <3>3, TokensClose
  <2> DEFINE s == AnswerChars(c.text, [out |-> c.out, base |-> c.base])
             t == AnswerChars(c.text, [out |-> out, base |-> base])
  <2>4. s \in Nat /\ t \in Nat
    BY <1>1, <1>3, ExtraChars
  <2>5. c.out - out \in -11..11
    BY <1>1, <1>3, <2>3
  <2>6. s - t \in -8..8
    BY <1>1, <1>3, <2>2, <2>5, ShownClose DEF base
  <2>7. out = Tokens(s) /\ Real(count') = Tokens(t)
    BY <1>1, <1>6 DEF Real, out
  <2> HIDE DEF s, t
  <2> QED
    BY <2>4, <2>6, <2>7, TokensClose
<1>9. \E f \in 8..51 : out = Tokens(c.text + f)
  BY <1>2
<1>10. base = Largest(c.baseline, out)
  BY DEF base
<1>11. Real(count)' = Real(count')
  BY DEF Real
<1> HIDE DEF c
<1> QED
  BY <1>1, <1>5, <1>7, <1>8, <1>9, <1>10, <1>11 DEF CountInv, Count

-----------------------------------------------------------------------------
(* What is gathered.  A path the request names, and a result of the search,   *)
(* is still to be summarised, or is evidence, or the answer says why not.     *)

Stages == {"idle", "explicit", "search", "symbols", "symbol", "owners", "owner",
           "selected", "counting"}
Forced == {"duplicate", "diversity_limit", "item_limit", "budget_exhausted"}
Row == [path : Paths, line : Lines, score : Scores]
SymbolRow == [path : Paths, line : Lines]

WellPlaced(c) ==
    /\ 1 <= c.range[1] /\ c.range[1] <= Largest(1, c.range[2])
    /\ c.range[2] <= Length[c.path]
Found ==
    {c \in [path : Paths, range : Nat \X Nat, score : Nat,
            why : {"explicit", "search", "symbol", "owner"}, chars : Nat] : WellPlaced(c)}

EvidenceIn(cs, path, why) == \E i \in DOMAIN cs : cs[i].path = path /\ cs[i].why = why
SaidIn(om, why) == \E o \in om : o.why = why

NamedKept(named, cs, om, pending) ==
    \A path \in ToSet(named) :
        \/ EvidenceIn(cs, path, "explicit")
        \/ [why |-> "unreadable", path |-> path] \in om
        \/ path \in pending
RowsKept(found, limit, cs, om, pending) ==
    \A i \in DOMAIN found :
        \/ EvidenceIn(cs, found[i].path, "search")
        \/ SaidIn(om, "search_failed")
        \/ i > limit /\ SaidIn(om, "search_summary_limit")
        \/ found[i] \in pending

Waiting(at) == IF stage = at THEN ToSet(todo) ELSE {}

TypeInv ==
    /\ stage \in Stages
    /\ request \in [profile : {"minimal", "normal"}, terms : BOOLEAN, items : Nat]
    /\ explicit \in Seq(Paths) /\ rows \in Seq(Row)
    /\ stage \in {"explicit", "owner"} => todo \in Seq(Paths)
    /\ stage = "search" => todo \in Seq(Row)
    /\ stage = "symbol" => todo \in Seq(SymbolRow)
    /\ memo \subseteq Paths \X (Lines \cup {0, 1})
    /\ candidates \in Seq(Found) /\ selected \in Seq(Found)
    /\ \A o \in omitted : o.why \in Reasons
    /\ stage # "selected" => \A o \in omitted : o.why \notin Forced

GatherInv ==
    /\ TypeInv
    /\ stage \in {"idle", "explicit", "counting"} => rows = <<>>
    /\ NamedKept(explicit, candidates, omitted, Waiting("explicit"))
    /\ RowsKept(rows, SummaryLimit(Len(rows)), candidates, omitted, Waiting("search"))

\* What a summary makes is evidence of its type, whatever became of the file.
LEMMA CandidateFound ==
    ASSUME NEW path \in Paths, NEW anchor \in Nat, NEW score \in Nat,
           NEW why \in {"explicit", "search", "symbol", "owner"}
    PROVE  /\ Candidate(path, anchor, score, why) \in Found
           /\ Candidate(path, anchor, score, why).path = path
           /\ Candidate(path, anchor, score, why).why = why
<1> DEFINE c == Candidate(path, anchor, score, why)
           first == First(path, anchor)
           last == Smallest(Length[path], first + (IF anchor = 0 THEN 3 ELSE 5))
<1>1. Length[path] \in Nat /\ Chars[path] \in Nat
  BY ContextPackAssumption
<1>2. first \in Nat /\ 1 <= first /\ first <= Largest(1, Length[path])
  BY <1>1 DEF First, Largest, Smallest
<1>3. last \in Nat /\ last <= Length[path] /\ first <= Largest(1, last)
  <2> HIDE DEF first
  <2> QED
    BY <1>1, <1>2 DEF Largest, Smallest
<1>4. c = [path |-> path, range |-> <<first, last>>, score |-> score, why |-> why,
           chars |-> Chars[path]]
  BY DEF Candidate, LineRange
<1> HIDE DEF c, first, last
<1>5. WellPlaced(c)
  BY <1>2, <1>3, <1>4 DEF WellPlaced
<1>6. c \in [path : Paths, range : Nat \X Nat, score : Nat,
             why : {"explicit", "search", "symbol", "owner"}, chars : Nat]
  BY <1>1, <1>2, <1>3, <1>4
<1>7. c \in Found /\ c.path = path /\ c.why = why
  BY <1>4, <1>5, <1>6 DEF Found
<1> QED
  BY <1>7 DEF c

\* Evidence is never taken away, and what is appended is evidence.
LEMMA EvidenceGrows ==
    ASSUME NEW cs \in Seq(Found), NEW c \in Found
    PROVE  /\ Append(cs, c) \in Seq(Found)
           /\ EvidenceIn(Append(cs, c), c.path, c.why)
           /\ \A path, why : EvidenceIn(cs, path, why) => EvidenceIn(Append(cs, c), path, why)
<1>1. /\ Append(cs, c) \in Seq(Found) /\ Len(cs) \in Nat
      /\ DOMAIN Append(cs, c) = 1 .. Len(cs) + 1 /\ DOMAIN cs = 1 .. Len(cs)
      /\ Append(cs, c)[Len(cs) + 1] = c
      /\ \A i \in DOMAIN cs : Append(cs, c)[i] = cs[i]
  OBVIOUS
<1>2. EvidenceIn(Append(cs, c), c.path, c.why)
  BY <1>1 DEF EvidenceIn
<1>3. \A path, why : EvidenceIn(cs, path, why) => EvidenceIn(Append(cs, c), path, why)
  BY <1>1 DEF EvidenceIn
<1> QED
  BY <1>1, <1>2, <1>3

\* What was kept stays so when evidence and reasons grow and what is taken from the
\* queue is evidence or has its reason.
LEMMA NamedGrows ==
    ASSUME NEW named, NEW cs, NEW om, NEW P, NamedKept(named, cs, om, P),
           NEW ds, NEW more, NEW Q, om \subseteq more,
           \A path, why : EvidenceIn(cs, path, why) => EvidenceIn(ds, path, why),
           \A x \in P : \/ x \in Q \/ EvidenceIn(ds, x, "explicit")
                        \/ [why |-> "unreadable", path |-> x] \in more
    PROVE  NamedKept(named, ds, more, Q)
BY DEF NamedKept

LEMMA RowsGrow ==
    ASSUME NEW found, NEW limit, NEW cs, NEW om, NEW P, RowsKept(found, limit, cs, om, P),
           NEW ds, NEW more, NEW Q, om \subseteq more,
           \A path, why : EvidenceIn(cs, path, why) => EvidenceIn(ds, path, why),
           \A x \in P : \/ x \in Q \/ EvidenceIn(ds, x.path, "search")
                        \/ SaidIn(more, "search_failed")
    PROVE  RowsKept(found, limit, ds, more, Q)
BY DEF RowsKept, SaidIn

\* Of a queue, the head and the rest are all there is.
LEMMA HeadAndTail ==
    ASSUME NEW S, NEW s \in Seq(S), s # <<>>
    PROVE  /\ Head(s) \in S /\ Tail(s) \in Seq(S)
           /\ \A x \in ToSet(s) : x = Head(s) \/ x \in ToSet(Tail(s))
<1>1. Head(s) \in S /\ Tail(s) \in Seq(S) /\ Head(s) = s[1]
  OBVIOUS
<1>2. /\ Len(s) \in Nat \ {0} /\ DOMAIN s = 1 .. Len(s) /\ DOMAIN Tail(s) = 1 .. Len(s) - 1
      /\ \A i \in 1 .. Len(s) - 1 : Tail(s)[i] = s[i + 1]
  OBVIOUS
<1>3. ASSUME NEW i \in DOMAIN s PROVE s[i] = Head(s) \/ s[i] \in ToSet(Tail(s))
  <2>1. CASE i = 1
    BY <1>1, <2>1
  <2>2. CASE i # 1
    <3>1. i - 1 \in DOMAIN Tail(s) /\ Tail(s)[i - 1] = s[i]
      BY <1>2, <2>2
    <3> QED
      BY <3>1 DEF ToSet
  <2> QED
    BY <2>1, <2>2
<1> QED
  BY <1>1, <1>3 DEF ToSet

LEMMA BoundedSequences ==
    ASSUME NEW S, NEW n \in Nat, NEW s \in SeqOf(S, n)
    PROVE  s \in Seq(S)
<1>1. PICK m \in 0 .. n : s \in [1 .. m -> S]
  BY DEF SeqOf
<1> QED
  BY <1>1

-----------------------------------------------------------------------------
(* The steps before the selection.                                           *)

LEMMA BeginStep == ASSUME GatherInv, Begin PROVE GatherInv'
<1>1. /\ stage = "idle" /\ stage' = "explicit" /\ rows = <<>> /\ rows' = rows
      /\ explicit' \in Collected /\ todo' = explicit'
      /\ request' \in [profile : Profiles, terms : BOOLEAN, items : ItemCounts]
      /\ UNCHANGED <<memo, candidates, omitted, selected>>
  BY DEF Begin, GatherInv
<1>2. explicit' \in Seq(Paths)
  BY <1>1, ContextPackAssumption DEF Collected
<1>3. request' \in [profile : {"minimal", "normal"}, terms : BOOLEAN, items : Nat]
  BY <1>1, ContextPackAssumption
<1>4. TypeInv'
  BY <1>1, <1>2, <1>3 DEF GatherInv, TypeInv, Stages
<1>5. NamedKept(explicit, candidates, omitted, Waiting("explicit"))'
  BY <1>1 DEF NamedKept, Waiting
<1>6. RowsKept(rows, SummaryLimit(Len(rows)), candidates, omitted, Waiting("search"))'
  BY <1>1 DEF RowsKept
<1> QED
  BY <1>1, <1>4, <1>5, <1>6 DEF GatherInv

LEMMA NamedPathStep == ASSUME GatherInv, NamedPath PROVE GatherInv'
<1> DEFINE path == Head(todo)
<1>1. /\ stage = "explicit" /\ stage' = stage /\ todo' = Tail(todo) /\ todo # <<>>
      /\ UNCHANGED <<request, explicit, rows, selected>> /\ rows = <<>>
      /\ todo \in Seq(Paths) /\ candidates \in Seq(Found)
  BY DEF NamedPath, GatherInv, TypeInv
<1>2. path \in Paths /\ todo' \in Seq(Paths)
      /\ \A x \in ToSet(todo) : x = path \/ x \in ToSet(todo')
  BY <1>1, HeadAndTail
<1>3. /\ candidates' \in Seq(Found) /\ memo' \subseteq Paths \X (Lines \cup {0, 1})
      /\ omitted \subseteq omitted' /\ \A o \in omitted' \ omitted : o.why = "unreadable"
      /\ \A p, why : EvidenceIn(candidates, p, why) => EvidenceIn(candidates', p, why)
      /\ EvidenceIn(candidates', path, "explicit")
           \/ [why |-> "unreadable", path |-> path] \in omitted'
  <2>1. CASE Summarised(path, 0)
             /\ candidates' = Append(candidates, Candidate(path, 0, 12, "explicit"))
             /\ UNCHANGED omitted
    <3>1. PICK c \in Found : c = Candidate(path, 0, 12, "explicit") /\ c.path = path
                             /\ c.why = "explicit"
      BY <1>2, CandidateFound
    <3>2. memo' = memo \cup {<<path, 0>>} /\ memo \subseteq Paths \X (Lines \cup {0, 1})
      BY <2>1 DEF Summarised, GatherInv, TypeInv
    <3> QED
      BY <1>1, <1>2, <2>1, <3>1, <3>2, EvidenceGrows
  <2>2. CASE /\ Fails(path, 0)
             /\ omitted' = omitted \cup {[why |-> "unreadable", path |-> path]}
             /\ UNCHANGED candidates
    BY <1>1, <2>2 DEF Fails, GatherInv, TypeInv
  <2> QED
    BY <2>1, <2>2 DEF NamedPath
<1>4. TypeInv'
  BY <1>1, <1>2, <1>3 DEF GatherInv, TypeInv, Stages, Reasons, Forced
<1>5. Waiting("explicit") = ToSet(todo) /\ Waiting("explicit")' = ToSet(todo')
  BY <1>1 DEF Waiting
<1>6. NamedKept(explicit, candidates, omitted, Waiting("explicit"))
  BY DEF GatherInv
<1>7. NamedKept(explicit', candidates', omitted', ToSet(todo'))
  <2> HIDE DEF path
  <2> QED
    <3>1. \A x \in ToSet(todo) : \/ x \in ToSet(todo')
                                \/ EvidenceIn(candidates', x, "explicit")
                                \/ [why |-> "unreadable", path |-> x] \in omitted'
      BY <1>2, <1>3
    <3>2. NamedKept(explicit, candidates, omitted, ToSet(todo))
      BY <1>5, <1>6
    <3>3. NamedKept(explicit, candidates', omitted', ToSet(todo'))
      BY <1>3, <3>1, <3>2, NamedGrows
    <3> QED
      BY <1>1, <3>3
<1>8. RowsKept(rows, SummaryLimit(Len(rows)), candidates, omitted, Waiting("search"))'
  BY <1>1 DEF RowsKept
<1>9. NamedKept(explicit, candidates, omitted, Waiting("explicit"))'
  BY <1>5, <1>7
<1> QED
  BY <1>1, <1>4, <1>8, <1>9 DEF GatherInv

\* A summary that succeeds adds evidence of its kind.
LEMMA SummaryAdds ==
    ASSUME TypeInv, NEW path \in Paths, NEW anchor \in Lines \cup {0, 1}, NEW score \in Nat,
           NEW why \in {"explicit", "search", "symbol", "owner"},
           Summarised(path, anchor),
           candidates' = Append(candidates, Candidate(path, anchor, score, why))
    PROVE  /\ candidates' \in Seq(Found) /\ memo' \subseteq Paths \X (Lines \cup {0, 1})
           /\ EvidenceIn(candidates', path, why)
           /\ \A p, y : EvidenceIn(candidates, p, y) => EvidenceIn(candidates', p, y)
<1>1. anchor \in Nat
  BY ContextPackAssumption
<1>2. PICK c \in Found : c = Candidate(path, anchor, score, why) /\ c.path = path
                         /\ c.why = why
  BY <1>1, CandidateFound
<1>3. memo' = memo \cup {<<path, anchor>>} /\ memo \subseteq Paths \X (Lines \cup {0, 1})
      /\ candidates \in Seq(Found)
  BY DEF Summarised, TypeInv
<1> QED
  BY <1>2, <1>3, EvidenceGrows

\* A reason added to the answer is said.
LEMMA ReasonSaid ==
    ASSUME NEW om, NEW why
    PROVE  SaidIn(om \cup {[why |-> why]}, why)
<1>1. PICK o : o = [why |-> why]
  OBVIOUS
<1>2. o.why = why /\ o \in om \cup {[why |-> why]}
  BY <1>1
<1> QED
  BY <1>2 DEF SaidIn

LEMMA SearchHitStep == ASSUME GatherInv, SearchHit PROVE GatherInv'
<1> DEFINE row == Head(todo)
<1>1. /\ stage = "search" /\ todo # <<>> /\ todo \in Seq(Row) /\ TypeInv
      /\ UNCHANGED <<request, explicit, rows, selected>> /\ candidates \in Seq(Found)
  BY DEF SearchHit, GatherInv, TypeInv
<1>2. /\ row \in Row /\ Tail(todo) \in Seq(Row)
      /\ \A x \in ToSet(todo) : x = row \/ x \in ToSet(Tail(todo))
  BY <1>1, HeadAndTail
<1>3. row.path \in Paths /\ row.line \in Lines /\ row.score + 4 \in Nat
  BY <1>2, ContextPackAssumption DEF Row
<1>4. /\ NamedKept(explicit, candidates, omitted, {})
      /\ RowsKept(rows, SummaryLimit(Len(rows)), candidates, omitted, ToSet(todo))
  BY <1>1 DEF GatherInv, Waiting
<1>5. SummaryLimit(Len(rows))' = SummaryLimit(Len(rows))
  BY <1>1 DEF SummaryLimit
<1>6. CASE /\ Summarised(row.path, row.line)
           /\ candidates' = Append(candidates,
                  Candidate(row.path, row.line, row.score + 4, "search"))
           /\ todo' = Tail(todo)
           /\ UNCHANGED <<stage, omitted>>
  <2> HIDE DEF row
  <2>1. /\ candidates' \in Seq(Found) /\ memo' \subseteq Paths \X (Lines \cup {0, 1})
        /\ EvidenceIn(candidates', row.path, "search")
        /\ \A p, y : EvidenceIn(candidates, p, y) => EvidenceIn(candidates', p, y)
    BY <1>1, <1>3, <1>6, SummaryAdds
  <2>2. TypeInv'
    BY <1>1, <1>2, <1>6, <2>1 DEF TypeInv, Stages
  <2>3. NamedKept(explicit, candidates', omitted', {})
    BY <1>4, <1>6, <2>1, NamedGrows
  <2>4. RowsKept(rows, SummaryLimit(Len(rows)), candidates', omitted', ToSet(todo'))
    <3>1. \A x \in ToSet(todo) : \/ x \in ToSet(todo') \/ EvidenceIn(candidates', x.path, "search")
                                 \/ SaidIn(omitted', "search_failed")
      BY <1>2, <1>6, <2>1
    <3>2. omitted \subseteq omitted'
      BY <1>6
    <3> QED
      BY <1>4, <2>1, <3>1, <3>2, RowsGrow
  <2>5. Waiting("explicit")' = {} /\ Waiting("search")' = ToSet(todo')
    BY <1>1, <1>6 DEF Waiting
  <2>6. NamedKept(explicit, candidates, omitted, Waiting("explicit"))'
    BY <1>1, <2>3, <2>5
  <2>7. RowsKept(rows, SummaryLimit(Len(rows)), candidates, omitted, Waiting("search"))'
    BY <1>1, <1>5, <2>4, <2>5
  <2> QED
    BY <1>1, <1>6, <2>2, <2>6, <2>7 DEF GatherInv
<1>7. CASE SearchFails /\ UNCHANGED memo
  <2>1. /\ stage' = "symbols" /\ todo' = <<>> /\ omitted' = omitted \cup {[why |-> "search_failed"]}
        /\ UNCHANGED <<memo, candidates>>
    BY <1>7 DEF SearchFails, FailureNoted
  <2>2. TypeInv'
    BY <1>1, <2>1 DEF TypeInv, Stages, Reasons, Forced
  <2>3. NamedKept(explicit, candidates', omitted', {})
    BY <1>4, <2>1, NamedGrows
  <2>4. RowsKept(rows, SummaryLimit(Len(rows)), candidates', omitted', {})
    <3>1. SaidIn(omitted', "search_failed")
      BY <2>1, ReasonSaid
    <3> QED
      BY <3>1 DEF RowsKept
  <2>5. Waiting("explicit")' = {} /\ Waiting("search")' = {}
    BY <2>1 DEF Waiting
  <2>6. NamedKept(explicit, candidates, omitted, Waiting("explicit"))'
    BY <1>1, <2>3, <2>5
  <2>7. RowsKept(rows, SummaryLimit(Len(rows)), candidates, omitted, Waiting("search"))'
    BY <1>1, <1>5, <2>4, <2>5
  <2> QED
    BY <2>1, <2>2, <2>6, <2>7 DEF GatherInv
<1> QED
  BY <1>6, <1>7 DEF SearchHit, Fails, SearchFails

LEMMA SearchStep == ASSUME GatherInv, Search PROVE GatherInv'
<1>1. /\ stage = "explicit" /\ todo = <<>> /\ TypeInv /\ rows = <<>>
      /\ UNCHANGED <<request, explicit, selected>>
  BY DEF Search, GatherInv
<1>2. NamedKept(explicit, candidates, omitted, {})
  BY <1>1 DEF GatherInv, Waiting, ToSet
<1>3. CASE SearchFails /\ UNCHANGED rows
  <2>1. /\ stage' = "symbols" /\ todo' = <<>> /\ omitted' = omitted \cup {[why |-> "search_failed"]}
        /\ UNCHANGED <<memo, candidates>>
    BY <1>3 DEF SearchFails, FailureNoted
  <2>2. TypeInv'
    BY <1>1, <1>3, <2>1 DEF TypeInv, Stages, Reasons, Forced
  <2>3. NamedKept(explicit, candidates', omitted', {})
    BY <1>2, <2>1, NamedGrows
  <2>4. NamedKept(explicit, candidates, omitted, Waiting("explicit"))'
    BY <1>1, <2>1, <2>3 DEF Waiting
  <2>5. RowsKept(rows, SummaryLimit(Len(rows)), candidates, omitted, Waiting("search"))'
    BY <1>1, <1>3 DEF RowsKept
  <2> QED
    BY <2>1, <2>2, <2>4, <2>5 DEF GatherInv
<1>4. CASE stage' = "symbols" /\ UNCHANGED <<rows, todo, omitted, memo, candidates>>
  <2>1. TypeInv'
    BY <1>1, <1>4 DEF TypeInv, Stages
  <2>2. NamedKept(explicit, candidates, omitted, Waiting("explicit"))'
    BY <1>1, <1>2, <1>4 DEF Waiting
  <2>3. RowsKept(rows, SummaryLimit(Len(rows)), candidates, omitted, Waiting("search"))'
    BY <1>1, <1>4 DEF RowsKept
  <2> QED
    BY <1>4, <2>1, <2>2, <2>3 DEF GatherInv
<1>5. ASSUME NEW found \in SearchRows,
             /\ stage' = "search"
             /\ rows' = found
             /\ todo' = SubSeq(found, 1, SummaryLimit(Len(found)))
             /\ omitted' = IF Len(found) > SummaryLimit(Len(found))
                           THEN omitted \cup {[why |-> "search_summary_limit"]}
                           ELSE omitted
             /\ UNCHANGED <<memo, candidates>>
      PROVE  GatherInv'
  <2> DEFINE limit == SummaryLimit(Len(found))
  <2>1. found \in Seq(Row) /\ Len(found) \in Nat
    BY BoundedSequences, ContextPackAssumption DEF SearchRows, Row
  <2>2. limit \in 0 .. Len(found)
    <3>1. request.items \in Nat /\ MinResults \in Nat
      BY <1>1, ContextPackAssumption DEF TypeInv
    <3> QED
      BY <2>1, <3>1 DEF SummaryLimit, Smallest, Largest
  <2>3. SummaryLimit(Len(rows))' = limit
    BY <1>1, <1>5 DEF SummaryLimit
  <2> HIDE DEF limit
  <2>4. todo' = SubSeq(found, 1, limit)
    BY <1>5 DEF limit
  <2>5. /\ todo' \in Seq(Row) /\ DOMAIN todo' = 1 .. limit
        /\ \A i \in 1 .. limit : todo'[i] = found[i]
    BY <2>1, <2>2, <2>4
  <2>6. /\ omitted \subseteq omitted' /\ \A o \in omitted' \ omitted : o.why = "search_summary_limit"
        /\ Len(found) > limit => SaidIn(omitted', "search_summary_limit")
    <3>1. omitted' = IF Len(found) > limit THEN omitted \cup {[why |-> "search_summary_limit"]}
                     ELSE omitted
      BY <1>5 DEF limit
    <3>2. SaidIn(omitted \cup {[why |-> "search_summary_limit"]}, "search_summary_limit")
      BY ReasonSaid
    <3>3. CASE Len(found) > limit
      <4>1. omitted' = omitted \cup {[why |-> "search_summary_limit"]}
        BY <3>1, <3>3
      <4>2. SaidIn(omitted', "search_summary_limit")
        BY <3>2, <4>1
      <4> QED
        BY <4>1, <4>2
    <3> QED
      BY <3>1, <3>3
  <2>7. TypeInv'
    BY <1>1, <1>5, <2>1, <2>5, <2>6 DEF TypeInv, Stages, Reasons, Forced
  <2>8. RowsKept(found, limit, candidates', omitted', ToSet(todo'))
    <3> SUFFICES ASSUME NEW i \in DOMAIN found
                 PROVE  \/ i > limit /\ SaidIn(omitted', "search_summary_limit")
                        \/ found[i] \in ToSet(todo')
      BY DEF RowsKept
    <3>1. i \in 1 .. Len(found)
      BY <2>1
    <3>2. CASE i > limit
      BY <2>1, <2>2, <2>6, <3>1, <3>2
    <3>3. CASE ~ i > limit
      <4>1. i \in 1 .. limit
        BY <2>2, <3>1, <3>3
      <4>2. found[i] = todo'[i] /\ i \in DOMAIN todo'
        BY <2>5, <4>1
      <4> QED
        BY <4>2 DEF ToSet
    <3> QED
      BY <3>2, <3>3
  <2>9. RowsKept(rows, SummaryLimit(Len(rows)), candidates, omitted, Waiting("search"))'
    BY <1>5, <2>3, <2>8 DEF Waiting
  <2>10. NamedKept(explicit, candidates', omitted', {})
    BY <1>2, <1>5, <2>6, NamedGrows
  <2>11. NamedKept(explicit, candidates, omitted, Waiting("explicit"))'
    BY <1>1, <1>5, <2>10 DEF Waiting
  <2> QED
    BY <1>5, <2>7, <2>9, <2>11 DEF GatherInv
<1> QED
  BY <1>3, <1>4, <1>5 DEF Search

\* A step after the search that takes no evidence and no reason away.
LEMMA LaterStep ==
    ASSUME GatherInv, TypeInv', UNCHANGED <<request, explicit, rows>>,
           Waiting("explicit") = {}, Waiting("search") = {},
           omitted \subseteq omitted', stage' \notin {"idle", "explicit", "counting"},
           \A p, y : EvidenceIn(candidates, p, y) => EvidenceIn(candidates', p, y)
    PROVE  GatherInv'
<1>1. /\ NamedKept(explicit, candidates, omitted, {})
      /\ RowsKept(rows, SummaryLimit(Len(rows)), candidates, omitted, {})
  BY DEF GatherInv
<1>2. SummaryLimit(Len(rows))' = SummaryLimit(Len(rows))
  BY DEF SummaryLimit
<1>3. NamedKept(explicit, candidates', omitted', Waiting("explicit")')
  BY <1>1, NamedGrows
<1>4. RowsKept(rows, SummaryLimit(Len(rows)), candidates', omitted', Waiting("search")')
  BY <1>1, RowsGrow
<1>5. NamedKept(explicit, candidates, omitted, Waiting("explicit"))'
  BY <1>3
<1>6. RowsKept(rows, SummaryLimit(Len(rows)), candidates, omitted, Waiting("search"))'
  BY <1>2, <1>4
<1> QED
  BY <1>5, <1>6 DEF GatherInv

\* A step that lets go of what was gathered.
LEMMA ResetStep ==
    ASSUME stage' \in {"idle", "counting"}, request' = NoRequest, explicit' = <<>>,
           rows' = <<>>, memo' = {}, candidates' = <<>>, omitted' = {}, selected' = <<>>
    PROVE  GatherInv'
<1>1. TypeInv'
  BY DEF TypeInv, Stages, NoRequest
<1>2. NamedKept(explicit, candidates, omitted, Waiting("explicit"))'
  BY DEF NamedKept, ToSet
<1>3. RowsKept(rows, SummaryLimit(Len(rows)), candidates, omitted, Waiting("search"))'
  BY DEF RowsKept
<1> QED
  BY <1>1, <1>2, <1>3 DEF GatherInv

LEMMA SymbolSteps == ASSUME GatherInv, SearchDone \/ Symbols \/ SymbolHit \/ SymbolsDone
                     PROVE  GatherInv'
<1>1. CASE SearchDone \/ SymbolsDone
  <2>1. /\ todo = <<>> /\ stage' \in {"symbols", "owners"} /\ stage \in {"search", "symbol"}
        /\ UNCHANGED <<request, explicit, rows, todo, memo, candidates, omitted, selected>>
    BY <1>1 DEF SearchDone, SymbolsDone, gathering
  <2>2. TypeInv'
    BY <2>1 DEF GatherInv, TypeInv, Stages
  <2>3. Waiting("explicit") = {} /\ Waiting("search") = {}
    BY <2>1 DEF Waiting, ToSet
  <2> QED
    BY <2>1, <2>2, <2>3, LaterStep
<1>2. CASE Symbols
  <2>1. /\ stage = "symbols" /\ UNCHANGED <<request, explicit, rows, memo, candidates, selected>>
        /\ omitted \subseteq omitted' /\ \A o \in omitted' \ omitted : o.why = "early_stop"
    BY <1>2 DEF Symbols
  <2>2. \/ stage' = "owners"
        \/ stage' = "symbol" /\ todo' \in Seq(SymbolRow)
    BY <1>2, BoundedSequences DEF Symbols, SymbolRows, SymbolRow
  <2>3. TypeInv'
    BY <2>1, <2>2 DEF GatherInv, TypeInv, Stages, Reasons, Forced
  <2>4. Waiting("explicit") = {} /\ Waiting("search") = {}
    BY <2>1 DEF Waiting
  <2> QED
    BY <2>1, <2>2, <2>3, <2>4, LaterStep
<1>3. CASE SymbolHit
  <2> DEFINE row == Head(todo)
  <2>1. /\ stage = "symbol" /\ todo # <<>> /\ todo \in Seq(SymbolRow) /\ TypeInv
        /\ UNCHANGED <<request, explicit, rows, omitted, selected>> /\ candidates \in Seq(Found)
    BY <1>3 DEF SymbolHit, GatherInv, TypeInv
  <2>2. row \in SymbolRow /\ Tail(todo) \in Seq(SymbolRow)
    BY <2>1, HeadAndTail
  <2>3. row.path \in Paths /\ row.line \in Lines
    BY <2>2 DEF SymbolRow
  <2>4. Waiting("explicit") = {} /\ Waiting("search") = {}
    BY <2>1 DEF Waiting
  <2>5. CASE /\ Summarised(row.path, row.line)
             /\ candidates' = Append(candidates, Candidate(row.path, row.line, 8, "symbol"))
             /\ todo' = Tail(todo)
             /\ UNCHANGED stage
    <3> HIDE DEF row
    <3>1. /\ candidates' \in Seq(Found) /\ memo' \subseteq Paths \X (Lines \cup {0, 1})
          /\ \A p, y : EvidenceIn(candidates, p, y) => EvidenceIn(candidates', p, y)
      BY <2>1, <2>3, <2>5, SummaryAdds
    <3>2. TypeInv'
      BY <2>1, <2>2, <2>5, <3>1 DEF TypeInv, Stages
    <3> QED
      BY <2>1, <2>4, <2>5, <3>1, <3>2, LaterStep
  <2>6. CASE UNCHANGED <<memo, candidates>> /\ stage' = "owners" /\ todo' = <<>>
    <3>1. TypeInv'
      BY <2>1, <2>6 DEF TypeInv, Stages
    <3> QED
      BY <2>1, <2>4, <2>6, <3>1, LaterStep
  <2> QED
    BY <1>3, <2>5, <2>6 DEF SymbolHit, Fails
<1> QED
  BY <1>1, <1>2, <1>3

LEMMA OwnerSteps == ASSUME GatherInv, Owners \/ Owner PROVE GatherInv'
<1>1. CASE /\ stage = "owners" /\ stage' = "owner" /\ todo' \in OwnerRows
           /\ UNCHANGED <<request, explicit, rows, memo, candidates, omitted, selected>>
  <2>1. todo' \in Seq(Paths)
    <3>1. PICK direct \in DirectOwners, found \in FoundOwners : todo' = direct \o found
      BY <1>1 DEF OwnerRows
    <3>2. PICK m \in 0 .. 1 : direct \in [1 .. m -> TestPaths]
      BY DEF DirectOwners, SeqOf
    <3>3. PICK n \in 0 .. 1 : found \in [1 .. n -> TestPaths]
      BY DEF FoundOwners, SeqOf
    <3>4. direct \in Seq(Paths) /\ found \in Seq(Paths)
      <4>1. direct \in [1 .. m -> Paths] /\ found \in [1 .. n -> Paths]
        BY <3>2, <3>3, ContextPackAssumption
      <4> QED
        BY <4>1
    <3> QED
      BY <3>1, <3>4
  <2>2. TypeInv'
    BY <1>1, <2>1 DEF GatherInv, TypeInv, Stages
  <2>3. Waiting("explicit") = {} /\ Waiting("search") = {}
    BY <1>1 DEF Waiting
  <2> QED
    BY <1>1, <2>2, <2>3, LaterStep
<1>2. CASE Owners /\ stage' = "idle"
  BY <1>2, ResetStep DEF Owners
<1>3. CASE Owner
  <2> DEFINE path == Head(todo)
  <2>1. /\ stage = "owner" /\ stage' = stage /\ todo # <<>> /\ todo \in Seq(Paths) /\ TypeInv
        /\ UNCHANGED <<request, explicit, rows, omitted, selected>> /\ candidates \in Seq(Found)
        /\ todo' = Tail(todo)
    BY <1>3 DEF Owner, GatherInv, TypeInv
  <2>2. path \in Paths /\ Tail(todo) \in Seq(Paths)
    BY <2>1, HeadAndTail
  <2>3. Waiting("explicit") = {} /\ Waiting("search") = {}
    BY <2>1 DEF Waiting
  <2>4. /\ candidates' \in Seq(Found) /\ memo' \subseteq Paths \X (Lines \cup {0, 1})
        /\ \A p, y : EvidenceIn(candidates, p, y) => EvidenceIn(candidates', p, y)
    <3>1. CASE /\ Summarised(path, 1)
               /\ candidates' = Append(candidates, Candidate(path, 1, 10, "owner"))
      <4> HIDE DEF path
      <4> QED
        BY <2>1, <2>2, <3>1, SummaryAdds
    <3>2. CASE Fails(path, 1) /\ UNCHANGED candidates
      BY <2>1, <3>2 DEF Fails, TypeInv
    <3> QED
      BY <1>3, <3>1, <3>2 DEF Owner
  <2>5. TypeInv'
    BY <2>1, <2>2, <2>4 DEF TypeInv, Stages
  <2> QED
    BY <2>1, <2>3, <2>4, <2>5, LaterStep
<1> QED
  BY <1>1, <1>2, <1>3 DEF Owners

LEMMA AnswerSteps == ASSUME GatherInv, Assemble \/ CountPass \/ Answer \/ UNCHANGED vars
                     PROVE  GatherInv'
<1>1. CASE Assemble
  BY <1>1, ResetStep DEF Assemble
<1>2. CASE CountPass \/ UNCHANGED vars
  <2>1. UNCHANGED <<stage, request, explicit, rows, todo, memo, candidates, omitted, selected>>
    BY <1>2 DEF CountPass, gathering, vars
  <2> QED
    BY <2>1 DEF GatherInv, TypeInv, Waiting, SummaryLimit
<1>3. CASE Answer
  <2>1. /\ UNCHANGED <<request, explicit, rows, todo, memo, candidates, omitted, selected>>
        /\ stage = "counting" /\ stage' = "idle"
    BY <1>3 DEF Answer, gathering
  <2>2. TypeInv'
    BY <2>1 DEF GatherInv, TypeInv, Stages
  <2>3. Waiting("explicit")' = Waiting("explicit") /\ Waiting("search")' = Waiting("search")
        /\ SummaryLimit(Len(rows))' = SummaryLimit(Len(rows))
    BY <2>1 DEF Waiting, SummaryLimit
  <2> QED
    BY <2>1, <2>2, <2>3 DEF GatherInv
<1> QED
  BY <1>1, <1>2, <1>3

-----------------------------------------------------------------------------
(* The sort.  Precedes is a strict total order of the places, so the number   *)
(* of places that precede a place is where its candidate goes.                *)

Ahead(s, i) == {j \in DOMAIN s : Precedes(s, j, i)}

\* What the order compares are numbers.
LEMMA Compared ==
    ASSUME NEW c \in Found
    PROVE  c.score \in Nat /\ c.path \in Nat /\ c.range[1] \in Nat /\ c.chars \in Nat
<1>1. c.score \in Nat /\ c.path \in Paths /\ c.range \in Nat \X Nat /\ c.chars \in Nat
  BY DEF Found
<1> QED
  BY <1>1, ContextPackAssumption

LEMMA PrecedesTotal ==
    ASSUME NEW s \in Seq(Found), NEW i \in DOMAIN s, NEW j \in DOMAIN s
    PROVE  /\ ~ Precedes(s, i, i)
           /\ i # j => Precedes(s, i, j) \/ Precedes(s, j, i)
           /\ Precedes(s, i, j) => ~ Before(s[j], s[i])
<1>1. s[i] \in Found /\ s[j] \in Found /\ i \in Nat /\ j \in Nat
  OBVIOUS
<1>2. /\ s[i].score \in Nat /\ s[i].path \in Nat /\ s[i].range[1] \in Nat
      /\ s[j].score \in Nat /\ s[j].path \in Nat /\ s[j].range[1] \in Nat
  BY <1>1, Compared
<1> QED
  BY <1>1, <1>2 DEF Precedes, Before

LEMMA BeforeTransitive ==
    ASSUME NEW a \in Found, NEW b \in Found, NEW c \in Found
    PROVE  /\ ~ Before(b, a) /\ Before(b, c) => Before(a, c)
           /\ Before(a, b) /\ ~ Before(c, b) => Before(a, c)
           /\ Before(a, b) => ~ Before(b, a)
<1>1. /\ a.score \in Nat /\ a.path \in Nat /\ a.range[1] \in Nat
      /\ b.score \in Nat /\ b.path \in Nat /\ b.range[1] \in Nat
      /\ c.score \in Nat /\ c.path \in Nat /\ c.range[1] \in Nat
  BY Compared
<1>2. ~ Before(b, a) /\ Before(b, c) => Before(a, c)
  BY <1>1 DEF Before
<1>3. Before(a, b) /\ ~ Before(c, b) => Before(a, c)
  BY <1>1 DEF Before
<1>4. Before(a, b) => ~ Before(b, a)
  BY <1>1 DEF Before
<1> QED
  BY <1>2, <1>3, <1>4

LEMMA PrecedesTransitive ==
    ASSUME NEW s \in Seq(Found), NEW i \in DOMAIN s, NEW j \in DOMAIN s, NEW k \in DOMAIN s,
           Precedes(s, i, j), Precedes(s, j, k)
    PROVE  Precedes(s, i, k)
<1>1. s[i] \in Found /\ s[j] \in Found /\ s[k] \in Found /\ i \in Nat /\ j \in Nat /\ k \in Nat
  OBVIOUS
<1>2. \A a, b, c \in Found :
        /\ ~ Before(b, a) /\ Before(b, c) => Before(a, c)
        /\ Before(a, b) /\ ~ Before(c, b) => Before(a, c)
        /\ Before(a, b) => ~ Before(b, a)
  BY BeforeTransitive
<1>3. CASE Before(s[i], s[j]) \/ Before(s[j], s[k])
  <2>1. Before(s[i], s[k])
    BY <1>1, <1>2, <1>3 DEF Precedes
  <2> QED
    BY <2>1 DEF Precedes
<1>4. CASE ~ Before(s[i], s[j]) /\ ~ Before(s[j], s[k])
  <2>1. i < k /\ ~ Before(s[j], s[i]) /\ ~ Before(s[k], s[j])
    BY <1>1, <1>4 DEF Precedes
  <2>2. ~ Before(s[k], s[i])
    BY <1>1, <1>2, <1>4, <2>1
  <2> QED
    BY <2>1, <2>2 DEF Precedes
<1> QED
  BY <1>3, <1>4

\* Of two places the one that precedes the other has fewer ahead of it.
LEMMA PlacesApart ==
    ASSUME NEW s \in Seq(Found)
    PROVE  /\ IsFiniteSet(DOMAIN s) /\ Cardinality(DOMAIN s) = Len(s) /\ Len(s) \in Nat
           /\ \A i \in DOMAIN s : Cardinality(Ahead(s, i)) \in 0 .. Len(s) - 1
           /\ \A i, j \in DOMAIN s : Precedes(s, i, j)
                => Cardinality(Ahead(s, i)) < Cardinality(Ahead(s, j))
<1> DEFINE all == DOMAIN s
<1>1. all = 1 .. Len(s) /\ Len(s) \in Nat
  OBVIOUS
<1>2. IsFiniteSet(all) /\ Cardinality(all) = Len(s)
  <2>1. /\ IsFiniteSet(1 .. Len(s))
        /\ Cardinality(1 .. Len(s)) = IF 1 > Len(s) THEN 0 ELSE Len(s) - 1 + 1
    BY <1>1, FS_Interval
  <2> QED
    BY <1>1, <2>1
<1>3. \A S \in SUBSET all : IsFiniteSet(S) /\ Cardinality(S) \in Nat
                            /\ Cardinality(S) <= Cardinality(all)
  BY <1>2, FS_Subset, FS_CardinalityType
<1>4. ASSUME NEW S \in SUBSET all, NEW T \in SUBSET S, NEW x \in S, x \notin T
      PROVE  Cardinality(T) < Cardinality(S)
  <2>1. IsFiniteSet(S) /\ Cardinality(S) \in Nat /\ Cardinality(T) \in Nat
    BY <1>3
  <2>2. Cardinality(T) <= Cardinality(S) /\ (Cardinality(S) = Cardinality(T) => S = T)
    BY <2>1, FS_Subset
  <2> QED
    BY <1>4, <2>1, <2>2
<1>5. ASSUME NEW i \in all
      PROVE  Cardinality(Ahead(s, i)) \in 0 .. Len(s) - 1
  <2>1. Ahead(s, i) \in SUBSET all /\ i \notin Ahead(s, i)
    BY PrecedesTotal DEF Ahead
  <2>2. Cardinality(Ahead(s, i)) < Cardinality(all) /\ Cardinality(Ahead(s, i)) \in Nat
    BY <1>3, <1>4, <2>1
  <2> QED
    BY <1>1, <1>2, <2>2
<1>6. ASSUME NEW i \in all, NEW j \in all, Precedes(s, i, j)
      PROVE  Cardinality(Ahead(s, i)) < Cardinality(Ahead(s, j))
  <2>1. Ahead(s, i) \subseteq Ahead(s, j)
    BY <1>6, PrecedesTransitive DEF Ahead
  <2>2. i \in Ahead(s, j) /\ i \notin Ahead(s, i) /\ Ahead(s, j) \in SUBSET all
    BY <1>6, PrecedesTotal DEF Ahead
  <2> QED
    BY <1>4, <2>1, <2>2
<1> QED
  BY <1>1, <1>2, <1>5, <1>6

\* As many places as candidates, and no two candidates at one place.
LEMMA EveryPlaceTaken ==
    ASSUME NEW s \in Seq(Found), NEW k \in DOMAIN s
    PROVE  \E i \in DOMAIN s : Cardinality(Ahead(s, i)) = k - 1
<1> DEFINE all == DOMAIN s
           n == Len(s)
           place == [i \in all |-> Cardinality(Ahead(s, i))]
<1>1. /\ IsFiniteSet(all) /\ Cardinality(all) = n /\ n \in Nat /\ k \in 1 .. n
      /\ \A i \in all : place[i] \in 0 .. n - 1
  BY PlacesApart
<1>2. ASSUME NEW i \in all, NEW j \in all, i # j
      PROVE  place[i] # place[j]
  <2>1. Precedes(s, i, j) \/ Precedes(s, j, i)
    BY <1>2, PrecedesTotal
  <2>2. place[i] \in Nat /\ place[j] \in Nat
    BY <1>1
  <2> QED
    BY <2>1, <2>2, PlacesApart
<1>3. IsFiniteSet(0 .. n - 1) /\ Cardinality(0 .. n - 1) = n
  <2>1. n - 1 \in Int /\ 0 \in Int
    BY <1>1
  <2>2. /\ IsFiniteSet(0 .. n - 1)
        /\ Cardinality(0 .. n - 1) = IF 0 > n - 1 THEN 0 ELSE (n - 1) - 0 + 1
    <3> HIDE DEF n
    <3> QED
      BY <2>1, FS_Interval
  <2> QED
    BY <1>1, <2>2
<1>4. place \in Injection(all, 0 .. n - 1)
  BY <1>1, <1>2, Fun_IsInj
<1>5. place \in Surjection(all, 0 .. n - 1)
  BY <1>1, <1>3, <1>4, FS_Injection
<1>6. k - 1 \in 0 .. n - 1
  BY <1>1
<1>7. \E i \in all : place[i] = k - 1
  BY <1>5, <1>6 DEF Surjection
<1> QED
  BY <1>7

\* The sorted candidates are the candidates, none after one that ranks lower.
LEMMA SortedIsOrdered ==
    ASSUME NEW s \in Seq(Found)
    PROVE  /\ Sorted(s) \in Seq(Found) /\ Len(Sorted(s)) = Len(s)
           /\ \A k \in DOMAIN s : \E i \in DOMAIN s : Sorted(s)[k] = s[i]
           /\ \A i \in DOMAIN s : \E k \in DOMAIN s : Sorted(s)[k] = s[i]
           /\ \A k, l \in DOMAIN s : k < l => ~ Before(Sorted(s)[l], Sorted(s)[k])
<1> DEFINE n == Len(s)
           order == [k \in DOMAIN s |-> CHOOSE i \in DOMAIN s : Cardinality(Ahead(s, i)) = k - 1]
<1>1. DOMAIN s = 1 .. n /\ n \in Nat
  OBVIOUS
<1>2. \A k \in DOMAIN s : order[k] \in DOMAIN s /\ Cardinality(Ahead(s, order[k])) = k - 1
  BY EveryPlaceTaken
<1>3. Sorted(s) = [k \in DOMAIN s |-> s[order[k]]]
  BY DEF Sorted, Ahead
<1> HIDE DEF order
<1>4. Sorted(s) \in Seq(Found) /\ Len(Sorted(s)) = n
  <2>1. \A k \in 1 .. n : s[order[k]] \in Found
    BY <1>1, <1>2
  <2>2. Sorted(s) = [k \in 1 .. n |-> s[order[k]]]
    BY <1>1, <1>3
  <2> HIDE DEF n
  <2> QED
    BY <1>1, <2>1, <2>2
<1>5. ASSUME NEW i \in DOMAIN s PROVE \E k \in DOMAIN s : Sorted(s)[k] = s[i]
  <2>1. PICK k \in DOMAIN s : k - 1 = Cardinality(Ahead(s, i))
    <3>1. Cardinality(Ahead(s, i)) \in 0 .. n - 1
      BY PlacesApart
    <3>2. Cardinality(Ahead(s, i)) + 1 \in DOMAIN s
      BY <1>1, <3>1
    <3> QED
      BY <3>1, <3>2
  <2>2. order[k] \in DOMAIN s /\ Cardinality(Ahead(s, order[k])) = Cardinality(Ahead(s, i))
    BY <1>2, <2>1
  <2>3. ASSUME order[k] # i PROVE FALSE
    <3>1. Precedes(s, i, order[k]) \/ Precedes(s, order[k], i)
      BY <2>2, <2>3, PrecedesTotal
    <3>2. Cardinality(Ahead(s, i)) \in 0 .. n - 1
      BY PlacesApart
    <3> QED
      BY <2>2, <3>1, <3>2, PlacesApart
  <2> QED
    BY <1>3, <2>3
<1>6. ASSUME NEW k \in DOMAIN s, NEW l \in DOMAIN s, k < l
      PROVE  ~ Before(Sorted(s)[l], Sorted(s)[k])
  <2>1. /\ order[k] \in DOMAIN s /\ Cardinality(Ahead(s, order[k])) = k - 1
        /\ order[l] \in DOMAIN s /\ Cardinality(Ahead(s, order[l])) = l - 1
    BY <1>2
  <2>2. order[k] # order[l] /\ ~ Precedes(s, order[l], order[k])
    BY <1>1, <1>6, <2>1, PlacesApart
  <2>3. Precedes(s, order[k], order[l])
    BY <2>1, <2>2, PrecedesTotal
  <2>4. ~ Before(s[order[l]], s[order[k]])
    BY <2>1, <2>3, PrecedesTotal
  <2> QED
    BY <1>3, <2>4
<1> QED
  BY <1>2, <1>3, <1>4, <1>5, <1>6

-----------------------------------------------------------------------------
(* Size and Selection are recursions over a sequence.  That such a recursion  *)
(* has a value, that it has one only, and what its values have in common is   *)
(* shown by taking the least index at which it would fail.                    *)

\* The pairs of numbers of which the first is less than the second.
Smaller == {p \in Nat \X Nat : p[1] < p[2]}

\* A set of numbers that is not empty has a least one.
LEMMA LeastNatural ==
    ASSUME NEW T \in SUBSET Nat, T # {}
    PROVE  \E m \in T : \A k \in T : m <= k
<1>1. IsWellFoundedOn(Smaller, Nat)
  BY NatLessThanWellFounded DEF OpToRel, Smaller
<1>2. PICK m \in T : \A k \in T : ~ (<<k, m>> \in Smaller)
  BY <1>1, WFMin
<1>3. ASSUME NEW k \in T, k < m PROVE FALSE
  <2>1. <<k, m>> \in Smaller
    BY <1>3 DEF Smaller
  <2> QED
    BY <1>2, <2>1
<1>4. \A k \in T : m <= k
  BY <1>3
<1> QED
  BY <1>4

Totals(items, n, g) == g = [k \in 0 .. n |-> IF k = 0 THEN 0 ELSE g[k - 1] + items[k].chars]

LEMMA TotalsExist ==
    ASSUME NEW items, NEW n \in Nat
    PROVE  \E g : Totals(items, n, g)
<1> DEFINE Stuck == {m \in Nat : ~ \E g : Totals(items, m, g)}
<1> SUFFICES ASSUME Stuck # {} PROVE FALSE
  OBVIOUS
<1>1. PICK m \in Stuck : \A k \in Stuck : m <= k
  <2> HIDE DEF Stuck
  <2>1. Stuck \in SUBSET Nat
    BY DEF Stuck
  <2> QED
    BY <2>1, LeastNatural
<1>2. m \in Nat /\ ~ \E g : Totals(items, m, g)
  OBVIOUS
<1>3. CASE m = 0
  <2> DEFINE h == [k \in {0} |-> 0]
  <2>1. 0 .. 0 = {0}
    OBVIOUS
  <2>2. Totals(items, 0, h)
    BY <2>1 DEF Totals
  <2> QED
    BY <1>2, <1>3, <2>2
<1>4. CASE m # 0
  <2>1. m - 1 \in Nat /\ m - 1 \notin Stuck
    BY <1>1, <1>2, <1>4
  <2>2. PICK g : Totals(items, m - 1, g)
    BY <2>1
  <2> DEFINE h == [k \in 0 .. m |-> IF k = m THEN g[m - 1] + items[m].chars ELSE g[k]]
  <2>3. \A k \in 0 .. m - 1 : g[k] = IF k = 0 THEN 0 ELSE g[k - 1] + items[k].chars
    BY <2>2 DEF Totals
  <2>4. ASSUME NEW k \in 0 .. m
        PROVE  h[k] = IF k = 0 THEN 0 ELSE h[k - 1] + items[k].chars
    <3>1. CASE k = m
      <4>1. m - 1 \in 0 .. m /\ m - 1 # m /\ h[m - 1] = g[m - 1]
        BY <1>2, <1>4
      <4> QED
        BY <1>2, <1>4, <3>1, <4>1
    <3>2. CASE k # m /\ k # 0
      <4>1. k - 1 \in 0 .. m /\ k - 1 # m /\ k \in 0 .. m - 1
        BY <1>2, <3>2
      <4>2. h[k - 1] = g[k - 1] /\ h[k] = g[k]
        BY <4>1, <3>2
      <4> QED
        BY <2>3, <3>2, <4>1, <4>2
    <3>3. CASE k # m /\ k = 0
      <4>1. h[0] = g[0] /\ 0 \in 0 .. m - 1
        BY <1>2, <3>3
      <4> QED
        BY <2>3, <3>3, <4>1
    <3> QED
      BY <3>1, <3>2, <3>3
  <2>5. h = [k \in 0 .. m |-> IF k = 0 THEN 0 ELSE h[k - 1] + items[k].chars]
    <3> HIDE DEF h
    <3>1. h = [k \in 0 .. m |-> h[k]]
      BY DEF h
    <3> QED
      BY <2>4, <3>1
  <2>6. Totals(items, m, h)
    BY <2>5 DEF Totals
  <2> QED
    BY <1>2, <2>6
<1> QED
  BY <1>3, <1>4

\* Where two sequences agree, so do their totals; a total of numbers is a number.
LEMMA TotalsAgree ==
    ASSUME NEW s \in Seq(Found), NEW t \in Seq(Found), NEW m \in Nat, NEW n \in Nat,
           NEW g, NEW h, Totals(s, m, g), Totals(t, n, h),
           NEW k \in Nat, k <= m, k <= n, k <= Len(s), k <= Len(t),
           \A i \in 1 .. k : s[i] = t[i]
    PROVE  g[k] = h[k] /\ g[k] \in Nat
<1> DEFINE Bad == {i \in 0 .. k : ~ (g[i] = h[i] /\ g[i] \in Nat)}
<1> SUFFICES ASSUME Bad # {} PROVE FALSE
  BY DEF Bad
<1>1. PICK i \in Bad : \A j \in Bad : i <= j
  <2>1. Bad \in SUBSET Nat
    OBVIOUS
  <2> HIDE DEF Bad
  <2> QED
    BY <2>1, LeastNatural
<1>2. i \in 0 .. k /\ i \in 0 .. m /\ i \in 0 .. n /\ ~ (g[i] = h[i] /\ g[i] \in Nat)
  OBVIOUS
<1>3. /\ g[i] = IF i = 0 THEN 0 ELSE g[i - 1] + s[i].chars
      /\ h[i] = IF i = 0 THEN 0 ELSE h[i - 1] + t[i].chars
  BY <1>2 DEF Totals
<1>4. CASE i = 0
  BY <1>2, <1>3, <1>4
<1>5. CASE i # 0
  <2>1. i - 1 \in 0 .. k /\ i - 1 \notin Bad
    BY <1>1, <1>2, <1>5
  <2>2. g[i - 1] = h[i - 1] /\ g[i - 1] \in Nat
    BY <2>1
  <2>3. i \in 1 .. k /\ i \in DOMAIN s /\ s[i] = t[i] /\ s[i] \in Found
    BY <1>2, <1>5
  <2>4. s[i].chars \in Nat
    BY <2>3, Compared
  <2> QED
    BY <1>2, <1>3, <1>5, <2>2, <2>3, <2>4
<1> QED
  BY <1>4, <1>5

LEMMA SizeIsTotal ==
    ASSUME NEW items \in Seq(Found)
    PROVE  \E g : Totals(items, Len(items), g) /\ Size(items) = g[Len(items)]
<1> DEFINE n == Len(items)
           g == CHOOSE f : Totals(items, n, f)
<1>1. n \in Nat
  OBVIOUS
<1>2. Totals(items, n, g)
  BY <1>1, TotalsExist
<1>3. Size(items) = g[n]
  BY DEF Size, Totals
<1> QED
  BY <1>2, <1>3

\* The size of a sequence grows by what is appended.
LEMMA SizeGrows ==
    ASSUME NEW items \in Seq(Found)
    PROVE  /\ Size(items) \in Nat
           /\ items = <<>> => Size(items) = 0
           /\ \A c \in Found : Size(Append(items, c)) = Size(items) + c.chars
<1> DEFINE n == Len(items)
<1>1. n \in Nat
  OBVIOUS
<1>2. PICK g : Totals(items, n, g) /\ Size(items) = g[n]
  BY SizeIsTotal
<1>3. g[n] \in Nat
  <2> HIDE DEF n
  <2> QED
    BY <1>1, <1>2, TotalsAgree DEF n
<1>4. items = <<>> => g[n] = 0
  BY <1>2 DEF Totals
<1>5. ASSUME NEW c \in Found
      PROVE  Size(Append(items, c)) = Size(items) + c.chars
  <2> DEFINE more == Append(items, c)
  <2>1. /\ more \in Seq(Found) /\ Len(more) = n + 1 /\ more[n + 1] = c
        /\ \A i \in 1 .. n : items[i] = more[i]
    OBVIOUS
  <2> HIDE DEF more
  <2>2. PICK h : Totals(more, n + 1, h) /\ Size(more) = h[n + 1]
    BY <2>1, SizeIsTotal
  <2>3. h[n + 1] = h[n] + c.chars
    <3>1. n + 1 \in 0 .. n + 1 /\ n + 1 # 0 /\ n + 1 - 1 = n
      BY <1>1
    <3>2. h[n + 1] = h[n + 1 - 1] + more[n + 1].chars
      BY <2>2, <3>1 DEF Totals
    <3> QED
      BY <2>1, <3>1, <3>2
  <2>4. g[n] = h[n]
    <3> HIDE DEF n
    <3>1. n + 1 \in Nat /\ n <= n + 1 /\ n <= Len(items) /\ n <= Len(more)
      BY <1>1, <2>1 DEF n
    <3> QED
      BY <1>1, <1>2, <2>1, <2>2, <3>1, TotalsAgree
  <2> QED
    BY <1>2, <2>2, <2>3, <2>4 DEF more
<1> QED
  BY <1>2, <1>3, <1>4, <1>5

-----------------------------------------------------------------------------
(* The selection, candidate by candidate.                                    *)

Key(c) == <<c.path, c.range>>
Above(items, c) == {i \in DOMAIN items : ~ Before(c, items[i])}

\* Why a candidate was left out among the first k, in terms of what is selected.
Explained(sorted, k, items, used, o) ==
    /\ o.why \in Forced /\ o = [why |-> o.why, item |-> o.item]
    /\ o.item \in Found
    /\ o.why = "duplicate" =>
        \E j \in 1 .. k : sorted[j] = o.item /\ \E i \in 1 .. j - 1 : Key(sorted[i]) = Key(o.item)
    /\ o.why = "diversity_limit" =>
        Cardinality(Above(items, o.item) \cap OfPath(items, o.item.path)) >= PerPath
    /\ o.why = "item_limit" => Cardinality(Above(items, o.item)) >= request.items
    /\ o.why = "budget_exhausted" =>
        Above(items, o.item) # {} /\ used + o.item.chars > Budget

Limits(items, used) ==
    /\ Len(items) <= request.items
    /\ \A path \in Paths : Cardinality(OfPath(items, path)) <= PerPath
    /\ used <= Budget \/ Len(items) = 1

\* What holds after k candidates.
Pass(sorted, k, p) ==
    /\ p = [seen |-> p.seen, items |-> p.items, used |-> p.used, out |-> p.out]
    /\ p.items \in Seq(Found) /\ p.used = Size(p.items)
    /\ p.seen = {Key(sorted[m]) : m \in 1 .. k}
    /\ Limits(p.items, p.used)
    /\ \A i \in DOMAIN p.items : \E m \in 1 .. k : p.items[i] = sorted[m]
    /\ \A i, j \in DOMAIN p.items : i # j => Key(p.items[i]) # Key(p.items[j])
    /\ request.items > 0 /\ k > 0 => p.items # <<>> /\ p.items[1] = sorted[1]
    /\ \A m \in 1 .. k : \/ \E i \in DOMAIN p.items : p.items[i] = sorted[m]
                         \/ \E o \in p.out : o.item = sorted[m]
    /\ \A o \in p.out : Explained(sorted, k, p.items, p.used, o)

\* What is appended comes after the rest.
LEMMA Appended ==
    ASSUME NEW items \in Seq(Found), NEW c \in Found
    PROVE  /\ Append(items, c) \in Seq(Found)
           /\ Len(items) \in Nat /\ Len(Append(items, c)) = Len(items) + 1
           /\ DOMAIN items = 1 .. Len(items) /\ DOMAIN Append(items, c) = 1 .. Len(items) + 1
           /\ Append(items, c)[Len(items) + 1] = c
           /\ \A i \in DOMAIN items : Append(items, c)[i] = items[i]
OBVIOUS

\* The places of a sequence are finitely many, and so are those of a path.
LEMMA PlacesFinite ==
    ASSUME NEW items \in Seq(Found)
    PROVE  /\ Cardinality(DOMAIN items) = Len(items)
           /\ \A S \in SUBSET DOMAIN items : IsFiniteSet(S) /\ Cardinality(S) \in Nat
           /\ \A S \in SUBSET DOMAIN items, T \in SUBSET DOMAIN items :
                S \subseteq T => Cardinality(S) <= Cardinality(T)
<1>1. IsFiniteSet(DOMAIN items) /\ Cardinality(DOMAIN items) = Len(items)
  BY PlacesApart
<1>2. \A S \in SUBSET DOMAIN items : IsFiniteSet(S) /\ Cardinality(S) \in Nat
  BY <1>1, FS_Subset, FS_CardinalityType
<1>3. ASSUME NEW S \in SUBSET DOMAIN items, NEW T \in SUBSET DOMAIN items, S \subseteq T
      PROVE  Cardinality(S) <= Cardinality(T)
  BY <1>2, <1>3, FS_Subset
<1> QED
  BY <1>1, <1>2, <1>3

\* Of a path there is one more if the appended candidate is of it.
LEMMA OfPathGrows ==
    ASSUME NEW items \in Seq(Found), NEW c \in Found, NEW path
    PROVE  Cardinality(OfPath(Append(items, c), path)) =
             Cardinality(OfPath(items, path)) + (IF c.path = path THEN 1 ELSE 0)
<1> DEFINE more == Append(items, c)
           n == Len(items)
           old == OfPath(items, path)
<1>1. /\ n \in Nat /\ DOMAIN items = 1 .. n /\ DOMAIN more = 1 .. n + 1 /\ more[n + 1] = c
      /\ \A i \in 1 .. n : more[i] = items[i]
  BY Appended
<1> HIDE DEF more, n
<1>2. old \in SUBSET DOMAIN items /\ IsFiniteSet(old) /\ Cardinality(old) \in Nat
  BY PlacesFinite DEF OfPath
<1>3. OfPath(more, path) = IF c.path = path THEN old \cup {n + 1} ELSE old
  BY <1>1 DEF OfPath
<1>4. n + 1 \notin old
  BY <1>1, <1>2
<1>5. Cardinality(old \cup {n + 1}) = Cardinality(old) + 1
  <2> HIDE DEF old
  <2> QED
    BY <1>2, <1>4, FS_AddElement
<1> QED
  BY <1>2, <1>3, <1>5 DEF more

\* A reason stays one when more is considered and selected.
LEMMA ExplainedStays ==
    ASSUME NEW sorted, NEW k \in Nat, NEW items \in Seq(Found), NEW used \in Nat, NEW o,
           Explained(sorted, k - 1, items, used, o), k > 0,
           request.items \in Nat,
           NEW c \in Found
    PROVE  /\ Explained(sorted, k, items, used, o)
           /\ Explained(sorted, k, Append(items, c), used + c.chars, o)
<1> DEFINE more == Append(items, c)
<1>1. /\ more \in Seq(Found) /\ Len(items) \in Nat
      /\ DOMAIN items = 1 .. Len(items) /\ DOMAIN more = 1 .. Len(items) + 1
      /\ \A i \in DOMAIN items : more[i] = items[i]
  BY Appended
<1> HIDE DEF more
<1>2. \A j \in 1 .. k - 1 : j \in 1 .. k
  OBVIOUS
<1>3. Above(items, o.item) \subseteq Above(more, o.item)
      /\ OfPath(items, o.item.path) \subseteq OfPath(more, o.item.path)
  BY <1>1 DEF Above, OfPath
<1>4. /\ Above(items, o.item) \in SUBSET DOMAIN items /\ Above(more, o.item) \in SUBSET DOMAIN more
      /\ Above(items, o.item) \in SUBSET DOMAIN more
  BY <1>1, <1>3 DEF Above
<1>5. /\ Cardinality(Above(items, o.item)) <= Cardinality(Above(more, o.item))
      /\ Cardinality(Above(items, o.item)) \in Nat /\ Cardinality(Above(more, o.item)) \in Nat
  BY <1>1, <1>3, <1>4, PlacesFinite
<1> DEFINE S == Above(items, o.item) \cap OfPath(items, o.item.path)
           T == Above(more, o.item) \cap OfPath(more, o.item.path)
<1>6. /\ S \subseteq T /\ S \in SUBSET DOMAIN items
      /\ S \in SUBSET DOMAIN more /\ T \in SUBSET DOMAIN more
  BY <1>3, <1>4
<1>7. Cardinality(S) <= Cardinality(T) /\ Cardinality(S) \in Nat /\ Cardinality(T) \in Nat
  <2> HIDE DEF S, T
  <2> QED
    BY <1>1, <1>6, PlacesFinite
<1>8. PerPath \in Nat
  BY DEF PerPath
<1>9. o.item \in Found /\ o.item.chars \in Nat /\ c.chars \in Nat /\ Budget \in Nat
  BY Compared, ContextPackAssumption DEF Explained
<1>10. Explained(sorted, k, items, used, o)
  BY <1>2 DEF Explained
<1>11. Explained(sorted, k, more, used + c.chars, o)
  <2>1. o.why = "diversity_limit" => Cardinality(T) >= PerPath
    BY <1>7, <1>8 DEF Explained
  <2>2. o.why = "item_limit" => Cardinality(Above(more, o.item)) >= request.items
    BY <1>5 DEF Explained
  <2>3. o.why = "budget_exhausted" =>
          Above(more, o.item) # {} /\ used + c.chars + o.item.chars > Budget
    BY <1>3, <1>9 DEF Explained
  <2> QED
    BY <1>2, <2>1, <2>2, <2>3 DEF Explained
<1> QED
  BY <1>10, <1>11 DEF more

RequestType == [profile : {"minimal", "normal"}, terms : BOOLEAN, items : Nat]
Ordered(s) == \A i, j \in DOMAIN s : i < j => ~ Before(s[j], s[i])

\* The first candidate meets no obstacle.
LEMMA FirstTaken ==
    ASSUME request \in RequestType, request.items > 0, NEW c, NEW p,
           p.seen = {}, p.items = <<>>
    PROVE  Obstacle(c, p) = "none"
<1>1. OfPath(p.items, c.path) = {}
  BY DEF OfPath
<1>2. Cardinality(OfPath(p.items, c.path)) = 0
  BY <1>1, FS_EmptySet
<1>3. PerPath \in {1, 2} /\ Len(p.items) = 0 /\ request.items \in Nat
  BY DEF PerPath, RequestType
<1>4. Fits(c, p)
  BY DEF Fits
<1> QED
  BY <1>2, <1>3, <1>4 DEF Obstacle

\* A candidate that is taken.
LEMMA TakenStep ==
    ASSUME request \in RequestType, NEW sorted \in Seq(Found),
           NEW k \in 1 .. Len(sorted), NEW p, Pass(sorted, k - 1, p),
           Obstacle(sorted[k], p) = "none"
    PROVE  Pass(sorted, k, Considered(p, sorted[k]))
<1> DEFINE c == sorted[k]
           items == p.items
           more == Append(items, c)
           q == Considered(p, c)
<1>1. c \in Found /\ k \in Nat /\ k > 0 /\ request.items \in Nat
  BY DEF RequestType
<1>2. /\ p = [seen |-> p.seen, items |-> items, used |-> p.used, out |-> p.out]
      /\ items \in Seq(Found) /\ p.used = Size(items)
      /\ p.seen = {Key(sorted[m]) : m \in 1 .. k - 1}
      /\ Limits(items, p.used)
      /\ \A i \in DOMAIN items : \E m \in 1 .. k - 1 : items[i] = sorted[m]
      /\ \A i, j \in DOMAIN items : i # j => Key(items[i]) # Key(items[j])
      /\ request.items > 0 /\ k - 1 > 0 => items # <<>> /\ items[1] = sorted[1]
      /\ \A m \in 1 .. k - 1 : \/ \E i \in DOMAIN items : items[i] = sorted[m]
                               \/ \E o \in p.out : o.item = sorted[m]
      /\ \A o \in p.out : Explained(sorted, k - 1, items, p.used, o)
  BY DEF Pass
<1>3. /\ more \in Seq(Found) /\ Len(items) \in Nat /\ Len(more) = Len(items) + 1
      /\ DOMAIN items = 1 .. Len(items) /\ DOMAIN more = 1 .. Len(items) + 1
      /\ more[Len(items) + 1] = c /\ \A i \in DOMAIN items : more[i] = items[i]
  BY <1>1, <1>2, Appended
<1>4. q = [seen |-> p.seen \cup {Key(c)}, items |-> more, used |-> p.used + c.chars, out |-> p.out]
  BY <1>2 DEF Considered, Key
<1>5. /\ Key(c) \notin p.seen /\ Cardinality(OfPath(items, c.path)) < PerPath
      /\ Len(items) < request.items /\ Fits(c, p)
  <2>1. Cardinality(OfPath(items, c.path)) \in Nat
    BY <1>2, PlacesFinite DEF OfPath
  <2>2. PerPath \in Nat
    BY DEF PerPath
  <2> QED
    BY <1>1, <1>3, <2>1, <2>2 DEF Obstacle, Key
<1> HIDE DEF c, items, more, q
<1>6. p.used + c.chars = Size(more) /\ p.used \in Nat /\ c.chars \in Nat
  BY <1>1, <1>2, SizeGrows, Compared DEF more
<1>7. p.seen \cup {Key(c)} = {Key(sorted[m]) : m \in 1 .. k}
  <2>1. 1 .. k = (1 .. k - 1) \cup {k}
    BY <1>1
  <2> QED
    BY <1>2, <2>1 DEF c
<1>8. Limits(more, p.used + c.chars)
  <2>1. Len(more) <= request.items
    BY <1>1, <1>3, <1>5
  <2>2. ASSUME NEW path \in Paths PROVE Cardinality(OfPath(more, path)) <= PerPath
    <3>1. Cardinality(OfPath(more, path)) =
            Cardinality(OfPath(items, path)) + (IF c.path = path THEN 1 ELSE 0)
      BY <1>1, <1>2, OfPathGrows DEF more
    <3>2. Cardinality(OfPath(items, path)) <= PerPath
      BY <1>2 DEF Limits
    <3>3. Cardinality(OfPath(items, path)) \in Nat /\ PerPath \in Nat
      BY <1>2, PlacesFinite DEF OfPath, PerPath
    <3>4. CASE c.path = path
      BY <1>5, <3>1, <3>3, <3>4
    <3>5. CASE c.path # path
      BY <3>1, <3>2, <3>3, <3>5
    <3> QED
      BY <3>4, <3>5
  <2>3. p.used + c.chars <= Budget \/ Len(more) = 1
    <3>1. p.used + c.chars <= Budget \/ items = <<>>
      BY <1>5 DEF Fits, items
    <3> QED
      BY <1>3, <3>1
  <2> QED
    BY <2>1, <2>2, <2>3 DEF Limits
<1>9. ASSUME NEW i \in DOMAIN more PROVE \E m \in 1 .. k : more[i] = sorted[m]
  <2>1. CASE i = Len(items) + 1
    <3>1. k \in 1 .. k
      BY <1>1
    <3> QED
      BY <1>3, <2>1, <3>1 DEF c
  <2>2. CASE i # Len(items) + 1
    <3>1. i \in DOMAIN items
      BY <1>3, <2>2
    <3>2. PICK m \in 1 .. k - 1 : items[i] = sorted[m]
      BY <1>2, <3>1
    <3>3. m \in 1 .. k
      BY <1>1, <3>2
    <3> QED
      BY <1>3, <3>1, <3>2, <3>3
  <2> QED
    BY <2>1, <2>2
<1>10. \A i, j \in DOMAIN more : i # j => Key(more[i]) # Key(more[j])
  <2>1. ASSUME NEW i \in DOMAIN items PROVE Key(items[i]) # Key(c)
    <3>1. PICK m \in 1 .. k - 1 : items[i] = sorted[m]
      BY <1>2
    <3>2. Key(items[i]) \in p.seen
      BY <1>2, <3>1
    <3> QED
      BY <1>5, <3>2
  <2>2. \A i \in DOMAIN more : i \in DOMAIN items \/ i = Len(items) + 1
    BY <1>3
  <2> QED
    BY <1>2, <1>3, <2>1, <2>2
<1>11. request.items > 0 => more # <<>> /\ more[1] = sorted[1]
  <2>1. CASE k = 1
    <3>1. DOMAIN items = {}
      BY <1>2, <2>1
    <3>2. Len(items) = 0
      BY <1>3, <3>1
    <3>3. more[1] = c /\ Len(more) = 1
      BY <1>3, <3>2
    <3>4. c = sorted[1]
      BY <2>1 DEF c
    <3>5. more # <<>>
      BY <1>3, <3>3
    <3> QED
      BY <3>3, <3>4, <3>5
  <2>2. CASE k # 1
    <3>1. SUFFICES ASSUME request.items > 0 PROVE more # <<>> /\ more[1] = sorted[1]
      OBVIOUS
    <3>2. items # <<>> /\ items[1] = sorted[1]
      BY <1>1, <1>2, <2>2, <3>1
    <3>3. 1 \in DOMAIN items
      BY <1>2, <1>3, <3>2
    <3> QED
      BY <1>3, <3>2, <3>3
  <2> QED
    BY <2>1, <2>2
<1>12. ASSUME NEW m \in 1 .. k
       PROVE  \/ \E i \in DOMAIN more : more[i] = sorted[m]
              \/ \E o \in p.out : o.item = sorted[m]
  <2>1. CASE m = k
    BY <1>3, <2>1 DEF c
  <2>2. CASE m # k
    <3>1. m \in 1 .. k - 1
      BY <1>1, <2>2
    <3>2. DOMAIN items \subseteq DOMAIN more
      BY <1>3
    <3> QED
      BY <1>2, <1>3, <3>1, <3>2
  <2> QED
    BY <2>1, <2>2
<1>13. ASSUME NEW o \in p.out PROVE Explained(sorted, k, more, p.used + c.chars, o)
  <2>1. Explained(sorted, k - 1, items, p.used, o)
    BY <1>2
  <2> QED
    BY <1>1, <1>2, <1>6, <2>1, ExplainedStays DEF more
<1>14. /\ q = [seen |-> q.seen, items |-> q.items, used |-> q.used, out |-> q.out]
       /\ q.seen = p.seen \cup {Key(c)} /\ q.items = more /\ q.used = p.used + c.chars
       /\ q.out = p.out
  BY <1>4
<1>15. Pass(sorted, k, q)
  <2>1. q.items \in Seq(Found) /\ q.used = Size(q.items)
    BY <1>3, <1>6, <1>14
  <2>2. q.seen = {Key(sorted[m]) : m \in 1 .. k} /\ Limits(q.items, q.used)
    BY <1>7, <1>8, <1>14
  <2>3. \A i \in DOMAIN q.items : \E m \in 1 .. k : q.items[i] = sorted[m]
    BY <1>9, <1>14
  <2>4. \A i, j \in DOMAIN q.items : i # j => Key(q.items[i]) # Key(q.items[j])
    BY <1>10, <1>14
  <2>5. request.items > 0 /\ k > 0 => q.items # <<>> /\ q.items[1] = sorted[1]
    BY <1>11, <1>14
  <2>6. \A m \in 1 .. k : \/ \E i \in DOMAIN q.items : q.items[i] = sorted[m]
                         \/ \E o \in q.out : o.item = sorted[m]
    BY <1>12, <1>14
  <2>7. \A o \in q.out : Explained(sorted, k, q.items, q.used, o)
    BY <1>13, <1>14
  <2>8. q = [seen |-> q.seen, items |-> q.items, used |-> q.used, out |-> q.out]
    BY <1>14
  <2> QED
    BY <2>1, <2>2, <2>3, <2>4, <2>5, <2>6, <2>7, <2>8 DEF Pass
<1> QED
  BY <1>15 DEF q, c

\* A candidate that is left out.
LEMMA OmittedStep ==
    ASSUME request \in RequestType, NEW sorted \in Seq(Found), Ordered(sorted),
           NEW k \in 1 .. Len(sorted), NEW p, Pass(sorted, k - 1, p),
           Obstacle(sorted[k], p) # "none"
    PROVE  Pass(sorted, k, Considered(p, sorted[k]))
<1> DEFINE c == sorted[k]
           why == Obstacle(c, p)
           items == p.items
           new == [why |-> why, item |-> c]
           q == Considered(p, c)
<1>1. c \in Found /\ k \in Nat /\ k > 0 /\ request.items \in Nat /\ k \in DOMAIN sorted
      /\ DOMAIN sorted = 1 .. Len(sorted)
  BY DEF RequestType
<1>2. /\ p = [seen |-> p.seen, items |-> items, used |-> p.used, out |-> p.out]
      /\ items \in Seq(Found) /\ p.used = Size(items)
      /\ p.seen = {Key(sorted[m]) : m \in 1 .. k - 1}
      /\ Limits(items, p.used)
      /\ \A i \in DOMAIN items : \E m \in 1 .. k - 1 : items[i] = sorted[m]
      /\ \A i, j \in DOMAIN items : i # j => Key(items[i]) # Key(items[j])
      /\ request.items > 0 /\ k - 1 > 0 => items # <<>> /\ items[1] = sorted[1]
      /\ \A m \in 1 .. k - 1 : \/ \E i \in DOMAIN items : items[i] = sorted[m]
                               \/ \E o \in p.out : o.item = sorted[m]
      /\ \A o \in p.out : Explained(sorted, k - 1, items, p.used, o)
  BY DEF Pass
<1>3. q = [seen |-> p.seen \cup {Key(c)}, items |-> items, used |-> p.used,
           out |-> p.out \cup {new}]
  BY <1>2 DEF Considered, Key
<1>4. /\ why \in Forced
      /\ why = "duplicate" => Key(c) \in p.seen
      /\ why = "diversity_limit" => Cardinality(OfPath(items, c.path)) >= PerPath
      /\ why = "item_limit" => Len(items) >= request.items
      /\ why = "budget_exhausted" => p.used + c.chars > Budget /\ items # <<>>
  <2>1. p.used + c.chars \in Nat /\ Budget \in Nat
    BY <1>1, <1>2, SizeGrows, Compared, ContextPackAssumption
  <2> QED
    BY <2>1 DEF Obstacle, Fits, Key, Forced
<1>5. p.used \in Nat
  BY <1>2, SizeGrows
<1>6. ASSUME k = 1 PROVE ~ request.items > 0
  <2>1. DOMAIN items = {} /\ p.seen = {}
    BY <1>2, <1>6
  <2>2. items = <<>>
    <3> HIDE DEF items
    <3>1. items \in Seq(Found)
      BY <1>2
    <3>2. DOMAIN items = 1 .. Len(items) /\ Len(items) \in Nat
      BY <3>1
    <3>3. Len(items) = 0
      BY <2>1, <3>2
    <3> QED
      BY <3>1, <3>3
  <2>3. ~ request.items > 0
    BY <2>1, <2>2, FirstTaken
  <2> QED
    BY <2>3
<1> HIDE DEF c, why, items, new, q
<1>7. p.seen \cup {Key(c)} = {Key(sorted[m]) : m \in 1 .. k}
  <2>1. 1 .. k = (1 .. k - 1) \cup {k}
    BY <1>1
  <2> QED
    BY <1>2, <2>1 DEF c
<1>8. Above(items, c) = DOMAIN items
  <2> SUFFICES ASSUME NEW i \in DOMAIN items PROVE ~ Before(c, items[i])
    BY DEF Above
  <2>1. PICK m \in 1 .. k - 1 : items[i] = sorted[m]
    BY <1>2
  <2>2. m \in DOMAIN sorted /\ m < k
    BY <1>1, <2>1
  <2> QED
    BY <1>1, <2>1, <2>2 DEF Ordered, c
<1>9. Explained(sorted, k, items, p.used, new)
  <2>1. new.why = why /\ new.item = c /\ new = [why |-> new.why, item |-> new.item]
    BY DEF new
  <2>2. ASSUME why = "duplicate"
        PROVE  \E j \in 1 .. k : sorted[j] = c /\ \E i \in 1 .. j - 1 : Key(sorted[i]) = Key(c)
    <3>1. PICK i \in 1 .. k - 1 : Key(sorted[i]) = Key(c)
      BY <1>2, <1>4, <2>2
    <3>2. k \in 1 .. k
      BY <1>1
    <3> QED
      BY <3>1, <3>2 DEF c
  <2>3. OfPath(items, c.path) \in SUBSET DOMAIN items
    BY DEF OfPath
  <2>4. why = "diversity_limit" => Cardinality(Above(items, c) \cap OfPath(items, c.path)) >= PerPath
    <3>1. Above(items, c) \cap OfPath(items, c.path) = OfPath(items, c.path)
      BY <1>8, <2>3
    <3> QED
      BY <1>4, <3>1
  <2>5. why = "item_limit" => Cardinality(Above(items, c)) >= request.items
    BY <1>2, <1>4, <1>8, PlacesFinite
  <2>6. why = "budget_exhausted" => Above(items, c) # {} /\ p.used + c.chars > Budget
    <3>1. items # <<>> => DOMAIN items # {}
      BY <1>2
    <3> QED
      BY <1>4, <1>8, <3>1
  <2> QED
    BY <1>1, <1>4, <2>1, <2>2, <2>4, <2>5, <2>6 DEF Explained
<1>10. ASSUME NEW o \in p.out PROVE Explained(sorted, k, items, p.used, o)
  <2>1. Explained(sorted, k - 1, items, p.used, o)
    BY <1>2
  <2> QED
    BY <1>1, <1>2, <1>5, <2>1, ExplainedStays
<1>11. /\ q = [seen |-> q.seen, items |-> q.items, used |-> q.used, out |-> q.out]
       /\ q.seen = p.seen \cup {Key(c)} /\ q.items = items /\ q.used = p.used
       /\ q.out = p.out \cup {new}
  BY <1>3
<1>12. ASSUME NEW i \in DOMAIN items PROVE \E m \in 1 .. k : items[i] = sorted[m]
  <2>1. PICK m \in 1 .. k - 1 : items[i] = sorted[m]
    BY <1>2
  <2>2. m \in 1 .. k
    BY <1>1, <2>1
  <2> QED
    BY <2>1, <2>2
<1>13. ASSUME NEW m \in 1 .. k
       PROVE  \/ \E i \in DOMAIN items : items[i] = sorted[m]
              \/ \E o \in q.out : o.item = sorted[m]
  <2>1. CASE m = k
    <3>1. new.item = sorted[m] /\ new \in q.out
      BY <1>11, <2>1 DEF new, c
    <3> QED
      BY <3>1
  <2>2. CASE m # k
    <3>1. m \in 1 .. k - 1
      BY <1>1, <2>2
    <3> QED
      BY <1>2, <1>11, <3>1
  <2> QED
    BY <2>1, <2>2
<1>14. request.items > 0 => items # <<>> /\ items[1] = sorted[1]
  BY <1>1, <1>2, <1>6
<1>15. Pass(sorted, k, q)
  <2>1. q.items \in Seq(Found) /\ q.used = Size(q.items)
    BY <1>2, <1>11
  <2>2. q.seen = {Key(sorted[m]) : m \in 1 .. k} /\ Limits(q.items, q.used)
    BY <1>2, <1>7, <1>11
  <2>3. \A i \in DOMAIN q.items : \E m \in 1 .. k : q.items[i] = sorted[m]
    BY <1>11, <1>12
  <2>4. \A i, j \in DOMAIN q.items : i # j => Key(q.items[i]) # Key(q.items[j])
    BY <1>2, <1>11
  <2>5. request.items > 0 /\ k > 0 => q.items # <<>> /\ q.items[1] = sorted[1]
    BY <1>11, <1>14
  <2>6. \A m \in 1 .. k : \/ \E i \in DOMAIN q.items : q.items[i] = sorted[m]
                         \/ \E o \in q.out : o.item = sorted[m]
    BY <1>11, <1>13
  <2>7. \A o \in q.out : Explained(sorted, k, q.items, q.used, o)
    BY <1>9, <1>10, <1>11
  <2>8. q = [seen |-> q.seen, items |-> q.items, used |-> q.used, out |-> q.out]
    BY <1>11
  <2> QED
    BY <2>1, <2>2, <2>3, <2>4, <2>5, <2>6, <2>7, <2>8 DEF Pass
<1> QED
  BY <1>15 DEF q, c

NothingYet == [seen |-> {}, items |-> <<>>, used |-> 0, out |-> {}]
Runs(sorted, n, g) ==
    g = [k \in 0 .. n |-> IF k = 0 THEN NothingYet ELSE Considered(g[k - 1], sorted[k])]

LEMMA RunsExist ==
    ASSUME NEW sorted, NEW n \in Nat
    PROVE  \E g : Runs(sorted, n, g)
<1> DEFINE Stuck == {m \in Nat : ~ \E g : Runs(sorted, m, g)}
<1> SUFFICES ASSUME Stuck # {} PROVE FALSE
  OBVIOUS
<1>1. PICK m \in Stuck : \A k \in Stuck : m <= k
  <2> HIDE DEF Stuck
  <2>1. Stuck \in SUBSET Nat
    BY DEF Stuck
  <2> QED
    BY <2>1, LeastNatural
<1>2. m \in Nat /\ ~ \E g : Runs(sorted, m, g)
  OBVIOUS
<1>3. CASE m = 0
  <2> DEFINE h == [k \in {0} |-> NothingYet]
  <2>1. 0 .. 0 = {0}
    OBVIOUS
  <2>2. Runs(sorted, 0, h)
    BY <2>1 DEF Runs
  <2> QED
    BY <1>2, <1>3, <2>2
<1>4. CASE m # 0
  <2>1. m - 1 \in Nat /\ m - 1 \notin Stuck
    BY <1>1, <1>2, <1>4
  <2>2. PICK g : Runs(sorted, m - 1, g)
    BY <2>1
  <2> DEFINE h == [k \in 0 .. m |-> IF k = m THEN Considered(g[m - 1], sorted[m]) ELSE g[k]]
  <2>3. \A k \in 0 .. m - 1 : g[k] = IF k = 0 THEN NothingYet ELSE Considered(g[k - 1], sorted[k])
    BY <2>2 DEF Runs
  <2>4. ASSUME NEW k \in 0 .. m
        PROVE  h[k] = IF k = 0 THEN NothingYet ELSE Considered(h[k - 1], sorted[k])
    <3>1. CASE k = m
      <4>1. m - 1 \in 0 .. m /\ m - 1 # m /\ h[m - 1] = g[m - 1]
        BY <1>2, <1>4
      <4> QED
        BY <1>2, <1>4, <3>1, <4>1
    <3>2. CASE k # m /\ k # 0
      <4>1. k - 1 \in 0 .. m /\ k - 1 # m /\ k \in 0 .. m - 1
        BY <1>2, <3>2
      <4>2. h[k - 1] = g[k - 1] /\ h[k] = g[k]
        BY <4>1, <3>2
      <4> QED
        BY <2>3, <3>2, <4>1, <4>2
    <3>3. CASE k # m /\ k = 0
      <4>1. h[0] = g[0] /\ 0 \in 0 .. m - 1
        BY <1>2, <3>3
      <4> QED
        BY <2>3, <3>3, <4>1
    <3> QED
      BY <3>1, <3>2, <3>3
  <2>5. h = [k \in 0 .. m |-> IF k = 0 THEN NothingYet ELSE Considered(h[k - 1], sorted[k])]
    <3> HIDE DEF h
    <3>1. h = [k \in 0 .. m |-> h[k]]
      BY DEF h
    <3> QED
      BY <2>4, <3>1
  <2>6. Runs(sorted, m, h)
    BY <2>5 DEF Runs
  <2> QED
    BY <1>2, <2>6
<1> QED
  BY <1>3, <1>4

\* Before anything is considered.
LEMMA PassStart ==
    ASSUME request \in RequestType, NEW sorted \in Seq(Found)
    PROVE  Pass(sorted, 0, NothingYet)
<1>1. /\ NothingYet = [seen |-> {}, items |-> <<>>, used |-> 0, out |-> {}]
      /\ NothingYet.seen = {} /\ NothingYet.items = <<>> /\ NothingYet.used = 0 /\ NothingYet.out = {}
  BY DEF NothingYet
<1>2. <<>> \in Seq(Found) /\ Size(<<>>) = 0
  <2>1. <<>> \in Seq(Found)
    OBVIOUS
  <2> QED
    BY <2>1, SizeGrows
<1>3. Limits(<<>>, 0)
  <2>1. \A path \in Paths : Cardinality(OfPath(<<>>, path)) <= PerPath
    <3>1. \A path \in Paths : OfPath(<<>>, path) = {}
      BY DEF OfPath
    <3>2. Cardinality({}) = 0
      BY FS_EmptySet
    <3>3. PerPath \in {1, 2}
      BY DEF PerPath
    <3>4. ASSUME NEW path \in Paths PROVE Cardinality(OfPath(<<>>, path)) <= PerPath
      <4>1. OfPath(<<>>, path) = {}
        BY <3>1
      <4>2. Cardinality(OfPath(<<>>, path)) = 0
        BY <3>2, <4>1
      <4> QED
        BY <3>3, <4>2
    <3> QED
      BY <3>4
  <2>2. 0 <= Budget /\ Len(<<>>) <= request.items
    BY ContextPackAssumption DEF RequestType
  <2> QED
    BY <2>1, <2>2 DEF Limits
<1>4. 1 .. 0 = {} /\ DOMAIN <<>> = {}
  OBVIOUS
<1> HIDE DEF NothingYet
<1> QED
  BY <1>1, <1>2, <1>3, <1>4 DEF Pass

\* What holds of the whole selection.
LEMMA SelectionHolds ==
    ASSUME request \in RequestType, NEW sorted \in Seq(Found), Ordered(sorted)
    PROVE  Pass(sorted, Len(sorted), Selection(sorted))
<1> DEFINE n == Len(sorted)
           g == CHOOSE f : Runs(sorted, n, f)
<1>1. n \in Nat
  OBVIOUS
<1>2. Runs(sorted, n, g)
  BY <1>1, RunsExist
<1>3. Selection(sorted) = g[n]
  BY DEF Selection, Runs, NothingYet
<1> DEFINE Bad == {k \in 0 .. n : ~ Pass(sorted, k, g[k])}
<1> HIDE DEF g
<1>4. ASSUME Bad # {} PROVE FALSE
  <2>1. PICK k \in Bad : \A l \in Bad : k <= l
    <3>1. Bad \in SUBSET Nat
      OBVIOUS
    <3> HIDE DEF Bad
    <3> QED
      BY <1>4, <3>1, LeastNatural
  <2>2. k \in 0 .. n /\ ~ Pass(sorted, k, g[k])
    OBVIOUS
  <2>3. g[k] = IF k = 0 THEN NothingYet ELSE Considered(g[k - 1], sorted[k])
    BY <1>2, <2>2 DEF Runs
  <2>4. CASE k = 0
    BY <2>2, <2>3, <2>4, PassStart
  <2>5. CASE k # 0
    <3>1. k \in 1 .. Len(sorted) /\ k - 1 \in 0 .. n /\ k - 1 \notin Bad
      BY <1>1, <2>1, <2>2, <2>5
    <3>2. Pass(sorted, k - 1, g[k - 1])
      BY <3>1
    <3>3. Pass(sorted, k, Considered(g[k - 1], sorted[k]))
      BY <3>1, <3>2, TakenStep, OmittedStep
    <3> QED
      BY <2>2, <2>3, <2>5, <3>3
  <2> QED
    BY <2>4, <2>5
<1>5. n \in 0 .. n
  BY <1>1
<1>6. Pass(sorted, n, g[n])
  BY <1>4, <1>5
<1> QED
  BY <1>3, <1>6

-----------------------------------------------------------------------------
(* The step that selects, and the invariant.                                 *)

SelectInv ==
    stage = "selected" =>
        \E p : /\ Pass(candidates, Len(candidates), p)
               /\ selected = p.items /\ p.out \subseteq omitted
               /\ \A o \in omitted : o.why \in Forced => o \in p.out

IInv == GatherInv /\ SelectInv /\ CountInv

\* Ranking and trimming leave evidence what it is of.
LEMMA ProfiledFound ==
    ASSUME NEW c \in Found, request \in RequestType
    PROVE  /\ Profiled(Ranked(c)) \in Found
           /\ Profiled(Ranked(c)).path = c.path /\ Profiled(Ranked(c)).why = c.why
<1> DEFINE d == Ranked(c)
           e == Profiled(d)
<1>1. c \in [path : Paths, range : Nat \X Nat, score : Nat,
             why : {"explicit", "search", "symbol", "owner"}, chars : Nat] /\ WellPlaced(c)
  BY DEF Found
<1>2. PICK n \in Nat : d = [c EXCEPT !.score = n]
  <2>1. PICK n \in Nat : n = c.score + (IF Contains(explicit, c.path) THEN 6 ELSE 0)
                                     + (IF c.why = "owner" THEN 4 ELSE 0)
                                     + (IF c.path \in TestPaths THEN 2 ELSE 0)
    BY <1>1
  <2>2. d = [c EXCEPT !.score = n]
    BY <1>1, <2>1 DEF Ranked
  <2> QED
    BY <2>2
<1>3. /\ d.path = c.path /\ d.range = c.range /\ d.score = n /\ d.why = c.why /\ d.chars = c.chars
      /\ d \in [path : Paths, range : Nat \X Nat, score : Nat,
                why : {"explicit", "search", "symbol", "owner"}, chars : Nat]
  BY <1>1, <1>2
<1> HIDE DEF d
<1>4. PICK m \in Nat : e = [d EXCEPT !.chars = m]
  <2>1. Trim[d.why = "explicit"] \in Nat
    BY <1>3, ContextPackAssumption
  <2>2. PICK m \in Nat : m = IF request.profile = "normal" THEN d.chars
                             ELSE Smallest(d.chars, Trim[d.why = "explicit"])
    BY <1>3, <2>1 DEF Smallest
  <2>3. e = [d EXCEPT !.chars = m]
    BY <2>2 DEF Profiled
  <2> QED
    BY <2>3
<1>5. /\ e.path = c.path /\ e.range = c.range /\ e.why = c.why
      /\ e \in [path : Paths, range : Nat \X Nat, score : Nat,
                why : {"explicit", "search", "symbol", "owner"}, chars : Nat]
  BY <1>3, <1>4
<1> HIDE DEF e
<1>6. WellPlaced(e)
  BY <1>1, <1>5 DEF WellPlaced
<1>7. e \in Found /\ e.path = c.path /\ e.why = c.why
  BY <1>5, <1>6 DEF Found
<1> QED
  BY <1>7 DEF e, d

LEMMA SelectStep == ASSUME IInv, Select PROVE GatherInv' /\ SelectInv'
<1> DEFINE s == [i \in DOMAIN candidates |-> Profiled(Ranked(candidates[i]))]
<1>1. /\ stage = "owner" /\ stage' = "selected" /\ todo = <<>> /\ request \in RequestType
      /\ candidates \in Seq(Found) /\ candidates' = Sorted(s)
      /\ UNCHANGED <<request, explicit, rows, todo, memo>> /\ TypeInv /\ GatherInv
  BY DEF Select, IInv, GatherInv, TypeInv, RequestType
<1>2. /\ DOMAIN candidates = 1 .. Len(candidates) /\ Len(candidates) \in Nat
      /\ \A i \in DOMAIN candidates : candidates[i] \in Found
  BY <1>1
<1>3. \A i \in DOMAIN candidates : /\ s[i] \in Found /\ s[i].path = candidates[i].path
                                  /\ s[i].why = candidates[i].why
  BY <1>1, <1>2, ProfiledFound
<1>4. s \in Seq(Found) /\ DOMAIN s = DOMAIN candidates /\ Len(s) = Len(candidates)
  <2>1. \A i \in 1 .. Len(candidates) : s[i] \in Found
    BY <1>2, <1>3
  <2>2. s = [i \in 1 .. Len(candidates) |-> s[i]]
    BY <1>2
  <2> HIDE DEF s
  <2> QED
    BY <1>2, <2>1, <2>2
<1> HIDE DEF s
<1>5. PICK sorted : sorted = Sorted(s)
  OBVIOUS
<1>6. /\ sorted \in Seq(Found) /\ Len(sorted) = Len(s) /\ DOMAIN sorted = DOMAIN s
      /\ \A i \in DOMAIN s : \E k \in DOMAIN s : sorted[k] = s[i]
      /\ \A k, l \in DOMAIN s : k < l => ~ Before(sorted[l], sorted[k])
  <2>1. /\ sorted \in Seq(Found) /\ Len(sorted) = Len(s)
        /\ \A i \in DOMAIN s : \E k \in DOMAIN s : sorted[k] = s[i]
        /\ \A k, l \in DOMAIN s : k < l => ~ Before(sorted[l], sorted[k])
    BY <1>4, <1>5, SortedIsOrdered
  <2>2. DOMAIN sorted = DOMAIN s
    BY <1>4, <2>1
  <2> QED
    BY <2>1, <2>2
<1>7. Ordered(sorted)
  BY <1>6 DEF Ordered
<1>8. PICK p : p = Selection(sorted)
  OBVIOUS
<1>9. Pass(sorted, Len(sorted), p)
  BY <1>1, <1>6, <1>7, <1>8, SelectionHolds
<1>10. candidates' = sorted /\ selected' = p.items /\ omitted' = omitted \cup p.out
  BY <1>1, <1>5, <1>8 DEF Select, s
<1>11. ASSUME NEW path, NEW why, EvidenceIn(candidates, path, why)
       PROVE  EvidenceIn(candidates', path, why)
  <2>1. PICK i \in DOMAIN candidates : candidates[i].path = path /\ candidates[i].why = why
    BY <1>11 DEF EvidenceIn
  <2>2. PICK k \in DOMAIN s : sorted[k] = s[i]
    BY <1>4, <1>6, <2>1
  <2>3. sorted[k].path = path /\ sorted[k].why = why /\ k \in DOMAIN sorted
    BY <1>3, <1>6, <2>1, <2>2
  <2> QED
    BY <1>10, <2>3 DEF EvidenceIn
<1>12. \A o \in p.out : o.why \in Forced
  BY <1>9 DEF Pass, Explained
<1>13. TypeInv'
  <2>1. selected' \in Seq(Found)
    BY <1>9, <1>10 DEF Pass
  <2> QED
    BY <1>1, <1>6, <1>10, <1>12, <2>1 DEF TypeInv, Stages, Reasons, Forced
<1>14. Waiting("explicit") = {} /\ Waiting("search") = {}
  BY <1>1 DEF Waiting
<1>15. GatherInv'
  BY <1>1, <1>10, <1>11, <1>13, <1>14, LaterStep
<1>16. \A o \in omitted' : o.why \in Forced => o \in p.out
  BY <1>1, <1>10 DEF TypeInv
<1>17. Pass(candidates, Len(candidates), p)'
  <2>1. Pass(sorted, Len(sorted), p)' = Pass(sorted, Len(sorted), p)
    BY <1>1 DEF Pass, Explained, Limits, PerPath
  <2> QED
    BY <1>9, <1>10, <2>1
<1>18. SelectInv'
  BY <1>10, <1>16, <1>17 DEF SelectInv
<1> QED
  BY <1>15, <1>18

LEMMA PackInit == ASSUME Init PROVE IInv
<1>1. GatherInv
  <2>1. TypeInv
    BY DEF Init, TypeInv, Stages, NoRequest
  <2>2. NamedKept(explicit, candidates, omitted, Waiting("explicit"))
    BY DEF Init, NamedKept, ToSet
  <2>3. RowsKept(rows, SummaryLimit(Len(rows)), candidates, omitted, Waiting("search"))
    BY DEF Init, RowsKept
  <2> QED
    BY <2>1, <2>2, <2>3 DEF Init, GatherInv
<1>2. SelectInv /\ CountInv
  BY DEF Init, SelectInv, CountInv, Count, NoCount, Passes
<1> QED
  BY <1>1, <1>2 DEF IInv

\* Until the answer is counted, its counts are those of no answer.
LEMMA CountRests ==
    ASSUME CountInv, UNCHANGED count, stage' # "counting"
    PROVE  CountInv'
BY DEF CountInv

LEMMA AssembledCount == ASSUME CountInv, Assemble PROVE CountInv'
<1>1. PICK text \in Texts, baseline \in Baselines :
        count' = [NoCount EXCEPT !.text = text, !.baseline = baseline,
                                 !.base = baseline, !.shown.base = baseline]
  BY DEF Assemble
<1>2. text \in Nat /\ baseline \in Nat
  BY ContextPackAssumption
<1>3. count' = [text |-> text, baseline |-> baseline, pass |-> 0, out |-> 0, base |-> baseline,
                shown |-> [out |-> 0, base |-> baseline], settled |-> FALSE]
  BY <1>1 DEF NoCount
<1>4. count' \in Count
  BY <1>2, <1>3 DEF Count, Passes
<1> QED
  BY <1>3, <1>4 DEF CountInv

LEMMA CountSteps == ASSUME IInv, [Next]_vars PROVE CountInv'
<1>1. CountInv
  BY DEF IInv
<1>2. CASE Assemble
  BY <1>1, <1>2, AssembledCount
<1>3. CASE CountPass
  BY <1>1, <1>3, CountStep
<1>4. CASE Answer
  BY <1>4 DEF Answer, CountInv, Count, NoCount, Passes
<1>5. CASE UNCHANGED vars
  BY <1>1, <1>5 DEF CountInv, vars, Real
<1>6. CASE Begin \/ NamedPath \/ Search
  BY <1>1, <1>6, CountRests DEF Begin, NamedPath, Search, SearchFails
<1>7. CASE SearchHit \/ SearchDone \/ Symbols \/ SymbolHit \/ SymbolsDone
  BY <1>1, <1>7, CountRests DEF SearchHit, SearchFails, SearchDone, Symbols, SymbolHit, SymbolsDone
<1>8. CASE Owners \/ Owner \/ Select
  BY <1>1, <1>8, CountRests DEF Owners, Owner, Select
<1> QED
  BY <1>2, <1>3, <1>4, <1>5, <1>6, <1>7, <1>8 DEF Next

LEMMA GatherSteps == ASSUME IInv, [Next]_vars PROVE GatherInv'
<1>1. GatherInv
  BY DEF IInv
<1>2. CASE Begin \/ NamedPath
  BY <1>1, <1>2, BeginStep, NamedPathStep
<1>3. CASE Search \/ SearchHit
  BY <1>1, <1>3, SearchStep, SearchHitStep
<1>4. CASE SearchDone \/ Symbols \/ SymbolHit \/ SymbolsDone
  BY <1>1, <1>4, SymbolSteps
<1>5. CASE Owners \/ Owner
  BY <1>1, <1>5, OwnerSteps
<1>6. CASE Select
  BY <1>6, SelectStep
<1>7. CASE Assemble \/ CountPass \/ Answer \/ UNCHANGED vars
  BY <1>1, <1>7, AnswerSteps
<1> QED
  BY <1>2, <1>3, <1>4, <1>5, <1>6, <1>7 DEF Next

LEMMA SelectedSteps == ASSUME IInv, [Next]_vars PROVE SelectInv'
<1>1. CASE Select
  BY <1>1, SelectStep
<1>2. CASE UNCHANGED vars
  <2>1. UNCHANGED <<stage, request, candidates, selected, omitted>>
    BY <1>2 DEF vars, gathering
  <2>2. ASSUME stage = "selected" PROVE SelectInv'
    <3>1. PICK p : /\ Pass(candidates, Len(candidates), p)
                   /\ selected = p.items /\ p.out \subseteq omitted
                   /\ \A o \in omitted : o.why \in Forced => o \in p.out
      BY <2>2 DEF IInv, SelectInv
    <3>2. PICK cs : cs = candidates
      OBVIOUS
    <3>3. Pass(cs, Len(cs), p)' = Pass(cs, Len(cs), p)
      BY <2>1 DEF Pass, Explained, Limits, PerPath
    <3>4. Pass(candidates, Len(candidates), p)'
      BY <2>1, <3>1, <3>2, <3>3
    <3> QED
      BY <2>1, <3>1, <3>4 DEF SelectInv
  <2> QED
    BY <2>1, <2>2 DEF SelectInv
<1>3. CASE Begin \/ NamedPath \/ Search \/ SearchHit \/ SearchDone
  BY <1>3 DEF SelectInv, Begin, NamedPath, Search, SearchHit, SearchFails, SearchDone
<1>4. CASE Symbols \/ SymbolHit \/ SymbolsDone \/ Owners \/ Owner
  BY <1>4 DEF SelectInv, Symbols, SymbolHit, SymbolsDone, Owners, Owner
<1>5. CASE Assemble \/ CountPass \/ Answer
  BY <1>5 DEF SelectInv, Assemble, CountPass, Counting, Answer
<1> QED
  BY <1>1, <1>2, <1>3, <1>4, <1>5 DEF Next

\* What all the theorems rest on holds in every reachable state.
LEMMA PackInvariant == Spec => []IInv
<1>1. IInv /\ [Next]_vars => IInv'
  BY GatherSteps, SelectedSteps, CountSteps DEF IInv
<1> QED
  BY <1>1, PackInit, PTL DEF Spec

-----------------------------------------------------------------------------
(* The theorems.                                                             *)

\* Every variable of a request keeps its type; the lines an excerpt shows are lines
\* of the file as it is now, also where the index knew a longer file.
THEOREM PackTypeCorrect == Spec => []TypeOK
<1>1. IInv => TypeOK
  <2> SUFFICES ASSUME IInv PROVE TypeOK
    OBVIOUS
  <2>1. TypeInv /\ CountInv
    BY DEF IInv, GatherInv
  <2>2. ASSUME NEW c \in ToSet(candidates) \cup ToSet(selected)
        PROVE  /\ c.path \in Paths
               /\ 1 <= c.range[1] /\ c.range[1] <= Largest(1, c.range[2])
               /\ c.range[2] <= Length[c.path]
    <3>1. ToSet(candidates) \subseteq Found /\ ToSet(selected) \subseteq Found
      BY <2>1 DEF TypeInv, ToSet
    <3>2. c \in Found
      BY <3>1
    <3> QED
      BY <3>2 DEF Found, WellPlaced
  <2> QED
    BY <2>1, <2>2 DEF TypeOK, TypeInv, Stages, CountInv, Count
<1> QED
  BY <1>1, PackInvariant, PTL

\* When the selection is made, every path the request named, every search hit and every
\* piece of evidence is in the answer or the answer says why it is not.  Of a symbol or a
\* test owner that became no evidence nothing is claimed: the code leaves it out silently.
THEOREM NothingLostInSilence == Spec => []NothingVanishes
<1>1. IInv => NothingVanishes
  <2> SUFFICES ASSUME IInv, stage = "selected" PROVE NothingVanishes
    BY DEF NothingVanishes
  <2>1. PICK p : /\ Pass(candidates, Len(candidates), p)
                 /\ selected = p.items /\ p.out \subseteq omitted
    BY DEF IInv, SelectInv
  <2>2. /\ NamedKept(explicit, candidates, omitted, {})
        /\ RowsKept(rows, SummaryLimit(Len(rows)), candidates, omitted, {})
        /\ candidates \in Seq(Found)
    BY DEF IInv, GatherInv, Waiting, TypeInv
  <2>3. ASSUME NEW path, NEW why, EvidenceIn(candidates, path, why)
        PROVE  \E c \in ToSet(candidates) : c.path = path /\ c.why = why
    BY <2>3 DEF EvidenceIn, ToSet
  <2>4. ASSUME NEW path \in ToSet(explicit)
        PROVE  \/ \E c \in ToSet(candidates) : c.path = path /\ c.why = "explicit"
               \/ [why |-> "unreadable", path |-> path] \in omitted
    BY <2>2, <2>3 DEF NamedKept
  <2>5. ASSUME NEW i \in DOMAIN rows
        PROVE  \/ \E c \in ToSet(candidates) : c.path = rows[i].path /\ c.why = "search"
               \/ \E o \in omitted : o.why = "search_failed"
               \/ i > SummaryLimit(Len(rows)) /\ \E o \in omitted : o.why = "search_summary_limit"
    BY <2>2, <2>3 DEF RowsKept, SaidIn
  <2>6. ASSUME NEW c \in ToSet(candidates)
        PROVE  \/ c \in ToSet(selected)
               \/ \E o \in omitted : "item" \in DOMAIN o /\ o.item = c
    <3>1. PICK m \in DOMAIN candidates : candidates[m] = c
      BY DEF ToSet
    <3>2. m \in 1 .. Len(candidates)
      BY <2>2
    <3>3. \/ \E i \in DOMAIN p.items : p.items[i] = c
          \/ \E o \in p.out : o.item = c
      BY <2>1, <3>1, <3>2 DEF Pass
    <3>4. CASE \E i \in DOMAIN p.items : p.items[i] = c
      BY <2>1, <3>4 DEF ToSet
    <3>5. CASE \E o \in p.out : o.item = c
      <4>1. PICK o \in p.out : o.item = c
        BY <3>5
      <4>2. o = [why |-> o.why, item |-> o.item]
        BY <2>1 DEF Pass, Explained
      <4>3. "item" \in DOMAIN o
        BY <4>2
      <4> QED
        BY <2>1, <4>1, <4>3
    <3> QED
      BY <3>3, <3>4, <3>5
  <2> QED
    BY <2>4, <2>5, <2>6 DEF NothingVanishes
<1> QED
  BY <1>1, PackInvariant, PTL

\* The selection keeps to its limits, and nothing is left out that could still have
\* been added to it in the end.
THEOREM SelectionIsForced == Spec => []OmissionsAreForced
<1>1. IInv => OmissionsAreForced
  <2> SUFFICES ASSUME IInv, stage = "selected" PROVE OmissionsAreForced
    BY DEF OmissionsAreForced
  <2>1. PICK p : /\ Pass(candidates, Len(candidates), p) /\ selected = p.items
                 /\ \A o \in omitted : o.why \in Forced => o \in p.out
    BY DEF IInv, SelectInv
  <2>2. candidates \in Seq(Found) /\ selected \in Seq(Found) /\ p.used = Size(selected)
    BY <2>1 DEF IInv, GatherInv, TypeInv, Pass
  <2>3. DOMAIN candidates = 1 .. Len(candidates) /\ Len(candidates) \in Nat
    BY <2>2
  <2>4. /\ Len(selected) <= request.items
        /\ \A path \in Paths : Cardinality(OfPath(selected, path)) <= PerPath
        /\ Size(selected) <= Budget \/ Len(selected) = 1
    BY <2>1, <2>2 DEF Pass, Limits
  <2>5. \A i, j \in DOMAIN selected :
          i # j => <<selected[i].path, selected[i].range>> # <<selected[j].path, selected[j].range>>
    BY <2>1 DEF Pass, Key
  <2>6. request.items > 0 /\ candidates # <<>> => selected # <<>> /\ selected[1] = candidates[1]
    <3>1. candidates # <<>> => Len(candidates) > 0
      BY <2>2
    <3> QED
      BY <2>1, <3>1 DEF Pass
  <2>7. ASSUME NEW o \in omitted, o.why \in Forced
        PROVE  Explained(candidates, Len(candidates), selected, Size(selected), o)
    BY <2>1, <2>2, <2>7 DEF Pass
  <2>8. ASSUME NEW o \in omitted
        PROVE  /\ o.why = "diversity_limit" =>
                    Cardinality(Above(selected, o.item) \cap OfPath(selected, o.item.path)) >= PerPath
               /\ o.why = "item_limit" => Cardinality(Above(selected, o.item)) >= request.items
               /\ o.why = "budget_exhausted" =>
                    Above(selected, o.item) # {} /\ Size(selected) + o.item.chars > Budget
               /\ o.why = "duplicate" =>
                    \E i, j \in DOMAIN candidates :
                        /\ i < j /\ candidates[j] = o.item
                        /\ candidates[i].path = o.item.path
                        /\ candidates[i].range = o.item.range
    <3>1. CASE o.why \notin Forced
      BY <3>1 DEF Forced
    <3>2. CASE o.why \in Forced
      <4>1. Explained(candidates, Len(candidates), selected, Size(selected), o)
        BY <2>7, <3>2
      <4>2. ASSUME o.why = "duplicate"
            PROVE  \E i, j \in DOMAIN candidates :
                        /\ i < j /\ candidates[j] = o.item
                        /\ candidates[i].path = o.item.path
                        /\ candidates[i].range = o.item.range
        <5>1. PICK j \in 1 .. Len(candidates) :
                candidates[j] = o.item /\ \E i \in 1 .. j - 1 : Key(candidates[i]) = Key(o.item)
          BY <4>1, <4>2 DEF Explained
        <5>2. PICK i \in 1 .. j - 1 : Key(candidates[i]) = Key(o.item)
          BY <5>1
        <5>3. i < j /\ i \in DOMAIN candidates /\ j \in DOMAIN candidates
          BY <2>3
        <5>4. candidates[i].path = o.item.path /\ candidates[i].range = o.item.range
          BY <5>2 DEF Key
        <5> QED
          BY <5>1, <5>3, <5>4
      <4> QED
        BY <4>1, <4>2 DEF Explained
    <3> QED
      BY <3>1, <3>2
  <2> QED
    BY <2>4, <2>5, <2>6, <2>8 DEF OmissionsAreForced, Above
<1> QED
  BY <1>1, PackInvariant, PTL

\* The size the answer reports of itself is exact where the passes settled, and no
\* more than two tokens off where four passes did not settle it.
THEOREM CountedWithinTwo == Spec => []CountsWithinTwo
<1>1. IInv => CountsWithinTwo
  <2> SUFFICES ASSUME IInv, stage = "counting", ~ Counting(count) PROVE CountsWithinTwo
    BY DEF CountsWithinTwo
  <2>1. /\ CountInv /\ count \in Count /\ count.shown = [out |-> count.out, base |-> count.base]
    BY DEF IInv, CountInv
  <2>2. count.shown.out = count.out /\ count.out \in Nat /\ count.pass \in 0 .. 4 /\ count.settled \in BOOLEAN
    BY <2>1 DEF Count, Passes
  <2>3. count.settled => count.out = Real(count)
    BY <2>1 DEF CountInv
  <2>4. count.out - Real(count) \in -2 .. 2
    <3>1. CASE count.settled
      BY <2>2, <2>3, <3>1
    <3>2. CASE ~ count.settled
      <4>1. count.pass >= 2
        BY <2>2, <3>2 DEF Counting, Passes
      <4> QED
        BY <2>1, <4>1 DEF CountInv
    <3> QED
      BY <3>1, <3>2
  <2> QED
    BY <2>1, <2>2, <2>3, <2>4 DEF CountsWithinTwo, Real
<1> QED
  BY <1>1, PackInvariant, PTL
================================================================================
