------------------------- MODULE WarmupLearningProofs -------------------------
(***************************************************************************)
(* Theorems about WarmupLearning, for any number of packers and manual     *)
(* warm-ups, any terms, thresholds and intervals, and any number of edits, *)
(* failures and crashes.                                                   *)
(***************************************************************************)
EXTENDS WarmupLearning, TLAPS

Outcomes == {"enqueued", "deduplicated", "throttled"}
Ends == {"completed", "failed", "stale"}
Rows == [Counters -> Nat]
StatRows == [zero : Nat, unselected : Nat, selected : BOOLEAN, results : BOOLEAN]
Pasts == [zero : Nat, unselected : Nat, zeros : Nat, unselecteds : Nat,
          lost : SUBSET {"zero", "unselected"}]

PackStates ==
    [pc : {"idle", "observed", "attempted", "submitted"}, copy : Rows,
     manifest : Manifests \cup {None}, outcome : Outcomes \cup {""},
     foreign : BOOLEAN]

MarkStates ==
    [pc : {"idle", "due", "load"}, copy : Rows,
     status : Ends \cup {"running", ""}, foreign : BOOLEAN]

WorkStates ==
    [pc : {"idle", "gate", "running", "check", "learn", "learned", "search",
           "searched", "ending"},
     manifest : Manifests \cup {None}, gate : BOOLEAN, late : BOOLEAN,
     owner : [kind : {"packer"}, packer : Packers] \cup {None},
     todo : SUBSET Terms, avoid : SUBSET Terms, term : Terms \cup {None},
     result : {"", "none", "found", "selected"}, row : StatRows, overtaken : BOOLEAN]

RowsType ==
    /\ signature \in 0..MaxEdits /\ now \in 0..MaxTime /\ manuals \in 0..MaxManual
    /\ prompt \in Manifests \cup {None}
    /\ auto \in Rows /\ truth \in Rows
    /\ stats \in [Terms -> StatRows] /\ known \in [Terms -> Pasts]
    /\ seeds \subseteq Terms
    /\ lastStart \in [kind : {"time"}, at : Nat] \cup {None}
    /\ disturbed \in BOOLEAN

PackType ==
    /\ pack \in [Packers -> PackStates]
    /\ \A p \in Packers :
        /\ pack[p].pc # "idle" => pack[p].manifest \in Manifests
        /\ pack[p].pc = "submitted" => pack[p].outcome \in Outcomes

MarkType ==
    /\ mark \in MarkStates
    /\ mark.pc # "idle" => mark.status # ""

WorkSound(w, new) ==
    /\ w = Job /\ new.pc # "idle" => new.owner # None
    /\ w = Job /\ new.pc \notin {"idle", "ending"} => new.manifest \in Manifests
    /\ new.pc \in {"learned", "searched"} => new.term \in Terms /\ new.result # ""
    /\ new.pc = "learn" /\ new.todo # {} => new.manifest \in Manifests
    /\ new.pc = "learned" => new.manifest \in Manifests

WorkType ==
    /\ work \in [Workers -> WorkStates]
    /\ \A w \in Workers : WorkSound(w, work[w])

\* The run stands still while its mark is due.
MarkAgrees ==
    mark.pc # "idle" =>
        work[Job].pc = IF mark.status = "running" THEN "running" ELSE "ending"

TypeInv == RowsType /\ PackType /\ MarkType /\ WorkType /\ MarkAgrees

\* The run's outcome is counted in truth when it is reached, and in the row when
\* its mark is put; a submission's, when the request puts the row at its end.
Pending(c) == IF mark.pc # "idle" /\ mark.status = c THEN 1 ELSE 0
Own(p, c) == IF pack[p].pc = "submitted" /\ pack[p].outcome = c THEN 1 ELSE 0

CountsSound ==
    /\ \A c \in Counters :
        /\ auto[c] + Pending(c) <= truth[c]
        /\ mark.pc = "load" => mark.copy[c] + Pending(c) <= truth[c]
        /\ \A p \in Packers :
            pack[p].pc # "idle" => pack[p].copy[c] + Own(p, c) + Pending(c) <= truth[c]
    /\ \A p \in Packers :
        pack[p].pc \in {"attempted", "submitted"} => pack[p].copy["observed"] >= MinPacks
    /\ truth["enqueued"] > 0 => truth["observed"] >= MinPacks

Inv == TypeInv /\ CountsSound

-----------------------------------------------------------------------------
LEMMA Bounds ==
    /\ MinPacks \in Nat /\ Interval \in Nat
    /\ ZeroLimit \in Nat /\ ZeroLimit > 0 /\ UnselectedLimit \in Nat /\ UnselectedLimit > 0
    /\ MaxPacks \in Nat /\ MaxManual \in Nat /\ MaxEdits \in Nat /\ MaxTime \in Nat
<1>1. \A n : n \in {MinPacks, Interval} => n \in Nat
  BY WarmupAssumption
<1>2. \A n : n \in {ZeroLimit, UnselectedLimit} => n \in Nat \ {0}
  BY WarmupAssumption
<1>3. \A n : n \in {MaxPacks, MaxManual, MaxEdits, MaxTime} => n \in Nat
  BY WarmupAssumption
<1> QED
  BY <1>1, <1>2, <1>3

LEMMA JobIsWorker == Job \in Workers /\ Job \notin Warmers
BY WarmupAssumption DEF Workers

LEMMA NoneIsNoManifest == None \notin Manifests
BY DEF None, Manifests

LEMMA IdleValues ==
    /\ Zero \in Rows /\ IdlePack \in PackStates /\ NoMark \in MarkStates
    /\ NoStats \in StatRows /\ NothingKnown \in Pasts
    /\ IdleWork \in WorkStates
<1>1. Zero \in Rows
  BY DEF Zero, Rows
<1>2. NoStats \in StatRows /\ NothingKnown \in Pasts
  BY DEF NoStats, NothingKnown, StatRows, Pasts
<1>3. IdlePack \in PackStates /\ NoMark \in MarkStates
  BY <1>1 DEF IdlePack, NoMark, PackStates, MarkStates
<1>4. IdleWork \in WorkStates
  BY <1>2 DEF IdleWork, WorkStates
<1> QED
  BY <1>1, <1>2, <1>3, <1>4

LEMMA IdleWorkSound ==
    ASSUME NEW w \in Workers
    PROVE  WorkSound(w, IdleWork)
BY IdleValues DEF WorkSound, IdleWork

LEMMA PlusOne ==
    ASSUME NEW row \in Rows, NEW c \in Counters
    PROVE  /\ Plus(row, c) \in Rows
           /\ Plus(row, c)[c] = row[c] + 1
           /\ \A e \in Counters \ {c} : Plus(row, c)[e] = row[e]
BY DEF Plus, Rows

LEMMA PlusOther ==
    ASSUME NEW row, NEW c, NEW e \in Counters, e # c, row \in Rows
    PROVE  Plus(row, c)[e] = row[e]
BY DEF Plus, Rows

LEMMA SomeCounters == Outcomes \subseteq Counters /\ Ends \subseteq Counters
                        /\ "running" \notin Counters /\ "observed" \in Counters
                        /\ "enqueued" \in Counters
BY DEF Outcomes, Ends, Counters

LEMMA CountIsNat ==
    ASSUME NEW row \in Rows, NEW c \in Counters
    PROVE  row[c] \in Nat
BY DEF Rows

LEMMA ForeignPacks ==
    ASSUME PackType
    PROVE  /\ WithForeign(pack) \in [Packers -> PackStates]
           /\ \A p \in Packers :
                /\ WithForeign(pack)[p].pc = pack[p].pc
                /\ WithForeign(pack)[p].copy = pack[p].copy
                /\ WithForeign(pack)[p].manifest = pack[p].manifest
                /\ WithForeign(pack)[p].outcome = pack[p].outcome
<1> SUFFICES ASSUME NEW p \in Packers
             PROVE  /\ WithForeign(pack)[p] \in PackStates
                    /\ WithForeign(pack)[p].pc = pack[p].pc
                    /\ WithForeign(pack)[p].copy = pack[p].copy
                    /\ WithForeign(pack)[p].manifest = pack[p].manifest
                    /\ WithForeign(pack)[p].outcome = pack[p].outcome
  BY DEF WithForeign
<1>1. pack[p] \in PackStates
  BY DEF PackType
<1>2. [pack[p] EXCEPT !.foreign = TRUE] \in PackStates
  BY <1>1 DEF PackStates
<1>3. WithForeign(pack)[p] \in {pack[p], [pack[p] EXCEPT !.foreign = TRUE]}
  BY DEF WithForeign
<1> QED
  BY <1>1, <1>2, <1>3 DEF PackStates

LEMMA LearnInit == Init => Inv
<1> SUFFICES ASSUME Init PROVE Inv
  OBVIOUS
<1>1. RowsType
  <2>1. signature \in 0..MaxEdits /\ now \in 0..MaxTime /\ manuals \in 0..MaxManual
    BY Bounds DEF Init
  <2>2. auto \in Rows /\ truth \in Rows
    BY IdleValues DEF Init
  <2>3. stats \in [Terms -> StatRows] /\ known \in [Terms -> Pasts]
    BY IdleValues DEF Init
  <2> QED
    BY <2>1, <2>2, <2>3 DEF Init, RowsType
<1>2. PackType /\ MarkType /\ WorkType
  <2>1. \A p \in Packers : pack[p] = IdlePack
    BY DEF Init
  <2>2. work[Job] = IdleWork /\ \A w \in Workers : work[w] = IdleWork
    BY JobIsWorker DEF Init
  <2>3. PackType
    BY <2>1, IdleValues DEF Init, PackType, IdlePack
  <2>4. MarkType
    BY IdleValues DEF Init, MarkType, NoMark
  <2>5. WorkType
    <3>1. work \in [Workers -> WorkStates]
      BY IdleValues DEF Init
    <3>2. \A w \in Workers : WorkSound(w, IdleWork)
      BY IdleWorkSound
    <3> QED
      BY <2>2, <3>1, <3>2 DEF WorkType
  <2> QED
    BY <2>3, <2>4, <2>5
<1>3. CountsSound
  <2>1. \A p \in Packers : pack[p].pc = "idle"
    BY DEF Init, IdlePack
  <2>2. mark.pc = "idle"
    BY DEF Init, NoMark
  <2>3. \A c \in Counters : auto[c] = 0 /\ truth[c] = 0 /\ Pending(c) = 0
    BY <2>2 DEF Init, Zero, Pending
  <2> QED
    BY <2>1, <2>2, <2>3, SomeCounters DEF CountsSound
<1>5. MarkAgrees
  BY DEF Init, MarkAgrees, NoMark
<1> QED
  BY <1>1, <1>2, <1>3, <1>5 DEF Inv, TypeInv

\* A step that leaves every row alone but those of the term statistics.
LEMMA CountsKept ==
    ASSUME CountsSound, UNCHANGED <<auto, truth, pack, mark>>
    PROVE  CountsSound'
BY DEF CountsSound, Pending, Own

LEMMA WorkKept ==
    ASSUME WorkType, work' = work
    PROVE  WorkType'
BY DEF WorkType, WorkSound

LEMMA WorkPut ==
    ASSUME WorkType, NEW w \in Workers, NEW new \in WorkStates, WorkSound(w, new),
           work' = [work EXCEPT ![w] = new]
    PROVE  WorkType'
<1>1. work' \in [Workers -> WorkStates]
  BY DEF WorkType
<1>2. \A v \in Workers : WorkSound(v, work'[v])
  BY DEF WorkType
<1> QED
  BY <1>1, <1>2 DEF WorkType, WorkSound

-----------------------------------------------------------------------------
(* The tail of a context pack.                                               *)

LEMMA ObserveStep ==
    ASSUME Inv, NEW p \in Packers, Observe(p)
    PROVE  Inv'
<1> USE DEF Inv, TypeInv
<1> PICK terms \in (SUBSET Terms) \ {{}}, result \in Yields, available \in BOOLEAN :
        LET manifest == [kind |-> "manifest", sig |-> signature, terms |-> terms,
                         result |-> result, learned |-> seeds, available |-> available]
        IN  /\ prompt' = manifest
            /\ pack' = [pack EXCEPT ![p] =
                   [IdlePack EXCEPT !.pc = "observed", !.copy = Plus(auto, "observed"),
                                    !.manifest = manifest]]
  BY DEF Observe
<1> DEFINE manifest == [kind |-> "manifest", sig |-> signature, terms |-> terms,
                        result |-> result, learned |-> seeds, available |-> available]
           new == [IdlePack EXCEPT !.pc = "observed", !.copy = Plus(auto, "observed"),
                                   !.manifest = manifest]
<1>1. manifest \in Manifests
  BY DEF Manifests, RowsType
<1> HIDE DEF manifest
<1>2. Plus(auto, "observed") \in Rows /\ Plus(truth, "observed") \in Rows
  BY PlusOne, SomeCounters DEF RowsType
<1>3. /\ new \in PackStates /\ new.pc = "observed" /\ new.manifest = manifest
      /\ new.copy = Plus(auto, "observed")
  BY <1>1, <1>2, IdleValues DEF PackStates
<1> HIDE DEF new
<1>4. /\ pack' = [pack EXCEPT ![p] = new] /\ prompt' = manifest
      /\ truth' = Plus(truth, "observed")
      /\ UNCHANGED <<signature, auto, learning, work, mark, registry, disturbed, manuals>>
  BY DEF Observe, new, manifest
<1>5. pack'[p] = new /\ \A q \in Packers \ {p} : pack'[q] = pack[q]
  BY <1>4 DEF PackType
<1>6. RowsType'
  BY <1>1, <1>2, <1>4 DEF RowsType, learning, registry
<1>7. PackType'
  BY <1>1, <1>3, <1>4, <1>5 DEF PackType
<1>8. MarkType' /\ WorkType' /\ MarkAgrees'
  BY <1>4, WorkKept DEF MarkType, MarkAgrees
<1>9. CountsSound'
  <2>1. ASSUME NEW c \in Counters
        PROVE  /\ auto[c] \in Nat /\ truth[c] \in Nat /\ auto'[c] = auto[c]
               /\ \E n \in {0, 1} : truth'[c] = truth[c] + n /\ new.copy[c] = auto[c] + n
               /\ Pending(c)' = Pending(c) /\ Pending(c) \in {0, 1}
               /\ Own(p, c)' = 0
    <3>1. auto[c] \in Nat /\ truth[c] \in Nat /\ auto'[c] = auto[c]
      BY <1>4, CountIsNat DEF RowsType
    <3>2. \E n \in {0, 1} : truth'[c] = truth[c] + n /\ new.copy[c] = auto[c] + n
      <4>1. auto \in Rows /\ truth \in Rows
        BY DEF RowsType
      <4>2. CASE c = "observed"
        BY <1>3, <1>4, <4>1, <4>2, PlusOne
      <4>3. CASE c # "observed"
        <5>1. truth'[c] = truth[c] /\ new.copy[c] = auto[c]
          BY <1>3, <1>4, <4>1, <4>3, PlusOne, SomeCounters
        <5> QED
          BY <3>1, <5>1
      <4> QED
        BY <4>2, <4>3
    <3>3. Pending(c)' = Pending(c) /\ Pending(c) \in {0, 1}
      BY <1>4 DEF Pending
    <3>4. Own(p, c)' = 0
      BY <1>3, <1>5 DEF Own
    <3> QED
      BY <3>1, <3>2, <3>3, <3>4
  <2>2. \A c \in Counters :
          /\ auto'[c] + Pending(c)' <= truth'[c]
          /\ mark'.pc = "load" => mark'.copy[c] + Pending(c)' <= truth'[c]
    <3> SUFFICES ASSUME NEW c \in Counters
                 PROVE  /\ auto'[c] + Pending(c)' <= truth'[c]
                        /\ mark'.pc = "load" => mark'.copy[c] + Pending(c)' <= truth'[c]
      OBVIOUS
    <3>1. mark.copy[c] \in Nat
      BY CountIsNat DEF MarkType, MarkStates
    <3> QED
      BY <1>4, <2>1, <3>1 DEF CountsSound
  <2>3. ASSUME NEW c \in Counters, NEW q \in Packers, pack'[q].pc # "idle"
        PROVE  pack'[q].copy[c] + Own(q, c)' + Pending(c)' <= truth'[c]
    <3>1. CASE q = p
      <4>1. auto[c] + Pending(c) <= truth[c] /\ pack'[q].copy = new.copy
        BY <1>5, <3>1 DEF CountsSound
      <4>2. PICK n \in {0, 1} : truth'[c] = truth[c] + n /\ new.copy[c] = auto[c] + n
        BY <2>1
      <4>3. auto[c] \in Nat /\ truth[c] \in Nat /\ Pending(c)' = Pending(c)
            /\ Pending(c) \in {0, 1} /\ Own(q, c)' = 0
        BY <2>1, <3>1
      <4> QED
        BY <4>1, <4>2, <4>3
    <3>2. CASE q # p
      <4>1. pack'[q] = pack[q] /\ Own(q, c)' = Own(q, c) /\ Own(q, c) \in Nat
        BY <1>5, <3>2 DEF Own
      <4>2. pack[q].copy[c] \in Nat
        BY CountIsNat DEF PackType, PackStates
      <4> QED
        <5>1. pack[q].copy[c] + Own(q, c) + Pending(c) <= truth[c]
          BY <2>3, <4>1 DEF CountsSound
        <5>2. truth'[c] >= truth[c] /\ truth'[c] \in Nat
          BY <2>1
        <5>3. Pending(c)' = Pending(c) /\ Pending(c) \in Nat /\ truth[c] \in Nat
          BY <2>1
        <5>4. pack[q].copy[c] + Own(q, c) + Pending(c) <= truth'[c]
          BY <4>1, <4>2, <5>1, <5>2, <5>3
        <5> QED
          BY <4>1, <5>3, <5>4
    <3> QED
      BY <3>1, <3>2
  <2>4. /\ \A q \in Packers :
             pack'[q].pc \in {"attempted", "submitted"} =>
                 pack'[q].copy["observed"] >= MinPacks
        /\ truth'["enqueued"] > 0 => truth'["observed"] >= MinPacks
    <3>1. \A q \in Packers \ {p} : pack'[q] = pack[q]
      BY <1>5
    <3>2. pack'[p].pc = "observed"
      BY <1>3, <1>5
    <3>3. truth'["observed"] = truth["observed"] + 1
          /\ truth'["enqueued"] = truth["enqueued"]
      BY <1>4, SomeCounters, PlusOne DEF RowsType
    <3>4. truth["observed"] \in Nat
      BY SomeCounters, CountIsNat DEF RowsType
    <3> QED
      BY <3>1, <3>2, <3>3, <3>4, Bounds DEF CountsSound
  <2> QED
    BY <2>2, <2>3, <2>4 DEF CountsSound
<1> QED
  BY <1>6, <1>7, <1>8, <1>9

\* The put of a pack, with nothing in it but what has happened.
LEMMA PutAutoMoves ==
    ASSUME Inv, NEW p \in Packers, NEW row \in Rows, NEW next \in PackStates,
           PutAuto(p, row, next), truth' = truth,
           \A c \in Counters : row[c] + Pending(c) <= truth[c],
           next.pc \in {"idle", "attempted"},
           next.pc = "attempted" => /\ next.copy = row /\ next.manifest \in Manifests
                                    /\ row["observed"] >= MinPacks
    PROVE  /\ auto' \in Rows /\ disturbed' \in BOOLEAN
           /\ PackType' /\ MarkType' /\ CountsSound'
           /\ mark'.pc = mark.pc /\ mark'.status = mark.status
<1> USE DEF Inv, TypeInv
<1>1. /\ auto' = row /\ disturbed' = (disturbed \/ pack[p].foreign)
      /\ pack' = [WithForeign(pack) EXCEPT ![p] = next]
      /\ mark' = IF mark.pc = "load" THEN [mark EXCEPT !.foreign = TRUE] ELSE mark
  BY DEF PutAuto, RunMarkIsForeign
<1>2. /\ pack'[p] = next
      /\ \A q \in Packers \ {p} :
            /\ pack'[q].pc = pack[q].pc /\ pack'[q].copy = pack[q].copy
            /\ pack'[q].manifest = pack[q].manifest
            /\ pack'[q].outcome = pack[q].outcome
  BY <1>1, ForeignPacks
<1>3. /\ mark' \in MarkStates /\ mark'.pc = mark.pc /\ mark'.status = mark.status
      /\ mark'.copy = mark.copy
  BY <1>1 DEF MarkType, MarkStates
<1>4. auto' \in Rows /\ disturbed' \in BOOLEAN
  BY <1>1 DEF RowsType
<1>5. PackType'
  <2>1. pack' \in [Packers -> PackStates]
    BY <1>1, ForeignPacks
  <2> QED
    BY <1>2, <2>1 DEF PackType
<1>6. MarkType'
  BY <1>3 DEF MarkType
<1>7. \A c \in Counters : Pending(c)' = Pending(c)
  BY <1>3 DEF Pending
<1>8. \A q \in Packers, c \in Counters :
          IF q = p THEN Own(q, c)' = 0 ELSE Own(q, c)' = Own(q, c)
  BY <1>2 DEF Own
<1>9. CountsSound'
  <2>1. \A c \in Counters :
          /\ auto'[c] + Pending(c)' <= truth'[c]
          /\ mark'.pc = "load" => mark'.copy[c] + Pending(c)' <= truth'[c]
    BY <1>1, <1>3, <1>7 DEF CountsSound
  <2>2. ASSUME NEW c \in Counters, NEW q \in Packers, pack'[q].pc # "idle"
        PROVE  pack'[q].copy[c] + Own(q, c)' + Pending(c)' <= truth'[c]
    <3>1. CASE q = p
      <4>1. row[c] \in Nat /\ Pending(c) \in Nat
        BY CountIsNat DEF Pending
      <4> QED
        BY <1>2, <1>7, <1>8, <2>2, <3>1, <4>1
    <3>2. CASE q # p
      BY <1>2, <1>7, <1>8, <2>2, <3>2 DEF CountsSound
    <3> QED
      BY <3>1, <3>2
  <2>3. \A q \in Packers :
            pack'[q].pc \in {"attempted", "submitted"} =>
                pack'[q].copy["observed"] >= MinPacks
    BY <1>2 DEF CountsSound
  <2> QED
    BY <2>1, <2>2, <2>3 DEF CountsSound
<1> QED
  BY <1>3, <1>4, <1>5, <1>6, <1>9

\* What a worker is, in a form the steps below use.
LEMMA WorkerIs ==
    ASSUME Inv, NEW w \in Workers
    PROVE  work[w] \in WorkStates /\ WorkSound(w, work[w])
BY DEF Inv, TypeInv, WorkType

\* What a pack holds of the row has happened.
LEMMA HeldCounts ==
    ASSUME Inv, NEW p \in Packers, pack[p].pc # "idle", NEW c \in Counters
    PROVE  pack[p].copy[c] + Pending(c) <= truth[c]
<1>1. pack[p].copy[c] + Own(p, c) + Pending(c) <= truth[c]
  BY DEF Inv, CountsSound
<1>2. pack[p].copy[c] \in Nat /\ truth[c] \in Nat
  BY CountIsNat DEF Inv, TypeInv, RowsType, PackType, PackStates
<1>3. Own(p, c) \in {0, 1} /\ Pending(c) \in {0, 1}
  BY DEF Own, Pending
<1> QED
  BY <1>1, <1>2, <1>3

LEMMA DeclineStep ==
    ASSUME Inv, NEW p \in Packers, Decline(p)
    PROVE  Inv'
<1> USE DEF Inv, TypeInv
<1>1. /\ PutAuto(p, pack[p].copy, IdlePack)
      /\ pack[p].pc = "observed" /\ truth' = truth
      /\ UNCHANGED <<signature, prompt, learning, work, registry, manuals>>
  BY DEF Decline
<1>2. pack[p].copy \in Rows
  BY DEF PackType, PackStates
<1>3. \A c \in Counters : pack[p].copy[c] + Pending(c) <= truth[c]
  BY <1>1, HeldCounts
<1>4. /\ auto' \in Rows /\ disturbed' \in BOOLEAN
      /\ PackType' /\ MarkType' /\ CountsSound'
      /\ mark'.pc = mark.pc /\ mark'.status = mark.status
  BY <1>1, <1>2, <1>3, IdleValues, PutAutoMoves DEF IdlePack
<1>5. RowsType'
  BY <1>1, <1>4 DEF RowsType, learning, registry
<1>6. WorkType' /\ MarkAgrees'
  BY <1>1, <1>4, WorkKept DEF MarkAgrees
<1> QED
  BY <1>4, <1>5, <1>6

LEMMA AttemptStep ==
    ASSUME Inv, NEW p \in Packers, Attempt(p)
    PROVE  Inv'
<1> USE DEF Inv, TypeInv
<1> DEFINE next == [pack[p] EXCEPT !.pc = "attempted", !.foreign = FALSE]
<1>1. /\ PutAuto(p, pack[p].copy, next)
      /\ pack[p].pc = "observed" /\ truth' = truth /\ ~ Reluctant(p)
      /\ UNCHANGED <<signature, prompt, learning, work, registry, manuals>>
  BY DEF Attempt
<1>2. /\ pack[p].copy \in Rows /\ pack[p].manifest \in Manifests
      /\ next \in PackStates /\ next.pc = "attempted" /\ next.copy = pack[p].copy
      /\ next.manifest = pack[p].manifest
  BY <1>1 DEF PackType, PackStates
<1> HIDE DEF next
<1>3. \A c \in Counters : pack[p].copy[c] + Pending(c) <= truth[c]
  BY <1>1, HeldCounts
<1>4. pack[p].copy["observed"] >= MinPacks
  <2>1. pack[p].copy["observed"] \in Nat
    BY <1>2, CountIsNat, SomeCounters
  <2>2. ~ (pack[p].copy["observed"] < MinPacks)
    BY <1>1 DEF Reluctant
  <2> QED
    BY <2>1, <2>2, Bounds
<1>5. /\ auto' \in Rows /\ disturbed' \in BOOLEAN
      /\ PackType' /\ MarkType' /\ CountsSound'
      /\ mark'.pc = mark.pc /\ mark'.status = mark.status
  BY <1>1, <1>2, <1>3, <1>4, PutAutoMoves
<1>6. RowsType'
  BY <1>1, <1>5 DEF RowsType, learning, registry
<1>7. WorkType' /\ MarkAgrees'
  BY <1>1, <1>5, WorkKept DEF MarkAgrees
<1> QED
  BY <1>5, <1>6, <1>7

LEMMA SubmitStep ==
    ASSUME Inv, NEW p \in Packers, Submit(p)
    PROVE  Inv'
<1> USE DEF Inv, TypeInv
<1> DEFINE outcome == Outcome
           new == [pack[p] EXCEPT !.pc = "submitted", !.outcome = outcome]
           run == [IdleWork EXCEPT !.pc = "gate", !.manifest = pack[p].manifest,
                                   !.owner = [kind |-> "packer", packer |-> p]]
<1>1. outcome \in Outcomes
  BY DEF Outcome, Outcomes
<1>2. /\ pack[p].pc = "attempted" /\ pack' = [pack EXCEPT ![p] = new]
      /\ truth' = Plus(truth, outcome)
      /\ UNCHANGED <<signature, prompt, auto, learning, mark, now, disturbed, manuals>>
      /\ \/ /\ work' = [work EXCEPT ![Job] = run] /\ work[Job].pc = "idle"
            /\ lastStart' = [kind |-> "time", at |-> now]
         \/ UNCHANGED <<work, lastStart>>
  BY DEF Submit, PackType, Outcome
<1>3. /\ new \in PackStates /\ new.pc = "submitted" /\ new.outcome = outcome
      /\ new.copy = pack[p].copy /\ new.manifest = pack[p].manifest
      /\ pack[p].copy \in Rows /\ pack[p].manifest \in Manifests
  BY <1>1, <1>2 DEF PackType, PackStates
<1>4. run \in WorkStates /\ WorkSound(Job, run)
  <2>1. run \in WorkStates
    BY <1>3, IdleValues DEF WorkStates
  <2>2. /\ run.pc = "gate" /\ run.manifest = pack[p].manifest
        /\ run.owner = [kind |-> "packer", packer |-> p]
        /\ run.row = NoStats
    BY IdleValues DEF WorkStates, IdleWork
  <2>3. run.owner # None
    BY <2>2 DEF None
  <2> QED
    BY <1>3, <2>1, <2>2, <2>3, IdleValues DEF WorkSound
<1> HIDE DEF outcome, new, run
<1>5. WorkType'
  BY <1>2, <1>4, JobIsWorker, WorkPut, WorkKept
<1>6. pack'[p] = new /\ \A q \in Packers \ {p} : pack'[q] = pack[q]
  BY <1>2 DEF PackType
<1>7. PackType'
  BY <1>1, <1>2, <1>3, <1>6 DEF PackType
<1>8. truth' \in Rows /\ truth \in Rows
  BY <1>1, <1>2, PlusOne, SomeCounters DEF RowsType
<1>9. RowsType'
  <2>1. now \in Nat
    BY Bounds DEF RowsType
  <2> QED
    BY <1>2, <1>8, <2>1 DEF RowsType, learning
<1>10. MarkType' /\ MarkAgrees'
  <2>1. mark.pc # "idle" => work' = work
    BY <1>2 DEF MarkAgrees
  <2> QED
    BY <1>2, <2>1 DEF MarkType, MarkAgrees
<1>11. CountsSound'
  <2>1. ASSUME NEW c \in Counters
        PROVE  /\ truth[c] \in Nat /\ Pending(c)' = Pending(c) /\ Pending(c) \in {0, 1}
               /\ Own(p, c) = 0
               /\ \E n \in {0, 1} : truth'[c] = truth[c] + n /\ Own(p, c)' = n
    <3>1. truth[c] \in Nat
      BY <1>8, CountIsNat
    <3>2. Pending(c)' = Pending(c) /\ Pending(c) \in {0, 1} /\ Own(p, c) = 0
      BY <1>2 DEF Pending, Own
    <3>3. CASE c = outcome
      <4>1. truth'[c] = truth[c] + 1
        BY <1>2, <1>8, <3>3, PlusOne
      <4>2. Own(p, c)' = 1
        BY <1>3, <1>6, <3>3 DEF Own
      <4> QED
        BY <3>1, <3>2, <4>1, <4>2
    <3>4. CASE c # outcome
      <4>1. truth'[c] = truth[c]
        BY <1>2, <1>8, <3>4, PlusOther
      <4>2. Own(p, c)' = 0
        BY <1>3, <1>6, <3>4 DEF Own
      <4> QED
        BY <3>1, <3>2, <4>1, <4>2
    <3> QED
      BY <3>3, <3>4
  <2>2. ASSUME NEW c \in Counters
        PROVE  /\ auto'[c] + Pending(c)' <= truth'[c]
               /\ mark'.pc = "load" => mark'.copy[c] + Pending(c)' <= truth'[c]
    <3>1. PICK n \in {0, 1} : truth'[c] = truth[c] + n
      BY <2>1
    <3>2. auto[c] \in Nat /\ mark.copy[c] \in Nat
      BY CountIsNat DEF RowsType, MarkType, MarkStates
    <3>3. truth[c] \in Nat /\ Pending(c)' = Pending(c) /\ Pending(c) \in {0, 1}
      BY <2>1
    <3>4. auto' = auto /\ mark' = mark
      BY <1>2
    <3> QED
      BY <3>1, <3>2, <3>3, <3>4 DEF CountsSound
  <2>3. ASSUME NEW c \in Counters, NEW q \in Packers, pack'[q].pc # "idle"
        PROVE  pack'[q].copy[c] + Own(q, c)' + Pending(c)' <= truth'[c]
    <3>1. PICK n \in {0, 1} : truth'[c] = truth[c] + n /\ Own(p, c)' = n
      BY <2>1
    <3>2. pack'[q].copy = pack[q].copy /\ pack[q].pc # "idle" /\ pack[q].copy[c] \in Nat
      BY <1>2, <1>3, <1>6, <2>3, CountIsNat DEF PackType, PackStates
    <3>3. pack[q].copy[c] + Own(q, c) + Pending(c) <= truth[c]
      BY <3>2 DEF CountsSound
    <3>4. Own(q, c)' = IF q = p THEN n ELSE Own(q, c)
      BY <1>6, <3>1 DEF Own
    <3>5. Own(q, c) \in {0, 1} /\ (q = p => Own(q, c) = 0)
      BY <2>1 DEF Own
    <3>6. truth[c] \in Nat /\ Pending(c)' = Pending(c) /\ Pending(c) \in {0, 1}
      BY <2>1
    <3>7. pack[q].copy[c] + (IF q = p THEN n ELSE Own(q, c)) + Pending(c) <= truth[c] + n
      BY <3>2, <3>3, <3>5, <3>6
    <3> QED
      BY <3>1, <3>2, <3>4, <3>6, <3>7
  <2>4. \A q \in Packers :
            pack'[q].pc \in {"attempted", "submitted"} =>
                pack'[q].copy["observed"] >= MinPacks
    BY <1>2, <1>3, <1>6 DEF CountsSound
  <2>5. truth'["enqueued"] > 0 => truth'["observed"] >= MinPacks
    <3>1. /\ truth["observed"] \in Nat /\ pack[p].copy["observed"] \in Nat
          /\ Own(p, "observed") = 0 /\ Pending("observed") \in {0, 1}
      BY <1>3, <2>1, SomeCounters, CountIsNat
    <3>2. pack[p].copy["observed"] + Own(p, "observed") + Pending("observed")
              <= truth["observed"]
      BY <1>2, SomeCounters DEF CountsSound
    <3>3. pack[p].copy["observed"] >= MinPacks
      BY <1>2 DEF CountsSound
    <3>4. truth'["observed"] = truth["observed"]
      <4>1. outcome # "observed"
        BY <1>1 DEF Outcomes
      <4> QED
        BY <1>2, <1>8, <4>1, PlusOther, SomeCounters
    <3> QED
      BY <3>1, <3>2, <3>3, <3>4, Bounds
  <2> QED
    BY <2>2, <2>3, <2>4, <2>5 DEF CountsSound
<1> QED
  BY <1>5, <1>7, <1>9, <1>10, <1>11

LEMMA ConcludeStep ==
    ASSUME Inv, NEW p \in Packers, Conclude(p)
    PROVE  Inv'
<1> USE DEF Inv, TypeInv
<1> DEFINE outcome == pack[p].outcome
           row == Plus(pack[p].copy, outcome)
           opened == [work[Job] EXCEPT !.gate = TRUE]
<1>1. /\ pack[p].pc = "submitted" /\ PutAuto(p, row, IdlePack) /\ truth' = truth
      /\ UNCHANGED <<signature, prompt, learning, registry, manuals>>
      /\ work' = [work EXCEPT ![Job] = opened] \/ work' = work
  BY JobIsWorker DEF Conclude, Recorded, WorkType
<1>2. pack[p].copy \in Rows /\ outcome \in Outcomes /\ outcome \in Counters
  BY <1>1, SomeCounters DEF PackType, PackStates
<1>3. row \in Rows
  BY <1>2, PlusOne
<1>4. ASSUME NEW c \in Counters
      PROVE  row[c] + Pending(c) <= truth[c]
  <2>1. pack[p].copy[c] + Own(p, c) + Pending(c) <= truth[c]
    BY <1>1 DEF CountsSound
  <2>2. pack[p].copy[c] \in Nat
    BY <1>2, CountIsNat
  <2>3. row[c] = pack[p].copy[c] + Own(p, c)
    <3>1. CASE c = outcome
      BY <1>1, <1>2, <2>2, <3>1, PlusOne DEF Own
    <3>2. CASE c # outcome
      <4>1. Own(p, c) = 0 /\ row[c] = pack[p].copy[c]
        BY <1>1, <1>2, <3>2, PlusOne DEF Own
      <4> QED
        BY <2>2, <4>1
    <3> QED
      BY <3>1, <3>2
  <2> QED
    BY <2>1, <2>3
<1>5. opened \in WorkStates /\ WorkSound(Job, opened)
  <2>1. work[Job] \in WorkStates /\ WorkSound(Job, work[Job])
    BY JobIsWorker DEF WorkType
  <2> QED
    BY <2>1 DEF WorkStates, WorkSound
<1>9. opened.pc = work[Job].pc
  BY WorkerIs, JobIsWorker DEF WorkStates
<1> HIDE DEF row, opened
<1>6. /\ auto' \in Rows /\ disturbed' \in BOOLEAN
      /\ PackType' /\ MarkType' /\ CountsSound'
      /\ mark'.pc = mark.pc /\ mark'.status = mark.status
  BY <1>1, <1>3, <1>4, IdleValues, PutAutoMoves DEF IdlePack
<1>7. RowsType'
  BY <1>1, <1>6 DEF RowsType, learning, registry
<1>8. WorkType'
  BY <1>1, <1>5, JobIsWorker, WorkKept, WorkPut
<1>10. MarkAgrees'
  <2>1. work'[Job].pc = work[Job].pc
    BY <1>1, <1>9, JobIsWorker DEF WorkType
  <2> QED
    BY <1>6, <2>1 DEF MarkAgrees
<1> QED
  BY <1>6, <1>7, <1>8, <1>10

LEMMA PutRaisesStep ==
    ASSUME Inv, NEW p \in Packers, PutRaises(p)
    PROVE  Inv'
<1> USE DEF Inv, TypeInv
<1>1. /\ pack' = [pack EXCEPT ![p] = IdlePack] /\ disturbed' = TRUE
      /\ UNCHANGED <<signature, prompt, auto, learning, work, mark, registry, truth, manuals>>
  BY DEF PutRaises
<1>2. /\ IdlePack.pc = "idle" /\ pack'[p] = IdlePack
      /\ \A q \in Packers \ {p} : pack'[q] = pack[q]
  BY <1>1 DEF PackType, IdlePack
<1>3. RowsType' /\ MarkType' /\ WorkType' /\ MarkAgrees'
  BY <1>1, WorkKept DEF RowsType, MarkType, learning, registry, MarkAgrees
<1>4. PackType'
  BY <1>1, <1>2, IdleValues DEF PackType
<1>5. CountsSound'
  <2>1. \A c \in Counters, q \in Packers :
            pack'[q].pc # "idle" => pack'[q] = pack[q] /\ Own(q, c)' = Own(q, c)
    BY <1>2 DEF Own
  <2>2. \A c \in Counters : Pending(c)' = Pending(c)
    BY <1>1 DEF Pending
  <2> QED
    BY <1>1, <1>2, <2>1, <2>2 DEF CountsSound
<1> QED
  BY <1>3, <1>4, <1>5

-----------------------------------------------------------------------------
(* The run and the manual warm-ups.                                          *)

LEMMA PackKept ==
    ASSUME PackType, pack' = pack
    PROVE  PackType'
BY DEF PackType

\* A mark falls due: the end of a run has been counted, or there is nothing to count.
LEMMA MarkDue ==
    ASSUME Inv, NEW status \in Ends \cup {"running"}, Marking(status),
           UNCHANGED <<auto, pack>>,
           truth' = IF status \in Ends THEN Plus(truth, status) ELSE truth
    PROVE  truth' \in Rows /\ MarkType' /\ CountsSound' /\ mark'.status = status
<1> USE DEF Inv, TypeInv
<1>1. mark' = [NoMark EXCEPT !.pc = "due", !.status = status]
  BY DEF Marking
<1>2. mark' \in MarkStates /\ mark'.pc = "due" /\ mark'.status = status /\ status # ""
  BY <1>1, IdleValues DEF MarkStates, Ends
<1>3. MarkType'
  BY <1>2 DEF MarkType
<1>4. truth \in Rows /\ truth' \in Rows
  BY PlusOne, SomeCounters DEF RowsType
<1>5. ASSUME NEW c \in Counters
      PROVE  /\ truth[c] \in Nat /\ truth'[c] \in Nat
             /\ truth[c] - Pending(c) <= truth'[c] - Pending(c)'
             /\ Pending(c) \in {0, 1} /\ Pending(c)' \in {0, 1}
  <2>1. truth[c] \in Nat /\ truth'[c] \in Nat
    BY <1>4, CountIsNat
  <2>2. Pending(c) \in {0, 1} /\ Pending(c)' \in {0, 1}
    BY DEF Pending
  <2>3. CASE c = status
    <3>1. truth'[c] = truth[c] + 1
      BY <1>4, <2>3, PlusOne, SomeCounters
    <3> QED
      BY <2>1, <2>2, <3>1
  <2>4. CASE c # status
    <3>1. truth'[c] = truth[c]
      BY <1>4, <2>4, PlusOther
    <3>2. Pending(c)' = 0
      BY <1>2, <2>4 DEF Pending
    <3> QED
      BY <2>1, <2>2, <3>1, <3>2
  <2> QED
    BY <2>3, <2>4
<1>6. CountsSound'
  <2>1. ASSUME NEW c \in Counters
        PROVE  auto'[c] + Pending(c)' <= truth'[c]
    <3>1. auto[c] \in Nat /\ auto[c] + Pending(c) <= truth[c]
      BY CountIsNat DEF RowsType, CountsSound
    <3> QED
      BY <1>5, <3>1
  <2>2. ASSUME NEW c \in Counters, NEW q \in Packers, pack'[q].pc # "idle"
        PROVE  pack'[q].copy[c] + Own(q, c)' + Pending(c)' <= truth'[c]
    <3>1. /\ pack[q].copy[c] \in Nat /\ Own(q, c) \in {0, 1}
          /\ Own(q, c)' = Own(q, c) /\ pack' = pack
      BY CountIsNat DEF PackType, PackStates, Own
    <3>2. pack[q].copy[c] + Own(q, c) + Pending(c) <= truth[c]
      BY <2>2, <3>1 DEF CountsSound
    <3>3. pack[q].copy[c] + Own(q, c) + Pending(c)' <= truth'[c]
      BY <1>5, <3>1, <3>2
    <3> QED
      BY <3>1, <3>3
  <2>3. truth'["enqueued"] = truth["enqueued"] /\ truth'["observed"] = truth["observed"]
    BY <1>4, SomeCounters, PlusOther DEF Ends
  <2> QED
    BY <1>2, <2>1, <2>2, <2>3 DEF CountsSound
<1> QED
  BY <1>2, <1>3, <1>4, <1>6

\* A step of the run up to its mark.
LEMMA MarkingStep ==
    ASSUME Inv, NEW status \in Ends \cup {"running"}, Marking(status),
           truth' = (IF status \in Ends THEN Plus(truth, status) ELSE truth),
           NEW new \in WorkStates, WorkSound(Job, new),
           new.pc = (IF status = "running" THEN "running" ELSE "ending"),
           work' = [work EXCEPT ![Job] = new],
           prompt' \in Manifests \cup {None},
           UNCHANGED <<signature, auto, learning, pack, registry, disturbed, manuals>>
    PROVE  Inv'
<1> USE DEF Inv, TypeInv
<1>1. truth' \in Rows /\ MarkType' /\ CountsSound' /\ mark'.status = status
  BY MarkDue
<1>2. RowsType'
  BY <1>1 DEF RowsType, learning, registry
<1>3. PackType' /\ WorkType'
  BY PackKept, WorkPut, JobIsWorker
<1>4. MarkAgrees'
  BY <1>1, JobIsWorker DEF MarkAgrees, WorkType
<1> QED
  BY <1>1, <1>2, <1>3, <1>4

\* A step that changes what one worker is doing, and rows that count nothing.
LEMMA WorkStep ==
    ASSUME Inv, NEW w \in Workers, NEW new \in WorkStates, WorkSound(w, new),
           work' = [work EXCEPT ![w] = new],
           w = Job => work[Job].pc \notin {"running", "ending"},
           RowsType', UNCHANGED <<auto, truth, pack, mark>>
    PROVE  Inv'
<1>1. PackType' /\ WorkType' /\ MarkType'
  BY PackKept, WorkPut DEF Inv, TypeInv, MarkType
<1>2. CountsSound'
  BY CountsKept DEF Inv
<1>3. MarkAgrees'
  <2>1. w # Job => work'[Job] = work[Job]
    BY JobIsWorker DEF Inv, TypeInv, WorkType
  <2> QED
    BY <2>1 DEF MarkAgrees, Inv, TypeInv
<1> QED
  BY <1>1, <1>2, <1>3 DEF Inv, TypeInv

LEMMA StartStep ==
    ASSUME Inv, Start \/ GateTimesOut
    PROVE  Inv'
<1>1. PICK late \in BOOLEAN :
          work' = [work EXCEPT ![Job] = [work[Job] EXCEPT !.pc = "running", !.late = late]]
  <2>1. CASE Start
    <3>1. work[Job] = [work[Job] EXCEPT !.late = work[Job].late]
          /\ work[Job].late \in BOOLEAN
      BY WorkerIs, JobIsWorker DEF WorkStates
    <3>2. work' = [work EXCEPT ![Job] = [work[Job] EXCEPT !.pc = "running"]]
      BY <2>1 DEF Start
    <3>3. [work[Job] EXCEPT !.pc = "running"]
            = [work[Job] EXCEPT !.pc = "running", !.late = work[Job].late]
      BY WorkerIs, JobIsWorker DEF WorkStates
    <3> QED
      BY <3>1, <3>2, <3>3
  <2>2. CASE GateTimesOut
    BY <2>2 DEF GateTimesOut
  <2> QED
    BY <2>1, <2>2
<1> DEFINE new == [work[Job] EXCEPT !.pc = "running", !.late = late]
<1>2. /\ work[Job].pc = "gate" /\ Marking("running") /\ truth' = truth
      /\ UNCHANGED <<signature, prompt, auto, learning, pack, registry, disturbed, manuals>>
  BY DEF Start, GateTimesOut
<1>3. new \in WorkStates /\ WorkSound(Job, new) /\ new.pc = "running"
  <2>1. work[Job] \in WorkStates /\ WorkSound(Job, work[Job])
    BY WorkerIs, JobIsWorker
  <2>2. /\ new \in WorkStates /\ new.pc = "running"
        /\ new.owner = work[Job].owner /\ new.manifest = work[Job].manifest
    BY <2>1 DEF WorkStates
  <2> HIDE DEF new
  <2> QED
    BY <1>2, <2>1, <2>2 DEF WorkSound
<1>4. prompt' \in Manifests \cup {None}
  BY <1>2 DEF Inv, TypeInv, RowsType
<1>5. "running" \notin Ends
  BY DEF Ends
<1> HIDE DEF new
<1> QED
  BY <1>1, <1>2, <1>3, <1>4, <1>5, MarkingStep DEF new

LEMMA LoadMarkStep ==
    ASSUME Inv, LoadMark
    PROVE  Inv'
<1> USE DEF Inv, TypeInv
<1>1. /\ mark.pc = "due" /\ mark' = [mark EXCEPT !.pc = "load", !.copy = auto]
      /\ UNCHANGED <<signature, prompt, auto, learning, pack, work, registry, truth,
                     disturbed, manuals>>
  BY DEF LoadMark
<1>2. /\ mark' \in MarkStates /\ mark'.pc = "load" /\ mark'.status = mark.status
      /\ mark'.copy = auto
  BY <1>1 DEF MarkType, MarkStates, RowsType
<1>3. MarkType'
  BY <1>1, <1>2 DEF MarkType
<1>4. RowsType' /\ PackType' /\ WorkType' /\ MarkAgrees'
  BY <1>1, <1>2, PackKept, WorkKept DEF RowsType, learning, registry, MarkAgrees
<1>5. \A c \in Counters : Pending(c)' = Pending(c) /\ \A q \in Packers : Own(q, c)' = Own(q, c)
  BY <1>1, <1>2 DEF Pending, Own
<1>6. CountsSound'
  BY <1>1, <1>2, <1>5 DEF CountsSound
<1> QED
  BY <1>3, <1>4, <1>6

LEMMA PutMarkStep ==
    ASSUME Inv, PutMark
    PROVE  Inv'
<1> USE DEF Inv, TypeInv
<1> DEFINE new == IF mark.status = "running" THEN [work[Job] EXCEPT !.pc = "check"]
                  ELSE IdleWork
<1>1. /\ mark.pc = "load" /\ auto' = Marked(mark.copy, mark.status) /\ mark' = NoMark
      /\ disturbed' = (disturbed \/ mark.foreign)
      /\ pack' = [p \in Packers |-> IF Mine(p) /\ ~ work[Job].late THEN pack[p]
                                    ELSE WithForeign(pack)[p]]
      /\ work' = [work EXCEPT ![Job] = new]
      /\ UNCHANGED <<signature, prompt, learning, registry, truth, manuals>>
  BY JobIsWorker DEF PutMark, WorkType
<1>2. pack' \in [Packers -> PackStates]
      /\ \A q \in Packers :
            /\ pack'[q].pc = pack[q].pc /\ pack'[q].copy = pack[q].copy
            /\ pack'[q].manifest = pack[q].manifest
            /\ pack'[q].outcome = pack[q].outcome
  BY <1>1, ForeignPacks DEF PackType
<1>3. PackType'
  BY <1>2 DEF PackType
<1>4. MarkType' /\ mark'.pc = "idle"
  BY <1>1, IdleValues DEF MarkType, NoMark
<1>5. mark.copy \in Rows /\ auto' \in Rows
  BY <1>1, PlusOne DEF MarkType, MarkStates, Marked
<1>6. RowsType'
  BY <1>1, <1>5 DEF RowsType, learning, registry, MarkType, MarkStates
<1>8. CountsSound'
  <2>1. ASSUME NEW c \in Counters
        PROVE  auto'[c] <= truth[c] /\ Pending(c)' = 0 /\ Pending(c) \in {0, 1}
               /\ truth[c] \in Nat
    <3>1. /\ Pending(c)' = 0 /\ Pending(c) \in {0, 1} /\ truth[c] \in Nat
          /\ mark.copy[c] \in Nat
      BY <1>4, <1>5, CountIsNat DEF Pending, RowsType
    <3>2. mark.copy[c] + Pending(c) <= truth[c]
      BY <1>1 DEF CountsSound
    <3>3. auto'[c] = mark.copy[c] + Pending(c)
      <4>1. CASE c = mark.status
        BY <1>1, <1>5, <4>1, PlusOne DEF Marked, Pending
      <4>2. CASE c # mark.status
        <5>1. Pending(c) = 0 /\ auto'[c] = mark.copy[c]
          BY <1>1, <1>5, <4>2, PlusOther DEF Marked, Pending
        <5> QED
          BY <3>1, <5>1
      <4> QED
        BY <4>1, <4>2
    <3> QED
      BY <3>1, <3>2, <3>3
  <2>2. ASSUME NEW c \in Counters
        PROVE  auto'[c] + Pending(c)' <= truth'[c]
    <3>1. auto'[c] \in Nat
      BY <1>5, CountIsNat
    <3> QED
      BY <1>1, <2>1, <3>1
  <2>3. ASSUME NEW c \in Counters, NEW q \in Packers, pack'[q].pc # "idle"
        PROVE  pack'[q].copy[c] + Own(q, c)' + Pending(c)' <= truth'[c]
    <3>1. /\ pack[q].copy[c] \in Nat /\ Own(q, c) \in {0, 1} /\ Own(q, c)' = Own(q, c)
          /\ pack'[q].copy[c] = pack[q].copy[c]
      BY <1>2, CountIsNat DEF PackType, PackStates, Own
    <3>2. pack[q].copy[c] + Own(q, c) + Pending(c) <= truth[c]
      BY <1>2, <2>3 DEF CountsSound
    <3>3. pack[q].copy[c] + Own(q, c) + 0 <= truth[c]
      BY <2>1, <3>1, <3>2
    <3> QED
      BY <1>1, <2>1, <3>1, <3>3
  <2>4. \A q \in Packers :
            pack'[q].pc \in {"attempted", "submitted"} =>
                pack'[q].copy["observed"] >= MinPacks
    BY <1>2 DEF CountsSound
  <2> QED
    BY <1>1, <1>4, <2>2, <2>3, <2>4 DEF CountsSound
<1>9. WorkType'
  <2>1. new \in WorkStates /\ WorkSound(Job, new)
    <3>1. CASE mark.status = "running"
      <4>1. work[Job].pc = "running"
        BY <1>1, <3>1 DEF MarkAgrees
      <4>2. work[Job] \in WorkStates /\ WorkSound(Job, work[Job])
        BY WorkerIs, JobIsWorker
      <4>3. /\ new \in WorkStates /\ new.pc = "check"
            /\ new.owner = work[Job].owner /\ new.manifest = work[Job].manifest
        BY <3>1, <4>2 DEF WorkStates
      <4> HIDE DEF new
      <4> QED
        BY <4>1, <4>2, <4>3 DEF WorkSound
    <3>2. CASE mark.status # "running"
      BY <3>2, IdleValues, IdleWorkSound, JobIsWorker
    <3> QED
      BY <3>1, <3>2
  <2> QED
    BY <1>1, <2>1, WorkPut, JobIsWorker
<1>10. MarkAgrees'
  BY <1>4 DEF MarkAgrees
<1> QED
  BY <1>3, <1>4, <1>6, <1>8, <1>9, <1>10

LEMMA CheckStep ==
    ASSUME Inv, Check
    PROVE  Inv'
<1>1. /\ work[Job].pc = "check" /\ work[Job] \in WorkStates /\ WorkSound(Job, work[Job])
      /\ UNCHANGED <<signature, prompt, auto, learning, pack, registry, disturbed, manuals>>
  BY WorkerIs, JobIsWorker DEF Check
<1>2. work[Job].manifest \in Manifests
  BY <1>1 DEF WorkSound
<1>3. CASE /\ work' = [work EXCEPT ![Job].pc = "learn", ![Job].todo = work[Job].manifest.terms]
           /\ UNCHANGED <<mark, truth>>
  <2> DEFINE new == [work[Job] EXCEPT !.pc = "learn", !.todo = work[Job].manifest.terms]
  <2>1. new \in WorkStates /\ WorkSound(Job, new)
    BY <1>1, <1>2 DEF WorkStates, WorkSound, Manifests
  <2>2. work' = [work EXCEPT ![Job] = new]
    BY <1>3, JobIsWorker DEF Inv, TypeInv, WorkType
  <2>3. RowsType'
    BY <1>1, <1>3 DEF Inv, TypeInv, RowsType, learning, registry
  <2> HIDE DEF new
  <2> QED
    BY <1>1, <1>3, <2>1, <2>2, <2>3, JobIsWorker, WorkStep
<1>4. CASE work' = [work EXCEPT ![Job].pc = "ending"] /\ End("stale")
  <2> DEFINE new == [work[Job] EXCEPT !.pc = "ending"]
  <2>1. new \in WorkStates /\ WorkSound(Job, new) /\ new.pc = "ending"
    BY <1>1 DEF WorkStates, WorkSound
  <2>2. work' = [work EXCEPT ![Job] = new]
    BY <1>4
  <2>3. prompt' \in Manifests \cup {None}
    BY <1>1 DEF Inv, TypeInv, RowsType
  <2>4. Marking("stale") /\ truth' = IF "stale" \in Ends THEN Plus(truth, "stale") ELSE truth
    BY <1>4 DEF End, Ends
  <2>5. "stale" \in Ends \cup {"running"}
        /\ new.pc = IF "stale" = "running" THEN "running" ELSE "ending"
    BY <2>1 DEF Ends
  <2> HIDE DEF new
  <2> QED
    BY <1>1, <2>1, <2>2, <2>3, <2>4, <2>5, MarkingStep
<1> QED
  BY <1>3, <1>4 DEF Check

LEMMA BeginManualStep ==
    ASSUME Inv, NEW w \in Warmers, BeginManual(w)
    PROVE  Inv'
<1> DEFINE known0 == [IdleWork EXCEPT !.pc = "learn", !.manifest = prompt,
                                      !.todo = prompt.terms]
           blank == [IdleWork EXCEPT !.pc = "learn"]
<1>1. w \in Workers /\ w # Job
  BY WarmupAssumption DEF Workers
<1>2. /\ manuals < MaxManual /\ manuals' = manuals + 1
      /\ \/ prompt # None /\ work' = [work EXCEPT ![w] = known0]
         \/ work' = [work EXCEPT ![w] = blank]
      /\ UNCHANGED <<signature, prompt, auto, learning, pack, mark, registry, truth,
                     disturbed>>
  BY DEF BeginManual
<1>3. RowsType'
  <2>1. manuals' \in 0..MaxManual
    BY <1>2, Bounds DEF Inv, TypeInv, RowsType
  <2> QED
    BY <1>2, <2>1 DEF Inv, TypeInv, RowsType, learning, registry
<1>4. prompt \in Manifests \cup {None}
  BY DEF Inv, TypeInv, RowsType
<1>5. prompt # None => known0 \in WorkStates /\ WorkSound(w, known0)
  <2> SUFFICES ASSUME prompt \in Manifests
               PROVE  known0 \in WorkStates /\ WorkSound(w, known0)
    BY <1>4
  <2>1. prompt.terms \in SUBSET Terms
    BY DEF Manifests
  <2>2. known0 \in WorkStates /\ known0.pc = "learn" /\ known0.manifest = prompt
        /\ known0.row = NoStats
    BY <2>1, IdleValues DEF WorkStates, IdleWork
  <2> QED
    BY <1>1, <2>2, IdleValues DEF WorkSound
<1>6. blank \in WorkStates /\ WorkSound(w, blank)
  BY <1>1, IdleValues DEF WorkStates, WorkSound, IdleWork
<1> HIDE DEF known0, blank
<1> QED
  BY <1>1, <1>2, <1>3, <1>5, <1>6, WorkStep

\* The rows of a step that changes nothing but what a worker is doing.
LEMMA RowsAlone ==
    ASSUME Inv,
           UNCHANGED <<signature, prompt, auto, learning, pack, mark, registry, truth,
                       disturbed, manuals>>
    PROVE  RowsType' /\ UNCHANGED <<auto, truth, pack, mark>>
BY DEF Inv, TypeInv, RowsType, learning, registry

LEMMA LoadStep ==
    ASSUME Inv, NEW w \in Workers, NEW t \in Terms,
           LoadLearned(w, t) \/ LoadSearched(w, t)
    PROVE  Inv'
<1>1. /\ work[w] \in WorkStates /\ WorkSound(w, work[w])
      /\ work[w].pc \in {"learn", "search"} /\ t \in work[w].todo
      /\ UNCHANGED <<signature, prompt, auto, learning, pack, mark, registry, truth,
                     disturbed, manuals>>
  BY WorkerIs DEF LoadLearned, LoadSearched, ToSearch
<1>2. stats[t] \in StatRows
  BY DEF Inv, TypeInv, RowsType
<1>3. PICK pc \in {"learned", "searched"}, result \in {"none", "found", "selected"} :
          /\ pc = "learned" => work[w].pc = "learn"
          /\ work' = [work EXCEPT ![w] = [work[w] EXCEPT
                         !.pc = pc, !.term = t, !.result = result,
                         !.row = stats[t]]]
  <2>1. CASE LoadLearned(w, t)
    <3>1. work[w].manifest.result \in {"none", "found", "selected"}
      BY <1>1, <2>1, WarmupAssumption DEF LoadLearned, WorkSound, Manifests
    <3> QED
      BY <2>1, <3>1 DEF LoadLearned
  <2>2. CASE LoadSearched(w, t)
    <3> PICK result \in {"none", "found"} :
            work' = [work EXCEPT ![w].pc = "searched", ![w].term = t,
                                 ![w].result = result,
                                 ![w].row = stats[t]]
      BY <2>2, Zenon DEF LoadSearched
    <3>1. work \in [Workers -> WorkStates]
      BY DEF Inv, TypeInv, WorkType
    <3> QED
      BY <3>1
  <2> QED
    BY <2>1, <2>2
<1> DEFINE new == [work[w] EXCEPT !.pc = pc, !.term = t, !.result = result,
                                  !.row = stats[t]]
<1>4. /\ new \in WorkStates /\ new.pc = pc /\ new.term = t /\ new.result = result
      /\ new.row = stats[t]
      /\ new.owner = work[w].owner /\ new.manifest = work[w].manifest
  BY <1>1, <1>2 DEF WorkStates
<1> HIDE DEF new
<1>5. WorkSound(w, new)
  BY <1>1, <1>2, <1>3, <1>4 DEF WorkSound
<1> QED
  BY <1>1, <1>3, <1>4, <1>5, RowsAlone, WorkStep DEF new

LEMMA FailStep ==
    ASSUME Inv, NEW w \in Warmers,
           LearningFails(w) \/ \E t \in Terms : SearchFails(w, t)
    PROVE  Inv'
<1>1. w \in Workers /\ w # Job
  BY WarmupAssumption DEF Workers
<1>2. /\ work[w] \in WorkStates /\ WorkSound(w, work[w])
      /\ work[w].pc \in {"learn", "search"}
      /\ UNCHANGED <<signature, prompt, auto, learning, pack, mark, registry, truth,
                     disturbed, manuals>>
  BY <1>1, WorkerIs DEF LearningFails, SearchFails, ToSearch
<1>3. PICK todo \in SUBSET Terms :
          /\ work' = [work EXCEPT ![w] = [work[w] EXCEPT !.todo = todo]]
          /\ work[w].pc = "learn" => todo = {}
  <2>1. CASE LearningFails(w)
    BY <2>1 DEF LearningFails
  <2>2. CASE \E t \in Terms : SearchFails(w, t)
    <3> PICK t \in Terms : SearchFails(w, t)
      BY <2>2
    <3>1. work[w].todo \ {t} \in SUBSET Terms
      BY <1>2 DEF WorkStates
    <3>2. work' = [work EXCEPT ![w] = [work[w] EXCEPT !.todo = work[w].todo \ {t}]]
          /\ work[w].pc = "search"
      BY DEF SearchFails, ToSearch
    <3> QED
      BY <3>1, <3>2
  <2> QED
    BY <2>1, <2>2
<1> DEFINE new == [work[w] EXCEPT !.todo = todo]
<1>4. new \in WorkStates /\ WorkSound(w, new)
  BY <1>1, <1>2, <1>3 DEF WorkStates, WorkSound
<1> HIDE DEF new
<1> QED
  BY <1>1, <1>2, <1>3, <1>4, RowsAlone, WorkStep DEF new

\* A row that is told something, and the history of it, keep their types.
LEMMA ObservedTypes ==
    ASSUME NEW row \in StatRows, NEW past \in Pasts, NEW overtaken \in BOOLEAN,
           NEW result \in {"none", "found", "selected"}, NEW asked \in BOOLEAN
    PROVE  /\ Observed(row, result, asked) \in StatRows
           /\ Remembered(past, result, asked, overtaken) \in Pasts
<1>1. /\ row.zero \in Nat /\ row.unselected \in Nat
      /\ row.selected \in BOOLEAN /\ row.results \in BOOLEAN
      /\ past.zero \in Nat /\ past.unselected \in Nat
      /\ past.zeros \in Nat /\ past.unselecteds \in Nat
      /\ past.lost \in SUBSET {"zero", "unselected"}
  BY DEF StatRows, Pasts
<1>2. ZeroAfter(row.zero, result) \in Nat
  BY <1>1 DEF ZeroAfter
<1>3. Observed(row, result, asked) \in StatRows
  BY <1>1, <1>2 DEF Observed, StatRows
<1>4. Remembered(past, result, asked, overtaken) \in Pasts
  <2>1. /\ (IF result = "none" THEN past.zero + 1 ELSE 0) \in Nat
        /\ past.zeros + (IF result = "none" THEN 1 ELSE 0) \in Nat
    BY <1>1
  <2>2. /\ (IF Chosen(result, asked) THEN 0
            ELSE past.unselected + (IF Passed(result, asked) THEN 1 ELSE 0)) \in Nat
        /\ past.unselecteds + (IF Passed(result, asked) THEN 1 ELSE 0) \in Nat
    BY <1>1
  <2>3. (past.lost \cup (IF overtaken THEN {"zero", "unselected"} ELSE {}))
            \ ((IF result = "none" THEN {} ELSE {"zero"})
                \cup (IF Chosen(result, asked) THEN {"unselected"} ELSE {}))
          \in SUBSET {"zero", "unselected"}
    BY <1>1
  <2> HIDE DEF Chosen, Passed
  <2> QED
    BY <2>1, <2>2, <2>3 DEF Remembered, Pasts
<1> QED
  BY <1>3, <1>4

\* The worker with a term behind it, told or not.
LEMMA ToldIs ==
    ASSUME WorkType, NEW w \in Workers, work[w].pc \in {"learned", "searched"}
    PROVE  /\ Told(w) \in WorkStates /\ Told(w).pc \in {"learn", "search"}
           /\ Told(w).owner = work[w].owner /\ Told(w).late = work[w].late
           /\ Told(w).manifest = work[w].manifest
           /\ Told(w).pc = "learn" => work[w].pc = "learned"
<1> DEFINE pc == IF work[w].pc = "learned" THEN "learn" ELSE "search"
           todo == work[w].todo \ {work[w].term}
<1>1. work[w] \in WorkStates
  BY DEF WorkType
<1>2. Told(w) = [work[w] EXCEPT !.pc = pc, !.todo = todo, !.term = None,
                                !.result = "", !.row = NoStats, !.overtaken = FALSE]
  BY <1>1 DEF Told, WorkStates
<1>3. /\ pc \in {"learn", "search"}
      /\ pc = "learn" => work[w].pc = "learned"
      /\ todo \in SUBSET Terms /\ NoStats \in StatRows
  BY <1>1, IdleValues DEF WorkStates
<1> HIDE DEF pc, todo
<1>4. /\ Told(w).pc = pc /\ Told(w).owner = work[w].owner
      /\ Told(w).late = work[w].late /\ Told(w).manifest = work[w].manifest
  BY <1>1, <1>2 DEF WorkStates
<1>5. Told(w) \in WorkStates
  BY <1>1, <1>2, <1>3 DEF WorkStates
<1> QED
  BY <1>3, <1>4, <1>5

\* What a put of a term's row does to the workers: it is behind this one, and it
\* overtakes the others that have got that row.
LEMMA PutTermWork ==
    ASSUME WorkType, NEW w \in Workers, PutTerm(w)
    PROVE  /\ work' \in [Workers -> WorkStates]
           /\ work'[w] = Told(w) /\ Told(w).pc \in {"learn", "search"}
           /\ Told(w).owner = work[w].owner /\ Told(w).late = work[w].late
           /\ Told(w).manifest = work[w].manifest
           /\ Told(w).pc = "learn" => work[w].pc = "learned"
           /\ \A x \in Workers \ {w} :
                 work'[x] = IF work[x].term = work[w].term
                            THEN [work[x] EXCEPT !.overtaken = TRUE] ELSE work[x]
<1>1. /\ work[w].pc \in {"learned", "searched"}
      /\ work' = [x \in Workers |->
             IF x = w THEN Told(w)
             ELSE IF work[x].term = work[w].term THEN [work[x] EXCEPT !.overtaken = TRUE]
             ELSE work[x]]
  BY DEF PutTerm
<1>2. ASSUME NEW x \in Workers
      PROVE  [work[x] EXCEPT !.overtaken = TRUE] \in WorkStates /\ work[x] \in WorkStates
  BY DEF WorkType, WorkStates
<1> QED
  BY <1>1, <1>2, ToldIs

LEMMA PutTermStep ==
    ASSUME Inv, NEW w \in Workers, PutTerm(w)
    PROVE  Inv'
<1> USE DEF Inv, TypeInv
<1> DEFINE asked == work[w].pc = "learned"
           t == work[w].term
           row == Observed(work[w].row, work[w].result, asked)
           past == Remembered(known[t], work[w].result, asked, work[w].overtaken)
<1>1. /\ work[w] \in WorkStates /\ WorkSound(w, work[w])
      /\ work[w].pc \in {"learned", "searched"}
      /\ t \in Terms
  BY WorkerIs DEF PutTerm, WorkSound
<1>2. row \in StatRows /\ past \in Pasts
  <2>1. /\ work[w].row \in StatRows /\ known[t] \in Pasts
        /\ work[w].overtaken \in BOOLEAN /\ asked \in BOOLEAN
        /\ work[w].result \in {"none", "found", "selected"}
    BY <1>1 DEF WorkStates, WorkSound, RowsType
  <2> QED
    BY <2>1, ObservedTypes
<1>3. /\ stats' = [stats EXCEPT ![t] = row] /\ known' = [known EXCEPT ![t] = past]
      /\ UNCHANGED <<signature, prompt, auto, seeds, pack, mark, registry, truth,
                     disturbed, manuals>>
  BY DEF PutTerm
<1> HIDE DEF row, past, t
<1>4. RowsType'
  BY <1>1, <1>2, <1>3 DEF RowsType, registry
<1>5. WorkType'
  <2>1. WorkSound(w, work'[w])
    BY <1>1, PutTermWork DEF WorkSound
  <2>2. ASSUME NEW x \in Workers \ {w}
        PROVE  WorkSound(x, work'[x])
    <3>1. work[x] \in WorkStates /\ WorkSound(x, work[x])
      BY WorkerIs
    <3>2. WorkSound(x, [work[x] EXCEPT !.overtaken = TRUE])
      BY <3>1 DEF WorkSound, WorkStates
    <3> QED
      BY <3>1, <3>2, PutTermWork
  <2> QED
    BY <2>1, <2>2, PutTermWork DEF WorkType, WorkSound
<1>6. MarkAgrees'
  <2>1. w = Job => mark.pc = "idle"
    BY <1>1 DEF MarkAgrees
  <2>2. w # Job => work'[Job].pc = work[Job].pc
    <3>1. [work[Job] EXCEPT !.overtaken = TRUE].pc = work[Job].pc
      BY WorkerIs, JobIsWorker DEF WorkStates
    <3> QED
      BY <3>1, PutTermWork, JobIsWorker
  <2> QED
    BY <1>3, <2>1, <2>2 DEF MarkAgrees
<1>7. PackType' /\ MarkType' /\ CountsSound'
  BY <1>3, PackKept, CountsKept DEF MarkType
<1> QED
  BY <1>4, <1>5, <1>6, <1>7

\* A put that fails leaves the row, and the worker as after a put.
LEMMA PutFailsWork ==
    ASSUME WorkType, NEW w \in Workers, PutFails(w)
    PROVE  \E new \in WorkStates :
               /\ work' = [work EXCEPT ![w] = new] /\ new.pc \in {"learn", "search"}
               /\ new.owner = work[w].owner /\ new.late = work[w].late
               /\ new.manifest = work[w].manifest
               /\ new.pc = "learn" => work[w].pc = "learned"
<1> DEFINE blank == [Told(w) EXCEPT !.todo = {}]
<1>1. work[w].pc \in {"learned", "searched"}
  BY DEF PutFails
<1>2. work' = [work EXCEPT ![w] = blank] \/ work' = [work EXCEPT ![w] = Told(w)]
  BY DEF PutFails
<1>3. /\ blank \in WorkStates /\ blank.pc = Told(w).pc /\ blank.owner = Told(w).owner
      /\ blank.late = Told(w).late /\ blank.manifest = Told(w).manifest
  <2> DEFINE told == Told(w)
  <2>1. told \in WorkStates
    BY <1>1, ToldIs
  <2> HIDE DEF told
  <2>2. LET new == [told EXCEPT !.todo = {}] IN
            /\ new \in WorkStates /\ new.pc = told.pc /\ new.owner = told.owner
            /\ new.late = told.late /\ new.manifest = told.manifest
    BY <2>1 DEF WorkStates
  <2> QED
    BY <2>2 DEF told
<1> HIDE DEF blank
<1>4. CASE work' = [work EXCEPT ![w] = blank]
  BY <1>1, <1>3, <1>4, ToldIs
<1>5. CASE work' = [work EXCEPT ![w] = Told(w)]
  BY <1>1, <1>5, ToldIs
<1> QED
  BY <1>2, <1>4, <1>5

LEMMA PutFailsStep ==
    ASSUME Inv, NEW w \in Warmers, PutFails(w)
    PROVE  Inv'
<1>1. w \in Workers /\ w # Job
  BY WarmupAssumption DEF Workers
<1>2. /\ WorkType /\ WorkSound(w, work[w])
      /\ UNCHANGED <<signature, prompt, auto, learning, pack, mark, registry, truth,
                     disturbed, manuals>>
  <2>1. WorkType /\ WorkSound(w, work[w])
    BY <1>1, WorkerIs DEF Inv, TypeInv
  <2> QED
    BY <2>1 DEF PutFails
<1>3. PICK new \in WorkStates :
          /\ work' = [work EXCEPT ![w] = new] /\ new.pc \in {"learn", "search"}
          /\ new.manifest = work[w].manifest
          /\ new.pc = "learn" => work[w].pc = "learned"
  BY <1>1, <1>2, PutFailsWork
<1>4. WorkSound(w, new)
  BY <1>1, <1>2, <1>3 DEF WorkSound
<1> QED
  BY <1>1, <1>2, <1>3, <1>4, RowsAlone, WorkStep

LEMMA PlanStep ==
    ASSUME Inv, NEW w \in Workers,
           (PlanRun /\ w = Job) \/ (PlanManual(w) /\ w # Job)
    PROVE  Inv'
<1>1. /\ work[w] \in WorkStates /\ WorkSound(w, work[w]) /\ work[w].pc = "learn"
      /\ seeds' = Seeds
      /\ UNCHANGED <<signature, prompt, auto, stats, known, pack, mark, registry, truth,
                     disturbed, manuals>>
  BY WorkerIs DEF PlanRun, PlanManual
<1>2. Seeds \in SUBSET Terms /\ Negatives \in SUBSET Terms /\ Defaults \in SUBSET Terms
  BY WarmupAssumption DEF Seeds, Negatives
<1>3. RowsType'
  BY <1>1, <1>2 DEF Inv, TypeInv, RowsType, registry
<1>4. PICK manifest \in Manifests \cup {None}, todo \in SUBSET Terms :
          /\ w = Job => manifest \in Manifests
          /\ work' = [work EXCEPT ![w] = [work[w] EXCEPT
                         !.pc = "search", !.avoid = Negatives,
                         !.manifest = manifest, !.todo = todo]]
  <2>1. CASE PlanRun /\ w = Job
    <3> DEFINE manifest == [work[Job].manifest EXCEPT !.learned = @ \cup Seeds]
    <3>1. work[Job].manifest \in Manifests
      BY <1>1, <2>1 DEF WorkSound
    <3>2. manifest \in Manifests
      BY <1>2, <3>1 DEF Manifests
    <3>3. manifest.terms \cup manifest.learned \in SUBSET Terms
      BY <3>2 DEF Manifests
    <3>4. work' = [work EXCEPT ![Job] = [work[Job] EXCEPT
                      !.pc = "search", !.avoid = Negatives, !.manifest = manifest,
                      !.todo = manifest.terms \cup manifest.learned]]
      BY <2>1, JobIsWorker DEF PlanRun, Inv, TypeInv, WorkType
    <3> HIDE DEF manifest
    <3> QED
      BY <2>1, <3>2, <3>3, <3>4
  <2>2. CASE PlanManual(w) /\ w # Job
    <3>1. work[w].manifest \in Manifests \cup {None}
          /\ Seeds \cup Defaults \in SUBSET Terms
      BY <1>1, <1>2 DEF WorkStates
    <3>2. [work[w] EXCEPT !.pc = "search", !.avoid = Negatives,
                          !.todo = Seeds \cup Defaults]
            = [work[w] EXCEPT !.pc = "search", !.avoid = Negatives,
                              !.manifest = work[w].manifest,
                              !.todo = Seeds \cup Defaults]
      BY <1>1 DEF WorkStates
    <3>3. work' = [work EXCEPT ![w] = [work[w] EXCEPT
                      !.pc = "search", !.avoid = Negatives, !.todo = Seeds \cup Defaults]]
      BY <2>2 DEF PlanManual, Inv, TypeInv, WorkType
    <3> QED
      BY <2>2, <3>1, <3>2, <3>3
  <2> QED
    BY <2>1, <2>2
<1> DEFINE new == [work[w] EXCEPT !.pc = "search", !.avoid = Negatives,
                                  !.manifest = manifest, !.todo = todo]
<1>5. /\ new \in WorkStates /\ new.pc = "search" /\ new.manifest = manifest
      /\ new.owner = work[w].owner /\ new.row = work[w].row
  BY <1>1, <1>2, <1>4 DEF WorkStates
<1> HIDE DEF new
<1>6. WorkSound(w, new)
  BY <1>1, <1>4, <1>5 DEF WorkSound
<1> QED
  BY <1>1, <1>3, <1>4, <1>5, <1>6, WorkStep DEF new

LEMMA FinishManualStep ==
    ASSUME Inv, NEW w \in Warmers, FinishManual(w)
    PROVE  Inv'
<1>1. w \in Workers /\ w # Job
  BY WarmupAssumption DEF Workers
<1>2. /\ seeds' = Seeds /\ work' = [work EXCEPT ![w] = IdleWork]
      /\ UNCHANGED <<signature, prompt, auto, stats, known, pack, mark, registry, truth,
                     disturbed, manuals>>
  BY DEF FinishManual
<1>3. RowsType'
  BY <1>2 DEF Inv, TypeInv, RowsType, registry, Seeds
<1> QED
  BY <1>1, <1>2, <1>3, IdleValues, IdleWorkSound, WorkStep

\* A run that ends, well or not.
LEMMA EndStep ==
    ASSUME Inv, FinishRun \/ RunRaises
    PROVE  Inv'
<1>1. /\ work[Job].pc \in {"learn", "learned", "search", "searched"}
      /\ work[Job] \in WorkStates /\ WorkSound(Job, work[Job])
      /\ UNCHANGED <<signature, auto, learning, pack, registry, disturbed, manuals>>
  BY WorkerIs, JobIsWorker DEF FinishRun, RunRaises, Searched
<1>2. work[Job].manifest \in Manifests /\ work[Job].owner # None
  BY <1>1 DEF WorkSound
<1>3. PICK new \in WorkStates, status \in Ends :
          /\ WorkSound(Job, new) /\ new.pc = "ending"
          /\ work' = [work EXCEPT ![Job] = new] /\ End(status)
  <2>1. CASE FinishRun
    <3> DEFINE new == [work[Job] EXCEPT !.pc = "ending"]
    <3>1. new \in WorkStates /\ WorkSound(Job, new) /\ new.pc = "ending"
      BY <1>1 DEF WorkStates, WorkSound
    <3>2. work' = [work EXCEPT ![Job] = new] /\ End("completed") /\ "completed" \in Ends
      BY <2>1 DEF FinishRun, Ends
    <3> HIDE DEF new
    <3> QED
      BY <3>1, <3>2
  <2>2. CASE RunRaises
    <3> DEFINE new == [IdleWork EXCEPT
                    !.pc = "ending", !.late = work[Job].late, !.owner = work[Job].owner]
    <3>1. /\ new \in WorkStates /\ new.pc = "ending" /\ new.owner = work[Job].owner
          /\ new.row = NoStats
      BY <1>1, IdleValues DEF WorkStates, IdleWork
    <3>2. WorkSound(Job, new)
      BY <1>2, <3>1, IdleValues DEF WorkSound
    <3>3. work' = [work EXCEPT ![Job] = new] /\ End("failed") /\ "failed" \in Ends
      BY <2>2 DEF RunRaises, Ends
    <3> HIDE DEF new
    <3> QED
      BY <3>1, <3>2, <3>3
  <2> QED
    BY <2>1, <2>2
<1>4. prompt' \in Manifests \cup {None}
  BY <1>2 DEF FinishRun, RunRaises, Inv, TypeInv, RowsType
<1>5. /\ Marking(status) /\ status # "running"
      /\ truth' = IF status \in Ends THEN Plus(truth, status) ELSE truth
  BY <1>3 DEF End, Ends
<1> QED
  BY <1>1, <1>3, <1>4, <1>5, MarkingStep

-----------------------------------------------------------------------------
(* The surroundings.                                                         *)

\* An edit, the clock, or nothing at all.
LEMMA OutsideStep ==
    ASSUME Inv, Edit \/ Tick \/ UNCHANGED vars
    PROVE  Inv'
<1> USE DEF Inv, TypeInv
<1>1. /\ signature' \in 0..MaxEdits /\ now' \in 0..MaxTime
      /\ UNCHANGED <<prompt, auto, learning, pack, work, mark, lastStart, truth, disturbed,
                     manuals>>
  BY Bounds DEF Edit, Tick, vars, registry, RowsType
<1>2. RowsType' /\ MarkType' /\ MarkAgrees'
  BY <1>1 DEF RowsType, MarkType, MarkAgrees, learning
<1>3. PackType' /\ WorkType' /\ CountsSound'
  BY <1>1, PackKept, WorkKept, CountsKept
<1> QED
  BY <1>2, <1>3

LEMMA CrashStep ==
    ASSUME Inv, Crash
    PROVE  Inv'
<1> USE DEF Inv, TypeInv
<1>1. /\ pack' = [p \in Packers |-> IdlePack] /\ work' = [w \in Workers |-> IdleWork]
      /\ mark' = NoMark /\ lastStart' = None /\ disturbed' = TRUE
      /\ UNCHANGED <<signature, prompt, auto, learning, now, truth, manuals>>
  BY DEF Crash
<1>2. mark'.pc = "idle" /\ \A p \in Packers : pack'[p].pc = "idle"
  BY <1>1 DEF NoMark, IdlePack
<1>3. RowsType'
  BY <1>1 DEF RowsType, learning
<1>4. PackType' /\ MarkType' /\ MarkAgrees'
  BY <1>1, <1>2, IdleValues DEF PackType, MarkType, MarkAgrees
<1>5. WorkType'
  <2>1. work' \in [Workers -> WorkStates] /\ \A w \in Workers : work'[w] = IdleWork
    BY <1>1, IdleValues
  <2>2. \A w \in Workers : WorkSound(w, IdleWork)
    BY IdleWorkSound
  <2> QED
    BY <2>1, <2>2 DEF WorkType, WorkSound
<1>6. CountsSound'
  <2> SUFFICES ASSUME NEW c \in Counters
               PROVE  auto[c] + Pending(c)' <= truth[c]
    BY <1>1, <1>2 DEF CountsSound
  <2>1. auto[c] \in Nat /\ truth[c] \in Nat /\ auto[c] + Pending(c) <= truth[c]
    BY CountIsNat DEF RowsType, CountsSound
  <2>2. Pending(c)' = 0 /\ Pending(c) \in {0, 1}
    BY <1>2 DEF Pending
  <2> QED
    BY <2>1, <2>2
<1> QED
  BY <1>3, <1>4, <1>5, <1>6

LEMMA LearnNext ==
    ASSUME Inv, [Next]_vars
    PROVE  Inv'
<1>1. ASSUME NEW p \in Packers, Pack(p)
      PROVE  Inv'
  BY <1>1, ObserveStep, DeclineStep, AttemptStep, SubmitStep, ConcludeStep, PutRaisesStep
     DEF Pack
<1>2. ASSUME NEW w \in Workers, Working(w)
      PROVE  Inv'
  BY <1>2, LoadStep, PutTermStep DEF Working
<1>3. ASSUME Run
      PROVE  Inv'
  <2>1. CASE Start \/ GateTimesOut \/ LoadMark \/ PutMark \/ Check
    BY <2>1, StartStep, LoadMarkStep, PutMarkStep, CheckStep
  <2>2. CASE Working(Job)
    BY <1>2, <2>2, JobIsWorker
  <2>3. CASE PlanRun
    BY <2>3, JobIsWorker, PlanStep
  <2>4. CASE FinishRun
    BY <2>4, EndStep
  <2> QED
    BY <1>3, <2>1, <2>2, <2>3, <2>4 DEF Run
<1>4. ASSUME NEW w \in Warmers, Manual(w)
      PROVE  Inv'
  <2>1. w \in Workers /\ w # Job
    BY WarmupAssumption DEF Workers
  <2> QED
    BY <1>2, <1>4, <2>1, BeginManualStep, PlanStep, FinishManualStep, FailStep,
       PutFailsStep DEF Manual
<1> QED
  BY <1>1, <1>3, <1>4, EndStep, OutsideStep, CrashStep DEF Next

LEMMA LearnInvariant == Spec => []Inv
<1>1. Inv /\ [Next]_vars => Inv'
  BY LearnNext
<1> QED
  BY LearnInit, <1>1, PTL DEF Spec

-----------------------------------------------------------------------------
(* What was told of a term, and what its row says.                           *)

\* A count the history has not lost is exact; a lost one is at most all there was.
Earned(row, k) ==
    /\ "zero" \notin k.lost => row.zero = k.zero
    /\ "unselected" \notin k.lost => row.unselected = k.unselected
    /\ row.zero <= k.zeros /\ row.unselected <= k.unselecteds

\* Who has got a row and was not overtaken holds the row as it is.
Held(w) ==
    work[w].pc \in {"learned", "searched"} =>
        /\ work[w].row.zero <= known[work[w].term].zeros
        /\ work[w].row.unselected <= known[work[w].term].unselecteds
        /\ ~ work[w].overtaken => work[w].row = stats[work[w].term]

RowsTold == /\ \A t \in Terms : Earned(stats[t], known[t])
            /\ \A w \in Workers : Held(w)

LEMMA ToldInit == Init => RowsTold
<1> SUFFICES ASSUME Init PROVE RowsTold
  OBVIOUS
<1>1. \A t \in Terms : Earned(stats[t], known[t])
  BY DEF Init, Earned, NoStats, NothingKnown
<1>2. \A w \in Workers : work[w].pc = "idle"
  BY DEF Init, IdleWork
<1> QED
  BY <1>1, <1>2 DEF RowsTold, Held

\* Most steps leave the rows alone and give no worker a row.
LEMMA ToldKept ==
    ASSUME RowsTold, UNCHANGED <<stats, known>>,
           \A w \in Workers :
               work'[w].pc \in {"learned", "searched"} => work'[w] = work[w]
    PROVE  RowsTold'
BY DEF RowsTold, Held, Earned

\* One worker moved on, and holds no row.
LEMMA ToldElsewhere ==
    ASSUME Inv, RowsTold, UNCHANGED <<stats, known>>, NEW w \in Workers, NEW new,
           work' = [work EXCEPT ![w] = new], new.pc \notin {"learned", "searched"}
    PROVE  RowsTold'
<1>1. \A v \in Workers : work'[v] = IF v = w THEN new ELSE work[v]
  BY DEF Inv, TypeInv, WorkType
<1> QED
  BY <1>1, ToldKept

LEMMA ToldPack ==
    ASSUME Inv, RowsTold, NEW p \in Packers, Pack(p)
    PROVE  RowsTold'
<1>1. UNCHANGED <<stats, known>>
  BY DEF Pack, Observe, Decline, Attempt, Submit, Conclude, PutRaises, learning
<1>2. CASE Observe(p) \/ Decline(p) \/ Attempt(p) \/ PutRaises(p)
  BY <1>1, <1>2, ToldKept DEF Observe, Decline, Attempt, PutRaises
<1>3. CASE Submit(p)
  <2> DEFINE run == [IdleWork EXCEPT !.pc = "gate", !.manifest = pack[p].manifest,
                                     !.owner = [kind |-> "packer", packer |-> p]]
  <2>1. work' = work \/ work' = [work EXCEPT ![Job] = run]
    BY <1>3 DEF Submit
  <2>2. run.pc = "gate"
    BY DEF IdleWork
  <2> HIDE DEF run
  <2> QED
    BY <1>1, <2>1, <2>2, JobIsWorker, ToldKept, ToldElsewhere
<1>4. CASE Conclude(p)
  <2> DEFINE opened == [work[Job] EXCEPT !.gate = TRUE]
  <2>1. \/ work' = work
        \/ work' = [work EXCEPT ![Job] = opened] /\ work[Job].pc = "gate"
    BY <1>4, JobIsWorker DEF Conclude, Inv, TypeInv, WorkType
  <2>2. opened.pc = work[Job].pc
    BY WorkerIs, JobIsWorker DEF WorkStates
  <2> HIDE DEF opened
  <2> QED
    BY <1>1, <2>1, <2>2, JobIsWorker, ToldKept, ToldElsewhere
<1> QED
  BY <1>2, <1>3, <1>4 DEF Pack

LEMMA ToldRun ==
    ASSUME Inv, RowsTold,
           Start \/ GateTimesOut \/ LoadMark \/ PutMark \/ Check \/ PlanRun \/ FinishRun
             \/ RunRaises
    PROVE  RowsTold'
<1>1. UNCHANGED <<stats, known>>
  BY DEF Start, GateTimesOut, LoadMark, PutMark, Check, PlanRun, FinishRun, RunRaises,
         learning
<1>2. work[Job] \in WorkStates /\ work \in [Workers -> WorkStates] /\ Job \in Workers
  BY WorkerIs, JobIsWorker DEF Inv, TypeInv, WorkType
<1>3. /\ \A v \in Workers \ {Job} : work'[v] = work[v]
      /\ \/ work'[Job] = work[Job]
         \/ work'[Job].pc \in {"running", "check", "idle", "learn", "ending", "search"}
  <2>1. CASE Start \/ GateTimesOut
    <3>1. \/ work' = [work EXCEPT ![Job] = [work[Job] EXCEPT !.pc = "running"]]
          \/ work' = [work EXCEPT ![Job] =
                 [work[Job] EXCEPT !.pc = "running", !.late = TRUE]]
      BY <1>2, <2>1 DEF Start, GateTimesOut
    <3>2. /\ [work[Job] EXCEPT !.pc = "running"].pc = "running"
          /\ [work[Job] EXCEPT !.pc = "running", !.late = TRUE].pc = "running"
      BY <1>2 DEF WorkStates
    <3> QED
      BY <1>2, <3>1, <3>2
  <2>2. CASE LoadMark
    BY <2>2 DEF LoadMark
  <2>3. CASE PutMark
    BY <1>2, <2>3 DEF PutMark, WorkStates, IdleWork
  <2>4. CASE Check
    <3> DEFINE learns == [work[Job] EXCEPT !.pc = "learn",
                                           !.todo = work[Job].manifest.terms]
               ends == [work[Job] EXCEPT !.pc = "ending"]
    <3>1. work' = [work EXCEPT ![Job] = learns] \/ work' = [work EXCEPT ![Job] = ends]
      BY <1>2, <2>4 DEF Check
    <3>2. learns.pc = "learn" /\ ends.pc = "ending"
      BY <1>2 DEF WorkStates
    <3> HIDE DEF learns, ends
    <3> QED
      BY <1>2, <3>1, <3>2
  <2>5. CASE PlanRun
    BY <1>2, <2>5 DEF PlanRun, WorkStates
  <2>6. CASE FinishRun
    BY <1>2, <2>6 DEF FinishRun, WorkStates
  <2>7. CASE RunRaises
    BY <1>2, <2>7 DEF RunRaises, IdleWork
  <2> QED
    BY <2>1, <2>2, <2>3, <2>4, <2>5, <2>6, <2>7
<1> QED
  BY <1>1, <1>3, ToldKept

LEMMA ToldManual ==
    ASSUME Inv, RowsTold, NEW w \in Warmers,
           \/ BeginManual(w) \/ PlanManual(w) \/ FinishManual(w) \/ LearningFails(w)
           \/ PutFails(w)
           \/ \E t \in Terms : SearchFails(w, t)
    PROVE  RowsTold'
<1>1. UNCHANGED <<stats, known>>
  BY DEF BeginManual, PlanManual, FinishManual, LearningFails, PutFails, SearchFails,
         learning
<1>2. w \in Workers /\ work[w] \in WorkStates /\ work \in [Workers -> WorkStates]
  BY WorkerIs DEF Workers, Inv, TypeInv, WorkType
<1>3. /\ \A v \in Workers \ {w} : work'[v] = work[v]
      /\ work'[w].pc \in {"learn", "search", "idle"}
  <2>1. CASE BeginManual(w)
    BY <1>2, <2>1 DEF BeginManual, IdleWork
  <2>2. CASE PlanManual(w)
    BY <1>2, <2>2 DEF PlanManual, WorkStates
  <2>3. CASE FinishManual(w)
    BY <1>2, <2>3 DEF FinishManual, IdleWork
  <2>4. CASE LearningFails(w)
    BY <1>2, <2>4 DEF LearningFails, WorkStates
  <2>5. CASE PutFails(w)
    <3>1. PICK new \in WorkStates :
              work' = [work EXCEPT ![w] = new] /\ new.pc \in {"learn", "search"}
      BY <1>2, <2>5, PutFailsWork DEF Inv, TypeInv
    <3> QED
      BY <1>2, <3>1
  <2>6. CASE \E t \in Terms : SearchFails(w, t)
    <3> PICK t \in Terms : SearchFails(w, t)
      BY <2>6
    <3> DEFINE fewer == [work[w] EXCEPT !.todo = @ \ {t}]
    <3>1. work' = [work EXCEPT ![w] = fewer] /\ work[w].pc = "search"
      BY <1>2 DEF SearchFails, ToSearch
    <3>2. fewer.pc = work[w].pc
      BY <1>2 DEF WorkStates
    <3> HIDE DEF fewer
    <3> QED
      BY <1>2, <3>1, <3>2
  <2> QED
    BY <2>1, <2>2, <2>3, <2>4, <2>5, <2>6
<1> QED
  BY <1>1, <1>3, ToldKept

\* A get takes the row as it is, unless it is overtaken already: then it is none.
LEMMA ToldLoad ==
    ASSUME Inv, RowsTold, NEW w \in Workers, NEW t \in Terms,
           LoadLearned(w, t) \/ LoadSearched(w, t)
    PROVE  RowsTold'
<1>1. UNCHANGED <<stats, known>>
  BY DEF LoadLearned, LoadSearched, learning
<1>2. work[w] \in WorkStates /\ work \in [Workers -> WorkStates]
  BY WorkerIs DEF Inv, TypeInv, WorkType
<1>3. /\ \A v \in Workers \ {w} : work'[v] = work[v]
      /\ work'[w].term = t /\ work'[w].row = stats[t]
  <2>1. PICK pc \in {"learned", "searched"},
            result \in {"none", "found", "selected"} :
            work' = [work EXCEPT ![w] = [work[w] EXCEPT
                        !.pc = pc, !.term = t, !.result = result, !.row = stats[t]]]
    <3>1. CASE LoadLearned(w, t)
      <4>1. work[w].manifest.result \in {"none", "found", "selected"}
        BY <3>1, WorkerIs, WarmupAssumption DEF LoadLearned, WorkSound, Manifests
      <4> QED
        BY <1>2, <3>1, <4>1 DEF LoadLearned
    <3>2. CASE LoadSearched(w, t)
      <4> PICK result \in {"none", "found"} :
              work' = [work EXCEPT ![w].pc = "searched", ![w].term = t,
                                   ![w].result = result, ![w].row = stats[t]]
        BY <3>2, Zenon DEF LoadSearched
      <4> QED
        BY <1>2
    <3> QED
      BY <3>1, <3>2
  <2> DEFINE new == [work[w] EXCEPT
                        !.pc = pc, !.term = t, !.result = result, !.row = stats[t]]
  <2>2. new.term = t /\ new.row = stats[t]
    BY <1>2 DEF WorkStates
  <2>3. work' = [work EXCEPT ![w] = new]
    BY <2>1
  <2> HIDE DEF new
  <2> QED
    BY <1>2, <2>2, <2>3
<1>4. Earned(stats[t], known[t])
  BY DEF RowsTold
<1>5. \A v \in Workers : Held(v)'
  BY <1>1, <1>3, <1>4 DEF RowsTold, Held, Earned
<1> QED
  BY <1>1, <1>5 DEF RowsTold, Earned

\* What a put does to the row and to the history of its term.
LEMMA ObservedIsEarned ==
    ASSUME NEW row \in StatRows, NEW past \in Pasts, NEW overtaken \in BOOLEAN,
           NEW result \in {"none", "found", "selected"}, NEW asked \in BOOLEAN,
           row.zero <= past.zeros, row.unselected <= past.unselecteds,
           ~ overtaken => Earned(row, past)
    PROVE  /\ Earned(Observed(row, result, asked),
                     Remembered(past, result, asked, overtaken))
           /\ past.zeros <= Remembered(past, result, asked, overtaken).zeros
           /\ past.unselecteds <= Remembered(past, result, asked, overtaken).unselecteds
<1> DEFINE new == Observed(row, result, asked)
           k == Remembered(past, result, asked, overtaken)
<1>1. /\ row.zero \in Nat /\ row.unselected \in Nat
      /\ past.zero \in Nat /\ past.unselected \in Nat
      /\ past.zeros \in Nat /\ past.unselecteds \in Nat
  BY DEF StatRows, Pasts
<1>2. /\ new.zero = (IF result = "none" THEN row.zero + 1 ELSE 0)
      /\ k.zero = (IF result = "none" THEN past.zero + 1 ELSE 0)
      /\ k.zeros = past.zeros + (IF result = "none" THEN 1 ELSE 0)
  BY DEF Observed, Remembered, ZeroAfter
<1>3. /\ k.unselected = (IF Chosen(result, asked) THEN 0
                         ELSE past.unselected + (IF Passed(result, asked) THEN 1 ELSE 0))
      /\ k.unselecteds = past.unselecteds + (IF Passed(result, asked) THEN 1 ELSE 0)
  BY DEF Remembered
<1>4. new.unselected = (IF Chosen(result, asked) THEN 0
                        ELSE row.unselected + (IF Passed(result, asked) THEN 1 ELSE 0))
  <2>1. new.unselected = (IF ~ asked THEN row.unselected
                          ELSE IF result = "selected" THEN 0 ELSE row.unselected + 1)
    BY DEF Observed
  <2>2. CASE asked = TRUE
    BY <1>1, <2>1, <2>2 DEF Chosen, Passed
  <2>3. CASE asked = FALSE
    <3>1. ~ Chosen(result, asked) /\ ~ Passed(result, asked)
      BY <2>3 DEF Chosen, Passed
    <3>2. new.unselected = row.unselected
      BY <2>1, <2>3
    <3> QED
      BY <1>1, <3>1, <3>2
  <2> QED
    BY <2>2, <2>3
<1>5. k.lost = (past.lost \cup (IF overtaken THEN {"zero", "unselected"} ELSE {}))
                  \ ((IF result = "none" THEN {} ELSE {"zero"})
                      \cup (IF Chosen(result, asked) THEN {"unselected"} ELSE {}))
  BY DEF Remembered
<1> HIDE DEF new, k
<1>6. "zero" \notin k.lost => new.zero = k.zero
  <2>1. CASE result # "none"
    BY <1>2, <2>1
  <2>2. CASE result = "none"
    <3> SUFFICES ASSUME "zero" \notin k.lost PROVE row.zero = past.zero
      BY <1>2, <2>2
    <3>1. "zero" \notin past.lost
      BY <1>5, <2>2
    <3>2. overtaken = FALSE
      BY <1>5, <2>2
    <3> QED
      BY <3>1, <3>2 DEF Earned
  <2> QED
    BY <2>1, <2>2
<1>7. "unselected" \notin k.lost => new.unselected = k.unselected
  <2>1. CASE Chosen(result, asked)
    BY <1>3, <1>4, <2>1
  <2>2. CASE ~ Chosen(result, asked)
    <3> SUFFICES ASSUME "unselected" \notin k.lost PROVE row.unselected = past.unselected
      BY <1>3, <1>4, <2>2
    <3>1. "unselected" \notin past.lost
      BY <1>5, <2>2
    <3>2. overtaken = FALSE
      BY <1>5, <2>2
    <3> QED
      BY <3>1, <3>2 DEF Earned
  <2> QED
    BY <2>1, <2>2
<1>8. new.zero <= k.zeros /\ past.zeros <= k.zeros
  BY <1>1, <1>2
<1>9. new.unselected <= k.unselecteds /\ past.unselecteds <= k.unselecteds
  BY <1>1, <1>3, <1>4
<1> QED
  BY <1>6, <1>7, <1>8, <1>9 DEF Earned, new, k

\* The put of this worker's row; a row another worker holds is overtaken by it.
LEMMA ToldPut ==
    ASSUME Inv, RowsTold, NEW w \in Workers, PutTerm(w)
    PROVE  RowsTold'
<1> DEFINE asked == work[w].pc = "learned"
           t == work[w].term
           row == Observed(work[w].row, work[w].result, asked)
           past == Remembered(known[t], work[w].result, asked, work[w].overtaken)
<1>1. /\ work[w] \in WorkStates /\ WorkSound(w, work[w])
      /\ work[w].pc \in {"learned", "searched"} /\ t \in Terms /\ WorkType
  BY WorkerIs DEF PutTerm, WorkSound, Inv, TypeInv
<1>2. /\ stats' = [stats EXCEPT ![t] = row] /\ known' = [known EXCEPT ![t] = past]
  BY DEF PutTerm
<1>3. /\ work[w].row \in StatRows /\ known[t] \in Pasts
      /\ work[w].overtaken \in BOOLEAN /\ asked \in BOOLEAN
      /\ work[w].result \in {"none", "found", "selected"}
      /\ stats \in [Terms -> StatRows] /\ known \in [Terms -> Pasts]
  BY <1>1 DEF WorkStates, WorkSound, Inv, TypeInv, RowsType
<1>4. /\ work[w].row.zero <= known[t].zeros
      /\ work[w].row.unselected <= known[t].unselecteds
      /\ ~ work[w].overtaken => Earned(work[w].row, known[t])
  BY <1>1 DEF RowsTold, Held
<1>5. /\ Earned(row, past) /\ past \in Pasts
      /\ known[t].zeros <= past.zeros /\ known[t].unselecteds <= past.unselecteds
  BY <1>3, <1>4, ObservedIsEarned, ObservedTypes
<1> HIDE DEF row, past, t, asked
<1>6. \A u \in Terms : IF u = t THEN stats'[u] = row /\ known'[u] = past
                       ELSE stats'[u] = stats[u] /\ known'[u] = known[u]
  BY <1>1, <1>2, <1>3
<1>7. \A u \in Terms : Earned(stats'[u], known'[u])
  BY <1>5, <1>6 DEF RowsTold
<1>8. ASSUME NEW x \in Workers
      PROVE  Held(x)'
  <2>1. CASE x = w
    <3>1. work'[w].pc \notin {"learned", "searched"}
      BY <1>1, PutTermWork
    <3> QED
      BY <2>1, <3>1 DEF Held
  <2>2. CASE x # w /\ work[x].term # t
    <3>1. work'[x] = work[x]
      BY <1>1, <2>2, PutTermWork DEF t
    <3>2. work[x].pc \in {"learned", "searched"} => work[x].term \in Terms
      BY WorkerIs DEF WorkSound
    <3>3. Held(x)
      BY DEF RowsTold
    <3> QED
      BY <1>6, <2>2, <3>1, <3>2, <3>3 DEF Held
  <2>3. CASE x # w /\ work[x].term = t
    <3>1. work'[x] = [work[x] EXCEPT !.overtaken = TRUE] /\ work[x] \in WorkStates
      BY <1>1, <2>3, PutTermWork, WorkerIs DEF t
    <3>2. /\ work'[x].pc = work[x].pc /\ work'[x].term = t
          /\ work'[x].row = work[x].row /\ work'[x].overtaken = TRUE
      BY <2>3, <3>1 DEF WorkStates
    <3>3. work[x].pc \in {"learned", "searched"} =>
              /\ work[x].row.zero <= known[t].zeros
              /\ work[x].row.unselected <= known[t].unselecteds
      BY <2>3 DEF RowsTold, Held
    <3>4. /\ work[x].row.zero \in Nat /\ work[x].row.unselected \in Nat
          /\ known[t].zeros \in Nat /\ known[t].unselecteds \in Nat
          /\ past.zeros \in Nat /\ past.unselecteds \in Nat /\ known'[t] = past
      BY <1>1, <1>3, <1>5, <1>6, <3>1 DEF WorkStates, StatRows, Pasts
    <3> QED
      BY <1>5, <3>2, <3>3, <3>4 DEF Held
  <2> QED
    BY <2>1, <2>2, <2>3
<1> QED
  BY <1>7, <1>8 DEF RowsTold, Earned

LEMMA ToldNext ==
    ASSUME Inv, RowsTold, [Next]_vars
    PROVE  RowsTold'
<1>1. ASSUME NEW w \in Workers, Working(w)
      PROVE  RowsTold'
  BY <1>1, ToldLoad, ToldPut DEF Working
<1>2. CASE Edit \/ Tick \/ UNCHANGED vars
  BY <1>2, ToldKept DEF Edit, Tick, vars, learning
<1>3. CASE Crash
  BY <1>3, ToldKept DEF Crash, learning, IdleWork
<1>4. CASE Run
  <2>1. CASE Working(Job)
    BY <1>1, <2>1, JobIsWorker
  <2> QED
    BY <1>4, <2>1, ToldRun DEF Run
<1>5. ASSUME NEW w \in Warmers, Manual(w)
      PROVE  RowsTold'
  <2>1. w \in Workers
    BY DEF Workers
  <2> QED
    BY <1>1, <1>5, <2>1, ToldManual DEF Manual
<1> QED
  BY <1>2, <1>3, <1>4, <1>5, ToldPack, ToldRun DEF Next

LEMMA ToldInvariant == Spec => []RowsTold
<1>1. Inv /\ RowsTold /\ [Next]_vars => RowsTold'
  BY ToldNext
<1> QED
  BY ToldInit, LearnInvariant, <1>1, PTL DEF Spec


-----------------------------------------------------------------------------
(* The theorems.                                                             *)

\* Whatever packs, runs, manual warm-ups, failures and crashes come together, every
\* row and every request holds values of its type.
THEOREM LearningTypeCorrect == Spec => []TypeOK
<1>1. Inv => TypeOK
  <2> SUFFICES ASSUME Inv PROVE TypeOK
    OBVIOUS
  <2>1. \A p \in Packers : pack[p] \in PackStates
    BY DEF Inv, TypeInv, PackType
  <2>2. \A w \in Workers : work[w] \in WorkStates /\ WorkSound(w, work[w])
    BY DEF Inv, TypeInv, WorkType
  <2>3. \A w \in Workers : /\ work[w].todo \subseteq Terms
                           /\ work[w].pc # "idle" /\ w = Job => work[w].owner.kind = "packer"
    BY <2>2 DEF WorkStates, WorkSound
  <2> QED
    BY <2>1, <2>3 DEF TypeOK, Inv, TypeInv, RowsType, Rows, StatRows, PackStates
<1> QED
  BY <1>1, LearnInvariant, PTL

\* No counter of the auto-learning row ever says more than happened, and no run is
\* started before the configured number of packs: a load, a change and a put of
\* _maybe_enqueue_auto_warmup and _auto_learn_mark_run may lose a count, never add one.
THEOREM CountersNeverOverstate == Spec => []NeverOverstated
<1>1. Inv => NeverOverstated
  <2> SUFFICES ASSUME Inv PROVE NeverOverstated
    OBVIOUS
  <2>1. ASSUME NEW c \in Counters
        PROVE  auto[c] <= truth[c]
    <3>1. auto[c] \in Nat /\ truth[c] \in Nat /\ Pending(c) \in {0, 1}
      BY CountIsNat DEF Inv, TypeInv, RowsType, Pending
    <3>2. auto[c] + Pending(c) <= truth[c]
      BY DEF Inv, CountsSound
    <3> QED
      BY <3>1, <3>2
  <2> QED
    BY <2>1 DEF NeverOverstated, Inv, CountsSound
<1> QED
  BY <1>1, LearnInvariant, PTL

\* A term that _warmup_negative_terms skips was told so in the order of the puts,
\* by whatever threads: as many searches or prompts came to nothing since the last
\* that did not.  Only where an update was put over another it was not made from may
\* the row have lost a result or a selection, until the next is put; and even then
\* as many came to nothing in all.
THEOREM NegativeIsDeserved == Spec => []NegativeIsEarned
<1>1. Inv /\ RowsTold => NegativeIsEarned
  <2> SUFFICES ASSUME Inv, RowsTold, NEW t \in Terms, Negative(t)
               PROVE  LET k == known[t] IN
                          \/ k.zero >= ZeroLimit
                          \/ "zero" \in k.lost /\ k.zeros >= ZeroLimit
                          \/ k.unselected >= UnselectedLimit
                          \/ "unselected" \in k.lost /\ k.unselecteds >= UnselectedLimit
    BY DEF NegativeIsEarned, Negatives
  <2>1. /\ stats[t].zero \in Nat /\ stats[t].unselected \in Nat
        /\ known[t].zeros \in Nat /\ known[t].unselecteds \in Nat
    BY DEF Inv, TypeInv, RowsType, StatRows, Pasts
  <2>2. Earned(stats[t], known[t])
    BY DEF RowsTold
  <2>3. stats[t].zero >= ZeroLimit \/ stats[t].unselected >= UnselectedLimit
    BY DEF Negative
  <2> QED
    BY <2>1, <2>2, <2>3, Bounds DEF Earned
<1> QED
  BY <1>1, LearnInvariant, ToldInvariant, PTL


-----------------------------------------------------------------------------
(* What the row says when nothing disturbed it.                              *)

Busy(p) == pack[p].pc # "idle"

\* What a pack has done and its next put will tell the row.
Owed(p, c) ==
    IF \/ pack[p].pc = "observed" /\ c = "observed"
       \/ pack[p].pc = "submitted" /\ pack[p].outcome = c
    THEN 1 ELSE 0

\* A run that a request started waits for that request, or has given up waiting.
GateHolds ==
    \A p \in Packers :
        Mine(p) /\ work[Job].pc # "idle" /\ ~ work[Job].late =>
            work[Job].pc = "gate" /\ ~ work[Job].gate

\* Who holds a copy of the row and was not overtaken holds what the row says.
CopiesCurrent ==
    /\ \A p \in Packers : Busy(p) /\ ~ pack[p].foreign =>
          pack[p].copy = IF pack[p].pc = "observed" THEN Plus(auto, "observed") ELSE auto
    /\ mark.pc = "load" /\ ~ mark.foreign => mark.copy = auto

\* A change was lost, or some put to come will overwrite one.
Doomed ==
    \/ disturbed
    \/ mark.pc = "load" /\ mark.foreign
    \/ \E p \in Packers : Busy(p) /\ pack[p].foreign
    \/ \E p, q \in Packers : p # q /\ Busy(p) /\ Busy(q)

\* Otherwise one request at most is under way, and what it and the run still have
\* to tell is all that the row is short of.
Short(c) ==
    /\ (\A p \in Packers : ~ Busy(p)) => auto[c] + Pending(c) = truth[c]
    /\ \A p \in Packers : Busy(p) => auto[c] + Pending(c) + Owed(p, c) = truth[c]

Accounted == ~ Doomed => \A c \in Counters : Short(c)

Exact == GateHolds /\ CopiesCurrent /\ Accounted

LEMMA ExactInit == Init => Exact
<1> SUFFICES ASSUME Init PROVE Exact
  OBVIOUS
<1>1. /\ \A p \in Packers : ~ Busy(p)
      /\ mark.pc = "idle" /\ work[Job].pc = "idle"
  BY JobIsWorker DEF Init, Busy, IdlePack, NoMark, IdleWork
<1>2. \A c \in Counters : auto[c] = 0 /\ truth[c] = 0 /\ Pending(c) = 0
  BY <1>1 DEF Init, Zero, Pending
<1> QED
  BY <1>1, <1>2 DEF Exact, GateHolds, CopiesCurrent, Accounted, Short

\* The run as the gate sees it, after a step that is not a request's.
JobGoesOn ==
    \/ work'[Job] = work[Job]
    \/ work'[Job] = [work[Job] EXCEPT !.overtaken = TRUE]
    \/ work'[Job].pc = "idle"
    \/ work'[Job].late = TRUE
    \/ /\ work[Job].pc # "idle" /\ (work[Job].pc = "gate" => work[Job].gate)
       /\ work'[Job].owner = work[Job].owner /\ work'[Job].late = work[Job].late

LEMMA GateKept ==
    ASSUME Inv, GateHolds, JobGoesOn, pack' = pack
    PROVE  GateHolds'
<1>1. CASE work'[Job] = [work[Job] EXCEPT !.overtaken = TRUE]
  <2>1. /\ work'[Job].pc = work[Job].pc /\ work'[Job].gate = work[Job].gate
        /\ work'[Job].late = work[Job].late /\ work'[Job].owner = work[Job].owner
    BY <1>1, WorkerIs, JobIsWorker DEF WorkStates
  <2> QED
    BY <2>1 DEF GateHolds, Mine
<1>2. CASE work'[Job] # [work[Job] EXCEPT !.overtaken = TRUE]
  BY <1>2 DEF GateHolds, JobGoesOn, Mine
<1> QED
  BY <1>1, <1>2

LEMMA RowsKept ==
    ASSUME CopiesCurrent, Accounted, UNCHANGED <<auto, truth, pack, mark, disturbed>>
    PROVE  CopiesCurrent' /\ Accounted'
BY DEF CopiesCurrent, Accounted, Busy, Doomed, Short, Pending, Owed

\* A worker that changes nothing the gate looks at.
LEMMA WorkerGoesOn ==
    ASSUME Inv, NEW w \in Workers, NEW new, work' = [work EXCEPT ![w] = new],
           w = Job => /\ work[w].pc \notin {"idle", "gate"}
                      /\ new.owner = work[w].owner /\ new.late = work[w].late
    PROVE  JobGoesOn
<1>1. work \in [Workers -> WorkStates] /\ Job \in Workers
  BY JobIsWorker DEF Inv, TypeInv, WorkType
<1> QED
  BY <1>1 DEF JobGoesOn

LEMMA LoadGoesOn ==
    ASSUME Inv, NEW w \in Workers, NEW t \in Terms,
           LoadLearned(w, t) \/ LoadSearched(w, t) \/ SearchFails(w, t) \/ LearningFails(w)
    PROVE  JobGoesOn
<1> USE DEF WorkStates
<1>1. work[w] \in WorkStates /\ work \in [Workers -> WorkStates]
  BY WorkerIs DEF Inv, TypeInv, WorkType
<1>2. CASE LoadLearned(w, t)
  <2> DEFINE new == [work[w] EXCEPT !.pc = "learned", !.term = t,
                        !.result = work[w].manifest.result, !.row = stats[t]]
  <2>1. work' = [work EXCEPT ![w] = new]
    BY <1>1, <1>2 DEF LoadLearned
  <2>2. new.owner = work[w].owner /\ new.late = work[w].late
        /\ work[w].pc \notin {"idle", "gate"}
    BY <1>1, <1>2 DEF LoadLearned
  <2> HIDE DEF new
  <2> QED
    BY <2>1, <2>2, WorkerGoesOn
<1>3. CASE LoadSearched(w, t)
  <2>1. PICK result \in {"none", "found"} :
            work' = [work EXCEPT ![w].pc = "searched", ![w].term = t,
                     ![w].result = result,
                     ![w].row = stats[t]]
    BY <1>3 DEF LoadSearched
  <2> DEFINE new == [work[w] EXCEPT !.pc = "searched", !.term = t, !.result = result,
                        !.row = stats[t]]
  <2>2. work' = [work EXCEPT ![w] = new]
    BY <1>1, <2>1
  <2>3. new.owner = work[w].owner /\ new.late = work[w].late
        /\ work[w].pc \notin {"idle", "gate"}
    BY <1>1, <1>3 DEF LoadSearched, ToSearch
  <2> HIDE DEF new
  <2> QED
    BY <2>2, <2>3, WorkerGoesOn
<1>4. CASE SearchFails(w, t)
  <2> DEFINE new == [work[w] EXCEPT !.todo = @ \ {t}]
  <2>1. work' = [work EXCEPT ![w] = new]
    BY <1>1, <1>4 DEF SearchFails
  <2>2. new.owner = work[w].owner /\ new.late = work[w].late
        /\ work[w].pc \notin {"idle", "gate"}
    BY <1>1, <1>4 DEF SearchFails, ToSearch
  <2> HIDE DEF new
  <2> QED
    BY <2>1, <2>2, WorkerGoesOn
<1>5. CASE LearningFails(w)
  <2> DEFINE new == [work[w] EXCEPT !.todo = {}]
  <2>1. work' = [work EXCEPT ![w] = new]
    BY <1>1, <1>5 DEF LearningFails
  <2>2. new.owner = work[w].owner /\ new.late = work[w].late
        /\ work[w].pc \notin {"idle", "gate"}
    BY <1>1, <1>5 DEF LearningFails
  <2> HIDE DEF new
  <2> QED
    BY <2>1, <2>2, WorkerGoesOn
<1> QED
  BY <1>2, <1>3, <1>4, <1>5

LEMMA PutTermGoesOn ==
    ASSUME Inv, NEW w \in Workers, PutTerm(w)
    PROVE  JobGoesOn
<1>1. WorkType /\ Job \in Workers
  BY JobIsWorker DEF Inv, TypeInv
<1>2. CASE w = Job
  <2>1. work[w].pc \notin {"idle", "gate"}
    BY DEF PutTerm
  <2> QED
    BY <1>1, <1>2, <2>1, PutTermWork DEF JobGoesOn
<1>3. CASE w # Job
  BY <1>1, <1>3, PutTermWork DEF JobGoesOn
<1> QED
  BY <1>2, <1>3

LEMMA PlanGoesOn ==
    ASSUME Inv, PlanRun
    PROVE  JobGoesOn
<1>1. work[Job] \in WorkStates /\ Job \in Workers
  BY WorkerIs, JobIsWorker
<1>2. work[Job].pc = "learn"
  BY DEF PlanRun
<1>3. work'[Job].owner = work[Job].owner /\ work'[Job].late = work[Job].late
  BY <1>1 DEF PlanRun, WorkStates, Inv, TypeInv, WorkType
<1> QED
  BY <1>2, <1>3 DEF JobGoesOn

\* What a manual warm-up begins, plans and ends is not the run's.
LEMMA ManualGoesOn ==
    ASSUME Inv, NEW w \in Warmers,
           BeginManual(w) \/ PlanManual(w) \/ FinishManual(w) \/ PutFails(w)
    PROVE  JobGoesOn
<1>1. w \in Workers /\ w # Job /\ Job \in Workers
  BY WarmupAssumption DEF Workers
<1>2. work'[Job] = work[Job]
  BY <1>1 DEF BeginManual, PlanManual, FinishManual, PutFails, Inv, TypeInv, WorkType
<1> QED
  BY <1>2 DEF JobGoesOn

\* A mark falls due while none was: the row owes the end of the run, if it has come.
LEMMA DueIsOwed ==
    ASSUME Inv, CopiesCurrent, Accounted, NEW status \in Ends \cup {"running"},
           Marking(status), mark.pc = "idle", UNCHANGED <<auto, pack, disturbed>>,
           truth' = IF status \in Ends THEN Plus(truth, status) ELSE truth
    PROVE  CopiesCurrent' /\ Accounted'
<1>1. mark'.pc = "due" /\ mark'.status = status
  BY DEF Marking, NoMark
<1>2. CopiesCurrent'
  BY <1>1 DEF CopiesCurrent, Busy
<1>3. ASSUME NEW c \in Counters
      PROVE  /\ truth'[c] - Pending(c)' = truth[c] - Pending(c)
             /\ truth[c] \in Nat /\ truth'[c] \in Nat
             /\ Pending(c) = 0 /\ Pending(c)' \in {0, 1}
  <2>1. truth \in Rows /\ truth' \in Rows /\ truth[c] \in Nat /\ truth'[c] \in Nat
    <3>1. truth \in Rows /\ truth' \in Rows
      BY PlusOne, SomeCounters DEF Inv, TypeInv, RowsType
    <3> QED
      BY <3>1, CountIsNat
  <2>2. Pending(c) = 0 /\ Pending(c)' = IF status = c THEN 1 ELSE 0
    BY <1>1 DEF Pending
  <2>3. CASE c = status
    <3>1. truth'[c] = truth[c] + 1
      BY <2>1, <2>3, PlusOne, SomeCounters
    <3> QED
      BY <2>1, <2>2, <2>3, <3>1
  <2>4. CASE c # status
    <3>1. truth'[c] = truth[c]
      BY <2>1, <2>4, PlusOther
    <3> QED
      BY <2>1, <2>2, <2>4, <3>1
  <2> QED
    BY <2>3, <2>4
<1>4. ASSUME ~ Doomed', NEW c \in Counters
      PROVE  Short(c)'
  <2>1. ~ Doomed
    BY <1>1, <1>4 DEF Doomed, Busy
  <2>2. Short(c)
    BY <2>1 DEF Accounted
  <2>3. auto[c] \in Nat /\ \A p \in Packers : Owed(p, c) \in {0, 1} /\ Owed(p, c)' = Owed(p, c)
    BY CountIsNat DEF Inv, TypeInv, RowsType, Owed
  <2>4. (\A p \in Packers : ~ Busy(p)) => auto[c] + Pending(c)' = truth'[c]
    BY <1>3, <2>2, <2>3 DEF Short
  <2>5. \A p \in Packers : Busy(p) => auto[c] + Pending(c)' + Owed(p, c) = truth'[c]
    BY <1>3, <2>2, <2>3 DEF Short
  <2> QED
    BY <2>3, <2>4, <2>5 DEF Short, Busy
<1> QED
  BY <1>2, <1>4 DEF Accounted

\* The beginning of a run, and its end.
LEMMA RunMarksExact ==
    ASSUME Inv, Exact, Start \/ GateTimesOut \/ Check \/ FinishRun \/ RunRaises
    PROVE  Exact'
<1>1. work[Job] \in WorkStates /\ Job \in Workers /\ work \in [Workers -> WorkStates]
  BY WorkerIs, JobIsWorker DEF Inv, TypeInv, WorkType
<1>2. mark.pc = "idle" /\ UNCHANGED <<auto, pack, disturbed>>
  <2>1. work[Job].pc \notin {"running", "ending"}
    BY DEF Start, GateTimesOut, Check, FinishRun, Searched, RunRaises
  <2>2. UNCHANGED <<auto, pack, disturbed>>
    BY DEF Start, GateTimesOut, Check, FinishRun, RunRaises
  <2> QED
    BY <2>1, <2>2 DEF Inv, TypeInv, MarkAgrees
<1>3. JobGoesOn
  <2>1. CASE Start
    BY <1>1, <2>1 DEF Start, GateIsOpen, JobGoesOn, WorkStates
  <2>2. CASE GateTimesOut
    BY <1>1, <2>2 DEF GateTimesOut, JobGoesOn, WorkStates
  <2>3. CASE Check
    <3>1. \/ work' = [work EXCEPT ![Job].pc = "learn",
                                  ![Job].todo = work[Job].manifest.terms]
          \/ work' = [work EXCEPT ![Job].pc = "ending"]
      BY <2>3 DEF Check
    <3>2. work[Job].pc = "check"
      BY <2>3 DEF Check
    <3>3. \/ work'[Job] = [work[Job] EXCEPT !.pc = "learn", !.todo = work[Job].manifest.terms]
          \/ work'[Job] = [work[Job] EXCEPT !.pc = "ending"]
      BY <1>1, <3>1
    <3>4. work'[Job].owner = work[Job].owner /\ work'[Job].late = work[Job].late
      BY <1>1, <3>3 DEF WorkStates
    <3> QED
      BY <3>2, <3>4 DEF JobGoesOn
  <2>4. CASE FinishRun
    BY <1>1, <2>4 DEF FinishRun, Searched, JobGoesOn, WorkStates
  <2>5. CASE RunRaises
    BY <1>1, <2>5 DEF RunRaises, IdleWork, JobGoesOn, WorkStates
  <2> QED
    BY <2>1, <2>2, <2>3, <2>4, <2>5
<1>4. GateHolds'
  BY <1>2, <1>3, GateKept DEF Exact
<1>5. \/ UNCHANGED <<mark, truth>>
      \/ Marking("running") /\ truth' = truth
      \/ \E status \in Ends : Marking(status) /\ truth' = Plus(truth, status)
  BY DEF Start, GateTimesOut, Check, FinishRun, RunRaises, End, Ends
<1>6. CopiesCurrent' /\ Accounted'
  <2>1. "running" \notin Ends
    BY DEF Ends
  <2> QED
    BY <1>2, <1>5, <2>1, DueIsOwed, RowsKept DEF Exact
<1> QED
  BY <1>4, <1>6 DEF Exact

LEMMA LoadMarkExact ==
    ASSUME Inv, Exact, LoadMark
    PROVE  Exact'
<1>1. /\ mark.pc = "due" /\ mark'.pc = "load" /\ mark'.copy = auto
      /\ mark'.status = mark.status
      /\ UNCHANGED <<auto, pack, work, truth, disturbed>>
  BY DEF LoadMark, Inv, TypeInv, MarkType, MarkStates
<1>2. GateHolds' /\ CopiesCurrent'
  BY <1>1 DEF Exact, GateHolds, CopiesCurrent, Mine, Busy
<1>3. \A c \in Counters : Pending(c)' = Pending(c)
  BY <1>1 DEF Pending
<1>4. Accounted'
  <2>1. ~ Doomed' => ~ Doomed
    BY <1>1 DEF Doomed, Busy
  <2>2. \A c \in Counters : Short(c) => Short(c)'
    BY <1>1, <1>3 DEF Short, Busy, Owed
  <2> QED
    BY <2>1, <2>2 DEF Exact, Accounted
<1> QED
  BY <1>2, <1>4 DEF Exact

\* The run puts the row: no request that waits for it is under way, so every one that
\* is has been overtaken.
LEMMA PutMarkExact ==
    ASSUME Inv, Exact, PutMark
    PROVE  Exact'
<1>1. /\ mark.pc = "load" /\ auto' = Marked(mark.copy, mark.status) /\ mark' = NoMark
      /\ disturbed' = (disturbed \/ mark.foreign) /\ truth' = truth
      /\ pack' = [p \in Packers |-> IF Mine(p) /\ ~ work[Job].late THEN pack[p]
                                    ELSE WithForeign(pack)[p]]
  BY DEF PutMark
<1>2. work[Job].pc # "idle" /\ work[Job].pc # "gate" /\ mark.status # ""
  BY <1>1 DEF Inv, TypeInv, MarkAgrees, MarkType
<1>3. \A p \in Packers : pack'[p] = WithForeign(pack)[p]
  BY <1>1, <1>2 DEF Exact, GateHolds
<1>4. \A p \in Packers :
          /\ pack'[p].pc = pack[p].pc /\ pack'[p].outcome = pack[p].outcome
          /\ pack[p].pc # "idle" => pack'[p].foreign = TRUE
  <2>1. \A p \in Packers : pack[p] \in PackStates
    BY DEF Inv, TypeInv, PackType
  <2> QED
    BY <1>3, <2>1 DEF WithForeign, PackStates
<1>5. GateHolds'
  <2>1. work[Job] \in WorkStates /\ Job \in Workers /\ work \in [Workers -> WorkStates]
    BY WorkerIs, JobIsWorker DEF Inv, TypeInv, WorkType
  <2>2. \/ work'[Job].pc = "idle"
        \/ work'[Job].owner = work[Job].owner /\ work'[Job].late = work[Job].late
    BY <2>1 DEF PutMark, IdleWork, WorkStates
  <2> QED
    BY <1>2, <1>4, <2>2 DEF Exact, GateHolds, Mine
<1>6. mark'.pc = "idle" /\ \A c \in Counters : Pending(c)' = 0
  BY <1>1 DEF NoMark, Pending
<1>7. CopiesCurrent'
  BY <1>4, <1>6 DEF CopiesCurrent, Busy
<1>8. ASSUME ~ Doomed', NEW c \in Counters
      PROVE  Short(c)'
  <2>1. /\ \A p \in Packers : ~ Busy(p) /\ ~ Busy(p)'
        /\ ~ disturbed /\ ~ mark.foreign
    BY <1>1, <1>4, <1>8 DEF Doomed, Busy
  <2>2. mark.copy = auto /\ Short(c)
    BY <1>1, <2>1 DEF Exact, CopiesCurrent, Accounted, Doomed
  <2>3. auto[c] + Pending(c) = truth[c] /\ auto \in Rows /\ auto[c] \in Nat
    BY <2>1, <2>2, CountIsNat DEF Short, Inv, TypeInv, RowsType
  <2>4. auto'[c] = auto[c] + Pending(c)
    <3>1. CASE mark.status = c
      BY <1>1, <2>2, <2>3, <3>1, PlusOne DEF Marked, Pending
    <3>2. CASE mark.status # c
      BY <1>1, <2>2, <2>3, <3>2, PlusOther DEF Marked, Pending
    <3> QED
      BY <3>1, <3>2
  <2>5. auto'[c] + Pending(c)' = truth'[c]
    BY <1>1, <1>6, <2>3, <2>4, CountIsNat DEF Inv, TypeInv, RowsType
  <2> QED
    BY <2>1, <2>5 DEF Short
<1> QED
  BY <1>5, <1>7, <1>8 DEF Exact, Accounted


\* A pack puts the row: whoever else holds a copy of it has been overtaken.
LEMMA PackPutsExact ==
    ASSUME Inv, Exact, NEW p \in Packers, NEW row \in Rows, NEW next \in PackStates,
           PutAuto(p, row, next), truth' = truth, pack[p].pc # "idle",
           next.pc = "idle" \/ (next.pc = "attempted" /\ next.copy = row),
           ~ pack[p].foreign => \A c \in Counters : row[c] = auto[c] + Owed(p, c)
    PROVE  CopiesCurrent' /\ Accounted'
<1>1. /\ auto' = row /\ disturbed' = (disturbed \/ pack[p].foreign)
      /\ pack' = [WithForeign(pack) EXCEPT ![p] = next]
      /\ mark' = IF mark.pc = "load" THEN [mark EXCEPT !.foreign = TRUE] ELSE mark
  BY DEF PutAuto, RunMarkIsForeign
<1>2. pack'[p] = next /\ \A q \in Packers \ {p} : pack'[q] = WithForeign(pack)[q]
  BY <1>1, ForeignPacks DEF Inv, TypeInv
<1>3. \A q \in Packers \ {p} :
          /\ pack'[q].pc = pack[q].pc
          /\ pack[q].pc # "idle" => pack'[q].foreign = TRUE
  <2> SUFFICES ASSUME NEW q \in Packers \ {p}
               PROVE  /\ pack'[q].pc = pack[q].pc
                      /\ pack[q].pc # "idle" => pack'[q].foreign = TRUE
    OBVIOUS
  <2>1. pack[q] \in PackStates
    BY DEF Inv, TypeInv, PackType
  <2>2. pack'[q] = IF pack[q].pc = "idle" THEN pack[q]
                   ELSE [pack[q] EXCEPT !.foreign = TRUE]
    BY <1>2 DEF WithForeign
  <2> QED
    BY <2>1, <2>2 DEF PackStates
<1>4. /\ mark'.pc = mark.pc /\ mark'.status = mark.status
      /\ mark.pc = "load" => mark'.foreign = TRUE
  BY <1>1 DEF Inv, TypeInv, MarkType, MarkStates
<1>5. CopiesCurrent'
  <2>1. ASSUME NEW q \in Packers, Busy(q)', ~ pack'[q].foreign
        PROVE  pack'[q].copy = IF pack'[q].pc = "observed" THEN Plus(auto', "observed")
                                                           ELSE auto'
    <3>1. q = p
      BY <1>3, <2>1 DEF Busy
    <3> QED
      BY <1>1, <1>2, <2>1, <3>1 DEF Busy
  <2> QED
    BY <1>4, <2>1 DEF CopiesCurrent
<1>6. \A c \in Counters : Pending(c)' = Pending(c)
  BY <1>4 DEF Pending
<1>7. ASSUME ~ Doomed', NEW c \in Counters
      PROVE  Short(c)'
  <2>1. /\ ~ disturbed /\ ~ pack[p].foreign /\ mark.pc # "load"
        /\ \A q \in Packers \ {p} : ~ Busy(q) /\ ~ Busy(q)'
    BY <1>1, <1>3, <1>4, <1>7 DEF Doomed, Busy
  <2>2. ~ Doomed
    BY <2>1 DEF Doomed
  <2>3. auto[c] + Pending(c) + Owed(p, c) = truth[c] /\ row[c] = auto[c] + Owed(p, c)
    BY <2>1, <2>2 DEF Exact, Accounted, Short, Busy
  <2>4. auto[c] \in Nat /\ Pending(c) \in {0, 1} /\ Owed(p, c) \in {0, 1}
    BY CountIsNat DEF Inv, TypeInv, RowsType, Pending, Owed
  <2>5. auto'[c] + Pending(c)' = truth'[c]
    BY <1>1, <1>6, <2>3, <2>4
  <2>6. Owed(p, c)' = 0 /\ auto'[c] + Pending(c)' \in Nat
    BY <1>1, <1>2, <1>6, <2>3, <2>4 DEF Owed
  <2> QED
    BY <2>1, <2>5, <2>6 DEF Short
<1> QED
  BY <1>5, <1>7 DEF Accounted

LEMMA ObserveExact ==
    ASSUME Inv, Exact, NEW p \in Packers, Observe(p)
    PROVE  Exact'
<1>1. PICK manifest \in Manifests :
          pack' = [pack EXCEPT ![p] =
                   [IdlePack EXCEPT !.pc = "observed", !.copy = Plus(auto, "observed"),
                                    !.manifest = manifest]]
  <2>1. PICK terms \in (SUBSET Terms) \ {{}}, result \in Yields, available \in BOOLEAN :
            LET manifest == [kind |-> "manifest", sig |-> signature, terms |-> terms,
                             result |-> result, learned |-> seeds, available |-> available]
            IN  /\ prompt' = manifest
                /\ pack' = [pack EXCEPT ![p] =
                   [IdlePack EXCEPT !.pc = "observed", !.copy = Plus(auto, "observed"),
                                    !.manifest = manifest]]
    BY Zenon DEF Observe
  <2>2. signature \in Nat /\ seeds \subseteq Terms
    BY Bounds DEF Inv, TypeInv, RowsType
  <2>3. [kind |-> "manifest", sig |-> signature, terms |-> terms, result |-> result,
         learned |-> seeds, available |-> available] \in Manifests
    BY <2>1, <2>2 DEF Manifests
  <2> QED
    BY <2>1, <2>3
<1>2. /\ pack[p].pc = "idle" /\ truth' = Plus(truth, "observed")
      /\ UNCHANGED <<auto, work, mark, disturbed>>
  BY DEF Observe
<1>3. /\ pack'[p].pc = "observed" /\ pack'[p].copy = Plus(auto, "observed")
      /\ pack'[p].outcome = "" /\ pack'[p].foreign = FALSE
      /\ \A q \in Packers \ {p} : pack'[q] = pack[q]
  BY <1>1 DEF IdlePack, Inv, TypeInv, PackType
<1>4. GateHolds'
  BY <1>2, <1>3 DEF Exact, GateHolds, Mine
<1>5. CopiesCurrent'
  BY <1>2, <1>3 DEF Exact, CopiesCurrent, Busy
<1>6. ASSUME ~ Doomed', NEW c \in Counters
      PROVE  Short(c)'
  <2>1. \A q \in Packers : ~ Busy(q) /\ (q # p => ~ Busy(q)')
    BY <1>2, <1>3, <1>6 DEF Doomed, Busy
  <2>2. ~ Doomed
    BY <1>2, <1>6, <2>1 DEF Doomed
  <2>3. auto[c] + Pending(c) = truth[c] /\ auto[c] \in Nat /\ truth \in Rows
    BY <2>1, <2>2, CountIsNat DEF Exact, Accounted, Short, Inv, TypeInv, RowsType
  <2>4. Pending(c)' = Pending(c) /\ Pending(c) \in {0, 1}
    BY <1>2 DEF Pending
  <2>5. auto[c] + Pending(c) + Owed(p, c)' = truth'[c]
    <3>1. CASE c = "observed"
      <4>1. truth'[c] = truth[c] + 1 /\ Owed(p, c)' = 1
        BY <1>2, <1>3, <2>3, <3>1, PlusOne DEF Owed
      <4> QED
        BY <2>3, <2>4, <4>1
    <3>2. CASE c # "observed"
      <4>1. truth'[c] = truth[c] /\ Owed(p, c)' = 0
        BY <1>2, <1>3, <2>3, <3>2, PlusOther DEF Owed
      <4> QED
        BY <2>3, <2>4, <4>1
    <3> QED
      BY <3>1, <3>2
  <2> QED
    BY <1>2, <1>3, <2>1, <2>4, <2>5 DEF Short, Busy
<1> QED
  BY <1>4, <1>5, <1>6 DEF Exact, Accounted

LEMMA DeclineExact ==
    ASSUME Inv, Exact, NEW p \in Packers, Decline(p) \/ Attempt(p)
    PROVE  Exact'
<1>1. /\ pack[p].pc = "observed" /\ work' = work /\ truth' = truth
      /\ pack[p] \in PackStates /\ pack[p].copy \in Rows
  BY DEF Decline, Attempt, Inv, TypeInv, PackType, PackStates
<1>2. ~ pack[p].foreign => \A c \in Counters : pack[p].copy[c] = auto[c] + Owed(p, c)
  <2> SUFFICES ASSUME ~ pack[p].foreign, NEW c \in Counters
               PROVE  pack[p].copy[c] = auto[c] + Owed(p, c)
    OBVIOUS
  <2>1. pack[p].copy = Plus(auto, "observed") /\ auto \in Rows /\ auto[c] \in Nat
    BY <1>1, CountIsNat DEF Exact, CopiesCurrent, Busy, Inv, TypeInv, RowsType
  <2>2. CASE c = "observed"
    BY <1>1, <2>1, <2>2, PlusOne DEF Owed
  <2>3. CASE c # "observed"
    <3>1. pack[p].copy[c] = auto[c] /\ Owed(p, c) = 0
      BY <1>1, <2>1, <2>3, PlusOther DEF Owed
    <3> QED
      BY <2>1, <3>1
  <2> QED
    BY <2>2, <2>3
<1>3. PICK next \in PackStates :
          /\ PutAuto(p, pack[p].copy, next)
          /\ next.pc = "idle" \/ (next.pc = "attempted" /\ next.copy = pack[p].copy)
          /\ next.outcome \in {"", pack[p].outcome}
  <2>1. CASE Decline(p)
    <3>1. PutAuto(p, pack[p].copy, IdlePack) /\ IdlePack.pc = "idle"
          /\ IdlePack.outcome = ""
      BY <2>1 DEF Decline, IdlePack
    <3> QED
      BY <3>1, IdleValues
  <2>2. CASE Attempt(p)
    <3> DEFINE new == [pack[p] EXCEPT !.pc = "attempted", !.foreign = FALSE]
    <3>1. new \in PackStates /\ new.pc = "attempted" /\ new.copy = pack[p].copy
          /\ new.outcome = pack[p].outcome
      BY <1>1 DEF PackStates
    <3>2. PutAuto(p, pack[p].copy, new)
      BY <2>2 DEF Attempt
    <3> HIDE DEF new
    <3> QED
      BY <3>1, <3>2
  <2> QED
    BY <2>1, <2>2
<1>4. CopiesCurrent' /\ Accounted'
  BY <1>1, <1>2, <1>3, PackPutsExact
<1>5. GateHolds'
  <2>1. pack' = [WithForeign(pack) EXCEPT ![p] = next]
    BY <1>3 DEF PutAuto
  <2>2. \A q \in Packers : pack'[q].outcome \in {"", pack[q].outcome}
    BY <1>3, <2>1, ForeignPacks DEF Inv, TypeInv
  <2> QED
    BY <1>1, <2>2 DEF Exact, GateHolds, Mine
<1> QED
  BY <1>4, <1>5 DEF Exact

LEMMA SubmitExact ==
    ASSUME Inv, Exact, NEW p \in Packers, Submit(p)
    PROVE  Exact'
<1> PICK outcome \in Outcomes : outcome = Outcome
  BY DEF Outcome, Outcomes
<1> DEFINE run == [IdleWork EXCEPT !.pc = "gate", !.manifest = pack[p].manifest,
                                   !.owner = [kind |-> "packer", packer |-> p]]
<1>1. /\ pack[p].pc = "attempted" /\ truth' = Plus(truth, outcome)
      /\ pack' = [pack EXCEPT ![p].pc = "submitted", ![p].outcome = outcome]
      /\ UNCHANGED <<auto, mark, disturbed>>
      /\ IF outcome = "enqueued" THEN work' = [work EXCEPT ![Job] = run] ELSE work' = work
  BY DEF Submit
<1>2. /\ run.pc = "gate" /\ run.gate = FALSE
      /\ run.owner = [kind |-> "packer", packer |-> p]
  BY DEF IdleWork
<1> HIDE DEF run
<1>3. pack[p] \in PackStates /\ pack \in [Packers -> PackStates]
  BY DEF Inv, TypeInv, PackType
<1>4. /\ pack'[p].pc = "submitted" /\ pack'[p].outcome = outcome
      /\ pack'[p].copy = pack[p].copy /\ pack'[p].foreign = pack[p].foreign
      /\ \A q \in Packers \ {p} : pack'[q] = pack[q]
  BY <1>1, <1>3 DEF PackStates
<1>5. GateHolds'
  <2>1. CASE outcome = "enqueued"
    <3>1. work'[Job] = run
      BY <1>1, <2>1, JobIsWorker DEF Inv, TypeInv, WorkType
    <3>2. \A q \in Packers : Mine(q)' => q = p
      <4>1. \A q \in Packers : [kind |-> "packer", packer |-> q].packer = q
        OBVIOUS
      <4> QED
        BY <1>2, <3>1, <4>1 DEF Mine
    <3> QED
      BY <1>2, <3>1, <3>2 DEF GateHolds
  <2>2. CASE outcome # "enqueued"
    BY <1>1, <1>4, <2>2 DEF Exact, GateHolds, Mine
  <2> QED
    BY <2>1, <2>2
<1>6. CopiesCurrent'
  <2>1. \A q \in Packers :
            /\ Busy(q)' = Busy(q) /\ pack'[q].copy = pack[q].copy
            /\ pack'[q].foreign = pack[q].foreign
            /\ (pack'[q].pc = "observed") = (pack[q].pc = "observed")
    BY <1>1, <1>4 DEF Busy
  <2> QED
    BY <1>1, <2>1 DEF Exact, CopiesCurrent
<1>7. ASSUME ~ Doomed', NEW c \in Counters
      PROVE  Short(c)'
  <2>1. \A q \in Packers : Busy(q)' = Busy(q) /\ pack'[q].foreign = pack[q].foreign
    BY <1>1, <1>4 DEF Busy
  <2>2. ~ Doomed /\ Busy(p)
    BY <1>1, <1>7, <2>1 DEF Doomed, Busy
  <2>3. \A q \in Packers \ {p} : ~ Busy(q)
    BY <2>2 DEF Doomed
  <2>4. /\ auto[c] + Pending(c) + Owed(p, c) = truth[c]
        /\ auto[c] \in Nat /\ truth \in Rows /\ outcome \in Counters
    BY <2>2, CountIsNat, SomeCounters DEF Exact, Accounted, Short, Inv, TypeInv, RowsType
  <2>5. Pending(c)' = Pending(c) /\ Pending(c) \in {0, 1} /\ Owed(p, c) = 0
    BY <1>1 DEF Pending, Owed
  <2>6. auto[c] + Pending(c) + Owed(p, c)' = truth'[c]
    <3>1. CASE c = outcome
      <4>1. truth'[c] = truth[c] + 1 /\ Owed(p, c)' = 1
        BY <1>1, <1>4, <2>4, <3>1, PlusOne DEF Owed
      <4> QED
        BY <2>4, <2>5, <4>1
    <3>2. CASE c # outcome
      <4>1. truth'[c] = truth[c] /\ Owed(p, c)' = 0
        BY <1>1, <1>4, <2>4, <3>2, PlusOther DEF Owed
      <4> QED
        BY <2>4, <2>5, <4>1
    <3> QED
      BY <3>1, <3>2
  <2> QED
    BY <1>1, <2>1, <2>2, <2>3, <2>5, <2>6 DEF Short
<1> QED
  BY <1>5, <1>6, <1>7 DEF Exact, Accounted

LEMMA ConcludeExact ==
    ASSUME Inv, Exact, NEW p \in Packers, Conclude(p)
    PROVE  Exact'
<1> PICK row : row = Plus(pack[p].copy, pack[p].outcome)
  OBVIOUS
<1>1. /\ pack[p].pc = "submitted" /\ PutAuto(p, row, IdlePack) /\ truth' = truth
      /\ work' = IF Mine(p) /\ work[Job].pc = "gate"
                 THEN [work EXCEPT ![Job].gate = TRUE] ELSE work
  BY DEF Conclude, Recorded
<1>2. /\ pack[p].copy \in Rows /\ pack[p].outcome \in Counters
      /\ row \in Rows /\ IdlePack \in PackStates
  BY <1>1, SomeCounters, PlusOne, IdleValues DEF Inv, TypeInv, PackType, PackStates
<1>3. ~ pack[p].foreign => \A c \in Counters : row[c] = auto[c] + Owed(p, c)
  <2> SUFFICES ASSUME ~ pack[p].foreign, NEW c \in Counters
               PROVE  row[c] = auto[c] + Owed(p, c)
    OBVIOUS
  <2>1. pack[p].copy = auto /\ auto[c] \in Nat
    BY <1>1, CountIsNat DEF Exact, CopiesCurrent, Busy, Inv, TypeInv, RowsType
  <2>2. CASE c = pack[p].outcome
    BY <1>1, <1>2, <2>1, <2>2, PlusOne DEF Owed
  <2>3. CASE c # pack[p].outcome
    <3>1. row[c] = auto[c] /\ Owed(p, c) = 0
      BY <1>1, <1>2, <2>1, <2>3, PlusOther DEF Owed
    <3> QED
      BY <2>1, <3>1
  <2> QED
    BY <2>2, <2>3
<1>4. CopiesCurrent' /\ Accounted'
  <2>1. IdlePack.pc = "idle" /\ pack[p].pc # "idle"
    BY <1>1 DEF IdlePack
  <2> QED
    BY <1>1, <1>2, <1>3, <2>1, PackPutsExact
<1>5. GateHolds'
  <2>1. pack' = [WithForeign(pack) EXCEPT ![p] = IdlePack]
    BY <1>1 DEF PutAuto
  <2>2. /\ pack'[p].outcome = ""
        /\ \A q \in Packers \ {p} : pack'[q].outcome = pack[q].outcome
    BY <2>1, ForeignPacks DEF IdlePack, Inv, TypeInv
  <2>3. CASE Mine(p) /\ work[Job].pc = "gate"
    <3>1. work'[Job].owner = work[Job].owner
      BY <1>1, <2>3, JobIsWorker, WorkerIs DEF WorkStates, Inv, TypeInv, WorkType
    <3>2. \A q \in Packers : [kind |-> "packer", packer |-> q].packer = q
      OBVIOUS
    <3>3. ASSUME NEW q \in Packers, Mine(q)'
          PROVE  FALSE
      <4>1. work[Job].owner = [kind |-> "packer", packer |-> p]
        BY <2>3 DEF Mine
      <4>2. work'[Job].owner = [kind |-> "packer", packer |-> q]
        BY <3>3 DEF Mine
      <4>3. q = p
        BY <3>1, <3>2, <4>1, <4>2
      <4> QED
        BY <2>2, <3>3, <4>3 DEF Mine
    <3> QED
      BY <3>3 DEF GateHolds
  <2>4. CASE ~ (Mine(p) /\ work[Job].pc = "gate")
    BY <1>1, <2>2, <2>4 DEF Exact, GateHolds, Mine
  <2> QED
    BY <2>3, <2>4
<1> QED
  BY <1>4, <1>5 DEF Exact

\* A put that fails, or a crash: what they lose is never found again.
LEMMA DisturbedExact ==
    ASSUME Inv, Exact, (\E p \in Packers : PutRaises(p)) \/ Crash
    PROVE  Exact'
<1>1. disturbed' = TRUE
  BY DEF PutRaises, Crash
<1>2. GateHolds' /\ CopiesCurrent'
  <2>1. CASE Crash
    <3>1. work'[Job].pc = "idle" /\ mark'.pc = "idle" /\ \A p \in Packers : ~ Busy(p)'
      BY <2>1, JobIsWorker DEF Crash, IdleWork, IdlePack, NoMark, Busy
    <3> QED
      BY <3>1 DEF GateHolds, CopiesCurrent
  <2>2. ASSUME NEW p \in Packers, PutRaises(p)
        PROVE  GateHolds' /\ CopiesCurrent'
    <3>1. /\ pack'[p].pc = "idle" /\ pack'[p].outcome = ""
          /\ \A q \in Packers \ {p} : pack'[q] = pack[q]
          /\ UNCHANGED <<auto, work, mark>>
      BY <2>2 DEF PutRaises, IdlePack, Inv, TypeInv, PackType
    <3> QED
      BY <3>1 DEF Exact, GateHolds, CopiesCurrent, Mine, Busy
  <2> QED
    BY <2>1, <2>2
<1> QED
  BY <1>1, <1>2 DEF Exact, Accounted, Doomed

\* Every other step leaves the row, its copies and what it counts alone.
LEMMA BesideExact ==
    ASSUME Inv, Exact, JobGoesOn, UNCHANGED <<auto, truth, pack, mark, disturbed>>
    PROVE  Exact'
BY GateKept, RowsKept DEF Exact

LEMMA ExactNext ==
    ASSUME Inv, Exact, [Next]_vars
    PROVE  Exact'
<1>1. ASSUME NEW p \in Packers, Pack(p)
      PROVE  Exact'
  BY <1>1, ObserveExact, DeclineExact, SubmitExact, ConcludeExact, DisturbedExact DEF Pack
<1>2. ASSUME NEW w \in Workers, Working(w)
      PROVE  Exact'
  <2>1. JobGoesOn
    BY <1>2, LoadGoesOn, PutTermGoesOn DEF Working
  <2>2. UNCHANGED <<auto, truth, pack, mark, disturbed>>
    BY <1>2 DEF Working, LoadLearned, LoadSearched, PutTerm
  <2> QED
    BY <2>1, <2>2, BesideExact
<1>3. CASE Run \/ RunRaises
  <2>1. CASE PlanRun
    <3>1. UNCHANGED <<auto, truth, pack, mark, disturbed>>
      BY <2>1 DEF PlanRun
    <3> QED
      BY <2>1, <3>1, PlanGoesOn, BesideExact
  <2> QED
    BY <1>2, <1>3, <2>1, JobIsWorker, RunMarksExact, LoadMarkExact, PutMarkExact DEF Run
<1>4. ASSUME NEW w \in Warmers, Manual(w)
      PROVE  Exact'
  <2>1. w \in Workers
    BY DEF Workers
  <2>2. CASE Working(w)
    BY <1>2, <2>1, <2>2
  <2>3. CASE BeginManual(w) \/ PlanManual(w) \/ FinishManual(w) \/ PutFails(w)
    <3>1. UNCHANGED <<auto, truth, pack, mark, disturbed>>
      BY <2>3 DEF BeginManual, PlanManual, FinishManual, PutFails
    <3> QED
      BY <2>3, <3>1, ManualGoesOn, BesideExact
  <2>4. ASSUME LearningFails(w) \/ \E t \in Terms : SearchFails(w, t)
        PROVE  Exact'
    <3>1. UNCHANGED <<auto, truth, pack, mark, disturbed>>
      BY <2>4 DEF LearningFails, SearchFails
    <3>2. JobGoesOn
      <4>1. CASE LearningFails(w)
        <5>1. work'[Job] = work[Job]
          BY <4>1, WarmupAssumption, JobIsWorker
             DEF LearningFails, Inv, TypeInv, WorkType
        <5> QED
          BY <5>1 DEF JobGoesOn
      <4> QED
        BY <2>1, <2>4, <4>1, LoadGoesOn
    <3> QED
      BY <3>1, <3>2, BesideExact
  <2> QED
    BY <1>4, <2>2, <2>3, <2>4 DEF Manual
<1>5. CASE Edit \/ Tick \/ UNCHANGED vars
  <2>1. JobGoesOn /\ UNCHANGED <<auto, truth, pack, mark, disturbed>>
    BY <1>5 DEF Edit, Tick, vars, JobGoesOn
  <2> QED
    BY <2>1, BesideExact
<1> QED
  BY <1>1, <1>3, <1>4, <1>5, DisturbedExact DEF Next

LEMMA ExactInvariant == Spec => []Exact
<1>1. Inv /\ Exact /\ [Next]_vars => Exact'
  BY ExactNext
<1> QED
  BY ExactInit, LearnInvariant, <1>1, PTL DEF Spec

\* The gate does its work: unless requests overlapped, a put failed, the wait timed out
\* or the process died, the auto-learning row says exactly what happened as soon as
\* nobody is changing it.  _auto_learn_mark_run never overwrites what the request that
\* started the run still has to put.
THEOREM CountsExactUndisturbed == Spec => []UndisturbedCountsAreExact
<1>1. Inv /\ Exact => UndisturbedCountsAreExact
  <2> SUFFICES ASSUME Inv, Exact, ~ disturbed, mark.pc = "idle",
                      \A p \in Packers : pack[p].pc = "idle"
               PROVE  auto = truth
    BY DEF UndisturbedCountsAreExact
  <2>1. ~ Doomed
    BY DEF Doomed, Busy
  <2>2. ASSUME NEW c \in Counters
        PROVE  auto[c] = truth[c]
    <3>1. auto[c] + Pending(c) = truth[c]
      BY <2>1 DEF Exact, Accounted, Short, Busy
    <3>2. auto[c] \in Nat /\ truth[c] \in Nat
      BY CountIsNat DEF Inv, TypeInv, RowsType
    <3>3. Pending(c) = 0
      BY DEF Pending
    <3> QED
      BY <3>1, <3>2, <3>3
  <2> QED
    BY <2>2 DEF Inv, TypeInv, RowsType, Rows
<1> QED
  BY <1>1, LearnInvariant, ExactInvariant, PTL

=============================================================================
