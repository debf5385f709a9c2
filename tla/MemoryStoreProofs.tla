-------------------------- MODULE MemoryStoreProofs --------------------------
(***************************************************************************)
(* Theorems about MemoryStore, for any number of writers, namespaces,      *)
(* names, texts and writes.                                                *)
(***************************************************************************)
EXTENDS MemoryStore, FunctionTheorems, FiniteSetTheorems, TLAPS

Kinds == {"entries", "summaries", "decisions"}
RowsOf(m, k) == IF k = "entries" THEN m.entries
                ELSE IF k = "summaries" THEN m.summaries ELSE m.decisions

Unique(rows) == \A i, j \in DOMAIN rows : rows[i].id = rows[j].id => i = j
Numbered(rows) == \A i \in DOMAIN rows : rows[i].number = i
OneRowEach(m) == Unique(m.entries) /\ Unique(m.summaries) /\ Numbered(m.decisions)

HoldsIn(m, op) ==
    \E k \in Kinds : \E i \in DOMAIN RowsOf(m, k) : RowsOf(m, k)[i].op = op

\* Every row was made by an answered write of its kind and its name.
FromLog(m, seen, log) ==
    \A k \in Kinds : \A i \in DOMAIN RowsOf(m, k) :
        \E j \in 1..seen : /\ log[j].op = RowsOf(m, k)[i].op
                           /\ log[j].kind = k
                           /\ log[j].id = RowsOf(m, k)[i].id

\* Every answered write up to the load is excused, held, or replaced by one held.
Covers(m, seen, log, lost) ==
    \A i \in 1..seen :
        \/ log[i].op \in lost
        \/ HoldsIn(m, log[i].op)
        \/ /\ log[i].kind # "decisions"
           /\ \E j \in i + 1 .. seen : /\ log[j].kind = log[i].kind
                                       /\ log[j].id = log[i].id
                                       /\ HoldsIn(m, log[j].op)

\* What is true of the row, and of every copy of it that a writer holds, up to the
\* number of answered writes its holder had seen.
Sound(m, seen, log, lost) ==
    /\ seen \in Nat /\ seen <= Len(log)
    /\ OneRowEach(m)
    /\ FromLog(m, seen, log)
    /\ Covers(m, seen, log, lost)

Distinct(log) == \A i, j \in DOMAIN log : log[i].op = log[j].op => i = j

\* A write's number is its own.
OpsApart ==
    /\ Distinct(acked)
    /\ \A i \in DOMAIN acked : acked[i].op <= ops
    /\ \A w \in Writers : job[w].pc # "idle" =>
        /\ job[w].request.op <= ops
        /\ \A i \in DOMAIN acked : acked[i].op # job[w].request.op
        /\ \A v \in Writers : job[v].pc # "idle" /\ v # w =>
              job[v].request.op # job[w].request.op

CopiesSound ==
    \A w \in Writers :
        job[w].pc = "save" => Sound(job[w].copy, job[w].seen, acked, excused)

Inv == TypeOK /\ OpsApart /\ CopiesSound /\ Sound(memory, Len(acked), acked, excused)

-----------------------------------------------------------------------------
(* The changes to a copy.                                                    *)

LEMMA Limits == MaxTime \in Nat /\ MaxOps \in Nat /\ CompactLifetime \in Nat
                /\ Lifetimes \subseteq Nat /\ Confidences \subseteq Nat /\ Default \in Nat
BY MemoryAssumption

LEMMA StoredIsSanitized == \A v \in Stored : v # Secret /\ Sanitized(v) = v
BY MemoryAssumption DEF Stored, Sanitized

LEMMA SanitizedIsStored == \A text \in Texts : Sanitized(text) \in Stored
BY MemoryAssumption DEF Stored, Sanitized

LEMMA FactsKept == ASSUME NEW rows \in Seq(Fact) PROVE Resanitized(rows) = rows
<1>1. ASSUME NEW i \in DOMAIN rows
      PROVE  [rows[i] EXCEPT !.value = Sanitized(@),
                             !.redacted = @ \/ rows[i].value = Secret] = rows[i]
  <2>1. rows[i] \in Fact
    OBVIOUS
  <2>2. rows[i].value # Secret /\ Sanitized(rows[i].value) = rows[i].value
    BY <2>1, StoredIsSanitized DEF Fact
  <2>3. (rows[i].redacted \/ rows[i].value = Secret) = rows[i].redacted
    BY <2>1, <2>2 DEF Fact
  <2> QED
    BY <2>1, <2>2, <2>3 DEF Fact
<1>2. Resanitized(rows) = [i \in DOMAIN rows |-> rows[i]]
  BY <1>1 DEF Resanitized
<1> QED
  BY <1>2

LEMMA DecisionsKept == ASSUME NEW rows \in Seq(Decision) PROVE Resanitized(rows) = rows
<1>1. ASSUME NEW i \in DOMAIN rows
      PROVE  [rows[i] EXCEPT !.value = Sanitized(@),
                             !.redacted = @ \/ rows[i].value = Secret] = rows[i]
  <2>1. rows[i] \in Decision
    OBVIOUS
  <2>2. rows[i].value # Secret /\ Sanitized(rows[i].value) = rows[i].value
    BY <2>1, StoredIsSanitized DEF Decision
  <2>3. (rows[i].redacted \/ rows[i].value = Secret) = rows[i].redacted
    BY <2>1, <2>2 DEF Decision
  <2> QED
    BY <2>1, <2>2, <2>3 DEF Decision
<1>2. Resanitized(rows) = [i \in DOMAIN rows |-> rows[i]]
  BY <1>1 DEF Resanitized
<1> QED
  BY <1>2

\* Every write adds a row, or puts one in the place of the row of its name, and
\* leaves all other rows alone.
RowsAfter(old, new, r) ==
    /\ \E i \in DOMAIN new : new[i].op = r.op /\ new[i].id = r.id
    /\ \A i \in DOMAIN old : /\ i \in DOMAIN new
                             /\ new[i] = old[i] \/ (old[i].id = r.id /\ r.kind # "decisions")
    /\ \A i \in DOMAIN new : \/ new[i].op = r.op /\ new[i].id = r.id
                             \/ i \in DOMAIN old /\ new[i] = old[i]

LEMMA NewFactIs ==
    ASSUME clock \in Nat, NEW r \in Request, NEW created \in Nat
    PROVE  /\ NewFact(r, created) \in Fact
           /\ NewFact(r, created).op = r.op /\ NewFact(r, created).id = r.id
<1>1. ExpiresAt(r.ttl) \in Expiry
  BY DEF ExpiresAt, Expiry, Request
<1> QED
  BY <1>1 DEF NewFact, Fact, Request

LEMMA UpsertedRows ==
    ASSUME clock \in Nat, NEW rows \in Seq(Fact), Unique(rows), NEW r \in Request,
           r.kind # "decisions"
    PROVE  /\ Upserted(rows, r) \in Seq(Fact)
           /\ Unique(Upserted(rows, r))
           /\ RowsAfter(rows, Upserted(rows, r), r)
<1> DEFINE hits == {i \in DOMAIN rows : rows[i].id = r.id}
<1>1. CASE hits = {}
  <2> DEFINE new == NewFact(r, clock)
  <2>1. new \in Fact /\ new.op = r.op /\ new.id = r.id
    BY NewFactIs
  <2>2. Upserted(rows, r) = Append(rows, new)
    BY <1>1 DEF Upserted
  <2> HIDE DEF new
  <2>3. /\ Append(rows, new) \in Seq(Fact) /\ Len(Append(rows, new)) = Len(rows) + 1
        /\ Append(rows, new)[Len(rows) + 1] = new
        /\ \A i \in DOMAIN rows : i \in DOMAIN Append(rows, new)
                                  /\ Append(rows, new)[i] = rows[i]
        /\ \A i \in DOMAIN Append(rows, new) : i \in DOMAIN rows \/ i = Len(rows) + 1
        /\ Len(rows) + 1 \in DOMAIN Append(rows, new)
    BY <2>1
  <2>4. \A i \in DOMAIN rows : rows[i].id # r.id
    BY <1>1
  <2> QED
    BY <2>1, <2>2, <2>3, <2>4 DEF Unique, RowsAfter
<1>2. CASE hits # {}
  <2>1. PICK k \in DOMAIN rows : rows[k].id = r.id
    BY <1>2
  <2>2. \A i \in DOMAIN rows : rows[i].id = r.id => i = k
    BY <2>1 DEF Unique
  <2>3. hits = {k} /\ k \in Nat
    BY <2>1, <2>2
  <2>4. (CHOOSE i \in hits : \A j \in hits : i <= j) = k
    BY <2>3
  <2> DEFINE new == NewFact(r, rows[k].created)
  <2>5. rows[k] \in Fact /\ rows[k].created \in Nat
    <3>1. rows[k] \in Fact
      BY <2>1
    <3> QED
      BY <3>1 DEF Fact
  <2>6. new \in Fact /\ new.op = r.op /\ new.id = r.id
    BY <2>5, NewFactIs
  <2>7. Upserted(rows, r) = [rows EXCEPT ![k] = new]
    BY <1>2, <2>4 DEF Upserted
  <2> HIDE DEF new
  <2>8. /\ [rows EXCEPT ![k] = new] \in Seq(Fact)
        /\ DOMAIN [rows EXCEPT ![k] = new] = DOMAIN rows
        /\ [rows EXCEPT ![k] = new][k] = new
        /\ \A i \in DOMAIN rows \ {k} : [rows EXCEPT ![k] = new][i] = rows[i]
    BY <2>1, <2>6
  <2> QED
    BY <2>1, <2>2, <2>6, <2>7, <2>8 DEF Unique, RowsAfter
<1> QED
  BY <1>1, <1>2

LEMMA RecordedRows ==
    ASSUME clock \in Nat, NEW rows \in Seq(Decision), Numbered(rows), NEW r \in Request
    PROVE  /\ Recorded(rows, r) \in Seq(Decision)
           /\ Numbered(Recorded(rows, r))
           /\ RowsAfter(rows, Recorded(rows, r), r)
<1> DEFINE new == [number |-> Len(rows) + 1, id |-> r.id, value |-> r.value,
                   redacted |-> r.redacted, human |-> r.human,
                   confidence |-> r.confidence, updated |-> clock,
                   expires |-> ExpiresAt(r.ttl), op |-> r.op]
<1>1. ExpiresAt(r.ttl) \in Expiry
  BY DEF ExpiresAt, Expiry, Request
<1>2. /\ new \in Decision /\ new.op = r.op /\ new.id = r.id
      /\ new.number = Len(rows) + 1
  BY <1>1 DEF Decision, Request
<1>3. Recorded(rows, r) = Append(rows, new)
  BY DEF Recorded
<1> HIDE DEF new
<1>4. /\ Append(rows, new) \in Seq(Decision) /\ Len(Append(rows, new)) = Len(rows) + 1
      /\ Append(rows, new)[Len(rows) + 1] = new
      /\ \A i \in DOMAIN rows : i \in DOMAIN Append(rows, new)
                                /\ Append(rows, new)[i] = rows[i]
      /\ \A i \in DOMAIN Append(rows, new) : i \in DOMAIN rows \/ i = Len(rows) + 1
      /\ Len(rows) + 1 \in DOMAIN Append(rows, new)
  BY <1>2
<1> QED
  BY <1>2, <1>3, <1>4 DEF Numbered, RowsAfter

LEMMA ChangedRows ==
    ASSUME clock \in Nat, NEW m \in Memory, OneRowEach(m), NEW r \in Request
    PROVE  /\ Changed(m, r) \in Memory /\ OneRowEach(Changed(m, r))
           /\ RowsAfter(RowsOf(m, r.kind), RowsOf(Changed(m, r), r.kind), r)
           /\ \A k \in Kinds \ {r.kind} : RowsOf(Changed(m, r), k) = RowsOf(m, k)
<1>1. /\ m.entries \in Seq(Fact) /\ m.summaries \in Seq(Fact)
      /\ m.decisions \in Seq(Decision)
      /\ m = [entries |-> m.entries, summaries |-> m.summaries, decisions |-> m.decisions]
  BY DEF Memory
<1>2. r.kind \in Kinds
  BY DEF Request, Kinds
<1>3. CASE r.kind = "entries"
  <2> DEFINE rows == Upserted(m.entries, r)
  <2>1. rows \in Seq(Fact) /\ Unique(rows) /\ RowsAfter(m.entries, rows, r)
    BY <1>1, <1>3, UpsertedRows DEF OneRowEach
  <2>2. Changed(m, r) = SavedForm([m EXCEPT !.entries = rows])
    BY <1>3 DEF Changed
  <2> HIDE DEF rows
  <2>3. [m EXCEPT !.entries = rows]
          = [entries |-> rows, summaries |-> m.summaries, decisions |-> m.decisions]
    BY <1>1
  <2>4. Changed(m, r)
          = [entries |-> rows, summaries |-> m.summaries, decisions |-> m.decisions]
    BY <1>1, <2>1, <2>2, <2>3, FactsKept, DecisionsKept DEF SavedForm
  <2> QED
    BY <1>1, <1>3, <2>1, <2>4 DEF OneRowEach, Memory, RowsOf, Kinds
<1>4. CASE r.kind = "summaries"
  <2> DEFINE rows == Upserted(m.summaries, r)
  <2>1. rows \in Seq(Fact) /\ Unique(rows) /\ RowsAfter(m.summaries, rows, r)
    BY <1>1, <1>4, UpsertedRows DEF OneRowEach
  <2>2. Changed(m, r) = SavedForm([m EXCEPT !.summaries = rows])
    BY <1>4 DEF Changed
  <2> HIDE DEF rows
  <2>3. [m EXCEPT !.summaries = rows]
          = [entries |-> m.entries, summaries |-> rows, decisions |-> m.decisions]
    BY <1>1
  <2>4. Changed(m, r)
          = [entries |-> m.entries, summaries |-> rows, decisions |-> m.decisions]
    BY <1>1, <2>1, <2>2, <2>3, FactsKept, DecisionsKept DEF SavedForm
  <2> QED
    BY <1>1, <1>4, <2>1, <2>4 DEF OneRowEach, Memory, RowsOf, Kinds
<1>5. CASE r.kind = "decisions"
  <2> DEFINE rows == Recorded(m.decisions, r)
  <2>1. rows \in Seq(Decision) /\ Numbered(rows) /\ RowsAfter(m.decisions, rows, r)
    BY <1>1, RecordedRows DEF OneRowEach
  <2>2. Changed(m, r) = SavedForm([m EXCEPT !.decisions = rows])
    BY <1>5 DEF Changed
  <2> HIDE DEF rows
  <2>3. [m EXCEPT !.decisions = rows]
          = [entries |-> m.entries, summaries |-> m.summaries, decisions |-> rows]
    BY <1>1
  <2>4. Changed(m, r)
          = [entries |-> m.entries, summaries |-> m.summaries, decisions |-> rows]
    BY <1>1, <2>1, <2>2, <2>3, FactsKept, DecisionsKept DEF SavedForm
  <2> QED
    BY <1>1, <1>5, <2>1, <2>4 DEF OneRowEach, Memory, RowsOf, Kinds
<1> QED
  BY <1>2, <1>3, <1>4, <1>5 DEF Kinds

-----------------------------------------------------------------------------
(* The writes answered so far.                                               *)

LEMMA LogGrows ==
    ASSUME NEW log \in Seq(Request), NEW r \in Request
    PROVE  /\ Append(log, r) \in Seq(Request) /\ Len(Append(log, r)) = Len(log) + 1
           /\ Append(log, r)[Len(log) + 1] = r
           /\ \A i \in 1..Len(log) : Append(log, r)[i] = log[i]
           /\ DOMAIN log = 1..Len(log) /\ DOMAIN Append(log, r) = 1 .. Len(log) + 1
           /\ Len(log) \in Nat
OBVIOUS

\* What is sound stays so when another write is answered.
LEMMA SoundGrows ==
    ASSUME NEW log \in Seq(Request), NEW r \in Request, NEW m, NEW seen, NEW lost,
           NEW lost2, lost \subseteq lost2, Sound(m, seen, log, lost)
    PROVE  Sound(m, seen, Append(log, r), lost2)
<1> DEFINE log2 == Append(log, r)
<1>1. Len(log2) = Len(log) + 1 /\ Len(log) \in Nat
      /\ \A i \in 1..Len(log) : log2[i] = log[i]
  BY LogGrows
<1> HIDE DEF log2
<1>2. seen \in Nat /\ seen <= Len(log)
  BY DEF Sound
<1>3. \A i \in 1..seen : log2[i] = log[i]
  BY <1>1, <1>2
<1>4. FromLog(m, seen, log2)
  BY <1>3 DEF Sound, FromLog
<1>5. Covers(m, seen, log2, lost2)
  <2> SUFFICES ASSUME NEW i \in 1..seen
               PROVE  \/ log[i].op \in lost2
                      \/ HoldsIn(m, log[i].op)
                      \/ /\ log[i].kind # "decisions"
                         /\ \E j \in i + 1 .. seen : /\ log2[j].kind = log[i].kind
                                                     /\ log2[j].id = log[i].id
                                                     /\ HoldsIn(m, log2[j].op)
    BY <1>3 DEF Covers
  <2>1. \A j \in i + 1 .. seen : j \in 1..seen
    BY <1>2
  <2> QED
    BY <1>3, <2>1 DEF Sound, Covers
<1>6. seen <= Len(log2)
  BY <1>1, <1>2
<1> QED
  BY <1>2, <1>4, <1>5, <1>6 DEF Sound, log2

\* A save: what the writer had seen stays covered, for a row that it replaces is of
\* its own kind and name; what it had not seen is excused.
LEMMA SoundSaved ==
    ASSUME clock \in Nat, NEW log \in Seq(Request), Distinct(log),
           NEW m \in Memory, NEW seen, NEW lost, Sound(m, seen, log, lost),
           NEW r \in Request, \A i \in DOMAIN log : log[i].op # r.op,
           NEW lost2, lost2 = lost \cup {log[i].op : i \in seen + 1 .. Len(log)}
    PROVE  /\ Changed(m, r) \in Memory
           /\ Sound(Changed(m, r), Len(log) + 1, Append(log, r), lost2)
<1> DEFINE log2 == Append(log, r)
           new == Changed(m, r)
           n == Len(log) + 1
<1>1. /\ Len(log2) = n /\ log2[n] = r /\ n \in Nat /\ n \in 1..n
      /\ \A i \in 1..Len(log) : log2[i] = log[i]
      /\ \A i \in 1..n : i \in 1..Len(log) \/ i = n
      /\ DOMAIN log = 1..Len(log) /\ Len(log) \in Nat
  BY LogGrows
<1>2. /\ seen \in Nat /\ seen <= Len(log) /\ OneRowEach(m)
      /\ FromLog(m, seen, log) /\ Covers(m, seen, log, lost)
  BY DEF Sound
<1>3. /\ new \in Memory /\ OneRowEach(new)
      /\ RowsAfter(RowsOf(m, r.kind), RowsOf(new, r.kind), r)
      /\ \A k \in Kinds \ {r.kind} : RowsOf(new, k) = RowsOf(m, k)
  BY <1>2, ChangedRows
<1>4. r.kind \in Kinds
  BY DEF Request, Kinds
<1>5. \A i \in 1..seen : log2[i] = log[i] /\ i \in 1..Len(log) /\ i \in 1..n
  BY <1>1, <1>2
<1> HIDE DEF log2, new, n
<1>6. HoldsIn(new, r.op)
  BY <1>3, <1>4 DEF RowsAfter, HoldsIn
<1>7. FromLog(new, n, log2)
  <2> SUFFICES ASSUME NEW k \in Kinds, NEW i \in DOMAIN RowsOf(new, k)
               PROVE  \E j \in 1..n : /\ log2[j].op = RowsOf(new, k)[i].op
                                      /\ log2[j].kind = k
                                      /\ log2[j].id = RowsOf(new, k)[i].id
    BY DEF FromLog
  <2>1. CASE k = r.kind /\ RowsOf(new, k)[i].op = r.op /\ RowsOf(new, k)[i].id = r.id
    BY <1>1, <2>1
  <2>2. CASE i \in DOMAIN RowsOf(m, k) /\ RowsOf(new, k)[i] = RowsOf(m, k)[i]
    <3>1. PICK j \in 1..seen : /\ log[j].op = RowsOf(m, k)[i].op
                               /\ log[j].kind = k
                               /\ log[j].id = RowsOf(m, k)[i].id
      BY <1>2, <2>2 DEF FromLog
    <3> QED
      BY <1>5, <2>2, <3>1
  <2> QED
    BY <1>3, <2>1, <2>2 DEF RowsAfter
\* An answered write that was held is held still, or this one took its place.
<1>8. ASSUME NEW i \in 1..seen, HoldsIn(m, log[i].op)
      PROVE  \/ HoldsIn(new, log[i].op)
             \/ log[i].kind = r.kind /\ log[i].id = r.id /\ r.kind # "decisions"
  <2>1. PICK k \in Kinds : \E x \in DOMAIN RowsOf(m, k) : RowsOf(m, k)[x].op = log[i].op
    BY <1>8 DEF HoldsIn
  <2>2. PICK x \in DOMAIN RowsOf(m, k) : RowsOf(m, k)[x].op = log[i].op
    BY <2>1
  <2>3. PICK j \in 1..seen : /\ log[j].op = RowsOf(m, k)[x].op
                             /\ log[j].kind = k /\ log[j].id = RowsOf(m, k)[x].id
    BY <1>2 DEF FromLog
  <2>4. i = j
    BY <1>1, <1>5, <2>2, <2>3 DEF Distinct
  <2>5. CASE k # r.kind
    BY <1>3, <2>2, <2>5 DEF HoldsIn
  <2>6. CASE k = r.kind
    <3>1. \/ x \in DOMAIN RowsOf(new, k) /\ RowsOf(new, k)[x] = RowsOf(m, k)[x]
          \/ RowsOf(m, k)[x].id = r.id /\ r.kind # "decisions"
      BY <1>3, <2>6 DEF RowsAfter
    <3> QED
      BY <2>2, <2>3, <2>4, <2>6, <3>1 DEF HoldsIn
  <2> QED
    BY <2>5, <2>6
<1>9. Covers(new, n, log2, lost2)
  <2> DEFINE Covered(i) ==
        \/ log2[i].op \in lost2
        \/ HoldsIn(new, log2[i].op)
        \/ /\ log2[i].kind # "decisions"
           /\ \E j \in i + 1 .. n : /\ log2[j].kind = log2[i].kind
                                    /\ log2[j].id = log2[i].id
                                    /\ HoldsIn(new, log2[j].op)
  <2>1. Covered(n)
    BY <1>1, <1>6
  <2>2. ASSUME NEW i \in seen + 1 .. Len(log)
        PROVE  Covered(i)
    <3>1. log2[i] = log[i]
      BY <1>1, <1>2
    <3>2. log[i].op \in lost2
      OBVIOUS
    <3> QED
      BY <3>1, <3>2
  <2>3. ASSUME NEW i \in 1..seen
        PROVE  Covered(i)
    <3>1. log2[i] = log[i] /\ n \in i + 1 .. n
      BY <1>1, <1>2, <1>5 DEF n
    <3>2. \A j \in i + 1 .. seen : j \in 1..seen /\ j \in i + 1 .. n
      BY <1>1, <1>2 DEF n
    <3>3. CASE log[i].op \in lost
      BY <3>1, <3>3
    <3>4. CASE HoldsIn(m, log[i].op)
      <4>1. CASE HoldsIn(new, log[i].op)
        BY <3>1, <4>1
      <4>2. CASE log[i].kind = r.kind /\ log[i].id = r.id /\ r.kind # "decisions"
        BY <1>1, <1>6, <3>1, <4>2
      <4> QED
        BY <1>8, <3>4, <4>1, <4>2
    <3>5. CASE /\ log[i].kind # "decisions"
               /\ \E j \in i + 1 .. seen : /\ log[j].kind = log[i].kind
                                           /\ log[j].id = log[i].id
                                           /\ HoldsIn(m, log[j].op)
      <4>1. PICK j \in i + 1 .. seen : /\ log[j].kind = log[i].kind
                                       /\ log[j].id = log[i].id
                                       /\ HoldsIn(m, log[j].op)
        BY <3>5
      <4>2. j \in 1..seen /\ j \in i + 1 .. n /\ log2[j] = log[j]
        BY <1>5, <3>2
      <4>3. CASE HoldsIn(new, log[j].op)
        BY <3>1, <3>5, <4>1, <4>2, <4>3
      <4>4. CASE log[j].kind = r.kind /\ log[j].id = r.id
        BY <1>1, <1>6, <3>1, <3>5, <4>1, <4>4
      <4> QED
        BY <1>8, <4>1, <4>2, <4>3, <4>4
    <3> QED
      BY <1>2, <3>3, <3>4, <3>5 DEF Covers
  <2>4. \A i \in 1..n : i \in 1..seen \/ i \in seen + 1 .. Len(log) \/ i = n
    BY <1>1, <1>2
  <2>5. \A i \in 1..n : Covered(i)
    BY <2>1, <2>2, <2>3, <2>4
  <2> QED
    BY <2>5 DEF Covers
<1> QED
  BY <1>1, <1>3, <1>7, <1>9 DEF Sound, log2, new, n

-----------------------------------------------------------------------------
(* The steps.                                                                *)

Requests == Request \cup CompactRequest

LEMMA JobIs ==
    ASSUME TypeOK, NEW w \in Writers
    PROVE  /\ job[w] \in Jobs
           /\ job[w].pc \in {"idle", "load", "save"}
           /\ job[w].pc = "idle" => job[w] = Idle
           /\ job[w].pc # "idle" => job[w].request \in Requests
           /\ job[w].pc = "load" /\ job[w].request.kind # "compact" =>
                job[w].request \in Request
           /\ job[w].pc = "save" => /\ job[w].request \in Request
                                    /\ job[w].copy \in Memory /\ job[w].seen \in Nat
<1>1. job[w] \in Jobs
  BY DEF TypeOK
<1>2. \A r \in CompactRequest : r.kind = "compact"
  BY DEF CompactRequest
<1>3. CASE job[w] = Idle
  BY <1>1, <1>3 DEF Idle
<1>4. CASE job[w] \in [pc : {"load"}, request : Request \cup CompactRequest]
  BY <1>1, <1>2, <1>4 DEF Requests
<1>5. CASE job[w] \in [pc : {"save"}, request : Request, copy : Memory, seen : Nat]
  BY <1>1, <1>5 DEF Requests
<1> QED
  BY <1>1, <1>3, <1>4, <1>5 DEF Jobs

LEMMA IdleIs == Idle \in Jobs /\ Idle.pc = "idle"
BY DEF Jobs, Idle

LEMMA LoadingIs ==
    ASSUME NEW r \in Requests
    PROVE  /\ Loading(r) \in Jobs /\ Loading(r).pc = "load" /\ Loading(r).request = r
           /\ Loading(r) # Idle
BY DEF Loading, Jobs, Requests, Idle

LEMMA SavingIs ==
    ASSUME NEW r \in Request, NEW m \in Memory, NEW seen \in Nat
    PROVE  /\ Saving(r, m, seen) \in Jobs /\ Saving(r, m, seen).pc = "save"
           /\ Saving(r, m, seen).request = r /\ Saving(r, m, seen).copy = m
           /\ Saving(r, m, seen).seen = seen
BY DEF Saving, Jobs

LEMMA ClockIsNat == TypeOK => clock \in Nat /\ ops \in Nat
BY Limits DEF TypeOK

LEMMA RequestOp == \A r \in Requests : r.op \in Nat /\ r.op \in Op
BY Limits DEF Requests, Request, CompactRequest, Op

LEMMA MemoryInit == Init => Inv
<1> SUFFICES ASSUME Init PROVE Inv
  OBVIOUS
<1>1. Empty \in Memory /\ OneRowEach(Empty)
  BY DEF Empty, Memory, OneRowEach, Unique, Numbered
<1>2. TypeOK
  BY <1>1, Limits, IdleIs DEF Init, TypeOK
<1>3. \A w \in Writers : job[w].pc = "idle"
  BY IdleIs DEF Init
<1>4. OpsApart /\ CopiesSound
  BY <1>3 DEF Init, OpsApart, Distinct, CopiesSound
<1>5. Sound(memory, Len(acked), acked, excused)
  <2>1. acked = <<>> /\ Len(acked) = 0 /\ memory = Empty
    BY DEF Init
  <2>2. \A k \in Kinds : DOMAIN RowsOf(Empty, k) = {}
    BY DEF Kinds, RowsOf, Empty
  <2> QED
    BY <1>1, <2>1, <2>2 DEF Sound, FromLog, Covers
<1> QED
  BY <1>2, <1>4, <1>5 DEF Inv

\* A step that answers nothing: a writer turns to something whose number is its
\* own, new or old.
LEMMA JobStep ==
    ASSUME Inv, NEW w \in Writers, NEW new \in Jobs, job' = [job EXCEPT ![w] = new],
           ops' \in 0..MaxOps, ops <= ops',
           new.pc # "idle" =>
               \/ job[w].pc # "idle" /\ new.request.op = job[w].request.op
               \/ new.request.op = ops + 1 /\ ops' = ops + 1,
           new.pc = "save" => Sound(new.copy, new.seen, acked, excused),
           UNCHANGED <<memory, clock, acked, excused>>
    PROVE  Inv'
<1>1. TypeOK'
  BY DEF Inv, TypeOK
<1>2. /\ job'[w] = new /\ \A v \in Writers \ {w} : job'[v] = job[v]
      /\ ops \in Nat /\ ops' \in Nat
  BY Limits DEF Inv, TypeOK
<1>3. /\ \A i \in DOMAIN acked : acked[i].op \in Nat /\ acked[i].op <= ops
      /\ \A v \in Writers : job[v].pc # "idle" =>
            job[v].request.op \in Nat /\ job[v].request.op <= ops
  <2>1. \A i \in DOMAIN acked : acked[i] \in Requests
    BY DEF Inv, TypeOK, Requests
  <2>2. \A v \in Writers : job[v].pc # "idle" => job[v].request \in Requests
    BY JobIs DEF Inv
  <2> QED
    BY <2>1, <2>2, RequestOp DEF Inv, OpsApart
<1>4. OpsApart'
  <2>1. Distinct(acked') /\ \A i \in DOMAIN acked : acked[i].op <= ops'
    BY <1>2, <1>3 DEF Inv, OpsApart
  <2>2. ASSUME new.pc # "idle"
        PROVE  /\ new.request.op <= ops'
               /\ \A i \in DOMAIN acked : acked[i].op # new.request.op
               /\ \A v \in Writers \ {w} : job[v].pc # "idle" =>
                     job[v].request.op # new.request.op
    <3>1. CASE job[w].pc # "idle" /\ new.request.op = job[w].request.op
      BY <1>2, <1>3, <3>1 DEF Inv, OpsApart
    <3>2. CASE new.request.op = ops + 1 /\ ops' = ops + 1
      BY <1>2, <1>3, <3>2
    <3> QED
      BY <2>2, <3>1, <3>2
  <2>3. ASSUME NEW v \in Writers \ {w}, job[v].pc # "idle"
        PROVE  /\ job[v].request.op <= ops'
               /\ \A i \in DOMAIN acked : acked[i].op # job[v].request.op
               /\ \A u \in Writers \ {w} : job[u].pc # "idle" /\ u # v =>
                     job[u].request.op # job[v].request.op
    BY <1>2, <1>3, <2>3 DEF Inv, OpsApart
  <2> QED
    BY <1>2, <2>1, <2>2, <2>3 DEF OpsApart
<1>5. CopiesSound'
  BY <1>2 DEF Inv, CopiesSound
<1>6. Sound(memory, Len(acked), acked, excused)'
  BY DEF Inv
<1> QED
  BY <1>1, <1>4, <1>5, <1>6 DEF Inv

LEMMA BeginStep ==
    ASSUME Inv, NEW w \in Writers, Begin(w) \/ BeginCompact(w)
    PROVE  Inv'
<1>1. /\ job[w] = Idle /\ ops < MaxOps /\ ops' = ops + 1 /\ ops \in Nat
      /\ UNCHANGED <<memory, clock, acked, excused>>
  BY ClockIsNat DEF Begin, BeginCompact, Inv
<1>2. ops + 1 \in Op /\ ops' \in 0..MaxOps /\ ops <= ops'
  BY <1>1, Limits DEF Op
<1>3. PICK r \in Requests : r.op = ops + 1 /\ job' = [job EXCEPT ![w] = Loading(r)]
  <2>1. CASE Begin(w)
    <3> PICK ns \in Namespaces, name \in Names, text \in Texts, c \in Confidences,
             ttl \in Lifetimes \cup {NoExpiry},
             kind \in {"entries", "summaries", "decisions"}, human \in BOOLEAN :
          /\ SafeIdentifiers(<<ns, name>>)
          /\ kind # "decisions" => ~ human /\ c = Default
          /\ job' = [job EXCEPT ![w] = Loading(
               [kind |-> kind, id |-> <<ns, name>>, value |-> Sanitized(text),
                redacted |-> text = Secret, human |-> human, confidence |-> c,
                ttl |-> ttl, op |-> ops + 1])]
      BY <2>1, Zenon DEF Begin
    <3> DEFINE r == [kind |-> kind, id |-> <<ns, name>>, value |-> Sanitized(text),
                     redacted |-> text = Secret, human |-> human, confidence |-> c,
                     ttl |-> ttl, op |-> ops + 1]
    <3>1. /\ <<ns, name>> \in Ids /\ Sanitized(text) \in Stored
          /\ (text = Secret) \in BOOLEAN /\ c \in Nat /\ ttl \in Expiry
      BY Limits, SanitizedIsStored DEF Ids, Expiry
    <3>2. r \in Request /\ r.op = ops + 1
      BY <1>2, <3>1 DEF Request
    <3> QED
      BY <3>2 DEF Requests
  <2>2. CASE BeginCompact(w)
    <3> PICK ns \in Namespaces \cup {Global} :
          job' = [job EXCEPT ![w] =
                     Loading([kind |-> "compact", scope |-> ns, op |-> ops + 1])]
      BY <2>2 DEF BeginCompact
    <3>1. [kind |-> "compact", scope |-> ns, op |-> ops + 1] \in CompactRequest
      BY <1>2 DEF CompactRequest
    <3> QED
      BY <3>1 DEF Requests
  <2> QED
    BY <2>1, <2>2
<1> QED
  BY <1>1, <1>2, <1>3, LoadingIs, JobStep

LEMMA LoadStep ==
    ASSUME Inv, NEW w \in Writers, Load(w)
    PROVE  Inv'
<1>1. /\ job[w].pc = "load" /\ job[w].request \in Request
      /\ job' = [job EXCEPT ![w] = Saving(job[w].request, memory, Len(acked))]
      /\ UNCHANGED <<memory, clock, ops, acked, excused>>
  BY JobIs DEF Load, Inv
<1>2. /\ memory \in Memory /\ Len(acked) \in Nat /\ ops \in 0..MaxOps /\ ops \in Nat
  BY ClockIsNat DEF Inv, TypeOK
<1>3. Sound(memory, Len(acked), acked, excused)
  BY DEF Inv
<1> DEFINE new == Saving(job[w].request, memory, Len(acked))
<1>4. /\ new \in Jobs /\ new.pc = "save" /\ new.request = job[w].request
      /\ new.copy = memory /\ new.seen = Len(acked)
  BY <1>1, <1>2, SavingIs
<1>5. ops' \in 0..MaxOps /\ ops <= ops' /\ job[w].pc # "idle"
      /\ job' = [job EXCEPT ![w] = new]
  BY <1>1, <1>2
<1> HIDE DEF new
<1> QED
  BY <1>1, <1>3, <1>4, <1>5, JobStep

LEMMA CompactStep ==
    ASSUME Inv, NEW w \in Writers, CompactDeclines(w) \/ CompactProceeds(w)
    PROVE  Inv'
<1>1. /\ job[w].pc = "load" /\ job[w].request.kind = "compact"
      /\ job[w].request \in Requests
      /\ UNCHANGED <<memory, clock, ops, acked, excused>>
  BY JobIs DEF CompactDeclines, CompactProceeds, Inv
<1>2. ops \in Nat /\ ops' \in 0..MaxOps /\ ops <= ops'
  BY <1>1, ClockIsNat DEF Inv, TypeOK
<1>3. CASE job' = [job EXCEPT ![w] = Idle]
  <2>1. PICK new \in Jobs : new = Idle /\ new.pc = "idle"
    BY IdleIs
  <2>2. job' = [job EXCEPT ![w] = new] /\ new.pc # "save"
    BY <1>3, <2>1
  <2> QED
    BY <1>1, <1>2, <2>1, <2>2, JobStep
<1>4. CASE CompactProceeds(w)
  <2> DEFINE r == [kind |-> "summaries", id |-> <<job[w].request.scope, AutoCompact>>,
                   value |-> Digest, redacted |-> FALSE, human |-> FALSE,
                   confidence |-> Default, ttl |-> CompactLifetime,
                   op |-> job[w].request.op]
  <2>1. job[w].request \in CompactRequest
    BY <1>1 DEF Requests, Request
  <2>2. r \in Request /\ r.op = job[w].request.op
    <3>1. <<job[w].request.scope, AutoCompact>> \in Ids /\ job[w].request.op \in Op
      BY <2>1 DEF CompactRequest, Ids
    <3>2. Digest \in Stored /\ Default \in Nat /\ CompactLifetime \in Expiry
      BY Limits DEF Stored, Expiry
    <3> QED
      BY <3>1, <3>2 DEF Request
  <2>3. job' = [job EXCEPT ![w] = Loading(r)]
    BY <1>4 DEF CompactProceeds
  <2> HIDE DEF r
  <2>4. /\ Loading(r) \in Jobs /\ Loading(r).pc = "load" /\ Loading(r).request = r
    BY <2>2, LoadingIs DEF Requests
  <2>5. PICK new \in Jobs : new = Loading(r)
    BY <2>4
  <2> QED
    BY <1>1, <1>2, <2>2, <2>3, <2>4, <2>5, JobStep
<1> QED
  BY <1>3, <1>4 DEF CompactDeclines

LEMMA SaveStep ==
    ASSUME Inv, NEW w \in Writers, Save(w)
    PROVE  Inv'
<1> DEFINE r == job[w].request
           m == job[w].copy
           seen == job[w].seen
<1>1. /\ job[w].pc = "save" /\ r \in Request /\ m \in Memory /\ seen \in Nat
      /\ memory' = Changed(m, r)
      /\ acked' = Append(acked, r)
      /\ excused' = excused \cup {acked[i].op : i \in seen + 1 .. Len(acked)}
      /\ job' = [job EXCEPT ![w] = Idle]
      /\ UNCHANGED <<clock, ops>>
  BY JobIs DEF Save, Inv
<1>2. /\ clock \in Nat /\ ops \in Nat /\ acked \in Seq(Request) /\ Distinct(acked)
      /\ Sound(m, seen, acked, excused)
      /\ \A i \in DOMAIN acked : acked[i].op # r.op
      /\ r.op <= ops
  BY <1>1, ClockIsNat DEF Inv, TypeOK, OpsApart, CopiesSound
<1>3. /\ job'[w] = Idle /\ \A v \in Writers \ {w} : job'[v] = job[v]
  BY <1>1 DEF Inv, TypeOK
<1> HIDE DEF r, m, seen
<1>4. /\ memory' \in Memory
      /\ Sound(Changed(m, r), Len(acked) + 1, Append(acked, r), excused')
  BY <1>1, <1>2, SoundSaved
<1>5. /\ acked' \in Seq(Request) /\ Len(acked') = Len(acked) + 1
      /\ acked'[Len(acked) + 1] = r
      /\ \A i \in DOMAIN acked : acked'[i] = acked[i]
      /\ \A i \in DOMAIN acked' : i \in DOMAIN acked \/ i = Len(acked) + 1
  BY <1>1, <1>2, LogGrows
<1>6. TypeOK'
  <2>1. excused' \subseteq Op
    <3>1. \A i \in 1..Len(acked) : acked[i].op \in Op
      <4>1. \A i \in 1..Len(acked) : acked[i] \in Request
        BY <1>2
      <4> QED
        BY <4>1 DEF Request
    <3>2. \A i \in seen + 1 .. Len(acked) : i \in 1..Len(acked)
      BY <1>1, <1>2
    <3>3. \A e \in {acked[i].op : i \in seen + 1 .. Len(acked)} : e \in Op
      BY <3>1, <3>2
    <3>4. excused \subseteq Op
      BY DEF Inv, TypeOK
    <3> QED
      BY <1>1, <3>3, <3>4
  <2> QED
    BY <1>1, <1>4, <1>5, <2>1, IdleIs DEF Inv, TypeOK
<1>7. OpsApart'
  <2>1. Distinct(acked') /\ \A i \in DOMAIN acked' : acked'[i].op <= ops'
    BY <1>1, <1>2, <1>5 DEF Distinct, Inv, OpsApart
  <2>2. ASSUME NEW v \in Writers, job'[v].pc # "idle"
        PROVE  /\ v # w /\ job'[v] = job[v] /\ job[v].request.op # r.op
    BY <1>1, <1>3, <2>2, IdleIs DEF Inv, OpsApart, r
  <2> QED
    BY <1>1, <1>5, <2>1, <2>2 DEF Inv, OpsApart
<1>8. CopiesSound'
  <2> SUFFICES ASSUME NEW v \in Writers, job'[v].pc = "save"
               PROVE  Sound(job'[v].copy, job'[v].seen, acked', excused')
    BY DEF CopiesSound
  <2>1. job'[v] = job[v]
    BY <1>3, IdleIs
  <2>2. Sound(job[v].copy, job[v].seen, acked, excused)
    BY <2>1 DEF Inv, CopiesSound
  <2>3. excused \subseteq excused'
    BY <1>1
  <2>4. Sound(job[v].copy, job[v].seen, Append(acked, r), excused')
    BY <1>1, <1>2, <2>2, <2>3, SoundGrows
  <2> QED
    BY <1>1, <2>1, <2>4
<1>9. Sound(memory', Len(acked'), acked', excused')
  BY <1>1, <1>4, <1>5
<1> QED
  BY <1>6, <1>7, <1>8, <1>9 DEF Inv

LEMMA OutsideStep ==
    ASSUME Inv, Tick \/ Crash \/ UNCHANGED vars
    PROVE  Inv'
<1>1. UNCHANGED <<memory, ops, acked, excused>> /\ clock' \in 0..MaxTime
  BY Limits DEF Tick, Crash, vars, Inv, TypeOK
<1>2. CASE job' = job
  BY <1>1, <1>2 DEF Inv, TypeOK, OpsApart, CopiesSound
<1>3. CASE job' = [w \in Writers |-> Idle]
  <2>1. job' \in [Writers -> Jobs] /\ \A w \in Writers : job'[w].pc = "idle"
    BY <1>3, IdleIs
  <2> QED
    BY <1>1, <2>1 DEF Inv, TypeOK, OpsApart, CopiesSound
<1> QED
  BY <1>2, <1>3 DEF Tick, Crash, vars

LEMMA MemoryInvariant == Spec => []Inv
<1>1. ASSUME Inv, [Next]_vars
      PROVE  Inv'
  BY <1>1, BeginStep, LoadStep, SaveStep, CompactStep, OutsideStep DEF Next
<1> QED
  BY MemoryInit, <1>1, PTL DEF Spec

-----------------------------------------------------------------------------
(* Reading decisions.  Outranks is a strict total order, so the number of     *)
(* rows above a row is its place in the sorted rows; of those the recursion   *)
(* of Effective keeps the first of each namespace and topic.  What it keeps   *)
(* is shown by taking the least index at which it would keep something else.  *)

\* The pairs of numbers of which the first is less than the second.
Smaller == {p \in Nat \X Nat : p[1] < p[2]}
\* A set of numbers that is not empty has a least one.
LEMMA LeastNatural == ASSUME NEW T \in SUBSET Nat, T # {} PROVE \E m \in T : \A k \in T : m <= k
<1>1. IsWellFoundedOn(Smaller, Nat)
  BY NatLessThanWellFounded DEF OpToRel, Smaller
<1>2. PICK m \in T : \A k \in T : ~ (<<k, m>> \in Smaller)
  BY <1>1, WFMin
<1>3. ASSUME NEW k \in T, k < m PROVE FALSE
  <2>1. <<k, m>> \in Smaller
    BY <1>3 DEF Smaller
  <2> QED
    BY <1>2, <2>1
<1>4. \A k \in T : m <= k
  BY <1>3
<1> QED
  BY <1>4

\* The live rows that come before row i.
Above(rows, i) == {j \in Live(rows) : Outranks(rows, j, i)}

\* Of two rows one outranks the other, and none outranks itself.
LEMMA OutranksTotal ==
    ASSUME NEW rows \in Seq(Decision), NEW i \in DOMAIN rows, NEW j \in DOMAIN rows
    PROVE  /\ ~ Outranks(rows, i, i)
           /\ i # j => Outranks(rows, i, j) \/ Outranks(rows, j, i)
<1>1. rows[i] \in Decision /\ rows[j] \in Decision /\ i \in Nat /\ j \in Nat
  OBVIOUS
<1>2. /\ rows[i].human \in BOOLEAN /\ rows[j].human \in BOOLEAN
      /\ rows[i].confidence \in Nat /\ rows[j].confidence \in Nat
      /\ rows[i].updated \in Nat /\ rows[j].updated \in Nat
  BY <1>1 DEF Decision
<1> QED
  BY <1>1, <1>2 DEF Outranks

\* A row that outranks one that outranks a third outranks the third.
LEMMA OutranksTransitive ==
    ASSUME NEW rows \in Seq(Decision),
           NEW i \in DOMAIN rows, NEW j \in DOMAIN rows, NEW k \in DOMAIN rows,
           Outranks(rows, i, j), Outranks(rows, j, k)
    PROVE  Outranks(rows, i, k)
<1>1. /\ rows[i] \in Decision /\ rows[j] \in Decision /\ rows[k] \in Decision
      /\ i \in Nat /\ j \in Nat /\ k \in Nat
  OBVIOUS
<1>2. /\ rows[i].human \in BOOLEAN /\ rows[j].human \in BOOLEAN /\ rows[k].human \in BOOLEAN
      /\ rows[i].confidence \in Nat /\ rows[j].confidence \in Nat /\ rows[k].confidence \in Nat
      /\ rows[i].updated \in Nat /\ rows[j].updated \in Nat /\ rows[k].updated \in Nat
  BY <1>1 DEF Decision
<1> QED
  BY <1>1, <1>2 DEF Outranks

\* Of two live rows the one that outranks the other has fewer rows above it.
LEMMA RanksApart ==
    ASSUME NEW rows \in Seq(Decision)
    PROVE  /\ IsFiniteSet(Live(rows)) /\ Cardinality(Live(rows)) \in Nat
           /\ \A i \in Live(rows) : /\ Cardinality(Above(rows, i)) \in Nat
                                    /\ Cardinality(Above(rows, i)) < Cardinality(Live(rows))
           /\ \A i, j \in Live(rows) : Outranks(rows, i, j)
                => Cardinality(Above(rows, i)) < Cardinality(Above(rows, j))
<1> DEFINE live == Live(rows)
<1>1. live \subseteq DOMAIN rows /\ DOMAIN rows = 1 .. Len(rows) /\ Len(rows) \in Nat
  BY DEF Live
<1>2. IsFiniteSet(live)
  <2>1. IsFiniteSet(1 .. Len(rows))
    BY <1>1, FS_Interval
  <2> QED
    BY <1>1, <2>1, FS_Subset
<1>3. \A S \in SUBSET live : IsFiniteSet(S) /\ Cardinality(S) \in Nat
                             /\ Cardinality(S) <= Cardinality(live)
  BY <1>2, FS_Subset, FS_CardinalityType
<1>4. ASSUME NEW S \in SUBSET live, NEW T \in SUBSET S, NEW x \in S, x \notin T
      PROVE  Cardinality(T) < Cardinality(S)
  <2>1. IsFiniteSet(S) /\ Cardinality(S) \in Nat /\ Cardinality(T) \in Nat
    BY <1>3
  <2>2. Cardinality(T) <= Cardinality(S) /\ (Cardinality(S) = Cardinality(T) => S = T)
    BY <2>1, FS_Subset
  <2> QED
    BY <1>4, <2>1, <2>2
<1>5. ASSUME NEW i \in live
      PROVE  /\ Cardinality(Above(rows, i)) \in Nat
             /\ Cardinality(Above(rows, i)) < Cardinality(live)
  <2>1. Above(rows, i) \in SUBSET live /\ i \notin Above(rows, i)
    BY <1>1, OutranksTotal DEF Above
  <2> QED
    BY <1>3, <1>4, <2>1
<1>6. ASSUME NEW i \in live, NEW j \in live, Outranks(rows, i, j)
      PROVE  Cardinality(Above(rows, i)) < Cardinality(Above(rows, j))
  <2>1. Above(rows, i) \subseteq Above(rows, j)
    BY <1>1, <1>6, OutranksTransitive DEF Above
  <2>2. i \in Above(rows, j) /\ i \notin Above(rows, i) /\ Above(rows, j) \in SUBSET live
    BY <1>1, <1>6, OutranksTotal DEF Above
  <2> QED
    BY <1>4, <2>1, <2>2
<1> QED
  BY <1>2, <1>3, <1>5, <1>6

\* For every place of the order there is a live row with as many rows above it:
\* as many places as rows, and no two rows at one place.
LEMMA EveryRankTaken ==
    ASSUME NEW rows \in Seq(Decision), NEW k \in 1 .. Cardinality(Live(rows))
    PROVE  \E i \in Live(rows) : Cardinality(Above(rows, i)) = k - 1
<1> DEFINE live == Live(rows)
           n == Cardinality(live)
           rank == [i \in live |-> Cardinality(Above(rows, i))]
<1>1. /\ IsFiniteSet(live) /\ n \in Nat
      /\ \A i \in live : rank[i] \in 0 .. n - 1
      /\ \A i, j \in live : i # j => rank[i] # rank[j]
  <2>1. \A i \in live : rank[i] \in 0 .. n - 1
    BY RanksApart
  <2>2. ASSUME NEW i \in live, NEW j \in live, i # j
        PROVE  rank[i] # rank[j]
    <3>1. Outranks(rows, i, j) \/ Outranks(rows, j, i)
      BY <2>2, OutranksTotal DEF Live
    <3> QED
      BY <3>1, RanksApart
  <2> QED
    BY <2>1, <2>2, RanksApart
<1>2. IsFiniteSet(0 .. n - 1) /\ Cardinality(0 .. n - 1) = n
  <2>1. n - 1 \in Int /\ 0 \in Int
    BY <1>1
  <2>2. /\ IsFiniteSet(0 .. n - 1)
        /\ Cardinality(0 .. n - 1) = IF 0 > n - 1 THEN 0 ELSE (n - 1) - 0 + 1
    <3> HIDE DEF n
    <3> QED
      BY <2>1, FS_Interval
  <2> QED
    BY <1>1, <2>2
<1>3. rank \in Injection(live, 0 .. n - 1)
  BY <1>1, Fun_IsInj
<1>4. rank \in Surjection(live, 0 .. n - 1)
  BY <1>2, <1>3, FS_Injection
<1>5. k - 1 \in 0 .. n - 1
  BY <1>1
<1>6. \E i \in live : rank[i] = k - 1
  BY <1>4, <1>5 DEF Surjection
<1> QED
  BY <1>6

\* So the sorted rows are the live rows, each at its place.
LEMMA OrderCovers ==
    ASSUME NEW rows \in Seq(Decision)
    PROVE  /\ SortedRows(rows) \in Seq(Live(rows))
           /\ Len(SortedRows(rows)) = Cardinality(Live(rows))
           /\ \A k \in 1 .. Len(SortedRows(rows)) :
                Cardinality(Above(rows, SortedRows(rows)[k])) = k - 1
           /\ \A i \in Live(rows) : \E k \in 1 .. Len(SortedRows(rows)) : SortedRows(rows)[k] = i
<1> DEFINE live == Live(rows)
           n == Cardinality(live)
           order == SortedRows(rows)
<1>1. n \in Nat /\ \A i \in live : /\ Cardinality(Above(rows, i)) \in Nat
                                  /\ Cardinality(Above(rows, i)) < n
  BY RanksApart
<1>2. order = [k \in 1 .. n |-> CHOOSE i \in live : Cardinality(Above(rows, i)) = k - 1]
  BY DEF SortedRows, Above
<1>3. \A k \in 1 .. n : order[k] \in live /\ Cardinality(Above(rows, order[k])) = k - 1
  BY <1>2, EveryRankTaken
<1>4. order \in Seq(live) /\ Len(order) = n
  <2> HIDE DEF order
  <2> QED
    BY <1>1, <1>2, <1>3
<1>5. ASSUME NEW i \in live PROVE \E k \in 1 .. n : order[k] = i
  <2>1. PICK k \in 1 .. n : k = Cardinality(Above(rows, i)) + 1
    BY <1>1
  <2>2. order[k] \in live /\ Cardinality(Above(rows, order[k])) = Cardinality(Above(rows, i))
    BY <1>1, <1>3, <2>1
  <2>3. i \in DOMAIN rows /\ order[k] \in DOMAIN rows
    BY <2>2 DEF Live
  <2>4. ASSUME order[k] # i PROVE FALSE
    <3>1. Outranks(rows, i, order[k]) \/ Outranks(rows, order[k], i)
      BY <2>3, <2>4, OutranksTotal
    <3> QED
      BY <1>1, <2>2, <3>1, RanksApart
  <2> QED
    BY <2>4
<1> QED
  BY <1>3, <1>4, <1>5

\* One step of the recursion of Effective, and the recursion itself.
Extended(rows, i, kept) == IF \E j \in kept : rows[j].id = rows[i].id THEN kept ELSE kept \cup {i}
Recurs(rows, order, n, g) ==
    g = [k \in 0 .. n |-> IF k = 0 THEN {} ELSE Extended(rows, order[k], g[k - 1])]

\* There is a function that satisfies the recursion.
LEMMA RecursionHasValue ==
    ASSUME NEW rows, NEW order, NEW n \in Nat
    PROVE  \E g : Recurs(rows, order, n, g)
<1> DEFINE Stuck == {m \in Nat : ~ \E g : Recurs(rows, order, m, g)}
<1> SUFFICES ASSUME Stuck # {} PROVE FALSE
  OBVIOUS
<1>1. PICK m \in Stuck : \A k \in Stuck : m <= k
  <2> HIDE DEF Stuck
  <2>1. Stuck \in SUBSET Nat
    BY DEF Stuck
  <2> QED
    BY <2>1, LeastNatural
<1>2. m \in Nat /\ ~ \E g : Recurs(rows, order, m, g)
  OBVIOUS
<1>3. CASE m = 0
  <2> DEFINE h == [k \in {0} |-> {}]
  <2>1. 0 .. 0 = {0}
    OBVIOUS
  <2>2. Recurs(rows, order, 0, h)
    BY <2>1 DEF Recurs
  <2> QED
    BY <1>2, <1>3, <2>2
<1>4. CASE m # 0
  <2>1. m - 1 \in Nat /\ m - 1 \notin Stuck
    BY <1>1, <1>2, <1>4
  <2>2. PICK g : Recurs(rows, order, m - 1, g)
    BY <2>1
  <2> DEFINE h == [k \in 0 .. m |-> IF k = m THEN Extended(rows, order[m], g[m - 1]) ELSE g[k]]
  <2>3. \A k \in 0 .. m - 1 : g[k] = IF k = 0 THEN {} ELSE Extended(rows, order[k], g[k - 1])
    BY <2>2 DEF Recurs
  <2>4. ASSUME NEW k \in 0 .. m
        PROVE  h[k] = IF k = 0 THEN {} ELSE Extended(rows, order[k], h[k - 1])
    <3>1. CASE k = m
      <4>1. m - 1 \in 0 .. m /\ m - 1 # m /\ h[m - 1] = g[m - 1]
        BY <1>2, <1>4
      <4> QED
        BY <1>2, <1>4, <3>1, <4>1
    <3>2. CASE k # m /\ k # 0
      <4>1. k - 1 \in 0 .. m /\ k - 1 # m /\ k \in 0 .. m - 1
        BY <1>2, <3>2
      <4>2. h[k - 1] = g[k - 1] /\ h[k] = g[k]
        BY <4>1, <3>2
      <4> QED
        BY <2>3, <3>2, <4>1, <4>2
    <3>3. CASE k # m /\ k = 0
      <4>1. h[0] = g[0] /\ 0 \in 0 .. m - 1
        BY <1>2, <3>3
      <4> QED
        BY <2>3, <3>3, <4>1
    <3> QED
      BY <3>1, <3>2, <3>3
  <2>5. h = [k \in 0 .. m |-> IF k = 0 THEN {} ELSE Extended(rows, order[k], h[k - 1])]
    <3> HIDE DEF h
    <3>1. h = [k \in 0 .. m |-> h[k]]
      BY DEF h
    <3> QED
      BY <2>4, <3>1
  <2>6. Recurs(rows, order, m, h)
    BY <2>5 DEF Recurs
  <2> QED
    BY <1>2, <2>6
<1> QED
  BY <1>3, <1>4

\* Effective is the last value of such a function.
LEMMA EffectiveIsRecursion ==
    ASSUME NEW rows
    PROVE  LET n == Len(SortedRows(rows)) IN
           n \in Nat => \E g : Recurs(rows, SortedRows(rows), n, g) /\ Effective(rows) = g[n]
<1> DEFINE order == SortedRows(rows)
           n == Len(order)
           kept == CHOOSE g : Recurs(rows, order, n, g)
<1> SUFFICES ASSUME n \in Nat PROVE \E g : Recurs(rows, order, n, g) /\ Effective(rows) = g[n]
  OBVIOUS
<1>1. Recurs(rows, order, n, kept)
  BY RecursionHasValue
<1>2. Effective(rows) = kept[n]
  BY DEF Effective, Recurs, Extended
<1> QED
  BY <1>1, <1>2

\* chosen is the first row of each id among the first m of the order.
FirstRows(rows, order, m, chosen) ==
    /\ \A i \in chosen : \E j \in 1 .. m : order[j] = i
         /\ \A l \in 1 .. j - 1 : rows[order[l]].id # rows[i].id
    /\ \A j \in 1 .. m : \E i \in chosen : rows[i].id = rows[order[j]].id
    /\ \A i, j \in chosen : rows[i].id = rows[j].id => i = j

\* The recursion keeps the first row of each id.
LEMMA FirstOfEachId ==
    ASSUME NEW rows, NEW order, NEW n \in Nat, NEW g, Recurs(rows, order, n, g),
           NEW k \in 0 .. n
    PROVE  FirstRows(rows, order, k, g[k])
<1> DEFINE Good(m) == FirstRows(rows, order, m, g[m])
           Bad == {m \in 0 .. n : ~ Good(m)}
<1> HIDE DEF Good
<1> SUFFICES ASSUME Bad # {} PROVE FALSE
  <2>1. Good(k)
    OBVIOUS
  <2> QED
    BY <2>1 DEF Good, FirstRows
<1>1. PICK m \in Bad : \A l \in Bad : m <= l
  <2>1. Bad \in SUBSET Nat
    OBVIOUS
  <2> HIDE DEF Bad
  <2> QED
    BY <2>1, LeastNatural
<1>2. m \in 0 .. n /\ ~ Good(m)
  OBVIOUS
<1>3. \A l \in 0 .. n : g[l] = IF l = 0 THEN {} ELSE Extended(rows, order[l], g[l - 1])
  BY DEF Recurs
<1>4. CASE m = 0
  <2>1. g[0] = {}
    BY <1>2, <1>3, <1>4
  <2>2. Good(0)
    BY <2>1 DEF Good, FirstRows
  <2> QED
    BY <1>2, <1>4, <2>2
<1>5. CASE m # 0
  <2>1. m - 1 \in 0 .. n /\ m - 1 \notin Bad /\ m \in Nat \ {0}
    BY <1>1, <1>2, <1>5
  <2>2. Good(m - 1)
    BY <2>1
  <2>3. g[m] = Extended(rows, order[m], g[m - 1])
    BY <1>2, <1>3, <1>5
  <2>4. CASE \E j \in g[m - 1] : rows[j].id = rows[order[m]].id
    <3>1. g[m] = g[m - 1]
      BY <2>3, <2>4 DEF Extended
    <3>2. Good(m)
      BY <2>1, <2>2, <2>4, <3>1 DEF Good, FirstRows
    <3> QED
      BY <1>2, <3>2
  <2>5. CASE ~ \E j \in g[m - 1] : rows[j].id = rows[order[m]].id
    <3>1. g[m] = g[m - 1] \cup {order[m]}
      BY <2>3, <2>5 DEF Extended
    <3>2. \A j \in 1 .. m : \E i \in g[m] : rows[i].id = rows[order[j]].id
      <4> SUFFICES ASSUME NEW j \in 1 .. m
                   PROVE  \E i \in g[m] : rows[i].id = rows[order[j]].id
        OBVIOUS
      <4>1. j = m \/ j \in 1 .. m - 1
        BY <2>1
      <4> QED
        BY <2>2, <3>1, <4>1 DEF Good, FirstRows
    <3>3. ASSUME NEW i \in g[m]
          PROVE  \E j \in 1 .. m : order[j] = i
                    /\ \A l \in 1 .. j - 1 : rows[order[l]].id # rows[i].id
      <4>1. CASE i = order[m]
        <5>1. \A l \in 1 .. m - 1 : rows[order[l]].id # rows[order[m]].id
          BY <2>2, <2>5 DEF Good, FirstRows
        <5>2. m \in 1 .. m
          BY <2>1
        <5> QED
          BY <4>1, <5>1, <5>2
      <4>2. CASE i \in g[m - 1]
        BY <2>1, <2>2, <4>2 DEF Good, FirstRows
      <4> QED
        BY <3>1, <4>1, <4>2
    <3>4. \A i, j \in g[m] : rows[i].id = rows[j].id => i = j
      BY <2>2, <2>5, <3>1 DEF Good, FirstRows
    <3>5. Good(m)
      BY <3>2, <3>3, <3>4 DEF Good, FirstRows
    <3> QED
      BY <1>2, <3>5
  <2> QED
    BY <2>4, <2>5
<1> QED
  BY <1>4, <1>5

\* What Effective keeps of any sequence of decisions: for each id that a live row
\* has one row, live, that outranks every other live row of the id.
LEMMA EffectiveIsBest ==
    ASSUME NEW rows \in Seq(Decision)
    PROVE  /\ \A i \in Live(rows) : \E k \in Effective(rows) : rows[k].id = rows[i].id
           /\ \A i, k \in Effective(rows) : rows[i].id = rows[k].id => i = k
           /\ \A k \in Effective(rows) : k \in Live(rows) /\ \A i \in Live(rows) :
                rows[i].id = rows[k].id /\ i # k => Outranks(rows, k, i)
<1> DEFINE order == SortedRows(rows)
           n == Len(order)
<1>1. n \in Nat /\ n = Cardinality(Live(rows)) /\ order \in Seq(Live(rows))
  BY OrderCovers, RanksApart
<1>2. PICK g : Recurs(rows, order, n, g) /\ Effective(rows) = g[n]
  BY <1>1, EffectiveIsRecursion
<1>3. n \in 0 .. n
  BY <1>1
<1>4. FirstRows(rows, order, n, g[n])
  <2> HIDE DEF order, n
  <2> QED
    BY <1>1, <1>2, <1>3, FirstOfEachId
<1>5. \A i \in Live(rows) : \E k \in 1 .. n : order[k] = i
  BY OrderCovers
<1>6. \A i \in Live(rows) : \E k \in Effective(rows) : rows[k].id = rows[i].id
  <2> SUFFICES ASSUME NEW i \in Live(rows)
               PROVE  \E k \in Effective(rows) : rows[k].id = rows[i].id
    OBVIOUS
  <2>1. PICK j \in 1 .. n : order[j] = i
    BY <1>5
  <2>2. PICK k \in g[n] : rows[k].id = rows[order[j]].id
    BY <1>4 DEF FirstRows
  <2> QED
    BY <1>2, <2>1, <2>2
<1>7. ASSUME NEW k \in Effective(rows)
      PROVE  k \in Live(rows) /\ \A i \in Live(rows) :
                rows[i].id = rows[k].id /\ i # k => Outranks(rows, k, i)
  <2>1. PICK j \in 1 .. n : order[j] = k /\ \A m \in 1 .. j - 1 : rows[order[m]].id # rows[k].id
    BY <1>2, <1>4, <1>7 DEF FirstRows
  <2>2. k \in Live(rows)
    BY <1>1, <2>1
  <2> SUFFICES ASSUME NEW i \in Live(rows), rows[i].id = rows[k].id, i # k
               PROVE  Outranks(rows, k, i)
    BY <2>2
  <2>3. PICK m \in 1 .. n : order[m] = i
    BY <1>5
  <2>4. m \notin 1 .. j - 1 /\ m # j
    BY <2>1, <2>3
  <2>5. m > j
    BY <1>1, <2>4
  <2>6. Cardinality(Above(rows, k)) = j - 1 /\ Cardinality(Above(rows, i)) = m - 1
    BY <2>1, <2>3, OrderCovers
  <2>7. ~ Outranks(rows, i, k)
    BY <1>1, <2>2, <2>5, <2>6, RanksApart
  <2>8. i \in DOMAIN rows /\ k \in DOMAIN rows
    BY <2>2 DEF Live
  <2> QED
    BY <2>7, <2>8, OutranksTotal
<1> QED
  BY <1>2, <1>4, <1>6, <1>7 DEF FirstRows

-----------------------------------------------------------------------------
(* The theorems.                                                             *)

\* Whatever writers overlap and die, the row, every copy of it and every request
\* are of their type; so no stored value is one that sanitize_json redacts.
THEOREM MemoryTypeCorrect == Spec => []TypeOK
<1>1. Inv => TypeOK
  BY DEF Inv
<1> QED
  BY <1>1, MemoryInvariant, PTL

\* However writers overlap, a fact or summary has one row, and a decision's number
\* is its place: copies that overtake one another are all of that form.
THEOREM OneRowPerName == Spec => []IdsAreUnique
<1>1. Inv => IdsAreUnique
  BY DEF Inv, Sound, OneRowEach, Unique, Numbered, IdsAreUnique
<1> QED
  BY <1>1, MemoryInvariant, PTL

\* An answered write is lost only to a writer that had loaded the row before it was
\* saved; compaction, crashes and the writes of other names lose none.
THEOREM OverlapAloneLoses == Spec => []LostOnlyToOverlap
<1>1. Inv => LostOnlyToOverlap
  <2> SUFFICES ASSUME Inv PROVE LostOnlyToOverlap
    OBVIOUS
  <2>1. \A op : HoldsIn(memory, op) => Holds(op)
    BY DEF HoldsIn, Holds, RowsOf, Kinds
  <2>2. DOMAIN acked = 1..Len(acked)
    BY DEF Inv, TypeOK
  <2> QED
    BY <2>1, <2>2 DEF Inv, Sound, Covers, LostOnlyToOverlap
<1> QED
  BY <1>1, MemoryInvariant, PTL

\* Whatever was written, by however many writers: of the live decisions on a topic one
\* is offered, it is live, and none of the others is a human's when it is not, or of
\* the same authority and more confident, or as confident and later.
THEOREM BestDecisionStands == Spec => []BestDecides
<1>1. Inv => BestDecides
  <2> SUFFICES ASSUME Inv PROVE BestDecides
    OBVIOUS
  <2> DEFINE rows == memory.decisions
  <2>1. rows \in Seq(Decision)
    BY DEF Inv, TypeOK, Memory
  <2>2. /\ \A i \in Live(rows) : \E k \in Effective(rows) : rows[k].id = rows[i].id
        /\ \A i, k \in Effective(rows) : rows[i].id = rows[k].id => i = k
        /\ \A k \in Effective(rows) : k \in Live(rows) /\ \A i \in Live(rows) :
             rows[i].id = rows[k].id /\ i # k => Outranks(rows, k, i)
    BY <2>1, EffectiveIsBest
  <2>3. ASSUME NEW k \in Effective(rows), NEW i \in Live(rows), rows[k].id = rows[i].id
        PROVE  /\ rows[i].human => rows[k].human
               /\ rows[k].human = rows[i].human
                    => rows[i].confidence <= rows[k].confidence
               /\ rows[k].human = rows[i].human /\ rows[k].confidence = rows[i].confidence
                    => rows[i].updated <= rows[k].updated
    <3>1. rows[i] \in Decision /\ rows[k] \in Decision
      <4>1. i \in DOMAIN rows /\ k \in DOMAIN rows
        BY <2>2 DEF Live
      <4> HIDE DEF rows
      <4> QED
        BY <2>1, <4>1
    <3>2. /\ rows[i].confidence \in Nat /\ rows[k].confidence \in Nat
          /\ rows[i].updated \in Nat /\ rows[k].updated \in Nat
      BY <3>1, Limits DEF Decision
    <3>3. CASE i = k
      BY <3>2, <3>3
    <3>4. CASE i # k
      <4>1. Outranks(rows, k, i)
        BY <2>2, <2>3, <3>4
      <4>2. rows[i].human \in BOOLEAN /\ rows[k].human \in BOOLEAN
        BY <3>1 DEF Decision
      <4> HIDE DEF rows
      <4> QED
        BY <3>2, <4>1, <4>2 DEF Outranks
    <3> QED
      BY <3>3, <3>4
  <2> QED
    BY <2>2, <2>3 DEF BestDecides
<1> QED
  BY <1>1, MemoryInvariant, PTL
=============================================================================
