---------------------------- MODULE MemoryStore ----------------------------
(* Project memory (memory.py): facts, summaries and decisions, all of them   *)
(* in the one row "memory:store" of the project's LMDB store.  Every write   *)
(* loads the row, changes the copy and saves it whole, in two transactions.  *)
(* A row of the model carries the number of the write that made it ("op").   *)
EXTENDS Naturals, Sequences, FiniteSets

CONSTANTS
    Writers,        \* threads (or server processes) at work on one project
    Namespaces,     \* namespaces a client names
    Global,         \* the namespace of a compaction that names none
    Names,          \* keys, focuses and topics a client names
    AutoCompact,    \* the focus "auto_compact"
    Texts,          \* values a client stores
    Secret,         \* the member of Texts that sanitize_json redacts
    Redacted,       \* what sanitize_json puts in its place
    Digest,         \* the text that compact makes of entries
    Confidences,    \* the confidences a client gives to a decision
    Default,        \* the confidence of a call that gives none
    Lifetimes,      \* the ttl_days a client gives
    CompactLifetime, \* the sixty days compact gives its digest
    NoExpiry,       \* ttl_days not given: expires_at is empty
    Threshold,      \* threshold_entries of compact
    MaxTime,        \* bound of the clock
    MaxOps          \* bound of the number of writes

ASSUME MemoryAssumption ==
    /\ Secret \in Texts
    /\ Redacted \notin Texts
    /\ Digest \notin Texts \cup {Redacted}
    /\ Global \notin Namespaces
    /\ AutoCompact \notin Names
    /\ Confidences \subseteq Nat /\ Default \in Confidences
    /\ Lifetimes \subseteq Nat /\ CompactLifetime \in Nat
    /\ NoExpiry \notin Nat
    /\ Threshold \in Nat /\ MaxTime \in Nat /\ MaxOps \in Nat

VARIABLES
    memory,     \* the row: entries, summaries and decisions
    clock,      \* now_iso()
    job,        \* what each writer is doing, with the copy it has loaded
    ops,        \* writes begun so far
    acked,      \* the writes saved, in the order of their saves
    excused     \* writes a later save did not know of, having loaded before them

vars == <<memory, clock, job, ops, acked, excused>>

Ids == (Namespaces \cup {Global}) \X (Names \cup {AutoCompact})
Stored == (Texts \ {Secret}) \cup {Redacted, Digest}
Expiry == Nat \cup {NoExpiry}
Op == 1..MaxOps

\* The confidence of a fact, its tags and its source are not modelled: they
\* choose no row.
Fact == [id : Ids, value : Stored, redacted : BOOLEAN,
         created : Nat, updated : Nat, expires : Expiry, op : Op]
Decision == [number : Nat, id : Ids, value : Stored, redacted : BOOLEAN,
             human : BOOLEAN, confidence : Nat, updated : Nat,
             expires : Expiry, op : Op]
Memory == [entries : Seq(Fact), summaries : Seq(Fact), decisions : Seq(Decision)]

Empty == [entries |-> <<>>, summaries |-> <<>>, decisions |-> <<>>]

\* A write as its caller asked for it, after the call's own sanitize_json.
Request ==
    [kind : {"entries", "summaries", "decisions"}, id : Ids, value : Stored,
     redacted : BOOLEAN, human : BOOLEAN, confidence : Nat, ttl : Expiry, op : Op]
CompactRequest == [kind : {"compact"}, scope : Namespaces \cup {Global}, op : Op]

Idle == [pc |-> "idle"]
Loading(request) == [pc |-> "load", request |-> request]
Saving(request, copy, seen) ==
    [pc |-> "save", request |-> request, copy |-> copy, seen |-> seen]

Jobs ==
    {Idle}
    \cup [pc : {"load"}, request : Request \cup CompactRequest]
    \cup [pc : {"save"}, request : Request, copy : Memory, seen : Nat]

TypeOK ==
    /\ memory \in Memory
    /\ clock \in 0..MaxTime
    /\ job \in [Writers -> Jobs]
    /\ ops \in 0..MaxOps
    /\ acked \in Seq(Request)
    /\ excused \subseteq Op

Init ==
    /\ memory = Empty
    /\ clock = 0
    /\ job = [w \in Writers |-> Idle]
    /\ ops = 0
    /\ acked = <<>>
    /\ excused = {}

-----------------------------------------------------------------------------
(* The changes to a loaded copy.                                             *)

\* KeptSecret is the slip of redacting only what is saved, not what is asked.
KeptSecret(text) == text
Sanitized(text) == IF text = Secret THEN Redacted ELSE text
ExpiresAt(ttl) == IF ttl = NoExpiry THEN NoExpiry ELSE clock + ttl
Expired(row) == row.expires # NoExpiry /\ row.expires < clock

NewFact(r, created) ==
    [id |-> r.id, value |-> r.value, redacted |-> r.redacted,
     created |-> created, updated |-> clock,
     expires |-> ExpiresAt(r.ttl), op |-> r.op]

\* AppendedRow is the slip of never looking for the row.
AppendedRow(rows, r) == Append(rows, NewFact(r, clock))

\* The first row of that id is replaced and keeps its created_at; without one
\* the row goes to the end.
Upserted(rows, r) ==
    LET hits == {i \in DOMAIN rows : rows[i].id = r.id} IN
    IF hits = {}
    THEN Append(rows, NewFact(r, clock))
    ELSE LET i == CHOOSE i \in hits : \A j \in hits : i <= j
         IN  [rows EXCEPT ![i] = NewFact(r, rows[i].created)]

Recorded(rows, r) ==
    Append(rows, [number |-> Len(rows) + 1, id |-> r.id, value |-> r.value,
                  redacted |-> r.redacted, human |-> r.human,
                  confidence |-> r.confidence, updated |-> clock,
                  expires |-> ExpiresAt(r.ttl), op |-> r.op])

\* _save sanitises every row again: a mark once set stays set.
Resanitized(rows) ==
    [i \in DOMAIN rows |->
        [rows[i] EXCEPT !.value = Sanitized(@),
                        !.redacted = @ \/ rows[i].value = Secret]]

SavedForm(m) ==
    [entries |-> Resanitized(m.entries), summaries |-> Resanitized(m.summaries),
     decisions |-> Resanitized(m.decisions)]

\* Compacted is the slip of dropping the entries that went into the digest.
Compacted(copy, r) ==
    SavedForm(
        IF r.kind = "decisions"
        THEN [copy EXCEPT !.decisions = Recorded(@, r)]
        ELSE [copy EXCEPT ![r.kind] = Upserted(@, r),
                          !.entries = IF r.id[2] = AutoCompact THEN <<>> ELSE @])

Changed(copy, r) ==
    SavedForm(
        CASE r.kind = "entries"   -> [copy EXCEPT !.entries = Upserted(@, r)]
          [] r.kind = "summaries" -> [copy EXCEPT !.summaries = Upserted(@, r)]
          [] r.kind = "decisions" -> [copy EXCEPT !.decisions = Recorded(@, r)])

-----------------------------------------------------------------------------
(* A call: its arguments are checked and sanitised, the row is loaded, the   *)
(* changed copy is saved.                                                    *)

\* An identifier with sensitive text raises before anything is loaded.
SafeIdentifiers(id) == id[2] # Secret

Begin(w) ==
    /\ job[w] = Idle
    /\ ops < MaxOps
    /\ ops' = ops + 1
    /\ \E ns \in Namespaces, name \in Names, text \in Texts, c \in Confidences,
          ttl \in Lifetimes \cup {NoExpiry}, kind \in {"entries", "summaries", "decisions"},
          human \in BOOLEAN :
        /\ SafeIdentifiers(<<ns, name>>)
        /\ kind # "decisions" => ~ human /\ c = Default
        /\ job' = [job EXCEPT ![w] = Loading(
               [kind |-> kind, id |-> <<ns, name>>, value |-> Sanitized(text),
                redacted |-> text = Secret, human |-> human, confidence |-> c,
                ttl |-> ttl, op |-> ops + 1])]
    /\ UNCHANGED <<memory, clock, acked, excused>>

BeginCompact(w) ==
    /\ job[w] = Idle
    /\ ops < MaxOps
    /\ ops' = ops + 1
    /\ \E ns \in Namespaces \cup {Global} :
        job' = [job EXCEPT ![w] =
                   Loading([kind |-> "compact", scope |-> ns, op |-> ops + 1])]
    /\ UNCHANGED <<memory, clock, acked, excused>>

Load(w) ==
    /\ job[w].pc = "load"
    /\ job[w].request.kind # "compact"
    /\ job' = [job EXCEPT ![w] = Saving(job[w].request, memory, Len(acked))]
    /\ UNCHANGED <<memory, clock, ops, acked, excused>>

Save(w) ==
    /\ job[w].pc = "save"
    /\ memory' = Changed(job[w].copy, job[w].request)
    /\ acked' = Append(acked, job[w].request)
    /\ excused' = excused \cup {acked[i].op : i \in job[w].seen + 1 .. Len(acked)}
    /\ job' = [job EXCEPT ![w] = Idle]
    /\ UNCHANGED <<clock, ops>>

InScope(rows, ns) ==
    {i \in DOMAIN rows : ns = Global \/ rows[i].id[1] = ns}

\* compact loads the row to count, and summary_upsert loads it again to write.
CompactDeclines(w) ==
    /\ job[w].pc = "load"
    /\ job[w].request.kind = "compact"
    /\ Cardinality(InScope(memory.entries, job[w].request.scope)) <= Threshold
    /\ job' = [job EXCEPT ![w] = Idle]
    /\ UNCHANGED <<memory, clock, ops, acked, excused>>

CompactProceeds(w) ==
    /\ job[w].pc = "load"
    /\ job[w].request.kind = "compact"
    /\ Cardinality(InScope(memory.entries, job[w].request.scope)) > Threshold
    /\ job' = [job EXCEPT ![w] = Loading(
           [kind |-> "summaries", id |-> <<job[w].request.scope, AutoCompact>>,
            value |-> Digest, redacted |-> FALSE, human |-> FALSE,
            confidence |-> Default, ttl |-> CompactLifetime, op |-> job[w].request.op])]
    /\ UNCHANGED <<memory, clock, ops, acked, excused>>

Tick ==
    /\ clock < MaxTime
    /\ clock' = clock + 1
    /\ UNCHANGED <<memory, job, ops, acked, excused>>

\* The process dies: what it has not saved is gone, and nobody is answered.
Crash ==
    /\ \E w \in Writers : job[w] # Idle
    /\ job' = [w \in Writers |-> Idle]
    /\ UNCHANGED <<memory, clock, ops, acked, excused>>

Next ==
    \/ \E w \in Writers :
        \/ Begin(w) \/ BeginCompact(w) \/ Load(w) \/ Save(w)
        \/ CompactDeclines(w) \/ CompactProceeds(w)
    \/ Tick
    \/ Crash

Spec == Init /\ [][Next]_vars
-----------------------------------------------------------------------------
(* Reading decisions.                                                        *)

\* ConfidenceFirst is the slip of comparing confidences before authority.
ConfidenceFirst(rows, i, j) ==
    LET a == rows[i]  b == rows[j] IN
    \/ a.confidence > b.confidence
    \/ a.confidence = b.confidence /\ a.human /\ ~ b.human
    \/ a.confidence = b.confidence /\ a.human = b.human
       /\ (a.updated > b.updated \/ (a.updated = b.updated /\ i < j))

\* The sort key: human before llm, then confidence, then age; the sort is
\* stable, so of equals the earlier row comes first.
Outranks(rows, i, j) ==
    LET a == rows[i]  b == rows[j]  equal == a.human = b.human IN
    \/ a.human /\ ~ b.human
    \/ equal /\ a.confidence > b.confidence
    \/ equal /\ a.confidence = b.confidence /\ a.updated > b.updated
    \/ equal /\ a.confidence = b.confidence /\ a.updated = b.updated /\ i < j

Live(rows) == {i \in DOMAIN rows : ~ Expired(rows[i])}

SortedRows(rows) ==
    [k \in 1..Cardinality(Live(rows)) |->
        CHOOSE i \in Live(rows) :
            Cardinality({j \in Live(rows) : Outranks(rows, j, i)}) = k - 1]

\* The first row of each namespace and topic.
Effective(rows) ==
    LET order == SortedRows(rows)
        Take(k, kept) == IF \E i \in kept : rows[i].id = rows[order[k]].id
                         THEN kept ELSE kept \cup {order[k]}
        kept[k \in 0..Len(order)] == IF k = 0 THEN {} ELSE Take(k, kept[k - 1])
    IN  kept[Len(order)]

-----------------------------------------------------------------------------
(* Properties.                                                               *)

\* However writers overlap, a fact or summary has one row per namespace and
\* name, and a decision's number is its place: no two rows share one.
IdsAreUnique ==
    /\ \A rows \in {memory.entries, memory.summaries} :
        \A i, j \in DOMAIN rows : rows[i].id = rows[j].id => i = j
    /\ \A i \in DOMAIN memory.decisions : memory.decisions[i].number = i

Holds(op) ==
    \E rows \in {memory.entries, memory.summaries, memory.decisions} :
        \E i \in DOMAIN rows : rows[i].op = op

\* A write that was answered is in the row, or was replaced by a later write to
\* the same fact, or fell to a writer that had loaded the row before it: nothing
\* else, compaction and crashes included, loses a write.
LostOnlyToOverlap ==
    \A i \in DOMAIN acked :
        \/ acked[i].op \in excused
        \/ Holds(acked[i].op)
        \/ /\ acked[i].kind # "decisions"
           /\ \E j \in i + 1 .. Len(acked) :
                /\ acked[j].kind = acked[i].kind
                /\ acked[j].id = acked[i].id
                /\ Holds(acked[j].op)

\* Of the live decisions on a topic memory offers one: a human's if there is one,
\* then one of those the most confident, then of those the latest (effective_decisions;
\* technical paper: human before LLM, then confidence, then most recent update).
BestDecides ==
    LET rows == memory.decisions  live == Live(rows)  best == Effective(rows) IN
    /\ best \subseteq live
    /\ \A i \in live : \E k \in best : rows[k].id = rows[i].id
    /\ \A i, k \in best : rows[i].id = rows[k].id => i = k
    /\ \A k \in best, i \in live :
        LET a == rows[k]  b == rows[i] IN
        a.id = b.id =>
            /\ b.human => a.human
            /\ a.human = b.human => b.confidence <= a.confidence
            /\ a.human = b.human /\ a.confidence = b.confidence
                 => b.updated <= a.updated
=============================================================================
