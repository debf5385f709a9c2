---------------------------- MODULE RetrievalCache ----------------------------
(***************************************************************************)
(* The retrieval caches of context.py over the index they are filled from: *)
(* retrieval.search_term entries keyed by a refresh signature, and         *)
(* retrieval.file_summary entries keyed by a fingerprint of the file.      *)
(* Neither is invalidated: an entry is left behind when its key changes,   *)
(* and goes when it expires or is pruned.                                  *)
(*                                                                         *)
(* One term and one scope are enough, since keys never share entries.  A   *)
(* search takes its hits from the sidecar, which has at most one document  *)
(* of a path (SearchSidecar), and what it answers for each hit from the    *)
(* file's row.  Whether the sidecar's meta rows agree is left open.  A     *)
(* fingerprint is the digest of the indexed content, or the file's stat    *)
(* where the row is not filed under that stat.                             *)
(***************************************************************************)
EXTENDS IndexRefresh

CONSTANTS Requesters,   \* threads that retrieve
          Asked,        \* what they retrieve: "fragments", "summaries"
          Matching,     \* contents the term occurs in
          Removable     \* files that may be removed

ASSUME RemovableAssumption == Removable \subseteq Files
ASSUME MatchingAssumption == Matching \subseteq Texts
ASSUME CountAssumption == IsFiniteSet(Files)   \* they are counted

VARIABLES fragments,    \* cache:retrieval.search_term:*
          summaries,    \* cache:retrieval.file_summary:*
          docs,         \* the sidecar's documents: the content found under each path
          request       \* what each requester is doing

index == <<world, lmdb, cache, job, reader>>
caches == <<fragments, summaries, docs>>
cacheVars == <<index, caches, request>>

Answer == [Files -> Texts \cup {None}]
NoAnswer == [f \in Files |-> None]
Phase == {"idle", "begun", "signed", "ensure", "gather", "rewrite", "hits", "search",
          "digest", "lookup", "stat", "summarise", "keep"}
IdleRequest == [pc |-> "idle", sig |-> NoSignature, expected |-> 0,
                records |-> NoAnswer, late |-> {}, todo |-> {}, answer |-> NoAnswer,
                file |-> 0, token |-> Nothing, stamp |-> 0, text |-> None]

Goto(q, pc) == request' = [request EXCEPT ![q].pc = pc]
Respond(q) == request' = [request EXCEPT ![q] = IdleRequest]
Keyed(q) == request[q].sig # NoSignature

RowTexts == [f \in Files |-> rows[f].text]
CountOf(texts) == Cardinality({f \in Files : texts[f] # None})

-----------------------------------------------------------------------------
(* context_pack on a last good index, and context_lookup after a refresh.  *)

\* status(): what is cached, with a recomputation if that is a second old, or else
\* what the store holds, which is cached.
ReportedStatus == IF cache = NoStatus THEN CurrentStatus ELSE cache

AskStatus ==
    /\ cache' = ReportedStatus
    /\ \/ job' = job
       \/ /\ cache # NoStatus /\ job[Background].pc = "idle"
          /\ job' = [job EXCEPT ![Background].pc = "report"]
    /\ UNCHANGED <<world, lmdb, reader>>

Begin(q) ==
    /\ request[q].pc = "idle"
    /\ \/ AskStatus /\ ReportedStatus.nonempty
       \/ UNCHANGED index /\ CurrentStatus.nonempty
    /\ Goto(q, "begun")
    /\ UNCHANGED caches

\* _current_refresh_signature: the stored one, or else the tree's own.
ReadSignature(q) ==
    /\ request[q].pc = "begun"
    /\ \E src \in SignatureSources :
         request' = [request EXCEPT ![q].pc = "signed",
             ![q].sig = IF stored # NoSignature THEN stored
                        ELSE SignatureOf(src, [f \in Files |-> tree[f].stamp])]
    /\ UNCHANGED <<index, caches>>

-----------------------------------------------------------------------------
(* _cached_search_term.                                                    *)

FragmentHit(q) == Keyed(q) /\ \E e \in fragments : e.sig = request[q].sig

\* context_lookup adds the status to its answer, context_pack does not.
Answered == AskStatus \/ UNCHANGED index

\* A cold request looks nothing up.  A search counts the rows.
LookupFragment(q) ==
    /\ request[q].pc = "signed" /\ "fragments" \in Asked
    /\ \/ FragmentHit(q) /\ Respond(q) /\ Answered
       \/ /\ request' = [request EXCEPT ![q].pc = "ensure",
                             ![q].expected = CountOf(RowTexts)]
          /\ UNCHANGED index
    /\ UNCHANGED caches

\* _ensure_tantivy_available compares that count with the sidecar's documents, after
\* the meta rows, and rebuilds the sidecar if either differs.
CheckSidecar(q) ==
    /\ request[q].pc = "ensure"
    /\ \/ CountOf(docs) = request[q].expected /\ Goto(q, "hits")
       \/ Goto(q, "gather")
    /\ UNCHANGED <<index, caches>>

\* _rebuild_tantivy_from_lmdb reads the rows and then writes the documents anew.
GatherRecords(q) ==
    /\ request[q].pc = "gather"
    /\ request' = [request EXCEPT ![q].pc = "rewrite", ![q].records = RowTexts]
    /\ UNCHANGED <<index, caches>>

Rewrite(q) ==
    /\ request[q].pc = "rewrite"
    /\ docs' = request[q].records
    /\ Goto(q, "hits")
    /\ UNCHANGED <<index, fragments, summaries>>

RewriteRaises(q) ==
    /\ request[q].pc = "rewrite"
    /\ docs' = NoAnswer
    /\ Respond(q)
    /\ UNCHANGED <<index, fragments, summaries>>

\* The sidecar names the documents the term occurs in, as they are by now.
TakeHits(q) ==
    /\ request[q].pc = "hits"
    /\ request' = [request EXCEPT ![q].pc = "search",
           ![q].todo = {f \in Files : docs[f] \in Matching},
           ![q].late = {f \in Files : docs[f] # rows[f].text}]
    /\ UNCHANGED <<index, caches>>

\* What a search keeps of a hit's row, if there is one; WholeRow is the slip of keeping all of it.
WholeRow(f) == rows[f]
Found(f) == rows[f].text

\* Each hit's row is read in a transaction of its own.
SearchRow(q, f) ==
    /\ request[q].pc = "search" /\ f \in request[q].todo
    /\ request' = [request EXCEPT ![q].todo = @ \ {f}, ![q].answer[f] = Found(f)]
    /\ UNCHANGED <<index, caches>>

\* The entry's key has the signature that was read before the search; KeyAtWrite
\* is the slip of reading it when the entry is written.
KeyAtWrite(q) == stored
FragmentKey(q) == request[q].sig

StoreFragment(q) ==
    LET new == [sig |-> FragmentKey(q), answer |-> request[q].answer,
                late |-> request[q].late]
    IN  /\ request[q].pc = "search" /\ request[q].todo = {}
        /\ fragments' = IF Keyed(q)
                        THEN {e \in fragments : e.sig # new.sig} \cup {new}
                        ELSE fragments
        /\ Respond(q) /\ Answered
        /\ UNCHANGED <<summaries, docs>>

-----------------------------------------------------------------------------
(* _cached_file_summary.                                                   *)

\* _file_fingerprint stats the file, and raises if it is not there.
StatFile(q, f) ==
    /\ request[q].pc = "signed" /\ "summaries" \in Asked
    /\ IF tree[f] = Nothing THEN Respond(q)
       ELSE request' = [request EXCEPT ![q].pc = "digest", ![q].file = f,
                            ![q].token = [stamp |-> tree[f].stamp, text |-> None]]
    /\ UNCHANGED <<index, caches>>

\* Then it takes the row's sha256, if the row is filed under that stat.
ReadDigest(q) ==
    LET row == rows[request[q].file]
    IN  /\ request[q].pc = "digest"
        /\ request' = [request EXCEPT ![q].pc = "lookup",
               ![q].token = IF row.stamp = @.stamp
                            THEN [stamp |-> 0, text |-> row.text] ELSE @]
        /\ UNCHANGED <<index, caches>>

SummaryHit(q) ==
    Keyed(q) /\ \E e \in summaries :
                    e.file = request[q].file /\ e.token = request[q].token

LookupSummary(q) ==
    /\ request[q].pc = "lookup"
    /\ \/ SummaryHit(q) /\ Respond(q)
       \/ Goto(q, "stat")
    /\ UNCHANGED <<index, caches>>

\* file_summary of index.py stats the file again, and raises if it is not there.
StatAgain(q) ==
    LET f == request[q].file
    IN  /\ request[q].pc = "stat"
        /\ IF tree[f] = Nothing THEN Respond(q)
           ELSE request' = [request EXCEPT ![q].pc = "summarise",
                                ![q].stamp = tree[f].stamp]
        /\ UNCHANGED <<index, caches>>

\* Then it summarises the row filed under that stat, or else the bytes, if it can.
Summarise(q) ==
    LET f == request[q].file
        indexed == rows[f].stamp = request[q].stamp
        text == IF indexed THEN rows[f].text ELSE tree[f].text
    IN  /\ request[q].pc = "summarise"
        /\ IF ~indexed /\ (tree[f] = Nothing \/ text \in BinaryTexts)
           THEN Respond(q)
           ELSE request' = [request EXCEPT ![q].pc = "keep", ![q].text = text]
        /\ UNCHANGED <<index, caches>>

\* The entry's key has the fingerprint taken before the summary; TokenAtWrite is
\* the slip of taking it when the entry is written.
TokenAtWrite(q) == [stamp |-> tree[request[q].file].stamp, text |-> None]
SummaryToken(q) == request[q].token

StoreSummary(q) ==
    LET f == request[q].file
        new == [file |-> f, token |-> SummaryToken(q), text |-> request[q].text]
    IN  /\ request[q].pc = "keep"
        /\ summaries' = IF Keyed(q)
                        THEN {e \in summaries : e.file # f \/ e.token # new.token}
                                 \cup {new}
                        ELSE summaries
        /\ Respond(q)
        /\ UNCHANGED <<index, fragments, docs>>

-----------------------------------------------------------------------------
(* The rest of the system.                                                 *)

\* An entry expires, or a prune deletes it.
DropEntry ==
    /\ \/ \E e \in fragments : fragments' = fragments \ {e} /\ UNCHANGED summaries
       \/ \E e \in summaries : summaries' = summaries \ {e} /\ UNCHANGED fragments
    /\ UNCHANGED <<index, request, docs>>

\* apply_changes for the rows a refresh has committed.
Applied(t) ==
    [f \in Files |-> IF job[t].puts[f] # Nothing THEN job[t].puts[f].text
                     ELSE IF f \in job[t].dels THEN None ELSE docs[f]]

\* _sync_tantivy_sidecar: the changes are applied, and kept if there are then as many
\* documents as rows; if there are not, or the sidecar looks wrong before, it is
\* rebuilt, which is one step as long as one thread at a time refreshes.
Synced(t) == {d \in {Applied(t)} : CountOf(d) = CountOf(RowTexts)} \cup {RowTexts}

\* An exception leaves the sidecar as it was, rebuilt, or empty in mid-rebuild.
CutShort == {docs, RowTexts, NoAnswer}

SyncDocs(t) ==
    \/ job[t].pc # "sync" /\ docs' = docs
    \/ job[t].pc = "sync" /\ job'[t].pc = "report" /\ docs' \in Synced(t)
    \/ job[t].pc = "sync" /\ job'[t].pc = "idle" /\ docs' \in CutShort

\* The changes are in the sidecar before anything else is decided.
ApplyChanges(t) ==
    /\ job[t].pc = "sync"
    /\ docs' = Applied(t)
    /\ UNCHANGED index

IndexStep ==
    /\ \/ \E t \in Threads : (Refresh(t) /\ SyncDocs(t)) \/ ApplyChanges(t)
       \/ /\ \/ \E a \in Actors : ComputeStatus(a) \/ PublishStatus(a)
             \/ \E f \in Files : Edit(f)
             \/ \E f \in Removable : Remove(f)
          /\ UNCHANGED docs
    /\ UNCHANGED <<fragments, summaries, request>>

\* The entries are rows of the store, and the sidecar is on disk: a rebuild that the
\* crash cuts short has raised before.
Restart ==
    /\ Crash
    /\ request' = [q \in Requesters |-> IdleRequest]
    /\ UNCHANGED caches

\* The server starts on a repository that has the files nobody removes, and that was
\* indexed before or not.
CacheInit ==
    /\ clock = 1
    /\ \E first \in [Files \ Removable -> Texts \ BinaryTexts] :
         tree = [f \in Files |-> IF f \in Removable THEN Nothing
                                ELSE [stamp |-> 1, text |-> first[f]]]
    /\ \/ /\ rows = [f \in Files |-> Nothing]
          /\ stored = NoSignature
       \/ /\ rows = tree
          /\ \E src \in SignatureSources :
               stored = SignatureOf(src, [f \in Files |-> tree[f].stamp])
    /\ terms = [f \in Files |-> TermsOf(rows[f])]
    /\ cache = NoStatus
    /\ job = [a \in Actors |-> IdleJob]
    /\ reader = [r \in Readers |-> Closed]
    /\ missed = {}
    /\ docs = RowTexts
    /\ fragments = {} /\ summaries = {}
    /\ request = [q \in Requesters |-> IdleRequest]

Retrieve(q) ==
    \/ Begin(q) \/ ReadSignature(q)
    \/ LookupFragment(q) \/ CheckSidecar(q) \/ GatherRecords(q)
    \/ Rewrite(q) \/ RewriteRaises(q) \/ TakeHits(q) \/ StoreFragment(q)
    \/ \E f \in Files : SearchRow(q, f) \/ StatFile(q, f)
    \/ ReadDigest(q) \/ LookupSummary(q) \/ StatAgain(q) \/ Summarise(q)
    \/ StoreSummary(q)

CacheNext == IndexStep \/ Restart \/ DropEntry \/ \E q \in Requesters : Retrieve(q)

CacheSpec == CacheInit /\ [][CacheNext]_cacheVars

-----------------------------------------------------------------------------
(* Properties.                                                             *)

Fragment == [sig: Signature, answer: Answer, late: SUBSET Files]
Summary == [file: Files, token: Version, text: Texts \cup {None}]

\* Every variable of the caches holds a value of its type.
CacheTypeOK ==
    /\ fragments \in SUBSET Fragment
    /\ summaries \in SUBSET Summary
    /\ docs \in Answer
    /\ request \in [Requesters -> [pc: Phase, sig: Signature, expected: Nat,
                        records: Answer, late: SUBSET Files, todo: SUBSET Files,
                        answer: Answer, file: Nat, token: Version, stamp: Nat,
                        text: Texts \cup {None}]]

\* What a search of the rows would answer for f.
Sought(f) == IF rows[f].text \in Matching THEN rows[f].text ELSE None

\* While requests, refreshes, rebuilds, edits and crashes interleave, a search answered
\* from the cache shows, of each file the stored signature names, what a search of the
\* rows would show (context.py, _cached_search_term; README: no stale evidence is
\* served).  Of a file whose document lagged behind its row when the hits were taken,
\* it shows no other text than the row's, but may wrongly show it or not.
FragmentIsCurrent ==
    \A e \in fragments : e.sig = stored =>
        \A f \in Files : e.sig.stamps[f] # 0 =>
            /\ e.answer[f] \in {None, rows[f].text}
            /\ f \notin e.late => e.answer[f] = Sought(f)

\* The same without exception, once nobody is at work and the sidecar has caught up.
\* A search between the commit of a refresh and its sync reads the new signature, finds
\* as many documents as rows, and files the old documents' hits under it for good.
AtRest ==
    /\ \A a \in Actors : job[a].pc = "idle"
    /\ \A q \in Requesters : request[q].pc = "idle"

CachedSearchIsCurrent ==
    AtRest /\ docs = RowTexts =>
       \A e \in fragments : e.sig = stored =>
           \A f \in Files : e.sig.stamps[f] # 0 => e.answer[f] = Sought(f)

\* A summary filed under a stat is served only while the file has that stat, and is
\* then one of the file's present text, although the stat was taken before the
\* bytes were read and the entry was written later still (_file_fingerprint).
SummaryIsGenuine ==
    \A e \in summaries :
        e.token.stamp # 0 /\ e.token.stamp = tree[e.file].stamp
        => e.text = tree[e.file].text

=============================================================================
