---------------------------- MODULE SearchSidecar ----------------------------
(***************************************************************************)
(* The Tantivy sidecar (tantivy_index.py) that index.py keeps beside the   *)
(* LMDB file rows: a refresh commits its rows first and brings the sidecar *)
(* up to date afterwards, a search checks the sidecar and rebuilds it when *)
(* it looks wrong.  All they compare is a number of documents.             *)
(*                                                                         *)
(* Every transaction on the rows is a step, and so is every call that      *)
(* takes the sidecar's lock; between two steps any other thread may run.   *)
(* A document's words are its text.                                        *)
(***************************************************************************)
EXTENDS Naturals, FiniteSets

CONSTANTS Files,        \* repository-relative paths
          Texts,        \* contents of a file row
          None,         \* no row
          Threads,      \* threads that refresh or search
          FaultKinds,   \* which of "crash", "fail", "lose", "upgrade" happen
          MaxCommits,   \* bound on refreshes
          MaxFaults     \* bound on faults

ASSUME SidecarAssumption ==
    /\ IsFiniteSet(Files) /\ IsFiniteSet(Texts)
    /\ None \notin Texts
    /\ MaxCommits \in Nat /\ MaxFaults \in Nat

VARIABLES rows,     \* the content of every index:file row
          meta,     \* the tantivy_* meta rows: written by this version, count
          built,    \* the index directory exists and opens
          docs,     \* its documents
          job,      \* what each thread is doing
          torn,     \* history: files of a refresh cut short since the last rebuild
          commits, faults

vars == <<rows, meta, built, docs, job, torn, commits, faults>>
sidecar == <<built, docs>>
bounds == <<commits, faults>>

Doc == [file: Files, text: Texts]
Of(f, D) == {d \in D : d.file = f}

Step == {"idle", "count", "meta", "health", "compat", "open", "apply",
         "recount", "gather", "rewrite", "record", "rerecord", "hits"}
IdleJob == [pc |-> "idle", search |-> FALSE, changed |-> {}, records |-> {},
            expected |-> 0, count |-> 0]

-----------------------------------------------------------------------------
RowDocs == {d \in Doc : rows[d.file] = d.text}

\* store.count("index:file:")
FileCount == Cardinality({f \in Files : rows[f] # None})

\* _tantivy_meta_current
MetaCurrent(expected) == meta.compatible /\ meta.count = expected

\* is_healthy with an expected_doc_count; OpensOnly is the slip of leaving the
\* count out.
OpensOnly(expected) == built
Healthy(expected) == built /\ Cardinality(docs) = expected

Goto(t, pc) == job' = [job EXCEPT ![t].pc = pc]

\* The checks have passed: a search goes on, a refresh is done.
Passed(t) == IF job[t].search THEN [IdleJob EXCEPT !.pc = "hits"] ELSE IdleJob

-----------------------------------------------------------------------------
(* The committed part of a refresh, and the start of a search.             *)

\* The write transaction of refresh puts or deletes the rows of some files.
Commit(t) ==
    /\ job[t].pc = "idle" /\ commits < MaxCommits
    /\ commits' = commits + 1
    /\ \E changed \in SUBSET Files :
         /\ \E new \in [changed -> Texts \cup {None}] :
              /\ rows' = [f \in Files |-> IF f \in changed THEN new[f] ELSE rows[f]]
              /\ job' = [job EXCEPT ![t] =
                     [IdleJob EXCEPT !.changed = changed,
                          !.records = {d \in Doc : /\ d.file \in changed
                                                   /\ new[d.file] = d.text},
                          !.pc = IF changed = {} THEN "count" ELSE "compat"]]
    /\ UNCHANGED <<meta, sidecar, torn, faults>>

Search(t) ==
    /\ job[t].pc = "idle"
    /\ job' = [job EXCEPT ![t] = [IdleJob EXCEPT !.pc = "count", !.search = TRUE]]
    /\ UNCHANGED <<rows, meta, sidecar, torn, bounds>>

-----------------------------------------------------------------------------
(* _ensure_tantivy_available, and _sync_tantivy_sidecar without a change:  *)
(* leave the sidecar as it is if the rows, the meta rows and the sidecar   *)
(* agree on the number of files, and rebuild it if not.                    *)

CountRows(t) ==
    /\ job[t].pc = "count"
    /\ job' = [job EXCEPT ![t].expected = FileCount, ![t].pc = "meta"]
    /\ UNCHANGED <<rows, meta, sidecar, torn, bounds>>

CheckMeta(t) ==
    /\ job[t].pc = "meta"
    /\ Goto(t, IF MetaCurrent(job[t].expected) THEN "health" ELSE "gather")
    /\ UNCHANGED <<rows, meta, sidecar, torn, bounds>>

CheckHealth(t) ==
    /\ job[t].pc = "health"
    /\ job' = [job EXCEPT ![t] = IF Healthy(@.expected) THEN Passed(t)
                                 ELSE [@ EXCEPT !.pc = "gather"]]
    /\ UNCHANGED <<rows, meta, sidecar, torn, bounds>>

-----------------------------------------------------------------------------
(* _sync_tantivy_sidecar after a change.                                   *)

CheckCompatible(t) ==
    /\ job[t].pc = "compat"
    /\ Goto(t, IF meta.compatible THEN "open" ELSE "gather")
    /\ UNCHANGED <<rows, meta, sidecar, torn, bounds>>

CheckOpens(t) ==
    /\ job[t].pc = "open"
    /\ Goto(t, IF built THEN "apply" ELSE "gather")
    /\ UNCHANGED <<rows, meta, sidecar, torn, bounds>>

\* What apply_changes leaves: the changed paths' documents go, the records come.
\* AddedDocs is the slip of deleting the paths that are gone but not those that
\* come back.
AddedDocs(t) ==
    {d \in docs : d.file \notin job[t].changed \/ Of(d.file, job[t].records) # {}}
        \cup job[t].records
AppliedDocs(t) == {d \in docs : d.file \notin job[t].changed} \cup job[t].records

\* apply_changes, under the sidecar's lock; it opens the index or creates it.
ApplyChanges(t) ==
    /\ job[t].pc = "apply"
    /\ built' = TRUE
    /\ docs' = AppliedDocs(t)
    /\ job' = [job EXCEPT ![t] =
           [IdleJob EXCEPT !.count = Cardinality(AppliedDocs(t)), !.pc = "recount"]]
    /\ UNCHANGED <<rows, meta, torn, bounds>>

\* The counts are compared once more, with the rows there are now.
Recount(t) ==
    /\ job[t].pc = "recount"
    /\ Goto(t, IF job[t].count = FileCount THEN "rerecord" ELSE "gather")
    /\ UNCHANGED <<rows, meta, sidecar, torn, bounds>>

-----------------------------------------------------------------------------
(* _rebuild_tantivy_from_lmdb, and what both routes record.                *)

\* _all_file_records reads the rows before the sidecar's lock is taken.
\* ChangedOnly is the slip of gathering the refresh's own records only, and
\* Unfiltered of keeping the rows that have no content.
ChangedOnly(t) == job[t].records
Unfiltered(t) == {[file |-> f, text |-> rows[f]] : f \in Files}
AllRecords(t) == RowDocs

GatherRecords(t) ==
    /\ job[t].pc = "gather"
    /\ job' = [job EXCEPT ![t].records = AllRecords(t), ![t].pc = "rewrite"]
    /\ UNCHANGED <<rows, meta, sidecar, torn, bounds>>

\* rebuild removes the directory, creates it and writes every record.
Rebuild(t) ==
    /\ job[t].pc = "rewrite"
    /\ built' = TRUE
    /\ docs' = job[t].records
    /\ torn' = {}
    /\ job' = [job EXCEPT ![t].count = Cardinality(job[t].records), ![t].pc = "record"]
    /\ UNCHANGED <<rows, meta, bounds>>

\* _store_tantivy_meta, by the rebuild and then by the refresh that asked for it.
StoreMeta(t) ==
    /\ job[t].pc \in {"record", "rerecord"}
    /\ meta' = [compatible |-> TRUE, count |-> job[t].count]
    /\ job' = [job EXCEPT ![t] =
           IF @.pc = "record" /\ ~@.search THEN [@ EXCEPT !.pc = "rerecord"]
           ELSE Passed(t)]
    /\ UNCHANGED <<rows, sidecar, torn, bounds>>

\* The sidecar's hits are looked up among the rows and the search returns.
FinishSearch(t) ==
    /\ job[t].pc = "hits"
    /\ job' = [job EXCEPT ![t] = IdleJob]
    /\ UNCHANGED <<rows, meta, sidecar, torn, bounds>>

-----------------------------------------------------------------------------
(* Faults.                                                                 *)

Fault(kind) == kind \in FaultKinds /\ faults < MaxFaults /\ faults' = faults + 1

\* The files whose documents nobody will bring up to date if t stops here.
Abandoned(t) ==
    IF job[t].pc \in {"compat", "open", "apply", "gather", "rewrite"}
    THEN job[t].changed ELSE {}

\* A rebuild that stops half way leaves no index or an empty one.
Emptied(t) ==
    /\ job[t].pc = "rewrite"
    /\ docs' = {} /\ built' \in BOOLEAN
    /\ torn' = Files

\* The threads S stop where they are.
CutShort(S) ==
    \/ /\ UNCHANGED sidecar
       /\ torn' = torn \cup UNION {Abandoned(t) : t \in S}
    \/ \E t \in S : Emptied(t)

\* An exception of the sidecar ends the refresh or the search.
SyncRaises(t) ==
    /\ Fault("fail")
    /\ job[t].pc \in {"apply", "rewrite"}
    /\ CutShort({t})
    /\ job' = [job EXCEPT ![t] = IdleJob]
    /\ UNCHANGED <<rows, meta, commits>>

\* The process dies and restarts: rows, meta rows and sidecar are on disk.
Crash ==
    /\ Fault("crash")
    /\ CutShort(Threads)
    /\ job' = [t \in Threads |-> IdleJob]
    /\ UNCHANGED <<rows, meta, commits>>

Quiet == \A t \in Threads : job[t].pc = "idle"

\* Somebody removes the directory while the server is idle.
LoseSidecar ==
    /\ Fault("lose") /\ Quiet
    /\ built' = FALSE /\ docs' = {}
    /\ UNCHANGED <<rows, meta, job, torn, commits>>

\* The server is stopped and started again with another tantivy package.
Upgrade ==
    /\ Fault("upgrade") /\ Quiet
    /\ meta' = [meta EXCEPT !.compatible = FALSE]
    /\ UNCHANGED <<rows, sidecar, job, torn, commits>>

-----------------------------------------------------------------------------
Init ==
    /\ rows = [f \in Files |-> None]
    /\ meta = [compatible |-> FALSE, count |-> 0]
    /\ built = FALSE /\ docs = {}
    /\ job = [t \in Threads |-> IdleJob]
    /\ torn = {}
    /\ commits = 0 /\ faults = 0

Act(t) ==
    \/ Commit(t) \/ Search(t)
    \/ CountRows(t) \/ CheckMeta(t) \/ CheckHealth(t)
    \/ CheckCompatible(t) \/ CheckOpens(t) \/ ApplyChanges(t) \/ Recount(t)
    \/ GatherRecords(t) \/ Rebuild(t) \/ StoreMeta(t) \/ FinishSearch(t)
    \/ SyncRaises(t)

Next == (\E t \in Threads : Act(t)) \/ Crash \/ LoseSidecar \/ Upgrade

Spec == Init /\ [][Next]_vars

-----------------------------------------------------------------------------
(* Properties.                                                             *)

\* Every variable holds a value of its type.
TypeOK ==
    /\ rows \in [Files -> Texts \cup {None}]
    /\ meta \in [compatible: BOOLEAN, count: Nat]
    /\ built \in BOOLEAN /\ docs \in SUBSET Doc
    /\ job \in [Threads -> [pc: Step, search: BOOLEAN, changed: SUBSET Files,
                            records: SUBSET Doc, expected: Nat, count: Nat]]
    /\ torn \in SUBSET Files
    /\ commits \in Nat /\ faults \in Nat

\* However applies, rebuilds and faults interleave, the sidecar never holds two
\* documents of one path, so that the document count of tantivy_index.py counts
\* files and the comparison with the rows is one of like with like.
OneDocPerPath == \A d, e \in docs : d.file = e.file => d = e

Current(f) == Of(f, docs) = Of(f, RowDocs)

\* Crashes, exceptions, a lost directory and upgrades spoil no more than the
\* files of the refresh they cut short: a search that has passed its checks
\* finds every other file by its present words, and by no older ones.
DamageIsConfined ==
    \A t \in Threads :
        job[t].pc = "hits" => \A f \in Files \ torn : Current(f)

\* With one refresh or search at a time, a search that has passed its checks
\* answers from an index with as many documents as there are file rows: an
\* index that a fault has emptied, lost or left short is never searched.
CountsAgree ==
    \A t \in Threads : job[t].pc = "hits" => built /\ Cardinality(docs) = FileCount

\* When nobody is at work and the sidecar would pass every check, so that no later
\* search or refresh repairs it, each file is found by the words of its row
\* (README: no stale evidence is served).
AcceptedIsCurrent ==
    Quiet /\ MetaCurrent(FileCount) /\ Healthy(FileCount) => \A f \in Files : Current(f)

=============================================================================
