----------------------------- MODULE IndexRefresh -----------------------------
(***************************************************************************)
(* The repository index (index.py, class ContextIndex): a working tree     *)
(* that is edited at any moment, the rows LMDB holds for it, the refresh   *)
(* signature that lets a later request skip the walk, the one-second       *)
(* status cache in front of them, and the service threads that refresh     *)
(* and read the index at the same time.                                    *)
(*                                                                         *)
(* A file's size and mtime_ns are one stamp, and every edit takes a new    *)
(* one.  A term row is modelled per content: terms[f] is the set of        *)
(* contents whose index:term rows are stored for f.  Symbol and import     *)
(* rows are deleted by prefix and rewritten in the file row's transaction, *)
(* so the file row stands for them too.                                    *)
(***************************************************************************)
EXTENDS Naturals, FiniteSets

CONSTANTS Files,            \* candidate paths, numbered in walk order
          Texts,            \* file contents
          BinaryTexts,      \* those is_likely_binary refuses
          None,             \* no content
          Tracked,          \* files under version control: git diffs them
          Untracked,        \* files git status names but no diff covers
          Present,          \* what git says of an untracked file
          SignatureSources, \* what git_snapshot can yield: "git", "files"
          Requests,         \* refresh calls: root, scope, max_files, force
          Threads,          \* service and io threads that refresh
          Background,       \* the io thread that recomputes a stale status
          Readers,          \* threads reading one file through the index
          NoStatus,         \* the empty status cache
          MaxStamp          \* bound on the number of edits

Root == {"repo", "dir", "file"}

ASSUME FilesAssumption == Files \subseteq Nat
ASSUME TextsAssumption ==
    BinaryTexts \subseteq Texts /\ None \notin Texts /\ Present \notin Texts
ASSUME RequestsAssumption ==
    /\ Requests \subseteq
           [root: Root, scope: SUBSET Files, limit: Nat \ {0}, force: BOOLEAN]
    /\ \A r \in Requests : r.root = "repo" => r.scope = Files
ASSUME ActorsAssumption ==
    /\ Background \notin Threads
    /\ MaxStamp \in Nat
    /\ SignatureSources \subseteq {"git", "files"}

VARIABLES clock,   \* the last stamp an edit took
          tree,    \* the working tree
          rows,    \* index:file rows
          terms,   \* index:term rows, per file the contents they describe
          stored,  \* index:meta:refresh_signature
          cache,   \* _status_cache
          job,     \* what each thread is doing
          reader,  \* what each reader has seen
          missed   \* history: files whose row a refresh of them alone has overlooked

vars == <<clock, tree, rows, terms, stored, cache, job, reader, missed>>
world == <<clock, tree>>
lmdb == <<rows, terms, stored, missed>>

Version == [stamp: Nat, text: Texts \cup {None}]
Nothing == [stamp |-> 0, text |-> None]

Signature == [src: {"none", "git", "files"},
              stamps: [Files -> Nat],
              texts: [Files -> Texts \cup {None, Present}]]
NoSignature == [src |-> "none", stamps |-> [f \in Files |-> 0],
                texts |-> [f \in Files |-> None]]

Status == [sig: Signature, nonempty: BOOLEAN]
EmptyStatus == [sig |-> NoSignature, nonempty |-> FALSE]

NoRequest == [root |-> "repo", scope |-> {}, limit |-> 1, force |-> TRUE]

Actors == Threads \cup {Background}
Step == {"idle", "status", "decide", "list", "existing", "snapshot", "read",
         "sync", "report", "publish"}
IdleJob == [pc |-> "idle", req |-> NoRequest,
            listing |-> [f \in Files |-> 0], existing |-> [f \in Files |-> Nothing],
            todo |-> {}, puts |-> [f \in Files |-> Nothing], dels |-> {},
            sig |-> NoSignature, seen |-> EmptyStatus]
Closed == [file |-> 0, stamp |-> 0, window |-> {}]

-----------------------------------------------------------------------------
(* What the code computes from the tree and from its own rows.             *)

\* The candidate walk stops after max_files paths, in sorted order.
FirstOf(S, n) == {f \in S : Cardinality({g \in S : g < f}) < n}

\* _iter_candidate_files: path, size and mtime_ns of every candidate.
Listing(r) ==
    LET found == FirstOf({f \in r.scope : tree[f] # Nothing}, r.limit)
    IN  [f \in Files |-> IF f \in found THEN tree[f].stamp ELSE 0]

\* The file-metadata signature hashes the candidates' stats.
FilesSignature(stamps) ==
    IF \E f \in Files : stamps[f] # 0
    THEN [NoSignature EXCEPT !.src = "files", !.stamps = stamps]
    ELSE NoSignature

\* The git signature hashes HEAD, the status and both diffs: the content of
\* tracked files, the names of untracked ones, nothing of ignored ones.
GitSignature ==
    [NoSignature EXCEPT !.src = "git",
        !.texts = [f \in Files |->
            IF f \in Tracked THEN tree[f].text
            ELSE IF f \in Untracked /\ tree[f] # Nothing THEN Present
            ELSE None]]

SignatureOf(src, stamps) ==
    IF src = "git" THEN GitSignature ELSE FilesSignature(stamps)

\* A refresh signs the listing it works from; FreshWalkSignature is the slip of
\* walking the tree a second time.
FreshWalkSignature(t, src) == SignatureOf(src, Listing(job[t].req))
RefreshSignature(t, src) == SignatureOf(src, job[t].listing)

\* A row with no content has no term rows; AnyTermsOf is the slip of filing one.
AnyTermsOf(v) == {v.text}
TermsOf(v) == {v.text} \ {None}

CurrentStatus == [sig |-> stored, nonempty |-> \E f \in Files : rows[f] # Nothing]

Finish(t) == job' = [job EXCEPT ![t] = IdleJob]

-----------------------------------------------------------------------------
(* refresh, one step per call that another thread can run between.         *)

\* index_refresh, a forced refresh, or refresh_if_needed on a scoped path.  A
\* single-file root that does not exist raises FileNotFoundError at once.
Start(t, r) ==
    /\ job[t].pc = "idle"
    /\ r.force \/ r.root # "repo"
    /\ r.root = "file" => \A f \in r.scope : tree[f] # Nothing
    /\ job' = [job EXCEPT ![t].pc = "list", ![t].req = r]
    /\ UNCHANGED <<world, lmdb, cache, reader>>

List(t) ==
    /\ job[t].pc = "list"
    /\ job' = [job EXCEPT ![t].pc = "existing", ![t].listing = Listing(job[t].req)]
    /\ UNCHANGED <<world, lmdb, cache, reader>>

\* A single file that has gone since it was asked for is no file any more: the
\* rows looked for are those of a directory of that name, and there are none.
Overlooked(r, f) == f \in r.scope /\ r.root = "file" /\ tree[f] = Nothing

\* _existing_file_rows, one read transaction over the rows in scope; AnyRow is the
\* slip of taking every row.
AnyRow(r, f) == rows[f]
RowInScope(r, f) ==
    IF f \in r.scope /\ ~Overlooked(r, f) THEN rows[f] ELSE Nothing

ReadExisting(t) ==
    /\ job[t].pc = "existing"
    /\ job' = [job EXCEPT ![t].pc = "snapshot",
           ![t].existing = [f \in Files |-> RowInScope(job[t].req, f)]]
    /\ missed' = missed \cup
           {f \in Files : Overlooked(job[t].req, f) /\ rows[f] # Nothing}
    /\ UNCHANGED <<world, rows, terms, stored, cache, reader>>

\* A candidate is read again unless its stat is its row's; ChangedIfNew is the
\* slip of trusting any row.
ChangedIfNew(t, f) == job[t].listing[f] # 0 /\ job[t].existing[f] = Nothing
Changed(t, f) ==
    job[t].listing[f] # 0 /\ job[t].listing[f] # job[t].existing[f].stamp

\* git_snapshot, then what is to delete and what is to read, all from locals.
Snapshot(t) ==
    LET old == job[t].existing
        new == job[t].listing
    IN  /\ job[t].pc = "snapshot"
        /\ \E src \in SignatureSources :
             job' = [job EXCEPT ![t].pc = "read",
                 ![t].sig = IF job[t].req.root = "repo"
                            THEN RefreshSignature(t, src) ELSE NoSignature,
                 ![t].dels = {f \in Files : old[f] # Nothing /\ new[f] = 0},
                 ![t].todo = {f \in Files : Changed(t, f)}]
        /\ UNCHANGED <<world, lmdb, cache, reader>>

\* The row made for a candidate: the listed stat, the bytes read now.
RowFor(t, f) == [stamp |-> job[t].listing[f], text |-> tree[f].text]

\* A candidate that is gone or binary loses its row, if it had one.
ReadCandidate(t, f) ==
    LET refused == tree[f] = Nothing \/ tree[f].text \in BinaryTexts
    IN  /\ job[t].pc = "read" /\ f \in job[t].todo
        /\ job' = [job EXCEPT ![t].todo = @ \ {f},
               ![t].puts = IF refused THEN @ ELSE [@ EXCEPT ![f] = RowFor(t, f)],
               ![t].dels = IF refused /\ job[t].existing[f] # Nothing
                           THEN @ \cup {f} ELSE @]
        /\ UNCHANGED <<world, lmdb, cache, reader>>

\* A candidate that vanishes between the binary check and read_bytes raises.
ReadRaises(t, f) ==
    /\ job[t].pc = "read" /\ f \in job[t].todo
    /\ tree[f] = Nothing
    /\ Finish(t)
    /\ UNCHANGED <<world, lmdb, cache, reader>>

\* The term rows a commit leaves for f: those of the row the refresh had read
\* go, those of the new row come; TermsKept is the slip of leaving the old ones.
TermsKept(t, f) == terms[f] \cup TermsOf(job[t].puts[f])
TermsAfter(t, f) ==
    (terms[f] \ TermsOf(job[t].existing[f])) \cup TermsOf(job[t].puts[f])

\* The row goes in under the stat that was listed before the bytes were read;
\* Restamped is the slip of taking the stat again when it is written.
Restamped(t, f) == [job[t].puts[f] EXCEPT !.stamp = tree[f].stamp]
Put(t, f) == job[t].puts[f]

\* The single write transaction.  What it wrote is handed on to the sidecar.
Commit(t) ==
    LET dels == job[t].dels
        puts == {f \in Files : job[t].puts[f] # Nothing}
    IN  /\ job[t].pc = "read" /\ job[t].todo = {}
        /\ rows' = [f \in Files |-> IF f \in puts THEN Put(t, f)
                                    ELSE IF f \in dels THEN Nothing ELSE rows[f]]
        /\ terms' = [f \in Files |->
                        IF f \in puts \cup dels THEN TermsAfter(t, f) ELSE terms[f]]
        /\ stored' = IF job[t].req.root = "repo" THEN job[t].sig ELSE stored
        /\ job' = [job EXCEPT ![t] = [IdleJob EXCEPT !.pc = "sync",
               !.req = job[t].req, !.listing = job[t].listing,
               !.puts = job[t].puts, !.dels = dels]]
        /\ UNCHANGED <<world, cache, reader, missed>>

\* The sidecar is synchronised (modules SearchSidecar, RetrievalCache), then the
\* status cache dropped; an exception from the sidecar leaves the old status cached.
InvalidateStatus(t) ==
    /\ job[t].pc = "sync"
    /\ cache' = NoStatus
    /\ job' = [job EXCEPT ![t] = [IdleJob EXCEPT !.pc = "report"]]
    /\ UNCHANGED <<world, lmdb, reader>>

SyncRaises(t) ==
    /\ job[t].pc = "sync"
    /\ Finish(t)
    /\ UNCHANGED <<world, lmdb, cache, reader>>

-----------------------------------------------------------------------------
(* refresh_if_needed on the repository root, and status().                 *)

\* The live signature is computed first; an unavailable one means refresh.
Check(t, r) ==
    /\ job[t].pc = "idle"
    /\ ~r.force /\ r.root = "repo"
    /\ \E src \in SignatureSources :
         LET live == SignatureOf(src, Listing(r))
         IN  job' = [job EXCEPT ![t].req = r, ![t].sig = live,
                 ![t].pc = IF live.src = "none" THEN "list" ELSE "status"]
    /\ UNCHANGED <<world, lmdb, cache, reader>>

\* The index is skipped when it holds files and was stored under the live
\* signature; SkipsOnSource is the slip of comparing where it came from.
SkipsOnSource(status, live) == status.nonempty /\ status.sig.src = live.src
Skips(status, live) == status.nonempty /\ status.sig = live

Decided(t, status) ==
    IF Skips(status, job[t].sig) THEN IdleJob
    ELSE [IdleJob EXCEPT !.pc = "list", !.req = job[t].req]

\* A cached status is used; one older than a second also starts the background
\* recomputation, unless one is already under way.
UseCachedStatus(t) ==
    /\ job[t].pc = "status" /\ cache # NoStatus
    /\ \/ job' = [job EXCEPT ![t] = Decided(t, cache)]
       \/ /\ job[Background].pc = "idle"
          /\ job' = [job EXCEPT ![t] = Decided(t, cache), ![Background].pc = "report"]
    /\ UNCHANGED <<world, lmdb, cache, reader>>

\* _compute_status: read the store, and only then take the lock and publish.
ComputeStatus(a) ==
    /\ \/ job[a].pc = "status" /\ cache = NoStatus
       \/ job[a].pc = "report"
    /\ job' = [job EXCEPT ![a].seen = CurrentStatus,
           ![a].pc = IF @ = "status" THEN "decide" ELSE "publish"]
    /\ UNCHANGED <<world, lmdb, cache, reader>>

PublishStatus(a) ==
    /\ job[a].pc \in {"decide", "publish"}
    /\ cache' = job[a].seen
    /\ job' = [job EXCEPT ![a] =
           IF @.pc = "decide" THEN Decided(a, @.seen) ELSE IdleJob]
    /\ UNCHANGED <<world, lmdb, reader>>

-----------------------------------------------------------------------------
(* Readers: snippet and file_summary stat the file, then serve the row if  *)
(* it is filed under that stat and the file's bytes if not.                *)

OpenRead(r, f) ==
    /\ reader[r] = Closed /\ tree[f] # Nothing
    /\ reader' = [reader EXCEPT ![r] =
           [file |-> f, stamp |-> tree[f].stamp, window |-> {tree[f].text}]]
    /\ UNCHANGED <<world, lmdb, cache, job>>

FinishRead(r) ==
    /\ reader[r] # Closed
    /\ reader' = [reader EXCEPT ![r] = Closed]
    /\ UNCHANGED <<world, lmdb, cache, job>>

-----------------------------------------------------------------------------
(* The environment.                                                        *)

Edit(f) ==
    /\ clock < MaxStamp
    /\ clock' = clock + 1
    /\ \E x \in Texts :
         /\ tree' = [tree EXCEPT ![f] = [stamp |-> clock + 1, text |-> x]]
         /\ reader' = [r \in Readers |->
                IF reader[r].file = f /\ reader[r] # Closed
                THEN [reader[r] EXCEPT !.window = @ \cup {x}] ELSE reader[r]]
    /\ UNCHANGED <<lmdb, cache, job>>

Remove(f) ==
    /\ tree[f] # Nothing
    /\ tree' = [tree EXCEPT ![f] = Nothing]
    /\ UNCHANGED <<clock, lmdb, cache, job, reader>>

\* The process dies and restarts: LMDB keeps what was committed.
Crash ==
    /\ job' = [a \in Actors |-> IdleJob]
    /\ cache' = NoStatus
    /\ reader' = [r \in Readers |-> Closed]
    /\ UNCHANGED <<world, lmdb>>

-----------------------------------------------------------------------------
Init ==
    /\ clock = 0
    /\ tree = [f \in Files |-> Nothing]
    /\ rows = [f \in Files |-> Nothing]
    /\ terms = [f \in Files |-> {}]
    /\ stored = NoSignature
    /\ cache = NoStatus
    /\ job = [a \in Actors |-> IdleJob]
    /\ reader = [r \in Readers |-> Closed]
    /\ missed = {}

Refresh(t) ==
    \/ \E r \in Requests : Start(t, r) \/ Check(t, r)
    \/ List(t) \/ ReadExisting(t) \/ Snapshot(t)
    \/ \E f \in Files : ReadCandidate(t, f) \/ ReadRaises(t, f)
    \/ Commit(t) \/ InvalidateStatus(t) \/ SyncRaises(t)
    \/ UseCachedStatus(t)

Next ==
    \/ \E t \in Threads : Refresh(t)
    \/ \E a \in Actors : ComputeStatus(a) \/ PublishStatus(a)
    \/ \E r \in Readers : FinishRead(r) \/ \E f \in Files : OpenRead(r, f)
    \/ \E f \in Files : Edit(f) \/ Remove(f)
    \/ Crash

Spec == Init /\ [][Next]_vars

-----------------------------------------------------------------------------
(* Properties.                                                             *)

Job == [pc: Step, req: Requests \cup {NoRequest},
        listing: [Files -> Nat], existing: [Files -> Version],
        todo: SUBSET Files, puts: [Files -> Version], dels: SUBSET Files,
        sig: Signature, seen: Status]

\* Every variable holds a value of its type.
TypeOK ==
    /\ clock \in Nat
    /\ tree \in [Files -> Version]
    /\ rows \in [Files -> Version]
    /\ terms \in [Files -> SUBSET Texts]
    /\ stored \in Signature
    /\ cache \in Status \cup {NoStatus}
    /\ job \in [Actors -> Job]
    /\ reader \in [Readers -> [file: Nat, stamp: Nat, window: SUBSET (Texts \cup {None})]]
    /\ missed \in SUBSET Files

\* A version kept for f is no newer than the clock, and one filed under the
\* stat f has now is the text f has now.
Genuine(v, f) ==
    v # Nothing => /\ v.stamp \in 1 .. clock
                   /\ v.stamp = tree[f].stamp => v.text = tree[f].text

\* Whatever edits, refreshes and crashes interleave, an indexed row whose size
\* and mtime equal the file's stat holds the file's present text: the check
\* of _indexed_row (index.py) is enough to serve a row.
RowStampSound == \A f \in Files : Genuine(rows[f], f)

\* A reader that has taken its stat would be served, from the index, only a
\* text the file has had since that stat: the file may be rewritten and
\* reindexed between the stat and the lookup of snippet and file_summary.
ReadsAreLive ==
    \A r \in Readers : LET o == reader[r]
                       IN  o # Closed /\ rows[o.file].stamp = o.stamp
                             => rows[o.file].text \in o.window

Indexable(v) == IF v.text \in BinaryTexts THEN None ELSE v.text

\* t is about to answer that the index need not be refreshed: the status it goes by,
\* the cached one or the one it has just computed, holds files and the signature that
\* it checked, and the tree still has that signature.
AboutToSkip(t) ==
    /\ \/ job[t].pc = "status" /\ cache # NoStatus /\ Skips(cache, job[t].sig)
       \/ job[t].pc = "decide" /\ Skips(job[t].seen, job[t].sig)
    /\ \E src \in SignatureSources :
           job[t].sig = SignatureOf(src, Listing(job[t].req))

\* Every candidate's row is the candidate's present text.  Of rows whose file is gone
\* nothing is said: one that a refresh of its path put beside an older signature may
\* outlive the file under that signature.
IndexIsCurrent(r) ==
    \A f \in Files : Listing(r)[f] # 0 => rows[f].text = Indexable(tree[f])

\* refresh_if_needed skips only where every candidate's row is current, however edits,
\* refreshes, failures and crashes came before, when the status it decides on is one it
\* computes itself or a cached one that is still what the store holds.
SkipMeansCurrent ==
    \A t \in Threads :
        AboutToSkip(t) /\ (job[t].pc = "status" => cache = CurrentStatus)
        => IndexIsCurrent(job[t].req)

\* The same of every cached status (README: unchanged work is not repeated, without
\* serving stale evidence; technical paper: the index is refreshed if stale).  A
\* status cached before the last commit outlives it when the sidecar fails after the
\* commit, or when the background thread publishes late.
SkippedIsCurrent ==
    \A t \in Threads : AboutToSkip(t) => IndexIsCurrent(job[t].req)

\* The term rows of a file are those of its file row, and always hold them.  They
\* hold more only after a refresh of that one file found it gone when it read the
\* rows, and there again when it read the bytes: the old row's terms are then not
\* known, and stay (_delete_file_rows).  README: a changed file's rows are replaced in
\* one transaction, which keeps the index consistent without extra coordination.
TermRowsMatch ==
    \A f \in Files : /\ TermsOf(rows[f]) \subseteq terms[f]
                     /\ f \notin missed => terms[f] = TermsOf(rows[f])

\* A refresh that has just committed, over a scope nobody edited since it was
\* listed, leaves every listed file indexed with its present text, and no row of a
\* file that was not listed, but for a single file that is gone.
CommitIsComplete ==
    \A t \in Threads :
        job[t].pc = "sync" /\ job[t].listing = Listing(job[t].req)
        => \A f \in job[t].req.scope :
             IF job[t].listing[f] # 0 THEN rows[f].text = Indexable(tree[f])
             ELSE job[t].req.root # "file" => rows[f] = Nothing

\* A refresh of one path touches the rows under that path only, whoever else is
\* refreshing: no neighbour's row appears, changes or goes.
ScopedRefreshIsLocal ==
    [][\A f \in Files : rows'[f] # rows[f] =>
         \E t \in Threads : /\ job[t].pc = "read" /\ job'[t].pc = "sync"
                            /\ f \in job[t].req.scope]_rows

\* The abstract promise of the index to its readers.
Copy == INSTANCE StatKeyedCopy WITH copy <- rows
ImplementsCopy == Copy!Spec

=============================================================================
