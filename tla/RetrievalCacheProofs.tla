------------------------- MODULE RetrievalCacheProofs -------------------------
(***************************************************************************)
(* Theorems about IndexRefresh, and about RetrievalCache, which extends it: *)
(* for every number of files, contents, threads, readers, requesters and   *)
(* edits, every request and either kind of signature.  The first part is   *)
(* the index by itself (Spec), the second its caches (CacheSpec).          *)
(***************************************************************************)
EXTENDS RetrievalCache, FiniteSetTheorems, TLAPS

USE FilesAssumption, TextsAssumption, RequestsAssumption, ActorsAssumption

-----------------------------------------------------------------------------
(* Type correctness.                                                       *)

LEMMA NothingIsVersion == Nothing \in Version
BY DEF Nothing, Version

LEMMA NoSignatureType == NoSignature \in Signature
BY DEF NoSignature, Signature

LEMMA EmptyStatusType == EmptyStatus \in Status
BY NoSignatureType DEF EmptyStatus, Status

LEMMA IdleJobType == IdleJob \in Job
BY NothingIsVersion, NoSignatureType, EmptyStatusType DEF IdleJob, Job, Step

\* A listing gives every file a stamp.
LEMMA ListingType ==
    ASSUME TypeOK, NEW r
    PROVE  Listing(r) \in [Files -> Nat]
<1>1. \A f \in Files : tree[f].stamp \in Nat
  BY DEF TypeOK, Version
<1> QED
  BY <1>1 DEF Listing

LEMMA SignatureOfType ==
    ASSUME TypeOK, NEW src, NEW stamps \in [Files -> Nat]
    PROVE  SignatureOf(src, stamps) \in Signature
<1>1. FilesSignature(stamps) \in Signature
  BY NoSignatureType DEF FilesSignature, Signature
<1>2. GitSignature \in Signature
  <2>1. \A f \in Files : tree[f].text \in Texts \cup {None}
    BY DEF TypeOK, Version
  <2> QED
    BY <2>1, NoSignatureType DEF GitSignature, Signature
<1> QED
  BY <1>1, <1>2 DEF SignatureOf

LEMMA CurrentStatusType ==
    ASSUME TypeOK PROVE CurrentStatus \in Status
BY DEF TypeOK, CurrentStatus, Status

LEMMA DecidedType ==
    ASSUME TypeOK, NEW t \in Actors, NEW status
    PROVE  Decided(t, status) \in Job
<1>1. job[t].req \in Requests \cup {NoRequest}
  BY DEF TypeOK, Job
<1> QED
  BY <1>1, IdleJobType DEF Decided, Job, Step

\* A step that replaces one actor's record by another keeps every type.
LEMMA JobStepType ==
    ASSUME TypeOK, NEW a \in Actors, NEW j \in Job,
           job' = [job EXCEPT ![a] = j],
           UNCHANGED <<world, lmdb, cache, reader>>
    PROVE  TypeOK'
BY DEF TypeOK, world, lmdb

\* The steps of one thread that write nothing but its own record.
LEMMA StartType ==
    ASSUME TypeOK, NEW t \in Threads, NEW r \in Requests, Start(t, r)
    PROVE  TypeOK'
<1>1. t \in Actors /\ job[t] \in Job
  BY DEF Actors, TypeOK
<1>2. [job[t] EXCEPT !.pc = "list", !.req = r] \in Job
  BY <1>1 DEF Job, Step
<1>3. job' = [job EXCEPT ![t] = [job[t] EXCEPT !.pc = "list", !.req = r]]
  BY <1>1 DEF Start, TypeOK
<1>4. UNCHANGED <<world, lmdb, cache, reader>>
  BY DEF Start
<1> QED
  BY <1>1, <1>2, <1>3, <1>4, JobStepType

LEMMA CheckType ==
    ASSUME TypeOK, NEW t \in Threads, NEW r \in Requests, Check(t, r)
    PROVE  TypeOK'
<1>1. t \in Actors /\ job[t] \in Job
  BY DEF Actors, TypeOK
<1>2. PICK src \in SignatureSources :
        job' = [job EXCEPT ![t].req = r, ![t].sig = SignatureOf(src, Listing(r)),
                   ![t].pc = IF SignatureOf(src, Listing(r)).src = "none"
                             THEN "list" ELSE "status"]
  BY DEF Check
<1> DEFINE live == SignatureOf(src, Listing(r))
           pc == IF live.src = "none" THEN "list" ELSE "status"
           j == [job[t] EXCEPT !.req = r, !.sig = live, !.pc = pc]
<1>3. live \in Signature
  BY ListingType, SignatureOfType
<1>4. job' = [job EXCEPT ![t] = j]
  BY <1>1, <1>2 DEF TypeOK
<1>5. j \in Job
  <2>1. pc \in Step
    BY DEF Step
  <2> HIDE DEF live, pc
  <2> QED
    BY <1>1, <1>3, <2>1 DEF Job
<1> HIDE DEF j
<1>6. UNCHANGED <<world, lmdb, cache, reader>>
  BY DEF Check
<1> QED
  BY <1>1, <1>4, <1>5, <1>6, JobStepType

LEMMA ListType ==
    ASSUME TypeOK, NEW t \in Threads, List(t)
    PROVE  TypeOK'
<1>1. t \in Actors /\ job[t] \in Job
  BY DEF Actors, TypeOK
<1> DEFINE stamps == Listing(job[t].req)
           j == [job[t] EXCEPT !.pc = "existing", !.listing = stamps]
<1>2. stamps \in [Files -> Nat]
  BY ListingType
<1>3. job' = [job EXCEPT ![t].pc = "existing", ![t].listing = stamps]
  BY DEF List
<1> HIDE DEF stamps
<1>4. job' = [job EXCEPT ![t] = j]
  BY <1>1, <1>3 DEF TypeOK
<1>5. j \in Job
  BY <1>1, <1>2 DEF Job, Step
<1> HIDE DEF j
<1>6. UNCHANGED <<world, lmdb, cache, reader>>
  BY DEF List
<1> QED
  BY <1>1, <1>4, <1>5, <1>6, JobStepType

LEMMA ReadExistingType ==
    ASSUME TypeOK, NEW t \in Threads, ReadExisting(t)
    PROVE  TypeOK'
<1>1. t \in Actors /\ job[t] \in Job
  BY DEF Actors, TypeOK
<1> DEFINE found == [f \in Files |-> RowInScope(job[t].req, f)]
           j == [job[t] EXCEPT !.pc = "snapshot", !.existing = found]
<1>2. found \in [Files -> Version]
  BY NothingIsVersion DEF RowInScope, TypeOK
<1>3. job' = [job EXCEPT ![t].pc = "snapshot", ![t].existing = found]
  BY DEF ReadExisting
<1> HIDE DEF found
<1>4. job' = [job EXCEPT ![t] = j]
  BY <1>1, <1>3 DEF TypeOK
<1>5. j \in Job
  BY <1>1, <1>2 DEF Job, Step
<1> HIDE DEF j
<1>6. job' \in [Actors -> Job]
  BY <1>4, <1>5 DEF TypeOK
<1>7. missed' \in SUBSET Files
  BY DEF ReadExisting, TypeOK
<1> QED
  BY <1>6, <1>7 DEF ReadExisting, TypeOK, world

LEMMA SnapshotType ==
    ASSUME TypeOK, NEW t \in Threads, Snapshot(t)
    PROVE  TypeOK'
<1>1. t \in Actors /\ job[t] \in Job
  BY DEF Actors, TypeOK
<1>2. PICK src \in SignatureSources :
        job' = [job EXCEPT ![t].pc = "read",
            ![t].sig = IF job[t].req.root = "repo"
                       THEN RefreshSignature(t, src) ELSE NoSignature,
            ![t].dels = {f \in Files :
                           job[t].existing[f] # Nothing /\ job[t].listing[f] = 0},
            ![t].todo = {f \in Files : Changed(t, f)}]
  BY DEF Snapshot
<1> DEFINE sig == IF job[t].req.root = "repo"
                  THEN RefreshSignature(t, src) ELSE NoSignature
           dels == {f \in Files : job[t].existing[f] # Nothing /\ job[t].listing[f] = 0}
           todo == {f \in Files : Changed(t, f)}
           j == [job[t] EXCEPT !.pc = "read", !.sig = sig, !.dels = dels, !.todo = todo]
<1>3. sig \in Signature
  <2>1. job[t].listing \in [Files -> Nat]
    BY <1>1 DEF Job
  <2> QED
    BY <2>1, SignatureOfType, NoSignatureType DEF RefreshSignature
<1>4. dels \in SUBSET Files /\ todo \in SUBSET Files
  OBVIOUS
<1>5. job' = [job EXCEPT ![t] = j]
  BY <1>1, <1>2 DEF TypeOK
<1>6. j \in Job
  <2> HIDE DEF sig, dels, todo
  <2> QED
    BY <1>1, <1>3, <1>4 DEF Job, Step
<1> HIDE DEF j
<1>7. UNCHANGED <<world, lmdb, cache, reader>>
  BY DEF Snapshot
<1> QED
  BY <1>1, <1>5, <1>6, <1>7, JobStepType

LEMMA ReadCandidateType ==
    ASSUME TypeOK, NEW t \in Threads, NEW f \in Files, ReadCandidate(t, f)
    PROVE  TypeOK'
<1>1. t \in Actors /\ job[t] \in Job
  BY DEF Actors, TypeOK
<1> DEFINE refused == tree[f] = Nothing \/ tree[f].text \in BinaryTexts
           todo == job[t].todo \ {f}
           puts == IF refused THEN job[t].puts
                   ELSE [job[t].puts EXCEPT ![f] = RowFor(t, f)]
           dels == IF refused /\ job[t].existing[f] # Nothing
                   THEN job[t].dels \cup {f} ELSE job[t].dels
           j == [job[t] EXCEPT !.todo = todo, !.puts = puts, !.dels = dels]
<1>2. todo \in SUBSET Files /\ dels \in SUBSET Files
  BY <1>1 DEF Job
<1>3. puts \in [Files -> Version]
  <2>1. RowFor(t, f) \in Version
    BY <1>1 DEF RowFor, Version, Job, TypeOK
  <2> QED
    BY <1>1, <2>1 DEF Job
<1>4. job' = [job EXCEPT ![t].todo = todo, ![t].puts = puts, ![t].dels = dels]
  BY DEF ReadCandidate
<1> HIDE DEF todo, puts, dels
<1>5. job' = [job EXCEPT ![t] = j]
  BY <1>1, <1>4 DEF TypeOK
<1>6. j \in Job
  BY <1>1, <1>2, <1>3 DEF Job
<1> HIDE DEF j
<1>7. UNCHANGED <<world, lmdb, cache, reader>>
  BY DEF ReadCandidate
<1> QED
  BY <1>1, <1>5, <1>6, <1>7, JobStepType

LEMMA ReadRaisesType ==
    ASSUME TypeOK, NEW t \in Threads, NEW f \in Files, ReadRaises(t, f)
    PROVE  TypeOK'
<1>1. t \in Actors
  BY DEF Actors
<1> QED
  BY <1>1, IdleJobType, JobStepType DEF ReadRaises, Finish

LEMMA CommitType ==
    ASSUME TypeOK, NEW t \in Threads, Commit(t)
    PROVE  TypeOK'
<1>1. t \in Actors /\ job[t] \in Job
  BY DEF Actors, TypeOK
<1>2. rows' \in [Files -> Version]
  BY <1>1, NothingIsVersion DEF Commit, Put, TypeOK, Job
<1>3. terms' \in [Files -> SUBSET Texts]
  <2>1. \A f \in Files : TermsAfter(t, f) \in SUBSET Texts
    BY <1>1 DEF TermsAfter, TermsOf, TypeOK, Job, Version
  <2> QED
    BY <2>1 DEF Commit, TypeOK
<1>4. stored' \in Signature
  BY <1>1 DEF Commit, TypeOK, Job
<1>5. job' \in [Actors -> Job]
  <2> DEFINE j == [IdleJob EXCEPT !.pc = "sync", !.req = job[t].req,
                                  !.listing = job[t].listing,
                                  !.puts = job[t].puts, !.dels = job[t].dels]
  <2>1. j \in Job
    BY <1>1, IdleJobType DEF Job, Step
  <2>2. job' = [job EXCEPT ![t] = j]
    BY DEF Commit
  <2> HIDE DEF j
  <2> QED
    BY <2>1, <2>2 DEF TypeOK
<1> QED
  BY <1>2, <1>3, <1>4, <1>5 DEF Commit, TypeOK, world

LEMMA SyncType ==
    ASSUME TypeOK, NEW t \in Threads, InvalidateStatus(t) \/ SyncRaises(t)
    PROVE  TypeOK'
<1>1. t \in Actors
  BY DEF Actors
<1>2. CASE InvalidateStatus(t)
  <2> DEFINE j == [IdleJob EXCEPT !.pc = "report"]
  <2>1. j \in Job
    BY IdleJobType DEF Job, Step
  <2>2. job' = [job EXCEPT ![t] = j]
    BY <1>2 DEF InvalidateStatus
  <2> HIDE DEF j
  <2>3. job' \in [Actors -> Job]
    BY <2>1, <2>2 DEF TypeOK
  <2> QED
    BY <1>2, <2>3 DEF InvalidateStatus, TypeOK, world, lmdb
<1>3. CASE SyncRaises(t)
  BY <1>1, <1>3, IdleJobType, JobStepType DEF SyncRaises, Finish
<1> QED
  BY <1>2, <1>3

LEMMA StatusType ==
    ASSUME TypeOK, NEW t \in Threads, UseCachedStatus(t)
    PROVE  TypeOK'
<1>1. t \in Actors /\ Background \in Actors /\ t # Background
  BY DEF Actors
<1> DEFINE d == Decided(t, cache)
           b == [job[Background] EXCEPT !.pc = "report"]
<1>2. d \in Job
  BY <1>1, DecidedType
<1>3. b \in Job
  <2>1. job[Background] \in Job
    BY <1>1 DEF TypeOK
  <2> QED
    BY <2>1 DEF Job, Step
<1>4. \/ job' = [job EXCEPT ![t] = d]
      \/ job' = [job EXCEPT ![t] = d, ![Background].pc = "report"]
  BY DEF UseCachedStatus
<1> HIDE DEF d
<1>5. job' \in [Actors -> Job]
  BY <1>1, <1>2, <1>3, <1>4 DEF TypeOK
<1> QED
  BY <1>5 DEF UseCachedStatus, TypeOK, world, lmdb

LEMMA ComputeStatusType ==
    ASSUME TypeOK, NEW a \in Actors, ComputeStatus(a)
    PROVE  TypeOK'
<1>1. job[a] \in Job
  BY DEF TypeOK
<1> DEFINE seen == CurrentStatus
           pc == IF job[a].pc = "status" THEN "decide" ELSE "publish"
           j == [job[a] EXCEPT !.seen = seen, !.pc = pc]
<1>2. seen \in Status
  BY CurrentStatusType
<1>3. pc \in Step
  BY DEF Step
<1>4. job' = [job EXCEPT ![a].seen = seen, ![a].pc = pc]
  BY DEF ComputeStatus
<1> HIDE DEF seen, pc
<1>5. job' = [job EXCEPT ![a] = j]
  BY <1>1, <1>4 DEF TypeOK
<1>6. j \in Job
  BY <1>1, <1>2, <1>3 DEF Job
<1> HIDE DEF j
<1>7. UNCHANGED <<world, lmdb, cache, reader>>
  BY DEF ComputeStatus
<1> QED
  BY <1>5, <1>6, <1>7, JobStepType

LEMMA PublishStatusType ==
    ASSUME TypeOK, NEW a \in Actors, PublishStatus(a)
    PROVE  TypeOK'
<1> DEFINE j == IF job[a].pc = "decide" THEN Decided(a, job[a].seen) ELSE IdleJob
<1>1. job[a] \in Job
  BY DEF TypeOK
<1>2. j \in Job
  BY DecidedType, IdleJobType
<1>3. cache' \in Status
  BY <1>1 DEF PublishStatus, Job
<1>4. job' = [job EXCEPT ![a] = j]
  BY DEF PublishStatus, TypeOK
<1> HIDE DEF j
<1>5. job' \in [Actors -> Job]
  BY <1>2, <1>4 DEF TypeOK
<1> QED
  BY <1>3, <1>5 DEF PublishStatus, TypeOK, world, lmdb

LEMMA ReaderType ==
    ASSUME TypeOK, NEW r \in Readers,
           FinishRead(r) \/ \E f \in Files : OpenRead(r, f)
    PROVE  TypeOK'
<1> DEFINE Opened == [file: Nat, stamp: Nat, window: SUBSET (Texts \cup {None})]
<1>1. ASSUME NEW o \in Opened, reader' = [reader EXCEPT ![r] = o]
      PROVE  reader' \in [Readers -> Opened]
  BY <1>1 DEF TypeOK
<1>2. CASE FinishRead(r)
  <2>1. Closed \in Opened
    BY DEF Closed
  <2> QED
    BY <1>1, <1>2, <2>1 DEF FinishRead, TypeOK, world, lmdb
<1>3. CASE \E f \in Files : OpenRead(r, f)
  <2>1. PICK f \in Files : OpenRead(r, f)
    BY <1>3
  <2> DEFINE o == [file |-> f, stamp |-> tree[f].stamp, window |-> {tree[f].text}]
  <2>2. o \in Opened
    BY DEF TypeOK, Version
  <2>3. reader' = [reader EXCEPT ![r] = o]
    BY <2>1 DEF OpenRead
  <2> HIDE DEF o
  <2> QED
    BY <1>1, <2>1, <2>2, <2>3 DEF OpenRead, TypeOK, world, lmdb
<1> QED
  BY <1>2, <1>3

LEMMA EditType ==
    ASSUME TypeOK, NEW f \in Files, Edit(f)
    PROVE  TypeOK'
<1> DEFINE Opened == [file: Nat, stamp: Nat, window: SUBSET (Texts \cup {None})]
<1>1. PICK x \in Texts :
        /\ tree' = [tree EXCEPT ![f] = [stamp |-> clock + 1, text |-> x]]
        /\ reader' = [r \in Readers |->
              IF reader[r].file = f /\ reader[r] # Closed
              THEN [reader[r] EXCEPT !.window = @ \cup {x}] ELSE reader[r]]
  BY DEF Edit
<1>2. clock' \in Nat /\ tree' \in [Files -> Version]
  BY <1>1 DEF Edit, TypeOK, Version
<1>3. \A r \in Readers : reader[r] \in Opened
  BY DEF TypeOK
<1>4. \A r \in Readers : [reader[r] EXCEPT !.window = @ \cup {x}] \in Opened
  BY <1>3
<1>5. reader' \in [Readers -> Opened]
  BY <1>1, <1>3, <1>4
<1> QED
  BY <1>2, <1>5 DEF Edit, TypeOK, lmdb

LEMMA RemoveCrashType ==
    ASSUME TypeOK, Crash \/ \E f \in Files : Remove(f)
    PROVE  TypeOK'
<1>1. CASE Crash
  BY <1>1, IdleJobType DEF Crash, TypeOK, Closed, world, lmdb
<1>2. CASE \E f \in Files : Remove(f)
  BY <1>2, NothingIsVersion DEF Remove, TypeOK, lmdb
<1> QED
  BY <1>1, <1>2

LEMMA TypeInit == Init => TypeOK
BY NothingIsVersion, NoSignatureType, IdleJobType DEF Init, TypeOK, Closed

LEMMA TypeStep ==
    ASSUME TypeOK, [Next]_vars
    PROVE  TypeOK'
<1>1. CASE \E t \in Threads : Refresh(t)
  BY <1>1, StartType, CheckType, ListType, ReadExistingType, SnapshotType,
     ReadCandidateType, ReadRaisesType, CommitType, SyncType, StatusType
  DEF Refresh
<1>2. CASE \E a \in Actors : ComputeStatus(a) \/ PublishStatus(a)
  BY <1>2, ComputeStatusType, PublishStatusType
<1>3. CASE \E r \in Readers : FinishRead(r) \/ \E f \in Files : OpenRead(r, f)
  BY <1>3, ReaderType
<1>4. CASE \E f \in Files : Edit(f) \/ Remove(f)
  BY <1>4, EditType, RemoveCrashType
<1>5. CASE Crash
  BY <1>5, RemoveCrashType
<1>6. CASE UNCHANGED vars
  BY <1>6 DEF vars, TypeOK
<1> QED
  BY <1>1, <1>2, <1>3, <1>4, <1>5, <1>6 DEF Next

\* Every variable always holds a value of its type.
THEOREM TypeCorrect == Spec => []TypeOK
<1>1. TypeOK /\ [Next]_vars => TypeOK'
  BY TypeStep
<1> QED
  BY <1>1, TypeInit, PTL DEF Spec

-----------------------------------------------------------------------------
(* What a step can do to the work in hand, to the rows and to the readers. *)

\* A thread has candidates left to read only while it reads, and listed them.
TodoSound ==
    \A a \in Actors :
        /\ job[a].pc # "read" => job[a].todo = {}
        /\ \A f \in job[a].todo : job[a].listing[f] # 0

\* The record j may follow actor a's: a listing shows stamps the tree has, and
\* a row comes from a candidate that was listed and is there.
MovesTo(a, j) ==
    /\ j.pc # "read" => j.todo = {}
    /\ \A f \in j.todo : j.listing[f] # 0
    /\ \A f \in Files :
         /\ j.listing[f] \in {job[a].listing[f], 0, tree[f].stamp}
         /\ \/ j.puts[f] \in {job[a].puts[f], Nothing}
            \/ /\ f \in job[a].todo /\ tree[f] # Nothing
               /\ tree[f].text \notin BinaryTexts
               /\ j.puts[f] = RowFor(a, f)

JobMoves == \A a \in Actors : MovesTo(a, job'[a])

RowMoves ==
    \A f \in Files : \/ rows'[f] \in {rows[f], Nothing}
                     \/ \E a \in Actors : rows'[f] = job[a].puts[f]

ReaderMoves ==
    \A r \in Readers :
        \/ reader'[r] \in {reader[r], Closed}
        \/ \E f \in Files : /\ tree[f] # Nothing
                            /\ reader'[r] = [file |-> f, stamp |-> tree[f].stamp,
                                             window |-> {tree[f].text}]

LEMMA StayMoves ==
    ASSUME TodoSound, NEW a \in Actors
    PROVE  MovesTo(a, job[a])
BY DEF TodoSound, MovesTo

LEMMA IdleMoves ==
    ASSUME NEW a \in Actors
    PROVE  MovesTo(a, IdleJob)
BY DEF MovesTo, IdleJob

LEMMA OneMoves ==
    ASSUME TypeOK, TodoSound, NEW a \in Actors, NEW j, MovesTo(a, j),
           job' = [job EXCEPT ![a] = j]
    PROVE  JobMoves
<1>1. ASSUME NEW b \in Actors PROVE MovesTo(b, job'[b])
  <2>1. job'[b] = IF b = a THEN j ELSE job[b]
    BY DEF TypeOK
  <2> QED
    BY <2>1, StayMoves
<1> QED
  BY <1>1 DEF JobMoves

LEMMA DecidedMoves ==
    ASSUME TypeOK, TodoSound, NEW a \in Actors, NEW status
    PROVE  MovesTo(a, Decided(a, status))
BY IdleMoves DEF MovesTo, Decided, IdleJob

LEMMA ThreadMoves ==
    ASSUME TypeOK, TodoSound, NEW t \in Threads, Refresh(t)
    PROVE  JobMoves
<1>1. t \in Actors /\ job[t] \in Job /\ job \in [Actors -> Job]
  BY DEF Actors, TypeOK
<1>2. /\ job[t].pc # "read" => job[t].todo = {}
      /\ \A f \in job[t].todo : job[t].listing[f] # 0
  BY <1>1 DEF TodoSound
<1>3. CASE \E r \in Requests : Start(t, r)
  <2>1. PICK r \in Requests : Start(t, r)
    BY <1>3
  <2> DEFINE j == [job[t] EXCEPT !.pc = "list", !.req = r]
  <2>2. job' = [job EXCEPT ![t] = j]
    BY <1>1, <2>1 DEF Start
  <2>3. MovesTo(t, j)
    BY <1>1, <1>2, <2>1 DEF MovesTo, Start, Job
  <2> QED
    BY <1>1, <2>2, <2>3, OneMoves
<1>4. CASE \E r \in Requests : Check(t, r)
  <2>1. PICK r \in Requests, src \in SignatureSources :
          /\ job[t].pc = "idle"
          /\ job' = [job EXCEPT ![t].req = r, ![t].sig = SignatureOf(src, Listing(r)),
                   ![t].pc = IF SignatureOf(src, Listing(r)).src = "none"
                             THEN "list" ELSE "status"]
    BY <1>4 DEF Check
  <2> DEFINE live == SignatureOf(src, Listing(r))
             pc == IF live.src = "none" THEN "list" ELSE "status"
             j == [job[t] EXCEPT !.req = r, !.sig = live, !.pc = pc]
  <2>2. pc # "read"
    OBVIOUS
  <2>3. job' = [job EXCEPT ![t] = j]
    BY <1>1, <2>1
  <2> HIDE DEF live, pc
  <2>4. MovesTo(t, j)
    BY <1>1, <1>2, <2>1, <2>2 DEF MovesTo, Job
  <2> QED
    BY <1>1, <2>3, <2>4, OneMoves
<1>5. CASE List(t)
  <2> DEFINE stamps == Listing(job[t].req)
             j == [job[t] EXCEPT !.pc = "existing", !.listing = stamps]
  <2>1. \A f \in Files : stamps[f] \in {0, tree[f].stamp}
    BY DEF Listing
  <2>2. job' = [job EXCEPT ![t].pc = "existing", ![t].listing = stamps]
    BY <1>5 DEF List
  <2> HIDE DEF stamps
  <2>3. job' = [job EXCEPT ![t] = j]
    BY <1>1, <2>2
  <2>4. MovesTo(t, j)
    BY <1>1, <1>2, <1>5, <2>1 DEF MovesTo, Job, List
  <2> QED
    BY <1>1, <2>3, <2>4, OneMoves
<1>6. CASE ReadExisting(t)
  <2> DEFINE found == [f \in Files |-> RowInScope(job[t].req, f)]
             j == [job[t] EXCEPT !.pc = "snapshot", !.existing = found]
  <2>1. job' = [job EXCEPT ![t].pc = "snapshot", ![t].existing = found]
    BY <1>6 DEF ReadExisting
  <2> HIDE DEF found
  <2>2. job' = [job EXCEPT ![t] = j]
    BY <1>1, <2>1
  <2>3. MovesTo(t, j)
    BY <1>1, <1>2, <1>6 DEF MovesTo, Job, ReadExisting
  <2> QED
    BY <1>1, <2>2, <2>3, OneMoves
<1>7. CASE Snapshot(t)
  <2>1. PICK sig, dels :
        job' = [job EXCEPT ![t].pc = "read", ![t].sig = sig, ![t].dels = dels,
                    ![t].todo = {f \in Files : Changed(t, f)}]
    BY <1>7 DEF Snapshot
  <2> DEFINE todo == {f \in Files : Changed(t, f)}
             j == [job[t] EXCEPT !.pc = "read", !.sig = sig, !.dels = dels, !.todo = todo]
  <2>2. \A f \in todo : job[t].listing[f] # 0
    BY DEF Changed
  <2>3. job' = [job EXCEPT ![t] = j]
    BY <1>1, <2>1
  <2> HIDE DEF todo
  <2>4. MovesTo(t, j)
    BY <1>1, <2>2 DEF MovesTo, Job
  <2> QED
    BY <1>1, <2>3, <2>4, OneMoves
<1>8. CASE \E f \in Files : ReadCandidate(t, f)
  <2>1. PICK f \in Files : ReadCandidate(t, f)
    BY <1>8
  <2> DEFINE refused == tree[f] = Nothing \/ tree[f].text \in BinaryTexts
             todo == job[t].todo \ {f}
             puts == IF refused THEN job[t].puts
                     ELSE [job[t].puts EXCEPT ![f] = RowFor(t, f)]
             dels == IF refused /\ job[t].existing[f] # Nothing
                     THEN job[t].dels \cup {f} ELSE job[t].dels
             j == [job[t] EXCEPT !.todo = todo, !.puts = puts, !.dels = dels]
  <2>2. \A g \in Files :
           \/ puts[g] = job[t].puts[g]
           \/ /\ g \in job[t].todo /\ tree[g] # Nothing
              /\ tree[g].text \notin BinaryTexts
              /\ puts[g] = RowFor(t, g)
    BY <1>1, <2>1 DEF ReadCandidate, Job
  <2>3. job' = [job EXCEPT ![t].todo = todo, ![t].puts = puts, ![t].dels = dels]
    BY <2>1 DEF ReadCandidate
  <2>4. \A g \in todo : g \in job[t].todo
    OBVIOUS
  <2>5. job[t].pc = "read"
    BY <2>1 DEF ReadCandidate
  <2> HIDE DEF puts, dels, todo
  <2>6. job' = [job EXCEPT ![t] = j]
    BY <1>1, <2>3
  <2>7. MovesTo(t, j)
    BY <1>1, <1>2, <2>2, <2>4, <2>5 DEF MovesTo, Job
  <2> QED
    BY <1>1, <2>6, <2>7, OneMoves
<1>9. CASE (\E f \in Files : ReadRaises(t, f)) \/ SyncRaises(t)
  BY <1>1, <1>9, IdleMoves, OneMoves DEF ReadRaises, SyncRaises, Finish
<1>10. CASE Commit(t)
  <2> DEFINE j == [IdleJob EXCEPT !.pc = "sync", !.req = job[t].req,
                                  !.listing = job[t].listing,
                                  !.puts = job[t].puts, !.dels = job[t].dels]
  <2>1. job' = [job EXCEPT ![t] = j]
    BY <1>10 DEF Commit
  <2>2. MovesTo(t, j)
    BY <1>1 DEF MovesTo, IdleJob
  <2> QED
    BY <1>1, <2>1, <2>2, OneMoves
<1>11. CASE InvalidateStatus(t)
  <2> DEFINE j == [IdleJob EXCEPT !.pc = "report"]
  <2>1. job' = [job EXCEPT ![t] = j]
    BY <1>11 DEF InvalidateStatus
  <2>2. MovesTo(t, j)
    BY <1>1 DEF MovesTo, IdleJob
  <2> QED
    BY <1>1, <2>1, <2>2, OneMoves
<1>12. CASE UseCachedStatus(t)
  <2> DEFINE d == Decided(t, cache)
             b == [job[Background] EXCEPT !.pc = "report"]
  <2>1. Background \in Actors /\ job[Background] \in Job /\ t # Background
    BY <1>1 DEF Actors
  <2>2. MovesTo(t, d)
    BY <1>1, DecidedMoves
  <2>3. CASE job' = [job EXCEPT ![t] = d]
    BY <1>1, <2>2, <2>3, OneMoves
  <2>4. CASE /\ job[Background].pc = "idle"
             /\ job' = [job EXCEPT ![t] = d, ![Background].pc = "report"]
    <3>1. MovesTo(Background, b)
      BY <2>1, <2>4 DEF MovesTo, Job, TodoSound
    <3> HIDE DEF d
    <3>2. \A a \in Actors : job'[a] = IF a = t THEN d
                                      ELSE IF a = Background THEN b ELSE job[a]
      BY <1>1, <2>1, <2>4
    <3> HIDE DEF b
    <3> QED
      BY <2>2, <3>1, <3>2, StayMoves DEF JobMoves
  <2> QED
    BY <1>12, <2>3, <2>4 DEF UseCachedStatus
<1> QED
  BY <1>3, <1>4, <1>5, <1>6, <1>7, <1>8, <1>9, <1>10, <1>11, <1>12 DEF Refresh

LEMMA StatusMoves ==
    ASSUME TypeOK, TodoSound, NEW a \in Actors, ComputeStatus(a) \/ PublishStatus(a)
    PROVE  JobMoves
<1>1. job[a] \in Job /\ job \in [Actors -> Job]
  BY DEF TypeOK
<1>2. CASE ComputeStatus(a)
  <2> DEFINE seen == CurrentStatus
             pc == IF job[a].pc = "status" THEN "decide" ELSE "publish"
             j == [job[a] EXCEPT !.seen = seen, !.pc = pc]
  <2>1. job' = [job EXCEPT ![a].seen = seen, ![a].pc = pc]
    BY <1>2 DEF ComputeStatus
  <2>2. job[a].pc # "read" /\ pc # "read"
    BY <1>2 DEF ComputeStatus
  <2> HIDE DEF seen, pc
  <2>3. job' = [job EXCEPT ![a] = j]
    BY <1>1, <2>1
  <2>4. MovesTo(a, j)
    BY <1>1, <2>2 DEF MovesTo, Job, TodoSound
  <2> QED
    BY <2>3, <2>4, OneMoves
<1>3. CASE PublishStatus(a)
  <2> DEFINE j == IF job[a].pc = "decide" THEN Decided(a, job[a].seen) ELSE IdleJob
  <2>1. job' = [job EXCEPT ![a] = j]
    BY <1>1, <1>3 DEF PublishStatus
  <2>2. MovesTo(a, j)
    BY DecidedMoves, IdleMoves
  <2> HIDE DEF j
  <2> QED
    BY <2>1, <2>2, OneMoves
<1> QED
  BY <1>2, <1>3

\* Every step either edits or removes one file and touches nothing else but the
\* windows of its readers, or leaves the tree alone and moves as above.
LEMMA StepMoves ==
    ASSUME TypeOK, TodoSound, Next
    PROVE  \/ UNCHANGED <<clock, tree>> /\ JobMoves /\ RowMoves /\ ReaderMoves
           \/ \E f \in Files : Edit(f) \/ Remove(f)
<1>1. ASSUME NEW t \in Threads, Refresh(t)
      PROVE  UNCHANGED <<clock, tree>> /\ JobMoves /\ RowMoves /\ ReaderMoves
  <2>1. JobMoves
    BY <1>1, ThreadMoves
  <2>2. UNCHANGED <<clock, tree, reader>>
    BY <1>1 DEF Refresh, Start, Check, List, ReadExisting, Snapshot, ReadCandidate,
       ReadRaises, Commit, InvalidateStatus, SyncRaises, UseCachedStatus, world
  <2>3. rows' = rows \/ Commit(t)
    BY <1>1 DEF Refresh, Start, Check, List, ReadExisting, Snapshot, ReadCandidate,
       ReadRaises, InvalidateStatus, SyncRaises, UseCachedStatus, lmdb
  <2>4. RowMoves
    BY <2>3 DEF RowMoves, Commit, Put, Actors
  <2> QED
    BY <2>1, <2>2, <2>4 DEF ReaderMoves
<1>2. ASSUME NEW a \in Actors, ComputeStatus(a) \/ PublishStatus(a)
      PROVE  UNCHANGED <<clock, tree>> /\ JobMoves /\ RowMoves /\ ReaderMoves
  <2>1. UNCHANGED <<clock, tree, rows, reader>>
    BY <1>2 DEF ComputeStatus, PublishStatus, world, lmdb
  <2> QED
    BY <1>2, <2>1, StatusMoves DEF RowMoves, ReaderMoves
<1>3. ASSUME NEW r \in Readers, FinishRead(r) \/ \E f \in Files : OpenRead(r, f)
      PROVE  UNCHANGED <<clock, tree>> /\ JobMoves /\ RowMoves /\ ReaderMoves
  <2>1. UNCHANGED <<clock, tree, rows, job>>
    BY <1>3 DEF FinishRead, OpenRead, world, lmdb
  <2>2. JobMoves
    BY <2>1, StayMoves DEF JobMoves
  <2>3. ReaderMoves
    BY <1>3 DEF ReaderMoves, FinishRead, OpenRead, TypeOK
  <2> QED
    BY <2>1, <2>2, <2>3 DEF RowMoves
<1>4. ASSUME Crash
      PROVE  UNCHANGED <<clock, tree>> /\ JobMoves /\ RowMoves /\ ReaderMoves
  BY <1>4, IdleMoves DEF Crash, JobMoves, RowMoves, ReaderMoves, world, lmdb
<1> QED
  BY <1>1, <1>2, <1>3, <1>4 DEF Next

-----------------------------------------------------------------------------
(* The rows: no step files a text under a stat it was not read under.      *)

\* What makes RowStampSound inductive: stamps the tree, the listings and the
\* prepared rows hold are past, and a prepared row is as sound as a filed one.
StampsPast ==
    /\ \A f \in Files : tree[f] = Nothing \/ tree[f].stamp \in 1 .. clock
    /\ \A a \in Actors, f \in Files : job[a].listing[f] \in 0 .. clock

PutsSound == \A a \in Actors, f \in Files : Genuine(job[a].puts[f], f)

RowsInv == TypeOK /\ TodoSound /\ StampsPast /\ PutsSound /\ RowStampSound

\* An edit gives the file a stamp nothing holds yet.
LEMMA GenuineEdit ==
    ASSUME TypeOK, NEW f \in Files, Edit(f), NEW g \in Files, NEW v \in Version,
           Genuine(v, g)
    PROVE  Genuine(v, g)'
BY DEF TypeOK, Edit, Genuine, Version

LEMMA GenuineRemove ==
    ASSUME TypeOK, NEW f \in Files, Remove(f), NEW g \in Files, NEW v \in Version,
           Genuine(v, g)
    PROVE  Genuine(v, g)'
BY DEF TypeOK, Remove, Genuine, Version, Nothing, world

\* A row made from a listed candidate that is still there is sound.
LEMMA RowForGenuine ==
    ASSUME TypeOK, TodoSound, StampsPast, NEW a \in Actors, NEW f \in job[a].todo,
           f \in Files
    PROVE  Genuine(RowFor(a, f), f)
BY DEF TypeOK, TodoSound, StampsPast, Genuine, RowFor, Job

LEMMA RowsStep ==
    ASSUME RowsInv, [Next]_vars
    PROVE  RowsInv'
<1> USE DEF RowsInv
<1>1. TypeOK'
  BY TypeStep
<1>2. CASE UNCHANGED vars
  BY <1>2 DEF vars, TypeOK, TodoSound, StampsPast, PutsSound, RowStampSound, Genuine
<1>3. CASE UNCHANGED <<clock, tree>> /\ JobMoves /\ RowMoves
  <2>1. TodoSound'
    BY <1>3 DEF JobMoves, MovesTo, TodoSound
  <2>2. StampsPast'
    <3>1. ASSUME NEW a \in Actors, NEW f \in Files
          PROVE  job'[a].listing[f] \in 0 .. clock
      <4>1. job'[a].listing[f] \in {job[a].listing[f], 0, tree[f].stamp}
        BY <1>3 DEF JobMoves, MovesTo
      <4>2. tree[f].stamp \in 0 .. clock
        BY DEF StampsPast, Nothing, TypeOK
      <4> QED
        BY <4>1, <4>2 DEF StampsPast, TypeOK
    <3> QED
      BY <1>3, <3>1 DEF StampsPast
  <2>3. PutsSound'
    <3>1. ASSUME NEW a \in Actors, NEW f \in Files
          PROVE  Genuine(job'[a].puts[f], f)
      <4>1. \/ job'[a].puts[f] \in {job[a].puts[f], Nothing}
            \/ f \in job[a].todo /\ job'[a].puts[f] = RowFor(a, f)
        BY <1>3 DEF JobMoves, MovesTo
      <4> QED
        BY <4>1, RowForGenuine DEF PutsSound, Genuine
    <3> QED
      BY <1>3, <3>1 DEF PutsSound, Genuine
  <2>4. RowStampSound'
    BY <1>3 DEF RowMoves, RowStampSound, PutsSound, Genuine
  <2> QED
    BY <1>1, <2>1, <2>2, <2>3, <2>4
<1>4. CASE \E f \in Files : Edit(f) \/ Remove(f)
  <2>1. PICK f \in Files : Edit(f) \/ Remove(f)
    BY <1>4
  <2>2. job' = job /\ rows' = rows
    BY <2>1 DEF Edit, Remove, lmdb
  <2>3. ASSUME NEW g \in Files, NEW v \in Version, Genuine(v, g)
        PROVE  Genuine(v, g)'
    BY <2>1, <2>3, GenuineEdit, GenuineRemove
  <2>4. TodoSound'
    BY <2>2 DEF TodoSound
  <2>5. StampsPast'
    BY <2>1, <2>2 DEF StampsPast, Edit, Remove, TypeOK, world, Job
  <2>6. PutsSound'
    <3>1. ASSUME NEW a \in Actors, NEW g \in Files
          PROVE  Genuine(job[a].puts[g], g)'
      <4>1. job[a].puts[g] \in Version /\ Genuine(job[a].puts[g], g)
        BY DEF TypeOK, Job, PutsSound
      <4> QED
        BY <2>2, <2>3, <4>1 DEF Genuine
    <3> QED
      BY <3>1 DEF PutsSound
  <2>7. RowStampSound'
    <3>1. ASSUME NEW g \in Files
          PROVE  Genuine(rows[g], g)'
      <4>1. rows[g] \in Version /\ Genuine(rows[g], g)
        BY DEF TypeOK, RowStampSound
      <4> QED
        BY <2>2, <2>3, <4>1 DEF Genuine
    <3> QED
      BY <3>1 DEF RowStampSound
  <2> QED
    BY <1>1, <2>4, <2>5, <2>6, <2>7
<1> QED
  BY <1>2, <1>3, <1>4, StepMoves

LEMMA RowsInit == Init => RowsInv
<1> SUFFICES ASSUME Init PROVE RowsInv
  OBVIOUS
<1>1. \A a \in Actors : job[a] = IdleJob
  BY DEF Init
<1>2. TodoSound /\ PutsSound
  BY <1>1 DEF TodoSound, PutsSound, Genuine, IdleJob
<1>3. StampsPast /\ RowStampSound
  BY <1>1 DEF Init, StampsPast, RowStampSound, Genuine, IdleJob
<1> QED
  BY <1>2, <1>3, TypeInit DEF RowsInv

LEMMA RowsInvariant == Spec => []RowsInv
<1>1. RowsInv /\ [Next]_vars => RowsInv'
  BY RowsStep
<1> QED
  BY <1>1, RowsInit, PTL DEF Spec

\* However many threads refresh, whatever is edited or removed meanwhile and
\* wherever the process dies, a row filed under a file's present size and mtime
\* is the file's present text.
THEOREM RowsSound == Spec => []RowStampSound
<1>1. RowsInv => RowStampSound
  BY DEF RowsInv
<1> QED
  BY <1>1, RowsInvariant, PTL

-----------------------------------------------------------------------------
(* The index implements its abstract promise, StatKeyedCopy.               *)

\* A commit replaces rows by sound ones or drops them.
LEMMA CommitRefiles ==
    ASSUME RowsInv, UNCHANGED <<clock, tree>>, RowMoves, rows' \in [Files -> Version]
    PROVE  Copy!Refile
<1>1. ASSUME NEW f \in Files
      PROVE  rows'[f] = rows[f] \/ Copy!Genuine(rows'[f], f)
  BY DEF RowsInv, RowMoves, PutsSound, Genuine, Nothing, Copy!Genuine, Copy!Nothing
<1> QED
  BY <1>1 DEF Copy!Refile, Copy!Version, Version

\* Every behaviour of the index, seen through clock, tree and rows, is one of
\* StatKeyedCopy: refreshes, status reports, readers and crashes included.
THEOREM IndexImplementsCopy == Spec => ImplementsCopy
<1>1. Init => Copy!Init
  BY DEF Init, Nothing, Copy!Init, Copy!Nothing
<1>2. RowsInv /\ RowsInv' /\ [Next]_vars => [Copy!Next]_Copy!vars
  <2> SUFFICES ASSUME RowsInv, RowsInv', [Next]_vars
               PROVE  [Copy!Next]_Copy!vars
    OBVIOUS
  <2>1. CASE UNCHANGED vars
    BY <2>1 DEF vars, Copy!vars
  <2>2. CASE UNCHANGED <<clock, tree>> /\ RowMoves
    <3>1. rows' \in [Files -> Version]
      BY DEF RowsInv, TypeOK
    <3> QED
      BY <2>2, <3>1, CommitRefiles DEF Copy!Next
  <2>3. ASSUME NEW f \in Files, Edit(f)
        PROVE  Copy!Edit(f)
    BY <2>3 DEF Edit, Copy!Edit, lmdb
  <2>4. ASSUME NEW f \in Files, Remove(f)
        PROVE  Copy!Remove(f)
    BY <2>4 DEF Remove, Copy!Remove, Nothing, Copy!Nothing, lmdb
  <2> QED
    BY <2>1, <2>2, <2>3, <2>4, StepMoves DEF RowsInv, Copy!Next
<1> QED
  BY <1>1, <1>2, RowsInvariant, PTL DEF Spec, ImplementsCopy, Copy!Spec

-----------------------------------------------------------------------------
(* The readers.                                                            *)

\* Version v, kept for file f, is one a reader of f may be shown.
Shown(v, o) == v.stamp = o.stamp => v.text \in o.window

\* What makes ReadsAreLive inductive: a reader's stat is past, its window holds
\* the present text, and rows in preparation satisfy what filed rows do.
WindowsSound ==
    \A r \in Readers : LET o == reader[r] IN o # Closed =>
        /\ o.file \in Files
        /\ o.stamp \in 1 .. clock
        /\ tree[o.file] # Nothing => tree[o.file].text \in o.window
        /\ Shown(rows[o.file], o)
        /\ \A a \in Actors : Shown(job[a].puts[o.file], o)

LEMMA WindowsStep ==
    ASSUME RowsInv, WindowsSound, [Next]_vars
    PROVE  WindowsSound'
<1>1. CASE UNCHANGED vars
  BY <1>1 DEF vars, WindowsSound, Shown
<1>2. CASE UNCHANGED <<clock, tree>> /\ JobMoves /\ RowMoves /\ ReaderMoves
  <2> SUFFICES ASSUME NEW r \in Readers, reader'[r] # Closed
               PROVE  LET o == reader'[r] IN
                        /\ o.file \in Files
                        /\ o.stamp \in 1 .. clock
                        /\ tree[o.file] # Nothing => tree[o.file].text \in o.window
                        /\ Shown(rows'[o.file], o)
                        /\ \A a \in Actors : Shown(job'[a].puts[o.file], o)
    BY <1>2 DEF WindowsSound, Shown
  <2> DEFINE o == reader'[r]
             f == o.file
  <2>1. /\ f \in Files
        /\ o.stamp \in 1 .. clock
        /\ tree[f] # Nothing => tree[f].text \in o.window
        /\ Shown(rows[f], o)
        /\ \A a \in Actors : Shown(job[a].puts[f], o)
    <3>1. CASE reader'[r] = reader[r]
      BY <3>1 DEF WindowsSound
    <3>2. CASE \E g \in Files : /\ tree[g] # Nothing
                                /\ reader'[r] = [file |-> g, stamp |-> tree[g].stamp,
                                                 window |-> {tree[g].text}]
      <4>1. PICK g \in Files : /\ tree[g] # Nothing
                               /\ reader'[r] = [file |-> g, stamp |-> tree[g].stamp,
                                                window |-> {tree[g].text}]
        BY <3>2
      <4>2. tree[g].stamp \in 1 .. clock
        BY <4>1 DEF RowsInv, StampsPast
      <4>3. ASSUME NEW v, Genuine(v, g), v.stamp = tree[g].stamp
            PROVE  v.text = tree[g].text
        BY <4>2, <4>3 DEF Genuine, Nothing, RowsInv, TypeOK
      <4> QED
        BY <4>1, <4>2, <4>3 DEF Shown, RowsInv, RowStampSound, PutsSound
    <3> QED
      BY <1>2, <3>1, <3>2 DEF ReaderMoves
  <2> HIDE DEF o
  <2>2. Shown(Nothing, o)
    BY <2>1 DEF Shown, Nothing, RowsInv, TypeOK
  <2>3. \A a \in Actors : Shown(RowFor(a, f), o) \/ tree[f] = Nothing
    BY <2>1 DEF Shown, RowFor
  <2>4. Shown(rows'[f], o)
    BY <1>2, <2>1, <2>2 DEF RowMoves
  <2>5. ASSUME NEW a \in Actors
        PROVE  Shown(job'[a].puts[f], o)
    BY <1>2, <2>1, <2>2, <2>3 DEF JobMoves, MovesTo
  <2> QED
    BY <2>1, <2>4, <2>5 DEF o
<1>3. ASSUME NEW g \in Files, Edit(g)
      PROVE  WindowsSound'
  <2>1. PICK x \in Texts :
          /\ tree' = [tree EXCEPT ![g] = [stamp |-> clock + 1, text |-> x]]
          /\ reader' = [r \in Readers |->
                IF reader[r].file = g /\ reader[r] # Closed
                THEN [reader[r] EXCEPT !.window = @ \cup {x}] ELSE reader[r]]
    BY <1>3 DEF Edit
  <2>2. clock \in Nat /\ clock' = clock + 1 /\ rows' = rows /\ job' = job
    BY <1>3 DEF Edit, lmdb, RowsInv, TypeOK
  <2> SUFFICES ASSUME NEW r \in Readers, reader'[r] # Closed
               PROVE  LET o == reader'[r] IN
                        /\ o.file \in Files
                        /\ o.stamp \in 1 .. clock'
                        /\ tree'[o.file] # Nothing => tree'[o.file].text \in o.window
                        /\ Shown(rows[o.file], o)
                        /\ \A a \in Actors : Shown(job[a].puts[o.file], o)
    BY <2>2 DEF WindowsSound, Shown
  <2>3. reader[r] # Closed
    BY <2>1
  <2>4. reader[r] \in [file: Nat, stamp: Nat, window: SUBSET (Texts \cup {None})]
    BY DEF RowsInv, TypeOK
  <2>5. /\ reader'[r].file = reader[r].file
        /\ reader'[r].stamp = reader[r].stamp
        /\ reader[r].window \subseteq reader'[r].window
        /\ reader[r].file = g => x \in reader'[r].window
    BY <2>1, <2>3, <2>4
  <2>6. \A f \in Files : tree'[f] = IF f = g THEN [stamp |-> clock + 1, text |-> x]
                                             ELSE tree[f]
    BY <2>1 DEF RowsInv, TypeOK
  <2> DEFINE o == reader[r]
             f == o.file
  <2>7. /\ f \in Files
        /\ o.stamp \in 1 .. clock
        /\ tree[f] # Nothing => tree[f].text \in o.window
        /\ Shown(rows[f], o)
        /\ \A a \in Actors : Shown(job[a].puts[f], o)
    BY <2>3 DEF WindowsSound
  <2>8. o.stamp \in 1 .. clock'
    BY <2>2, <2>7
  <2>9. tree'[f] # Nothing => tree'[f].text \in reader'[r].window
    <3>1. CASE f = g
      BY <2>5, <2>6, <2>7, <3>1
    <3>2. CASE f # g
      <4>1. tree'[f] = tree[f]
        BY <2>6, <2>7, <3>2
      <4>2. tree[f] # Nothing => tree[f].text \in o.window
        BY <2>7
      <4>3. o.window \subseteq reader'[r].window
        BY <2>5
      <4> QED
        BY <4>1, <4>2, <4>3
    <3> QED
      BY <3>1, <3>2
  <2>10. \A v : Shown(v, o) => Shown(v, reader'[r])
    BY <2>5 DEF Shown
  <2> QED
    BY <2>5, <2>7, <2>8, <2>9, <2>10
<1>4. ASSUME NEW g \in Files, Remove(g)
      PROVE  WindowsSound'
  BY <1>4 DEF Remove, WindowsSound, Shown, RowsInv, TypeOK, lmdb
<1> QED
  BY <1>1, <1>2, <1>3, <1>4, StepMoves DEF RowsInv

\* Whatever a reader of snippet or file_summary would be served from the index,
\* under the stat it took, is a text the file has had since it took it.
THEOREM ReadersServedLive == Spec => []ReadsAreLive
<1>1. Init => WindowsSound
  BY DEF Init, WindowsSound
<1>2. RowsInv /\ WindowsSound /\ [Next]_vars => WindowsSound'
  BY WindowsStep
<1>3. WindowsSound => ReadsAreLive
  BY DEF WindowsSound, ReadsAreLive, Shown
<1> QED
  BY <1>1, <1>2, <1>3, RowsInvariant, PTL DEF Spec

-----------------------------------------------------------------------------
(* The shape of the work in hand: what a refresh holds at each of its steps. *)

Underway == {"existing", "snapshot", "read", "sync"}

\* A record holds a listing only between the walk and the status report, the rows
\* it has read only until the commit and those it has made until the sidecar has
\* them, and none of them outside the scope it was asked to refresh.
Shape(j) ==
    /\ j.pc \in Underway \cup {"list", "status", "decide"} => j.req \in Requests
    /\ j.pc \notin Underway => \A f \in Files : j.listing[f] = 0
    /\ j.pc \notin {"snapshot", "read"} => \A f \in Files : j.existing[f] = Nothing
    /\ j.pc # "read" => j.todo = {}
    /\ j.pc \notin {"read", "sync"} => /\ j.dels = {}
                                     /\ \A f \in Files : j.puts[f] = Nothing
    /\ \A f \in Files \ j.req.scope :
          /\ j.listing[f] = 0 /\ j.existing[f] = Nothing /\ j.puts[f] = Nothing
          /\ f \notin j.dels /\ f \notin j.todo

ShapeInv == \A a \in Actors : Shape(job[a])

\* Only actor a's record changes.
Others(a) == \A b \in Actors \ {a} : job'[b] = job[b]

LEMMA IdleShape == Shape(IdleJob)
BY DEF Shape, IdleJob, NoRequest, Underway

LEMMA DecidedShape ==
    ASSUME NEW a \in Actors, NEW status, job[a].req \in Requests
    PROVE  Shape(Decided(a, status))
BY IdleShape DEF Decided, Shape, IdleJob, NoRequest, Underway

\* A listed stamp is the file's, and only files in scope are listed.
LEMMA ListingOf ==
    ASSUME TypeOK, NEW r, NEW f \in Files
    PROVE  /\ Listing(r)[f] \in {0, tree[f].stamp}
           /\ f \notin r.scope => Listing(r)[f] = 0
BY DEF Listing, FirstOf

\* One thread's steps, field by field.
LEMMA StartFields ==
    ASSUME TypeOK, NEW t \in Threads, NEW r \in Requests, Start(t, r) \/ Check(t, r)
    PROVE  /\ job[t].pc = "idle"
           /\ job'[t].pc \in {"list", "status"} /\ job'[t].req = r
           /\ job'[t].listing = job[t].listing /\ job'[t].existing = job[t].existing
           /\ job'[t].todo = job[t].todo /\ job'[t].puts = job[t].puts
           /\ job'[t].dels = job[t].dels /\ job'[t].seen = job[t].seen
           /\ Others(t)
<1>1. t \in Actors /\ job[t] \in Job /\ job \in [Actors -> Job]
  BY DEF Actors, TypeOK
<1>2. CASE Start(t, r)
  BY <1>1, <1>2 DEF Start, Others, Job
<1>3. CASE Check(t, r)
  <2>1. PICK sig, pc :
          /\ job[t].pc = "idle" /\ pc \in {"list", "status"}
          /\ job' = [job EXCEPT ![t].req = r, ![t].sig = sig, ![t].pc = pc]
    BY <1>3 DEF Check
  <2> QED
    BY <1>1, <2>1 DEF Others, Job
<1> QED
  BY <1>2, <1>3

LEMMA ListFields ==
    ASSUME TypeOK, NEW t \in Threads, List(t)
    PROVE  /\ job[t].pc = "list" /\ job'[t].pc = "existing"
           /\ job'[t].listing = Listing(job[t].req)
           /\ job'[t].req = job[t].req /\ job'[t].existing = job[t].existing
           /\ job'[t].todo = job[t].todo /\ job'[t].puts = job[t].puts
           /\ job'[t].dels = job[t].dels /\ job'[t].seen = job[t].seen
           /\ Others(t)
<1>1. t \in Actors /\ job[t] \in Job /\ job \in [Actors -> Job]
  BY DEF Actors, TypeOK
<1>2. PICK stamps : /\ stamps = Listing(job[t].req)
                    /\ job' = [job EXCEPT ![t].pc = "existing", ![t].listing = stamps]
  BY DEF List
<1> QED
  BY <1>1, <1>2 DEF Others, Job, List

LEMMA ReadExistingFields ==
    ASSUME TypeOK, NEW t \in Threads, ReadExisting(t)
    PROVE  /\ job[t].pc = "existing" /\ job'[t].pc = "snapshot"
           /\ \A f \in Files : job'[t].existing[f] = RowInScope(job[t].req, f)
           /\ job'[t].req = job[t].req /\ job'[t].listing = job[t].listing
           /\ job'[t].todo = job[t].todo /\ job'[t].puts = job[t].puts
           /\ job'[t].dels = job[t].dels /\ job'[t].seen = job[t].seen
           /\ Others(t)
<1>1. t \in Actors /\ job[t] \in Job /\ job \in [Actors -> Job]
  BY DEF Actors, TypeOK
<1>2. PICK found : /\ found = [f \in Files |-> RowInScope(job[t].req, f)]
                   /\ job' = [job EXCEPT ![t].pc = "snapshot", ![t].existing = found]
  BY DEF ReadExisting
<1>3. job'[t].existing = found
  BY <1>1, <1>2 DEF Job
<1> QED
  BY <1>1, <1>2, <1>3 DEF Others, Job, ReadExisting

LEMMA SnapshotFields ==
    ASSUME TypeOK, NEW t \in Threads, Snapshot(t)
    PROVE  /\ job[t].pc = "snapshot" /\ job'[t].pc = "read"
           /\ \A f \in Files : /\ f \in job'[t].dels <=>
                                    /\ job[t].existing[f] # Nothing
                                    /\ job[t].listing[f] = 0
                               /\ f \in job'[t].todo <=> Changed(t, f)
           /\ \E src \in SignatureSources :
                job'[t].sig = IF job[t].req.root = "repo"
                              THEN RefreshSignature(t, src) ELSE NoSignature
           /\ job'[t].req = job[t].req /\ job'[t].listing = job[t].listing
           /\ job'[t].existing = job[t].existing /\ job'[t].puts = job[t].puts
           /\ job'[t].seen = job[t].seen
           /\ Others(t)
<1>1. t \in Actors /\ job[t] \in Job /\ job \in [Actors -> Job]
  BY DEF Actors, TypeOK
<1>2. PICK src \in SignatureSources :
        job' = [job EXCEPT ![t].pc = "read",
            ![t].sig = IF job[t].req.root = "repo"
                       THEN RefreshSignature(t, src) ELSE NoSignature,
            ![t].dels = {f \in Files :
                           job[t].existing[f] # Nothing /\ job[t].listing[f] = 0},
            ![t].todo = {f \in Files : Changed(t, f)}]
  BY DEF Snapshot
<1> DEFINE sig == IF job[t].req.root = "repo"
                  THEN RefreshSignature(t, src) ELSE NoSignature
           dels == {f \in Files : job[t].existing[f] # Nothing /\ job[t].listing[f] = 0}
           todo == {f \in Files : Changed(t, f)}
<1>3. job' = [job EXCEPT ![t].pc = "read", ![t].sig = sig, ![t].dels = dels,
                         ![t].todo = todo]
  BY <1>2
<1>4. \A f \in Files : /\ f \in dels <=> job[t].existing[f] # Nothing /\ job[t].listing[f] = 0
                       /\ f \in todo <=> Changed(t, f)
  OBVIOUS
<1>5. job[t].pc = "snapshot"
  BY DEF Snapshot
<1> HIDE DEF dels, todo
<1>6. /\ job'[t].pc = "read" /\ job'[t].dels = dels /\ job'[t].todo = todo
      /\ job'[t].sig = sig
      /\ job'[t].req = job[t].req /\ job'[t].listing = job[t].listing
      /\ job'[t].existing = job[t].existing /\ job'[t].puts = job[t].puts
      /\ job'[t].seen = job[t].seen
      /\ Others(t)
  <2> HIDE DEF sig
  <2> QED
    BY <1>1, <1>3 DEF Others, Job
<1> QED
  BY <1>4, <1>5, <1>6

LEMMA ReadCandidateFields ==
    ASSUME TypeOK, NEW t \in Threads, NEW f \in Files, ReadCandidate(t, f)
    PROVE  LET refused == tree[f] = Nothing \/ tree[f].text \in BinaryTexts
           IN  /\ job[t].pc = "read" /\ job'[t].pc = "read" /\ f \in job[t].todo
               /\ job'[t].todo = job[t].todo \ {f}
               /\ refused => job'[t].puts = job[t].puts
               /\ ~refused => job'[t].puts[f] = RowFor(t, f)
               /\ \A g \in Files \ {f} : job'[t].puts[g] = job[t].puts[g]
               /\ job'[t].dels = IF refused /\ job[t].existing[f] # Nothing
                                 THEN job[t].dels \cup {f} ELSE job[t].dels
               /\ job'[t].req = job[t].req /\ job'[t].listing = job[t].listing
               /\ job'[t].existing = job[t].existing /\ job'[t].sig = job[t].sig
               /\ job'[t].seen = job[t].seen
               /\ Others(t)
<1>1. t \in Actors /\ job[t] \in Job /\ job \in [Actors -> Job]
  BY DEF Actors, TypeOK
<1> DEFINE refused == tree[f] = Nothing \/ tree[f].text \in BinaryTexts
<1>2. PICK todo, puts, dels :
        /\ todo = job[t].todo \ {f}
        /\ puts = IF refused THEN job[t].puts
                  ELSE [job[t].puts EXCEPT ![f] = RowFor(t, f)]
        /\ dels = IF refused /\ job[t].existing[f] # Nothing
                  THEN job[t].dels \cup {f} ELSE job[t].dels
        /\ job' = [job EXCEPT ![t].todo = todo, ![t].puts = puts, ![t].dels = dels]
  BY DEF ReadCandidate
<1>3. job[t].pc = "read" /\ f \in job[t].todo
  BY DEF ReadCandidate
<1> HIDE DEF refused
<1>4. job'[t] = [job[t] EXCEPT !.todo = todo, !.puts = puts, !.dels = dels] /\ Others(t)
  BY <1>1, <1>2 DEF Others
<1>5. /\ job'[t].pc = job[t].pc /\ job'[t].todo = todo /\ job'[t].puts = puts
      /\ job'[t].dels = dels /\ job'[t].sig = job[t].sig
      /\ job'[t].req = job[t].req /\ job'[t].listing = job[t].listing
      /\ job'[t].existing = job[t].existing /\ job'[t].seen = job[t].seen
  BY <1>1, <1>4 DEF Job
<1>6. /\ ~refused => puts[f] = RowFor(t, f)
      /\ \A g \in Files \ {f} : puts[g] = job[t].puts[g]
  BY <1>1, <1>2 DEF Job
<1> QED
  BY <1>2, <1>3, <1>4, <1>5, <1>6 DEF refused

\* What a commit leaves for file f.
NewRow(t, f) ==
    IF job[t].puts[f] # Nothing THEN job[t].puts[f]
    ELSE IF f \in job[t].dels THEN Nothing ELSE rows[f]

LEMMA CommitFields ==
    ASSUME TypeOK, NEW t \in Threads, Commit(t)
    PROVE  /\ job[t].pc = "read" /\ job'[t].pc = "sync" /\ job[t].todo = {}
           /\ job'[t].req = job[t].req /\ job'[t].listing = job[t].listing
           /\ job'[t].todo = {} /\ job'[t].seen = EmptyStatus
           /\ job'[t].dels = job[t].dels /\ job'[t].puts = job[t].puts
           /\ \A f \in Files : job'[t].existing[f] = Nothing
           /\ Others(t)
           /\ \A f \in Files : rows'[f] = NewRow(t, f)
<1>1. t \in Actors /\ job[t] \in Job /\ job \in [Actors -> Job]
  BY DEF Actors, TypeOK
<1>2. /\ job[t].pc = "read" /\ job[t].todo = {}
      /\ \A f \in Files : rows'[f] = NewRow(t, f)
  BY DEF Commit, NewRow, Put
<1>3. job'[t] = [IdleJob EXCEPT !.pc = "sync", !.req = job[t].req,
                                !.listing = job[t].listing,
                                !.puts = job[t].puts, !.dels = job[t].dels]
      /\ Others(t)
  BY <1>1 DEF Commit, Others
<1> QED
  BY <1>2, <1>3 DEF IdleJob

\* The steps that end a refresh or a check leave nothing in hand.
LEMMA EndFields ==
    ASSUME TypeOK, NEW t \in Threads,
           \/ InvalidateStatus(t) \/ SyncRaises(t)
           \/ \E f \in Files : ReadRaises(t, f)
    PROVE  /\ job'[t].pc \in {"idle", "report"} /\ Shape(job'[t])
           /\ job'[t].seen = EmptyStatus /\ Others(t)
<1>1. t \in Actors /\ job \in [Actors -> Job]
  BY DEF Actors, TypeOK
<1>2. CASE InvalidateStatus(t)
  <2>1. job'[t] = [IdleJob EXCEPT !.pc = "report"] /\ Others(t)
    BY <1>1, <1>2 DEF InvalidateStatus, Others
  <2>2. Shape([IdleJob EXCEPT !.pc = "report"])
    BY IdleShape DEF Shape, IdleJob, NoRequest, Underway
  <2> QED
    BY <2>1, <2>2 DEF IdleJob
<1>3. CASE SyncRaises(t) \/ \E f \in Files : ReadRaises(t, f)
  <2>1. job'[t] = IdleJob /\ Others(t)
    BY <1>1, <1>3 DEF SyncRaises, ReadRaises, Finish, Others
  <2> QED
    BY <2>1, IdleShape DEF IdleJob
<1> QED
  BY <1>2, <1>3

\* A status step changes no field but the request's fate.
LEMMA StatusFields ==
    ASSUME TypeOK, ShapeInv, NEW a \in Actors,
           \/ a \in Threads /\ UseCachedStatus(a)
           \/ ComputeStatus(a) \/ PublishStatus(a)
    PROVE  /\ job'[a].pc \notin Underway /\ Shape(job'[a])
           /\ job'[a].seen \in {EmptyStatus, CurrentStatus}
           /\ \A b \in Actors \ {a} : \/ job'[b] = job[b]
                                      \/ /\ b = Background /\ Shape(job'[b])
                                         /\ job'[b].seen = job[b].seen
<1>1. job[a] \in Job /\ job \in [Actors -> Job] /\ Shape(job[a])
  BY DEF TypeOK, ShapeInv
<1>2. CASE a \in Threads /\ UseCachedStatus(a)
  <2> DEFINE d == Decided(a, cache)
  <2>1. a # Background /\ Background \in Actors /\ job[Background] \in Job
    BY <1>1, <1>2 DEF Actors
  <2>2. job[a].pc = "status" /\ job[a].req \in Requests
    BY <1>1, <1>2 DEF UseCachedStatus, Shape
  <2>3. d.pc \notin Underway /\ Shape(d) /\ d.seen = EmptyStatus
    <3>1. Shape(d)
      BY <2>2, DecidedShape
    <3> QED
      BY <3>1 DEF Decided, IdleJob, Underway
  <2>4. \/ job' = [job EXCEPT ![a] = d]
        \/ /\ job[Background].pc = "idle"
           /\ job' = [job EXCEPT ![a] = d, ![Background].pc = "report"]
    BY <1>2 DEF UseCachedStatus
  <2> HIDE DEF d
  <2>5. CASE job' = [job EXCEPT ![a] = d]
    BY <1>1, <2>3, <2>5
  <2>6. CASE /\ job[Background].pc = "idle"
             /\ job' = [job EXCEPT ![a] = d, ![Background].pc = "report"]
    <3>1. job'[a] = d /\ \A b \in Actors \ {a, Background} : job'[b] = job[b]
      BY <1>1, <2>1, <2>6
    <3>2. job'[Background] = [job[Background] EXCEPT !.pc = "report"]
      BY <1>1, <2>1, <2>6
    <3>3. Shape(job[Background])
      BY <2>1 DEF ShapeInv
    <3>4. LET k == job[Background] IN
          /\ job'[Background].pc = "report" /\ job'[Background].req = k.req
          /\ job'[Background].listing = k.listing
          /\ job'[Background].existing = k.existing
          /\ job'[Background].todo = k.todo /\ job'[Background].puts = k.puts
          /\ job'[Background].dels = k.dels /\ job'[Background].seen = k.seen
      BY <2>1, <3>2 DEF Job
    <3>5. Shape(job'[Background])
      BY <2>6, <3>3, <3>4 DEF Shape, Underway
    <3> QED
      BY <2>3, <3>1, <3>4, <3>5
  <2> QED
    BY <2>4, <2>5, <2>6
<1>3. CASE ComputeStatus(a)
  <2>1. PICK seen, pc :
          /\ seen = CurrentStatus
          /\ \/ job[a].pc = "status" /\ pc = "decide"
             \/ job[a].pc = "report" /\ pc = "publish"
          /\ job' = [job EXCEPT ![a].seen = seen, ![a].pc = pc]
    <3>1. job' = [job EXCEPT ![a].seen = CurrentStatus,
                    ![a].pc = IF job[a].pc = "status" THEN "decide" ELSE "publish"]
      BY <1>3 DEF ComputeStatus
    <3> QED
      BY <1>3, <3>1 DEF ComputeStatus
  <2>2. /\ job'[a] = [job[a] EXCEPT !.seen = seen, !.pc = pc]
        /\ \A b \in Actors \ {a} : job'[b] = job[b]
    BY <1>1, <2>1
  <2>3. /\ job'[a].pc = pc /\ job'[a].req = job[a].req
        /\ job'[a].listing = job[a].listing /\ job'[a].existing = job[a].existing
        /\ job'[a].todo = job[a].todo /\ job'[a].puts = job[a].puts
        /\ job'[a].dels = job[a].dels /\ job'[a].seen = seen
    BY <1>1, <2>2 DEF Job
  <2> QED
    BY <1>1, <2>1, <2>2, <2>3 DEF Shape, Underway
<1>4. CASE PublishStatus(a)
  <2> DEFINE j == IF job[a].pc = "decide" THEN Decided(a, job[a].seen) ELSE IdleJob
  <2>1. job'[a] = j /\ \A b \in Actors \ {a} : job'[b] = job[b]
    BY <1>1, <1>4 DEF PublishStatus
  <2>2. CASE job[a].pc = "decide"
    <3>1. job[a].req \in Requests
      BY <1>1, <2>2 DEF Shape
    <3>2. job'[a] = Decided(a, job[a].seen)
      BY <2>1, <2>2
    <3>3. Shape(job'[a])
      BY <3>1, <3>2, DecidedShape
    <3> QED
      BY <2>1, <3>2, <3>3 DEF Decided, IdleJob, Underway
  <2>3. CASE job[a].pc # "decide"
    BY <2>1, <2>3, IdleShape DEF IdleJob, Underway
  <2> QED
    BY <2>2, <2>3
<1> QED
  BY <1>2, <1>3, <1>4

LEMMA ShapeStep ==
    ASSUME TypeOK, ShapeInv, [Next]_vars
    PROVE  ShapeInv'
<1>1. ASSUME NEW a \in Actors, Shape(job'[a]), Others(a)
      PROVE  ShapeInv'
  BY <1>1 DEF ShapeInv, Others
<1>2. ASSUME NEW t \in Threads, Refresh(t)
      PROVE  ShapeInv'
  <2>1. t \in Actors /\ Shape(job[t]) /\ job[t] \in Job
    BY DEF Actors, ShapeInv, TypeOK
  <2>2. ASSUME NEW r \in Requests, Start(t, r) \/ Check(t, r)
        PROVE  ShapeInv'
    <3>1. Shape(job'[t]) /\ Others(t)
      BY <2>1, <2>2, StartFields DEF Shape, Underway
    <3> QED
      BY <1>1, <2>1, <3>1
  <2>3. CASE List(t)
    <3>1. \A f \in Files \ job[t].req.scope : Listing(job[t].req)[f] = 0
      BY ListingOf
    <3>2. Shape(job'[t]) /\ Others(t)
      BY <2>1, <2>3, <3>1, ListFields DEF Shape, Underway
    <3> QED
      BY <1>1, <2>1, <3>2
  <2>4. CASE ReadExisting(t)
    <3>1. Shape(job'[t]) /\ Others(t)
      BY <2>1, <2>4, ReadExistingFields DEF Shape, Underway, RowInScope
    <3> QED
      BY <1>1, <2>1, <3>1
  <2>5. CASE Snapshot(t)
    <3>1. Shape(job'[t]) /\ Others(t)
      BY <2>1, <2>5, SnapshotFields DEF Shape, Underway, Changed
    <3> QED
      BY <1>1, <2>1, <3>1
  <2>6. ASSUME NEW f \in Files, ReadCandidate(t, f)
        PROVE  ShapeInv'
    <3>1. /\ job[t].pc = "read" /\ job'[t].pc = "read" /\ f \in job[t].todo
          /\ job'[t].todo = job[t].todo \ {f}
          /\ \A g \in Files \ {f} : job'[t].puts[g] = job[t].puts[g]
          /\ job'[t].dels \in {job[t].dels, job[t].dels \cup {f}}
          /\ job'[t].req = job[t].req /\ job'[t].listing = job[t].listing
          /\ job'[t].existing = job[t].existing
          /\ Others(t)
      BY <2>6, ReadCandidateFields, Zenon
    <3>2. f \in job[t].req.scope
      BY <2>1, <3>1 DEF Shape
    <3>3. Shape(job'[t])
      BY <2>1, <3>1, <3>2 DEF Shape, Underway
    <3> QED
      BY <1>1, <2>1, <3>1, <3>3
  <2>7. CASE Commit(t)
    <3>1. Shape(job'[t]) /\ Others(t)
      BY <2>1, <2>7, CommitFields DEF Shape, Underway
    <3> QED
      BY <1>1, <2>1, <3>1
  <2>8. CASE InvalidateStatus(t) \/ SyncRaises(t) \/ \E f \in Files : ReadRaises(t, f)
    BY <1>1, <2>1, <2>8, EndFields
  <2>9. CASE UseCachedStatus(t)
    <3>1. Shape(job'[t]) /\ \A b \in Actors \ {t} : job'[b] = job[b] \/ Shape(job'[b])
      BY <2>1, <2>9, StatusFields
    <3> QED
      BY <2>1, <3>1 DEF ShapeInv
  <2> QED
    BY <1>2, <2>2, <2>3, <2>4, <2>5, <2>6, <2>7, <2>8, <2>9 DEF Refresh
<1>3. ASSUME NEW a \in Actors, ComputeStatus(a) \/ PublishStatus(a)
      PROVE  ShapeInv'
  <2>1. Shape(job'[a]) /\ \A b \in Actors \ {a} : job'[b] = job[b] \/ Shape(job'[b])
    BY <1>3, StatusFields
  <2> QED
    BY <2>1 DEF ShapeInv
<1>4. CASE \/ \E r \in Readers : FinishRead(r) \/ \E f \in Files : OpenRead(r, f)
           \/ \E f \in Files : Edit(f) \/ Remove(f)
           \/ UNCHANGED vars
  <2>1. job' = job
    BY <1>4 DEF FinishRead, OpenRead, Edit, Remove, vars
  <2> QED
    BY <2>1 DEF ShapeInv
<1>5. CASE Crash
  BY <1>5, IdleShape DEF Crash, ShapeInv
<1> QED
  BY <1>2, <1>3, <1>4, <1>5 DEF Next

LEMMA ShapeInit == Init => ShapeInv
BY IdleShape DEF Init, ShapeInv

\* Only a commit changes rows.
LEMMA OnlyCommitWrites ==
    ASSUME Next
    PROVE  UNCHANGED <<rows, terms, stored>> \/ \E t \in Threads : Commit(t)
<1>1. ASSUME NEW t \in Threads, Refresh(t)
      PROVE  UNCHANGED <<rows, terms, stored>> \/ Commit(t)
  BY <1>1 DEF Refresh, Start, Check, List, ReadExisting, Snapshot, ReadCandidate,
     ReadRaises, InvalidateStatus, SyncRaises, UseCachedStatus, lmdb
<1>2. ASSUME NEW a \in Actors, ComputeStatus(a) \/ PublishStatus(a)
      PROVE  UNCHANGED <<rows, terms, stored>>
  BY <1>2 DEF ComputeStatus, PublishStatus, lmdb
<1>3. CASE \/ \E r \in Readers : FinishRead(r) \/ \E f \in Files : OpenRead(r, f)
           \/ \E f \in Files : Edit(f) \/ Remove(f)
           \/ Crash
  BY <1>3 DEF FinishRead, OpenRead, Edit, Remove, Crash, lmdb
<1> QED
  BY <1>1, <1>2, <1>3 DEF Next

\* However many refreshes overlap, a row that appears, changes or goes does so in
\* the commit of a refresh that was asked for a scope the file is in.
THEOREM RefreshIsLocal == Spec => ScopedRefreshIsLocal
<1>1. TypeOK /\ ShapeInv /\ [Next]_vars => ShapeInv'
  BY ShapeStep
<1>2. TypeOK /\ ShapeInv /\ [Next]_vars
        => [\A f \in Files : rows'[f] # rows[f] =>
               \E t \in Threads : /\ job[t].pc = "read" /\ job'[t].pc = "sync"
                                  /\ f \in job[t].req.scope]_rows
  <2> SUFFICES ASSUME TypeOK, ShapeInv, Next, rows' # rows,
                      NEW f \in Files, rows'[f] # rows[f]
               PROVE  \E t \in Threads : /\ job[t].pc = "read" /\ job'[t].pc = "sync"
                                         /\ f \in job[t].req.scope
    BY DEF vars
  <2>1. PICK t \in Threads : Commit(t)
    BY OnlyCommitWrites
  <2>2. t \in Actors /\ Shape(job[t])
    BY DEF Actors, ShapeInv
  <2>3. job[t].puts[f] # Nothing \/ f \in job[t].dels
    BY <2>1, CommitFields DEF NewRow
  <2>4. f \in job[t].req.scope
    BY <2>2, <2>3 DEF Shape
  <2> QED
    BY <2>1, <2>4, CommitFields
<1> QED
  BY <1>1, <1>2, ShapeInit, TypeCorrect, PTL DEF Spec, ScopedRefreshIsLocal

-----------------------------------------------------------------------------
(* One service thread refreshes, as in a process that serves one client:    *)
(* what a refresh holds then still agrees with the index when it commits,   *)
(* whatever is edited, removed or lost in a crash at any moment.            *)

\* The stat listed for f is the one it has now.
Fresh(t, f) == job[t].listing[f] # 0 /\ job[t].listing[f] = tree[f].stamp

\* The refresh is one of f alone, f was gone when it read the rows, and what it
\* listed of f, if anything, is not there any more.
Passed(t, f) ==
    /\ job[t].req.root = "file" /\ f \in missed
    /\ job[t].existing[f] = Nothing /\ ~Fresh(t, f)

\* What the thread's record says of its scope: the rows it read are the rows
\* there are, but for a file passed over; what a commit now would leave, and what
\* one has just left, is the present text for a file still as listed and, unless
\* a single file was asked for, no row for a file not listed.
Known(t) ==
    /\ job[t].pc \in {"snapshot", "read"} =>
         \A f \in job[t].req.scope : job[t].existing[f] = rows[f] \/ Passed(t, f)
    /\ job[t].pc = "read" => \A f \in job[t].req.scope :
         /\ job[t].listing[f] = 0 /\ job[t].req.root # "file" => NewRow(t, f) = Nothing
         /\ f \in job[t].todo => job[t].puts[f] = Nothing
         /\ Fresh(t, f) /\ f \notin job[t].todo
              => NewRow(t, f).text = Indexable(tree[f])
    /\ job[t].pc = "sync" => \A f \in job[t].req.scope :
         /\ job[t].listing[f] = 0 /\ job[t].req.root # "file" => rows[f] = Nothing
         /\ Fresh(t, f) => rows[f].text = Indexable(tree[f])

NotBinary ==
    \A f \in Files : /\ rows[f].text \notin BinaryTexts
                     /\ \A a \in Actors : job[a].puts[f].text \notin BinaryTexts

SerialInv == RowsInv /\ ShapeInv /\ NotBinary /\ \A t \in Threads : Known(t)

LEMMA NotBinaryStep ==
    ASSUME TypeOK, TodoSound, NotBinary, [Next]_vars
    PROVE  NotBinary'
<1>1. Nothing.text \notin BinaryTexts
  BY DEF Nothing
<1>2. CASE UNCHANGED vars \/ \E f \in Files : Edit(f) \/ Remove(f)
  <2>1. job' = job /\ rows' = rows
    BY <1>2 DEF vars, Edit, Remove, lmdb
  <2> QED
    BY <2>1 DEF NotBinary
<1>3. CASE JobMoves /\ RowMoves
  <2>1. ASSUME NEW f \in Files PROVE rows'[f].text \notin BinaryTexts
    BY <1>1, <1>3 DEF RowMoves, NotBinary
  <2>2. ASSUME NEW f \in Files, NEW a \in Actors
        PROVE  job'[a].puts[f].text \notin BinaryTexts
    <3>1. \/ job'[a].puts[f] \in {job[a].puts[f], Nothing}
          \/ tree[f].text \notin BinaryTexts /\ job'[a].puts[f] = RowFor(a, f)
      BY <1>3 DEF JobMoves, MovesTo
    <3> QED
      BY <1>1, <3>1 DEF NotBinary, RowFor
  <2> QED
    BY <2>1, <2>2 DEF NotBinary
<1> QED
  BY <1>2, <1>3, StepMoves

\* An unchanged row filed under the stat a file has is its indexable text.
LEMMA CurrentRow ==
    ASSUME RowsInv, NotBinary, NEW f \in Files,
           rows[f].stamp = tree[f].stamp, tree[f].stamp # 0
    PROVE  rows[f].text = Indexable(tree[f])
<1>1. rows[f] # Nothing
  BY DEF Nothing
<1>2. rows[f].text = tree[f].text
  BY <1>1 DEF RowsInv, RowStampSound, Genuine
<1> QED
  BY <1>2 DEF Indexable, NotBinary

\* Where the thread's record is in none of the steps Known is about.
LEMMA NothingKnown ==
    ASSUME NEW t, job[t].pc \notin {"snapshot", "read", "sync"}
    PROVE  Known(t)
BY DEF Known

LEMMA KnownSnapshot ==
    ASSUME SerialInv, NEW t \in Threads, Snapshot(t),
           UNCHANGED <<clock, tree, rows, missed>>
    PROVE  Known(t)'
<1>1. t \in Actors /\ Shape(job[t]) /\ Known(t) /\ job[t].req \in Requests
  BY SnapshotFields DEF SerialInv, RowsInv, Actors, ShapeInv, Shape, Underway
<1>2. \A f \in job[t].req.scope : f \in Files
  BY <1>1
<1>3. /\ job[t].pc = "snapshot" /\ job'[t].pc = "read"
      /\ job'[t].req = job[t].req /\ job'[t].listing = job[t].listing
      /\ job'[t].existing = job[t].existing
      /\ \A f \in Files : job'[t].puts[f] = Nothing
      /\ \A f \in Files : /\ f \in job'[t].dels <=>
                               /\ job[t].existing[f] # Nothing
                               /\ job[t].listing[f] = 0
                          /\ f \in job'[t].todo <=> Changed(t, f)
  BY <1>1, SnapshotFields DEF SerialInv, RowsInv, Shape
<1>4. \A f \in job[t].req.scope : job[t].existing[f] = rows[f] \/ Passed(t, f)
  BY <1>1, <1>3 DEF Known
<1>5. ASSUME NEW f \in job[t].req.scope
      PROVE  /\ job[t].listing[f] = 0 /\ job[t].req.root # "file"
                  => NewRow(t, f)' = Nothing
             /\ Fresh(t, f) /\ f \notin job'[t].todo
                  => NewRow(t, f)'.text = Indexable(tree[f])
  <2>1. NewRow(t, f)' = IF f \in job'[t].dels THEN Nothing ELSE rows[f]
    BY <1>2, <1>3 DEF NewRow
  <2>2. job[t].listing[f] = 0 /\ job[t].req.root # "file" => NewRow(t, f)' = Nothing
    BY <1>2, <1>3, <1>4, <2>1 DEF Passed
  <2>3. ASSUME Fresh(t, f), f \notin job'[t].todo
        PROVE  NewRow(t, f)'.text = Indexable(tree[f])
    <3>1. rows[f].stamp = tree[f].stamp /\ tree[f].stamp # 0
      BY <1>2, <1>3, <1>4, <2>3 DEF Fresh, Changed, Passed
    <3>2. NewRow(t, f)' = rows[f]
      BY <1>2, <1>3, <2>1, <2>3 DEF Fresh
    <3> QED
      BY <1>2, <3>1, <3>2, CurrentRow DEF SerialInv
  <2> QED
    BY <2>2, <2>3
<1>6. ASSUME NEW f \in job[t].req.scope
      PROVE  /\ job'[t].existing[f] = rows'[f] \/ Passed(t, f)'
             /\ job'[t].listing[f] = 0 /\ job'[t].req.root # "file"
                  => NewRow(t, f)' = Nothing
             /\ f \in job'[t].todo => job'[t].puts[f] = Nothing
             /\ Fresh(t, f)' /\ f \notin job'[t].todo
                  => NewRow(t, f)'.text = Indexable(tree[f])
  BY <1>2, <1>3, <1>4, <1>5 DEF Fresh, Passed
<1> QED
  BY <1>3, <1>6 DEF Known, Indexable

LEMMA KnownReadCandidate ==
    ASSUME SerialInv, NEW t \in Threads, NEW g \in Files, ReadCandidate(t, g),
           UNCHANGED <<clock, tree, rows, missed>>
    PROVE  Known(t)'
<1> DEFINE refused == tree[g] = Nothing \/ tree[g].text \in BinaryTexts
<1>1. /\ t \in Actors /\ TypeOK /\ Shape(job[t]) /\ Known(t)
      /\ \A f \in Files : /\ tree[f] \in Version
                          /\ f \in job[t].todo => job[t].listing[f] # 0
  BY DEF SerialInv, RowsInv, Actors, ShapeInv, TodoSound, TypeOK
<1>2. /\ job[t].pc = "read" /\ job'[t].pc = "read" /\ g \in job[t].todo
      /\ job'[t].todo = job[t].todo \ {g}
      /\ refused => job'[t].puts = job[t].puts
      /\ ~refused => job'[t].puts[g] = RowFor(t, g)
      /\ \A f \in Files \ {g} : job'[t].puts[f] = job[t].puts[f]
      /\ job'[t].dels = IF refused /\ job[t].existing[g] # Nothing
                        THEN job[t].dels \cup {g} ELSE job[t].dels
      /\ job'[t].req = job[t].req /\ job'[t].listing = job[t].listing
      /\ job'[t].existing = job[t].existing
  BY <1>1, ReadCandidateFields
<1>3. job[t].req \in Requests /\ g \in job[t].req.scope
  BY <1>1, <1>2 DEF Shape, Underway
<1>4. \A f \in job[t].req.scope :
        /\ f \in Files
        /\ job[t].existing[f] = rows[f] \/ Passed(t, f)
        /\ job[t].listing[f] = 0 /\ job[t].req.root # "file" => NewRow(t, f) = Nothing
        /\ f \in job[t].todo => job[t].puts[f] = Nothing
        /\ Fresh(t, f) /\ f \notin job[t].todo => NewRow(t, f).text = Indexable(tree[f])
  BY <1>1, <1>2, <1>3 DEF Known
<1>5. \A f \in job[t].req.scope \ {g} : NewRow(t, f)' = NewRow(t, f)
  <2> HIDE DEF refused
  <2>1. \A f \in Files \ {g} : f \in job'[t].dels <=> f \in job[t].dels
    BY <1>2
  <2> QED
    BY <1>2, <1>4, <2>1 DEF NewRow
<1>6. job[t].listing[g] # 0 /\ job[t].puts[g] = Nothing
  BY <1>1, <1>2, <1>3, <1>4
<1>7. ASSUME Fresh(t, g)
      PROVE  NewRow(t, g)'.text = Indexable(tree[g])
  <2>1. CASE refused
    <3>1. tree[g].text \in BinaryTexts
      BY <1>7, <2>1 DEF Fresh, Nothing
    <3>2. job[t].existing[g] = rows[g]
      BY <1>3, <1>4, <1>7 DEF Passed
    <3>3. NewRow(t, g)' = Nothing
      BY <1>2, <1>6, <2>1, <3>2 DEF NewRow
    <3> QED
      BY <3>1, <3>3 DEF Indexable, Nothing
  <2>2. CASE ~refused
    <3>1. job'[t].puts[g] = RowFor(t, g) /\ RowFor(t, g) # Nothing
      BY <1>2, <1>6, <2>2 DEF RowFor, Nothing
    <3>2. NewRow(t, g)' = RowFor(t, g)
      BY <3>1 DEF NewRow
    <3> QED
      BY <2>2, <3>2 DEF Indexable, RowFor
  <2> QED
    BY <2>1, <2>2
<1>8. ASSUME NEW f \in job[t].req.scope
      PROVE  /\ job'[t].existing[f] = rows'[f] \/ Passed(t, f)'
             /\ job'[t].listing[f] = 0 /\ job'[t].req.root # "file"
                  => NewRow(t, f)' = Nothing
             /\ f \in job'[t].todo => job'[t].puts[f] = Nothing
             /\ Fresh(t, f)' /\ f \notin job'[t].todo
                  => NewRow(t, f)'.text = Indexable(tree[f])
  <2>1. CASE f = g
    BY <1>2, <1>4, <1>6, <1>7, <2>1 DEF Fresh, Passed
  <2>2. CASE f # g
    <3>1. f \in job'[t].todo <=> f \in job[t].todo
      BY <1>2, <2>2
    <3>2. job'[t].puts[f] = job[t].puts[f] /\ NewRow(t, f)' = NewRow(t, f)
      BY <1>2, <1>4, <1>5, <2>2
    <3> QED
      BY <1>2, <1>4, <3>1, <3>2 DEF Fresh, Passed
  <2> QED
    BY <2>1, <2>2
<1> QED
  BY <1>2, <1>8 DEF Known, Indexable

LEMMA KnownCommit ==
    ASSUME SerialInv, NEW t \in Threads, Commit(t)
    PROVE  Known(t)'
<1>1. /\ t \in Actors /\ TypeOK /\ Shape(job[t]) /\ Known(t)
  BY DEF SerialInv, RowsInv, Actors, ShapeInv
<1>2. /\ job[t].pc = "read" /\ job'[t].pc = "sync" /\ job[t].todo = {}
      /\ job'[t].req = job[t].req /\ job'[t].listing = job[t].listing
      /\ \A f \in Files : rows'[f] = NewRow(t, f)
      /\ tree' = tree
  BY <1>1, CommitFields DEF Commit, world
<1>3. job[t].req.scope \subseteq Files
  BY <1>1, <1>2 DEF Shape, Underway
<1>4. ASSUME NEW f \in job[t].req.scope
      PROVE  /\ job[t].listing[f] = 0 /\ job[t].req.root # "file" => rows'[f] = Nothing
             /\ Fresh(t, f) => rows'[f].text = Indexable(tree[f])
  BY <1>1, <1>2, <1>3 DEF Known
<1> QED
  BY <1>2, <1>4 DEF Known, Fresh, Indexable

\* An edit or a removal makes the file's listed stat a past one.
LEMMA FreshEdit ==
    ASSUME RowsInv, NEW t \in Actors, NEW g \in Files, Edit(g) \/ Remove(g),
           NEW f \in Files, Fresh(t, f)'
    PROVE  Fresh(t, f) /\ tree'[f] = tree[f]
<1>1. TypeOK /\ job' = job
  BY DEF RowsInv, Edit, Remove
<1>2. CASE f # g
  BY <1>1, <1>2 DEF Edit, Remove, TypeOK, Fresh
<1>3. CASE f = g /\ Edit(g)
  <2>1. tree'[g].stamp = clock + 1 /\ clock \in Nat
    BY <1>1, <1>3 DEF Edit, TypeOK
  <2>2. job[t].listing[g] \in 0 .. clock
    BY DEF RowsInv, StampsPast
  <2> QED
    BY <1>1, <1>3, <2>1, <2>2 DEF Fresh
<1>4. CASE f = g /\ Remove(g)
  <2>1. tree'[g].stamp = 0
    BY <1>1, <1>4 DEF Remove, TypeOK, Nothing
  <2> QED
    BY <1>1, <1>4, <2>1 DEF Fresh
<1> QED
  BY <1>2, <1>3, <1>4

LEMMA KnownEdit ==
    ASSUME SerialInv, NEW t \in Threads, NEW g \in Files, Edit(g) \/ Remove(g)
    PROVE  Known(t)'
<1>1. t \in Actors /\ TypeOK /\ Shape(job[t]) /\ Known(t)
  BY DEF SerialInv, RowsInv, Actors, ShapeInv
<1>2. job' = job /\ rows' = rows /\ missed' = missed
  BY DEF Edit, Remove, lmdb
<1>3. \A f \in Files : Fresh(t, f)' => Fresh(t, f) /\ tree'[f] = tree[f]
  BY <1>1, FreshEdit DEF SerialInv
<1>4. job[t].pc \in Underway => job[t].req.scope \subseteq Files
  BY <1>1 DEF Shape, Underway
<1>5. \A f : NewRow(t, f)' = NewRow(t, f)
  BY <1>2 DEF NewRow
<1>6. CASE job[t].pc \in {"snapshot", "read"}
  <2>1. ASSUME NEW f \in job[t].req.scope, job[t].pc = "read"
        PROVE  /\ job[t].listing[f] = 0 /\ job[t].req.root # "file"
                    => NewRow(t, f) = Nothing
               /\ f \in job[t].todo => job[t].puts[f] = Nothing
               /\ Fresh(t, f)' /\ f \notin job[t].todo
                    => NewRow(t, f).text = Indexable(tree'[f])
    <3>1. f \in Files
      BY <1>4, <2>1 DEF Underway
    <3> QED
      BY <1>1, <1>3, <2>1, <3>1 DEF Known
  <2>2. \A f \in job[t].req.scope : job[t].existing[f] = rows[f] \/ Passed(t, f)'
    BY <1>1, <1>2, <1>3, <1>4, <1>6 DEF Known, Passed, Underway
  <2> QED
    BY <1>2, <1>5, <1>6, <2>1, <2>2 DEF Known, Indexable
<1>7. CASE job[t].pc = "sync"
  <2>1. ASSUME NEW f \in job[t].req.scope
        PROVE  /\ job[t].listing[f] = 0 /\ job[t].req.root # "file" => rows[f] = Nothing
               /\ Fresh(t, f)' => rows[f].text = Indexable(tree'[f])
    <3>1. f \in Files
      BY <1>4, <1>7 DEF Underway
    <3> QED
      BY <1>1, <1>3, <1>7, <2>1, <3>1 DEF Known
  <2> QED
    BY <1>2, <1>7, <2>1 DEF Known, Indexable
<1>8. CASE job[t].pc \notin {"snapshot", "read", "sync"}
  BY <1>2, <1>8 DEF Known
<1> QED
  BY <1>6, <1>7, <1>8

\* With one service thread, every step keeps what its record says true.
LEMMA KnownStep ==
    ASSUME SerialInv, NEW t, Threads = {t}, [Next]_vars
    PROVE  Known(t)'
<1>1. t \in Threads /\ t \in Actors /\ TypeOK /\ Shape(job[t]) /\ Known(t)
  BY DEF SerialInv, RowsInv, Actors, ShapeInv
<1>2. ASSUME Refresh(t)
      PROVE  Known(t)'
  <2>1. CASE \E r \in Requests : Start(t, r) \/ Check(t, r)
    BY <1>1, <2>1, StartFields DEF Known
  <2>2. CASE List(t)
    BY <1>1, <2>2, ListFields DEF Known
  <2>3. CASE ReadExisting(t)
    <3>1. rows' = rows
      BY <2>3 DEF ReadExisting, lmdb
    <3>2. job[t].req.scope \subseteq Files
      BY <1>1, <2>3, ReadExistingFields DEF Shape, Underway
    <3>3. /\ job'[t].pc = "snapshot" /\ job'[t].req = job[t].req
          /\ \A f \in Files : job'[t].existing[f] = RowInScope(job[t].req, f)
      BY <1>1, <2>3, ReadExistingFields
    <3>4. ASSUME NEW f \in job[t].req.scope, job'[t].existing[f] # rows[f]
          PROVE  Passed(t, f)'
      <4>1. /\ f \in Files /\ job[t].req.root = "file" /\ tree[f] = Nothing
            /\ job'[t].existing[f] = Nothing /\ rows[f] # Nothing
        BY <3>2, <3>3, <3>4 DEF RowInScope, Overlooked
      <4>2. f \in missed' /\ tree' = tree
        BY <2>3, <4>1 DEF ReadExisting, Overlooked, world
      <4> QED
        BY <3>3, <4>1, <4>2 DEF Passed, Fresh, Nothing
    <3> QED
      BY <3>1, <3>3, <3>4 DEF Known
  <2>4. CASE Snapshot(t)
    <3>1. UNCHANGED <<clock, tree, rows, missed>>
      BY <2>4 DEF Snapshot, world, lmdb
    <3> QED
      BY <1>1, <2>4, <3>1, KnownSnapshot
  <2>5. ASSUME NEW f \in Files, ReadCandidate(t, f)
        PROVE  Known(t)'
    <3>1. UNCHANGED <<clock, tree, rows, missed>>
      BY <2>5 DEF ReadCandidate, world, lmdb
    <3> QED
      BY <1>1, <2>5, <3>1, KnownReadCandidate
  <2>6. CASE Commit(t)
    BY <1>1, <2>6, KnownCommit
  <2>7. CASE InvalidateStatus(t) \/ SyncRaises(t) \/ \E f \in Files : ReadRaises(t, f)
    BY <1>1, <2>7, EndFields DEF Known
  <2>8. CASE UseCachedStatus(t)
    <3>1. job'[t].pc \notin Underway
      BY <1>1, <2>8, StatusFields DEF SerialInv
    <3> QED
      BY <3>1 DEF Known, Underway
  <2> QED
    BY <1>2, <2>1, <2>2, <2>3, <2>4, <2>5, <2>6, <2>7, <2>8 DEF Refresh
<1>3. ASSUME NEW a \in Actors, ComputeStatus(a) \/ PublishStatus(a)
      PROVE  Known(t)'
  <2>1. CASE a = t
    <3>1. job'[t].pc \notin Underway
      BY <1>1, <1>3, <2>1, StatusFields DEF SerialInv
    <3> QED
      BY <3>1 DEF Known, Underway
  <2>2. CASE a # t
    <3>1. job'[t] = job[t]
      BY <1>1, <1>3, <2>2 DEF ComputeStatus, PublishStatus, TypeOK
    <3>2. rows' = rows /\ tree' = tree /\ missed' = missed
      BY <1>3 DEF ComputeStatus, PublishStatus, world, lmdb
    <3> QED
      BY <1>1, <3>1, <3>2 DEF Known, Passed, NewRow, Fresh, Indexable
  <2> QED
    BY <2>1, <2>2
<1>4. CASE \/ \E r \in Readers : FinishRead(r) \/ \E f \in Files : OpenRead(r, f)
           \/ UNCHANGED vars
  <2>1. job' = job /\ rows' = rows /\ tree' = tree /\ missed' = missed
    BY <1>4 DEF FinishRead, OpenRead, vars, world, lmdb
  <2> QED
    BY <1>1, <2>1 DEF Known, Passed, NewRow, Fresh, Indexable
<1>5. CASE \E f \in Files : Edit(f) \/ Remove(f)
  BY <1>1, <1>5, KnownEdit
<1>6. CASE Crash
  BY <1>1, <1>6 DEF Crash, Known, IdleJob
<1> QED
  BY <1>1, <1>2, <1>3, <1>4, <1>5, <1>6 DEF Next

LEMMA SerialInit == Init => SerialInv
<1> SUFFICES ASSUME Init PROVE SerialInv
  OBVIOUS
<1>1. \A a \in Actors : job[a] = IdleJob
  BY DEF Init
<1>2. NotBinary
  BY <1>1 DEF Init, NotBinary, IdleJob, Nothing
<1>3. \A t \in Threads : Known(t)
  BY <1>1 DEF Known, Actors, IdleJob
<1> QED
  BY <1>2, <1>3, RowsInit, ShapeInit DEF SerialInv

LEMMA SerialInvariant ==
    ASSUME NEW t, Threads = {t}
    PROVE  Spec => []SerialInv
<1>1. SerialInv /\ [Next]_vars => SerialInv'
  <2> SUFFICES ASSUME SerialInv, [Next]_vars PROVE SerialInv'
    OBVIOUS
  <2>1. RowsInv' /\ ShapeInv' /\ NotBinary'
    BY RowsStep, ShapeStep, NotBinaryStep DEF SerialInv, RowsInv
  <2>2. Known(t)'
    BY KnownStep
  <2> QED
    BY <2>1, <2>2 DEF SerialInv
<1> QED
  BY <1>1, SerialInit, PTL DEF Spec

\* With one service thread, a refresh that has just committed over a scope that is
\* still as it was listed leaves each listed file indexed with its present text, and
\* no row of a file that was not listed, whatever was edited while it read; but the
\* row of a single file that has gone may stay.
THEOREM SerialCommitIsComplete ==
    ASSUME NEW t, Threads = {t}
    PROVE  Spec => []CommitIsComplete
<1>1. SerialInv => CommitIsComplete
  <2> SUFFICES ASSUME SerialInv, NEW u \in Threads, job[u].pc = "sync",
                      job[u].listing = Listing(job[u].req), NEW f \in job[u].req.scope
               PROVE  IF job[u].listing[f] # 0 THEN rows[f].text = Indexable(tree[f])
                      ELSE job[u].req.root # "file" => rows[f] = Nothing
    BY DEF CommitIsComplete
  <2>1. TypeOK /\ Known(u) /\ f \in Files
    BY DEF SerialInv, RowsInv, Actors, ShapeInv, Shape, Underway
  <2>2. job[u].listing[f] # 0 => Fresh(u, f)
    BY <2>1, ListingOf DEF Fresh
  <2> QED
    BY <2>1, <2>2 DEF Known
<1> QED
  BY <1>1, SerialInvariant, PTL

LEMMA MissedGrows ==
    ASSUME Next
    PROVE  missed \subseteq missed'
<1>1. ASSUME NEW t \in Threads, Refresh(t)
      PROVE  missed \subseteq missed'
  BY <1>1 DEF Refresh, Start, Check, List, ReadExisting, Snapshot, ReadCandidate,
     ReadRaises, Commit, InvalidateStatus, SyncRaises, UseCachedStatus, lmdb
<1>2. ASSUME NEW a \in Actors, ComputeStatus(a) \/ PublishStatus(a)
      PROVE  missed \subseteq missed'
  BY <1>2 DEF ComputeStatus, PublishStatus, lmdb
<1>3. CASE \/ \E r \in Readers : FinishRead(r) \/ \E f \in Files : OpenRead(r, f)
           \/ \E f \in Files : Edit(f) \/ Remove(f)
           \/ Crash
  BY <1>3 DEF FinishRead, OpenRead, Edit, Remove, Crash, lmdb
<1> QED
  BY <1>1, <1>2, <1>3 DEF Next

LEMMA TermsStep ==
    ASSUME SerialInv, TermRowsMatch, [Next]_vars
    PROVE  TermRowsMatch'
<1>1. CASE Next /\ UNCHANGED <<rows, terms, stored>>
  <2>1. missed \subseteq missed'
    BY <1>1, MissedGrows
  <2>2. \A f : TermsOf(rows'[f]) = TermsOf(rows[f])
    BY <1>1
  <2> QED
    BY <1>1, <2>1, <2>2 DEF TermRowsMatch
<1>2. ASSUME NEW t \in Threads, Commit(t)
      PROVE  TermRowsMatch'
  <2>1. t \in Actors /\ TypeOK /\ Shape(job[t]) /\ Known(t) /\ job[t].pc = "read"
    BY <1>2 DEF Commit, SerialInv, RowsInv, Actors, ShapeInv
  <2>2. \A f \in Files : rows'[f] = NewRow(t, f)
    BY <1>2, <2>1, CommitFields
  <2> SUFFICES ASSUME NEW f \in Files
               PROVE  /\ TermsOf(NewRow(t, f)) \subseteq terms'[f]
                      /\ f \notin missed => terms'[f] = TermsOf(NewRow(t, f))
    <3>1. missed' = missed
      BY <1>2 DEF Commit
    <3> QED
      BY <2>2, <3>1 DEF TermRowsMatch, TermsOf
  <2>3. CASE job[t].puts[f] = Nothing /\ f \notin job[t].dels
    <3>1. terms'[f] = terms[f]
      BY <1>2, <2>3 DEF Commit
    <3> QED
      BY <2>3, <3>1 DEF NewRow, TermRowsMatch
  <2>4. CASE job[t].puts[f] # Nothing \/ f \in job[t].dels
    <3>1. terms'[f] = (terms[f] \ TermsOf(job[t].existing[f])) \cup TermsOf(job[t].puts[f])
      BY <1>2, <2>4 DEF Commit, TermsAfter
    <3>2. f \in job[t].req.scope
      BY <2>1, <2>4 DEF Shape
    <3>3. f \notin missed => terms[f] = TermsOf(job[t].existing[f])
      BY <2>1, <3>2 DEF Known, Passed, TermRowsMatch
    <3>4. TermsOf(job[t].puts[f]) = TermsOf(NewRow(t, f))
      BY <2>4 DEF NewRow
    <3> QED
      BY <3>1, <3>3, <3>4
  <2> QED
    BY <2>3, <2>4
<1>3. CASE UNCHANGED vars
  BY <1>3 DEF vars, TermRowsMatch, TermsOf
<1> QED
  BY <1>1, <1>2, <1>3, OnlyCommitWrites

\* With one service thread, the term rows of every file hold those of its file row,
\* and no others unless a refresh of that file alone has passed over its row: the
\* refresh deletes the terms of the row it read, and it read the row that is there.
THEOREM SerialTermsMatch ==
    ASSUME NEW t, Threads = {t}
    PROVE  Spec => []TermRowsMatch
<1>1. Init => TermRowsMatch
  BY DEF Init, TermRowsMatch, TermsOf, Nothing
<1>2. SerialInv /\ TermRowsMatch /\ [Next]_vars => TermRowsMatch'
  BY TermsStep
<1> QED
  BY <1>1, <1>2, SerialInvariant, PTL DEF Spec

-----------------------------------------------------------------------------
(* The skip.  The signature stored with the rows stays honest when nothing  *)
(* but the files' stats is signed and no refresh of a path stops short of    *)
(* it: a stat the signature names is then one whose row is current.          *)

\* No refresh of a single path is cut off by its max_files.
Untruncated ==
    \A r \in Requests : r.root # "repo" => /\ IsFiniteSet(r.scope)
                                           /\ Cardinality(r.scope) <= r.limit

\* The stored signature names the stat f has now.
Live(f) == stored.stamps[f] # 0 /\ stored.stamps[f] = tree[f].stamp

StoredInv ==
    \A f \in Files : /\ stored.stamps[f] \in 0 .. clock
                     /\ Live(f) => rows[f].text = Indexable(tree[f])

\* What a thread's record has to do with the signature it will store, or leave.
Signed(t) ==
    /\ job[t].pc = "read" /\ job[t].req.root = "repo"
         => job[t].sig = FilesSignature(job[t].listing)
    /\ job[t].pc \in {"existing", "snapshot", "read"} /\ job[t].req.root # "repo"
         => \A f \in job[t].req.scope : Live(f) => Fresh(t, f)

\* A status a thread has computed for itself is what the store holds.
Seen(t) == job[t].pc = "decide" => job[t].seen = CurrentStatus

SkipInv == SerialInv /\ StoredInv /\ \A t \in Threads : Signed(t) /\ Seen(t)

LEMMA FirstOfAll ==
    ASSUME NEW D \in SUBSET Files, IsFiniteSet(D), NEW n \in Nat, Cardinality(D) <= n,
           NEW S \in SUBSET D
    PROVE  FirstOf(S, n) = S
<1> SUFFICES ASSUME NEW f \in S PROVE Cardinality({g \in S : g < f}) < n
  BY DEF FirstOf
<1> DEFINE below == {g \in S : g < f}
<1>1. below \subseteq D \ {f}
  <2>1. f \in Nat /\ ~(f < f)
    OBVIOUS
  <2> QED
    BY <2>1
<1>2. /\ IsFiniteSet(D \ {f})
      /\ Cardinality(D \ {f}) = Cardinality(D) - 1
  BY FS_RemoveElement
<1>3. Cardinality(below) <= Cardinality(D \ {f}) /\ Cardinality(below) \in Nat
  BY <1>1, <1>2, FS_Subset, FS_CardinalityType
<1>4. Cardinality(D) \in Nat
  BY FS_CardinalityType
<1> QED
  BY <1>2, <1>3, <1>4

\* A listing that is not cut off gives each file in scope the stat it has.
LEMMA ListingOfAll ==
    ASSUME TypeOK, NEW r \in Requests, IsFiniteSet(r.scope),
           Cardinality(r.scope) <= r.limit, NEW f \in r.scope
    PROVE  Listing(r)[f] = tree[f].stamp
<1> DEFINE there == {g \in r.scope : tree[g] # Nothing}
<1>1. r.scope \in SUBSET Files /\ r.limit \in Nat
  OBVIOUS
<1>2. there \in SUBSET r.scope
  OBVIOUS
<1>3. FirstOf(there, r.limit) = there
  BY <1>1, <1>2, FirstOfAll
<1>4. f \notin there => tree[f].stamp = 0
  BY DEF Nothing
<1> QED
  BY <1>1, <1>3, <1>4 DEF Listing

LEMMA SignatureStamps ==
    ASSUME NEW stamps \in [Files -> Nat], NEW f \in Files
    PROVE  FilesSignature(stamps).stamps[f] = stamps[f]
<1>1. CASE \E g \in Files : stamps[g] # 0
  BY <1>1 DEF FilesSignature, NoSignature
<1>2. CASE \A g \in Files : stamps[g] = 0
  BY <1>2 DEF FilesSignature, NoSignature
<1> QED
  BY <1>1, <1>2

\* Nothing Signed speaks of moves while the thread reads on.
LEMMA SignedSame ==
    ASSUME NEW t, Signed(t), UNCHANGED <<tree, stored>>,
           job'[t].pc \in {"existing", "snapshot", "read"} =>
              job[t].pc \in {"existing", "snapshot", "read"},
           job'[t].req = job[t].req, job'[t].listing = job[t].listing,
           job'[t].pc = "read" => job[t].pc = "read" /\ job'[t].sig = job[t].sig
    PROVE  Signed(t)'
<1>1. \A f : (Live(f)' <=> Live(f)) /\ (Fresh(t, f)' <=> Fresh(t, f))
  BY DEF Live, Fresh
<1>2. job'[t].pc = "read" /\ job'[t].req.root = "repo"
        => job'[t].sig = FilesSignature(job'[t].listing)
  BY DEF Signed
<1> QED
  BY <1>1, <1>2 DEF Signed, FilesSignature, NoSignature

LEMMA SignedStep ==
    ASSUME SkipInv, NEW t, Threads = {t}, Untruncated, SignatureSources = {"files"},
           [Next]_vars
    PROVE  Signed(t)'
<1>1. t \in Threads /\ t \in Actors /\ TypeOK /\ ShapeInv /\ Shape(job[t]) /\ Signed(t)
  BY DEF SkipInv, SerialInv, RowsInv, Actors, ShapeInv
<1>2. ASSUME job'[t].pc \notin {"existing", "snapshot", "read"} PROVE Signed(t)'
  BY <1>2 DEF Signed
<1>3. ASSUME Refresh(t)
      PROVE  Signed(t)'
  <2>1. CASE \E r \in Requests : Start(t, r) \/ Check(t, r)
    BY <1>1, <1>2, <2>1, StartFields
  <2>2. CASE List(t)
    <3>1. /\ job'[t].pc = "existing" /\ job'[t].req = job[t].req
          /\ job'[t].listing = Listing(job[t].req) /\ job[t].req \in Requests
      BY <1>1, <2>2, ListFields DEF Shape
    <3>2. tree' = tree /\ stored' = stored
      BY <2>2 DEF List, world, lmdb
    <3>3. ASSUME job[t].req.root # "repo", NEW f \in job[t].req.scope, Live(f)
          PROVE  Fresh(t, f)'
      <4>1. IsFiniteSet(job[t].req.scope) /\ Cardinality(job[t].req.scope) <= job[t].req.limit
        BY <3>1, <3>3 DEF Untruncated
      <4>2. Listing(job[t].req)[f] = tree[f].stamp
        BY <1>1, <3>1, <3>3, <4>1, ListingOfAll
      <4>3. job'[t].listing[f] = tree'[f].stamp /\ tree'[f].stamp # 0
        BY <3>1, <3>2, <3>3, <4>2 DEF Live
      <4> QED
        BY <4>3 DEF Fresh
    <3> QED
      BY <3>1, <3>2, <3>3 DEF Signed, Live
  <2>3. CASE ReadExisting(t)
    <3>1. tree' = tree /\ stored' = stored
      BY <2>3 DEF ReadExisting, world, lmdb
    <3> QED
      BY <1>1, <2>3, <3>1, ReadExistingFields, SignedSame
  <2>4. CASE Snapshot(t)
    <3>1. tree' = tree /\ stored' = stored
      BY <2>4 DEF Snapshot, world, lmdb
    <3>2. /\ job[t].pc = "snapshot" /\ job'[t].pc = "read"
          /\ job'[t].req = job[t].req /\ job'[t].listing = job[t].listing
      BY <1>1, <2>4, SnapshotFields
    <3>3. PICK src \in SignatureSources :
            job'[t].sig = IF job[t].req.root = "repo"
                          THEN RefreshSignature(t, src) ELSE NoSignature
      BY <1>1, <2>4, SnapshotFields
    <3>4. job[t].req.root = "repo" => job'[t].sig = FilesSignature(job[t].listing)
      BY <3>3 DEF RefreshSignature, SignatureOf
    <3>5. \A f : (Live(f)' <=> Live(f)) /\ (Fresh(t, f)' <=> Fresh(t, f))
      BY <3>1, <3>2 DEF Live, Fresh
    <3> QED
      BY <1>1, <3>2, <3>4, <3>5 DEF Signed, FilesSignature, NoSignature
  <2>5. ASSUME NEW f \in Files, ReadCandidate(t, f)
        PROVE  Signed(t)'
    <3>1. tree' = tree /\ stored' = stored
      BY <2>5 DEF ReadCandidate, world, lmdb
    <3>2. /\ job[t].pc = "read" /\ job'[t].pc = "read" /\ job'[t].req = job[t].req
          /\ job'[t].listing = job[t].listing /\ job'[t].sig = job[t].sig
      BY <1>1, <2>5, ReadCandidateFields
    <3> QED
      BY <1>1, <3>1, <3>2, SignedSame
  <2>6. CASE Commit(t)
    BY <1>1, <1>2, <2>6, CommitFields
  <2>7. CASE InvalidateStatus(t) \/ SyncRaises(t) \/ \E f \in Files : ReadRaises(t, f)
    BY <1>1, <1>2, <2>7, EndFields
  <2>8. CASE UseCachedStatus(t)
    BY <1>1, <1>2, <2>8, StatusFields DEF Underway
  <2> QED
    BY <1>3, <2>1, <2>2, <2>3, <2>4, <2>5, <2>6, <2>7, <2>8 DEF Refresh
<1>4. ASSUME NEW a \in Actors, ComputeStatus(a) \/ PublishStatus(a)
      PROVE  Signed(t)'
  <2>1. CASE a = t
    BY <1>1, <1>2, <1>4, <2>1, StatusFields DEF Underway
  <2>2. CASE a # t
    <3>1. job'[t] = job[t]
      BY <1>1, <1>4, <2>2 DEF ComputeStatus, PublishStatus, TypeOK
    <3>2. tree' = tree /\ stored' = stored
      BY <1>4 DEF ComputeStatus, PublishStatus, world, lmdb
    <3> QED
      BY <1>1, <3>1, <3>2, SignedSame
  <2> QED
    BY <2>1, <2>2
<1>5. CASE \/ \E r \in Readers : FinishRead(r) \/ \E f \in Files : OpenRead(r, f)
           \/ UNCHANGED vars
  <2>1. job' = job /\ stored' = stored /\ tree' = tree
    BY <1>5 DEF FinishRead, OpenRead, vars, world, lmdb
  <2> QED
    BY <1>1, <2>1, SignedSame
<1>6. ASSUME NEW g \in Files, Edit(g) \/ Remove(g)
      PROVE  Signed(t)'
  <2>1. job' = job /\ stored' = stored
    BY <1>6 DEF Edit, Remove, lmdb
  <2>2. job[t].pc \in Underway => job[t].req.scope \subseteq Files
    BY <1>1 DEF Shape
  <2>3. ~Live(g)'
    <3>1. CASE Edit(g)
      <4>1. tree'[g].stamp = clock + 1 /\ clock \in Nat
        BY <1>1, <3>1 DEF Edit, TypeOK
      <4>2. stored.stamps[g] \in 0 .. clock
        BY DEF SkipInv, StoredInv
      <4> QED
        BY <2>1, <4>1, <4>2 DEF Live
    <3>2. CASE Remove(g)
      BY <1>1, <2>1, <3>2 DEF Remove, Live, Nothing, TypeOK
    <3> QED
      BY <1>6, <3>1, <3>2
  <2>4. \A f \in Files : Live(f)' => tree'[f] = tree[f]
    <3>1. \A f \in Files \ {g} : tree'[f] = tree[f]
      BY <1>1, <1>6 DEF Edit, Remove, TypeOK
    <3> QED
      BY <2>3, <3>1
  <2>5. ASSUME NEW f \in job[t].req.scope, job[t].req.root # "repo", Live(f)',
               job[t].pc \in {"existing", "snapshot", "read"}
        PROVE  Fresh(t, f)'
    <3>1. f \in Files
      BY <2>2, <2>5 DEF Underway
    <3>2. tree'[f] = tree[f] /\ Live(f)
      BY <2>1, <2>4, <2>5, <3>1 DEF Live
    <3> QED
      BY <1>1, <2>1, <2>5, <3>2 DEF Signed, Fresh
  <2>6. job'[t].pc = "read" /\ job'[t].req.root = "repo"
          => job'[t].sig = FilesSignature(job'[t].listing)
    BY <1>1, <2>1 DEF Signed
  <2> QED
    BY <2>1, <2>5, <2>6 DEF Signed, FilesSignature, NoSignature
<1>7. CASE Crash
  BY <1>1, <1>2, <1>7 DEF Crash, IdleJob
<1> QED
  BY <1>1, <1>3, <1>4, <1>5, <1>6, <1>7 DEF Next

LEMMA SeenStep ==
    ASSUME SkipInv, NEW t, Threads = {t}, [Next]_vars
    PROVE  Seen(t)'
<1>1. /\ t \in Threads /\ t \in Actors /\ TypeOK /\ job \in [Actors -> Job]
      /\ ShapeInv /\ Seen(t)
  BY DEF SkipInv, SerialInv, RowsInv, Actors, TypeOK
<1>2. ASSUME job'[t].pc # "decide" PROVE Seen(t)'
  BY <1>2 DEF Seen
<1>3. ASSUME job'[t] = job[t], UNCHANGED <<rows, stored>> PROVE Seen(t)'
  BY <1>1, <1>3 DEF Seen, CurrentStatus
<1>4. \A status : Decided(t, status).pc # "decide"
  BY DEF Decided, IdleJob
<1>5. ASSUME Refresh(t)
      PROVE  Seen(t)'
  <2>1. CASE \E r \in Requests : Start(t, r) \/ Check(t, r)
    BY <1>1, <1>2, <2>1, StartFields
  <2>2. CASE List(t) \/ ReadExisting(t) \/ Snapshot(t) \/ Commit(t)
    BY <1>1, <1>2, <2>2, ListFields, ReadExistingFields, SnapshotFields, CommitFields
  <2>3. CASE \E f \in Files : ReadCandidate(t, f)
    BY <1>1, <1>2, <2>3, ReadCandidateFields
  <2>4. CASE InvalidateStatus(t) \/ SyncRaises(t) \/ \E f \in Files : ReadRaises(t, f)
    BY <1>1, <1>2, <2>4, EndFields
  <2>5. CASE UseCachedStatus(t)
    <3>1. t # Background
      BY <1>1
    <3>2. job'[t] = Decided(t, cache)
      BY <1>1, <2>5, <3>1 DEF UseCachedStatus
    <3> QED
      BY <1>2, <1>4, <3>2
  <2> QED
    BY <1>5, <2>1, <2>2, <2>3, <2>4, <2>5 DEF Refresh
<1>6. ASSUME NEW a \in Actors, ComputeStatus(a)
      PROVE  Seen(t)'
  <2>1. UNCHANGED <<rows, stored>>
    BY <1>6 DEF ComputeStatus, lmdb
  <2>2. CASE a = t
    <3>1. PICK seen, pc : /\ seen = CurrentStatus
                          /\ job' = [job EXCEPT ![t].seen = seen, ![t].pc = pc]
      BY <1>6, <2>2 DEF ComputeStatus
    <3>2. job'[t].seen = CurrentStatus
      BY <1>1, <3>1 DEF Job
    <3> QED
      BY <2>1, <3>2 DEF Seen, CurrentStatus
  <2>3. CASE a # t
    BY <1>1, <1>3, <1>6, <2>1, <2>3 DEF ComputeStatus
  <2> QED
    BY <2>2, <2>3
<1>7. ASSUME NEW a \in Actors, PublishStatus(a)
      PROVE  Seen(t)'
  <2>1. UNCHANGED <<rows, stored>>
    BY <1>7 DEF PublishStatus, lmdb
  <2>2. CASE a = t
    <3>1. job'[t] = Decided(t, job[t].seen) \/ job'[t] = IdleJob
      BY <1>1, <1>7, <2>2 DEF PublishStatus
    <3> QED
      BY <1>2, <1>4, <3>1 DEF IdleJob
  <2>3. CASE a # t
    BY <1>1, <1>3, <1>7, <2>1, <2>3 DEF PublishStatus
  <2> QED
    BY <2>2, <2>3
<1>8. CASE \/ \E r \in Readers : FinishRead(r) \/ \E f \in Files : OpenRead(r, f)
           \/ \E f \in Files : Edit(f) \/ Remove(f)
           \/ UNCHANGED vars
  BY <1>3, <1>8 DEF FinishRead, OpenRead, Edit, Remove, vars, lmdb
<1>9. CASE Crash
  BY <1>1, <1>2, <1>9 DEF Crash, IdleJob
<1> QED
  BY <1>1, <1>5, <1>6, <1>7, <1>8, <1>9 DEF Next

LEMMA StoredStep ==
    ASSUME SkipInv, NEW t, Threads = {t}, Known(t)', [Next]_vars
    PROVE  StoredInv'
<1>1. /\ t \in Threads /\ t \in Actors /\ TypeOK /\ Shape(job[t]) /\ Signed(t)
      /\ StoredInv /\ StampsPast
  BY DEF SkipInv, SerialInv, RowsInv, Actors, ShapeInv
<1>2. CASE UNCHANGED <<rows, terms, stored>> /\ UNCHANGED <<clock, tree>>
  BY <1>1, <1>2 DEF StoredInv, Live, Indexable
<1>3. CASE Commit(t)
  <2>1. /\ job[t].pc = "read" /\ job'[t].pc = "sync" /\ job[t].todo = {}
        /\ job'[t].req = job[t].req /\ job'[t].listing = job[t].listing
        /\ \A f \in Files : rows'[f] = NewRow(t, f)
        /\ UNCHANGED <<clock, tree>>
        /\ stored' = IF job[t].req.root = "repo" THEN job[t].sig ELSE stored
    BY <1>1, <1>3, CommitFields DEF Commit, world
  <2>2. job[t].req \in Requests /\ job[t].listing \in [Files -> Nat]
    BY <1>1, <2>1 DEF Shape, TypeOK, Job, Underway
  <2>3. \A f \in job[t].req.scope : Fresh(t, f) => rows'[f].text = Indexable(tree[f])
    BY <2>1 DEF Known, Fresh, Indexable
  <2> SUFFICES ASSUME NEW f \in Files
               PROVE  /\ stored'.stamps[f] \in 0 .. clock
                      /\ Live(f)' => rows'[f].text = Indexable(tree[f])
    BY <2>1 DEF StoredInv, Indexable
  <2>4. CASE job[t].req.root = "repo"
    <3>1. stored' = FilesSignature(job[t].listing)
      BY <1>1, <2>1, <2>4 DEF Signed
    <3>2. stored'.stamps[f] = job[t].listing[f]
      BY <2>2, <3>1, SignatureStamps
    <3>3. f \in job[t].req.scope
      BY <2>2, <2>4
    <3>4. Live(f)' => Fresh(t, f)
      BY <2>1, <3>2 DEF Live, Fresh
    <3> QED
      BY <1>1, <2>3, <3>2, <3>3, <3>4 DEF StampsPast
  <2>5. CASE job[t].req.root # "repo"
    <3>1. stored' = stored /\ (Live(f)' <=> Live(f))
      BY <2>1, <2>5 DEF Live
    <3>2. stored.stamps[f] \in 0 .. clock /\ (Live(f) => rows[f].text = Indexable(tree[f]))
      BY <1>1 DEF StoredInv
    <3>3. CASE f \in job[t].req.scope
      BY <1>1, <2>1, <2>3, <2>5, <3>1, <3>2, <3>3 DEF Signed
    <3>4. CASE f \notin job[t].req.scope
      <4>1. rows'[f] = rows[f]
        BY <1>1, <2>1, <3>4 DEF Shape, NewRow
      <4> QED
        BY <3>1, <3>2, <4>1
    <3> QED
      BY <3>3, <3>4
  <2> QED
    BY <2>4, <2>5
<1>4. ASSUME NEW g \in Files, Edit(g) \/ Remove(g)
      PROVE  StoredInv'
  <2>1. rows' = rows /\ stored' = stored
    BY <1>4 DEF Edit, Remove, lmdb
  <2>2. \A f \in Files \ {g} : tree'[f] = tree[f]
    BY <1>1, <1>4 DEF Edit, Remove, TypeOK
  <2>3. /\ clock \in Nat /\ clock' \in Nat /\ clock <= clock'
        /\ tree'[g].stamp = 0 \/ tree'[g].stamp > clock
    <3>1. CASE Edit(g)
      BY <1>1, <3>1 DEF Edit, TypeOK
    <3>2. CASE Remove(g)
      BY <1>1, <3>2 DEF Remove, TypeOK, Nothing
    <3> QED
      BY <1>4, <3>1, <3>2
  <2> SUFFICES ASSUME NEW f \in Files
               PROVE  /\ stored.stamps[f] \in 0 .. clock'
                      /\ Live(f)' => rows[f].text = Indexable(tree'[f])
    BY <2>1 DEF StoredInv, Indexable
  <2>4. stored.stamps[f] \in 0 .. clock /\ (Live(f) => rows[f].text = Indexable(tree[f]))
    BY <1>1 DEF StoredInv
  <2>5. CASE f = g
    <3>1. tree'[f].stamp \in Nat
      BY TypeStep, <1>1 DEF TypeOK, Version
    <3>2. ~Live(f)'
      BY <2>1, <2>3, <2>4, <2>5, <3>1 DEF Live
    <3> QED
      BY <2>3, <2>4, <3>2
  <2>6. CASE f # g
    <3>1. tree'[f] = tree[f] /\ (Live(f)' <=> Live(f))
      BY <2>1, <2>2, <2>6 DEF Live
    <3> QED
      BY <2>3, <2>4, <3>1
  <2> QED
    BY <2>5, <2>6
<1>5. CASE UNCHANGED vars
  BY <1>1, <1>5 DEF vars, StoredInv, Live, Indexable
<1>6. CASE Next
  <2>1. UNCHANGED <<clock, tree>> \/ \E g \in Files : Edit(g) \/ Remove(g)
    BY <1>1, <1>6, StepMoves DEF SkipInv, SerialInv, RowsInv
  <2> QED
    BY <1>1, <1>2, <1>3, <1>4, <1>6, <2>1, OnlyCommitWrites
<1> QED
  BY <1>5, <1>6

\* Where only the files' stats are signed, one service thread refreshes and no
\* refresh of a path is cut off, refresh_if_needed skips only over a current index if
\* the status it goes by is one it has just computed, or a cached one that is still
\* what the store holds: the stored signature is then the live one, and is so only
\* if each candidate's row is its text.
THEOREM SerialSkipMeansCurrent ==
    ASSUME NEW t, Threads = {t}, Untruncated, SignatureSources = {"files"}
    PROVE  Spec => []SkipMeansCurrent
<1>1. Init => SkipInv
  <2> SUFFICES ASSUME Init PROVE SkipInv
    OBVIOUS
  <2>1. StoredInv
    BY DEF Init, StoredInv, Live, NoSignature
  <2>2. \A u \in Threads : Signed(u) /\ Seen(u)
    BY DEF Init, Signed, Seen, Actors, IdleJob
  <2> QED
    BY <2>1, <2>2, SerialInit DEF SkipInv
<1>2. SkipInv /\ SerialInv' /\ [Next]_vars => SkipInv'
  <2> SUFFICES ASSUME SkipInv, SerialInv', [Next]_vars PROVE SkipInv'
    OBVIOUS
  <2>1. Known(t)'
    BY DEF SerialInv
  <2>2. StoredInv'
    BY <2>1, StoredStep
  <2>3. Signed(t)' /\ Seen(t)'
    BY SignedStep, SeenStep
  <2> QED
    BY <2>2, <2>3 DEF SkipInv
<1>3. SkipInv => SkipMeansCurrent
  <2> SUFFICES ASSUME SkipInv, NEW u \in Threads, AboutToSkip(u),
                      job[u].pc = "status" => cache = CurrentStatus,
                      NEW f \in Files, Listing(job[u].req)[f] # 0
               PROVE  rows[f].text = Indexable(tree[f])
    BY DEF SkipMeansCurrent, IndexIsCurrent
  <2> DEFINE stamps == Listing(job[u].req)
  <2>1. TypeOK /\ StoredInv /\ Seen(u)
    BY DEF SkipInv, SerialInv, RowsInv
  <2>2. stored = job[u].sig
    BY <2>1 DEF AboutToSkip, Skips, CurrentStatus, Seen
  <2>3. job[u].sig = FilesSignature(stamps)
    BY DEF AboutToSkip, SignatureOf
  <2>4. stored.stamps[f] = stamps[f]
    BY <2>1, <2>2, <2>3, ListingType, SignatureStamps
  <2>5. Live(f)
    BY <2>1, <2>4, ListingOf DEF Live
  <2> QED
    BY <2>1, <2>5 DEF StoredInv
<1> QED
  BY <1>1, <1>2, <1>3, SerialInvariant, PTL DEF Spec

HIDE FilesAssumption
HIDE TextsAssumption
HIDE RequestsAssumption
HIDE ActorsAssumption

-----------------------------------------------------------------------------
(* The index keeps its invariant under the caches.                         *)

\* The steps of the index are those of IndexRefresh.
LEMMA SerialMoves ==
    ASSUME IndexStep \/ UNCHANGED cacheVars
    PROVE  [Next]_vars
BY RemovableAssumption
DEF IndexStep, ApplyChanges, Next, cacheVars, index, world, lmdb, vars

\* A requester leaves the index alone, but for asking for its status.
LEMMA IndexMoves ==
    ASSUME [CacheNext]_cacheVars
    PROVE  [Next]_vars \/ AskStatus
<1>1. CASE IndexStep \/ UNCHANGED cacheVars
  BY <1>1, SerialMoves
<1>2. CASE Restart
  BY <1>2 DEF Restart, Next
<1>3. CASE DropEntry
  BY <1>3 DEF DropEntry, index, world, lmdb, vars
<1>4. CASE \E q \in Requesters : Retrieve(q)
  <2>1. PICK q \in Requesters : Retrieve(q)
    BY <1>4
  <2>2. ASSUME NEW f \in Files, SearchRow(q, f) \/ StatFile(q, f)
        PROVE  UNCHANGED index
    BY <2>2 DEF SearchRow, StatFile
  <2>3. ASSUME Begin(q) \/ ReadSignature(q) \/ LookupFragment(q) \/ StoreFragment(q)
        PROVE  UNCHANGED index \/ AskStatus
    BY <2>3 DEF Begin, ReadSignature, LookupFragment, StoreFragment, Answered
  <2>4. ASSUME ReadDigest(q) \/ LookupSummary(q) \/ StatAgain(q)
               \/ Summarise(q) \/ StoreSummary(q)
        PROVE  UNCHANGED index
    BY <2>4 DEF ReadDigest, LookupSummary, StatAgain, Summarise, StoreSummary
  <2>5. ASSUME CheckSidecar(q) \/ GatherRecords(q) \/ Rewrite(q)
               \/ RewriteRaises(q) \/ TakeHits(q)
        PROVE  UNCHANGED index
    BY <2>5 DEF CheckSidecar, GatherRecords, Rewrite, RewriteRaises, TakeHits
  <2>6. UNCHANGED index \/ AskStatus
    BY <2>1, <2>2, <2>3, <2>4, <2>5 DEF Retrieve
  <2> QED
    BY <2>6 DEF index, world, lmdb, vars
<1> QED
  BY <1>1, <1>2, <1>3, <1>4 DEF CacheNext

LEMMA AskStatusKeepsRows ==
    ASSUME RowsInv, AskStatus
    PROVE  RowsInv'
<1> USE DEF RowsInv
<1>1. UNCHANGED <<clock, tree, rows, terms, stored, reader, missed>>
  BY DEF AskStatus, world, lmdb
<1>2. Background \in Actors
  BY DEF Actors
<1>3. cache' \in Status \cup {NoStatus}
  BY CurrentStatusType DEF AskStatus, ReportedStatus, TypeOK
<1> DEFINE j == [job[Background] EXCEPT !.pc = "report"]
<1>4. j \in Job
  <2>1. job[Background] \in Job
    BY <1>2 DEF TypeOK
  <2> QED
    BY <2>1 DEF Job, Step
<1>5. \/ job' = job
      \/ job[Background].pc = "idle" /\ job' = [job EXCEPT ![Background] = j]
  BY DEF AskStatus, TypeOK
<1>6. job' \in [Actors -> Job]
  <2> HIDE DEF j
  <2> QED
    BY <1>4, <1>5 DEF TypeOK
<1>7. ASSUME NEW a \in Actors
      PROVE  /\ job'[a].pc # "read" => job'[a].todo = {}
             /\ job'[a].todo = job[a].todo
             /\ job'[a].listing = job[a].listing
             /\ job'[a].puts = job[a].puts
  <2>1. CASE job' = job
    BY <2>1 DEF TodoSound
  <2>2. CASE job[Background].pc = "idle" /\ job' = [job EXCEPT ![Background] = j]
    <3>1. /\ j.pc = "report" /\ j.todo = job[Background].todo
          /\ j.listing = job[Background].listing /\ j.puts = job[Background].puts
      BY <1>2 DEF TypeOK, Job
    <3>2. job[Background].todo = {}
      BY <1>2, <2>2 DEF TodoSound
    <3>3. job'[a] = IF a = Background THEN j ELSE job[a]
      BY <2>2 DEF TypeOK
    <3> HIDE DEF j
    <3> QED
      BY <3>1, <3>2, <3>3 DEF TodoSound
  <2> QED
    BY <1>5, <2>1, <2>2
<1>8. TypeOK'
  BY <1>1, <1>3, <1>6 DEF TypeOK
<1>9. TodoSound'
  BY <1>7 DEF TodoSound
<1>10. StampsPast' /\ PutsSound' /\ RowStampSound'
  BY <1>1, <1>7 DEF StampsPast, PutsSound, RowStampSound, Genuine
<1> QED
  BY <1>8, <1>9, <1>10

\* The first index is empty, or holds the files there are.
LEMMA CacheRowsInit == CacheInit => RowsInv
<1> SUFFICES ASSUME CacheInit PROVE RowsInv
  OBVIOUS
<1>1. PICK first \in [Files \ Removable -> Texts \ BinaryTexts] :
        tree = [f \in Files |-> IF f \in Removable THEN Nothing
                               ELSE [stamp |-> 1, text |-> first[f]]]
  BY DEF CacheInit
<1>2. clock = 1 /\ tree \in [Files -> Version]
  BY <1>1, NothingIsVersion DEF CacheInit, Version
<1>3. \A a \in Actors : job[a] = IdleJob
  BY DEF CacheInit
<1>4. rows = [f \in Files |-> Nothing] \/ rows = tree
  BY DEF CacheInit
<1>5. stored \in Signature
  <2> DEFINE stamps == [f \in Files |-> tree[f].stamp]
             texts == [f \in Files |-> IF f \in Tracked THEN tree[f].text
                        ELSE IF f \in Untracked /\ tree[f] # Nothing THEN Present
                        ELSE None]
  <2>1. stamps \in [Files -> Nat] /\ texts \in [Files -> Texts \cup {None, Present}]
    BY <1>2 DEF Version
  <2>2. FilesSignature(stamps) \in Signature
    BY <2>1, NoSignatureType DEF FilesSignature, Signature
  <2>3. GitSignature \in Signature
    BY <2>1, NoSignatureType DEF GitSignature, Signature
  <2>4. \/ stored = NoSignature
        \/ \E src \in SignatureSources : stored = SignatureOf(src, stamps)
    BY DEF CacheInit
  <2> HIDE DEF stamps
  <2> QED
    BY <2>2, <2>3, <2>4, NoSignatureType DEF SignatureOf
<1>6. terms \in [Files -> SUBSET Texts]
  BY <1>2, <1>4, NothingIsVersion DEF CacheInit, TermsOf, Version
<1>7. TypeOK
  <2>1. rows \in [Files -> Version]
    BY <1>2, <1>4, NothingIsVersion
  <2>2. job \in [Actors -> Job]
    BY IdleJobType DEF CacheInit
  <2>3. reader \in [Readers -> [file: Nat, stamp: Nat,
                               window: SUBSET (Texts \cup {None})]]
    BY DEF CacheInit, Closed
  <2> QED
    BY <1>2, <1>5, <1>6, <2>1, <2>2, <2>3 DEF CacheInit, TypeOK
<1>8. TodoSound /\ PutsSound
  BY <1>3 DEF TodoSound, PutsSound, Genuine, IdleJob
<1>9. StampsPast
  BY <1>1, <1>2, <1>3 DEF StampsPast, IdleJob
<1>10. RowStampSound
  BY <1>1, <1>2, <1>4 DEF RowStampSound, Genuine, Nothing
<1> QED
  BY <1>7, <1>8, <1>9, <1>10 DEF RowsInv

-----------------------------------------------------------------------------
(* Type correctness.                                                       *)

RequestType == [pc: Phase, sig: Signature, expected: Nat, records: Answer,
                late: SUBSET Files, todo: SUBSET Files, answer: Answer, file: Nat,
                token: Version, stamp: Nat, text: Texts \cup {None}]

LEMMA IdleRequestType == IdleRequest \in RequestType
BY NothingIsVersion, NoSignatureType
DEF IdleRequest, RequestType, Phase, Answer, NoAnswer

\* A step that replaces one requester's record by another, and files nothing.
LEMMA RequestStepType ==
    ASSUME CacheTypeOK, NEW q \in Requesters, NEW r \in RequestType,
           request' = [request EXCEPT ![q] = r], UNCHANGED caches
    PROVE  CacheTypeOK'
BY DEF CacheTypeOK, RequestType, caches

LEMMA RespondType ==
    ASSUME CacheTypeOK, NEW q \in Requesters, Respond(q)
    PROVE  request' \in [Requesters -> RequestType]
BY IdleRequestType DEF CacheTypeOK, Respond, RequestType

LEMMA GotoType ==
    ASSUME CacheTypeOK, NEW q \in Requesters, NEW pc \in Phase, Goto(q, pc)
    PROVE  request' \in [Requesters -> RequestType]
<1>1. request[q] \in RequestType
  BY DEF CacheTypeOK, RequestType
<1>2. [request[q] EXCEPT !.pc = pc] \in RequestType
  BY <1>1 DEF RequestType
<1>3. request' = [request EXCEPT ![q] = [request[q] EXCEPT !.pc = pc]]
  BY DEF Goto, CacheTypeOK
<1> QED
  BY <1>2, <1>3 DEF CacheTypeOK, RequestType

LEMMA CountType == \A texts : CountOf(texts) \in Nat
BY CountAssumption, FS_Subset, FS_CardinalityType DEF CountOf

\* What the sidecar may hold.
LEMMA DocsType ==
    ASSUME TypeOK, CacheTypeOK
    PROVE  /\ RowTexts \in Answer /\ NoAnswer \in Answer
           /\ \A t \in Threads : Applied(t) \in Answer
<1>1. RowTexts \in Answer /\ NoAnswer \in Answer
  BY DEF TypeOK, Version, RowTexts, NoAnswer, Answer
<1>2. ASSUME NEW t \in Threads
      PROVE  Applied(t) \in Answer
  <2>1. job[t].puts \in [Files -> Version] /\ docs \in [Files -> Texts \cup {None}]
    BY DEF TypeOK, Actors, Job, CacheTypeOK, Answer
  <2> QED
    BY <2>1 DEF Applied, Answer, Version
<1> QED
  BY <1>1, <1>2

\* The steps of a request for a search.
LEMMA ReadSignatureType ==
    ASSUME TypeOK, CacheTypeOK, NEW q \in Requesters, ReadSignature(q)
    PROVE  CacheTypeOK'
<1> DEFINE stamps == [f \in Files |-> tree[f].stamp]
<1>1. stamps \in [Files -> Nat]
  BY DEF TypeOK, Version
<1>2. PICK src \in SignatureSources :
        request' = [request EXCEPT ![q].pc = "signed",
            ![q].sig = IF stored # NoSignature THEN stored
                       ELSE SignatureOf(src, stamps)]
  BY DEF ReadSignature
<1> HIDE DEF stamps
<1> DEFINE sig == IF stored # NoSignature THEN stored ELSE SignatureOf(src, stamps)
           r == [request[q] EXCEPT !.pc = "signed", !.sig = sig]
<1>3. sig \in Signature
  BY <1>1, SignatureOfType DEF TypeOK
<1> HIDE DEF sig
<1>4. request[q] \in RequestType
  BY DEF CacheTypeOK, RequestType
<1>5. r \in RequestType
  BY <1>3, <1>4 DEF RequestType, Phase
<1>6. request' = [request EXCEPT ![q] = r]
  BY <1>2 DEF sig, CacheTypeOK
<1> HIDE DEF r
<1> QED
  BY <1>5, <1>6, RequestStepType DEF ReadSignature

LEMMA LookupFragmentType ==
    ASSUME CacheTypeOK, NEW q \in Requesters, LookupFragment(q)
    PROVE  CacheTypeOK'
<1> DEFINE r == [request[q] EXCEPT !.pc = "ensure", !.expected = CountOf(RowTexts)]
<1>1. r \in RequestType
  <2>1. request[q] \in RequestType /\ CountOf(RowTexts) \in Nat
    BY CountType DEF CacheTypeOK, RequestType
  <2> QED
    BY <2>1 DEF RequestType, Phase
<1>2. Respond(q) \/ request' = [request EXCEPT ![q] = r]
  BY DEF LookupFragment, CacheTypeOK
<1> HIDE DEF r
<1> QED
  BY <1>1, <1>2, IdleRequestType, RequestStepType DEF LookupFragment, Respond

LEMMA CheckSidecarType ==
    ASSUME CacheTypeOK, NEW q \in Requesters, CheckSidecar(q)
    PROVE  CacheTypeOK'
<1>1. UNCHANGED caches /\ (Goto(q, "hits") \/ Goto(q, "gather"))
  BY DEF CheckSidecar
<1>2. request' \in [Requesters -> RequestType]
  BY <1>1, GotoType DEF Phase
<1> QED
  BY <1>1, <1>2 DEF CacheTypeOK, RequestType, caches

LEMMA GatherRecordsType ==
    ASSUME TypeOK, CacheTypeOK, NEW q \in Requesters, GatherRecords(q)
    PROVE  CacheTypeOK'
<1> DEFINE r == [request[q] EXCEPT !.pc = "rewrite", !.records = RowTexts]
<1>1. r \in RequestType
  <2>1. request[q] \in RequestType /\ RowTexts \in Answer
    BY DocsType DEF CacheTypeOK, RequestType
  <2> QED
    BY <2>1 DEF RequestType, Phase
<1>2. request' = [request EXCEPT ![q] = r]
  BY DEF GatherRecords, CacheTypeOK
<1> HIDE DEF r
<1> QED
  BY <1>1, <1>2, RequestStepType DEF GatherRecords

LEMMA RewriteType ==
    ASSUME TypeOK, CacheTypeOK, NEW q \in Requesters, Rewrite(q) \/ RewriteRaises(q)
    PROVE  CacheTypeOK'
<1>1. request' \in [Requesters -> RequestType]
  BY GotoType, RespondType DEF Rewrite, RewriteRaises, Phase
<1>2. docs' \in Answer
  <2>1. request[q].records \in Answer /\ NoAnswer \in Answer
    BY DocsType DEF CacheTypeOK
  <2> QED
    BY <2>1 DEF Rewrite, RewriteRaises
<1>3. UNCHANGED <<fragments, summaries>>
  BY DEF Rewrite, RewriteRaises
<1> QED
  BY <1>1, <1>2, <1>3 DEF CacheTypeOK, RequestType

LEMMA TakeHitsType ==
    ASSUME CacheTypeOK, NEW q \in Requesters, TakeHits(q)
    PROVE  CacheTypeOK'
<1> DEFINE todo == {f \in Files : docs[f] \in Matching}
           late == {f \in Files : docs[f] # rows[f].text}
           r == [request[q] EXCEPT !.pc = "search", !.todo = todo, !.late = late]
<1>1. todo \in SUBSET Files /\ late \in SUBSET Files
  OBVIOUS
<1>2. request' = [request EXCEPT ![q] = r]
  BY DEF TakeHits, CacheTypeOK
<1> HIDE DEF todo, late
<1>3. r \in RequestType
  <2>1. request[q] \in RequestType
    BY DEF CacheTypeOK, RequestType
  <2> QED
    BY <1>1, <2>1 DEF RequestType, Phase
<1> HIDE DEF r
<1> QED
  BY <1>2, <1>3, RequestStepType DEF TakeHits

LEMMA SearchRowType ==
    ASSUME TypeOK, CacheTypeOK, NEW q \in Requesters, NEW f \in Files, SearchRow(q, f)
    PROVE  CacheTypeOK'
<1> DEFINE todo == request[q].todo \ {f}
           answer == [request[q].answer EXCEPT ![f] = Found(f)]
           r == [request[q] EXCEPT !.todo = todo, !.answer = answer]
<1>1. request[q] \in RequestType
  BY DEF CacheTypeOK, RequestType
<1>2. todo \in SUBSET Files /\ answer \in Answer
  BY <1>1 DEF RequestType, Answer, Found, TypeOK, Version
<1>3. request' = [request EXCEPT ![q] = r]
  BY DEF SearchRow, CacheTypeOK
<1>4. r \in RequestType
  <2> HIDE DEF todo, answer
  <2> QED
    BY <1>1, <1>2 DEF RequestType
<1> HIDE DEF r
<1> QED
  BY <1>3, <1>4, RequestStepType DEF SearchRow

LEMMA StoreFragmentType ==
    ASSUME CacheTypeOK, NEW q \in Requesters, StoreFragment(q)
    PROVE  CacheTypeOK'
<1>1. request' \in [Requesters -> RequestType]
  BY RespondType DEF StoreFragment
<1>2. [sig |-> FragmentKey(q), answer |-> request[q].answer, late |-> request[q].late]
        \in Fragment
  BY DEF CacheTypeOK, FragmentKey, Fragment
<1>3. fragments' \in SUBSET Fragment
  BY <1>2 DEF StoreFragment, CacheTypeOK
<1> QED
  BY <1>1, <1>3 DEF StoreFragment, CacheTypeOK, RequestType

\* The steps of a request for a summary.
LEMMA StatFileType ==
    ASSUME TypeOK, CacheTypeOK, NEW q \in Requesters, NEW f \in Files, StatFile(q, f)
    PROVE  CacheTypeOK'
<1> DEFINE token == [stamp |-> tree[f].stamp, text |-> None]
           r == [request[q] EXCEPT !.pc = "digest", !.file = f, !.token = token]
<1>1. token \in Version
  BY DEF TypeOK, Version
<1>2. Respond(q) \/ request' = [request EXCEPT ![q] = r]
  BY DEF StatFile, CacheTypeOK
<1>3. r \in RequestType
  <2>1. request[q] \in RequestType
    BY DEF CacheTypeOK, RequestType
  <2> HIDE DEF token
  <2> QED
    BY <1>1, <2>1, FilesAssumption DEF RequestType, Phase
<1> HIDE DEF r
<1> QED
  BY <1>2, <1>3, IdleRequestType, RequestStepType DEF StatFile, Respond

\* Where a request for a summary has named its file.
Summarising(q) ==
    request[q].pc \in {"digest", "lookup", "stat", "summarise", "keep"}
FileKnown == \A q \in Requesters : Summarising(q) => request[q].file \in Files

LEMMA ReadDigestType ==
    ASSUME TypeOK, CacheTypeOK, FileKnown, NEW q \in Requesters, ReadDigest(q)
    PROVE  CacheTypeOK'
<1> DEFINE row == rows[request[q].file]
           old == request[q].token
           token == IF row.stamp = old.stamp THEN [stamp |-> 0, text |-> row.text]
                    ELSE old
           r == [request[q] EXCEPT !.pc = "lookup", !.token = token]
<1>1. request[q] \in RequestType
  BY DEF CacheTypeOK, RequestType
<1>2. token \in Version
  <2>1. request[q].file \in Files
    BY DEF FileKnown, Summarising, ReadDigest
  <2> QED
    BY <1>1, <2>1 DEF RequestType, TypeOK, Version
<1>3. request' = [request EXCEPT ![q] = r]
  BY DEF ReadDigest, CacheTypeOK
<1>4. r \in RequestType
  <2> HIDE DEF token
  <2> QED
    BY <1>1, <1>2 DEF RequestType, Phase
<1> HIDE DEF r
<1> QED
  BY <1>3, <1>4, RequestStepType DEF ReadDigest

LEMMA LookupSummaryType ==
    ASSUME CacheTypeOK, NEW q \in Requesters, LookupSummary(q) \/ Begin(q)
    PROVE  CacheTypeOK'
<1>1. UNCHANGED caches
  BY DEF LookupSummary, Begin
<1>2. \/ Respond(q)
      \/ Goto(q, "stat") \/ Goto(q, "begun")
  BY DEF LookupSummary, Begin
<1>3. request' \in [Requesters -> RequestType]
  BY <1>2, RespondType, GotoType DEF Phase
<1> QED
  BY <1>1, <1>3 DEF CacheTypeOK, RequestType, caches

LEMMA StatAgainType ==
    ASSUME TypeOK, CacheTypeOK, FileKnown, NEW q \in Requesters, StatAgain(q)
    PROVE  CacheTypeOK'
<1> DEFINE stamp == tree[request[q].file].stamp
           r == [request[q] EXCEPT !.pc = "summarise", !.stamp = stamp]
<1>1. stamp \in Nat
  BY DEF FileKnown, Summarising, StatAgain, TypeOK, Version
<1>2. Respond(q) \/ request' = [request EXCEPT ![q] = r]
  BY DEF StatAgain, CacheTypeOK
<1>3. r \in RequestType
  <2>1. request[q] \in RequestType
    BY DEF CacheTypeOK, RequestType
  <2> HIDE DEF stamp
  <2> QED
    BY <1>1, <2>1 DEF RequestType, Phase
<1> HIDE DEF r
<1> QED
  BY <1>2, <1>3, IdleRequestType, RequestStepType DEF StatAgain, Respond

LEMMA SummariseType ==
    ASSUME TypeOK, CacheTypeOK, FileKnown, NEW q \in Requesters, Summarise(q)
    PROVE  CacheTypeOK'
<1> DEFINE f == request[q].file
           text == IF rows[f].stamp = request[q].stamp THEN rows[f].text
                   ELSE tree[f].text
           r == [request[q] EXCEPT !.pc = "keep", !.text = text]
<1>1. text \in Texts \cup {None}
  <2>1. f \in Files
    BY DEF FileKnown, Summarising, Summarise
  <2> QED
    BY <2>1 DEF TypeOK, Version
<1>2. Respond(q) \/ request' = [request EXCEPT ![q] = r]
  BY DEF Summarise, CacheTypeOK
<1>3. r \in RequestType
  <2>1. request[q] \in RequestType
    BY DEF CacheTypeOK, RequestType
  <2> HIDE DEF text
  <2> QED
    BY <1>1, <2>1 DEF RequestType, Phase
<1> HIDE DEF r
<1> QED
  BY <1>2, <1>3, IdleRequestType, RequestStepType DEF Summarise, Respond

LEMMA StoreSummaryType ==
    ASSUME CacheTypeOK, FileKnown, NEW q \in Requesters, StoreSummary(q)
    PROVE  CacheTypeOK'
<1>1. request' \in [Requesters -> RequestType]
  BY RespondType DEF StoreSummary
<1>2. request[q].file \in Files
  BY DEF FileKnown, Summarising, StoreSummary
<1>3. [file |-> request[q].file, token |-> SummaryToken(q), text |-> request[q].text]
        \in Summary
  BY <1>2 DEF CacheTypeOK, SummaryToken, Summary
<1>4. summaries' \in SUBSET Summary
  BY <1>3 DEF StoreSummary, CacheTypeOK
<1> QED
  BY <1>1, <1>4 DEF StoreSummary, CacheTypeOK, RequestType

LEMMA CacheTypeStep ==
    ASSUME TypeOK, CacheTypeOK, FileKnown, [CacheNext]_cacheVars
    PROVE  CacheTypeOK'
<1>1. CASE IndexStep
  <2>1. UNCHANGED <<fragments, summaries, request>>
    BY <1>1 DEF IndexStep
  <2>2. \/ docs' = docs
        \/ docs' \in {RowTexts, NoAnswer}
        \/ \E t \in Threads : docs' = Applied(t)
    BY <1>1 DEF IndexStep, SyncDocs, Synced, CutShort, ApplyChanges
  <2>3. docs' \in Answer
    BY <2>2, DocsType DEF CacheTypeOK
  <2> QED
    BY <2>1, <2>3 DEF CacheTypeOK
<1>2. CASE UNCHANGED cacheVars
  BY <1>2 DEF cacheVars, caches, CacheTypeOK
<1>3. CASE Restart
  <2>1. request' \in [Requesters -> RequestType]
    BY <1>3, IdleRequestType DEF Restart
  <2> QED
    BY <1>3, <2>1 DEF Restart, CacheTypeOK, RequestType, caches
<1>4. CASE DropEntry
  BY <1>4 DEF DropEntry, CacheTypeOK
<1>5. ASSUME NEW q \in Requesters, Retrieve(q)
      PROVE  CacheTypeOK'
  BY <1>5, ReadSignatureType, LookupFragmentType, CheckSidecarType, GatherRecordsType,
     RewriteType, TakeHitsType, SearchRowType, StoreFragmentType,
     StatFileType, ReadDigestType, LookupSummaryType, StatAgainType, SummariseType,
     StoreSummaryType
  DEF Retrieve
<1> QED
  BY <1>1, <1>2, <1>3, <1>4, <1>5 DEF CacheNext

-----------------------------------------------------------------------------
(* The summaries: none is filed under a stat its text did not have.        *)

\* What SummaryIsGenuine says of an entry, of what is to become one; and of a stat
\* taken again, that it is the first one's if that is still the file's.
Kept(token, f, text) ==
    token.stamp # 0 /\ token.stamp = tree[f].stamp => text = tree[f].text
StillStat(token, f, stamp) ==
    token.stamp # 0 /\ token.stamp = tree[f].stamp => stamp = token.stamp

\* What makes SummaryIsGenuine inductive: the stats taken are past, so no edit
\* brings one back, and a summary about to be filed is as sound as a filed one.
TokensPast ==
    /\ \A q \in Requesters : request[q].token.stamp \in 0 .. clock
    /\ \A e \in summaries : e.token.stamp \in 0 .. clock
KeepsSound ==
    \A q \in Requesters :
        LET r == request[q]
        IN  /\ r.pc = "summarise" => StillStat(r.token, r.file, r.stamp)
            /\ r.pc = "keep" => Kept(r.token, r.file, r.text)

SummaryInv ==
    RowsInv /\ CacheTypeOK /\ FileKnown /\ TokensPast /\ KeepsSound /\ SummaryIsGenuine

\* A step of the tree gives a file a new stamp or none: one that has a past stamp
\* after it had it before.
LEMMA PastStampStays ==
    ASSUME RowsInv, [Next]_vars, NEW f \in Files, NEW token \in Version,
           token.stamp \in 0 .. clock, token.stamp # 0, token.stamp = tree'[f].stamp
    PROVE  tree'[f] = tree[f]
<1>1. CASE UNCHANGED vars
  BY <1>1 DEF vars
<1>2. CASE UNCHANGED <<clock, tree>>
  BY <1>2
<1>3. CASE \E g \in Files : Edit(g)
  BY <1>3 DEF Edit, RowsInv, TypeOK, Version
<1>4. CASE \E g \in Files : Remove(g)
  BY <1>4 DEF Remove, RowsInv, TypeOK, Version, Nothing, world
<1> QED
  BY <1>1, <1>2, <1>3, <1>4, StepMoves DEF RowsInv

\* A step that leaves the summaries and the requests alone.
LEMMA IndexKeepsSummaries ==
    ASSUME SummaryInv, [Next]_vars, UNCHANGED <<summaries, request>>
    PROVE  FileKnown' /\ TokensPast' /\ KeepsSound' /\ SummaryIsGenuine'
<1> USE DEF SummaryInv
<1>1. FileKnown'
  BY DEF FileKnown, Summarising
<1>2. clock \in Nat /\ clock' \in Nat /\ clock <= clock'
  <2>1. clock' = clock \/ clock' = clock + 1
    <3>1. CASE UNCHANGED vars
      BY <3>1 DEF vars
    <3>2. CASE \E f \in Files : Edit(f) \/ Remove(f)
      BY <3>2 DEF Edit, Remove
    <3> QED
      BY <3>1, <3>2, StepMoves DEF RowsInv
  <2> QED
    BY <2>1 DEF RowsInv, TypeOK
<1>3. TokensPast'
  BY <1>2 DEF TokensPast
<1>4. KeepsSound'
  <2> SUFFICES ASSUME NEW q \in Requesters
               PROVE  LET r == request[q]
                      IN  /\ r.pc = "summarise" => StillStat(r.token, r.file, r.stamp)'
                          /\ r.pc = "keep" => Kept(r.token, r.file, r.text)'
    BY DEF KeepsSound, StillStat, Kept
  <2>1. CASE Summarising(q)
    <3> DEFINE r == request[q]
    <3>1. r.token \in Version /\ r.file \in Files /\ r.token.stamp \in 0 .. clock
      BY <2>1 DEF CacheTypeOK, FileKnown, TokensPast
    <3>2. r.token.stamp # 0 /\ r.token.stamp = tree'[r.file].stamp
            => tree'[r.file] = tree[r.file]
      BY <3>1, PastStampStays
    <3> QED
      BY <3>2 DEF KeepsSound, StillStat, Kept
  <2>2. CASE ~Summarising(q)
    BY <2>2 DEF Summarising
  <2> QED
    BY <2>1, <2>2
<1>5. SummaryIsGenuine'
  <2> SUFFICES ASSUME NEW e \in summaries,
                      e.token.stamp # 0, e.token.stamp = tree'[e.file].stamp
               PROVE  e.text = tree'[e.file].text
    BY DEF SummaryIsGenuine
  <2>1. e.token \in Version /\ e.file \in Files /\ e.token.stamp \in 0 .. clock
    BY DEF CacheTypeOK, Summary, TokensPast
  <2>2. tree'[e.file] = tree[e.file]
    BY <2>1, PastStampStays
  <2> QED
    BY <2>2 DEF SummaryIsGenuine
<1> QED
  BY <1>1, <1>3, <1>4, <1>5

\* A requester's step to a record that names a file and a past stat, and is not about
\* to file anything, or is about to file something sound.
Sound(r) ==
    /\ r.pc \in {"digest", "lookup", "stat", "summarise", "keep"} => r.file \in Files
    /\ r.token.stamp \in 0 .. clock
    /\ r.pc = "summarise" => StillStat(r.token, r.file, r.stamp)
    /\ r.pc = "keep" => Kept(r.token, r.file, r.text)

LEMMA RequestSound ==
    ASSUME SummaryInv, NEW q \in Requesters
    PROVE  Sound(request[q]) /\ Sound(IdleRequest)
<1>1. Sound(request[q])
  BY DEF SummaryInv, Sound, FileKnown, Summarising, TokensPast, KeepsSound
<1>2. Sound(IdleRequest)
  BY DEF Sound, IdleRequest, Nothing, SummaryInv, RowsInv, TypeOK
<1> QED
  BY <1>1, <1>2

LEMMA RequestKeepsSummaries ==
    ASSUME SummaryInv, UNCHANGED <<world, summaries>>, NEW q \in Requesters, NEW r,
           Sound(r), request' = [request EXCEPT ![q] = r]
    PROVE  FileKnown' /\ TokensPast' /\ KeepsSound' /\ SummaryIsGenuine'
<1>1. ASSUME NEW p \in Requesters
      PROVE  Sound(request'[p])
  <2>1. request'[p] = IF p = q THEN r ELSE request[p]
    BY DEF SummaryInv, CacheTypeOK
  <2> QED
    BY <2>1, RequestSound
<1>2. UNCHANGED <<clock, tree>>
  BY DEF world
<1>3. FileKnown'
  BY <1>1 DEF FileKnown, Summarising, Sound
<1>4. TokensPast' /\ KeepsSound'
  BY <1>1, <1>2 DEF TokensPast, KeepsSound, Sound, Kept, StillStat, SummaryInv
<1>5. SummaryIsGenuine'
  BY <1>2 DEF SummaryIsGenuine, SummaryInv
<1> QED
  BY <1>3, <1>4, <1>5

LEMMA RetrieveKeepsSummaries ==
    ASSUME SummaryInv, NEW q \in Requesters, Retrieve(q)
    PROVE  FileKnown' /\ TokensPast' /\ KeepsSound' /\ SummaryIsGenuine'
<1> USE DEF SummaryInv
<1> DEFINE old == request[q]
<1>1. Sound(old) /\ Sound(IdleRequest)
  BY RequestSound
<1>2. old \in RequestType /\ request \in [Requesters -> RequestType]
  BY DEF CacheTypeOK, RequestType
<1>3. ASSUME NEW r, Sound(r), request' = [request EXCEPT ![q] = r],
             UNCHANGED <<world, summaries>>
      PROVE  FileKnown' /\ TokensPast' /\ KeepsSound' /\ SummaryIsGenuine'
  BY <1>3, RequestKeepsSummaries
<1>4. CASE Begin(q) \/ ReadSignature(q)
  <2>1. PICK r \in RequestType : /\ request' = [request EXCEPT ![q] = r]
                                 /\ r.pc \in {"begun", "signed"}
                                 /\ r.token = old.token
    <3>1. CASE Begin(q)
      <4> DEFINE r == [old EXCEPT !.pc = "begun"]
      <4>1. request' = [request EXCEPT ![q] = r]
        BY <1>2, <3>1 DEF Begin, Goto
      <4>2. r \in RequestType /\ r.pc = "begun" /\ r.token = old.token
        BY <1>2 DEF RequestType, Phase
      <4> QED
        BY <4>1, <4>2
    <3>2. CASE ReadSignature(q)
      <4> DEFINE r == request'[q]
      <4>1. request' \in [Requesters -> RequestType]
        BY <3>2, ReadSignatureType DEF RowsInv, CacheTypeOK, RequestType
      <4>2. request' = [request EXCEPT ![q] = r]
        BY <1>2, <3>2 DEF ReadSignature
      <4>3. r.pc = "signed" /\ r.token = old.token
        BY <1>2, <3>2 DEF ReadSignature, RequestType
      <4> QED
        BY <4>1, <4>2, <4>3
    <3> QED
      BY <1>4, <3>1, <3>2
  <2>2. Sound(r)
    BY <1>1, <2>1 DEF Sound
  <2>3. UNCHANGED <<world, summaries>>
    BY <1>4 DEF Begin, ReadSignature, AskStatus, index, caches
  <2> QED
    BY <1>3, <2>1, <2>2, <2>3
<1>5. CASE LookupFragment(q)
  <2> DEFINE r == [old EXCEPT !.pc = "ensure", !.expected = CountOf(RowTexts)]
  <2>1. request' = [request EXCEPT ![q] = IdleRequest]
        \/ request' = [request EXCEPT ![q] = r]
    BY <1>2, <1>5 DEF LookupFragment, Respond
  <2>2. Sound(r)
    BY <1>1, <1>2 DEF Sound, RequestType
  <2>3. UNCHANGED <<world, summaries>>
    BY <1>5 DEF LookupFragment, Answered, AskStatus, index, caches
  <2> HIDE DEF r
  <2> QED
    BY <1>1, <1>3, <2>1, <2>2, <2>3
<1>6. CASE \E f \in Files : SearchRow(q, f)
  <2>1. PICK f \in Files : SearchRow(q, f)
    BY <1>6
  <2> DEFINE r == [old EXCEPT !.todo = @ \ {f}, !.answer[f] = Found(f)]
  <2>2. request' = [request EXCEPT ![q] = r]
    BY <1>2, <2>1 DEF SearchRow
  <2>3. Sound(r)
    BY <1>1, <1>2 DEF Sound, RequestType
  <2>4. UNCHANGED <<world, summaries>>
    BY <2>1 DEF SearchRow, index, caches
  <2> HIDE DEF r
  <2> QED
    BY <1>3, <2>2, <2>3, <2>4
<1>7. CASE StoreFragment(q) \/ RewriteRaises(q)
  BY <1>1, <1>3, <1>7
  DEF StoreFragment, RewriteRaises, Answered, AskStatus, Respond, index
<1>8. CASE \E f \in Files : StatFile(q, f)
  <2>1. PICK f \in Files : StatFile(q, f)
    BY <1>8
  <2> DEFINE r == [old EXCEPT !.pc = "digest", !.file = f,
                       !.token = [stamp |-> tree[f].stamp, text |-> None]]
  <2>2. Respond(q) \/ request' = [request EXCEPT ![q] = r]
    BY <1>2, <2>1 DEF StatFile
  <2>3. tree[f].stamp \in 0 .. clock
    BY DEF RowsInv, StampsPast, TypeOK, Nothing
  <2>4. Sound(r)
    BY <1>2, <2>3 DEF Sound, RequestType
  <2>5. UNCHANGED <<world, summaries>>
    BY <2>1 DEF StatFile, index, caches
  <2> HIDE DEF r
  <2> QED
    BY <1>1, <1>3, <2>2, <2>4, <2>5 DEF Respond
<1>9. CASE ReadDigest(q)
  <2> DEFINE row == rows[old.file]
             token == IF row.stamp = old.token.stamp
                      THEN [stamp |-> 0, text |-> row.text] ELSE old.token
             r == [old EXCEPT !.pc = "lookup", !.token = token]
  <2>1. request' = [request EXCEPT ![q] = r]
    BY <1>2, <1>9 DEF ReadDigest
  <2>2. token.stamp \in 0 .. clock
    BY <1>1 DEF Sound, RowsInv, TypeOK
  <2>3. old.file \in Files
    BY <1>1, <1>9 DEF Sound, ReadDigest
  <2> HIDE DEF token
  <2>4. Sound(r)
    BY <1>2, <2>2, <2>3 DEF Sound, RequestType
  <2>5. UNCHANGED <<world, summaries>>
    BY <1>9 DEF ReadDigest, index, caches
  <2> HIDE DEF r
  <2> QED
    BY <1>3, <2>1, <2>4, <2>5
<1>10. CASE LookupSummary(q)
  <2> DEFINE r == [old EXCEPT !.pc = "stat"]
  <2>1. Respond(q) \/ request' = [request EXCEPT ![q] = r]
    BY <1>2, <1>10 DEF LookupSummary, Goto
  <2>2. old.file \in Files
    BY <1>1, <1>10 DEF Sound, LookupSummary
  <2>3. Sound(r)
    BY <1>1, <1>2, <2>2 DEF Sound, RequestType
  <2>4. UNCHANGED <<world, summaries>>
    BY <1>10 DEF LookupSummary, index, caches
  <2> HIDE DEF r
  <2> QED
    BY <1>1, <1>3, <2>1, <2>3, <2>4 DEF Respond
<1>11. CASE StatAgain(q)
  <2> DEFINE stamp == tree[old.file].stamp
             r == [old EXCEPT !.pc = "summarise", !.stamp = stamp]
  <2>1. Respond(q) \/ request' = [request EXCEPT ![q] = r]
    BY <1>2, <1>11 DEF StatAgain
  <2>2. old.file \in Files
    BY <1>1, <1>11 DEF Sound, StatAgain
  <2>3. Sound(r)
    <3>1. /\ r.file = old.file /\ r.token = old.token /\ r.stamp = stamp
          /\ r.pc = "summarise"
      BY <1>2 DEF RequestType
    <3> QED
      BY <1>1, <2>2, <3>1 DEF Sound, StillStat
  <2>4. UNCHANGED <<world, summaries>>
    BY <1>11 DEF StatAgain, index, caches
  <2> HIDE DEF r
  <2> QED
    BY <1>1, <1>3, <2>1, <2>3, <2>4 DEF Respond
<1>12. CASE Summarise(q)
  <2> DEFINE f == old.file
             text == IF rows[f].stamp = old.stamp THEN rows[f].text ELSE tree[f].text
             r == [old EXCEPT !.pc = "keep", !.text = text]
  <2>1. Respond(q) \/ request' = [request EXCEPT ![q] = r]
    BY <1>2, <1>12 DEF Summarise
  <2>2. f \in Files /\ StillStat(old.token, f, old.stamp)
    BY <1>1, <1>12 DEF Sound, Summarise
  <2>3. Kept(old.token, f, text)
    <3> SUFFICES ASSUME old.token.stamp # 0, old.token.stamp = tree[f].stamp,
                        rows[f].stamp = old.stamp
                 PROVE  rows[f].text = tree[f].text
      BY DEF Kept
    <3>1. rows[f].stamp = tree[f].stamp /\ tree[f].stamp # 0
      BY <2>2 DEF StillStat
    <3>2. rows[f] # Nothing
      BY <3>1 DEF Nothing
    <3> QED
      BY <2>2, <3>1, <3>2 DEF RowsInv, RowStampSound, Genuine
  <2>4. Sound(r)
    <3>1. /\ r.file = f /\ r.token = old.token /\ r.text = text
          /\ r.pc = "keep"
      BY <1>2 DEF RequestType
    <3> QED
      BY <1>1, <2>2, <2>3, <3>1 DEF Sound
  <2>5. UNCHANGED <<world, summaries>>
    BY <1>12 DEF Summarise, index, caches
  <2> HIDE DEF r
  <2> QED
    BY <1>1, <1>3, <2>1, <2>4, <2>5 DEF Respond
<1>13. CASE StoreSummary(q)
  <2> DEFINE new == [file |-> old.file, token |-> SummaryToken(q), text |-> old.text]
  <2>1. Kept(new.token, new.file, new.text) /\ new.token.stamp \in 0 .. clock
    BY <1>1, <1>13 DEF Sound, StoreSummary, SummaryToken
  <2>2. summaries' \subseteq summaries \cup {new}
    BY <1>13 DEF StoreSummary
  <2>3. UNCHANGED <<clock, tree>>
    BY <1>13 DEF StoreSummary, index, world
  <2> HIDE DEF new
  <2>4. SummaryIsGenuine'
    BY <2>1, <2>2, <2>3 DEF SummaryIsGenuine, Kept
  <2>5. ASSUME NEW p \in Requesters
        PROVE  Sound(request'[p])
    <3>1. request'[p] = IF p = q THEN IdleRequest ELSE request[p]
      BY <1>2, <1>13 DEF StoreSummary, Respond
    <3> QED
      BY <3>1, RequestSound
  <2>6. FileKnown'
    BY <2>5 DEF FileKnown, Summarising, Sound
  <2>7. TokensPast' /\ KeepsSound'
    BY <2>1, <2>2, <2>3, <2>5 DEF TokensPast, KeepsSound, Sound, Kept, StillStat
  <2> QED
    BY <2>4, <2>6, <2>7
<1>14. CASE CheckSidecar(q) \/ Rewrite(q)
  <2>1. PICK pc \in {"hits", "gather"} : Goto(q, pc)
    BY <1>14 DEF CheckSidecar, Rewrite
  <2> DEFINE r == [old EXCEPT !.pc = pc]
  <2>2. request' = [request EXCEPT ![q] = r]
    BY <1>2, <2>1 DEF Goto
  <2>3. Sound(r)
    BY <1>1, <1>2 DEF Sound, RequestType
  <2>4. UNCHANGED <<world, summaries>>
    BY <1>14 DEF CheckSidecar, Rewrite, index, caches
  <2> HIDE DEF r
  <2> QED
    BY <1>3, <2>2, <2>3, <2>4
<1>15. CASE GatherRecords(q)
  <2> DEFINE r == [old EXCEPT !.pc = "rewrite", !.records = RowTexts]
  <2>1. request' = [request EXCEPT ![q] = r]
    BY <1>2, <1>15 DEF GatherRecords
  <2>2. Sound(r)
    BY <1>1, <1>2 DEF Sound, RequestType
  <2>3. UNCHANGED <<world, summaries>>
    BY <1>15 DEF GatherRecords, index, caches
  <2> HIDE DEF r
  <2> QED
    BY <1>3, <2>1, <2>2, <2>3
<1>16. CASE TakeHits(q)
  <2>1. PICK todo, late :
          request' = [request EXCEPT ![q] =
              [old EXCEPT !.pc = "search", !.todo = todo, !.late = late]]
    BY <1>2, <1>16 DEF TakeHits
  <2> DEFINE r == [old EXCEPT !.pc = "search", !.todo = todo, !.late = late]
  <2>2. Sound(r)
    BY <1>1, <1>2 DEF Sound, RequestType
  <2>3. UNCHANGED <<world, summaries>>
    BY <1>16 DEF TakeHits, index, caches
  <2> HIDE DEF r
  <2> QED
    BY <1>3, <2>1, <2>2, <2>3 DEF r
<1> QED
  BY <1>4, <1>5, <1>6, <1>7, <1>8, <1>9, <1>10, <1>11, <1>12, <1>13, <1>14, <1>15,
     <1>16
  DEF Retrieve

LEMMA SummaryStep ==
    ASSUME SummaryInv, [CacheNext]_cacheVars
    PROVE  SummaryInv'
<1>1. RowsInv'
  BY IndexMoves, RowsStep, AskStatusKeepsRows DEF SummaryInv
<1>2. CacheTypeOK'
  BY CacheTypeStep DEF SummaryInv, RowsInv
<1>3. FileKnown' /\ TokensPast' /\ KeepsSound' /\ SummaryIsGenuine'
  <2>1. CASE IndexStep \/ UNCHANGED cacheVars
    <3>1. UNCHANGED <<summaries, request>>
      BY <2>1 DEF IndexStep, cacheVars, caches
    <3> QED
      BY <2>1, <3>1, SerialMoves, IndexKeepsSummaries
  <2>2. CASE Restart
    <3>1. \A q \in Requesters : request'[q] = IdleRequest
      BY <2>2 DEF Restart
    <3>2. UNCHANGED <<clock, tree, summaries>> /\ clock \in Nat
      BY <2>2 DEF Restart, Crash, world, caches, SummaryInv, RowsInv, TypeOK
    <3>3. FileKnown' /\ KeepsSound'
      BY <3>1 DEF FileKnown, Summarising, KeepsSound, IdleRequest
    <3>4. TokensPast'
      BY <3>1, <3>2 DEF TokensPast, IdleRequest, Nothing, SummaryInv
    <3> QED
      BY <3>2, <3>3, <3>4 DEF SummaryIsGenuine, SummaryInv
  <2>3. CASE DropEntry
    <3>1. UNCHANGED <<clock, tree, request>> /\ summaries' \subseteq summaries
      BY <2>3 DEF DropEntry, index, world
    <3> QED
      BY <3>1 DEF SummaryInv, FileKnown, Summarising, TokensPast, KeepsSound, Kept, StillStat,
         SummaryIsGenuine
  <2>4. CASE \E q \in Requesters : Retrieve(q)
    BY <2>4, RetrieveKeepsSummaries
  <2> QED
    BY <2>1, <2>2, <2>3, <2>4 DEF CacheNext
<1> QED
  BY <1>1, <1>2, <1>3 DEF SummaryInv

LEMMA SummaryInit == CacheInit => SummaryInv
<1> SUFFICES ASSUME CacheInit PROVE SummaryInv
  OBVIOUS
<1>1. \A q \in Requesters : request[q] = IdleRequest
  BY DEF CacheInit
<1>2. CacheTypeOK
  <2>1. request \in [Requesters -> RequestType]
    BY IdleRequestType DEF CacheInit
  <2>2. docs \in Answer
    BY CacheRowsInit DEF CacheInit, RowsInv, TypeOK, Version, RowTexts, Answer
  <2> QED
    BY <2>1, <2>2 DEF CacheInit, CacheTypeOK, RequestType
<1>3. FileKnown /\ KeepsSound
  BY <1>1 DEF FileKnown, Summarising, KeepsSound, IdleRequest
<1>4. TokensPast /\ SummaryIsGenuine
  BY <1>1 DEF CacheInit, TokensPast, SummaryIsGenuine, IdleRequest, Nothing
<1> QED
  BY <1>2, <1>3, <1>4, CacheRowsInit DEF SummaryInv

LEMMA SummaryInvariant == CacheSpec => []SummaryInv
<1>1. SummaryInv /\ [CacheNext]_cacheVars => SummaryInv'
  BY SummaryStep
<1> QED
  BY <1>1, SummaryInit, PTL DEF CacheSpec

\* Every variable of the caches always holds a value of its type.
THEOREM CacheTypeCorrect == CacheSpec => []CacheTypeOK
<1>1. SummaryInv => CacheTypeOK
  BY DEF SummaryInv
<1> QED
  BY <1>1, SummaryInvariant, PTL

\* However many requesters summarise, threads refresh and files are edited in between,
\* a summary filed under a file's present size and mtime is of its present text.
THEOREM SummariesGenuine == CacheSpec => []SummaryIsGenuine
<1>1. SummaryInv => SummaryIsGenuine
  BY DEF SummaryInv
<1> QED
  BY <1>1, SummaryInvariant, PTL

-----------------------------------------------------------------------------
(* The searches.  One thread refreshes, the whole repository and all of it;   *)
(* no file is binary, and some file is there to stay.                        *)

WholeRefreshes ==
    \A r \in Requests : r.root = "repo" /\ Cardinality(Files) <= r.limit

\* Thread t has a listing that it will commit; the stamp it will store for f.
InFlight(t) == job[t].pc \in {"existing", "snapshot", "read"}
Pending(t, f) == IF InFlight(t) THEN job[t].listing[f] ELSE 0

\* Stamp s of a signature is past, and f's row is filed under it or no row will be:
\* the file does not have it any more, and no refresh is about to store it.
Holds(t, f, s) ==
    s # 0 => /\ s \in 1 .. clock
             /\ \/ rows[f].stamp = s
                \/ tree[f].stamp # s /\ Pending(t, f) # s

\* An answer x filed under stamp s of f: the row under that stamp, or what there is
\* in place of one for as long as the stored signature names the stamp.
Tied(t, f, s, x) ==
    s # 0 => /\ s \in 1 .. clock
             /\ \/ rows[f].stamp = s /\ rows[f].text = x
                \/ /\ tree[f].stamp # s /\ Pending(t, f) # s
                   /\ stored.stamps[f] = s => rows[f].text = x

Permanent == \A f \in Files \ Removable : tree[f].stamp # 0

\* A row that the refresh under way will not find current is one the tree has left
\* behind, and what stays in the repository is listed.
Passing(t) ==
    InFlight(t) =>
        /\ \A f \in Files : \/ rows[f].stamp \in {0, job[t].listing[f]}
                            \/ rows[f].stamp # tree[f].stamp
        /\ \A f \in Files \ Removable : job[t].listing[f] # 0

\* What it will store is the listing's signature or git's; it replaces only rows
\* that are not filed under the listed stamp, and files the rest under it.
Filing(t) ==
    job[t].pc = "read" =>
        /\ job[t].sig # NoSignature
        /\ \A f \in Files :
             /\ job[t].sig.stamps[f] \in {0, job[t].listing[f]}
             /\ \/ job[t].puts[f] # Nothing
                \/ f \in job[t].dels
                \/ f \in job[t].todo
                => job[t].listing[f] # rows[f].stamp
             /\ f \notin job[t].todo /\ Fresh(t, f)
                  => NewRow(t, f).stamp = job[t].listing[f]

StoredHolds(t) == \A f \in Files : Holds(t, f, stored.stamps[f])

\* Where no signature is stored there is no row, and no status says there is.
Unindexed ==
    stored = NoSignature =>
        /\ \A f \in Files : rows[f] = Nothing
        /\ cache # NoStatus => ~cache.nonempty
        /\ \A a \in Actors : ~job[a].seen.nonempty

IndexInv(t) ==
    SerialInv /\ Permanent /\ Passing(t) /\ Filing(t) /\ StoredHolds(t) /\ Unindexed

\* The steps of the index that RetrievalCache takes.
IndexAct ==
    \/ [Next]_vars /\ \A f \in Files \ Removable : ~Remove(f)
    \/ AskStatus

\* What a step may do to file f: list it or let a listing go; edit or remove it;
\* or commit, replacing only a row that the tree has left behind.
FileStep(t, f) ==
    \/ /\ UNCHANGED <<clock, rows, stored>> /\ tree'[f] = tree[f]
       /\ Pending(t, f)' \in {Pending(t, f), 0, tree[f].stamp}
    \/ /\ UNCHANGED <<rows, stored>> /\ Pending(t, f)' = Pending(t, f)
       /\ clock' = clock \/ clock' = clock + 1
       /\ tree'[f] = tree[f] \/ tree'[f].stamp \in {0, clock + 1}
    \/ /\ clock' = clock /\ tree'[f] = tree[f] /\ Pending(t, f)' = 0
       /\ stored'.stamps[f] \in {0, Pending(t, f)}
       /\ \/ rows'[f] = rows[f]
          \/ rows[f].stamp = 0
          \/ rows[f].stamp # Pending(t, f) /\ rows[f].stamp # tree[f].stamp

LEMMA HoldsStays ==
    ASSUME NEW t, NEW f, NEW s, clock \in Nat, Holds(t, f, s), FileStep(t, f)
    PROVE  Holds(t, f, s)'
<1> SUFFICES ASSUME s # 0
             PROVE  /\ s \in 1 .. clock'
                    /\ \/ rows'[f].stamp = s
                       \/ tree'[f].stamp # s /\ Pending(t, f)' # s
  BY DEF Holds
<1>1. /\ s \in 1 .. clock
      /\ rows[f].stamp = s \/ (tree[f].stamp # s /\ Pending(t, f) # s)
  BY DEF Holds
<1> QED
  BY <1>1 DEF FileStep

LEMMA TiedStays ==
    ASSUME NEW t, NEW f, NEW s, NEW x, clock \in Nat, Tied(t, f, s, x), FileStep(t, f)
    PROVE  Tied(t, f, s, x)'
<1> SUFFICES ASSUME s # 0
             PROVE  /\ s \in 1 .. clock'
                    /\ \/ rows'[f].stamp = s /\ rows'[f].text = x
                       \/ /\ tree'[f].stamp # s /\ Pending(t, f)' # s
                          /\ stored'.stamps[f] = s => rows'[f].text = x
  BY DEF Tied
<1>1. /\ s \in 1 .. clock
      /\ \/ rows[f].stamp = s /\ rows[f].text = x
         \/ /\ tree[f].stamp # s /\ Pending(t, f) # s
            /\ stored.stamps[f] = s => rows[f].text = x
  BY DEF Tied
<1> QED
  BY <1>1 DEF FileStep

\* What asking for the status changes.
LEMMA AskStatusFields ==
    ASSUME TypeOK, AskStatus
    PROVE  /\ UNCHANGED <<clock, tree, rows, terms, stored, missed>>
           /\ cache' \in {cache, CurrentStatus}
           /\ \A a \in Actors \ {Background} : job'[a] = job[a]
           /\ \/ job' = job
              \/ /\ job[Background].pc = "idle" /\ job'[Background].pc = "report"
                 /\ job'[Background].req = job[Background].req
                 /\ job'[Background].listing = job[Background].listing
                 /\ job'[Background].existing = job[Background].existing
                 /\ job'[Background].todo = job[Background].todo
                 /\ job'[Background].puts = job[Background].puts
                 /\ job'[Background].dels = job[Background].dels
                 /\ job'[Background].seen = job[Background].seen
<1>1. Background \in Actors /\ job[Background] \in Job
  BY DEF Actors, TypeOK
<1>2. /\ UNCHANGED <<clock, tree, rows, terms, stored, missed>>
      /\ cache' \in {cache, CurrentStatus}
  BY DEF AskStatus, ReportedStatus, world, lmdb
<1>3. CASE job' = job
  BY <1>2, <1>3
<1>4. CASE job[Background].pc = "idle" /\ job' = [job EXCEPT ![Background].pc = "report"]
  <2>1. job'[Background] = [job[Background] EXCEPT !.pc = "report"]
    BY <1>1, <1>4 DEF TypeOK
  <2>2. \A a \in Actors \ {Background} : job'[a] = job[a]
    BY <1>4 DEF TypeOK
  <2> QED
    BY <1>1, <1>2, <1>4, <2>1, <2>2 DEF Job
<1> QED
  BY <1>3, <1>4 DEF AskStatus

LEMMA AskStatusKeepsSerial ==
    ASSUME SerialInv, AskStatus
    PROVE  SerialInv'
<1>1. TypeOK /\ RowsInv'
  BY AskStatusKeepsRows DEF SerialInv, RowsInv
<1>2. UNCHANGED <<clock, tree, rows, terms, stored, missed>>
  BY <1>1, AskStatusFields
<1>3. \A t \in Threads : job'[t] = job[t]
  BY <1>1, AskStatusFields, ActorsAssumption DEF Actors
<1>4. \A t \in Threads : Known(t)'
  BY <1>2, <1>3 DEF SerialInv, Known, Passed, Fresh, NewRow, Indexable
<1>5. \A a \in Actors : Shape(job'[a]) /\ job'[a].puts = job[a].puts
  <2> SUFFICES ASSUME NEW a \in Actors, job'[a] # job[a]
               PROVE  Shape(job'[a]) /\ job'[a].puts = job[a].puts
    BY DEF SerialInv, ShapeInv
  <2>1. a = Background
    BY <1>1, AskStatusFields
  <2>2. Shape(job[a])
    BY DEF SerialInv, ShapeInv
  <2> QED
    BY <1>1, <2>1, <2>2, AskStatusFields DEF Shape, Underway
<1>6. ShapeInv' /\ NotBinary'
  BY <1>2, <1>5 DEF SerialInv, ShapeInv, NotBinary
<1> QED
  BY <1>1, <1>4, <1>6 DEF SerialInv

LEMMA SerialAct ==
    ASSUME SerialInv, NEW t, Threads = {t}, IndexAct
    PROVE  SerialInv'
<1>1. CASE AskStatus
  BY <1>1, AskStatusKeepsSerial
<1>2. CASE [Next]_vars
  <2>1. RowsInv' /\ ShapeInv' /\ NotBinary'
    BY <1>2, RowsStep, ShapeStep, NotBinaryStep DEF SerialInv, RowsInv
  <2>2. Known(t)'
    BY <1>2, KnownStep
  <2> QED
    BY <2>1, <2>2 DEF SerialInv
<1> QED
  BY <1>1, <1>2 DEF IndexAct

\* What a commit of the thread finds: the whole repository's request, and rows it
\* keeps under the listed stamps.
LEMMA CommitOf ==
    ASSUME NEW t \in Threads, IndexInv(t), WholeRefreshes, Commit(t)
    PROVE  /\ UNCHANGED <<clock, tree>> /\ InFlight(t) /\ ~InFlight(t)'
           /\ job[t].sig # NoSignature /\ stored' = job[t].sig
           /\ \A f \in Files :
                /\ stored'.stamps[f] \in {0, job[t].listing[f]}
                /\ \/ rows'[f] = rows[f]
                   \/ rows[f].stamp = 0
                   \/ /\ rows[f].stamp # job[t].listing[f]
                      /\ rows[f].stamp # tree[f].stamp
                /\ Fresh(t, f) => rows'[f].stamp = job[t].listing[f]
<1>1. /\ t \in Actors /\ TypeOK /\ Shape(job[t])
      /\ Passing(t) /\ Filing(t)
  BY DEF IndexInv, SerialInv, RowsInv, ShapeInv, Actors
<1>2. /\ job[t].pc = "read" /\ job'[t].pc = "sync" /\ job[t].todo = {}
      /\ \A f \in Files : rows'[f] = NewRow(t, f)
  BY <1>1, CommitFields
<1>3. job[t].req.root = "repo"
  BY <1>1, <1>2 DEF Shape, Underway, WholeRefreshes
<1>4. UNCHANGED <<clock, tree>> /\ stored' = job[t].sig
  BY <1>3 DEF Commit, world
<1>5. InFlight(t) /\ ~InFlight(t)'
  BY <1>2 DEF InFlight
<1>6. /\ job[t].sig # NoSignature
      /\ \A f \in Files :
           /\ job[t].sig.stamps[f] \in {0, job[t].listing[f]}
           /\ job[t].puts[f] # Nothing \/ f \in job[t].dels
                => job[t].listing[f] # rows[f].stamp
           /\ Fresh(t, f) => NewRow(t, f).stamp = job[t].listing[f]
  BY <1>1, <1>2 DEF Filing
<1>7. \A f \in Files : \/ rows[f].stamp \in {0, job[t].listing[f]}
                       \/ rows[f].stamp # tree[f].stamp
  BY <1>1, <1>5 DEF Passing
<1>8. \A f \in Files : rows'[f] = rows[f] \/ job[t].listing[f] # rows[f].stamp
  BY <1>2, <1>6 DEF NewRow
<1> QED
  BY <1>2, <1>4, <1>5, <1>6, <1>7, <1>8

\* One step of the refreshing thread, seen from its listing.
LEMMA ThreadPending ==
    ASSUME NEW t \in Threads, IndexInv(t), Refresh(t), ~Commit(t), NEW f \in Files
    PROVE  Pending(t, f)' \in {Pending(t, f), 0, tree[f].stamp}
<1>1. t \in Actors /\ TypeOK /\ ShapeInv
  BY DEF IndexInv, SerialInv, RowsInv, Actors
<1>2. CASE \E r \in Requests : Start(t, r) \/ Check(t, r)
  BY <1>1, <1>2, StartFields DEF Pending, InFlight
<1>3. CASE List(t)
  <2>1. Listing(job[t].req)[f] \in {0, tree[f].stamp}
    BY <1>1, ListingOf
  <2> QED
    BY <1>1, <1>3, <2>1, ListFields DEF Pending, InFlight
<1>4. CASE ReadExisting(t)
  BY <1>1, <1>4, ReadExistingFields DEF Pending, InFlight
<1>5. CASE Snapshot(t)
  BY <1>1, <1>5, SnapshotFields DEF Pending, InFlight
<1>6. CASE \E g \in Files : ReadCandidate(t, g)
  <2>1. /\ job[t].pc = "read" /\ job'[t].pc = "read"
        /\ job'[t].listing = job[t].listing
    BY <1>1, <1>6, ReadCandidateFields
  <2> QED
    BY <2>1 DEF Pending, InFlight
<1>7. CASE InvalidateStatus(t) \/ SyncRaises(t) \/ \E g \in Files : ReadRaises(t, g)
  BY <1>1, <1>7, EndFields DEF Pending, InFlight
<1>8. CASE UseCachedStatus(t)
  BY <1>1, <1>8, StatusFields DEF Pending, InFlight, Underway
<1> QED
  BY <1>2, <1>3, <1>4, <1>5, <1>6, <1>7, <1>8 DEF Refresh

LEMMA FileStepOf ==
    ASSUME NEW t, Threads = {t}, IndexInv(t), WholeRefreshes, IndexAct, NEW f \in Files
    PROVE  FileStep(t, f)
<1>1. t \in Threads /\ t \in Actors /\ TypeOK /\ ShapeInv
  BY DEF IndexInv, SerialInv, RowsInv, Actors
<1>2. CASE Commit(t)
  BY <1>1, <1>2, CommitOf DEF FileStep, Pending
<1>3. CASE Refresh(t) /\ ~Commit(t)
  <2>1. UNCHANGED <<clock, tree, rows, stored>>
    BY <1>3 DEF Refresh, Start, Check, List, ReadExisting, Snapshot, ReadCandidate,
       ReadRaises, InvalidateStatus, SyncRaises, UseCachedStatus, world, lmdb
  <2> QED
    BY <1>1, <1>3, <2>1, ThreadPending DEF FileStep
<1>4. ASSUME NEW a \in Actors, ComputeStatus(a) \/ PublishStatus(a)
      PROVE  FileStep(t, f)
  <2>1. UNCHANGED <<clock, tree, rows, stored>>
    BY <1>4 DEF ComputeStatus, PublishStatus, world, lmdb
  <2>2. CASE a = t
    <3>1. job'[t].pc \notin Underway
      BY <1>1, <1>4, <2>2, StatusFields
    <3>2. Pending(t, f)' = 0
      BY <3>1 DEF Pending, InFlight, Underway
    <3> QED
      BY <2>1, <3>2 DEF FileStep
  <2>3. CASE a # t
    <3>1. job'[t] = job[t]
      BY <1>1, <1>4, <2>3 DEF ComputeStatus, PublishStatus, TypeOK
    <3>2. Pending(t, f)' = Pending(t, f)
      BY <3>1 DEF Pending, InFlight
    <3> QED
      BY <2>1, <3>2 DEF FileStep
  <2> QED
    BY <2>2, <2>3
<1>5. CASE \/ \E r \in Readers : FinishRead(r) \/ \E g \in Files : OpenRead(r, g)
           \/ UNCHANGED vars
           \/ AskStatus
  <2>1. UNCHANGED <<clock, tree, rows, stored>> /\ job'[t] = job[t]
    <3>1. CASE AskStatus
      BY <1>1, <3>1, AskStatusFields, ActorsAssumption
    <3>2. CASE \/ \E r \in Readers : FinishRead(r) \/ \E g \in Files : OpenRead(r, g)
               \/ UNCHANGED vars
      BY <3>2 DEF FinishRead, OpenRead, vars, world, lmdb
    <3> QED
      BY <1>5, <3>1, <3>2
  <2>2. Pending(t, f)' = Pending(t, f)
    BY <2>1 DEF Pending, InFlight
  <2> QED
    BY <2>1, <2>2 DEF FileStep
<1>6. ASSUME NEW g \in Files, Edit(g) \/ Remove(g)
      PROVE  FileStep(t, f)
  <2>1. UNCHANGED <<rows, stored, job>>
    BY <1>6 DEF Edit, Remove, lmdb
  <2>2. Pending(t, f)' = Pending(t, f)
    BY <2>1 DEF Pending, InFlight
  <2>3. CASE Edit(g)
    BY <1>1, <2>1, <2>2, <2>3 DEF Edit, FileStep, TypeOK
  <2>4. CASE Remove(g)
    BY <1>1, <2>1, <2>2, <2>4 DEF Remove, FileStep, TypeOK, Nothing
  <2> QED
    BY <1>6, <2>3, <2>4
<1>7. CASE Crash
  <2>1. UNCHANGED <<clock, tree, rows, stored>> /\ job'[t] = IdleJob
    BY <1>1, <1>7 DEF Crash, world, lmdb
  <2>2. Pending(t, f)' = 0
    BY <2>1 DEF Pending, InFlight, IdleJob
  <2> QED
    BY <2>1, <2>2 DEF FileStep
<1> QED
  BY <1>1, <1>2, <1>3, <1>4, <1>5, <1>6, <1>7 DEF IndexAct, Next

\* Every step leaves the thread without a listing, or with the one it had, or is one
\* of the four that make and use one.
LEMMA ActCases ==
    ASSUME NEW t, Threads = {t}, IndexInv(t), WholeRefreshes, IndexAct
    PROVE  \/ ~InFlight(t)'
           \/ UNCHANGED <<tree, rows>> /\ job'[t] = job[t]
           \/ List(t) \/ ReadExisting(t) \/ Snapshot(t)
           \/ \E g \in Files : ReadCandidate(t, g)
           \/ \E g \in Files : Edit(g) \/ Remove(g)
<1>1. t \in Threads /\ t \in Actors /\ TypeOK /\ ShapeInv
  BY DEF IndexInv, SerialInv, RowsInv, Actors
<1>2. CASE Refresh(t)
  <2>1. CASE \E r \in Requests : Start(t, r) \/ Check(t, r)
    BY <1>1, <2>1, StartFields DEF InFlight
  <2>2. CASE Commit(t)
    BY <1>1, <2>2, CommitOf
  <2>3. CASE InvalidateStatus(t) \/ SyncRaises(t) \/ \E g \in Files : ReadRaises(t, g)
    BY <1>1, <2>3, EndFields DEF InFlight
  <2>4. CASE UseCachedStatus(t)
    BY <1>1, <2>4, StatusFields DEF InFlight, Underway
  <2> QED
    BY <1>2, <2>1, <2>2, <2>3, <2>4 DEF Refresh
<1>3. ASSUME NEW a \in Actors, ComputeStatus(a) \/ PublishStatus(a)
      PROVE  ~InFlight(t)' \/ (UNCHANGED <<tree, rows>> /\ job'[t] = job[t])
  <2>1. CASE a = t
    BY <1>1, <1>3, <2>1, StatusFields DEF InFlight, Underway
  <2>2. CASE a # t
    BY <1>1, <1>3, <2>2 DEF ComputeStatus, PublishStatus, TypeOK, world, lmdb
  <2> QED
    BY <2>1, <2>2
<1>4. CASE \/ \E r \in Readers : FinishRead(r) \/ \E g \in Files : OpenRead(r, g)
           \/ UNCHANGED vars
  BY <1>4 DEF FinishRead, OpenRead, vars, world, lmdb
<1>5. CASE AskStatus
  BY <1>1, <1>5, AskStatusFields, ActorsAssumption
<1>6. CASE Crash
  BY <1>1, <1>6 DEF Crash, InFlight, IdleJob
<1> QED
  BY <1>1, <1>2, <1>3, <1>4, <1>5, <1>6 DEF IndexAct, Next

LEMMA PermanentStep ==
    ASSUME NEW t, Threads = {t}, IndexInv(t), IndexAct
    PROVE  Permanent'
<1>1. TypeOK /\ TodoSound
  BY DEF IndexInv, SerialInv, RowsInv
<1>2. CASE UNCHANGED tree
  BY <1>2 DEF IndexInv, Permanent
<1>3. ASSUME NEW g \in Files, Edit(g)
      PROVE  Permanent'
  BY <1>1, <1>3 DEF Edit, IndexInv, Permanent, TypeOK
<1>4. ASSUME NEW g \in Removable, Remove(g)
      PROVE  Permanent'
  BY <1>1, <1>4 DEF Remove, IndexInv, Permanent, TypeOK
<1>5. CASE AskStatus
  BY <1>1, <1>2, <1>5, AskStatusFields
<1>6. CASE [Next]_vars /\ \A f \in Files \ Removable : ~Remove(f)
  <2>1. UNCHANGED tree \/ \E g \in Files : Edit(g) \/ Remove(g)
    BY <1>1, <1>6, StepMoves DEF vars
  <2> QED
    BY <1>2, <1>3, <1>4, <1>6, <2>1
<1> QED
  BY <1>5, <1>6 DEF IndexAct

LEMMA PassingStep ==
    ASSUME NEW t, Threads = {t}, IndexInv(t), WholeRefreshes, IndexAct
    PROVE  Passing(t)'
<1>1. /\ t \in Threads /\ t \in Actors /\ TypeOK /\ RowStampSound /\ Shape(job[t])
      /\ Passing(t) /\ Permanent
  BY DEF IndexInv, SerialInv, RowsInv, ShapeInv, Actors
<1>2. CASE ~InFlight(t)'
  BY <1>2 DEF Passing
<1>3. CASE UNCHANGED <<tree, rows>> /\ job'[t] = job[t]
  BY <1>1, <1>3 DEF Passing, InFlight
<1>4. CASE List(t)
  <2>1. /\ job[t].req \in Requests /\ job'[t].listing = Listing(job[t].req)
        /\ UNCHANGED <<tree, rows>>
    BY <1>1, <1>4, ListFields DEF List, Shape, world, lmdb
  <2>2. job[t].req.scope = Files
    BY <2>1, RequestsAssumption DEF WholeRefreshes
  <2>3. \A f \in Files : job'[t].listing[f] = tree[f].stamp
    BY <1>1, <2>1, <2>2, ListingOfAll, CountAssumption DEF WholeRefreshes
  <2> QED
    BY <1>1, <2>1, <2>3 DEF Passing, Permanent
<1>5. CASE ReadExisting(t)
  <2>1. /\ job[t].pc = "existing" /\ job'[t].listing = job[t].listing
        /\ UNCHANGED <<tree, rows>>
    BY <1>1, <1>5, ReadExistingFields DEF ReadExisting, world, lmdb
  <2> QED
    BY <1>1, <2>1 DEF Passing, InFlight
<1>6. CASE Snapshot(t)
  BY <1>1, <1>6, SnapshotFields DEF Snapshot, Passing, InFlight, world, lmdb
<1>7. CASE \E g \in Files : ReadCandidate(t, g)
  <2>1. job[t].pc = "read" /\ job'[t].listing = job[t].listing /\ UNCHANGED <<tree, rows>>
    BY <1>1, <1>7, ReadCandidateFields DEF ReadCandidate, world, lmdb
  <2> QED
    BY <1>1, <2>1 DEF Passing, InFlight
<1>8. ASSUME NEW g \in Files, Edit(g) \/ Remove(g)
      PROVE  Passing(t)'
  <2>1. UNCHANGED <<rows, job>>
    BY <1>8 DEF Edit, Remove, lmdb
  <2>2. \A f \in Files : /\ rows[f].stamp \in 0 .. clock
                         /\ rows[f].stamp # tree[f].stamp \/ rows[f].stamp = tree[f].stamp
    BY <1>1 DEF TypeOK, RowStampSound, Genuine, Nothing
  <2>3. /\ \A f \in Files \ {g} : tree'[f] = tree[f]
        /\ tree'[g].stamp \in {0, clock + 1} /\ clock \in Nat
    <3>1. CASE Edit(g)
      BY <1>1, <3>1 DEF Edit, TypeOK
    <3>2. CASE Remove(g)
      BY <1>1, <3>2 DEF Remove, TypeOK, Nothing
    <3> QED
      BY <1>8, <3>1, <3>2
  <2>4. rows[g].stamp = 0 \/ rows[g].stamp # tree'[g].stamp
    BY <2>2, <2>3
  <2> QED
    BY <1>1, <2>1, <2>3, <2>4 DEF Passing, InFlight
<1> QED
  BY <1>2, <1>3, <1>4, <1>5, <1>6, <1>7, <1>8, ActCases

\* A tree with a file in it has a signature of either kind; git's names no stamps.
LEMMA SignsSomething ==
    ASSUME NEW src, NEW stamps \in [Files -> Nat], \E f \in Files : stamps[f] # 0
    PROVE  /\ SignatureOf(src, stamps) # NoSignature
           /\ \A f \in Files : SignatureOf(src, stamps).stamps[f] \in {0, stamps[f]}
<1>1. NoSignature.src = "none"
  BY DEF NoSignature
<1>2. GitSignature.src = "git" /\ \A f \in Files : GitSignature.stamps[f] = 0
  BY DEF GitSignature, NoSignature
<1>3. FilesSignature(stamps).src = "files"
  BY DEF FilesSignature, NoSignature
<1>4. \A f \in Files : FilesSignature(stamps).stamps[f] = stamps[f]
  BY SignatureStamps
<1>5. CASE src = "git"
  <2>1. SignatureOf(src, stamps) = GitSignature
    BY <1>5 DEF SignatureOf
  <2> QED
    BY <1>1, <1>2, <2>1
<1>6. CASE src # "git"
  <2>1. SignatureOf(src, stamps) = FilesSignature(stamps)
    BY <1>6 DEF SignatureOf
  <2> QED
    BY <1>1, <1>3, <1>4, <2>1
<1> QED
  BY <1>5, <1>6

LEMMA FilingStep ==
    ASSUME NEW t, Threads = {t}, IndexInv(t), WholeRefreshes, BinaryTexts = {},
           Files \ Removable # {}, IndexAct
    PROVE  Filing(t)'
<1>1. /\ t \in Threads /\ t \in Actors /\ TypeOK /\ RowsInv /\ Shape(job[t])
      /\ Passing(t) /\ Filing(t) /\ Known(t) /\ TodoSound
  BY DEF IndexInv, SerialInv, RowsInv, ShapeInv, Actors
<1>2. CASE ~InFlight(t)' \/ List(t) \/ ReadExisting(t)
  BY <1>1, <1>2, ListFields, ReadExistingFields DEF Filing, InFlight
<1>3. CASE UNCHANGED <<tree, rows>> /\ job'[t] = job[t]
  BY <1>1, <1>3 DEF Filing, Fresh, NewRow
<1>4. CASE Snapshot(t)
  <2>1. /\ job[t].pc = "snapshot" /\ job'[t].pc = "read"
        /\ \A f \in Files : /\ f \in job'[t].dels <=>
                                 /\ job[t].existing[f] # Nothing
                                 /\ job[t].listing[f] = 0
                            /\ f \in job'[t].todo <=> Changed(t, f)
                            /\ job'[t].puts[f] = Nothing
        /\ job'[t].listing = job[t].listing
        /\ UNCHANGED <<tree, rows>>
    BY <1>1, <1>4, SnapshotFields DEF Shape, Snapshot, world, lmdb
  <2>2. job[t].req.root = "repo" /\ job[t].req.scope = Files
    BY <1>1, <2>1, RequestsAssumption DEF Shape, Underway, WholeRefreshes
  <2>3. PICK src \in SignatureSources :
          job'[t].sig = SignatureOf(src, job[t].listing)
    BY <1>1, <1>4, <2>2, SnapshotFields DEF RefreshSignature
  <2>4. job[t].listing \in [Files -> Nat] /\ \E f \in Files : job[t].listing[f] # 0
    BY <1>1, <2>1 DEF TypeOK, Job, Passing, InFlight
  <2>5. /\ job'[t].sig # NoSignature
        /\ \A f \in Files : job'[t].sig.stamps[f] \in {0, job[t].listing[f]}
    BY <2>3, <2>4, SignsSomething
  <2>6. \A f \in Files : job[t].existing[f] = rows[f]
    BY <1>1, <2>1, <2>2 DEF Known, Passed
  <2>7. ASSUME NEW f \in Files
        PROVE  /\ \/ job'[t].puts[f] # Nothing
                  \/ f \in job'[t].dels
                  \/ f \in job'[t].todo
                  => job[t].listing[f] # rows[f].stamp
               /\ f \notin job'[t].todo /\ Fresh(t, f)
                    => NewRow(t, f)'.stamp = job[t].listing[f]
    <3>1. rows[f] # Nothing => rows[f].stamp # 0
      BY <1>1 DEF RowsInv, TypeOK, RowStampSound, Genuine
    <3>2. f \in job'[t].dels => job[t].listing[f] # rows[f].stamp
      BY <2>1, <2>6, <3>1
    <3>3. f \in job'[t].todo => job[t].listing[f] # rows[f].stamp
      BY <2>1, <2>6 DEF Changed
    <3>4. ASSUME f \notin job'[t].todo, Fresh(t, f)
          PROVE  NewRow(t, f)'.stamp = job[t].listing[f]
      <4>1. job[t].listing[f] = rows[f].stamp /\ f \notin job'[t].dels
        BY <2>1, <2>6, <3>4 DEF Changed, Fresh
      <4>2. NewRow(t, f)' = rows[f]
        BY <2>1, <4>1 DEF NewRow
      <4> QED
        BY <4>1, <4>2
    <3> QED
      BY <2>1, <3>2, <3>3, <3>4
  <2> QED
    BY <2>1, <2>5, <2>7 DEF Filing, Fresh
<1>5. ASSUME NEW g \in Files, ReadCandidate(t, g)
      PROVE  Filing(t)'
  <2>1. /\ job[t].pc = "read" /\ g \in job[t].todo
        /\ job'[t].todo = job[t].todo \ {g}
        /\ tree[g] # Nothing => job'[t].puts[g] = RowFor(t, g)
        /\ \A f \in Files \ {g} : job'[t].puts[f] = job[t].puts[f]
        /\ job'[t].dels \in {job[t].dels, job[t].dels \cup {g}}
        /\ job'[t].listing = job[t].listing /\ job'[t].sig = job[t].sig
    BY <1>1, <1>5, ReadCandidateFields, Zenon
  <2>2. UNCHANGED <<tree, rows>>
    BY <1>5 DEF ReadCandidate, world, lmdb
  <2>3. \A f \in Files :
           /\ job[t].sig.stamps[f] \in {0, job[t].listing[f]}
           /\ job[t].puts[f] # Nothing \/ f \in job[t].dels \/ f \in job[t].todo
                => job[t].listing[f] # rows[f].stamp
           /\ f \notin job[t].todo /\ Fresh(t, f)
                => NewRow(t, f).stamp = job[t].listing[f]
    BY <1>1, <2>1 DEF Filing
  <2>4. job[t].sig # NoSignature
    BY <1>1, <2>1 DEF Filing
  <2>5. job[t].listing[g] # 0
    BY <1>1, <2>1 DEF TodoSound
  <2>6. ASSUME NEW f \in Files
        PROVE  /\ \/ job'[t].puts[f] # Nothing
                  \/ f \in job'[t].dels
                  \/ f \in job'[t].todo
                  => job[t].listing[f] # rows[f].stamp
               /\ f \notin job'[t].todo /\ Fresh(t, f)
                    => NewRow(t, f)'.stamp = job[t].listing[f]
    <3>1. CASE f = g
      <4>1. job[t].listing[f] # rows[f].stamp
        BY <2>1, <2>3, <3>1
      <4>2. ASSUME Fresh(t, g)
            PROVE  NewRow(t, g)'.stamp = job[t].listing[g]
        <5>1. tree[g] # Nothing
          BY <2>5, <4>2 DEF Fresh, Nothing
        <5>2. job'[t].puts[g] = RowFor(t, g) /\ RowFor(t, g) # Nothing
          BY <2>1, <2>5, <5>1 DEF RowFor, Nothing
        <5>3. NewRow(t, g)' = RowFor(t, g)
          BY <5>2 DEF NewRow
        <5> QED
          BY <5>3 DEF RowFor
      <4> QED
        BY <3>1, <4>1, <4>2
    <3>2. CASE f # g
      <4>1. /\ job'[t].puts[f] = job[t].puts[f]
            /\ f \in job'[t].dels <=> f \in job[t].dels
            /\ f \in job'[t].todo <=> f \in job[t].todo
        BY <2>1, <3>2
      <4>2. NewRow(t, f)' = NewRow(t, f)
        BY <2>2, <4>1 DEF NewRow
      <4> QED
        BY <2>3, <4>1, <4>2
    <3> QED
      BY <3>1, <3>2
  <2> QED
    BY <2>1, <2>2, <2>3, <2>4, <2>6 DEF Filing, Fresh
<1>6. ASSUME NEW g \in Files, Edit(g) \/ Remove(g)
      PROVE  Filing(t)'
  <2>1. UNCHANGED <<rows, job>>
    BY <1>6 DEF Edit, Remove, lmdb
  <2>2. \A f \in Files : Fresh(t, f)' => Fresh(t, f)
    BY <1>1, <1>6, FreshEdit
  <2>3. \A f : NewRow(t, f)' = NewRow(t, f)
    BY <2>1 DEF NewRow
  <2> QED
    BY <1>1, <2>1, <2>2, <2>3 DEF Filing
<1> QED
  BY <1>2, <1>3, <1>4, <1>5, <1>6, ActCases

LEMMA StoredHoldsStep ==
    ASSUME NEW t, Threads = {t}, IndexInv(t), WholeRefreshes, IndexAct
    PROVE  StoredHolds(t)'
<1>1. /\ t \in Threads /\ t \in Actors /\ TypeOK /\ StampsPast
      /\ StoredHolds(t) /\ clock \in Nat
  BY DEF IndexInv, SerialInv, RowsInv, Actors, TypeOK
<1>2. CASE Commit(t)
  <2>1. /\ UNCHANGED <<clock, tree>> /\ ~InFlight(t)'
        /\ \A f \in Files : /\ stored'.stamps[f] \in {0, job[t].listing[f]}
                            /\ Fresh(t, f) => rows'[f].stamp = job[t].listing[f]
    BY <1>1, <1>2, CommitOf
  <2>2. SUFFICES ASSUME NEW f \in Files, stored'.stamps[f] # 0
                 PROVE  Holds(t, f, stored.stamps[f])'
    BY DEF StoredHolds, Holds
  <2>3. job[t].listing[f] \in 0 .. clock
    BY <1>1 DEF StampsPast
  <2>4. Pending(t, f)' = 0
    BY <2>1 DEF Pending
  <2>5. stored'.stamps[f] = job[t].listing[f]
    BY <2>1, <2>2
  <2>6. rows'[f].stamp = stored'.stamps[f] \/ tree'[f].stamp # stored'.stamps[f]
    BY <2>1, <2>2, <2>5 DEF Fresh
  <2> QED
    BY <1>1, <2>1, <2>2, <2>3, <2>4, <2>5, <2>6 DEF Holds
<1>3. CASE stored' = stored
  <2>1. SUFFICES ASSUME NEW f \in Files
                 PROVE  Holds(t, f, stored.stamps[f])'
    BY <1>3 DEF StoredHolds, Holds
  <2>2. FileStep(t, f)
    BY FileStepOf
  <2>3. Holds(t, f, stored.stamps[f])
    BY <1>1 DEF StoredHolds
  <2>4. PICK s : s = stored.stamps[f]
    OBVIOUS
  <2>5. Holds(t, f, s)'
    BY <1>1, <2>2, <2>3, <2>4, HoldsStays
  <2> QED
    BY <1>3, <2>4, <2>5 DEF Holds
<1>4. stored' = stored \/ Commit(t)
  BY <1>1, OnlyCommitWrites, AskStatusFields DEF IndexAct, vars
<1> QED
  BY <1>2, <1>3, <1>4

\* A status that is published or held is one that was, none, or the index's own.
LEMMA SeenMoves ==
    ASSUME TypeOK, ShapeInv, IndexAct
    PROVE  /\ \/ cache' \in {cache, NoStatus, CurrentStatus}
              \/ \E a \in Actors : cache' = job[a].seen
           /\ \A a \in Actors :
                job'[a].seen \in {job[a].seen, EmptyStatus, CurrentStatus}
<1>1. CASE AskStatus
  <2>1. cache' \in {cache, CurrentStatus}
    BY <1>1, AskStatusFields
  <2>2. \A a \in Actors : job'[a].seen = job[a].seen
    BY <1>1, AskStatusFields
  <2> QED
    BY <2>1, <2>2
<1>2. ASSUME NEW t \in Threads, Refresh(t), ~UseCachedStatus(t)
      PROVE  /\ cache' \in {cache, NoStatus}
             /\ job'[t].seen \in {job[t].seen, EmptyStatus} /\ Others(t)
  <2>1. cache' \in {cache, NoStatus}
    BY <1>2 DEF Refresh, Start, Check, List, ReadExisting, Snapshot, ReadCandidate,
       ReadRaises, Commit, InvalidateStatus, SyncRaises
  <2>2. CASE \E r \in Requests : Start(t, r) \/ Check(t, r)
    BY <2>1, <2>2, StartFields
  <2>3. CASE List(t) \/ ReadExisting(t) \/ Snapshot(t) \/ Commit(t)
    BY <2>1, <2>3, ListFields, ReadExistingFields, SnapshotFields, CommitFields
  <2>4. CASE \E f \in Files : ReadCandidate(t, f)
    BY <2>1, <2>4, ReadCandidateFields
  <2>5. CASE InvalidateStatus(t) \/ SyncRaises(t) \/ \E f \in Files : ReadRaises(t, f)
    BY <2>1, <2>5, EndFields
  <2> QED
    BY <1>2, <2>2, <2>3, <2>4, <2>5 DEF Refresh
<1>3. ASSUME NEW a \in Actors,
             \/ a \in Threads /\ UseCachedStatus(a)
             \/ ComputeStatus(a) \/ PublishStatus(a)
      PROVE  /\ cache' \in {cache, job[a].seen}
             /\ job'[a].seen \in {EmptyStatus, CurrentStatus}
             /\ \A b \in Actors \ {a} : job'[b].seen = job[b].seen
  <2>1. cache' \in {cache, job[a].seen}
    BY <1>3 DEF UseCachedStatus, ComputeStatus, PublishStatus
  <2> QED
    BY <1>3, <2>1, StatusFields
<1>4. CASE \/ \E r \in Readers : FinishRead(r) \/ \E f \in Files : OpenRead(r, f)
           \/ \E f \in Files : Edit(f) \/ Remove(f)
           \/ UNCHANGED vars
  <2>1. job' = job /\ cache' = cache
    BY <1>4 DEF FinishRead, OpenRead, Edit, Remove, vars
  <2> QED
    BY <2>1
<1>5. CASE Crash
  BY <1>5 DEF Crash, IdleJob
<1>6. CASE \E t \in Threads : Refresh(t)
  <2>1. PICK t \in Threads : Refresh(t)
    BY <1>6
  <2>2. t \in Actors
    BY DEF Actors
  <2>3. CASE UseCachedStatus(t)
    BY <1>3, <2>2, <2>3
  <2>4. CASE ~UseCachedStatus(t)
    BY <1>2, <2>1, <2>2, <2>4 DEF Others
  <2> QED
    BY <2>3, <2>4
<1>7. CASE \E a \in Actors : ComputeStatus(a) \/ PublishStatus(a)
  BY <1>3, <1>7
<1> QED
  BY <1>1, <1>4, <1>5, <1>6, <1>7 DEF IndexAct, Next

LEMMA UnindexedStep ==
    ASSUME NEW t, Threads = {t}, IndexInv(t), WholeRefreshes, IndexAct
    PROVE  Unindexed'
<1>1. t \in Threads /\ TypeOK /\ ShapeInv /\ Unindexed
  BY DEF IndexInv, SerialInv, RowsInv
<1>2. SUFFICES ASSUME stored' = NoSignature
               PROVE  /\ \A f \in Files : rows'[f] = Nothing
                      /\ cache' # NoStatus => ~cache'.nonempty
                      /\ \A a \in Actors : ~job'[a].seen.nonempty
  BY DEF Unindexed, NoSignature, Nothing
<1>3. ~Commit(t)
  BY <1>1, <1>2, CommitOf
<1>4. UNCHANGED <<rows, stored>>
  BY <1>1, <1>3, OnlyCommitWrites, AskStatusFields DEF IndexAct, vars
<1>5. /\ \A f \in Files : rows[f] = Nothing
      /\ cache # NoStatus => ~cache.nonempty
      /\ \A a \in Actors : ~job[a].seen.nonempty
  BY <1>1, <1>2, <1>4 DEF Unindexed
<1>6. ~CurrentStatus.nonempty /\ ~EmptyStatus.nonempty
  BY <1>5 DEF CurrentStatus, EmptyStatus
<1>7. cache' # NoStatus => ~cache'.nonempty
  BY <1>1, <1>5, <1>6, SeenMoves
<1>8. \A a \in Actors : ~job'[a].seen.nonempty
  BY <1>1, <1>5, <1>6, SeenMoves
<1> QED
  BY <1>4, <1>5, <1>7, <1>8

LEMMA IndexInvStep ==
    ASSUME NEW t, Threads = {t}, WholeRefreshes, BinaryTexts = {},
           Files \ Removable # {}, IndexInv(t), IndexAct
    PROVE  IndexInv(t)'
<1>1. SerialInv'
  BY SerialAct DEF IndexInv
<1>2. Permanent'
  BY PermanentStep
<1>3. Passing(t)'
  BY PassingStep
<1>4. Filing(t)'
  BY FilingStep
<1>5. StoredHolds(t)'
  BY StoredHoldsStep
<1>6. Unindexed'
  BY UnindexedStep
<1> QED
  BY <1>1, <1>2, <1>3, <1>4, <1>5, <1>6 DEF IndexInv

\* Nothing but an edit or a removal changes the tree, and only what may be removed is.
LEMMA ActOfCache ==
    ASSUME TypeOK, [CacheNext]_cacheVars
    PROVE  IndexAct
<1>1. [Next]_vars \/ AskStatus
  BY IndexMoves
<1>2. SUFFICES ASSUME NEW f \in Files \ Removable, Remove(f)
               PROVE  FALSE
  BY <1>1 DEF IndexAct
<1>3. tree[f] # Nothing /\ tree'[f] = Nothing /\ clock' = clock /\ clock \in Nat
  BY <1>2 DEF Remove, TypeOK
<1>4. CASE IndexStep
  <2>1. ASSUME NEW t \in Threads, Refresh(t)
        PROVE  tree' = tree
    BY <2>1 DEF Refresh, Start, Check, List, ReadExisting, Snapshot, ReadCandidate,
       ReadRaises, Commit, InvalidateStatus, SyncRaises, UseCachedStatus, world
  <2>2. ASSUME NEW a \in Actors, ComputeStatus(a) \/ PublishStatus(a)
        PROVE  tree' = tree
    BY <2>2 DEF ComputeStatus, PublishStatus, world
  <2>3. ASSUME NEW g \in Files, Edit(g)
        PROVE  FALSE
    BY <1>3, <2>3 DEF Edit
  <2>4. ASSUME NEW g \in Removable, Remove(g)
        PROVE  FALSE
    BY <1>2, <1>3, <2>4 DEF Remove, TypeOK
  <2>5. ASSUME NEW t \in Threads, ApplyChanges(t)
        PROVE  tree' = tree
    BY <2>5 DEF ApplyChanges, index, world
  <2> QED
    BY <1>3, <1>4, <2>1, <2>2, <2>3, <2>4, <2>5 DEF IndexStep
<1>5. CASE UNCHANGED cacheVars \/ Restart \/ DropEntry
  BY <1>3, <1>5 DEF cacheVars, index, world, Restart, Crash, DropEntry
<1>6. CASE \E q \in Requesters : Retrieve(q)
  <2>1. PICK q \in Requesters : Retrieve(q)
    BY <1>6
  <2>2. ASSUME NEW g \in Files, SearchRow(q, g) \/ StatFile(q, g)
        PROVE  UNCHANGED tree
    BY <2>2 DEF SearchRow, StatFile, index, world
  <2>3. CASE Begin(q) \/ ReadSignature(q) \/ LookupFragment(q) \/ StoreFragment(q)
    BY <1>3, <2>3 DEF Begin, ReadSignature, LookupFragment, StoreFragment, Answered,
       AskStatus, index, world
  <2>4. CASE \/ ReadDigest(q) \/ LookupSummary(q) \/ StatAgain(q) \/ Summarise(q)
             \/ StoreSummary(q)
    BY <1>3, <2>4 DEF ReadDigest, LookupSummary, StatAgain, Summarise, StoreSummary,
       index, world
  <2>5. CASE \/ CheckSidecar(q) \/ GatherRecords(q) \/ Rewrite(q)
             \/ RewriteRaises(q) \/ TakeHits(q)
    BY <1>3, <2>5 DEF CheckSidecar, GatherRecords, Rewrite, RewriteRaises, TakeHits,
       index, world
  <2> QED
    BY <1>3, <2>1, <2>2, <2>3, <2>4, <2>5 DEF Retrieve
<1> QED
  BY <1>4, <1>5, <1>6 DEF CacheNext

LEMMA IndexInvInit ==
    ASSUME NEW t, Threads = {t}, BinaryTexts = {}, Files \ Removable # {}, CacheInit
    PROVE  IndexInv(t)
<1>1. RowsInv
  BY CacheRowsInit
<1>2. clock = 1 /\ \A a \in Actors : job[a] = IdleJob
  BY DEF CacheInit
<1>3. \A f \in Files : IF f \in Removable THEN tree[f] = Nothing
                                         ELSE tree[f].stamp = 1
  BY DEF CacheInit
<1>4. t \in Actors /\ job[t].pc = "idle"
  BY <1>2 DEF Actors, IdleJob
<1>5. ShapeInv /\ NotBinary
  BY <1>2, IdleShape DEF ShapeInv, NotBinary
<1>6. Known(t)
  BY <1>4 DEF Known
<1>7. Permanent
  BY <1>3 DEF Permanent
<1>8. Passing(t) /\ Filing(t) /\ ~InFlight(t)
  BY <1>4 DEF Passing, Filing, InFlight
<1>9. CASE stored = NoSignature /\ \A f \in Files : rows[f] = Nothing
  <2>1. StoredHolds(t)
    BY <1>9 DEF StoredHolds, Holds, NoSignature
  <2>2. Unindexed
    BY <1>2, <1>9 DEF Unindexed, CacheInit, IdleJob, EmptyStatus
  <2> QED
    BY <1>1, <1>5, <1>6, <1>7, <1>8, <2>1, <2>2 DEF IndexInv, SerialInv
<1>10. CASE rows = tree /\ \E src \in SignatureSources :
                stored = SignatureOf(src, [f \in Files |-> tree[f].stamp])
  <2> DEFINE stamps == [f \in Files |-> tree[f].stamp]
  <2>1. stamps \in [Files -> Nat] /\ \A f \in Files : stamps[f] = tree[f].stamp
    BY <1>1 DEF RowsInv, TypeOK, Version
  <2>2. \E f \in Files : stamps[f] # 0
    BY <1>3, <2>1
  <2>3. PICK src \in SignatureSources : stored = SignatureOf(src, stamps)
    BY <1>10
  <2> HIDE DEF stamps
  <2>4. stored # NoSignature /\ \A f \in Files : stored.stamps[f] \in {0, tree[f].stamp}
    BY <2>1, <2>2, <2>3, SignsSomething
  <2>5. \A f \in Files : tree[f].stamp \in {0, 1}
    BY <1>3 DEF Nothing
  <2>6. StoredHolds(t)
    BY <1>2, <1>10, <2>4, <2>5 DEF StoredHolds, Holds
  <2>7. Unindexed
    BY <2>4 DEF Unindexed
  <2> QED
    BY <1>1, <1>5, <1>6, <1>7, <1>8, <2>6, <2>7 DEF IndexInv, SerialInv
<1> QED
  BY <1>9, <1>10 DEF CacheInit

\* A request that has a signature and has not taken its hits.
Unsearched == {"signed", "ensure", "gather", "rewrite", "hits"}

\* An answer of f under stamp s shows no other text than that version's; and, unless
\* f's document lagged when the hits were taken, shows it just if the term occurs in it.
AnswerTied(t, f, s, x, lagged) ==
    /\ x = None \/ Tied(t, f, s, x)
    /\ ~lagged => \E y : /\ Tied(t, f, s, y)
                         /\ IF y \in Matching THEN Tied(t, f, s, x) ELSE x = None

\* A hit to be read: the signed version can be read still, and has the term in it.
HitTied(t, f, s, lagged) ==
    /\ Holds(t, f, s)
    /\ ~lagged => \E y \in Matching : Tied(t, f, s, y)

\* A request that carries a signature: what it has yet to read of the signed version
\* can still be read, and what it has read is what that version holds.
AnswerSound(t, r) ==
    /\ r.pc \in Unsearched \cup {"idle", "begun"} => r.answer = NoAnswer
    /\ r.pc \in Unsearched => \A f \in Files : Holds(t, f, r.sig.stamps[f])
    /\ r.pc = "search" => \A f \in Files :
         IF f \in r.todo THEN HitTied(t, f, r.sig.stamps[f], f \in r.late)
         ELSE AnswerTied(t, f, r.sig.stamps[f], r.answer[f], f \in r.late)

EntryTied(t, e) ==
    \A f \in Files : AnswerTied(t, f, e.sig.stamps[f], e.answer[f], f \in e.late)

\* A request is begun on an index that has rows, hence a signature.
BegunIndexed == stored = NoSignature => \A q \in Requesters : request[q].pc # "begun"

FragmentInv(t) ==
    /\ IndexInv(t) /\ SummaryInv /\ BegunIndexed
    /\ \A q \in Requesters : AnswerSound(t, request[q])
    /\ \A e \in fragments : EntryTied(t, e)

LEMMA AnswerTiedStays ==
    ASSUME NEW t, NEW f, NEW s, NEW x, NEW lagged, clock \in Nat, FileStep(t, f),
           AnswerTied(t, f, s, x, lagged)
    PROVE  AnswerTied(t, f, s, x, lagged)'
<1>1. ASSUME NEW y, Tied(t, f, s, y)
      PROVE  Tied(t, f, s, y)'
  BY <1>1, TiedStays
<1>2. x = None \/ Tied(t, f, s, x)'
  BY <1>1 DEF AnswerTied
<1>3. ASSUME ~lagged
      PROVE  \E y : /\ Tied(t, f, s, y)'
                    /\ IF y \in Matching THEN Tied(t, f, s, x)' ELSE x = None
  <2>1. PICK y : /\ Tied(t, f, s, y)
                 /\ IF y \in Matching THEN Tied(t, f, s, x) ELSE x = None
    BY <1>3 DEF AnswerTied
  <2> QED
    BY <1>1, <2>1
<1> QED
  BY <1>2, <1>3 DEF AnswerTied

LEMMA HitTiedStays ==
    ASSUME NEW t, NEW f, NEW s, NEW lagged, clock \in Nat, FileStep(t, f),
           HitTied(t, f, s, lagged)
    PROVE  HitTied(t, f, s, lagged)'
<1>1. Holds(t, f, s)'
  BY HoldsStays DEF HitTied
<1>2. ASSUME ~lagged
      PROVE  \E y \in Matching : Tied(t, f, s, y)'
  <2>1. PICK y \in Matching : Tied(t, f, s, y)
    BY <1>2 DEF HitTied
  <2>2. Tied(t, f, s, y)'
    BY <2>1, TiedStays
  <2> QED
    BY <2>2
<1> QED
  BY <1>1, <1>2 DEF HitTied

LEMMA AnswerStays ==
    ASSUME NEW t, NEW r, clock \in Nat, \A f \in Files : FileStep(t, f),
           AnswerSound(t, r)
    PROVE  AnswerSound(t, r)'
<1>1. r.pc \in Unsearched \cup {"idle", "begun"} => r.answer = NoAnswer
  BY DEF AnswerSound
<1>2. ASSUME r.pc \in Unsearched, NEW f \in Files
      PROVE  Holds(t, f, r.sig.stamps[f])'
  <2>1. Holds(t, f, r.sig.stamps[f])
    BY <1>2 DEF AnswerSound
  <2> QED
    BY <2>1, HoldsStays
<1>3. ASSUME r.pc = "search", NEW f \in Files
      PROVE  IF f \in r.todo THEN HitTied(t, f, r.sig.stamps[f], f \in r.late)'
             ELSE AnswerTied(t, f, r.sig.stamps[f], r.answer[f], f \in r.late)'
  <2>1. IF f \in r.todo THEN HitTied(t, f, r.sig.stamps[f], f \in r.late)
        ELSE AnswerTied(t, f, r.sig.stamps[f], r.answer[f], f \in r.late)
    BY <1>3 DEF AnswerSound
  <2> QED
    BY <2>1, HitTiedStays, AnswerTiedStays
<1> QED
  BY <1>1, <1>2, <1>3 DEF AnswerSound

LEMMA EntryStays ==
    ASSUME NEW t, NEW e, clock \in Nat, \A f \in Files : FileStep(t, f),
           EntryTied(t, e)
    PROVE  EntryTied(t, e)'
<1>1. ASSUME NEW f \in Files
      PROVE  AnswerTied(t, f, e.sig.stamps[f], e.answer[f], f \in e.late)'
  <2>1. AnswerTied(t, f, e.sig.stamps[f], e.answer[f], f \in e.late)
    BY DEF EntryTied
  <2> QED
    BY <2>1, AnswerTiedStays
<1> QED
  BY <1>1 DEF EntryTied

\* What a row search adds to an answer is tied to the signature it is filed under.
LEMMA RowTied ==
    ASSUME NEW t, NEW f, NEW s, Holds(t, f, s)
    PROVE  Tied(t, f, s, rows[f].text)
BY DEF Holds, Tied

LEMMA HitAnswered ==
    ASSUME NEW t, NEW f, NEW s, NEW lagged, HitTied(t, f, s, lagged)
    PROVE  AnswerTied(t, f, s, rows[f].text, lagged)
<1>1. Tied(t, f, s, rows[f].text)
  BY RowTied DEF HitTied
<1>2. ~lagged => \E y \in Matching : Tied(t, f, s, y)
  BY DEF HitTied
<1> QED
  BY <1>1, <1>2 DEF AnswerTied

\* What becomes of a file when the hits are taken: it is one, or is left out.
LEMMA HitsTaken ==
    ASSUME NEW t, NEW f, NEW s, Holds(t, f, s), NEW lagged,
           ~lagged => docs[f] = rows[f].text
    PROVE  IF docs[f] \in Matching THEN HitTied(t, f, s, lagged)
           ELSE AnswerTied(t, f, s, None, lagged)
<1>1. Tied(t, f, s, rows[f].text)
  BY RowTied
<1>2. CASE docs[f] \in Matching
  BY <1>1, <1>2 DEF HitTied
<1>3. CASE docs[f] \notin Matching
  BY <1>1, <1>3 DEF AnswerTied
<1> QED
  BY <1>2, <1>3

\* The steps of a requester between its signature and its hits, and those that take it
\* out of the search.
Readying(old, new) ==
    /\ old.pc \in Unsearched /\ new.pc \in Unsearched
    /\ new.sig = old.sig /\ new.answer = old.answer
Elsewhere(new) ==
    new = IdleRequest \/ new.pc \in {"digest", "lookup", "stat", "summarise", "keep"}
Taking(old, new) ==
    /\ old.pc = "hits" /\ new.pc = "search"
    /\ new.sig = old.sig /\ new.answer = old.answer
    /\ new.todo = {f \in Files : docs[f] \in Matching}
    /\ new.late = {f \in Files : docs[f] # rows[f].text}
Reading(old, new, f) ==
    /\ old.pc = "search" /\ new.pc = "search" /\ f \in old.todo
    /\ new.sig = old.sig /\ new.late = old.late /\ new.todo = old.todo \ {f}
    /\ new.answer[f] = rows[f].text
    /\ \A g \in Files \ {f} : new.answer[g] = old.answer[g]

\* The requester's record, as far as the fragments go.
LEMMA RequestFields ==
    ASSUME CacheTypeOK, NEW q \in Requesters, Retrieve(q)
    PROVE  /\ \A p \in Requesters \ {q} : request'[p] = request[p]
           /\ \/ Elsewhere(request'[q])
              \/ /\ Begin(q) /\ request[q].pc = "idle" /\ request'[q].pc = "begun"
                 /\ request'[q].answer = request[q].answer
              \/ /\ ReadSignature(q) /\ request[q].pc = "begun"
                 /\ request'[q].pc = "signed" /\ request'[q].answer = request[q].answer
              \/ Readying(request[q], request'[q])
              \/ Taking(request[q], request'[q])
              \/ \E f \in Files : Reading(request[q], request'[q], f)
           /\ fragments' = fragments \/ StoreFragment(q)
<1> DEFINE old == request[q]
<1>1. old \in RequestType /\ request \in [Requesters -> RequestType]
  BY DEF CacheTypeOK, RequestType
<1>2. CASE Begin(q)
  <2>1. request' = [request EXCEPT ![q] = [old EXCEPT !.pc = "begun"]]
    BY <1>1, <1>2 DEF Begin, Goto
  <2> QED
    BY <1>1, <1>2, <2>1 DEF RequestType, Begin, caches
<1>3. CASE ReadSignature(q)
  <2>1. PICK sig : request' = [request EXCEPT ![q].pc = "signed", ![q].sig = sig]
    BY <1>3 DEF ReadSignature
  <2> QED
    BY <1>1, <1>3, <2>1 DEF RequestType, ReadSignature, caches
<1>4. CASE Respond(q)
  <2>1. request' = [request EXCEPT ![q] = IdleRequest]
    BY <1>4 DEF Respond
  <2>2. request'[q] = IdleRequest /\ \A p \in Requesters \ {q} : request'[p] = request[p]
    BY <1>1, <2>1
  <2>3. fragments' = fragments \/ StoreFragment(q)
    BY DEF Retrieve, Begin, ReadSignature, LookupFragment, CheckSidecar, GatherRecords,
       Rewrite, RewriteRaises, TakeHits, SearchRow, StatFile, ReadDigest, LookupSummary,
       StatAgain, Summarise, StoreSummary, caches
  <2> QED
    BY <2>2, <2>3 DEF Elsewhere
<1>5. CASE LookupFragment(q) /\ ~Respond(q)
  <2>1. PICK n : request' = [request EXCEPT ![q] = [old EXCEPT !.pc = "ensure",
                                                              !.expected = n]]
    BY <1>1, <1>5 DEF LookupFragment
  <2>2. Readying(old, request'[q])
    BY <1>1, <1>5, <2>1 DEF RequestType, LookupFragment, Readying, Unsearched
  <2> QED
    BY <1>1, <1>5, <2>1, <2>2 DEF LookupFragment, caches
<1>6. CASE CheckSidecar(q) \/ Rewrite(q)
  <2>1. PICK pc \in {"hits", "gather"} :
          request' = [request EXCEPT ![q] = [old EXCEPT !.pc = pc]]
    BY <1>1, <1>6 DEF CheckSidecar, Rewrite, Goto
  <2>2. Readying(old, request'[q])
    BY <1>1, <1>6, <2>1 DEF RequestType, CheckSidecar, Rewrite, Readying, Unsearched
  <2> QED
    BY <1>1, <1>6, <2>1, <2>2 DEF CheckSidecar, Rewrite, caches
<1>7. CASE GatherRecords(q)
  <2>1. request' = [request EXCEPT ![q] = [old EXCEPT !.pc = "rewrite",
                                                      !.records = RowTexts]]
    BY <1>1, <1>7 DEF GatherRecords
  <2>2. Readying(old, request'[q])
    BY <1>1, <1>7, <2>1 DEF RequestType, GatherRecords, Readying, Unsearched
  <2> QED
    BY <1>1, <1>7, <2>1, <2>2 DEF GatherRecords, caches
<1>8. CASE TakeHits(q)
  <2>1. PICK todo, late :
          /\ todo = {f \in Files : docs[f] \in Matching}
          /\ late = {f \in Files : docs[f] # rows[f].text}
          /\ request' = [request EXCEPT ![q] =
                 [old EXCEPT !.pc = "search", !.todo = todo, !.late = late]]
    BY <1>1, <1>8 DEF TakeHits
  <2>2. request'[q] = [old EXCEPT !.pc = "search", !.todo = todo, !.late = late]
    BY <1>1, <2>1
  <2>3. /\ request'[q].pc = "search" /\ request'[q].sig = old.sig
        /\ request'[q].todo = todo /\ request'[q].late = late
        /\ request'[q].answer = old.answer
    BY <1>1, <2>2 DEF RequestType
  <2>4. Taking(old, request'[q])
    BY <1>8, <2>1, <2>3 DEF TakeHits, Taking
  <2> QED
    BY <1>1, <1>8, <2>1, <2>4 DEF TakeHits, caches
<1>9. ASSUME NEW f \in Files, SearchRow(q, f)
      PROVE  /\ \A p \in Requesters \ {q} : request'[p] = request[p]
             /\ Reading(old, request'[q], f)
             /\ fragments' = fragments
  <2>1. PICK todo, answer :
          /\ todo = old.todo \ {f} /\ answer = [old.answer EXCEPT ![f] = rows[f].text]
          /\ request' = [request EXCEPT ![q].todo = todo, ![q].answer = answer]
    BY <1>1, <1>9 DEF SearchRow, Found
  <2>2. request'[q] = [old EXCEPT !.todo = todo, !.answer = answer]
    BY <1>1, <2>1
  <2>3. /\ request'[q].pc = old.pc /\ request'[q].sig = old.sig
        /\ request'[q].late = old.late
        /\ request'[q].todo = todo /\ request'[q].answer = answer
    BY <1>1, <2>2 DEF RequestType
  <2>4. answer[f] = rows[f].text /\ \A g \in Files \ {f} : answer[g] = old.answer[g]
    BY <1>1, <2>1 DEF RequestType, Answer
  <2> QED
    BY <1>1, <1>9, <2>1, <2>3, <2>4 DEF SearchRow, Reading, caches
<1>10. CASE StoreFragment(q) \/ StoreSummary(q) \/ RewriteRaises(q)
  BY <1>4, <1>10 DEF StoreFragment, StoreSummary, RewriteRaises
<1>11. CASE \E f \in Files : StatFile(q, f) /\ ~Respond(q)
  <2>1. PICK f \in Files : StatFile(q, f) /\ ~Respond(q)
    BY <1>11
  <2>2. PICK token :
          /\ request' = [request EXCEPT ![q].pc = "digest", ![q].file = f,
                                        ![q].token = token]
          /\ UNCHANGED caches
    BY <2>1 DEF StatFile
  <2> QED
    BY <1>1, <2>2 DEF RequestType, Elsewhere, caches
<1>12. CASE ReadDigest(q)
  <2>1. PICK token : request' = [request EXCEPT ![q].pc = "lookup", ![q].token = token]
    BY <1>1, <1>12 DEF ReadDigest
  <2> QED
    BY <1>1, <1>12, <2>1 DEF RequestType, ReadDigest, Elsewhere, caches
<1>13. CASE LookupSummary(q) /\ ~Respond(q)
  BY <1>1, <1>13 DEF LookupSummary, Goto, RequestType, Elsewhere, caches
<1>14. CASE StatAgain(q) /\ ~Respond(q)
  BY <1>1, <1>14 DEF StatAgain, RequestType, Elsewhere, caches
<1>15. CASE Summarise(q) /\ ~Respond(q)
  <2>1. PICK text : request' = [request EXCEPT ![q].pc = "keep", ![q].text = text]
    BY <1>15 DEF Summarise
  <2> QED
    BY <1>1, <1>15, <2>1 DEF Summarise, RequestType, Elsewhere, caches
<1> QED
  BY <1>2, <1>3, <1>4, <1>5, <1>6, <1>7, <1>8, <1>9, <1>10, <1>11, <1>12, <1>13, <1>14,
     <1>15
  DEF Retrieve

\* What a requester takes from the index as it stands is sound at once.
LEMMA RequestAnswerSound ==
    ASSUME NEW t, FragmentInv(t), NEW q \in Requesters, Retrieve(q), NEW r,
           r = request'[q]
    PROVE  AnswerSound(t, r)
<1>1. CacheTypeOK /\ AnswerSound(t, request[q])
  BY DEF FragmentInv, SummaryInv
<1>2. CASE Elsewhere(r)
  BY <1>2 DEF Elsewhere, AnswerSound, IdleRequest, Unsearched
<1>3. CASE /\ Begin(q) /\ request[q].pc = "idle" /\ r.pc = "begun"
           /\ r.answer = request[q].answer
  BY <1>1, <1>3 DEF AnswerSound, Unsearched
<1>4. CASE /\ ReadSignature(q) /\ request[q].pc = "begun" /\ r.pc = "signed"
           /\ r.answer = request[q].answer
  <2>1. stored # NoSignature /\ StoredHolds(t)
    BY <1>4 DEF FragmentInv, BegunIndexed, ReadSignature, IndexInv
  <2>2. request[q] \in RequestType /\ request \in [Requesters -> RequestType]
    BY <1>1 DEF CacheTypeOK, RequestType
  <2>3. request' = [request EXCEPT ![q].pc = "signed", ![q].sig = stored]
    BY <1>4, <2>1 DEF ReadSignature
  <2>4. r.sig = stored
    BY <2>2, <2>3 DEF RequestType
  <2> QED
    BY <1>1, <1>4, <2>1, <2>4 DEF AnswerSound, StoredHolds
<1>5. CASE Readying(request[q], r)
  BY <1>1, <1>5 DEF AnswerSound, Readying, Unsearched
<1>6. CASE Taking(request[q], r)
  <2>1. /\ request[q].pc \in Unsearched /\ r.answer = NoAnswer
        /\ \A f \in Files : Holds(t, f, r.sig.stamps[f])
    BY <1>1, <1>6 DEF AnswerSound, Taking, Unsearched
  <2>2. ASSUME NEW f \in Files
        PROVE  IF f \in r.todo THEN HitTied(t, f, r.sig.stamps[f], f \in r.late)
               ELSE AnswerTied(t, f, r.sig.stamps[f], r.answer[f], f \in r.late)
    <3>1. /\ f \in r.todo <=> docs[f] \in Matching
          /\ f \notin r.late => docs[f] = rows[f].text
      BY <1>6 DEF Taking
    <3>2. r.answer[f] = None
      BY <2>1 DEF NoAnswer
    <3> QED
      BY <2>1, <3>1, <3>2, HitsTaken
  <2> QED
    BY <1>6, <2>2 DEF AnswerSound, Taking, Unsearched
<1>7. ASSUME NEW f \in Files, Reading(request[q], r, f)
      PROVE  AnswerSound(t, r)
  <2>1. \A g \in Files :
          IF g \in request[q].todo
          THEN HitTied(t, g, r.sig.stamps[g], g \in r.late)
          ELSE AnswerTied(t, g, r.sig.stamps[g], request[q].answer[g], g \in r.late)
    BY <1>1, <1>7 DEF AnswerSound, Reading
  <2>2. AnswerTied(t, f, r.sig.stamps[f], r.answer[f], f \in r.late)
    BY <1>7, <2>1, HitAnswered DEF Reading
  <2> QED
    BY <1>7, <2>1, <2>2 DEF AnswerSound, Reading, Unsearched
<1> QED
  BY <1>1, <1>2, <1>3, <1>4, <1>5, <1>6, <1>7, RequestFields

LEMMA FragmentStep ==
    ASSUME NEW t, Threads = {t}, WholeRefreshes, BinaryTexts = {},
           Files \ Removable # {}, FragmentInv(t), [CacheNext]_cacheVars
    PROVE  FragmentInv(t)'
<1>1. /\ IndexInv(t) /\ SummaryInv /\ CacheTypeOK /\ TypeOK /\ clock \in Nat
      /\ \A q \in Requesters : AnswerSound(t, request[q])
      /\ \A e \in fragments : EntryTied(t, e)
  BY DEF FragmentInv, IndexInv, SummaryInv, SerialInv, RowsInv, TypeOK
<1>2. IndexAct
  BY <1>1, ActOfCache
<1>3. IndexInv(t)'
  BY <1>1, <1>2, IndexInvStep
<1>4. SummaryInv'
  BY <1>1, SummaryStep
<1>5. \A f \in Files : FileStep(t, f)
  BY <1>1, <1>2, FileStepOf
<1>6. BegunIndexed'
  <2> SUFFICES ASSUME stored' = NoSignature, NEW q \in Requesters
               PROVE  request'[q].pc # "begun"
    BY DEF BegunIndexed, NoSignature
  <2>1. ~Commit(t)
    BY <1>1, CommitOf
  <2>2. UNCHANGED <<rows, stored>>
    BY <1>1, <1>2, <2>1, OnlyCommitWrites, AskStatusFields DEF IndexAct, vars
  <2>3. /\ request[q].pc # "begun" /\ Unindexed
    BY <2>2 DEF FragmentInv, BegunIndexed, IndexInv
  <2>4. /\ \A f \in Files : rows[f] = Nothing
        /\ cache # NoStatus => ~cache.nonempty
    BY <2>2, <2>3 DEF Unindexed
  <2>5. ~CurrentStatus.nonempty /\ ~ReportedStatus.nonempty
    BY <2>4 DEF CurrentStatus, ReportedStatus
  <2>6. CASE \E p \in Requesters : Retrieve(p)
    <3>1. PICK p \in Requesters : Retrieve(p)
      BY <2>6
    <3>2. ~Begin(p)
      BY <2>5 DEF Begin
    <3> QED
      BY <1>1, <2>3, <3>1, <3>2, RequestFields
         DEF Elsewhere, Readying, Taking, Reading, Unsearched, IdleRequest
  <2>7. CASE IndexStep \/ DropEntry \/ UNCHANGED cacheVars
    BY <2>3, <2>7 DEF IndexStep, DropEntry, cacheVars
  <2>8. CASE Restart
    BY <2>8 DEF Restart, IdleRequest
  <2> QED
    BY <2>6, <2>7, <2>8 DEF CacheNext
<1>7. \A q \in Requesters : AnswerSound(t, request[q])'
  <2> SUFFICES ASSUME NEW q \in Requesters
               PROVE  AnswerSound(t, request[q])'
    OBVIOUS
  <2>1. PICK r : r = request'[q]
    OBVIOUS
  <2>2. AnswerSound(t, r)
    <3>1. CASE request'[q] = request[q]
      BY <1>1, <2>1, <3>1
    <3>2. CASE Restart
      BY <2>1, <3>2 DEF Restart, AnswerSound, IdleRequest, Unsearched
    <3>3. ASSUME NEW p \in Requesters, Retrieve(p), request'[q] # request[q]
          PROVE  AnswerSound(t, r)
      <4>1. p = q
        BY <1>1, <3>3, RequestFields
      <4> QED
        BY <2>1, <3>3, <4>1, RequestAnswerSound
    <3>4. CASE IndexStep \/ DropEntry \/ UNCHANGED cacheVars
      BY <3>1, <3>4 DEF IndexStep, DropEntry, cacheVars
    <3> QED
      BY <3>1, <3>2, <3>3, <3>4 DEF CacheNext
  <2>3. AnswerSound(t, r)'
    BY <1>1, <1>5, <2>2, AnswerStays
  <2> QED
    BY <2>1, <2>3 DEF AnswerSound, AnswerTied, HitTied, Holds, Tied
<1>8. \A e \in fragments' : EntryTied(t, e)'
  <2> SUFFICES ASSUME NEW e \in fragments'
               PROVE  EntryTied(t, e)'
    OBVIOUS
  <2>1. EntryTied(t, e)
    <3>1. CASE e \in fragments
      BY <1>1, <3>1
    <3>2. ASSUME NEW q \in Requesters, StoreFragment(q), e \notin fragments
          PROVE  EntryTied(t, e)
      <4>1. /\ e = [sig |-> request[q].sig, answer |-> request[q].answer,
                     late |-> request[q].late]
            /\ request[q].pc = "search" /\ request[q].todo = {}
        BY <3>2 DEF StoreFragment, FragmentKey
      <4>2. AnswerSound(t, request[q])
        BY <1>1
      <4> QED
        BY <4>1, <4>2 DEF AnswerSound, EntryTied
    <3>3. CASE IndexStep \/ Restart \/ DropEntry \/ UNCHANGED cacheVars
      <4>1. fragments' \subseteq fragments
        BY <3>3 DEF IndexStep, Restart, DropEntry, caches, cacheVars
      <4> QED
        BY <3>1, <4>1
    <3>4. CASE \E q \in Requesters : Retrieve(q)
      <4>1. PICK q \in Requesters : Retrieve(q)
        BY <3>4
      <4>2. fragments' = fragments \/ StoreFragment(q)
        BY <1>1, <4>1, RequestFields
      <4> QED
        BY <3>1, <3>2, <4>2
    <3> QED
      BY <3>3, <3>4 DEF CacheNext
  <2> QED
    BY <1>1, <1>5, <2>1, EntryStays
<1> QED
  BY <1>3, <1>4, <1>6, <1>7, <1>8 DEF FragmentInv

\* A process in which one thread refreshes, by whole refreshes, serves from its cache,
\* of a file whose document was that of its row when the hits were taken, what a search
\* of the rows would show, and of any other file no text but the row's: however many
\* requesters search, rebuild the sidecar and file their answers meanwhile, and whatever
\* is edited, removed, dropped or lost in a crash.  With a refresh that truncates its
\* walk or takes part of the tree, with a binary file, or with nothing in the
\* repository to stay, it fails.
THEOREM SerialFragmentsCurrent ==
    ASSUME NEW t, Threads = {t}, WholeRefreshes, BinaryTexts = {},
           Files \ Removable # {}
    PROVE  CacheSpec => []FragmentIsCurrent
<1>1. CacheInit => FragmentInv(t)
  <2> SUFFICES ASSUME CacheInit PROVE FragmentInv(t)
    OBVIOUS
  <2>1. IndexInv(t)
    BY IndexInvInit
  <2>2. SummaryInv
    BY SummaryInit
  <2>3. fragments = {} /\ \A q \in Requesters : request[q] = IdleRequest
    BY DEF CacheInit
  <2> QED
    BY <2>1, <2>2, <2>3
    DEF FragmentInv, BegunIndexed, AnswerSound, IdleRequest, Unsearched
<1>2. FragmentInv(t) /\ [CacheNext]_cacheVars => FragmentInv(t)'
  BY FragmentStep
<1>3. FragmentInv(t) => FragmentIsCurrent
  <2> SUFFICES ASSUME FragmentInv(t), NEW e \in fragments, e.sig = stored,
                      NEW f \in Files, e.sig.stamps[f] # 0
               PROVE  /\ e.answer[f] \in {None, rows[f].text}
                      /\ f \notin e.late => e.answer[f] = Sought(f)
    BY DEF FragmentIsCurrent
  <2> DEFINE s == e.sig.stamps[f]
  <2>1. AnswerTied(t, f, s, e.answer[f], f \in e.late)
    BY DEF FragmentInv, EntryTied
  <2>2. \A y : Tied(t, f, s, y) => rows[f].text = y
    BY DEF Tied
  <2> QED
    BY <2>1, <2>2 DEF AnswerTied, Sought
<1> QED
  BY <1>1, <1>2, <1>3, PTL DEF CacheSpec

=============================================================================
