-------------------------- MODULE SearchSidecarProofs --------------------------
(***************************************************************************)
(* Proofs about SearchSidecar: its type invariant, that no two documents   *)
(* share a path however many threads refresh and search, and that, with    *)
(* one of them at a time, faults spoil only the files of the refresh they  *)
(* cut short.                                                              *)
(***************************************************************************)
EXTENDS SearchSidecar, FiniteSetTheorems, TLAPS

JobType == [pc: Step, search: BOOLEAN, changed: SUBSET Files,
            records: SUBSET Doc, expected: Nat, count: Nat]

-----------------------------------------------------------------------------
(* Counting.                                                               *)

\* There are finitely many documents.
LEMMA DocsFinite == IsFiniteSet(Doc)
<1> DEFINE g == [p \in Files \X Texts |-> [file |-> p[1], text |-> p[2]]]
<1>1. IsFiniteSet(Files \X Texts)
  BY FS_Product, SidecarAssumption
<1>2. g \in [Files \X Texts -> Doc]
  BY DEF Doc
<1>3. \A d \in Doc : \E p \in Files \X Texts : g[p] = d
  <2> SUFFICES ASSUME NEW d \in Doc PROVE \E p \in Files \X Texts : g[p] = d
    OBVIOUS
  <2>1. <<d.file, d.text>> \in Files \X Texts /\ g[<<d.file, d.text>>] = d
    BY DEF Doc
  <2> QED  BY <2>1
<1> HIDE DEF g
<1>4. g \in Surjection(Files \X Texts, Doc)
  BY <1>2, <1>3 DEF Surjection
<1> QED  BY <1>1, <1>4, FS_Surjection

\* So every set of documents has a natural number of them.
LEMMA DocCount == \A D \in SUBSET Doc : Cardinality(D) \in Nat
<1> SUFFICES ASSUME NEW D \in SUBSET Doc PROVE Cardinality(D) \in Nat
  OBVIOUS
<1>1. IsFiniteSet(D)
  BY DocsFinite, FS_Subset
<1> QED  BY <1>1, FS_CardinalityType

\* And there is a natural number of file rows.
LEMMA FileCountType == FileCount \in Nat
<1>1. IsFiniteSet({f \in Files : rows[f] # None})
  BY FS_Subset, SidecarAssumption
<1> QED  BY <1>1, FS_CardinalityType DEF FileCount

\* A step by which one thread's record moves keeps the type of all of them.
LEMMA JobMove ==
    ASSUME NEW t \in Threads, job \in [Threads -> JobType],
           NEW j \in JobType, job' = [job EXCEPT ![t] = j]
    PROVE  job' \in [Threads -> JobType]
OBVIOUS

LEMMA IdleJobType ==
    /\ IdleJob \in JobType
    /\ [IdleJob EXCEPT !.pc = "hits"] \in JobType
BY DEF IdleJob, JobType, Step

LEMMA PassedType == ASSUME NEW t \in Threads PROVE Passed(t) \in JobType
BY IdleJobType DEF Passed

\* The fields a step may write, each with a value of its type.
LEMMA FieldMoves ==
    ASSUME NEW j \in JobType, NEW pc \in Step, NEW n \in Nat,
           NEW D \in SUBSET Doc
    PROVE  /\ [j EXCEPT !.pc = pc] \in JobType
           /\ [j EXCEPT !.expected = n, !.pc = pc] \in JobType
           /\ [j EXCEPT !.records = D, !.pc = pc] \in JobType
           /\ [j EXCEPT !.count = n, !.pc = pc] \in JobType
           /\ [IdleJob EXCEPT !.count = n, !.pc = pc] \in JobType
BY DEF JobType, IdleJob, Step

-----------------------------------------------------------------------------
(* Type correctness.                                                       *)

LEMMA TypeInit == Init => TypeOK
<1> SUFFICES ASSUME Init PROVE TypeOK
  OBVIOUS
<1>1. job \in [Threads -> JobType]
  BY IdleJobType DEF Init
<1>2. /\ rows \in [Files -> Texts \cup {None}]
      /\ meta \in [compatible: BOOLEAN, count: Nat]
      /\ built \in BOOLEAN /\ docs \in SUBSET Doc
      /\ torn \in SUBSET Files
      /\ commits \in Nat /\ faults \in Nat
  BY DEF Init
<1> QED  BY <1>1, <1>2 DEF TypeOK, JobType

LEMMA AppliedDocsType ==
    ASSUME TypeOK, NEW t \in Threads PROVE AppliedDocs(t) \in SUBSET Doc
BY DEF TypeOK, AppliedDocs, JobType

\* One thread's steps.
LEMMA TypeAct == ASSUME TypeOK, NEW t \in Threads, Act(t) PROVE TypeOK'
<1> USE DEF TypeOK
<1>0. job \in [Threads -> JobType] /\ job[t] \in JobType
  BY DEF JobType
<1> SUFFICES /\ rows' \in [Files -> Texts \cup {None}]
             /\ meta' \in [compatible: BOOLEAN, count: Nat]
             /\ built' \in BOOLEAN /\ docs' \in SUBSET Doc
             /\ job' \in [Threads -> JobType]
             /\ torn' \in SUBSET Files
             /\ commits' \in Nat /\ faults' \in Nat
  BY DEF JobType
<1>1. CASE Commit(t)
  <2>0. PICK changed \in SUBSET Files :
          \E new \in [changed -> Texts \cup {None}] :
            /\ rows' = [f \in Files |-> IF f \in changed THEN new[f] ELSE rows[f]]
            /\ job' = [job EXCEPT ![t] =
                 [IdleJob EXCEPT !.changed = changed,
                      !.records = {d \in Doc : /\ d.file \in changed
                                               /\ new[d.file] = d.text},
                      !.pc = IF changed = {} THEN "count" ELSE "compat"]]
    BY <1>1 DEF Commit
  <2>1. PICK new \in [changed -> Texts \cup {None}] :
            /\ rows' = [f \in Files |-> IF f \in changed THEN new[f] ELSE rows[f]]
            /\ job' = [job EXCEPT ![t] =
                 [IdleJob EXCEPT !.changed = changed,
                      !.records = {d \in Doc : /\ d.file \in changed
                                               /\ new[d.file] = d.text},
                      !.pc = IF changed = {} THEN "count" ELSE "compat"]]
    BY <2>0
  <2> DEFINE R == {d \in Doc : d.file \in changed /\ new[d.file] = d.text}
             j == [IdleJob EXCEPT !.changed = changed, !.records = R,
                       !.pc = IF changed = {} THEN "count" ELSE "compat"]
  <2>2. j \in JobType
    <3>1. R \in SUBSET Doc
      OBVIOUS
    <3> HIDE DEF R
    <3> QED  BY <3>1 DEF JobType, IdleJob, Step
  <2>3. job' \in [Threads -> JobType]
    BY <1>0, <2>1, <2>2, JobMove
  <2>4. rows' \in [Files -> Texts \cup {None}]
    BY <2>1
  <2> QED  BY <1>1, <2>3, <2>4 DEF Commit, sidecar
<1>2. CASE Search(t)
  <2>1. [IdleJob EXCEPT !.pc = "count", !.search = TRUE] \in JobType
    BY DEF JobType, IdleJob, Step
  <2> QED  BY <1>0, <1>2, <2>1, JobMove DEF Search, sidecar, bounds
<1>3. CASE CountRows(t)
  <2>1. [job[t] EXCEPT !.expected = FileCount, !.pc = "meta"] \in JobType
    BY <1>0, FieldMoves, FileCountType DEF Step
  <2>2. job' = [job EXCEPT ![t] = [job[t] EXCEPT !.expected = FileCount, !.pc = "meta"]]
    BY <1>3 DEF CountRows
  <2>3. job' \in [Threads -> JobType]
    BY <1>0, <2>1, <2>2, JobMove
  <2> QED  BY <1>3, <2>3 DEF CountRows, sidecar, bounds
<1>4. CASE CheckMeta(t) \/ CheckCompatible(t) \/ CheckOpens(t) \/ Recount(t)
  <2>1. PICK pc \in Step : job' = [job EXCEPT ![t] = [job[t] EXCEPT !.pc = pc]]
    <3>1. \E pc \in Step : Goto(t, pc)
      BY <1>4 DEF CheckMeta, CheckCompatible, CheckOpens, Recount, Step
    <3> QED  BY <3>1 DEF Goto
  <2>2. [job[t] EXCEPT !.pc = pc] \in JobType
    BY <1>0 DEF JobType
  <2>3. job' \in [Threads -> JobType]
    BY <1>0, <2>1, <2>2, JobMove
  <2> QED  BY <1>4, <2>3 DEF CheckMeta, CheckCompatible, CheckOpens, Recount,
                            sidecar, bounds
<1>5. CASE CheckHealth(t)
  <2>1. /\ Passed(t) \in JobType
        /\ [job[t] EXCEPT !.pc = "gather"] \in JobType
    BY <1>0, PassedType DEF JobType, Step
  <2>2. job' = [job EXCEPT ![t] = IF Healthy(job[t].expected) THEN Passed(t)
                                  ELSE [job[t] EXCEPT !.pc = "gather"]]
    BY <1>5 DEF CheckHealth
  <2>3. job' \in [Threads -> JobType]
    BY <1>0, <2>1, <2>2, JobMove
  <2> QED  BY <1>5, <2>3 DEF CheckHealth, sidecar, bounds
<1>6. CASE ApplyChanges(t)
  <2>1. AppliedDocs(t) \in SUBSET Doc /\ Cardinality(AppliedDocs(t)) \in Nat
    BY AppliedDocsType, DocCount
  <2>2. [IdleJob EXCEPT !.count = Cardinality(AppliedDocs(t)), !.pc = "recount"]
          \in JobType
    BY <1>0, <2>1, FieldMoves DEF Step
  <2>3. job' \in [Threads -> JobType]
    BY <1>0, <1>6, <2>2, JobMove DEF ApplyChanges
  <2> QED  BY <1>6, <2>1, <2>3 DEF ApplyChanges, bounds
<1>7. CASE GatherRecords(t)
  <2>1. [job[t] EXCEPT !.records = AllRecords(t), !.pc = "rewrite"] \in JobType
    BY <1>0 DEF AllRecords, RowDocs, JobType, Step
  <2>2. job' = [job EXCEPT ![t] =
                  [job[t] EXCEPT !.records = AllRecords(t), !.pc = "rewrite"]]
    BY <1>7 DEF GatherRecords
  <2>3. job' \in [Threads -> JobType]
    BY <1>0, <2>1, <2>2, JobMove
  <2> QED  BY <1>7, <2>3 DEF GatherRecords, sidecar, bounds
<1>8. CASE Rebuild(t)
  <2>1. job[t].records \in SUBSET Doc /\ Cardinality(job[t].records) \in Nat
    BY <1>0, DocCount DEF JobType
  <2>2. [job[t] EXCEPT !.count = Cardinality(job[t].records), !.pc = "record"]
          \in JobType
    BY <1>0, <2>1, FieldMoves DEF Step
  <2>3. job' = [job EXCEPT ![t] =
                  [job[t] EXCEPT !.count = Cardinality(job[t].records), !.pc = "record"]]
    BY <1>8 DEF Rebuild
  <2>4. job' \in [Threads -> JobType]
    BY <1>0, <2>2, <2>3, JobMove
  <2> QED  BY <1>8, <2>1, <2>4 DEF Rebuild, bounds
<1>9. CASE StoreMeta(t)
  <2>1. /\ Passed(t) \in JobType
        /\ [job[t] EXCEPT !.pc = "rerecord"] \in JobType
        /\ job[t].count \in Nat
    BY <1>0, PassedType DEF JobType, Step
  <2>2. job' = [job EXCEPT ![t] =
                  IF job[t].pc = "record" /\ ~job[t].search
                  THEN [job[t] EXCEPT !.pc = "rerecord"] ELSE Passed(t)]
    BY <1>9 DEF StoreMeta
  <2>3. job' \in [Threads -> JobType]
    BY <1>0, <2>1, <2>2, JobMove
  <2> QED  BY <1>9, <2>1, <2>3 DEF StoreMeta, sidecar, bounds
<1>10. CASE FinishSearch(t)
  BY <1>0, <1>10, IdleJobType, JobMove DEF FinishSearch, sidecar, bounds
<1>11. CASE SyncRaises(t)
  <2>1. job' \in [Threads -> JobType]
    BY <1>0, <1>11, IdleJobType, JobMove DEF SyncRaises
  <2>2. built' \in BOOLEAN /\ docs' \in SUBSET Doc /\ torn' \in SUBSET Files
    BY <1>0, <1>11 DEF SyncRaises, CutShort, Emptied, Abandoned, sidecar, JobType
  <2> QED  BY <1>11, <2>1, <2>2 DEF SyncRaises, Fault
<1> QED
  BY <1>1, <1>2, <1>3, <1>4, <1>5, <1>6, <1>7, <1>8, <1>9, <1>10, <1>11 DEF Act

\* The process-wide faults.
LEMMA TypeFault ==
    ASSUME TypeOK, Crash \/ LoseSidecar \/ Upgrade PROVE TypeOK'
<1> USE DEF TypeOK
<1>1. CASE Crash
  <2>1. job' \in [Threads -> JobType]
    BY <1>1, IdleJobType DEF Crash
  <2>2. built' \in BOOLEAN /\ docs' \in SUBSET Doc /\ torn' \in SUBSET Files
    BY <1>1 DEF Crash, CutShort, Emptied, Abandoned, sidecar
  <2> QED  BY <1>1, <2>1, <2>2 DEF Crash, Fault, JobType
<1>2. CASE LoseSidecar
  <2>1. faults' \in Nat
    BY <1>2 DEF LoseSidecar, Fault
  <2>2. built' \in BOOLEAN /\ docs' \in SUBSET Doc
    BY <1>2 DEF LoseSidecar
  <2> QED  BY <1>2, <2>1, <2>2 DEF LoseSidecar
<1>3. CASE Upgrade
  <2>1. faults' \in Nat
    BY <1>3 DEF Upgrade, Fault
  <2>2. meta' \in [compatible: BOOLEAN, count: Nat]
    BY <1>3 DEF Upgrade
  <2> QED  BY <1>3, <2>1, <2>2 DEF Upgrade, sidecar
<1> QED  BY <1>1, <1>2, <1>3

LEMMA TypeNext == TypeOK /\ [Next]_vars => TypeOK'
<1> SUFFICES ASSUME TypeOK, [Next]_vars PROVE TypeOK'
  OBVIOUS
<1>1. CASE Next
  BY <1>1, TypeAct, TypeFault DEF Next
<1>2. CASE UNCHANGED vars
  BY <1>2 DEF TypeOK, vars, sidecar, bounds
<1> QED  BY <1>1, <1>2

\* Every variable of the sidecar's model keeps its type, whatever refreshes,
\* searches and faults do.
THEOREM SidecarTypeCorrect == Spec => []TypeOK
BY TypeInit, TypeNext, PTL DEF Spec

-----------------------------------------------------------------------------
(* One document per path.  The strengthening speaks of the records a       *)
(* thread carries between its steps: they too hold one document per path,  *)
(* and those of a refresh that is about to apply them are among its        *)
(* changed paths, whose documents apply_changes deletes.                   *)

OnePerPath(D) == \A d, e \in D : d.file = e.file => d = e

Sound(j) ==
    /\ OnePerPath(j.records)
    /\ j.pc \in {"compat", "open", "apply"} => \A d \in j.records : d.file \in j.changed

OneDocInv == TypeOK /\ OneDocPerPath /\ \A t \in Threads : Sound(job[t])

LEMMA IdleSound == Sound(IdleJob) /\ Sound([IdleJob EXCEPT !.pc = "hits"])
BY DEF Sound, OnePerPath, IdleJob

LEMMA PassedSound == \A t \in Threads : Sound(Passed(t))
BY IdleSound DEF Passed

\* A step of t keeps the records sound if it gives t sound ones.
LEMMA SoundMove ==
    ASSUME TypeOK, \A t \in Threads : Sound(job[t]),
           NEW t \in Threads, NEW j, job' = [job EXCEPT ![t] = j], Sound(j)
    PROVE  (\A u \in Threads : Sound(job[u]))'
<1> SUFFICES ASSUME NEW u \in Threads PROVE Sound(job'[u])
  BY DEF Sound, OnePerPath
<1>1. job'[u] = IF u = t THEN j ELSE job[u]
  BY DEF TypeOK
<1> QED  BY <1>1

LEMMA OneDocInit == Init => OneDocInv
<1> SUFFICES ASSUME Init PROVE OneDocInv
  OBVIOUS
<1>1. \A t \in Threads : job[t] = IdleJob
  BY DEF Init
<1> QED  BY <1>1, TypeInit, IdleSound DEF Init, OneDocInv, OneDocPerPath

\* The steps of one thread.
LEMMA OneDocAct == ASSUME OneDocInv, NEW t \in Threads, Act(t)
                   PROVE  OneDocPerPath' /\ (\A u \in Threads : Sound(job[u]))'
<1> USE DEF OneDocInv
<1>0. job[t] \in JobType /\ Sound(job[t]) /\ job \in [Threads -> JobType]
  BY DEF TypeOK, JobType
<1>1. CASE Commit(t)
  <2>0. PICK changed \in SUBSET Files :
          \E new \in [changed -> Texts \cup {None}] :
            job' = [job EXCEPT ![t] =
               [IdleJob EXCEPT !.changed = changed,
                    !.records = {d \in Doc : /\ d.file \in changed
                                             /\ new[d.file] = d.text},
                    !.pc = IF changed = {} THEN "count" ELSE "compat"]]
    BY <1>1 DEF Commit
  <2>1. PICK new \in [changed -> Texts \cup {None}] :
            job' = [job EXCEPT ![t] =
               [IdleJob EXCEPT !.changed = changed,
                    !.records = {d \in Doc : /\ d.file \in changed
                                             /\ new[d.file] = d.text},
                    !.pc = IF changed = {} THEN "count" ELSE "compat"]]
    BY <2>0
  <2> DEFINE R == {d \in Doc : d.file \in changed /\ new[d.file] = d.text}
             j == [IdleJob EXCEPT !.changed = changed, !.records = R,
                       !.pc = IF changed = {} THEN "count" ELSE "compat"]
  <2>2. OnePerPath(R) /\ \A d \in R : d.file \in changed
    BY DEF OnePerPath, Doc
  <2>3. j.records = R /\ j.changed = changed
    BY DEF IdleJob
  <2>4. Sound(j)
    BY <2>2, <2>3 DEF Sound
  <2>5. (\A u \in Threads : Sound(job[u]))'
    BY <2>1, <2>4, SoundMove
  <2> QED  BY <1>1, <2>5 DEF Commit, OneDocPerPath, sidecar
<1>2. CASE Search(t)
  <2>1. Sound([IdleJob EXCEPT !.pc = "count", !.search = TRUE])
    BY DEF Sound, OnePerPath, IdleJob
  <2> QED  BY <1>2, <2>1, SoundMove DEF Search, OneDocPerPath, sidecar
<1>3. CASE CountRows(t)
  <2>1. Sound([job[t] EXCEPT !.expected = FileCount, !.pc = "meta"])
    BY <1>0 DEF Sound, OnePerPath, JobType
  <2>2. job' = [job EXCEPT ![t] = [job[t] EXCEPT !.expected = FileCount, !.pc = "meta"]]
    BY <1>3 DEF CountRows
  <2> QED  BY <1>3, <2>1, <2>2, SoundMove DEF CountRows, OneDocPerPath, sidecar
<1>4. CASE CheckMeta(t) \/ CheckCompatible(t) \/ CheckOpens(t) \/ Recount(t)
  <2>1. PICK pc : /\ job' = [job EXCEPT ![t] = [job[t] EXCEPT !.pc = pc]]
                  /\ pc \in {"compat", "open", "apply"}
                       => job[t].pc \in {"compat", "open", "apply"}
    <3>1. \E pc : /\ Goto(t, pc)
                  /\ pc \in {"compat", "open", "apply"}
                       => job[t].pc \in {"compat", "open", "apply"}
      BY <1>4 DEF CheckMeta, CheckCompatible, CheckOpens, Recount
    <3> QED  BY <3>1 DEF Goto
  <2>2. Sound([job[t] EXCEPT !.pc = pc])
    BY <1>0, <2>1 DEF Sound, OnePerPath, JobType
  <2> QED  BY <1>4, <2>1, <2>2, SoundMove
           DEF CheckMeta, CheckCompatible, CheckOpens, Recount, OneDocPerPath, sidecar
<1>5. CASE CheckHealth(t)
  <2>1. Sound([job[t] EXCEPT !.pc = "gather"])
    BY <1>0 DEF Sound, OnePerPath, JobType
  <2>2. job' = [job EXCEPT ![t] = IF Healthy(job[t].expected) THEN Passed(t)
                                  ELSE [job[t] EXCEPT !.pc = "gather"]]
    BY <1>5 DEF CheckHealth
  <2>3. (\A u \in Threads : Sound(job[u]))'
    BY <2>1, <2>2, SoundMove, PassedSound
  <2> QED  BY <1>5, <2>3 DEF CheckHealth, OneDocPerPath, sidecar
<1>6. CASE ApplyChanges(t)
  <2>1. Sound([IdleJob EXCEPT !.count = Cardinality(AppliedDocs(t)), !.pc = "recount"])
    BY DEF Sound, OnePerPath, IdleJob
  <2>2. (\A u \in Threads : Sound(job[u]))'
    BY <1>6, <2>1, SoundMove DEF ApplyChanges
  <2>3. \A d \in job[t].records : d.file \in job[t].changed
    BY <1>0, <1>6 DEF ApplyChanges, Sound
  <2>4. OnePerPath(docs) /\ OnePerPath(job[t].records)
    BY <1>0 DEF OneDocPerPath, OnePerPath, Sound
  <2>5. OnePerPath(AppliedDocs(t))
    BY <2>3, <2>4 DEF AppliedDocs, OnePerPath
  <2> QED  BY <1>6, <2>2, <2>5 DEF ApplyChanges, OneDocPerPath, OnePerPath
<1>7. CASE GatherRecords(t)
  <2>1. OnePerPath(AllRecords(t))
    BY DEF OnePerPath, AllRecords, RowDocs, Doc
  <2> DEFINE j == [job[t] EXCEPT !.records = AllRecords(t), !.pc = "rewrite"]
  <2>2. j.records = AllRecords(t) /\ j.pc = "rewrite"
    BY <1>0 DEF JobType
  <2>3. Sound(j)
    BY <2>1, <2>2 DEF Sound
  <2>4. job' = [job EXCEPT ![t] = j]
    BY <1>7 DEF GatherRecords
  <2> HIDE DEF j
  <2> QED  BY <1>7, <2>3, <2>4, SoundMove DEF GatherRecords, OneDocPerPath, sidecar
<1>8. CASE Rebuild(t)
  <2> DEFINE j == [job[t] EXCEPT !.count = Cardinality(job[t].records), !.pc = "record"]
  <2>1. Sound(j)
    BY <1>0 DEF Sound, OnePerPath, JobType
  <2>2. job' = [job EXCEPT ![t] = j]
    BY <1>8 DEF Rebuild
  <2> HIDE DEF j
  <2>3. (\A u \in Threads : Sound(job[u]))'
    BY <2>1, <2>2, SoundMove
  <2>4. OneDocPerPath'
    BY <1>0, <1>8 DEF Rebuild, OneDocPerPath, Sound, OnePerPath
  <2> QED  BY <2>3, <2>4
<1>9. CASE StoreMeta(t)
  <2>1. Sound([job[t] EXCEPT !.pc = "rerecord"])
    BY <1>0 DEF Sound, OnePerPath, JobType
  <2>2. job' = [job EXCEPT ![t] =
                  IF job[t].pc = "record" /\ ~job[t].search
                  THEN [job[t] EXCEPT !.pc = "rerecord"] ELSE Passed(t)]
    BY <1>9 DEF StoreMeta
  <2>3. (\A u \in Threads : Sound(job[u]))'
    BY <2>1, <2>2, SoundMove, PassedSound
  <2> QED  BY <1>9, <2>3 DEF StoreMeta, OneDocPerPath, sidecar
<1>10. CASE FinishSearch(t)
  BY <1>10, IdleSound, SoundMove DEF FinishSearch, OneDocPerPath, sidecar
<1>11. CASE SyncRaises(t)
  <2>1. (\A u \in Threads : Sound(job[u]))'
    BY <1>11, IdleSound, SoundMove DEF SyncRaises
  <2>2. OneDocPerPath'
    BY <1>11 DEF SyncRaises, CutShort, Emptied, OneDocPerPath, sidecar
  <2> QED  BY <2>1, <2>2
<1> QED
  BY <1>1, <1>2, <1>3, <1>4, <1>5, <1>6, <1>7, <1>8, <1>9, <1>10, <1>11 DEF Act

LEMMA OneDocNext == OneDocInv /\ [Next]_vars => OneDocInv'
<1> SUFFICES ASSUME OneDocInv, [Next]_vars PROVE OneDocInv'
  OBVIOUS
<1>0. TypeOK'
  BY TypeNext DEF OneDocInv
<1>1. CASE \E t \in Threads : Act(t)
  BY <1>0, <1>1, OneDocAct DEF OneDocInv
<1>2. CASE Crash
  <2>1. \A u \in Threads : job'[u] = IdleJob
    BY <1>2 DEF Crash
  <2>2. OneDocPerPath'
    BY <1>2 DEF Crash, CutShort, Emptied, OneDocInv, OneDocPerPath, sidecar
  <2> QED  BY <1>0, <2>1, <2>2, IdleSound DEF OneDocInv
<1>3. CASE LoseSidecar \/ Upgrade \/ UNCHANGED vars
  <2>1. job' = job /\ (docs' = docs \/ docs' = {})
    BY <1>3 DEF LoseSidecar, Upgrade, vars, sidecar
  <2> QED  BY <1>0, <2>1 DEF OneDocInv, OneDocPerPath, Sound, OnePerPath
<1> QED  BY <1>1, <1>2, <1>3 DEF Next

\* However many threads refresh and search, and whatever faults happen, no path
\* has two documents.
THEOREM OneDocument == Spec => []OneDocPerPath
<1>1. OneDocInv => OneDocPerPath
  BY DEF OneDocInv
<1> QED  BY <1>1, OneDocInit, OneDocNext, PTL DEF Spec

-----------------------------------------------------------------------------
(* Confined damage, for one thread t0.  The strengthening says what holds  *)
(* between the checks too: if the index opens, the file of every document  *)
(* is current unless a fault has torn it or t0 is still to update it.      *)

Pending(t) ==
    IF job[t].pc \in {"compat", "open", "apply", "gather", "rewrite"}
    THEN job[t].changed ELSE {}

ConfinedInv(t) ==
    /\ TypeOK
    /\ built => \A f \in Files \ (torn \cup Pending(t)) : Current(f)
    /\ job[t].pc \in {"compat", "open", "apply"} =>
           job[t].records = {d \in RowDocs : d.file \in job[t].changed}
    /\ job[t].pc = "rewrite" => job[t].records = RowDocs
    /\ job[t].pc \in {"apply", "recount", "record", "rerecord", "hits"} => built
    /\ job[t].pc \in {"count", "meta", "health", "recount"} => job[t].changed = {}

\* The conjunct about the documents.
AllCurrent(t) == built => \A f \in Files \ (torn \cup Pending(t)) : Current(f)

LEMMA ConfinedInit == ASSUME NEW t \in Threads, Init PROVE ConfinedInv(t)
<1>1. job[t] = IdleJob /\ ~built
  BY DEF Init
<1>2. job[t].pc = "idle"
  BY <1>1 DEF IdleJob
<1> QED  BY <1>1, <1>2, TypeInit DEF ConfinedInv

\* A file whose row and documents stay as they are is as current as before.
LEMMA CurrentFrame ==
    ASSUME NEW f \in Files, rows'[f] = rows[f], Of(f, docs)' = Of(f, docs)
    PROVE  Current(f)' = Current(f)
<1>1. Of(f, RowDocs)' = Of(f, RowDocs)
  BY DEF Of, RowDocs, Doc
<1> QED  BY <1>1 DEF Current

\* A step that leaves rows, sidecar and history alone, and no file unattended.
LEMMA ConfinedFrame ==
    ASSUME NEW t \in Threads, AllCurrent(t),
           UNCHANGED <<rows, built, docs, torn>>, Pending(t) \subseteq Pending(t)'
    PROVE  AllCurrent(t)'
<1> SUFFICES ASSUME built', NEW f \in Files, f \notin torn', f \notin Pending(t)'
             PROVE  Current(f)'
  BY DEF AllCurrent
<1>1. Current(f)
  BY DEF AllCurrent
<1>2. Of(f, docs)' = Of(f, docs)
  BY DEF Of
<1> QED  BY <1>1, <1>2, CurrentFrame

LEMMA ConfinedAct ==
    ASSUME NEW t \in Threads, ConfinedInv(t), Act(t), TypeOK'
    PROVE  ConfinedInv(t)'
<1>0. job[t] \in JobType /\ job \in [Threads -> JobType] /\ AllCurrent(t)
  BY DEF ConfinedInv, TypeOK, JobType, AllCurrent
<1>1. CASE Commit(t)
  <2>0. PICK changed \in SUBSET Files :
          \E new \in [changed -> Texts \cup {None}] :
            /\ rows' = [f \in Files |-> IF f \in changed THEN new[f] ELSE rows[f]]
            /\ job' = [job EXCEPT ![t] =
                 [IdleJob EXCEPT !.changed = changed,
                      !.records = {d \in Doc : /\ d.file \in changed
                                               /\ new[d.file] = d.text},
                      !.pc = IF changed = {} THEN "count" ELSE "compat"]]
    BY <1>1 DEF Commit
  <2>1. PICK new \in [changed -> Texts \cup {None}] :
            /\ rows' = [f \in Files |-> IF f \in changed THEN new[f] ELSE rows[f]]
            /\ job' = [job EXCEPT ![t] =
                 [IdleJob EXCEPT !.changed = changed,
                      !.records = {d \in Doc : /\ d.file \in changed
                                               /\ new[d.file] = d.text},
                      !.pc = IF changed = {} THEN "count" ELSE "compat"]]
    BY <2>0
  <2>2. /\ job'[t].changed = changed
        /\ job'[t].records = {d \in Doc : d.file \in changed /\ new[d.file] = d.text}
        /\ job'[t].pc = IF changed = {} THEN "count" ELSE "compat"
    BY <1>0, <2>1 DEF IdleJob
  <2>3. job'[t].records = {d \in RowDocs' : d.file \in changed}
    BY <2>1, <2>2 DEF RowDocs, Doc
  <2>4. Pending(t)' = changed
    BY <2>2 DEF Pending
  <2>5. AllCurrent(t)'
    <3> SUFFICES ASSUME built', NEW f \in Files, f \notin torn', f \notin changed
                 PROVE  Current(f)'
      BY <2>4 DEF AllCurrent
    <3>1. Pending(t) = {}
      BY <1>1 DEF Commit, Pending
    <3>2. Current(f)
      BY <1>0, <1>1, <3>1 DEF Commit, AllCurrent, sidecar
    <3>3. rows'[f] = rows[f] /\ Of(f, docs)' = Of(f, docs)
      BY <1>1, <2>1 DEF Commit, sidecar, Of
    <3> QED  BY <3>2, <3>3, CurrentFrame
  <2> QED  BY <2>2, <2>3, <2>5 DEF ConfinedInv, AllCurrent
<1>2. CASE Search(t)
  <2>1. job'[t] = [IdleJob EXCEPT !.pc = "count", !.search = TRUE]
    BY <1>0, <1>2 DEF Search
  <2>2. job'[t].pc = "count" /\ job'[t].changed = {}
    BY <2>1 DEF IdleJob
  <2>3. Pending(t) = {}
    BY <1>2 DEF Search, Pending
  <2>4. AllCurrent(t)'
    BY <1>0, <1>2, <2>3, ConfinedFrame DEF Search, sidecar
  <2> QED  BY <2>2, <2>4 DEF ConfinedInv, AllCurrent
<1>3. CASE CountRows(t) \/ CheckMeta(t)
  <2>1. /\ job'[t].pc \in {"meta", "health", "gather"}
        /\ job'[t].changed = job[t].changed
    BY <1>0, <1>3 DEF CountRows, CheckMeta, Goto, JobType
  <2>2. job[t].changed = {} /\ Pending(t) = {}
    BY <1>3 DEF ConfinedInv, CountRows, CheckMeta, Pending
  <2>3. AllCurrent(t)'
    BY <1>0, <1>3, <2>2, ConfinedFrame DEF CountRows, CheckMeta, sidecar
  <2> QED  BY <2>1, <2>2, <2>3 DEF ConfinedInv, AllCurrent
<1>4. CASE CheckHealth(t)
  <2>1. job[t].changed = {} /\ Pending(t) = {}
    BY <1>4 DEF ConfinedInv, CheckHealth, Pending
  <2>2. AllCurrent(t)'
    BY <1>0, <1>4, <2>1, ConfinedFrame DEF CheckHealth, sidecar
  <2>3. CASE Healthy(job[t].expected)
    <3>1. job'[t] = Passed(t) /\ built'
      BY <1>0, <1>4, <2>3 DEF CheckHealth, Healthy, sidecar
    <3>2. job'[t].pc \in {"idle", "hits"}
      BY <3>1 DEF Passed, IdleJob
    <3> QED  BY <2>2, <3>1, <3>2 DEF ConfinedInv, AllCurrent
  <2>4. CASE ~Healthy(job[t].expected)
    <3>1. job'[t].pc = "gather"
      BY <1>0, <1>4, <2>4 DEF CheckHealth, JobType
    <3> QED  BY <2>2, <3>1 DEF ConfinedInv, AllCurrent
  <2> QED  BY <2>3, <2>4
<1>5. CASE CheckCompatible(t) \/ CheckOpens(t)
  <2>1. /\ job'[t].pc \in {"open", "apply", "gather"}
        /\ job'[t].changed = job[t].changed /\ job'[t].records = job[t].records
        /\ job'[t].pc = "apply" => built
    BY <1>0, <1>5 DEF CheckCompatible, CheckOpens, Goto, JobType
  <2>2. /\ job[t].records = {d \in RowDocs : d.file \in job[t].changed}
        /\ Pending(t) = job[t].changed
    BY <1>5 DEF ConfinedInv, CheckCompatible, CheckOpens, Pending
  <2>3. Pending(t)' = Pending(t)
    BY <2>1, <2>2 DEF Pending
  <2>4. AllCurrent(t)'
    BY <1>0, <1>5, <2>3, ConfinedFrame DEF CheckCompatible, CheckOpens, sidecar
  <2>5. RowDocs' = RowDocs /\ built' = built
    BY <1>5 DEF CheckCompatible, CheckOpens, RowDocs, sidecar
  <2> QED  BY <2>1, <2>2, <2>4, <2>5 DEF ConfinedInv, AllCurrent
<1>6. CASE ApplyChanges(t)
  <2>1. job'[t] = [IdleJob EXCEPT !.count = Cardinality(AppliedDocs(t)), !.pc = "recount"]
    BY <1>0, <1>6 DEF ApplyChanges
  <2>2. job'[t].pc = "recount" /\ job'[t].changed = {} /\ built'
    BY <1>6, <2>1 DEF ApplyChanges, IdleJob
  <2>3. AllCurrent(t)'
    <3> SUFFICES ASSUME NEW f \in Files, f \notin torn' PROVE Current(f)'
      BY DEF AllCurrent
    <3>1. /\ job[t].records = {d \in RowDocs : d.file \in job[t].changed}
          /\ built /\ f \notin torn /\ Pending(t) = job[t].changed
      BY <1>6 DEF ConfinedInv, ApplyChanges, Pending
    <3>2. RowDocs' = RowDocs
      BY <1>6 DEF ApplyChanges, RowDocs
    <3>3. docs' = {d \in docs : d.file \notin job[t].changed} \cup job[t].records
      BY <1>6 DEF ApplyChanges, AppliedDocs
    <3>4. CASE f \in job[t].changed
      <4>1. Of(f, docs') = Of(f, RowDocs)
        BY <3>1, <3>3, <3>4 DEF Of
      <4> QED  BY <3>2, <4>1 DEF Current, Of
    <3>5. CASE f \notin job[t].changed
      <4>1. Of(f, docs) = Of(f, RowDocs)
        BY <1>0, <3>1, <3>5 DEF AllCurrent, Current
      <4>2. Of(f, docs') = Of(f, docs)
        BY <3>1, <3>3, <3>5 DEF Of
      <4> QED  BY <3>2, <4>1, <4>2 DEF Current, Of
    <3> QED  BY <3>4, <3>5
  <2> QED  BY <2>2, <2>3 DEF ConfinedInv, AllCurrent
<1>7. CASE Recount(t)
  <2>1. job[t].changed = {} /\ Pending(t) = {} /\ built
    BY <1>7 DEF ConfinedInv, Recount, Pending
  <2>2. job'[t].pc \in {"rerecord", "gather"} /\ built'
    BY <1>0, <1>7, <2>1 DEF Recount, Goto, JobType, sidecar
  <2>3. AllCurrent(t)'
    BY <1>0, <1>7, <2>1, ConfinedFrame DEF Recount, sidecar
  <2> QED  BY <2>2, <2>3 DEF ConfinedInv, AllCurrent
<1>8. CASE GatherRecords(t)
  <2>1. /\ job'[t].pc = "rewrite" /\ job'[t].changed = job[t].changed
        /\ job'[t].records = RowDocs
    BY <1>0, <1>8 DEF GatherRecords, AllRecords, JobType
  <2>2. RowDocs' = RowDocs
    BY <1>8 DEF GatherRecords, RowDocs
  <2>3. Pending(t)' = Pending(t)
    BY <1>8, <2>1 DEF GatherRecords, Pending
  <2>4. AllCurrent(t)'
    BY <1>0, <1>8, <2>3, ConfinedFrame DEF GatherRecords, sidecar
  <2> QED  BY <2>1, <2>2, <2>4 DEF ConfinedInv, AllCurrent
<1>9. CASE Rebuild(t)
  <2>1. job'[t].pc = "record" /\ built'
    BY <1>0, <1>9 DEF Rebuild, JobType
  <2>2. docs' = RowDocs /\ RowDocs' = RowDocs
    BY <1>9 DEF ConfinedInv, Rebuild, RowDocs
  <2>3. AllCurrent(t)'
    BY <2>2 DEF AllCurrent, Current, Of
  <2> QED  BY <2>1, <2>3 DEF ConfinedInv, AllCurrent
<1>10. CASE StoreMeta(t)
  <2>1. Pending(t) = {} /\ built
    BY <1>10 DEF ConfinedInv, StoreMeta, Pending
  <2>2. \/ job'[t] = [job[t] EXCEPT !.pc = "rerecord"]
        \/ job'[t] = Passed(t)
    BY <1>0, <1>10 DEF StoreMeta
  <2>3. job'[t].pc \in {"rerecord", "idle", "hits"} /\ built'
    BY <1>0, <1>10, <2>1, <2>2 DEF StoreMeta, Passed, IdleJob, JobType, sidecar
  <2>4. AllCurrent(t)'
    BY <1>0, <1>10, <2>1, ConfinedFrame DEF StoreMeta, sidecar
  <2> QED  BY <2>3, <2>4 DEF ConfinedInv, AllCurrent
<1>11. CASE FinishSearch(t)
  <2>1. Pending(t) = {} /\ job'[t] = IdleJob
    BY <1>0, <1>11 DEF FinishSearch, Pending
  <2>2. job'[t].pc = "idle"
    BY <2>1 DEF IdleJob
  <2>3. AllCurrent(t)'
    BY <1>0, <1>11, <2>1, ConfinedFrame DEF FinishSearch, sidecar
  <2> QED  BY <2>2, <2>3 DEF ConfinedInv, AllCurrent
<1>12. CASE SyncRaises(t)
  <2>1. job'[t].pc = "idle"
    BY <1>0, <1>12 DEF SyncRaises, IdleJob
  <2>2. AllCurrent(t)'
    <3> SUFFICES ASSUME built', NEW f \in Files, f \notin torn' PROVE Current(f)'
      BY DEF AllCurrent
    <3>1. UNCHANGED sidecar /\ torn' = torn \cup Pending(t)
      BY <1>12 DEF SyncRaises, CutShort, Emptied, Abandoned, Pending
    <3>2. Current(f)
      BY <1>0, <3>1 DEF AllCurrent, sidecar
    <3>3. rows'[f] = rows[f] /\ Of(f, docs)' = Of(f, docs)
      BY <1>12, <3>1 DEF SyncRaises, sidecar, Of
    <3> QED  BY <3>2, <3>3, CurrentFrame
  <2> QED  BY <2>1, <2>2 DEF ConfinedInv, AllCurrent
<1> QED
  BY <1>1, <1>2, <1>3, <1>4, <1>5, <1>6, <1>7, <1>8, <1>9, <1>10, <1>11, <1>12 DEF Act

LEMMA ConfinedNext ==
    ASSUME NEW t, Threads = {t}, ConfinedInv(t), [Next]_vars PROVE ConfinedInv(t)'
<1>0. TypeOK'
  BY TypeNext DEF ConfinedInv
<1>1. CASE \E u \in Threads : Act(u)
  BY <1>0, <1>1, ConfinedAct
<1>2. CASE Crash
  <2>1. job'[t].pc = "idle"
    BY <1>2 DEF Crash, IdleJob
  <2>2. AllCurrent(t)'
    <3> SUFFICES ASSUME built', NEW f \in Files, f \notin torn' PROVE Current(f)'
      BY DEF AllCurrent
    <3>1. UNCHANGED sidecar /\ torn' = torn \cup Pending(t)
      BY <1>2 DEF Crash, CutShort, Emptied, Abandoned, Pending
    <3>2. Current(f)
      BY <3>1 DEF ConfinedInv, sidecar
    <3>3. rows'[f] = rows[f] /\ Of(f, docs)' = Of(f, docs)
      BY <1>2, <3>1 DEF Crash, sidecar, Of
    <3> QED  BY <3>2, <3>3, CurrentFrame
  <2> QED  BY <1>0, <2>1, <2>2 DEF ConfinedInv, AllCurrent
<1>3. CASE LoseSidecar
  <2>1. job' = job /\ job[t].pc = "idle" /\ ~built'
    BY <1>3 DEF LoseSidecar, Quiet
  <2> QED  BY <1>0, <2>1 DEF ConfinedInv
<1>4. CASE Upgrade \/ UNCHANGED vars
  <2>1. UNCHANGED <<rows, built, docs, torn, job>>
    BY <1>4 DEF Upgrade, vars, sidecar
  <2>2. Pending(t)' = Pending(t) /\ RowDocs' = RowDocs
    BY <2>1 DEF Pending, RowDocs
  <2>3. AllCurrent(t)'
    BY <2>1, <2>2, ConfinedFrame DEF ConfinedInv, AllCurrent
  <2> QED  BY <1>0, <2>1, <2>2, <2>3 DEF ConfinedInv, AllCurrent
<1> QED  BY <1>1, <1>2, <1>3, <1>4 DEF Next

\* When one refresh or search runs at a time, crashes, exceptions, a lost
\* directory and upgrades in any number spoil no more than the files of the
\* refreshes they cut short: a search finds every other file by its present words.
THEOREM SerialDamageIsConfined ==
    ASSUME NEW t, Threads = {t} PROVE Spec => []DamageIsConfined
<1>1. Init => ConfinedInv(t)
  BY ConfinedInit
<1>2. ConfinedInv(t) /\ [Next]_vars => ConfinedInv(t)'
  BY ConfinedNext
<1>3. ConfinedInv(t) => DamageIsConfined
  BY DEF ConfinedInv, DamageIsConfined, Pending
<1> QED  BY <1>1, <1>2, <1>3, PTL DEF Spec

-----------------------------------------------------------------------------
(* The counts the checks compare, for one thread t at a time.  A search    *)
(* gets past the checks in two ways: the sidecar had as many documents as  *)
(* there were file rows, or it was rebuilt from the rows.                  *)

\* There is a document for each file that has a row.
LEMMA RowDocCount == TypeOK => Cardinality(RowDocs) = FileCount
<1> SUFFICES ASSUME TypeOK PROVE Cardinality(RowDocs) = FileCount
  OBVIOUS
<1> DEFINE S == {f \in Files : rows[f] # None}
           g == [f \in S |-> [file |-> f, text |-> rows[f]]]
<1>1. IsFiniteSet(S)
  BY FS_Subset, SidecarAssumption
<1>2. \A f \in S : g[f] \in RowDocs /\ g[f].file = f
  BY DEF RowDocs, Doc, TypeOK
<1>3. \A d \in RowDocs : d.file \in S /\ g[d.file] = d
  BY SidecarAssumption DEF RowDocs, Doc
<1>4. g \in [S -> RowDocs]
  BY <1>2
<1> HIDE DEF g
<1>5. g \in Injection(S, RowDocs)
  BY <1>2, <1>4 DEF Injection, IsInjective
<1>6. g \in Surjection(S, RowDocs)
  BY <1>3, <1>4 DEF Surjection
<1>7. ExistsBijection(S, RowDocs)
  BY <1>5, <1>6 DEF Bijection, ExistsBijection
<1>8. Cardinality(RowDocs) = Cardinality(S)
  BY <1>1, <1>7, FS_Bijection
<1> QED
  BY <1>8 DEF FileCount

LEMMA CountsKept ==
    ASSUME rows' = rows PROVE FileCount' = FileCount /\ RowDocs' = RowDocs
BY DEF FileCount, RowDocs

\* What t knows of the counts between its steps, beside ConfinedInv.
CountsInv(t) ==
    /\ job[t].pc \in {"meta", "health"} => job[t].expected = FileCount
    /\ job[t].pc = "record" => docs = RowDocs
    /\ job[t].pc \in {"compat", "open", "apply", "recount", "rerecord"} => ~job[t].search
    /\ job[t].pc = "hits" => Cardinality(docs) = FileCount

LEMMA CountsInit == ASSUME NEW t \in Threads, Init PROVE CountsInv(t)
BY DEF Init, CountsInv, IdleJob

LEMMA CountsAct ==
    ASSUME NEW t \in Threads, ConfinedInv(t), CountsInv(t), Act(t)
    PROVE  CountsInv(t)'
<1>0. job[t] \in JobType /\ job \in [Threads -> JobType]
  BY DEF ConfinedInv, TypeOK, JobType
<1>1. CASE Commit(t)
  <2>1. PICK changed \in SUBSET Files :
          \E new \in [changed -> Texts \cup {None}] :
            job' = [job EXCEPT ![t] =
                 [IdleJob EXCEPT !.changed = changed,
                      !.records = {d \in Doc : /\ d.file \in changed
                                               /\ new[d.file] = d.text},
                      !.pc = IF changed = {} THEN "count" ELSE "compat"]]
    BY <1>1 DEF Commit
  <2>2. job'[t].pc \in {"count", "compat"} /\ ~job'[t].search
    BY <1>0, <2>1 DEF IdleJob
  <2> QED  BY <2>2 DEF CountsInv
<1>2. CASE Search(t)
  <2>1. job'[t].pc = "count"
    BY <1>0, <1>2 DEF Search, IdleJob
  <2> QED  BY <2>1 DEF CountsInv
<1>3. CASE CountRows(t)
  <2>1. job'[t].pc = "meta" /\ job'[t].expected = FileCount
    BY <1>0, <1>3 DEF CountRows, JobType
  <2> QED  BY <1>3, <2>1, CountsKept DEF CountRows, CountsInv
<1>4. CASE CheckMeta(t)
  <2>1. /\ job'[t].pc \in {"health", "gather"} /\ job'[t].expected = job[t].expected
        /\ job[t].pc = "meta" /\ FileCount' = FileCount
    BY <1>0, <1>4, CountsKept DEF CheckMeta, Goto, JobType
  <2> QED  BY <2>1 DEF CountsInv
<1>5. CASE CheckHealth(t)
  <2>1. job[t].expected = FileCount /\ UNCHANGED <<FileCount, docs>>
    BY <1>5, CountsKept DEF CheckHealth, CountsInv, sidecar
  <2>2. CASE Healthy(job[t].expected)
    <3>1. job'[t] = Passed(t) /\ Cardinality(docs) = FileCount
      BY <1>0, <1>5, <2>1, <2>2 DEF CheckHealth, Healthy
    <3>2. job'[t].pc \in {"idle", "hits"}
      BY <3>1 DEF Passed, IdleJob
    <3> QED  BY <2>1, <3>1, <3>2 DEF CountsInv
  <2>3. CASE ~Healthy(job[t].expected)
    <3>1. job'[t].pc = "gather"
      BY <1>0, <1>5, <2>3 DEF CheckHealth, JobType
    <3> QED  BY <3>1 DEF CountsInv
  <2> QED  BY <2>2, <2>3
<1>6. CASE CheckCompatible(t) \/ CheckOpens(t) \/ Recount(t)
  <2>1. /\ job'[t].pc \in {"open", "apply", "rerecord", "gather"}
        /\ job'[t].search = job[t].search /\ job[t].pc \in {"compat", "open", "recount"}
    BY <1>0, <1>6 DEF CheckCompatible, CheckOpens, Recount, Goto, JobType
  <2> QED  BY <2>1 DEF CountsInv
<1>7. CASE ApplyChanges(t)
  <2>1. job'[t].pc = "recount" /\ ~job'[t].search
    BY <1>0, <1>7 DEF ApplyChanges, IdleJob
  <2> QED  BY <2>1 DEF CountsInv
<1>8. CASE GatherRecords(t)
  <2>1. job'[t].pc = "rewrite"
    BY <1>0, <1>8 DEF GatherRecords, JobType
  <2> QED  BY <2>1 DEF CountsInv
<1>9. CASE Rebuild(t)
  <2>1. job'[t].pc = "record"
    BY <1>0, <1>9 DEF Rebuild, JobType
  <2>2. docs' = RowDocs'
    BY <1>9, CountsKept DEF ConfinedInv, Rebuild
  <2> QED  BY <2>1, <2>2 DEF CountsInv
<1>10. CASE StoreMeta(t)
  <2>1. UNCHANGED <<FileCount, docs>>
    BY <1>10, CountsKept DEF StoreMeta, sidecar
  <2>2. CASE job[t].pc = "record" /\ ~job[t].search
    <3>1. job'[t].pc = "rerecord" /\ ~job'[t].search
      BY <1>0, <1>10, <2>2 DEF StoreMeta, JobType
    <3> QED  BY <3>1 DEF CountsInv
  <2>3. CASE job[t].pc = "record" /\ job[t].search
    <3>1. job'[t].pc = "hits"
      BY <1>0, <1>10, <2>3 DEF StoreMeta, Passed, IdleJob
    <3>2. Cardinality(docs) = FileCount
      BY <2>3, RowDocCount DEF CountsInv, ConfinedInv
    <3> QED  BY <2>1, <3>1, <3>2 DEF CountsInv
  <2>4. CASE job[t].pc = "rerecord"
    <3>1. job'[t].pc = "idle"
      BY <1>0, <1>10, <2>4 DEF StoreMeta, Passed, IdleJob, CountsInv
    <3> QED  BY <3>1 DEF CountsInv
  <2> QED  BY <1>10, <2>2, <2>3, <2>4 DEF StoreMeta
<1>11. CASE FinishSearch(t) \/ SyncRaises(t)
  <2>1. job'[t].pc = "idle"
    BY <1>0, <1>11 DEF FinishSearch, SyncRaises, IdleJob
  <2> QED  BY <2>1 DEF CountsInv
<1> QED
  BY <1>1, <1>2, <1>3, <1>4, <1>5, <1>6, <1>7, <1>8, <1>9, <1>10, <1>11 DEF Act

LEMMA CountsNext ==
    ASSUME NEW t, Threads = {t}, ConfinedInv(t), CountsInv(t), [Next]_vars
    PROVE  CountsInv(t)'
<1>1. CASE \E u \in Threads : Act(u)
  BY <1>1, CountsAct
<1>2. CASE Crash \/ LoseSidecar \/ Upgrade
  <2>1. job'[t].pc = "idle"
    BY <1>2 DEF Crash, LoseSidecar, Upgrade, Quiet, IdleJob
  <2> QED  BY <2>1 DEF CountsInv
<1>3. CASE UNCHANGED vars
  <2>1. UNCHANGED <<rows, docs, job>>
    BY <1>3 DEF vars, sidecar
  <2> QED  BY <2>1, CountsKept DEF CountsInv
<1> QED  BY <1>1, <1>2, <1>3 DEF Next

\* When one refresh or search runs at a time, a search that has passed the checks of
\* _ensure_tantivy_available answers from an index with as many documents as there
\* are file rows: what a fault emptied, lost or left short is never searched.
THEOREM SerialCountsAgree ==
    ASSUME NEW t, Threads = {t} PROVE Spec => []CountsAgree
<1>1. Init => ConfinedInv(t) /\ CountsInv(t)
  BY ConfinedInit, CountsInit
<1>2. ConfinedInv(t) /\ CountsInv(t) /\ [Next]_vars => ConfinedInv(t)' /\ CountsInv(t)'
  BY ConfinedNext, CountsNext
<1>3. ConfinedInv(t) /\ CountsInv(t) => CountsAgree
  BY DEF ConfinedInv, CountsInv, CountsAgree
<1> QED  BY <1>1, <1>2, <1>3, PTL DEF Spec

\* Where no refresh is cut short, one refresh or search at a time is enough for what
\* the README promises: an idle sidecar that would pass every check is current, and
\* a removed directory or another tantivy package makes no difference.  So the run
\* that finds the promise broken needs its two threads.
THEOREM SerialAcceptedIsCurrent ==
    ASSUME NEW t, Threads = {t}, "crash" \notin FaultKinds, "fail" \notin FaultKinds
    PROVE  Spec => []AcceptedIsCurrent
<1> DEFINE Whole == ConfinedInv(t) /\ torn = {}
<1>1. Init => Whole
  BY ConfinedInit DEF Init
<1>2. Whole /\ [Next]_vars => Whole'
  <2> SUFFICES ASSUME Whole, [Next]_vars PROVE Whole'
    OBVIOUS
  <2>1. ConfinedInv(t)'
    BY ConfinedNext
  <2>2. torn' = {}
    BY DEF Next, Act, Commit, Search, CountRows, CheckMeta, CheckHealth, CheckCompatible,
           CheckOpens, ApplyChanges, Recount, GatherRecords, Rebuild, StoreMeta,
           FinishSearch, SyncRaises, Crash, LoseSidecar, Upgrade, Fault, vars
  <2> QED  BY <2>1, <2>2
<1>3. Whole => AcceptedIsCurrent
  <2> SUFFICES ASSUME Whole, Quiet, Healthy(FileCount), NEW f \in Files
               PROVE  Current(f)
    BY DEF AcceptedIsCurrent
  <2>1. built /\ Pending(t) = {}
    BY DEF Healthy, Quiet, Pending
  <2> QED  BY <2>1 DEF ConfinedInv
<1> HIDE DEF Whole
<1> QED  BY <1>1, <1>2, <1>3, PTL DEF Spec

=============================================================================
