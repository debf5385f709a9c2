------------------------ MODULE ResultReferencesProofs ------------------------
(***************************************************************************)
(* Theorems about ResultReferences, for any requests, identifiers and      *)
(* payloads, all lifetimes, and any number of losses, prunes and crashes.  *)
(***************************************************************************)
EXTENDS ResultReferences, TLAPS

USE ReferencesAssumption

CreatePhases == {"create", "opened", "written"}
ResolvePhases == {"resolve", "found", "readable", "answered"}
CreateCalls == [pc : CreatePhases, body : Envelopes]
ResolveCalls ==
    [pc : ResolvePhases, id : RefIds, given : Given, record : Records \cup {None},
     status : Statuses, content : Envelopes \cup {None}]

\* What a record of an identifier says, once it is there.
RecordOf(i, record) ==
    /\ record.sha = made[i]
    /\ record.expires = made[i].expires
    /\ record.kind = Storage(made[i].payload)

MadeSound ==
    \A i \in RefIds :
        /\ made[i] # None => made[i].id = i
        /\ records[i] # None => made[i] # None /\ RecordOf(i, records[i])

\* A body under way is not given out yet, and its file is as far as its call.
CreateSound(c) ==
    c.pc \in CreatePhases =>
        /\ made[c.body.id] = None
        /\ c.pc # "create" => c.body.payload \in Large
        /\ c.pc = "opened" => files[c.body.id] # None \/ c.body.id \in lost
        /\ c.pc = "written" => files[c.body.id] = c.body \/ c.body.id \in lost

\* A record in hand is that of the identifier asked for, even if the project has
\* been pruned since; an answer is genuine or has its cause.
ResolveSound(c) ==
    c.pc \in ResolvePhases =>
        /\ made[c.id] # None
        /\ c.record # None => RecordOf(c.id, c.record)
        /\ c.pc \in {"found", "readable"} => c.record # None
        /\ c.pc = "readable" => c.record.kind = "file"
        /\ c.pc = "answered" =>
            IF c.status = "resolved" THEN c.content = made[c.id]
            ELSE \/ c.id \in lost
                 \/ c.status = "expired" /\ Expired(made[c.id].expires)
                 \/ c.status = "hash_mismatch" /\ c.given = "other hash"

CallsSound == \A r \in Requests : CreateSound(call[r]) /\ ResolveSound(call[r])

BodiesDiffer ==
    \A r, q \in Requests :
        /\ r # q
        /\ call[r].pc \in CreatePhases
        /\ call[q].pc \in CreatePhases
        => call[r].body.id # call[q].body.id

Inv ==
    /\ TypeOK
    /\ MadeSound
    /\ CallsSound
    /\ BodiesDiffer
    /\ GivenOutIsKept

-----------------------------------------------------------------------------
LEMMA CallTypes ==
    /\ Calls = [pc : {"idle"}] \cup CreateCalls \cup ResolveCalls
    /\ Idle \in Calls
BY DEF Calls, CreateCalls, ResolveCalls, CreatePhases, ResolvePhases, Idle

LEMMA CallOf ==
    ASSUME TypeOK, NEW r \in Requests
    PROVE  /\ call[r] \in Calls
           /\ call[r].pc \in CreatePhases => call[r] \in CreateCalls
           /\ call[r].pc \in ResolvePhases => call[r] \in ResolveCalls
<1>1. call[r] \in [pc : {"idle"}] \cup CreateCalls \cup ResolveCalls
  BY CallTypes DEF TypeOK
<1> QED
  BY <1>1, CallTypes DEF CreateCalls, ResolveCalls, CreatePhases, ResolvePhases

LEMMA NoneIsNothing ==
    /\ None \notin Envelopes
    /\ None \notin Records
    /\ Torn \notin Envelopes
    /\ Torn # None
BY DEF None, Torn, Envelopes, Records

LEMMA StorageKinds ==
    ASSUME NEW p
    PROVE  /\ Storage(p) \in {"inline", "file"}
           /\ Storage(p) = "file" <=> p \in Large
BY DEF Storage

\* What a call knows survives any step that keeps what was given out and leaves
\* its file alone or lost.
LEMMA SoundKept ==
    ASSUME TypeOK, NEW c \in Calls, CreateSound(c), ResolveSound(c),
           \A i \in RefIds : made[i] # None => made'[i] = made[i],
           lost \subseteq lost', now' \in Nat, now <= now',
           c.pc \in CreatePhases =>
               /\ made'[c.body.id] = None
               /\ files'[c.body.id] = files[c.body.id] \/ c.body.id \in lost'
    PROVE  CreateSound(c)' /\ ResolveSound(c)'
<1>1. CASE c \in [pc : {"idle"}]
  BY <1>1 DEF CreateSound, ResolveSound, CreatePhases, ResolvePhases
<1>2. CASE c \in CreateCalls
  <2>1. c.pc \in CreatePhases /\ c.pc \notin ResolvePhases
    BY <1>2 DEF CreateCalls, CreatePhases, ResolvePhases
  <2> QED
    BY <2>1 DEF CreateSound, ResolveSound
<1>3. CASE c \in ResolveCalls
  <2>1. c.pc \in ResolvePhases /\ c.pc \notin CreatePhases /\ c.id \in RefIds
    BY <1>3 DEF ResolveCalls, CreatePhases, ResolvePhases
  <2>2. made[c.id] # None /\ made'[c.id] = made[c.id]
    BY <2>1 DEF ResolveSound
  <2>3. made[c.id].expires \in Nat /\ now \in Nat
    BY <2>1, <2>2 DEF TypeOK, Envelopes
  <2>4. Expired(made[c.id].expires) => Expired(made[c.id].expires)'
    BY <2>2, <2>3 DEF Expired
  <2>5. c.record # None => RecordOf(c.id, c.record)'
    BY <2>1, <2>2 DEF ResolveSound, RecordOf
  <2> QED
    BY <2>1, <2>2, <2>4, <2>5 DEF ResolveSound, CreateSound
<1> QED
  BY <1>1, <1>2, <1>3, CallTypes

LEMMA OtherKept ==
    ASSUME Inv, NEW q \in Requests, call'[q] = call[q],
           \A i \in RefIds : made[i] # None => made'[i] = made[i],
           lost \subseteq lost', now' \in Nat, now <= now',
           call[q].pc \in CreatePhases =>
               /\ made'[call[q].body.id] = None
               /\ \/ files'[call[q].body.id] = files[call[q].body.id]
                  \/ call[q].body.id \in lost'
    PROVE  CreateSound(call[q])' /\ ResolveSound(call[q])'
<1>1. call[q] \in Calls
  BY CallOf DEF Inv
<1> PICK d \in Calls : d = call[q]
  BY <1>1
<1>2. CreateSound(d)
  BY DEF Inv, CallsSound, CreateSound
<1>3. ResolveSound(d)
  BY DEF Inv, CallsSound, ResolveSound
<1>4. CreateSound(d)' /\ ResolveSound(d)'
  BY <1>2, <1>3, SoundKept DEF Inv
<1>5. CreateSound(call[q])'
  BY <1>4 DEF CreateSound
<1>6. ResolveSound(call[q])'
  BY <1>4 DEF ResolveSound
<1> QED
  BY <1>5, <1>6

\* A step that changes one call only.
LEMMA CallStep ==
    ASSUME Inv, NEW r \in Requests, NEW c \in Calls,
           CreateSound(c), ResolveSound(c),
           c.pc \in CreatePhases =>
               \A q \in Requests \ {r} :
                   call[q].pc \in CreatePhases => call[q].body.id # c.body.id,
           call' = [call EXCEPT ![r] = c],
           UNCHANGED <<records, files, now, made, lost>>
    PROVE  Inv'
<1> USE DEF Inv
<1>1. TypeOK'
  BY DEF TypeOK
<1>2. MadeSound' /\ GivenOutIsKept'
  BY DEF MadeSound, GivenOutIsKept, RecordOf
<1>3. call'[r] = c /\ \A q \in Requests \ {r} : call'[q] = call[q]
  BY DEF TypeOK
<1>4. CallsSound'
  <2> SUFFICES ASSUME NEW q \in Requests PROVE CreateSound(call[q])' /\ ResolveSound(call[q])'
    BY DEF CallsSound
  <2>1. call'[q] = c \/ call'[q] = call[q]
    BY <1>3
  <2>2. CreateSound(call'[q]) /\ ResolveSound(call'[q])
    BY <2>1 DEF CallsSound
  <2>3. CreateSound(call[q])'
    BY <2>2 DEF CreateSound
  <2>4. ResolveSound(call[q])'
    BY <2>2 DEF ResolveSound, RecordOf, Expired
  <2> QED
    BY <2>3, <2>4
<1>5. BodiesDiffer'
  BY <1>3 DEF BodiesDiffer
<1> QED
  BY <1>1, <1>2, <1>4, <1>5

LEMMA RefInit == Init => Inv
<1> SUFFICES ASSUME Init PROVE Inv
  OBVIOUS
<1>1. TypeOK
  BY CallTypes DEF Init, TypeOK
<1>2. MadeSound /\ GivenOutIsKept
  BY DEF Init, MadeSound, GivenOutIsKept
<1>3. CallsSound /\ BodiesDiffer
  BY DEF Init, CallsSound, BodiesDiffer, CreateSound, ResolveSound, Idle,
         CreatePhases, ResolvePhases
<1> QED
  BY <1>1, <1>2, <1>3 DEF Inv

-----------------------------------------------------------------------------
(* The steps of create.                                                      *)

LEMMA BeginCreateStep ==
    ASSUME Inv, NEW r \in Requests, NEW p \in Payloads, BeginCreate(r, p)
    PROVE  Inv'
<1> PICK i \in Unused :
        call' = [call EXCEPT ![r] =
            [pc |-> "create",
             body |-> [kind |-> "body", id |-> i, payload |-> p,
                       expires |-> now + Lifetime]]]
  BY DEF BeginCreate
<1> DEFINE c == [pc |-> "create",
                 body |-> [kind |-> "body", id |-> i, payload |-> p,
                           expires |-> now + Lifetime]]
<1>1. i \in RefIds /\ made[i] = None /\ \A q \in Requests : i \notin Started(q)
  BY DEF Unused
<1>2. c \in Calls
  <2>1. now + Lifetime \in Nat
    BY DEF Inv, TypeOK
  <2>2. c.body \in Envelopes
    BY <1>1, <2>1 DEF Envelopes
  <2> QED
    BY <2>2, CallTypes DEF CreateCalls, CreatePhases
<1>3. CreateSound(c) /\ ResolveSound(c)
  BY <1>1 DEF CreateSound, ResolveSound, ResolvePhases
<1>4. \A q \in Requests \ {r} :
          call[q].pc \in CreatePhases => call[q].body.id # c.body.id
  BY <1>1 DEF Started, CreatePhases
<1>5. /\ call' = [call EXCEPT ![r] = c]
      /\ UNCHANGED <<records, files, now, made, lost>>
  BY DEF BeginCreate
<1> QED
  BY <1>2, <1>3, <1>4, <1>5, CallStep

\* A step that ends a call.
LEMMA IdleStep ==
    ASSUME Inv, NEW r \in Requests, call' = [call EXCEPT ![r] = Idle],
           UNCHANGED <<records, files, now, made, lost>>
    PROVE  Inv'
<1>1. CreateSound(Idle) /\ ResolveSound(Idle) /\ Idle.pc \notin CreatePhases
  BY DEF CreateSound, ResolveSound, Idle, CreatePhases, ResolvePhases
<1> QED
  BY <1>1, CallTypes, CallStep

\* OpenFile and FillFile: one file changes, that of the call's own body.
LEMMA FileStep ==
    ASSUME Inv, NEW r \in Requests, call[r].pc \in CreatePhases,
           NEW pc \in CreatePhases,
           call' = [call EXCEPT ![r].pc = pc],
           files' \in [RefIds -> Envelopes \cup {None, Torn}],
           \A i \in RefIds \ {call[r].body.id} : files'[i] = files[i],
           pc # "create" => call[r].body.payload \in Large,
           pc = "opened" => files'[call[r].body.id] # None \/ call[r].body.id \in lost,
           pc = "written" => files'[call[r].body.id] = call[r].body
                                \/ call[r].body.id \in lost,
           UNCHANGED <<records, now, made, lost>>
    PROVE  Inv'
<1> USE DEF Inv
<1> DEFINE body == call[r].body
           c == [call[r] EXCEPT !.pc = pc]
<1>1. /\ call[r] \in CreateCalls /\ body \in Envelopes /\ body.id \in RefIds
      /\ made[body.id] = None
  BY CallOf DEF CreateCalls, Envelopes, CallsSound, CreateSound
<1>2. c \in CreateCalls /\ c.pc = pc /\ c.body = body
  BY <1>1 DEF CreateCalls
<1>3. call'[r] = c /\ \A q \in Requests \ {r} : call'[q] = call[q]
  BY DEF TypeOK
<1>4. TypeOK'
  <2>1. call' \in [Requests -> Calls]
    BY <1>2, CallTypes DEF TypeOK
  <2> QED
    BY <2>1 DEF TypeOK
<1>5. MadeSound'
  BY DEF MadeSound, RecordOf
<1>6. GivenOutIsKept'
  BY <1>1 DEF GivenOutIsKept
<1>7. BodiesDiffer'
  BY <1>2, <1>3 DEF BodiesDiffer
<1>8. CallsSound'
  <2> SUFFICES ASSUME NEW q \in Requests
               PROVE  CreateSound(call[q])' /\ ResolveSound(call[q])'
    BY DEF CallsSound
  <2>1. CASE q = r
    <3>1. call'[q].pc = pc /\ call'[q].body = body /\ pc \notin ResolvePhases
      BY <1>2, <1>3, <2>1 DEF CreatePhases, ResolvePhases
    <3>2. CreateSound(call[q])'
      BY <1>1, <3>1 DEF CreateSound
    <3>3. ResolveSound(call[q])'
      BY <3>1 DEF ResolveSound
    <3> QED
      BY <3>2, <3>3
  <2>2. CASE q # r
    <3>1. call'[q] = call[q]
      BY <1>3, <2>2
    <3>2. call[q].pc \in CreatePhases =>
              /\ made[call[q].body.id] = None
              /\ call[q].body.id \in RefIds \ {body.id}
      BY <2>2, CallOf DEF CreateCalls, Envelopes, BodiesDiffer, CallsSound, CreateSound
    <3>3. now' \in Nat /\ now <= now'
      BY DEF TypeOK
    <3> QED
      BY <3>1, <3>2, <3>3, OtherKept
  <2> QED
    BY <2>1, <2>2
<1> QED
  BY <1>4, <1>5, <1>6, <1>7, <1>8

LEMMA OpenFileStep ==
    ASSUME Inv, NEW r \in Requests, OpenFile(r)
    PROVE  Inv'
<1>1. call[r] \in CreateCalls /\ call[r].body.id \in RefIds
  BY CallOf DEF OpenFile, Inv, CreateCalls, Envelopes, CreatePhases
<1>2. /\ files' \in [RefIds -> Envelopes \cup {None, Torn}]
      /\ files'[call[r].body.id] # None
      /\ \A i \in RefIds \ {call[r].body.id} : files'[i] = files[i]
  BY <1>1, NoneIsNothing DEF OpenFile, Inv, TypeOK
<1> QED
  BY <1>2, FileStep DEF OpenFile, CreatePhases

LEMMA FillFileStep ==
    ASSUME Inv, NEW r \in Requests, FillFile(r)
    PROVE  Inv'
<1> DEFINE body == call[r].body
<1>1. /\ call[r] \in CreateCalls /\ body \in Envelopes /\ body.id \in RefIds
      /\ body.payload \in Large
      /\ files[body.id] # None \/ body.id \in lost
  BY CallOf DEF FillFile, Inv, CreateCalls, Envelopes, CreatePhases, CallsSound,
                CreateSound
<1>2. /\ files' \in [RefIds -> Envelopes \cup {None, Torn}]
      /\ \A i \in RefIds \ {body.id} : files'[i] = files[i]
      /\ files'[body.id] = body \/ body.id \in lost
  BY <1>1 DEF FillFile, Inv, TypeOK
<1> QED
  BY <1>1, <1>2, FileStep DEF FillFile, CreatePhases

LEMMA PutRecordStep ==
    ASSUME Inv, NEW r \in Requests, PutRecord(r)
    PROVE  Inv'
<1> USE DEF Inv
<1> DEFINE body == call[r].body
           record == [kind |-> Storage(body.payload), expires |-> body.expires,
                      sha |-> body]
<1>1. call[r].pc \in CreatePhases
  BY DEF PutRecord, ReadyForRecord, CreatePhases
<1>2. /\ call[r] \in CreateCalls /\ body \in Envelopes /\ body.id \in RefIds
      /\ CreateSound(call[r]) /\ made[body.id] = None
  BY <1>1, CallOf DEF CreateCalls, Envelopes, CallsSound, CreateSound
<1>3. /\ records' = [records EXCEPT ![body.id] = record]
      /\ made' = [made EXCEPT ![body.id] = body]
      /\ call' = [call EXCEPT ![r] = Idle]
      /\ UNCHANGED <<files, now, lost>>
  BY DEF PutRecord
<1>4. call'[r] = Idle /\ \A q \in Requests \ {r} : call'[q] = call[q]
  BY <1>3 DEF TypeOK
<1>5. /\ records'[body.id] = record /\ made'[body.id] = body
      /\ \A i \in RefIds \ {body.id} : records'[i] = records[i] /\ made'[i] = made[i]
  BY <1>2, <1>3 DEF TypeOK
<1>6. record \in Records /\ record # None
  BY <1>2, StorageKinds DEF Records, Envelopes, None
<1>7. TypeOK'
  <2>1. call' \in [Requests -> Calls]
    BY <1>3, CallTypes DEF TypeOK
  <2>2. /\ records' \in [RefIds -> Records \cup {None}]
        /\ made' \in [RefIds -> Envelopes \cup {None}]
    BY <1>2, <1>3, <1>6 DEF TypeOK
  <2>3. record.kind = "inline" => record.sha.payload \notin Large
    BY StorageKinds
  <2> QED
    BY <1>3, <1>5, <2>1, <2>2, <2>3 DEF TypeOK
<1>8. MadeSound'
  <2> SUFFICES ASSUME NEW i \in RefIds
               PROVE  /\ made'[i] # None => made'[i].id = i
                      /\ records'[i] # None =>
                            made'[i] # None /\ RecordOf(i, records[i])'
    BY DEF MadeSound
  <2>1. CASE i = body.id
    BY <1>2, <1>5, <2>1, NoneIsNothing DEF RecordOf
  <2>2. CASE i # body.id
    BY <1>5, <2>2 DEF MadeSound, RecordOf
  <2> QED
    BY <2>1, <2>2
<1>9. CallsSound'
  <2> SUFFICES ASSUME NEW q \in Requests
               PROVE  CreateSound(call[q])' /\ ResolveSound(call[q])'
    BY DEF CallsSound
  <2>1. CASE q = r
    <3>1. call'[q].pc \notin CreatePhases /\ call'[q].pc \notin ResolvePhases
      BY <1>4, <2>1 DEF Idle, CreatePhases, ResolvePhases
    <3>2. CreateSound(call[q])'
      BY <3>1 DEF CreateSound
    <3>3. ResolveSound(call[q])'
      BY <3>1 DEF ResolveSound
    <3> QED
      BY <3>2, <3>3
  <2>2. CASE q # r
    <3>1. call'[q] = call[q]
      BY <1>4, <2>2
    <3>2. call[q].pc \in CreatePhases => made'[call[q].body.id] = None
      BY <1>1, <1>5, <2>2, CallOf
      DEF CreateCalls, Envelopes, BodiesDiffer, CallsSound, CreateSound
    <3>3. now' \in Nat /\ now <= now'
      BY <1>3 DEF TypeOK
    <3>4. \A i \in RefIds : made[i] # None => made'[i] = made[i]
      BY <1>2, <1>5
    <3> QED
      BY <1>3, <3>1, <3>2, <3>3, <3>4, OtherKept
  <2> QED
    BY <2>1, <2>2
<1>10. BodiesDiffer'
  BY <1>4 DEF BodiesDiffer, Idle, CreatePhases
<1>11. GivenOutIsKept'
  <2> SUFFICES ASSUME NEW i \in RefIds \ lost, made'[i] # None
               PROVE  /\ records'[i] # None /\ records'[i].sha = made'[i]
                      /\ records'[i].kind = "file" => files[i] = made'[i]
    BY <1>3 DEF GivenOutIsKept
  <2>1. CASE i = body.id
    <3>1. record.kind = "file" => call[r].pc = "written"
      BY StorageKinds DEF PutRecord, ReadyForRecord
    <3> QED
      BY <1>1, <1>2, <1>5, <1>6, <2>1, <3>1 DEF CreateSound
  <2>2. CASE i # body.id
    BY <1>5, <2>2 DEF GivenOutIsKept
  <2> QED
    BY <2>1, <2>2
<1> QED
  BY <1>7, <1>8, <1>9, <1>10, <1>11

-----------------------------------------------------------------------------
(* The steps of resolve.                                                     *)

LEMMA BeginResolveStep ==
    ASSUME Inv, NEW r \in Requests, NEW i \in RefIds, NEW given \in Given,
           BeginResolve(r, i, given)
    PROVE  Inv'
<1> DEFINE late == given = "reference" /\ Expired(made[i].expires)
           c == [pc |-> IF late THEN "answered" ELSE "resolve",
                 id |-> i, given |-> given, record |-> None,
                 status |-> IF late THEN "expired" ELSE "", content |-> None]
<1>1. /\ made[i] # None /\ call' = [call EXCEPT ![r] = c]
      /\ UNCHANGED <<records, files, now, made, lost>>
  BY DEF BeginResolve
<1>2. c \in ResolveCalls
  BY DEF ResolveCalls, ResolvePhases, Statuses
<1>3. CreateSound(c) /\ c.pc \notin CreatePhases
  BY DEF CreateSound, CreatePhases
<1>4. ResolveSound(c)
  BY <1>1 DEF ResolveSound
<1> HIDE DEF c
<1> QED
  BY <1>1, <1>2, <1>3, <1>4, CallTypes, CallStep

\* A resolving call goes on, with what it has found.
LEMMA LookStep ==
    ASSUME Inv, NEW r \in Requests, call[r].pc \in ResolvePhases,
           NEW pc \in {"found", "readable"}, NEW record \in Records,
           RecordOf(call[r].id, record),
           pc = "readable" => record.kind = "file",
           call' = [call EXCEPT ![r].pc = pc, ![r].record = record],
           UNCHANGED <<records, files, now, made, lost>>
    PROVE  Inv'
<1> DEFINE c == [call[r] EXCEPT !.pc = pc, !.record = record]
<1>1. call[r] \in ResolveCalls /\ made[call[r].id] # None
  BY CallOf DEF Inv, CallsSound, ResolveSound
<1>2. /\ c \in ResolveCalls /\ c.pc = pc /\ c.record = record
      /\ c.id = call[r].id
  BY <1>1 DEF ResolveCalls, ResolvePhases
<1>3. call' = [call EXCEPT ![r] = c]
  BY DEF Inv, TypeOK
<1> HIDE DEF c
<1>4. CreateSound(c) /\ c.pc \notin CreatePhases
  BY <1>2 DEF CreateSound, CreatePhases
<1>5. ResolveSound(c)
  BY <1>1, <1>2, NoneIsNothing DEF ResolveSound
<1> QED
  BY <1>2, <1>3, <1>4, <1>5, CallTypes, CallStep

\* A resolving call is answered, with the genuine body or for a cause.
LEMMA AnswerStep ==
    ASSUME Inv, NEW r \in Requests, call[r].pc \in ResolvePhases,
           NEW status \in Statuses, NEW content \in Envelopes \cup {None},
           Answer(r, status, content),
           IF status = "resolved" THEN content = made[call[r].id]
           ELSE \/ call[r].id \in lost
                \/ status = "expired" /\ Expired(made[call[r].id].expires)
                \/ status = "hash_mismatch" /\ call[r].given = "other hash",
           UNCHANGED <<records, files, now, made, lost>>
    PROVE  Inv'
<1> DEFINE c == [call[r] EXCEPT !.pc = "answered", !.status = status,
                                !.content = content]
<1>1. call[r] \in ResolveCalls /\ ResolveSound(call[r])
  BY CallOf DEF Inv, CallsSound
<1>2. /\ c \in ResolveCalls /\ c.pc = "answered" /\ c.record = call[r].record
      /\ c.status = status /\ c.content = content
      /\ c.id = call[r].id /\ c.given = call[r].given
  BY <1>1 DEF ResolveCalls, ResolvePhases
<1>3. call' = [call EXCEPT ![r] = c]
  BY DEF Inv, TypeOK, Answer
<1> HIDE DEF c
<1>4. CreateSound(c) /\ c.pc \notin CreatePhases
  BY <1>2 DEF CreateSound, CreatePhases
<1>5. ResolveSound(c)
  BY <1>1, <1>2 DEF ResolveSound
<1> QED
  BY <1>2, <1>3, <1>4, <1>5, CallTypes, CallStep

\* What is read of a file, or kept in a record, is answered for.
LEMMA VerifiedStep ==
    ASSUME Inv, NEW r \in Requests, call[r].pc \in {"found", "readable"},
           NEW text \in Envelopes \cup {Torn}, Verified(r, text),
           text = made[call[r].id] \/ call[r].id \in lost,
           UNCHANGED <<records, files, now, made, lost>>
    PROVE  Inv'
<1> DEFINE i == call[r].id
           verdict == Verdict(text, call[r])
<1>1. /\ call[r] \in ResolveCalls /\ made[i] # None /\ RecordOf(i, call[r].record)
      /\ i \in RefIds /\ call[r].pc \in ResolvePhases
  BY CallOf DEF Inv, CallsSound, ResolveSound, ResolveCalls, ResolvePhases
<1>2. verdict = "resolved" => text = made[i]
  BY <1>1 DEF Verdict, DigestMatches, RecordOf
<1>3. verdict # "resolved" =>
          \/ i \in lost
          \/ verdict = "expired" /\ Expired(made[i].expires)
          \/ verdict = "hash_mismatch" /\ call[r].given = "other hash"
  <2>1. CASE i \in lost
    BY <2>1
  <2>2. CASE i \notin lost
    <3>1. text = made[i] /\ text = call[r].record.sha /\ text.id = i
      BY <1>1, <2>2 DEF RecordOf, Inv, MadeSound
    <3> QED
      BY <3>1 DEF Verdict, DigestMatches
  <2> QED
    BY <2>1, <2>2
<1>4. verdict \in Statuses
  BY DEF Verdict, Statuses
<1>5. made[i] \in Envelopes
  BY <1>1 DEF Inv, TypeOK
<1>6. Answer(r, verdict, IF verdict = "resolved" THEN text ELSE None)
  BY DEF Verified
<1> HIDE DEF verdict
<1>7. CASE verdict = "resolved"
  BY <1>1, <1>2, <1>4, <1>5, <1>6, <1>7, AnswerStep
<1>8. CASE verdict # "resolved"
  BY <1>1, <1>3, <1>4, <1>6, <1>8, AnswerStep
<1> QED
  BY <1>7, <1>8

LEMMA ReadRecordStep ==
    ASSUME Inv, NEW r \in Requests, ReadRecord(r)
    PROVE  Inv'
<1> DEFINE i == call[r].id
           record == records[i]
<1>1. /\ call[r] \in ResolveCalls /\ made[i] # None /\ i \in RefIds
      /\ call[r].pc \in ResolvePhases
  BY CallOf DEF ReadRecord, Inv, CallsSound, ResolveSound, ResolveCalls,
                ResolvePhases
<1>2. UNCHANGED <<records, files, now, made, lost>>
  BY DEF ReadRecord
<1>3. record # None => RecordOf(i, record) /\ record \in Records
  BY <1>1 DEF Inv, TypeOK, MadeSound
<1>4. CASE record = None /\ Answer(r, "missing", None)
  <2>1. i \in lost
    BY <1>1, <1>4 DEF Inv, GivenOutIsKept
  <2> QED
    BY <1>1, <1>2, <1>4, <2>1, AnswerStep DEF Statuses
<1>5. CASE record # None /\ Expired(record.expires) /\ Answer(r, "expired", None)
  <2>1. Expired(made[i].expires)
    BY <1>3, <1>5 DEF RecordOf
  <2> QED
    BY <1>1, <1>2, <1>5, <2>1, AnswerStep DEF Statuses
<1>6. CASE record # None /\ call' = [call EXCEPT ![r].pc = "found", ![r].record = record]
  BY <1>1, <1>2, <1>3, <1>6, LookStep
<1> QED
  BY <1>4, <1>5, <1>6 DEF ReadRecord

LEMMA LookForFileStep ==
    ASSUME Inv, NEW r \in Requests, LookForFile(r)
    PROVE  Inv'
<1> DEFINE i == call[r].id
           record == call[r].record
<1>1. /\ call[r] \in ResolveCalls /\ made[i] # None /\ i \in RefIds
      /\ call[r].pc \in ResolvePhases
      /\ record \in Records /\ RecordOf(i, record) /\ record.kind = "file"
  BY CallOf DEF LookForFile, Inv, CallsSound, ResolveSound, ResolveCalls,
                ResolvePhases
<1>2. UNCHANGED <<records, files, now, made, lost>>
  BY DEF LookForFile
<1>3. CASE files[i] = None /\ Answer(r, "stale", None)
  <2>1. i \in lost
    BY <1>1, <1>3 DEF Inv, GivenOutIsKept, MadeSound, RecordOf
  <2> QED
    BY <1>1, <1>2, <1>3, <2>1, AnswerStep DEF Statuses
<1>4. CASE files[i] # None /\ call' = [call EXCEPT ![r].pc = "readable"]
  <2>1. call' = [call EXCEPT ![r].pc = "readable", ![r].record = record]
    BY <1>1, <1>4 DEF Inv, TypeOK, ResolveCalls
  <2> QED
    BY <1>1, <1>2, <2>1, LookStep
<1> QED
  BY <1>3, <1>4 DEF LookForFile

LEMMA ReadBodyStep ==
    ASSUME Inv, NEW r \in Requests, ReadInline(r) \/ ReadFile(r)
    PROVE  Inv'
<1> DEFINE i == call[r].id
           record == call[r].record
<1>1. /\ call[r] \in ResolveCalls /\ made[i] # None /\ i \in RefIds
      /\ call[r].pc \in {"found", "readable"} /\ call[r].pc \in ResolvePhases
      /\ record \in Records /\ RecordOf(i, record)
      /\ call[r].pc = "readable" => record.kind = "file"
  BY CallOf DEF ReadInline, ReadFile, Inv, CallsSound, ResolveSound, ResolveCalls,
                ResolvePhases
<1>2. UNCHANGED <<records, files, now, made, lost>>
  BY DEF ReadInline, ReadFile
<1>3. CASE ReadInline(r)
  <2>1. record.sha \in Envelopes /\ record.sha = made[i]
    BY <1>1 DEF Records, RecordOf
  <2> QED
    BY <1>1, <1>2, <1>3, <2>1, VerifiedStep DEF ReadInline
<1>4. CASE ReadFile(r)
  <2>1. i \in lost \/ files[i] = made[i]
    BY <1>1, <1>4 DEF ReadFile, Inv, GivenOutIsKept, MadeSound, RecordOf
  <2>2. CASE files[i] # None /\ Verified(r, files[i])
    <3>1. files[i] \in Envelopes \cup {Torn}
      BY <1>1, <2>2 DEF Inv, TypeOK
    <3> QED
      BY <1>1, <1>2, <2>1, <2>2, <3>1, VerifiedStep
  <2>3. CASE files[i] = None /\ Answer(r, "raised", None)
    BY <1>1, <1>2, <2>1, <2>3, AnswerStep DEF Statuses
  <2> QED
    BY <1>4, <2>2, <2>3 DEF ReadFile
<1> QED
  BY <1>3, <1>4

-----------------------------------------------------------------------------
(* The surroundings.                                                         *)

\* A step that leaves the calls, and what they have given out, alone: what it
\* takes away is counted as lost.
LEMMA WorldStep ==
    ASSUME Inv, TypeOK', MadeSound', GivenOutIsKept',
           UNCHANGED <<call, made>>, lost \subseteq lost', now <= now',
           \A i \in RefIds :
               files'[i] = files[i] \/ i \in lost'
                   \/ \A q \in Requests : i \notin Started(q)
    PROVE  Inv'
<1>1. BodiesDiffer'
  BY DEF Inv, BodiesDiffer
<1>2. CallsSound'
  <2> SUFFICES ASSUME NEW q \in Requests
               PROVE  CreateSound(call[q])' /\ ResolveSound(call[q])'
    BY DEF CallsSound
  <2>1. call[q].pc \in CreatePhases =>
            /\ made'[call[q].body.id] = None
            /\ \/ files'[call[q].body.id] = files[call[q].body.id]
               \/ call[q].body.id \in lost'
    <3> SUFFICES ASSUME call[q].pc \in CreatePhases
                 PROVE  /\ made'[call[q].body.id] = None
                        /\ \/ files'[call[q].body.id] = files[call[q].body.id]
                           \/ call[q].body.id \in lost'
      OBVIOUS
    <3>1. call[q] \in CreateCalls /\ call[q].body.id \in RefIds
      BY CallOf DEF Inv, CreateCalls, Envelopes
    <3>2. call[q].body.id \in Started(q)
      BY DEF Started, CreatePhases
    <3>3. made[call[q].body.id] = None
      BY DEF Inv, CallsSound, CreateSound
    <3> QED
      BY <3>1, <3>2, <3>3
  <2>2. now' \in Nat
    BY DEF TypeOK
  <2> QED
    BY <2>1, <2>2, OtherKept
<1> QED
  BY <1>1, <1>2 DEF Inv

LEMMA TickStep ==
    ASSUME Inv, Tick
    PROVE  Inv'
<1>1. TypeOK' /\ now <= now'
  BY DEF Inv, Tick, TypeOK
<1>2. MadeSound' /\ GivenOutIsKept'
  BY DEF Inv, Tick, MadeSound, GivenOutIsKept, RecordOf
<1> QED
  BY <1>1, <1>2, WorldStep DEF Tick

LEMMA HarmStep ==
    ASSUME Inv, NEW i \in RefIds, Harm(i)
    PROVE  Inv'
<1>1. /\ files' \in [RefIds -> Envelopes \cup {None, Torn}]
      /\ \A j \in RefIds \ {i} : files'[j] = files[j]
  <2>1. CASE files' = [files EXCEPT ![i] = None] \/ files' = [files EXCEPT ![i] = Torn]
    BY <2>1 DEF Inv, TypeOK
  <2>2. CASE \E payload \in Payloads \ {files[i].payload} :
                 files' = [files EXCEPT ![i].payload = payload]
    <3> PICK payload \in Payloads : files' = [files EXCEPT ![i].payload = payload]
      BY <2>2
    <3>1. [files[i] EXCEPT !.payload = payload] \in Envelopes
      BY DEF Harm, Envelopes
    <3> QED
      BY <3>1 DEF Inv, TypeOK
  <2> QED
    BY <2>1, <2>2 DEF Harm
<1>2. lost' = lost \cup {i} /\ UNCHANGED <<records, now, call, made>>
  BY DEF Harm
<1>3. TypeOK' /\ now <= now'
  BY <1>1, <1>2 DEF Inv, TypeOK
<1>4. MadeSound'
  BY <1>2 DEF Inv, MadeSound, RecordOf
<1>5. GivenOutIsKept'
  BY <1>1, <1>2 DEF Inv, GivenOutIsKept
<1> QED
  BY <1>1, <1>2, <1>3, <1>4, <1>5, WorldStep

LEMMA PruneStep ==
    ASSUME Inv, Prune
    PROVE  Inv'
<1>1. /\ records' = [i \in RefIds |-> None] /\ files' = [i \in RefIds |-> None]
      /\ lost' = lost \cup {i \in RefIds : made[i] # None}
                      \cup UNION {Started(r) : r \in Requests}
      /\ UNCHANGED <<now, call, made>>
  BY DEF Prune
<1>2. \A r \in Requests : Started(r) \subseteq RefIds
  BY CallOf DEF Inv, Started, CreateCalls, CreatePhases, Envelopes
<1>3. TypeOK' /\ now <= now'
  BY <1>1, <1>2 DEF Inv, TypeOK
<1>4. MadeSound' /\ GivenOutIsKept'
  BY <1>1 DEF Inv, MadeSound, GivenOutIsKept
<1>5. \A i \in RefIds : i \in lost' \/ \A q \in Requests : i \notin Started(q)
  BY <1>1
<1>6. lost \subseteq lost' /\ UNCHANGED <<call, made>>
  BY <1>1
<1> QED
  BY <1>3, <1>4, <1>5, <1>6, WorldStep

LEMMA CrashStep ==
    ASSUME Inv, Crash
    PROVE  Inv'
<1>1. call' = [r \in Requests |-> Idle] /\ UNCHANGED <<records, files, now, made, lost>>
  BY DEF Crash
<1>2. TypeOK'
  BY <1>1, CallTypes DEF Inv, TypeOK
<1>3. MadeSound' /\ GivenOutIsKept'
  BY <1>1 DEF Inv, MadeSound, GivenOutIsKept, RecordOf
<1>4. \A r \in Requests :
          call'[r].pc \notin CreatePhases /\ call'[r].pc \notin ResolvePhases
  BY <1>1 DEF Idle, CreatePhases, ResolvePhases
<1>5. CallsSound'
  BY <1>4 DEF CallsSound, CreateSound, ResolveSound
<1>6. BodiesDiffer'
  BY <1>4 DEF BodiesDiffer
<1> QED
  BY <1>2, <1>3, <1>5, <1>6 DEF Inv

-----------------------------------------------------------------------------
LEMMA RefNext == Inv /\ [Next]_vars => Inv'
<1> SUFFICES ASSUME Inv, [Next]_vars PROVE Inv'
  OBVIOUS
<1>1. CASE \E r \in Requests, payload \in Payloads : BeginCreate(r, payload)
  BY <1>1, BeginCreateStep
<1>2. CASE \E r \in Requests :
               OpenFile(r) \/ OpenRaises(r) \/ FillFile(r) \/ PutRecord(r)
  BY <1>2, OpenFileStep, IdleStep, FillFileStep, PutRecordStep DEF OpenRaises
<1>3. CASE \E r \in Requests, i \in RefIds, given \in Given : BeginResolve(r, i, given)
  BY <1>3, BeginResolveStep
<1>4. CASE \E r \in Requests :
               ReadRecord(r) \/ LookForFile(r) \/ ReadInline(r) \/ ReadFile(r)
  BY <1>4, ReadRecordStep, LookForFileStep, ReadBodyStep
<1>5. CASE Tick \/ (\E i \in RefIds : Harm(i)) \/ Prune \/ Crash
  BY <1>5, TickStep, HarmStep, PruneStep, CrashStep
<1>6. CASE UNCHANGED vars
  <2>1. TypeOK' /\ MadeSound' /\ GivenOutIsKept' /\ now <= now'
    BY <1>6 DEF vars, Inv, TypeOK, MadeSound, GivenOutIsKept, RecordOf
  <2> QED
    BY <1>6, <2>1, WorldStep DEF vars
<1> QED
  BY <1>1, <1>2, <1>3, <1>4, <1>5, <1>6 DEF Next

LEMMA RefInvariant == Spec => []Inv
BY RefInit, RefNext, PTL DEF Spec

\* Every variable holds a value of its type, and no bulky body is ever in a row
\* of the store, for any sizes and lifetimes.
THEOREM ReferencesTypeCorrect == Spec => []TypeOK
<1>1. Inv => TypeOK
  BY DEF Inv
<1> QED
  BY <1>1, RefInvariant, PTL

\* A reference that was given out keeps its record and its body, whatever calls
\* overlap or are cut short, until its file is harmed or its project is pruned.
THEOREM NothingGivenOutIsLost == Spec => []GivenOutIsKept
<1>1. Inv => GivenOutIsKept
  BY DEF Inv
<1> QED
  BY <1>1, RefInvariant, PTL

\* resolve hands out the very payload that was put away under the identifier.
THEOREM ResolvesGenuinely == Spec => []ResolvedIsGenuine
<1>1. Inv => ResolvedIsGenuine
  BY DEF Inv, CallsSound, ResolveSound, ResolvedIsGenuine, ResolvePhases
<1> QED
  BY <1>1, RefInvariant, PTL

\* resolve refuses only what was harmed or pruned, has expired, or is not what
\* the caller expected.
THEOREM RefusesForCause == Spec => []RefusalHasCause
<1>1. Inv => RefusalHasCause
  BY DEF Inv, CallsSound, ResolveSound, RefusalHasCause, ResolvePhases
<1> QED
  BY <1>1, RefInvariant, PTL
=============================================================================
