-------------------------- MODULE ResultReferences --------------------------
(* Result references (references.py): a payload too bulky for an answer is   *)
(* put away under an identifier, with a digest and an expiry, and resolved   *)
(* by a later call.  A small body is kept in its record; a large one in a    *)
(* file that is written before the record.  Digests are collision free, so a *)
(* body stands for its own digest; the redaction of payloads is left out.    *)
EXTENDS Naturals

CONSTANTS
    Requests,       \* calls at work
    RefIds,         \* identifiers: uuid4 never repeats one
    Payloads,
    Large,          \* the payloads over INLINE_REFERENCE_MAX_BYTES
    Lifetime,       \* ttl_hours
    MaxTime         \* bound of the clock

ASSUME ReferencesAssumption ==
    /\ Large \subseteq Payloads
    /\ Lifetime \in Nat /\ MaxTime \in Nat

VARIABLES
    records,        \* the rows "reference:<id>"
    files,          \* the directory references/
    now,            \* the clock
    call,           \* what each request is doing
    made,           \* the envelope of each identifier given out so far
    lost            \* identifiers whose file was harmed, or whose project was pruned

vars == <<records, files, now, call, made, lost>>

None == [kind |-> "none"]

\* The envelope: what the digest is taken of.
Envelopes == [kind : {"body"}, id : RefIds, payload : Payloads, expires : Nat]
Torn == [kind |-> "torn"]               \* a file cut short, or changed by hand

\* Where a body is kept.  AnyInline is the slip of keeping it in the record
\* whatever its size.
AnyInline(payload) == "inline"
Storage(payload) == IF payload \in Large THEN "file" ELSE "inline"

\* The record of a body in a file keeps the digest, which stands for the body.
Records == [kind : {"inline", "file"}, expires : Nat, sha : Envelopes]

\* What the caller of resolve gives: the identifier, the whole reference with
\* its expiry and digest, or an expected_hash that is another body's.
Given == {"id", "reference", "other hash"}

\* "raised" is a FileNotFoundError that reaches the caller.
Statuses == {"", "missing", "expired", "stale", "invalid_reference",
             "hash_mismatch", "resolved", "raised"}

Idle == [pc |-> "idle"]
Calls ==
    [pc : {"idle"}]
    \cup [pc : {"create", "opened", "written"}, body : Envelopes]
    \cup [pc : {"resolve", "found", "readable", "answered"}, id : RefIds, given : Given,
          record : Records \cup {None}, status : Statuses,
          content : Envelopes \cup {None}]

\* Every variable holds a value of its type, and no bulky body is in a row.
TypeOK ==
    /\ records \in [RefIds -> Records \cup {None}]
    /\ \A i \in RefIds : records[i] # None /\ records[i].kind = "inline" =>
                            records[i].sha.payload \notin Large
    /\ files \in [RefIds -> Envelopes \cup {None, Torn}]
    /\ now \in 0..MaxTime
    /\ call \in [Requests -> Calls]
    /\ made \in [RefIds -> Envelopes \cup {None}]
    /\ lost \subseteq RefIds

Init ==
    /\ records = [i \in RefIds |-> None]
    /\ files = [i \in RefIds |-> None]
    /\ now = 0
    /\ call = [r \in Requests |-> Idle]
    /\ made = [i \in RefIds |-> None]
    /\ lost = {}

Expired(expires) == expires < now

-----------------------------------------------------------------------------
(* create                                                                    *)

Started(r) ==
    IF call[r].pc \in {"create", "opened", "written"} THEN {call[r].body.id} ELSE {}

Unused == {i \in RefIds : made[i] = None /\ files[i] = None
                            /\ \A r \in Requests : i \notin Started(r)}

BeginCreate(r, payload) ==
    /\ call[r].pc \in {"idle", "answered"}
    /\ \E i \in Unused :
        call' = [call EXCEPT ![r] =
            [pc |-> "create",
             body |-> [kind |-> "body", id |-> i, payload |-> payload,
                       expires |-> now + Lifetime]]]
    /\ UNCHANGED <<records, files, now, made, lost>>

\* RecordFirst is the slip of storing the record before the file it names.
RecordFirst(r) == call[r].pc \in {"create", "opened", "written"}
ReadyForRecord(r) ==
    \/ call[r].pc = "written"
    \/ call[r].pc = "create" /\ call[r].body.payload \notin Large

\* write_text opens the file empty and then fills it.
OpenFile(r) ==
    /\ call[r].pc = "create"
    /\ call[r].body.payload \in Large
    /\ files' = [files EXCEPT ![call[r].body.id] = Torn]
    /\ call' = [call EXCEPT ![r].pc = "opened"]
    /\ UNCHANGED <<records, now, made, lost>>

\* A prune has removed the directory; another call may have made it again.
OpenRaises(r) ==
    /\ call[r].pc = "create"
    /\ call[r].body.payload \in Large
    /\ call[r].body.id \in lost
    /\ call' = [call EXCEPT ![r] = Idle]
    /\ UNCHANGED <<records, files, now, made, lost>>

\* A file that was removed while open is filled where no name leads.
FillFile(r) ==
    /\ call[r].pc = "opened"
    /\ files' = IF files[call[r].body.id] = None THEN files
                ELSE [files EXCEPT ![call[r].body.id] = call[r].body]
    /\ call' = [call EXCEPT ![r].pc = "written"]
    /\ UNCHANGED <<records, now, made, lost>>

PutRecord(r) ==
    /\ ReadyForRecord(r)
    /\ LET body == call[r].body IN
        /\ records' = [records EXCEPT ![body.id] =
               [kind |-> Storage(body.payload),
                expires |-> body.expires, sha |-> body]]
        /\ made' = [made EXCEPT ![body.id] = body]
    /\ call' = [call EXCEPT ![r] = Idle]
    /\ UNCHANGED <<files, now, lost>>

-----------------------------------------------------------------------------
(* resolve                                                                   *)

Answer(r, status, content) ==
    call' = [call EXCEPT ![r].pc = "answered", ![r].status = status,
                         ![r].content = content]

\* A reference whose own expiry has passed is answered without a look.
BeginResolve(r, i, given) ==
    /\ call[r].pc \in {"idle", "answered"}
    /\ made[i] # None
    /\ LET late == given = "reference" /\ Expired(made[i].expires) IN
        call' = [call EXCEPT ![r] =
           [pc |-> IF late THEN "answered" ELSE "resolve",
            id |-> i, given |-> given, record |-> None,
            status |-> IF late THEN "expired" ELSE "", content |-> None]]
    /\ UNCHANGED <<records, files, now, made, lost>>

ReadRecord(r) ==
    /\ call[r].pc = "resolve"
    /\ LET record == records[call[r].id] IN
        \/ record = None /\ Answer(r, "missing", None)
        \/ record # None /\ Expired(record.expires) /\ Answer(r, "expired", None)
        \/ /\ record # None
           /\ ~ Expired(record.expires)
           /\ call' = [call EXCEPT ![r].pc = "found", ![r].record = record]
    /\ UNCHANGED <<records, files, now, made, lost>>

\* is_file() and read_text() are two looks at the directory.
LookForFile(r) ==
    /\ call[r].pc = "found"
    /\ call[r].record.kind = "file"
    /\ \/ files[call[r].id] = None /\ Answer(r, "stale", None)
       \/ files[call[r].id] # None /\ call' = [call EXCEPT ![r].pc = "readable"]
    /\ UNCHANGED <<records, files, now, made, lost>>

\* Trusting is the slip of taking the body without comparing digests.
Trusting(text, record) == text # Torn
DigestMatches(text, record) == text = record.sha

Verdict(text, c) ==
    IF ~ DigestMatches(text, c.record) THEN "stale"
    ELSE IF Expired(text.expires) THEN "expired"
    ELSE IF text.id # c.id THEN "invalid_reference"
    ELSE IF c.given = "other hash" THEN "hash_mismatch"
    ELSE "resolved"

Verified(r, text) ==
    LET verdict == Verdict(text, call[r]) IN
    Answer(r, verdict, IF verdict = "resolved" THEN text ELSE None)

ReadInline(r) ==
    /\ call[r].pc = "found"
    /\ call[r].record.kind = "inline"
    /\ Verified(r, call[r].record.sha)
    /\ UNCHANGED <<records, files, now, made, lost>>

ReadFile(r) ==
    /\ call[r].pc = "readable"
    /\ \/ files[call[r].id] # None /\ Verified(r, files[call[r].id])
       \/ files[call[r].id] = None /\ Answer(r, "raised", None)
    /\ UNCHANGED <<records, files, now, made, lost>>

-----------------------------------------------------------------------------
(* The surroundings.                                                         *)

Tick ==
    /\ now < MaxTime
    /\ now' = now + 1
    /\ UNCHANGED <<records, files, call, made, lost>>

\* Someone removes, cuts short or edits a file of the state directory.
Harm(i) ==
    /\ files[i] \in Envelopes
    /\ \/ files' = [files EXCEPT ![i] = None]
       \/ files' = [files EXCEPT ![i] = Torn]
       \/ \E payload \in Payloads \ {files[i].payload} :
            files' = [files EXCEPT ![i].payload = payload]
    /\ lost' = lost \cup {i}
    /\ UNCHANGED <<records, now, call, made>>

\* _project_prune removes the whole state directory, under requests in flight.
Prune ==
    /\ \E i \in RefIds : records[i] # None \/ files[i] # None
    /\ records' = [i \in RefIds |-> None]
    /\ files' = [i \in RefIds |-> None]
    /\ lost' = lost \cup {i \in RefIds : made[i] # None}
                    \cup UNION {Started(r) : r \in Requests}
    /\ UNCHANGED <<now, call, made>>

Crash ==
    /\ \E r \in Requests : call[r].pc # "idle"
    /\ call' = [r \in Requests |-> Idle]
    /\ UNCHANGED <<records, files, now, made, lost>>

Next ==
    \/ \E r \in Requests :
        \/ \E payload \in Payloads : BeginCreate(r, payload)
        \/ OpenFile(r) \/ OpenRaises(r) \/ FillFile(r) \/ PutRecord(r)
        \/ \E i \in RefIds, given \in Given : BeginResolve(r, i, given)
        \/ ReadRecord(r) \/ LookForFile(r) \/ ReadInline(r) \/ ReadFile(r)
    \/ Tick
    \/ \E i \in RefIds : Harm(i)
    \/ Prune
    \/ Crash

Spec == Init /\ [][Next]_vars

-----------------------------------------------------------------------------
(* Properties.                                                               *)

\* What resolve hands out is the payload that was put away under that very
\* identifier, whatever happened to the files meanwhile.
ResolvedIsGenuine ==
    \A r \in Requests :
        call[r].pc = "answered" /\ call[r].status = "resolved" =>
            call[r].content = made[call[r].id]

\* A reference that was given out has its record and its body at hand until
\* someone harms the file or prunes the project; a crash at any step of any
\* call takes nothing of it away.
GivenOutIsKept ==
    \A i \in RefIds \ lost :
        made[i] # None =>
            /\ records[i] # None
            /\ records[i].sha = made[i]
            /\ records[i].kind = "file" => files[i] = made[i]

\* resolve refuses a reference only for a cause: its file was harmed or its
\* project pruned, it has expired, or the caller expected another body.
RefusalHasCause ==
    \A r \in Requests :
        call[r].pc = "answered" /\ call[r].status # "resolved" =>
            \/ call[r].id \in lost
            \/ call[r].status = "expired" /\ Expired(made[call[r].id].expires)
            \/ call[r].status = "hash_mismatch" /\ call[r].given = "other hash"
=============================================================================
