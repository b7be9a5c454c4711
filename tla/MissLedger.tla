----------------------------- MODULE MissLedger -----------------------------
(***************************************************************************)
(* The miss ledger of validity_audit/ledger.py: one JSON record per line,  *)
(* loaded, checked and appended to by commands that take no lock.          *)
(*                                                                         *)
(* The file is a sequence of pieces, one per write that reached it: a      *)
(* whole line, a record without its newline, or the torn beginning of one. *)
(* A piece that does not end its line runs into the next, and two records  *)
(* or a part of one are not JSON.                                          *)
(***************************************************************************)
EXTENDS Naturals, Sequences, SequencesExt

CONSTANTS
    Users,      \* commands under way at a time
    Records,    \* records the commands are given, with id, category and severity
    MaxLength,  \* bound on the file
    NoRecord

\* SEVERITY_RANK: high is 3; the model ranks any severity it does not know 0.
ASSUME RecordAssumption ==
    /\ \A r \in Records : r.severity \in 0..3
    /\ NoRecord \notin Records /\ MaxLength \in Nat

Pieces == [record: Records, part: {"line", "record", "torn"}]

VARIABLES
    file,
    durable,   \* length of the file that survives a crash of the machine
    at,        \* where each command is
    adding,    \* the record it appends
    appended,  \* records whose append returned
    overlapped, \* whether two appends were under way at once
    failed     \* whether a write or the machine failed

ledgerVars == <<file, durable, at, adding, appended, overlapped, failed>>

ValidateRecord(record) == record.severity # 0

\* load_records returns: each line is one valid record and no id is repeated.
Loadable(f) ==
    /\ \A i \in 1..Len(f) :
          /\ f[i].part = "line" \/ (f[i].part = "record" /\ i = Len(f))
          /\ ValidateRecord(f[i].record)
    /\ \A i, j \in 1..Len(f) : f[i].record.id = f[j].record.id => i = j

Loaded(f) == {f[i].record : i \in 1..Len(f)}

LedgerInit ==
    /\ file = <<>> /\ durable = 0
    /\ at = [u \in Users |-> "idle"] /\ adding = [u \in Users |-> NoRecord]
    /\ appended = {} /\ overlapped = FALSE /\ failed = FALSE
-----------------------------------------------------------------------------
(* append_record.  A refused record changes nothing. *)

\* Mutant: the id is not looked up.
LoadUnchecked(u, record) ==
    /\ at[u] = "idle" /\ ValidateRecord(record) /\ Loadable(file) /\ Len(file) < MaxLength
    /\ at' = [at EXCEPT ![u] = "loaded"]
    /\ adding' = [adding EXCEPT ![u] = record]
    /\ overlapped' = (overlapped \/ \E v \in Users \ {u} : at[v] # "idle")
    /\ UNCHANGED <<file, durable, appended, failed>>

Load(u, record) ==
    /\ at[u] = "idle" /\ ValidateRecord(record) /\ Loadable(file) /\ Len(file) < MaxLength
    /\ \A r \in Loaded(file) : r.id # record.id
    /\ at' = [at EXCEPT ![u] = "loaded"]
    /\ adding' = [adding EXCEPT ![u] = record]
    /\ overlapped' = (overlapped \/ \E v \in Users \ {u} : at[v] # "idle")
    /\ UNCHANGED <<file, durable, appended, failed>>

Piece(u, part) == [record |-> adding[u], part |-> part]

\* Mutant: opened for writing, not for appending.
WriteOver(u) ==
    /\ at[u] = "loaded"
    /\ file' = <<Piece(u, "line")>>
    /\ at' = [at EXCEPT ![u] = "written"]
    /\ UNCHANGED <<durable, adding, appended, overlapped, failed>>

\* flush: one write to a file opened for appending.
Write(u) ==
    /\ at[u] = "loaded"
    /\ file' = Append(file, Piece(u, "line"))
    /\ at' = [at EXCEPT ![u] = "written"]
    /\ UNCHANGED <<durable, adding, appended, overlapped, failed>>

\* The disk is full before the end of the line.
WriteFails(u, part) ==
    /\ at[u] = "loaded"
    /\ file' = Append(file, Piece(u, part))
    /\ at' = [at EXCEPT ![u] = "idle"] /\ adding' = [adding EXCEPT ![u] = NoRecord]
    /\ failed' = TRUE
    /\ UNCHANGED <<durable, appended, overlapped>>

\* Mutant: returns after the flush, without fsync.
ReturnUnsynced(u) ==
    /\ at[u] = "written"
    /\ appended' = appended \cup {adding[u]}
    /\ at' = [at EXCEPT ![u] = "idle"] /\ adding' = [adding EXCEPT ![u] = NoRecord]
    /\ UNCHANGED <<file, durable, overlapped, failed>>

\* fsync makes the whole file durable; the command returns.
Sync(u) ==
    /\ at[u] = "written"
    /\ durable' = Len(file)
    /\ appended' = appended \cup {adding[u]}
    /\ at' = [at EXCEPT ![u] = "idle"] /\ adding' = [adding EXCEPT ![u] = NoRecord]
    /\ UNCHANGED <<file, overlapped, failed>>

\* The command is killed, or fsync fails.
Abandon(u) ==
    /\ at[u] # "idle"
    /\ at' = [at EXCEPT ![u] = "idle"] /\ adding' = [adding EXCEPT ![u] = NoRecord]
    /\ UNCHANGED <<file, durable, appended, overlapped, failed>>

\* The machine stops: of what is not durable a beginning is left.
Crash(kept, part) ==
    /\ kept \in durable..Len(file)
    /\ part = "record" /\ kept < Len(file) => file[kept + 1].part # "torn"
    /\ file' = IF part = "nothing" \/ kept = Len(file) THEN SubSeq(file, 1, kept)
               ELSE Append(SubSeq(file, 1, kept),
                           [record |-> file[kept + 1].record, part |-> part])
    /\ durable' = Len(file')
    /\ at' = [u \in Users |-> "idle"] /\ adding' = [u \in Users |-> NoRecord]
    /\ failed' = TRUE
    /\ UNCHANGED <<appended, overlapped>>

-----------------------------------------------------------------------------
(* _representative_challenges *)

\* The records by category, with r for its own.
With(by, r) ==
    [c \in DOMAIN by \cup {r.category} |-> IF c = r.category THEN r ELSE by[c]]

\* Mutant: a later miss of the same severity replaces the earlier.
KeepLastWorst(by, r) ==
    IF r.category \notin DOMAIN by \/ r.severity >= by[r.category].severity
    THEN With(by, r) ELSE by

KeepWorst(by, r) ==
    IF r.category \notin DOMAIN by \/ r.severity > by[r.category].severity
    THEN With(by, r) ELSE by

Challenges(records) ==
    LET worst[n \in 0..Len(records)] ==
            IF n = 0 THEN <<>> ELSE KeepWorst(worst[n - 1], records[n])
    IN  worst[Len(records)]
-----------------------------------------------------------------------------
LedgerNext ==
    \/ \E u \in Users :
          \/ \E record \in Records : Load(u, record)
          \/ Write(u) \/ Sync(u) \/ Abandon(u)
          \/ \E part \in {"record", "torn"} : WriteFails(u, part)
    \/ \E kept \in 0..Len(file), part \in {"nothing", "record", "torn"} : Crash(kept, part)

LedgerSpec == LedgerInit /\ [][LedgerNext]_ledgerVars
-----------------------------------------------------------------------------
(* Properties *)

LedgerTypeOK ==
    /\ file \in Seq(Pieces) /\ durable \in 0..Len(file)
    /\ at \in [Users -> {"idle", "loaded", "written"}]
    /\ adding \in [Users -> Records \cup {NoRecord}]
    /\ \A u \in Users : at[u] = "idle" <=> adding[u] = NoRecord
    /\ appended \subseteq Records /\ overlapped \in BOOLEAN /\ failed \in BOOLEAN

\* A record whose append returned is in every ledger that loads, through crashes,
\* full disks and appends that overlap: it may become unreadable with the whole
\* file, but a ledger is never read without it.
NothingAppendedIsLost == Loadable(file) => appended \subseteq Loaded(file)

\* The ledger stops loading only after two appends were under way at once or a
\* write or the machine failed; commands that are killed do no harm.
DamageHasACause == ~Loadable(file) => overlapped \/ failed

\* No step changes the part of the file that is durable (append_record: "without
\* rewriting existing ledger entries").
DurableIsKept == [][IsPrefix(SubSeq(file, 1, durable), file')]_ledgerVars

\* The audit is challenged with every category of a miss, by the earliest of its
\* worst records.
ChallengesAreTheWorst ==
    Loadable(file) =>
        LET records == [i \in DOMAIN file |-> file[i].record]
            by == Challenges(records)
        IN  /\ DOMAIN by = {r.category : r \in Loaded(file)}
            /\ \A i \in DOMAIN records :
                  by[records[i].category] = records[i] <=>
                      \A j \in DOMAIN records \ {i} :
                          records[j].category = records[i].category =>
                              \/ records[j].severity < records[i].severity
                              \/ records[j].severity = records[i].severity /\ i < j
=============================================================================
