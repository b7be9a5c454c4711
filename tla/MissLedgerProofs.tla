-------------------------- MODULE MissLedgerProofs --------------------------
(***************************************************************************)
(* Proofs about MissLedger for any number of commands and any records.     *)
(***************************************************************************)
EXTENDS MissLedger, SequenceTheorems, WellFoundedInduction, TLAPS

\* Where a record is on its way into the file: written by its command, durable
\* when the command has returned.
PlaceInv ==
    /\ \A u \in Users : at[u] = "written" => adding[u] \in Loaded(file)
    /\ \A r \in appended : \E i \in 1 .. durable : file[i].record = r

\* While nothing overlapped and nothing failed, every piece is a line of its own
\* and the one command at work adds an id the file does not hold.
WholeInv ==
    ~overlapped /\ ~failed =>
        /\ Loadable(file)
        /\ \A i \in 1 .. Len(file) : file[i].part = "line"
        /\ \A u, v \in Users : at[u] # "idle" /\ at[v] # "idle" => u = v
        /\ \A u \in Users : at[u] = "loaded" =>
              /\ ValidateRecord(adding[u])
              /\ \A r \in Loaded(file) : r.id # adding[u].id

LedgerInv == LedgerTypeOK /\ PlaceInv /\ WholeInv

LEMMA InvInit == LedgerInit => LedgerInv
<1> SUFFICES ASSUME LedgerInit PROVE LedgerInv
  OBVIOUS
<1> USE RecordAssumption DEF LedgerInit
<1>1. file \in Seq(Pieces) /\ Len(file) = 0
  OBVIOUS
<1>2. LedgerTypeOK
  <2>1. at \in [Users -> {"idle", "loaded", "written"}]
    OBVIOUS
  <2>2. adding \in [Users -> Records \cup {NoRecord}]
    OBVIOUS
  <2>3. \A u \in Users : at[u] = "idle" <=> adding[u] = NoRecord
    OBVIOUS
  <2>4. durable \in 0 .. Len(file) /\ appended \subseteq Records
    BY <1>1
  <2>5. overlapped \in BOOLEAN /\ failed \in BOOLEAN
    OBVIOUS
  <2> HIDE DEF LedgerInit
  <2> QED BY <1>1, <2>1, <2>2, <2>3, <2>4, <2>5 DEF LedgerTypeOK
<1>3. PlaceInv
  BY DEF PlaceInv
<1>4. WholeInv
  BY <1>1 DEF WholeInv, Loadable, Loaded
<1> QED BY <1>2, <1>3, <1>4 DEF LedgerInv

LEMMA InvNext == LedgerInv /\ [LedgerNext]_ledgerVars => LedgerInv'
<1> SUFFICES ASSUME LedgerInv, [LedgerNext]_ledgerVars PROVE LedgerInv'
  OBVIOUS
<1> USE RecordAssumption DEF LedgerInv, LedgerTypeOK, PlaceInv, WholeInv, Loaded
<1>1. ASSUME NEW u \in Users, NEW record \in Records, Load(u, record) PROVE LedgerInv'
  <2>1. LedgerTypeOK'
    BY <1>1 DEF Load
  <2>2. PlaceInv'
    BY <1>1 DEF Load
  <2>3. ASSUME ~overlapped', ~failed' PROVE WholeInv'
    <3>1. ~overlapped /\ ~failed /\ \A v \in Users \ {u} : at[v] = "idle"
      BY <1>1, <2>3 DEF Load
    <3>2. /\ file' = file /\ adding'[u] = record /\ ValidateRecord(record)
          /\ \A r \in Loaded(file) : r.id # record.id
      BY <1>1 DEF Load
    <3>3. \A v \in Users \ {u} : at'[v] = "idle"
      BY <1>1, <3>1 DEF Load
    <3>4. Loadable(file)' /\ (\A i \in 1 .. Len(file) : file[i].part = "line")'
      BY <3>1, <3>2 DEF Loadable
    <3>5. \A v \in Users : at'[v] = "loaded" =>
             ValidateRecord(adding'[v]) /\ \A r \in Loaded(file') : r.id # adding'[v].id
      <4> HIDE DEF Loaded
      <4> QED BY <3>2, <3>3
    <3> QED BY <3>3, <3>4, <3>5
  <2> QED BY <2>1, <2>2, <2>3
<1>2. ASSUME NEW u \in Users, Write(u) PROVE LedgerInv'
  <2>1. LedgerTypeOK'
    BY <1>2 DEF Write, Piece, Pieces
  <2>2. PlaceInv'
    BY <1>2 DEF Write, Piece
  <2>3. WholeInv'
    BY <1>2 DEF Write, Piece, Loadable
  <2> QED BY <2>1, <2>2, <2>3
<1>3. ASSUME NEW u \in Users, Sync(u) PROVE LedgerInv'
  <2>1. LedgerTypeOK'
    BY <1>3 DEF Sync
  <2>2. PlaceInv'
    BY <1>3 DEF Sync
  <2>3. WholeInv'
    BY <1>3 DEF Sync
  <2> QED BY <2>1, <2>2, <2>3
<1>4. ASSUME NEW u \in Users, Abandon(u) PROVE LedgerInv'
  BY <1>4 DEF Abandon
<1>5. ASSUME NEW u \in Users, NEW part \in {"record", "torn"}, WriteFails(u, part)
      PROVE  LedgerInv'
  <2>1. LedgerTypeOK'
    BY <1>5 DEF WriteFails, Piece, Pieces
  <2>2. PlaceInv'
    BY <1>5 DEF WriteFails, Piece
  <2>3. WholeInv'
    BY <1>5 DEF WriteFails
  <2> QED BY <2>1, <2>2, <2>3
<1>6. ASSUME NEW kept \in 0 .. Len(file), NEW part \in {"nothing", "record", "torn"},
             Crash(kept, part)
      PROVE  LedgerInv'
  <2>1. file' \in Seq(Pieces)
    <3>1. SubSeq(file, 1, kept) \in Seq(Pieces)
      OBVIOUS
    <3>2. CASE part = "nothing" \/ kept = Len(file)
      BY <1>6, <3>1, <3>2 DEF Crash
    <3>3. CASE part # "nothing" /\ kept < Len(file)
      <4>1. file[kept + 1] \in Pieces
        BY <3>3
      <4>2. [record |-> file[kept + 1].record, part |-> part] \in Pieces
        BY <3>3, <4>1 DEF Pieces
      <4>3. file' = Append(SubSeq(file, 1, kept),
                           [record |-> file[kept + 1].record, part |-> part])
        BY <1>6, <3>3 DEF Crash
      <4> QED BY <3>1, <4>2, <4>3
    <3> QED BY <3>2, <3>3
  <2>4. LedgerTypeOK'
    BY <1>6, <2>1 DEF Crash
  <2>2. PlaceInv'
    BY <1>6 DEF Crash
  <2>3. WholeInv'
    BY <1>6 DEF Crash
  <2> QED BY <2>2, <2>3, <2>4
<1>7. ASSUME UNCHANGED ledgerVars PROVE LedgerInv'
  BY <1>7 DEF ledgerVars, Loadable
<1> QED BY <1>1, <1>2, <1>3, <1>4, <1>5, <1>6, <1>7 DEF LedgerNext

LEMMA InvHolds == LedgerSpec => []LedgerInv
BY InvInit, InvNext, PTL DEF LedgerSpec

\* A record whose append_record returned is in every ledger that loads, whatever
\* was killed, failed or overlapped since.
THEOREM AppendedRecordsStay == LedgerSpec => []NothingAppendedIsLost
<1>1. ASSUME LedgerInv PROVE appended \subseteq Loaded(file)
  <2>1. durable \in 0 .. Len(file) /\ Len(file) \in Nat
    BY <1>1 DEF LedgerInv, LedgerTypeOK
  <2> QED BY <1>1, <2>1 DEF LedgerInv, PlaceInv, Loaded
<1>2. LedgerInv => NothingAppendedIsLost
  BY <1>1 DEF NothingAppendedIsLost
<1> QED BY <1>2, InvHolds, PTL

\* As long as no two appends overlapped and nothing failed, the ledger loads,
\* however many commands were killed between their steps.
THEOREM DamageAlwaysHasACause == LedgerSpec => []DamageHasACause
<1>1. LedgerInv => DamageHasACause
  BY DEF LedgerInv, WholeInv, DamageHasACause
<1> QED BY <1>1, InvHolds, PTL

\* append_record never rewrites an entry that fsync made durable, and neither a
\* failed write nor a crash touches one.
THEOREM DurableEntriesAreKept == LedgerSpec => DurableIsKept
<1> DEFINE Kept == IsPrefix(SubSeq(file, 1, durable), file')
<1>1. ASSUME LedgerInv, [LedgerNext]_ledgerVars PROVE Kept
  <2>1. file \in Seq(Pieces) /\ durable \in 0 .. Len(file)
    BY <1>1 DEF LedgerInv, LedgerTypeOK
  <2>2. ASSUME NEW n \in durable .. Len(file), NEW rest,
               \/ file' = SubSeq(file, 1, n)
               \/ file' = Append(SubSeq(file, 1, n), rest)
        PROVE  Kept
    BY <2>1, <2>2 DEF IsPrefix
  <2>3. CASE file' = file
    BY <2>1, <2>3 DEF IsPrefix
  <2>4. ASSUME NEW u \in Users, Write(u) \/ \E part \in {"record", "torn"} : WriteFails(u, part)
        PROVE  Kept
    <3>1. PICK piece : file' = Append(file, piece)
      BY <2>4 DEF Write, WriteFails
    <3> QED BY <2>1, <3>1 DEF IsPrefix
  <2>5. ASSUME NEW kept \in 0 .. Len(file), NEW part \in {"nothing", "record", "torn"},
               Crash(kept, part)
        PROVE  Kept
    BY <2>1, <2>2, <2>5 DEF Crash
  <2> QED BY <1>1, <2>3, <2>4, <2>5 DEF LedgerNext, ledgerVars, Load, Sync, Abandon
<1>2. LedgerInv /\ [LedgerNext]_ledgerVars => [Kept]_ledgerVars
  BY <1>1
<1> QED BY <1>2, InvHolds, PTL DEF LedgerSpec, DurableIsKept
-----------------------------------------------------------------------------
(* The challenges.  The recursion of Challenges: what is kept after n of the *)
(* records is made of what was kept after n - 1.                             *)

LEMMA NatMin ==
    ASSUME NEW T, T \subseteq Nat, T # {}
    PROVE  \E x \in T : \A y \in T : x <= y
<1>1. PICK x \in T : \A y \in T : ~(<<y, x>> \in OpToRel(<, Nat))
  BY WFMin, NatLessThanWellFounded, Zenon
<1>2. \A y \in T : ~(y < x)
  BY <1>1 DEF OpToRel
<1> QED BY <1>2

KeptAfter(records, n, worst) ==
    IF n = 0 THEN <<>> ELSE KeepWorst(worst[n - 1], records[n])

KeptAll(records, worst) == [n \in 0..Len(records) |-> KeptAfter(records, n, worst)]

LEMMA ChallengesAreChosen ==
    ASSUME NEW records
    PROVE  Challenges(records) =
               (CHOOSE worst : worst = KeptAll(records, worst))[Len(records)]
BY DEF Challenges, KeptAll, KeptAfter

LEMMA KeptExists ==
    ASSUME NEW S, NEW records \in Seq(S)
    PROVE  \E worst : worst = KeptAll(records, worst)
<1> DEFINE L == Len(records)
           K(n, f) == KeptAfter(records, n, f)
           Upto(f, n) == \A m \in 0..L : m <= n => f[m] = K(m, f)
           Bad == {n \in Nat : ~ \E f : Upto(f, n)}
<1>1. L \in Nat
  OBVIOUS
<1>2. ASSUME NEW f, NEW g, NEW m \in 0..L, m # 0 => f[m - 1] = g[m - 1]
      PROVE  K(m, f) = K(m, g)
  BY <1>2 DEF KeptAfter
<1>3. ASSUME NEW n \in Nat, NEW f, \A m \in 0..L : m < n => f[m] = K(m, f)
      PROVE  Upto([m \in 0..L |-> K(m, f)], n)
  <2> DEFINE g == [m \in 0..L |-> K(m, f)]
  <2>1. \A m \in 0..L : g[m] = K(m, f)
    OBVIOUS
  <2> HIDE DEF g
  <2>2. ASSUME NEW m \in 0..L, m <= n PROVE K(m, f) = K(m, g)
    <3>1. m # 0 => m - 1 \in 0..L /\ m - 1 < n
      BY <1>1, <2>2
    <3>2. m # 0 => f[m - 1] = g[m - 1]
      BY <1>3, <2>1, <3>1
    <3> HIDE DEF K
    <3> QED BY <1>2, <3>2
  <2> HIDE DEF K
  <2>3. Upto(g, n)
    BY <2>1, <2>2
  <2> QED BY <2>3 DEF g
<1>4. Bad = {}
  <2> SUFFICES ASSUME Bad # {} PROVE FALSE
    OBVIOUS
  <2>1. PICK n \in Bad : \A m \in Bad : n <= m
    <3>1. Bad \subseteq Nat
      OBVIOUS
    <3> HIDE DEF Bad
    <3> QED BY <3>1, NatMin
  <2>2. n \in Nat
    OBVIOUS
  <2> HIDE DEF K
  <2>3. \E f : \A m \in 0..L : m < n => f[m] = K(m, f)
    <3>1. CASE n = 0
      BY <1>1, <3>1
    <3>2. CASE n # 0
      <4>1. n - 1 \in Nat /\ n - 1 \notin Bad
        <5> HIDE DEF Bad
        <5> QED BY <2>1, <2>2, <3>2
      <4>2. PICK f : Upto(f, n - 1)
        BY <4>1
      <4>3. \A m \in 0..L : m < n => m <= n - 1
        BY <1>1, <2>2
      <4> QED BY <4>2, <4>3
    <3> QED BY <3>1, <3>2
  <2>4. \E f : Upto(f, n)
    <3> HIDE DEF Upto
    <3> QED BY <1>3, <2>2, <2>3
  <2> QED BY <2>1, <2>4
<1>5. PICK f : Upto(f, L)
  BY <1>1, <1>4
<1>6. \A m \in 0..L : f[m] = K(m, f)
  <2> HIDE DEF K
  <2> QED BY <1>1, <1>5
<1> DEFINE g == [m \in 0..L |-> K(m, f)]
<1>7. \A m \in 0..L : K(m, f) = K(m, g)
  <2> TAKE m \in 0..L
  <2>1. m # 0 => m - 1 \in 0..L
    BY <1>1
  <2>2. \A k \in 0..L : g[k] = f[k]
    BY <1>6
  <2> HIDE DEF K, g
  <2> QED BY <1>2, <2>1, <2>2
<1>8. g = KeptAll(records, g)
  BY <1>7 DEF KeptAll
<1> QED BY <1>8

\* Record i is the earliest of the worst of its category among the first n.
Worst(records, n, i) ==
    \A j \in 1..n : records[j].category = records[i].category /\ j # i =>
        \/ records[j].severity < records[i].severity
        \/ records[j].severity = records[i].severity /\ i < j

\* by holds, for each category of the first n records, the earliest of its worst.
Represents(by, records, n) ==
    /\ DOMAIN by = {records[i].category : i \in 1..n}
    /\ \A c \in DOMAIN by : \E i \in 1..n :
          records[i].category = c /\ by[c] = records[i] /\ Worst(records, n, i)

Ranked(records) == \A i \in 1..Len(records) : records[i].severity \in 0..3

LEMMA KeepWorstRepresents ==
    ASSUME NEW records, NEW by, NEW n \in Nat, n # 0,
           \A i \in 1..n : records[i].severity \in Nat,
           Represents(by, records, n - 1)
    PROVE  Represents(KeepWorst(by, records[n]), records, n)
<1> DEFINE r == records[n]
           after == KeepWorst(by, r)
<1>1. \A i \in 1..n : i = n \/ i \in 1..(n - 1)
  OBVIOUS
<1>2. 1..(n - 1) \subseteq 1..n /\ n \in 1..n /\ \A i \in 1..(n - 1) : i < n
  OBVIOUS
<1>3. DOMAIN after = {records[i].category : i \in 1..n}
  <2>1. DOMAIN by \cup {r.category} = {records[i].category : i \in 1..n}
    BY <1>1, <1>2 DEF Represents
  <2>2. DOMAIN after = DOMAIN by \cup {r.category}
    BY DEF KeepWorst, With
  <2> QED BY <2>1, <2>2
<1>4. ASSUME NEW c \in DOMAIN by, c # r.category
      PROVE  \E i \in 1..n : records[i].category = c /\ after[c] = records[i] /\ Worst(records, n, i)
  <2>1. PICK i \in 1..(n - 1) :
            records[i].category = c /\ by[c] = records[i] /\ Worst(records, n - 1, i)
    BY DEF Represents
  <2>2. after[c] = by[c]
    BY <1>4 DEF KeepWorst, With
  <2>3. Worst(records, n, i)
    BY <1>1, <1>4, <2>1 DEF Worst
  <2> QED BY <1>2, <2>1, <2>2, <2>3
<1>5. ASSUME r.category \notin DOMAIN by
      PROVE  after[r.category] = r /\ Worst(records, n, n)
  <2>1. \A i \in 1..(n - 1) : records[i].category # r.category
    BY <1>5 DEF Represents
  <2> QED BY <1>1, <1>5, <2>1 DEF KeepWorst, With, Worst
<1>6. ASSUME r.category \in DOMAIN by
      PROVE  \E i \in 1..n : /\ records[i].category = r.category
                             /\ after[r.category] = records[i] /\ Worst(records, n, i)
  <2>1. PICK i \in 1..(n - 1) : /\ records[i].category = r.category
                                 /\ by[r.category] = records[i] /\ Worst(records, n - 1, i)
    BY <1>6 DEF Represents
  <2>2. r.severity \in Nat /\ \A j \in 1..n : records[j].severity \in Nat
    BY <1>2
  <2>3. CASE r.severity > records[i].severity
    <3>1. after[r.category] = r
      BY <1>6, <2>1, <2>3 DEF KeepWorst, With
    <3>2. \A j \in 1..(n - 1) : records[j].category = r.category =>
              records[j].severity <= records[i].severity
      BY <1>2, <2>1, <2>2 DEF Worst
    <3>3. Worst(records, n, n)
      BY <1>1, <1>2, <2>1, <2>2, <2>3, <3>2 DEF Worst
    <3> QED BY <1>2, <3>1, <3>3
  <2>4. CASE ~(r.severity > records[i].severity)
    <3>1. after[r.category] = records[i]
      BY <1>6, <2>1, <2>4 DEF KeepWorst, With
    <3>2. r.severity < records[i].severity \/ r.severity = records[i].severity
      BY <1>2, <2>1, <2>2, <2>4
    <3>3. Worst(records, n, i)
      BY <1>1, <1>2, <2>1, <3>2 DEF Worst
    <3> QED BY <1>2, <2>1, <3>1, <3>3
  <2> QED BY <2>3, <2>4
<1>7. DOMAIN after = DOMAIN by \cup {r.category}
  BY DEF KeepWorst, With
<1>8. \A c \in DOMAIN after : \E i \in 1..n :
         records[i].category = c /\ after[c] = records[i] /\ Worst(records, n, i)
  <2> TAKE c \in DOMAIN after
  <2> HIDE DEF after
  <2>1. CASE c # r.category
    BY <1>4, <1>7, <2>1
  <2>2. CASE c = r.category /\ r.category \notin DOMAIN by
    BY <1>2, <1>5, <2>2
  <2>3. CASE c = r.category /\ r.category \in DOMAIN by
    BY <1>6, <2>3
  <2> QED BY <2>1, <2>2, <2>3
<1> HIDE DEF after
<1>9. Represents(after, records, n)
  BY <1>3, <1>8 DEF Represents
<1> QED BY <1>9 DEF after

\* Challenges folds every record in.
LEMMA ChallengesRepresent ==
    ASSUME NEW S, NEW records \in Seq(S), Ranked(records)
    PROVE  Represents(Challenges(records), records, Len(records))
<1> DEFINE L == Len(records)
           worst == CHOOSE w : w = KeptAll(records, w)
           Bad == {n \in 0..L : ~Represents(worst[n], records, n)}
<1>1. L \in Nat
  OBVIOUS
<1>2. worst = KeptAll(records, worst)
  BY KeptExists
<1>3. Challenges(records) = worst[L]
  BY ChallengesAreChosen
<1> HIDE DEF worst
<1>4. worst[0] = <<>> /\ \A n \in 1..L : worst[n] = KeepWorst(worst[n - 1], records[n])
  <2>1. \A n \in 0..L : worst[n] = KeptAfter(records, n, worst)
    BY <1>2 DEF KeptAll
  <2> QED BY <1>1, <2>1 DEF KeptAfter
<1>5. Bad = {}
  <2> SUFFICES ASSUME Bad # {} PROVE FALSE
    OBVIOUS
  <2>1. PICK n \in Bad : \A m \in Bad : n <= m
    <3>1. Bad \subseteq Nat
      BY <1>1
    <3> HIDE DEF Bad
    <3> QED BY <3>1, NatMin
  <2>2. n # 0
    <3>1. DOMAIN worst[0] = {}
      BY <1>4
    <3>2. {records[i].category : i \in 1..0} = {}
      OBVIOUS
    <3>3. Represents(worst[0], records, 0)
      BY <3>1, <3>2 DEF Represents
    <3> QED BY <3>3
  <2>3. n \in 1..L /\ n - 1 \in 0..L /\ n \in Nat
    BY <1>1, <2>2
  <2>4. Represents(worst[n - 1], records, n - 1)
    <3>1. n - 1 \notin Bad
      <4> HIDE DEF Bad
      <4> QED BY <2>1, <2>3
    <3> QED BY <2>3, <3>1
  <2>5. \A i \in 1..n : records[i].severity \in Nat
    BY <1>1, <2>3 DEF Ranked
  <2>6. Represents(KeepWorst(worst[n - 1], records[n]), records, n)
    BY <2>2, <2>3, <2>4, <2>5, KeepWorstRepresents
  <2>7. Represents(worst[n], records, n)
    BY <1>4, <2>3, <2>6
  <2> QED BY <2>7
<1> QED BY <1>1, <1>3, <1>5

\* _representative_challenges: in any ledger that loads, every category of a miss
\* is represented, by its worst record and the earliest of those.
THEOREM ChallengesAreAlwaysTheWorst == LedgerSpec => []ChallengesAreTheWorst
<1>1. ASSUME LedgerInv, Loadable(file) PROVE ChallengesAreTheWorst
  <2> DEFINE records == [i \in DOMAIN file |-> file[i].record]
             by == Challenges(records)
             L == Len(file)
  <2>1. file \in Seq(Pieces)
    BY <1>1 DEF LedgerInv, LedgerTypeOK
  <2>2. DOMAIN file = 1..L /\ L \in Nat
    BY <2>1
  <2>3. \A i \in 1..L : file[i].record \in Records
    <3>1. \A i \in 1..L : file[i] \in Pieces
      BY <2>1
    <3> QED BY <3>1 DEF Pieces
  <2>4. records \in Seq(Records) /\ Len(records) = L /\ DOMAIN records = 1..L
    BY <2>2, <2>3
  <2>5. \A i \in 1..L : records[i] = file[i].record
    BY <2>2
  <2>6. \A i \in 1..L : records[i].severity \in 0..3
    BY <2>3, <2>5, RecordAssumption
  <2>7. \A i, j \in 1..L : records[i] = records[j] => i = j
    BY <1>1, <2>5 DEF Loadable
  <2>8. Loaded(file) = {records[i] : i \in 1..L}
    BY <2>5 DEF Loaded
  <2> HIDE DEF records
  <2>9. Represents(by, records, L)
    BY <2>4, <2>6, ChallengesRepresent DEF Ranked
  <2> HIDE DEF by, L
  <2>10. DOMAIN by = {r.category : r \in Loaded(file)}
    BY <2>8, <2>9 DEF Represents
  <2>11. ASSUME NEW i \in 1..L
         PROVE  by[records[i].category] = records[i] <=> Worst(records, L, i)
    <3>1. PICK k \in 1..L : /\ records[k].category = records[i].category
                            /\ by[records[i].category] = records[k] /\ Worst(records, L, k)
      BY <2>9 DEF Represents
    <3>2. by[records[i].category] = records[i] <=> k = i
      BY <2>7, <3>1
    <3>3. ASSUME k # i PROVE ~Worst(records, L, i)
      BY <2>2, <2>6, <3>1, <3>3 DEF Worst, L
    <3> QED BY <3>1, <3>2, <3>3
  <2>12. \A i \in DOMAIN records :
            by[records[i].category] = records[i] <=>
                \A j \in DOMAIN records \ {i} :
                    records[j].category = records[i].category =>
                        \/ records[j].severity < records[i].severity
                        \/ records[j].severity = records[i].severity /\ i < j
    BY <2>4, <2>11 DEF Worst
  <2> QED BY <2>10, <2>12 DEF ChallengesAreTheWorst, by, records
<1>2. LedgerInv => ChallengesAreTheWorst
  BY <1>1 DEF ChallengesAreTheWorst
<1> QED BY <1>2, InvHolds, PTL
=============================================================================
