------------------------- MODULE SnapshotStoreProofs -------------------------
(***************************************************************************)
(* What SnapshotStore promises, for every set of objects, writers and      *)
(* payloads and every bound.  StoreInv is inductive: the two promises that *)
(* readers rely on, and the fact that makes a stale plan harmless to them, *)
(* namely that no planned revision is more than one past the current one.  *)
(***************************************************************************)
EXTENDS SnapshotStore, Sequences, TLAPS

PlansAreNear == \A w \in Writers, o \in Objects : call[w].rev[o] <= current[o] + 1
PlansAreMutable == \A w \in Writers : Written(call[w].rev) \subseteq Mutable

StoreInv == TypeOK /\ CurrentIsReadable /\ HistoryIsDense /\ PlansAreNear /\ PlansAreMutable

------------------------------------------------------------------------------
\* MAX(revision) of a finite set of revisions that has a largest member.
LEMMA MaxIs ==
  ASSUME NEW S \in SUBSET Nat, NEW m \in S, \A x \in S : x <= m
  PROVE  Max(S) = m
<1>1. \A y \in S : m >= y OBVIOUS
<1>2. \A x \in S : (\A y \in S : x >= y) => x = m OBVIOUS
<1> QED BY <1>1, <1>2 DEF Max

\* next_revision and next_revisions agree: the newest row of snapshots is the
\* current one, although older rows may have left for the archive.
LEMMA MaxStoredIsCurrent ==
  ASSUME StoreAssumption, TypeOK, CurrentIsReadable, HistoryIsDense, NEW o \in Objects
  PROVE  MaxStored(o) = current[o]
<1> DEFINE S == Stored(o) \cup {0}
<1>1. current[o] \in 0 .. MaxRevision /\ MaxRevision \in Nat
  BY DEF TypeOK, StoreAssumption
<1>2. S \in SUBSET Nat /\ current[o] \in S
  BY <1>1 DEF Stored, Revisions, CurrentIsReadable
<1>3. ASSUME NEW r \in Stored(o) PROVE r <= current[o]
  <2>1. r \in Revisions /\ snapshots[o][r] # NoRow BY DEF Stored
  <2>2. HistoryRow(o, r) # NoRow BY <2>1 DEF HistoryRow
  <2> QED BY <2>1, <2>2 DEF HistoryIsDense
<1>4. \A x \in S : x <= current[o] BY <1>1, <1>3
<1> QED BY <1>2, <1>4, MaxIs DEF MaxStored

LEMMA InsertedType ==
  ASSUME StoreAssumption, TypeOK, NEW rev \in [Objects -> 0 .. MaxRevision], NEW row \in Rows
  PROVE  /\ Inserted(rev, row) \in [Objects -> [Revisions -> Rows \cup {NoRow}]]
         /\ Advanced(rev) \in [Objects -> 0 .. MaxRevision]
         /\ \A o \in Objects, r \in Revisions :
              Inserted(rev, row)[o][r] = IF r = rev[o] THEN row ELSE snapshots[o][r]
         /\ \A o \in Objects :
              Advanced(rev)[o] = IF rev[o] > current[o] THEN rev[o] ELSE current[o]
<1>1. \A o \in Objects : snapshots[o] \in [Revisions -> Rows \cup {NoRow}]
  BY DEF TypeOK
<1>2. \A o \in Objects : rev[o] # 0 => rev[o] \in Revisions
  BY DEF Revisions, StoreAssumption
<1>3. Inserted(rev, row) \in [Objects -> [Revisions -> Rows \cup {NoRow}]]
  BY <1>1, <1>2 DEF Inserted
<1>4. ASSUME NEW o \in Objects, NEW r \in Revisions
      PROVE  Inserted(rev, row)[o][r] = IF r = rev[o] THEN row ELSE snapshots[o][r]
  <2>1. CASE rev[o] = 0 BY <2>1 DEF Inserted, Revisions
  <2>2. CASE rev[o] # 0 BY <2>2, <1>1, <1>2 DEF Inserted
  <2> QED BY <2>1, <2>2
<1> QED BY <1>3, <1>4 DEF Advanced, TypeOK

\* A transaction that inserts at near revisions and then archives displaced
\* rows other than the new current ones keeps the two promises.
LEMMA CommitKeeps ==
  ASSUME StoreAssumption, TypeOK, CurrentIsReadable, HistoryIsDense,
         NEW rev \in [Objects -> 0 .. MaxRevision], NEW prior \in [Objects -> 0 .. MaxRevision],
         NEW many \in BOOLEAN, NEW row \in Rows,
         \A o \in Objects : rev[o] <= current[o] + 1,
         Written(rev) \subseteq Mutable,
         Archivable(rev, row, prior, many), Commit(rev, row, prior, many)
  PROVE  /\ snapshots' \in [Objects -> [Revisions -> Rows \cup {NoRow}]]
         /\ archive' \in [Objects -> [Revisions -> Rows \cup {NoRow}]]
         /\ current' \in [Objects -> 0 .. MaxRevision]
         /\ acked' \subseteq [object : Mutable, revision : Revisions, row : Rows]
         /\ CurrentIsReadable' /\ HistoryIsDense'
         /\ \A o \in Objects : current[o] <= current'[o]
<1> DEFINE D == Displaced(rev, prior, many)
           moved == {<<o, prior[o]>> : o \in D}
           ins == Inserted(rev, row)
<1>1. /\ ins \in [Objects -> [Revisions -> Rows \cup {NoRow}]]
      /\ current' \in [Objects -> 0 .. MaxRevision]
      /\ \A o \in Objects, r \in Revisions : ins[o][r] = IF r = rev[o] THEN row ELSE snapshots[o][r]
      /\ \A o \in Objects : current'[o] = IF rev[o] > current[o] THEN rev[o] ELSE current[o]
  BY InsertedType DEF Commit
<1>2. D \subseteq Objects BY DEF Displaced, Written
<1>3. \A o \in Objects, r \in Revisions : <<o, r>> \in moved <=> (o \in D /\ r = prior[o])
  BY <1>2
<1>4. /\ snapshots' = [o \in Objects |-> [r \in Revisions |->
                         IF <<o, r>> \in moved THEN NoRow ELSE ins[o][r]]]
      /\ archive' = [o \in Objects |-> [r \in Revisions |->
                         IF <<o, r>> \in moved /\ ins[o][r] # NoRow THEN ins[o][r] ELSE archive[o][r]]]
  BY DEF Commit, SnapshotsWithout, ArchiveWith
<1>5. snapshots' \in [Objects -> [Revisions -> Rows \cup {NoRow}]] BY <1>1, <1>4
<1>6. archive' \in [Objects -> [Revisions -> Rows \cup {NoRow}]] BY <1>1, <1>4 DEF TypeOK
<1>7. acked' \subseteq [object : Mutable, revision : Revisions, row : Rows]
  <2>1. \A o \in Written(rev) : o \in Mutable /\ rev[o] \in Revisions
    BY DEF Written, Revisions, StoreAssumption
  <2> QED BY <2>1 DEF Commit, TypeOK
<1>8. \A o \in D : prior[o] # current'[o] BY DEF Archivable, Commit
<1>9. \A o \in Objects : current[o] <= current'[o] /\ (rev[o] # 0 => rev[o] <= current'[o])
  <2> SUFFICES ASSUME NEW o \in Objects
               PROVE  current[o] <= current'[o] /\ (rev[o] # 0 => rev[o] <= current'[o])
    OBVIOUS
  <2>1. current[o] \in Nat /\ rev[o] \in Nat BY DEF TypeOK, StoreAssumption
  <2> QED BY <1>1, <2>1
<1>10. CurrentIsReadable'
  <2> SUFFICES ASSUME NEW o \in Objects, current'[o] # 0
               PROVE  snapshots'[o][current'[o]] # NoRow /\ archive'[o][current'[o]] = NoRow
    BY DEF CurrentIsReadable
  <2> DEFINE c == current'[o]
  <2>1. c \in Revisions BY <1>1 DEF Revisions, StoreAssumption
  <2>2. <<o, c>> \notin moved BY <1>3, <1>8, <2>1
  <2>3. snapshots'[o][c] = ins[o][c] /\ archive'[o][c] = archive[o][c] BY <1>4, <2>1, <2>2
  <2>4. CASE rev[o] > current[o]
    <3>1. c = rev[o] /\ ins[o][c] = row BY <1>1, <2>1, <2>4
    <3>2. HistoryRow(o, c) = NoRow BY <3>1, <2>1, <2>4 DEF HistoryIsDense, TypeOK
    <3>3. archive[o][c] = NoRow BY <3>2 DEF HistoryRow
    <3> QED BY <2>3, <3>1, <3>3 DEF StoreAssumption, Rows
  <2>5. CASE ~(rev[o] > current[o])
    <3>1. c = current[o] BY <1>1, <2>5
    <3>2. snapshots[o][c] # NoRow /\ archive[o][c] = NoRow BY <3>1 DEF CurrentIsReadable
    <3>3. ins[o][c] # NoRow BY <1>1, <2>1, <3>2 DEF StoreAssumption, Rows
    <3> QED BY <2>3, <3>2, <3>3
  <2> QED BY <2>4, <2>5
<1>11. HistoryIsDense'
  <2> SUFFICES ASSUME NEW o \in Objects, NEW r \in Revisions
               PROVE  (HistoryRow(o, r)' # NoRow) <=> (r <= current'[o])
    BY DEF HistoryIsDense
  <2>1. (HistoryRow(o, r)' # NoRow) <=> (archive[o][r] # NoRow \/ ins[o][r] # NoRow)
    BY <1>4 DEF HistoryRow
  <2>2. (HistoryRow(o, r) # NoRow) <=> (archive[o][r] # NoRow \/ snapshots[o][r] # NoRow)
    BY DEF HistoryRow
  <2>3. (ins[o][r] # NoRow) <=> (r = rev[o] \/ snapshots[o][r] # NoRow)
    BY <1>1 DEF StoreAssumption, Rows
  <2>4. (r <= current'[o]) <=> (r = rev[o] \/ r <= current[o])
    BY <1>1, <1>9 DEF Revisions, TypeOK, StoreAssumption
  <2> QED BY <2>1, <2>2, <2>3, <2>4 DEF HistoryIsDense
<1> QED BY <1>1, <1>5, <1>6, <1>7, <1>9, <1>10, <1>11

\* Immutable identities get their one row without a prior one to displace.
LEMMA ContentKeeps ==
  ASSUME StoreAssumption, TypeOK, CurrentIsReadable, HistoryIsDense,
         NEW w \in Writers, NEW S \in SUBSET Immutable, NEW p \in Payloads,
         AppendContentAddressed(w, S, p)
  PROVE  TypeOK' /\ CurrentIsReadable' /\ HistoryIsDense' /\ current' \in [Objects -> Nat]
         /\ \A o \in Objects : current[o] <= current'[o]
<1> DEFINE rev == [o \in Objects |-> IF o \in S /\ Stored(o) = {} THEN 1 ELSE 0]
           row == [by |-> w, payload |-> p]
<1>1. /\ rev \in [Objects -> 0 .. MaxRevision] /\ row \in Rows
      /\ snapshots' = Inserted(rev, row) /\ current' = Advanced(rev)
  <2>1. 1 \in 0 .. MaxRevision /\ 0 \in 0 .. MaxRevision
    BY DEF AppendContentAddressed, StoreAssumption
  <2>2. row \in Rows BY DEF Rows
  <2>3. snapshots' = Inserted(rev, row) /\ current' = Advanced(rev)
    BY DEF AppendContentAddressed
  <2> QED BY <2>1, <2>2, <2>3
<1> HIDE DEF rev, row
<1>2. /\ snapshots' \in [Objects -> [Revisions -> Rows \cup {NoRow}]]
      /\ current' \in [Objects -> 0 .. MaxRevision]
      /\ \A o \in Objects, r \in Revisions :
           snapshots'[o][r] = IF r = rev[o] THEN row ELSE snapshots[o][r]
      /\ \A o \in Objects : current'[o] = IF rev[o] > current[o] THEN rev[o] ELSE current[o]
  BY <1>1, InsertedType
<1>3. archive' = archive /\ call' = call /\ acked' = acked
  BY Zenon DEF AppendContentAddressed
<1>4. TypeOK'
  <2>1. converged' \subseteq [object : Immutable, payload : Payloads]
    BY DEF AppendContentAddressed, TypeOK
  <2> QED BY <1>2, <1>3, <2>1 DEF TypeOK
<1>5. ASSUME NEW o \in Objects, rev[o] # 0 PROVE current[o] = 0 /\ rev[o] = 1
  <2>1. rev[o] = 1 /\ Stored(o) = {} BY <1>5 DEF rev
  <2>2. current[o] \notin Revisions BY <2>1 DEF Stored, CurrentIsReadable, Revisions
  <2> QED BY <2>1, <2>2 DEF TypeOK, Revisions
<1>6. ASSUME NEW o \in Objects, NEW r \in Revisions
      PROVE  (HistoryRow(o, r)' # NoRow) <=> (r = rev[o] \/ HistoryRow(o, r) # NoRow)
  BY <1>1, <1>2, <1>3, <1>6 DEF HistoryRow, Rows, StoreAssumption
<1>7. ASSUME NEW o \in Objects, NEW r \in Revisions
      PROVE  (r <= current'[o]) <=> (r = rev[o] \/ r <= current[o])
  <2>1. current[o] \in Nat /\ r \in Nat /\ r >= 1 /\ rev[o] \in Nat
    BY <1>1 DEF TypeOK, Revisions, StoreAssumption
  <2> QED BY <1>2, <1>5, <2>1
<1>8. HistoryIsDense' BY <1>6, <1>7 DEF HistoryIsDense
<1>9. CurrentIsReadable'
  <2> SUFFICES ASSUME NEW o \in Objects, current'[o] # 0
               PROVE  snapshots'[o][current'[o]] # NoRow /\ archive'[o][current'[o]] = NoRow
    BY DEF CurrentIsReadable
  <2>1. CASE rev[o] # 0
    <3>1. current[o] = 0 /\ current'[o] = 1 /\ rev[o] = 1 BY <1>2, <1>5, <2>1
    <3>2. 1 \in Revisions BY <3>1, <1>2 DEF Revisions, StoreAssumption
    <3>3. HistoryRow(o, 1) = NoRow BY <3>1, <3>2 DEF HistoryIsDense
    <3>4. archive[o][1] = NoRow BY <3>3 DEF HistoryRow
    <3> QED BY <3>1, <3>2, <3>4, <1>1, <1>2, <1>3 DEF Rows, StoreAssumption
  <2>2. CASE rev[o] = 0
    <3>1. current'[o] = current[o] /\ current[o] \in Revisions BY <1>2, <2>2 DEF TypeOK, Revisions
    <3> QED BY <3>1, <2>2, <1>2, <1>3 DEF CurrentIsReadable, Revisions
  <2> QED BY <2>1, <2>2
<1>10. ASSUME NEW o \in Objects PROVE current[o] <= current'[o]
  <2>1. current[o] \in Nat /\ rev[o] \in Nat BY <1>1 DEF TypeOK, StoreAssumption
  <2> QED BY <1>2, <2>1
<1> QED BY <1>2, <1>4, <1>8, <1>9, <1>10 DEF StoreAssumption

\* An archive page moves rows that are not current and loses none.
LEMMA PageKeeps ==
  ASSUME StoreAssumption, TypeOK, CurrentIsReadable, HistoryIsDense,
         NEW page \in SUBSET NonCurrent, ArchivePage(page)
  PROVE  TypeOK' /\ CurrentIsReadable' /\ HistoryIsDense' /\ UNCHANGED <<current, call>>
<1>1. /\ snapshots' = [o \in Objects |-> [r \in Revisions |->
                         IF <<o, r>> \in page THEN NoRow ELSE snapshots[o][r]]]
      /\ archive' = [o \in Objects |-> [r \in Revisions |->
                         IF <<o, r>> \in page /\ snapshots[o][r] # NoRow
                         THEN snapshots[o][r] ELSE archive[o][r]]]
      /\ UNCHANGED <<current, call, acked, converged>>
  BY DEF ArchivePage, SnapshotsWithout, ArchiveWith
<1>2. TypeOK' BY <1>1 DEF TypeOK
<1>3. \A o \in Objects : <<o, current[o]>> \notin page BY DEF NonCurrent
<1>4. CurrentIsReadable'
  <2> SUFFICES ASSUME NEW o \in Objects, current[o] # 0
               PROVE  snapshots'[o][current[o]] # NoRow /\ archive'[o][current[o]] = NoRow
    BY <1>1 DEF CurrentIsReadable
  <2>1. current[o] \in Revisions BY DEF TypeOK, Revisions
  <2> QED BY <1>1, <1>3, <2>1 DEF CurrentIsReadable
<1>5. \A o \in Objects, r \in Revisions : (HistoryRow(o, r)' # NoRow) <=> (HistoryRow(o, r) # NoRow)
  BY <1>1 DEF HistoryRow
<1>6. HistoryIsDense' BY <1>1, <1>5 DEF HistoryIsDense
<1> QED BY <1>1, <1>2, <1>4, <1>6

\* What a writer has planned stays near while the current revisions only grow.
LEMMA PlansKeep ==
  ASSUME TypeOK, PlansAreNear, PlansAreMutable, StoreAssumption,
         current' \in [Objects -> Nat], \A o \in Objects : current[o] <= current'[o],
         \A w \in Writers : call'[w].rev = call[w].rev \/ call'[w].rev = NoRevisions
  PROVE  PlansAreNear' /\ PlansAreMutable'
<1>1. ASSUME NEW w \in Writers, NEW o \in Objects PROVE call'[w].rev[o] <= current'[o] + 1
  <2>1. /\ call[w].rev[o] \in Nat /\ current[o] \in Nat /\ current'[o] \in Nat
        /\ call[w].rev[o] <= current[o] + 1 /\ current[o] <= current'[o]
    BY DEF TypeOK, Calls, PlansAreNear, StoreAssumption
  <2>2. CASE call'[w].rev = call[w].rev BY <2>1, <2>2
  <2>3. CASE call'[w].rev = NoRevisions BY <2>1, <2>3 DEF NoRevisions
  <2> QED BY <2>2, <2>3
<1>2. ASSUME NEW w \in Writers PROVE Written(call'[w].rev) \subseteq Mutable
  <2>1. CASE call'[w].rev = call[w].rev BY <2>1 DEF PlansAreMutable
  <2>2. CASE call'[w].rev = NoRevisions BY <2>2 DEF Written, NoRevisions
  <2> QED BY <2>1, <2>2
<1> QED BY <1>1, <1>2 DEF PlansAreNear, PlansAreMutable

LEMMA IdleType == StoreAssumption => Idle \in Calls /\ Idle.rev = NoRevisions
BY DEF StoreAssumption, Idle, Calls, NoRevisions

LEMMA InitEstablishes == StoreAssumption /\ Init => StoreInv
<1> SUFFICES ASSUME StoreAssumption, Init PROVE StoreInv OBVIOUS
<1> USE DEF Init
<1>1. current \in [Objects -> 0 .. MaxRevision] BY DEF StoreAssumption
<1>2. PICK p \in Payloads : snapshots = [o \in Objects |-> [r \in Revisions |->
         IF r <= current[o] THEN [by |-> Legacy, payload |-> p] ELSE NoRow]]
  OBVIOUS
<1>3. [by |-> Legacy, payload |-> p] \in Rows /\ [by |-> Legacy, payload |-> p] # NoRow
  BY DEF Rows, StoreAssumption
<1>4. TypeOK
  BY <1>1, <1>2, <1>3, IdleType DEF TypeOK
<1>5. CurrentIsReadable
  BY <1>1, <1>2, <1>3 DEF CurrentIsReadable, Revisions, StoreAssumption
<1>6. HistoryIsDense
  BY <1>1, <1>2, <1>3 DEF HistoryIsDense, HistoryRow
<1>7. PlansAreNear
  <2> SUFFICES ASSUME NEW w \in Writers, NEW o \in Objects PROVE call[w].rev[o] <= current[o] + 1
    BY DEF PlansAreNear
  <2>1. call[w].rev[o] = 0 BY IdleType DEF NoRevisions
  <2> QED BY <1>1, <2>1 DEF StoreAssumption
<1>8. PlansAreMutable BY IdleType DEF PlansAreMutable, Written, NoRevisions
<1> QED BY <1>4, <1>5, <1>6, <1>7, <1>8 DEF StoreInv

\* The immediate transactions on one mutable object are a Commit at the next
\* revision.
LEMMA ImmediateKeeps ==
  ASSUME StoreAssumption, StoreInv, NEW w \in Writers, NEW o \in Mutable, NEW p \in Payloads,
         MaxStored(o) < MaxRevision, NEW prior \in 0 .. MaxRevision,
         Archivable(At(o, MaxStored(o) + 1), [by |-> w, payload |-> p], At(o, prior), FALSE),
         Commit(At(o, MaxStored(o) + 1), [by |-> w, payload |-> p], At(o, prior), FALSE),
         UNCHANGED <<call, converged>>
  PROVE  StoreInv'
<1> USE DEF StoreInv
<1> DEFINE rev == At(o, MaxStored(o) + 1)
           pr == At(o, prior)
           row == [by |-> w, payload |-> p]
<1>1. MaxStored(o) = current[o] /\ current[o] \in Nat /\ o \in Objects /\ MaxRevision \in Nat
  BY MaxStoredIsCurrent DEF Mutable, TypeOK, StoreAssumption
<1>2. /\ rev \in [Objects -> 0 .. MaxRevision] /\ pr \in [Objects -> 0 .. MaxRevision]
      /\ rev[o] = current[o] + 1 /\ \A x \in Objects \ {o} : rev[x] = 0
  BY <1>1 DEF At, NoRevisions
<1>3. row \in Rows BY DEF Rows
<1>4. Archivable(rev, row, pr, FALSE) /\ Commit(rev, row, pr, FALSE) OBVIOUS
<1> HIDE DEF rev, pr, row
<1>5. \A x \in Objects : rev[x] <= current[x] + 1
  <2> SUFFICES ASSUME NEW x \in Objects PROVE rev[x] <= current[x] + 1 OBVIOUS
  <2>1. current[x] \in Nat BY DEF TypeOK, StoreAssumption
  <2> QED BY <1>2, <2>1
<1>6. Written(rev) \subseteq Mutable BY <1>2 DEF Written
<1>7. /\ snapshots' \in [Objects -> [Revisions -> Rows \cup {NoRow}]]
      /\ archive' \in [Objects -> [Revisions -> Rows \cup {NoRow}]]
      /\ current' \in [Objects -> 0 .. MaxRevision]
      /\ acked' \subseteq [object : Mutable, revision : Revisions, row : Rows]
      /\ CurrentIsReadable' /\ HistoryIsDense'
      /\ \A x \in Objects : current[x] <= current'[x]
  BY <1>2, <1>3, <1>4, <1>5, <1>6, CommitKeeps
<1>8. TypeOK' BY <1>7 DEF TypeOK
<1>9. current' \in [Objects -> Nat] BY <1>7 DEF StoreAssumption
<1> QED BY <1>7, <1>8, <1>9, PlansKeep

\* Steps that only change what a writer knows.
LEMMA CallKeeps ==
  ASSUME StoreAssumption, StoreInv, UNCHANGED <<snapshots, archive, current, acked, converged>>,
         call' \in [Writers -> Calls],
         \A w \in Writers : \/ call'[w].rev = call[w].rev
                            \/ call'[w].rev = NoRevisions
                            \/ /\ \A o \in Objects : call'[w].rev[o] <= current[o] + 1
                               /\ Written(call'[w].rev) \subseteq Mutable
  PROVE  StoreInv'
<1> USE DEF StoreInv
<1>1. TypeOK' BY DEF TypeOK
<1>2. CurrentIsReadable' BY DEF CurrentIsReadable
<1>3. HistoryIsDense' BY DEF HistoryIsDense, HistoryRow
<1>4. PlansAreNear'
  <2> SUFFICES ASSUME NEW w \in Writers, NEW o \in Objects PROVE call'[w].rev[o] <= current[o] + 1
    BY DEF PlansAreNear
  <2>1. CASE call'[w].rev = call[w].rev BY <2>1 DEF PlansAreNear
  <2>2. CASE call'[w].rev = NoRevisions
    <3>1. current[o] \in Nat BY DEF TypeOK, StoreAssumption
    <3> QED BY <2>2, <3>1 DEF NoRevisions
  <2> QED BY <2>1, <2>2
<1>5. PlansAreMutable'
  <2> SUFFICES ASSUME NEW w \in Writers PROVE Written(call'[w].rev) \subseteq Mutable
    BY DEF PlansAreMutable
  <2>1. CASE call'[w].rev = call[w].rev BY <2>1 DEF PlansAreMutable
  <2>2. CASE call'[w].rev = NoRevisions BY <2>2 DEF Written, NoRevisions
  <2> QED BY <2>1, <2>2
<1> QED BY <1>1, <1>2, <1>3, <1>4, <1>5

LEMMA StepKeeps == StoreAssumption /\ StoreInv /\ [Next]_vars => StoreInv'
<1> SUFFICES ASSUME StoreAssumption, StoreInv, [Next]_vars PROVE StoreInv'
  OBVIOUS
<1>t. TypeOK /\ MaxRevision \in Nat BY DEF StoreInv, StoreAssumption
<1>1. ASSUME NEW w \in Writers, NEW o \in Objects, PlanAppend(w, o) PROVE StoreInv'
  <2>1. MaxStored(o) = current[o] /\ current[o] \in Nat /\ current[o] < MaxRevision
    BY <1>1, <1>t, MaxStoredIsCurrent DEF StoreInv, TypeOK, PlanAppend
  <2> DEFINE rev == [NoRevisions EXCEPT ![o] = MaxStored(o) + 1]
             c == [Idle EXCEPT !.at = "planned", !.rev = rev]
  <2>2. rev \in [Objects -> 0 .. MaxRevision] /\ rev[o] = current[o] + 1
        /\ \A x \in Objects \ {o} : rev[x] = 0
    BY <2>1, <1>t DEF NoRevisions
  <2>3. c \in Calls /\ c.rev = rev BY <2>2, IdleType DEF Calls, Idle
  <2>4. call' = [call EXCEPT ![w] = c] /\ o \in Mutable
        /\ UNCHANGED <<snapshots, archive, current, acked, converged>>
    BY <1>1 DEF PlanAppend
  <2> HIDE DEF rev, c
  <2>5. call' \in [Writers -> Calls] BY <2>3, <2>4, <1>t DEF TypeOK
  <2>6. \A x \in Objects : rev[x] <= current[x] + 1
    <3> SUFFICES ASSUME NEW x \in Objects PROVE rev[x] <= current[x] + 1 OBVIOUS
    <3>1. current[x] \in Nat BY <1>t DEF TypeOK
    <3> QED BY <2>2, <3>1
  <2>7. Written(rev) \subseteq Mutable BY <2>2, <2>4 DEF Written
  <2>8. \A v \in Writers : call'[v].rev = call[v].rev \/ call'[v].rev = rev
    BY <2>3, <2>4, <1>t DEF TypeOK
  <2> QED BY <2>4, <2>5, <2>6, <2>7, <2>8, CallKeeps
<1>2. ASSUME NEW w \in Writers, NEW S \in SUBSET Objects, PlanAppendMany(w, S) PROVE StoreInv'
  <2> DEFINE rev == [o \in Objects |-> IF o \in S THEN current[o] + 1 ELSE 0]
             c == [at |-> "planned", many |-> TRUE, prior |-> NoRevisions, rev |-> rev]
  <2>1. /\ call' = [call EXCEPT ![w] = c] /\ S \subseteq Mutable
        /\ \A o \in S : current[o] < MaxRevision
        /\ UNCHANGED <<snapshots, archive, current, acked, converged>>
    BY <1>2 DEF PlanAppendMany
  <2>2. \A o \in Objects : current[o] \in Nat BY <1>t DEF TypeOK
  <2>3. /\ rev \in [Objects -> 0 .. MaxRevision] /\ \A o \in Objects : rev[o] <= current[o] + 1
        /\ \A o \in Objects : rev[o] # 0 => o \in S
    BY <2>1, <2>2, <1>t
  <2>4. c \in Calls /\ c.rev = rev BY <2>3, <1>t DEF Calls, NoRevisions
  <2> HIDE DEF rev, c
  <2>5. call' \in [Writers -> Calls] BY <2>1, <2>4, <1>t DEF TypeOK
  <2>6. Written(rev) \subseteq Mutable BY <2>1, <2>3 DEF Written
  <2>7. \A v \in Writers : call'[v].rev = call[v].rev \/ call'[v].rev = rev
    BY <2>1, <2>4, <1>t DEF TypeOK
  <2> QED BY <2>1, <2>3, <2>5, <2>6, <2>7, CallKeeps
<1>3. ASSUME NEW w \in Writers, ReadPrior(w) PROVE StoreInv'
  <2> DEFINE prior == [o \in Objects |-> IF call[w].rev[o] # 0 THEN current[o] ELSE 0]
  <2>1. prior \in [Objects -> 0 .. MaxRevision] BY <1>t DEF TypeOK
  <2>2. /\ call' = [call EXCEPT ![w].at = "prior", ![w].prior = prior]
        /\ UNCHANGED <<snapshots, archive, current, acked, converged>>
    BY <1>3 DEF ReadPrior
  <2> HIDE DEF prior
  <2>3. call[w] \in Calls /\ call \in [Writers -> Calls] BY <1>t DEF TypeOK
  <2> DEFINE c == [call[w] EXCEPT !.at = "prior", !.prior = prior]
  <2>4. c \in Calls /\ c.rev = call[w].rev BY <2>1, <2>3 DEF Calls
  <2>5. call' = [call EXCEPT ![w] = c] BY <2>2, <2>3
  <2> HIDE DEF c
  <2>6. call' \in [Writers -> Calls] /\ \A v \in Writers : call'[v].rev = call[v].rev
    BY <2>3, <2>4, <2>5
  <2> QED BY <2>2, <2>6, CallKeeps
<1>4. ASSUME NEW w \in Writers, NEW p \in Payloads, CommitAppend(w, p) PROVE StoreInv'
  <2> DEFINE c == call[w]
             row == [by |-> w, payload |-> p]
  <2>1. /\ Archivable(c.rev, row, c.prior, c.many) /\ Commit(c.rev, row, c.prior, c.many)
        /\ call' = [call EXCEPT ![w] = Idle] /\ UNCHANGED converged
    BY <1>4 DEF CommitAppend
  <2>2. c.rev \in [Objects -> 0 .. MaxRevision] /\ c.prior \in [Objects -> 0 .. MaxRevision]
        /\ c.many \in BOOLEAN
    BY <1>t DEF TypeOK, Calls
  <2>3. row \in Rows BY DEF Rows
  <2>4. (\A o \in Objects : c.rev[o] <= current[o] + 1) /\ Written(c.rev) \subseteq Mutable
    BY DEF StoreInv, PlansAreNear, PlansAreMutable
  <2> HIDE DEF c, row
  <2>5. /\ snapshots' \in [Objects -> [Revisions -> Rows \cup {NoRow}]]
        /\ archive' \in [Objects -> [Revisions -> Rows \cup {NoRow}]]
        /\ current' \in [Objects -> 0 .. MaxRevision]
        /\ acked' \subseteq [object : Mutable, revision : Revisions, row : Rows]
        /\ CurrentIsReadable' /\ HistoryIsDense'
        /\ \A o \in Objects : current[o] <= current'[o]
    BY <2>1, <2>2, <2>3, <2>4, CommitKeeps DEF StoreInv
  <2>6. TypeOK' BY <2>1, <2>5, <1>t, IdleType DEF TypeOK
  <2>7. current' \in [Objects -> Nat] BY <2>5, <1>t
  <2>8. \A v \in Writers : call'[v].rev = call[v].rev \/ call'[v].rev = NoRevisions
    BY <2>1, <1>t, IdleType DEF TypeOK
  <2> QED BY <2>5, <2>6, <2>7, <2>8, PlansKeep DEF StoreInv
<1>5. ASSUME NEW w \in Writers, call' = [call EXCEPT ![w] = Idle],
             UNCHANGED <<snapshots, archive, current, acked, converged>>
      PROVE  StoreInv'
  <2>1. call' \in [Writers -> Calls]
        /\ \A v \in Writers : call'[v].rev = call[v].rev \/ call'[v].rev = NoRevisions
    BY <1>5, <1>t, IdleType DEF TypeOK
  <2> QED BY <1>5, <2>1, CallKeeps
<1>6. ASSUME NEW w \in Writers, NEW o \in Objects, NEW p \in Payloads, AppendNext(w, o, p)
      PROVE  StoreInv'
  <2>1. current[o] \in 0 .. MaxRevision BY <1>t DEF TypeOK
  <2>2. /\ o \in Mutable /\ MaxStored(o) < MaxRevision /\ UNCHANGED <<call, converged>>
        /\ Archivable(At(o, MaxStored(o) + 1), [by |-> w, payload |-> p], At(o, current[o]), FALSE)
        /\ Commit(At(o, MaxStored(o) + 1), [by |-> w, payload |-> p], At(o, current[o]), FALSE)
    BY <1>6 DEF AppendNext
  <2> QED BY <2>1, <2>2, ImmediateKeeps
<1>7. ASSUME NEW w \in Writers, NEW o \in Objects, NEW p \in Payloads, CompareAndAppend(w, o, p)
      PROVE  StoreInv'
  <2> DEFINE held == IF current[o] = 0 THEN NoRow ELSE snapshots[o][current[o]]
             prior == IF held = NoRow THEN 0 ELSE current[o]
  <2>1. prior \in 0 .. MaxRevision BY <1>t DEF TypeOK
  <2>2. /\ o \in Mutable /\ MaxStored(o) < MaxRevision /\ UNCHANGED <<call, converged>>
        /\ Archivable(At(o, MaxStored(o) + 1), [by |-> w, payload |-> p], At(o, prior), FALSE)
        /\ Commit(At(o, MaxStored(o) + 1), [by |-> w, payload |-> p], At(o, prior), FALSE)
    BY <1>7 DEF CompareAndAppend
  <2> HIDE DEF prior
  <2> QED BY <2>1, <2>2, ImmediateKeeps
<1>8. ASSUME NEW w \in Writers, NEW S \in SUBSET Immutable, NEW p \in Payloads,
             AppendContentAddressed(w, S, p)
      PROVE  StoreInv'
  <2>1. call' = call BY <1>8 DEF AppendContentAddressed
  <2> QED BY <1>8, <2>1, ContentKeeps, PlansKeep DEF StoreInv
<1>9. ASSUME NEW page \in SUBSET NonCurrent, ArchivePage(page) PROVE StoreInv'
  <2>1. TypeOK' /\ CurrentIsReadable' /\ HistoryIsDense' /\ UNCHANGED <<current, call>>
    BY <1>9, PageKeeps DEF StoreInv
  <2>2. PlansAreNear' /\ PlansAreMutable'
    BY <2>1 DEF StoreInv, PlansAreNear, PlansAreMutable
  <2> QED BY <2>1, <2>2 DEF StoreInv
<1>10. CASE UNCHANGED vars
  BY <1>10 DEF vars, StoreInv, TypeOK, CurrentIsReadable, HistoryIsDense, HistoryRow,
               PlansAreNear, PlansAreMutable
<1> QED
  BY <1>1, <1>2, <1>3, <1>4, <1>5, <1>6, <1>7, <1>8, <1>9, <1>10
  DEF Next, WriterStep, RefuseAppend, Abandon

------------------------------------------------------------------------------
(* What was once read stays.  Every step is a transaction of appends, the  *)
(* write of content-addressed rows, an archive page, or leaves the tables  *)
(* alone; each of them leaves the rows up to the current revision as       *)
(* history read them, and moves the current revision by at most one.       *)

Transaction ==
  \E rev \in [Objects -> 0 .. MaxRevision], prior \in [Objects -> 0 .. MaxRevision],
     many \in BOOLEAN, row \in Rows :
    /\ \A o \in Objects : rev[o] <= current[o] + 1
    /\ Written(rev) \subseteq Mutable
    /\ Free(rev) /\ Archivable(rev, row, prior, many)
    /\ Commit(rev, row, prior, many)
    /\ converged' = converged

RowsStay ==
  \A o \in Objects, r \in Revisions : r <= current[o] => HistoryRow(o, r)' = HistoryRow(o, r)
GrowsByOne == \A o \in Objects : current'[o] = current[o] \/ current'[o] = current[o] + 1

\* Only compressed objects have rows in the archive.
PlainIsNotArchived == \A o \in Objects \ Compressed, r \in Revisions : archive[o][r] = NoRow

\* A content-addressed write needs room for its one revision.
ConvergedHasRoom == converged # {} => 1 \in Revisions

KeptInv == StoreInv /\ ConvergedHasRoom /\ PlainIsNotArchived /\ PlainWritesAreKept /\ ImmutableConverges

\* The actions, sorted by what they do to the tables.
LEMMA StepIs ==
  ASSUME StoreAssumption, StoreInv, [Next]_vars
  PROVE  \/ Transaction
         \/ \E w \in Writers, S \in SUBSET Immutable, p \in Payloads : AppendContentAddressed(w, S, p)
         \/ \E page \in SUBSET NonCurrent : ArchivePage(page)
         \/ UNCHANGED <<snapshots, archive, current, acked, converged>>
<1>t. TypeOK /\ MaxRevision \in Nat BY DEF StoreInv, StoreAssumption
<1>1. ASSUME NEW w \in Writers, NEW p \in Payloads, CommitAppend(w, p) PROVE Transaction
  <2> DEFINE c == call[w]
             row == [by |-> w, payload |-> p]
  <2>1. /\ Free(c.rev) /\ Archivable(c.rev, row, c.prior, c.many)
        /\ Commit(c.rev, row, c.prior, c.many) /\ converged' = converged
    BY <1>1 DEF CommitAppend
  <2>2. c.rev \in [Objects -> 0 .. MaxRevision] /\ c.prior \in [Objects -> 0 .. MaxRevision]
        /\ c.many \in BOOLEAN
    BY <1>t DEF TypeOK, Calls
  <2>3. row \in Rows BY DEF Rows
  <2>4. (\A o \in Objects : c.rev[o] <= current[o] + 1) /\ Written(c.rev) \subseteq Mutable
    BY DEF StoreInv, PlansAreNear, PlansAreMutable
  <2> HIDE DEF c, row
  <2> QED BY <2>1, <2>2, <2>3, <2>4 DEF Transaction
<1>2. ASSUME NEW w \in Writers, NEW o \in Mutable, NEW p \in Payloads, NEW prior \in 0 .. MaxRevision,
             MaxStored(o) < MaxRevision,
             Free(At(o, MaxStored(o) + 1)),
             Archivable(At(o, MaxStored(o) + 1), [by |-> w, payload |-> p], At(o, prior), FALSE),
             Commit(At(o, MaxStored(o) + 1), [by |-> w, payload |-> p], At(o, prior), FALSE),
             converged' = converged
      PROVE  Transaction
  <2> DEFINE rev == At(o, MaxStored(o) + 1)
             pr == At(o, prior)
             row == [by |-> w, payload |-> p]
  <2>1. MaxStored(o) = current[o] /\ current[o] \in Nat /\ o \in Objects
    BY MaxStoredIsCurrent DEF StoreInv, Mutable, TypeOK
  <2>2. /\ rev \in [Objects -> 0 .. MaxRevision] /\ pr \in [Objects -> 0 .. MaxRevision]
        /\ rev[o] = current[o] + 1 /\ \A x \in Objects \ {o} : rev[x] = 0
    BY <1>2, <2>1, <1>t DEF At, NoRevisions
  <2>3. row \in Rows BY DEF Rows
  <2>4. Free(rev) /\ Archivable(rev, row, pr, FALSE) /\ Commit(rev, row, pr, FALSE) BY <1>2
  <2> HIDE DEF rev, pr, row
  <2>5. \A x \in Objects : rev[x] <= current[x] + 1
    <3> SUFFICES ASSUME NEW x \in Objects PROVE rev[x] <= current[x] + 1 OBVIOUS
    <3>1. current[x] \in Nat BY <1>t DEF TypeOK
    <3> QED BY <2>2, <3>1
  <2>6. Written(rev) \subseteq Mutable BY <2>2 DEF Written
  <2> QED BY <1>2, <2>2, <2>3, <2>4, <2>5, <2>6 DEF Transaction
<1>3. ASSUME NEW w \in Writers, NEW o \in Objects, NEW p \in Payloads, AppendNext(w, o, p)
      PROVE  Transaction
  <2>1. current[o] \in 0 .. MaxRevision BY <1>t DEF TypeOK
  <2> QED BY <1>2, <1>3, <2>1 DEF AppendNext
<1>4. ASSUME NEW w \in Writers, NEW o \in Objects, NEW p \in Payloads, CompareAndAppend(w, o, p)
      PROVE  Transaction
  <2> DEFINE held == IF current[o] = 0 THEN NoRow ELSE snapshots[o][current[o]]
             prior == IF held = NoRow THEN 0 ELSE current[o]
  <2>1. prior \in 0 .. MaxRevision BY <1>t DEF TypeOK
  <2>2. /\ o \in Mutable /\ MaxStored(o) < MaxRevision /\ converged' = converged
        /\ Free(At(o, MaxStored(o) + 1))
        /\ Archivable(At(o, MaxStored(o) + 1), [by |-> w, payload |-> p], At(o, prior), FALSE)
        /\ Commit(At(o, MaxStored(o) + 1), [by |-> w, payload |-> p], At(o, prior), FALSE)
    BY <1>4 DEF CompareAndAppend
  <2> HIDE DEF prior
  <2> QED BY <2>1, <2>2, <1>2
<1> QED
  BY <1>1, <1>3, <1>4
  DEF Next, WriterStep, vars, PlanAppend, PlanAppendMany, ReadPrior, RefuseAppend, Abandon

\* A row inserted at a free revision below the current one is a row that the
\* archive hides, and a row that moves to the archive is the same row there.
LEMMA TransactionAppends ==
  ASSUME StoreAssumption, KeptInv, Transaction
  PROVE  RowsStay /\ GrowsByOne /\ PlainIsNotArchived' /\ PlainWritesAreKept' /\ ImmutableConverges'
         /\ ConvergedHasRoom'
<1> USE DEF KeptInv, StoreInv
<1>p. PICK rev \in [Objects -> 0 .. MaxRevision], prior \in [Objects -> 0 .. MaxRevision],
           many \in BOOLEAN, row \in Rows :
        /\ \A o \in Objects : rev[o] <= current[o] + 1
        /\ Written(rev) \subseteq Mutable
        /\ Free(rev) /\ Archivable(rev, row, prior, many)
        /\ Commit(rev, row, prior, many)
        /\ converged' = converged
  BY DEF Transaction
<1> DEFINE D == Displaced(rev, prior, many)
           moved == {<<o, prior[o]>> : o \in D}
           ins == Inserted(rev, row)
<1>1. /\ \A o \in Objects, r \in Revisions : ins[o][r] = IF r = rev[o] THEN row ELSE snapshots[o][r]
      /\ \A o \in Objects : current'[o] = IF rev[o] > current[o] THEN rev[o] ELSE current[o]
  BY <1>p, InsertedType DEF Commit
<1>2. D \subseteq Compressed /\ D \subseteq Objects BY DEF Displaced, Written
<1>3. \A o \in Objects, r \in Revisions : <<o, r>> \in moved <=> (o \in D /\ r = prior[o])
  BY <1>2
<1>4. /\ snapshots' = [o \in Objects |-> [r \in Revisions |->
                         IF <<o, r>> \in moved THEN NoRow ELSE ins[o][r]]]
      /\ archive' = [o \in Objects |-> [r \in Revisions |->
                         IF <<o, r>> \in moved /\ ins[o][r] # NoRow THEN ins[o][r] ELSE archive[o][r]]]
      /\ acked' = acked \cup {[object |-> o, revision |-> rev[o], row |-> row] : o \in Written(rev)}
  BY <1>p DEF Commit, SnapshotsWithout, ArchiveWith
<1>5. \A o \in Objects, r \in Revisions :
        <<o, r>> \in moved => ins[o][r] = NoRow \/ archive[o][r] \in {NoRow, ins[o][r]}
  BY <1>p, <1>3 DEF Archivable, Verifies
<1>6. \A o \in Objects, r \in Revisions : r = rev[o] => snapshots[o][r] = NoRow
  BY <1>p DEF Free, Written, Revisions
<1>7. row # NoRow BY DEF Rows, StoreAssumption
<1> HIDE DEF D, moved, ins
<1>8. RowsStay
  <2> SUFFICES ASSUME NEW o \in Objects, NEW r \in Revisions, r <= current[o]
               PROVE  HistoryRow(o, r)' = HistoryRow(o, r)
    BY DEF RowsStay
  <2>1. HistoryRow(o, r) # NoRow BY DEF HistoryIsDense
  <2>2. HistoryRow(o, r) = IF archive[o][r] # NoRow THEN archive[o][r] ELSE snapshots[o][r]
    BY DEF HistoryRow
  <2>3. HistoryRow(o, r)' = IF archive'[o][r] # NoRow THEN archive'[o][r] ELSE snapshots'[o][r]
    BY DEF HistoryRow
  <2>4. CASE archive[o][r] # NoRow
    <3>1. archive'[o][r] = archive[o][r] BY <1>4, <1>5, <2>4
    <3> QED BY <3>1, <2>2, <2>3, <2>4
  <2>5. CASE archive[o][r] = NoRow
    <3>1. snapshots[o][r] # NoRow /\ r # rev[o] BY <2>1, <2>2, <2>5, <1>6
    <3>2. ins[o][r] = snapshots[o][r] BY <3>1, <1>1
    <3> QED BY <3>1, <3>2, <2>2, <2>3, <2>5, <1>4
  <2> QED BY <2>4, <2>5
<1>9. GrowsByOne
  <2> SUFFICES ASSUME NEW o \in Objects PROVE current'[o] = current[o] \/ current'[o] = current[o] + 1
    BY DEF GrowsByOne
  <2>1. current[o] \in Nat /\ rev[o] \in Nat /\ rev[o] <= current[o] + 1
    BY <1>p DEF TypeOK, StoreAssumption
  <2> QED BY <2>1, <1>1
<1>10. PlainIsNotArchived'
  BY <1>2, <1>3, <1>4 DEF PlainIsNotArchived
<1>11. PlainWritesAreKept'
  <2> SUFFICES ASSUME NEW a \in acked', a.object \notin Compressed
               PROVE  HistoryRow(a.object, a.revision)' = a.row
    BY DEF PlainWritesAreKept
  <2>1. CASE a \in acked
    <3>1. a.object \in Objects /\ a.revision \in Revisions /\ a.row \in Rows
      BY <2>1 DEF TypeOK, Mutable
    <3>2. HistoryRow(a.object, a.revision) = a.row BY <2>1 DEF PlainWritesAreKept
    <3>3. a.revision <= current[a.object]
      BY <3>1, <3>2 DEF HistoryIsDense, Rows, StoreAssumption
    <3> QED BY <3>1, <3>2, <3>3, <1>8 DEF RowsStay
  <2>2. CASE a \notin acked
    <3>1. PICK o \in Written(rev) : a = [object |-> o, revision |-> rev[o], row |-> row]
      BY <1>4, <2>2
    <3>2. o \in Objects \ Compressed /\ rev[o] \in Revisions
      BY <3>1 DEF Written, Revisions, StoreAssumption
    <3>3. archive'[o][rev[o]] = NoRow BY <3>2, <1>10 DEF PlainIsNotArchived
    <3>4. snapshots'[o][rev[o]] = row BY <3>2, <1>1, <1>2, <1>3, <1>4
    <3> QED BY <3>1, <3>3, <3>4 DEF HistoryRow
  <2> QED BY <2>1, <2>2
<1>12. ImmutableConverges'
  <2>1. ASSUME NEW o \in Immutable PROVE current'[o] <= 1
    <3>1. o \in Objects /\ rev[o] = 0 BY <1>p DEF Written, Mutable, StoreAssumption
    <3>2. current'[o] = current[o] BY <3>1, <1>1 DEF TypeOK
    <3> QED BY <3>2 DEF ImmutableConverges
  <2>2. ASSUME NEW c \in converged'
        PROVE  HistoryRow(c.object, 1)' \in Rows /\ HistoryRow(c.object, 1)'.payload = c.payload
    <3>1. c \in converged /\ c.object \in Objects BY <1>p DEF TypeOK, StoreAssumption
    <3>2. HistoryRow(c.object, 1) \in Rows /\ HistoryRow(c.object, 1).payload = c.payload
      BY <3>1 DEF ImmutableConverges
    <3>3. 1 \in Revisions BY <3>1 DEF ConvergedHasRoom
    <3> QED BY <3>1, <3>2, <3>3, <1>8 DEF RowsStay, HistoryIsDense, Rows, StoreAssumption
  <2> QED BY <2>1, <2>2 DEF ImmutableConverges
<1>13. ConvergedHasRoom' BY <1>p DEF ConvergedHasRoom
<1> QED BY <1>8, <1>9, <1>10, <1>11, <1>12, <1>13

\* A content-addressed row is inserted only where the identity has none.
LEMMA ContentAppends ==
  ASSUME StoreAssumption, KeptInv,
         NEW w \in Writers, NEW S \in SUBSET Immutable, NEW p \in Payloads,
         AppendContentAddressed(w, S, p)
  PROVE  RowsStay /\ GrowsByOne /\ PlainIsNotArchived' /\ PlainWritesAreKept' /\ ImmutableConverges'
         /\ ConvergedHasRoom'
<1> USE DEF KeptInv, StoreInv
<1> DEFINE rev == [o \in Objects |-> IF o \in S /\ Stored(o) = {} THEN 1 ELSE 0]
           row == [by |-> w, payload |-> p]
<1>1. /\ snapshots' = Inserted(rev, row) /\ current' = Advanced(rev)
      /\ archive' = archive /\ acked' = acked
      /\ converged' = converged \cup {[object |-> o, payload |-> p] : o \in S}
      /\ \A o \in S : Agrees(o, p)
  BY DEF AppendContentAddressed
<1>2. MaxRevision > 0 /\ MaxRevision \in Nat BY DEF AppendContentAddressed, StoreAssumption
<1>3. 1 \in Revisions BY <1>2 DEF Revisions
<1>4. rev \in [Objects -> 0 .. MaxRevision] /\ row \in Rows /\ row.payload = p BY <1>2 DEF Rows
<1>5. \A o \in Objects : rev[o] = IF o \in S /\ Stored(o) = {} THEN 1 ELSE 0 OBVIOUS
<1> HIDE DEF rev, row
<1>6. /\ \A o \in Objects, r \in Revisions :
           snapshots'[o][r] = IF r = rev[o] THEN row ELSE snapshots[o][r]
      /\ \A o \in Objects : current'[o] = IF rev[o] > current[o] THEN rev[o] ELSE current[o]
  BY <1>1, <1>4, InsertedType
<1>7. ASSUME NEW o \in Objects, Stored(o) = {} PROVE current[o] = 0
  <2>1. current[o] \notin Revisions BY <1>7 DEF Stored, CurrentIsReadable, Revisions
  <2> QED BY <2>1 DEF TypeOK, Revisions
<1>8. RowsStay
  <2> SUFFICES ASSUME NEW o \in Objects, NEW r \in Revisions, r <= current[o]
               PROVE  HistoryRow(o, r)' = HistoryRow(o, r)
    BY DEF RowsStay
  <2>1. r # rev[o]
    <3> SUFFICES ASSUME r = rev[o] PROVE FALSE OBVIOUS
    <3>1. r >= 1 /\ r \in Nat BY DEF Revisions
    <3>2. Stored(o) = {} BY <3>1, <1>5
    <3> QED BY <3>1, <3>2, <1>7
  <2> QED BY <2>1, <1>1, <1>6 DEF HistoryRow
<1>9. GrowsByOne
  <2> SUFFICES ASSUME NEW o \in Objects PROVE current'[o] = current[o] \/ current'[o] = current[o] + 1
    BY DEF GrowsByOne
  <2>1. CASE o \in S /\ Stored(o) = {} BY <2>1, <1>5, <1>6, <1>7
  <2>2. CASE ~(o \in S /\ Stored(o) = {}) BY <2>2, <1>5, <1>6 DEF TypeOK
  <2> QED BY <2>1, <2>2
<1>10. PlainIsNotArchived' BY <1>1 DEF PlainIsNotArchived
<1>11. PlainWritesAreKept'
  <2> SUFFICES ASSUME NEW a \in acked, a.object \notin Compressed
               PROVE  HistoryRow(a.object, a.revision)' = a.row
    BY <1>1 DEF PlainWritesAreKept
  <2>1. a.object \in Objects /\ a.revision \in Revisions /\ a.row \in Rows
    BY DEF TypeOK, Mutable
  <2>2. HistoryRow(a.object, a.revision) = a.row BY DEF PlainWritesAreKept
  <2>3. a.revision <= current[a.object]
    BY <2>1, <2>2 DEF HistoryIsDense, Rows, StoreAssumption
  <2> QED BY <2>1, <2>2, <2>3, <1>8 DEF RowsStay
<1>12. ASSUME NEW o \in Immutable PROVE current'[o] <= 1
  <2>1. o \in Objects /\ current[o] <= 1 /\ current[o] \in Nat
    BY DEF ImmutableConverges, TypeOK, StoreAssumption
  <2> QED BY <2>1, <1>5, <1>6
<1>13. ASSUME NEW o \in S
       PROVE  HistoryRow(o, 1)' \in Rows /\ HistoryRow(o, 1)'.payload = p
  <2>1. o \in Objects /\ o \notin Compressed BY DEF StoreAssumption
  <2>2. archive'[o][1] = NoRow BY <2>1, <1>3, <1>10 DEF PlainIsNotArchived
  <2>3. HistoryRow(o, 1)' = snapshots'[o][1] BY <2>2 DEF HistoryRow
  <2>4. CASE Stored(o) = {} BY <2>1, <2>3, <2>4, <1>3, <1>4, <1>5, <1>6
  <2>5. CASE Stored(o) # {}
    <3>1. PICK r \in Revisions : r \in Stored(o) BY <2>5 DEF Stored
    <3>2. snapshots[o][r] # NoRow /\ snapshots[o][r].payload = p
      BY <3>1, <1>1 DEF Agrees, Stored
    <3>3. HistoryRow(o, r) # NoRow BY <3>2 DEF HistoryRow
    <3>4. r <= current[o] /\ current[o] <= 1
      BY <3>3, <2>1 DEF HistoryIsDense, ImmutableConverges
    <3>5. r = 1 BY <3>4, <2>1 DEF Revisions, TypeOK, StoreAssumption
    <3>6. rev[o] = 0 BY <2>1, <2>5, <1>5
    <3>7. snapshots'[o][1] = snapshots[o][1] BY <3>6, <2>1, <1>3, <1>6
    <3>8. snapshots[o][1] \in Rows BY <3>2, <3>5, <2>1, <1>3 DEF TypeOK
    <3> QED BY <3>2, <3>5, <3>7, <3>8, <2>3
  <2> QED BY <2>4, <2>5
<1>14. ASSUME NEW c \in converged'
       PROVE  HistoryRow(c.object, 1)' \in Rows /\ HistoryRow(c.object, 1)'.payload = c.payload
  <2>1. CASE c \in converged
    <3>1. c.object \in Objects BY <2>1 DEF TypeOK, StoreAssumption
    <3>2. HistoryRow(c.object, 1) \in Rows /\ HistoryRow(c.object, 1).payload = c.payload
      BY <2>1 DEF ImmutableConverges
    <3> QED BY <3>1, <3>2, <1>3, <1>8 DEF RowsStay, HistoryIsDense, Rows, StoreAssumption
  <2>2. CASE c \notin converged
    <3>1. PICK o \in S : c = [object |-> o, payload |-> p] BY <2>2, <1>1
    <3> QED BY <3>1, <1>13
  <2> QED BY <2>1, <2>2
<1>15. ImmutableConverges' BY <1>12, <1>14 DEF ImmutableConverges
<1>16. ConvergedHasRoom' BY <1>3 DEF ConvergedHasRoom
<1> QED BY <1>8, <1>9, <1>10, <1>11, <1>15, <1>16

\* An archive page moves a row as it is.
LEMMA PageAppends ==
  ASSUME StoreAssumption, KeptInv, NEW page \in SUBSET NonCurrent, ArchivePage(page)
  PROVE  RowsStay /\ GrowsByOne /\ PlainIsNotArchived' /\ PlainWritesAreKept' /\ ImmutableConverges'
         /\ ConvergedHasRoom'
<1> USE DEF KeptInv, StoreInv
<1>1. /\ snapshots' = [o \in Objects |-> [r \in Revisions |->
                         IF <<o, r>> \in page THEN NoRow ELSE snapshots[o][r]]]
      /\ archive' = [o \in Objects |-> [r \in Revisions |->
                         IF <<o, r>> \in page /\ snapshots[o][r] # NoRow
                         THEN snapshots[o][r] ELSE archive[o][r]]]
      /\ UNCHANGED <<current, call, acked, converged>>
  BY DEF ArchivePage, SnapshotsWithout, ArchiveWith
<1>2. ASSUME NEW o \in Objects, NEW r \in Revisions PROVE HistoryRow(o, r)' = HistoryRow(o, r)
  <2>1. CASE <<o, r>> \in page
    <3>1. snapshots[o][r] # NoRow BY <2>1 DEF NonCurrent
    <3>2. archive[o][r] \in {NoRow, snapshots[o][r]} BY <2>1, <3>1 DEF ArchivePage, Verifies
    <3> QED BY <2>1, <3>1, <3>2, <1>1 DEF HistoryRow
  <2>2. CASE <<o, r>> \notin page BY <2>2, <1>1 DEF HistoryRow
  <2> QED BY <2>1, <2>2
<1>3. RowsStay BY <1>2 DEF RowsStay
<1>4. GrowsByOne BY <1>1 DEF GrowsByOne
<1>5. PlainIsNotArchived' BY <1>1 DEF PlainIsNotArchived, NonCurrent
<1>6. PlainWritesAreKept'
  <2>1. \A a \in acked : a.object \in Objects /\ a.revision \in Revisions
    BY DEF TypeOK, Mutable
  <2> QED BY <2>1, <1>1, <1>2 DEF PlainWritesAreKept
<1>7. ImmutableConverges'
  <2>1. \A c \in converged : c.object \in Objects /\ 1 \in Revisions
    BY DEF TypeOK, StoreAssumption, ConvergedHasRoom
  <2> QED BY <2>1, <1>1, <1>2 DEF ImmutableConverges
<1>8. ConvergedHasRoom' BY <1>1 DEF ConvergedHasRoom
<1> QED BY <1>3, <1>4, <1>5, <1>6, <1>7, <1>8

LEMMA StepAppends ==
  ASSUME StoreAssumption, KeptInv, [Next]_vars
  PROVE  KeptInv' /\ RowsStay /\ GrowsByOne
<1>1. StoreInv' BY StepKeeps DEF KeptInv
<1>2. CASE UNCHANGED <<snapshots, archive, current, acked, converged>>
  <2>1. \A o, r : HistoryRow(o, r)' = HistoryRow(o, r) BY <1>2 DEF HistoryRow
  <2>2. RowsStay /\ GrowsByOne BY <2>1, <1>2 DEF RowsStay, GrowsByOne
  <2>3. PlainIsNotArchived' /\ ConvergedHasRoom'
    BY <1>2 DEF KeptInv, PlainIsNotArchived, ConvergedHasRoom
  <2>4. PlainWritesAreKept' /\ ImmutableConverges'
    BY <2>1, <1>2 DEF KeptInv, PlainWritesAreKept, ImmutableConverges
  <2> QED BY <1>1, <2>2, <2>3, <2>4 DEF KeptInv
<1>3. CASE Transaction BY <1>1, <1>3, TransactionAppends DEF KeptInv
<1>4. ASSUME NEW w \in Writers, NEW S \in SUBSET Immutable, NEW p \in Payloads,
             AppendContentAddressed(w, S, p)
      PROVE  KeptInv' /\ RowsStay /\ GrowsByOne
  BY <1>1, <1>4, ContentAppends DEF KeptInv
<1>5. ASSUME NEW page \in SUBSET NonCurrent, ArchivePage(page)
      PROVE  KeptInv' /\ RowsStay /\ GrowsByOne
  BY <1>1, <1>5, PageAppends DEF KeptInv
<1> QED BY <1>2, <1>3, <1>4, <1>5, StepIs DEF KeptInv

LEMMA InitKeeps == StoreAssumption /\ Init => KeptInv
<1> SUFFICES ASSUME StoreAssumption, Init PROVE KeptInv OBVIOUS
<1>1. StoreInv BY InitEstablishes
<1>2. PlainIsNotArchived BY DEF Init, PlainIsNotArchived
<1>3. PlainWritesAreKept /\ ConvergedHasRoom BY DEF Init, PlainWritesAreKept, ConvergedHasRoom
<1>4. ImmutableConverges
  <2>1. \A o \in Immutable : o \in Objects /\ current[o] = 0 BY DEF Init, StoreAssumption
  <2> QED BY <2>1 DEF Init, ImmutableConverges
<1> QED BY <1>1, <1>2, <1>3, <1>4 DEF KeptInv

------------------------------------------------------------------------------
(* The refinement: what history returns is the log of RevisionHistory.     *)

\* A history is the rows up to the current revision.
HistoryIsRows ==
  \A o \in Objects :
    /\ History(o) = [r \in 1 .. current[o] |-> HistoryRow(o, r)]
    /\ current[o] \in 0 .. MaxRevision
    /\ \A r \in 1 .. current[o] : r \in Revisions /\ HistoryRow(o, r) \in Rows

LEMMA HistoryIs == StoreInv => HistoryIsRows
<1> SUFFICES ASSUME StoreInv, NEW o \in Objects
             PROVE  /\ History(o) = [r \in 1 .. current[o] |-> HistoryRow(o, r)]
                    /\ current[o] \in 0 .. MaxRevision
                    /\ \A r \in 1 .. current[o] : r \in Revisions /\ HistoryRow(o, r) \in Rows
  BY DEF HistoryIsRows
<1> USE StoreAssumption
<1> DEFINE K == {r \in Revisions : HistoryRow(o, r) # NoRow}
           S == K \cup {0}
<1>1. current[o] \in 0 .. MaxRevision /\ MaxRevision \in Nat
  BY DEF StoreInv, TypeOK, StoreAssumption
<1>2. \A r \in Revisions : r \in K <=> r <= current[o] BY DEF StoreInv, HistoryIsDense
<1>3. S \in SUBSET Nat /\ current[o] \in S /\ \A x \in S : x <= current[o]
  BY <1>1, <1>2 DEF Revisions
<1>4. LastKept(o) = current[o]
  <2> HIDE DEF K
  <2>1. Max(S) = current[o] BY <1>3, MaxIs
  <2> QED BY <2>1 DEF LastKept, K
<1>5. History(o) = [r \in 1 .. current[o] |-> HistoryRow(o, r)] BY <1>4 DEF History
<1>6. ASSUME NEW r \in 1 .. current[o] PROVE r \in Revisions /\ HistoryRow(o, r) \in Rows
  <2>1. r \in Revisions /\ r <= current[o] BY <1>1 DEF Revisions
  <2>2. HistoryRow(o, r) # NoRow BY <2>1 DEF StoreInv, HistoryIsDense
  <2> QED BY <2>1, <2>2 DEF HistoryRow, StoreInv, TypeOK
<1> QED BY <1>1, <1>5, <1>6

\* Every step of the store extends the logs of the objects it advanced by one
\* row each, and an immutable one only from the empty log.
LEMMA StepPublishes ==
  ASSUME KeptInv, [Next]_vars
  PROVE  Log!Next
<1>1. KeptInv' /\ RowsStay /\ GrowsByOne BY StepAppends, StoreAssumption
<1> DEFINE log == [o \in Objects |-> History(o)]
           grown == {o \in Objects : current'[o] # current[o]}
           row == [o \in grown |-> HistoryRow(o, current[o])']
<1>2. HistoryIsRows BY HistoryIs DEF KeptInv
<1>3. HistoryIsRows'
  <2>1. StoreInv' BY <1>1 DEF KeptInv
  <2> QED BY <2>1, HistoryIs, PTL
<1>4. ASSUME NEW o \in Objects
      PROVE  /\ History(o) = [r \in 1 .. current[o] |-> HistoryRow(o, r)]
             /\ current[o] \in Nat
             /\ \A r \in 1 .. current[o] : HistoryRow(o, r) \in Rows
             /\ \A r \in 1 .. current[o] : HistoryRow(o, r)' = HistoryRow(o, r)
             /\ History(o)' = [r \in 1 .. current'[o] |-> HistoryRow(o, r)']
             /\ \A r \in 1 .. current'[o] : HistoryRow(o, r)' \in Rows
             /\ current'[o] = current[o] \/ current'[o] = current[o] + 1
  <2>1. MaxRevision \in Nat BY StoreAssumption DEF StoreAssumption
  <2>2. current[o] \in Nat BY <1>2, <2>1 DEF HistoryIsRows
  <2>3. \A r \in 1 .. current[o] : HistoryRow(o, r)' = HistoryRow(o, r)
    BY <1>1, <1>2, <2>2 DEF HistoryIsRows, RowsStay
  <2> QED BY <1>1, <1>2, <1>3, <2>2, <2>3 DEF HistoryIsRows, GrowsByOne
<1>5. ASSUME NEW o \in grown
      PROVE  /\ o \in Objects /\ current'[o] = current[o] + 1 /\ current[o] \in Nat
             /\ row[o] = HistoryRow(o, current[o])' /\ row[o] \in Rows
  BY <1>4
<1>6. row \in [grown -> Rows] BY <1>5
<1>7. \A o \in Objects : log'[o] = History(o)' /\ log[o] = History(o) OBVIOUS
<1>8. ASSUME NEW o \in Objects \ grown PROVE History(o)' = History(o)
  BY <1>4
<1>9. ASSUME NEW o \in grown PROVE History(o)' = Append(History(o), row[o])
  <2> DEFINE n == current[o]
  <2>1. History(o) \in Seq(Rows) /\ Len(History(o)) = n BY <1>4, <1>5
  <2>2. Append(History(o), row[o]) = [i \in 1 .. n + 1 |-> IF i = n + 1 THEN row[o] ELSE History(o)[i]]
    BY <2>1, <1>5
  <2> QED BY <2>2, <1>4, <1>5
<1>10. ASSUME NEW o \in grown \cap Immutable PROVE History(o) = <<>>
  <2>1. current'[o] <= 1 BY <1>1 DEF KeptInv, ImmutableConverges
  <2>2. current[o] = 0 BY <2>1, <1>5
  <2> QED BY <2>2, <1>4, <1>5
<1>11. \A o \in grown \cap Immutable : log[o] = <<>> BY <1>7, <1>10
<1>12. log' = [o \in Objects |-> IF o \in grown THEN Append(log[o], row[o]) ELSE log[o]]
  BY <1>8, <1>9
<1>13. grown \in SUBSET Objects OBVIOUS
<1> QED BY <1>6, <1>11, <1>12, <1>13 DEF Log!Next, Log!Publish

------------------------------------------------------------------------------
(* The theorems                                                            *)

\* The inductive invariant holds in every reachable state.
THEOREM StoreInvariance == Spec => []StoreInv
<1>1. Init => StoreInv BY StoreAssumption, InitEstablishes
<1>2. StoreInv /\ [Next]_vars => StoreInv' BY StoreAssumption, StepKeeps
<1> QED BY <1>1, <1>2, PTL DEF Spec

\* The tables, the calls and the ghosts keep their types.
THEOREM StoreTypeCorrect == Spec => []TypeOK
<1>1. StoreInv => TypeOK BY DEF StoreInv
<1> QED BY <1>1, StoreInvariance, PTL

\* No interleaving of planned appends, immediate appends and archive pages
\* compresses the row the current pointer names (_archive_snapshot, append).
THEOREM CurrentStaysReadable == Spec => []CurrentIsReadable
<1>1. StoreInv => CurrentIsReadable BY DEF StoreInv
<1> QED BY <1>1, StoreInvariance, PTL

\* history(o) has exactly one row for each revision up to the current one.
THEOREM HistoryStaysDense == Spec => []HistoryIsDense
<1>1. StoreInv => HistoryIsDense BY DEF StoreInv
<1> QED BY <1>1, StoreInvariance, PTL

\* The kept rows: the inductive invariant of the two theorems that follow.
THEOREM KeptInvariance == Spec => []KeptInv
<1>1. Init => KeptInv BY StoreAssumption, InitKeeps
<1>2. KeptInv /\ [Next]_vars => KeptInv' BY StoreAssumption, StepAppends
<1> QED BY <1>1, <1>2, PTL DEF Spec

\* A write acknowledged to its caller is what history returns for its revision
\* for ever, for every owner whose history is not compressed (append,
\* append_many, append_next, compare_current_and_append).
THEOREM PlainWritesStayKept == Spec => []PlainWritesAreKept
<1>1. KeptInv => PlainWritesAreKept BY DEF KeptInv
<1> QED BY <1>1, KeptInvariance, PTL

\* append_content_addressed_many converges: an identity has one revision, which
\* holds the payload of every call that was accepted for it.
THEOREM ImmutableStaysConverged == Spec => []ImmutableConverges
<1>1. KeptInv => ImmutableConverges BY DEF KeptInv
<1> QED BY <1>1, KeptInvariance, PTL

\* The store implements RevisionHistory: seen through history, every step
\* appends at most one row to each log, changes no row that could be read
\* before it, and gives an immutable identity its first row only.
THEOREM StoreImplementsHistory == Spec => HistoryOnlyGrows
<1> DEFINE log == [o \in Objects |-> History(o)]
<1>1. Init => Log!Init
  <2> SUFFICES ASSUME Init PROVE \A o \in Objects : History(o) \in Seq(Rows)
    BY DEF Log!Init
  <2>1. HistoryIsRows BY StoreAssumption, InitKeeps, HistoryIs DEF KeptInv
  <2> SUFFICES ASSUME NEW o \in Objects PROVE History(o) \in Seq(Rows) OBVIOUS
  <2>2. current[o] \in Nat BY <2>1 DEF HistoryIsRows
  <2> QED BY <2>1, <2>2 DEF HistoryIsRows
<1>2. KeptInv /\ [Next]_vars => [Log!Next]_log
  BY StepPublishes
<1> QED BY <1>1, <1>2, KeptInvariance, PTL DEF Spec, HistoryOnlyGrows, Log!Spec
==============================================================================
