------------------------- MODULE FilesystemClaimsProofs -------------------------
(***************************************************************************)
(* The claim tables stay in step for any number of files, workers and      *)
(* claims.  ClaimStatusAgrees is inductive together with the types and the *)
(* fact that a row in progress names a claim; the three action properties  *)
(* of the rows follow from the same invariant.                             *)
(***************************************************************************)
EXTENDS FilesystemClaims, TLAPS

RowsInProgressAreClaimed ==
    \A o \in Objects : Incomplete(o) => items[o].claim \in Claims

HeldAreClaims ==
    \A w \in Workers : worker[w] # Idle => worker[w].claim \in Claims

\* Whoever is about to write a coverage row knows what to write.
MarksAreChosen ==
    \A w \in Workers : worker[w].step \in {"read", "write"} \cup Checkpointed =>
                         worker[w].mark # "none"

Typed == TypeOK /\ RowsInProgressAreClaimed /\ HeldAreClaims /\ MarksAreChosen
ClaimInv == Typed /\ ClaimStatusAgrees

USE ClaimsAssumption

LEMMA InitEstablishes == Init => ClaimInv
<1> SUFFICES ASSUME Init PROVE ClaimInv
  OBVIOUS
<1>1. TypeOK
  BY DEF Init, TypeOK, Revisions, CoverageRows, Sources, NoRow, Unclaimed, ItemRows,
         Phases, FILESYSTEM_CLAIM_STAGES, Rank, Statuses, Idle, Pages, Steps, Marks,
         Checkpointed, FirstScan, Scans, NoRows
<1>2. \A o \in Objects : ~Incomplete(o)
  BY DEF Init, Incomplete, Unclaimed
<1>3. RowsInProgressAreClaimed /\ HeldAreClaims /\ MarksAreChosen
  BY <1>2 DEF RowsInProgressAreClaimed, HeldAreClaims, MarksAreChosen, Init, Idle,
              Checkpointed
<1>4. ClaimStatusAgrees
  BY <1>2 DEF ClaimStatusAgrees, IncompleteOf, RowsOf, Init
<1> QED
  BY <1>1, <1>3, <1>4 DEF ClaimInv, Typed

----------------------------------------------------------------------------
(* Types, one action at a time *)

\* The types of the actions' rows, for the leaves that need them all.
LEMMA RowTypes ==
    /\ NoRow \in CoverageRows
    /\ \A r \in CoverageRows, m \in {"current", "blocked", "other"} :
         Marked(r, m) \in CoverageRows
    /\ \A r \in CoverageRows, n \in Revisions : Reconciled(r, n) \in CoverageRows
    /\ Idle \in Pages
<1>1. NoRow \in CoverageRows
  BY DEF NoRow, CoverageRows, Revisions, Sources
<1>2. ASSUME NEW r \in CoverageRows, NEW m \in {"current", "blocked", "other"}
      PROVE  Marked(r, m) \in CoverageRows
  BY DEF Marked, CoverageRows, Sources
<1>3. ASSUME NEW r \in CoverageRows, NEW n \in Revisions
      PROVE  Reconciled(r, n) \in CoverageRows
  BY DEF Reconciled, CoverageRows, Sources
<1>4. Idle \in Pages
  BY <1>1 DEF Idle, Pages, Steps, Marks
<1> QED
  BY <1>1, <1>2, <1>3, <1>4

LEMMA TurnTypes ==
    ASSUME TypeOK, NEW w \in Workers, NEW p \in Pages, Turn(w, p),
           HeldAreClaims, MarksAreChosen,
           p # Idle => p.claim \in Claims,
           p.step \in {"read", "write"} \cup Checkpointed => p.mark # "none"
    PROVE  worker' \in [Workers -> Pages] /\ HeldAreClaims' /\ MarksAreChosen'
<1>1. worker' \in [Workers -> Pages]
  BY DEF TypeOK, Turn
<1>2. \A v \in Workers : worker'[v] = IF v = w THEN p ELSE worker[v]
  BY DEF TypeOK, Turn
<1> QED
  BY <1>1, <1>2 DEF HeldAreClaims, MarksAreChosen

LEMMA ClaimTypes ==
    ASSUME Typed, NEW w \in Workers, Claim(w)
    PROVE  Typed'
<1> DEFINE c == CHOOSE d \in Fresh : TRUE
<1>1. c \in Claims
  BY DEF Claim, Fresh
<1>p. PICK old \in SUBSET Objects, new \in SUBSET Objects :
        /\ items' = [o \in Objects |-> IF o \in old THEN Taken(o, c)
                                       ELSE IF o \in new THEN Opened(o, c)
                                       ELSE items[o]]
        /\ claims' = [d \in Claims |->
                        IF d = c THEN "active"
                        ELSE IF /\ d \in {items[o].claim : o \in old}
                                /\ claims[d] = "active"
                          THEN "reclaimed"
                        ELSE claims[d]]
        /\ Turn(w, [worker[w] EXCEPT !.step = "claimed", !.claim = c])
  BY Zenon DEF Claim
<1> HIDE DEF c
<1> USE DEF Typed, TypeOK
<1>2. items' \in [Objects -> ItemRows]
  <2>1. ASSUME NEW o \in Objects PROVE Taken(o, c) \in ItemRows
    <3>1. items[o] \in ItemRows
      OBVIOUS
    <3> QED
      BY <1>1, <3>1 DEF Taken, ItemRows, Phases
  <2>2. ASSUME NEW o \in Objects PROVE Opened(o, c) \in ItemRows
    BY <1>1 DEF Opened, ItemRows, Phases, FILESYSTEM_CLAIM_STAGES, Rank
  <2> QED
    BY <1>p, <2>1, <2>2
<1>3. claims' \in [Claims -> Statuses]
  BY <1>p DEF Statuses
<1>4. worker' \in [Workers -> Pages] /\ HeldAreClaims' /\ MarksAreChosen'
  <2> DEFINE p == [worker[w] EXCEPT !.step = "claimed", !.claim = c]
  <2>1. p \in Pages /\ p.claim \in Claims /\ p.step = "claimed"
    <3>1. worker[w] \in Pages
      OBVIOUS
    <3> QED
      BY <1>1, <3>1 DEF Pages, Steps
  <2>2. Turn(w, p)
    BY <1>p
  <2> HIDE DEF p
  <2> QED
    BY <2>1, <2>2, TurnTypes DEF Checkpointed
<1>5. TypeOK'
  BY <1>2, <1>3, <1>4 DEF Claim
<1>6. RowsInProgressAreClaimed'
  <2> SUFFICES ASSUME NEW o \in Objects, Incomplete(o)'
               PROVE  items'[o].claim \in Claims
    BY DEF RowsInProgressAreClaimed
  <2>1. CASE o \in old
    BY <1>1, <1>p, <2>1 DEF Taken, ItemRows
  <2>2. CASE o \notin old /\ o \in new
    BY <1>1, <1>p, <2>2 DEF Opened
  <2>3. CASE o \notin old /\ o \notin new
    BY <1>p, <2>3 DEF RowsInProgressAreClaimed, Incomplete
  <2> QED
    BY <2>1, <2>2, <2>3
<1> QED
  BY <1>4, <1>5, <1>6

\* Rows that only expire keep their claims and their types.
LEMMA ExpiryTypes ==
    ASSUME Typed, NEW c \in Claims,
           items' = [o \in Objects |-> IF o \in IncompleteOf(c)
                                       THEN [items[o] EXCEPT !.phase = "expired"]
                                       ELSE items[o]]
    PROVE  items' \in [Objects -> ItemRows] /\ RowsInProgressAreClaimed'
<1> USE DEF Typed, TypeOK
<1>1. ASSUME NEW o \in Objects
      PROVE  /\ items'[o] \in ItemRows
             /\ items'[o].claim = items[o].claim
             /\ Incomplete(o)' => Incomplete(o)
  <2>1. items[o] \in ItemRows
    OBVIOUS
  <2>2. [items[o] EXCEPT !.phase = "expired"] \in ItemRows
    BY <2>1 DEF ItemRows, Phases
  <2> QED
    BY <2>1, <2>2 DEF IncompleteOf, RowsOf, Incomplete, ItemRows
<1>2. items' \in [Objects -> ItemRows]
  BY <1>1
<1> QED
  BY <1>1, <1>2 DEF RowsInProgressAreClaimed

LEMMA AbandonTypes ==
    ASSUME Typed, NEW w \in Workers, worker[w] # Idle, Abandon(w),
           faults' \in 0 .. MaxFaults
    PROVE  Typed'
<1>1. worker[w].claim \in Claims
  BY DEF Typed, HeldAreClaims
<1>2. worker' \in [Workers -> Pages] /\ HeldAreClaims' /\ MarksAreChosen'
  <2>1. Turn(w, Idle)
    BY DEF Abandon
  <2> QED
    BY <2>1, RowTypes, TurnTypes DEF Typed, Idle, Checkpointed
<1>3. /\ items' \in [Objects -> ItemRows] /\ RowsInProgressAreClaimed'
      /\ claims' \in [Claims -> Statuses]
  <2>1. CASE claims[worker[w].claim] = "active"
    BY <1>1, <2>1, ExpiryTypes DEF Abandon, Abandoned, Typed, TypeOK, Statuses
  <2>2. CASE claims[worker[w].claim] # "active"
    BY <2>2 DEF Abandon, Abandoned, Typed, TypeOK, RowsInProgressAreClaimed,
                Incomplete
  <2> QED
    BY <2>1, <2>2
<1>4. TypeOK'
  BY <1>2, <1>3 DEF Abandon, Typed, TypeOK
<1> QED
  BY <1>2, <1>3, <1>4 DEF Typed

\* A step of a worker that touches neither the claim tables nor the scan.
LEMMA QuietTurnTypes ==
    ASSUME Typed, NEW w \in Workers, NEW p \in Pages, Turn(w, p),
           p # Idle => p.claim \in Claims,
           p.step \in {"read", "write"} \cup Checkpointed => p.mark # "none",
           coverage' \in [Objects -> CoverageRows],
           UNCHANGED <<index, items, claims, scan, orphans>>,
           faults' \in 0 .. MaxFaults
    PROVE  Typed'
<1>1. worker' \in [Workers -> Pages] /\ HeldAreClaims' /\ MarksAreChosen'
  BY TurnTypes DEF Typed
<1>2. TypeOK' /\ RowsInProgressAreClaimed'
  BY <1>1 DEF Typed, TypeOK, RowsInProgressAreClaimed, Incomplete
<1> QED
  BY <1>1, <1>2 DEF Typed

LEMMA WorkTypes ==
    ASSUME Typed, NEW w \in Workers, Work(w)
    PROVE  Typed'
<1> USE DEF Typed, TypeOK
<1>1. worker[w] \in Pages
  OBVIOUS
<1>2. worker[w] # Idle => worker[w].claim \in Claims
  BY DEF HeldAreClaims
<1>3. Idle.step = "idle"
  BY DEF Idle
<1>4. CASE Load(w)
  <2> DEFINE p == [worker[w] EXCEPT
                     !.step = "page", !.todo = RowsOf(worker[w].claim),
                     !.invalid = {o \in RowsOf(worker[w].claim) :
                                    ~RegistrationCurrent(o)}]
  <2>1. worker[w] # Idle
    BY <1>3, <1>4 DEF Load
  <2>2. Turn(w, p) /\ UNCHANGED <<index, coverage, items, claims, scan, orphans, faults>>
    BY <1>4 DEF Load
  <2>3. p \in Pages /\ p.claim \in Claims /\ p.step = "page"
    BY <1>1, <1>2, <2>1 DEF Pages, Steps, RowsOf
  <2> HIDE DEF p
  <2> QED
    BY <2>2, <2>3, QuietTurnTypes DEF Checkpointed
<1>5. ASSUME NEW o \in Objects, Take(w, o)
      PROVE  Typed'
  <2>1. worker[w] # Idle
    BY <1>3, <1>5 DEF Take
  <2>2. PICK mark \in {"blocked", "current"}, noDelta \in BOOLEAN :
          Turn(w, [worker[w] EXCEPT
                     !.step = IF noDelta THEN "extraction" ELSE "read",
                     !.todo = @ \ {o}, !.invalid = @ \ {o},
                     !.object = {o}, !.mark = mark, !.noDelta = noDelta])
    BY <1>5 DEF Take
  <2> DEFINE p == [worker[w] EXCEPT
                     !.step = IF noDelta THEN "extraction" ELSE "read",
                     !.todo = @ \ {o}, !.invalid = @ \ {o},
                     !.object = {o}, !.mark = mark, !.noDelta = noDelta]
  <2>3. p \in Pages /\ p.claim \in Claims /\ p.mark # "none"
    BY <1>1, <1>2, <2>1 DEF Pages, Steps, Marks, Checkpointed
  <2>4. Turn(w, p) /\ UNCHANGED <<index, coverage, items, claims, scan, orphans, faults>>
    BY <1>5, <2>2 DEF Take
  <2> HIDE DEF p
  <2> QED
    BY <2>3, <2>4, QuietTurnTypes
<1>6. CASE EndPage(w)
  BY <1>6, RowTypes, QuietTurnTypes DEF EndPage, Idle, Checkpointed
<1>7. ASSUME NEW o \in Objects, ReadRow(w, o)
      PROVE  Typed'
  <2>1. worker[w] # Idle /\ worker[w].mark # "none"
    BY <1>3, <1>7 DEF ReadRow, MarksAreChosen
  <2>2. CASE coverage[o].active
    <3> DEFINE p == [worker[w] EXCEPT !.step = "write", !.row = coverage[o]]
    <3>1. p \in Pages /\ p.claim \in Claims /\ p.mark # "none"
      BY <1>1, <1>2, <2>1 DEF Pages, Steps
    <3>2. Turn(w, p) /\ UNCHANGED <<index, coverage, items, claims, scan, orphans, faults>>
      BY <1>7, <2>2 DEF ReadRow
    <3> HIDE DEF p
    <3> QED
      BY <3>1, <3>2, QuietTurnTypes
  <2>3. CASE ~coverage[o].active /\ worker[w].mark = "blocked"
    <3> DEFINE p == [worker[w] EXCEPT !.step = "finish"]
    <3>1. p \in Pages /\ p.claim \in Claims /\ p.mark # "none"
      BY <1>1, <1>2, <2>1 DEF Pages, Steps
    <3>2. Turn(w, p) /\ UNCHANGED <<index, coverage, items, claims, scan, orphans, faults>>
      BY <1>7, <2>3 DEF ReadRow
    <3> HIDE DEF p
    <3> QED
      BY <3>1, <3>2, QuietTurnTypes
  <2>4. CASE ~coverage[o].active /\ worker[w].mark # "blocked"
    BY <1>7, <2>1, <2>4, AbandonTypes DEF ReadRow
  <2> QED
    BY <2>2, <2>3, <2>4
<1>8. ASSUME NEW o \in Objects, WriteRow(w, o)
      PROVE  Typed'
  <2>1. worker[w] # Idle /\ worker[w].mark \in {"current", "blocked", "other"}
    BY <1>1, <1>3, <1>8 DEF WriteRow, MarksAreChosen, Pages, Marks
  <2> DEFINE p == [worker[w] EXCEPT !.step = AfterMark(worker[w]), !.row = NoRow]
  <2>2. p \in Pages /\ p.claim \in Claims /\ p.mark # "none"
    BY <1>1, <1>2, <2>1, RowTypes DEF Pages, Steps, AfterMark, Checkpointed
  <2>3. Marked(worker[w].row, worker[w].mark) \in CoverageRows
    BY <1>1, <2>1, RowTypes DEF Pages
  <2>4. Turn(w, p) /\ UNCHANGED <<index, items, claims, scan, orphans, faults>>
    BY <1>8 DEF WriteRow
  <2>5. coverage' \in [Objects -> CoverageRows]
    BY <1>8, <2>3 DEF WriteRow
  <2> HIDE DEF p
  <2> QED
    BY <2>2, <2>4, <2>5, QuietTurnTypes
<1>9. ASSUME NEW o \in Objects, Checkpoint(w, o)
      PROVE  Typed'
  <2>1. /\ worker[w] # Idle /\ worker[w].step \in Checkpointed
        /\ worker[w].mark # "none"
    BY <1>3, <1>9 DEF Checkpoint, MarksAreChosen, Checkpointed
  <2>2. CASE Fenced(worker[w].claim, o)
    <3> DEFINE p == [worker[w] EXCEPT
                       !.step = AfterCheckpoint(worker[w]),
                       !.mark = IF worker[w].step = "package" THEN "other" ELSE @]
               r == [items[o] EXCEPT !.stage = HighWater(@, worker[w].step)]
    <3>1. p \in Pages /\ p.claim \in Claims /\ p.mark # "none"
      BY <1>1, <1>2, <2>1 DEF Pages, Steps, Marks, AfterCheckpoint, Checkpointed
    <3>2. r \in ItemRows /\ r.claim = items[o].claim /\ r.phase = items[o].phase
      <4>1. items[o] \in ItemRows
        OBVIOUS
      <4> QED
        BY <2>1, <4>1 DEF ItemRows, HighWater, FILESYSTEM_CLAIM_STAGES, Rank,
                          Checkpointed
    <3>3. /\ Turn(w, p) /\ items' = [items EXCEPT ![o] = r]
          /\ UNCHANGED <<index, coverage, claims, scan, orphans, faults>>
      BY <1>9, <2>2 DEF Checkpoint
    <3> HIDE DEF p, r
    <3>4. worker' \in [Workers -> Pages] /\ HeldAreClaims' /\ MarksAreChosen'
      BY <3>1, <3>3, TurnTypes
    <3>5. TypeOK' /\ RowsInProgressAreClaimed'
      BY <3>2, <3>3, <3>4 DEF RowsInProgressAreClaimed, Incomplete
    <3> QED
      BY <3>4, <3>5
  <2>3. CASE ~Fenced(worker[w].claim, o)
    BY <1>9, <2>1, <2>3, AbandonTypes DEF Checkpoint
  <2> QED
    BY <2>2, <2>3
<1>10. ASSUME NEW o \in Objects, Complete(w, o)
       PROVE  Typed'
  <2>1. worker[w] # Idle
    BY <1>3, <1>10 DEF Complete
  <2>2. CASE Fenced(worker[w].claim, o)
    <3> DEFINE p == [worker[w] EXCEPT !.step = "page", !.object = {},
                                      !.mark = "none", !.noDelta = FALSE]
               r == [items[o] EXCEPT !.phase = "completed", !.stage = "complete"]
    <3>1. p \in Pages /\ p.claim \in Claims /\ p.step = "page"
      BY <1>1, <1>2, <2>1 DEF Pages, Steps, Marks
    <3>2. r \in ItemRows /\ r.phase = "completed"
      <4>1. items[o] \in ItemRows
        OBVIOUS
      <4> QED
        BY <4>1 DEF ItemRows, Phases, FILESYSTEM_CLAIM_STAGES, Rank
    <3>3. /\ Turn(w, p) /\ items' = [items EXCEPT ![o] = r]
          /\ UNCHANGED <<index, coverage, scan, orphans, faults>>
      BY <1>10, <2>2 DEF Complete
    <3>4. claims' \in [Claims -> Statuses]
      BY <1>10, <2>2 DEF Complete, Statuses
    <3> HIDE DEF p, r
    <3>5. worker' \in [Workers -> Pages] /\ HeldAreClaims' /\ MarksAreChosen'
      BY <3>1, <3>3, TurnTypes DEF Checkpointed
    <3>6. TypeOK' /\ RowsInProgressAreClaimed'
      BY <3>2, <3>3, <3>4, <3>5 DEF RowsInProgressAreClaimed, Incomplete
    <3> QED
      BY <3>5, <3>6
  <2>3. CASE ~Fenced(worker[w].claim, o)
    BY <1>10, <2>1, <2>3, AbandonTypes DEF Complete
  <2> QED
    BY <2>2, <2>3
<1> QED
  BY <1>4, <1>5, <1>6, <1>7, <1>8, <1>9, <1>10 DEF Work

\* Crashes, leases, scans and the owners of coverage leave the pages alone.
LEMMA OtherTypes ==
    ASSUME Typed,
           \/ \E w \in Workers : Crash(w) \/ Interrupt(w)
           \/ \E c \in Claims : OrphanExpires(c) \/ LeaseLost(c)
           \/ Scan \/ PageOrphans \/ RetireOrphans
           \/ \E o \in Objects : Select(o)
    PROVE  Typed'
<1> USE DEF Typed, TypeOK
<1>0. ASSUME NEW n \in Nat, n <= MaxFaults PROVE n \in 0 .. MaxFaults
  BY <1>0
<1>1. ASSUME NEW w \in Workers, Crash(w)
      PROVE  Typed'
  <2>1. Turn(w, Idle) /\ faults' \in 0 .. MaxFaults
    BY <1>1 DEF Crash
  <2> QED
    BY <1>1, <2>1, RowTypes, QuietTurnTypes DEF Crash, Idle, Checkpointed
<1>2. ASSUME NEW w \in Workers, Interrupt(w)
      PROVE  Typed'
  BY <1>2, AbandonTypes DEF Interrupt
<1>3. ASSUME NEW c \in Claims, LeaseEnds(c), faults' \in 0 .. MaxFaults
      PROVE  Typed'
  <2>1. items' \in [Objects -> ItemRows] /\ RowsInProgressAreClaimed'
    BY <1>3, ExpiryTypes DEF LeaseEnds
  <2>2. HeldAreClaims' /\ MarksAreChosen'
    BY <1>3 DEF LeaseEnds, HeldAreClaims, MarksAreChosen
  <2> QED
    BY <1>3, <2>1, <2>2 DEF LeaseEnds
<1>4. ASSUME NEW c \in Claims, OrphanExpires(c) \/ LeaseLost(c)
      PROVE  Typed'
  BY <1>3, <1>4 DEF OrphanExpires, LeaseLost
<1>5. ASSUME UNCHANGED <<items, claims, worker, faults>>,
             index' \in [Objects -> Revisions], scan' \in Scans,
             coverage' \in [Objects -> CoverageRows], orphans' \in SUBSET Objects
      PROVE  Typed'
  BY <1>5 DEF RowsInProgressAreClaimed, Incomplete, HeldAreClaims, MarksAreChosen
<1>6. CASE ScanIndexes
  <2>1. scan.revision + 1 \in Revisions
    BY <1>6 DEF ScanIndexes, Scans, Revisions
  <2>2. index' \in [Objects -> Revisions]
    BY <1>6, <2>1 DEF ScanIndexes, Revisions
  <2>3. scan' \in Scans
    <3>1. PICK found \in SUBSET Objects :
             \E gone \in Deleted(found) :
                scan' = [scan EXCEPT !.step = "indexed", !.found = found,
                                     !.gone = gone, !.revision = @ + 1]
      BY <1>6 DEF ScanIndexes
    <3>2. PICK gone \in Deleted(found) :
             scan' = [scan EXCEPT !.step = "indexed", !.found = found,
                                  !.gone = gone, !.revision = @ + 1]
      BY <3>1
    <3>3. gone \subseteq Objects
      BY DEF Deleted, Indexed
    <3> QED
      BY <2>1, <3>2, <3>3 DEF Scans
  <2> QED
    BY <1>5, <1>6, <2>2, <2>3 DEF ScanIndexes
<1>7. CASE ScanReads
  <2>1. scan' \in Scans
    BY <1>7 DEF ScanReads, Scans
  <2> QED
    BY <1>5, <1>7, <2>1 DEF ScanReads
<1>8. CASE ScanWrites
  <2>1. scan' \in Scans
    BY <1>8, RowTypes DEF ScanWrites, Scans, NoRows
  <2>2. \A o \in Objects : Reconciled(scan.rows[o], scan.revision) \in CoverageRows
    BY RowTypes DEF Scans
  <2>3. coverage' \in [Objects -> CoverageRows]
    BY <1>8, <2>2 DEF ScanWrites
  <2> QED
    BY <1>5, <1>8, <2>1, <2>3 DEF ScanWrites
<1>9. CASE ScanRetires
  <2>1. scan' \in Scans
    BY <1>9 DEF ScanRetires, Scans
  <2>2. [NoRow EXCEPT !.revision = scan.revision] \in CoverageRows
    BY RowTypes DEF CoverageRows, Scans
  <2>3. coverage' \in [Objects -> CoverageRows]
    BY <1>9, <2>2 DEF ScanRetires
  <2> QED
    BY <1>5, <1>9, <2>1, <2>3 DEF ScanRetires
<1>13. CASE ScanDies
  <2>1. scan' \in Scans
    BY <1>13, RowTypes DEF ScanDies, Scans, FirstScan, NoRows
  <2>2. faults' \in 0 .. MaxFaults
    BY <1>0, <1>13 DEF ScanDies
  <2> QED
    BY <1>13, <2>1, <2>2 DEF ScanDies, RowsInProgressAreClaimed, Incomplete, HeldAreClaims,
                             MarksAreChosen
<1>10. CASE PageOrphans
  BY <1>5, <1>10 DEF PageOrphans, Orphaned
<1>11. CASE RetireOrphans
  <2>1. [NoRow EXCEPT !.revision = 1] \in CoverageRows
    BY RowTypes DEF CoverageRows, Revisions
  <2>2. coverage' \in [Objects -> CoverageRows]
    BY <1>11, <2>1 DEF RetireOrphans
  <2> QED
    BY <1>5, <1>11, <2>2 DEF RetireOrphans
<1>12. ASSUME NEW o \in Objects, Select(o)
       PROVE  Typed'
  <2>1. [coverage[o] EXCEPT !.source = "pending"] \in CoverageRows
    BY DEF CoverageRows, Sources
  <2>2. coverage' \in [Objects -> CoverageRows]
    BY <1>12, <2>1 DEF Select
  <2> QED
    BY <1>5, <1>12, <2>2 DEF Select
<1> QED
  BY <1>1, <1>2, <1>4, <1>6, <1>7, <1>8, <1>9, <1>10, <1>11, <1>12, <1>13 DEF Scan

----------------------------------------------------------------------------
(* The two tables *)

\* What the tables say depends on the claim and the phase of the rows only.
LEMMA SameTables ==
    ASSUME ClaimStatusAgrees, TypeOK, claims' = claims,
           \A o \in Objects : /\ items'[o].claim = items[o].claim
                              /\ items'[o].phase = items[o].phase
    PROVE  ClaimStatusAgrees'
<1>1. \A c \in Claims : IncompleteOf(c)' = IncompleteOf(c)
  BY DEF IncompleteOf, RowsOf, Incomplete
<1> QED
  BY <1>1 DEF ClaimStatusAgrees, IncompleteOf, RowsOf

\* All the rows of one claim expire, and the claim may be abandoned.
LEMMA ExpiryAgrees ==
    ASSUME Typed, ClaimStatusAgrees, NEW c \in Claims,
           items' = [o \in Objects |-> IF o \in IncompleteOf(c)
                                       THEN [items[o] EXCEPT !.phase = "expired"]
                                       ELSE items[o]],
           \/ claims' = claims
           \/ claims' = [claims EXCEPT ![c] = "abandoned"]
    PROVE  ClaimStatusAgrees'
<1> USE DEF Typed, TypeOK
<1>1. ASSUME NEW o \in Objects
      PROVE  /\ items'[o].claim = items[o].claim
             /\ items'[o].phase = IF o \in IncompleteOf(c) THEN "expired"
                                  ELSE items[o].phase
  BY DEF ItemRows
<1>2. \A d \in Claims : IncompleteOf(d)' = IncompleteOf(d)
  BY <1>1 DEF IncompleteOf, RowsOf, Incomplete
<1>3. \A d \in Claims : d # c => /\ claims'[d] = claims[d]
                                 /\ IncompleteOf(d) \cap IncompleteOf(c) = {}
  BY DEF IncompleteOf, RowsOf
<1>4. ASSUME NEW d \in Claims, d # c
      PROVE  \A o \in IncompleteOf(d) : items'[o].phase = items[o].phase
  BY <1>1, <1>3, <1>4 DEF IncompleteOf, RowsOf
<1>5. \A o \in IncompleteOf(c) : items'[o].phase = "expired"
  BY <1>1 DEF IncompleteOf, RowsOf
<1>6. claims'[c] \in {claims[c], "abandoned"}
  OBVIOUS
<1> QED
  BY <1>2, <1>3, <1>4, <1>5, <1>6 DEF ClaimStatusAgrees

LEMMA AbandonAgrees ==
    ASSUME ClaimInv, NEW w \in Workers, worker[w] # Idle, Abandon(w)
    PROVE  ClaimStatusAgrees'
<1>1. worker[w].claim \in Claims
  BY DEF ClaimInv, Typed, HeldAreClaims
<1>2. CASE claims[worker[w].claim] = "active"
  BY <1>1, <1>2, ExpiryAgrees DEF Abandon, Abandoned, ClaimInv
<1>3. CASE claims[worker[w].claim] # "active"
  BY <1>3, SameTables DEF Abandon, Abandoned, ClaimInv, Typed
<1> QED
  BY <1>2, <1>3

\* A claim that opens takes expired rows of closing claims and rows of no claim.
LEMMA ClaimAgrees ==
    ASSUME ClaimInv, NEW w \in Workers, Claim(w)
    PROVE  ClaimStatusAgrees'
<1> DEFINE c == CHOOSE d \in Fresh : TRUE
<1>1. c \in Claims /\ RowsOf(c) = {}
  BY DEF Claim, Fresh
<1>p. PICK old \in SUBSET Objects, new \in SUBSET Objects :
        /\ old \subseteq Expired
        /\ new \subseteq Claimable
        /\ old \cup new # {}
        /\ items' = [o \in Objects |-> IF o \in old THEN Taken(o, c)
                                       ELSE IF o \in new THEN Opened(o, c)
                                       ELSE items[o]]
        /\ claims' = [d \in Claims |->
                        IF d = c THEN "active"
                        ELSE IF /\ d \in {items[o].claim : o \in old}
                                /\ claims[d] = "active"
                          THEN "reclaimed"
                        ELSE claims[d]]
  BY Zenon DEF Claim, Fills
<1> HIDE DEF c
<1> USE DEF ClaimInv, Typed, TypeOK
<1>2. ASSUME NEW o \in Objects
      PROVE  /\ o \in old \cup new =>
                  items'[o].claim = c /\ items'[o].phase = "live"
             /\ o \notin old \cup new => items'[o] = items[o]
  BY <1>1, <1>p DEF Taken, Opened, ItemRows
<1>3. ASSUME NEW d \in Claims, d = c
      PROVE  IncompleteOf(d)' = old \cup new
  <2>1. \A o \in Objects : items[o].claim # c
    BY <1>1 DEF RowsOf
  <2> QED
    BY <1>2, <1>3, <2>1 DEF IncompleteOf, RowsOf, Incomplete
<1>4. ASSUME NEW d \in Claims, d # c
      PROVE  IncompleteOf(d)' = IncompleteOf(d) \ old
  BY <1>p, <1>2, <1>4 DEF IncompleteOf, RowsOf, Incomplete, Claimable
<1>5. ASSUME NEW d \in Claims, d # c, d \notin {items[o].claim : o \in old}
      PROVE  claims'[d] = claims[d] /\ IncompleteOf(d) \ old = IncompleteOf(d)
  BY <1>p, <1>5 DEF IncompleteOf, RowsOf
<1>6. ASSUME NEW d \in Claims, d # c, d \in {items[o].claim : o \in old}
      PROVE  /\ \A o \in IncompleteOf(d) : items[o].phase = "expired"
             /\ claims'[d] \in {"reclaimed", "abandoned"}
  <2>1. PICK o \in old : items[o].claim = d
    BY <1>6
  <2>2. o \in IncompleteOf(d) /\ items[o].phase = "expired"
    BY <1>p, <2>1 DEF Expired, IncompleteOf, RowsOf, Incomplete
  <2>3. \A q \in IncompleteOf(d) : items[q].phase = "expired"
    BY <2>2 DEF ClaimStatusAgrees
  <2>4. claims[d] # "completed" /\ claims[d] \in Statuses
    BY <2>2 DEF ClaimStatusAgrees
  <2>5. claims'[d] \in {"reclaimed", "abandoned"}
    BY <1>p, <1>6, <2>4 DEF Statuses
  <2> QED
    BY <2>3, <2>5
<1>7. ASSUME NEW d \in Claims, NEW o \in IncompleteOf(d) \ old
      PROVE  items'[o].phase = items[o].phase
  <2>1. o \in Objects /\ o \notin new
    BY <1>p DEF IncompleteOf, RowsOf, Claimable
  <2> QED
    BY <1>2, <2>1
<1>8. claims'[c] = "active" /\ \A o \in old \cup new : items'[o].phase = "live"
  BY <1>1, <1>2, <1>p
<1>9. ASSUME NEW d \in Claims
      PROVE  /\ claims'[d] = "active" => IncompleteOf(d)' # {}
             /\ claims'[d] = "completed" => IncompleteOf(d)' = {}
             /\ claims'[d] \in {"abandoned", "reclaimed"} =>
                  \A o \in IncompleteOf(d)' : items'[o].phase = "expired"
             /\ \A o, p \in IncompleteOf(d)' : items'[o].phase = items'[p].phase
  <2>1. CASE d = c
    <3>1. IncompleteOf(d)' = old \cup new /\ old \cup new # {}
      BY <1>3, <1>p, <2>1
    <3> HIDE DEF ClaimInv, Typed, TypeOK
    <3> QED
      BY <1>8, <2>1, <3>1
  <2>2. CASE d # c /\ d \in {items[o].claim : o \in old}
    BY <1>4, <1>6, <1>7, <2>2
  <2>3. CASE d # c /\ d \notin {items[o].claim : o \in old}
    <3>1. claims'[d] = claims[d] /\ IncompleteOf(d)' = IncompleteOf(d)
      BY <1>4, <1>5, <2>3
    <3>2. \A o \in IncompleteOf(d) : items'[o].phase = items[o].phase
      BY <1>5, <1>7, <2>3
    <3>3. /\ claims[d] = "active" => IncompleteOf(d) # {}
          /\ claims[d] = "completed" => IncompleteOf(d) = {}
          /\ claims[d] \in {"abandoned", "reclaimed"} =>
               \A o \in IncompleteOf(d) : items[o].phase = "expired"
          /\ \A o, p \in IncompleteOf(d) : items[o].phase = items[p].phase
      BY DEF ClaimStatusAgrees
    <3> HIDE DEF ClaimInv, Typed, TypeOK
    <3> QED
      BY <3>1, <3>2, <3>3
  <2> QED
    BY <2>1, <2>2, <2>3
<1> QED
  BY <1>9 DEF ClaimStatusAgrees

LEMMA CompleteAgrees ==
    ASSUME ClaimInv, NEW w \in Workers, NEW o \in Objects, Complete(w, o)
    PROVE  ClaimStatusAgrees'
<1> DEFINE c == worker[w].claim
<1>1. worker[w] # Idle
  BY DEF Complete, Idle
<1>2. c \in Claims
  BY <1>1 DEF ClaimInv, Typed, HeldAreClaims
<1>3. CASE Fenced(c, o)
  <2>1. /\ items' = [items EXCEPT ![o].phase = "completed",
                                 ![o].stage = "complete"]
        /\ claims' = IF LastOf(c, o) THEN [claims EXCEPT ![c] = "completed"] ELSE claims
    BY <1>3 DEF Complete
  <2>2. o \in IncompleteOf(c) /\ claims[c] = "active"
    BY <1>3 DEF Fenced, IncompleteOf, RowsOf, Incomplete
  <2> HIDE DEF c
  <2> USE DEF ClaimInv, Typed, TypeOK
  <2>3. ASSUME NEW p \in Objects
        PROVE  /\ items'[p].claim = items[p].claim
               /\ items'[p].phase = IF p = o THEN "completed" ELSE items[p].phase
    BY <2>1 DEF ItemRows
  <2>4. \A d \in Claims : IncompleteOf(d)' = IncompleteOf(d) \ {o}
    BY <2>3 DEF IncompleteOf, RowsOf, Incomplete
  <2>5. \A d \in Claims : \A p \in IncompleteOf(d) \ {o} :
          items'[p].phase = items[p].phase
    BY <2>3 DEF IncompleteOf, RowsOf
  <2>6. \A d \in Claims : d # c => /\ IncompleteOf(d) \ {o} = IncompleteOf(d)
                                   /\ claims'[d] = claims[d]
    BY <2>1, <2>2 DEF IncompleteOf, RowsOf
  <2>7. claims'[c] = IF IncompleteOf(c) = {o} THEN "completed" ELSE "active"
    BY <1>2, <2>1, <2>2 DEF LastOf
  <2> QED
    BY <2>2, <2>4, <2>5, <2>6, <2>7 DEF ClaimStatusAgrees
<1>4. CASE ~Fenced(c, o)
  BY <1>1, <1>4, AbandonAgrees DEF Complete
<1> QED
  BY <1>3, <1>4

LEMMA CheckpointAgrees ==
    ASSUME ClaimInv, NEW w \in Workers, NEW o \in Objects, Checkpoint(w, o)
    PROVE  ClaimStatusAgrees'
<1>1. worker[w] # Idle
  BY DEF Checkpoint, Idle, Checkpointed
<1>2. CASE Fenced(worker[w].claim, o)
  <2>1. /\ items' = [items EXCEPT ![o].stage = HighWater(@, worker[w].step)]
        /\ claims' = claims
    BY <1>2 DEF Checkpoint
  <2>2. \A p \in Objects : /\ items'[p].claim = items[p].claim
                           /\ items'[p].phase = items[p].phase
    BY <2>1 DEF ClaimInv, Typed, TypeOK, ItemRows
  <2> QED
    BY <2>1, <2>2, SameTables DEF ClaimInv, Typed
<1>3. CASE ~Fenced(worker[w].claim, o)
  BY <1>1, <1>3, AbandonAgrees DEF Checkpoint
<1> QED
  BY <1>2, <1>3

----------------------------------------------------------------------------
LEMMA StepKeeps == ClaimInv /\ [Next]_vars => ClaimInv'
<1> SUFFICES ASSUME ClaimInv, [Next]_vars PROVE ClaimInv'
  OBVIOUS
<1>0. ASSUME UNCHANGED <<items, claims>> PROVE ClaimStatusAgrees'
  BY <1>0, SameTables DEF ClaimInv, Typed
<1>1. ASSUME NEW w \in Workers, Claim(w) PROVE ClaimInv'
  BY <1>1, ClaimTypes, ClaimAgrees DEF ClaimInv
<1>2. ASSUME NEW w \in Workers, Work(w) PROVE ClaimInv'
  <2>1. Typed'
    BY <1>2, WorkTypes DEF ClaimInv
  <2>2. CASE Load(w) \/ EndPage(w)
    <3>1. UNCHANGED <<items, claims>>
      BY <2>2 DEF Load, EndPage
    <3> QED
      BY <1>0, <2>1, <3>1 DEF ClaimInv
  <2>3. ASSUME NEW o \in Objects, Take(w, o) \/ WriteRow(w, o)
        PROVE  ClaimStatusAgrees'
    <3>1. UNCHANGED <<items, claims>>
      BY <2>3 DEF Take, WriteRow
    <3> QED
      BY <1>0, <3>1
  <2>4. ASSUME NEW o \in Objects, ReadRow(w, o) PROVE ClaimStatusAgrees'
    <3>1. worker[w] # Idle
      BY <2>4 DEF ReadRow, Idle
    <3>2. UNCHANGED <<items, claims>> \/ Abandon(w)
      BY <2>4 DEF ReadRow
    <3> QED
      BY <1>0, <3>1, <3>2, AbandonAgrees
  <2> QED
    BY <1>2, <2>1, <2>2, <2>3, <2>4, CheckpointAgrees, CompleteAgrees
       DEF Work, ClaimInv
<1>3. ASSUME NEW w \in Workers, Crash(w) \/ Interrupt(w) PROVE ClaimInv'
  BY <1>0, <1>3, OtherTypes, AbandonAgrees DEF Crash, Interrupt, ClaimInv
<1>4. ASSUME NEW c \in Claims, OrphanExpires(c) \/ LeaseLost(c) PROVE ClaimInv'
  <2>1. ClaimStatusAgrees'
    BY <1>4, ExpiryAgrees DEF OrphanExpires, LeaseLost, LeaseEnds, ClaimInv
  <2> QED
    BY <1>4, <2>1, OtherTypes DEF ClaimInv
<1>5. CASE Scan \/ PageOrphans \/ RetireOrphans \/ \E o \in Objects : Select(o)
  <2>1. Typed'
    BY <1>5, OtherTypes DEF ClaimInv
  <2>2. UNCHANGED <<items, claims>>
    BY <1>5 DEF Scan, ScanIndexes, ScanReads, ScanWrites, ScanRetires, ScanDies,
                PageOrphans, RetireOrphans, Select
  <2> QED
    BY <1>0, <2>1, <2>2 DEF ClaimInv
<1>6. CASE UNCHANGED vars
  <2>1. ClaimStatusAgrees'
    BY <1>0, <1>6 DEF vars
  <2>2. Typed'
    BY <1>6 DEF vars, ClaimInv, Typed, TypeOK, RowsInProgressAreClaimed, Incomplete,
                HeldAreClaims, MarksAreChosen
  <2> QED
    BY <2>1, <2>2 DEF ClaimInv
<1> QED
  BY <1>1, <1>2, <1>3, <1>4, <1>5, <1>6 DEF Next

(***************************************************************************)
(* The strengthened invariant holds throughout.                            *)
(***************************************************************************)
THEOREM ClaimInvariance == Spec => []ClaimInv
BY InitEstablishes, StepKeeps, PTL DEF Spec

(***************************************************************************)
(* Every variable keeps its type.                                          *)
(***************************************************************************)
THEOREM ClaimsTypeCorrect == Spec => []TypeOK
<1>1. ClaimInv => TypeOK
  BY DEF ClaimInv, Typed
<1> QED
  BY <1>1, ClaimInvariance, PTL

(***************************************************************************)
(* The status of a claim always agrees with its rows (claim, abandon and   *)
(* complete in store.py), for any number of files, workers and faults.     *)
(***************************************************************************)
THEOREM ClaimsStayInStep == Spec => []ClaimStatusAgrees
<1>1. ClaimInv => ClaimStatusAgrees
  BY DEF ClaimInv
<1> QED
  BY <1>1, ClaimInvariance, PTL

----------------------------------------------------------------------------
(* What a step may do to one row *)

Opens(o) == ~Incomplete(o) /\ items'[o].phase = "live"
Recovers(o) == /\ items[o].phase = "expired" /\ items'[o].phase = "live"
               /\ items'[o].stage = items[o].stage
Expires(o) == /\ items'[o].phase = "expired"
              /\ items'[o].stage = items[o].stage
              /\ items'[o].claim = items[o].claim
Advances(o) == /\ items'[o].phase = items[o].phase
               /\ items'[o].claim = items[o].claim
               /\ Rank[items'[o].stage] >= Rank[items[o].stage]
Completes(o) == /\ items[o].phase = "live" /\ items'[o].phase = "completed"
                /\ items'[o].claim = items[o].claim
                /\ claims[items[o].claim] = "active"
                /\ \E w \in Workers : worker[w].claim = items[o].claim

RowStep(o) == Opens(o) \/ Recovers(o) \/ Expires(o) \/ Advances(o) \/ Completes(o)

LEMMA ExpiryIsRowStep ==
    ASSUME TypeOK, NEW c, NEW o \in Objects,
           items' = [p \in Objects |-> IF p \in IncompleteOf(c)
                                       THEN [items[p] EXCEPT !.phase = "expired"]
                                       ELSE items[p]]
    PROVE  Expires(o) \/ items'[o] = items[o]
BY DEF TypeOK, Expires, ItemRows

LEMMA SameIsRowStep ==
    ASSUME TypeOK, NEW o \in Objects, items'[o] = items[o]
    PROVE  RowStep(o)
BY DEF TypeOK, RowStep, Advances, ItemRows, FILESYSTEM_CLAIM_STAGES, Rank

LEMMA AbandonIsRowStep ==
    ASSUME TypeOK, NEW w \in Workers, Abandon(w), NEW o \in Objects
    PROVE  RowStep(o)
<1>1. \/ items' = items
      \/ items' = [p \in Objects |-> IF p \in IncompleteOf(worker[w].claim)
                                     THEN [items[p] EXCEPT !.phase = "expired"]
                                     ELSE items[p]]
  BY DEF Abandon, Abandoned
<1> QED
  BY <1>1, ExpiryIsRowStep, SameIsRowStep DEF RowStep

LEMMA EveryStepIsRowStep ==
    ASSUME TypeOK, [Next]_vars, NEW o \in Objects
    PROVE  RowStep(o)
<1>1. ASSUME NEW w \in Workers, Claim(w) PROVE RowStep(o)
  <2> DEFINE c == CHOOSE d \in Fresh : TRUE
  <2>1. PICK old \in SUBSET Objects, new \in SUBSET Objects :
          /\ old \subseteq Expired
          /\ new \subseteq Claimable
          /\ items' = [p \in Objects |-> IF p \in old THEN Taken(p, c)
                                         ELSE IF p \in new THEN Opened(p, c)
                                         ELSE items[p]]
    BY <1>1, Zenon DEF Claim, Fills
  <2> HIDE DEF c
  <2>2. CASE o \in old
    BY <2>1, <2>2 DEF Taken, Expired, Recovers, RowStep, TypeOK, ItemRows
  <2>3. CASE o \notin old /\ o \in new
    BY <2>1, <2>3 DEF Opened, Claimable, Opens, RowStep
  <2>4. CASE o \notin old /\ o \notin new
    BY <2>1, <2>4, SameIsRowStep
  <2> QED
    BY <2>2, <2>3, <2>4
<1>2. ASSUME NEW w \in Workers, NEW p \in Objects, Checkpoint(w, p) PROVE RowStep(o)
  <2>1. CASE Fenced(worker[w].claim, p)
    <3>1. items' = [items EXCEPT ![p].stage = HighWater(@, worker[w].step)]
      BY <1>2, <2>1 DEF Checkpoint
    <3>2. worker[w].step \in Checkpointed
      BY <1>2 DEF Checkpoint
    <3>3. CASE o = p
      BY <3>1, <3>2, <3>3 DEF RowStep, Advances, HighWater, TypeOK, ItemRows,
                              FILESYSTEM_CLAIM_STAGES, Rank, Checkpointed
    <3>4. CASE o # p
      BY <3>1, <3>4, SameIsRowStep DEF TypeOK
    <3> QED
      BY <3>3, <3>4
  <2>2. CASE ~Fenced(worker[w].claim, p)
    BY <1>2, <2>2, AbandonIsRowStep DEF Checkpoint
  <2> QED
    BY <2>1, <2>2
<1>3. ASSUME NEW w \in Workers, NEW p \in Objects, Complete(w, p) PROVE RowStep(o)
  <2>1. CASE Fenced(worker[w].claim, p)
    <3>1. items' = [items EXCEPT ![p].phase = "completed", ![p].stage = "complete"]
      BY <1>3, <2>1 DEF Complete
    <3>2. CASE o = p
      BY <2>1, <3>1, <3>2 DEF Fenced, RowStep, Completes, TypeOK, ItemRows
    <3>3. CASE o # p
      BY <3>1, <3>3, SameIsRowStep DEF TypeOK
    <3> QED
      BY <3>2, <3>3
  <2>2. CASE ~Fenced(worker[w].claim, p)
    BY <1>3, <2>2, AbandonIsRowStep DEF Complete
  <2> QED
    BY <2>1, <2>2
<1>4. ASSUME NEW w \in Workers, NEW p \in Objects, ReadRow(w, p) PROVE RowStep(o)
  <2>1. items' = items \/ Abandon(w)
    BY <1>4 DEF ReadRow
  <2> QED
    BY <2>1, AbandonIsRowStep, SameIsRowStep
<1>5. ASSUME NEW w \in Workers, NEW p \in Objects, Take(w, p) \/ WriteRow(w, p)
      PROVE  RowStep(o)
  BY <1>5, SameIsRowStep DEF Take, WriteRow
<1>6. ASSUME NEW w \in Workers, Load(w) \/ EndPage(w) \/ Crash(w) PROVE RowStep(o)
  BY <1>6, SameIsRowStep DEF Load, EndPage, Crash
<1>7. ASSUME NEW w \in Workers, Interrupt(w) PROVE RowStep(o)
  BY <1>7, AbandonIsRowStep DEF Interrupt
<1>8. ASSUME NEW c \in Claims, OrphanExpires(c) \/ LeaseLost(c) PROVE RowStep(o)
  <2>1. Expires(o) \/ items'[o] = items[o]
    BY <1>8, ExpiryIsRowStep DEF OrphanExpires, LeaseLost, LeaseEnds
  <2> QED
    BY <2>1, SameIsRowStep DEF RowStep
<1>9. CASE Scan \/ PageOrphans \/ RetireOrphans
  BY <1>9, SameIsRowStep DEF Scan, ScanIndexes, ScanReads, ScanWrites, ScanRetires,
                             ScanDies, PageOrphans, RetireOrphans
<1>10. ASSUME NEW p \in Objects, Select(p) PROVE RowStep(o)
  BY <1>10, SameIsRowStep DEF Select
<1>11. CASE UNCHANGED vars
  BY <1>11, SameIsRowStep DEF vars
<1> QED
  BY <1>1, <1>2, <1>3, <1>4, <1>5, <1>6, <1>7, <1>8, <1>9, <1>10, <1>11
     DEF Next, Work

(***************************************************************************)
(* A row whose lease runs stays with its claim: no other worker gets it.   *)
(***************************************************************************)
THEOREM LiveRowsStayWithTheirClaim == Spec => LiveRowsStay
<1>1. TypeOK /\ [Next]_vars =>
        [\A o \in Objects : items[o].phase = "live" =>
           items'[o].claim = items[o].claim]_vars
  BY EveryStepIsRowStep DEF RowStep, Opens, Recovers, Expires, Advances, Completes,
                            Incomplete
<1> QED
  BY <1>1, ClaimsTypeCorrect, PTL DEF Spec, LiveRowsStay

(***************************************************************************)
(* A checkpoint is never taken back before its row is completed.           *)
(***************************************************************************)
THEOREM CheckpointsNeverGoBack == Spec => CheckpointsOnlyAdvance
<1>1. ASSUME TypeOK, [Next]_vars, NEW o \in Objects, Incomplete(o),
             items'[o].phase \in {"live", "expired"}
      PROVE  Rank[items'[o].stage] >= Rank[items[o].stage]
  <2>1. RowStep(o)
    BY <1>1, EveryStepIsRowStep
  <2>2. Rank[items[o].stage] \in Nat
    BY <1>1 DEF TypeOK, ItemRows, FILESYSTEM_CLAIM_STAGES, Rank
  <2> QED
    BY <1>1, <2>1, <2>2 DEF RowStep, Opens, Recovers, Expires, Advances, Completes
<1>2. TypeOK /\ [Next]_vars =>
        [\A o \in Objects :
           (Incomplete(o) /\ items'[o].phase \in {"live", "expired"}) =>
             Rank[items'[o].stage] >= Rank[items[o].stage]]_vars
  BY <1>1
<1> QED
  BY <1>2, ClaimsTypeCorrect, PTL DEF Spec, CheckpointsOnlyAdvance

(***************************************************************************)
(* No row is completed for a claim that is closed, taken over or out of    *)
(* time, however late its worker resumes.                                  *)
(***************************************************************************)
THEOREM OnlyLiveClaimsComplete == Spec => LateWorkersCannotComplete
<1>1. TypeOK /\ [Next]_vars =>
        [\A o \in Objects :
           (items[o].phase # "completed" /\ items'[o].phase = "completed") =>
             /\ items[o].phase = "live"
             /\ claims[items[o].claim] = "active"
             /\ \E w \in Workers : worker[w].claim = items[o].claim]_vars
  BY EveryStepIsRowStep DEF RowStep, Opens, Recovers, Expires, Advances, Completes
<1> QED
  BY <1>1, ClaimsTypeCorrect, PTL DEF Spec, LateWorkersCannotComplete
=================================================================================
