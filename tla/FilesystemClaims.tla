---------------------------- MODULE FilesystemClaims ----------------------------
(***************************************************************************)
(* Leased claims over registered files.  Several worker processes share    *)
(* one store: each takes a bounded page of files under one claim token,    *)
(* carries every file through its stages with checkpoints, and completes   *)
(* it.  A worker that dies leaves its page to the lease; a worker that     *)
(* raises hands it back at once.  Meanwhile an inventory scan gives every  *)
(* file a new inventory revision and retires the files that are gone.      *)
(*                                                                         *)
(* Time is abstracted to whether an item's lease has run out.  A claim and *)
(* its token are one value of Claims: uuid4 draws one nobody refers to.    *)
(* The coverage row of a file is reduced to what decides on claims: is it  *)
(* active, its inventory revision and the status of its source_version     *)
(* stage.  The row is rewritten whole, from a copy read earlier.           *)
(***************************************************************************)
EXTENDS Naturals, FiniteSets

CONSTANTS
    Objects,    \* the registered filesystem occurrences of one scope
    Workers,    \* worker processes, each with one page at a time
    Claims,     \* claim identities
    NoClaim,    \* the claim of a row that was never claimed
    Limit,      \* rows one claim may take (REGISTERED_FILESYSTEM_CLAIM_SIZE)
    MaxScans,   \* bound: inventory scans after the first
    MaxFaults   \* bound: crashes, interruptions and leases lost while working

ASSUME ClaimsAssumption ==
    /\ NoClaim \notin Claims
    /\ IsFiniteSet(Objects)
    /\ IsFiniteSet(Workers)
    /\ IsFiniteSet(Claims)
    /\ Cardinality(Claims) > Cardinality(Objects) + Cardinality(Workers)
    /\ Limit \in Nat \ {0}
    /\ MaxScans \in Nat
    /\ MaxFaults \in Nat

VARIABLES
    index,      \* inventory_occurrence_current: the revision, 0 when absent
    coverage,   \* the current object_coverage row of each file
    items,      \* filesystem_claim_items
    claims,     \* filesystem_claims: the status of every claim
    worker,     \* the page each worker process holds in memory
    scan,       \* the inventory reconciliation in progress
    orphans,    \* the page of orphaned coverage rows about to be retired
    faults      \* faults so far

vars == <<index, coverage, items, claims, worker, scan, orphans, faults>>

Rank == [source_version |-> 1, extraction |-> 2, evidence |-> 3,
         package |-> 4, coverage |-> 5, complete |-> 6]
FILESYSTEM_CLAIM_STAGES == DOMAIN Rank
Checkpointed == {"extraction", "evidence", "package", "coverage"}

Revisions == 0 .. MaxScans + 1
Sources == {"missing", "pending", "current", "blocked"}
CoverageRows == [active : BOOLEAN, revision : Revisions, source : Sources]

Phases == {"absent", "live", "expired", "completed"}
ItemRows == [phase : Phases, claim : Claims \cup {NoClaim},
             stage : FILESYSTEM_CLAIM_STAGES, revision : Revisions,
             recovered : BOOLEAN]

Statuses == {"active", "reclaimed", "abandoned", "completed"}
Steps == {"idle", "claimed", "page", "read", "write", "finish"} \cup Checkpointed
Marks == {"none", "current", "blocked", "other"}
Pages == [step : Steps, claim : Claims \cup {NoClaim}, todo : SUBSET Objects,
          invalid : SUBSET Objects, object : SUBSET Objects, mark : Marks,
          noDelta : BOOLEAN, row : CoverageRows]
Scans == [step : {"idle", "indexed", "read", "written"}, revision : Revisions,
          found : SUBSET Objects, gone : SUBSET Objects,
          rows : [Objects -> CoverageRows]]

NoRow == [active |-> FALSE, revision |-> 0, source |-> "missing"]
NoRows == [o \in Objects |-> NoRow]
Unclaimed == [phase |-> "absent", claim |-> NoClaim, stage |-> "source_version",
              revision |-> 0, recovered |-> FALSE]
Idle == [step |-> "idle", claim |-> NoClaim, todo |-> {}, invalid |-> {},
         object |-> {}, mark |-> "none", noDelta |-> FALSE, row |-> NoRow]
FirstScan == [step |-> "idle", revision |-> 1, found |-> {}, gone |-> {}, rows |-> NoRows]

TypeOK ==
    /\ index \in [Objects -> Revisions]
    /\ coverage \in [Objects -> CoverageRows]
    /\ items \in [Objects -> ItemRows]
    /\ claims \in [Claims -> Statuses]
    /\ worker \in [Workers -> Pages]
    /\ scan \in Scans
    /\ orphans \in SUBSET Objects
    /\ faults \in 0 .. MaxFaults

(***************************************************************************)
(* A first scan has found some of the files; nothing is selected yet.      *)
(***************************************************************************)
Init ==
    /\ \E found \in SUBSET Objects :
         /\ index = [o \in Objects |-> IF o \in found THEN 1 ELSE 0]
         /\ coverage = [o \in Objects |->
                          IF o \in found
                          THEN [active |-> TRUE, revision |-> 1,
                                source |-> "missing"]
                          ELSE NoRow]
    /\ items = [o \in Objects |-> Unclaimed]
    /\ claims = [c \in Claims |-> "completed"]
    /\ worker = [w \in Workers |-> Idle]
    /\ scan = FirstScan
    /\ orphans = {}
    /\ faults = 0

----------------------------------------------------------------------------
(* What the rows say *)

Incomplete(o) == items[o].phase \in {"live", "expired"}
RowsOf(c) == {o \in Objects : items[o].claim = c}
IncompleteOf(c) == {o \in RowsOf(c) : Incomplete(o)}
Held == {worker[w].claim : w \in Workers}
Fresh == {c \in Claims : c \notin Held /\ RowsOf(c) = {}}

ExpiredOrLive == {o \in Objects : Incomplete(o)}
ExpiredAndActive == {o \in Objects : /\ items[o].phase = "expired"
                                     /\ coverage[o].active}
Expired == {o \in Objects : items[o].phase = "expired"}

NeverClaimed == {o \in Objects : /\ coverage[o].active
                                 /\ coverage[o].source = "pending"
                                 /\ index[o] # 0
                                 /\ items[o].phase = "absent"}
Claimable == {o \in Objects : /\ coverage[o].active
                              /\ coverage[o].source = "pending"
                              /\ index[o] # 0
                              /\ ~Incomplete(o)}

Turn(w, page) == worker' = [worker EXCEPT ![w] = page]

\* A claim row set is as large as the limit and the supply allow.
Fills(S, supply, limit) ==
    /\ S \subseteq supply
    /\ Cardinality(S) <= limit
    /\ S = supply \/ Cardinality(S) = limit

(***************************************************************************)
(* claim_registered_filesystem: one transaction takes expired rows first,  *)
(* as they are, and fills the page with files that were never claimed or   *)
(* were completed and are due again.  The claims that lost a row close.    *)
(***************************************************************************)
Taken(o, c) == [items[o] EXCEPT !.phase = "live", !.claim = c, !.recovered = TRUE]
Opened(o, c) == [phase |-> "live", claim |-> c, stage |-> "source_version",
                 revision |-> index[o], recovered |-> FALSE]

Claim(w) ==
    /\ worker[w] = Idle
    /\ Fresh # {}
    /\ \E old \in SUBSET Objects, new \in SUBSET Objects :
         /\ Fills(old, Expired, Limit)
         /\ Fills(new, Claimable, Limit - Cardinality(old))
         /\ old \cup new # {}
         /\ LET c == CHOOSE d \in Fresh : TRUE
                prior == {items[o].claim : o \in old}
            IN  /\ items' = [o \in Objects |->
                               IF o \in old THEN Taken(o, c)
                               ELSE IF o \in new THEN Opened(o, c)
                               ELSE items[o]]
                /\ claims' = [d \in Claims |->
                               IF d = c THEN "active"
                               ELSE IF d \in prior /\ claims[d] = "active"
                                 THEN "reclaimed"
                               ELSE claims[d]]
                /\ Turn(w, [worker[w] EXCEPT !.step = "claimed", !.claim = c])
    /\ UNCHANGED <<index, coverage, scan, orphans, faults>>

(***************************************************************************)
(* The worker reads its rows back by claim and token and sorts out those   *)
(* whose frozen revision is no longer the current one.  The reads of the   *)
(* rows, of the coverage and of the index are one step: a scan writes the  *)
(* index first, so a later index only makes a row invalid as it would be   *)
(* if all were read then.                                                  *)
(***************************************************************************)
RegistrationCurrent(o) ==
    /\ coverage[o].active
    /\ index[o] = items[o].revision
    /\ coverage[o].revision = items[o].revision

Load(w) ==
    /\ worker[w].step = "claimed"
    /\ LET rows == RowsOf(worker[w].claim)
       IN  Turn(w, [worker[w] EXCEPT !.step = "page", !.todo = rows,
                                     !.invalid = {o \in rows : ~RegistrationCurrent(o)}])
    /\ UNCHANGED <<index, coverage, items, claims, scan, orphans, faults>>

(***************************************************************************)
(* One row of the page.  Invalid rows go first and are blocked.  Another   *)
(* may turn out unavailable, changed or unsupported and is blocked too, or *)
(* its content is registered: a new source version marks its stage before  *)
(* the extraction checkpoint, one that was registered already after it.    *)
(***************************************************************************)
Take(w, o) ==
    /\ worker[w].step = "page"
    /\ o \in worker[w].todo
    /\ worker[w].invalid # {} => o \in worker[w].invalid
    /\ \E mark \in {"blocked", "current"}, noDelta \in BOOLEAN :
         /\ o \in worker[w].invalid => mark = "blocked"
         /\ mark = "blocked" => ~noDelta
         /\ Turn(w, [worker[w] EXCEPT !.step = IF noDelta THEN "extraction" ELSE "read",
                                      !.todo = @ \ {o}, !.invalid = @ \ {o},
                                      !.object = {o}, !.mark = mark,
                                      !.noDelta = noDelta])
    /\ UNCHANGED <<index, coverage, items, claims, scan, orphans, faults>>

EndPage(w) ==
    /\ worker[w].step = "page"
    /\ worker[w].todo = {}
    /\ Turn(w, Idle)
    /\ UNCHANGED <<index, coverage, items, claims, scan, orphans, faults>>

(***************************************************************************)
(* An exception anywhere in the page abandons the claim: its incomplete    *)
(* rows expire at once and keep their checkpoints.  A claim that another   *)
(* worker has taken over is no longer active and is left alone.            *)
(***************************************************************************)
Abandoned(c) ==
    IF claims[c] = "active"
    THEN /\ items' = [o \in Objects |-> IF o \in IncompleteOf(c)
                                        THEN [items[o] EXCEPT !.phase = "expired"]
                                        ELSE items[o]]
         /\ claims' = [claims EXCEPT ![c] = "abandoned"]
    ELSE UNCHANGED <<items, claims>>

Abandon(w) ==
    /\ Abandoned(worker[w].claim)
    /\ Turn(w, Idle)
    /\ UNCHANGED <<index, coverage, scan, orphans>>

----------------------------------------------------------------------------
(***************************************************************************)
(* ObjectCoverageLedger.mark_stage: the row is read, one stage is changed, *)
(* and the whole row is appended as the next revision; nothing checks that *)
(* the row is still the one that was read, nor that the claim is live.  An *)
(* inactive row raises; a block of one is skipped.                         *)
(***************************************************************************)
ReadRow(w, o) ==
    /\ worker[w].step = "read"
    /\ worker[w].object = {o}
    /\ IF coverage[o].active
         THEN /\ Turn(w, [worker[w] EXCEPT !.step = "write",
                                           !.row = coverage[o]])
              /\ UNCHANGED <<items, claims, index, coverage, scan, orphans>>
         ELSE IF worker[w].mark = "blocked"
         THEN /\ Turn(w, [worker[w] EXCEPT !.step = "finish"])
              /\ UNCHANGED <<items, claims, index, coverage, scan, orphans>>
         ELSE Abandon(w)
    /\ UNCHANGED faults

MarkedAlways(row, mark) == [row EXCEPT !.source = mark]
Marked(row, mark) ==
    IF mark = "other" THEN row ELSE [row EXCEPT !.source = mark]

AfterMark(page) ==
    CASE page.mark = "blocked" -> "finish"
      [] page.mark = "other"   -> "coverage"
      [] OTHER -> IF page.noDelta THEN "evidence" ELSE "extraction"

WriteRow(w, o) ==
    /\ worker[w].step = "write"
    /\ worker[w].object = {o}
    /\ coverage' = [coverage EXCEPT ![o] = Marked(worker[w].row, worker[w].mark)]
    /\ Turn(w, [worker[w] EXCEPT !.step = AfterMark(worker[w]), !.row = NoRow])
    /\ UNCHANGED <<index, items, claims, scan, orphans, faults>>

(***************************************************************************)
(* The fence of every stage advance and completion: the row still belongs  *)
(* to this claim, the claim is active and the lease has not run out.       *)
(***************************************************************************)
FencedByIdentity(c, o) == items[o].claim = c /\ Incomplete(o)
Fenced(c, o) ==
    /\ items[o].claim = c
    /\ claims[c] = "active"
    /\ items[o].phase = "live"

\* A replayed earlier stage keeps the durable high-water mark.
Latest(prior, stage) == stage
HighWater(prior, stage) == IF Rank[stage] < Rank[prior] THEN prior ELSE stage

AfterCheckpoint(page) ==
    CASE page.step = "extraction" -> IF page.noDelta THEN "read" ELSE "evidence"
      [] page.step = "evidence"   -> "package"
      [] page.step = "package"    -> "read"
      [] page.step = "coverage"   -> "finish"

\* update_filesystem_claim_checkpoint; it renews the lease of the whole claim,
\* which a live row of the claim already has.
Checkpoint(w, o) ==
    /\ worker[w].step \in Checkpointed
    /\ worker[w].object = {o}
    /\ IF Fenced(worker[w].claim, o)
         THEN /\ items' = [items EXCEPT
                             ![o].stage = HighWater(@, worker[w].step)]
              /\ Turn(w, [worker[w] EXCEPT !.step = AfterCheckpoint(worker[w]),
                                           !.mark = IF worker[w].step = "package" THEN "other" ELSE @])
              /\ UNCHANGED <<index, coverage, claims, scan, orphans>>
         ELSE Abandon(w)
    /\ UNCHANGED faults

\* complete_filesystem_claim_item: the last completed row closes the claim.
LastOfRows(c, o) == RowsOf(c) = {o}
LastOf(c, o) == IncompleteOf(c) = {o}

Complete(w, o) ==
    /\ worker[w].step = "finish"
    /\ worker[w].object = {o}
    /\ LET c == worker[w].claim
       IN  IF Fenced(c, o)
           THEN /\ items' = [items EXCEPT ![o].phase = "completed",
                                          ![o].stage = "complete"]
                /\ claims' = IF LastOf(c, o)
                             THEN [claims EXCEPT ![c] = "completed"] ELSE claims
                /\ Turn(w, [worker[w] EXCEPT !.step = "page", !.object = {},
                                             !.mark = "none",
                                             !.noDelta = FALSE])
                /\ UNCHANGED <<index, coverage, scan, orphans>>
           ELSE Abandon(w)
    /\ UNCHANGED faults

----------------------------------------------------------------------------
(* Faults *)

\* The process ends without a word: its claim stays active until the lease ends.
Crash(w) ==
    /\ worker[w] # Idle
    /\ faults < MaxFaults
    /\ faults' = faults + 1
    /\ Turn(w, Idle)
    /\ UNCHANGED <<index, coverage, items, claims, scan, orphans>>

\* Any other exception of the page, an interrupt or a busy store among them.
Interrupt(w) ==
    /\ worker[w] # Idle
    /\ faults < MaxFaults
    /\ faults' = faults + 1
    /\ Abandon(w)

LeaseEnds(c) ==
    /\ \E o \in RowsOf(c) : items[o].phase = "live"
    /\ items' = [o \in Objects |-> IF o \in IncompleteOf(c)
                                   THEN [items[o] EXCEPT !.phase = "expired"]
                                   ELSE items[o]]
    /\ UNCHANGED <<index, coverage, claims, worker, scan, orphans>>

\* The lease of a claim nobody works on runs out in time ...
OrphanExpires(c) == c \notin Held /\ LeaseEnds(c) /\ UNCHANGED faults

\* ... and a slow worker may lose its lease while it works.
LeaseLost(c) ==
    /\ c \in Held
    /\ faults < MaxFaults
    /\ faults' = faults + 1
    /\ LeaseEnds(c)

----------------------------------------------------------------------------
(***************************************************************************)
(* MatterService.reconcile_inventory: a scan is compared with the snapshot *)
(* before it, and appends its own, which replaces the index.  Then it      *)
(* reads the coverage rows of the files it found, writes them with the new *)
(* inventory revision, and retires the files that the comparison calls     *)
(* deleted: those that were in the index and are gone, without those whose *)
(* content a new file has.  A row that was not active starts over, and a   *)
(* later selection opens its source stage.  A scan that dies in between is *)
(* not resumed, and the next one compares with the snapshot it left.       *)
(***************************************************************************)
Indexed == {o \in Objects : index[o] # 0}

\* compare_snapshots: a moved file is one that is gone for one that is new.
Deleted(found) ==
    LET gone == Indexed \ found
        moves == {M \in SUBSET gone : Cardinality(M) <= Cardinality(found \ Indexed)}
    IN  {gone \ moved : moved \in moves}

ScanIndexes ==
    /\ scan.step = "idle"
    /\ scan.revision <= MaxScans
    /\ \E found \in SUBSET Objects : \E gone \in Deleted(found) :
         /\ scan' = [scan EXCEPT !.step = "indexed", !.found = found,
                                 !.gone = gone, !.revision = @ + 1]
         /\ index' = [o \in Objects |->
                        IF o \in found THEN scan.revision + 1 ELSE 0]
    /\ UNCHANGED <<coverage, items, claims, worker, orphans, faults>>

ScanReads ==
    /\ scan.step = "indexed"
    /\ scan' = [scan EXCEPT !.step = "read", !.rows = coverage]
    /\ UNCHANGED <<index, coverage, items, claims, worker, orphans, faults>>

Reconciled(row, revision) ==
    [active |-> TRUE, revision |-> revision,
     source |-> IF row.active THEN row.source ELSE "missing"]

ScanWrites ==
    /\ scan.step = "read"
    /\ coverage' = [o \in Objects |->
                      IF o \in scan.found
                      THEN Reconciled(scan.rows[o], scan.revision)
                      ELSE coverage[o]]
    /\ scan' = [scan EXCEPT !.step = "written", !.rows = NoRows]
    /\ UNCHANGED <<index, items, claims, worker, orphans, faults>>

\* retire_objects writes the same row whatever stages the file had.
ScanRetires ==
    /\ scan.step = "written"
    /\ coverage' = [o \in Objects |->
                      IF o \in scan.gone /\ coverage[o].active
                      THEN [NoRow EXCEPT !.revision = scan.revision]
                      ELSE coverage[o]]
    /\ scan' = [scan EXCEPT !.step = "idle", !.found = {}, !.gone = {}]
    /\ UNCHANGED <<index, items, claims, worker, orphans, faults>>

\* The process that scans ends, or raises, between two of its transactions.
ScanDies ==
    /\ scan.step # "idle"
    /\ faults < MaxFaults
    /\ faults' = faults + 1
    /\ scan' = [FirstScan EXCEPT !.revision = scan.revision]
    /\ UNCHANGED <<index, coverage, items, claims, worker, orphans>>

(***************************************************************************)
(* reconcile_coverage_inventory_orphans: active rows without an inventory  *)
(* occurrence are paged, then retired.                                     *)
(***************************************************************************)
OrphanedPending == {o \in Objects : /\ coverage[o].active /\ index[o] = 0
                                    /\ coverage[o].source = "pending"}
Orphaned == {o \in Objects : coverage[o].active /\ index[o] = 0}

PageOrphans ==
    /\ orphans = {}
    /\ Orphaned # {}
    /\ orphans' = Orphaned
    /\ UNCHANGED <<index, coverage, items, claims, worker, scan, faults>>

RetireOrphans ==
    /\ orphans # {}
    /\ coverage' = [o \in Objects |->
                      IF o \in orphans /\ coverage[o].active
                      THEN [NoRow EXCEPT !.revision = 1] ELSE coverage[o]]
    /\ orphans' = {}
    /\ UNCHANGED <<index, items, claims, worker, scan, faults>>

\* apply_content_selection_many opens the stages of a file that has none.
Select(o) ==
    /\ coverage[o].active
    /\ coverage[o].source = "missing"
    /\ coverage' = [coverage EXCEPT ![o].source = "pending"]
    /\ UNCHANGED <<index, items, claims, worker, scan, orphans, faults>>

----------------------------------------------------------------------------
Work(w) ==
    \/ Load(w)
    \/ \E o \in Objects : \/ Take(w, o) \/ ReadRow(w, o) \/ WriteRow(w, o)
                          \/ Checkpoint(w, o) \/ Complete(w, o)
    \/ EndPage(w)

Scan == ScanIndexes \/ ScanReads \/ ScanWrites \/ ScanRetires \/ ScanDies

Next ==
    \/ \E w \in Workers : Claim(w) \/ Work(w) \/ Crash(w) \/ Interrupt(w)
    \/ \E c \in Claims : OrphanExpires(c) \/ LeaseLost(c)
    \/ Scan
    \/ PageOrphans
    \/ RetireOrphans
    \/ \E o \in Objects : Select(o)

Spec == Init /\ [][Next]_vars

(***************************************************************************)
(* The command is run again until it reports idle, a process that is alive *)
(* goes on, a scan that has begun goes on, a lease ends, selection follows *)
(* every scan, and orphans are retired.  Faults and new scans are not fair. *)
(***************************************************************************)
FairSpec ==
    /\ Spec
    /\ \A w \in Workers : WF_vars(Claim(w)) /\ WF_vars(Work(w))
    /\ \A c \in Claims : WF_vars(OrphanExpires(c))
    /\ WF_vars(ScanReads \/ ScanWrites \/ ScanRetires)
    /\ WF_vars(PageOrphans) /\ WF_vars(RetireOrphans)
    /\ \A o \in Objects : WF_vars(Select(o))

----------------------------------------------------------------------------
(* Properties *)

(***************************************************************************)
(* The status of a claim agrees with its rows: an active claim still has a *)
(* row to do, one that is closed by its last completion has none, a claim  *)
(* that was abandoned or taken over keeps no live row, and the rows of one *)
(* claim share one lease (claim, complete and abandon in store.py keep the *)
(* two tables in step row by row).                                         *)
(***************************************************************************)
ClaimStatusAgrees ==
    \A c \in Claims :
        /\ claims[c] = "active" => IncompleteOf(c) # {}
        /\ claims[c] = "completed" => IncompleteOf(c) = {}
        /\ claims[c] \in {"abandoned", "reclaimed"} =>
             \A o \in IncompleteOf(c) : items[o].phase = "expired"
        /\ \A o, p \in IncompleteOf(c) : items[o].phase = items[p].phase

(***************************************************************************)
(* A row whose lease is running stays with its claim: concurrent workers   *)
(* get disjoint files (source-provenance, "Two workers request the same    *)
(* registered files").                                                     *)
(***************************************************************************)
LiveRowsStay ==
    [][\A o \in Objects : items[o].phase = "live" =>
         items'[o].claim = items[o].claim]_vars

(***************************************************************************)
(* Until a row is completed its checkpoint never goes back, through crash, *)
(* takeover and replay.                                                    *)
(***************************************************************************)
CheckpointsOnlyAdvance ==
    [][\A o \in Objects :
         (Incomplete(o) /\ items'[o].phase \in {"live", "expired"}) =>
           Rank[items'[o].stage] >= Rank[items[o].stage]]_vars

(***************************************************************************)
(* A row is completed only while its claim is active and its lease runs,   *)
(* however late the worker that lost it comes back.                        *)
(***************************************************************************)
LateWorkersCannotComplete ==
    [][\A o \in Objects :
         (items[o].phase # "completed" /\ items'[o].phase = "completed") =>
           /\ items[o].phase = "live"
           /\ claims[items[o].claim] = "active"
           /\ \E w \in Workers : worker[w].claim = items[o].claim]_vars

(***************************************************************************)
(* Every file that waits for its content is registered or blocked, unless  *)
(* it is retired, whichever workers die on it.                             *)
(***************************************************************************)
FilesAreProcessed ==
    \A o \in Objects :
        (coverage[o].active /\ coverage[o].source \in {"missing", "pending"}) ~>
          (coverage[o].active => coverage[o].source \in {"current", "blocked"})

(***************************************************************************)
(* A file that is gone leaves active coverage in the end, although a late  *)
(* worker may write back the row it read before the file was retired, and  *)
(* a scan may die before it retires what the next one no longer misses.    *)
(***************************************************************************)
GoneFilesAreRetired ==
    \A o \in Objects :
        (index[o] = 0 /\ coverage[o].active) ~>
          (index[o] # 0 \/ ~coverage[o].active)

\* Every row that was ever claimed is completed in the end.
RowsAreCompleted ==
    \A o \in Objects : Incomplete(o) ~> items[o].phase = "completed"

(***************************************************************************)
(* "an expired interrupted claim SHALL resume from its durable stage       *)
(* checkpoint" (openspec source-provenance/spec.md:213): a recovered row   *)
(* with a checkpoint, of a file that the latest scan found, is not turned  *)
(* away.  The code compares the revision frozen at the first claim with    *)
(* the current one and blocks the file.                                    *)
(***************************************************************************)
InterruptedClaimsResume ==
    [][\A w \in Workers : \A o \in worker'[w].invalid \ worker[w].invalid :
         (items[o].recovered /\ items[o].stage # "source_version") =>
           ~(coverage[o].active /\ index[o] # 0)]_vars
=================================================================================
