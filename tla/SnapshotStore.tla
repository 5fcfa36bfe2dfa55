---------------------------- MODULE SnapshotStore ----------------------------
(***************************************************************************)
(* The snapshot tables of src/src/matters/infrastructure/sqlite/store.py:  *)
(* snapshots, snapshot_archive and current_objects, written by several     *)
(* processes and threads, each with a connection of its own.               *)
(*                                                                         *)
(* Python's sqlite3 module opens a transaction at the first INSERT, so the *)
(* SELECT that fixes a revision (next_revision, next_revisions) and the    *)
(* SELECT of the prior current revision inside append and append_many run  *)
(* before the transaction that inserts: each is a step of its own here.    *)
(* append_next, compare_current_and_append, append_content_addressed_many  *)
(* and archive_object_coverage_history_page start with BEGIN IMMEDIATE and *)
(* are one step each.                                                      *)
(*                                                                         *)
(* A row is who wrote it and what: two rows that compete for one revision  *)
(* come from two calls, so they differ as their created_at columns do.     *)
(***************************************************************************)
EXTENDS Naturals, FiniteSets, FiniteSetsExt

CONSTANTS
  Objects,        \* (owner, object_id) identities
  Compressed,     \* those of COMPRESSED_HISTORY_OWNER, "object_coverage"
  Immutable,      \* those written only by append_content_addressed_many
  Writers,        \* threads and processes that hold a connection
  Payloads,       \* what a caller stores
  PayloadsOf,     \* bound: those the calls store under each identity
  Legacy,         \* the writer of the rows found when the store is opened
  NoRow,          \* no row under this revision
  LegacyRevisions,\* bound: revisions an object may already have
  MaxRevision,    \* bound: revisions per object
  PageLimit       \* the limit of one archive page

ASSUME StoreAssumption ==
  /\ Compressed \subseteq Objects /\ Immutable \subseteq Objects
  /\ Compressed \cap Immutable = {}
  /\ PayloadsOf \in [Objects -> SUBSET Payloads] /\ Payloads # {} /\ Legacy \notin Writers
  /\ LegacyRevisions \in Nat /\ MaxRevision \in Nat /\ LegacyRevisions <= MaxRevision
  /\ PageLimit \in Nat \ {0}
  /\ NoRow \notin [by : Writers \cup {Legacy}, payload : Payloads]

Revisions == 1 .. MaxRevision
Rows == [by : Writers \cup {Legacy}, payload : Payloads]
Mutable == Objects \ Immutable

VARIABLES
  snapshots,   \* snapshots[o][r] : the row of table snapshots, or NoRow
  archive,     \* archive[o][r] : the row of table snapshot_archive, or NoRow
  current,     \* current[o] : current_objects.revision, 0 when there is none
  call,        \* call[w] : what writer w knows between two statements
  acked,       \* the rows whose append returned without an error
  converged    \* the contents whose append_content_addressed_many returned so

vars == <<snapshots, archive, current, call, acked, converged>>

NoRevisions == [o \in Objects |-> 0]
Idle == [at |-> "idle", many |-> FALSE, rev |-> NoRevisions, prior |-> NoRevisions]
Calls == [at : {"idle", "planned", "prior"}, many : BOOLEAN,
          rev : [Objects -> 0 .. MaxRevision], prior : [Objects -> 0 .. MaxRevision]]

TypeOK ==
  /\ snapshots \in [Objects -> [Revisions -> Rows \cup {NoRow}]]
  /\ archive \in [Objects -> [Revisions -> Rows \cup {NoRow}]]
  /\ current \in [Objects -> 0 .. MaxRevision]
  /\ call \in [Writers -> Calls]
  /\ acked \subseteq [object : Mutable, revision : Revisions, row : Rows]
  /\ converged \subseteq [object : Immutable, payload : Payloads]


Stored(o) == {r \in Revisions : snapshots[o][r] # NoRow}
MaxStored(o) == Max(Stored(o) \cup {0})

\* Mutant: the table of live rows is read last.
HistoryRowLiveFirst(o, r) == IF snapshots[o][r] # NoRow THEN snapshots[o][r] ELSE archive[o][r]

\* What history(o) returns for one revision: the archive is read last, so it
\* wins over a row of snapshots.
HistoryRow(o, r) == IF archive[o][r] # NoRow THEN archive[o][r] ELSE snapshots[o][r]
LastKept(o) == Max({r \in Revisions : HistoryRow(o, r) # NoRow} \cup {0})
History(o) == [r \in 1 .. LastKept(o) |-> HistoryRow(o, r)]

\* A store opened for the first time by this version of the code: rows written
\* before coverage history was compressed are all still in snapshots.
Init ==
  /\ current \in [Objects -> {0, LegacyRevisions}]
  /\ \A o \in Objects \ Compressed : current[o] = 0
  /\ \E p \in Payloads :
       snapshots = [o \in Objects |-> [r \in Revisions |->
         IF r <= current[o] THEN [by |-> Legacy, payload |-> p] ELSE NoRow]]
  /\ archive = [o \in Objects |-> [r \in Revisions |-> NoRow]]
  /\ call = [w \in Writers |-> Idle]
  /\ acked = {}
  /\ converged = {}

------------------------------------------------------------------------------
(* The pieces of a writing transaction.  rev[o] = 0 : o is not written.    *)

Written(rev) == {o \in Objects : rev[o] # 0}

\* Mutant: INSERT OR REPLACE.
FreeOrReplaced(rev) == \A o \in Written(rev) : rev[o] \in Revisions

\* INSERT INTO snapshots: the primary key must be free.
Free(rev) == \A o \in Written(rev) : snapshots[o][rev[o]] = NoRow

Inserted(rev, row) ==
  [o \in Objects |-> IF rev[o] # 0 THEN [snapshots[o] EXCEPT ![rev[o]] = row]
                                   ELSE snapshots[o]]

\* Mutant: the upsert without its WHERE clause.
AdvancedAlways(rev) == [o \in Objects |-> IF rev[o] # 0 THEN rev[o] ELSE current[o]]

\* Mutant: the pointer counts the appends.
AdvancedByCount(rev) == [o \in Objects |-> IF rev[o] # 0 THEN current[o] + 1 ELSE current[o]]

\* The upsert of current_objects moves the pointer forward only.
Advanced(rev) == [o \in Objects |-> IF rev[o] > current[o] THEN rev[o] ELSE current[o]]

\* The objects whose prior row _archive_snapshot is called for.
Displaced(rev, prior, many) ==
  {o \in Compressed \cap Written(rev) : /\ prior[o] # 0
                                        /\ IF many THEN Advanced(rev)[o] > prior[o]
                                                   ELSE rev[o] > prior[o]}

\* _archive_snapshot of revision r of o, given the table snap: a row that is
\* gone is skipped; one already archived must be the same row.
Verifies(snap, o, r) == snap[o][r] = NoRow \/ archive[o][r] \in {NoRow, snap[o][r]}

\* Mutant: the row is deleted and no archive entry replaces it.
ArchiveWithout(snap, rows) == archive

ArchiveWith(snap, rows) ==
  [o \in Objects |-> [r \in Revisions |->
     IF <<o, r>> \in rows /\ snap[o][r] # NoRow THEN snap[o][r] ELSE archive[o][r]]]
SnapshotsWithout(snap, rows) ==
  [o \in Objects |-> [r \in Revisions |-> IF <<o, r>> \in rows THEN NoRow ELSE snap[o][r]]]

\* The transaction of append, append_many, append_next and of
\* compare_current_and_append, from its INSERT to its commit.
Archivable(rev, row, prior, many) ==
  \A o \in Displaced(rev, prior, many) : /\ prior[o] # Advanced(rev)[o]
                                         /\ Verifies(Inserted(rev, row), o, prior[o])
Commit(rev, row, prior, many) ==
  LET moved == {<<o, prior[o]>> : o \in Displaced(rev, prior, many)} IN
  /\ snapshots' = SnapshotsWithout(Inserted(rev, row), moved)
  /\ archive' = ArchiveWith(Inserted(rev, row), moved)
  /\ current' = Advanced(rev)
  /\ acked' = acked \cup {[object |-> o, revision |-> rev[o], row |-> row] : o \in Written(rev)}

------------------------------------------------------------------------------
(* append and append_many at a revision that the caller read before        *)

\* next_revision: one more than the newest row of snapshots.
PlanAppend(w, o) ==
  /\ call[w].at = "idle" /\ o \in Mutable
  /\ MaxStored(o) < MaxRevision
  /\ call' = [call EXCEPT ![w] = [Idle EXCEPT !.at = "planned",
                                              !.rev = [NoRevisions EXCEPT ![o] = MaxStored(o) + 1]]]
  /\ UNCHANGED <<snapshots, archive, current, acked, converged>>

\* next_revisions: one more than the current revision of each object.
PlanAppendMany(w, S) ==
  /\ call[w].at = "idle" /\ S \subseteq Mutable /\ S # {}
  /\ \A o \in S : current[o] < MaxRevision
  /\ call' = [call EXCEPT ![w] =
       [at |-> "planned", many |-> TRUE, prior |-> NoRevisions,
        rev |-> [o \in Objects |-> IF o \in S THEN current[o] + 1 ELSE 0]]]
  /\ UNCHANGED <<snapshots, archive, current, acked, converged>>

\* The SELECT of the prior current revision, before the first INSERT.
ReadPrior(w) ==
  /\ call[w].at = "planned"
  /\ call' = [call EXCEPT ![w].at = "prior",
                          ![w].prior = [o \in Objects |-> IF call[w].rev[o] # 0 THEN current[o] ELSE 0]]
  /\ UNCHANGED <<snapshots, archive, current, acked, converged>>

CommitAppend(w, p) ==
  LET c == call[w]
      row == [by |-> w, payload |-> p] IN
  /\ c.at = "prior" /\ \A o \in Written(c.rev) : p \in PayloadsOf[o]
  /\ Free(c.rev) /\ Archivable(c.rev, row, c.prior, c.many)
  /\ Commit(c.rev, row, c.prior, c.many)
  /\ call' = [call EXCEPT ![w] = Idle]
  /\ UNCHANGED converged

\* IntegrityError, or ValueError from the archive: the transaction rolls back.
RefuseAppend(w, p) ==
  LET c == call[w]
      row == [by |-> w, payload |-> p] IN
  /\ c.at = "prior" /\ ~(Free(c.rev) /\ Archivable(c.rev, row, c.prior, c.many))
  /\ call' = [call EXCEPT ![w] = Idle]
  /\ UNCHANGED <<snapshots, archive, current, acked, converged>>

\* The caller's process ends, or its code raises, between two statements.
Abandon(w) ==
  /\ call[w].at # "idle"
  /\ call' = [call EXCEPT ![w] = Idle]
  /\ UNCHANGED <<snapshots, archive, current, acked, converged>>

------------------------------------------------------------------------------
(* The operations that are one immediate transaction                       *)

At(o, r) == [NoRevisions EXCEPT ![o] = r]

AppendNext(w, o, p) ==
  LET rev == At(o, MaxStored(o) + 1)
      row == [by |-> w, payload |-> p] IN
  /\ call[w].at = "idle" /\ o \in Mutable /\ MaxStored(o) < MaxRevision
  /\ p \in PayloadsOf[o]
  /\ Free(rev) /\ Archivable(rev, row, At(o, current[o]), FALSE)
  /\ Commit(rev, row, At(o, current[o]), FALSE)
  /\ UNCHANGED <<call, converged>>

\* compare_current_and_append: an equivalent current payload is returned as it
\* is (no change of state); another one is followed by the next revision.
CompareAndAppend(w, o, p) ==
  LET held == IF current[o] = 0 THEN NoRow ELSE snapshots[o][current[o]]
      prior == IF held = NoRow THEN 0 ELSE current[o]
      rev == At(o, MaxStored(o) + 1)
      row == [by |-> w, payload |-> p] IN
  /\ call[w].at = "idle" /\ o \in Mutable /\ MaxStored(o) < MaxRevision
  /\ p \in PayloadsOf[o] /\ ~(held # NoRow /\ held.payload = p)
  /\ Free(rev) /\ Archivable(rev, row, At(o, prior), FALSE)
  /\ Commit(rev, row, At(o, prior), FALSE)
  /\ UNCHANGED <<call, converged>>

\* Mutant: an identity that is already stored is taken as it is.
AgreesAnyway(o, p) == \A r \in Stored(o) : p \in PayloadsOf[o]

\* append_content_addressed_many: identities already stored with this payload
\* are left alone, one stored with another payload refuses the whole call.
Agrees(o, p) == \A r \in Stored(o) : snapshots[o][r].payload = p
AppendContentAddressed(w, S, p) ==
  LET rev == [o \in Objects |-> IF o \in S /\ Stored(o) = {} THEN 1 ELSE 0]
      row == [by |-> w, payload |-> p] IN
  /\ call[w].at = "idle" /\ S \subseteq Immutable /\ S # {} /\ MaxRevision > 0
  /\ \A o \in S : p \in PayloadsOf[o] /\ Agrees(o, p)
  /\ snapshots' = Inserted(rev, row)
  /\ current' = Advanced(rev)
  /\ converged' = converged \cup {[object |-> o, payload |-> p] : o \in S}
  /\ UNCHANGED <<archive, call, acked>>

\* archive_object_coverage_history_page: at most PageLimit non-current rows,
\* without leaving one out between two of an object; one that does not verify
\* rolls the page back.
NonCurrent == {x \in Compressed \X Revisions : /\ snapshots[x[1]][x[2]] # NoRow
                                               /\ x[2] # current[x[1]]}
ArchivePage(page) ==
  /\ page \subseteq NonCurrent /\ page # {} /\ Cardinality(page) <= PageLimit
  /\ \A x \in page, y \in page, z \in NonCurrent :
       (x[1] = z[1] /\ z[1] = y[1] /\ x[2] <= z[2] /\ z[2] <= y[2]) => z \in page
  /\ \A x \in page : Verifies(snapshots, x[1], x[2])
  /\ snapshots' = SnapshotsWithout(snapshots, page)
  /\ archive' = ArchiveWith(snapshots, page)
  /\ UNCHANGED <<current, call, acked, converged>>

WriterStep(w) ==
  \/ \E o \in Objects : PlanAppend(w, o)
  \/ \E S \in SUBSET Objects : PlanAppendMany(w, S)
  \/ ReadPrior(w)
  \/ \E p \in Payloads : CommitAppend(w, p)
  \/ \E p \in Payloads : RefuseAppend(w, p)
  \/ Abandon(w)
  \/ \E o \in Objects, p \in Payloads : AppendNext(w, o, p)
  \/ \E o \in Objects, p \in Payloads : CompareAndAppend(w, o, p)
  \/ \E S \in SUBSET Immutable, p \in Payloads : AppendContentAddressed(w, S, p)

Next ==
  \/ \E w \in Writers : WriterStep(w)
  \/ \E page \in SUBSET NonCurrent : ArchivePage(page)

Spec == Init /\ [][Next]_vars
------------------------------------------------------------------------------
(* What the store promises                                                 *)

\* The current pointer names a row that is in snapshots and in no archive: a
\* racing append, with a prior read before another writer moved the pointer,
\* never compresses the row that readers of the current state join with.
CurrentIsReadable ==
  \A o \in Objects : current[o] # 0 => /\ snapshots[o][current[o]] # NoRow
                                       /\ archive[o][current[o]] = NoRow

\* Every revision up to the current one is kept, in snapshots or in the
\* archive, and none above it, whatever the interleaving of planned appends,
\* immediate ones and archive pages.
HistoryIsDense ==
  \A o \in Objects, r \in Revisions : (HistoryRow(o, r) # NoRow) <=> (r <= current[o])

\* A write that was acknowledged to its caller is what history returns for its
\* revision, for every mutable owner whose history is not compressed.
PlainWritesAreKept ==
  \A a \in acked : a.object \notin Compressed =>
    HistoryRow(a.object, a.revision) = a.row

\* Every call accepted for an immutable identity, the repeated ones included,
\* finds its own payload there for good, and the identity has one revision.
ImmutableConverges ==
  /\ \A o \in Immutable : current[o] <= 1
  /\ \A c \in converged : /\ HistoryRow(c.object, 1) \in Rows
                          /\ HistoryRow(c.object, 1).payload = c.payload

\* The history every reader sees only grows at its end.
Log == INSTANCE RevisionHistory WITH log <- [o \in Objects |-> History(o)]
HistoryOnlyGrows == Log!Spec

\* openspec/changes/build-matters-model-driven-core/specs/authorization-coverage/
\* spec.md:301-302 on coverage history: "Reading history SHALL reconstruct the
\* exact logical revision sequence; compression SHALL NOT discard, summarize,
\* or reorder prior dispositions."  Every acknowledged coverage write should
\* thus be read back; an append planned two revisions ago is not.
CoverageWritesAreKept ==
  \A a \in acked : a.object \in Compressed =>
    HistoryRow(a.object, a.revision) = a.row
==============================================================================
