--------------------------- MODULE MCSnapshotStore ---------------------------
(* A small instance of SnapshotStore: an object with compressed history, a    *)
(* plain one and a content-addressed one.  Two payloads compete where they    *)
(* are compared, for the content-addressed identity; the rows of the others   *)
(* differ by their writers.                                                   *)
EXTENDS SnapshotStore, TLC

CONSTANTS coverage, plain, anchor, w1, w2, p1, p2

CoverageObjects == {coverage}
Anchors == {anchor}
AllObjects == {coverage, plain, anchor}
AllWriters == {w1, w2}
AllPayloads == {p1, p2}
SomePayloads == [o \in Objects |-> IF o = anchor THEN AllPayloads ELSE {p1}]

WriterSymmetry == Permutations(AllWriters)
==============================================================================
