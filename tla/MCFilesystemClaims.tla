--------------------------- MODULE MCFilesystemClaims ---------------------------
(* Two worker processes on two files, with room for every claim they refer to. *)
EXTENDS FilesystemClaims, TLC
CONSTANTS a, b, w1, w2
TwoFiles == {a, b}
TwoWorkers == {w1, w2}
FiveClaims == 1 .. 5
FourClaims == 1 .. 4
Symmetric == Permutations(TwoFiles) \cup Permutations(TwoWorkers)

(* A claim shows only in its status and in the incomplete rows and the worker *)
(* that name it, and a completed row in nothing but being completed: states   *)
(* that differ otherwise are one.                                             *)
Shown(c) == IF c = NoClaim THEN <<>> ELSE <<claims[c], IncompleteOf(c)>>
ShownRow(o) ==
    IF items[o].phase = "completed" THEN <<>>
    ELSE <<[items[o] EXCEPT !.claim = NoClaim], Shown(items[o].claim)>>
ShownPage(w) == <<Shown(worker[w].claim), [worker[w] EXCEPT !.claim = NoClaim]>>
Anonymous ==
    <<index, coverage, scan, orphans, faults,
      [o \in Objects |-> ShownRow(o)], [w \in Workers |-> ShownPage(w)]>>
=================================================================================
