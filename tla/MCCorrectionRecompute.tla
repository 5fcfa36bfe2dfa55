------------------------- MODULE MCCorrectionRecompute -------------------------
(* A server with two request threads, and a process for single commands. *)
EXTENDS CorrectionRecompute
CONSTANTS C6, C7, C12, server, command, t1, t2, none
SentTo == <<C6, C12>>
SentToThree == <<C6, C7, C12>>
TwoCorrections == {1, 2} \X {C6, C12}
OneCorrection == {1} \X {C6, C7, C12}
(* "C12" sorts before "C6", and that before "C7". *)
Sorted(owner) == CASE owner = C12 -> 0 [] owner = C6 -> 1 [] OTHER -> 2
ByIdTwo == [j \in TwoCorrections |-> 3 * j[1] + Sorted(j[2])]
ByIdOne == [j \in OneCorrection |-> 3 * j[1] + Sorted(j[2])]
TwoThreads == {t1, t2}
OneThread == {t1}
Server == {server}
Both == {server, command}
OneCommand == {command}
HomeOfTwo == [t \in TwoThreads |-> server]
HomeOfOne == [t \in OneThread |-> server]
=================================================================================
