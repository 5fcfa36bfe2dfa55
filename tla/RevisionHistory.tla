--------------------------- MODULE RevisionHistory ---------------------------
(***************************************************************************)
(* What the SQLite snapshot store promises about one object's revisions,   *)
(* seen through SQLiteStore.history: a log that only ever grows at its     *)
(* end.  A transaction may extend the logs of several objects at once.  An *)
(* immutable (content-addressed) identity gets one entry and no more.      *)
(***************************************************************************)
EXTENDS Naturals, Sequences

CONSTANTS Objects,     \* (owner, object_id) identities
          Immutable,   \* the content-addressed ones
          Rows         \* what one revision can hold

VARIABLE log           \* log[o] : the sequence history(o) returns

Init == log \in [Objects -> Seq(Rows)]

Publish(grown, row) ==
  /\ \A o \in grown \cap Immutable : log[o] = <<>>
  /\ log' = [o \in Objects |-> IF o \in grown THEN Append(log[o], row[o])
                                              ELSE log[o]]

Next == \E grown \in SUBSET Objects : \E row \in [grown -> Rows] : Publish(grown, row)

Spec == Init /\ [][Next]_log
==============================================================================
