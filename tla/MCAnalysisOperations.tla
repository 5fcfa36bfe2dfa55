--------------------------- MODULE MCAnalysisOperations ---------------------------
(* One source, two workers, and where they find its packages. *)
EXTENDS AnalysisOperations, TLC
CONSTANTS w1, w2, nobody, found, other
TwoWorkers == {w1, w2}
TwoTimes == {1, 2}
TwoAnswers == {found, other}
Does(x, y) == w1 :> x @@ w2 :> y
Applied(answer) == [Result("passed", answer) EXCEPT !.applied = "auto_applied"]
Former == Annotation("former")
Current == Annotation("current")
FollowUp(c, t) == Semantic(c, c, t)
Given(known, jobs, n, r) == [results |-> known, does |-> jobs, calls |-> n, runner |-> r]

New == Current :> Queued
Outdated == Former :> Queued
Behind == Former :> Applied(found) @@ FollowUp("former", 0) :> Queued
Undone == Former :> Applied(found) @@ FollowUp("former", 0) :> Result("passed", found)
Doubled(status) ==
    Current :> Applied(found) @@ FollowUp("current", 0) :> status
        @@ FollowUp("current", 1) :> Queued
Each ==
    Former :> Applied(found) @@ FollowUp("former", 0) :> Queued
        @@ FollowUp("current", 1) :> Queued
FewWorkloads ==
    {Given(New, Does("import", "import"), 3, FALSE),
     Given(New, Does("import", "cycle"), 3, FALSE),
     Given(New, Does("import", "cycle"), 2, TRUE),
     Given(Outdated, Does("import", "rebase"), 3, FALSE),
     Given(Outdated, Does("rebase", "rebase"), 2, FALSE),
     Given(Behind, Does("import", "rebase"), 3, FALSE),
     Given(Undone, Does("cycle", "rebase"), 2, TRUE),
     Given(Undone, Does("cycle", "rebase"), 2, FALSE),
     Given(Undone, Does("cycle", "cycle"), 0, FALSE),
     Given(Each, Does("import", "rebase"), 2, FALSE),
     Given(Doubled(Queued), Does("repair", "repair"), 3, FALSE),
     Given(Doubled(Queued), Does("import", "repair"), 4, FALSE),
     Given(Doubled(Result("passed", found)), Does("cycle", "repair"), 2, TRUE),
     Given(Doubled(Result("passed", found)), Does("cycle", "repair"), 2, FALSE)}
=================================================================================
