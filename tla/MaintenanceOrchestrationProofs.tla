--------------------- MODULE MaintenanceOrchestrationProofs ---------------------
(***************************************************************************)
(* Planned maintenance, for any hosts, observations, plans and budgets.    *)
(* The invariant has four parts beside the types: what a run is about to   *)
(* say of an observation is in a stored receipt (Announced), it says so of *)
(* tasks that are about one (AtFeedback), what was said is what the        *)
(* terminal receipt says (Kept), and the tasks of a run are joined in the  *)
(* order of its plan (InPlanOrder).                                        *)
(***************************************************************************)
EXTENDS MaintenanceOrchestration, FiniteSetTheorems, SequenceTheorems, TLAPS

Announced ==
    /\ Earned
    /\ \A h \in Hosts : run[h].step \in {"feedback", "settle"} =>
          \A i \in Feedback(h) : Result(h, run[h].tasks[i]) \in joined

AtFeedback == \A h \in Hosts : run[h].step = "settle" => run[h].at \in Feedback(h)

Kept == \A x \in said : terminal[x[1]] = x[2]

FollowedBy(r) ==
    \A i \in DOMAIN r.tasks : r.children[r.tasks[i].id] \in Good =>
        \A d \in r.tasks[i].after : r.children[d] \in Good

Orderly(r) ==
    /\ Acceptable(r.tasks)
    /\ \A i \in DOMAIN r.tasks : i >= r.at => r.children[r.tasks[i].id] = "waiting"
    /\ FollowedBy(r)

InPlanOrder == \A h \in Hosts : run[h].step \in {"plan", "tasks"} => Orderly(run[h])

OrchestrationInv == TypeOK /\ Announced /\ AtFeedback /\ Kept /\ InPlanOrder

----------------------------------------------------------------------------
(* Helpers *)

LEMMA DispositionType == \A s : Disposition(s) \in Dispositions
BY DEF Disposition, Dispositions

LEMMA IdleType == Idle \in RunRecords
BY DEF Idle, RunRecords, Steps

LEMMA ChosenType ==
    ASSUME TypeOK, NEW room
    PROVE  Chosen(room) \subseteq Observations /\ IsFiniteSet(Chosen(room))
<1>1. Chosen(room) \subseteq Observations
  BY DEF Chosen, Least, Pending, TypeOK
<1> QED
  BY <1>1, FS_Subset, OrchestrationAssumption

\* The tasks of the planner and those of the observations make a plan.
LEMMA PlanType ==
    ASSUME TypeOK, NEW host \in HostPlans, NEW room, NEW asked \in InOrder(Chosen(room))
    PROVE  host \o [i \in DOMAIN asked |-> FeedbackTask(asked[i])] \in Seq(Tasks)
<1> DEFINE S == Chosen(room)
           n == Cardinality(S)
           feedback == [i \in DOMAIN asked |-> FeedbackTask(asked[i])]
<1>1. S \subseteq Observations /\ n \in Nat
  BY ChosenType, FS_CardinalityType
<1>2. asked \in [1..n -> S]
  BY DEF InOrder
<1>3. \A i \in 1..n : FeedbackTask(asked[i]) \in Tasks
  BY <1>1, <1>2 DEF FeedbackTask, Tasks, Ids
<1> HIDE DEF n, S
<1>4. feedback = [i \in 1..n |-> FeedbackTask(asked[i])]
  BY <1>2
<1> HIDE DEF feedback
<1>5. feedback \in Seq(Tasks)
  BY <1>1, <1>3, <1>4, IsASeq
<1>6. host \in Seq(Tasks)
  BY OrchestrationAssumption
<1>7. host \o feedback \in Seq(Tasks)
  BY <1>5, <1>6
<1> QED
  BY <1>7 DEF feedback

\* What the owner gives to an executor is the next task of the plan.
LEMMA NextTask ==
    ASSUME TypeOK, NEW h \in Hosts, ~Through(h)
    PROVE  /\ run[h] \in RunRecords
           /\ run[h].at \in DOMAIN run[h].tasks
           /\ TheTask(h) \in Tasks
<1>1. run[h] \in RunRecords
  BY DEF TypeOK
<1>2. run[h].tasks \in Seq(Tasks)
  BY <1>1 DEF RunRecords
<1>3. run[h].at \in DOMAIN run[h].tasks
  BY DEF Through
<1> QED
  BY <1>1, <1>2, <1>3 DEF TheTask

LEMMA FeedbackType ==
    ASSUME TypeOK, NEW h \in Hosts, NEW i \in Feedback(h)
    PROVE  /\ run[h].tasks[i] \in Tasks
           /\ run[h].tasks[i].about \in Observations
           /\ Result(h, run[h].tasks[i]) \in Observations \X Dispositions
<1>1. run[h].tasks \in Seq(Tasks)
  BY DEF TypeOK, RunRecords
<1>2. run[h].tasks[i] \in Tasks /\ run[h].tasks[i].about # None
  BY <1>1 DEF Feedback
<1> QED
  BY <1>2, DispositionType DEF Tasks, Result

LEMMA RecordOfJoin ==
    ASSUME NEW r \in RunRecords, NEW a \in Nat \ {0}, NEW n \in Nat \ {0},
           NEW seen \in SUBSET Failures, NEW children \in [Ids -> Statuses \cup {"waiting"}]
    PROVE  [r EXCEPT !.at = a, !.attempt = n, !.seen = seen, !.children = children]
             \in RunRecords
BY DEF RunRecords

LEMMA JoinsType ==
    ASSUME TypeOK, NEW h \in Hosts, NEW t \in Tasks, NEW s \in Statuses, Joins(h, t, s)
    PROVE  run' \in [Hosts -> RunRecords]
<1> DEFINE r == run[h]
           q == [r EXCEPT !.at = @ + 1, !.attempt = 1, !.seen = {},
                          !.children = [@ EXCEPT ![t.id] = s]]
<1>1. r \in RunRecords /\ run \in [Hosts -> RunRecords]
  BY DEF TypeOK
<1>2. [r.children EXCEPT ![t.id] = s] \in [Ids -> Statuses \cup {"waiting"}]
  BY <1>1 DEF RunRecords
<1>3. r.at + 1 \in Nat \ {0} /\ 1 \in Nat \ {0} /\ {} \in SUBSET Failures
  BY <1>1 DEF RunRecords
<1>4. q \in RunRecords
  BY <1>1, <1>2, <1>3, RecordOfJoin
<1>5. run' = [run EXCEPT ![h] = q]
  BY DEF Joins, Goes
<1> QED
  BY <1>1, <1>4, <1>5

\* A joined task leaves the other tasks of the plan, and what they follow,
\* as they are.
LEMMA JoinsInOrder ==
    ASSUME TypeOK, InPlanOrder, NEW h \in Hosts, At(h, "tasks"), ~Through(h),
           NEW s \in Statuses, Joins(h, TheTask(h), s), s \in Good => Ready(h, TheTask(h))
    PROVE  InPlanOrder'
<1> DEFINE r == run[h]
           q == run'[h]
           t == TheTask(h)
<1>1. r \in RunRecords /\ Orderly(r) /\ r.step = "tasks" /\ r.at \in DOMAIN r.tasks
  BY NextTask DEF InPlanOrder, At
<1>2. /\ q.tasks = r.tasks
      /\ q.at = r.at + 1
      /\ q.children = [r.children EXCEPT ![t.id] = s]
      /\ \A g \in Hosts \ {h} : run'[g] = run[g]
  BY <1>1 DEF Joins, Goes, TypeOK, RunRecords
<1>3. /\ r.tasks \in Seq(Tasks)
      /\ r.at \in Nat \ {0}
      /\ r.children \in [Ids -> Statuses \cup {"waiting"}]
      /\ t = r.tasks[r.at]
  BY <1>1 DEF RunRecords, TheTask
<1> HIDE DEF t
<1>4. /\ \A i \in DOMAIN r.tasks : /\ i \in Nat
                                   /\ r.tasks[i].id \in Ids
                                   /\ r.tasks[i].after \subseteq Ids
      /\ \A i, j \in DOMAIN r.tasks : r.tasks[i].id = r.tasks[j].id => i = j
      /\ \A i \in DOMAIN r.tasks : r.tasks[i].after \subseteq {r.tasks[j].id : j \in 1..i - 1}
  <2>1. \A i \in DOMAIN r.tasks : i \in Nat /\ r.tasks[i] \in Tasks
    BY <1>3
  <2>2. \A i \in DOMAIN r.tasks : r.tasks[i].id \in Ids /\ r.tasks[i].after \subseteq Ids
    BY <2>1 DEF Tasks
  <2> QED
    BY <1>1, <2>1, <2>2 DEF Orderly, Acceptable
<1>5. \A d \in Ids : d # t.id => q.children[d] = r.children[d]
  BY <1>2, <1>3
<1>6. r.children[t.id] = "waiting"
  BY <1>1, <1>3 DEF Orderly
<1>7. \A i \in DOMAIN q.tasks : i >= q.at => q.children[q.tasks[i].id] = "waiting"
  <2> SUFFICES ASSUME NEW i \in DOMAIN r.tasks, i >= r.at + 1
               PROVE  q.children[r.tasks[i].id] = "waiting"
    BY <1>2
  <2>1. i >= r.at /\ r.children[r.tasks[i].id] = "waiting"
    BY <1>1, <1>3, <1>4 DEF Orderly
  <2>2. r.tasks[i].id # t.id
    BY <1>1, <1>3, <1>4
  <2> QED
    BY <1>4, <1>5, <2>1, <2>2
<1>8. FollowedBy(q)
  <2> SUFFICES ASSUME NEW i \in DOMAIN r.tasks, q.children[r.tasks[i].id] \in Good,
                      NEW d \in r.tasks[i].after
               PROVE  q.children[d] \in Good
    BY <1>2 DEF FollowedBy
  <2>1. d \in Ids
    BY <1>4
  <2>2. CASE r.tasks[i].id = t.id
    <3>1. t = r.tasks[i]
      BY <1>1, <1>3, <1>4, <2>2
    <3>2. s \in Good
      BY <1>2, <1>3, <1>4, <2>2
    <3>3. r.children[d] \in Good
      BY <3>1, <3>2 DEF Ready, t
    <3>4. d # t.id
      BY <1>6, <3>3 DEF Good
    <3> QED
      BY <1>5, <2>1, <3>3, <3>4
  <2>3. CASE r.tasks[i].id # t.id
    <3>1. r.children[r.tasks[i].id] \in Good
      BY <1>4, <1>5, <2>3
    <3>2. r.children[d] \in Good
      BY <1>1, <3>1 DEF Orderly, FollowedBy
    <3>3. d # t.id
      BY <1>6, <3>2 DEF Good
    <3> QED
      BY <1>5, <2>1, <3>2, <3>3
  <2> QED
    BY <2>2, <2>3
<1>9. Orderly(q)
  BY <1>1, <1>2, <1>7, <1>8 DEF Orderly
<1> QED
  BY <1>2, <1>9 DEF InPlanOrder

----------------------------------------------------------------------------
(* The types. *)

LEMMA GoesType ==
    ASSUME TypeOK, NEW h \in Hosts, NEW r \in RunRecords, Goes(h, r)
    PROVE  run' \in [Hosts -> RunRecords]
BY DEF Goes, TypeOK

LEMMA RecordOfStep ==
    ASSUME NEW r \in RunRecords, NEW step \in Steps, NEW at \in Nat \ {0}
    PROVE  /\ [r EXCEPT !.step = step] \in RunRecords
           /\ [r EXCEPT !.at = at] \in RunRecords
           /\ [r EXCEPT !.step = step, !.at = at] \in RunRecords
BY DEF RunRecords

LEMMA SettlesType ==
    ASSUME TypeOK, NEW h \in Hosts, Settles(h)
    PROVE  run' \in [Hosts -> RunRecords]
<1> DEFINE read == {run[h].tasks[i].id : i \in Feedback(h)}
           children == [d \in Ids |-> IF d \in read THEN run[h].children[d] ELSE "waiting"]
<1>1. run[h] \in RunRecords
  BY DEF TypeOK
<1>2. children \in [Ids -> Statuses \cup {"waiting"}]
  BY <1>1 DEF RunRecords
<1>3. run' = [run EXCEPT ![h] = [run[h] EXCEPT !.step = "feedback", !.at = 1,
                                               !.children = children]]
  BY DEF Settles, Goes
<1> HIDE DEF children
<1>4. [run[h] EXCEPT !.children = children] \in RunRecords
  BY <1>1, <1>2 DEF RunRecords
<1>5. [run[h] EXCEPT !.step = "feedback", !.at = 1, !.children = children] \in RunRecords
  <2>1. "feedback" \in Steps /\ 1 \in Nat \ {0}
    BY DEF Steps
  <2>2. [[run[h] EXCEPT !.children = children] EXCEPT !.step = "feedback", !.at = 1]
          \in RunRecords
    BY <1>4, <2>1, RecordOfStep
  <2> QED
    BY <1>1, <2>2 DEF RunRecords
<1> QED
  BY <1>3, <1>5 DEF TypeOK

LEMMA TypeStep == TypeOK /\ AtFeedback /\ [Next]_vars => TypeOK'
<1> SUFFICES ASSUME TypeOK, AtFeedback, [Next]_vars PROVE TypeOK'
  OBVIOUS
<1> USE DEF stored
<1>1. ASSUME NEW o \in Observations, Observe(o) PROVE TypeOK'
  BY <1>1 DEF Observe, TypeOK
<1>2. ASSUME NEW h \in Hosts, NEW p \in HostPlans, Request(h, p) PROVE TypeOK'
  <2>1. PICK tasks \in Seq(Tasks) : Goes(h, [Idle EXCEPT !.step = "plan", !.tasks = tasks])
    BY <1>2, PlanType DEF Request
  <2>2. [Idle EXCEPT !.step = "plan", !.tasks = tasks] \in RunRecords
    BY <2>1, IdleType DEF RunRecords, Steps
  <2> QED
    BY <1>2, <2>1, <2>2, GoesType DEF Request, TypeOK
<1>3. ASSUME NEW h \in Hosts, Plan(h) PROVE TypeOK'
  <2>1. run[h] \in RunRecords /\ "tasks" \in Steps /\ 1 \in Nat \ {0}
    BY DEF TypeOK, Steps
  <2>2. run' \in [Hosts -> RunRecords]
    BY <1>3, <2>1, RecordOfStep, GoesType DEF Plan
  <2> QED
    BY <1>3, <2>2 DEF Plan, TypeOK
<1>4. ASSUME NEW h \in Hosts, Block(h) PROVE TypeOK'
  <2>1. run' \in [Hosts -> RunRecords]
    BY <1>4, NextTask, JoinsType DEF Block, Statuses
  <2> QED
    BY <1>4, <2>1 DEF Block, TypeOK
<1>5. ASSUME NEW h \in Hosts, Try(h) PROVE TypeOK'
  <2>1. PICK s \in Reports :
           \/ Joins(h, TheTask(h), s)
           \/ /\ s \notin Good
              /\ Goes(h, [run[h] EXCEPT !.attempt = @ + 1, !.seen = @ \cup {s}])
    BY <1>5 DEF Try
  <2>2. TheTask(h) \in Tasks /\ s \in Statuses
    BY <1>5, NextTask, OrchestrationAssumption DEF Try, Statuses
  <2>3. run' \in [Hosts -> RunRecords]
    <3>1. CASE Joins(h, TheTask(h), s)
      BY <2>2, <3>1, JoinsType
    <3>2. CASE s \notin Good /\ Goes(h, [run[h] EXCEPT !.attempt = @ + 1, !.seen = @ \cup {s}])
      <4>1. s \in Failures
        BY <3>2, OrchestrationAssumption
      <4>2. run[h] \in RunRecords
        BY DEF TypeOK
      <4>3. run[h].attempt + 1 \in Nat \ {0} /\ run[h].seen \cup {s} \in SUBSET Failures
        BY <4>1, <4>2 DEF RunRecords
      <4>4. [run[h] EXCEPT !.attempt = @ + 1, !.seen = @ \cup {s}] \in RunRecords
        BY <4>2, <4>3 DEF RunRecords
      <4> QED
        BY <3>2, <4>4, GoesType
    <3> QED
      BY <2>1, <3>1, <3>2
  <2> QED
    BY <1>5, <2>3 DEF Try, TypeOK
<1>6. ASSUME NEW h \in Hosts, Finish(h) PROVE TypeOK'
  <2>1. run' \in [Hosts -> RunRecords]
    BY <1>6, SettlesType DEF Finish
  <2>2. {Result(h, run[h].tasks[i]) : i \in Feedback(h)} \subseteq Observations \X Dispositions
    BY FeedbackType
  <2> QED
    BY <1>6, <2>1, <2>2 DEF Finish, TypeOK
<1>7. ASSUME NEW h \in Hosts, Look(h) PROVE TypeOK'
  <2>1. run[h] \in RunRecords /\ "settle" \in Steps /\ run[h].at + 1 \in Nat \ {0}
    BY DEF TypeOK, Steps, RunRecords
  <2>2. \/ Goes(h, [run[h] EXCEPT !.step = "settle"])
        \/ Goes(h, [run[h] EXCEPT !.at = @ + 1])
    BY <1>7 DEF Look
  <2>3. run' \in [Hosts -> RunRecords]
    BY <2>1, <2>2, RecordOfStep, GoesType
  <2> QED
    BY <1>7, <2>3 DEF Look, TypeOK
<1>8. ASSUME NEW h \in Hosts, Settle(h) PROVE TypeOK'
  <2>1. CASE Says(h, TheTask(h))
    <3> DEFINE t == TheTask(h)
    <3>1. run[h] \in RunRecords /\ "feedback" \in Steps /\ run[h].at + 1 \in Nat \ {0}
      BY DEF TypeOK, Steps, RunRecords
    <3>2. run' \in [Hosts -> RunRecords]
      BY <2>1, <3>1, RecordOfStep, GoesType DEF Says
    <3>3. t.about \in Observations /\ Result(h, t) \in Observations \X Dispositions
      BY <1>8, FeedbackType DEF Settle, At, AtFeedback, TheTask
    <3>4. Result(h, t)[2] \in Dispositions
      BY <3>3
    <3> HIDE DEF t
    <3>5. /\ terminal' = [terminal EXCEPT ![t.about] = Result(h, t)[2]]
          /\ said' = said \cup {Result(h, t)}
          /\ UNCHANGED <<observed, joined, faults>>
      BY <1>8, <2>1 DEF Settle, Says, t
    <3> QED
      BY <3>2, <3>3, <3>4, <3>5 DEF TypeOK
  <2>2. CASE Goes(h, Idle) /\ UNCHANGED <<terminal, said>>
    BY <1>8, <2>2, IdleType DEF Settle, Goes, TypeOK
  <2> QED
    BY <1>8, <2>1, <2>2 DEF Settle
<1>9. ASSUME NEW h \in Hosts, Return(h) PROVE TypeOK'
  BY <1>9, IdleType DEF Return, Goes, TypeOK
<1>10. ASSUME NEW h \in Hosts, Fail(h) PROVE TypeOK'
  BY <1>10, IdleType, OrchestrationAssumption DEF Fail, Goes, TypeOK
<1>11. CASE UNCHANGED vars
  BY <1>11 DEF vars, TypeOK
<1> QED
  BY <1>1, <1>2, <1>3, <1>4, <1>5, <1>6, <1>7, <1>8, <1>9, <1>10, <1>11 DEF Next, Continue

----------------------------------------------------------------------------
(* The receipts. *)

LEMMA StaysAtTasks ==
    ASSUME TypeOK, NEW h \in Hosts, Block(h) \/ Try(h)
    PROVE  \E r : Goes(h, r) /\ r.step = "tasks"
<1> DEFINE Joined(s) == [run[h] EXCEPT !.at = @ + 1, !.attempt = 1, !.seen = {},
                                       !.children = [@ EXCEPT ![TheTask(h).id] = s]]
           Again(s) == [run[h] EXCEPT !.attempt = @ + 1, !.seen = @ \cup {s}]
<1>1. run[h] \in RunRecords /\ run[h].step = "tasks"
  BY DEF TypeOK, Block, Try, At
<1>2. ASSUME NEW s PROVE Joined(s).step = "tasks"
  BY <1>1 DEF RunRecords
<1>3. ASSUME NEW s PROVE Again(s).step = "tasks"
  BY <1>1 DEF RunRecords
<1>4. CASE Block(h)
  <2>1. Goes(h, Joined("dependency_not_current"))
    BY <1>4 DEF Block, Joins
  <2> HIDE DEF Joined
  <2> QED
    BY <1>2, <2>1
<1>5. CASE Try(h)
  <2>1. PICK s : Goes(h, Joined(s)) \/ Goes(h, Again(s))
    BY <1>5, Zenon DEF Try, Joins
  <2> HIDE DEF Joined, Again
  <2> QED
    BY <1>2, <1>3, <2>1, Zenon
<1> QED
  BY <1>4, <1>5

LEMMA AnnouncedStep == TypeOK /\ Announced /\ AtFeedback /\ [Next]_vars => Announced'
<1> SUFFICES ASSUME TypeOK, Announced, AtFeedback, [Next]_vars PROVE Announced'
  OBVIOUS
<1> USE DEF stored
<1>1. run \in [Hosts -> RunRecords]
  BY DEF TypeOK
\* What one host does leaves what the others promise.
<1>2. ASSUME NEW h \in Hosts, \A g \in Hosts \ {h} : run'[g] = run[g],
             joined \subseteq joined', said' \subseteq joined',
             run'[h].step \in {"feedback", "settle"} =>
                \A i \in Feedback(h)' : Result(h, run[h].tasks[i])' \in joined'
      PROVE  Announced'
  <2>1. \A g \in Hosts \ {h} : /\ Feedback(g)' = Feedback(g)
                              /\ \A t : Result(g, t)' = Result(g, t)
    BY <1>2 DEF Feedback, Result
  <2>2. ASSUME NEW g \in Hosts, run'[g].step \in {"feedback", "settle"},
               NEW i \in Feedback(g)'
        PROVE  Result(g, run[g].tasks[i])' \in joined'
    <3>1. CASE g = h
      BY <1>2, <2>2, <3>1
    <3>2. CASE g # h
      <4>1. Result(g, run[g].tasks[i]) \in joined
        BY <1>2, <2>1, <2>2, <3>2 DEF Announced
      <4>2. Result(g, run[g].tasks[i])' = Result(g, run[g].tasks[i])
        BY <1>2, <3>2 DEF Result
      <4> QED
        BY <1>2, <4>1, <4>2
    <3> QED
      BY <3>1, <3>2
  <2> QED
    BY <1>2, <2>2 DEF Announced, Earned
\* A host outside its feedback promises nothing.
<1>3. ASSUME NEW h \in Hosts, NEW r, Goes(h, r), r.step \notin {"feedback", "settle"},
             UNCHANGED <<joined, said>>
      PROVE  Announced'
  <2>1. run'[h] = r /\ \A g \in Hosts \ {h} : run'[g] = run[g]
    BY <1>1, <1>3 DEF Goes
  <2>2. said' \subseteq joined'
    BY <1>3 DEF Announced, Earned
  <2> QED
    BY <1>2, <1>3, <2>1, <2>2
\* In its feedback, a host has the tasks and receipts that it had.
<1>4. ASSUME NEW h \in Hosts, run[h].step \in {"feedback", "settle"},
             run'[h].tasks = run[h].tasks, run'[h].children = run[h].children,
             \A g \in Hosts \ {h} : run'[g] = run[g],
             joined' = joined, said' \subseteq joined'
      PROVE  Announced'
  <2>1. Feedback(h)' = Feedback(h)
    BY <1>4 DEF Feedback
  <2>2. \A i \in Feedback(h) : Result(h, run[h].tasks[i])' = Result(h, run[h].tasks[i])
    BY <1>4 DEF Result
  <2>3. \A i \in Feedback(h) : Result(h, run[h].tasks[i]) \in joined
    BY <1>4 DEF Announced
  <2> QED
    BY <1>2, <1>4, <2>1, <2>2, <2>3
<1>5. ASSUME NEW o \in Observations, Observe(o) PROVE Announced'
  BY <1>5 DEF Observe, Announced, Earned, Feedback, Result
<1>6. ASSUME NEW h \in Hosts, NEW p \in HostPlans, Request(h, p) PROVE Announced'
  <2>1. PICK tasks : Goes(h, [Idle EXCEPT !.step = "plan", !.tasks = tasks])
    BY <1>6 DEF Request
  <2>2. [Idle EXCEPT !.step = "plan", !.tasks = tasks].step = "plan"
    BY DEF Idle
  <2> QED
    BY <1>3, <1>6, <2>1, <2>2 DEF Request
<1>7. ASSUME NEW h \in Hosts, Plan(h) PROVE Announced'
  BY <1>1, <1>3, <1>7 DEF Plan, RunRecords
<1>8. ASSUME NEW h \in Hosts, Block(h) \/ Try(h) PROVE Announced'
  <2>1. PICK r : Goes(h, r) /\ r.step = "tasks"
    BY <1>8, StaysAtTasks
  <2> QED
    BY <1>3, <1>8, <2>1 DEF Block, Try
<1>9. ASSUME NEW h \in Hosts, Finish(h) PROVE Announced'
  <2>1. /\ run'[h].tasks = run[h].tasks
        /\ \A g \in Hosts \ {h} : run'[g] = run[g]
        /\ run'[h].children = [d \in Ids |->
              IF d \in {run[h].tasks[i].id : i \in Feedback(h)} THEN run[h].children[d]
              ELSE "waiting"]
    BY <1>1, <1>9, SMTT(30) DEF Finish, Settles, Goes, RunRecords
  <2>2. Feedback(h)' = Feedback(h)
    BY <2>1 DEF Feedback
  <2>3. ASSUME NEW i \in Feedback(h)
        PROVE  Result(h, run[h].tasks[i])' = Result(h, run[h].tasks[i])
    <3>1. run[h].tasks[i].id \in Ids
      BY FeedbackType DEF Tasks
    <3>2. run'[h].children[run[h].tasks[i].id] = run[h].children[run[h].tasks[i].id]
      BY <2>1, <3>1
    <3> QED
      BY <2>1, <3>2 DEF Result
  <2>4. /\ joined' = joined \cup {Result(h, run[h].tasks[i]) : i \in Feedback(h)}
        /\ said' = said
    BY <1>9 DEF Finish
  <2>5. said' \subseteq joined'
    BY <2>4 DEF Announced, Earned
  <2> QED
    BY <1>2, <2>1, <2>2, <2>3, <2>4, <2>5
<1>10. ASSUME NEW h \in Hosts, Look(h) PROVE Announced'
  <2>1. /\ run'[h].tasks = run[h].tasks
        /\ run'[h].children = run[h].children
        /\ \A g \in Hosts \ {h} : run'[g] = run[g]
    BY <1>1, <1>10 DEF Look, Goes, RunRecords
  <2>2. run[h].step = "feedback" /\ joined' = joined /\ said' = said
    BY <1>10 DEF Look, At
  <2>3. said' \subseteq joined'
    BY <2>2 DEF Announced, Earned
  <2> QED
    BY <1>4, <2>1, <2>2, <2>3
<1>11. ASSUME NEW h \in Hosts, Settle(h) PROVE Announced'
  <2>1. run[h].step = "settle" /\ joined' = joined
    BY <1>11 DEF Settle, At
  <2>2. CASE Says(h, TheTask(h))
    <3>1. Result(h, TheTask(h)) \in joined
      BY <2>1 DEF Announced, AtFeedback, TheTask
    <3>2. said' = said \cup {Result(h, TheTask(h))}
      BY <2>2 DEF Says
    <3>3. said' \subseteq joined'
      BY <2>1, <3>1, <3>2 DEF Announced, Earned
    <3>4. /\ run'[h].tasks = run[h].tasks
          /\ run'[h].children = run[h].children
          /\ \A g \in Hosts \ {h} : run'[g] = run[g]
      BY <1>1, <2>2 DEF Says, Goes, RunRecords
    <3> QED
      BY <1>4, <2>1, <3>3, <3>4
  <2>3. CASE Goes(h, Idle) /\ UNCHANGED said
    BY <1>3, <2>1, <2>3 DEF Idle
  <2> QED
    BY <1>11, <2>2, <2>3 DEF Settle
<1>12. ASSUME NEW h \in Hosts, Return(h) \/ Fail(h) PROVE Announced'
  BY <1>3, <1>12 DEF Return, Fail, Idle
<1>13. CASE UNCHANGED vars
  BY <1>13 DEF vars, Announced, Earned, Feedback, Result
<1> QED
  BY <1>5, <1>6, <1>7, <1>8, <1>9, <1>10, <1>11, <1>12, <1>13 DEF Next, Continue

\* Only Look goes on to settle, and it has seen what the task is about.
LEMMA AtFeedbackStep == TypeOK /\ AtFeedback /\ [Next]_vars => AtFeedback'
<1> SUFFICES ASSUME TypeOK, AtFeedback, [Next]_vars PROVE AtFeedback'
  OBVIOUS
<1> USE DEF stored
<1>1. run \in [Hosts -> RunRecords]
  BY DEF TypeOK
<1>2. ASSUME NEW h \in Hosts, NEW r, Goes(h, r), r.step # "settle"
      PROVE  AtFeedback'
  <2>1. run'[h] = r /\ \A g \in Hosts \ {h} : run'[g] = run[g]
    BY <1>1, <1>2 DEF Goes
  <2> QED
    BY <1>2, <2>1 DEF AtFeedback, Feedback
<1>3. ASSUME UNCHANGED run PROVE AtFeedback'
  BY <1>3 DEF AtFeedback, Feedback
<1>4. ASSUME NEW h \in Hosts, Look(h) PROVE AtFeedback'
  <2>1. CASE Goes(h, [run[h] EXCEPT !.at = @ + 1])
    BY <1>1, <1>2, <1>4, <2>1 DEF Look, At, RunRecords
  <2>2. CASE run[h].at \in Feedback(h) /\ Goes(h, [run[h] EXCEPT !.step = "settle"])
    <3>1. /\ run'[h].at = run[h].at
          /\ run'[h].tasks = run[h].tasks
          /\ \A g \in Hosts \ {h} : run'[g] = run[g]
      BY <1>1, <2>2 DEF Goes, RunRecords
    <3> QED
      BY <2>2, <3>1 DEF AtFeedback, Feedback
  <2> QED
    BY <1>4, <2>1, <2>2 DEF Look
<1>5. ASSUME NEW h \in Hosts, NEW p \in HostPlans, Request(h, p) PROVE AtFeedback'
  <2>1. PICK tasks : Goes(h, [Idle EXCEPT !.step = "plan", !.tasks = tasks])
    BY <1>5 DEF Request
  <2> QED
    BY <1>2, <2>1 DEF Idle
<1>6. ASSUME NEW h \in Hosts, Block(h) \/ Try(h) PROVE AtFeedback'
  <2>1. PICK r : Goes(h, r) /\ r.step = "tasks"
    BY <1>6, StaysAtTasks
  <2> QED
    BY <1>2, <2>1
<1>7. ASSUME NEW h \in Hosts, Plan(h) \/ Finish(h) PROVE AtFeedback'
  BY <1>1, <1>2, <1>7 DEF Plan, Finish, Settles, RunRecords
<1>8. ASSUME NEW h \in Hosts, Settle(h) PROVE AtFeedback'
  BY <1>1, <1>2, <1>8 DEF Settle, Says, Idle, RunRecords
<1>9. ASSUME NEW h \in Hosts, Return(h) \/ Fail(h) PROVE AtFeedback'
  BY <1>2, <1>9 DEF Return, Fail, Idle
<1> QED
  BY <1>3, <1>4, <1>5, <1>6, <1>7, <1>8, <1>9 DEF Next, Continue, Observe, vars

LEMMA KeptStep == TypeOK /\ AtFeedback /\ Kept /\ [Next]_vars => Kept'
<1> SUFFICES ASSUME TypeOK, AtFeedback, Kept, [Next]_vars PROVE Kept'
  OBVIOUS
<1> USE DEF stored
<1>1. ASSUME NEW h \in Hosts, Settle(h) PROVE Kept'
  <2> DEFINE t == TheTask(h)
             o == t.about
             d == Disposition(run[h].children[t.id])
  <2>1. CASE terminal[o] = None /\ Says(h, t)
    <3>1. o \in Observations
      BY <1>1, FeedbackType DEF Settle, At, AtFeedback, TheTask
    <3>2. terminal' = [terminal EXCEPT ![o] = d] /\ said' = said \cup {<<o, d>>}
      BY <2>1 DEF Says, Result
    <3>3. \A x \in said : x[1] \in Observations /\ x[2] # None
      BY OrchestrationAssumption DEF TypeOK
    <3> HIDE DEF d, o
    <3>4. \A x \in said : x[1] # o
      BY <2>1, <3>3 DEF Kept
    <3>5. \A x \in said : terminal'[x[1]] = x[2]
      BY <3>2, <3>3, <3>4 DEF Kept, TypeOK
    <3>6. terminal'[o] = d
      BY <3>1, <3>2 DEF TypeOK
    <3> QED
      BY <3>2, <3>5, <3>6 DEF Kept
  <2>2. CASE UNCHANGED <<terminal, said>>
    BY <2>2 DEF Kept
  <2> QED
    BY <1>1, <2>1, <2>2 DEF Settle
<1>2. CASE UNCHANGED <<terminal, said>>
  BY <1>2 DEF Kept
<1> QED
  BY <1>1, <1>2 DEF Next, Continue, vars, Observe, Request, Plan, Block, Try, Finish, Look,
                    Return, Fail

----------------------------------------------------------------------------
(* The order of the plan. *)

LEMMA InPlanOrderStep == TypeOK /\ InPlanOrder /\ [Next]_vars => InPlanOrder'
<1> SUFFICES ASSUME TypeOK, InPlanOrder, [Next]_vars PROVE InPlanOrder'
  OBVIOUS
<1> USE DEF stored
<1>1. run \in [Hosts -> RunRecords]
  BY DEF TypeOK
<1>2. ASSUME NEW h \in Hosts, NEW r, Goes(h, r), r.step \in {"plan", "tasks"} => Orderly(r)
      PROVE  InPlanOrder'
  BY <1>1, <1>2 DEF Goes, InPlanOrder
<1>3. ASSUME UNCHANGED run PROVE InPlanOrder'
  BY <1>3 DEF InPlanOrder
<1>4. ASSUME NEW h \in Hosts, NEW p \in HostPlans, Request(h, p) PROVE InPlanOrder'
  <2>1. PICK tasks \in Seq(Tasks) :
           /\ Acceptable(tasks)
           /\ Goes(h, [Idle EXCEPT !.step = "plan", !.tasks = tasks])
    BY <1>4, PlanType DEF Request
  <2> DEFINE r == [Idle EXCEPT !.step = "plan", !.tasks = tasks]
  <2>2. r.tasks = tasks /\ r.children = [i \in Ids |-> "waiting"]
    BY DEF Idle
  <2>3. \A i \in DOMAIN tasks : tasks[i].id \in Ids
    <3>1. \A i \in DOMAIN tasks : tasks[i] \in Tasks
      BY <2>1
    <3> QED
      BY <3>1 DEF Tasks
  <2>4. "waiting" \notin Good
    BY DEF Good
  <2> HIDE DEF r
  <2>5. Orderly(r)
    BY <2>1, <2>2, <2>3, <2>4 DEF Orderly, FollowedBy
  <2> QED
    BY <1>2, <2>1, <2>5 DEF r
<1>5. ASSUME NEW h \in Hosts, Plan(h) PROVE InPlanOrder'
  <2> DEFINE r == [run[h] EXCEPT !.step = "tasks"]
  <2>1. Orderly(run[h])
    BY <1>5 DEF Plan, At, InPlanOrder
  <2>2. r.tasks = run[h].tasks /\ r.children = run[h].children /\ r.at = run[h].at
    BY <1>1 DEF RunRecords
  <2> HIDE DEF r
  <2>3. Orderly(r)
    BY <2>1, <2>2 DEF Orderly, FollowedBy
  <2> QED
    BY <1>2, <1>5, <2>3 DEF Plan, r
<1>6. ASSUME NEW h \in Hosts, Block(h) PROVE InPlanOrder'
  <2>1. "dependency_not_current" \in Statuses \ Good
    BY DEF Statuses, Good
  <2> QED
    BY <1>6, <2>1, JoinsInOrder DEF Block
<1>7. ASSUME NEW h \in Hosts, Try(h) PROVE InPlanOrder'
  <2>1. PICK s \in Reports :
           /\ Ready(h, TheTask(h))
           /\ \/ Joins(h, TheTask(h), s)
              \/ Goes(h, [run[h] EXCEPT !.attempt = @ + 1, !.seen = @ \cup {s}])
    BY <1>7 DEF Try
  <2>2. At(h, "tasks") /\ ~Through(h) /\ s \in Statuses
    BY <1>7, OrchestrationAssumption DEF Try, Statuses
  <2>3. CASE Joins(h, TheTask(h), s)
    BY <2>1, <2>2, <2>3, JoinsInOrder
  <2>4. CASE Goes(h, [run[h] EXCEPT !.attempt = @ + 1, !.seen = @ \cup {s}])
    <3> DEFINE r == [run[h] EXCEPT !.attempt = @ + 1, !.seen = @ \cup {s}]
    <3>1. Orderly(run[h])
      BY <2>2 DEF At, InPlanOrder
    <3>2. r.tasks = run[h].tasks /\ r.children = run[h].children /\ r.at = run[h].at
      BY <1>1 DEF RunRecords
    <3> HIDE DEF r
    <3>3. Orderly(r)
      BY <3>1, <3>2 DEF Orderly, FollowedBy
    <3> QED
      BY <1>2, <2>4, <3>3 DEF r
  <2> QED
    BY <2>1, <2>3, <2>4
<1>8. ASSUME NEW h \in Hosts, Finish(h) PROVE InPlanOrder'
  BY <1>1, <1>2, <1>8 DEF Finish, Settles, RunRecords
<1>9. ASSUME NEW h \in Hosts, Look(h) PROVE InPlanOrder'
  BY <1>1, <1>2, <1>9 DEF Look, At, RunRecords
<1>10. ASSUME NEW h \in Hosts, Settle(h) PROVE InPlanOrder'
  BY <1>1, <1>2, <1>10 DEF Settle, Says, Idle, RunRecords
<1>11. ASSUME NEW h \in Hosts, Return(h) \/ Fail(h) PROVE InPlanOrder'
  BY <1>2, <1>11 DEF Return, Fail, Idle
<1> QED
  BY <1>3, <1>4, <1>5, <1>6, <1>7, <1>8, <1>9, <1>10, <1>11 DEF Next, Continue, Observe, vars

----------------------------------------------------------------------------
(* The theorems. *)

LEMMA InitInv == Init => OrchestrationInv
<1> SUFFICES ASSUME Init PROVE OrchestrationInv
  OBVIOUS
<1>1. TypeOK
  BY IdleType, OrchestrationAssumption DEF Init, TypeOK
<1>2. Announced /\ AtFeedback /\ Kept /\ InPlanOrder
  BY DEF Init, Idle, Announced, AtFeedback, Earned, Kept, InPlanOrder
<1> QED
  BY <1>1, <1>2 DEF OrchestrationInv

LEMMA InvImplies == OrchestrationInv => TypeOK /\ ReceiptsAreEarned
<1> SUFFICES ASSUME OrchestrationInv PROVE ReceiptsAreEarned
  BY DEF OrchestrationInv
<1>1. Earned
  BY DEF OrchestrationInv, Announced
<1>2. Final
  <2>1. \A x \in said : x = <<x[1], x[2]>> /\ terminal[x[1]] = x[2]
    BY DEF OrchestrationInv, TypeOK, Kept
  <2> QED
    BY <2>1 DEF Final
<1>3. Followed
  BY DEF OrchestrationInv, InPlanOrder, Orderly, FollowedBy, Followed, At
<1> QED
  BY <1>1, <1>2, <1>3 DEF ReceiptsAreEarned

LEMMA OrchestrationInvariance == Spec => []OrchestrationInv
<1>1. OrchestrationInv /\ [Next]_vars => OrchestrationInv'
  BY TypeStep, AnnouncedStep, AtFeedbackStep, KeptStep, InPlanOrderStep DEF OrchestrationInv
<1> QED
  BY <1>1, InitInv, PTL DEF Spec

\* The records of a run, and what is stored of it, are what they should be.
THEOREM OrchestrationTypes == Spec => []TypeOK
BY OrchestrationInvariance, InvImplies, PTL

\* Whatever hosts do at once, and whenever they die: a terminal receipt says
\* what a stored receipt of a run said before, one thing for ever, and no
\* task is done after a dependency that was not.
THEOREM TerminalReceiptsAreEarned == Spec => []ReceiptsAreEarned
BY OrchestrationInvariance, InvImplies, PTL
=================================================================================
