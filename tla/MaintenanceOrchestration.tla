------------------------ MODULE MaintenanceOrchestration ------------------------
(***************************************************************************)
(* Planned maintenance.  A host asks for a run; its planner names tasks, to *)
(* which the owner adds one for each observation of a user that waits for   *)
(* its original owner.  An executor of the host does the tasks one after    *)
(* another, the owner joins their receipts in a receipt of the run, and     *)
(* then gives every observation of the run its terminal receipt.  Several   *)
(* hosts may run at once; the store is all that they share.                 *)
(***************************************************************************)
EXTENDS Naturals, Sequences, FiniteSets

CONSTANTS
    Hosts,         \* each of them runs under a run identity of its own
    Observations,  \* identities, in the order of the store's pages
    Planned,       \* identities that a planner gives to tasks
    HostPlans,     \* what a planner may answer
    Failures,      \* identities of failures
    Reports,       \* what an executor may report of a task
    MaxTasks,      \* the budget of a request
    None,          \* no disposition yet, and no observation
    MaxFaults      \* bound: crashes, and adapters that raise

Ids == Planned \cup Observations

(* about: the observation of a task in the role of the original owner's       *)
(* validator. The owner adds such tasks, and a planner may name them, too.    *)
Tasks == [id : Ids, after : SUBSET Ids, budget : Nat, about : Observations \cup {None}]
FeedbackTask(o) == [id |-> o, after |-> {}, budget |-> 0, about |-> o]

Good == {"passed", "no_change"}
Statuses == Good \cup Failures \cup {"dependency_not_current"}
Dispositions == {"processed", "rejected", "blocked"}

ASSUME OrchestrationAssumption ==
    /\ Observations \subseteq Nat
    /\ IsFiniteSet(Observations)
    /\ HostPlans \subseteq Seq(Tasks)
    /\ Reports \subseteq Good \cup Failures
    /\ Failures \cap (Good \cup {"dependency_not_current"}) = {}
    /\ None \notin Dispositions
    /\ None \notin Observations
    /\ MaxTasks \in Nat \ {0}
    /\ MaxFaults \in Nat

VARIABLES
    observed,   \* observations that were recorded; they stay pending_owner
    terminal,   \* the disposition in the terminal receipt of each
    joined,     \* observations and dispositions in stored receipts of runs
    run,        \* what each host is doing
    faults,
    said        \* history: observations and dispositions in terminal receipts

stored == <<observed, terminal, joined>>
vars == <<stored, run, faults, said>>

Steps == {"idle", "plan", "tasks", "feedback", "settle"}

(* tasks: those of the planner and then those of the observations; at: the    *)
(* next of them; attempt, seen: how often the task under way was tried, and   *)
(* failed; children: the receipts of the tasks.                               *)
RunRecords ==
    [step : Steps, tasks : Seq(Tasks), at : Nat \ {0}, attempt : Nat \ {0},
     seen : SUBSET Failures, children : [Ids -> Statuses \cup {"waiting"}]]
Idle == [step |-> "idle", tasks |-> <<>>, at |-> 1, attempt |-> 1, seen |-> {},
         children |-> [i \in Ids |-> "waiting"]]

TypeOK ==
    /\ observed \subseteq Observations
    /\ terminal \in [Observations -> Dispositions \cup {None}]
    /\ joined \cup said \subseteq Observations \X Dispositions
    /\ run \in [Hosts -> RunRecords]
    /\ faults \in 0..MaxFaults

Init ==
    /\ observed = {}
    /\ terminal = [o \in Observations |-> None]
    /\ joined = {}
    /\ run = [h \in Hosts |-> Idle]
    /\ faults = 0
    /\ said = {}

-----------------------------------------------------------------------------
At(h, step) == run[h].step = step
Goes(h, r) == run' = [run EXCEPT ![h] = r]

(* record_user_observation: recorded once, however often it is reported. *)
Observe(o) ==
    /\ o \notin observed
    /\ observed' = observed \cup {o}
    /\ UNCHANGED <<terminal, joined, run, faults, said>>

Pending == {o \in observed : terminal[o] = None}
Least(S, n) == {o \in S : Cardinality({q \in S : q < o}) < n}

(* A mistake: terminal observations use up the budget as well. *)
ChosenBeforeTheyAreRead(room) == Least(observed, room) \cap Pending
Chosen(room) == Least(Pending, room)

InOrder(S) ==
    {f \in [1..Cardinality(S) -> S] : \A i, j \in DOMAIN f : i < j => f[i] < f[j]}

(* Dependencies name tasks before the one that has them. *)
Acceptable(tasks) ==
    /\ Len(tasks) <= MaxTasks
    /\ \A i, j \in DOMAIN tasks : tasks[i].id = tasks[j].id => i = j
    /\ \A i \in DOMAIN tasks : tasks[i].after \subseteq {tasks[j].id : j \in 1..i - 1}

Request(h, host) ==
    /\ At(h, "idle")
    /\ \E asked \in InOrder(Chosen(MaxTasks - Len(host))) :
          LET tasks == host \o [i \in DOMAIN asked |-> FeedbackTask(asked[i])] IN
          /\ Acceptable(tasks)
          /\ Goes(h, [Idle EXCEPT !.step = "plan", !.tasks = tasks])
    /\ UNCHANGED <<stored, faults, said>>

(* The plan is stored, and nothing reads it. *)
Plan(h) ==
    /\ At(h, "plan")
    /\ Goes(h, [run[h] EXCEPT !.step = "tasks"])
    /\ UNCHANGED <<stored, faults, said>>

Through(h) == run[h].at \notin DOMAIN run[h].tasks
TheTask(h) == run[h].tasks[run[h].at]

(* A mistake: only a dependency that was not reached holds a task back. *)
ReadyOnceReached(h, t) == \A d \in t.after : run[h].children[d] # "waiting"
Ready(h, t) == \A d \in t.after : run[h].children[d] \in Good

Joins(h, t, status) ==
    Goes(h, [run[h] EXCEPT !.at = @ + 1, !.attempt = 1, !.seen = {},
                           !.children = [@ EXCEPT ![t.id] = status]])

Block(h) ==
    /\ At(h, "tasks")
    /\ ~Through(h)
    /\ ~Ready(h, TheTask(h))
    /\ Joins(h, TheTask(h), "dependency_not_current")
    /\ UNCHANGED <<stored, faults, said>>

(* A task is tried again within its budget, unless it fails as it did before. *)
Try(h) ==
    /\ At(h, "tasks")
    /\ ~Through(h)
    /\ Ready(h, TheTask(h))
    /\ \E s \in Reports :
          IF s \in Good \/ s \in run[h].seen \/ run[h].attempt > TheTask(h).budget
          THEN Joins(h, TheTask(h), s)
          ELSE Goes(h, [run[h] EXCEPT !.attempt = @ + 1, !.seen = @ \cup {s}])
    /\ UNCHANGED <<stored, faults, said>>

(* A mistake: what is neither passed nor unchanged goes by its own status. *)
DispositionAsReported(status) ==
    CASE status = "passed" -> "processed"
      [] status = "no_change" -> "rejected"
      [] OTHER -> status
Disposition(status) ==
    CASE status = "passed" -> "processed"
      [] status = "no_change" -> "rejected"
      [] OTHER -> "blocked"

Feedback(h) == {i \in DOMAIN run[h].tasks : run[h].tasks[i].about # None}
Result(h, t) == <<t.about, Disposition(run[h].children[t.id])>>

(* The tasks are gone through once more; the receipts of the others are not *)
(* read again.                                                              *)
Settles(h) ==
    LET read == {run[h].tasks[i].id : i \in Feedback(h)} IN
    Goes(h, [run[h] EXCEPT !.step = "feedback", !.at = 1,
                           !.children = [d \in Ids |-> IF d \in read THEN @[d] ELSE "waiting"]])

(* A mistake: the feedback is settled and the receipt of the run left out. *)
FinishUnrecorded(h) ==
    /\ At(h, "tasks")
    /\ Through(h)
    /\ Settles(h)
    /\ UNCHANGED <<stored, faults, said>>

Finish(h) ==
    /\ At(h, "tasks")
    /\ Through(h)
    /\ joined' = joined \cup {Result(h, run[h].tasks[i]) : i \in Feedback(h)}
    /\ Settles(h)
    /\ UNCHANGED <<observed, terminal, faults, said>>

(* Each observation that a task is about: is there a terminal receipt by now? *)
Look(h) ==
    /\ At(h, "feedback")
    /\ ~Through(h)
    /\ Goes(h, IF run[h].at \in Feedback(h) /\ terminal[TheTask(h).about] = None
               THEN [run[h] EXCEPT !.step = "settle"]
               ELSE [run[h] EXCEPT !.at = @ + 1])
    /\ UNCHANGED <<stored, faults, said>>

Says(h, t) ==
    /\ terminal' = [terminal EXCEPT ![t.about] = Result(h, t)[2]]
    /\ said' = said \cup {Result(h, t)}
    /\ Goes(h, [run[h] EXCEPT !.step = "feedback", !.at = @ + 1])

(* A mistake: the receipt becomes the next revision instead of the first. *)
SettleAsNextRevision(h) ==
    /\ At(h, "settle")
    /\ Says(h, TheTask(h))
    /\ UNCHANGED <<observed, joined, faults>>

(* It is stored as revision 1; when another run was faster, this one raises. *)
Settle(h) ==
    /\ At(h, "settle")
    /\ IF terminal[TheTask(h).about] = None
       THEN Says(h, TheTask(h))
       ELSE Goes(h, Idle) /\ UNCHANGED <<terminal, said>>
    /\ UNCHANGED <<observed, joined, faults>>

Return(h) ==
    /\ At(h, "feedback")
    /\ Through(h)
    /\ Goes(h, Idle)
    /\ UNCHANGED <<stored, faults, said>>

(* The process dies, or an adapter raises, also by answering for another task. *)
Fail(h) ==
    /\ ~At(h, "idle")
    /\ faults < MaxFaults
    /\ faults' = faults + 1
    /\ Goes(h, Idle)
    /\ UNCHANGED <<stored, said>>

Continue(h) ==
    \/ Plan(h)
    \/ Block(h)
    \/ Try(h)
    \/ Finish(h)
    \/ Look(h)
    \/ Settle(h)
    \/ Return(h)

Next ==
    \/ \E o \in Observations : Observe(o)
    \/ \E h \in Hosts : \/ \E p \in HostPlans : Request(h, p)
                        \/ Continue(h)
                        \/ Fail(h)

Spec == Init /\ [][Next]_vars

(* A run goes on until it returns or raises, and a host that is idle asks    *)
(* again and again, at times with a plan that leaves room in its budget.     *)
WithRoom == {p \in HostPlans : Len(p) < MaxTasks}
RequestWithRoom(h) == \E p \in WithRoom : Request(h, p)
FairSpec ==
    Spec /\ \A h \in Hosts : WF_vars(Continue(h)) /\ SF_vars(RequestWithRoom(h))

-----------------------------------------------------------------------------
(* Properties. *)

(* What a terminal receipt says of an observation, some stored receipt of a  *)
(* run had joined before, also when runs raced or died between the two; and  *)
(* it is said once: a later or slower run does not take it back.             *)
Earned == said \subseteq joined
Final == \A x, y \in said : x[1] = y[1] => x = y

(* No task is done after a dependency that was not.                          *)
Followed ==
    \A h \in Hosts : At(h, "tasks") =>
        \A i \in DOMAIN run[h].tasks :
            LET t == run[h].tasks[i] IN
            run[h].children[t.id] \in Good =>
                \A d \in t.after : run[h].children[d] \in Good

ReceiptsAreEarned == Earned /\ Final /\ Followed

(* Every observation that was recorded gets its terminal receipt, although   *)
(* runs fail, race and spend most of their budget on the planner's tasks.    *)
ObservationsSettle == \A o \in Observations : o \in observed ~> terminal[o] # None
=================================================================================
