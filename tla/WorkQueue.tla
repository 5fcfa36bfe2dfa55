------------------------------- MODULE WorkQueue -------------------------------
(***************************************************************************)
(* The durable work queue.  Every process that opens the store builds its  *)
(* own DurableWorkQueue: it loads the stored work items once, puts back    *)
(* the ones it finds running, and from then on decides by its own copy.    *)
(* Every change is made in the copy and then written to the store, so a    *)
(* write that fails leaves the copy ahead of the store.                    *)
(*                                                                         *)
(* What one holder of the queue's lock does is one step.  The operators    *)
(* speak of one process p; CorrectionRecompute says who applies them.      *)
(***************************************************************************)
EXTENDS Naturals, FiniteSets

CONSTANTS
    Processes,  \* the processes that may open the store
    Jobs,       \* the job identities
    Place,      \* the place of each job in the string order of the job ids
    Capacity,   \* active work items one queue accepts
    MaxFaults   \* bound: writes to the store that fail

ASSUME QueueAssumption ==
    /\ IsFiniteSet(Jobs)
    /\ Place \in [Jobs -> Nat]
    /\ \A i, j \in Jobs : Place[i] = Place[j] => i = j
    /\ Capacity \in Nat \ {0}
    /\ MaxFaults \in Nat

VARIABLES
    jobs,       \* the current work_item of each job in the store
    memory,     \* the work items each process holds
    life,       \* where each process is between start and stop
    faults      \* failed writes so far

queueVars == <<jobs, memory, life, faults>>

(* No caller cancels a job, so no item is ever "cancelled". *)
Statuses == {"absent", "queued", "running", "paused", "passed", "failed"}
Active == {"queued", "running", "paused"}
Terminal == {"passed", "failed"}
Lives == {"down", "loaded", "up", "ended"}

QueueTypeOK ==
    /\ jobs \in [Jobs -> Statuses]
    /\ memory \in [Processes -> [Jobs -> Statuses]]
    /\ life \in [Processes -> Lives]
    /\ faults \in 0 .. MaxFaults

Empty == [j \in Jobs |-> "absent"]

QueueInit ==
    /\ jobs = Empty
    /\ memory = [p \in Processes |-> Empty]
    /\ life = [p \in Processes |-> "down"]
    /\ faults = 0

(* An item changes in the copy, then in the store. *)
Written(p, j, status) ==
    /\ memory' = [memory EXCEPT ![p][j] = status]
    /\ jobs' = [jobs EXCEPT ![j] = status]

Persist(p, j, status) == Written(p, j, status) /\ UNCHANGED faults

(* The write fails: another writer took the revision, or the disk did. *)
PersistFails(p, j, status) ==
    /\ faults < MaxFaults
    /\ faults' = faults + 1
    /\ memory' = [memory EXCEPT ![p][j] = status]
    /\ UNCHANGED jobs

Full(p) == Cardinality({j \in Jobs : memory[p][j] \in Active}) >= Capacity

Queued(p) == {j \in Jobs : memory[p][j] = "queued"}

(* Mutant: a job that is running may be taken again. *)
RunnableOrRunning(p) == {j \in Jobs : memory[p][j] \in {"queued", "running"}}

Runnable(p) == Queued(p)

(* The queued job whose id sorts first. *)
IsNext(p, j) ==
    /\ j \in Runnable(p)
    /\ \A i \in Runnable(p) : Place[j] <= Place[i]

(* __post_init__ reads every stored item, then puts back one after the     *)
(* other the ones it read as running.                                      *)
Load(p) ==
    /\ life[p] = "down"
    /\ life' = [life EXCEPT ![p] = "loaded"]
    /\ memory' = [memory EXCEPT ![p] = jobs]
    /\ UNCHANGED <<jobs, faults>>

Recover(p) ==
    /\ life[p] = "loaded"
    /\ \E j \in Jobs : memory[p][j] = "running" /\ Persist(p, j, "queued")
    /\ UNCHANGED life

(* _transition, for pause and resume.  Only the commands of the command    *)
(* line call it; each is a process of its own that ends after one call.    *)
Transition(p, allowed, target) ==
    /\ life[p] = "up"
    /\ \E j \in Jobs :
          memory[p][j] \in allowed /\ jobs' = [jobs EXCEPT ![j] = target]
    /\ memory' = [memory EXCEPT ![p] = Empty]
    /\ life' = [life EXCEPT ![p] = "ended"]
    /\ UNCHANGED faults

Pause(p) == Transition(p, {"queued"}, "paused")

Resume(p) == Transition(p, {"paused", "failed"}, "queued")

Forget(p) ==
    /\ memory' = [memory EXCEPT ![p] = Empty]
    /\ life' = [life EXCEPT ![p] = "down"]
    /\ UNCHANGED <<jobs, faults>>
=================================================================================
