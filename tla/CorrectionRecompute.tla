-------------------------- MODULE CorrectionRecompute --------------------------
(***************************************************************************)
(* Corrections of one matter.  A thread that submits a correction numbers  *)
(* it, appends it to the history, invalidates what depends on it, enqueues *)
(* one job for each owner and then works the shared queue until its own    *)
(* jobs are done: it runs whatever job comes first, its own or another's.  *)
(*                                                                         *)
(* The payload of a correction is reduced to who submitted it and whether  *)
(* the projection owner can apply it.  The coverage stages that a          *)
(* correction marks stale and the owners mark again are left out: nothing  *)
(* here reads them.  Pausing and resuming is done by command processes.    *)
(***************************************************************************)
EXTENDS Sequences, WorkQueue

CONSTANTS
    Threads,       \* request threads
    Home,          \* the process each thread belongs to
    Commands,      \* processes that pause or resume one job and end
    Owners,        \* the sequence of owners a correction is sent to
    Projector,     \* the owner C12_projection_bilingual_ui
    Nobody,        \* no thread
    MaxRevision,   \* bound: corrections in the history
    MaxStops       \* bound: processes that stop or are killed

OwnerIds == {Owners[k] : k \in DOMAIN Owners}
Numbers == 1 .. MaxRevision

ASSUME RecomputeAssumption ==
    /\ MaxRevision \in Nat \ {0}
    /\ MaxStops \in Nat
    /\ Home \in [Threads -> Processes \ Commands]
    /\ Nobody \notin Threads
    /\ Owners \in Seq(OwnerIds)
    /\ Owners # <<>>
    /\ Jobs = Numbers \X OwnerIds

VARIABLES
    revisions,  \* the stored revision records: who appended each
    inputs,     \* the stored correction_input records
    recorded,   \* the jobs with an owner_recompute record
    projection, \* the semantic revision of the current projection, 0 at first
    fresh,      \* is the hierarchy above the matter published as current
    known,      \* the length of the revision list each process holds
    thread,     \* where each thread is in its submission
    stops       \* processes stopped so far

recordVars == <<revisions, inputs, recorded, projection, fresh, known>>
vars == <<queueVars, recordVars, thread, stops>>

Inputs == [by : Threads, supported : BOOLEAN]
NoInput == [by |-> Nobody, supported |-> FALSE]

Steps == {"idle", "numbered", "remembered", "revised", "accepted", "enqueue",
          "join", "next", "handle", "published", "finish",
          "refresh", "applied"}

(* revision: the correction being submitted; at: the next owner to enqueue; *)
(* job: the job the thread runs, of any correction.                         *)
NoJob == <<>>
Places == [step : Steps, revision : 0 .. MaxRevision,
           at : 1 .. Len(Owners) + 1, job : Jobs \cup {NoJob}]
Idle == [step |-> "idle", revision |-> 0, at |-> 1, job |-> NoJob]

TypeOK ==
    /\ QueueTypeOK
    /\ revisions \in [Numbers -> Threads \cup {Nobody}]
    /\ inputs \in [Numbers -> Inputs \cup {NoInput}]
    /\ recorded \subseteq Jobs
    /\ projection \in 0 .. MaxRevision
    /\ fresh \in BOOLEAN
    /\ known \in [Processes -> Nat]
    /\ thread \in [Threads -> Places]
    /\ stops \in 0 .. MaxStops

Init ==
    /\ QueueInit
    /\ revisions = [n \in Numbers |-> Nobody]
    /\ inputs = [n \in Numbers |-> NoInput]
    /\ recorded = {}
    /\ projection = 0
    /\ fresh = TRUE
    /\ known = [p \in Processes |-> 0]
    /\ thread = [t \in Threads |-> Idle]
    /\ stops = 0

At(t, step) == thread[t].step = step
GoTo(t, step) == thread' = [thread EXCEPT ![t].step = step]
Leave(t) == thread' = [thread EXCEPT ![t] = Idle]
JobsOf(n) == {n} \X OwnerIds
Job(t) == <<thread[t].revision, Owners[thread[t].at]>>

(***************************************************************************)
(* Processes.                                                              *)
(***************************************************************************)
Stored == {n \in Numbers : revisions[n] # Nobody}

(* The service is up when its queue has recovered; it counts the revisions *)
(* it finds, so a gap in their numbers makes it number too low.            *)
Ready(p) ==
    /\ life[p] = "loaded"
    /\ \A j \in Jobs : memory[p][j] # "running"
    /\ life' = [life EXCEPT ![p] = "up"]
    /\ known' = [known EXCEPT ![p] = IF p \in Commands THEN 0 ELSE Cardinality(Stored)]
    /\ UNCHANGED <<jobs, memory, faults, revisions, inputs, recorded,
                   projection, fresh, thread, stops>>

StartUp(p) ==
    \/ Load(p) /\ UNCHANGED <<recordVars, thread, stops>>
    \/ Recover(p) /\ UNCHANGED <<recordVars, thread, stops>>
    \/ Ready(p)

Stop(p) ==
    /\ stops < MaxStops
    /\ life[p] # "down"
    /\ stops' = stops + 1
    /\ Forget(p)
    /\ known' = [known EXCEPT ![p] = 0]
    /\ thread' = [t \in Threads |-> IF Home[t] = p THEN Idle ELSE thread[t]]
    /\ UNCHANGED <<revisions, inputs, recorded, projection, fresh>>

Command(p) ==
    /\ p \in Commands
    /\ Pause(p) \/ Resume(p)
    /\ UNCHANGED <<recordVars, thread, stops>>

(***************************************************************************)
(* submit_matter_correction, up to its jobs.                               *)
(***************************************************************************)
(* The coordinator reads the length of its list and extends it without a   *)
(* lock: two threads of a process may draw one number.                     *)
Number(t) ==
    /\ At(t, "idle")
    /\ life[Home[t]] = "up"
    /\ known[Home[t]] < MaxRevision
    /\ thread' = [thread EXCEPT ![t].step = "numbered",
                                ![t].revision = known[Home[t]] + 1]
    /\ UNCHANGED <<queueVars, recordVars, stops>>

Remember(t) ==
    /\ At(t, "numbered")
    /\ known' = [known EXCEPT ![Home[t]] = @ + 1]
    /\ GoTo(t, "remembered")
    /\ UNCHANGED <<queueVars, revisions, inputs, recorded, projection, fresh, stops>>

(* Mutant: a revision that exists is written over. *)
FreeOrTaken(n) == n \in Numbers

Free(n) == revisions[n] = Nobody

(* The second to append a revision of one number is refused and raises. *)
AppendRevision(t) ==
    /\ At(t, "remembered")
    /\ IF Free(thread[t].revision)
       THEN /\ revisions' = [revisions EXCEPT ![thread[t].revision] = t]
            /\ GoTo(t, "revised")
       ELSE UNCHANGED revisions /\ Leave(t)
    /\ UNCHANGED <<queueVars, inputs, recorded, projection, fresh, known, stops>>

AppendInput(t) ==
    /\ At(t, "revised")
    /\ \E supported \in BOOLEAN :
          inputs' = [inputs EXCEPT ![thread[t].revision] =
                        [by |-> t, supported |-> supported]]
    /\ GoTo(t, "accepted")
    /\ UNCHANGED <<queueVars, revisions, recorded, projection, fresh, known, stops>>

Invalidate(t) ==
    /\ At(t, "accepted")
    /\ fresh' = FALSE
    /\ GoTo(t, "enqueue")
    /\ UNCHANGED <<queueVars, revisions, inputs, recorded, projection, known, stops>>

Listed(t) ==
    thread' = [thread EXCEPT
        ![t].at = @ + 1,
        ![t].step = IF thread[t].at = Len(Owners) THEN "join" ELSE @]

(* A full queue raises, and leaves the jobs enqueued before. *)
Enqueue(t) ==
    LET p == Home[t] IN
    /\ At(t, "enqueue")
    /\ IF memory[p][Job(t)] # "absent"
       THEN Listed(t) /\ UNCHANGED <<jobs, memory, faults>>
       ELSE \/ ~Full(p) /\ Persist(p, Job(t), "queued") /\ Listed(t)
            \/ ~Full(p) /\ PersistFails(p, Job(t), "queued") /\ Leave(t)
            \/ Full(p) /\ Leave(t) /\ UNCHANGED <<jobs, memory, faults>>
    /\ UNCHANGED <<life, recordVars, stops>>

(***************************************************************************)
(* run_to_terminal and run_next: the thread works the queue of its process *)
(* until its own jobs are done or nothing is queued.                       *)
(***************************************************************************)
StatusOfOwn(t) == {memory[Home[t]][j] : j \in JobsOf(thread[t].revision)}

(* Mutant: one job that passed is enough. *)
AnyPassed(t) == "passed" \in StatusOfOwn(t)

AllPassed(t) == StatusOfOwn(t) = {"passed"}

Join(t) ==
    /\ At(t, "join")
    /\ IF StatusOfOwn(t) \subseteq Terminal
       THEN IF AllPassed(t) THEN GoTo(t, "refresh") ELSE Leave(t)
       ELSE GoTo(t, "next")
    /\ UNCHANGED <<queueVars, recordVars, stops>>

Take(t) ==
    /\ At(t, "next")
    /\ \E j \in Jobs :
          /\ IsNext(Home[t], j)
          /\ \/ /\ Persist(Home[t], j, "running")
                /\ thread' = [thread EXCEPT ![t].step = "handle", ![t].job = j]
             \/ PersistFails(Home[t], j, "running") /\ Leave(t)
    /\ UNCHANGED <<life, recordVars, stops>>

(* Mutant: wait for the jobs another thread runs or an operator paused. *)
WaitForOthers(t) == GoTo(t, "join")

GiveUp(t) == Leave(t)

(* Nothing is queued: the correction is reported as blocked. *)
Blocked(t) ==
    /\ At(t, "next")
    /\ Runnable(Home[t]) = {}
    /\ GiveUp(t)
    /\ UNCHANGED <<queueVars, recordVars, stops>>

(***************************************************************************)
(* The owners' handlers, and what run_next makes of them.                  *)
(***************************************************************************)
Revision(t) == thread[t].job[1]
Owner(t) == thread[t].job[2]

(* Mutant: a projection is numbered after the one before. *)
NextSemantic(t) == projection + 1

Semantic(t) == Revision(t)

Publish(t) ==
    /\ At(t, "handle")
    /\ Owner(t) = Projector
    /\ inputs[Revision(t)].supported
    /\ projection' = Semantic(t)
    /\ GoTo(t, "published")
    /\ UNCHANGED <<queueVars, revisions, inputs, recorded, fresh, known, stops>>

Record(t) ==
    /\ \/ At(t, "published")
       \/ At(t, "handle") /\ Owner(t) # Projector
    /\ recorded' = recorded \cup {thread[t].job}
    /\ GoTo(t, "finish")
    /\ UNCHANGED <<queueVars, revisions, inputs, projection, fresh, known, stops>>

(* Mutant: what a handler raises is swallowed. *)
Swallowed(ok) == "passed"

Outcome(ok) == IF ok THEN "passed" ELSE "failed"

Resumes(t) == thread' = [thread EXCEPT ![t].step = "join", ![t].job = NoJob]

Finish(t) ==
    /\ At(t, "finish")
    /\ \/ Persist(Home[t], thread[t].job, Outcome(TRUE)) /\ Resumes(t)
       \/ PersistFails(Home[t], thread[t].job, Outcome(TRUE)) /\ Leave(t)
    /\ UNCHANGED <<life, recordVars, stops>>

(* A correction the projection owner cannot apply. *)
Refused(t) ==
    /\ At(t, "handle")
    /\ Owner(t) = Projector
    /\ ~inputs[Revision(t)].supported

(* A handler raises: it refuses its input, or one of its writes fails.     *)
HandlerFails(t) ==
    \/ Refused(t) /\ UNCHANGED faults
    \/ /\ ~Refused(t)
       /\ faults < MaxFaults
       /\ faults' = faults + 1

(* The write of the failed job may fail as well, which raises once more.   *)
Raise(t) ==
    /\ thread[t].step \in {"handle", "published"}
    /\ \/ /\ HandlerFails(t)
          /\ Written(Home[t], thread[t].job, Outcome(FALSE))
          /\ Resumes(t)
       \/ /\ PersistFails(Home[t], thread[t].job, Outcome(FALSE))
          /\ Leave(t)
    /\ UNCHANGED <<life, recordVars, stops>>

(* Every job of the correction passed: the hierarchy is published afresh. *)
Refresh(t) ==
    /\ At(t, "refresh")
    /\ fresh' = TRUE
    /\ GoTo(t, "applied")
    /\ UNCHANGED <<queueVars, revisions, inputs, recorded, projection, known, stops>>

(* auto_applied is returned. *)
Return(t) ==
    /\ At(t, "applied")
    /\ Leave(t)
    /\ UNCHANGED <<queueVars, recordVars, stops>>

(* One of the submission's own writes fails and raises.  What it wrote     *)
(* before stays: a revision without its input, an invalidation begun.      *)
WriteFails(t) ==
    /\ thread[t].step \in {"remembered", "revised", "accepted", "refresh"}
    /\ faults < MaxFaults
    /\ faults' = faults + 1
    /\ \/ UNCHANGED fresh
       \/ At(t, "accepted") /\ fresh' = FALSE
    /\ Leave(t)
    /\ UNCHANGED <<jobs, memory, life, revisions, inputs, recorded, projection,
                   known, stops>>

Submit(t) ==
    \/ Remember(t) \/ AppendRevision(t) \/ AppendInput(t)
    \/ Invalidate(t) \/ Enqueue(t)
Work(t) ==
    \/ Join(t) \/ Take(t) \/ Blocked(t)
    \/ Publish(t) \/ Record(t) \/ Finish(t) \/ Raise(t)
    \/ Refresh(t) \/ Return(t)

Next ==
    \/ \E p \in Processes : StartUp(p) \/ Stop(p) \/ Command(p)
    \/ \E t \in Threads : Number(t) \/ Submit(t) \/ Work(t) \/ WriteFails(t)

Spec == Init /\ [][Next]_vars

(* A thread goes on with what it has begun, and a process comes up again;  *)
(* nobody has to submit another correction.                                *)
FairSpec ==
    /\ Spec
    /\ \A t \in Threads : WF_vars(Submit(t)) /\ WF_vars(Work(t))
    /\ \A p \in Processes : WF_vars(StartUp(p))

(***************************************************************************)
(* What is promised.                                                       *)
(***************************************************************************)
(* A job stands as passed, in the store or in any process, only when its   *)
(* owner has left its record: through failed writes, processes that die    *)
(* between the record and the status, and jobs run again after a restart.  *)
PassedMeansExecuted ==
    \A j \in Jobs :
        (jobs[j] = "passed" \/ \E p \in Processes : memory[p][j] = "passed")
            => j \in recorded

(* A correction is reported as auto_applied only after every owner it was  *)
(* sent to has executed it, whichever threads and processes ran the jobs.  *)
AppliedMeansAllOwners ==
    \A t \in Threads :
        At(t, "applied") => JobsOf(thread[t].revision) \subseteq recorded

(* Whatever threads and processes number their corrections alike, a job is *)
(* about a stored correction, and its input is by who appended the         *)
(* revision: no handler applies the words of one under another's number.   *)
JobsKeepTheirCorrection ==
    \A n \in Numbers, o \in OwnerIds :
        (jobs[<<n, o>>] # "absent" \/
            \E p \in Processes : memory[p][<<n, o>>] # "absent")
        => revisions[n] # Nobody /\ inputs[n].by = revisions[n]

Runners(p, j) == {t \in Threads : Home[t] = p /\ thread[t].job = j}

(* Within a process no two threads run one job, and while no write failed  *)
(* a job that shows as running in a process that is up is run by one.      *)
RunningHasOneRunner ==
    \A p \in Processes, j \in Jobs :
        /\ \A t, u \in Runners(p, j) : t = u
        /\ (faults = 0 /\ life[p] = "up" /\ memory[p][j] = "running")
                => Runners(p, j) # {}

BecomesFresh == ~fresh /\ fresh'
RefreshIsDue == \E t \in Threads : /\ At(t, "refresh")
                                   /\ JobsOf(thread[t].revision) \subseteq recorded

(* The hierarchy is taken for fresh again only by a correction whose every *)
(* owner has executed.                                                     *)
HierarchyWaitsForOwners == [][BecomesFresh => RefreshIsDue]_vars

(* A submission comes to an end: it is applied, blocked, refused or dies   *)
(* with its process; it never waits on jobs that others hold.              *)
SubmissionsReturn ==
    \A t \in Threads : ~At(t, "idle") ~> At(t, "idle")

(* Violated.  correction-invalidation: every required original owner shall *)
(* execute or return an explicit blocked disposition before a fresh        *)
(* canonical projection is published.  The queue runs jobs in the order of *)
(* their ids, and "C12_projection_bilingual_ui" sorts before "C6_...".     *)
ProjectionAwaitsOwners ==
    projection # 0 =>
        \A o \in OwnerIds \ {Projector} :
            \/ <<projection, o>> \in recorded
            \/ jobs[<<projection, o>>] = "failed"

(* Violated.  correction-invalidation: a service that restarts after the   *)
(* invalidation and before all required owners are terminal shall recover  *)
(* the pending plan and resume or block each outstanding owner.  The plan  *)
(* is the jobs enqueued so far, and only a correction works the queue.     *)
OutstandingOwnersResume ==
    \A n \in Numbers, o \in OwnerIds :
        (\E j \in JobsOf(n) : jobs[j] # "absent") ~>
            (<<n, o>> \in recorded \/ jobs[<<n, o>>] \in {"failed", "paused"})
=================================================================================
