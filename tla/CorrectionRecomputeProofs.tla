------------------------ MODULE CorrectionRecomputeProofs ------------------------
(***************************************************************************)
(* The corrections of a matter, for any processes, threads, owners and     *)
(* bounds.  The invariant has three parts beside the types: what a thread  *)
(* is about to report was recorded (Executed), the jobs and the revisions  *)
(* a thread writes are its own (Attributed), and a thread that runs a job  *)
(* finds it running in its process's copy, alone (Alone).                  *)
(***************************************************************************)
EXTENDS CorrectionRecompute, FiniteSetTheorems, TLAPS

Submitting == {"numbered", "remembered", "revised", "accepted", "enqueue"}
Running == {"handle", "published", "finish"}

\* What the step of a thread says of the rest of its entry.
Placed(e) ==
    /\ e.step = "idle" => e = Idle
    /\ e.step # "idle" => e.revision \in Numbers
    /\ e.step \in Submitting => e.at \in 1 .. Len(Owners)
    /\ IF e.step \in Running THEN e.job \in Jobs ELSE e.job = NoJob

Typed == TypeOK /\ \A t \in Threads : Placed(thread[t])

Executed ==
    /\ PassedMeansExecuted
    /\ \A t \in Threads :
         /\ At(t, "finish") => thread[t].job \in recorded
         /\ thread[t].step \in {"refresh", "applied"} =>
              JobsOf(thread[t].revision) \subseteq recorded

Attributed ==
    /\ JobsKeepTheirCorrection
    /\ \A t \in Threads :
         /\ thread[t].step \in {"revised", "accepted", "enqueue"} =>
              revisions[thread[t].revision] = t
         /\ thread[t].step \in {"accepted", "enqueue"} =>
              inputs[thread[t].revision].by = t

\* A process that is not up has no thread in a submission.
DownIsIdle == \A t \in Threads : life[Home[t]] # "up" => At(t, "idle")

RunsWhatIsRunning ==
    \A t \in Threads :
        thread[t].job \in Jobs => memory[Home[t]][thread[t].job] = "running"

Alone == DownIsIdle /\ RunsWhatIsRunning /\ RunningHasOneRunner

RecomputeInv == Typed /\ Executed /\ Attributed /\ Alone

----------------------------------------------------------------------------
(* Constants *)

LEMMA JobFacts ==
    /\ NoJob \notin Jobs
    /\ \A k \in 1 .. Len(Owners) : Owners[k] \in OwnerIds
    /\ Len(Owners) \in Nat \ {0}
    /\ \A n \in Numbers : JobsOf(n) \subseteq Jobs
    /\ \A j \in Jobs : j[1] \in Numbers /\ j[2] \in OwnerIds /\ j = <<j[1], j[2]>>
    /\ \A n \in Numbers, o \in OwnerIds : <<n, o>> \in Jobs
    /\ MaxRevision \in Nat \ {0}
<1>1. NoJob \notin Jobs
  <2>1. \A n, o : <<n, o>> # <<>>
    OBVIOUS
  <2> QED
    BY <2>1, RecomputeAssumption DEF NoJob
<1>2. \A k \in 1 .. Len(Owners) : Owners[k] \in OwnerIds
  BY RecomputeAssumption DEF OwnerIds
<1>3. Len(Owners) \in Nat \ {0}
  BY RecomputeAssumption
<1>4. \A n \in Numbers : JobsOf(n) \subseteq Jobs
  BY RecomputeAssumption DEF JobsOf
<1>5. \A j \in Jobs : j[1] \in Numbers /\ j[2] \in OwnerIds /\ j = <<j[1], j[2]>>
  BY RecomputeAssumption
<1>6. \A n \in Numbers, o \in OwnerIds : <<n, o>> \in Jobs
  BY RecomputeAssumption
<1> QED
  BY <1>1, <1>2, <1>3, <1>4, <1>5, <1>6, RecomputeAssumption

LEMMA Homes == \A t \in Threads : Home[t] \in Processes /\ Home[t] \notin Commands
  BY RecomputeAssumption

LEMMA IdlePlaced == Idle \in Places /\ Placed(Idle)
  BY JobFacts DEF Idle, Places, Placed, Steps, Submitting, Running

----------------------------------------------------------------------------
(* How a thread moves *)

LEMMA MoveTypes ==
    ASSUME Typed, NEW t \in Threads, NEW e \in Places, Placed(e),
           thread' = [thread EXCEPT ![t] = e]
    PROVE  /\ thread' \in [Threads -> Places]
           /\ \A u \in Threads : Placed(thread'[u])
           /\ \A u \in Threads : thread'[u] = IF u = t THEN e ELSE thread[u]
  BY DEF Typed, TypeOK

LEMMA LeaveTypes ==
    ASSUME Typed, NEW t \in Threads, Leave(t)
    PROVE  /\ thread' \in [Threads -> Places]
           /\ \A u \in Threads : Placed(thread'[u])
           /\ \A u \in Threads : thread'[u] = IF u = t THEN Idle ELSE thread[u]
<1> DEFINE e == Idle
<1>1. e \in Places /\ Placed(e) /\ thread' = [thread EXCEPT ![t] = e]
  BY IdlePlaced DEF Leave
<1> HIDE DEF e
<1>2. /\ thread' \in [Threads -> Places]
      /\ \A u \in Threads : Placed(thread'[u])
      /\ \A u \in Threads : thread'[u] = IF u = t THEN e ELSE thread[u]
  BY <1>1, MoveTypes
<1> QED
  BY <1>2 DEF e

LEMMA GoToTypes ==
    ASSUME Typed, NEW t \in Threads, NEW s \in Steps \ {"idle"}, ~At(t, "idle"),
           s \in Submitting => thread[t].step \in Submitting,
           s \in Running <=> thread[t].step \in Running,
           GoTo(t, s)
    PROVE  /\ thread' \in [Threads -> Places]
           /\ \A u \in Threads : Placed(thread'[u])
           /\ \A u \in Threads : u # t => thread'[u] = thread[u]
           /\ thread'[t].step = s
           /\ thread'[t].revision = thread[t].revision
           /\ thread'[t].job = thread[t].job
<1> DEFINE e == [thread[t] EXCEPT !.step = s]
<1>1. thread[t] \in Places /\ Placed(thread[t])
  BY DEF Typed, TypeOK
<1>2. /\ e \in Places /\ Placed(e)
      /\ e.step = s
      /\ e.revision = thread[t].revision
      /\ e.job = thread[t].job
  BY <1>1 DEF Places, Placed, At
<1>3. thread' = [thread EXCEPT ![t] = e]
  BY DEF GoTo
<1> HIDE DEF e
<1>4. /\ thread' \in [Threads -> Places]
      /\ \A u \in Threads : Placed(thread'[u])
      /\ \A u \in Threads : thread'[u] = IF u = t THEN e ELSE thread[u]
  BY <1>2, <1>3, MoveTypes
<1> QED
  BY <1>2, <1>4

LEMMA ResumesTypes ==
    ASSUME Typed, NEW t \in Threads, thread[t].step \in Running, Resumes(t)
    PROVE  /\ thread' \in [Threads -> Places]
           /\ \A u \in Threads : Placed(thread'[u])
           /\ \A u \in Threads : u # t => thread'[u] = thread[u]
           /\ thread'[t].step = "join"
           /\ thread'[t].revision = thread[t].revision
           /\ thread'[t].job = NoJob
<1> DEFINE e == [thread[t] EXCEPT !.step = "join", !.job = NoJob]
<1>1. thread[t] \in Places /\ Placed(thread[t])
  BY DEF Typed, TypeOK
<1>2. /\ e \in Places /\ Placed(e)
      /\ e.step = "join"
      /\ e.revision = thread[t].revision
      /\ e.job = NoJob
  BY <1>1 DEF Places, Placed, Steps, Submitting, Running
<1>3. thread' = [thread EXCEPT ![t] = e]
  BY DEF Resumes
<1> HIDE DEF e
<1>4. /\ thread' \in [Threads -> Places]
      /\ \A u \in Threads : Placed(thread'[u])
      /\ \A u \in Threads : thread'[u] = IF u = t THEN e ELSE thread[u]
  BY <1>2, <1>3, MoveTypes
<1> QED
  BY <1>2, <1>4

LEMMA ListedTypes ==
    ASSUME Typed, NEW t \in Threads, At(t, "enqueue"), Listed(t)
    PROVE  /\ thread' \in [Threads -> Places]
           /\ \A u \in Threads : Placed(thread'[u])
           /\ \A u \in Threads : u # t => thread'[u] = thread[u]
           /\ thread'[t].revision = thread[t].revision
           /\ thread'[t].step \in {"enqueue", "join"}
<1> DEFINE s == IF thread[t].at = Len(Owners) THEN "join" ELSE thread[t].step
           e == [thread[t] EXCEPT !.at = @ + 1, !.step = s]
<1>1. thread[t] \in Places /\ Placed(thread[t]) /\ thread[t].step = "enqueue"
  BY DEF Typed, TypeOK, At
<1>2. thread[t].at \in 1 .. Len(Owners)
  BY <1>1 DEF Placed, Submitting
<1>5. s \in {"enqueue", "join"} /\ (s = "enqueue" => thread[t].at + 1 \in 1 .. Len(Owners))
  BY <1>1, <1>2, JobFacts
<1>6. thread[t].at + 1 \in 1 .. Len(Owners) + 1
  BY <1>2, JobFacts
<1> HIDE DEF s
<1>7. e \in Places /\ e.revision = thread[t].revision /\ e.step = s
      /\ e.at = thread[t].at + 1 /\ e.job = thread[t].job
  BY <1>1, <1>5, <1>6 DEF Places, Steps
<1>8. Placed(e)
  BY <1>1, <1>5, <1>7 DEF Placed, Submitting, Running
<1>3. thread' = [thread EXCEPT ![t] = e]
  BY <1>1 DEF Listed, TypeOK, Typed, s
<1> HIDE DEF e
<1>4. /\ thread' \in [Threads -> Places]
      /\ \A u \in Threads : Placed(thread'[u])
      /\ \A u \in Threads : thread'[u] = IF u = t THEN e ELSE thread[u]
  BY <1>3, <1>7, <1>8, MoveTypes
<1> QED
  BY <1>4, <1>5, <1>7

LEMMA NumberTypes ==
    ASSUME Typed, NEW t \in Threads, Number(t)
    PROVE  /\ thread' \in [Threads -> Places]
           /\ \A u \in Threads : Placed(thread'[u])
           /\ \A u \in Threads : u # t => thread'[u] = thread[u]
           /\ thread'[t].step = "numbered"
<1> DEFINE e == [thread[t] EXCEPT !.step = "numbered", !.revision = known[Home[t]] + 1]
<1>1. thread[t] = Idle /\ known[Home[t]] \in Nat /\ known[Home[t]] < MaxRevision
  BY Homes DEF Typed, TypeOK, Number, At, Placed
<1>2. e \in Places /\ Placed(e) /\ e.step = "numbered"
  <2>1. known[Home[t]] + 1 \in Numbers /\ 1 \in 1 .. Len(Owners)
        /\ 1 \in 1 .. Len(Owners) + 1 /\ 0 \in 0 .. MaxRevision
        /\ Numbers \subseteq 0 .. MaxRevision
    BY <1>1, JobFacts DEF Numbers
  <2>2. e = [step |-> "numbered", revision |-> known[Home[t]] + 1, at |-> 1, job |-> NoJob]
    <3>1. e = [Idle EXCEPT !.step = "numbered", !.revision = known[Home[t]] + 1]
      BY <1>1
    <3> HIDE DEF e
    <3> QED
      BY <3>1 DEF Idle
  <2> HIDE DEF e
  <2> QED
    BY <2>1, <2>2 DEF Places, Placed, Steps, Submitting, Running
<1>3. thread' = [thread EXCEPT ![t] = e]
  BY DEF Number, TypeOK, Typed
<1> HIDE DEF e
<1>4. /\ thread' \in [Threads -> Places]
      /\ \A u \in Threads : Placed(thread'[u])
      /\ \A u \in Threads : thread'[u] = IF u = t THEN e ELSE thread[u]
  BY <1>2, <1>3, MoveTypes
<1> QED
  BY <1>2, <1>4

LEMMA TakeTypes ==
    ASSUME Typed, NEW t \in Threads, NEW j \in Jobs, At(t, "next"),
           thread' = [thread EXCEPT ![t].step = "handle", ![t].job = j]
    PROVE  /\ thread' \in [Threads -> Places]
           /\ \A u \in Threads : Placed(thread'[u])
           /\ \A u \in Threads : u # t => thread'[u] = thread[u]
           /\ thread'[t].step = "handle"
           /\ thread'[t].revision = thread[t].revision
           /\ thread'[t].job = j
<1> DEFINE e == [thread[t] EXCEPT !.step = "handle", !.job = j]
<1>1. thread[t] \in Places /\ Placed(thread[t]) /\ thread[t].step = "next"
  BY DEF Typed, TypeOK, At
<1>2. /\ e \in Places /\ Placed(e)
      /\ e.step = "handle"
      /\ e.revision = thread[t].revision
      /\ e.job = j
  BY <1>1 DEF Places, Placed, Steps, Submitting, Running
<1>3. thread' = [thread EXCEPT ![t] = e]
  BY DEF TypeOK, Typed
<1> HIDE DEF e
<1>4. /\ thread' \in [Threads -> Places]
      /\ \A u \in Threads : Placed(thread'[u])
      /\ \A u \in Threads : thread'[u] = IF u = t THEN e ELSE thread[u]
  BY <1>2, <1>3, MoveTypes
<1> QED
  BY <1>2, <1>4

LEMMA PersistTypes ==
    ASSUME TypeOK, NEW p \in Processes, NEW j \in Jobs, NEW s \in Statuses,
           Persist(p, j, s) \/ PersistFails(p, j, s)
    PROVE  /\ jobs' \in [Jobs -> Statuses]
           /\ memory' \in [Processes -> [Jobs -> Statuses]]
           /\ faults' \in 0 .. MaxFaults
           /\ \A q \in Processes, i \in Jobs :
                memory'[q][i] = IF q = p /\ i = j THEN s ELSE memory[q][i]
           /\ \A i \in Jobs : i # j => jobs'[i] = jobs[i]
           /\ jobs'[j] \in {s, jobs[j]}
<1> USE DEF TypeOK, QueueTypeOK
<1>1. memory' = [memory EXCEPT ![p][j] = s]
  BY DEF Persist, PersistFails, Written
<1>2. jobs' = jobs \/ jobs' = [jobs EXCEPT ![j] = s]
  BY DEF Persist, PersistFails, Written
<1>3. faults' \in 0 .. MaxFaults
  BY QueueAssumption DEF Persist, PersistFails
<1>4. memory' \in [Processes -> [Jobs -> Statuses]]
  BY <1>1
<1>5. \A q \in Processes, i \in Jobs :
        memory'[q][i] = IF q = p /\ i = j THEN s ELSE memory[q][i]
  BY <1>1
<1>6. jobs' \in [Jobs -> Statuses] /\ (\A i \in Jobs : i # j => jobs'[i] = jobs[i])
      /\ jobs'[j] \in {s, jobs[j]}
  BY <1>2
<1> QED
  BY <1>3, <1>4, <1>5, <1>6

----------------------------------------------------------------------------
(* Types *)

\* The threads of a process that stops are idle, and no other thread moves.
LEMMA StopTypes ==
    ASSUME Typed, NEW p \in Processes, Stop(p)
    PROVE  /\ thread' \in [Threads -> Places]
           /\ \A u \in Threads : Placed(thread'[u])
           /\ \A u \in Threads :
                thread'[u] = IF Home[u] = p THEN Idle ELSE thread[u]
<1>1. thread' = [t \in Threads |-> IF Home[t] = p THEN Idle ELSE thread[t]]
  BY DEF Stop
<1>2. \A u \in Threads : thread'[u] = IF Home[u] = p THEN Idle ELSE thread[u]
  BY <1>1
<1>3. \A u \in Threads : thread'[u] \in Places /\ Placed(thread'[u])
  BY <1>2, IdlePlaced DEF Typed, TypeOK
<1> QED
  BY <1>1, <1>2, <1>3

LEMMA StoredIsFinite == Cardinality(Stored) \in Nat
<1>1. IsFiniteSet(Numbers)
  BY JobFacts, FS_Interval DEF Numbers
<1>2. IsFiniteSet(Stored)
  BY <1>1, FS_Subset DEF Stored
<1> QED
  BY <1>2, FS_CardinalityType

LEMMA TransitionTypes ==
    ASSUME Typed, NEW p \in Processes, Pause(p) \/ Resume(p)
    PROVE  /\ QueueTypeOK'
           /\ memory' = [memory EXCEPT ![p] = Empty]
           /\ life' = [life EXCEPT ![p] = "ended"]
           /\ \E j \in Jobs, s \in {"queued", "paused"} :
                memory[p][j] # "absent" /\ jobs' = [jobs EXCEPT ![j] = s]
           /\ UNCHANGED faults
<1>1. PICK j \in Jobs, s \in {"queued", "paused"} :
        memory[p][j] # "absent" /\ jobs' = [jobs EXCEPT ![j] = s]
  BY DEF Pause, Resume, Transition
<1>2. /\ memory' = [memory EXCEPT ![p] = Empty]
      /\ life' = [life EXCEPT ![p] = "ended"]
      /\ UNCHANGED faults
  BY DEF Pause, Resume, Transition
<1>3. Empty \in [Jobs -> Statuses]
  BY DEF Empty, Statuses
<1> QED
  BY <1>1, <1>2, <1>3 DEF Typed, TypeOK, QueueTypeOK, Statuses, Lives

LEMMA ForgetTypes ==
    ASSUME Typed, NEW p \in Processes, Forget(p)
    PROVE  QueueTypeOK'
<1>1. Empty \in [Jobs -> Statuses]
  BY DEF Empty, Statuses
<1> QED
  BY <1>1 DEF Typed, TypeOK, QueueTypeOK, Lives, Forget

LEMMA ProcessTypes ==
    ASSUME Typed, NEW p \in Processes, StartUp(p) \/ Stop(p) \/ Command(p)
    PROVE  Typed'
<1> USE DEF Typed, TypeOK
<1>1. CASE Load(p) /\ UNCHANGED <<recordVars, thread, stops>>
  BY <1>1 DEF Load, recordVars, QueueTypeOK, Lives
<1>2. CASE Recover(p) /\ UNCHANGED <<recordVars, thread, stops>>
  <2>1. PICK j \in Jobs : Persist(p, j, "queued")
    BY <1>2 DEF Recover
  <2>2. QueueTypeOK'
    BY <1>2, <2>1, PersistTypes DEF Recover, QueueTypeOK, Statuses
  <2> QED
    BY <1>2, <2>2 DEF recordVars
<1>3. CASE Ready(p)
  BY <1>3, StoredIsFinite DEF Ready, QueueTypeOK, Lives
<1>4. CASE Stop(p)
  <2>1. stops' \in 0 .. MaxStops
    BY <1>4, RecomputeAssumption DEF Stop
  <2>2. QueueTypeOK'
    BY <1>4, ForgetTypes DEF Stop
  <2> QED
    BY <1>4, <2>1, <2>2, StopTypes DEF Stop
<1>5. CASE Command(p)
  BY <1>5, TransitionTypes DEF Command, recordVars
<1> QED
  BY <1>1, <1>2, <1>3, <1>4, <1>5 DEF StartUp

LEMMA SubmitTypes ==
    ASSUME Typed, NEW t \in Threads, Number(t) \/ Submit(t)
    PROVE  Typed'
<1> USE DEF Typed, TypeOK
<1>e. thread[t] \in Places /\ Placed(thread[t])
  OBVIOUS
<1>1. CASE Number(t)
  BY <1>1, NumberTypes DEF Number, queueVars, recordVars, QueueTypeOK
<1>2. CASE Remember(t)
  <2>1. thread' \in [Threads -> Places] /\ \A u \in Threads : Placed(thread'[u])
    BY <1>2, GoToTypes DEF Remember, At, Steps, Submitting, Running
  <2>2. known' \in [Processes -> Nat]
    BY <1>2, Homes DEF Remember
  <2> QED
    BY <1>2, <2>1, <2>2 DEF Remember, queueVars, QueueTypeOK
<1>3. CASE AppendRevision(t)
  <2>1. thread' \in [Threads -> Places] /\ \A u \in Threads : Placed(thread'[u])
    BY <1>3, GoToTypes, LeaveTypes DEF AppendRevision, At, Steps, Submitting, Running
  <2>2. revisions' \in [Numbers -> Threads \cup {Nobody}]
    BY <1>3 DEF AppendRevision
  <2> QED
    BY <1>3, <2>1, <2>2 DEF AppendRevision, queueVars, QueueTypeOK
<1>4. CASE AppendInput(t)
  <2>1. thread' \in [Threads -> Places] /\ \A u \in Threads : Placed(thread'[u])
    BY <1>4, GoToTypes DEF AppendInput, At, Steps, Submitting, Running
  <2>2. inputs' \in [Numbers -> Inputs \cup {NoInput}]
    <3>1. PICK supported \in BOOLEAN :
            inputs' = [inputs EXCEPT ![thread[t].revision] =
                         [by |-> t, supported |-> supported]]
      BY <1>4 DEF AppendInput
    <3>2. [by |-> t, supported |-> supported] \in Inputs
      BY DEF Inputs
    <3> QED
      BY <3>1, <3>2
  <2> QED
    BY <1>4, <2>1, <2>2 DEF AppendInput, queueVars, QueueTypeOK
<1>5. CASE Invalidate(t)
  <2>1. thread' \in [Threads -> Places] /\ \A u \in Threads : Placed(thread'[u])
    BY <1>5, GoToTypes DEF Invalidate, At, Steps, Submitting, Running
  <2> QED
    BY <1>5, <2>1 DEF Invalidate, queueVars, QueueTypeOK
<1>6. CASE Enqueue(t)
  <2>1. thread' \in [Threads -> Places] /\ \A u \in Threads : Placed(thread'[u])
    BY <1>6, ListedTypes, LeaveTypes DEF Enqueue
  <2>2. Job(t) \in Jobs
    BY <1>6, <1>e, JobFacts DEF Enqueue, At, Placed, Submitting, Job
  <2>3. QueueTypeOK'
    <3>1. CASE UNCHANGED <<jobs, memory, faults>>
      BY <1>6, <3>1 DEF Enqueue, QueueTypeOK
    <3>2. CASE Persist(Home[t], Job(t), "queued") \/ PersistFails(Home[t], Job(t), "queued")
      BY <1>6, <2>2, <3>2, Homes, PersistTypes DEF Enqueue, QueueTypeOK, Statuses
    <3> QED
      BY <1>6, <3>1, <3>2 DEF Enqueue
  <2> QED
    BY <1>6, <2>1, <2>3 DEF Enqueue, recordVars
<1> QED
  BY <1>1, <1>2, <1>3, <1>4, <1>5, <1>6 DEF Submit

\* A handler that raises leaves its job failed in the copy; the store may lag.
LEMMA RaiseTypes ==
    ASSUME Typed, NEW t \in Threads, Raise(t)
    PROVE  /\ thread[t].step \in Running /\ thread[t].job \in Jobs
           /\ Resumes(t) \/ Leave(t)
           /\ QueueTypeOK'
           /\ faults' = faults \/ faults' = faults + 1
           /\ UNCHANGED <<life, recordVars, stops>>
           /\ \A q \in Processes, i \in Jobs :
                memory'[q][i] = IF q = Home[t] /\ i = thread[t].job
                                THEN "failed" ELSE memory[q][i]
           /\ \A i \in Jobs : i # thread[t].job => jobs'[i] = jobs[i]
           /\ jobs'[thread[t].job] \in {"failed", jobs[thread[t].job]}
<1> DEFINE j == thread[t].job
<1>1. thread[t].step \in Running /\ j \in Jobs
  BY DEF Typed, TypeOK, Raise, Placed, Running
<1>2. /\ UNCHANGED <<life, recordVars, stops>>
      /\ Resumes(t) \/ Leave(t)
      /\ faults' = faults \/ (faults < MaxFaults /\ faults' = faults + 1)
      /\ memory' = [memory EXCEPT ![Home[t]][j] = "failed"]
      /\ jobs' = jobs \/ jobs' = [jobs EXCEPT ![j] = "failed"]
  BY DEF Raise, HandlerFails, Written, PersistFails, Outcome
<1> HIDE DEF j
<1>3. faults' \in 0 .. MaxFaults
  BY <1>2, QueueAssumption DEF Typed, TypeOK, QueueTypeOK
<1>4. /\ memory' \in [Processes -> [Jobs -> Statuses]]
      /\ \A q \in Processes, i \in Jobs :
           memory'[q][i] = IF q = Home[t] /\ i = j THEN "failed" ELSE memory[q][i]
  BY <1>1, <1>2, Homes DEF Typed, TypeOK, QueueTypeOK, Statuses
<1>5. /\ jobs' \in [Jobs -> Statuses]
      /\ \A i \in Jobs : i # j => jobs'[i] = jobs[i]
      /\ jobs'[j] \in {"failed", jobs[j]}
  BY <1>1, <1>2 DEF Typed, TypeOK, QueueTypeOK, Statuses
<1>6. QueueTypeOK'
  BY <1>2, <1>3, <1>4, <1>5 DEF Typed, TypeOK, QueueTypeOK
<1> QED
  BY <1>1, <1>2, <1>4, <1>5, <1>6 DEF j

\* A submission whose write fails leaves without a job.
LEMMA WriteFailsTypes ==
    ASSUME Typed, NEW t \in Threads, WriteFails(t)
    PROVE  /\ Typed'
           /\ \A u \in Threads : u # t => thread'[u] = thread[u]
           /\ thread'[t] = Idle
           /\ thread[t].step # "idle" /\ thread[t].job = NoJob
           /\ UNCHANGED <<jobs, memory, life, revisions, inputs, recorded>>
           /\ faults' = faults + 1
<1>1. /\ UNCHANGED <<jobs, memory, life, revisions, inputs, recorded, projection,
                     known, stops>>
      /\ Leave(t)
      /\ faults < MaxFaults /\ faults' = faults + 1
      /\ fresh' \in BOOLEAN
  BY DEF WriteFails, Typed, TypeOK
<1>2. thread[t].step # "idle" /\ thread[t].job = NoJob
  BY DEF WriteFails, Typed, TypeOK, Placed, Running
<1>3. /\ thread' \in [Threads -> Places]
      /\ \A u \in Threads : Placed(thread'[u])
      /\ \A u \in Threads : u # t => thread'[u] = thread[u]
      /\ thread'[t] = Idle
  BY <1>1, LeaveTypes
<1>4. faults' \in 0 .. MaxFaults
  BY <1>1, QueueAssumption DEF Typed, TypeOK, QueueTypeOK
<1>5. Typed'
  BY <1>1, <1>3, <1>4 DEF Typed, TypeOK, QueueTypeOK
<1> QED
  BY <1>1, <1>2, <1>3, <1>5

LEMMA WorkTypes ==
    ASSUME Typed, NEW t \in Threads, Work(t)
    PROVE  Typed'
<1> USE DEF Typed, TypeOK
<1>e. thread[t] \in Places /\ Placed(thread[t])
  OBVIOUS
<1>1. CASE Join(t)
  <2>1. thread' \in [Threads -> Places] /\ \A u \in Threads : Placed(thread'[u])
    BY <1>1, GoToTypes, LeaveTypes DEF Join, At, Steps, Submitting, Running
  <2> QED
    BY <1>1, <2>1 DEF Join, queueVars, recordVars, QueueTypeOK
<1>2. CASE Take(t)
  <2>1. PICK j \in Jobs :
          \/ /\ Persist(Home[t], j, "running")
             /\ thread' = [thread EXCEPT ![t].step = "handle", ![t].job = j]
          \/ PersistFails(Home[t], j, "running") /\ Leave(t)
    BY <1>2 DEF Take
  <2>2. thread' \in [Threads -> Places] /\ \A u \in Threads : Placed(thread'[u])
    BY <1>2, <2>1, TakeTypes, LeaveTypes DEF Take
  <2>3. QueueTypeOK'
    BY <1>2, <2>1, Homes, PersistTypes DEF Take, QueueTypeOK, Statuses
  <2> QED
    BY <1>2, <2>2, <2>3 DEF Take, recordVars
<1>3. CASE Blocked(t)
  BY <1>3, LeaveTypes DEF Blocked, GiveUp, queueVars, recordVars, QueueTypeOK
<1>4. CASE Publish(t)
  <2>1. thread' \in [Threads -> Places] /\ \A u \in Threads : Placed(thread'[u])
    BY <1>4, GoToTypes DEF Publish, At, Steps, Submitting, Running
  <2>2. projection' \in 0 .. MaxRevision
    <3>1. Revision(t) \in Numbers
      BY <1>4, <1>e, JobFacts DEF Publish, At, Placed, Running, Revision
    <3> QED
      BY <1>4, <3>1, JobFacts DEF Publish, Semantic, Numbers
  <2> QED
    BY <1>4, <2>1, <2>2 DEF Publish, queueVars, QueueTypeOK
<1>5. CASE Record(t)
  <2>1. thread' \in [Threads -> Places] /\ \A u \in Threads : Placed(thread'[u])
    BY <1>5, GoToTypes DEF Record, At, Steps, Submitting, Running
  <2>2. recorded' \subseteq Jobs
    BY <1>5, <1>e DEF Record, At, Placed, Running
  <2> QED
    BY <1>5, <2>1, <2>2 DEF Record, queueVars, QueueTypeOK
<1>6. CASE Finish(t)
  <2>1. thread[t].step \in Running /\ thread[t].job \in Jobs
    BY <1>6, <1>e DEF Finish, At, Placed, Running
  <2>2. thread' \in [Threads -> Places] /\ \A u \in Threads : Placed(thread'[u])
    BY <1>6, <2>1, ResumesTypes, LeaveTypes DEF Finish
  <2>3. QueueTypeOK'
    BY <1>6, <2>1, Homes, PersistTypes DEF Finish, Outcome, QueueTypeOK, Statuses
  <2> QED
    BY <1>6, <2>2, <2>3 DEF Finish, recordVars
<1>7. CASE Raise(t)
  <2>1. thread' \in [Threads -> Places] /\ \A u \in Threads : Placed(thread'[u])
    BY <1>7, RaiseTypes, ResumesTypes, LeaveTypes
  <2> QED
    BY <1>7, <2>1, RaiseTypes DEF recordVars
<1>8. CASE Refresh(t)
  <2>1. thread' \in [Threads -> Places] /\ \A u \in Threads : Placed(thread'[u])
    BY <1>8, GoToTypes DEF Refresh, At, Steps, Submitting, Running
  <2> QED
    BY <1>8, <2>1 DEF Refresh, queueVars, QueueTypeOK
<1>9. CASE Return(t)
  BY <1>9, LeaveTypes DEF Return, queueVars, recordVars, QueueTypeOK
<1> QED
  BY <1>1, <1>2, <1>3, <1>4, <1>5, <1>6, <1>7, <1>8, <1>9 DEF Work

LEMMA StepTypes == Typed /\ [Next]_vars => Typed'
<1> SUFFICES ASSUME Typed, [Next]_vars PROVE Typed'
  OBVIOUS
<1>1. ASSUME NEW p \in Processes, StartUp(p) \/ Stop(p) \/ Command(p) PROVE Typed'
  BY <1>1, ProcessTypes
<1>2. ASSUME NEW t \in Threads, Number(t) \/ Submit(t) \/ Work(t) PROVE Typed'
  BY <1>2, SubmitTypes, WorkTypes
<1>3. ASSUME NEW t \in Threads, WriteFails(t) PROVE Typed'
  BY <1>3, WriteFailsTypes
<1>4. CASE UNCHANGED vars
  BY <1>4 DEF Typed, TypeOK, QueueTypeOK, vars, queueVars, recordVars
<1> QED
  BY <1>1, <1>2, <1>3, <1>4 DEF Next

----------------------------------------------------------------------------
(* What passed was recorded *)

\* What a step may do to the jobs that passed: it copies them, drops them,
\* or lets one pass that is recorded.
PassesRecorded ==
    /\ recorded \subseteq recorded'
    /\ \A j \in Jobs : jobs'[j] = "passed" => jobs[j] = "passed" \/ j \in recorded'
    /\ \A q \in Processes, j \in Jobs :
         memory'[q][j] = "passed" =>
            memory[q][j] = "passed" \/ jobs[j] = "passed" \/ j \in recorded'

LEMMA RecordedPasses ==
    PassedMeansExecuted /\ PassesRecorded => PassedMeansExecuted'
  BY DEF PassedMeansExecuted, PassesRecorded

LEMMA ProcessPasses ==
    ASSUME Typed, NEW p \in Processes, StartUp(p) \/ Stop(p) \/ Command(p)
    PROVE  PassesRecorded /\ recorded' = recorded
<1> USE DEF Typed, TypeOK, QueueTypeOK
<1>1. CASE Load(p) /\ UNCHANGED <<recordVars, thread, stops>>
  BY <1>1 DEF Load, recordVars, PassesRecorded
<1>2. CASE Recover(p) /\ UNCHANGED <<recordVars, thread, stops>>
  <2>1. PICK j \in Jobs : Persist(p, j, "queued")
    BY <1>2 DEF Recover
  <2> QED
    BY <1>2, <2>1, PersistTypes DEF recordVars, PassesRecorded, Statuses
<1>3. CASE Ready(p)
  BY <1>3 DEF Ready, PassesRecorded
<1>4. CASE Stop(p)
  BY <1>4 DEF Stop, Forget, Empty, PassesRecorded
<1>5. CASE Command(p)
  <2>1. PICK j \in Jobs, s \in {"queued", "paused"} : jobs' = [jobs EXCEPT ![j] = s]
    BY <1>5, TransitionTypes DEF Command
  <2>2. memory' = [memory EXCEPT ![p] = Empty] /\ recorded' = recorded
    BY <1>5, TransitionTypes DEF Command, recordVars
  <2>3. \A i \in Jobs : jobs'[i] = "passed" => jobs[i] = "passed"
    BY <2>1
  <2>4. \A q \in Processes, i \in Jobs : memory'[q][i] = "passed" => memory[q][i] = "passed"
    BY <2>2 DEF Empty
  <2> QED
    BY <2>2, <2>3, <2>4 DEF PassesRecorded
<1> QED
  BY <1>1, <1>2, <1>3, <1>4, <1>5 DEF StartUp

LEMMA SubmitPasses ==
    ASSUME Typed, NEW t \in Threads, Number(t) \/ Submit(t)
    PROVE  PassesRecorded /\ recorded' = recorded
<1> USE DEF Typed, TypeOK
<1>1. CASE UNCHANGED <<jobs, memory, recorded>>
  BY <1>1 DEF PassesRecorded
<1>2. CASE Enqueue(t)
  <2>1. Job(t) \in Jobs
    BY <1>2, JobFacts DEF Enqueue, At, Placed, Submitting, Job
  <2>2. CASE Persist(Home[t], Job(t), "queued") \/ PersistFails(Home[t], Job(t), "queued")
    BY <1>2, <2>1, <2>2, Homes, PersistTypes
       DEF Enqueue, recordVars, PassesRecorded, Statuses
  <2> QED
    BY <1>1, <1>2, <2>2 DEF Enqueue, recordVars
<1> QED
  BY <1>1, <1>2 DEF Submit, Number, Remember, AppendRevision, AppendInput, Invalidate,
                    queueVars, recordVars

LEMMA WorkPasses ==
    ASSUME Typed, NEW t \in Threads, Work(t),
           At(t, "finish") => thread[t].job \in recorded
    PROVE  PassesRecorded
<1> USE DEF Typed, TypeOK
<1>1. CASE UNCHANGED <<jobs, memory>> /\ recorded \subseteq recorded'
  BY <1>1 DEF PassesRecorded
<1>2. CASE Take(t)
  <2>1. PICK j \in Jobs : Persist(Home[t], j, "running") \/ PersistFails(Home[t], j, "running")
    BY <1>2 DEF Take
  <2> QED
    BY <1>2, <2>1, Homes, PersistTypes DEF Take, recordVars, PassesRecorded, Statuses
<1>3. CASE Finish(t)
  <2>1. thread[t].job \in Jobs /\ thread[t].job \in recorded
    BY <1>3 DEF Finish, At, Placed, Running
  <2>2. Persist(Home[t], thread[t].job, "passed") \/ PersistFails(Home[t], thread[t].job, "passed")
    BY <1>3 DEF Finish, Outcome
  <2> QED
    <3> DEFINE j == thread[t].job
    <3>1. j \in Jobs /\ j \in recorded /\ recorded' = recorded /\ Home[t] \in Processes
          /\ (Persist(Home[t], j, "passed") \/ PersistFails(Home[t], j, "passed"))
      BY <1>3, <2>1, <2>2, Homes DEF Finish, recordVars
    <3> HIDE DEF j
    <3>2. "passed" \in Statuses /\ TypeOK
      BY DEF Statuses
    <3>3. /\ \A q \in Processes, i \in Jobs :
               memory'[q][i] = IF q = Home[t] /\ i = j THEN "passed" ELSE memory[q][i]
          /\ \A i \in Jobs : i # j => jobs'[i] = jobs[i]
      BY <3>1, <3>2, PersistTypes
    <3> QED
      BY <3>1, <3>3 DEF PassesRecorded
<1>4. CASE Raise(t)
  <2> DEFINE j == thread[t].job
  <2>1. /\ recorded' = recorded
        /\ \A q \in Processes, i \in Jobs :
             memory'[q][i] = IF q = Home[t] /\ i = j THEN "failed" ELSE memory[q][i]
        /\ \A i \in Jobs : i # j => jobs'[i] = jobs[i]
        /\ jobs'[j] \in {"failed", jobs[j]}
    BY <1>4, RaiseTypes DEF recordVars
  <2> HIDE DEF j
  <2> QED
    BY <2>1 DEF PassesRecorded
<1>5. CASE Join(t) \/ Blocked(t) \/ Publish(t) \/ Record(t) \/ Refresh(t) \/ Return(t)
  BY <1>1, <1>5 DEF Join, Blocked, Publish, Record, Refresh, Return, queueVars, recordVars
<1> QED
  BY <1>2, <1>3, <1>4, <1>5 DEF Work

\* A thread whose step and correction stay, or that leaves, owes nothing new.
ThreadsExecuted ==
    \A t \in Threads :
        /\ At(t, "finish") => thread[t].job \in recorded
        /\ thread[t].step \in {"refresh", "applied"} =>
             JobsOf(thread[t].revision) \subseteq recorded

LEMMA OthersExecuted ==
    ASSUME Typed, NEW t \in Threads, ThreadsExecuted, recorded \subseteq recorded',
           \A u \in Threads : u # t => thread'[u] = thread[u],
           /\ thread'[t].step = "finish" => thread'[t].job \in recorded'
           /\ thread'[t].step \in {"refresh", "applied"} =>
                JobsOf(thread'[t].revision) \subseteq recorded'
    PROVE  ThreadsExecuted'
<1> SUFFICES ASSUME NEW u \in Threads
             PROVE  /\ thread'[u].step = "finish" => thread'[u].job \in recorded'
                    /\ thread'[u].step \in {"refresh", "applied"} =>
                         JobsOf(thread'[u].revision) \subseteq recorded'
  BY DEF ThreadsExecuted, At, JobsOf
<1>1. CASE u = t
  BY <1>1
<1>2. CASE u # t
  BY <1>2 DEF ThreadsExecuted, At
<1> QED
  BY <1>1, <1>2

LEMMA ProcessExecuted ==
    ASSUME Typed, ThreadsExecuted, NEW p \in Processes, StartUp(p) \/ Stop(p) \/ Command(p)
    PROVE  ThreadsExecuted'
<1>1. recorded' = recorded
  BY ProcessPasses
<1>2. CASE UNCHANGED thread
  BY <1>1, <1>2 DEF ThreadsExecuted, At, JobsOf
<1>3. CASE Stop(p)
  <2>1. \A u \in Threads : thread'[u] = Idle \/ thread'[u] = thread[u]
    BY <1>3, StopTypes
  <2> QED
    BY <1>1, <2>1 DEF ThreadsExecuted, At, JobsOf, Idle
<1> QED
  BY <1>2, <1>3 DEF StartUp, Ready, Command

LEMMA SubmitExecuted ==
    ASSUME Typed, ThreadsExecuted, NEW t \in Threads, Number(t) \/ Submit(t)
    PROVE  ThreadsExecuted'
<1>1. recorded' = recorded
  BY SubmitPasses
<1>2. /\ \A u \in Threads : u # t => thread'[u] = thread[u]
      /\ thread'[t].step \notin {"finish", "refresh", "applied"}
  <2>e. thread[t] \in Places
    BY DEF Typed, TypeOK
  <2>1. CASE Number(t)
    BY <2>1, NumberTypes
  <2>2. CASE Remember(t)
    BY <2>2, <2>e, GoToTypes DEF Remember, At, Steps, Submitting, Running, Places
  <2>3. CASE AppendRevision(t)
    BY <2>3, <2>e, GoToTypes, LeaveTypes
       DEF AppendRevision, At, Steps, Submitting, Running, Places, Idle
  <2>4. CASE AppendInput(t)
    BY <2>4, <2>e, GoToTypes DEF AppendInput, At, Steps, Submitting, Running, Places
  <2>5. CASE Invalidate(t)
    BY <2>5, <2>e, GoToTypes DEF Invalidate, At, Steps, Submitting, Running, Places
  <2>6. CASE Enqueue(t)
    BY <2>6, ListedTypes, LeaveTypes DEF Enqueue, Idle
  <2> QED
    BY <2>1, <2>2, <2>3, <2>4, <2>5, <2>6 DEF Submit
<1> QED
  BY <1>1, <1>2, OthersExecuted

LEMMA WorkExecuted ==
    ASSUME Typed, PassedMeansExecuted, ThreadsExecuted, NEW t \in Threads, Work(t)
    PROVE  ThreadsExecuted'
<1>e. thread[t] \in Places /\ Placed(thread[t])
  BY DEF Typed, TypeOK
<1>p. PassesRecorded
  BY WorkPasses DEF ThreadsExecuted
<1>r. recorded \subseteq recorded'
  BY <1>p DEF PassesRecorded
<1>1. /\ \A u \in Threads : u # t => thread'[u] = thread[u]
      /\ thread'[t].step = "finish" => thread'[t].job \in recorded'
      /\ thread'[t].step \in {"refresh", "applied"} =>
           JobsOf(thread'[t].revision) \subseteq recorded'
  <2>1. CASE Join(t)
    <3>1. CASE GoTo(t, "refresh") /\ AllPassed(t)
      <4>1. thread[t].revision \in Numbers
        BY <1>e, <2>1 DEF Join, At, Placed
      <4>2. JobsOf(thread[t].revision) \subseteq recorded
        <5> SUFFICES ASSUME NEW j \in JobsOf(thread[t].revision) PROVE j \in recorded
          OBVIOUS
        <5>1. j \in Jobs /\ memory[Home[t]][j] = "passed"
          BY <3>1, <4>1, JobFacts DEF AllPassed, StatusOfOwn
        <5> QED
          BY <5>1, Homes DEF PassedMeansExecuted
      <4>3. /\ \A u \in Threads : u # t => thread'[u] = thread[u]
            /\ thread'[t].step = "refresh" /\ thread'[t].revision = thread[t].revision
        BY <2>1, <3>1, GoToTypes DEF Join, At, Steps, Submitting, Running
      <4> QED
        BY <1>r, <4>2, <4>3
    <3>2. CASE GoTo(t, "next")
      BY <2>1, <3>2, GoToTypes DEF Join, At, Steps, Submitting, Running
    <3>3. CASE Leave(t)
      BY <3>3, LeaveTypes DEF Idle
    <3> QED
      BY <2>1, <3>1, <3>2, <3>3 DEF Join
  <2>2. CASE Take(t)
    BY <2>2, TakeTypes, LeaveTypes DEF Take, Idle
  <2>3. CASE Blocked(t) \/ Return(t)
    BY <2>3, LeaveTypes DEF Blocked, GiveUp, Return, Idle
  <2>4. CASE Publish(t)
    BY <2>4, GoToTypes DEF Publish, At, Steps, Submitting, Running
  <2>5. CASE Record(t)
    <3>1. /\ \A u \in Threads : u # t => thread'[u] = thread[u]
          /\ thread'[t].step = "finish" /\ thread'[t].job = thread[t].job
      BY <2>5, GoToTypes DEF Record, At, Steps, Submitting, Running
    <3> QED
      BY <2>5, <3>1 DEF Record
  <2>6. CASE Finish(t) \/ Raise(t)
    <3>1. thread[t].step \in Running
      BY <2>6 DEF Finish, Raise, Refused, At, Running
    <3>2. CASE Resumes(t)
      BY <3>1, <3>2, ResumesTypes
    <3>3. CASE Leave(t)
      BY <3>3, LeaveTypes DEF Idle
    <3> QED
      BY <2>6, <3>2, <3>3 DEF Finish, Raise
  <2>7. CASE Refresh(t)
    <3>1. /\ \A u \in Threads : u # t => thread'[u] = thread[u]
          /\ thread'[t].step = "applied" /\ thread'[t].revision = thread[t].revision
      BY <2>7, GoToTypes DEF Refresh, At, Steps, Submitting, Running
    <3>2. JobsOf(thread[t].revision) \subseteq recorded
      BY <2>7 DEF Refresh, At, ThreadsExecuted
    <3> QED
      BY <1>r, <3>1, <3>2
  <2> QED
    BY <2>1, <2>2, <2>3, <2>4, <2>5, <2>6, <2>7 DEF Work
<1> QED
  BY <1>r, <1>1, OthersExecuted

LEMMA StepExecuted == Typed /\ Executed /\ [Next]_vars => Executed'
<1> SUFFICES ASSUME Typed, PassedMeansExecuted, ThreadsExecuted, [Next]_vars
             PROVE  PassedMeansExecuted' /\ ThreadsExecuted'
  BY DEF Executed, ThreadsExecuted, At, JobsOf
<1>1. ASSUME NEW p \in Processes, StartUp(p) \/ Stop(p) \/ Command(p)
      PROVE  PassedMeansExecuted' /\ ThreadsExecuted'
  BY <1>1, ProcessPasses, ProcessExecuted, RecordedPasses
<1>2. ASSUME NEW t \in Threads, Number(t) \/ Submit(t)
      PROVE  PassedMeansExecuted' /\ ThreadsExecuted'
  BY <1>2, SubmitPasses, SubmitExecuted, RecordedPasses
<1>3. ASSUME NEW t \in Threads, Work(t)
      PROVE  PassedMeansExecuted' /\ ThreadsExecuted'
  BY <1>3, WorkPasses, WorkExecuted, RecordedPasses DEF ThreadsExecuted
<1>4. ASSUME NEW t \in Threads, WriteFails(t)
      PROVE  PassedMeansExecuted' /\ ThreadsExecuted'
  <2>1. PassedMeansExecuted'
    BY <1>4, WriteFailsTypes DEF PassedMeansExecuted
  <2>2. ThreadsExecuted'
    BY <1>4, WriteFailsTypes, OthersExecuted DEF Idle
  <2> QED
    BY <2>1, <2>2
<1>5. CASE UNCHANGED vars
  BY <1>5 DEF PassedMeansExecuted, ThreadsExecuted, At, JobsOf, vars, queueVars, recordVars
<1> QED
  BY <1>1, <1>2, <1>3, <1>4, <1>5 DEF Next

----------------------------------------------------------------------------
(* Whose jobs and revisions they are *)

HasJob(j) == jobs[j] # "absent" \/ \E p \in Processes : memory[p][j] # "absent"

JobsAttributed ==
    \A j \in Jobs : HasJob(j) => /\ revisions[j[1]] # Nobody
                                 /\ inputs[j[1]].by = revisions[j[1]]

ThreadsAttributed ==
    \A t \in Threads :
        /\ thread[t].step \in {"revised", "accepted", "enqueue"} =>
             revisions[thread[t].revision] = t
        /\ thread[t].step \in {"accepted", "enqueue"} =>
             inputs[thread[t].revision].by = t

LEMMA AttributedParts == Attributed <=> JobsAttributed /\ ThreadsAttributed
<1>1. JobsKeepTheirCorrection <=> JobsAttributed
  <2>1. ASSUME JobsKeepTheirCorrection PROVE JobsAttributed
    <3> SUFFICES ASSUME NEW j \in Jobs, HasJob(j)
                 PROVE  revisions[j[1]] # Nobody /\ inputs[j[1]].by = revisions[j[1]]
      BY DEF JobsAttributed
    <3>1. j[1] \in Numbers /\ j[2] \in OwnerIds /\ j = <<j[1], j[2]>>
      BY JobFacts
    <3> QED
      BY <2>1, <3>1 DEF JobsKeepTheirCorrection, HasJob
  <2>2. ASSUME JobsAttributed PROVE JobsKeepTheirCorrection
    <3> SUFFICES ASSUME NEW n \in Numbers, NEW o \in OwnerIds, HasJob(<<n, o>>)
                 PROVE  revisions[n] # Nobody /\ inputs[n].by = revisions[n]
      BY DEF JobsKeepTheirCorrection, HasJob
    <3>1. <<n, o>> \in Jobs /\ <<n, o>>[1] = n
      BY JobFacts
    <3> QED
      BY <2>2, <3>1 DEF JobsAttributed
  <2> QED
    BY <2>1, <2>2
<1> QED
  BY <1>1 DEF Attributed, ThreadsAttributed

\* A step copies jobs and drops them; but for Enqueue it adds none.
NoNewJobs == \A j \in Jobs : HasJob(j)' => HasJob(j)

LEMMA SameRecordsAttributed ==
    ASSUME JobsAttributed, NoNewJobs, UNCHANGED <<revisions, inputs>>
    PROVE  JobsAttributed'
  BY DEF JobsAttributed, NoNewJobs

LEMMA ProcessAttributed ==
    ASSUME Typed, JobsAttributed, ThreadsAttributed, NEW p \in Processes,
           StartUp(p) \/ Stop(p) \/ Command(p)
    PROVE  JobsAttributed' /\ ThreadsAttributed'
<1> USE DEF Typed, TypeOK, QueueTypeOK
<1>1. UNCHANGED <<revisions, inputs>>
  BY DEF StartUp, Stop, Command, Ready, recordVars
<1>2. \A u \in Threads : thread'[u] = Idle \/ thread'[u] = thread[u]
  <2>1. CASE Stop(p)
    BY <2>1, StopTypes
  <2>2. CASE UNCHANGED thread
    BY <2>2
  <2> QED
    BY <2>1, <2>2 DEF StartUp, Command, Ready
<1>3. ThreadsAttributed'
  BY <1>1, <1>2 DEF ThreadsAttributed, Idle
<1>4. NoNewJobs
  <2>1. CASE Load(p) /\ UNCHANGED <<recordVars, thread, stops>>
    BY <2>1 DEF Load, NoNewJobs, HasJob
  <2>2. CASE Recover(p) /\ UNCHANGED <<recordVars, thread, stops>>
    <3>1. PICK j \in Jobs : memory[p][j] = "running" /\ Persist(p, j, "queued")
      BY <2>2 DEF Recover
    <3>2. HasJob(j)
      BY <3>1 DEF HasJob
    <3>3. ASSUME NEW i \in Jobs, i # j, HasJob(i)' PROVE HasJob(i)
      BY <3>1, <3>3, PersistTypes DEF HasJob, Statuses
    <3> QED
      BY <3>2, <3>3 DEF NoNewJobs
  <2>3. CASE Ready(p)
    BY <2>3 DEF Ready, NoNewJobs, HasJob
  <2>4. CASE Stop(p)
    BY <2>4 DEF Stop, Forget, Empty, NoNewJobs, HasJob
  <2>5. CASE Command(p)
    <3>1. PICK j \in Jobs, s \in {"queued", "paused"} :
            memory[p][j] # "absent" /\ jobs' = [jobs EXCEPT ![j] = s]
      BY <2>5, TransitionTypes DEF Command
    <3>2. memory' = [memory EXCEPT ![p] = Empty]
      BY <2>5, TransitionTypes DEF Command
    <3>3. HasJob(j)
      BY <3>1 DEF HasJob
    <3>4. ASSUME NEW i \in Jobs, i # j, HasJob(i)' PROVE HasJob(i)
      BY <3>1, <3>2, <3>4 DEF HasJob, Empty
    <3> QED
      BY <3>3, <3>4 DEF NoNewJobs
  <2> QED
    BY <2>1, <2>2, <2>3, <2>4, <2>5 DEF StartUp
<1> QED
  BY <1>1, <1>3, <1>4, SameRecordsAttributed

LEMMA SubmitAttributed ==
    ASSUME Typed, JobsAttributed, ThreadsAttributed, NEW t \in Threads,
           Number(t) \/ Submit(t)
    PROVE  JobsAttributed' /\ ThreadsAttributed'
<1> DEFINE n == thread[t].revision
<1>e. thread[t] \in Places /\ Placed(thread[t])
  BY DEF Typed, TypeOK
<1>1. CASE Number(t) \/ Remember(t) \/ Invalidate(t)
  <2>1. UNCHANGED <<jobs, memory, revisions, inputs>>
    BY <1>1 DEF Number, Remember, Invalidate, queueVars, recordVars
  <2>2. JobsAttributed'
    BY <2>1 DEF JobsAttributed, HasJob
  <2>3. /\ \A u \in Threads : u # t => thread'[u] = thread[u]
        /\ \/ thread'[t].step \in {"numbered", "remembered"}
           \/ /\ thread[t].step = "accepted" /\ thread'[t].step = "enqueue"
              /\ thread'[t].revision = thread[t].revision
    <3>1. CASE Number(t)
      BY <3>1, NumberTypes
    <3>2. CASE Remember(t)
      BY <3>2, GoToTypes DEF Remember, At, Steps, Submitting, Running
    <3>3. CASE Invalidate(t)
      BY <3>3, GoToTypes DEF Invalidate, At, Steps, Submitting, Running
    <3> QED
      BY <1>1, <3>1, <3>2, <3>3
  <2>4. ASSUME NEW u \in Threads
        PROVE  /\ thread'[u].step \in {"revised", "accepted", "enqueue"} =>
                    revisions[thread'[u].revision] = u
               /\ thread'[u].step \in {"accepted", "enqueue"} =>
                    inputs[thread'[u].revision].by = u
    BY <2>3 DEF ThreadsAttributed
  <2> QED
    BY <2>1, <2>2, <2>4 DEF ThreadsAttributed
<1>2. CASE AppendRevision(t)
  <2>1. CASE UNCHANGED revisions /\ Leave(t)
    <3>1. UNCHANGED <<jobs, memory, revisions, inputs>>
      BY <1>2, <2>1 DEF AppendRevision, queueVars
    <3> QED
      BY <2>1, <3>1, LeaveTypes DEF JobsAttributed, HasJob, ThreadsAttributed, Idle
  <2>2. CASE Free(n) /\ revisions' = [revisions EXCEPT ![n] = t] /\ GoTo(t, "revised")
    <3>1. UNCHANGED <<jobs, memory, inputs>>
      BY <1>2 DEF AppendRevision, queueVars
    <3>2. n \in Numbers /\ revisions \in [Numbers -> Threads \cup {Nobody}] /\ Nobody \notin Threads
      BY <1>2, <1>e, RecomputeAssumption DEF AppendRevision, At, Placed, Typed, TypeOK
    <3>3. \A m \in Numbers : revisions'[m] = IF m = n THEN t ELSE revisions[m]
      BY <2>2, <3>2
    <3>4. \A m \in Numbers : revisions[m] # Nobody => revisions'[m] = revisions[m]
      BY <2>2, <3>3 DEF Free
    <3>5. JobsAttributed'
      BY <3>1, <3>4, JobFacts DEF JobsAttributed, HasJob
    <3>6. /\ \A u \in Threads : u # t => thread'[u] = thread[u]
          /\ thread'[t].step = "revised" /\ thread'[t].revision = n
      BY <1>2, <2>2, GoToTypes DEF AppendRevision, At, Steps, Submitting, Running
    <3>7. ASSUME NEW u \in Threads, u # t,
                 thread[u].step \in {"revised", "accepted", "enqueue"}
          PROVE  revisions'[thread[u].revision] = u
      <4>1. thread[u].revision \in Numbers
        BY <3>7 DEF Typed, Placed
      <4>2. revisions[thread[u].revision] = u
        BY <3>7 DEF ThreadsAttributed
      <4> QED
        BY <3>2, <3>4, <4>1, <4>2
    <3> QED
      BY <3>1, <3>2, <3>3, <3>5, <3>6, <3>7 DEF ThreadsAttributed
  <2> QED
    BY <1>2, <2>1, <2>2 DEF AppendRevision
<1>3. CASE AppendInput(t)
  <2>1. UNCHANGED <<jobs, memory, revisions>>
    BY <1>3 DEF AppendInput, queueVars
  <2>2. PICK supported \in BOOLEAN :
          inputs' = [inputs EXCEPT ![n] = [by |-> t, supported |-> supported]]
    BY <1>3 DEF AppendInput
  <2>3. n \in Numbers /\ revisions[n] = t
    BY <1>3, <1>e DEF AppendInput, At, Placed, ThreadsAttributed
  <2>4. inputs'[n].by = t /\ \A m \in Numbers : m # n => inputs'[m] = inputs[m]
    BY <2>2, <2>3 DEF Typed, TypeOK
  <2>5. JobsAttributed'
    <3> SUFFICES ASSUME NEW j \in Jobs, HasJob(j)
                 PROVE  revisions[j[1]] # Nobody /\ inputs'[j[1]].by = revisions[j[1]]
      BY <2>1 DEF JobsAttributed, HasJob
    <3>1. j[1] \in Numbers /\ revisions[j[1]] # Nobody /\ inputs[j[1]].by = revisions[j[1]]
      BY JobFacts DEF JobsAttributed
    <3>2. CASE j[1] = n
      BY <2>3, <2>4, <3>1, <3>2
    <3>3. CASE j[1] # n
      BY <2>4, <3>1, <3>3
    <3> QED
      BY <3>2, <3>3
  <2>6. /\ \A u \in Threads : u # t => thread'[u] = thread[u]
        /\ thread'[t].step = "accepted" /\ thread'[t].revision = n
    BY <1>3, GoToTypes DEF AppendInput, At, Steps, Submitting, Running
  <2>7. ASSUME NEW u \in Threads, u # t, thread[u].step \in {"accepted", "enqueue"}
        PROVE  inputs'[thread[u].revision].by = u
    <3>1. thread[u].revision \in Numbers
      BY <2>7 DEF Typed, Placed
    <3>2. /\ revisions[thread[u].revision] = u
          /\ inputs[thread[u].revision].by = u
      BY <2>7 DEF ThreadsAttributed
    <3> QED
      BY <2>3, <2>4, <2>7, <3>1, <3>2
  <2>8. ASSUME NEW u \in Threads
        PROVE  /\ thread'[u].step \in {"revised", "accepted", "enqueue"} =>
                    revisions[thread'[u].revision] = u
               /\ thread'[u].step \in {"accepted", "enqueue"} =>
                    inputs'[thread'[u].revision].by = u
    BY <2>3, <2>4, <2>6, <2>7 DEF ThreadsAttributed
  <2> QED
    BY <2>1, <2>5, <2>8 DEF ThreadsAttributed
<1>4. CASE Enqueue(t)
  <2>1. UNCHANGED <<revisions, inputs>>
    BY <1>4 DEF Enqueue, recordVars
  <2>2. /\ n \in Numbers /\ revisions[n] = t /\ inputs[n].by = t
        /\ Job(t) \in Jobs /\ Job(t)[1] = n /\ Nobody \notin Threads
    BY <1>4, <1>e, JobFacts, RecomputeAssumption
       DEF Enqueue, At, Placed, Submitting, Job, ThreadsAttributed
  <2>3. ASSUME NEW i \in Jobs, i # Job(t), HasJob(i)' PROVE HasJob(i)
    <3>1. CASE UNCHANGED <<jobs, memory>>
      BY <2>3, <3>1 DEF HasJob
    <3>2. CASE Persist(Home[t], Job(t), "queued") \/ PersistFails(Home[t], Job(t), "queued")
      BY <2>2, <2>3, <3>2, Homes, PersistTypes DEF HasJob, Statuses, Typed
    <3> QED
      BY <1>4, <3>1, <3>2 DEF Enqueue
  <2>4. JobsAttributed'
    <3> SUFFICES ASSUME NEW j \in Jobs, HasJob(j)'
                 PROVE  revisions[j[1]] # Nobody /\ inputs[j[1]].by = revisions[j[1]]
      BY <2>1 DEF JobsAttributed
    <3>1. CASE j = Job(t)
      BY <2>2, <3>1
    <3>2. CASE j # Job(t)
      BY <2>3, <3>2 DEF JobsAttributed
    <3> QED
      BY <3>1, <3>2
  <2>5. /\ \A u \in Threads : u # t => thread'[u] = thread[u]
        /\ \/ thread'[t].step \in {"idle", "join"}
           \/ thread'[t].step = "enqueue" /\ thread'[t].revision = n
    BY <1>4, ListedTypes, LeaveTypes DEF Enqueue, Idle
  <2>6. ASSUME NEW u \in Threads
        PROVE  /\ thread'[u].step \in {"revised", "accepted", "enqueue"} =>
                    revisions[thread'[u].revision] = u
               /\ thread'[u].step \in {"accepted", "enqueue"} =>
                    inputs[thread'[u].revision].by = u
    BY <2>2, <2>5 DEF ThreadsAttributed
  <2> QED
    BY <2>1, <2>4, <2>6 DEF ThreadsAttributed
<1> QED
  BY <1>1, <1>2, <1>3, <1>4 DEF Submit

LEMMA WorkAttributed ==
    ASSUME Typed, JobsAttributed, ThreadsAttributed, RunsWhatIsRunning,
           NEW t \in Threads, Work(t)
    PROVE  JobsAttributed' /\ ThreadsAttributed'
<1>e. thread[t] \in Places /\ Placed(thread[t])
  BY DEF Typed, TypeOK
<1>1. UNCHANGED <<revisions, inputs>>
  BY DEF Work, Join, Take, Blocked, Publish, Record, Finish, Raise, Refresh, Return,
         recordVars
<1>2. /\ \A u \in Threads : u # t => thread'[u] = thread[u]
      /\ thread'[t].step \notin {"revised", "accepted", "enqueue"}
  <2>1. CASE Join(t)
    BY <2>1, GoToTypes, LeaveTypes DEF Join, At, Steps, Submitting, Running, Idle
  <2>2. CASE Take(t)
    BY <2>2, TakeTypes, LeaveTypes DEF Take, Idle
  <2>3. CASE Blocked(t) \/ Return(t)
    BY <2>3, LeaveTypes DEF Blocked, GiveUp, Return, Idle
  <2>4. CASE Publish(t)
    BY <2>4, GoToTypes DEF Publish, At, Steps, Submitting, Running
  <2>5. CASE Record(t)
    BY <2>5, GoToTypes DEF Record, At, Steps, Submitting, Running
  <2>6. CASE Finish(t) \/ Raise(t)
    <3>1. thread[t].step \in Running
      BY <2>6 DEF Finish, Raise, Refused, At, Running
    <3>2. CASE Resumes(t)
      BY <3>1, <3>2, ResumesTypes
    <3>3. CASE Leave(t)
      BY <3>3, LeaveTypes DEF Idle
    <3> QED
      BY <2>6, <3>2, <3>3 DEF Finish, Raise
  <2>7. CASE Refresh(t)
    BY <2>7, GoToTypes DEF Refresh, At, Steps, Submitting, Running
  <2> QED
    BY <2>1, <2>2, <2>3, <2>4, <2>5, <2>6, <2>7 DEF Work
<1>3. ThreadsAttributed'
  BY <1>1, <1>2 DEF ThreadsAttributed
<1>4. NoNewJobs
  <2>1. CASE Take(t)
    <3>1. PICK j \in Jobs :
            /\ memory[Home[t]][j] = "queued"
            /\ Persist(Home[t], j, "running") \/ PersistFails(Home[t], j, "running")
      BY <2>1 DEF Take, IsNext, Runnable, Queued
    <3>2. HasJob(j)
      BY <3>1, Homes DEF HasJob
    <3>3. ASSUME NEW i \in Jobs, i # j, HasJob(i)' PROVE HasJob(i)
      BY <3>1, <3>3, Homes, PersistTypes DEF HasJob, Statuses, Typed
    <3> QED
      BY <3>2, <3>3 DEF NoNewJobs
  <2>2. CASE Finish(t) \/ Raise(t)
    <3> DEFINE j == thread[t].job
    <3>1. j \in Jobs /\ memory[Home[t]][j] = "running"
      BY <1>e, <2>2 DEF Finish, Raise, Refused, At, Placed, Running, RunsWhatIsRunning
    <3>2. HasJob(j)
      BY <3>1, Homes DEF HasJob
    <3>3. \A i \in Jobs : i # j =>
             jobs'[i] = jobs[i] /\ \A q \in Processes : memory'[q][i] = memory[q][i]
      <4>1. CASE Finish(t)
        <5>1. Persist(Home[t], j, "passed") \/ PersistFails(Home[t], j, "passed")
          BY <4>1 DEF Finish, Outcome
        <5> HIDE DEF j
        <5> QED
          BY <3>1, <5>1, Homes, PersistTypes DEF Statuses, Typed
      <4>2. CASE Raise(t)
        BY <4>2, RaiseTypes
      <4> QED
        BY <2>2, <4>1, <4>2
    <3> HIDE DEF j
    <3> QED
      BY <3>2, <3>3 DEF NoNewJobs, HasJob
  <2>3. CASE UNCHANGED <<jobs, memory>>
    BY <2>3 DEF NoNewJobs, HasJob
  <2> QED
    BY <2>1, <2>2, <2>3 DEF Work, Join, Blocked, Publish, Record, Refresh, Return, queueVars
<1> QED
  BY <1>1, <1>3, <1>4, SameRecordsAttributed

LEMMA StepAttributed == Typed /\ Attributed /\ RunsWhatIsRunning /\ [Next]_vars => Attributed'
<1> SUFFICES ASSUME Typed, JobsAttributed, ThreadsAttributed, RunsWhatIsRunning, [Next]_vars
             PROVE  JobsAttributed' /\ ThreadsAttributed'
  <2>1. Attributed <=> JobsAttributed /\ ThreadsAttributed
    BY AttributedParts
  <2>2. (Attributed <=> JobsAttributed /\ ThreadsAttributed)'
    BY AttributedParts, PTL
  <2> QED
    BY <2>1, <2>2
<1>1. ASSUME NEW p \in Processes, StartUp(p) \/ Stop(p) \/ Command(p)
      PROVE  JobsAttributed' /\ ThreadsAttributed'
  BY <1>1, ProcessAttributed
<1>2. ASSUME NEW t \in Threads, Number(t) \/ Submit(t) \/ Work(t)
      PROVE  JobsAttributed' /\ ThreadsAttributed'
  BY <1>2, SubmitAttributed, WorkAttributed
<1>3. ASSUME NEW t \in Threads, WriteFails(t)
      PROVE  JobsAttributed' /\ ThreadsAttributed'
  <2>1. JobsAttributed'
    BY <1>3, WriteFailsTypes DEF JobsAttributed, HasJob
  <2>2. ThreadsAttributed'
    BY <1>3, WriteFailsTypes DEF ThreadsAttributed, Idle
  <2> QED
    BY <2>1, <2>2
<1>4. CASE UNCHANGED vars
  BY <1>4 DEF JobsAttributed, HasJob, ThreadsAttributed, vars, queueVars, recordVars
<1> QED
  BY <1>1, <1>2, <1>3, <1>4 DEF Next

----------------------------------------------------------------------------
(* One runner *)

RunnersAlone ==
    \A t, u \in Threads :
        thread[t].job \in Jobs /\ Home[t] = Home[u] /\ thread[t].job = thread[u].job
            => t = u

RunningIsRun ==
    faults = 0 =>
        \A p \in Processes, j \in Jobs :
            life[p] = "up" /\ memory[p][j] = "running"
                => \E t \in Threads : Home[t] = p /\ thread[t].job = j

AloneParts == DownIsIdle /\ RunsWhatIsRunning /\ RunnersAlone /\ RunningIsRun

LEMMA AloneByParts == Alone <=> AloneParts
<1>1. RunningHasOneRunner => RunnersAlone /\ RunningIsRun
  BY Homes DEF RunningHasOneRunner, RunnersAlone, RunningIsRun, Runners
<1>2. RunnersAlone /\ RunningIsRun => RunningHasOneRunner
  BY DEF RunningHasOneRunner, RunnersAlone, RunningIsRun, Runners
<1> QED
  BY <1>1, <1>2 DEF Alone, AloneParts

\* A thread moves and the queue stays.
LEMMA QuietStep ==
    ASSUME Typed, AloneParts, NEW t \in Threads, life[Home[t]] = "up",
           UNCHANGED <<memory, life>>, faults' = 0 => faults = 0,
           \A u \in Threads : u # t => thread'[u] = thread[u],
           thread'[t].job = thread[t].job
    PROVE  AloneParts'
<1>1. \A u \in Threads : thread'[u].job = thread[u].job
  OBVIOUS
<1>2. DownIsIdle'
  BY DEF AloneParts, DownIsIdle, At
<1>3. RunsWhatIsRunning'
  BY <1>1 DEF AloneParts, RunsWhatIsRunning
<1>4. RunnersAlone'
  BY <1>1 DEF AloneParts, RunnersAlone
<1>5. RunningIsRun'
  BY <1>1 DEF AloneParts, RunningIsRun
<1> QED
  BY <1>2, <1>3, <1>4, <1>5 DEF AloneParts

\* A thread takes leave of job j, or changes one nobody runs.
LEMMA ReleaseStep ==
    ASSUME Typed, AloneParts, NEW t \in Threads, life[Home[t]] = "up",
           NEW j \in Jobs, NEW s,
           s # "running" \/ faults' # 0,
           \A u \in Threads : u # t /\ Home[u] = Home[t] => thread[u].job # j,
           thread[t].job \in {NoJob, j},
           life' = life, faults' = 0 => faults = 0,
           \A q \in Processes, i \in Jobs :
              memory'[q][i] = IF q = Home[t] /\ i = j THEN s ELSE memory[q][i],
           \A u \in Threads : u # t => thread'[u] = thread[u],
           thread'[t].job = NoJob
    PROVE  AloneParts'
<1>0. NoJob \notin Jobs
  BY JobFacts
<1>2. DownIsIdle'
  BY DEF AloneParts, DownIsIdle, At
<1>3. RunsWhatIsRunning'
  BY <1>0, Homes DEF AloneParts, RunsWhatIsRunning
<1>4. RunnersAlone'
  BY <1>0 DEF AloneParts, RunnersAlone
<1>5. RunningIsRun'
  <2> SUFFICES ASSUME faults' = 0, NEW p \in Processes, NEW i \in Jobs,
                      life[p] = "up", memory'[p][i] = "running"
               PROVE  \E u \in Threads : Home[u] = p /\ thread'[u].job = i
    BY DEF RunningIsRun
  <2>1. ~(p = Home[t] /\ i = j) /\ memory[p][i] = "running"
    OBVIOUS
  <2>2. PICK u \in Threads : Home[u] = p /\ thread[u].job = i
    BY <2>1 DEF AloneParts, RunningIsRun
  <2>3. u # t
    BY <1>0, <2>1, <2>2
  <2> QED
    BY <2>2, <2>3
<1> QED
  BY <1>2, <1>3, <1>4, <1>5 DEF AloneParts

LEMMA TakeStep ==
    ASSUME Typed, AloneParts, NEW t \in Threads, life[Home[t]] = "up",
           NEW j \in Jobs, memory[Home[t]][j] = "queued", thread[t].job = NoJob,
           UNCHANGED <<life, faults>>,
           \A q \in Processes, i \in Jobs :
              memory'[q][i] = IF q = Home[t] /\ i = j THEN "running" ELSE memory[q][i],
           \A u \in Threads : u # t => thread'[u] = thread[u],
           thread'[t].job = j
    PROVE  AloneParts'
<1>0. NoJob \notin Jobs
  BY JobFacts
<1>1. \A u \in Threads : Home[u] = Home[t] => thread[u].job # j
  BY DEF AloneParts, RunsWhatIsRunning
<1>2. DownIsIdle'
  BY DEF AloneParts, DownIsIdle, At
<1>3. RunsWhatIsRunning'
  BY <1>0, Homes DEF AloneParts, RunsWhatIsRunning
<1>4. RunnersAlone'
  BY <1>0, <1>1 DEF AloneParts, RunnersAlone
<1>5. RunningIsRun'
  <2> SUFFICES ASSUME faults = 0, NEW p \in Processes, NEW i \in Jobs,
                      life[p] = "up", memory'[p][i] = "running"
               PROVE  \E u \in Threads : Home[u] = p /\ thread'[u].job = i
    BY DEF RunningIsRun
  <2>1. CASE p = Home[t] /\ i = j
    BY <2>1
  <2>2. CASE ~(p = Home[t] /\ i = j)
    <3>1. PICK u \in Threads : Home[u] = p /\ thread[u].job = i
      BY <2>2 DEF AloneParts, RunningIsRun
    <3>2. u # t
      BY <1>0, <3>1
    <3> QED
      BY <3>1, <3>2
  <2> QED
    BY <2>1, <2>2
<1> QED
  BY <1>2, <1>3, <1>4, <1>5 DEF AloneParts

LEMMA ProcessAlone ==
    ASSUME Typed, AloneParts, NEW p \in Processes, StartUp(p) \/ Stop(p) \/ Command(p)
    PROVE  AloneParts'
<1> USE DEF Typed, TypeOK, QueueTypeOK
<1>0. NoJob \notin Jobs
  BY JobFacts
<1>s. ASSUME life[p] # "up", life'[p] # "up" \/ \A j \in Jobs : memory'[p][j] # "running",
             \A q \in Processes : q # p => memory'[q] = memory[q] /\ life'[q] = life[q],
             UNCHANGED <<thread, faults>>
      PROVE  AloneParts'
  <2>1. \A u \in Threads : Home[u] = p => thread[u].step = "idle" /\ thread[u].job = NoJob
    BY <1>s DEF AloneParts, DownIsIdle, At, Placed, Running
  <2>2. DownIsIdle'
    BY <1>s, <2>1, Homes DEF AloneParts, DownIsIdle, At
  <2>3. RunsWhatIsRunning'
    BY <1>s, <1>0, <2>1, Homes DEF AloneParts, RunsWhatIsRunning
  <2>4. RunnersAlone'
    BY <1>s DEF AloneParts, RunnersAlone
  <2>5. RunningIsRun'
    BY <1>s DEF AloneParts, RunningIsRun
  <2> QED
    BY <2>2, <2>3, <2>4, <2>5 DEF AloneParts
<1>1. CASE Load(p) /\ UNCHANGED <<recordVars, thread, stops>>
  BY <1>1, <1>s DEF Load
<1>2. CASE Recover(p) /\ UNCHANGED <<recordVars, thread, stops>>
  <2>1. PICK j \in Jobs : Persist(p, j, "queued")
    BY <1>2 DEF Recover
  <2>2. \A q \in Processes : q # p => memory'[q] = memory[q]
    BY <2>1 DEF Persist, Written
  <2> QED
    BY <1>2, <1>s, <2>1, <2>2 DEF Recover, Persist
<1>3. CASE Ready(p)
  BY <1>3, <1>s DEF Ready
<1>4. CASE Stop(p)
  <2>1. /\ \A u \in Threads : thread'[u] = IF Home[u] = p THEN Idle ELSE thread[u]
        /\ memory' = [memory EXCEPT ![p] = Empty] /\ life' = [life EXCEPT ![p] = "down"]
        /\ faults' = faults
    BY <1>4, StopTypes DEF Stop, Forget
  <2>2. DownIsIdle'
    BY <2>1, Homes DEF AloneParts, DownIsIdle, At, Idle
  <2>3. RunsWhatIsRunning'
    BY <1>0, <2>1, Homes DEF AloneParts, RunsWhatIsRunning, Idle
  <2>4. RunnersAlone'
    BY <1>0, <2>1 DEF AloneParts, RunnersAlone, Idle
  <2>5. RunningIsRun'
    <3> SUFFICES ASSUME faults = 0, NEW q \in Processes, NEW i \in Jobs,
                        life'[q] = "up", memory'[q][i] = "running"
                 PROVE  \E u \in Threads : Home[u] = q /\ thread'[u].job = i
      BY <2>1 DEF RunningIsRun
    <3>1. q # p /\ life[q] = "up" /\ memory[q][i] = "running"
      BY <2>1
    <3> QED
      BY <2>1, <3>1 DEF AloneParts, RunningIsRun
  <2> QED
    BY <2>2, <2>3, <2>4, <2>5 DEF AloneParts
<1>5. CASE Command(p)
  <2>1. /\ UNCHANGED <<thread, faults>> /\ p \in Commands
        /\ memory' = [memory EXCEPT ![p] = Empty] /\ life' = [life EXCEPT ![p] = "ended"]
    BY <1>5, TransitionTypes DEF Command
  <2>2. \A u \in Threads : Home[u] # p
    BY <2>1, Homes
  <2>3. DownIsIdle'
    BY <2>1, <2>2, Homes DEF AloneParts, DownIsIdle, At
  <2>4. RunsWhatIsRunning'
    BY <2>1, <2>2, Homes DEF AloneParts, RunsWhatIsRunning
  <2>5. RunnersAlone'
    BY <2>1 DEF AloneParts, RunnersAlone
  <2>6. RunningIsRun'
    BY <2>1 DEF AloneParts, RunningIsRun
  <2> QED
    BY <2>3, <2>4, <2>5, <2>6 DEF AloneParts
<1> QED
  BY <1>1, <1>2, <1>3, <1>4, <1>5 DEF StartUp

LEMMA ThreadAlone ==
    ASSUME Typed, Typed', AloneParts, NEW t \in Threads, Number(t) \/ Submit(t) \/ Work(t)
    PROVE  AloneParts'
<1>e. thread[t] \in Places /\ Placed(thread[t])
  BY DEF Typed, TypeOK
<1>u. life[Home[t]] = "up"
  <2>1. CASE Number(t)
    BY <2>1 DEF Number
  <2>2. CASE ~At(t, "idle")
    BY <2>2 DEF AloneParts, DownIsIdle
  <2> QED
    BY <2>1, <2>2 DEF At, Submit, Remember, AppendRevision, AppendInput, Invalidate,
       Enqueue, Work, Join, Take, Blocked, Publish, Record, Finish, Raise, Refused,
       Refresh, Return
<1>v. Placed(thread'[t])
  BY DEF Typed
<1>1. CASE Number(t)
  <2>1. /\ \A u \in Threads : u # t => thread'[u] = thread[u]
        /\ thread'[t].job = thread[t].job
    BY <1>1, <1>e, <1>v, NumberTypes DEF Number, At, Placed, Running
  <2> QED
    BY <1>1, <1>u, <2>1, QuietStep DEF Number, queueVars
<1>2. CASE Remember(t) \/ AppendRevision(t) \/ AppendInput(t) \/ Invalidate(t)
  <2>1. thread[t].step \in Submitting /\ thread[t].job = NoJob
    BY <1>2, <1>e DEF Remember, AppendRevision, AppendInput, Invalidate, At, Placed,
                      Submitting, Running
  <2>2. PICK s \in {"remembered", "revised", "accepted", "enqueue"} : GoTo(t, s) \/ Leave(t)
    BY <1>2 DEF Remember, AppendRevision, AppendInput, Invalidate
  <2>3. CASE GoTo(t, s)
    <3>1. /\ \A u \in Threads : u # t => thread'[u] = thread[u]
          /\ thread'[t].job = thread[t].job
      BY <2>1, <2>2, <2>3, GoToTypes DEF At, Steps, Submitting, Running
    <3> QED
      BY <1>2, <1>u, <3>1, QuietStep
         DEF Remember, AppendRevision, AppendInput, Invalidate, queueVars
  <2>4. CASE Leave(t)
    <3>1. /\ \A u \in Threads : u # t => thread'[u] = thread[u]
          /\ thread'[t].job = thread[t].job
      BY <2>1, <2>4, LeaveTypes DEF Idle
    <3> QED
      BY <1>2, <1>u, <3>1, QuietStep
         DEF Remember, AppendRevision, AppendInput, Invalidate, queueVars
  <2> QED
    BY <2>2, <2>3, <2>4
<1>3. CASE Enqueue(t)
  <2>1. /\ \A u \in Threads : u # t => thread'[u] = thread[u]
        /\ thread[t].job = NoJob /\ thread'[t].job = NoJob
    <3>1. CASE Listed(t)
      BY <1>3, <1>e, <1>v, <3>1, ListedTypes DEF Enqueue, At, Placed, Running
    <3>2. CASE Leave(t)
      BY <1>3, <1>e, <3>2, LeaveTypes DEF Enqueue, At, Placed, Running, Idle
    <3> QED
      BY <1>3, <3>1, <3>2 DEF Enqueue
  <2>2. Job(t) \in Jobs /\ life' = life
    BY <1>3, <1>e, JobFacts DEF Enqueue, At, Placed, Submitting, Job
  <2>3. CASE UNCHANGED <<jobs, memory, faults>>
    BY <1>u, <2>1, <2>2, <2>3, QuietStep
  <2>4. CASE /\ memory[Home[t]][Job(t)] = "absent"
             /\ Persist(Home[t], Job(t), "queued") \/ PersistFails(Home[t], Job(t), "queued")
    <3>1. \A u \in Threads : u # t /\ Home[u] = Home[t] => thread[u].job # Job(t)
      BY <2>2, <2>4 DEF AloneParts, RunsWhatIsRunning
    <3>2. \A q \in Processes, i \in Jobs :
            memory'[q][i] = IF q = Home[t] /\ i = Job(t) THEN "queued" ELSE memory[q][i]
      BY <2>2, <2>4, Homes, PersistTypes DEF Statuses, Typed
    <3>3. faults' = 0 => faults = 0
      BY <2>4, QueueAssumption DEF Persist, PersistFails, Typed, TypeOK, QueueTypeOK
    <3> DEFINE j == Job(t)
    <3> HIDE DEF j
    <3>4. j \in Jobs /\ (\A u \in Threads : u # t /\ Home[u] = Home[t] => thread[u].job # j)
          /\ \A q \in Processes, i \in Jobs :
               memory'[q][i] = IF q = Home[t] /\ i = j THEN "queued" ELSE memory[q][i]
      BY <2>2, <3>1, <3>2 DEF j
    <3> QED
      BY <1>u, <2>1, <2>2, <3>3, <3>4, ReleaseStep
  <2> QED
    BY <1>3, <2>3, <2>4 DEF Enqueue
<1>4. CASE Join(t) \/ Blocked(t) \/ Refresh(t) \/ Return(t)
  <2>1. thread[t].step \in {"join", "next", "refresh", "applied"} /\ thread[t].job = NoJob
    BY <1>4, <1>e DEF Join, Blocked, Refresh, Return, At, Placed, Running
  <2>2. PICK s \in {"refresh", "next", "applied"} : GoTo(t, s) \/ Leave(t)
    BY <1>4 DEF Join, Blocked, GiveUp, Refresh, Return
  <2>3. /\ \A u \in Threads : u # t => thread'[u] = thread[u]
        /\ thread'[t].job = thread[t].job
    <3>1. CASE GoTo(t, s)
      BY <2>1, <2>2, <3>1, GoToTypes DEF At, Steps, Submitting, Running
    <3>2. CASE Leave(t)
      BY <2>1, <3>2, LeaveTypes DEF Idle
    <3> QED
      BY <2>2, <3>1, <3>2
  <2> QED
    BY <1>4, <1>u, <2>3, QuietStep DEF Join, Blocked, Refresh, Return, queueVars
<1>5. CASE Publish(t) \/ Record(t)
  <2>1. thread[t].step \in Running
    BY <1>5 DEF Publish, Record, At, Running
  <2>2. PICK s \in {"published", "finish"} : GoTo(t, s)
    BY <1>5 DEF Publish, Record
  <2>3. /\ \A u \in Threads : u # t => thread'[u] = thread[u]
        /\ thread'[t].job = thread[t].job
    BY <2>1, <2>2, GoToTypes DEF At, Steps, Submitting, Running
  <2> QED
    BY <1>5, <1>u, <2>3, QuietStep DEF Publish, Record, queueVars
<1>6. CASE Take(t)
  <2>1. PICK j \in Jobs :
          /\ memory[Home[t]][j] = "queued"
          /\ \/ /\ Persist(Home[t], j, "running")
                /\ thread' = [thread EXCEPT ![t].step = "handle", ![t].job = j]
             \/ PersistFails(Home[t], j, "running") /\ Leave(t)
    BY <1>6 DEF Take, IsNext, Runnable, Queued
  <2>2. thread[t].job = NoJob /\ life' = life /\ At(t, "next")
    BY <1>6, <1>e DEF Take, At, Placed, Running
  <2>3. \A q \in Processes, i \in Jobs :
          memory'[q][i] = IF q = Home[t] /\ i = j THEN "running" ELSE memory[q][i]
    BY <2>1, Homes, PersistTypes DEF Statuses, Typed
  <2>4. \A u \in Threads : Home[u] = Home[t] => thread[u].job # j
    BY <2>1 DEF AloneParts, RunsWhatIsRunning
  <2>5. CASE /\ Persist(Home[t], j, "running")
             /\ thread' = [thread EXCEPT ![t].step = "handle", ![t].job = j]
    <3>1. /\ \A u \in Threads : u # t => thread'[u] = thread[u]
          /\ thread'[t].job = j
      BY <2>2, <2>5, TakeTypes
    <3>2. faults' = faults
      BY <2>5 DEF Persist
    <3> QED
      BY <1>u, <2>1, <2>2, <2>3, <3>1, <3>2, TakeStep
  <2>6. CASE PersistFails(Home[t], j, "running") /\ Leave(t)
    <3>1. /\ \A u \in Threads : u # t => thread'[u] = thread[u]
          /\ thread'[t].job = NoJob
      BY <2>6, LeaveTypes DEF Idle
    <3>2. faults' # 0 /\ (faults' = 0 => faults = 0)
      BY <2>6, QueueAssumption DEF PersistFails, Typed, TypeOK, QueueTypeOK
    <3> QED
      BY <1>u, <2>2, <2>3, <2>4, <3>1, <3>2, ReleaseStep
  <2> QED
    BY <2>1, <2>5, <2>6
<1>7. CASE Finish(t) \/ Raise(t)
  <2> DEFINE j == thread[t].job
  <2>1. thread[t].step \in Running /\ j \in Jobs
    BY <1>7, <1>e DEF Finish, Raise, Refused, At, Placed, Running
  <2>2. /\ \A u \in Threads : u # t => thread'[u] = thread[u]
        /\ thread'[t].job = NoJob
    <3>1. CASE Resumes(t)
      BY <2>1, <3>1, ResumesTypes
    <3>2. CASE Leave(t)
      BY <3>2, LeaveTypes DEF Idle
    <3> QED
      BY <1>7, <3>1, <3>2 DEF Finish, Raise
  <2>3. \A u \in Threads : u # t /\ Home[u] = Home[t] => thread[u].job # j
    BY <2>1 DEF AloneParts, RunnersAlone
  <2>4. life' = life /\ (faults' = 0 => faults = 0)
    <3>1. faults \in Nat
      BY QueueAssumption DEF Typed, TypeOK, QueueTypeOK
    <3>2. life' = life
      BY <1>7 DEF Finish, Raise
    <3>3. faults' = faults \/ faults' = faults + 1
      <4>1. CASE Finish(t)
        BY <4>1 DEF Finish, Persist, PersistFails
      <4>2. CASE Raise(t)
        BY <4>2, RaiseTypes
      <4> QED
        BY <1>7, <4>1, <4>2
    <3> QED
      BY <3>1, <3>2, <3>3
  <2>5. PICK s \in {"passed", "failed"} :
          \A q \in Processes, i \in Jobs :
            memory'[q][i] = IF q = Home[t] /\ i = j THEN s ELSE memory[q][i]
    <3>1. CASE Finish(t)
      <4>1. Persist(Home[t], j, "passed") \/ PersistFails(Home[t], j, "passed")
        BY <3>1 DEF Finish, Outcome
      <4> HIDE DEF j
      <4> QED
        BY <2>1, <4>1, Homes, PersistTypes DEF Statuses, Typed
    <3>2. CASE Raise(t)
      BY <3>2, RaiseTypes
    <3> QED
      BY <1>7, <3>1, <3>2
  <2>6. thread[t].job \in {NoJob, j}
    OBVIOUS
  <2> HIDE DEF j
  <2>7. s # "running"
    OBVIOUS
  <2> QED
    BY <1>u, <2>1, <2>2, <2>3, <2>4, <2>5, <2>6, <2>7, ReleaseStep
<1> QED
  BY <1>1, <1>2, <1>3, <1>4, <1>5, <1>6, <1>7 DEF Submit, Work

LEMMA StepAlone == Typed /\ Typed' /\ Alone /\ [Next]_vars => Alone'
<1> SUFFICES ASSUME Typed, Typed', AloneParts, [Next]_vars PROVE AloneParts'
  <2>1. (Alone <=> AloneParts)'
    BY AloneByParts, PTL
  <2> QED
    BY <2>1, AloneByParts
<1>1. ASSUME NEW p \in Processes, StartUp(p) \/ Stop(p) \/ Command(p) PROVE AloneParts'
  BY <1>1, ProcessAlone
<1>2. ASSUME NEW t \in Threads, Number(t) \/ Submit(t) \/ Work(t) PROVE AloneParts'
  BY <1>2, ThreadAlone
<1>3. ASSUME NEW t \in Threads, WriteFails(t) PROVE AloneParts'
  <2>1. /\ \A u \in Threads : u # t => thread'[u] = thread[u]
        /\ thread'[t].job = thread[t].job
        /\ life[Home[t]] = "up"
    BY <1>3, WriteFailsTypes DEF Idle, AloneParts, DownIsIdle, At
  <2>2. faults' = 0 => faults = 0
    BY <1>3, WriteFailsTypes, QueueAssumption DEF Typed, TypeOK, QueueTypeOK
  <2> QED
    BY <1>3, <2>1, <2>2, WriteFailsTypes, QuietStep
<1>4. CASE UNCHANGED vars
  BY <1>4 DEF AloneParts, DownIsIdle, At, RunsWhatIsRunning, RunnersAlone, RunningIsRun,
              vars, queueVars
<1> QED
  BY <1>1, <1>2, <1>3, <1>4 DEF Next

----------------------------------------------------------------------------
(* The theorems *)

LEMMA InitRecompute == Init => RecomputeInv
<1> SUFFICES ASSUME Init PROVE RecomputeInv
  OBVIOUS
<1>1. TypeOK
  <2>1. QueueTypeOK
    BY QueueAssumption DEF Init, QueueInit, QueueTypeOK, Empty, Statuses, Lives
  <2>2. thread \in [Threads -> Places]
    BY IdlePlaced DEF Init
  <2>3. 0 \in 0 .. MaxRevision /\ 0 \in 0 .. MaxStops
    BY RecomputeAssumption
  <2> QED
    BY <2>1, <2>2, <2>3 DEF Init, TypeOK
<1>2. Typed
  BY <1>1, IdlePlaced DEF Init, Typed
<1>3. Executed
  BY DEF Init, QueueInit, Empty, Executed, PassedMeansExecuted, At, Idle
<1>4. Attributed
  <2>1. JobsAttributed /\ ThreadsAttributed
    BY DEF Init, QueueInit, Empty, JobsAttributed, HasJob, ThreadsAttributed, Idle
  <2> QED
    BY <2>1, AttributedParts
<1>5. Alone
  <2>1. AloneParts
    BY JobFacts, Homes DEF Init, QueueInit, Empty, AloneParts, DownIsIdle, At,
       RunsWhatIsRunning, RunnersAlone, RunningIsRun, Idle
  <2> QED
    BY <2>1, AloneByParts
<1> QED
  BY <1>2, <1>3, <1>4, <1>5 DEF RecomputeInv

LEMMA StepRecompute == RecomputeInv /\ [Next]_vars => RecomputeInv'
  BY StepTypes, StepExecuted, StepAttributed, StepAlone DEF RecomputeInv, Alone

\* The invariant of corrections and their jobs holds of every behaviour.
THEOREM RecomputeInvariance == Spec => []RecomputeInv
  BY InitRecompute, StepRecompute, PTL DEF Spec

\* Queue, records and threads keep their types.
THEOREM RecomputeTypeCorrect == Spec => []TypeOK
<1>1. RecomputeInv => TypeOK
  BY DEF RecomputeInv, Typed
<1> QED
  BY <1>1, RecomputeInvariance, PTL

\* run_next marks a job passed only after its handler left its record; no
\* restart, failed write or second process makes another job pass.
THEOREM PassedJobsWereExecuted == Spec => []PassedMeansExecuted
<1>1. RecomputeInv => PassedMeansExecuted
  BY DEF RecomputeInv, Executed
<1> QED
  BY <1>1, RecomputeInvariance, PTL

\* submit_matter_correction reports auto_applied only when every owner of
\* the correction has executed.
THEOREM AppliedCorrectionsWereExecuted == Spec => []AppliedMeansAllOwners
<1>1. RecomputeInv => AppliedMeansAllOwners
  BY DEF RecomputeInv, Executed, AppliedMeansAllOwners, At
<1> QED
  BY <1>1, RecomputeInvariance, PTL

\* Corrections numbered alike never mix: a job is about a stored revision
\* and the input of whoever appended it.
THEOREM JobsStayWithTheirCorrection == Spec => []JobsKeepTheirCorrection
<1>1. RecomputeInv => JobsKeepTheirCorrection
  BY DEF RecomputeInv, Attributed
<1> QED
  BY <1>1, RecomputeInvariance, PTL

\* Within a process the queue's lock gives a job to one thread, and a job
\* is left running without one only by a write that failed.
THEOREM RunnersAreUnique == Spec => []RunningHasOneRunner
<1>1. RecomputeInv => RunningHasOneRunner
  BY DEF RecomputeInv, Alone
<1> QED
  BY <1>1, RecomputeInvariance, PTL

\* Only Refresh publishes the hierarchy, and only after all its owners.
LEMMA OnlyRefreshIsFresh ==
    ASSUME ThreadsExecuted, [Next]_vars, BecomesFresh
    PROVE  RefreshIsDue
<1>1. ASSUME NEW p \in Processes, StartUp(p) \/ Stop(p) \/ Command(p)
      PROVE  RefreshIsDue
  BY <1>1 DEF StartUp, Stop, Command, Ready, recordVars, BecomesFresh
<1>2. ASSUME NEW t \in Threads, Number(t) \/ Submit(t)
      PROVE  RefreshIsDue
  BY <1>2 DEF Number, Submit, Remember, AppendRevision, AppendInput, Invalidate,
              Enqueue, recordVars, BecomesFresh
<1>3. ASSUME NEW t \in Threads, Work(t)
      PROVE  RefreshIsDue
  <2>1. At(t, "refresh")
    BY <1>3 DEF Work, Join, Take, Blocked, Publish, Record, Finish, Raise, Refresh, Return,
                recordVars, BecomesFresh
  <2> QED
    BY <2>1 DEF ThreadsExecuted, At, RefreshIsDue
<1>4. ASSUME NEW t \in Threads, WriteFails(t)
      PROVE  RefreshIsDue
  BY <1>4 DEF WriteFails, BecomesFresh
<1>5. CASE UNCHANGED vars
  BY <1>5 DEF vars, recordVars, BecomesFresh
<1> QED
  BY <1>1, <1>2, <1>3, <1>4, <1>5 DEF Next

\* A correction of which an owner failed, was paused or is still at work
\* never makes the hierarchy fresh again.
THEOREM HierarchyIsPublishedLast == Spec => HierarchyWaitsForOwners
<1>1. RecomputeInv /\ [Next]_vars => [BecomesFresh => RefreshIsDue]_vars
  BY OnlyRefreshIsFresh DEF RecomputeInv, Executed, ThreadsExecuted
<1> QED
  BY <1>1, RecomputeInvariance, PTL DEF Spec, HierarchyWaitsForOwners
=================================================================================
