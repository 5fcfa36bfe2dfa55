--------------------------- MODULE AnalysisOperations ---------------------------
(***************************************************************************)
(* Analysis work packages, their results and the owners that apply what   *)
(* was found.  A worker is a thread of some process: an AI host's import,  *)
(* the maintenance thread of a service, or a command that rebases packages *)
(* to the current contract or retires duplicate follow-ups.  Nothing       *)
(* orders the workers but the store, and every append is a transaction of  *)
(* its own, except the rebase of one package, which is one for all it      *)
(* writes.                                                                 *)
(*                                                                         *)
(* The packages are those of one source: an annotation, and the semantic   *)
(* follow-ups queued from its result.  A finding stands for the owner that *)
(* applies it: C6 admits a Matter, and C12 refuses what has no Matter yet. *)
(***************************************************************************)
EXTENDS Naturals, FiniteSets

CONSTANTS
    Workers,
    Times,       \* readings of the clock that a follow-up's plan may freeze
    Answers,     \* what an analysis that passes may have found
    Workloads,   \* what a behaviour starts from, and what its workers do
    Nobody,      \* no package, plan or answer
    PageLimit,   \* packages in a page
    MaxFaults    \* bound: crashes, failed writes and refusals of an owner

Contracts == {"former", "current"}
Annotation(c) == [kind |-> "annotation", contract |-> c, dep |-> "none", time |-> 0]
Semantic(c, d, t) == [kind |-> "semantic", contract |-> c, dep |-> d, time |-> t]
Annotations == {Annotation(c) : c \in Contracts}
Semantics == {Semantic("current", d, t) : d \in Contracts, t \in Times \cup {0}}
             \cup {Semantic("former", "former", 0)}
Packages == Annotations \cup Semantics

Owners == {"C6", "C12"}
Findings == Semantics \X Answers \X Owners
Found(p, answer) == {f \in Findings : f[1] = p /\ f[2] = answer}

Statuses == {"none", "queued", "passed", "blocked"}
Dispatched == {"not_dispatched", "blocked", "auto_applied"}
Results ==
    {r \in [status : Statuses, answer : Answers \cup {Nobody}, applied : Dispatched] :
        r.status = "passed" <=> r.answer # Nobody}
Result(status, answer) ==
    [status |-> status, answer |-> answer, applied |-> "not_dispatched"]
NoResult == Result("none", Nobody)
Queued == Result("queued", Nobody)
Plans == Times \X Answers

Jobs == {"import", "cycle", "rebase", "repair"}

ASSUME OperationsAssumption ==
    /\ 0 \notin Times
    /\ Nobody \notin Packages \cup Plans \cup Answers
    /\ \A x \in Workloads : /\ DOMAIN x.results \subseteq Packages
                            /\ \A p \in DOMAIN x.results : x.results[p] \in Results
                            /\ x.does \in [Workers -> Jobs]
                            /\ x.runner \in BOOLEAN
                            /\ x.calls \in Nat
    /\ PageLimit \in Nat \ {0}
    /\ MaxFaults \in Nat

VARIABLES
    result,      \* the current result of each stored work package
    rebased,     \* packages with a rebase receipt
    retired,     \* packages invalidated in favour of another follow-up
    plan,        \* the follow-up plan of each annotation
    relation,    \* the follow-up that each annotation is related to
    applied,     \* findings that are recorded as applied
    invalidated, \* findings whose output is recorded as superseded
    stage,       \* the owner_dispatch stage of the source's coverage
    job,         \* what each worker is doing
    does,        \* which of the jobs each worker does
    runner,      \* has the maintenance thread an AI runner
    calls,       \* bound: imports, commands and the runner's analyses still to begin
    faults,
    written,     \* history: findings whose owner wrote its output
    twice,       \* history: findings whose owner wrote it more than once
    marred       \* history: packages, and how workers met on them

stored == <<result, rebased, retired, plan, relation, applied,
            invalidated, stage>>
fixed == <<does, runner>>
bounds == <<calls, faults>>
history == <<written, twice>>
vars == <<stored, job, fixed, bounds, history, marred>>

packages == DOMAIN result
Superseded == rebased \cup retired
Dependents(a) == {p \in packages \ Superseded : p.kind = "semantic" /\ p.dep = a.contract}

(* The follow-ups of an annotation, and those that a rebase may make so. *)
Eventual(a) ==
    {p \in packages \ Superseded :
        p.kind = "semantic" /\ (p.dep = a.contract \/ a.contract = "current")}

Steps == {"idle", "run", "persist", "dispatch", "record", "reject", "mark", "follow",
          "queue", "enqueue", "relate", "next", "report", "ended", "rebase",
          "commit", "keep", "retire"}

(* package: the one at work; result: the one to dispatch; todo: the findings *)
(* to dispatch; refused: has an owner refused one; page: packages still to   *)
(* take; known: those that a rebase replaces or found replaced, or the one a  *)
(* repair keeps; outputs: what a rebase has read of the one at work; origin:  *)
(* the annotation followed up, or repaired.                                   *)
JobRecords ==
    [step : Steps, package : Packages \cup {Nobody}, result : Results,
     todo : SUBSET Findings, refused : BOOLEAN, page : SUBSET Packages,
     known : SUBSET Packages, outputs : SUBSET Findings, origin : Annotations \cup {Nobody}]
Idle == [step |-> "idle", package |-> Nobody, result |-> NoResult, todo |-> {}, refused |-> FALSE, page |-> {}, known |-> {}, outputs |-> {}, origin |-> Nobody]

TypeOK ==
    /\ packages \subseteq Packages
    /\ \A p \in packages : result[p] \in Results
    /\ rebased \cup retired \subseteq packages
    /\ plan \in [Annotations -> Plans \cup {Nobody}]
    /\ relation \in [Annotations -> packages \cup {Nobody}]
    /\ applied \subseteq written
    /\ twice \subseteq written
    /\ written \cup invalidated \subseteq Findings
    /\ stage \in {"none", "blocked", "current"}
    /\ job \in [Workers -> JobRecords]

Init ==
    \E x \in Workloads :
        /\ result = x.results
        /\ does = x.does
        /\ runner = x.runner
        /\ rebased = {}
        /\ retired = {}
        /\ plan = [a \in Annotations |-> Nobody]
        /\ relation = [a \in Annotations |-> Nobody]
        /\ applied = {f \in Findings : /\ f[1] \in DOMAIN x.results
                                       /\ x.results[f[1]].applied = "auto_applied"
                                       /\ x.results[f[1]].answer = f[2]}
        /\ invalidated = {}
        /\ stage = "none"
        /\ job = [w \in Workers |-> Idle]
        /\ calls = x.calls
        /\ faults = 0
        /\ written = applied
        /\ twice = {}
        /\ marred = {<<a, "doubled">> : a \in {b \in Annotations :
                                                \E p, q \in Eventual(b) : p # q}}

-----------------------------------------------------------------------------
(* What the pages select. *)

Passed(p) == result[p].status = "passed"
Closed(p) == Passed(p) /\ result[p].applied = "auto_applied"

PassedBefore(p) == Annotation(p.dep) \in packages /\ Passed(Annotation(p.dep))
Pending ==
    {p \in packages \ rebased : ~Closed(p) /\ (p.kind = "semantic" => PassedBefore(p))}

(* A mistake: a result that its owners refused is not selected again. *)
NeverDispatched ==
    {p \in packages \ Superseded : Passed(p) /\ result[p].applied = "not_dispatched"}
Redispatchable == {p \in packages \ Superseded : Passed(p) /\ ~Closed(p)}

(* A page holds the first packages by their identities, which are hashes. *)
First(S) == CHOOSE p \in S : TRUE
Page(S) == {T \in SUBSET S : /\ Cardinality(T) <= PageLimit
                             /\ Cardinality(T) = PageLimit \/ T = S}

-----------------------------------------------------------------------------
(* A worker takes a step of its job.  Two workers on one package are noted. *)

At(w, step) == job[w].step = step
Mine(w) == job[w].package

Marks(w, o, more) ==
    LET met == {v \in Workers \ {w} : o.package # Nobody /\ Mine(v) = o.package} IN
    /\ job' = [job EXCEPT ![w] = o]
    /\ marred' = marred \cup more \cup {<<o.package, "shared">> : v \in met}
    /\ UNCHANGED fixed
Goes(w, o) == Marks(w, o, {})
GoesTo(w, step) == Goes(w, [job[w] EXCEPT !.step = step])

(* The package is done, or an exception ends the call, and the whole cycle. *)
Turns(w) == Goes(w, IF does[w] = "cycle" THEN [Idle EXCEPT !.step = "next", !.page = job[w].page]
                    ELSE Idle)
Raises(w) == Goes(w, IF does[w] = "cycle" THEN [Idle EXCEPT !.step = "report"] ELSE Idle)

(* A new call, within the bound. *)
Calls(w, what, o, more) ==
    /\ At(w, "idle")
    /\ does[w] = what
    /\ calls > 0
    /\ calls' = calls - 1
    /\ faults' = faults
    /\ Marks(w, o, more)
Faulty ==
    /\ faults < MaxFaults
    /\ faults' = faults + 1
    /\ calls' = calls

Write(p, r) == result' = [q \in packages \cup {p} |-> IF q = p THEN r ELSE result[q]]
Store(p, r) == result' = [q \in packages \cup {p} |-> IF q \in packages THEN result[q] ELSE r]
Takes(p, r, page) ==
    [Idle EXCEPT !.step = "dispatch", !.package = p, !.result = r,
                 !.page = page,
                 !.todo = IF r.status = "passed" THEN Found(p, r.answer) ELSE {}]

-----------------------------------------------------------------------------
(* import_analysis_result, run_cycle, run. *)

(* A mistake: a current result is no reason not to analyse again. *)
BeginImportAgain(w, p) ==
    /\ p \in packages \ Superseded
    /\ Calls(w, "import", [Idle EXCEPT !.step = "run", !.package = p], {})
    /\ UNCHANGED <<stored, history>>

(* The result of an annotation that passed before is only followed up. *)
BeginImport(w, p) ==
    LET o == [Idle EXCEPT !.step = "run", !.package = p] IN
    /\ p \in packages \ Superseded
    /\ \/ ~Passed(p) /\ Calls(w, "import", o, {})
       \/ /\ Passed(p)
          /\ p.kind = "annotation"
          /\ Calls(w, "import", [o EXCEPT !.step = "follow", !.result = result[p]], {})
    /\ UNCHANGED <<stored, history>>

BeginCycle(w) ==
    /\ At(w, "idle")
    /\ does[w] = "cycle"
    /\ \E selected \in Page(IF runner THEN Pending ELSE Redispatchable) \ {{}} :
          Goes(w, [Idle EXCEPT !.step = "next", !.page = selected])
    /\ UNCHANGED <<stored, bounds, history>>

(* The result is read again before it is dispatched or analysed. *)
Take(w) ==
    LET p == First(job[w].page)
        rest == job[w].page \ {p}
        again == IF job[w].page # {} /\ runner /\ Closed(p) /\ p \notin Superseded
                 THEN {<<p, "again">>} ELSE {}
    IN
    /\ At(w, "next")
    /\ Marks(w, CASE job[w].page = {} -> Idle
                  [] job[w].page # {} /\ p \in Redispatchable -> Takes(p, result[p], rest)
                  [] job[w].page # {} /\ p \notin Redispatchable /\ runner ->
                      [Idle EXCEPT !.step = "run", !.package = p, !.page = rest]
                  [] OTHER -> [job[w] EXCEPT !.page = rest],
                again)
    /\ UNCHANGED <<stored, bounds, history>>

(* The package must be active when the analysis begins, ... *)
Run(w) ==
    /\ At(w, "run")
    /\ \/ Mine(w) \in Superseded /\ Raises(w) /\ calls' = calls
       \/ /\ Mine(w) \notin Superseded
          /\ does[w] = "cycle" => calls > 0
          /\ calls' = IF does[w] = "cycle" THEN calls - 1 ELSE calls
          /\ GoesTo(w, "persist")
    /\ UNCHANGED <<stored, faults, history>>

(* ... which takes long, and its result is appended whatever happened since. *)
Outcomes == {Result("passed", x) : x \in Answers} \cup {Result("blocked", Nobody)}
Persist(w) ==
    \E r \in Outcomes :
        /\ At(w, "persist")
        /\ Write(Mine(w), r)
        /\ Goes(w, Takes(Mine(w), r, job[w].page))
        /\ UNCHANGED <<rebased, retired, plan, relation, applied,
                       invalidated, stage, bounds, history>>

-----------------------------------------------------------------------------
(* dispatch: the owners in their order, each finding once. *)

FirstOf(S) == IF \E f \in S : f[3] = "C6" THEN CHOOSE f \in S : f[3] = "C6"
              ELSE CHOOSE f \in S : TRUE
Admitted == \E f \in written : f[3] = "C6"

(* A mistake: the record of an earlier dispatch is not consulted. *)
NotRecorded(f) == FALSE
Recorded(f) == f \in applied

Without(w, f) == [job[w] EXCEPT !.step = "dispatch", !.todo = @ \ {f}]

Invoke(w) ==
    LET f == FirstOf(job[w].todo)
        write == /\ f[3] = "C6" \/ Admitted
                 /\ written' = written \cup {f}
                 /\ twice' = IF f \in written THEN twice \cup {f} ELSE twice
                 /\ GoesTo(w, "record")
                 /\ UNCHANGED bounds
        refuse == /\ UNCHANGED history
                  /\ GoesTo(w, "reject")
                  /\ \/ f[3] = "C12" /\ ~Admitted /\ UNCHANGED bounds
                     \/ Faulty
    IN
    /\ At(w, "dispatch")
    /\ job[w].todo # {}
    /\ \/ Recorded(f) /\ Goes(w, Without(w, f)) /\ UNCHANGED <<bounds, history>>
       \/ ~Recorded(f) /\ (write \/ refuse)
    /\ UNCHANGED stored

Record(w) ==
    LET f == FirstOf(job[w].todo) IN
    /\ At(w, "record")
    /\ applied' = applied \cup {f}
    /\ Goes(w, Without(w, f))
    /\ UNCHANGED <<result, rebased, retired, plan, relation, invalidated,
                   stage, bounds, history>>

(* A refusal is the finding's current record too, in place of any other. *)
Reject(w) ==
    LET f == FirstOf(job[w].todo) IN
    /\ At(w, "reject")
    /\ applied' = applied \ {f}
    /\ Goes(w, [Without(w, f) EXCEPT !.refused = TRUE])
    /\ UNCHANGED <<result, rebased, retired, plan, relation, invalidated,
                   stage, bounds, history>>

(* An annotation that passed has no owner and no stage. *)
Succeeds(w) == job[w].result.status = "passed" /\ ~job[w].refused
Stage(w) ==
    /\ At(w, "dispatch")
    /\ job[w].todo = {}
    /\ stage' = CASE Mine(w).kind = "annotation" /\ Succeeds(w) -> stage
                  [] OTHER -> IF Succeeds(w) THEN "current" ELSE "blocked"
    /\ GoesTo(w, "mark")
    /\ UNCHANGED <<result, rebased, retired, plan, relation, applied,
                   invalidated, bounds, history>>

(* The result as it was when the dispatch began is appended again. *)
Mark(w) ==
    LET p == Mine(w) IN
    /\ At(w, "mark")
    /\ Write(p, [job[w].result EXCEPT !.applied =
                    IF Succeeds(w) THEN "auto_applied" ELSE "blocked"])
    /\ IF p.kind = "annotation" /\ Succeeds(w) THEN GoesTo(w, "follow") ELSE Turns(w)
    /\ UNCHANGED <<rebased, retired, plan, relation, applied, invalidated,
                   stage, bounds, history>>

-----------------------------------------------------------------------------
(* The semantic follow-up of an annotation. *)

(* A mistake: the plan is written anew, with the time of this call. *)
PlannedAnew(a, answer, t) == <<t, answer>>
Planned(a, answer, t) == IF plan[a] = Nobody THEN <<t, answer>> ELSE plan[a]

(* A follow-up is planned while the other version of the annotation has one. *)
Parted(a) ==
    IF \E b \in Annotations \ {a} : Dependents(b) # {} \/ plan[b] # Nobody
    THEN {<<Annotation("current"), "parted">>} ELSE {}

Follow(w) ==
    LET a == Mine(w)
        answer == job[w].result.answer
        known == Dependents(a)
    IN
    /\ At(w, "follow")
    /\ \/ /\ Cardinality(known) = 1 \/ relation[a] \in known
          /\ Turns(w)
          /\ plan' = plan
       \/ /\ Cardinality(known) > 1
          /\ relation[a] \notin known
          /\ Raises(w)
          /\ plan' = plan
       \/ \E t \in Times :
          LET frozen == Planned(a, answer, t)
              p == Semantic("current", a.contract, frozen[1])
          IN
          /\ known = {}
          /\ IF frozen[2] = answer
             THEN /\ plan' = [plan EXCEPT ![a] = frozen]
                  /\ Marks(w, [job[w] EXCEPT !.step = "queue", !.origin = a, !.package = p],
                           Parted(a))
             ELSE plan' = plan /\ Raises(w)
    /\ UNCHANGED <<result, rebased, retired, relation, applied, invalidated,
                   stage, bounds, history>>

(* A mistake: the annotation is related to a package that is not stored yet. *)
QueueOnceRelated(w) ==
    /\ At(w, "queue")
    /\ relation' = [relation EXCEPT ![job[w].origin] = Mine(w)]
    /\ GoesTo(w, "enqueue")
    /\ UNCHANGED <<result, rebased, retired, plan, applied, invalidated, stage, bounds,
                   history>>

Queue(w) ==
    LET p == Mine(w) IN
    /\ At(w, "queue")
    /\ IF p \in Superseded
       THEN result' = result /\ Raises(w)
       ELSE /\ Store(p, NoResult)
            /\ GoesTo(w, IF result'[p].status \in {"passed", "queued"} THEN "relate"
                         ELSE "enqueue")
    /\ UNCHANGED <<rebased, retired, plan, relation, applied, invalidated,
                   stage, bounds, history>>

Enqueue(w) ==
    /\ At(w, "enqueue")
    /\ Write(Mine(w), Queued)
    /\ GoesTo(w, "relate")
    /\ UNCHANGED <<rebased, retired, plan, relation, applied, invalidated,
                   stage, bounds, history>>

Relate(w) ==
    LET a == job[w].origin IN
    /\ At(w, "relate")
    /\ IF relation[a] \in {Nobody, Mine(w)}
       THEN relation' = [relation EXCEPT ![a] = Mine(w)] /\ Turns(w)
       ELSE relation' = relation /\ Raises(w)
    /\ UNCHANGED <<result, rebased, retired, plan, applied, invalidated,
                   stage, bounds, history>>

-----------------------------------------------------------------------------
(* The rebase of a page to the current contract, annotations before what   *)
(* depends on them.                                                        *)

Replaced(p, others) ==
    IF p.kind = "annotation" THEN Annotation("current")
    ELSE [p EXCEPT !.contract = "current",
                   !.dep = IF Annotation(@) \in others THEN "current" ELSE @]

BeginRebase(w) ==
    \E S \in SUBSET (packages \ rebased) :
        LET others == S \cup rebased
            stale == {p \in S : Replaced(p, others) # p}
        IN
        /\ Cardinality(S) <= PageLimit
        /\ stale # {}
        /\ Calls(w, "rebase", [Idle EXCEPT !.step = "rebase", !.page = stale,
                                    !.known = others], {})
        /\ UNCHANGED <<stored, history>>

(* A mistake: only outputs of a result that was applied altogether count. *)
OutputsOfClosed(p) == {f \in applied : f[1] = p /\ Closed(p)}
Outputs(p) == {f \in applied : f[1] = p}

InOrder(S) == IF S \cap Annotations # {} THEN S \cap Annotations ELSE S

(* What the owners applied is read before the transaction, ... *)
ReadOutputs(w) ==
    LET p == First(InOrder(job[w].page)) IN
    /\ At(w, "rebase")
    /\ Goes(w, IF job[w].page = {} THEN Idle
               ELSE [job[w] EXCEPT !.step = "commit", !.package = p, !.outputs = Outputs(p)])
    /\ UNCHANGED <<stored, bounds, history>>

(* ... which stores the replacement, the receipt and the invalidations. *)
CommitRebase(w) ==
    LET p == Mine(w)
        new == Replaced(p, job[w].known)
    IN
    /\ At(w, "commit")
    /\ IF p \in rebased
       THEN UNCHANGED <<result, rebased, invalidated>>
       ELSE /\ IF new \in packages /\ result[new] # NoResult THEN result' = result
               ELSE Write(new, Queued)
            /\ rebased' = rebased \cup {p}
            /\ invalidated' = invalidated \cup job[w].outputs
    /\ Goes(w, [job[w] EXCEPT !.step = "rebase", !.package = Nobody, !.page = @ \ {p},
                              !.outputs = {}])
    /\ UNCHANGED <<retired, plan, relation, applied, stage, bounds, history>>

-----------------------------------------------------------------------------
(* Duplicate follow-ups of an annotation are retired in favour of the one   *)
(* it is related to, or the only one that passed, unless one was applied.   *)

Repairs(v, a) == \/ At(v, "keep") /\ job[v].origin = a
                 \/ At(v, "retire") /\ \E p \in job[v].page : p.dep = a.contract
Disputed(w, a) ==
    IF \E v \in Workers \ {w} : Repairs(v, a) THEN {<<a, "disputed">>} ELSE {}

Repair(w) ==
    \E a \in Annotations \cap packages, p \in Semantics :
        LET passed == {q \in Dependents(a) : Passed(q)}
            extras == Dependents(a) \ {p}
        IN
        /\ Cardinality(Dependents(a)) > 1
        /\ p \in Dependents(a)
        /\ p = relation[a] \/ (relation[a] \notin Dependents(a) /\ passed = {p})
        /\ \A q \in extras : ~Closed(q)
        /\ Calls(w, "repair",
                 IF relation[a] = p THEN [Idle EXCEPT !.step = "retire", !.page = extras]
                 ELSE [Idle EXCEPT !.step = "keep", !.page = extras, !.known = {p}, !.origin = a],
                 Disputed(w, a))
        /\ UNCHANGED <<stored, history>>

Keep(w) ==
    /\ At(w, "keep")
    /\ \E p \in job[w].known : relation' = [relation EXCEPT ![job[w].origin] = p]
    /\ Goes(w, [Idle EXCEPT !.step = "retire", !.page = job[w].page])
    /\ UNCHANGED <<result, rebased, retired, plan, applied, invalidated, stage,
                   bounds, history>>

Retire(w) ==
    LET p == First(job[w].page) IN
    /\ At(w, "retire")
    /\ retired' = IF job[w].page = {} THEN retired ELSE retired \cup {p}
    /\ Goes(w, IF job[w].page = {} THEN Idle ELSE [job[w] EXCEPT !.page = @ \ {p}])
    /\ UNCHANGED <<result, rebased, plan, relation, applied, invalidated,
                   stage, bounds, history>>

-----------------------------------------------------------------------------
(* Faults.  The handler of the maintenance thread records that the cycle    *)
(* failed, and ends the thread when that fails as well.                     *)

Torn(w) == IF At(w, "record") THEN {<<Mine(w), "torn">>} ELSE {}
Busy(w) == ~At(w, "idle") /\ ~At(w, "ended")

Fail(w) ==
    /\ Busy(w)
    /\ Faulty
    /\ Marks(w, CASE At(w, "report") -> [Idle EXCEPT !.step = "ended"]
                  [] does[w] = "cycle" /\ ~At(w, "report") -> [Idle EXCEPT !.step = "report"]
                  [] OTHER -> Idle,
             Torn(w))
    /\ UNCHANGED <<stored, history>>

(* The process is killed and another one takes over. *)
Kill(w) ==
    /\ Busy(w)
    /\ Faulty
    /\ Marks(w, Idle, Torn(w))
    /\ UNCHANGED <<stored, history>>

Report(w) ==
    /\ At(w, "report")
    /\ Goes(w, Idle)
    /\ UNCHANGED <<stored, bounds, history>>

Continue(w) ==
    \/ Take(w)
    \/ Run(w)
    \/ Persist(w)
    \/ Invoke(w)
    \/ Record(w)
    \/ Reject(w)
    \/ Stage(w)
    \/ Mark(w)
    \/ Follow(w)
    \/ Queue(w)
    \/ Enqueue(w)
    \/ Relate(w)
    \/ ReadOutputs(w)
    \/ CommitRebase(w)
    \/ Keep(w)
    \/ Retire(w)
    \/ Report(w)

Next ==
    \E w \in Workers :
        \/ \E p \in Packages : BeginImport(w, p)
        \/ BeginCycle(w)
        \/ BeginRebase(w)
        \/ Repair(w)
        \/ Continue(w)
        \/ Fail(w)
        \/ Kill(w)

Spec == Init /\ [][Next]_vars

(* A call that began goes on, and the maintenance thread turns for ever.    *)
(* Nothing is assumed of imports and commands that did not begin.           *)
FairSpec == Spec /\ \A w \in Workers : WF_vars(Continue(w)) /\ WF_vars(BeginCycle(w))

-----------------------------------------------------------------------------
(* Properties. *)

Marred(p, reason) == <<p, reason>> \in marred

(* What is recorded as applied for a package that is still active belongs   *)
(* to its current result, however often it was imported, dispatched again   *)
(* or interrupted: no later result takes the place of one that was applied. *)
(* Two workers on one package are not ordered, and may replace it; and so   *)
(* may a cycle whose page was read before another worker closed the package. *)
AppliedFindingsAreCurrent ==
    \A f \in applied :
        \/ f[1] \in Superseded
        \/ Marred(f[1], "shared") \/ Marred(f[1], "again")
        \/ Passed(f[1]) /\ result[f[1]].answer = f[2]

(* An owner writes a finding once, although the result is dispatched until  *)
(* all its owners have applied it; it writes again only when the dispatcher *)
(* died between the owner's write and its record, or two dispatched at once. *)
OwnersWriteOnce ==
    \A f \in twice : Marred(f[1], "torn") \/ Marred(f[1], "shared")

(* The rebase of a package invalidates every output that its findings left  *)
(* in the owners, also when only some of them were applied.  An output that *)
(* a dispatch under way writes after the rebase has read them is not found. *)
RebasedOutputsAreInvalidated ==
    \A f \in applied :
        f[1] \in rebased => f \in invalidated \/ Marred(f[1], "shared")

(* An annotation has one follow-up that is not superseded, whoever imports, *)
(* replays or resumes it, and whenever; and it is not related to one that   *)
(* was retired as a duplicate.  Excepted are the duplicates that were there *)
(* before, of one version of the annotation or over both, and a follow-up   *)
(* planned while the other version has one: a rebase gives both to the      *)
(* current annotation.  Two repairs at once may retire what the other keeps. *)
OneFollowUp ==
    \A a \in Annotations :
        /\ \/ Cardinality(Dependents(a)) <= 1
           \/ Marred(a, "parted") \/ Marred(a, "doubled")
        /\ relation[a] \notin retired \/ Marred(a, "disputed")

(* Without an AI runner, passed results that their owners have not applied  *)
(* are dispatched by the maintenance thread until they have, or the packages *)
(* are superseded, or the thread has ended for good.                         *)
Due == {p \in packages \ Superseded : Passed(p) /\ ~Closed(p)}
Ended == \E w \in Workers : At(w, "ended")
Maintained == ~runner /\ \E w \in Workers : does[w] = "cycle"
PassedResultsAreApplied == Maintained /\ Due # {} ~> Due = {} \/ Ended
=================================================================================
