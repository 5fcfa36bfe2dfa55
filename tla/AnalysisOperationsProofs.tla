------------------------ MODULE AnalysisOperationsProofs ------------------------
(***************************************************************************)
(* Analysis packages and their owners, for any workers, clocks, answers    *)
(* and workloads.  What the step of a worker says of the rest of its       *)
(* record (Placed), and that two workers on one package are noted          *)
(* (Noticed), carry the three promises about owners and results.           *)
(***************************************************************************)
EXTENDS AnalysisOperations, TLAPS

NoPackage == {"idle", "next", "report", "ended", "rebase", "keep", "retire"}
OnPackage == {"run", "persist", "dispatch", "record", "reject", "mark", "follow",
              "enqueue", "relate", "commit"}
Dispatching == {"dispatch", "record", "reject"}

\* A record j, given the stored packages P and the findings W written so far.
Placed(j, P, W) ==
    /\ j.page \subseteq P
    /\ j.known \subseteq P
    /\ j.step \in NoPackage => j.package = Nobody
    /\ j.step \in OnPackage => j.package \in P
    /\ j.step = "queue" => j.package \in Semantics
    /\ j.step \in {"queue", "enqueue", "relate", "keep"} => j.origin \in Annotations
    /\ j.step = "follow" => j.package \in Annotations /\ j.result.status = "passed"
    /\ j.step \notin Dispatching => j.todo = {}
    /\ j.step \in {"record", "reject"} => j.todo # {}
    /\ j.step = "record" => FirstOf(j.todo) \in W
    /\ \A f \in j.todo : f[1] = j.package

Held == \A w \in Workers : Placed(job[w], packages, written)

Typed == TypeOK /\ Held

\* The packages that the promises except.
Shared == {p \in Packages : Marred(p, "shared")}
Broken == Shared \cup {p \in Packages : Marred(p, "torn")}
Excepted == Superseded \cup Shared \cup {p \in Packages : Marred(p, "again")}

\* Two workers on one package have been noted.
Noticed ==
    \A v, w \in Workers :
        v # w /\ job[v].package = job[w].package /\ job[w].package # Nobody
            => job[w].package \in Shared

\* A finding that was written is recorded, or its owner's caller is about to,
\* or died before it could; a refusal is of a finding that is not recorded.
Recording(f) == \E w \in Workers : At(w, "record") /\ FirstOf(job[w].todo) = f
Once ==
    /\ \A f \in twice : f[1] \in Broken
    /\ \A f \in written \ applied : f[1] \in Broken \/ Recording(f)
    /\ \A w \in Workers :
          At(w, "reject") /\ FirstOf(job[w].todo) \in applied => job[w].package \in Shared

\* A rebase about to commit knows what is applied, and nobody dispatches
\* for a package that was rebased, unless another worker was on it.
Reads(w) ==
    At(w, "commit") =>
        \A f \in applied : f[1] = job[w].package => f \in job[w].outputs \/ f[1] \in Shared
Refrains(w) ==
    job[w].step \in Dispatching \cup {"persist"} /\ job[w].package \in rebased
        => job[w].package \in Shared
Rebases ==
    /\ \A f \in applied : f[1] \in rebased => f \in invalidated \/ f[1] \in Shared
    /\ \A w \in Workers : Reads(w) /\ Refrains(w)

\* Nothing is applied for a package that is analysed or queued anew, and what
\* is dispatched is the current result.
Agrees(r, q) == r.status = q.status /\ r.answer = q.answer
Renews(w) ==
    job[w].step \in {"run", "persist", "enqueue"} =>
        \A f \in applied : f[1] = job[w].package => f[1] \in Excepted
Applies(w) ==
    job[w].step \in Dispatching \cup {"mark"} =>
        /\ job[w].result.status \in {"passed", "blocked"}
        /\ \A f \in job[w].todo : job[w].result.status = "passed" /\ f[2] = job[w].result.answer
        /\ job[w].package \in Excepted \/ Agrees(result[job[w].package], job[w].result)
Current(f) == f[1] \in Excepted \/ (Passed(f[1]) /\ result[f[1]].answer = f[2])
Currents ==
    /\ \A f \in applied : Current(f)
    /\ \A f \in written : f[1] \in packages
    /\ \A w \in Workers : Renews(w) /\ Applies(w)

OperationsInv == Typed /\ Noticed /\ Once /\ Rebases /\ Currents

----------------------------------------------------------------------------
(* Data. *)

LEMMA PackageKinds ==
    /\ \A p \in Annotations : p.kind = "annotation" /\ p.contract \in Contracts
    /\ \A p \in Semantics : p.kind = "semantic" /\ p.contract \in Contracts
    /\ Annotations \subseteq Packages /\ Semantics \subseteq Packages
    /\ \A p \in Packages : p \in Annotations \/ p \in Semantics
    /\ Nobody \notin Packages
    /\ Annotation("current") \in Annotations
    /\ \A d \in Contracts, t \in Times : Semantic("current", d, t) \in Semantics
<1>1. \A p \in Annotations : p.kind = "annotation" /\ p.contract \in Contracts
  BY DEF Annotations, Annotation
<1>2. \A d \in Contracts, t \in Times : Semantic("current", d, t) \in Semantics
  BY DEF Semantics
<1>3. \A p \in Semantics : p.kind = "semantic" /\ p.contract \in Contracts
  BY DEF Semantics, Semantic, Contracts
<1>4. Annotation("current") \in Annotations
  BY DEF Annotations, Contracts
<1> QED
  BY <1>1, <1>2, <1>3, <1>4, OperationsAssumption DEF Packages

LEMMA ReplacedType == \A p \in Packages : \A others : Replaced(p, others) \in Packages
<1> SUFFICES ASSUME NEW p \in Packages, NEW others PROVE Replaced(p, others) \in Packages
  OBVIOUS
<1>1. CASE p.kind = "annotation"
  BY <1>1, PackageKinds DEF Replaced
<1>2. CASE p.kind # "annotation"
  <2>1. p \in Semantics
    BY <1>2, PackageKinds
  <2>2. PICK c \in Contracts, d \in Contracts, t \in Times \cup {0} : p = Semantic(c, d, t)
    BY <2>1 DEF Semantics, Contracts
  <2> DEFINE e == IF Annotation(d) \in others THEN "current" ELSE d
  <2>3. Replaced(p, others) = Semantic("current", e, t)
    BY <1>2, <2>2 DEF Replaced, Semantic
  <2>4. e \in Contracts
    BY DEF Contracts
  <2> QED
    BY <2>2, <2>3, <2>4 DEF Packages, Semantics
<1> QED
  BY <1>1, <1>2

LEMMA FoundType ==
    /\ \A p, x : Found(p, x) \subseteq Findings
    /\ \A p, x : \A f \in Found(p, x) : f[1] = p /\ f[2] = x
    /\ \A f \in Findings : f[1] \in Semantics /\ f[2] \in Answers
BY DEF Found, Findings

LEMMA FirstOfIsOne == \A S : S # {} => FirstOf(S) \in S
BY DEF FirstOf

LEMMA FirstIsOne == \A S : S # {} => First(S) \in S
BY DEF First

LEMMA ResultTypes ==
    /\ NoResult \in Results /\ Queued \in Results
    /\ \A x \in Answers : Result("passed", x) \in Results
    /\ Outcomes \subseteq Results
    /\ \A r \in Outcomes : r.status \in {"passed", "blocked"}
    /\ \A r \in Results : r.status = "passed" <=> r.answer \in Answers
    /\ NoResult.status = "none" /\ Queued.status = "queued"
    /\ \A r \in Results, d \in Dispatched :
          /\ [r EXCEPT !.applied = d] \in Results
          /\ [r EXCEPT !.applied = d].status = r.status
          /\ [r EXCEPT !.applied = d].answer = r.answer
<1>1. Nobody \notin Answers
  BY OperationsAssumption
<1>2. \A x \in Answers : Result("passed", x) \in Results
  BY <1>1 DEF Result, Results, Statuses, Dispatched
<1>3. /\ Result("none", Nobody) \in Results
      /\ Result("queued", Nobody) \in Results
      /\ Result("blocked", Nobody) \in Results
  BY DEF Result, Results, Statuses, Dispatched
<1>4. \A r \in Results : r.status = "passed" <=> r.answer \in Answers
  BY <1>1 DEF Results
<1>5. \A r \in Results, d \in Dispatched :
          /\ [r EXCEPT !.applied = d] \in Results
          /\ [r EXCEPT !.applied = d].status = r.status
          /\ [r EXCEPT !.applied = d].answer = r.answer
  BY DEF Results
<1>6. \A s, x : Result(s, x).status = s
  BY DEF Result
<1> QED
  BY <1>2, <1>3, <1>4, <1>5, <1>6 DEF NoResult, Queued, Outcomes

\* Appending a result, and storing a package that may be stored already.
LEMMA WriteFacts ==
    ASSUME NEW p, NEW r, Write(p, r)
    PROVE  /\ packages' = packages \cup {p}
           /\ result'[p] = r
           /\ \A q \in packages \ {p} : result'[q] = result[q]
BY DEF Write, packages

LEMMA StoreFacts ==
    ASSUME NEW p, NEW r, Store(p, r)
    PROVE  /\ packages' = packages \cup {p}
           /\ p \notin packages => result'[p] = r
           /\ \A q \in packages : result'[q] = result[q]
BY DEF Store, packages

----------------------------------------------------------------------------
(* Steps. *)

LEMMA IdleType == Idle \in JobRecords
BY ResultTypes DEF Idle, JobRecords, Steps

LEMMA Fields ==
    ASSUME NEW j \in JobRecords
    PROVE  /\ j.step \in Steps /\ j.package \in Packages \cup {Nobody}
           /\ j.result \in Results /\ j.todo \subseteq Findings /\ j.refused \in BOOLEAN
           /\ j.page \subseteq Packages /\ j.known \subseteq Packages
           /\ j.outputs \subseteq Findings /\ j.origin \in Annotations \cup {Nobody}
BY DEF JobRecords

\* What a step of worker w does to the jobs and to the marks.
Moves(w) ==
    /\ job' \in [Workers -> JobRecords]
    /\ \A v \in Workers \ {w} : job'[v] = job[v]
    /\ marred \subseteq marred'
    /\ \A v \in Workers \ {w} :
          job'[w].package # Nobody /\ job[v].package = job'[w].package
            => <<job'[w].package, "shared">> \in marred'

\* Beside it, what it stores.
Stores(w) ==
    /\ packages \subseteq packages'
    /\ written \subseteq written'
    /\ Placed(job'[w], packages', written')

LEMMA MarksMoves ==
    ASSUME TypeOK, NEW w \in Workers, NEW o \in JobRecords, NEW more, Marks(w, o, more)
    PROVE  Moves(w) /\ job'[w] = o /\ more \subseteq marred'
<1>1. job' = [job EXCEPT ![w] = o] /\ job \in [Workers -> JobRecords]
  BY DEF Marks, TypeOK
<1>2. job'[w] = o /\ job' \in [Workers -> JobRecords]
  BY <1>1
<1>3. \A v \in Workers \ {w} : job'[v] = job[v]
  BY <1>1
<1>4. /\ marred \cup more \subseteq marred'
      /\ \A v \in Workers \ {w} : o.package # Nobody /\ job[v].package = o.package
                                    => <<o.package, "shared">> \in marred'
  BY DEF Marks, Mine
<1> QED
  BY <1>2, <1>3, <1>4 DEF Moves

LEMMA GoesMoves ==
    ASSUME TypeOK, NEW w \in Workers, NEW o \in JobRecords, Goes(w, o)
    PROVE  Moves(w) /\ job'[w] = o
BY MarksMoves DEF Goes

\* The step alone changes.
LEMMA StepMoves ==
    ASSUME TypeOK, NEW w \in Workers, NEW s \in Steps, GoesTo(w, s)
    PROVE  /\ Moves(w)
           /\ job'[w] = [job[w] EXCEPT !.step = s]
           /\ job'[w].step = s /\ job'[w].package = job[w].package
           /\ job'[w].result = job[w].result /\ job'[w].todo = job[w].todo
           /\ job'[w].page = job[w].page /\ job'[w].known = job[w].known
           /\ job'[w].outputs = job[w].outputs /\ job'[w].origin = job[w].origin
           /\ job'[w].refused = job[w].refused
<1>1. job[w] \in JobRecords
  BY DEF TypeOK
<1>2. [job[w] EXCEPT !.step = s] \in JobRecords
  BY <1>1 DEF JobRecords
<1>3. Moves(w) /\ job'[w] = [job[w] EXCEPT !.step = s]
  BY <1>2, GoesMoves DEF GoesTo
<1> QED
  BY <1>1, <1>3 DEF JobRecords

\* The package is done, or an exception ended the call: no package is held.
Leaves(w) ==
    /\ job'[w].step \in {"idle", "next", "report"}
    /\ job'[w].package = Nobody
    /\ job'[w].todo = {}
    /\ job'[w].known = {}
    /\ job'[w].page \subseteq job[w].page

LEMMA TurnsMoves ==
    ASSUME TypeOK, NEW w \in Workers, Turns(w) \/ Raises(w) \/ Goes(w, Idle)
    PROVE  Moves(w) /\ Leaves(w)
<1>1. job[w].page \subseteq Packages
  BY Fields DEF TypeOK
<1> DEFINE next == [Idle EXCEPT !.step = "next", !.page = job[w].page]
           report == [Idle EXCEPT !.step = "report"]
<1>2. next \in JobRecords /\ report \in JobRecords
  BY <1>1, IdleType DEF JobRecords, Steps
<1>3. Goes(w, Idle) \/ Goes(w, next) \/ Goes(w, report)
  BY DEF Turns, Raises
<1>4. Moves(w) /\ job'[w] \in {Idle, next, report}
  BY <1>2, <1>3, IdleType, GoesMoves
<1>5. CASE job'[w] = Idle
  BY <1>4, <1>5 DEF Leaves, Idle
<1>6. CASE job'[w] = next
  <2>1. next.step = "next" /\ next.package = Nobody /\ next.todo = {} /\ next.known = {}
    BY DEF Idle
  <2>2. next.page = job[w].page
    BY DEF Idle
  <2> QED
    BY <1>4, <1>6, <2>1, <2>2 DEF Leaves
<1>7. CASE job'[w] = report
  BY <1>4, <1>7 DEF Leaves, Idle
<1> QED
  BY <1>4, <1>5, <1>6, <1>7

LEMMA LeavesPlaced ==
    ASSUME Held, NEW w \in Workers, Leaves(w), packages \subseteq packages'
    PROVE  Placed(job'[w], packages', written')
BY DEF Held, Placed, Leaves, NoPackage, OnPackage, Dispatching

LEMMA PlacedOn ==
    ASSUME NEW j, NEW P, NEW W, NEW Q, NEW V, Placed(j, P, W), P \subseteq Q, W \subseteq V
    PROVE  Placed(j, Q, V)
BY DEF Placed

LEMMA MovesHeld ==
    ASSUME Held, NEW w \in Workers, Moves(w), Stores(w)
    PROVE  Held'
<1> SUFFICES ASSUME NEW v \in Workers PROVE Placed(job'[v], packages', written')
  BY DEF Held
<1>1. CASE v = w
  BY <1>1 DEF Stores
<1>2. CASE v # w
  <2>1. job'[v] = job[v] /\ Placed(job[v], packages, written)
    BY <1>2 DEF Moves, Held
  <2>2. packages \subseteq packages' /\ written \subseteq written'
    BY DEF Stores
  <2> QED
    BY <2>1, <2>2, PlacedOn
<1> QED
  BY <1>1, <1>2

\* The record of the worker that takes the step.
LEMMA Own ==
    ASSUME Typed, NEW w \in Workers
    PROVE  /\ job[w] \in JobRecords
           /\ Placed(job[w], packages, written)
           /\ job[w].step \in Steps /\ job[w].package \in Packages \cup {Nobody}
           /\ job[w].result \in Results /\ job[w].todo \subseteq Findings
           /\ job[w].page \subseteq Packages /\ job[w].known \subseteq Packages
           /\ job[w].outputs \subseteq Findings
           /\ job[w].origin \in Annotations \cup {Nobody}
           /\ packages \subseteq Packages /\ \A p \in packages : result[p] \in Results
<1>1. job[w] \in JobRecords
  BY DEF Typed, TypeOK
<1> QED
  BY <1>1, Fields DEF Typed, TypeOK, Held

----------------------------------------------------------------------------
(* What a step keeps that does not touch the state it is about. *)

LEMMA MarksGrow ==
    ASSUME NEW w \in Workers, Moves(w)
    PROVE  /\ \A p, x : Marred(p, x) => Marred(p, x)'
           /\ Shared \subseteq Shared' /\ Broken \subseteq Broken'
           /\ Shared \subseteq Broken
<1>1. \A p, x : Marred(p, x) => Marred(p, x)'
  BY DEF Moves, Marred
<1> QED
  BY <1>1 DEF Shared, Broken

LEMMA ExceptedGrows ==
    ASSUME NEW w \in Workers, Moves(w), rebased \subseteq rebased', retired \subseteq retired'
    PROVE  Excepted \subseteq Excepted' /\ Shared \subseteq Excepted
BY MarksGrow DEF Excepted, Superseded

LEMMA NoticedKept ==
    ASSUME Noticed, NEW w \in Workers, Moves(w)
    PROVE  Noticed'
<1> SUFFICES ASSUME NEW u \in Workers, NEW v \in Workers, u # v,
                    job'[u].package = job'[v].package, job'[v].package # Nobody
             PROVE  job'[v].package \in Shared'
  BY DEF Noticed
<1>1. job'[v] \in JobRecords /\ job'[u] \in JobRecords
  BY DEF Moves
<1>2. job'[v].package \in Packages /\ job'[u].package \in Packages
  BY <1>1, Fields
<1>3. CASE u = w
  BY <1>2, <1>3 DEF Moves, Shared, Marred
<1>4. CASE v = w
  BY <1>2, <1>4 DEF Moves, Shared, Marred
<1>5. CASE u # w /\ v # w
  BY <1>5, MarksGrow DEF Moves, Noticed
<1> QED
  BY <1>3, <1>4, <1>5

\* Two workers on one package, before the step.
LEMMA Meet ==
    ASSUME OperationsInv, NEW v \in Workers, NEW w \in Workers, v # w,
           job[v].package = job[w].package, job[w].package \in packages
    PROVE  job[w].package \in Shared
<1>1. job[w].package # Nobody
  BY OperationsAssumption DEF OperationsInv, Typed, TypeOK
<1> QED
  BY <1>1 DEF OperationsInv, Noticed

LEMMA OnceKept ==
    ASSUME Once, NEW w \in Workers, Moves(w), UNCHANGED <<applied, written, twice>>,
           job[w].step # "record", job'[w].step # "reject"
    PROVE  Once'
<1>1. \A f \in twice' : f[1] \in Broken'
  BY MarksGrow DEF Once
<1>2. ASSUME NEW f \in written \ applied
      PROVE  f[1] \in Broken' \/ Recording(f)'
  <2>1. CASE f[1] \in Broken
    BY <2>1, MarksGrow
  <2>2. CASE Recording(f)
    <3>1. PICK v \in Workers : At(v, "record") /\ FirstOf(job[v].todo) = f
      BY <2>2 DEF Recording
    <3>2. v # w /\ job'[v] = job[v]
      BY <3>1 DEF At, Moves
    <3> QED
      BY <3>1, <3>2 DEF At, Recording
  <2> QED
    BY <1>2, <2>1, <2>2 DEF Once
<1>3. ASSUME NEW v \in Workers, job'[v].step = "reject", FirstOf(job'[v].todo) \in applied
      PROVE  job'[v].package \in Shared'
  <2>1. v # w /\ job'[v] = job[v]
    BY <1>3 DEF Moves
  <2> QED
    BY <1>3, <2>1, MarksGrow DEF Once, At
<1> QED
  BY <1>1, <1>2, <1>3 DEF Once, At

\* The others, when nothing more is applied.
LEMMA OthersRead ==
    ASSUME Rebases, NEW w \in Workers, Moves(w), applied' \subseteq applied
    PROVE  \A v \in Workers \ {w} : Reads(v)'
<1> SUFFICES ASSUME NEW v \in Workers \ {w}, job[v].step = "commit",
                    NEW f \in applied, f[1] = job[v].package
             PROVE  f \in job[v].outputs \/ f[1] \in Shared'
  BY DEF Reads, At, Moves
<1> QED
  BY MarksGrow DEF Rebases, Reads, At

LEMMA OthersRefrain ==
    ASSUME Rebases, NEW w \in Workers, Moves(w), UNCHANGED rebased
    PROVE  \A v \in Workers \ {w} : Refrains(v)'
<1> SUFFICES ASSUME NEW v \in Workers \ {w}, job[v].step \in Dispatching \cup {"persist"},
                    job[v].package \in rebased
             PROVE  job[v].package \in Shared'
  BY DEF Refrains, Moves
<1> QED
  BY MarksGrow DEF Rebases, Refrains

LEMMA RebasesKept ==
    ASSUME Rebases, NEW w \in Workers, Moves(w), UNCHANGED <<rebased, invalidated>>,
           applied' \subseteq applied, Reads(w)', Refrains(w)'
    PROVE  Rebases'
<1>1. \A f \in applied' : f[1] \in rebased' => f \in invalidated' \/ f[1] \in Shared'
  BY MarksGrow DEF Rebases
<1> QED
  BY <1>1, OthersRead, OthersRefrain DEF Rebases

\* The jobs of the others, when a result is written for the worker's package
\* alone, or for one that had none.
Untouched(w, p) ==
    /\ \A q \in packages \ {p} : result'[q] = result[q]
    /\ \/ p = job[w].package /\ p \in packages
       \/ p \notin packages
       \/ p \in packages /\ result[p].status = "none"

LEMMA OthersApply ==
    ASSUME OperationsInv, NEW w \in Workers, Moves(w),
           rebased \subseteq rebased', retired \subseteq retired',
           NEW p, Untouched(w, p)
    PROVE  \A v \in Workers \ {w} : Applies(v)'
<1> SUFFICES ASSUME NEW v \in Workers \ {w}, job[v].step \in Dispatching \cup {"mark"}
             PROVE  /\ job[v].result.status \in {"passed", "blocked"}
                    /\ \A f \in job[v].todo : job[v].result.status = "passed"
                                              /\ f[2] = job[v].result.answer
                    /\ \/ job[v].package \in Excepted'
                       \/ Agrees(result'[job[v].package], job[v].result)
  BY DEF Applies, Agrees, Moves
<1>1. /\ job[v].result.status \in {"passed", "blocked"}
      /\ \A f \in job[v].todo : job[v].result.status = "passed" /\ f[2] = job[v].result.answer
      /\ job[v].package \in Excepted \/ Agrees(result[job[v].package], job[v].result)
  BY DEF OperationsInv, Currents, Applies
<1>2. job[v].package \in packages
  BY DEF OperationsInv, Typed, Held, Placed, OnPackage, Dispatching
<1>3. CASE job[v].package # p
  BY <1>1, <1>2, <1>3, ExceptedGrows DEF Agrees, Untouched
<1>4. CASE job[v].package = p /\ p = job[w].package
  <2>1. p \in Shared
    BY <1>2, <1>4, Meet
  <2> QED
    BY <1>1, <1>4, <2>1, ExceptedGrows
<1>5. CASE job[v].package = p /\ result[p].status = "none"
  <2>1. p \in Excepted
    BY <1>1, <1>5 DEF Agrees
  <2> QED
    BY <1>1, <1>5, <2>1, ExceptedGrows
<1> QED
  BY <1>2, <1>3, <1>4, <1>5 DEF Untouched

LEMMA OthersRenew ==
    ASSUME Currents, NEW w \in Workers, Moves(w), applied' \subseteq applied,
           rebased \subseteq rebased', retired \subseteq retired'
    PROVE  \A v \in Workers \ {w} : Renews(v)'
<1> SUFFICES ASSUME NEW v \in Workers \ {w}, job[v].step \in {"run", "persist", "enqueue"},
                    NEW f \in applied, f[1] = job[v].package
             PROVE  f[1] \in Excepted'
  BY DEF Renews, Moves
<1> QED
  BY ExceptedGrows DEF Currents, Renews

\* When no result is written.
LEMMA CurrentsKept ==
    ASSUME OperationsInv, NEW w \in Workers, Moves(w), UNCHANGED result,
           applied' \subseteq applied, \A f \in written' \ written : f[1] \in packages,
           rebased \subseteq rebased', retired \subseteq retired',
           Renews(w)', Applies(w)'
    PROVE  Currents'
<1> USE DEF OperationsInv
<1>1. \A f \in applied' : Current(f)'
  BY ExceptedGrows DEF Currents, Current, Passed
<1>2. \A f \in written' : f[1] \in packages'
  BY DEF Currents, packages
<1>3. \A v \in Workers \ {w} : Renews(v)'
  BY OthersRenew
<1>4. \A v \in Workers \ {w} : Applies(v)'
  BY OthersApply, OperationsAssumption DEF Untouched, Typed, TypeOK
<1> QED
  BY <1>1, <1>2, <1>3, <1>4 DEF Currents

\* A step that writes no result and applies nothing.
LEMMA KeptStep ==
    ASSUME OperationsInv, NEW w \in Workers, Moves(w), job[w].step # "record",
           job'[w].step # "reject", UNCHANGED <<applied, invalidated, result, rebased, written, twice>>,
           retired \subseteq retired', Reads(w)', Refrains(w)', Renews(w)', Applies(w)'
    PROVE  Once' /\ Rebases' /\ Currents'
<1>1. Once'
  BY OnceKept DEF OperationsInv
<1>2. Rebases'
  BY RebasesKept DEF OperationsInv
<1>3. Currents'
  BY CurrentsKept
<1> QED
  BY <1>1, <1>2, <1>3

\* A step that goes where nothing is analysed, dispatched or committed.
Calm(w) == job'[w].step \in (NoPackage \cup {"follow", "queue", "relate"})

LEMMA CalmRecord ==
    ASSUME NEW w \in Workers, Calm(w)
    PROVE  /\ job'[w].step # "reject"
           /\ Reads(w)' /\ Refrains(w)' /\ Renews(w)' /\ Applies(w)'
<1>1. job'[w].step \notin (Dispatching \cup {"run", "persist", "enqueue", "mark", "commit"})
  BY DEF Calm, NoPackage, Dispatching
<1> QED
  BY <1>1 DEF Reads, Refrains, Renews, Applies, At, Dispatching

LEMMA Whole ==
    ASSUME OperationsInv, NEW w \in Workers, Moves(w), Stores(w), TypeOK',
           Once', Rebases', Currents'
    PROVE  OperationsInv'
BY MovesHeld, NoticedKept DEF OperationsInv, Typed

LEMMA QuietWhole ==
    ASSUME OperationsInv, NEW w \in Workers, Moves(w), Stores(w), TypeOK', Calm(w),
           job[w].step # "record", retired \subseteq retired',
           UNCHANGED <<applied, invalidated, result, rebased, written, twice>>
    PROVE  OperationsInv'
BY KeptStep, CalmRecord, Whole

\* A step that keeps what is stored but for results.
LEMMA TypesKept ==
    ASSUME TypeOK, NEW w \in Workers, Moves(w), packages \subseteq packages',
           packages' \subseteq Packages, \A p \in packages' : result'[p] \in Results,
           UNCHANGED <<rebased, retired, plan, relation, applied, invalidated, stage,
                       written, twice>>
    PROVE  TypeOK'
<1>1. relation \in [Annotations -> packages' \cup {Nobody}]
  BY DEF TypeOK
<1> QED
  BY <1>1 DEF TypeOK, Moves

LEMMA NothingStored ==
    ASSUME Typed, NEW w \in Workers, Moves(w), UNCHANGED <<stored, history>>
    PROVE  /\ TypeOK' /\ packages' = packages /\ packages \subseteq packages'
           /\ UNCHANGED <<applied, invalidated, result, rebased, retired, written, twice>>
<1>1. packages' = packages
  BY DEF stored, packages
<1>2. \A p \in packages' : result'[p] \in Results
  BY <1>1 DEF stored, Typed, TypeOK
<1>3. packages' \subseteq Packages
  BY <1>1 DEF Typed, TypeOK
<1> QED
  BY <1>1, <1>2, <1>3, TypesKept DEF stored, history, Typed

\* The package is done, or an exception ends the call.
LEMMA LeavesStores ==
    ASSUME Typed, NEW w \in Workers, Leaves(w), packages \subseteq packages',
           written \subseteq written'
    PROVE  Stores(w) /\ Calm(w)
BY LeavesPlaced DEF Typed, Stores, Leaves, Calm, NoPackage

----------------------------------------------------------------------------
(* The steps, one by one: what begins, ... *)

LEMMA BeginImportStep ==
    ASSUME OperationsInv, NEW w \in Workers, NEW p \in Packages, BeginImport(w, p)
    PROVE  OperationsInv'
<1> DEFINE o == [Idle EXCEPT !.step = "run", !.package = p]
           q == [o EXCEPT !.step = "follow", !.result = result[p]]
<1>1. p \in packages /\ p \notin Superseded /\ job[w].step = "idle" /\ Typed
  BY DEF BeginImport, Calls, At, OperationsInv
<1>2. result[p] \in Results
  BY <1>1 DEF Typed, TypeOK
<1>3. UNCHANGED <<stored, history>>
  BY DEF BeginImport
<1>4. CASE ~Passed(p) /\ Calls(w, "import", o, {})
  <2>1. o \in JobRecords /\ o.step = "run" /\ o.package = p /\ o.todo = {} /\ o.page = {}
        /\ o.known = {}
    BY IdleType DEF JobRecords, Steps, Idle
  <2>2. Moves(w) /\ job'[w] = o
    BY <1>1, <1>4, <2>1, MarksMoves DEF Calls, Typed
  <2>3. TypeOK' /\ UNCHANGED <<applied, invalidated, result, rebased, retired, written, twice>>
        /\ packages' = packages
    BY <1>1, <1>3, <2>2, NothingStored
  <2>4. Stores(w)
    BY <1>1, <2>1, <2>2, <2>3 DEF Stores, Placed, NoPackage, OnPackage, Dispatching
  <2>5. Reads(w)' /\ Refrains(w)' /\ Applies(w)'
    BY <2>1, <2>2 DEF Reads, Refrains, Applies, At, Dispatching
  <2>6. \A f \in applied : f[1] = p => f[1] \in Excepted
    BY <1>4 DEF OperationsInv, Currents, Current
  <2>7. Renews(w)'
    BY <2>1, <2>2, <2>3, <2>6, ExceptedGrows DEF Renews
  <2> QED
    BY <1>1, <2>1, <2>2, <2>3, <2>4, <2>5, <2>7, KeptStep, Whole
<1>5. CASE Passed(p) /\ p.kind = "annotation" /\ Calls(w, "import", q, {})
  <2>1. q \in JobRecords /\ q.step = "follow" /\ q.package = p /\ q.todo = {} /\ q.page = {}
        /\ q.known = {} /\ q.result = result[p]
    BY <1>2, IdleType DEF JobRecords, Steps, Idle
  <2>2. Moves(w) /\ job'[w] = q
    BY <1>1, <1>5, <2>1, MarksMoves DEF Calls, Typed
  <2>3. TypeOK' /\ UNCHANGED <<applied, invalidated, result, rebased, retired, written, twice>>
        /\ packages' = packages
    BY <1>1, <1>3, <2>2, NothingStored
  <2>4. p \in Annotations /\ result[p].status = "passed"
    BY <1>5, PackageKinds DEF Passed
  <2>5. Stores(w)
    BY <1>1, <2>1, <2>2, <2>3, <2>4 DEF Stores, Placed, NoPackage, OnPackage, Dispatching
  <2>6. Calm(w)
    BY <2>1, <2>2 DEF Calm
  <2> QED
    BY <1>1, <2>2, <2>3, <2>5, <2>6, QuietWhole
<1> QED
  BY <1>4, <1>5 DEF BeginImport

\* A step that keeps what is stored, to a record that holds no package.
LEMMA RestsStep ==
    ASSUME OperationsInv, NEW w \in Workers, NEW o \in JobRecords, NEW more,
           Marks(w, o, more), UNCHANGED <<stored, history>>, job[w].step # "record",
           o.step \in NoPackage, o.package = Nobody, o.todo = {},
           o.page \subseteq packages, o.known \subseteq packages,
           o.step = "keep" => o.origin \in Annotations
    PROVE  OperationsInv'
<1>1. Typed
  BY DEF OperationsInv
<1>2. Moves(w) /\ job'[w] = o
  BY <1>1, MarksMoves DEF Typed
<1>3. TypeOK' /\ UNCHANGED <<applied, invalidated, result, rebased, retired, written, twice>>
      /\ packages' = packages
  BY <1>1, <1>2, NothingStored
<1>4. Stores(w)
  BY <1>2, <1>3 DEF Stores, Placed, NoPackage, OnPackage, Dispatching
<1>5. Calm(w)
  BY <1>2 DEF Calm
<1> QED
  BY <1>2, <1>3, <1>4, <1>5, QuietWhole

LEMMA BeginCycleStep ==
    ASSUME OperationsInv, NEW w \in Workers, BeginCycle(w)
    PROVE  OperationsInv'
<1>1. PICK S \in Page(IF runner THEN Pending ELSE Redispatchable) :
          Goes(w, [Idle EXCEPT !.step = "next", !.page = S])
  BY DEF BeginCycle
<1> DEFINE o == [Idle EXCEPT !.step = "next", !.page = S]
<1>2. S \subseteq packages /\ packages \subseteq Packages
  BY <1>1 DEF Page, Pending, Redispatchable, OperationsInv, Typed, TypeOK
<1>3. o \in JobRecords /\ o.step = "next" /\ o.package = Nobody /\ o.todo = {} /\ o.page = S
      /\ o.known = {}
  BY <1>2, IdleType DEF JobRecords, Steps, Idle
<1>4. job[w].step = "idle" /\ UNCHANGED <<stored, history>>
  BY DEF BeginCycle, At
<1> QED
  BY <1>1, <1>2, <1>3, <1>4, RestsStep DEF NoPackage, Goes

LEMMA BeginRebaseStep ==
    ASSUME OperationsInv, NEW w \in Workers, BeginRebase(w)
    PROVE  OperationsInv'
<1>1. PICK S \in SUBSET (packages \ rebased) :
          LET others == S \cup rebased
              stale == {p \in S : Replaced(p, others) # p}
          IN Calls(w, "rebase", [Idle EXCEPT !.step = "rebase", !.page = stale,
                                             !.known = others], {})
             /\ UNCHANGED <<stored, history>>
  BY DEF BeginRebase
<1> DEFINE others == S \cup rebased
           stale == {p \in S : Replaced(p, others) # p}
           o == [Idle EXCEPT !.step = "rebase", !.page = stale, !.known = others]
<1>2. stale \subseteq packages /\ others \subseteq packages /\ packages \subseteq Packages
  BY DEF OperationsInv, Typed, TypeOK
<1> HIDE DEF stale, others
<1>3. o \in JobRecords /\ o.step = "rebase" /\ o.package = Nobody /\ o.todo = {}
      /\ o.page = stale /\ o.known = others
  BY <1>2, IdleType DEF JobRecords, Steps, Idle
<1>4. job[w].step = "idle" /\ Marks(w, o, {}) /\ UNCHANGED <<stored, history>>
  BY <1>1 DEF Calls, At, others, stale
<1> QED
  BY <1>2, <1>3, <1>4, RestsStep DEF NoPackage

LEMMA RepairStep ==
    ASSUME OperationsInv, NEW w \in Workers, Repair(w)
    PROVE  OperationsInv'
<1>1. PICK a \in Annotations, p \in Semantics :
          LET extras == Dependents(a) \ {p}
              keep == [Idle EXCEPT !.step = "keep", !.page = extras, !.known = {p}, !.origin = a]
              retire == [Idle EXCEPT !.step = "retire", !.page = extras]
          IN /\ p \in Dependents(a)
             /\ \/ relation[a] = p /\ Calls(w, "repair", retire, Disputed(w, a))
                \/ relation[a] # p /\ Calls(w, "repair", keep, Disputed(w, a))
             /\ UNCHANGED <<stored, history>>
  BY Zenon DEF Repair
<1> DEFINE extras == Dependents(a) \ {p}
           keep == [Idle EXCEPT !.step = "keep", !.page = extras, !.known = {p}, !.origin = a]
           retire == [Idle EXCEPT !.step = "retire", !.page = extras]
<1>2. extras \subseteq packages /\ p \in packages /\ packages \subseteq Packages
  BY <1>1 DEF OperationsInv, Typed, TypeOK, Dependents
<1>3. /\ job[w].step = "idle" /\ UNCHANGED <<stored, history>>
      /\ Marks(w, retire, Disputed(w, a)) \/ Marks(w, keep, Disputed(w, a))
  BY <1>1 DEF Calls, At
<1> HIDE DEF extras
<1>4. /\ keep \in JobRecords /\ keep.step = "keep" /\ keep.package = Nobody
      /\ keep.todo = {} /\ keep.page = extras /\ keep.known = {p} /\ keep.origin = a
  BY <1>2, IdleType DEF JobRecords, Steps, Idle
<1>5. /\ retire \in JobRecords /\ retire.step = "retire" /\ retire.package = Nobody
      /\ retire.todo = {} /\ retire.page = extras /\ retire.known = {}
  BY <1>2, IdleType DEF JobRecords, Steps, Idle
<1> HIDE DEF keep, retire
<1> QED
  BY <1>2, <1>3, <1>4, <1>5, RestsStep DEF NoPackage

LEMMA ReportStep ==
    ASSUME OperationsInv, NEW w \in Workers, Report(w)
    PROVE  OperationsInv'
<1>1. Idle.step = "idle" /\ Idle.package = Nobody /\ Idle.todo = {} /\ Idle.page = {}
      /\ Idle.known = {}
  BY DEF Idle
<1>2. job[w].step # "record" /\ Goes(w, Idle) /\ UNCHANGED <<stored, history>>
  BY DEF Report, At
<1> QED
  BY <1>1, <1>2, IdleType, RestsStep DEF NoPackage, Goes

----------------------------------------------------------------------------
(* ... what a cycle does with its page, ... *)

LEMMA TakesFacts ==
    ASSUME NEW p \in Packages, NEW r \in Results, NEW S \in SUBSET Packages
    PROVE  LET o == Takes(p, r, S) IN
           /\ o \in JobRecords
           /\ o.step = "dispatch" /\ o.package = p /\ o.result = r /\ o.page = S
           /\ o.known = {}
           /\ \A f \in o.todo : f[1] = p /\ r.status = "passed" /\ f[2] = r.answer
<1> DEFINE F == IF r.status = "passed" THEN Found(p, r.answer) ELSE {}
           o == [Idle EXCEPT !.step = "dispatch", !.package = p, !.result = r,
                             !.page = S, !.todo = F]
<1>1. F \subseteq Findings /\ \A f \in F : f[1] = p /\ r.status = "passed" /\ f[2] = r.answer
  BY FoundType
<1> HIDE DEF F
<1>2. o \in JobRecords /\ o.step = "dispatch" /\ o.package = p /\ o.result = r /\ o.page = S
      /\ o.known = {} /\ o.todo = F
  BY <1>1, IdleType DEF JobRecords, Steps, Idle
<1>3. Takes(p, r, S) = o
  BY DEF Takes, F
<1> QED
  BY <1>1, <1>2, <1>3

LEMMA TakeStep ==
    ASSUME OperationsInv, NEW w \in Workers, Take(w)
    PROVE  OperationsInv'
<1> DEFINE S == job[w].page
           p == First(S)
           rest == S \ {p}
           run == [Idle EXCEPT !.step = "run", !.package = p, !.page = rest]
           skip == [job[w] EXCEPT !.page = rest]
           again == IF S # {} /\ runner /\ Closed(p) /\ p \notin Superseded
                    THEN {<<p, "again">>} ELSE {}
<1>1. Typed /\ job[w].step = "next" /\ UNCHANGED <<stored, history>>
  BY DEF OperationsInv, Take, At
<1>2. job[w] \in JobRecords /\ S \subseteq packages /\ packages \subseteq Packages
      /\ job[w].package = Nobody /\ job[w].todo = {} /\ job[w].known \subseteq packages
  BY <1>1, Own DEF Placed, NoPackage, Dispatching
<1>3. S # {} => p \in packages /\ result[p] \in Results
  BY <1>1, <1>2, FirstIsOne, Own
<1>4. CASE S = {}
  <2>1. Marks(w, Idle, again)
    BY <1>4 DEF Take
  <2>2. Idle.step = "idle" /\ Idle.package = Nobody /\ Idle.todo = {} /\ Idle.page = {}
        /\ Idle.known = {}
    BY DEF Idle
  <2> QED
    BY <1>1, <2>1, <2>2, IdleType, RestsStep DEF NoPackage
<1>5. CASE S # {} /\ p \in Redispatchable
  <2> DEFINE o == Takes(p, result[p], rest)
  <2>1. Marks(w, o, again)
    BY <1>5 DEF Take
  <2>2. /\ o \in JobRecords
        /\ o.step = "dispatch" /\ o.package = p /\ o.result = result[p] /\ o.page = rest
        /\ o.known = {}
        /\ \A f \in o.todo : f[1] = p /\ result[p].status = "passed" /\ f[2] = result[p].answer
    BY <1>2, <1>3, <1>5, TakesFacts
  <2> HIDE DEF o
  <2>3. Moves(w) /\ job'[w] = o
    BY <1>1, <2>1, <2>2, MarksMoves DEF Typed
  <2>4. TypeOK' /\ UNCHANGED <<applied, invalidated, result, rebased, retired, written, twice>>
        /\ packages' = packages
    BY <1>1, <2>3, NothingStored
  <2>5. Stores(w)
    BY <1>2, <1>3, <1>5, <2>2, <2>3, <2>4 DEF Stores, Placed, NoPackage, OnPackage, Dispatching
  <2>6. Reads(w)' /\ Refrains(w)' /\ Renews(w)'
    BY <1>5, <2>2, <2>3, <2>4 DEF Reads, Refrains, Renews, At, Redispatchable, Superseded
  <2>7. Applies(w)'
    BY <1>5, <2>2, <2>3, <2>4 DEF Applies, Agrees, Redispatchable, Passed
  <2> QED
    BY <1>1, <2>2, <2>3, <2>4, <2>5, <2>6, <2>7, KeptStep, Whole
<1>6. CASE S # {} /\ p \notin Redispatchable /\ runner
  <2>1. Marks(w, run, again)
    BY <1>6 DEF Take
  <2>2. run \in JobRecords /\ run.step = "run" /\ run.package = p /\ run.todo = {}
        /\ run.page = rest /\ run.known = {}
    <3>1. p \in Packages /\ rest \subseteq Packages
      BY <1>2, <1>3, <1>6
    <3> HIDE DEF p, rest
    <3> QED
      BY <3>1, IdleType DEF JobRecords, Steps, Idle
  <2>3. Moves(w) /\ job'[w] = run /\ again \subseteq marred'
    BY <1>1, <2>1, <2>2, MarksMoves DEF Typed
  <2> HIDE DEF run
  <2>4. TypeOK' /\ UNCHANGED <<applied, invalidated, result, rebased, retired, written, twice>>
        /\ packages' = packages
    BY <1>1, <2>3, NothingStored
  <2>5. Stores(w)
    BY <1>2, <1>3, <1>6, <2>2, <2>3, <2>4 DEF Stores, Placed, NoPackage, OnPackage, Dispatching
  <2>6. Reads(w)' /\ Refrains(w)' /\ Applies(w)'
    BY <2>2, <2>3 DEF Reads, Refrains, Applies, At, Dispatching
  <2>7. Excepted \subseteq Excepted'
    BY <2>3, <2>4, ExceptedGrows
  <2>8. \A f \in applied : f[1] = p => f[1] \in Excepted'
    <3> SUFFICES ASSUME NEW f \in applied, f[1] = p, p \notin Excepted PROVE p \in Excepted'
      BY <2>7
    <3>1. Passed(p) /\ p \notin Superseded
      BY DEF OperationsInv, Currents, Current, Excepted
    <3>2. Closed(p)
      BY <1>3, <1>6, <3>1 DEF Redispatchable
    <3>3. <<p, "again">> \in marred'
      BY <1>6, <2>3, <3>1, <3>2
    <3> QED
      BY <1>2, <1>3, <1>6, <3>3 DEF Excepted, Marred
  <2>9. Renews(w)'
    BY <2>2, <2>3, <2>4, <2>8 DEF Renews
  <2> QED
    BY <1>1, <2>2, <2>3, <2>4, <2>5, <2>6, <2>9, KeptStep, Whole
<1>7. CASE S # {} /\ p \notin Redispatchable /\ ~runner
  <2>1. Marks(w, skip, again)
    BY <1>7 DEF Take
  <2>2. skip \in JobRecords /\ skip.step = "next" /\ skip.package = Nobody /\ skip.todo = {}
        /\ skip.page = rest /\ skip.known = job[w].known
    BY <1>1, <1>2 DEF JobRecords
  <2> QED
    BY <1>1, <1>2, <2>1, <2>2, RestsStep DEF NoPackage
<1> QED
  BY <1>4, <1>5, <1>6, <1>7

LEMMA RunStep ==
    ASSUME OperationsInv, NEW w \in Workers, Run(w)
    PROVE  OperationsInv'
<1>1. Typed /\ job[w].step = "run" /\ UNCHANGED <<stored, history>>
  BY DEF OperationsInv, Run, At
<1>2. CASE Raises(w)
  <2>1. Moves(w) /\ Leaves(w)
    BY <1>1, <1>2, TurnsMoves DEF Typed
  <2>2. TypeOK' /\ UNCHANGED <<applied, invalidated, result, rebased, retired, written, twice>>
        /\ packages' = packages
    BY <1>1, <2>1, NothingStored
  <2>3. Stores(w) /\ Calm(w)
    BY <1>1, <2>1, <2>2, LeavesStores
  <2> QED
    BY <1>1, <2>1, <2>2, <2>3, QuietWhole
<1>3. CASE Mine(w) \notin Superseded /\ GoesTo(w, "persist")
  <2>1. /\ Moves(w)
        /\ job'[w].step = "persist" /\ job'[w].package = job[w].package
        /\ job'[w].todo = job[w].todo /\ job'[w].page = job[w].page
        /\ job'[w].known = job[w].known
    BY <1>1, <1>3, StepMoves DEF Typed, Steps
  <2>2. TypeOK' /\ UNCHANGED <<applied, invalidated, result, rebased, retired, written, twice>>
        /\ packages' = packages
    BY <1>1, <2>1, NothingStored
  <2>3. Placed(job[w], packages, written)
    BY <1>1, Own
  <2>4. Stores(w)
    BY <1>1, <2>1, <2>2, <2>3 DEF Stores, Placed, NoPackage, OnPackage, Dispatching
  <2>5. Reads(w)' /\ Refrains(w)' /\ Applies(w)'
    BY <1>3, <2>1, <2>2 DEF Reads, Refrains, Applies, At, Dispatching, Mine, Superseded
  <2>6. Renews(w)'
    BY <1>1, <2>1, <2>2, ExceptedGrows DEF OperationsInv, Currents, Renews
  <2> QED
    BY <1>1, <2>1, <2>2, <2>4, <2>5, <2>6, KeptStep, Whole
<1> QED
  BY <1>2, <1>3 DEF Run

----------------------------------------------------------------------------
(* ... the follow-up of an annotation, a rebase and a repair, ... *)

\* The package is done: whatever was stored, but for results and findings.
LEMMA LeavesStep ==
    ASSUME OperationsInv, NEW w \in Workers, Turns(w) \/ Raises(w), job[w].step # "record",
           UNCHANGED <<result, rebased, retired, applied, invalidated, stage, written, twice>>,
           plan' \in [Annotations -> Plans \cup {Nobody}],
           relation' \in [Annotations -> packages \cup {Nobody}]
    PROVE  OperationsInv'
<1>1. Moves(w) /\ Leaves(w)
  BY TurnsMoves DEF OperationsInv, Typed
<1>2. packages' = packages
  BY DEF packages
<1>3. TypeOK'
  <2>1. packages' \subseteq Packages /\ \A p \in packages' : result'[p] \in Results
    BY <1>2 DEF OperationsInv, Typed, TypeOK
  <2>2. relation' \in [Annotations -> packages' \cup {Nobody}]
    BY <1>2
  <2>3. job' \in [Workers -> JobRecords]
    BY <1>1 DEF Moves
  <2>4. rebased' \cup retired' \subseteq packages'
    BY <1>2 DEF OperationsInv, Typed, TypeOK
  <2>5. /\ applied' \subseteq written' /\ twice' \subseteq written'
        /\ written' \cup invalidated' \subseteq Findings
        /\ stage' \in {"none", "blocked", "current"}
    BY DEF OperationsInv, Typed, TypeOK
  <2> QED
    BY <2>1, <2>2, <2>3, <2>4, <2>5 DEF TypeOK
<1>4. Stores(w) /\ Calm(w)
  BY <1>1, <1>2, LeavesStores DEF OperationsInv
<1> QED
  BY <1>1, <1>3, <1>4, QuietWhole

LEMMA FollowStep ==
    ASSUME OperationsInv, NEW w \in Workers, Follow(w)
    PROVE  OperationsInv'
<1> DEFINE a == Mine(w)
           answer == job[w].result.answer
<1>1. Typed /\ job[w].step = "follow"
      /\ UNCHANGED <<result, rebased, retired, relation, applied, invalidated, stage,
                     written, twice>>
  BY DEF OperationsInv, Follow, At, history
<1>2. /\ job[w] \in JobRecords /\ Placed(job[w], packages, written)
      /\ a \in Annotations /\ answer \in Answers
  BY <1>1, Own, ResultTypes DEF Placed, Mine
<1>3. relation' \in [Annotations -> packages \cup {Nobody}]
      /\ plan \in [Annotations -> Plans \cup {Nobody}]
  BY <1>1 DEF Typed, TypeOK
<1>4. CASE plan' = plan /\ (Turns(w) \/ Raises(w))
  BY <1>1, <1>3, <1>4, LeavesStep
<1>5. ASSUME NEW t \in Times, plan' = [plan EXCEPT ![a] = Planned(a, answer, t)],
             Marks(w, [job[w] EXCEPT !.step = "queue", !.origin = a,
                       !.package = Semantic("current", a.contract, Planned(a, answer, t)[1])],
                   Parted(a))
      PROVE  OperationsInv'
  <2> DEFINE frozen == Planned(a, answer, t)
             p == Semantic("current", a.contract, frozen[1])
             o == [job[w] EXCEPT !.step = "queue", !.origin = a, !.package = p]
  <2>1. frozen \in Plans
    BY <1>2, <1>3 DEF Planned, Plans
  <2>2. p \in Semantics
    BY <1>2, <2>1, PackageKinds DEF Plans
  <2> HIDE DEF p
  <2>3. /\ o \in JobRecords /\ o.step = "queue" /\ o.package = p /\ o.origin = a
        /\ o.todo = job[w].todo /\ o.page = job[w].page /\ o.known = job[w].known
    BY <1>2, <2>2, PackageKinds DEF JobRecords, Steps
  <2> HIDE DEF o
  <2>4. Moves(w) /\ job'[w] = o
    BY <1>1, <1>5, <2>3, MarksMoves DEF Typed, o, p
  <2>5. packages' = packages
    BY <1>1 DEF packages
  <2>6. plan' \in [Annotations -> Plans \cup {Nobody}]
    BY <1>3, <1>5, <2>1
  <2>7. TypeOK'
    BY <1>1, <2>4, <2>5, <2>6 DEF Typed, TypeOK, Moves
  <2>8. Stores(w)
    BY <1>1, <1>2, <2>2, <2>3, <2>4, <2>5 DEF Stores, Placed, NoPackage, OnPackage, Dispatching
  <2>9. Calm(w)
    BY <2>3, <2>4 DEF Calm
  <2> QED
    BY <1>1, <2>4, <2>7, <2>8, <2>9, QuietWhole
<1>6. \/ plan' = plan /\ (Turns(w) \/ Raises(w))
      \/ \E t \in Times :
            /\ plan' = [plan EXCEPT ![a] = Planned(a, answer, t)]
            /\ Marks(w, [job[w] EXCEPT !.step = "queue", !.origin = a,
                         !.package = Semantic("current", a.contract,
                                              Planned(a, answer, t)[1])],
                     Parted(a))
  BY Zenon DEF Follow
<1> QED
  BY <1>4, <1>5, <1>6

LEMMA RelateStep ==
    ASSUME OperationsInv, NEW w \in Workers, Relate(w)
    PROVE  OperationsInv'
<1>1. Typed /\ job[w].step = "relate"
      /\ UNCHANGED <<result, rebased, retired, plan, applied, invalidated, stage,
                     written, twice>>
  BY DEF OperationsInv, Relate, At, history
<1>2. Mine(w) \in packages
  BY <1>1, Own DEF Placed, OnPackage, Mine
<1>3. relation' \in [Annotations -> packages \cup {Nobody}]
  BY <1>1, <1>2 DEF Relate, Typed, TypeOK
<1>4. plan' \in [Annotations -> Plans \cup {Nobody}]
  BY <1>1 DEF Typed, TypeOK
<1> QED
  BY <1>1, <1>3, <1>4, LeavesStep DEF Relate

LEMMA ReadOutputsStep ==
    ASSUME OperationsInv, NEW w \in Workers, ReadOutputs(w)
    PROVE  OperationsInv'
<1> DEFINE p == First(InOrder(job[w].page))
           o == [job[w] EXCEPT !.step = "commit", !.package = p, !.outputs = Outputs(p)]
<1>1. Typed /\ job[w].step = "rebase" /\ UNCHANGED <<stored, history>>
  BY DEF OperationsInv, ReadOutputs, At
<1>2. CASE job[w].page = {}
  <2>1. Goes(w, Idle)
    BY <1>2 DEF ReadOutputs
  <2>2. Idle.step = "idle" /\ Idle.package = Nobody /\ Idle.todo = {} /\ Idle.page = {}
        /\ Idle.known = {}
    BY DEF Idle
  <2> QED
    BY <1>1, <2>1, <2>2, IdleType, RestsStep DEF NoPackage, Goes
<1>3. CASE job[w].page # {}
  <2>1. job[w] \in JobRecords /\ Placed(job[w], packages, written) /\ packages \subseteq Packages
    BY <1>1, Own
  <2>2. p \in job[w].page /\ p \in packages
    BY <1>3, <2>1, FirstIsOne DEF InOrder, Placed
  <2>3. Outputs(p) \subseteq Findings
    BY <1>1 DEF Outputs, Typed, TypeOK
  <2>4. Goes(w, o)
    BY <1>3 DEF ReadOutputs
  <2> HIDE DEF p
  <2>5. /\ o \in JobRecords /\ o.step = "commit" /\ o.package = p /\ o.outputs = Outputs(p)
        /\ o.todo = job[w].todo /\ o.page = job[w].page /\ o.known = job[w].known
    BY <2>1, <2>2, <2>3 DEF JobRecords, Steps
  <2> HIDE DEF o
  <2>6. Moves(w) /\ job'[w] = o
    BY <1>1, <2>4, <2>5, GoesMoves DEF Typed
  <2>7. TypeOK' /\ UNCHANGED <<applied, invalidated, result, rebased, retired, written, twice>>
        /\ packages' = packages
    BY <1>1, <2>6, NothingStored
  <2>8. Stores(w)
    BY <1>1, <2>1, <2>2, <2>5, <2>6, <2>7 DEF Stores, Placed, NoPackage, OnPackage, Dispatching
  <2>9. Reads(w)' /\ Refrains(w)' /\ Renews(w)' /\ Applies(w)'
    BY <2>5, <2>6, <2>7 DEF Reads, Refrains, Renews, Applies, At, Dispatching, Outputs
  <2> QED
    BY <1>1, <2>5, <2>6, <2>7, <2>8, <2>9, KeptStep, Whole
<1> QED
  BY <1>2, <1>3

LEMMA KeepStep ==
    ASSUME OperationsInv, NEW w \in Workers, Keep(w)
    PROVE  OperationsInv'
<1> DEFINE o == [Idle EXCEPT !.step = "retire", !.page = job[w].page]
<1>1. Typed /\ job[w].step = "keep" /\ Goes(w, o)
      /\ UNCHANGED <<result, rebased, retired, plan, applied, invalidated, stage,
                     written, twice>>
  BY DEF OperationsInv, Keep, At, history
<1>2. job[w].page \subseteq packages /\ job[w].known \subseteq packages /\ packages \subseteq Packages
  BY <1>1, Own DEF Placed
<1>3. o \in JobRecords /\ o.step = "retire" /\ o.package = Nobody /\ o.todo = {}
      /\ o.page = job[w].page /\ o.known = {}
  BY <1>2, IdleType DEF JobRecords, Steps, Idle
<1> HIDE DEF o
<1>4. Moves(w) /\ job'[w] = o
  BY <1>1, <1>3, GoesMoves DEF Typed
<1>5. packages' = packages
  BY <1>1 DEF packages
<1>6. relation' \in [Annotations -> packages \cup {Nobody}]
  BY <1>1, <1>2 DEF Keep, Typed, TypeOK
<1>7. TypeOK'
  BY <1>1, <1>4, <1>5, <1>6 DEF Typed, TypeOK, Moves
<1>8. Stores(w)
  BY <1>1, <1>2, <1>3, <1>4, <1>5 DEF Stores, Placed, NoPackage, OnPackage, Dispatching
<1>9. Calm(w)
  BY <1>3, <1>4 DEF Calm, NoPackage
<1> QED
  BY <1>1, <1>4, <1>7, <1>8, <1>9, QuietWhole

LEMMA RetireStep ==
    ASSUME OperationsInv, NEW w \in Workers, Retire(w)
    PROVE  OperationsInv'
<1> DEFINE S == job[w].page
           p == First(S)
           o == IF S = {} THEN Idle ELSE [job[w] EXCEPT !.page = @ \ {p}]
<1>1. Typed /\ job[w].step = "retire" /\ Goes(w, o)
      /\ retired' = (IF S = {} THEN retired ELSE retired \cup {p})
      /\ UNCHANGED <<result, rebased, relation, plan, applied, invalidated, stage,
                     written, twice>>
  BY DEF OperationsInv, Retire, At, history
<1>2. job[w] \in JobRecords /\ Placed(job[w], packages, written) /\ packages \subseteq Packages
  BY <1>1, Own
<1>3. o \in JobRecords /\ o.step \in NoPackage \ {"keep"} /\ o.package = Nobody /\ o.todo = {}
      /\ o.page \subseteq packages /\ o.known \subseteq packages
  <2>1. Idle.step = "idle" /\ Idle.package = Nobody /\ Idle.todo = {} /\ Idle.page = {}
        /\ Idle.known = {}
    BY DEF Idle
  <2>2. CASE S = {}
    BY <2>1, <2>2, IdleType DEF NoPackage
  <2>3. CASE S # {}
    BY <1>1, <1>2, <2>3 DEF JobRecords, Placed, NoPackage, Dispatching
  <2> QED
    BY <2>2, <2>3
<1>4. S # {} => p \in packages
  BY <1>2, FirstIsOne DEF Placed
<1> HIDE DEF o
<1>5. Moves(w) /\ job'[w] = o
  BY <1>1, <1>3, GoesMoves DEF Typed
<1>6. packages' = packages
  BY <1>1 DEF packages
<1>7. retired' \subseteq packages /\ retired \subseteq retired'
  BY <1>1, <1>4 DEF Typed, TypeOK
<1>8. TypeOK'
  BY <1>1, <1>5, <1>6, <1>7 DEF Typed, TypeOK, Moves
<1>9. Stores(w)
  BY <1>1, <1>3, <1>5, <1>6 DEF Stores, Placed, NoPackage, OnPackage, Dispatching
<1>10. Calm(w)
  BY <1>3, <1>5 DEF Calm
<1> QED
  BY <1>1, <1>5, <1>7, <1>8, <1>9, <1>10, QuietWhole

----------------------------------------------------------------------------
(* ... an analysis and the dispatch of its findings, ... *)

\* A step that writes the result of the worker's package, or of another one
\* that has none, and applies nothing.
LEMMA WroteStep ==
    ASSUME OperationsInv, NEW w \in Workers, Moves(w), Stores(w), TypeOK', NEW p,
           Untouched(w, p), packages \subseteq packages',
           job[w].step # "record", job'[w].step # "reject",
           UNCHANGED <<applied, invalidated, rebased, retired, written, twice>>,
           \A f \in applied : f[1] = p => Current(f)',
           Reads(w)', Refrains(w)', Renews(w)', Applies(w)'
    PROVE  OperationsInv'
<1>1. Once' /\ Rebases'
  BY OnceKept, RebasesKept DEF OperationsInv
<1>2. \A f \in applied' : Current(f)'
  <2> SUFFICES ASSUME NEW f \in applied, f[1] # p PROVE Current(f)'
    OBVIOUS
  <2>1. Current(f) /\ f[1] \in packages
    BY DEF OperationsInv, Currents, Typed, TypeOK
  <2>2. result'[f[1]] = result[f[1]]
    BY <2>1 DEF Untouched
  <2> QED
    BY <2>1, <2>2, ExceptedGrows DEF Current, Passed
<1>3. \A f \in written' : f[1] \in packages'
  BY DEF OperationsInv, Currents
<1>4. \A v \in Workers \ {w} : Renews(v)' /\ Applies(v)'
  BY OthersRenew, OthersApply DEF OperationsInv
<1>5. Currents'
  BY <1>2, <1>3, <1>4 DEF Currents
<1> QED
  BY <1>1, <1>5, Whole

LEMMA PersistStep ==
    ASSUME OperationsInv, NEW w \in Workers, Persist(w)
    PROVE  OperationsInv'
<1> DEFINE p == Mine(w)
<1>1. PICK r \in Outcomes : Write(p, r) /\ Goes(w, Takes(p, r, job[w].page))
  BY DEF Persist
<1> DEFINE o == Takes(p, r, job[w].page)
<1>2. Typed /\ job[w].step = "persist"
      /\ UNCHANGED <<rebased, retired, plan, relation, applied, invalidated, stage,
                     written, twice>>
  BY DEF OperationsInv, Persist, At, history
<1>3. p \in packages /\ packages \subseteq Packages /\ job[w].page \subseteq packages
  BY <1>2, Own DEF Placed, OnPackage, Mine
<1>4. r \in Results /\ r.status \in {"passed", "blocked"}
  BY ResultTypes
<1>5. /\ o \in JobRecords
      /\ o.step = "dispatch" /\ o.package = p /\ o.result = r /\ o.page = job[w].page
      /\ o.known = {}
      /\ \A f \in o.todo : f[1] = p /\ r.status = "passed" /\ f[2] = r.answer
  BY <1>3, <1>4, TakesFacts
<1> HIDE DEF o
<1>6. Moves(w) /\ job'[w] = o
  BY <1>1, <1>2, <1>5, GoesMoves DEF Typed, o
<1>7. /\ packages' = packages /\ result'[p] = r
      /\ \A q \in packages \ {p} : result'[q] = result[q]
  BY <1>1, <1>3, WriteFacts
<1>8. TypeOK'
  BY <1>2, <1>3, <1>4, <1>6, <1>7, TypesKept DEF Typed, TypeOK
<1>9. Stores(w)
  BY <1>2, <1>3, <1>5, <1>6, <1>7 DEF Stores, Placed, NoPackage, OnPackage, Dispatching
<1>10. \A f \in applied : f[1] = p => f[1] \in Excepted'
  BY <1>2, <1>6, ExceptedGrows DEF OperationsInv, Currents, Renews, Mine
<1>11. Reads(w)' /\ Renews(w)' /\ Applies(w)'
  BY <1>4, <1>5, <1>6, <1>7 DEF Reads, Renews, Applies, Agrees, At
<1>12. Refrains(w)'
  BY <1>2, <1>5, <1>6, MarksGrow DEF OperationsInv, Rebases, Refrains, Mine
<1>13. Untouched(w, p)
  BY <1>3, <1>7 DEF Untouched, Mine
<1> QED
  BY <1>2, <1>5, <1>6, <1>7, <1>8, <1>9, <1>10, <1>11, <1>12, <1>13, WroteStep DEF Current

\* What a worker that dispatches knows of the finding it is at.
LEMMA AtFinding ==
    ASSUME OperationsInv, NEW w \in Workers, job[w].step \in Dispatching, job[w].todo # {}
    PROVE  LET f == FirstOf(job[w].todo) IN
           /\ f \in job[w].todo /\ f \in Findings
           /\ f[1] = job[w].package /\ f[1] \in packages /\ f[1] \in Packages
           /\ job[w].result.status = "passed" /\ f[2] = job[w].result.answer
<1> DEFINE f == FirstOf(job[w].todo)
<1>1. f \in job[w].todo
  BY FirstOfIsOne
<1>2. Placed(job[w], packages, written) /\ job[w].todo \subseteq Findings
      /\ packages \subseteq Packages
  BY Own DEF OperationsInv
<1> QED
  BY <1>1, <1>2 DEF OperationsInv, Currents, Applies, Placed, OnPackage, Dispatching

\* The finding is left behind, recorded or not.
LEMMA WithoutMoves ==
    ASSUME OperationsInv, NEW w \in Workers, job[w].step \in Dispatching, NEW f,
           Goes(w, Without(w, f)) \/ Goes(w, [Without(w, f) EXCEPT !.refused = TRUE])
    PROVE  /\ Moves(w)
           /\ job'[w].step = "dispatch" /\ job'[w].package = job[w].package
           /\ job'[w].result = job[w].result
           /\ job'[w].todo \subseteq job[w].todo
           /\ Renews(w)' /\ Reads(w)'
           /\ packages' = packages /\ written' = written => Stores(w)
<1> DEFINE o == Without(w, f)
           q == [o EXCEPT !.refused = TRUE]
<1>1. Typed /\ job[w] \in JobRecords /\ Placed(job[w], packages, written)
  BY Own DEF OperationsInv
<1>2. /\ o \in JobRecords /\ o.step = "dispatch" /\ o.package = job[w].package
      /\ o.result = job[w].result /\ o.todo \subseteq job[w].todo
      /\ o.page = job[w].page /\ o.known = job[w].known
  BY <1>1 DEF Without, JobRecords, Steps
<1> HIDE DEF o
<1>3. /\ q \in JobRecords /\ q.step = "dispatch" /\ q.package = job[w].package
      /\ q.result = job[w].result /\ q.todo \subseteq job[w].todo
      /\ q.page = job[w].page /\ q.known = job[w].known
  BY <1>2 DEF JobRecords
<1> HIDE DEF q
<1>4. Moves(w) /\ (job'[w] = o \/ job'[w] = q)
  BY <1>1, <1>2, <1>3, GoesMoves DEF Typed, o, q
<1>5. /\ job'[w].step = "dispatch" /\ job'[w].package = job[w].package
      /\ job'[w].result = job[w].result /\ job'[w].todo \subseteq job[w].todo
      /\ job'[w].page = job[w].page /\ job'[w].known = job[w].known
  BY <1>2, <1>3, <1>4
<1>6. Renews(w)' /\ Reads(w)'
  BY <1>5 DEF Renews, Reads, At
<1>7. packages' = packages /\ written' = written => Stores(w)
  BY <1>1, <1>5 DEF Stores, Placed, NoPackage, OnPackage, Dispatching
<1> QED
  BY <1>4, <1>5, <1>6, <1>7

\* What is dispatched stays what it was, when no result is written.
LEMMA StillDispatching ==
    ASSUME OperationsInv, NEW w \in Workers, Moves(w), job[w].step \in Dispatching,
           job'[w].step \in Dispatching \cup {"mark"}, job'[w].package = job[w].package,
           job'[w].result = job[w].result, job'[w].todo \subseteq job[w].todo,
           UNCHANGED <<result, rebased, retired>>
    PROVE  Refrains(w)' /\ Applies(w)'
<1>1. Refrains(w)'
  BY MarksGrow DEF OperationsInv, Rebases, Refrains
<1>2. Applies(w)'
  BY ExceptedGrows DEF OperationsInv, Currents, Applies, Agrees
<1> QED
  BY <1>1, <1>2

LEMMA InvokeStep ==
    ASSUME OperationsInv, NEW w \in Workers, Invoke(w)
    PROVE  OperationsInv'
<1> DEFINE f == FirstOf(job[w].todo)
<1>1. Typed /\ job[w].step = "dispatch" /\ job[w].todo # {}
      /\ UNCHANGED <<result, rebased, retired, plan, relation, applied, invalidated, stage>>
  BY DEF OperationsInv, Invoke, At, stored
<1>2. /\ f \in job[w].todo /\ f \in Findings
      /\ f[1] = job[w].package /\ f[1] \in packages /\ f[1] \in Packages
  BY <1>1, AtFinding DEF Dispatching
<1>3. packages' = packages
  BY <1>1 DEF packages
<1>4. CASE Recorded(f) /\ Goes(w, Without(w, f)) /\ UNCHANGED history
  <2>1. UNCHANGED <<stored, history, written, twice>>
    BY <1>1, <1>4 DEF stored, history
  <2>2. /\ Moves(w) /\ job'[w].step = "dispatch" /\ job'[w].package = job[w].package
        /\ job'[w].result = job[w].result /\ job'[w].todo \subseteq job[w].todo
        /\ Renews(w)' /\ Reads(w)' /\ Stores(w)
    BY <1>1, <1>3, <1>4, <2>1, WithoutMoves DEF Dispatching
  <2>3. Refrains(w)' /\ Applies(w)'
    BY <1>1, <2>2, StillDispatching DEF Dispatching
  <2>4. TypeOK'
    BY <1>1, <2>1, <2>2, NothingStored
  <2> QED
    BY <1>1, <2>1, <2>2, <2>3, <2>4, KeptStep, Whole
<1>5. ASSUME NEW s \in {"record", "reject"}, GoesTo(w, s)
      PROVE  /\ Moves(w) /\ job'[w].step = s /\ job'[w].package = job[w].package
             /\ job'[w].todo = job[w].todo
             /\ Renews(w)' /\ Reads(w)' /\ Refrains(w)' /\ Applies(w)'
             /\ written \subseteq written' /\ (s = "record" => f \in written') => Stores(w)
  <2>1. Placed(job[w], packages, written)
    BY <1>1, Own
  <2>2. /\ Moves(w) /\ job'[w].step = s /\ job'[w].package = job[w].package
        /\ job'[w].result = job[w].result /\ job'[w].todo = job[w].todo
        /\ job'[w].page = job[w].page /\ job'[w].known = job[w].known
    BY <1>1, <1>5, StepMoves DEF Typed, Steps
  <2>3. Refrains(w)' /\ Applies(w)'
    BY <1>1, <2>2, StillDispatching DEF Dispatching
  <2>4. Renews(w)' /\ Reads(w)'
    BY <2>2 DEF Renews, Reads, At
  <2>5. written \subseteq written' /\ (s = "record" => f \in written') => Stores(w)
    BY <1>1, <1>3, <2>1, <2>2 DEF Stores, Placed, NoPackage, OnPackage, Dispatching
  <2> QED
    BY <2>2, <2>3, <2>4, <2>5
<1>6. CASE ~Recorded(f) /\ GoesTo(w, "reject") /\ UNCHANGED history
  <2>1. UNCHANGED <<stored, history, written, twice>>
    BY <1>1, <1>6 DEF stored, history
  <2>2. /\ Moves(w) /\ job'[w].step = "reject" /\ job'[w].package = job[w].package
        /\ job'[w].todo = job[w].todo /\ Stores(w)
        /\ Renews(w)' /\ Reads(w)' /\ Refrains(w)' /\ Applies(w)'
    BY <1>5, <1>6, <2>1
  <2>3. TypeOK'
    BY <1>1, <2>1, <2>2, NothingStored
  <2>4. Rebases' /\ Currents'
    BY <1>1, <2>1, <2>2, RebasesKept, CurrentsKept DEF OperationsInv
  <2>5. \A g \in twice' : g[1] \in Broken'
    BY <2>1, <2>2, MarksGrow DEF OperationsInv, Once
  <2>6. ASSUME NEW g \in written \ applied PROVE g[1] \in Broken' \/ Recording(g)'
    <3>1. CASE g[1] \in Broken
      BY <3>1, <2>2, MarksGrow
    <3>2. CASE Recording(g)
      <4>1. PICK v \in Workers : At(v, "record") /\ FirstOf(job[v].todo) = g
        BY <3>2 DEF Recording
      <4>2. job'[v] = job[v]
        BY <1>1, <2>2, <4>1 DEF At, Moves
      <4> QED
        BY <4>1, <4>2 DEF Recording, At
    <3> QED
      BY <2>6, <3>1, <3>2 DEF OperationsInv, Once
  <2>7. ASSUME NEW v \in Workers, job'[v].step = "reject", FirstOf(job'[v].todo) \in applied
        PROVE  job'[v].package \in Shared'
    <3>1. v # w
      BY <1>6, <2>2, <2>7 DEF Recorded
    <3> QED
      BY <2>2, <2>7, <3>1, MarksGrow DEF OperationsInv, Once, Moves, At
  <2>8. Once'
    BY <1>1, <2>1, <2>5, <2>6, <2>7 DEF Once, At
  <2> QED
    BY <2>2, <2>3, <2>4, <2>8, Whole
<1>7. CASE /\ ~Recorded(f) /\ GoesTo(w, "record") /\ written' = written \cup {f}
           /\ twice' = IF f \in written THEN twice \cup {f} ELSE twice
  <2>1. /\ Moves(w) /\ job'[w].step = "record" /\ job'[w].package = job[w].package
        /\ job'[w].todo = job[w].todo /\ Stores(w)
        /\ Renews(w)' /\ Reads(w)' /\ Refrains(w)' /\ Applies(w)'
    BY <1>5, <1>7
  <2>2. TypeOK'
    <3>1. /\ applied' \subseteq written' /\ twice' \subseteq written'
          /\ written' \cup invalidated' \subseteq Findings
      BY <1>1, <1>2, <1>7 DEF Typed, TypeOK
    <3> QED
      BY <1>1, <1>3, <2>1, <3>1 DEF Typed, TypeOK, Moves
  <2>3. Rebases'
    BY <1>1, <2>1, RebasesKept DEF OperationsInv
  <2>4. Currents'
    BY <1>1, <1>2, <1>7, <2>1, CurrentsKept
  <2>5. \A g \in twice' : g[1] \in Broken'
    <3>1. f \in written => f[1] \in Broken
      <4>1. CASE Recording(f)
        <5>1. PICK v \in Workers : At(v, "record") /\ FirstOf(job[v].todo) = f
          BY <4>1 DEF Recording
        <5>2. job[v].todo # {}
          BY <1>1, <5>1, Own DEF At, Placed
        <5>3. f[1] = job[v].package
          BY <5>1, <5>2, AtFinding DEF At, Dispatching
        <5>4. f[1] \in Shared
          BY <1>1, <1>2, <5>1, <5>3, Meet DEF At
        <5> QED
          BY <5>4 DEF Broken
      <4> QED
        BY <1>7, <4>1 DEF OperationsInv, Once, Recorded
    <3> QED
      BY <1>7, <2>1, <3>1, MarksGrow DEF OperationsInv, Once
  <2>6. ASSUME NEW g \in written' \ applied PROVE g[1] \in Broken' \/ Recording(g)'
    <3>1. CASE g = f
      BY <2>1, <3>1 DEF Recording, At
    <3>2. CASE g \in written /\ g[1] \in Broken
      BY <3>2, <2>1, MarksGrow
    <3>3. CASE g \in written /\ Recording(g)
      <4>1. PICK v \in Workers : At(v, "record") /\ FirstOf(job[v].todo) = g
        BY <3>3 DEF Recording
      <4>2. job'[v] = job[v]
        BY <1>1, <2>1, <4>1 DEF At, Moves
      <4> QED
        BY <4>1, <4>2 DEF Recording, At
    <3> QED
      BY <1>7, <2>6, <3>1, <3>2, <3>3 DEF OperationsInv, Once
  <2>7. ASSUME NEW v \in Workers, job'[v].step = "reject", FirstOf(job'[v].todo) \in applied
        PROVE  job'[v].package \in Shared'
    <3>1. v # w
      BY <2>1, <2>7
    <3> QED
      BY <2>1, <2>7, <3>1, MarksGrow DEF OperationsInv, Once, Moves, At
  <2>8. Once'
    BY <1>1, <2>5, <2>6, <2>7 DEF Once, At
  <2> QED
    BY <2>1, <2>2, <2>3, <2>4, <2>8, Whole
<1> QED
  BY <1>4, <1>6, <1>7 DEF Invoke

LEMMA RecordStep ==
    ASSUME OperationsInv, NEW w \in Workers, Record(w)
    PROVE  OperationsInv'
<1>0. PICK f : f = FirstOf(job[w].todo)
  OBVIOUS
<1>1. Typed /\ job[w].step = "record" /\ applied' = applied \cup {f} /\ Goes(w, Without(w, f))
      /\ UNCHANGED <<result, rebased, retired, plan, relation, invalidated, stage,
                     written, twice>>
  BY <1>0 DEF OperationsInv, Record, At, history
<1>2. job[w].todo # {} /\ f \in written
  BY <1>0, <1>1, Own DEF Placed
<1>3. /\ f[1] = job[w].package /\ f[1] \in packages /\ f[1] \in Packages
      /\ job[w].result.status = "passed" /\ f[2] = job[w].result.answer
  BY <1>0, <1>1, <1>2, AtFinding DEF Dispatching
<1>4. packages' = packages
  BY <1>1 DEF packages
<1>5. /\ Moves(w) /\ job'[w].step = "dispatch" /\ job'[w].package = job[w].package
      /\ job'[w].result = job[w].result /\ job'[w].todo \subseteq job[w].todo
      /\ Renews(w)' /\ Reads(w)' /\ Stores(w)
  BY <1>1, <1>4, WithoutMoves DEF Dispatching
<1>6. Refrains(w)' /\ Applies(w)'
  BY <1>1, <1>5, StillDispatching DEF Dispatching
<1>7. TypeOK'
  BY <1>1, <1>2, <1>4, <1>5 DEF Typed, TypeOK, Moves
<1>8. \A v \in Workers \ {w} : job'[v] = job[v]
  BY <1>5 DEF Moves
<1>9. Shared \subseteq Shared' /\ Broken \subseteq Broken' /\ Excepted \subseteq Excepted'
      /\ Shared \subseteq Excepted
  BY <1>1, <1>5, MarksGrow, ExceptedGrows
<1>10. \A v \in Workers \ {w} : job[v].package = f[1] => f[1] \in Shared
  BY <1>3, Meet
<1>11. Once'
  <2>1. \A g \in twice' : g[1] \in Broken'
    BY <1>1, <1>9 DEF OperationsInv, Once
  <2>2. ASSUME NEW g \in written \ applied' PROVE g[1] \in Broken' \/ Recording(g)'
    <3>1. CASE g[1] \in Broken
      BY <3>1, <1>9
    <3>2. CASE Recording(g)
      <4>1. PICK v \in Workers : At(v, "record") /\ FirstOf(job[v].todo) = g
        BY <3>2 DEF Recording
      <4>2. v # w
        BY <1>0, <1>1, <2>2, <4>1
      <4> QED
        BY <1>8, <4>1, <4>2 DEF Recording, At
    <3> QED
      BY <1>1, <2>2, <3>1, <3>2 DEF OperationsInv, Once
  <2>3. ASSUME NEW v \in Workers, job'[v].step = "reject", FirstOf(job'[v].todo) \in applied'
        PROVE  job'[v].package \in Shared'
    <3>1. v # w /\ job'[v] = job[v]
      BY <1>5, <1>8, <2>3
    <3>2. CASE FirstOf(job[v].todo) = f
      <4>1. job[v].todo # {}
        BY <1>1, <2>3, <3>1, Own DEF Placed
      <4>2. f[1] = job[v].package
        BY <2>3, <3>1, <3>2, <4>1, AtFinding DEF Dispatching
      <4> QED
        BY <1>9, <1>10, <3>1, <4>2
    <3>3. CASE FirstOf(job[v].todo) \in applied
      BY <1>9, <2>3, <3>1, <3>3 DEF OperationsInv, Once, At
    <3> QED
      BY <1>1, <2>3, <3>1, <3>2, <3>3
  <2> QED
    BY <1>1, <2>1, <2>2, <2>3 DEF Once, At
<1>12. Rebases'
  <2>1. f[1] \in rebased => f[1] \in Shared
    BY <1>1, <1>3 DEF OperationsInv, Rebases, Refrains, Dispatching
  <2>2. \A g \in applied' : g[1] \in rebased' => g \in invalidated' \/ g[1] \in Shared'
    BY <1>1, <1>9, <2>1 DEF OperationsInv, Rebases
  <2>3. ASSUME NEW v \in Workers \ {w} PROVE Reads(v)'
    BY <1>1, <1>8, <1>9, <1>10, <2>3 DEF OperationsInv, Rebases, Reads, At
  <2>4. \A v \in Workers \ {w} : Refrains(v)'
    BY <1>1, <1>5, OthersRefrain DEF OperationsInv
  <2> QED
    BY <1>5, <1>6, <2>2, <2>3, <2>4 DEF Rebases
<1>13. Currents'
  <2>1. Current(f)'
    <3>1. job[w].package \in Excepted \/ Agrees(result[job[w].package], job[w].result)
      BY <1>1 DEF OperationsInv, Currents, Applies, Dispatching
    <3> QED
      BY <1>1, <1>3, <1>9, <3>1 DEF Current, Agrees, Passed
  <2>2. \A g \in applied' : Current(g)'
    BY <1>1, <1>9, <2>1 DEF OperationsInv, Currents, Current, Passed
  <2>3. \A g \in written' : g[1] \in packages'
    BY <1>1, <1>4 DEF OperationsInv, Currents
  <2>4. ASSUME NEW v \in Workers \ {w} PROVE Renews(v)'
    BY <1>1, <1>8, <1>9, <1>10, <2>4 DEF OperationsInv, Currents, Renews
  <2>5. \A v \in Workers \ {w} : Applies(v)'
    BY <1>1, <1>3, <1>5, OthersApply DEF Untouched
  <2> QED
    BY <1>5, <1>6, <2>2, <2>3, <2>4, <2>5 DEF Currents
<1> QED
  BY <1>5, <1>7, <1>11, <1>12, <1>13, Whole

LEMMA RejectStep ==
    ASSUME OperationsInv, NEW w \in Workers, Reject(w)
    PROVE  OperationsInv'
<1> DEFINE f == FirstOf(job[w].todo)
<1>1. Typed /\ job[w].step = "reject" /\ applied' = applied \ {f}
      /\ Goes(w, [Without(w, f) EXCEPT !.refused = TRUE])
      /\ UNCHANGED <<result, rebased, retired, plan, relation, invalidated, stage,
                     written, twice>>
  BY DEF OperationsInv, Reject, At, history
<1>2. job[w].todo # {}
  BY <1>1, Own DEF Placed
<1>3. f[1] = job[w].package
  BY <1>1, <1>2, AtFinding DEF Dispatching
<1>4. packages' = packages
  BY <1>1 DEF packages
<1>5. /\ Moves(w) /\ job'[w].step = "dispatch" /\ job'[w].package = job[w].package
      /\ job'[w].result = job[w].result /\ job'[w].todo \subseteq job[w].todo
      /\ Renews(w)' /\ Reads(w)' /\ Stores(w)
  BY <1>1, <1>4, WithoutMoves DEF Dispatching
<1>6. Refrains(w)' /\ Applies(w)'
  BY <1>1, <1>5, StillDispatching DEF Dispatching
<1>7. TypeOK'
  BY <1>1, <1>4, <1>5 DEF Typed, TypeOK, Moves
<1>8. Rebases' /\ Currents'
  BY <1>1, <1>5, <1>6, RebasesKept, CurrentsKept DEF OperationsInv
<1>9. Shared \subseteq Shared' /\ Broken \subseteq Broken' /\ Shared \subseteq Broken
  BY <1>5, MarksGrow
<1>10. \A g \in twice' : g[1] \in Broken'
  BY <1>1, <1>9 DEF OperationsInv, Once
<1>11. ASSUME NEW g \in written \ applied' PROVE g[1] \in Broken' \/ Recording(g)'
  <2>1. CASE g[1] \in Broken
    BY <1>9, <2>1
  <2>2. CASE Recording(g)
    <3>1. PICK v \in Workers : At(v, "record") /\ FirstOf(job[v].todo) = g
      BY <2>2 DEF Recording
    <3>2. job'[v] = job[v]
      BY <1>1, <1>5, <3>1 DEF At, Moves
    <3> QED
      BY <3>1, <3>2 DEF Recording, At
  <2>3. CASE g = f /\ f \in applied
    BY <1>1, <1>3, <1>9, <2>3 DEF OperationsInv, Once, At
  <2> QED
    BY <1>1, <1>11, <2>1, <2>2, <2>3 DEF OperationsInv, Once
<1>12. ASSUME NEW v \in Workers, job'[v].step = "reject", FirstOf(job'[v].todo) \in applied'
       PROVE  job'[v].package \in Shared'
  <2>1. v # w /\ job'[v] = job[v]
    BY <1>5, <1>12 DEF Moves
  <2> QED
    BY <1>1, <1>9, <1>12, <2>1 DEF OperationsInv, Once, At
<1>13. Once'
  BY <1>1, <1>10, <1>11, <1>12 DEF Once, At
<1> QED
  BY <1>5, <1>7, <1>8, <1>13, Whole

LEMMA StageStep ==
    ASSUME OperationsInv, NEW w \in Workers, Stage(w)
    PROVE  OperationsInv'
<1>1. Typed /\ job[w].step = "dispatch" /\ job[w].todo = {} /\ GoesTo(w, "mark")
      /\ UNCHANGED <<result, rebased, retired, plan, relation, applied, invalidated,
                     written, twice>>
  BY DEF OperationsInv, Stage, At, history
<1>2. stage' \in {"none", "blocked", "current"}
  BY <1>1 DEF Stage, Typed, TypeOK
<1>3. packages' = packages
  BY <1>1 DEF packages
<1>4. /\ Moves(w) /\ job'[w].step = "mark" /\ job'[w].package = job[w].package
      /\ job'[w].result = job[w].result /\ job'[w].todo = job[w].todo
      /\ job'[w].page = job[w].page /\ job'[w].known = job[w].known
  BY <1>1, StepMoves DEF Typed, Steps
<1>5. Placed(job[w], packages, written)
  BY <1>1, Own
<1>6. Stores(w)
  BY <1>1, <1>3, <1>4, <1>5 DEF Stores, Placed, NoPackage, OnPackage, Dispatching
<1>7. Refrains(w)' /\ Applies(w)'
  BY <1>1, <1>4, StillDispatching DEF Dispatching
<1>8. Renews(w)' /\ Reads(w)'
  BY <1>4 DEF Renews, Reads, At
<1>9. TypeOK'
  BY <1>1, <1>2, <1>3, <1>4 DEF Typed, TypeOK, Moves
<1> QED
  BY <1>1, <1>4, <1>6, <1>7, <1>8, <1>9, KeptStep, Whole

LEMMA MarkStep ==
    ASSUME OperationsInv, NEW w \in Workers, Mark(w)
    PROVE  OperationsInv'
<1> DEFINE p == Mine(w)
           d == IF Succeeds(w) THEN "auto_applied" ELSE "blocked"
           r == [job[w].result EXCEPT !.applied = d]
<1>1. Typed /\ job[w].step = "mark" /\ Write(p, r)
      /\ UNCHANGED <<rebased, retired, plan, relation, applied, invalidated, stage,
                     written, twice>>
  BY DEF OperationsInv, Mark, At, history
<1>2. p \in packages /\ packages \subseteq Packages /\ job[w].result \in Results
      /\ Placed(job[w], packages, written)
  BY <1>1, Own DEF Placed, OnPackage, Mine
<1>3. d \in Dispatched
  BY DEF Dispatched
<1>4. r \in Results /\ r.status = job[w].result.status /\ r.answer = job[w].result.answer
  BY <1>2, <1>3, ResultTypes
<1> HIDE DEF r
<1>5. /\ packages' = packages /\ result'[p] = r
      /\ \A q \in packages \ {p} : result'[q] = result[q]
  BY <1>1, <1>2, WriteFacts
<1>6. Moves(w) /\ Stores(w) /\ Calm(w)
  <2>1. CASE p.kind = "annotation" /\ Succeeds(w) /\ GoesTo(w, "follow")
    <3>1. /\ Moves(w) /\ job'[w].step = "follow" /\ job'[w].package = job[w].package
          /\ job'[w].result = job[w].result /\ job'[w].todo = job[w].todo
          /\ job'[w].page = job[w].page /\ job'[w].known = job[w].known
      BY <1>1, <2>1, StepMoves DEF Typed, Steps
    <3>2. p \in Annotations /\ job[w].result.status = "passed"
      BY <1>2, <2>1, PackageKinds DEF Succeeds
    <3>3. Stores(w)
      BY <1>1, <1>2, <1>5, <3>1, <3>2
         DEF Stores, Placed, NoPackage, OnPackage, Dispatching, Mine
    <3> QED
      BY <3>1, <3>3 DEF Calm
  <2>2. CASE Turns(w)
    <3>1. Moves(w) /\ Leaves(w)
      BY <1>1, <2>2, TurnsMoves DEF Typed
    <3> QED
      BY <1>1, <1>5, <3>1, LeavesStores
  <2> QED
    BY <2>1, <2>2 DEF Mark
<1>7. TypeOK'
  BY <1>1, <1>2, <1>4, <1>5, <1>6, TypesKept DEF Typed, TypeOK
<1>8. ASSUME NEW f \in applied, f[1] = p PROVE Current(f)'
  <2>1. Current(f) /\ (p \in Excepted \/ Agrees(result[p], job[w].result))
    BY <1>1 DEF OperationsInv, Currents, Applies, Mine
  <2> QED
    BY <1>1, <1>4, <1>5, <1>6, <1>8, <2>1, ExceptedGrows DEF Current, Agrees, Passed
<1>9. Untouched(w, p)
  BY <1>2, <1>5 DEF Untouched, Mine
<1> QED
  BY <1>1, <1>5, <1>6, <1>7, <1>8, <1>9, CalmRecord, WroteStep

----------------------------------------------------------------------------
(* ... the queue of a follow-up, ... *)

LEMMA QueueStep ==
    ASSUME OperationsInv, NEW w \in Workers, Queue(w)
    PROVE  OperationsInv'
<1> DEFINE p == Mine(w)
<1>1. Typed /\ job[w].step = "queue"
      /\ UNCHANGED <<rebased, retired, plan, relation, applied, invalidated, stage,
                     written, twice>>
  BY DEF OperationsInv, Queue, At, history
<1>2. CASE result' = result /\ Raises(w)
  <2>1. plan' \in [Annotations -> Plans \cup {Nobody}]
        /\ relation' \in [Annotations -> packages \cup {Nobody}]
    BY <1>1 DEF Typed, TypeOK
  <2> QED
    BY <1>1, <1>2, <2>1, LeavesStep
<1>3. ASSUME Store(p, NoResult), p \notin Superseded,
             NEW s \in {"relate", "enqueue"}, GoesTo(w, s),
             s = "enqueue" => result'[p].status # "passed"
      PROVE  OperationsInv'
  <2>1. Placed(job[w], packages, written) /\ p \in Packages /\ packages \subseteq Packages
        /\ \A q \in packages : result[q] \in Results
    BY <1>1, Own, PackageKinds DEF Placed, Mine
  <2>2. /\ packages' = packages \cup {p}
        /\ p \notin packages => result'[p] = NoResult
        /\ \A q \in packages : result'[q] = result[q]
    BY <1>3, StoreFacts
  <2>3. /\ Moves(w) /\ job'[w].step = s /\ job'[w].package = p
        /\ job'[w].todo = job[w].todo /\ job'[w].origin = job[w].origin
        /\ job'[w].page = job[w].page /\ job'[w].known = job[w].known
    BY <1>1, <1>3, StepMoves DEF Typed, Steps, Mine
  <2>4. \A q \in packages' : result'[q] \in Results
    BY <2>1, <2>2, ResultTypes
  <2>5. TypeOK'
    BY <1>1, <2>1, <2>2, <2>3, <2>4, TypesKept DEF Typed
  <2>6. Stores(w)
    BY <1>1, <2>1, <2>2, <2>3 DEF Stores, Placed, NoPackage, OnPackage, Dispatching
  <2>7. Reads(w)' /\ Refrains(w)' /\ Applies(w)'
    BY <2>3 DEF Reads, Refrains, Applies, At, Dispatching
  <2>8. \A f \in applied : Current(f) /\ f[1] \in packages
    BY <1>1 DEF OperationsInv, Currents, TypeOK, Typed
  <2>9. Excepted \subseteq Excepted'
    BY <1>1, <2>3, ExceptedGrows
  <2>10. \A f \in applied : f[1] = p => Current(f)'
    BY <2>2, <2>8, <2>9 DEF Current, Passed
  <2>11. Renews(w)'
    <3> SUFFICES ASSUME s = "enqueue", NEW f \in applied, f[1] = p PROVE f[1] \in Excepted'
      BY <1>1, <2>3 DEF Renews
    <3> QED
      BY <1>3, <2>2, <2>8, <2>9 DEF Current, Passed
  <2>12. Untouched(w, p)
    BY <2>2 DEF Untouched, Mine
  <2> QED
    BY <1>1, <2>2, <2>3, <2>5, <2>6, <2>7, <2>10, <2>11, <2>12, WroteStep
<1>4. CASE p \notin Superseded
  <2> DEFINE s == IF result'[p].status \in {"passed", "queued"} THEN "relate" ELSE "enqueue"
  <2>1. Store(p, NoResult) /\ GoesTo(w, s)
    BY <1>4 DEF Queue
  <2>2. s \in {"relate", "enqueue"} /\ (s = "enqueue" => result'[p].status # "passed")
    OBVIOUS
  <2> HIDE DEF s
  <2> QED
    BY <1>3, <1>4, <2>1, <2>2
<1> QED
  BY <1>2, <1>4 DEF Queue

LEMMA EnqueueStep ==
    ASSUME OperationsInv, NEW w \in Workers, Enqueue(w)
    PROVE  OperationsInv'
<1> DEFINE p == Mine(w)
<1>1. Typed /\ job[w].step = "enqueue" /\ Write(p, Queued) /\ GoesTo(w, "relate")
      /\ UNCHANGED <<rebased, retired, plan, relation, applied, invalidated, stage,
                     written, twice>>
  BY DEF OperationsInv, Enqueue, At, history
<1>2. p \in packages /\ packages \subseteq Packages /\ Placed(job[w], packages, written)
  BY <1>1, Own DEF Placed, OnPackage, Mine
<1>3. /\ packages' = packages /\ result'[p] = Queued
      /\ \A q \in packages \ {p} : result'[q] = result[q]
  BY <1>1, <1>2, WriteFacts
<1>4. /\ Moves(w) /\ job'[w].step = "relate" /\ job'[w].package = p
      /\ job'[w].todo = job[w].todo /\ job'[w].origin = job[w].origin
      /\ job'[w].page = job[w].page /\ job'[w].known = job[w].known
  BY <1>1, StepMoves DEF Typed, Steps, Mine
<1>5. TypeOK'
  BY <1>1, <1>2, <1>3, <1>4, TypesKept, ResultTypes DEF Typed, TypeOK
<1>6. Stores(w)
  BY <1>1, <1>2, <1>3, <1>4 DEF Stores, Placed, NoPackage, OnPackage, Dispatching
<1>7. Calm(w)
  BY <1>4 DEF Calm
<1>8. \A f \in applied : f[1] = p => Current(f)'
  BY <1>1, <1>4, ExceptedGrows DEF OperationsInv, Currents, Renews, Current, Mine
<1>9. Untouched(w, p)
  BY <1>2, <1>3 DEF Untouched, Mine
<1> QED
  BY <1>1, <1>3, <1>4, <1>5, <1>6, <1>7, <1>8, <1>9, CalmRecord, WroteStep

----------------------------------------------------------------------------
(* ... the transaction of a rebase, and what ends a call before its time.   *)

LEMMA CommitRebaseStep ==
    ASSUME OperationsInv, NEW w \in Workers, CommitRebase(w)
    PROVE  OperationsInv'
<1> DEFINE p == Mine(w)
           new == Replaced(p, job[w].known)
           o == [job[w] EXCEPT !.step = "rebase", !.package = Nobody, !.page = @ \ {p},
                               !.outputs = {}]
<1>1. Typed /\ job[w].step = "commit" /\ Goes(w, o)
      /\ UNCHANGED <<retired, plan, relation, applied, stage, written, twice>>
  BY DEF OperationsInv, CommitRebase, At, history
<1>2. /\ job[w] \in JobRecords /\ Placed(job[w], packages, written)
      /\ packages \subseteq Packages /\ \A q \in packages : result[q] \in Results
      /\ job[w].outputs \subseteq Findings /\ p \in packages
  BY <1>1, Own DEF Placed, OnPackage, Mine
<1>3. o \in JobRecords /\ o.step = "rebase" /\ o.package = Nobody /\ o.todo = {}
      /\ o.page \subseteq packages /\ o.known \subseteq packages
  BY <1>1, <1>2 DEF JobRecords, Steps, Placed, Dispatching
<1> HIDE DEF o
<1>4. Moves(w) /\ job'[w] = o
  BY <1>1, <1>3, GoesMoves DEF Typed
<1>5. new \in Packages
  BY <1>2, ReplacedType
<1> HIDE DEF new
<1>6. CASE p \in rebased
  <2>1. UNCHANGED <<stored, history>>
    BY <1>1, <1>6 DEF CommitRebase, stored, history
  <2> QED
    BY <1>1, <1>3, <2>1, RestsStep DEF NoPackage, Goes
<1>7. CASE p \notin rebased
  <2>1. /\ rebased' = rebased \cup {p} /\ invalidated' = invalidated \cup job[w].outputs
        /\ \/ result' = result
           \/ (new \notin packages \/ result[new] = NoResult) /\ Write(new, Queued)
    BY <1>7 DEF CommitRebase, new
  <2>2. PICK q : /\ Untouched(w, q) /\ packages \subseteq packages' /\ packages' \subseteq Packages
                 /\ \A r \in packages' : result'[r] \in Results
                 /\ \/ \A r \in packages : result'[r] = result[r]
                    \/ q \notin packages
                    \/ result[q].status = "none"
    <3>1. CASE result' = result
      <4>1. packages' = packages
        BY <3>1 DEF packages
      <4>2. Untouched(w, p)
        BY <1>2, <3>1 DEF Untouched, Mine
      <4> QED
        BY <1>2, <3>1, <4>1, <4>2
    <3>2. CASE (new \notin packages \/ result[new] = NoResult) /\ Write(new, Queued)
      <4>1. /\ packages' = packages \cup {new} /\ result'[new] = Queued
            /\ \A r \in packages \ {new} : result'[r] = result[r]
        BY <3>2, WriteFacts
      <4>2. new \notin packages \/ result[new].status = "none"
        BY <3>2, ResultTypes
      <4>3. Untouched(w, new)
        BY <4>1, <4>2 DEF Untouched
      <4> QED
        BY <1>2, <1>5, <4>1, <4>2, <4>3, ResultTypes
    <3> QED
      BY <2>1, <3>1, <3>2
  <2>3. rebased \subseteq rebased' /\ retired' = retired
    BY <1>1, <2>1
  <2>4. Shared \subseteq Shared' /\ Excepted \subseteq Excepted'
    BY <1>4, <2>3, MarksGrow, ExceptedGrows
  <2>5. TypeOK'
    <3>1. relation \in [Annotations -> packages' \cup {Nobody}]
      BY <1>1, <2>2 DEF Typed, TypeOK
    <3>2. rebased' \cup retired' \subseteq packages' /\ invalidated' \subseteq Findings
      BY <1>1, <1>2, <2>1, <2>2 DEF Typed, TypeOK
    <3> QED
      BY <1>1, <1>4, <2>2, <3>1, <3>2 DEF Typed, TypeOK, Moves
  <2>6. Stores(w)
    BY <1>1, <1>3, <1>4, <2>2 DEF Stores, Placed, NoPackage, OnPackage, Dispatching
  <2>7. job'[w].step # "reject" /\ Reads(w)' /\ Refrains(w)' /\ Renews(w)' /\ Applies(w)'
    BY <1>3, <1>4, CalmRecord DEF Calm, NoPackage
  <2>8. Once'
    BY <1>1, <1>4, <2>7, OnceKept DEF OperationsInv
  <2>9. Rebases'
    <3>1. \A f \in applied : f[1] = p => f \in job[w].outputs \/ f[1] \in Shared
      BY <1>1 DEF OperationsInv, Rebases, Reads, At, Mine
    <3>2. \A f \in applied' : f[1] \in rebased' => f \in invalidated' \/ f[1] \in Shared'
      BY <1>1, <2>1, <2>4, <3>1 DEF OperationsInv, Rebases
    <3>3. \A v \in Workers \ {w} : Reads(v)'
      BY <1>1, <1>4, OthersRead DEF OperationsInv
    <3>4. ASSUME NEW v \in Workers \ {w}, job[v].step \in Dispatching \cup {"persist"},
                 job[v].package \in rebased'
          PROVE  job[v].package \in Shared'
      <4>1. job[v].package = p => p \in Shared
        BY <1>2, Meet DEF Mine
      <4> QED
        BY <2>1, <2>4, <3>4, <4>1 DEF OperationsInv, Rebases, Refrains
    <3>5. \A v \in Workers \ {w} : Refrains(v)'
      BY <1>4, <3>4 DEF Refrains, Moves
    <3> QED
      BY <2>7, <3>2, <3>3, <3>5 DEF Rebases
  <2>10. Currents'
    <3>1. ASSUME NEW f \in applied PROVE Current(f)'
      <4>1. Current(f) /\ f[1] \in packages
        BY <1>1 DEF OperationsInv, Currents, Typed, TypeOK
      <4>2. CASE result'[f[1]] = result[f[1]]
        BY <2>4, <4>1, <4>2 DEF Current, Passed
      <4>3. CASE f[1] = q /\ result[q].status = "none"
        BY <2>4, <4>1, <4>3 DEF Current, Passed
      <4> QED
        BY <2>2, <4>1, <4>2, <4>3 DEF Untouched
    <3>2. \A f \in written' : f[1] \in packages'
      BY <1>1, <2>2 DEF OperationsInv, Currents
    <3>3. \A v \in Workers \ {w} : Renews(v)'
      BY <1>1, <1>4, <2>3, OthersRenew DEF OperationsInv
    <3>4. \A v \in Workers \ {w} : Applies(v)'
      BY <1>4, <2>2, <2>3, OthersApply
    <3> QED
      BY <1>1, <2>7, <3>1, <3>2, <3>3, <3>4 DEF Currents
  <2> QED
    BY <1>4, <2>5, <2>6, <2>8, <2>9, <2>10, Whole
<1> QED
  BY <1>6, <1>7

\* A call that ends before its time holds no package; when it was about to
\* record a finding, the package is noted as torn.
LEMMA TornStep ==
    ASSUME OperationsInv, NEW w \in Workers, NEW s \in {"idle", "ended", "report"},
           NEW o, o = Idle \/ o = [Idle EXCEPT !.step = s],
           Marks(w, o, Torn(w)), UNCHANGED <<stored, history>>
    PROVE  OperationsInv'
<1>1. Typed
  BY DEF OperationsInv
<1>2. o \in JobRecords /\ o.step \in {"idle", "ended", "report"} /\ o.package = Nobody
      /\ o.todo = {} /\ o.page = {} /\ o.known = {}
  <2>1. CASE o = Idle
    BY <2>1, IdleType DEF Idle
  <2>2. CASE o = [Idle EXCEPT !.step = s]
    BY <2>2, IdleType DEF JobRecords, Steps, Idle
  <2> QED
    BY <2>1, <2>2
<1>3. Moves(w) /\ job'[w] = o /\ Torn(w) \subseteq marred'
  BY <1>1, <1>2, MarksMoves DEF Typed
<1>4. TypeOK' /\ UNCHANGED <<applied, invalidated, result, rebased, retired, written, twice>>
      /\ packages' = packages
  BY <1>1, <1>3, NothingStored
<1>5. Stores(w)
  BY <1>2, <1>3, <1>4 DEF Stores, Placed, NoPackage, OnPackage, Dispatching
<1>6. job'[w].step # "reject" /\ Reads(w)' /\ Refrains(w)' /\ Renews(w)' /\ Applies(w)'
  BY <1>2, <1>3, CalmRecord DEF Calm, NoPackage
<1>7. Rebases' /\ Currents'
  BY <1>3, <1>4, <1>6, RebasesKept, CurrentsKept DEF OperationsInv
<1>8. \A g \in twice' : g[1] \in Broken'
  BY <1>3, <1>4, MarksGrow DEF OperationsInv, Once
<1>9. ASSUME NEW g \in written \ applied PROVE g[1] \in Broken' \/ Recording(g)'
  <2>1. CASE g[1] \in Broken
    BY <1>3, <2>1, MarksGrow
  <2>2. CASE Recording(g)
    <3>1. PICK v \in Workers : At(v, "record") /\ FirstOf(job[v].todo) = g
      BY <2>2 DEF Recording
    <3>2. CASE v = w
      <4>1. job[w].todo # {}
        BY <1>1, <3>1, <3>2, Own DEF At, Placed
      <4>2. g[1] = Mine(w) /\ g[1] \in Packages
        BY <3>1, <3>2, <4>1, AtFinding DEF At, Dispatching, Mine
      <4>3. <<g[1], "torn">> \in marred'
        BY <1>3, <3>1, <3>2, <4>2 DEF Torn
      <4> QED
        BY <4>2, <4>3 DEF Broken, Marred
    <3>3. CASE v # w
      <4>1. job'[v] = job[v]
        BY <1>3, <3>3 DEF Moves
      <4> QED
        BY <3>1, <4>1 DEF Recording, At
    <3> QED
      BY <3>2, <3>3
  <2> QED
    BY <1>9, <2>1, <2>2 DEF OperationsInv, Once
<1>10. ASSUME NEW v \in Workers, job'[v].step = "reject", FirstOf(job'[v].todo) \in applied
       PROVE  job'[v].package \in Shared'
  <2>1. v # w /\ job'[v] = job[v]
    BY <1>3, <1>6, <1>10 DEF Moves
  <2> QED
    BY <1>3, <1>10, <2>1, MarksGrow DEF OperationsInv, Once, At
<1>11. Once'
  BY <1>4, <1>8, <1>9, <1>10 DEF Once, At
<1> QED
  BY <1>3, <1>4, <1>5, <1>7, <1>11, Whole

LEMMA FailStep ==
    ASSUME OperationsInv, NEW w \in Workers, Fail(w)
    PROVE  OperationsInv'
<1>1. \E s \in {"idle", "ended", "report"} : \E o :
          /\ o = Idle \/ o = [Idle EXCEPT !.step = s]
          /\ Marks(w, o, Torn(w))
  <2>1. CASE At(w, "report")
    BY <2>1 DEF Fail
  <2>2. CASE does[w] = "cycle" /\ ~At(w, "report")
    BY <2>2 DEF Fail
  <2>3. CASE does[w] # "cycle" /\ ~At(w, "report")
    BY <2>3 DEF Fail
  <2> QED
    BY <2>1, <2>2, <2>3
<1>2. UNCHANGED <<stored, history>>
  BY DEF Fail
<1> QED
  BY <1>1, <1>2, TornStep

LEMMA KillStep ==
    ASSUME OperationsInv, NEW w \in Workers, Kill(w)
    PROVE  OperationsInv'
BY TornStep DEF Kill

----------------------------------------------------------------------------
(* What every behaviour keeps. *)

LEMMA Started ==
    ASSUME Init
    PROVE  OperationsInv
<1>1. PICK x \in Workloads :
          /\ result = x.results /\ rebased = {} /\ retired = {}
          /\ plan = [a \in Annotations |-> Nobody]
          /\ relation = [a \in Annotations |-> Nobody]
          /\ applied = {f \in Findings : /\ f[1] \in DOMAIN x.results
                                         /\ x.results[f[1]].applied = "auto_applied"
                                         /\ x.results[f[1]].answer = f[2]}
          /\ invalidated = {} /\ stage = "none" /\ job = [w \in Workers |-> Idle]
          /\ written = applied /\ twice = {}
  BY DEF Init
<1>2. packages \subseteq Packages /\ \A p \in packages : result[p] \in Results
  BY <1>1, OperationsAssumption DEF packages
<1>3. TypeOK
  BY <1>1, <1>2, IdleType DEF TypeOK
<1>4. \A w \in Workers : job[w].step = "idle" /\ job[w].package = Nobody /\ job[w].todo = {}
                         /\ job[w].page = {} /\ job[w].known = {}
  BY <1>1 DEF Idle
<1>5. Held
  BY <1>4 DEF Held, Placed, NoPackage, OnPackage, Dispatching
<1>6. Noticed
  BY <1>4 DEF Noticed
<1>7. Once
  BY <1>1, <1>4 DEF Once, At
<1>8. Rebases
  BY <1>1, <1>4 DEF Rebases, Reads, Refrains, At, Dispatching
<1>9. ASSUME NEW f \in applied PROVE Current(f) /\ f[1] \in packages
  <2>1. f[1] \in packages /\ result[f[1]].answer = f[2] /\ f[2] \in Answers
    BY <1>1, <1>9, FoundType DEF packages
  <2> QED
    BY <1>2, <2>1, ResultTypes DEF Current, Passed
<1>10. Currents
  BY <1>1, <1>4, <1>9 DEF Currents, Renews, Applies, Dispatching
<1> QED
  BY <1>3, <1>5, <1>6, <1>7, <1>8, <1>10 DEF OperationsInv, Typed

LEMMA Stutters ==
    ASSUME OperationsInv, UNCHANGED vars
    PROVE  OperationsInv'
<1>1. UNCHANGED <<result, rebased, retired, plan, relation, applied, invalidated, stage, job,
                  written, twice, marred>>
  BY DEF vars, stored, history
<1>2. packages' = packages /\ Shared' = Shared /\ Broken' = Broken /\ Excepted' = Excepted
  BY <1>1 DEF packages, Shared, Broken, Excepted, Superseded, Marred
<1>3. Typed' /\ Noticed'
  BY <1>1, <1>2 DEF OperationsInv, Typed, TypeOK, Held, Noticed
<1>4. Once'
  BY <1>1, <1>2 DEF OperationsInv, Once, Recording, At
<1>5. Rebases'
  BY <1>1, <1>2 DEF OperationsInv, Rebases, Reads, Refrains, At
<1>6. Currents'
  BY <1>1, <1>2 DEF OperationsInv, Currents, Current, Renews, Applies, Passed
<1> QED
  BY <1>3, <1>4, <1>5, <1>6 DEF OperationsInv

LEMMA Stepping ==
    ASSUME OperationsInv, [Next]_vars
    PROVE  OperationsInv'
<1>1. CASE UNCHANGED vars
  BY <1>1, Stutters
<1>2. CASE Next
  <2>1. PICK w \in Workers :
            \/ \E p \in Packages : BeginImport(w, p)
            \/ BeginCycle(w)
            \/ BeginRebase(w)
            \/ Repair(w)
            \/ Continue(w)
            \/ Fail(w)
            \/ Kill(w)
    BY <1>2 DEF Next
  <2>2. CASE Continue(w)
    BY <2>2, TakeStep, RunStep, PersistStep, InvokeStep, RecordStep, RejectStep, StageStep,
       MarkStep, FollowStep, QueueStep, EnqueueStep, RelateStep, ReadOutputsStep,
       CommitRebaseStep, KeepStep, RetireStep, ReportStep DEF Continue
  <2> QED
    BY <2>1, <2>2, BeginImportStep, BeginCycleStep, BeginRebaseStep, RepairStep, FailStep,
       KillStep
<1> QED
  BY <1>1, <1>2

LEMMA Promises ==
    ASSUME OperationsInv
    PROVE  /\ TypeOK /\ OwnersWriteOnce /\ RebasedOutputsAreInvalidated
           /\ AppliedFindingsAreCurrent
<1>1. TypeOK
  BY DEF OperationsInv, Typed
<1>2. OwnersWriteOnce
  BY DEF OperationsInv, Once, OwnersWriteOnce, Broken, Shared
<1>3. RebasedOutputsAreInvalidated
  BY DEF OperationsInv, Rebases, RebasedOutputsAreInvalidated, Shared
<1>4. AppliedFindingsAreCurrent
  BY DEF OperationsInv, Currents, Current, AppliedFindingsAreCurrent, Excepted, Shared
<1> QED
  BY <1>1, <1>2, <1>3, <1>4

LEMMA Invariance == Spec => []OperationsInv
<1>1. Init => OperationsInv
  BY Started
<1>2. OperationsInv /\ [Next]_vars => OperationsInv'
  BY Stepping
<1> QED
  BY <1>1, <1>2, PTL DEF Spec

\* Every worker's record and everything stored keep their types, whatever the
\* workloads, and an owner's record is only ever of a finding it has written.
THEOREM OperationsTypes == Spec => []TypeOK
<1>1. OperationsInv => TypeOK
  BY Promises
<1> QED
  BY <1>1, Invariance, PTL

\* An owner writes a finding once, however many workers import and dispatch,
\* unless a dispatch died between the write and its record or two had the
\* package at once.
THEOREM OwnersWriteOnceHolds == Spec => []OwnersWriteOnce
<1>1. OperationsInv => OwnersWriteOnce
  BY Promises
<1> QED
  BY <1>1, Invariance, PTL

\* A rebase invalidates every output that the findings of its package left,
\* unless another worker had the package at once.
THEOREM RebasesInvalidateOutputs == Spec => []RebasedOutputsAreInvalidated
<1>1. OperationsInv => RebasedOutputsAreInvalidated
  BY Promises
<1> QED
  BY <1>1, Invariance, PTL

\* What is recorded as applied for an active package belongs to its current
\* result, unless two workers had the package at once or a cycle analysed it
\* after another had closed it.
THEOREM AppliedStaysCurrent == Spec => []AppliedFindingsAreCurrent
<1>1. OperationsInv => AppliedFindingsAreCurrent
  BY Promises
<1> QED
  BY <1>1, Invariance, PTL

=============================================================================
