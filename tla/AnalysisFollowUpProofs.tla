------------------------- MODULE AnalysisFollowUpProofs -------------------------
(***************************************************************************)
(* One follow-up for an annotation, whoever imports, rebases and repairs.  *)
(* A plan reserves the package that it will store, so that an annotation   *)
(* without duplicates has at most what its plan reserves (Alone); a repair *)
(* relates the annotation before it retires anything, and never retires    *)
(* what it has related (Settled).                                          *)
(***************************************************************************)
EXTENDS AnalysisOperationsProofs, FiniteSetTheorems

\* The package that the plan of an annotation reserves.
Reserved(a) == Semantic("current", a.contract, plan[a][1])

\* The versions whose follow-ups are, or may become, those of a.
Scope(a) == {b \in Annotations : b = a \/ a.contract = "current"}

\* Nobody has retired, and nobody is about to retire, a follow-up of a.
Undisturbed(a) ==
    /\ \A p \in retired : p.dep # a.contract
    /\ \A w \in Workers : ~Repairs(w, a)

Alone(a) ==
    /\ \A p, q \in Eventual(a) : p = q
    /\ \A b \in Scope(a) :
          plan[b] # Nobody /\ Reserved(b) \notin Superseded => Eventual(a) \subseteq {Reserved(b)}
    /\ \A b, c \in Scope(a) : plan[b] # Nobody /\ plan[c] # Nobody => b = c
    /\ \A b \in Scope(a) : Undisturbed(b)
Spared(a) == Marred(a, "doubled") \/ Marred(a, "parted")
Alones == \A a \in Annotations : Spared(a) \/ Alone(a)

Settled(a) ==
    /\ \A v, w \in Workers : Repairs(v, a) /\ Repairs(w, a) => v = w
    /\ \A w \in Workers : At(w, "keep") /\ job[w].origin = a => job[w].known \cap retired = {}
    /\ \A w \in Workers : At(w, "retire") /\ Repairs(w, a) =>
          relation[a] # Nobody /\ relation[a] \notin job[w].page
    /\ relation[a] \notin retired
    /\ \A p \in retired : p.dep = a.contract => relation[a] # Nobody
Settles == \A a \in Annotations : Marred(a, "disputed") \/ Settled(a)

\* What a worker that queues, relates, keeps or retires follow-ups holds.
FollowsPlan(w) ==
    /\ At(w, "queue") =>
          plan[job[w].origin] # Nobody /\ job[w].package = Reserved(job[w].origin)
    /\ job[w].step \in {"enqueue", "relate"} =>
          job[w].package \in Semantics /\ job[w].package.dep = job[w].origin.contract
Pages(w) ==
    /\ job[w].step \in {"keep", "retire"} => job[w].page \subseteq Semantics
    /\ At(w, "keep") =>
          /\ job[w].known \subseteq Semantics
          /\ job[w].known \cap job[w].page = {}
          /\ \A p \in job[w].known \cup job[w].page : p.dep = job[w].origin.contract
Relates(a) == relation[a] # Nobody => relation[a] \in Semantics /\ relation[a].dep = a.contract
Shapes ==
    /\ retired \subseteq Semantics
    /\ \A a \in Annotations : Relates(a)
    /\ \A w \in Workers : FollowsPlan(w) /\ Pages(w)

FollowUpInv == OperationsInv /\ Shapes /\ Alones /\ Settles

----------------------------------------------------------------------------
(* Data. *)

LEMMA Versions ==
    /\ \A a, b \in Annotations : a.contract = b.contract => a = b
    /\ \A a \in Annotations : a.contract \in Contracts
    /\ \A a \in Annotations : a.contract = "current" <=> a = Annotation("current")
    /\ \A p \in Packages : p.kind = "semantic" => p \in Semantics
    /\ \A p \in Semantics : p.kind = "semantic" /\ \E b \in Annotations : p.dep = b.contract
    /\ \A a \in Annotations, t \in Times :
          /\ Semantic("current", a.contract, t) \in Semantics
          /\ Semantic("current", a.contract, t).dep = a.contract
<1>1. \A a \in Annotations : a.contract \in Contracts /\ a = Annotation(a.contract)
  BY DEF Annotations, Annotation
<1>2. \A p \in Semantics : p.kind = "semantic" /\ p.dep \in Contracts
  BY DEF Semantics, Semantic, Contracts
<1>3. \A d \in Contracts : Annotation(d) \in Annotations /\ Annotation(d).contract = d
  BY DEF Annotations, Annotation
<1>4. \A p \in Packages : p.kind = "semantic" => p \in Semantics
  BY PackageKinds
<1>5. \A d, t : Semantic("current", d, t).dep = d
  BY DEF Semantic
<1>6. \A a, b \in Annotations : a.contract = b.contract => a = b
  BY <1>1
<1>7. \A a \in Annotations : a.contract = "current" <=> a = Annotation("current")
  BY <1>1, <1>3 DEF Contracts
<1>8. \A p \in Semantics : p.kind = "semantic" /\ \E b \in Annotations : p.dep = b.contract
  BY <1>2, <1>3
<1>9. \A a \in Annotations, t \in Times :
          /\ Semantic("current", a.contract, t) \in Semantics
          /\ Semantic("current", a.contract, t).dep = a.contract
  BY <1>1, <1>5, PackageKinds
<1> QED
  BY <1>1, <1>4, <1>6, <1>7, <1>8, <1>9

LEMMA Scopes ==
    /\ \A a \in Annotations : a \in Scope(a) /\ Scope(a) \subseteq Annotations
    /\ \A a \in Annotations : \A b, c \in Scope(a) : b # c => a = Annotation("current")
BY Versions DEF Scope

\* The follow-ups that count for an annotation are those of its scope.
LEMMA EventualIn ==
    ASSUME Typed, NEW a \in Annotations, NEW p
    PROVE  p \in Eventual(a) <=>
              /\ p \in packages /\ p \notin Superseded /\ p \in Semantics
              /\ \E b \in Scope(a) : p.dep = b.contract
<1>1. packages \subseteq Packages
  BY DEF Typed, TypeOK
<1> QED
  BY <1>1, Versions DEF Eventual, Scope

LEMMA DependentsIn ==
    ASSUME Typed, NEW a \in Annotations, NEW p
    PROVE  /\ p \in Dependents(a) <=> /\ p \in packages /\ p \notin Superseded
                                      /\ p \in Semantics /\ p.dep = a.contract
           /\ \A c \in Annotations : a \in Scope(c) => Dependents(a) \subseteq Eventual(c)
<1>1. packages \subseteq Packages
  BY DEF Typed, TypeOK
<1> QED
  BY <1>1, Versions DEF Dependents, Eventual, Scope

LEMMA ReservedType ==
    ASSUME Typed, NEW a \in Annotations, plan[a] # Nobody
    PROVE  Reserved(a) \in Semantics /\ Reserved(a).dep = a.contract
<1>1. plan[a] \in Plans
  BY DEF Typed, TypeOK
<1>2. plan[a][1] \in Times
  BY <1>1 DEF Plans
<1> QED
  BY <1>2, Versions DEF Reserved

\* Packages that are all the same are at most one.
LEMMA AtMostOne ==
    ASSUME NEW S, \A p, q \in S : p = q
    PROVE  Cardinality(S) <= 1
<1>1. CASE S = {}
  BY <1>1, FS_EmptySet
<1>2. CASE S # {}
  <2>1. PICK p : S = {p}
    BY <1>2
  <2>2. Cardinality(S) = 1
    BY <2>1, FS_Singleton, Zenon
  <2> QED
    BY <2>2
<1> QED
  BY <1>1, <1>2

----------------------------------------------------------------------------
(* Steps. *)

\* A step of worker w leaves the others where they are, and keeps the marks.
Advances(w) ==
    /\ \A v \in Workers \ {w} : job'[v] = job[v]
    /\ marred \subseteq marred'

LEMMA MarksAdvance ==
    ASSUME OperationsInv, NEW w \in Workers, NEW o, NEW more, Marks(w, o, more)
    PROVE  Advances(w) /\ job'[w] = o /\ more \subseteq marred'
BY DEF Marks, Advances, OperationsInv, Typed, TypeOK

LEMMA GoesToAdvance ==
    ASSUME OperationsInv, NEW w \in Workers, NEW s, GoesTo(w, s)
    PROVE  /\ Advances(w) /\ job'[w].step = s
           /\ job'[w].package = job[w].package /\ job'[w].origin = job[w].origin
<1>1. job[w] \in JobRecords
  BY Own DEF OperationsInv
<1>2. Advances(w) /\ job'[w] = [job[w] EXCEPT !.step = s]
  BY MarksAdvance DEF GoesTo, Goes
<1> QED
  BY <1>1, <1>2 DEF JobRecords

LEMMA LeavesAdvance ==
    ASSUME OperationsInv, NEW w \in Workers, Turns(w) \/ Raises(w) \/ Goes(w, Idle)
    PROVE  Advances(w) /\ job'[w].step \in {"idle", "next", "report"}
BY TurnsMoves DEF OperationsInv, Typed, Moves, Leaves, Advances

\* Steps of a worker that neither follow up nor repair.
Following == {"queue", "enqueue", "relate"}
Repairing == {"keep", "retire"}

LEMMA ElsewhereFacts ==
    ASSUME NEW w, job'[w].step \notin Repairing
    PROVE  Pages(w)' /\ \A a : ~Repairs(w, a)'
BY DEF Pages, Repairs, Repairing, At

LEMMA NotFollowing ==
    ASSUME NEW w, job'[w].step \notin Following
    PROVE  FollowsPlan(w)'
BY DEF FollowsPlan, Following, At

LEMMA ShapesKept ==
    ASSUME FollowUpInv, NEW w \in Workers, Advances(w), FollowsPlan(w)', Pages(w)',
           retired' \subseteq Semantics, \A a \in Annotations : Relates(a)',
           \A a \in Annotations : plan[a] # Nobody => plan'[a] = plan[a]
    PROVE  Shapes'
<1> SUFFICES ASSUME NEW v \in Workers \ {w} PROVE FollowsPlan(v)' /\ Pages(v)'
  BY DEF Shapes
<1>1. job'[v] = job[v] /\ FollowsPlan(v) /\ Pages(v)
  BY DEF Advances, FollowUpInv, Shapes
<1>2. job[v].step = "queue" => job[v].origin \in Annotations
  BY DEF FollowUpInv, OperationsInv, Typed, Held, Placed
<1>3. FollowsPlan(v)'
  BY <1>1, <1>2 DEF FollowsPlan, At, Reserved
<1>4. Pages(v)'
  BY <1>1 DEF Pages, At
<1> QED
  BY <1>3, <1>4

\* Nothing more to retire, no plan, no package: an annotation stays alone.
LEMMA AloneKept ==
    ASSUME NEW a \in Annotations, Alone(a), NEW w \in Workers, Advances(w),
           Eventual(a)' \subseteq Eventual(a), Superseded \subseteq Superseded', UNCHANGED plan,
           \A b \in Scope(a) : \A p \in retired' \ retired : p.dep # b.contract,
           \A b \in Scope(a) : ~Repairs(w, b)'
    PROVE  Alone(a)'
<1>1. \A b \in Scope(a) : Undisturbed(b)'
  <2> SUFFICES ASSUME NEW b \in Scope(a), NEW v \in Workers \ {w} PROVE ~Repairs(v, b)'
    BY DEF Undisturbed, Alone
  <2>1. ~Repairs(v, b) /\ job'[v] = job[v]
    BY DEF Alone, Undisturbed, Advances
  <2> QED
    BY <2>1 DEF Repairs, At
<1>2. Scope(a)' = Scope(a) /\ \A b : Reserved(b)' = Reserved(b)
  BY DEF Scope, Reserved
<1> QED
  BY <1>1, <1>2 DEF Alone

LEMMA SparedKept ==
    ASSUME NEW w, Advances(w), NEW a
    PROVE  (Spared(a) => Spared(a)') /\ (Marred(a, "disputed") => Marred(a, "disputed")')
BY DEF Spared, Marred, Advances

\* A step that keeps the packages and what is superseded, related and planned.
LEMMA EventualKept ==
    ASSUME NEW a, packages' = packages, UNCHANGED <<rebased, retired>>
    PROVE  Eventual(a)' = Eventual(a) /\ Superseded' = Superseded
BY DEF Eventual, Superseded

LEMMA SettledKept ==
    ASSUME NEW a, Settled(a), NEW w \in Workers, Advances(w), retired' = retired,
           relation'[a] = relation[a], ~Repairs(w, a)'
    PROVE  Settled(a)'
<1>1. \A v \in Workers \ {w} : job'[v] = job[v]
  BY DEF Advances
<1>2. \A v \in Workers \ {w} : Repairs(v, a)' <=> Repairs(v, a)
  BY <1>1 DEF Repairs, At
<1>3. \A u, v \in Workers : Repairs(u, a)' /\ Repairs(v, a)' => u = v
  BY <1>2 DEF Settled
<1>4. \A v \in Workers : job'[v].step = "keep" /\ job'[v].origin = a
          => v # w /\ job'[v].known \cap retired' = {}
  BY <1>1 DEF Settled, Repairs, At
<1>5. \A v \in Workers : job'[v].step = "retire" /\ Repairs(v, a)'
          => relation'[a] # Nobody /\ relation'[a] \notin job'[v].page
  BY <1>1, <1>2 DEF Settled, At
<1> QED
  BY <1>3, <1>4, <1>5 DEF Settled, At

LEMMA QuietStep ==
    ASSUME FollowUpInv, OperationsInv', NEW w \in Workers, Advances(w),
           packages' = packages, UNCHANGED <<rebased, retired, plan, relation>>,
           FollowsPlan(w)', job'[w].step \notin Repairing
    PROVE  FollowUpInv'
<1>1. Pages(w)' /\ \A a : ~Repairs(w, a)'
  BY ElsewhereFacts
<1>2. Shapes'
  BY <1>1, ShapesKept DEF FollowUpInv, Shapes, Relates
<1>3. Alones'
  <2> SUFFICES ASSUME NEW a \in Annotations PROVE Spared(a)' \/ Alone(a)'
    BY DEF Alones
  <2>1. CASE Spared(a)
    BY <2>1, SparedKept
  <2>2. CASE Alone(a)
    <3>1. Eventual(a)' = Eventual(a) /\ Superseded' = Superseded
      BY EventualKept
    <3> QED
      BY <1>1, <2>2, <3>1, AloneKept
  <2> QED
    BY <2>1, <2>2 DEF FollowUpInv, Alones
<1>4. Settles'
  <2> SUFFICES ASSUME NEW a \in Annotations PROVE Marred(a, "disputed")' \/ Settled(a)'
    BY DEF Settles
  <2> QED
    BY <1>1, SparedKept, SettledKept DEF FollowUpInv, Settles
<1> QED
  BY <1>2, <1>3, <1>4 DEF FollowUpInv

\* ... to where it neither follows up nor repairs.
LEMMA ElsewhereStep ==
    ASSUME FollowUpInv, OperationsInv', NEW w \in Workers, Advances(w),
           packages' = packages, UNCHANGED <<rebased, retired, plan, relation>>,
           job'[w].step \notin Following \cup Repairing
    PROVE  FollowUpInv'
BY NotFollowing, QuietStep

\* A step of the dispatch, or of what begins, by the record it goes to.
LEMMA ToElsewhere ==
    ASSUME FollowUpInv, OperationsInv', NEW w \in Workers, NEW o, NEW more, Marks(w, o, more),
           packages' = packages, UNCHANGED <<rebased, retired, plan, relation>>,
           o.step \notin Following \cup Repairing
    PROVE  FollowUpInv'
BY MarksAdvance, ElsewhereStep DEF FollowUpInv

----------------------------------------------------------------------------
(* The steps that follow up and repair nothing. *)

LEMMA BeginSteps ==
    ASSUME FollowUpInv, OperationsInv', NEW w \in Workers,
           \/ \E p \in Packages : BeginImport(w, p)
           \/ BeginCycle(w) \/ BeginRebase(w) \/ Take(w) \/ ReadOutputs(w)
           \/ Report(w) \/ Fail(w) \/ Kill(w)
    PROVE  FollowUpInv'
<1>1. UNCHANGED stored
  BY DEF BeginImport, BeginCycle, BeginRebase, Take, ReadOutputs, Report, Fail, Kill
<1>2. packages' = packages /\ UNCHANGED <<rebased, retired, plan, relation>>
  BY <1>1 DEF stored, packages
<1> DEFINE Elsewhere(o) == o.step \notin Following \cup Repairing
<1>3. Elsewhere(Idle) /\ \A s : s \notin Following \cup Repairing =>
                              Elsewhere([Idle EXCEPT !.step = s])
  BY DEF Idle, Following, Repairing
<1>4. ASSUME \E o, more : Marks(w, o, more) /\ Elsewhere(o) PROVE FollowUpInv'
  BY <1>2, <1>4, ToElsewhere
<1>5. ASSUME NEW p \in Packages, BeginImport(w, p) PROVE FollowUpInv'
  <2> DEFINE o == [Idle EXCEPT !.step = "run", !.package = p]
             q == [o EXCEPT !.step = "follow", !.result = result[p]]
  <2>1. Elsewhere(o) /\ Elsewhere(q)
    BY DEF Idle, Following, Repairing
  <2>2. Marks(w, o, {}) \/ Marks(w, q, {})
    BY <1>5 DEF BeginImport, Calls
  <2> QED
    BY <1>4, <2>1, <2>2
<1>6. CASE BeginCycle(w)
  <2>1. PICK S : Goes(w, [Idle EXCEPT !.step = "next", !.page = S])
    BY <1>6 DEF BeginCycle
  <2>2. Elsewhere([Idle EXCEPT !.step = "next", !.page = S])
    BY DEF Idle, Following, Repairing
  <2> QED
    BY <1>4, <2>1, <2>2 DEF Goes
<1>7. CASE BeginRebase(w)
  <2>1. PICK S, T : Marks(w, [Idle EXCEPT !.step = "rebase", !.page = S, !.known = T], {})
    BY <1>7, Zenon DEF BeginRebase, Calls
  <2>2. Elsewhere([Idle EXCEPT !.step = "rebase", !.page = S, !.known = T])
    BY DEF Idle, Following, Repairing
  <2> QED
    BY <1>4, <2>1, <2>2
<1>8. CASE Take(w)
  <2>1. job[w] \in JobRecords /\ job[w].step = "next"
    BY <1>8, Own DEF FollowUpInv, OperationsInv, Take, At
  <2> DEFINE p == First(job[w].page)
             rest == job[w].page \ {p}
             run == [Idle EXCEPT !.step = "run", !.package = p, !.page = rest]
             skip == [job[w] EXCEPT !.page = rest]
  <2>2. Elsewhere(Takes(p, result[p], rest)) /\ Elsewhere(run)
    BY DEF Takes, Idle, Following, Repairing
  <2>3. Elsewhere(skip)
    BY <2>1 DEF JobRecords, Following, Repairing
  <2>4. CASE job[w].page = {}
    <3>1. \E more : Marks(w, Idle, more)
      BY <1>8, <2>4 DEF Take
    <3> QED
      BY <1>3, <1>4, <3>1
  <2>5. CASE job[w].page # {} /\ p \in Redispatchable
    <3>1. \E more : Marks(w, Takes(p, result[p], rest), more)
      BY <1>8, <2>5 DEF Take
    <3> QED
      BY <1>4, <2>2, <3>1
  <2>6. CASE job[w].page # {} /\ p \notin Redispatchable /\ runner
    <3>1. \E more : Marks(w, run, more)
      BY <1>8, <2>6 DEF Take
    <3> QED
      BY <1>4, <2>2, <3>1
  <2>7. CASE job[w].page # {} /\ p \notin Redispatchable /\ ~runner
    <3>1. \E more : Marks(w, skip, more)
      BY <1>8, <2>7 DEF Take
    <3> QED
      BY <1>4, <2>3, <3>1
  <2> QED
    BY <2>4, <2>5, <2>6, <2>7
<1>9. CASE ReadOutputs(w)
  <2>1. job[w] \in JobRecords
    BY Own DEF FollowUpInv, OperationsInv
  <2> DEFINE p == First(InOrder(job[w].page))
             o == [job[w] EXCEPT !.step = "commit", !.package = p, !.outputs = Outputs(p)]
  <2>2. Elsewhere(o)
    BY <2>1 DEF JobRecords, Following, Repairing
  <2>3. Goes(w, Idle) \/ Goes(w, o)
    BY <1>9 DEF ReadOutputs
  <2> HIDE DEF o, Elsewhere
  <2> QED
    BY <1>3, <1>4, <2>2, <2>3 DEF Goes
<1>10. CASE Report(w) \/ Kill(w)
  BY <1>3, <1>4, <1>10 DEF Report, Kill, Goes
<1>11. CASE Fail(w)
  <2> DEFINE ended == [Idle EXCEPT !.step = "ended"]
             report == [Idle EXCEPT !.step = "report"]
  <2>1. Elsewhere(ended) /\ Elsewhere(report)
    BY DEF Idle, Following, Repairing
  <2>2. CASE At(w, "report")
    <3>1. Marks(w, ended, Torn(w))
      BY <1>11, <2>2 DEF Fail
    <3> QED
      BY <1>4, <2>1, <3>1
  <2>3. CASE does[w] = "cycle" /\ ~At(w, "report")
    <3>1. Marks(w, report, Torn(w))
      BY <1>11, <2>3 DEF Fail
    <3> QED
      BY <1>4, <2>1, <3>1
  <2>4. CASE does[w] # "cycle" /\ ~At(w, "report")
    <3>1. Marks(w, Idle, Torn(w))
      BY <1>11, <2>4 DEF Fail
    <3> QED
      BY <1>3, <1>4, <3>1
  <2> QED
    BY <2>2, <2>3, <2>4
<1> QED
  BY <1>5, <1>6, <1>7, <1>8, <1>9, <1>10, <1>11, ZenonT(40)

LEMMA DispatchSteps ==
    ASSUME FollowUpInv, OperationsInv', NEW w \in Workers,
           Run(w) \/ Persist(w) \/ Invoke(w) \/ Record(w) \/ Reject(w) \/ Stage(w) \/ Mark(w)
    PROVE  FollowUpInv'
<1>1. OperationsInv /\ job[w] \in JobRecords /\ Placed(job[w], packages, written)
  BY Own DEF FollowUpInv, OperationsInv
<1>2. UNCHANGED <<rebased, retired, plan, relation>>
  BY DEF Run, Persist, Invoke, Record, Reject, Stage, Mark, stored
<1>3. packages' = packages
  <2>1. CASE Persist(w) \/ Mark(w)
    <3>1. Mine(w) \in packages
      BY <1>1, <2>1 DEF Persist, Mark, At, Placed, OnPackage, Mine
    <3>2. \E r : Write(Mine(w), r)
      BY <2>1 DEF Persist, Mark
    <3> QED
      BY <3>1, <3>2, WriteFacts
  <2>2. CASE result' = result
    BY <2>2 DEF packages
  <2> QED
    BY <2>1, <2>2 DEF Run, Invoke, Record, Reject, Stage, stored
<1>4. ASSUME NEW s \in {"idle", "next", "report", "persist", "dispatch", "record", "reject",
                        "mark", "follow"},
             Advances(w), job'[w].step = s
      PROVE  FollowUpInv'
  BY <1>2, <1>3, <1>4, ElsewhereStep DEF Following, Repairing
<1>5. ASSUME Turns(w) \/ Raises(w) PROVE FollowUpInv'
  BY <1>1, <1>4, <1>5, LeavesAdvance
<1>6. ASSUME NEW s \in {"persist", "record", "reject", "mark", "follow"}, GoesTo(w, s)
      PROVE  FollowUpInv'
  BY <1>1, <1>4, <1>6, GoesToAdvance
<1>7. ASSUME NEW f, Goes(w, Without(w, f)) \/ Goes(w, [Without(w, f) EXCEPT !.refused = TRUE])
      PROVE  FollowUpInv'
  <2>1. Without(w, f).step = "dispatch" /\ [Without(w, f) EXCEPT !.refused = TRUE].step = "dispatch"
    BY <1>1 DEF Without, JobRecords
  <2>2. Advances(w) /\ job'[w].step = "dispatch"
    BY <1>1, <1>7, <2>1, MarksAdvance DEF Goes
  <2> QED
    BY <1>4, <2>2
<1>8. CASE Run(w)
  BY <1>5, <1>6, <1>8 DEF Run
<1>9. CASE Persist(w)
  <2>1. PICK r : Goes(w, Takes(Mine(w), r, job[w].page))
    BY <1>9 DEF Persist
  <2>2. Takes(Mine(w), r, job[w].page).step = "dispatch"
    BY DEF Takes, Idle
  <2>3. Advances(w) /\ job'[w].step = "dispatch"
    BY <1>1, <2>1, <2>2, MarksAdvance DEF Goes
  <2> QED
    BY <1>4, <2>3
<1>10. CASE Invoke(w)
  BY <1>6, <1>7, <1>10 DEF Invoke
<1>11. CASE Record(w)
  BY <1>7, <1>11 DEF Record
<1>12. CASE Reject(w)
  BY <1>7, <1>12 DEF Reject
<1>13. CASE Stage(w) \/ Mark(w)
  BY <1>5, <1>6, <1>13 DEF Stage, Mark
<1> QED
  BY <1>8, <1>9, <1>10, <1>11, <1>12, <1>13

----------------------------------------------------------------------------
(* The follow-up: it is planned when there is none, ... *)

\* No version that counts for the same annotation has another, or a plan.
LEMMA PlansAlone ==
    ASSUME FollowUpInv, NEW a \in Annotations, Dependents(a) = {}, NEW w \in Workers,
           NEW c \in Annotations, ~Spared(c)', a \in Scope(c), Advances(w),
           Parted(a) \subseteq marred'
    PROVE  /\ Alone(c) /\ Eventual(c) = {}
           /\ \A b \in Scope(c) \ {a} : plan[b] = Nobody
<1>1. Typed /\ ~Spared(c)
  BY SparedKept DEF FollowUpInv, OperationsInv
<1>2. ASSUME NEW b \in Scope(c), b # a
      PROVE  Dependents(b) = {} /\ plan[b] = Nobody
  <2>1. c = Annotation("current") /\ b \in Annotations
    BY <1>2, Scopes
  <2>2. ~Marred(c, "parted")'
    BY DEF Spared
  <2>3. <<c, "parted">> \notin Parted(a)
    BY <2>2 DEF Marred
  <2> QED
    BY <1>2, <2>1, <2>3 DEF Parted
<1>3. Eventual(c) = {}
  <2> SUFFICES ASSUME NEW p \in Eventual(c) PROVE FALSE
    OBVIOUS
  <2>1. PICK b \in Scope(c) : p.dep = b.contract
    BY <1>1, EventualIn
  <2>2. b \in Annotations
    BY Scopes
  <2>3. p \in Dependents(b)
    BY <1>1, <2>1, <2>2, EventualIn, DependentsIn, SMTT(30)
  <2> QED
    BY <1>2, <2>3
<1> QED
  BY <1>1, <1>2, <1>3 DEF FollowUpInv, Alones

LEMMA FollowKeeps ==
    ASSUME FollowUpInv, OperationsInv', NEW w \in Workers, Follow(w)
    PROVE  FollowUpInv'
<1> DEFINE a == Mine(w)
           answer == job[w].result.answer
<1>1. /\ OperationsInv /\ Typed /\ job[w].step = "follow"
      /\ UNCHANGED <<result, rebased, retired, relation>>
  BY DEF FollowUpInv, OperationsInv, Follow, At
<1>2. packages' = packages
  BY <1>1 DEF packages
<1>3. job[w] \in JobRecords /\ a \in Annotations /\ answer \in Answers
  BY <1>1, Own, ResultTypes DEF Placed, Mine
<1>4. CASE plan' = plan /\ (Turns(w) \/ Raises(w))
  <2>1. Advances(w) /\ job'[w].step \notin Following \cup Repairing
    BY <1>1, <1>4, LeavesAdvance DEF Following, Repairing
  <2> QED
    BY <1>1, <1>2, <1>4, <2>1, ElsewhereStep
<1>5. ASSUME NEW t \in Times, Dependents(a) = {},
             plan' = [plan EXCEPT ![a] = Planned(a, answer, t)],
             Marks(w, [job[w] EXCEPT !.step = "queue", !.origin = a,
                       !.package = Semantic("current", a.contract, Planned(a, answer, t)[1])],
                   Parted(a))
      PROVE  FollowUpInv'
  <2> DEFINE frozen == Planned(a, answer, t)
             p == Semantic("current", a.contract, frozen[1])
             o == [job[w] EXCEPT !.step = "queue", !.origin = a, !.package = p]
  <2>1. /\ plan \in [Annotations -> Plans \cup {Nobody}] /\ Nobody \notin Plans
        /\ frozen \in Plans
    BY <1>1, <1>3, OperationsAssumption DEF Typed, TypeOK, Planned, Plans
  <2>2. plan'[a] = frozen /\ \A b \in Annotations \ {a} : plan'[b] = plan[b]
    BY <1>3, <1>5, <2>1
  <2>3. plan[a] # Nobody => plan' = plan
    BY <1>3, <1>5, <2>1 DEF Planned
  <2> HIDE DEF p
  <2>4. o.step = "queue" /\ o.package = p /\ o.origin = a
    BY <1>3 DEF JobRecords
  <2>5. Advances(w) /\ job'[w] = o /\ Parted(a) \subseteq marred'
    BY <1>1, <1>5, MarksAdvance DEF p
  <2> HIDE DEF o
  <2>6. FollowsPlan(w)' /\ job'[w].step \notin Repairing
    BY <2>1, <2>2, <2>4, <2>5 DEF FollowsPlan, At, Reserved, Repairing, p
  <2>7. Pages(w)' /\ \A b : ~Repairs(w, b)'
    BY <2>6, ElsewhereFacts
  <2>8. CASE plan[a] # Nobody
    BY <1>1, <1>2, <2>3, <2>5, <2>6, <2>8, QuietStep
  <2>9. CASE plan[a] = Nobody
    <3>1. Shapes'
      <4>1. \A b \in Annotations : plan[b] # Nobody => plan'[b] = plan[b]
        BY <2>2, <2>9
      <4> QED
        BY <1>1, <2>5, <2>6, <2>7, <4>1, ShapesKept DEF FollowUpInv, Shapes, Relates
    <3>2. Alones'
      <4> SUFFICES ASSUME NEW c \in Annotations, ~Spared(c)' PROVE Alone(c)'
        BY DEF Alones
      <4>1. Eventual(c)' = Eventual(c) /\ Superseded' = Superseded
        BY <1>1, <1>2, EventualKept
      <4>2. Alone(c) /\ Scope(c)' = Scope(c) /\ Scope(c) \subseteq Annotations
        BY <2>5, SparedKept, Scopes DEF FollowUpInv, Alones, Scope
      <4>3. \A b \in Scope(c) : Undisturbed(b)'
        <5> SUFFICES ASSUME NEW b \in Scope(c), NEW v \in Workers \ {w} PROVE ~Repairs(v, b)'
          BY <1>1, <2>7, <4>2 DEF Undisturbed, Alone
        <5>1. ~Repairs(v, b) /\ job'[v] = job[v]
          BY <2>5, <4>2 DEF Alone, Undisturbed, Advances
        <5> QED
          BY <5>1 DEF Repairs, At
      <4>4. CASE a \notin Scope(c)
        <5>1. \A b \in Scope(c) : plan'[b] = plan[b]
          BY <2>2, <4>2, <4>4
        <5>2. \A b \in Scope(c) : Reserved(b)' = Reserved(b)
          BY <5>1 DEF Reserved
        <5> QED
          BY <4>1, <4>2, <4>3, <5>1, <5>2 DEF Alone
      <4>5. CASE a \in Scope(c)
        <5>1. Eventual(c) = {} /\ \A b \in Scope(c) \ {a} : plan[b] = Nobody
          BY <1>3, <1>5, <2>5, <4>5, PlansAlone
        <5>2. \A b \in Scope(c) \ {a} : plan'[b] = Nobody
          BY <2>2, <4>2, <5>1
        <5> QED
          BY <4>1, <4>2, <4>3, <5>1, <5>2 DEF Alone
      <4> QED
        BY <4>4, <4>5
    <3>3. Settles'
      <4> SUFFICES ASSUME NEW b \in Annotations PROVE Marred(b, "disputed")' \/ Settled(b)'
        BY DEF Settles
      <4> QED
        BY <1>1, <2>5, <2>7, SparedKept, SettledKept DEF FollowUpInv, Settles
    <3> QED
      BY <3>1, <3>2, <3>3 DEF FollowUpInv
  <2> QED
    BY <2>8, <2>9
<1>6. \/ plan' = plan /\ (Turns(w) \/ Raises(w))
      \/ \E t \in Times :
            /\ Dependents(a) = {}
            /\ plan' = [plan EXCEPT ![a] = Planned(a, answer, t)]
            /\ Marks(w, [job[w] EXCEPT !.step = "queue", !.origin = a,
                         !.package = Semantic("current", a.contract,
                                              Planned(a, answer, t)[1])],
                     Parted(a))
  BY Zenon DEF Follow
<1> QED
  BY <1>4, <1>5, <1>6, ZenonT(40)

\* ... and what the plan reserves is stored and related.
LEMMA QueueKeeps ==
    ASSUME FollowUpInv, OperationsInv', NEW w \in Workers, Queue(w)
    PROVE  FollowUpInv'
<1> DEFINE p == Mine(w)
           a == job[w].origin
<1>1. /\ OperationsInv /\ Typed /\ job[w].step = "queue"
      /\ UNCHANGED <<rebased, retired, plan, relation>>
  BY DEF FollowUpInv, OperationsInv, Queue, At
<1>2. a \in Annotations /\ p \in Semantics /\ plan[a] # Nobody /\ p = Reserved(a)
  BY <1>1, Own DEF Placed, Mine, FollowUpInv, Shapes, FollowsPlan, At
<1>3. p.dep = a.contract
  BY <1>1, <1>2, ReservedType
<1>4. CASE p \in Superseded
  <2>1. result' = result /\ Raises(w)
    BY <1>4 DEF Queue
  <2>2. packages' = packages
    BY <2>1 DEF packages
  <2>3. Advances(w) /\ job'[w].step \notin Following \cup Repairing
    BY <1>1, <2>1, LeavesAdvance DEF Following, Repairing
  <2> QED
    BY <1>1, <2>2, <2>3, ElsewhereStep
<1>5. CASE p \notin Superseded
  <2> DEFINE s == IF result'[p].status \in {"passed", "queued"} THEN "relate" ELSE "enqueue"
  <2>1. Store(p, NoResult) /\ GoesTo(w, s)
    BY <1>5 DEF Queue
  <2>2. s \in {"relate", "enqueue"}
    OBVIOUS
  <2> HIDE DEF s
  <2>3. /\ Advances(w) /\ job'[w].step = s /\ job'[w].package = p /\ job'[w].origin = a
        /\ packages' = packages \cup {p}
    BY <1>1, <2>1, GoesToAdvance, StoreFacts DEF Mine
  <2>4. FollowsPlan(w)' /\ job'[w].step \notin Repairing
    BY <1>2, <1>3, <2>2, <2>3 DEF FollowsPlan, At, Repairing
  <2>5. Pages(w)' /\ \A b : ~Repairs(w, b)'
    BY <2>4, ElsewhereFacts
  <2>6. Shapes'
    BY <1>1, <2>3, <2>4, <2>5, ShapesKept DEF FollowUpInv, Shapes, Relates
  <2>7. Alones'
    <3> SUFFICES ASSUME NEW c \in Annotations, ~Spared(c)' PROVE Alone(c)'
      BY DEF Alones
    <3>1. Alone(c) /\ Scope(c)' = Scope(c) /\ Scope(c) \subseteq Annotations
          /\ \A b : Reserved(b)' = Reserved(b)
      BY <1>1, <2>3, SparedKept, Scopes DEF FollowUpInv, Alones, Scope, Reserved
    <3>2. Superseded' = Superseded /\ Eventual(c)' \subseteq Eventual(c) \cup {p}
      BY <1>1, <2>3 DEF Superseded, Eventual
    <3>3. CASE a \notin Scope(c)
      <4>1. Eventual(c)' \subseteq Eventual(c)
        BY <1>2, <1>3, <3>2, <3>3, Versions DEF Eventual, Scope
      <4> QED
        BY <1>1, <2>3, <2>5, <3>1, <3>2, <4>1, AloneKept
    <3>4. CASE a \in Scope(c)
      <4>1. Eventual(c)' \subseteq {p}
        BY <1>2, <1>5, <3>1, <3>2, <3>4 DEF Alone
      <4>2. \A b \in Scope(c) : plan[b] # Nobody => Reserved(b) = p
        BY <1>2, <3>1, <3>4 DEF Alone
      <4>3. \A b \in Scope(c) : Undisturbed(b)'
        <5> SUFFICES ASSUME NEW b \in Scope(c), NEW v \in Workers \ {w} PROVE ~Repairs(v, b)'
          BY <1>1, <2>5, <3>1 DEF Undisturbed, Alone
        <5>1. ~Repairs(v, b) /\ job'[v] = job[v]
          BY <2>3, <3>1 DEF Alone, Undisturbed, Advances
        <5> QED
          BY <5>1 DEF Repairs, At
      <4> QED
        BY <1>1, <3>1, <4>1, <4>2, <4>3 DEF Alone
    <3> QED
      BY <3>3, <3>4
  <2>8. Settles'
    <3> SUFFICES ASSUME NEW b \in Annotations PROVE Marred(b, "disputed")' \/ Settled(b)'
      BY DEF Settles
    <3> QED
      BY <1>1, <2>3, <2>5, SparedKept, SettledKept DEF FollowUpInv, Settles
  <2> QED
    BY <2>6, <2>7, <2>8 DEF FollowUpInv
<1> QED
  BY <1>4, <1>5

LEMMA EnqueueKeeps ==
    ASSUME FollowUpInv, OperationsInv', NEW w \in Workers, Enqueue(w)
    PROVE  FollowUpInv'
<1>1. /\ OperationsInv /\ job[w].step = "enqueue" /\ Write(Mine(w), Queued)
      /\ GoesTo(w, "relate") /\ UNCHANGED <<rebased, retired, plan, relation>>
  BY DEF FollowUpInv, Enqueue, At
<1>2. Mine(w) \in packages
  BY <1>1, Own DEF OperationsInv, Placed, OnPackage, Mine
<1>3. packages' = packages
  BY <1>1, <1>2, WriteFacts
<1>4. /\ Advances(w) /\ job'[w].step = "relate"
      /\ job'[w].package = job[w].package /\ job'[w].origin = job[w].origin
  BY <1>1, GoesToAdvance
<1>5. FollowsPlan(w)' /\ job'[w].step \notin Repairing
  BY <1>1, <1>4 DEF FollowUpInv, Shapes, FollowsPlan, At, Repairing
<1> QED
  BY <1>1, <1>3, <1>4, <1>5, QuietStep

\* A relation is given where there was none, or stays.
LEMMA RelateKeeps ==
    ASSUME FollowUpInv, OperationsInv', NEW w \in Workers, Relate(w)
    PROVE  FollowUpInv'
<1> DEFINE a == job[w].origin
           p == Mine(w)
<1>1. /\ OperationsInv /\ Typed /\ job[w].step = "relate" /\ (Turns(w) \/ Raises(w))
      /\ UNCHANGED <<result, rebased, retired, plan>>
  BY DEF FollowUpInv, OperationsInv, Relate, At
<1>2. packages' = packages
  BY <1>1 DEF packages
<1>3. Advances(w) /\ job'[w].step \notin Following \cup Repairing
  BY <1>1, LeavesAdvance DEF Following, Repairing
<1>4. CASE relation' = relation
  BY <1>1, <1>2, <1>3, <1>4, ElsewhereStep
<1>5. CASE relation[a] = Nobody /\ relation' = [relation EXCEPT ![a] = p]
  <2>1. a \in Annotations /\ p \in Semantics /\ p.dep = a.contract /\ p # Nobody
    BY <1>1, Own, PackageKinds DEF Placed, Mine, FollowUpInv, Shapes, FollowsPlan
  <2>2. /\ relation'[a] = p
        /\ \A b \in Annotations \ {a} : relation'[b] = relation[b]
    BY <1>1, <1>5, <2>1 DEF Typed, TypeOK
  <2>3. FollowsPlan(w)' /\ Pages(w)' /\ \A b : ~Repairs(w, b)'
    BY <1>3, ElsewhereFacts, NotFollowing
  <2>4. Shapes'
    <3>1. \A b \in Annotations : Relates(b)'
      BY <2>1, <2>2 DEF FollowUpInv, Shapes, Relates
    <3> QED
      BY <1>1, <1>3, <2>3, <3>1, ShapesKept DEF FollowUpInv, Shapes
  <2>5. Alones'
    <3> SUFFICES ASSUME NEW c \in Annotations PROVE Spared(c)' \/ Alone(c)'
      BY DEF Alones
    <3>1. Eventual(c)' = Eventual(c) /\ Superseded' = Superseded
      BY <1>1, <1>2, EventualKept
    <3> QED
      BY <1>1, <1>3, <2>3, <3>1, SparedKept, AloneKept DEF FollowUpInv, Alones
  <2>6. Settles'
    <3> SUFFICES ASSUME NEW b \in Annotations, ~Marred(b, "disputed")' PROVE Settled(b)'
      BY DEF Settles
    <3>1. Settled(b)
      BY <1>3, SparedKept DEF FollowUpInv, Settles
    <3>2. \A v \in Workers : (Repairs(v, b)' => Repairs(v, b)) /\ (Repairs(v, b)' => v # w)
      BY <1>3, <2>3 DEF Advances, Repairs, At
    <3>3. \A u, v \in Workers : Repairs(u, b)' /\ Repairs(v, b)' => u = v
      BY <3>1, <3>2 DEF Settled
    <3>4. \A v \in Workers : job'[v].step = "keep" /\ job'[v].origin = b
              => job'[v].known \cap retired' = {}
      BY <1>1, <1>3, <3>1 DEF Settled, Advances, Following, Repairing, At
    <3>5. ASSUME NEW v \in Workers, job'[v].step = "retire", Repairs(v, b)'
          PROVE  relation'[b] # Nobody /\ relation'[b] \notin job'[v].page
      <4>1. v # w /\ job'[v] = job[v] /\ Repairs(v, b)
        BY <1>3, <3>2, <3>5 DEF Advances
      <4>2. relation[b] # Nobody /\ relation[b] \notin job[v].page
        BY <3>1, <3>5, <4>1 DEF Settled, At
      <4> QED
        BY <1>5, <2>2, <4>1, <4>2
    <3>6. relation'[b] \notin retired' /\ \A q \in retired' : q.dep = b.contract => relation'[b] # Nobody
      BY <1>1, <1>5, <2>1, <2>2, <3>1 DEF Settled
    <3> QED
      BY <3>3, <3>4, <3>5, <3>6 DEF Settled, At
  <2> QED
    BY <2>4, <2>5, <2>6 DEF FollowUpInv
<1>6. relation' = relation \/ (relation[a] = Nobody /\ relation' = [relation EXCEPT ![a] = p])
  <2>1. relation[a] = p => [relation EXCEPT ![a] = p] = relation
    BY <1>1 DEF Typed, TypeOK
  <2> QED
    BY <2>1 DEF Relate
<1> QED
  BY <1>4, <1>5, <1>6

----------------------------------------------------------------------------
(* A rebase puts one package in the place of another, ... *)

LEMMA ReplacedShape ==
    ASSUME NEW p \in Packages, NEW others
    PROVE  LET new == Replaced(p, others) IN
           new.kind = "semantic" =>
              p \in Semantics /\ (new.dep = p.dep \/ new.dep = "current")
<1>1. CASE p.kind = "annotation"
  BY <1>1 DEF Replaced, Annotation
<1>2. CASE p.kind # "annotation"
  <2>1. p \in Semantics
    BY <1>2, PackageKinds
  <2>2. PICK c \in Contracts, d \in Contracts, t \in Times \cup {0} : p = Semantic(c, d, t)
    BY <2>1 DEF Semantics, Contracts
  <2> DEFINE e == IF Annotation(d) \in others THEN "current" ELSE d
  <2>3. Replaced(p, others) = Semantic("current", e, t)
    BY <1>2, <2>2 DEF Replaced, Semantic
  <2> QED
    BY <2>1, <2>2, <2>3 DEF Semantic
<1> QED
  BY <1>1, <1>2

LEMMA CommitRebaseKeeps ==
    ASSUME FollowUpInv, OperationsInv', NEW w \in Workers, CommitRebase(w)
    PROVE  FollowUpInv'
<1> DEFINE p == Mine(w)
           new == Replaced(p, job[w].known)
           o == [job[w] EXCEPT !.step = "rebase", !.package = Nobody, !.page = @ \ {p},
                               !.outputs = {}]
<1>1. /\ OperationsInv /\ Typed /\ job[w].step = "commit" /\ Goes(w, o)
      /\ UNCHANGED <<retired, plan, relation>>
  BY DEF FollowUpInv, OperationsInv, CommitRebase, At
<1>2. job[w] \in JobRecords /\ p \in packages /\ packages \subseteq Packages
  BY <1>1, Own DEF Placed, OnPackage, Mine
<1>3. o.step = "rebase"
  BY <1>2 DEF JobRecords
<1> HIDE DEF o
<1>4. Advances(w) /\ job'[w].step \notin Following \cup Repairing
  BY <1>1, <1>3, MarksAdvance DEF Goes, Following, Repairing
<1>5. CASE p \in rebased
  <2>1. UNCHANGED <<result, rebased>>
    BY <1>5 DEF CommitRebase
  <2>2. packages' = packages
    BY <2>1 DEF packages
  <2> QED
    BY <1>1, <1>4, <2>1, <2>2, ElsewhereStep
<1>6. CASE p \notin rebased
  <2>1. /\ rebased' = rebased \cup {p}
        /\ result' = result \/ Write(new, Queued)
    BY <1>6 DEF CommitRebase
  <2>2. packages \subseteq packages' /\ packages' \subseteq packages \cup {new}
    <3>1. CASE result' = result
      BY <3>1 DEF packages
    <3>2. CASE Write(new, Queued)
      BY <3>2, WriteFacts
    <3> QED
      BY <2>1, <3>1, <3>2
  <2>3. Superseded' = Superseded \cup {p}
    BY <1>1, <2>1 DEF Superseded
  <2>4. FollowsPlan(w)' /\ Pages(w)' /\ \A b : ~Repairs(w, b)'
    BY <1>4, ElsewhereFacts, NotFollowing
  <2>5. Shapes'
    BY <1>1, <1>4, <2>4, ShapesKept DEF FollowUpInv, Shapes, Relates
  <2>6. new.kind = "semantic" =>
          p \in Semantics /\ (new.dep = p.dep \/ new.dep = "current")
    BY <1>2, ReplacedShape
  <2> HIDE DEF new
  <2>7. Alones'
    <3> SUFFICES ASSUME NEW c \in Annotations, ~Spared(c)' PROVE Alone(c)'
      BY DEF Alones
    <3>1. Alone(c) /\ Scope(c)' = Scope(c) /\ \A b : Reserved(b)' = Reserved(b)
      BY <1>1, <1>4, SparedKept DEF FollowUpInv, Alones, Scope, Reserved
    <3>2. Eventual(c)' \subseteq (Eventual(c) \ {p}) \cup {new}
      BY <2>2, <2>3 DEF Eventual
    <3>3. CASE p \notin Eventual(c)
      <4>1. ASSUME new \in Eventual(c)', new \notin packages PROVE FALSE
        <5>1. /\ new.kind = "semantic"
              /\ new.dep = c.contract \/ c.contract = "current"
          BY <4>1 DEF Eventual
        <5>2. PICK b \in Annotations : p.dep = b.contract
          BY <2>6, <5>1, Versions
        <5>3. b \in Scope(c)
          BY <2>6, <5>1, <5>2, Versions DEF Scope
        <5>4. p \notin retired
          BY <3>1, <5>2, <5>3 DEF Alone, Undisturbed
        <5> QED
          BY <1>1, <1>2, <1>6, <2>6, <3>3, <5>1, <5>2, <5>3, <5>4, EventualIn DEF Superseded
      <4>2. Eventual(c)' \subseteq Eventual(c)
        BY <2>3, <3>2, <4>1 DEF Eventual
      <4> QED
        BY <1>1, <1>4, <2>3, <2>4, <3>1, <4>2, AloneKept
    <3>4. CASE p \in Eventual(c)
      <4>1. Eventual(c)' \subseteq {new}
        BY <3>1, <3>2, <3>4 DEF Alone
      <4>2. \A b \in Scope(c) : ~(plan[b] # Nobody /\ Reserved(b) \notin Superseded')
        BY <2>3, <3>1, <3>4 DEF Alone
      <4>3. \A b \in Scope(c) : Undisturbed(b)'
        <5> SUFFICES ASSUME NEW b \in Scope(c), NEW v \in Workers \ {w} PROVE ~Repairs(v, b)'
          BY <1>1, <2>4, <3>1 DEF Undisturbed, Alone
        <5>1. ~Repairs(v, b) /\ job'[v] = job[v]
          BY <1>4, <3>1 DEF Alone, Undisturbed, Advances
        <5> QED
          BY <5>1 DEF Repairs, At
      <4> QED
        BY <1>1, <3>1, <4>1, <4>2, <4>3 DEF Alone
    <3> QED
      BY <3>3, <3>4
  <2>8. Settles'
    <3> SUFFICES ASSUME NEW b \in Annotations PROVE Marred(b, "disputed")' \/ Settled(b)'
      BY DEF Settles
    <3> QED
      BY <1>1, <1>4, <2>4, SparedKept, SettledKept DEF FollowUpInv, Settles
  <2> QED
    BY <2>5, <2>7, <2>8 DEF FollowUpInv
<1> QED
  BY <1>5, <1>6

----------------------------------------------------------------------------
(* ... and a repair relates one of several before it retires the others. *)

LEMMA RepairKeeps ==
    ASSUME FollowUpInv, OperationsInv', NEW w \in Workers, Repair(w)
    PROVE  FollowUpInv'
<1>1. PICK a \in Annotations, p \in Semantics :
          LET extras == Dependents(a) \ {p}
              keep == [Idle EXCEPT !.step = "keep", !.page = extras, !.known = {p}, !.origin = a]
              retire == [Idle EXCEPT !.step = "retire", !.page = extras]
          IN /\ Cardinality(Dependents(a)) > 1
             /\ p \in Dependents(a)
             /\ \/ relation[a] = p /\ Calls(w, "repair", retire, Disputed(w, a))
                \/ relation[a] # p /\ Calls(w, "repair", keep, Disputed(w, a))
             /\ UNCHANGED <<stored, history>>
  BY Zenon DEF Repair
<1> DEFINE extras == Dependents(a) \ {p}
           keep == [Idle EXCEPT !.step = "keep", !.page = extras, !.known = {p}, !.origin = a]
           retire == [Idle EXCEPT !.step = "retire", !.page = extras]
<1>2. OperationsInv /\ Typed
  BY DEF FollowUpInv, OperationsInv
<1>3. packages' = packages /\ UNCHANGED <<rebased, retired, plan, relation>>
  BY <1>1 DEF stored, packages
<1>4. /\ p \notin retired /\ p \notin extras /\ p.dep = a.contract /\ p # Nobody
      /\ extras \subseteq Semantics /\ \A q \in extras : q.dep = a.contract
  BY <1>1, <1>2, DependentsIn, PackageKinds DEF Superseded
<1>5. \/ relation[a] = p /\ Marks(w, retire, Disputed(w, a))
      \/ Marks(w, keep, Disputed(w, a))
  BY <1>1 DEF Calls
<1> HIDE DEF extras
<1>6. keep.step = "keep" /\ keep.page = extras /\ keep.known = {p} /\ keep.origin = a
  BY DEF Idle
<1>7. retire.step = "retire" /\ retire.page = extras
  BY DEF Idle
<1> HIDE DEF keep, retire
<1>8. /\ Advances(w) /\ Disputed(w, a) \subseteq marred'
      /\ job'[w] = keep \/ (job'[w] = retire /\ relation[a] = p)
  BY <1>2, <1>5, MarksAdvance
<1>9. \A b \in Annotations : Repairs(w, b)' => b = a
  BY <1>4, <1>6, <1>7, <1>8, Versions DEF Repairs, At
<1>10. Shapes'
  <2>1. FollowsPlan(w)'
    BY <1>6, <1>7, <1>8, NotFollowing DEF Following
  <2>2. Pages(w)'
    BY <1>4, <1>6, <1>7, <1>8 DEF Pages, At
  <2> QED
    BY <1>3, <1>8, <2>1, <2>2, ShapesKept DEF FollowUpInv, Shapes, Relates
<1>11. Alones'
  <2> SUFFICES ASSUME NEW c \in Annotations, ~Spared(c)' PROVE Alone(c)'
    BY DEF Alones
  <2>1. Alone(c)
    BY <1>8, SparedKept DEF FollowUpInv, Alones
  <2>2. a \notin Scope(c)
    <3> SUFFICES ASSUME a \in Scope(c) PROVE FALSE
      OBVIOUS
    <3>1. \A q, r \in Dependents(a) : q = r
      BY <1>2, <2>1, DependentsIn DEF Alone
    <3>2. Dependents(a) = {p}
      BY <1>1, <3>1
    <3>3. Cardinality(Dependents(a)) = 1
      BY <3>2, FS_Singleton, Zenon
    <3> QED
      BY <1>1, <3>3
  <2>3. Eventual(c)' = Eventual(c) /\ Superseded' = Superseded
    BY <1>3, EventualKept
  <2>4. \A b \in Scope(c) : ~Repairs(w, b)'
    BY <1>9, <2>2, Scopes
  <2> QED
    BY <1>3, <1>8, <2>1, <2>3, <2>4, AloneKept
<1>12. Settles'
  <2> SUFFICES ASSUME NEW b \in Annotations, ~Marred(b, "disputed")' PROVE Settled(b)'
    BY DEF Settles
  <2>1. Settled(b)
    BY <1>8, SparedKept DEF FollowUpInv, Settles
  <2>2. CASE b # a
    BY <1>3, <1>8, <1>9, <2>1, <2>2, SettledKept
  <2>3. CASE b = a
    <3>1. \A v \in Workers \ {w} : ~Repairs(v, a)
      BY <1>8, <2>3 DEF Disputed, Marred
    <3>2. \A v \in Workers \ {w} : job'[v] = job[v]
      BY <1>8 DEF Advances
    <3>3. \A v \in Workers \ {w} : ~Repairs(v, a)'
      BY <3>1, <3>2 DEF Repairs, At
    <3>4. \A v \in Workers : job'[v].step = "keep" /\ job'[v].origin = a
              => job'[v].known \cap retired' = {}
      BY <1>3, <1>4, <1>6, <1>7, <1>8, <3>3 DEF Repairs, At
    <3>5. \A v \in Workers : job'[v].step = "retire" /\ Repairs(v, a)'
              => relation'[a] # Nobody /\ relation'[a] \notin job'[v].page
      BY <1>3, <1>4, <1>6, <1>7, <1>8, <3>3
    <3> QED
      BY <1>3, <2>1, <2>3, <3>3, <3>4, <3>5 DEF Settled, At
  <2> QED
    BY <2>2, <2>3
<1> QED
  BY <1>10, <1>11, <1>12 DEF FollowUpInv

LEMMA KeepKeeps ==
    ASSUME FollowUpInv, OperationsInv', NEW w \in Workers, Keep(w)
    PROVE  FollowUpInv'
<1> DEFINE a == job[w].origin
           S == job[w].page
           o == [Idle EXCEPT !.step = "retire", !.page = S]
<1>1. /\ OperationsInv /\ Typed /\ job[w].step = "keep" /\ Goes(w, o)
      /\ UNCHANGED <<result, rebased, retired, plan>>
  BY DEF FollowUpInv, OperationsInv, Keep, At
<1>2. a \in Annotations
  BY <1>1, Own DEF Placed
<1>3. PICK p \in job[w].known : relation' = [relation EXCEPT ![a] = p]
  BY DEF Keep
<1>4. /\ S \subseteq Semantics /\ p \in Semantics /\ p \notin S /\ p # Nobody
      /\ p.dep = a.contract /\ \A q \in S : q.dep = a.contract
  BY <1>1, PackageKinds DEF FollowUpInv, Shapes, Pages, At
<1>5. relation'[a] = p /\ \A b \in Annotations \ {a} : relation'[b] = relation[b]
  BY <1>1, <1>2, <1>3 DEF Typed, TypeOK
<1>6. packages' = packages
  BY <1>1 DEF packages
<1>7. o.step = "retire" /\ o.page = S
  BY DEF Idle
<1> HIDE DEF o
<1>8. Advances(w) /\ job'[w] = o
  BY <1>1, MarksAdvance DEF Goes
<1>9. Repairs(w, a) /\ \A b \in Annotations : Repairs(w, b)' => b = a
  BY <1>1, <1>2, <1>4, <1>7, <1>8, Versions DEF Repairs, At
<1>10. Shapes'
  <2>1. FollowsPlan(w)'
    BY <1>7, <1>8, NotFollowing DEF Following
  <2>2. Pages(w)'
    BY <1>4, <1>7, <1>8 DEF Pages, At
  <2>3. \A b \in Annotations : Relates(b)'
    BY <1>4, <1>5 DEF FollowUpInv, Shapes, Relates
  <2> QED
    BY <1>1, <1>8, <2>1, <2>2, <2>3, ShapesKept DEF FollowUpInv, Shapes
<1>11. Alones'
  <2> SUFFICES ASSUME NEW c \in Annotations, ~Spared(c)' PROVE Alone(c)'
    BY DEF Alones
  <2>1. Alone(c)
    BY <1>8, SparedKept DEF FollowUpInv, Alones
  <2>2. Eventual(c)' = Eventual(c) /\ Superseded' = Superseded
    BY <1>1, <1>6, EventualKept
  <2>3. \A b \in Scope(c) : ~Repairs(w, b)'
    BY <1>9, <2>1, Scopes DEF Alone, Undisturbed
  <2> QED
    BY <1>1, <1>8, <2>1, <2>2, <2>3, AloneKept
<1>12. Settles'
  <2> SUFFICES ASSUME NEW b \in Annotations, ~Marred(b, "disputed")' PROVE Settled(b)'
    BY DEF Settles
  <2>1. Settled(b)
    BY <1>8, SparedKept DEF FollowUpInv, Settles
  <2>2. CASE b # a
    BY <1>1, <1>5, <1>8, <1>9, <2>1, <2>2, SettledKept
  <2>3. CASE b = a
    <3>1. \A v \in Workers \ {w} : ~Repairs(v, b)
      BY <1>9, <2>1, <2>3 DEF Settled
    <3>2. \A v \in Workers \ {w} : job'[v] = job[v]
      BY <1>8 DEF Advances
    <3>3. \A v \in Workers \ {w} : ~Repairs(v, b)'
      BY <3>1, <3>2 DEF Repairs, At
    <3>4. \A v \in Workers : job'[v].step = "keep" /\ job'[v].origin = b
              => job'[v].known \cap retired' = {}
      BY <1>7, <1>8, <3>3 DEF Repairs, At
    <3>5. \A v \in Workers : job'[v].step = "retire" /\ Repairs(v, b)'
              => relation'[b] # Nobody /\ relation'[b] \notin job'[v].page
      BY <1>4, <1>5, <1>7, <1>8, <2>3, <3>3
    <3>6. p \notin retired
      BY <1>1, <2>1, <2>3 DEF Settled, At
    <3> QED
      BY <1>1, <1>4, <1>5, <2>3, <3>3, <3>4, <3>5, <3>6 DEF Settled, At
  <2> QED
    BY <2>2, <2>3
<1> QED
  BY <1>10, <1>11, <1>12 DEF FollowUpInv

LEMMA RetireKeeps ==
    ASSUME FollowUpInv, OperationsInv', NEW w \in Workers, Retire(w)
    PROVE  FollowUpInv'
<1> DEFINE S == job[w].page
           p == First(S)
           o == [job[w] EXCEPT !.page = @ \ {p}]
<1>1. /\ OperationsInv /\ Typed /\ job[w].step = "retire"
      /\ UNCHANGED <<result, rebased, plan, relation>>
  BY DEF FollowUpInv, OperationsInv, Retire, At
<1>2. packages' = packages
  BY <1>1 DEF packages
<1>3. CASE S = {}
  <2>1. retired' = retired /\ Goes(w, Idle)
    BY <1>3 DEF Retire
  <2>2. Advances(w) /\ job'[w].step \notin Following \cup Repairing
    BY <1>1, <2>1, LeavesAdvance DEF Following, Repairing
  <2> QED
    BY <1>1, <1>2, <2>1, <2>2, ElsewhereStep
<1>4. CASE S # {}
  <2>1. retired' = retired \cup {p} /\ Goes(w, o)
    BY <1>4 DEF Retire
  <2>2. S \subseteq Semantics /\ p \in S
    BY <1>1, <1>4, FirstIsOne DEF FollowUpInv, Shapes, Pages
  <2> HIDE DEF p
  <2>3. o.step = "retire" /\ o.page = S \ {p}
    BY <1>1, Own DEF JobRecords
  <2> HIDE DEF o
  <2>4. Advances(w) /\ job'[w] = o
    BY <1>1, <2>1, MarksAdvance DEF Goes
  <2>5. \A b : (Repairs(w, b)' => Repairs(w, b)) /\ (p.dep = b.contract => Repairs(w, b))
    BY <1>1, <2>2, <2>3, <2>4 DEF Repairs, At
  <2>6. \A v \in Workers \ {w} : job'[v] = job[v]
    BY <2>4 DEF Advances
  <2>7. \A b : \A v \in Workers : Repairs(v, b)' => Repairs(v, b)
    BY <2>5, <2>6 DEF Repairs, At
  <2>8. Shapes'
    <3>1. FollowsPlan(w)'
      BY <2>3, <2>4, NotFollowing DEF Following
    <3>2. Pages(w)'
      BY <2>2, <2>3, <2>4 DEF Pages, At
    <3>3. retired' \subseteq Semantics
      BY <2>1, <2>2 DEF FollowUpInv, Shapes
    <3> QED
      BY <1>1, <2>4, <3>1, <3>2, <3>3, ShapesKept DEF FollowUpInv, Shapes, Relates
  <2>9. Alones'
    <3> SUFFICES ASSUME NEW c \in Annotations, ~Spared(c)' PROVE Alone(c)'
      BY DEF Alones
    <3>1. Alone(c)
      BY <2>4, SparedKept DEF FollowUpInv, Alones
    <3>2. Eventual(c)' \subseteq Eventual(c) /\ Superseded \subseteq Superseded'
      BY <1>1, <1>2, <2>1 DEF Eventual, Superseded
    <3>3. \A b \in Scope(c) : ~Repairs(w, b)' /\ p.dep # b.contract
      BY <2>5, <3>1 DEF Alone, Undisturbed
    <3>4. \A b \in Scope(c) : \A q \in retired' \ retired : q.dep # b.contract
      BY <2>1, <3>3
    <3> QED
      BY <1>1, <2>4, <3>1, <3>2, <3>3, <3>4, AloneKept
  <2>10. Settles'
    <3> SUFFICES ASSUME NEW b \in Annotations, ~Marred(b, "disputed")' PROVE Settled(b)'
      BY DEF Settles
    <3>1. Settled(b)
      BY <2>4, SparedKept DEF FollowUpInv, Settles
    <3>2. \A u, v \in Workers : Repairs(u, b)' /\ Repairs(v, b)' => u = v
      BY <2>7, <3>1 DEF Settled
    <3>3. ASSUME NEW v \in Workers, job'[v].step = "keep", job'[v].origin = b
          PROVE  job'[v].known \cap retired' = {}
      <4>1. v # w /\ job'[v] = job[v]
        BY <2>3, <2>4, <2>6, <3>3
      <4>2. Repairs(v, b) /\ job[v].known \cap retired = {}
        BY <3>1, <3>3, <4>1 DEF Settled, Repairs, At
      <4>3. p.dep # b.contract
        BY <2>5, <3>1, <4>1, <4>2 DEF Settled
      <4>4. p \notin job[v].known
        BY <3>3, <4>1, <4>3 DEF FollowUpInv, Shapes, Pages, At
      <4> QED
        BY <2>1, <4>1, <4>2, <4>4
    <3>4. ASSUME NEW v \in Workers, job'[v].step = "retire", Repairs(v, b)'
          PROVE  relation'[b] # Nobody /\ relation'[b] \notin job'[v].page
      <4>1. Repairs(v, b) /\ job[v].step = "retire" /\ job'[v].page \subseteq job[v].page
        BY <1>1, <2>3, <2>4, <2>6, <2>7, <3>4
      <4> QED
        BY <1>1, <3>1, <4>1 DEF Settled, At
    <3>5. relation[b] # p /\ (p.dep = b.contract => relation[b] # Nobody)
      <4>1. CASE p.dep = b.contract
        BY <1>1, <2>2, <2>5, <3>1, <4>1 DEF Settled, At
      <4>2. CASE p.dep # b.contract
        BY <2>2, <4>2, PackageKinds DEF FollowUpInv, Shapes, Relates
      <4> QED
        BY <4>1, <4>2
    <3> QED
      BY <1>1, <2>1, <3>1, <3>2, <3>3, <3>4, <3>5 DEF Settled, At
  <2> QED
    BY <2>8, <2>9, <2>10 DEF FollowUpInv
<1> QED
  BY <1>3, <1>4

----------------------------------------------------------------------------
(* What every behaviour keeps. *)

LEMMA FollowUpsStart ==
    ASSUME Init
    PROVE  FollowUpInv
<1>1. PICK x \in Workloads :
          /\ result = x.results /\ retired = {} /\ rebased = {}
          /\ plan = [a \in Annotations |-> Nobody]
          /\ relation = [a \in Annotations |-> Nobody]
          /\ job = [w \in Workers |-> Idle]
          /\ marred = {<<a, "doubled">> : a \in {b \in Annotations :
                                                  \E p, q \in Eventual(b) : p # q}}
  BY DEF Init
<1>2. \A w \in Workers : job[w].step = "idle"
  BY <1>1 DEF Idle
<1>3. \A a : \A w \in Workers : ~Repairs(w, a)
  BY <1>2 DEF Repairs, At
<1>4. Shapes
  BY <1>1, <1>2 DEF Shapes, Relates, FollowsPlan, Pages, At
<1>5. ASSUME NEW a \in Annotations, ~Spared(a) PROVE Alone(a)
  <2>1. \A p, q \in Eventual(a) : p = q
    BY <1>1, <1>5 DEF Spared, Marred
  <2>2. \A b \in Scope(a) : plan[b] = Nobody /\ Undisturbed(b)
    BY <1>1, <1>3, Scopes DEF Undisturbed
  <2> QED
    BY <2>1, <2>2 DEF Alone
<1>6. Settles
  BY <1>1, <1>2, <1>3 DEF Settles, Settled, At
<1> QED
  BY <1>4, <1>5, <1>6, Started DEF FollowUpInv, Alones

LEMMA FollowUpsStutter ==
    ASSUME FollowUpInv, OperationsInv', UNCHANGED vars
    PROVE  FollowUpInv'
<1>1. UNCHANGED <<result, rebased, retired, plan, relation, job, marred>>
  BY DEF vars, stored
<1>2. packages' = packages
  BY <1>1 DEF packages
<1>3. Shapes'
  BY <1>1 DEF FollowUpInv, Shapes, Relates, FollowsPlan, Pages, Reserved, At
<1>4. Alones'
  <2> SUFFICES ASSUME NEW a \in Annotations, Spared(a) \/ Alone(a) PROVE Spared(a)' \/ Alone(a)'
    BY DEF FollowUpInv, Alones
  <2>1. Eventual(a)' = Eventual(a) /\ Superseded' = Superseded
    BY <1>1, <1>2, EventualKept
  <2>2. Alone(a) => Alone(a)'
    BY <1>1, <2>1 DEF Alone, Scope, Reserved, Undisturbed, Repairs, At
  <2> QED
    BY <1>1, <2>2 DEF Spared, Marred
<1>5. Settles'
  <2> SUFFICES ASSUME NEW a \in Annotations, Settled(a) \/ Marred(a, "disputed")
               PROVE  Settled(a)' \/ Marred(a, "disputed")'
    BY DEF FollowUpInv, Settles
  <2>1. \A v : (Repairs(v, a)' <=> Repairs(v, a)) /\ \A s : At(v, s)' <=> At(v, s)
    BY <1>1 DEF Repairs, At
  <2> QED
    BY <1>1, <2>1 DEF Settled, Marred
<1> QED
  BY <1>3, <1>4, <1>5 DEF FollowUpInv

LEMMA FollowUpsStep ==
    ASSUME FollowUpInv, [Next]_vars
    PROVE  FollowUpInv'
<1>1. OperationsInv'
  BY Stepping DEF FollowUpInv
<1>2. CASE UNCHANGED vars
  BY <1>1, <1>2, FollowUpsStutter
<1>3. CASE Next
  <2>1. PICK w \in Workers :
            \/ \E p \in Packages : BeginImport(w, p)
            \/ BeginCycle(w)
            \/ BeginRebase(w)
            \/ Repair(w)
            \/ Continue(w)
            \/ Fail(w)
            \/ Kill(w)
    BY <1>3 DEF Next
  <2>2. CASE Continue(w)
    BY <1>1, <2>2, BeginSteps, DispatchSteps, FollowKeeps, QueueKeeps, EnqueueKeeps,
       RelateKeeps, CommitRebaseKeeps, KeepKeeps, RetireKeeps DEF Continue
  <2> QED
    BY <1>1, <2>1, <2>2, BeginSteps, RepairKeeps
<1> QED
  BY <1>2, <1>3

LEMMA OneOfEach ==
    ASSUME FollowUpInv
    PROVE  OneFollowUp
<1>1. Typed
  BY DEF FollowUpInv, OperationsInv
<1> SUFFICES ASSUME NEW a \in Annotations
             PROVE  /\ Cardinality(Dependents(a)) <= 1 \/ Spared(a)
                    /\ relation[a] \notin retired \/ Marred(a, "disputed")
  BY DEF OneFollowUp, Spared
<1>2. Alone(a) => Cardinality(Dependents(a)) <= 1
  <2>1. Dependents(a) \subseteq Eventual(a)
    BY <1>1, Scopes, DependentsIn
  <2>2. Alone(a) => \A p, q \in Dependents(a) : p = q
    BY <2>1 DEF Alone
  <2> QED
    BY <2>2, AtMostOne
<1>3. Settled(a) => relation[a] \notin retired
  BY DEF Settled
<1> QED
  BY <1>2, <1>3 DEF FollowUpInv, Alones, Settles

\* However many workers import, replay, rebase and repair, an annotation has one
\* follow-up that is not superseded, unless duplicates were there before or it
\* was planned beside that of another version; and it is never related to one
\* that was retired, unless two repairs of it met.
THEOREM FollowUpsStayOne == Spec => []OneFollowUp
<1>1. Init => FollowUpInv
  BY FollowUpsStart
<1>2. FollowUpInv /\ [Next]_vars => FollowUpInv'
  BY FollowUpsStep
<1>3. FollowUpInv => OneFollowUp
  BY OneOfEach
<1> QED
  BY <1>1, <1>2, <1>3, PTL DEF Spec

=============================================================================
