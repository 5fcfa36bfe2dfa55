------------------------ MODULE MatterHierarchyProofs ------------------------
(***************************************************************************)
(* What MatterHierarchy promises, for any matters, processes and requests. *)
(* HierarchyInv is inductive.  It says of each process which call it is at *)
(* each step of, that what it checked still holds unless another process   *)
(* has overtaken it, that what it owes it is going to invalidate or to     *)
(* publish, and that what it read and was not overtaken is what it would   *)
(* read now; and of the store, that the edges form a forest, that a matter *)
(* with a current audit agrees with its summary unless some operation owes *)
(* it, and that the dispositions of a split are those of its call.         *)
(***************************************************************************)
EXTENDS MatterHierarchy, TLAPS

Kind(p) == Call(p).kind
Family(call) == call.children \cup {call.parent}
Asking == {"attach", "batch", "reparent", "detach", "change"}

\* Which call a process is at each step of.
ControlOf(p) ==
    /\ op[p].req \in given \cup {NoRequest}
    /\ op[p].step \in {"closed", "idle", "recover"} => op[p].req = NoRequest
    /\ op[p].step = "checked" => op[p].req \in given /\ Kind(p) \in Asking
    /\ op[p].step = "written" =>
         op[p].req \in given /\ Kind(p) \in {"attach", "reparent", "detach", "change", "split"}
    /\ op[p].step = "settle" => op[p].req \in given /\ Kind(p) \in {"attach", "reparent"}
    /\ op[p].step \in {"requests", "apply", "applied"} => op[p].req \in given /\ Kind(p) = "split"
    /\ op[p].step = "applied" => /\ op[p].member \in DOMAIN Call(p).members
                                 /\ Call(p).members[op[p].member] = "move"
    /\ op[p].step \in {"publish", "read"} => op[p].queue # {} \/ op[p].req \in given
    /\ op[p].step \in {"checked", "written", "settle", "requests", "apply", "applied"} => op[p].queue = {}
    /\ op[p].step = "mark" => op[p].queue # {}

\* What was checked, and not overtaken, still holds.
PlanOf(p) ==
    op[p].stale = {} =>
        /\ op[p].step = "checked" /\ Kind(p) \in {"attach", "batch", "reparent"} =>
             Call(p).children \cap Chain(Call(p).parent) = {}
        /\ op[p].step \in {"written", "settle"} /\ Kind(p) \in {"attach", "reparent"} =>
             \A c \in Call(p).children : edge[c].parent = Call(p).parent

\* What an operation owes it is going to invalidate or to publish.
ReachOf(p) ==
    /\ op[p].step = "checked" /\ Kind(p) = "batch" =>
         op[p].todo \subseteq Call(p).children /\ Family(Call(p)) \subseteq op[p].ids
    /\ op[p].step \in {"checked", "written"} /\ Kind(p) = "reparent" =>
         Family(Call(p)) \cup {Call(p).from} \subseteq op[p].ids
    /\ op[p].step \in {"checked", "written"} /\ Kind(p) = "detach" =>
         Call(p).children \cup {Call(p).from} \subseteq op[p].ids
    /\ op[p].step = "written" /\ Kind(p) = "split" => Family(Call(p)) \subseteq op[p].ids
    /\ op[p].step \in {"requests", "apply", "applied"} => Family(Call(p)) \subseteq op[p].ids
    /\ op[p].step = "settle" => Family(Call(p)) \subseteq op[p].todo

OwesOf(p) ==
    /\ op[p].step \in {"closed", "idle", "recover", "checked", "settle", "requests", "mark"} =>
         op[p].owes = {}
    /\ op[p].step = "written" =>
         /\ Kind(p) = "attach" => op[p].owes \subseteq Family(Call(p))
         /\ Kind(p) \in {"reparent", "detach"} => op[p].owes \subseteq op[p].ids
         /\ Kind(p) = "split" => op[p].owes = {}
    /\ op[p].step \in {"apply", "applied"} => op[p].owes \subseteq op[p].ids
    /\ op[p].step \in {"publish", "read"} => op[p].owes \subseteq op[p].todo
    /\ op[p].step = "read" => DOMAIN op[p].seen \subseteq op[p].todo

SeenOf(p) ==
    op[p].step = "read" =>
        \A m \in DOMAIN op[p].seen \ op[p].stale : op[p].seen[m] = View(m)

\* What an operation owes and will settle: a change invalidates the ancestors
\* that its matter has by then.
Due(p) ==
    IF op[p].step = "written" /\ Kind(p) = "change"
    THEN {m \in op[p].owes : m \in Call(p).children \/ \E c \in Call(p).children : CurrentParent(c) = m}
    ELSE op[p].owes

Settled(m) ==
    audit[m] = "current" => summary[m] = View(m) \/ m \in lost \/ \E p \in Processes : m \in Due(p)

RestSettled == ~raced => \A m \in Matters : Settled(m)

Covered(r, ids) == \A m \in DOMAIN What[r].members : \E d \in DisposedOf(r, ids) : d.member = m
Executed(r, ids) ==
    \A m \in DOMAIN What[r].members :
        /\ \E d \in DisposedOf(r, ids) : d.member = m
        /\ What[r].members[m] # "review"
        /\ What[r].members[m] = "move" => <<r, m>> \in facts[What[r].parent]

DispositionAgrees(d) ==
    /\ d.req \in given
    /\ What[d.req].kind = "split" /\ d.member \in DOMAIN What[d.req].members
    /\ Family(What[d.req]) \subseteq d.ids
    /\ d.status = "current" =>
         /\ What[d.req].members[d.member] # "review"
         /\ What[d.req].members[d.member] = "move" =>
              <<d.req, d.member>> \in facts[What[d.req].parent]
RecordOf(r, ids) ==
    \/ <<r, ids>> \in torn
    \/ Covered(r, ids)
    \/ \E q \in Processes : At(q, "requests") /\ op[q].req = r /\ op[q].ids = ids
DispositionsAgree == \A d \in disposed : DispositionAgrees(d) /\ RecordOf(d.req, d.ids)

SplitOf(p) ==
    LET x == <<op[p].req, op[p].ids>> IN
    /\ op[p].step \in {"apply", "applied"} => x \in torn \/ Covered(op[p].req, op[p].ids)
    /\ op[p].step = "applied" => <<op[p].req, op[p].member>> \in facts[Call(p).parent]
    /\ op[p].step \in {"publish", "read"} /\ op[p].queue = {} /\ op[p].req # NoRequest /\ Kind(p) = "split" =>
         x \in torn \/ Executed(op[p].req, op[p].ids)

TypeInv == TypeOK /\ op \in [Processes -> Operations]
ProcessInv(p) == ControlOf(p) /\ PlanOf(p) /\ ReachOf(p) /\ OwesOf(p) /\ SeenOf(p) /\ SplitOf(p)
HierarchyInv ==
    /\ TypeInv
    /\ \A p \in Processes : ProcessInv(p)
    /\ Forest /\ RestSettled /\ DispositionsAgree

------------------------------------------------------------------------------
(* The operators of the model.                                             *)

LEMMA IdleType ==
  /\ Idle \in Operations /\ Closed \in Operations
  /\ Idle.step = "idle" /\ Idle.req = NoRequest /\ Idle.owes = {} /\ Idle.queue = {} /\ Idle.stale = {}
  /\ Closed.step = "closed" /\ Closed.req = NoRequest /\ Closed.owes = {} /\ Closed.queue = {}
<1>1. <<>> \in [{} -> Views] OBVIOUS
<1>2. <<>> \in UNION {[S -> Views] : S \in SUBSET Matters} BY <1>1
<1>3. Idle \in Operations BY <1>2 DEF Idle, Operations, Steps
<1>4. Closed \in Operations BY <1>3 DEF Closed, Operations, Steps
<1> QED BY <1>3, <1>4 DEF Idle, Closed

LEMMA ViewType ==
  ASSUME HierarchyAssumption, NEW m \in Matters,
         edge \in [Matters -> Edges \cup {NoEdge}], facts \in [Matters -> SUBSET Facts]
  PROVE  View(m) \in Views /\ CurrentParent(m) \in Matters \cup {Root}
<1>1. \A c \in Matters : edge[c] \in Edges \/ edge[c] = NoEdge OBVIOUS
<1>2. CurrentParent(m) \in Matters \cup {Root} BY <1>1 DEF CurrentParent, Edges, NoEdge
<1>3. \A c \in CurrentChildren(m) : c \in Matters /\ edge[c].by \in Requests
  BY <1>1 DEF CurrentChildren, NoEdge, Edges, HierarchyAssumption
<1>4. \A c \in Matters : facts[c] \in SUBSET Facts /\ Shown(c) \in SUBSET Facts
  BY DEF Shown
<1>5. {<<c, edge[c].by, Shown(c)>> : c \in CurrentChildren(m)} \in SUBSET (Matters \X Requests \X SUBSET Facts)
  BY <1>3, <1>4
<1> QED BY <1>2, <1>4, <1>5 DEF View, Views

\* A chain holds its first matter and is closed.
LEMMA ChainIs ==
  ASSUME HierarchyAssumption, TypeOK, NEW m \in Matters
  PROVE  /\ m \in Chain(m) /\ Chain(m) \subseteq Matters /\ Chains({m}) = Chain(m)
         /\ \A x \in Chain(m) : IsEdge(x) => edge[x].parent \in Chain(m)
<1>1. m \in Chain(m) /\ Chain(m) \subseteq Matters BY DEF Chain
<1>2. ASSUME NEW x \in Chain(m), IsEdge(x) PROVE edge[x].parent \in Chain(m)
  <2>1. edge[x] \in Edges BY <1>1, <1>2 DEF TypeOK, IsEdge
  <2>2. edge[x].parent \in Matters BY <2>1 DEF Edges
  <2>3. ASSUME NEW S \in SUBSET Matters, m \in S, IsClosed(S) PROVE edge[x].parent \in S
    <3>1. x \in S BY <2>3 DEF Chain
    <3> QED BY <3>1, <2>3, <1>2 DEF IsClosed
  <2> QED BY <2>2, <2>3 DEF Chain
<1>3. Chains({m}) = Chain(m) BY DEF Chains
<1> QED BY <1>1, <1>2, <1>3

IsForest(h) == \A S \in SUBSET Matters \ {{}} : \E m \in S : h[m].parent \notin S

\* Giving a parent to matters that are not among its ancestors makes no cycle:
\* the ancestors of that parent would be a cycle of the edges before.
LEMMA ForestGrows ==
  ASSUME HierarchyAssumption, TypeOK, IsForest(edge), NEW C \in SUBSET Matters, NEW m \in Matters,
         C \cap Chain(m) = {}, NEW e \in Edges, e.parent = m, Put(C, e)
  PROVE  IsForest(edge')
<1> SUFFICES ASSUME NEW S \in SUBSET Matters \ {{}}, \A x \in S : edge'[x].parent \in S PROVE FALSE
  BY DEF IsForest
<1>1. \A x \in Matters : edge'[x] = IF x \in C THEN e ELSE edge[x] BY DEF Put
<1> DEFINE T == S \cap Chain(m)
<1>2. \A x \in T : edge'[x] = edge[x] /\ x \in Matters BY <1>1
<1>3. T # {}
  <2>1. S \cap C # {} BY <1>1 DEF IsForest
  <2>2. m \in S BY <1>1, <2>1
  <2> QED BY <2>2, ChainIs
<1>4. ASSUME NEW x \in T PROVE edge[x].parent \in T
  <2>1. edge[x].parent \in S BY <1>2
  <2>2. IsEdge(x) BY <2>1 DEF IsEdge, NoEdge, HierarchyAssumption
  <2> QED BY <2>1, <2>2, ChainIs
<1> QED BY <1>3, <1>4 DEF IsForest

\* Taking parents away, or writing them again, makes none either.
LEMMA ForestStays ==
  ASSUME HierarchyAssumption, IsForest(edge),
         \A x \in Matters : edge'[x].parent \in {edge[x].parent, Root}
  PROVE  IsForest(edge')
<1> SUFFICES ASSUME NEW S \in SUBSET Matters \ {{}}, \A x \in S : edge'[x].parent \in S PROVE FALSE
  BY DEF IsForest
<1>1. \A x \in S : edge[x].parent = edge'[x].parent BY DEF HierarchyAssumption
<1> QED BY <1>1 DEF IsForest

------------------------------------------------------------------------------
(* What a step of one process does to the others.                          *)

\* The step leaves q's operation as it is, except that it may overtake it.
Stays(q) ==
    /\ op'[q].step = op[q].step /\ op'[q].req = op[q].req /\ op'[q].ids = op[q].ids
    /\ op'[q].todo = op[q].todo /\ op'[q].seen = op[q].seen /\ op'[q].owes = op[q].owes
    /\ op'[q].queue = op[q].queue /\ op'[q].member = op[q].member
    /\ op[q].stale \subseteq op'[q].stale
    /\ Relies(q) => Changed \subseteq op'[q].stale

\* Nothing that splits have recorded is taken back.
SplitsGrow ==
    /\ torn \subseteq torn'
    /\ \A m \in Matters : facts[m] \subseteq facts'[m]
    /\ \A d \in disposed : \E e \in disposed' : e.req = d.req /\ e.ids = d.ids /\ e.member = d.member

LEMMA GoesIs ==
  ASSUME TypeInv, NEW p \in Processes, NEW o \in Operations,
         NEW changed \in SUBSET Matters, NEW moved \in SUBSET Matters, Changed \subseteq changed,
         Goes(p, o, changed, moved)
  PROVE  /\ op' \in [Processes -> Operations] /\ op'[p] = o
         /\ \A q \in Processes \ {p} : Stays(q)
<1>1. op \in [Processes -> Operations] BY DEF TypeInv
<1>2. ASSUME NEW q \in Processes \ {p}
      PROVE  op'[q] = [op[q] EXCEPT !.stale = IF Relies(q) THEN @ \cup changed ELSE @,
                                    !.moved = IF At(q, "read") THEN @ \cup moved ELSE @]
  BY DEF Goes
<1>3. ASSUME NEW q \in Processes \ {p} PROVE op'[q] \in Operations /\ Stays(q)
  <2>1. op[q] \in Operations BY <1>1
  <2> DEFINE st == IF Relies(q) THEN op[q].stale \cup changed ELSE op[q].stale
             mo == IF At(q, "read") THEN op[q].moved \cup moved ELSE op[q].moved
  <2>2. op[q].stale \in SUBSET Matters /\ op[q].moved \in SUBSET Matters BY <2>1 DEF Operations
  <2>3. st \in SUBSET Matters /\ mo \in SUBSET Matters BY <2>2
  <2>4. op'[q] = [op[q] EXCEPT !.stale = st, !.moved = mo] BY <1>2
  <2>5. op[q].stale \subseteq st /\ (Relies(q) => changed \subseteq st) OBVIOUS
  <2> HIDE DEF st, mo
  <2>6. op'[q] \in Operations /\ op'[q].stale = st BY <2>1, <2>3, <2>4 DEF Operations
  <2>7. /\ op'[q].step = op[q].step /\ op'[q].req = op[q].req /\ op'[q].ids = op[q].ids
        /\ op'[q].todo = op[q].todo /\ op'[q].seen = op[q].seen /\ op'[q].owes = op[q].owes
        /\ op'[q].queue = op[q].queue /\ op'[q].member = op[q].member
    BY <2>1, <2>4 DEF Operations
  <2> QED BY <2>5, <2>6, <2>7 DEF Stays
<1>4. op'[p] = o BY DEF Goes
<1>5. op' = [q \in Processes |-> op'[q]] BY DEF Goes
<1>6. op' \in [Processes -> Operations] BY <1>3, <1>4, <1>5
<1> QED BY <1>3, <1>4, <1>6

LEMMA QuietViews ==
  ASSUME edge' = edge, facts' = facts
  PROVE  Changed = {} /\ Owing = {} /\ \A m : View(m)' = View(m)
<1>1. \A m : View(m)' = View(m) BY DEF View, CurrentParent, CurrentChildren, Shown
<1> QED BY <1>1 DEF Changed, Owing

\* What another process has checked and read holds until it is overtaken.
LEMMA Bystander ==
  ASSUME HierarchyAssumption, TypeInv, TypeOK', NEW q \in Processes, ProcessInv(q), Stays(q),
         given' = given, SplitsGrow
  PROVE  ProcessInv(q)'
<1> USE DEF ProcessInv
<1>0. /\ op'[q].step = op[q].step /\ op'[q].req = op[q].req /\ op'[q].ids = op[q].ids
      /\ op'[q].todo = op[q].todo /\ op'[q].seen = op[q].seen /\ op'[q].owes = op[q].owes
      /\ op'[q].queue = op[q].queue /\ op'[q].member = op[q].member
  BY DEF Stays
<1>1. ControlOf(q)' BY <1>0 DEF ControlOf, Kind, Call
<1>2. PlanOf(q)'
  <2> SUFFICES ASSUME op'[q].stale = {}, op[q].step \in {"checked", "written", "settle"} PROVE PlanOf(q)'
    BY <1>0 DEF PlanOf
  <2>1. op[q].stale = {} /\ Changed = {} BY DEF Stays, Relies
  <2>2. \A c \in Matters : edge'[c] = edge[c] BY <2>1 DEF Changed
  <2>3. edge' = edge BY <2>2 DEF TypeInv, TypeOK
  <2>4. \A m : Chain(m)' = Chain(m) BY <2>3 DEF Chain, IsClosed, IsEdge
  <2> QED BY <1>0, <2>1, <2>3, <2>4 DEF PlanOf, Kind, Call
<1>3. ReachOf(q)' BY <1>0 DEF ReachOf, Kind, Call
<1>4. OwesOf(q)' BY <1>0 DEF OwesOf, Kind, Call
<1>5. SeenOf(q)'
  <2> SUFFICES ASSUME op[q].step = "read", NEW m \in DOMAIN op[q].seen, m \notin op'[q].stale
               PROVE  op[q].seen[m] = View(m)'
    BY <1>0 DEF SeenOf
  <2>1. m \in Matters BY DEF TypeInv, TypeOK
  <2>2. m \notin op[q].stale /\ m \notin Changed BY DEF Stays, Relies
  <2>3. View(m)' = View(m) BY <2>1, <2>2 DEF Changed
  <2> QED BY <2>2, <2>3 DEF SeenOf
<1>6. SplitOf(q)'
  <2> DEFINE r == op[q].req
             s == op[q].ids
  <2>1. ASSUME Covered(r, s) PROVE \A m \in DOMAIN What[r].members :
           \E d \in disposed' : d.req = r /\ d.ids = s /\ d.member = m
    BY <2>1 DEF Covered, DisposedOf, SplitsGrow
  <2>2. op[q].step \in {"apply", "applied"} /\ <<r, s>> \notin torn' => Covered(r, s)
    BY DEF SplitOf, SplitsGrow
  <2>3. op[q].step = "applied" => <<r, op[q].member>> \in facts'[What[r].parent]
    <3>1. op[q].step = "applied" => What[r].parent \in Matters
      BY DEF ControlOf, Kind, Call, HierarchyAssumption, TypeInv, TypeOK
    <3> QED BY <3>1 DEF SplitOf, SplitsGrow, Call
  <2>4. ASSUME op[q].step \in {"publish", "read"}, op[q].queue = {}, r # NoRequest, What[r].kind = "split",
               <<r, s>> \notin torn'
        PROVE  \A m \in DOMAIN What[r].members :
                 /\ \E d \in disposed' : d.req = r /\ d.ids = s /\ d.member = m
                 /\ What[r].members[m] # "review"
                 /\ What[r].members[m] = "move" => <<r, m>> \in facts'[What[r].parent]
    <3>1. Executed(r, s) BY <2>4 DEF SplitOf, SplitsGrow, Kind, Call
    <3>2. What[r].parent \in Matters
      BY <2>4 DEF ControlOf, HierarchyAssumption, TypeInv, TypeOK
    <3> QED BY <3>1, <3>2 DEF Executed, DisposedOf, SplitsGrow
  <2> QED BY <1>0, <2>1, <2>2, <2>3, <2>4 DEF SplitOf, Covered, Executed, DisposedOf, Kind, Call
<1> QED BY <1>1, <1>2, <1>3, <1>4, <1>5, <1>6

\* What another process owes it still owes, while the view is the same.
LEMMA DueStays ==
  ASSUME HierarchyAssumption, TypeInv, NEW q \in Processes, ControlOf(q), Stays(q),
         NEW m \in Matters, View(m)' = View(m), m \in Due(q)
  PROVE  m \in Due(q)'
<1>0. /\ op'[q].step = op[q].step /\ op'[q].req = op[q].req /\ op'[q].owes = op[q].owes
  BY DEF Stays
<1>1. CASE ~(op[q].step = "written" /\ Kind(q) = "change")
  BY <1>0, <1>1 DEF Due, Kind, Call
<1>2. CASE op[q].step = "written" /\ Kind(q) = "change"
  <2>1. m \in op[q].owes /\ (m \in Call(q).children \/ \E c \in Call(q).children : CurrentParent(c) = m)
    BY <1>2 DEF Due
  <2>2. ASSUME NEW c \in Call(q).children, CurrentParent(c) = m PROVE CurrentParent(c)' = m
    <3>1. op[q].req \in Requests BY <1>2 DEF ControlOf, TypeInv, TypeOK
    <3>2. c \in Matters BY <3>1 DEF Call, HierarchyAssumption, Calls
    <3>3. edge[c].parent = m /\ edge[c].current
      BY <2>2 DEF CurrentParent, HierarchyAssumption
    <3>4. <<c, edge[c].by, Shown(c)>> \in View(m).children
      BY <3>2, <3>3 DEF View, CurrentChildren
    <3>5. View(m)'.children = {<<x, edge'[x].by, Shown(x)'>> : x \in {x \in Matters : edge'[x].parent = m /\ edge'[x].current}}
      BY DEF View, CurrentChildren
    <3>6. edge'[c].parent = m /\ edge'[c].current BY <3>4, <3>5
    <3> QED BY <3>6 DEF CurrentParent
  <2> QED BY <1>0, <1>2, <2>1, <2>2 DEF Due, Kind, Call
<1> QED BY <1>1, <1>2


------------------------------------------------------------------------------
(* From the parts of the invariant after a step of p to the invariant.     *)

\* A matter that p's step leaves settled, or owed as it was before.
StillSettled(p, m) ==
    audit'[m] = "current" =>
        \/ summary'[m] = View(m)' \/ m \in lost' \/ m \in Due(p)'
        \/ /\ audit[m] = "current" /\ summary'[m] = summary[m] /\ View(m)' = View(m)
           /\ m \in lost => m \in lost'
           /\ m \in Due(p) => m \in lost' \/ m \in Due(p)'

LEMMA Assemble ==
  ASSUME HierarchyAssumption, HierarchyInv, NEW p \in Processes,
         TypeOK', op' \in [Processes -> Operations], given' = given, raced => raced',
         \A q \in Processes \ {p} : Stays(q), SplitsGrow, ProcessInv(p)',
         ~raced' => (IsForest(edge) => IsForest(edge')),
         ~raced' => \A m \in Matters : StillSettled(p, m),
         DispositionsAgree'
  PROVE  HierarchyInv'
<1> USE DEF HierarchyInv
<1>1. TypeInv' BY DEF TypeInv
<1>2. \A q \in Processes : ProcessInv(q)' BY Bystander
<1>3. Forest' BY DEF Forest, IsForest
<1>4. RestSettled'
  <2> SUFFICES ASSUME ~raced', NEW m \in Matters, audit'[m] = "current"
               PROVE  summary'[m] = View(m)' \/ m \in lost' \/ \E q \in Processes : m \in Due(q)'
    BY DEF RestSettled, Settled
  <2>1. StillSettled(p, m) OBVIOUS
  <2> SUFFICES ASSUME audit[m] = "current", summary'[m] = summary[m], View(m)' = View(m),
                      m \in lost => m \in lost', m \in Due(p) => m \in lost' \/ m \in Due(p)'
               PROVE  summary'[m] = View(m)' \/ m \in lost' \/ \E q \in Processes : m \in Due(q)'
    BY <2>1 DEF StillSettled
  <2>2. summary[m] = View(m) \/ m \in lost \/ \E q \in Processes : m \in Due(q)
    BY DEF RestSettled, Settled
  <2>3. ASSUME NEW q \in Processes \ {p}, m \in Due(q) PROVE m \in Due(q)'
    BY <2>3, DueStays DEF ProcessInv
  <2> QED BY <2>2, <2>3
<1> QED BY <1>1, <1>2, <1>3, <1>4

\* Dispositions whose status is left, blocked, or current once executed.
LEMMA DispositionsStay ==
  ASSUME HierarchyAssumption, TypeOK, DispositionsAgree, NEW p \in Processes, op' \in [Processes -> Operations],
         \A q \in Processes \ {p} : Stays(q), SplitsGrow, given' = given,
         \A e \in disposed' : \E d \in disposed :
            /\ d.req = e.req /\ d.ids = e.ids /\ d.member = e.member
            /\ \/ e.status \in {d.status, "blocked"}
               \/ /\ What[e.req].members[e.member] # "review"
                  /\ What[e.req].members[e.member] = "move" =>
                       <<e.req, e.member>> \in facts'[What[e.req].parent],
         op[p].step = "requests" =>
            \/ op'[p].step = "requests" /\ op'[p].req = op[p].req /\ op'[p].ids = op[p].ids
            \/ <<op[p].req, op[p].ids>> \in torn'
            \/ Covered(op[p].req, op[p].ids)
  PROVE  DispositionsAgree'
<1> SUFFICES ASSUME NEW e \in disposed' PROVE DispositionAgrees(e)' /\ RecordOf(e.req, e.ids)'
  BY DEF DispositionsAgree
<1>1. PICK d \in disposed :
            /\ d.req = e.req /\ d.ids = e.ids /\ d.member = e.member
            /\ \/ e.status \in {d.status, "blocked"}
               \/ /\ What[e.req].members[e.member] # "review"
                  /\ What[e.req].members[e.member] = "move" =>
                       <<e.req, e.member>> \in facts'[What[e.req].parent]
  OBVIOUS
<1>2. DispositionAgrees(d) /\ RecordOf(d.req, d.ids) BY DEF DispositionsAgree
<1>3. What[e.req].parent \in Matters
  BY <1>1, <1>2 DEF DispositionAgrees, HierarchyAssumption, TypeOK
<1>4. ASSUME Covered(e.req, e.ids) PROVE Covered(e.req, e.ids)'
  BY <1>4 DEF Covered, DisposedOf, SplitsGrow
<1>5. RecordOf(e.req, e.ids) BY <1>1, <1>2
<1>6. RecordOf(e.req, e.ids)'
  <2>1. CASE <<e.req, e.ids>> \in torn BY <2>1 DEF RecordOf, SplitsGrow
  <2>2. CASE Covered(e.req, e.ids) BY <2>2, <1>4 DEF RecordOf
  <2>3. ASSUME NEW q \in Processes, At(q, "requests"), op[q].req = e.req, op[q].ids = e.ids
        PROVE  RecordOf(e.req, e.ids)'
    <3>1. CASE q = p
      <4>1. \/ op'[p].step = "requests" /\ op'[p].req = op[p].req /\ op'[p].ids = op[p].ids
            \/ <<op[p].req, op[p].ids>> \in torn'
            \/ Covered(op[p].req, op[p].ids)
        BY <2>3, <3>1 DEF At
      <4>2. CASE Covered(op[p].req, op[p].ids) BY <4>2, <2>2, <2>3, <3>1
      <4> QED BY <4>1, <4>2, <2>3, <3>1 DEF RecordOf, At
    <3>2. CASE q # p BY <2>3, <3>2 DEF At, Stays, RecordOf
    <3> QED BY <3>1, <3>2
  <2> QED BY <1>5, <2>1, <2>2, <2>3 DEF RecordOf
<1>7. DispositionAgrees(e)'
  <2>1. e.status = "current" =>
        /\ What[e.req].members[e.member] # "review"
        /\ What[e.req].members[e.member] = "move" => <<e.req, e.member>> \in facts'[What[e.req].parent]
    BY <1>1, <1>2, <1>3 DEF DispositionAgrees, SplitsGrow
  <2> QED BY <1>1, <1>2, <2>1 DEF DispositionAgrees
<1> QED BY <1>6, <1>7

\* A step that leaves edges, facts, summaries and audits alone: what p owes is
\* passed on or becomes lost.
LEMMA CoreStep ==
  ASSUME HierarchyAssumption, HierarchyInv, NEW p \in Processes, NEW o \in Operations, GoesOn(p, o),
         UNCHANGED <<edge, facts, summary, audit, given, raced>>,
         batches' \subseteq Batches, disposed' \subseteq Dispositions,
         done' \subseteq given, faults' \in 0 .. MaxFaults,
         torn' \cup published' \subseteq Requests \X SUBSET Matters,
         lost \subseteq lost', lost' \subseteq Matters,
         \A m \in Due(p) : m \in lost' \/ m \in Due(p)',
         SplitsGrow, DispositionsAgree', ProcessInv(p)'
  PROVE  HierarchyInv'
<1>1. Changed = {} /\ \A m : View(m)' = View(m) BY QuietViews
<1>2. op' \in [Processes -> Operations] /\ op'[p] = o /\ \A q \in Processes \ {p} : Stays(q)
  <2>1. TypeInv /\ Goes(p, o, {}, {}) BY DEF HierarchyInv, GoesOn
  <2>2. {} \in SUBSET Matters /\ Changed \subseteq {} BY <1>1
  <2> QED BY <2>1, <2>2, GoesIs
<1>3. TypeOK'
  <2>1. \A q \in Processes : op'[q] \in Operations BY <1>2
  <2> QED BY <2>1 DEF TypeOK, Operations, HierarchyInv, TypeInv
<1>4. \A m \in Matters : StillSettled(p, m) BY <1>1 DEF StillSettled
<1> QED BY <1>2, <1>3, <1>4, Assemble

\* A step that changes no table.
LEMMA QuietStep ==
  ASSUME HierarchyAssumption, HierarchyInv, NEW p \in Processes, NEW o \in Operations, GoesOn(p, o),
         UNCHANGED <<edge, facts, summary, audit, batches, disposed, given, raced>>,
         done' \subseteq given, faults' \in 0 .. MaxFaults,
         torn \subseteq torn', torn' \cup published' \subseteq Requests \X SUBSET Matters,
         lost \subseteq lost', lost' \subseteq Matters,
         \A m \in Due(p) : m \in lost' \/ m \in Due(p)',
         op[p].step = "requests" =>
            \/ o.step = "requests" /\ o.req = op[p].req /\ o.ids = op[p].ids
            \/ <<op[p].req, op[p].ids>> \in torn'
            \/ Covered(op[p].req, op[p].ids),
         ProcessInv(p)'
  PROVE  HierarchyInv'
<1>1. Changed = {} BY QuietViews
<1>2. op' \in [Processes -> Operations] /\ op'[p] = o /\ \A q \in Processes \ {p} : Stays(q)
  <2>1. TypeInv /\ Goes(p, o, {}, {}) BY DEF HierarchyInv, GoesOn
  <2>2. {} \in SUBSET Matters /\ Changed \subseteq {} BY <1>1
  <2> QED BY <2>1, <2>2, GoesIs
<1>3. SplitsGrow BY DEF SplitsGrow
<1>4. TypeOK /\ DispositionsAgree BY DEF HierarchyInv, TypeInv
<1>5. DispositionsAgree' BY <1>2, <1>3, <1>4, DispositionsStay
<1>6. batches' \subseteq Batches /\ disposed' \subseteq Dispositions BY <1>4 DEF TypeOK
<1> QED BY <1>3, <1>5, <1>6, CoreStep

\* What a split has recorded and executed stays so.
LEMMA SplitStays ==
  ASSUME SplitsGrow, NEW r \in Requests, NEW s
  PROVE  /\ Covered(r, s) => Covered(r, s)'
         /\ What[r].parent \in Matters /\ Executed(r, s) => Executed(r, s)'
BY DEF SplitsGrow, Covered, Executed, DisposedOf

LEMMA SplitHolds ==
  ASSUME NEW p \in Processes, NEW r, NEW s, op'[p].req = r, op'[p].ids = s,
         op'[p].step \in {"apply", "applied"} => <<r, s>> \in torn' \/ Covered(r, s)',
         op'[p].step = "applied" => <<r, op'[p].member>> \in facts'[What[r].parent],
         op'[p].step \in {"publish", "read"} /\ op'[p].queue = {} /\ r # NoRequest /\ What[r].kind = "split" =>
           <<r, s>> \in torn' \/ Executed(r, s)'
  PROVE  SplitOf(p)'
BY DEF SplitOf, Covered, Executed, DisposedOf, Kind, Call

\* A process at rest is bound to nothing.
LEMMA RestingIs ==
  ASSUME NEW p \in Processes, NEW o \in {Idle, Closed}, op'[p] = o
  PROVE  ProcessInv(p)' /\ Due(p)' = {}
<1>1. op'[p].step \in {"idle", "closed"} /\ op'[p].req = NoRequest /\ op'[p].owes = {}
  BY IdleType
<1>2. ControlOf(p)' BY <1>1 DEF ControlOf
<1>3. PlanOf(p)' /\ SeenOf(p)' BY <1>1 DEF PlanOf, SeenOf
<1>4. ReachOf(p)' BY <1>1 DEF ReachOf
<1>5. OwesOf(p)' BY <1>1 DEF OwesOf
<1>6. SplitOf(p)' BY <1>1 DEF SplitOf
<1> QED BY <1>1, <1>2, <1>3, <1>4, <1>5, <1>6 DEF ProcessInv, Due


------------------------------------------------------------------------------
(* The steps of one process.  First those that change no table.            *)

\* A call that returns at once, and a step that changes nothing.
LEMMA SameStep ==
  ASSUME HierarchyAssumption, HierarchyInv, UNCHANGED <<stored, op, given, faults, history>>,
         done' \subseteq given
  PROVE  HierarchyInv'
<1> USE DEF HierarchyInv, stored, history
<1>1. Changed = {} /\ \A m : View(m)' = View(m) BY QuietViews
<1>2. TypeInv' BY DEF TypeInv, TypeOK
<1>3. \A q \in Processes : Stays(q) BY <1>1 DEF Stays
<1>4. SplitsGrow BY DEF SplitsGrow
<1>5. \A q \in Processes : ProcessInv(q)' BY <1>2, <1>3, <1>4, Bystander DEF TypeInv
<1>6. Forest' BY DEF Forest
<1>7. ASSUME NEW m \in Matters, Settled(m) PROVE Settled(m)'
  <2>1. \A q \in Processes : m \in Due(q) => m \in Due(q)'
    BY <1>1, <1>3, DueStays DEF ProcessInv
  <2> QED BY <1>1, <1>7, <2>1 DEF Settled
<1>8. RestSettled' BY <1>7 DEF RestSettled
<1>9. DispositionsAgree'
  <2>1. \A d \in disposed : DispositionAgrees(d)' BY DEF DispositionsAgree, DispositionAgrees
  <2>2. \A d \in disposed : RecordOf(d.req, d.ids)'
    BY DEF DispositionsAgree, RecordOf, Covered, DisposedOf, At
  <2> QED BY <2>1, <2>2 DEF DispositionsAgree
<1> QED BY <1>2, <1>5, <1>6, <1>8, <1>9

Started(step, r, ids) == [Idle EXCEPT !.step = step, !.req = r, !.ids = ids]

LEMMA StartedIs ==
  ASSUME NEW step \in Steps, NEW r \in Requests, NEW ids \in SUBSET Matters
  PROVE  LET o == Started(step, r, ids) IN
         /\ o \in Operations /\ o.step = step /\ o.req = r /\ o.ids = ids /\ o.todo = {}
         /\ o.stale = {} /\ o.owes = {} /\ o.queue = {} /\ o.member = NoRequest
<1>1. Idle \in Operations /\ Started(step, r, ids) \in Operations
  BY IdleType DEF Started, Operations
<1> QED BY <1>1 DEF Started, Idle, Operations

\* A call begins: what it checked holds, and what it is to invalidate holds
\* the matters that it is about to change.
LEMMA StartsKeeps ==
  ASSUME HierarchyAssumption, HierarchyInv, NEW p \in Processes, NEW r \in Requests,
         NEW step \in {"checked", "written"}, NEW ids \in SUBSET Matters,
         Free(p, r), Starts(p, r, step, ids),
         step = "checked" => What[r].kind \in Asking \ {"batch"},
         step = "written" => What[r].kind = "split" /\ Family(What[r]) \subseteq ids,
         What[r].kind \in {"attach", "reparent"} => What[r].children \cap Chain(What[r].parent) = {},
         What[r].kind = "reparent" => Family(What[r]) \cup {What[r].from} \subseteq ids,
         What[r].kind = "detach" => What[r].children \cup {What[r].from} \subseteq ids
  PROVE  HierarchyInv'
<1> DEFINE o == Started(step, r, ids)
<1>1. /\ o \in Operations /\ o.step = step /\ o.req = r /\ o.ids = ids /\ o.todo = {}
      /\ o.stale = {} /\ o.owes = {} /\ o.queue = {} /\ o.member = NoRequest
  BY StartedIs DEF Steps
<1>2. /\ GoesOn(p, o)
      /\ UNCHANGED <<edge, facts, summary, audit, batches, disposed, given, raced>>
      /\ UNCHANGED <<done, faults, lost, torn, published>>
  BY DEF Starts, Started, stored, history
<1> HIDE DEF o
<1>3. op'[p] = o BY <1>2 DEF GoesOn, Goes
<1>4. TypeOK /\ op[p].step = "idle" /\ r \in given BY DEF Free, At, HierarchyInv, TypeInv
<1>5. ControlOf(p)' BY <1>1, <1>2, <1>3, <1>4 DEF ControlOf, Kind, Call, Asking
<1>6. PlanOf(p)'
  <2>1. \A m : Chain(m)' = Chain(m) BY <1>2 DEF Chain, IsClosed, IsEdge
  <2> QED BY <1>1, <1>3, <2>1 DEF PlanOf, Kind, Call, Asking
<1>7. ReachOf(p)' BY <1>1, <1>3 DEF ReachOf, Kind, Call, Asking
<1>8. OwesOf(p)' BY <1>1, <1>3 DEF OwesOf, Kind, Call
<1>9. SeenOf(p)' /\ SplitOf(p)' BY <1>1, <1>3 DEF SeenOf, SplitOf
<1>10. Due(p) = {} BY <1>4 DEF HierarchyInv, ProcessInv, OwesOf, Due
<1>11. done' \subseteq given /\ faults' \in 0 .. MaxFaults
       /\ torn' \cup published' \subseteq Requests \X SUBSET Matters /\ lost' \subseteq Matters
  BY <1>2, <1>4 DEF TypeOK
<1> QED BY <1>1, <1>2, <1>4, <1>5, <1>6, <1>7, <1>8, <1>9, <1>10, <1>11, QuietStep DEF ProcessInv

LEMMA BeginSteps ==
  ASSUME HierarchyAssumption, HierarchyInv, NEW p \in Processes, NEW r \in Requests,
         BeginAttach(p, r) \/ BeginReparent(p, r) \/ BeginDetach(p, r) \/ BeginChange(p, r) \/ BeginSplit(p, r)
  PROVE  HierarchyInv'
<1> DEFINE call == What[r]
<1>1. /\ TypeOK /\ call.children \subseteq Matters
      /\ call.kind \in {"attach", "batch", "reparent", "split"} => call.parent \in Matters
      /\ call.kind \in {"reparent", "detach"} => call.from \in Matters
  BY DEF HierarchyInv, TypeInv, HierarchyAssumption, Calls
<1>2. CASE BeginAttach(p, r)
  <2>1. CASE \A c \in call.children : Unchanged(c, r)
    <3>1. UNCHANGED <<stored, op, given, faults, history>> /\ done' = done \cup {r} /\ r \in given
      BY <1>2, <2>1 DEF BeginAttach, Free
    <3>2. done' \subseteq given BY <3>1, <1>1 DEF TypeOK
    <3> QED BY <3>1, <3>2, SameStep
  <2>2. CASE ~(\A c \in call.children : Unchanged(c, r))
    <3>1. Starts(p, r, "checked", {}) /\ call.kind = "attach" /\ Free(p, r)
          /\ \A c \in call.children : c \notin Chain(call.parent)
      BY <1>2, <2>2 DEF BeginAttach, Acceptable
    <3>2. call.children \cap Chain(call.parent) = {} BY <3>1
    <3> QED BY <3>1, <3>2, StartsKeeps DEF Asking
  <2> QED BY <2>1, <2>2
<1>3. CASE BeginReparent(p, r)
  <2> DEFINE ids == call.children \cup Chain(call.from) \cup Chain(call.parent)
  <2>1. /\ Free(p, r) /\ call.kind = "reparent" /\ Starts(p, r, "checked", ids)
        /\ \A c \in call.children : c \notin Chain(call.parent)
    BY <1>3 DEF BeginReparent
  <2>2. ids \in SUBSET Matters /\ Family(call) \cup {call.from} \subseteq ids
    BY <1>1, <2>1, ChainIs DEF Family
  <2>3. call.children \cap Chain(call.parent) = {} BY <2>1
  <2> QED BY <2>1, <2>2, <2>3, StartsKeeps DEF Asking
<1>4. CASE BeginDetach(p, r)
  <2> DEFINE ids == call.children \cup Chain(call.from)
  <2>1. Free(p, r) /\ call.kind = "detach" /\ Starts(p, r, "checked", ids)
    BY <1>4 DEF BeginDetach
  <2>2. ids \in SUBSET Matters /\ call.children \cup {call.from} \subseteq ids
    BY <1>1, <2>1, ChainIs
  <2> QED BY <2>1, <2>2, StartsKeeps DEF Asking
<1>5. CASE BeginChange(p, r)
  BY <1>5, StartsKeeps DEF BeginChange, Asking
<1>6. CASE BeginSplit(p, r)
  <2> DEFINE ids == Chains(call.children) \cup Chain(call.parent)
  <2>1. Free(p, r) /\ call.kind = "split" /\ Starts(p, r, "written", ids)
    BY <1>6 DEF BeginSplit
  <2>2. \A c \in call.children : c \in Chain(c) /\ Chain(c) \subseteq Matters BY <1>1, ChainIs
  <2>3. call.parent \in Chain(call.parent) /\ Chain(call.parent) \subseteq Matters BY <1>1, <2>1, ChainIs
  <2>4. ids \in SUBSET Matters /\ Family(call) \subseteq ids BY <2>2, <2>3 DEF Family, Chains
  <2> QED BY <2>1, <2>4, StartsKeeps DEF Asking
<1> QED BY <1>2, <1>3, <1>4, <1>5, <1>6

\* What p owes it still owes when it goes on to a step that owes the same.
LEMMA DuePasses ==
  ASSUME NEW p \in Processes, op'[p].step # "written", op'[p].owes = op[p].owes
  PROVE  \A m \in Due(p) : m \in Due(p)'
BY DEF Due

\* A batch begins, or is found committed and is published again.
LEMMA BeginBatchStep ==
  ASSUME HierarchyAssumption, HierarchyInv, NEW p \in Processes, NEW r \in Requests, BeginBatch(p, r)
  PROVE  HierarchyInv'
<1> DEFINE call == What[r]
           ids == call.children \cup Chain(call.parent)
           left == {c \in call.children : ~Unchanged(c, r)}
           start == [Idle EXCEPT !.step = "checked", !.req = r, !.ids = ids, !.todo = left]
           same == {b \in batches : b.req = r /\ b.ids = ids}
<1>1. /\ TypeOK /\ op[p].step = "idle" /\ r \in given /\ r # NoRequest
      /\ call.kind = "batch" /\ call.parent \in Matters /\ call.children \subseteq Matters
  BY DEF BeginBatch, Free, At, HierarchyInv, TypeInv, HierarchyAssumption, Calls
<1>2. ids \in SUBSET Matters /\ left \in SUBSET Matters /\ Family(call) \subseteq ids
      /\ left \subseteq call.children
  BY <1>1, ChainIs DEF Family
<1>3. call.children \cap Chain(call.parent) = {} BY DEF BeginBatch, Acceptable
<1>4. UNCHANGED <<stored, given, faults, history>> BY DEF BeginBatch
<1>5. /\ UNCHANGED <<edge, facts, summary, audit, batches, disposed, given, raced>>
      /\ UNCHANGED <<faults, lost, torn, published>>
  BY <1>4 DEF stored, history
<1>6. Due(p) = {} BY <1>1 DEF HierarchyInv, ProcessInv, OwesOf, Due
<1>7. /\ faults' \in 0 .. MaxFaults /\ lost' \subseteq Matters /\ done \subseteq given
      /\ torn' \cup published' \subseteq Requests \X SUBSET Matters
  BY <1>1, <1>5 DEF TypeOK
<1>8. CASE GoesOn(p, start) /\ done' = done
  <2>1. start \in Operations BY <1>2, IdleType DEF Operations, Steps
  <2>2. /\ start.step = "checked" /\ start.req = r /\ start.ids = ids /\ start.todo = left
        /\ start.stale = {} /\ start.owes = {} /\ start.queue = {}
    BY IdleType DEF Idle
  <2> HIDE DEF start
  <2>3. op'[p] = start BY <1>8 DEF GoesOn, Goes
  <2>4. ControlOf(p)' BY <1>1, <1>5, <2>2, <2>3 DEF ControlOf, Kind, Call, Asking
  <2>5. PlanOf(p)'
    <3>1. \A m : Chain(m)' = Chain(m) BY <1>5 DEF Chain, IsClosed, IsEdge
    <3> QED BY <1>3, <2>2, <2>3, <3>1 DEF PlanOf, Kind, Call
  <2>6. ReachOf(p)' BY <1>1, <1>2, <2>2, <2>3 DEF ReachOf, Kind, Call
  <2>7. OwesOf(p)' BY <2>2, <2>3 DEF OwesOf
  <2>8. SeenOf(p)' /\ SplitOf(p)' BY <2>2, <2>3 DEF SeenOf, SplitOf
  <2> QED BY <1>1, <1>5, <1>6, <1>7, <1>8, <2>1, <2>4, <2>5, <2>6, <2>7, <2>8, QuietStep DEF ProcessInv
<1>9. ASSUME NEW b \in same, GoesOn(p, [start EXCEPT !.step = "publish", !.todo = ids, !.queue = {b}]), done' = done
      PROVE  HierarchyInv'
  <2> DEFINE o == [start EXCEPT !.step = "publish", !.todo = ids, !.queue = {b}]
  <2>1. b \in Batches BY <1>1 DEF TypeOK
  <2>2. o \in Operations BY <1>2, <2>1, IdleType DEF Operations, Steps
  <2>3. /\ o.step = "publish" /\ o.req = r /\ o.ids = ids /\ o.todo = ids
        /\ o.owes = {} /\ o.queue = {b}
    BY IdleType DEF Idle
  <2>4. GoesOn(p, o) BY <1>9
  <2> HIDE DEF o
  <2>5. op'[p] = o BY <2>4 DEF GoesOn, Goes
  <2>6. ControlOf(p)' BY <1>1, <1>5, <2>3, <2>5 DEF ControlOf, Kind, Call
  <2>7. PlanOf(p)' /\ ReachOf(p)' BY <2>3, <2>5 DEF PlanOf, ReachOf
  <2>8. OwesOf(p)' BY <2>3, <2>5 DEF OwesOf
  <2>9. SeenOf(p)' /\ SplitOf(p)' BY <2>3, <2>5 DEF SeenOf, SplitOf
  <2> QED BY <1>1, <1>5, <1>6, <1>7, <1>9, <2>2, <2>4, <2>6, <2>7, <2>8, <2>9, QuietStep DEF ProcessInv
<1>10. CASE done' = done \cup {r} /\ op' = op
  <2>1. done' \subseteq given BY <1>1, <1>7, <1>10
  <2> QED BY <1>4, <1>10, <2>1, SameStep
<1> QED BY <1>8, <1>9, <1>10 DEF BeginBatch

\* What is read is what one would read after the step.
LEMMA ReadStep ==
  ASSUME HierarchyAssumption, HierarchyInv, NEW p \in Processes, Read(p)
  PROVE  HierarchyInv'
<1> DEFINE S == IF op[p].queue # {} THEN op[p].todo ELSE {First(op[p].todo)}
           read == [m \in S |-> View(m)]
           o == [op[p] EXCEPT !.step = "read", !.seen = read, !.stale = {}, !.moved = {}]
<1>1. TypeOK /\ op[p].step = "publish" /\ op[p].todo # {} /\ op[p].todo \subseteq Matters
  BY DEF Read, At, HierarchyInv, TypeInv, TypeOK
<1>2. S \subseteq op[p].todo
  <2>1. \E m \in op[p].todo : Lowest(op[p].todo) # {} => m \in Lowest(op[p].todo)
    BY <1>1 DEF Lowest
  <2>2. First(op[p].todo) \in op[p].todo BY <2>1 DEF First
  <2> QED BY <2>2
<1>3. \A m \in S : View(m) \in Views BY <1>1, <1>2, ViewType DEF TypeOK
<1>4. S \in SUBSET Matters BY <1>1, <1>2
<1>5. DOMAIN read = S /\ \A m \in S : read[m] = View(m) OBVIOUS
<1>6. /\ GoesOn(p, o)
      /\ UNCHANGED <<edge, facts, summary, audit, batches, disposed, given, raced>>
      /\ UNCHANGED <<done, faults, lost, torn, published>>
  BY DEF Read, stored, history
<1> HIDE DEF S
<1>7. read \in UNION {[T -> Views] : T \in SUBSET Matters} BY <1>3, <1>4
<1> HIDE DEF read
<1>8. op[p] \in Operations BY DEF HierarchyInv, TypeInv
<1>9. o \in Operations BY <1>7, <1>8 DEF Operations, Steps
<1>10. /\ o.step = "read" /\ o.req = op[p].req /\ o.ids = op[p].ids /\ o.todo = op[p].todo
       /\ o.owes = op[p].owes /\ o.queue = op[p].queue /\ o.seen = read
  BY <1>8 DEF Operations
<1> HIDE DEF o
<1>11. op'[p] = o BY <1>6 DEF GoesOn, Goes
<1>12. ProcessInv(p) BY DEF HierarchyInv
<1>13. ControlOf(p)' BY <1>1, <1>6, <1>10, <1>11, <1>12 DEF ProcessInv, ControlOf, Kind, Call
<1>14. PlanOf(p)' /\ ReachOf(p)' BY <1>10, <1>11 DEF PlanOf, ReachOf
<1>15. OwesOf(p)' BY <1>1, <1>2, <1>5, <1>10, <1>11, <1>12 DEF ProcessInv, OwesOf
<1>16. SeenOf(p)'
  <2>1. \A m : View(m)' = View(m) BY <1>6, QuietViews
  <2> QED BY <1>5, <1>10, <1>11, <2>1 DEF SeenOf
<1>17. SplitOf(p)'
  <2>1. SplitOf(p) BY <1>12 DEF ProcessInv
  <2> QED BY <1>1, <1>6, <1>10, <1>11, <2>1 DEF SplitOf, Executed, DisposedOf, Kind, Call
<1>18. \A m \in Due(p) : m \in Due(p)' BY <1>10, <1>11, DuePasses
<1>19. /\ faults' \in 0 .. MaxFaults /\ lost' \subseteq Matters /\ done' \subseteq given
       /\ torn' \cup published' \subseteq Requests \X SUBSET Matters
  BY <1>1, <1>6 DEF TypeOK
<1> QED BY <1>1, <1>6, <1>9, <1>13, <1>14, <1>15, <1>16, <1>17, <1>18, <1>19, QuietStep DEF ProcessInv

\* Nothing is left to publish: what is owed has been settled.
LEMMA FinishStep ==
  ASSUME HierarchyAssumption, HierarchyInv, NEW p \in Processes, Finish(p)
  PROVE  HierarchyInv'
<1>1. /\ TypeOK /\ op[p].step = "publish" /\ op[p].todo = {} /\ op[p] \in Operations
      /\ ProcessInv(p)
  BY DEF Finish, At, HierarchyInv, TypeInv
<1>2. op[p].owes = {} /\ Due(p) = {} BY <1>1 DEF ProcessInv, OwesOf, Due
<1>3. /\ UNCHANGED <<edge, facts, summary, audit, batches, disposed, given, raced>>
      /\ UNCHANGED <<faults, lost, torn>>
  BY DEF Finish, stored
<1>4. /\ faults' \in 0 .. MaxFaults /\ lost' \subseteq Matters /\ done \subseteq given
      /\ torn' \subseteq Requests \X SUBSET Matters /\ published \subseteq Requests \X SUBSET Matters
  BY <1>1, <1>3 DEF TypeOK
<1>5. CASE op[p].queue # {} /\ GoesOn(p, [op[p] EXCEPT !.step = "mark"]) /\ UNCHANGED <<done, published>>
  <2> DEFINE o == [op[p] EXCEPT !.step = "mark"]
  <2>1. o \in Operations BY <1>1 DEF Operations, Steps
  <2>2. o.step = "mark" /\ o.req = op[p].req /\ o.owes = op[p].owes /\ o.queue = op[p].queue
    BY <1>1 DEF Operations
  <2>3. GoesOn(p, o) BY <1>5
  <2> HIDE DEF o
  <2>4. op'[p] = o BY <2>3 DEF GoesOn, Goes
  <2>5. ControlOf(p)' BY <1>1, <1>3, <1>5, <2>2, <2>4 DEF ProcessInv, ControlOf
  <2>6. PlanOf(p)' /\ ReachOf(p)' /\ SeenOf(p)' /\ SplitOf(p)'
    BY <2>2, <2>4 DEF PlanOf, ReachOf, SeenOf, SplitOf
  <2>7. OwesOf(p)' BY <1>2, <2>2, <2>4 DEF OwesOf
  <2> QED BY <1>1, <1>2, <1>3, <1>4, <1>5, <2>1, <2>3, <2>5, <2>6, <2>7, QuietStep DEF ProcessInv
<1>6. CASE /\ op[p].queue = {} /\ Returns(p)
           /\ published' = IF Call(p).kind = "split"
                           THEN published \cup {<<op[p].req, op[p].ids>>} ELSE published
  <2>1. op[p].req \in given /\ op[p].req \in Requests
    BY <1>1, <1>6 DEF ProcessInv, ControlOf, TypeOK
  <2>2. op[p].ids \in SUBSET Matters BY <1>1 DEF Operations
  <2>3. GoesOn(p, Idle) /\ done' = done \cup {op[p].req} BY <1>6 DEF Returns
  <2>4. op'[p] = Idle BY <2>3 DEF GoesOn, Goes
  <2>5. ProcessInv(p)' BY <2>4, RestingIs
  <2>6. done' \subseteq given BY <1>4, <2>1, <2>3
  <2>7. torn' \cup published' \subseteq Requests \X SUBSET Matters BY <1>4, <1>6, <2>1, <2>2
  <2> QED BY <1>1, <1>2, <1>3, <1>4, <2>3, <2>5, <2>6, <2>7, IdleType, QuietStep
<1> QED BY <1>5, <1>6 DEF Finish

\* A process that opens takes up the requests it found pending, one by one.
LEMMA OpenStep ==
  ASSUME HierarchyAssumption, HierarchyInv, NEW p \in Processes, Open(p) \/ Recover(p)
  PROVE  HierarchyInv'
<1>1. TypeOK /\ op[p] \in Operations /\ ProcessInv(p)
  BY DEF HierarchyInv, TypeInv
<1>2. /\ UNCHANGED <<edge, facts, summary, audit, batches, disposed, given, raced>>
      /\ UNCHANGED <<done, faults, lost, torn, published>>
  BY DEF Open, Recover, stored, history
<1>3. /\ faults' \in 0 .. MaxFaults /\ lost' \subseteq Matters /\ done' \subseteq given
      /\ torn' \cup published' \subseteq Requests \X SUBSET Matters
  BY <1>1, <1>2 DEF TypeOK
<1>4. op[p].step \in {"closed", "idle", "recover"} BY DEF Open, Recover, At
<1>5. op[p].req = NoRequest /\ op[p].owes = {} /\ Due(p) = {}
  BY <1>1, <1>4 DEF ProcessInv, ControlOf, OwesOf, Due
<1>6. ASSUME NEW o \in Operations, GoesOn(p, o), o.req = NoRequest, o.owes = {},
             o.step = "recover" \/ (o.step = "publish" /\ o.queue # {})
      PROVE  HierarchyInv'
  <2>1. op'[p] = o BY <1>6 DEF GoesOn, Goes
  <2>2. ControlOf(p)' BY <1>6, <2>1 DEF ControlOf
  <2>3. PlanOf(p)' /\ ReachOf(p)' /\ SeenOf(p)' BY <1>6, <2>1 DEF PlanOf, ReachOf, SeenOf
  <2>4. SplitOf(p)' /\ OwesOf(p)' BY <1>6, <2>1 DEF SplitOf, OwesOf
  <2> QED BY <1>2, <1>3, <1>4, <1>5, <1>6, <2>2, <2>3, <2>4, QuietStep DEF ProcessInv
<1>7. CASE Open(p)
  <2> DEFINE o == [Idle EXCEPT !.step = "recover", !.queue = Pending]
  <2>1. Pending \subseteq Batches BY <1>1 DEF TypeOK, Pending
  <2>2. o \in Operations BY <2>1, IdleType DEF Operations, Steps
  <2>3. o.step = "recover" /\ o.req = NoRequest /\ o.owes = {} BY DEF Idle
  <2>4. GoesOn(p, o) BY <1>7 DEF Open
  <2> HIDE DEF o
  <2> QED BY <1>6, <2>2, <2>3, <2>4
<1>8. CASE Recover(p)
  <2> DEFINE b == FirstOf(p)
  <2>1. CASE op[p].queue = {}
    <3>1. GoesOn(p, Idle) BY <1>8, <2>1 DEF Recover
    <3>2. op'[p] = Idle BY <3>1 DEF GoesOn, Goes
    <3> QED BY <1>2, <1>3, <1>4, <1>5, <3>1, <3>2, RestingIs, IdleType, QuietStep
  <2>2. CASE op[p].queue # {} /\ b \notin batches
    <3> DEFINE o == [op[p] EXCEPT !.queue = @ \ {b}]
    <3>1. op[p].queue \in SUBSET Batches BY <1>1 DEF Operations
    <3>2. o \in Operations BY <1>1, <3>1 DEF Operations
    <3>3. o.step = op[p].step /\ o.req = op[p].req /\ o.owes = op[p].owes BY <1>1 DEF Operations
    <3>4. GoesOn(p, o) BY <1>8, <2>2 DEF Recover
    <3>5. op[p].step = "recover" BY <1>8 DEF Recover, At
    <3> HIDE DEF o
    <3> QED BY <1>5, <1>6, <3>2, <3>3, <3>4, <3>5
  <2>3. CASE op[p].queue # {} /\ b \in batches
    <3> DEFINE o == [op[p] EXCEPT !.step = "publish", !.ids = b.ids, !.todo = b.ids]
    <3>1. b.ids \in SUBSET Matters BY <1>1, <2>3 DEF TypeOK, Batches
    <3>2. o \in Operations BY <1>1, <3>1 DEF Operations, Steps
    <3>3. /\ o.step = "publish" /\ o.queue = op[p].queue /\ o.req = op[p].req
          /\ o.owes = op[p].owes
      BY <1>1 DEF Operations
    <3>4. GoesOn(p, o) BY <1>8, <2>3 DEF Recover
    <3> HIDE DEF o
    <3> QED BY <1>5, <1>6, <2>3, <3>2, <3>3, <3>4
  <2> QED BY <2>1, <2>2, <2>3
<1> QED BY <1>7, <1>8

\* Every member has a disposition and every disposition is current: executed.
LEMMA PublishSplitStep ==
  ASSUME HierarchyAssumption, HierarchyInv, NEW p \in Processes, PublishSplit(p)
  PROVE  HierarchyInv'
<1> DEFINE o == [op[p] EXCEPT !.step = "publish", !.todo = op[p].ids]
           r == op[p].req
           s == op[p].ids
<1>1. TypeOK /\ op[p] \in Operations /\ ProcessInv(p) /\ op[p].step = "apply" /\ DispositionsAgree
  BY DEF PublishSplit, At, HierarchyInv, TypeInv
<1>2. r \in given /\ op[p].queue = {} /\ op[p].owes \subseteq s
  BY <1>1 DEF ProcessInv, ControlOf, OwesOf
<1>3. /\ GoesOn(p, o)
      /\ UNCHANGED <<edge, facts, summary, audit, batches, disposed, given, raced>>
      /\ UNCHANGED <<done, faults, lost, torn, published>>
  BY DEF PublishSplit, stored, history
<1>4. o \in Operations BY <1>1 DEF Operations, Steps
<1>5. /\ o.step = "publish" /\ o.req = r /\ o.ids = s /\ o.todo = s /\ o.owes = op[p].owes
      /\ o.queue = {}
  BY <1>1, <1>2 DEF Operations
<1> HIDE DEF o
<1>6. op'[p] = o BY <1>3 DEF GoesOn, Goes
<1>7. <<r, s>> \in torn \/ Executed(r, s)
  <2> SUFFICES ASSUME Covered(r, s), NEW m \in DOMAIN What[r].members
               PROVE  /\ \E d \in DisposedOf(r, s) : d.member = m
                      /\ What[r].members[m] # "review"
                      /\ What[r].members[m] = "move" => <<r, m>> \in facts[What[r].parent]
    BY <1>1 DEF ProcessInv, SplitOf, Executed
  <2>1. PICK d \in DisposedOf(r, s) : d.member = m BY DEF Covered
  <2>2. d \in disposed /\ d.req = r /\ d.status = "current"
    BY <2>1 DEF DisposedOf, PublishSplit, Mine
  <2>3. DispositionAgrees(d) BY <1>1, <2>2 DEF DispositionsAgree
  <2> QED BY <2>1, <2>2, <2>3 DEF DispositionAgrees
<1>8. ControlOf(p)' BY <1>2, <1>3, <1>5, <1>6 DEF ControlOf
<1>9. PlanOf(p)' /\ ReachOf(p)' /\ SeenOf(p)' BY <1>5, <1>6 DEF PlanOf, ReachOf, SeenOf
<1>10. OwesOf(p)' BY <1>2, <1>5, <1>6 DEF OwesOf
<1>11. SplitOf(p)' BY <1>3, <1>5, <1>6, <1>7 DEF SplitOf, Executed, DisposedOf, Kind, Call
<1>12. \A m \in Due(p) : m \in Due(p)' BY <1>5, <1>6, DuePasses
<1>13. /\ faults' \in 0 .. MaxFaults /\ lost' \subseteq Matters /\ done' \subseteq given
       /\ torn' \cup published' \subseteq Requests \X SUBSET Matters
  BY <1>1, <1>3 DEF TypeOK
<1> QED BY <1>1, <1>3, <1>4, <1>8, <1>9, <1>10, <1>11, <1>12, <1>13, QuietStep DEF ProcessInv

\* A split that is resumed has all its dispositions, or is torn.
LEMMA ResumeStep ==
  ASSUME HierarchyAssumption, HierarchyInv, NEW p \in Processes, ResumeSplit(p)
  PROVE  HierarchyInv'
<1>1. PICK d \in disposed :
        /\ At(p, "idle")
        /\ GoesOn(p, [Idle EXCEPT !.step = "apply", !.req = d.req, !.ids = d.ids])
        /\ torn' = IF \E q \in Processes : /\ At(q, "requests")
                                           /\ op[q].req = d.req /\ op[q].ids = d.ids
                   THEN torn \cup {<<d.req, d.ids>>} ELSE torn
  BY DEF ResumeSplit
<1> DEFINE r == d.req
           s == d.ids
           o == Started("apply", r, s)
<1>2. TypeOK /\ op[p].step = "idle" /\ DispositionAgrees(d) /\ RecordOf(r, s)
  BY <1>1 DEF At, HierarchyInv, TypeInv, DispositionsAgree
<1>3. r \in given /\ r \in Requests /\ What[r].kind = "split" /\ Family(What[r]) \subseteq s
  BY <1>2 DEF DispositionAgrees, TypeOK
<1>4. s \in SUBSET Matters BY <1>2 DEF TypeOK, Dispositions
<1>5. /\ GoesOn(p, o)
      /\ UNCHANGED <<edge, facts, summary, audit, batches, disposed, given, raced>>
      /\ UNCHANGED <<done, faults, lost, published>>
  BY <1>1 DEF ResumeSplit, stored, Started
<1>6. /\ o \in Operations /\ o.step = "apply" /\ o.req = r /\ o.ids = s
      /\ o.owes = {} /\ o.queue = {}
  BY <1>3, <1>4, StartedIs DEF Steps
<1> HIDE DEF o
<1>7. op'[p] = o BY <1>5 DEF GoesOn, Goes
<1>8. torn \subseteq torn' /\ torn' \subseteq Requests \X SUBSET Matters
  BY <1>1, <1>2, <1>3, <1>4 DEF TypeOK
<1>9. <<r, s>> \in torn' \/ Covered(r, s) BY <1>1, <1>2 DEF RecordOf
<1>10. ControlOf(p)' BY <1>3, <1>5, <1>6, <1>7 DEF ControlOf, Kind, Call
<1>11. PlanOf(p)' /\ SeenOf(p)' BY <1>6, <1>7 DEF PlanOf, SeenOf
<1>12. ReachOf(p)' BY <1>3, <1>6, <1>7 DEF ReachOf, Kind, Call
<1>13. OwesOf(p)' BY <1>6, <1>7 DEF OwesOf
<1>14. SplitOf(p)' BY <1>5, <1>6, <1>7, <1>9 DEF SplitOf, Covered, DisposedOf
<1>15. Due(p) = {} BY <1>2 DEF HierarchyInv, ProcessInv, OwesOf, Due
<1>16. /\ faults' \in 0 .. MaxFaults /\ lost' \subseteq Matters /\ done' \subseteq given
       /\ torn' \cup published' \subseteq Requests \X SUBSET Matters
  BY <1>2, <1>5, <1>8 DEF TypeOK
<1> QED BY <1>2, <1>5, <1>6, <1>8, <1>10, <1>11, <1>12, <1>13, <1>14, <1>15, <1>16, QuietStep DEF ProcessInv

------------------------------------------------------------------------------
(* Steps that change the requests and the dispositions.                    *)

\* A decision keeps the dispositions, one with another status.
LEMMA DecideIs ==
  ASSUME TypeOK, NEW d \in disposed, NEW status \in Statuses \cup {"blocked"}, Decide(d, status)
  PROVE  /\ disposed' \subseteq Dispositions
         /\ \A x \in disposed : \E e \in disposed' : e.req = x.req /\ e.ids = x.ids /\ e.member = x.member
         /\ \A e \in disposed' :
              \/ e \in disposed
              \/ e.req = d.req /\ e.ids = d.ids /\ e.member = d.member /\ e.status = status
<1> DEFINE new == [d EXCEPT !.status = status]
<1>1. d \in Dispositions BY DEF TypeOK
<1>2. new \in Dispositions BY <1>1 DEF Dispositions
<1>3. new.req = d.req /\ new.ids = d.ids /\ new.member = d.member /\ new.status = status
  BY <1>1 DEF Dispositions
<1>4. disposed' = (disposed \ {d}) \cup {new} BY DEF Decide
<1> HIDE DEF new
<1> QED BY <1>2, <1>3, <1>4 DEF TypeOK

\* An operation that ends owes for good what it owed, and a split that it was
\* recording is torn.
LEMMA DiesStep ==
  ASSUME HierarchyAssumption, HierarchyInv, NEW p \in Processes, NEW o \in {Idle, Closed}, Dies(p, o),
         faults' \in 0 .. MaxFaults, disposed' \subseteq Dispositions,
         \A x \in disposed : \E e \in disposed' : e.req = x.req /\ e.ids = x.ids /\ e.member = x.member,
         \A e \in disposed' : \E d \in disposed :
            /\ d.req = e.req /\ d.ids = e.ids /\ d.member = e.member
            /\ e.status \in {d.status, "blocked"}
  PROVE  HierarchyInv'
<1>1. TypeOK /\ op[p] \in Operations /\ ProcessInv(p) /\ DispositionsAgree
  BY DEF HierarchyInv, TypeInv
<1>2. /\ GoesOn(p, o)
      /\ UNCHANGED <<edge, facts, summary, audit, given, raced>>
      /\ UNCHANGED <<batches, done, published>>
      /\ lost' = lost \cup op[p].owes
      /\ torn' = IF At(p, "requests") THEN torn \cup {<<op[p].req, op[p].ids>>} ELSE torn
  BY DEF Dies
<1>3. o \in Operations BY IdleType
<1>4. op[p].owes \in SUBSET Matters /\ op[p].ids \in SUBSET Matters BY <1>1 DEF Operations
<1>5. op[p].step = "requests" => op[p].req \in Requests
  BY <1>1 DEF ProcessInv, ControlOf, TypeOK
<1>6. /\ torn \subseteq torn' /\ lost \subseteq lost'
      /\ torn' \cup published' \subseteq Requests \X SUBSET Matters /\ lost' \subseteq Matters
  BY <1>1, <1>2, <1>4, <1>5 DEF TypeOK, At
<1>7. batches' \subseteq Batches /\ done' \subseteq given BY <1>1, <1>2 DEF TypeOK
<1>8. \A m \in Due(p) : m \in lost' BY <1>2 DEF Due
<1>9. op'[p] = o BY <1>2 DEF GoesOn, Goes
<1>10. ProcessInv(p)' BY <1>9, RestingIs
<1>11. SplitsGrow BY <1>2, <1>6 DEF SplitsGrow
<1>12. op' \in [Processes -> Operations] /\ \A q \in Processes \ {p} : Stays(q)
  <2>1. TypeInv /\ Goes(p, o, {}, {}) BY <1>2 DEF HierarchyInv, GoesOn
  <2>2. {} \in SUBSET Matters /\ Changed \subseteq {} BY <1>2, QuietViews
  <2> QED BY <1>3, <2>1, <2>2, GoesIs
<1>13. op[p].step = "requests" => <<op[p].req, op[p].ids>> \in torn' BY <1>2 DEF At
<1>14. DispositionsAgree' BY <1>1, <1>2, <1>11, <1>12, <1>13, DispositionsStay
<1> QED BY <1>2, <1>3, <1>6, <1>7, <1>8, <1>10, <1>11, <1>14, CoreStep

LEMMA FaultStep ==
  ASSUME HierarchyAssumption, HierarchyInv, NEW p \in Processes,
         Refuse(p) \/ Fail(p) \/ Kill(p) \/ BlockReview(p)
  PROVE  HierarchyInv'
<1>1. TypeOK BY DEF HierarchyInv, TypeInv
<1>2. faults' \in 0 .. MaxFaults
  BY <1>1 DEF TypeOK, HierarchyAssumption, Refuse, Fail, Kill, BlockReview
<1>3. \E o \in {Idle, Closed} : Dies(p, o)
  BY DEF Refuse, Fail, Kill, BlockReview, Raises
<1>4. disposed' = disposed \/ \E d \in disposed : Decide(d, "blocked")
  BY DEF Refuse, Fail, Kill, BlockReview, Mine, DisposedOf
<1>5. CASE disposed' = disposed
  <2>1. disposed' \subseteq Dispositions BY <1>1, <1>5 DEF TypeOK
  <2> QED BY <1>2, <1>3, <1>5, <2>1, DiesStep
<1>6. CASE \E d \in disposed : Decide(d, "blocked")
  <2>1. PICK d \in disposed : Decide(d, "blocked") BY <1>6
  <2>2. /\ disposed' \subseteq Dispositions
        /\ \A x \in disposed : \E e \in disposed' : e.req = x.req /\ e.ids = x.ids /\ e.member = x.member
        /\ \A e \in disposed' :
             \/ e \in disposed
             \/ e.req = d.req /\ e.ids = d.ids /\ e.member = d.member /\ e.status = "blocked"
    BY <1>1, <2>1, DecideIs DEF Statuses
  <2>3. \A e \in disposed' : \E x \in disposed :
            /\ x.req = e.req /\ x.ids = e.ids /\ x.member = e.member
            /\ e.status \in {x.status, "blocked"}
    BY <2>2
  <2> QED BY <1>2, <1>3, <2>2, <2>3, DiesStep
<1> QED BY <1>4, <1>5, <1>6

\* A request is marked current when nothing is owed any more.
LEMMA MarkStep ==
  ASSUME HierarchyAssumption, HierarchyInv, NEW p \in Processes, Mark(p)
  PROVE  HierarchyInv'
<1> DEFINE b == FirstOf(p)
           new == [b EXCEPT !.status = "current"]
           o == IF op[p].req = NoRequest
                THEN [Closed EXCEPT !.step = "recover", !.queue = op[p].queue \ {b}] ELSE Idle
<1>1. TypeOK /\ op[p] \in Operations /\ ProcessInv(p) /\ op[p].step = "mark" /\ DispositionsAgree
  BY DEF Mark, At, HierarchyInv, TypeInv
<1>2. op[p].queue # {} /\ op[p].queue \in SUBSET Batches /\ Due(p) = {}
  BY <1>1 DEF ProcessInv, ControlOf, OwesOf, Due, Operations
<1>3. b \in Batches
  <2>1. b \in op[p].queue BY <1>2 DEF FirstOf
  <2> QED BY <1>2, <2>1
<1>4. new \in Batches BY <1>3 DEF Batches, Statuses
<1>5. /\ batches' = (batches \ {b}) \cup {new}
      /\ UNCHANGED <<edge, facts, summary, audit, disposed, given, raced>>
      /\ UNCHANGED <<faults, lost, torn, published>>
  BY DEF Mark, history
<1>6. batches' \subseteq Batches
  <2> HIDE DEF b, new
  <2> QED BY <1>1, <1>4, <1>5 DEF TypeOK
<1>7. GoesOn(p, o) /\ (done' = done \/ (done' = done \cup {op[p].req} /\ op[p].req # NoRequest))
  <2>1. CASE op[p].req = NoRequest
    <3> DEFINE rest == [Closed EXCEPT !.step = "recover", !.queue = op[p].queue \ {b}]
    <3>1. GoesOn(p, rest) /\ done' = done BY <2>1 DEF Mark
    <3>2. o = rest BY <2>1
    <3> HIDE DEF rest, o
    <3> QED BY <3>1, <3>2
  <2>2. CASE op[p].req # NoRequest
    <3>1. GoesOn(p, Idle) /\ done' = done \cup {op[p].req} BY <2>2 DEF Mark, Returns
    <3>2. o = Idle BY <2>2
    <3> HIDE DEF o
    <3> QED BY <3>1, <3>2, <2>2
  <2> HIDE DEF o
  <2> QED BY <2>1, <2>2
<1>8. done' \subseteq given
  <2>1. op[p].req \in given \cup {NoRequest} BY <1>1 DEF ProcessInv, ControlOf
  <2> QED BY <1>1, <1>7, <2>1 DEF TypeOK
<1>9. o \in Operations /\ o.req = NoRequest /\ o.owes = {} /\ o.step \in {"recover", "idle"}
  <2> HIDE DEF b
  <2>1. CASE op[p].req = NoRequest
    <3> DEFINE rest == [Closed EXCEPT !.step = "recover", !.queue = op[p].queue \ {b}]
    <3>1. rest \in Operations BY <1>2, IdleType DEF Operations, Steps
    <3>2. rest.req = NoRequest /\ rest.owes = {} /\ rest.step = "recover" BY DEF Closed, Idle
    <3>3. o = rest BY <2>1
    <3> HIDE DEF rest, o
    <3> QED BY <3>1, <3>2, <3>3
  <2>2. CASE op[p].req # NoRequest BY <2>2, IdleType
  <2> QED BY <2>1, <2>2
<1> HIDE DEF o
<1>10. op'[p] = o BY <1>7 DEF GoesOn, Goes
<1>11. ControlOf(p)' BY <1>9, <1>10 DEF ControlOf
<1>12. PlanOf(p)' /\ ReachOf(p)' /\ SeenOf(p)' BY <1>9, <1>10 DEF PlanOf, ReachOf, SeenOf
<1>13. SplitOf(p)' /\ OwesOf(p)' BY <1>9, <1>10 DEF SplitOf, OwesOf
<1>14. SplitsGrow BY <1>5 DEF SplitsGrow
<1>15. op' \in [Processes -> Operations] /\ \A q \in Processes \ {p} : Stays(q)
  <2>1. TypeInv /\ Goes(p, o, {}, {}) BY <1>7 DEF HierarchyInv, GoesOn
  <2>2. {} \in SUBSET Matters /\ Changed \subseteq {} BY <1>5, QuietViews
  <2> QED BY <1>9, <2>1, <2>2, GoesIs
<1>16. DispositionsAgree' BY <1>1, <1>5, <1>14, <1>15, DispositionsStay
<1>17. /\ faults' \in 0 .. MaxFaults /\ lost' \subseteq Matters /\ disposed' \subseteq Dispositions
       /\ torn' \cup published' \subseteq Requests \X SUBSET Matters
  BY <1>1, <1>5 DEF TypeOK
<1> QED BY <1>2, <1>5, <1>6, <1>7, <1>8, <1>9, <1>11, <1>12, <1>13, <1>14, <1>16, <1>17, CoreStep DEF ProcessInv

\* The owner of a disposition has executed it: the member is at its target.
LEMMA MarkAppliedStep ==
  ASSUME HierarchyAssumption, HierarchyInv, NEW p \in Processes, MarkApplied(p)
  PROVE  HierarchyInv'
<1> DEFINE o == [op[p] EXCEPT !.step = "apply", !.member = NoRequest]
           r == op[p].req
           s == op[p].ids
<1>1. PICK d \in disposed : d.req = r /\ d.ids = s /\ d.member = op[p].member /\ Decide(d, "current")
  BY DEF MarkApplied, Mine, DisposedOf
<1>2. TypeOK /\ op[p] \in Operations /\ ProcessInv(p) /\ op[p].step = "applied" /\ DispositionsAgree
  BY DEF MarkApplied, At, HierarchyInv, TypeInv
<1>3. /\ GoesOn(p, o)
      /\ UNCHANGED <<edge, facts, summary, audit, given, raced>>
      /\ UNCHANGED <<batches, done, faults, lost, torn, published>>
  BY DEF MarkApplied, history
<1>4. /\ disposed' \subseteq Dispositions
      /\ \A x \in disposed : \E e \in disposed' : e.req = x.req /\ e.ids = x.ids /\ e.member = x.member
      /\ \A e \in disposed' :
           \/ e \in disposed
           \/ e.req = d.req /\ e.ids = d.ids /\ e.member = d.member /\ e.status = "current"
  BY <1>1, <1>2, DecideIs DEF Statuses
<1>5. SplitsGrow BY <1>3, <1>4 DEF SplitsGrow
<1>6. o \in Operations BY <1>2 DEF Operations, Steps
<1>7. o.step = "apply" /\ o.req = r /\ o.ids = s /\ o.owes = op[p].owes /\ o.queue = op[p].queue
  BY <1>2 DEF Operations
<1> HIDE DEF o
<1>8. op'[p] = o BY <1>3 DEF GoesOn, Goes
<1>9. r \in given /\ r \in Requests /\ What[r].kind = "split" /\ op[p].queue = {}
      /\ What[r].members[op[p].member] = "move"
  BY <1>2 DEF ProcessInv, ControlOf, Kind, Call, TypeOK
<1>10. <<r, op[p].member>> \in facts[What[r].parent] BY <1>2 DEF ProcessInv, SplitOf, Call
<1>11. op' \in [Processes -> Operations] /\ \A q \in Processes \ {p} : Stays(q)
  <2>1. TypeInv /\ Goes(p, o, {}, {}) BY <1>3 DEF HierarchyInv, GoesOn
  <2>2. {} \in SUBSET Matters /\ Changed \subseteq {} BY <1>3, QuietViews
  <2> QED BY <1>6, <2>1, <2>2, GoesIs
<1>12. \A e \in disposed' : \E x \in disposed :
            /\ x.req = e.req /\ x.ids = e.ids /\ x.member = e.member
            /\ \/ e.status \in {x.status, "blocked"}
               \/ /\ What[e.req].members[e.member] # "review"
                  /\ What[e.req].members[e.member] = "move" =>
                       <<e.req, e.member>> \in facts'[What[e.req].parent]
  BY <1>1, <1>3, <1>4, <1>9, <1>10
<1>13. DispositionsAgree' BY <1>2, <1>3, <1>5, <1>11, <1>12, DispositionsStay
<1>14. ControlOf(p)' BY <1>3, <1>7, <1>8, <1>9 DEF ControlOf, Kind, Call
<1>15. PlanOf(p)' /\ SeenOf(p)' BY <1>7, <1>8 DEF PlanOf, SeenOf
<1>16. ReachOf(p)'
  <2>1. Family(What[r]) \subseteq s BY <1>2 DEF ProcessInv, ReachOf, Call
  <2> QED BY <1>7, <1>8, <2>1 DEF ReachOf, Kind, Call
<1>17. OwesOf(p)'
  <2>1. op[p].owes \subseteq s BY <1>2 DEF ProcessInv, OwesOf
  <2> QED BY <1>7, <1>8, <2>1 DEF OwesOf
<1>18. SplitOf(p)'
  <2>1. <<r, s>> \in torn \/ Covered(r, s) BY <1>2 DEF ProcessInv, SplitOf
  <2>2. PICK rr, ss : rr = r /\ ss = s OBVIOUS
  <2>3. <<rr, ss>> \in torn' \/ Covered(rr, ss)'
    BY <1>4, <1>3, <2>1, <2>2 DEF Covered, DisposedOf
  <2>4. op'[p].req = rr /\ op'[p].ids = ss /\ op'[p].step = "apply" BY <1>7, <1>8, <2>2
  <2> QED BY <2>3, <2>4, SplitHolds
<1>19. \A m \in Due(p) : m \in Due(p)' BY <1>7, <1>8, DuePasses
<1>20. /\ faults' \in 0 .. MaxFaults /\ lost' \subseteq Matters /\ done' \subseteq given
       /\ torn' \cup published' \subseteq Requests \X SUBSET Matters /\ batches' \subseteq Batches
  BY <1>2, <1>3 DEF TypeOK
<1> QED BY <1>3, <1>4, <1>5, <1>6, <1>13, <1>14, <1>15, <1>16, <1>17, <1>18, <1>19, <1>20, CoreStep DEF ProcessInv

\* A disposition is recorded, or all of them are.
LEMMA DisposeStep ==
  ASSUME HierarchyAssumption, HierarchyInv, NEW p \in Processes, Dispose(p)
  PROVE  HierarchyInv'
<1> DEFINE r == op[p].req
           s == op[p].ids
           members == What[r].members
           missing == DOMAIN members \ {d.member : d \in Mine(p)}
<1>1. /\ TypeOK /\ op \in [Processes -> Operations] /\ op[p] \in Operations /\ ProcessInv(p)
      /\ op[p].step = "requests" /\ DispositionsAgree
  BY DEF Dispose, At, HierarchyInv, TypeInv
<1>2. r \in given /\ r \in Requests /\ What[r].kind = "split" /\ op[p].queue = {}
      /\ Family(What[r]) \subseteq s /\ Due(p) = {} /\ op[p].owes = {}
  BY <1>1 DEF ProcessInv, ControlOf, ReachOf, OwesOf, Due, Kind, Call, TypeOK
<1>3. UNCHANGED <<edge, facts, summary, audit, batches, given, done, faults, raced, lost, torn, published>>
  BY DEF Dispose, history
<1>4. /\ faults' \in 0 .. MaxFaults /\ lost' \subseteq Matters /\ done' \subseteq given
      /\ torn' \cup published' \subseteq Requests \X SUBSET Matters
  BY <1>1, <1>3 DEF TypeOK
<1>5. Changed = {} /\ \A m : View(m)' = View(m) BY <1>3, QuietViews
<1>6. ASSUME NEW m \in missing, op' = op,
             disposed' = disposed \cup {[req |-> r, ids |-> s, member |-> m, status |-> Verdict(members[m])]}
      PROVE  HierarchyInv'
  <2> DEFINE new == [req |-> r, ids |-> s, member |-> m, status |-> Verdict(members[m])]
  <2>1. What[r] \in Calls BY <1>2 DEF HierarchyAssumption
  <2>2. members \in UNION {[S -> Actions] : S \in SUBSET Members} BY <2>1 DEF Calls
  <2>3. m \in Members /\ m \in DOMAIN members /\ members[m] \in Actions
    <3>1. PICK S \in SUBSET Members : members \in [S -> Actions] BY <2>2
    <3> QED BY <3>1
  <2>4. s \in SUBSET Matters BY <1>1 DEF Operations
  <2>5. Verdict(members[m]) \in Statuses \cup {"blocked"}
        /\ (Verdict(members[m]) = "current" => members[m] = "retain")
    BY <2>3 DEF Verdict, Statuses, Actions
  <2>6. new \in Dispositions BY <1>2, <2>3, <2>4, <2>5 DEF Dispositions
  <2>7. new.req = r /\ new.ids = s /\ new.member = m /\ (new.status = "current" => members[m] = "retain")
        /\ disposed' = disposed \cup {new}
    BY <1>6, <2>5
  <2> HIDE DEF new
  <2>8. TypeOK' BY <1>1, <1>3, <1>6, <2>6, <2>7 DEF TypeOK
  <2>9. SplitsGrow BY <1>3, <2>7 DEF SplitsGrow
  <2>10. \A q \in Processes : Stays(q) BY <1>5, <1>6 DEF Stays
  <2>11. ProcessInv(p)' BY <1>1, <1>3, <2>8, <2>9, <2>10, Bystander DEF TypeInv
  <2>12. DispositionsAgree'
    <3>1. ASSUME NEW e \in disposed' PROVE DispositionAgrees(e)'
      <4>1. CASE e \in disposed BY <1>1, <1>3, <4>1 DEF DispositionsAgree, DispositionAgrees
      <4>2. CASE e = new BY <1>2, <1>3, <2>3, <2>7, <4>2 DEF DispositionAgrees
      <4> QED BY <2>7, <4>1, <4>2
    <3>2. ASSUME NEW e \in disposed' PROVE RecordOf(e.req, e.ids)'
      <4>1. CASE e \in disposed
        <5>1. RecordOf(e.req, e.ids) BY <1>1, <4>1 DEF DispositionsAgree
        <5> QED BY <1>3, <1>6, <2>7, <5>1 DEF RecordOf, Covered, DisposedOf, At
      <4>2. CASE e = new BY <1>1, <1>6, <2>7, <4>2 DEF RecordOf, At
      <4> QED BY <2>7, <4>1, <4>2
    <3> QED BY <3>1, <3>2 DEF DispositionsAgree
  <2>13. \A x \in Matters : StillSettled(p, x) BY <1>2, <1>3, <1>5 DEF StillSettled
  <2>14. IsForest(edge) => IsForest(edge') BY <1>3
  <2> QED BY <1>1, <1>3, <1>6, <2>8, <2>9, <2>10, <2>11, <2>12, <2>13, <2>14, Assemble
<1>7. CASE missing = {} /\ disposed' = disposed /\ GoesOn(p, [op[p] EXCEPT !.step = "apply"])
  <2> DEFINE o == [op[p] EXCEPT !.step = "apply"]
  <2>1. o \in Operations BY <1>1 DEF Operations, Steps
  <2>2. o.step = "apply" /\ o.req = r /\ o.ids = s /\ o.owes = {} /\ o.queue = {}
    BY <1>1, <1>2 DEF Operations
  <2>3. GoesOn(p, o) BY <1>7
  <2> HIDE DEF o
  <2>4. op'[p] = o BY <2>3 DEF GoesOn, Goes
  <2>5. Covered(r, s) BY <1>7 DEF Covered, Mine
  <2>6. ControlOf(p)' BY <1>2, <1>3, <2>2, <2>4 DEF ControlOf, Kind, Call
  <2>7. PlanOf(p)' /\ SeenOf(p)' BY <2>2, <2>4 DEF PlanOf, SeenOf
  <2>8. ReachOf(p)' BY <1>2, <2>2, <2>4 DEF ReachOf, Kind, Call
  <2>9. OwesOf(p)' BY <2>2, <2>4 DEF OwesOf
  <2>10. SplitOf(p)' BY <1>7, <2>2, <2>4, <2>5 DEF SplitOf, Covered, DisposedOf
  <2> QED BY <1>2, <1>3, <1>4, <1>7, <2>1, <2>3, <2>5, <2>6, <2>7, <2>8, <2>9, <2>10, QuietStep DEF ProcessInv
<1> QED BY <1>6, <1>7 DEF Dispose, Call

------------------------------------------------------------------------------
(* Steps that write edges, facts, summaries or audits.                     *)

\* A step of p outside a split's requests that writes the tables.
LEMMA TableStep ==
  ASSUME HierarchyAssumption, HierarchyInv, NEW p \in Processes, NEW o \in Operations,
         NEW changed \in SUBSET Matters, NEW moved \in SUBSET Matters, Changed \subseteq changed,
         Goes(p, o, changed, moved), op[p].step # "requests",
         UNCHANGED <<disposed, given, faults, torn, published>>,
         edge' \in [Matters -> Edges \cup {NoEdge}], facts' \in [Matters -> SUBSET Facts],
         summary' \in [Matters -> Views], audit' \in [Matters -> {"stale", "current"}],
         batches' \subseteq Batches, done' \subseteq given, raced' \in BOOLEAN, raced => raced',
         lost' \subseteq Matters, \A m \in Matters : facts[m] \subseteq facts'[m],
         ProcessInv(p)',
         ~raced' => (IsForest(edge) => IsForest(edge')),
         ~raced' => \A m \in Matters : StillSettled(p, m)
  PROVE  HierarchyInv'
<1>1. TypeOK /\ DispositionsAgree BY DEF HierarchyInv, TypeInv
<1>2. op' \in [Processes -> Operations] /\ \A q \in Processes \ {p} : Stays(q)
  BY GoesIs DEF HierarchyInv
<1>3. TypeOK'
  <2>1. \A q \in Processes : op'[q] \in Operations BY <1>2
  <2> QED BY <1>1, <2>1 DEF TypeOK, Operations
<1>4. SplitsGrow BY DEF SplitsGrow
<1>5. DispositionsAgree' BY <1>1, <1>2, <1>4, DispositionsStay
<1> QED BY <1>2, <1>3, <1>4, <1>5, Assemble

\* A view depends on the edges and the decisions of the matter and its children.
LEMMA ViewStays ==
  ASSUME HierarchyAssumption, TypeOK, NEW m \in Matters, NEW C \in SUBSET Matters, m \notin C,
         \A x \in Matters \ C : edge'[x] = edge[x] /\ facts'[x] = facts[x],
         \A c \in C : CurrentParent(c) # m /\ CurrentParent(c)' # m
  PROVE  View(m)' = View(m) /\ edge'[m] = edge[m]
<1>1. edge'[m] = edge[m] /\ facts'[m] = facts[m] OBVIOUS
<1>2. CurrentParent(m)' = CurrentParent(m) BY <1>1 DEF CurrentParent
<1>3. \A c \in C : c \notin CurrentChildren(m) /\ c \notin CurrentChildren(m)'
  BY DEF CurrentChildren, CurrentParent
<1>4. \A x \in Matters \ C : x \in CurrentChildren(m)' <=> x \in CurrentChildren(m)
  BY DEF CurrentChildren
<1>5. CurrentChildren(m)' = CurrentChildren(m)
  <2>1. CurrentChildren(m)' \subseteq Matters /\ CurrentChildren(m) \subseteq Matters
    BY DEF CurrentChildren
  <2> QED BY <1>3, <1>4, <2>1
<1>6. \A x \in CurrentChildren(m) : edge'[x].by = edge[x].by /\ Shown(x)' = Shown(x)
  <2>1. \A x \in CurrentChildren(m) : x \in Matters \ C BY <1>3 DEF CurrentChildren
  <2> QED BY <2>1 DEF Shown
<1>7. {<<x, edge'[x].by, Shown(x)'>> : x \in CurrentChildren(m)'} = {<<x, edge[x].by, Shown(x)>> : x \in CurrentChildren(m)}
  BY <1>5, <1>6
<1> QED BY <1>1, <1>2, <1>7 DEF View

\* The calls that name one child.
LEMMA ChildIs ==
  ASSUME HierarchyAssumption, NEW p \in Processes, op[p].req \in Requests, Kind(p) \in OfOne
  PROVE  Child(p) \in Matters /\ Call(p).children = {Child(p)}
<1>1. \E c \in Matters : Call(p).children = {c} BY DEF HierarchyAssumption, Kind, Call
<1> QED BY <1>1 DEF Child

\* An edge or a fact is written, what it leaves current is owed.
LEMMA WriteEdgeKeeps ==
  ASSUME HierarchyAssumption, HierarchyInv, NEW p \in Processes, WriteEdge(p),
         edge' \in [Matters -> Edges \cup {NoEdge}], facts' \in [Matters -> SUBSET Facts],
         \A m \in Matters : facts[m] \subseteq facts'[m],
         Kind(p) \in {"attach", "reparent"} =>
           \A c \in Call(p).children : edge'[c].parent = Call(p).parent,
         Kind(p) = "attach" => Owing \subseteq Family(Call(p)),
         Kind(p) \in {"reparent", "detach"} => Owing \subseteq op[p].ids,
         Kind(p) = "change" => \A m \in Owing :
           m \in Call(p).children \/ \E c \in Call(p).children : CurrentParent(c)' = m,
         ~raced' => (IsForest(edge) => IsForest(edge'))
  PROVE  HierarchyInv'
<1>1. /\ TypeOK /\ op[p] \in Operations /\ ProcessInv(p) /\ op[p].step = "checked"
      /\ Kind(p) # "batch"
  BY DEF WriteEdge, At, Kind, HierarchyInv, TypeInv
<1>2. op[p].req \in given /\ Kind(p) \in Asking /\ op[p].queue = {} /\ Due(p) = {}
  BY <1>1 DEF ProcessInv, ControlOf, OwesOf, Due
<1>3. PICK owing, changed : owing = Owing /\ changed = Changed OBVIOUS
<1>4. owing \in SUBSET Matters /\ changed \in SUBSET Matters /\ {} \in SUBSET Matters
  BY <1>3 DEF Owing, Changed
<1> DEFINE o == [op[p] EXCEPT !.step = "written", !.owes = owing]
<1>5. Goes(p, o, changed, {}) BY <1>3 DEF WriteEdge
<1>6. /\ raced' = (raced \/ (Kind(p) # "change" /\ op[p].stale # {}))
      /\ UNCHANGED <<audit, summary, batches, done, lost>>
      /\ UNCHANGED <<disposed, given, faults, torn, published>>
  BY DEF WriteEdge, Kind
<1>7. o \in Operations BY <1>1, <1>4 DEF Operations, Steps
<1>8. /\ o.step = "written" /\ o.req = op[p].req /\ o.ids = op[p].ids /\ o.owes = owing
      /\ o.queue = {} /\ o.stale = op[p].stale
  BY <1>1, <1>2 DEF Operations
<1> HIDE DEF o
<1>9. op'[p] = o BY <1>5 DEF Goes
<1>10. ControlOf(p)' BY <1>2, <1>6, <1>8, <1>9 DEF ControlOf, Kind, Call, Asking, WriteEdge
<1>11. PlanOf(p)' BY <1>8, <1>9 DEF PlanOf, Kind, Call
<1>12. ReachOf(p)'
  <2>1. ReachOf(p) BY <1>1 DEF ProcessInv
  <2> QED BY <1>1, <1>2, <1>8, <1>9, <2>1 DEF ReachOf, Kind, Call, Asking
<1>13. OwesOf(p)' BY <1>2, <1>3, <1>8, <1>9 DEF OwesOf, Kind, Call, Asking
<1>14. SeenOf(p)' /\ SplitOf(p)' BY <1>8, <1>9 DEF SeenOf, SplitOf
<1>15. \A m \in owing : m \in Due(p)' BY <1>3, <1>8, <1>9 DEF Due, Kind, Call
<1>16. \A m \in Matters : StillSettled(p, m)
  <2> SUFFICES ASSUME NEW m \in Matters, View(m)' = View(m) PROVE StillSettled(p, m)
    BY <1>3, <1>15 DEF Owing, StillSettled
  <2> QED BY <1>2, <1>6 DEF StillSettled
<1>17. /\ summary' \in [Matters -> Views] /\ audit' \in [Matters -> {"stale", "current"}]
       /\ batches' \subseteq Batches /\ done' \subseteq given /\ lost' \subseteq Matters
       /\ raced' \in BOOLEAN
  BY <1>1, <1>6 DEF TypeOK
<1>18. raced => raced' BY <1>6
<1> QED BY <1>1, <1>3, <1>4, <1>5, <1>6, <1>7, <1>10, <1>11, <1>12, <1>13, <1>14, <1>16, <1>17, <1>18, TableStep
        DEF ProcessInv

\* Writing one matter concerns it, the parent it had and the one it has.
LEMMA OwingIs ==
  ASSUME HierarchyAssumption, TypeOK, NEW c \in Matters,
         \A x \in Matters \ {c} : edge'[x] = edge[x] /\ facts'[x] = facts[x]
  PROVE  /\ \A m \in Owing : m \in Matters /\ (m = c \/ m = CurrentParent(c) \/ m = CurrentParent(c)')
         /\ \A m \in Changed : m = c \/ m = CurrentParent(c) \/ m = CurrentParent(c)'
<1>1. {c} \in SUBSET Matters OBVIOUS
<1>2. ASSUME NEW m \in Matters, m # c, m # CurrentParent(c), m # CurrentParent(c)'
      PROVE  View(m)' = View(m) /\ edge'[m] = edge[m]
  <2>1. m \notin {c} /\ \A x \in {c} : CurrentParent(x) # m /\ CurrentParent(x)' # m BY <1>2
  <2> QED BY <1>1, <2>1, ViewStays
<1> QED BY <1>2 DEF Owing, Changed

LEMMA WriteEdgeStep ==
  ASSUME HierarchyAssumption, HierarchyInv, NEW p \in Processes, WriteEdge(p)
  PROVE  HierarchyInv'
<1> DEFINE call == Call(p)
<1>1. TypeOK /\ ProcessInv(p) /\ op[p].step = "checked" /\ Kind(p) # "batch" /\ ~Conflict(p)
  BY DEF WriteEdge, At, Kind, HierarchyInv, TypeInv
<1>2. op[p].req \in Requests /\ Kind(p) \in Asking
  BY <1>1 DEF ProcessInv, ControlOf, TypeOK
<1>3. Kind(p) \in OfOne /\ NoRequest \notin Requests BY <1>1, <1>2 DEF Asking, OfOne, Kinds, HierarchyAssumption
<1>4. PICK c \in Matters : c = Child(p) /\ call.children = {c} BY <1>2, <1>3, ChildIs
<1>5. \A x \in Matters : edge[x] \in Edges \/ edge[x] = NoEdge BY <1>1 DEF TypeOK
<1>6. raced' = (raced \/ (Kind(p) # "change" /\ op[p].stale # {})) BY DEF WriteEdge, Kind
<1>7. CASE Kind(p) \in {"attach", "reparent"}
  <2> DEFINE e == Edge(p, FALSE)
  <2>1. call.parent \in Matters BY <1>2, <1>7 DEF Kind, Call, HierarchyAssumption
  <2>2. e \in Edges /\ e.parent = call.parent /\ e.current = FALSE BY <1>2, <2>1 DEF Edge, Edges
  <2>3. Put({c}, e) /\ facts' = facts BY <1>4, <1>7 DEF WriteEdge, Kind
  <2> HIDE DEF e
  <2>4. edge'[c] = e /\ \A x \in Matters \ {c} : edge'[x] = edge[x] BY <1>4, <2>3 DEF Put
  <2>5. edge' \in [Matters -> Edges \cup {NoEdge}] BY <1>1, <2>2, <2>3 DEF Put, TypeOK
  <2>6. CurrentParent(c)' = Root BY <2>2, <2>4 DEF CurrentParent
  <2>7. CurrentParent(c) = Root \/ (IsEdge(c) /\ CurrentParent(c) = edge[c].parent)
    BY DEF CurrentParent, IsEdge, NoEdge
  <2>8. IsEdge(c) => edge[c].parent = call.parent \/ (Kind(p) = "reparent" /\ edge[c].parent = call.from)
    BY <1>1, <1>4, <1>7 DEF Conflict, At, Elsewhere, Kind
  <2>9. \A m \in Owing : m \in {c, call.parent} \/ (Kind(p) = "reparent" /\ m = call.from)
    BY <1>1, <1>4, <2>3, <2>4, <2>6, <2>7, <2>8, OwingIs DEF HierarchyAssumption
  <2>10. Kind(p) = "attach" => Owing \subseteq Family(call) BY <1>4, <2>9 DEF Family
  <2>11. Kind(p) = "reparent" => Owing \subseteq op[p].ids
    <3>1. Kind(p) = "reparent" => Family(call) \cup {call.from} \subseteq op[p].ids
      BY <1>1 DEF ProcessInv, ReachOf
    <3> QED BY <1>4, <2>9, <3>1 DEF Family
  <2>12. ASSUME ~raced', IsForest(edge) PROVE IsForest(edge')
    <3>1. {c} \cap Chain(call.parent) = {} BY <1>1, <1>4, <1>6, <1>7, <2>12 DEF ProcessInv, PlanOf
    <3>2. {c} \in SUBSET Matters BY <1>4
    <3> QED BY <1>1, <2>1, <2>2, <2>3, <2>12, <3>1, <3>2, ForestGrows
  <2>13. \A x \in call.children : edge'[x].parent = call.parent BY <1>4, <2>2, <2>4
  <2>14. facts' \in [Matters -> SUBSET Facts] /\ \A m \in Matters : facts[m] \subseteq facts'[m]
    BY <1>1, <2>3 DEF TypeOK
  <2> QED BY <1>7, <2>5, <2>10, <2>11, <2>12, <2>13, <2>14, WriteEdgeKeeps
<1>8. CASE Kind(p) = "detach"
  <2> DEFINE gone == edge[c].parent = call.from
  <2>1. Put({c}, IF gone THEN NoEdge ELSE edge[c]) /\ facts' = facts BY <1>4, <1>8 DEF WriteEdge, Kind
  <2>2. edge'[c] = (IF gone THEN NoEdge ELSE edge[c]) /\ \A x \in Matters \ {c} : edge'[x] = edge[x]
    BY <1>4, <2>1 DEF Put
  <2>3. edge' \in [Matters -> Edges \cup {NoEdge}] BY <1>1, <1>4, <2>1 DEF Put, TypeOK
  <2>4. call.children \cup {call.from} \subseteq op[p].ids BY <1>1, <1>8 DEF ProcessInv, ReachOf
  <2>5. Owing \subseteq op[p].ids
    <3>1. CASE gone
      <4>1. CurrentParent(c) \in {call.from, Root} BY <3>1 DEF CurrentParent
      <4>2. CurrentParent(c)' = Root BY <2>2, <3>1 DEF CurrentParent, NoEdge
      <4> QED BY <1>1, <1>4, <2>1, <2>2, <2>4, <4>1, <4>2, OwingIs DEF HierarchyAssumption
    <3>2. CASE ~gone
      <4>1. edge' = edge BY <1>1, <2>1, <3>2 DEF Put, TypeOK
      <4> QED BY <2>1, <4>1, QuietViews
    <3> QED BY <3>1, <3>2
  <2>6. ASSUME IsForest(edge) PROVE IsForest(edge')
    <3>1. \A x \in Matters : edge'[x].parent \in {edge[x].parent, Root} BY <2>2 DEF NoEdge
    <3> QED BY <2>6, <3>1, ForestStays
  <2>7. facts' \in [Matters -> SUBSET Facts] /\ \A m \in Matters : facts[m] \subseteq facts'[m]
    BY <1>1, <2>1 DEF TypeOK
  <2> QED BY <1>8, <2>3, <2>5, <2>6, <2>7, WriteEdgeKeeps
<1>9. CASE Kind(p) = "change"
  <2> DEFINE fact == <<op[p].req, NoRequest>>
  <2>1. facts' = [facts EXCEPT ![c] = @ \cup {fact}] /\ edge' = edge BY <1>4, <1>9 DEF WriteEdge, Kind
  <2>2. fact \in Facts BY <1>2 DEF Facts
  <2> HIDE DEF fact
  <2>3. facts' \in [Matters -> SUBSET Facts] BY <1>1, <2>1, <2>2 DEF TypeOK
  <2>4. \A m \in Matters : facts[m] \subseteq facts'[m] BY <1>1, <2>1 DEF TypeOK
  <2>5. \A x \in Matters \ {c} : edge'[x] = edge[x] /\ facts'[x] = facts[x] BY <1>1, <2>1 DEF TypeOK
  <2>6. CurrentParent(c)' = CurrentParent(c) BY <2>1 DEF CurrentParent
  <2>7. \A m \in Owing : m \in call.children \/ \E x \in call.children : CurrentParent(x)' = m
    <3>1. \A m \in Owing : m = c \/ m = CurrentParent(c)' BY <1>1, <2>5, <2>6, OwingIs
    <3> QED BY <1>4, <3>1
  <2>8. IsForest(edge) => IsForest(edge') BY <2>1
  <2>9. edge' \in [Matters -> Edges \cup {NoEdge}] BY <1>1, <2>1 DEF TypeOK
  <2> QED BY <1>9, <2>3, <2>4, <2>7, <2>8, <2>9, WriteEdgeKeeps
<1> QED BY <1>1, <1>2, <1>7, <1>8, <1>9 DEF Asking

\* Edges, stale audits and the request in one: nothing is owed.
LEMMA CommitBatchStep ==
  ASSUME HierarchyAssumption, HierarchyInv, NEW p \in Processes, CommitBatch(p)
  PROVE  HierarchyInv'
<1>1. /\ TypeOK /\ op[p] \in Operations /\ ProcessInv(p) /\ op[p].step = "checked"
      /\ Kind(p) = "batch" /\ ~Conflict(p)
  BY DEF CommitBatch, At, Kind, HierarchyInv, TypeInv
<1>2. PICK call, ids, todo, r : call = Call(p) /\ ids = op[p].ids /\ todo = op[p].todo /\ r = op[p].req
  OBVIOUS
<1>3. r \in given /\ r \in Requests /\ Due(p) = {} /\ op[p].owes = {}
  BY <1>1, <1>2 DEF ProcessInv, ControlOf, OwesOf, Due, Kind, Call, TypeOK
<1>4. /\ ids \in SUBSET Matters /\ todo \in SUBSET Matters
      /\ todo \subseteq call.children /\ Family(call) \subseteq ids
  BY <1>1, <1>2 DEF ProcessInv, ReachOf, Operations
<1>5. call.parent \in Matters /\ call.kind = "batch"
  BY <1>1, <1>2, <1>3 DEF Kind, Call, HierarchyAssumption
<1> DEFINE b == [req |-> r, ids |-> ids, status |-> "pending"]
           o == [op[p] EXCEPT !.step = "publish", !.todo = ids, !.queue = {b}, !.stale = {}]
           e == Edge(p, TRUE)
<1>6. PICK changed : changed = Changed OBVIOUS
<1>7. changed \in SUBSET Matters /\ Changed \subseteq changed BY <1>6 DEF Changed
<1>8. /\ Goes(p, o, changed, ids)
      /\ Put(todo, e) /\ facts' = facts /\ summary' = summary
      /\ audit' = [m \in Matters |-> IF m \in ids THEN "stale" ELSE audit[m]]
      /\ batches' = batches \cup {b}
      /\ raced' = (raced \/ op[p].stale # {})
      /\ lost' = lost \ ids
      /\ UNCHANGED <<disposed, given, faults, torn, published>>
      /\ done' = done
  BY <1>2, <1>6 DEF CommitBatch
<1>9. b \in Batches BY <1>3, <1>4 DEF Batches, Statuses
<1>10. o \in Operations BY <1>1, <1>4, <1>9 DEF Operations, Steps
<1>11. /\ o.step = "publish" /\ o.req = r /\ o.todo = ids /\ o.owes = {} /\ o.queue = {b}
  BY <1>1, <1>2, <1>3 DEF Operations
<1>12. e \in Edges /\ e.parent = call.parent BY <1>2, <1>3, <1>5 DEF Edge, Edges
<1> HIDE DEF o, b, e
<1>13. op'[p] = o BY <1>8 DEF Goes
<1>14. ControlOf(p)' BY <1>3, <1>8, <1>11, <1>13 DEF ControlOf
<1>15. PlanOf(p)' /\ ReachOf(p)' /\ SeenOf(p)' BY <1>11, <1>13 DEF PlanOf, ReachOf, SeenOf
<1>16. OwesOf(p)' /\ SplitOf(p)' BY <1>11, <1>13 DEF OwesOf, SplitOf
<1>17. \A x \in Matters : edge'[x] = IF x \in todo THEN e ELSE edge[x] BY <1>8 DEF Put
<1>18. ASSUME NEW m \in Matters PROVE StillSettled(p, m)
  <2>1. CASE m \in ids BY <1>8, <2>1 DEF StillSettled
  <2>2. CASE m \notin ids
    <3>1. m \notin todo /\ m # call.parent BY <1>4, <2>2 DEF Family
    <3>2. \A c \in todo : CurrentParent(c) # m
      <4>1. \A c \in todo : IsEdge(c) => edge[c].parent = call.parent
        BY <1>1, <1>2 DEF Conflict, At, Kind, Elsewhere
      <4> QED BY <3>1, <4>1 DEF CurrentParent, IsEdge, NoEdge, HierarchyAssumption
    <3>3. \A c \in todo : CurrentParent(c)' # m
      BY <1>4, <1>12, <1>17, <3>1 DEF CurrentParent, HierarchyAssumption
    <3>4. \A x \in Matters \ todo : edge'[x] = edge[x] /\ facts'[x] = facts[x] BY <1>8, <1>17
    <3>5. View(m)' = View(m) BY <1>1, <1>4, <3>1, <3>2, <3>3, <3>4, ViewStays
    <3> QED BY <1>3, <1>8, <2>2, <3>5 DEF StillSettled
  <2> QED BY <2>1, <2>2
<1>19. ASSUME ~raced', IsForest(edge) PROVE IsForest(edge')
  <2>1. call.children \cap Chain(call.parent) = {}
    BY <1>1, <1>2, <1>8, <1>19 DEF ProcessInv, PlanOf
  <2>2. todo \cap Chain(call.parent) = {} BY <1>4, <2>1
  <2> QED BY <1>1, <1>4, <1>5, <1>8, <1>12, <1>19, <2>2, ForestGrows
<1>20. /\ edge' \in [Matters -> Edges \cup {NoEdge}] /\ facts' \in [Matters -> SUBSET Facts]
       /\ summary' \in [Matters -> Views] /\ audit' \in [Matters -> {"stale", "current"}]
       /\ batches' \subseteq Batches /\ done' \subseteq given /\ raced' \in BOOLEAN
       /\ lost' \subseteq Matters
  <2>1. edge' \in [Matters -> Edges \cup {NoEdge}] BY <1>1, <1>8, <1>12 DEF TypeOK, Put
  <2>2. audit' \in [Matters -> {"stale", "current"}] BY <1>1, <1>8 DEF TypeOK
  <2> QED BY <1>1, <1>8, <1>9, <2>1, <2>2 DEF TypeOK
<1>21. (raced => raced') /\ \A m \in Matters : facts[m] \subseteq facts'[m] BY <1>8
<1> QED BY <1>1, <1>4, <1>7, <1>8, <1>10, <1>14, <1>15, <1>16, <1>18, <1>19, <1>20, <1>21, TableStep
        DEF ProcessInv

\* Everything that is owed becomes stale.
LEMMA InvalidateStep ==
  ASSUME HierarchyAssumption, HierarchyInv, NEW p \in Processes, Invalidate(p)
  PROVE  HierarchyInv'
<1> DEFINE Ids == CASE Kind(p) = "attach" -> Call(p).children \cup Chain(Call(p).parent)
                    [] Kind(p) = "change" -> Chains(Call(p).children)
                    [] OTHER -> op[p].ids
           Following == CASE Kind(p) \in {"attach", "reparent"} -> "settle"
                     [] Kind(p) = "split" -> "requests"
                     [] OTHER -> "publish"
           silent == Kind(p) = "change" /\ ~Call(p).refresh
<1>1. /\ TypeOK /\ op[p] \in Operations /\ ProcessInv(p) /\ op[p].step = "written"
  BY DEF Invalidate, At, HierarchyInv, TypeInv
<1>2. PICK call, ids, following, r : call = Call(p) /\ ids = Ids /\ following = Following /\ r = op[p].req
  OBVIOUS
<1>3. /\ r \in given /\ r \in Requests /\ op[p].queue = {} /\ call \in Calls /\ call.kind = Kind(p)
      /\ Kind(p) \in {"attach", "reparent", "detach", "change", "split"}
  BY <1>1, <1>2 DEF ProcessInv, ControlOf, Kind, Call, TypeOK, HierarchyAssumption
<1>4. op[p].ids \in SUBSET Matters /\ op[p].owes \in SUBSET Matters /\ call.children \in SUBSET Matters
  BY <1>1, <1>3 DEF Operations, Calls
<1>5. call.kind \in {"attach", "batch", "reparent", "split"} => call.parent \in Matters
  BY <1>2, <1>3 DEF Call, HierarchyAssumption
<1>6. /\ Kind(p) = "attach" => ids = call.children \cup Chain(call.parent)
      /\ Kind(p) = "change" => ids = Chains(call.children)
      /\ Kind(p) \in {"reparent", "detach", "split"} => ids = op[p].ids
      /\ Kind(p) \in {"attach", "reparent"} => following = "settle"
      /\ Kind(p) = "split" => following = "requests"
      /\ Kind(p) \in {"detach", "change"} => following = "publish"
  BY <1>2
<1>7. \A c \in call.children : c \in Chain(c) /\ Chain(c) \subseteq Matters
                               /\ (IsEdge(c) => edge[c].parent \in Chain(c))
  BY <1>1, <1>4, ChainIs
<1>8. Kind(p) = "attach" => call.parent \in Chain(call.parent) /\ Chain(call.parent) \subseteq Matters
  BY <1>1, <1>3, <1>5, ChainIs
<1>9. ids \in SUBSET Matters BY <1>3, <1>4, <1>6, <1>7, <1>8 DEF Chains
<1>10. Due(p) \subseteq ids
  <2>1. CASE Kind(p) = "attach"
    BY <1>1, <1>2, <1>6, <1>8, <2>1 DEF ProcessInv, OwesOf, Due, Family
  <2>2. CASE Kind(p) \in {"reparent", "detach"} BY <1>1, <1>6, <2>2 DEF ProcessInv, OwesOf, Due
  <2>3. CASE Kind(p) = "split" BY <1>1, <2>3 DEF ProcessInv, OwesOf, Due
  <2>4. CASE Kind(p) = "change"
    <3>1. ASSUME NEW m \in Due(p) PROVE \E c \in call.children : m \in Chain(c)
      <4>1. m \in Matters /\ (m \in call.children \/ \E c \in call.children : CurrentParent(c) = m)
        BY <1>1, <1>2, <1>4, <2>4 DEF Due
      <4>2. ASSUME NEW c \in call.children, CurrentParent(c) = m PROVE m \in Chain(c)
        BY <1>7, <4>1, <4>2 DEF CurrentParent, IsEdge, NoEdge, HierarchyAssumption
      <4> QED BY <1>7, <4>1, <4>2
    <3> QED BY <1>6, <2>4, <3>1 DEF Chains
  <2> QED BY <1>3, <2>1, <2>2, <2>3, <2>4
<1> DEFINE on == [op[p] EXCEPT !.step = following, !.ids = ids, !.todo = ids, !.owes = {},
                               !.stale = IF following = "settle" THEN @ ELSE {}]
<1>11. /\ audit' = [m \in Matters |-> IF m \in ids THEN "stale" ELSE audit[m]]
       /\ lost' = lost \ ids
       /\ Goes(p, IF silent THEN Idle ELSE on, {}, ids)
       /\ done' = IF silent THEN done \cup {r} ELSE done
       /\ UNCHANGED <<edge, facts, summary, batches, raced>>
       /\ UNCHANGED <<disposed, given, faults, torn, published>>
  BY <1>2 DEF Invalidate, Kind
<1>12. PICK kept \in SUBSET Matters : kept = IF following = "settle" THEN op[p].stale ELSE {}
  BY <1>1 DEF Operations
<1>13. on = [op[p] EXCEPT !.step = following, !.ids = ids, !.todo = ids, !.owes = {}, !.stale = kept]
  BY <1>12
<1>14. on \in Operations
  <2>1. following \in Steps BY <1>3, <1>6 DEF Steps
  <2> HIDE DEF on
  <2> QED BY <1>1, <1>9, <1>13, <2>1 DEF Operations
<1>15. /\ on.step = following /\ on.req = r /\ on.ids = ids /\ on.todo = ids /\ on.owes = {}
       /\ on.queue = {} /\ on.stale = kept
  <2> HIDE DEF on
  <2> QED BY <1>1, <1>2, <1>3, <1>13 DEF Operations
<1> HIDE DEF on
<1>16. Changed = {} /\ \A m : View(m)' = View(m) BY <1>11, QuietViews
<1>17. ASSUME NEW m \in Matters PROVE StillSettled(p, m)
  BY <1>10, <1>11, <1>16 DEF StillSettled
<1>18. /\ edge' \in [Matters -> Edges \cup {NoEdge}] /\ facts' \in [Matters -> SUBSET Facts]
       /\ summary' \in [Matters -> Views] /\ audit' \in [Matters -> {"stale", "current"}]
       /\ batches' \subseteq Batches /\ done' \subseteq given /\ raced' \in BOOLEAN
       /\ lost' \subseteq Matters
  <2>1. audit' \in [Matters -> {"stale", "current"}] BY <1>1, <1>11 DEF TypeOK
  <2>2. done' \subseteq given BY <1>1, <1>3, <1>11 DEF TypeOK
  <2> QED BY <1>1, <1>11, <2>1, <2>2 DEF TypeOK
<1>19. /\ raced => raced'
       /\ \A m \in Matters : facts[m] \subseteq facts'[m]
       /\ IsForest(edge) => IsForest(edge')
  BY <1>11
<1>20. {} \in SUBSET Matters /\ Changed \subseteq {} BY <1>16
<1>21. CASE silent
  <2>1. Goes(p, Idle, {}, ids) BY <1>11, <1>21
  <2>2. op'[p] = Idle BY <2>1 DEF Goes
  <2>3. ProcessInv(p)' BY <2>2, RestingIs
  <2> QED BY <1>1, <1>9, <1>11, <1>17, <1>18, <1>19, <1>20, <2>1, <2>3, IdleType, TableStep
<1>22. CASE ~silent
  <2>1. Goes(p, on, {}, ids) BY <1>11, <1>22
  <2>2. op'[p] = on BY <2>1 DEF Goes
  <2>3. Kind(p)' = Kind(p) /\ Call(p)' = call BY <1>2, <1>15, <2>2 DEF Kind, Call
  <2>4. ControlOf(p)' BY <1>3, <1>6, <1>11, <1>15, <2>2, <2>3 DEF ControlOf
  <2>5. PlanOf(p)'
    <3>1. PlanOf(p) BY <1>1 DEF ProcessInv
    <3> QED BY <1>1, <1>2, <1>3, <1>6, <1>11, <1>12, <1>15, <2>2, <2>3, <3>1 DEF PlanOf
  <2>6. ReachOf(p)'
    <3>1. following = "settle" \/ following = "requests" => Family(call) \subseteq ids
      <4>1. Kind(p) \in {"reparent", "split"} => Family(call) \subseteq ids
        BY <1>1, <1>2, <1>6 DEF ProcessInv, ReachOf
      <4>2. Kind(p) = "attach" => Family(call) \subseteq ids BY <1>6, <1>8 DEF Family
      <4> QED BY <1>3, <1>6, <4>1, <4>2
    <3>2. following \in {"settle", "requests", "publish"} BY <1>3, <1>6
    <3> QED BY <1>15, <2>2, <2>3, <3>1, <3>2 DEF ReachOf
  <2>7. OwesOf(p)' /\ SeenOf(p)'
    <3>1. following \in {"settle", "requests", "publish"} BY <1>3, <1>6
    <3> QED BY <1>15, <2>2, <3>1 DEF OwesOf, SeenOf
  <2>8. SplitOf(p)' BY <1>3, <1>6, <1>15, <2>2, <2>3 DEF SplitOf
  <2> QED BY <1>1, <1>9, <1>11, <1>14, <1>17, <1>18, <1>19, <1>20, <2>1, <2>4, <2>5, <2>6, <2>7, <2>8, TableStep
          DEF ProcessInv
<1> QED BY <1>21, <1>22

\* The pending edge is written again as a current one.
LEMMA SettleStep ==
  ASSUME HierarchyAssumption, HierarchyInv, NEW p \in Processes, Settle(p)
  PROVE  HierarchyInv'
<1>1. /\ TypeOK /\ op[p] \in Operations /\ ProcessInv(p) /\ op[p].step = "settle" /\ ~Conflict(p)
  BY DEF Settle, At, HierarchyInv, TypeInv
<1>2. /\ op[p].req \in given /\ op[p].req \in Requests /\ Kind(p) \in {"attach", "reparent"}
      /\ op[p].queue = {} /\ Due(p) = {}
  BY <1>1 DEF ProcessInv, ControlOf, OwesOf, Due, TypeOK
<1>3. PICK call : call = Call(p) OBVIOUS
<1>4. PICK c \in Matters : c = Child(p) /\ call.children = {c} BY <1>2, <1>3, ChildIs DEF OfOne, Kinds
<1>5. call.parent \in Matters /\ c # Root BY <1>2, <1>3 DEF Kind, Call, HierarchyAssumption
<1>6. PICK owing, changed : owing = Owing /\ changed = Changed OBVIOUS
<1>7. owing \in SUBSET Matters /\ changed \in SUBSET Matters /\ Changed \subseteq changed
      /\ {} \in SUBSET Matters
  BY <1>6 DEF Owing, Changed
<1> DEFINE o == [op[p] EXCEPT !.step = "publish", !.owes = owing, !.stale = {}]
           e == Edge(p, TRUE)
<1>8. /\ Goes(p, o, changed, {})
      /\ Put({c}, e) /\ UNCHANGED <<facts, audit, summary, batches, done, lost>>
      /\ raced' = (raced \/ op[p].stale # {})
      /\ UNCHANGED <<disposed, given, faults, torn, published>>
  BY <1>4, <1>6 DEF Settle
<1>9. o \in Operations BY <1>1, <1>7 DEF Operations, Steps
<1>10. /\ o.step = "publish" /\ o.req = op[p].req /\ o.todo = op[p].todo /\ o.owes = owing
       /\ o.queue = {}
  BY <1>1, <1>2 DEF Operations
<1>11. e \in Edges /\ e.parent = call.parent BY <1>2, <1>3, <1>5 DEF Edge, Edges
<1> HIDE DEF o, e
<1>12. op'[p] = o BY <1>8 DEF Goes
<1>13. edge'[c] = e /\ \A x \in Matters \ {c} : edge'[x] = edge[x] BY <1>8 DEF Put
<1>14. IsEdge(c) => edge[c].parent = call.parent
  BY <1>1, <1>3, <1>4 DEF Conflict, At, Elsewhere
<1>15. owing \subseteq {c, call.parent}
  <2>1. CurrentParent(c) \in {call.parent, Root} BY <1>14 DEF CurrentParent, IsEdge, NoEdge
  <2>2. CurrentParent(c)' \in {call.parent, Root} BY <1>11, <1>13 DEF CurrentParent
  <2> QED BY <1>1, <1>6, <1>8, <1>13, <2>1, <2>2, OwingIs DEF HierarchyAssumption
<1>16. owing \subseteq op[p].todo
  <2>1. Family(call) \subseteq op[p].todo BY <1>1, <1>3 DEF ProcessInv, ReachOf
  <2> QED BY <1>4, <1>15, <2>1 DEF Family
<1>17. ControlOf(p)' BY <1>2, <1>8, <1>10, <1>12 DEF ControlOf
<1>18. PlanOf(p)' /\ ReachOf(p)' /\ SeenOf(p)' BY <1>10, <1>12 DEF PlanOf, ReachOf, SeenOf
<1>19. OwesOf(p)' BY <1>10, <1>12, <1>16 DEF OwesOf
<1>20. SplitOf(p)' BY <1>2, <1>10, <1>12 DEF SplitOf, Kind, Call
<1>21. ASSUME NEW m \in Matters PROVE StillSettled(p, m)
  <2>1. CASE View(m)' = View(m) BY <1>2, <1>8, <2>1 DEF StillSettled
  <2>2. CASE View(m)' # View(m)
    <3>1. audit'[m] = "current" => m \in owing BY <1>6, <2>2 DEF Owing
    <3>2. m \in owing => m \in Due(p)' BY <1>10, <1>12 DEF Due
    <3> QED BY <3>1, <3>2 DEF StillSettled
  <2> QED BY <2>1, <2>2
<1>22. ASSUME ~raced', IsForest(edge) PROVE IsForest(edge')
  <2>1. edge[c].parent = call.parent BY <1>1, <1>2, <1>3, <1>4, <1>8, <1>22 DEF ProcessInv, PlanOf
  <2>2. \A x \in Matters : edge'[x].parent \in {edge[x].parent, Root} BY <1>11, <1>13, <2>1
  <2> QED BY <1>22, <2>2, ForestStays
<1>23. /\ edge' \in [Matters -> Edges \cup {NoEdge}] /\ facts' \in [Matters -> SUBSET Facts]
       /\ summary' \in [Matters -> Views] /\ audit' \in [Matters -> {"stale", "current"}]
       /\ batches' \subseteq Batches /\ done' \subseteq given /\ raced' \in BOOLEAN
       /\ lost' \subseteq Matters
  <2>1. edge' \in [Matters -> Edges \cup {NoEdge}] BY <1>1, <1>8, <1>11 DEF TypeOK, Put
  <2> QED BY <1>1, <1>8, <2>1 DEF TypeOK
<1>24. (raced => raced') /\ \A m \in Matters : facts[m] \subseteq facts'[m] BY <1>8
<1> QED BY <1>1, <1>7, <1>8, <1>9, <1>17, <1>18, <1>19, <1>20, <1>21, <1>22, <1>23, <1>24, TableStep
        DEF ProcessInv

\* What was read and not overtaken is published and agrees.
LEMMA WriteStep ==
  ASSUME HierarchyAssumption, HierarchyInv, NEW p \in Processes, Write(p)
  PROVE  HierarchyInv'
<1>1. /\ TypeOK /\ op[p] \in Operations /\ ProcessInv(p) /\ op[p].step = "read"
  BY DEF Write, At, HierarchyInv, TypeInv
<1>2. PICK S, seen : S = DOMAIN op[p].seen /\ seen = op[p].seen OBVIOUS
<1>3. /\ S \in SUBSET Matters /\ \A m \in S : seen[m] \in Views
  BY <1>1, <1>2 DEF HierarchyInv, TypeInv, TypeOK
<1>4. op[p].todo \in SUBSET Matters /\ op[p].owes \in SUBSET Matters /\ op[p].owes \subseteq op[p].todo
      /\ Due(p) = op[p].owes
  BY <1>1 DEF Operations, ProcessInv, OwesOf, Due
<1> DEFINE o == [op[p] EXCEPT !.step = "publish", !.todo = @ \ S, !.owes = @ \ S,
                              !.seen = <<>>, !.stale = {}, !.moved = {}]
<1>5. /\ Goes(p, o, {}, S)
      /\ summary' = [m \in Matters |-> IF m \in S THEN seen[m] ELSE summary[m]]
      /\ audit' = [m \in Matters |-> IF m \in S THEN "current" ELSE audit[m]]
      /\ raced' = (raced \/ op[p].stale \cap S # {})
      /\ lost' = lost \ S
      /\ UNCHANGED <<edge, facts, batches, done>>
      /\ UNCHANGED <<disposed, given, faults, torn, published>>
  BY <1>2 DEF Write
<1>6. o \in Operations
  <2>1. <<>> \in UNION {[T -> Views] : T \in SUBSET Matters}
    <3>1. <<>> \in [{} -> Views] OBVIOUS
    <3> QED BY <3>1
  <2> QED BY <1>1, <1>4, <2>1 DEF Operations, Steps
<1>7. /\ o.step = "publish" /\ o.req = op[p].req /\ o.ids = op[p].ids /\ o.todo = op[p].todo \ S
      /\ o.owes = op[p].owes \ S /\ o.queue = op[p].queue
  BY <1>1 DEF Operations
<1> HIDE DEF o
<1>8. op'[p] = o BY <1>5 DEF Goes
<1>9. Changed = {} /\ \A m : View(m)' = View(m) BY <1>5, QuietViews
<1>10. ControlOf(p)' BY <1>1, <1>5, <1>7, <1>8 DEF ProcessInv, ControlOf
<1>11. PlanOf(p)' /\ ReachOf(p)' /\ SeenOf(p)' BY <1>7, <1>8 DEF PlanOf, ReachOf, SeenOf
<1>12. OwesOf(p)' BY <1>4, <1>7, <1>8 DEF OwesOf
<1>13. SplitOf(p)'
  <2>1. SplitOf(p) BY <1>1 DEF ProcessInv
  <2> QED BY <1>1, <1>5, <1>7, <1>8, <2>1 DEF SplitOf, Executed, DisposedOf, Kind, Call
<1>14. ASSUME ~raced', NEW m \in Matters PROVE StillSettled(p, m)
  <2>1. CASE m \in S
    <3>1. seen[m] = View(m) BY <1>1, <1>2, <1>5, <1>14, <2>1 DEF ProcessInv, SeenOf
    <3> QED BY <1>5, <1>9, <2>1, <3>1 DEF StillSettled
  <2>2. CASE m \notin S
    <3>1. m \in Due(p) => m \in Due(p)' BY <1>4, <1>7, <1>8, <2>2 DEF Due
    <3> QED BY <1>5, <1>9, <2>2, <3>1 DEF StillSettled
  <2> QED BY <2>1, <2>2
<1>15. /\ edge' \in [Matters -> Edges \cup {NoEdge}] /\ facts' \in [Matters -> SUBSET Facts]
       /\ summary' \in [Matters -> Views] /\ audit' \in [Matters -> {"stale", "current"}]
       /\ batches' \subseteq Batches /\ done' \subseteq given /\ raced' \in BOOLEAN
       /\ lost' \subseteq Matters
  <2>1. summary' \in [Matters -> Views] BY <1>1, <1>3, <1>5 DEF TypeOK
  <2>2. audit' \in [Matters -> {"stale", "current"}] BY <1>1, <1>5 DEF TypeOK
  <2> QED BY <1>1, <1>5, <2>1, <2>2 DEF TypeOK
<1>16. /\ raced => raced'
       /\ \A m \in Matters : facts[m] \subseteq facts'[m]
       /\ IsForest(edge) => IsForest(edge')
       /\ {} \in SUBSET Matters /\ Changed \subseteq {}
  BY <1>5, <1>9
<1> QED BY <1>1, <1>3, <1>5, <1>6, <1>10, <1>11, <1>12, <1>13, <1>14, <1>15, <1>16, TableStep
        DEF ProcessInv

\* The owner moves a member: only the matters of the split look different.
LEMMA ApplyStep ==
  ASSUME HierarchyAssumption, HierarchyInv, NEW p \in Processes, Apply(p)
  PROVE  HierarchyInv'
<1>1. /\ TypeOK /\ op[p] \in Operations /\ ProcessInv(p) /\ op[p].step = "apply" /\ DispositionsAgree
  BY DEF Apply, At, HierarchyInv, TypeInv
<1>2. PICK call, r, s : call = Call(p) /\ r = op[p].req /\ s = op[p].ids OBVIOUS
<1>3. PICK owing, changed : owing = Owing /\ changed = Changed OBVIOUS
<1>4. owing \in SUBSET Matters /\ changed \in SUBSET Matters /\ Changed \subseteq changed
      /\ {} \in SUBSET Matters
  BY <1>3 DEF Owing, Changed
<1>5. PICK d \in disposed :
        /\ d.req = r /\ d.ids = s
        /\ call.members[d.member] = "move"
        /\ facts' = [m \in Matters |-> IF m \in call.children \cup {call.parent}
                                       THEN facts[m] \cup {<<d.req, d.member>>} ELSE facts[m]]
        /\ Goes(p, [op[p] EXCEPT !.step = "applied", !.member = d.member,
                                 !.owes = @ \cup owing], changed, {})
  BY <1>2, <1>3 DEF Apply, Mine, DisposedOf
<1> DEFINE o == [op[p] EXCEPT !.step = "applied", !.member = d.member, !.owes = @ \cup owing]
<1>6. /\ UNCHANGED <<edge, audit, summary, batches, done, raced, lost>>
      /\ UNCHANGED <<disposed, given, faults, torn, published>>
  BY DEF Apply, history
<1>7. /\ r \in given /\ r \in Requests /\ call.kind = "split" /\ call = What[r] /\ op[p].queue = {}
      /\ Family(call) \subseteq s /\ op[p].owes \subseteq s /\ call.parent \in Matters
  BY <1>1, <1>2 DEF ProcessInv, ControlOf, ReachOf, OwesOf, Kind, Call, TypeOK, HierarchyAssumption
<1>8. d.member \in Members /\ d.member # NoRequest /\ d.req \in Requests
  BY <1>1 DEF TypeOK, Dispositions, HierarchyAssumption
<1>9. d.member \in DOMAIN call.members BY <1>1, <1>5, <1>7 DEF DispositionsAgree, DispositionAgrees
<1>10. op[p].owes \in SUBSET Matters BY <1>1 DEF Operations
<1>11. o \in Operations BY <1>1, <1>4, <1>8, <1>10 DEF Operations, Steps
<1>12. /\ o.step = "applied" /\ o.req = r /\ o.ids = s /\ o.member = d.member
       /\ o.owes = op[p].owes \cup owing /\ o.queue = {}
  BY <1>1, <1>2, <1>7 DEF Operations
<1>13. Goes(p, o, changed, {}) BY <1>5
<1> HIDE DEF o
<1>14. op'[p] = o BY <1>13 DEF Goes
<1>15. \A m \in Matters : Shown(m)' = Shown(m)
  <2> DEFINE f == <<d.req, d.member>>
  <2>1. f[2] # NoRequest BY <1>8
  <2> HIDE DEF f
  <2>2. \A m \in Matters : facts'[m] = facts[m] \/ facts'[m] = facts[m] \cup {f} BY <1>5 DEF f
  <2> QED BY <2>1, <2>2 DEF Shown
<1>16. ASSUME NEW m \in Matters, m \notin Family(call) PROVE View(m)' = View(m)
  <2>1. facts'[m] = facts[m] BY <1>5, <1>16 DEF Family
  <2>2. CurrentChildren(m)' = CurrentChildren(m) /\ CurrentParent(m)' = CurrentParent(m)
    BY <1>6 DEF CurrentChildren, CurrentParent
  <2>3. \A x \in CurrentChildren(m) : edge'[x] = edge[x] /\ Shown(x)' = Shown(x)
    BY <1>6, <1>15 DEF CurrentChildren
  <2>4. {<<x, edge'[x].by, Shown(x)'>> : x \in CurrentChildren(m)'} = {<<x, edge[x].by, Shown(x)>> : x \in CurrentChildren(m)}
    BY <2>2, <2>3
  <2> QED BY <2>1, <2>2, <2>4 DEF View
<1>17. owing \subseteq s BY <1>3, <1>7, <1>16 DEF Owing
<1>18. ControlOf(p)' BY <1>5, <1>6, <1>7, <1>9, <1>12, <1>14 DEF ControlOf, Kind, Call
<1>19. PlanOf(p)' /\ SeenOf(p)' BY <1>12, <1>14 DEF PlanOf, SeenOf
<1>20. ReachOf(p)' BY <1>7, <1>12, <1>14 DEF ReachOf, Kind, Call
<1>21. OwesOf(p)' BY <1>7, <1>12, <1>14, <1>17 DEF OwesOf
<1>22. SplitOf(p)'
  <2>1. <<r, s>> \in torn \/ Covered(r, s) BY <1>1, <1>2 DEF ProcessInv, SplitOf
  <2>2. <<r, s>> \in torn' \/ Covered(r, s)' BY <1>6, <2>1 DEF Covered, DisposedOf
  <2>3. <<r, d.member>> \in facts'[call.parent] BY <1>5, <1>7
  <2> QED BY <1>7, <1>12, <1>14, <2>2, <2>3, SplitHolds
<1>23. ASSUME NEW m \in Matters PROVE StillSettled(p, m)
  <2>1. m \in owing => m \in Due(p)' BY <1>12, <1>14 DEF Due
  <2>2. m \in Due(p) => m \in Due(p)' BY <1>12, <1>14 DEF Due
  <2>3. audit'[m] = "current" /\ View(m)' # View(m) => m \in owing BY <1>3 DEF Owing
  <2> QED BY <1>6, <2>1, <2>2, <2>3 DEF StillSettled
<1>24. facts' \in [Matters -> SUBSET Facts]
  <2>1. <<d.req, d.member>> \in Facts BY <1>8 DEF Facts
  <2> QED BY <1>1, <1>5, <2>1 DEF TypeOK
<1>25. /\ edge' \in [Matters -> Edges \cup {NoEdge}]
       /\ summary' \in [Matters -> Views] /\ audit' \in [Matters -> {"stale", "current"}]
       /\ batches' \subseteq Batches /\ done' \subseteq given /\ raced' \in BOOLEAN
       /\ lost' \subseteq Matters
  BY <1>1, <1>6 DEF TypeOK
<1>26. /\ raced => raced'
       /\ \A m \in Matters : facts[m] \subseteq facts'[m]
       /\ IsForest(edge) => IsForest(edge')
  BY <1>5, <1>6
<1> QED BY <1>1, <1>4, <1>6, <1>11, <1>13, <1>18, <1>19, <1>20, <1>21, <1>22, <1>23, <1>24, <1>25, <1>26, TableStep
        DEF ProcessInv

------------------------------------------------------------------------------
(* The behaviours.                                                         *)

LEMMA InitEstablishes ==
  ASSUME HierarchyAssumption, Init
  PROVE  HierarchyInv
<1>1. PICK w \in Workloads : edge = w.edges /\ given = w.requests BY DEF Init
<1>2. w.edges \in Hierarchies /\ given \subseteq Requests BY <1>1 DEF HierarchyAssumption
<1>3. edge \in [Matters -> Edges \cup {NoEdge}] BY <1>1, <1>2 DEF Hierarchies
<1>4. facts \in [Matters -> SUBSET Facts] BY DEF Init
<1>5. summary \in [Matters -> Views] BY <1>3, <1>4, ViewType DEF Init
<1>6. op = [p \in Processes |-> Idle] BY DEF Init
<1>7. op \in [Processes -> Operations] BY <1>6, IdleType
<1>8. TypeOK
  <2>1. \A p \in Processes : op[p] \in Operations BY <1>7
  <2>2. audit \in [Matters -> {"stale", "current"}] BY DEF Init
  <2>3. faults \in 0 .. MaxFaults BY DEF Init, HierarchyAssumption
  <2>4. batches = {} /\ disposed = {} /\ done = {} /\ raced = FALSE /\ lost = {} /\ torn = {} /\ published = {}
    BY DEF Init
  <2>5. ASSUME NEW p \in Processes
        PROVE  /\ op[p].step \in Steps /\ op[p].req \in Requests \cup {NoRequest}
               /\ op[p].ids \cup op[p].todo \cup op[p].owes \subseteq Matters
               /\ op[p].stale \cup op[p].moved \subseteq Matters
               /\ DOMAIN op[p].seen \subseteq Matters
               /\ \A m \in DOMAIN op[p].seen : op[p].seen[m] \in Views
               /\ op[p].queue \subseteq Batches /\ op[p].member \in Members \cup {NoRequest}
    BY <2>1 DEF Operations
  <2> QED BY <1>2, <1>3, <1>4, <1>5, <2>2, <2>3, <2>4, <2>5 DEF TypeOK
<1>9. ASSUME NEW p \in Processes PROVE ProcessInv(p)
  <2>1. op[p].step = "idle" /\ op[p].req = NoRequest /\ op[p].owes = {} BY <1>6, IdleType
  <2>2. ControlOf(p) BY <2>1 DEF ControlOf
  <2>3. PlanOf(p) /\ ReachOf(p) /\ SeenOf(p) BY <2>1 DEF PlanOf, ReachOf, SeenOf
  <2>4. OwesOf(p) /\ SplitOf(p) BY <2>1 DEF OwesOf, SplitOf
  <2> QED BY <2>2, <2>3, <2>4 DEF ProcessInv
<1>10. Forest BY <1>1, <1>2 DEF Forest, Hierarchies
<1>11. RestSettled BY DEF Init, RestSettled, Settled
<1>12. DispositionsAgree BY DEF Init, DispositionsAgree
<1> QED BY <1>7, <1>8, <1>9, <1>10, <1>11, <1>12 DEF HierarchyInv, TypeInv

LEMMA StepKeeps ==
  ASSUME HierarchyAssumption, HierarchyInv, [Next]_vars
  PROVE  HierarchyInv'
<1>1. CASE UNCHANGED vars
  <2>1. UNCHANGED <<stored, op, given, faults, history>> /\ done' = done BY <1>1 DEF vars
  <2>2. done' \subseteq given BY <2>1 DEF HierarchyInv, TypeInv, TypeOK
  <2> QED BY <2>1, <2>2, SameStep
<1>2. ASSUME NEW p \in Processes, NEW r \in Requests, Begin(p, r) PROVE HierarchyInv'
  <2>1. CASE BeginBatch(p, r) BY <2>1, BeginBatchStep
  <2>2. CASE ~BeginBatch(p, r) BY <1>2, <2>2, BeginSteps DEF Begin
  <2> QED BY <2>1, <2>2
<1>3. ASSUME NEW p \in Processes, Continue(p) PROVE HierarchyInv'
  <2>1. CASE Refuse(p) \/ BlockReview(p) BY <2>1, FaultStep
  <2>2. CASE WriteEdge(p) BY <2>2, WriteEdgeStep
  <2>3. CASE CommitBatch(p) BY <2>3, CommitBatchStep
  <2>4. CASE Invalidate(p) BY <2>4, InvalidateStep
  <2>5. CASE Settle(p) BY <2>5, SettleStep
  <2>6. CASE Read(p) BY <2>6, ReadStep
  <2>7. CASE Write(p) BY <2>7, WriteStep
  <2>8. CASE Finish(p) BY <2>8, FinishStep
  <2>9. CASE Mark(p) BY <2>9, MarkStep
  <2>10. CASE Recover(p) BY <2>10, OpenStep
  <2>11. CASE Dispose(p) BY <2>11, DisposeStep
  <2>12. CASE Apply(p) BY <2>12, ApplyStep
  <2>13. CASE MarkApplied(p) BY <2>13, MarkAppliedStep
  <2>14. CASE PublishSplit(p) BY <2>14, PublishSplitStep
  <2> QED BY <1>3, <2>1, <2>2, <2>3, <2>4, <2>5, <2>6, <2>7, <2>8, <2>9, <2>10, <2>11, <2>12, <2>13, <2>14
          DEF Continue
<1>4. ASSUME NEW p \in Processes, ResumeSplit(p) \/ Open(p) \/ Fail(p) \/ Kill(p) PROVE HierarchyInv'
  BY <1>4, ResumeStep, OpenStep, FaultStep
<1> QED BY <1>1, <1>2, <1>3, <1>4 DEF Next

\* HierarchyInv is an inductive invariant of the operations on the hierarchy
\* of any number of processes, whatever calls they serve, whenever one dies.
THEOREM HierarchyInvariance == Spec => []HierarchyInv
<1> USE HierarchyAssumption
<1>1. Init => HierarchyInv BY InitEstablishes
<1>2. HierarchyInv /\ [Next]_vars => HierarchyInv' BY StepKeeps
<1> QED BY <1>1, <1>2, PTL DEF Spec

\* Every variable keeps its type.
THEOREM HierarchyIsTyped == Spec => []TypeOK
<1>1. HierarchyInv => TypeOK BY DEF HierarchyInv, TypeInv
<1> QED BY <1>1, HierarchyInvariance, PTL

\* As long as no operation writes an edge after it was overtaken, no matter is
\* ever its own ancestor, over current and pending edges: the check of the
\* ancestors of the parent (_validate_parent) is enough.
THEOREM HierarchyStaysForest == Spec => []Forest
<1>1. HierarchyInv => Forest BY DEF HierarchyInv
<1> QED BY <1>1, HierarchyInvariance, PTL

\* As long as no operation writes from an overtaken reading, a summary whose
\* audit is current agrees with the edges and the facts, or an operation still
\* owes the invalidation, or died owing it.
THEOREM SummariesStayTrue == Spec => []CurrentMeansAgrees
<1>1. HierarchyInv => CurrentMeansAgrees
  BY DEF HierarchyInv, RestSettled, Settled, Due, CurrentMeansAgrees
<1> QED BY <1>1, HierarchyInvariance, PTL

PublishedAgree ==
  \A x \in published : What[x[1]].kind = "split" /\ (x \notin torn => Executed(x[1], x[2]))

\* Nothing that splits have recorded is taken back; what is published then was
\* executed.
LEMMA SplitsOnlyGrow ==
  ASSUME HierarchyAssumption, HierarchyInv, [Next]_vars
  PROVE  /\ torn \subseteq torn'
         /\ \A m \in Matters : facts[m] \subseteq facts'[m]
         /\ \A d \in disposed : \E e \in disposed' : e.req = d.req /\ e.ids = d.ids /\ e.member = d.member
         /\ \/ published' = published
            \/ \E p \in Processes : Finish(p)
<1> DEFINE Kept ==
         /\ torn \subseteq torn'
         /\ \A m \in Matters : facts[m] \subseteq facts'[m]
         /\ \A d \in disposed : \E e \in disposed' : e.req = d.req /\ e.ids = d.ids /\ e.member = d.member
         /\ \/ published' = published
            \/ \E p \in Processes : Finish(p)
<1>1. TypeOK BY DEF HierarchyInv, TypeInv
<1>2. ASSUME torn \subseteq torn', facts' = facts, disposed \subseteq disposed', published' = published
      PROVE  Kept
  BY <1>2
<1>3. CASE UNCHANGED vars BY <1>2, <1>3 DEF vars, stored, history
<1>4. ASSUME NEW p \in Processes, NEW r \in Requests, Begin(p, r) PROVE Kept
  BY <1>2, <1>4 DEF Begin, BeginAttach, BeginBatch, BeginReparent, BeginDetach, BeginChange, BeginSplit,
                    Starts, stored, history
<1>5. ASSUME NEW p \in Processes,
             CommitBatch(p) \/ Invalidate(p) \/ Settle(p) \/ Read(p) \/ Write(p) \/ Mark(p) \/ Recover(p)
             \/ Dispose(p) \/ PublishSplit(p) \/ ResumeSplit(p) \/ Open(p)
      PROVE  Kept
  BY <1>2, <1>5 DEF CommitBatch, Invalidate, Settle, Read, Write, Mark, Recover, Dispose, PublishSplit,
                    ResumeSplit, Open, stored, history
<1>6. ASSUME NEW p \in Processes, WriteEdge(p) PROVE Kept
  <2>1. torn' = torn /\ disposed' = disposed /\ published' = published BY <1>6 DEF WriteEdge
  <2>2. facts' = facts \/ facts' = [facts EXCEPT ![Child(p)] = @ \cup {<<op[p].req, NoRequest>>}]
    BY <1>6 DEF WriteEdge
  <2>3. \A m \in Matters : facts[m] \subseteq facts'[m] BY <1>1, <2>2 DEF TypeOK
  <2> QED BY <2>1, <2>3
<1>7. ASSUME NEW p \in Processes, Apply(p) PROVE Kept
  <2>1. torn' = torn /\ disposed' = disposed /\ published' = published BY <1>7 DEF Apply, history
  <2>2. \A m \in Matters : facts[m] \subseteq facts'[m] BY <1>7 DEF Apply
  <2> QED BY <2>1, <2>2
<1>8. ASSUME NEW p \in Processes, Finish(p) PROVE Kept
  <2>1. torn' = torn /\ disposed' = disposed /\ facts' = facts BY <1>8 DEF Finish, stored
  <2> QED BY <1>8, <2>1
<1>9. ASSUME NEW p \in Processes, MarkApplied(p) PROVE Kept
  <2>1. PICK d \in disposed : Decide(d, "current") BY <1>9 DEF MarkApplied, Mine, DisposedOf
  <2>2. \A x \in disposed : \E e \in disposed' : e.req = x.req /\ e.ids = x.ids /\ e.member = x.member
    BY <1>1, <2>1, DecideIs DEF Statuses
  <2>3. torn' = torn /\ facts' = facts /\ published' = published BY <1>9 DEF MarkApplied, history
  <2> QED BY <2>2, <2>3
<1>10. ASSUME NEW p \in Processes, Refuse(p) \/ BlockReview(p) \/ Fail(p) \/ Kill(p) PROVE Kept
  <2>1. facts' = facts /\ published' = published /\ torn \subseteq torn'
    BY <1>10 DEF Refuse, BlockReview, Fail, Kill, Raises, Dies
  <2>2. disposed' = disposed \/ \E d \in disposed : Decide(d, "blocked")
    BY <1>10 DEF Refuse, BlockReview, Fail, Kill, Mine, DisposedOf
  <2>3. \A x \in disposed : \E e \in disposed' : e.req = x.req /\ e.ids = x.ids /\ e.member = x.member
    BY <1>1, <2>2, DecideIs DEF Statuses
  <2> QED BY <2>1, <2>3
<1>11. ASSUME NEW p \in Processes, Continue(p) PROVE Kept
  BY <1>5, <1>6, <1>7, <1>8, <1>9, <1>10, <1>11 DEF Continue
<1> QED BY <1>3, <1>4, <1>5, <1>10, <1>11 DEF Next

LEMMA PublishedStays ==
  ASSUME HierarchyAssumption, HierarchyInv, PublishedAgree, [Next]_vars
  PROVE  PublishedAgree'
<1>1. /\ torn \subseteq torn'
      /\ \A m \in Matters : facts[m] \subseteq facts'[m]
      /\ \A d \in disposed : \E e \in disposed' : e.req = d.req /\ e.ids = d.ids /\ e.member = d.member
      /\ \/ published' = published
         \/ \E p \in Processes : Finish(p)
  BY SplitsOnlyGrow
<1>2. SplitsGrow BY <1>1 DEF SplitsGrow
<1>3. published \subseteq Requests \X SUBSET Matters BY DEF HierarchyInv, TypeInv, TypeOK
<1>4. ASSUME NEW r \in Requests, NEW s, What[r].kind = "split", Executed(r, s) PROVE Executed(r, s)'
  <2>1. What[r].parent \in Matters BY <1>4 DEF HierarchyAssumption
  <2> QED BY <1>2, <1>4, <2>1, SplitStays
<1>5. ASSUME NEW x \in published PROVE What[x[1]].kind = "split" /\ (x \notin torn' => Executed(x[1], x[2])')
  BY <1>1, <1>3, <1>4 DEF PublishedAgree
<1>6. CASE published' = published BY <1>5, <1>6 DEF PublishedAgree
<1>7. ASSUME NEW p \in Processes, Finish(p) PROVE PublishedAgree'
  <2>1. PICK r, s : r = op[p].req /\ s = op[p].ids OBVIOUS
  <2>2. /\ \/ published' = published
           \/ /\ op[p].queue = {} /\ Call(p).kind = "split"
              /\ published' = published \cup {<<r, s>>}
        /\ op[p].step = "publish" /\ ProcessInv(p) /\ TypeOK
    BY <1>7, <2>1 DEF Finish, At, HierarchyInv, TypeInv
  <2>3. ASSUME op[p].queue = {}, Call(p).kind = "split"
        PROVE  What[r].kind = "split" /\ (<<r, s>> \notin torn' => Executed(r, s)')
    <3>1. r \in given /\ r \in Requests /\ r # NoRequest
      BY <2>1, <2>2, <2>3 DEF ProcessInv, ControlOf, TypeOK, HierarchyAssumption
    <3>2. <<r, s>> \in torn \/ Executed(r, s)
      BY <2>1, <2>2, <2>3, <3>1 DEF ProcessInv, SplitOf, Kind
    <3>3. What[r].kind = "split" BY <2>1, <2>3 DEF Call
    <3> QED BY <1>1, <1>4, <3>1, <3>2, <3>3
  <2>4. CASE published' = published BY <1>6, <2>4
  <2>5. CASE op[p].queue = {} /\ Call(p).kind = "split" /\ published' = published \cup {<<r, s>>}
    <3>1. \A x \in published' : x \in published \/ (x[1] = r /\ x[2] = s /\ x = <<r, s>>) BY <2>5
    <3>2. ASSUME NEW x \in published'
          PROVE  What[x[1]].kind = "split" /\ (x \notin torn' => Executed(x[1], x[2])')
      <4>1. CASE x \in published BY <1>5, <4>1
      <4>2. CASE x[1] = r /\ x[2] = s /\ x = <<r, s>> BY <2>3, <2>5, <4>2
      <4> QED BY <3>1, <4>1, <4>2
    <3> QED BY <3>2 DEF PublishedAgree
  <2> QED BY <2>2, <2>4, <2>5
<1> QED BY <1>1, <1>6, <1>7

\* A split is published only after every member was disposed of and what was to
\* move has been moved, unless its call died, or another process resumed it,
\* while the dispositions were recorded.
THEOREM SplitsStayComplete == Spec => []SplitsAreComplete
<1> USE HierarchyAssumption
<1>1. Init => PublishedAgree BY DEF Init, PublishedAgree
<1>2. HierarchyInv /\ PublishedAgree /\ [Next]_vars => PublishedAgree' BY PublishedStays
<1>3. PublishedAgree => SplitsAreComplete BY DEF PublishedAgree, Executed, SplitsAreComplete
<1> QED BY <1>1, <1>2, <1>3, HierarchyInvariance, PTL DEF Spec

==============================================================================
