---------------------------- MODULE MatterHierarchy ----------------------------
(***************************************************************************)
(* The containment hierarchy of the matters.  Every process that opens the *)
(* service has its own MatterHierarchyOwner over the shared store; the     *)
(* owner's lock lets one operation at a time run in a process, nothing     *)
(* orders operations of two processes.  An operation reads and checks,     *)
(* writes the edges, marks the audits of the matters concerned stale and   *)
(* publishes their summaries again, in transactions of their own.  Only    *)
(* the batch attach commits edges, stale audits and a request to publish   *)
(* together; a process that opens the service finishes such requests.      *)
(*                                                                         *)
(* A summary is reduced to what it is computed from: the parent, the       *)
(* children with their edge and their decisions (lifecycle, outcome), and  *)
(* the matter's own facts (outcome, work items; the members that a split   *)
(* moves stand for these).  All matters are admitted and have a projection.*)
(* The path stored in the hierarchy projection and moves of a child matter *)
(* as part of a split are left out.  What happens between planning a       *)
(* revision and inserting it is the subject of SnapshotStore.              *)
(***************************************************************************)
EXTENDS Naturals, FiniteSets

CONSTANTS
    Matters,
    Root,       \* no parent
    Processes,
    Requests,   \* identities of the calls made
    Members,    \* identities of what a split divides
    What,       \* what each request asks for
    Workloads,  \* what a behaviour starts from: edges, and requests to serve
    NoRequest,
    MaxFaults   \* bound: crashes and failed calls

Kinds == {"attach", "batch", "reparent", "detach", "change", "split"}
OfOne == Kinds \ {"batch", "split"}   \* the calls that name one child or matter
Actions == {"retain", "move", "review"}

(* from: the expected parent; children: the child, the children of a batch, *)
(* the changed matter or the subjects of a split; refresh: is a change      *)
(* published; members: what a split does with what belongs to its subjects. *)
Calls == [kind : Kinds, parent : Matters \cup {Root}, from : Matters \cup {Root},
          children : SUBSET Matters, refresh : BOOLEAN,
          members : UNION {[S -> Actions] : S \in SUBSET Members}]

Edges == [parent : Matters, by : Requests, current : BOOLEAN]
NoEdge == [parent |-> Root, by |-> NoRequest, current |-> FALSE]

(* A hierarchy at rest: current edges, and no set that is its own ancestors. *)
Hierarchies ==
    {h \in [Matters -> {e \in Edges : e.current} \cup {NoEdge}] :
        \A S \in SUBSET Matters \ {{}} : \E m \in S : h[m].parent \notin S}

ASSUME HierarchyAssumption ==
    /\ Root \notin Matters
    /\ NoRequest \notin Requests \cup Members
    /\ What \in [Requests -> Calls]
    /\ \A r \in Requests :
         /\ What[r].kind \in {"attach", "batch", "reparent", "split"} => What[r].parent \in Matters
         /\ What[r].kind \in {"reparent", "detach"} => What[r].from \in Matters
         /\ What[r].kind \in OfOne => \E c \in Matters : What[r].children = {c}
         /\ What[r].kind = "reparent" => What[r].from # What[r].parent
    /\ Workloads \subseteq [edges : Hierarchies, requests : SUBSET Requests]
    /\ MaxFaults \in Nat

VARIABLES
    edge,      \* the index row of each child: parent, attributes, freshness
    facts,     \* the changes that each matter's own records contain
    summary,   \* the published summary of each matter
    audit,     \* the hierarchy stages of each matter: stale or current
    batches,   \* the publication requests of batch attaches
    disposed,  \* the disposition requests of splits
    op,        \* what each process is doing
    given,     \* the requests of this behaviour
    done,      \* the requests that returned
    faults,
    raced,     \* history: was something written from an overtaken reading
    lost,      \* history: matters an operation died owing an invalidation
    torn,      \* history: splits resumed, or dead, while dispositions were recorded
    published  \* history: splits published

stored == <<edge, facts, summary, audit, batches, disposed>>
history == <<raced, lost, torn, published>>
vars == <<stored, op, given, done, faults, history>>

Statuses == {"pending", "current"}
Batches == [req : Requests, ids : SUBSET Matters, status : Statuses]
Dispositions == [req : Requests, ids : SUBSET Matters, member : Members,
                 status : Statuses \cup {"blocked"}]
Facts == Requests \X (Members \cup {NoRequest})
Views == [parent : Matters \cup {Root}, own : SUBSET Facts,
          children : SUBSET (Matters \X Requests \X SUBSET Facts)]

Steps == {"closed", "recover", "idle", "checked", "written", "settle",
          "requests", "apply", "applied", "publish", "read", "mark"}

(* ids: the matters to invalidate; todo: the edges or the summaries still to *)
(* write; seen: the summaries read; stale: matters whose edge or view        *)
(* another process changed since the last reading; moved: matters whose      *)
(* audit another process appended since; owes: matters whose audit was left  *)
(* current over a change; queue: requests for publication to work off, the   *)
(* first one being at work; member: the disposition being applied.           *)
Operations ==
    [step : Steps, req : Requests \cup {NoRequest}, ids : SUBSET Matters,
     todo : SUBSET Matters, seen : UNION {[S -> Views] : S \in SUBSET Matters},
     stale : SUBSET Matters, moved : SUBSET Matters, owes : SUBSET Matters,
     queue : SUBSET Batches, member : Members \cup {NoRequest}]
Idle == [step |-> "idle", req |-> NoRequest, ids |-> {}, todo |-> {},
         seen |-> <<>>, stale |-> {}, moved |-> {}, owes |-> {},
         queue |-> {}, member |-> NoRequest]
Closed == [Idle EXCEPT !.step = "closed"]

TypeOK ==
    /\ edge \in [Matters -> Edges \cup {NoEdge}]
    /\ facts \in [Matters -> SUBSET Facts]
    /\ summary \in [Matters -> Views]
    /\ audit \in [Matters -> {"stale", "current"}]
    /\ batches \subseteq Batches
    /\ disposed \subseteq Dispositions
    /\ \A p \in Processes :
         /\ op[p].step \in Steps
         /\ op[p].req \in Requests \cup {NoRequest}
         /\ op[p].ids \cup op[p].todo \cup op[p].owes \subseteq Matters
         /\ op[p].stale \cup op[p].moved \subseteq Matters
         /\ DOMAIN op[p].seen \subseteq Matters
         /\ \A m \in DOMAIN op[p].seen : op[p].seen[m] \in Views
         /\ op[p].queue \subseteq Batches
         /\ op[p].member \in Members \cup {NoRequest}
    /\ given \subseteq Requests /\ done \subseteq given
    /\ faults \in 0 .. MaxFaults
    /\ raced \in BOOLEAN
    /\ lost \subseteq Matters
    /\ torn \cup published \subseteq Requests \X SUBSET Matters

-----------------------------------------------------------------------------
(* Reading the index. *)

IsEdge(c) == edge[c] # NoEdge
CurrentChildren(m) == {c \in Matters : edge[c].parent = m /\ edge[c].current}
CurrentParent(m) == IF edge[m].current THEN edge[m].parent ELSE Root

(* A set is closed when it contains the parent of each of its members. *)
IsClosed(S) == \A m \in S : IsEdge(m) => edge[m].parent \in S

(* m and its ancestors over edges of any freshness. *)
Chain(m) == {x \in Matters : \A S \in SUBSET Matters : m \in S /\ IsClosed(S) => x \in S}
Chains(S) == UNION {Chain(m) : m \in S}

(* Of a child a summary shows what other owners decided, not its members. *)
Shown(c) == {f \in facts[c] : f[2] = NoRequest}

View(m) == [parent |-> CurrentParent(m), own |-> facts[m],
            children |-> {<<c, edge[c].by, Shown(c)>> : c \in CurrentChildren(m)}]

Init ==
    /\ \E w \in Workloads : edge = w.edges /\ given = w.requests
    /\ facts = [m \in Matters |-> {}]
    /\ summary = [m \in Matters |-> View(m)]
    /\ audit = [m \in Matters |-> "current"]
    /\ batches = {}
    /\ disposed = {}
    /\ op = [p \in Processes |-> Idle]
    /\ done = {}
    /\ faults = 0
    /\ raced = FALSE
    /\ lost = {}
    /\ torn = {}
    /\ published = {}

-----------------------------------------------------------------------------
(* Steps of an operation. *)

At(p, step) == op[p].step = step
Call(p) == What[op[p].req]
Child(p) == CHOOSE c \in Call(p).children : TRUE

(* What an operation changes for the others: edges and views, in the state *)
(* after the step; and where an audit is left current over such a change.  *)
Changed == {m \in Matters : View(m)' # View(m) \/ edge'[m] # edge[m]}
Owing == {m \in Matters : View(m)' # View(m) /\ audit'[m] = "current"}

(* The operation goes on as o; what others have read and will still use is *)
(* overtaken.                                                              *)
Relies(q) == op[q].step \in {"checked", "written", "settle", "read"}
Goes(p, o, changed, moved) ==
    op' = [q \in Processes |->
             IF q = p THEN o
             ELSE [op[q] EXCEPT !.stale = IF Relies(q) THEN @ \cup changed ELSE @,
                                !.moved = IF At(q, "read") THEN @ \cup moved ELSE @]]
GoesOn(p, o) == Goes(p, o, {}, {})

Returns(p) == GoesOn(p, Idle) /\ done' = done \cup {op[p].req}

(* An exception ends the operation; a process that was opening closes. *)
Dies(p, o) ==
    /\ GoesOn(p, o)
    /\ lost' = lost \cup op[p].owes
    /\ torn' = IF At(p, "requests") THEN torn \cup {<<op[p].req, op[p].ids>>} ELSE torn
    /\ UNCHANGED <<edge, facts, summary, audit, batches, given, done, raced, published>>
Raises(p) == Dies(p, IF op[p].req = NoRequest THEN Closed ELSE Idle)

Free(p, r) == At(p, "idle") /\ r \in given \ done

Starts(p, r, step, ids) ==
    /\ GoesOn(p, [Idle EXCEPT !.step = step, !.req = r, !.ids = ids])
    /\ UNCHANGED <<stored, given, done, faults, history>>

(* A mistake: only the child itself is refused as a parent. *)
AcceptableUnlessItself(c, m) == c # m /\ (IsEdge(c) => edge[c].parent = m)

(* _validate_parent, and the check that the child has no other parent. *)
Acceptable(c, m) == c \notin Chain(m) /\ (IsEdge(c) => edge[c].parent = m)
(* A mistake: any edge that the request wrote counts as published. *)
UnchangedOrPending(c, r) == edge[c].by = r

Unchanged(c, r) == edge[c].by = r /\ edge[c].current

BeginAttach(p, r) ==
    LET call == What[r] IN
    /\ Free(p, r)
    /\ call.kind = "attach"
    /\ \A c \in call.children : Acceptable(c, call.parent)
    /\ IF \A c \in call.children : Unchanged(c, r)
       THEN /\ done' = done \cup {r}
            /\ UNCHANGED <<stored, op, given, faults, history>>
       ELSE Starts(p, r, "checked", {})

(* A batch that was committed before is published, not committed again. *)
BeginBatch(p, r) ==
    LET call == What[r]
        ids == call.children \cup Chain(call.parent)
        start == [Idle EXCEPT !.step = "checked", !.req = r, !.ids = ids,
                              !.todo = {c \in call.children : ~Unchanged(c, r)}]
        same == {b \in batches : b.req = r /\ b.ids = ids}
    IN
    /\ Free(p, r)
    /\ call.kind = "batch"
    /\ \A c \in call.children : Acceptable(c, call.parent)
    /\ \/ /\ same = {}
          /\ GoesOn(p, start)
          /\ done' = done
       \/ \E b \in same :
          /\ b.status = "pending"
          /\ GoesOn(p, [start EXCEPT !.step = "publish", !.todo = ids, !.queue = {b}])
          /\ done' = done
       \/ /\ \E b \in same : b.status = "current"
          /\ done' = done \cup {r}
          /\ op' = op
    /\ UNCHANGED <<stored, given, faults, history>>

BeginReparent(p, r) ==
    LET call == What[r] IN
    /\ Free(p, r)
    /\ call.kind = "reparent"
    /\ \A c \in call.children : /\ edge[c].parent = call.from
                                /\ IsEdge(c)
                                /\ c \notin Chain(call.parent)
    /\ Starts(p, r, "checked", call.children \cup Chain(call.from) \cup Chain(call.parent))

(* A mistake: the former ancestors are not invalidated. *)
BeginDetachAlone(p, r) ==
    LET call == What[r] IN
    /\ Free(p, r)
    /\ call.kind = "detach"
    /\ \A c \in call.children : IsEdge(c) /\ edge[c].parent = call.from
    /\ Starts(p, r, "checked", call.children)

BeginDetach(p, r) ==
    LET call == What[r] IN
    /\ Free(p, r)
    /\ call.kind = "detach"
    /\ \A c \in call.children : IsEdge(c) /\ edge[c].parent = call.from
    /\ Starts(p, r, "checked", call.children \cup Chain(call.from))

BeginChange(p, r) ==
    /\ Free(p, r)
    /\ What[r].kind = "change"
    /\ Starts(p, r, "checked", {})

(* The subjects of a split and the matters that receive their members. *)
BeginSplit(p, r) ==
    LET call == What[r] IN
    /\ Free(p, r)
    /\ call.kind = "split"
    /\ Starts(p, r, "written", Chains(call.children) \cup Chain(call.parent))

Begin(p, r) ==
    \/ BeginAttach(p, r)
    \/ BeginBatch(p, r)
    \/ BeginReparent(p, r)
    \/ BeginDetach(p, r)
    \/ BeginChange(p, r)
    \/ BeginSplit(p, r)

-----------------------------------------------------------------------------
(* The writes of one operation, a transaction each. *)

Put(S, e) == edge' = [c \in Matters |-> IF c \in S THEN e ELSE edge[c]]
(* A mistake: the edge is written to the former parent. *)
EdgeToFormer(p, current) == [parent |-> Call(p).from, by |-> op[p].req, current |-> current]
Edge(p, current) == [parent |-> Call(p).parent, by |-> op[p].req, current |-> current]
Elsewhere(c, m) == IsEdge(c) /\ edge[c].parent # m

(* A row that another process wrote meanwhile: the child of the index is a *)
(* primary key, a batch plans the revisions it appends before it reads.    *)
Conflict(p) ==
    \/ At(p, "checked") /\ Call(p).kind = "attach" /\ Elsewhere(Child(p), Call(p).parent)
    \/ /\ At(p, "checked")
       /\ Call(p).kind = "reparent"
       /\ Elsewhere(Child(p), Call(p).parent)
       /\ Elsewhere(Child(p), Call(p).from)
    \/ /\ At(p, "checked")
       /\ Call(p).kind = "batch"
       /\ \/ \E c \in op[p].todo : Elsewhere(c, Call(p).parent)
          \/ \E b \in batches : b.req = op[p].req /\ b.ids = op[p].ids
    \/ At(p, "settle") /\ Elsewhere(Child(p), Call(p).parent)
    \/ At(p, "read") /\ op[p].queue # {} /\ op[p].moved \cap DOMAIN op[p].seen # {}

Refuse(p) == Conflict(p) /\ Raises(p) /\ UNCHANGED <<disposed, faults>>

(* A new edge is pending; a reparent retires the old edge with it, a detach *)
(* retires it alone; a change is what another owner wrote, or a work item.  *)
WriteEdge(p) ==
    LET call == Call(p)
        c == Child(p)
        gone == edge[c].parent = call.from
    IN
    /\ At(p, "checked")
    /\ call.kind # "batch"
    /\ ~Conflict(p)
    /\ \/ call.kind \in {"attach", "reparent"} /\ Put({c}, Edge(p, FALSE)) /\ facts' = facts
       \/ call.kind = "detach" /\ Put({c}, IF gone THEN NoEdge ELSE edge[c]) /\ facts' = facts
       \/ /\ call.kind = "change"
          /\ facts' = [facts EXCEPT ![c] = @ \cup {<<op[p].req, NoRequest>>}]
          /\ edge' = edge
    /\ audit' = audit
    /\ Goes(p, [op[p] EXCEPT !.step = "written", !.owes = Owing], Changed, {})
    /\ raced' = (raced \/ (call.kind # "change" /\ op[p].stale # {}))
    /\ UNCHANGED <<summary, batches, disposed, given, done, faults, lost, torn, published>>

(* Edges, stale audits and the request to publish in one transaction. *)
CommitBatch(p) ==
    LET b == [req |-> op[p].req, ids |-> op[p].ids, status |-> "pending"] IN
    /\ At(p, "checked")
    /\ Call(p).kind = "batch"
    /\ ~Conflict(p)
    /\ Put(op[p].todo, Edge(p, TRUE))
    /\ facts' = facts
    /\ audit' = [m \in Matters |-> IF m \in op[p].ids THEN "stale" ELSE audit[m]]
    /\ batches' = batches \cup {b}
    /\ Goes(p, [op[p] EXCEPT !.step = "publish", !.todo = op[p].ids, !.queue = {b},
                             !.stale = {}],
            Changed, op[p].ids)
    /\ raced' = (raced \/ op[p].stale # {})
    /\ lost' = lost \ op[p].ids
    /\ UNCHANGED <<summary, disposed, given, done, faults, torn, published>>

(* The revision is recorded and every matter concerned becomes stale.  An  *)
(* attach and a change read their ancestors only now.                      *)
Invalidate(p) ==
    LET call == Call(p)
        ids == CASE call.kind = "attach" -> call.children \cup Chain(call.parent)
                 [] call.kind = "change" -> Chains(call.children)
                 [] OTHER -> op[p].ids
        next == CASE call.kind \in {"attach", "reparent"} -> "settle"
                  [] call.kind = "split" -> "requests"
                  [] OTHER -> "publish"
        silent == call.kind = "change" /\ ~call.refresh
    IN
    /\ At(p, "written")
    /\ audit' = [m \in Matters |-> IF m \in ids THEN "stale" ELSE audit[m]]
    /\ lost' = lost \ ids
    /\ Goes(p, IF silent THEN Idle
               ELSE [op[p] EXCEPT !.step = next, !.ids = ids, !.todo = ids, !.owes = {},
                                  !.stale = IF next = "settle" THEN @ ELSE {}],
            {}, ids)
    /\ done' = IF silent THEN done \cup {op[p].req} ELSE done
    /\ UNCHANGED <<edge, facts, summary, batches, disposed, given, faults,
                   raced, torn, published>>

(* _publish begins by appending the pending edge again as a current one. *)
Settle(p) ==
    /\ At(p, "settle")
    /\ ~Conflict(p)
    /\ Put({Child(p)}, Edge(p, TRUE))
    /\ UNCHANGED <<facts, audit>>
    /\ Goes(p, [op[p] EXCEPT !.step = "publish", !.owes = Owing, !.stale = {}], Changed, {})
    /\ raced' = (raced \/ op[p].stale # {})
    /\ UNCHANGED <<summary, batches, disposed, given, done, faults, lost, torn, published>>

(* The summaries of a batch are read together, else a child before its *)
(* ancestors.                                                          *)
Lowest(S) == {m \in S : \A x \in S \ {m} : m \notin Chain(x)}
First(S) == CHOOSE m \in S : Lowest(S) # {} => m \in Lowest(S)

Read(p) ==
    LET S == IF op[p].queue # {} THEN op[p].todo ELSE {First(op[p].todo)} IN
    /\ At(p, "publish")
    /\ op[p].todo # {}
    /\ GoesOn(p, [op[p] EXCEPT !.step = "read", !.seen = [m \in S |-> View(m)],
                               !.stale = {}, !.moved = {}])
    /\ UNCHANGED <<stored, given, done, faults, history>>

(* Summary, projection and audit.  The three appends of a single matter are *)
(* one step: what happens between them could as well happen before them.    *)
Write(p) ==
    LET S == DOMAIN op[p].seen IN
    /\ At(p, "read")
    /\ ~Conflict(p)
    /\ summary' = [m \in Matters |-> IF m \in S THEN op[p].seen[m] ELSE summary[m]]
    /\ audit' = [m \in Matters |-> IF m \in S THEN "current" ELSE audit[m]]
    /\ Goes(p, [op[p] EXCEPT !.step = "publish", !.todo = @ \ S, !.owes = @ \ S,
                             !.seen = <<>>, !.stale = {}, !.moved = {}],
            {}, S)
    /\ raced' = (raced \/ op[p].stale \cap S # {})
    /\ lost' = lost \ S
    /\ UNCHANGED <<edge, facts, batches, disposed, given, done, faults, torn, published>>

Finish(p) ==
    /\ At(p, "publish")
    /\ op[p].todo = {}
    /\ \/ /\ op[p].queue # {}
          /\ GoesOn(p, [op[p] EXCEPT !.step = "mark"])
          /\ UNCHANGED <<done, published>>
       \/ /\ op[p].queue = {}
          /\ Returns(p)
          /\ published' = IF Call(p).kind = "split"
                          THEN published \cup {<<op[p].req, op[p].ids>>} ELSE published
    /\ UNCHANGED <<stored, given, faults, raced, lost, torn>>

-----------------------------------------------------------------------------
(* Requests for publication. *)

FirstOf(p) == CHOOSE b \in op[p].queue : TRUE

Mark(p) ==
    LET b == FirstOf(p) IN
    /\ At(p, "mark")
    /\ batches' = (batches \ {b}) \cup {[b EXCEPT !.status = "current"]}
    /\ IF op[p].req = NoRequest
       THEN /\ GoesOn(p, [Closed EXCEPT !.step = "recover", !.queue = op[p].queue \ {b}])
            /\ done' = done
       ELSE Returns(p)
    /\ UNCHANGED <<edge, facts, summary, audit, disposed, given, faults, history>>

(* Opening the service recovers the requests found pending then.  A process *)
(* at rest may end and another one open in its place.                       *)
Pending == {b \in batches : b.status = "pending"}

(* A mistake: nothing is recovered. *)
OpenWithoutRecovery(p) ==
    /\ At(p, "closed")
    /\ GoesOn(p, [Idle EXCEPT !.step = "recover"])
    /\ UNCHANGED <<stored, given, done, faults, history>>

Open(p) ==
    /\ At(p, "closed") \/ (At(p, "idle") /\ Pending # {})
    /\ GoesOn(p, [Idle EXCEPT !.step = "recover", !.queue = Pending])
    /\ UNCHANGED <<stored, given, done, faults, history>>

Recover(p) ==
    LET b == FirstOf(p) IN
    /\ At(p, "recover")
    /\ GoesOn(p, CASE op[p].queue = {} -> Idle
                   [] op[p].queue # {} /\ b \notin batches ->
                        [op[p] EXCEPT !.queue = @ \ {b}]
                   [] OTHER -> [op[p] EXCEPT !.step = "publish", !.ids = b.ids, !.todo = b.ids])
    /\ UNCHANGED <<stored, given, done, faults, history>>

-----------------------------------------------------------------------------
(* Splits: one disposition for each member, appended one by one. *)

DisposedOf(r, ids) == {d \in disposed : d.req = r /\ d.ids = ids}
Mine(p) == DisposedOf(op[p].req, op[p].ids)
Verdict(action) == CASE action = "retain" -> "current"
                     [] action = "review" -> "blocked"
                     [] OTHER -> "pending"
Decide(d, status) == disposed' = (disposed \ {d}) \cup {[d EXCEPT !.status = status]}

Dispose(p) ==
    LET members == Call(p).members
        missing == DOMAIN members \ {d.member : d \in Mine(p)}
    IN
    /\ At(p, "requests")
    /\ \/ \E m \in missing :
          /\ disposed' = disposed \cup
               {[req |-> op[p].req, ids |-> op[p].ids, member |-> m,
                 status |-> Verdict(members[m])]}
          /\ op' = op
       \/ /\ missing = {}
          /\ disposed' = disposed
          /\ GoesOn(p, [op[p] EXCEPT !.step = "apply"])
    /\ UNCHANGED <<edge, facts, summary, audit, batches, given, done, faults, history>>

(* What is not current is handed to its owner, which moves the member from *)
(* the subjects to the target; a member under review is not for it.        *)
Apply(p) ==
    \E d \in Mine(p) :
        /\ At(p, "apply")
        /\ d.status # "current"
        /\ Call(p).members[d.member] = "move"
        /\ facts' = [m \in Matters |-> IF m \in Call(p).children \cup {Call(p).parent}
                                       THEN facts[m] \cup {<<d.req, d.member>>} ELSE facts[m]]
        /\ UNCHANGED <<edge, audit>>
        /\ Goes(p, [op[p] EXCEPT !.step = "applied", !.member = d.member,
                                 !.owes = @ \cup Owing], Changed, {})
        /\ UNCHANGED <<summary, batches, disposed, given, done, faults, history>>

MarkApplied(p) ==
    \E d \in Mine(p) :
        /\ At(p, "applied")
        /\ d.member = op[p].member
        /\ Decide(d, "current")
        /\ GoesOn(p, [op[p] EXCEPT !.step = "apply", !.member = NoRequest])
        /\ UNCHANGED <<edge, facts, summary, audit, batches, given, done, faults, history>>

BlockReview(p) ==
    \E d \in Mine(p) :
        /\ At(p, "apply")
        /\ d.status # "current"
        /\ Call(p).members[d.member] = "review"
        /\ Decide(d, "blocked")
        /\ Raises(p)
        /\ faults' = faults

(* A mistake: a disposition that its owner has not executed will do. *)
PublishSplitPending(p) ==
    /\ At(p, "apply")
    /\ \A d \in Mine(p) : d.status # "blocked"
    /\ GoesOn(p, [op[p] EXCEPT !.step = "publish", !.todo = op[p].ids])
    /\ UNCHANGED <<stored, given, done, faults, history>>

(* publish_revision insists on every disposition it finds. *)
PublishSplit(p) ==
    /\ At(p, "apply")
    /\ \A d \in Mine(p) : d.status = "current"
    /\ GoesOn(p, [op[p] EXCEPT !.step = "publish", !.todo = op[p].ids])
    /\ UNCHANGED <<stored, given, done, faults, history>>

(* The maintenance worker resumes the splits with open dispositions, those *)
(* that another process is still recording included.                       *)
ResumeSplit(p) ==
    \E d \in disposed :
        /\ At(p, "idle")
        /\ d.status # "current"
        /\ GoesOn(p, [Idle EXCEPT !.step = "apply", !.req = d.req, !.ids = d.ids])
        /\ torn' = IF \E q \in Processes : /\ At(q, "requests")
                                           /\ op[q].req = d.req /\ op[q].ids = d.ids
                   THEN torn \cup {<<d.req, d.ids>>} ELSE torn
        /\ UNCHANGED <<stored, given, done, faults, raced, lost, published>>

-----------------------------------------------------------------------------
(* Faults: a call fails in the store, a process is killed. *)

Busy(p) == ~At(p, "idle") /\ ~At(p, "closed")

Fail(p) ==
    /\ Busy(p)
    /\ faults < MaxFaults
    /\ faults' = faults + 1
    /\ Raises(p)
    /\ \/ disposed' = disposed
       \/ /\ At(p, "applied")
          /\ \E d \in Mine(p) : d.member = op[p].member /\ Decide(d, "blocked")

Kill(p) ==
    /\ Busy(p)
    /\ faults < MaxFaults
    /\ faults' = faults + 1
    /\ Dies(p, Closed)
    /\ disposed' = disposed

Continue(p) ==
    \/ Refuse(p)
    \/ WriteEdge(p)
    \/ CommitBatch(p)
    \/ Invalidate(p)
    \/ Settle(p)
    \/ Read(p)
    \/ Write(p)
    \/ Finish(p)
    \/ Mark(p)
    \/ Recover(p)
    \/ Dispose(p)
    \/ Apply(p)
    \/ MarkApplied(p)
    \/ BlockReview(p)
    \/ PublishSplit(p)

Next ==
    \E p \in Processes :
        \/ \E r \in Requests : Begin(p, r)
        \/ Continue(p)
        \/ ResumeSplit(p)
        \/ Open(p)
        \/ Fail(p)
        \/ Kill(p)

Spec == Init /\ [][Next]_vars

(* A live process goes on with its call, and the service is opened again   *)
(* and again; an attach whose dispatch did not return is dispatched in      *)
(* every later cycle of the maintenance worker.                             *)
Retry(p) == \E r \in Requests : BeginAttach(p, r)

FairSpec ==
    /\ Spec
    /\ \A p \in Processes : WF_vars(Continue(p)) /\ WF_vars(Open(p))
    /\ SF_vars(\E p \in Processes : Retry(p))

-----------------------------------------------------------------------------
(* Properties. *)

(* No matter is its own ancestor, over current and pending edges: a set of *)
(* matters each of which has its parent in the set is empty.  The owner's  *)
(* check and its lock ensure it as long as no operation writes an edge     *)
(* after another process changed the edges it had checked.                 *)
Forest ==
    ~raced =>
        \A S \in SUBSET Matters \ {{}} : \E m \in S : edge[m].parent \notin S

(* A matter whose audit is current has a summary that agrees with the      *)
(* edges, its children's facts and its own.  An operation that writes      *)
(* first and invalidates later owes the invalidation in between, and for   *)
(* good when it dies there; attaching a new child and a batch never owe    *)
(* any.  Two processes that overtake each other are excepted.              *)
CurrentMeansAgrees ==
    ~raced =>
        \A m \in Matters :
            audit[m] = "current" =>
                \/ summary[m] = View(m)
                \/ m \in lost
                \/ \E p \in Processes : m \in op[p].owes

(* A split is published only after every member was disposed of: it has a  *)
(* disposition, and what was to move has been moved by its owner.  Excepted *)
(* is a split whose call died while it recorded the dispositions, or that   *)
(* another process resumed meanwhile: what is found then passes for all.    *)
SplitsAreComplete ==
    \A x \in published \ torn :
        \A m \in DOMAIN What[x[1]].members :
            /\ \E d \in DisposedOf(x[1], x[2]) : d.member = m
            /\ What[x[1]].members[m] # "review"
            /\ What[x[1]].members[m] = "move" =>
                 <<x[1], m>> \in facts[What[x[1]].parent]

(* A batch that was committed is published in the end, whatever call or    *)
(* process dies in between: an open, or the repeated call, finishes it.    *)
BatchesArePublished == Pending # {} ~> Pending = {}

(* A pending edge that an attach left behind does not stay pending: the    *)
(* repeated attach finds it and publishes it, or another edge takes over.  *)
(* Two processes that serve the same attach at once may undo each other.   *)
LeftPending == {c \in Matters : /\ IsEdge(c) /\ ~edge[c].current
                                /\ What[edge[c].by].kind = "attach"}
PendingEdgesSettle == LeftPending # {} /\ ~raced ~> LeftPending = {} \/ raced
================================================================================
