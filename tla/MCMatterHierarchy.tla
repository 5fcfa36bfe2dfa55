--------------------------- MODULE MCMatterHierarchy ---------------------------
(* Three matters, two processes, and two requests to serve. *)
EXTENDS MatterHierarchy, TLC
CONSTANTS ma, mb, mc, p1, p2, none, top, file, page
ThreeMatters == {ma, mb, mc}
TwoProcesses == {p1, p2}
Ask(kind, parent, from, children) ==
    [kind |-> kind, parent |-> parent, from |-> from, children |-> children,
     refresh |-> TRUE, members |-> <<>>]
Asked ==
    "attach b to a" :> Ask("attach", ma, top, {mb}) @@
    "attach a to b" :> Ask("attach", mb, top, {ma}) @@
    "founded" :> Ask("attach", ma, top, {mb}) @@
    "batch" :> Ask("batch", ma, top, {mb, mc}) @@
    "move b to c" :> Ask("reparent", mc, ma, {mb}) @@
    "detach b" :> Ask("detach", top, ma, {mb}) @@
    "change b" :> Ask("change", top, top, {mb}) @@
    "note b" :> [Ask("change", top, top, {mb}) EXCEPT !.refresh = FALSE] @@
    "split b" :> [Ask("split", ma, top, {mb}) EXCEPT !.members = file :> "move"] @@
    "halve b" :> [Ask("split", ma, top, {mb}) EXCEPT !.members = file :> "move" @@ page :> "retain"] @@
    "review b" :> [Ask("split", ma, top, {mb}) EXCEPT !.members = file :> "review"]
Asks == DOMAIN Asked
TwoMembers == {file, page}
Roots == [m \in ThreeMatters |-> NoEdge]
Under(x, y) == [m \in ThreeMatters |->
    IF m = x THEN [parent |-> y, by |-> "founded", current |-> TRUE] ELSE NoEdge]
Given ==
    {[edges |-> Roots, requests |-> R] :
        R \in {{"attach b to a", "attach a to b"}, {"batch", "move b to c"}, {"review b"}}}
    \cup
    {[edges |-> Under(mb, ma), requests |-> R] :
        R \in {{"detach b", "split b"}, {"change b"}, {"move b to c", "note b"},
               {"halve b"}}}
=================================================================================
