----------------------------- MODULE CacheTree -----------------------------
(***************************************************************************)
(* What the node cache promises (src/src/xml_cache.h): an ordered tree.  A *)
(* node is appended behind its siblings and keeps its place; its name and  *)
(* data can be set while the tree lives; freeing the tree removes every    *)
(* node, no node before its children, and leaves none.                     *)
(***************************************************************************)
EXTENDS Sequences, SequencesExt

CONSTANTS Nodes, Labels, NoLabel

VARIABLES
    nodes,  \* the nodes of the tree
    kids,   \* the children of a node, in document order
    label,  \* name and data of a node
    closed  \* the tree has been given up

tvars == <<nodes, kids, label, closed>>

TInit ==
    /\ nodes = {}
    /\ kids = [n \in Nodes |-> <<>>]
    /\ label = [n \in Nodes |-> NoLabel]
    /\ closed = FALSE

\* A node that has never been in the tree.
IsNew(n) == n \notin nodes /\ \A p \in Nodes : n \notin ToSet(kids[p])

Root(n) ==
    /\ nodes = {} /\ ~closed /\ IsNew(n)
    /\ nodes' = {n}
    /\ UNCHANGED <<kids, label, closed>>

Add(p, n) ==
    /\ p \in nodes /\ IsNew(n)
    /\ nodes' = nodes \cup {n}
    /\ kids' = [kids EXCEPT ![p] = Append(@, n)]
    /\ UNCHANGED <<label, closed>>

Describe(n) ==
    /\ n \in nodes
    /\ \E l \in Labels : label' = [label EXCEPT ![n] = l]
    /\ UNCHANGED <<nodes, kids, closed>>

Discard(n) ==
    /\ n \in nodes /\ ToSet(kids[n]) \cap nodes = {}
    /\ nodes' = nodes \ {n}
    /\ UNCHANGED <<kids, label, closed>>

Close ==
    /\ nodes = {} /\ closed' = TRUE
    /\ UNCHANGED <<nodes, kids, label>>

TNext ==
    \/ \E n \in Nodes : Root(n) \/ Describe(n) \/ Discard(n)
    \/ \E p, n \in Nodes : Add(p, n)
    \/ Close

TSpec == TInit /\ [][TNext]_tvars
=============================================================================
