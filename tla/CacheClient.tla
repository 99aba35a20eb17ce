---------------------------- MODULE CacheClient ----------------------------
(***************************************************************************)
(* The node cache under its most general caller: the calls                 *)
(* __zeroxml_get_node may make on it while a document is opened (one       *)
(* activation per nesting level), then cacheFree of the root by the failed *)
(* open or by xmlClose.                                                    *)
(***************************************************************************)
EXTENDS NodeCache

CONSTANT MaxDepth  \* bound: nesting of the document

ASSUME DepthAssumption == MaxDepth \in Nat \ {0}

VARIABLES
    phase,  \* "start", "opened", "scanning", "scanned", "freeing", "closed"
    root,   \* rid->node
    levels  \* activations of __zeroxml_get_node, innermost last: nc and nnc

vars == <<cacheVars, phase, root, levels>>

Top == levels[Len(levels)]
SetTop(l) == [levels EXCEPT ![Len(levels)] = l]
Level(nc) == [nc |-> nc, nnc |-> NULL]

Init ==
    /\ CacheInit
    /\ phase = "start" /\ root = NULL /\ levels = <<>>

Open ==
    /\ phase = "start"
    /\ \E rv \in CellOrNull : cacheInit(rv) /\ root' = rv
    /\ phase' = "opened"
    /\ UNCHANGED levels

Start ==
    /\ phase = "opened"
    /\ cacheInitLevel(root)
    /\ levels' = <<Level(root)>> /\ phase' = "scanning"
    /\ UNCHANGED root

\* Nothing to scan: the first call returns before it looks at the cache.
EmptyText ==
    /\ phase = "opened"
    /\ phase' = "scanned"
    /\ UNCHANGED <<cacheVars, root, levels>>

Scanning == phase = "scanning" /\ ~fault

NewNode ==
    /\ Scanning
    /\ \E rv \in CellOrNull :
          /\ cacheNodeNew(Top.nc, rv)
          /\ levels' = SetTop([Top EXCEPT !.nnc = rv])
    /\ UNCHANGED <<phase, root>>

SetData ==
    /\ Scanning
    /\ UNCHANGED <<phase, root, levels>>
    /\ \E p \in Payloads : cacheDataSet(Top.nnc, p)

\* The recursive call.  assert(cache->node == 0): a cell gets one level only.
Descend ==
    /\ Scanning /\ Len(levels) < MaxDepth
    /\ Top.nnc # NULL => max_nodes[Top.nnc] = 0
    /\ cacheInitLevel(Top.nnc)
    /\ levels' = Append(levels, Level(Top.nnc))
    /\ UNCHANGED <<phase, root>>

Return ==
    /\ Scanning
    /\ levels' = SubSeq(levels, 1, Len(levels) - 1)
    /\ phase' = IF Len(levels) = 1 THEN "scanned" ELSE phase
    /\ UNCHANGED <<cacheVars, root>>

\* xmlClose, or the scan failed and the open gives the tree up.
Free ==
    /\ phase \in {"scanning", "scanned"} /\ ~fault
    /\ FreeCall(root)
    /\ levels' = <<>> /\ phase' = "freeing"
    /\ UNCHANGED root

FreeStep ==
    /\ phase = "freeing"
    /\ FreeChild \/ FreeSelf
    /\ UNCHANGED <<phase, root, levels>>

Closed ==
    /\ phase = "freeing" /\ frames = <<>>
    /\ phase' = "closed"
    /\ UNCHANGED <<cacheVars, root, levels>>

\* The process stops by itself after the close or at a fault.
Stopped == (phase = "closed" \/ fault) /\ UNCHANGED vars

Next ==
    \/ Open \/ Start \/ EmptyText \/ NewNode \/ SetData \/ Descend \/ Return
    \/ Free \/ FreeStep \/ Closed \/ Stopped

\* A call of cacheFree is sequential code: it is carried on.
Spec == Init /\ [][Next]_vars /\ WF_vars(FreeStep) /\ WF_vars(Closed)

-----------------------------------------------------------------------------
(* Properties. *)

\* The fields keep their types: cells below used were handed out, an array has
\* a multiple of the block size, the counters fit a short int.
TypeOK ==
    /\ used \in 0 .. MaxCells
    /\ live \subseteq 1 .. used
    /\ failed \in 0 .. MaxFailures
    /\ parent \in [Cells -> CellOrNull]
    /\ \A n \in Cells : \E k \in 0 .. Half :
          /\ k * Block <= Half
          /\ node[n] \in [0 .. k * Block - 1 -> CellOrNull]
    /\ max_nodes \in [Cells -> -Half .. Half - 1]
    /\ no_nodes \in [Cells -> -Half .. Half - 1]
    /\ payload \in [Cells -> Payloads \cup {Blank}]
    /\ fault \in BOOLEAN
    /\ phase \in {"start", "opened", "scanning", "scanned", "freeing", "closed"}
    /\ root \in CellOrNull

\* Until it is freed the heap is one tree: the slots below the count of a cell
\* hold live cells, each with that cell as its parent, and every live cell but
\* the root is in exactly one such slot.  cacheFree finds a cell in no other way.
OneTree ==
    phase \notin {"freeing", "closed"} =>
        /\ \A n \in live : \A i \in DOMAIN Children(n) :
              Children(n)[i] \in live /\ parent[Children(n)[i]] = n
        /\ \A c \in live \ {root} :
              \E p \in live : \E i \in DOMAIN Children(p) :
                 /\ Children(p)[i] = c
                 /\ \A q \in live : \A j \in DOMAIN Children(q) :
                       Children(q)[j] = c => <<p, i>> = <<q, j>>

\* A bad pointer is followed in one way only: a node is stored into the array
\* of a cell whose first block could not be allocated.  No growth of an array
\* and no wrapped counter leads to one, and cacheFree, which works on whatever
\* tree a failed scan has left, never touches a cell it has freed.
FaultIsFailedLevel ==
    fault => phase = "scanning" /\ \E n \in live : node[n] = NoArray /\ max_nodes[n] > 0

\* "All allocations of the XML-tree will be freed" (src/src/xml_cache.h:89).
AllFreed == phase = "closed" => live = {}

\* cacheFree returns.
FreeReturns == phase = "freeing" ~> phase = "closed"

\* The cache implements the ordered tree of CacheTree.
Tree == INSTANCE CacheTree WITH
    Nodes <- Cells, Labels <- Payloads, NoLabel <- Blank,
    nodes <- live, kids <- [n \in Cells |-> Children(n)],
    label <- payload, closed <- (phase = "closed")

IsTree == Tree!TSpec
=============================================================================
