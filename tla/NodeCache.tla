----------------------------- MODULE NodeCache -----------------------------
(***************************************************************************)
(* The node cache of ZeroXML (src/src/xml_cache.c): the tree of            *)
(* struct _xml_node the scanner builds while a document is opened.         *)
(*                                                                         *)
(* The heap hands out cells 1, 2, ... in the order of the successful       *)
(* calloc calls; a field of the struct is a function on the cells.  The    *)
(* operations are actions; the caller says which cell they work on and     *)
(* learns the returned pointer through the parameter rv.  CacheClient      *)
(* calls them in any order the scanner may, Scanner in the order it does.  *)
(***************************************************************************)
EXTENDS Integers, Sequences

CONSTANTS
    MaxCells,    \* bound: cells the heap can hand out
    MaxFailures, \* bound: allocations that may fail
    Block,       \* NODE_BLOCKSIZE, 16 in the code
    Half,        \* a short int holds -Half .. Half-1, 32768 in the code
    Payloads,    \* what cacheDataSet stores: name and data section
    Blank        \* what calloc leaves there: no name and no data

(***************************************************************************)
(* 32768 = 2048 * 16.  A short int that is no multiple of the block size   *)
(* would let a counter step over the capacity it is compared with.         *)
(***************************************************************************)
ASSUME CacheAssumption ==
    /\ MaxCells \in Nat \ {0}
    /\ MaxFailures \in Nat
    /\ Block \in Nat \ {0}
    /\ Half \in Nat /\ \E k \in 2 .. Half : Half = k * Block

NULL == 0
NoArray == [i \in {} |-> NULL]
ASSUME PayloadAssumption == Blank \notin Payloads

Cells == 1 .. MaxCells
CellOrNull == Cells \cup {NULL}

VARIABLES
    used,      \* number of cells handed out so far
    live,      \* cells that are allocated and not yet freed
    failed,    \* number of allocations that failed
    parent,    \* cache->parent
    node,      \* cache->node: the allocated array, NoArray for NULL
    max_nodes, \* cache->max_nodes, a short int
    no_nodes,  \* cache->no_nodes, a short int
    payload,   \* cache->name, name_len, data and data_len
    frames,    \* activations of cacheFree, the innermost last
    fault      \* a NULL, out-of-range or freed cell was dereferenced

treeVars == <<parent, node, max_nodes, no_nodes, payload>>
heapVars == <<used, live, failed>>
cacheVars == <<treeVars, heapVars, frames, fault>>

\* The value a short int keeps of an int.
Short(i) == ((i + Half) % (2 * Half)) - Half

\* The entries of the array that count as children, in document order.
Children(n) == [i \in 1 .. no_nodes[n] |-> node[n][i - 1]]

CacheInit ==
    /\ used = 0 /\ live = {} /\ failed = 0
    /\ parent = [n \in Cells |-> NULL]
    /\ node = [n \in Cells |-> NoArray]
    /\ max_nodes = [n \in Cells |-> 0]
    /\ no_nodes = [n \in Cells |-> 0]
    /\ payload = [n \in Cells |-> Blank]
    /\ frames = <<>> /\ fault = FALSE

-----------------------------------------------------------------------------
(* The allocator. *)

AllocFails == failed < MaxFailures /\ failed' = failed + 1

\* calloc(1, sizeof(struct _xml_node)): all fields of a new cell are zero,
\* which is what CacheInit gives a cell that was never handed out.
CellNew(rv) ==
    \/ /\ rv = used + 1 /\ rv \in Cells
       /\ used' = rv /\ live' = live \cup {rv}
       /\ UNCHANGED failed
    \/ rv = NULL /\ AllocFails /\ UNCHANGED <<used, live>>

-----------------------------------------------------------------------------
(* The operations. *)

\* cacheInit: the root cell, when the nodes are cached.
cacheInit(rv) ==
    /\ CellNew(rv)
    /\ UNCHANGED <<treeVars, frames, fault>>

\* cacheInitLevel: the first block of a cell.  The result of calloc is not
\* looked at: max_nodes says Block also when there is no array.
cacheInitLevel(nc) ==
    IF nc = NULL
    THEN UNCHANGED cacheVars
    ELSE /\ \/ /\ node' = [node EXCEPT ![nc] = [i \in 0 .. Block - 1 |-> NULL]]
               /\ UNCHANGED failed
            \/ /\ node' = [node EXCEPT ![nc] = NoArray]
               /\ AllocFails
         /\ max_nodes' = [max_nodes EXCEPT ![nc] = Block]
         /\ UNCHANGED <<used, live, parent, no_nodes, payload, frames, fault>>

\* The array of nc and its size when cacheNodeNew stores the new cell.  The
\* slots realloc adds hold garbage; nothing reads a slot before it is set.
IsFullLate(nc) == no_nodes[nc] > max_nodes[nc]  \* mutant: one node too late
IsFull(nc) == no_nodes[nc] = max_nodes[nc]
NewSizeShort(nc) == max_nodes[nc] + Block - 1  \* mutant: one slot too few
NewSize(nc) == max_nodes[nc] + Block
\* mutant: a new block in the place of a larger one, the children are lost
SlotsAnew(nc) ==
    IF IsFull(nc) THEN [i \in 0 .. NewSize(nc) - 1 |-> NULL] ELSE node[nc]
Slots(nc) ==
    IF IsFull(nc)
    THEN [i \in 0 .. NewSize(nc) - 1 |->
            IF i \in DOMAIN node[nc] THEN node[nc][i] ELSE NULL]
    ELSE node[nc]

\* The request "max_nodes * sizeof(ptr)" is negative once max_nodes is: as a
\* size_t it is more than any heap has, and realloc fails.
ReallocFails(nc) ==
    /\ IsFull(nc)
    /\ IF NewSize(nc) > 0 THEN AllocFails ELSE UNCHANGED failed
    /\ UNCHANGED <<used, live, treeVars, frames, fault>>

\* node[i] = rv stores through NULL or outside the array.
StoreFaults(nc) == no_nodes[nc] \notin DOMAIN Slots(nc)

\* node[i] = rv, behind the realloc if there was one; rv may be NULL.
StoreNode(nc, rv) ==
    /\ CellNew(rv)
    /\ node' = [node EXCEPT ![nc] = [Slots(nc) EXCEPT ![no_nodes[nc]] = rv]]
    /\ max_nodes' = IF IsFull(nc)
                    THEN [max_nodes EXCEPT ![nc] = Short(NewSize(nc))]
                    ELSE max_nodes
    /\ IF rv # NULL
       THEN /\ parent' = [parent EXCEPT ![rv] = nc]
            /\ no_nodes' = [no_nodes EXCEPT ![nc] = Short(@ + 1)]
       ELSE UNCHANGED <<parent, no_nodes>>
    /\ UNCHANGED <<payload, frames, fault>>

StoreAstray(rv) ==
    /\ rv = NULL /\ fault' = TRUE
    /\ UNCHANGED <<heapVars, treeVars, frames>>

\* cacheNodeNew: append a cell to the children of nc.
cacheNodeNew(nc, rv) ==
    \/ nc = NULL /\ rv = NULL /\ UNCHANGED cacheVars
    \/ nc # NULL /\ rv = NULL /\ ReallocFails(nc)
    \/ /\ nc # NULL
       /\ IsFull(nc) => NewSize(nc) > 0
       /\ IF StoreFaults(nc) THEN StoreAstray(rv) ELSE StoreNode(nc, rv)

\* cacheDataSet: name and data section of a cell.
cacheDataSet(nc, p) ==
    /\ payload' = IF nc = NULL THEN payload ELSE [payload EXCEPT ![nc] = p]
    /\ UNCHANGED <<heapVars, parent, node, max_nodes, no_nodes, frames, fault>>

-----------------------------------------------------------------------------
(* cacheFree, one step per iteration of its loop.  A frame is an activation *)
(* record: the cell it frees and its loop counter.                          *)

FreeCall(nc) ==
    /\ frames' = IF nc = NULL THEN frames ELSE Append(frames, [cell |-> nc, i |-> 0])
    /\ UNCHANGED <<heapVars, treeVars, fault>>

TopCell == frames[Len(frames)].cell
TopIndex == frames[Len(frames)].i
MoreChildrenButOne == TopIndex < no_nodes[TopCell] - 1  \* mutant: off by one
MoreChildren == TopIndex < no_nodes[TopCell]

CallerStays == frames  \* mutant: cacheFree(node[i]), the counter stays
\* The activation of the caller with i++ done.
Caller == [frames EXCEPT ![Len(frames)] = [cell |-> TopCell, i |-> TopIndex + 1]]

\* cacheFree(node[i++]); a freed cell or a slot outside the array faults.
FreeChild ==
    /\ frames # <<>> /\ ~fault
    /\ TopCell \in live => MoreChildren
    /\ IF TopCell \in live /\ TopIndex \in DOMAIN node[TopCell]
       THEN LET child == node[TopCell][TopIndex]
            IN /\ frames' = IF child = NULL THEN Caller
                            ELSE Append(Caller, [cell |-> child, i |-> 0])
               /\ UNCHANGED fault
       ELSE fault' = TRUE /\ UNCHANGED frames
    /\ UNCHANGED <<heapVars, treeVars>>

\* mutant: the cell is freed before its children
FreeSelfFirst ==
    /\ frames # <<>> /\ ~fault
    /\ TopCell \in live
    /\ live' = live \ {TopCell}
    /\ UNCHANGED <<used, failed, treeVars, fault, frames>>

\* free(cache->node); free(cache);
FreeSelf ==
    /\ frames # <<>> /\ ~fault
    /\ TopCell \in live /\ ~MoreChildren
    /\ live' = live \ {TopCell}
    /\ frames' = SubSeq(frames, 1, Len(frames) - 1)
    /\ UNCHANGED <<used, failed, treeVars, fault>>
=============================================================================
