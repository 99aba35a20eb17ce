------------------------- MODULE CacheClient_proofs -------------------------
(***************************************************************************)
(* Proofs about the node cache under its most general caller, for every    *)
(* number of cells and allocation failures, every block size, every width  *)
(* of the short int counters and every nesting depth; and, of a document   *)
(* that is not too large for its counters, that with no more cells than a  *)
(* short int counts the heap is one tree while the document is open, the   *)
(* close frees all of it, and every step is one of the ordered tree of     *)
(* CacheTree, or changes nothing of it.  (With more cells this does not    *)
(* hold: see CacheClient_wrap.cfg.)                                        *)
(***************************************************************************)
EXTENDS CacheClient, SequenceTheorems, WellFoundedInduction, TLAPS

-----------------------------------------------------------------------------
(* The inductive invariant. *)

Types ==
    /\ used \in 0 .. MaxCells
    /\ live \subseteq 1 .. used
    /\ failed \in 0 .. MaxFailures
    /\ parent \in [Cells -> CellOrNull]
    /\ DOMAIN node = Cells
    /\ max_nodes \in [Cells -> Int]
    /\ no_nodes \in [Cells -> Int]
    /\ payload \in [Cells -> Payloads \cup {Blank}]
    /\ fault \in BOOLEAN
    /\ phase \in {"start", "opened", "scanning", "scanned", "freeing", "closed"}

\* A cell that was handed out by calloc and not touched.
Pristine(n) == node[n] = NoArray /\ max_nodes[n] = 0 /\ no_nodes[n] = 0

\* The indices cacheFree and the lookups visit.
Slot(n) == 0 .. no_nodes[n] - 1

\* The array of a cell and its two counters: no array (a leaf, or a level whose
\* first block could not be allocated), an array that can grow, or an array as
\* large as a short int counts, whose size the counter shows as negative.
HasNoArray(n) == node[n] = NoArray /\ max_nodes[n] \in {0, Block} /\ no_nodes[n] = 0

Grows(n, size) ==
    size < Half /\ max_nodes[n] = size /\ no_nodes[n] \in 0 .. size

Wrapped(n, size) ==
    /\ size = Half /\ max_nodes[n] = -Half
    /\ no_nodes[n] \in (0 .. Half - 1) \cup {-Half}

HasArray(n) ==
    \E k \in 1 .. Half :
        /\ node[n] \in [0 .. k * Block - 1 -> CellOrNull]
        /\ Grows(n, k * Block) \/ Wrapped(n, k * Block)

ArraysOK ==
    /\ \A n \in Cells : HasNoArray(n) \/ HasArray(n)
    /\ \A n \in Cells : n > used => Pristine(n)

\* A slot holds a cell that was handed out after the one the slot belongs to,
\* and no cell is in two slots.
Down ==
    \A p \in Cells : \A i \in Slot(p) :
        node[p][i] \in p + 1 .. used /\ parent[node[p][i]] = p
Unshared ==
    \A p, q \in Cells : \A i \in Slot(p), j \in Slot(q) :
        node[p][i] = node[q][j] => p = q /\ i = j

\* What holds in each phase.
PhaseOK ==
    /\ phase \in {"start", "opened"} => \A n \in Cells : Pristine(n)
    /\ phase = "start" => used = 0
    /\ phase # "scanning" => levels = <<>>
    /\ phase = "scanning" => levels # <<>>
    /\ levels \in Seq([nc : 0 .. used, nnc : 0 .. used])
    /\ phase \notin {"freeing", "closed"} => live = 1 .. used
    /\ phase # "freeing" => frames = <<>>
    /\ fault => phase = "scanning" /\ \E n \in live : node[n] = NoArray /\ max_nodes[n] > 0
    /\ root = IF used = 0 THEN NULL ELSE 1

\* cacheFree: the cells of the frames are live and stand on the stack once;
\* what a frame has still to visit, and what hangs below a live cell that is on
\* no frame, is live and on no frame.
OnStack(n) == \E k \in DOMAIN frames : frames[k].cell = n
Pending(n) == n \in live /\ ~OnStack(n)

FramesOK ==
    /\ frames \in Seq([cell : Cells, i : Nat])
    /\ \A k \in DOMAIN frames : frames[k].cell \in live
    /\ \A k, m \in DOMAIN frames : frames[k].cell = frames[m].cell => k = m
    /\ \A k \in DOMAIN frames : \A j \in Slot(frames[k].cell) :
          j >= frames[k].i => Pending(node[frames[k].cell][j])
    /\ phase = "freeing" =>
          \A n \in Cells : Pending(n) => \A j \in Slot(n) : Pending(node[n][j])

IInv == Types /\ ArraysOK /\ Down /\ Unshared /\ PhaseOK /\ FramesOK

-----------------------------------------------------------------------------
(* Arithmetic of the counters. *)

LEMMA Sizes ==
    /\ MaxCells \in Nat /\ MaxCells >= 1
    /\ MaxFailures \in Nat
    /\ Block \in Nat /\ Block >= 1
    /\ Half \in Nat /\ Block < Half
<1>1. PICK m \in 2 .. Half : Half = m * Block
    BY CacheAssumption DEF CacheAssumption
<1>2. Half \in Nat /\ Block \in Nat /\ Block >= 1
    BY CacheAssumption DEF CacheAssumption
<1>3. (m - 1) * Block >= 1
    BY <1>1, <1>2
<1> QED BY <1>1, <1>2, <1>3, CacheAssumption DEF CacheAssumption

LEMMA ShortFits == ASSUME NEW i \in 0 .. Half - 1 PROVE Short(i) = i
<1>1. (i + Half) % (2 * Half) = i + Half
    BY Sizes
<1> QED BY <1>1, Sizes DEF Short

LEMMA ShortWraps == Short(Half) = -Half
<1>1. (Half + Half) % (2 * Half) = 0
    BY Sizes
<1> QED BY <1>1, Sizes DEF Short

\* The next size of an array that can grow is a size, and fits.
LEMMA NextSize ==
    ASSUME NEW k \in Nat, k * Block < Half
    PROVE  /\ (k + 1) * Block = k * Block + Block
           /\ (k + 1) * Block <= Half
           /\ k + 1 \in 1 .. Half
<1>1. PICK m \in 2 .. Half : Half = m * Block
    BY CacheAssumption DEF CacheAssumption
<1>2. (k + 1) * Block = k * Block + Block
    BY Sizes
<1>3. k < m
    <2>1. SUFFICES ASSUME k >= m PROVE k * Block >= m * Block
        BY <1>1, Sizes
    <2>2. (k - m) * Block >= 0
        BY <2>1, <1>1, Sizes
    <2> QED BY <2>2, <1>1, Sizes
<1>4. (m - (k + 1)) * Block >= 0
    BY <1>3, <1>1, Sizes
<1> QED BY <1>1, <1>2, <1>3, <1>4, Sizes

-----------------------------------------------------------------------------
(* What cacheNodeNew does to the array of its cell. *)

\* The array cacheNodeNew stores into keeps the children, and has room for one
\* more unless the first block of the cell is missing.
LEMMA SlotsOK ==
    ASSUME NEW nc \in Cells, HasNoArray(nc) \/ HasArray(nc),
           IsFull(nc) => NewSize(nc) > 0, ~StoreFaults(nc)
    PROVE  \E k \in 1 .. Half :
              /\ Slots(nc) \in [0 .. k * Block - 1 -> CellOrNull]
              /\ k * Block <= Half
              /\ no_nodes[nc] \in 0 .. k * Block - 1
              /\ \A i \in Slot(nc) : Slots(nc)[i] = node[nc][i]
              /\ IF IsFull(nc) THEN NewSize(nc) = k * Block
                 ELSE max_nodes[nc] = IF k * Block < Half THEN k * Block ELSE -Half
<1>1. CASE HasNoArray(nc)
    <2>1. IsFull(nc)
        BY <1>1, Sizes DEF HasNoArray, StoreFaults, Slots, IsFull, NoArray
    <2>2. NewSize(nc) = 1 * Block /\ no_nodes[nc] = 0
        BY <1>1, <2>1, Sizes DEF HasNoArray, IsFull, NewSize
    <2>3. Slots(nc) \in [0 .. 1 * Block - 1 -> CellOrNull]
        BY <1>1, <2>1, <2>2 DEF HasNoArray, Slots, NoArray, CellOrNull
    <2> QED BY <2>1, <2>2, <2>3, Sizes DEF Slot
<1>2. CASE HasArray(nc)
    <2>1. PICK k \in 1 .. Half :
              /\ node[nc] \in [0 .. k * Block - 1 -> CellOrNull]
              /\ Grows(nc, k * Block) \/ Wrapped(nc, k * Block)
        BY <1>2 DEF HasArray
    <2>2. k * Block \in Nat
        BY Sizes
    <2>3. CASE IsFull(nc)
        <3>1. Grows(nc, k * Block) /\ no_nodes[nc] = k * Block
            BY <2>1, <2>2, <2>3, Sizes DEF Grows, Wrapped, IsFull, NewSize
        <3>2. NewSize(nc) = (k + 1) * Block /\ (k + 1) * Block <= Half
              /\ k + 1 \in 1 .. Half
            BY <3>1, NextSize DEF NewSize, Grows
        <3>3. Slots(nc) \in [0 .. (k + 1) * Block - 1 -> CellOrNull]
            BY <2>1, <2>2, <2>3, <3>2 DEF Slots, CellOrNull
        <3>4. \A i \in Slot(nc) : Slots(nc)[i] = node[nc][i]
            BY <2>1, <2>2, <2>3, <3>1, <3>2, NextSize, Sizes DEF Slots, Slot, Grows
        <3>5. no_nodes[nc] \in 0 .. (k + 1) * Block - 1
            BY <2>2, <3>1, NextSize, Sizes DEF Grows
        <3> QED BY <2>3, <3>2, <3>3, <3>4, <3>5
    <2>4. CASE ~IsFull(nc)
        <3>1. Slots(nc) = node[nc]
            BY <2>4 DEF Slots
        <3>2. no_nodes[nc] \in 0 .. k * Block - 1
            BY <2>1, <2>2, <2>4, Sizes DEF Grows, Wrapped, IsFull
        <3>3. /\ k * Block <= Half
              /\ max_nodes[nc] = IF k * Block < Half THEN k * Block ELSE -Half
            BY <2>1, <2>2, Sizes DEF Grows, Wrapped
        <3> QED BY <2>1, <2>4, <3>1, <3>2, <3>3
    <2> QED BY <2>3, <2>4
<1> QED BY <1>1, <1>2

\* Into an array, or into the block realloc gives a cell that has none, the
\* store never goes wrong.
LEMMA StoreInArray ==
    ASSUME NEW nc \in Cells, HasArray(nc), IsFull(nc) => NewSize(nc) > 0
    PROVE  ~StoreFaults(nc)
<1>1. PICK k \in 1 .. Half :
          /\ node[nc] \in [0 .. k * Block - 1 -> CellOrNull]
          /\ Grows(nc, k * Block) \/ Wrapped(nc, k * Block)
    BY DEF HasArray
<1>2. k * Block \in Nat
    BY Sizes
<1>3. CASE IsFull(nc)
    <2>1. no_nodes[nc] = max_nodes[nc] /\ max_nodes[nc] = k * Block
        BY <1>1, <1>2, <1>3, Sizes DEF Grows, Wrapped, IsFull, NewSize
    <2> QED BY <1>2, <1>3, <2>1, Sizes DEF StoreFaults, Slots, NewSize
<1>4. CASE ~IsFull(nc)
    BY <1>1, <1>2, <1>4, Sizes DEF StoreFaults, Slots, IsFull, Grows, Wrapped
<1> QED BY <1>3, <1>4

LEMMA StoreInNewBlock ==
    ASSUME NEW nc \in Cells, HasNoArray(nc), StoreFaults(nc)
    PROVE  node[nc] = NoArray /\ max_nodes[nc] > 0
<1>1. CASE max_nodes[nc] = 0
    BY <1>1, Sizes DEF HasNoArray, StoreFaults, Slots, IsFull, NewSize
<1>2. CASE max_nodes[nc] = Block
    BY <1>2, Sizes DEF HasNoArray
<1> QED BY <1>1, <1>2 DEF HasNoArray

\* cacheNodeNew when no store goes wrong: the array stays sound, its children
\* stay where they are, and a new cell goes into the next slot.
LEMMA NodeNewArray ==
    ASSUME Types, ArraysOK, NEW nc \in Cells, NEW rv \in CellOrNull,
           StoreNode(nc, rv), IsFull(nc) => NewSize(nc) > 0, ~StoreFaults(nc)
    PROVE  /\ DOMAIN node' = Cells
           /\ max_nodes' \in [Cells -> Int]
           /\ no_nodes' \in [Cells -> Int]
           /\ \A n \in Cells \ {nc} : /\ node'[n] = node[n]
                                      /\ max_nodes'[n] = max_nodes[n]
                                      /\ no_nodes'[n] = no_nodes[n]
           /\ HasArray(nc)'
           /\ no_nodes[nc] >= 0
           /\ \A i \in Slot(nc) : node'[nc][i] = node[nc][i]
           /\ node'[nc][no_nodes[nc]] = rv
           /\ rv = NULL => no_nodes'[nc] = no_nodes[nc]
           /\ rv # NULL => no_nodes'[nc] \in {no_nodes[nc] + 1, -Half}
           /\ rv # NULL /\ no_nodes[nc] + 1 < Half => no_nodes'[nc] = no_nodes[nc] + 1
<1> DEFINE new == [Slots(nc) EXCEPT ![no_nodes[nc]] = rv]
<1>1. HasNoArray(nc) \/ HasArray(nc)
    BY DEF ArraysOK
<1>2. PICK k \in 1 .. Half :
          /\ Slots(nc) \in [0 .. k * Block - 1 -> CellOrNull]
          /\ k * Block <= Half
          /\ no_nodes[nc] \in 0 .. k * Block - 1
          /\ \A i \in Slot(nc) : Slots(nc)[i] = node[nc][i]
          /\ IF IsFull(nc) THEN NewSize(nc) = k * Block
             ELSE max_nodes[nc] = IF k * Block < Half THEN k * Block ELSE -Half
    BY <1>1, SlotsOK
<1>3. k * Block \in Nat /\ k * Block > 0
    BY <1>2, Sizes
<1>4. new \in [0 .. k * Block - 1 -> CellOrNull] /\ new[no_nodes[nc]] = rv
    BY <1>2, <1>3
<1>5. \A i \in Slot(nc) : new[i] = node[nc][i]
    BY <1>2, <1>3 DEF Slot
<1>6. /\ DOMAIN node' = Cells /\ node'[nc] = new
      /\ \A n \in Cells \ {nc} : node'[n] = node[n]
    BY DEF StoreNode, Types
<1>7. /\ max_nodes' \in [Cells -> Int]
      /\ \A n \in Cells \ {nc} : max_nodes'[n] = max_nodes[n]
      /\ max_nodes'[nc] = IF k * Block < Half THEN k * Block ELSE -Half
    <2>1. CASE IsFull(nc)
        <3>1. Short(NewSize(nc)) = IF k * Block < Half THEN k * Block ELSE -Half
            BY <2>1, <1>2, <1>3, ShortFits, ShortWraps, Sizes
        <3>2. Short(NewSize(nc)) \in Int
            BY <3>1, <1>3, Sizes
        <3> QED BY <2>1, <3>1, <3>2 DEF StoreNode, Types
    <2>2. CASE ~IsFull(nc)
        BY <2>2, <1>2 DEF StoreNode, Types
    <2> QED BY <2>1, <2>2
<1>8. no_nodes[nc] \in 0 .. Half - 1
    BY <1>2, <1>3, Sizes
<1>9. /\ Short(no_nodes[nc] + 1) = IF no_nodes[nc] + 1 < Half THEN no_nodes[nc] + 1
                                  ELSE -Half
      /\ Short(no_nodes[nc] + 1) \in Int
    <2>1. CASE no_nodes[nc] + 1 < Half
        BY <2>1, <1>8, ShortFits, Sizes
    <2>2. CASE no_nodes[nc] + 1 = Half
        BY <2>2, <1>8, ShortWraps, Sizes
    <2> QED BY <2>1, <2>2, <1>8, Sizes
<1>10. /\ no_nodes' \in [Cells -> Int]
       /\ \A n \in Cells \ {nc} : no_nodes'[n] = no_nodes[n]
       /\ no_nodes'[nc] = IF rv = NULL THEN no_nodes[nc] ELSE Short(no_nodes[nc] + 1)
    BY <1>9 DEF StoreNode, Types
<1>11. Grows(nc, k * Block)' \/ Wrapped(nc, k * Block)'
    <2>1. CASE k * Block < Half
        BY <2>1, <1>2, <1>3, <1>7, <1>9, <1>10, Sizes DEF Grows
    <2>2. CASE k * Block = Half
        BY <2>2, <1>2, <1>3, <1>7, <1>8, <1>9, <1>10, Sizes DEF Wrapped
    <2> QED BY <2>1, <2>2, <1>2, <1>3, Sizes
<1>12. HasArray(nc)'
    BY <1>4, <1>6, <1>11 DEF HasArray
<1> QED BY <1>4, <1>5, <1>6, <1>7, <1>8, <1>9, <1>10, <1>12

-----------------------------------------------------------------------------
(* The steps. *)

LEMMA LevelsGrow ==
    ASSUME NEW u \in Nat, NEW v \in Nat, u <= v,
           NEW s \in Seq([nc : 0 .. u, nnc : 0 .. u])
    PROVE  s \in Seq([nc : 0 .. v, nnc : 0 .. v])
<1>1. [nc : 0 .. u, nnc : 0 .. u] \subseteq [nc : 0 .. v, nnc : 0 .. v]
    OBVIOUS
<1> QED BY <1>1, SeqMonotonic

\* A sequence without its last element.
LEMMA FrontOK ==
    ASSUME NEW S, NEW s \in Seq(S), s # <<>>
    PROVE  /\ SubSeq(s, 1, Len(s) - 1) \in Seq(S)
           /\ Len(SubSeq(s, 1, Len(s) - 1)) = Len(s) - 1
           /\ \A i \in 1 .. Len(s) - 1 : SubSeq(s, 1, Len(s) - 1)[i] = s[i]
           /\ SubSeq(s, 1, Len(s) - 1) = <<>> <=> Len(s) = 1
<1>1. Len(s) \in Nat \ {0}
    BY EmptySeq
<1>2. PICK n \in Nat \ {0} : n = Len(s)
    BY <1>1
<1> DEFINE t == SubSeq(s, 1, n - 1)
<1>3. \A i \in 1 .. n - 1 : s[i] \in S
    BY <1>2, ElementOfSeq
<1>4. /\ t \in Seq(S)
      /\ Len(t) = IF 1 <= n - 1 THEN n - 1 - 1 + 1 ELSE 0
      /\ \A i \in 1 .. n - 1 - 1 + 1 : t[i] = s[1 + i - 1]
    BY <1>3, SubSeqProperties
<1> HIDE DEF t
<1>5. Len(t) = n - 1 /\ \A i \in 1 .. n - 1 : t[i] = s[i]
    BY <1>4
<1>6. t = <<>> <=> Len(t) = 0
    BY <1>4, EmptySeq
<1>7. t = <<>> <=> n = 1
    BY <1>5, <1>6
<1> QED BY <1>2, <1>4, <1>5, <1>7 DEF t

\* A step that leaves the cells and their arrays alone.
LEMMA TreeKept ==
    ASSUME ArraysOK, Down, Unshared,
           UNCHANGED <<used, parent, node, max_nodes, no_nodes>>
    PROVE  ArraysOK' /\ Down' /\ Unshared'
<1>1. ArraysOK'
    BY DEF ArraysOK, HasNoArray, HasArray, Grows, Wrapped, Pristine
<1>2. Down'
    BY DEF Down, Slot
<1>3. Unshared'
    BY DEF Unshared, Slot
<1> QED BY <1>1, <1>2, <1>3

\* Outside of cacheFree there are no frames to speak of.
LEMMA FramesIdle ==
    ASSUME frames' = <<>>, phase' # "freeing"
    PROVE  FramesOK'
BY DEF FramesOK

LEMMA InitOK == Init => IInv
<1> SUFFICES ASSUME Init PROVE IInv
    OBVIOUS
<1> USE DEF Init, CacheInit
<1>1. Types
    <2>1. used \in 0 .. MaxCells /\ failed \in 0 .. MaxFailures
        BY Sizes
    <2>2. parent \in [Cells -> CellOrNull]
        BY DEF CellOrNull
    <2>3. live \subseteq 1 .. used /\ DOMAIN node = Cells
        OBVIOUS
    <2>4. max_nodes \in [Cells -> Int] /\ no_nodes \in [Cells -> Int]
        OBVIOUS
    <2>5. payload \in [Cells -> Payloads \cup {Blank}]
        OBVIOUS
    <2> QED BY <2>1, <2>2, <2>3, <2>4, <2>5 DEF Types
<1>2. ArraysOK
    BY Sizes DEF ArraysOK, HasNoArray, Pristine
<1>3. Down /\ Unshared
    BY DEF Down, Unshared, Slot
<1>4. PhaseOK
    BY DEF PhaseOK, Pristine
<1>5. FramesOK
    BY DEF FramesOK
<1> QED BY <1>1, <1>2, <1>3, <1>4, <1>5 DEF IInv

LEMMA OpenStep == IInv /\ Open => IInv'
<1> SUFFICES ASSUME IInv, Open PROVE IInv'
    OBVIOUS
<1> USE DEF IInv, Open
<1>1. PICK rv \in CellOrNull : cacheInit(rv) /\ root' = rv
    OBVIOUS
<1>2. used = 0 /\ live = {} /\ root = NULL
    BY DEF PhaseOK
<1>3. UNCHANGED <<parent, node, max_nodes, no_nodes, payload, frames, fault>>
    BY <1>1 DEF cacheInit, treeVars
<1>4. \/ rv = 1 /\ used' = 1 /\ live' = {1} /\ failed' = failed
      \/ rv = NULL /\ used' = 0 /\ live' = {} /\ failed' \in 0 .. MaxFailures
    BY <1>1, <1>2, Sizes DEF cacheInit, CellNew, AllocFails, Cells, NULL, Types
<1>5. \A n \in Cells : Pristine(n)'
    BY <1>3 DEF PhaseOK, Pristine
<1>6. Types'
    BY <1>3, <1>4, Sizes DEF Types
<1>7. ArraysOK'
    BY <1>5, Sizes DEF ArraysOK, HasNoArray, Pristine
<1>8. Down' /\ Unshared'
    BY <1>5 DEF Down, Unshared, Slot, Pristine
<1>9. PhaseOK'
    <2>1. live' = 1 .. used'
        <3>1. 1 .. 1 = {1} /\ 1 .. 0 = {}
            OBVIOUS
        <3> QED BY <1>4, <3>1
    <2>2. ~fault' /\ levels = <<>> /\ levels' = <<>>
        BY <1>3 DEF PhaseOK
    <2>3. levels' \in Seq([nc : 0 .. used', nnc : 0 .. used'])
        BY <2>2
    <2>4. root' = IF used' = 0 THEN NULL ELSE 1
        BY <1>1, <1>4 DEF NULL
    <2> QED BY <1>3, <1>5, <2>1, <2>2, <2>3, <2>4 DEF PhaseOK
<1>10. FramesOK'
    BY <1>3, FramesIdle DEF PhaseOK
<1> QED BY <1>6, <1>7, <1>8, <1>9, <1>10

LEMMA EmptyTextStep == IInv /\ EmptyText => IInv'
<1> SUFFICES ASSUME IInv, EmptyText PROVE IInv'
    OBVIOUS
<1> USE DEF IInv, EmptyText, cacheVars, treeVars, heapVars
<1>1. Types'
    BY DEF Types
<1>2. ArraysOK' /\ Down' /\ Unshared'
    BY TreeKept
<1>3. PhaseOK'
    BY DEF PhaseOK
<1>4. FramesOK'
    BY FramesIdle DEF PhaseOK
<1> QED BY <1>1, <1>2, <1>3, <1>4

\* The first block of a cell that has no array and no children yet.
LEMMA InitLevelOK ==
    ASSUME IInv, NEW nc \in 0 .. used, cacheInitLevel(nc),
           nc # NULL => max_nodes[nc] = 0
    PROVE  /\ ArraysOK' /\ Down' /\ Unshared'
           /\ DOMAIN node' = Cells
           /\ max_nodes' \in [Cells -> Int]
           /\ failed' \in 0 .. MaxFailures
           /\ UNCHANGED <<used, live, parent, no_nodes, payload, frames, fault>>
<1> USE DEF IInv
<1>1. CASE nc = NULL
    BY <1>1, TreeKept DEF cacheInitLevel, cacheVars, treeVars, heapVars, Types
<1>2. CASE nc # NULL
    <2>1. nc \in Cells /\ nc <= used
        BY <1>2, Sizes DEF Types, NULL, Cells
    <2>2. UNCHANGED <<used, live, parent, no_nodes, payload, frames, fault>>
        BY <1>2 DEF cacheInitLevel
    <2>3. /\ DOMAIN node' = Cells
          /\ \A n \in Cells \ {nc} : node'[n] = node[n]
          /\ node'[nc] \in {NoArray, [i \in 0 .. Block - 1 |-> NULL]}
          /\ failed' \in 0 .. MaxFailures
        BY <1>2, <2>1, Sizes DEF cacheInitLevel, AllocFails, Types
    <2>4. max_nodes' = [max_nodes EXCEPT ![nc] = Block]
        BY <1>2 DEF cacheInitLevel
    <2>5. max_nodes' \in [Cells -> Int] /\ max_nodes'[nc] = Block
          /\ \A n \in Cells \ {nc} : max_nodes'[n] = max_nodes[n]
        BY <2>1, <2>4, Sizes DEF Types
    <2>6. no_nodes[nc] = 0
        <3>1. HasNoArray(nc) \/ HasArray(nc)
            BY <2>1 DEF ArraysOK
        <3>2. ~HasArray(nc)
            <4>1. ASSUME NEW k \in 1 .. Half,
                         Grows(nc, k * Block) \/ Wrapped(nc, k * Block)
                  PROVE  FALSE
                <5>1. k * Block >= 1
                    BY Sizes
                <5> QED BY <5>1, <4>1, <1>2, Sizes DEF Grows, Wrapped
            <4> QED BY <4>1 DEF HasArray
        <3> QED BY <3>1, <3>2 DEF HasNoArray
    <2>7. HasNoArray(nc)' \/ HasArray(nc)'
        <3>1. CASE node'[nc] = NoArray
            BY <3>1, <2>2, <2>5, <2>6 DEF HasNoArray
        <3>2. CASE node'[nc] = [i \in 0 .. Block - 1 |-> NULL]
            <4>1. 1 * Block = Block /\ 1 \in 1 .. Half
                BY Sizes
            <4>2. Grows(nc, 1 * Block)'
                BY <4>1, <2>2, <2>5, <2>6, Sizes DEF Grows
            <4>3. node'[nc] \in [0 .. 1 * Block - 1 -> CellOrNull]
                BY <4>1, <3>2 DEF CellOrNull
            <4> QED BY <4>1, <4>2, <4>3 DEF HasArray
        <3> QED BY <3>1, <3>2, <2>3
    <2>8. ArraysOK'
        <3>1. ASSUME NEW n \in Cells, n # nc
              PROVE  HasNoArray(n)' \/ HasArray(n)'
            BY <3>1, <2>2, <2>3, <2>5
               DEF ArraysOK, HasNoArray, HasArray, Grows, Wrapped
        <3>2. ASSUME NEW n \in Cells, n > used PROVE Pristine(n)'
            <4>1. n # nc
                BY <3>2, <2>1 DEF Types, Cells
            <4> QED BY <3>2, <4>1, <2>2, <2>3, <2>5 DEF ArraysOK, Pristine
        <3> QED BY <3>1, <3>2, <2>2, <2>7 DEF ArraysOK
    <2>9. \A n \in Cells : Slot(n)' = Slot(n)
        BY <2>2 DEF Slot
    <2>10. \A n \in Cells : \A i \in Slot(n) : node'[n][i] = node[n][i]
        BY <2>3, <2>6 DEF Slot
    <2>11. Down'
        BY <2>2, <2>9, <2>10 DEF Down
    <2>12. Unshared'
        BY <2>2, <2>9, <2>10 DEF Unshared
    <2> QED BY <2>2, <2>3, <2>5, <2>8, <2>11, <2>12
<1> QED BY <1>1, <1>2

LEMMA StartStep == IInv /\ Start => IInv'
<1> SUFFICES ASSUME IInv, Start PROVE IInv'
    OBVIOUS
<1> USE DEF IInv, Start
<1>1. root \in 0 .. used /\ (root # NULL => max_nodes[root] = 0)
    BY Sizes DEF PhaseOK, Types, Pristine, Cells, NULL
<1>2. /\ ArraysOK' /\ Down' /\ Unshared'
      /\ DOMAIN node' = Cells
      /\ max_nodes' \in [Cells -> Int]
      /\ failed' \in 0 .. MaxFailures
      /\ UNCHANGED <<used, live, parent, no_nodes, payload, frames, fault>>
    BY <1>1, InitLevelOK
<1>3. Types'
    BY <1>2 DEF Types
<1>4. PhaseOK'
    <2>1. levels' \in Seq([nc : 0 .. used', nnc : 0 .. used']) /\ levels' # <<>>
        BY <1>1, <1>2 DEF Level, NULL, Types
    <2> QED BY <1>2, <2>1 DEF PhaseOK
<1>5. FramesOK'
    BY <1>2, FramesIdle DEF PhaseOK
<1> QED BY <1>2, <1>3, <1>4, <1>5

\* The innermost activation of the scanner.
LEMMA TopOK ==
    ASSUME IInv, phase = "scanning"
    PROVE  /\ levels # <<>> /\ Len(levels) \in Nat /\ Len(levels) >= 1
           /\ Top \in [nc : 0 .. used, nnc : 0 .. used]
           /\ live = 1 .. used /\ frames = <<>>
<1>1. levels \in Seq([nc : 0 .. used, nnc : 0 .. used]) /\ levels # <<>>
    BY DEF IInv, PhaseOK
<1>2. Len(levels) \in Nat /\ Len(levels) >= 1
    BY <1>1, EmptySeq
<1>3. Top \in [nc : 0 .. used, nnc : 0 .. used]
    <2>1. Len(levels) \in 1 .. Len(levels)
        BY <1>2
    <2> QED BY <1>1, <2>1, ElementOfSeq DEF Top
<1> QED BY <1>1, <1>2, <1>3 DEF IInv, PhaseOK

LEMMA DescendStep == IInv /\ Descend => IInv'
<1> SUFFICES ASSUME IInv, Descend PROVE IInv'
    OBVIOUS
<1> USE DEF IInv, Descend, Scanning
<1>1. Top.nnc \in 0 .. used /\ (Top.nnc # NULL => max_nodes[Top.nnc] = 0)
    BY TopOK
<1>2. /\ ArraysOK' /\ Down' /\ Unshared'
      /\ DOMAIN node' = Cells
      /\ max_nodes' \in [Cells -> Int]
      /\ failed' \in 0 .. MaxFailures
      /\ UNCHANGED <<used, live, parent, no_nodes, payload, frames, fault>>
    BY <1>1, InitLevelOK
<1>3. Types'
    BY <1>2 DEF Types
<1>4. PhaseOK'
    <2>1. Level(Top.nnc) \in [nc : 0 .. used, nnc : 0 .. used]
        BY <1>1 DEF Level, NULL, Types
    <2>2. levels' \in Seq([nc : 0 .. used', nnc : 0 .. used']) /\ levels' # <<>>
        BY <1>2, <2>1 DEF PhaseOK
    <2> QED BY <1>2, <2>2 DEF PhaseOK
<1>5. FramesOK'
    BY <1>2, FramesIdle DEF PhaseOK
<1> QED BY <1>2, <1>3, <1>4, <1>5

LEMMA SetDataStep == IInv /\ SetData => IInv'
<1> SUFFICES ASSUME IInv, SetData PROVE IInv'
    OBVIOUS
<1> USE DEF IInv, SetData, Scanning
<1>1. PICK p \in Payloads : cacheDataSet(Top.nnc, p)
    OBVIOUS
<1>2. UNCHANGED <<used, live, failed, parent, node, max_nodes, no_nodes, frames, fault>>
    BY <1>1 DEF cacheDataSet, heapVars
<1>3. payload' \in [Cells -> Payloads \cup {Blank}]
    BY <1>1 DEF cacheDataSet, Types
<1>4. Types'
    BY <1>2, <1>3 DEF Types
<1>5. ArraysOK' /\ Down' /\ Unshared'
    BY <1>2, TreeKept
<1>6. PhaseOK'
    BY <1>2 DEF PhaseOK
<1>7. FramesOK'
    BY <1>2, FramesIdle DEF PhaseOK
<1> QED BY <1>4, <1>5, <1>6, <1>7

LEMMA ReturnStep == IInv /\ Return => IInv'
<1> SUFFICES ASSUME IInv, Return PROVE IInv'
    OBVIOUS
<1> USE DEF IInv, Return, Scanning
<1>1. UNCHANGED <<used, live, failed, parent, node, max_nodes, no_nodes,
                  payload, frames, fault, root>>
    BY DEF cacheVars, treeVars, heapVars
<1>2. Types'
    BY <1>1 DEF Types
<1>3. ArraysOK' /\ Down' /\ Unshared'
    BY <1>1, TreeKept
<1>4. levels' \in Seq([nc : 0 .. used, nnc : 0 .. used])
      /\ (Len(levels) = 1 <=> levels' = <<>>)
    BY TopOK, FrontOK DEF PhaseOK
<1>5. PhaseOK'
    BY <1>1, <1>4 DEF PhaseOK
<1>6. FramesOK'
    BY <1>1, FramesIdle DEF PhaseOK
<1> QED BY <1>2, <1>3, <1>5, <1>6

\* The new cell becomes nnc of the innermost activation.
LEMMA LevelsNew ==
    ASSUME IInv, phase = "scanning", NEW rv \in CellOrNull, rv <= used',
           used' \in Nat, used <= used',
           levels' = SetTop([Top EXCEPT !.nnc = rv])
    PROVE  /\ levels' \in Seq([nc : 0 .. used', nnc : 0 .. used'])
           /\ levels' # <<>>
<1> DEFINE L == [nc : 0 .. used', nnc : 0 .. used']
<1>1. levels \in Seq([nc : 0 .. used, nnc : 0 .. used]) /\ levels # <<>> /\ used \in Nat
    BY DEF IInv, PhaseOK, Types
<1>2. levels \in Seq(L)
    BY <1>1, LevelsGrow
<1>3. PICK n \in Nat \ {0} : n = Len(levels)
    BY <1>1, EmptySeq
<1>4. levels[n] \in L
    <2>1. n \in 1 .. Len(levels)
        BY <1>3
    <2> QED BY <1>2, <2>1, ElementOfSeq
<1>5. rv \in 0 .. used'
    BY Sizes DEF CellOrNull, Cells, NULL
<1>6. [Top EXCEPT !.nnc = rv] \in L
    BY <1>3, <1>4, <1>5 DEF Top
<1> HIDE DEF L
<1>7. levels' \in Seq(L) /\ Len(levels') = n
    BY <1>2, <1>3, <1>6, ExceptSeq DEF SetTop
<1>8. levels' # <<>>
    BY <1>7, EmptySeq
<1> QED BY <1>7, <1>8 DEF L

\* A cell is stored behind the children of nc, or NULL where it would be.
LEMMA StoreOK ==
    ASSUME IInv, phase = "scanning", NEW nc \in 1 .. used, NEW rv \in CellOrNull,
           StoreNode(nc, rv), IsFull(nc) => NewSize(nc) > 0, ~StoreFaults(nc),
           UNCHANGED phase
    PROVE  /\ Types' /\ ArraysOK' /\ Down' /\ Unshared'
           /\ UNCHANGED <<frames, fault>>
           /\ live' = 1 .. used' /\ rv <= used' /\ used <= used' /\ used' \in Nat
           /\ used > 0
<1> USE DEF IInv
<1>1. nc \in Cells
    BY Sizes DEF Types, Cells
<1>2. /\ DOMAIN node' = Cells
      /\ max_nodes' \in [Cells -> Int]
      /\ no_nodes' \in [Cells -> Int]
      /\ \A n \in Cells \ {nc} : /\ node'[n] = node[n]
                                 /\ max_nodes'[n] = max_nodes[n]
                                 /\ no_nodes'[n] = no_nodes[n]
      /\ HasArray(nc)'
      /\ no_nodes[nc] >= 0
      /\ \A i \in Slot(nc) : node'[nc][i] = node[nc][i]
      /\ node'[nc][no_nodes[nc]] = rv
      /\ rv = NULL => no_nodes'[nc] = no_nodes[nc]
      /\ rv # NULL => no_nodes'[nc] \in {no_nodes[nc] + 1, -Half}
    BY <1>1, NodeNewArray
<1>3. UNCHANGED <<payload, frames, fault>>
    BY DEF StoreNode
<1>4. \/ /\ rv # NULL /\ rv = used + 1 /\ rv \in Cells
         /\ used' = rv /\ live' = live \cup {rv} /\ failed' = failed
         /\ parent' = [parent EXCEPT ![rv] = nc]
      \/ /\ rv = NULL /\ UNCHANGED <<used, live, parent>>
         /\ failed' \in 0 .. MaxFailures
    <2>1. CellNew(rv) /\ (rv # NULL => parent' = [parent EXCEPT ![rv] = nc])
          /\ (rv = NULL => UNCHANGED parent)
        BY DEF StoreNode
    <2>2. CASE rv = used + 1 /\ rv \in Cells /\ used' = rv /\ live' = live \cup {rv}
               /\ UNCHANGED failed
        <3>1. rv # NULL
            BY <2>2 DEF Cells, NULL
        <3> QED BY <2>1, <2>2, <3>1
    <2>3. CASE rv = NULL /\ AllocFails /\ UNCHANGED <<used, live>>
        <3>1. failed' \in 0 .. MaxFailures
            BY <2>3, Sizes DEF AllocFails, Types
        <3> QED BY <2>1, <2>3, <3>1
    <2> QED BY <2>1, <2>2, <2>3 DEF CellNew
<1>5. live = 1 .. used /\ used \in 0 .. MaxCells
    BY DEF PhaseOK, Types
<1>6. /\ live' = 1 .. used' /\ used' \in 0 .. MaxCells
      /\ rv <= used' /\ used <= used' /\ used' \in Nat /\ used > 0
    <2>1. CASE rv = used + 1 /\ rv \in Cells /\ used' = rv /\ live' = live \cup {rv}
        <3>1. (1 .. used) \cup {used + 1} = 1 .. used + 1
            BY <1>5
        <3> QED BY <2>1, <3>1, <1>5, Sizes DEF Cells
    <2>2. CASE rv = NULL /\ UNCHANGED <<used, live>>
        BY <2>2, <1>5, Sizes DEF NULL
    <2> QED BY <1>4, <2>1, <2>2
<1>7. Types'
    <2>1. parent' \in [Cells -> CellOrNull]
        BY <1>1, <1>4 DEF Types, CellOrNull
    <2>2. failed' \in 0 .. MaxFailures
        BY <1>4 DEF Types
    <2> QED BY <1>2, <1>3, <1>6, <2>1, <2>2 DEF Types
<1>8. ArraysOK'
    <2>1. ASSUME NEW n \in Cells, n # nc PROVE HasNoArray(n)' \/ HasArray(n)'
        BY <2>1, <1>2 DEF ArraysOK, HasNoArray, HasArray, Grows, Wrapped
    <2>2. ASSUME NEW n \in Cells, n > used' PROVE Pristine(n)'
        <3>1. n # nc /\ n > used
            BY <2>2, <1>5, <1>6, Sizes DEF Cells
        <3> QED BY <3>1, <1>2 DEF ArraysOK, Pristine
    <2> QED BY <1>2, <2>1, <2>2 DEF ArraysOK
<1>9. \A n \in Cells : \A i \in Slot(n)' :
          \/ i \in Slot(n) /\ node'[n][i] = node[n][i]
          \/ n = nc /\ i = no_nodes[nc] /\ rv # NULL /\ node'[n][i] = rv
    <2> TAKE n \in Cells
    <2>1. CASE n # nc
        BY <2>1, <1>2 DEF Slot
    <2>2. CASE n = nc
        <3> TAKE i \in Slot(n)'
        <3>1. no_nodes[nc] \in Int /\ Half \in Nat
            BY <1>1, Sizes DEF Types
        <3>2. CASE rv = NULL
            BY <2>2, <3>2, <1>2 DEF Slot
        <3>3. CASE rv # NULL
            <4>1. no_nodes'[nc] = no_nodes[nc] + 1
                BY <2>2, <3>1, <3>3, <1>2 DEF Slot
            <4> QED BY <2>2, <3>1, <3>3, <4>1, <1>2 DEF Slot
        <3> QED BY <3>2, <3>3
    <2> QED BY <2>1, <2>2
<1>10. Down'
    <2> SUFFICES ASSUME NEW p \in Cells, NEW i \in Slot(p)'
                 PROVE  node'[p][i] \in p + 1 .. used' /\ parent'[node'[p][i]] = p
        BY DEF Down
    <2>1. CASE i \in Slot(p) /\ node'[p][i] = node[p][i]
        <3>1. node[p][i] \in p + 1 .. used /\ parent[node[p][i]] = p
            BY <2>1 DEF Down
        <3>2. node[p][i] # used + 1
            BY <3>1, <1>5 DEF Cells
        <3>3. parent'[node[p][i]] = parent[node[p][i]]
            <4>1. node[p][i] \in Cells
                BY <3>1, <1>5, Sizes DEF Cells
            <4> QED BY <3>2, <4>1, <1>4 DEF Types
        <3>4. node[p][i] \in p + 1 .. used'
            BY <3>1, <1>5, <1>6 DEF Cells
        <3> QED BY <2>1, <3>1, <3>3, <3>4
    <2>2. CASE p = nc /\ rv # NULL /\ node'[p][i] = rv
        <3>1. rv = used + 1 /\ rv \in Cells /\ used' = rv
              /\ parent' = [parent EXCEPT ![rv] = nc]
            BY <2>2, <1>4
        <3>2. parent'[rv] = nc
            BY <3>1 DEF Types
        <3>3. rv \in nc + 1 .. used'
            BY <3>1, <1>5
        <3> QED BY <2>2, <3>2, <3>3
    <2> QED BY <1>9, <2>1, <2>2
<1>11. Unshared'
    <2>1. ASSUME NEW p \in Cells, NEW i \in Slot(p) PROVE node[p][i] # used + 1
        BY <2>1, <1>5 DEF Down, Cells
    <2> SUFFICES ASSUME NEW p \in Cells, NEW q \in Cells,
                        NEW i \in Slot(p)', NEW j \in Slot(q)',
                        node'[p][i] = node'[q][j]
                 PROVE  p = q /\ i = j
        BY DEF Unshared
    <2>2. rv # NULL => rv = used + 1
        BY <1>4
    <2> QED BY <1>9, <2>1, <2>2 DEF Unshared
<1> QED BY <1>3, <1>6, <1>7, <1>8, <1>10, <1>11

LEMMA NewNodeStep == IInv /\ NewNode => IInv'
<1> SUFFICES ASSUME IInv, NewNode PROVE IInv'
    OBVIOUS
<1> USE DEF NewNode, Scanning
<1>1. PICK rv \in CellOrNull :
          cacheNodeNew(Top.nc, rv) /\ levels' = SetTop([Top EXCEPT !.nnc = rv])
    OBVIOUS
<1>2. /\ Top.nc \in 0 .. used /\ live = 1 .. used /\ frames = <<>>
      /\ used \in 0 .. MaxCells /\ used \in Nat
    BY TopOK, Sizes DEF IInv, Types
<1>3. CASE rv = NULL /\ UNCHANGED <<used, live, parent, node, max_nodes, no_nodes,
                                    payload, frames>>
                     /\ failed' \in 0 .. MaxFailures
                     /\ (fault' => \E n \in live : node[n] = NoArray /\ max_nodes[n] > 0)
                     /\ fault' \in BOOLEAN
    <2>1. Types'
        BY <1>3 DEF IInv, Types
    <2>2. ArraysOK' /\ Down' /\ Unshared'
        BY <1>3, TreeKept DEF IInv
    <2>3. levels' \in Seq([nc : 0 .. used', nnc : 0 .. used']) /\ levels' # <<>>
        <3>1. rv <= used' /\ used' \in Nat /\ used <= used'
            BY <1>2, <1>3 DEF NULL
        <3> QED BY <1>1, <3>1, LevelsNew
    <2>4. PhaseOK'
        BY <1>3, <2>3 DEF IInv, PhaseOK
    <2>5. FramesOK'
        BY <1>2, <1>3, FramesIdle
    <2> QED BY <2>1, <2>2, <2>4, <2>5 DEF IInv
<1>4. CASE Top.nc = NULL
    <2>1. rv = NULL /\ UNCHANGED cacheVars
        BY <1>1, <1>4 DEF cacheNodeNew
    <2> QED BY <1>3, <2>1 DEF cacheVars, treeVars, heapVars, IInv, Types
<1>5. CASE Top.nc # NULL /\ rv = NULL /\ ReallocFails(Top.nc)
    <2>1. failed' \in 0 .. MaxFailures
        BY <1>5, Sizes DEF ReallocFails, AllocFails, IInv, Types
    <2> QED BY <1>3, <1>5, <2>1 DEF ReallocFails, treeVars, IInv, Types
<1>6. CASE /\ Top.nc # NULL /\ (IsFull(Top.nc) => NewSize(Top.nc) > 0)
           /\ StoreFaults(Top.nc) /\ StoreAstray(rv)
    <2>1. Top.nc \in Cells /\ Top.nc \in live
        BY <1>2, <1>6, Sizes DEF Cells, NULL
    <2>2. HasNoArray(Top.nc) \/ HasArray(Top.nc)
        BY <2>1 DEF IInv, ArraysOK
    <2>3. ~HasArray(Top.nc)
        BY <2>1, <2>2, <1>6, StoreInArray
    <2>4. node[Top.nc] = NoArray /\ max_nodes[Top.nc] > 0
        BY <2>1, <2>2, <2>3, <1>6, StoreInNewBlock
    <2> QED BY <1>3, <1>6, <2>1, <2>4
            DEF StoreAstray, treeVars, heapVars, IInv, Types
<1>7. CASE /\ Top.nc # NULL /\ (IsFull(Top.nc) => NewSize(Top.nc) > 0)
           /\ ~StoreFaults(Top.nc) /\ StoreNode(Top.nc, rv)
    <2>1. Top.nc \in 1 .. used
        BY <1>2, <1>7 DEF NULL
    <2>2. /\ Types' /\ ArraysOK' /\ Down' /\ Unshared'
          /\ UNCHANGED <<frames, fault>>
          /\ live' = 1 .. used' /\ rv <= used' /\ used <= used' /\ used' \in Nat
          /\ used > 0
        BY <1>7, <2>1, StoreOK
    <2>3. levels' \in Seq([nc : 0 .. used', nnc : 0 .. used']) /\ levels' # <<>>
        BY <1>1, <2>2, LevelsNew
    <2>4. PhaseOK'
        BY <1>2, <2>2, <2>3 DEF IInv, PhaseOK
    <2>5. FramesOK'
        BY <1>2, <2>2, FramesIdle
    <2> QED BY <2>2, <2>4, <2>5 DEF IInv
<1> QED BY <1>1, <1>4, <1>5, <1>6, <1>7 DEF cacheNodeNew

-----------------------------------------------------------------------------
(* cacheFree. *)

\* The first frame: nothing is pending but what hangs below the root.
LEMMA FreeCallStep == IInv /\ Free => IInv'
<1> SUFFICES ASSUME IInv, Free PROVE IInv'
    OBVIOUS
<1>1. /\ UNCHANGED <<used, live, failed, parent, node, max_nodes, no_nodes,
                     payload, fault, root>>
      /\ frames' = IF root = NULL THEN frames ELSE Append(frames, [cell |-> root, i |-> 0])
      /\ levels' = <<>> /\ phase' = "freeing" /\ ~fault
    BY DEF Free, FreeCall, heapVars, treeVars
<1>2. /\ frames = <<>> /\ live = 1 .. used /\ used \in 0 .. MaxCells
      /\ root = IF used = 0 THEN NULL ELSE 1
    BY DEF Free, IInv, PhaseOK, Types
<1>3. Types'
    BY <1>1 DEF IInv, Types
<1>4. ArraysOK' /\ Down' /\ Unshared'
    BY <1>1, TreeKept DEF IInv
<1>5. PhaseOK'
    BY <1>1 DEF IInv, PhaseOK
<1>6. FramesOK'
    <2>1. \A n \in Cells : \A j \in Slot(n) : node[n][j] \in live /\ node[n][j] # 1
        BY <1>2, Sizes DEF IInv, Down, Cells
    <2>2. CASE root = NULL
        BY <2>1, <2>2, <1>1, <1>2 DEF FramesOK, Pending, OnStack, Slot
    <2>3. CASE root # NULL
        <3>1. root = 1 /\ 1 \in live /\ 1 \in Cells
            BY <2>3, <1>2, Sizes DEF NULL, Cells
        <3>2. frames' = <<[cell |-> 1, i |-> 0]>>
            BY <3>1, <2>3, <1>1, <1>2
        <3>3. frames' \in Seq([cell : Cells, i : Nat])
            BY <3>1, <3>2
        <3>4. /\ DOMAIN frames' = {1} /\ frames'[1].cell = 1
            BY <3>2
        <3>5. \A n \in Cells : \A j \in Slot(n)' : Pending(node[n][j])'
            BY <2>1, <3>4, <1>1 DEF Pending, OnStack, Slot
        <3> QED BY <3>1, <3>3, <3>4, <3>5, <1>1 DEF FramesOK
    <2> QED BY <2>2, <2>3
<1> QED BY <1>3, <1>4, <1>5, <1>6 DEF IInv

\* The frame on top: its cell is live, and the slot it goes on with is there.
LEMMA TopFrame ==
    ASSUME IInv, frames # <<>>
    PROVE  /\ Len(frames) \in Nat \ {0} /\ DOMAIN frames = 1 .. Len(frames)
           /\ TopCell \in Cells /\ TopCell \in live /\ TopIndex \in Nat
           /\ \A k \in DOMAIN frames : frames[k] \in [cell : Cells, i : Nat]
           /\ MoreChildren => TopIndex \in Slot(TopCell)
           /\ phase = "freeing"
<1>1. frames \in Seq([cell : Cells, i : Nat])
    BY DEF IInv, FramesOK
<1>2. PICK n \in Nat \ {0} : n = Len(frames)
    BY <1>1, EmptySeq
<1>3. DOMAIN frames = 1 .. n /\ n \in 1 .. n
    BY <1>1, <1>2, LenProperties
<1>4. \A k \in 1 .. n : frames[k] \in [cell : Cells, i : Nat]
    BY <1>1, <1>2, ElementOfSeq
<1>5. TopCell \in Cells /\ TopIndex \in Nat
    BY <1>2, <1>3, <1>4 DEF TopCell, TopIndex
<1>6. TopCell \in live
    BY <1>2, <1>3 DEF TopCell, IInv, FramesOK
<1>7. MoreChildren => TopIndex \in Slot(TopCell)
    BY <1>5 DEF MoreChildren, Slot, IInv, Types
<1> QED BY <1>2, <1>3, <1>4, <1>5, <1>6, <1>7 DEF IInv, PhaseOK

\* cacheFree never reads outside of an array.
LEMMA SlotInArray ==
    ASSUME IInv, NEW n \in Cells, NEW j \in Slot(n)
    PROVE  j \in DOMAIN node[n]
<1>1. HasNoArray(n) \/ HasArray(n)
    BY DEF IInv, ArraysOK
<1>2. CASE HasNoArray(n)
    BY <1>2 DEF HasNoArray, Slot
<1>3. CASE HasArray(n)
    <2>1. PICK k \in 1 .. Half :
              /\ node[n] \in [0 .. k * Block - 1 -> CellOrNull]
              /\ Grows(n, k * Block) \/ Wrapped(n, k * Block)
        BY <1>3 DEF HasArray
    <2>2. k * Block \in Nat
        BY Sizes
    <2> QED BY <2>1, <2>2, Sizes DEF Grows, Wrapped, Slot
<1> QED BY <1>1, <1>2, <1>3

\* What a step of cacheFree into a child does to the frames.
LEMMA FreeChildFrames ==
    ASSUME IInv, FreeChild,
           NEW n, n = Len(frames),
           NEW child, child = node[TopCell][TopIndex]
    PROVE  /\ n \in Nat \ {0} /\ DOMAIN frames = 1 .. n
           /\ TopCell \in Cells /\ TopCell \in live /\ TopIndex \in Slot(TopCell)
           /\ TopIndex \in Nat
           /\ frames[n].cell = TopCell /\ frames[n].i = TopIndex
           /\ phase = "freeing" /\ frames # <<>>
           /\ child \in Cells /\ Pending(child)
           /\ UNCHANGED <<used, live, failed, parent, node, max_nodes, no_nodes,
                           payload, fault>>
           /\ frames' \in Seq([cell : Cells, i : Nat])
           /\ DOMAIN frames' = 1 .. n + 1 /\ frames' # <<>>
           /\ \A k \in 1 .. n : frames'[k].cell = frames[k].cell
           /\ \A k \in 1 .. n - 1 : frames'[k] = frames[k]
           /\ frames'[n].i = TopIndex + 1
           /\ frames'[n + 1] = [cell |-> child, i |-> 0]
<1>1. /\ n \in Nat \ {0} /\ DOMAIN frames = 1 .. n
      /\ TopCell \in Cells /\ TopCell \in live /\ TopIndex \in Nat
      /\ TopIndex \in Slot(TopCell)
      /\ phase = "freeing" /\ frames # <<>>
    BY TopFrame DEF FreeChild
<1>2. frames[n].cell = TopCell /\ frames[n].i = TopIndex /\ n \in 1 .. n
    BY <1>1 DEF TopCell, TopIndex
<1>3. child \in Cells /\ child # NULL /\ Pending(child)
    <2>1. child \in TopCell + 1 .. used
        BY <1>1 DEF IInv, Down
    <2>2. Pending(child)
        <3>1. n \in DOMAIN frames
            BY <1>1
        <3>2. \A j \in Slot(frames[n].cell) :
                 j >= frames[n].i => Pending(node[frames[n].cell][j])
            BY <3>1 DEF IInv, FramesOK
        <3>3. TopIndex >= frames[n].i
            BY <1>1, <1>2
        <3>4. Pending(node[frames[n].cell][TopIndex])
            BY <1>1, <1>2, <3>2, <3>3
        <3> QED BY <1>2, <3>4
    <2>3. used \in 0 .. MaxCells /\ TopCell \in 1 .. MaxCells /\ MaxCells \in Nat
        BY <1>1, Sizes DEF Cells, IInv, Types
    <2>4. child \in 1 .. MaxCells /\ child # 0
        BY <2>1, <2>3
    <2> QED BY <2>2, <2>4 DEF Cells, NULL
<1>4. TopIndex \in DOMAIN node[TopCell]
    BY <1>1, SlotInArray
<1>5. /\ frames' = Append(Caller, [cell |-> child, i |-> 0])
      /\ UNCHANGED <<used, live, failed, parent, node, max_nodes, no_nodes,
                     payload, fault>>
    BY <1>1, <1>3, <1>4 DEF FreeChild, heapVars, treeVars
<1>6. Caller \in Seq([cell : Cells, i : Nat]) /\ Len(Caller) = n
      /\ \A k \in 1 .. n : Caller[k] = IF k = n THEN [cell |-> TopCell, i |-> TopIndex + 1]
                                        ELSE frames[k]
    <2>1. frames \in Seq([cell : Cells, i : Nat])
        BY DEF IInv, FramesOK
    <2>2. [cell |-> TopCell, i |-> TopIndex + 1] \in [cell : Cells, i : Nat]
        BY <1>1
    <2> QED BY <1>2, <2>1, <2>2, ExceptSeq DEF Caller
<1>7. frames' \in Seq([cell : Cells, i : Nat]) /\ Len(frames') = n + 1
      /\ \A k \in 1 .. n : frames'[k] = Caller[k]
      /\ frames'[n + 1] = [cell |-> child, i |-> 0]
    BY <1>1, <1>3, <1>5, <1>6
<1>8. DOMAIN frames' = 1 .. n + 1 /\ frames' # <<>>
    BY <1>1, <1>7, LenProperties, EmptySeq
<1>9. /\ \A k \in 1 .. n : frames'[k].cell = frames[k].cell
      /\ \A k \in 1 .. n - 1 : frames'[k] = frames[k]
      /\ frames'[n].i = TopIndex + 1
    <2>1. \A k \in 1 .. n - 1 : k \in 1 .. n /\ k # n
        BY <1>1
    <2>2. \A k \in 1 .. n : frames'[k] = IF k = n THEN [cell |-> TopCell, i |-> TopIndex + 1]
                                         ELSE frames[k]
        BY <1>6, <1>7
    <2> QED BY <1>2, <2>1, <2>2
<1> QED BY <1>1, <1>2, <1>3, <1>5, <1>7, <1>8, <1>9

LEMMA FreeChildStep ==
    ASSUME IInv, FreeChild, UNCHANGED <<phase, root, levels>>
    PROVE  IInv'
<1>1. PICK n : n = Len(frames)
    OBVIOUS
<1>2. PICK child : child = node[TopCell][TopIndex]
    OBVIOUS
<1>3. /\ n \in Nat \ {0} /\ DOMAIN frames = 1 .. n
      /\ TopCell \in Cells /\ TopCell \in live /\ TopIndex \in Slot(TopCell)
      /\ TopIndex \in Nat
      /\ frames[n].cell = TopCell /\ frames[n].i = TopIndex
      /\ phase = "freeing" /\ frames # <<>>
      /\ child \in Cells /\ Pending(child)
    BY <1>1, <1>2, FreeChildFrames
<1>4. UNCHANGED <<used, live, failed, parent, node, max_nodes, no_nodes,
                  payload, fault>>
    BY <1>1, <1>2, FreeChildFrames
<1>5. Types'
    BY <1>4 DEF IInv, Types
<1>6. ArraysOK' /\ Down' /\ Unshared'
    BY <1>4, TreeKept DEF IInv
<1>7. PhaseOK'
    BY <1>3, <1>4 DEF IInv, PhaseOK
<1>8. /\ frames' \in Seq([cell : Cells, i : Nat])
      /\ DOMAIN frames' = 1 .. n + 1
      /\ \A k \in 1 .. n : frames'[k].cell = frames[k].cell
      /\ \A k \in 1 .. n - 1 : frames'[k] = frames[k]
      /\ frames'[n].i = TopIndex + 1
      /\ frames'[n + 1] = [cell |-> child, i |-> 0]
    BY <1>1, <1>2, FreeChildFrames
<1>9. /\ frames[n].cell = TopCell /\ frames[n].i = TopIndex /\ n \in 1 .. n
      /\ \A k \in 1 .. n : frames[k].cell \in live /\ frames[k].cell \in Cells
      /\ \A k, m \in 1 .. n : frames[k].cell = frames[m].cell => k = m
      /\ \A k \in 1 .. n : \A j \in Slot(frames[k].cell) :
            j >= frames[k].i => Pending(node[frames[k].cell][j])
      /\ \A p \in Cells : Pending(p) => \A j \in Slot(p) : Pending(node[p][j])
    <2>1. frames[n].cell = TopCell /\ frames[n].i = TopIndex /\ n \in 1 .. n
        BY <1>3
    <2>2. \A k \in 1 .. n : frames[k].cell \in live /\ frames[k].cell \in Cells
        <3>1. live \subseteq Cells
            BY Sizes DEF IInv, Types, Cells
        <3> QED BY <3>1, <1>3 DEF IInv, FramesOK
    <2>3. DOMAIN frames = 1 .. n /\ phase = "freeing"
        BY <1>3
    <2> QED BY <2>1, <2>2, <2>3 DEF IInv, FramesOK
<1>10. \A k \in 1 .. n : frames[k].cell # child
    <2>1. DOMAIN frames = 1 .. n /\ ~OnStack(child)
        BY <1>3 DEF Pending
    <2> QED BY <2>1 DEF OnStack
\* Only the slot cacheFree has just left holds the child.
<1>11. \A p \in Cells : \A j \in Slot(p) :
          (p = TopCell => j # TopIndex) => node[p][j] # child
    BY <1>2, <1>3 DEF IInv, Unshared
<1>12. \A d : Pending(d) /\ d # child =>
          d \in live /\ \A k \in 1 .. n + 1 : frames'[k].cell # d
    <2>1. SUFFICES ASSUME NEW d, Pending(d), d # child
                   PROVE  d \in live /\ \A k \in 1 .. n + 1 : frames'[k].cell # d
        OBVIOUS
    <2>2. d \in live /\ \A m \in 1 .. n : frames[m].cell # d
        <3>1. DOMAIN frames = 1 .. n
            BY <1>3
        <3> QED BY <2>1, <3>1 DEF Pending, OnStack
    <2>3. \A k \in 1 .. n + 1 : k \in 1 .. n \/ k = n + 1
        BY <1>3
    <2>4. frames'[n + 1].cell = child
        BY <1>8
    <2> QED BY <2>1, <2>2, <2>3, <2>4, <1>8
<1>13. FramesOK'
    <2>1. \A k \in 1 .. n + 1 : frames'[k].cell \in live
        BY <1>3, <1>8, <1>9 DEF Pending
    <2>2. \A k, m \in 1 .. n + 1 : frames'[k].cell = frames'[m].cell => k = m
        BY <1>3, <1>8, <1>9, <1>10
    <2>3. ASSUME NEW k \in 1 .. n + 1, NEW c, c = frames'[k].cell,
                 NEW j \in Slot(c), j >= frames'[k].i
          PROVE  Pending(node[c][j]) /\ node[c][j] # child
        <3>0. j \in Int
            BY <2>3 DEF Slot
        <3>1. CASE k = n + 1
            <4>1. c = child /\ c # TopCell
                BY <3>1, <2>3, <1>3, <1>8, <1>9, <1>10
            <4> QED BY <4>1, <2>3, <1>3, <1>9, <1>11
        <3>2. CASE k = n
            <4>1. c = TopCell /\ j >= TopIndex + 1
                BY <3>2, <2>3, <1>8, <1>9
            <4>2. j >= TopIndex /\ j # TopIndex
                BY <4>1, <3>0, <1>3
            <4> QED BY <4>1, <4>2, <2>3, <1>3, <1>9, <1>11
        <3>3. CASE k \in 1 .. n - 1
            <4>1. k \in 1 .. n /\ k # n
                BY <3>3, <1>3
            <4>2. c = frames[k].cell /\ c \in Cells /\ j >= frames[k].i
                BY <3>3, <4>1, <2>3, <1>8, <1>9
            <4>3. c # TopCell
                BY <4>1, <4>2, <1>9
            <4> QED BY <4>1, <4>2, <4>3, <2>3, <1>9, <1>11
        <3> QED BY <3>1, <3>2, <3>3, <1>3
    <2>4. ASSUME NEW p \in Cells, Pending(p), NEW j \in Slot(p)
          PROVE  Pending(node[p][j]) /\ node[p][j] # child
        <3>1. p # TopCell
            BY <2>4, <1>3, <1>9 DEF Pending, OnStack
        <3> QED BY <2>4, <3>1, <1>9, <1>11
    <2>5. \A p \in Cells : Pending(p)' => Pending(p)
        BY <1>3, <1>4, <1>8 DEF Pending, OnStack
    <2>6. \A k \in 1 .. n + 1 : \A j \in Slot(frames[k].cell)' :
              j >= frames'[k].i => Pending(node[frames[k].cell][j])'
        <3>1. \A k \in 1 .. n + 1 : \A j \in Slot(frames[k].cell)' :
                  j \in 0 .. no_nodes[frames'[k].cell] - 1
            BY <1>4 DEF Slot
        <3>2. \A k \in 1 .. n + 1 : \A j \in 0 .. no_nodes[frames'[k].cell] - 1 :
                  j >= frames'[k].i =>
                     LET d == node[frames'[k].cell][j] IN
                     d \in live /\ \A m \in 1 .. n + 1 : frames'[m].cell # d
            BY <2>3, <1>12 DEF Slot
        <3>3. SUFFICES ASSUME NEW k \in 1 .. n + 1, NEW j \in Slot(frames[k].cell)',
                              j >= frames'[k].i
                       PROVE  Pending(node[frames[k].cell][j])'
            OBVIOUS
        <3>4. j \in 0 .. no_nodes[frames'[k].cell] - 1
            BY <3>1, <3>3
        <3>5. /\ node[frames'[k].cell][j] \in live
              /\ \A m \in DOMAIN frames' : frames'[m].cell # node[frames'[k].cell][j]
            <4>1. DOMAIN frames' = 1 .. n + 1
                BY <1>8
            <4> QED BY <3>2, <3>3, <3>4, <4>1
        <3> QED BY <3>5, <1>4 DEF Pending, OnStack
    <2>7. \A p \in Cells : Pending(p)' => \A j \in Slot(p)' : Pending(node[p][j])'
        <3>1. \A p \in Cells : Pending(p) => \A j \in 0 .. no_nodes[p] - 1 :
                  LET d == node[p][j] IN
                  d \in live /\ \A m \in 1 .. n + 1 : frames'[m].cell # d
            BY <2>4, <1>12 DEF Slot
        <3>2. \A p \in Cells : Slot(p)' = 0 .. no_nodes[p] - 1
            BY <1>4 DEF Slot
        <3>3. SUFFICES ASSUME NEW p \in Cells, Pending(p)', NEW j \in Slot(p)'
                       PROVE  Pending(node[p][j])'
            OBVIOUS
        <3>4. /\ node[p][j] \in live
              /\ \A m \in DOMAIN frames' : frames'[m].cell # node[p][j]
            <4>1. DOMAIN frames' = 1 .. n + 1
                BY <1>8
            <4> QED BY <2>5, <3>1, <3>2, <3>3, <4>1
        <3> QED BY <3>4, <1>4 DEF Pending, OnStack
    <2> QED BY <1>4, <1>8, <2>1, <2>2, <2>6, <2>7 DEF FramesOK
<1> QED BY <1>5, <1>6, <1>7, <1>13 DEF IInv

LEMMA FreeSelfStep ==
    ASSUME IInv, FreeSelf, UNCHANGED <<phase, root, levels>>
    PROVE  IInv'
<1> DEFINE n == Len(frames)
<1>1. /\ n \in Nat \ {0} /\ DOMAIN frames = 1 .. n
      /\ TopCell \in Cells /\ TopCell \in live /\ TopIndex \in Nat
      /\ \A k \in DOMAIN frames : frames[k] \in [cell : Cells, i : Nat]
      /\ phase = "freeing" /\ frames # <<>>
    BY TopFrame DEF FreeSelf
<1>2. /\ live' = live \ {TopCell}
      /\ frames' = SubSeq(frames, 1, n - 1)
      /\ UNCHANGED <<used, failed, parent, node, max_nodes, no_nodes, payload, fault>>
    BY DEF FreeSelf, treeVars
<1>3. Types'
    BY <1>2 DEF IInv, Types
<1>4. ArraysOK' /\ Down' /\ Unshared'
    BY <1>2, TreeKept DEF IInv
<1>5. PhaseOK'
    BY <1>1, <1>2 DEF IInv, PhaseOK
<1>6. /\ frames' \in Seq([cell : Cells, i : Nat])
      /\ DOMAIN frames' = 1 .. n - 1
      /\ \A k \in 1 .. n - 1 : frames'[k] = frames[k]
    <2>1. frames \in Seq([cell : Cells, i : Nat])
        BY DEF IInv, FramesOK
    <2>2. /\ frames' \in Seq([cell : Cells, i : Nat])
          /\ Len(frames') = n - 1
          /\ \A k \in 1 .. n - 1 : frames'[k] = frames[k]
        BY <1>1, <1>2, <2>1, FrontOK
    <2> QED BY <2>2, LenProperties
<1> HIDE DEF n
<1>7. frames[n].cell = TopCell /\ n \in DOMAIN frames
    BY <1>1 DEF TopCell, n
<1>8. \A k \in 1 .. n - 1 : frames[k].cell # TopCell /\ k \in DOMAIN frames
    BY <1>1, <1>7 DEF IInv, FramesOK
<1>9. /\ \A k \in 1 .. n - 1 : frames[k].cell \in live /\ frames[k].cell \in Cells
      /\ \A k, m \in 1 .. n - 1 : frames[k].cell = frames[m].cell => k = m
      /\ \A k \in 1 .. n - 1 : \A j \in Slot(frames[k].cell) :
            j >= frames[k].i => Pending(node[frames[k].cell][j])
      /\ \A p \in Cells : Pending(p) => \A j \in Slot(p) : Pending(node[p][j])
    BY <1>1, <1>8 DEF IInv, FramesOK
<1>10. \A d : Pending(d) =>
          d \in live \ {TopCell} /\ \A k \in 1 .. n - 1 : frames'[k].cell # d
    BY <1>6, <1>7, <1>8 DEF Pending, OnStack
<1>11. \A p \in Cells : Pending(p)' => Pending(p)
    <2>1. \A k \in 1 .. n : k \in 1 .. n - 1 \/ k = n
        BY <1>1
    <2> QED BY <2>1, <1>1, <1>2, <1>6, <1>7 DEF Pending, OnStack
<1>12. FramesOK'
    <2>1. \A k \in 1 .. n - 1 : frames'[k].cell \in live'
        BY <1>2, <1>6, <1>8, <1>9
    <2>2. \A k, m \in 1 .. n - 1 : frames'[k].cell = frames'[m].cell => k = m
        BY <1>6, <1>9
    <2>3. \A k \in 1 .. n - 1 : \A j \in Slot(frames[k].cell)' :
              j >= frames'[k].i => Pending(node[frames[k].cell][j])'
        <3>1. \A k \in 1 .. n - 1 : \A j \in 0 .. no_nodes[frames[k].cell] - 1 :
                  j >= frames[k].i =>
                     LET d == node[frames[k].cell][j] IN
                     d \in live' /\ \A m \in 1 .. n - 1 : frames'[m].cell # d
            BY <1>2, <1>9, <1>10 DEF Slot
        <3>2. \A k \in 1 .. n - 1 :
                  Slot(frames[k].cell)' = 0 .. no_nodes[frames[k].cell] - 1
            BY <1>2, <1>6 DEF Slot
        <3>3. SUFFICES ASSUME NEW k \in 1 .. n - 1, NEW j \in Slot(frames[k].cell)',
                              j >= frames'[k].i
                       PROVE  Pending(node[frames[k].cell][j])'
            OBVIOUS
        <3>4. /\ node[frames[k].cell][j] \in live'
              /\ \A m \in DOMAIN frames' : frames'[m].cell # node[frames[k].cell][j]
              /\ frames'[k] = frames[k]
            BY <3>1, <3>2, <3>3, <1>6
        <3> QED BY <3>4, <1>2 DEF Pending, OnStack
    <2>4. \A p \in Cells : Pending(p)' => \A j \in Slot(p)' : Pending(node[p][j])'
        <3>1. \A p \in Cells : Pending(p) => \A j \in 0 .. no_nodes[p] - 1 :
                  LET d == node[p][j] IN
                  d \in live' /\ \A m \in 1 .. n - 1 : frames'[m].cell # d
            BY <1>2, <1>9, <1>10 DEF Slot
        <3>2. \A p \in Cells : Slot(p)' = 0 .. no_nodes[p] - 1
            BY <1>2 DEF Slot
        <3> QED BY <1>11, <3>1, <3>2, <1>2, <1>6 DEF Pending, OnStack
    <2> QED BY <1>6, <2>1, <2>2, <2>3, <2>4 DEF FramesOK
<1> QED BY <1>3, <1>4, <1>5, <1>12 DEF IInv

LEMMA ClosedStep == IInv /\ Closed => IInv'
<1> SUFFICES ASSUME IInv, Closed PROVE IInv'
    OBVIOUS
<1>1. /\ UNCHANGED <<used, live, failed, parent, node, max_nodes, no_nodes,
                     payload, frames, fault, root, levels>>
      /\ phase = "freeing" /\ phase' = "closed" /\ frames = <<>>
    BY DEF Closed, cacheVars, treeVars, heapVars
<1>2. Types'
    BY <1>1 DEF IInv, Types
<1>3. ArraysOK' /\ Down' /\ Unshared'
    BY <1>1, TreeKept DEF IInv
<1>4. PhaseOK'
    BY <1>1 DEF IInv, PhaseOK
<1>5. FramesOK'
    BY <1>1, FramesIdle
<1> QED BY <1>2, <1>3, <1>4, <1>5 DEF IInv

LEMMA StutterStep == IInv /\ UNCHANGED vars => IInv'
<1> SUFFICES ASSUME IInv, UNCHANGED vars PROVE IInv'
    OBVIOUS
<1> USE DEF vars, cacheVars, treeVars, heapVars
<1>1. Types'
    BY DEF IInv, Types
<1>2. ArraysOK' /\ Down' /\ Unshared'
    BY TreeKept DEF IInv
<1>3. PhaseOK'
    BY DEF IInv, PhaseOK, Pristine
<1>4. FramesOK'
    BY DEF IInv, FramesOK, Pending, OnStack, Slot
<1> QED BY <1>1, <1>2, <1>3, <1>4 DEF IInv

-----------------------------------------------------------------------------
(* The theorems. *)

LEMMA Step == IInv /\ [Next]_vars => IInv'
<1> SUFFICES ASSUME IInv, [Next]_vars PROVE IInv'
    OBVIOUS
<1>1. CASE Open
    BY <1>1, OpenStep
<1>2. CASE Start
    BY <1>2, StartStep
<1>3. CASE EmptyText
    BY <1>3, EmptyTextStep
<1>4. CASE NewNode
    BY <1>4, NewNodeStep
<1>5. CASE SetData
    BY <1>5, SetDataStep
<1>6. CASE Descend
    BY <1>6, DescendStep
<1>7. CASE Return
    BY <1>7, ReturnStep
<1>8. CASE Free
    BY <1>8, FreeCallStep
<1>9. CASE FreeStep
    BY <1>9, FreeChildStep, FreeSelfStep DEF FreeStep
<1>10. CASE Closed
    BY <1>10, ClosedStep
<1>11. CASE Stopped \/ UNCHANGED vars
    BY <1>11, StutterStep DEF Stopped
<1> QED BY <1>1, <1>2, <1>3, <1>4, <1>5, <1>6, <1>7, <1>8, <1>9, <1>10, <1>11 DEF Next

LEMMA Invariance == Spec => []IInv
<1> QED BY InitOK, Step, PTL DEF Spec

LEMMA ImpliesTypes == IInv => TypeOK
<1> SUFFICES ASSUME IInv PROVE TypeOK
    OBVIOUS
<1>1. root \in CellOrNull
    BY Sizes DEF IInv, PhaseOK, CellOrNull, Cells, NULL
<1>2. ASSUME NEW n \in Cells
      PROVE  /\ \E k \in 0 .. Half : /\ k * Block <= Half
                                    /\ node[n] \in [0 .. k * Block - 1 -> CellOrNull]
             /\ max_nodes[n] \in -Half .. Half - 1
             /\ no_nodes[n] \in -Half .. Half - 1
    <2>1. CASE HasNoArray(n)
        <3>1. 0 * Block = 0 /\ 0 .. 0 * Block - 1 = {} /\ 0 \in 0 .. Half
            BY Sizes
        <3>2. node[n] \in [0 .. 0 * Block - 1 -> CellOrNull]
            BY <2>1, <3>1 DEF HasNoArray, NoArray
        <3>3. max_nodes[n] \in -Half .. Half - 1 /\ no_nodes[n] \in -Half .. Half - 1
            BY <2>1, Sizes DEF HasNoArray
        <3> QED BY <3>1, <3>2, <3>3, Sizes
    <2>2. CASE HasArray(n)
        <3>1. PICK k \in 1 .. Half :
                  /\ node[n] \in [0 .. k * Block - 1 -> CellOrNull]
                  /\ Grows(n, k * Block) \/ Wrapped(n, k * Block)
            BY <2>2 DEF HasArray
        <3>2. k * Block \in Nat
            BY Sizes
        <3>3. /\ k * Block <= Half
              /\ max_nodes[n] \in -Half .. Half - 1
              /\ no_nodes[n] \in -Half .. Half - 1
            BY <3>1, <3>2, Sizes DEF Grows, Wrapped
        <3> QED BY <3>1, <3>3
    <2> QED BY <2>1, <2>2 DEF IInv, ArraysOK
<1>3. /\ max_nodes \in [Cells -> -Half .. Half - 1]
      /\ no_nodes \in [Cells -> -Half .. Half - 1]
    BY <1>2 DEF IInv, Types
<1> QED BY <1>1, <1>2, <1>3 DEF IInv, Types, TypeOK

\* The arrays keep whole blocks of at most Half slots and the counters of
\* struct _xml_node stay in the range of a short int, however many children a
\* node gets and whichever allocations fail.
THEOREM TypeCorrect == Spec => []TypeOK
<1> QED BY Invariance, ImpliesTypes, PTL

\* cacheInitLevel, cacheNodeNew and cacheFree reach memory through a bad
\* pointer in one case only: a node is added below a cell whose first block
\* could not be allocated.  No growth of an array and no wrapped counter leads
\* to one, and cacheFree never touches a cell it has freed.
THEOREM FaultsTraced == Spec => []FaultIsFailedLevel
<1>1. IInv => FaultIsFailedLevel
    BY DEF IInv, PhaseOK, FaultIsFailedLevel
<1> QED BY <1>1, Invariance, PTL

-----------------------------------------------------------------------------
(* A document that is not too large. *)

\* There are no more cells than a short int counts.
Countable == MaxCells <= Half

-----------------------------------------------------------------------------
(* The inductive invariant of a document that is not too large. *)

\* A cell has fewer children than there are cells.
NoWrap == \A n \in Cells : 0 <= no_nodes[n] /\ (n <= used => no_nodes[n] < used)

\* No cell gets lost.
Linked == \A c \in 2 .. used : \E p \in Cells : \E i \in Slot(p) : node[p][i] = c

\* cacheFree has still to come to a live cell that is on no frame.
ToVisit(c) ==
    \E p \in live : \E i \in Slot(p) :
        /\ node[p][i] = c
        /\ \A k \in DOMAIN frames : frames[k].cell = p => i >= frames[k].i

RootFirst == root \in live => frames # <<>> /\ frames[1].cell = root

Reached ==
    phase = "freeing" =>
        /\ RootFirst
        /\ \A c \in Cells \ {root} : Pending(c) => ToVisit(c)

LInv == Countable /\ IInv /\ NoWrap /\ Linked /\ Reached /\ AllFreed

-----------------------------------------------------------------------------
(* The steps. *)

LEMMA LInitOK == Countable /\ Init => LInv
<1> SUFFICES ASSUME Countable, Init PROVE LInv
    OBVIOUS
<1>1. IInv
    BY InitOK
<1>2. NoWrap /\ Linked /\ Reached /\ AllFreed
    BY Sizes DEF Init, CacheInit, NoWrap, Linked, Reached, AllFreed, Slot, Cells
<1> QED BY <1>1, <1>2 DEF LInv

\* Steps that add no cell and free none.
LEMMA QuietStep ==
    ASSUME LInv, phase' # "freeing", phase' # "closed",
           UNCHANGED <<used, no_nodes>>,
           \A n \in Cells : \A i \in Slot(n) : node'[n][i] = node[n][i]
    PROVE  NoWrap' /\ Linked' /\ Reached' /\ AllFreed'
<1>1. NoWrap'
    BY DEF LInv, NoWrap
<1>2. Linked'
    BY DEF LInv, Linked, Slot
<1> QED BY <1>1, <1>2 DEF Reached, AllFreed

\* The first cell: nothing is linked, nothing is counted.
LEMMA OpenLinks == LInv /\ Open => NoWrap' /\ Linked' /\ Reached' /\ AllFreed'
<1> SUFFICES ASSUME LInv, Open PROVE NoWrap' /\ Linked' /\ Reached' /\ AllFreed'
    OBVIOUS
<1>1. PICK rv \in CellOrNull : cacheInit(rv) /\ root' = rv
    BY DEF Open
<1>2. used = 0 /\ UNCHANGED <<no_nodes, node>> /\ \A n \in Cells : no_nodes[n] = 0
    BY <1>1 DEF LInv, IInv, PhaseOK, Pristine, Open, cacheInit, treeVars
<1>3. used' \in {0, 1}
    BY <1>1, <1>2 DEF cacheInit, CellNew
<1>4. NoWrap'
    BY <1>2, <1>3 DEF NoWrap, Cells
<1>5. Linked'
    BY <1>3 DEF Linked
<1> QED BY <1>4, <1>5 DEF Open, Reached, AllFreed

\* cacheInitLevel leaves the children alone.
LEMMA InitLevelLinks ==
    ASSUME LInv, NEW nc \in 0 .. used, cacheInitLevel(nc),
           nc # NULL => max_nodes[nc] = 0
    PROVE  /\ UNCHANGED <<used, no_nodes>>
           /\ \A n \in Cells : \A i \in Slot(n) : node'[n][i] = node[n][i]
<1>1. UNCHANGED <<used, no_nodes>>
    BY InitLevelOK DEF LInv
<1>2. CASE nc = NULL
    BY <1>1, <1>2 DEF cacheInitLevel, cacheVars, treeVars
<1>3. CASE nc # NULL
    <2>1. nc \in Cells
        BY <1>3, Sizes DEF LInv, IInv, Types, NULL, Cells
    <2>2. \A n \in Cells \ {nc} : node'[n] = node[n]
        BY <1>3, <2>1 DEF cacheInitLevel, LInv, IInv, Types
    \* An array would make max_nodes differ from zero.
    <2>3. Slot(nc) = {}
        <3>1. HasNoArray(nc) \/ HasArray(nc)
            BY <2>1 DEF LInv, IInv, ArraysOK
        <3>2. ~HasArray(nc)
            <4>1. ASSUME NEW k \in 1 .. Half,
                         Grows(nc, k * Block) \/ Wrapped(nc, k * Block)
                  PROVE  FALSE
                <5>1. k * Block >= 1
                    BY Sizes
                <5> QED BY <5>1, <4>1, <1>3, Sizes DEF Grows, Wrapped
            <4> QED BY <4>1 DEF HasArray
        <3> QED BY <3>1, <3>2 DEF HasNoArray, Slot
    <2> QED BY <1>1, <2>2, <2>3
<1> QED BY <1>2, <1>3

\* cacheNodeNew: the new cell is in the slot behind the last child.
LEMMA NewNodeLinks == LInv /\ NewNode => NoWrap' /\ Linked' /\ Reached' /\ AllFreed'
<1> SUFFICES ASSUME LInv, NewNode PROVE NoWrap' /\ Linked' /\ Reached' /\ AllFreed'
    OBVIOUS
<1>0. PICK nc : nc = Top.nc
    OBVIOUS
<1>1. PICK rv \in CellOrNull : cacheNodeNew(nc, rv)
    BY <1>0 DEF NewNode
<1>2. /\ phase = "scanning" /\ phase' = phase /\ ~fault
      /\ nc \in 0 .. used /\ used \in 0 .. MaxCells
    BY <1>0, TopOK DEF NewNode, Scanning, LInv, IInv, Types
<1>3. CASE UNCHANGED <<used, no_nodes, node>>
    BY <1>2, <1>3, QuietStep
<1>4. CASE /\ nc # NULL /\ (IsFull(nc) => NewSize(nc) > 0)
           /\ ~StoreFaults(nc) /\ StoreNode(nc, rv)
    <2>1. nc \in Cells /\ nc \in 1 .. used /\ MaxCells <= Half
        BY <1>2, <1>4, Sizes DEF NULL, Cells, LInv, Countable
    <2>2. /\ no_nodes' \in [Cells -> Int]
          /\ \A n \in Cells \ {nc} : /\ node'[n] = node[n]
                                     /\ no_nodes'[n] = no_nodes[n]
          /\ \A i \in Slot(nc) : node'[nc][i] = node[nc][i]
          /\ node'[nc][no_nodes[nc]] = rv
          /\ rv = NULL => no_nodes'[nc] = no_nodes[nc]
          /\ rv # NULL /\ no_nodes[nc] + 1 < Half => no_nodes'[nc] = no_nodes[nc] + 1
        BY <1>4, <2>1, NodeNewArray DEF LInv, IInv
    <2>3. CASE rv = NULL
        <3>1. UNCHANGED used
            BY <1>4, <2>3 DEF StoreNode, CellNew, NULL, LInv, IInv, Types
        <3>2. \A n \in Cells : no_nodes'[n] = no_nodes[n]
            BY <2>2, <2>3
        <3>3. UNCHANGED no_nodes
            BY <2>2, <3>2 DEF LInv, IInv, Types
        <3>4. \A n \in Cells : \A i \in Slot(n) : node'[n][i] = node[n][i]
            BY <2>2
        <3> QED BY <1>2, <3>1, <3>3, <3>4, QuietStep
    <2>4. CASE rv # NULL
        <3>1. rv = used + 1 /\ used' = used + 1 /\ used + 1 <= MaxCells
            BY <1>4, <2>4 DEF StoreNode, CellNew, Cells
        <3>2. /\ no_nodes \in [Cells -> Int]
              /\ 0 <= no_nodes[nc] /\ no_nodes[nc] < used
            BY <2>1 DEF LInv, IInv, Types, NoWrap
        <3>3. no_nodes'[nc] = no_nodes[nc] + 1
            BY <1>2, <2>1, <2>2, <2>4, <3>1, <3>2, Sizes
        <3>4. NoWrap'
            <4>1. \A n \in Cells : n <= used' => no_nodes'[n] < used'
                <5> SUFFICES ASSUME NEW n \in Cells, n <= used'
                             PROVE  no_nodes'[n] < used'
                    OBVIOUS
                <5>1. CASE n = nc
                    BY <5>1, <1>2, <3>1, <3>2, <3>3
                <5>2. CASE n # nc /\ n <= used
                    <6>1. no_nodes'[n] = no_nodes[n] /\ no_nodes[n] < used
                        BY <5>2, <2>2 DEF LInv, NoWrap
                    <6> QED BY <6>1, <1>2, <3>1, <3>2
                <5>3. CASE n = used + 1
                    <6>1. no_nodes'[n] = no_nodes[n] /\ Pristine(n)
                        BY <5>3, <1>2, <2>1, <2>2 DEF LInv, IInv, ArraysOK
                    <6> QED BY <6>1, <1>2, <3>1 DEF Pristine
                <5> QED BY <5>1, <5>2, <5>3, <1>2, <3>1 DEF Cells
            <4>2. \A n \in Cells : 0 <= no_nodes'[n]
                BY <2>2, <3>2, <3>3 DEF LInv, NoWrap
            <4> QED BY <4>1, <4>2 DEF NoWrap
        <3>5. Linked'
            <4> SUFFICES ASSUME NEW c \in 2 .. used + 1
                         PROVE  \E p \in Cells : \E i \in Slot(p)' : node'[p][i] = c
                BY <3>1 DEF Linked
            <4>1. CASE c = used + 1
                <5>1. no_nodes[nc] \in Slot(nc)'
                    BY <2>1, <3>2, <3>3 DEF Slot
                <5> QED BY <4>1, <5>1, <2>1, <2>2, <3>1
            <4>2. CASE c \in 2 .. used
                <5>1. PICK p \in Cells : \E i \in Slot(p) : node[p][i] = c
                    BY <4>2 DEF LInv, Linked
                <5>2. PICK i \in Slot(p) : node[p][i] = c
                    BY <5>1
                <5>5. i \in Slot(p)'
                    BY <2>1, <2>2, <3>2, <3>3 DEF Slot
                <5>6. node'[p][i] = c
                    BY <5>2, <2>1, <2>2
                <5> QED BY <5>5, <5>6
            <4> QED BY <4>1, <4>2, <1>2
        <3> QED BY <1>2, <3>4, <3>5 DEF Reached, AllFreed
    <2> QED BY <2>3, <2>4
<1> QED BY <1>1, <1>3, <1>4
        DEF cacheNodeNew, cacheVars, treeVars, heapVars, ReallocFails, StoreAstray

\* The call of cacheFree: it has the root to visit and, through the root, all.
LEMMA FreeLinks == LInv /\ Free => NoWrap' /\ Linked' /\ Reached' /\ AllFreed'
<1> SUFFICES ASSUME LInv, Free PROVE NoWrap' /\ Linked' /\ Reached' /\ AllFreed'
    OBVIOUS
<1>1. /\ UNCHANGED <<used, live, parent, node, no_nodes, root>>
      /\ frames' = IF root = NULL THEN frames ELSE Append(frames, [cell |-> root, i |-> 0])
      /\ phase' = "freeing"
    BY DEF Free, FreeCall, heapVars, treeVars
<1>2. /\ frames = <<>> /\ live = 1 .. used /\ used \in 0 .. MaxCells
      /\ root = IF used = 0 THEN NULL ELSE 1
    BY DEF Free, LInv, IInv, PhaseOK, Types
<1>3. NoWrap' /\ Linked' /\ AllFreed'
    BY <1>1 DEF LInv, NoWrap, Linked, AllFreed, Slot
<1>4. CASE used = 0
    <2>1. live' = {}
        BY <1>1, <1>2, <1>4
    <2> QED BY <1>1, <1>3, <2>1, <1>2, <1>4 DEF Reached, RootFirst, Pending
<1>5. CASE used > 0
    <2>1. frames' = <<[cell |-> 1, i |-> 0]>> /\ root' = 1
        BY <1>1, <1>2, <1>5 DEF NULL
    <2>2. frames' # <<>> /\ DOMAIN frames' = {1}
          /\ frames'[1].cell = 1 /\ frames'[1].i = 0
        BY <2>1
    <2>3. RootFirst'
        BY <2>1, <2>2 DEF RootFirst
    <2>4. ASSUME NEW c \in Cells, c # 1, c \in live PROVE ToVisit(c)'
        <3>1. c \in 2 .. used
            BY <2>4, <1>2
        <3>2. PICK p \in Cells : \E i \in Slot(p) : node[p][i] = c
            BY <3>1 DEF LInv, Linked
        <3>3. PICK i \in Slot(p) : node[p][i] = c
            BY <3>2
        <3>4. p \in live
            <4>1. c \in p + 1 .. used /\ p \in 1 .. MaxCells
                BY <3>3 DEF LInv, IInv, Down, Cells
            <4> QED BY <4>1, <1>2
        <3>5. i >= 0
            BY DEF Slot
        <3> QED BY <3>3, <3>4, <3>5, <2>2, <1>1 DEF ToVisit, Slot
    <2>5. \A c \in Cells \ {1} : Pending(c)' => ToVisit(c)'
        BY <2>4, <1>1 DEF Pending
    <2> QED BY <1>3, <2>1, <2>3, <2>5 DEF Reached
<1> QED BY <1>2, <1>4, <1>5

\* cacheFree of a child: the slot it came from is behind it, all others are
\* still to come.
LEMMA FreeChildLinks ==
    ASSUME LInv, FreeChild, UNCHANGED <<phase, root, levels>>
    PROVE  NoWrap' /\ Linked' /\ Reached' /\ AllFreed'
<1>1. PICK n : n = Len(frames)
    OBVIOUS
<1>2. PICK child : child = node[TopCell][TopIndex]
    OBVIOUS
<1>3. /\ n \in Nat \ {0} /\ DOMAIN frames = 1 .. n
      /\ TopCell \in Cells /\ TopCell \in live /\ TopIndex \in Slot(TopCell)
      /\ TopIndex \in Nat
      /\ frames[n].cell = TopCell /\ frames[n].i = TopIndex
      /\ phase = "freeing" /\ Pending(child)
    BY <1>1, <1>2, FreeChildFrames DEF LInv
<1>4. /\ UNCHANGED <<used, live, node, no_nodes>>
      /\ DOMAIN frames' = 1 .. n + 1 /\ frames' # <<>>
      /\ \A k \in 1 .. n : frames'[k].cell = frames[k].cell
      /\ \A k \in 1 .. n - 1 : frames'[k] = frames[k]
      /\ frames'[n].i = TopIndex + 1
      /\ frames'[n + 1] = [cell |-> child, i |-> 0]
    BY <1>1, <1>2, FreeChildFrames DEF LInv
<1>5. NoWrap' /\ Linked' /\ AllFreed'
    BY <1>3, <1>4 DEF LInv, NoWrap, Linked, AllFreed, Slot
<1>6. RootFirst'
    BY <1>3, <1>4 DEF LInv, Reached, RootFirst
<1>7. ASSUME NEW c \in Cells \ {root}, Pending(c)' PROVE ToVisit(c)'
    <2>1. Pending(c) /\ c # child
        <3>1. \A k \in 1 .. n : k \in 1 .. n + 1
            BY <1>3
        <3>2. n + 1 \in 1 .. n + 1
            BY <1>3
        <3> QED BY <3>1, <3>2, <1>3, <1>4, <1>7 DEF Pending, OnStack
    <2>2. PICK p \in live : \E i \in Slot(p) :
              /\ node[p][i] = c
              /\ \A k \in DOMAIN frames : frames[k].cell = p => i >= frames[k].i
        BY <2>1, <1>3, <1>7 DEF LInv, Reached, ToVisit
    <2>3. PICK i \in Slot(p) :
              /\ node[p][i] = c
              /\ \A k \in DOMAIN frames : frames[k].cell = p => i >= frames[k].i
        BY <2>2
    <2>4. i >= 0 /\ i \in Int
        BY DEF Slot
    <2>5. \A k \in 1 .. n + 1 : frames'[k].cell = p => i >= frames'[k].i
        <3> SUFFICES ASSUME NEW k \in 1 .. n + 1, frames'[k].cell = p
                     PROVE  i >= frames'[k].i
            OBVIOUS
        <3>1. CASE k = n + 1
            BY <3>1, <2>4, <1>4
        \* The slot just left holds the child, and c is another cell.
        <3>2. CASE k = n
            <4>1. p = TopCell /\ i >= TopIndex /\ i # TopIndex
                BY <3>2, <2>1, <2>3, <1>2, <1>3, <1>4
            <4> QED BY <3>2, <4>1, <2>4, <1>3, <1>4
        <3>3. CASE k \in 1 .. n - 1
            <4>1. k \in 1 .. n
                BY <3>3, <1>3
            <4> QED BY <3>3, <4>1, <2>3, <1>3, <1>4
        <3> QED BY <3>1, <3>2, <3>3, <1>3
    <2> QED BY <2>3, <2>5, <1>4 DEF ToVisit, Slot
<1> QED BY <1>5, <1>6, <1>7 DEF Reached

\* The cell on top is freed: all its slots are behind it.
LEMMA FreeSelfLinks ==
    ASSUME LInv, FreeSelf, UNCHANGED <<phase, root, levels>>
    PROVE  NoWrap' /\ Linked' /\ Reached' /\ AllFreed'
<1>1. PICK n : n = Len(frames)
    OBVIOUS
<1>2. /\ n \in Nat \ {0} /\ DOMAIN frames = 1 .. n
      /\ TopCell \in Cells /\ TopCell \in live /\ TopIndex \in Nat
      /\ frames[n].cell = TopCell /\ frames[n].i = TopIndex
      /\ phase = "freeing"
    BY <1>1, TopFrame DEF FreeSelf, LInv, TopCell, TopIndex
<1>3. /\ live' = live \ {TopCell} /\ ~(TopIndex < no_nodes[TopCell])
      /\ frames' = SubSeq(frames, 1, n - 1)
      /\ UNCHANGED <<used, node, no_nodes>>
    BY <1>1 DEF FreeSelf, treeVars, MoreChildren
<1>4. /\ DOMAIN frames' = 1 .. n - 1
      /\ \A k \in 1 .. n - 1 : frames'[k] = frames[k]
      /\ frames' = <<>> <=> n = 1
    <2>1. frames \in Seq([cell : Cells, i : Nat]) /\ frames # <<>>
        BY DEF LInv, IInv, FramesOK, FreeSelf
    <2> QED BY <2>1, <1>1, <1>3, FrontOK, LenProperties
<1>5. NoWrap' /\ Linked' /\ AllFreed'
    BY <1>2, <1>3 DEF LInv, NoWrap, Linked, AllFreed, Slot
<1>6. RootFirst'
    BY <1>2, <1>3, <1>4 DEF LInv, Reached, RootFirst
<1>7. ASSUME NEW c \in Cells \ {root}, Pending(c)' PROVE ToVisit(c)'
    <2>1. Pending(c)
        <3>1. \A k \in 1 .. n : k \in 1 .. n - 1 \/ k = n
            BY <1>2
        <3> QED BY <3>1, <1>2, <1>3, <1>4, <1>7 DEF Pending, OnStack
    <2>2. PICK p \in live : \E i \in Slot(p) :
              /\ node[p][i] = c
              /\ \A k \in DOMAIN frames : frames[k].cell = p => i >= frames[k].i
        BY <2>1, <1>2, <1>7 DEF LInv, Reached, ToVisit
    <2>3. PICK i \in Slot(p) :
              /\ node[p][i] = c
              /\ \A k \in DOMAIN frames : frames[k].cell = p => i >= frames[k].i
        BY <2>2
    <2>4. p # TopCell
        <3>1. SUFFICES ASSUME p = TopCell PROVE FALSE
            OBVIOUS
        <3>2. i >= TopIndex
            BY <3>1, <2>3, <1>2
        <3>3. no_nodes[TopCell] \in Int /\ i \in Slot(TopCell)
            BY <3>1, <1>2 DEF LInv, IInv, Types
        <3> QED BY <3>2, <3>3, <1>2, <1>3 DEF Slot
    <2>5. \A k \in 1 .. n - 1 : k \in 1 .. n
        BY <1>2
    <2>6. \A k \in DOMAIN frames' : frames'[k].cell = p => i >= frames'[k].i
        BY <2>3, <2>5, <1>2, <1>4
    <2>7. p \in live' /\ i \in Slot(p)' /\ node'[p][i] = c
        BY <2>3, <2>4, <1>3 DEF Slot
    <2> QED BY <2>6, <2>7 DEF ToVisit
<1> QED BY <1>5, <1>6, <1>7 DEF Reached

\* Nothing is left: the cell handed out first among the live ones would have a
\* live parent that was handed out before it.
LEMMA ClosedLinks == LInv /\ Closed => NoWrap' /\ Linked' /\ Reached' /\ AllFreed'
<1> SUFFICES ASSUME LInv, Closed PROVE NoWrap' /\ Linked' /\ Reached' /\ AllFreed'
    OBVIOUS
<1>1. /\ UNCHANGED <<used, live, node, no_nodes>>
      /\ phase = "freeing" /\ phase' = "closed" /\ frames = <<>>
    BY DEF Closed, cacheVars, treeVars, heapVars
<1>2. NoWrap' /\ Linked' /\ Reached'
    BY <1>1 DEF LInv, NoWrap, Linked, Reached, Slot
<1>3. live = {}
    <2>1. SUFFICES ASSUME live # {} PROVE FALSE
        OBVIOUS
    <2>2. live \subseteq Nat /\ live \subseteq Cells
        BY Sizes DEF LInv, IInv, Types, Cells
    <2>3. PICK c \in live : \A d \in live : ~(<<d, c>> \in OpToRel(<, Nat))
        BY <2>1, <2>2, NatLessThanWellFounded, WFMin
    <2>4. \A d \in live : ~(d < c)
        BY <2>2, <2>3 DEF OpToRel
    <2>5. c # root
        BY <1>1 DEF LInv, Reached, RootFirst
    <2>6. Pending(c)
        BY <1>1 DEF Pending, OnStack
    <2>7. PICK p \in live : \E i \in Slot(p) : node[p][i] = c
        BY <2>2, <2>5, <2>6, <1>1 DEF LInv, Reached, ToVisit
    <2>8. c \in p + 1 .. used
        BY <2>2, <2>7 DEF LInv, IInv, Down
    <2> QED BY <2>2, <2>4, <2>8
<1> QED BY <1>1, <1>2, <1>3 DEF AllFreed

LEMMA LStep == LInv /\ [Next]_vars => LInv'
<1> SUFFICES ASSUME LInv, [Next]_vars PROVE NoWrap' /\ Linked' /\ Reached' /\ AllFreed'
    BY Step DEF LInv, Countable
<1>1. CASE Open
    BY <1>1, OpenLinks
<1>2. CASE Start
    <2>1. root \in 0 .. used /\ (root # NULL => max_nodes[root] = 0)
        BY <1>2, Sizes DEF Start, LInv, IInv, PhaseOK, Types, Pristine, Cells, NULL
    <2>2. cacheInitLevel(root) /\ phase' = "scanning"
        BY <1>2 DEF Start
    <2> QED BY <2>1, <2>2, InitLevelLinks, QuietStep
<1>3. CASE EmptyText
    BY <1>3, QuietStep DEF EmptyText, cacheVars, treeVars, heapVars
<1>4. CASE NewNode
    BY <1>4, NewNodeLinks
<1>5. CASE SetData
    BY <1>5, QuietStep DEF SetData, Scanning, cacheDataSet, heapVars
<1>6. CASE Descend
    <2>1. PICK nc : nc = Top.nnc
        OBVIOUS
    <2>2. /\ nc \in 0 .. used /\ (nc # NULL => max_nodes[nc] = 0)
          /\ cacheInitLevel(nc) /\ phase' = "scanning"
        BY <1>6, <2>1, TopOK DEF Descend, Scanning, LInv
    <2> QED BY <2>2, InitLevelLinks, QuietStep
<1>7. CASE Return
    BY <1>7, QuietStep DEF Return, Scanning, cacheVars, treeVars, heapVars
<1>8. CASE Free
    BY <1>8, FreeLinks
<1>9. CASE FreeStep
    BY <1>9, FreeChildLinks, FreeSelfLinks DEF FreeStep
<1>10. CASE Closed
    BY <1>10, ClosedLinks
<1>11. CASE Stopped \/ UNCHANGED vars
    BY <1>11 DEF Stopped, vars, cacheVars, treeVars, heapVars, LInv, NoWrap,
                 Linked, Reached, RootFirst, ToVisit, AllFreed, Slot, Pending, OnStack
<1> QED BY <1>1, <1>2, <1>3, <1>4, <1>5, <1>6, <1>7, <1>8, <1>9, <1>10, <1>11 DEF Next

-----------------------------------------------------------------------------
(* The theorems. *)

LEMMA LInvariance == Countable /\ Spec => []LInv
<1> QED BY LInitOK, LStep, PTL DEF Spec

LEMMA LInvIsOneTree == LInv => OneTree
<1> SUFFICES ASSUME LInv, phase \notin {"freeing", "closed"}
             PROVE  /\ \A n \in live : \A i \in DOMAIN Children(n) :
                          Children(n)[i] \in live /\ parent[Children(n)[i]] = n
                    /\ \A c \in live \ {root} :
                          \E p \in live : \E i \in DOMAIN Children(p) :
                             /\ Children(p)[i] = c
                             /\ \A q \in live : \A j \in DOMAIN Children(q) :
                                   Children(q)[j] = c => <<p, i>> = <<q, j>>
    BY DEF OneTree
<1>1. /\ live = 1 .. used /\ live \subseteq Cells /\ used \in Nat
      /\ root = IF used = 0 THEN NULL ELSE 1
    BY Sizes DEF LInv, IInv, PhaseOK, Types, Cells
<1>2. no_nodes \in [Cells -> Int]
    BY DEF LInv, IInv, Types
<1>3. \A n \in live : \A i \in DOMAIN Children(n) :
          i - 1 \in Slot(n) /\ Children(n)[i] = node[n][i - 1] /\ i \in Int
    BY <1>1, <1>2 DEF Children, Slot
<1>4. ASSUME NEW n \in live, NEW i \in DOMAIN Children(n)
      PROVE  Children(n)[i] \in live /\ parent[Children(n)[i]] = n
    <2>1. node[n][i - 1] \in n + 1 .. used /\ parent[node[n][i - 1]] = n
        BY <1>1, <1>3 DEF LInv, IInv, Down
    <2> QED BY <2>1, <1>1, <1>3
<1>5. ASSUME NEW c \in live \ {root}
      PROVE  \E p \in live : \E i \in DOMAIN Children(p) :
                /\ Children(p)[i] = c
                /\ \A q \in live : \A j \in DOMAIN Children(q) :
                      Children(q)[j] = c => <<p, i>> = <<q, j>>
    <2>1. c \in 2 .. used
        BY <1>1
    <2>2. PICK p \in Cells : \E i \in Slot(p) : node[p][i] = c
        BY <2>1 DEF LInv, Linked
    <2>3. PICK i \in Slot(p) : node[p][i] = c
        BY <2>2
    <2>4. p \in live
        <3>1. c \in p + 1 .. used /\ p \in 1 .. MaxCells
            BY <2>3 DEF LInv, IInv, Down, Cells
        <3> QED BY <3>1, <1>1, Sizes
    <2>5. i + 1 \in DOMAIN Children(p) /\ Children(p)[i + 1] = c
        BY <2>3, <2>4, <1>2 DEF Children, Slot
    <2>6. \A q \in live : \A j \in DOMAIN Children(q) :
              Children(q)[j] = c => p = q /\ i = j - 1
        BY <2>3, <1>1, <1>3 DEF LInv, IInv, Unshared
    <2>7. \A q \in live : \A j \in DOMAIN Children(q) : i = j - 1 => i + 1 = j
        BY <1>3 DEF Slot
    <2> QED BY <2>4, <2>5, <2>6, <2>7
<1> QED BY <1>4, <1>5

\* While a document of no more than 32768 nodes is open, whichever allocations
\* fail: the cells cacheNodeNew has made are one tree, and each is in exactly one
\* slot of the array of its parent.
THEOREM TreeIsSound == Countable /\ Spec => []OneTree
<1> QED BY LInvariance, LInvIsOneTree, PTL

\* cacheFree of the root frees every cell of such a document.
THEOREM NothingLeaks == Countable /\ Spec => []AllFreed
<1>1. LInv => AllFreed
    BY DEF LInv
<1> QED BY <1>1, LInvariance, PTL

-----------------------------------------------------------------------------
(* The cache as an ordered tree. *)

\* The stack of cacheFree goes down the tree, and so from older cells to younger.
Ordered ==
    \A k, m \in DOMAIN frames : k < m => frames[k].cell < frames[m].cell

\* A later slot holds a younger cell: siblings are in the order they were made in.
Rises == \A p \in Cells : \A i, j \in Slot(p) : i < j => node[p][i] < node[p][j]

OInv == LInv /\ Ordered /\ Rises

-----------------------------------------------------------------------------
(* The stack. *)

LEMMA OrderedIdle ==
    ASSUME frames' = <<>> \/ UNCHANGED frames, Ordered
    PROVE  Ordered'
BY DEF Ordered

LEMMA OrderedFree == LInv /\ Free => Ordered'
<1> SUFFICES ASSUME LInv, Free PROVE Ordered'
    OBVIOUS
<1>1. frames = <<>>
    BY DEF Free, LInv, IInv, PhaseOK
<1>2. CASE root = NULL
    BY <1>1, <1>2 DEF Free, FreeCall, Ordered
<1>3. CASE root # NULL
    <2>1. frames' = <<[cell |-> root, i |-> 0]>>
        BY <1>1, <1>3 DEF Free, FreeCall
    <2>2. DOMAIN frames' = {1}
        BY <2>1
    <2> QED BY <2>2 DEF Ordered
<1> QED BY <1>2, <1>3

\* The child that comes on top is younger than its parent below it.
LEMMA OrderedFreeChild == OInv /\ FreeChild => Ordered'
<1> SUFFICES ASSUME OInv, FreeChild PROVE Ordered'
    OBVIOUS
<1>1. PICK n : n = Len(frames)
    OBVIOUS
<1>2. PICK child : child = node[TopCell][TopIndex]
    OBVIOUS
<1>3. /\ n \in Nat \ {0} /\ DOMAIN frames = 1 .. n
      /\ TopCell \in Cells /\ TopIndex \in Slot(TopCell) /\ frames[n].cell = TopCell
      /\ DOMAIN frames' = 1 .. n + 1
      /\ \A k \in 1 .. n : frames'[k].cell = frames[k].cell
      /\ frames'[n + 1] = [cell |-> child, i |-> 0]
    BY <1>1, <1>2, FreeChildFrames DEF OInv, LInv
<1>4. child \in TopCell + 1 .. used /\ TopCell \in Int
    BY <1>2, <1>3 DEF OInv, LInv, IInv, Down, Cells
<1>5. \A k \in 1 .. n : frames[k].cell \in Int
    <2>1. frames \in Seq([cell : Cells, i : Nat])
        BY DEF OInv, LInv, IInv, FramesOK
    <2>2. \A k \in 1 .. n : frames[k] \in [cell : Cells, i : Nat]
        BY <1>1, <2>1, ElementOfSeq
    <2> QED BY <2>2 DEF Cells
<1>6. \A k \in 1 .. n : frames[k].cell <= TopCell
    <2> SUFFICES ASSUME NEW k \in 1 .. n PROVE frames[k].cell <= TopCell
        OBVIOUS
    <2>1. CASE k = n
        BY <2>1, <1>3, <1>4
    <2>2. CASE k < n
        BY <2>2, <1>3, <1>4, <1>5 DEF OInv, Ordered
    <2> QED BY <2>1, <2>2, <1>3
<1>7. ASSUME NEW k \in 1 .. n + 1, NEW m \in 1 .. n + 1, k < m
      PROVE  frames'[k].cell < frames'[m].cell
    <2>1. k \in 1 .. n
        BY <1>3, <1>7
    <2>2. CASE m = n + 1
        <3>1. frames'[m].cell = child
            BY <2>2, <1>3
        <3> QED BY <3>1, <2>1, <1>3, <1>4, <1>5, <1>6
    <2>3. CASE m \in 1 .. n
        BY <2>1, <2>3, <1>3, <1>7 DEF OInv, Ordered
    <2> QED BY <2>2, <2>3, <1>3
<1> QED BY <1>3, <1>7 DEF Ordered

LEMMA OrderedFreeSelf == OInv /\ FreeSelf => Ordered'
<1> SUFFICES ASSUME OInv, FreeSelf PROVE Ordered'
    OBVIOUS
<1>1. PICK n \in Nat \ {0} : n = Len(frames) /\ DOMAIN frames = 1 .. n
    BY TopFrame DEF FreeSelf, OInv, LInv
<1>2. frames' = SubSeq(frames, 1, n - 1)
    BY <1>1 DEF FreeSelf
<1>3. DOMAIN frames' = 1 .. n - 1 /\ \A k \in 1 .. n - 1 : frames'[k] = frames[k]
    <2>1. frames \in Seq([cell : Cells, i : Nat]) /\ frames # <<>>
        BY DEF OInv, LInv, IInv, FramesOK, FreeSelf
    <2> QED BY <2>1, <1>1, <1>2, FrontOK, LenProperties
<1>4. \A k \in 1 .. n - 1 : k \in 1 .. n
    BY <1>1
<1> QED BY <1>1, <1>3, <1>4 DEF OInv, Ordered

-----------------------------------------------------------------------------
(* The siblings. *)

LEMMA SlotsKept ==
    ASSUME Rises, UNCHANGED no_nodes,
           \A n \in Cells : \A i \in Slot(n) : node'[n][i] = node[n][i]
    PROVE  Rises'
BY DEF Rises, Slot

\* The new cell is the youngest and comes last.
LEMMA NewNodeRises == LInv /\ Rises /\ NewNode => Rises'
<1> SUFFICES ASSUME LInv, Rises, NewNode PROVE Rises'
    OBVIOUS
<1>0. PICK nc : nc = Top.nc
    OBVIOUS
<1>1. PICK rv \in CellOrNull : cacheNodeNew(nc, rv)
    BY <1>0 DEF NewNode
<1>2. nc \in 0 .. used /\ used \in 0 .. MaxCells
    BY <1>0, TopOK DEF NewNode, Scanning, LInv, IInv, Types
<1>3. CASE UNCHANGED <<no_nodes, node>>
    BY <1>3, SlotsKept
<1>4. CASE /\ nc # NULL /\ (IsFull(nc) => NewSize(nc) > 0)
           /\ ~StoreFaults(nc) /\ StoreNode(nc, rv)
    <2>1. nc \in Cells /\ nc \in 1 .. used
        BY <1>2, <1>4, Sizes DEF NULL, Cells
    <2>2. /\ \A n \in Cells \ {nc} : /\ node'[n] = node[n]
                                     /\ no_nodes'[n] = no_nodes[n]
          /\ \A i \in Slot(nc) : node'[nc][i] = node[nc][i]
          /\ node'[nc][no_nodes[nc]] = rv
          /\ rv = NULL => no_nodes'[nc] = no_nodes[nc]
          /\ rv # NULL => no_nodes'[nc] \in {no_nodes[nc] + 1, -Half}
          /\ no_nodes[nc] >= 0
        BY <1>4, <2>1, NodeNewArray DEF LInv, IInv
    <2>3. no_nodes[nc] \in Nat /\ Half \in Nat
        BY <2>1, <2>2, Sizes DEF LInv, IInv, Types
    <2>4. rv # NULL => rv = used + 1
        BY <1>4 DEF StoreNode, CellNew
    <2>5. \A i \in Slot(nc) : node[nc][i] \in Nat /\ node[nc][i] <= used
        BY <1>2, <2>1 DEF LInv, IInv, Down, Cells
    <2> SUFFICES ASSUME NEW p \in Cells, NEW i \in Slot(p)', NEW j \in Slot(p)', i < j
                 PROVE  node'[p][i] < node'[p][j]
        BY DEF Rises
    <2>6. CASE p # nc
        <3>1. i \in Slot(p) /\ j \in Slot(p)
            BY <2>2, <2>6 DEF Slot
        <3> QED BY <3>1, <2>2, <2>6 DEF Rises
    <2>7. CASE p = nc
        <3>1. i \in Slot(nc) /\ (j \in Slot(nc) \/ (j = no_nodes[nc] /\ rv # NULL))
            BY <2>2, <2>3, <2>7 DEF Slot
        <3>2. CASE j \in Slot(nc)
            BY <3>1, <3>2, <2>1, <2>2, <2>7 DEF Rises
        <3>3. CASE j = no_nodes[nc] /\ rv # NULL
            <4>1. node'[p][i] = node[nc][i] /\ node'[p][j] = used + 1
                BY <3>1, <3>3, <2>2, <2>4, <2>7
            <4> QED BY <4>1, <3>1, <2>5, <1>2
        <3> QED BY <3>1, <3>2, <3>3
    <2> QED BY <2>6, <2>7
<1> QED BY <1>1, <1>3, <1>4
        DEF cacheNodeNew, cacheVars, treeVars, heapVars, ReallocFails, StoreAstray

LEMMA RisesStep == LInv /\ Rises /\ [Next]_vars => Rises'
<1> SUFFICES ASSUME LInv, Rises, [Next]_vars PROVE Rises'
    OBVIOUS
<1>1. CASE NewNode
    BY <1>1, NewNodeRises
<1>2. CASE Start
    <2>1. root \in 0 .. used /\ (root # NULL => max_nodes[root] = 0)
        BY <1>2, Sizes DEF Start, LInv, IInv, PhaseOK, Types, Pristine, Cells, NULL
    <2>2. cacheInitLevel(root)
        BY <1>2 DEF Start
    <2> QED BY <2>1, <2>2, InitLevelLinks, SlotsKept
<1>3. CASE Descend
    <2>1. PICK nc : nc = Top.nnc
        OBVIOUS
    <2>2. nc \in 0 .. used /\ (nc # NULL => max_nodes[nc] = 0) /\ cacheInitLevel(nc)
        BY <1>3, <2>1, TopOK DEF Descend, Scanning, LInv
    <2> QED BY <2>2, InitLevelLinks, SlotsKept
<1>4. CASE ~(NewNode \/ Start \/ Descend)
    <2>1. UNCHANGED <<node, no_nodes>>
        BY <1>4 DEF Next, Open, EmptyText, SetData, Return, Free, FreeStep, Closed, Stopped,
                    vars, cacheInit, cacheDataSet, FreeCall, FreeChild, FreeSelf, cacheVars,
                    treeVars
    <2> QED BY <2>1, SlotsKept
<1> QED BY <1>1, <1>2, <1>3, <1>4

LEMMA OStep == OInv /\ [Next]_vars => OInv'
<1> SUFFICES ASSUME OInv, [Next]_vars PROVE Ordered'
    BY LStep, RisesStep DEF OInv
<1>1. CASE Free
    BY <1>1, OrderedFree DEF OInv
<1>2. CASE FreeStep
    BY <1>2, OrderedFreeChild, OrderedFreeSelf DEF FreeStep
<1>3. CASE NewNode
    <2>1. UNCHANGED frames
        BY <1>3 DEF NewNode, cacheNodeNew, StoreNode, StoreAstray, ReallocFails,
                    cacheVars, OInv
    <2> QED BY <2>1, OrderedIdle DEF OInv
<1>4. CASE Start \/ Descend
    <2>1. UNCHANGED frames
        BY <1>4 DEF Start, Descend, cacheInitLevel, cacheVars
    <2> QED BY <2>1, OrderedIdle DEF OInv
<1>5. CASE ~(Free \/ FreeStep \/ NewNode \/ Start \/ Descend)
    <2>1. UNCHANGED frames
        BY <1>5 DEF Next, Open, EmptyText, SetData, Return, Closed, Stopped, vars,
                    cacheInit, cacheDataSet, cacheVars
    <2> QED BY <2>1, OrderedIdle DEF OInv
<1> QED BY <1>1, <1>2, <1>3, <1>4, <1>5

LEMMA OInvariance == Countable /\ Spec => []OInv
<1>1. Countable /\ Init => OInv
    BY LInitOK DEF OInv, Ordered, Rises, Slot, Init, CacheInit
<1> QED BY <1>1, OStep, PTL DEF Spec

-----------------------------------------------------------------------------
(* The tree that is shown. *)

Kids == [n \in Cells |-> Children(n)]

\* The children of a node are the cells in its slots.
LEMMA KidsAre ==
    ASSUME IInv, NEW p \in Cells
    PROVE  Tree!ToSet(Kids[p]) = {node[p][i] : i \in Slot(p)}
<1>1. no_nodes[p] \in Int
    BY DEF IInv, Types
<1>2. Kids[p] = [i \in 1 .. no_nodes[p] |-> node[p][i - 1]]
    BY DEF Kids, Children
<1>3. \A x : x \in Tree!ToSet(Kids[p]) <=> \E i \in 1 .. no_nodes[p] : x = node[p][i - 1]
    BY <1>2 DEF Tree!ToSet
<1>4. \A i \in 1 .. no_nodes[p] : i - 1 \in Slot(p)
    BY <1>1 DEF Slot
<1>5. \A i \in Slot(p) : i + 1 \in 1 .. no_nodes[p] /\ (i + 1) - 1 = i
    BY <1>1 DEF Slot
<1> QED BY <1>3, <1>4, <1>5

\* What the tree shows changes with the counts and the slots below them only.
LEMMA KidsKept ==
    ASSUME IInv, \A n \in Cells : no_nodes'[n] = no_nodes[n],
           \A n \in Cells : \A i \in Slot(n) : node'[n][i] = node[n][i]
    PROVE  Kids' = Kids
<1>1. ASSUME NEW n \in Cells PROVE Children(n)' = Children(n)
    <2>1. no_nodes[n] \in Int
        BY DEF IInv, Types
    <2>2. \A i \in 1 .. no_nodes[n] : i - 1 \in Slot(n)
        BY <2>1 DEF Slot
    <2> QED BY <2>2 DEF Children
<1> QED BY <1>1 DEF Kids

\* A step that leaves what is shown is a stutter of the tree.
LEMMA Stutter ==
    ASSUME UNCHANGED <<live, Kids, payload>>, (phase' = "closed") = (phase = "closed")
    PROVE  UNCHANGED Tree!tvars
BY DEF Tree!tvars, Kids

\* A cell that was never handed out is new to the tree.
LEMMA NextIsNew ==
    ASSUME IInv, used + 1 \in Cells
    PROVE  Tree!IsNew(used + 1)
<1>1. used \in Int /\ live \subseteq 1 .. used
    BY DEF IInv, Types
<1>2. ASSUME NEW p \in Cells PROVE used + 1 \notin Tree!ToSet(Kids[p])
    <2>1. \A i \in Slot(p) : node[p][i] \in p + 1 .. used
        BY DEF IInv, Down
    <2> QED BY <1>1, <2>1, KidsAre DEF Cells
<1> QED BY <1>1, <1>2 DEF Tree!IsNew, Kids

-----------------------------------------------------------------------------
(* What the steps do to the tree. *)

\* The first cell is the root of the tree.
LEMMA OpenIsRoot == IInv /\ Open => [Tree!TNext]_(Tree!tvars)
<1> SUFFICES ASSUME IInv, Open PROVE [Tree!TNext]_(Tree!tvars)
    OBVIOUS
<1>1. PICK rv \in CellOrNull : cacheInit(rv)
    BY DEF Open
<1>2. /\ used = 0 /\ live = {} /\ phase = "start" /\ phase' = "opened"
      /\ UNCHANGED <<parent, node, max_nodes, no_nodes, payload, frames, fault>>
    BY <1>1 DEF Open, cacheInit, treeVars, IInv, PhaseOK
<1>3. Kids' = Kids
    BY <1>2, KidsKept
<1>4. CASE rv = 1 /\ live' = {1} /\ 1 \in Cells
    <2>1. Tree!IsNew(1)
        BY <1>2, <1>4, NextIsNew
    <2>2. Tree!Root(1)
        BY <1>2, <1>3, <1>4, <2>1 DEF Tree!Root, Kids
    <2> QED BY <1>4, <2>2 DEF Tree!TNext
<1>5. CASE UNCHANGED live
    BY <1>2, <1>3, <1>5, Stutter
<1> QED BY <1>1, <1>2, <1>4, <1>5 DEF cacheInit, CellNew, NULL

\* The first block of a cell shows nothing.
LEMMA LevelIsStutter ==
    ASSUME LInv, NEW nc \in 0 .. used, cacheInitLevel(nc), nc # NULL => max_nodes[nc] = 0,
           phase \in {"opened", "scanning"}, phase' = "scanning"
    PROVE  UNCHANGED Tree!tvars
<1>1. UNCHANGED <<used, no_nodes>>
      /\ \A n \in Cells : \A i \in Slot(n) : node'[n][i] = node[n][i]
    BY InitLevelLinks
<1>2. UNCHANGED <<live, payload>>
    BY InitLevelOK DEF LInv
<1> QED BY <1>1, <1>2, KidsKept, Stutter DEF LInv

\* cacheNodeNew: a cell behind the children of nc, or nothing.
LEMMA NewNodeIsAdd == LInv /\ LInv' /\ NewNode => [Tree!TNext]_(Tree!tvars)
<1> SUFFICES ASSUME LInv, LInv', NewNode PROVE [Tree!TNext]_(Tree!tvars)
    OBVIOUS
<1>0. PICK nc : nc = Top.nc
    OBVIOUS
<1>1. PICK rv \in CellOrNull : cacheNodeNew(nc, rv)
    BY <1>0 DEF NewNode
<1>2. /\ phase = "scanning" /\ phase' = phase /\ ~fault
      /\ nc \in 0 .. used /\ live = 1 .. used /\ used \in 0 .. MaxCells
    BY <1>0, TopOK DEF NewNode, Scanning, LInv, IInv, Types
<1>3. CASE UNCHANGED <<live, payload, no_nodes, node>>
    <2>1. Kids' = Kids
        BY <1>3, KidsKept DEF LInv
    <2> QED BY <1>2, <1>3, <2>1, Stutter
<1>4. CASE /\ nc # NULL /\ (IsFull(nc) => NewSize(nc) > 0)
           /\ ~StoreFaults(nc) /\ StoreNode(nc, rv)
    <2>1. nc \in Cells /\ nc \in live
        BY <1>2, <1>4, Sizes DEF NULL, Cells
    <2>2. /\ no_nodes' \in [Cells -> Int]
          /\ \A n \in Cells \ {nc} : node'[n] = node[n] /\ no_nodes'[n] = no_nodes[n]
          /\ no_nodes[nc] >= 0 /\ no_nodes[nc] \in Int
          /\ \A i \in Slot(nc) : node'[nc][i] = node[nc][i]
          /\ node'[nc][no_nodes[nc]] = rv
          /\ rv = NULL => no_nodes'[nc] = no_nodes[nc]
          /\ rv # NULL => no_nodes'[nc] \in {no_nodes[nc] + 1, -Half}
        BY <1>4, <2>1, NodeNewArray DEF LInv, IInv, Types
    <2>3. UNCHANGED payload
        BY <1>4 DEF StoreNode
    <2>4. CASE rv = NULL
        <3>1. UNCHANGED live
            BY <1>4, <2>4 DEF StoreNode, CellNew, NULL, LInv, IInv, Types
        <3>2. Kids' = Kids
            BY <2>1, <2>2, <2>4, KidsKept DEF LInv
        <3> QED BY <1>2, <2>3, <3>1, <3>2, Stutter
    <2>5. CASE rv # NULL
        <3>1. rv = used + 1 /\ live' = live \cup {rv} /\ rv \in Cells
            BY <1>4, <2>5 DEF StoreNode, CellNew
        \* The counter does not wrap: NoWrap holds behind the step too.
        <3>2. no_nodes'[nc] = no_nodes[nc] + 1
            <4>1. 0 <= no_nodes'[nc] /\ -Half < 0
                BY <2>1, Sizes DEF LInv, NoWrap
            <4> QED BY <2>2, <2>5, <4>1, Sizes
        <3>3. Children(nc)' = Append(Children(nc), rv)
            <4> DEFINE m == no_nodes[nc]
            <4>1. m \in Nat
                BY <2>2
            <4>2. Children(nc)' = [i \in 1 .. m + 1 |-> node'[nc][i - 1]]
                BY <3>2 DEF Children
            <4>3. \A i \in 1 .. m : i - 1 \in Slot(nc)
                BY <4>1 DEF Slot
            <4>4. Children(nc) = [i \in 1 .. m |-> node[nc][i - 1]]
                BY DEF Children
            <4>5. /\ DOMAIN Append(Children(nc), rv) = 1 .. m + 1
                  /\ \A i \in 1 .. m : Append(Children(nc), rv)[i] = node[nc][i - 1]
                  /\ Append(Children(nc), rv)[m + 1] = rv
                BY <4>1, <4>4
            <4>6. \A i \in 1 .. m : node'[nc][i - 1] = node[nc][i - 1]
                BY <2>2, <4>3
            <4>7. \A i \in 1 .. m + 1 : node'[nc][i - 1] = Append(Children(nc), rv)[i]
                BY <2>2, <4>1, <4>5, <4>6
            <4>8. Children(nc) \in Seq(Cells)
                <5>1. used \in 0 .. MaxCells
                    BY DEF LInv, IInv, Types
                <5>2. \A i \in 1 .. m : node[nc][i - 1] \in nc + 1 .. used
                    BY <2>1, <4>3 DEF LInv, IInv, Down
                <5>3. \A i \in 1 .. m : node[nc][i - 1] \in Cells
                    BY <2>1, <5>1, <5>2, Sizes DEF Cells
                <5> QED BY <4>1, <4>4, <5>3
            <4>9. Append(Children(nc), rv) \in Seq(Cells) /\ Len(Append(Children(nc), rv)) = m + 1
                BY <3>1, <4>1, <4>4, <4>8, AppendProperties
            <4>10. Children(nc)' \in Seq(Cells) /\ Len(Children(nc)') = m + 1
                <5>1. \A i \in 1 .. m + 1 : node'[nc][i - 1] \in Cells
                    <6>1. \A i \in 1 .. m + 1 : i \in 1 .. Len(Append(Children(nc), rv))
                        BY <4>9
                    <6> QED BY <4>7, <4>9, <6>1, ElementOfSeq
                <5> QED BY <4>1, <4>2, <5>1
            <4>11. \A i \in 1 .. m + 1 : Children(nc)'[i] = Append(Children(nc), rv)[i]
                BY <4>2, <4>7
            <4> QED BY <4>9, <4>10, <4>11, SeqEqual
        <3>4. ASSUME NEW n \in Cells, n # nc PROVE Children(n)' = Children(n)
            BY <2>2, <3>4 DEF Children
        <3>5. Kids' = [Kids EXCEPT ![nc] = Append(@, rv)]
            BY <2>1, <3>3, <3>4 DEF Kids
        <3>6. Tree!IsNew(rv)
            BY <3>1, NextIsNew DEF LInv
        <3>7. Tree!Add(nc, rv)
            BY <1>2, <2>1, <2>3, <3>1, <3>5, <3>6 DEF Tree!Add, Kids
        <3> QED BY <2>1, <3>1, <3>7 DEF Tree!TNext
    <2> QED BY <2>4, <2>5
<1> QED BY <1>1, <1>3, <1>4
        DEF cacheNodeNew, cacheVars, treeVars, heapVars, ReallocFails, StoreAstray

\* cacheDataSet: a node of the tree gets its label.
LEMMA SetDataIsDescribe == IInv /\ SetData => [Tree!TNext]_(Tree!tvars)
<1> SUFFICES ASSUME IInv, SetData PROVE [Tree!TNext]_(Tree!tvars)
    OBVIOUS
<1>1. PICK nc : nc = Top.nnc
    OBVIOUS
<1>2. PICK p \in Payloads : cacheDataSet(nc, p)
    BY <1>1 DEF SetData
<1>3. /\ nc \in 0 .. used /\ live = 1 .. used /\ used \in 0 .. MaxCells
      /\ UNCHANGED phase /\ phase = "scanning"
    BY <1>1, TopOK DEF SetData, Scanning, IInv, Types
<1>4. UNCHANGED <<live, node, no_nodes>>
    BY <1>2 DEF cacheDataSet, heapVars
<1>5. Kids' = Kids
    BY <1>4, KidsKept
<1>6. CASE nc = NULL
    BY <1>2, <1>3, <1>4, <1>5, <1>6, Stutter DEF cacheDataSet
<1>7. CASE nc # NULL
    <2>1. nc \in live /\ nc \in Cells
        BY <1>3, <1>7, Sizes DEF NULL, Cells
    <2>2. payload' = [payload EXCEPT ![nc] = p]
        BY <1>2, <1>7 DEF cacheDataSet
    <2>3. Tree!Describe(nc)
        BY <1>3, <1>4, <1>5, <2>1, <2>2 DEF Tree!Describe, Kids
    <2> QED BY <2>1, <2>3 DEF Tree!TNext
<1> QED BY <1>6, <1>7

\* cacheFree frees a cell whose children are all gone.  A live child would be on
\* the stack, but then below the cell, where only older ones are; or still to be
\* visited, but not from this cell, and it is in no other slot.
LEMMA FreeSelfIsDiscard ==
    OInv /\ FreeSelf /\ UNCHANGED phase => [Tree!TNext]_(Tree!tvars)
<1> SUFFICES ASSUME OInv, FreeSelf, UNCHANGED phase PROVE [Tree!TNext]_(Tree!tvars)
    OBVIOUS
<1>1. PICK n \in Nat \ {0} : n = Len(frames)
    BY TopFrame DEF FreeSelf, OInv, LInv
<1>2. /\ DOMAIN frames = 1 .. n /\ frames[n].cell = TopCell /\ frames[n].i = TopIndex
      /\ TopCell \in Cells /\ TopCell \in live /\ TopIndex \in Nat
      /\ phase = "freeing"
    BY <1>1, TopFrame DEF FreeSelf, OInv, LInv, TopCell, TopIndex
<1>3. /\ live' = live \ {TopCell} /\ ~(TopIndex < no_nodes[TopCell])
      /\ UNCHANGED <<node, no_nodes, payload>>
    BY DEF FreeSelf, treeVars, MoreChildren
<1>4. no_nodes[TopCell] \in Int
    BY <1>2 DEF OInv, LInv, IInv, Types
<1>5. ASSUME NEW j \in Slot(TopCell), node[TopCell][j] \in live
      PROVE  FALSE
    <2> DEFINE c == node[TopCell][j]
    <2>1. c \in TopCell + 1 .. used /\ c \in Cells /\ c # root
        <3>1. c \in TopCell + 1 .. used /\ TopCell \in Int /\ TopCell >= 1
            BY <1>2 DEF OInv, LInv, IInv, Down, Cells
        <3>2. used \in 0 .. MaxCells /\ root = IF used = 0 THEN NULL ELSE 1
            BY DEF OInv, LInv, IInv, Types, PhaseOK
        <3> QED BY <3>1, <3>2, Sizes DEF Cells
    <2>2. CASE OnStack(c)
        <3>1. PICK k \in 1 .. n : frames[k].cell = c
            BY <1>2, <2>2 DEF OnStack
        <3>2. k # n /\ k < n
            BY <1>2, <2>1, <3>1 DEF Cells
        <3>3. c < TopCell
            BY <1>2, <3>1, <3>2 DEF OInv, Ordered
        <3> QED BY <1>2, <2>1, <3>3 DEF Cells
    <2>3. CASE ~OnStack(c)
        <3>1. Pending(c)
            BY <1>5, <2>3 DEF Pending
        <3>2. PICK p \in live : \E i \in Slot(p) :
                  /\ node[p][i] = c
                  /\ \A k \in DOMAIN frames : frames[k].cell = p => i >= frames[k].i
            BY <1>2, <2>1, <3>1 DEF OInv, LInv, Reached, ToVisit
        <3>3. PICK i \in Slot(p) :
                  /\ node[p][i] = c
                  /\ \A k \in DOMAIN frames : frames[k].cell = p => i >= frames[k].i
            BY <3>2
        <3>4. p \in Cells
            <4>1. live \subseteq 1 .. used /\ used \in 0 .. MaxCells
                BY DEF OInv, LInv, IInv, Types
            <4> QED BY <4>1, Sizes DEF Cells
        <3>5. p = TopCell /\ i = j
            BY <1>2, <3>3, <3>4 DEF OInv, LInv, IInv, Unshared
        <3>6. i >= TopIndex
            BY <1>2, <3>3, <3>5
        <3> QED BY <1>2, <1>3, <1>4, <3>5, <3>6 DEF Slot
    <2> QED BY <2>2, <2>3
<1>6. Kids' = Kids
    BY <1>3, KidsKept DEF OInv, LInv
<1>7. Tree!ToSet(Kids[TopCell]) \cap live = {}
    BY <1>2, <1>5, KidsAre DEF OInv, LInv
<1>8. Tree!Discard(TopCell)
    BY <1>2, <1>3, <1>6, <1>7 DEF Tree!Discard, Kids
<1> QED BY <1>2, <1>8 DEF Tree!TNext

\* The tree is given up when it is empty.
LEMMA ClosedIsClose == LInv /\ LInv' /\ Closed => [Tree!TNext]_(Tree!tvars)
<1> SUFFICES ASSUME LInv, LInv', Closed PROVE [Tree!TNext]_(Tree!tvars)
    OBVIOUS
<1>1. UNCHANGED <<live, node, no_nodes, payload>> /\ phase' = "closed"
    BY DEF Closed, cacheVars, treeVars, heapVars
<1>2. live = {}
    BY <1>1 DEF LInv, AllFreed
<1>3. Kids' = Kids
    BY <1>1, KidsKept DEF LInv
<1>4. Tree!Close
    BY <1>1, <1>2, <1>3 DEF Tree!Close, Kids
<1> QED BY <1>4 DEF Tree!TNext

-----------------------------------------------------------------------------
(* The refinement. *)

LEMMA InitIsTree == Init => Tree!TInit
BY DEF Init, CacheInit, Tree!TInit, Children

LEMMA StepIsTree == OInv /\ OInv' /\ [Next]_vars => [Tree!TNext]_(Tree!tvars)
<1> SUFFICES ASSUME OInv, OInv', [Next]_vars PROVE [Tree!TNext]_(Tree!tvars)
    OBVIOUS
<1>1. CASE Open
    BY <1>1, OpenIsRoot DEF OInv, LInv
<1>2. CASE Start
    <2>1. root \in 0 .. used /\ (root # NULL => max_nodes[root] = 0)
        BY <1>2, Sizes DEF Start, OInv, LInv, IInv, PhaseOK, Types, Pristine, Cells, NULL
    <2>2. cacheInitLevel(root) /\ phase = "opened" /\ phase' = "scanning"
        BY <1>2 DEF Start
    <2> QED BY <2>1, <2>2, LevelIsStutter DEF OInv
<1>3. CASE Descend
    <2>1. PICK nc : nc = Top.nnc
        OBVIOUS
    <2>2. /\ nc \in 0 .. used /\ (nc # NULL => max_nodes[nc] = 0)
          /\ cacheInitLevel(nc) /\ phase = "scanning" /\ phase' = "scanning"
        BY <1>3, <2>1, TopOK DEF Descend, Scanning, OInv, LInv
    <2> QED BY <2>2, LevelIsStutter DEF OInv
<1>4. CASE NewNode
    BY <1>4, NewNodeIsAdd DEF OInv
<1>5. CASE SetData
    BY <1>5, SetDataIsDescribe DEF OInv, LInv
<1>6. CASE FreeStep /\ FreeSelf
    BY <1>6, FreeSelfIsDiscard DEF FreeStep
<1>7. CASE Closed
    BY <1>7, ClosedIsClose DEF OInv
\* What moves the scanner or the stack of cacheFree only.
<1>8. CASE /\ UNCHANGED <<live, node, no_nodes, payload>>
           /\ (phase' = "closed") = (phase = "closed")
    <2>1. Kids' = Kids
        BY <1>8, KidsKept DEF OInv, LInv
    <2> QED BY <1>8, <2>1, Stutter
<1>9. CASE EmptyText \/ Return \/ Free
    BY <1>8, <1>9 DEF EmptyText, Return, Free, FreeCall, Scanning, cacheVars, treeVars, heapVars
<1>10. CASE FreeStep /\ FreeChild
    BY <1>8, <1>10 DEF FreeStep, FreeChild, treeVars, heapVars
<1>11. CASE Stopped \/ UNCHANGED vars
    BY <1>8, <1>11 DEF Stopped, vars, cacheVars, treeVars, heapVars
<1> QED BY <1>1, <1>2, <1>3, <1>4, <1>5, <1>6, <1>7, <1>9, <1>10, <1>11 DEF Next, FreeStep

\* The cache of xml_cache.c is an ordered tree, as xml_cache.h has it, for every
\* client, whatever allocations fail, as long as its counters can count the cells:
\* children are appended and stay where they are, and cacheFree takes the tree down
\* from the leaves and leaves none.
THEOREM CacheIsTree == Countable /\ Spec => IsTree
<1> QED BY OInvariance, InitIsTree, StepIsTree, PTL DEF Spec, IsTree, Tree!TSpec
=============================================================================
