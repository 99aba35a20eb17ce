------------------------ MODULE ScannerClient_proofs ------------------------
(***************************************************************************)
(* The proof that the scanner, while it opens a document, is a client of   *)
(* the node cache as CacheClient has it: every step is one of its, or      *)
(* changes nothing of it.  So what is proved of the cache for every client *)
(* holds for the tree an open builds and a close frees.                    *)
(*                                                                         *)
(* Behind the theorems, for ScannerTree_proofs: which element of a well-   *)
(* formed document a cell stands for, what an activation knows of it, and  *)
(* what the operations of the cache do to that.                            *)
(***************************************************************************)
EXTENDS Scanner_proofs

\* The proofs about the cache, for this client.
P == INSTANCE CacheClient_proofs WITH levels <- clientLevels, phase <- clientPhase

\* An open scans for everything and caches what it finds.
Opening ==
    \A c \in Cases : c.mode.cached /\ c.req.name = AnyName /\ c.req.num = AllNums

-----------------------------------------------------------------------------
(* The invariant of the client. *)

\* A cell that has no level yet, or none at all.
Fresh(n) == n # NULL => max_nodes[n] = 0

\* The tag that leads to a section was asked for, so that its end is not the end
\* of the activation; the cell of the element has no level until the recursive
\* call gives it one.
ClientOK(place, f) ==
    /\ place \in {"content", "afterblock", "closing"} => f.starttag
    /\ place = "head" /\ f.element # <<>> /\ ~f.fresh => f.starttag
    /\ place = "enter" => f.nnc = NULL /\ Fresh(f.nc) /\ f.fresh
    /\ place \in {"content", "afterblock"} => Fresh(f.nnc)
    /\ place = "closing" /\ ~SameName(NextTag(f.cur), f.element) => Fresh(f.nnc)

\* Sections get smaller from a caller to its callee, and so nest no deeper than
\* the text is long.
Nested ==
    /\ \A i \in 1 .. Len(calls) :
          calls[i].name = AnyName /\ calls[i].num = AllNums /\ calls[i].start >= i - 1
    /\ \A i \in 1 .. Len(calls) - 1 : calls[i].starttag

Clients ==
    /\ pc \in Inside1 => ClientOK(pc, F)
    /\ pc = "return" /\ calls # <<>> => F.starttag
    /\ pc = "enter" => F.nc = IF Len(calls) = 1 THEN root ELSE calls[Len(calls) - 1].nnc
    /\ fault => pc = "crashed"

\* What is scanned is scanned by an open.
AnOpen == cached /\ req.name = AnyName /\ req.num = AllNums

RInv == AnOpen /\ SInv /\ P!IInv /\ Nested /\ Clients
-----------------------------------------------------------------------------
(* The client. *)

LEMMA DepthOK == MaxDepth \in Nat \ {0}
BY BoundsAssumption

\* The invariant of the cache is one of this client too.
LEMMA CacheStep == P!IInv /\ [P!Next]_(P!vars) => P!IInv'
BY P!Step, CacheAssumption, PayloadAssumption, DepthOK

LEMMA CacheInvInit == P!Init => P!IInv
BY P!InitOK, CacheAssumption, PayloadAssumption, DepthOK

\* Client and P are instances of the same module.
LEMMA SameInit == Client!Init <=> P!Init
BY DEF Client!Init, P!Init, Client!CacheInit, P!CacheInit, Client!Cells, P!Cells,
       Client!NoArray, P!NoArray, Client!NULL, P!NULL

LEMMA SameOperations ==
    /\ \A rv : Client!CellNew(rv) <=> CellNew(rv)
    /\ \A nc, rv : Client!cacheNodeNew(nc, rv) <=> cacheNodeNew(nc, rv)
    /\ \A nc : Client!cacheInitLevel(nc) <=> cacheInitLevel(nc)
    /\ \A nc, p : Client!cacheDataSet(nc, p) <=> cacheDataSet(nc, p)
    /\ \A nc : Client!FreeCall(nc) <=> FreeCall(nc)
    /\ Client!FreeChild <=> FreeChild
    /\ Client!FreeSelf <=> FreeSelf
    /\ Client!cacheVars = cacheVars /\ Client!CellOrNull = CellOrNull /\ Client!NULL = NULL
BY DEF NULL, NoArray, Cells, CellOrNull, treeVars, heapVars, cacheVars, AllocFails,
       CellNew, cacheInitLevel, IsFull, NewSize, Slots, ReallocFails, StoreFaults,
       Short, StoreNode, StoreAstray, cacheNodeNew, cacheDataSet, FreeCall, TopCell,
       TopIndex, MoreChildren, Caller, FreeChild, FreeSelf, Client!NULL,
       Client!NoArray, Client!Cells, Client!CellOrNull, Client!treeVars,
       Client!heapVars, Client!cacheVars, Client!AllocFails, Client!CellNew,
       Client!cacheInitLevel, Client!IsFull, Client!NewSize, Client!Slots,
       Client!ReallocFails, Client!StoreFaults, Client!Short, Client!StoreNode,
       Client!StoreAstray, Client!cacheNodeNew, Client!cacheDataSet, Client!FreeCall,
       Client!TopCell, Client!TopIndex, Client!MoreChildren, Client!Caller,
       Client!FreeChild, Client!FreeSelf

LEMMA SameOperationsP ==
    /\ \A rv : P!CellNew(rv) <=> CellNew(rv)
    /\ \A nc, rv : P!cacheNodeNew(nc, rv) <=> cacheNodeNew(nc, rv)
    /\ \A nc : P!cacheInitLevel(nc) <=> cacheInitLevel(nc)
    /\ \A nc, p : P!cacheDataSet(nc, p) <=> cacheDataSet(nc, p)
    /\ \A nc : P!FreeCall(nc) <=> FreeCall(nc)
    /\ P!FreeChild <=> FreeChild
    /\ P!FreeSelf <=> FreeSelf
    /\ P!cacheVars = cacheVars /\ P!CellOrNull = CellOrNull /\ P!NULL = NULL
BY DEF NULL, NoArray, Cells, CellOrNull, treeVars, heapVars, cacheVars, AllocFails,
       CellNew, cacheInitLevel, IsFull, NewSize, Slots, ReallocFails, StoreFaults,
       Short, StoreNode, StoreAstray, cacheNodeNew, cacheDataSet, FreeCall, TopCell,
       TopIndex, MoreChildren, Caller, FreeChild, FreeSelf, P!NULL, P!NoArray,
       P!Cells, P!CellOrNull, P!treeVars, P!heapVars, P!cacheVars, P!AllocFails,
       P!CellNew, P!cacheInitLevel, P!IsFull, P!NewSize, P!Slots, P!ReallocFails,
       P!StoreFaults, P!Short, P!StoreNode, P!StoreAstray, P!cacheNodeNew,
       P!cacheDataSet, P!FreeCall, P!TopCell, P!TopIndex, P!MoreChildren, P!Caller,
       P!FreeChild, P!FreeSelf

LEMMA SameCacheVars ==
    /\ UNCHANGED P!cacheVars <=> UNCHANGED cacheVars
    /\ UNCHANGED Client!cacheVars <=> UNCHANGED cacheVars
BY DEF cacheVars, treeVars, heapVars, P!cacheVars, P!treeVars, P!heapVars,
       Client!cacheVars, Client!treeVars, Client!heapVars

LEMMA SameNext == Client!Next <=> P!Next
<1>1. Client!Open <=> P!Open
    BY SameOperations, SameOperationsP
       DEF Client!Open, P!Open, Client!cacheInit, P!cacheInit, Client!treeVars, P!treeVars
<1>2. Client!Start <=> P!Start
    BY SameOperations, SameOperationsP, SameCacheVars DEF Client!Start, P!Start,
       Client!Level, P!Level
<1>3. Client!EmptyText <=> P!EmptyText
    BY SameOperations, SameOperationsP, SameCacheVars DEF Client!EmptyText,
       P!EmptyText
<1>4. Client!NewNode <=> P!NewNode
    BY SameOperations, SameOperationsP, SameCacheVars DEF Client!NewNode,
       P!NewNode, Client!Scanning, P!Scanning, Client!Top, P!Top, Client!SetTop,
       P!SetTop
<1>5. Client!SetData <=> P!SetData
    BY SameOperations, SameOperationsP, SameCacheVars DEF Client!SetData,
       P!SetData, Client!Scanning, P!Scanning, Client!Top, P!Top
<1>6. Client!Descend <=> P!Descend
    BY SameOperations, SameOperationsP, SameCacheVars DEF Client!Descend,
       P!Descend, Client!Scanning, P!Scanning, Client!Top, P!Top, Client!Level,
       P!Level
<1>7. Client!Return <=> P!Return
    BY SameOperations, SameOperationsP, SameCacheVars DEF Client!Return,
       P!Return, Client!Scanning, P!Scanning
<1>8. Client!Free <=> P!Free
    BY SameOperations, SameOperationsP, SameCacheVars DEF Client!Free, P!Free
<1>9. Client!FreeStep <=> P!FreeStep
    BY SameOperations, SameOperationsP, SameCacheVars DEF Client!FreeStep,
       P!FreeStep
<1>10. Client!Closed <=> P!Closed
    BY SameOperations, SameOperationsP, SameCacheVars DEF Client!Closed,
       P!Closed
<1>11. Client!Stopped <=> P!Stopped
    BY SameOperations, SameOperationsP, SameCacheVars DEF Client!Stopped,
       P!Stopped, Client!vars, P!vars, Client!cacheVars, P!cacheVars,
       Client!treeVars, P!treeVars, Client!heapVars, P!heapVars
<1> QED BY <1>1, <1>2, <1>3, <1>4, <1>5, <1>6, <1>7, <1>8, <1>9, <1>10, <1>11 DEF Client!Next, P!Next

LEMMA SameVars == UNCHANGED Client!vars <=> UNCHANGED P!vars
BY SameCacheVars DEF Client!vars, P!vars

-----------------------------------------------------------------------------
(* The activations as levels of the client. *)

Cell(f) == [nc |-> f.nc, nnc |-> f.nnc]

\* What is known in every activation of an open.
LEMMA HereClient ==
    ASSUME RInv, calls # <<>>
    PROVE  /\ Len(calls) \in Nat \ {0} /\ DOMAIN calls = 1 .. Len(calls)
           /\ F \in Frame /\ F.name = AnyName /\ F.num = AllNums /\ Wanted(F)
           /\ F.start >= Len(calls) - 1
           /\ F.start \in Nat /\ F.cur \in Nat /\ F.found \in Nat
           /\ F.nc \in CellOrNull /\ F.nnc \in CellOrNull
<1>1. SInv /\ Nested
    BY DEF RInv
<1>2. Len(calls) \in Nat \ {0} /\ DOMAIN calls = 1 .. Len(calls) /\ F \in Frame
    BY <1>1, TopFacts DEF SInv
<1>3. Len(calls) \in 1 .. Len(calls)
    BY <1>2
<1>4. F.name = AnyName /\ F.num = AllNums /\ F.start >= Len(calls) - 1
    BY <1>1, <1>3 DEF Nested, F
<1>5. Wanted(F)
    BY <1>4 DEF Wanted
<1>6. /\ F.start \in Nat /\ F.cur \in Nat /\ F.found \in Nat
      /\ F.nc \in CellOrNull /\ F.nnc \in CellOrNull
    BY <1>1, Here
<1> QED BY <1>2, <1>4, <1>5, <1>6

LEMMA LevelsAre ==
    ASSUME RInv, calls # <<>>
    PROVE  /\ pc # "enter" =>
                /\ clientLevels = [i \in 1 .. Len(calls) |-> Cell(calls[i])]
                /\ Len(clientLevels) = Len(calls)
                /\ P!Top = Cell(F)
           /\ pc = "enter" =>
                /\ clientLevels = [i \in 1 .. Len(calls) - 1 |-> Cell(calls[i])]
                /\ Len(clientLevels) = Len(calls) - 1
           /\ \E S : clientLevels \in Seq(S)
<1>1. Len(calls) \in Nat \ {0}
    BY HereClient
<1>2. \E S : clientLevels \in Seq(S)
    BY DEF RInv, P!IInv, P!PhaseOK
<1>3. DOMAIN clientLevels = 1 .. Len(clientLevels) /\ Len(clientLevels) \in Nat
    BY <1>2, LenProperties
<1>4. CASE pc # "enter"
    <2>1. clientLevels = [i \in 1 .. Len(calls) |-> Cell(calls[i])]
        BY <1>4 DEF clientLevels, Cell
    <2>2. Len(clientLevels) = Len(calls)
        BY <2>1, <1>1, <1>3
    <2>3. P!Top = Cell(F)
        BY <2>1, <2>2, <1>1 DEF P!Top, F
    <2> QED BY <2>1, <2>2, <2>3, <1>2, <1>4
<1>5. CASE pc = "enter"
    <2>1. clientLevels = [i \in 1 .. Len(calls) - 1 |-> Cell(calls[i])]
        BY <1>5 DEF clientLevels, Cell
    <2>2. Len(clientLevels) = Len(calls) - 1
        BY <2>1, <1>1, <1>3
    <2> QED BY <2>1, <2>2, <1>2, <1>5
<1> QED BY <1>4, <1>5

\* Where the client is while an activation scans.
LEMMA ScanningIs ==
    ASSUME RInv, calls # <<>>, pc # "enter"
    PROVE  clientPhase = "scanning"
BY DEF clientPhase, RInv, SInv, Places, Outside, Inside1

-----------------------------------------------------------------------------
(* The ways an activation goes on, as steps of the client. *)

\* What is shown of a step.
Obeys == [P!Next]_(P!vars) /\ Nested' /\ Clients'

On == (Inside1 \ {"enter"}) \cup {"crashed"}

LEMMA GotoLevels ==
    ASSUME RInv, SInv', calls # <<>>, pc # "enter", NEW f, calls' = SetTop(f),
           pc' \in On
    PROVE  /\ clientLevels' = P!SetTop(Cell(f)) /\ P!Top = Cell(F)
           /\ clientPhase = "scanning" /\ clientPhase' = "scanning"
           /\ Cell(f) = Cell(F) => UNCHANGED clientLevels
<1>1. /\ Len(calls') = Len(calls) /\ Len(calls) \in Nat \ {0} /\ calls' # <<>>
      /\ \A j \in 1 .. Len(calls) : calls'[j] = IF j = Len(calls) THEN f ELSE calls[j]
    BY StackGoto, HereClient DEF RInv
<1>2. /\ clientLevels = [i \in 1 .. Len(calls) |-> Cell(calls[i])]
      /\ Len(clientLevels) = Len(calls) /\ P!Top = Cell(F)
    BY LevelsAre
<1>3. pc' # "enter" /\ pc' \notin Outside /\ pc' # "return"
    BY DEF On, Inside1, Outside
<1>4. clientLevels' = [i \in 1 .. Len(calls) |-> Cell(calls'[i])]
    BY <1>1, <1>3 DEF clientLevels, Cell
<1>5. clientLevels' = P!SetTop(Cell(f))
    BY <1>1, <1>2, <1>4 DEF P!SetTop
<1>6. clientPhase = "scanning" /\ clientPhase' = "scanning"
    BY <1>3, ScanningIs DEF clientPhase, Outside
<1>7. ASSUME Cell(f) = Cell(F) PROVE clientLevels' = clientLevels
    <2>1. \A i \in 1 .. Len(calls) : Cell(calls'[i]) = Cell(calls[i])
        BY <1>1, <1>7 DEF F
    <2> QED BY <2>1, <1>2, <1>4
<1> QED BY <1>2, <1>5, <1>6, <1>7

\* What is required of the innermost activation does not change by itself.
LEMMA SameClient ==
    ASSUME UNCHANGED <<doc, max_nodes>>, NEW place, NEW f, ClientOK(place, f)
    PROVE  ClientOK(place, f)'
<1>1. \A cur : NextTag(cur)' = NextTag(cur)
    BY DEF NextTag, TagsFrom, Kind, At
<1> QED BY <1>1 DEF ClientOK, Fresh, SameName

\* The same activation, later.
LEMMA GotoClients ==
    ASSUME RInv, SInv', calls # <<>>, NEW f, calls' = SetTop(f),
           NEW label \in On, pc' = label,
           f.name = F.name, f.num = F.num, f.start = F.start,
           label # "crashed" => ClientOK(label, f)', fault' => label = "crashed"
    PROVE  Nested' /\ Clients'
<1>1. /\ Len(calls') = Len(calls) /\ Len(calls) \in Nat \ {0} /\ calls' # <<>> /\ F' = f
      /\ \A j \in 1 .. Len(calls) : calls'[j] = IF j = Len(calls) THEN f ELSE calls[j]
    BY StackGoto, HereClient DEF RInv
<1>2. /\ pc' # "enter" /\ pc' # "return"
      /\ pc' \in Inside1 => pc' # "crashed"
    BY DEF On, Inside1
<1>3. Nested'
    <2>1. ASSUME NEW i \in 1 .. Len(calls')
          PROVE  calls'[i].name = AnyName /\ calls'[i].num = AllNums /\ calls'[i].start >= i - 1
        BY <2>1, <1>1, HereClient DEF RInv, Nested
    <2>2. ASSUME NEW i \in 1 .. Len(calls') - 1 PROVE calls'[i].starttag
        BY <2>2, <1>1 DEF RInv, Nested
    <2> QED BY <2>1, <2>2 DEF Nested
<1>4. ClientOK(pc, F)' <=> ClientOK(label, f)'
    BY <1>1 DEF ClientOK, Fresh, SameName, NextTag, TagsFrom, Kind, At
<1>5. Clients'
    BY <1>1, <1>2, <1>4 DEF Clients
<1> QED BY <1>3, <1>5

\* A step that does nothing to the cache and the cells of the activation.
LEMMA GotoQuiet ==
    ASSUME RInv, SInv', calls # <<>>, pc \notin {"enter", "crashed"}, Quiet,
           NEW label \in On \ {"crashed"}, NEW f, Goto(label, f),
           f.name = F.name, f.num = F.num, f.start = F.start, Cell(f) = Cell(F),
           ClientOK(label, f)
    PROVE  Obeys
<1>1. /\ calls' = SetTop(f) /\ pc' = label /\ pc' \in On /\ pc' # "crashed"
      /\ UNCHANGED <<doc, root, cacheVars, max_nodes, fault>>
    BY DEF Goto, Quiet, Keep, cacheVars, treeVars
<1>2. UNCHANGED <<clientLevels, clientPhase>>
    BY <1>1, GotoLevels
<1>3. UNCHANGED P!vars
    BY <1>1, <1>2, SameCacheVars DEF P!vars
<1>4. ClientOK(label, f)'
    BY <1>1, SameClient
<1>5. ~fault'
    BY <1>1 DEF RInv, Clients
<1> QED BY <1>1, <1>3, <1>4, <1>5, GotoClients DEF Obeys

\* An activation ends: the level is left.
LEMMA ReturnQuiet ==
    ASSUME RInv, SInv', calls # <<>>, pc \notin {"enter", "crashed"}, Keep,
           UNCHANGED cacheVars,
           NEW rv, NEW buf, NEW len, NEW err, NEW num, ReturnWith(rv, buf, len, err, num)
    PROVE  Obeys
<1>1. calls' = Front(calls) /\ pc' = "return" /\ UNCHANGED <<doc, root, fault>>
    BY DEF ReturnWith, Keep, cacheVars
<1>2. /\ Len(calls) \in Nat \ {0} /\ Len(calls') = Len(calls) - 1
      /\ \A j \in 1 .. Len(calls) - 1 : calls'[j] = calls[j]
      /\ calls' # <<>> => Len(calls) > 1 /\ F' = calls[Len(calls) - 1]
      /\ calls' = <<>> => Len(calls) = 1
    BY <1>1, StackReturn, HereClient DEF RInv
<1>3. /\ clientLevels = [i \in 1 .. Len(calls) |-> Cell(calls[i])]
      /\ Len(clientLevels) = Len(calls) /\ \E S : clientLevels \in Seq(S)
    BY LevelsAre
<1>4. clientLevels' = [i \in 1 .. Len(calls) - 1 |-> Cell(calls[i])]
    BY <1>1, <1>2 DEF clientLevels, Cell
<1>5. clientLevels' = SubSeq(clientLevels, 1, Len(clientLevels) - 1)
    <2>1. SubSeq(clientLevels, 1, Len(calls) - 1)
              = [i \in 1 .. Len(calls) - 1 |-> clientLevels[i]]
        BY <1>2, <1>3
    <2> QED BY <2>1, <1>2, <1>3, <1>4
<1>6. clientPhase = "scanning"
    BY ScanningIs
<1>7. clientPhase' = IF Len(clientLevels) = 1 THEN "scanned" ELSE clientPhase
    <2>1. calls' = <<>> <=> Len(calls) = 1
        <3>1. Len(<<>>) = 0
            OBVIOUS
        <3> QED BY <3>1, <1>2
    <2> QED BY <2>1, <1>1, <1>2, <1>3, <1>6 DEF clientPhase
<1>8. ~fault
    BY DEF RInv, Clients
<1>9. P!Return
    BY <1>1, <1>5, <1>6, <1>7, <1>8, SameCacheVars DEF P!Return, P!Scanning
<1>10. Nested'
    BY <1>2 DEF Nested, RInv
<1>11. Clients'
    <2>1. calls' # <<>> => F'.starttag
        <3> SUFFICES ASSUME calls' # <<>> PROVE F'.starttag
            OBVIOUS
        <3>1. Len(calls) - 1 \in 1 .. Len(calls) - 1
            BY <1>2
        <3> QED BY <3>1, <1>2 DEF RInv, Nested
    <2> QED BY <2>1, <1>1, <1>8 DEF Clients, Inside1
<1> QED BY <1>9, <1>10, <1>11 DEF Obeys, P!Next

LEMMA FailQuiet ==
    ASSUME RInv, SInv', calls # <<>>, pc \notin {"enter", "crashed"}, Quiet,
           NEW code, Fail(code)
    PROVE  Obeys
<1>1. PICK buf : buf = F.buf
    OBVIOUS
<1>2. ReturnWith(NoPos, buf, code, TRUE, 0) /\ Keep /\ UNCHANGED cacheVars
    BY <1>1 DEF Fail, Quiet
<1> QED BY <1>2, ReturnQuiet

LEMMA LeaveQuiet ==
    ASSUME RInv, SInv', calls # <<>>, pc \notin {"enter", "crashed"}, Quiet,
           NEW f, Leave(f)
    PROVE  Obeys
<1>1. PICK rv, buf, len, num, err : ReturnWith(rv, buf, len, err, num)
    BY DEF Leave, Fail
<1> QED BY <1>1, ReturnQuiet DEF Quiet

-----------------------------------------------------------------------------
(* One lemma per step. *)

LEMMA StartObeys == RInv /\ SInv' /\ Start => Obeys
<1> SUFFICES ASSUME RInv, SInv', Start PROVE Obeys
    OBVIOUS
<1>2. cached /\ req.name = AnyName /\ req.num = AllNums
    BY DEF RInv, AnOpen
<1>3. PICK rv \in CellOrNull :
         cacheInit(rv) /\ root' = rv /\ calls' = <<Activation(rv, req.name, req.num, 0)>>
    BY <1>2 DEF Start
<1>4. pc = "start" /\ pc' = "enter" /\ calls = <<>> /\ ~fault
    BY DEF Start, RInv, SInv, Places, Outside, Clients
<1>5. PICK g : g = Activation(rv, req.name, req.num, 0)
    OBVIOUS
<1>6. calls' = <<g>> /\ Len(calls') = 1 /\ calls'[1] = g /\ F' = g
    BY <1>3, <1>5 DEF F
<1>7. clientPhase = "start" /\ clientPhase' = "opened"
    BY <1>4, <1>6 DEF clientPhase
<1>8. UNCHANGED clientLevels
    <2>1. clientLevels = [i \in 1 .. 0 |-> Cell(calls[i])]
        BY <1>4 DEF clientLevels, Cell
    <2>2. clientLevels' = [i \in 1 .. 0 |-> Cell(calls'[i])]
        BY <1>4, <1>6 DEF clientLevels, Cell
    <2>3. 1 .. 0 = {}
        OBVIOUS
    <2> QED BY <2>1, <2>2, <2>3
<1>9. UNCHANGED <<treeVars, frames, fault>> /\ CellNew(rv)
    BY <1>3 DEF cacheInit
<1>10. P!cacheInit(rv)
    BY <1>9, SameOperationsP DEF P!cacheInit, P!treeVars, treeVars
<1>11. P!Open
    BY <1>3, <1>7, <1>8, <1>10, SameOperationsP DEF P!Open
<1>12. /\ g.name = AnyName /\ g.num = AllNums /\ g.start = 0 /\ g.nc = rv /\ g.nnc = NULL
       /\ g.fresh
    BY <1>2, <1>5 DEF Activation
<1>13. Nested'
    BY <1>6, <1>12 DEF Nested
<1>14. rv # NULL => max_nodes'[rv] = 0
    <2>1. \A n \in Cells : max_nodes[n] = 0
        BY <1>7, SameOperationsP DEF RInv, P!IInv, P!PhaseOK, P!Pristine, P!Cells, Cells
    <2> QED BY <2>1, <1>9 DEF treeVars, CellOrNull
<1>15. Clients'
    BY <1>3, <1>4, <1>6, <1>9, <1>12, <1>14 DEF Clients, ClientOK, Fresh
<1> QED BY <1>11, <1>13, <1>15 DEF Obeys, P!Next

\* An empty text.
LEMMA EnterTooShortObeys == RInv /\ SInv' /\ EnterTooShort => Obeys
<1> SUFFICES ASSUME RInv, SInv', EnterTooShort PROVE Obeys
    OBVIOUS
<1>1. pc = "enter" /\ calls # <<>> /\ ~fault
    BY DEF EnterTooShort, RInv, SInv, Places, Inside1, Clients
<1>2. /\ Len(calls) \in Nat \ {0} /\ F.name = AnyName /\ F.num = AllNums /\ F \in Frame
      /\ F.start \in Nat
    BY <1>1, HereClient
<1>3. Len(AnyName) = 1
    BY DEF AnyName
<1>4. Len(calls) = 1
    <2>1. Len(calls) > 1 => F.start < End
        BY <1>1, Here DEF RInv, Inner
    <2>2. End \in Nat /\ Len(F.name) > End - F.start
        BY <1>1, Here DEF RInv, EnterTooShort
    <2>3. ~(F.start < End)
        BY <2>2, <1>2, <1>3
    <2>4. PICK n \in Nat \ {0} : n = Len(calls)
        BY <1>2
    <2>5. n = 1
        BY <2>1, <2>3, <2>4
    <2> QED BY <2>4, <2>5
<1>5. PICK f : f = [F EXCEPT !.len = End - F.start]
    OBVIOUS
<1>6. f.num = AllNums
    BY <1>2, <1>5 DEF Frame
<1>7. calls' = Front(calls) /\ pc' = "return" /\ UNCHANGED <<root, cacheVars, fault>>
    BY <1>5, <1>6 DEF EnterTooShort, Leave, Wanted, ReturnWith, Fail, Keep, cacheVars
<1>8. Len(calls') = 0 /\ calls' = <<>>
    <2>1. Len(calls') = Len(calls) - 1 /\ (calls' # <<>> => Len(calls) > 1)
        BY <1>1, <1>7, StackReturn DEF RInv
    <2> QED BY <2>1, <1>4
<1>9. clientPhase = "opened" /\ clientPhase' = "scanned"
    BY <1>1, <1>4, <1>7, <1>8 DEF clientPhase
<1>10. UNCHANGED clientLevels
    <2>1. clientLevels = [i \in 1 .. 0 |-> Cell(calls[i])]
        BY <1>1, <1>4 DEF clientLevels, Cell
    <2>2. clientLevels' = [i \in 1 .. 0 |-> Cell(calls'[i])]
        BY <1>7, <1>8 DEF clientLevels, Cell
    <2>3. 1 .. 0 = {}
        OBVIOUS
    <2> QED BY <2>1, <2>2, <2>3
<1>11. P!EmptyText
    BY <1>7, <1>9, <1>10, SameCacheVars DEF P!EmptyText
<1>12. Nested' /\ Clients'
    BY <1>1, <1>7, <1>8 DEF Nested, Clients, Inside1
<1> QED BY <1>11, <1>12 DEF Obeys, P!Next

\* The level of the activation: of the root, or of the cell the caller has made.
LEMMA EnterObeys == RInv /\ SInv' /\ Enter => Obeys
<1> SUFFICES ASSUME RInv, SInv', Enter PROVE Obeys
    OBVIOUS
<1>1. /\ pc = "enter" /\ calls # <<>> /\ ~fault /\ ClientOK("enter", F)
      /\ F.nc = IF Len(calls) = 1 THEN root ELSE calls[Len(calls) - 1].nnc
    BY DEF Enter, RInv, SInv, Places, Inside1, Clients
<1>2. /\ Len(calls) \in Nat \ {0} /\ F \in Frame /\ F.start \in Nat
      /\ F.start >= Len(calls) - 1
    BY <1>1, HereClient
<1>3. /\ cacheInitLevel(F.nc) /\ pc' = "head" /\ calls' = SetTop(F)
      /\ UNCHANGED <<doc, root, ret>>
    BY DEF Enter, Goto, Keep
<1>4. PICK f : f = F
    OBVIOUS
<1>5. /\ Len(calls') = Len(calls) /\ calls' # <<>> /\ F' = F
      /\ \A j \in 1 .. Len(calls) : calls'[j] = calls[j]
    <2>1. calls' = SetTop(f)
        BY <1>3, <1>4
    <2>2. /\ Len(calls') = Len(calls) /\ calls' # <<>> /\ F' = f
          /\ \A j \in 1 .. Len(calls) : calls'[j] = IF j = Len(calls) THEN f ELSE calls[j]
        BY <2>1, <1>1, StackGoto DEF RInv
    <2> QED BY <2>2, <1>4 DEF F
<1>6. clientLevels' = [i \in 1 .. Len(calls) |-> Cell(calls[i])]
    BY <1>3, <1>5 DEF clientLevels, Cell
<1>7. clientPhase' = "scanning"
    BY <1>3 DEF clientPhase
<1>8. UNCHANGED fault
    BY <1>3 DEF cacheInitLevel, cacheVars
<1>9. Nested'
    BY <1>5 DEF RInv, Nested
<1>10. Clients'
    BY <1>1, <1>3, <1>5, <1>8 DEF Clients, ClientOK
<1>11. CASE Len(calls) = 1
    <2>1. clientPhase = "opened"
        BY <1>1, <1>11 DEF clientPhase
    <2>2. calls[1] = F /\ Cell(F) = P!Level(root)
        BY <1>1, <1>11 DEF F, Cell, P!Level, ClientOK, NULL, P!NULL
    <2>3. clientLevels' = <<P!Level(root)>>
        BY <2>2, <1>6, <1>11
    <2>4. P!Start
        BY <1>1, <1>3, <1>7, <1>11, <2>1, <2>3, SameOperationsP DEF P!Start
    <2> QED BY <2>4, <1>9, <1>10 DEF Obeys, P!Next
<1>12. CASE Len(calls) # 1
    <2>0. PICK n \in Nat \ {0} : n = Len(calls)
        BY <1>2
    <2>7. n # 1
        BY <2>0, <1>12
    <2>8. n > 1
        BY <2>7
    <2>1. clientPhase = "scanning"
        BY <1>1, <1>12 DEF clientPhase
    <2>2. /\ clientLevels = [i \in 1 .. Len(calls) - 1 |-> Cell(calls[i])]
          /\ Len(clientLevels) = Len(calls) - 1
          /\ \E S : clientLevels \in Seq(S)
        BY <1>1, LevelsAre
    <2>3. P!Top.nnc = F.nc
        <3>1. n - 1 \in 1 .. n - 1
            BY <2>8
        <3>2. P!Top = Cell(calls[n - 1])
            BY <2>0, <2>2, <3>1 DEF P!Top
        <3>3. F.nc = calls[n - 1].nnc
            BY <2>0, <1>1, <1>12
        <3> QED BY <3>2, <3>3 DEF Cell
    <2>4. Len(clientLevels) < MaxDepth
        <3>1. F.start < End /\ End \in Nat
            BY <1>1, <2>0, <2>8, Here DEF RInv, Inner
        <3>2. End <= MaxSize /\ MaxSize \in Nat /\ MaxSize < MaxDepth /\ MaxDepth \in Nat
            BY CaseFacts, BoundsAssumption DEF RInv, SInv
        <3> QED BY <3>1, <3>2, <2>2, <1>2
    <2>5. clientLevels' = Append(clientLevels, P!Level(P!Top.nnc))
        <3>1. Cell(F) = P!Level(F.nc)
            BY <1>1 DEF Cell, P!Level, ClientOK, NULL, P!NULL
        <3>2. PICK S : clientLevels \in Seq(S)
            BY <2>2
        <3>3. Append(clientLevels, Cell(F)) = [i \in 1 .. Len(calls) |->
                 IF i = Len(calls) THEN Cell(F) ELSE clientLevels[i]]
            BY <3>2, <2>2, <1>2
        <3>4. \A i \in 1 .. Len(calls) :
                 Cell(calls[i]) = IF i = Len(calls) THEN Cell(F) ELSE clientLevels[i]
            BY <2>2, <1>2 DEF F
        <3> QED BY <3>1, <3>3, <3>4, <2>3, <1>6
    <2>6. P!Descend
        BY <1>1, <1>3, <1>7, <2>1, <2>3, <2>4, <2>5, SameOperationsP
           DEF P!Descend, P!Scanning, ClientOK, Fresh
    <2> QED BY <2>6, <1>9, <1>10 DEF Obeys, P!Next
<1> QED BY <1>11, <1>12

\* The steps after which the activation ends, without a change of the cache.
LEMMA EndsObey ==
    /\ RInv /\ SInv'
    /\ \/ NoMoreTags \/ EndOfSubsection \/ CloseBeforeOpen \/ BlockCutOff \/ TagCutOff
       \/ OpenAtEnd \/ ContentEnds \/ ContentCutOff \/ ClosingOther \/ Unwind
    => Obeys
<1> SUFFICES ASSUME RInv, SInv',
                    \/ NoMoreTags \/ EndOfSubsection \/ CloseBeforeOpen \/ BlockCutOff
                    \/ TagCutOff \/ OpenAtEnd \/ ContentEnds \/ ContentCutOff
                    \/ ClosingOther \/ Unwind
             PROVE  Obeys
    OBVIOUS
<1>1. Quiet /\ calls # <<>> /\ pc \notin {"enter", "crashed"}
    BY DEF RInv, SInv, Places, Inside1, NoMoreTags, EndOfSubsection, CloseBeforeOpen,
           BlockCutOff, TagCutOff, OpenAtEnd, ContentEnds, ContentCutOff, ClosingOther,
           Unwind, AtTag, InContent, NothingFollows
<1>2. CASE \E code : Fail(code)
    BY <1>1, <1>2, FailQuiet
<1>3. CASE \E f : Leave(f)
    BY <1>1, <1>3, LeaveQuiet
<1>4. CASE \E rv, buf, len, err, num : ReturnWith(rv, buf, len, err, num)
    BY <1>1, <1>4, ReturnQuiet DEF Quiet
<1> QED BY <1>2, <1>3, <1>4
        DEF NoMoreTags, EndOfSubsection, CloseBeforeOpen, BlockCutOff, TagCutOff,
            OpenAtEnd, ContentEnds, ContentCutOff, ClosingOther, Unwind

\* The activation with its cursor moved.
LEMMA MovedClient ==
    ASSUME RInv, calls # <<>>, NEW cur, NEW f, f = [F EXCEPT !.cur = cur]
    PROVE  /\ f.name = F.name /\ f.num = F.num /\ f.start = F.start
           /\ Cell(f) = Cell(F) /\ f.cur = cur
           /\ f.element = F.element /\ f.fresh = F.fresh /\ f.starttag = F.starttag
           /\ f.nnc = F.nnc
BY HereClient DEF Frame, Cell

LEMMA HeadClient ==
    ASSUME RInv, calls # <<>>, NEW cur, NEW f \in Frame, NEW g, g = Head1(f, cur)
    PROVE  /\ g.name = f.name /\ g.num = f.num /\ g.start = f.start
           /\ Cell(g) = Cell(f) /\ g.element = <<>> /\ ClientOK("head", g)
BY DEF Frame, Cell, Head1, ClientOK

LEMMA ToClosingObeys == RInv /\ SInv' /\ (ElementCloses \/ ContentClose) => Obeys
<1> SUFFICES ASSUME RInv, SInv', ElementCloses \/ ContentClose PROVE Obeys
    OBVIOUS
<1>1. /\ calls # <<>> /\ TagsFrom(F.cur) # {} /\ Quiet
      /\ pc \in {"head", "content", "afterblock"} /\ ClientOK(pc, F)
    BY DEF RInv, SInv, Places, Inside1, Clients, ElementCloses, ContentClose, AtTag, InContent
<1>2. PICK at, f : at = At(T) /\ f = [F EXCEPT !.cur = at]
    OBVIOUS
<1>3. Goto("closing", f)
    BY <1>2 DEF ElementCloses, ContentClose
<1>4. /\ f.name = F.name /\ f.num = F.num /\ f.start = F.start
      /\ Cell(f) = Cell(F) /\ f.cur = at /\ f.nnc = F.nnc
      /\ f.element = F.element /\ f.fresh = F.fresh /\ f.starttag = F.starttag
    BY <1>1, <1>2, MovedClient
<1>5. NextTag(at) = T
    BY <1>1, <1>2, HereClient, TagAgain DEF RInv, SInv, T
<1>6. F.starttag /\ (SameName(T, F.element) \/ Fresh(F.nnc))
    BY <1>1 DEF ElementCloses, ContentClose, InContent, AtTag, ClientOK
<1>7. ClientOK("closing", f)
    BY <1>4, <1>5, <1>6 DEF ClientOK
<1> QED BY <1>1, <1>3, <1>4, <1>7, GotoQuiet DEF On, Inside1

\* The scan goes on behind a tag that says nothing to the cache.
LEMMA SkipsObey == RInv /\ SInv' /\ (BlockSkipped \/ ClosingPassedOver) => Obeys
<1> SUFFICES ASSUME RInv, SInv', BlockSkipped \/ ClosingPassedOver PROVE Obeys
    OBVIOUS
<1>1. calls # <<>> /\ Quiet /\ pc \in {"head", "closing"}
    BY DEF RInv, SInv, Places, Inside1, BlockSkipped, ClosingPassedOver, AtTag
<1>2. PICK f \in Frame : f = F
    BY <1>1, HereClient
<1>3. PICK cur : Goto("head", Head1(f, cur))
    BY <1>2 DEF BlockSkipped, ClosingPassedOver
<1>4. PICK g : g = Head1(f, cur)
    OBVIOUS
<1>5. /\ g.name = F.name /\ g.num = F.num /\ g.start = F.start /\ Cell(g) = Cell(F)
      /\ ClientOK("head", g)
    BY <1>1, <1>2, <1>4, HeadClient
<1> QED BY <1>1, <1>3, <1>4, <1>5, GotoQuiet DEF On, Inside1

LEMMA MovesObey == RInv /\ SInv' /\ (ContentBlock \/ Resume) => Obeys
<1> SUFFICES ASSUME RInv, SInv', ContentBlock \/ Resume PROVE Obeys
    OBVIOUS
<1>1. /\ calls # <<>> /\ Quiet
      /\ \/ pc \in {"content", "afterblock"} /\ ClientOK(pc, F)
         \/ pc = "return" /\ F.starttag
    BY DEF RInv, SInv, Places, Inside1, Clients, ContentBlock, Resume, InContent
<1>2. PICK cur, f : /\ f = [F EXCEPT !.cur = cur]
                    /\ \/ Goto("afterblock", f) /\ pc \in {"content", "afterblock"}
                       \/ Goto("head", f) /\ pc = "return"
    BY DEF ContentBlock, Resume, InContent
<1>3. /\ f.name = F.name /\ f.num = F.num /\ f.start = F.start
      /\ Cell(f) = Cell(F) /\ f.nnc = F.nnc /\ f.starttag = F.starttag
    BY <1>1, <1>2, MovedClient
<1>4. pc \in {"content", "afterblock"} => ClientOK("afterblock", f)
    BY <1>1, <1>3 DEF ClientOK
<1>5. pc = "return" => ClientOK("head", f)
    BY <1>1, <1>3 DEF ClientOK
<1> QED BY <1>1, <1>2, <1>3, <1>4, <1>5, GotoQuiet DEF On, Inside1

\* Every name is looked for, and every tag is long enough for "*".
LEMMA NothingIsOther == RInv => ~ElementOther /\ ~ElementTooLong
<1> SUFFICES ASSUME RInv, ElementOther \/ ElementTooLong PROVE FALSE
    OBVIOUS
<1>1. calls # <<>> /\ TagsFrom(F.cur) # {}
    BY DEF RInv, SInv, Places, Inside1, ElementOther, ElementTooLong, AtTag
<1>2. F.name = AnyName
    BY <1>1, HereClient
<1>3. /\ At(T) \in Nat /\ At(T) + 2 <= At(T + 1) /\ At(T + 1) \in Nat /\ At(T + 1) <= End
      /\ End \in Nat
    BY <1>1, HereTag, Here DEF RInv
<1>4. ~ElementOther
    BY <1>2 DEF ElementOther, Matches
<1>5. Len(AnyName) = 1
    BY DEF AnyName
<1>6. ~(At(T) + 1 + Len(F.name) > End)
    BY <1>2, <1>3, <1>5
<1> QED BY <1>4, <1>6 DEF ElementTooLong

\* A recursive call: its level is still to come.
LEMMA CallsObey == RInv /\ SInv' /\ (ContentChild \/ ClosingMismatch) => Obeys
<1> SUFFICES ASSUME RInv, SInv', ContentChild \/ ClosingMismatch PROVE Obeys
    OBVIOUS
<1>1. /\ calls # <<>> /\ TagsFrom(F.cur) # {} /\ Quiet /\ Call /\ ClientOK(pc, F)
      /\ pc \in {"content", "afterblock", "closing"} /\ PlaceOK(pc, F)
    BY DEF RInv, SInv, Places, PlaceOK, Inside1, Clients, ContentChild, ClosingMismatch,
           InContent
<1>2. F.starttag /\ Fresh(F.nnc) /\ F.start < F.cur
    BY <1>1 DEF ClientOK, PlaceOK, ContentChild, ClosingMismatch, InContent, T
<1>3. PICK at, f, g :
         /\ at = At(T) /\ f = [F EXCEPT !.cur = at + 1]
         /\ g = Activation(F.nnc, AnyName, AllNums, at)
    OBVIOUS
<1>4. /\ calls' = Append(SetTop(f), g) /\ pc' = "enter"
      /\ UNCHANGED <<doc, root, cacheVars, max_nodes, fault>>
    BY <1>1, <1>3 DEF Call, Quiet, Keep, cacheVars, treeVars
<1>5. /\ f.name = F.name /\ f.num = F.num /\ f.start = F.start
      /\ Cell(f) = Cell(F) /\ f.starttag = F.starttag /\ f.nnc = F.nnc
    <2>1. PICK cur : cur = at + 1
        OBVIOUS
    <2>2. f = [F EXCEPT !.cur = cur]
        BY <2>1, <1>3
    <2>3. calls # <<>>
        BY <1>1
    <2> QED BY <2>2, <2>3, MovedClient
<1>6. /\ g.name = AnyName /\ g.num = AllNums /\ g.start = at /\ g.nc = F.nnc
      /\ g.nnc = NULL /\ g.fresh
    BY <1>3 DEF Activation
<1>7. PICK n \in Nat \ {0} : n = Len(calls)
    BY <1>1, HereClient
<1>8. /\ Len(calls') = n + 1 /\ calls' # <<>> /\ F' = g /\ calls'[n + 1] = g
      /\ \A j \in 1 .. n : calls'[j] = IF j = n THEN f ELSE calls[j]
    <2>1. calls \in Seq(Frame) /\ DOMAIN calls = 1 .. n
        BY <1>1, <1>7, HereClient DEF RInv, SInv, Stack
    <2>2. f \in Frame
        <3>1. at \in Nat
            BY <1>1, <1>3, HereTag DEF RInv
        <3>2. F \in Frame
            BY <1>1, HereClient
        <3> QED BY <3>1, <3>2, <1>3 DEF Frame
    <2>3. n \in 1 .. Len(calls)
        BY <1>7
    <2>4. PICK s : s = SetTop(f)
        OBVIOUS
    <2>5. /\ s \in Seq(Frame) /\ Len(s) = n
          /\ \A j \in 1 .. n : s[j] = IF j = n THEN f ELSE calls[j]
        BY <2>1, <2>2, <2>3, <2>4, <1>7, ExceptSeq DEF SetTop
    <2>6. calls' = Append(s, g)
        BY <2>4, <1>4
    <2>7. /\ Len(calls') = n + 1 /\ calls'[n + 1] = g
          /\ \A j \in 1 .. n : calls'[j] = s[j]
        BY <2>5, <2>6, <1>7
    <2>8. calls' # <<>>
        <3>1. Len(<<>>) = 0
            OBVIOUS
        <3> QED BY <3>1, <2>7
    <2> QED BY <2>5, <2>7, <2>8 DEF F
<1>9. UNCHANGED clientLevels
    <2>1. clientLevels = [i \in 1 .. n |-> Cell(calls[i])]
        BY <1>1, <1>7, LevelsAre
    <2>2. clientLevels' = [i \in 1 .. n |-> Cell(calls'[i])]
        BY <1>4, <1>8 DEF clientLevels, Cell
    <2>3. \A i \in 1 .. n : Cell(calls'[i]) = Cell(calls[i])
        BY <1>5, <1>7, <1>8 DEF F
    <2> QED BY <2>1, <2>2, <2>3
<1>10. UNCHANGED clientPhase
    <2>1. clientPhase = "scanning"
        BY <1>1, ScanningIs
    <2>2. n + 1 # 1
        BY <1>7
    <2> QED BY <2>1, <2>2, <1>4, <1>8 DEF clientPhase
<1>11. UNCHANGED P!vars
    BY <1>4, <1>9, <1>10, SameCacheVars DEF P!vars
<1>12. Nested'
    <2>1. at >= n /\ at \in Nat
        <3>1. at \in Nat /\ F.cur <= at
            BY <1>1, <1>3, HereTag DEF RInv
        <3>2. F.start \in Nat /\ F.cur \in Nat /\ F.start >= n - 1
            BY <1>1, <1>7, HereClient
        <3> QED BY <3>1, <3>2, <1>2
    <2>2. ASSUME NEW i \in 1 .. n + 1
          PROVE  calls'[i].name = AnyName /\ calls'[i].num = AllNums /\ calls'[i].start >= i - 1
        <3>1. CASE i = n + 1
            BY <3>1, <2>1, <1>6, <1>8
        <3>2. CASE i # n + 1
            <4>1. i \in 1 .. n
                BY <3>2, <1>7
            <4>2. /\ calls[i].name = AnyName /\ calls[i].num = AllNums
                  /\ calls[i].start >= i - 1
                BY <4>1, <1>7 DEF RInv, Nested
            <4> QED BY <4>1, <4>2, <1>5, <1>7, <1>8 DEF F
        <3> QED BY <3>1, <3>2
    <2>3. ASSUME NEW i \in 1 .. n PROVE calls'[i].starttag
        <3>1. CASE i = n
            BY <3>1, <1>2, <1>5, <1>8
        <3>2. CASE i # n
            <4>1. i \in 1 .. n - 1
                BY <3>2, <1>7
            <4> QED BY <4>1, <3>2, <1>7, <1>8 DEF RInv, Nested
        <3> QED BY <3>1, <3>2
    <2>4. (n + 1) - 1 = n
        BY <1>7
    <2> QED BY <2>2, <2>3, <2>4, <1>8 DEF Nested
<1>13. Clients'
    <2>1. Fresh(F.nc)'
        <3>1. UNCHANGED max_nodes /\ (F.nnc # NULL => max_nodes[F.nnc] = 0)
            BY <1>2, <1>4 DEF Fresh
        <3>2. F'.nc = F.nnc
            BY <1>6, <1>8
        <3> QED BY <3>1, <3>2 DEF Fresh
    <2>2. F'.nc = calls'[Len(calls') - 1].nnc /\ Len(calls') # 1
        <3>1. (n + 1) - 1 = n /\ n + 1 # 1 /\ n \in 1 .. n
            BY <1>7
        <3>2. calls'[n].nnc = F.nnc
            <4>1. calls'[n] = f
                BY <3>1, <1>8
            <4> QED BY <4>1, <1>5
        <3> QED BY <3>1, <3>2, <1>6, <1>8
    <2>3. ~fault'
        BY <1>1, <1>4 DEF RInv, Clients
    <2>4. ClientOK("enter", F)'
        BY <2>1, <1>6, <1>8 DEF ClientOK
    <2>5. ClientOK(pc, F)'
        BY <2>4, <1>4 DEF ClientOK
    <2> QED BY <2>2, <2>3, <2>5, <1>4 DEF Clients
<1> QED BY <1>11, <1>12, <1>13 DEF Obeys

\* A new cell: it has no level, and the cells there are keep theirs.
LEMMA NewCell ==
    ASSUME RInv, calls # <<>>, pc # "enter", NEW rv \in CellOrNull, cacheNodeNew(F.nc, rv)
    PROVE  rv # NULL => max_nodes'[rv] = 0
<1> SUFFICES ASSUME rv # NULL PROVE max_nodes'[rv] = 0
    OBVIOUS
<1>1. PICK nc \in CellOrNull : nc = F.nc
    BY HereClient
<1>2. nc # NULL /\ StoreNode(nc, rv)
    BY <1>1 DEF cacheNodeNew, ReallocFails, StoreAstray
<1>3. rv = used + 1 /\ rv \in Cells
    BY <1>2 DEF StoreNode, CellNew
<1>4. /\ used \in Nat /\ nc \in 0 .. used
      /\ \A n \in Cells : n > used => max_nodes[n] = 0
    <2>1. /\ used \in 0 .. MaxCells
          /\ \A n \in Cells : n > used => max_nodes[n] = 0
        BY SameOperationsP DEF RInv, P!IInv, P!Types, P!ArraysOK, P!Pristine, P!Cells, Cells
    <2>2. MaxCells \in Nat
        BY CacheAssumption
    <2>3. nc \in 0 .. used
        <3>1. P!Top \in [nc : 0 .. used, nnc : 0 .. used]
            <4>1. /\ clientLevels \in Seq([nc : 0 .. used, nnc : 0 .. used])
                BY DEF RInv, P!IInv, P!PhaseOK
            <4>2. Len(clientLevels) \in 1 .. Len(clientLevels)
                <5>1. PICK n \in Nat \ {0} : n = Len(calls)
                    BY HereClient
                <5>2. Len(clientLevels) = n
                    BY <5>1, LevelsAre
                <5> QED BY <5>1, <5>2
            <4> QED BY <4>1, <4>2, ElementOfSeq DEF P!Top
        <3>2. P!Top = Cell(F)
            BY LevelsAre
        <3> QED BY <3>1, <3>2, <1>1 DEF Cell
    <2> QED BY <2>1, <2>2, <2>3
<1>5. rv # nc /\ max_nodes[rv] = 0
    BY <1>3, <1>4
<1>6. max_nodes'[rv] = max_nodes[rv]
    <2>1. DOMAIN max_nodes = Cells
        BY SameOperationsP DEF RInv, P!IInv, P!Types, P!Cells, Cells
    <2> QED BY <2>1, <1>2, <1>3, <1>5 DEF StoreNode
<1> QED BY <1>5, <1>6

\* The step of the client.
LEMMA NodeIsNewNode ==
    ASSUME RInv, SInv', calls # <<>>, pc = "head", Keep, NEW rv \in CellOrNull,
           cacheNodeNew(F.nc, rv), NEW f, f.nc = F.nc, f.nnc = rv, calls' = SetTop(f),
           pc' \in On
    PROVE  P!NewNode
<1>1. /\ clientLevels' = P!SetTop(Cell(f)) /\ P!Top = Cell(F)
      /\ clientPhase = "scanning" /\ clientPhase' = "scanning"
    BY GotoLevels
<1>2. Cell(f) = [P!Top EXCEPT !.nnc = rv] /\ P!Top.nc = F.nc
    BY <1>1 DEF Cell
<1>3. ~fault
    BY DEF RInv, Clients
<1>4. P!cacheNodeNew(P!Top.nc, rv) /\ rv \in P!CellOrNull
    BY <1>2, SameOperationsP
<1>5. clientLevels' = P!SetTop([P!Top EXCEPT !.nnc = rv])
    BY <1>1, <1>2
<1>6. UNCHANGED <<clientPhase, root>>
    BY <1>1 DEF Keep
<1> QED BY <1>1, <1>3, <1>4, <1>5, <1>6 DEF P!NewNode, P!Scanning

LEMMA BlockNodeObeys == RInv /\ SInv' /\ BlockNode => Obeys
<1> SUFFICES ASSUME RInv, SInv', BlockNode PROVE Obeys
    OBVIOUS
<1>1. calls # <<>> /\ pc = "head" /\ Keep
    BY DEF RInv, SInv, Places, Inside1, BlockNode, AtTag
<1>2. PICK rv \in CellOrNull :
         /\ cacheNodeNew(F.nc, rv)
         /\ Goto(IF fault' THEN "crashed" ELSE "blockdata", WithCell(F, rv))
    BY DEF BlockNode
<1>3. PICK f : f = WithCell(F, rv)
    OBVIOUS
<1>4. PICK label : label = IF fault' THEN "crashed" ELSE "blockdata"
    OBVIOUS
<1>5. calls' = SetTop(f) /\ pc' = label /\ label \in On
    BY <1>2, <1>3, <1>4 DEF Goto, On, Inside1
<1>6. /\ f.nc = F.nc /\ f.nnc = rv /\ f.name = F.name /\ f.num = F.num /\ f.start = F.start
    BY <1>1, <1>3, HereClient DEF WithCell, Frame
<1>7. P!NewNode
    BY <1>1, <1>2, <1>5, <1>6, NodeIsNewNode
<1>8. fault' => label = "crashed"
    BY <1>4
<1>9. label # "crashed" => ClientOK(label, f)'
    <2>1. label # "crashed" => label = "blockdata"
        BY <1>4
    <2> QED BY <2>1 DEF ClientOK
<1>10. Nested' /\ Clients'
    BY <1>1, <1>5, <1>6, <1>8, <1>9, GotoClients
<1> QED BY <1>7, <1>10 DEF Obeys, P!Next

LEMMA ElementFoundObeys == RInv /\ SInv' /\ ElementFound => Obeys
<1> SUFFICES ASSUME RInv, SInv', ElementFound PROVE Obeys
    OBVIOUS
<1>1. calls # <<>> /\ pc = "head" /\ Keep
    BY DEF RInv, SInv, Places, Inside1, ElementFound, AtTag
<1>2. F \in Frame /\ Wanted(F)
    BY <1>1, HereClient
<1>3. PICK name, next, end : name = doc[T].name /\ next = At(T + 1)
         /\ end = IF Kind(T) = "self" THEN At(T + 1) - 1 ELSE At(T + 1)
    OBVIOUS
<1>4. PICK f : f = [F EXCEPT !.element = name, !.fresh = FALSE, !.cur = next, !.rptr = end]
    OBVIOUS
<1>5. PICK seen : seen = [f EXCEPT !.rv = next, !.buf = next, !.starttag = TRUE]
    OBVIOUS
<1>6. PICK rv \in CellOrNull :
         /\ cacheNodeNew(F.nc, rv)
         /\ \/ fault' /\ Goto("crashed", WithCell(f, rv))
            \/ ~fault' /\ Goto("selfdata", WithCell(f, rv))
            \/ ~fault' /\ Goto("content", WithCell(seen, rv))
    <2>1. Wanted(F) = TRUE
        BY <1>2 DEF Wanted
    <2> QED BY <2>1, <1>3, <1>4, <1>5 DEF ElementFound
<1>7. PICK g, h : g = WithCell(f, rv) /\ h = WithCell(seen, rv)
    OBVIOUS
<1>8. /\ g.nc = F.nc /\ g.nnc = rv /\ g.name = F.name /\ g.num = F.num /\ g.start = F.start
      /\ h.nc = F.nc /\ h.nnc = rv /\ h.name = F.name /\ h.num = F.num /\ h.start = F.start
      /\ h.starttag
    BY <1>2, <1>4, <1>5, <1>7 DEF WithCell, Frame
<1>9. Fresh(rv)'
    BY <1>1, <1>6, NewCell DEF Fresh
<1>10. ClientOK("selfdata", g)' /\ ClientOK("content", h)'
    BY <1>8, <1>9 DEF ClientOK, Fresh
<1>11. \/ fault' /\ calls' = SetTop(g) /\ pc' = "crashed"
       \/ ~fault' /\ calls' = SetTop(g) /\ pc' = "selfdata"
       \/ ~fault' /\ calls' = SetTop(h) /\ pc' = "content"
    BY <1>6, <1>7 DEF Goto
<1>12. {"crashed", "selfdata", "content"} \subseteq On
    BY DEF On, Inside1
<1>13. P!NewNode
    BY <1>1, <1>6, <1>8, <1>11, <1>12, NodeIsNewNode
<1>14. Nested' /\ Clients'
    BY <1>1, <1>8, <1>10, <1>11, <1>12, GotoClients
<1> QED BY <1>13, <1>14 DEF Obeys, P!Next

\* cacheDataSet, of the cell that was made last.
LEMMA DataIsSetData ==
    ASSUME RInv, SInv', calls # <<>>, pc \notin {"enter", "crashed"}, Keep,
           NEW p \in Sections, cacheDataSet(F.nnc, p),
           NEW f, f.name = F.name, f.num = F.num, f.start = F.start,
           Cell(f) = Cell(F), ClientOK("head", f), Goto("head", f)
    PROVE  Obeys
<1>1. calls' = SetTop(f) /\ pc' = "head" /\ "head" \in On
    BY DEF Goto, On, Inside1
<1>2. UNCHANGED <<clientLevels, clientPhase>> /\ clientPhase = "scanning" /\ P!Top = Cell(F)
    BY <1>1, GotoLevels
<1>3. ~fault /\ UNCHANGED <<fault, max_nodes, doc, root>>
    BY DEF RInv, Clients, cacheDataSet, Keep
<1>4. p \in Payloads /\ P!cacheDataSet(P!Top.nnc, p)
    BY <1>2, BoundsAssumption, SameOperationsP DEF Cell
<1>5. P!SetData
    BY <1>2, <1>3, <1>4 DEF P!SetData, P!Scanning
<1>6. ClientOK("head", f)'
    BY <1>3, SameClient
<1>7. Nested' /\ Clients'
    BY <1>1, <1>3, <1>6, GotoClients
<1> QED BY <1>5, <1>7 DEF Obeys, P!Next

LEMMA BlockDataObeys == RInv /\ SInv' /\ BlockData => Obeys
<1> SUFFICES ASSUME RInv, SInv', BlockData PROVE Obeys
    OBVIOUS
<1>1. calls # <<>> /\ pc = "blockdata" /\ Keep /\ SInv
    BY DEF RInv, SInv, Places, Inside1, BlockData
<1>2. TagsFrom(F.cur) # {} /\ IsBlock(T) /\ IsCase
    BY <1>1, Here DEF PlaceOK, Inside1, T
<1>3. PICK p \in Sections : p = BlockSection(T)
    BY <1>1, <1>2, HereTag, BlockFacts
<1>4. PICK f \in Frame : f = F
    BY <1>1, HereClient
<1>5. PICK g, cur : cur = BlockEnd(T) /\ g = Head1(f, cur)
    OBVIOUS
<1>6. /\ g.name = f.name /\ g.num = f.num /\ g.start = f.start
      /\ Cell(g) = Cell(f) /\ ClientOK("head", g)
    BY <1>1, <1>5, HeadClient
<1>7. cacheDataSet(F.nnc, p) /\ Goto("head", g)
    BY <1>3, <1>4, <1>5 DEF BlockData
<1> QED BY <1>1, <1>4, <1>6, <1>7, DataIsSetData

LEMMA SelfDataObeys == RInv /\ SInv' /\ SelfData => Obeys
<1> SUFFICES ASSUME RInv, SInv', SelfData PROVE Obeys
    OBVIOUS
<1>1. calls # <<>> /\ pc = "selfdata" /\ Keep /\ SInv
    BY DEF RInv, SInv, Places, Inside1, SelfData
<1>2. /\ F \in Frame /\ F.num = AllNums /\ Wanted(F) /\ F.found \in Nat
      /\ F.cur \in Nat /\ F.cur <= End /\ End \in Nat /\ IsCase
      /\ F.rptr \in Nat /\ F.rptr <= F.cur /\ F.element \in Names
    <2>1. F.rptr # NoPos
        BY <1>1, Here DEF PlaceOK, Inside1
    <2> QED BY <1>1, <2>1, HereClient, Here DEF FrameOK
<1>3. PICK p \in Sections : p = [name |-> F.element, from |-> F.rptr, len |-> 0]
    <2>1. PICK from \in Nat, to \in Nat, name \in Names :
              from = F.rptr /\ to = F.rptr /\ name = F.element
        BY <1>2
    <2>2. from <= to /\ to <= End /\ to - from = 0
        BY <1>2, <2>1
    <2>3. [name |-> name, from |-> from, len |-> to - from] \in Sections
        BY <1>2, <2>2, SectionType
    <2> QED BY <2>1, <2>2, <2>3
<1>4. PICK e : e = [F EXCEPT !.rv = F.cur, !.buf = F.cur, !.len = 0]
    OBVIOUS
<1>5. PICK f : f = [e EXCEPT !.found = @ + 1]
    OBVIOUS
<1>6. PICK cur, g : cur = F.cur /\ g = Head1(f, cur)
    OBVIOUS
<1>7. e \in Frame /\ f \in Frame
    <2>1. e \in Frame
        <3>1. PICK at, b, z : at = F.cur /\ b = F.cur /\ z = 0
            OBVIOUS
        <3>2. at \in Nat /\ b \in Int /\ z \in Int
            BY <1>2, <3>1
        <3>3. PICK h \in Frame : h = F
            BY <1>2
        <3>4. e = [h EXCEPT !.rv = at, !.buf = b, !.len = z]
            BY <1>4, <3>1, <3>3
        <3> QED BY <3>2, <3>4 DEF Frame
    <2>2. e.found + 1 \in Nat
        BY <2>1 DEF Frame
    <2> QED BY <2>1, <2>2, <1>5 DEF Frame
<1>8. /\ f.name = F.name /\ f.num = F.num /\ f.start = F.start /\ Cell(f) = Cell(F)
    BY <1>2, <1>4, <1>5 DEF Frame, Cell
<1>9. /\ g.name = f.name /\ g.num = f.num /\ g.start = f.start
      /\ Cell(g) = Cell(f) /\ ClientOK("head", g)
    BY <1>1, <1>6, <1>7, HeadClient
<1>10. cacheDataSet(F.nnc, p) /\ Goto("head", g)
    BY <1>2, <1>3, <1>4, <1>5, <1>6 DEF SelfData
<1> QED BY <1>1, <1>8, <1>9, <1>10, DataIsSetData

\* The end of a section: its opening tag was asked for.
LEMMA ClosingMatchObeys == RInv /\ SInv' /\ ClosingMatch => Obeys
<1> SUFFICES ASSUME RInv, SInv', ClosingMatch PROVE Obeys
    OBVIOUS
<1>1. calls # <<>> /\ pc = "closing" /\ Keep /\ SInv /\ At(T) = F.cur
    BY ClosingFacts DEF RInv, ClosingMatch
<1>2. /\ F \in Frame /\ F.num = AllNums /\ Wanted(F) /\ F.starttag
      /\ F.cur \in Nat /\ F.cur <= End /\ End \in Nat /\ IsCase
      /\ F.rptr \in Nat /\ F.rptr <= F.cur /\ F.element \in Names
      /\ F.rv \in Nat \cup {NoPos}
    <2>1. F.starttag
        BY <1>1 DEF RInv, Clients, ClientOK, Inside1
    <2> QED BY <1>1, <2>1, HereClient, Here DEF FrameOK, ClosingMatch
<1>3. PICK at \in Nat : at = At(T)
    BY <1>1, <1>2
<1>4. PICK p \in Sections :
         p = [name |-> F.element, from |-> F.rptr, len |-> At(T) - F.rptr]
    <2>1. PICK from \in Nat, name \in Names : from = F.rptr /\ name = F.element
        BY <1>2
    <2>2. from <= at /\ at <= End
        BY <1>1, <1>2, <1>3, <2>1
    <2>3. [name |-> name, from |-> from, len |-> at - from] \in Sections
        BY <1>2, <2>2, SectionType
    <2> QED BY <1>3, <2>1, <2>3
<1>5. PICK len \in Int : len = At(T) - F.rv
    BY <1>1, <1>2 DEF NoPos
<1>6. PICK e : e = [F EXCEPT !.len = len, !.starttag = FALSE]
    OBVIOUS
<1>7. PICK f : f = [e EXCEPT !.found = @ + 1]
    OBVIOUS
<1>8. PICK cur, g : cur = Ps + 1 /\ g = Head1(f, cur)
    OBVIOUS
<1>9. e \in Frame /\ f \in Frame
    <2>1. e \in Frame
        BY <1>2, <1>6 DEF Frame
    <2>2. e.found + 1 \in Nat
        BY <2>1 DEF Frame
    <2> QED BY <2>1, <2>2, <1>7 DEF Frame
<1>10. f.name = F.name /\ f.num = F.num /\ f.start = F.start /\ Cell(f) = Cell(F)
    BY <1>2, <1>6, <1>7 DEF Frame, Cell
<1>11. /\ g.name = f.name /\ g.num = f.num /\ g.start = f.start
       /\ Cell(g) = Cell(f) /\ ClientOK("head", g)
    BY <1>1, <1>8, <1>9, HeadClient
<1>12. cacheDataSet(F.nnc, p) /\ Goto("head", g)
    BY <1>2, <1>4, <1>5, <1>6, <1>7, <1>8 DEF ClosingMatch
<1> QED BY <1>1, <1>10, <1>11, <1>12, DataIsSetData

\* The close, after the outermost call.
LEMMA OutsideObeys == RInv /\ SInv' /\ (Finish \/ Release \/ FreeStep \/ Closed) => Obeys
<1> SUFFICES ASSUME RInv, SInv', Finish \/ Release \/ FreeStep \/ Closed PROVE Obeys
    OBVIOUS
<1>1. /\ calls = <<>> /\ calls' = <<>> /\ UNCHANGED <<calls, root>>
      /\ pc \in {"return", "done", "free"} /\ pc' \in {"done", "free", "closed"}
    BY DEF RInv, SInv, Places, Outside, Inside1, Finish, Release, FreeStep, Closed, Keep,
           Quiet, scanVars
<1>2. UNCHANGED clientLevels
    BY <1>1 DEF clientLevels
<1>3. clientLevels = <<>> /\ ~fault
    <2>1. clientPhase # "scanning"
        BY <1>1 DEF clientPhase
    <2>2. clientLevels = <<>>
        BY <2>1 DEF RInv, P!IInv, P!PhaseOK
    <2>3. ~fault
        BY <1>1 DEF RInv, Clients
    <2> QED BY <2>2, <2>3
<1>4. CASE Finish
    <2>1. UNCHANGED clientPhase
        BY <1>1, <1>4 DEF Finish, clientPhase
    <2>2. UNCHANGED P!vars /\ ~fault'
        BY <1>1, <1>2, <1>3, <1>4, <2>1, SameCacheVars DEF Finish, Quiet, P!vars, cacheVars
    <2> QED BY <2>2, <1>1 DEF Obeys, Nested, Clients, Inside1
<1>5. CASE Release
    <2>1. clientPhase = "scanned" /\ clientPhase' = "freeing"
        BY <1>1, <1>5 DEF Release, clientPhase
    <2>2. FreeCall(root) /\ UNCHANGED fault
        BY <1>5 DEF Release, FreeCall
    <2>3. P!Free
        BY <1>1, <1>2, <1>3, <2>1, <2>2, SameOperationsP DEF P!Free
    <2> QED BY <1>1, <1>3, <2>2, <2>3 DEF Obeys, P!Next, Nested, Clients, Inside1
<1>6. CASE FreeStep
    <2>1. clientPhase = "freeing" /\ clientPhase' = "freeing"
        BY <1>6 DEF FreeStep, clientPhase, scanVars
    <2>2. FreeChild \/ FreeSelf
        BY <1>6 DEF FreeStep
    <2>3. P!FreeStep
        BY <1>1, <1>2, <2>1, <2>2, SameOperationsP DEF P!FreeStep
    <2>4. P!IInv'
        BY <2>3, CacheStep DEF P!Next, RInv
    <2>5. ~fault'
        BY <2>1, <2>4 DEF P!IInv, P!PhaseOK
    <2> QED BY <1>1, <2>3, <2>5 DEF Obeys, P!Next, Nested, Clients, Inside1
<1>7. CASE Closed
    <2>1. clientPhase = "freeing" /\ clientPhase' = "closed"
        BY <1>7 DEF Closed, clientPhase
    <2>2. frames = <<>> /\ UNCHANGED <<cacheVars, fault>>
        BY <1>7 DEF Closed, Quiet, cacheVars
    <2>3. P!Closed
        BY <1>1, <1>2, <2>1, <2>2, SameCacheVars DEF P!Closed
    <2> QED BY <1>1, <1>3, <2>2, <2>3 DEF Obeys, P!Next, Nested, Clients, Inside1
<1> QED BY <1>4, <1>5, <1>6, <1>7

LEMMA StutterObeys == RInv /\ (Stopped \/ UNCHANGED vars) => Obeys
<1> SUFFICES ASSUME RInv, UNCHANGED vars PROVE Obeys
    BY DEF Stopped
<1>1. UNCHANGED <<doc, pc, calls, root, cacheVars, max_nodes, fault>>
    BY DEF vars, scanVars, cacheVars, treeVars
<1>2. UNCHANGED <<clientLevels, clientPhase>>
    BY <1>1 DEF clientLevels, clientPhase
<1>3. UNCHANGED P!vars
    BY <1>1, <1>2, SameCacheVars DEF P!vars
<1>4. Nested'
    BY <1>1 DEF RInv, Nested
<1>5. Clients'
    <2>1. \A place, f : ClientOK(place, f) => ClientOK(place, f)'
        BY <1>1, SameClient
    <2>2. ClientOK(pc, F)' <=> ClientOK(pc, F)
        BY <1>1 DEF ClientOK, Fresh, SameName, NextTag, TagsFrom, Kind, At, F
    <2> QED BY <1>1, <2>2 DEF RInv, Clients, F
<1> QED BY <1>3, <1>4, <1>5 DEF Obeys

-----------------------------------------------------------------------------
(* The invariant and the theorem. *)

LEMMA StepObeys == RInv /\ SInv' /\ [Next]_vars => Obeys
BY StartObeys, EnterTooShortObeys, EnterObeys, EndsObey, ToClosingObeys, SkipsObey,
   MovesObey, NothingIsOther, CallsObey, BlockNodeObeys, ElementFoundObeys,
   BlockDataObeys, SelfDataObeys, ClosingMatchObeys, OutsideObeys, StutterObeys
   DEF Next, ScanStep

\* What is scanned for what does not change.
LEMMA SameCase == [Next]_vars => UNCHANGED <<doc, req, mode>>
BY DEF Next, ScanStep, Start, EnterTooShort, Enter, NoMoreTags, EndOfSubsection,
       ElementCloses, CloseBeforeOpen, BlockCutOff, BlockSkipped, BlockNode, BlockData,
       TagCutOff, ElementFound, SelfData, ElementOther, ElementTooLong, OpenAtEnd,
       ContentEnds, ContentBlock, ContentCutOff, ContentClose, ContentChild,
       ClosingOther, ClosingPassedOver, ClosingMatch, ClosingMismatch, Resume, Unwind,
       Finish, Release, FreeStep, Closed, Stopped, Keep, Quiet, vars, scanVars

LEMMA RStep == RInv /\ [Next]_vars => RInv' /\ [P!Next]_(P!vars)
<1> SUFFICES ASSUME RInv, [Next]_vars PROVE RInv' /\ [P!Next]_(P!vars)
    OBVIOUS
<1>1. SInv'
    BY SStep DEF RInv
<1>2. [P!Next]_(P!vars) /\ Nested' /\ Clients'
    BY <1>1, StepObeys DEF Obeys
<1>3. P!IInv'
    BY <1>2, CacheStep DEF RInv
<1>4. AnOpen'
    BY SameCase DEF RInv, AnOpen, cached
<1> QED BY <1>1, <1>2, <1>3, <1>4 DEF RInv

LEMMA RInit == AnOpen /\ Init => RInv /\ P!Init
<1> SUFFICES ASSUME AnOpen, Init PROVE RInv /\ P!Init
    OBVIOUS
<1>1. calls = <<>> /\ pc = "start" /\ root = NULL /\ CacheInit /\ Len(<<>>) = 0
    BY DEF Init
<1>2. clientPhase = "start"
    BY <1>1 DEF clientPhase
<1>3. clientLevels = <<>>
    <2>1. clientLevels = [i \in 1 .. 0 |-> Cell(calls[i])]
        BY <1>1 DEF clientLevels, Cell
    <2> QED BY <2>1
<1>4. P!Init
    BY <1>1, <1>2, <1>3, SameOperationsP
       DEF P!Init, P!CacheInit, CacheInit, P!Cells, Cells, P!NoArray, NoArray, P!NULL, NULL
<1>5. Nested /\ Clients
    BY <1>1 DEF Nested, Clients, Inside1, CacheInit
<1> QED BY <1>4, <1>5, SInit, CacheInvInit DEF RInv

LEMMA OpeningIs == Opening /\ Init => AnOpen
BY DEF Opening, Init, AnOpen, cached

\* While it opens a document and while the document is closed, __zeroxml_get_node
\* calls the cache as CacheClient has it, whatever the text and whichever
\* allocations fail: it gives no cell two levels, adds to the level it is in, sets
\* the data of the cell it has made last, and frees the root once.
THEOREM ScannerIsClient == Opening /\ Spec => ObeysClient
<1>1. Opening /\ Init => RInv /\ Client!Init
    BY OpeningIs, RInit, SameInit
<1>2. RInv /\ [Next]_vars => RInv' /\ [Client!Next]_(Client!vars)
    BY RStep, SameNext, SameVars
<1>3. QED
    BY <1>1, <1>2, PTL DEF Spec, ObeysClient, Opening

-----------------------------------------------------------------------------
(* What is proved of the cache holds for the tree of a document. *)

LEMMA CacheTreeInit == P!Countable /\ P!Init => P!OInv
<1> SUFFICES ASSUME P!Countable, P!Init PROVE P!OInv
    OBVIOUS
<1>1. P!LInv
    BY P!LInitOK, CacheAssumption, PayloadAssumption, DepthOK
<1>2. frames = <<>> /\ P!Rises
    BY DEF P!Init, P!CacheInit, P!Rises, P!Slot
<1> QED BY <1>1, <1>2 DEF P!OInv, P!Ordered

LEMMA CacheTreeStep ==
    P!OInv /\ [P!Next]_(P!vars) => P!OInv' /\ [P!Tree!TNext]_(P!Tree!tvars)
BY P!OStep, P!StepIsTree, CacheAssumption, PayloadAssumption, DepthOK

LEMMA OpenedInvariance == Opening /\ P!Countable /\ Spec => [](RInv /\ P!OInv)
<1>1. Opening /\ P!Countable /\ Init => RInv /\ P!OInv
    BY OpeningIs, RInit, CacheTreeInit
<1>2. RInv /\ P!OInv /\ [Next]_vars => RInv' /\ P!OInv'
    BY RStep, CacheTreeStep
<1> QED BY <1>1, <1>2, PTL DEF Spec, Opening

\* Whatever the text and whichever allocations fail, an open follows a bad pointer
\* only below a cell whose first block could not be allocated, and the close that
\* follows it touches no cell it has freed.
THEOREM OpenFaultsTraced == Opening /\ Spec => []P!FaultIsFailedLevel
<1>1. Opening /\ Init => RInv
    BY OpeningIs, RInit
<1>2. RInv => P!FaultIsFailedLevel
    BY DEF RInv, P!IInv, P!PhaseOK, P!FaultIsFailedLevel
<1> QED BY <1>1, <1>2, RStep, PTL DEF Spec, Opening

\* What an open caches is one tree, also when it fails half-way, and the close
\* frees all of it, if there are no more cells than a short int counts.
THEOREM OpenedTreeIsFreed ==
    Opening /\ P!Countable /\ Spec => []P!OneTree /\ [](pc = "closed" => live = {})
<1>1. RInv /\ P!OInv => P!OneTree
    BY P!LInvIsOneTree, CacheAssumption, PayloadAssumption, DepthOK DEF P!OInv
<1>2. RInv /\ P!OInv => (pc = "closed" => live = {})
    BY DEF P!OInv, P!LInv, P!AllFreed, clientPhase
<1> QED BY <1>1, <1>2, OpenedInvariance, PTL

\* An open builds the ordered tree of CacheTree node by node and the close takes it
\* down from the leaves: the scanner with its cache implements the tree.
THEOREM OpenIsTree == Opening /\ P!Countable /\ Spec => P!IsTree
<1>1. Opening /\ Init => P!Tree!TInit
    BY OpeningIs, RInit, P!InitIsTree, CacheAssumption, PayloadAssumption, DepthOK
<1>2. RInv /\ P!OInv /\ [Next]_vars => [P!Tree!TNext]_(P!Tree!tvars)
    BY RStep, CacheTreeStep
<1> QED BY <1>1, <1>2, OpenedInvariance, PTL DEF Spec, P!IsTree, P!Tree!TSpec

-----------------------------------------------------------------------------
(* The cells and the elements. *)

\* No allocation has failed, and a short int counts the cells.
Complete == failed = 0 /\ P!Countable

\* The cells of elements: all but the root, those of blocks and, while it is
\* empty, the one of the block that is scanned.
IsElement(n, block) ==
    /\ n \in live \ {root} /\ n # block
    /\ payload[n] # Blank => payload[n].name # BlockName

\* Cell n hangs below the cell of the element its element is in.
Hangs(el, n, block) ==
    IF Parent(doc, el[n]) = 0 THEN parent[n] = root
    ELSE IsElement(parent[n], block) /\ el[parent[n]] = Parent(doc, el[n])

\* Of the first t tokens: cell n is that of element el[n], and says so unless it
\* waits for the end of its element.
Described(el, t, waiting, block) ==
    \A n \in live : IsElement(n, block) =>
        /\ el[n] \in Elements(doc) /\ el[n] <= t
        /\ n \notin waiting => payload[n] = Entry(el[n])
        /\ Hangs(el, n, block)

\* The cells come in the order of the elements.
InOrder(el, block) ==
    \A m, n \in live :
        IsElement(m, block) /\ IsElement(n, block) /\ m < n => el[m] < el[n]

\* Every element has its cell.
AllThere(el, t, block) ==
    /\ root # NULL
    /\ \A i \in Elements(doc) : i <= t => \E n \in live : IsElement(n, block) /\ el[n] = i

TreeOK(el, t, waiting, block) ==
    /\ el \in [Cells -> Nat]
    /\ Described(el, t, waiting, block) /\ InOrder(el, block)
    /\ Complete => AllThere(el, t, block)
    /\ \A n \in Cells \ live : payload[n] = Blank

\* What is known of the heap while an activation scans.
Heap ==
    /\ used \in Nat /\ live = 1 .. used /\ live \subseteq Cells /\ NULL \notin live
    /\ failed \in Nat /\ parent \in [Cells -> CellOrNull]
    /\ payload \in [Cells -> Payloads \cup {Blank}]
    /\ root = IF used = 0 THEN NULL ELSE 1

\* The invariants this one rests on.
Base == RInv /\ (P!Countable => P!OInv)

\* Before the close the heap is as Heap says.
LEMMA HeapFacts ==
    ASSUME RInv, pc \notin {"free", "closed"}
    PROVE  Heap
<1>1. clientPhase \notin {"freeing", "closed"}
    BY DEF clientPhase
<1>2. /\ used \in 0 .. MaxCells /\ failed \in 0 .. MaxFailures
      /\ parent \in [Cells -> CellOrNull] /\ payload \in [Cells -> Payloads \cup {Blank}]
    BY SameOperationsP DEF RInv, P!IInv, P!Types, P!Cells, Cells
<1>3. live = 1 .. used /\ root = IF used = 0 THEN NULL ELSE 1
    BY <1>1, SameOperationsP DEF RInv, P!IInv, P!PhaseOK
<1>4. MaxCells \in Nat /\ MaxFailures \in Nat
    BY CacheAssumption
<1>5. 1 .. used \subseteq Cells /\ 0 \notin 1 .. used
    BY <1>2, <1>4 DEF Cells
<1> QED BY <1>2, <1>3, <1>4, <1>5 DEF Heap, NULL

\* The text and what the elements are does not change.
LEMMA SameTokens ==
    ASSUME UNCHANGED doc
    PROVE  \A i : At(i)' = At(i) /\ Kind(i)' = Kind(i)
BY DEF At, Kind

\* No step changes what a cell should say,
LEMMA SameEntries ==
    ASSUME UNCHANGED doc
    PROVE  \A i : Entry(i)' = Entry(i)
BY SameTokens DEF Entry

\* or which tag is the next,
LEMMA SameTags ==
    ASSUME UNCHANGED doc
    PROVE  \A cur : TagsFrom(cur)' = TagsFrom(cur) /\ NextTag(cur)' = NextTag(cur)
BY SameTokens DEF TagsFrom, NextTag

\* or what lies behind a cursor,
LEMMA SameBehind ==
    ASSUME UNCHANGED doc
    PROVE  \A cur, t : Behind(cur, t)' <=> Behind(cur, t)
BY SameTokens DEF Behind

\* or the text.
LEMMA SameGood == ASSUME UNCHANGED doc PROVE GoodText' <=> GoodText
BY SameTokens DEF GoodText

\* Hangs, with the parent of the cell named, now
LEMMA HangsNow ==
    ASSUME NEW el, NEW n, NEW block, NEW p, p = parent[n]
    PROVE  Hangs(el, n, block) <=> IF Parent(doc, el[n]) = 0 THEN p = root
                                   ELSE IsElement(p, block) /\ el[p] = Parent(doc, el[n])
BY DEF Hangs

\* and after a step.
LEMMA HangsThen ==
    ASSUME UNCHANGED <<doc, root>>, NEW el, NEW n, NEW block, NEW p, p = parent'[n]
    PROVE  Hangs(el, n, block)' <=> IF Parent(doc, el[n]) = 0 THEN p = root
                                    ELSE IsElement(p, block)' /\ el[p] = Parent(doc, el[n])
BY DEF Hangs, IsElement

\* Cells that hang where they hung.
LEMMA HangsStill ==
    ASSUME UNCHANGED <<doc, root>>, NEW el, NEW el2, NEW n, NEW block, NEW block2,
           parent'[n] = parent[n], el2[n] = el[n], Hangs(el, n, block),
           \A p : IsElement(p, block) => IsElement(p, block2)' /\ el2[p] = el[p]
    PROVE  Hangs(el2, n, block2)'
<1>1. PICK p : p = parent[n]
    OBVIOUS
<1> QED BY <1>1, HangsNow, HangsThen

\* A step that does nothing to the cells.
LEMMA SameTree ==
    ASSUME UNCHANGED <<doc, payload, parent, live, root>>, failed' = 0 => failed = 0,
           NEW el, NEW t, NEW waiting, NEW block, TreeOK(el, t, waiting, block)
    PROVE  TreeOK(el, t, waiting, block)'
<1>1. \A n : IsElement(n, block)' <=> IsElement(n, block)
    BY DEF IsElement
<1>2. Described(el, t, waiting, block)'
    <2>1. \A i : Entry(i)' = Entry(i)
        BY SameEntries
    <2>2. Described(el, t, waiting, block)
        BY DEF TreeOK
    <2>3. \A n : Hangs(el, n, block) => Hangs(el, n, block)'
        BY <1>1, HangsStill
    <2> QED BY <1>1, <2>1, <2>2, <2>3 DEF Described
<1>3. InOrder(el, block)'
    BY <1>1 DEF TreeOK, InOrder
<1>4. Complete' => AllThere(el, t, block)'
    BY <1>1 DEF TreeOK, AllThere, Complete
<1> QED BY <1>2, <1>3, <1>4 DEF TreeOK

\* The scan comes past tokens that are no elements, and more cells may wait.
LEMMA TreeLater ==
    ASSUME IsCase, NEW el, NEW t \in Nat, NEW u \in Nat, NEW waiting, NEW more, NEW block,
           TreeOK(el, t, waiting, block), t <= u, waiting \subseteq more,
           \A e \in Elements(doc) : e <= u => e <= t
    PROVE  TreeOK(el, u, more, block)
<1>1. \A e \in Elements(doc) : e \in Nat
    BY CaseFacts DEF Elements
<1>2. Described(el, u, more, block)
    BY <1>1 DEF TreeOK, Described
<1>3. Complete => AllThere(el, u, block)
    BY DEF TreeOK, AllThere
<1> QED BY <1>2, <1>3 DEF TreeOK

\* cacheNodeNew without a fault.
LEMMA NodeIs ==
    ASSUME Base, pc = "head", NEW nc \in CellOrNull, NEW rv \in CellOrNull,
           cacheNodeNew(nc, rv), ~fault, ~fault'
    PROVE  /\ payload' = payload
           /\ rv # NULL => /\ rv = used + 1 /\ rv \in Cells /\ rv \notin live /\ nc # NULL
                           /\ live' = live \cup {rv} /\ used' = rv
                           /\ parent' = [parent EXCEPT ![rv] = nc]
           /\ rv = NULL => UNCHANGED <<live, parent, used>>
           /\ Complete' => Complete /\ (rv # NULL \/ nc = NULL)
<1>1. Heap
    BY HeapFacts DEF Base
<1>2. CASE nc = NULL /\ rv = NULL /\ UNCHANGED cacheVars
    BY <1>2 DEF cacheVars, treeVars, heapVars, Complete
<1>3. CASE nc # NULL /\ rv = NULL /\ ReallocFails(nc)
    <2>1. UNCHANGED <<payload, live, parent, used>>
        BY <1>3 DEF ReallocFails, treeVars
    <2>2. ASSUME Complete' PROVE FALSE
        <3>1. P!Countable /\ failed' = 0
            BY <2>2 DEF Complete
        <3>2. P!NoWrap
            BY <3>1 DEF Base, P!OInv, P!LInv
        <3>3. nc \in Cells
            BY <1>3 DEF CellOrNull
        <3>4. 0 <= no_nodes[nc] /\ no_nodes[nc] = max_nodes[nc] /\ no_nodes[nc] \in Int
            <4>1. no_nodes \in [Cells -> Int]
                BY SameOperationsP DEF Base, RInv, P!IInv, P!Types, P!Cells, Cells
            <4> QED BY <3>2, <3>3, <4>1, <1>3, SameOperationsP
                    DEF P!NoWrap, P!Cells, Cells, ReallocFails, IsFull
        <3>5. NewSize(nc) > 0
            BY <3>4, CacheAssumption DEF NewSize
        <3>6. failed' = failed + 1 /\ failed \in Nat
            BY <3>5, <1>1, <1>3 DEF ReallocFails, AllocFails, Heap
        <3> QED BY <3>1, <3>6
    <2> QED BY <2>1, <2>2, <1>3
<1>4. CASE nc # NULL /\ StoreNode(nc, rv)
    <2>1. payload' = payload /\ CellNew(rv)
        BY <1>4 DEF StoreNode
    <2>2. CASE rv # NULL
        <3>1. rv = used + 1 /\ used' = rv /\ live' = live \cup {rv} /\ UNCHANGED failed
            BY <2>1, <2>2 DEF CellNew
        <3>2. parent' = [parent EXCEPT ![rv] = nc]
            BY <2>2, <1>4 DEF StoreNode
        <3>3. rv \in Cells /\ rv \notin live
            BY <3>1, <2>2, <1>1 DEF Heap, CellOrNull
        <3> QED BY <2>1, <2>2, <3>1, <3>2, <3>3, <1>4 DEF Complete
    <2>3. CASE rv = NULL
        <3>1. used + 1 # NULL
            BY <1>1 DEF Heap, NULL
        <3>2. AllocFails /\ UNCHANGED <<used, live>>
            BY <3>1, <2>1, <2>3 DEF CellNew
        <3>3. UNCHANGED parent
            BY <2>3, <1>4 DEF StoreNode
        <3>4. failed' # 0
            BY <3>2, <1>1 DEF AllocFails, Heap
        <3> QED BY <2>1, <2>3, <3>2, <3>3, <3>4 DEF Complete
    <2> QED BY <2>2, <2>3
<1> QED BY <1>2, <1>3, <1>4 DEF cacheNodeNew, StoreAstray

\* The new cell, if there is one, is that of the element at the tag.
Sees(el, rv, tag) == IF rv = NULL THEN el ELSE [el EXCEPT ![rv] = tag]

\* cacheNodeNew for the element at a tag.
LEMMA AddElement ==
    ASSUME Base, pc = "head", IsCase, NEW nc \in CellOrNull, NEW rv \in CellOrNull,
           cacheNodeNew(nc, rv), ~fault, ~fault', UNCHANGED <<doc, root>>,
           NEW el, NEW t \in Nat, NEW waiting, TreeOK(el, t, waiting, NULL),
           NEW tag \in Elements(doc), t < tag, \A e \in Elements(doc) : e <= tag - 1 => e <= t,
           nc # NULL => IF Parent(doc, tag) = 0 THEN nc = root
                        ELSE IsElement(nc, NULL) /\ el[nc] = Parent(doc, tag),
           Complete => nc # NULL,
           NEW el2, el2 = Sees(el, rv, tag)
    PROVE  /\ TreeOK(el2, tag, waiting \cup {rv}, NULL)'
           /\ rv # NULL => rv \in live' \ {root'} /\ payload'[rv] = Blank /\ el2[rv] = tag
           /\ \A n \in live : el2[n] = el[n] /\ payload'[n] = payload[n] /\ n \in live'
           /\ Complete' => rv # NULL
<1> USE DEF Sees
<1>1. Heap
    BY HeapFacts DEF Base
<1>2. /\ payload' = payload
      /\ rv # NULL => /\ rv = used + 1 /\ rv \in Cells /\ rv \notin live /\ nc # NULL
                      /\ live' = live \cup {rv} /\ used' = rv
                      /\ parent' = [parent EXCEPT ![rv] = nc]
      /\ rv = NULL => UNCHANGED <<live, parent, used>>
      /\ Complete' => Complete /\ (rv # NULL \/ nc = NULL)
    BY NodeIs
<1>3. Complete' => Complete /\ rv # NULL
    BY <1>2
<1>4. \A i : Entry(i)' = Entry(i)
    BY SameEntries
<1>5. tag \in Nat /\ \A e \in Elements(doc) : e \in Nat /\ (e <= tag => e <= t \/ e = tag)
    BY CaseFacts DEF Elements
<1>6. el \in [Cells -> Nat] /\ Described(el, t, waiting, NULL) /\ InOrder(el, NULL)
    BY DEF TreeOK
<1>7. CASE rv = NULL
    <2>1. \A n : IsElement(n, NULL)' <=> IsElement(n, NULL)
        BY <1>2, <1>7 DEF IsElement
    <2>2. Described(el, tag, waiting \cup {rv}, NULL)'
        <3>1. \A n : Hangs(el, n, NULL) => Hangs(el, n, NULL)'
            BY <2>1, <1>2, <1>7, HangsStill
        <3> SUFFICES ASSUME NEW n \in live', IsElement(n, NULL)'
                     PROVE  /\ el[n] \in Elements(doc) /\ el[n] <= tag
                            /\ n \notin waiting \cup {rv} => payload[n] = Entry(el[n])
                            /\ Hangs(el, n, NULL)'
            BY <1>2, <1>4 DEF Described
        <3>2. n \in live /\ IsElement(n, NULL)
            BY <2>1, <1>2, <1>7
        <3>3. /\ el[n] \in Elements(doc) /\ el[n] <= t
              /\ n \notin waiting => payload[n] = Entry(el[n])
              /\ Hangs(el, n, NULL)
            BY <3>2, <1>6 DEF Described
        <3>4. el[n] <= tag
            <4>1. PICK k \in Nat : k = el[n]
                BY <3>3, <1>5
            <4>2. k <= t /\ tag \in Nat
                BY <4>1, <3>3, <1>5
            <4> QED BY ONLY <4>1, <4>2, t < tag, t \in Nat
        <3>5. Hangs(el, n, NULL)'
            BY <3>1, <3>3
        <3> QED BY <3>3, <3>4, <3>5, <1>2
    <2>3. InOrder(el, NULL)'
        BY <2>1, <1>2, <1>6, <1>7 DEF InOrder
    <2>4. \A n \in live : payload'[n] = payload[n] /\ n \in live'
        BY <1>2, <1>7
    <2>5. \A n \in Cells \ live' : payload'[n] = Blank
        BY <1>2, <1>7 DEF TreeOK
    <2> QED BY <2>2, <2>3, <2>4, <2>5, <1>3, <1>6, <1>7 DEF TreeOK
<1>8. CASE rv # NULL
    <2>1. /\ rv = used + 1 /\ rv \in Cells /\ rv \notin live /\ nc # NULL
          /\ live' = live \cup {rv} /\ parent' = [parent EXCEPT ![rv] = nc]
        BY <1>2, <1>8
    <2>2. /\ el2 \in [Cells -> Nat] /\ el2[rv] = tag
          /\ \A n \in live : n \in Cells /\ n # rv /\ n < rv /\ n \in Nat /\ el2[n] = el[n]
                             /\ parent'[n] = parent[n]
        BY <2>1, <1>1, <1>5, <1>6, <1>8 DEF Heap
    <2>3. rv # root /\ payload[rv] = Blank
        BY <2>1, <1>1, <1>2 DEF Heap, TreeOK, NULL
    <2>4. \A n \in live : IsElement(n, NULL)' <=> IsElement(n, NULL)
        BY <2>1, <1>2 DEF IsElement
    <2>5. IsElement(rv, NULL)'
        BY <2>1, <2>3, <1>2, <1>8 DEF IsElement
    <2>6. Described(el2, tag, waiting \cup {rv}, NULL)'
        <3>1. ASSUME NEW n \in live, IsElement(n, NULL)
              PROVE  /\ el2[n] \in Elements(doc) /\ el2[n] <= tag
                     /\ n \notin waiting => payload[n] = Entry(el2[n])
                     /\ Hangs(el2, n, NULL)'
            <4>1. /\ el[n] \in Elements(doc) /\ el[n] <= t
                  /\ n \notin waiting => payload[n] = Entry(el[n])
                  /\ Hangs(el, n, NULL)
                BY <3>1, <1>6 DEF Described
            <4>2. el2[n] = el[n] /\ parent'[n] = parent[n]
                BY <2>2
            <4>3. \A p : IsElement(p, NULL) => IsElement(p, NULL)' /\ el2[p] = el[p]
                BY <2>2, <2>4 DEF IsElement
            <4>4. Hangs(el2, n, NULL)'
                BY <4>1, <4>2, <4>3, HangsStill
            <4>5. el[n] <= tag
                <5>1. PICK k \in Nat : k = el[n]
                    BY <4>1, <1>5
                <5>2. k <= t /\ tag \in Nat
                    BY <5>1, <4>1, <1>5
                <5> QED BY ONLY <5>1, <5>2, t < tag, t \in Nat
            <4> QED BY <4>1, <4>2, <4>4, <4>5
        <3>2. Hangs(el2, rv, NULL)'
            <4>1. nc = parent'[rv]
                BY <2>1, <1>1 DEF Heap
            <4>2. IsElement(nc, NULL) => nc \in live
                BY DEF IsElement
            <4>3. IF Parent(doc, tag) = 0 THEN nc = root
                  ELSE IsElement(nc, NULL)' /\ el2[nc] = Parent(doc, tag)
                BY <4>2, <2>1, <2>2, <2>4
            <4>4. Hangs(el2, rv, NULL)' <=> IF Parent(doc, el2[rv]) = 0 THEN nc = root
                      ELSE IsElement(nc, NULL)' /\ el2[nc] = Parent(doc, el2[rv])
                <5>1. PICK k, e : k = rv /\ e = el2
                    OBVIOUS
                <5>2. Hangs(e, k, NULL)' <=> IF Parent(doc, e[k]) = 0 THEN nc = root
                          ELSE IsElement(nc, NULL)' /\ e[nc] = Parent(doc, e[k])
                    BY ONLY <4>1, <5>1, UNCHANGED <<doc, root>>, HangsThen
                <5> QED BY <5>1, <5>2
            <4>5. el2[rv] = tag
                BY <2>2
            <4> QED BY <4>3, <4>4, <4>5
        <3>3. tag <= tag
            BY <1>5
        <3> QED BY <3>1, <3>2, <3>3, <2>1, <2>2, <2>4, <1>2, <1>4 DEF Described
    <2>7. InOrder(el2, NULL)'
        <3> SUFFICES ASSUME NEW m \in live', NEW n \in live', IsElement(m, NULL)',
                            IsElement(n, NULL)', m < n
                     PROVE  el2[m] < el2[n]
            BY DEF InOrder
        <3>1. m \in live
            BY <2>1, <2>2, <1>1 DEF Heap
        <3>2. CASE n \in live
            <4>1. IsElement(m, NULL) /\ IsElement(n, NULL)
                BY <3>1, <3>2, <2>4
            <4> QED BY <3>1, <3>2, <4>1, <2>2, <1>6 DEF InOrder
        <3>3. CASE n = rv
            <4>1. IsElement(m, NULL)
                BY <3>1, <2>4
            <4>2. el[m] \in Elements(doc) /\ el[m] <= t
                BY <3>1, <4>1, <1>6 DEF Described
            <4> QED BY <3>1, <3>3, <4>2, <2>2, <1>5
        <3> QED BY <3>2, <3>3, <2>1
    <2>8. Complete' => AllThere(el2, tag, NULL)'
        <3> SUFFICES ASSUME Complete' PROVE AllThere(el2, tag, NULL)'
            OBVIOUS
        <3>1. AllThere(el, t, NULL)
            BY <1>3 DEF TreeOK
        <3>2. ASSUME NEW i \in Elements(doc), i <= tag
              PROVE  \E n \in live' : IsElement(n, NULL)' /\ el2[n] = i
            <4>1. CASE i = tag
                BY <4>1, <2>1, <2>2, <2>5
            <4>2. CASE i <= t
                <5>1. PICK n \in live : IsElement(n, NULL) /\ el[n] = i
                    BY <4>2, <3>1 DEF AllThere
                <5> QED BY <5>1, <2>1, <2>2, <2>4
            <4> QED BY <4>1, <4>2, <3>2, <1>5
        <3> QED BY <3>1, <3>2 DEF AllThere
    <2>9. \A n \in Cells \ live' : payload'[n] = Blank
        BY <2>1, <1>2 DEF TreeOK
    <2>10. \A n \in live : payload'[n] = payload[n] /\ n \in live'
        BY <2>1, <1>2
    <2> QED BY <2>1, <2>2, <2>3, <2>6, <2>7, <2>8, <2>9, <2>10, <1>2, <1>8 DEF TreeOK
<1> QED BY <1>7, <1>8

\* cacheNodeNew for a block.
LEMMA AddBlock ==
    ASSUME Base, pc = "head", NEW nc \in CellOrNull, NEW rv \in CellOrNull,
           cacheNodeNew(nc, rv), ~fault, ~fault', UNCHANGED <<doc, root>>,
           NEW el, NEW t \in Nat, NEW waiting, TreeOK(el, t, waiting, NULL)
    PROVE  /\ TreeOK(el, t, waiting, rv)'
           /\ rv # NULL => rv \in live' \ {root'} /\ payload'[rv] = Blank
           /\ \A n \in live : payload'[n] = payload[n] /\ n \in live'
           /\ Complete' => Complete
<1>1. Heap
    BY HeapFacts DEF Base
<1>2. /\ payload' = payload
      /\ rv # NULL => /\ rv = used + 1 /\ rv \in Cells /\ rv \notin live /\ nc # NULL
                      /\ live' = live \cup {rv} /\ used' = rv
                      /\ parent' = [parent EXCEPT ![rv] = nc]
      /\ rv = NULL => UNCHANGED <<live, parent, used>>
      /\ Complete' => Complete /\ (rv # NULL \/ nc = NULL)
    BY NodeIs
<1>3. \A i : Entry(i)' = Entry(i)
    BY SameEntries
<1>4. \A n : IsElement(n, rv)' <=> IsElement(n, NULL)
    <2>1. \A n \in live : n # rv \/ rv = NULL
        BY <1>2
    <2>2. live' \ {rv} = live \ {rv} /\ live \subseteq live'
        BY <1>2
    <2>3. NULL \notin live
        BY <1>1 DEF Heap
    <2> QED BY <2>1, <2>2, <2>3, <1>2 DEF IsElement
<1>5. \A n \in live : parent'[n] = parent[n] /\ n \in live'
    BY <1>1, <1>2 DEF Heap
<1>6. el \in [Cells -> Nat] /\ Described(el, t, waiting, NULL) /\ InOrder(el, NULL)
    BY DEF TreeOK
<1>7. \A n : IsElement(n, rv)' => n \in live
    BY <1>4 DEF IsElement
<1>8. Described(el, t, waiting, rv)'
    <2>1. \A n \in live : Hangs(el, n, NULL) => Hangs(el, n, rv)'
        BY <1>4, <1>5, HangsStill
    <2> QED BY <2>1, <1>2, <1>3, <1>4, <1>5, <1>6, <1>7 DEF Described
<1>9. InOrder(el, rv)'
    BY <1>4, <1>6, <1>7 DEF InOrder
<1>10. Complete' => AllThere(el, t, rv)'
    BY <1>2, <1>4, <1>5 DEF TreeOK, AllThere
<1>11. rv # NULL => rv # root /\ payload[rv] = Blank
    BY <1>1, <1>2 DEF Heap, TreeOK, NULL
<1>12. \A n \in Cells \ live' : payload'[n] = Blank
    BY <1>2, <1>5 DEF TreeOK
<1> QED BY <1>2, <1>5, <1>6, <1>8, <1>9, <1>10, <1>11, <1>12 DEF TreeOK
\* Element names are names.
LEMMA ElementName ==
    ASSUME IsCase, NEW i \in Elements(doc)
    PROVE  /\ i \in DOMAIN doc /\ i \in Nat /\ doc[i].name \notin {<<>>, BlockName}
           /\ Kind(i) \in ElementKinds /\ Kind(i) # "close" /\ Kind(i) # "text"
<1>1. PICK c \in Cases : doc = c.doc
    BY DEF IsCase
<1>2. i \in DOMAIN doc /\ doc[i].kind \in ElementKinds
    BY DEF Elements
<1>3. doc[i].name \notin {<<>>, BlockName}
    BY <1>1, <1>2, TagsAssumption
<1>4. i \in Nat
    BY <1>2, CaseFacts
<1> QED BY <1>2, <1>3, <1>4 DEF Kind, ElementKinds

\* cacheDataSet of the cell of a block.
LEMMA DescribeBlock ==
    ASSUME Heap, UNCHANGED <<doc, root>>, NEW nnc \in CellOrNull, NEW p \in Sections,
           p.name = BlockName, cacheDataSet(nnc, p), nnc # NULL => nnc \in live,
           NEW el, NEW t, NEW waiting, TreeOK(el, t, waiting, nnc)
    PROVE  /\ TreeOK(el, t, waiting, NULL)' /\ live' = live /\ (Complete' => Complete)
           /\ \A n \in live : n # nnc => payload'[n] = payload[n]
<1>1. /\ UNCHANGED <<live, used, failed, parent>>
      /\ payload' = IF nnc = NULL THEN payload ELSE [payload EXCEPT ![nnc] = p]
    BY DEF cacheDataSet, heapVars
<1>2. p # Blank
    BY BoundsAssumption, PayloadAssumption
<1>3. nnc # NULL => nnc \in Cells /\ payload'[nnc] = p
    BY <1>1 DEF Heap
<1>4. \A n \in Cells : n # nnc => payload'[n] = payload[n]
    BY <1>1 DEF Heap
<1>5. \A n : IsElement(n, NULL)' <=> IsElement(n, nnc)
    <2>1. \A n \in live : n # NULL /\ n \in Cells
        BY DEF Heap
    <2>2. IsElement(nnc, NULL)' <=> IsElement(nnc, nnc)
        BY <1>1, <1>2, <1>3, <2>1 DEF IsElement
    <2>3. \A n : n # nnc => (IsElement(n, NULL)' <=> IsElement(n, nnc))
        BY <1>1, <1>4, <2>1 DEF IsElement
    <2> QED BY <2>2, <2>3
<1>6. \A i : Entry(i)' = Entry(i)
    BY SameEntries
<1>7. Described(el, t, waiting, nnc) /\ InOrder(el, nnc) /\ el \in [Cells -> Nat]
    BY DEF TreeOK
<1>8. Described(el, t, waiting, NULL)'
    <2>1. \A n \in live : Hangs(el, n, nnc) => Hangs(el, n, NULL)'
        BY <1>1, <1>5, HangsStill
    <2>2. \A n : IsElement(n, nnc) => n \in live /\ n # nnc
        BY DEF IsElement
    <2>3. live \subseteq Cells
        BY DEF Heap
    <2> QED BY <2>1, <2>2, <2>3, <1>1, <1>4, <1>5, <1>6, <1>7 DEF Described
<1>9. InOrder(el, NULL)'
    BY <1>1, <1>5, <1>7 DEF InOrder
<1>10. Complete' => Complete /\ AllThere(el, t, NULL)'
    BY <1>1, <1>5 DEF TreeOK, AllThere, Complete
<1>11. \A n \in Cells \ live' : payload'[n] = Blank
    BY <1>1, <1>4 DEF TreeOK, Heap
<1> QED BY <1>1, <1>4, <1>7, <1>8, <1>9, <1>10, <1>11 DEF TreeOK, Heap

\* cacheDataSet of the cell that waits for the end of its element.
LEMMA DescribeElement ==
    ASSUME Heap, IsCase, UNCHANGED <<doc, root>>, NEW nnc \in CellOrNull,
           NEW i \in Elements(doc), cacheDataSet(nnc, Entry(i)),
           NEW el, nnc # NULL => nnc \in live \ {root} /\ payload[nnc] = Blank /\ el[nnc] = i,
           NEW t, NEW waiting, TreeOK(el, t, waiting \cup {nnc}, NULL)
    PROVE  /\ TreeOK(el, t, waiting, NULL)' /\ live' = live /\ (Complete' => Complete)
           /\ \A n \in live : n # nnc => payload'[n] = payload[n]
<1>0. PICK p : p = Entry(i)
    OBVIOUS
<1>1. /\ UNCHANGED <<live, used, failed, parent>>
      /\ payload' = IF nnc = NULL THEN payload ELSE [payload EXCEPT ![nnc] = p]
    BY <1>0 DEF cacheDataSet, heapVars
<1>2. p.name # BlockName
    BY <1>0, ElementName DEF Entry
<1>3. nnc # NULL => nnc \in Cells /\ payload'[nnc] = p
    BY <1>1 DEF Heap
<1>4. \A n \in Cells : n # nnc => payload'[n] = payload[n]
    BY <1>1 DEF Heap
<1>5. \A n : IsElement(n, NULL)' <=> IsElement(n, NULL)
    <2>1. \A n \in live : n # NULL /\ n \in Cells
        BY DEF Heap
    <2>2. IsElement(nnc, NULL)' <=> IsElement(nnc, NULL)
        BY <1>1, <1>2, <1>3, <2>1 DEF IsElement
    <2>3. \A n : n # nnc => (IsElement(n, NULL)' <=> IsElement(n, NULL))
        BY <1>1, <1>4, <2>1 DEF IsElement
    <2> QED BY <2>2, <2>3
<1>6. \A j : Entry(j)' = Entry(j)
    BY SameEntries
<1>7. Described(el, t, waiting \cup {nnc}, NULL) /\ InOrder(el, NULL) /\ el \in [Cells -> Nat]
    BY DEF TreeOK
<1>8. Described(el, t, waiting, NULL)'
    <2>1. \A n \in live : Hangs(el, n, NULL) => Hangs(el, n, NULL)'
        BY <1>1, <1>5, HangsStill
    <2>2. \A n : IsElement(n, NULL) => n \in live /\ n \in Cells /\ n # NULL
        BY DEF IsElement, Heap
    <2>3. nnc # NULL => payload'[nnc] = Entry(el[nnc])
        BY <1>0, <1>3
    <2> QED BY <2>1, <2>2, <2>3, <1>1, <1>4, <1>5, <1>6, <1>7 DEF Described
<1>9. InOrder(el, NULL)'
    BY <1>1, <1>5, <1>7 DEF InOrder
<1>10. Complete' => Complete /\ AllThere(el, t, NULL)'
    BY <1>1, <1>5 DEF TreeOK, AllThere, Complete
<1>11. \A n \in Cells \ live' : payload'[n] = Blank
    BY <1>1, <1>4 DEF TreeOK, Heap
<1> QED BY <1>1, <1>4, <1>7, <1>8, <1>9, <1>10, <1>11 DEF TreeOK, Heap
-----------------------------------------------------------------------------
(* The invariant of the open of a well-formed document. *)

\* The scan is inside of the element the innermost activation has met last.
InElement(place, f) ==
    \/ place \in {"content", "afterblock", "closing", "return"}
    \/ place = "head" /\ ~f.fresh /\ f.element # <<>>

\* Cell n is for element i and says nothing yet; no cell says that an allocation
\* has failed.
Holds(el, n, i) ==
    /\ n # NULL => n \in live \ {root} /\ payload[n] = Blank /\ el[n] = i
    /\ Complete => n # NULL

\* An activation waits for the end of element i.
Waits(el, f, i) ==
    /\ f.element = doc[i].name /\ f.rptr = At(i + 1) /\ ~f.fresh /\ f.rv # NoPos
    /\ Holds(el, f.nnc, i)

\* The activations but the innermost, and their cells.
OutersWait(el, t) ==
    \A k \in 1 .. Len(calls) - 1 : Waits(el, calls[k], OpenStack(doc, t)[k])
Outers == {calls[k].nnc : k \in 1 .. Len(calls) - 1}
Waiting(place, f) ==
    IF InElement(place, f) \/ place = "selfdata" THEN Outers \cup {f.nnc} ELSE Outers

\* Behind a section that was scanned comes the end of its element.
CloseFollows(t) == t < Len(doc) /\ Kind(t + 1) = "close"

\* Behind the tag of an empty element.
BehindSelf(f, t, el) ==
    /\ t \in Elements(doc) /\ Kind(t) = "self"
    /\ f.element = doc[t].name /\ f.rptr = At(t + 1) - 1
    /\ Holds(el, f.nnc, t)

\* An activation that has met nothing yet is at the beginning of the text or of an
\* element; one that has met elements, or that a caller waits for, has an answer.
Between(f, t) ==
    /\ f.fresh => IF Len(calls) = 1 THEN t = 0
                  ELSE t < Len(doc) /\ Kind(t + 1) \in ElementKinds
    /\ ~f.fresh /\ (Len(calls) > 1 \/ \E i \in Elements(doc) : i <= t) => f.rv # NoPos

\* The scan has come past the first t tokens.
Scene(place, f, cur, t, el) ==
    /\ Behind(cur, t)
    /\ Len(OpenStack(doc, t)) = IF InElement(place, f) THEN Len(calls) ELSE Len(calls) - 1
    /\ OutersWait(el, t)
    /\ InElement(place, f) => Waits(el, f, OpenStack(doc, t)[Len(calls)])
    /\ InElement(place, f) /\ place \in {"head", "closing", "return"} => CloseFollows(t)
    /\ place = "selfdata" => BehindSelf(f, t, el)
    /\ place = "blockdata" /\ f.nnc # NULL => f.nnc \in live \ {root} /\ payload[f.nnc] = Blank
    /\ ~InElement(place, f) /\ place # "selfdata" => Between(f, t)
    /\ TreeOK(el, t, Waiting(place, f), IF place = "blockdata" THEN f.nnc ELSE NULL)

\* A level is that of the root or of the cell the caller waits with.
Chain ==
    \A k \in 1 .. Len(calls) :
        calls[k].nc = IF k = 1 THEN root ELSE calls[k - 1].nnc

\* Callers have older cells than those they call.
Rising ==
    \A j, k \in 1 .. Len(calls) :
        j < k /\ calls[k].nnc # NULL => calls[j].nnc < calls[k].nnc

Finds == [Cells -> Nat]

EInv ==
    /\ pc # "crashed" => Chain /\ Rising
    /\ pc = "start" => \A n \in Cells : payload[n] = Blank
    /\ pc \in Inside1 =>
          \E t \in 0 .. Len(doc), el \in Finds : Scene(pc, F, F.cur, t, el)
    /\ pc = "return" /\ calls # <<>> =>
          /\ ret.rv # NoPos
          /\ \E t \in 0 .. Len(doc), el \in Finds :
                Scene("return", F, F.cur + ret.len, t, el)
    /\ pc \in {"return", "done"} /\ calls = <<>> =>
          ret.rv # NoPos /\ \E el \in Finds : TreeOK(el, Len(doc), {}, NULL)

-----------------------------------------------------------------------------
(* What stays when the innermost activation goes on. *)

\* A cell that waits, and still does.
StillHeld(n, el, el2) ==
    n \in live => n \in live' /\ payload'[n] = payload[n] /\ el2[n] = el[n]

\* A cell that still describes its element.
LEMMA HoldsStill ==
    ASSUME UNCHANGED root, NEW el, NEW el2, NEW n, NEW i, Holds(el, n, i),
           StillHeld(n, el, el2), Complete' => Complete
    PROVE  Holds(el2, n, i)'
BY DEF Holds, StillHeld

\* The activation that still waits with it.
LEMMA WaitsStill ==
    ASSUME UNCHANGED <<doc, root>>, NEW el, NEW el2, NEW f, NEW i, Waits(el, f, i),
           StillHeld(f.nnc, el, el2), Complete' => Complete
    PROVE  Waits(el2, f, i)'
<1>1. At(i + 1)' = At(i + 1)
    BY SameTokens
<1>2. PICK n : n = f.nnc
    OBVIOUS
<1>3. Holds(el, n, i) /\ StillHeld(n, el, el2)
    BY <1>2 DEF Waits
<1>4. Holds(el2, n, i)'
    BY <1>3, HoldsStill
<1> QED BY <1>1, <1>2, <1>4 DEF Waits

\* All the outer activations still wait when the innermost goes on.
LEMMA OutersStill ==
    ASSUME SInv, SInv', calls # <<>>, NEW f, calls' = SetTop(f), UNCHANGED <<doc, root>>,
           NEW el, NEW el2, NEW t, NEW t2, OutersWait(el, t),
           \A k \in 1 .. Len(calls) - 1 : OpenStack(doc, t2)[k] = OpenStack(doc, t)[k],
           \A n \in Outers : StillHeld(n, el, el2), Complete' => Complete
    PROVE  OutersWait(el2, t2)'
<1>1. /\ Len(calls') = Len(calls) /\ Len(calls) \in Nat \ {0}
      /\ \A j \in 1 .. Len(calls) : calls'[j] = IF j = Len(calls) THEN f ELSE calls[j]
    BY StackGoto, TopFacts, Zenon DEF SInv
<1> SUFFICES ASSUME NEW k \in 1 .. Len(calls) - 1
             PROVE  Waits(el2, calls[k], OpenStack(doc, t2)[k])'
    BY <1>1 DEF OutersWait
<1>2. PICK g, i : g = calls[k] /\ i = OpenStack(doc, t)[k]
    OBVIOUS
<1>3. calls'[k] = g
    BY <1>1, <1>2
<1>4. Waits(el, g, i) /\ StillHeld(g.nnc, el, el2)
    BY <1>2 DEF OutersWait, Outers
<1>5. Waits(el2, g, i)'
    BY <1>4, WaitsStill
<1>6. OpenStack(doc, t2)[k]' = i
    BY <1>2
<1> QED BY <1>3, <1>5, <1>6 DEF Waits

\* Of the activations only the innermost changes.
LEMMA StackStill ==
    ASSUME SInv, SInv', calls # <<>>, NEW f, calls' = SetTop(f)
    PROVE  /\ Len(calls') = Len(calls) /\ Len(calls) \in Nat \ {0} /\ calls' # <<>> /\ F' = f
           /\ Outers' = Outers
           /\ \A place : Waiting(place, f)' = Waiting(place, f)
           /\ \A t : Between(f, t) => (UNCHANGED doc => Between(f, t)')
<1>1. /\ Len(calls') = Len(calls) /\ Len(calls) \in Nat \ {0} /\ calls' # <<>> /\ F' = f
      /\ \A j \in 1 .. Len(calls) : calls'[j] = IF j = Len(calls) THEN f ELSE calls[j]
    BY StackGoto, TopFacts DEF SInv
<1>2. Outers' = Outers
    <2>1. \A k \in 1 .. Len(calls) - 1 : calls'[k] = calls[k]
        BY <1>1
    <2> QED BY <2>1, <1>1 DEF Outers
<1>3. \A place : Waiting(place, f)' = Waiting(place, f)
    BY <1>2 DEF Waiting
<1>4. \A t : Between(f, t) => (UNCHANGED doc => Between(f, t)')
    BY <1>1 DEF Between, Kind
<1> QED BY <1>1, <1>2, <1>3, <1>4

\* The invariant behind a step of the innermost activation.
LEMMA GotoTree ==
    ASSUME EInv, SInv, SInv', calls # <<>>, pc # "crashed", NEW f, calls' = SetTop(f),
           f.nc = F.nc, UNCHANGED <<doc, root>>, NEW label \in Inside1, pc' = label,
           f.nnc = F.nnc \/ (f.nnc # NULL => \A n \in Outers : n < f.nnc),
           NEW t \in 0 .. Len(doc), NEW el \in Finds, Scene(label, f, f.cur, t, el)'
    PROVE  EInv'
<1>1. /\ Len(calls') = Len(calls) /\ Len(calls) \in Nat \ {0} /\ calls' # <<>> /\ F' = f
      /\ \A j \in 1 .. Len(calls) : calls'[j] = IF j = Len(calls) THEN f ELSE calls[j]
    BY StackGoto, TopFacts, Zenon DEF SInv
<1>2. Chain /\ Rising
    BY DEF EInv
<1>3. Chain'
    <2> SUFFICES ASSUME NEW k \in 1 .. Len(calls)
                 PROVE  calls'[k].nc = IF k = 1 THEN root ELSE calls'[k - 1].nnc
        BY <1>1 DEF Chain
    <2>1. calls[k].nc = IF k = 1 THEN root ELSE calls[k - 1].nnc
        BY <1>2 DEF Chain
    <2>2. k # 1 => calls'[k - 1] = calls[k - 1]
        BY <1>1
    <2>3. calls'[k].nc = calls[k].nc
        BY <1>1 DEF F
    <2> QED BY <2>1, <2>2, <2>3
<1>4. Rising'
    <2> SUFFICES ASSUME NEW j \in 1 .. Len(calls), NEW k \in 1 .. Len(calls),
                        j < k, calls'[k].nnc # NULL
                 PROVE  calls'[j].nnc < calls'[k].nnc
        BY <1>1 DEF Rising
    <2>1. calls'[j] = calls[j] /\ j \in 1 .. Len(calls) - 1
        BY <1>1
    <2>2. CASE calls'[k].nnc = calls[k].nnc
        BY <2>1, <2>2, <1>2 DEF Rising
    <2>3. CASE k = Len(calls) /\ \A n \in Outers : n < f.nnc
        BY <2>1, <2>3, <1>1 DEF Outers
    <2> QED BY <2>2, <2>3, <1>1 DEF F
<1>5. F'.cur = f.cur /\ pc' \notin {"start", "return", "done"}
    BY <1>1 DEF Inside1
<1>6. \E u \in 0 .. Len(doc'), e \in Finds : Scene(pc, F, F.cur, u, e)'
    <2>1. Scene(pc, F, F.cur, t, el)'
        BY <1>1 DEF Scene, Waits, Between, BehindSelf, InElement, Waiting
    <2> QED BY <2>1 DEF Finds
<1> QED BY <1>1, <1>3, <1>4, <1>5, <1>6 DEF EInv

\* Nothing is done to the cells.
LEMMA QuietTree ==
    ASSUME EInv, SInv, SInv', calls # <<>>, pc # "crashed", NEW f, calls' = SetTop(f),
           f.nc = F.nc, f.nnc = F.nnc, NEW label \in Inside1 \ {"selfdata", "blockdata"},
           pc' = label,
           UNCHANGED <<doc, root, payload, parent, live>>, failed' = 0 => failed = 0,
           NEW t \in 0 .. Len(doc), NEW el \in Finds, Scene(label, f, f.cur, t, el)
    PROVE  EInv'
<1>1. /\ Len(calls') = Len(calls) /\ Len(calls) \in Nat \ {0} /\ Outers' = Outers
      /\ \A place : Waiting(place, f)' = Waiting(place, f)
      /\ Between(f, t) => Between(f, t)'
    BY StackStill
<1>2. Complete' => Complete
    BY DEF Complete
<1>3. \A n : StillHeld(n, el, el)
    BY DEF StillHeld
<1>4. OutersWait(el, t)'
    BY <1>2, <1>3, OutersStill DEF Scene
<1>5. InElement(label, f) => Waits(el, f, OpenStack(doc, t)[Len(calls)])'
    <2>1. PICK i : i = OpenStack(doc, t)[Len(calls)]
        OBVIOUS
    <2>2. InElement(label, f) => Waits(el, f, i)'
        BY <2>1, <1>2, <1>3, WaitsStill DEF Scene
    <2>3. OpenStack(doc, t)[Len(calls)]' = i
        BY <2>1, <1>1
    <2> QED BY <2>2, <2>3 DEF Waits
<1>6. TreeOK(el, t, Waiting(label, f), NULL)'
    <2>1. PICK w : w = Waiting(label, f)
        OBVIOUS
    <2>2. TreeOK(el, t, w, NULL)'
        BY <2>1, SameTree DEF Scene
    <2> QED BY <2>1, <2>2, <1>1 DEF TreeOK, Described
<1>7. Behind(f.cur, t)'
    BY SameBehind DEF Scene
<1>8. CloseFollows(t) => CloseFollows(t)'
    BY DEF CloseFollows, Kind
<1>9. Scene(label, f, f.cur, t, el)'
    BY <1>1, <1>4, <1>5, <1>6, <1>7, <1>8 DEF Scene
<1> QED BY <1>9, GotoTree
=============================================================================
