------------------------- MODULE ScannerTree_proofs -------------------------
(***************************************************************************)
(* Proofs about the tree an open makes of a well-formed document: at every *)
(* step of the scan the cells that are there describe the elements whose   *)
(* tags the cursor has passed, each hangs below the cell of the element it *)
(* is in, and the activations of __zeroxml_get_node wait with the cells of *)
(* the open elements, outermost first.  From that the cached tree is the   *)
(* element tree of the document.                                           *)
(***************************************************************************)
EXTENDS ScannerClient_proofs

-----------------------------------------------------------------------------
(* The next tag. *)

\* The next tag in the text is the first behind the tokens that are done.
LEMMA SceneTag ==
    ASSUME RInv, GoodText, calls # <<>>, pc \in Inside1, TagsFrom(F.cur) # {},
           NEW t \in 0 .. Len(doc), NEW el, Scene(pc, F, F.cur, t, el)
    PROVE  /\ T \in DOMAIN doc /\ T \in Nat /\ t \in Nat /\ t < T
           /\ T - 1 \in 0 .. Len(doc) /\ T \in 0 .. Len(doc)
           /\ OpenStack(doc, T - 1) = OpenStack(doc, t)
           /\ \A e \in Elements(doc) : e <= T - 1 => e <= t
           /\ Kind(T) \notin {"text", "cut", "cutblock"}
           /\ CloseFollows(t) => Kind(T) = "close" /\ T = t + 1
           /\ t < Len(doc) /\ Kind(t + 1) \in ElementKinds => Kind(T) \in ElementKinds
           /\ Behind(At(T), T - 1)
           /\ \A cur \in Nat : At(T) < cur /\ cur <= At(T + 1) => Behind(cur, T)
<1>1. IsCase /\ F.cur \in Nat /\ SInv
    BY Here DEF RInv
<1>2. Behind(F.cur, t)
    BY DEF Scene
<1>3. /\ T \in t + 1 .. Len(doc) /\ T \in DOMAIN doc /\ t \in Nat /\ T \in Nat
      /\ T - 1 \in 0 .. Len(doc) /\ Len(doc) \in Nat
      /\ OpenStack(doc, T - 1) = OpenStack(doc, t)
      /\ \A e \in Elements(doc) : e <= T - 1 => e <= t
      /\ Kind(T) \notin {"text", "cut", "cutblock"}
      /\ t < Len(doc) /\ (Kind(t + 1) # "text" => T = t + 1)
    BY <1>1, <1>2, TagBehind DEF T
<1>4. Behind(At(T), T - 1)
    BY <1>1, <1>3, BehindLast
<1>5. \A cur \in Nat : At(T) < cur /\ cur <= At(T + 1) => Behind(cur, T)
    BY <1>1, <1>3, BehindToken
<1>6. CloseFollows(t) => Kind(T) = "close" /\ T = t + 1
    BY <1>3 DEF CloseFollows
<1>7. Kind(t + 1) \in ElementKinds => Kind(T) \in ElementKinds
    BY <1>3 DEF ElementKinds
<1>8. T \in 0 .. Len(doc) /\ t < T
    BY <1>3
<1> QED BY <1>3, <1>4, <1>5, <1>6, <1>7, <1>8

\* The elements that are open at the tag, and behind it.
LEMMA SceneStack ==
    ASSUME RInv, GoodText, calls # <<>>, pc \in Inside1, TagsFrom(F.cur) # {},
           NEW t \in 0 .. Len(doc), NEW el, Scene(pc, F, F.cur, t, el),
           NEW st, st = OpenStack(doc, t)
    PROVE  /\ st \in Seq(Nat) /\ Len(st) \in Nat
           /\ Kind(T) = "open" => OpenStack(doc, T) = Append(st, T)
           /\ Kind(T) = "close" =>
                 /\ st # <<>> /\ Len(st) > 0 /\ OpenStack(doc, T) = Front(st)
                 /\ st[Len(st)] \in Elements(doc) /\ Kind(st[Len(st)]) = "open"
                 /\ doc[st[Len(st)]].name = doc[T].name
                 /\ CloseOf(doc, st[Len(st)]) = T
           /\ Kind(T) \notin {"open", "close"} => OpenStack(doc, T) = st
           /\ Parent(doc, T) = IF Len(st) = 0 THEN 0 ELSE st[Len(st)]
           /\ Kind(T) = "pi" => Len(st) = 0
<1>1. /\ T \in DOMAIN doc /\ OpenStack(doc, T - 1) = st /\ IsCase
    BY SceneTag, Here DEF RInv
<1>2. /\ st \in Seq(Nat)
      /\ Kind(T) = "open" => OpenStack(doc, T) = Append(st, T)
      /\ Kind(T) = "close" =>
            /\ st # <<>> /\ OpenStack(doc, T) = Front(st)
            /\ Last(st) \in Elements(doc) /\ Kind(Last(st)) = "open"
            /\ doc[Last(st)].name = doc[T].name
            /\ CloseOf(doc, Last(st)) = T
      /\ Kind(T) \notin {"open", "close"} => OpenStack(doc, T) = st
      /\ Parent(doc, T) = IF st = <<>> THEN 0 ELSE Last(st)
      /\ Kind(T) = "pi" => st = <<>>
    BY <1>1, TagOpens
<1>3. Len(st) \in Nat /\ (st = <<>> <=> Len(st) = 0) /\ Last(st) = st[Len(st)]
    BY <1>2, EmptySeq DEF Last
<1> QED BY <1>2, <1>3

\* Tokens that are no elements add none.
LEMMA PastTag ==
    ASSUME RInv, GoodText, calls # <<>>, pc \in Inside1, TagsFrom(F.cur) # {},
           NEW t \in 0 .. Len(doc), NEW el, Scene(pc, F, F.cur, t, el),
           NEW waiting, NEW block, TreeOK(el, t, waiting, block)
    PROVE  /\ TreeOK(el, T - 1, waiting, block)
           /\ Kind(T) \notin ElementKinds =>
                 /\ TreeOK(el, T, waiting, block)
                 /\ \A e \in Elements(doc) : e <= T => e <= t
<1>1. /\ T \in Nat /\ t \in Nat /\ t < T /\ \A e \in Elements(doc) : e <= T - 1 => e <= t
    BY SceneTag
<1>2. IsCase
    BY Here DEF RInv
<1>3. TreeOK(el, T - 1, waiting, block)
    <2>1. PICK u : u = T - 1
        OBVIOUS
    <2>2. u \in Nat /\ t <= u
        BY <2>1, <1>1
    <2> QED BY <2>1, <2>2, <1>1, <1>2, TreeLater
<1>4. ASSUME Kind(T) \notin ElementKinds
      PROVE  /\ TreeOK(el, T, waiting, block)
             /\ \A e \in Elements(doc) : e <= T => e <= t
    <2>1. PICK u : u = T
        OBVIOUS
    <2>2. \A e \in Elements(doc) : e <= u => e <= t
        <3>1. \A e \in Elements(doc) : e # u /\ e \in Nat
            BY <2>1, <1>2, <1>4, ElementName
        <3>2. \A e \in Elements(doc) : e <= u => e <= u - 1
            BY <2>1, <3>1, <1>1
        <3> QED BY <2>1, <3>2, <1>1
    <2>3. u \in Nat /\ t <= u
        BY <2>1, <1>1
    <2> QED BY <2>1, <2>2, <2>3, <1>2, TreeLater
<1> QED BY <1>3, <1>4

\* A name begins with itself.
LEMMA PrefixSelf == ASSUME NEW s \in Seq(STRING) PROVE IsPrefix(s, s)
<1>1. Len(s) <= Len(s)
    OBVIOUS
<1> QED BY <1>1 DEF IsPrefix

\* At the head of the loop.
LEMMA HeadScene ==
    ASSUME RInv, GoodText, calls # <<>>, pc = "head", TagsFrom(F.cur) # {},
           NEW t \in 0 .. Len(doc), NEW el, Scene("head", F, F.cur, t, el)
    PROVE  /\ Kind(T) # "close" => ~InElement("head", F)
           /\ Kind(T) = "close" /\ ~InElement("head", F) =>
                 Len(calls) > 1 /\ ~F.fresh /\ F.rv # NoPos
           /\ InElement("head", F) => F.element # <<>> /\ SameName(T, F.element)
           /\ Len(calls) \in Nat \ {0}
           /\ F.fresh /\ Kind(T) \notin ElementKinds => Len(calls) = 1 /\ t = 0
<1>1. pc \in Inside1 /\ Scene(pc, F, F.cur, t, el) /\ Len(calls) \in Nat \ {0}
    BY HereClient DEF Inside1
<1>2. /\ CloseFollows(t) => Kind(T) = "close"
      /\ t < Len(doc) /\ Kind(t + 1) \in ElementKinds => Kind(T) \in ElementKinds
    BY <1>1, SceneTag
<1>3. PICK st : st = OpenStack(doc, t)
    OBVIOUS
<1>4. /\ Len(st) \in Nat
      /\ Kind(T) = "close" => Len(st) > 0 /\ doc[st[Len(st)]].name = doc[T].name
    BY <1>1, <1>3, SceneStack
<1>5. Len(st) = IF InElement("head", F) THEN Len(calls) ELSE Len(calls) - 1
    BY <1>3 DEF Scene
<1>6. Kind(T) # "close" => ~InElement("head", F)
    BY <1>2 DEF Scene
<1>7. F.fresh /\ Kind(T) \notin ElementKinds => Len(calls) = 1 /\ t = 0
    BY <1>2 DEF Scene, Between, InElement
<1>8. ASSUME Kind(T) = "close", ~InElement("head", F)
      PROVE  Len(calls) > 1 /\ ~F.fresh /\ F.rv # NoPos
    <2>1. Len(calls) > 1
        BY <1>1, <1>4, <1>5, <1>8
    <2>2. Kind(T) \notin ElementKinds
        BY <1>8 DEF ElementKinds
    <2>3. ~F.fresh
        <3> SUFFICES ASSUME F.fresh PROVE FALSE
            OBVIOUS
        <3>1. Len(calls) = 1
            BY <2>2, <1>7
        <3> QED BY <3>1, <2>1
    <2> QED BY <2>1, <2>3, <1>8 DEF Scene, Between
<1>9. ASSUME InElement("head", F) PROVE F.element # <<>> /\ SameName(T, F.element)
    <2>1. F.element = doc[T].name
        BY <1>3, <1>4, <1>5, <1>6, <1>9 DEF Scene, Waits
    <2>2. F.element # <<>>
        BY <1>9 DEF InElement
    <2>3. doc[T].name \in Seq(STRING)
        BY <1>1, HereTag DEF RInv
    <2>4. IsPrefix(F.element, doc[T].name)
        BY <2>1, <2>3, PrefixSelf
    <2> QED BY <2>2, <2>4 DEF SameName
<1> QED BY <1>1, <1>6, <1>7, <1>8, <1>9

-----------------------------------------------------------------------------
(* The steps. *)

\* What a step begins with.
TInv == Base /\ GoodText /\ EInv

\* What is known when a step begins.
LEMMA SceneNow ==
    ASSUME TInv, pc \in Inside1
    PROVE  /\ calls # <<>> /\ pc # "crashed" /\ ~fault /\ Heap /\ IsCase /\ SInv /\ RInv
           /\ ClientOK(pc, F) /\ Chain /\ Rising
           /\ \E t \in 0 .. Len(doc), el \in Finds : Scene(pc, F, F.cur, t, el)
<1>1. RInv /\ SInv /\ EInv
    BY DEF TInv, Base, RInv
<1>2. calls # <<>> /\ pc # "crashed" /\ IsCase
    BY <1>1 DEF SInv, Places, Inside1
<1>3. Heap
    BY <1>1, HeapFacts DEF Inside1
<1>4. ~fault /\ ClientOK(pc, F)
    BY <1>1, <1>2 DEF RInv, Clients
<1> QED BY <1>1, <1>2, <1>3, <1>4 DEF EInv

\* The cells of the outer activations are older than the innermost one's, and
\* than a new one.
LEMMA OuterCells ==
    ASSUME RInv, calls # <<>>, Heap, Rising, NEW t, NEW el, OutersWait(el, t)
    PROVE  \A n \in Outers : /\ n \in live => n # F.nnc
                             /\ n \in CellOrNull /\ n # NULL => n \in live
                             /\ n < used + 1
<1>1. Len(calls) \in Nat \ {0}
    BY HereClient
<1> SUFFICES ASSUME NEW n \in Outers
             PROVE  /\ n \in live => n # F.nnc
                    /\ n \in CellOrNull /\ n # NULL => n \in live
                    /\ n < used + 1
    OBVIOUS
<1>2. PICK k \in 1 .. Len(calls) - 1 : n = calls[k].nnc
    BY DEF Outers
<1>3. n # NULL => n \in live
    BY <1>2 DEF OutersWait, Waits, Holds
<1>4. n < used + 1
    BY <1>3 DEF Heap, NULL
<1>5. n \in live => n # F.nnc
    <2> SUFFICES ASSUME n \in live, n = F.nnc PROVE FALSE
        OBVIOUS
    <2>1. n # NULL /\ n \in Nat
        BY DEF Heap
    <2>2. calls[k].nnc < calls[Len(calls)].nnc
        <3>1. k < Len(calls) /\ k \in 1 .. Len(calls) /\ Len(calls) \in 1 .. Len(calls)
            BY <1>1
        <3>2. calls[Len(calls)].nnc # NULL
            BY <2>1 DEF F
        <3> QED BY <3>1, <3>2 DEF Rising
    <2> QED BY <1>2, <2>1, <2>2 DEF F
<1>6. n \in CellOrNull
    BY <1>3 DEF Heap, CellOrNull
<1> QED BY <1>3, <1>4, <1>5, <1>6

\* The innermost activation goes on, with the cells changed.
LEMMA GoOn ==
    ASSUME EInv, SInv, SInv', calls # <<>>, pc # "crashed", NEW f, calls' = SetTop(f),
           f.nc = F.nc, UNCHANGED <<doc, root>>, NEW label \in Inside1, pc' = label,
           f.nnc = F.nnc \/ (f.nnc # NULL => \A n \in Outers : n < f.nnc),
           Complete' => Complete,
           NEW t, NEW el, OutersWait(el, t),
           NEW u \in 0 .. Len(doc), NEW el2 \in Finds,
           \A k \in 1 .. Len(calls) - 1 : OpenStack(doc, u)[k] = OpenStack(doc, t)[k],
           \A n \in Outers : StillHeld(n, el, el2),
           Behind(f.cur, u),
           Len(OpenStack(doc, u)) = IF InElement(label, f) THEN Len(calls) ELSE Len(calls) - 1,
           InElement(label, f) =>
              \E i : i = OpenStack(doc, u)[Len(calls)] /\ Waits(el2, f, i)',
           InElement(label, f) /\ label \in {"head", "closing", "return"} => CloseFollows(u),
           label = "selfdata" => BehindSelf(f, u, el2)',
           label = "blockdata" =>
              (f.nnc # NULL => f.nnc \in live' \ {root'} /\ payload'[f.nnc] = Blank),
           ~InElement(label, f) /\ label # "selfdata" => Between(f, u),
           NEW w, w = Waiting(label, f),
           NEW b, b = IF label = "blockdata" THEN f.nnc ELSE NULL,
           TreeOK(el2, u, w, b)'
    PROVE  EInv'
<1>1. /\ Len(calls') = Len(calls) /\ Len(calls) \in Nat \ {0}
      /\ \A place : Waiting(place, f)' = Waiting(place, f)
      /\ Between(f, u) => Between(f, u)'
    BY StackStill
<1>2. OutersWait(el2, u)'
    BY OutersStill
<1>3. InElement(label, f) => Waits(el2, f, OpenStack(doc, u)[Len(calls)])'
    <2>1. PICK i : i = OpenStack(doc, u)[Len(calls)]
        OBVIOUS
    <2>2. InElement(label, f) => Waits(el2, f, i)'
        BY <2>1
    <2>3. OpenStack(doc, u)[Len(calls)]' = i
        BY <2>1, <1>1
    <2> QED BY <2>2, <2>3 DEF Waits
<1>4. Behind(f.cur, u)'
    BY SameBehind
<1>5. CloseFollows(u) => CloseFollows(u)'
    BY DEF CloseFollows, Kind
<1>6. TreeOK(el2, u, Waiting(label, f), IF label = "blockdata" THEN f.nnc ELSE NULL)'
    BY <1>1 DEF TreeOK, Described, AllThere, InOrder, Hangs, IsElement
<1>7. (InElement(label, f) <=> InElement(label, f)')
    BY DEF InElement
<1>8. Scene(label, f, f.cur, u, el2)'
    BY <1>1, <1>2, <1>3, <1>4, <1>5, <1>6, <1>7 DEF Scene
<1> QED BY <1>8, GotoTree

\* Blocks: the scan comes past them.
LEMMA PastBlock ==
    ASSUME TInv, pc \in {"head", "blockdata"}, TagsFrom(F.cur) # {}, IsBlock(T),
           NEW t \in 0 .. Len(doc), NEW el \in Finds, Scene(pc, F, F.cur, t, el),
           NEW f, f = Head1(F, BlockEnd(T))
    PROVE  /\ T \in 0 .. Len(doc) /\ Behind(f.cur, T)
           /\ OpenStack(doc, T) = OpenStack(doc, t)
           /\ Len(OpenStack(doc, T)) = Len(calls) - 1
           /\ ~InElement(pc, F) /\ ~InElement("head", f)
           /\ Between(F, t) => Between(f, T)
           /\ f.nc = F.nc /\ f.nnc = F.nnc
           /\ \A waiting, block : TreeOK(el, t, waiting, block) => TreeOK(el, T, waiting, block)
<1>1. pc \in Inside1
    BY DEF Inside1
<1>2. calls # <<>> /\ RInv /\ GoodText /\ SInv /\ IsCase
    BY <1>1, SceneNow DEF TInv
<1>3. /\ T \in DOMAIN doc /\ T \in Nat /\ t \in Nat /\ t < T /\ T \in 0 .. Len(doc)
      /\ CloseFollows(t) => Kind(T) = "close"
      /\ t < Len(doc) /\ Kind(t + 1) \in ElementKinds => Kind(T) \in ElementKinds
      /\ \A cur \in Nat : At(T) < cur /\ cur <= At(T + 1) => Behind(cur, T)
    BY <1>1, <1>2, SceneTag
<1>4. Kind(T) \notin ElementKinds /\ Kind(T) \notin {"open", "close"}
    BY DEF IsBlock, BlockKinds, ElementKinds
<1>5. ~InElement(pc, F)
    BY <1>3, <1>4 DEF Scene, InElement
<1>6. OpenStack(doc, T) = OpenStack(doc, t)
    BY <1>1, <1>2, <1>4, SceneStack
<1>7. Len(OpenStack(doc, T)) = Len(calls) - 1
    BY <1>5, <1>6 DEF Scene
<1>8. F \in Frame
    BY <1>2, Here
<1>9. /\ f.cur = BlockEnd(T) /\ f.element = <<>> /\ ~f.fresh /\ f.rv = F.rv
      /\ f.nc = F.nc /\ f.nnc = F.nnc
    BY <1>8 DEF Head1, Frame
<1>10. Behind(f.cur, T)
    <2>1. BlockEnd(T) \in Nat /\ At(T) < BlockEnd(T)
        BY <1>2, <1>3, BlockFacts
    <2>2. BlockEnd(T) <= At(T + 1)
        <3>1. At(T + 1) \in Nat
            BY <1>2, <1>3, TokenFacts
        <3> QED BY <3>1 DEF BlockEnd
    <2> QED BY <2>1, <2>2, <1>3, <1>9
<1>11. ~InElement("head", f)
    BY <1>9 DEF InElement
<1>12. \A e \in Elements(doc) : e <= T => e <= t
    <2>1. \A e \in Elements(doc) : e \in Nat /\ e # T
        BY <1>2, <1>4, ElementName
    <2>2. \A e \in Elements(doc) : e <= T - 1 => e <= t
        BY <1>1, <1>2, SceneTag
    <2> QED BY <2>1, <2>2, <1>3
<1>13. Between(F, t) => Between(f, T)
    <2> SUFFICES ASSUME Between(F, t), Len(calls) > 1 \/ \E i \in Elements(doc) : i <= T
                 PROVE  F.rv # NoPos
        BY <1>9 DEF Between
    <2>1. CASE F.fresh
        <3>1. Len(calls) = 1 /\ t = 0
            BY <2>1, <1>3, <1>4 DEF Between
        <3>2. ~(Len(calls) > 1)
            BY <3>1
        <3>3. PICK i \in Elements(doc) : i <= 0
            BY <3>1, <3>2, <1>12
        <3>4. i \in 1 .. Len(doc)
            BY <1>2, CaseFacts DEF Elements
        <3> QED BY <3>3, <3>4
    <2>2. CASE ~F.fresh
        BY <2>2, <1>12 DEF Between
    <2> QED BY <2>1, <2>2
<1>14. \A waiting, block : TreeOK(el, t, waiting, block) => TreeOK(el, T, waiting, block)
    BY <1>2, <1>3, <1>12, TreeLater
<1> QED BY <1>3, <1>5, <1>6, <1>7, <1>9, <1>10, <1>11, <1>13, <1>14

\* A block no cell is made for.
LEMMA BlockSkippedTree == TInv /\ SInv' /\ BlockSkipped => EInv'
<1> SUFFICES ASSUME TInv, SInv', BlockSkipped PROVE EInv'
    OBVIOUS
<1>1. /\ pc = "head" /\ pc \in Inside1 /\ TagsFrom(F.cur) # {} /\ IsBlock(T)
      /\ UNCHANGED <<doc, root, payload, parent, live, failed>>
    BY DEF BlockSkipped, AtTag, Inside1, Quiet, Keep, cacheVars, treeVars, heapVars
<1>2. PICK f : f = Head1(F, BlockEnd(T))
    OBVIOUS
<1>3. pc' = "head" /\ calls' = SetTop(f)
    BY <1>2 DEF BlockSkipped, Goto
<1>4. /\ calls # <<>> /\ pc # "crashed" /\ SInv /\ EInv
      /\ \E t \in 0 .. Len(doc), el \in Finds : Scene(pc, F, F.cur, t, el)
    BY <1>1, SceneNow DEF TInv
<1>5. PICK t \in 0 .. Len(doc), el \in Finds : Scene(pc, F, F.cur, t, el)
    BY <1>4
<1>6. PICK u : u = T
    OBVIOUS
<1>7. /\ u \in 0 .. Len(doc) /\ Behind(f.cur, u)
      /\ OpenStack(doc, u) = OpenStack(doc, t)
      /\ Len(OpenStack(doc, u)) = Len(calls) - 1
      /\ ~InElement(pc, F) /\ ~InElement("head", f)
      /\ Between(F, t) => Between(f, u)
      /\ f.nc = F.nc /\ f.nnc = F.nnc
      /\ \A waiting, block : TreeOK(el, t, waiting, block) => TreeOK(el, u, waiting, block)
    BY <1>1, <1>2, <1>5, <1>6, PastBlock
<1>8. Between(f, u)
    BY <1>1, <1>5, <1>7 DEF Scene
<1>9. Waiting("head", f) = Waiting(pc, F)
    BY <1>1, <1>7 DEF Waiting
<1>10. TreeOK(el, u, Waiting("head", f), NULL)
    BY <1>1, <1>5, <1>7, <1>9 DEF Scene
<1>11. Scene("head", f, f.cur, u, el)
    BY <1>5, <1>7, <1>8, <1>10 DEF Scene, OutersWait
<1> QED BY <1>1, <1>3, <1>4, <1>7, <1>11, QuietTree DEF Inside1

\* A block with a cell.
LEMMA BlockNodeTree == TInv /\ SInv' /\ BlockNode => EInv'
<1> SUFFICES ASSUME TInv, SInv', BlockNode PROVE EInv'
    OBVIOUS
<1>1. /\ pc = "head" /\ pc \in Inside1 /\ TagsFrom(F.cur) # {} /\ IsBlock(T)
      /\ UNCHANGED <<doc, root>>
    BY DEF BlockNode, AtTag, Inside1, Keep
<1>2. PICK rv \in CellOrNull :
         /\ cacheNodeNew(F.nc, rv)
         /\ Goto(IF fault' THEN "crashed" ELSE "blockdata", WithCell(F, rv))
    BY DEF BlockNode
<1>3. CASE fault'
    <2>1. pc' = "crashed"
        BY <1>2, <1>3 DEF Goto
    <2> QED BY <2>1 DEF EInv, Inside1
<1>4. CASE ~fault'
    <2>1. PICK f : f = WithCell(F, rv)
        OBVIOUS
    <2>2. pc' = "blockdata" /\ calls' = SetTop(f)
        BY <1>2, <1>4, <2>1 DEF Goto
    <2>3. /\ calls # <<>> /\ pc # "crashed" /\ SInv /\ EInv /\ RInv /\ Heap /\ Rising /\ ~fault
          /\ \E t \in 0 .. Len(doc), el \in Finds : Scene(pc, F, F.cur, t, el)
        BY <1>1, SceneNow DEF TInv
    <2>4. PICK t \in 0 .. Len(doc), el \in Finds : Scene(pc, F, F.cur, t, el)
        BY <2>3
    <2>5. ~InElement(pc, F)
        BY <1>1, <2>4, PastBlock
    <2>6. Behind(F.cur, t) /\ OutersWait(el, t) /\ TreeOK(el, t, Outers, NULL)
          /\ Len(OpenStack(doc, t)) = Len(calls) - 1 /\ Between(F, t)
        BY <1>1, <2>4, <2>5 DEF Scene, Waiting
    <2>7. F \in Frame /\ F.nc \in CellOrNull
        BY <2>3, Here
    <2>8. f.cur = F.cur /\ f.nc = F.nc /\ f.nnc = rv /\ f.rv = F.rv /\ f.fresh = F.fresh
        BY <2>1, <2>7 DEF WithCell, Frame
    <2>9. /\ TreeOK(el, t, Outers, rv)'
          /\ rv # NULL => rv \in live' \ {root'} /\ payload'[rv] = Blank
          /\ \A n \in live : payload'[n] = payload[n] /\ n \in live'
          /\ Complete' => Complete
        <3>1. t \in Nat
            BY <2>3, CaseFacts DEF SInv
        <3>2. Outers' = Outers
            BY <2>2, <2>3, StackStill
        <3>3. PICK w : w = Outers
            OBVIOUS
        <3>4. /\ TreeOK(el, t, w, rv)'
              /\ rv # NULL => rv \in live' \ {root'} /\ payload'[rv] = Blank
              /\ \A n \in live : payload'[n] = payload[n] /\ n \in live'
              /\ Complete' => Complete
            BY <1>1, <1>2, <1>4, <2>3, <2>6, <2>7, <3>1, <3>3, AddBlock DEF TInv
        <3>5. TreeOK(el, t, Outers, rv)'
            BY <3>2, <3>3, <3>4 DEF TreeOK, Described
        <3> QED BY <3>4, <3>5
    <2>10. f.nnc # NULL => \A n \in Outers : n < f.nnc
        <3>1. rv # NULL => rv = used + 1
            BY <1>1, <1>2, <1>4, <2>3, <2>7, NodeIs DEF TInv
        <3> QED BY <3>1, <2>3, <2>6, <2>8, OuterCells
    <2>11. \A n \in Outers : StillHeld(n, el, el)
        BY <2>9 DEF StillHeld
    <2>12. ~InElement("blockdata", f)
        BY DEF InElement
    <2>13. PICK w : w = Waiting("blockdata", f)
        OBVIOUS
    <2>14. TreeOK(el, t, w, f.nnc)'
        <3>1. w = Outers /\ Outers' = Outers
            BY <2>2, <2>3, <2>12, <2>13, StackStill DEF Waiting
        <3>2. f.nnc = rv
            BY <2>8
        <3> QED BY <2>9, <3>1, <3>2 DEF TreeOK, Described
    <2>15. Behind(f.cur, t) /\ Between(f, t)
        BY <2>6, <2>8 DEF Between
    <2> QED BY <1>1, <2>2, <2>3, <2>6, <2>8, <2>9, <2>10, <2>11, <2>12, <2>13, <2>14, <2>15, GoOn
            DEF Inside1
<1> QED BY <1>3, <1>4

\* The section of a block goes into its cell.
LEMMA BlockDataTree == TInv /\ SInv' /\ BlockData => EInv'
<1> SUFFICES ASSUME TInv, SInv', BlockData PROVE EInv'
    OBVIOUS
<1>1. pc = "blockdata" /\ pc \in Inside1 /\ UNCHANGED <<doc, root>>
    BY DEF BlockData, Inside1, Keep
<1>2. PICK f, p : f = Head1(F, BlockEnd(T)) /\ p = BlockSection(T)
    OBVIOUS
<1>3. pc' = "head" /\ calls' = SetTop(f) /\ cacheDataSet(F.nnc, p)
    BY <1>2 DEF BlockData, Goto
<1>4. /\ calls # <<>> /\ pc # "crashed" /\ SInv /\ EInv /\ RInv /\ Heap /\ Rising /\ IsCase
      /\ \E t \in 0 .. Len(doc), el \in Finds : Scene(pc, F, F.cur, t, el)
    BY <1>1, SceneNow DEF TInv
<1>5. TagsFrom(F.cur) # {} /\ IsBlock(T)
    BY <1>1, <1>4, Here DEF PlaceOK, T
<1>6. PICK t \in 0 .. Len(doc), el \in Finds : Scene(pc, F, F.cur, t, el)
    BY <1>4
<1>7. PICK u : u = T
    OBVIOUS
<1>8. /\ u \in 0 .. Len(doc) /\ Behind(f.cur, u)
      /\ OpenStack(doc, u) = OpenStack(doc, t)
      /\ Len(OpenStack(doc, u)) = Len(calls) - 1
      /\ ~InElement(pc, F) /\ ~InElement("head", f)
      /\ Between(F, t) => Between(f, u)
      /\ f.nc = F.nc /\ f.nnc = F.nnc
      /\ \A waiting, block : TreeOK(el, t, waiting, block) => TreeOK(el, u, waiting, block)
    BY <1>1, <1>2, <1>5, <1>6, <1>7, PastBlock
<1>9. /\ Between(f, u) /\ OutersWait(el, t) /\ TreeOK(el, u, Outers, F.nnc)
      /\ F.nnc # NULL => F.nnc \in live
    BY <1>1, <1>6, <1>8 DEF Scene, Waiting
<1>10. p \in Sections /\ p.name = BlockName
    <2>1. T \in DOMAIN doc
        BY <1>4, <1>5, HereTag
    <2> QED BY <2>1, <1>2, <1>4, <1>5, BlockFacts DEF BlockSection
<1>11. PICK w, n0 : w = Outers /\ n0 = F.nnc
    OBVIOUS
<1>12. n0 \in CellOrNull
    BY <1>4, <1>11, Here
<1>13. /\ TreeOK(el, u, w, NULL)' /\ live' = live /\ (Complete' => Complete)
       /\ \A n \in live : n # n0 => payload'[n] = payload[n]
    BY <1>1, <1>3, <1>4, <1>9, <1>10, <1>11, <1>12, DescribeBlock
<1>14. \A n \in Outers : StillHeld(n, el, el)
    <2>1. \A n \in Outers : n \in live => n # n0
        BY <1>4, <1>9, <1>11, OuterCells
    <2> QED BY <2>1, <1>13 DEF StillHeld
<1>15. w = Waiting("head", f)
    BY <1>8, <1>11 DEF Waiting
<1> QED BY <1>1, <1>3, <1>4, <1>8, <1>9, <1>13, <1>14, <1>15, GoOn DEF Inside1

\* The level of an activation is that of the element it scans.
LEMMA LevelIs ==
    ASSUME TInv, pc = "head", TagsFrom(F.cur) # {}, Kind(T) \in ElementKinds,
           NEW t \in 0 .. Len(doc), NEW el \in Finds, Scene("head", F, F.cur, t, el)
    PROVE  /\ F.nc # NULL => IF Parent(doc, T) = 0 THEN F.nc = root
                             ELSE IsElement(F.nc, NULL) /\ el[F.nc] = Parent(doc, T)
           /\ Complete => F.nc # NULL
           /\ ~InElement("head", F)
           /\ Len(OpenStack(doc, t)) = Len(calls) - 1
           /\ TreeOK(el, t, Outers, NULL)
<1>1. pc \in Inside1 /\ Scene(pc, F, F.cur, t, el) /\ Kind(T) \notin {"close", "pi"}
    BY DEF Inside1, ElementKinds
<1>2. /\ calls # <<>> /\ RInv /\ GoodText /\ SInv /\ IsCase /\ Heap /\ Chain
    BY <1>1, SceneNow DEF TInv
<1>3. ~InElement("head", F)
    BY <1>1, <1>2, HeadScene
<1>4. Len(OpenStack(doc, t)) = Len(calls) - 1
    BY <1>1, <1>3 DEF Scene
<1>5. PICK st : st = OpenStack(doc, t)
    BY Zenon
<1>6. PICK m \in Nat \ {0} : m = Len(calls)
    BY <1>2, HereClient
<1>7. Parent(doc, T) = IF Len(st) = 0 THEN 0 ELSE st[Len(st)]
    BY <1>1, <1>2, <1>5, SceneStack
<1>8. Len(st) = m - 1
    BY <1>4, <1>5, <1>6
<1>9. TreeOK(el, t, Outers, NULL) /\ OutersWait(el, t)
    BY <1>3 DEF Scene, Waiting
<1>10. F.nc = IF m = 1 THEN root ELSE calls[m - 1].nnc
    <2>1. m \in 1 .. Len(calls)
        BY <1>6
    <2> QED BY <2>1, <1>2, <1>6 DEF Chain, F
<1>11. CASE m = 1
    <2>1. Parent(doc, T) = 0 /\ F.nc = root
        BY <1>7, <1>8, <1>10, <1>11
    <2>2. Complete => root # NULL
        BY <1>9 DEF TreeOK, AllThere
    <2> QED BY <2>1, <2>2, <1>3, <1>4, <1>9
<1>12. CASE m # 1
    <2>1. m - 1 \in 1 .. Len(calls) - 1 /\ Len(st) # 0
        BY <1>6, <1>8, <1>12
    <2>2. Parent(doc, T) = st[m - 1] /\ F.nc = calls[m - 1].nnc
        BY <2>1, <1>7, <1>8, <1>10, <1>12
    <2>3. PICK n, i : n = F.nc /\ i = Parent(doc, T)
        OBVIOUS
    <2>4. Holds(el, n, i)
        BY <2>1, <2>2, <2>3, <1>5, <1>9 DEF OutersWait, Waits
    <2>5. n # NULL => IsElement(n, NULL) /\ el[n] = i /\ n \in live
        BY <2>4 DEF Holds, IsElement
    <2>6. n # NULL => i # 0
        <3> SUFFICES ASSUME n # NULL PROVE i # 0
            OBVIOUS
        <3>1. i \in Elements(doc)
            BY <2>5, <1>9 DEF TreeOK, Described
        <3>2. i \in 1 .. Len(doc)
            BY <3>1, <1>2, CaseFacts DEF Elements
        <3> QED BY <3>2
    <2>7. Complete => n # NULL
        BY <2>4 DEF Holds
    <2> QED BY <2>3, <2>5, <2>6, <2>7, <1>3, <1>4, <1>9
<1> QED BY <1>11, <1>12

\* The activation that has met an element.
LEMMA FoundFrame ==
    ASSUME TInv, pc = "head", TagsFrom(F.cur) # {}, NEW rv \in CellOrNull,
           NEW g, g = WithCell(Met, rv) \/ g = WithCell(MetWanted, rv)
    PROVE  /\ g.element = doc[T].name /\ ~g.fresh /\ g.cur = At(T + 1) /\ g.nc = F.nc
           /\ g.nnc = rv
           /\ g.rptr = IF Kind(T) = "self" THEN At(T + 1) - 1 ELSE At(T + 1)
           /\ g = WithCell(MetWanted, rv) => g.rv = At(T + 1) /\ g.rv # NoPos
<1>0. PICK f, seen : f = Met /\ seen = MetWanted
    OBVIOUS
<1>1. calls # <<>> /\ RInv /\ SInv
    BY SceneNow DEF Inside1
<1>2. F \in Frame /\ Wanted(F)
    BY <1>1, HereClient
<1>3. At(T + 1) \in Nat
    BY <1>1, HereTag
<1>4. /\ f.element = doc[T].name /\ ~f.fresh /\ f.cur = At(T + 1) /\ f.nc = F.nc
      /\ f.rptr = IF Kind(T) = "self" THEN At(T + 1) - 1 ELSE At(T + 1)
      /\ DOMAIN f = DOMAIN F
    BY <1>0, <1>2 DEF Frame, Met
<1>5. /\ seen.element = doc[T].name /\ ~seen.fresh /\ seen.cur = At(T + 1) /\ seen.nc = F.nc
      /\ seen.rptr = IF Kind(T) = "self" THEN At(T + 1) - 1 ELSE At(T + 1)
      /\ DOMAIN seen = DOMAIN F /\ seen.rv = At(T + 1)
    BY <1>0, <1>2, <1>4 DEF Frame, MetWanted
<1>6. At(T + 1) # NoPos
    BY <1>3 DEF NoPos
<1>7. DOMAIN F = {"nc", "nnc", "name", "num", "start", "cur", "element", "fresh", "rptr",
                  "starttag", "rv", "len", "found", "buf"}
    BY <1>2 DEF Frame
<1>8. CASE g = WithCell(f, rv)
    <2>1. g.element = f.element /\ g.fresh = f.fresh /\ g.cur = f.cur /\ g.nc = f.nc
          /\ g.nnc = rv /\ g.rptr = f.rptr
        BY <1>4, <1>7, <1>8 DEF WithCell
    <2>2. g = WithCell(seen, rv) => g.rv = seen.rv
        BY <1>0, <1>5, <1>7 DEF WithCell
    <2> QED BY <2>1, <2>2, <1>0, <1>4, <1>5, <1>6
<1>9. CASE g = WithCell(seen, rv)
    <2>1. g.element = seen.element /\ g.fresh = seen.fresh /\ g.cur = seen.cur /\ g.nc = seen.nc
          /\ g.nnc = rv /\ g.rptr = seen.rptr /\ g.rv = seen.rv
        BY <1>5, <1>7, <1>9 DEF WithCell
    <2> QED BY <2>1, <1>0, <1>5, <1>6
<1> QED BY <1>0, <1>8, <1>9

\* An element gets its cell.
LEMMA ElementFoundTree == TInv /\ SInv' /\ ElementFound => EInv'
<1> SUFFICES ASSUME TInv, SInv', ElementFound PROVE EInv'
    OBVIOUS
<1>1. /\ pc = "head" /\ pc \in Inside1 /\ TagsFrom(F.cur) # {} /\ Kind(T) \in {"open", "self"}
      /\ Kind(T) \in ElementKinds /\ UNCHANGED <<doc, root>>
    BY DEF ElementFound, AtTag, Inside1, Keep, ElementKinds
<1>2. PICK f, seen : f = Met /\ seen = MetWanted
    OBVIOUS
<1>4. PICK rv \in CellOrNull :
         /\ cacheNodeNew(F.nc, rv)
         /\ IF fault' THEN Goto("crashed", WithCell(f, rv))
            ELSE IF Kind(T) = "self" THEN Goto("selfdata", WithCell(f, rv))
            ELSE Goto("content", WithCell(seen, rv))
    BY <1>2 DEF ElementFound, Met, MetWanted
<1>5. CASE fault'
    <2>1. pc' = "crashed"
        BY <1>4, <1>5 DEF Goto
    <2> QED BY <2>1 DEF EInv, Inside1
<1>6. CASE ~fault'
    <2>1. PICK g : g = IF Kind(T) = "self" THEN WithCell(f, rv) ELSE WithCell(seen, rv)
        OBVIOUS
    <2>2. PICK label : label = IF Kind(T) = "self" THEN "selfdata" ELSE "content"
        OBVIOUS
    <2>3. pc' = label /\ calls' = SetTop(g)
        BY <1>4, <1>6, <2>1, <2>2 DEF Goto
    <2>4. /\ calls # <<>> /\ pc # "crashed" /\ SInv /\ EInv /\ RInv /\ Heap /\ Rising /\ ~fault
          /\ IsCase /\ GoodText
          /\ \E t \in 0 .. Len(doc), el \in Finds : Scene(pc, F, F.cur, t, el)
        BY <1>1, SceneNow DEF TInv
    <2>5. PICK t \in 0 .. Len(doc), el \in Finds : Scene("head", F, F.cur, t, el)
        BY <1>1, <2>4
    <2>6. PICK u, nc : u = T /\ nc = F.nc
        OBVIOUS
    <2>7. /\ nc # NULL => IF Parent(doc, u) = 0 THEN nc = root
                          ELSE IsElement(nc, NULL) /\ el[nc] = Parent(doc, u)
          /\ Complete => nc # NULL
          /\ ~InElement("head", F)
          /\ Len(OpenStack(doc, t)) = Len(calls) - 1
          /\ TreeOK(el, t, Outers, NULL)
        BY <1>1, <2>5, <2>6, LevelIs
    <2>8. /\ g.element = doc[u].name /\ ~g.fresh /\ g.cur = At(u + 1) /\ g.nc = F.nc
          /\ g.nnc = rv
          /\ g.rptr = IF Kind(u) = "self" THEN At(u + 1) - 1 ELSE At(u + 1)
          /\ label = "content" => g.rv # NoPos
        <3>1. g = WithCell(f, rv) \/ g = WithCell(seen, rv)
            BY <2>1
        <3>2. label = "content" => g = WithCell(seen, rv)
            BY <2>1, <2>2
        <3>3. /\ g.element = doc[T].name /\ ~g.fresh /\ g.cur = At(T + 1) /\ g.nc = F.nc
              /\ g.nnc = rv
              /\ g.rptr = IF Kind(T) = "self" THEN At(T + 1) - 1 ELSE At(T + 1)
              /\ g = WithCell(seen, rv) => g.rv = At(T + 1) /\ g.rv # NoPos
            BY <3>1, <1>1, <1>2, FoundFrame
        <3> QED BY <3>2, <3>3, <2>6
    <2>9. /\ u \in Elements(doc) /\ u \in 0 .. Len(doc) /\ u \in Nat /\ t \in Nat /\ t < u
          /\ \A e \in Elements(doc) : e <= u - 1 => e <= t
          /\ Behind(g.cur, u)
        <3>1. /\ u \in DOMAIN doc /\ u \in Nat /\ t \in Nat /\ t < u /\ u \in 0 .. Len(doc)
              /\ \A e \in Elements(doc) : e <= u - 1 => e <= t
              /\ \A cur \in Nat : At(u) < cur /\ cur <= At(u + 1) => Behind(cur, u)
            BY <1>1, <2>4, <2>5, <2>6, SceneTag
        <3>2. At(u) \in Nat /\ At(u) + 2 <= At(u + 1) /\ At(u + 1) \in Nat
            BY <1>1, <2>4, <2>6, HereTag
        <3>3. Behind(At(u + 1), u)
            BY <3>1, <3>2
        <3>4. u \in Elements(doc)
            BY <3>1, <1>1, <2>6 DEF Elements, Kind
        <3> QED BY <3>1, <3>3, <3>4, <2>8
    <2>10. /\ label = "content" => OpenStack(doc, u) = Append(OpenStack(doc, t), u)
           /\ label = "selfdata" => OpenStack(doc, u) = OpenStack(doc, t)
           /\ OpenStack(doc, t) \in Seq(Nat)
        <3>1. PICK st : st = OpenStack(doc, t)
            OBVIOUS
        <3>2. /\ st \in Seq(Nat)
              /\ Kind(T) = "open" => OpenStack(doc, T) = Append(st, T)
              /\ Kind(T) \notin {"open", "close"} => OpenStack(doc, T) = st
            BY <1>1, <2>4, <2>5, <3>1, SceneStack
        <3> QED BY <3>1, <3>2, <1>1, <2>2, <2>6
    <2>11. PICK m \in Nat \ {0} : m = Len(calls)
        BY <2>4, HereClient
    <2>12. /\ \A k \in 1 .. m - 1 : OpenStack(doc, u)[k] = OpenStack(doc, t)[k]
           /\ label = "content" => Len(OpenStack(doc, u)) = m /\ OpenStack(doc, u)[m] = u
           /\ label = "selfdata" => Len(OpenStack(doc, u)) = m - 1
        <3>1. PICK st \in Seq(Nat) : st = OpenStack(doc, t)
            BY <2>10
        <3>2. Len(st) = m - 1
            BY <3>1, <2>7, <2>11
        <3>3. /\ Len(Append(st, u)) = Len(st) + 1 /\ Append(st, u)[Len(st) + 1] = u
              /\ \A i \in 1 .. Len(st) : Append(st, u)[i] = st[i]
            BY <2>9, AppendIs
        <3>4. (m - 1) + 1 = m
            BY <2>11
        <3> QED BY <3>1, <3>2, <3>3, <3>4, <2>2, <2>10
    <2>13. PICK el2 : el2 = Sees(el, rv, u)
        OBVIOUS
    <2>14. PICK w : w = Outers
        OBVIOUS
    <2>15. nc \in CellOrNull
        BY <2>4, <2>6, Here
    <2>16. /\ TreeOK(el2, u, w \cup {rv}, NULL)'
           /\ rv # NULL => rv \in live' \ {root'} /\ payload'[rv] = Blank /\ el2[rv] = u
           /\ \A n \in live : el2[n] = el[n] /\ payload'[n] = payload[n] /\ n \in live'
           /\ Complete' => rv # NULL
        <3>1. /\ Base /\ cacheNodeNew(nc, rv) /\ TreeOK(el, t, w, NULL)
            BY <1>4, <2>6, <2>7, <2>14 DEF TInv
        <3>2. /\ pc = "head" /\ IsCase /\ ~fault /\ ~fault' /\ UNCHANGED <<doc, root>>
              /\ t \in Nat /\ u \in Elements(doc) /\ t < u
              /\ \A e \in Elements(doc) : e <= u - 1 => e <= t
              /\ nc # NULL => IF Parent(doc, u) = 0 THEN nc = root
                              ELSE IsElement(nc, NULL) /\ el[nc] = Parent(doc, u)
              /\ Complete => nc # NULL
              /\ nc \in CellOrNull /\ rv \in CellOrNull
            BY <1>1, <1>6, <2>4, <2>7, <2>9, <2>15
        <3>3. TreeOK(el2, u, w \cup {rv}, NULL)'
            BY ONLY <3>1, <3>2, <2>13, AddElement, Zenon
        <3>7. /\ payload' = payload
              /\ rv # NULL => rv = used + 1 /\ rv \in Cells /\ rv \notin live
                              /\ live' = live \cup {rv}
              /\ rv = NULL => live' = live
            BY <3>1, <3>2, NodeIs
        <3>8. el \in [Cells -> Nat] /\ \A n \in Cells \ live : payload[n] = Blank
            BY <3>1 DEF TreeOK
        <3>9. live \subseteq Cells /\ (rv # NULL => rv # root)
            BY <3>7, <2>4 DEF Heap, NULL
        <3>4. rv # NULL => rv \in live' \ {root'} /\ payload'[rv] = Blank /\ el2[rv] = u
            BY <3>7, <3>8, <3>9, <2>13, <1>1 DEF Sees
        <3>5. \A n \in live : el2[n] = el[n] /\ payload'[n] = payload[n] /\ n \in live'
            BY <3>7, <3>8, <3>9, <2>13 DEF Sees
        <3>6. Complete' => rv # NULL
            BY ONLY <3>1, <3>2, <2>13, AddElement, Zenon
        <3> QED BY <3>3, <3>4, <3>5, <3>6
    <2>17. Complete' => Complete
        BY <1>1, <1>4, <1>6, <2>4, <2>6, <2>15, NodeIs DEF TInv
    <2>18. OutersWait(el, t)
        BY <2>5 DEF Scene
    <2>19. \A n \in Outers : n < g.nnc \/ g.nnc = NULL
        <3>1. rv # NULL => rv = used + 1
            BY <1>1, <1>4, <1>6, <2>4, <2>6, <2>15, NodeIs DEF TInv
        <3> QED BY <3>1, <2>4, <2>8, <2>18, OuterCells
    <2>20. el2 \in Finds
        BY <2>16 DEF TreeOK, Finds
    <2>21. \A n \in Outers : StillHeld(n, el, el2)
        BY <2>16 DEF StillHeld
    <2>22. Holds(el2, rv, u)'
        BY <2>16 DEF Holds
    <2>23. label \in {"selfdata", "content"} /\ label \in Inside1
        BY <2>2 DEF Inside1
    <2>24. InElement(label, g) <=> label = "content"
        BY <2>23 DEF InElement
    <2>25. label = "content" =>
              \E i : i = OpenStack(doc, u)[Len(calls)] /\ Waits(el2, g, i)'
        <3> SUFFICES ASSUME label = "content" PROVE Waits(el2, g, u)'
            BY <2>11, <2>12
        <3>1. Kind(u) # "self"
            BY <2>2, <2>6
        <3>2. At(u + 1)' = At(u + 1)
            BY <1>1, SameTokens
        <3> QED BY <3>1, <3>2, <1>1, <2>8, <2>22 DEF Waits
    <2>26. label = "selfdata" => BehindSelf(g, u, el2)'
        <3> SUFFICES ASSUME label = "selfdata" PROVE BehindSelf(g, u, el2)'
            OBVIOUS
        <3>1. Kind(u) = "self"
            BY <2>2, <2>6
        <3>2. At(u + 1)' = At(u + 1) /\ Kind(u)' = Kind(u)
            BY <1>1, SameTokens
        <3> QED BY <3>1, <3>2, <1>1, <2>8, <2>9, <2>22 DEF BehindSelf
    <2>27. PICK v : v = Waiting(label, g)
        OBVIOUS
    <2>28. TreeOK(el2, u, v, NULL)'
        <3>1. v = w \cup {rv}
            BY <2>8, <2>14, <2>23, <2>24, <2>27 DEF Waiting
        <3> QED BY <3>1, <2>16
    <2>29. Len(OpenStack(doc, u)) = IF InElement(label, g) THEN Len(calls) ELSE Len(calls) - 1
        BY <2>11, <2>12, <2>23, <2>24
    <2>30. \A k \in 1 .. Len(calls) - 1 : OpenStack(doc, u)[k] = OpenStack(doc, t)[k]
        BY <2>11, <2>12
    <2>31. /\ InElement(label, g) /\ label \in {"head", "closing", "return"} => CloseFollows(u)
           /\ label # "blockdata"
           /\ InElement(label, g) \/ label = "selfdata"
           /\ InElement(label, g) => \E i : i = OpenStack(doc, u)[Len(calls)] /\ Waits(el2, g, i)'
           /\ g.nnc = F.nnc \/ (g.nnc # NULL => \A n \in Outers : n < g.nnc)
        BY <2>19, <2>23, <2>24, <2>25
    <2> QED BY <1>1, <2>3, <2>4, <2>8, <2>9, <2>17, <2>18, <2>20, <2>21, <2>23, <2>26, <2>27,
               <2>28, <2>29, <2>30, <2>31, GoOn
<1> QED BY <1>5, <1>6

\* An empty element: its cell is filled.
LEMMA SelfDataTree == TInv /\ SInv' /\ SelfData => EInv'
<1> SUFFICES ASSUME TInv, SInv', SelfData PROVE EInv'
    OBVIOUS
<1>1. pc = "selfdata" /\ pc \in Inside1 /\ UNCHANGED <<doc, root>>
    BY DEF SelfData, Inside1, Keep
<1>2. /\ calls # <<>> /\ pc # "crashed" /\ SInv /\ EInv /\ RInv /\ Heap /\ Rising /\ IsCase
      /\ \E t \in 0 .. Len(doc), el \in Finds : Scene(pc, F, F.cur, t, el)
    BY <1>1, SceneNow DEF TInv
<1>3. Wanted(F) /\ F.num = AllNums /\ F \in Frame /\ F.nnc \in CellOrNull /\ F.cur \in Nat
    BY <1>2, HereClient
<1>4. PICK f : f = [F EXCEPT !.rv = F.cur, !.buf = F.cur, !.len = 0]
    OBVIOUS
<1>5. PICK g : g = Head1([f EXCEPT !.found = @ + 1], F.cur)
    OBVIOUS
<1>6. pc' = "head" /\ calls' = SetTop(g)
    BY <1>3, <1>4, <1>5 DEF SelfData, Goto
<1>7. /\ g.cur = F.cur /\ g.element = <<>> /\ ~g.fresh /\ g.rv # NoPos
      /\ g.nc = F.nc /\ g.nnc = F.nnc
    <2>1. f.rv = F.cur /\ f.nc = F.nc /\ f.nnc = F.nnc /\ DOMAIN f = DOMAIN F
        BY <1>3, <1>4 DEF Frame
    <2>2. F.cur # NoPos
        BY <1>3 DEF NoPos
    <2> QED BY <2>1, <2>2, <1>3, <1>5 DEF Head1, Frame
<1>8. PICK t \in 0 .. Len(doc), el \in Finds : Scene("selfdata", F, F.cur, t, el)
    BY <1>1, <1>2
<1>9. /\ Behind(F.cur, t) /\ Len(OpenStack(doc, t)) = Len(calls) - 1 /\ OutersWait(el, t)
      /\ BehindSelf(F, t, el) /\ TreeOK(el, t, Outers \cup {F.nnc}, NULL)
    BY <1>8 DEF Scene, InElement, Waiting
<1>10. cacheDataSet(F.nnc, Entry(t)) /\ t \in Elements(doc)
    <2>1. ContentLen(doc, t) = 0 /\ Kind(t) = "self" /\ F.element = doc[t].name
          /\ F.rptr = At(t + 1) - 1 /\ t \in Elements(doc)
        BY <1>9 DEF BehindSelf, ContentLen, Kind
    <2>2. [name |-> F.element, from |-> F.rptr, len |-> 0] = Entry(t)
        BY <2>1 DEF Entry
    <2> QED BY <2>1, <2>2 DEF SelfData
<1>11. PICK w, n0 : w = Outers /\ n0 = F.nnc
    OBVIOUS
<1>12. n0 # NULL => n0 \in live \ {root} /\ payload[n0] = Blank /\ el[n0] = t
    BY <1>9, <1>11 DEF BehindSelf, Holds
<1>13. /\ TreeOK(el, t, w, NULL)' /\ live' = live /\ (Complete' => Complete)
       /\ \A n \in live : n # n0 => payload'[n] = payload[n]
    BY <1>1, <1>2, <1>3, <1>9, <1>10, <1>11, <1>12, DescribeElement
<1>14. \A n \in Outers : StillHeld(n, el, el)
    <2>1. \A n \in Outers : n \in live => n # n0
        BY <1>2, <1>9, <1>11, OuterCells
    <2> QED BY <2>1, <1>13 DEF StillHeld
<1>15. ~InElement("head", g) /\ w = Waiting("head", g) /\ Between(g, t)
    BY <1>7, <1>11 DEF InElement, Waiting, Between
<1> QED BY <1>1, <1>2, <1>6, <1>7, <1>9, <1>13, <1>14, <1>15, GoOn DEF Inside1

\* Inside of an element, and what comes next.
LEMMA InContentNow ==
    ASSUME TInv, pc \in {"content", "afterblock"}, TagsFrom(F.cur) # {}
    PROVE  \E t \in 0 .. Len(doc), el \in Finds :
              /\ Scene(pc, F, F.cur, t, el)
              /\ Len(OpenStack(doc, t)) = Len(calls) /\ Len(calls) \in Nat \ {0}
              /\ OutersWait(el, t) /\ Waits(el, F, OpenStack(doc, t)[Len(calls)])
              /\ OpenStack(doc, T - 1) = OpenStack(doc, t)
              /\ T - 1 \in 0 .. Len(doc) /\ Behind(At(T), T - 1)
              /\ TreeOK(el, T - 1, Outers \cup {F.nnc}, NULL)
<1>1. pc \in Inside1 /\ InElement(pc, F) /\ pc # "blockdata"
    BY DEF Inside1, InElement
<1>2. RInv /\ GoodText /\ calls # <<>>
    BY <1>1, SceneNow DEF TInv
<1>3. PICK t \in 0 .. Len(doc), el \in Finds : Scene(pc, F, F.cur, t, el)
    BY <1>1, SceneNow
<1>4. /\ Len(OpenStack(doc, t)) = Len(calls) /\ OutersWait(el, t)
      /\ Waits(el, F, OpenStack(doc, t)[Len(calls)])
      /\ TreeOK(el, t, Outers \cup {F.nnc}, NULL)
    BY <1>1, <1>3 DEF Scene, Waiting
<1>5. /\ OpenStack(doc, T - 1) = OpenStack(doc, t) /\ T - 1 \in 0 .. Len(doc)
      /\ Behind(At(T), T - 1)
    BY <1>1, <1>2, <1>3, SceneTag
<1>6. TreeOK(el, T - 1, Outers \cup {F.nnc}, NULL)
    BY <1>1, <1>2, <1>3, <1>4, PastTag
<1>7. Len(calls) \in Nat \ {0}
    BY <1>2, HereClient
<1> QED BY <1>3, <1>4, <1>5, <1>6, <1>7

\* A block in front of the content.
LEMMA ContentBlockTree == TInv /\ SInv' /\ ContentBlock => EInv'
<1> SUFFICES ASSUME TInv, SInv', ContentBlock PROVE EInv'
    OBVIOUS
<1>1. /\ pc \in {"content", "afterblock"} /\ pc \in Inside1 /\ TagsFrom(F.cur) # {}
      /\ Kind(T) \in {"comment", "cdata"}
      /\ UNCHANGED <<doc, root, payload, parent, live, failed>>
    BY DEF ContentBlock, InContent, Inside1, Quiet, Keep, cacheVars, treeVars, heapVars
<1>2. PICK cur : cur = BlockEnd(T)
    OBVIOUS
<1>3. PICK f : f = [F EXCEPT !.cur = cur]
    OBVIOUS
<1>4. pc' = "afterblock" /\ calls' = SetTop(f)
    BY <1>2, <1>3 DEF ContentBlock, Goto
<1>5. /\ calls # <<>> /\ pc # "crashed" /\ SInv /\ EInv /\ RInv /\ GoodText /\ IsCase
      /\ \E t \in 0 .. Len(doc), el \in Finds : Scene(pc, F, F.cur, t, el)
    BY <1>1, SceneNow DEF TInv
<1>6. PICK t \in 0 .. Len(doc), el \in Finds : Scene(pc, F, F.cur, t, el)
    BY <1>5
<1>7. InElement(pc, F) /\ InElement("afterblock", f) /\ pc # "blockdata"
    BY <1>1 DEF InElement
<1>8. PICK u : u = T
    OBVIOUS
<1>9. u \in DOMAIN doc /\ u \in 0 .. Len(doc)
      /\ \A c \in Nat : At(u) < c /\ c <= At(u + 1) => Behind(c, u)
    BY <1>1, <1>5, <1>6, <1>8, SceneTag
<1>10. Behind(cur, u)
    <2>1. IsBlock(u)
        BY <1>1, <1>8 DEF IsBlock, BlockKinds
    <2>2. BlockEnd(u) \in Nat /\ At(u) < BlockEnd(u)
        BY <2>1, <1>5, <1>9, BlockFacts
    <2>3. BlockEnd(u) <= At(u + 1)
        <3>1. At(u + 1) \in Nat
            BY <1>5, <1>9, TokenFacts
        <3> QED BY <3>1 DEF BlockEnd
    <2> QED BY <2>2, <2>3, <1>2, <1>8, <1>9
<1>11. OpenStack(doc, u) = OpenStack(doc, t)
    BY <1>1, <1>5, <1>6, <1>8, SceneStack
<1>12. /\ f.cur = cur /\ f.nc = F.nc /\ f.nnc = F.nnc /\ f.element = F.element
       /\ f.rptr = F.rptr /\ f.fresh = F.fresh /\ f.rv = F.rv
    <2>1. F \in Frame
        BY <1>5, Here
    <2> QED BY <2>1, <1>3 DEF Frame
<1>13. TreeOK(el, u, Outers \cup {F.nnc}, NULL)
    <2>1. TreeOK(el, t, Outers \cup {F.nnc}, NULL)
        BY <1>6, <1>7 DEF Scene, Waiting
    <2>2. Kind(T) \notin ElementKinds
        BY <1>1 DEF ElementKinds
    <2> QED BY <2>1, <2>2, <1>1, <1>5, <1>6, <1>8, PastTag
<1>14. Scene("afterblock", f, f.cur, u, el)
    <2>1. Len(OpenStack(doc, u)) = Len(calls) /\ OutersWait(el, u)
          /\ Waits(el, F, OpenStack(doc, u)[Len(calls)])
        BY <1>6, <1>7, <1>11 DEF Scene, OutersWait
    <2>2. Waits(el, f, OpenStack(doc, u)[Len(calls)])
        BY <2>1, <1>12 DEF Waits
    <2>3. Waiting("afterblock", f) = Outers \cup {F.nnc}
        BY <1>7, <1>12 DEF Waiting
    <2> QED BY <2>1, <2>2, <2>3, <1>7, <1>10, <1>12, <1>13 DEF Scene
<1>15. "afterblock" \in Inside1 \ {"selfdata", "blockdata"}
    BY DEF Inside1
<1> QED BY <1>1, <1>4, <1>5, <1>9, <1>12, <1>14, <1>15, QuietTree

\* The closing tag follows.
LEMMA ToClosingTree == TInv /\ SInv' /\ (ElementCloses \/ ContentClose) => EInv'
<1> SUFFICES ASSUME TInv, SInv', ElementCloses \/ ContentClose PROVE EInv'
    OBVIOUS
<1>1. /\ pc \in {"head", "content", "afterblock"} /\ pc \in Inside1 /\ TagsFrom(F.cur) # {}
      /\ Kind(T) = "close" /\ InElement(pc, F) /\ pc # "blockdata"
      /\ UNCHANGED <<doc, root, payload, parent, live, failed>>
    BY DEF ElementCloses, ContentClose, AtTag, InContent, InElement, Inside1, Quiet, Keep,
           cacheVars, treeVars, heapVars
<1>2. PICK cur : cur = At(T)
    OBVIOUS
<1>3. PICK f : f = [F EXCEPT !.cur = cur]
    OBVIOUS
<1>4. pc' = "closing" /\ calls' = SetTop(f)
    BY <1>2, <1>3 DEF ElementCloses, ContentClose, Goto
<1>5. /\ calls # <<>> /\ pc # "crashed" /\ SInv /\ EInv /\ RInv /\ GoodText /\ IsCase
      /\ \E t \in 0 .. Len(doc), el \in Finds : Scene(pc, F, F.cur, t, el)
    BY <1>1, SceneNow DEF TInv
<1>6. PICK t \in 0 .. Len(doc), el \in Finds : Scene(pc, F, F.cur, t, el)
    BY <1>5
<1>7. InElement("closing", f)
    BY DEF InElement
<1>8. PICK u : u = T - 1
    OBVIOUS
<1>9. /\ u \in 0 .. Len(doc) /\ T \in Nat /\ T \in 0 .. Len(doc) /\ Behind(cur, u)
      /\ OpenStack(doc, u) = OpenStack(doc, t)
    BY <1>1, <1>2, <1>5, <1>6, <1>8, SceneTag
<1>10. CloseFollows(u)
    <2>1. u + 1 = T /\ u < Len(doc)
        BY <1>5, <1>8, <1>9, CaseFacts
    <2> QED BY <2>1, <1>1 DEF CloseFollows
<1>11. /\ f.cur = cur /\ f.nc = F.nc /\ f.nnc = F.nnc /\ f.element = F.element
       /\ f.rptr = F.rptr /\ f.fresh = F.fresh /\ f.rv = F.rv
    <2>1. F \in Frame
        BY <1>5, Here
    <2> QED BY <2>1, <1>3 DEF Frame
<1>12. TreeOK(el, u, Outers \cup {F.nnc}, NULL)
    <2>1. TreeOK(el, t, Outers \cup {F.nnc}, NULL)
        BY <1>1, <1>6 DEF Scene, Waiting
    <2> QED BY <2>1, <1>1, <1>5, <1>6, <1>8, PastTag
<1>13. Scene("closing", f, f.cur, u, el)
    <2>1. Len(OpenStack(doc, u)) = Len(calls) /\ OutersWait(el, u)
          /\ Waits(el, F, OpenStack(doc, u)[Len(calls)])
        BY <1>1, <1>6, <1>9 DEF Scene, OutersWait
    <2>2. Waits(el, f, OpenStack(doc, u)[Len(calls)])
        BY <2>1, <1>11 DEF Waits
    <2>3. Waiting("closing", f) = Outers \cup {F.nnc}
        BY <1>7, <1>11 DEF Waiting
    <2> QED BY <2>1, <2>2, <2>3, <1>7, <1>9, <1>10, <1>11, <1>12 DEF Scene
<1>14. "closing" \in Inside1 \ {"selfdata", "blockdata"}
    BY DEF Inside1
<1> QED BY <1>1, <1>4, <1>5, <1>9, <1>11, <1>13, <1>14, QuietTree

\* The stack behind a recursive call.
LEMMA StackCall ==
    ASSUME RInv, calls # <<>>, NEW f \in Frame, NEW g, calls' = Append(SetTop(f), g)
    PROVE  /\ Len(calls') = Len(calls) + 1 /\ calls' # <<>> /\ F' = g
           /\ calls'[Len(calls) + 1] = g
           /\ \A j \in 1 .. Len(calls) : calls'[j] = IF j = Len(calls) THEN f ELSE calls[j]
<1>1. PICK n \in Nat \ {0} : n = Len(calls)
    BY HereClient
<1>2. calls \in Seq(Frame) /\ DOMAIN calls = 1 .. n
    BY <1>1, HereClient DEF RInv, SInv, Stack
<1>3. n \in 1 .. Len(calls)
    BY <1>1
<1>4. PICK s : s = SetTop(f)
    OBVIOUS
<1>5. /\ s \in Seq(Frame) /\ Len(s) = n
      /\ \A j \in 1 .. n : s[j] = IF j = n THEN f ELSE calls[j]
    BY <1>1, <1>2, <1>3, <1>4, ExceptSeq DEF SetTop
<1>6. calls' = Append(s, g)
    BY <1>4
<1>7. /\ Len(calls') = n + 1 /\ calls'[n + 1] = g
      /\ \A j \in 1 .. n : calls'[j] = s[j]
    BY <1>5, <1>6, <1>1
<1>8. calls' # <<>>
    <2>1. Len(<<>>) = 0
        OBVIOUS
    <2> QED BY <2>1, <1>7
<1>9. Len(calls') = n + 1 /\ F' = calls'[n + 1]
    BY ONLY <1>7 DEF F
<1> QED BY <1>1, <1>5, <1>7, <1>8, <1>9

\* A tag in the content: the recursive call.
LEMMA ContentChildTree == TInv /\ SInv' /\ ContentChild => EInv'
<1> SUFFICES ASSUME TInv, SInv', ContentChild PROVE EInv'
    OBVIOUS
<1>1. /\ pc \in {"content", "afterblock"} /\ pc \in Inside1 /\ TagsFrom(F.cur) # {}
      /\ Kind(T) \in {"open", "self", "cut", "pi"}
      /\ UNCHANGED <<doc, root, payload, parent, live, failed>>
    BY DEF ContentChild, InContent, Inside1, Quiet, Keep, cacheVars, treeVars, heapVars
<1>2. /\ calls # <<>> /\ RInv /\ SInv /\ GoodText /\ IsCase /\ Chain /\ Rising /\ Heap
    BY <1>1, SceneNow DEF TInv
<1>3. PICK t \in 0 .. Len(doc), el \in Finds :
         /\ Scene(pc, F, F.cur, t, el)
         /\ Len(OpenStack(doc, t)) = Len(calls) /\ Len(calls) \in Nat \ {0}
         /\ OutersWait(el, t) /\ Waits(el, F, OpenStack(doc, t)[Len(calls)])
         /\ OpenStack(doc, T - 1) = OpenStack(doc, t)
         /\ T - 1 \in 0 .. Len(doc) /\ Behind(At(T), T - 1)
         /\ TreeOK(el, T - 1, Outers \cup {F.nnc}, NULL)
    BY <1>1, InContentNow
<1>4. Kind(T) \in ElementKinds
    <2>1. Kind(T) # "cut"
        BY <1>1, <1>2, <1>3, SceneTag
    <2>2. Kind(T) # "pi"
        <3>1. PICK st : st = OpenStack(doc, t)
            OBVIOUS
        <3>2. Kind(T) = "pi" => Len(st) = 0
            BY <1>1, <1>2, <1>3, <3>1, SceneStack
        <3> QED BY <3>1, <3>2, <1>3
    <2> QED BY <2>1, <2>2, <1>1 DEF ElementKinds
<1>5. PICK at, n, u : at = At(T) /\ n = Len(calls) /\ u = T - 1
    OBVIOUS
<1>6. PICK f, g : f = [F EXCEPT !.cur = at + 1] /\ g = Activation(F.nnc, AnyName, AllNums, at)
    OBVIOUS
<1>7. calls' = Append(SetTop(f), g) /\ pc' = "enter"
    BY <1>5, <1>6 DEF ContentChild, Call
<1>8. f \in Frame /\ f.nc = F.nc /\ f.nnc = F.nnc /\ f.element = F.element
      /\ f.rptr = F.rptr /\ f.fresh = F.fresh /\ f.rv = F.rv
    <2>1. F \in Frame /\ at \in Nat
        BY <1>1, <1>2, <1>5, Here, HereTag
    <2> QED BY <2>1, <1>6 DEF Frame
<1>9. g.nc = F.nnc /\ g.nnc = NULL /\ g.fresh /\ g.cur = at
    BY <1>6 DEF Activation
<1>10. /\ Len(calls') = n + 1 /\ F' = g /\ calls'[n + 1] = g /\ n \in Nat \ {0}
       /\ \A j \in 1 .. n : calls'[j] = IF j = n THEN f ELSE calls[j]
    BY <1>2, <1>3, <1>5, <1>7, <1>8, StackCall
<1>11. \A j \in 1 .. n : calls'[j].nnc = calls[j].nnc /\ calls'[j].nc = calls[j].nc
    BY <1>5, <1>8, <1>10 DEF F
<1>12. Chain'
    <2> SUFFICES ASSUME NEW k \in 1 .. n + 1
                 PROVE  calls'[k].nc = IF k = 1 THEN root ELSE calls'[k - 1].nnc
        BY <1>1, <1>10 DEF Chain
    <2>1. CASE k = n + 1
        <3>1. k # 1 /\ k - 1 = n /\ n \in 1 .. n
            BY <2>1, <1>10
        <3> QED BY <3>1, <2>1, <1>5, <1>9, <1>10, <1>11 DEF F
    <2>2. CASE k \in 1 .. n
        <3>1. k # 1 => k - 1 \in 1 .. n
            BY <2>2, <1>10
        <3>2. calls[k].nc = IF k = 1 THEN root ELSE calls[k - 1].nnc
            BY <2>2, <1>2, <1>5 DEF Chain
        <3> QED BY <3>1, <3>2, <2>2, <1>11
    <2> QED BY <2>1, <2>2, <1>10
<1>13. Rising'
    <2> SUFFICES ASSUME NEW j \in 1 .. n + 1, NEW k \in 1 .. n + 1, j < k, calls'[k].nnc # NULL
                 PROVE  calls'[j].nnc < calls'[k].nnc
        BY <1>10 DEF Rising
    <2>1. k # n + 1
        BY <1>9, <1>10
    <2>2. k \in 1 .. n /\ j \in 1 .. n
        BY <2>1, <1>10
    <2> QED BY <2>2, <1>2, <1>5, <1>11 DEF Rising
<1>14. Outers' = Outers \cup {F.nnc}
    <2>1. Outers' = {calls'[k].nnc : k \in 1 .. n}
        <3>1. (n + 1) - 1 = n
            BY <1>10
        <3> QED BY <3>1, <1>10 DEF Outers
    <2>2. Outers = {calls[k].nnc : k \in 1 .. n - 1} /\ F.nnc = calls[n].nnc
        BY <1>5 DEF Outers, F
    <2>3. 1 .. n = (1 .. n - 1) \cup {n}
        BY <1>10
    <2> QED BY <2>1, <2>2, <2>3, <1>11
<1>15. Complete' => Complete
    BY <1>1 DEF Complete
<1>16. OutersWait(el, u)'
    <2> SUFFICES ASSUME NEW k \in 1 .. n
                 PROVE  Waits(el, calls[k], OpenStack(doc, u)[k])'
        <3>1. (n + 1) - 1 = n
            BY <1>10
        <3> QED BY <3>1, <1>10 DEF OutersWait
    <2>1. PICK h, i : h = calls'[k] /\ i = OpenStack(doc, u)[k]
        OBVIOUS
    <2>2. Waits(el, h, i)
        <3>1. CASE k = n
            <4>1. Waits(el, F, i)
                BY <3>1, <2>1, <1>3, <1>5
            <4>2. h = f
                BY <3>1, <2>1, <1>10
            <4> QED BY <4>1, <4>2, <1>8 DEF Waits
        <3>2. CASE k # n
            <4>1. k \in 1 .. Len(calls) - 1 /\ h = calls[k]
                BY <3>2, <2>1, <1>5, <1>10
            <4> QED BY <4>1, <2>1, <1>3, <1>5 DEF OutersWait
        <3> QED BY <3>1, <3>2
    <2>3. StillHeld(h.nnc, el, el)
        BY <1>1 DEF StillHeld
    <2>4. Waits(el, h, i)'
        BY <2>2, <2>3, <1>1, <1>15, WaitsStill
    <2>5. OpenStack(doc, u)[k]' = i
        BY <2>1, <1>1
    <2> QED BY <2>1, <2>4, <2>5 DEF Waits
<1>17. Behind(g.cur, u)'
    BY <1>1, <1>3, <1>5, <1>9, SameBehind
<1>18. PICK w : w = Outers \cup {F.nnc}
    OBVIOUS
<1>19. TreeOK(el, u, w, NULL)'
    BY <1>1, <1>3, <1>5, <1>18, SameTree
<1>20. Between(g, u)'
    <2>1. u + 1 = T /\ u < Len(doc) /\ n + 1 # 1
        <3>1. T \in Nat /\ T \in 0 .. Len(doc)
            BY <1>1, <1>2, <1>3, SceneTag
        <3> QED BY <3>1, <1>2, <1>5, <1>10, CaseFacts
    <2>2. Kind(u + 1)' \in ElementKinds
        BY <2>1, <1>1, <1>4, SameTokens
    <2>3. u < Len(doc') /\ Len(calls') # 1
        BY ONLY <2>1, <1>1, <1>10
    <2> QED BY <2>2, <2>3, <1>9 DEF Between
<1>21. Len(OpenStack(doc, u)') = Len(calls') - 1
    <2>1. OpenStack(doc, u)' = OpenStack(doc, t) /\ (n + 1) - 1 = n
        BY <1>1, <1>3, <1>5, <1>10
    <2> QED BY <2>1, <1>3, <1>5, <1>10
<1>22. Scene("enter", g, g.cur, u, el)'
    <2>1. Waiting("enter", g)' = w
        BY <1>14, <1>18 DEF Waiting, InElement
    <2>2. TreeOK(el, u, Waiting("enter", g), NULL)'
        BY <2>1, <1>19 DEF TreeOK, Described
    <2> QED BY <2>2, <1>16, <1>17, <1>20, <1>21 DEF Scene, InElement
<1>23. \E v \in 0 .. Len(doc'), e \in Finds : Scene(pc, F, F.cur, v, e)'
    <2>1. Scene(pc, F, F.cur, u, el)'
        BY <1>7, <1>10, <1>22 DEF Scene, Waits, Between, BehindSelf, InElement, Waiting
    <2>2. u \in 0 .. Len(doc')
        BY <1>1, <1>3, <1>5
    <2> QED BY <2>1, <2>2 DEF Finds
<1> QED BY <1>7, <1>12, <1>13, <1>23 DEF EInv

\* The closing tag is found: the cell of its element is filled.
LEMMA ClosingMatchTree == TInv /\ SInv' /\ ClosingMatch => EInv'
<1> SUFFICES ASSUME TInv, SInv', ClosingMatch PROVE EInv'
    OBVIOUS
<1>1. pc = "closing" /\ pc \in Inside1 /\ UNCHANGED <<doc, root>> /\ InElement(pc, F)
    BY DEF ClosingMatch, Inside1, Keep, InElement
<1>2. /\ calls # <<>> /\ pc # "crashed" /\ SInv /\ EInv /\ RInv /\ Heap /\ Rising /\ IsCase
      /\ GoodText /\ ClientOK(pc, F)
      /\ \E t \in 0 .. Len(doc), el \in Finds : Scene(pc, F, F.cur, t, el)
    BY <1>1, SceneNow DEF TInv
<1>3. /\ Wanted(F) /\ F.num = AllNums /\ F \in Frame /\ F.nnc \in CellOrNull /\ F.cur \in Nat
      /\ Len(calls) \in Nat \ {0}
    BY <1>2, HereClient
<1>4. F.starttag
    BY <1>1, <1>2 DEF ClientOK
<1>5. PICK f : f = [F EXCEPT !.len = At(T) - F.rv, !.starttag = FALSE]
    OBVIOUS
<1>6. PICK g : g = Head1([f EXCEPT !.found = @ + 1], Ps + 1)
    OBVIOUS
<1>7. /\ pc' = "head" /\ calls' = SetTop(g)
      /\ cacheDataSet(F.nnc, [name |-> F.element, from |-> F.rptr, len |-> At(T) - F.rptr])
    BY <1>3, <1>4, <1>5, <1>6 DEF ClosingMatch, Goto
<1>8. /\ g.cur = Ps + 1 /\ g.element = <<>> /\ ~g.fresh /\ g.rv = F.rv
      /\ g.nc = F.nc /\ g.nnc = F.nnc
    <2>1. f.rv = F.rv /\ f.nc = F.nc /\ f.nnc = F.nnc /\ DOMAIN f = DOMAIN F
        BY <1>3, <1>5 DEF Frame
    <2> QED BY <2>1, <1>3, <1>6 DEF Head1, Frame
<1>9. PICK t \in 0 .. Len(doc), el \in Finds : Scene("closing", F, F.cur, t, el)
    BY <1>1, <1>2
<1>10. PICK st, m, u : st = OpenStack(doc, t) /\ m = Len(calls) /\ u = T
    OBVIOUS
<1>11. /\ Len(st) = m /\ OutersWait(el, t) /\ Waits(el, F, st[m])
       /\ CloseFollows(t) /\ TreeOK(el, t, Outers \cup {F.nnc}, NULL)
    BY <1>1, <1>9, <1>10 DEF Scene, Waiting
<1>12. TagsFrom(F.cur) # {}
    BY <1>1, <1>2, ClosingFacts
<1>13. /\ u \in DOMAIN doc /\ u \in 0 .. Len(doc) /\ Kind(u) = "close"
       /\ \A c \in Nat : At(u) < c /\ c <= At(u + 1) => Behind(c, u)
    BY <1>1, <1>2, <1>9, <1>10, <1>11, <1>12, SceneTag
<1>14. /\ st \in Seq(Nat) /\ st # <<>> /\ OpenStack(doc, u) = Front(st)
       /\ st[m] \in Elements(doc) /\ Kind(st[m]) = "open"
       /\ doc[st[m]].name = doc[u].name /\ CloseOf(doc, st[m]) = u
    BY <1>1, <1>2, <1>9, <1>10, <1>11, <1>12, <1>13, SceneStack
<1>15. PICK i : i = st[m]
    OBVIOUS
<1>16. F.element = doc[u].name /\ F.rptr = At(i + 1) /\ F.rv # NoPos /\ Holds(el, F.nnc, i)
    BY <1>11, <1>14, <1>15 DEF Waits
<1>17. cacheDataSet(F.nnc, Entry(i))
    <2>1. ContentLen(doc, i) = At(u) - At(i + 1)
        BY <1>14, <1>15 DEF ContentLen, Kind, At
    <2>2. [name |-> F.element, from |-> F.rptr, len |-> At(u) - F.rptr] = Entry(i)
        BY <2>1, <1>14, <1>15, <1>16 DEF Entry
    <2> QED BY <2>2, <1>7, <1>10
<1>18. Behind(g.cur, u)
    <2>1. At(u) \in Nat /\ At(u + 1) = At(u) + Width(doc[u]) /\ At(u + 1) \in Nat
        BY <1>2, <1>13, TokenFacts
    <2>2. Width(doc[u]) = Len(doc[u].name) + 3 /\ Len(doc[u].name) \in Nat
        <3>1. doc[u].name \in Seq(STRING)
            BY <1>2, <1>10, <1>12, HereTag
        <3> QED BY <3>1, <1>13, LenProperties DEF Width, Kind
    <2>3. g.cur = At(u + 1)
        BY <2>1, <2>2, <1>8, <1>10, <1>16 DEF Ps
    <2> QED BY <2>1, <2>2, <2>3, <1>13
<1>19. /\ Len(OpenStack(doc, u)) = Len(calls) - 1
       /\ \A k \in 1 .. Len(calls) - 1 : OpenStack(doc, u)[k] = OpenStack(doc, t)[k]
    BY <1>10, <1>11, <1>14, FrontIs
<1>20. PICK w, n0 : w = Outers /\ n0 = F.nnc
    OBVIOUS
<1>21. TreeOK(el, u, w \cup {n0}, NULL)
    <2>1. Kind(T) \notin ElementKinds
        BY <1>10, <1>13 DEF ElementKinds
    <2> QED BY <2>1, <1>1, <1>2, <1>9, <1>10, <1>11, <1>12, <1>20, PastTag
<1>22. n0 # NULL => n0 \in live \ {root} /\ payload[n0] = Blank /\ el[n0] = i
    BY <1>16, <1>20 DEF Holds
<1>23. /\ TreeOK(el, u, w, NULL)' /\ live' = live /\ (Complete' => Complete)
       /\ \A n \in live : n # n0 => payload'[n] = payload[n]
    BY <1>1, <1>2, <1>3, <1>14, <1>15, <1>17, <1>20, <1>21, <1>22, DescribeElement
<1>24. \A n \in Outers : StillHeld(n, el, el)
    <2>1. \A n \in Outers : n \in live => n # n0
        BY <1>2, <1>11, <1>20, OuterCells
    <2> QED BY <2>1, <1>23 DEF StillHeld
<1>25. ~InElement("head", g) /\ w = Waiting("head", g) /\ Between(g, u)
    BY <1>8, <1>16, <1>20 DEF InElement, Waiting, Between
<1> QED BY <1>1, <1>2, <1>7, <1>8, <1>11, <1>13, <1>18, <1>19, <1>23, <1>24, <1>25, GoOn DEF Inside1

\* The caller goes on behind what the recursive call has scanned.
LEMMA ResumeTree == TInv /\ SInv' /\ Resume => EInv'
<1> SUFFICES ASSUME TInv, SInv', Resume PROVE EInv'
    OBVIOUS
<1>1. /\ pc = "return" /\ pc # "crashed" /\ calls # <<>>
      /\ UNCHANGED <<doc, root, payload, parent, live, failed>>
    BY DEF Resume, Quiet, Keep, cacheVars, treeVars, heapVars
<1>2. EInv /\ RInv /\ SInv /\ IsCase /\ GoodText
    BY DEF TInv, Base, RInv, SInv
<1>3. PICK cur : cur = F.cur + ret.len
    OBVIOUS
<1>4. PICK f : f = [F EXCEPT !.cur = cur]
    OBVIOUS
<1>5. pc' = "head" /\ calls' = SetTop(f)
    BY <1>3, <1>4 DEF Resume, Goto
<1>6. PICK t \in 0 .. Len(doc), el \in Finds : Scene("return", F, cur, t, el)
    BY <1>1, <1>2, <1>3 DEF EInv
<1>7. /\ Behind(cur, t) /\ Len(OpenStack(doc, t)) = Len(calls) /\ OutersWait(el, t)
      /\ Waits(el, F, OpenStack(doc, t)[Len(calls)]) /\ CloseFollows(t)
      /\ TreeOK(el, t, Outers \cup {F.nnc}, NULL)
    BY <1>6 DEF Scene, InElement, Waiting
<1>8. /\ f.cur = cur /\ f.nc = F.nc /\ f.nnc = F.nnc /\ f.element = F.element
      /\ f.rptr = F.rptr /\ f.fresh = F.fresh /\ f.rv = F.rv
    <2>1. F \in Frame
        BY <1>1, <1>2, Here
    <2> QED BY <2>1, <1>4 DEF Frame
<1>9. f.element # <<>>
    <2>1. t + 1 \in DOMAIN doc /\ Kind(t + 1) = "close" /\ (t + 1) - 1 = t
        BY <1>2, <1>7, CaseFacts DEF CloseFollows
    <2>2. PICK st, i, tag : st = OpenStack(doc, t) /\ i = st[Len(calls)] /\ tag = t + 1
        OBVIOUS
    <2>3. Last(OpenStack(doc, tag - 1)) \in Elements(doc)
        BY <2>1, <2>2, <1>2, TagOpens
    <2>4. i \in Elements(doc)
        BY <2>1, <2>2, <2>3, <1>7 DEF Last
    <2>5. doc[i].name # <<>>
        BY <2>4, <1>2, ElementName
    <2> QED BY <2>2, <2>5, <1>7, <1>8 DEF Waits
<1>10. InElement("head", f)
    BY <1>7, <1>8, <1>9 DEF InElement, Waits
<1>11. Scene("head", f, f.cur, t, el)
    <2>1. Waits(el, f, OpenStack(doc, t)[Len(calls)])
        BY <1>7, <1>8 DEF Waits
    <2>2. Waiting("head", f) = Outers \cup {F.nnc}
        BY <1>8, <1>10 DEF Waiting
    <2> QED BY <2>1, <2>2, <1>7, <1>8, <1>10 DEF Scene
<1>12. "head" \in Inside1 \ {"selfdata", "blockdata"}
    BY DEF Inside1
<1> QED BY <1>1, <1>2, <1>5, <1>8, <1>11, <1>12, QuietTree

\* A call begins: it gives its cell a level.
LEMMA EnterTree == TInv /\ SInv' /\ Enter => EInv'
<1> SUFFICES ASSUME TInv, SInv', Enter PROVE EInv'
    OBVIOUS
<1>1. pc = "enter" /\ pc \in Inside1 /\ UNCHANGED <<doc, root>> /\ cacheInitLevel(F.nc)
      /\ pc' = "head" /\ calls' = SetTop(F)
    BY DEF Enter, Goto, Keep, Inside1
<1>2. /\ calls # <<>> /\ pc # "crashed" /\ SInv /\ EInv /\ Heap /\ ClientOK(pc, F)
      /\ \E t \in 0 .. Len(doc), el \in Finds : Scene(pc, F, F.cur, t, el)
    BY <1>1, SceneNow DEF TInv
<1>3. UNCHANGED <<payload, parent, live>> /\ (failed' = 0 => failed = 0)
    <2>1. failed \in Nat
        BY <1>2 DEF Heap
    <2>2. UNCHANGED <<payload, parent, live>> /\ (UNCHANGED failed \/ failed' = failed + 1)
        BY <1>1 DEF cacheInitLevel, cacheVars, treeVars, heapVars, AllocFails
    <2> QED BY <2>1, <2>2
<1>4. PICK t \in 0 .. Len(doc), el \in Finds : Scene("enter", F, F.cur, t, el)
    BY <1>1, <1>2
<1>5. PICK f : f = F
    OBVIOUS
<1>6. ~InElement("head", f) /\ ~InElement("enter", f)
    BY <1>1, <1>2, <1>5 DEF ClientOK, InElement
<1>7. Scene("head", f, f.cur, t, el)
    BY <1>4, <1>5, <1>6 DEF Scene, Waiting
<1>8. "head" \in Inside1 \ {"selfdata", "blockdata"}
    BY DEF Inside1
<1> QED BY <1>1, <1>2, <1>3, <1>5, <1>7, <1>8, QuietTree

\* The innermost activation returns.
LEMMA StackBack ==
    ASSUME RInv, Chain, Rising, SInv', calls # <<>>, calls' = Front(calls), UNCHANGED root
    PROVE  Chain' /\ Rising'
<1>1. PICK n \in Nat \ {0} : n = Len(calls)
    BY HereClient
<1>2. Len(calls') = n - 1 /\ \A j \in 1 .. n - 1 : calls'[j] = calls[j]
    BY <1>1, StackReturn DEF RInv
<1>3. Chain'
    <2> SUFFICES ASSUME NEW k \in 1 .. n - 1
                 PROVE  calls'[k].nc = IF k = 1 THEN root ELSE calls'[k - 1].nnc
        BY <1>2 DEF Chain
    <2>1. k \in 1 .. n /\ (k # 1 => k - 1 \in 1 .. n - 1)
        BY <1>1
    <2>2. calls[k].nc = IF k = 1 THEN root ELSE calls[k - 1].nnc
        BY <2>1, <1>1 DEF Chain
    <2> QED BY <2>1, <2>2, <1>2
<1>4. Rising'
    <2> SUFFICES ASSUME NEW j \in 1 .. n - 1, NEW k \in 1 .. n - 1, j < k, calls'[k].nnc # NULL
                 PROVE  calls'[j].nnc < calls'[k].nnc
        BY <1>2 DEF Rising
    <2>1. j \in 1 .. n /\ k \in 1 .. n
        BY <1>1
    <2> QED BY <2>1, <1>1, <1>2 DEF Rising
<1> QED BY <1>3, <1>4, Zenon

\* A closing tag ends the recursive call.
LEMMA EndOfSubsectionTree == TInv /\ SInv' /\ EndOfSubsection => EInv'
<1> SUFFICES ASSUME TInv, SInv', EndOfSubsection PROVE EInv'
    OBVIOUS
<1>1. /\ pc = "head" /\ pc \in Inside1 /\ TagsFrom(F.cur) # {} /\ Kind(T) = "close"
      /\ F.element = <<>> \/ ~SameName(T, F.element)
      /\ UNCHANGED <<doc, root, payload, parent, live, failed>>
      /\ pc' = "return" /\ calls' = Front(calls)
      /\ ret'.rv = F.rv /\ ret'.len = At(T) - F.start - 1
    BY DEF EndOfSubsection, AtTag, Inside1, Quiet, Keep, cacheVars, treeVars, heapVars, ReturnWith
<1>2. /\ calls # <<>> /\ RInv /\ SInv /\ GoodText /\ IsCase /\ Chain /\ Rising
      /\ \E t \in 0 .. Len(doc), el \in Finds : Scene(pc, F, F.cur, t, el)
    BY <1>1, SceneNow DEF TInv
<1>3. PICK t \in 0 .. Len(doc), el \in Finds : Scene("head", F, F.cur, t, el)
    BY <1>1, <1>2
<1>4. ~InElement("head", F)
    BY <1>1, <1>2, <1>3, HeadScene
<1>5. PICK m \in Nat \ {0} : m = Len(calls)
    BY <1>2, HereClient
<1>6. m > 1 /\ F.rv # NoPos
    BY <1>1, <1>2, <1>3, <1>4, <1>5, HeadScene
<1>7. PICK u, st : u = T - 1 /\ st = OpenStack(doc, t)
    OBVIOUS
<1>8. /\ u \in 0 .. Len(doc) /\ Behind(At(T), u) /\ OpenStack(doc, u) = st
      /\ T \in Nat /\ T \in 0 .. Len(doc)
    BY <1>1, <1>2, <1>3, <1>7, SceneTag
<1>9. /\ Len(st) = m - 1 /\ OutersWait(el, t) /\ TreeOK(el, t, Outers, NULL)
    BY <1>3, <1>4, <1>5, <1>7 DEF Scene, Waiting
<1>10. PICK w : w = Outers
    OBVIOUS
<1>11. TreeOK(el, u, w, NULL)
    BY <1>1, <1>2, <1>3, <1>7, <1>9, <1>10, PastTag
<1>12. /\ Len(calls') = m - 1 /\ \A j \in 1 .. m - 1 : calls'[j] = calls[j]
       /\ calls' # <<>> /\ F' = calls[m - 1]
    <2>1. /\ Len(calls') = m - 1 /\ \A j \in 1 .. m - 1 : calls'[j] = calls[j]
          /\ calls' # <<>> => F' = calls[m - 1]
          /\ calls' = <<>> => m = 1
        BY <1>1, <1>2, <1>5, StackReturn
    <2> QED BY <2>1, <1>6
<1>13. F'.cur + ret'.len = At(T)
    <2>1. F.start = calls[m - 1].cur - 1 /\ calls[m - 1] \in Frame
        BY <1>2, <1>5, <1>6, TopFacts DEF SInv
    <2>2. At(T) \in Nat /\ F.start \in Nat /\ calls[m - 1].cur \in Nat
        BY <2>1, <1>1, <1>2, HereTag, Here DEF Frame
    <2> QED BY <2>1, <2>2, <1>1, <1>12
<1>14. Chain' /\ Rising'
    BY <1>1, <1>2, StackBack
<1>15. Outers' \cup {F'.nnc} = w
    <2>1. Outers' = {calls[k].nnc : k \in 1 .. (m - 1) - 1}
        <3>1. \A k \in 1 .. (m - 1) - 1 : k \in 1 .. m - 1
            BY <1>5
        <3> QED BY <3>1, <1>12 DEF Outers
    <2>2. Outers = {calls[k].nnc : k \in 1 .. m - 1} /\ F'.nnc = calls[m - 1].nnc
        BY <1>5, <1>12 DEF Outers
    <2>3. 1 .. m - 1 = (1 .. (m - 1) - 1) \cup {m - 1}
        BY <1>5, <1>6
    <2> QED BY <2>1, <2>2, <2>3, <1>10
<1>16. Complete' => Complete
    BY <1>1 DEF Complete
<1>17. ASSUME NEW k \in 1 .. m - 1 PROVE Waits(el, calls[k], st[k])'
    <2>1. PICK h, i : h = calls[k] /\ i = st[k]
        OBVIOUS
    <2>2. Waits(el, h, i) /\ StillHeld(h.nnc, el, el)
        BY <2>1, <1>1, <1>5, <1>7, <1>9 DEF OutersWait, StillHeld
    <2>3. Waits(el, h, i)' /\ calls'[k] = h
        BY <2>1, <2>2, <1>1, <1>12, <1>16, WaitsStill
    <2> QED BY <2>1, <2>3 DEF Waits
<1>18. PICK f, cur : f = F' /\ cur = At(T)
    OBVIOUS
<1>19. Scene("return", f, cur, u, el)'
    <2>1. Behind(cur, u)'
        BY <1>1, <1>8, <1>18, SameBehind
    <2>2. Len(OpenStack(doc, u)') = Len(calls') /\ OpenStack(doc, u)' = st
        BY <1>1, <1>8, <1>9, <1>12
    <2>3. OutersWait(el, u)'
        <3> SUFFICES ASSUME NEW k \in 1 .. (m - 1) - 1
                     PROVE  Waits(el, calls[k], OpenStack(doc, u)[k])'
            BY <1>12 DEF OutersWait
        <3>1. k \in 1 .. m - 1
            BY <1>5
        <3>2. Waits(el, calls[k], st[k])'
            BY <3>1, <1>17
        <3> QED BY <3>2, <2>2 DEF Waits
    <2>4. Waits(el, f, OpenStack(doc, u)[Len(calls)])'
        <3>1. m - 1 \in 1 .. m - 1 /\ calls'[m - 1] = f /\ Len(calls') = m - 1
            BY <1>5, <1>6, <1>12, <1>18
        <3>2. Waits(el, calls[m - 1], st[m - 1])'
            BY <3>1, <1>17
        <3> QED BY <3>1, <3>2, <2>2 DEF Waits
    <2>5. CloseFollows(u)'
        <3>1. u + 1 = T /\ u < Len(doc)
            BY <1>2, <1>7, <1>8, CaseFacts
        <3>2. Kind(u + 1)' = "close"
            BY <3>1, <1>1, SameTokens
        <3> QED BY <3>1, <3>2, <1>1 DEF CloseFollows
    <2>6. Waiting("return", f)' = w
        BY <1>15, <1>18 DEF Waiting, InElement
    <2>7. TreeOK(el, u, w, NULL)'
        BY <1>1, <1>11, SameTree
    <2>8. TreeOK(el, u, Waiting("return", f), NULL)'
        BY <2>6, <2>7 DEF TreeOK, Described
    <2> QED BY <2>1, <2>2, <2>3, <2>4, <2>5, <2>8 DEF Scene, InElement
<1>20. \E v \in 0 .. Len(doc'), e \in Finds : Scene("return", F, F.cur + ret.len, v, e)'
    <2>1. Scene("return", F, F.cur + ret.len, u, el)'
        BY <1>13, <1>18, <1>19 DEF Scene, Waits, InElement, Waiting
    <2>2. u \in 0 .. Len(doc')
        BY <1>1, <1>8
    <2> QED BY <2>1, <2>2 DEF Finds
<1>21. pc' = "return" /\ ret'.rv # NoPos /\ calls' # <<>>
    BY <1>1, <1>6, <1>12
<1> QED BY <1>14, <1>20, <1>21 DEF EInv, Inside1

\* The text is over.
LEMMA NoMoreTagsTree == TInv /\ SInv' /\ NoMoreTags => EInv'
<1> SUFFICES ASSUME TInv, SInv', NoMoreTags PROVE EInv'
    OBVIOUS
<1>1. /\ pc = "head" /\ pc \in Inside1 /\ TagsFrom(F.cur) = {} /\ Leave(F)
      /\ UNCHANGED <<doc, root, payload, parent, live, failed>>
    BY DEF NoMoreTags, Inside1, Quiet, Keep, cacheVars, treeVars, heapVars
<1>2. /\ calls # <<>> /\ RInv /\ SInv /\ GoodText /\ IsCase
      /\ \E t \in 0 .. Len(doc), el \in Finds : Scene(pc, F, F.cur, t, el)
    BY <1>1, SceneNow DEF TInv
<1>3. PICK t \in 0 .. Len(doc), el \in Finds : Scene("head", F, F.cur, t, el)
    BY ONLY <1>1, <1>2
<1>4. PICK m \in Nat \ {0} : m = Len(calls)
    BY <1>2, HereClient
<1>5. Wanted(F) /\ F.cur \in Nat
    BY <1>2, HereClient
<1>6. pc' = "return" /\ calls' = Front(calls) /\ ret'.rv = F.rv
    BY <1>1, <1>5 DEF Leave, ReturnWith
<1>7. /\ OpenStack(doc, t) = <<>> /\ t \in Nat
      /\ \A e \in Elements(doc) : e <= t
    BY <1>1, <1>2, <1>3, <1>5, NoTagBehind DEF Scene
<1>8. Len(OpenStack(doc, t)) = 0
    BY <1>7
<1>9. ~InElement("head", F) /\ m = 1
    BY <1>3, <1>4, <1>8 DEF Scene
<1>10. calls' = <<>>
    <2>1. Len(calls') = 0 /\ (calls' # <<>> => m > 1)
        BY <1>2, <1>4, <1>6, <1>9, StackReturn
    <2> QED BY <2>1, <1>9
<1>11. F.rv # NoPos
    <2>1. PICK e \in Elements(doc) : e \in Nat \ {0}
        <3>1. Elements(doc) # {}
            BY <1>2 DEF GoodText, WellFormed
        <3>2. \A e \in Elements(doc) : e \in 1 .. Len(doc) /\ Len(doc) \in Nat
            BY <1>2, CaseFacts DEF Elements
        <3> QED BY <3>1, <3>2
    <2>2. e <= t
        BY <1>7
    <2>3. Between(F, t)
        BY <1>3, <1>9 DEF Scene
    <2>4. ~F.fresh
        <3>1. F.fresh => t = 0
            BY <2>3, <1>4, <1>9 DEF Between
        <3> QED BY <3>1, <2>1, <2>2
    <2> QED BY <2>2, <2>3, <2>4 DEF Between
<1>12. PICK w : w = {}
    OBVIOUS
<1>13. TreeOK(el, Len(doc), w, NULL)
    <2>1. Outers = {}
        <3>1. \A k \in 1 .. Len(calls) - 1 : FALSE
            BY <1>4, <1>9
        <3> QED BY <3>1 DEF Outers
    <2>2. TreeOK(el, t, Outers, NULL)
        BY <1>3, <1>9 DEF Scene, Waiting
    <2>3. Len(doc) \in Nat /\ t <= Len(doc)
        BY <1>2, CaseFacts
    <2>4. Outers \subseteq w
        BY <2>1
    <2> QED BY <2>2, <2>3, <2>4, <1>2, <1>7, TreeLater
<1>14. TreeOK(el, Len(doc), {}, NULL)'
    <2>1. PICK n : n = Len(doc)
        OBVIOUS
    <2>2. TreeOK(el, n, w, NULL)'
        BY <2>1, <1>1, <1>13, SameTree
    <2>3. Len(doc') = n
        BY <2>1, <1>1
    <2> QED BY <2>2, <2>3, <1>12 DEF TreeOK
<1>15. Chain' /\ Rising'
    <2>1. \A k \in 1 .. Len(calls') : FALSE
        BY <1>10
    <2> QED BY <2>1 DEF Chain, Rising
<1>16. pc' \notin Inside1 /\ pc' # "start"
    BY <1>6 DEF Inside1
<1>17. \E e \in Finds : TreeOK(e, Len(doc), {}, NULL)'
    BY <1>14
<1> QED BY <1>6, <1>10, <1>11, <1>15, <1>16, <1>17 DEF EInv, Finds

\* The open begins.
LEMMA StartTree == TInv /\ SInv' /\ Start => EInv'
<1> SUFFICES ASSUME TInv, SInv', Start PROVE EInv'
    OBVIOUS
<1>1. RInv /\ EInv /\ SInv /\ IsCase /\ cached
    BY DEF TInv, Base, RInv, AnOpen, SInv
<1>2. pc = "start" /\ pc' = "enter" /\ UNCHANGED doc /\ \A n \in Cells : payload[n] = Blank
    BY <1>1 DEF Start, EInv
<1>3. Heap
    BY <1>1, <1>2, HeapFacts
<1>4. used = 0 /\ live = {}
    <2>1. clientPhase = "start"
        BY <1>2 DEF clientPhase
    <2>2. used = 0
        BY <2>1, <1>1 DEF RInv, P!IInv, P!PhaseOK
    <2> QED BY <2>2, <1>3 DEF Heap
<1>5. PICK rv \in CellOrNull : /\ CellNew(rv) /\ UNCHANGED <<payload, parent>>
                               /\ root' = rv
                               /\ calls' = <<Activation(rv, req.name, req.num, 0)>>
    BY <1>1 DEF Start, cacheInit, treeVars
<1>6. live' \subseteq {root'} /\ (failed' = 0 => root' # NULL)
    <2>1. failed \in Nat
        BY <1>3 DEF Heap
    <2>2. CASE rv = used + 1 /\ live' = live \cup {rv}
        <3>1. rv = 1
            BY <2>2, <1>4
        <3> QED BY <3>1, <2>2, <1>4, <1>5 DEF NULL
    <2>3. CASE rv = NULL /\ live' = live /\ failed' = failed + 1
        BY <2>1, <2>3, <1>4
    <2> QED BY <2>2, <2>3, <1>5 DEF CellNew, AllocFails
<1>7. PICK f : f = Activation(rv, req.name, req.num, 0)
    OBVIOUS
<1>8. /\ f.nc = rv /\ f.nnc = NULL /\ f.fresh /\ f.cur = 0 /\ f.rv = NoPos
    BY <1>7 DEF Activation
<1>9. calls' = <<f>> /\ Len(calls') = 1 /\ calls'[1] = f /\ F' = f /\ calls' # <<>>
    BY <1>5, <1>7 DEF F
<1>10. Chain'
    BY <1>5, <1>8, <1>9 DEF Chain
<1>11. Rising'
    <2>1. \A j, k \in 1 .. 1 : ~(j < k)
        OBVIOUS
    <2> QED BY <2>1, <1>9 DEF Rising
<1>12. PICK el : el = [n \in Cells |-> 0]
    OBVIOUS
<1>13. ~InElement("enter", f)
    BY DEF InElement
<1>14. Outers' = {} /\ OutersWait(el, 0)'
    <2>1. \A k \in 1 .. Len(calls') - 1 : FALSE
        BY <1>9
    <2> QED BY <2>1 DEF Outers, OutersWait
<1>15. TreeOK(el, 0, {}, NULL)'
    <2>1. el \in [Cells -> Nat] /\ \A n \in Cells : payload'[n] = Blank
        BY <1>2, <1>5, <1>12
    <2>2. \A n : ~IsElement(n, NULL)'
        BY <1>6 DEF IsElement
    <2>3. Described(el, 0, {}, NULL)' /\ InOrder(el, NULL)'
        BY <2>2 DEF Described, InOrder
    <2>4. \A i \in Elements(doc) : ~(i <= 0)
        BY <1>1, CaseFacts DEF Elements
    <2>5. Complete' => AllThere(el, 0, NULL)'
        BY <2>4, <1>2, <1>6 DEF Complete, AllThere
    <2> QED BY <2>1, <2>3, <2>5 DEF TreeOK
<1>16. Scene("enter", f, f.cur, 0, el)'
    <2>1. Behind(f.cur, 0)'
        <3>1. Behind(f.cur, 0)
            BY <1>1, <1>8, BehindStart
        <3> QED BY <3>1, <1>2, SameBehind
    <2>2. Len(OpenStack(doc, 0))' = Len(calls') - 1
        BY <1>9, StackNone
    <2>3. Between(f, 0)'
        BY <1>8, <1>9 DEF Between
    <2>4. TreeOK(el, 0, Waiting("enter", f), NULL)'
        <3>1. Waiting("enter", f)' = {}
            BY <1>13, <1>14 DEF Waiting, InElement
        <3> QED BY <3>1, <1>15 DEF TreeOK, Described
    <2>5. InElement("enter", f)' <=> InElement("enter", f)
        BY DEF InElement
    <2> QED BY <2>1, <2>2, <2>3, <2>4, <2>5, <1>13, <1>14 DEF Scene
<1>17. Len(doc) \in Nat /\ 0 \in 0 .. Len(doc')
    BY <1>1, <1>2, CaseFacts
<1>18. \E t \in 0 .. Len(doc'), e \in Finds : Scene("enter", F, F.cur, t, e)'
    <2>1. Scene("enter", F, F.cur, 0, el)'
        BY <1>9, <1>16 DEF Scene, Waits, InElement, Waiting
    <2>2. el \in Finds
        BY <1>12 DEF Finds
    <2> QED BY <2>1, <2>2, <1>17
<1> QED BY <1>2, <1>9, <1>10, <1>11, <1>18 DEF EInv, Finds

\* A step that changes nothing.
LEMMA SameScene ==
    ASSUME UNCHANGED vars, NEW place, NEW f, NEW cur, NEW t, NEW el \in Finds,
           Scene(place, f, cur, t, el)
    PROVE  Scene(place, f, cur, t, el)'
<1>1. UNCHANGED <<doc, root, payload, parent, live, failed, calls>>
    BY DEF vars, scanVars, cacheVars, treeVars, heapVars
<1>2. PICK st : st = OpenStack(doc, t)
    OBVIOUS
<1>3. OpenStack(doc', t) = st
    BY <1>1, <1>2
<1>4. \A i : At(i)' = At(i) /\ Kind(i)' = Kind(i)
    BY <1>1, SameTokens
<1>5. Complete' <=> Complete
    BY <1>1 DEF Complete
<1>6. \A g, i : Waits(el, g, i) => Waits(el, g, i)'
    BY <1>1, <1>4, <1>5 DEF Waits, Holds
<1>7. OutersWait(el, t)'
    BY <1>1, <1>2, <1>3, <1>6 DEF Scene, OutersWait
<1>8. InElement(place, f)' <=> InElement(place, f)
    BY DEF InElement
<1>9. PICK w, b : w = Waiting(place, f) /\ b = IF place = "blockdata" THEN f.nnc ELSE NULL
    OBVIOUS
<1>10. TreeOK(el, t, w, b)'
    BY <1>1, <1>9, SameTree DEF Scene
<1>11. Waiting(place, f)' = w
    BY <1>1, <1>8, <1>9 DEF Waiting, Outers
<1>12. TreeOK(el, t, Waiting(place, f), IF place = "blockdata" THEN f.nnc ELSE NULL)'
    BY <1>9, <1>10, <1>11 DEF TreeOK, Described
<1>13. Behind(cur, t)'
    BY <1>1, SameBehind DEF Scene
<1>14. InElement(place, f) => Waits(el, f, OpenStack(doc, t)[Len(calls)])'
    <2>1. PICK i : i = st[Len(calls)]
        OBVIOUS
    <2>2. InElement(place, f) => Waits(el, f, i)'
        BY <2>1, <1>2, <1>6 DEF Scene
    <2>3. OpenStack(doc, t)[Len(calls)]' = i
        BY <2>1, <1>1, <1>3
    <2> QED BY <2>2, <2>3 DEF Waits
<1>15. CloseFollows(t)' <=> CloseFollows(t)
    BY <1>1, <1>4 DEF CloseFollows
<1>16. BehindSelf(f, t, el)' <=> BehindSelf(f, t, el)
    BY <1>1, <1>4, <1>5 DEF BehindSelf, Holds
<1>17. Between(f, t)' <=> Between(f, t)
    BY <1>1, <1>4 DEF Between
<1>18. Len(OpenStack(doc, t))' = Len(st) /\ Len(calls') = Len(calls)
    BY <1>1, <1>3
<1> QED BY <1>1, <1>2, <1>7, <1>8, <1>12, <1>13, <1>14, <1>15, <1>16, <1>17, <1>18 DEF Scene

\* So the program after its end.
LEMMA StutterTree == TInv /\ (Stopped \/ UNCHANGED vars) => EInv'
<1> SUFFICES ASSUME TInv, UNCHANGED vars PROVE EInv'
    BY DEF Stopped
<1>1. EInv
    BY DEF TInv
<1>2. UNCHANGED <<doc, root, payload, parent, live, failed, calls, pc, ret>>
    BY DEF vars, scanVars, cacheVars, treeVars, heapVars
<1>3. pc' # "crashed" => Chain' /\ Rising'
    BY <1>1, <1>2 DEF EInv, Chain, Rising
<1>4. pc' = "start" => \A n \in Cells : payload'[n] = Blank
    BY <1>1, <1>2 DEF EInv
<1>5. Finds' = Finds /\ F' = F
    BY <1>2 DEF Finds, F
<1>6. pc' \in Inside1 => \E t \in 0 .. Len(doc'), el \in Finds : Scene(pc, F, F.cur, t, el)'
    <2> SUFFICES ASSUME pc \in Inside1
                 PROVE  \E t \in 0 .. Len(doc), el \in Finds : Scene(pc, F, F.cur, t, el)'
        BY <1>2
    <2>1. PICK t \in 0 .. Len(doc), el \in Finds : Scene(pc, F, F.cur, t, el)
        BY <1>1 DEF EInv
    <2>2. PICK place, f, cur : place = pc /\ f = F /\ cur = F.cur
        OBVIOUS
    <2>3. Scene(place, f, cur, t, el)'
        BY <2>1, <2>2, SameScene
    <2>4. Scene(pc, F, F.cur, t, el)'
        BY <2>2, <2>3, <1>2, <1>5 DEF Scene, Waits, InElement, Waiting, BehindSelf, Between, Holds
    <2> QED BY <2>4
<1>7. pc' = "return" /\ calls' # <<>> =>
         /\ ret'.rv # NoPos
         /\ \E t \in 0 .. Len(doc'), el \in Finds : Scene("return", F, F.cur + ret.len, t, el)'
    <2> SUFFICES ASSUME pc = "return", calls # <<>>
                 PROVE  /\ ret.rv # NoPos
                        /\ \E t \in 0 .. Len(doc), el \in Finds :
                              Scene("return", F, F.cur + ret.len, t, el)'
        BY <1>2
    <2>1. ret.rv # NoPos
        BY <1>1 DEF EInv
    <2>2. PICK t \in 0 .. Len(doc), el \in Finds : Scene("return", F, F.cur + ret.len, t, el)
        BY <1>1 DEF EInv
    <2>3. PICK f, cur : f = F /\ cur = F.cur + ret.len
        OBVIOUS
    <2>4. Scene("return", f, cur, t, el)'
        BY <2>2, <2>3, SameScene
    <2>5. Scene("return", F, F.cur + ret.len, t, el)'
        BY <2>3, <2>4, <1>2, <1>5 DEF Scene, Waits, InElement, Waiting, BehindSelf, Between, Holds
    <2> QED BY <2>1, <2>5
<1>8. pc' \in {"return", "done"} /\ calls' = <<>> =>
         ret'.rv # NoPos /\ \E el \in Finds : TreeOK(el, Len(doc), {}, NULL)'
    <2> SUFFICES ASSUME pc \in {"return", "done"}, calls = <<>>
                 PROVE  ret.rv # NoPos /\ \E el \in Finds : TreeOK(el, Len(doc), {}, NULL)'
        BY <1>2
    <2>1. ret.rv # NoPos
        BY <1>1 DEF EInv
    <2>2. PICK el \in Finds : TreeOK(el, Len(doc), {}, NULL)
        BY <1>1 DEF EInv
    <2>3. PICK n : n = Len(doc)
        OBVIOUS
    <2>4. TreeOK(el, n, {}, NULL)'
        BY <2>2, <2>3, <1>2, SameTree
    <2>5. Len(doc') = n
        BY <2>3, <1>2
    <2> QED BY <2>1, <2>4, <2>5 DEF TreeOK
<1> QED BY <1>3, <1>4, <1>6, <1>7, <1>8, <1>5 DEF EInv

\* The steps after the scan.
LEMMA OutsideTree == TInv /\ SInv' /\ (Finish \/ Release \/ FreeStep \/ Closed) => EInv'
<1> SUFFICES ASSUME TInv, Finish \/ Release \/ FreeStep \/ Closed PROVE EInv'
    OBVIOUS
<1>1. EInv /\ SInv
    BY DEF TInv, Base, RInv
<1>2. calls' = <<>> /\ calls = <<>>
    BY <1>1 DEF Finish, Release, FreeStep, Closed, SInv, Places, Outside, scanVars, Quiet, Keep
<1>3. Chain' /\ Rising'
    <2>1. \A k \in 1 .. Len(calls') : FALSE
        BY <1>2
    <2> QED BY <2>1 DEF Chain, Rising
<1>4. CASE Finish
    <2>1. /\ pc = "return" /\ pc' = "done" /\ ret' = ret
          /\ UNCHANGED <<doc, root, payload, parent, live, failed>>
        BY <1>4 DEF Finish, Quiet, Keep, cacheVars, treeVars, heapVars
    <2>2. PICK el \in Finds : TreeOK(el, Len(doc), {}, NULL)
        BY <1>1, <1>2, <2>1 DEF EInv
    <2>3. PICK n : n = Len(doc)
        OBVIOUS
    <2>4. TreeOK(el, n, {}, NULL)'
        BY <2>1, <2>2, <2>3, SameTree
    <2>5. Len(doc') = n
        BY <2>1, <2>3
    <2>6. TreeOK(el, Len(doc), {}, NULL)'
        BY <2>4, <2>5 DEF TreeOK
    <2>7. ret.rv # NoPos
        BY <1>1, <1>2, <2>1 DEF EInv
    <2>8. \E e \in Finds : TreeOK(e, Len(doc), {}, NULL)'
        BY <2>6
    <2> QED BY <1>2, <1>3, <2>1, <2>7, <2>8 DEF EInv, Inside1, Finds
<1>5. CASE Release \/ FreeStep \/ Closed
    <2>1. pc' \in {"free", "closed"}
        BY <1>5 DEF Release, FreeStep, Closed, scanVars
    <2> QED BY <1>2, <1>3, <2>1 DEF EInv, Inside1
<1> QED BY <1>4, <1>5

\* The scan is not over while an element is open or has still to come.
LEMMA ElementsToCome ==
    ASSUME TInv, pc \in Inside1
    PROVE  /\ pc = "enter" => Len(F.name) <= End - F.start
           /\ pc \in {"content", "afterblock"} => TagsFrom(F.cur) # {} /\ End - F.cur >= 2
<1>1. /\ calls # <<>> /\ RInv /\ SInv /\ GoodText /\ IsCase /\ ClientOK(pc, F)
      /\ \E t \in 0 .. Len(doc), el \in Finds : Scene(pc, F, F.cur, t, el)
    BY SceneNow DEF TInv
<1>2. PICK t \in 0 .. Len(doc), el \in Finds : Scene(pc, F, F.cur, t, el)
    BY <1>1
<1>3. /\ Len(calls) \in Nat \ {0} /\ F.name = AnyName /\ F.cur \in Nat /\ F.start \in Nat
      /\ End \in Nat /\ Len(doc) \in Nat /\ DOMAIN doc = 1 .. Len(doc) /\ F.start <= F.cur
    BY <1>1, HereClient, Here, CaseFacts DEF FrameOK
<1>4. CASE pc = "enter"
    <2>1. ~InElement(pc, F) /\ F.fresh /\ Between(F, t)
        BY <1>1, <1>2, <1>4 DEF InElement, ClientOK, Scene
    <2>2. PICK e \in Elements(doc) : e \in t + 1 .. Len(doc)
        <3>1. CASE Len(calls) = 1
            <4>1. t = 0
                BY <2>1, <3>1 DEF Between
            <4>2. Elements(doc) # {} /\ Elements(doc) \subseteq DOMAIN doc
                BY <1>1 DEF GoodText, WellFormed, Elements
            <4> QED BY <4>1, <4>2, <1>3
        <3>2. CASE Len(calls) # 1
            <4>1. t < Len(doc) /\ Kind(t + 1) \in ElementKinds
                BY <2>1, <3>2 DEF Between
            <4>2. t + 1 \in t + 1 .. Len(doc) /\ t + 1 \in DOMAIN doc
                BY <4>1, <1>3
            <4> QED BY <4>1, <4>2 DEF Elements, Kind
        <3> QED BY <3>1, <3>2
    <2>3. F.cur <= At(e)
        BY <1>2, <2>2 DEF Scene, Behind
    <2>4. At(e) \in Nat /\ At(e + 1) = At(e) + Width(doc[e]) /\ At(e + 1) <= End
          /\ Width(doc[e]) \in Nat /\ Width(doc[e]) >= 2
        <3>1. e \in DOMAIN doc
            BY <2>2 DEF Elements
        <3> QED BY <3>1, <1>1, TokenFacts
    <2>5. Len(F.name) = 1
        BY <1>3 DEF AnyName
    <2>6. 1 <= End - F.start
        BY <2>3, <2>4, <1>3
    <2> QED BY <2>5, <2>6, <1>4
<1>5. CASE pc \in {"content", "afterblock"}
    <2>1. Len(OpenStack(doc, t)) = Len(calls)
        BY <1>2, <1>5 DEF Scene, InElement
    <2>2. OpenStack(doc, t) # <<>>
        <3>1. OpenStack(doc, t) = <<>> => Len(OpenStack(doc, t)) = 0
            OBVIOUS
        <3> QED BY <3>1, <2>1, <1>3
    <2>3. TagsFrom(F.cur) # {}
        BY <1>1, <1>2, <1>3, <2>2, NoTagBehind DEF Scene
    <2>4. /\ At(T) \in Nat /\ F.cur <= At(T) /\ At(T) + 2 <= At(T + 1)
          /\ At(T + 1) \in Nat /\ At(T + 1) <= End
        BY <1>1, <2>3, HereTag
    <2>5. End - F.cur >= 2
        BY <2>4, <1>3
    <2> QED BY <2>3, <2>5, <1>5
<1> QED BY <1>4, <1>5

\* Behind an opening tag of a well-formed document its end is found.
LEMMA NothingEnds ==
    TInv => ~EnterTooShort /\ ~OpenAtEnd /\ ~ContentEnds /\ ~Unwind
<1> SUFFICES ASSUME TInv, EnterTooShort \/ OpenAtEnd \/ ContentEnds \/ Unwind PROVE FALSE
    OBVIOUS
<1>1. EInv /\ RInv /\ SInv
    BY DEF TInv, Base, RInv
<1>2. ~Unwind
    BY <1>1 DEF Unwind, EInv
<1>3. ~EnterTooShort
    <2> SUFFICES ASSUME EnterTooShort PROVE FALSE
        OBVIOUS
    <2>1. pc = "enter" /\ pc \in Inside1 /\ Len(F.name) > End - F.start
        BY DEF EnterTooShort, Inside1
    <2>2. calls # <<>>
        BY <2>1, <1>1 DEF SInv, Places
    <2>3. F.start \in Nat /\ End \in Nat /\ F.name = AnyName
        BY <2>2, <1>1, HereClient, Here
    <2>4. Len(F.name) = 1
        BY <2>3 DEF AnyName
    <2>5. Len(F.name) <= End - F.start
        BY <2>1, ElementsToCome
    <2> QED BY <2>1, <2>3, <2>4, <2>5
<1>4. ~OpenAtEnd
    <2> SUFFICES ASSUME OpenAtEnd PROVE FALSE
        OBVIOUS
    <2>1. pc = "content" /\ pc \in Inside1 /\ End - F.cur < 2
        BY DEF OpenAtEnd, NothingFollows, Inside1
    <2>2. calls # <<>>
        BY <2>1, <1>1 DEF SInv, Places
    <2>3. F.cur \in Nat /\ End \in Nat
        BY <2>2, <1>1, Here
    <2>4. End - F.cur >= 2
        BY <2>1, ElementsToCome
    <2> QED BY <2>1, <2>3, <2>4
<1>5. ~ContentEnds
    <2> SUFFICES ASSUME ContentEnds PROVE FALSE
        OBVIOUS
    <2>1. pc \in {"content", "afterblock"} /\ pc \in Inside1 /\ TagsFrom(F.cur) = {}
        BY DEF ContentEnds, InContent, Inside1
    <2> QED BY <2>1, ElementsToCome
<1> QED BY <1>2, <1>3, <1>4, <1>5

\* Nothing is cut off, and no end comes before its beginning.
LEMMA NothingIsCut ==
    TInv => ~CloseBeforeOpen /\ ~BlockCutOff /\ ~TagCutOff /\ ~ContentCutOff
<1> SUFFICES ASSUME TInv, CloseBeforeOpen \/ BlockCutOff \/ TagCutOff \/ ContentCutOff
             PROVE  FALSE
    OBVIOUS
<1>1. pc \in Inside1 /\ TagsFrom(F.cur) # {}
    BY DEF CloseBeforeOpen, BlockCutOff, TagCutOff, ContentCutOff, AtTag, InContent, Inside1
<1>2. /\ calls # <<>> /\ RInv /\ GoodText
      /\ \E t \in 0 .. Len(doc), el \in Finds : Scene(pc, F, F.cur, t, el)
    BY <1>1, SceneNow DEF TInv
<1>3. PICK t \in 0 .. Len(doc), el \in Finds : Scene(pc, F, F.cur, t, el)
    BY <1>2
<1>4. Kind(T) \notin {"cut", "cutblock"}
    BY <1>1, <1>2, <1>3, SceneTag
<1>5. CloseBeforeOpen
    BY <1>4 DEF BlockCutOff, TagCutOff, ContentCutOff
<1>6. pc = "head" /\ Kind(T) = "close" /\ F.fresh
    BY <1>5 DEF CloseBeforeOpen, AtTag
<1>7. ~InElement("head", F)
    BY <1>6 DEF InElement
<1> QED BY <1>1, <1>2, <1>3, <1>6, <1>7, HeadScene

\* A closing tag is that of the element the activation is in.
LEMMA ClosingIsOwn ==
    TInv => ~ClosingOther /\ ~ClosingPassedOver /\ ~ClosingMismatch
<1> SUFFICES ASSUME TInv, ClosingOther \/ ClosingPassedOver \/ ClosingMismatch PROVE FALSE
    OBVIOUS
<1>1. pc = "closing" /\ pc \in Inside1 /\ InElement(pc, F)
    BY DEF ClosingOther, ClosingPassedOver, ClosingMismatch, Inside1, InElement
<1>2. /\ calls # <<>> /\ SInv /\ RInv /\ IsCase /\ GoodText
      /\ \E t \in 0 .. Len(doc), el \in Finds : Scene(pc, F, F.cur, t, el)
    BY <1>1, SceneNow DEF TInv
<1>3. PICK t \in 0 .. Len(doc), el \in Finds : Scene("closing", F, F.cur, t, el)
    BY <1>1, <1>2
<1>4. PICK st, m, u : st = OpenStack(doc, t) /\ m = Len(calls) /\ u = T
    OBVIOUS
<1>5. Len(st) = m /\ Waits(el, F, st[m]) /\ CloseFollows(t)
    BY <1>1, <1>3, <1>4 DEF Scene
<1>6. TagsFrom(F.cur) # {}
    BY <1>1, <1>2, ClosingFacts
<1>7. u \in DOMAIN doc /\ Kind(u) = "close"
    BY <1>1, <1>2, <1>3, <1>4, <1>5, <1>6, SceneTag
<1>8. st[m] \in Elements(doc) /\ doc[st[m]].name = doc[u].name
    BY <1>1, <1>2, <1>3, <1>4, <1>5, <1>6, <1>7, SceneStack
<1>9. PICK i \in Elements(doc) : i = st[m]
    BY <1>8
<1>10. F.element = doc[u].name /\ F.rptr = At(i + 1)
    BY <1>5, <1>8, <1>9 DEF Waits
<1>11. F.rptr # NoPos
    <2>1. At(i + 1) \in Nat
        BY <1>2, TokenFacts DEF Elements
    <2> QED BY <2>1, <1>10 DEF NoPos
<1>12. doc[u].name \in Seq(STRING)
    BY <1>2, <1>4, <1>6, HereTag
<1>13. SameName(T, F.element)
    BY <1>4, <1>10, <1>12, PrefixSelf DEF SameName
<1>14. IsGt(Ps)
    <2>1. At(u) \in Nat /\ At(u + 1) = At(u) + Width(doc[u]) /\ At(u + 1) \in Nat
        BY <1>2, <1>7, TokenFacts
    <2>2. Width(doc[u]) = Len(doc[u].name) + 3 /\ Len(doc[u].name) \in Nat
        BY <1>7, <1>12, LenProperties DEF Width, Kind
    <2>3. Ps = At(u + 1) - 1
        BY <2>1, <2>2, <1>4, <1>10 DEF Ps
    <2> QED BY <2>3, <1>7 DEF IsGt
<1> QED BY <1>11, <1>13, <1>14 DEF ClosingOther, ClosingPassedOver, ClosingMismatch

\* Every step of an open of a good text keeps the invariant.
LEMMA TreeStep == TInv /\ [Next]_vars => TInv'
<1> SUFFICES ASSUME TInv, [Next]_vars PROVE TInv'
    OBVIOUS
<1>1. Base /\ RInv /\ GoodText
    BY DEF TInv, Base
<1>2. RInv' /\ [P!Next]_(P!vars)
    BY <1>1, RStep
<1>3. P!Countable => P!OInv'
    BY <1>1, <1>2, CacheTreeStep DEF Base
<1>4. P!Countable' <=> P!Countable
    BY DEF P!Countable, P!Cells
<1>5. Base'
    BY <1>2, <1>3, <1>4 DEF Base
<1>6. GoodText'
    BY <1>1, SameCase, SameGood
<1>7. SInv'
    BY <1>2 DEF RInv
<1>8. EInv'
    BY <1>7, StartTree, EnterTree, NoMoreTagsTree, EndOfSubsectionTree, ToClosingTree,
       BlockSkippedTree, BlockNodeTree, BlockDataTree, ElementFoundTree, SelfDataTree,
       ContentBlockTree, ContentChildTree, ClosingMatchTree, ResumeTree, OutsideTree,
       StutterTree, NothingEnds, NothingIsCut, ClosingIsOwn, NothingIsOther, <1>1
       DEF Next, ScanStep
<1> QED BY <1>5, <1>6, <1>8 DEF TInv

-----------------------------------------------------------------------------
(* What an open has cached. *)

\* Every element of a balanced text has its end.
LEMMA OpenIsClosed ==
    ASSUME NEW d, Doc(d), Balanced(d), NEW e \in 1 .. Len(d), d[e].kind = "open"
    PROVE  \E j \in e + 1 .. Len(d) : d[j].kind = "close" /\ Parent(d, j) = e
<1>1. Len(d) \in Nat /\ e \in Nat
    BY DEF Doc
<1> DEFINE Bad == {t \in e .. Len(d) : ~IsOpenAt(d, e, t)}
<1>2. OpenStack(d, Len(d)) = <<>>
    BY DEF Balanced, OpenStack
<1>3. Len(d) \in Bad
    <2>1. Len(OpenStack(d, Len(d))) = 0
        BY <1>2
    <2> QED BY <2>1, <1>1 DEF IsOpenAt
<1>4. Bad \in SUBSET Nat /\ Bad # {}
    BY <1>1, <1>3
<1>5. PICK t \in Bad : \A u \in Bad : t <= u
    BY <1>4, LeastNat
<1>6. t \in e .. Len(d) /\ ~IsOpenAt(d, e, t) /\ t \in Nat
    BY <1>1, <1>5
<1>7. \A u \in e .. Len(d) : ~IsOpenAt(d, e, u) => t <= u
    BY <1>5
<1> HIDE DEF Bad
<1>8. IsOpenAt(d, e, e)
    <2>1. OpenStack(d, e) = Append(OpenStack(d, e - 1), e)
        BY StackNext
    <2>2. PICK s \in Seq(Nat) : s = OpenStack(d, e - 1) /\ Len(s) \in Nat
        <3>1. e - 1 \in Nat
            BY <1>1
        <3> QED BY <3>1, StackType
    <2>3. OpenStack(d, e) = Append(s, e)
        BY <2>1, <2>2
    <2>4. Len(Append(s, e)) = Len(s) + 1 /\ Append(s, e)[Len(s) + 1] = e
        BY <2>2, <1>1, AppendIs
    <2>5. Len(s) + 1 \in 1 .. Len(s) + 1
        BY <2>2
    <2> QED BY <2>3, <2>4, <2>5 DEF IsOpenAt
<1>9. t # e /\ t - 1 \in e .. Len(d) /\ t \in 1 .. Len(d) /\ t \in e + 1 .. Len(d)
    BY <1>1, <1>6, <1>8
<1>10. IsOpenAt(d, e, t - 1)
    BY <1>1, <1>6, <1>7, <1>9
<1>11. PICK s \in Seq(Nat) : s = OpenStack(d, t - 1) /\ Len(s) \in Nat
    <2>1. t - 1 \in Nat
        BY <1>1, <1>9
    <2> QED BY <2>1, StackType
<1>12. PICK k \in 1 .. Len(s) : s[k] = e
    BY <1>10, <1>11 DEF IsOpenAt
<1>13. d[t].kind = "close"
    <2>1. CASE d[t].kind = "open"
        <3>1. OpenStack(d, t) = Append(s, t)
            BY <2>1, <1>9, <1>11, StackNext
        <3>2. Len(Append(s, t)) = Len(s) + 1 /\ Append(s, t)[k] = s[k]
            BY <1>6, <1>11, <1>12, AppendIs
        <3>3. k \in 1 .. Len(s) + 1
            BY <1>11, <1>12
        <3> QED BY <3>1, <3>2, <3>3, <1>6, <1>12 DEF IsOpenAt
    <2>2. CASE d[t].kind \notin {"open", "close"}
        BY <2>2, <1>6, <1>9, <1>10, <1>11, StackNext DEF IsOpenAt
    <2> QED BY <2>1, <2>2
<1>14. s # <<>> /\ OpenStack(d, t) = Front(s)
    BY <1>9, <1>11, <1>13, StackNext
<1>15. k = Len(s)
    <2> SUFFICES ASSUME k # Len(s) PROVE FALSE
        OBVIOUS
    <2>1. k \in 1 .. Len(s) - 1
        BY <1>11, <1>12
    <2>2. Len(Front(s)) = Len(s) - 1 /\ Front(s)[k] = s[k]
        BY <2>1, <1>11, <1>14, FrontIs
    <2> QED BY <2>1, <2>2, <1>6, <1>12, <1>14 DEF IsOpenAt
<1>16. Parent(d, t) = e
    BY <1>11, <1>12, <1>14, <1>15 DEF Parent, OpenStack, Last
<1> QED BY <1>9, <1>13, <1>16

\* What a cell says of an element is a section of the text.
LEMMA EntryType ==
    ASSUME IsCase, GoodText, NEW i \in Elements(doc)
    PROVE  Entry(i) \in Sections /\ Entry(i) # Blank
<1>1. /\ i \in DOMAIN doc /\ DOMAIN doc = 1 .. Len(doc) /\ Len(doc) \in Nat /\ doc \in Texts
      /\ doc[i].name \in Names /\ Kind(i) \in ElementKinds
    BY CaseFacts DEF Elements, Kind
<1>2. /\ At(i) \in Nat /\ At(i + 1) \in Nat /\ At(i + 1) <= End /\ End \in Nat
      /\ At(i + 1) = At(i) + Width(doc[i]) /\ Width(doc[i]) \in Nat /\ Width(doc[i]) >= 2
    BY <1>1, TokenFacts, CaseFacts
<1>3. Entry(i) \in Sections
    <2>1. CASE Kind(i) = "self"
        <3>1. At(i + 1) - 1 \in Nat /\ At(i + 1) - 1 <= End
            BY <1>2
        <3>2. PICK p : p = At(i + 1) - 1
            OBVIOUS
        <3>3. [name |-> doc[i].name, from |-> p, len |-> p - p] \in Sections
            BY <1>1, <3>1, <3>2, SectionType
        <3>4. Entry(i) = [name |-> doc[i].name, from |-> p, len |-> 0]
            BY <2>1, <3>2 DEF Entry, ContentLen, Kind
        <3>5. p - p = 0
            BY <3>1, <3>2
        <3> QED BY <3>3, <3>4, <3>5
    <2>2. CASE Kind(i) = "open"
        <3> DEFINE Ends == {j \in DOMAIN doc : j > i /\ doc[j].kind = "close" /\ Parent(doc, j) = i}
        <3>1. PICK j \in i + 1 .. Len(doc) : doc[j].kind = "close" /\ Parent(doc, j) = i
            BY <1>1, <2>2, GoodDoc, OpenIsClosed DEF Kind
        <3>2. j \in Ends /\ Ends \in SUBSET Nat /\ Ends # {}
            BY <1>1, <3>1
        <3>3. Min(Ends) \in Ends
            BY <3>2, MinIsLeast
        <3>4. PICK c : c = CloseOf(doc, i)
            OBVIOUS
        <3>5. c \in i + 1 .. Len(doc)
            BY <1>1, <3>3, <3>4 DEF CloseOf
        <3>6. At(i + 1) <= At(c)
            BY <1>1, <3>5, OffMonotone DEF At
        <3>7. At(c) \in Nat /\ At(c) <= End
            <4>1. /\ At(c) \in Nat /\ At(c + 1) = At(c) + Width(doc[c]) /\ At(c + 1) <= End
                  /\ Width(doc[c]) \in Nat
                <5>1. c \in DOMAIN doc
                    BY <1>1, <3>5
                <5> QED BY <5>1, TokenFacts
            <4> QED BY <4>1, <1>2
        <3>8. [name |-> doc[i].name, from |-> At(i + 1), len |-> At(c) - At(i + 1)] \in Sections
            BY <1>1, <1>2, <3>6, <3>7, SectionType
        <3>9. Entry(i) = [name |-> doc[i].name, from |-> At(i + 1), len |-> At(c) - At(i + 1)]
            BY <2>2, <3>4 DEF Entry, ContentLen, Kind, At
        <3> QED BY <3>8, <3>9
    <2> QED BY <1>1, <2>1, <2>2 DEF ElementKinds
<1> QED BY <1>3, BoundsAssumption, PayloadAssumption

\* Elements are told apart by where their text begins.
LEMMA EntriesRise ==
    ASSUME IsCase, NEW i \in Elements(doc), NEW j \in Elements(doc), i < j
    PROVE  Entry(i).from < Entry(j).from
<1>1. /\ i \in DOMAIN doc /\ j \in DOMAIN doc /\ DOMAIN doc = 1 .. Len(doc) /\ doc \in Texts
      /\ Len(doc) \in Nat
    BY CaseFacts DEF Elements
<1>2. /\ At(i + 1) \in Nat /\ At(j) \in Nat /\ At(j + 1) \in Nat
      /\ At(j + 1) = At(j) + Width(doc[j]) /\ Width(doc[j]) \in Nat /\ Width(doc[j]) >= 2
    BY <1>1, TokenFacts
<1>3. At(i + 1) <= At(j)
    BY <1>1, OffMonotone DEF At
<1>4. Entry(i).from \in {At(i + 1), At(i + 1) - 1} /\ Entry(j).from \in {At(j + 1), At(j + 1) - 1}
    BY DEF Entry
<1> QED BY <1>2, <1>3, <1>4

\* What the invariant says when the scan is over.
LEMMA Found ==
    ASSUME TInv, pc = "done"
    PROVE  /\ Heap /\ IsCase /\ GoodText /\ ret.rv # NoPos
           /\ \E el \in Finds :
                 /\ TreeOK(el, Len(doc), {}, NULL)
                 /\ \A n : IsElement(n, NULL) =>
                       /\ el[n] \in Elements(doc) /\ el[n] \in Nat \ {0}
                       /\ payload[n] = Entry(el[n]) /\ payload[n] # Blank
                       /\ Hangs(el, n, NULL)
<1>1. EInv /\ RInv /\ SInv /\ GoodText /\ IsCase
    BY DEF TInv, Base, RInv, SInv
<1>2. Heap /\ calls = <<>>
    BY <1>1, HeapFacts DEF SInv, Places, Outside
<1>3. PICK el \in Finds : TreeOK(el, Len(doc), {}, NULL)
    BY <1>1, <1>2 DEF EInv
<1>4. ASSUME NEW n, IsElement(n, NULL)
      PROVE  /\ el[n] \in Elements(doc) /\ el[n] \in Nat \ {0}
             /\ payload[n] = Entry(el[n]) /\ payload[n] # Blank
             /\ Hangs(el, n, NULL)
    <2>1. n \in live
        BY <1>4 DEF IsElement
    <2>2. el[n] \in Elements(doc) /\ payload[n] = Entry(el[n]) /\ Hangs(el, n, NULL)
        BY <1>3, <1>4, <2>1 DEF TreeOK, Described
    <2>3. Entry(el[n]) # Blank
        BY <1>1, <2>2, EntryType
    <2>4. el[n] \in Nat \ {0}
        BY <1>1, <2>2, CaseFacts DEF Elements
    <2> QED BY <2>2, <2>3, <2>4
<1>5. ret.rv # NoPos
    BY <1>1, <1>2 DEF EInv
<1> QED BY <1>1, <1>2, <1>3, <1>4, <1>5

\* The invariant is as strong as CellsAreElements,
LEMMA CellsDescribe == TInv => CellsAreElements
<1> SUFFICES ASSUME TInv, pc = "done", NEW n \in live \ {root}
             PROVE  /\ payload[n] # Blank
                    /\ payload[n].name # BlockName =>
                          \E i \in Elements(doc) :
                              IsEntry(n, i) /\ IsEntry(parent[n], Parent(doc, i))
    BY DEF CellsAreElements
<1>1. PICK el \in Finds :
         \A m : IsElement(m, NULL) =>
            /\ el[m] \in Elements(doc) /\ el[m] \in Nat \ {0}
            /\ payload[m] = Entry(el[m]) /\ payload[m] # Blank
            /\ Hangs(el, m, NULL)
    BY Found
<1>2. n # NULL
    BY Found DEF Heap
<1>3. payload[n] # Blank
    <2> SUFFICES ASSUME payload[n] = Blank PROVE FALSE
        OBVIOUS
    <2>1. IsElement(n, NULL)
        BY <1>2 DEF IsElement
    <2> QED BY <2>1, <1>1
<1>4. ASSUME payload[n].name # BlockName
      PROVE  \E i \in Elements(doc) : IsEntry(n, i) /\ IsEntry(parent[n], Parent(doc, i))
    <2>1. IsElement(n, NULL)
        BY <1>2, <1>4 DEF IsElement
    <2>2. PICK i : i = el[n]
        OBVIOUS
    <2>3. i \in Elements(doc) /\ i # 0 /\ payload[n] = Entry(i)
        BY <2>1, <2>2, <1>1
    <2>4. PICK p, e : p = parent[n] /\ e = Parent(doc, i)
        OBVIOUS
    <2>5. IF e = 0 THEN p = root ELSE IsElement(p, NULL) /\ el[p] = e
        BY <2>1, <2>2, <2>4, <1>1, HangsNow
    <2>6. e # 0 => payload[p] = Entry(e)
        BY <2>5, <1>1
    <2>7. IsEntry(n, i) /\ IsEntry(p, e)
        BY <2>3, <2>5, <2>6 DEF IsEntry
    <2> QED BY <2>3, <2>4, <2>7 DEF IsEntry
<1> QED BY <1>3, <1>4

\* The children of a cell are those that have it for their parent, youngest last.
LEMMA ChildrenAre ==
    ASSUME TInv, P!Countable, Heap, NEW n \in live
    PROVE  /\ \A k \in DOMAIN Children(n) :
                 /\ Children(n)[k] \in live \ {root} /\ parent[Children(n)[k]] = n
                 /\ Children(n)[k] # NULL
                 /\ \A l \in DOMAIN Children(n) : k < l => Children(n)[k] < Children(n)[l]
           /\ \A c \in live \ {root} : parent[c] = n =>
                 \E k \in DOMAIN Children(n) : Children(n)[k] = c
<1>1. P!OInv /\ P!IInv
    BY DEF TInv, Base, RInv
<1>2. n \in Cells /\ n \in Nat \ {0} /\ used \in Nat /\ used # 0 /\ root = 1
    BY DEF Heap
<1>3. no_nodes[n] \in Int
    BY <1>1, <1>2 DEF P!IInv, P!Types, P!Cells, Cells
<1>4. /\ DOMAIN Children(n) = 1 .. no_nodes[n]
      /\ \A k \in DOMAIN Children(n) : Children(n)[k] = node[n][k - 1]
    BY DEF Children
<1>5. \A k \in 1 .. no_nodes[n] : k - 1 \in P!Slot(n)
    BY <1>3 DEF P!Slot
<1>6. \A i \in P!Slot(n) : i + 1 \in 1 .. no_nodes[n] /\ (i + 1) - 1 = i
    BY <1>3 DEF P!Slot
<1>7. \A i \in P!Slot(n) : node[n][i] \in n + 1 .. used /\ parent[node[n][i]] = n
    BY <1>1, <1>2 DEF P!IInv, P!Down, P!Cells, Cells
<1>8. \A i, j \in P!Slot(n) : i < j => node[n][i] < node[n][j]
    BY <1>1, <1>2 DEF P!OInv, P!Rises, P!Cells, Cells
<1>9. ASSUME NEW k \in DOMAIN Children(n)
      PROVE  /\ Children(n)[k] \in live \ {root} /\ parent[Children(n)[k]] = n
             /\ Children(n)[k] # NULL
             /\ \A l \in DOMAIN Children(n) : k < l => Children(n)[k] < Children(n)[l]
    <2>1. PICK c : c = Children(n)[k]
        OBVIOUS
    <2>2. c = node[n][k - 1] /\ k - 1 \in P!Slot(n)
        BY <2>1, <1>4, <1>5
    <2>3. c \in n + 1 .. used /\ parent[c] = n
        BY <2>2, <1>7
    <2>4. c \in live \ {root} /\ c # NULL
        BY <2>3, <1>2 DEF Heap, NULL
    <2>5. ASSUME NEW l \in DOMAIN Children(n), k < l PROVE Children(n)[k] < Children(n)[l]
        <3>1. l - 1 \in P!Slot(n) /\ Children(n)[l] = node[n][l - 1]
            BY <1>4, <1>5
        <3>2. k - 1 < l - 1
            BY <2>5, <1>3, <1>4
        <3> QED BY <3>1, <3>2, <2>1, <2>2, <1>8
    <2> QED BY <2>1, <2>3, <2>4, <2>5
<1>10. ASSUME NEW c \in live \ {root}, parent[c] = n
       PROVE  \E k \in DOMAIN Children(n) : Children(n)[k] = c
    <2>1. c \in 2 .. used
        BY <1>2 DEF Heap
    <2>2. PICK p \in Cells : \E i \in P!Slot(p) : node[p][i] = c
        BY <2>1, <1>1 DEF P!OInv, P!LInv, P!Linked, P!Cells, Cells
    <2>3. PICK i \in P!Slot(p) : node[p][i] = c
        BY <2>2
    <2>4. parent[node[p][i]] = p
        BY <2>3, <1>1 DEF P!IInv, P!Down, P!Cells, Cells
    <2>5. p = n
        BY <2>3, <2>4, <1>10
    <2>6. i + 1 \in DOMAIN Children(n) /\ Children(n)[i + 1] = c
        BY <2>3, <2>5, <1>4, <1>6
    <2> QED BY <2>6
<1> QED BY <1>9, <1>10

\* The cells of the elements, when the scan is over.
Pictures(el) ==
    /\ TreeOK(el, Len(doc), {}, NULL)
    /\ \A m : IsElement(m, NULL) =>
          /\ el[m] \in Elements(doc) /\ el[m] \in Nat \ {0}
          /\ payload[m] = Entry(el[m]) /\ payload[m] # Blank
          /\ Hangs(el, m, NULL)

\* Cell n is for element i, or the root for the whole text.
Stands(n, i, el) == IF i = 0 THEN n = root ELSE IsElement(n, NULL) /\ el[n] = i

\* The cells below that of element i are those of the elements directly in i.
LEMMA BelowIs ==
    ASSUME TInv, P!Countable, Heap, IsCase, NEW n \in live, NEW i,
           NEW el, Pictures(el), AllThere(el, Len(doc), NULL), Stands(n, i, el)
    PROVE  /\ \A k \in ElementPlaces(n) :
                 /\ IsElement(Children(n)[k], NULL)
                 /\ Parent(doc, el[Children(n)[k]]) = i
           /\ \A j \in Elements(doc) : Parent(doc, j) = i =>
                 \E k \in ElementPlaces(n) : el[Children(n)[k]] = j
           /\ \A k, l \in ElementPlaces(n) :
                 k < l => el[Children(n)[k]] < el[Children(n)[l]]
<1>1. ASSUME NEW k \in ElementPlaces(n)
      PROVE  /\ IsElement(Children(n)[k], NULL)
             /\ Parent(doc, el[Children(n)[k]]) = i
    <2>1. PICK c : c = Children(n)[k]
        OBVIOUS
    <2>2. /\ k \in DOMAIN Children(n)
          /\ payload[c] = Blank \/ payload[c].name # BlockName
        BY <2>1 DEF ElementPlaces
    <2>3. c \in live \ {root} /\ parent[c] = n /\ c # NULL
        BY <2>1, <2>2, ChildrenAre
    <2>4. IsElement(c, NULL)
        BY <2>2, <2>3 DEF IsElement
    <2>5. IF Parent(doc, el[c]) = 0 THEN n = root
          ELSE IsElement(n, NULL) /\ el[n] = Parent(doc, el[c])
        BY <2>3, <2>4, HangsNow DEF Pictures
    <2>6. IsElement(n, NULL) => n # root /\ el[n] # 0
        BY DEF IsElement, Pictures
    <2>7. Parent(doc, el[c]) = i
        BY <2>5, <2>6 DEF Stands
    <2> QED BY <2>1, <2>4, <2>7
<1>2. ASSUME NEW j \in Elements(doc), Parent(doc, j) = i
      PROVE  \E k \in ElementPlaces(n) : el[Children(n)[k]] = j
    <2>1. j <= Len(doc)
        BY CaseFacts DEF Elements
    <2>2. PICK c \in live : IsElement(c, NULL) /\ el[c] = j
        BY <2>1 DEF AllThere
    <2>3. PICK p : p = parent[c]
        OBVIOUS
    <2>4. IF i = 0 THEN p = root ELSE IsElement(p, NULL) /\ el[p] = i
        BY <2>2, <2>3, <1>2, HangsNow DEF Pictures
    <2>5. p = n
        <3>1. CASE i = 0
            BY <3>1, <2>4 DEF Stands
        <3>2. CASE i # 0
            <4>1. /\ IsElement(p, NULL) /\ IsElement(n, NULL) /\ el[p] = i /\ el[n] = i
                  /\ i \in Nat
                BY <3>2, <2>4 DEF Stands, Pictures
            <4>2. p \in live /\ n \in live /\ p \in Nat /\ n \in Nat
                BY <4>1 DEF IsElement, Heap
            <4>3. ~(p < n) /\ ~(n < p)
                BY <4>1, <4>2 DEF Pictures, TreeOK, InOrder
            <4> QED BY <4>2, <4>3
        <3> QED BY <3>1, <3>2
    <2>6. c \in live \ {root} /\ (payload[c] = Blank \/ payload[c].name # BlockName)
        BY <2>2 DEF IsElement
    <2>7. PICK k \in DOMAIN Children(n) : Children(n)[k] = c
        <3>1. parent[c] = n
            BY <2>3, <2>5
        <3>2. \A e \in live \ {root} : parent[e] = n =>
                 \E k \in DOMAIN Children(n) : Children(n)[k] = e
            BY ChildrenAre
        <3> QED BY <3>1, <3>2, <2>6
    <2>8. k \in ElementPlaces(n)
        BY <2>6, <2>7 DEF ElementPlaces
    <2> QED BY <2>2, <2>7, <2>8
<1>3. ASSUME NEW k \in ElementPlaces(n), NEW l \in ElementPlaces(n), k < l
      PROVE  el[Children(n)[k]] < el[Children(n)[l]]
    <2>1. PICK c, e : c = Children(n)[k] /\ e = Children(n)[l]
        OBVIOUS
    <2>2. k \in DOMAIN Children(n) /\ l \in DOMAIN Children(n)
        BY DEF ElementPlaces
    <2>3. c \in live /\ e \in live /\ c < e
        BY <2>1, <2>2, <1>3, ChildrenAre
    <2>4. IsElement(c, NULL) /\ IsElement(e, NULL)
        BY <2>1, <1>1
    <2>5. el[c] < el[e]
        BY <2>3, <2>4 DEF Pictures, TreeOK, InOrder
    <2> QED BY <2>1, <2>5
<1> QED BY <1>1, <1>2, <1>3

\* and as WellFormedIsCached.
LEMMA WholeTree == TInv /\ P!Countable => WellFormedIsCached
<1> SUFFICES ASSUME TInv, P!Countable, pc = "done", failed = 0
             PROVE  WellFormedIsCached
    BY DEF WellFormedIsCached
<1>1. Heap /\ IsCase /\ GoodText /\ ret.rv # NoPos
    BY Found
<1>2. PICK el \in Finds : Pictures(el)
    BY Found DEF Pictures
<1>3. AllThere(el, Len(doc), NULL)
    BY <1>2 DEF Pictures, TreeOK, Complete
<1>4. root # NULL /\ root \in live
    <2>1. root # NULL
        BY <1>3 DEF AllThere
    <2> QED BY <2>1, <1>1 DEF Heap
<1>5. ASSUME NEW i \in Elements(doc) \cup {0}
      PROVE  \E n \in live :
                /\ IsEntry(n, i)
                /\ LET inner == {j \in Elements(doc) : Parent(doc, j) = i}
                       shown(k) == payload[Children(n)[k]]
                   IN /\ {shown(k) : k \in ElementPlaces(n)} = {Entry(j) : j \in inner}
                      /\ \A k, l \in ElementPlaces(n) :
                            k < l => shown(k).from < shown(l).from
    <2>1. PICK n \in live : Stands(n, i, el)
        <3>1. CASE i = 0
            BY <3>1, <1>4 DEF Stands
        <3>2. CASE i # 0
            <4>1. i \in Elements(doc) /\ i <= Len(doc)
                BY <3>2, <1>1, CaseFacts DEF Elements
            <4>2. PICK n \in live : IsElement(n, NULL) /\ el[n] = i
                BY <4>1, <1>3 DEF AllThere
            <4> QED BY <4>2, <3>2 DEF Stands
        <3> QED BY <3>1, <3>2
    <2>2. IsEntry(n, i)
        BY <2>1, <1>2 DEF IsEntry, Stands, Pictures
    <2>3. PICK j0 : j0 = i
        OBVIOUS
    <2>4. Stands(n, j0, el)
        BY <2>1, <2>3
    <2>5. /\ \A k \in ElementPlaces(n) :
                /\ IsElement(Children(n)[k], NULL)
                /\ Parent(doc, el[Children(n)[k]]) = j0
          /\ \A j \in Elements(doc) : Parent(doc, j) = j0 =>
                \E k \in ElementPlaces(n) : el[Children(n)[k]] = j
          /\ \A k, l \in ElementPlaces(n) :
                k < l => el[Children(n)[k]] < el[Children(n)[l]]
        BY <2>4, <1>1, <1>2, <1>3, BelowIs
    <2>6. \A k \in ElementPlaces(n) :
             /\ el[Children(n)[k]] \in Elements(doc)
             /\ payload[Children(n)[k]] = Entry(el[Children(n)[k]])
        BY <2>5, <1>2 DEF Pictures
    <2>7. {payload[Children(n)[k]] : k \in ElementPlaces(n)}
             = {Entry(j) : j \in {j \in Elements(doc) : Parent(doc, j) = i}}
        <3> DEFINE inner == {j \in Elements(doc) : Parent(doc, j) = i}
        <3>1. ASSUME NEW k \in ElementPlaces(n)
              PROVE  \E j \in inner : payload[Children(n)[k]] = Entry(j)
            BY <2>3, <2>5, <2>6
        <3>2. ASSUME NEW j \in inner
              PROVE  \E k \in ElementPlaces(n) : payload[Children(n)[k]] = Entry(j)
            <4>1. PICK k \in ElementPlaces(n) : el[Children(n)[k]] = j
                BY <2>3, <2>5
            <4> QED BY <4>1, <2>6
        <3> HIDE DEF inner
        <3>3. {payload[Children(n)[k]] : k \in ElementPlaces(n)} = {Entry(j) : j \in inner}
            BY <3>1, <3>2
        <3> QED BY <3>3 DEF inner
    <2>8. ASSUME NEW k \in ElementPlaces(n), NEW l \in ElementPlaces(n), k < l
          PROVE  payload[Children(n)[k]].from < payload[Children(n)[l]].from
        <3>1. PICK a, b : a = el[Children(n)[k]] /\ b = el[Children(n)[l]]
            OBVIOUS
        <3>2. a \in Elements(doc) /\ b \in Elements(doc) /\ a < b
            BY <3>1, <2>5, <2>6, <2>8
        <3>3. Entry(a).from < Entry(b).from
            BY <3>2, <1>1, EntriesRise
        <3> QED BY <3>1, <3>3, <2>6
    <2> QED BY <2>2, <2>7, <2>8
<1> QED BY <1>1, <1>5 DEF WellFormedIsCached

-----------------------------------------------------------------------------
(* The tree of a well-formed document. *)

\* A processing instruction inside of an element stops an open (xml.c:1979), so
\* that what is well-formed for XML may not be opened: the theorems are about
\* documents whose processing instructions stand at the top.
PIsOutside ==
    \A c \in Cases : c.mode.cached /\ WellFormed(c.doc) =>
        \A t \in DOMAIN c.doc : c.doc[t].kind = "pi" => OpenAfter(c.doc, t).open = <<>>

\* An open of a well-formed document, or a lookup without a cache.
WInv == SInv /\ IF cached THEN WellFormed(doc) => TInv ELSE Uncached

\* The invariant holds at first,
LEMMA WInit == PIsOutside /\ Init => WInv
<1> SUFFICES ASSUME PIsOutside, Init PROVE WInv
    OBVIOUS
<1>1. SInv /\ CacheInit /\ pc = "start" /\ calls = <<>> /\ root = NULL
    BY SInit DEF Init
<1>2. live = {} /\ \A n \in Cells : payload[n] = Blank
    BY <1>1 DEF CacheInit
<1>3. PICK c \in Cases : doc = c.doc /\ req = c.req /\ mode = c.mode
    BY DEF Init
<1>4. Len(calls) = 0
    BY <1>1
<1>5. CASE ~cached
    BY <1>1, <1>2, <1>4, <1>5 DEF WInv, Uncached
<1>6. CASE cached /\ WellFormed(doc)
    <2>1. AnOpen
        BY <1>3, <1>6, OpensAssumption DEF AnOpen, cached
    <2>2. Base
        BY <2>1, RInit, CacheTreeInit DEF Base
    <2>3. GoodText
        BY <1>3, <1>6 DEF PIsOutside, GoodText, OpenStack, Kind, cached
    <2>4. EInv
        BY <1>1, <1>2, <1>4 DEF EInv, Chain, Rising, Inside1
    <2> QED BY <1>1, <1>6, <2>2, <2>3, <2>4 DEF WInv, TInv
<1> QED BY <1>1, <1>5, <1>6 DEF WInv

\* and after each step,
LEMMA WStep == WInv /\ [Next]_vars => WInv'
<1> SUFFICES ASSUME WInv, [Next]_vars PROVE WInv'
    OBVIOUS
<1>1. SInv /\ SInv'
    BY SStep DEF WInv
<1>2. UNCHANGED <<doc, mode>>
    BY SameCase
<1>3. cached' = cached /\ WellFormed(doc)' = WellFormed(doc)
    BY <1>2 DEF cached
<1>4. CASE ~cached
    BY <1>1, <1>3, <1>4, UncachedStep DEF WInv
<1>5. CASE cached
    BY <1>1, <1>3, <1>5, TreeStep DEF WInv
<1> QED BY <1>4, <1>5

\* hence always.
LEMMA TreeInvariance == PIsOutside /\ Spec => []WInv
<1>1. PIsOutside /\ Init => WInv
    BY WInit
<1> QED BY <1>1, WStep, PTL DEF Spec, PIsOutside

\* No cell is made up: whichever allocations fail, what the open of a well-formed
\* document has cached describes elements of it, each below the cell of the element
\* it is in.
THEOREM CellsDescribeElements == PIsOutside /\ Spec => []CellsAreElements
<1>1. WInv => CellsAreElements
    <2>1. CASE cached
        BY <2>1, CellsDescribe DEF WInv, CellsAreElements
    <2>2. CASE ~cached
        BY <2>2 DEF WInv, Uncached, CellsAreElements
    <2> QED BY <2>1, <2>2
<1> QED BY <1>1, TreeInvariance, PTL

\* An open of a well-formed document that comes to its end has succeeded, also when
\* allocations failed.
THEOREM WellFormedIsOpened ==
    PIsOutside /\ Spec => [](pc = "done" /\ cached /\ WellFormed(doc) => ret.rv # NoPos)
<1>1. WInv => (pc = "done" /\ cached /\ WellFormed(doc) => ret.rv # NoPos)
    BY Found DEF WInv
<1> QED BY <1>1, TreeInvariance, PTL

\* When no allocation fails the cached tree is the element tree of the document.
THEOREM TreeIsElementTree ==
    PIsOutside /\ P!Countable /\ Spec => []WellFormedIsCached
<1>1. WInv /\ P!Countable => WellFormedIsCached
    BY WholeTree DEF WInv, WellFormedIsCached
<1>2. PIsOutside /\ P!Countable /\ Init => WInv /\ P!Countable
    BY WInit
<1>3. (WInv /\ P!Countable) /\ [Next]_vars => (WInv /\ P!Countable)'
    BY WStep DEF P!Countable
<1> QED BY <1>1, <1>2, <1>3, PTL DEF Spec, PIsOutside
=============================================================================
