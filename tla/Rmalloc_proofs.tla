-------------------------- MODULE Rmalloc_proofs --------------------------
(***************************************************************************)
(* What is proved of the debugging allocator, for any number of blocks,    *)
(* any hash function and any number of failing allocations.                *)
(***************************************************************************)
EXTENDS Rmalloc, FiniteSetTheorems, TLAPS

Header == [gen : Nat, flags : SUBSET AllFlags, damaged : BOOLEAN]
Links == [Nodes -> Nodes \cup {Nil}]

-----------------------------------------------------------------------------
(* Lists with their links, blocks and headers as parameters. *)

Mem(K, h) == {b \in K : Hash[b] = h}
Beh(K, hd, h, x) ==
    IF x = h THEN Mem(K, h) ELSE {b \in Mem(K, h) : hd[b].gen < hd[x].gen}
ChainBy(nx, pv, K, hd, h) ==
    \A x \in Mem(K, h) \cup {h} :
        /\ nx[x] \in Mem(K, h) \cup {h} /\ pv[x] \in Mem(K, h) \cup {h}
        /\ pv[nx[x]] = x /\ nx[pv[x]] = x
        /\ nx[x] = h => Beh(K, hd, h, x) = {}
        /\ nx[x] # h =>
              /\ nx[x] \in Beh(K, hd, h, x)
              /\ Beh(K, hd, h, x) = Beh(K, hd, h, nx[x]) \cup {nx[x]}

\* Parameters and variables say the same.
LEMMA ChainedIs ==
    ASSUME NEW h \in Heads
    PROVE Chained(h) <=> ChainBy(next, prev, known, header, h)
BY Zenon DEF Chained, ChainBy, Members, Behind, Mem, Beh

\* A block is not a list head.
LEMMA HeadIsNoBlock ==
    ASSUME NEW h \in Heads, NEW b \in Blocks
    PROVE h # b /\ h \in Nodes /\ b \in Nodes /\ Hash[b] \in Heads
BY RmallocAssumption DEF Heads, Nodes

LEMMA HashIsHead ==
    ASSUME NEW b \in Blocks
    PROVE b \in Nodes /\ Hash[b] \in Heads /\ Hash[b] \in Nodes /\ Hash[b] # b
BY RmallocAssumption DEF Heads, Nodes

\* The order of a list depends on the generations only.
LEMMA SameGenerations ==
    ASSUME NEW nx, NEW pv, NEW K \in SUBSET Blocks, NEW hd, NEW hd2, NEW h \in Heads,
           \A c \in K : hd2[c].gen = hd[c].gen,
           ChainBy(nx, pv, K, hd, h)
    PROVE ChainBy(nx, pv, K, hd2, h)
<1>1. \A x \in Mem(K, h) \cup {h} : Beh(K, hd2, h, x) = Beh(K, hd, h, x)
  BY DEF Mem, Beh
<1>2. QED
  BY <1>1 DEF ChainBy

\* A list with its blocks and their links as they were.
LEMMA SameLinks ==
    ASSUME NEW nx, NEW pv, NEW K, NEW hd, NEW nx2, NEW pv2, NEW K2, NEW hd2, NEW h,
           ChainBy(nx, pv, K, hd, h), Mem(K2, h) = Mem(K, h),
           \A x \in Mem(K, h) \cup {h} : nx2[x] = nx[x] /\ pv2[x] = pv[x],
           \A x \in Mem(K, h) \cup {h} : Beh(K2, hd2, h, x) = Beh(K, hd, h, x)
    PROVE ChainBy(nx2, pv2, K2, hd2, h)
<1> DEFINE S == Mem(K, h) \cup {h}
<1>1. \A x \in S : nx2[x] = nx[x] /\ pv2[x] = pv[x] /\ nx[x] \in S /\ pv[x] \in S
  BY DEF ChainBy
<1>2. SUFFICES ASSUME NEW x \in S
               PROVE /\ nx2[x] \in S /\ pv2[x] \in S
                     /\ pv2[nx2[x]] = x /\ nx2[pv2[x]] = x
                     /\ nx2[x] = h => Beh(K2, hd2, h, x) = {}
                     /\ nx2[x] # h =>
                          /\ nx2[x] \in Beh(K2, hd2, h, x)
                          /\ Beh(K2, hd2, h, x) = Beh(K2, hd2, h, nx2[x]) \cup {nx2[x]}
  BY Zenon DEF ChainBy
<1>3. /\ pv[nx[x]] = x /\ nx[pv[x]] = x
      /\ nx[x] = h => Beh(K, hd, h, x) = {}
      /\ nx[x] # h => /\ nx[x] \in Beh(K, hd, h, x)
                      /\ Beh(K, hd, h, x) = Beh(K, hd, h, nx[x]) \cup {nx[x]}
  BY DEF ChainBy
<1>4. QED
  BY <1>1, <1>3

\* AddBlk: the youngest block is put behind the head of its list.
LEMMA Adding ==
    ASSUME NEW nx \in Links, NEW pv \in Links, NEW K \in SUBSET Blocks,
           NEW hd \in [Blocks -> Header], NEW b \in Blocks, b \notin K,
           NEW new \in Header, \A c \in K : hd[c].gen < new.gen,
           \A h \in Heads : ChainBy(nx, pv, K, hd, h),
           NEW h \in Heads
    PROVE ChainBy(NextAdded(nx, b), PrevAdded(nx, pv, b), K \cup {b},
                  [hd EXCEPT ![b] = new], h)
<1> DEFINE nx2 == NextAdded(nx, b)
           pv2 == PrevAdded(nx, pv, b)
           hd2 == [hd EXCEPT ![b] = new]
           g == Hash[b]
           first == nx[g]
<1>0. g \in Heads /\ g # b /\ g \in Nodes /\ b \in Nodes /\ h # b /\ h \in Nodes
  BY HeadIsNoBlock
<1>1. ChainBy(nx, pv, K, hd, h) /\ ChainBy(nx, pv, K, hd, g)
  BY <1>0
<1>2. first \in Mem(K, g) \cup {g} /\ pv[first] = g /\ first \in Nodes
  BY <1>0, <1>1 DEF ChainBy, Mem, Nodes
<1>3. /\ nx2[b] = first /\ nx2[g] = b
      /\ \A x \in Nodes \ {b, g} : nx2[x] = nx[x]
  BY <1>0 DEF NextAdded, Links
<1>4. /\ pv2[b] = g /\ pv2[first] = b
      /\ \A x \in Nodes \ {b, first} : pv2[x] = pv[x]
  <2>1. first # b
    BY <1>0, <1>2 DEF Mem
  <2>2. QED
    BY <1>0, <1>2, <2>1 DEF PrevAdded, Links
<1>5. hd2[b] = new /\ \A c \in K : hd2[c] = hd[c]
  OBVIOUS
<1>6. \A c \in K : c \in Nodes /\ c # b
  BY DEF Nodes
<1>7. CASE h # g
  <2>1. Mem(K \cup {b}, h) = Mem(K, h)
    BY <1>7 DEF Mem
  <2>2. \A x \in Mem(K, h) \cup {h} : x \in Nodes \ {b, g, first}
    <3>1. \A x \in Mem(K, h) \cup {h} : x \in Nodes \ {b, g}
      BY <1>0, <1>6, <1>7, HeadIsNoBlock DEF Mem
    <3>2. \A x \in Mem(K, h) \cup {h} : x # first
      BY <1>0, <1>2, <1>7, <3>1, HeadIsNoBlock DEF Mem
    <3>3. QED
      BY <3>1, <3>2
  <2>3. \A x \in Mem(K, h) \cup {h} : nx2[x] = nx[x] /\ pv2[x] = pv[x]
    BY <1>3, <1>4, <2>2
  <2>4. \A x \in Mem(K, h) \cup {h} : Beh(K \cup {b}, hd2, h, x) = Beh(K, hd, h, x)
    BY <1>5, <2>1 DEF Mem, Beh
  <2>5. QED
    BY <1>1, <2>1, <2>3, <2>4, SameLinks
<1>8. CASE h = g
  <2>1. Mem(K \cup {b}, h) = Mem(K, h) \cup {b} /\ b \notin Mem(K, h)
    BY <1>8 DEF Mem
  <2>2. \A x \in Mem(K, h) \cup {h} : x \in Nodes /\ x # b
    BY <1>0, <1>6 DEF Mem
  <2>3. Beh(K \cup {b}, hd2, h, h) = Mem(K, h) \cup {b}
    BY <2>1 DEF Beh
  <2>4. Beh(K \cup {b}, hd2, h, b) = Mem(K, h)
    <3>1. \A c \in Mem(K, h) : hd2[c].gen < hd2[b].gen
      BY <1>5 DEF Mem
    <3>2. ~(hd2[b].gen < hd2[b].gen)
      BY <1>5 DEF Header
    <3>3. QED
      BY <1>0, <2>1, <3>1, <3>2 DEF Beh
  <2>5. \A x \in Mem(K, h) : Beh(K \cup {b}, hd2, h, x) = Beh(K, hd, h, x)
    <3>1. TAKE x \in Mem(K, h)
    <3>2. x # h /\ hd2[x] = hd[x] /\ x \in K
      BY <1>5, HeadIsNoBlock DEF Mem
    <3>3. ~(hd2[b].gen < hd2[x].gen)
      BY <1>5, <3>2 DEF Header
    <3>4. \A c \in Mem(K, h) : hd2[c] = hd[c]
      BY <1>5 DEF Mem
    <3>5. QED
      BY <2>1, <3>2, <3>3, <3>4 DEF Beh
  <2>6. Beh(K, hd, h, h) = Mem(K, h)
    BY DEF Beh
  <2>7. \A x \in Mem(K, h) : nx2[x] = nx[x] /\ nx[x] # first
    BY <1>1, <1>2, <1>3, <1>8, <2>2, HeadIsNoBlock DEF ChainBy, Mem
  <2>8. \A x \in Mem(K, h) \cup {h} : x # first => pv2[x] = pv[x] /\ pv[x] # h
    BY <1>1, <1>4, <1>8, <2>2 DEF ChainBy
  <2> DEFINE Good(x) ==
        /\ nx2[x] \in Mem(K \cup {b}, h) \cup {h} /\ pv2[x] \in Mem(K \cup {b}, h) \cup {h}
        /\ pv2[nx2[x]] = x /\ nx2[pv2[x]] = x
        /\ nx2[x] = h => Beh(K \cup {b}, hd2, h, x) = {}
        /\ nx2[x] # h =>
              /\ nx2[x] \in Beh(K \cup {b}, hd2, h, x)
              /\ Beh(K \cup {b}, hd2, h, x) =
                    Beh(K \cup {b}, hd2, h, nx2[x]) \cup {nx2[x]}
  <2>9. Good(b)
    <3>1. nx2[b] = first /\ pv2[b] = h /\ pv2[first] = b /\ nx2[h] = b
      BY <1>3, <1>4, <1>8
    <3>2. first = h => Mem(K, h) = {}
      BY <1>1, <1>8, <2>6 DEF ChainBy
    <3>3. first # h => first \in Mem(K, h) /\ Mem(K, h) = Beh(K, hd, h, first) \cup {first}
      BY <1>1, <1>2, <1>8, <2>6 DEF ChainBy
    <3>4. QED
      BY <1>2, <1>8, <2>1, <2>4, <2>5, <3>1, <3>2, <3>3
  <2>10. Good(h)
    <3>1. nx2[h] = b /\ pv2[b] = h
      BY <1>3, <1>4, <1>8
    <3>2. pv2[h] \in Mem(K \cup {b}, h) \cup {h} /\ nx2[pv2[h]] = h
      <4>1. CASE first = h
        BY <1>3, <1>4, <1>8, <2>1, <4>1
      <4>2. CASE first # h
        <5>1. pv2[h] = pv[h] /\ pv[h] \in Mem(K, h)
          BY <1>1, <2>8, <4>2 DEF ChainBy
        <5>2. QED
          BY <1>1, <2>1, <2>7, <5>1 DEF ChainBy
      <4>3. QED
        BY <4>1, <4>2
    <3>3. QED
      BY <1>0, <2>1, <2>3, <2>4, <3>1, <3>2
  <2>11. ASSUME NEW x \in Mem(K, h) PROVE Good(x)
    <3>1. nx2[x] = nx[x] /\ nx[x] # first /\ nx[x] \in Mem(K, h) \cup {h}
      BY <1>1, <2>7 DEF ChainBy
    <3>2. pv2[nx2[x]] = x
      BY <1>1, <2>8, <3>1 DEF ChainBy
    <3>3. pv2[x] \in Mem(K \cup {b}, h) \cup {h} /\ nx2[pv2[x]] = x
      <4>1. CASE x = first
        BY <1>3, <1>4, <2>1, <4>1
      <4>2. CASE x # first
        <5>1. pv2[x] = pv[x] /\ pv[x] \in Mem(K, h)
          BY <1>1, <2>8, <4>2 DEF ChainBy
        <5>2. nx2[pv[x]] = nx[pv[x]] /\ nx[pv[x]] = x
          BY <1>1, <2>7, <5>1 DEF ChainBy
        <5>3. QED
          BY <2>1, <5>1, <5>2
      <4>3. QED
        BY <4>1, <4>2
    <3>4. /\ nx[x] = h => Beh(K, hd, h, x) = {}
          /\ nx[x] # h => /\ nx[x] \in Beh(K, hd, h, x)
                          /\ Beh(K, hd, h, x) = Beh(K, hd, h, nx[x]) \cup {nx[x]}
      BY <1>1 DEF ChainBy
    <3>5. QED
      BY <2>1, <2>5, <3>1, <3>2, <3>3, <3>4
  <2>12. QED
    BY <2>1, <2>9, <2>10, <2>11 DEF ChainBy
<1>9. QED
  BY <1>7, <1>8

\* DelBlk: the neighbours of the block become each other's.
LEMMA Removing ==
    ASSUME NEW nx \in Links, NEW pv \in Links, NEW K \in SUBSET Blocks,
           NEW hd \in [Blocks -> Header], NEW b \in K, NEW hd2,
           \A c \in K \ {b} : hd2[c] = hd[c],
           \A h \in Heads : ChainBy(nx, pv, K, hd, h),
           NEW h \in Heads
    PROVE ChainBy([nx EXCEPT ![pv[b]] = nx[b]], [pv EXCEPT ![nx[b]] = pv[b]],
                  K \ {b}, hd2, h)
<1> DEFINE g == Hash[b]
           p == pv[b]
           n == nx[b]
           nx2 == [nx EXCEPT ![p] = n]
           pv2 == [pv EXCEPT ![n] = p]
           M == Mem(K, g)
<1>0. g \in Heads /\ b \in M /\ b # g /\ b \in Nodes /\ g \in Nodes /\ b \in Blocks
  BY HeadIsNoBlock DEF Mem
<1>1. ChainBy(nx, pv, K, hd, h) /\ ChainBy(nx, pv, K, hd, g)
  BY <1>0
<1>2. \A x \in M \cup {g} :
        /\ x \in Nodes /\ nx[x] \in M \cup {g} /\ pv[x] \in M \cup {g}
        /\ pv[nx[x]] = x /\ nx[pv[x]] = x
        /\ nx[x] = g => Beh(K, hd, g, x) = {}
        /\ nx[x] # g => /\ nx[x] \in Beh(K, hd, g, x)
                        /\ Beh(K, hd, g, x) = Beh(K, hd, g, nx[x]) \cup {nx[x]}
  BY <1>0, <1>1 DEF ChainBy, Mem, Nodes
<1>3. b \notin Beh(K, hd, g, b)
  <2>1. ~(hd[b].gen < hd[b].gen)
    BY <1>0 DEF Header
  <2>2. QED
    BY <1>0, <2>1 DEF Beh
<1>4. p \in M \cup {g} /\ n \in M \cup {g} /\ nx[p] = b /\ pv[n] = b /\ p # b /\ n # b
  BY <1>0, <1>2, <1>3
<1>5. /\ \A x \in Nodes : nx2[x] = IF x = p THEN n ELSE nx[x]
      /\ \A x \in Nodes : pv2[x] = IF x = n THEN p ELSE pv[x]
  BY DEF Links
<1>6. ASSUME h # g PROVE ChainBy(nx2, pv2, K \ {b}, hd2, h)
  <2>1. Mem(K \ {b}, h) = Mem(K, h)
    BY <1>6 DEF Mem
  <2>2. \A x \in Mem(K, h) \cup {h} : x \in Nodes /\ x # p /\ x # n
    BY <1>0, <1>4, <1>6, HeadIsNoBlock DEF Mem, Nodes
  <2>3. \A x \in Mem(K, h) \cup {h} : nx2[x] = nx[x] /\ pv2[x] = pv[x]
    BY <1>5, <2>2
  <2>4. \A x \in Mem(K, h) \cup {h} : Beh(K \ {b}, hd2, h, x) = Beh(K, hd, h, x)
    BY <1>6, <2>1 DEF Mem, Beh
  <2> HIDE DEF nx2, pv2
  <2>5. QED
    BY <1>1, <2>1, <2>3, <2>4, SameLinks
<1>7. ASSUME h = g PROVE ChainBy(nx2, pv2, K \ {b}, hd2, h)
  <2>1. Mem(K \ {b}, g) = M \ {b}
    BY DEF Mem
  <2> DEFINE B(x) == Beh(K, hd, g, x)
             B2(x) == Beh(K \ {b}, hd2, g, x)
             N == (M \ {b}) \cup {g}
  <2>2. \A x \in N : B2(x) = B(x) \ {b}
    BY <2>1 DEF Mem, Beh
  <2>3. /\ B(p) = B(b) \cup {b}
        /\ n = g => B(b) = {}
        /\ n # g => n \in B(b) /\ B(b) = B(n) \cup {n}
    BY <1>0, <1>2, <1>4
  <2> HIDE DEF nx2, pv2
  <2>4. SUFFICES ASSUME NEW x \in N
                 PROVE /\ nx2[x] \in N /\ pv2[x] \in N
                       /\ pv2[nx2[x]] = x /\ nx2[pv2[x]] = x
                       /\ nx2[x] = g => B2(x) = {}
                       /\ nx2[x] # g => nx2[x] \in B2(x) /\ B2(x) = B2(nx2[x]) \cup {nx2[x]}
    BY <1>7, <2>1, Zenon DEF ChainBy
  <2>5. /\ nx[x] \in M \cup {g} /\ pv[x] \in M \cup {g} /\ pv[nx[x]] = x /\ nx[pv[x]] = x
        /\ nx[x] = g => B(x) = {}
        /\ nx[x] # g => nx[x] \in B(x) /\ B(x) = B(nx[x]) \cup {nx[x]}
        /\ x \in Nodes /\ nx[x] \in Nodes /\ pv[x] \in Nodes /\ x # b
        /\ x \in M \cup {g}
    BY <1>0, <1>2
  <2>6. n \in Nodes /\ p \in Nodes /\ n \in N /\ p \in N
    BY <1>2, <1>4
  <2>7. nx2[x] \in N /\ pv2[nx2[x]] = x
    <3>1. CASE x = p
      BY <1>5, <2>6, <3>1
    <3>2. CASE x # p
      <4>1. nx2[x] = nx[x]
        BY <1>5, <2>5, <3>2
      <4>2. nx[x] # b /\ nx[x] # n
        BY <1>4, <2>5, <3>2
      <4>3. QED
        BY <1>5, <2>5, <4>1, <4>2
    <3>3. QED
      BY <3>1, <3>2
  <2>8. pv2[x] \in N /\ nx2[pv2[x]] = x
    <3>1. CASE x = n
      BY <1>5, <2>6, <3>1
    <3>2. CASE x # n
      <4>1. pv2[x] = pv[x]
        BY <1>5, <2>5, <3>2
      <4>2. pv[x] # b /\ pv[x] # p
        BY <1>4, <2>5, <3>2
      <4>3. QED
        BY <1>5, <2>5, <4>1, <4>2
    <3>3. QED
      BY <3>1, <3>2
  <2>9. /\ nx2[x] = g => B2(x) = {}
        /\ nx2[x] # g => nx2[x] \in B2(x) /\ B2(x) = B2(nx2[x]) \cup {nx2[x]}
    <3>0. B2(x) = B(x) \ {b} /\ B2(nx2[x]) = B(nx2[x]) \ {b}
      BY <2>2, <2>7
    <3>1. CASE x = p
      <4>1. nx2[x] = n
        BY <1>5, <2>5, <3>1
      <4>2. B2(p) = B(b)
        <5>1. B2(p) = B(p) \ {b}
          BY <2>2, <2>6
        <5>2. QED
          BY <1>3, <2>3, <5>1
      <4>3. B2(n) = B(n) \ {b}
        BY <2>2, <2>6
      <4>5. n # g => b \notin B(n)
        BY <1>3, <2>3
      <4>4. QED
        BY <2>3, <3>1, <4>1, <4>2, <4>3, <4>5
    <3>2. CASE x # p
      <4>1. nx2[x] = nx[x] /\ nx[x] # b
        BY <1>4, <1>5, <2>5, <3>2
      <4>2. QED
        BY <2>5, <3>0, <4>1
    <3>3. QED
      BY <3>1, <3>2
  <2>10. QED
    BY <2>7, <2>8, <2>9
<1>8. QED
  BY <1>6, <1>7

-----------------------------------------------------------------------------
(* The inductive invariant. *)

\* What a walk has still to come to.
Ahead(h, x) == IF x = h THEN {} ELSE Beh(known, header, h, x) \cup {x}

LinksOK ==
    /\ initialized => \A h \in Heads : ChainBy(next, prev, known, header, h)
    /\ \A b \in known : header[b].gen <= generation

HeapOK ==
    /\ known \subseteq heap
    /\ ~initialized => heap = {}
    /\ heap = known \/ failures > 0 \/ reinited

CountOK ==
    /\ IsFiniteSet(known) /\ Cardinality(known) <= count
    /\ ~reinited => count = Cardinality(known)

Searches == [op : {"free", "realloc"}, blk : Blocks, flags : SUBSET AllFlags]
Walks == [op : {"test", "stat", "exit"}, chain : Heads]

FindOK ==
    pc = "find" =>
        /\ initialized /\ call \in Searches
        /\ LET h == Hash[call.blk]
           IN /\ cursor \in Mem(known, h) \cup {h}
              /\ call.blk \in known => call.blk \in Ahead(h, cursor)

WalkOK ==
    /\ pc \in {"test", "collect"} =>
          /\ initialized /\ call \in Walks
          /\ cursor \in Mem(known, call.chain) \cup {call.chain}
    /\ pc = "test" =>
          \A b \in known :
              \/ Hash[b] < call.chain
              \/ Hash[b] = call.chain /\ b \notin Ahead(call.chain, cursor)
              => ~header[b].damaged
    /\ pc = "collect" => seen \subseteq known

IdleOK == pc = "idle" => call = NoCall

IInv ==
    /\ TypeOK /\ LinksOK /\ HeapOK /\ CountOK
    /\ FindOK /\ WalkOK /\ IdleOK
    /\ OnlyAllocatedIsFreed /\ AbortIsDeserved

-----------------------------------------------------------------------------
(* The steps. *)

LEMMA InitOK == Init => IInv
<1> SUFFICES ASSUME Init PROVE IInv
  OBVIOUS
<1> USE DEF Init
<1>1. 0 \in Nodes
  BY RmallocAssumption DEF Nodes, Heads
<1>2. TypeOK
  BY <1>1, RmallocAssumption DEF TypeOK, Calls, NoCall, Blank, Nil
<1>3. LinksOK /\ HeapOK /\ FindOK /\ WalkOK /\ IdleOK
  BY DEF LinksOK, HeapOK, FindOK, WalkOK, IdleOK
<1>4. CountOK
  BY FS_EmptySet DEF CountOK
<1>5. QED
  BY <1>2, <1>3, <1>4 DEF IInv, OnlyAllocatedIsFreed, AbortIsDeserved

\* Steps that touch neither lists nor headers.
LEMMA QuietStep ==
    ASSUME IInv, UNCHANGED <<initialized, count, generation, next, prev, known, header, heap>>,
           failures' >= failures, failures' \in Nat, reinited' = reinited
    PROVE  LinksOK' /\ HeapOK' /\ CountOK'
<1>1. LinksOK'
  BY DEF IInv, LinksOK
<1>2. HeapOK'
  BY DEF IInv, HeapOK, TypeOK
<1>3. CountOK'
  BY DEF IInv, CountOK
<1>4. QED
  BY <1>1, <1>2, <1>3

\* The lists AddBlk and TestAll begin with.
LEMMA StartedTypes ==
    ASSUME IInv
    PROVE  Next0 \in Links /\ Prev0 \in Links
<1>1. next \in Links /\ prev \in Links /\ Heads \subseteq Nodes
  BY DEF IInv, TypeOK, Links, Nodes
<1>2. Emptied(next) \in Links /\ Emptied(prev) \in Links
  BY <1>1 DEF Emptied, Links
<1>3. QED
  BY <1>1, <1>2 DEF Next0, Prev0

LEMMA StartedList ==
    ASSUME IInv, NEW h \in Heads
    PROVE  ChainBy(Next0, Prev0, known, header, h)
<1>1. CASE initialized
  <2>1. Next0 = next /\ Prev0 = prev
    BY <1>1 DEF Next0, Prev0
  <2>2. ChainBy(next, prev, known, header, h)
    BY <1>1 DEF IInv, LinksOK
  <2>3. QED
    BY <2>1, <2>2
<1>2. CASE ~initialized
  <2>1. known = {}
    BY <1>2 DEF IInv, HeapOK
  <2>2. Next0[h] = h /\ Prev0[h] = h
    BY <1>2 DEF Next0, Prev0, Emptied, Nodes
  <2>3. Mem(known, h) = {} /\ Beh(known, header, h, h) = {}
    BY <2>1 DEF Mem, Beh
  <2>4. QED
    BY <2>2, <2>3 DEF ChainBy
<1>3. QED
  BY <1>1, <1>2

LEMMA Started ==
    ASSUME IInv
    PROVE  /\ Next0 \in Links /\ Prev0 \in Links
           /\ \A h \in Heads : ChainBy(Next0, Prev0, known, header, h)
BY StartedTypes, StartedList

LEMMA RmallocStep ==
    ASSUME IInv, NEW b \in Blocks, Rmalloc(b)
    PROVE  IInv'
<1> DEFINE new == [gen |-> generation + 1, flags |-> {}, damaged |-> FALSE]
<1>1. /\ b \notin known /\ new \in Header /\ header \in [Blocks -> Header]
      /\ known \subseteq Blocks /\ generation \in Nat
  BY DEF IInv, HeapOK, TypeOK, Rmalloc, Header
<1>2. /\ header' = [header EXCEPT ![b] = new] /\ known' = known \cup {b}
      /\ next' = NextAdded(Next0, b) /\ prev' = PrevAdded(Next0, Prev0, b)
      /\ initialized' = TRUE /\ generation' = generation + 1 /\ heap' = heap \cup {b}
      /\ count' = count + 1 /\ pc = "idle"
  BY DEF Rmalloc, SetBlk
<1>3. Next0 \in Links /\ Prev0 \in Links
  BY Started
<1>4. b \in Nodes /\ Hash[b] \in Heads /\ Hash[b] \in Nodes
  BY HashIsHead
<1>5. next' \in Links
  BY <1>2, <1>3, <1>4 DEF NextAdded, Links
<1>6. prev' \in Links
  BY <1>2, <1>3, <1>4 DEF PrevAdded, Links
<1>7. TypeOK'
  <2>1. header' \in [Blocks -> Header]
    BY <1>1, <1>2
  <2>2. QED
    BY <1>1, <1>2, <1>5, <1>6, <2>1 DEF IInv, TypeOK, Rmalloc, Links, Header
<1>8. LinksOK'
  <2>1. \A c \in known : header[c].gen < new.gen
    BY <1>1 DEF IInv, LinksOK, TypeOK
  <2>2. \A h \in Heads : ChainBy(next', prev', known', header', h)
    <3>1. \A h \in Heads : ChainBy(Next0, Prev0, known, header, h)
      BY Started
    <3>2. known \in SUBSET Blocks
      BY <1>1
    <3> HIDE DEF new
    <3>3. TAKE h \in Heads
    <3>4. ChainBy(NextAdded(Next0, b), PrevAdded(Next0, Prev0, b), known \cup {b},
                  [header EXCEPT ![b] = new], h)
      BY <1>1, <1>3, <2>1, <3>1, <3>2, Adding
    <3>5. QED
      BY <1>2, <3>4, Zenon
  <2>3. \A c \in known' : header'[c].gen <= generation'
    <3>1. \A c \in known : header[c].gen <= generation /\ header[c].gen \in Nat
      BY <1>1 DEF IInv, LinksOK, Header
    <3>2. header'[b].gen = generation + 1 /\ \A c \in known : header'[c] = header[c]
      BY <1>1, <1>2
    <3> HIDE DEF new
    <3>3. QED
      BY <1>1, <1>2, <3>1, <3>2
  <2>4. QED
    BY <2>2, <2>3 DEF LinksOK
<1>9. HeapOK'
  BY <1>2 DEF IInv, HeapOK, Rmalloc
<1>10. CountOK'
  <2>1. IsFiniteSet(known') /\ Cardinality(known') = Cardinality(known) + 1
    BY <1>1, <1>2, FS_AddElement DEF IInv, CountOK
  <2>2. Cardinality(known) \in Nat
    BY FS_CardinalityType DEF IInv, CountOK
  <2>3. QED
    BY <1>2, <2>1, <2>2 DEF IInv, CountOK, TypeOK, Rmalloc
<1>11. FindOK' /\ WalkOK' /\ IdleOK' /\ OnlyAllocatedIsFreed' /\ AbortIsDeserved'
  BY <1>2 DEF IInv, FindOK, WalkOK, IdleOK, OnlyAllocatedIsFreed, AbortIsDeserved, Rmalloc
<1>12. QED
  BY <1>7, <1>8, <1>9, <1>10, <1>11 DEF IInv

\* A header gets other flags or is damaged.
LEMMA HeaderStep ==
    ASSUME IInv, pc = "idle", NEW b \in Blocks, NEW new \in Header,
           new.gen = header[b].gen, header' = [header EXCEPT ![b] = new],
           UNCHANGED <<initialized, count, generation, next, prev, known, heap, failures,
                       reinited>>
    PROVE  LinksOK' /\ HeapOK' /\ CountOK' /\ header' \in [Blocks -> Header]
<1>1. header \in [Blocks -> Header] /\ known \subseteq Blocks
  BY DEF IInv, TypeOK, Header
<1>2. header' \in [Blocks -> Header] /\ \A c \in known : header'[c].gen = header[c].gen
  BY <1>1
<1>3. initialized => \A h \in Heads : ChainBy(next, prev, known, header', h)
  <2>1. known \in SUBSET Blocks
    BY <1>1
  <2>2. ASSUME initialized, NEW h \in Heads PROVE ChainBy(next, prev, known, header', h)
    <3>1. ChainBy(next, prev, known, header, h)
      BY <2>2 DEF IInv, LinksOK
    <3>2. QED
      BY <1>2, <2>1, <3>1, SameGenerations
  <2>3. QED
    BY <2>2
<1>4. LinksOK'
  BY <1>2, <1>3 DEF IInv, LinksOK
<1>5. HeapOK' /\ CountOK'
  BY DEF IInv, HeapOK, CountOK
<1>6. QED
  BY <1>2, <1>4, <1>5

LEMMA RfreeStep ==
    ASSUME IInv, NEW b \in Blocks, Rfree(b)
    PROVE  IInv'
<1>1. /\ pc = "idle" /\ UNCHANGED <<listVars, header, heap, failures, seen, reinited, wrong>>
      /\ call' = [op |-> IF initialized THEN "free" ELSE "uninitialized",
                  blk |-> b, flags |-> {}]
      /\ IF initialized
         THEN pc' = "find" /\ cursor' = next[Hash[b]]
         ELSE pc' = "aborted" /\ UNCHANGED cursor
  BY DEF Rfree, DelBlk, Goto
<1>2. LinksOK' /\ HeapOK' /\ CountOK'
  BY <1>1, QuietStep DEF listVars, IInv, TypeOK
<1>3. Hash[b] \in Heads /\ known \subseteq Blocks
  BY HashIsHead DEF IInv, TypeOK
<1>4. ASSUME initialized
      PROVE  /\ cursor' \in Mem(known, Hash[b]) \cup {Hash[b]}
             /\ b \in known => b \in Ahead(Hash[b], cursor')
  <2>1. ChainBy(next, prev, known, header, Hash[b])
    BY <1>3, <1>4 DEF IInv, LinksOK
  <2>2. cursor' = next[Hash[b]]
    BY <1>1, <1>4
  <2>3. b \in known => b \in Beh(known, header, Hash[b], Hash[b])
    BY DEF Beh, Mem
  <2>4. QED
    BY <2>1, <2>2, <2>3 DEF ChainBy, Ahead
<1>5. FindOK'
  BY <1>1, <1>4, Zenon DEF FindOK, Ahead, listVars, Searches
<1>6. TypeOK'
  <2>1. cursor' \in Nodes
    BY <1>1, <1>3, <1>4 DEF IInv, TypeOK, Mem, Nodes
  <2>2. call' \in Calls
    BY <1>1 DEF Calls
  <2>3. QED
    BY <1>1, <2>1, <2>2 DEF IInv, TypeOK, listVars
<1>7. WalkOK' /\ IdleOK' /\ OnlyAllocatedIsFreed'
  BY <1>1 DEF IInv, WalkOK, IdleOK, OnlyAllocatedIsFreed
<1>8. AbortIsDeserved'
  BY <1>1 DEF IInv, AbortIsDeserved, HeapOK, listVars
<1>9. QED
  BY <1>2, <1>5, <1>6, <1>7, <1>8 DEF IInv

LEMMA RreallocStep ==
    ASSUME IInv, NEW b \in Blocks, Rrealloc(b)
    PROVE  IInv'
<1> DEFINE new == [header[b] EXCEPT !.flags = @ \ {RM_STATIC}]
<1>1. /\ pc = "idle" /\ UNCHANGED <<listVars, heap, failures, seen, reinited, wrong>>
      /\ call' = [op |-> IF initialized THEN "realloc" ELSE "uninitialized",
                  blk |-> b, flags |-> header[b].flags]
      /\ IF initialized
         THEN pc' = "find" /\ cursor' = next[Hash[b]]
         ELSE pc' = "aborted" /\ UNCHANGED cursor
      /\ header' = [header EXCEPT ![b] = new]
  BY DEF Rrealloc, DelBlk, Goto
<1>2. header \in [Blocks -> Header] /\ new \in Header /\ new.gen = header[b].gen
  BY DEF IInv, TypeOK, Header
<1>3. LinksOK' /\ HeapOK' /\ CountOK' /\ header' \in [Blocks -> Header]
  <2> HIDE DEF new
  <2>1. QED
    BY <1>1, <1>2, HeaderStep DEF listVars
<1>4. Hash[b] \in Heads /\ known \subseteq Blocks
  BY HashIsHead DEF IInv, TypeOK
<1>5. ASSUME initialized
      PROVE  /\ cursor' \in Mem(known', Hash[b]) \cup {Hash[b]}
             /\ b \in known' => b \in Ahead(Hash[b], cursor)'
  <2>1. ChainBy(next', prev', known', header', Hash[b])
    BY <1>1, <1>3, <1>4, <1>5 DEF LinksOK, listVars
  <2>2. cursor' = next'[Hash[b]]
    BY <1>1, <1>5 DEF listVars
  <2>3. b \in known' => b \in Beh(known', header', Hash[b], Hash[b])
    BY DEF Beh, Mem
  <2>4. QED
    BY <2>1, <2>2, <2>3 DEF ChainBy, Ahead
<1>6. FindOK'
  <2>1. initialized => call' \in Searches
    BY <1>1, <1>2 DEF Searches, Header
  <2>2. QED
    BY <1>1, <1>5, <2>1 DEF FindOK, listVars
<1>7. TypeOK'
  <2>1. cursor' \in Nodes
    BY <1>1, <1>4, <1>5 DEF IInv, TypeOK, Mem, Nodes, listVars
  <2>2. call' \in Calls
    BY <1>1, <1>2 DEF Calls, Header
  <2>3. QED
    BY <1>1, <1>3, <2>1, <2>2 DEF IInv, TypeOK, listVars, Header
<1>8. WalkOK' /\ IdleOK' /\ OnlyAllocatedIsFreed'
  BY <1>1 DEF IInv, WalkOK, IdleOK, OnlyAllocatedIsFreed
<1>9. AbortIsDeserved'
  BY <1>1 DEF IInv, AbortIsDeserved, HeapOK, listVars
<1>10. QED
  BY <1>3, <1>6, <1>7, <1>8, <1>9 DEF IInv

\* The walk goes from a block to the next one of its list.
LEMMA NextOfList ==
    ASSUME IInv, initialized, NEW h \in Heads, NEW x \in Mem(known, h)
    PROVE  /\ next[x] \in Mem(known, h) \cup {h}
           /\ x # h /\ x \in Nodes /\ next[x] \in Nodes
           /\ Ahead(h, x) = Ahead(h, next[x]) \cup {x}
<1>1. x \in Blocks /\ known \subseteq Blocks
  BY DEF IInv, TypeOK, Mem
<1>2. x # h /\ x \in Nodes /\ h \in Nodes
  BY <1>1, HeadIsNoBlock
<1>3. ChainBy(next, prev, known, header, h)
  BY DEF IInv, LinksOK
<1>4. /\ next[x] \in Mem(known, h) \cup {h}
      /\ next[x] = h => Beh(known, header, h, x) = {}
      /\ next[x] # h => Beh(known, header, h, x) =
                           Beh(known, header, h, next[x]) \cup {next[x]}
  BY <1>3 DEF ChainBy
<1>5. next[x] \in Nodes
  BY <1>1, <1>2, <1>4 DEF Mem, Nodes
<1>6. QED
  BY <1>2, <1>4, <1>5 DEF Ahead

LEMMA FindStepStep ==
    ASSUME IInv, FindStep
    PROVE  IInv'
<1> DEFINE h == Hash[call.blk]
<1>1. /\ pc = "find" /\ cursor # h /\ cursor # call.blk /\ cursor' = next[cursor]
      /\ UNCHANGED <<listVars, header, heap, failures, pc, call, seen, reinited, wrong>>
  BY DEF FindStep
<1>2. /\ initialized /\ call \in Searches /\ cursor \in Mem(known, h)
      /\ call.blk \in known => call.blk \in Ahead(h, cursor)
  BY <1>1 DEF IInv, FindOK
<1>3. h \in Heads
  BY <1>2, HashIsHead DEF Searches
<1>4. /\ cursor' \in Mem(known, h) \cup {h} /\ cursor' \in Nodes
      /\ Ahead(h, cursor) = Ahead(h, cursor') \cup {cursor}
  BY <1>1, <1>2, <1>3, NextOfList
<1>5. LinksOK' /\ HeapOK' /\ CountOK'
  BY <1>1, QuietStep DEF listVars, IInv, TypeOK
<1>6. FindOK'
  BY <1>1, <1>2, <1>4 DEF FindOK, listVars, Ahead
<1>7. QED
  BY <1>1, <1>4, <1>5, <1>6
     DEF IInv, TypeOK, WalkOK, IdleOK, OnlyAllocatedIsFreed, AbortIsDeserved, listVars

LEMMA OutOfMemoryStep ==
    ASSUME IInv, OutOfMemory
    PROVE  IInv'
<1>1. UNCHANGED <<listVars, header, heap, pc, call, cursor, seen, reinited, wrong>>
      /\ failures' = failures + 1 /\ failures \in Nat
  BY DEF OutOfMemory, IInv, TypeOK
<1>2. LinksOK' /\ HeapOK' /\ CountOK'
  BY <1>1, QuietStep DEF listVars
<1>3. QED
  BY <1>1, <1>2
     DEF IInv, TypeOK, FindOK, WalkOK, Ahead, IdleOK, OnlyAllocatedIsFreed, AbortIsDeserved,
         listVars

\* The call of a search that aborts keeps its block.
LEMMA NotFoundStep ==
    ASSUME IInv, NotFound
    PROVE  IInv'
<1>1. /\ pc = "find" /\ cursor = Hash[call.blk] /\ pc' = "aborted"
      /\ call' = [call EXCEPT !.op = "unknown"]
      /\ UNCHANGED <<listVars, header, heap, failures, cursor, seen, reinited, wrong>>
  BY DEF NotFound, Abort, Goto
<1>2. /\ call \in Searches
      /\ call.blk \in known => call.blk \in Ahead(Hash[call.blk], cursor)
  BY <1>1 DEF IInv, FindOK
<1>3. LinksOK' /\ HeapOK' /\ CountOK'
  BY <1>1, QuietStep DEF listVars, IInv, TypeOK
<1>4. call' \in Calls /\ call'.op = "unknown" /\ call'.blk = call.blk
  BY <1>1, <1>2 DEF Searches, Calls
<1>5. call.blk \notin known
  BY <1>1, <1>2 DEF Ahead
<1>6. AbortIsDeserved'
  BY <1>1, <1>4, <1>5 DEF AbortIsDeserved, IInv, HeapOK, listVars
<1>7. QED
  BY <1>1, <1>3, <1>4, <1>6
     DEF IInv, TypeOK, FindOK, WalkOK, IdleOK, OnlyAllocatedIsFreed, listVars

LEMMA FoundDamagedStep ==
    ASSUME IInv, FoundDamaged
    PROVE  IInv'
<1>1. /\ pc = "find" /\ cursor = call.blk /\ header[cursor].damaged /\ pc' = "aborted"
      /\ call' = [call EXCEPT !.op = "damaged"]
      /\ UNCHANGED <<listVars, header, heap, failures, cursor, seen, reinited, wrong>>
  BY DEF FoundDamaged, Found, Abort, Goto
<1>2. call \in Searches
  BY <1>1 DEF IInv, FindOK
<1>3. LinksOK' /\ HeapOK' /\ CountOK'
  BY <1>1, QuietStep DEF listVars, IInv, TypeOK
<1>4. call' \in Calls /\ call'.op = "damaged" /\ cursor \in Blocks
  BY <1>1, <1>2 DEF Searches, Calls
<1>5. AbortIsDeserved'
  BY <1>1, <1>4 DEF AbortIsDeserved
<1>6. QED
  BY <1>1, <1>3, <1>4, <1>5
     DEF IInv, TypeOK, FindOK, WalkOK, IdleOK, OnlyAllocatedIsFreed, listVars

LEMMA TestStepStep ==
    ASSUME IInv, TestStep
    PROVE  IInv'
<1> DEFINE h == call.chain
<1>1. /\ pc = "test" /\ cursor # h
      /\ UNCHANGED <<listVars, header, heap, failures, reinited, wrong>>
  BY DEF TestStep
<1>2. initialized /\ call \in Walks /\ cursor \in Mem(known, h) /\ h \in Heads
  BY <1>1 DEF IInv, WalkOK, Walks
<1>3. LinksOK' /\ HeapOK' /\ CountOK'
  BY <1>1, QuietStep DEF listVars, IInv, TypeOK
<1>4. cursor \in Blocks /\ cursor \in known
  BY <1>2 DEF IInv, TypeOK, Mem
<1>5. CASE header[cursor].damaged
  <2>1. pc' = "aborted" /\ call' = [call EXCEPT !.op = "damaged"]
        /\ UNCHANGED <<cursor, seen>>
    BY <1>5 DEF TestStep, Abort, Goto
  <2>2. call' \in Calls /\ call'.op = "damaged"
    BY <1>2, <2>1 DEF Walks, Calls
  <2>3. AbortIsDeserved'
    BY <1>1, <1>4, <1>5, <2>1, <2>2 DEF AbortIsDeserved
  <2>4. QED
    BY <1>1, <1>3, <2>1, <2>2, <2>3
       DEF IInv, TypeOK, FindOK, WalkOK, IdleOK, OnlyAllocatedIsFreed, listVars
<1>6. CASE ~header[cursor].damaged
  <2>1. seen' = seen \cup {cursor} /\ cursor' = next[cursor] /\ UNCHANGED <<pc, call>>
    BY <1>6 DEF TestStep
  <2>2. /\ cursor' \in Mem(known, h) \cup {h} /\ cursor' \in Nodes
        /\ Ahead(h, cursor) = Ahead(h, cursor') \cup {cursor}
    BY <1>2, <2>1, NextOfList
  <2>3. \A b \in known :
            Hash[b] < h \/ (Hash[b] = h /\ b \notin Ahead(h, cursor')) => ~header[b].damaged
    BY <1>1, <1>6, <2>2 DEF IInv, WalkOK
  <2>4. WalkOK'
    BY <1>1, <1>2, <2>1, <2>2, <2>3 DEF WalkOK, Ahead, listVars
  <2>5. QED
    BY <1>1, <1>3, <1>4, <2>1, <2>2, <2>4
       DEF IInv, TypeOK, FindOK, IdleOK, OnlyAllocatedIsFreed, AbortIsDeserved, listVars
<1>7. QED
  BY <1>5, <1>6

LEMMA NextChainStep ==
    ASSUME IInv, NextChain
    PROVE  IInv'
<1> DEFINE h == call.chain
<1>1. /\ pc \in {"test", "collect"} /\ cursor = h /\ h # HashSize - 1
      /\ call' = [call EXCEPT !.chain = h + 1] /\ cursor' = next[h + 1]
      /\ UNCHANGED <<listVars, header, heap, failures, pc, seen, reinited, wrong>>
  BY DEF NextChain, LastChain
<1>2. initialized /\ call \in Walks /\ h \in Heads
  BY <1>1 DEF IInv, WalkOK, Walks
<1>3. LinksOK' /\ HeapOK' /\ CountOK'
  BY <1>1, QuietStep DEF listVars, IInv, TypeOK
<1>4. h + 1 \in Heads
  BY <1>1, <1>2, RmallocAssumption DEF Heads
<1>5. call' \in Walks /\ call'.chain = h + 1 /\ call' \in Calls
  BY <1>1, <1>2, <1>4 DEF Walks, Calls
<1>6. /\ cursor' \in Mem(known, h + 1) \cup {h + 1} /\ cursor' \in Nodes
      /\ \A b \in Mem(known, h + 1) : b \in Ahead(h + 1, cursor')
  <2>1. ChainBy(next, prev, known, header, h + 1)
    BY <1>2, <1>4 DEF IInv, LinksOK
  <2>2. known \subseteq Blocks
    BY DEF IInv, TypeOK
  <2>3. Beh(known, header, h + 1, h + 1) = Mem(known, h + 1)
    BY DEF Beh
  <2>4. QED
    BY <1>1, <1>4, <2>1, <2>2, <2>3 DEF ChainBy, Ahead, Mem, Nodes
<1>7. pc = "test" => \A b \in known :
          Hash[b] < h + 1 \/ (Hash[b] = h + 1 /\ b \notin Ahead(h + 1, cursor'))
             => ~header[b].damaged
  <2>1. SUFFICES ASSUME pc = "test", NEW b \in known,
                        Hash[b] < h + 1 \/ (Hash[b] = h + 1 /\ b \notin Ahead(h + 1, cursor'))
                 PROVE  ~header[b].damaged
    OBVIOUS
  <2>2. Hash[b] \in Heads
    <3>1. b \in Blocks
      BY DEF IInv, TypeOK
    <3>2. QED
      BY <3>1, RmallocAssumption
  <2>3. Hash[b] < h + 1
    BY <1>6, <2>1 DEF Mem
  <2>4. Hash[b] < h \/ Hash[b] = h
    BY <1>2, <2>2, <2>3 DEF Heads
  <2>5. b \notin Ahead(h, cursor)
    BY <1>1 DEF Ahead
  <2>6. QED
    BY <2>1, <2>4, <2>5 DEF IInv, WalkOK
<1>8. WalkOK'
  BY <1>1, <1>2, <1>5, <1>6, <1>7 DEF WalkOK, Ahead, listVars, IInv
<1>9. QED
  BY <1>1, <1>3, <1>5, <1>6, <1>8
     DEF IInv, TypeOK, FindOK, IdleOK, OnlyAllocatedIsFreed, AbortIsDeserved, listVars

\* The ends of the walks, with or without an answer for the vector.
LEMMA LeaveStep ==
    ASSUME IInv, pc \in {"test", "collect"}, Leave,
           UNCHANGED <<listVars, header, heap, reinited, wrong>>,
           failures' \in Nat, failures' >= failures
    PROVE  IInv'
<1>1. initialized /\ call \in Walks
  BY DEF IInv, WalkOK
<1>2. LinksOK' /\ HeapOK' /\ CountOK'
  BY QuietStep DEF listVars
<1>3. CASE call.op = "exit"
  <2>1. pc' = "exited" /\ UNCHANGED <<call, cursor, seen>>
    BY <1>3 DEF Leave, Goto
  <2>2. QED
    BY <1>2, <2>1
       DEF IInv, TypeOK, FindOK, WalkOK, IdleOK, OnlyAllocatedIsFreed, AbortIsDeserved, listVars
<1>4. CASE call.op # "exit"
  <2>1. pc' = "idle" /\ call' = NoCall /\ cursor' = 0 /\ seen' = {}
    BY <1>4 DEF Leave, Return, Goto
  <2>2. 0 \in Nodes
    BY RmallocAssumption DEF Nodes, Heads
  <2>3. QED
    BY <1>2, <2>1, <2>2
       DEF IInv, TypeOK, Calls, FindOK, WalkOK, IdleOK, OnlyAllocatedIsFreed, AbortIsDeserved,
           listVars
<1>5. QED
  BY <1>3, <1>4

LEMMA CollectBegins ==
    ASSUME IInv, Collect
    PROVE  IInv'
<1>1. /\ pc = "test" /\ pc' = "collect" /\ call' = [call EXCEPT !.chain = 0]
      /\ cursor' = next[0] /\ seen' = {}
      /\ UNCHANGED <<listVars, header, heap, failures, reinited, wrong>>
  BY DEF Collect, Goto
<1>2. initialized /\ call \in Walks /\ 0 \in Heads
  BY <1>1, RmallocAssumption DEF IInv, WalkOK, Heads
<1>3. LinksOK' /\ HeapOK' /\ CountOK'
  BY <1>1, QuietStep DEF listVars, IInv, TypeOK
<1>4. call' \in Walks /\ call'.chain = 0 /\ call' \in Calls
  BY <1>1, <1>2 DEF Walks, Calls
<1>5. cursor' \in Mem(known, 0) \cup {0} /\ cursor' \in Nodes
  <2>1. ChainBy(next, prev, known, header, 0) /\ known \subseteq Blocks
    BY <1>2 DEF IInv, LinksOK, TypeOK
  <2>2. QED
    BY <1>1, <1>2, <2>1 DEF ChainBy, Mem, Nodes
<1>6. WalkOK'
  BY <1>1, <1>2, <1>4, <1>5 DEF WalkOK, listVars
<1>7. QED
  BY <1>1, <1>3, <1>4, <1>5, <1>6
     DEF IInv, TypeOK, FindOK, IdleOK, OnlyAllocatedIsFreed, AbortIsDeserved, listVars

LEMMA CollectStepStep ==
    ASSUME IInv, CollectStep
    PROVE  IInv'
<1> DEFINE h == call.chain
<1>1. /\ pc = "collect" /\ cursor # h /\ cursor' = next[cursor]
      /\ seen' \subseteq seen \cup {cursor}
      /\ UNCHANGED <<listVars, header, heap, failures, pc, call, reinited, wrong>>
  BY DEF CollectStep
<1>2. /\ initialized /\ call \in Walks /\ cursor \in Mem(known, h) /\ h \in Heads
      /\ seen \subseteq known
  BY <1>1 DEF IInv, WalkOK, Walks
<1>3. LinksOK' /\ HeapOK' /\ CountOK'
  BY <1>1, QuietStep DEF listVars, IInv, TypeOK
<1>4. cursor' \in Mem(known, h) \cup {h} /\ cursor' \in Nodes
  BY <1>1, <1>2, NextOfList
<1>5. seen' \subseteq known
  BY <1>1, <1>2 DEF Mem
<1>6. WalkOK'
  BY <1>1, <1>2, <1>4, <1>5 DEF WalkOK, listVars
<1>7. QED
  BY <1>1, <1>3, <1>4, <1>5, <1>6
     DEF IInv, TypeOK, FindOK, IdleOK, OnlyAllocatedIsFreed, AbortIsDeserved, listVars

\* The assertion holds: there are no more blocks in the vector than are known.
LEMMA SeenAreCounted ==
    ASSUME IInv, pc = "collect"
    PROVE  Cardinality(seen) <= count
<1>1. seen \subseteq known /\ IsFiniteSet(known) /\ Cardinality(known) <= count
  BY DEF IInv, WalkOK, CountOK
<1>2. IsFiniteSet(seen) /\ Cardinality(seen) <= Cardinality(known)
  BY <1>1, FS_Subset
<1>3. Cardinality(seen) \in Nat /\ Cardinality(known) \in Nat /\ count \in Nat
  BY <1>1, <1>2, FS_CardinalityType DEF IInv, TypeOK
<1>4. QED
  BY <1>1, <1>2, <1>3

LEMMA InspectStep ==
    ASSUME IInv, NEW b \in Blocks, NEW flags \in SUBSET AllFlags, Inspect(b, flags)
    PROVE  IInv'
<1> DEFINE new == [header[b] EXCEPT !.flags = @ \cup flags]
<1>1. pc = "idle" /\ call = NoCall
      /\ UNCHANGED <<listVars, heap, failures, reinited, wrong>>
  BY DEF Inspect, IInv, IdleOK
<1>2. CASE header[b].damaged
  <2>1. pc' = "aborted" /\ call' = [NoCall EXCEPT !.op = "damaged"]
        /\ UNCHANGED <<header, cursor, seen>>
    BY <1>1, <1>2 DEF Inspect, Abort, Goto
  <2>2. call' = [op |-> "damaged"]
    BY <2>1 DEF NoCall
  <2>3. LinksOK' /\ HeapOK' /\ CountOK'
    BY <1>1, <2>1, QuietStep DEF listVars, IInv, TypeOK
  <2>4. AbortIsDeserved'
    BY <1>2, <2>1, <2>2 DEF AbortIsDeserved
  <2>5. QED
    BY <1>1, <2>1, <2>2, <2>3, <2>4
       DEF IInv, TypeOK, Calls, FindOK, WalkOK, IdleOK, OnlyAllocatedIsFreed, listVars
<1>3. CASE ~header[b].damaged
  <2>1. header' = [header EXCEPT ![b] = new] /\ UNCHANGED <<pc, call, cursor, seen>>
    BY <1>3 DEF Inspect
  <2>2. new \in Header /\ new.gen = header[b].gen
    BY DEF IInv, TypeOK, Header
  <2>3. LinksOK' /\ HeapOK' /\ CountOK' /\ header' \in [Blocks -> Header]
    <3> HIDE DEF new
    <3>1. QED
      BY <1>1, <2>1, <2>2, HeaderStep DEF listVars
  <2>4. QED
    BY <1>1, <2>1, <2>3
       DEF IInv, TypeOK, Header, FindOK, WalkOK, IdleOK, OnlyAllocatedIsFreed, AbortIsDeserved,
           listVars
<1>4. QED
  BY <1>2, <1>3

LEMMA InspectStrayStep ==
    ASSUME IInv, NEW b \in Blocks, InspectStray(b)
    PROVE  IInv'
<1>1. pc' = "aborted" /\ call' = [NoCall EXCEPT !.op = "stray"]
      /\ UNCHANGED <<listVars, header, heap, failures, reinited, wrong, cursor, seen>>
  BY DEF InspectStray, Abort, Goto, IInv, IdleOK
<1>2. call' = [op |-> "stray"]
  BY <1>1 DEF NoCall
<1>3. LinksOK' /\ HeapOK' /\ CountOK'
  BY <1>1, QuietStep DEF listVars, IInv, TypeOK
<1>4. QED
  BY <1>1, <1>2, <1>3
     DEF IInv, TypeOK, Calls, FindOK, WalkOK, IdleOK, OnlyAllocatedIsFreed, AbortIsDeserved,
         listVars

LEMMA NullPointerStep ==
    ASSUME IInv, NullPointer
    PROVE  IInv'
<1>1. pc' = "aborted" /\ call' = [NoCall EXCEPT !.op = "null"]
      /\ UNCHANGED <<listVars, header, heap, failures, reinited, wrong, cursor, seen>>
  BY DEF NullPointer, Abort, Goto, IInv, IdleOK
<1>2. call' = [op |-> "null"]
  BY <1>1 DEF NoCall
<1>3. LinksOK' /\ HeapOK' /\ CountOK'
  BY <1>1, QuietStep DEF listVars, IInv, TypeOK
<1>4. QED
  BY <1>1, <1>2, <1>3
     DEF IInv, TypeOK, Calls, FindOK, WalkOK, IdleOK, OnlyAllocatedIsFreed, AbortIsDeserved,
         listVars

LEMMA WritePastEndStep ==
    ASSUME IInv, NEW b \in Blocks, WritePastEnd(b)
    PROVE  IInv'
<1> DEFINE new == [header[b] EXCEPT !.damaged = TRUE]
<1>1. /\ pc = "idle" /\ header' = [header EXCEPT ![b] = new]
      /\ UNCHANGED <<listVars, heap, failures, pc, call, cursor, seen, reinited, wrong>>
  BY DEF WritePastEnd
<1>2. new \in Header /\ new.gen = header[b].gen
  BY DEF IInv, TypeOK, Header
<1>3. LinksOK' /\ HeapOK' /\ CountOK' /\ header' \in [Blocks -> Header]
  <2> HIDE DEF new
  <2>1. QED
    BY <1>1, <1>2, HeaderStep DEF listVars
<1>4. QED
  BY <1>1, <1>3
     DEF IInv, TypeOK, Header, FindOK, WalkOK, IdleOK, OnlyAllocatedIsFreed, AbortIsDeserved,
         listVars

\* What the search has found is in its list.
LEMMA FoundIsKnown ==
    ASSUME IInv, Found
    PROVE  /\ initialized /\ call \in Searches
           /\ cursor \in known /\ cursor \in Blocks /\ cursor = call.blk
<1>1. /\ pc = "find" /\ cursor = call.blk /\ initialized /\ call \in Searches
      /\ cursor \in Mem(known, Hash[call.blk]) \cup {Hash[call.blk]}
  BY DEF Found, IInv, FindOK
<1>2. call.blk \in Blocks
  BY <1>1 DEF Searches
<1>3. cursor # Hash[call.blk]
  <2>1. Hash[call.blk] \in Heads
    BY <1>2, RmallocAssumption
  <2>2. QED
    BY <1>1, <1>2, <2>1, HeadIsNoBlock
<1>4. QED
  BY <1>1, <1>2, <1>3 DEF Mem

\* The lists without the block that was found.
LEMMA Unlinked ==
    ASSUME IInv, Found, NEW hd \in [Blocks -> Header],
           \A c \in known \ {cursor} : hd[c] = header[c]
    PROVE  /\ NextRemoved(cursor) \in Links /\ PrevRemoved(cursor) \in Links
           /\ \A h \in Heads : ChainBy(NextRemoved(cursor), PrevRemoved(cursor),
                                       known \ {cursor}, hd, h)
<1> DEFINE b == cursor
           K == known \ {cursor}
<1>1. b \in known /\ b \in Blocks /\ initialized
  BY FoundIsKnown
<1>2. /\ next \in Links /\ prev \in Links /\ known \in SUBSET Blocks
      /\ header \in [Blocks -> Header]
  BY DEF IInv, TypeOK, Links, Header
<1>3. \A h \in Heads : ChainBy(next, prev, known, header, h)
  BY <1>1 DEF IInv, LinksOK
<1>4. Hash[b] \in Heads /\ Hash[b] \in Nodes /\ b \in Mem(known, Hash[b])
  BY <1>1, RmallocAssumption DEF Mem, Nodes
<1>5. next[b] \in Nodes /\ prev[b] \in Nodes
  BY <1>2, <1>3, <1>4 DEF ChainBy, Mem, Nodes
<1>6. NextRemoved(b) \in Links /\ PrevRemoved(b) \in Links
  BY <1>2, <1>5 DEF NextRemoved, PrevRemoved, Links
<1>7. ASSUME NEW h \in Heads PROVE ChainBy(NextRemoved(b), PrevRemoved(b), K, hd, h)
  <2>1. \A c \in known \ {b} : hd[c] = header[c]
    OBVIOUS
  <2>2. ChainBy([next EXCEPT ![prev[b]] = next[b]], [prev EXCEPT ![next[b]] = prev[b]],
                known \ {b}, hd, h)
    BY <1>1, <1>2, <1>3, <2>1, Removing
  <2>3. QED
    BY <2>2, Zenon DEF NextRemoved, PrevRemoved
<1>8. QED
  BY <1>6, <1>7

\* It counts once.
LEMMA CountedOff ==
    ASSUME IInv, Found
    PROVE  /\ IsFiniteSet(known \ {cursor})
           /\ Cardinality(known \ {cursor}) <= count - 1 /\ count - 1 \in Nat
           /\ ~reinited => count - 1 = Cardinality(known \ {cursor})
           /\ Cardinality(known \ {cursor}) = Cardinality(known) - 1
           /\ Cardinality(known \ {cursor}) \in Nat
<1>1. cursor \in known
  BY FoundIsKnown
<1>2. IsFiniteSet(known) /\ Cardinality(known) <= count /\ count \in Nat
      /\ (~reinited => count = Cardinality(known))
  BY DEF IInv, CountOK, TypeOK
<1>3. IsFiniteSet(known \ {cursor}) /\ Cardinality(known \ {cursor}) = Cardinality(known) - 1
  BY <1>1, <1>2, FS_RemoveElement
<1>4. Cardinality(known \ {cursor}) \in Nat /\ Cardinality(known) \in Nat
  BY <1>2, <1>3, FS_CardinalityType
<1>5. QED
  BY <1>2, <1>3, <1>4

LEMMA FreeFoundStep ==
    ASSUME IInv, FreeFound
    PROVE  IInv'
<1>1. /\ Found
      /\ next' = NextRemoved(cursor) /\ prev' = PrevRemoved(cursor)
      /\ known' = known \ {cursor} /\ count' = count - 1 /\ heap' = heap \ {cursor}
      /\ wrong' = wrong \cup ({cursor} \ heap) /\ header' = HeadersWithout(cursor)
      /\ pc' = "idle" /\ call' = NoCall /\ cursor' = 0 /\ seen' = {}
      /\ UNCHANGED <<initialized, generation, failures, reinited>>
  BY DEF FreeFound, Unlink, GivenBack, Return, Goto
<1>2. initialized /\ cursor \in known /\ cursor \in Blocks /\ cursor \in heap
  BY <1>1, FoundIsKnown DEF IInv, HeapOK
<1>3. /\ header' \in [Blocks -> Header]
      /\ \A c \in known \ {cursor} : header'[c] = header[c]
  BY <1>1, <1>2 DEF IInv, TypeOK, HeadersWithout, Blank, Header
<1>4. /\ next' \in Links /\ prev' \in Links
      /\ \A h \in Heads : ChainBy(next', prev', known', header', h)
  BY <1>1, <1>3, Unlinked
<1>5. LinksOK'
  BY <1>1, <1>3, <1>4 DEF IInv, LinksOK
<1>6. HeapOK'
  BY <1>1, <1>2 DEF IInv, HeapOK
<1>7. CountOK' /\ count' \in Nat
  BY <1>1, CountedOff DEF CountOK
<1>8. 0 \in Nodes
  BY RmallocAssumption DEF Nodes, Heads
<1>9. TypeOK'
  BY <1>1, <1>2, <1>3, <1>4, <1>7, <1>8 DEF IInv, TypeOK, Calls, Links, Header
<1>10. FindOK' /\ WalkOK' /\ IdleOK' /\ OnlyAllocatedIsFreed' /\ AbortIsDeserved'
  BY <1>1, <1>2 DEF IInv, FindOK, WalkOK, IdleOK, OnlyAllocatedIsFreed, AbortIsDeserved
<1>11. QED
  BY <1>5, <1>6, <1>7, <1>9, <1>10 DEF IInv

LEMMA ReallocFailsStep ==
    ASSUME IInv, ReallocFails
    PROVE  IInv'
<1>1. /\ Found
      /\ next' = NextRemoved(cursor) /\ prev' = PrevRemoved(cursor)
      /\ known' = known \ {cursor} /\ count' = count - 1
      /\ wrong' = wrong \cup ({cursor} \ heap) /\ failures' = failures + 1
      /\ pc' = "idle" /\ call' = NoCall /\ cursor' = 0 /\ seen' = {}
      /\ UNCHANGED <<initialized, generation, header, heap, reinited>>
  BY DEF ReallocFails, Unlink, GivenBack, Return, Goto
<1>2. initialized /\ cursor \in known /\ cursor \in Blocks /\ cursor \in heap
  BY <1>1, FoundIsKnown DEF IInv, HeapOK
<1>3. header \in [Blocks -> Header]
  BY DEF IInv, TypeOK, Header
<1>4. /\ next' \in Links /\ prev' \in Links
      /\ \A h \in Heads : ChainBy(next', prev', known', header', h)
  BY <1>1, <1>3, Unlinked
<1>5. LinksOK'
  BY <1>1, <1>4 DEF IInv, LinksOK
<1>6. HeapOK'
  BY <1>1, <1>2 DEF IInv, HeapOK, TypeOK
<1>7. CountOK' /\ count' \in Nat
  BY <1>1, CountedOff DEF CountOK
<1>8. 0 \in Nodes
  BY RmallocAssumption DEF Nodes, Heads
<1>9. TypeOK'
  BY <1>1, <1>2, <1>3, <1>4, <1>7, <1>8 DEF IInv, TypeOK, Calls, Links, Header
<1>10. FindOK' /\ WalkOK' /\ IdleOK' /\ OnlyAllocatedIsFreed' /\ AbortIsDeserved'
  BY <1>1, <1>2 DEF IInv, FindOK, WalkOK, IdleOK, OnlyAllocatedIsFreed, AbortIsDeserved
<1>11. QED
  BY <1>5, <1>6, <1>7, <1>9, <1>10 DEF IInv

LEMMA ReallocFoundStep ==
    ASSUME IInv, NEW b \in Blocks, ReallocFound(b)
    PROVE  IInv'
<1> DEFINE K == known \ {cursor}
           hd == HeadersWithout(cursor)
           new == [gen |-> generation + 1, flags |-> call.flags, damaged |-> FALSE]
           nx == NextRemoved(cursor)
           pv == PrevRemoved(cursor)
<1>1. /\ Found /\ b \notin heap \ {cursor}
      /\ next' = NextAdded(nx, b) /\ prev' = PrevAdded(nx, pv, b)
      /\ known' = K \cup {b} /\ generation' = generation + 1
      /\ header' = [hd EXCEPT ![b] = new]
      /\ heap' = (heap \ {cursor}) \cup {b}
      /\ wrong' = wrong \cup ({cursor} \ heap) /\ initialized' = TRUE
      /\ pc' = "idle" /\ call' = NoCall /\ cursor' = 0 /\ seen' = {}
      /\ UNCHANGED <<count, failures, reinited>>
  BY DEF ReallocFound, SetBlk, GivenBack, Return, Goto
<1>2. /\ initialized /\ cursor \in known /\ cursor \in Blocks /\ cursor \in heap
      /\ call \in Searches /\ known \subseteq heap
  BY <1>1, FoundIsKnown DEF IInv, HeapOK
<1>3. /\ hd \in [Blocks -> Header] /\ generation \in Nat
      /\ \A c \in K : hd[c] = header[c]
      /\ K \in SUBSET Blocks /\ b \notin K /\ new \in Header
  BY <1>1, <1>2 DEF IInv, TypeOK, HeadersWithout, Blank, Header, Searches
<1>4. /\ nx \in Links /\ pv \in Links
      /\ \A h \in Heads : ChainBy(nx, pv, K, hd, h)
  <2> HIDE DEF hd
  <2>1. \A c \in known \ {cursor} : hd[c] = header[c]
    BY <1>3
  <2>2. QED
    BY <1>1, <1>3, <2>1, Unlinked
<1>5. \A c \in K : hd[c].gen <= generation /\ hd[c].gen \in Nat
  BY <1>3 DEF IInv, LinksOK, TypeOK
<1>6. \A h \in Heads : ChainBy(next', prev', known', header', h)
  <2>1. \A c \in K : hd[c].gen < new.gen
    BY <1>3, <1>5
  <2> HIDE DEF K, hd, new, nx, pv
  <2>2. TAKE h \in Heads
  <2>3. ChainBy(NextAdded(nx, b), PrevAdded(nx, pv, b), K \cup {b},
                [hd EXCEPT ![b] = new], h)
    BY <1>3, <1>4, <2>1, Adding
  <2>4. QED
    BY <1>1, <2>3, Zenon
<1>7. header' \in [Blocks -> Header] /\ \A c \in known' : header'[c].gen <= generation'
  <2>1. header' \in [Blocks -> Header]
    BY <1>1, <1>3
  <2>2. header'[b].gen = generation + 1 /\ \A c \in K : header'[c] = hd[c]
    BY <1>1, <1>3
  <2> HIDE DEF K, hd, new
  <2>3. QED
    BY <1>1, <1>3, <1>5, <2>1, <2>2
<1>8. LinksOK'
  BY <1>6, <1>7 DEF LinksOK
<1>9. HeapOK'
  BY <1>1, <1>2 DEF IInv, HeapOK
<1>10. CountOK'
  <2>1. IsFiniteSet(K) /\ Cardinality(K) \in Nat /\ Cardinality(K) <= count - 1
        /\ (~reinited => count - 1 = Cardinality(K)) /\ count \in Nat
    BY <1>1, CountedOff DEF IInv, TypeOK
  <2> HIDE DEF K
  <2>2. IsFiniteSet(K \cup {b}) /\ Cardinality(K \cup {b}) = Cardinality(K) + 1
    BY <1>3, <2>1, FS_AddElement
  <2>3. QED
    BY <1>1, <2>1, <2>2 DEF CountOK
<1>11. b \in Nodes /\ Hash[b] \in Nodes /\ 0 \in Nodes
  BY HeadIsNoBlock, RmallocAssumption DEF Nodes, Heads
<1>12. next' \in Links /\ prev' \in Links
  <2> HIDE DEF nx, pv
  <2>1. next' \in Links
    BY <1>1, <1>4, <1>11 DEF NextAdded, Links
  <2>2. prev' \in Links
    BY <1>1, <1>4, <1>11 DEF PrevAdded, Links
  <2>3. QED
    BY <2>1, <2>2
<1>13. TypeOK'
  BY <1>1, <1>2, <1>3, <1>7, <1>11, <1>12 DEF IInv, TypeOK, Calls, Links, Header
<1>14. FindOK' /\ WalkOK' /\ IdleOK' /\ OnlyAllocatedIsFreed' /\ AbortIsDeserved'
  BY <1>1, <1>2 DEF IInv, FindOK, WalkOK, IdleOK, OnlyAllocatedIsFreed, AbortIsDeserved
<1>15. QED
  BY <1>8, <1>9, <1>10, <1>13, <1>14 DEF IInv

LEMMA TestAllStep ==
    ASSUME IInv, NEW op \in {"test", "stat", "exit"}, TestAll(op)
    PROVE  IInv'
<1>1. /\ initialized' = TRUE /\ next' = Next0 /\ prev' = Prev0
      /\ call' = [op |-> op, chain |-> 0] /\ cursor' = Next0[0] /\ seen' = {} /\ pc' = "test"
      /\ UNCHANGED <<count, generation, header, heap, failures, known, reinited, wrong>>
  BY DEF TestAll, Goto
<1>2. /\ next' \in Links /\ prev' \in Links /\ 0 \in Heads /\ known \subseteq Blocks
      /\ \A h \in Heads : ChainBy(next', prev', known', header', h)
  BY <1>1, Started, RmallocAssumption DEF Heads, IInv, TypeOK
<1>3. LinksOK' /\ HeapOK' /\ CountOK'
  BY <1>1, <1>2 DEF IInv, LinksOK, HeapOK, CountOK
<1>4. /\ cursor' \in Mem(known', 0) \cup {0} /\ cursor' \in Nodes
      /\ Beh(known', header', 0, 0) = Mem(known', 0)
      /\ \A b \in Mem(known', 0) : b \in Ahead(0, cursor)'
  <2>1. ChainBy(next', prev', known', header', 0) /\ cursor' = next'[0]
    BY <1>1, <1>2
  <2>2. Beh(known', header', 0, 0) = Mem(known', 0)
    BY DEF Beh
  <2>3. QED
    BY <1>1, <1>2, <2>1, <2>2 DEF ChainBy, Mem, Ahead, Nodes
<1>5. \A b \in known' : ~(Hash[b] < 0)
  BY <1>1, <1>2, RmallocAssumption DEF Heads
<1>6. call' \in Walks /\ call' \in Calls /\ call'.chain = 0
  BY <1>1, <1>2 DEF Walks, Calls
<1>7. WalkOK'
  <2>1. \A b \in known' : ~(Hash[b] = 0 /\ b \notin Ahead(0, cursor)')
    BY <1>4 DEF Mem
  <2>2. QED
    BY <1>1, <1>4, <1>5, <1>6, <2>1 DEF WalkOK, Ahead
<1>8. TypeOK'
  BY <1>1, <1>2, <1>4, <1>6 DEF IInv, TypeOK, Links
<1>9. QED
  BY <1>1, <1>3, <1>7, <1>8
     DEF IInv, FindOK, IdleOK, OnlyAllocatedIsFreed, AbortIsDeserved

LEMMA ReinitStep ==
    ASSUME IInv, Rmalloc_reinit
    PROVE  IInv'
<1>1. /\ next' = Emptied(next) /\ prev' = Emptied(prev) /\ generation' = 0 /\ known' = {}
      /\ reinited' = TRUE /\ pc = "idle"
      /\ UNCHANGED <<initialized, count, header, heap, failures, pc, call, cursor, seen, wrong>>
  BY DEF Rmalloc_reinit
<1>2. next' \in Links /\ prev' \in Links
  BY <1>1 DEF IInv, TypeOK, Emptied, Links, Nodes
<1>3. \A h \in Heads : ChainBy(next', prev', known', header', h)
  <2>1. TAKE h \in Heads
  <2>2. next'[h] = h /\ prev'[h] = h
    BY <1>1 DEF Emptied, Nodes
  <2>3. Mem(known', h) = {} /\ Beh(known', header', h, h) = {}
    BY <1>1 DEF Mem, Beh
  <2>4. QED
    BY <2>2, <2>3 DEF ChainBy
<1>4. LinksOK' /\ HeapOK'
  BY <1>1, <1>3 DEF IInv, LinksOK, HeapOK
<1>5. CountOK'
  BY <1>1, FS_EmptySet DEF IInv, CountOK, TypeOK
<1>6. QED
  BY <1>1, <1>2, <1>4, <1>5
     DEF IInv, TypeOK, Links, FindOK, WalkOK, IdleOK, OnlyAllocatedIsFreed, AbortIsDeserved

LEMMA CollectDoneStep ==
    ASSUME IInv, CollectDone
    PROVE  IInv'
<1>1. pc = "collect" /\ UNCHANGED <<listVars, header, heap, failures, reinited, wrong>>
  BY DEF CollectDone
<1>2. Cardinality(seen) <= count
  BY <1>1, SeenAreCounted
<1>3. Leave
  BY <1>2 DEF CollectDone
<1>4. QED
  BY <1>1, <1>3, LeaveStep DEF IInv, TypeOK

LEMMA TestEndsStep ==
    ASSUME IInv, TestDone \/ NoVector
    PROVE  IInv'
<1>1. /\ pc = "test" /\ Leave /\ UNCHANGED <<listVars, header, heap, reinited, wrong>>
      /\ failures' \in {failures, failures + 1}
  BY DEF TestDone, NoVector
<1>2. failures \in Nat
  BY DEF IInv, TypeOK
<1>3. QED
  BY <1>1, <1>2, LeaveStep

LEMMA NextOK == IInv /\ [Next]_vars => IInv'
<1> SUFFICES ASSUME IInv, [Next]_vars PROVE IInv'
  OBVIOUS
<1>1. ASSUME NEW b \in Blocks,
             \/ Rmalloc(b) \/ Rfree(b) \/ Rrealloc(b)
             \/ \E flags \in SUBSET AllFlags : Inspect(b, flags)
             \/ InspectStray(b) \/ WritePastEnd(b)
      PROVE  IInv'
  BY <1>1, RmallocStep, RfreeStep, RreallocStep, InspectStep, InspectStrayStep,
     WritePastEndStep
<1>2. CASE OutOfMemory \/ NullPointer \/ Rmalloc_reinit
  BY <1>2, OutOfMemoryStep, NullPointerStep, ReinitStep
<1>3. ASSUME NEW op \in {"test", "stat", "exit"}, TestAll(op) PROVE IInv'
  BY <1>3, TestAllStep
<1>4. CASE Walk
  <2>1. ASSUME NEW b \in Blocks, ReallocFound(b) PROVE IInv'
    BY <2>1, ReallocFoundStep
  <2>2. QED
    BY <1>4, <2>1, FindStepStep, NotFoundStep, FoundDamagedStep, FreeFoundStep,
       ReallocFailsStep, TestStepStep, NextChainStep, TestEndsStep, CollectBegins,
       CollectStepStep, CollectDoneStep
       DEF Walk
<1>5. CASE UNCHANGED vars
  <2>1. LinksOK' /\ HeapOK' /\ CountOK'
    BY <1>5, QuietStep DEF vars, listVars, IInv, TypeOK
  <2>2. QED
    BY <1>5, <2>1
       DEF vars, listVars, IInv, TypeOK, FindOK, WalkOK, Ahead, IdleOK, OnlyAllocatedIsFreed,
           AbortIsDeserved
<1>6. QED
  BY <1>1, <1>2, <1>3, <1>4, <1>5 DEF Next, Over

-----------------------------------------------------------------------------
(* The theorems. *)

THEOREM Invariance == Spec => []IInv
<1>1. QED
  BY InitOK, NextOK, PTL DEF Spec

\* Types: every link is a node or not set, and every call is one of the wrapper's.
THEOREM RmallocTypeCorrect == Spec => []TypeOK
<1>1. IInv => TypeOK
  BY DEF IInv
<1>2. QED
  BY <1>1, Invariance, PTL

\* The doubly linked lists of AddBlk and DelBlk hold exactly the blocks that were
\* added and not removed, in the order of their generations, for any hash function.
THEOREM ListsAreRight == Spec => []ListsHoldKnown
<1>1. IInv => ListsHoldKnown
  BY ChainedIs DEF IInv, LinksOK, ListsHoldKnown
<1>2. QED
  BY <1>1, Invariance, PTL

\* The wrapper gives free and realloc only what malloc has given it, whatever
\* pointers the program passes.
THEOREM SystemHeapIsSafe == Spec => []OnlyAllocatedIsFreed
<1>1. IInv => OnlyAllocatedIsFreed
  BY DEF IInv
<1>2. QED
  BY <1>1, Invariance, PTL

\* Rfree and Rrealloc find every block that is in the lists, and abort for another
\* only if the program must not pass it, an allocation had failed or Rmalloc_reinit
\* was called; the assertion of Rmalloc_stat never fails.
THEOREM AbortsAreDeserved == Spec => []AbortIsDeserved
<1>1. IInv => AbortIsDeserved
  BY DEF IInv
<1>2. QED
  BY <1>1, Invariance, PTL

\* Rmalloc_stat never writes behind its vector, and BlockCount is right.
THEOREM VectorIsSafe == Spec => []VectorIsLargeEnough
<1>1. IInv => VectorIsLargeEnough
  BY SeenAreCounted DEF IInv, CountOK, VectorIsLargeEnough
<1>2. QED
  BY <1>1, Invariance, PTL

\* When a test of all blocks goes on, none of them is damaged.
THEOREM TestsAreThorough == Spec => TestIsThorough
<1> DEFINE Thorough == pc = "test" /\ pc' \in {"idle", "collect", "exited"} =>
                          \A b \in known : ~header[b].damaged
<1>1. ASSUME IInv, [Next]_vars PROVE [Thorough]_vars
  <2>1. SUFFICES ASSUME Next, pc = "test", pc' \in {"idle", "collect", "exited"},
                        NEW b \in known
                 PROVE  ~header[b].damaged
    BY <1>1
  <2>2. EndOfList
    BY <2>1
       DEF Next, Rmalloc, Rfree, Rrealloc, Inspect, InspectStray, WritePastEnd, OutOfMemory,
           NullPointer, Rmalloc_reinit, TestAll, Walk, FindStep, NotFound, FoundDamaged, Found, FreeFound,
           ReallocFails, ReallocFound, TestStep, NextChain, TestDone, NoVector, Collect,
           CollectStep, CollectDone, Over, vars, Abort, Goto
  <2>3. cursor = call.chain /\ call.chain = HashSize - 1
    BY <2>2 DEF EndOfList, LastChain
  <2>4. Hash[b] \in Heads
    <3>1. b \in Blocks
      BY <1>1 DEF IInv, TypeOK
    <3>2. QED
      BY <3>1, RmallocAssumption
  <2>5. Hash[b] < call.chain \/ Hash[b] = call.chain
    BY <2>3, <2>4, RmallocAssumption DEF Heads
  <2>6. b \notin Ahead(call.chain, cursor)
    BY <2>3 DEF Ahead
  <2>7. QED
    BY <1>1, <2>1, <2>5, <2>6 DEF IInv, WalkOK
<1>2. QED
  BY <1>1, Invariance, PTL DEF Spec, TestIsThorough
=============================================================================
