--------------------------- MODULE Scanner_proofs ---------------------------
(***************************************************************************)
(* The scanner stays in the text, whatever the text: for every set of      *)
(* cases, well-formed documents or not, lookups and opens.  The invariant  *)
(* relates the pointers of an activation to each other, an activation to   *)
(* its caller, and what comes back to the activation it comes back to.     *)
(*                                                                         *)
(* First, where the tokens of a document lie.  Off is a fold over a        *)
(* sequence: its equation is proved from the definition of the fold in the *)
(* community modules, by least counterexamples, since no induction theorem *)
(* with an operator parameter can be used.  Behind the theorems the same   *)
(* is done for OpenAfter, with what it gives for a balanced text, where a  *)
(* cursor is among the tokens, and that a scan without a cache makes no    *)
(* cell.                                                                   *)
(***************************************************************************)
EXTENDS Scanner, FiniteSetTheorems, SequenceTheorems, WellFoundedInduction, TLAPS

Texts == Seq([kind : Kinds, name : Seq(STRING)])

-----------------------------------------------------------------------------
(* Least and greatest elements. *)

\* A set of natural numbers that is not empty has a least element.
LEMMA LeastNat ==
    ASSUME NEW S \in SUBSET Nat, S # {}
    PROVE  \E x \in S : \A y \in S : x <= y
<1>1. PICK x \in S : \A y \in S : ~(<<y, x>> \in OpToRel(<, Nat))
    BY NatLessThanWellFounded, WFMin
<1>2. \A y \in S : ~(y < x)
    BY <1>1 DEF OpToRel
<1> QED BY <1>2

\* Min finds it.
LEMMA MinIsLeast ==
    ASSUME NEW S \in SUBSET Nat, S # {}
    PROVE  Min(S) \in S /\ \A y \in S : Min(S) <= y
BY LeastNat DEF Min

\* Max finds the greatest element of a set of indices.
LEMMA MaxIsGreatest ==
    ASSUME NEW n \in Nat, NEW S \in SUBSET (1 .. n), S # {}
    PROVE  Max(S) \in S /\ \A y \in S : Max(S) >= y
<1> DEFINE R == {x \in 0 .. n : n - x \in S}
<1>1. R \in SUBSET Nat /\ R # {}
    <2>1. PICK y \in S : TRUE
        OBVIOUS
    <2>2. n - y \in R
        BY <2>1
    <2>3. \A x \in R : x \in Nat
        OBVIOUS
    <2> HIDE DEF R
    <2> QED BY <2>2, <2>3
<1>2. PICK x \in R : \A y \in R : x <= y
    BY <1>1, LeastNat
<1>3. \A y \in S : n - y \in R
    OBVIOUS
<1>4. n - x \in S /\ \A y \in S : n - x >= y
    BY <1>2, <1>3
<1> QED BY <1>4 DEF Max

-----------------------------------------------------------------------------
(* The fold of the widths. *)

\* The recursive function the fold is defined with: the widths of a set of
\* tokens, taken from the last one down.
IsSum(sum, d) ==
    sum = [s \in SUBSET DOMAIN d |->
             IF s = {} THEN 0 ELSE sum[s \ {Max(s)}] + Width(d[Max(s)])]
Sum(d) == CHOOSE sum : IsSum(sum, d)

LEMMA FoldIsSum ==
    ASSUME NEW d
    PROVE  FoldLeft(LAMBDA n, tok : n + Width(tok), 0, d) = Sum(d)[DOMAIN d]
BY DEF FoldLeft, MapThenFoldSet, Sum, IsSum

\* A token takes at least two characters.
LEMMA WidthType ==
    ASSUME NEW tok \in [kind : Kinds, name : Seq(STRING)]
    PROVE  Width(tok) \in Nat /\ Width(tok) >= 2
<1>1. Len(tok.name) \in Nat
    BY LenProperties
<1> QED BY <1>1 DEF Width, Kinds, ElementKinds, BlockKinds

LEMMA TokenType ==
    ASSUME NEW d \in Texts
    PROVE  /\ Len(d) \in Nat /\ DOMAIN d = 1 .. Len(d)
           /\ \A i \in 1 .. Len(d) :
                 /\ d[i] \in [kind : Kinds, name : Seq(STRING)]
                 /\ Width(d[i]) \in Nat /\ Width(d[i]) >= 2
BY LenProperties, ElementOfSeq, WidthType DEF Texts

\* There is such a function on the sets of the first n tokens.
SumOn(sum, d, n) ==
    /\ sum \in [SUBSET (1 .. n) -> Nat]
    /\ \A s \in SUBSET (1 .. n) :
          sum[s] = IF s = {} THEN 0 ELSE sum[s \ {Max(s)}] + Width(d[Max(s)])

LEMMA SumOnExists ==
    ASSUME NEW d \in Texts, NEW n \in 0 .. Len(d)
    PROVE  \E sum : SumOn(sum, d, n)
<1> DEFINE Bad == {k \in 0 .. Len(d) : ~\E sum : SumOn(sum, d, k)}
<1>1. Len(d) \in Nat
    BY TokenType
<1> SUFFICES ASSUME Bad # {} PROVE FALSE
    OBVIOUS
<1>2. PICK k \in Bad : \A j \in Bad : k <= j
    <2>1. \A k \in Bad : k \in Nat
        BY <1>1
    <2>2. Bad # {}
        OBVIOUS
    <2> HIDE DEF Bad
    <2>3. Bad \in SUBSET Nat
        BY <2>1
    <2> QED BY <2>2, <2>3, LeastNat
<1>3. CASE k = 0
    <2> DEFINE g == [s \in SUBSET (1 .. 0) |-> 0]
    <2>1. \A s \in SUBSET (1 .. 0) : s = {}
        OBVIOUS
    <2>2. SumOn(g, d, 0)
        BY <2>1 DEF SumOn
    <2> QED BY <2>2, <1>3
<1>4. CASE k # 0
    <2>1. k - 1 \in 0 .. Len(d) /\ k - 1 \notin Bad /\ k \in 1 .. Len(d) /\ k \in Nat
        BY <1>1, <1>2, <1>4
    <2>2. PICK h : SumOn(h, d, k - 1)
        BY <2>1
    <2>3. Width(d[k]) \in Nat
        BY <2>1, TokenType
    <2> DEFINE g == [s \in SUBSET (1 .. k) |->
                       IF k \in s THEN h[s \ {k}] + Width(d[k]) ELSE h[s]]
    <2>4. \A s \in SUBSET (1 .. k) : s \ {k} \in SUBSET (1 .. (k - 1))
        BY <2>1
    <2>5. \A s \in SUBSET (1 .. k) : k \notin s => s \in SUBSET (1 .. (k - 1))
        BY <2>4
    <2>6. ASSUME NEW s \in SUBSET (1 .. (k - 1)) PROVE h[s] \in Nat
        BY <2>2 DEF SumOn
    <2>7. g \in [SUBSET (1 .. k) -> Nat]
        BY <2>3, <2>4, <2>5, <2>6
    <2>8. ASSUME NEW s \in SUBSET (1 .. k)
          PROVE  g[s] = IF s = {} THEN 0 ELSE g[s \ {Max(s)}] + Width(d[Max(s)])
        <3>1. CASE k \in s
            <4>1. Max(s) = k
                <5>1. s # {} /\ s \in SUBSET (1 .. k) /\ k \in Nat
                    BY <3>1, <2>1
                <5> HIDE DEF g, Bad
                <5>2. Max(s) \in s /\ \A y \in s : Max(s) >= y
                    BY <5>1, MaxIsGreatest
                <5>3. Max(s) \in 1 .. k /\ Max(s) >= k
                    BY <5>1, <5>2, <3>1
                <5> QED BY <5>1, <5>3
            <4>2. s \ {k} \in SUBSET (1 .. k) /\ k \notin s \ {k}
                OBVIOUS
            <4>3. g[s \ {k}] = h[s \ {k}]
                BY <4>2
            <4> QED BY <4>1, <4>3, <3>1
        <3>2. CASE k \notin s
            <4>1. s \in SUBSET (1 .. (k - 1))
                BY <3>2, <2>5
            <4>2. g[s] = h[s]
                BY <3>2
            <4>3. s \ {Max(s)} \in SUBSET (1 .. k) /\ k \notin s \ {Max(s)}
                BY <3>2
            <4>4. g[s \ {Max(s)}] = h[s \ {Max(s)}]
                BY <4>3
            <4> QED BY <4>1, <4>2, <4>4, <2>2 DEF SumOn
        <3> QED BY <3>1, <3>2
    <2>9. SumOn(g, d, k)
        BY <2>7, <2>8 DEF SumOn
    <2> QED BY <2>9, <1>2
<1> QED BY <1>3, <1>4

\* Sum adds the width of the last token.
LEMMA SumEquation ==
    ASSUME NEW d \in Texts
    PROVE  /\ Sum(d)[{}] = 0
           /\ \A i \in 1 .. Len(d) :
                 Sum(d)[1 .. i] = Sum(d)[1 .. (i - 1)] + Width(d[i])
<1>1. Len(d) \in Nat /\ DOMAIN d = 1 .. Len(d)
    BY TokenType
<1>2. PICK g : SumOn(g, d, Len(d))
    BY <1>1, SumOnExists
<1>3. IsSum(g, d)
    BY <1>1, <1>2 DEF SumOn, IsSum
<1>4. IsSum(Sum(d), d)
    BY <1>3 DEF Sum
<1>5. Sum(d)[{}] = 0
    BY <1>4 DEF IsSum
<1>6. ASSUME NEW i \in 1 .. Len(d)
      PROVE  Sum(d)[1 .. i] = Sum(d)[1 .. (i - 1)] + Width(d[i])
    <2>1. 1 .. i \in SUBSET DOMAIN d /\ 1 .. i # {} /\ i \in Nat /\ i \in 1 .. i
        BY <1>1
    <2>2. Max(1 .. i) \in 1 .. i /\ \A y \in 1 .. i : Max(1 .. i) >= y
        BY <2>1, MaxIsGreatest
    <2>3. Max(1 .. i) = i
        BY <2>1, <2>2
    <2>4. (1 .. i) \ {i} = 1 .. (i - 1)
        BY <2>1
    <2>5. Sum(d)[1 .. i] = Sum(d)[(1 .. i) \ {Max(1 .. i)}] + Width(d[Max(1 .. i)])
        BY <1>4, <2>1 DEF IsSum
    <2> QED BY <2>3, <2>4, <2>5
<1> QED BY <1>5, <1>6
-----------------------------------------------------------------------------
(* Offsets. *)

\* The widths of the first tokens do not depend on what follows them.
LEMMA PrefixSum ==
    ASSUME NEW d \in Texts, NEW n \in 0 .. Len(d), NEW i \in 0 .. n
    PROVE  Sum(SubSeq(d, 1, n))[1 .. i] = Sum(d)[1 .. i]
<1> DEFINE e == SubSeq(d, 1, n)
<1>1. Len(d) \in Nat
    BY TokenType
<1>2. e \in Texts /\ Len(e) = n /\ \A j \in 1 .. n : e[j] = d[j]
    <2>1. \A j \in 1 .. n : d[j] \in [kind : Kinds, name : Seq(STRING)]
        BY <1>1, TokenType
    <2> QED BY <2>1, <1>1, SubSeqProperties DEF Texts
<1> HIDE DEF e
<1> DEFINE Bad == {k \in 0 .. n : Sum(e)[1 .. k] # Sum(d)[1 .. k]}
<1> SUFFICES ASSUME Bad # {} PROVE FALSE
    BY DEF e
<1>3. PICK k \in Bad : \A j \in Bad : k <= j
    <2>1. \A k \in Bad : k \in Nat
        BY <1>1
    <2>2. Bad # {}
        OBVIOUS
    <2> HIDE DEF Bad
    <2>3. Bad \in SUBSET Nat
        BY <2>1
    <2> QED BY <2>2, <2>3, LeastNat
<1>4. k # 0
    <2>1. 1 .. 0 = {}
        OBVIOUS
    <2>2. Sum(e)[1 .. 0] = Sum(d)[1 .. 0]
        BY <2>1, <1>2, SumEquation
    <2> QED BY <2>2, <1>3
<1>5. k \in 1 .. n /\ k \in 1 .. Len(d) /\ k - 1 \in 0 .. n /\ k - 1 \notin Bad
    BY <1>1, <1>3, <1>4
<1>6. Sum(e)[1 .. (k - 1)] = Sum(d)[1 .. (k - 1)]
    BY <1>5
<1>7. Sum(e)[1 .. k] = Sum(e)[1 .. (k - 1)] + Width(e[k])
    BY <1>2, <1>5, SumEquation
<1>8. Sum(d)[1 .. k] = Sum(d)[1 .. (k - 1)] + Width(d[k])
    BY <1>5, SumEquation
<1>9. Sum(e)[1 .. k] = Sum(d)[1 .. k]
    BY <1>6, <1>7, <1>8, <1>2, <1>5
<1> QED BY <1>9, <1>3

LEMMA OffIsSum ==
    ASSUME NEW d \in Texts, NEW i \in 1 .. Len(d) + 1
    PROVE  Off(d, i) = Sum(d)[1 .. (i - 1)]
<1>1. Len(d) \in Nat /\ i - 1 \in 0 .. Len(d)
    BY TokenType
<1>2. \A j \in 1 .. (i - 1) : d[j] \in [kind : Kinds, name : Seq(STRING)]
    BY <1>1, TokenType
<1>3. /\ SubSeq(d, 1, i - 1) \in Seq([kind : Kinds, name : Seq(STRING)])
      /\ Len(SubSeq(d, 1, i - 1)) = i - 1
    BY <1>1, <1>2, SubSeqProperties
<1>4. DOMAIN SubSeq(d, 1, i - 1) = 1 .. (i - 1)
    BY <1>1, <1>3, LenProperties
<1>5. Off(d, i) = Sum(SubSeq(d, 1, i - 1))[1 .. (i - 1)]
    BY <1>4, FoldIsSum DEF Off
<1>6. i - 1 \in 0 .. (i - 1)
    BY <1>1
<1> QED BY <1>1, <1>5, <1>6, PrefixSum

\* The first token is at offset 0, and the next one behind its characters.
LEMMA OffFirst ==
    ASSUME NEW d \in Texts
    PROVE  Off(d, 1) = 0
<1>1. 1 \in 1 .. Len(d) + 1 /\ 1 .. (1 - 1) = {}
    BY TokenType
<1> QED BY <1>1, OffIsSum, SumEquation

LEMMA OffNext ==
    ASSUME NEW d \in Texts, NEW i \in 1 .. Len(d)
    PROVE  Off(d, i + 1) = Off(d, i) + Width(d[i])
<1>1. Len(d) \in Nat /\ i \in 1 .. Len(d) + 1 /\ i + 1 \in 1 .. Len(d) + 1 /\ (i + 1) - 1 = i
    BY TokenType
<1> QED BY <1>1, OffIsSum, SumEquation

\* An offset is a number of characters.
LEMMA OffType ==
    ASSUME NEW d \in Texts, NEW i \in 1 .. Len(d) + 1
    PROVE  Off(d, i) \in Nat
<1> DEFINE Bad == {k \in 1 .. Len(d) + 1 : Off(d, k) \notin Nat}
<1>1. Len(d) \in Nat
    BY TokenType
<1> SUFFICES ASSUME Bad # {} PROVE FALSE
    OBVIOUS
<1>2. PICK k \in Bad : \A j \in Bad : k <= j
    <2>1. \A k \in Bad : k \in Nat
        BY <1>1
    <2>2. Bad # {}
        OBVIOUS
    <2> HIDE DEF Bad
    <2>3. Bad \in SUBSET Nat
        BY <2>1
    <2> QED BY <2>2, <2>3, LeastNat
<1>3. k # 1
    BY <1>2, OffFirst
<1>4. k - 1 \in 1 .. Len(d) /\ k - 1 \in 1 .. Len(d) + 1 /\ k - 1 \notin Bad
    BY <1>1, <1>2, <1>3
<1>5. Off(d, k - 1) \in Nat
    BY <1>4
<1>6. Off(d, (k - 1) + 1) = Off(d, k - 1) + Width(d[k - 1])
    BY <1>4, OffNext
<1>7. (k - 1) + 1 = k
    BY <1>1, <1>2
<1>8. Width(d[k - 1]) \in Nat
    BY <1>4, TokenType
<1> QED BY <1>2, <1>5, <1>6, <1>7, <1>8

\* A token ends where a later one begins, or before.
LEMMA OffMonotone ==
    ASSUME NEW d \in Texts, NEW i \in 1 .. Len(d),
           NEW j \in i + 1 .. Len(d) + 1
    PROVE  Off(d, i + 1) <= Off(d, j)
<1> DEFINE Bad == {k \in i + 1 .. Len(d) + 1 : ~(Off(d, i + 1) <= Off(d, k))}
<1>1. Len(d) \in Nat
    BY TokenType
<1> SUFFICES ASSUME Bad # {} PROVE FALSE
    OBVIOUS
<1>2. PICK k \in Bad : \A l \in Bad : k <= l
    <2>1. \A k \in Bad : k \in Nat
        BY <1>1
    <2>2. Bad # {}
        OBVIOUS
    <2> HIDE DEF Bad
    <2>3. Bad \in SUBSET Nat
        BY <2>1
    <2> QED BY <2>2, <2>3, LeastNat
<1>3. Off(d, i + 1) \in Nat
    BY <1>1, OffType
<1>4. k # i + 1
    BY <1>2, <1>3
<1>5. /\ k - 1 \in i + 1 .. Len(d) + 1 /\ k - 1 \notin Bad
      /\ k - 1 \in 1 .. Len(d) /\ (k - 1) + 1 = k
    BY <1>1, <1>2, <1>4
<1>6. Off(d, i + 1) <= Off(d, k - 1)
    BY <1>5
<1>7. Off(d, k) = Off(d, k - 1) + Width(d[k - 1])
    BY <1>5, OffNext
<1>8. Width(d[k - 1]) \in Nat /\ Off(d, k - 1) \in Nat
    BY <1>1, <1>5, TokenType, OffType
<1> QED BY <1>2, <1>3, <1>6, <1>7, <1>8

\* What the scanner needs of a token: it lies in the text, takes at least two
\* characters, and ends before every token behind it.
THEOREM TokenInText ==
    ASSUME NEW d \in Texts, NEW i \in 1 .. Len(d)
    PROVE  /\ Off(d, i) \in Nat /\ Width(d[i]) \in Nat /\ Width(d[i]) >= 2
           /\ Off(d, i + 1) = Off(d, i) + Width(d[i])
           /\ Off(d, i + 1) <= Size(d) /\ Size(d) \in Nat
           /\ \A j \in i + 1 .. Len(d) : Off(d, i + 1) <= Off(d, j)
<1>1. Len(d) \in Nat
    BY TokenType
<1>3. Width(d[i]) \in Nat /\ Width(d[i]) >= 2
    BY TokenType
<1>4. Off(d, i) \in Nat /\ Size(d) \in Nat
    BY <1>1, OffType DEF Size
<1>5. Off(d, i + 1) <= Size(d)
    BY <1>1, OffMonotone DEF Size
<1> QED BY <1>3, <1>4, <1>5, OffNext, OffMonotone

-----------------------------------------------------------------------------
(* The activations. *)

Pattern == Seq(STRING) \cup {AnyName}

Frame ==
    [nc : CellOrNull, nnc : CellOrNull, name : Pattern,
     num : Nat \cup {AllNums}, start : Nat, cur : Nat, element : Pattern,
     fresh : BOOLEAN, rptr : Nat \cup {NoPos}, starttag : BOOLEAN,
     rv : Nat \cup {NoPos}, len : Int, found : Nat, buf : Int]

\* The pointers of an activation are in order; an opening tag whose end is
\* known has the name of a tag.
FrameOK(f) ==
    /\ f \in Frame
    /\ f.start <= f.cur /\ f.cur <= End
    /\ ~f.fresh => f.start < f.cur
    /\ f.rptr # NoPos => f.rptr <= f.cur /\ f.element \in Names
    /\ f.rv # NoPos => f.start < f.rv /\ f.rv <= f.cur

\* All but the outermost activation look for every element, and the length they
\* give back fits into the rest of their section.
Inner(f) ==
    /\ f.name = AnyName /\ f.num = AllNums
    /\ f.start < End
    /\ f.len >= 0 /\ f.len <= End - f.start - 1
    /\ f.starttag => f.rv # NoPos

Stack ==
    /\ calls \in Seq(Frame)
    /\ \A i \in 1 .. Len(calls) : FrameOK(calls[i])
    /\ \A i \in 2 .. Len(calls) :
          Inner(calls[i]) /\ calls[i].start = calls[i - 1].cur - 1

Inside1 == {"enter", "head", "blockdata", "selfdata", "content", "afterblock",
            "closing"}
Outside == {"start", "done", "free", "closed"}

\* What the innermost activation knows at each of its steps.
PlaceOK(place, f) ==
    /\ place = "enter" => f.rv = NoPos
    /\ place = "blockdata" => TagsFrom(f.cur) # {} /\ IsBlock(NextTag(f.cur))
    /\ place = "selfdata" => f.rptr # NoPos
    /\ place \in {"selfdata", "content", "afterblock", "closing"} => f.start < f.cur
    /\ place = "closing" =>
          /\ TagsFrom(f.cur) # {} /\ Kind(NextTag(f.cur)) = "close"
          /\ At(NextTag(f.cur)) = f.cur

Places ==
    /\ pc \in Inside1 \cup Outside \cup {"return", "crashed"}
    /\ pc \in Outside => calls = <<>>
    /\ pc \in Inside1 => calls # <<>> /\ PlaceOK(pc, F)

Returned ==
    /\ ret.err \in BOOLEAN /\ ret.rv \in Nat \cup {NoPos}
    /\ pc = "return" /\ calls # <<>> /\ ret.rv # NoPos =>
          ret.len \in Nat /\ F.cur + ret.len <= End

\* A cell says nothing or names a section of the text.
Data ==
    /\ payload \in [Cells -> Sections \cup {Blank}]
    /\ \A n \in Cells : payload[n] # Blank => payload[n].from + payload[n].len <= End

IsCase == \E c \in Cases : doc = c.doc /\ req = c.req /\ mode = c.mode

SInv == IsCase /\ root \in CellOrNull /\ Stack /\ Places /\ Returned /\ Data

-----------------------------------------------------------------------------
(* The text of a case. *)

LEMMA CaseFacts ==
    ASSUME IsCase
    PROVE  /\ doc \in Texts /\ DOMAIN doc = 1 .. Len(doc) /\ Len(doc) \in Nat
           /\ End \in Nat /\ End <= MaxSize /\ MaxSize \in Nat
           /\ req.name \in Seq(STRING) /\ req.num \in Nat \cup {AllNums}
           /\ \A t \in DOMAIN doc : doc[t].name \in Names /\ doc[t].kind \in Kinds
           /\ Names \subseteq Seq(STRING) /\ <<>> \in Names
<1>1. PICK c \in Cases : doc = c.doc /\ req = c.req /\ mode = c.mode
    BY DEF IsCase
<1>2. doc \in Seq([kind : Kinds, name : Names])
    BY <1>1, CasesAssumption
<1>3. Names \subseteq Seq(STRING) /\ <<>> \in Names
    BY CasesAssumption
<1>4. [kind : Kinds, name : Names] \subseteq [kind : Kinds, name : Seq(STRING)]
    BY <1>3
<1>5. doc \in Texts
    BY <1>2, <1>4, SeqMonotonic DEF Texts
<1>6. DOMAIN doc = 1 .. Len(doc) /\ Len(doc) \in Nat
    BY <1>2, LenProperties
<1>7. \A t \in DOMAIN doc : doc[t].name \in Names /\ doc[t].kind \in Kinds
    <2>1. \A t \in 1 .. Len(doc) : doc[t] \in [kind : Kinds, name : Names]
        BY <1>2, ElementOfSeq
    <2> QED BY <2>1, <1>6
<1>8. Len(doc) + 1 \in 1 .. Len(doc) + 1
    BY <1>6
<1>9. End \in Nat
    BY <1>5, <1>8, OffType DEF End, Size
<1>10. End <= MaxSize /\ MaxSize \in Nat
    BY <1>1, BoundsAssumption DEF End
<1>11. req.name \in Seq(STRING) /\ req.num \in Nat \cup {AllNums}
    BY <1>1, CasesAssumption
<1> QED BY <1>3, <1>5, <1>6, <1>7, <1>9, <1>10, <1>11

\* A token lies in the text.
LEMMA TokenFacts ==
    ASSUME IsCase, NEW t \in DOMAIN doc
    PROVE  /\ t \in Nat /\ At(t) \in Nat /\ At(t + 1) \in Nat
           /\ Width(doc[t]) \in Nat /\ Width(doc[t]) >= 2
           /\ At(t + 1) = At(t) + Width(doc[t])
           /\ At(t + 1) <= End
<1>1. doc \in Texts /\ DOMAIN doc = 1 .. Len(doc) /\ Len(doc) \in Nat
    BY CaseFacts
<1>2. t \in 1 .. Len(doc)
    BY <1>1
<1>3. /\ Off(doc, t) \in Nat /\ Width(doc[t]) \in Nat /\ Width(doc[t]) >= 2
      /\ Off(doc, t + 1) = Off(doc, t) + Width(doc[t])
      /\ Off(doc, t + 1) <= Size(doc)
    BY <1>1, <1>2, TokenInText
<1> QED BY <1>1, <1>2, <1>3 DEF At, End

\* The tag MEMCHR finds is at or behind cur and lies in the text.
LEMMA TagFacts ==
    ASSUME IsCase, NEW cur \in Nat, TagsFrom(cur) # {}
    PROVE  /\ NextTag(cur) \in TagsFrom(cur) /\ NextTag(cur) \in DOMAIN doc
           /\ \A u \in TagsFrom(cur) : NextTag(cur) <= u
           /\ NextTag(cur) \in Nat
           /\ Kind(NextTag(cur)) \in Kinds /\ Kind(NextTag(cur)) # "text"
           /\ doc[NextTag(cur)].name \in Names
           /\ At(NextTag(cur)) \in Nat /\ cur <= At(NextTag(cur))
           /\ At(NextTag(cur)) + 2 <= At(NextTag(cur) + 1)
           /\ At(NextTag(cur) + 1) \in Nat /\ At(NextTag(cur) + 1) <= End
<1>1. TagsFrom(cur) \subseteq DOMAIN doc /\ DOMAIN doc = 1 .. Len(doc)
    BY CaseFacts DEF TagsFrom
<1>2. TagsFrom(cur) \in SUBSET Nat
    BY <1>1
<1>3. NextTag(cur) \in TagsFrom(cur) /\ \A u \in TagsFrom(cur) : NextTag(cur) <= u
    BY <1>2, MinIsLeast DEF NextTag
<1>4. NextTag(cur) \in DOMAIN doc
    BY <1>1, <1>3
<1>5. Kind(NextTag(cur)) # "text" /\ At(NextTag(cur)) >= cur
    BY <1>3 DEF TagsFrom
<1>6. Kind(NextTag(cur)) \in Kinds /\ doc[NextTag(cur)].name \in Names
    BY <1>4, CaseFacts DEF Kind
<1>7. /\ At(NextTag(cur)) \in Nat /\ At(NextTag(cur)) + 2 <= At(NextTag(cur) + 1)
      /\ At(NextTag(cur) + 1) \in Nat /\ At(NextTag(cur) + 1) <= End
      /\ NextTag(cur) \in Nat
    BY <1>4, TokenFacts
<1> QED BY <1>3, <1>4, <1>5, <1>6, <1>7

\* It is found again from its own offset.
LEMMA TagAgain ==
    ASSUME IsCase, NEW cur \in Nat, TagsFrom(cur) # {}
    PROVE  /\ TagsFrom(At(NextTag(cur))) # {}
           /\ NextTag(At(NextTag(cur))) = NextTag(cur)
<1> DEFINE t == NextTag(cur)
<1>1. /\ t \in TagsFrom(cur) /\ \A u \in TagsFrom(cur) : t <= u
      /\ At(t) \in Nat /\ cur <= At(t) /\ t \in Nat
    BY TagFacts
<1> HIDE DEF t
<1>2. \A u \in DOMAIN doc : At(u) \in Nat
    BY TokenFacts
<1>3. t \in TagsFrom(At(t))
    BY <1>1 DEF TagsFrom
<1>4. TagsFrom(At(t)) \subseteq TagsFrom(cur)
    BY <1>1, <1>2 DEF TagsFrom
<1>5. NextTag(At(t)) \in TagsFrom(At(t)) /\ \A u \in TagsFrom(At(t)) : NextTag(At(t)) <= u
    BY <1>1, <1>3, TagFacts
<1>6. NextTag(At(t)) \in Nat
    BY <1>1, <1>3, TagFacts
<1>7. NextTag(At(t)) = t
    BY <1>1, <1>3, <1>4, <1>5, <1>6
<1> QED BY <1>3, <1>7 DEF t

\* The section of a block and the place behind it are in the text.
LEMMA BlockFacts ==
    ASSUME IsCase, NEW t \in DOMAIN doc, IsBlock(t)
    PROVE  /\ BlockEnd(t) \in Nat /\ At(t) < BlockEnd(t) /\ BlockEnd(t) <= End
           /\ BlockSection(t) \in Sections
           /\ BlockSection(t).from + BlockSection(t).len <= End
<1>1. /\ At(t) \in Nat /\ At(t + 1) \in Nat /\ At(t + 1) = At(t) + Width(doc[t])
      /\ At(t + 1) <= End /\ End \in Nat /\ End <= MaxSize /\ MaxSize \in Nat
    BY TokenFacts, CaseFacts
<1>2. \/ Kind(t) = "comment" /\ Width(doc[t]) = 8
      \/ Kind(t) = "cdata" /\ Width(doc[t]) = 13
      \/ Kind(t) = "pi" /\ Width(doc[t]) = 10
    BY DEF IsBlock, BlockKinds, Kind, Width
<1>3. BlockEnd(t) \in Nat /\ At(t) < BlockEnd(t) /\ BlockEnd(t) <= End
    BY <1>1, <1>2 DEF BlockEnd
<1>4. \E from, len \in Nat :
         /\ BlockSection(t) = [name |-> BlockName, from |-> from, len |-> len]
         /\ from + len <= End
    <2> DEFINE skipped == CASE Kind(t) = "comment" \/ Raw -> 1
                            [] Kind(t) = "cdata" -> 9
                            [] OTHER -> 7
               mark == CASE Kind(t) = "cdata" -> IF Raw THEN 0 ELSE 3
                         [] Kind(t) = "pi" /\ ~Raw -> 3
                         [] OTHER -> 1
    <2>1. skipped \in Nat /\ mark \in Nat /\ skipped + mark <= Width(doc[t])
        BY <1>2
    <2>2. BlockSection(t) = [name |-> BlockName, from |-> At(t) + skipped,
                             len |-> Width(doc[t]) - skipped - mark]
        BY DEF BlockSection
    <2> HIDE DEF skipped, mark
    <2>3. Width(doc[t]) \in Nat
        BY <1>2
    <2>4. /\ At(t) + skipped \in Nat /\ Width(doc[t]) - skipped - mark \in Nat
          /\ At(t) + skipped + (Width(doc[t]) - skipped - mark) <= End
        BY <2>1, <2>3, <1>1
    <2> QED BY <2>2, <2>4
<1>5. PICK from, len \in Nat :
         /\ BlockSection(t) = [name |-> BlockName, from |-> from, len |-> len]
         /\ from + len <= End
    BY <1>4
<1>6. from \in 0 .. MaxSize /\ len \in 0 .. MaxSize /\ from + len <= MaxSize
    BY <1>1, <1>5
<1>7. BlockSection(t) \in Sections
    BY <1>5, <1>6 DEF Sections
<1> QED BY <1>3, <1>5, <1>7

\* A '>' is in the text.
LEMMA GtFacts ==
    ASSUME IsCase, NEW p \in Int, IsGt(p)
    PROVE  p + 1 <= End
<1>1. PICK t \in DOMAIN doc : p = At(t + 1) - 1
    BY DEF IsGt
<1> QED BY <1>1, TokenFacts, CaseFacts

-----------------------------------------------------------------------------
(* The stack: what a step does to it keeps it in order. *)

LEMMA TopFacts ==
    ASSUME Stack, calls # <<>>
    PROVE  /\ Len(calls) \in Nat \ {0} /\ DOMAIN calls = 1 .. Len(calls)
           /\ F \in Frame /\ FrameOK(F)
           /\ Len(calls) > 1 =>
                 /\ Inner(F) /\ F.start = calls[Len(calls) - 1].cur - 1
                 /\ calls[Len(calls) - 1] \in Frame
<1>1. Len(calls) \in Nat \ {0} /\ DOMAIN calls = 1 .. Len(calls)
    BY EmptySeq, LenProperties DEF Stack
<1>2. Len(calls) \in 1 .. Len(calls)
    BY <1>1
<1>3. F \in Frame /\ FrameOK(F)
    BY <1>1, <1>2, ElementOfSeq DEF Stack, F
<1>4. ASSUME Len(calls) > 1
      PROVE  /\ Inner(F) /\ F.start = calls[Len(calls) - 1].cur - 1
             /\ calls[Len(calls) - 1] \in Frame
    <2>1. Len(calls) \in 2 .. Len(calls) /\ Len(calls) - 1 \in 1 .. Len(calls)
        BY <1>1, <1>4
    <2> QED BY <2>1, ElementOfSeq DEF Stack, F
<1> QED BY <1>1, <1>3, <1>4

\* The innermost activation may go on in this state.
TopOK(f) ==
    /\ FrameOK(f)
    /\ f.start = F.start
    /\ Len(calls) > 1 => Inner(f)

LEMMA TopChanges ==
    ASSUME Stack, calls # <<>>, NEW f, TopOK(f), calls' = SetTop(f), UNCHANGED doc
    PROVE  Stack' /\ calls' # <<>> /\ F' = f /\ Len(calls') = Len(calls)
<1>1. /\ Len(calls) \in Nat \ {0} /\ DOMAIN calls = 1 .. Len(calls)
      /\ Len(calls) > 1 => F.start = calls[Len(calls) - 1].cur - 1
    BY TopFacts
<1>2. f \in Frame /\ Len(calls) \in 1 .. Len(calls)
    BY <1>1 DEF TopOK, FrameOK
<1>3. /\ calls' \in Seq(Frame) /\ Len(calls') = Len(calls)
      /\ \A j \in 1 .. Len(calls) : calls'[j] = IF j = Len(calls) THEN f ELSE calls[j]
    BY <1>2, ExceptSeq DEF Stack, SetTop
<1>4. calls' # <<>> /\ F' = f
    BY <1>1, <1>2, <1>3, EmptySeq DEF F
<1>5. ASSUME NEW i \in 1 .. Len(calls') PROVE FrameOK(calls[i])'
    <2>1. End' = End
        BY DEF End
    <2>2. FrameOK(calls'[i])
        BY <1>3 DEF TopOK, Stack
    <2> QED BY <2>1, <2>2 DEF FrameOK
<1>6. ASSUME NEW i \in 2 .. Len(calls')
      PROVE  Inner(calls[i])' /\ calls'[i].start = calls'[i - 1].cur - 1
    <2>1. End' = End
        BY DEF End
    <2>2. i \in 2 .. Len(calls) /\ i - 1 \in 1 .. Len(calls) /\ i - 1 # Len(calls)
        <3>1. Len(calls') = Len(calls) /\ Len(calls) \in Nat
            BY <1>1, <1>3
        <3> QED BY <3>1
    <2>3. calls'[i - 1] = calls[i - 1]
        BY <1>3, <2>2
    <2>4. Inner(calls'[i]) /\ calls'[i].start = calls[i - 1].cur - 1
        <3>1. CASE i = Len(calls)
            BY <3>1, <1>1, <1>3, <2>2 DEF TopOK
        <3>2. CASE i # Len(calls)
            BY <3>2, <1>3, <2>2 DEF Stack
        <3> QED BY <3>1, <3>2
    <2> QED BY <2>1, <2>3, <2>4 DEF Inner
<1> QED BY <1>3, <1>4, <1>5, <1>6 DEF Stack

LEMMA TopPops ==
    ASSUME Stack, calls # <<>>, calls' = Front(calls), UNCHANGED doc
    PROVE  /\ Stack' /\ Len(calls') = Len(calls) - 1
           /\ calls' # <<>> => Len(calls) > 1 /\ F' = calls[Len(calls) - 1]
<1>1. Len(calls) \in Nat \ {0} /\ DOMAIN calls = 1 .. Len(calls)
    BY TopFacts
<1>2. \A i \in 1 .. Len(calls) - 1 : calls[i] \in Frame
    BY <1>1, ElementOfSeq DEF Stack
<1>3. /\ calls' \in Seq(Frame) /\ Len(calls') = Len(calls) - 1
      /\ \A j \in 1 .. Len(calls) - 1 : calls'[j] = calls[j]
    BY <1>1, <1>2, SubSeqProperties DEF Front
<1>4. calls' # <<>> => Len(calls) > 1 /\ F' = calls[Len(calls) - 1]
    <2> SUFFICES ASSUME calls' # <<>>
                 PROVE  Len(calls) > 1 /\ F' = calls[Len(calls) - 1]
        OBVIOUS
    <2>1. Len(calls') \in Nat \ {0}
        BY <1>3, EmptySeq
    <2>2. Len(calls) > 1 /\ Len(calls) - 1 \in 1 .. Len(calls) - 1
        BY <1>1, <1>3, <2>1
    <2> QED BY <2>2, <1>3 DEF F
<1>5. End' = End
    BY DEF End
<1>6. ASSUME NEW i \in 1 .. Len(calls') PROVE FrameOK(calls[i])'
    <2>1. FrameOK(calls'[i])
        BY <1>1, <1>3 DEF Stack
    <2> QED BY <1>5, <2>1 DEF FrameOK
<1>7. ASSUME NEW i \in 2 .. Len(calls')
      PROVE  Inner(calls[i])' /\ calls'[i].start = calls'[i - 1].cur - 1
    <2>1. i \in 2 .. Len(calls) /\ i - 1 \in 1 .. Len(calls) - 1 /\ i \in 1 .. Len(calls) - 1
        BY <1>1, <1>3
    <2>2. Inner(calls'[i]) /\ calls'[i].start = calls'[i - 1].cur - 1
        BY <1>3, <2>1 DEF Stack
    <2> QED BY <1>5, <2>2 DEF Inner
<1> QED BY <1>3, <1>4, <1>6, <1>7 DEF Stack

\* A recursive call starts at the tag the scan has come to.
LEMMA TopCalls ==
    ASSUME SInv, calls # <<>>, TagsFrom(F.cur) # {}, NEW nc \in CellOrNull,
           calls' = Append(SetTop([F EXCEPT !.cur = At(T) + 1]),
                           Activation(nc, AnyName, AllNums, At(T))),
           UNCHANGED doc
    PROVE  /\ Stack' /\ calls' # <<>> /\ F' = Activation(nc, AnyName, AllNums, At(T))
           /\ Len(calls') = Len(calls) + 1
<1>1. /\ Len(calls) \in Nat \ {0} /\ DOMAIN calls = 1 .. Len(calls)
      /\ F \in Frame /\ FrameOK(F)
      /\ Len(calls) > 1 => Inner(F) /\ F.start = calls[Len(calls) - 1].cur - 1
    BY TopFacts DEF SInv
<1>2. /\ At(T) \in Nat /\ F.cur <= At(T) /\ At(T) + 2 <= End /\ End \in Nat
    <2>1. F.cur \in Nat
        BY <1>1 DEF Frame
    <2>3. IsCase
        BY DEF SInv
    <2>4. /\ At(T) \in Nat /\ F.cur <= At(T) /\ At(T) + 2 <= At(T + 1)
          /\ At(T + 1) \in Nat /\ At(T + 1) <= End
        BY <2>1, <2>3, TagFacts DEF T
    <2>5. End \in Nat
        BY <2>3, CaseFacts
    <2> QED BY <2>4, <2>5
<1>3. PICK at \in Nat : at = At(T)
    BY <1>2
<1>4. PICK f : f = [F EXCEPT !.cur = at + 1]
    OBVIOUS
<1>5. PICK g : g = Activation(nc, AnyName, AllNums, at)
    OBVIOUS
<1>6. FrameOK(f) /\ f \in Frame /\ f.start = F.start /\ f.cur = at + 1 /\ (Len(calls) > 1 => Inner(f))
    <2>1. f \in Frame /\ f.cur = at + 1
        <3>1. F \in Frame /\ at + 1 \in Nat
            BY <1>1
        <3> QED BY <3>1, <1>4 DEF Frame
    <2>2. /\ f.start = F.start /\ f.fresh = F.fresh /\ f.rptr = F.rptr
          /\ f.element = F.element /\ f.rv = F.rv /\ f.name = F.name
          /\ f.num = F.num /\ f.len = F.len /\ f.starttag = F.starttag
        BY <1>1, <1>4 DEF Frame
    <2>3. F.start \in Nat /\ F.cur \in Nat /\ F.rptr \in Nat \cup {NoPos} /\ F.rv \in Nat \cup {NoPos}
        BY <1>1 DEF Frame
    <2>4. FrameOK(f)
        BY <2>1, <2>2, <2>3, <1>1, <1>2, <1>3 DEF FrameOK
    <2>5. Len(calls) > 1 => Inner(f)
        BY <2>2, <1>1 DEF Inner
    <2> QED BY <2>1, <2>2, <2>4, <2>5
<1>7. g \in Frame /\ g.start = at /\ FrameOK(g) /\ Inner(g)
    BY <1>2, <1>3, <1>5 DEF Frame, Pattern, FrameOK, Inner, Activation, CellOrNull, NULL, NoPos, AllNums
<1>8. PICK s : s = SetTop(f)
    OBVIOUS
<1>9. Len(calls) \in 1 .. Len(calls)
    BY <1>1
<1>10. /\ s \in Seq(Frame) /\ Len(s) = Len(calls)
       /\ \A j \in 1 .. Len(calls) : s[j] = IF j = Len(calls) THEN f ELSE calls[j]
    BY <1>6, <1>8, <1>9, ExceptSeq DEF SInv, Stack, SetTop
<1>11. /\ calls' \in Seq(Frame) /\ Len(calls') = Len(calls) + 1
       /\ \A j \in 1 .. Len(calls) : calls'[j] = IF j = Len(calls) THEN f ELSE calls[j]
       /\ calls'[Len(calls) + 1] = g
    <2>1. calls' = Append(s, g)
        BY <1>3, <1>4, <1>5, <1>8
    <2>2. /\ Append(s, g) \in Seq(Frame) /\ Len(Append(s, g)) = Len(s) + 1
          /\ \A j \in 1 .. Len(s) : Append(s, g)[j] = s[j]
          /\ Append(s, g)[Len(s) + 1] = g
        BY <1>7, <1>10, AppendProperties
    <2> QED BY <2>1, <2>2, <1>10
<1>12. F' = g /\ calls' # <<>>
    <2>1. Len(calls') = Len(calls) + 1 /\ Len(calls) \in Nat /\ calls'[Len(calls) + 1] = g
        BY <1>1, <1>11
    <2>2. F' = g
        BY <2>1 DEF F
    <2>3. Len(calls') # 0
        BY <2>1
    <2>4. Len(<<>>) = 0
        OBVIOUS
    <2> QED BY <2>2, <2>3, <2>4
<1>13. End' = End
    BY DEF End
<1>14. ASSUME NEW i \in 1 .. Len(calls') PROVE FrameOK(calls[i])'
    <2>1. FrameOK(calls'[i])
        <3>1. CASE i = Len(calls) + 1
            BY <3>1, <1>7, <1>11
        <3>2. CASE i # Len(calls) + 1
            <4>1. i \in 1 .. Len(calls)
                BY <3>2, <1>1, <1>11
            <4> QED BY <4>1, <1>6, <1>11 DEF SInv, Stack
        <3> QED BY <3>1, <3>2
    <2> QED BY <1>13, <2>1 DEF FrameOK
<1>15. ASSUME NEW i \in 2 .. Len(calls')
       PROVE  Inner(calls[i])' /\ calls'[i].start = calls'[i - 1].cur - 1
    <2>0. /\ Len(calls') = Len(calls) + 1 /\ Len(calls) \in Nat
          /\ \A j \in 1 .. Len(calls) : calls'[j] = IF j = Len(calls) THEN f ELSE calls[j]
          /\ calls'[Len(calls) + 1] = g
        BY <1>1, <1>11
    <2>1. Inner(calls'[i]) /\ calls'[i].start = calls'[i - 1].cur - 1
        <3>1. CASE i = Len(calls) + 1
            <4>1. calls'[i - 1] = f /\ calls'[i] = g
                BY <3>1, <1>9, <2>0
            <4>2. f.cur = at + 1 /\ g.start = at /\ Inner(g)
                BY <1>6, <1>7
            <4> QED BY <4>1, <4>2, <1>3
        <3>2. CASE i = Len(calls)
            <4>1. calls'[i - 1] = calls[i - 1] /\ calls'[i] = f /\ Len(calls) > 1
                BY <3>2, <2>0
            <4> QED BY <4>1, <3>2, <1>1, <1>6
        <3>3. CASE i # Len(calls) + 1 /\ i # Len(calls)
            <4>1. /\ i \in 2 .. Len(calls) /\ calls'[i - 1] = calls[i - 1]
                  /\ calls'[i] = calls[i]
                <5>1. i \in 2 .. Len(calls) /\ i - 1 \in 1 .. Len(calls) /\ i - 1 # Len(calls)
                    BY <3>3, <2>0
                <5>2. i \in 1 .. Len(calls)
                    BY <5>1
                <5> QED BY <5>1, <5>2, <3>3, <2>0
            <4> QED BY <4>1 DEF SInv, Stack
        <3> QED BY <3>1, <3>2, <3>3
    <2> QED BY <1>13, <2>1 DEF Inner
<1> QED BY <1>3, <1>5, <1>11, <1>12, <1>14, <1>15 DEF Stack

-----------------------------------------------------------------------------
(* The three ways an activation goes on, returns, or calls. *)

LEMMA DataKept ==
    ASSUME Data, UNCHANGED <<payload, doc>>
    PROVE  Data'
BY DEF Data, End

\* What a tag is does not change.
LEMMA SameText ==
    ASSUME UNCHANGED doc, NEW place, NEW f, PlaceOK(place, f)
    PROVE  PlaceOK(place, f)'
<1>1. \A cur : TagsFrom(cur)' = TagsFrom(cur)
    BY DEF TagsFrom, Kind, At
<1>2. \A cur : NextTag(cur)' = NextTag(cur)
    BY <1>1 DEF NextTag
<1> QED BY <1>1, <1>2 DEF PlaceOK, Kind, IsBlock, At

LEMMA GotoKeeps ==
    ASSUME SInv, calls # <<>>, Keep, NEW label \in Inside1 \cup {"crashed"}, NEW f,
           Goto(label, f), TopOK(f), PlaceOK(label, f), Data'
    PROVE  SInv'
<1>1. UNCHANGED <<doc, mode, req, root, ret>> /\ pc' = label /\ calls' = SetTop(f)
    BY DEF Goto, Keep
<1>2. Stack' /\ calls' # <<>> /\ F' = f
    BY <1>1, TopChanges DEF SInv
<1>3. IsCase'
    BY <1>1 DEF SInv, IsCase
<1>4. label \notin Outside /\ label # "return"
    BY DEF Inside1, Outside
<1>5. Places'
    <2>1. PlaceOK(label, f)'
        BY <1>1, SameText
    <2>2. PlaceOK(pc', F') <=> PlaceOK(label, f)
        BY <1>1, <1>2
    <2> QED BY <1>1, <1>2, <1>4, <2>1 DEF Places
<1>6. Returned'
    BY <1>1, <1>4 DEF SInv, Returned
<1> QED BY <1>1, <1>2, <1>3, <1>5, <1>6 DEF SInv

LEMMA ReturnKeeps ==
    ASSUME SInv, calls # <<>>, Keep, NEW rv \in Nat \cup {NoPos}, NEW buf,
           NEW len, NEW err \in BOOLEAN, NEW num, ReturnWith(rv, buf, len, err, num),
           Len(calls) > 1 /\ rv # NoPos => len \in Nat /\ len <= End - F.start - 1,
           Data'
    PROVE  SInv'
<1>1. /\ UNCHANGED <<doc, mode, req, root>> /\ pc' = "return" /\ calls' = Front(calls)
      /\ ret' = [rv |-> rv, buf |-> buf, len |-> len, err |-> err, num |-> num]
    BY DEF ReturnWith, Keep
<1>2. /\ Stack' /\ Len(calls') = Len(calls) - 1
      /\ calls' # <<>> => Len(calls) > 1 /\ F' = calls[Len(calls) - 1]
    BY <1>1, TopPops DEF SInv
<1>3. IsCase'
    BY <1>1 DEF SInv, IsCase
<1>4. Places'
    BY <1>1 DEF Places, Inside1, Outside
<1>5. Returned'
    <2>1. ret'.err \in BOOLEAN /\ ret'.rv \in Nat \cup {NoPos}
        BY <1>1
    <2>2. ASSUME calls' # <<>>, ret'.rv # NoPos
          PROVE  ret'.len \in Nat /\ F'.cur + ret'.len <= End'
        <3>1. Len(calls) > 1 /\ F' = calls[Len(calls) - 1]
            BY <1>2, <2>2
        <3>2. /\ F.start = calls[Len(calls) - 1].cur - 1
              /\ calls[Len(calls) - 1] \in Frame /\ F \in Frame
            BY <3>1, TopFacts DEF SInv
        <3>3. F'.cur = F.start + 1 /\ F.start \in Nat
            BY <3>1, <3>2 DEF Frame
        <3>4. len \in Nat /\ len <= End - F.start - 1 /\ ret'.len = len
            BY <3>1, <2>2, <1>1
        <3>5. End' = End /\ End \in Nat
            BY <1>1, CaseFacts DEF End, SInv
        <3> QED BY <3>3, <3>4, <3>5
    <2> QED BY <2>1, <2>2 DEF Returned
<1> QED BY <1>1, <1>2, <1>3, <1>4, <1>5 DEF SInv

LEMMA FailKeeps ==
    ASSUME SInv, calls # <<>>, Keep, NEW code, Fail(code), Data'
    PROVE  SInv'
<1>1. PICK buf : buf = F.buf
    OBVIOUS
<1>2. ReturnWith(NoPos, buf, code, TRUE, 0)
    BY <1>1 DEF Fail
<1> QED BY <1>2, ReturnKeeps

LEMMA LeaveKeeps ==
    ASSUME SInv, calls # <<>>, Keep, NEW f, Leave(f), Data',
           f.rv \in Nat \cup {NoPos},
           Len(calls) > 1 /\ f.rv # NoPos =>
              f.len \in Nat /\ f.len <= End - F.start - 1
    PROVE  SInv'
<1>1. CASE Wanted(f)
    <2>1. ReturnWith(f.rv, f.buf, f.len, FALSE, f.found)
        BY <1>1 DEF Leave
    <2> QED BY <2>1, ReturnKeeps
<1>2. CASE ~Wanted(f)
    <2>1. Fail(XML_NODE_NOT_FOUND)
        BY <1>2 DEF Leave
    <2> QED BY <2>1, FailKeeps
<1> QED BY <1>1, <1>2

LEMMA CallKeeps ==
    ASSUME SInv, calls # <<>>, Keep, TagsFrom(F.cur) # {}, Call, Data'
    PROVE  SInv'
<1>1. PICK nc \in CellOrNull : nc = F.nnc
    BY TopFacts DEF SInv, Frame
<1>2. /\ calls' = Append(SetTop([F EXCEPT !.cur = At(T) + 1]),
                         Activation(nc, AnyName, AllNums, At(T)))
      /\ pc' = "enter" /\ UNCHANGED <<doc, mode, req, root, ret>>
    BY <1>1 DEF Call, Keep
<1>3. Stack' /\ calls' # <<>> /\ F' = Activation(nc, AnyName, AllNums, At(T))
    BY <1>2, TopCalls
<1>4. IsCase' /\ Returned'
    BY <1>2 DEF SInv, IsCase, Returned
<1>5. F'.rv = NoPos
    BY <1>3 DEF Activation
<1>6. Places'
    BY <1>2, <1>3, <1>5 DEF Places, PlaceOK, Inside1, Outside
<1> QED BY <1>2, <1>3, <1>4, <1>6 DEF SInv

\* What is known in every activation.
LEMMA Here ==
    ASSUME SInv, calls # <<>>
    PROVE  /\ IsCase /\ Stack /\ Data /\ F \in Frame /\ FrameOK(F)
           /\ F.start \in Nat /\ F.cur \in Nat /\ F.found \in Nat /\ F.len \in Int
           /\ F.rptr \in Nat \cup {NoPos} /\ F.rv \in Nat \cup {NoPos}
           /\ F.nnc \in CellOrNull /\ F.nc \in CellOrNull
           /\ End \in Nat /\ F.cur <= End
           /\ Len(calls) > 1 => Inner(F)
           /\ pc \in Inside1 => PlaceOK(pc, F)
<1>1. IsCase /\ Stack /\ Data /\ (pc \in Inside1 => PlaceOK(pc, F))
    BY DEF SInv, Places
<1>2. F \in Frame /\ FrameOK(F) /\ (Len(calls) > 1 => Inner(F))
    BY <1>1, TopFacts
<1>3. /\ F.start \in Nat /\ F.cur \in Nat /\ F.found \in Nat /\ F.len \in Int
      /\ F.rptr \in Nat \cup {NoPos} /\ F.rv \in Nat \cup {NoPos}
      /\ F.nnc \in CellOrNull /\ F.nc \in CellOrNull
    BY <1>2 DEF Frame
<1>4. End \in Nat /\ F.cur <= End
    BY <1>1, <1>2, CaseFacts DEF FrameOK
<1> QED BY <1>1, <1>2, <1>3, <1>4

\* What is known at a tag.
LEMMA HereTag ==
    ASSUME SInv, calls # <<>>, TagsFrom(F.cur) # {}
    PROVE  /\ T \in DOMAIN doc /\ T \in Nat
           /\ Kind(T) \in Kinds /\ Kind(T) # "text" /\ doc[T].name \in Names
           /\ At(T) \in Nat /\ F.cur <= At(T)
           /\ At(T) + 2 <= At(T + 1) /\ At(T + 1) \in Nat /\ At(T + 1) <= End
           /\ doc[T].name \in Seq(STRING) /\ <<>> \in Names /\ <<>> \in Seq(STRING)
<1>1. F.cur \in Nat /\ IsCase
    BY Here
<1>2. /\ T \in DOMAIN doc /\ T \in Nat
      /\ Kind(T) \in Kinds /\ Kind(T) # "text" /\ doc[T].name \in Names
      /\ At(T) \in Nat /\ F.cur <= At(T)
      /\ At(T) + 2 <= At(T + 1) /\ At(T + 1) \in Nat /\ At(T + 1) <= End
    BY <1>1, TagFacts DEF T
<1>3. Names \subseteq Seq(STRING) /\ <<>> \in Names
    BY <1>1, CaseFacts
<1> QED BY <1>2, <1>3

\* The same activation with its cursor moved on over a tag.
LEMMA HeadOK ==
    ASSUME SInv, calls # <<>>, NEW f, TopOK(f), NEW cur \in Nat,
           f.cur <= cur, F.start < cur, cur <= End, NEW g, g = Head1(f, cur)
    PROVE  TopOK(g) /\ PlaceOK("head", g)
<1>1. f \in Frame /\ f.start = F.start
    BY DEF TopOK, FrameOK
<1>2. <<>> \in Names /\ <<>> \in Pattern
    BY CaseFacts DEF SInv, Pattern
<1>3. g \in Frame
    BY <1>1, <1>2 DEF Frame, Head1
<1>4. /\ g.start = f.start /\ g.cur = cur /\ g.rptr = f.rptr /\ g.rv = f.rv
      /\ g.element = <<>> /\ g.name = f.name /\ g.num = f.num /\ g.len = f.len
      /\ g.starttag = f.starttag
    BY <1>1 DEF Frame, Head1
<1>5. f.cur \in Nat /\ f.rptr \in Nat \cup {NoPos} /\ f.rv \in Nat \cup {NoPos} /\ f.start \in Nat
    BY <1>1 DEF Frame
<1>6. FrameOK(g)
    BY <1>1, <1>2, <1>3, <1>4, <1>5 DEF TopOK, FrameOK, NoPos
<1>7. Len(calls) > 1 => Inner(g)
    BY <1>4 DEF TopOK, Inner
<1> QED BY <1>1, <1>4, <1>6, <1>7 DEF TopOK, PlaceOK

LEMMA MovedOK ==
    ASSUME SInv, calls # <<>>, NEW cur \in Nat, F.cur <= cur, cur <= End,
           NEW f, f = [F EXCEPT !.cur = cur]
    PROVE  TopOK(f) /\ f.start = F.start /\ f.cur = cur
<1>1. /\ F \in Frame /\ FrameOK(F) /\ (Len(calls) > 1 => Inner(F))
      /\ F.start \in Nat /\ F.cur \in Nat
      /\ F.rptr \in Nat \cup {NoPos} /\ F.rv \in Nat \cup {NoPos}
    BY Here
<1>2. f \in Frame /\ f.cur = cur
    BY <1>1 DEF Frame
<1>3. /\ f.start = F.start /\ f.rptr = F.rptr /\ f.rv = F.rv /\ f.fresh = F.fresh
      /\ f.element = F.element /\ f.name = F.name /\ f.num = F.num /\ f.len = F.len
      /\ f.starttag = F.starttag
    BY <1>1 DEF Frame
<1>4. FrameOK(f)
    BY <1>1, <1>2, <1>3 DEF FrameOK
<1>5. Len(calls) > 1 => Inner(f)
    BY <1>1, <1>3 DEF Inner
<1> QED BY <1>2, <1>3, <1>4, <1>5 DEF TopOK

-----------------------------------------------------------------------------
(* What the steps do to the data of the cells. *)

LEMMA QuietKeeps ==
    ASSUME SInv, Quiet
    PROVE  Keep /\ Data'
<1>1. UNCHANGED <<payload, doc>>
    BY DEF Quiet, Keep, cacheVars, treeVars
<1> QED BY <1>1, DataKept DEF SInv, Quiet

LEMMA LevelKeepsData ==
    ASSUME SInv, Keep, NEW nc, cacheInitLevel(nc)
    PROVE  Data'
<1>1. UNCHANGED <<payload, doc>>
    BY DEF Keep, cacheInitLevel, cacheVars, treeVars
<1> QED BY <1>1, DataKept DEF SInv

LEMMA NodeKeepsData ==
    ASSUME SInv, Keep, NEW nc, NEW rv, cacheNodeNew(nc, rv)
    PROVE  Data'
<1>1. UNCHANGED <<payload, doc>>
    BY DEF Keep, cacheNodeNew, ReallocFails, StoreAstray, StoreNode, cacheVars, treeVars
<1> QED BY <1>1, DataKept DEF SInv

LEMMA SetKeepsData ==
    ASSUME SInv, Keep, NEW nc \in CellOrNull, NEW p \in Sections,
           p.from + p.len <= End, cacheDataSet(nc, p)
    PROVE  Data'
<1>1. payload' = IF nc = NULL THEN payload ELSE [payload EXCEPT ![nc] = p]
    BY DEF cacheDataSet
<1>2. End' = End
    BY DEF Keep, End
<1>3. nc # NULL => nc \in Cells
    BY DEF CellOrNull
<1>4. payload' \in [Cells -> Sections \cup {Blank}]
    BY <1>1, <1>3 DEF SInv, Data
<1>5. ASSUME NEW n \in Cells, payload'[n] # Blank
      PROVE  payload'[n].from + payload'[n].len <= End
    BY <1>1, <1>3, <1>5 DEF SInv, Data
<1> QED BY <1>2, <1>4, <1>5 DEF Data

\* A section between two places of the text.
LEMMA SectionType ==
    ASSUME IsCase, NEW name \in Names, NEW from \in Nat, NEW to \in Nat,
           from <= to, to <= End
    PROVE  [name |-> name, from |-> from, len |-> to - from] \in Sections
<1>1. End \in Nat /\ MaxSize \in Nat /\ End <= MaxSize
    BY CaseFacts
<1>2. from \in 0 .. MaxSize /\ to - from \in 0 .. MaxSize /\ from + (to - from) <= MaxSize
    BY <1>1
<1> QED BY <1>2 DEF Sections

-----------------------------------------------------------------------------
(* One lemma per step. *)

LEMMA StartKeeps == SInv /\ Start => SInv'
<1> SUFFICES ASSUME SInv, Start PROVE SInv'
    OBVIOUS
<1>1. PICK rv \in CellOrNull :
         /\ IF cached THEN cacheInit(rv) ELSE rv = NULL /\ UNCHANGED cacheVars
         /\ root' = rv
         /\ calls' = <<Activation(rv, req.name, req.num, 0)>>
    BY DEF Start
<1>2. pc' = "enter" /\ UNCHANGED <<doc, mode, req, ret, payload>>
    BY <1>1 DEF Start, cacheInit, cacheVars, treeVars
<1>3. PICK g : g = Activation(rv, req.name, req.num, 0)
    OBVIOUS
<1>4. /\ End \in Nat /\ req.name \in Seq(STRING) /\ req.num \in Nat \cup {AllNums}
    BY CaseFacts DEF SInv
<1>5. g \in Frame
    BY <1>3, <1>4 DEF Activation, Frame, Pattern, CellOrNull, NoPos, NULL
<1>6. FrameOK(g) /\ g.rv = NoPos
    BY <1>3, <1>4, <1>5 DEF FrameOK, Activation, NoPos
<1>7. calls' = <<g>> /\ calls' \in Seq(Frame) /\ Len(calls') = 1 /\ calls'[1] = g /\ calls' # <<>>
    BY <1>1, <1>3, <1>5
<1>8. End' = End
    BY <1>2 DEF End
<1>9. Stack'
    <2>1. \A i \in 1 .. Len(calls') : FrameOK(calls'[i])
        BY <1>6, <1>7
    <2>2. \A i \in 1 .. Len(calls') : FrameOK(calls[i])'
        BY <2>1, <1>8 DEF FrameOK
    <2> QED BY <1>7, <2>2 DEF Stack
<1>10. F' = g
    BY <1>7 DEF F
<1>11. Places'
    BY <1>2, <1>6, <1>7, <1>10 DEF Places, PlaceOK, Inside1, Outside
<1>12. IsCase' /\ Returned' /\ Data'
    BY <1>2, DataKept DEF SInv, IsCase, Returned
<1> QED BY <1>1, <1>9, <1>11, <1>12 DEF SInv

LEMMA EnterKeeps == SInv /\ (EnterTooShort \/ Enter) => SInv'
<1> SUFFICES ASSUME SInv, EnterTooShort \/ Enter PROVE SInv'
    OBVIOUS
<1>1. pc = "enter" /\ calls # <<>> /\ F.rv = NoPos
    BY DEF SInv, Places, PlaceOK, Inside1, EnterTooShort, Enter
<1>2. F \in Frame /\ FrameOK(F) /\ (Len(calls) > 1 => Inner(F))
    BY <1>1, Here
<1>3. CASE EnterTooShort
    <2>1. PICK f : f = [F EXCEPT !.len = End - F.start]
        OBVIOUS
    <2>2. f.rv = NoPos
        BY <2>1, <1>1, <1>2 DEF Frame
    <2>3. Leave(f) /\ Keep /\ Data'
        BY <1>3, <2>1, QuietKeeps DEF EnterTooShort, Quiet
    <2> QED BY <1>1, <2>2, <2>3, LeaveKeeps
<1>4. CASE Enter
    <2>1. PICK f : f = F
        OBVIOUS
    <2>2. TopOK(f) /\ PlaceOK("head", f)
        BY <2>1, <1>2 DEF TopOK, PlaceOK
    <2>3. Goto("head", f) /\ Keep /\ Data'
        BY <1>4, <2>1, LevelKeepsData DEF Enter
    <2> QED BY <1>1, <2>2, <2>3, GotoKeeps DEF Inside1
<1> QED BY <1>3, <1>4

LEMMA NoMoreTagsKeeps == SInv /\ NoMoreTags => SInv'
<1> SUFFICES ASSUME SInv, NoMoreTags PROVE SInv'
    OBVIOUS
<1>1. calls # <<>> /\ Leave(F) /\ Keep /\ Data'
    BY QuietKeeps DEF SInv, Places, Inside1, NoMoreTags
<1>2. PICK f : f = F
    OBVIOUS
<1>3. /\ f.rv \in Nat \cup {NoPos}
      /\ Len(calls) > 1 => f.len \in Nat /\ f.len <= End - F.start - 1
    BY <1>1, <1>2, Here DEF Inner
<1> QED BY <1>1, <1>2, <1>3, LeaveKeeps

LEMMA EndOfSubsectionKeeps == SInv /\ EndOfSubsection => SInv'
<1> SUFFICES ASSUME SInv, EndOfSubsection PROVE SInv'
    OBVIOUS
<1>1. calls # <<>> /\ TagsFrom(F.cur) # {} /\ Keep /\ Data'
    BY QuietKeeps DEF SInv, Places, Inside1, EndOfSubsection, AtTag
<1>2. PICK rv, buf, len : rv = F.rv /\ buf = F.buf /\ len = At(T) - F.start - 1
    OBVIOUS
<1>3. ReturnWith(rv, buf, len, FALSE, 0)
    BY <1>2 DEF EndOfSubsection
<1>4. rv \in Nat \cup {NoPos}
    BY <1>1, <1>2, Here
<1>5. rv # NoPos => len \in Nat /\ len <= End - F.start - 1
    <2>1. At(T) \in Nat /\ F.cur <= At(T) /\ At(T) + 2 <= At(T + 1) /\ At(T + 1) <= End /\ At(T + 1) \in Nat
        BY <1>1, HereTag
    <2>2. F.rv # NoPos => F.start < F.rv /\ F.rv <= F.cur
        BY <1>1, Here DEF FrameOK
    <2>3. F.start \in Nat /\ F.cur \in Nat /\ F.rv \in Nat \cup {NoPos} /\ End \in Nat
        BY <1>1, Here
    <2> QED BY <2>1, <2>2, <2>3, <1>2
<1> QED BY <1>1, <1>3, <1>4, <1>5, ReturnKeeps

\* The errors of the head, and behind an opening tag.
LEMMA FailuresKeep ==
    SInv /\ (CloseBeforeOpen \/ BlockCutOff \/ ContentEnds \/ ContentCutOff \/ Unwind) => SInv'
<1> SUFFICES ASSUME SInv,
                    CloseBeforeOpen \/ BlockCutOff \/ ContentEnds \/ ContentCutOff \/ Unwind
             PROVE  SInv'
    OBVIOUS
<1>1. calls # <<>>
    BY DEF SInv, Places, Inside1, CloseBeforeOpen, BlockCutOff, ContentEnds,
           ContentCutOff, Unwind, AtTag, InContent
<1>2. Quiet /\ \E code : Fail(code)
    BY DEF CloseBeforeOpen, BlockCutOff, ContentEnds, ContentCutOff, Unwind
<1> QED BY <1>1, <1>2, QuietKeeps, FailKeeps

\* At a closing tag: the scan stays there to look at it.
LEMMA ToClosingKeeps == SInv /\ (ElementCloses \/ ContentClose) => SInv'
<1> SUFFICES ASSUME SInv, ElementCloses \/ ContentClose PROVE SInv'
    OBVIOUS
<1>1. /\ calls # <<>> /\ TagsFrom(F.cur) # {} /\ Keep /\ Data' /\ Kind(T) = "close"
      /\ Goto("closing", [F EXCEPT !.cur = At(T)])
    BY QuietKeeps DEF SInv, Places, Inside1, ElementCloses, ContentClose, AtTag, InContent
<1>2. F.start < F.cur
    <2>1. pc \in {"content", "afterblock"} \/ ~F.fresh
        BY DEF ElementCloses, ContentClose, InContent
    <2>2. CASE pc \in {"content", "afterblock"}
        BY <2>2, <1>1, Here DEF PlaceOK, Inside1
    <2>3. CASE ~F.fresh
        BY <2>3, <1>1, Here DEF FrameOK
    <2> QED BY <2>1, <2>2, <2>3
<1>3. PICK at \in Nat : at = At(T)
    BY <1>1, HereTag
<1>4. PICK f : f = [F EXCEPT !.cur = at]
    OBVIOUS
<1>5. F.cur <= at /\ at <= End
    <2>1. F.cur <= At(T) /\ At(T) + 2 <= At(T + 1) /\ At(T + 1) <= End /\ At(T + 1) \in Nat /\ End \in Nat
        BY <1>1, HereTag, Here
    <2> QED BY <2>1, <1>3
<1>6. TopOK(f) /\ f.start = F.start /\ f.cur = at
    BY <1>1, <1>4, <1>5, MovedOK
<1>7. TagsFrom(at) # {} /\ NextTag(at) = T
    BY <1>1, <1>3, Here, TagAgain DEF T
<1>8. F.start < at
    BY <1>1, <1>2, <1>3, <1>5, Here
<1>9. PlaceOK("closing", f)
    BY <1>1, <1>3, <1>6, <1>7, <1>8 DEF PlaceOK
<1> QED BY <1>1, <1>3, <1>4, <1>6, <1>9, GotoKeeps DEF Inside1

\* A block is passed over, with or without a cell.
LEMMA BlockKeeps == SInv /\ (BlockSkipped \/ BlockData) => SInv'
<1> SUFFICES ASSUME SInv, BlockSkipped \/ BlockData PROVE SInv'
    OBVIOUS
<1>1. calls # <<>> /\ TagsFrom(F.cur) # {} /\ IsBlock(T) /\ Keep
    BY Here DEF SInv, Places, PlaceOK, Inside1, BlockSkipped, BlockData, AtTag, Quiet, T
<1>2. /\ IsCase /\ T \in DOMAIN doc /\ At(T) \in Nat /\ F.cur <= At(T)
      /\ F.start \in Nat /\ F.cur \in Nat /\ F.start <= F.cur
    BY <1>1, Here, HereTag DEF FrameOK
<1>3. /\ BlockEnd(T) \in Nat /\ At(T) < BlockEnd(T) /\ BlockEnd(T) <= End
      /\ BlockSection(T) \in Sections
      /\ BlockSection(T).from + BlockSection(T).len <= End
    BY <1>1, <1>2, BlockFacts
<1>4. PICK cur \in Nat : cur = BlockEnd(T)
    BY <1>3
<1>5. PICK f : f = F
    OBVIOUS
<1>6. PICK g : g = Head1(f, cur)
    OBVIOUS
<1>7. TopOK(f) /\ f.cur = F.cur
    BY <1>1, <1>5, Here DEF TopOK
<1>8. F.cur <= cur /\ F.start < cur /\ cur <= End
    BY <1>2, <1>3, <1>4
<1>9. TopOK(g) /\ PlaceOK("head", g)
    BY <1>1, <1>6, <1>7, <1>8, HeadOK
<1>10. Goto("head", g)
    BY <1>4, <1>5, <1>6 DEF BlockSkipped, BlockData
<1>11. Data'
    <2>1. CASE BlockSkipped
        BY <2>1, QuietKeeps DEF BlockSkipped
    <2>2. CASE BlockData
        <3>1. PICK nc \in CellOrNull : nc = F.nnc
            BY <1>1, Here
        <3>2. PICK p \in Sections : p = BlockSection(T)
            BY <1>3
        <3>3. cacheDataSet(nc, p) /\ p.from + p.len <= End
            BY <2>2, <3>1, <3>2, <1>3 DEF BlockData
        <3> QED BY <1>1, <3>3, SetKeepsData
    <2> QED BY <2>1, <2>2
<1> QED BY <1>1, <1>9, <1>10, <1>11, GotoKeeps DEF Inside1

\* An activation with another nnc.
LEMMA CellOK ==
    ASSUME SInv, calls # <<>>, NEW f, TopOK(f), NEW rv \in CellOrNull,
           NEW g, g = WithCell(f, rv)
    PROVE  /\ TopOK(g) /\ g.start = f.start /\ g.cur = f.cur /\ g.rptr = f.rptr
           /\ g.nnc = rv
<1>1. f \in Frame
    BY DEF TopOK, FrameOK
<1>2. g \in Frame /\ g.nnc = rv
    BY <1>1 DEF Frame, WithCell
<1>3. /\ g.start = f.start /\ g.cur = f.cur /\ g.rptr = f.rptr /\ g.rv = f.rv
      /\ g.fresh = f.fresh /\ g.element = f.element /\ g.name = f.name /\ g.num = f.num
      /\ g.len = f.len /\ g.starttag = f.starttag
    BY <1>1 DEF Frame, WithCell
<1>4. FrameOK(g) /\ (Len(calls) > 1 => Inner(g))
    BY <1>2, <1>3 DEF TopOK, FrameOK, Inner
<1> QED BY <1>2, <1>3, <1>4 DEF TopOK

\* One more element was found.
LEMMA FoundOK ==
    ASSUME SInv, calls # <<>>, NEW f, TopOK(f), NEW g, g = [f EXCEPT !.found = @ + 1]
    PROVE  TopOK(g) /\ g.start = f.start /\ g.cur = f.cur
<1>1. f \in Frame /\ f.found \in Nat
    BY DEF TopOK, FrameOK, Frame
<1>2. g \in Frame
    BY <1>1 DEF Frame
<1>3. /\ g.start = f.start /\ g.cur = f.cur /\ g.rptr = f.rptr /\ g.rv = f.rv
      /\ g.fresh = f.fresh /\ g.element = f.element /\ g.name = f.name /\ g.num = f.num
      /\ g.len = f.len /\ g.starttag = f.starttag
    BY <1>1 DEF Frame
<1>4. FrameOK(g) /\ (Len(calls) > 1 => Inner(g))
    BY <1>2, <1>3 DEF TopOK, FrameOK, Inner
<1> QED BY <1>3, <1>4 DEF TopOK

LEMMA BlockNodeKeeps == SInv /\ BlockNode => SInv'
<1> SUFFICES ASSUME SInv, BlockNode PROVE SInv'
    OBVIOUS
<1>1. calls # <<>> /\ TagsFrom(F.cur) # {} /\ IsBlock(T) /\ Keep
    BY DEF SInv, Places, Inside1, BlockNode, AtTag
<1>2. PICK rv \in CellOrNull :
         /\ cacheNodeNew(F.nc, rv)
         /\ Goto(IF fault' THEN "crashed" ELSE "blockdata", WithCell(F, rv))
    BY DEF BlockNode
<1>3. PICK f, g : f = F /\ g = WithCell(f, rv)
    OBVIOUS
<1>4. TopOK(f)
    BY <1>1, <1>3, Here DEF TopOK
<1>5. TopOK(g) /\ g.cur = F.cur
    BY <1>1, <1>3, <1>4, CellOK
<1>6. PICK label \in {"crashed", "blockdata"} : Goto(label, g)
    BY <1>2, <1>3
<1>7. PlaceOK(label, g)
    BY <1>1, <1>5 DEF PlaceOK, T
<1>8. Data'
    BY <1>1, <1>2, NodeKeepsData
<1> QED BY <1>1, <1>5, <1>6, <1>7, <1>8, GotoKeeps DEF Inside1

LEMMA TagCutOffKeeps == SInv /\ TagCutOff => SInv'
<1> SUFFICES ASSUME SInv, TagCutOff PROVE SInv'
    OBVIOUS
<1>1. calls # <<>> /\ Keep /\ Data'
    BY QuietKeeps DEF SInv, Places, Inside1, TagCutOff, AtTag
<1>2. PICK f : f = [F EXCEPT !.element = doc[T].name, !.fresh = FALSE]
    OBVIOUS
<1>3. Leave(f)
    BY <1>2 DEF TagCutOff
<1>4. F \in Frame /\ F.rv \in Nat \cup {NoPos} /\ F.len \in Int
      /\ (Len(calls) > 1 => Inner(F))
    BY <1>1, Here
<1>5. f.rv = F.rv /\ f.len = F.len
    BY <1>2, <1>4 DEF Frame
<1>6. Len(calls) > 1 => f.len \in Nat /\ f.len <= End - F.start - 1
    BY <1>4, <1>5 DEF Inner
<1> QED BY <1>1, <1>3, <1>4, <1>5, <1>6, LeaveKeeps

\* The opening tag is taken in: its end and, when it is the one that is asked
\* for, where its text begins.
LEMMA ElementFoundKeeps == SInv /\ ElementFound => SInv'
<1> SUFFICES ASSUME SInv, ElementFound PROVE SInv'
    OBVIOUS
<1>1. calls # <<>> /\ TagsFrom(F.cur) # {} /\ Keep
    BY DEF SInv, Places, Inside1, ElementFound, AtTag
<1>2. /\ F \in Frame /\ FrameOK(F) /\ (Len(calls) > 1 => Inner(F))
      /\ F.start \in Nat /\ F.cur \in Nat
      /\ F.rptr \in Nat \cup {NoPos} /\ F.rv \in Nat \cup {NoPos}
    BY <1>1, Here
<1>3. /\ doc[T].name \in Names /\ doc[T].name \in Pattern
      /\ At(T + 1) \in Nat /\ F.cur + 2 <= At(T + 1) /\ At(T + 1) <= End
    <2>1. /\ doc[T].name \in Names /\ doc[T].name \in Seq(STRING)
          /\ At(T) \in Nat /\ F.cur <= At(T) /\ At(T) + 2 <= At(T + 1)
          /\ At(T + 1) \in Nat /\ At(T + 1) <= End
        BY <1>1, HereTag
    <2> QED BY <2>1, <1>2 DEF Pattern
<1>4. PICK name, next : name = doc[T].name /\ next = At(T + 1)
    OBVIOUS
<1>5. PICK f : f = [F EXCEPT !.element = name, !.fresh = FALSE, !.cur = next,
                             !.rptr = IF Kind(T) = "self" THEN next - 1 ELSE next]
    OBVIOUS
<1>6. PICK seen : seen = [f EXCEPT !.rv = IF Wanted(F) THEN next ELSE @,
                                   !.buf = IF Wanted(F) THEN next ELSE @,
                                   !.starttag = Wanted(F)]
    OBVIOUS
<1>7. PICK rv \in CellOrNull :
         /\ cacheNodeNew(F.nc, rv)
         /\ IF fault' THEN Goto("crashed", WithCell(f, rv))
            ELSE IF Kind(T) = "self" THEN Goto("selfdata", WithCell(f, rv))
            ELSE Goto("content", WithCell(seen, rv))
    BY <1>4, <1>5, <1>6 DEF ElementFound
<1>8. next \in Nat /\ F.cur + 2 <= next /\ next <= End /\ name \in Names /\ name \in Pattern
    BY <1>3, <1>4
<1>9. TopOK(f) /\ f \in Frame /\ f.start = F.start /\ f.cur = next /\ f.rptr # NoPos
    <2>1. f \in Frame
        <3>1. PICK e \in Nat : e = IF Kind(T) = "self" THEN next - 1 ELSE next
            BY <1>2, <1>8
        <3>2. f = [F EXCEPT !.element = name, !.fresh = FALSE, !.cur = next, !.rptr = e]
            BY <1>5, <3>1
        <3>3. F \in Frame
            BY <1>2
        <3> QED BY <3>2, <3>3, <1>8 DEF Frame
    <2>2. /\ f.start = F.start /\ f.cur = next /\ f.rptr \in {next - 1, next}
          /\ f.rv = F.rv /\ f.element = name /\ f.name = F.name /\ f.num = F.num
          /\ f.len = F.len /\ f.starttag = F.starttag
        BY <1>2, <1>5 DEF Frame
    <2>3. FrameOK(f)
        BY <2>1, <2>2, <1>2, <1>8 DEF FrameOK
    <2>4. Len(calls) > 1 => Inner(f)
        BY <2>2, <1>2 DEF Inner
    <2>5. f.rptr # NoPos
        BY <2>2, <1>2, <1>8 DEF NoPos
    <2> QED BY <2>1, <2>2, <2>3, <2>4, <2>5 DEF TopOK
<1>10. TopOK(seen) /\ seen.start = F.start /\ seen.cur = next
    <2>1. Wanted(F) \in BOOLEAN
        BY DEF Wanted
    <2>2. seen \in Frame
        <3>1. CASE Wanted(F)
            <4>1. f.buf \in Int /\ next \in Int
                BY <1>8, <1>9 DEF Frame
            <4>2. seen = [f EXCEPT !.rv = next, !.buf = next, !.starttag = TRUE]
                BY <3>1, <1>6
            <4> QED BY <4>1, <4>2, <1>8, <1>9 DEF Frame
        <3>2. CASE ~Wanted(F)
            <4>1. f.rv \in Nat \cup {NoPos} /\ f.buf \in Int
                BY <1>9 DEF Frame
            <4>3. Wanted(F) = FALSE
                BY <3>2, <2>1
            <4>2. seen = [f EXCEPT !.rv = f.rv, !.buf = f.buf, !.starttag = FALSE]
                BY <4>3, <1>6
            <4> QED BY <4>1, <4>2, <1>9 DEF Frame
        <3> QED BY <3>1, <3>2
    <2>3. /\ seen.start = f.start /\ seen.cur = f.cur /\ seen.rptr = f.rptr
          /\ seen.rv = (IF Wanted(F) THEN next ELSE f.rv) /\ seen.fresh = f.fresh
          /\ seen.element = f.element /\ seen.name = f.name /\ seen.num = f.num
          /\ seen.len = f.len /\ seen.starttag = Wanted(F)
        BY <1>6, <1>9 DEF Frame
    <2>4. next # NoPos
        BY <1>8 DEF NoPos
    <2>5. FrameOK(seen)
        BY <2>2, <2>3, <1>2, <1>8, <1>9 DEF FrameOK, TopOK
    <2>6. Len(calls) > 1 => Inner(seen)
        BY <2>1, <2>3, <2>4, <1>9 DEF Inner, TopOK
    <2> QED BY <2>3, <2>5, <2>6, <1>9 DEF TopOK
<1>11. PICK g : g = WithCell(f, rv)
    OBVIOUS
<1>12. PICK h : h = WithCell(seen, rv)
    OBVIOUS
<1>13. TopOK(g) /\ g.start = F.start /\ g.cur = next /\ g.rptr # NoPos
    BY <1>1, <1>9, <1>11, CellOK
<1>14. TopOK(h) /\ h.start = F.start /\ h.cur = next
    BY <1>1, <1>10, <1>12, CellOK
<1>15. F.start < next
    BY <1>2, <1>8 DEF FrameOK
<1>16. PlaceOK("crashed", g) /\ PlaceOK("selfdata", g) /\ PlaceOK("content", h)
    BY <1>13, <1>14, <1>15 DEF PlaceOK
<1>17. Data'
    BY <1>1, <1>7, NodeKeepsData
<1>18. \/ Goto("crashed", g) \/ Goto("selfdata", g) \/ Goto("content", h)
    BY <1>7, <1>11, <1>12
<1> QED BY <1>1, <1>13, <1>14, <1>16, <1>17, <1>18, GotoKeeps DEF Inside1

\* An empty element: its cell, and the scan goes on behind it or is over.
LEMMA SelfDataKeeps == SInv /\ SelfData => SInv'
<1> SUFFICES ASSUME SInv, SelfData PROVE SInv'
    OBVIOUS
<1>1. calls # <<>> /\ Keep /\ pc = "selfdata"
    BY DEF SInv, Places, Inside1, SelfData
<1>2. /\ F \in Frame /\ FrameOK(F) /\ (Len(calls) > 1 => Inner(F))
      /\ F.start \in Nat /\ F.cur \in Nat /\ F.found \in Nat /\ F.cur <= End /\ End \in Nat
      /\ F.rptr \in Nat \cup {NoPos} /\ F.rv \in Nat \cup {NoPos} /\ IsCase
      /\ F.rptr # NoPos /\ F.start < F.cur
    <2>1. PlaceOK(pc, F)
        BY <1>1, Here DEF Inside1
    <2> QED BY <1>1, <2>1, Here DEF PlaceOK
<1>3. Data'
    <2>1. F.rptr \in Nat /\ F.rptr <= F.cur /\ F.element \in Names
        BY <1>2 DEF FrameOK
    <2>2. PICK from \in Nat, name \in Names : from = F.rptr /\ name = F.element
        BY <2>1
    <2>8. PICK to \in Nat : to = from
        OBVIOUS
    <2>3. PICK p : p = [name |-> name, from |-> from, len |-> to - from]
        OBVIOUS
    <2>7. p \in Sections /\ p.from + p.len <= End
        <3>1. from <= to /\ to <= End
            BY <1>2, <2>1, <2>2, <2>8
        <3>2. p \in Sections
            BY <1>2, <2>3, <3>1, SectionType
        <3>3. p.from = from /\ p.len = 0
            BY <2>3, <2>8
        <3> QED BY <3>1, <3>2, <3>3, <2>8
    <2>4. PICK nc \in CellOrNull : nc = F.nnc
        BY <1>1, Here
    <2>5. p = [name |-> F.element, from |-> F.rptr, len |-> 0]
        BY <2>1, <2>2, <2>3, <2>8
    <2>6. cacheDataSet(nc, p)
        BY <2>4, <2>5 DEF SelfData
    <2> QED BY <1>1, <2>6, <2>7, SetKeepsData
<1>4. PICK f : f = IF Wanted(F) THEN [F EXCEPT !.rv = F.cur, !.buf = F.cur, !.len = 0] ELSE F
    OBVIOUS
<1>5. /\ TopOK(f) /\ f.cur = F.cur /\ f.found = F.found /\ f \in Frame
      /\ Wanted(F) => f.rv \in Nat /\ f.len = 0
    <2>1. CASE ~Wanted(F)
        BY <2>1, <1>2, <1>4 DEF TopOK
    <2>2. CASE Wanted(F)
        <3>1. f \in Frame /\ f.found = F.found
            <4>1. 0 \in Int /\ F.cur \in Int
                BY <1>2
            <4> QED BY <2>2, <4>1, <1>2, <1>4 DEF Frame
        <3>2. /\ f.start = F.start /\ f.cur = F.cur /\ f.rptr = F.rptr /\ f.rv = F.cur
              /\ f.fresh = F.fresh /\ f.element = F.element /\ f.name = F.name
              /\ f.num = F.num /\ f.len = 0 /\ f.starttag = F.starttag
            BY <2>2, <1>2, <1>4 DEF Frame
        <3>3. FrameOK(f)
            BY <3>1, <3>2, <1>2 DEF FrameOK
        <3>4. F.cur # NoPos
            BY <1>2 DEF NoPos
        <3>5. Len(calls) > 1 => Inner(f)
            BY <3>2, <3>4, <1>2 DEF Inner
        <3> QED BY <3>1, <3>2, <3>3, <3>5, <1>2 DEF TopOK
    <2> QED BY <2>1, <2>2
<1>6. CASE Wanted(F) /\ F.num # AllNums
    <2>1. Leave(f)
        BY <1>4, <1>6 DEF SelfData
    <2>2. Len(calls) > 1 => f.len \in Nat /\ f.len <= End - F.start - 1
        BY <1>2, <1>5, <1>6 DEF Inner
    <2> QED BY <1>1, <1>3, <1>5, <1>6, <2>1, <2>2, LeaveKeeps
<1>7. CASE ~(Wanted(F) /\ F.num # AllNums)
    <2>1. PICK cur \in Nat : cur = F.cur
        BY <1>2
    <2>2. PICK h : h = [f EXCEPT !.found = @ + 1]
        OBVIOUS
    <2>3. PICK g : g = Head1(h, cur)
        OBVIOUS
    <2>4. Goto("head", g)
        BY <1>4, <1>7, <2>1, <2>2, <2>3 DEF SelfData
    <2>5. TopOK(h) /\ h.cur = cur
        BY <1>1, <1>2, <1>5, <2>1, <2>2, FoundOK
    <2>6. TopOK(g) /\ PlaceOK("head", g)
        BY <1>1, <1>2, <2>1, <2>3, <2>5, HeadOK
    <2> QED BY <1>1, <1>3, <2>4, <2>6, GotoKeeps DEF Inside1
<1> QED BY <1>6, <1>7

\* Inside the outermost activation every name matches, and a tag is longer than
\* the name "*".
LEMMA InnerMatches ==
    ASSUME SInv, calls # <<>>, TagsFrom(F.cur) # {}, Len(calls) > 1
    PROVE  Matches(F.name, doc[T].name) /\ At(T) + 1 + Len(F.name) <= End
<1>1. F.name = AnyName /\ Len(AnyName) = 1
    BY Here DEF Inner, AnyName
<1>2. At(T) \in Nat /\ At(T) + 2 <= At(T + 1) /\ At(T + 1) <= End /\ At(T + 1) \in Nat /\ End \in Nat
    BY HereTag, Here
<1> QED BY <1>1, <1>2 DEF Matches

\* Another name is passed over: only the outermost activation does it.
LEMMA ElementOtherKeeps == SInv /\ (ElementOther \/ ElementTooLong) => SInv'
<1> SUFFICES ASSUME SInv, ElementOther \/ ElementTooLong PROVE SInv'
    OBVIOUS
<1>1. calls # <<>> /\ TagsFrom(F.cur) # {} /\ Keep /\ Data'
    BY QuietKeeps DEF SInv, Places, Inside1, ElementOther, ElementTooLong, AtTag
<1>2. /\ F \in Frame /\ FrameOK(F) /\ F.start \in Nat /\ F.cur \in Nat /\ End \in Nat
    BY <1>1, Here
<1>3. Len(calls) \in Nat /\ ~(Len(calls) > 1)
    <2>1. Len(calls) \in Nat
        BY <1>1, TopFacts DEF SInv
    <2>2. Len(calls) > 1 => Matches(F.name, doc[T].name) /\ At(T) + 1 + Len(F.name) <= End
        BY <1>1, InnerMatches
    <2>3. F.name = AnyName \/ F.name \in Seq(STRING)
        BY <1>2 DEF Frame, Pattern
    <2>4. Len(F.name) \in Nat
        BY <2>3, LenProperties DEF AnyName
    <2>5. At(T) \in Nat
        BY <1>1, HereTag
    <2> QED BY <2>1, <2>2, <2>4, <2>5, <1>2 DEF ElementOther, ElementTooLong
<1>4. /\ doc[T].name \in Names /\ doc[T].name \in Seq(STRING)
      /\ At(T) \in Nat /\ F.cur <= At(T) /\ At(T) + 2 <= At(T + 1)
      /\ At(T + 1) \in Nat /\ At(T + 1) <= End
    BY <1>1, HereTag
<1>5. PICK name, next : name = doc[T].name /\ next = At(T + 1)
    OBVIOUS
<1>6. next \in Nat /\ F.cur < next /\ F.start < next /\ next <= End /\ name \in Pattern
    BY <1>2, <1>4, <1>5 DEF FrameOK, Pattern
<1>7. CASE ElementOther
    <2>1. PICK f : f = [F EXCEPT !.element = name, !.fresh = FALSE, !.cur = next,
                                 !.rptr = NoPos, !.rv = NoPos, !.buf = NoPos, !.len = 0]
        OBVIOUS
    <2>2. f \in Frame
        <3>1. NoPos \in Int /\ 0 \in Int
            BY DEF NoPos
        <3> QED BY <2>1, <3>1, <1>2, <1>6 DEF Frame
    <2>3. f.start = F.start /\ f.cur = next /\ f.rptr = NoPos /\ f.rv = NoPos
        BY <2>1, <1>2 DEF Frame
    <2>4. TopOK(f)
        BY <2>2, <2>3, <1>2, <1>3, <1>6 DEF TopOK, FrameOK
    <2>5. Goto("head", Head1(f, f.cur)) \/ Goto("content", f)
        BY <2>1, <1>5, <1>7 DEF ElementOther
    <2>6. CASE Goto("content", f)
        <3>1. PlaceOK("content", f)
            BY <2>3, <1>6 DEF PlaceOK
        <3> QED BY <3>1, <2>4, <2>6, <1>1, GotoKeeps DEF Inside1
    <2>7. CASE Goto("head", Head1(f, f.cur))
        <3>1. PICK g : g = Head1(f, next)
            OBVIOUS
        <3>2. TopOK(g) /\ PlaceOK("head", g)
            BY <3>1, <2>3, <2>4, <1>1, <1>2, <1>6, HeadOK
        <3> QED BY <3>1, <3>2, <2>3, <2>7, <1>1, GotoKeeps DEF Inside1
    <2> QED BY <2>5, <2>6, <2>7
<1>8. CASE ElementTooLong
    <2>1. PICK at \in Nat : at = At(T)
        BY <1>4
    <2>2. PICK f : f = [F EXCEPT !.element = F.name, !.fresh = TRUE, !.cur = at + 1,
                                 !.rptr = NoPos, !.rv = NoPos, !.buf = NoPos, !.len = 0]
        OBVIOUS
    <2>3. f \in Frame
        <3>1. NoPos \in Int /\ 0 \in Int /\ at + 1 \in Nat
            BY DEF NoPos
        <3>2. F \in Frame /\ F.name \in Pattern
            BY <1>2 DEF Frame
        <3> QED BY <2>2, <3>1, <3>2 DEF Frame
    <2>4. f.start = F.start /\ f.cur = at + 1 /\ f.rptr = NoPos /\ f.rv = NoPos
        BY <2>2, <1>2 DEF Frame
    <2>5. F.start < at + 1 /\ at + 1 <= End
        BY <2>1, <1>2, <1>4 DEF FrameOK
    <2>6. TopOK(f)
        BY <2>3, <2>4, <2>5, <1>2, <1>3 DEF TopOK, FrameOK
    <2>7. PlaceOK("content", f)
        BY <2>4, <2>5 DEF PlaceOK
    <2>8. Goto("content", f)
        BY <2>1, <2>2, <1>8 DEF ElementTooLong
    <2> QED BY <2>6, <2>7, <2>8, <1>1, GotoKeeps DEF Inside1
<1> QED BY <1>7, <1>8

LEMMA OpenAtEndKeeps == SInv /\ (OpenAtEnd \/ ClosingOther) => SInv'
<1> SUFFICES ASSUME SInv, OpenAtEnd \/ ClosingOther PROVE SInv'
    OBVIOUS
<1>1. calls # <<>> /\ Leave(F) /\ Keep /\ Data'
    BY QuietKeeps DEF SInv, Places, Inside1, OpenAtEnd, ClosingOther, NothingFollows
<1>2. PICK f : f = F
    OBVIOUS
<1>3. /\ f.rv \in Nat \cup {NoPos}
      /\ Len(calls) > 1 => f.len \in Nat /\ f.len <= End - F.start - 1
    BY <1>1, <1>2, Here DEF Inner
<1> QED BY <1>1, <1>2, <1>3, LeaveKeeps

LEMMA ContentBlockKeeps == SInv /\ ContentBlock => SInv'
<1> SUFFICES ASSUME SInv, ContentBlock PROVE SInv'
    OBVIOUS
<1>1. /\ calls # <<>> /\ TagsFrom(F.cur) # {} /\ IsBlock(T) /\ Keep /\ Data'
      /\ F.start < F.cur
    <2>1. pc \in {"content", "afterblock"} /\ calls # <<>>
        BY DEF ContentBlock, InContent, SInv, Places, Inside1
    <2>2. F.start < F.cur
        BY <2>1, Here DEF PlaceOK, Inside1
    <2> QED BY <2>1, <2>2, QuietKeeps DEF ContentBlock, IsBlock, BlockKinds
<1>2. PICK cur \in Nat : cur = BlockEnd(T) /\ F.cur <= cur /\ cur <= End
    <2>1. T \in DOMAIN doc /\ At(T) \in Nat /\ F.cur <= At(T) /\ F.cur \in Nat /\ IsCase
        BY <1>1, HereTag, Here
    <2>2. BlockEnd(T) \in Nat /\ At(T) < BlockEnd(T) /\ BlockEnd(T) <= End
        BY <1>1, <2>1, BlockFacts
    <2> QED BY <2>1, <2>2
<1>3. PICK f : f = [F EXCEPT !.cur = cur]
    OBVIOUS
<1>4. TopOK(f) /\ f.start = F.start /\ f.cur = cur
    BY <1>1, <1>2, <1>3, MovedOK
<1>5. PlaceOK("afterblock", f)
    BY <1>1, <1>2, <1>4, Here DEF PlaceOK
<1>6. Goto("afterblock", f)
    BY <1>2, <1>3 DEF ContentBlock
<1> QED BY <1>1, <1>4, <1>5, <1>6, GotoKeeps DEF Inside1

LEMMA CallsKeep == SInv /\ (ContentChild \/ ClosingMismatch) => SInv'
<1> SUFFICES ASSUME SInv, ContentChild \/ ClosingMismatch PROVE SInv'
    OBVIOUS
<1>1. calls # <<>> /\ TagsFrom(F.cur) # {} /\ Call /\ Keep /\ Data'
    BY QuietKeeps, Here DEF SInv, Places, PlaceOK, Inside1, ContentChild, ClosingMismatch, InContent
<1> QED BY <1>1, CallKeeps

\* At a closing tag: ps is in front of a '>' that is in the text.
LEMMA ClosingFacts ==
    ASSUME SInv, pc = "closing"
    PROVE  /\ calls # <<>> /\ TagsFrom(F.cur) # {} /\ At(T) = F.cur /\ F.start < F.cur
           /\ IsGt(Ps) => Ps + 1 \in Nat /\ F.cur <= Ps + 1 /\ Ps + 1 <= End
           /\ At(T + 1) \in Nat /\ F.cur <= At(T + 1) /\ At(T + 1) <= End
<1>1. /\ calls # <<>> /\ TagsFrom(F.cur) # {} /\ At(T) = F.cur /\ F.start < F.cur
    BY DEF SInv, Places, PlaceOK, Inside1, T
<1>2. F \in Frame /\ F.cur \in Nat /\ IsCase /\ End \in Nat
    BY <1>1, Here
<1>3. Len(F.element) \in Nat
    <2>1. F.element = AnyName \/ F.element \in Seq(STRING)
        BY <1>2 DEF Frame, Pattern
    <2> QED BY <2>1, LenProperties DEF AnyName
<1>4. Ps \in Nat /\ F.cur <= Ps
    BY <1>1, <1>2, <1>3 DEF Ps
<1>5. IsGt(Ps) => Ps + 1 <= End
    BY <1>2, <1>4, GtFacts
<1>6. At(T + 1) \in Nat /\ F.cur <= At(T + 1) /\ At(T + 1) <= End
    <2>1. At(T) + 2 <= At(T + 1) /\ At(T + 1) \in Nat /\ At(T + 1) <= End
        BY <1>1, HereTag
    <2> QED BY <2>1, <1>1, <1>2
<1> QED BY <1>1, <1>2, <1>4, <1>5, <1>6

LEMMA ClosingPassedOverKeeps == SInv /\ ClosingPassedOver => SInv'
<1> SUFFICES ASSUME SInv, ClosingPassedOver PROVE SInv'
    OBVIOUS
<1>1. /\ calls # <<>> /\ F.start < F.cur /\ Keep /\ Data'
      /\ Ps + 1 \in Nat /\ F.cur <= Ps + 1 /\ Ps + 1 <= End
      /\ F.start \in Nat /\ F.cur \in Nat /\ End \in Nat
    BY ClosingFacts, QuietKeeps, Here DEF ClosingPassedOver
<1>2. PICK cur \in Nat : cur = Ps + 1
    BY <1>1
<1>3. PICK f, g : f = F /\ g = Head1(f, cur)
    OBVIOUS
<1>4. TopOK(f)
    BY <1>1, <1>3, Here DEF TopOK
<1>5. F.cur <= cur /\ F.start < cur /\ cur <= End
    BY <1>1, <1>2
<1>6. TopOK(g) /\ PlaceOK("head", g)
    BY <1>1, <1>3, <1>4, <1>5, HeadOK
<1>7. Goto("head", g)
    BY <1>2, <1>3 DEF ClosingPassedOver
<1> QED BY <1>1, <1>6, <1>7, GotoKeeps DEF Inside1

\* The text of an element is between the end of its opening tag and here.
LEMMA ClosingMatchKeeps == SInv /\ ClosingMatch => SInv'
<1> SUFFICES ASSUME SInv, ClosingMatch PROVE SInv'
    OBVIOUS
<1>1. /\ calls # <<>> /\ At(T) = F.cur /\ F.start < F.cur /\ Keep
      /\ Ps + 1 \in Nat /\ F.cur <= Ps + 1 /\ Ps + 1 <= End
      /\ At(T + 1) \in Nat /\ F.cur <= At(T + 1) /\ At(T + 1) <= End
    BY ClosingFacts DEF ClosingMatch
<1>2. /\ F \in Frame /\ FrameOK(F) /\ (Len(calls) > 1 => Inner(F))
      /\ F.start \in Nat /\ F.cur \in Nat /\ F.found \in Nat /\ F.len \in Int
      /\ F.rptr \in Nat \cup {NoPos} /\ F.rv \in Nat \cup {NoPos}
      /\ End \in Nat /\ F.cur <= End /\ IsCase
    BY <1>1, Here
<1>3. PICK at \in Nat : at = F.cur
    BY <1>2
<1>4. Data'
    <2>1. F.rptr \in Nat /\ F.rptr <= F.cur /\ F.element \in Names
        BY <1>2 DEF FrameOK, ClosingMatch
    <2>2. PICK from \in Nat, name \in Names : from = F.rptr /\ name = F.element
        BY <2>1
    <2>3. PICK p : p = [name |-> name, from |-> from, len |-> at - from]
        OBVIOUS
    <2>4. from <= at /\ at <= End
        BY <1>2, <1>3, <2>1, <2>2
    <2>5. p \in Sections
        BY <1>2, <2>3, <2>4, SectionType
    <2>6. p.from + p.len <= End
        BY <2>3, <2>4
    <2>7. PICK nc \in CellOrNull : nc = F.nnc
        BY <1>1, Here
    <2>8. cacheDataSet(nc, p)
        BY <1>1, <1>3, <2>2, <2>3, <2>7 DEF ClosingMatch
    <2> QED BY <1>1, <2>5, <2>6, <2>8, SetKeepsData
<1>5. CASE ~Wanted(F)
    <2>1. PICK h : h = [F EXCEPT !.found = @ + 1]
        OBVIOUS
    <2>2. TopOK(h) /\ h.cur = F.cur
        <3>1. TopOK(F)
            BY <1>2 DEF TopOK
        <3>2. PICK f : f = F
            OBVIOUS
        <3> QED BY <2>1, <3>1, <3>2, <1>1, FoundOK
    <2>3. PICK cur \in Nat : cur = At(T + 1)
        BY <1>1
    <2>4. PICK g : g = Head1(h, cur)
        OBVIOUS
    <2>5. Goto("head", g)
        BY <1>5, <2>1, <2>3, <2>4 DEF ClosingMatch
    <2>6. F.cur <= cur /\ F.start < cur /\ cur <= End
        BY <1>1, <1>2, <2>3
    <2>7. TopOK(g) /\ PlaceOK("head", g)
        BY <1>1, <2>2, <2>4, <2>6, HeadOK
    <2> QED BY <1>1, <1>4, <2>5, <2>7, GotoKeeps DEF Inside1
<1>6. CASE Wanted(F) /\ ~F.starttag
    <2>1. PICK f : f = [F EXCEPT !.found = 0]
        OBVIOUS
    <2>2. Leave(f)
        BY <1>6, <2>1 DEF ClosingMatch
    <2>3. f.rv = F.rv /\ f.len = F.len
        BY <1>2, <2>1 DEF Frame
    <2>4. Len(calls) > 1 => f.len \in Nat /\ f.len <= End - F.start - 1
        BY <1>2, <2>3 DEF Inner
    <2> QED BY <1>1, <1>2, <1>4, <2>2, <2>3, <2>4, LeaveKeeps
<1>7. CASE Wanted(F) /\ F.starttag
    <2>1. PICK len \in Int : len = at - F.rv
        BY <1>2, <1>3 DEF NoPos
    <2>2. PICK f : f = [F EXCEPT !.len = len, !.starttag = FALSE]
        OBVIOUS
    <2>3. f \in Frame
        BY <1>2, <2>1, <2>2 DEF Frame
    <2>4. /\ f.start = F.start /\ f.cur = F.cur /\ f.rptr = F.rptr /\ f.rv = F.rv
          /\ f.fresh = F.fresh /\ f.element = F.element /\ f.name = F.name
          /\ f.num = F.num /\ f.len = len /\ f.starttag = FALSE
        BY <1>2, <2>2 DEF Frame
    <2>5. Len(calls) > 1 => Inner(f)
        <3> SUFFICES ASSUME Len(calls) > 1 PROVE Inner(f)
            OBVIOUS
        <3>1. Inner(F) /\ F.rv # NoPos
            BY <1>2, <1>7 DEF Inner
        <3>2. F.rv \in Nat /\ F.start < F.rv /\ F.rv <= F.cur
            BY <3>1, <1>2 DEF FrameOK
        <3>3. len >= 0 /\ len <= End - F.start - 1
            BY <3>2, <2>1, <1>2, <1>3
        <3> QED BY <3>1, <3>3, <2>4 DEF Inner
    <2>6. TopOK(f)
        BY <2>3, <2>4, <2>5, <1>2 DEF TopOK, FrameOK
    <2>7. IF F.num # AllNums THEN Leave(f)
          ELSE Goto("head", Head1([f EXCEPT !.found = @ + 1], Ps + 1))
        BY <1>1, <1>3, <1>7, <2>1, <2>2 DEF ClosingMatch
    <2>8. CASE F.num # AllNums
        <3>1. Len(calls) > 1 => f.len \in Nat /\ f.len <= End - F.start - 1
            BY <2>1, <2>4, <2>5 DEF Inner
        <3> QED BY <3>1, <2>4, <2>7, <2>8, <1>1, <1>2, <1>4, LeaveKeeps
    <2>9. CASE F.num = AllNums
        <3>1. PICK h : h = [f EXCEPT !.found = @ + 1]
            OBVIOUS
        <3>2. PICK cur \in Nat : cur = Ps + 1
            BY <1>1
        <3>3. PICK g : g = Head1(h, cur)
            OBVIOUS
        <3>4. TopOK(h) /\ h.cur = F.cur
            BY <3>1, <2>4, <2>6, <1>1, FoundOK
        <3>5. F.cur <= cur /\ F.start < cur /\ cur <= End
            BY <3>2, <1>1, <1>2
        <3>6. TopOK(g) /\ PlaceOK("head", g)
            BY <3>3, <3>4, <3>5, <1>1, HeadOK
        <3>7. Goto("head", g)
            BY <2>7, <2>9, <3>1, <3>2, <3>3
        <3> QED BY <3>6, <3>7, <1>1, <1>4, GotoKeeps DEF Inside1
    <2> QED BY <2>8, <2>9
<1> QED BY <1>5, <1>6, <1>7

LEMMA ResumeKeeps == SInv /\ Resume => SInv'
<1> SUFFICES ASSUME SInv, Resume PROVE SInv'
    OBVIOUS
<1>1. calls # <<>> /\ Keep /\ Data'
    BY QuietKeeps DEF Resume
<1>2. F.cur \in Nat /\ ret.len \in Nat /\ F.cur + ret.len <= End
    BY <1>1, Here DEF Resume, SInv, Returned
<1>3. PICK cur \in Nat : cur = F.cur + ret.len
    BY <1>2
<1>4. PICK f : f = [F EXCEPT !.cur = cur]
    OBVIOUS
<1>5. TopOK(f)
    BY <1>1, <1>2, <1>3, <1>4, MovedOK
<1>6. Goto("head", f)
    BY <1>3, <1>4 DEF Resume
<1>7. PlaceOK("head", f)
    BY DEF PlaceOK
<1> QED BY <1>1, <1>5, <1>6, <1>7, GotoKeeps DEF Inside1

\* Before and after the scan nothing is on the stack.
LEMMA OutsideKeeps == SInv /\ (Finish \/ Release \/ FreeStep \/ Closed) => SInv'
<1> SUFFICES ASSUME SInv, Finish \/ Release \/ FreeStep \/ Closed PROVE SInv'
    OBVIOUS
<1>1. /\ UNCHANGED <<doc, mode, req, root, calls, ret, payload>>
      /\ pc' \in Outside
    BY DEF Finish, Release, FreeStep, Closed, Keep, Quiet, scanVars, FreeCall, FreeChild,
           FreeSelf, cacheVars, treeVars, Outside
<1>2. calls = <<>>
    BY DEF SInv, Places, Outside, Finish, Release, FreeStep, Closed
<1>3. IsCase' /\ Data' /\ Returned'
    BY <1>1, DataKept DEF SInv, IsCase, Returned, Outside
<1>4. Stack'
    BY <1>1 DEF SInv, Stack, FrameOK, Inner, End
<1>5. Places'
    BY <1>1, <1>2 DEF Places, Outside, Inside1
<1> QED BY <1>1, <1>3, <1>4, <1>5 DEF SInv

LEMMA StutterKeeps == SInv /\ (Stopped \/ UNCHANGED vars) => SInv'
<1> SUFFICES ASSUME SInv, UNCHANGED vars PROVE SInv'
    BY DEF Stopped
<1>1. UNCHANGED <<doc, mode, req, root, calls, ret, pc, payload>>
    BY DEF vars, scanVars, cacheVars, treeVars
<1>2. IsCase' /\ Data' /\ Returned'
    BY <1>1, DataKept DEF SInv, IsCase, Returned, F, End
<1>3. Stack'
    BY <1>1 DEF SInv, Stack, FrameOK, Inner, End
<1>4. Places'
    <2>1. \A place, f : PlaceOK(place, f) => PlaceOK(place, f)'
        BY <1>1, SameText
    <2>2. F' = F
        BY <1>1 DEF F
    <2>3. PlaceOK(pc, F)' <=> PlaceOK(pc, F)
        BY <1>1, <2>2 DEF PlaceOK, TagsFrom, NextTag, IsBlock, Kind, At
    <2> QED BY <1>1, <2>3 DEF SInv, Places
<1> QED BY <1>1, <1>2, <1>3, <1>4 DEF SInv

LEMMA SInit == Init => SInv
<1> SUFFICES ASSUME Init PROVE SInv
    OBVIOUS
<1>1. IsCase /\ root \in CellOrNull
    BY DEF Init, IsCase, CellOrNull
<1>2. calls = <<>> /\ Len(<<>>) = 0 /\ <<>> \in Seq(Frame)
    BY DEF Init
<1>3. Stack
    BY <1>2 DEF Stack
<1>4. Places /\ Returned
    BY <1>2 DEF Init, Places, Returned, Inside1, Outside, NoPos
<1>5. Data
    BY DEF Init, CacheInit, Data
<1> QED BY <1>1, <1>3, <1>4, <1>5 DEF SInv

LEMMA SStep == SInv /\ [Next]_vars => SInv'
BY StartKeeps, EnterKeeps, NoMoreTagsKeeps, EndOfSubsectionKeeps, FailuresKeep,
   ToClosingKeeps, BlockKeeps, BlockNodeKeeps, TagCutOffKeeps, ElementFoundKeeps,
   SelfDataKeeps, ElementOtherKeeps, OpenAtEndKeeps, ContentBlockKeeps, CallsKeep,
   ClosingPassedOverKeeps, ClosingMatchKeeps, ResumeKeeps, OutsideKeeps, StutterKeeps
   DEF Next, ScanStep

\* Only cells are handed out.
LiveCells == live \subseteq Cells

LEMMA LiveStep == LiveCells /\ [Next]_vars => LiveCells'
<1> SUFFICES ASSUME [Next]_vars PROVE live' \subseteq live \cup Cells
    BY DEF LiveCells
<1>1. \A rv : CellNew(rv) => live' \subseteq live \cup Cells
    BY DEF CellNew
<1>2. \A nc, rv : cacheNodeNew(nc, rv) => live' \subseteq live \cup Cells
    BY <1>1 DEF cacheNodeNew, ReallocFails, StoreAstray, StoreNode, cacheVars, heapVars
<1>3. \A nc : cacheInitLevel(nc) => live' = live
    BY DEF cacheInitLevel, cacheVars, heapVars
<1>4. \A nc, p : cacheDataSet(nc, p) => live' = live
    BY DEF cacheDataSet, heapVars
<1>5. CASE Start
    BY <1>1, <1>5 DEF Start, cacheInit, cacheVars, heapVars
<1>6. CASE Enter \/ BlockNode \/ BlockData \/ ElementFound \/ SelfData \/ ClosingMatch
    BY <1>2, <1>3, <1>4, <1>6 DEF Enter, BlockNode, BlockData, ElementFound, SelfData,
                                  ClosingMatch
<1>7. CASE Release \/ FreeStep
    BY <1>7 DEF Release, FreeStep, FreeCall, FreeChild, FreeSelf, heapVars
<1>8. CASE Stopped \/ UNCHANGED vars
    BY <1>8 DEF Stopped, vars, cacheVars, heapVars
<1>9. CASE \/ EnterTooShort \/ NoMoreTags \/ EndOfSubsection \/ ElementCloses
            \/ CloseBeforeOpen \/ BlockCutOff \/ BlockSkipped \/ TagCutOff
            \/ ElementOther \/ ElementTooLong \/ OpenAtEnd \/ ContentEnds
            \/ ContentBlock \/ ContentCutOff \/ ContentClose \/ ContentChild
            \/ ClosingOther \/ ClosingPassedOver \/ ClosingMismatch
            \/ Resume \/ Unwind \/ Finish \/ Closed
    <2>1. UNCHANGED cacheVars
        BY <1>9 DEF EnterTooShort, NoMoreTags, EndOfSubsection, ElementCloses,
           CloseBeforeOpen, BlockCutOff, BlockSkipped, TagCutOff, ElementOther,
           ElementTooLong, OpenAtEnd, ContentEnds, ContentBlock, ContentCutOff,
           ContentClose, ContentChild, ClosingOther, ClosingPassedOver, ClosingMismatch,
           Resume, Unwind, Finish, Closed, Quiet
    <2> QED BY <2>1 DEF cacheVars, heapVars
<1> QED BY <1>5, <1>6, <1>7, <1>8, <1>9 DEF Next, ScanStep

LEMMA SInvariant == Spec => []SInv
<1>1. Init => SInv
    BY SInit
<1>2. SInv /\ [Next]_vars => SInv'
    BY SStep
<1> QED BY <1>1, <1>2, PTL DEF Spec

-----------------------------------------------------------------------------
(* The theorems. *)

\* The activations of __zeroxml_get_node and what they hand back are well typed.
THEOREM ScannerTypes == Spec => []TypeOK
<1>1. SInv => TypeOK
    <2> SUFFICES ASSUME SInv PROVE TypeOK
        OBVIOUS
    <2>1. /\ pc \in {"start", "enter", "head", "blockdata", "selfdata", "content",
                    "afterblock", "closing", "return", "done", "free", "closed", "crashed"}
          /\ root \in CellOrNull /\ ret.err \in BOOLEAN /\ ret.rv \in Nat \cup {NoPos}
        BY DEF SInv, Places, Returned, Inside1, Outside
    <2>2. ASSUME NEW i \in DOMAIN calls
          PROVE  /\ {calls[i].nc, calls[i].nnc} \subseteq CellOrNull
                 /\ calls[i].num \in Nat \cup {AllNums}
                 /\ calls[i].found \in Nat
        <3>1. i \in 1 .. Len(calls)
            BY LenProperties DEF SInv, Stack
        <3>2. calls[i] \in Frame
            BY <3>1, ElementOfSeq DEF SInv, Stack
        <3> QED BY <3>2 DEF Frame
    <2> QED BY <2>1, <2>2 DEF TypeOK
<1> QED BY <1>1, SInvariant, PTL

\* The cursor of no activation and the data of no cell leave the text, whatever
\* the text is, what is looked for and how deep it is nested: the lengths that
\* recursive calls of __zeroxml_get_node give back fit.
THEOREM ScannerStaysInText == Spec => []InText
<1>1. SInv /\ LiveCells => InText
    <2> SUFFICES ASSUME SInv, LiveCells PROVE InText
        OBVIOUS
    <2>1. ASSUME NEW i \in DOMAIN calls PROVE calls[i].cur \in 0 .. End
        <3>1. i \in 1 .. Len(calls) /\ End \in Nat
            BY LenProperties, CaseFacts DEF SInv, Stack
        <3>2. FrameOK(calls[i])
            BY <3>1 DEF SInv, Stack
        <3>3. calls[i].cur \in Nat /\ calls[i].cur <= End
            BY <3>2 DEF FrameOK, Frame
        <3> QED BY <3>1, <3>3
    <2>2. ASSUME NEW n \in live, payload[n] # Blank
          PROVE  payload[n].len >= 0 /\ payload[n].from + payload[n].len <= End
        <3>1. n \in Cells
            BY <2>2 DEF LiveCells
        <3>2. payload[n] \in Sections /\ payload[n].from + payload[n].len <= End
            BY <3>1, <2>2 DEF SInv, Data
        <3> QED BY <3>2 DEF Sections
    <2> QED BY <2>1, <2>2 DEF InText
<1>2. Init => LiveCells
    BY DEF Init, CacheInit, LiveCells
<1>3. LiveCells /\ [Next]_vars => LiveCells'
    BY LiveStep
<1> QED BY <1>1, <1>2, <1>3, SInvariant, PTL DEF Spec

-----------------------------------------------------------------------------
(* The fold of the open elements. *)

NoneOpen == [open |-> <<>>, ok |-> TRUE]
OpenStates == [open : Seq(Nat), ok : BOOLEAN]

\* What one token does to the open elements.
OpenStep(d, st, j) ==
    CASE d[j].kind = "open"  -> [st EXCEPT !.open = Append(@, j)]
      [] d[j].kind = "close" ->
            IF st.open # <<>> /\ d[Last(st.open)].name = d[j].name
            THEN [st EXCEPT !.open = Front(@)]
            ELSE [st EXCEPT !.ok = FALSE]
      [] OTHER               -> st

\* The recursive function the fold is defined with.
IsFold(fold, d, s) ==
    fold = [S \in SUBSET DOMAIN s |->
              IF S = {} THEN NoneOpen
              ELSE OpenStep(d, fold[S \ {Max(S)}], s[Max(S)])]
FoldOf(d, s) == CHOOSE fold : IsFold(fold, d, s)

UpTo(i) == [j \in 1 .. i |-> j]

\* What OpenAfter is defined to be.
LEMMA OpenIsFold ==
    ASSUME NEW d, NEW i
    PROVE  OpenAfter(d, i) = FoldOf(d, UpTo(i))[DOMAIN UpTo(i)]
BY DEF OpenAfter, FoldLeft, MapThenFoldSet, FoldOf, IsFold, OpenStep, NoneOpen, UpTo

\* A step of the fold gives a state of the fold.
LEMMA OpenStepType ==
    ASSUME NEW d, NEW st \in OpenStates, NEW j \in Nat
    PROVE  OpenStep(d, st, j) \in OpenStates
<1>1. Append(st.open, j) \in Seq(Nat)
    BY DEF OpenStates
<1>2. st.open # <<>> => Front(st.open) \in Seq(Nat)
    <2>1. st.open \in Seq(Nat)
        BY DEF OpenStates
    <2>2. PICK s \in Seq(Nat) : s = st.open
        BY <2>1
    <2>3. s # <<>> => SubSeq(s, 1, Len(s) - 1) \in Seq(Nat)
        OBVIOUS
    <2> QED BY <2>2, <2>3 DEF Front
<1> QED BY <1>1, <1>2 DEF OpenStep, OpenStates

FoldOn(fold, d, n) ==
    /\ fold \in [SUBSET (1 .. n) -> OpenStates]
    /\ \A S \in SUBSET (1 .. n) :
          fold[S] = IF S = {} THEN NoneOpen ELSE OpenStep(d, fold[S \ {Max(S)}], Max(S))

\* So is the first.
LEMMA NoneOpenType == NoneOpen \in OpenStates
BY DEF NoneOpen, OpenStates

\* There is a fold of every length.
LEMMA FoldOnExists ==
    ASSUME NEW d, NEW n \in Nat
    PROVE  \E fold : FoldOn(fold, d, n)
<1> DEFINE Bad == {k \in Nat : ~\E fold : FoldOn(fold, d, k)}
<1> SUFFICES ASSUME Bad # {} PROVE FALSE
    OBVIOUS
<1>2. PICK k \in Bad : \A j \in Bad : k <= j
    <2>1. Bad \in SUBSET Nat /\ Bad # {}
        OBVIOUS
    <2> HIDE DEF Bad
    <2> QED BY <2>1, LeastNat
<1>3. CASE k = 0
    <2> DEFINE g == [s \in SUBSET (1 .. 0) |-> NoneOpen]
    <2>1. \A s \in SUBSET (1 .. 0) : s = {}
        OBVIOUS
    <2>2. FoldOn(g, d, 0)
        BY <2>1, NoneOpenType DEF FoldOn
    <2> QED BY <2>2, <1>3
<1>4. CASE k # 0
    <2>1. k \in Nat /\ k - 1 \in Nat /\ k - 1 \notin Bad
        BY <1>2, <1>4
    <2>2. PICK h : FoldOn(h, d, k - 1)
        BY <2>1
    <2> DEFINE g == [s \in SUBSET (1 .. k) |->
                       IF k \in s THEN OpenStep(d, h[s \ {k}], k) ELSE h[s]]
    <2>4. \A s \in SUBSET (1 .. k) : s \ {k} \in SUBSET (1 .. (k - 1))
        BY <2>1
    <2>5. \A s \in SUBSET (1 .. k) : k \notin s => s \in SUBSET (1 .. (k - 1))
        BY <2>4
    <2>6. ASSUME NEW s \in SUBSET (1 .. (k - 1)) PROVE h[s] \in OpenStates
        BY <2>2 DEF FoldOn
    <2>7. g \in [SUBSET (1 .. k) -> OpenStates]
        <3>1. ASSUME NEW s \in SUBSET (1 .. k) PROVE g[s] \in OpenStates
            <4>1. CASE k \in s
                BY <4>1, <2>1, <2>4, <2>6, OpenStepType
            <4>2. CASE k \notin s
                BY <4>2, <2>5, <2>6
            <4> QED BY <4>1, <4>2
        <3> QED BY <3>1
    <2>8. ASSUME NEW s \in SUBSET (1 .. k)
          PROVE  g[s] = IF s = {} THEN NoneOpen ELSE OpenStep(d, g[s \ {Max(s)}], Max(s))
        <3>1. CASE k \in s
            <4>1. Max(s) = k
                <5>1. s # {} /\ s \in SUBSET (1 .. k) /\ k \in Nat
                    BY <3>1, <2>1
                <5> HIDE DEF g, Bad
                <5>2. Max(s) \in s /\ \A y \in s : Max(s) >= y
                    BY <5>1, MaxIsGreatest
                <5>3. Max(s) \in 1 .. k /\ Max(s) >= k
                    BY <5>1, <5>2, <3>1
                <5> QED BY <5>1, <5>3
            <4>2. s \ {k} \in SUBSET (1 .. k) /\ k \notin s \ {k}
                OBVIOUS
            <4>3. g[s \ {k}] = h[s \ {k}]
                BY <4>2
            <4> QED BY <4>1, <4>3, <3>1
        <3>2. CASE k \notin s
            <4>1. s \in SUBSET (1 .. (k - 1))
                BY <3>2, <2>5
            <4>2. g[s] = h[s]
                BY <3>2
            <4>3. s \ {Max(s)} \in SUBSET (1 .. k) /\ k \notin s \ {Max(s)}
                BY <3>2
            <4>4. g[s \ {Max(s)}] = h[s \ {Max(s)}]
                BY <4>3
            <4> QED BY <4>1, <4>2, <4>4, <2>2 DEF FoldOn
        <3> QED BY <3>1, <3>2
    <2>9. FoldOn(g, d, k)
        <3> HIDE DEF g
        <3> QED BY <2>7, <2>8 DEF FoldOn
    <2> QED BY <2>9, <1>2
<1> QED BY <1>3, <1>4

\* The equation of the fold over the first n tokens.
Folds(fold, d, n) ==
    \A S \in SUBSET (1 .. n) :
        fold[S] = IF S = {} THEN NoneOpen ELSE OpenStep(d, fold[S \ {Max(S)}], Max(S))

\* The recursive function does fold the tokens.
LEMMA FoldOfFolds ==
    ASSUME NEW d, NEW n \in Nat
    PROVE  Folds(FoldOf(d, UpTo(n)), d, n)
<1>1. PICK g : FoldOn(g, d, n)
    BY FoldOnExists
<1>2. DOMAIN UpTo(n) = 1 .. n /\ \A j \in 1 .. n : UpTo(n)[j] = j
    BY DEF UpTo
<1>3. ASSUME NEW S \in SUBSET (1 .. n), S # {}
      PROVE  Max(S) \in 1 .. n /\ UpTo(n)[Max(S)] = Max(S)
    BY <1>2, <1>3, MaxIsGreatest
<1>4. IsFold(g, d, UpTo(n))
    BY <1>1, <1>2, <1>3 DEF FoldOn, IsFold
<1>5. PICK h : h = FoldOf(d, UpTo(n))
    OBVIOUS
<1>6. IsFold(h, d, UpTo(n))
    BY <1>4, <1>5 DEF FoldOf
<1>7. \A S \in SUBSET (1 .. n) :
          h[S] = IF S = {} THEN NoneOpen ELSE OpenStep(d, h[S \ {Max(S)}], Max(S))
    BY <1>2, <1>3, <1>6 DEF IsFold
<1> QED BY <1>5, <1>7 DEF Folds

\* One more token.
LEMMA FoldsNext ==
    ASSUME NEW d, NEW n \in Nat, NEW fold, Folds(fold, d, n)
    PROVE  /\ fold[1 .. 0] = NoneOpen
           /\ \A k \in 1 .. n : fold[1 .. k] = OpenStep(d, fold[1 .. (k - 1)], k)
<1>1. fold[1 .. 0] = NoneOpen
    <2>1. 1 .. 0 = {} /\ 1 .. 0 \in SUBSET (1 .. n)
        OBVIOUS
    <2> QED BY <2>1 DEF Folds
<1>2. ASSUME NEW k \in 1 .. n
      PROVE  fold[1 .. k] = OpenStep(d, fold[1 .. (k - 1)], k)
    <2>1. 1 .. k \in SUBSET (1 .. n) /\ 1 .. k # {} /\ k \in Nat /\ k \in 1 .. k
        OBVIOUS
    <2>2. Max(1 .. k) \in 1 .. k /\ \A y \in 1 .. k : Max(1 .. k) >= y
        BY <2>1, MaxIsGreatest
    <2>3. Max(1 .. k) = k
        BY <2>1, <2>2
    <2>4. (1 .. k) \ {k} = 1 .. (k - 1)
        BY <2>1
    <2>5. fold[1 .. k] = OpenStep(d, fold[(1 .. k) \ {Max(1 .. k)}], Max(1 .. k))
        BY <2>1 DEF Folds
    <2> QED BY <2>3, <2>4, <2>5
<1> QED BY <1>1, <1>2

\* What is open behind a token does not depend on what follows it.
LEMMA FoldsAgree ==
    ASSUME NEW d, NEW m \in Nat, NEW n \in Nat, NEW f, NEW g,
           Folds(f, d, m), Folds(g, d, n),
           NEW i \in Nat, i <= m, i <= n
    PROVE  f[1 .. i] = g[1 .. i]
<1> DEFINE Bad == {k \in 0 .. i : f[1 .. k] # g[1 .. k]}
<1> SUFFICES ASSUME Bad # {} PROVE FALSE
    OBVIOUS
<1>1. PICK k \in Bad : \A j \in Bad : k <= j
    <2>1. Bad \in SUBSET Nat /\ Bad # {}
        OBVIOUS
    <2> HIDE DEF Bad
    <2> QED BY <2>1, LeastNat
<1>2. k # 0
    BY <1>1, FoldsNext
<1>3. k \in 1 .. m /\ k \in 1 .. n /\ k - 1 \in 0 .. i /\ k - 1 \notin Bad
    BY <1>1, <1>2
<1>4. f[1 .. (k - 1)] = g[1 .. (k - 1)]
    BY <1>3
<1>5. f[1 .. k] = OpenStep(d, f[1 .. (k - 1)], k) /\ g[1 .. k] = OpenStep(d, g[1 .. (k - 1)], k)
    BY <1>3, FoldsNext
<1> QED BY <1>1, <1>4, <1>5

\* Nothing is open before the first token.
LEMMA OpenFirst ==
    ASSUME NEW d
    PROVE  OpenAfter(d, 0) = NoneOpen
<1>1. DOMAIN UpTo(0) = 1 .. 0
    BY DEF UpTo
<1> QED BY <1>1, OpenIsFold, FoldOfFolds, FoldsNext

\* The equation of OpenAfter: what is open behind a token follows from what is open
\* before it.  Parent, Balanced and WellFormed of XmlText, which say what the scanner
\* should make of a text, are read with it.
THEOREM OpenNext ==
    ASSUME NEW d, NEW i \in Nat \ {0}
    PROVE  OpenAfter(d, i) = OpenStep(d, OpenAfter(d, i - 1), i)
<1>1. DOMAIN UpTo(i) = 1 .. i /\ DOMAIN UpTo(i - 1) = 1 .. (i - 1)
    BY DEF UpTo
<1>2. i \in Nat /\ i - 1 \in Nat /\ i \in 1 .. i /\ i - 1 <= i /\ i - 1 <= i - 1
    OBVIOUS
<1>3. PICK f, g : f = FoldOf(d, UpTo(i)) /\ g = FoldOf(d, UpTo(i - 1))
    OBVIOUS
<1>4. Folds(f, d, i) /\ Folds(g, d, i - 1)
    BY <1>2, <1>3, FoldOfFolds
<1>5. f[1 .. i] = OpenStep(d, f[1 .. (i - 1)], i)
    BY <1>2, <1>4, FoldsNext
<1>6. f[1 .. (i - 1)] = g[1 .. (i - 1)]
    BY <1>2, <1>4, FoldsAgree
<1> QED BY <1>1, <1>3, <1>5, <1>6, OpenIsFold

\* OpenAfter is a state of the fold.
LEMMA OpenType ==
    ASSUME NEW d, NEW i \in Nat
    PROVE  OpenAfter(d, i) \in OpenStates
<1> DEFINE Bad == {k \in Nat : OpenAfter(d, k) \notin OpenStates}
<1> SUFFICES ASSUME Bad # {} PROVE FALSE
    OBVIOUS
<1>1. PICK k \in Bad : \A j \in Bad : k <= j
    <2>1. Bad \in SUBSET Nat /\ Bad # {}
        OBVIOUS
    <2> HIDE DEF Bad
    <2> QED BY <2>1, LeastNat
<1>2. k # 0
    BY <1>1, OpenFirst, NoneOpenType
<1>3. k \in Nat \ {0} /\ k - 1 \in Nat /\ k - 1 \notin Bad
    BY <1>1, <1>2
<1> QED BY <1>1, <1>3, OpenNext, OpenStepType
-----------------------------------------------------------------------------
(* The open elements of a document. *)

Doc(d) == Len(d) \in Nat /\ DOMAIN d = 1 .. Len(d)
OpenStack(d, t) == OpenAfter(d, t).open

\* A push.
LEMMA AppendIs ==
    ASSUME NEW s \in Seq(Nat), NEW k \in Nat
    PROVE  /\ Append(s, k) \in Seq(Nat) /\ Len(Append(s, k)) = Len(s) + 1 /\ Len(s) \in Nat
           /\ Append(s, k)[Len(s) + 1] = k
           /\ \A i \in 1 .. Len(s) : Append(s, k)[i] = s[i]
OBVIOUS

\* A pop.
LEMMA FrontIs ==
    ASSUME NEW s \in Seq(Nat), s # <<>>
    PROVE  /\ Front(s) \in Seq(Nat) /\ Len(Front(s)) = Len(s) - 1
           /\ Len(s) \in Nat \ {0} /\ Len(s) \in 1 .. Len(s)
           /\ \A i \in 1 .. Len(s) - 1 : Front(s)[i] = s[i]
<1>1. Len(s) \in Nat \ {0}
    BY EmptySeq
<1>2. PICK n \in Nat \ {0} : n = Len(s)
    BY <1>1
<1>3. Front(s) = SubSeq(s, 1, n - 1)
    BY <1>2 DEF Front
<1>4. \A i \in 1 .. n - 1 : s[i] \in Nat
    BY <1>2, ElementOfSeq
<1>5. /\ SubSeq(s, 1, n - 1) \in Seq(Nat) /\ Len(SubSeq(s, 1, n - 1)) = n - 1
      /\ \A i \in 1 .. n - 1 : SubSeq(s, 1, n - 1)[i] = s[i]
    BY <1>2, <1>4, SubSeqProperties
<1> QED BY <1>2, <1>3, <1>5

\* The open elements are a stack of tokens.
LEMMA StackType ==
    ASSUME NEW d, NEW t \in Nat
    PROVE  /\ OpenStack(d, t) \in Seq(Nat) /\ Len(OpenStack(d, t)) \in Nat
           /\ DOMAIN OpenStack(d, t) = 1 .. Len(OpenStack(d, t))
           /\ OpenStack(d, t) # <<>> <=> Len(OpenStack(d, t)) # 0
<1>1. OpenStack(d, t) \in Seq(Nat)
    BY OpenType DEF OpenStates, OpenStack
<1>2. PICK s \in Seq(Nat) : s = OpenStack(d, t)
    BY <1>1
<1>3. s # <<>> <=> Len(s) # 0
    BY EmptySeq
<1> QED BY <1>2, <1>3

\* It is empty at first.
LEMMA StackNone == ASSUME NEW d PROVE OpenStack(d, 0) = <<>>
BY OpenFirst DEF OpenStack, NoneOpen

\* No closing tag of a balanced document is without its opening tag.
LEMMA BalancedOk ==
    ASSUME NEW d, Doc(d), Balanced(d), NEW t \in 0 .. Len(d)
    PROVE  OpenAfter(d, t).ok
<1> DEFINE Good == {k \in t .. Len(d) : OpenAfter(d, k).ok}
<1>1. Len(d) \in Good
    BY DEF Doc, Balanced
<1>2. PICK k \in Good : \A j \in Good : k <= j
    <2>1. Good \in SUBSET Nat /\ Good # {}
        BY <1>1 DEF Doc
    <2> HIDE DEF Good
    <2> QED BY <2>1, LeastNat
<1>3. CASE k = t
    BY <1>2, <1>3
<1>4. CASE k # t
    <2>1. k - 1 \in t .. Len(d) /\ k - 1 \notin Good /\ k \in Nat \ {0} /\ k - 1 \in Nat
        BY <1>2, <1>4 DEF Doc
    <2>2. PICK st \in OpenStates : st = OpenAfter(d, k - 1)
        BY <2>1, OpenType
    <2>3. ~st.ok
        BY <2>1, <2>2
    <2>4. OpenStep(d, st, k).ok
        BY <1>2, <2>1, <2>2, OpenNext
    <2> QED BY <2>3, <2>4 DEF OpenStep, OpenStates
<1> QED BY <1>3, <1>4

\* What a token of a balanced document does to the open elements.
LEMMA StackNext ==
    ASSUME NEW d, Doc(d), Balanced(d), NEW t \in 1 .. Len(d)
    PROVE  /\ d[t].kind = "open" => OpenStack(d, t) = Append(OpenStack(d, t - 1), t)
           /\ d[t].kind = "close" =>
                 /\ OpenStack(d, t - 1) # <<>>
                 /\ d[Last(OpenStack(d, t - 1))].name = d[t].name
                 /\ OpenStack(d, t) = Front(OpenStack(d, t - 1))
           /\ d[t].kind \notin {"open", "close"} => OpenStack(d, t) = OpenStack(d, t - 1)
<1>1. t \in Nat \ {0} /\ t - 1 \in Nat /\ t \in 0 .. Len(d)
    BY DEF Doc
<1>2. PICK st \in OpenStates : st = OpenAfter(d, t - 1)
    BY <1>1, OpenType
<1>3. OpenAfter(d, t) = OpenStep(d, st, t) /\ OpenStep(d, st, t).ok
    BY <1>1, <1>2, OpenNext, BalancedOk
<1> QED BY <1>2, <1>3 DEF OpenStep, OpenStates, OpenStack

\* The open elements are tokens before this one, the outer ones first.
Risen(d, t) ==
    LET s == OpenStack(d, t)
    IN \A k \in 1 .. Len(s) :
          /\ s[k] \in 1 .. t /\ d[s[k]].kind = "open"
          /\ \A j \in 1 .. k - 1 : s[j] < s[k]

\* An element is opened after those it is in.
LEMMA StackRises ==
    ASSUME NEW d, Doc(d), Balanced(d), NEW t \in 0 .. Len(d)
    PROVE  Risen(d, t)
<1> DEFINE Bad == {k \in 0 .. Len(d) : ~Risen(d, k)}
<1> SUFFICES ASSUME Bad # {} PROVE FALSE
    OBVIOUS
<1>1. PICK k \in Bad : \A j \in Bad : k <= j
    <2>1. Bad \in SUBSET Nat /\ Bad # {}
        BY DEF Doc
    <2> HIDE DEF Bad
    <2> QED BY <2>1, LeastNat
<1>2. k # 0
    <2>1. Risen(d, 0)
        BY StackNone DEF Risen
    <2> QED BY <1>1, <2>1
<1>3. k \in 1 .. Len(d) /\ k - 1 \in 0 .. Len(d) /\ k - 1 \notin Bad /\ k - 1 \in Nat /\ k \in Nat
    BY <1>1, <1>2 DEF Doc
<1>4. Risen(d, k - 1)
    BY <1>3
<1>5. PICK s \in Seq(Nat) : s = OpenStack(d, k - 1)
    BY <1>3, StackType
<1>6. Len(s) \in Nat
    OBVIOUS
<1>7. \A i \in 1 .. Len(s) :
          /\ s[i] \in 1 .. k - 1 /\ d[s[i]].kind = "open"
          /\ \A j \in 1 .. i - 1 : s[j] < s[i]
    BY <1>4, <1>5 DEF Risen
<1>8. CASE d[k].kind = "open"
    <2>1. OpenStack(d, k) = Append(s, k)
        BY <1>3, <1>5, <1>8, StackNext
    <2>2. PICK r \in Seq(Nat) : r = Append(s, k)
        BY <1>3, AppendIs
    <2>3. Len(r) = Len(s) + 1 /\ r[Len(s) + 1] = k /\ \A i \in 1 .. Len(s) : r[i] = s[i]
        BY <1>3, <2>2, AppendIs
    <2>4. ASSUME NEW i \in 1 .. Len(r)
          PROVE  /\ r[i] \in 1 .. k /\ d[r[i]].kind = "open"
                 /\ \A j \in 1 .. i - 1 : r[j] < r[i]
        <3>1. CASE i \in 1 .. Len(s)
            <4>1. \A j \in 1 .. i - 1 : j \in 1 .. Len(s)
                BY <3>1, <1>6
            <4>2. s[i] \in 1 .. k - 1 /\ d[s[i]].kind = "open" /\ r[i] = s[i]
                BY <3>1, <2>3, <1>7
            <4>3. \A j \in 1 .. i - 1 : r[j] < r[i]
                BY <3>1, <4>1, <2>3, <1>7
            <4>4. s[i] \in 1 .. k
                BY <4>2, <1>3
            <4> QED BY <4>2, <4>3, <4>4
        <3>2. CASE i = Len(s) + 1
            <4>1. \A j \in 1 .. i - 1 : j \in 1 .. Len(s)
                BY <3>2, <1>6
            <4>2. \A j \in 1 .. i - 1 : r[j] < k
                BY <4>1, <2>3, <1>7, <1>3
            <4> QED BY <3>2, <4>2, <2>3, <1>8, <1>3
        <3> QED BY <3>1, <3>2, <2>3, <1>6
    <2> QED BY <1>1, <2>1, <2>2, <2>4 DEF Risen
<1>9. CASE d[k].kind = "close"
    <2>1. OpenStack(d, k) = Front(s) /\ s # <<>>
        BY <1>3, <1>5, <1>9, StackNext
    <2>3. PICK r \in Seq(Nat) : r = Front(s)
        BY <2>1, FrontIs
    <2>4. Len(r) = Len(s) - 1 /\ \A i \in 1 .. Len(s) - 1 : r[i] = s[i]
        BY <2>1, <2>3, FrontIs
    <2>5. ASSUME NEW i \in 1 .. Len(r)
          PROVE  /\ r[i] \in 1 .. k /\ d[r[i]].kind = "open"
                 /\ \A j \in 1 .. i - 1 : r[j] < r[i]
        <3>1. i \in 1 .. Len(s) - 1 /\ i \in 1 .. Len(s)
            BY <2>4, <1>6
        <3>2. \A j \in 1 .. i - 1 : j \in 1 .. Len(s) - 1
            BY <3>1, <1>6
        <3>3. s[i] \in 1 .. k - 1 /\ d[s[i]].kind = "open" /\ r[i] = s[i]
            BY <3>1, <2>4, <1>7
        <3>4. \A j \in 1 .. i - 1 : r[j] < r[i]
            BY <3>1, <3>2, <2>4, <1>7
        <3>5. s[i] \in 1 .. k
            BY <3>3, <1>3
        <3> QED BY <3>3, <3>4, <3>5
    <2> QED BY <1>1, <2>1, <2>3, <2>5 DEF Risen
<1>10. CASE d[k].kind \notin {"open", "close"}
    <2>1. OpenStack(d, k) = s
        BY <1>3, <1>5, <1>10, StackNext
    <2>2. \A i \in 1 .. Len(s) : s[i] \in 1 .. k
        BY <1>7, <1>3
    <2> QED BY <1>1, <2>1, <2>2, <1>7 DEF Risen
<1> QED BY <1>8, <1>9, <1>10

\* An element that is open now has been open since it began.
IsOpenAt(d, e, t) == \E k \in 1 .. Len(OpenStack(d, t)) : OpenStack(d, t)[k] = e

\* What is open has been so from its tag on.
LEMMA OpenSinceBegun ==
    ASSUME NEW d, Doc(d), Balanced(d), NEW t \in 0 .. Len(d), NEW e, IsOpenAt(d, e, t),
           NEW j \in 0 .. t, e <= j
    PROVE  IsOpenAt(d, e, j)
<1>1. Len(d) \in Nat /\ e \in 1 .. t
    BY StackRises DEF Risen, IsOpenAt, Doc
<1> DEFINE Good == {k \in j .. t : IsOpenAt(d, e, k)}
<1>2. PICK k \in Good : \A i \in Good : k <= i
    <2>1. Good \in SUBSET Nat /\ t \in Good
        BY <1>1
    <2> HIDE DEF Good
    <2> QED BY <2>1, LeastNat
<1>3. CASE k = j
    BY <1>2, <1>3
<1>4. CASE k # j
    <2>1. /\ k - 1 \in j .. t /\ k - 1 \notin Good /\ k \in 1 .. Len(d) /\ k - 1 \in Nat
          /\ k # e /\ k \in Nat
        BY <1>1, <1>2, <1>4
    <2>2. PICK s \in Seq(Nat) : s = OpenStack(d, k - 1)
        BY <2>1, StackType
    <2>3. PICK i \in 1 .. Len(OpenStack(d, k)) : OpenStack(d, k)[i] = e
        BY <1>2 DEF IsOpenAt
    <2>4. \/ OpenStack(d, k) = Append(s, k) \/ OpenStack(d, k) = s
          \/ s # <<>> /\ OpenStack(d, k) = Front(s)
        BY <2>1, <2>2, StackNext
    <2>5. s # <<>> => Len(s) # 0
        BY EmptySeq
    <2>6. Len(s) \in Nat
        OBVIOUS
    <2>7. i \in 1 .. Len(s) /\ s[i] = e
        <3>1. CASE OpenStack(d, k) = Append(s, k)
            BY <3>1, <2>1, <2>3, <2>6
        <3>2. CASE OpenStack(d, k) = s
            BY <3>2, <2>3
        <3>3. CASE s # <<>> /\ OpenStack(d, k) = Front(s)
            BY <3>3, <2>3, <2>5, <2>6 DEF Front
        <3> QED BY <2>4, <3>1, <3>2, <3>3
    <2> QED BY <2>1, <2>2, <2>7 DEF IsOpenAt
<1> QED BY <1>3, <1>4

\* The closing tag at which the element that is open last is closed is its own.
LEMMA ClosedByItsOwn ==
    ASSUME NEW d, Doc(d), Balanced(d), NEW t \in 1 .. Len(d), d[t].kind = "close"
    PROVE  /\ OpenStack(d, t - 1) # <<>>
           /\ LET e == Last(OpenStack(d, t - 1))
              IN e \in 1 .. t - 1 /\ d[e].kind = "open" /\ d[e].name = d[t].name
                 /\ CloseOf(d, e) = t
<1>1. t - 1 \in 0 .. Len(d) /\ Len(d) \in Nat /\ t \in Nat /\ t - 1 \in Nat
    BY DEF Doc
<1>2. PICK s \in Seq(Nat) : s = OpenStack(d, t - 1)
    BY <1>1, StackType
<1>3. s # <<>> /\ d[Last(s)].name = d[t].name
    BY <1>2, StackNext
<1>4. Len(s) \in 1 .. Len(s)
    BY <1>3, EmptySeq
<1>5. PICK e : e = Last(s)
    OBVIOUS
<1>6. s[Len(s)] = e
    BY <1>5 DEF Last
<1>7. e \in 1 .. t - 1 /\ d[e].kind = "open" /\ IsOpenAt(d, e, t - 1)
    BY <1>1, <1>2, <1>4, <1>6, StackRises DEF Risen, IsOpenAt
<1> DEFINE Closers == {j \in DOMAIN d : j > e /\ d[j].kind = "close" /\ Parent(d, j) = e}
<1>8. t \in Closers
    <2>1. Parent(d, t) = e
        BY <1>2, <1>3, <1>5 DEF Parent, OpenStack
    <2> QED BY <2>1, <1>1, <1>7 DEF Doc
<1>9. ASSUME NEW j \in Closers, j < t PROVE FALSE
    <2>1. j \in 1 .. Len(d) /\ j > e /\ d[j].kind = "close" /\ Parent(d, j) = e
        BY DEF Doc
    <2>2. j - 1 \in 0 .. Len(d) /\ j - 1 \in Nat /\ j \in 0 .. t - 1 /\ j \in Nat /\ e <= j
        BY <2>1, <1>1, <1>7, <1>9
    <2>3. PICK r \in Seq(Nat) : r = OpenStack(d, j - 1)
        BY <2>2, StackType
    <2>4. r # <<>> /\ OpenStack(d, j) = Front(r)
        BY <2>1, <2>3, StackNext
    <2>5. r[Len(r)] = e
        BY <2>1, <2>3, <2>4 DEF Parent, OpenStack, Last
    <2>6. Len(r) \in 1 .. Len(r) /\ Len(r) \in Nat
        BY <2>4, EmptySeq
    <2>7. PICK k \in 1 .. Len(Front(r)) : Front(r)[k] = e
        <3>1. j \in 0 .. t - 1
            BY <2>2
        <3>2. IsOpenAt(d, e, j)
            BY <2>2, <3>1, <1>1, <1>7, OpenSinceBegun
        <3> QED BY <2>4, <3>2 DEF IsOpenAt
    <2>8. k \in 1 .. Len(r) - 1 /\ r[k] = e
        BY <2>6, <2>7 DEF Front
    <2>9. r[k] < r[Len(r)]
        BY <2>2, <2>3, <2>6, <2>8, StackRises DEF Risen
    <2> QED BY <2>5, <2>8, <2>9, <1>7, <1>1
<1>10. CloseOf(d, e) = t
    <2>1. Closers \in SUBSET Nat /\ Closers # {}
        BY <1>8 DEF Doc
    <2>2. CloseOf(d, e) = Min(Closers)
        BY DEF CloseOf
    <2> HIDE DEF Closers
    <2>3. Min(Closers) \in Closers /\ \A y \in Closers : Min(Closers) <= y
        BY <2>1, MinIsLeast
    <2>4. PICK j \in Closers : j = Min(Closers)
        BY <2>3
    <2>5. j \in Nat /\ j <= t
        BY <2>1, <2>3, <2>4, <1>8
    <2>6. ~(j < t)
        BY <1>9
    <2> QED BY <2>2, <2>4, <2>5, <2>6, <1>1
<1> QED BY <1>2, <1>3, <1>5, <1>7, <1>10

\* Tokens that are neither opening nor closing tags change nothing.
LEMMA SameStack ==
    ASSUME NEW d, Doc(d), Balanced(d), NEW i \in 0 .. Len(d), NEW j \in i .. Len(d),
           \A k \in i + 1 .. j : d[k].kind \notin {"open", "close"}
    PROVE  OpenStack(d, j) = OpenStack(d, i)
<1> DEFINE Bad == {k \in i .. j : OpenStack(d, k) # OpenStack(d, i)}
<1> SUFFICES ASSUME Bad # {} PROVE FALSE
    BY DEF Doc
<1>1. PICK k \in Bad : \A l \in Bad : k <= l
    <2>1. Bad \in SUBSET Nat /\ Bad # {}
        BY DEF Doc
    <2> HIDE DEF Bad
    <2> QED BY <2>1, LeastNat
<1>2. k \in i + 1 .. j /\ k \in 1 .. Len(d) /\ k - 1 \in i .. j /\ k - 1 \notin Bad
    BY <1>1 DEF Doc
<1>3. OpenStack(d, k) = OpenStack(d, k - 1)
    BY <1>2, StackNext
<1> QED BY <1>1, <1>2, <1>3
-----------------------------------------------------------------------------
(* The tokens behind the cursor. *)

\* The text the theorems are about: well-formed, and a processing instruction
\* stands outside of the elements only (inside of one it can stop the open).
GoodText ==
    /\ WellFormed(doc)
    /\ \A t \in DOMAIN doc : Kind(t) = "pi" => OpenStack(doc, t) = <<>>

\* The first t tokens begin before the cursor, the others at or behind it.
Behind(cur, t) ==
    /\ t \in 0 .. Len(doc)
    /\ \A u \in 1 .. t : At(u) < cur
    /\ \A u \in t + 1 .. Len(doc) : cur <= At(u)

\* A good text is a balanced one.
LEMMA GoodDoc ==
    ASSUME IsCase, GoodText
    PROVE  Doc(doc) /\ Balanced(doc) /\ Len(doc) \in Nat /\ DOMAIN doc = 1 .. Len(doc)
BY CaseFacts DEF Doc, GoodText, WellFormed

\* The tokens on both sides of a cursor behind the begin of a token.
LEMMA BehindToken ==
    ASSUME IsCase, NEW t \in DOMAIN doc, NEW cur \in Nat, At(t) < cur, cur <= At(t + 1)
    PROVE  Behind(cur, t)
<1>1. doc \in Texts /\ DOMAIN doc = 1 .. Len(doc) /\ Len(doc) \in Nat
    BY CaseFacts
<1>2. t \in 1 .. Len(doc) /\ t \in Nat
    BY <1>1
<1>3. ASSUME NEW u \in 1 .. t PROVE At(u) < cur
    <2>1. CASE u = t
        BY <2>1
    <2>2. CASE u # t
        <3>1. u \in 1 .. Len(doc) /\ t \in u + 1 .. Len(doc) /\ u \in Nat
            BY <1>2, <2>2
        <3>2. /\ Off(doc, u) \in Nat /\ Width(doc[u]) \in Nat /\ Width(doc[u]) >= 2
              /\ Off(doc, u + 1) = Off(doc, u) + Width(doc[u])
              /\ Off(doc, u + 1) <= Off(doc, t)
            BY <1>1, <3>1, TokenInText
        <3>3. Off(doc, t) \in Nat
            BY <1>1, <1>2, TokenInText
        <3> QED BY <3>2, <3>3 DEF At
    <2> QED BY <2>1, <2>2
<1>4. ASSUME NEW u \in t + 1 .. Len(doc) PROVE cur <= At(u)
    <2>1. Off(doc, t + 1) <= Off(doc, u) /\ Off(doc, t) \in Nat /\ Width(doc[t]) \in Nat
          /\ Off(doc, t + 1) = Off(doc, t) + Width(doc[t])
        BY <1>1, <1>2, TokenInText
    <2>2. Off(doc, u) \in Nat
        <3>1. u \in 1 .. Len(doc)
            BY <1>1, <1>2
        <3> QED BY <3>1, <1>1, TokenInText
    <2> QED BY <2>1, <2>2 DEF At
<1>5. t \in 0 .. Len(doc)
    BY <1>2
<1> QED BY <1>3, <1>4, <1>5 DEF Behind

\* In front of a token, and at the beginning of the text.
LEMMA BehindLast ==
    ASSUME IsCase, NEW t \in DOMAIN doc
    PROVE  Behind(At(t), t - 1)
<1>1. doc \in Texts /\ DOMAIN doc = 1 .. Len(doc) /\ Len(doc) \in Nat /\ t \in 1 .. Len(doc)
    BY CaseFacts
<1>2. CASE t = 1
    <2>1. At(1) = 0
        BY <1>1, OffFirst DEF At
    <2>2. \A u \in 1 .. Len(doc) : At(u) \in Nat
        BY <1>1, TokenFacts
    <2>3. \A u \in 1 .. Len(doc) : 0 <= At(u)
        BY <2>2
    <2>4. t - 1 = 0 /\ 0 \in 0 .. Len(doc) /\ 0 + 1 = 1
        BY <1>1, <1>2
    <2> QED BY <2>1, <2>3, <2>4, <1>2 DEF Behind
<1>3. CASE t # 1
    <2>1. t - 1 \in DOMAIN doc /\ (t - 1) + 1 = t
        BY <1>1, <1>3
    <2>2. /\ At(t - 1) \in Nat /\ At(t) \in Nat /\ Width(doc[t - 1]) >= 2
          /\ Width(doc[t - 1]) \in Nat /\ At(t) = At(t - 1) + Width(doc[t - 1])
        BY <2>1, TokenFacts
    <2>3. At(t - 1) < At(t) /\ At(t) <= At((t - 1) + 1)
        BY <2>1, <2>2
    <2> QED BY <2>1, <2>2, <2>3, BehindToken
<1> QED BY <1>2, <1>3

\* Nothing lies behind the start.
LEMMA BehindStart == ASSUME IsCase PROVE Behind(0, 0)
<1>1. Len(doc) \in Nat /\ DOMAIN doc = 1 .. Len(doc)
    BY CaseFacts
<1>2. \A u \in 1 .. Len(doc) : At(u) \in Nat
    BY <1>1, TokenFacts
<1>3. \A u \in 0 + 1 .. Len(doc) : 0 <= At(u)
    BY <1>2
<1> QED BY <1>1, <1>3 DEF Behind

\* What is known of the tag the scan comes to next.
LEMMA TagBehind ==
    ASSUME IsCase, GoodText, NEW cur \in Nat, NEW t, Behind(cur, t), TagsFrom(cur) # {},
           NEW tag, tag = NextTag(cur)
    PROVE  /\ tag \in t + 1 .. Len(doc) /\ tag \in DOMAIN doc /\ t \in Nat /\ tag \in Nat
           /\ tag - 1 \in 0 .. Len(doc) /\ Len(doc) \in Nat
           /\ OpenStack(doc, tag - 1) = OpenStack(doc, t)
           /\ \A e \in Elements(doc) : e <= tag - 1 => e <= t
           /\ Kind(tag) \notin {"text", "cut", "cutblock"}
           /\ t < Len(doc) /\ (Kind(t + 1) # "text" => tag = t + 1)
<1>1. Doc(doc) /\ Balanced(doc) /\ Len(doc) \in Nat /\ DOMAIN doc = 1 .. Len(doc)
    BY GoodDoc
<1>2. /\ tag \in TagsFrom(cur) /\ tag \in DOMAIN doc /\ tag \in Nat
      /\ \A u \in TagsFrom(cur) : tag <= u
      /\ cur <= At(tag) /\ Kind(tag) # "text" /\ At(tag) \in Nat
    BY TagFacts
<1>3. t \in 0 .. Len(doc) /\ t \in Nat
    BY <1>1 DEF Behind
<1>4. tag \in t + 1 .. Len(doc)
    <2>1. ~(At(tag) < cur)
        BY <1>2
    <2>2. tag \notin 1 .. t
        BY <2>1 DEF Behind
    <2> QED BY <2>2, <1>1, <1>2, <1>3
<1>5. ASSUME NEW u \in t + 1 .. tag - 1 PROVE Kind(u) = "text"
    <2>1. u \in DOMAIN doc /\ u \in t + 1 .. Len(doc) /\ u \in Nat
        BY <1>1, <1>2, <1>3, <1>4
    <2>2. cur <= At(u) /\ At(u) \in Nat
        BY <2>1, TokenFacts DEF Behind
    <2>3. u \notin TagsFrom(cur)
        <3>1. ~(tag <= u)
            BY <1>2, <2>1
        <3> QED BY <3>1, <1>2
    <2> QED BY <2>1, <2>2, <2>3 DEF TagsFrom
<1>6. OpenStack(doc, tag - 1) = OpenStack(doc, t)
    <2>1. tag - 1 \in t .. Len(doc)
        BY <1>1, <1>3, <1>4
    <2>2. \A u \in t + 1 .. tag - 1 : doc[u].kind \notin {"open", "close"}
        BY <1>5 DEF Kind
    <2> QED BY <2>1, <2>2, <1>1, <1>3, SameStack
<1>7. ASSUME NEW e \in Elements(doc), e <= tag - 1 PROVE e <= t
    <2>1. e \in 1 .. Len(doc) /\ Kind(e) \in ElementKinds
        BY <1>1 DEF Elements, Kind
    <2>2. Kind(e) # "text"
        BY <2>1 DEF ElementKinds
    <2>3. e \notin t + 1 .. tag - 1
        BY <2>2, <1>5
    <2> QED BY <2>1, <2>3, <1>2, <1>3, <1>7
<1>8. Kind(tag) \notin {"cut", "cutblock"}
    BY <1>1, <1>2 DEF Balanced, Kind
<1>9. t < Len(doc) /\ (Kind(t + 1) # "text" => tag = t + 1)
    <2>1. t < Len(doc)
        BY <1>1, <1>3, <1>4
    <2>2. tag # t + 1 => t + 1 \in t + 1 .. tag - 1
        BY <1>2, <1>3, <1>4
    <2> QED BY <2>1, <2>2, <1>5
<1> QED BY <1>1, <1>2, <1>3, <1>4, <1>6, <1>7, <1>8, <1>9

\* Behind the last tag nothing is open.
LEMMA NoTagBehind ==
    ASSUME IsCase, GoodText, NEW cur \in Nat, NEW t, Behind(cur, t), TagsFrom(cur) = {}
    PROVE  /\ OpenStack(doc, t) = <<>>
           /\ \A e \in Elements(doc) : e <= t
           /\ t \in Nat /\ t \in 0 .. Len(doc)
<1>1. Doc(doc) /\ Balanced(doc) /\ Len(doc) \in Nat /\ DOMAIN doc = 1 .. Len(doc)
    BY GoodDoc
<1>3. t \in 0 .. Len(doc) /\ t \in Nat
    BY <1>1 DEF Behind
<1>5. ASSUME NEW u \in t + 1 .. Len(doc) PROVE Kind(u) = "text"
    <2>1. u \in DOMAIN doc
        BY <1>1, <1>3
    <2>2. cur <= At(u) /\ At(u) \in Nat
        BY <2>1, TokenFacts DEF Behind
    <2> QED BY <2>1, <2>2 DEF TagsFrom
<1>6. OpenStack(doc, Len(doc)) = OpenStack(doc, t)
    <2>1. Len(doc) \in t .. Len(doc)
        BY <1>1, <1>3
    <2>2. \A u \in t + 1 .. Len(doc) : doc[u].kind \notin {"open", "close"}
        BY <1>5 DEF Kind
    <2> QED BY <2>1, <2>2, <1>1, <1>3, SameStack
<1>7. OpenStack(doc, Len(doc)) = <<>>
    BY <1>1 DEF Balanced, OpenStack
<1>8. ASSUME NEW e \in Elements(doc) PROVE e <= t
    <2>1. e \in 1 .. Len(doc) /\ Kind(e) \in ElementKinds
        BY <1>1 DEF Elements, Kind
    <2>2. Kind(e) # "text"
        BY <2>1 DEF ElementKinds
    <2>3. e \notin t + 1 .. Len(doc)
        BY <2>2, <1>5
    <2> QED BY <2>1, <2>3, <1>1, <1>3
<1> QED BY <1>3, <1>6, <1>7, <1>8

\* What a tag does to the open elements.
LEMMA TagOpens ==
    ASSUME IsCase, GoodText, NEW tag \in DOMAIN doc
    PROVE  LET st == OpenStack(doc, tag - 1)
           IN /\ st \in Seq(Nat) /\ tag \in Nat \ {0} /\ tag - 1 \in Nat
              /\ Kind(tag) = "open" => OpenStack(doc, tag) = Append(st, tag)
              /\ Kind(tag) = "close" =>
                    /\ st # <<>> /\ OpenStack(doc, tag) = Front(st)
                    /\ Last(st) \in Elements(doc) /\ Kind(Last(st)) = "open"
                    /\ doc[Last(st)].name = doc[tag].name
                    /\ CloseOf(doc, Last(st)) = tag
              /\ Kind(tag) \notin {"open", "close"} => OpenStack(doc, tag) = st
              /\ Parent(doc, tag) = IF st = <<>> THEN 0 ELSE Last(st)
              /\ Kind(tag) = "pi" => st = <<>>
<1>1. /\ Doc(doc) /\ Balanced(doc) /\ Len(doc) \in Nat /\ DOMAIN doc = 1 .. Len(doc)
      /\ tag \in 1 .. Len(doc)
    BY GoodDoc
<1>2. tag \in Nat \ {0} /\ tag - 1 \in Nat
    BY <1>1
<1>3. PICK st \in Seq(Nat) : st = OpenStack(doc, tag - 1)
    BY <1>2, StackType
<1>4. /\ Kind(tag) = "open" => OpenStack(doc, tag) = Append(st, tag)
      /\ Kind(tag) = "close" => OpenStack(doc, tag) = Front(st)
      /\ Kind(tag) \notin {"open", "close"} => OpenStack(doc, tag) = st
    BY <1>1, <1>3, StackNext DEF Kind
<1>5. Parent(doc, tag) = IF st = <<>> THEN 0 ELSE Last(st)
    BY <1>3 DEF Parent, OpenStack
<1>6. ASSUME Kind(tag) = "close"
      PROVE  /\ st # <<>> /\ Last(st) \in Elements(doc) /\ Kind(Last(st)) = "open"
             /\ doc[Last(st)].name = doc[tag].name /\ CloseOf(doc, Last(st)) = tag
    <2>1. /\ st # <<>> /\ Last(st) \in 1 .. tag - 1 /\ doc[Last(st)].kind = "open"
          /\ doc[Last(st)].name = doc[tag].name /\ CloseOf(doc, Last(st)) = tag
        BY <1>1, <1>3, <1>6, ClosedByItsOwn DEF Kind
    <2>2. Last(st) \in Elements(doc)
        BY <2>1, <1>1 DEF Elements, ElementKinds
    <2> QED BY <2>1, <2>2 DEF Kind
<1>7. Kind(tag) = "pi" => st = <<>>
    BY <1>3, <1>4 DEF GoodText
<1> QED BY <1>2, <1>3, <1>4, <1>5, <1>6, <1>7

-----------------------------------------------------------------------------
(* The stack, and its innermost activation. *)

\* Changes of the stack, seen pointwise.
LEMMA StackGoto ==
    ASSUME SInv, SInv', calls # <<>>, NEW f, calls' = SetTop(f)
    PROVE  /\ Len(calls') = Len(calls) /\ calls' # <<>> /\ F' = f
           /\ \A j \in 1 .. Len(calls) : calls'[j] = IF j = Len(calls) THEN f ELSE calls[j]
<1>1. Len(calls) \in Nat \ {0} /\ DOMAIN calls = 1 .. Len(calls)
    BY TopFacts DEF SInv
<1>2. calls' \in Seq(Frame)
    BY DEF SInv, Stack
<1>3. /\ DOMAIN calls' = DOMAIN calls
      /\ \A j \in 1 .. Len(calls) : calls'[j] = IF j = Len(calls) THEN f ELSE calls[j]
    BY <1>1 DEF SetTop
<1>4. Len(calls') = Len(calls)
    <2>1. DOMAIN calls' = 1 .. Len(calls') /\ Len(calls') \in Nat
        BY <1>2, LenProperties
    <2>2. PICK m, n \in Nat : m = Len(calls') /\ n = Len(calls)
        BY <2>1, <1>1
    <2>3. 1 .. m = 1 .. n
        BY <2>1, <2>2, <1>1, <1>3
    <2>4. n \in 1 .. m /\ m <= n
        BY <2>2, <2>3, <1>1
    <2> QED BY <2>2, <2>4
<1>5. F' = f
    <2>1. Len(calls) \in 1 .. Len(calls)
        BY <1>1
    <2> QED BY <2>1, <1>3, <1>4 DEF F
<1> QED BY <1>1, <1>2, <1>3, <1>4, <1>5, EmptySeq

LEMMA StackReturn ==
    ASSUME SInv, SInv', calls # <<>>, calls' = Front(calls)
    PROVE  /\ Len(calls') = Len(calls) - 1
           /\ \A j \in 1 .. Len(calls) - 1 : calls'[j] = calls[j]
           /\ calls' # <<>> => Len(calls) > 1 /\ F' = calls[Len(calls) - 1]
           /\ calls' = <<>> => Len(calls) = 1
<1>1. Len(calls) \in Nat \ {0} /\ DOMAIN calls = 1 .. Len(calls) /\ calls \in Seq(Frame)
    BY TopFacts DEF SInv, Stack
<1>2. /\ Len(calls') = Len(calls) - 1 /\ DOMAIN calls' = 1 .. Len(calls) - 1
      /\ \A j \in 1 .. Len(calls) - 1 : calls'[j] = calls[j]
    BY <1>1 DEF Front
<1>3. calls' # <<>> => Len(calls') # 0
    BY EmptySeq DEF SInv, Stack
<1>4. calls' # <<>> => Len(calls) > 1 /\ F' = calls[Len(calls) - 1]
    BY <1>1, <1>2, <1>3 DEF F
<1>5. calls' = <<>> => Len(calls) = 1
    <2> SUFFICES ASSUME calls' = <<>> PROVE Len(calls) = 1
        OBVIOUS
    <2>1. Len(calls') = 0
        OBVIOUS
    <2>2. PICK n \in Nat : n = Len(calls)
        BY <1>1
    <2>3. 0 = n - 1
        BY <2>1, <2>2, <1>2
    <2>4. n = 1
        BY <2>3
    <2> QED BY <2>2, <2>4
<1> QED BY <1>2, <1>4, <1>5

\* What the activation knows behind an opening tag.
Met ==
    [F EXCEPT !.element = doc[T].name, !.fresh = FALSE, !.cur = At(T + 1),
              !.rptr = IF Kind(T) = "self" THEN At(T + 1) - 1 ELSE At(T + 1)]
MetWanted ==
    [Met EXCEPT !.rv = IF Wanted(F) THEN At(T + 1) ELSE @,
                !.buf = IF Wanted(F) THEN At(T + 1) ELSE @,
                !.starttag = Wanted(F)]

-----------------------------------------------------------------------------
(* Without a cache. *)

\* A lookup in the text has no cells.
Uncached ==
    /\ ~cached /\ live = {} /\ root = NULL
    /\ \A k \in 1 .. Len(calls) : calls[k].nc = NULL /\ calls[k].nnc = NULL

\* The cache is asked for nothing.
LEMMA TopUncached ==
    ASSUME Uncached, SInv, calls # <<>>
    PROVE  /\ F \in Frame /\ F.nc = NULL /\ F.nnc = NULL
           /\ \A rv : cacheNodeNew(F.nc, rv) => rv = NULL /\ UNCHANGED cacheVars
           /\ cacheInitLevel(F.nc) => UNCHANGED cacheVars
           /\ \A p : cacheDataSet(F.nnc, p) => UNCHANGED live
<1>1. Len(calls) \in 1 .. Len(calls) /\ F \in Frame
    BY TopFacts DEF SInv
<1>2. F.nc = NULL /\ F.nnc = NULL
    BY <1>1 DEF Uncached, F
<1> QED BY <1>1, <1>2 DEF cacheNodeNew, cacheInitLevel, cacheDataSet, heapVars

\* The innermost activation goes on.
LEMMA GotoUncached ==
    ASSUME Uncached, SInv, SInv', calls # <<>>, NEW f, calls' = SetTop(f),
           f.nc = NULL, f.nnc = NULL, UNCHANGED <<mode, root, live>>
    PROVE  Uncached'
<1>1. /\ Len(calls') = Len(calls)
      /\ \A j \in 1 .. Len(calls) : calls'[j] = IF j = Len(calls) THEN f ELSE calls[j]
    BY StackGoto
<1> QED BY <1>1 DEF Uncached, cached

\* It returns.
LEMMA ReturnUncached ==
    ASSUME Uncached, SInv, SInv', calls # <<>>, calls' = Front(calls),
           UNCHANGED <<mode, root, live>>
    PROVE  Uncached'
<1>1. PICK n \in Nat : n = Len(calls)
    BY TopFacts DEF SInv
<1>2. Len(calls') = n - 1 /\ \A j \in 1 .. n - 1 : calls'[j] = calls[j]
    BY <1>1, StackReturn
<1>3. \A j \in 1 .. n - 1 : j \in 1 .. n
    BY <1>1
<1> QED BY <1>1, <1>2, <1>3 DEF Uncached, cached

\* It calls.
LEMMA CallUncached ==
    ASSUME Uncached, SInv, calls # <<>>, Call, UNCHANGED <<mode, root, live>>
    PROVE  Uncached'
<1>1. F \in Frame /\ F.nc = NULL /\ F.nnc = NULL
    BY TopUncached
<1>2. PICK f, g : f = [F EXCEPT !.cur = At(T) + 1] /\ g = Activation(F.nnc, AnyName, AllNums, At(T))
    OBVIOUS
<1>3. f.nc = NULL /\ f.nnc = NULL /\ g.nc = NULL /\ g.nnc = NULL
    BY <1>1, <1>2 DEF Frame, Activation
<1>4. PICK n \in Nat : n = Len(calls) /\ DOMAIN calls = 1 .. n
    BY TopFacts, Zenon DEF SInv
<1>5. PICK s : s = SetTop(f)
    OBVIOUS
<1>6. calls \in Seq(Frame) /\ calls' = Append(s, g)
    BY <1>2, <1>5 DEF Call, SInv, Stack
<1>7. /\ s \in Seq({s[k] : k \in 1 .. n}) /\ Len(s) = n
      /\ \A k \in 1 .. n : s[k] = IF k = n THEN f ELSE calls[k]
    <2>1. DOMAIN s = 1 .. n /\ s = [k \in 1 .. n |-> IF k = n THEN f ELSE calls[k]]
        BY <1>4, <1>5, <1>6 DEF SetTop
    <2>2. s = [k \in 1 .. n |-> s[k]]
        BY <2>1
    <2> QED BY <2>1, <2>2, <1>4
<1>8. Len(calls') = n + 1 /\ \A k \in 1 .. n + 1 : calls'[k] = IF k = n + 1 THEN g ELSE s[k]
    BY <1>4, <1>6, <1>7, AppendProperties
<1>9. ASSUME NEW k \in 1 .. n + 1 PROVE calls'[k].nc = NULL /\ calls'[k].nnc = NULL
    <2>1. CASE k = n + 1
        BY <2>1, <1>3, <1>8
    <2>2. CASE k = n
        BY <2>2, <1>3, <1>4, <1>7, <1>8
    <2>3. CASE k \in 1 .. n - 1
        <3>1. k \in 1 .. n /\ k # n /\ k # n + 1
            BY ONLY <2>3, <1>4
        <3>2. calls'[k] = s[k] /\ s[k] = calls[k]
            BY <1>9, <3>1, <1>7, <1>8
        <3> QED BY <3>1, <3>2, <1>4 DEF Uncached
    <2> QED BY <2>1, <2>2, <2>3, <1>4
<1> QED BY <1>8, <1>9 DEF Uncached, cached

\* It returns or fails.
LEMMA LeaveUncached ==
    ASSUME Uncached, SInv, SInv', calls # <<>>, UNCHANGED <<mode, root, live>>,
           \/ \E f : Leave(f)
           \/ \E code : Fail(code)
           \/ \E len : ReturnWith(F.rv, F.buf, len, FALSE, 0)
    PROVE  Uncached'
<1>1. calls' = Front(calls)
    BY DEF Leave, Fail, ReturnWith
<1> QED BY <1>1, ReturnUncached

\* No step of a lookup makes a cell.
LEMMA UncachedStep == SInv /\ SInv' /\ Uncached /\ [Next]_vars => Uncached'
<1> SUFFICES ASSUME SInv, SInv', Uncached, [Next]_vars PROVE Uncached'
    OBVIOUS
<1> USE DEF Quiet, Keep
<1>1. UNCHANGED cacheVars => UNCHANGED live
    BY DEF cacheVars, heapVars
<1>2. pc \in Inside1 => calls # <<>>
    BY DEF SInv, Places
<1>3. CASE Start
    <2>1. /\ root' = NULL /\ calls' = <<Activation(NULL, req.name, req.num, 0)>>
          /\ UNCHANGED <<mode, live>>
        BY <1>1, <1>3 DEF Start, Uncached
    <2>2. Len(calls') = 1 /\ calls'[1].nc = NULL /\ calls'[1].nnc = NULL
        BY <2>1 DEF Activation
    <2> QED BY <2>1, <2>2 DEF Uncached, cached
<1>4. CASE EnterTooShort \/ NoMoreTags \/ EndOfSubsection \/ CloseBeforeOpen \/ BlockCutOff
           \/ TagCutOff \/ OpenAtEnd \/ ContentEnds \/ ContentCutOff \/ ClosingOther \/ Unwind
    <2>1. calls # <<>> /\ UNCHANGED <<mode, root, live>>
        BY <1>1, <1>2, <1>4 DEF EnterTooShort, NoMoreTags, EndOfSubsection, CloseBeforeOpen,
           BlockCutOff, TagCutOff, OpenAtEnd, NothingFollows, ContentEnds, ContentCutOff,
           InContent, ClosingOther, Unwind, AtTag, Inside1
    <2>2. \/ \E f : Leave(f)
          \/ \E code : Fail(code)
          \/ \E len : ReturnWith(F.rv, F.buf, len, FALSE, 0)
        BY <1>4 DEF EnterTooShort, NoMoreTags, EndOfSubsection, CloseBeforeOpen,
           BlockCutOff, TagCutOff, OpenAtEnd, ContentEnds, ContentCutOff, ClosingOther, Unwind
    <2> QED BY <2>1, <2>2, LeaveUncached
<1>5. CASE ContentChild \/ ClosingMismatch
    <2>1. calls # <<>> /\ UNCHANGED <<mode, root, live>> /\ Call
        BY <1>1, <1>2, <1>5 DEF ContentChild, ClosingMismatch, InContent, Inside1
    <2> QED BY <2>1, CallUncached
<1>6. CASE Finish \/ Release \/ FreeStep \/ Closed \/ Stopped \/ UNCHANGED vars
    <2>1. UNCHANGED <<mode, root, calls>> /\ live' \subseteq live
        BY <1>1, <1>6 DEF Finish, Release, FreeStep, Closed, Stopped, vars, scanVars, FreeCall,
                          FreeChild, FreeSelf, heapVars
    <2> QED BY <2>1 DEF Uncached, cached
<1>7. ASSUME calls # <<>>, UNCHANGED <<mode, root, live>>,
             NEW f, calls' = SetTop(f), f.nc = F.nc, f.nnc = F.nnc \/ f.nnc = NULL
      PROVE  Uncached'
    BY <1>7, TopUncached, GotoUncached
<1>8. CASE Enter \/ BlockSkipped \/ BlockData
    <2>1. PICK f : calls' = SetTop(f) /\ (f = F \/ \E cur : f = Head1(F, cur))
        BY <1>8 DEF Enter, BlockSkipped, BlockData, Goto
    <2>2. calls # <<>> /\ UNCHANGED <<mode, root>> /\ (UNCHANGED cacheVars \/ UNCHANGED live)
        BY <1>2, <1>8, TopUncached DEF Enter, BlockSkipped, BlockData, AtTag, Inside1
    <2>3. F \in Frame
        BY <2>2, TopUncached
    <2>4. f.nc = F.nc /\ f.nnc = F.nnc
        BY <2>1, <2>3 DEF Head1, Frame
    <2> QED BY <1>1, <1>7, <2>1, <2>2, <2>4
<1>9. CASE ElementCloses \/ ContentBlock \/ ContentClose \/ Resume
    <2>1. PICK f : calls' = SetTop(f) /\ \E cur : f = [F EXCEPT !.cur = cur]
        BY <1>9 DEF ElementCloses, ContentBlock, ContentClose, Resume, Goto
    <2>2. calls # <<>> /\ UNCHANGED <<mode, root, live>>
        BY <1>1, <1>2, <1>9 DEF ElementCloses, ContentBlock, ContentClose, Resume, AtTag,
                                InContent, Inside1
    <2>3. F \in Frame
        BY <2>2, TopUncached
    <2>4. f.nc = F.nc /\ f.nnc = F.nnc
        BY <2>1, <2>3 DEF Frame
    <2> QED BY <1>7, <2>1, <2>2, <2>4
<1>10. CASE BlockNode \/ ElementFound
    <2>1. calls # <<>>
        BY <1>2, <1>10 DEF BlockNode, ElementFound, AtTag, Inside1
    <2>2. PICK rv : cacheNodeNew(F.nc, rv)
        BY <1>10 DEF BlockNode, ElementFound
    <2>3. F \in Frame
        BY <2>1, TopUncached
    <2>4. CASE BlockNode
        <3>1. PICK r \in CellOrNull : cacheNodeNew(F.nc, r) /\ calls' = SetTop(WithCell(F, r))
            BY <2>4 DEF BlockNode, Goto
        <3>2. WithCell(F, r).nc = F.nc /\ WithCell(F, r).nnc = r /\ r = NULL /\ UNCHANGED live
            BY <3>1, <2>1, <2>3, <1>1, TopUncached DEF WithCell, Frame
        <3> QED BY <3>1, <3>2, <2>1, <2>4, <1>7 DEF BlockNode
    <2>5. CASE ElementFound
        <3>1. PICK r \in CellOrNull :
                 /\ cacheNodeNew(F.nc, r)
                 /\ calls' = SetTop(WithCell(Met, r)) \/ calls' = SetTop(WithCell(MetWanted, r))
            BY <2>5 DEF ElementFound, Goto, Met, MetWanted
        <3>2. r = NULL /\ UNCHANGED live
            BY <3>1, <2>1, <1>1, TopUncached
        <3>3. \A g \in {WithCell(Met, r), WithCell(MetWanted, r)} : g.nc = F.nc /\ g.nnc = r
            <4>1. PICK m : m = Met
                OBVIOUS
            <4>2. DOMAIN m = DOMAIN F /\ m.nc = F.nc
                BY <4>1, <2>3 DEF Met, Frame
            <4>3. PICK mw : mw = MetWanted
                OBVIOUS
            <4>4. DOMAIN mw = DOMAIN F /\ mw.nc = F.nc
                BY <4>2, <4>1, <4>3 DEF MetWanted
            <4>5. "nnc" \in DOMAIN F /\ "nc" \in DOMAIN F
                BY <2>3 DEF Frame
            <4>6. PICK g1, g2 : g1 = WithCell(m, r) /\ g2 = WithCell(mw, r)
                OBVIOUS
            <4>7. g1.nc = F.nc /\ g1.nnc = r /\ g2.nc = F.nc /\ g2.nnc = r
                BY ONLY <4>2, <4>4, <4>5, <4>6 DEF WithCell
            <4> QED BY <4>1, <4>3, <4>6, <4>7
        <3> QED BY <3>1, <3>2, <3>3, <2>1, <2>5, <1>7 DEF ElementFound
    <2> QED BY <1>10, <2>4, <2>5
<1>11. CASE SelfData \/ ClosingMatch
    <2>1. calls # <<>> /\ UNCHANGED <<mode, root>> /\ \E p : cacheDataSet(F.nnc, p)
        BY <1>2, <1>11 DEF SelfData, ClosingMatch, Inside1
    <2>2. UNCHANGED live /\ F \in Frame
        BY <2>1, TopUncached
    <2>3. \/ \E f : Leave(f)
          \/ \E f : calls' = SetTop(f) /\ f.nc = F.nc /\ f.nnc = F.nnc
        <3>1. CASE SelfData
            <4>1. PICK f : f = IF Wanted(F) THEN [F EXCEPT !.rv = F.cur, !.buf = F.cur, !.len = 0]
                               ELSE F
                OBVIOUS
            <4>2. \/ Leave(f)
                  \/ calls' = SetTop(Head1([f EXCEPT !.found = @ + 1], F.cur))
                BY <3>1, <4>1 DEF SelfData, Goto
            <4>3. f.nc = F.nc /\ f.nnc = F.nnc /\ DOMAIN f = DOMAIN F
                BY <4>1, <2>2 DEF Frame
            <4>4. PICK g : g = Head1([f EXCEPT !.found = @ + 1], F.cur)
                OBVIOUS
            <4>5. g.nc = F.nc /\ g.nnc = F.nnc
                BY <4>3, <4>4, <2>2 DEF Head1, Frame
            <4> QED BY <4>2, <4>4, <4>5
        <3>2. CASE ClosingMatch
            <4>1. PICK f : f = [F EXCEPT !.len = At(T) - F.rv, !.starttag = FALSE]
                OBVIOUS
            <4>2. \/ \E g : Leave(g)
                  \/ calls' = SetTop(Head1([F EXCEPT !.found = @ + 1], At(T + 1)))
                  \/ calls' = SetTop(Head1([f EXCEPT !.found = @ + 1], Ps + 1))
                BY <3>2, <4>1 DEF ClosingMatch, Goto
            <4>3. f.nc = F.nc /\ f.nnc = F.nnc /\ DOMAIN f = DOMAIN F
                BY <4>1, <2>2 DEF Frame
            <4>4. PICK g, h : /\ g = Head1([F EXCEPT !.found = @ + 1], At(T + 1))
                              /\ h = Head1([f EXCEPT !.found = @ + 1], Ps + 1)
                OBVIOUS
            <4>5. g.nc = F.nc /\ g.nnc = F.nnc /\ h.nc = F.nc /\ h.nnc = F.nnc
                BY <4>3, <4>4, <2>2 DEF Head1, Frame
            <4> QED BY <4>2, <4>4, <4>5
        <3> QED BY <1>11, <3>1, <3>2
    <2> QED BY <2>1, <2>2, <2>3, <1>7, LeaveUncached
<1>12. CASE ElementOther \/ ElementTooLong \/ ClosingPassedOver
    <2>1. calls # <<>> /\ UNCHANGED <<mode, root, live>>
        BY <1>1, <1>2, <1>12 DEF ElementOther, ElementTooLong, ClosingPassedOver, AtTag, Inside1
    <2>2. F \in Frame
        BY <2>1, TopUncached
    <2>3. \E f : calls' = SetTop(f) /\ f.nc = F.nc /\ f.nnc = F.nnc
        <3>1. CASE ElementOther
            <4>1. PICK f : f = [F EXCEPT !.element = doc[T].name, !.fresh = FALSE,
                          !.cur = At(T + 1), !.rptr = NoPos,
                          !.rv = NoPos, !.buf = NoPos, !.len = 0]
                OBVIOUS
            <4>2. calls' = SetTop(f) \/ calls' = SetTop(Head1(f, f.cur))
                BY <3>1, <4>1 DEF ElementOther, Goto
            <4>3. f.nc = F.nc /\ f.nnc = F.nnc /\ DOMAIN f = DOMAIN F
                BY <4>1, <2>2 DEF Frame
            <4>4. Head1(f, f.cur).nc = F.nc /\ Head1(f, f.cur).nnc = F.nnc
                BY <4>3, <2>2 DEF Head1, Frame
            <4> QED BY <4>2, <4>3, <4>4
        <3>2. CASE ElementTooLong
            <4>1. PICK f : f = [F EXCEPT !.element = F.name, !.fresh = TRUE,
                                 !.cur = At(T) + 1, !.rptr = NoPos,
                                 !.rv = NoPos, !.buf = NoPos, !.len = 0]
                OBVIOUS
            <4>2. calls' = SetTop(f)
                BY <3>2, <4>1 DEF ElementTooLong, Goto
            <4>3. f.nc = F.nc /\ f.nnc = F.nnc
                BY <4>1, <2>2 DEF Frame
            <4> QED BY <4>2, <4>3
        <3>3. CASE ClosingPassedOver
            <4>1. calls' = SetTop(Head1(F, Ps + 1))
                BY <3>3 DEF ClosingPassedOver, Goto
            <4>2. Head1(F, Ps + 1).nc = F.nc /\ Head1(F, Ps + 1).nnc = F.nnc
                BY <2>2 DEF Head1, Frame
            <4> QED BY <4>1, <4>2
        <3> QED BY <1>12, <3>1, <3>2, <3>3
    <2> QED BY <2>1, <2>3, <1>7
<1> QED BY <1>3, <1>4, <1>5, <1>6, <1>8, <1>9, <1>10, <1>11, <1>12 DEF Next, ScanStep
=============================================================================
