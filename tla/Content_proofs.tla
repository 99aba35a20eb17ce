--------------------------- MODULE Content_proofs ---------------------------
(***************************************************************************)
(* What a program reads from a node stays in its bounds: the cursors and   *)
(* the pieces of text they find in the text, copies and strings in their   *)
(* buffers, for every tag and every text; the text of a section is the one *)
(* that is meant, between the comments or in the CDATA; and the attributes *)
(* of a tag are found by their positions, in order, and by their names.    *)
(***************************************************************************)
EXTENDS Content, SequenceTheorems, WellFoundedInduction, TLAPS

-----------------------------------------------------------------------------
(* Least and greatest elements. *)

LEMMA LeastOfNat ==
    ASSUME NEW S \in SUBSET Nat, S # {}
    PROVE  \E x \in S : \A y \in S : x <= y
<1>1. PICK x \in S : \A y \in S : ~(<<y, x>> \in OpToRel(<, Nat))
    BY NatLessThanWellFounded, WFMin
<1>2. \A y \in S : ~(y < x)
    BY <1>1 DEF OpToRel
<1> QED BY <1>2

\* The least of some integers that are at least a, the greatest of some at most b.
LEMMA LeastOfInts ==
    ASSUME NEW a \in Int, NEW S \in SUBSET Int, S # {}, \A k \in S : a <= k
    PROVE  Min(S) \in S /\ \A y \in S : Min(S) <= y
<1> DEFINE R == {x \in Nat : a + x \in S}
<1>1. R \in SUBSET Nat /\ R # {}
    <2>1. PICK y \in S : TRUE
        OBVIOUS
    <2>2. y - a \in Nat /\ a + (y - a) = y
        BY <2>1
    <2> QED BY <2>2
<1>2. \A y \in S : y - a \in R
    OBVIOUS
<1>3. \A x \in R : x \in Nat /\ a + x \in S
    OBVIOUS
<1>4. \E x \in R : \A y \in R : x <= y
    <2> HIDE DEF R
    <2> QED BY <1>1, LeastOfNat
<1>5. PICK x \in R : \A y \in R : x <= y
    BY <1>4
<1>6. a + x \in S /\ \A y \in S : a + x <= y
    <2> HIDE DEF R
    <2> QED BY <1>2, <1>3, <1>5
<1> QED BY <1>6 DEF Min

LEMMA GreatestOfInts ==
    ASSUME NEW b \in Int, NEW S \in SUBSET Int, S # {}, \A k \in S : k <= b
    PROVE  Max(S) \in S /\ \A y \in S : Max(S) >= y
<1> DEFINE R == {x \in Nat : b - x \in S}
<1>1. R \in SUBSET Nat /\ R # {}
    <2>1. PICK y \in S : TRUE
        OBVIOUS
    <2>2. b - y \in Nat /\ b - (b - y) = y
        BY <2>1
    <2> QED BY <2>2
<1>2. \A y \in S : b - y \in R
    OBVIOUS
<1>3. \A x \in R : x \in Nat /\ b - x \in S
    OBVIOUS
<1>4. \E x \in R : \A y \in R : x <= y
    <2> HIDE DEF R
    <2> QED BY <1>1, LeastOfNat
<1>5. PICK x \in R : \A y \in R : x <= y
    BY <1>4
<1>6. b - x \in S /\ \A y \in S : b - x >= y
    <2> HIDE DEF R
    <2> QED BY <1>2, <1>3, <1>5
<1> QED BY <1>6 DEF Max

\* Induction over an interval, from its end and from its beginning.
LEMMA Downwards ==
    ASSUME NEW a \in Int, NEW b \in Int, NEW S,
           \A i \in a .. b : (\A j \in i + 1 .. b : j \in S) => i \in S
    PROVE  \A i \in a .. b : i \in S
<1> DEFINE Bad == {k \in Nat : b - k \in a .. b /\ b - k \notin S}
<1>1. Bad = {}
    <2> SUFFICES ASSUME Bad # {} PROVE FALSE
        OBVIOUS
    <2>1. PICK k \in Bad : \A e \in Bad : k <= e
        <3>1. Bad \in SUBSET Nat
            OBVIOUS
        <3> HIDE DEF Bad
        <3> QED BY <3>1, LeastOfNat
    <2>2. PICK i \in a .. b : i = b - k
        BY <2>1
    <2>3. ASSUME NEW j \in i + 1 .. b PROVE j \in S
        <3>1. b - j \in Nat /\ b - (b - j) = j /\ j \in a .. b /\ ~(k <= b - j)
            BY <2>1, <2>2
        <3> QED BY <2>1, <3>1
    <2> QED BY <2>1, <2>2, <2>3
<1>2. ASSUME NEW i \in a .. b PROVE i \in S
    <2>1. b - i \in Nat /\ b - (b - i) = i
        OBVIOUS
    <2> QED BY <1>1, <2>1
<1> QED BY <1>2

LEMMA Upwards ==
    ASSUME NEW a \in Int, NEW b \in Int, NEW S, a \in S,
           \A i \in a + 1 .. b : i - 1 \in S => i \in S
    PROVE  \A i \in a .. b : i \in S
<1> DEFINE Bad == {k \in Nat : a + k <= b /\ a + k \notin S}
<1>1. Bad = {}
    <2> SUFFICES ASSUME Bad # {} PROVE FALSE
        OBVIOUS
    <2>1. PICK k \in Bad : \A e \in Bad : k <= e
        <3>1. Bad \in SUBSET Nat
            OBVIOUS
        <3> HIDE DEF Bad
        <3> QED BY <3>1, LeastOfNat
    <2>2. k \in Nat /\ k # 0 /\ a + k <= b /\ a + k \notin S
        BY <2>1
    <2>3. k - 1 \in Nat /\ a + (k - 1) = (a + k) - 1 /\ ~(k <= k - 1) /\ a + k \in a + 1 .. b
        BY <2>2
    <2> QED BY <2>1, <2>2, <2>3
<1>2. ASSUME NEW i \in a .. b PROVE i \in S
    <2>1. i - a \in Nat /\ a + (i - a) = i
        OBVIOUS
    <2>2. i - a \notin Bad
        <3> HIDE DEF Bad
        <3> QED BY <1>1
    <2> QED BY <2>1, <2>2
<1> QED BY <1>2

-----------------------------------------------------------------------------
(* memchr. *)

\* The recursive function FirstOf is defined with.
IsFirst(first, t, to, S) ==
    first = [i \in Int |->
               IF i > to THEN to + 1 ELSE IF At(t, i) \in S THEN i ELSE first[i + 1]]

LEMMA FirstExists ==
    ASSUME NEW t, NEW to \in Int, NEW S
    PROVE  \E first : IsFirst(first, t, to, S)
<1> DEFINE Hits(i) == {k \in i .. to : At(t, k) \in S} \cup {to + 1}
           g == [i \in Int |-> IF i > to THEN to + 1 ELSE Min(Hits(i))]
<1>1. ASSUME NEW i \in Int, i <= to
      PROVE  Min(Hits(i)) = IF At(t, i) \in S THEN i ELSE g[i + 1]
    <2>1. Hits(i) \in SUBSET Int /\ Hits(i) # {} /\ \A k \in Hits(i) : i <= k
        BY <1>1
    <2>2. CASE At(t, i) \in S
        <3>1. i \in Hits(i)
            BY <2>2, <1>1
        <3>2. Min(Hits(i)) \in Hits(i) /\ \A k \in Hits(i) : Min(Hits(i)) <= k
            <4> HIDE DEF Hits
            <4> QED BY <2>1, LeastOfInts
        <3>3. Min(Hits(i)) \in Int /\ Min(Hits(i)) <= i /\ i <= Min(Hits(i))
            <4> HIDE DEF Hits
            <4> QED BY <2>1, <3>1, <3>2
        <3> QED BY <2>2, <3>3
    <2>3. CASE At(t, i) \notin S
        <3>1. Hits(i) = Hits(i + 1)
            BY <2>3, <1>1
        <3>2. CASE i + 1 <= to
            BY <2>3, <3>1, <3>2
        <3>3. CASE i = to
            <4>1. Hits(i) = {to + 1}
                BY <2>3, <3>3
            <4>2. Min({to + 1}) = to + 1
                BY DEF Min
            <4> QED BY <2>3, <3>3, <4>1, <4>2
        <3> QED BY <1>1, <3>2, <3>3
    <2> QED BY <2>2, <2>3
<1>2. IsFirst(g, t, to, S)
    <2>1. \A i \in Int : g[i] = IF i > to THEN to + 1
                                ELSE IF At(t, i) \in S THEN i ELSE g[i + 1]
        <3>1. \A i \in Int : g[i] = IF i > to THEN to + 1 ELSE Min(Hits(i))
            OBVIOUS
        <3> HIDE DEF g, Hits
        <3> QED BY <1>1, <3>1
    <2>2. g = [i \in Int |-> g[i]]
        OBVIOUS
    <2> HIDE DEF g
    <2> QED BY <2>1, <2>2 DEF IsFirst
<1> QED BY <1>2

\* FirstOf finds the first position of a symbol of S, or the one behind the last.
LEMMA FirstOfIs ==
    ASSUME NEW t, NEW from \in Int, NEW to \in Int, NEW S, from <= to + 1,
           NEW p, p = FirstOf(t, from, to, S)
    PROVE  /\ p \in from .. to + 1
           /\ p <= to => At(t, p) \in S
           /\ \A k \in from .. p - 1 : At(t, k) \notin S
<1>1. PICK f : f = (CHOOSE g : IsFirst(g, t, to, S))
    OBVIOUS
<1>2. IsFirst(f, t, to, S)
    BY <1>1, FirstExists
<1>3. p = f[from]
    BY <1>1 DEF FirstOf, IsFirst
<1>4. \A i \in Int : f[i] = IF i > to THEN to + 1
                            ELSE IF At(t, i) \in S THEN i ELSE f[i + 1]
    BY <1>2 DEF IsFirst
<1> DEFINE Good(i) == /\ f[i] \in i .. to + 1
                      /\ f[i] <= to => At(t, f[i]) \in S
                      /\ \A k \in i .. f[i] - 1 : At(t, k) \notin S
           Bad == {d \in Nat : ~Good(to + 1 - d)}
<1>5. Bad = {}
    <2> SUFFICES ASSUME Bad # {} PROVE FALSE
        OBVIOUS
    <2>1. PICK d \in Bad : \A e \in Bad : d <= e
        <3>1. Bad \in SUBSET Nat
            OBVIOUS
        <3> HIDE DEF Bad
        <3> QED BY <3>1, LeastOfNat
    <2>2. PICK i \in Int : i = to + 1 - d
        BY <2>1
    <2>3. d \in Nat /\ ~Good(i) /\ i <= to + 1
        BY <2>1, <2>2
    <2>4. CASE d = 0
        BY <1>4, <2>2, <2>3, <2>4
    <2>5. CASE d > 0
        <3>1. d - 1 \in Nat /\ ~(d <= d - 1) /\ to + 1 - (d - 1) = i + 1 /\ i <= to
            BY <2>2, <2>3, <2>5
        <3>2. Good(i + 1)
            BY <2>1, <3>1
        <3>3. f[i] = IF At(t, i) \in S THEN i ELSE f[i + 1]
            BY <1>4, <3>1
        <3> QED BY <2>3, <3>1, <3>2, <3>3
    <2> QED BY <2>3, <2>4, <2>5
<1>6. Good(from)
    <2>1. to + 1 - from \in Nat /\ to + 1 - (to + 1 - from) = from
        OBVIOUS
    <2> QED BY <1>5, <2>1
<1> QED BY <1>3, <1>6

LEMMA SkipIs ==
    ASSUME NEW t, NEW from \in Int, NEW to \in Int, from <= to
    PROVE  SkipBlanks(t, from, to) \in from .. to /\ SkipWord(t, from, to) \in from .. to
<1>1. CASE from < to
    <2>1. PICK p, q : p = FirstOf(t, from, to - 1, Signs) /\ q = FirstOf(t, from, to - 1, Blanks)
        OBVIOUS
    <2>2. to - 1 \in Int /\ from <= (to - 1) + 1 /\ (to - 1) + 1 = to
        BY <1>1
    <2>3. p \in from .. (to - 1) + 1 /\ q \in from .. (to - 1) + 1
        BY <2>1, <2>2, FirstOfIs
    <2> QED BY <1>1, <2>1, <2>2, <2>3 DEF SkipBlanks, SkipWord
<1>2. CASE ~(from < to)
    BY <1>2 DEF SkipBlanks, SkipWord
<1> QED BY <1>1, <1>2

LEMMA SkipBackIs ==
    ASSUME NEW t, NEW from \in Int, NEW to \in Int, from <= to
    PROVE  SkipBack(t, from, to) \in from .. to
<1>1. PICK S : S = {from} \cup {i \in from .. to : t[i] \notin Blanks}
    OBVIOUS
<1>2. S \in SUBSET Int /\ S # {} /\ \A k \in S : k <= to /\ from <= k
    BY <1>1
<1>3. PICK m : m = Max(S)
    OBVIOUS
<1>4. m \in S
    BY <1>2, <1>3, GreatestOfInts
<1>5. SkipBack(t, from, to) = m
    BY <1>1, <1>3 DEF SkipBack
<1>6. m \in Int /\ from <= m /\ m <= to
    BY <1>2, <1>4
<1> QED BY <1>5, <1>6

-----------------------------------------------------------------------------
(* __zeroxml_prepare_data. *)

\* A piece of a text of n symbols; Nothing is one.
Piece(f, n) == f \in [from : Nat, len : Nat] /\ f.from + f.len <= n + 1

LEMMA TrimmedIs ==
    ASSUME NEW t, NEW n \in Nat, NEW from \in Nat, NEW to \in Int, from <= to + 1, to <= n,
           NEW f, f = Trimmed(t, from, to)
    PROVE  Piece(f, n) /\ f.from >= from
<1>1. CASE from > to
    BY <1>1 DEF Trimmed, Piece
<1>2. CASE from <= to
    <2>1. PICK start : start = SkipBlanks(t, from, to)
        OBVIOUS
    <2>2. start \in from .. to
        BY <1>2, <2>1, SkipIs
    <2>3. PICK e : e = SkipBack(t, start, to)
        OBVIOUS
    <2>4. e \in start .. to
        BY <2>2, <2>3, SkipBackIs
    <2>5. f = [from |-> start, len |-> e - start + 1]
        BY <1>2, <2>1, <2>3 DEF Trimmed
    <2>6. start \in Nat /\ e - start + 1 \in Nat /\ start + (e - start + 1) <= n + 1 /\ start >= from
        BY <2>2, <2>4
    <2> QED BY <2>5, <2>6 DEF Piece
<1> QED BY <1>1, <1>2

LEMMA FromCDATAIs ==
    ASSUME NEW t, NEW n \in Nat, n = Len(t), NEW from \in Nat, from <= n + 1, NEW to,
           NEW mark \in Nat, from <= mark, NEW f, f = FromCDATA(t, from, to, mark)
    PROVE  Piece(f, n) /\ f.from >= from
<1>1. PICK chars : chars = Sum(t, from, to, Width)
    OBVIOUS
<1>2. PICK reach : reach = {i \in mark + 1 .. Len(t) :
                              t[i] = CDATAEnd /\ Sum(t, mark + 1, i, Width) <= chars}
    OBVIOUS
<1>3. f = IF reach = {} THEN [from |-> from, len |-> 0]
          ELSE Trimmed(t, mark + 1, Min(reach) - 1)
    BY <1>1, <1>2 DEF FromCDATA
<1>4. CASE reach = {}
    BY <1>3, <1>4 DEF Piece
<1>5. CASE reach # {}
    <2>1. reach \in SUBSET Int /\ \A k \in reach : mark + 1 <= k /\ k <= n
        BY <1>2
    <2>2. PICK e : e = Min(reach)
        OBVIOUS
    <2>3. e \in reach
        <3>1. mark + 1 \in Int
            OBVIOUS
        <3> QED BY <2>1, <2>2, <3>1, <1>5, LeastOfInts
    <2>4. e - 1 \in Int /\ mark + 1 <= (e - 1) + 1 /\ e - 1 <= n /\ mark + 1 \in Nat
        BY <2>1, <2>3
    <2>5. f = Trimmed(t, mark + 1, e - 1)
        BY <1>3, <1>5, <2>2
    <2>6. Piece(f, n) /\ f.from >= mark + 1
        BY <2>4, <2>5, TrimmedIs
    <2> QED BY <2>6 DEF Piece
<1> QED BY <1>4, <1>5

\* A recursive function whose calls go up to the end of an interval exists.
Jumps(f, from, to, J, next, val) ==
    f = [i \in from .. to |-> IF i \in J THEN f[next[i]] ELSE val[i]]

LEMMA JumpsExist ==
    ASSUME NEW from \in Int, NEW to \in Int, NEW J, NEW next, NEW val,
           \A i \in from .. to : i \in J => next[i] \in i + 1 .. to
    PROVE  \E f : Jumps(f, from, to, J, next, val)
<1> DEFINE Bad == {k \in Nat : from <= to + 1 - k /\ ~\E f : Jumps(f, to + 1 - k, to, J, next, val)}
<1>1. Bad = {}
    <2> SUFFICES ASSUME Bad # {} PROVE FALSE
        OBVIOUS
    <2>1. PICK k \in Bad : \A e \in Bad : k <= e
        <3>1. Bad \in SUBSET Nat
            OBVIOUS
        <3> HIDE DEF Bad
        <3> QED BY <3>1, LeastOfNat
    <2>2. CASE k = 0
        <3>1. to + 1 .. to = {}
            OBVIOUS
        <3>2. Jumps([i \in to + 1 .. to |-> 0], to + 1, to, J, next, val)
            BY <3>1 DEF Jumps
        <3>3. to + 1 - k = to + 1
            BY <2>2
        <3> QED BY <2>1, <3>2, <3>3
    <2>3. CASE k > 0
        <3>1. PICK a \in Int : a = to + 1 - k
            BY <2>1
        <3>2. k - 1 \in Nat /\ ~(k <= k - 1) /\ to + 1 - (k - 1) = a + 1 /\ from <= a /\ a <= to
            BY <2>1, <2>3, <3>1
        <3>3. PICK h : Jumps(h, a + 1, to, J, next, val)
            BY <2>1, <3>2
        <3>4. PICK first : first = IF a \in J THEN h[next[a]] ELSE val[a]
            OBVIOUS
        <3> DEFINE g == [i \in a .. to |-> IF i = a THEN first ELSE h[i]]
        <3>5. \A i \in a + 1 .. to : i \in a .. to /\ i # a /\ i \in from .. to
            BY <3>2
        <3>6. \A i \in a + 1 .. to : g[i] = h[i]
            BY <3>5
        <3>7. a \in J => g[next[a]] = h[next[a]]
            <4>1. a \in J => next[a] \in a + 1 .. to
                BY <3>2
            <4> HIDE DEF g
            <4> QED BY <3>6, <4>1
        <3>8. \A i \in a + 1 .. to : i \in J => g[next[i]] = h[next[i]]
            <4>1. \A i \in a + 1 .. to : i \in J => next[i] \in a + 1 .. to
                BY <3>2, <3>5
            <4> HIDE DEF g
            <4> QED BY <3>6, <4>1
        <3>9. \A i \in a + 1 .. to : h[i] = IF i \in J THEN h[next[i]] ELSE val[i]
            BY <3>3 DEF Jumps
        <3>10. \A i \in a .. to : g[i] = IF i \in J THEN g[next[i]] ELSE val[i]
            <4>1. \A i \in a .. to : i = a \/ i \in a + 1 .. to
                OBVIOUS
            <4>2. g[a] = first
                BY <3>2
            <4> HIDE DEF g
            <4> QED BY <3>4, <3>6, <3>7, <3>8, <3>9, <4>1, <4>2
        <3>11. g = [i \in a .. to |-> g[i]]
            OBVIOUS
        <3>12. Jumps(g, a, to, J, next, val)
            <4> HIDE DEF g
            <4> QED BY <3>10, <3>11 DEF Jumps
        <3> QED BY <2>1, <3>1, <3>12
    <2> QED BY <2>1, <2>2, <2>3
<1>2. CASE from <= to + 1
    <2>1. PICK k \in Nat : k = to + 1 - from
        BY <1>2
    <2>2. to + 1 - k = from
        BY <2>1
    <2>3. k \notin Bad
        <3> HIDE DEF Bad
        <3> QED BY <1>1
    <2>4. \E f : Jumps(f, to + 1 - k, to, J, next, val)
        BY <1>2, <2>2, <2>3
    <2> QED BY <2>2, <2>4
<1>3. CASE from > to + 1
    <2>1. from .. to = {}
        BY <1>3
    <2>2. Jumps([i \in from .. to |-> 0], from, to, J, next, val)
        BY <2>1 DEF Jumps
    <2> QED BY <2>2
<1> QED BY <1>2, <1>3

\* The recursive function BehindComments is defined with.
IsBehind(behind, t, from, to) ==
    behind = [i \in from .. to + 1 |->
                LET ps0 == SkipBlanks(t, i, to)
                    end == FirstOf(t, ps0, to, {CommentEnd})
                IN IF ps0 > to \/ t[ps0] # Comment THEN ps0
                   ELSE IF end > to THEN 0 ELSE behind[end + 1]]

LEMMA BehindExists ==
    ASSUME NEW t, NEW from \in Int, NEW to \in Int, from <= to + 1
    PROVE  \E f : IsBehind(f, t, from, to) /\ BehindComments(t, from, to) = f[from]
<1> DEFINE skip == [i \in from .. to + 1 |-> SkipBlanks(t, i, to)]
           end == [i \in from .. to + 1 |-> FirstOf(t, skip[i], to, {CommentEnd})]
           next == [i \in from .. to + 1 |-> end[i] + 1]
           stop == [i \in from .. to + 1 |-> skip[i] > to \/ t[skip[i]] # Comment]
           val == [i \in from .. to + 1 |-> IF stop[i] THEN skip[i] ELSE 0]
           J == {i \in from .. to + 1 : ~stop[i] /\ ~(end[i] > to)}
<1>1. ASSUME NEW i \in from .. to + 1
      PROVE  skip[i] \in i .. to + 1
    <2>1. PICK k : k = SkipBlanks(t, i, to)
        OBVIOUS
    <2>2. skip[i] = k
        BY <2>1
    <2>3. CASE i <= to
        <3>1. k \in i .. to
            BY <2>1, <2>3, SkipIs
        <3> QED BY <2>2, <3>1
    <2>4. CASE ~(i <= to)
        <3>1. k = i
            BY <2>1, <2>4 DEF SkipBlanks
        <3> QED BY <2>2, <3>1
    <2> QED BY <2>3, <2>4
<1>2. ASSUME NEW i \in from .. to + 1, i \in J
      PROVE  next[i] \in i + 1 .. to + 1
    <2>1. PICK k : k = skip[i]
        OBVIOUS
    <2>2. k \in i .. to + 1
        BY <1>1, <2>1
    <2>3. PICK e : e = FirstOf(t, k, to, {CommentEnd})
        OBVIOUS
    <2>4. e \in k .. to + 1
        BY <2>2, <2>3, FirstOfIs
    <2>5. next[i] = e + 1 /\ ~(e > to)
        BY <1>2, <2>1, <2>3
    <2> QED BY <2>2, <2>4, <2>5
<1>3. \A f : Jumps(f, from, to + 1, J, next, val) <=> IsBehind(f, t, from, to)
    <2> SUFFICES ASSUME NEW f
                 PROVE  Jumps(f, from, to + 1, J, next, val) <=> IsBehind(f, t, from, to)
        OBVIOUS
    <2>1. ASSUME NEW i \in from .. to + 1
          PROVE  (IF i \in J THEN f[next[i]] ELSE val[i])
                   = LET ps0 == SkipBlanks(t, i, to)
                         end0 == FirstOf(t, ps0, to, {CommentEnd})
                     IN IF ps0 > to \/ t[ps0] # Comment THEN ps0
                        ELSE IF end0 > to THEN 0 ELSE f[end0 + 1]
        OBVIOUS
    <2> HIDE DEF skip, end, next, stop, val, J
    <2> QED BY <2>1 DEF Jumps, IsBehind
<1>4. PICK f : f = (CHOOSE g : IsBehind(g, t, from, to))
    OBVIOUS
<1>5. \E g : Jumps(g, from, to + 1, J, next, val)
    <2> HIDE DEF skip, end, next, stop, val, J
    <2> QED BY <1>2, JumpsExist
<1>6. \E g : IsBehind(g, t, from, to)
    <2> HIDE DEF skip, end, next, stop, val, J
    <2> QED BY <1>3, <1>5
<1>7. IsBehind(f, t, from, to)
    BY <1>4, <1>6
<1>8. BehindComments(t, from, to) = f[from]
    BY <1>4 DEF BehindComments, IsBehind
<1> QED BY <1>7, <1>8

LEMMA BlanksIs ==
    ASSUME NEW t, NEW i \in Int, NEW to \in Int, i <= to + 1
    PROVE  SkipBlanks(t, i, to) \in i .. to + 1
<1>1. CASE i <= to
    BY <1>1, SkipIs
<1>2. CASE ~(i <= to)
    BY <1>2 DEF SkipBlanks
<1> QED BY <1>1, <1>2

LEMMA BehindCommentsIs ==
    ASSUME NEW t, NEW from \in Nat, NEW to \in Int, from <= to + 1
    PROVE  BehindComments(t, from, to) \in {0} \cup from .. to + 1
<1>1. PICK f : IsBehind(f, t, from, to) /\ BehindComments(t, from, to) = f[from]
    BY BehindExists
<1>2. PICK S : S = {i \in from .. to + 1 : f[i] \in {0} \cup i .. to + 1}
    OBVIOUS
<1>3. ASSUME NEW i \in from .. to + 1, \A j \in i + 1 .. to + 1 : j \in S
      PROVE  i \in S
    <2>1. PICK p : p = SkipBlanks(t, i, to)
        OBVIOUS
    <2>2. p \in i .. to + 1
        BY <2>1, BlanksIs
    <2>3. PICK e : e = FirstOf(t, p, to, {CommentEnd})
        OBVIOUS
    <2>4. e \in p .. to + 1
        BY <2>2, <2>3, FirstOfIs
    <2>5. f[i] = IF p > to \/ t[p] # Comment THEN p ELSE IF e > to THEN 0 ELSE f[e + 1]
        BY <1>1, <2>1, <2>3 DEF IsBehind
    <2>6. ~(e > to) => f[e + 1] \in {0} \cup e + 1 .. to + 1
        <3>1. ~(e > to) => e + 1 \in i + 1 .. to + 1
            BY <2>2, <2>4
        <3> QED BY <1>2, <1>3, <3>1
    <2>7. f[i] \in {0} \cup i .. to + 1
        BY <2>2, <2>4, <2>5, <2>6
    <2> QED BY <1>2, <2>7
<1>4. from \in S
    <2>1. PICK b \in Int : b = to + 1
        OBVIOUS
    <2>2. \A i \in from .. b : (\A j \in i + 1 .. b : j \in S) => i \in S
        BY <1>3, <2>1
    <2>3. \A i \in from .. b : i \in S
        <3>1. from \in Int
            OBVIOUS
        <3> QED BY <2>2, <3>1, Downwards
    <2> QED BY <2>1, <2>3
<1> QED BY <1>1, <1>2, <1>4

LEMMA FromDataIs ==
    ASSUME NEW t, NEW n \in Nat, NEW from \in Nat, NEW to \in Int, from <= to + 1, to <= n,
           NEW f, f = FromData(t, from, to)
    PROVE  Piece(f, n) /\ f.from >= from
<1>1. PICK b : b = BehindComments(t, from, to)
    OBVIOUS
<1>2. b \in {0} \cup from .. to + 1
    BY <1>1, BehindCommentsIs
<1>3. f = IF b = 0 THEN [from |-> from, len |-> 0]
          ELSE Trimmed(t, b, FirstOf(t, b, to, {Comment}) - 1)
    BY <1>1 DEF FromData
<1>4. CASE b = 0
    BY <1>3, <1>4 DEF Piece
<1>5. CASE b # 0
    <2>1. PICK e : e = FirstOf(t, b, to, {Comment})
        OBVIOUS
    <2>2. b \in Int /\ b \in Nat /\ b <= to + 1 /\ from <= b
        BY <1>2, <1>5
    <2>3. e \in b .. to + 1
        BY <2>1, <2>2, FirstOfIs
    <2>4. PICK last \in Int : last = e - 1
        BY <2>3
    <2>5. f = Trimmed(t, b, last)
        BY <1>3, <1>5, <2>1, <2>4
    <2>6. b <= last + 1 /\ last <= n
        BY <2>2, <2>3, <2>4
    <2>7. Piece(f, n) /\ f.from >= b
        BY <2>2, <2>5, <2>6, TrimmedIs
    <2>8. f.from \in Nat
        BY <2>7 DEF Piece
    <2> QED BY <2>2, <2>7, <2>8
<1> QED BY <1>4, <1>5

\* What a section has for data lies in the text, not before the section.
LEMMA PrepareDataIs ==
    ASSUME NEW t, NEW n \in Nat, n = Len(t), NEW from \in Nat, NEW len \in Nat,
           from + len <= n + 1, NEW f, f = PrepareData(t, from, len)
    PROVE  Piece(f, n) /\ f.from >= from
<1>1. PICK to \in Int : to = from + len - 1
    OBVIOUS
<1>2. from <= to + 1 /\ to <= n /\ from <= n + 1 /\ from \in Int
    BY <1>1
<1>3. PICK mark : mark = FirstOf(t, from, to, {CDATA})
    OBVIOUS
<1>4. mark \in from .. to + 1
    BY <1>2, <1>3, FirstOfIs
<1>5. f = IF mark <= to THEN FromCDATA(t, from, to, mark) ELSE FromData(t, from, to)
    BY <1>1, <1>3 DEF PrepareData
<1>6. CASE mark <= to
    <2>1. mark \in Nat /\ from <= mark
        BY <1>4
    <2> QED BY <1>2, <1>5, <1>6, <2>1, FromCDATAIs
<1>7. CASE ~(mark <= to)
    BY <1>2, <1>5, <1>7, FromDataIs
<1> QED BY <1>6, <1>7

-----------------------------------------------------------------------------
(* Sums and numbers. *)

\* What a recursive function that goes up multiplies with m and adds.
Climbs(v, a, b, m, w) ==
    v = [i \in a - 1 .. b |-> IF i < a THEN 0 ELSE v[i - 1] * m + w[i]]

\* Each value of it is natural if the one before is.
LEMMA ClimbsInNat ==
    ASSUME NEW a \in Int, NEW b \in Int, NEW v, v[a - 1] \in Nat,
           \A i \in a .. b : v[i - 1] \in Nat => v[i] \in Nat
    PROVE  \A i \in a - 1 .. b : v[i] \in Nat
<1> DEFINE Bad == {k \in Nat : a - 1 + k <= b /\ v[a - 1 + k] \notin Nat}
<1>1. Bad = {}
    <2> SUFFICES ASSUME Bad # {} PROVE FALSE
        OBVIOUS
    <2>1. PICK k \in Bad : \A e \in Bad : k <= e
        <3>1. Bad \in SUBSET Nat
            OBVIOUS
        <3> HIDE DEF Bad
        <3> QED BY <3>1, LeastOfNat
    <2>2. PICK i \in Int : i = a - 1 + k
        BY <2>1
    <2>3. k \in Nat /\ i <= b /\ v[i] \notin Nat
        BY <2>1, <2>2
    <2>4. k # 0
        BY <2>2, <2>3
    <2>5. k - 1 \in Nat /\ a - 1 + (k - 1) = i - 1 /\ ~(k <= k - 1) /\ i \in a .. b
        BY <2>2, <2>3, <2>4
    <2>6. v[i - 1] \in Nat
        BY <2>1, <2>5
    <2> QED BY <2>3, <2>5, <2>6
<1>2. ASSUME NEW i \in a - 1 .. b PROVE v[i] \in Nat
    <2>1. i - (a - 1) \in Nat /\ a - 1 + (i - (a - 1)) = i
        OBVIOUS
    <2>2. i - (a - 1) \notin Bad
        <3> HIDE DEF Bad
        <3> QED BY <1>1
    <2> QED BY <2>1, <2>2
<1> QED BY <1>2

LEMMA TimesPlus ==
    ASSUME NEW x \in Nat, NEW y \in Nat, NEW z \in Nat
    PROVE  x * y + z \in Nat
<1>1. x * y \in Int
    OBVIOUS
<1>2. x * y >= 0
    OBVIOUS
<1> QED BY <1>1, <1>2

LEMMA ClimbsExists ==
    ASSUME NEW a \in Int, NEW b \in Int, a <= b + 1, NEW m \in Nat, NEW w,
           \A i \in a .. b : w[i] \in Nat
    PROVE  \E v : Climbs(v, a, b, m, w)
<1> DEFINE Bad == {k \in Nat : a - 1 + k <= b /\ ~\E v : Climbs(v, a, a - 1 + k, m, w)}
<1>1. Bad = {}
    <2> SUFFICES ASSUME Bad # {} PROVE FALSE
        OBVIOUS
    <2>1. PICK k \in Bad : \A e \in Bad : k <= e
        <3>1. Bad \in SUBSET Nat
            OBVIOUS
        <3> HIDE DEF Bad
        <3> QED BY <3>1, LeastOfNat
    <2>2. PICK c \in Int : c = a - 1 + k
        BY <2>1
    <2>3. k \in Nat /\ c <= b /\ ~\E v : Climbs(v, a, c, m, w)
        BY <2>1, <2>2
    <2>4. CASE k = 0
        <3>1. Climbs([i \in a - 1 .. c |-> 0], a, c, m, w)
            BY <2>2, <2>4 DEF Climbs
        <3> QED BY <2>3, <3>1
    <2>5. CASE k # 0
        <3>1. k - 1 \in Nat /\ a - 1 + (k - 1) = c - 1 /\ ~(k <= k - 1) /\ a <= c /\ c - 1 <= b
            BY <2>2, <2>3, <2>5
        <3>2. PICK h : Climbs(h, a, c - 1, m, w)
            BY <2>1, <3>1
        <3>3. PICK last : last = h[c - 1] * m + w[c]
            OBVIOUS
        <3>4. PICK g : g = [i \in a - 1 .. c |-> IF i = c THEN last ELSE h[i]]
            OBVIOUS
        <3>5. \A i \in a - 1 .. c - 1 : h[i] = IF i < a THEN 0 ELSE h[i - 1] * m + w[i]
            BY <3>2 DEF Climbs
        <3>6. \A i \in a - 1 .. c : g[i] = IF i = c THEN last ELSE h[i]
            BY <3>4
        <3>7. ASSUME NEW i \in a - 1 .. c
              PROVE  g[i] = IF i < a THEN 0 ELSE g[i - 1] * m + w[i]
            <4>1. CASE i = c
                <5>1. c - 1 \in a - 1 .. c /\ c - 1 # c /\ ~(c < a)
                    BY <3>1
                <5>2. g[c - 1] = h[c - 1] /\ g[c] = last
                    BY <3>1, <3>6, <5>1
                <5> QED BY <3>3, <4>1, <5>1, <5>2
            <4>2. CASE i < a
                <5>1. i \in a - 1 .. c - 1 /\ i # c
                    BY <3>1, <4>2
                <5> QED BY <3>5, <3>6, <4>2, <5>1
            <4>3. CASE i # c /\ ~(i < a)
                <5>1. i \in a - 1 .. c - 1 /\ i - 1 \in a - 1 .. c /\ i - 1 # c
                    BY <4>3
                <5>2. g[i] = h[i] /\ g[i - 1] = h[i - 1]
                    BY <3>6, <4>3, <5>1
                <5> QED BY <3>5, <4>3, <5>1, <5>2
            <4> QED BY <4>1, <4>2, <4>3
        <3>8. g = [i \in a - 1 .. c |-> g[i]]
            BY <3>4
        <3>9. Climbs(g, a, c, m, w)
            BY <3>7, <3>8 DEF Climbs
        <3> QED BY <2>3, <3>9
    <2> QED BY <2>4, <2>5
<1>2. PICK k \in Nat : k = b - (a - 1)
    OBVIOUS
<1>3. a - 1 + k = b
    BY <1>2
<1>4. k \notin Bad
    <2> HIDE DEF Bad
    <2> QED BY <1>1
<1> QED BY <1>3, <1>4

\* Its values are natural.
LEMMA ClimbsTypes ==
    ASSUME NEW a \in Int, NEW b \in Int, a <= b + 1, NEW m \in Nat, NEW w,
           \A i \in a .. b : w[i] \in Nat, NEW v, Climbs(v, a, b, m, w)
    PROVE  \A i \in a - 1 .. b : v[i] \in Nat
<1>1. \A i \in a - 1 .. b : v[i] = IF i < a THEN 0 ELSE v[i - 1] * m + w[i]
    BY DEF Climbs
<1>2. v[a - 1] = 0
    BY <1>1
<1>3. ASSUME NEW i \in a .. b, v[i - 1] \in Nat PROVE v[i] \in Nat
    <2>1. v[i] = v[i - 1] * m + w[i]
        BY <1>1
    <2>2. PICK x \in Nat, z \in Nat : x = v[i - 1] /\ z = w[i]
        BY <1>3
    <2> QED BY <2>1, <2>2, TimesPlus
<1> QED BY <1>2, <1>3, ClimbsInNat

\* The recursive function Sum is defined with.
IsSum(s, t, from, to, amount) ==
    s = [i \in from - 1 .. to |-> IF i < from THEN 0 ELSE s[i - 1] + amount[t[i]]]

LEMMA SumExists ==
    ASSUME NEW from \in Int, NEW to \in Int, from <= to + 1, NEW t, NEW amount,
           \A i \in from .. to : amount[t[i]] \in Nat
    PROVE  \E s : IsSum(s, t, from, to, amount) /\ Sum(t, from, to, amount) = s[to]
<1>1. PICK w : w = [i \in from .. to |-> amount[t[i]]]
    OBVIOUS
<1>2. \A i \in from .. to : w[i] = amount[t[i]] /\ w[i] \in Nat
    BY <1>1
<1>3. PICK g : Climbs(g, from, to, 1, w)
    BY <1>2, ClimbsExists
<1>4. \A i \in from - 1 .. to : g[i] \in Nat
    BY <1>2, <1>3, ClimbsTypes
<1>5. IsSum(g, t, from, to, amount)
    <2>1. \A i \in from - 1 .. to : g[i] = IF i < from THEN 0 ELSE g[i - 1] * 1 + w[i]
        BY <1>3 DEF Climbs
    <2>2. g = [i \in from - 1 .. to |-> g[i]]
        BY <1>3 DEF Climbs
    <2>3. ASSUME NEW i \in from - 1 .. to
          PROVE  g[i] = IF i < from THEN 0 ELSE g[i - 1] + amount[t[i]]
        <3>1. CASE i < from
            BY <2>1, <3>1
        <3>2. CASE ~(i < from)
            <4>1. i - 1 \in from - 1 .. to /\ i \in from .. to
                BY <3>2
            <4>2. g[i - 1] * 1 = g[i - 1]
                BY <1>4, <4>1
            <4> QED BY <1>2, <2>1, <3>2, <4>1, <4>2
        <3> QED BY <3>1, <3>2
    <2> QED BY <2>2, <2>3 DEF IsSum
<1>6. PICK s : s = (CHOOSE g1 : IsSum(g1, t, from, to, amount))
    OBVIOUS
<1>7. IsSum(s, t, from, to, amount)
    BY <1>5, <1>6
<1>8. Sum(t, from, to, amount) = s[to]
    BY <1>6 DEF Sum, IsSum
<1> QED BY <1>7, <1>8

LEMMA SumIs ==
    ASSUME NEW from \in Int, NEW to \in Int, from <= to + 1, NEW t, NEW amount,
           \A i \in from .. to : amount[t[i]] \in Nat
    PROVE  /\ Sum(t, from, to, amount) \in Nat
           /\ from = to + 1 => Sum(t, from, to, amount) = 0
<1>1. PICK s : IsSum(s, t, from, to, amount) /\ Sum(t, from, to, amount) = s[to]
    BY SumExists
<1>2. \A i \in from - 1 .. to : s[i] = IF i < from THEN 0 ELSE s[i - 1] + amount[t[i]]
    BY <1>1 DEF IsSum
<1>3. s[from - 1] = 0
    BY <1>2
<1>4. \A i \in from .. to : s[i - 1] \in Nat => s[i] \in Nat
    BY <1>2
<1>5. \A i \in from - 1 .. to : s[i] \in Nat
    <2>1. s[from - 1] \in Nat
        BY <1>3
    <2> QED BY <1>4, <2>1, ClimbsInNat
<1> QED BY <1>1, <1>3, <1>5

\* The recursive function Horner is defined with.
IsHorner(v, t, from, to, base) ==
    v = [i \in from - 1 .. to |-> IF i < from THEN 0 ELSE v[i - 1] * base + DigitOf(t[i])]

LEMMA HornerIs ==
    ASSUME NEW from \in Int, NEW to \in Int, from <= to + 1, NEW t, NEW base \in Nat,
           \A i \in from .. to : DigitOf(t[i]) \in Nat
    PROVE  Horner(t, from, to, base) \in Nat
<1>1. PICK w : w = [i \in from .. to |-> DigitOf(t[i])]
    OBVIOUS
<1>2. \A i \in from .. to : w[i] = DigitOf(t[i]) /\ w[i] \in Nat
    BY <1>1
<1>3. \A v : Climbs(v, from, to, base, w) <=> IsHorner(v, t, from, to, base)
    <2> SUFFICES ASSUME NEW v
                 PROVE  Climbs(v, from, to, base, w) <=> IsHorner(v, t, from, to, base)
        OBVIOUS
    <2>1. [i \in from - 1 .. to |-> IF i < from THEN 0 ELSE v[i - 1] * base + w[i]]
            = [i \in from - 1 .. to |-> IF i < from THEN 0 ELSE v[i - 1] * base + DigitOf(t[i])]
        BY <1>2
    <2> QED BY <2>1 DEF Climbs, IsHorner
<1>4. \E v : IsHorner(v, t, from, to, base)
    BY <1>2, <1>3, ClimbsExists
<1>5. PICK v : v = (CHOOSE g : IsHorner(g, t, from, to, base))
    OBVIOUS
<1>6. Climbs(v, from, to, base, w)
    BY <1>3, <1>4, <1>5
<1>7. \A i \in from - 1 .. to : v[i] \in Nat
    BY <1>2, <1>6, ClimbsTypes
<1>8. Horner(t, from, to, base) = v[to]
    BY <1>5 DEF Horner, IsHorner
<1> QED BY <1>7, <1>8

-----------------------------------------------------------------------------
(* __zeroxml_strtol and __zeroxml_strtob. *)

Bases == {2, 8, 10, 16}

LEMMA DigitIs ==
    ASSUME NEW base \in Bases, NEW s \in DigitsOf(base)
    PROVE  DigitOf(s) \in Nat
<1>1. PICK d \in 1 .. base : s = Digits[d]
    BY DEF DigitsOf
<1>2. d - 1 \in 0 .. 15 /\ (d - 1) + 1 = d
    BY DEF Bases
<1>3. \E e \in 0 .. 15 : Digits[e + 1] = s
    BY <1>1, <1>2
<1>4. DigitOf(s) \in 0 .. 15
    BY <1>3 DEF DigitOf
<1> QED BY <1>4

LEMMA NoDigitBehind ==
    ASSUME NEW base \in Bases
    PROVE  "behind" \notin DigitsOf(base)
<1>1. \A d \in 1 .. 16 : Digits[d] # "behind"
    BY DEF Digits
<1>2. \A d \in 1 .. base : d \in 1 .. 16
    BY DEF Bases
<1> QED BY <1>1, <1>2 DEF DigitsOf

LEMMA SaturatedIs ==
    ASSUME NEW n \in Int
    PROVE  Saturated(n) \in None .. MaxLong
BY ValuesAssumption DEF Saturated, None

\* A position where there is something is in the text.
LEMMA AtIn ==
    ASSUME NEW t, NEW n \in Nat, Len(t) = n, DOMAIN t = 1 .. n, NEW i \in Int, At(t, i) # "behind"
    PROVE  i \in 1 .. n /\ At(t, i) = t[i]
BY DEF At

\* strtol stays in the range of a long.
LEMMA LibraryStrtolIs ==
    ASSUME NEW t, NEW n \in Nat, Len(t) = n, DOMAIN t = 1 .. n,
           NEW from \in Nat, from <= n + 1, NEW base \in Bases
    PROVE  LibraryStrtol(t, from, base).val \in None .. MaxLong
<1>1. PICK p : p = FirstOf(t, from, n, Signs)
    OBVIOUS
<1>2. p \in from .. n + 1
    BY <1>1, FirstOfIs
<1>3. PICK q : q = IF At(t, p) \in {"-", "+"} THEN p + 1 ELSE p
    OBVIOUS
<1>4. q \in Int /\ q <= n + 1
    <2>1. CASE At(t, p) \in {"-", "+"}
        <3>1. At(t, p) # "behind"
            BY <2>1
        <3>2. p \in 1 .. n
            BY <1>2, <3>1, AtIn
        <3> QED BY <1>3, <2>1, <3>2
    <2>2. CASE At(t, p) \notin {"-", "+"}
        BY <1>2, <1>3, <2>2
    <2> QED BY <2>1, <2>2
<1>5. PICK hex : hex = (base = 16 /\ At(t, q) = "0" /\ At(t, q + 1) = "x"
                          /\ At(t, q + 2) \in DigitsOf(16))
    OBVIOUS
<1>6. PICK d : d = IF hex THEN q + 2 ELSE q
    OBVIOUS
<1>7. d \in Int /\ d <= n + 1
    <2>1. CASE hex
        <3>1. At(t, q + 2) # "behind"
            BY <1>5, <2>1, NoDigitBehind DEF Bases
        <3>2. q + 2 \in 1 .. n
            BY <1>4, <3>1, AtIn
        <3> QED BY <1>6, <2>1, <3>2
    <2>2. CASE ~hex
        BY <1>4, <1>6, <2>2
    <2> QED BY <2>1, <2>2
<1>8. PICK others : others = {i \in d .. n + 1 : At(t, i) \notin DigitsOf(base)}
    OBVIOUS
<1>9. n + 1 \in others
    <2>1. At(t, n + 1) = "behind"
        BY DEF At
    <2> QED BY <1>7, <1>8, <2>1, NoDigitBehind
<1>10. PICK end : end = Min(others)
    OBVIOUS
<1>11. end \in others /\ \A i \in others : end <= i
    <2>1. others \in SUBSET Int /\ others # {} /\ \A i \in others : d <= i
        BY <1>7, <1>8, <1>9
    <2> QED BY <1>7, <1>10, <2>1, LeastOfInts
<1>12. end \in d .. n + 1
    BY <1>8, <1>11
<1>13. \A i \in d .. end - 1 : DigitOf(t[i]) \in Nat
    <2> SUFFICES ASSUME NEW i \in d .. end - 1 PROVE DigitOf(t[i]) \in Nat
        OBVIOUS
    <2>1. i \in Int /\ i \in d .. n + 1 /\ ~(end <= i)
        BY <1>7, <1>12
    <2>2. At(t, i) \in DigitsOf(base)
        BY <1>8, <1>11, <2>1
    <2>3. At(t, i) # "behind"
        BY <2>2, NoDigitBehind
    <2>4. At(t, i) = t[i]
        BY <2>1, <2>3, AtIn
    <2> QED BY <2>2, <2>4, DigitIs
<1>14. PICK size : size = Horner(t, d, end - 1, base)
    OBVIOUS
<1>15. size \in Nat
    <2>1. base \in Nat
        BY DEF Bases
    <2>2. PICK last \in Int : last = end - 1
        BY <1>12
    <2>3. d <= last + 1 /\ \A i \in d .. last : DigitOf(t[i]) \in Nat
        BY <1>7, <1>12, <1>13, <2>2
    <2> QED BY <1>7, <1>14, <2>1, <2>2, <2>3, HornerIs
<1>16. PICK number \in Int : number = IF At(t, p) = "-" THEN -size ELSE size
    BY <1>15
<1>17. LibraryStrtol(t, from, base)
         = IF end = d THEN [end |-> from, val |-> 0] ELSE [end |-> end, val |-> Saturated(number)]
    BY <1>1, <1>3, <1>5, <1>6, <1>8, <1>10, <1>14, <1>16 DEF LibraryStrtol
<1>18. Saturated(number) \in None .. MaxLong
    BY SaturatedIs
<1>19. 0 \in None .. MaxLong
    BY ValuesAssumption DEF None
<1>20. CASE end = d
    BY <1>17, <1>19, <1>20
<1>21. CASE end # d
    BY <1>17, <1>18, <1>21
<1> QED BY <1>20, <1>21

\* No prefix is longer than its text.
LEMMA PrefixIs ==
    ASSUME NEW t, NEW from \in Nat, NEW len \in Nat, NEW p, p = Prefix(t, from, len)
    PROVE  p.skip \in {0, 1, 2} /\ p.base \in Bases /\ (p.skip > 0 => len >= 2)
<1>1. CASE len < 2 \/ At(t, from) \notin {"0", "\\"}
    BY <1>1 DEF Prefix, Bases
<1>2. CASE ~(len < 2 \/ At(t, from) \notin {"0", "\\"})
    <2>1. PICK c : c = At(t, from + 1)
        OBVIOUS
    <2>2. p = CASE c = "b" -> [skip |-> 2, base |-> 2]
                [] c = "d" -> [skip |-> 2, base |-> 10]
                [] c = "x" -> [skip |-> 2, base |-> 16]
                [] c = "o" -> [skip |-> 2, base |-> 8]
                [] OTHER -> [skip |-> 1, base |-> 8]
        BY <1>2, <2>1 DEF Prefix
    <2>3. \/ p = [skip |-> 2, base |-> 2] \/ p = [skip |-> 2, base |-> 10]
          \/ p = [skip |-> 2, base |-> 16] \/ p = [skip |-> 2, base |-> 8]
          \/ p = [skip |-> 1, base |-> 8]
        BY <2>2
    <2> QED BY <1>2, <2>3 DEF Bases
<1> QED BY <1>1, <1>2

\* A number is a long or what stands for none, a boolean one of three values.
LEMMA NumberIs ==
    ASSUME NEW t, NEW n \in Nat, Len(t) = n, DOMAIN t = 1 .. n,
           NEW from \in Nat, NEW len \in Nat, from + len <= n + 1, NEW none \in None .. MaxLong
    PROVE  /\ Strtol(t, from, len, none).val \in None .. MaxLong
           /\ Strtob(t, from, len, none) \in None .. MaxLong
<1>1. PICK p : p = Prefix(t, from, len)
    OBVIOUS
<1>2. p.skip \in {0, 1, 2} /\ p.base \in Bases /\ (p.skip > 0 => len >= 2)
    BY <1>1, PrefixIs
<1>3. PICK start \in Nat : start = from + p.skip
    BY <1>2
<1>4. start <= n + 1
    BY <1>2, <1>3
<1>5. PICK number : number = LibraryStrtol(t, start, p.base)
    OBVIOUS
<1>6. number.val \in None .. MaxLong
    BY <1>2, <1>4, <1>5, LibraryStrtolIs
<1>7. Strtol(t, from, len, none)
        = [end |-> number.end, val |-> IF number.end > start THEN number.val ELSE none]
    BY <1>1, <1>3, <1>5 DEF Strtol
<1>8. XML_FALSE \in None .. MaxLong /\ XML_TRUE \in None .. MaxLong
    BY ValuesAssumption DEF None, XML_FALSE, XML_TRUE
<1>9. Strtob(t, from, len, none) \in {XML_FALSE, XML_TRUE, none}
    BY DEF Strtob
<1> QED BY <1>6, <1>7, <1>8, <1>9

-----------------------------------------------------------------------------
(* __zeroxml_iconv. *)

\* Nothing is written behind the memory, and what is written are symbols.
Within(got, size) ==
    /\ got.chars \in Seq(Symbols) /\ got.high \in Nat /\ got.high <= size
    /\ got.error \in 0 .. 12

\* What comes out is the text, unless there is an error or no room.
IsText(got, t, from, len, size) ==
    got.error = XML_NO_ERROR /\ len <= size => got.chars = SubSeq(t, from, from + len - 1)

LEMMA PlainIs ==
    ASSUME NEW t, NEW n \in Nat, NEW from \in Nat, NEW len \in Nat, NEW size \in Nat, NEW got,
           n = Len(t), \A i \in 1 .. n : t[i] \in Symbols, from > 0, from + len <= n + 1,
           got = Plain(t, from, len, size)
    PROVE  /\ Within(got, size) /\ IsText(got, t, from, len, size)
           /\ got.error = XML_NO_ERROR /\ got.high <= len
<1>1. PICK k \in Nat : k = IF size > len THEN len ELSE size
    OBVIOUS
<1>2. got = [chars |-> SubSeq(t, from, from + k - 1), high |-> k, error |-> XML_NO_ERROR]
    BY <1>1 DEF Plain
<1>3. PICK last \in Int : last = from + k - 1
    OBVIOUS
<1>4. \A i \in from .. last : t[i] \in Symbols
    BY <1>1, <1>3
<1>5. SubSeq(t, from, last) \in Seq(Symbols)
    BY <1>4, SubSeqProperties
<1>6. len <= size => k = len
    BY <1>1
<1> QED BY <1>1, <1>2, <1>3, <1>5, <1>6 DEF Within, IsText, XML_NO_ERROR

LEMMA LocalisedIs ==
    ASSUME NEW t, NEW n \in Nat, NEW from \in Nat, NEW len \in Nat, NEW size \in Nat, NEW got,
           n = Len(t), \A i \in 1 .. n : t[i] \in Symbols, from > 0, from + len <= n + 1,
           got = Localised(t, from, len, size)
    PROVE  Within(got, size) /\ IsText(got, t, from, len, size)
<1>1. ASSUME NEW k \in 0 .. len
      PROVE  /\ Sum(t, from, from + k - 1, Units) \in Nat
             /\ k = 0 => Sum(t, from, from + k - 1, Units) = 0
             /\ SubSeq(t, from, from + k - 1) \in Seq(Symbols)
    <2>1. PICK last \in Int : last = from + k - 1
        OBVIOUS
    <2>2. from <= last + 1 /\ from \in Int /\ (k = 0 => from = last + 1)
        BY <2>1
    <2>3. \A i \in from .. last : t[i] \in Symbols
        BY <2>1
    <2>4. \A i \in from .. last : Units[t[i]] \in Nat
        BY <2>3, ValuesAssumption
    <2>5. /\ Sum(t, from, last, Units) \in Nat
          /\ from = last + 1 => Sum(t, from, last, Units) = 0
        BY <2>2, <2>4, SumIs
    <2>6. SubSeq(t, from, last) \in Seq(Symbols)
        BY <2>2, <2>3, SubSeqProperties
    <2> QED BY <2>1, <2>2, <2>5, <2>6
<1>2. PICK fits : fits = {k \in 0 .. len :
                            /\ Sum(t, from, from + k - 1, Units) <= size
                            /\ \A i \in from .. from + k - 1 : Units[t[i]] > 0}
    OBVIOUS
<1>3. PICK m : m = Max(fits)
    OBVIOUS
<1>4. m \in fits
    <2>1. 0 \in fits
        <3>1. 0 \in 0 .. len /\ from .. from + 0 - 1 = {}
            OBVIOUS
        <3>2. Sum(t, from, from + 0 - 1, Units) = 0
            BY <1>1, <3>1
        <3> QED BY <1>2, <3>1, <3>2
    <2>2. fits \in SUBSET Int /\ fits # {} /\ (\A k \in fits : k <= len) /\ len \in Int
        <3>1. fits \subseteq 0 .. len
            BY <1>2
        <3> QED BY <2>1, <3>1
    <2>3. Max(fits) \in fits
        BY <2>2, GreatestOfInts
    <2> QED BY <1>3, <2>3
<1>5. PICK used : used = Sum(t, from, from + m - 1, Units)
    OBVIOUS
<1>6. m \in 0 .. len /\ used \in Nat /\ used <= size /\ SubSeq(t, from, from + m - 1) \in Seq(Symbols)
    BY <1>1, <1>2, <1>4, <1>5
<1>7. PICK more \in Nat : more = IF size - used > len - m THEN len - m ELSE size - used
    <2>1. size - used \in Nat /\ len - m \in Nat
        BY <1>6
    <2> QED BY <2>1
<1>8. SubSeq(t, from, from + more - 1) \in Seq(Symbols)
    <2>1. more \in 0 .. len
        BY <1>6, <1>7
    <2> QED BY <1>1, <2>1
<1>9. got = IF m = len
            THEN [chars |-> SubSeq(t, from, from + len - 1), high |-> used,
                  error |-> XML_NO_ERROR]
            ELSE [chars |-> SubSeq(t, from, from + m - 1) \o SubSeq(t, from, from + more - 1),
                  high |-> size,
                  error |-> IF Units[t[from + m]] = 0 THEN XML_INVALID_MULTIBYTE_SEQUENCE
                            ELSE XML_TRUNCATE_RESULT]
    BY <1>2, <1>3, <1>5, <1>7 DEF Localised
<1>10. CASE m = len
    BY <1>6, <1>9, <1>10 DEF Within, IsText, XML_NO_ERROR
<1>11. CASE m # len
    <2>1. SubSeq(t, from, from + m - 1) \o SubSeq(t, from, from + more - 1) \in Seq(Symbols)
        BY <1>6, <1>8, ConcatProperties
    <2>2. got.error \in {XML_INVALID_MULTIBYTE_SEQUENCE, XML_TRUNCATE_RESULT}
        BY <1>9, <1>11
    <2> QED BY <1>9, <1>11, <2>1, <2>2
            DEF Within, IsText, XML_NO_ERROR, XML_INVALID_MULTIBYTE_SEQUENCE, XML_TRUNCATE_RESULT
<1> QED BY <1>10, <1>11

-----------------------------------------------------------------------------
(* What the text of a section is. *)

\* A text of n symbols.
IsTextOf(t, n) == DOMAIN t = 1 .. n /\ \A i \in 1 .. n : t[i] \in Symbols

\* A piece of a text is what there is between two positions without the blanks
\* around it; of nothing but blanks it is one.
WithoutBlanks(t, from, to, f) ==
    /\ f.from \in from .. to /\ f.len \in Nat \ {0} /\ f.from + f.len - 1 \in f.from .. to
    /\ \A i \in from .. f.from - 1 : t[i] \in Blanks
    /\ \A i \in f.from + f.len .. to : t[i] \in Blanks
    /\ f.len > 1 => t[f.from] \notin Blanks /\ t[f.from + f.len - 1] \notin Blanks

LEMMA TrimmedText ==
    ASSUME NEW n \in Nat, NEW t, IsTextOf(t, n), NEW from \in Nat \ {0}, NEW to \in Int,
           from <= to, to <= n, NEW f, f = Trimmed(t, from, to)
    PROVE  WithoutBlanks(t, from, to, f)
<1>1. PICK start : start = SkipBlanks(t, from, to)
    OBVIOUS
<1>2. /\ start \in from .. to
      /\ start < to => t[start] \notin Blanks
      /\ \A k \in from .. start - 1 : t[k] \in Blanks
    <2>1. CASE from < to
        <3>1. PICK last \in Int : last = to - 1
            OBVIOUS
        <3>2. start = FirstOf(t, from, last, Signs) /\ from <= last + 1
            BY <1>1, <2>1, <3>1 DEF SkipBlanks
        <3>3. /\ start \in from .. last + 1
              /\ start <= last => At(t, start) \in Signs
              /\ \A k \in from .. start - 1 : At(t, k) \notin Signs
            BY <3>2, FirstOfIs
        <3>4. \A k \in from .. to : At(t, k) = t[k] /\ t[k] \in Symbols
            BY DEF At, IsTextOf
        <3> QED BY <3>1, <3>3, <3>4 DEF Signs
    <2>2. CASE ~(from < to)
        BY <1>1, <2>2 DEF SkipBlanks
    <2> QED BY <2>1, <2>2
<1>3. PICK R : R = {start} \cup {i \in start .. to : t[i] \notin Blanks}
    OBVIOUS
<1>4. R \in SUBSET Int /\ R # {} /\ \A k \in R : k <= to /\ start <= k
    BY <1>2, <1>3
<1>5. PICK e : e = Max(R)
    OBVIOUS
<1>6. e \in R /\ \A k \in R : e >= k
    BY <1>4, <1>5, GreatestOfInts
<1>7. SkipBack(t, start, to) = e
    BY <1>3, <1>5 DEF SkipBack
<1>8. /\ e \in start .. to
      /\ e > start => t[e] \notin Blanks
      /\ \A k \in e + 1 .. to : t[k] \in Blanks
    <2>1. e \in start .. to /\ (e > start => t[e] \notin Blanks)
        BY <1>2, <1>3, <1>4, <1>6
    <2>2. ASSUME NEW k \in e + 1 .. to PROVE t[k] \in Blanks
        <3>1. k \in start .. to /\ ~(e >= k)
            BY <1>2, <2>1
        <3> QED BY <1>3, <1>6, <3>1
    <2> QED BY <2>1, <2>2
<1>9. f = [from |-> start, len |-> e - start + 1]
    BY <1>1, <1>7 DEF Trimmed
<1>10. f.from = start /\ f.len = e - start + 1
    BY <1>9
<1>11. e - start + 1 \in Nat \ {0} /\ start + (e - start + 1) = e + 1 /\ e + 1 - 1 = e
       /\ (e - start + 1 > 1 => e > start /\ start < to)
    BY <1>2, <1>8
<1> QED BY <1>2, <1>8, <1>10, <1>11 DEF WithoutBlanks

\* A piece that begins with a blank was one of nothing but blanks.
LEMMA BlankPiece ==
    ASSUME NEW t, NEW from \in Int, NEW to \in Int, NEW f, WithoutBlanks(t, from, to, f),
           t[f.from] \in Blanks
    PROVE  \A i \in from .. to : t[i] \in Blanks
<1>1. PICK a \in Int : a = f.from /\ f.len = 1 /\ a + 1 = f.from + f.len
    BY DEF WithoutBlanks
<1>2. /\ \A i \in from .. a - 1 : t[i] \in Blanks
      /\ \A i \in a + 1 .. to : t[i] \in Blanks
    BY <1>1 DEF WithoutBlanks
<1>3. \A i \in from .. to : i \in from .. a - 1 \/ i = a \/ i \in a + 1 .. to
    OBVIOUS
<1> QED BY <1>1, <1>2, <1>3

\* Comments and blanks in full, between two positions of a text.
IdleIn(t, from, to) ==
    \A i \in from .. to :
        \/ t[i] \in Blanks
        \/ \E j \in from .. i, k \in i .. to :
              t[j] = Comment /\ t[k] = CommentEnd
                 /\ \A l \in j + 1 .. k - 1 : t[l] \notin {Comment, CommentEnd}

LEMMA IdleJoins ==
    ASSUME NEW t, NEW a \in Int, NEW b \in Int, NEW c \in Int, a <= b + 1, b <= c,
           IdleIn(t, a, b), IdleIn(t, b + 1, c)
    PROVE  IdleIn(t, a, c)
<1> SUFFICES ASSUME NEW i \in a .. c
             PROVE  \/ t[i] \in Blanks
                    \/ \E j \in a .. i, k \in i .. c :
                          t[j] = Comment /\ t[k] = CommentEnd
                             /\ \A l \in j + 1 .. k - 1 : t[l] \notin {Comment, CommentEnd}
    BY DEF IdleIn
<1>1. CASE i <= b
    <2>1. i \in a .. b /\ i .. b \subseteq i .. c
        BY <1>1
    <2> QED BY <2>1 DEF IdleIn
<1>2. CASE ~(i <= b)
    <2>1. i \in b + 1 .. c /\ b + 1 .. i \subseteq a .. i
        BY <1>2
    <2> QED BY <2>1 DEF IdleIn
<1> QED BY <1>1, <1>2

LEMMA BlanksAreIdle ==
    ASSUME NEW t, NEW a, NEW b, \A i \in a .. b : t[i] \in Blanks
    PROVE  IdleIn(t, a, b)
BY DEF IdleIn

\* The comments in front of the data are passed in full.
LEMMA BehindCommentsText ==
    ASSUME NEW n \in Nat, NEW t, IsTextOf(t, n), NEW from \in Nat \ {0}, NEW to \in Int,
           from <= to + 1, to <= n, Paired(t, from, to, Comment, CommentEnd),
           NEW b, b = BehindComments(t, from, to)
    PROVE  /\ b \in from .. to + 1 /\ IdleIn(t, from, b - 1)
           /\ b <= to => t[b] # Comment
           /\ b < to => t[b] \notin Blanks
<1>1. PICK f : IsBehind(f, t, from, to) /\ b = f[from]
    BY BehindExists
<1> DEFINE Passed(i) == /\ f[i] \in i .. to + 1 /\ IdleIn(t, i, f[i] - 1)
                        /\ f[i] <= to => t[f[i]] # Comment
                        /\ f[i] < to => t[f[i]] \notin Blanks
<1>2. PICK S : S = {i \in from .. to + 1 : Passed(i)}
    OBVIOUS
<1>3. ASSUME NEW i \in from .. to + 1, \A j \in i + 1 .. to + 1 : j \in S
      PROVE  i \in S
    <2>1. PICK p : p = SkipBlanks(t, i, to)
        OBVIOUS
    <2>2. p \in i .. to + 1
        BY <2>1, BlanksIs
    <2>3. (\A k \in i .. p - 1 : t[k] \in Blanks) /\ (p < to => t[p] \notin Blanks)
        <3>1. CASE i < to
            <4>1. PICK last \in Int : last = to - 1
                OBVIOUS
            <4>2. p = FirstOf(t, i, last, Signs) /\ i <= last + 1
                BY <2>1, <3>1, <4>1 DEF SkipBlanks
            <4>3. /\ p \in i .. last + 1 /\ (p <= last => At(t, p) \in Signs)
                  /\ \A k \in i .. p - 1 : At(t, k) \notin Signs
                BY <4>2, FirstOfIs
            <4>4. \A k \in i .. to : At(t, k) = t[k] /\ t[k] \in Symbols
                BY DEF At, IsTextOf
            <4> QED BY <4>1, <4>3, <4>4 DEF Signs
        <3>2. CASE ~(i < to)
            BY <2>1, <3>2 DEF SkipBlanks
        <3> QED BY <3>1, <3>2
    <2>4. IdleIn(t, i, p - 1)
        BY <2>3, BlanksAreIdle
    <2>5. PICK e : e = FirstOf(t, p, to, {CommentEnd})
        OBVIOUS
    <2>6. /\ e \in p .. to + 1
          /\ e <= to => At(t, e) = CommentEnd
          /\ \A k \in p .. e - 1 : At(t, k) # CommentEnd
        BY <2>2, <2>5, FirstOfIs
    <2>7. f[i] = IF p > to \/ t[p] # Comment THEN p ELSE IF e > to THEN 0 ELSE f[e + 1]
        BY <1>1, <2>1, <2>5 DEF IsBehind
    <2>8. CASE p > to \/ t[p] # Comment
        <3>1. f[i] = p
            BY <2>7, <2>8
        <3> QED BY <1>2, <2>2, <2>3, <2>4, <2>8, <3>1
    <2>9. CASE ~(p > to \/ t[p] # Comment)
        <3>1. p \in from .. to /\ t[p] = Comment
            BY <2>2, <2>9
        <3>2. PICK c \in p + 1 .. to :
                 t[c] = CommentEnd /\ \A k \in p + 1 .. c - 1 : t[k] \notin {Comment, CommentEnd}
            BY <3>1 DEF Paired
        <3>3. \A k \in p .. to : At(t, k) = t[k]
            BY <2>2 DEF At, IsTextOf
        <3>4. e <= to
            <4> SUFFICES ASSUME ~(e <= to) PROVE FALSE
                OBVIOUS
            <4>1. c \in p .. e - 1 /\ c \in p .. to
                BY <2>2, <2>6, <3>2
            <4> QED BY <2>6, <3>2, <3>3, <4>1
        <3>5. e \in p + 1 .. to /\ t[e] = CommentEnd
            <4>1. e \in p .. to /\ t[e] = CommentEnd
                BY <2>6, <3>3, <3>4
            <4>2. e # p
                BY <3>1, <4>1 DEF Comment, CommentEnd
            <4> QED BY <2>2, <4>1, <4>2
        <3>6. e = c
            <4>1. CASE e < c
                <5>1. e \in p + 1 .. c - 1
                    BY <3>5, <4>1
                <5> QED BY <3>2, <3>5, <5>1
            <4>2. CASE e > c
                <5>1. c \in p .. e - 1 /\ c \in p .. to
                    BY <2>2, <3>2, <3>5, <4>2
                <5> QED BY <2>6, <3>2, <3>3, <5>1
            <4> QED BY <3>2, <3>5, <4>1, <4>2
        <3>7. IdleIn(t, p, e)
            <4> SUFFICES ASSUME NEW x \in p .. e
                         PROVE  \E j \in p .. x, k \in x .. e :
                                   t[j] = Comment /\ t[k] = CommentEnd
                                     /\ \A l \in j + 1 .. k - 1 : t[l] \notin {Comment, CommentEnd}
                BY DEF IdleIn
            <4>1. p \in p .. x /\ e \in x .. e
                BY <2>2, <3>5
            <4> QED BY <3>1, <3>2, <3>5, <3>6, <4>1
        <3>8. PICK q \in Int : q = e + 1
            BY <3>5
        <3>9. q \in i + 1 .. to + 1 /\ e \in Int /\ q - 1 = e
            BY <2>2, <3>5, <3>8
        <3>10. Passed(q) /\ f[i] = f[q]
            BY <1>2, <1>3, <2>7, <2>9, <3>4, <3>8, <3>9
        <3>11. PICK r \in Int : r = f[q] /\ r \in q .. to + 1
            BY <3>10
        <3>12. IdleIn(t, i, e)
            <4>1. PICK y \in Int : y = p - 1
                BY <2>2
            <4>2. i <= y + 1 /\ y <= e /\ y + 1 = p
                BY <2>2, <3>5, <4>1
            <4>3. IdleIn(t, i, y) /\ IdleIn(t, y + 1, e)
                BY <2>4, <3>7, <4>1, <4>2
            <4> QED BY <3>9, <4>2, <4>3, IdleJoins
        <3>13. IdleIn(t, i, r - 1)
            <4>1. PICK z \in Int : z = r - 1
                OBVIOUS
            <4>2. i <= e + 1 /\ e <= z
                BY <3>8, <3>9, <3>11, <4>1
            <4>3. IdleIn(t, e + 1, z)
                BY <3>8, <3>10, <3>11, <4>1
            <4>4. IdleIn(t, i, z)
                BY <3>9, <3>12, <4>2, <4>3, IdleJoins
            <4> QED BY <4>1, <4>4
        <3>14. /\ f[i] = r /\ r \in i .. to + 1 /\ (r <= to => t[r] # Comment)
               /\ r < to => t[r] \notin Blanks
            BY <3>9, <3>10, <3>11
        <3> QED BY <1>2, <3>13, <3>14
    <2> QED BY <2>8, <2>9
<1>4. from \in S
    <2>1. PICK last \in Int : last = to + 1
        OBVIOUS
    <2>2. \A i \in from .. last : (\A j \in i + 1 .. last : j \in S) => i \in S
        <3> HIDE DEF Passed
        <3> QED BY <1>3, <2>1
    <2>3. \A i \in from .. last : i \in S
        <3>1. from \in Int
            OBVIOUS
        <3> HIDE DEF Passed
        <3> QED BY <2>2, <3>1, Downwards
    <2> QED BY <2>1, <2>3
<1> QED BY <1>1, <1>2, <1>4

\* A sum of more symbols is not smaller.
LEMMA SumGrows ==
    ASSUME NEW a \in Int, NEW i \in Int, NEW j \in Int, a <= i + 1, i <= j, NEW t, NEW amount,
           \A k \in a .. j : amount[t[k]] \in Nat
    PROVE  Sum(t, a, i, amount) <= Sum(t, a, j, amount)
<1>1. PICK r : IsSum(r, t, a, i, amount) /\ Sum(t, a, i, amount) = r[i]
    <2>1. \A k \in a .. i : amount[t[k]] \in Nat
        OBVIOUS
    <2> QED BY <2>1, SumExists
<1>2. PICK s : IsSum(s, t, a, j, amount) /\ Sum(t, a, j, amount) = s[j]
    <2>1. a <= j + 1
        OBVIOUS
    <2> QED BY <2>1, SumExists
<1>3. /\ \A k \in a - 1 .. i : r[k] = IF k < a THEN 0 ELSE r[k - 1] + amount[t[k]]
      /\ \A k \in a - 1 .. j : s[k] = IF k < a THEN 0 ELSE s[k - 1] + amount[t[k]]
    BY <1>1, <1>2 DEF IsSum
<1>4. PICK base \in Int : base = a - 1
    OBVIOUS
<1>5. \A k \in base .. j : s[k] \in Nat
    <2>1. s[a - 1] \in Nat
        BY <1>3
    <2>2. \A k \in a .. j : s[k - 1] \in Nat => s[k] \in Nat
        BY <1>3
    <2> QED BY <1>4, <2>1, <2>2, ClimbsInNat
<1>6. i \in base .. j /\ j \in base .. j /\ s[i] \in Nat
    BY <1>4, <1>5
<1>7. PICK S : S = {k \in base .. j : (k <= i => r[k] = s[k]) /\ (i <= k => s[i] <= s[k])}
    OBVIOUS
<1>8. base \in S
    BY <1>3, <1>4, <1>6, <1>7
<1>9. ASSUME NEW k \in base + 1 .. j, k - 1 \in S PROVE k \in S
    <2>1. k \in base .. j /\ k - 1 \in base .. j /\ ~(k < a) /\ amount[t[k]] \in Nat
        BY <1>4
    <2>2. s[k] = s[k - 1] + amount[t[k]] /\ s[k - 1] \in Nat /\ s[k] \in Nat
        BY <1>3, <1>4, <1>5, <2>1
    <2>3. k <= i => r[k] = s[k]
        <3>1. k <= i => r[k] = r[k - 1] + amount[t[k]] /\ r[k - 1] = s[k - 1]
            BY <1>3, <1>4, <1>7, <1>9, <2>1
        <3> QED BY <2>2, <3>1
    <2>4. i <= k => s[i] <= s[k]
        <3>1. CASE i <= k - 1
            <4>1. s[i] <= s[k - 1]
                BY <1>7, <1>9, <3>1
            <4> QED BY <1>6, <2>1, <2>2, <4>1
        <3>2. CASE i = k
            BY <2>2, <3>2
        <3> QED BY <3>1, <3>2
    <2> QED BY <1>7, <2>1, <2>3, <2>4
<1>10. \A k \in base .. j : k \in S
    BY <1>8, <1>9, Upwards
<1> QED BY <1>1, <1>2, <1>6, <1>7, <1>10

\* Part of a sum is no more than all of it.
LEMMA SumWithin ==
    ASSUME NEW m \in Int, NEW a \in Int, NEW b \in Int, NEW n \in Int, m <= a, a <= b + 1, b <= n,
           NEW t, NEW amount, \A k \in m .. n : amount[t[k]] \in Nat
    PROVE  Sum(t, a, b, amount) <= Sum(t, m, n, amount)
<1>1. PICK r : IsSum(r, t, a, b, amount) /\ Sum(t, a, b, amount) = r[b]
    <2>1. \A k \in a .. b : amount[t[k]] \in Nat
        OBVIOUS
    <2> QED BY <2>1, SumExists
<1>2. PICK s : IsSum(s, t, m, b, amount) /\ Sum(t, m, b, amount) = s[b]
    <2>1. m <= b + 1 /\ \A k \in m .. b : amount[t[k]] \in Nat
        OBVIOUS
    <2> QED BY <2>1, SumExists
<1>3. /\ \A k \in a - 1 .. b : r[k] = IF k < a THEN 0 ELSE r[k - 1] + amount[t[k]]
      /\ \A k \in m - 1 .. b : s[k] = IF k < m THEN 0 ELSE s[k - 1] + amount[t[k]]
    BY <1>1, <1>2 DEF IsSum
<1>4. \A k \in m - 1 .. b : s[k] \in Nat
    <2>1. s[m - 1] \in Nat
        BY <1>3
    <2>2. \A k \in m .. b : s[k - 1] \in Nat => s[k] \in Nat
        BY <1>3
    <2> QED BY <2>1, <2>2, ClimbsInNat
<1>5. PICK base \in Int : base = a - 1 /\ base <= b /\ m - 1 <= base
    OBVIOUS
<1>6. PICK S : S = {k \in base .. b : r[k] \in Nat /\ r[k] <= s[k]}
    OBVIOUS
<1>7. base \in S
    <2>1. r[base] = 0 /\ s[base] \in Nat /\ base \in base .. b
        BY <1>3, <1>4, <1>5
    <2> QED BY <1>6, <2>1
<1>8. ASSUME NEW k \in base + 1 .. b, k - 1 \in S PROVE k \in S
    <2>1. /\ k \in base .. b /\ ~(k < a) /\ ~(k < m) /\ amount[t[k]] \in Nat
          /\ k \in a - 1 .. b /\ k \in m - 1 .. b /\ k - 1 \in m - 1 .. b
        BY <1>5
    <2>2. r[k] = r[k - 1] + amount[t[k]] /\ s[k] = s[k - 1] + amount[t[k]]
        BY <1>3, <2>1
    <2>3. r[k - 1] \in Nat /\ r[k - 1] <= s[k - 1] /\ s[k - 1] \in Nat
        BY <1>4, <1>6, <1>8, <2>1
    <2>4. r[k] \in Nat /\ r[k] <= s[k]
        BY <2>1, <2>2, <2>3
    <2> QED BY <1>6, <2>1, <2>4
<1>9. \A k \in base .. b : k \in S
    BY <1>7, <1>8, Upwards
<1>10. r[b] \in Nat /\ r[b] <= s[b] /\ s[b] \in Nat
    BY <1>4, <1>5, <1>6, <1>9
<1>11. Sum(t, m, b, amount) <= Sum(t, m, n, amount)
    <2>1. m <= b + 1
        OBVIOUS
    <2> QED BY <2>1, SumGrows
<1>12. Sum(t, m, n, amount) \in Nat
    <2>1. m <= n + 1
        OBVIOUS
    <2> QED BY <2>1, SumIs
<1> QED BY <1>1, <1>2, <1>10, <1>11, <1>12

\* The mark at i has its end at c.
EndsAt(t, i, c) ==
    i < c /\ t[c] = CDATAEnd /\ \A k \in i + 1 .. c - 1 : t[k] # CDATAEnd

\* The text between the first CDATA mark and the next end: the end is always in
\* reach, because the section has as many characters as there are up to it.
LEMMA FromCDATAText ==
    ASSUME NEW n \in Nat, NEW t, Len(t) = n, IsTextOf(t, n), NEW from \in Nat \ {0},
           NEW to \in Int, to <= n, NEW mark \in Int, from <= mark, NEW c \in Int, c <= to,
           EndsAt(t, mark, c)
    PROVE  FromCDATA(t, from, to, mark) = Trimmed(t, mark + 1, c - 1)
<1>1. PICK f : f = FromCDATA(t, from, to, mark)
    OBVIOUS
<1>2. PICK first \in Nat \ {0}, chars \in {Sum(t, from, to, Width)} :
             first = mark + 1 /\ chars = Sum(t, from, to, Width)
    OBVIOUS
<1>3. PICK reach : reach = {i \in first .. n :
                              t[i] = CDATAEnd /\ Sum(t, first, i, Width) <= chars}
    OBVIOUS
<1>4. f = IF reach = {} THEN [from |-> from, len |-> 0]
          ELSE Trimmed(t, first, Min(reach) - 1)
    BY <1>1, <1>2, <1>3 DEF FromCDATA
<1>5. c \in reach
    <2>1. \A k \in from .. to : Width[t[k]] \in Nat
        BY ValuesAssumption DEF IsTextOf
    <2>2. from \in Int /\ first \in Int /\ c \in Int /\ from <= first /\ first <= c + 1 /\ c <= to
        BY <1>2 DEF EndsAt
    <2>3. Sum(t, first, c, Width) <= Sum(t, from, to, Width)
        BY <2>1, <2>2, SumWithin
    <2>4. c \in first .. n /\ t[c] = CDATAEnd
        BY <1>2 DEF EndsAt
    <2> QED BY <1>2, <1>3, <2>3, <2>4
<1>6. PICK e : e = Min(reach)
    OBVIOUS
<1>7. e \in reach /\ \A k \in reach : e <= k
    <2>1. first \in Int /\ reach \in SUBSET Int /\ \A k \in reach : first <= k
        BY <1>3
    <2> QED BY <1>5, <1>6, <2>1, LeastOfInts
<1>8. e = c
    <2>1. e \in first .. n /\ t[e] = CDATAEnd /\ e <= c
        BY <1>3, <1>5, <1>7
    <2>2. e \notin mark + 1 .. c - 1
        BY <2>1 DEF EndsAt
    <2> QED BY <1>2, <2>1, <2>2
<1> QED BY <1>1, <1>2, <1>4, <1>5, <1>6, <1>8

\* What TextIsRead speaks of, for the section from .. last of the text t.
BlockIn(t, from, i, open, close) ==
    \E j \in from .. i - 1 : t[j] = open /\ \A k \in j + 1 .. i - 1 : t[k] # close
DataIn(t, from, last) ==
    {i \in from .. last :
        t[i] \notin {Comment, CDATA, CDATAEnd} /\ ~BlockIn(t, from, i, Comment, CommentEnd)}
SolidIn(t, from, last) == {i \in DataIn(t, from, last) : t[i] \notin Blanks}
MeantIn(t, from, last) ==
    {i \in DataIn(t, from, last) :
        \E j, k \in SolidIn(t, from, last) : j <= i /\ i <= k}
ApartIn(t, from, last) ==
    \A i \in from .. last :
        /\ t[i] \in {CDATA, CDATAEnd} => ~BlockIn(t, from, i, Comment, CommentEnd)
        /\ t[i] = Comment => ~BlockIn(t, from, i, CDATA, CDATAEnd)
OnePieceIn(t, from, last) ==
    LET mark == FirstOf(t, from, last, {CDATA})
    IN /\ \A j, k \in SolidIn(t, from, last) : \A i \in j .. k : i \in DataIn(t, from, last)
       /\ mark <= last =>
             \A i \in SolidIn(t, from, last) :
                mark < i /\ \A k \in mark + 1 .. i : t[k] # CDATAEnd

PieceOf(f) == f.from .. f.from + f.len - 1
\* What it says of the piece f.
TextOf(t, from, last, f) ==
    /\ \A i \in PieceOf(f) : t[i] \notin {CDATA, CDATAEnd}
    /\ ApartIn(t, from, last) => PieceOf(f) \subseteq DataIn(t, from, last)
    /\ ApartIn(t, from, last) /\ OnePieceIn(t, from, last) =>
          \/ PieceOf(f) = MeantIn(t, from, last)
          \/ MeantIn(t, from, last) = {} /\ f.len = 1 /\ t[f.from] \in Blanks

\* Data that is trimmed is all of the text when all that is solid is in it.
LEMMA TrimmedIsMeant ==
    ASSUME NEW t, NEW from, NEW last, NEW first \in Int, NEW end \in Int, NEW f,
           WithoutBlanks(t, first, end, f),
           PieceOf(f) \subseteq DataIn(t, from, last),
           \A i \in SolidIn(t, from, last) : i \in first .. end,
           t[f.from] \in Blanks => \A i \in first .. end : t[i] \in Blanks
    PROVE  \/ PieceOf(f) = MeantIn(t, from, last)
           \/ MeantIn(t, from, last) = {} /\ f.len = 1 /\ t[f.from] \in Blanks
<1>1. /\ f.from \in Int /\ f.len \in Nat \ {0} /\ first <= f.from /\ f.from + f.len - 1 <= end
      /\ f.len > 1 => t[f.from] \notin Blanks /\ t[f.from + f.len - 1] \notin Blanks
    BY DEF WithoutBlanks
<1>2. PICK a \in Int, to \in Int :
         /\ a = f.from /\ to = f.from + f.len - 1 /\ first <= a /\ a <= to /\ to <= end
         /\ to + 1 = f.from + f.len /\ PieceOf(f) = a .. to
         /\ f.len = 1 \/ (f.len > 1 /\ t[a] \notin Blanks /\ t[to] \notin Blanks)
    <2>1. f.from \in Int /\ f.from + f.len - 1 \in Int /\ (f.len = 1 \/ f.len > 1)
        BY <1>1
    <2>2. PieceOf(f) = f.from .. f.from + f.len - 1 /\ f.from <= f.from + f.len - 1
        BY <1>1 DEF PieceOf
    <2>3. f.from + f.len - 1 + 1 = f.from + f.len
        BY <1>1
    <2> f.from \in Int /\ f.from + f.len - 1 \in Int
        BY <2>1
    <2> WITNESS f.from \in Int, f.from + f.len - 1 \in Int
    <2> QED BY <1>1, <2>1, <2>2, <2>3
<1>3. PICK D, S : D = DataIn(t, from, last) /\ S = SolidIn(t, from, last)
    OBVIOUS
<1>4. S = {i \in D : t[i] \notin Blanks} /\ a .. to \subseteq D /\ \A i \in S : i \in first .. end
    BY <1>2, <1>3 DEF SolidIn
<1>5. MeantIn(t, from, last) = {i \in D : \E j, k \in S : j <= i /\ i <= k}
    BY <1>3 DEF MeantIn
<1>6. CASE t[a] \in Blanks
    <2>1. S = {}
        BY <1>2, <1>4, <1>6
    <2>2. f.len = 1
        BY <1>2, <1>6
    <2> QED BY <1>2, <1>5, <1>6, <2>1, <2>2
<1>7. CASE t[a] \notin Blanks
    <2>1. a \in S /\ to \in S
        <3>1. a \in a .. to /\ to \in a .. to
            BY <1>2
        <3>2. t[to] \notin Blanks
            BY <1>2, <1>7
        <3> QED BY <1>4, <1>7, <3>1, <3>2
    <2>2. \A i \in S : i \in a .. to
        <3> SUFFICES ASSUME NEW i \in S PROVE i \in a .. to
            OBVIOUS
        <3>1. i \in first .. end /\ t[i] \notin Blanks
            BY <1>4
        <3>2. i \notin first .. a - 1 /\ i \notin to + 1 .. end
            BY <1>2, <3>1 DEF WithoutBlanks
        <3> QED BY <1>2, <3>1, <3>2
    <2>3. \A i \in D : (\E j, k \in S : j <= i /\ i <= k) => i \in a .. to
        <3> SUFFICES ASSUME NEW i \in D, NEW j \in S, NEW k \in S, j <= i, i <= k
                     PROVE  i \in a .. to
            OBVIOUS
        <3>1. i \in Int
            BY <1>3 DEF DataIn
        <3> QED BY <1>2, <2>2, <3>1
    <2>4. \A i \in a .. to : i \in D /\ a <= i /\ i <= to
        BY <1>4
    <2>5. MeantIn(t, from, last) = a .. to
        BY <1>5, <2>1, <2>3, <2>4
    <2> QED BY <1>2, <2>5
<1> QED BY <1>6, <1>7

\* Nothing is meant where nothing is solid.
LEMMA NothingIsMeant ==
    ASSUME NEW t, NEW from, NEW last, SolidIn(t, from, last) = {}
    PROVE  MeantIn(t, from, last) = {}
BY DEF MeantIn

\* The text of a section with CDATA.
LEMMA CDATAText ==
    ASSUME NEW n \in Nat, NEW t, Len(t) = n, IsTextOf(t, n), NEW from \in Nat \ {0},
           NEW last \in Int, from <= last + 1, last <= n, Paired(t, from, last, CDATA, CDATAEnd),
           NEW mark, mark = FirstOf(t, from, last, {CDATA}), mark <= last,
           NEW f, f = FromCDATA(t, from, last, mark)
    PROVE  TextOf(t, from, last, f)
<1>1. mark \in from .. last /\ t[mark] = CDATA
    <2>1. from \in Int
        OBVIOUS
    <2>2. mark \in from .. last + 1 /\ At(t, mark) \in {CDATA}
        BY <2>1, FirstOfIs
    <2>3. mark \in from .. last /\ mark \in 1 .. n
        BY <2>2
    <2> QED BY <2>2, <2>3 DEF At, IsTextOf
<1>2. PICK c \in mark + 1 .. last :
         t[c] = CDATAEnd /\ \A k \in mark + 1 .. c - 1 : t[k] \notin {CDATA, CDATAEnd}
    BY <1>1 DEF Paired
<1>3. PICK first \in Nat \ {0}, end \in Int : first = mark + 1 /\ end = c - 1
    BY <1>1, <1>2
<1>4. f = Trimmed(t, first, end)
    <2>1. mark \in Int /\ c \in Int /\ from <= mark /\ c <= last /\ mark < c
        BY <1>1, <1>2
    <2>2. \A k \in mark + 1 .. c - 1 : t[k] # CDATAEnd
        BY <1>2
    <2>3. EndsAt(t, mark, c)
        BY <1>2, <2>1, <2>2 DEF EndsAt
    <2>4. FromCDATA(t, from, last, mark) = Trimmed(t, mark + 1, c - 1)
        BY <2>1, <2>3, FromCDATAText
    <2> QED BY <1>3, <2>4
<1>5. first <= end + 1 /\ end <= n /\ end < last /\ from < first /\ mark \in Int /\ c \in Int
    BY <1>1, <1>2, <1>3
<1>6. ASSUME ApartIn(t, from, last), NEW i \in first .. end
      PROVE  i \in DataIn(t, from, last)
    <2>1. i \in from .. last /\ i \in mark + 1 .. c - 1
        BY <1>3, <1>5
    <2>2. \A j \in from .. i : t[j] = Comment => j < mark
        <3> SUFFICES ASSUME NEW j \in from .. i, t[j] = Comment, ~(j < mark) PROVE FALSE
            OBVIOUS
        <3>1. j # mark
            BY <1>1 DEF Comment, CDATA
        <3>2. mark \in from .. j - 1 /\ j \in from .. last
            BY <1>1, <2>1, <3>1
        <3>3. \A k \in mark + 1 .. j - 1 : t[k] # CDATAEnd
            <4>1. \A k \in mark + 1 .. j - 1 : k \in mark + 1 .. c - 1
                BY <1>5, <2>1
            <4> QED BY <1>2, <4>1
        <3>4. BlockIn(t, from, j, CDATA, CDATAEnd)
            BY <1>1, <3>2, <3>3 DEF BlockIn
        <3> QED BY <1>6, <3>2, <3>4 DEF ApartIn
    <2>3. t[i] \notin {Comment, CDATA, CDATAEnd}
        <3>1. i \in from .. i /\ ~(i < mark)
            BY <1>5, <2>1
        <3> QED BY <1>2, <2>1, <2>2, <3>1
    <2>4. ~BlockIn(t, from, i, Comment, CommentEnd)
        <3> SUFFICES ASSUME NEW j \in from .. i - 1, t[j] = Comment,
                            \A k \in j + 1 .. i - 1 : t[k] # CommentEnd
                     PROVE  FALSE
            BY DEF BlockIn
        <3>1. j \in from .. mark - 1
            <4>1. j < mark
                BY <2>2
            <4> QED BY <1>5, <4>1
        <3>2. \A k \in j + 1 .. mark - 1 : t[k] # CommentEnd
            <4>1. \A k \in j + 1 .. mark - 1 : k \in j + 1 .. i - 1
                BY <1>5, <2>1
            <4> QED BY <4>1
        <3>3. BlockIn(t, from, mark, Comment, CommentEnd)
            BY <3>1, <3>2 DEF BlockIn
        <3> QED BY <1>1, <1>6, <3>3 DEF ApartIn
    <2> QED BY <2>1, <2>3, <2>4 DEF DataIn
<1>7. ASSUME OnePieceIn(t, from, last), NEW i \in SolidIn(t, from, last) PROVE i \in first .. end
    <2>1. i \in Int
        BY DEF SolidIn, DataIn
    <2>2. mark < i /\ \A k \in mark + 1 .. i : t[k] # CDATAEnd
        BY <1>7 DEF OnePieceIn
    <2>3. c \notin mark + 1 .. i
        BY <1>2, <2>2
    <2> QED BY <1>2, <1>3, <1>5, <2>1, <2>2, <2>3
<1>8. CASE first > end
    <2>1. f = [from |-> first, len |-> 0]
        BY <1>4, <1>8 DEF Trimmed
    <2>2. PieceOf(f) = {}
        BY <2>1 DEF PieceOf
    <2>3. OnePieceIn(t, from, last) => MeantIn(t, from, last) = {}
        <3> SUFFICES ASSUME OnePieceIn(t, from, last) PROVE SolidIn(t, from, last) = {}
            BY NothingIsMeant
        <3>1. first .. end = {}
            BY <1>8
        <3> QED BY <1>7, <3>1
    <2> QED BY <2>2, <2>3 DEF TextOf
<1>9. CASE first <= end
    <2>1. WithoutBlanks(t, first, end, f)
        BY <1>4, <1>5, <1>9, TrimmedText
    <2>2. PieceOf(f) \subseteq first .. end
        BY <2>1 DEF WithoutBlanks, PieceOf
    <2>3. \A i \in PieceOf(f) : t[i] \notin {CDATA, CDATAEnd}
        BY <1>2, <1>3, <2>2
    <2>4. ApartIn(t, from, last) => PieceOf(f) \subseteq DataIn(t, from, last)
        BY <1>6, <2>2
    <2>5. t[f.from] \in Blanks => \A i \in first .. end : t[i] \in Blanks
        BY <2>1, BlankPiece
    <2>6. ApartIn(t, from, last) /\ OnePieceIn(t, from, last) =>
             \/ PieceOf(f) = MeantIn(t, from, last)
             \/ MeantIn(t, from, last) = {} /\ f.len = 1 /\ t[f.from] \in Blanks
        <3> SUFFICES ASSUME ApartIn(t, from, last), OnePieceIn(t, from, last)
                     PROVE  \/ PieceOf(f) = MeantIn(t, from, last)
                            \/ MeantIn(t, from, last) = {} /\ f.len = 1 /\ t[f.from] \in Blanks
            OBVIOUS
        <3>1. PieceOf(f) \subseteq DataIn(t, from, last)
            BY <2>4
        <3>2. \A i \in SolidIn(t, from, last) : i \in first .. end
            BY <1>7
        <3>3. first \in Int /\ end \in Int
            OBVIOUS
        <3> QED BY <2>1, <2>5, <3>1, <3>2, <3>3, TrimmedIsMeant
    <2> QED BY <2>3, <2>4, <2>6 DEF TextOf
<1> QED BY <1>5, <1>8, <1>9

\* The text of a section without.
LEMMA PlainText ==
    ASSUME NEW n \in Nat, NEW t, Len(t) = n, IsTextOf(t, n), NEW from \in Nat \ {0},
           NEW last \in Int, from <= last + 1, last <= n,
           Paired(t, from, last, Comment, CommentEnd),
           \A i \in from .. last : t[i] = CDATAEnd => \E j \in from .. i : t[j] = CDATA,
           NEW mark, mark = FirstOf(t, from, last, {CDATA}), ~(mark <= last),
           NEW f, f = FromData(t, from, last)
    PROVE  TextOf(t, from, last, f)
<1>1. from \in Int
    OBVIOUS
<1>2. \A k \in from .. last : t[k] \notin {CDATA, CDATAEnd}
    <2>1. /\ mark \in from .. last + 1
          /\ \A k \in from .. mark - 1 : At(t, k) \notin {CDATA}
        BY <1>1, FirstOfIs
    <2>2. \A k \in from .. last : At(t, k) = t[k]
        BY DEF At, IsTextOf
    <2>3. \A k \in from .. last : t[k] # CDATA
        <3>1. \A k \in from .. last : k \in from .. mark - 1
            BY <2>1
        <3> QED BY <2>1, <2>2, <3>1
    <2>4. \A k \in from .. last : t[k] # CDATAEnd
        <3> SUFFICES ASSUME NEW k \in from .. last, t[k] = CDATAEnd PROVE FALSE
            OBVIOUS
        <3>1. PICK j \in from .. k : t[j] = CDATA
            OBVIOUS
        <3> QED BY <2>3, <3>1
    <2> QED BY <2>3, <2>4
<1>3. PICK b : b = BehindComments(t, from, last)
    OBVIOUS
<1>4. /\ b \in from .. last + 1 /\ IdleIn(t, from, b - 1) /\ (b <= last => t[b] # Comment)
      /\ b < last => t[b] \notin Blanks
    BY <1>3, BehindCommentsText
<1>5. PICK e : e = FirstOf(t, b, last, {Comment})
    OBVIOUS
<1>6. /\ e \in b .. last + 1 /\ (e <= last => t[e] = Comment)
      /\ \A k \in b .. e - 1 : t[k] # Comment
    <2>1. /\ e \in b .. last + 1 /\ (e <= last => At(t, e) = Comment)
          /\ \A k \in b .. e - 1 : At(t, k) # Comment
        BY <1>4, <1>5, FirstOfIs
    <2>2. \A k \in b .. last : At(t, k) = t[k]
        BY <1>4 DEF At, IsTextOf
    <2> QED BY <1>4, <2>1, <2>2
<1>7. PICK first \in Nat \ {0}, end \in Int : first = b /\ end = e - 1
    BY <1>4, <1>6
<1>8. /\ f = Trimmed(t, first, end)
      /\ from <= first /\ first <= end + 1 /\ end <= last /\ end <= n /\ e = end + 1
    <2>1. b # 0
        BY <1>4
    <2>2. f = Trimmed(t, b, FirstOf(t, b, last, {Comment}) - 1)
        BY <1>3, <2>1 DEF FromData
    <2> QED BY <1>4, <1>5, <1>6, <1>7, <2>2
\* Each comment that begins before the data ends there.
<1>9. ASSUME NEW j \in from .. first - 1, t[j] = Comment
      PROVE  \E k \in j + 1 .. first - 1 : t[k] = CommentEnd
    <2>1. t[j] \notin Blanks
        BY <1>9 DEF Blanks, Comment
    <2>2. PICK i \in from .. j, k \in j .. first - 1 : t[i] = Comment /\ t[k] = CommentEnd
        BY <1>4, <1>7, <2>1 DEF IdleIn
    <2>3. k # j
        BY <1>9, <2>2 DEF Comment, CommentEnd
    <2> QED BY <2>2, <2>3
<1>10. ASSUME NEW i \in first .. end PROVE i \in DataIn(t, from, last)
    <2>1. i \in from .. last /\ i \in b .. e - 1
        BY <1>7, <1>8
    <2>2. ~BlockIn(t, from, i, Comment, CommentEnd)
        <3> SUFFICES ASSUME NEW j \in from .. i - 1, t[j] = Comment,
                            \A k \in j + 1 .. i - 1 : t[k] # CommentEnd
                     PROVE  FALSE
            BY DEF BlockIn
        <3>1. j \in from .. first - 1
            <4>1. j \notin b .. e - 1
                BY <1>6
            <4> QED BY <1>7, <1>8, <2>1, <4>1
        <3>2. PICK k \in j + 1 .. first - 1 : t[k] = CommentEnd
            BY <1>9, <3>1
        <3>3. k \in j + 1 .. i - 1
            BY <1>8
        <3> QED BY <3>2, <3>3
    <2> QED BY <1>2, <1>6, <2>1, <2>2 DEF DataIn
\* Nothing solid stands before the data.
<1>11. ASSUME NEW i \in SolidIn(t, from, last) PROVE i \in first .. last
    <2>1. /\ i \in from .. last /\ t[i] \notin Blanks /\ t[i] # Comment
          /\ ~BlockIn(t, from, i, Comment, CommentEnd)
        BY DEF SolidIn, DataIn
    <2> SUFFICES ASSUME i < first PROVE FALSE
        BY <1>8, <2>1
    <2>2. i \in from .. b - 1
        BY <1>7, <2>1
    <2>3. PICK j \in from .. i, k \in i .. b - 1 :
             t[j] = Comment /\ \A l \in j + 1 .. k - 1 : t[l] \notin {Comment, CommentEnd}
        BY <1>4, <2>1, <2>2 DEF IdleIn
    <2>4. j \in from .. i - 1
        BY <2>1, <2>3
    <2>5. \A l \in j + 1 .. i - 1 : l \in j + 1 .. k - 1
        BY <1>4, <2>1
    <2>6. \A l \in j + 1 .. i - 1 : t[l] # CommentEnd
        BY <2>3, <2>5
    <2> QED BY <2>1, <2>3, <2>4, <2>6 DEF BlockIn
<1>12. CASE first > end
    <2>1. f = [from |-> first, len |-> 0]
        BY <1>8, <1>12 DEF Trimmed
    <2>2. PieceOf(f) = {}
        BY <2>1 DEF PieceOf
    <2>3. first > last
        <3>1. e = b /\ b \in Int
            BY <1>4, <1>6, <1>7, <1>8, <1>12
        <3> QED BY <1>4, <1>6, <1>7, <3>1
    <2>4. MeantIn(t, from, last) = {}
        <3>1. first .. last = {}
            BY <2>3
        <3>2. SolidIn(t, from, last) = {}
            BY <1>11, <3>1
        <3> QED BY <3>2, NothingIsMeant
    <2> QED BY <2>2, <2>4 DEF TextOf
<1>13. CASE first <= end
    <2>1. WithoutBlanks(t, first, end, f)
        BY <1>8, <1>13, TrimmedText
    <2>2. PICK a \in Int, to \in Int :
             /\ a = f.from /\ to = f.from + f.len - 1
             /\ first <= a /\ a <= to /\ to <= end /\ PieceOf(f) = a .. to
        BY <2>1 DEF WithoutBlanks, PieceOf
    <2>3. a .. to \subseteq first .. end
        BY <2>2
    <2>4. a .. to \subseteq DataIn(t, from, last)
        BY <1>10, <2>3
    <2>5. \A i \in a .. to : t[i] \notin {CDATA, CDATAEnd}
        BY <2>4 DEF DataIn
    <2>6. t[a] \in Blanks => first = last
        <3> SUFFICES ASSUME t[a] \in Blanks PROVE first = last
            OBVIOUS
        <3>1. t[first] \in Blanks
            <4>1. \A i \in first .. end : t[i] \in Blanks
                BY <2>1, <2>2, BlankPiece
            <4> QED BY <1>13, <4>1
        <3> QED BY <1>4, <1>7, <1>8, <1>13, <3>1
    <2>7. ASSUME OnePieceIn(t, from, last), NEW i \in SolidIn(t, from, last)
          PROVE  i \in first .. end
        <3>1. i \in first .. last
            BY <1>11
        <3> SUFFICES ASSUME ~(i <= end) PROVE FALSE
            BY <3>1
        <3>2. e <= last /\ e <= i
            BY <1>8, <3>1
        <3>3. t[a] \notin Blanks
            BY <1>8, <1>13, <2>6, <3>1
        <3>4. a \in SolidIn(t, from, last)
            <4>1. a \in a .. to
                BY <2>2
            <4> QED BY <2>4, <3>3, <4>1 DEF SolidIn
        <3>5. e \in a .. i
            BY <1>8, <2>2, <3>1, <3>2
        <3>6. e \in DataIn(t, from, last)
            BY <2>7, <3>4, <3>5 DEF OnePieceIn
        <3>7. t[e] = Comment
            BY <1>6, <3>2
        <3> QED BY <3>6, <3>7 DEF DataIn
    <2>8. OnePieceIn(t, from, last) =>
             \/ PieceOf(f) = MeantIn(t, from, last)
             \/ MeantIn(t, from, last) = {} /\ f.len = 1 /\ t[f.from] \in Blanks
        <3>1. t[f.from] \in Blanks => \A i \in first .. end : t[i] \in Blanks
            BY <2>1, BlankPiece
        <3>2. PieceOf(f) \subseteq DataIn(t, from, last)
            BY <2>2, <2>4
        <3>3. first \in Int /\ end \in Int
            OBVIOUS
        <3> SUFFICES ASSUME OnePieceIn(t, from, last)
                     PROVE  \/ PieceOf(f) = MeantIn(t, from, last)
                            \/ MeantIn(t, from, last) = {} /\ f.len = 1 /\ t[f.from] \in Blanks
            OBVIOUS
        <3>4. \A i \in SolidIn(t, from, last) : i \in first .. end
            BY <2>7
        <3> QED BY <2>1, <3>1, <3>2, <3>3, <3>4, TrimmedIsMeant
    <2> QED BY <2>2, <2>4, <2>5, <2>8 DEF TextOf
<1> QED BY <1>8, <1>12, <1>13

\* Whatever the section has.
LEMMA PrepareDataText ==
    ASSUME NEW n \in Nat, NEW t, Len(t) = n, IsTextOf(t, n), NEW from \in Nat \ {0},
           NEW last \in Int, from <= last + 1, last <= n,
           Paired(t, from, last, Comment, CommentEnd), Paired(t, from, last, CDATA, CDATAEnd),
           \A i \in from .. last : t[i] = CDATAEnd => \E j \in from .. i : t[j] = CDATA,
           NEW len \in Nat, from + len - 1 = last
    PROVE  TextOf(t, from, last, PrepareData(t, from, len))
<1>1. PICK mark : mark = FirstOf(t, from, last, {CDATA})
    OBVIOUS
<1>2. PICK f : f = PrepareData(t, from, len)
    OBVIOUS
<1>3. f = IF mark <= last THEN FromCDATA(t, from, last, mark) ELSE FromData(t, from, last)
    BY <1>1, <1>2 DEF PrepareData
<1>4. CASE mark <= last
    <2>1. f = FromCDATA(t, from, last, mark)
        BY <1>3, <1>4
    <2>2. TextOf(t, from, last, f)
        BY <1>1, <1>4, <2>1, CDATAText
    <2> QED BY <1>2, <2>2
<1>5. CASE ~(mark <= last)
    <2>1. f = FromData(t, from, last)
        BY <1>3, <1>5
    <2>2. TextOf(t, from, last, f)
        BY <1>1, <1>5, <2>1, PlainText
    <2> QED BY <1>2, <2>2
<1> QED BY <1>4, <1>5

-----------------------------------------------------------------------------
(* The attributes of a tag. *)

\* Where an attribute is in the text t: a name of n symbols at p, a value of v
\* symbols between two q at f.
Lies(t, p, n, f, v, q) ==
    /\ p \in Nat \ {0} /\ n \in Nat \ {0} /\ f \in Nat /\ v \in Nat /\ p + n <= f - 2
    /\ \A k \in p .. p + n - 1 : t[k] \notin Blanks /\ t[k] # "="
    /\ \A k \in p + n .. f - 3 : t[k] \in Blanks
    /\ t[f - 2] = "=" /\ t[f - 1] = q
    /\ \A k \in f .. f + v - 1 : t[k] # q
    /\ t[f + v] = q

LEMMA PartIs ==
    ASSUME NEW t \in Seq(Symbols), NEW w \in Seq(Symbols), NEW p \in Nat \ {0},
           SubSeq(t, p, p + Len(w) - 1) = w, p + Len(w) - 1 <= Len(t)
    PROVE  \A k \in p .. p + Len(w) - 1 : k - p + 1 \in 1 .. Len(w) /\ t[k] = w[k - p + 1]
<1>1. Len(w) \in Nat /\ Len(t) \in Nat
    BY LenProperties
<1>2. PICK n \in Nat : n = Len(w)
    BY <1>1
<1>3. PICK last \in Int : last = p + n - 1
    <2>1. p + n - 1 \in Int
        OBVIOUS
    <2> QED BY <2>1
<1>4. p \in 1 .. Len(t) + 1 /\ last \in p - 1 .. Len(t)
    BY <1>1, <1>2, <1>3
<1>5. \A i \in 1 .. last - p + 1 : SubSeq(t, p, last)[i] = t[p + i - 1]
    BY <1>4, SubSeqProperties
<1>6. ASSUME NEW k \in p .. last
      PROVE  k - p + 1 \in 1 .. n /\ t[k] = w[k - p + 1]
    <2>1. k - p + 1 \in 1 .. last - p + 1 /\ p + (k - p + 1) - 1 = k /\ last - p + 1 = n
        BY <1>2, <1>3
    <2> QED BY <1>2, <1>3, <1>5, <2>1
<1> QED BY <1>2, <1>3, <1>6

LEMMA AttributeLies ==
    ASSUME NEW e \in Elements, e.group = "tag", NEW i \in 1 .. Len(e.attrs)
    PROVE  LET a == e.attrs[i]
           IN /\ Lies(e.text, a.at, Len(a.name), a.from, Len(a.value), a.quote)
              /\ a.quote \in Quotes /\ e.nlen + 2 <= a.at /\ Behind(a) <= e.pe
              /\ SubSeq(e.text, a.at, a.at + Len(a.name) - 1) = a.name
              /\ \A j \in 1 .. i - 1 : Behind(e.attrs[j]) <= a.at
              /\ \A k \in BehindFirst(e, i - 1) .. a.at - 1 : e.text[k] \in Blanks
              /\ \A k \in a.from .. a.from + Len(a.value) - 1 :
                    \E j \in DOMAIN a.value : e.text[k] = a.value[j]
<1>1. /\ e.attrs \in Seq([name : Seq(Symbols), value : Seq(Symbols), quote : Quotes,
                          at : Nat, from : Nat])
      /\ e.text \in Seq(Symbols) /\ e.nlen \in Nat /\ e.pe \in Nat /\ e.pe < Len(e.text)
    BY TagsAssumption, ContentAssumption
<1>2. DOMAIN e.attrs = 1 .. Len(e.attrs)
    BY <1>1, LenProperties
<1>3. PICK a : a = e.attrs[i]
    OBVIOUS
<1>4. /\ a.name \in Seq(Symbols) /\ a.value \in Seq(Symbols) /\ a.quote \in Quotes
      /\ a.at \in Nat /\ a.from \in Nat
    <2>1. PICK R : R = [name : Seq(Symbols), value : Seq(Symbols), quote : Quotes,
                        at : Nat, from : Nat]
        OBVIOUS
    <2>2. a \in R
        BY <1>1, <1>3, <2>1, ElementOfSeq
    <2> QED BY <2>1, <2>2
<1>5. /\ IsWritten(e.text, a) /\ e.nlen + 2 <= a.at /\ Behind(a) <= e.pe
      /\ \A j \in 1 .. i - 1 : Behind(e.attrs[j]) <= a.at
      /\ \A k \in BehindFirst(e, i - 1) .. a.at - 1 : e.text[k] \in Blanks
    BY <1>2, <1>3, TagsAssumption
<1>6. Len(a.name) \in Nat /\ Len(a.value) \in Nat /\ Len(e.text) \in Nat
      /\ DOMAIN a.name = 1 .. Len(a.name) /\ DOMAIN a.value = 1 .. Len(a.value)
    BY <1>1, <1>4, LenProperties
<1>7. PICK t \in Seq(Symbols), name \in Seq(Symbols), value \in Seq(Symbols),
           n \in Nat, v \in Nat, p \in Nat, f \in Nat, size \in Nat :
         t = e.text /\ name = a.name /\ value = a.value /\ n = Len(a.name) /\ v = Len(a.value) /\ p = a.at /\ f = a.from
         /\ size = Len(e.text)
    BY <1>1, <1>4, <1>6
<1>8. n # 0
    <2>1. a.name # <<>>
        BY <1>5 DEF IsWritten, IsName
    <2> QED BY <1>4, <1>7, <2>1, EmptySeq
<1>9. p # 0 /\ p + n <= f - 2 /\ f + v + 1 < size
    <2>1. e.nlen + 2 <= p /\ f + v + 1 <= e.pe
        BY <1>5, <1>7 DEF Behind
    <2>2. p + n <= f - 2
        BY <1>5, <1>7 DEF IsWritten
    <2>3. PICK l \in Nat, m \in Nat : l = e.nlen /\ m = e.pe
        BY <1>1
    <2>4. l + 2 <= p /\ f + v + 1 <= m /\ m < size
        BY <1>1, <1>7, <2>1, <2>3
    <2> QED BY <2>2, <2>4
<1>10. \A k \in p .. p + n - 1 : t[k] \notin Blanks /\ t[k] # "="
    <2>1. \A j \in 1 .. n : a.name[j] \notin Blanks \cup {"="}
        BY <1>5, <1>6, <1>7 DEF IsWritten, IsName
    <2>2. SubSeq(t, p, p + Len(name) - 1) = name
        BY <1>5, <1>7 DEF IsWritten
    <2>3. p \in Nat \ {0} /\ p + Len(name) - 1 <= Len(t)
        <3>1. n = Len(name) /\ size = Len(t)
            BY <1>7
        <3>2. p # 0 /\ p + n - 1 <= size
            BY <1>9
        <3> QED BY <3>1, <3>2
    <2>4. \A k \in p .. p + Len(name) - 1 :
             k - p + 1 \in 1 .. Len(name) /\ t[k] = name[k - p + 1]
        BY <2>2, <2>3, PartIs
    <2> SUFFICES ASSUME NEW k \in p .. p + n - 1
                 PROVE  t[k] \notin Blanks /\ t[k] # "="
        OBVIOUS
    <2>5. n = Len(name) /\ a.name = name
        BY <1>7
    <2>6. k - p + 1 \in 1 .. n /\ t[k] = name[k - p + 1]
        BY <2>4, <2>5
    <2> QED BY <2>1, <2>5, <2>6
<1>11. \A k \in f .. f + v - 1 : t[k] # a.quote /\ \E j \in 1 .. v : t[k] = a.value[j]
    <2>1. \A j \in 1 .. v : a.value[j] # a.quote
        BY <1>5, <1>6, <1>7 DEF IsWritten
    <2>2. SubSeq(t, f, f + Len(value) - 1) = value
        BY <1>5, <1>7 DEF IsWritten
    <2>3. f \in Nat \ {0} /\ f + Len(value) - 1 <= Len(t)
        <3>1. v = Len(value) /\ size = Len(t)
            BY <1>7
        <3>2. f # 0 /\ f + v - 1 <= size
            BY <1>9
        <3> QED BY <3>1, <3>2
    <2>4. \A k \in f .. f + Len(value) - 1 :
             k - f + 1 \in 1 .. Len(value) /\ t[k] = value[k - f + 1]
        BY <2>2, <2>3, PartIs
    <2> SUFFICES ASSUME NEW k \in f .. f + v - 1
                 PROVE  t[k] # a.quote /\ \E j \in 1 .. v : t[k] = a.value[j]
        OBVIOUS
    <2>5. v = Len(value) /\ a.value = value
        BY <1>7
    <2>6. k - f + 1 \in 1 .. v /\ t[k] = value[k - f + 1]
        BY <2>4, <2>5
    <2> QED BY <2>1, <2>5, <2>6
<1>12. Lies(t, p, n, f, v, a.quote)
    BY <1>5, <1>7, <1>8, <1>9, <1>10, <1>11 DEF Lies, IsWritten
<1>13. SubSeq(e.text, a.at, a.at + Len(a.name) - 1) = a.name
    BY <1>5 DEF IsWritten
<1>14. \A k \in a.from .. a.from + Len(a.value) - 1 :
          \E j \in DOMAIN a.value : e.text[k] = a.value[j]
    BY <1>6, <1>7, <1>11
<1> QED BY <1>3, <1>4, <1>5, <1>7, <1>12, <1>13, <1>14

\* A search from b, with nothing but blanks between it and the attribute.
Before(t, size, b, end, p, n, f, v, q) ==
    /\ IsTextOf(t, size) /\ end <= size /\ Lies(t, p, n, f, v, q) /\ f + v < end
    /\ b <= p /\ \A k \in b .. p - 1 : t[k] \in Blanks

\* What the searches from there find.
Finds(t, b, end, p, n, f, v, q) ==
    /\ SkipBlanks(t, b, end) = p
    /\ FirstOf(t, p, end - 1, {"="}) = f - 2
    /\ FirstOf(t, f, end - 1, {q}) = f + v
    /\ Trimmed(t, p, f - 3).from = p /\ Trimmed(t, p, f - 3).len = n

\* The searches of the code in a tag find the parts of the next attribute: its name
\* behind blanks, its "=", and the end of its value.
LEMMA SearchesFind ==
    ASSUME NEW t, NEW q, NEW size \in Nat, NEW b \in Nat \ {0}, NEW end \in Nat,
           NEW p \in Nat \ {0}, NEW n \in Nat \ {0}, NEW f \in Nat, NEW v \in Nat,
           Before(t, size, b, end, p, n, f, v, q)
    PROVE  Finds(t, b, end, p, n, f, v, q)
<1>1. /\ p \in Nat \ {0} /\ n \in Nat \ {0} /\ f \in Nat /\ v \in Nat /\ p + n <= f - 2
      /\ \A k \in p .. p + n - 1 : t[k] \notin Blanks /\ t[k] # "="
      /\ \A k \in p + n .. f - 3 : t[k] \in Blanks
      /\ t[f - 2] = "=" /\ t[f - 1] = q
      /\ \A k \in f .. f + v - 1 : t[k] # q
      /\ t[f + v] = q
    BY DEF Before, Lies
<1> SUFFICES ASSUME IsTextOf(t, size), end <= size, f + v < end,
                    b <= p, \A k \in b .. p - 1 : t[k] \in Blanks
             PROVE  Finds(t, b, end, p, n, f, v, q)
    BY DEF Before
<1>2. \A k \in b .. end : At(t, k) = t[k] /\ t[k] \in Symbols
    BY DEF IsTextOf, At
<1>3. PICK last \in Int : last = end - 1
    OBVIOUS
<1>4. p \in b .. last /\ f - 2 \in p .. last /\ f + v \in f .. last /\ f - 2 \in b .. end /\ f + v \in b .. end
    BY <1>1, <1>3
<1>5. t[p] \in Signs
    <2>1. p \in b .. end /\ p \in p .. p + n - 1
        BY <1>1, <1>3, <1>4
    <2> QED BY <1>1, <1>2, <2>1 DEF Signs
<1>6. SkipBlanks(t, b, end) = p
    <2>1. PICK k : k = FirstOf(t, b, last, Signs)
        OBVIOUS
    <2>2. b \in Int /\ b <= last + 1 /\ b < end
        BY <1>3, <1>4
    <2>3. /\ k \in b .. last + 1 /\ (k <= last => At(t, k) \in Signs)
          /\ \A l \in b .. k - 1 : At(t, l) \notin Signs
        BY <2>1, <2>2, FirstOfIs
    <2>4. ~(k < p)
        <3> SUFFICES ASSUME k < p PROVE FALSE
            OBVIOUS
        <3>1. k \in b .. p - 1 /\ k <= last /\ k \in b .. end
            BY <1>3, <1>4, <2>3
        <3> QED BY <1>2, <2>3, <3>1 DEF Signs
    <2>5. ~(p < k)
        <3> SUFFICES ASSUME p < k PROVE FALSE
            OBVIOUS
        <3>1. p \in b .. k - 1 /\ p \in b .. end
            BY <1>3, <1>4, <2>3
        <3> QED BY <1>2, <1>5, <2>3, <3>1
    <2>6. k = p
        <3>1. k \in Int /\ p \in Int
            BY <1>1, <1>3, <2>2, <2>3
        <3> QED BY <2>4, <2>5, <3>1
    <2> QED BY <1>3, <2>1, <2>2, <2>6 DEF SkipBlanks
<1>7. FirstOf(t, p, last, {"="}) = f - 2
    <2>1. PICK k : k = FirstOf(t, p, last, {"="})
        OBVIOUS
    <2>2. p \in Int /\ p <= last + 1
        BY <1>4
    <2>3. /\ k \in p .. last + 1 /\ (k <= last => At(t, k) \in {"="})
          /\ \A l \in p .. k - 1 : At(t, l) \notin {"="}
        BY <2>1, <2>2, FirstOfIs
    <2>4. CASE k < f - 2
        <3>1. k \in b .. end /\ k <= last /\ (k \in p .. p + n - 1 \/ k \in p + n .. f - 3)
            BY <1>1, <1>3, <1>4, <2>3, <2>4
        <3> QED BY <1>1, <1>2, <2>3, <3>1 DEF Blanks
    <2>5. CASE f - 2 < k
        <3>1. f - 2 \in p .. k - 1
            BY <1>4, <2>3, <2>5
        <3> QED BY <1>1, <1>2, <1>4, <2>3, <3>1
    <2> QED BY <1>4, <2>1, <2>3, <2>4, <2>5
<1>8. FirstOf(t, f, last, {q}) = f + v
    <2>1. PICK k : k = FirstOf(t, f, last, {q})
        OBVIOUS
    <2>2. f \in Int /\ f <= last + 1
        BY <1>1, <1>4
    <2>3. /\ k \in f .. last + 1 /\ (k <= last => At(t, k) \in {q})
          /\ \A l \in f .. k - 1 : At(t, l) \notin {q}
        BY <2>1, <2>2, FirstOfIs
    <2>4. CASE k < f + v
        <3>1. k \in b .. end /\ k <= last /\ k \in f .. f + v - 1
            BY <1>1, <1>3, <1>4, <2>3, <2>4
        <3> QED BY <1>1, <1>2, <2>3, <3>1
    <2>5. CASE f + v < k
        <3>1. f + v \in f .. k - 1
            BY <1>4, <2>3, <2>5
        <3> QED BY <1>1, <1>2, <1>4, <2>3, <3>1
    <2> QED BY <1>4, <2>1, <2>3, <2>4, <2>5
<1>9. PICK d : d = Trimmed(t, p, f - 3)
    OBVIOUS
<1>10. d.from = p /\ d.len = n
    <2>1. PICK to \in Int : to = f - 3
        BY <1>1
    <2>2. p <= to /\ to <= size
        BY <1>1, <2>1
    <2>3. WithoutBlanks(t, p, to, d)
        BY <1>1, <1>9, <2>1, <2>2, TrimmedText
    <2>4. /\ d.from \in p .. to /\ d.len \in Nat \ {0} /\ d.from + d.len - 1 \in d.from .. to
          /\ \A i \in p .. d.from - 1 : t[i] \in Blanks
          /\ \A i \in d.from + d.len .. to : t[i] \in Blanks
          /\ d.len > 1 => t[d.from] \notin Blanks /\ t[d.from + d.len - 1] \notin Blanks
        BY <2>3 DEF WithoutBlanks
    <2>5. PICK x \in Int, y \in Int : x = d.from /\ y = d.from + d.len - 1 /\ d.len = y - x + 1
                                      /\ y + 1 = d.from + d.len
        BY <2>4
    <2>6. x = p
        <3> SUFFICES ASSUME x # p PROVE FALSE
            BY <2>5
        <3>1. p \in p .. x - 1 /\ p \in p .. p + n - 1
            BY <1>1, <2>4, <2>5
        <3> QED BY <1>1, <2>4, <2>5, <3>1
    <2>7. ~(y < p + n - 1)
        <3> SUFFICES ASSUME y < p + n - 1 PROVE FALSE
            OBVIOUS
        <3>1. p + n - 1 \in y + 1 .. to /\ p + n - 1 \in p .. p + n - 1
            BY <1>1, <2>1, <2>4, <2>5
        <3> QED BY <1>1, <2>4, <2>5, <3>1
    <2>8. ~(y > p + n - 1)
        <3> SUFFICES ASSUME y > p + n - 1 PROVE FALSE
            OBVIOUS
        <3>1. y \in p + n .. f - 3 /\ d.len > 1
            BY <1>1, <2>1, <2>4, <2>5, <2>6
        <3> QED BY <1>1, <2>4, <2>5, <3>1
    <2> QED BY <1>1, <2>5, <2>6, <2>7, <2>8
<1> QED BY <1>3, <1>6, <1>7, <1>8, <1>9, <1>10 DEF Finds

-----------------------------------------------------------------------------
(* The invariant. *)

Answers == [num : None .. MaxLong, chars : Seq(Symbols), high : Nat, error : 0 .. 12]

\* A cursor has passed no more attributes than characters; what is found is a piece
\* of the text, by name one between quotes; an answer is the one of its request.
CInv ==
    /\ element \in Elements /\ setup \in Setups
    /\ pc \in {"idle", "attribute", "position", "count", "deliver", "answered"}
    /\ pc # "idle" => call \in Calls[element.group]
    /\ pc \in {"attribute", "position", "count"} =>
          call.on = pc /\ element.nlen > 0 /\ ps > element.nlen
    /\ ps \in Nat /\ ps <= Len(text) + 1
    /\ num \in Nat /\ (num = 0 \/ num < ps)
    /\ Piece(found, Len(text))
    /\ pc = "deliver" /\ call.on = "attribute" /\ ~Missing => Quoted
    /\ answer \in Answers /\ (pc # "answered" => answer.num = 0)
    /\ CopyFits

LEMMA InvImplies == CInv => TypeOK /\ (pc = "deliver" /\ call.on = "attribute" /\ ~Missing => Quoted)
<1> SUFFICES ASSUME CInv PROVE TypeOK
    BY DEF CInv
<1>1. element \in Elements
    BY DEF CInv
<1>2. Len(text) \in Nat
    BY <1>1, ContentAssumption, LenProperties DEF text
<1>3. ps \in 0 .. Len(text) + 1 /\ num \in 0 .. Len(text)
    BY <1>2 DEF CInv
<1>4. found.len >= 0 /\ found.from >= 0 /\ found.from + found.len <= Len(text) + 1
    BY <1>2 DEF CInv, Piece
<1>5. /\ answer.num \in None .. MaxLong /\ answer.high \in Nat
      /\ answer.chars \in Seq(Symbols) /\ answer.error \in 0 .. 12
    BY DEF CInv, Answers
<1> QED BY <1>3, <1>4, <1>5 DEF TypeOK, CInv

\* What the tag and the content of an element are.
LEMMA ElementIs ==
    ASSUME CInv
    PROVE  /\ element \in Elements /\ setup.none \in None .. MaxLong
           /\ Len(text) \in Nat /\ Len(text) <= MaxLong /\ DOMAIN text = 1 .. Len(text)
           /\ \A i \in 1 .. Len(text) : text[i] \in Symbols
           /\ pe \in Nat /\ element.last \in Nat /\ element.nlen \in Nat
           /\ pe <= element.last /\ element.last <= Len(text)
           /\ element.nlen > 0 => element.nlen < pe /\ pe < Len(text)
<1>1. element \in Elements /\ setup \in Setups
    BY DEF CInv
<1>2. text \in Seq(Symbols)
    BY <1>1, ContentAssumption DEF text
<1>3. Len(text) \in Nat /\ DOMAIN text = 1 .. Len(text)
      /\ \A i \in 1 .. Len(text) : text[i] \in Symbols
    BY <1>2, LenProperties, ElementOfSeq
<1> QED BY <1>1, <1>3, ContentAssumption, CallsAssumption DEF text, pe

LEMMA NothingIs == \A n \in Nat : Piece(Nothing, n)
BY DEF Piece, Nothing

LEMMA InitInv == Init => CInv
<1> SUFFICES ASSUME Init PROVE CInv
    OBVIOUS
<1>1. element \in Elements
    BY DEF Init
<1>2. Len(text) \in Nat
    BY <1>1, ContentAssumption, LenProperties DEF text
<1>3. Piece(found, Len(text))
    BY <1>2, NothingIs DEF Init
<1>4. answer \in Answers
    <2>1. 0 \in None .. MaxLong
        BY ValuesAssumption DEF None
    <2>2. <<>> \in Seq(Symbols)
        OBVIOUS
    <2> QED BY <2>1, <2>2 DEF Init, NoAnswer, Answers, XML_NO_ERROR
<1> QED BY <1>2, <1>3, <1>4 DEF Init, CInv, CopyFits, NoAnswer

-----------------------------------------------------------------------------
(* A request begins. *)

LEMMA TextForIs ==
    ASSUME CInv, NEW op
    PROVE  Piece(TextFor(op), Len(text))
<1>1. Len(text) \in Nat /\ pe \in Nat /\ element.last \in Nat /\ pe <= element.last
      /\ element.last <= Len(text)
    BY ElementIs
<1>2. PICK n \in Nat, t \in {text} : n = Len(text)
    BY <1>1
<1>3. CASE element.last = pe
    <2>1. TextFor(op) = Nothing
        BY <1>3 DEF TextFor
    <2> QED BY <1>2, <2>1, NothingIs
<1>4. CASE element.last # pe
    <2>1. PICK from \in Nat, len \in Nat : from = pe + 1 /\ len = element.last - pe
        <3>1. pe + 1 \in Nat /\ element.last - pe \in Nat
            BY <1>1
        <3> QED BY <3>1
    <2>2. from + len <= n + 1
        BY <1>1, <1>2, <2>1
    <2>3. Piece(PrepareData(t, from, len), n)
        BY <1>2, <2>2, PrepareDataIs
    <2>4. Piece(Section, Len(text))
        BY <1>2, <2>1, <2>2 DEF Section, Piece
    <2>5. Section.len = len
        BY <2>1 DEF Section
    <2> QED BY <1>2, <1>4, <2>1, <2>3, <2>4, <2>5 DEF TextFor
<1> QED BY <1>3, <1>4

LEMMA AskInv ==
    ASSUME CInv, NEW c \in Calls[element.group], Ask(c)
    PROVE  CInv'
<1>1. /\ Len(text) \in Nat /\ element.nlen \in Nat /\ pe \in Nat
      /\ element.nlen > 0 => element.nlen < pe /\ pe < Len(text)
      /\ pe <= Len(text)
    BY ElementIs
<1>2. text' = text /\ element' = element /\ setup' = setup /\ answer' = answer /\ call' = c
      /\ pc = "idle"
    BY DEF Ask, text
<1>3. answer.num = 0 /\ answer \in Answers
    BY <1>2 DEF CInv
<1>4. CASE c.on \in {"attribute", "position", "count"} /\ element.nlen > 0
    <2>1. pc' = c.on /\ ps' = FirstAttribute /\ num' = 0 /\ found' = found
        BY <1>4 DEF Ask
    <2>2. ps' = element.nlen + 2
        BY <2>1 DEF FirstAttribute
    <2> QED BY <1>1, <1>2, <1>3, <1>4, <2>1, <2>2 DEF CInv, CopyFits, Piece
<1>5. CASE ~(c.on \in {"attribute", "position", "count"} /\ element.nlen > 0)
    <2>1. /\ pc' = "deliver" /\ ps' = ps /\ num' = num
          /\ found' = CASE c.on = "text" -> TextFor(c.op)
                        [] c.on = "name" -> NameFor(c)
                        [] OTHER -> Nothing
        BY <1>5 DEF Ask
    <2>2. Piece(Name, Len(text))
        <3>1. 1 + element.nlen <= Len(text) + 1
            BY <1>1
        <3> QED BY <1>1, <3>1 DEF Piece, Name
    <2>3. Piece(NameFor(c), Len(text))
        BY <1>1, <2>2, NothingIs DEF NameFor
    <2>4. Piece(found', Len(text))
        BY <1>1, <2>1, <2>3, NothingIs, TextForIs
    <2>5. c.on = "attribute" => found' = Nothing
        BY <2>1
    <2>6. c.on = "attribute" => Missing'
        BY <2>5 DEF Missing, Nothing
    <2> QED BY <1>1, <1>2, <1>3, <2>1, <2>4, <2>6 DEF CInv, CopyFits
<1> QED BY <1>4, <1>5

-----------------------------------------------------------------------------
(* The search goes through the tag. *)

LEMMA InTagIs ==
    ASSUME CInv, NEW loop \in {"attribute", "position", "count"}, InTag(loop)
    PROVE  /\ Len(text) \in Nat /\ pe \in Nat /\ pe < Len(text)
           /\ ps \in Nat \ {0} /\ ps < pe /\ pc = loop /\ call.on = loop
           /\ Word \in ps .. pe /\ Rest \in Nat \ {0}
<1>1. Len(text) \in Nat /\ pe \in Nat /\ (element.nlen > 0 => pe < Len(text)) /\ element.nlen \in Nat
    BY ElementIs
<1>2. pc = loop /\ ps < pe
    BY DEF InTag
<1>3. ps \in Nat /\ ps > element.nlen /\ element.nlen > 0 /\ call.on = loop
    BY <1>2 DEF CInv
<1>4. PICK a \in Nat, b \in Nat, t \in {text} : a = ps /\ b = pe
    BY <1>1, <1>3
<1>5. SkipBlanks(t, a, b) \in a .. b
    BY <1>2, <1>4, SkipIs
<1>6. Word \in ps .. pe
    BY <1>4, <1>5 DEF Word
<1> QED BY <1>1, <1>2, <1>3, <1>6 DEF Rest

LEMMA NextWordIs ==
    ASSUME CInv, NEW loop \in {"attribute", "position", "count"}, InTag(loop)
    PROVE  NextWord \in ps .. pe
<1>1. ps \in Nat /\ pe \in Nat /\ Word \in ps .. pe
    BY InTagIs
<1>2. PICK w \in Nat, b \in Nat, t \in {text} : w = Word /\ b = pe
    BY <1>1
<1>3. SkipWord(t, w, b) \in w .. b
    BY <1>1, <1>2, SkipIs
<1> QED BY <1>1, <1>2, <1>3 DEF NextWord

\* A step to the next word.
LEMMA NextWordInv ==
    ASSUME CInv, InTag("attribute"), ps' = NextWord,
           UNCHANGED <<element, setup, call, pc, num, found, answer>>
    PROVE  CInv'
<1>1. /\ Len(text) \in Nat /\ pe \in Nat /\ pe < Len(text) /\ ps \in Nat /\ pc = "attribute"
    BY InTagIs
<1>2. NextWord \in ps .. pe
    BY NextWordIs
<1>3. ps' \in Nat /\ ps' >= ps /\ ps' <= Len(text) + 1
    BY <1>1, <1>2
<1>4. element.nlen \in Nat
    BY ElementIs
<1>5. text' = text
    BY DEF text
<1> QED BY <1>1, <1>3, <1>4, <1>5 DEF CInv, CopyFits, Piece

\* What a search finds goes to the program.
LEMMA FoundInv ==
    ASSUME CInv, pc \in {"attribute", "position", "count"}, NEW piece, Found(piece),
           Piece(piece, Len(text)),
           call.on = "attribute" /\ piece.from # 0 => Quoted',
           answer' \in Answers, answer'.num = 0,
           UNCHANGED <<element, setup, call, ps, num>>
    PROVE  CInv'
<1>1. found' = piece /\ pc' = "deliver" /\ text' = text
    BY DEF Found, text
<1>2. Missing' <=> piece.from = 0
    BY <1>1 DEF Missing
<1> QED BY <1>1, <1>2 DEF CInv, CopyFits

LEMMA ErrorIs ==
    ASSUME CInv, pc # "answered", NEW e \in 0 .. 12
    PROVE  [answer EXCEPT !.error = e] \in Answers /\ [answer EXCEPT !.error = e].num = 0
BY DEF CInv, Answers

LEMMA NoOpeningQuoteInv ==
    ASSUME CInv, NoOpeningQuote
    PROVE  CInv'
<1>1. /\ Found(Nothing) /\ answer' = [answer EXCEPT !.error = XML_ATTRIB_NO_OPENING_QUOTE]
      /\ InTag("attribute") /\ UNCHANGED <<element, setup, call, ps, num>>
    BY DEF NoOpeningQuote, Fails
<1>2. pc = "attribute" /\ Len(text) \in Nat
    BY <1>1, InTagIs
<1>3. answer' \in Answers /\ answer'.num = 0
    BY <1>1, <1>2, ErrorIs DEF XML_ATTRIB_NO_OPENING_QUOTE
<1> QED BY <1>1, <1>2, <1>3, FoundInv, NothingIs DEF Nothing

LEMMA NoClosingQuoteInv ==
    ASSUME CInv, NoClosingQuote
    PROVE  CInv'
<1>1. /\ Found(Nothing) /\ answer' = [answer EXCEPT !.error = XML_ATTRIB_NO_CLOSING_QUOTE]
      /\ InTag("attribute") /\ UNCHANGED <<element, setup, call, ps, num>>
    BY DEF NoClosingQuote, Fails
<1>2. pc = "attribute" /\ Len(text) \in Nat
    BY <1>1, InTagIs
<1>3. answer' \in Answers /\ answer'.num = 0
    BY <1>1, <1>2, ErrorIs DEF XML_ATTRIB_NO_CLOSING_QUOTE
<1> QED BY <1>1, <1>2, <1>3, FoundInv, NothingIs DEF Nothing

\* The "=" that is searched in the rest of the tag, wherever that goes.
LEMMA EqualsIs ==
    ASSUME CInv, InTag("attribute"), HasEquals
    PROVE  Equals \in 1 .. Len(text) /\ text[Equals] = "="
<1>1. /\ Len(text) \in Nat /\ ps \in Nat \ {0} /\ pe \in Nat
      /\ Word \in ps .. pe /\ Rest \in Nat \ {0}
    BY InTagIs
<1>2. DOMAIN text = 1 .. Len(text)
    BY ElementIs
<1>3. PICK w \in Nat, behind \in Nat, t \in {text} : w = Word /\ behind = Word + Rest
    BY <1>1
<1>4. PICK last \in Int : last = behind - 1
    OBVIOUS
<1>5. FirstOf(t, w, last, {"="}) \in w .. last + 1
    <2>1. w <= last + 1 /\ w \in Int
        BY <1>1, <1>3, <1>4
    <2> QED BY <2>1, FirstOfIs
<1>6. Equals = IF At(t, behind) = "=" THEN behind ELSE FirstOf(t, w, last, {"="})
    BY <1>3, <1>4 DEF Equals
<1>7. Equals \in Int
    BY <1>5, <1>6
<1>8. At(text, Equals) = "="
    BY DEF HasEquals
<1> QED BY <1>1, <1>2, <1>7, <1>8, AtIn

LEMMA ValueFoundInv ==
    ASSUME CInv, ValueFound
    PROVE  CInv'
<1>1. /\ InTag("attribute") /\ HasEquals /\ Quote \in Quotes /\ At(text, Close) = Quote
      /\ Found(IF Close < pe THEN [from |-> Start, len |-> Close - Start] ELSE Nothing)
      /\ UNCHANGED <<element, setup, call, ps, num, answer>>
    BY DEF ValueFound
<1>2. pc = "attribute" /\ Len(text) \in Nat /\ pe \in Nat /\ pe < Len(text)
    BY <1>1, InTagIs
<1>3. DOMAIN text = 1 .. Len(text)
    BY ElementIs
<1>4. Equals \in 1 .. Len(text) /\ text[Equals] = "="
    BY <1>1, EqualsIs
<1>5. answer' \in Answers /\ answer'.num = 0
    BY <1>1, <1>2 DEF CInv
<1>6. CASE ~(Close < pe)
    <2>1. Found(Nothing)
        BY <1>1, <1>6
    <2> QED BY <1>1, <1>2, <1>5, <2>1, FoundInv, NothingIs DEF Nothing
<1>7. CASE Close < pe
    <2>1. PICK piece : piece = [from |-> Start, len |-> Close - Start]
        OBVIOUS
    <2>2. PICK start \in Nat : start = Start
        BY <1>4 DEF Start
    <2>3. start < pe /\ Close = FirstOf(text, start, pe - 1, {Quote})
        BY <1>2, <1>7, <2>2 DEF Close
    <2>4. PICK last \in Int, close \in {Close}, t \in {text}, q \in {Quote} : last = pe - 1
        BY <1>2
    <2>5. close \in start .. last + 1
        <3>1. start <= last + 1 /\ start \in Int /\ close = FirstOf(t, start, last, {q})
            BY <1>2, <2>3, <2>4
        <3> QED BY <3>1, FirstOfIs
    <2>6. close \in start .. pe - 1
        BY <1>2, <1>7, <2>4, <2>5
    <2>7. piece = [from |-> start, len |-> close - start] /\ Found(piece)
        BY <1>1, <1>7, <2>1, <2>2, <2>4
    <2>8. Piece(piece, Len(text))
        <3>1. close - start \in Nat /\ start + (close - start) <= Len(text) + 1
            BY <1>2, <2>6
        <3> QED BY <2>7, <3>1 DEF Piece
    <2>9. Quoted'
        <3>1. start = Equals + 2 /\ start - 1 = Equals + 1 /\ start - 2 = Equals
            BY <1>4, <2>2 DEF Start
        <3>2. Quote = text[start - 1]
            <4>1. Quote = At(text, start - 1) /\ Quote # "behind"
                BY <1>1, <3>1 DEF Quote, Quotes
            <4>2. start - 1 \in Int
                OBVIOUS
            <4> QED BY <1>2, <1>3, <4>1, <4>2, AtIn
        <3>3. found'.from = start /\ found'.len = close - start /\ text' = text /\ pe' = pe
            BY <1>1, <2>7 DEF Found, text, pe
        <3>4. found'.from + found'.len = Close /\ Close < pe
            BY <1>7, <2>4, <2>6, <3>3
        <3> QED BY <1>1, <1>4, <2>3, <3>1, <3>2, <3>3, <3>4 DEF Quoted
    <2> QED BY <1>1, <1>2, <1>5, <2>7, <2>8, <2>9, FoundInv
<1> QED BY <1>6, <1>7

LEMMA NoMoreWordsInv ==
    ASSUME CInv, NoMoreWords
    PROVE  CInv'
<1>1. /\ pc = "attribute" /\ Found(Nothing)
      /\ UNCHANGED <<element, setup, call, ps, num, answer>>
    BY DEF NoMoreWords
<1>2. answer' \in Answers /\ answer'.num = 0
    BY <1>1 DEF CInv
<1>3. Len(text) \in Nat
    BY ElementIs
<1> QED BY <1>1, <1>2, <1>3, FoundInv, NothingIs DEF Nothing

-----------------------------------------------------------------------------
(* The names are passed. *)

\* The next "=" of the tag, from a position in it.
LEMMA NextEqualsIs ==
    ASSUME NEW from \in Nat, pe \in Nat, from <= pe
    PROVE  NextEquals(from) \in from .. pe
<1>1. PICK last \in Int, t \in {text} : last = pe - 1
    OBVIOUS
<1>2. from <= last + 1 /\ from \in Int /\ last + 1 = pe
    BY <1>1
<1>3. FirstOf(t, from, last, {"="}) \in from .. last + 1
    BY <1>2, FirstOfIs
<1> QED BY <1>1, <1>2, <1>3 DEF NextEquals

LEMMA BehindValueIs ==
    ASSUME NEW e \in Nat, pe \in Nat, e < pe
    PROVE  BehindValue(e) \in e + 3 .. pe + 2
<1>1. PICK p \in Nat, last \in Int, t \in {text}, q \in {At(text, e + 1)} : p = e + 2 /\ last = pe - 1
    OBVIOUS
<1>2. CASE p < pe
    <2>1. p <= last + 1 /\ p \in Int
        BY <1>1, <1>2
    <2>2. PICK k : k = FirstOf(t, p, last, {q})
        OBVIOUS
    <2>3. k \in p .. last + 1
        BY <2>1, <2>2, FirstOfIs
    <2>4. BehindValue(e) = 1 + k
        BY <1>1, <1>2, <2>2 DEF BehindValue
    <2> QED BY <1>1, <2>3, <2>4
<1>3. CASE ~(p < pe)
    <2>1. BehindValue(e) = 1 + p
        BY <1>1, <1>3 DEF BehindValue
    <2> QED BY <1>1, <2>1
<1> QED BY <1>2, <1>3

\* One more attribute is passed, and at least one character.
LEMMA PassedInv ==
    ASSUME CInv, pc \in {"position", "count"}, ps' \in ps + 1 .. Len(text) + 1, num' = num + 1,
           UNCHANGED <<element, setup, call, pc, found, answer>>
    PROVE  CInv'
<1>1. Len(text) \in Nat /\ element.nlen \in Nat
    BY ElementIs
<1>2. ps \in Nat /\ ps > element.nlen /\ num \in Nat /\ (num = 0 \/ num < ps)
    BY DEF CInv
<1>3. ps' \in Nat /\ ps' <= Len(text) + 1 /\ ps' > element.nlen /\ num' \in Nat /\ num' < ps'
    BY <1>1, <1>2
<1>4. text' = text
    BY DEF text
<1> QED BY <1>3, <1>4 DEF CInv, CopyFits, Piece

LEMMA NameOtherInv ==
    ASSUME CInv, NameOther
    PROVE  CInv'
<1>1. /\ InTag("position") /\ NextEquals(Word) < pe
      /\ ps' = BehindValue(NextEquals(Word)) /\ num' = num + 1
      /\ UNCHANGED <<element, setup, call, pc, found, answer>>
    BY DEF NameOther
<1>2. /\ Len(text) \in Nat /\ pe \in Nat /\ pe < Len(text)
      /\ ps \in Nat \ {0} /\ pc = "position" /\ Word \in ps .. pe
    BY <1>1, InTagIs
<1>3. PICK w \in Nat : w = Word /\ w <= pe /\ ps <= w
    BY <1>2
<1>4. PICK e : e = NextEquals(w)
    OBVIOUS
<1>5. e \in w .. pe
    BY <1>2, <1>3, <1>4, NextEqualsIs
<1>6. e \in Nat /\ e < pe /\ ps <= e
    BY <1>1, <1>2, <1>3, <1>4, <1>5
<1>7. ps' \in e + 3 .. pe + 2
    BY <1>1, <1>2, <1>3, <1>4, <1>6, BehindValueIs
<1>8. ps' \in ps + 1 .. Len(text) + 1
    BY <1>2, <1>6, <1>7
<1> QED BY <1>1, <1>2, <1>8, PassedInv

LEMMA NameFoundInv ==
    ASSUME CInv, NameFound
    PROVE  CInv'
<1>1. PICK e : e = NextEquals(Word)
    OBVIOUS
<1>2. PICK piece : piece = IF call.op = "copy" THEN Trimmed(text, Word, e - 1)
                           ELSE [from |-> Word, len |-> e - Word]
    OBVIOUS
<1>3. /\ InTag("position") /\ e < pe /\ Found(piece)
      /\ UNCHANGED <<element, setup, call, ps, num, answer>>
    BY <1>1, <1>2 DEF NameFound
<1>4. /\ Len(text) \in Nat /\ pe \in Nat /\ pe < Len(text) /\ call.on = "position"
      /\ ps \in Nat \ {0} /\ pc = "position" /\ Word \in ps .. pe
    BY <1>3, InTagIs
<1>5. PICK w \in Nat : w = Word /\ w <= pe
    BY <1>4
<1>6. e \in w .. pe
    BY <1>1, <1>4, <1>5, NextEqualsIs
<1>7. PICK n \in Nat, t \in {text}, last \in Int : n = Len(text) /\ last = e - 1
    <2>1. e - 1 \in Int
        BY <1>6
    <2> QED BY <1>4, <2>1
<1>8. w <= last + 1 /\ last <= n
    BY <1>3, <1>4, <1>6, <1>7
<1>9. Piece(Trimmed(t, w, last), n)
    BY <1>8, TrimmedIs
<1>10. Piece([from |-> w, len |-> e - w], n)
    <2>1. e - w \in Nat /\ w + (e - w) <= n + 1
        BY <1>3, <1>4, <1>6, <1>7
    <2> QED BY <2>1 DEF Piece
<1>11. Piece(piece, Len(text))
    BY <1>2, <1>5, <1>7, <1>9, <1>10
<1>12. answer' \in Answers /\ answer'.num = 0
    BY <1>3, <1>4 DEF CInv
<1> QED BY <1>3, <1>4, <1>11, <1>12, FoundInv

LEMMA NoMoreNamesInv ==
    ASSUME CInv, NoMoreNames
    PROVE  CInv'
<1>1. /\ pc = "position" /\ Found(Nothing)
      /\ UNCHANGED <<element, setup, call, ps, num, answer>>
    BY DEF NoMoreNames
<1>2. answer' \in Answers /\ answer'.num = 0
    BY <1>1 DEF CInv
<1>3. Len(text) \in Nat
    BY ElementIs
<1> QED BY <1>1, <1>2, <1>3, FoundInv, NothingIs DEF Nothing

LEMMA EqualsCountedInv ==
    ASSUME CInv, EqualsCounted
    PROVE  CInv'
<1>1. /\ InTag("count") /\ NextEquals(ps) < pe
      /\ ps' = NextEquals(ps) + 1 /\ num' = num + 1
      /\ UNCHANGED <<element, setup, call, pc, found, answer>>
    BY DEF EqualsCounted
<1>2. /\ Len(text) \in Nat /\ pe \in Nat /\ pe < Len(text)
      /\ ps \in Nat \ {0} /\ pc = "count" /\ ps < pe
    BY <1>1, InTagIs
<1>3. NextEquals(ps) \in ps .. pe
    <2>1. PICK a \in Nat : a = ps
        BY <1>2
    <2>2. NextEquals(a) \in a .. pe
        BY <1>2, <2>1, NextEqualsIs
    <2> QED BY <2>1, <2>2
<1>4. ps' \in ps + 1 .. Len(text) + 1
    BY <1>1, <1>2, <1>3
<1> QED BY <1>1, <1>2, <1>4, PassedInv

LEMMA CountEndsInv ==
    ASSUME CInv, CountEnds
    PROVE  CInv'
<1>1. /\ pc = "count" /\ pc' = "answered" /\ answer' = [answer EXCEPT !.num = num]
      /\ UNCHANGED <<element, setup, call, ps, num, found>>
    BY DEF CountEnds
<1>2. Len(text) \in Nat /\ Len(text) <= MaxLong
    BY ElementIs
<1>3. num \in None .. MaxLong
    BY <1>2, ValuesAssumption DEF CInv, None
<1>4. answer' \in Answers
    BY <1>1, <1>3 DEF CInv, Answers
<1>5. call.op = "count"
    <2>1. call \in Calls[element.group] /\ call.on = "count" /\ element \in Elements
        BY <1>1 DEF CInv
    <2>2. element.group \in DOMAIN Calls
        BY <2>1, ContentAssumption
    <2> QED BY <2>1, <2>2, CallsAssumption
<1>6. CopyFits'
    BY <1>1, <1>5 DEF CopyFits
<1>7. text' = text
    BY <1>1 DEF text
<1> QED BY <1>1, <1>4, <1>6, <1>7 DEF CInv

-----------------------------------------------------------------------------
(* What is found goes to the program. *)

LEMMA DeliverIs ==
    ASSUME CInv, pc = "deliver"
    PROVE  /\ answer \in Answers /\ answer.num = 0 /\ found.from \in Nat /\ found.len \in Nat
           /\ found.from + found.len <= Len(text) + 1
           /\ ~Missing => found.from \in Nat \ {0}
           /\ call.op = "copy" => call.buflen \in Nat \ {0}
<1>1. call \in Calls[element.group] /\ element \in Elements
    BY DEF CInv
<1>2. element.group \in DOMAIN Calls
    BY <1>1, ContentAssumption
<1> QED BY <1>1, <1>2, CallsAssumption DEF CInv, Piece, Missing

\* An answer to a request.
LEMMA AnswerInv ==
    ASSUME CInv, NEW ops, NEW result, Delivers(ops, result), result \in Answers,
           call.op \in {"string", "raw", "copy"} /\ result.num > 0 => CopyFits'
    PROVE  CInv'
<1>1. /\ pc = "deliver" /\ pc' = "answered" /\ answer' = result
      /\ UNCHANGED <<element, setup, call, ps, num, found>>
    BY DEF Delivers
<1>2. CopyFits'
    BY <1>1 DEF CopyFits
<1>3. text' = text
    BY <1>1 DEF text
<1> QED BY <1>1, <1>2, <1>3 DEF CInv

LEMMA NumberAnswerInv ==
    ASSUME CInv, NEW ops, NEW n \in None .. MaxLong, Delivers(ops, [answer EXCEPT !.num = n]),
           ops \cap {"string", "raw", "copy"} = {}
    PROVE  CInv'
<1>1. pc = "deliver" /\ call.op \in ops
    BY DEF Delivers
<1>2. [answer EXCEPT !.num = n] \in Answers
    BY <1>1, DeliverIs DEF Answers
<1> QED BY <1>1, <1>2, AnswerInv

LEMMA BooleansIn == {XML_FALSE, XML_TRUE} \subseteq None .. MaxLong
BY ValuesAssumption DEF XML_FALSE, XML_TRUE, None

LEMMA GiveExistsInv ==
    ASSUME CInv, GiveExists
    PROVE  CInv'
<1>1. PICK n : n = IF Missing THEN XML_FALSE ELSE XML_TRUE
    OBVIOUS
<1>2. n \in None .. MaxLong
    BY <1>1, BooleansIn
<1>3. Delivers({"exists"}, [answer EXCEPT !.num = n])
    BY <1>1 DEF GiveExists
<1> QED BY <1>2, <1>3, NumberAnswerInv

LEMMA GiveComparisonInv ==
    ASSUME CInv, GiveComparison
    PROVE  CInv'
<1>1. PICK same : Delivers({"compare"}, [answer EXCEPT !.num = IF same THEN XML_FALSE ELSE XML_TRUE])
    BY DEF GiveComparison
<1>2. PICK n : n = IF same THEN XML_FALSE ELSE XML_TRUE
    OBVIOUS
<1>3. n \in None .. MaxLong
    BY <1>2, BooleansIn
<1> QED BY <1>1, <1>2, <1>3, NumberAnswerInv

LEMMA FoundNumberIs ==
    ASSUME CInv, pc = "deliver"
    PROVE  /\ Strtol(text, found.from, found.len, setup.none).val \in None .. MaxLong
           /\ Strtob(text, found.from, found.len, setup.none) \in None .. MaxLong
<1>1. /\ found.from \in Nat /\ found.len \in Nat /\ found.from + found.len <= Len(text) + 1
    BY DeliverIs
<1>2. /\ setup.none \in None .. MaxLong /\ Len(text) \in Nat /\ DOMAIN text = 1 .. Len(text)
    BY ElementIs
<1>3. PICK t \in {text}, n \in Nat, from \in Nat, len \in Nat, none \in None .. MaxLong :
        n = Len(text) /\ from = found.from /\ len = found.len /\ none = setup.none
    BY <1>1, <1>2
<1>4. /\ Strtol(t, from, len, none).val \in None .. MaxLong
      /\ Strtob(t, from, len, none) \in None .. MaxLong
    BY <1>1, <1>2, <1>3, NumberIs
<1> QED BY <1>3, <1>4

LEMMA GiveIntInv ==
    ASSUME CInv, GiveInt
    PROVE  CInv'
<1>1. PICK n : n = IF Missing THEN setup.none
                   ELSE Strtol(text, found.from, found.len, setup.none).val
    OBVIOUS
<1>2. Delivers({"int"}, [answer EXCEPT !.num = n])
    BY <1>1 DEF GiveInt
<1>3. pc = "deliver"
    BY <1>2 DEF Delivers
<1>4. n \in None .. MaxLong
    BY <1>1, <1>3, FoundNumberIs, ElementIs
<1> QED BY <1>2, <1>4, NumberAnswerInv

LEMMA GiveBoolInv ==
    ASSUME CInv, GiveBool
    PROVE  CInv'
<1>1. PICK n : n = IF Missing THEN setup.none
                   ELSE Strtob(text, found.from, found.len, setup.none)
    OBVIOUS
<1>2. Delivers({"bool"}, [answer EXCEPT !.num = n])
    BY <1>1 DEF GiveBool
<1>3. pc = "deliver"
    BY <1>2 DEF Delivers
<1>4. n \in None .. MaxLong
    BY <1>1, <1>3, FoundNumberIs, ElementIs
<1> QED BY <1>2, <1>4, NumberAnswerInv

\* A conversion of the start of what was found, into a buffer of some size.
LEMMA ConvertedIs ==
    ASSUME CInv, pc = "deliver", ~Missing, NEW len \in Nat, len <= found.len, NEW size \in Nat,
           NEW got, got = Converted(len, size)
    PROVE  /\ Within(got, size) /\ IsText(got, text, found.from, len, size)
           /\ ~(setup.local /\ setup.cd) => got.error = XML_NO_ERROR /\ got.high <= len
<1>1. /\ found.from \in Nat \ {0} /\ found.len \in Nat
      /\ found.from + found.len <= Len(text) + 1
    BY DeliverIs
<1>2. Len(text) \in Nat /\ \A i \in 1 .. Len(text) : text[i] \in Symbols
    BY ElementIs
<1>3. PICK t \in {text}, n \in Nat, from \in Nat : n = Len(text) /\ from = found.from
    BY <1>1, <1>2
<1>4. n = Len(t) /\ from > 0 /\ from + len <= n + 1 /\ \A i \in 1 .. n : t[i] \in Symbols
    BY <1>1, <1>2, <1>3
<1>5. CASE setup.local /\ setup.cd
    <2>1. got = Localised(t, from, len, size)
        BY <1>3, <1>5 DEF Converted, Iconv
    <2>2. Within(got, size) /\ IsText(got, t, from, len, size)
        BY <1>4, <2>1, LocalisedIs
    <2> QED BY <1>3, <1>5, <2>2
<1>6. CASE ~(setup.local /\ setup.cd)
    <2>1. got = Plain(t, from, len, size)
        BY <1>3, <1>6 DEF Converted, Iconv
    <2>2. /\ Within(got, size) /\ IsText(got, t, from, len, size)
          /\ got.error = XML_NO_ERROR /\ got.high <= len
        BY <1>4, <2>1, PlainIs
    <2> QED BY <1>3, <1>6, <2>2
<1> QED BY <1>5, <1>6

LEMMA GiveStringInv ==
    ASSUME CInv, GiveString
    PROVE  CInv'
<1>1. PICK got : got = Converted(found.len, 6 * found.len)
    OBVIOUS
<1>2. PICK result : result = IF NoString THEN answer
                    ELSE [num |-> 1, chars |-> got.chars, high |-> got.high, error |-> got.error]
    OBVIOUS
<1>3. Delivers({"string", "raw"}, result)
    BY <1>1, <1>2 DEF GiveString
<1>4. pc = "deliver" /\ call.op \in {"string", "raw"} /\ answer' = result
      /\ UNCHANGED <<element, setup, call, ps, num, found>>
    BY <1>3 DEF Delivers
<1>5. answer \in Answers /\ answer.num = 0 /\ found.len \in Nat
    BY <1>4, DeliverIs
<1>6. CASE NoString
    <2>1. result = answer
        BY <1>2, <1>6
    <2> QED BY <1>3, <1>5, <2>1, AnswerInv
<1>7. CASE ~NoString
    <2>1. ~Missing
        BY <1>7 DEF NoString
    <2>2. PICK len \in Nat, size \in Nat : len = found.len /\ size = 6 * found.len
        BY <1>5
    <2>3. len <= found.len /\ len <= size /\ got = Converted(len, size)
        BY <1>1, <2>2
    <2>4. /\ got.chars \in Seq(Symbols) /\ got.high \in Nat /\ got.high <= size
          /\ got.error \in 0 .. 12
          /\ got.error = XML_NO_ERROR =>
                got.chars = SubSeq(text, found.from, found.from + len - 1)
        BY <1>4, <2>1, <2>3, ConvertedIs DEF Within, IsText
    <2>5. result = [num |-> 1, chars |-> got.chars, high |-> got.high, error |-> got.error]
        BY <1>2, <1>7
    <2>6. 1 \in None .. MaxLong
        BY ValuesAssumption DEF None
    <2>7. result \in Answers
        BY <2>4, <2>5, <2>6 DEF Answers
    <2>8. text' = text
        BY <1>4 DEF text
    <2>9. CopyFits'
        BY <1>4, <2>2, <2>4, <2>5, <2>8 DEF CopyFits
    <2> QED BY <1>3, <2>7, <2>9, AnswerInv
<1> QED BY <1>6, <1>7

LEMMA NoMemoryInv ==
    ASSUME CInv, NoMemory
    PROVE  CInv'
<1>1. PICK result : result = [answer EXCEPT !.error = XML_OUT_OF_MEMORY]
    OBVIOUS
<1>2. Delivers({"string", "raw"}, result)
    BY <1>1 DEF NoMemory
<1>3. pc = "deliver"
    BY <1>2 DEF Delivers
<1>4. result \in Answers /\ result.num = 0
    BY <1>1, <1>3, ErrorIs DEF XML_OUT_OF_MEMORY
<1> QED BY <1>2, <1>4, AnswerInv

LEMMA GiveCopyInv ==
    ASSUME CInv, GiveCopy
    PROVE  CInv'
<1>1. PICK len, got : len = CopyLen(found.len, call.buflen) /\ got = Converted(len, call.buflen)
    OBVIOUS
<1>2. PICK error : error = CASE got.error # XML_NO_ERROR -> got.error
                             [] got.error = XML_NO_ERROR /\ len # found.len -> XML_TRUNCATE_RESULT
                             [] OTHER -> XML_NO_ERROR
    OBVIOUS
<1>3. PICK result : result = IF Missing \/ found.len = 0 THEN answer
                    ELSE [num |-> len, chars |-> got.chars, high |-> got.high, error |-> error]
    OBVIOUS
<1>4. Delivers({"copy"}, result)
    BY <1>1, <1>2, <1>3 DEF GiveCopy
<1>5. pc = "deliver" /\ call.op = "copy" /\ answer' = result
      /\ UNCHANGED <<element, setup, call, ps, num, found>>
    BY <1>4 DEF Delivers
<1>6. /\ answer \in Answers /\ answer.num = 0 /\ found.len \in Nat /\ found.from \in Nat
      /\ call.buflen \in Nat \ {0} /\ found.from + found.len <= Len(text) + 1
    BY <1>5, DeliverIs
<1>7. CASE Missing \/ found.len = 0
    <2>1. result = answer
        BY <1>3, <1>7
    <2> QED BY <1>4, <1>6, <2>1, AnswerInv
<1>8. CASE ~(Missing \/ found.len = 0)
    <2>1. len \in Nat /\ len <= found.len /\ len < call.buflen
          /\ (len # found.len <=> len < found.len)
        BY <1>1, <1>6 DEF CopyLen
    <2>2. PICK size \in Nat : size = call.buflen
        BY <1>6
    <2>3. ~Missing /\ len <= size /\ got = Converted(len, size)
        BY <1>1, <1>8, <2>1, <2>2
    <2>4. /\ got.chars \in Seq(Symbols) /\ got.high \in Nat /\ got.error \in 0 .. 12
          /\ got.error = XML_NO_ERROR =>
                got.chars = SubSeq(text, found.from, found.from + len - 1)
          /\ ~(setup.local /\ setup.cd) => got.error = XML_NO_ERROR /\ got.high <= len
        BY <1>5, <2>1, <2>3, ConvertedIs DEF Within, IsText
    <2>5. error \in 0 .. 12
        BY <1>2, <2>4 DEF XML_NO_ERROR, XML_TRUNCATE_RESULT
    <2>6. got.error = XML_NO_ERROR => (len # found.len <=> error = XML_TRUNCATE_RESULT)
        BY <1>2 DEF XML_NO_ERROR, XML_TRUNCATE_RESULT
    <2>7. result = [num |-> len, chars |-> got.chars, high |-> got.high, error |-> error]
        BY <1>3, <1>8
    <2>8. len \in None .. MaxLong
        <3>1. found.from \in Nat \ {0} /\ Len(text) <= MaxLong /\ Len(text) \in Nat
            BY <1>5, <1>8, DeliverIs, ElementIs
        <3> QED BY <1>6, <2>1, <3>1, ValuesAssumption DEF None
    <2>9. result \in Answers
        BY <2>4, <2>5, <2>7, <2>8 DEF Answers
    <2>10. text' = text
        BY <1>5 DEF text
    <2>11. CopyFits'
        <3>1. Kept' = SubSeq(text, found.from, found.from + len - 1)
            BY <1>5, <2>7, <2>10 DEF Kept
        <3>2. ~(setup.local /\ setup.cd) =>
                 /\ got.high < call.buflen /\ got.chars = Kept'
                 /\ len < found.len <=> error = XML_TRUNCATE_RESULT
            BY <1>6, <2>1, <2>4, <2>6, <3>1
        <3> QED BY <1>5, <2>7, <3>2 DEF CopyFits
    <2> QED BY <1>4, <2>9, <2>11, AnswerInv
<1> QED BY <1>7, <1>8

LEMMA ForgetInv ==
    ASSUME CInv, Forget
    PROVE  CInv'
<1>1. /\ pc' = "idle" /\ ps' = 0 /\ num' = 0 /\ found' = Nothing /\ answer' = NoAnswer
      /\ element' = element /\ setup' = setup /\ text' = text
    BY DEF Forget, text
<1>2. Len(text) \in Nat
    BY ElementIs
<1>3. Piece(found', Len(text)')
    BY <1>1, <1>2, NothingIs
<1>4. answer' \in Answers
    <2>1. 0 \in None .. MaxLong
        BY ValuesAssumption DEF None
    <2>2. <<>> \in Seq(Symbols)
        OBVIOUS
    <2> QED BY <1>1, <2>1, <2>2 DEF NoAnswer, Answers, XML_NO_ERROR
<1> QED BY <1>1, <1>2, <1>3, <1>4 DEF CInv, CopyFits, NoAnswer

-----------------------------------------------------------------------------

LEMMA StepInv ==
    ASSUME CInv, [Next]_vars
    PROVE  CInv'
<1>1. CASE UNCHANGED vars
    BY <1>1 DEF vars, CInv, CopyFits, Kept, Quoted, Missing, Piece, text, pe
<1>2. CASE WordOther
    <2>1. InTag("attribute") /\ ps' = NextWord
          /\ UNCHANGED <<element, setup, call, pc, num, found, answer>>
        BY <1>2 DEF WordOther
    <2> QED BY <2>1, NextWordInv
<1>3. CASE WordWithoutEquals
    <2>1. InTag("attribute") /\ ps' = NextWord
          /\ UNCHANGED <<element, setup, call, pc, num, found, answer>>
        BY <1>3 DEF WordWithoutEquals
    <2> QED BY <2>1, NextWordInv
<1>4. CASE NoOpeningQuote
    BY <1>4, NoOpeningQuoteInv
<1>5. CASE NoClosingQuote
    BY <1>5, NoClosingQuoteInv
<1>6. CASE ValueFound
    BY <1>6, ValueFoundInv
<1>7. CASE NoMoreWords
    BY <1>7, NoMoreWordsInv
<1>8. CASE NameOther
    BY <1>8, NameOtherInv
<1>9. CASE NameFound
    BY <1>9, NameFoundInv
<1>10. CASE NoMoreNames
    BY <1>10, NoMoreNamesInv
<1>11. CASE EqualsCounted
    BY <1>11, EqualsCountedInv
<1>12. CASE CountEnds
    BY <1>12, CountEndsInv
<1>13. CASE GiveExists
    BY <1>13, GiveExistsInv
<1>14. CASE GiveString
    BY <1>14, GiveStringInv
<1>15. CASE NoMemory
    BY <1>15, NoMemoryInv
<1>16. CASE GiveCopy
    BY <1>16, GiveCopyInv
<1>17. CASE GiveComparison
    BY <1>17, GiveComparisonInv
<1>18. CASE GiveInt
    BY <1>18, GiveIntInv
<1>19. CASE GiveBool
    BY <1>19, GiveBoolInv
<1>20. CASE Forget
    BY <1>20, ForgetInv
<1>21. CASE \E c \in Calls[element.group] : Ask(c)
    BY <1>21, AskInv
<1> QED BY <1>1, <1>2, <1>3, <1>4, <1>5, <1>6, <1>7, <1>8, <1>9, <1>10, <1>11, <1>12, <1>13,
           <1>14, <1>15, <1>16, <1>17, <1>18, <1>19, <1>20, <1>21 DEF Next, Working

LEMMA Invariant == Spec => []CInv
<1> QED BY InitInv, StepInv, PTL DEF Spec

\* The getters never leave the text: cursors, pieces and what is read from them are
\* in it for every tag, also one that is none, and numbers are longs.
THEOREM ContentTypes == Spec => []TypeOK
<1>1. CInv => TypeOK
    BY InvImplies
<1> QED BY <1>1, Invariant, PTL

\* A copy is the start of the text and ends inside of its buffer, and tells when it
\* was cut; a string fits the 6 bytes per character it got (the copying getters).
THEOREM ContentCopiesFit == Spec => []CopyFits
<1>1. CInv => CopyFits
    BY DEF CInv
<1> QED BY <1>1, Invariant, PTL

\* What a search by name finds is between two quotes behind a "=", and ends in the
\* tag (__zeroxml_get_attribute_data_ptr).
THEOREM ValuesAreQuoted ==
    Spec => [](pc = "deliver" /\ call.on = "attribute" => (~Missing => Quoted))
<1>1. CInv => (pc = "deliver" /\ call.on = "attribute" => (~Missing => Quoted))
    BY DEF CInv
<1> QED BY <1>1, Invariant, PTL

-----------------------------------------------------------------------------
(* What a request for a text finds. *)

\* What is found for a text is what the section has.
TextIsFound == pc = "deliver" /\ call.on = "text" => found = TextFor(call.op)

LEMMA TextStep ==
    ASSUME CInv, TextIsFound, [Next]_vars
    PROVE  TextIsFound'
<1> SUFFICES ASSUME pc' = "deliver", (call.on)' = "text" PROVE found' = TextFor(call.op)'
    BY DEF TextIsFound
<1>1. CASE UNCHANGED vars
    BY <1>1 DEF vars, TextIsFound, TextFor, Section, text, pe
<1>2. ASSUME NEW piece, Found(piece), pc \in {"attribute", "position"}, call' = call PROVE FALSE
    BY <1>2 DEF CInv
<1>3. CASE WordOther \/ WordWithoutEquals
    BY <1>3 DEF WordOther, WordWithoutEquals, InTag
<1>4. CASE NoOpeningQuote \/ NoClosingQuote
    <2>1. Found(Nothing) /\ pc = "attribute" /\ call' = call
        BY <1>4 DEF NoOpeningQuote, NoClosingQuote, Fails, InTag
    <2> QED BY <1>2, <2>1
<1>5. CASE ValueFound
    <2>1. \E piece : Found(piece) /\ pc = "attribute" /\ call' = call
        BY <1>5 DEF ValueFound, InTag
    <2> QED BY <1>2, <2>1
<1>6. CASE NoMoreWords \/ NoMoreNames
    <2>1. Found(Nothing) /\ pc \in {"attribute", "position"} /\ call' = call
        BY <1>6 DEF NoMoreWords, NoMoreNames
    <2> QED BY <1>2, <2>1
<1>7. CASE NameFound
    <2>1. \E piece : Found(piece) /\ pc = "position" /\ call' = call
        BY <1>7 DEF NameFound, InTag
    <2> QED BY <1>2, <2>1
<1>8. CASE NameOther \/ EqualsCounted
    BY <1>8 DEF NameOther, EqualsCounted, InTag
<1>9. CASE CountEnds \/ Forget
    BY <1>9 DEF CountEnds, Forget
<1>10. ASSUME NEW ops, NEW result, Delivers(ops, result) PROVE FALSE
    BY <1>10 DEF Delivers
<1>11. CASE GiveExists \/ GiveString \/ NoMemory \/ GiveCopy
    BY <1>10, <1>11 DEF GiveExists, GiveString, NoMemory, GiveCopy
<1>12. CASE GiveComparison \/ GiveInt \/ GiveBool
    BY <1>10, <1>12 DEF GiveComparison, GiveInt, GiveBool
<1>13. ASSUME NEW c \in Calls[element.group], Ask(c) PROVE found' = TextFor(call.op)'
    <2>1. call' = c /\ text' = text /\ element' = element /\ pe' = pe /\ c.on = "text"
        BY <1>13 DEF Ask, text, pe
    <2>2. found' = TextFor(c.op)
        BY <1>13, <2>1 DEF Ask
    <2>3. TextFor(call.op)' = TextFor(c.op)
        BY <2>1 DEF TextFor, Section
    <2> QED BY <2>2, <2>3
<1> QED BY <1>1, <1>3, <1>4, <1>5, <1>6, <1>7, <1>8, <1>9, <1>11, <1>12, <1>13 DEF Next, Working

\* xmlGetString, xmlCopyString and xmlCompareString: of every section whose marks
\* are in pairs and apart they give data and nothing else, and all of the text when
\* it is in one piece, but one blank when the text is blank.
THEOREM TextsAreRead == Spec => []TextIsRead
<1>1. CInv /\ TextIsFound => TextIsRead
    <2> SUFFICES ASSUME CInv, TextIsFound, pc = "deliver", call.on = "text",
                        call.op \in {"string", "copy", "compare"}, element.group = "text"
                 PROVE  TextIsRead
        BY DEF TextIsRead, AsksText
    <2>1. /\ element \in Elements /\ Len(text) \in Nat /\ DOMAIN text = 1 .. Len(text)
          /\ \A i \in 1 .. Len(text) : text[i] \in Symbols
          /\ pe \in Nat /\ element.last \in Nat /\ pe <= element.last /\ element.last <= Len(text)
        BY ElementIs
    <2>2. ASSUME element.last = pe PROVE TextIsRead
        <3>1. found = Nothing
            BY <2>2 DEF TextIsFound, TextFor
        <3>2. Read = {} /\ Data = {}
            BY <2>1, <2>2, <3>1 DEF Read, Data, Nothing
        <3>3. Meant = {}
            BY <3>2 DEF Meant
        <3> QED BY <3>2, <3>3 DEF TextIsRead
    <2>3. PICK n \in Nat, t \in {text}, from \in Nat \ {0}, last \in Int, len \in Nat :
             n = Len(text) /\ from = pe + 1 /\ last = element.last /\ len = element.last - pe
        <3> Len(text) \in Nat /\ text \in {text} /\ pe + 1 \in Nat \ {0} /\ element.last \in Int
              /\ element.last - pe \in Nat
            BY <2>1
        <3> WITNESS Len(text) \in Nat, text \in {text}, pe + 1 \in Nat \ {0}, element.last \in Int,
                    element.last - pe \in Nat
        <3> QED OBVIOUS
    <2>4. Len(t) = n /\ IsTextOf(t, n) /\ from <= last + 1 /\ last <= n /\ from + len - 1 = last
        BY <2>1, <2>3 DEF IsTextOf
    <2>5. /\ Paired(t, from, last, Comment, CommentEnd) /\ Paired(t, from, last, CDATA, CDATAEnd)
          /\ \A i \in from .. last : t[i] = CDATAEnd => \E j \in from .. i : t[j] = CDATA
        BY <2>1, <2>3, TextsAssumption DEF text, pe
    <2>6. TextOf(t, from, last, PrepareData(t, from, len))
        BY <2>4, <2>5, PrepareDataText
    <2>7. ASSUME element.last # pe PROVE TextIsRead
        <3>1. found = PrepareData(text, pe + 1, element.last - pe)
            BY <2>7 DEF TextIsFound, TextFor, Section
        <3>2. TextOf(text, pe + 1, element.last, found)
            BY <2>3, <2>6, <3>1
        <3> QED BY <3>2
            DEF TextIsRead, TextOf, PieceOf, Read, Apart, ApartIn, InOnePiece, OnePieceIn, Meant, MeantIn,
                Solid, SolidIn, Data, DataIn, InBlock, BlockIn
    <2> QED BY <2>2, <2>7
<1>2. Init => TextIsFound
    BY DEF Init, TextIsFound
<1> QED BY <1>1, <1>2, Invariant, TextStep, PTL DEF Spec

-----------------------------------------------------------------------------
(* The attributes by position. *)

\* The searches from behind the first n attributes find attribute n + 1.
LEMMA NextAttribute ==
    ASSUME CInv, element.group = "tag", NEW n \in Nat, n < Len(element.attrs)
    PROVE  LET a == element.attrs[n + 1]
               b == BehindFirst(element, n)
           IN /\ b <= a.at /\ a.at < a.from - 2 /\ a.from - 2 < pe /\ a.at \in Nat /\ a.from \in Nat
              /\ text[a.from - 2] = "=" /\ Behind(a) \in Nat /\ a.from - 2 < Behind(a)
              /\ SkipBlanks(text, b, pe) = a.at /\ NextEquals(a.at) = a.from - 2
              /\ BehindValue(a.from - 2) = Behind(a)
              /\ Trimmed(text, a.at, a.from - 3).from = a.at
              /\ Trimmed(text, a.at, a.from - 3).len = Len(a.name)
              /\ SubSeq(text, a.at, a.at + Len(a.name) - 1) = a.name
<1>1. /\ element \in Elements /\ Len(text) \in Nat /\ DOMAIN text = 1 .. Len(text)
      /\ \A i \in 1 .. Len(text) : text[i] \in Symbols
      /\ pe \in Nat /\ element.nlen \in Nat /\ pe <= Len(text)
    BY ElementIs
<1>2. PICK size \in Nat, end \in Nat, t \in {text}, last \in Int :
         size = Len(text) /\ end = pe /\ end <= size /\ last = end - 1
    <2>1. pe - 1 \in Int
        BY <1>1
    <2> QED BY <1>1, <2>1
<1>3. IsTextOf(t, size)
    BY <1>1, <1>2 DEF IsTextOf
<1>4. Len(element.attrs) \in Nat
    BY <1>1, TagsAssumption, LenProperties
<1>5. PICK i \in 1 .. Len(element.attrs) : i = n + 1 /\ i - 1 = n
    BY <1>4
<1>6. PICK a : a = element.attrs[i]
    OBVIOUS
<1>7. /\ Lies(t, a.at, Len(a.name), a.from, Len(a.value), a.quote)
      /\ element.nlen + 2 <= a.at /\ Behind(a) <= end
      /\ SubSeq(t, a.at, a.at + Len(a.name) - 1) = a.name
      /\ \A j \in 1 .. n : Behind(element.attrs[j]) <= a.at
      /\ \A k \in BehindFirst(element, n) .. a.at - 1 : t[k] \in Blanks
    BY <1>1, <1>2, <1>5, <1>6, AttributeLies DEF text, pe
<1>8. PICK p \in Nat \ {0}, l \in Nat \ {0}, f \in Nat, v \in Nat, q \in {a.quote} :
         p = a.at /\ l = Len(a.name) /\ f = a.from /\ v = Len(a.value)
    BY <1>7 DEF Lies
<1>9. Lies(t, p, l, f, v, q)
    BY <1>7, <1>8
<1>10. p + l <= f - 2 /\ f + v + 1 <= end /\ f + v < end /\ p < end
    <2>1. p + l <= f - 2
        BY <1>9 DEF Lies
    <2>2. f + v + 1 <= end
        BY <1>7, <1>8 DEF Behind
    <2> QED BY <2>1, <2>2
<1>11. PICK b \in Nat \ {0} : b = BehindFirst(element, n) /\ b <= p
    <2>1. CASE n = 0
        <3>1. BehindFirst(element, n) = element.nlen + 2 /\ element.nlen + 2 <= p
            BY <1>7, <1>8, <2>1 DEF BehindFirst
        <3>2. element.nlen + 2 \in Nat \ {0}
            BY <1>1
        <3> QED BY <3>1, <3>2
    <2>2. CASE n # 0
        <3>1. n \in 1 .. Len(element.attrs) /\ n \in 1 .. n
            BY <1>4, <2>2
        <3>2. PICK x : x = element.attrs[n]
            OBVIOUS
        <3>3. x.from \in Nat /\ Len(x.value) \in Nat
            BY <1>1, <3>1, <3>2, AttributeLies DEF Lies
        <3>4. BehindFirst(element, n) = x.from + Len(x.value) + 1 /\ Behind(x) <= p
            BY <1>7, <1>8, <2>2, <3>1, <3>2 DEF BehindFirst, Behind
        <3>5. x.from + Len(x.value) + 1 \in Nat \ {0}
            BY <3>3
        <3> QED BY <3>4, <3>5 DEF Behind
    <2> QED BY <2>1, <2>2
<1>12. \A k \in b .. p - 1 : t[k] \in Blanks
    BY <1>7, <1>8, <1>11
<1>13. /\ SkipBlanks(t, b, end) = p
       /\ FirstOf(t, p, last, {"="}) = f - 2
       /\ FirstOf(t, f, last, {q}) = f + v
       /\ Trimmed(t, p, f - 3).from = p /\ Trimmed(t, p, f - 3).len = l
    <2>1. f + v < end /\ end <= size /\ b <= p
        BY <1>2, <1>10, <1>11
    <2>2. /\ SkipBlanks(t, b, end) = p
          /\ FirstOf(t, p, end - 1, {"="}) = f - 2
          /\ FirstOf(t, f, end - 1, {q}) = f + v
          /\ Trimmed(t, p, f - 3).from = p /\ Trimmed(t, p, f - 3).len = l
        <3>1. Before(t, size, b, end, p, l, f, v, q)
            BY <1>3, <1>9, <1>12, <2>1 DEF Before
        <3>2. Finds(t, b, end, p, l, f, v, q)
            BY <3>1, SearchesFind
        <3> QED BY <3>2 DEF Finds
    <2> QED BY <1>2, <2>2
<1>14. NextEquals(p) = f - 2
    BY <1>2, <1>13 DEF NextEquals
<1>15. BehindValue(f - 2) = f + v + 1
    <2>1. f - 2 + 2 = f /\ f - 2 + 1 = f - 1 /\ f < end /\ f - 1 \in 1 .. size
        BY <1>2, <1>10
    <2>2. t[f - 1] = q
        BY <1>9 DEF Lies
    <2>3. At(t, f - 1) = q
        BY <1>1, <1>2, <2>1, <2>2 DEF At
    <2>4. BehindValue(f - 2) = 1 + (f + v)
        BY <1>2, <1>13, <2>1, <2>3 DEF BehindValue
    <2> QED BY <2>4
<1>16. t[f - 2] = "="
    BY <1>9 DEF Lies
<1>17. Behind(a) = f + v + 1
    BY <1>8 DEF Behind
<1>18. p < f - 2 /\ f - 2 < end /\ f + v + 1 \in Nat /\ f - 2 < f + v + 1
    BY <1>10
<1> QED BY <1>2, <1>5, <1>6, <1>7, <1>8, <1>11, <1>13, <1>14, <1>15, <1>16, <1>17, <1>18

\* No search for a "=" finds one behind the last attribute.
LEMMA NoEqualsBehind ==
    ASSUME CInv, element.group = "tag", NEW from \in Nat \ {0}, from <= pe,
           BehindFirst(element, Len(element.attrs)) <= from,
           BehindFirst(element, Len(element.attrs)) \in Int
    PROVE  NextEquals(from) = pe
<1>1. /\ element \in Elements /\ Len(text) \in Nat /\ DOMAIN text = 1 .. Len(text)
      /\ pe \in Nat /\ pe <= Len(text)
    BY ElementIs
<1>2. PICK b \in Int, t \in {text}, end \in Nat, last \in Int, size \in Nat :
         b = BehindFirst(element, Len(element.attrs)) /\ end = pe /\ last = end - 1
         /\ size = Len(text) /\ end <= size
    <2>1. pe - 1 \in Int
        BY <1>1
    <2> QED BY <1>1, <2>1
<1>3. \A k \in b .. end - 1 : t[k] # "="
    BY <1>1, <1>2, TagsAssumption DEF text, pe
<1>4. PICK k : k = FirstOf(t, from, last, {"="})
    OBVIOUS
<1>5. from \in Int /\ from <= last + 1 /\ b <= from
    BY <1>2
<1>6. k \in from .. last + 1 /\ (k <= last => At(t, k) \in {"="})
    BY <1>4, <1>5, FirstOfIs
<1>7. ~(k <= last)
    <2> SUFFICES ASSUME k <= last PROVE FALSE
        OBVIOUS
    <2>1. k \in b .. end - 1 /\ k \in 1 .. size
        BY <1>2, <1>5, <1>6
    <2>2. At(t, k) = t[k]
        BY <1>1, <1>2, <2>1 DEF At
    <2> QED BY <1>3, <1>6, <2>1, <2>2
<1>8. k = end
    BY <1>2, <1>6, <1>7
<1> QED BY <1>2, <1>4, <1>8 DEF NextEquals

\* What was counted are attributes, and the cursor is behind the "=" of the last.
CountedOnce ==
    /\ num <= Len(element.attrs)
    /\ num > 0 => ps > element.attrs[num].from - 2

\* A cursor for a position is behind the attributes that were passed; what a count
\* has not reached is behind its cursor.
InOrder ==
    element.group = "tag" =>
        /\ pc = "position" =>
              num <= Len(element.attrs) /\ num <= call.pos /\ ps = BehindFirst(element, num)
        /\ pc = "count" =>
              /\ \A k \in num + 1 .. Len(element.attrs) : ps <= element.attrs[k].from - 2
              /\ ps >= FirstAttribute
              /\ PlainValues => CountedOnce

\* A position that is asked for.
LEMMA PositionIs ==
    ASSUME CInv, pc # "idle", call.on = "position"
    PROVE  call.pos \in Nat
<1>1. element \in Elements /\ call \in Calls[element.group]
    BY DEF CInv
<1>2. element.group \in DOMAIN Calls
    BY <1>1, ContentAssumption
<1> QED BY <1>1, <1>2, CallsAssumption

LEMMA AskInOrder ==
    ASSUME CInv, NEW c \in Calls[element.group], Ask(c)
    PROVE  InOrder' /\ NamesInOrder'
<1>1. element \in Elements /\ element.nlen \in Nat
    BY ElementIs
<1>2. element' = element /\ text' = text /\ call' = c
    BY DEF Ask, text
<1> SUFFICES ASSUME element.group = "tag" PROVE InOrder' /\ NamesInOrder'
    BY <1>2 DEF InOrder, NamesInOrder
<1>3. element.nlen > 0 /\ Len(element.attrs) \in Nat
    BY <1>1, TagsAssumption, LenProperties
<1>4. pc' # "answered" /\ ~(pc' = "deliver" /\ c.on = "position")
    BY <1>3 DEF Ask
<1>5. pc' \in {"position", "count"} => ps' = element.nlen + 2 /\ num' = 0 /\ c.on = pc'
    BY <1>3 DEF Ask, FirstAttribute
<1>6. c.on = "position" => c.pos \in Nat
    BY <1>1, ContentAssumption, CallsAssumption
<1>7. ASSUME NEW k \in 1 .. Len(element.attrs)
      PROVE  element.nlen + 2 <= element.attrs[k].from - 2
    <2>1. PICK a : a = element.attrs[k]
        OBVIOUS
    <2>2. Lies(element.text, a.at, Len(a.name), a.from, Len(a.value), a.quote)
          /\ element.nlen + 2 <= a.at
        BY <1>1, <2>1, AttributeLies
    <2>3. a.at \in Nat /\ Len(a.name) \in Nat /\ a.from \in Nat /\ a.at + Len(a.name) <= a.from - 2
        BY <2>2 DEF Lies
    <2>4. PICK l \in Nat : l = element.nlen
        BY <1>1
    <2>5. l + 2 <= a.from - 2
        BY <2>2, <2>3, <2>4
    <2> QED BY <2>1, <2>4, <2>5
<1>8. InOrder'
    <2>1. pc' = "position" => num' <= Len(element.attrs) /\ num' <= c.pos
                              /\ ps' = BehindFirst(element, num')
        BY <1>3, <1>5, <1>6 DEF BehindFirst
    <2>2. pc' = "count" => \A k \in num' + 1 .. Len(element.attrs) : ps' <= element.attrs[k].from - 2
        BY <1>5, <1>7
    <2>3. pc' = "count" => ps' >= FirstAttribute' /\ CountedOnce'
        <3>1. element.nlen + 2 >= element.nlen + 2
            BY <1>1
        <3> QED BY <1>2, <1>3, <1>5, <3>1 DEF FirstAttribute, CountedOnce
    <2> QED BY <1>2, <2>1, <2>2, <2>3 DEF InOrder
<1>9. NamesInOrder'
    BY <1>2, <1>4 DEF NamesInOrder
<1> QED BY <1>8, <1>9

\* The name that a cursor stands before, when there is one.
LEMMA NameIs ==
    ASSUME CInv, InOrder, element.group = "tag", InTag("position")
    PROVE  /\ num \in Nat /\ num <= Len(element.attrs) /\ num <= call.pos /\ call.pos \in Nat
           /\ Len(element.attrs) \in Nat
           /\ num < Len(element.attrs) =>
                 /\ Word = element.attrs[num + 1].at
                 /\ NextEquals(Word) = element.attrs[num + 1].from - 2
                 /\ NextEquals(Word) < pe
           /\ num = Len(element.attrs) => NextEquals(Word) = pe
<1>1. /\ element \in Elements /\ pe \in Nat /\ pc = "position" /\ call.on = "position"
      /\ ps \in Nat \ {0} /\ Word \in ps .. pe
    BY InTagIs, ElementIs
<1>2. Len(element.attrs) \in Nat /\ num \in Nat /\ call.pos \in Nat
    BY <1>1, TagsAssumption, LenProperties, PositionIs DEF CInv
<1>3. num <= Len(element.attrs) /\ num <= call.pos /\ ps = BehindFirst(element, num)
    BY <1>1 DEF InOrder
<1>4. CASE num < Len(element.attrs)
    <2>1. /\ SkipBlanks(text, BehindFirst(element, num), pe) = element.attrs[num + 1].at
          /\ NextEquals(element.attrs[num + 1].at) = element.attrs[num + 1].from - 2
          /\ element.attrs[num + 1].from - 2 < pe
        BY <1>2, <1>4, NextAttribute
    <2>2. Word = element.attrs[num + 1].at
        BY <1>3, <2>1 DEF Word
    <2> QED BY <1>2, <1>3, <1>4, <2>1, <2>2
<1>5. CASE num = Len(element.attrs)
    <2>1. PICK w \in Nat \ {0} : w = Word /\ w <= pe /\ ps <= w
        BY <1>1
    <2>2. NextEquals(w) = pe
        BY <1>1, <1>3, <1>5, <2>1, NoEqualsBehind
    <2> QED BY <1>2, <1>3, <1>5, <2>1, <2>2
<1> QED BY <1>2, <1>3, <1>4, <1>5

LEMMA NameOtherInOrder ==
    ASSUME CInv, InOrder, NameOther
    PROVE  InOrder' /\ NamesInOrder'
<1>1. /\ InTag("position") /\ NextEquals(Word) < pe /\ num # call.pos
      /\ ps' = BehindValue(NextEquals(Word)) /\ num' = num + 1
      /\ UNCHANGED <<element, setup, call, pc, found, answer>>
    BY DEF NameOther
<1>2. pc' = "position"
    BY <1>1 DEF InTag
<1> SUFFICES ASSUME element.group = "tag" PROVE InOrder'
    BY <1>1, <1>2 DEF InOrder, NamesInOrder
<1>3. /\ num \in Nat /\ num <= Len(element.attrs) /\ num <= call.pos /\ call.pos \in Nat
      /\ Len(element.attrs) \in Nat /\ pe \in Nat
      /\ num < Len(element.attrs) => NextEquals(Word) = element.attrs[num + 1].from - 2
      /\ num = Len(element.attrs) => NextEquals(Word) = pe
    BY <1>1, NameIs, ElementIs
<1>4. num < Len(element.attrs)
    BY <1>1, <1>3
<1>5. BehindValue(element.attrs[num + 1].from - 2) = Behind(element.attrs[num + 1])
    BY <1>3, <1>4, NextAttribute
<1>6. ps' = BehindFirst(element, num + 1)
    BY <1>1, <1>3, <1>4, <1>5 DEF BehindFirst
<1>7. num' <= Len(element.attrs) /\ num' <= call.pos
    BY <1>1, <1>3, <1>4
<1> QED BY <1>1, <1>2, <1>6, <1>7 DEF InOrder

LEMMA NameFoundInOrder ==
    ASSUME CInv, InOrder, NameFound
    PROVE  InOrder' /\ NamesInOrder'
<1>1. PICK e, piece : /\ e = NextEquals(Word)
                      /\ piece = IF call.op = "copy" THEN Trimmed(text, Word, e - 1)
                                 ELSE [from |-> Word, len |-> e - Word]
    OBVIOUS
<1>2. /\ InTag("position") /\ e < pe /\ num = call.pos /\ Found(piece)
      /\ UNCHANGED <<element, setup, call, ps, num, answer>>
    BY <1>1 DEF NameFound
<1>3. pc' = "deliver" /\ found' = piece /\ text' = text
    BY <1>2 DEF Found, text
<1> SUFFICES ASSUME element.group = "tag" PROVE NamesInOrder'
    BY <1>2, <1>3 DEF InOrder, NamesInOrder
<1>4. /\ num \in Nat /\ num <= Len(element.attrs) /\ Len(element.attrs) \in Nat /\ pe \in Nat
      /\ num < Len(element.attrs) =>
            Word = element.attrs[num + 1].at /\ NextEquals(Word) = element.attrs[num + 1].from - 2
      /\ num = Len(element.attrs) => NextEquals(Word) = pe
    BY <1>2, NameIs, ElementIs
<1>5. num < Len(element.attrs)
    BY <1>1, <1>2, <1>4
<1>6. PICK a : a = element.attrs[num + 1]
    OBVIOUS
<1>7. /\ a.from \in Nat /\ Trimmed(text, a.at, a.from - 3).from = a.at
      /\ Trimmed(text, a.at, a.from - 3).len = Len(a.name)
      /\ SubSeq(text, a.at, a.at + Len(a.name) - 1) = a.name
    BY <1>4, <1>5, <1>6, NextAttribute
<1>8. Word = a.at /\ e - 1 = a.from - 3
    BY <1>1, <1>4, <1>5, <1>6, <1>7
<1>9. piece.from = a.at /\ (call.op = "copy" => piece.len = Len(a.name))
    BY <1>1, <1>7, <1>8
<1> QED BY <1>2, <1>3, <1>4, <1>5, <1>6, <1>7, <1>9 DEF NamesInOrder

LEMMA NoMoreNamesInOrder ==
    ASSUME CInv, InOrder, NoMoreNames
    PROVE  InOrder' /\ NamesInOrder'
<1>1. /\ pc = "position" /\ (ps < pe => NextEquals(Word) >= pe) /\ Found(Nothing)
      /\ UNCHANGED <<element, setup, call, ps, num, answer>>
    BY DEF NoMoreNames
<1>2. pc' = "deliver" /\ Missing'
    BY <1>1 DEF Found, Missing, Nothing
<1> SUFFICES ASSUME element.group = "tag" PROVE ~(call.pos < Len(element.attrs))
    BY <1>1, <1>2 DEF InOrder, NamesInOrder
<1>3. call.on = "position" /\ pe \in Nat /\ num \in Nat /\ element \in Elements
    BY <1>1, ElementIs DEF CInv
<1>4. Len(element.attrs) \in Nat /\ call.pos \in Nat
    BY <1>1, <1>3, TagsAssumption, LenProperties, PositionIs
<1>5. num <= call.pos /\ ps = BehindFirst(element, num)
    BY <1>1 DEF InOrder
<1> SUFFICES ASSUME num < Len(element.attrs) PROVE FALSE
    BY <1>3, <1>4, <1>5
<1>6. PICK a : a = element.attrs[num + 1]
    OBVIOUS
<1>7. ps <= a.at /\ a.at < a.from - 2 /\ a.from - 2 < pe /\ a.at \in Nat /\ a.from \in Nat
    BY <1>3, <1>5, <1>6, NextAttribute
<1>8. ps < pe
    <2>1. ps \in Nat
        BY DEF CInv
    <2> QED BY <1>3, <1>7, <2>1
<1>9. NextEquals(Word) < pe
    BY <1>1, <1>8, NameIs DEF InTag
<1>10. NextEquals(Word) = a.from - 2
    BY <1>1, <1>6, <1>8, NameIs DEF InTag
<1> QED BY <1>1, <1>3, <1>7, <1>8, <1>9, <1>10

\* What a count finds is in front of every attribute that it has not reached.
LEMMA CountIs ==
    ASSUME CInv, InOrder, element.group = "tag", InTag("count")
    PROVE  \A k \in num + 1 .. Len(element.attrs) :
              element.attrs[k].from \in Nat /\ NextEquals(ps) <= element.attrs[k].from - 2
              /\ element.attrs[k].from - 2 < pe
<1>1. /\ element \in Elements /\ pe \in Nat /\ Len(text) \in Nat /\ DOMAIN text = 1 .. Len(text)
      /\ ps \in Nat \ {0} /\ pc = "count" /\ ps < pe /\ num \in Nat /\ pe <= Len(text)
    BY InTagIs, ElementIs DEF CInv
<1>2. Len(element.attrs) \in Nat
    BY <1>1, TagsAssumption, LenProperties
<1> SUFFICES ASSUME NEW k \in num + 1 .. Len(element.attrs)
             PROVE  element.attrs[k].from \in Nat /\ NextEquals(ps) <= element.attrs[k].from - 2
                    /\ element.attrs[k].from - 2 < pe
    OBVIOUS
<1>3. PICK a : a = element.attrs[k]
    OBVIOUS
<1>4. PICK n \in Nat : n + 1 = k /\ n < Len(element.attrs)
    <2>1. k - 1 \in Nat /\ k - 1 + 1 = k /\ k - 1 < Len(element.attrs)
        BY <1>1, <1>2
    <2> QED BY <2>1
<1>5. a.from \in Nat /\ a.at \in Nat /\ a.at < a.from - 2 /\ a.from - 2 < pe /\ text[a.from - 2] = "="
    BY <1>3, <1>4, NextAttribute
<1>6. ps <= a.from - 2
    BY <1>1, <1>3 DEF InOrder
<1>7. PICK f \in Nat, t \in {text}, last \in Int, size \in Nat, from \in Int :
         f = a.from - 2 /\ last = pe - 1 /\ size = Len(text) /\ from = ps
    <2>1. a.from - 2 \in Nat
        BY <1>5
    <2>2. pe - 1 \in Int /\ ps \in Int
        BY <1>1
    <2> QED BY <1>1, <2>1, <2>2
<1>8. PICK e : e = FirstOf(t, from, last, {"="})
    OBVIOUS
<1>9. from <= last + 1
    BY <1>1, <1>7
<1>10. e \in from .. last + 1 /\ \A i \in from .. e - 1 : At(t, i) \notin {"="}
    BY <1>8, <1>9, FirstOfIs
<1>11. ~(f < e)
    <2> SUFFICES ASSUME f < e PROVE FALSE
        OBVIOUS
    <2>1. f \in from .. e - 1 /\ f \in 1 .. size
        BY <1>1, <1>5, <1>6, <1>7, <1>10
    <2>2. At(t, f) = t[f]
        BY <1>1, <1>7, <2>1 DEF At
    <2> QED BY <1>5, <1>7, <1>10, <2>1, <2>2
<1>12. e <= f
    BY <1>7, <1>10, <1>11
<1> QED BY <1>3, <1>5, <1>7, <1>8, <1>12 DEF NextEquals

\* When no value holds a "=", the first one behind that of an attribute is that of the
\* next.
LEMMA EqualsIsNext ==
    ASSUME NEW e \in Elements, e.group = "tag", NEW n \in 0 .. Len(e.attrs), NEW p \in Nat,
           \A i \in 1 .. Len(e.attrs) :
              \A j \in DOMAIN e.attrs[i].value : e.attrs[i].value[j] # "=",
           e.nlen + 2 <= p, n > 0 => p > e.attrs[n].from - 2, p < e.pe, e.text[p] = "="
    PROVE  n < Len(e.attrs) /\ e.attrs[n + 1].from - 2 <= p
<1>1. Len(e.attrs) \in Nat /\ e.pe \in Nat /\ e.nlen \in Nat
    BY TagsAssumption, ContentAssumption, LenProperties
<1>2. "=" \notin Blanks /\ "=" \notin Quotes
    BY DEF Blanks, Quotes
<1>3. BehindFirst(e, n) <= p
    <2>1. CASE n = 0
        BY <2>1 DEF BehindFirst
    <2>2. CASE n # 0
        <3>1. PICK a : a = e.attrs[n]
            OBVIOUS
        <3>2. n \in 1 .. Len(e.attrs)
            BY <1>1, <2>2
        <3>3. /\ Lies(e.text, a.at, Len(a.name), a.from, Len(a.value), a.quote) /\ a.quote \in Quotes
              /\ \A k \in a.from .. a.from + Len(a.value) - 1 :
                    \E j \in DOMAIN a.value : e.text[k] = a.value[j]
            BY <3>1, <3>2, AttributeLies
        <3>4. PICK f \in Nat, v \in Nat : f = a.from /\ v = Len(a.value)
            BY <3>3 DEF Lies
        <3>5. e.text[f - 1] # "=" /\ e.text[f + v] # "="
            BY <1>2, <3>3, <3>4 DEF Lies
        <3>6. \A k \in f .. f + v - 1 : e.text[k] # "="
            BY <3>1, <3>2, <3>3, <3>4
        <3>7. p > f - 2
            BY <2>2, <3>1, <3>2, <3>4
        <3>8. ~(p < f + v + 1)
            BY <3>5, <3>6, <3>7
        <3> QED BY <2>2, <3>1, <3>4, <3>8 DEF BehindFirst, Behind
    <2> QED BY <2>1, <2>2
<1>4. n # Len(e.attrs)
    <2> SUFFICES ASSUME n = Len(e.attrs) PROVE FALSE
        OBVIOUS
    <2>1. PICK b \in Int : b = BehindFirst(e, n)
        <3>1. n # 0 => n \in 1 .. Len(e.attrs)
            BY <1>1
        <3>2. n # 0 => e.attrs[n].from \in Nat /\ Len(e.attrs[n].value) \in Nat
            BY <3>1, AttributeLies DEF Lies
        <3> QED BY <1>1, <3>2 DEF BehindFirst, Behind
    <2>2. p \in b .. e.pe - 1
        BY <1>1, <1>3, <2>1
    <2> QED BY <2>1, <2>2, TagsAssumption
<1>5. PICK i \in 1 .. Len(e.attrs) : i = n + 1 /\ i - 1 = n
    BY <1>1, <1>4
<1>6. PICK a : a = e.attrs[i]
    OBVIOUS
<1>7. /\ Lies(e.text, a.at, Len(a.name), a.from, Len(a.value), a.quote)
      /\ \A k \in BehindFirst(e, n) .. a.at - 1 : e.text[k] \in Blanks
    BY <1>5, <1>6, AttributeLies
<1>8. PICK at \in Nat, m \in Nat, f \in Nat : at = a.at /\ m = Len(a.name) /\ f = a.from
    BY <1>7 DEF Lies
<1>9. /\ \A k \in at .. at + m - 1 : e.text[k] # "="
      /\ \A k \in at + m .. f - 3 : e.text[k] # "="
    BY <1>2, <1>7, <1>8 DEF Lies
<1>10. ~(p < at)
    <2>1. PICK b : b = BehindFirst(e, n)
        OBVIOUS
    <2>2. b \in Int
        <3>1. n # 0 => n \in 1 .. Len(e.attrs)
            BY <1>1
        <3>2. n # 0 => e.attrs[n].from \in Nat /\ Len(e.attrs[n].value) \in Nat
            BY <3>1, AttributeLies DEF Lies
        <3> QED BY <1>1, <2>1, <3>2 DEF BehindFirst, Behind
    <2>3. p < at => p \in b .. at - 1
        BY <1>3, <2>1, <2>2
    <2> QED BY <1>2, <1>7, <1>8, <2>1, <2>3
<1>11. ~(p < f - 2)
    <2>1. p < f - 2 => p \in at .. at + m - 1 \/ p \in at + m .. f - 3
        BY <1>8, <1>10
    <2> QED BY <1>9, <2>1
<1> QED BY <1>1, <1>4, <1>5, <1>6, <1>8, <1>11

LEMMA CountsOnce ==
    ASSUME CInv, InOrder, EqualsCounted, element.group = "tag"
    PROVE  ps' >= FirstAttribute' /\ (PlainValues' => CountedOnce')
<1>1. /\ InTag("count") /\ NextEquals(ps) < pe
      /\ ps' = NextEquals(ps) + 1 /\ num' = num + 1
      /\ UNCHANGED <<element, setup, call, pc, found, answer>>
    BY DEF EqualsCounted
<1>2. /\ element \in Elements /\ num \in Nat /\ pe \in Nat /\ ps \in Nat \ {0} /\ ps < pe
      /\ pe <= Len(text) /\ Len(text) \in Nat /\ DOMAIN text = 1 .. Len(text)
      /\ element.nlen \in Nat /\ pc = "count"
    BY <1>1, InTagIs, ElementIs DEF CInv
<1>3. PICK q \in Nat : q = NextEquals(ps) /\ ps <= q /\ q < pe /\ text[q] = "="
    <2>1. PICK x \in Int, last \in Int, t \in {text}, size \in Nat :
             x = ps /\ last = pe - 1 /\ size = Len(text)
        <3>1. pe - 1 \in Int /\ ps \in Int
            BY <1>2
        <3> QED BY <1>2, <3>1
    <2>2. PICK y : y = FirstOf(t, x, last, {"="})
        OBVIOUS
    <2>3. x <= last + 1 /\ y = NextEquals(ps)
        BY <1>2, <2>1, <2>2 DEF NextEquals
    <2>4. y \in x .. last + 1 /\ (y <= last => At(t, y) \in {"="})
        BY <2>2, <2>3, FirstOfIs
    <2>5. y <= last /\ y \in 1 .. size
        BY <1>1, <1>2, <2>1, <2>3, <2>4
    <2>6. At(t, y) = text[y]
        BY <1>2, <2>1, <2>5 DEF At
    <2> QED BY <1>1, <2>1, <2>3, <2>4, <2>5, <2>6
<1>4. ps >= FirstAttribute /\ (PlainValues => CountedOnce)
    BY <1>2 DEF InOrder
<1>5. element.nlen + 2 <= q
    BY <1>2, <1>3, <1>4 DEF FirstAttribute
<1>6. ps' >= FirstAttribute'
    BY <1>1, <1>2, <1>3, <1>5 DEF FirstAttribute
<1>7. ASSUME PlainValues' PROVE CountedOnce'
    <2>1. PlainValues /\ CountedOnce
        BY <1>1, <1>4, <1>7 DEF PlainValues
    <2>2. Len(element.attrs) \in Nat /\ DOMAIN element.attrs = 1 .. Len(element.attrs)
        BY <1>2, TagsAssumption, LenProperties
    <2>3. \A i \in 1 .. Len(element.attrs) :
             \A j \in DOMAIN element.attrs[i].value : element.attrs[i].value[j] # "="
        BY <2>1, <2>2 DEF PlainValues
    <2>4. num \in 0 .. Len(element.attrs) /\ (num > 0 => ps > element.attrs[num].from - 2)
        BY <1>2, <2>1, <2>2 DEF CountedOnce
    <2>5. num > 0 => q > element.attrs[num].from - 2
        <3>1. num > 0 => num \in 1 .. Len(element.attrs)
            BY <1>2, <2>2, <2>4
        <3>2. num > 0 => element.attrs[num].from \in Nat
            BY <1>2, <3>1, AttributeLies DEF Lies
        <3> QED BY <1>2, <1>3, <2>4, <3>2
    <2>6. q < element.pe /\ element.text[q] = "="
        BY <1>3 DEF pe, text
    <2>7. num < Len(element.attrs) /\ element.attrs[num + 1].from - 2 <= q
        BY <1>2, <1>5, <2>3, <2>4, <2>5, <2>6, EqualsIsNext
    <2>8. element.attrs[num + 1].from \in Nat
        <3>1. num + 1 \in 1 .. Len(element.attrs)
            BY <1>2, <2>2, <2>7
        <3> QED BY <1>2, <3>1, AttributeLies DEF Lies
    <2>9. PICK m \in Nat, f \in Nat : m = num + 1 /\ f = element.attrs[m].from
        BY <1>2, <2>8
    <2>10. m <= Len(element.attrs) /\ q + 1 > f - 2
        BY <1>2, <1>3, <2>2, <2>7, <2>9
    <2> QED BY <1>1, <1>3, <2>9, <2>10 DEF CountedOnce
<1> QED BY <1>6, <1>7

LEMMA EqualsCountedInOrder ==
    ASSUME CInv, InOrder, EqualsCounted
    PROVE  InOrder' /\ NamesInOrder'
<1>1. /\ InTag("count") /\ NextEquals(ps) < pe
      /\ ps' = NextEquals(ps) + 1 /\ num' = num + 1
      /\ UNCHANGED <<element, setup, call, pc, found, answer>>
    BY DEF EqualsCounted
<1>2. pc' = "count"
    BY <1>1 DEF InTag
<1> SUFFICES ASSUME element.group = "tag"
             PROVE  InOrder'
    BY <1>1, <1>2 DEF InOrder, NamesInOrder
<1>a. ps' >= FirstAttribute' /\ (PlainValues' => CountedOnce')
    BY <1>1, CountsOnce
<1> SUFFICES ASSUME NEW k \in num + 2 .. Len(element.attrs)
             PROVE  NextEquals(ps) + 1 <= element.attrs[k].from - 2
    <2>1. num \in Nat
        BY DEF CInv
    <2>2. num + 1 + 1 = num + 2
        BY <2>1
    <2> QED BY <1>1, <1>2, <1>a, <2>2 DEF InOrder
<1>3. /\ element \in Elements /\ num \in Nat /\ pe \in Nat /\ ps \in Nat \ {0} /\ ps < pe
    BY <1>1, InTagIs, ElementIs DEF CInv
<1>4. Len(element.attrs) \in Nat
    BY <1>3, TagsAssumption, LenProperties
<1>5. num + 1 \in num + 1 .. Len(element.attrs) /\ num + 1 \in 1 .. k - 1
      /\ k \in 1 .. Len(element.attrs) /\ num < Len(element.attrs)
    BY <1>3, <1>4
<1>6. PICK a, b : a = element.attrs[num + 1] /\ b = element.attrs[k]
    OBVIOUS
<1>7. a.from \in Nat /\ NextEquals(ps) <= a.from - 2
    BY <1>1, <1>5, <1>6, CountIs
<1>8. a.from - 2 < Behind(a) /\ Behind(a) \in Nat
    BY <1>3, <1>5, <1>6, NextAttribute
<1>9. Behind(a) <= b.at /\ Lies(element.text, b.at, Len(b.name), b.from, Len(b.value), b.quote)
    BY <1>3, <1>5, <1>6, AttributeLies
<1>10. b.at \in Nat /\ Len(b.name) \in Nat /\ b.from \in Nat /\ b.at + Len(b.name) <= b.from - 2
    BY <1>9 DEF Lies
<1>11. NextEquals(ps) \in Int
    <2>1. PICK x \in Nat : x = ps /\ x <= pe
        BY <1>3
    <2>2. NextEquals(x) \in x .. pe
        BY <1>3, <2>1, NextEqualsIs
    <2> QED BY <2>1, <2>2
<1>12. NextEquals(ps) + 1 <= b.from - 2
    <2>1. PICK x \in Int, y \in Nat, z \in Nat, w \in Nat :
             x = NextEquals(ps) /\ y = Behind(a) /\ z = b.at /\ w = a.from
        BY <1>7, <1>8, <1>10, <1>11
    <2>2. x <= w - 2 /\ w - 2 < y /\ y <= z
        BY <1>7, <1>8, <1>9, <2>1
    <2>3. z <= b.from - 2
        BY <1>10, <2>1
    <2> QED BY <1>10, <2>1, <2>2, <2>3
<1> QED BY <1>6, <1>12

LEMMA CountEndsInOrder ==
    ASSUME CInv, InOrder, CountEnds
    PROVE  InOrder' /\ NamesInOrder'
<1>1. /\ pc = "count" /\ (ps < pe => NextEquals(ps) >= pe) /\ pc' = "answered"
      /\ answer' = [answer EXCEPT !.num = num]
      /\ UNCHANGED <<element, setup, call, ps, num, found>>
    BY DEF CountEnds
<1>2. answer'.num = num
    BY <1>1 DEF CInv, Answers
<1>3. element \in Elements /\ num \in Nat /\ pe \in Nat /\ ps \in Nat
    BY ElementIs DEF CInv
<1> SUFFICES ASSUME element.group = "tag"
             PROVE  num >= Len(element.attrs) /\ (PlainValues => num = Len(element.attrs))
    BY <1>1, <1>2 DEF InOrder, NamesInOrder, PlainValues
<1>4. Len(element.attrs) \in Nat
    BY <1>3, TagsAssumption, LenProperties
<1> SUFFICES ASSUME num < Len(element.attrs) PROVE FALSE
    <2>1. PlainValues => num <= Len(element.attrs)
        BY <1>1 DEF InOrder, CountedOnce
    <2> QED BY <1>3, <1>4, <2>1
<1>5. PICK a : a = element.attrs[num + 1]
    OBVIOUS
<1>6. num + 1 \in num + 1 .. Len(element.attrs)
    BY <1>3, <1>4
<1>7. ps <= a.from - 2
    BY <1>1, <1>5, <1>6 DEF InOrder
<1>8. a.from \in Nat /\ a.from - 2 < pe
    BY <1>3, <1>5, NextAttribute
<1>9. ps < pe
    BY <1>3, <1>7, <1>8
<1>10. NextEquals(ps) <= a.from - 2
    BY <1>1, <1>5, <1>6, <1>9, CountIs DEF InTag
<1>11. NextEquals(ps) \in Int
    BY <1>3, <1>9, NextEqualsIs
<1> QED BY <1>1, <1>3, <1>8, <1>9, <1>10, <1>11

\* The steps of the other requests.
LEMMA OtherInOrder ==
    ASSUME pc' \notin {"position", "count"}, pc' = "deliver" => (call.on)' # "position",
           pc' = "answered" => (call.on)' # "count"
    PROVE  InOrder' /\ NamesInOrder'
BY DEF InOrder, NamesInOrder

LEMMA InOrderStep ==
    ASSUME CInv, InOrder, NamesInOrder, [Next]_vars
    PROVE  InOrder' /\ NamesInOrder'
<1>1. CASE UNCHANGED vars
    BY <1>1 DEF vars, InOrder, NamesInOrder, CountedOnce, PlainValues, FirstAttribute, Missing, text
<1>2. CASE WordOther \/ WordWithoutEquals
    <2>1. pc' = "attribute"
        BY <1>2 DEF WordOther, WordWithoutEquals, InTag
    <2> QED BY <2>1, OtherInOrder
<1>3. CASE NoOpeningQuote \/ NoClosingQuote \/ ValueFound \/ NoMoreWords
    <2>1. pc = "attribute" /\ pc' = "deliver" /\ call' = call
        BY <1>3 DEF NoOpeningQuote, NoClosingQuote, ValueFound, NoMoreWords, InTag, Fails, Found
    <2>2. call.on = "attribute"
        BY <2>1 DEF CInv
    <2> QED BY <2>1, <2>2, OtherInOrder
<1>4. CASE NameOther
    BY <1>4, NameOtherInOrder
<1>5. CASE NameFound
    BY <1>5, NameFoundInOrder
<1>6. CASE NoMoreNames
    BY <1>6, NoMoreNamesInOrder
<1>7. CASE EqualsCounted
    BY <1>7, EqualsCountedInOrder
<1>8. CASE CountEnds
    BY <1>8, CountEndsInOrder
<1>9. ASSUME NEW ops, NEW result, Delivers(ops, result), "count" \notin ops
      PROVE  InOrder' /\ NamesInOrder'
    <2>1. pc = "deliver" /\ call.op # "count" /\ pc' = "answered" /\ call' = call
        BY <1>9 DEF Delivers
    <2>2. element \in Elements /\ call \in Calls[element.group]
        BY <2>1 DEF CInv
    <2>3. call.on # "count"
        BY <2>1, <2>2, ContentAssumption, CallsAssumption
    <2> QED BY <2>1, <2>3, OtherInOrder
<1>10. CASE GiveExists \/ GiveString \/ NoMemory \/ GiveCopy
    BY <1>9, <1>10 DEF GiveExists, GiveString, NoMemory, GiveCopy
<1>11. CASE GiveComparison \/ GiveInt \/ GiveBool
    BY <1>9, <1>11 DEF GiveComparison, GiveInt, GiveBool
<1>12. CASE Forget
    <2>1. pc' = "idle"
        BY <1>12 DEF Forget
    <2> QED BY <2>1, OtherInOrder
<1>13. CASE \E c \in Calls[element.group] : Ask(c)
    BY <1>13, AskInOrder
<1> QED BY <1>1, <1>2, <1>3, <1>4, <1>5, <1>6, <1>7, <1>8, <1>10, <1>11, <1>12, <1>13
        DEF Next, Working

\* xmlAttributeCopyName, xmlAttributeCompareName and xmlAttributeGetNum: in every tag
\* whose attributes have nothing but blanks between them the positions 0, 1, ... are
\* those of the names, in order, and a count reaches the last.
THEOREM NamesAreInOrder == Spec => []NamesInOrder
<1>1. Init => InOrder /\ NamesInOrder
    BY DEF Init, InOrder, NamesInOrder
<1> QED BY <1>1, Invariant, InOrderStep, PTL DEF Spec

-----------------------------------------------------------------------------
(* The attributes by name. *)

\* What the text says of an attribute, symbol by symbol.
LEMMA AttributeReads ==
    ASSUME NEW e \in Elements, e.group = "tag", NEW i \in 1 .. Len(e.attrs)
    PROVE  LET a == e.attrs[i]
           IN /\ a.name \in Seq(Symbols) /\ a.value \in Seq(Symbols)
              /\ \A k \in 1 .. Len(a.name) : e.text[a.at + k - 1] = a.name[k]
              /\ \A k \in 1 .. Len(a.value) : e.text[a.from + k - 1] = a.value[k]
              /\ e.text[a.at - 1] \in Blanks
<1>1. e.attrs \in Seq([name : Seq(Symbols), value : Seq(Symbols), quote : Quotes,
                       at : Nat, from : Nat])
      /\ e.text \in Seq(Symbols) /\ Len(e.text) \in Nat
    BY TagsAssumption, ContentAssumption, LenProperties
<1>2. PICK a : a = e.attrs[i]
    OBVIOUS
<1>3. a.name \in Seq(Symbols) /\ a.value \in Seq(Symbols)
    <2>1. PICK R : R = [name : Seq(Symbols), value : Seq(Symbols), quote : Quotes,
                        at : Nat, from : Nat]
        OBVIOUS
    <2>2. a \in R
        BY <1>1, <1>2, <2>1, ElementOfSeq
    <2> QED BY <2>1, <2>2
<1>4. IsWritten(e.text, a) /\ e.text[a.at - 1] \in Blanks
    <2>1. i \in DOMAIN e.attrs
        BY <1>1, LenProperties
    <2> QED BY <1>2, <2>1, TagsAssumption
<1>5. PICK t \in Seq(Symbols), name \in Seq(Symbols), value \in Seq(Symbols), p \in Nat, f \in Nat,
           n \in Nat, v \in Nat, size \in Nat :
         /\ t = e.text /\ name = a.name /\ value = a.value /\ p = a.at /\ f = a.from
         /\ n = Len(a.name) /\ v = Len(a.value) /\ size = Len(e.text)
         /\ p # 0 /\ p + n <= size /\ f # 0 /\ f + v <= size
    <2>1. Lies(e.text, a.at, Len(a.name), a.from, Len(a.value), a.quote) /\ Behind(a) <= e.pe
        BY <1>2, AttributeLies
    <2>2. e.pe \in Nat /\ e.nlen \in Nat /\ e.pe < Len(e.text)
        BY TagsAssumption, ContentAssumption
    <2>3. PICK p \in Nat, f \in Nat, n \in Nat, v \in Nat, m \in Nat, size \in Nat :
             /\ p = a.at /\ f = a.from /\ n = Len(a.name) /\ v = Len(a.value)
             /\ m = e.pe /\ size = Len(e.text)
        BY <1>1, <2>1, <2>2 DEF Lies
    <2>4. p # 0 /\ p + n <= f - 2 /\ f + v + 1 <= m /\ m < size
        BY <2>1, <2>2, <2>3 DEF Lies, Behind
    <2>5. p + n <= size /\ f # 0 /\ f + v <= size
        BY <2>4
    <2> QED BY <1>1, <1>3, <2>3, <2>4, <2>5
<1>6. ASSUME NEW k \in 1 .. n PROVE t[p + k - 1] = name[k]
    <2>1. SubSeq(t, p, p + Len(name) - 1) = name
        BY <1>4, <1>5 DEF IsWritten
    <2>2. p \in Nat \ {0} /\ p + Len(name) - 1 <= Len(t)
        <3>1. n = Len(name) /\ size = Len(t)
            BY <1>5
        <3>2. p # 0 /\ p + n - 1 <= size
            BY <1>5
        <3> QED BY <3>1, <3>2
    <2>3. \A l \in p .. p + Len(name) - 1 : t[l] = name[l - p + 1]
        BY <2>1, <2>2, PartIs
    <2>4. p + k - 1 \in p .. p + n - 1 /\ (p + k - 1) - p + 1 = k
        OBVIOUS
    <2>5. n = Len(name)
        BY <1>5
    <2> QED BY <2>3, <2>4, <2>5
<1>7. ASSUME NEW k \in 1 .. v PROVE t[f + k - 1] = value[k]
    <2>1. SubSeq(t, f, f + Len(value) - 1) = value
        BY <1>4, <1>5 DEF IsWritten
    <2>2. f \in Nat \ {0} /\ f + Len(value) - 1 <= Len(t)
        <3>1. v = Len(value) /\ size = Len(t)
            BY <1>5
        <3>2. f # 0 /\ f + v - 1 <= size
            BY <1>5
        <3> QED BY <3>1, <3>2
    <2>3. \A l \in f .. f + Len(value) - 1 : t[l] = value[l - f + 1]
        BY <2>1, <2>2, PartIs
    <2>4. f + k - 1 \in f .. f + v - 1 /\ (f + k - 1) - f + 1 = k
        OBVIOUS
    <2>5. v = Len(value)
        BY <1>5
    <2> QED BY <2>3, <2>4, <2>5
<1>8. \A k \in 1 .. Len(a.name) : e.text[a.at + k - 1] = a.name[k]
    BY <1>5, <1>6
<1>9. \A k \in 1 .. Len(a.value) : e.text[a.from + k - 1] = a.value[k]
    BY <1>5, <1>7
<1> QED BY <1>2, <1>3, <1>4, <1>8, <1>9

\* A word of a tag is an attribute, begins with a sign that no name has, or is in a
\* value behind a blank, unless there is no "=" from it to the end of the tag.
LEMMA WordKinds ==
    ASSUME CInv, element.group = "tag", NEW w \in Nat, element.nlen + 2 <= w, w < pe,
           text[w] \notin Blanks, w = element.nlen + 2 \/ text[w - 1] \in Blanks
    PROVE  \/ \E i \in 1 .. Len(element.attrs) : w = element.attrs[i].at
           \/ text[w] \in {"="} \cup Quotes
           \/ \E i \in 1 .. Len(element.attrs) : \E j \in 1 .. Len(element.attrs[i].value) - 1 :
                 /\ w = element.attrs[i].from + j /\ element.attrs[i].value[j] \in Blanks
           \/ \A k \in w .. pe - 1 : text[k] # "="
<1>1. /\ element \in Elements /\ pe \in Nat /\ element.nlen \in Nat /\ pe = element.pe
      /\ text = element.text
    BY ElementIs DEF text, pe
<1>2. Len(element.attrs) \in Nat
    BY <1>1, TagsAssumption, LenProperties
<1>3. \A k \in BehindFirst(element, Len(element.attrs)) .. pe - 1 : text[k] # "="
    BY <1>1, TagsAssumption
<1>4. PICK S : S = {i \in 1 .. Len(element.attrs) : element.attrs[i].at <= w}
    OBVIOUS
<1>5. CASE S = {}
    <2>1. CASE Len(element.attrs) = 0
        <3>1. BehindFirst(element, Len(element.attrs)) = element.nlen + 2
            BY <2>1 DEF BehindFirst
        <3>2. \A k \in w .. pe - 1 : k \in element.nlen + 2 .. pe - 1
            BY <1>1
        <3> QED BY <1>3, <3>1, <3>2
    <2>2. CASE Len(element.attrs) # 0
        <3>1. 1 \in 1 .. Len(element.attrs) /\ BehindFirst(element, 1 - 1) = element.nlen + 2
            BY <1>2, <2>2 DEF BehindFirst
        <3>2. PICK p \in Nat : p = element.attrs[1].at
            BY <1>1, <3>1, AttributeLies DEF Lies
        <3>3. \A k \in element.nlen + 2 .. p - 1 : text[k] \in Blanks
            BY <1>1, <3>1, <3>2, AttributeLies
        <3>4. ~(p <= w)
            BY <1>4, <1>5, <3>1, <3>2
        <3>5. w \in element.nlen + 2 .. p - 1
            BY <1>1, <3>4
        <3> QED BY <3>3, <3>5
    <2> QED BY <2>1, <2>2
<1>6. CASE S # {}
    <2>1. PICK i \in S : \A k \in S : i >= k
        <3>1. S \in SUBSET Int /\ \A k \in S : k <= Len(element.attrs)
            BY <1>2, <1>4
        <3>2. PICK b \in Nat : b = Len(element.attrs)
            BY <1>2
        <3>3. PICK m : m = Max(S)
            OBVIOUS
        <3>4. b \in Int /\ \A k \in S : k <= b
            BY <3>1, <3>2
        <3>5. m \in S /\ \A k \in S : m >= k
            BY <1>6, <3>1, <3>3, <3>4, GreatestOfInts
        <3> QED BY <3>5
    <2>2. i \in 1 .. Len(element.attrs) /\ element.attrs[i].at <= w
        BY <1>4, <2>1
    <2>3. PICK a : a = element.attrs[i]
        OBVIOUS
    <2>4. /\ Lies(text, a.at, Len(a.name), a.from, Len(a.value), a.quote) /\ a.quote \in Quotes
          /\ element.nlen + 2 <= a.at
        BY <1>1, <2>2, <2>3, AttributeLies
    <2>5. PICK p \in Nat \ {0}, n \in Nat \ {0}, f \in Nat, v \in Nat, q \in Quotes, t \in {text} :
             /\ p = a.at /\ n = Len(a.name) /\ f = a.from /\ v = Len(a.value) /\ q = a.quote
             /\ p <= w /\ element.nlen + 2 <= p
        BY <2>2, <2>3, <2>4 DEF Lies
    <2>6. /\ p + n <= f - 2
          /\ \A k \in p .. p + n - 1 : t[k] \notin Blanks /\ t[k] # "="
          /\ \A k \in p + n .. f - 3 : t[k] \in Blanks
          /\ t[f - 2] = "=" /\ t[f - 1] = q /\ t[f + v] = q
        BY <2>4, <2>5 DEF Lies
    <2>7. CASE w = p
        BY <2>2, <2>3, <2>5, <2>7
    <2>8. CASE p < w /\ w <= f + v
        <3>1. t[w - 1] \in Blanks
            BY <1>1, <2>5, <2>8
        <3>2. w \notin p + 1 .. p + n
            <4> SUFFICES ASSUME w \in p + 1 .. p + n PROVE FALSE
                OBVIOUS
            <4>1. w - 1 \in p .. p + n - 1
                OBVIOUS
            <4> QED BY <2>6, <3>1, <4>1
        <3>3. w \notin p + n .. f - 3
            BY <2>5, <2>6
        <3>4. w # f - 1
            <4> SUFFICES ASSUME w = f - 1 PROVE FALSE
                OBVIOUS
            <4>1. w - 1 = f - 2
                OBVIOUS
            <4> QED BY <2>6, <3>1, <4>1 DEF Blanks
        <3>5. w # f
            <4> SUFFICES ASSUME w = f PROVE FALSE
                OBVIOUS
            <4>1. w - 1 = f - 1
                OBVIOUS
            <4> QED BY <2>5, <2>6, <3>1, <4>1 DEF Blanks, Quotes
        <3>6. w = f - 2 \/ w = f + v \/ w \in f + 1 .. f + v - 1
            BY <2>6, <2>8, <3>2, <3>3, <3>4, <3>5
        <3>7. CASE w = f - 2 \/ w = f + v
            BY <2>5, <2>6, <3>7
        <3>8. CASE w \in f + 1 .. f + v - 1
            <4>1. PICK j \in 1 .. v - 1 : w = f + j /\ w - 1 = f + j - 1
                <5>1. w - f \in 1 .. v - 1 /\ w = f + (w - f) /\ w - 1 = f + (w - f) - 1
                    BY <3>8
                <5> QED BY <5>1
            <4>2. j \in 1 .. v
                OBVIOUS
            <4>3. \A k \in 1 .. Len(a.value) : text[a.from + k - 1] = a.value[k]
                BY <1>1, <2>2, <2>3, AttributeReads
            <4>4. t[f + j - 1] = a.value[j]
                BY <2>5, <4>2, <4>3
            <4>5. a.value[j] \in Blanks
                BY <3>1, <4>1, <4>4
            <4> QED BY <2>2, <2>3, <2>5, <4>1, <4>5
        <3> QED BY <3>6, <3>7, <3>8
    <2>9. CASE f + v + 1 <= w
        <3>1. Behind(a) = f + v + 1 /\ i # 0
            BY <2>2, <2>5 DEF Behind
        <3>2. BehindFirst(element, i) = f + v + 1
            BY <2>3, <3>1 DEF BehindFirst
        <3>3. CASE i = Len(element.attrs)
            <4>1. \A k \in w .. pe - 1 : k \in f + v + 1 .. pe - 1
                BY <1>1, <2>9
            <4> QED BY <1>3, <3>2, <3>3, <4>1
        <3>4. CASE i # Len(element.attrs)
            <4>1. i + 1 \in 1 .. Len(element.attrs) /\ (i + 1) - 1 = i /\ ~(i >= i + 1)
                BY <1>2, <2>2, <3>4
            <4>2. PICK o \in Nat : o = element.attrs[i + 1].at
                BY <1>1, <4>1, AttributeLies DEF Lies
            <4>3. \A k \in f + v + 1 .. o - 1 : text[k] \in Blanks
                BY <1>1, <3>2, <4>1, <4>2, AttributeLies
            <4>4. ~(o <= w)
                BY <1>4, <2>1, <4>1, <4>2
            <4>5. w \in f + v + 1 .. o - 1
                BY <2>9, <4>4
            <4> QED BY <4>3, <4>5
        <3> QED BY <3>3, <3>4
    <2> QED BY <2>5, <2>7, <2>8, <2>9
<1> QED BY <1>5, <1>6

\* A symbol of the name that is not the one in the text.
Differs(name, t, w, rest) ==
    \E k \in 1 .. Len(name) : k <= rest /\ name[k] # t[w + k - 1]

\* The comparison tells a word from one that differs, and finds one that does not.
LEMMA OtherStart ==
    ASSUME NEW word, NEW t, NEW from \in Nat, NEW len \in Nat, NEW cd, Len(word) \in Nat,
           Differs(word, t, from, len)
    PROVE  SameStart(word, t, from, len, cd) = {FALSE}
<1>1. PICK n : n = IF Len(word) < len THEN Len(word) ELSE len
    OBVIOUS
<1>2. PICK i \in 1 .. Len(word) : i <= len /\ word[i] # t[from + i - 1]
    BY DEF Differs
<1>3. i \in 1 .. n
    BY <1>1, <1>2
<1>4. \E k \in 1 .. n : word[k] # t[from + k - 1]
    BY <1>2, <1>3
<1> QED BY <1>1, <1>4 DEF SameStart

\* The word is in the text, and what follows it can be converted.
Spelled(word, t, size, from, len) ==
    /\ IsTextOf(t, size) /\ from + len - 1 <= size
    /\ word # <<>> /\ Len(word) \in Nat /\ Len(word) <= len
    /\ \A i \in 1 .. Len(word) : word[i] = t[from + i - 1]
    /\ \A i \in 1 .. size : Units[t[i]] \in Nat /\ Units[t[i]] > 0
    /\ Sum(t, 1, size, Units) <= BUFSIZE

LEMMA EqualStart ==
    ASSUME NEW word, NEW t, NEW size \in Nat, NEW from \in Nat \ {0}, NEW len \in Nat \ {0},
           Spelled(word, t, size, from, len), Comparable
    PROVE  SameStart(word, t, from, len, setup.cd) = {TRUE}
<1> SUFFICES ASSUME IsTextOf(t, size), from + len - 1 <= size, word # <<>>,
                    Len(word) \in Nat, Len(word) <= len,
                    \A i \in 1 .. Len(word) : word[i] = t[from + i - 1],
                    \A i \in 1 .. size : Units[t[i]] \in Nat /\ Units[t[i]] > 0,
                    Sum(t, 1, size, Units) <= BUFSIZE
             PROVE  SameStart(word, t, from, len, setup.cd) = {TRUE}
    BY DEF Spelled
<1>0. setup.cd
    BY DEF Comparable
<1>1. PICK n : n = IF Len(word) < len THEN Len(word) ELSE len
    OBVIOUS
<1>2. n = Len(word)
    BY <1>1
<1>3. ~\E i \in 1 .. n : word[i] # t[from + i - 1]
    BY <1>2
<1>4. PICK last \in Int : last = from + len - 1 /\ last <= size /\ from <= last + 1
    <2>1. from + len - 1 \in Int
        OBVIOUS
    <2> QED BY <2>1
<1>5. ~\E i \in from .. from + len - 1 : At(t, i) \notin Symbols \/ Units[t[i]] = 0
    <2> SUFFICES ASSUME NEW i \in from .. from + len - 1 PROVE At(t, i) \in Symbols /\ Units[t[i]] # 0
        OBVIOUS
    <2>1. i \in 1 .. size
        OBVIOUS
    <2> QED BY <2>1 DEF IsTextOf, At
<1>6. ~(Sum(t, from, from + len - 1, Units) > BUFSIZE)
    <2>1. \A k \in 1 .. size : Units[t[k]] \in Nat
        OBVIOUS
    <2>2. Sum(t, from, last, Units) <= Sum(t, 1, size, Units)
        <3>1. /\ 1 \in Int /\ from \in Int /\ last \in Int /\ size \in Int
              /\ 1 <= from /\ from <= last + 1 /\ last <= size
            BY <1>4
        <3> QED BY <2>1, <3>1, SumWithin
    <2>3. Sum(t, from, last, Units) \in Nat
        <3>1. \A k \in from .. last : Units[t[k]] \in Nat
            BY <1>4
        <3>2. from \in Int /\ last \in Int /\ from <= last + 1
            BY <1>4
        <3> QED BY <3>1, <3>2, SumIs
    <2>4. Sum(t, 1, size, Units) \in Nat
        BY <2>1, SumIs
    <2> QED BY <1>4, <2>2, <2>3, <2>4, ValuesAssumption
<1>7. ~(len <= 0) /\ ~(len < Len(word))
    OBVIOUS
<1> QED BY <1>0, <1>1, <1>3, <1>5, <1>6, <1>7 DEF SameStart

LEMMA HasNameIs ==
    ASSUME NEW name \in Seq(Symbols), NEW a, a.name \in Seq(Symbols)
    PROVE  HasName(name, a) <=> /\ Len(name) <= Len(a.name)
                                /\ \A k \in 1 .. Len(name) : name[k] = a.name[k]
<1>1. PICK s \in Seq(Symbols), n \in Nat, m \in Nat : s = a.name /\ n = Len(name) /\ m = Len(s)
    BY LenProperties
<1>2. \A k \in 1 .. m : s[k] \in Symbols
    BY <1>1, ElementOfSeq
<1>3. CASE n <= m
    <2>1. \A k \in 1 .. n : s[k] \in Symbols
        BY <1>2, <1>3
    <2>2. SubSeq(s, 1, n) \in Seq(Symbols) /\ Len(SubSeq(s, 1, n)) = n
          /\ \A k \in 1 .. n : SubSeq(s, 1, n)[k] = s[k]
        <3>1. /\ SubSeq(s, 1, n) \in Seq(Symbols)
              /\ Len(SubSeq(s, 1, n)) = IF 1 <= n THEN n - 1 + 1 ELSE 0
              /\ \A k \in 1 .. n - 1 + 1 : SubSeq(s, 1, n)[k] = s[1 + k - 1]
            BY <2>1, SubSeqProperties
        <3>2. n - 1 + 1 = n /\ (~(1 <= n) => n = 0) /\ \A k \in 1 .. n : 1 + k - 1 = k
            OBVIOUS
        <3> QED BY <3>1, <3>2
    <2>3. SubSeq(s, 1, n) = name <=> \A k \in 1 .. n : name[k] = s[k]
        <3>1. ASSUME \A k \in 1 .. n : name[k] = s[k] PROVE SubSeq(s, 1, n) = name
            <4>1. PICK u \in Seq(Symbols) : u = SubSeq(s, 1, n)
                BY <2>2
            <4>2. Len(u) = Len(name) /\ \A k \in 1 .. Len(u) : u[k] = name[k]
                BY <1>1, <2>2, <3>1, <4>1
            <4>3. u = name
                BY <4>2, SeqEqual
            <4> QED BY <4>1, <4>3
        <3>2. ASSUME SubSeq(s, 1, n) = name PROVE \A k \in 1 .. n : name[k] = s[k]
            BY <2>2, <3>2
        <3> QED BY <3>1, <3>2
    <2> QED BY <1>1, <1>3, <2>3 DEF HasName
<1>4. CASE ~(n <= m)
    BY <1>1, <1>4 DEF HasName
<1> QED BY <1>3, <1>4

-----------------------------------------------------------------------------
(* The search by name. *)

\* What the searches for a word find.
LEMMA WordIs ==
    ASSUME NEW t, NEW size \in Nat, IsTextOf(t, size),
           NEW from \in Nat \ {0}, NEW to \in Nat, from <= to, to <= size
    PROVE  LET w == SkipBlanks(t, from, to)
               n == SkipWord(t, w, to)
           IN /\ w \in from .. to /\ \A k \in from .. w - 1 : t[k] \in Blanks
              /\ w < to => t[w] \notin Blanks
              /\ n \in w .. to /\ \A k \in w .. n - 1 : t[k] \notin Blanks
              /\ n < to => t[n] \in Blanks
<1> SUFFICES ASSUME NEW w, w = SkipBlanks(t, from, to), NEW n, n = SkipWord(t, w, to)
             PROVE  /\ w \in from .. to /\ \A k \in from .. w - 1 : t[k] \in Blanks
                    /\ w < to => t[w] \notin Blanks
                    /\ n \in w .. to /\ \A k \in w .. n - 1 : t[k] \notin Blanks
                    /\ n < to => t[n] \in Blanks
    OBVIOUS
<1>1. \A k \in 1 .. to : At(t, k) = t[k] /\ t[k] \in Symbols
    BY DEF IsTextOf, At
<1>2. PICK last \in Int : last = to - 1
    OBVIOUS
<1>3. /\ w \in from .. to /\ \A k \in from .. w - 1 : t[k] \in Blanks
      /\ w < to => t[w] \notin Blanks
    <2>1. CASE from < to
        <3>1. PICK k : k = FirstOf(t, from, last, Signs)
            OBVIOUS
        <3>2. from \in Int /\ from <= last + 1
            BY <1>2, <2>1
        <3>3. /\ k \in from .. last + 1 /\ (k <= last => At(t, k) \in Signs)
              /\ \A l \in from .. k - 1 : At(t, l) \notin Signs
            BY <3>1, <3>2, FirstOfIs
        <3>4. w = k
            BY <1>2, <2>1, <3>1 DEF SkipBlanks
        <3>5. ASSUME NEW l \in from .. w - 1 PROVE t[l] \in Blanks
            <4>1. l \in 1 .. to /\ l \in from .. k - 1
                BY <1>2, <3>3, <3>4
            <4> QED BY <1>1, <3>3, <4>1 DEF Signs
        <3>6. ASSUME w < to PROVE t[w] \notin Blanks
            <4>1. k <= last /\ k \in 1 .. to
                BY <1>2, <3>3, <3>4, <3>6
            <4> QED BY <1>1, <3>3, <3>4, <4>1 DEF Signs
        <3> QED BY <1>2, <3>3, <3>4, <3>5, <3>6
    <2>2. CASE ~(from < to)
        <3>1. w = from /\ from = to
            BY <2>2 DEF SkipBlanks
        <3> QED BY <3>1
    <2> QED BY <2>1, <2>2
<1>4. /\ n \in w .. to /\ \A k \in w .. n - 1 : t[k] \notin Blanks
      /\ n < to => t[n] \in Blanks
    <2>1. CASE w < to
        <3>1. PICK k : k = FirstOf(t, w, last, Blanks)
            OBVIOUS
        <3>2. w \in Int /\ w <= last + 1
            BY <1>2, <1>3, <2>1
        <3>3. /\ k \in w .. last + 1 /\ (k <= last => At(t, k) \in Blanks)
              /\ \A l \in w .. k - 1 : At(t, l) \notin Blanks
            BY <3>1, <3>2, FirstOfIs
        <3>4. n = k
            BY <1>2, <2>1, <3>1 DEF SkipWord
        <3>5. ASSUME NEW l \in w .. n - 1 PROVE t[l] \notin Blanks
            <4>1. l \in 1 .. to /\ l \in w .. k - 1
                BY <1>2, <1>3, <3>3, <3>4
            <4> QED BY <1>1, <3>3, <4>1
        <3>6. ASSUME n < to PROVE t[n] \in Blanks
            <4>1. k <= last /\ k \in 1 .. to
                BY <1>2, <1>3, <3>3, <3>4, <3>6
            <4> QED BY <1>1, <3>3, <3>4, <4>1
        <3> QED BY <1>2, <1>3, <3>3, <3>4, <3>5, <3>6
    <2>2. CASE ~(w < to)
        <3>1. n = w /\ w = to
            BY <1>3, <2>2 DEF SkipWord
        <3> QED BY <3>1
    <2> QED BY <2>1, <2>2
<1> QED BY <1>3, <1>4

\* The search stands before a word of the tag, and has passed no attribute that has
\* the name.
Searching ==
    pc = "attribute" /\ Answerable =>
        /\ element.nlen + 2 <= ps
        /\ ps = element.nlen + 2 \/ ps >= pe \/ text[ps] \in Blanks
        /\ \A i \in 1 .. Len(element.attrs) :
              element.attrs[i].at < ps => ~HasName(call.name, element.attrs[i])

\* The word it stands before, and the characters that are searched for the "=".
LEMMA NextIsWord ==
    ASSUME CInv, Searching, InTag("attribute"), Answerable
    PROVE  /\ Word \in ps .. pe /\ element.nlen + 2 <= Word
           /\ \A k \in ps .. Word - 1 : text[k] \in Blanks
           /\ Word < pe => /\ text[Word] \notin Blanks
                           /\ Word = element.nlen + 2 \/ text[Word - 1] \in Blanks
           /\ NextWord \in Word .. pe
           /\ \A k \in Word .. NextWord - 1 : text[k] \notin Blanks
           /\ NextWord < pe => text[NextWord] \in Blanks
           /\ pe <= Word + Rest /\ Word + Rest <= Len(text)
           /\ \A k \in pe .. Word + Rest : text[k] # "="
<1>1. /\ Len(text) \in Nat /\ pe \in Nat /\ pe < Len(text) /\ pc = "attribute"
      /\ ps \in Nat \ {0} /\ ps < pe /\ Word \in ps .. pe
    BY InTagIs
<1>2. element.nlen \in Nat /\ IsTextOf(text, Len(text))
    BY ElementIs DEF IsTextOf
<1>3. PICK t \in {text}, size \in Nat, from \in Nat \ {0}, to \in Nat, w \in Nat, n \in {NextWord} :
         t = text /\ size = Len(text) /\ from = ps /\ to = pe /\ w = Word
    BY <1>1
<1>4. w = SkipBlanks(t, from, to) /\ n = SkipWord(t, w, to)
    BY <1>3 DEF Word, NextWord
<1>5. /\ w \in from .. to /\ \A k \in from .. w - 1 : t[k] \in Blanks
      /\ w < to => t[w] \notin Blanks
      /\ n \in w .. to /\ \A k \in w .. n - 1 : t[k] \notin Blanks
      /\ n < to => t[n] \in Blanks
    <2>1. IsTextOf(t, size) /\ from <= to /\ to <= size
        BY <1>1, <1>2, <1>3
    <2> QED BY <1>4, <2>1, WordIs
<1>6. element.nlen + 2 <= from
      /\ (from = element.nlen + 2 \/ from >= to \/ t[from] \in Blanks)
    BY <1>1, <1>3 DEF Searching
<1>7. ASSUME w < to PROVE w = element.nlen + 2 \/ t[w - 1] \in Blanks
    <2>1. CASE w = from
        BY <1>5, <1>6, <1>7, <2>1
    <2>2. CASE w # from
        <3>1. w - 1 \in from .. w - 1
            BY <1>5, <2>2
        <3> QED BY <1>5, <3>1
    <2> QED BY <2>1, <2>2
<1>8. PICK m \in Nat : m = w - from /\ to + m = Word + Rest
    <2>1. w - from \in Nat /\ to + (w - from) = w + (to - from)
        BY <1>5
    <2> QED BY <1>3, <2>1 DEF Rest
<1>9. to + m <= size /\ \A k \in to .. to + m : t[k] # "="
    <2>1. \A i \in 1 .. to : \A j \in 0 .. to - i :
             (\A k \in i .. i + j - 1 : t[k] \in Blanks) =>
                to + j <= size /\ \A k \in to .. to + j : t[k] # "="
        BY <1>3 DEF Answerable, PlainContent
    <2>2. from \in 1 .. to /\ m \in 0 .. to - from /\ from + m - 1 = w - 1
        BY <1>1, <1>3, <1>5, <1>8
    <2>3. \A k \in from .. from + m - 1 : t[k] \in Blanks
        BY <1>5, <2>2
    <2> QED BY <2>1, <2>2, <2>3
<1>10. element.nlen + 2 <= w /\ to <= to + m
    BY <1>2, <1>5, <1>6
<1> QED BY <1>3, <1>5, <1>7, <1>8, <1>9, <1>10

\* An attribute that is passed is the word.
LEMMA PassedIsWord ==
    ASSUME CInv, Searching, InTag("attribute"), Answerable, NEW i \in 1 .. Len(element.attrs),
           element.attrs[i].at < NextWord
    PROVE  element.attrs[i].at < ps \/ element.attrs[i].at = Word
<1>1. element \in Elements /\ text = element.text /\ element.group = "tag" /\ element.nlen \in Nat
    BY ElementIs DEF text, Answerable
<1>2. PICK a \in {element.attrs[i]} : a = element.attrs[i]
    OBVIOUS
<1>3. Lies(text, a.at, Len(a.name), a.from, Len(a.value), a.quote) /\ element.nlen + 2 <= a.at
    BY <1>1, <1>2, AttributeLies
<1>4. PICK p \in Nat \ {0} : p = a.at /\ text[p] \notin Blanks
    <2>1. /\ a.at \in Nat \ {0} /\ Len(a.name) \in Nat \ {0}
          /\ \A k \in a.at .. a.at + Len(a.name) - 1 : text[k] \notin Blanks
        BY <1>3 DEF Lies
    <2>2. a.at \in a.at .. a.at + Len(a.name) - 1
        BY <2>1
    <2> QED BY <2>1, <2>2
<1>5. text[p - 1] \in Blanks
    BY <1>1, <1>2, <1>4, AttributeReads
<1>6. /\ ps \in Nat /\ pe \in Nat /\ Word \in ps .. pe /\ NextWord \in Word .. pe
      /\ \A k \in ps .. Word - 1 : text[k] \in Blanks
      /\ \A k \in Word .. NextWord - 1 : text[k] \notin Blanks
    BY InTagIs, NextIsWord
<1>7. PICK from \in Nat, w \in Nat, n \in Nat, t \in {text} : from = ps /\ w = Word
                                                      /\ n = NextWord
    BY <1>6
<1>8. p < n
    BY <1>2, <1>4, <1>7
<1>9. p \notin from .. w - 1 /\ p - 1 \notin w .. n - 1
    BY <1>4, <1>5, <1>6, <1>7
<1>10. p < from \/ p = w
    BY <1>8, <1>9
<1> QED BY <1>2, <1>4, <1>7, <1>10

\* A request for an attribute.
LEMMA NameAsked ==
    ASSUME CInv, pc # "idle", call.on = "attribute"
    PROVE  call.name \in Seq(Symbols) /\ Len(call.name) \in Nat
<1>1. element \in Elements /\ call \in Calls[element.group]
    BY DEF CInv
<1>2. element.group \in DOMAIN Calls
    BY <1>1, ContentAssumption
<1>3. call.name \in Seq(Symbols)
    BY <1>1, <1>2, CallsAssumption
<1> QED BY <1>3, LenProperties

\* The symbols of a name that is asked for, and what the whole text is worth.
LEMMA AnswerableIs ==
    ASSUME CInv, pc # "idle", call.on = "attribute", Answerable
    PROVE  /\ element.group = "tag" /\ call.name # <<>> /\ 1 <= Len(call.name)
           /\ \A k \in 1 .. Len(call.name) : call.name[k] \notin Blanks \cup Quotes \cup {"="}
           /\ Sum(text, 1, Len(text), Units) <= BUFSIZE
           /\ \A i \in 1 .. Len(text) : Units[text[i]] \in Nat /\ Units[text[i]] > 0
<1>1. call.name \in Seq(Symbols) /\ Len(call.name) \in Nat /\ DOMAIN call.name = 1 .. Len(call.name)
    BY NameAsked, LenProperties
<1>2. IsName(call.name) /\ Comparable /\ element.group = "tag"
    BY DEF Answerable
<1>3. call.name # <<>> /\ Len(call.name) # 0
    BY <1>1, <1>2, EmptySeq DEF IsName
<1>4. \A i \in 1 .. Len(text) : Units[text[i]] \in Nat /\ Units[text[i]] > 0
    <2>1. DOMAIN text = 1 .. Len(text) /\ \A i \in 1 .. Len(text) : text[i] \in Symbols
        BY ElementIs
    <2>2. \A s \in Symbols : Units[s] \in Nat
        BY ValuesAssumption
    <2> QED BY <1>2, <2>1, <2>2 DEF Comparable
<1> QED BY <1>1, <1>2, <1>3, <1>4 DEF IsName, Comparable

\* Before an attribute: its name decides, and its value is what follows.
LEMMA AtAttribute ==
    ASSUME CInv, Searching, InTag("attribute"), Answerable,
           NEW i \in 1 .. Len(element.attrs), element.attrs[i].at = Word
    PROVE  LET a == element.attrs[i]
           IN /\ IF HasName(call.name, a) THEN IsNamed = {TRUE} ELSE IsNamed = {FALSE}
              /\ HasEquals
              /\ Quote = a.quote /\ Quote \in Quotes
              /\ Start = a.from /\ Close = a.from + Len(a.value)
              /\ At(text, Close) = Quote /\ Close < pe
<1>1. /\ Len(text) \in Nat /\ pe \in Nat /\ pe < Len(text) /\ pc = "attribute"
      /\ call.on = "attribute" /\ ps \in Nat \ {0} /\ ps < pe
    BY InTagIs
<1>2. /\ Word \in ps .. pe /\ \A k \in ps .. Word - 1 : text[k] \in Blanks
      /\ pe <= Word + Rest /\ Word + Rest <= Len(text)
      /\ \A k \in pe .. Word + Rest : text[k] # "="
    BY NextIsWord
<1>3. /\ element \in Elements /\ text = element.text /\ element.group = "tag" /\ pe = element.pe
      /\ IsTextOf(text, Len(text))
    BY ElementIs DEF text, pe, Answerable, IsTextOf
<1>4. PICK a \in {element.attrs[i]} : a = element.attrs[i]
    OBVIOUS
<1>5. /\ Lies(text, a.at, Len(a.name), a.from, Len(a.value), a.quote)
      /\ a.quote \in Quotes /\ Behind(a) <= pe
    BY <1>3, <1>4, AttributeLies
<1>6. a.name \in Seq(Symbols) /\ \A k \in 1 .. Len(a.name) : text[a.at + k - 1] = a.name[k]
    BY <1>3, <1>4, AttributeReads
<1>7. PICK t \in {text}, size \in Nat, p \in Nat \ {0}, n \in Nat \ {0}, f \in Nat, v \in Nat,
           q \in {a.quote}, end \in Nat, behind \in Nat, rest \in Nat \ {0} :
         /\ t = text /\ size = Len(text) /\ p = a.at /\ n = Len(a.name) /\ f = a.from /\ v = Len(a.value)
         /\ end = pe /\ behind = Word + Rest /\ rest = Rest
    <2>1. a.at \in Nat \ {0} /\ Len(a.name) \in Nat \ {0} /\ a.from \in Nat /\ Len(a.value) \in Nat
        BY <1>5 DEF Lies
    <2>2. Rest \in Nat \ {0} /\ Word + Rest \in Nat
        BY <1>1, <1>2 DEF Rest
    <2> QED BY <1>1, <2>1, <2>2
<1>8. /\ p = Word /\ Lies(t, p, n, f, v, q) /\ IsTextOf(t, size)
      /\ p + n <= f - 2 /\ f + v < end /\ end <= behind /\ behind <= size
      /\ n <= rest /\ behind = p + rest /\ end - p <= rest
    <2>1. p = Word /\ Lies(t, p, n, f, v, q) /\ IsTextOf(t, size)
        BY <1>3, <1>4, <1>5, <1>7
    <2>2. p + n <= f - 2
        BY <2>1 DEF Lies
    <2>3. f + v < end
        BY <1>5, <1>7 DEF Behind
    <2>4. end <= behind /\ behind <= size /\ behind = p + rest
        BY <1>1, <1>2, <1>7, <2>1
    <2>5. end - p <= rest /\ n <= rest
        BY <2>2, <2>3, <2>4
    <2> QED BY <2>1, <2>2, <2>3, <2>4, <2>5
<1>9. Finds(t, p, behind, p, n, f, v, q) /\ Finds(t, p, end, p, n, f, v, q)
    <2>1. Before(t, size, p, behind, p, n, f, v, q) /\ Before(t, size, p, end, p, n, f, v, q)
        <3>1. f + v < behind /\ end <= size /\ p <= p /\ \A k \in p .. p - 1 : t[k] \in Blanks
            BY <1>8
        <3> QED BY <1>8, <3>1 DEF Before
    <2> QED BY <2>1, SearchesFind
<1>10. Equals = f - 2
    <2>1. At(t, behind) # "="
        <3>1. behind \in pe .. Word + Rest /\ behind \in 1 .. size
            BY <1>1, <1>2, <1>7, <1>8
        <3> QED BY <1>2, <1>7, <1>8, <3>1 DEF At, IsTextOf
    <2>2. FirstOf(t, p, behind - 1, {"="}) = f - 2
        BY <1>9 DEF Finds
    <2> QED BY <1>7, <1>8, <2>1, <2>2 DEF Equals
<1>11. HasEquals
    <2>1. t[f - 2] = "=" /\ f - 2 \in 1 .. size
        BY <1>8 DEF Lies
    <2> QED BY <1>7, <1>8, <1>10, <2>1 DEF HasEquals, At, IsTextOf
<1>12. Quote = q
    <2>1. t[f - 1] = q /\ f - 1 \in 1 .. size /\ Equals + 1 = f - 1
        BY <1>8, <1>10 DEF Lies
    <2> QED BY <1>7, <1>8, <2>1 DEF Quote, At, IsTextOf
<1>13. Start = f
    BY <1>10 DEF Start
<1>14. Close = f + v
    <2>1. FirstOf(t, f, end - 1, {q}) = f + v
        BY <1>9 DEF Finds
    <2>2. f < end
        BY <1>8
    <2> QED BY <1>7, <1>12, <1>13, <2>1, <2>2 DEF Close
<1>15. At(text, Close) = Quote
    <2>1. t[f + v] = q /\ f + v \in 1 .. size
        BY <1>8 DEF Lies
    <2> QED BY <1>7, <1>8, <1>12, <1>14, <2>1 DEF At, IsTextOf
<1>16. PICK name \in {call.name}, l \in Nat \ {0} :
          /\ name = call.name /\ l = Len(name) /\ name \in Seq(Symbols)
          /\ name # <<>> /\ \A k \in 1 .. l : name[k] \notin Blanks \cup Quotes \cup {"="}
    BY <1>1, NameAsked, AnswerableIs
<1>17. HasName(name, a) <=> l <= n /\ \A k \in 1 .. l : name[k] = a.name[k]
    BY <1>6, <1>7, <1>16, HasNameIs
<1>18. IsNamed = SameStart(name, t, p, rest, setup.cd)
    BY <1>7, <1>8, <1>16 DEF IsNamed
<1>19. ASSUME HasName(name, a) PROVE IsNamed = {TRUE} /\ HasName(call.name, a)
    <2>1. l <= rest
        BY <1>8, <1>17, <1>19
    <2>2. ASSUME NEW k \in 1 .. l PROVE name[k] = t[p + k - 1]
        <3>1. k \in 1 .. n /\ name[k] = a.name[k]
            BY <1>17, <1>19
        <3> QED BY <1>6, <1>7, <3>1
    <2>3. /\ \A k \in 1 .. size : Units[t[k]] \in Nat /\ Units[t[k]] > 0
          /\ Sum(t, 1, size, Units) <= BUFSIZE
        BY <1>1, <1>7, AnswerableIs
    <2>4. p + rest - 1 <= size /\ IsTextOf(t, size)
        BY <1>8
    <2>5. /\ Len(name) \in Nat /\ Len(name) <= rest
          /\ \A k \in 1 .. Len(name) : name[k] = t[p + k - 1]
        BY <1>16, <2>1, <2>2
    <2>6. Spelled(name, t, size, p, rest)
        BY <1>16, <2>3, <2>4, <2>5 DEF Spelled
    <2>7. SameStart(name, t, p, rest, setup.cd) = {TRUE}
        BY <2>6, EqualStart DEF Answerable
    <2> QED BY <1>16, <1>18, <1>19, <2>7
<1>20. ASSUME ~HasName(name, a) PROVE IsNamed = {FALSE} /\ ~HasName(call.name, a)
    <2>1. Differs(name, t, p, rest)
        <3>1. CASE \E k \in 1 .. l : k <= n /\ name[k] # a.name[k]
            <4>1. PICK k \in 1 .. l : k <= n /\ name[k] # a.name[k]
                BY <3>1
            <4>2. t[p + k - 1] = a.name[k] /\ k <= rest
                BY <1>6, <1>7, <1>8, <4>1
            <4> QED BY <1>16, <4>1, <4>2 DEF Differs
        <3>2. CASE ~\E k \in 1 .. l : k <= n /\ name[k] # a.name[k]
            <4>1. n + 1 \in 1 .. l
                BY <1>17, <1>20, <3>2
            <4>2. t[p + n] \in Blanks \/ t[p + n] = "="
                <5>1. p + n <= f - 2
                    BY <1>8
                <5>2. p + n = f - 2 \/ p + n \in p + n .. f - 3
                    BY <5>1
                <5> QED BY <1>8, <5>2 DEF Lies
            <4>3. name[n + 1] # t[p + n] /\ p + (n + 1) - 1 = p + n
                BY <1>16, <4>1, <4>2
            <4>4. n + 1 <= rest
                BY <1>8
            <4> QED BY <1>16, <4>1, <4>3, <4>4 DEF Differs
        <3> QED BY <3>1, <3>2
    <2>2. SameStart(name, t, p, rest, setup.cd) = {FALSE}
        BY <1>16, <2>1, OtherStart
    <2> QED BY <1>16, <1>18, <1>20, <2>2
<1>21. Quote \in Quotes /\ Close < pe
    BY <1>5, <1>7, <1>8, <1>12, <1>14
<1>22. IF HasName(call.name, a) THEN IsNamed = {TRUE} ELSE IsNamed = {FALSE}
    BY <1>16, <1>19, <1>20
<1> QED BY <1>4, <1>7, <1>11, <1>12, <1>13, <1>14, <1>15, <1>21, <1>22

\* A value does not go on with the name behind a blank.
LEMMA ValueDiffers ==
    ASSUME NEW t, NEW name \in Seq(Symbols), NEW value \in Seq(Symbols), NEW q \in Quotes,
           NEW f \in Nat, NEW w \in Nat, NEW rest \in Nat, NEW j \in 1 .. Len(value) - 1, w = f + j,
           f + Len(value) < w + rest, 1 <= Len(name),
           \A k \in 1 .. Len(name) : name[k] \notin Quotes,
           \A k \in 1 .. Len(value) : t[f + k - 1] = value[k],
           t[f + Len(value)] = q,
           ~\E k \in j + 1 .. Len(value) : SubSeq(value, j + 1, k) = name
    PROVE  Differs(name, t, w, rest)
<1>1. PICK l \in Nat, v \in Nat : l = Len(name) /\ v = Len(value) /\ 1 <= l
    BY LenProperties
<1>2. CASE j + l <= v
    <2>1. PICK last \in Int : last = j + l
        BY <1>1
    <2>2. last \in j + 1 .. v /\ j \in 1 .. v - 1 /\ (j + 1) \in 1 .. v + 1 /\ last - (j + 1) + 1 = l
        BY <1>1, <1>2, <2>1
    <2>3. PICK first \in Int : first = j + 1
        OBVIOUS
    <2>4. \A k \in first .. last : value[k] \in Symbols
        <3>1. \A k \in 1 .. v : value[k] \in Symbols
            BY <1>1, ElementOfSeq
        <3>2. \A k \in first .. last : k \in 1 .. v
            BY <2>2, <2>3
        <3> QED BY <3>1, <3>2
    <2>5. /\ SubSeq(value, first, last) \in Seq(Symbols)
          /\ Len(SubSeq(value, first, last)) = l
          /\ \A k \in 1 .. l : SubSeq(value, first, last)[k] = value[first + k - 1]
        <3>1. /\ SubSeq(value, first, last) \in Seq(Symbols)
              /\ Len(SubSeq(value, first, last)) = IF first <= last THEN last - first + 1 ELSE 0
              /\ \A k \in 1 .. last - first + 1 :
                    SubSeq(value, first, last)[k] = value[first + k - 1]
            BY <2>4, SubSeqProperties
        <3>2. first <= last /\ last - first + 1 = l
            BY <2>2, <2>3
        <3> QED BY <3>1, <3>2
    <2>6. SubSeq(value, first, last) # name
        BY <1>1, <2>2, <2>3
    <2>7. PICK u \in Seq(Symbols) : u = SubSeq(value, first, last)
        BY <2>5
    <2>8. PICK k \in 1 .. l : name[k] # value[first + k - 1]
        <3>1. Len(u) = Len(name) /\ u # name
            BY <1>1, <2>5, <2>6, <2>7
        <3>2. ~\A k \in 1 .. Len(u) : u[k] = name[k]
            BY <3>1, SeqEqual
        <3> QED BY <1>1, <2>5, <2>7, <3>1, <3>2
    <2>9. k <= rest /\ j + k \in 1 .. v /\ first + k - 1 = j + k /\ w + k - 1 = f + (j + k) - 1
        BY <1>1, <1>2, <2>3
    <2>10. t[w + k - 1] = value[j + k]
        BY <1>1, <2>9
    <2> QED BY <1>1, <2>8, <2>9, <2>10 DEF Differs
<1>3. CASE ~(j + l <= v)
    <2>1. PICK k \in 1 .. l : k = v - j + 1
        <3>1. v - j + 1 \in 1 .. l
            BY <1>1, <1>3
        <3> QED BY <3>1
    <2>2. k <= rest /\ w + k - 1 = f + v
        BY <1>1, <2>1
    <2> QED BY <1>1, <2>1, <2>2 DEF Differs
<1> QED BY <1>2, <1>3

\* Before no attribute: the word is another one, or there is no "=" behind it.
LEMMA AtNoAttribute ==
    ASSUME CInv, Searching, InTag("attribute"), Answerable,
           \A i \in 1 .. Len(element.attrs) : element.attrs[i].at # Word
    PROVE  ~(TRUE \in IsNamed /\ HasEquals)
<1> SUFFICES ASSUME TRUE \in IsNamed, HasEquals PROVE FALSE
    OBVIOUS
<1>1. /\ Len(text) \in Nat /\ pe \in Nat /\ pe < Len(text) /\ pc = "attribute"
      /\ call.on = "attribute" /\ ps \in Nat \ {0} /\ ps < pe /\ Rest \in Nat \ {0}
    BY InTagIs
<1>2. /\ Word \in ps .. pe /\ element.nlen + 2 <= Word
      /\ Word < pe => /\ text[Word] \notin Blanks
                      /\ Word = element.nlen + 2 \/ text[Word - 1] \in Blanks
      /\ pe <= Word + Rest /\ Word + Rest <= Len(text)
      /\ \A k \in pe .. Word + Rest : text[k] # "="
    BY NextIsWord
<1>3. PICK t \in {text}, name \in {call.name}, w \in Nat, rest \in Nat \ {0}, end \in Nat,
           behind \in Nat :
         /\ t = text /\ name = call.name /\ w = Word /\ rest = Rest /\ end = pe
         /\ behind = w + rest /\ w <= end
    BY <1>1, <1>2
<1>4. PICK e \in w .. behind : t[e] = "="
    <2>1. Equals \in 1 .. Len(text) /\ text[Equals] = "="
        BY EqualsIs
    <2>2. PICK last \in Int, k \in {FirstOf(t, w, behind - 1, {"="})} :
             last = behind - 1 /\ k = FirstOf(t, w, last, {"="})
        OBVIOUS
    <2>3. k \in w .. last + 1
        <3>1. w \in Int /\ w <= last + 1
            BY <1>3, <2>2
        <3> QED BY <2>2, <3>1, FirstOfIs
    <2>4. Equals = behind \/ Equals = k
        BY <1>3, <2>2 DEF Equals
    <2>5. Equals \in w .. behind
        BY <1>3, <2>2, <2>3, <2>4
    <2> QED BY <1>3, <2>1, <2>5
<1>5. e \in w .. end - 1 /\ w < end
    <2>1. e \notin end .. behind
        BY <1>2, <1>3, <1>4
    <2> QED BY <1>3, <1>4, <2>1
<1>6. name \in Seq(Symbols) /\ Len(name) \in Nat /\ 1 <= Len(name)
      /\ \A k \in 1 .. Len(name) : name[k] \notin Blanks \cup Quotes \cup {"="}
    BY <1>1, <1>3, NameAsked, AnswerableIs
<1>7. ~Differs(name, t, w, rest)
    <2> SUFFICES ASSUME Differs(name, t, w, rest) PROVE FALSE
        OBVIOUS
    <2>1. SameStart(name, t, w, rest, setup.cd) = {FALSE}
        BY <1>6, OtherStart
    <2> QED BY <1>3, <2>1 DEF IsNamed
<1>8. \/ t[w] \in {"="} \cup Quotes
      \/ \E i \in 1 .. Len(element.attrs) : \E j \in 1 .. Len(element.attrs[i].value) - 1 :
            /\ w = element.attrs[i].from + j /\ element.attrs[i].value[j] \in Blanks
    <2>1. ~\A k \in w .. end - 1 : t[k] # "="
        BY <1>4, <1>5
    <2>2. element.group = "tag"
        BY DEF Answerable
    <2> QED BY <1>2, <1>3, <1>5, <2>1, <2>2, WordKinds
<1>9. CASE t[w] \in {"="} \cup Quotes
    <2>1. 1 \in 1 .. Len(name) /\ 1 <= rest /\ w + 1 - 1 = w
        BY <1>6
    <2>2. name[1] # t[w + 1 - 1]
        BY <1>6, <1>9, <2>1
    <2> QED BY <1>7, <2>1, <2>2 DEF Differs
<1>10. ASSUME NEW i \in 1 .. Len(element.attrs), NEW j \in 1 .. Len(element.attrs[i].value) - 1,
              w = element.attrs[i].from + j, element.attrs[i].value[j] \in Blanks
       PROVE  FALSE
    <2>1. /\ element \in Elements /\ text = element.text /\ element.group = "tag" /\ pe = element.pe
        BY ElementIs DEF text, pe, Answerable
    <2>2. PICK a \in {element.attrs[i]} : a = element.attrs[i]
        OBVIOUS
    <2>3. /\ Lies(text, a.at, Len(a.name), a.from, Len(a.value), a.quote)
          /\ a.quote \in Quotes /\ Behind(a) <= pe
        BY <2>1, <2>2, AttributeLies
    <2>4. a.value \in Seq(Symbols) /\ \A k \in 1 .. Len(a.value) : text[a.from + k - 1] = a.value[k]
        BY <2>1, <2>2, AttributeReads
    <2>5. PICK f \in Nat, q \in Quotes, value \in Seq(Symbols), v \in Nat :
             f = a.from /\ q = a.quote /\ value = a.value /\ v = Len(value)
        BY <2>3, <2>4, LenProperties DEF Lies
    <2>6. j \in 1 .. Len(value) - 1 /\ w = f + j /\ value[j] \in Blanks
        BY <1>10, <2>2, <2>5
    <2>7. f + Len(value) < w + rest /\ t[f + Len(value)] = q
        <3>1. f + v + 1 <= end
            BY <1>3, <2>3, <2>5 DEF Behind
        <3>2. end <= w + rest
            BY <1>2, <1>3
        <3>3. t[f + v] = q
            BY <1>3, <2>3, <2>5 DEF Lies
        <3> QED BY <1>3, <2>5, <3>1, <3>2, <3>3
    <2>8. \A k \in 1 .. Len(value) : t[f + k - 1] = value[k]
        BY <1>3, <2>4, <2>5
    <2>9. ~\E k \in j + 1 .. Len(value) : SubSeq(value, j + 1, k) = name
        <3>1. i \in DOMAIN element.attrs
            BY <2>1, TagsAssumption, LenProperties
        <3>2. NoSuchWord(name, a)
            BY <1>3, <2>2, <3>1 DEF Answerable
        <3> QED BY <2>2, <2>5, <2>6, <3>2 DEF NoSuchWord
    <2>10. \A k \in 1 .. Len(name) : name[k] \notin Quotes
        BY <1>6
    <2> QED BY <1>6, <1>7, <2>6, <2>7, <2>8, <2>9, <2>10, ValueDiffers
<1> QED BY <1>8, <1>9, <1>10

\* What the search does: the first attribute whose name begins with the name.
FirstStart ==
    pc = "deliver" /\ call.on = "attribute" =>
        /\ ~Missing => Quoted
        /\ Answerable =>
              LET hits == {i \in DOMAIN element.attrs : HasName(call.name, element.attrs[i])}
              IN IF hits = {} THEN Missing
                 ELSE LET a == element.attrs[CHOOSE i \in hits : \A j \in hits : i <= j]
                      IN found = [from |-> a.from, len |-> Len(a.value)]

\* A search begins behind the name of the node.
LEMMA AskSearching ==
    ASSUME CInv, NEW c \in Calls[element.group], Ask(c)
    PROVE  Searching' /\ FirstStart'
<1>1. element \in Elements /\ element.nlen \in Nat
    BY ElementIs
<1>2. element' = element /\ setup' = setup /\ call' = c /\ (pc' = "deliver" \/ pc' = c.on)
    BY DEF Ask
<1> SUFFICES ASSUME element.group = "tag", c.on = "attribute" PROVE Searching' /\ FirstStart'
    <2>1. CASE element.group # "tag"
        <3>1. ~Answerable'
            BY <1>2, <2>1 DEF Answerable
        <3>2. pc' = "deliver" /\ (call.on)' = "attribute" => Missing'
            BY <1>1, <1>2 DEF Ask, Missing, Nothing
        <3> QED BY <3>1, <3>2 DEF Searching, FirstStart
    <2>2. CASE c.on # "attribute"
        BY <1>2, <2>2 DEF Ask, Searching, FirstStart
    <2> QED BY <2>1, <2>2
<1>3. element.nlen > 0 /\ Len(element.attrs) \in Nat
    BY <1>1, TagsAssumption, LenProperties
<1>4. pc' = "attribute" /\ ps' = element.nlen + 2
    BY <1>3 DEF Ask, FirstAttribute
<1>5. ASSUME NEW i \in 1 .. Len(element.attrs) PROVE ~(element.attrs[i].at < ps')
    <2>1. element.nlen + 2 <= element.attrs[i].at /\ element.attrs[i].at \in Nat
        BY <1>1, AttributeLies DEF Lies
    <2> QED BY <1>1, <1>4, <2>1
<1>6. Searching'
    BY <1>1, <1>2, <1>4, <1>5 DEF Searching
<1> QED BY <1>4, <1>6 DEF FirstStart

\* What is asked stays answerable while the search goes on.
LEMMA SameQuestion ==
    ASSUME UNCHANGED <<element, setup, call>>
    PROVE  Answerable' = Answerable
BY DEF Answerable, Comparable, PlainContent, IsName, PrefixFree, HasName, NoSuchWord, text, pe

\* The words that are passed are not the attribute.
LEMMA NextWordSearching ==
    ASSUME CInv, Searching, WordOther \/ WordWithoutEquals
    PROVE  Searching' /\ FirstStart'
<1>1. /\ InTag("attribute") /\ ps' = NextWord /\ UNCHANGED <<element, setup, call, pc>>
      /\ FALSE \in IsNamed \/ ~HasEquals
    BY DEF WordOther, WordWithoutEquals
<1>2. pc = "attribute" /\ ps \in Nat /\ pe \in Nat /\ Word \in ps .. pe
    BY <1>1, InTagIs
<1> SUFFICES ASSUME Answerable PROVE Searching'
    BY <1>1, <1>2, SameQuestion DEF Searching, FirstStart
<1>3. /\ element.nlen + 2 <= Word /\ NextWord \in Word .. pe
      /\ NextWord < pe => text[NextWord] \in Blanks
    BY <1>1, NextIsWord
<1>4. element.nlen \in Nat /\ text' = text /\ pe' = pe
    BY <1>1, ElementIs DEF text, pe
<1>5. element.nlen + 2 <= ps' /\ (ps' >= pe \/ text[ps'] \in Blanks)
    BY <1>1, <1>2, <1>3, <1>4
<1>6. ASSUME NEW i \in 1 .. Len(element.attrs), element.attrs[i].at < ps'
      PROVE  ~HasName(call.name, element.attrs[i])
    <2>1. element.attrs[i].at < ps \/ element.attrs[i].at = Word
        BY <1>1, <1>6, PassedIsWord
    <2>2. CASE element.attrs[i].at < ps
        BY <1>2, <2>2 DEF Searching
    <2>3. CASE element.attrs[i].at = Word
        <3>1. /\ IF HasName(call.name, element.attrs[i]) THEN IsNamed = {TRUE} ELSE IsNamed = {FALSE}
              /\ HasEquals
            BY <1>1, <2>3, AtAttribute
        <3> QED BY <1>1, <3>1
    <2> QED BY <2>1, <2>2, <2>3
<1> QED BY <1>1, <1>4, <1>5, <1>6 DEF Searching

LEMMA EndsBehind ==
    ASSUME NEW t, NEW a, Lies(t, a.at, Len(a.name), a.from, Len(a.value), a.quote)
    PROVE  a.at \in Nat /\ Behind(a) \in Nat /\ a.at < Behind(a)
<1>1. PICK p \in Nat, n \in Nat, f \in Nat, v \in Nat :
         /\ p = a.at /\ n = Len(a.name) /\ f = a.from /\ v = Len(a.value)
         /\ p + n <= f - 2
    BY DEF Lies
<1>2. p + n <= f - 2
    BY <1>1
<1>3. p < f + v + 1 /\ f + v + 1 \in Nat
    BY <1>2
<1> QED BY <1>1, <1>3 DEF Behind

\* A name with a "=" is the one of an attribute.
LEMMA NamedIsAttribute ==
    ASSUME CInv, Searching, InTag("attribute"), Answerable, TRUE \in IsNamed, HasEquals
    PROVE  \E i \in 1 .. Len(element.attrs) :
              /\ element.attrs[i].at = Word /\ HasName(call.name, element.attrs[i])
              /\ \A j \in 1 .. Len(element.attrs) : HasName(call.name, element.attrs[j]) => i <= j
<1>1. PICK i \in 1 .. Len(element.attrs) : element.attrs[i].at = Word
    BY AtNoAttribute
<1>2. HasName(call.name, element.attrs[i])
    <2>1. IF HasName(call.name, element.attrs[i]) THEN IsNamed = {TRUE} ELSE IsNamed = {FALSE}
        BY <1>1, AtAttribute
    <2> QED BY <2>1
<1>3. ASSUME NEW j \in 1 .. i - 1 PROVE ~HasName(call.name, element.attrs[j])
    <2>1. element \in Elements /\ element.group = "tag" /\ text = element.text
          /\ Len(element.attrs) \in Nat
        BY ElementIs, TagsAssumption, LenProperties DEF Answerable, text
    <2>2. j \in 1 .. Len(element.attrs)
        BY <2>1
    <2>3. PICK a \in {element.attrs[j]} : a = element.attrs[j]
        OBVIOUS
    <2>4. Lies(text, a.at, Len(a.name), a.from, Len(a.value), a.quote)
        BY <2>1, <2>2, <2>3, AttributeLies
    <2>5. Behind(a) <= Word
        BY <1>1, <2>1, <2>3, AttributeLies
    <2>6. a.at < Word
        <3>1. a.at \in Nat /\ Behind(a) \in Nat /\ a.at < Behind(a)
            BY <2>4, EndsBehind
        <3>2. Word \in Int
            BY InTagIs
        <3> QED BY <2>5, <3>1, <3>2
    <2>7. a.at < NextWord
        <3>1. NextWord \in Word .. pe /\ Word \in Int /\ pe \in Int
            BY InTagIs, NextIsWord
        <3>2. a.at \in Nat
            BY <2>4 DEF Lies
        <3> QED BY <2>6, <3>1, <3>2
    <2>8. a.at < ps
        <3>1. a.at < ps \/ a.at = Word
            BY <2>2, <2>3, <2>7, PassedIsWord
        <3>2. a.at \in Nat /\ Word \in Int
            BY <2>4, InTagIs DEF Lies
        <3> QED BY <2>6, <3>1, <3>2
    <2>9. pc = "attribute"
        BY DEF InTag
    <2> QED BY <2>2, <2>3, <2>8, <2>9 DEF Searching
<1>4. \A j \in 1 .. Len(element.attrs) : HasName(call.name, element.attrs[j]) => i <= j
    BY <1>3
<1> QED BY <1>1, <1>2, <1>4

\* The value of the attribute is what is found, and never a quote is missing.
LEMMA ValueFoundRight ==
    ASSUME CInv, CInv', Searching, ValueFound \/ NoOpeningQuote \/ NoClosingQuote
    PROVE  Searching' /\ FirstStart'
<1>1. /\ InTag("attribute") /\ TRUE \in IsNamed /\ HasEquals /\ pc' = "deliver"
      /\ UNCHANGED <<element, setup, call>>
    BY DEF ValueFound, NoOpeningQuote, NoClosingQuote, Fails, Found
<1>2. pc' = "deliver" /\ (call.on)' = "attribute" /\ ~Missing' => Quoted'
    BY DEF CInv
<1> SUFFICES ASSUME Answerable
             PROVE  LET hits == {i \in DOMAIN element.attrs : HasName(call.name, element.attrs[i])}
                    IN IF hits = {} THEN Missing'
                       ELSE LET a == element.attrs[CHOOSE i \in hits : \A j \in hits : i <= j]
                            IN found' = [from |-> a.from, len |-> Len(a.value)]
    BY <1>1, <1>2, SameQuestion DEF Searching, FirstStart
<1>3. PICK i \in 1 .. Len(element.attrs) :
         /\ element.attrs[i].at = Word /\ HasName(call.name, element.attrs[i])
         /\ \A j \in 1 .. Len(element.attrs) : HasName(call.name, element.attrs[j]) => i <= j
    BY <1>1, NamedIsAttribute
<1>4. PICK a \in {element.attrs[i]} : a = element.attrs[i]
    OBVIOUS
<1>5. /\ Quote \in Quotes /\ Start = a.from /\ Close = a.from + Len(a.value)
      /\ At(text, Close) = Quote /\ Close < pe
    BY <1>1, <1>3, <1>4, AtAttribute
<1>6. found' = [from |-> Start, len |-> Close - Start]
    BY <1>5 DEF ValueFound, NoOpeningQuote, NoClosingQuote, Found
<1>7. element \in Elements /\ element.group = "tag"
    BY DEF CInv, Answerable
<1>8. Close - Start = Len(a.value)
    <2>1. a.from \in Nat /\ Len(a.value) \in Nat
        BY <1>4, <1>7, AttributeLies DEF Lies
    <2> QED BY <1>5, <2>1
<1>9. DOMAIN element.attrs = 1 .. Len(element.attrs) /\ Len(element.attrs) \in Nat
    BY <1>7, TagsAssumption, LenProperties
<1>10. PICK hits : hits = {k \in DOMAIN element.attrs : HasName(call.name, element.attrs[k])}
    OBVIOUS
<1>11. i \in hits /\ \A j \in hits : i <= j
    BY <1>3, <1>9, <1>10
<1>12. (CHOOSE k \in hits : \A j \in hits : k <= j) = i
    <2>1. PICK c : c = CHOOSE k \in hits : \A j \in hits : k <= j
        OBVIOUS
    <2>2. c \in hits /\ \A j \in hits : c <= j
        BY <1>11, <2>1
    <2>3. c <= i /\ i <= c /\ c \in Int /\ i \in Int
        BY <1>9, <1>10, <1>11, <2>2
    <2> QED BY <2>1, <2>3
<1> QED BY <1>4, <1>5, <1>6, <1>8, <1>10, <1>11, <1>12

\* At the end of the tag all attributes have been passed.
LEMMA NoMoreWordsRight ==
    ASSUME CInv, CInv', Searching, NoMoreWords
    PROVE  Searching' /\ FirstStart'
<1>1. /\ pc = "attribute" /\ ps >= pe /\ pc' = "deliver" /\ found' = Nothing
      /\ UNCHANGED <<element, setup, call>>
    BY DEF NoMoreWords, Found
<1>2. Missing'
    BY <1>1 DEF Missing, Nothing
<1>3. ASSUME Answerable
      PROVE  {i \in DOMAIN element.attrs : HasName(call.name, element.attrs[i])} = {}
    <2>1. element \in Elements /\ element.group = "tag" /\ pe = element.pe
        BY <1>3 DEF CInv, Answerable, pe
    <2>2. DOMAIN element.attrs = 1 .. Len(element.attrs) /\ Len(element.attrs) \in Nat
        BY <2>1, TagsAssumption, LenProperties
    <2> SUFFICES ASSUME NEW i \in 1 .. Len(element.attrs) PROVE ~HasName(call.name, element.attrs[i])
        BY <2>2
    <2>3. PICK a \in {element.attrs[i]} : a = element.attrs[i]
        OBVIOUS
    <2>4. Lies(element.text, a.at, Len(a.name), a.from, Len(a.value), a.quote) /\ Behind(a) <= pe
        BY <2>1, <2>3, AttributeLies
    <2>5. a.at \in Nat /\ Behind(a) \in Nat /\ a.at < Behind(a)
        BY <2>4, EndsBehind
    <2>6. pe \in Nat /\ ps \in Nat
        BY ElementIs DEF CInv
    <2>7. a.at < ps
        BY <1>1, <2>4, <2>5, <2>6
    <2> QED BY <1>1, <1>3, <2>3, <2>7 DEF Searching
<1> QED BY <1>1, <1>2, <1>3, SameQuestion DEF Searching, FirstStart

LEMMA OtherSearching ==
    ASSUME pc' # "attribute", pc' = "deliver" => (call.on)' # "attribute"
    PROVE  Searching' /\ FirstStart'
BY DEF Searching, FirstStart

LEMMA SearchingStep ==
    ASSUME CInv, CInv', Searching, FirstStart, [Next]_vars
    PROVE  Searching' /\ FirstStart'
<1>1. CASE UNCHANGED vars
    <2>1. Answerable' = Answerable
        BY <1>1, SameQuestion DEF vars
    <2> QED BY <1>1, <2>1 DEF vars, Searching, FirstStart, Missing, Quoted, text, pe
<1>2. CASE WordOther \/ WordWithoutEquals
    BY <1>2, NextWordSearching
<1>3. CASE ValueFound \/ NoOpeningQuote \/ NoClosingQuote
    BY <1>3, ValueFoundRight
<1>4. CASE NoMoreWords
    BY <1>4, NoMoreWordsRight
<1>5. CASE NameOther \/ NameFound \/ NoMoreNames
    <2>1. pc = "position" /\ pc' \in {"position", "deliver"} /\ call' = call
        BY <1>5 DEF NameOther, NameFound, NoMoreNames, InTag, Found
    <2>2. call.on = "position"
        BY <2>1 DEF CInv
    <2> QED BY <2>1, <2>2, OtherSearching
<1>6. CASE EqualsCounted \/ CountEnds \/ Forget
    <2>1. pc' \notin {"attribute", "deliver"}
        BY <1>6 DEF EqualsCounted, CountEnds, Forget, InTag
    <2> QED BY <2>1, OtherSearching
<1>7. ASSUME NEW ops, NEW result, Delivers(ops, result) PROVE Searching' /\ FirstStart'
    <2>1. pc' = "answered"
        BY <1>7 DEF Delivers
    <2> QED BY <2>1, OtherSearching
<1>8. CASE GiveExists \/ GiveString \/ NoMemory \/ GiveCopy
    BY <1>7, <1>8 DEF GiveExists, GiveString, NoMemory, GiveCopy
<1>9. CASE GiveComparison \/ GiveInt \/ GiveBool
    BY <1>7, <1>9 DEF GiveComparison, GiveInt, GiveBool
<1>10. CASE \E c \in Calls[element.group] : Ask(c)
    BY <1>10, AskSearching
<1> QED BY <1>1, <1>2, <1>3, <1>4, <1>5, <1>6, <1>8, <1>9, <1>10 DEF Next, Working

\* Where no longer name stands before it, that is the attribute of the name.
LEMMA FirstStartIsNamed ==
    ASSUME CInv, FirstStart
    PROVE  AttributeFound
<1> SUFFICES ASSUME pc = "deliver", call.on = "attribute", Answerable
             PROVE  IsValueOf(found, call.name)
    BY DEF FirstStart, AttributeFound
<1>1. /\ element \in Elements /\ element.group = "tag" /\ DOMAIN element.attrs \subseteq Int
      /\ \A i \in DOMAIN element.attrs : element.attrs[i].name \in Seq(Symbols)
    <2>1. element \in Elements /\ element.group = "tag"
        BY DEF CInv, Answerable
    <2>2. DOMAIN element.attrs = 1 .. Len(element.attrs) /\ Len(element.attrs) \in Nat
        BY <2>1, TagsAssumption, LenProperties
    <2>3. \A i \in 1 .. Len(element.attrs) : element.attrs[i].name \in Seq(Symbols)
        BY <2>1, AttributeReads
    <2> QED BY <2>1, <2>2, <2>3
<1>2. PICK hits, same :
         /\ hits = {i \in DOMAIN element.attrs : HasName(call.name, element.attrs[i])}
         /\ same = {i \in DOMAIN element.attrs : element.attrs[i].name = call.name}
    OBVIOUS
<1>3. same \subseteq hits
    <2> SUFFICES ASSUME NEW i \in DOMAIN element.attrs, element.attrs[i].name = call.name
                 PROVE  HasName(call.name, element.attrs[i])
        BY <1>2
    <2>1. PICK name \in Seq(Symbols), n \in Nat :
             name = call.name /\ name = element.attrs[i].name /\ n = Len(name)
        BY <1>1, LenProperties
    <2>2. \A k \in 1 .. n : name[k] \in Symbols
        BY <2>1, ElementOfSeq
    <2>3. SubSeq(name, 1, n) = name
        BY <2>1, SubSeqFull
    <2> QED BY <2>1, <2>3 DEF HasName
<1>4. \A i \in hits : \E j \in same : j <= i
    <2> SUFFICES ASSUME NEW i \in hits PROVE \E j \in same : j <= i
        OBVIOUS
    <2>1. i \in DOMAIN element.attrs /\ HasName(call.name, element.attrs[i])
        BY <1>2
    <2>2. PICK j \in 1 .. i : element.attrs[j].name = call.name
        BY <2>1 DEF Answerable, PrefixFree
    <2>3. j \in DOMAIN element.attrs /\ j <= i
        <3>1. DOMAIN element.attrs = 1 .. Len(element.attrs) /\ Len(element.attrs) \in Nat
            BY <1>1, TagsAssumption, LenProperties
        <3> QED BY <2>1, <3>1
    <2> QED BY <1>2, <2>2, <2>3
<1>5. CASE hits = {}
    <2>1. same = {} /\ found.from = 0
        BY <1>2, <1>3, <1>5 DEF FirstStart, Missing
    <2> QED BY <1>2, <2>1 DEF IsValueOf
<1>6. CASE hits # {}
    <2>1. PICK c, d : /\ c = CHOOSE i \in hits : \A j \in hits : i <= j
                      /\ d = CHOOSE i \in same : \A j \in same : i <= j
        OBVIOUS
    <2>2. found = [from |-> element.attrs[c].from, len |-> Len(element.attrs[c].value)]
        BY <1>2, <1>6, <2>1 DEF FirstStart
    <2>3. hits \subseteq Nat /\ same \subseteq Nat /\ same # {}
        <3>1. DOMAIN element.attrs = 1 .. Len(element.attrs) /\ Len(element.attrs) \in Nat
            BY <1>1, TagsAssumption, LenProperties
        <3> QED BY <1>2, <1>4, <1>6, <3>1
    <2>4. c \in hits /\ \A j \in hits : c <= j
        <3>1. \E i \in hits : \A j \in hits : i <= j
            BY <1>6, <2>3, LeastOfNat
        <3> QED BY <2>1, <3>1
    <2>5. d \in same /\ \A j \in same : d <= j
        <3>1. \E i \in same : \A j \in same : i <= j
            BY <2>3, LeastOfNat
        <3> QED BY <2>1, <3>1
    <2>6. PICK j \in same : j <= c
        BY <1>4, <2>4
    <2>7. c <= d /\ d <= j /\ c \in Nat /\ d \in Nat /\ j \in Nat
        BY <1>3, <2>3, <2>4, <2>5
    <2>8. c = d
        BY <2>6, <2>7
    <2> QED BY <1>2, <2>1, <2>2, <2>3, <2>8 DEF IsValueOf
<1> QED BY <1>5, <1>6

\* xmlAttributeGetString and the others by name: in every tag, what is found is
\* between two quotes behind a "="; and where no longer name, no word of a value and
\* no text behind the tag is taken for it, it is the value of the first attribute of
\* the name that is asked for, or nothing when there is none.
THEOREM AttributesAreFound == Spec => []AttributeFound
<1>1. Init => Searching /\ FirstStart
    BY DEF Init, Searching, FirstStart
<1> QED BY <1>1, Invariant, SearchingStep, FirstStartIsNamed, PTL DEF Spec
=============================================================================
