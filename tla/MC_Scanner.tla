----------------------------- MODULE MC_Scanner -----------------------------
(* Small documents for the scanner. *)
EXTENDS Scanner

a == <<"a">>
aa == <<"a", "a">>
b == <<"b">>
tok(kind, name) == [kind |-> kind, name |-> name]

Tags == {tok("open", a), tok("close", a), tok("open", aa), tok("close", aa),
         tok("close", b), tok("self", b)}
Blocks == {tok(kind, <<>>) : kind \in BlockKinds \ {"pi"}}
PI == tok("pi", <<>>)
Text == tok("text", <<>>)
Cuts == {tok("cut", a), tok("cutblock", <<>>)}

Strings(S, n) == UNION {[1 .. k -> S] : k \in 0 .. n}

\* A leading processing instruction is the XML declaration.
Scanned(docs) == {d \in docs : d # <<>> => d[1] # PI}

\* Any text, well-formed or not.
AnyDocs ==
    Scanned(Strings(Tags \cup Blocks \cup {PI, Text}, 3))
    \cup Strings(Tags \cup {tok("comment", <<>>)}, 4)
    \cup {Append(d, cut) : d \in Strings(Tags \cup Blocks, 2), cut \in Cuts}

\* Texts of up to three tokens, and short ones of four.
MaxShort == 18
ShortDocs == {d \in AnyDocs : Size(d) <= IF Len(d) > 3 THEN MaxShort ELSE MaxSize}

\* Well-formed documents: nesting, siblings, names with a common beginning.
WellFormedDocs ==
    {d \in Strings({tok("open", a), tok("close", a), tok("self", b), Text}
                   \cup Blocks, 5)
           \cup Strings(Tags, 6) : WellFormed(d)}

\* Sections of well-formed documents, and what a lookup may ask of them.
BalancedTexts ==
    {d \in Strings({tok("open", a), tok("close", a), tok("self", b),
                    tok("self", aa), Text} \cup Blocks, 4)
           \cup Strings(Tags, 5) : Balanced(d)}
\* A processing instruction inside of an element stops a lookup as it stops an open
\* (xml.c:1979).
BalancedSections == {d \in ShortDocs : Balanced(d) /\ PI \notin Range(d)} \cup BalancedTexts
Patterns == {a, aa, b, AnyName, <<"?">>, <<"a", "a", "?">>}
Lookups == [name : Patterns, num : 0 .. 1, raw : {FALSE}]
           \cup [name : {aa, AnyName}, num : 0 .. 1, raw : {TRUE}]
\* What is asked of other texts, in which only the cursors matter.
LateLookups == [name : {aa, <<"a", "a", "?">>}, num : {1}, raw : {FALSE}]

\* Names of different length, so that a wrong end is not taken for the right one.
Unbalanced == {d \in AnyDocs : ~Balanced(d) /\ Elements(d) # {}}

OpenRequest == [name |-> AnyName, num |-> AllNums, raw |-> TRUE]
CacheMode == [cached |-> TRUE, comments |-> TRUE]
TextMode == [cached |-> FALSE, comments |-> FALSE]

Opens(docs) == [doc : docs, req : {OpenRequest}, mode : {CacheMode}]
OpenCases == Opens(ShortDocs)
AnswerCases ==
    Opens(WellFormedDocs) \cup
    [doc : BalancedSections, req : Lookups, mode : {TextMode}] \cup
    [doc : {d \in ShortDocs : ~Balanced(d)}, req : LateLookups, mode : {TextMode}]
UnbalancedCases == Opens(Unbalanced)

BlankEntry == [name |-> <<>>, from |-> -1, len |-> 0]
MCNames == {<<>>, a, aa, b}
=============================================================================
