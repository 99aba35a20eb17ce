----------------------------- MODULE MC_Content -----------------------------
(* Tags with up to two attributes, tags that are none, texts and numbers. *)
EXTENDS Content, Functions

Plainly == Range(Digits) \cup
    {"l", "n", "o", "r", "s", "t", "u", "x", "y", "-", ".", "\\", "=", "'", "\"", ">", "<", "/", " "}
Marks == {Comment, CommentEnd, CDATA, CDATAEnd}
Wide == "w"        \* two bytes in the encoding of the locale
Unknown == "?"     \* none
MCSymbols == Plainly \cup Marks \cup {Wide, Unknown}
MCWidth == [s \in MCSymbols |-> CASE s = Comment -> 4 [] s = CommentEnd -> 3
                                  [] s = CDATA -> 9 [] s = CDATAEnd -> 3 [] OTHER -> 1]
MCUnits == [s \in MCSymbols |-> IF s = Wide THEN 2 ELSE IF s = Unknown THEN 0 ELSE MCWidth[s]]

Strings(S, n) == UNION {[1 .. k -> S] : k \in 0 .. n}
Closing == <<"<", "/", "n", ">">>

\* A tag <n...> with what is in it, content behind it, and the closing tag.
Node(group, tag, content, attrs) ==
    [group |-> group, text |-> <<"n">> \o tag \o <<">">> \o content \o Closing,
     nlen |-> 1, pe |-> 2 + Len(tag), last |-> 2 + Len(tag) + Len(content), attrs |-> attrs,
     kind |-> "any", means |-> 0]

-----------------------------------------------------------------------------
Written(a) == a.name \o a.gap \o <<"=", a.quote>> \o a.value \o <<a.quote>>
At1(a, behind) ==
    [name |-> a.name, value |-> a.value, quote |-> a.quote, at |-> behind + 1,
     from |-> behind + Len(a.name) + Len(a.gap) + 3]
OneTag(a, content) ==
    Node("tag", <<" ">> \o Written(a), content, <<At1(a, 2)>>)
TwoTag(a, c, blanks) ==
    LET first == <<" ">> \o Written(a) \o blanks
    IN Node("tag", first \o Written(c), <<>>, <<At1(a, 2), At1(c, 1 + Len(first))>>)

AttrNames == {<<"a">>, <<"a", "b">>, <<"b">>}
Values2 == {<<>>, <<"1">>, <<"x", " ", "a", "=", "1">>, <<"w", "x">>, <<"?">>}
Attr(names, values) ==
    {a \in [name : names, gap : {<<>>, <<" ">>}, quote : Quotes, value : values] :
        a.quote \notin Range(a.value)}
Simple == [name : AttrNames, gap : {<<>>}, quote : {"'"}, value : Values2]
Tags ==
    {Node("tag", <<>>, <<"x">>, <<>>), Node("tag", <<"/">>, <<>>, <<>>)}
    \cup {OneTag(a, c) : a \in Attr(AttrNames, Values2 \cup {<<"\"">>}),
                         c \in {<<>>, <<"x">>, <<"=", "'">>}}
    \cup {TwoTag(a, c, blanks) :
             a \in Simple,
             c \in {d \in Attr({<<"a">>, <<"b">>}, {<<"1">>, <<"x", " ", "a", "=", "1">>}) :
                      d.quote = "'" <=> d.gap = <<>>},
             blanks \in {<<" ">>, <<" ", " ">>}}
    \cup {Node("tag", <<" ", " ">> \o Written(a), <<"=", "x">>, <<At1(a, 3)>>) :
             a \in [name : AttrNames, gap : {<<>>}, quote : {"'"}, value : {<<>>, <<"1">>}]}

\* Anything behind the name, and content that could be a value.
Broken ==
    {Node("broken", <<" ">> \o t, c, <<>>) :
        t \in Strings({"a", "=", "'", " "}, 4), c \in {<<>>, <<"=", "'", "x", "'">>}}

-----------------------------------------------------------------------------
\* Comments and CDATA sections have their ends, in any order and in each other.
HasText(t) ==
    /\ Paired(t, 1, Len(t), Comment, CommentEnd) /\ Paired(t, 1, Len(t), CDATA, CDATAEnd)
    /\ \A i \in DOMAIN t : t[i] = CDATAEnd => \E j \in 1 .. i : t[j] = CDATA
Plain1 == {t \in Strings({" ", "x", Comment, CommentEnd, CDATA, CDATAEnd}, 5) : HasText(t)}
Texts == {Node("text", <<>>, t, <<>>) : t \in Plain1}
         \cup {Node("text", <<>>, t, <<>>) : t \in Strings({"x", "w", "?"}, 3)}

-----------------------------------------------------------------------------
\* Numerals of 0 .. 9 in the bases, with signs and blanks; words; neither.
RECURSIVE Numeral(_, _)
Numeral(n, base) ==
    IF n < base THEN <<Digits[n + 1]>> ELSE Numeral(n \div base, base) \o <<Digits[(n % base) + 1]>>
Means(kind, text1, value) ==
    [Node("number", <<>>, text1, <<>>) EXCEPT !.kind = kind, !.means = value]
Escapes == {"0", "\\"}
Numbers ==
    {Means("number", Numeral(n, 10), n) : n \in {0, 1, 9, 10, 19}}
    \cup {Means("number", <<"-">> \o Numeral(n, 10), -n) : n \in {0, 1, 19}}
    \cup {Means("number", <<" ">> \o Numeral(n, 10) \o <<" ">>, n) : n \in {1, 19}}
    \cup {Means("number", <<e, p[1]>> \o Numeral(n, p[2]), n) :
             e \in Escapes, n \in {0, 1, 9, 15},
             p \in {<<"b", 2>>, <<"d", 10>>, <<"o", 8>>, <<"x", 16>>}}
    \cup {Means("number", <<"0">> \o Numeral(n, 8), n) : n \in {0, 1, 9}}
    \cup {Means("number", Numeral(n, 10), MaxLong) : n \in {255, 1000}}
    \cup {Means("word", t, XML_TRUE) : t \in True} \cup {Means("word", t, XML_FALSE) : t \in False}
    \cup {Means("other", t, 0) : t \in {<<>>, <<"x">>, <<"x", "1">>, <<"o", "f", "f", " ">>}}

MCElements == Tags \cup Broken \cup Texts \cup Numbers
\* Without a conversion descriptor nothing is localised.
MCSetups == {[cd |-> TRUE, local |-> FALSE, none |-> None],
             [cd |-> TRUE, local |-> TRUE, none |-> XML_FALSE],
             [cd |-> FALSE, local |-> TRUE, none |-> None]}

AttributeCalls ==
    [on : {"attribute"}, op : {"exists", "string"}, name : {<<"a">>, <<"b">>}]
    \cup [on : {"attribute"}, op : {"exists"}, name : {<<"a", "b">>}]
    \cup [on : {"attribute"}, op : {"int", "bool"}, name : {<<"a">>}]
    \cup [on : {"attribute"}, op : {"copy"}, name : {<<"a">>}, buflen : {1, 3}]
    \cup [on : {"attribute"}, op : {"compare"}, name : {<<"a">>}, word : {<<>>, <<"1">>, <<"w", "x">>}]
PositionCalls ==
    [on : {"position"}, op : {"copy"}, pos : 0 .. 2, buflen : {1, 4}]
    \cup [on : {"position"}, op : {"compare"}, pos : 0 .. 2, word : {<<"a">>}]
TagCalls ==
    AttributeCalls \cup PositionCalls \cup [on : {"count"}, op : {"count"}]
    \cup [on : {"name"}, op : {"string"}, path : {FALSE}]
    \cup [on : {"name"}, op : {"copy"}, buflen : {1, 2}]
    \cup [on : {"name"}, op : {"compare"}, word : {<<"n">>, <<"n", "n">>}]
TextCalls ==
    [on : {"text"}, op : {"string", "raw"}, path : BOOLEAN]
    \cup [on : {"text"}, op : {"copy"}, buflen : 1 .. 3]
    \cup [on : {"text"}, op : {"compare"}, word : {<<>>, <<"x">>, <<"w">>}]
NumberCalls == [on : {"text"}, op : {"int", "bool"}]
MCCalls == [tag |-> TagCalls, broken |-> TagCalls, text |-> TextCalls, number |-> NumberCalls]
=============================================================================
