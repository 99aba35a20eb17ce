------------------------------- MODULE Values -------------------------------
(***************************************************************************)
(* What the getters make of a piece of text (src/src/xml.c and             *)
(* src/src/localize.c): the data of a section between comments and CDATA   *)
(* marks, numbers, booleans, comparisons, and the copies in the encoding   *)
(* of the locale.                                                          *)
(*                                                                         *)
(* A text is a sequence of symbols: characters, and the marks of comments  *)
(* and CDATA sections, which are Width characters wide.  A piece of text   *)
(* begins at a position and has a number of symbols; nothing terminates    *)
(* it.                                                                     *)
(***************************************************************************)
EXTENDS Integers, Sequences, FiniteSetsExt

CONSTANTS
    Symbols,
    Width,      \* [Symbols -> Nat], characters
    Units,      \* [Symbols -> Nat], bytes in the encoding of the locale, 0: has none
    BUFSIZE,    \* of string_compare
    MaxLong     \* LONG_MAX

ASSUME ValuesAssumption ==
    /\ Width \in [Symbols -> Nat \ {0}] /\ Units \in [Symbols -> Nat]
    /\ "behind" \notin Symbols
    /\ BUFSIZE \in Nat /\ MaxLong \in Nat \ {0}

Blanks == {" "}       \* isspace
Signs == Symbols \ Blanks
Quotes == {"'", "\""}
Comment == "<!--"
CommentEnd == "-->"
CDATA == "<![CDATA["
CDATAEnd == "]]>"

\* What is behind the text is any memory.
At(text, i) == IF i \in DOMAIN text THEN text[i] ELSE "behind"

\* memchr: the first position of a symbol of S, or the one behind the last.
FirstOf(text, from, to, S) ==
    LET first[i \in Int] ==
            IF i > to THEN to + 1 ELSE IF At(text, i) \in S THEN i ELSE first[i + 1]
    IN first[from]

\* while ((ps<pe) && isspace(*ps)) ps++, and the same for the end of a word.
SkipBlanks(text, ps, pe) ==
    IF ps < pe THEN FirstOf(text, ps, pe - 1, Signs) ELSE ps
SkipWord(text, ps, pe) ==
    IF ps < pe THEN FirstOf(text, ps, pe - 1, Blanks) ELSE ps
\* mutant: it does not stop at the beginning
SkipBackFree(text, ps, pe) ==
    Max({0} \cup {i \in 1 .. pe : text[i] \notin Blanks})
\* while ((pe>ps) && isspace(*pe)) pe--
SkipBack(text, ps, pe) ==
    Max({ps} \cup {i \in ps .. pe : text[i] \notin Blanks})

Nothing == [from |-> 0, len |-> 0]
Sum(text, from, to, amount) ==
    LET s[i \in from - 1 .. to] == IF i < from THEN 0 ELSE s[i - 1] + amount[text[i]]
    IN s[to]

-----------------------------------------------------------------------------
(* __zeroxml_prepare_data. *)

Trimmed(text, from, to) ==
    IF from > to THEN [from |-> from, len |-> 0]
    ELSE LET ps == SkipBlanks(text, from, to)
         IN [from |-> ps, len |-> SkipBack(text, ps, to) - ps + 1]

\* The content of the first CDATA section.  Its end is searched in as many
\* characters as the whole section has.
FromCDATA(text, from, to, mark) ==
    LET chars == Sum(text, from, to, Width)
        reach == {i \in mark + 1 .. Len(text) :
                     text[i] = CDATAEnd /\ Sum(text, mark + 1, i, Width) <= chars}
    IN IF reach = {} THEN [from |-> from, len |-> 0]
       ELSE Trimmed(text, mark + 1, Min(reach) - 1)

\* The position behind the comments in front of the data; 0 if one has no end.
BehindComments(text, from, to) ==
    LET behind[i \in from .. to + 1] ==
            LET ps == SkipBlanks(text, i, to)
                end == FirstOf(text, ps, to, {CommentEnd})
            IN IF ps > to \/ text[ps] # Comment THEN ps
               ELSE IF end > to THEN 0 ELSE behind[end + 1]
    IN behind[from]

FromData(text, from, to) ==
    LET ps == BehindComments(text, from, to)
    IN IF ps = 0 THEN [from |-> from, len |-> 0]
       ELSE Trimmed(text, ps, FirstOf(text, ps, to, {Comment}) - 1)

\* mutant: the last CDATA section
PrepareDataLast(text, from, len) ==
    LET marks == {i \in from .. from + len - 1 : text[i] = CDATA}
    IN IF marks # {} THEN FromCDATA(text, from, from + len - 1, Max(marks))
       ELSE FromData(text, from, from + len - 1)
PrepareData(text, from, len) ==
    LET to == from + len - 1
        mark == FirstOf(text, from, to, {CDATA})
    IN IF mark <= to THEN FromCDATA(text, from, to, mark) ELSE FromData(text, from, to)

-----------------------------------------------------------------------------
(* string_compare: whether what the converted text begins with is the word.  *)
(* Behind the end of a shorter text the buffer holds what the stack held.    *)

SameStart(word, text, from, len, cd) ==
    LET n == IF Len(word) < len THEN Len(word) ELSE len
    IN IF \/ ~cd \/ word = <<>> \/ len <= 0
          \/ \E i \in from .. from + len - 1 : At(text, i) \notin Symbols \/ Units[text[i]] = 0
          \/ Sum(text, from, from + len - 1, Units) > BUFSIZE
          \/ \E i \in 1 .. n : word[i] # text[from + i - 1]
       THEN {FALSE}
       ELSE IF len < Len(word) THEN BOOLEAN ELSE {TRUE}

-----------------------------------------------------------------------------
(* __zeroxml_strtol, with strtol of the C library, and __zeroxml_strtob. *)

Digits == <<"0", "1", "2", "3", "4", "5", "6", "7", "8", "9", "a", "b", "c", "d", "e", "f">>
DigitOf(s) == CHOOSE d \in 0 .. 15 : Digits[d + 1] = s
DigitsOf(base) == {Digits[d] : d \in 1 .. base}

Saturated(n) == IF n > MaxLong THEN MaxLong ELSE IF n < -MaxLong - 1 THEN -MaxLong - 1 ELSE n
Horner(text, from, to, base) ==
    LET v[i \in from - 1 .. to] ==
            IF i < from THEN 0 ELSE v[i - 1] * base + DigitOf(text[i])
    IN v[to]

\* strtol: "end" is where it begins when there is no number.
LibraryStrtol(text, from, base) ==
    LET p == FirstOf(text, from, Len(text), Signs)
        q == IF At(text, p) \in {"-", "+"} THEN p + 1 ELSE p
        hex == base = 16 /\ At(text, q) = "0" /\ At(text, q + 1) = "x"
                         /\ At(text, q + 2) \in DigitsOf(16)
        d == IF hex THEN q + 2 ELSE q
        end == Min({i \in d .. Len(text) + 1 : At(text, i) \notin DigitsOf(base)})
        size == Horner(text, d, end - 1, base)
    IN IF end = d THEN [end |-> from, val |-> 0]
       ELSE [end |-> end, val |-> Saturated(IF At(text, p) = "-" THEN -size ELSE size)]

\* XML_NONE is LONG_MIN, XML_BOOL_NONE INT_MIN.
None == -MaxLong - 1

\* mutant: no text is too short for a base
PrefixAlways(text, from, len) ==
    IF At(text, from) \notin {"0", "\\"} THEN [skip |-> 0, base |-> 10]
    ELSE CASE At(text, from + 1) = "b" -> [skip |-> 2, base |-> 2]
           [] At(text, from + 1) = "d" -> [skip |-> 2, base |-> 10]
           [] At(text, from + 1) = "x" -> [skip |-> 2, base |-> 16]
           [] At(text, from + 1) = "o" -> [skip |-> 2, base |-> 8]
           [] OTHER -> [skip |-> 1, base |-> 8]
Prefix(text, from, len) ==
    IF len < 2 \/ At(text, from) \notin {"0", "\\"} THEN [skip |-> 0, base |-> 10]
    ELSE CASE At(text, from + 1) = "b" -> [skip |-> 2, base |-> 2]
           [] At(text, from + 1) = "d" -> [skip |-> 2, base |-> 10]
           [] At(text, from + 1) = "x" -> [skip |-> 2, base |-> 16]
           [] At(text, from + 1) = "o" -> [skip |-> 2, base |-> 8]
           [] OTHER -> [skip |-> 1, base |-> 8]

\* "none" is what the caller wants for no number.
Strtol(text, from, len, none) ==
    LET p == Prefix(text, from, len)
        number == LibraryStrtol(text, from + p.skip, p.base)
    IN [end |-> number.end,
        val |-> IF number.end > from + p.skip THEN number.val ELSE none]

XML_FALSE == 0
XML_TRUE == 1
False == {<<"o", "f", "f">>, <<"n", "o">>, <<"f", "a", "l", "s", "e">>}
True == {<<"o", "n">>, <<"y", "e", "s">>, <<"t", "r", "u", "e">>}
\* STRNCMP(rid, start, word, len): as many characters as the text has.
Begins(text, from, len, words) ==
    \E w \in words : len <= Len(w) /\ \A i \in 1 .. len : At(text, from + i - 1) = w[i]

Strtob(text, from, len, none) ==
    LET n == Strtol(text, from, len, none)
    IN IF n.end # from THEN IF n.val = 0 THEN XML_FALSE ELSE XML_TRUE
       ELSE IF Begins(text, from, len, False) THEN XML_FALSE
       ELSE IF Begins(text, from, len, True) THEN XML_TRUE ELSE none

-----------------------------------------------------------------------------
(* __zeroxml_iconv, from a piece of text into a buffer of size bytes: what    *)
(* is in the buffer and how far it was written to.                            *)

XML_NO_ERROR == 0
XML_OUT_OF_MEMORY == 1
XML_TRUNCATE_RESULT == 5
XML_ATTRIB_NO_OPENING_QUOTE == 10
XML_ATTRIB_NO_CLOSING_QUOTE == 11
XML_INVALID_MULTIBYTE_SEQUENCE == 12

Plain(text, from, len, size) ==
    LET n == IF size > len THEN len ELSE size
    IN [chars |-> SubSeq(text, from, from + n - 1), high |-> n, error |-> XML_NO_ERROR]

\* Where iconv stops.  When it does not come to the end, a terminator is put behind
\* all the room there is, and the start of the text follows the output.
Localised(text, from, len, size) ==
    LET n == Max({k \in 0 .. len :
                    /\ Sum(text, from, from + k - 1, Units) <= size
                    /\ \A i \in from .. from + k - 1 : Units[text[i]] > 0})
        used == Sum(text, from, from + n - 1, Units)
        more == IF size - used > len - n THEN len - n ELSE size - used
    IN IF n = len
       THEN [chars |-> SubSeq(text, from, from + len - 1), high |-> used,
             error |-> XML_NO_ERROR]
       ELSE [chars |-> SubSeq(text, from, from + n - 1) \o SubSeq(text, from, from + more - 1),
             high |-> size,
             error |-> IF Units[text[from + n]] = 0 THEN XML_INVALID_MULTIBYTE_SEQUENCE
                       ELSE XML_TRUNCATE_RESULT]

Iconv(text, from, len, size, local) ==
    IF local THEN Localised(text, from, len, size) ELSE Plain(text, from, len, size)
=============================================================================
