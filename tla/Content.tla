------------------------------ MODULE Content ------------------------------
(***************************************************************************)
(* What a program reads from one node (src/src/xml.c): its attributes by   *)
(* name and by position, its text, and both as strings, copies, numbers,   *)
(* booleans and in comparisons.                                            *)
(*                                                                         *)
(* The text starts with the name in the tag of the node and goes on behind *)
(* its content.  A loop through the tag is one step per iteration; what    *)
(* becomes of the piece of text that is found is one more.  A getter with  *)
(* a path does for the section that path leads to what the one without     *)
(* does for the section of its id.                                         *)
(***************************************************************************)
EXTENDS Values

CONSTANTS
    Elements,   \* nodes: [text, nlen, pe, last], what is meant, and a group
    Setups,     \* [cd, local, none]: what the id's root has
    Calls       \* [groups of elements -> SUBSET of requests]

\* Behind the tag of a node there is its closing tag, or the ">" of an empty one.
ASSUME ContentAssumption ==
    \A e \in Elements :
        /\ e.text \in Seq(Symbols) /\ Len(e.text) <= MaxLong /\ e.group \in DOMAIN Calls
        /\ e.nlen \in Nat /\ e.pe \in Nat /\ e.last \in Nat
        /\ e.pe <= e.last /\ e.last <= Len(e.text)
        /\ e.nlen > 0 => e.nlen < e.pe /\ e.pe < Len(e.text)

\* "assert(buflen > 0)"; what is counted are attributes, for nothing else.
ASSUME CallsAssumption ==
    /\ \A g \in DOMAIN Calls : \A c \in Calls[g] :
          /\ c.op = "copy" => c.buflen \in Nat \ {0}
          /\ c.on = "count" => c.op = "count"
          /\ c.on = "position" => c.pos \in Nat
          /\ c.on = "attribute" => c.name \in Seq(Symbols)
    /\ \A s \in Setups : s.none \in None .. MaxLong

\* Each mark has its end before the next one of its kind.
Paired(t, from, to, open, close) ==
    \A i \in from .. to :
        t[i] = open => \E j \in i + 1 .. to :
                           t[j] = close /\ \A k \in i + 1 .. j - 1 : t[k] \notin {open, close}

\* The contents whose text has a meaning: comments end, CDATA ends, and no end of
\* CDATA stands alone.
ASSUME TextsAssumption ==
    \A e \in Elements : e.group = "text" =>
        /\ Paired(e.text, e.pe + 1, e.last, Comment, CommentEnd)
        /\ Paired(e.text, e.pe + 1, e.last, CDATA, CDATAEnd)
        /\ \A i \in e.pe + 1 .. e.last :
              e.text[i] = CDATAEnd => \E j \in e.pe + 1 .. i : e.text[j] = CDATA

\* The name of an attribute.
IsName(name) ==
    name # <<>> /\ \A i \in DOMAIN name : name[i] \notin Blanks \cup Quotes \cup {"="}

\* An attribute as it is written: the name, blanks, "=" and the value in quotes.
IsWritten(t, a) ==
    /\ IsName(a.name)
    /\ SubSeq(t, a.at, a.at + Len(a.name) - 1) = a.name
    /\ a.at + Len(a.name) <= a.from - 2
    /\ \A i \in a.at + Len(a.name) .. a.from - 3 : t[i] \in Blanks
    /\ t[a.from - 2] = "=" /\ t[a.from - 1] = a.quote
    /\ SubSeq(t, a.from, a.from + Len(a.value) - 1) = a.value
    /\ \A i \in DOMAIN a.value : a.value[i] # a.quote
    /\ t[a.from + Len(a.value)] = a.quote

Behind(a) == a.from + Len(a.value) + 1
\* The position behind the name and the first n attributes.
BehindFirst(e, n) == IF n = 0 THEN e.nlen + 2 ELSE Behind(e.attrs[n])

\* The tags whose attributes have a meaning: blanks and nothing else in front of each
\* attribute, and no "=" behind the last.
ASSUME TagsAssumption ==
    \A e \in Elements : e.group = "tag" =>
        /\ e.nlen > 0
        /\ e.attrs \in Seq([name : Seq(Symbols), value : Seq(Symbols), quote : Quotes,
                            at : Nat, from : Nat])
        /\ \A i \in DOMAIN e.attrs :
              LET a == e.attrs[i]
              IN /\ IsWritten(e.text, a) /\ e.nlen + 2 <= a.at /\ Behind(a) <= e.pe
                 /\ e.text[a.at - 1] \in Blanks
                 /\ \A j \in 1 .. i - 1 : Behind(e.attrs[j]) <= a.at
                 /\ \A k \in BehindFirst(e, i - 1) .. a.at - 1 : e.text[k] \in Blanks
        /\ \A k \in BehindFirst(e, Len(e.attrs)) .. e.pe - 1 : e.text[k] # "="

VARIABLES
    element,   \* text; name_len; where the tag and the content end
    setup,     \* iconv_open succeeded, XML_LOCALIZATION is set, no number is ...
    call,      \* the request: [on, op, ...]
    pc,        \* where in the request
    ps,        \* the cursor
    num,       \* attributes that were passed
    found,     \* a piece of text: [from, len], Nothing for NULL
    answer     \* [num, chars, high, error]

vars == <<element, setup, call, pc, ps, num, found, answer>>

text == element.text
\* xid->start - 1: the last character of the tag.
pe == element.pe
NoCall == [op |-> "none"]
NoAnswer == [num |-> 0, chars |-> <<>>, high |-> 0, error |-> XML_NO_ERROR]

Section == [from |-> pe + 1, len |-> element.last - pe]
Name == [from |-> 1, len |-> element.nlen]
\* xid->name + xid->name_len + 1
FirstAttribute == element.nlen + 2

-----------------------------------------------------------------------------
(* A request begins. *)

\* What a request for the text works on; the numbers do not trim it.
TextFor(op) ==
    IF element.last = pe THEN Nothing
    ELSE IF op \in {"string", "copy", "compare"} THEN PrepareData(text, pe + 1, Section.len)
    ELSE Section

\* strlen, in the encoding of the locale.
Bytes(word) == Sum(word, 1, Len(word), Units)

NameFor(c) ==
    IF c.op = "compare" /\ Bytes(c.word) > Name.len THEN Nothing ELSE Name

Ask(c) ==
    /\ pc = "idle"
    /\ call' = c
    /\ IF c.on \in {"attribute", "position", "count"} /\ element.nlen > 0
       THEN /\ pc' = c.on /\ ps' = FirstAttribute /\ num' = 0
            /\ UNCHANGED found
       ELSE /\ pc' = "deliver"
            /\ found' = CASE c.on = "text" -> TextFor(c.op)
                          [] c.on = "name" -> NameFor(c)
                          [] OTHER -> Nothing
            /\ UNCHANGED <<ps, num>>
    /\ UNCHANGED <<element, setup, answer>>

Found(piece) == found' = piece /\ pc' = "deliver"
Fails(error) == Found(Nothing) /\ answer' = [answer EXCEPT !.error = error]

-----------------------------------------------------------------------------
(* __zeroxml_get_attribute_data_ptr. *)

InTag(loop) == pc = loop /\ ps < pe
Word == SkipBlanks(text, ps, pe)
\* slen is taken before the blanks are skipped, and the conversion of the whole
\* rest leaves it alone.
Rest == pe - ps
IsNamed == SameStart(call.name, text, Word, Rest, setup.cd)

\* ptr[0] == '=' or memchr; behind the rest when there is none.
Equals ==
    LET behind == Word + Rest
    IN IF At(text, behind) = "=" THEN behind ELSE FirstOf(text, Word, behind - 1, {"="})
HasEquals == At(text, Equals) = "="
Quote == At(text, Equals + 1)
Start == Equals + 2

\* mutant: either quote ends the value
CloseEither == IF Start < pe THEN FirstOf(text, Start, pe - 1, Quotes) ELSE Start
Close == IF Start < pe THEN FirstOf(text, Start, pe - 1, {Quote}) ELSE Start

\* mutant: the cursor stays before a word of another name
NextWordStays == Word
NextWord == SkipWord(text, Word, pe)

WordOther ==
    /\ InTag("attribute") /\ FALSE \in IsNamed
    /\ ps' = NextWord
    /\ UNCHANGED <<element, setup, call, pc, num, found, answer>>

WordWithoutEquals ==
    /\ InTag("attribute") /\ TRUE \in IsNamed /\ ~HasEquals
    /\ ps' = NextWord
    /\ UNCHANGED <<element, setup, call, pc, num, found, answer>>

NoOpeningQuote ==
    /\ InTag("attribute") /\ TRUE \in IsNamed /\ HasEquals /\ Quote \notin Quotes
    /\ Fails(XML_ATTRIB_NO_OPENING_QUOTE)
    /\ UNCHANGED <<element, setup, call, ps, num>>

NoClosingQuote ==
    /\ InTag("attribute") /\ TRUE \in IsNamed /\ HasEquals /\ Quote \in Quotes
    /\ At(text, Close) # Quote
    /\ Fails(XML_ATTRIB_NO_CLOSING_QUOTE)
    /\ UNCHANGED <<element, setup, call, ps, num>>

\* A value that ends behind the tag is none.
ValueFound ==
    /\ InTag("attribute") /\ TRUE \in IsNamed /\ HasEquals /\ Quote \in Quotes
    /\ At(text, Close) = Quote
    /\ Found(IF Close < pe THEN [from |-> Start, len |-> Close - Start] ELSE Nothing)
    /\ UNCHANGED <<element, setup, call, ps, num, answer>>

NoMoreWords ==
    /\ pc = "attribute" /\ ps >= pe
    /\ Found(Nothing)
    /\ UNCHANGED <<element, setup, call, ps, num, answer>>

-----------------------------------------------------------------------------
(* xmlAttributeCopyName, xmlAttributeCompareName and xmlAttributeGetNum. *)

NextEquals(from) == FirstOf(text, from, pe - 1, {"="})

\* mutant: the quoted value is not skipped
BehindValueNot(e) == e + 1
\* The position behind the value of the attribute whose "=" is at e.
BehindValue(e) ==
    LET p == e + 2
    IN 1 + IF p < pe THEN FirstOf(text, p, pe - 1, {At(text, e + 1)}) ELSE p

NameOther ==
    /\ InTag("position") /\ NextEquals(Word) < pe /\ num # call.pos
    /\ ps' = BehindValue(NextEquals(Word)) /\ num' = num + 1
    /\ UNCHANGED <<element, setup, call, pc, found, answer>>

\* The copy drops the blanks in front of the "=", the comparison does not.
NameFound ==
    LET e == NextEquals(Word)
    IN /\ InTag("position") /\ e < pe /\ num = call.pos
       /\ Found(IF call.op = "copy" THEN Trimmed(text, Word, e - 1)
                ELSE [from |-> Word, len |-> e - Word])
       /\ UNCHANGED <<element, setup, call, ps, num, answer>>

NoMoreNames ==
    /\ pc = "position" /\ (ps < pe => NextEquals(Word) >= pe)
    /\ Found(Nothing)
    /\ UNCHANGED <<element, setup, call, ps, num, answer>>

EqualsCounted ==
    /\ InTag("count") /\ NextEquals(ps) < pe
    /\ ps' = NextEquals(ps) + 1 /\ num' = num + 1
    /\ UNCHANGED <<element, setup, call, pc, found, answer>>

CountEnds ==
    /\ pc = "count" /\ (ps < pe => NextEquals(ps) >= pe)
    /\ pc' = "answered" /\ answer' = [answer EXCEPT !.num = num]
    /\ UNCHANGED <<element, setup, call, ps, num, found>>

-----------------------------------------------------------------------------
(* What is found goes to the program. *)

Delivers(ops, result) ==
    /\ pc = "deliver" /\ call.op \in ops
    /\ pc' = "answered" /\ answer' = result
    /\ UNCHANGED <<element, setup, call, ps, num, found>>

Missing == found.from = 0
\* Empty text is NULL for an id, and "" for a path.
NoString == Missing \/ (call.on = "text" /\ ~call.path /\ found.len = 0)

\* An unchanged buffer is an empty string.
Converted(len, size) ==
    Iconv(text, found.from, len, size, setup.local /\ setup.cd)

GiveExists ==
    Delivers({"exists"}, [answer EXCEPT !.num = IF Missing THEN XML_FALSE ELSE XML_TRUE])

\* malloc(6*len+1)
GiveString ==
    LET got == Converted(found.len, 6 * found.len)
    IN Delivers({"string", "raw"},
                IF NoString THEN answer
                ELSE [num |-> 1, chars |-> got.chars, high |-> got.high, error |-> got.error])

NoMemory ==
    /\ Delivers({"string", "raw"}, [answer EXCEPT !.error = XML_OUT_OF_MEMORY])
    /\ ~NoString

\* mutant: a text as long as the buffer is not cut
CopyLenAll(len, buflen) == IF len > buflen THEN buflen - 1 ELSE len
CopyLen(len, buflen) == IF len >= buflen THEN buflen - 1 ELSE len

GiveCopy ==
    LET len == CopyLen(found.len, call.buflen)
        got == Converted(len, call.buflen)
    IN Delivers({"copy"},
                IF Missing \/ found.len = 0 THEN answer
                ELSE [num |-> len, chars |-> got.chars, high |-> got.high,
                      error |-> CASE got.error # XML_NO_ERROR -> got.error
                                  [] got.error = XML_NO_ERROR /\ len # found.len ->
                                        XML_TRUNCATE_RESULT
                                  [] OTHER -> XML_NO_ERROR])

\* Only the value of an attribute has to have the length of the word.
SameWord ==
    IF Missing \/ (call.on = "attribute" /\ found.len # Bytes(call.word)) THEN {FALSE}
    ELSE SameStart(call.word, text, found.from, found.len, setup.cd)

\* XML_FALSE when there is no difference.
GiveComparison ==
    /\ pc = "deliver" /\ call.op = "compare"
    /\ \E same \in SameWord :
        Delivers({"compare"}, [answer EXCEPT !.num = IF same THEN XML_FALSE ELSE XML_TRUE])

GiveInt ==
    Delivers({"int"}, [answer EXCEPT !.num =
        IF Missing THEN setup.none
        ELSE Strtol(text, found.from, found.len, setup.none).val])

GiveBool ==
    Delivers({"bool"}, [answer EXCEPT !.num =
        IF Missing THEN setup.none
        ELSE Strtob(text, found.from, found.len, setup.none)])

Forget ==
    /\ pc = "answered"
    /\ pc' = "idle" /\ call' = NoCall /\ ps' = 0 /\ num' = 0
    /\ found' = Nothing /\ answer' = NoAnswer
    /\ UNCHANGED <<element, setup>>

-----------------------------------------------------------------------------
Init ==
    /\ element \in Elements /\ setup \in Setups
    /\ call = NoCall /\ pc = "idle" /\ ps = 0 /\ num = 0
    /\ found = Nothing /\ answer = NoAnswer

Working ==
    \/ WordOther \/ WordWithoutEquals \/ NoOpeningQuote \/ NoClosingQuote
    \/ ValueFound \/ NoMoreWords
    \/ NameOther \/ NameFound \/ NoMoreNames
    \/ EqualsCounted \/ CountEnds
    \/ GiveExists \/ GiveString \/ NoMemory \/ GiveCopy \/ GiveComparison
    \/ GiveInt \/ GiveBool

Next == Working \/ Forget \/ \E c \in Calls[element.group] : Ask(c)

\* A request is sequential code.
Spec == Init /\ [][Next]_vars /\ WF_vars(Working)

-----------------------------------------------------------------------------
(* Properties. *)

\* Cursors and pieces of text stay in the text, whatever the tag is.
TypeOK ==
    /\ pc \in {"idle", "attribute", "position", "count", "deliver", "answered"}
    /\ ps \in 0 .. Len(text) + 1 /\ num \in 0 .. Len(text)
    /\ found.len >= 0 /\ found.from >= 0 /\ found.from + found.len <= Len(text) + 1
    /\ answer.num \in None .. MaxLong /\ answer.high \in Nat
    /\ answer.chars \in Seq(Symbols) /\ answer.error \in 0 .. 12

\* piece is the value of the first attribute of that name, or nothing if there is none.
IsValueOf(piece, name) ==
    LET same == {i \in DOMAIN element.attrs : element.attrs[i].name = name}
    IN IF same = {} THEN piece.from = 0
       ELSE LET a == element.attrs[CHOOSE i \in same : \A j \in same : i <= j]
            IN piece = [from |-> a.from, len |-> Len(a.value)]

HasName(name, a) == Len(name) <= Len(a.name) /\ SubSeq(a.name, 1, Len(name)) = name
\* No name that only begins with the name stands before it: names are compared no
\* further than the name goes.
PrefixFree(name) ==
    \A i \in DOMAIN element.attrs :
        HasName(name, element.attrs[i]) => \E j \in 1 .. i : element.attrs[j].name = name
\* No blank of a value is followed by the name: the search goes by words.
NoSuchWord(name, a) ==
    \A i \in 1 .. Len(a.value) - 1 :
        a.value[i] \in Blanks =>
            ~\E k \in i + 1 .. Len(a.value) : SubSeq(a.value, i + 1, k) = name
\* All of the text can be converted, and fits the buffer it is compared in.
Comparable ==
    /\ setup.cd /\ Sum(text, 1, Len(text), Units) <= BUFSIZE
    /\ \A i \in DOMAIN text : Units[text[i]] > 0
\* What is left of the tag is measured before the blanks are skipped, so that as many
\* characters behind it count as it: they are there, and there is no "=" in them.
PlainContent ==
    \A i \in 1 .. pe : \A n \in 0 .. pe - i :
        (\A k \in i .. i + n - 1 : text[k] \in Blanks) =>
            pe + n <= Len(text) /\ \A k \in pe .. pe + n : text[k] # "="
\* A request for a name whose answer is in the names of the tag.
Answerable ==
    /\ element.group = "tag" /\ Comparable /\ PlainContent
    /\ IsName(call.name) /\ PrefixFree(call.name)
    /\ \A i \in DOMAIN element.attrs : NoSuchWord(call.name, element.attrs[i])

\* What is found is between two quotes behind a "=" in the tag.
Quoted ==
    LET close == found.from + found.len
    IN /\ text[found.from - 1] \in Quotes /\ text[found.from - 2] = "="
       /\ FirstOf(text, found.from, pe - 1, {text[found.from - 1]}) = close
       /\ close < pe

\* xmlAttributeGetString and the others by name: what they find is what is between
\* two quotes behind a "=" in the tag, also in a tag that is none.  In a
\* well-formed one it is the value of "the named attribute" (include/xml.h.in:629),
\* and nothing when there is none, where the names alone can tell (Answerable): ahead
\* of it a longer name that begins with it, a word of a value, or an "=" behind the
\* tag is taken for it.
AttributeFound ==
    pc = "deliver" /\ call.on = "attribute" =>
        /\ ~Missing => Quoted
        /\ Answerable => IsValueOf(found, call.name)

\* No value holds a "=".
PlainValues ==
    \A i \in DOMAIN element.attrs :
        LET a == element.attrs[i] IN \A k \in DOMAIN a.value : a.value[k] # "="

\* A program that asks for the names 0, 1, ... up to xmlAttributeGetNum gets the
\* names of all attributes, in order, and then nothing, whatever the values are.
\* xmlAttributeGetNum counts every "=" of the tag (src/xml.c:738): "the number of
\* attributes on this node" (README.md:382) it is when no value holds one, and
\* otherwise it may be larger.
NamesInOrder ==
    element.group = "tag" =>
        /\ pc = "deliver" /\ call.on = "position" =>
              IF call.pos < Len(element.attrs)
              THEN /\ found.from = element.attrs[call.pos + 1].at
                   /\ SubSeq(text, found.from, found.from + Len(element.attrs[call.pos + 1].name) - 1)
                         = element.attrs[call.pos + 1].name
                   /\ call.op = "copy" => found.len = Len(element.attrs[call.pos + 1].name)
              ELSE Missing
        /\ pc = "answered" /\ call.on = "count" =>
              /\ answer.num >= Len(element.attrs)
              /\ PlainValues => answer.num = Len(element.attrs)

\* Position i of the content is behind a mark that has not ended before it.
InBlock(i, open, close) ==
    \E j \in pe + 1 .. i - 1 :
        text[j] = open /\ \A k \in j + 1 .. i - 1 : text[k] # close
\* What is left of the content without comments and marks, and from its first
\* character that is not blank to its last one.
Data ==
    {i \in pe + 1 .. element.last :
        text[i] \notin {Comment, CDATA, CDATAEnd} /\ ~InBlock(i, Comment, CommentEnd)}
Solid == {i \in Data : text[i] \notin Blanks}
Meant == {i \in Data : \E j, k \in Solid : j <= i /\ i <= k}
Read == found.from .. found.from + found.len - 1

\* No mark of CDATA stands in a comment, and none of a comment in CDATA.
Apart ==
    \A i \in pe + 1 .. element.last :
        /\ text[i] \in {CDATA, CDATAEnd} => ~InBlock(i, Comment, CommentEnd)
        /\ text[i] = Comment => ~InBlock(i, CDATA, CDATAEnd)
\* No comment stands between two characters of the data; and in a section with CDATA
\* they are all in the first one.
InOnePiece ==
    LET mark == FirstOf(text, pe + 1, element.last, {CDATA})
    IN /\ \A j, k \in Solid : \A i \in j .. k : i \in Data
       /\ mark <= element.last =>
             \A i \in Solid : mark < i /\ \A k \in mark + 1 .. i : text[k] # CDATAEnd

AsksText ==
    /\ pc = "deliver" /\ call.on = "text" /\ call.op \in {"string", "copy", "compare"}
    /\ element.group = "text"

\* "Comment sections and CDATA indicators will be removed" (src/xml.c:2554):
\* xmlGetString and the others without marks give data of the section, never a
\* comment or a mark of CDATA.  It is all of the data, without the blanks around, when
\* that is in one piece; of several pieces the others are lost, and of a text that is
\* blank one blank is left.
TextIsRead ==
    AsksText =>
        /\ \A i \in Read : text[i] \notin {CDATA, CDATAEnd}
        /\ Apart => Read \subseteq Data
        /\ Apart /\ InOnePiece =>
              \/ Read = Meant
              \/ Meant = {} /\ found.len = 1 /\ text[found.from] \in Blanks

\* Numbers and booleans are read as they were written, in each of the bases, up to
\* the end of the section and no further; a text that is neither gives what
\* the program has set for none.
ValueIsRead ==
    pc = "answered" /\ element.group = "number" /\ call.on = "text" =>
        answer.num =
            CASE element.kind = "number" /\ call.op = "int" -> element.means
              [] element.kind = "number" /\ call.op = "bool" ->
                    (IF element.means = 0 THEN XML_FALSE ELSE XML_TRUE)
              [] element.kind = "word" /\ call.op = "bool" -> element.means
              [] OTHER -> setup.none

Kept == SubSeq(text, found.from, found.from + answer.num - 1)

\* Without a conversion a copy is the start of the text, ends inside of the buffer
\* and tells when it was cut; a string is never cut and fits the memory it got,
\* whatever the conversion makes of it.
CopyFits ==
    pc = "answered" /\ call.op \in {"string", "raw", "copy"} /\ answer.num > 0 =>
        IF call.op # "copy"
        THEN /\ answer.high <= 6 * found.len
             /\ answer.error = XML_NO_ERROR =>
                   answer.chars = SubSeq(text, found.from, found.from + found.len - 1)
        ELSE ~(setup.local /\ setup.cd) =>
             /\ answer.high < call.buflen /\ answer.chars = Kept
             /\ answer.num < found.len <=> answer.error = XML_TRUNCATE_RESULT

\* Every request ends, whatever the tag and the text are.
RequestsEnd == pc # "idle" ~> pc = "answered"
=============================================================================
