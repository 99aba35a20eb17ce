------------------------------ MODULE Scanner ------------------------------
(***************************************************************************)
(* __zeroxml_get_node (src/src/xml.c), the recursive scanner every use of  *)
(* the library rests on, with the node cache it fills while a document is  *)
(* opened.                                                                 *)
(*                                                                         *)
(* A document is a sequence of tokens with their widths in characters, so  *)
(* that a pointer is an offset, a name a short sequence of letters, and    *)
(* the lengths the code adds to pointers are the lengths of the text.  A   *)
(* recursive call is an activation record on the stack "calls"; pc says    *)
(* where the innermost activation is.                                      *)
(***************************************************************************)
EXTENDS NodeCache, XmlText

CONSTANTS
    Cases,          \* what is scanned for what: [doc, req, mode]
    Names,          \* the names of tags; what is no tag has the empty one
    MaxSize,        \* bound: the characters of a document
    MaxDepth        \* bound of CacheClient, more than any document nests

VARIABLES
    doc,    \* the section that is scanned, a sequence of tokens [kind, name]
    mode,   \* the flags of rid: [cached, comments]
    req,    \* what the outermost call looks for: [name, num, raw]
    pc,     \* the next step of the innermost activation
    calls,  \* activations of __zeroxml_get_node, the innermost last
    ret,    \* what the last activation returned
    root    \* rid->node

scanVars == <<doc, mode, req, pc, calls, ret, root>>
vars == <<scanVars, cacheVars>>

NoPos == -1        \* a NULL pointer into the document
AnyName == <<"*">>
BlockName == <<"!--">>
AllNums == -1      \* *nodenum: all nodes of the name

ASSUME CasesAssumption ==
    /\ Names \subseteq Seq(STRING) /\ <<>> \in Names
    /\ \A c \in Cases :
          /\ c.doc \in Seq([kind : Kinds, name : Names])
          /\ c.req \in [name : Seq(STRING), num : Nat \cup {AllNums}, raw : BOOLEAN]
          /\ c.mode \in [cached : BOOLEAN, comments : BOOLEAN]

\* "<>" is no tag, and "<!--" begins a comment.
ASSUME TagsAssumption ==
    \A c \in Cases : \A t \in DOMAIN c.doc :
        c.doc[t].kind \in ElementKinds \cup {"close"} =>
            c.doc[t].name \notin {<<>>, BlockName}

\* Only an open fills the cache, and it scans for every element.
ASSUME OpensAssumption ==
    \A c \in Cases :
        c.mode.cached => c.req.name = AnyName /\ c.req.num = AllNums

\* What a cell may say: a name, and a section of a document.
Sections ==
    {s \in [name : Names \cup {BlockName}, from : 0 .. MaxSize, len : 0 .. MaxSize] :
        s.from + s.len <= MaxSize}

ASSUME BoundsAssumption ==
    /\ MaxSize \in Nat /\ MaxDepth \in Nat /\ MaxSize < MaxDepth
    /\ \A c \in Cases : Size(c.doc) <= MaxSize
    /\ Sections \subseteq Payloads

cached == mode.cached           \* CACHED_NODES(rid)
CommentAsNode == mode.comments  \* COMMENT_AS_NODE(rid)

XML_NODE_NOT_FOUND == 3
XML_UNEXPECTED_EOF == 4
XML_INVALID_COMMENT == 6
XML_ELEMENT_NO_OPENING_TAG == 8
XML_ELEMENT_NO_CLOSING_TAG == 9
-----------------------------------------------------------------------------
(* The text. *)

At(t) == Off(doc, t)
End == Size(doc)
Kind(t) == doc[t].kind
IsBlock(t) == Kind(t) \in BlockKinds

\* MEMCHR(cur, '<', restlen): the tags at or behind an offset.
TagsFrom(cur) == {t \in DOMAIN doc : Kind(t) # "text" /\ At(t) >= cur}
NextTag(cur) == Min(TagsFrom(cur))

\* Is the character at an offset a '>'?
IsGt(p) ==
    \E t \in DOMAIN doc :
        /\ Kind(t) \notin {"text", "cut", "cutblock"}
        /\ p = At(t + 1) - 1

\* mutant: the name is not compared to its end
MatchesPrefix(needle, name) == needle = AnyName \/ IsPrefix(needle, name)

\* __zeroxml_memncasecmp: does a name match the name that is looked for?
Matches(needle, name) ==
    \/ needle = AnyName
    \/ /\ Len(needle) = Len(name)
       /\ \A i \in DOMAIN name : needle[i] \in {name[i], "?"}

\* !STRNCMP(rid, cur, element, elementlen), at the name of tag t
SameName(t, element) == IsPrefix(element, doc[t].name)

-----------------------------------------------------------------------------
(* Activations. *)

\* mutant: nnc is not initialised
ActivationGarbage(nc, name, num, start) ==
    [nc |-> nc, nnc |-> -1, name |-> name, num |-> num, start |-> start,
     cur |-> start, element |-> name, fresh |-> TRUE, rptr |-> NoPos,
     starttag |-> FALSE, rv |-> NoPos, buf |-> start, len |-> 0, found |-> 0]

Activation(nc, name, num, start) ==
    [nc |-> nc,           \* cell of this section
     nnc |-> NULL,        \* cell of the element that was seen last
     name |-> name, num |-> num, start |-> start,
     cur |-> start,
     element |-> name,    \* <<>> when elementlen is 0
     fresh |-> TRUE,      \* element == *name
     rptr |-> NoPos,      \* end of the opening tag, when its name matched
     starttag |-> FALSE,  \* start_tag # 0
     rv |-> NoPos, len |-> 0, found |-> 0,
     buf |-> start]       \* *buf

F == calls[Len(calls)]
SetTop(f) == [calls EXCEPT ![Len(calls)] = f]
\* mutant: when there is no new cell the last one is kept
WithCellKept(f, rv) == [f EXCEPT !.nnc = IF rv = NULL THEN @ ELSE rv]
WithCell(f, rv) == [f EXCEPT !.nnc = rv]
Wanted(f) == f.num \in {f.found, AllNums}
Head1(f, cur) == [f EXCEPT !.cur = cur, !.element = <<>>, !.fresh = FALSE]

\* __zeroxmlProcessCDATA: the section of a block, and where the scan goes on.
\* The outermost activation is RAW for an open; in the others, STRIPPED, the
\* section is the content of the block, and the scan goes on before its end
\* mark.
Raw == Len(calls) = 1 /\ req.raw
BlockSection(t) ==
    LET skipped == CASE Kind(t) = "comment" \/ Raw -> 1
                     [] Kind(t) = "cdata" /\ ~Raw -> 9
                     [] OTHER -> 7
        mark == CASE Kind(t) = "cdata" -> IF Raw THEN 0 ELSE 3
                  [] Kind(t) = "pi" /\ ~Raw -> 3
                  [] OTHER -> 1
    IN [name |-> BlockName, from |-> At(t) + skipped,
        len |-> Width(doc[t]) - skipped - mark]
BlockEnd(t) ==
    At(t + 1) - (CASE Raw \/ Kind(t) = "comment" -> 0
                   [] Kind(t) = "cdata" /\ ~Raw -> 3
                   [] OTHER -> 2)

\* The activation ends: with its rv, *buf, *len, *rlen = 0 and *nodenum.
ReturnWith(rv, buf, len, err, num) ==
    /\ ret' = [rv |-> rv, buf |-> buf, len |-> len, err |-> err, num |-> num]
    /\ pc' = "return"
    /\ calls' = Front(calls)

Fail(code) == ReturnWith(NoPos, F.buf, code, TRUE, 0)

\* __zeroxml_get_nodeExit
Leave(f) ==
    IF Wanted(f)
    THEN ReturnWith(f.rv, f.buf, f.len, FALSE, f.found)
    ELSE Fail(XML_NODE_NOT_FOUND)

Goto(label, f) == pc' = label /\ calls' = SetTop(f) /\ UNCHANGED ret
Keep == UNCHANGED <<doc, mode, req, root>>

-----------------------------------------------------------------------------
(* Opening: the root cell and the outermost call. *)

Init ==
    /\ CacheInit
    /\ \E c \in Cases : doc = c.doc /\ req = c.req /\ mode = c.mode
    /\ pc = "start" /\ calls = <<>> /\ root = NULL
    /\ ret = [rv |-> NoPos, buf |-> 0, len |-> 0, err |-> FALSE, num |-> 0]

Start ==
    /\ pc = "start"
    /\ \E rv \in CellOrNull :
          /\ IF cached THEN cacheInit(rv) ELSE rv = NULL /\ UNCHANGED cacheVars
          /\ root' = rv
          /\ calls' = <<Activation(rv, req.name, req.num, 0)>>
    /\ pc' = "enter"
    /\ UNCHANGED <<doc, mode, req, ret>>

\* A section shorter than the name is left with *len as it was.
EnterTooShort ==
    /\ pc = "enter" /\ Len(F.name) > End - F.start
    /\ Leave([F EXCEPT !.len = End - F.start])
    /\ Keep /\ UNCHANGED cacheVars

Enter ==
    /\ pc = "enter" /\ Len(F.name) <= End - F.start
    /\ cacheInitLevel(F.nc)
    /\ Goto("head", F)
    /\ Keep

-----------------------------------------------------------------------------
(* The head of the loop: the tag at or behind cur. *)

T == NextTag(F.cur)
AtTag == pc = "head" /\ TagsFrom(F.cur) # {}
Quiet == Keep /\ UNCHANGED cacheVars

NoMoreTags ==
    /\ pc = "head" /\ TagsFrom(F.cur) = {}
    /\ Leave(F) /\ Quiet

\* mutant: the '<' is not taken off the length
EndOfSubsectionLong ==
    /\ AtTag /\ Kind(T) = "close"
    /\ F.element = <<>> \/ ~SameName(T, F.element)
    /\ ReturnWith(F.rv, F.buf, At(T) - F.start, FALSE, 0)
    /\ Quiet

\* "different name?: end of a subsection": the caller goes on at this tag.
EndOfSubsection ==
    /\ AtTag /\ Kind(T) = "close"
    /\ F.element = <<>> \/ ~SameName(T, F.element)
    /\ ReturnWith(F.rv, F.buf, At(T) - F.start - 1, FALSE, 0)
    /\ Quiet

\* "returned from recursive and the same name: continue"
ElementCloses ==
    /\ AtTag /\ Kind(T) = "close" /\ ~F.fresh
    /\ F.element # <<>> /\ SameName(T, F.element)
    /\ Goto("closing", [F EXCEPT !.cur = At(T)])
    /\ Quiet

\* A closing tag of the name that is looked for comes first: what follows the
\* '<' is no name, and no text is left.
CloseBeforeOpen ==
    /\ AtTag /\ Kind(T) = "close" /\ F.fresh /\ SameName(T, F.element)
    /\ Fail(XML_ELEMENT_NO_OPENING_TAG) /\ Quiet

BlockCutOff ==
    /\ AtTag /\ Kind(T) = "cutblock"
    /\ Fail(XML_INVALID_COMMENT) /\ Quiet

BlockSkipped ==
    /\ AtTag /\ IsBlock(T) /\ ~CommentAsNode
    /\ Goto("head", Head1(F, BlockEnd(T))) /\ Quiet

\* A block becomes a leaf named "!--".
BlockNode ==
    /\ AtTag /\ IsBlock(T) /\ CommentAsNode
    /\ \E rv \in CellOrNull :
          /\ cacheNodeNew(F.nc, rv)
          /\ Goto(IF fault' THEN "crashed" ELSE "blockdata", WithCell(F, rv))
    /\ Keep

BlockData ==
    /\ pc = "blockdata"
    /\ cacheDataSet(F.nnc, BlockSection(T))
    /\ Goto("head", Head1(F, BlockEnd(T)))
    /\ Keep

\* The text ends in the tag: restlen is 0 behind the name.
TagCutOff ==
    /\ AtTag /\ Kind(T) = "cut" /\ Matches(F.name, doc[T].name)
    /\ Leave([F EXCEPT !.element = doc[T].name, !.fresh = FALSE])
    /\ Quiet

\* An opening tag of the name, or an empty element: its cell.
ElementFound ==
    /\ AtTag /\ Kind(T) \in {"open", "self"} /\ Matches(F.name, doc[T].name)
    /\ LET f == [F EXCEPT !.element = doc[T].name, !.fresh = FALSE,
                          !.cur = At(T + 1),
                          !.rptr = IF Kind(T) = "self" THEN At(T + 1) - 1
                                   ELSE At(T + 1)]
           seen == [f EXCEPT !.rv = IF Wanted(F) THEN At(T + 1) ELSE @,
                             !.buf = IF Wanted(F) THEN At(T + 1) ELSE @,
                             !.starttag = Wanted(F)]
       IN \E rv \in CellOrNull :
             /\ cacheNodeNew(F.nc, rv)
             /\ IF fault' THEN Goto("crashed", WithCell(f, rv))
                ELSE IF Kind(T) = "self" THEN Goto("selfdata", WithCell(f, rv))
                ELSE Goto("content", WithCell(seen, rv))
    /\ Keep

\* e.g. <test n="1"/>
SelfData ==
    /\ pc = "selfdata"
    /\ cacheDataSet(F.nnc, [name |-> F.element, from |-> F.rptr, len |-> 0])
    /\ LET f == IF Wanted(F) THEN [F EXCEPT !.rv = F.cur, !.buf = F.cur, !.len = 0] ELSE F
       IN IF Wanted(F) /\ F.num # AllNums
          THEN Leave(f)
          ELSE Goto("head", Head1([f EXCEPT !.found = @ + 1], F.cur))
    /\ Keep

\* Another name.  An empty element is passed over when text follows.
ElementOther ==
    /\ AtTag /\ Kind(T) \in {"open", "self", "cut"}
    /\ ~Matches(F.name, doc[T].name)
    /\ At(T) + 1 + Len(F.name) <= End
    /\ LET f == [F EXCEPT !.element = doc[T].name, !.fresh = FALSE,
                          !.cur = At(T + 1), !.rptr = NoPos,
                          !.rv = NoPos, !.buf = NoPos, !.len = 0]
       IN IF Kind(T) = "self" /\ End - f.cur >= 2
          THEN Goto("head", Head1(f, f.cur))
          ELSE Goto("content", f)
    /\ Quiet

\* Less text is left than the name is long: nothing is compared or skipped.
ElementTooLong ==
    /\ AtTag /\ Kind(T) \in {"open", "self", "cut"}
    /\ At(T) + 1 + Len(F.name) > End
    /\ Goto("content", [F EXCEPT !.element = F.name, !.fresh = TRUE,
                                 !.cur = At(T) + 1, !.rptr = NoPos,
                                 !.rv = NoPos, !.buf = NoPos, !.len = 0])
    /\ Quiet

-----------------------------------------------------------------------------
(* Behind an opening tag: the next tag decides between leaf and section. *)

NothingFollows == pc = "content" /\ F.rptr # NoPos /\ End - F.cur < 2
InContent == pc \in {"content", "afterblock"} /\ ~NothingFollows

\* The text ends in an opening tag: its section is left, its cell stays empty.
OpenAtEnd ==
    /\ NothingFollows
    /\ Leave(F) /\ Quiet

ContentEnds ==
    /\ InContent /\ TagsFrom(F.cur) = {}
    /\ Fail(IF pc = "content" THEN XML_ELEMENT_NO_OPENING_TAG
            ELSE XML_ELEMENT_NO_CLOSING_TAG)
    /\ Quiet

\* mutant: cur is not set to the end of the block
ContentBlockAgain ==
    /\ InContent /\ TagsFrom(F.cur) # {} /\ Kind(T) \in {"comment", "cdata"}
    /\ Goto("afterblock", F)
    /\ Quiet

\* Comments and CDATA between an opening tag and the next tag get no cell.
ContentBlock ==
    /\ InContent /\ TagsFrom(F.cur) # {}
    /\ Kind(T) \in {"comment", "cdata"}
    /\ Goto("afterblock", [F EXCEPT !.cur = BlockEnd(T)])
    /\ Quiet

ContentCutOff ==
    /\ InContent /\ TagsFrom(F.cur) # {}
    /\ Kind(T) = "cutblock"
    /\ Fail(XML_INVALID_COMMENT) /\ Quiet

ContentClose ==
    /\ InContent /\ TagsFrom(F.cur) # {}
    /\ Kind(T) = "close"
    /\ Goto("closing", [F EXCEPT !.cur = At(T)])
    /\ Quiet

\* mutant: the level of the parent is handed on
CallSameLevel ==
    /\ calls' = Append(SetTop([F EXCEPT !.cur = At(T) + 1]),
                       Activation(F.nc, AnyName, AllNums, At(T)))
    /\ pc' = "enter"
    /\ UNCHANGED ret

\* __zeroxml_get_node(xid, nnc, &new, &slen, "*", 1, -1, STRIPPED), new = cur-1
Call ==
    /\ calls' = Append(SetTop([F EXCEPT !.cur = At(T) + 1]),
                       Activation(F.nnc, AnyName, AllNums, At(T)))
    /\ pc' = "enter"
    /\ UNCHANGED ret

ContentChild ==
    /\ InContent /\ TagsFrom(F.cur) # {}
    /\ Kind(T) \in {"open", "self", "cut", "pi"}
    /\ Call /\ Quiet

-----------------------------------------------------------------------------
(* At a closing tag: ps is behind as many characters as the name has. *)

Ps == At(T) + Len(F.element) + 2

\* Not the end of the tag: the section is given up without an error.
ClosingOther ==
    /\ pc = "closing" /\ ~IsGt(Ps)
    /\ Leave(F) /\ Quiet

\* The end of an element that is passed over; its name is not compared.
ClosingPassedOver ==
    /\ pc = "closing" /\ IsGt(Ps) /\ F.rptr = NoPos
    /\ Goto("head", Head1(F, Ps + 1)) /\ Quiet

\* "a closing tag of a leaf node is found", or of a section that was scanned.
ClosingMatch ==
    /\ pc = "closing" /\ IsGt(Ps) /\ F.rptr # NoPos /\ SameName(T, F.element)
    /\ cacheDataSet(F.nnc, [name |-> F.element, from |-> F.rptr,
                            len |-> At(T) - F.rptr])
    /\ IF ~Wanted(F)
       THEN Goto("head", Head1([F EXCEPT !.found = @ + 1], At(T + 1)))
       ELSE IF ~F.starttag
            THEN Leave([F EXCEPT !.found = 0])
            ELSE LET f == [F EXCEPT !.len = At(T) - F.rv, !.starttag = FALSE]
                 IN IF F.num # AllNums
                    THEN Leave(f)
                    ELSE Goto("head", Head1([f EXCEPT !.found = @ + 1], Ps + 1))
    /\ Keep

\* A name of the same length: scanned as if a section began here.
ClosingMismatch ==
    /\ pc = "closing" /\ IsGt(Ps) /\ F.rptr # NoPos /\ ~SameName(T, F.element)
    /\ Call /\ Quiet

-----------------------------------------------------------------------------
(* Back from the recursive call. *)

\* mutant: the length is added twice
ResumeTwice ==
    /\ pc = "return" /\ calls # <<>> /\ ret.rv # NoPos
    /\ Goto("head", [F EXCEPT !.cur = @ + 2 * ret.len])
    /\ Quiet

Resume ==
    /\ pc = "return" /\ calls # <<>> /\ ret.rv # NoPos
    /\ Goto("head", [F EXCEPT !.cur = @ + ret.len])
    /\ Quiet

\* An error upstream is handed on; else the length that came back is compared
\* with what was left and becomes the error code.
Unwind ==
    /\ pc = "return" /\ calls # <<>> /\ ret.rv = NoPos
    /\ Fail(IF ~ret.err /\ ret.len = End - F.cur
            THEN XML_UNEXPECTED_EOF ELSE ret.len)
    /\ Quiet

Finish ==
    /\ pc = "return" /\ calls = <<>>
    /\ pc' = "done" /\ UNCHANGED <<calls, ret>>
    /\ Quiet

\* The open failed and frees the tree, or xmlClose does later.
Release ==
    /\ pc = "done"
    /\ FreeCall(root)
    /\ pc' = "free" /\ UNCHANGED <<calls, ret>>
    /\ Keep

FreeStep ==
    /\ pc = "free"
    /\ FreeChild \/ FreeSelf
    /\ UNCHANGED scanVars

Closed ==
    /\ pc = "free" /\ frames = <<>>
    /\ pc' = "closed" /\ UNCHANGED <<calls, ret>>
    /\ Quiet

\* A store through a bad pointer ends the process.
Stopped == (pc \in {"closed", "crashed"} \/ fault) /\ UNCHANGED vars

ScanStep ==
    \/ Start \/ EnterTooShort \/ Enter
    \/ NoMoreTags \/ EndOfSubsection \/ ElementCloses \/ CloseBeforeOpen
    \/ BlockCutOff \/ BlockSkipped \/ BlockNode \/ BlockData
    \/ TagCutOff \/ ElementFound \/ SelfData \/ ElementOther \/ ElementTooLong
    \/ OpenAtEnd \/ ContentEnds \/ ContentBlock \/ ContentCutOff \/ ContentClose \/ ContentChild
    \/ ClosingOther \/ ClosingPassedOver \/ ClosingMatch \/ ClosingMismatch
    \/ Resume \/ Unwind \/ Finish \/ Release \/ FreeStep \/ Closed

Next == ScanStep \/ Stopped

\* One thread scans a document: it goes on until it is done.
Spec == Init /\ [][Next]_vars /\ WF_vars(ScanStep)

-----------------------------------------------------------------------------
(* Properties. *)

\* The stack and what comes back are well typed; the cells are CacheClient's.
TypeOK ==
    /\ pc \in {"start", "enter", "head", "blockdata", "selfdata", "content",
              "afterblock", "closing", "return", "done", "free", "closed",
              "crashed"}
    /\ root \in CellOrNull
    /\ \A i \in DOMAIN calls :
          /\ {calls[i].nc, calls[i].nnc} \subseteq CellOrNull
          /\ calls[i].num \in Nat \cup {AllNums}
          /\ calls[i].found \in Nat
    /\ ret.err \in BOOLEAN /\ ret.rv \in Nat \cup {NoPos}

\* The lengths that are added to the pointers never take the cursor of an
\* activation or the data of a cell out of the text, whatever the text
\* ("assert(cur+restlen == end)", src/xml.c:1820 and on).
InText ==
    /\ \A i \in DOMAIN calls : calls[i].cur \in 0 .. End
    /\ \A n \in live : payload[n] # Blank =>
          payload[n].len >= 0 /\ payload[n].from + payload[n].len <= End

\* What cacheDataSet should say of element i.
Entry(i) ==
    [name |-> doc[i].name, len |-> ContentLen(doc, i),
     from |-> IF Kind(i) = "self" THEN At(i + 1) - 1 ELSE At(i + 1)]
IsEntry(n, i) == IF i = 0 THEN n = root ELSE payload[n] = Entry(i)

\* The places among the children of a cell that stand for elements.
ElementPlaces(n) ==
    {k \in DOMAIN Children(n) :
        LET c == Children(n)[k] IN payload[c] = Blank \/ payload[c].name # BlockName}

\* When no allocation fails a well-formed document is opened, and the cached
\* tree is its element tree: a cell for each element with the name and the text
\* between its tags, and the cells below it are those of the elements directly
\* inside of it, each once and in the order of the text.
WellFormedIsCached ==
    pc = "done" /\ cached /\ failed = 0 /\ WellFormed(doc) =>
        /\ ret.rv # NoPos
        /\ \A i \in Elements(doc) \cup {0} : \E n \in live :
              /\ IsEntry(n, i)
              /\ LET inner == {j \in Elements(doc) : Parent(doc, j) = i}
                     shown(k) == payload[Children(n)[k]]
                 IN /\ {shown(k) : k \in ElementPlaces(n)} = {Entry(j) : j \in inner}
                    /\ \A k, l \in ElementPlaces(n) :
                          k < l => shown(k).from < shown(l).from

\* No cell is made up: also when allocations fail, which loses cells without an
\* error, a cell that is there describes an element and hangs below the cell of
\* the element it is in.
CellsAreElements ==
    pc = "done" /\ WellFormed(doc) =>
        \A n \in live \ {root} :
            /\ payload[n] # Blank
            /\ payload[n].name # BlockName =>
                  \E i \in Elements(doc) :
                     IsEntry(n, i) /\ IsEntry(parent[n], Parent(doc, i))

\* The open always comes to an end, and so does cacheFree after it.
Terminates == <>(pc \in {"closed", "crashed"})

\* The scanner calls the cache as CacheClient says: a cell gets one level, and
\* only the cells of the innermost activation change.
clientLevels ==
    LET n == IF pc = "enter" THEN Len(calls) - 1 ELSE Len(calls)
    IN [i \in 1 .. n |-> [nc |-> calls[i].nc, nnc |-> calls[i].nnc]]
clientPhase ==
    CASE pc = "start" -> "start"
      [] pc = "enter" /\ Len(calls) = 1 -> "opened"
      [] pc = "done" \/ (pc = "return" /\ calls = <<>>) -> "scanned"
      [] pc = "free" -> "freeing"
      [] pc = "closed" -> "closed"
      [] OTHER -> "scanning"

Client == INSTANCE CacheClient WITH levels <- clientLevels, phase <- clientPhase

ObeysClient == Client!Init /\ [][Client!Next]_Client!vars

\* A lookup in the text (XML_SCAN_NODES) finds the element of a section that is
\* asked for by name and number, with its text, and no other.
Named(name) ==
    SelectSeq(Inside(doc, 0, ElementKinds), LAMBDA i : NameIs(name, doc[i].name))

ScanFindsElement ==
    pc = "done" /\ Balanced(doc) /\ req.num # AllNums =>
        LET hits == Named(req.name)
        IN IF req.num < Len(hits)
           THEN LET i == hits[req.num + 1]
                IN ret.rv = At(i + 1) /\ ret.len = ContentLen(doc, i)
           ELSE ret.rv = NoPos

-----------------------------------------------------------------------------
(* What the documentation says and the scanner does not do. *)

\* A validating open reports "errors in the XML document" (README.md:144).
ErrorsAreReported == pc = "done" /\ ~Balanced(doc) => ret.rv = NoPos
=============================================================================
