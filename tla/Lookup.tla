------------------------------- MODULE Lookup -------------------------------
(***************************************************************************)
(* Requests on an open document: xmlNodeGet follows a path, xmlNodeGetPos  *)
(* takes the nth node of a name, xmlNodeGetNum counts the nodes of a name. *)
(* Each works on the section of an id, and each exists twice: on the cells *)
(* of the node cache, or, with XML_SCAN_NODES, by a scan of the section.   *)
(*                                                                         *)
(* A behaviour opens a document in one of the modes and then makes any     *)
(* number of requests, from the document and from the ids it gets.  The    *)
(* documents are some that open: what becomes of others is Scanner's.      *)
(***************************************************************************)
EXTENDS Scanner

CONSTANTS
    Paths,     \* sequences of components [name, index]
    IndexBase  \* 1 for XML_INDEX_STARTS_AT_ONE, 0 for ..._AT_ZERO

ASSUME IndexAssumption == IndexBase \in 0 .. 1

VARIABLES
    text,    \* the document; "doc" is the section that is scanned
    stage,   \* "open", "idle", "walk", "step", "count", "scan", "answered"
    id,      \* the id the program works with
    ask,     \* the request: [kind, path, raw]
    path,    \* components that are left to walk
    sec,     \* the section the walk has come to
    answer   \* what was returned: a section, NoSection, or a number

lookupVars == <<text, stage, id, ask, path, sec, answer>>
allVars == <<vars, lookupVars>>

NoIndex == -1      \* a component without [n]
NoSection == [start |-> NoPos, len |-> 0, cell |-> NULL]
NoAsk == [kind |-> "none", path |-> <<>>, raw |-> FALSE]
RestRequest == [name |-> AnyName, num |-> AllNums, raw |-> TRUE]

\* The id of the document: rid->start, rid->len, rid->node.
RootId == [start |-> 0, len |-> Size(text), cell |-> root]

-----------------------------------------------------------------------------
(* Paths. *)

\* The length of the rest of a path, "/a/b[1]".
PathLen(p) ==
    FoldLeft(LAMBDA n, c : n + 1 + Len(c.name) + (IF c.index = NoIndex THEN 0 ELSE 3),
             0, p)

\* The number a component asks for; without an index the first.
Num(c) == IF c.index = NoIndex THEN 0 ELSE c.index - IndexBase

-----------------------------------------------------------------------------
(* The lookup in the cache. *)

\* mutant: names are compared up to the length of the name of the node
SameCellNamePrefix(c, name) == IsPrefix(payload[c].name, name)
\* node->name_len == namelen && !strncasecmp(...)
SameCellName(c, name) == payload[c].name = name

\* mutant: the search does not stop at the node
PickLast(hits, num) == Last(hits)
Pick(hits, num) == IF num = AllNums THEN Last(hits) ELSE hits[num + 1]

\* __zeroxml_get_node_from_cache: the cell, NULL when there is none, and *nodenum.
\* A cell without children answers for itself, whatever the name.
FromCache(cell, name, num) ==
    LET cells == Children(cell)
        hits == SelectSeq(cells, LAMBDA c : SameCellName(c, name))
        none == [cell |-> NULL, num |-> num]
    IN IF cells = <<>>
       THEN IF payload[cell] = Blank THEN none ELSE [cell |-> cell, num |-> 0]
       ELSE IF num >= Len(cells) THEN none
       ELSE IF name = AnyName
       THEN [cell |-> cells[IF num > 0 THEN num + 1 ELSE 1], num |-> Len(cells)]
       ELSE IF hits = <<>> \/ num >= Len(hits) THEN none
       ELSE [cell |-> Pick(hits, num), num |-> IF num = AllNums THEN Len(hits) ELSE num]

CellSection(c) == [start |-> payload[c].from, len |-> payload[c].len, cell |-> c]

-----------------------------------------------------------------------------
(* The lookup in the text: __zeroxml_get_node on the section. *)

Tokens(s) ==
    LET inside == {t \in DOMAIN text :
                      Off(text, t) >= s.start /\ Off(text, t + 1) <= s.start + s.len}
    IN IF inside = {} THEN <<>> ELSE SubSeq(text, Min(inside), Max(inside))

Scan ==
    /\ stage = "scan" \/ (stage = "open" /\ cached)
    /\ pc # "done"
    /\ ScanStep
    /\ UNCHANGED lookupVars

-----------------------------------------------------------------------------
(* Opening. *)

LInit ==
    /\ Init /\ text = doc
    /\ stage = "open" /\ id = NoSection
    /\ ask = NoAsk /\ path = <<>> /\ sec = NoSection /\ answer = NoSection

\* What is left of a scan is not used again.
Quiesce ==
    /\ doc' = text /\ req' = RestRequest
    /\ ret' = [rv |-> NoPos, buf |-> 0, len |-> 0, err |-> FALSE, num |-> 0]
    /\ pc' = "done"
    /\ UNCHANGED <<mode, calls, root, cacheVars>>

Opened ==
    /\ stage = "open" /\ (cached => pc = "done" /\ ret.rv # NoPos)
    /\ stage' = "idle"
    /\ id' = RootId
    /\ Quiesce
    /\ UNCHANGED <<text, ask, path, sec, answer>>

-----------------------------------------------------------------------------
(* The requests. *)

\* The cache makes no difference between RAW and STRIPPED.
Ask(kind, p, raw) ==
    /\ stage = "idle" /\ (raw => ~cached)
    /\ ask' = [kind |-> kind, path |-> p, raw |-> raw]
    /\ sec' = id
    /\ UNCHANGED <<text, id, vars>>

Get(p) ==
    /\ Ask("get", p, FALSE)
    /\ path' = p /\ stage' = "walk" /\ UNCHANGED answer

\* xmlNodeGetPos, or xmlNodeGetPosRaw, takes a name and a number, and looks at
\* no path.
GetPos(c, raw) ==
    /\ Num(c) >= 0
    /\ Ask("pos", <<c>>, raw)
    /\ path' = <<c>> /\ stage' = "step" /\ UNCHANGED answer

\* xmlNodeGetNum, or xmlNodeGetNumRaw, walks the path behind its first '/', and counts the nodes of
\* that name in what it finds there.  Of the paths with a '/', those of two
\* plain names.
GetNum(p, raw) ==
    /\ Len(p) = 1 \/ (Len(p) = 2 /\ p[2].name # AnyName)
    /\ \A i \in DOMAIN p : p[i].index = NoIndex
    /\ Ask("num", p, raw)
    /\ path' = Tail(p)
    /\ IF id.len = 0
       THEN stage' = "answered" /\ answer' = 0
       ELSE stage' = (IF Len(p) = 1 THEN "count" ELSE "walk") /\ UNCHANGED answer

\* The end of a walk.
Arrive(s) ==
    /\ sec' = s /\ path' = <<>>
    /\ IF ask.kind # "num"
       THEN answer' = s /\ stage' = "answered"
       ELSE IF s # NoSection
            THEN stage' = "count" /\ UNCHANGED answer
            ELSE stage' = "answered" /\ answer' = 0
    /\ UNCHANGED <<text, id, ask>>

\* A component was found: its section, and the rest of the path.
Advance(s) ==
    IF Len(path) = 1
    THEN Arrive(s)
    ELSE /\ sec' = s /\ path' = Tail(path) /\ stage' = "walk"
         /\ UNCHANGED <<text, id, ask, answer>>

\* "*nlen > *len"; xmlNodeGetNum has taken off the first '/'.
Width0 == IF ask.kind = "num" THEN 1 ELSE 0
TooLong == PathLen(path) - Width0 > sec.len

\* __zeroxml_node_get_path gives up without a look at the section.
Refused ==
    /\ stage = "walk" /\ (sec.len = 0 \/ TooLong \/ Num(Head(path)) < 0)
    /\ Arrive(NoSection)
    /\ UNCHANGED vars

Walk ==
    /\ stage = "walk" /\ sec.len # 0 /\ ~TooLong /\ Num(Head(path)) >= 0
    /\ stage' = "step"
    /\ UNCHANGED <<text, id, ask, path, sec, answer, vars>>

StepCached ==
    /\ stage = "step" /\ cached
    /\ LET hit == FromCache(sec.cell, Head(path).name, Num(Head(path))).cell
       IN IF hit # NULL THEN Advance(CellSection(hit)) ELSE Arrive(NoSection)
    /\ UNCHANGED vars

CountCached ==
    /\ stage = "count" /\ cached
    /\ LET hit == FromCache(sec.cell, Last(ask.path).name, AllNums)
       IN answer' = IF hit.cell = NULL THEN 0 ELSE hit.num
    /\ stage' = "answered"
    /\ UNCHANGED <<text, id, ask, path, sec, vars>>

\* mode: a path is walked STRIPPED.
BeginScan ==
    /\ stage \in {"step", "count"} /\ ~cached
    /\ doc' = Tokens(sec)
    /\ req' = IF stage = "count"
              THEN [name |-> Last(ask.path).name, num |-> AllNums, raw |-> ask.raw]
              ELSE [name |-> Head(path).name, num |-> Num(Head(path)),
                    raw |-> ask.raw /\ ask.kind = "pos"]
    /\ pc' = "start" /\ stage' = "scan"
    /\ UNCHANGED <<mode, calls, ret, root, cacheVars>>
    /\ UNCHANGED <<text, id, ask, path, sec, answer>>

ScanEnded == stage = "scan" /\ pc = "done"

StepFound ==
    /\ ScanEnded /\ path # <<>> /\ ret.rv # NoPos
    /\ Advance([start |-> sec.start + ret.buf, len |-> ret.len, cell |-> NULL])
    /\ Quiesce

\* mutant: the length of the failed scan is used
LeftOverLen == [start |-> sec.start + ret.buf, len |-> ret.len, cell |-> NULL]
\* What a path returns when nothing was found, and no error: where *buf is.
LeftOver == [start |-> sec.start + ret.buf, len |-> sec.len, cell |-> NULL]

StepMissed ==
    /\ ScanEnded /\ path # <<>> /\ ret.rv = NoPos
    /\ Arrive(IF ret.err \/ ret.buf = NoPos \/ ask.kind = "pos"
              THEN NoSection ELSE LeftOver)
    /\ Quiesce

\* A NULL with a length is taken for an error.
Count == IF ret.rv = NoPos /\ ret.len # 0 THEN 0 ELSE ret.num

CountScanned ==
    /\ ScanEnded /\ path = <<>>
    /\ answer' = Count /\ stage' = "answered"
    /\ Quiesce
    /\ UNCHANGED <<text, id, ask, path, sec>>

\* The program goes on with the id it got, or with the one it has.
Continue(s) ==
    /\ stage = "answered"
    /\ id' = s /\ stage' = "idle"
    /\ ask' = NoAsk /\ path' = <<>> /\ sec' = NoSection /\ answer' = NoSection
    /\ UNCHANGED <<text, vars>>

GoOn == Continue(id)
GoInto == ask.kind # "num" /\ answer # NoSection /\ Continue(answer)

LNext ==
    \/ Scan \/ Opened
    \/ \E p \in Paths :
          \/ Get(p)
          \/ \E raw \in BOOLEAN :
                \/ Len(p) = 1 /\ GetPos(p[1], raw)
                \/ GetNum(p, raw)
    \/ Refused \/ Walk \/ StepCached \/ CountCached
    \/ BeginScan \/ StepFound \/ StepMissed \/ CountScanned
    \/ GoOn \/ GoInto

LSpec == LInit /\ [][LNext]_allVars

-----------------------------------------------------------------------------
(* Properties. *)

None == -1

\* The comments and CDATA sections that are nodes, as far as comments are: those
\* behind an element of their section, and all outside of the document element.
IsNode(i) ==
    /\ text[i].kind \in BlockKinds /\ cached /\ CommentAsNode
    /\ \/ Parent(text, i) = 0
       \/ \E j \in Elements(text) : j < i /\ Parent(text, j) = Parent(text, i)

\* The nodes of a name in element e.  "*" counts all, the others elements only.
NamedIn(e, name) ==
    SelectSeq(Inside(text, e, ElementKinds \cup BlockKinds),
              LAMBDA i : IF i \in Elements(text) THEN NameIs(name, text[i].name)
                         ELSE name = AnyName /\ IsNode(i))

\* The element a path denotes, seen from element e; 0 is the document.
Denotes(e, p) ==
    FoldLeft(LAMBDA at, c :
                LET named == NamedIn(at, c.name)
                IN IF Num(c) \in 0 .. Len(named) - 1 THEN named[Num(c) + 1] ELSE None,
             e, p)

LenOf(e) == IF e = 0 THEN Size(text) ELSE ContentLen(text, e)

\* The section of element e, and its cell.  The section of an empty element is
\* empty: the scan puts it behind the tag, the cache before the last character.
IsSectionOf(s, e) ==
    IF e = 0 THEN s = RootId
    ELSE IF e \notin Elements(text)
    THEN /\ CellSection(s.cell) = s /\ payload[s.cell].name = BlockName
         /\ s.start >= Off(text, e) /\ s.start + s.len <= Off(text, e + 1)
    ELSE /\ s.len = LenOf(e)
         /\ s.start = Off(text, e + 1) - (IF cached /\ text[e].kind = "self" THEN 1 ELSE 0)
         /\ cached => payload[s.cell].name = text[e].name /\ CellSection(s.cell) = s

Here == CHOOSE e \in Elements(text) \cup {0} \cup {i \in DOMAIN text : IsNode(i)} :
            IsSectionOf(id, e)
Target == Denotes(Here, ask.path)
Answered(kinds) == stage = "answered" /\ ask.kind \in kinds

\* A path, and what is left of it at each step, is no longer than the section.
Fits ==
    \A k \in DOMAIN ask.path :
        PathLen(SubSeq(ask.path, k, Len(ask.path)))
            <= LenOf(Denotes(Here, SubSeq(ask.path, 1, k - 1)))

\* The cache knows no "?".
Plain == cached => \A i \in DOMAIN ask.path : "?" \notin ToSet(ask.path[i].name)

\* In both modes, from every id: when a path or a name and number denote a
\* node, the request returns its section and its cell, unless the path is longer
\* than a section on its way.  So both modes return the same for a name; for "*"
\* they do not, where comments are nodes: these have numbers in the cache only.
FindsNode ==
    Answered({"get", "pos"}) /\ Target # None /\ Plain /\ (ask.kind = "get" => Fits)
        => IsSectionOf(answer, Target)

\* What is returned when there is no such element is wrong in one way only: it
\* is the section in which the walk has ended, never another node.
MissStaysPut ==
    Answered({"get", "pos"}) /\ Target = None /\ answer # NoSection =>
        \E k \in 0 .. Len(ask.path) - 1 :
            LET e == Denotes(Here, SubSeq(ask.path, 1, k))
            IN e # None /\ IsSectionOf(answer, e)

\* In the cache, the number of nodes of a name in an id is what xmlNodeGetPos
\* can be asked for.
CountsNodes ==
    Answered({"num"}) /\ cached /\ Plain /\ Len(ask.path) = 1 =>
        answer = Len(NamedIn(Here, ask.path[1].name))

-----------------------------------------------------------------------------
(* What the documentation says and the lookups do not do. *)

\* A path "resolves to a node" or it does not (README.md:172).
MissIsNull == Answered({"get"}) /\ Target = None => answer = NoSection
=============================================================================
