------------------------------ MODULE Document ------------------------------
(***************************************************************************)
(* The life of a document (src/src/xml.c): xmlOpenFlags,                   *)
(* xmlInitBufferFlags, xmlSetFlags, xmlNodeCopy, xmlNodeCopyPos and        *)
(* xmlClose, with every resource they acquire and every call of theirs     *)
(* that may fail.                                                          *)
(*                                                                         *)
(* A function of the library is one action per way through it.  The tree,  *)
(* the scan and the conversion of the text are the other modules' matter:  *)
(* of a text it only matters how long it is, how much of it is the XML     *)
(* declaration, whether a scan of all its nodes succeeds, with which       *)
(* number it fails, and what the texts of its nodes are.                   *)
(***************************************************************************)
EXTENDS Integers, FiniteSets

CONSTANTS
    Ids,          \* one for every document the program may come to have
    Texts,        \* what files, buffers and nodes contain
    Size,         \* [Texts -> Nat], in bytes
    Declaration,  \* [Texts -> Nat], bytes up to the end of the XML declaration
    Parses,       \* the texts in which the scan for all nodes succeeds
    ScanCode,     \* [Texts -> Nat], what a scan that fails leaves in its len
    Parts,        \* [Texts -> SUBSET Texts], the texts of the nodes, not empty
    FlagSets,     \* values of the flags parameters: sets of bit positions
    PageSize,     \* of the system
    MaxFailures   \* bound: calls to the system that may fail

ASSUME DocumentAssumption ==
    /\ Size \in [Texts -> Nat] /\ Declaration \in [Texts -> Nat]
    /\ \A t \in Texts : Declaration[t] <= Size[t]
    /\ ScanCode \in [Texts -> Nat]
    /\ Parses \subseteq Texts /\ Parts \in [Texts -> SUBSET Texts]
    /\ PageSize \in Nat \ {0}
    /\ MaxFailures \in Nat

VARIABLES
    docs,      \* [Ids -> struct _root_id and where it is in its life]
    held,      \* [Ids -> what was acquired for a document and not released]
    pages,     \* [Ids -> SUBSET Nat], pages of its file that are mapped
    twice,     \* what was released without being held
    failures,  \* calls to the system that have failed
    crashed    \* the process died of a NULL pointer

vars == <<docs, held, pages, twice, failures, crashed>>

MMAP_ERROR == -1
MMAP_FREE == -2
MMAP_FD == 3        \* any descriptor

\* The bits of enum xmlFlags.
XML_INDEX_STARTS_AT_ONE == 0
XML_INDEX_STARTS_AT_ZERO == 1
XML_RETURN_NONE_VALUE == 2
XML_RETURN_ZERO == 3
XML_CASE_INSENSITIVE == 4
XML_CASE_SENSITIVE == 5
XML_IGNORE_COMMENT == 6
XML_COMMENT_AS_NODE == 7
XML_NONVALIDATING == 8
XML_VALIDATING == 9
XML_SCAN_NODES == 10
XML_CACHE_NODES == 11
XML_US_ASCII == 12
XML_LOCALIZATION == 13
XML_DEFAULT_FLAGS == 0 .. 31        \* -1

\* The bits of enum _xml_flags.
ONE == 0
NONE_VALUE == 1
CASE_SENS == 2
COMMENT == 3
VALIDATE == 4
CACHED == 5
LOCAL_TEXT == 6
Modes == ONE .. LOCAL_TEXT

Resources == {"rid", "fd", "text", "name", "locale", "cd", "node", "info"}
Absent == [state |-> "new"]

-----------------------------------------------------------------------------
(* xmlSetFlags: of each pair of flags the first one wins. *)

Pairs ==
    {[mode |-> ONE,        on |-> XML_INDEX_STARTS_AT_ONE, off |-> XML_INDEX_STARTS_AT_ZERO, first |-> TRUE],
     [mode |-> NONE_VALUE, on |-> XML_RETURN_NONE_VALUE,   off |-> XML_RETURN_ZERO,          first |-> FALSE],
     [mode |-> CASE_SENS,  on |-> XML_CASE_SENSITIVE,      off |-> XML_CASE_INSENSITIVE,     first |-> TRUE],
     [mode |-> COMMENT,    on |-> XML_COMMENT_AS_NODE,     off |-> XML_IGNORE_COMMENT,       first |-> TRUE],
     [mode |-> VALIDATE,   on |-> XML_VALIDATING,          off |-> XML_NONVALIDATING,        first |-> TRUE],
     [mode |-> CACHED,     on |-> XML_CACHE_NODES,         off |-> XML_SCAN_NODES,           first |-> TRUE],
     [mode |-> LOCAL_TEXT, on |-> XML_LOCALIZATION,        off |-> XML_US_ASCII,             first |-> TRUE]}

TurnedOn(flags) ==
    {p.mode : p \in {q \in Pairs : q.on \in flags /\ (q.first \/ q.off \notin flags)}}
TurnedOff(flags) ==
    {p.mode : p \in {q \in Pairs : q.off \in flags /\ (~q.first \/ q.on \notin flags)}}

\* mutant: lcase is taken from the first flag that is seen
WithFlagsLcase(rid, flags) ==
    [rid EXCEPT
        !.flags = (@ \ TurnedOff(flags)) \cup TurnedOn(flags),
        !.strncmp = IF XML_CASE_SENSITIVE \in flags THEN "strncmp"
                    ELSE IF XML_CASE_INSENSITIVE \in flags THEN "strncasecmp"
                    ELSE @,
        !.lcase = IF XML_CASE_INSENSITIVE \in flags THEN "tolower_l"
                  ELSE IF XML_CASE_SENSITIVE \in flags THEN "NULL"
                  ELSE @]

\* The comparison functions follow the case flag; lcase is NULL when strncmp is
\* strncmp.
WithFlags(rid, flags) ==
    [rid EXCEPT
        !.flags = (@ \ TurnedOff(flags)) \cup TurnedOn(flags),
        !.strncmp = IF XML_CASE_SENSITIVE \in flags THEN "strncmp"
                    ELSE IF XML_CASE_INSENSITIVE \in flags THEN "strncasecmp"
                    ELSE @,
        !.lcase = IF XML_CASE_SENSITIVE \in flags THEN "NULL"
                  ELSE IF XML_CASE_INSENSITIVE \in flags THEN "tolower_l"
                  ELSE @]

\* mutant: the default flags are not set
FreshBare(text, flags) ==
    WithFlags([state |-> "open", text |-> text, fd |-> 0, len |-> 0,
               flags |-> {}, strncmp |-> "NULL", lcase |-> "NULL",
               node |-> FALSE, info |-> FALSE, locale |-> FALSE, cd |-> FALSE], flags)
\* calloc, and the flags of an open: the default ones, then those that are given.
Fresh(text, flags) ==
    WithFlags(WithFlags([state |-> "open", text |-> text, fd |-> 0, len |-> 0,
                         flags |-> {}, strncmp |-> "NULL", lcase |-> "NULL",
                         node |-> FALSE, info |-> FALSE, locale |-> FALSE,
                         cd |-> FALSE],
                        XML_DEFAULT_FLAGS),
              IF flags = XML_DEFAULT_FLAGS THEN {} ELSE flags)

-----------------------------------------------------------------------------
(* Acquiring and releasing. *)

PageSpan(bytes) == 0 .. (bytes + PageSize - 1) \div PageSize - 1

\* The calls that may fail when a text is opened, and how many did.
Luck == [name : BOOLEAN, locale : BOOLEAN, node : BOOLEAN, info : BOOLEAN]
Failed(luck) == Cardinality({c \in DOMAIN luck : ~luck[c]})

Mishaps(n) == failures' = failures + n /\ failures' <= MaxFailures
Exchange(i, got, gone) ==
    /\ held' = [held EXCEPT ![i] = (@ \cup got) \ gone]
    /\ twice' = twice \cup {<<i, r>> : r \in gone \ (held[i] \cup got)}

\* The document is not to be had any more; why and which text is history.
GivenUp(i, why, text) == docs' = [docs EXCEPT ![i] = [state |-> why, text |-> text]]

Crash ==
    /\ crashed' = TRUE
    /\ UNCHANGED <<docs, held, pages, twice>>

Ready(i) == ~crashed /\ docs[i].state = "new"

\* mutant: the name of the locale is not freed
DroppedLess == {"rid", "node", "info"}
\* What of the acquired is freed before xmlInitBufferFlags and xmlOpenFlags give
\* up on a text they cannot scan: the locale object is not.
DroppedOnError == {"rid", "node", "info", "name"}

Acquired(luck, rid) ==
    {"rid"} \cup (IF luck.name THEN {"name"} ELSE {})
            \cup (IF luck.locale /\ luck.name THEN {"locale"} ELSE {})
            \cup (IF luck.node /\ CACHED \in rid.flags THEN {"node"} ELSE {})
Scans(rid) == CACHED \in rid.flags => rid.text \in Parses

\* The document is handed to the program: iconv_open may know no such encoding.
HandOut(i, rid, luck, fd, got) ==
    \E cd \in BOOLEAN :
        /\ docs' = [docs EXCEPT ![i] =
              [rid EXCEPT !.fd = fd, !.cd = cd,
                          !.len = Size[rid.text] - Declaration[rid.text],
                          !.node = luck.node /\ CACHED \in rid.flags,
                          !.locale = luck.locale]]
        /\ Exchange(i, got \cup Acquired(luck, rid) \cup (IF cd THEN {"cd"} ELSE {}),
                    {"name"})

-----------------------------------------------------------------------------
(* xmlOpenFlags. *)

\* calloc failed: the descriptor stays open.
OpenNoRoot(i, text) ==
    /\ Ready(i)
    /\ Mishaps(1)
    /\ Exchange(i, {"fd"}, {})
    /\ GivenUp(i, "noroot", text) /\ UNCHANGED <<pages, crashed>>

\* strdup(setlocale(LC_CTYPE, "")) when the locale of the environment is unknown.
OpenNoLocale(i) == Ready(i) /\ Mishaps(1) /\ Crash

\* mmap failed, as it does for an empty file: neither here is it closed.
OpenNoMapping(i, text) ==
    /\ Ready(i)
    /\ Mishaps(IF Size[text] = 0 THEN 0 ELSE 1)
    /\ Exchange(i, {"fd", "rid", "name"}, {"name", "rid"})
    /\ GivenUp(i, "nomapping", text) /\ UNCHANGED <<pages, crashed>>

\* mutant: nothing is unmapped
UnmappedNone(text) == {}
\* simple_unmmap(mm, len): the scan has put its error number into len.
UnmappedOnError(text) == PageSpan(ScanCode[text])

OpenNotScanned(i, text, flags, luck) ==
    LET rid == Fresh(text, flags)
    IN /\ Ready(i) /\ Size[text] > 0 /\ ~Scans(rid)
       /\ Mishaps(Failed(luck))
       /\ Exchange(i, Acquired(luck, rid) \cup {"fd"}
                          \cup (IF luck.info THEN {"info"} ELSE {}),
                   ({"fd"} \cup DroppedOnError)
                       \ {r \in {"node", "info", "name"} : ~luck[r]})
       /\ pages' = [pages EXCEPT ![i] = PageSpan(Size[text]) \ UnmappedOnError(text)]
       /\ GivenUp(i, "notscanned", text) /\ UNCHANGED crashed

OpenDone(i, text, flags, luck) ==
    LET rid == Fresh(text, flags)
    IN /\ Ready(i) /\ Size[text] > 0 /\ Scans(rid)
       /\ Mishaps(Failed(luck))
       /\ IF luck.name
          THEN /\ HandOut(i, rid, luck, MMAP_FD, {"fd"})
               /\ pages' = [pages EXCEPT ![i] = PageSpan(Size[text])]
               /\ UNCHANGED crashed
          ELSE Crash       \* strrchr(NULL, '.')

-----------------------------------------------------------------------------
(* xmlInitBufferFlags: "fd" is MMAP_ERROR; xmlNodeCopy makes it MMAP_FREE. *)

BufferNotScanned(i, text, flags, luck) ==
    LET rid == Fresh(text, flags)
    IN /\ Ready(i) /\ Size[text] > 0 /\ ~Scans(rid)
       /\ Mishaps(Failed(luck))
       /\ Exchange(i, Acquired(luck, rid) \cup (IF luck.info THEN {"info"} ELSE {}),
                   DroppedOnError \ {r \in {"node", "info", "name"} : ~luck[r]})
       /\ GivenUp(i, "notscanned", text) /\ UNCHANGED <<pages, crashed>>

BufferDone(i, text, flags, luck) ==
    LET rid == Fresh(text, flags)
    IN /\ Ready(i) /\ Size[text] > 0 /\ Scans(rid)
       /\ Mishaps(Failed(luck))
       /\ IF luck.name
          THEN HandOut(i, rid, luck, MMAP_ERROR, {}) /\ UNCHANGED <<pages, crashed>>
          ELSE Crash

-----------------------------------------------------------------------------
(* The other operations. *)

Open(i) == ~crashed /\ docs[i].state = "open"

xmlSetFlags(i, flags) ==
    /\ Open(i)
    /\ docs' = [docs EXCEPT ![i] = WithFlags(@, flags)]
    /\ UNCHANGED <<held, pages, twice, failures, crashed>>

\* SET_ERROR: the first error of a document acquires its info.
MeetsError(i) ==
    /\ Open(i) /\ ~docs[i].info
    /\ Exchange(i, {"info"}, {})
    /\ docs' = [docs EXCEPT ![i].info = TRUE]
    /\ UNCHANGED <<pages, failures, crashed>>

\* xmlNodeGet or xmlGetString had no memory: the copy is NULL.
CopyNoMemory(i) == Open(i) /\ Mishaps(1) /\ UNCHANGED <<docs, held, pages, twice, crashed>>

\* xmlMarkId had no memory, and xmlNodeCopyPos goes on with NULL; or the copy had
\* none for its struct, or no locale name.
CopyUnlucky(i) == Open(i) /\ Mishaps(1) /\ Crash

\* mutant: xmlClose does not know that the text is the document's own
BorrowedText == MMAP_ERROR
\* "let xmlClose free ptr"
OwnText == MMAP_FREE

\* The text of a node of document i becomes document j, with the mode bits of i
\* in place of flags.
CopyDone(i, j, text, luck) ==
    LET rid == Fresh(text, docs[i].flags)
    IN /\ Open(i) /\ Ready(j) /\ text \in Parts[docs[i].text]
       /\ Scans(rid) /\ luck.name
       /\ Mishaps(Failed(luck))
       /\ HandOut(j, rid, luck, OwnText, {"text"})
       /\ UNCHANGED <<pages, crashed>>

\* The text of a node was not accepted, and "rv->fd = MMAP_FREE" writes to NULL.
CopyNotScanned(i, text) ==
    /\ Open(i) /\ text \in Parts[docs[i].text]
    /\ ~Scans(Fresh(text, docs[i].flags))
    /\ UNCHANGED failures /\ Crash

\* mutant: the descriptor for the conversion is not looked at
ClosedUnseen(d) ==
    {"rid", "cd"}
    \cup (IF d.fd = MMAP_FREE THEN {"text"} ELSE {})
    \cup (IF d.fd \notin {MMAP_FREE, MMAP_ERROR} THEN {"fd"} ELSE {})
    \cup {r \in {"node", "info", "locale"} : d[r]}
\* mutant: the error of the document is forgotten
ClosedNoInfo(d) ==
    {"rid"}
    \cup (IF d.fd = MMAP_FREE THEN {"text"} ELSE {})
    \cup (IF d.fd \notin {MMAP_FREE, MMAP_ERROR} THEN {"fd"} ELSE {})
    \cup {r \in {"node", "cd", "locale"} : d[r]}
\* What xmlClose releases.
ClosedWith(d) ==
    {"rid"}
    \cup (IF d.fd = MMAP_FREE THEN {"text"} ELSE {})
    \cup (IF d.fd \notin {MMAP_FREE, MMAP_ERROR} THEN {"fd"} ELSE {})
    \cup {r \in {"node", "info", "cd", "locale"} : d[r]}

xmlClose(i) ==
    /\ Open(i)
    /\ Exchange(i, {}, ClosedWith(docs[i]))
    /\ pages' = [pages EXCEPT ![i] =
                    IF docs[i].fd \notin {MMAP_FREE, MMAP_ERROR}
                    THEN @ \ PageSpan(docs[i].len) ELSE @]
    /\ GivenUp(i, "closed", docs[i].text)
    /\ UNCHANGED <<failures, crashed>>

-----------------------------------------------------------------------------
Init ==
    /\ docs = [i \in Ids |-> Absent]
    /\ held = [i \in Ids |-> {}] /\ pages = [i \in Ids |-> {}]
    /\ twice = {} /\ failures = 0 /\ crashed = FALSE

Next ==
    \E i \in Ids :
        \/ OpenNoLocale(i)
        \/ \E text \in Texts :
              \/ OpenNoRoot(i, text)
              \/ OpenNoMapping(i, text)
              \/ CopyNotScanned(i, text)
              \/ \E luck \in Luck :
                    \/ \E flags \in FlagSets :
                          \/ OpenNotScanned(i, text, flags, luck)
                          \/ OpenDone(i, text, flags, luck)
                          \/ BufferNotScanned(i, text, flags, luck)
                          \/ BufferDone(i, text, flags, luck)
                    \/ \E j \in Ids : CopyDone(i, j, text, luck)
        \/ \E flags \in FlagSets : xmlSetFlags(i, flags)
        \/ MeetsError(i) \/ CopyNoMemory(i) \/ CopyUnlucky(i)
        \/ xmlClose(i)

Spec == Init /\ [][Next]_vars

-----------------------------------------------------------------------------
(* Properties. *)

Record ==
    [state : {"open"}, text : Texts, fd : {MMAP_ERROR, MMAP_FREE, MMAP_FD}, len : Nat,
     flags : SUBSET Modes, strncmp : {"strncmp", "strncasecmp"},
     lcase : {"NULL", "tolower_l"}, node : BOOLEAN, info : BOOLEAN,
     locale : BOOLEAN, cd : BOOLEAN]
Gone == [state : {"noroot", "nomapping", "notscanned", "closed"}, text : Texts]

\* Documents are struct _root_id's; bookkeeping is per document.
TypeOK ==
    /\ \A i \in Ids : docs[i] \in {Absent} \cup Record \cup Gone
    /\ held \in [Ids -> SUBSET Resources]
    /\ pages \in [Ids -> SUBSET Nat]
    /\ failures \in 0 .. MaxFailures /\ crashed \in BOOLEAN

\* Nothing is freed or closed that is not held, whatever fails and in whatever
\* order documents are opened, copied, used and closed.
NoneTwice == twice = {}

\* A document that is open holds what its struct points to and nothing else: a
\* copy its own text, so that the original may be closed before it
\* (README.md:187), a file its descriptor and all of its pages.
Owned(d) ==
    {"rid"} \cup {r \in {"node", "info", "cd", "locale"} : d[r]}
            \cup (CASE d.fd = MMAP_FREE -> {"text"} [] d.fd = MMAP_FD -> {"fd"}
                    [] OTHER -> {})
OpenOwns ==
    \A i \in Ids : docs[i].state = "open" =>
        /\ held[i] = Owned(docs[i])
        /\ pages[i] = IF docs[i].fd = MMAP_FD THEN PageSpan(Size[docs[i].text]) ELSE {}

\* "Releases the memory map and all associated resources" (README.md:114): after
\* xmlClose nothing is held, and no page of a buffer or a copy.  What is unmapped of a
\* file is the length behind the XML declaration (xml.c:340): only the pages that
\* length does not reach stay mapped, and do if there are any.
ClosedGivesBack ==
    \A i \in Ids : docs[i].state = "closed" =>
        /\ held[i] = {}
        /\ LET t == docs[i].text
           IN pages[i] \in {{}, PageSpan(Size[t]) \ PageSpan(Size[t] - Declaration[t])}

\* An open that returns NULL costs the descriptor when memory or the mapping could
\* not be had.  When the text could not be scanned it costs the locale object and,
\* of a file, the pages behind as many bytes as the error has a number.  Nothing
\* else of what was acquired is lost, whichever other calls fail too.
FailureCosts ==
    \A i \in Ids :
        /\ docs[i].state \in {"noroot", "nomapping"} => held[i] = {"fd"} /\ pages[i] = {}
        /\ docs[i].state = "notscanned" =>
              /\ held[i] \subseteq {"locale"}
              /\ LET t == docs[i].text
                 IN pages[i] \in {{}, PageSpan(Size[t]) \ PageSpan(ScanCode[t])}

\* However flags follow each other, and in copies: names are compared exactly
\* where strncmp is used, and lower case where it is strncasecmp.
CaseAgrees ==
    \A i \in Ids : docs[i].state = "open" =>
        /\ CASE_SENS \in docs[i].flags <=> docs[i].strncmp = "strncmp"
        /\ CASE_SENS \in docs[i].flags <=> docs[i].lcase = "NULL"

-----------------------------------------------------------------------------
(* What the documentation says and the code does not do. *)

\* xmlNodeCopy returns an "XML-subsection-id for further processing"
\* (include/xml.h.in:271), NULL at worst.
CopyReturns == failures = 0 => ~crashed
=============================================================================
