# ZeroXML in TLA+

ZeroXML is a small C library that reads XML without building a document model:
a node is a pointer into the text and a length, and every request scans the
text for the tags it needs. When a document is opened it is scanned once as a
whole; that scan validates it and, by default, builds a tree of pointers, the
*node cache*, which later requests walk instead of the text.

This directory specifies the library: the node cache, the recursive scanner that
fills it, the two of them together from `xmlOpen` to `xmlClose`, the lookups on an
open document, what a program reads from the node it got, the resources of a
document and the failures on the way, the error reports, and the debugging
allocator the library can be built with. TLC checks the specifications on small
instances; TLAPS proves for all instances what the cache, the allocator, the
documents and the error reports promise, that the scanner stays in the text and uses
the cache as it has to, that the two of them implement a tree, that what the
getters find and copy stays in its bounds, and that the texts and the attributes they
find are the right ones.

Paths are relative to the root of the repository; `xml.c` and `xml_cache.c` are
`src/xml.c` and `src/xml_cache.c` there (`src/src/...` in `PROJECT.json`).

## Inventory

| Part | State | Operations | Who calls whom | What makes it hard | What makes it correct |
|---|---|---|---|---|---|
| Node cache (`xml_cache.c`) | cells `struct _xml_node`: parent, a growing array of pointers, two `short int` counters, name and data section | `cacheInit`, `cacheInitLevel`, `cacheNodeNew`, `cacheDataSet`, `cacheFree`, lookup | filled by the scanner, freed by a failed open or `xmlClose`, read by the lookups | failing allocations in the middle of a scan, arrays that are full, counters that wrap, a free of whatever tree a failed scan left | the cells are one ordered tree; freeing it frees every cell once |
| Scanner (`__zeroxml_get_node`, `xml.c:1735-2135`) | per activation: the cursor, what is left of the text, the current name, the end of the opening tag, the result so far, the cell of the section and of the last element | one recursive function, and `__zeroxmlProcessCDATA` for comments, CDATA and instructions | called by open and by every lookup; calls the cache | lengths handed from call to call, an error code in the same variable as a length, variables that survive an iteration, text that is not XML | comes to an end, stays in the text, finds the element that was asked for, builds the tree of the elements, reports what is not well-formed |
| Document life cycle (`xml.c:113-360`) | `struct _root_id`: descriptor, mapping, start and length, root cell, flags, error, locale, iconv handle | `xmlOpenFlags`, `xmlInitBufferFlags`, `xmlClose` | calls localisation, scanner and cache | a failure after each of seven acquisitions; the length of the mapping against the length behind the declaration | what was acquired is given back once, with the size it was acquired with |
| Flags (`xml.c:363-421`) | eight pairs of bits, the compare function | `xmlSetFlags` | read by scanner, lookups, getters, errors | pairs of bits set in groups, a default applied first, a copy that passes the internal bits for the public ones | a flag says what the last call said about it |
| Ids (`xml.c:423-590`) | `struct _xml_id`: root, start, length, name, cell | `xmlNodeGet`, `xmlNodeGetPos`, `xmlMarkId`, `xmlNodeCopy`, `xmlFree` | handed to the program | an id outlives the document; a copy is a document of its own | an id denotes the section it was made for |
| Path lookup and positions (`xml.c:1638-1726`, `2145-2257`, `xml_cache.c:228-311`) | none; the cell and section of the id | get path, get position, get number of nodes | the getters; calls scanner or cache by the mode | two implementations of one lookup | both modes give the same answers |
| Errors (`xml.c:1339-1483`, `2629-2663`) | one error per document, one global | set, get number, line, column, string | every function reports here | reading clears; the global is shared by all documents and threads | the error reported is the last one of that document |
| Attributes (`xml.c:590-748`, `1174-1335`, `1529-1625`) | none | count, name, value, compare, exists | the program | the text of a tag is searched without a tokenizer | names are found as names, never inside of values |
| Text and numbers (`xml.c:748-1174`, `2267-2300`, `2564-2790`) | none | getters, copies, compares, conversions | the program | text that is not terminated; lengths at the end of a buffer | the characters of the section and no other are used |
| Localisation (`localize.c`) | iconv handle, locale | declaration, byte order mark, conversion | open and getters | the C library does the work; buffers that are too small | - |
| C++ binding (`easyxml.cpp`) | a tree of objects | `readXML` walks the C API | the program | exceptions between open and close | the tree mirrors the document |
| `rmalloc.c` | 257 circular lists of blocks by the hash of their address, a count, a generation | `malloc`, `calloc`, `realloc`, `free`, `strdup`, `getcwd` with checks; test, statistics, exit | all of the library, when built with `RMALLOC` | wrong pointers are its input; a walk through linked lists that must be right to tell | a right call never aborts, a wrong one never reaches the heap |
| Tools and tests | none | - | the public API | - | - |

The library has no threads of its own and no persistent state; programs may use
documents from several threads, and then share the static error record. Most of what
is hard to test is sequential: a failure in the middle of a call, text nobody thought
of, lengths and counters at their limits, one thing done in two ways. The
`hazards` of `PROJECT.json` list these line by line.

## The modules

| Module | What it is |
|---|---|
| `CacheTree` | abstract: an ordered tree that grows by appending a child, whose nodes get labels, and which is taken down children first |
| `NodeCache` | the operations of `xml_cache.c` as actions on arrays, counters and the heap, one step of `cacheFree` per iteration of its loop |
| `CacheClient` | the cache under the most general caller the scanner may be; claims that it implements `CacheTree` |
| `XmlText` | documents as sequences of tokens, and, as a reference, what well-formedness, parents and contents are |
| `Scanner` | `__zeroxml_get_node` on a stack of activations, with the cache of `NodeCache`; claims that it behaves towards the cache as `CacheClient` says |
| `Lookup` | requests on an open document, by path, by name and number, and for a number of nodes; on the cells of the cache or by runs of `Scanner` |
| `Document` | the opens, the flags, the copies and the close with the resources of several documents, any call to the system failing |
| `Errors` | the error of a document and the static record, under threads, one step per store |
| `Values` | operators: the data between comments and CDATA marks, numbers, booleans, comparison and conversion to the locale |
| `Content` | every getter on one node: its attributes by name and by position, its name, its text |
| `Rmalloc` | the debugging allocator: its lists of blocks, the walks through them step by step |
| `MC_...` | small instances for TLC, one for each of the above that has a run |
| `CacheClient_proofs` | the inductive invariant of `CacheClient`; types, faults; the second invariant, for documents the counters can count; one tree, no leak; the refinement: for such documents `CacheClient` implements `CacheTree` |
| `Scanner_proofs` | where the tokens of a text lie: the lemmas on `Off` that the scanner's arithmetic needs; the inductive invariant of `Scanner`, for every text; types, and that nothing leaves the text; then the lemmas on `OpenAfter`, the reference for nesting |
| `ScannerClient_proofs` | the refinement: a `Scanner` that opens a document implements `CacheClient`; and, with the proofs about the cache, that opening and closing a document implements `CacheTree`; then the invariant that relates the cells to the elements |
| `ScannerTree_proofs` | an open of a well-formed text makes its element tree: the steps of that invariant, and the theorems |
| `Document_proofs` | the inductive invariant of `Document`; all its properties |
| `Errors_proofs` | the inductive invariant of `Errors`; all its safety properties |
| `Rmalloc_proofs` | the inductive invariant of `Rmalloc`; all its safety properties |
| `Content_proofs` | where `memchr`, the trimming and the search for data and CDATA end, for every text; the inductive invariant of `Content`; cursors, pieces and copies stay in their bounds; the text of a section, the names of the attributes by position and their values by name are the right ones |

So there is a chain: the scanner is a client, the client's cache is a tree. Both
links are proved, and what is proved of the client is therefore proved of every
document that is opened and closed. What tree it is, the element tree of the text, is
proved on top of that.

### NodeCache and CacheClient

Cells are numbers handed out in order, a field of the struct is a function on the
cells: `node` is the array (with its real size as its domain, so that an index
outside of it is seen), `max_nodes` and `no_nodes` are the counters, which keep
what a `short int` of `2 * Half` values keeps (`Short`). `payload` is the name
and section `cacheDataSet` stores. An allocation may fail `MaxFailures` times;
a request whose size has become negative always fails. `fault` records that a
NULL pointer, an index outside of the array or a freed cell was dereferenced;
nothing happens afterwards.

The cells are never reused, as if the heap never gave an address twice. That
hides nothing here: a cell that was freed and is touched again is a fault.

| Action | Code |
|---|---|
| `cacheInit`, `cacheInitLevel`, `cacheNodeNew`, `cacheDataSet` | the functions of these names; `ReallocFails`, `StoreNode` and `StoreAstray` are the three ways `cacheNodeNew` ends |
| `FreeCall`, `FreeChild`, `FreeSelf` | a call of `cacheFree`, an iteration of its loop, its end; `frames` is the C stack |
| `Open`, `Start`, `Descend`, `Return` | the activations of the scanner: the first, a nested one, its end |
| `NewNode`, `SetData` | the calls of an activation on its own cell and on the one it added last |
| `Free`, `FreeStep`, `Closed` | `cacheFree(rid->node)` of `xmlClose` or of the failed open |

### Scanner

A document is a sequence of tokens: opening, closing and empty elements, text,
comments, CDATA sections, processing instructions, and a tag or comment the text
is cut off in. A name is a sequence of letters, and each token has the width in
characters it has in the text, because the code adds lengths to pointers: a
pointer of the model is an offset in the document. The two places where the code
looks at a character at a computed place (is there a `>` behind as many
characters as the name has?) are modelled by offsets, not by tokens.

A behaviour starts with one of `Cases`: a text, a request and a mode. `Names` are the
names of tags, `MaxSize` bounds the characters of a text; with them `Sections` is all
a cell can be told, which the cache takes for its `Payloads`. The mode says
whether the document has a cache (`XML_CACHE_NODES`), as for an open, or none, as
for a lookup under `XML_SCAN_NODES`, and whether comments are nodes. `req` is what the outermost call looks for; it is
`raw` for an open and `STRIPPED` for a lookup, where the content of a block
counts and not its marks (`Raw`).

`calls` is the stack of activations with the variables of the C function that
survive a step; `pc` says where the innermost one is: at the head of the loop,
behind an opening tag, at a closing tag, in the calls on the cache. `restlen` is
always what is left up to the end of the text, and is not kept. `ret` is what
the last activation returned: a result or NULL, a length or an error code, a count.

| `pc` | Actions | Code |
|---|---|---|
| `start`, `enter` | `Start`, `EnterTooShort`, `Enter` | `xml.c:168-180`, `1772-1818` |
| `head` | `NoMoreTags`, `EndOfSubsection`, `ElementCloses`, `CloseBeforeOpen` | `1821-1854` |
| `head`, `blockdata` | `BlockCutOff`, `BlockSkipped`, `BlockNode`, `BlockData` | `1860-1882`, `__zeroxmlProcessCDATA` |
| `head`, `selfdata` | `TagCutOff`, `ElementFound`, `SelfData`, `ElementOther`, `ElementTooLong` | `1884-1967` |
| `content`, `afterblock` | `OpenAtEnd`, `ContentEnds`, `ContentBlock`, `ContentCutOff`, `ContentClose`, `ContentChild` | `1918`, `1969-2006`, `2095` |
| `closing` | `ClosingOther`, `ClosingPassedOver`, `ClosingMatch`, `ClosingMismatch` | `2006-2095` |
| `return` | `Resume`, `Unwind`, `Finish` | `2095-2112` |
| `done`, `free` | `Release`, `FreeStep`, `Closed` | `180-196`, `329-344`, `cacheFree` |

The reference in `XmlText` (`Balanced`, `WellFormed`, `Parent`, `Inside`,
`ContentLen`) is written from what XML says and shares only the widths with the
scanner.

Not in the texts: white space and attributes inside of tags, closing tags that
are cut off, characters that are no name characters, instructions too short to
hold a target, DOCTYPE (which takes the path of the other `<!` blocks), a
document that begins with an instruction (that is the declaration, which is
taken off before the scan), and case-insensitive comparison.

### Lookup

A behaviour opens a document, with the cache or without it, and then makes
requests: each on an id (`id`: a section and, in the cache, its cell), the
document's or one that an earlier request has returned. `path` is what is left
of the path, `sec` the section the walk has come to. A step in the text is a
whole run of `Scanner` on the tokens of the section (`BeginScan`, `Scan`, then
`StepFound`, `StepMissed` or `CountScanned`); a step in the cache is one call of
`FromCache`.

| Action | Code |
|---|---|
| `Opened` | the end of `xmlOpenFlags`, `xml.c:177-205`; without the cache nothing is scanned |
| `Get` | `xmlNodeGet`, and `xmlNodeTest`, which makes the same call and drops the section |
| `GetPos` | `xmlNodeGetPos` and `xmlNodeGetPosRaw`: `__zeroxml_get_node_pos`, `2145-2188` |
| `GetNum` | `xmlNodeGetNum` and `xmlNodeGetNumRaw`: `__zeroxml_node_get_num` up to its count, `2199-2236`; the walk starts behind the second `/` |
| `Refused` | `__zeroxml_node_get_path` gives up: an empty section, a path longer than the section, an index below the first (`1651`, `1681`) |
| `Walk`, `StepCached`, `BeginScan`, `StepFound`, `StepMissed` | one level of `__zeroxml_node_get_path`, `1655-1726` |
| `CountCached`, `CountScanned` | the count, `2232-2254` |
| `GoOn`, `GoInto` | the program makes its next request on the same id, or on the one it got |

`Denotes` is the reference: the node a path denotes seen from a node, in terms of
`XmlText`. `IsSectionOf` says what an id of a node is. `IsNode` says which comments and
CDATA sections are nodes of the cache: those that follow an element in their section,
and those outside of the document element. They count for `*` in the cache; in the text
they never do, so that an index of `*` may mean different nodes in the two modes, and
the properties say of each what it means.

Not in the requests: names that differ in case, indexes that are not a number,
paths that end in `/`, the name `"comment"`, which asks what the id itself is, and
counts of paths with an index, with more than two names, or of `*` below another
name.

### Document

A function of the library is one action per way through it, because nothing
comes between its steps: `OpenNoRoot`, `OpenNoLocale`, `OpenNoMapping`,
`OpenNotScanned` and `OpenDone` are the five ways `xmlOpenFlags` ends. Of a text it
matters how long it is, how much of it the XML declaration takes, whether the scan of
all nodes succeeds (`Parses`) and which number it leaves in `len` if not, and what
texts its nodes have (`Parts`). `held[i]` is the set of resources acquired for
document `i` and not released, `pages[i]` the pages of its mapping, `twice` what was
released without being held. Calls to the system fail up to `MaxFailures` times.

| Action | Code |
|---|---|
| `OpenNoRoot`, `OpenNoLocale`, `OpenNoMapping`, `OpenNotScanned`, `OpenDone` | `xmlOpenFlags`, `xml.c:113-231`; `UnmappedOnError` is what `munmap` gets when the scan has put its error into `len` |
| `BufferNotScanned`, `BufferDone` | `xmlInitBufferFlags`, `239-326` |
| `xmlSetFlags` | `362-420`; `Pairs` are the pairs of bits, `WithFlags` is also what an open does twice |
| `CopyNoMemory`, `CopyUnlucky`, `CopyNotScanned`, `CopyDone` | `xmlNodeCopy`, `xmlNodeCopyPos`, `507-524`, `764-783`, with the open of the copy in it |
| `MeetsError` | the first error of a document allocates its block, `2650-2654` |
| `xmlClose` | `328-360` |

`HandOut` chooses whether `iconv_open` knows the encoding. A document that is gone
keeps why and with which text, so that the properties can say what its going has cost.

### Errors

`shared` is the static `__zeroxml_info`, `info` the block of each document. Each
store to `shared` is a step of its own, so that the stores of two threads come in any
order; what a function does between two of them is in one step with one of them,
since all else it touches belongs to its thread (`Owner`). `last` and `own` are
history: the error a document kept last, and whether another thread has stored to
`shared` since. The static line counts from the start a report comes with: for a scan
that fails in an open that is the start of the text; for an open document it is its
node or the place itself, and which of them is left open.

An open reports when the scan for all nodes fails, and only then. `FailSilently` is the
open that finds no file, no memory or no mapping (`131-158`), or a NULL or empty buffer
(`247`): it returns NULL and leaves the static record as it was.

| `pc` | Actions | Code |
|---|---|---|
| `idle` | `Report` | `__zeroxml_set_error` up to the line and column, `2628-2648`; for an open document and for one that is being opened |
| `idle` | `FailSilently` | the opens that fail without a report, `121-159`, `247` |
| `info` | `KeepInfo`, `NoMemory` | `2650-2659` |
| `shared` | `Share` | `2661-2664` |
| `idle` | `AskNothing`, `Read` | the four getters, `1338-1478`, without and with something to tell |
| `clear`, `return` | `Clear`, `Return` | the clear at their end |
| `idle` | `AskShared` | the getters with the id `NULL`, the last branch of each of the four, behind an open that failed with or without a report |
| `idle` | `SetValidating` | `XML_VALIDATING` switched by `xmlSetFlags`: a getter then tells nothing, and what is recorded stays |

### Values and Content

A text is a sequence of symbols: characters, and the marks of comments and CDATA
sections, which are `Width` characters wide, because the code counts characters. A
symbol takes `Units` bytes in the encoding of the locale, or none if it has no place
there. Behind the end of the text `At` gives a symbol that is no other: nothing in the
code terminates the text of a node, and a search that goes on meets it.

The node of `Content` is one piece of text: its name in the tag, the rest of the
tag, the content, the closing tag. A request (`call`) is what a getter of the
library is called for. A loop through the tag is a step per iteration; what is
found (`found`, a position and a length) is delivered in one more step.

| `pc` | Actions | Code |
|---|---|---|
| `idle` | `Ask` | the beginning of every getter; `TextFor` is `__zeroxml_prepare_data` where the getter calls it |
| `attribute` | `WordOther`, `WordWithoutEquals`, `NoOpeningQuote`, `NoClosingQuote`, `ValueFound`, `NoMoreWords` | `__zeroxml_get_attribute_data_ptr`, `1528-1601` |
| `position` | `NameOther`, `NameFound`, `NoMoreNames` | `xmlAttributeCopyName`, `xmlAttributeCompareName`, `589-710` |
| `count` | `EqualsCounted`, `CountEnds` | `xmlAttributeGetNum`, `724-748` |
| `deliver` | `GiveExists`, `GiveString`, `NoMemory`, `GiveCopy`, `GiveComparison`, `GiveInt`, `GiveBool` | what the getters of names, attributes and texts do with the piece they have |
| `answered` | `Forget` | the program goes on |

`GiveComparison` is a choice where the code reads what the stack held: when the text
is shorter than the word, `string_compare` compares bytes of its buffer that were
never written.

### Rmalloc

A pointer is the block it points to; `next` and `prev` are the links in the headers
of blocks and of list heads, `heap` what the system's `malloc` has given and not got
back. An address that was freed may be given again. `DelBlk` and `TestAll` walk
through the lists one link per step. The program calls `Rfree` and `Rrealloc` with any
pointer, and writes behind the end of its blocks (`WritePastEnd`); an abort is the
end of a behaviour. `known` is history: the blocks that were added and not removed.

| Action | Code |
|---|---|
| `Rmalloc`, `OutOfMemory` | `Rmalloc`, and `Rcalloc`, `Rstrdup`, `Rgetcwd` by way of it, with `Initialize`, `SetBlk` and `AddBlk` |
| `Rfree`, `Rrealloc` | up to the search, `830-841`, `1145-1179` |
| `NullPointer` | `Rrealloc` and `Rstrdup` abort for NULL, `1152-1155`, `1268`; the others return |
| `FindStep`, `NotFound`, `FoundDamaged`, `FreeFound`, `ReallocFound`, `ReallocFails` | `DelBlk`, `ControlBlock`, and what follows in the caller |
| `TestAll`, `TestStep`, `NextChain`, `TestDone`, `NoVector`, `Collect`, `CollectStep`, `CollectDone` | `Rmalloc_test`, `Rmalloc_stat` and `Exit` |
| `Inspect`, `InspectStray`, `Rmalloc_reinit` | `Rmalloc_set_flags`, `Rmalloc_retag`, `Rmalloc_usable_size`; `Rmalloc_reinit` |

## The runs

| Run | Instance | What it shows |
|---|---|---|
| `cache_tree` | 5 cells, blocks of 2, 4-bit counters, 1 failing allocation, depth 3 | the types; the heap is one tree until it is freed (`OneTree`); a bad pointer is followed in one case only (`FaultIsFailedLevel`); a close leaves no cell (`AllFreed`) and comes to its end (`FreeReturns`); the cache implements `CacheTree` (`IsTree`) |
| `scan_open` | every text of up to 3 tokens of the 13 kinds and names, up to 30 characters (`MaxSize`), and of 4 without text and most blocks, up to 18 (`MaxShort`); one failing allocation | no cursor and no section leaves the text (`InText`), whatever the text; the scanner uses the cache as `CacheClient` says (`ObeysClient`); every open ends (`Terminates`) |
| `scan_answers` | well-formed documents of up to 5 tokens with text and blocks, of up to 6 with tags only, opened with up to 2 failing allocations; and lookups without a cache: in balanced sections of up to 5 tokens with six patterns with `*` and `?`, for the first or second element of the name, in the other texts of `scan_open` with two | without failures the cached tree is the tree of elements (`WellFormedIsCached`); with failures no cell is wrong (`CellsAreElements`); a lookup finds what the reference says (`ScanFindsElement`), and its cursor stays in any text (`InText`) |
| `lookup` | well-formed documents of up to 5 tokens with text, of up to 6 with tags of two names, and of up to 5 with comments and CDATA, those of up to 4 in the text too, and in the cache as nodes or not; both modes; raw and stripped; paths of one name with and without index, of two with at most one index, some of three; ids from earlier requests, to any depth | a node that is there is found, with its section and cell, in both modes (`FindsNode`); what a failing request returns, if it returns something, is where the walk has ended (`MissStaysPut`); in the cache the number of nodes is right (`CountsNodes`) |
| `document` | two documents, five texts (one of two pages with a declaration, one empty, two that cannot be scanned), pages of 8 bytes, two sets of flags, one failing call | nothing is released twice (`NoneTwice`); an open document holds what its struct points to (`OpenOwns`); what a close gives back, and which pages of a file it may leave (`ClosedGivesBack`); what a failed open loses, and which pages (`FailureCosts`); the case flag and the functions agree (`CaseAgrees`) |
| `errors` | two threads with a document each, two kinds of errors at two places, one failing allocation | a document tells its own last error under all interleavings (`OwnErrors`); an open whose scan has failed tells its own unless disturbed (`ScanErrorIsTold`), also among opens that fail without a report |
| `rmalloc` | three blocks, two of one hash value, two lists, three allocations, one failure | the links (`ListsHoldKnown`), the heap (`OnlyAllocatedIsFreed`), the aborts (`AbortIsDeserved`), the vector (`VectorIsLargeEnough`), the test (`TestIsThorough`), and that each walk ends (`CallsEnd`) |
| `content` | tags with none, one and two attributes of three names, one of which begins with another, and six values, with either quote and blanks; anything of up to 4 characters behind a name; texts of up to 5 symbols with comments and CDATA, beside and in each other; numbers in all bases, booleans, neither; with conversion, with a conversion that lengthens or fails, without | values by name, where the names decide, and always between quotes (`AttributeFound`); names by position, and their number (`NamesInOrder`); text: always data, and all of it where it is in one piece (`TextIsRead`); numbers and booleans (`ValueIsRead`), copies and strings (`CopyFits`), and that each request ends (`RequestsEnd`) |
| `cache_wrap`, `malformed`, `miss`, `copy` | see *Findings* | |

Why the bounds are enough. *Cache*: five cells and blocks of two let one cell
have two, three and four children, so that its array is full and grows, and let
the tree be three levels deep; one failing allocation can be any of them, and
the failed block of a level, a failed cell and a failed growth are different
places of the same budget. The theorems cover all larger instances. *Scanner*:
the loop treats an element by what follows it, and the recursion by what the
inner call returns; six tags hold two levels inside of the root, two siblings at
any of them, and names of which one is the beginning of the other, which is what
`STRNCMP` with the length of the other name takes for equal. Texts that are not
well-formed need fewer tokens: a wrong end, a missing end, a missing beginning,
and a cut, each next to each other token. *Lookup*: a path is walked one name at
a time, each from the section the last one gave, and the program goes on from any
id, so that two names in a path reach what more would. `MaxCells`, `MaxDepth` and
`MaxSize` are larger than any of these documents need and never bind, but for the
`MaxSize` of `scan_open`, which keeps out texts of several long tokens: what the
scanner does to the pointers is proved for all texts. A comment may stand before, between and
behind the elements of a section, alone in one, and next to another.

*Document*: a resource belongs to one document, and what two can do to each other is
to be copied and closed in any order; one failing call is one way through a function,
and the ways are each written out. Pages of 8 bytes make the declaration of the
larger text matter. *Errors*: what a third thread stores to the static record is
what the second may store. *Rmalloc*: a list of two blocks has a first, a last and a
middle link to both sides; the third block is in another list. The theorems cover
larger instances of these three. *Content*: a value is ended by its quote, and a word by a blank, so
that two attributes show what follows an attribute; the values have blanks, an `=`, a
quote of the other kind and characters that cannot be converted in them. `MaxLong` is
255, so that a number of four digits overflows; `BUFSIZE` is 24, less than the longest
tags are in the locale.

Fairness. `CacheClient` assumes that `cacheFree`, once called, is carried on; it
is sequential code without waiting. `Scanner` assumes the same of the one thread
that scans, `Rmalloc` of a walk through the lists (`Walk`), and `Content` of a request
(`Working`). The program may never call `xmlClose`; `CacheClient` does not assume
that it does, while in `Scanner` the close follows the scan, so that the end of
both is checked. Nor is anything assumed of the program's next request. `Lookup`,
`Document` and `Errors` state safety only and assume no fairness. Deadlock is
checked in every run but `document`, where a behaviour ends when all documents are
closed or the process has died; in the others the only states without a step of
their own are `closed`, a fault, `crashed`, and the end of the process in `Rmalloc`,
where the model stutters explicitly.

## Findings

| Run | What the code does | What is said |
|---|---|---|
| `cache_wrap` | the 32768th child of a node makes `no_nodes` negative, and `cacheFree` visits none of its children | "All allocations of the XML-tree will be freed." (`xml_cache.h:89`) |
| `malformed` | `<a>` and other texts with a missing end are opened without an error by a validating open | "Report errors in the XML document" (`README.md:144`) |
| `miss` | in the cache a leaf answers for every name below it: in `<a>xy</a>` the path `/a/b` returns `a` | "`XML_TRUE` if the path resolves to a node, `XML_FALSE` otherwise" (`README.md:172`) |
| `copy` | a copy of a node without an element in it stores to a NULL pointer | "XML-subsection-id for further processing" (`include/xml.h.in:271`) |

More can be seen in the definitions of the runs that pass. `FindsNode` needs
`Fits`: a path that is longer than a section on its way is refused, although the
node may be there (`xml.c:1651`). `MissStaysPut` allows what `miss` shows for the
cache, and for the text that a path with an index one past the last returns the
section around. `ContentBlock` makes no cell: a comment between an opening tag
and the next tag is no node, whatever `XML_COMMENT_AS_NODE` says. And the length
`EndOfSubsection` returns is counted from the start of the call, while a match
has moved the result: in a text with a missing closing tag a lookup without
cache can hand out a section that ends behind the text (`xml.c:1839`).

Two more observations belong to the runs that pass. `FaultIsFailedLevel` allows a
fault: `cacheInitLevel` ignores a failing `calloc`, and the next `cacheNodeNew`
stores through the NULL pointer. `CellsAreElements` says less than
`WellFormedIsCached` because every other failing allocation silently leaves a
part of the document out of the cache.

More observations, from the definitions rather than from a run of their own:

*Scanner and lookups.* Without the cache the number of nodes is zero when an element
of another name comes last (`xml.c:1955`). The error code of a mismatched closing tag
may be a length (`2107`), and is then none of the enumeration; `xmlErrorGetString`
without an id indexes the table of messages with it (`1480`). A processing instruction
right behind an opening tag makes the open fail (`1979`). `xmlNodeGetNum` does not look
at the first of two names of a path (`2217`).

*Documents.* What an open that fails and what a close loses is in the properties that
pass, page by page. `FailureCosts`: the descriptor when memory or the
mapping cannot be had (`131`); the locale object when the text cannot be scanned, and of
a file all pages behind the first, because `len` then holds the number of the error,
and so much is unmapped (`190`), where `simple_unmmap` wants "the size of the mapped area"
(`3071`). `ClosedGivesBack`: the last page of a file whose XML declaration takes it over the
end of a page, because `xmlClose` unmaps the length behind the declaration (`340`), where it
"Releases the memory map and all associated resources" (`README.md:114`).
`strdup(setlocale(LC_CTYPE, ""))` dies when the environment
names a locale the system has not (`142`). A file of no bytes cannot be mapped and loses
its descriptor. A copy takes the internal mode bits of the original for the public
flags (`518`): which modes it has follows from a table nobody wrote.

*Errors.* An open that fails before its scan reports nothing: no file, no memory, no
mapping (`131-158`), a NULL or empty buffer (`247`). The program then asks for the
error without a document, as the C++ binding does to word its exceptions
(`easyxml.cpp:216`, `234`, `252`), and gets that of an earlier call, perhaps of another
document or thread, or "no error"; although `xmlErrorGetString` is to "Get a string that
explains the last error." (`include/xml.h.in:665`) and has "unable to open file for reading"
among its strings (`xml.c:1503`). `ScanErrorIsTold` therefore speaks of the opens whose scan
has failed; without that condition a `FailSilently` behind an earlier report refutes it.
`xmlErrorGetNo` with an id stores to the static record, any clear empties it. The
getters with the id `NULL` range-check nothing.

*Attributes.* "Test whether the named attribute does exist" (`include/xml.h.in:629`) is not
what the search by name does of every tag. Each of these is kept out of the second part of
`AttributeFound` by a condition, without which it is refuted:

| Condition | Without it | Code |
|---|---|---|
| `PrefixFree` | names are compared no further than the name goes: in `<n ab='1' a='x'/>` a search for `a` gives `1` | `xml.c:1553` |
| `NoSuchWord` | the search goes by words, also in a value: in `<n b='x a=1' a='1'/>` a search for `a` stops in the value of `b` and fails with "no opening quote" | `xml.c:1596` |
| `PlainContent` | the rest of the tag is measured before the blanks are skipped, so that as many characters behind the tag count as it: in `<n  a='1'>=x</n>` the `=` of the content is taken for that of `a` | `xml.c:1550` |
| `Comparable` | nothing is found when `iconv_open` failed, or when the rest of the tag has more than 1024 bytes in the locale | `localize.c:88-119` |

`xmlAttributeGetNum` counts the `=` in values too (`xml.c:738`): for `<n a='='>` "the number of
attributes on this node" (`README.md:382`) is two. `NamesInOrder` asks for
the number where no value holds a `=` (`PlainValues`), and for no fewer elsewhere. A blank
behind the `=` is an error. A value is compared by the lengths of two encodings, so that one
with a character of two bytes is never equal.

*Text.* `xmlGetString` "strips leading/trailing whitespace and removes CDATA markers and
comments" (`README.md:277`), "Comment sections and CDATA indicators will be removed"
(`xml.c:2554`); but it hands out one piece of the text, and the others are lost. They are kept
out of the last part of `TextIsRead` by `InOnePiece`, without which it is refuted:

| Text | Read as | Code |
|---|---|---|
| `x<!--c-->y` | `x`: the first comment behind the data ends it | `xml.c:2611` |
| `x<![CDATA[y]]>z` | `y`: in a section with CDATA the content of the first such section is all | `xml.c:2577` |
| two blanks | one blank: blanks are skipped up to the last character, not behind it; `TextIsRead` allows this one by name | `xml.c:2619` |

`Apart` keeps out marks of one kind in a block of the other: the start of CDATA in a comment
is taken for one. A text is equal to a word it begins with, also when the rest differs.
A conversion that fails puts the start of the text behind what it has converted; one
that lengthens may fill the buffer and put the terminator behind it (`GiveCopy` with
`high = buflen`, which `CopyFits` allows for converted copies only). A comparison with
a longer word reads what the stack held. `"o"` and an empty value are false. A
boolean with a blank around it is none. The getter by path gives `""` where the one by
id gives `NULL`.

*Allocator.* A failing `realloc` leaves the block out of the lists, and the right
`free` of it aborts later: for this `AbortIsDeserved` excepts what follows a failure, of
any allocation; but a block that is in a list is never called unknown, whatever has failed.
`Rrealloc(NULL)` and `Rstrdup(NULL)` abort (`1152`, `1268`). `Rrealloc` writes to
the header before it looks the block up. `Rmalloc_reinit` leaves `BlockCount` as it
was. `Rmalloc_retag`, `Rmalloc_set_flags` and `Rmalloc_usable_size` trust the marks
around a stray pointer.

## The proofs

The theorems about the cache hold for every `MaxCells`, `MaxFailures`, `MaxDepth`, `Payloads`,
every block size and every width of the counters, under the assumptions named in
the modules: `CacheAssumption` (the width is a multiple, at least twofold, of the
block size, as 32768 is of 16), `PayloadAssumption` (what `calloc` leaves is no
payload), `DepthAssumption`.

`CacheClient_proofs`, first part:

* `TypeCorrect == Spec => []TypeOK`
* `FaultsTraced == Spec => []FaultIsFailedLevel`

The invariants are not inductive as they stand. `IInv` adds what the code relies
on without saying so, in parts that can be read alone:

* `ArraysOK`: the three shapes of a cell. It has no array and no children; or an
  array of `k * Block` slots of which `no_nodes` are used and `max_nodes` says
  how many there are; or an array as large as a `short int` counts, where
  `max_nodes` is negative and `no_nodes` may be. A wrapped array is never full,
  so that it is never grown, and a fault in it is impossible; this is where the
  assumption on the width is needed.
* `Down`: a slot holds a cell that was handed out after the one the slot belongs
  to. So there are no cycles, and an order to argue by.
* `Unshared`: no cell is in two slots.
* `PhaseOK`: what holds before, during and after the scan.
* `FramesOK`: the cells on the stack of `cacheFree` are live and stand there
  once; what a frame has still to visit is live and on no frame. It is what
  keeps `cacheFree` from touching a freed cell, whatever tree it is given.

There is one lemma per action (`OpenStep`, ..., `FreeChildStep`, `FreeSelfStep`),
with the arithmetic of the sizes in lemmas of their own (`Sizes`, `NextSize`,
`ShortFits`, `ShortWraps`).

`CacheClient_proofs`, second part:

* `TreeIsSound == Countable /\ Spec => []OneTree`
* `NothingLeaks == Countable /\ Spec => []AllFreed`

`Countable` says that there are no more cells than a `short int` counts. Without
it the second theorem is false: that is the run `cache_wrap`. (`OneTree` fails in
the same way: a child of a wrapped cell is in no slot the count covers.) `LInv`
adds to `IInv`:

* `NoWrap`: a cell has fewer children than there are cells, so the counters do
  not wrap.
* `Linked`: every cell but the first is in a slot below the count of its parent.
* `Reached`: while `cacheFree` runs, each live cell that is not on its stack is
  in a slot of a live cell that has not been visited. When the stack is empty,
  suppose a cell is still live, and take the one that was handed out first: its
  parent was handed out before it (`Down`), so it is not live; but `Reached` says
  that it is. So nothing is live, which is `AllFreed`.

`CacheClient_proofs`, third part:

* `CacheIsTree == Countable /\ Spec => IsTree`

Each step of the client is a step of the tree or a stutter. `Open` makes the root and
`NewNode` appends a child: here `no_nodes`, which the refinement mapping reads the
children with, must not have wrapped after the step. `SetData` writes a label, and what
`cacheFree` does between two frees leaves the tree alone (`KidsKept`, `Stutter`). The
step that is not obvious is `FreeSelf`, which maps to `Discard` and so must leave no
child of the cell. By `Reached`, a live child of the cell would be on the stack or in a
slot that is still to be visited, which by `Unshared` is a slot of this very cell, and
of those none is left; and the other cells on the stack are older, where a child is younger (`Down`).
This last fact is `Ordered`: the stack goes from older cells to younger ones. `Rises`
says that the slots of a cell hold its children from the oldest to the youngest, which
the order of the elements in a cached document rests on. Both are inductive together
with `LInv`, and `OInv` is the three of them.

`Scanner_proofs`, for every set of texts, well-formed or not, of
requests and modes, every `Names`, `MaxSize`, `MaxCells` and number of failing
allocations (`CasesAssumption` and `BoundsAssumption`, which give `Cases`, `Names` and
the two bounds their types, and say that the bounds do not bind):

* `TokenInText`: a token lies in the text, is at least two characters wide, and ends
  where the next one begins or before it
* `ScannerTypes == Spec => []TypeOK`
* `ScannerStaysInText == Spec => []InText`

`Off` folds the widths of the tokens. The library's induction theorems cannot be used,
because they take an operator; instead, what the fold computes is shown by a least
counterexample, from the theorem that `<` on `Nat` is well-founded, which takes none.

`InText` is not inductive: what keeps the cursor of an activation in the text when a
call it made returns is a relation between the two. `SInv` has these parts:

* `FrameOK`: the pointers of an activation are in order, `start <= cur <= End`, and
  what it has found lies between them. Behind an opening tag whose end is known the name
  is a tag's, so that what is told to the cache is a section.
* `Stack`: each activation but the outermost starts one character in front of the cursor
  of its caller, looks for everything, and its length leaves room for the one character
  the caller adds (`Inner`). This is the assertion `cur+restlen == end` (`xml.c:1820`)
  carried over the calls; `EndOfSubsection`, whose length is counted from the start of
  the call and not from the result, is the step that needs `rv` behind `start`.
* `PlaceOK`: what is known at each place of the loop, above all that the tag at which
  `closing` stands is a closing tag.
* `Returned`: what comes back fits into the text behind the cursor it is added to.
* `Data`: a cell says nothing or names a section of the text.

`ResumeKeeps` is where the parts meet: the length an inner activation has returned
moves the cursor of the outer one.

`ScannerClient_proofs`, for an open of every text (`Opening`: all of `Cases` have the
cache and ask for everything, as `xmlOpenFlags` does):

* `ScannerIsClient == Opening /\ Spec => ObeysClient`
* `OpenFaultsTraced == Opening /\ Spec => []P!FaultIsFailedLevel`
* `OpenedTreeIsFreed == Opening /\ P!Countable /\ Spec => []P!OneTree /\ [](pc = "closed" => live = {})`
* `OpenIsTree == Opening /\ P!Countable /\ Spec => P!IsTree`

`P` is the module `CacheClient_proofs` with the scanner's activations for the levels of
the client, so that its lemmas can be cited for the scanner. `RInv` is `SInv`, the
invariant of the cache for this client (`P!IInv`), and what makes the scanner a client:

* `ClientOK`: the cell of an element has no level until the recursive call for its content
  gives it one, and there is no second call: where the loop stands behind a child, the
  opening tag was asked for (`starttag`), so that the end of the section is taken for the
  end of that child and not of the activation. `assert(cache->node == 0)` in
  `cacheInitLevel` rests on this.
* `Nested`: each activation starts behind its caller, so that the stack is no deeper than
  the text is long, which is below `MaxDepth`.
* `Clients`: an inner activation works on the cell its caller added last; a fault is the
  end.

There is one lemma per action, `StartObeys` to `StutterObeys`, each of which says which
step of the client it is. `CacheStep` then gives `P!IInv` for the next state: the
invariant of the cache needs the refinement for a step, and the refinement the invariant
before it. The last three theorems follow from the step of the refinement and the lemmas
about the cache (`CacheTreeStep`); `OpenFaultsTraced` is the first theorem to say of
`xmlOpen` and `xmlClose`, and not of a client, which bad pointers they may follow.

A proof attempt had the model corrected: where the allocation of the first block of a
level had failed and an element was found next, `ElementFound` faulted without having
stored the new cell in its variable, and that was no step of the client. TLC had not seen
it because `scan_open` had no failing allocations; it has one now.

`ScannerTree_proofs`, for every set of texts and requests:

* `CellsDescribeElements == PIsOutside /\ Spec => []CellsAreElements`
* `TreeIsElementTree == PIsOutside /\ P!Countable /\ Spec => []WellFormedIsCached`
* `WellFormedIsOpened`: under `PIsOutside`, an open of a well-formed text that comes to
  its end has succeeded, whichever allocations failed. (Only the pointer of
  `OpenFaultsTraced` can keep it from coming there, and `Terminates` is model-checked.)

Texts are of any length and depth here, with any names. `PIsOutside` says that no
processing instruction stands inside of an element of a well-formed text: one that does
ends the open with an error (`xml.c:1979`), so that without it the second and the third are
false. Two assumptions are new: `TagsAssumption` (a tag has a name, and it is not
`!--`) and `OpensAssumption` (only an open has the cache, and it asks for
everything). The first two theorems are about opens and lookups alike; a lookup in the
text has no cell (`Uncached`).

What a text means is said with `OpenAfter`, a fold that keeps a stack of the open
elements. Its equation, `OpenNext` in `Scanner_proofs`, is proved from the fold of the
community modules by least counterexamples, as that of `Off` is. From it follow the
facts about nesting, again by least counterexamples: an element that is open has been so
since its tag (`OpenSinceBegun`), the stack rises (`StackRises`), what closes an element is
its own tag (`ClosedByItsOwn`), every element of a balanced text has its end
(`OpenIsClosed`).

The invariant says that `t` tokens have been passed and that `el` gives each cell its
element, for some `t` and `el`; the model has no such variables, and each lemma on a step
names the new ones. `Scene`, in `ScannerClient_proofs`, is what holds of them:

* `Behind`: the cursor is between token `t` and the next.
* `OutersWait`: the activations of `__zeroxml_get_node` are the open elements of token
  `t`, outermost first. Each that waits has the cell of its element in `nnc`, with the
  begin of its content in `rptr`, or has none, which can be only if an allocation has
  failed. This is why the recursion needs no stack of its own, and why the length that
  is stored at a closing tag is that of the right element.
* `Described`: a cell that is not waited with says what `Entry` of its element says; one
  that is has not been written to.
* `Hangs`: the parent of a cell is the cell of the element its element is in. A failed
  allocation loses all of the elements below, never the ones around.
* `InOrder`: older cells are of elements that begin earlier, and no two are of one.
* `AllThere`: if no allocation has failed and the counters do not wrap, every element
  passed has a cell.

The steps with an argument of their own are `ElementFound` (the new cell is that of
the tag under the cursor, and hangs where it should: `LevelIs`), `ClosingMatch` (the
closing tag is the one of the waiting element, because the text is balanced:
`ClosingIsOwn`), `EndOfSubsection` (an inner activation stops at the closing tag of its
caller and not before) and the ways an open fails, each of which is shown not to be taken
(`NothingEnds`, `NothingIsCut`). At the end all tokens are passed, and `Children` of a cell
are, by the invariant of the cache (`Linked` and `Rises`), exactly the cells whose parent
it is, oldest first: `BelowIs`.

`WellFormedIsCached` compares the set of what the cells below show, and its order, with
the elements directly inside. An earlier form compared sequences made with `SelectSeq` and
a sort, which the prover cannot expand.

`Document_proofs`, for any number of documents, lengths and failures
(`DocumentAssumption`):

* `DocumentType`, `NothingTwice`, `OpenDocumentOwns`, `CloseGivesBack`, `FailureCost`,
  `CaseFollowsFlags`: `Spec => []I` for each invariant `I` of the run `document`

`IInv` is the types and, for each document, `Life`: what a document in each of its
states holds of each resource. It has to say more than the properties do, above all
that the length an open document keeps is the size of the text less the declaration,
without which nothing is known of what `xmlClose` unmaps. `OneChanges` says that a step
which touches one document leaves `Life` of the others; `HandOutKeeps` is the end of
each of the three ways to a document, `SettingFlags` that `xmlSetFlags` leaves the
compare function with its flags.

`Errors_proofs`, for any number of threads and documents (`ErrorsAssumption`):

* `ErrorsType`, `ErrorsAreOwn`, `FailedScanIsTold`: `Spec => []I` for each invariant `I`
  of the run `errors`

`IInv` has a part for each thread and each document: the block of a document holds the
last error that was kept (`DocOK`), a thread in the middle of a call is the only one
that works on its document and knows what it found there (`CallOK`), an answer is the
one that was due (`ToldOK`), and what a thread is about to copy to or read from the
static record is no document's (`SharedOK`). `OthersKeep` is the frame: a step of one
thread leaves these of the others.

`Rmalloc_proofs`, for every set of blocks, every number of lists, every hash function,
and any number of allocations and failures (`RmallocAssumption`):

* `RmallocTypeCorrect`, `ListsAreRight`, `SystemHeapIsSafe`, `AbortsAreDeserved`,
  `VectorIsSafe`: `Spec => []I` for each invariant `I` of the run `rmalloc`
* `TestsAreThorough == Spec => TestIsThorough`

All follow from `Invariance == Spec => []IInv`, where `IInv` is, beside the types:

* `LinksOK`: each list, once initialised, is what `Chained` says: the links are
  inverse, and lead from each block to the youngest one added before it. The
  generation in the header is what the lists are ordered by.
* `HeapOK`: what is in a list was given by `malloc` and not freed, which makes the
  removal of a block that was *found* safe, whatever pointer was asked for; and the
  other way round unless a `realloc` has failed or the lists were thrown away, which
  is what an abort deserves.
* `CountOK`: the count is at least the number of blocks in the lists, and without
  `Rmalloc_reinit` equal to it; so the vector is large enough.
* `FindOK`: while `DelBlk` searches for a block that is in a list, it is still ahead of
  the cursor; so the search ends at the head of the list only if it is in none.
* `WalkOK`: the blocks a test has passed are undamaged; a vector is filled from the
  lists only.
* `IdleOK`: between calls nothing is left of a walk.

The lemma `Adding` says that a block put behind the head of its list keeps every list
right, `Removing` the same of `DelBlk`, `SameLinks` that a list whose links and blocks
did not change is as it was. Both are stated with the links as parameters, so that the
removal and addition of one `realloc` can be composed.

`Content_proofs`, for every set of nodes and requests, every width and unit of the
symbols, every `BUFSIZE` and `MaxLong` (`ValuesAssumption`, and `ContentAssumption`: the
tag of a node lies in its text and something follows it; `CallsAssumption`: a buffer has
room for a byte, which the code asserts, and what is given for none is a long):

* `ContentTypes == Spec => []TypeOK`
* `ContentCopiesFit == Spec => []CopyFits`
* `ValuesAreQuoted`: at a delivery, what a search by name has found is `Quoted`, the
  first conjunct of `AttributeFound`
* `TextsAreRead == Spec => []TextIsRead`
* `NamesAreInOrder == Spec => []NamesInOrder`
* `AttributesAreFound == Spec => []AttributeFound`

In the first three the tag is any text, and need have neither names nor quotes. The other
three are about the nodes that mean something. `TextsAssumption` says what that is for the
group `"text"`: each comment and each CDATA section has its end before the next of its kind
begins, and no end of CDATA stands alone. `TagsAssumption` says it for the group `"tag"`: an
attribute is a name without blanks, quotes and `=`, blanks, `=`, and a value in quotes it
does not contain, there is a blank in front of each attribute and nothing but blanks, and
no `=` behind the last. A node
of another group can be any text. TLC evaluates both assumptions on the nodes of `content`.

The first half of the module says
what the operators of `Values` return. `FirstOf`, `BehindComments`, `Sum` and `Horner`
are recursive functions, for each of which a function that satisfies its equation must
be shown to exist before anything follows from it. `FirstExists` gives one outright;
`JumpsExist` and `ClimbsExists` build one for a recursion that goes to the end of an
interval in steps of any width, and for one that multiplies and adds. What they compute
is then shown by least counterexamples: `FirstOfIs` (the first position of a symbol, or
the one behind), `Downwards` and `Upwards` (a property that each step of a recursion hands on
from one end of an interval to the other), `ClimbsTypes`. From
these come the lemmas about the code: `PrepareDataIs` (the data of a section is a
`Piece` of the text, also when its CDATA ends behind the section), `LibraryStrtolIs`
(`strtol` stops in the text, and saturates), `PrefixIs` (no prefix is longer than the
text it is in), `PlainIs` and `LocalisedIs` (no more bytes than the buffer has are
written).

`CInv` adds to the types what they do not say: a request that goes through a tag is on a
node that has one (`nlen > 0`), its cursor is behind the name, and it has passed fewer
attributes than characters, so that the count is in the range of its type. An answer is
zero until it is given. The step that needs the text behind the tag is `NameOther`: a
quote may be the last character of the tag, and then the cursor comes to stand two
characters behind it.

`TextsAreRead` needs no more of a state than that what is found for a text is
`TextFor` of its request (`TextIsFound`); the rest is about `PrepareData`. In a section
without CDATA the comments in front of the data are passed in full, each up to its own end
(`BehindCommentsText`), what follows is trimmed (`TrimmedText`), and the next comment ends
it (`PlainText`). In one with CDATA the search for the end goes by characters and not by
symbols: that the first end behind the mark is near enough follows from the sums of widths,
which grow (`SumGrows`, `CDATAText`). So what is found is data in any case; when the
data is in one piece it is all of it (`TrimmedIsMeant`), or a single blank of a text that
has nothing else (`BlankPiece`).

For `NamesAreInOrder` the invariant is `InOrder`: the cursor of a request by position stands
exactly behind the attributes it has counted (`BehindFirst`), and all the attributes that a
count has not reached lie behind its cursor. `SearchesFind` says that the three searches of
the loop, for the first character that is no blank, for the `=` and for the quote, find
the parts of the next attribute; `NextAttribute` puts them together, so that `BehindValue`
leads from one attribute to the next whatever the value holds. A count goes to any `=`,
also one in a value, and so may come to more than there are names but never to fewer
(`CountIs`); at a `=` it counts, at most one attribute gets behind it. When no value holds a
`=` (`PlainValues`), the next `=` is that of the next attribute (`EqualsIsNext`), and the
count is the number of attributes behind the cursor's (`CountsOnce`).

`AttributesAreFound` is about the search by name, which goes by words and not by
attributes. It says what is found where the names of the tag decide it (`Answerable`): the
name is one, no longer name that begins with it stands before it (`PrefixFree`), it is not in
a value behind a blank (`NoSuchWord`), all of the text can be converted and compared (`Comparable`),
and no `=` of the content is in reach (`PlainContent`); each of the four leaves out answers
the code gives otherwise, which are listed above. The invariant is `Searching`: the cursor is behind the name of the node or on
a blank, and no attribute it has passed has the name. From there the search comes to a word
(`NextIsWord`), and `WordKinds` says what that can be: an attribute, a `=` or a quote, a
piece of a value behind a blank, or something with no `=` up to the end of the tag. Only the
first of them can have both the name and a `=` (`AtAttribute`, `AtNoAttribute`), the others
are passed. A word ends before a blank and an attribute begins behind one, so that no step
passes an attribute that was not its word (`PassedIsWord`); the first attribute that begins
with the name is therefore the one that is found (`NamedIsAttribute`, `FirstStart`), and where
no longer name begins with it that is the attribute of the name (`FirstStartIsNamed`). That the comparison finds equal what
is equal needs the whole text in `BUFSIZE`, because the code converts all that is left of
the tag for it (`SumWithin`, `EqualStart`).

The proof attempt corrected the model in two places, here and in `Scanner`: guards of a
`CASE` overlapped (`TextFor` of empty text, `GiveCopy` when a conversion has failed and
the text was cut, `BlockSection` of a CDATA section as a node). TLC takes the first that
holds, which was meant; TLA+ leaves the choice open, and the theorem was not provable.

### What is only model-checked

* What a lookup in the text finds, `ScanFindsElement`: its reference `Inside` selects and
  sorts (`SelectSeq`, `SetToSortSeq`), and these are defined with recursive functions the
  prover leaves unexpanded and no library theorem describes.
* Everything about `Lookup`: what a request finds is stated with the same operators, and
  rests on what the scanner finds.
* What the getters of `Content` read as a number or a boolean: `ValueIsRead` compares with
  nodes that carry their own number; what digits mean is induction over them.
* Liveness (`FreeReturns`, `Terminates`, `CallsEnd`, `RequestsEnd`).

## What is not modelled

`PROJECT.json` lists every part with its status. Left out for good:

* The command line tools, the tests and the build, which have no logic of the library.
* The C++ binding: one walk through the C API that builds objects and keeps nothing
  of the library's. It words its exceptions with the getters without a document; what these
tell behind an open that failed is in `Errors`, and right only if the scan has failed.
* The conversion of characters itself, which `iconv` does, and the search for the
  encoding in the declaration: the name goes to `iconv_open`, and whether that knows
  it is a choice in `Document`.
* `strtod` and with it `xmlGetDouble` and its like: floating point numbers are the C
  library's.
* `xmlAttributeGetName`, which is `xmlAttributeCopyName` into a buffer of its own.
* `cacheNodeAdd` (`xml_cache.c:199-204`), because nothing calls it.
* `xmlFree`, `xmlMarkId`: an id is allocated for the program and freed by it.

## Plan

What could follow:

1. More of `Lookup`: the name `"comment"`, paths that end in `/`.
2. What a lookup finds as a theorem, with a reference that does without `SelectSeq`, as
   `WellFormedIsCached` does. The invariant is another than that of an open, because a
   lookup stops at its element and passes over what is inside of the others.

## Running

`tlc -config Scanner_open.cfg MC_Scanner` checks a run; `PROJECT.json` names the
module and configuration of each. `tlapm` on each of `CacheClient_proofs.tla`,
`Scanner_proofs.tla`, `ScannerClient_proofs.tla`, `ScannerTree_proofs.tla`,
`Document_proofs.tla`, `Errors_proofs.tla`, `Rmalloc_proofs.tla` and
`Content_proofs.tla` checks the proofs.
