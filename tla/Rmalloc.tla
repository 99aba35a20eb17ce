------------------------------ MODULE Rmalloc ------------------------------
(***************************************************************************)
(* The debugging allocator of the ...-rmalloc build of the library         *)
(* (src/src/rmalloc.c, with RM_TEST_DEPTH 1, GENERATIONS, WITH_FLAGS and   *)
(* ALLOW_FREE_NULL): malloc, calloc, realloc, free, strdup and getcwd of   *)
(* xml.c, xml_cache.c and localize.c.                                      *)
(*                                                                         *)
(* Every block has a header in front and a mark behind, and is in the list *)
(* of its hash value, doubly linked and circular, with a list head that is *)
(* no block.  A pointer is the block it points to; malloc may give an      *)
(* address again that was freed.  The walks through the lists are step by  *)
(* step.  What the headers are printed for is left out: file and size.     *)
(***************************************************************************)
EXTENDS Integers, FiniteSets

CONSTANTS
    Blocks,         \* addresses malloc may give
    HashSize,       \* HASHSIZE
    Hash,           \* [Blocks -> Heads], HASH of the address
    MaxGeneration,  \* bound: allocations
    MaxFailures     \* bound: calls of malloc and realloc that fail

Heads == 0 .. HashSize - 1      \* the addresses of Chain[i]
Nodes == Blocks \cup Heads

ASSUME RmallocAssumption ==
    /\ HashSize \in Nat \ {0} /\ Blocks \cap Int = {}
    /\ Hash \in [Blocks -> Heads]
    /\ MaxGeneration \in Nat /\ MaxFailures \in Nat

VARIABLES
    initialized,  \* Global.isInitialized
    count,        \* Global.BlockCount
    generation,   \* cur_generation
    next, prev,   \* [Nodes -> Nodes or Nil], the links of headers and list heads
    header,       \* [Blocks -> [gen, flags, damaged]]
    heap,         \* the blocks malloc has given and free has not got back
    failures,     \* calls of malloc and realloc that failed
    pc, call,     \* where in the wrapper the program is, and in which call
    cursor,       \* B of the loop
    seen,         \* the blocks the loops of TestAll or Rmalloc_stat have passed
    known,        \* history: the blocks that were added and not removed
    reinited,     \* history: Rmalloc_reinit was called
    wrong         \* history: what free or realloc got that malloc had not given

listVars == <<initialized, count, generation, next, prev, known>>
vars == <<listVars, header, heap, failures, pc, call, cursor, seen, reinited, wrong>>

RM_STATIC == "static"
AllFlags == {RM_STATIC}         \* RM_STRING is only printed
Nil == -1
NoCall == [op |-> "none"]
\* What a header of memory that is not allocated holds is nobody's.
Blank == [gen |-> 0, flags |-> {}, damaged |-> FALSE]

-----------------------------------------------------------------------------
(* The lists. *)

\* mutant: the list heads stay as they are
EmptiedNot(links) == links
\* Initialize: every list head points to itself.
Emptied(links) == [x \in Nodes |-> IF x \in Heads THEN x ELSE links[x]]
Next0 == IF initialized THEN next ELSE Emptied(next)
Prev0 == IF initialized THEN prev ELSE Emptied(prev)

\* mutant: the head is changed before its old value is taken
NextAddedSwapped(nx, b) == [nx EXCEPT ![Hash[b]] = b, ![b] = b]
\* AddBlk: behind the head of the list.
NextAdded(nx, b) == [nx EXCEPT ![b] = nx[Hash[b]], ![Hash[b]] = b]
\* mutant: the block that was first keeps pointing to the list head
PrevAddedOnly(nx, pv, b) == [pv EXCEPT ![b] = Hash[b]]
PrevAdded(nx, pv, b) == [pv EXCEPT ![b] = Hash[b], ![nx[Hash[b]]] = b]

\* mutant: only the links back are changed
NextRemovedNot(b) == next
\* The end of DelBlk.
NextRemoved(b) == [next EXCEPT ![prev[b]] = next[b]]
PrevRemoved(b) == [prev EXCEPT ![next[b]] = prev[b]]
Unlink(b) ==
    next' = NextRemoved(b) /\ prev' = PrevRemoved(b) /\ known' = known \ {b}

\* SetBlk: a block the system has given gets its header and joins the others.
SetBlk(nx, pv, headers, others, b, flags) ==
    /\ generation' = generation + 1
    /\ header' = [headers EXCEPT ![b] = [gen |-> generation + 1, flags |-> flags,
                                         damaged |-> FALSE]]
    /\ next' = NextAdded(nx, b) /\ prev' = PrevAdded(nx, pv, b)
    /\ known' = others \cup {b}
    /\ initialized' = TRUE

Goto(label) == pc' = label
Abort(why) ==
    /\ Goto("aborted") /\ call' = [call EXCEPT !.op = why]
    /\ UNCHANGED <<cursor, seen>>
Return == Goto("idle") /\ call' = NoCall /\ cursor' = 0 /\ seen' = {}

-----------------------------------------------------------------------------
(* Rmalloc; Rcalloc, Rstrdup and Rgetcwd get their block from it. *)

Rmalloc(b) ==
    /\ pc = "idle" /\ b \notin heap
    /\ generation < MaxGeneration
    /\ heap' = heap \cup {b}
    /\ SetBlk(Next0, Prev0, header, known, b, {}) /\ count' = count + 1
    /\ UNCHANGED <<failures, pc, call, cursor, seen, reinited, wrong>>

OutOfMemory ==
    /\ pc = "idle" /\ failures < MaxFailures
    /\ failures' = failures + 1
    /\ UNCHANGED <<listVars, header, heap, pc, call, cursor, seen, reinited, wrong>>

-----------------------------------------------------------------------------
(* Rfree and Rrealloc: DelBlk looks for the block in its list.  The program  *)
(* may call them with any pointer; finding that out is what they are for.    *)

DelBlk(op, b, flags) ==
    /\ call' = [op |-> IF initialized THEN op ELSE "uninitialized",
                blk |-> b, flags |-> flags]
    /\ IF initialized
       THEN Goto("find") /\ cursor' = next[Hash[b]]
       ELSE Goto("aborted") /\ UNCHANGED cursor

Rfree(b) ==
    /\ pc = "idle"
    /\ DelBlk("free", b, {})
    /\ UNCHANGED <<listVars, header, heap, failures, seen, reinited, wrong>>

\* "keep flags", and "unset static flag to avoid warning", before the pointer was
\* looked at.
Rrealloc(b) ==
    /\ pc = "idle" /\ generation < MaxGeneration
    /\ DelBlk("realloc", b, header[b].flags)
    /\ header' = [header EXCEPT ![b].flags = @ \ {RM_STATIC}]
    /\ UNCHANGED <<listVars, heap, failures, seen, reinited, wrong>>

\* mutant: the search goes back
FindBackwards ==
    /\ pc = "find" /\ cursor # Hash[call.blk] /\ cursor # call.blk
    /\ cursor' = prev[cursor]
    /\ UNCHANGED <<listVars, header, heap, failures, pc, call, seen, reinited, wrong>>

FindStep ==
    /\ pc = "find" /\ cursor # Hash[call.blk] /\ cursor # call.blk
    /\ cursor' = next[cursor]
    /\ UNCHANGED <<listVars, header, heap, failures, pc, call, seen, reinited, wrong>>

\* "Double or false delete".
NotFound ==
    /\ pc = "find" /\ cursor = Hash[call.blk]
    /\ Abort("unknown")
    /\ UNCHANGED <<listVars, header, heap, failures, reinited, wrong>>

Found == pc = "find" /\ cursor = call.blk

\* ControlBlock.
FoundDamaged ==
    /\ Found /\ header[cursor].damaged
    /\ Abort("damaged")
    /\ UNCHANGED <<listVars, header, heap, failures, reinited, wrong>>

HeadersWithout(b) == [header EXCEPT ![b] = Blank]
GivenBack(b) == wrong' = wrong \cup ({b} \ heap)

FreeFound ==
    /\ Found /\ ~header[cursor].damaged /\ call.op = "free"
    /\ Unlink(cursor) /\ count' = count - 1
    /\ heap' = heap \ {cursor} /\ GivenBack(cursor)
    /\ header' = HeadersWithout(cursor)
    /\ Return
    /\ UNCHANGED <<initialized, generation, failures, reinited>>

\* Unlink, and AddBlk of what realloc returns, which may be the same address.
ReallocFound(b) ==
    /\ Found /\ ~header[cursor].damaged /\ call.op = "realloc"
    /\ b \notin heap \ {cursor}
    /\ SetBlk(NextRemoved(cursor), PrevRemoved(cursor), HeadersWithout(cursor),
              known \ {cursor}, b, call.flags)
    /\ heap' = (heap \ {cursor}) \cup {b} /\ GivenBack(cursor)
    /\ Return
    /\ UNCHANGED <<count, failures, reinited>>

\* mutant: the block still counts
ReallocFailsCounted ==
    /\ Found /\ ~header[cursor].damaged /\ call.op = "realloc"
    /\ failures < MaxFailures /\ failures' = failures + 1
    /\ Unlink(cursor) /\ UNCHANGED count
    /\ GivenBack(cursor)
    /\ Return
    /\ UNCHANGED <<initialized, generation, header, heap, reinited>>
\* The block is the program's still, and in no list.
ReallocFails ==
    /\ Found /\ ~header[cursor].damaged /\ call.op = "realloc"
    /\ failures < MaxFailures /\ failures' = failures + 1
    /\ Unlink(cursor) /\ count' = count - 1
    /\ GivenBack(cursor)
    /\ Return
    /\ UNCHANGED <<initialized, generation, header, heap, reinited>>

-----------------------------------------------------------------------------
(* Rmalloc_test, Rmalloc_stat and Exit: TestAll, list by list, and the blocks *)
(* that are no static ones into a vector of BlockCount pointers.              *)

TestAll(op) ==
    /\ pc = "idle" /\ (op = "exit" => initialized)
    /\ initialized' = TRUE /\ next' = Next0 /\ prev' = Prev0
    /\ call' = [op |-> op, chain |-> 0]
    /\ cursor' = Next0[0] /\ seen' = {} /\ Goto("test")
    /\ UNCHANGED <<count, generation, header, heap, failures, known, reinited, wrong>>

TestStep ==
    /\ pc = "test" /\ cursor # call.chain
    /\ IF header[cursor].damaged
       THEN Abort("damaged")
       ELSE /\ seen' = seen \cup {cursor} /\ cursor' = next[cursor]
            /\ UNCHANGED <<pc, call>>
    /\ UNCHANGED <<listVars, header, heap, failures, reinited, wrong>>

\* mutant: one list less
LastChainEarly(chain) == chain = HashSize - 2
LastChain(chain) == chain = HashSize - 1

NextChain ==
    /\ pc \in {"test", "collect"} /\ cursor = call.chain /\ ~LastChain(call.chain)
    /\ call' = [call EXCEPT !.chain = @ + 1]
    /\ cursor' = next[call.chain + 1]
    /\ UNCHANGED <<listVars, header, heap, failures, pc, seen, reinited, wrong>>

EndOfList == cursor = call.chain /\ LastChain(call.chain)
Leave ==
    IF call.op = "exit"
    THEN Goto("exited") /\ UNCHANGED <<call, cursor, seen>>
    ELSE Return

TestDone ==
    /\ pc = "test" /\ EndOfList
    /\ call.op # "test" => count = 0
    /\ Leave
    /\ UNCHANGED <<listVars, header, heap, failures, reinited, wrong>>

NoVector ==
    /\ pc = "test" /\ EndOfList /\ call.op # "test" /\ count # 0
    /\ failures < MaxFailures /\ failures' = failures + 1
    /\ Leave
    /\ UNCHANGED <<listVars, header, heap, reinited, wrong>>

Collect ==
    /\ pc = "test" /\ EndOfList /\ call.op # "test" /\ count # 0
    /\ Goto("collect")
    /\ call' = [call EXCEPT !.chain = 0] /\ cursor' = next[0] /\ seen' = {}
    /\ UNCHANGED <<listVars, header, heap, failures, reinited, wrong>>

CollectStep ==
    /\ pc = "collect" /\ cursor # call.chain
    /\ seen' = seen \cup (IF RM_STATIC \in header[cursor].flags THEN {} ELSE {cursor})
    /\ cursor' = next[cursor]
    /\ UNCHANGED <<listVars, header, heap, failures, pc, call, reinited, wrong>>

\* assert(i <= Global.BlockCount)
CollectDone ==
    /\ pc = "collect" /\ EndOfList
    /\ IF Cardinality(seen) <= count THEN Leave ELSE Abort("assert")
    /\ UNCHANGED <<listVars, header, heap, failures, reinited, wrong>>

-----------------------------------------------------------------------------
(* The rest of the calls, and what a program does to its blocks. *)

\* Rmalloc_set_flags, Rmalloc_retag and Rmalloc_usable_size look at the block, not
\* into the lists.
Inspect(b, flags) ==
    /\ pc = "idle" /\ b \in heap
    /\ IF header[b].damaged
       THEN Abort("damaged") /\ UNCHANGED header
       ELSE /\ header' = [header EXCEPT ![b].flags = @ \cup flags]
            /\ UNCHANGED <<pc, call, cursor, seen>>
    /\ UNCHANGED <<listVars, heap, failures, reinited, wrong>>

\* With a pointer to freed memory the marks may be there or not.
InspectStray(b) ==
    /\ pc = "idle" /\ b \notin heap
    /\ Abort("stray")
    /\ UNCHANGED <<listVars, header, heap, failures, reinited, wrong>>

\* Rrealloc and Rstrdup abort for NULL; Rfree and the others return.
NullPointer ==
    /\ pc = "idle"
    /\ Abort("null")
    /\ UNCHANGED <<listVars, header, heap, failures, reinited, wrong>>

\* "DON'T USE THIS FUNCTION!"
Rmalloc_reinit ==
    /\ pc = "idle"
    /\ next' = Emptied(next) /\ prev' = Emptied(prev)
    /\ generation' = 0 /\ known' = {} /\ reinited' = TRUE
    /\ UNCHANGED <<initialized, count, header, heap, failures, pc, call, cursor, seen, wrong>>

\* The program writes behind the end of one of its blocks.
WritePastEnd(b) ==
    /\ pc = "idle" /\ b \in heap
    /\ header' = [header EXCEPT ![b].damaged = TRUE]
    /\ UNCHANGED <<listVars, heap, failures, pc, call, cursor, seen, reinited, wrong>>

-----------------------------------------------------------------------------
Init ==
    /\ initialized = FALSE /\ count = 0 /\ generation = 0
    /\ next = [x \in Nodes |-> Nil] /\ prev = [x \in Nodes |-> Nil]
    /\ header = [b \in Blocks |-> Blank]
    /\ heap = {} /\ failures = 0
    /\ pc = "idle" /\ call = NoCall /\ cursor = 0 /\ seen = {}
    /\ known = {} /\ reinited = FALSE /\ wrong = {}

Walk ==
    \/ FindStep \/ NotFound \/ FoundDamaged \/ FreeFound \/ ReallocFails
    \/ \E b \in Blocks : ReallocFound(b)
    \/ TestStep \/ NextChain \/ TestDone \/ NoVector \/ Collect
    \/ CollectStep \/ CollectDone

\* The process has ended.
Over == pc \in {"aborted", "exited"} /\ UNCHANGED vars

Next ==
    \/ \E b \in Blocks :
          \/ Rmalloc(b) \/ Rfree(b) \/ Rrealloc(b)
          \/ \E flags \in SUBSET AllFlags : Inspect(b, flags)
          \/ InspectStray(b) \/ WritePastEnd(b)
    \/ OutOfMemory \/ NullPointer \/ Rmalloc_reinit
    \/ \E op \in {"test", "stat", "exit"} : TestAll(op)
    \/ Walk \/ Over

\* A call is sequential code.
Spec == Init /\ [][Next]_vars /\ WF_vars(Walk)

-----------------------------------------------------------------------------
(* Properties. *)

Calls ==
    {NoCall}
    \cup [op : {"free", "realloc", "uninitialized", "unknown", "damaged"},
          blk : Blocks, flags : SUBSET AllFlags]
    \cup [op : {"test", "stat", "exit", "damaged", "assert"}, chain : Heads]
    \cup {[op |-> why] : why \in {"damaged", "stray", "null"}}

\* Every link is a header, a list head or was never set, and calls, blocks and
\* headers are well typed.
TypeOK ==
    /\ initialized \in BOOLEAN /\ count \in Nat /\ generation \in Nat
    /\ next \in [Nodes -> Nodes \cup {Nil}] /\ prev \in [Nodes -> Nodes \cup {Nil}]
    /\ header \in [Blocks -> [gen : Nat, flags : SUBSET AllFlags,
                             damaged : BOOLEAN]]
    /\ heap \subseteq Blocks /\ known \subseteq Blocks /\ seen \subseteq Blocks
    /\ failures \in Nat
    /\ pc \in {"idle", "find", "test", "collect", "exited", "aborted"}
    /\ call \in Calls /\ cursor \in Nodes
    /\ reinited \in BOOLEAN /\ wrong \subseteq Blocks

\* The blocks of a list, and those behind a block or a list head: the ones that
\* were added before it.
Members(h) == {b \in known : Hash[b] = h}
Behind(h, x) ==
    IF x = h THEN Members(h) ELSE {b \in Members(h) : header[b].gen < header[x].gen}

\* The links of the lists, however blocks were added, moved and removed: forward
\* and backward they are each other's inverse, and from the list head they lead
\* to every block that was added and not removed, youngest first, and back.
Chained(h) ==
    \A x \in Members(h) \cup {h} :
        /\ next[x] \in Members(h) \cup {h} /\ prev[x] \in Members(h) \cup {h}
        /\ prev[next[x]] = x /\ next[prev[x]] = x
        /\ next[x] = h => Behind(h, x) = {}
        /\ next[x] # h =>
              /\ next[x] \in Behind(h, x)
              /\ Behind(h, x) = Behind(h, next[x]) \cup {next[x]}
ListsHoldKnown == initialized => \A h \in Heads : Chained(h)

\* free and realloc of the system get only what malloc has given, also when the
\* program frees twice, frees what was moved by realloc, or frees what it never had.
OnlyAllocatedIsFreed == wrong = {}

\* A block that is in a list is never called unknown, whatever has failed before,
\* and one that is not was not the program's to pass, unless an allocation had failed
\* (a realloc that fails takes a block out of its list that is not freed) or the
\* lists were thrown away.  An abort because of a damaged block has one.
AbortIsDeserved ==
    pc = "aborted" =>
        /\ call.op \in {"unknown", "uninitialized"} =>
              /\ call.blk \notin known
              /\ call.blk \notin heap \/ failures > 0 \/ reinited
        /\ call.op = "damaged" => \E b \in Blocks : header[b].damaged
        /\ call.op # "assert"

\* The vector of Rmalloc_stat has room for what is put into it, before the assert
\* looks (src/src/rmalloc.c:1464), and without Rmalloc_reinit BlockCount is the
\* number of the blocks in the lists.
VectorIsLargeEnough ==
    /\ pc = "collect" => Cardinality(seen) <= count
    /\ ~reinited => count = Cardinality(known)

\* Rmalloc_test, Rmalloc_stat and Exit go on only when no block in the lists is
\* damaged.
TestIsThorough ==
    [][pc = "test" /\ pc' \in {"idle", "collect", "exited"} =>
          \A b \in known : ~header[b].damaged]_vars

\* Every call ends, in whatever state the lists are.
CallsEnd == pc \in {"find", "test", "collect"} ~> pc \in {"idle", "exited", "aborted"}
=============================================================================
