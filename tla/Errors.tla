------------------------------- MODULE Errors -------------------------------
(***************************************************************************)
(* Error reports (src/src/xml.c): __zeroxml_set_error keeps the last error *)
(* of a document in its own info block, and of all documents in one static *)
(* record; xmlErrorGetNo, xmlErrorGetLineNo, xmlErrorGetColumnNo and       *)
(* xmlErrorGetString read and clear them.                                  *)
(*                                                                         *)
(* Threads work with a document each.  Nothing is locked, so a function is *)
(* as many steps as it has stores to the static record.  A place in a text *)
(* stands for its line and its column: both are computed in the same way.  *)
(***************************************************************************)
EXTENDS Integers

CONSTANTS
    Threads,
    Docs,         \* open documents
    Owner,        \* [Docs -> Threads], the thread that works with a document
    NoInfo,       \* NULL in place of an info block
    Opening,      \* a document that is being opened and cannot be
    Places,       \* pointers an error is reported with
    Line,         \* [Places -> Nat \ {0}], the line of a place in its text
    Faults,       \* the errors that happen: [place, code]
    MaxFailures   \* bound: info blocks that cannot be allocated

ASSUME ErrorsAssumption ==
    /\ Owner \in [Docs -> Threads] /\ Opening \notin Docs
    /\ Line \in [Places -> Nat \ {0}] /\ "nowhere" \notin Places
    /\ Faults \subseteq [place : Places, code : Int \ {0}]
    /\ NoInfo \notin [place : Places, code : Int]
    /\ MaxFailures \in Nat

VARIABLES
    info,      \* [Docs -> rid->info]
    valid,     \* [Docs -> VALIDATING(rid)]
    shared,    \* __zeroxml_info
    failures,  \* allocations that failed
    pc,        \* [Threads -> where in the library a thread is]
    call,      \* [Threads -> the call it makes]
    got,       \* [Threads -> what the call has returned]
    last,      \* history: [Docs -> the error that was kept last and not cleared]
    own        \* history: [Threads -> no other thread has stored to shared since]

vars == <<info, valid, shared, failures, pc, call, got, last, own>>

XML_NO_ERROR == 0
XML_OUT_OF_MEMORY == 1
XML_FILE_NOT_FOUND == 2
NoCall == [kind |-> "none"]
Nowhere == "nowhere"      \* no error has been kept

\* mutant: a thread uses any document
AnyDocs(t) == Docs
OwnDocs(t) == {d \in Docs : Owner[d] = t}

\* A store to the static record.
Stores(t) == own' = [s \in Threads |-> own[s] /\ s = t]
Goto(t, label) == pc' = [pc EXCEPT ![t] = label]
-----------------------------------------------------------------------------
(* __zeroxml_set_error. *)

\* The static line counts from "start": a scan that fails while a document is
\* opened counts from the start of its text, an error of an open document from its
\* node (SET_ERROR(xid, xid->name, ps, ...)) or from the place itself.
Report(t, d, fault) ==
    /\ pc[t] = "idle"
    /\ d \in OwnDocs(t) \cup {Opening}
    /\ call' = [call EXCEPT ![t] = [kind |-> "set", doc |-> d, block |-> fault]]
    /\ \E line \in 1 .. Line[fault.place] :
          /\ d = Opening => line = Line[fault.place]
          /\ shared' = [shared EXCEPT !.line = line]
    /\ own' = [s \in Threads |-> s = t] /\ Goto(t, "info")
    /\ UNCHANGED <<info, valid, failures, got, last>>

C(t) == call[t]

\* The block of an open that fails is freed behind this call (xml.c:194, 292).
KeepInfo(t) ==
    /\ pc[t] = "info"
    /\ IF C(t).doc \in Docs
       THEN /\ info' = [info EXCEPT ![C(t).doc] = C(t).block]
            /\ last' = [last EXCEPT ![C(t).doc] = C(t).block]
       ELSE UNCHANGED <<info, last>>
    /\ shared' = [shared EXCEPT !.code = C(t).block.code]
    /\ Stores(t) /\ Goto(t, "shared")
    /\ UNCHANGED <<valid, failures, call, got>>

NoMemory(t) ==
    /\ pc[t] = "info" /\ (C(t).doc \in Docs => info[C(t).doc] = NoInfo)
    /\ failures < MaxFailures /\ failures' = failures + 1
    /\ Goto(t, "shared")
    /\ UNCHANGED <<info, valid, shared, call, got, last, own>>

\* Behind an open that failed the thread may ask for the error without a document.
ReportDone(t) == call' = IF C(t).doc = Opening THEN call ELSE [call EXCEPT ![t] = NoCall]

\* mutant: the static record is stored to only with a block
ShareNothing(t) ==
    /\ pc[t] = "shared"
    /\ Goto(t, "idle") /\ ReportDone(t)
    /\ UNCHANGED <<info, valid, shared, failures, got, last, own>>

\* The end of the report: with the block or without.
Share(t) ==
    /\ pc[t] = "shared"
    /\ shared' = [shared EXCEPT !.code = C(t).block.code]
    /\ Stores(t) /\ Goto(t, "idle") /\ ReportDone(t)
    /\ UNCHANGED <<info, valid, failures, got, last>>

\* An open that fails before the scan returns NULL and reports nothing: there was no
\* file, no memory or no mapping, or the buffer was NULL or empty.  In the place of
\* the block is what it might have reported; a buffer that is not there counts as a
\* file that is not.
Silences == [place : {Nowhere}, code : {XML_FILE_NOT_FOUND, XML_OUT_OF_MEMORY}]

FailSilently(t) ==
    /\ pc[t] = "idle"
    /\ \E silence \in Silences :
          call' = [call EXCEPT ![t] = [kind |-> "silent", doc |-> Opening, block |-> silence]]
    /\ UNCHANGED <<info, valid, shared, failures, pc, got, last, own>>

-----------------------------------------------------------------------------
(* The four getters of a document. *)

Kept(d) == valid[d] /\ info[d] # NoInfo

Ask(t, kind, d, clear) ==
    /\ pc[t] = "idle"
    /\ call' = [call EXCEPT ![t] = [kind |-> kind, doc |-> d, clear |-> clear]]

\* What of the block a getter returns.
Answer(kind, block) ==
    CASE kind = "line" -> Line[block.place] [] OTHER -> block.code

NotEnabled == -1      \* "error detection was not enabled."
\* Without a block, or without XML_VALIDATING.
Nothing(kind) == IF kind = "string" THEN NotEnabled ELSE XML_NO_ERROR

AskNothing(t, kind, d) ==
    /\ d \in OwnDocs(t) /\ ~Kept(d)
    /\ \E clear \in BOOLEAN : Ask(t, kind, d, clear)
    /\ got' = [got EXCEPT ![t] = Nothing(kind)]
    /\ Goto(t, "answered")
    /\ UNCHANGED <<info, valid, shared, failures, last, own>>

\* xmlErrorGetNo stores to the static record what it returns.
Read(t, kind, d, clear) ==
    /\ d \in OwnDocs(t) /\ Kept(d)
    /\ Ask(t, kind, d, clear)
    /\ got' = [got EXCEPT ![t] = Answer(kind, info[d])]
    /\ IF kind = "no"
       THEN shared' = [shared EXCEPT !.code = info[d].code] /\ Stores(t)
       ELSE UNCHANGED <<shared, own>>
    /\ Goto(t, IF clear THEN "clear" ELSE "return")
    /\ UNCHANGED <<info, valid, failures, last>>

\* What a clear leaves of a block.
CodeOnly(block) == [block EXCEPT !.code = XML_NO_ERROR]

Clear(t) ==
    /\ pc[t] = "clear"
    /\ info' = [info EXCEPT ![C(t).doc] = CodeOnly(@)]
    /\ shared' = [shared EXCEPT !.code = XML_NO_ERROR]
    /\ last' = [last EXCEPT ![C(t).doc].code = XML_NO_ERROR]
    /\ Stores(t) /\ Goto(t, "return")
    /\ UNCHANGED <<valid, failures, call, got>>

\* mutant: the number is read back from the static record
ReturnShared(t) ==
    /\ pc[t] = "return"
    /\ got' = [got EXCEPT ![t] = IF C(t).kind = "no" THEN shared.code ELSE @]
    /\ Goto(t, "answered")
    /\ UNCHANGED <<info, valid, shared, failures, call, last, own>>

Return(t) ==
    /\ pc[t] = "return"
    /\ Goto(t, "answered")
    /\ UNCHANGED <<info, valid, shared, failures, call, got, last, own>>

\* The getters without a document, behind an open that failed, whether it has
\* reported or not.
AskShared(t, kind) ==
    /\ pc[t] = "idle" /\ C(t).kind \in {"set", "silent"}
    /\ call' = [call EXCEPT ![t].kind = kind]
    /\ got' = [got EXCEPT ![t] = IF kind = "line" THEN shared.line ELSE shared.code]
    /\ Goto(t, "answered")
    /\ UNCHANGED <<info, valid, shared, failures, last, own>>

Forget(t) ==
    /\ pc[t] = "answered"
    /\ Goto(t, "idle")
    /\ call' = [call EXCEPT ![t] = NoCall] /\ got' = [got EXCEPT ![t] = XML_NO_ERROR]
    /\ UNCHANGED <<info, valid, shared, failures, last, own>>

\* xmlSetFlags: what is recorded stays recorded.
SetValidating(t, d) ==
    /\ pc[t] = "idle" /\ d \in OwnDocs(t)
    /\ valid' = [valid EXCEPT ![d] = ~@]
    /\ UNCHANGED <<info, shared, failures, pc, call, got, last, own>>

-----------------------------------------------------------------------------
Init ==
    /\ info = [d \in Docs |-> NoInfo] /\ valid = [d \in Docs |-> TRUE]
    /\ shared = [line |-> 0, code |-> XML_NO_ERROR]
    /\ failures = 0
    /\ pc = [t \in Threads |-> "idle"] /\ call = [t \in Threads |-> NoCall]
    /\ got = [t \in Threads |-> XML_NO_ERROR]
    /\ last = [d \in Docs |-> [place |-> Nowhere, code |-> XML_NO_ERROR]]
    /\ own = [t \in Threads |-> FALSE]

Kinds == {"no", "line", "string"}

Next ==
    \E t \in Threads :
        \/ \E d \in Docs \cup {Opening}, fault \in Faults : Report(t, d, fault)
        \/ KeepInfo(t) \/ NoMemory(t) \/ Share(t) \/ FailSilently(t)
        \/ \E kind \in Kinds, d \in Docs :
              \/ AskNothing(t, kind, d)
              \/ \E clear \in BOOLEAN : Read(t, kind, d, clear)
              \/ SetValidating(t, d)
        \/ Clear(t) \/ Return(t) \/ Forget(t)
        \/ \E kind \in Kinds : AskShared(t, kind)

Spec == Init /\ [][Next]_vars

-----------------------------------------------------------------------------
(* Properties. *)

Error == [place : Places, code : Int]
Call ==
    [kind : {"set"} \cup Kinds, doc : Docs \cup {Opening}, block : Faults]
    \cup [kind : {"silent"} \cup Kinds, doc : {Opening}, block : Silences]
    \cup [kind : Kinds, doc : Docs, clear : BOOLEAN]

\* Blocks, the static record and the calls are well typed, and a thread is in the
\* middle of a call on its own document only.
TypeOK ==
    /\ info \in [Docs -> Error \cup {NoInfo}] /\ valid \in [Docs -> BOOLEAN]
    /\ shared \in [line : Nat, code : Int]
    /\ pc \in [Threads -> {"idle", "info", "shared", "clear", "return", "answered"}]
    /\ call \in [Threads -> Call \cup {NoCall}]
    /\ \A t \in Threads :
          /\ pc[t] \in {"info", "shared"} => C(t).kind = "set"
          /\ pc[t] \in {"clear", "return"} => C(t).kind \in Kinds /\ C(t).doc \in Docs
          /\ C(t) # NoCall /\ C(t).doc \in Docs => Owner[C(t).doc] = t

\* The states in which a getter without a clear has its answer, or one with a
\* clear has not cleared yet.
Answered(t) ==
    /\ C(t).kind \in Kinds /\ C(t).doc \in Docs
    /\ pc[t] = "clear" \/ (pc[t] = "answered" /\ ~C(t).clear)

\* "Error information is stored per XML-id" (README.md:462): whatever other threads
\* report, read and clear at the same time, in whatever order their stores to the
\* static record come, a getter tells the last error of its own document that was
\* kept, number and place, and no number once that was cleared.
OwnErrors ==
    \A t \in Threads : Answered(t) =>
        LET d == C(t).doc
        IN got[t] = IF valid[d] /\ last[d].place # Nowhere
                    THEN Answer(C(t).kind, last[d]) ELSE Nothing(C(t).kind)

\* A getter without a document is about an open that failed.
AskedOfOpen(t) == pc[t] = "answered" /\ C(t).kind \in Kinds /\ C(t).doc = Opening

\* When the scan for all nodes fails xmlOpenFlags and xmlInitBufferFlags report it
\* (xml.c:188, 286): the getters without a document, by which the C++ binding words
\* its exception (src/src/easyxml.cpp:216), tell the number and the line of that
\* error, also when there was no memory for its block, unless another thread got in
\* between.  Of the opens that fail before the scan it says nothing: behind them the
\* string is that of some earlier error, or of none.
ScanErrorIsTold ==
    \A t \in Threads :
        AskedOfOpen(t) /\ C(t).block \in Faults /\ own[t] =>
            got[t] = Answer(C(t).kind, C(t).block)
=============================================================================
