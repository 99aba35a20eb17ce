--------------------------- MODULE Errors_proofs ---------------------------
(***************************************************************************)
(* What is proved of error reports, for any number of threads, documents,  *)
(* errors and allocations that fail.                                       *)
(***************************************************************************)
EXTENDS Errors, TLAPS

Reports == [kind : {"set"} \cup Kinds, doc : Docs \cup {Opening}, block : Faults]
Silents == [kind : {"silent"} \cup Kinds, doc : {Opening}, block : Silences]
Asks == [kind : Kinds, doc : Docs, clear : BOOLEAN]
Calls == Reports \cup Silents \cup Asks \cup {NoCall}
Labels == {"idle", "info", "shared", "clear", "return", "answered"}
Unkept == [place |-> Nowhere, code |-> XML_NO_ERROR]

Types ==
    /\ info \in [Docs -> Error \cup {NoInfo}] /\ valid \in [Docs -> BOOLEAN]
    /\ shared \in [line : Nat, code : Int]
    /\ pc \in [Threads -> Labels]
    /\ call \in [Threads -> Calls]
    /\ got \in [Threads -> Int] /\ own \in [Threads -> BOOLEAN]
    /\ last \in [Docs -> [place : Places \cup {Nowhere}, code : Int]]

\* The block of a document is the last error that was kept.
DocOK(d) ==
    \/ info[d] = NoInfo /\ last[d] = Unkept
    \/ info[d] \in Error /\ last[d] = info[d]

\* Where a thread is, it is with a call that leads there and a document of its own.
CallOK(t) ==
    /\ pc[t] = "idle" =>
          \/ C(t) = NoCall
          \/ C(t) \in Reports /\ C(t).kind = "set" /\ C(t).doc = Opening
          \/ C(t) \in Silents /\ C(t).kind = "silent"
    /\ pc[t] \in {"info", "shared"} =>
          /\ C(t) \in Reports /\ C(t).kind = "set"
          /\ C(t).doc \in OwnDocs(t) \cup {Opening}
    /\ pc[t] \in {"clear", "return"} => C(t) \in Asks /\ C(t).doc \in OwnDocs(t)
    /\ pc[t] = "clear" => C(t).clear /\ info[C(t).doc] # NoInfo
    /\ pc[t] = "answered" =>
          \/ C(t) \in Asks /\ C(t).doc \in OwnDocs(t)
          \/ C(t) \in Reports /\ C(t).kind \in Kinds /\ C(t).doc = Opening
          \/ C(t) \in Silents /\ C(t).kind \in Kinds

Expected(kind, d) ==
    IF valid[d] /\ last[d].place # Nowhere THEN Answer(kind, last[d]) ELSE Nothing(kind)

\* The answer is there before the clear, and stays when there is none.
ToldOK(t) ==
    \/ pc[t] = "clear"
    \/ pc[t] \in {"return", "answered"} /\ C(t) \in Asks /\ ~C(t).clear
    => got[t] = Expected(C(t).kind, C(t).doc)

\* As long as no other thread stores to it, the static record is about the scan
\* that has failed: first its line, in the end its code too.
SharedOK(t) ==
    own[t] /\ C(t) \in Reports /\ C(t).doc = Opening =>
        /\ pc[t] \in {"idle", "info", "shared"} => shared.line = Line[C(t).block.place]
        /\ pc[t] = "idle" => shared.code = C(t).block.code
        /\ pc[t] = "answered" => got[t] = Answer(C(t).kind, C(t).block)

IInv ==
    /\ Types
    /\ \A d \in Docs : DocOK(d)
    /\ \A t \in Threads : CallOK(t) /\ ToldOK(t) /\ SharedOK(t)

-----------------------------------------------------------------------------
(* What a thread does not disturb. *)

\* Answers are numbers.
LEMMA AnswerType ==
    ASSUME NEW kind, NEW block \in Error
    PROVE Answer(kind, block) \in Int
BY ErrorsAssumption DEF Answer, Error

\* Faults are errors with a number and a line.
LEMMA FaultType ==
    ASSUME NEW fault \in Faults
    PROVE fault \in Error /\ fault.code \in Int /\ Line[fault.place] \in Nat \ {0}
BY ErrorsAssumption DEF Error

\* Reports, failures that report nothing and requests are different calls.
LEMMA CallsDiffer ==
    /\ \A c \in Reports : c # NoCall
    /\ \A c \in Silents :
          c # NoCall /\ c \notin Reports /\ c.block \notin Faults /\ c.doc = Opening
    /\ \A c \in Asks : c # NoCall /\ c.doc # Opening
    /\ NoCall.kind \notin Kinds \cup {"set", "silent"} /\ "silent" \notin Kinds \cup {"set"}
<1>1. \A b \in Silences : b \notin Faults
  BY ErrorsAssumption DEF Silences, Nowhere
<1>2. QED
  BY <1>1, ErrorsAssumption DEF Reports, Silents, Asks, NoCall, Kinds

\* A step of thread t leaves the others alone: their calls, their documents, and,
\* as long as they take it for theirs, the static record.
Frame(t) ==
    /\ \A s \in Threads \ {t} :
          /\ pc'[s] = pc[s] /\ call'[s] = call[s] /\ got'[s] = got[s]
          /\ own'[s] => own[s] /\ shared' = shared
    /\ \A d \in Docs : Owner[d] # t =>
          info'[d] = info[d] /\ last'[d] = last[d] /\ valid'[d] = valid[d]

LEMMA OthersKeep ==
    ASSUME IInv, NEW t \in Threads, Frame(t), Types',
           \A d \in Docs : DocOK(d)',
           CallOK(t)', ToldOK(t)', SharedOK(t)'
    PROVE IInv'
<1>1. ASSUME NEW s \in Threads, s # t
      PROVE CallOK(s)' /\ ToldOK(s)' /\ SharedOK(s)'
  <2>1. CallOK(s) /\ ToldOK(s) /\ SharedOK(s)
    BY DEF IInv
  <2>2. pc'[s] = pc[s] /\ C(s)' = C(s) /\ got'[s] = got[s]
    BY <1>1 DEF Frame, C
  <2>3. \A d \in OwnDocs(s) : info'[d] = info[d] /\ last'[d] = last[d] /\ valid'[d] = valid[d]
    BY <1>1 DEF Frame, OwnDocs
  <2>4. CallOK(s)'
    BY <2>1, <2>2, <2>3 DEF CallOK
  <2>5. ToldOK(s)'
    <3> SUFFICES ASSUME \/ pc[s] = "clear"
                        \/ pc[s] \in {"return", "answered"} /\ C(s) \in Asks /\ ~C(s).clear
                 PROVE got[s] = Expected(C(s).kind, C(s).doc)'
      BY <2>2 DEF ToldOK
    <3>1. C(s).doc \in OwnDocs(s)
      BY <2>1, CallsDiffer DEF CallOK
    <3>2. Expected(C(s).kind, C(s).doc)' = Expected(C(s).kind, C(s).doc)
      BY <2>2, <2>3, <3>1 DEF Expected
    <3>3. QED
      BY <2>1, <3>2 DEF ToldOK
  <2>6. SharedOK(s)'
    <3>1. own'[s] => own[s] /\ shared' = shared
      BY <1>1 DEF Frame
    <3>2. QED
      BY <2>1, <2>2, <3>1 DEF SharedOK
  <2>7. QED
    BY <2>4, <2>5, <2>6
<1>2. QED
  BY <1>1 DEF IInv

-----------------------------------------------------------------------------
(* One lemma per operation. *)

LEMMA ReportKeeps ==
    ASSUME IInv, NEW t \in Threads, NEW d \in Docs \cup {Opening}, NEW fault \in Faults,
           Report(t, d, fault)
    PROVE IInv'
<1> DEFINE new == [kind |-> "set", doc |-> d, block |-> fault]
<1>1. /\ pc[t] = "idle" /\ d \in OwnDocs(t) \cup {Opening}
      /\ call' = [call EXCEPT ![t] = new] /\ pc' = [pc EXCEPT ![t] = "info"]
      /\ own' = [s \in Threads |-> s = t]
      /\ UNCHANGED <<info, valid, failures, got, last>>
  BY DEF Report, Goto
<1> PICK line \in 1 .. Line[fault.place] :
        /\ d = Opening => line = Line[fault.place]
        /\ shared' = [shared EXCEPT !.line = line]
  BY DEF Report
<1>2. new \in Reports /\ new.kind = "set" /\ new.doc = d /\ new.block = fault
  BY DEF Reports
<1> HIDE DEF new
<1>3. /\ call' \in [Threads -> Calls] /\ C(t)' = new
      /\ pc' \in [Threads -> Labels] /\ pc'[t] = "info"
  BY <1>1, <1>2 DEF IInv, Types, Calls, Labels, C
<1>4. shared' \in [line : Nat, code : Int] /\ (d = Opening => shared'.line = Line[fault.place])
  BY <1>1, FaultType DEF IInv, Types, Calls
<1>5. Types'
  BY <1>1, <1>3, <1>4 DEF IInv, Types, Calls
<1>6. Frame(t)
  BY <1>1 DEF Frame, IInv, Types, Calls
<1>7. \A e \in Docs : DocOK(e)'
  BY <1>1 DEF IInv, DocOK
<1>8. CallOK(t)'
  BY <1>1, <1>2, <1>3 DEF CallOK, OwnDocs
<1>9. ToldOK(t)' /\ SharedOK(t)'
  BY <1>2, <1>3, <1>4 DEF ToldOK, SharedOK
<1>10. QED
  BY <1>5, <1>6, <1>7, <1>8, <1>9, OthersKeep

LEMMA KeepInfoKeeps ==
    ASSUME IInv, NEW t \in Threads, KeepInfo(t)
    PROVE IInv'
<1> DEFINE d == C(t).doc
           block == C(t).block
<1>1. /\ pc[t] = "info" /\ pc' = [pc EXCEPT ![t] = "shared"]
      /\ shared' = [shared EXCEPT !.code = block.code]
      /\ own' = [s \in Threads |-> own[s] /\ s = t]
      /\ UNCHANGED <<valid, failures, call, got>>
  BY DEF KeepInfo, Goto, Stores
<1>2. /\ C(t) \in Reports /\ C(t).kind = "set" /\ d \in OwnDocs(t) \cup {Opening}
      /\ block \in Faults
  BY <1>1 DEF IInv, CallOK, Reports
<1>3. block \in Error /\ block.code \in Int
  BY <1>2, FaultType
<1>4. CASE d \in Docs
  <2>1. info' = [info EXCEPT ![d] = block] /\ last' = [last EXCEPT ![d] = block]
    BY <1>4 DEF KeepInfo
  <2>2. d \in OwnDocs(t)
    BY <1>2, <1>4, ErrorsAssumption
  <2>3. block \in [place : Places \cup {Nowhere}, code : Int]
    BY <1>3 DEF Error
  <2>4. /\ info' \in [Docs -> Error \cup {NoInfo}]
        /\ last' \in [Docs -> [place : Places \cup {Nowhere}, code : Int]]
    BY <1>3, <2>1, <2>3 DEF IInv, Types, Calls
  <2>5. Types'
    BY <1>1, <1>3, <2>4 DEF IInv, Types, Calls, Labels
  <2>6. Frame(t)
    BY <1>1, <2>1, <2>2 DEF Frame, IInv, Types, Calls, OwnDocs
  <2>7. \A e \in Docs : DocOK(e)'
    BY <1>3, <2>1 DEF IInv, DocOK, Types, Calls
  <2>8. CallOK(t)'
    BY <1>1, <1>2 DEF CallOK, C, IInv, Types, Calls, OwnDocs
  <2>9. ToldOK(t)' /\ SharedOK(t)'
    BY <1>1, <1>4, ErrorsAssumption DEF ToldOK, SharedOK, C, IInv, Types, Calls
  <2>10. QED
    BY <2>5, <2>6, <2>7, <2>8, <2>9, OthersKeep
<1>5. CASE d \notin Docs
  <2>1. UNCHANGED <<info, last>>
    BY <1>5 DEF KeepInfo
  <2>2. Types'
    BY <1>1, <1>3, <2>1 DEF IInv, Types, Calls, Labels
  <2>3. Frame(t)
    BY <1>1, <2>1 DEF Frame, IInv, Types, Calls
  <2>4. \A e \in Docs : DocOK(e)'
    BY <2>1 DEF IInv, DocOK
  <2>5. CallOK(t)'
    BY <1>1, <1>2 DEF CallOK, C, IInv, Types, Calls, OwnDocs
  <2>6. ToldOK(t)' /\ SharedOK(t)'
    BY <1>1, <1>2 DEF ToldOK, SharedOK, C, IInv, Types, Calls
  <2>7. QED
    BY <2>2, <2>3, <2>4, <2>5, <2>6, OthersKeep
<1>6. QED
  BY <1>4, <1>5

LEMMA NoMemoryKeeps ==
    ASSUME IInv, NEW t \in Threads, NoMemory(t)
    PROVE IInv'
<1>1. /\ pc[t] = "info" /\ pc' = [pc EXCEPT ![t] = "shared"]
      /\ UNCHANGED <<info, valid, shared, call, got, last, own>>
  BY DEF NoMemory, Goto
<1>2. Types' /\ Frame(t) /\ \A e \in Docs : DocOK(e)'
  BY <1>1 DEF IInv, Types, Calls, Labels, Frame, DocOK
<1>3. CallOK(t)'
  BY <1>1 DEF CallOK, C, IInv, Types, Calls, OwnDocs
<1>4. ToldOK(t)' /\ SharedOK(t)'
  BY <1>1 DEF ToldOK, SharedOK, C, IInv, Types, Calls
<1>5. QED
  BY <1>2, <1>3, <1>4, OthersKeep

LEMMA ShareKeeps ==
    ASSUME IInv, NEW t \in Threads, Share(t)
    PROVE IInv'
<1> DEFINE block == C(t).block
<1>1. /\ pc[t] = "shared" /\ pc' = [pc EXCEPT ![t] = "idle"]
      /\ shared' = [shared EXCEPT !.code = block.code]
      /\ own' = [s \in Threads |-> own[s] /\ s = t]
      /\ call' = IF C(t).doc = Opening THEN call ELSE [call EXCEPT ![t] = NoCall]
      /\ UNCHANGED <<info, valid, failures, got, last>>
  BY DEF Share, Goto, Stores, ReportDone
<1>2. C(t) \in Reports /\ C(t).kind = "set" /\ block \in Faults
  BY <1>1 DEF IInv, CallOK, Reports
<1>3. block.code \in Int
  BY <1>2, FaultType
<1>4. /\ C(t)' = IF C(t).doc = Opening THEN C(t) ELSE NoCall
      /\ \A s \in Threads \ {t} : call'[s] = call[s]
      /\ call' \in [Threads -> Calls]
  BY <1>1 DEF C, IInv, Types, Calls
<1>5. Types'
  BY <1>1, <1>3, <1>4 DEF IInv, Types, Calls, Labels
<1>6. Frame(t)
  BY <1>1, <1>4 DEF Frame, IInv, Types, Calls
<1>7. \A e \in Docs : DocOK(e)'
  BY <1>1 DEF IInv, DocOK
<1>8. CallOK(t)'
  BY <1>1, <1>2, <1>4 DEF CallOK, IInv, Types, Calls
<1>9. ToldOK(t)'
  BY <1>1 DEF ToldOK, IInv, Types, Calls
<1>10. SharedOK(t)'
  <2>1. SharedOK(t) /\ pc'[t] = "idle" /\ (own'[t] => own[t])
        /\ shared'.line = shared.line /\ shared'.code = block.code
    BY <1>1 DEF IInv, Types, Calls
  <2>2. QED
    BY <1>1, <1>2, <1>4, <2>1, CallsDiffer DEF SharedOK
<1>11. QED
  BY <1>5, <1>6, <1>7, <1>8, <1>9, <1>10, OthersKeep

LEMMA AskNothingKeeps ==
    ASSUME IInv, NEW t \in Threads, NEW kind \in Kinds, NEW d \in Docs, AskNothing(t, kind, d)
    PROVE IInv'
<1>1. PICK clear \in BOOLEAN : Ask(t, kind, d, clear)
  BY DEF AskNothing
<1> DEFINE new == [kind |-> kind, doc |-> d, clear |-> clear]
<1>2. /\ pc[t] = "idle" /\ d \in OwnDocs(t) /\ ~Kept(d)
      /\ call' = [call EXCEPT ![t] = new] /\ pc' = [pc EXCEPT ![t] = "answered"]
      /\ got' = [got EXCEPT ![t] = Nothing(kind)]
      /\ UNCHANGED <<info, valid, shared, failures, last, own>>
  BY <1>1 DEF AskNothing, Ask, Goto
<1>3. new \in Asks /\ new.kind = kind /\ new.doc = d
  BY DEF Asks
<1>4. new \notin Reports \/ new.doc # Opening
  BY ErrorsAssumption
<1> HIDE DEF new
<1>5. Nothing(kind) \in Int
  BY DEF Nothing, NotEnabled, XML_NO_ERROR
<1>6. Types' /\ Frame(t)
  BY <1>2, <1>3, <1>5 DEF IInv, Types, Calls, Labels, Frame
<1>7. C(t)' = new /\ pc'[t] = "answered" /\ got'[t] = Nothing(kind)
  BY <1>2 DEF IInv, Types, Calls, C
<1>8. \A e \in Docs : DocOK(e)'
  BY <1>2 DEF IInv, DocOK
<1>9. CallOK(t)'
  BY <1>2, <1>3, <1>7 DEF CallOK, OwnDocs
<1>10. Expected(kind, d)' = Nothing(kind)
  <2>1. DocOK(d) /\ NoInfo \notin Error
    BY ErrorsAssumption DEF IInv, Error
  <2>2. ~valid[d] \/ last[d].place = Nowhere
    <3>1. Unkept.place = Nowhere
      BY DEF Unkept
    <3>2. QED
      BY <1>2, <2>1, <3>1 DEF Kept, DocOK
  <2>3. QED
    BY <1>2, <2>2 DEF Expected
<1>11. ToldOK(t)' /\ SharedOK(t)'
  BY <1>3, <1>4, <1>7, <1>10 DEF ToldOK, SharedOK
<1>12. QED
  BY <1>6, <1>8, <1>9, <1>11, OthersKeep

LEMMA ReadKeeps ==
    ASSUME IInv, NEW t \in Threads, NEW kind \in Kinds, NEW d \in Docs,
           NEW clear \in BOOLEAN, Read(t, kind, d, clear)
    PROVE IInv'
<1> DEFINE new == [kind |-> kind, doc |-> d, clear |-> clear]
           label == IF clear THEN "clear" ELSE "return"
<1>1. /\ pc[t] = "idle" /\ d \in OwnDocs(t) /\ Kept(d)
      /\ call' = [call EXCEPT ![t] = new] /\ pc' = [pc EXCEPT ![t] = label]
      /\ got' = [got EXCEPT ![t] = Answer(kind, info[d])]
      /\ UNCHANGED <<info, valid, failures, last>>
  BY DEF Read, Ask, Goto
<1>2. \/ shared' = [shared EXCEPT !.code = info[d].code]
            /\ own' = [s \in Threads |-> own[s] /\ s = t]
      \/ UNCHANGED <<shared, own>>
  BY DEF Read, Stores
<1>3. new \in Asks /\ new.kind = kind /\ new.doc = d /\ new.clear = clear
  BY DEF Asks
<1>4. new.doc # Opening
  BY ErrorsAssumption
<1> HIDE DEF new
<1>5. info[d] \in Error /\ last[d] = info[d] /\ valid[d]
  BY <1>1 DEF Kept, IInv, DocOK
<1>6. Answer(kind, info[d]) \in Int /\ info[d].code \in Int
  BY <1>5, AnswerType DEF Error
<1>7. Types'
  <2>1. shared' \in [line : Nat, code : Int] /\ own' \in [Threads -> BOOLEAN]
    BY <1>2, <1>6 DEF IInv, Types, Calls
  <2>2. QED
    BY <1>1, <1>3, <1>6, <2>1 DEF IInv, Types, Calls, Labels
<1>8. Frame(t)
  BY <1>1, <1>2 DEF IInv, Types, Calls, Frame
<1>9. C(t)' = new /\ pc'[t] = label /\ got'[t] = Answer(kind, info[d])
  BY <1>1 DEF IInv, Types, Calls, C
<1>10. \A e \in Docs : DocOK(e)'
  BY <1>1 DEF IInv, DocOK
<1>11. CallOK(t)'
  BY <1>1, <1>3, <1>9 DEF CallOK, OwnDocs, Kept
<1>12. Expected(kind, d)' = Answer(kind, info[d])
  <2>1. last[d].place # Nowhere
    BY <1>5, ErrorsAssumption DEF Error, Nowhere
  <2>2. QED
    BY <1>1, <1>5, <2>1 DEF Expected
<1>13. ToldOK(t)' /\ SharedOK(t)'
  BY <1>3, <1>4, <1>9, <1>12 DEF ToldOK, SharedOK
<1>14. QED
  BY <1>7, <1>8, <1>10, <1>11, <1>13, OthersKeep

LEMMA ClearKeeps ==
    ASSUME IInv, NEW t \in Threads, Clear(t)
    PROVE IInv'
<1> DEFINE d == C(t).doc
<1>1. /\ pc[t] = "clear" /\ pc' = [pc EXCEPT ![t] = "return"]
      /\ info' = [info EXCEPT ![d] = CodeOnly(info[d])]
      /\ shared' = [shared EXCEPT !.code = XML_NO_ERROR]
      /\ last' = [last EXCEPT ![d].code = XML_NO_ERROR]
      /\ own' = [s \in Threads |-> own[s] /\ s = t]
      /\ UNCHANGED <<valid, failures, call, got>>
  BY DEF Clear, Goto, Stores
<1>2. C(t) \in Asks /\ d \in OwnDocs(t) /\ d \in Docs /\ info[d] # NoInfo
  BY <1>1 DEF IInv, CallOK, OwnDocs
<1>3. info[d] \in Error /\ last[d] = info[d]
  BY <1>2 DEF IInv, DocOK
<1>4. CodeOnly(info[d]) \in Error /\ XML_NO_ERROR \in Int
  BY <1>3 DEF CodeOnly, Error, XML_NO_ERROR
<1>5. last' = [last EXCEPT ![d] = CodeOnly(info[d])]
  BY <1>1, <1>3 DEF CodeOnly
<1>6. CodeOnly(info[d]) \in [place : Places \cup {Nowhere}, code : Int]
  BY <1>4 DEF Error
<1> HIDE DEF d
<1>7. /\ info' \in [Docs -> Error \cup {NoInfo}] /\ shared' \in [line : Nat, code : Int]
      /\ last' \in [Docs -> [place : Places \cup {Nowhere}, code : Int]]
  <2>1. info' \in [Docs -> Error \cup {NoInfo}]
    BY <1>1, <1>4 DEF IInv, Types, Calls
  <2>2. shared' \in [line : Nat, code : Int]
    BY <1>1, <1>4 DEF IInv, Types, Calls
  <2>3. last' \in [Docs -> [place : Places \cup {Nowhere}, code : Int]]
    BY <1>5, <1>6 DEF IInv, Types, Calls
  <2>4. QED
    BY <2>1, <2>2, <2>3
<1>8. Types'
  BY <1>1, <1>7 DEF IInv, Types, Calls, Labels
<1>9. Frame(t)
  BY <1>1, <1>2, <1>5 DEF IInv, Types, Calls, Frame, OwnDocs
<1>10. \A e \in Docs : DocOK(e)'
  BY <1>1, <1>2, <1>4, <1>5 DEF IInv, DocOK, Types, Calls
<1>11. CallOK(t)'
  BY <1>1, <1>2 DEF CallOK, C, IInv, Types, Calls, OwnDocs, d
<1>12. C(t).clear
  BY <1>1 DEF IInv, CallOK
<1>13. ToldOK(t)' /\ SharedOK(t)'
  BY <1>1, <1>2, <1>12, CallsDiffer DEF ToldOK, SharedOK, C, IInv, Types, Calls, d
<1>14. QED
  BY <1>8, <1>9, <1>10, <1>11, <1>13, OthersKeep

LEMMA ReturnKeeps ==
    ASSUME IInv, NEW t \in Threads, Return(t)
    PROVE IInv'
<1>1. /\ pc[t] = "return" /\ pc' = [pc EXCEPT ![t] = "answered"]
      /\ UNCHANGED <<info, valid, shared, failures, call, got, last, own>>
  BY DEF Return, Goto
<1>2. C(t) \in Asks /\ C(t).doc \in OwnDocs(t) /\ ToldOK(t)
  BY <1>1 DEF IInv, CallOK
<1>3. pc'[t] = "answered" /\ C(t)' = C(t) /\ OwnDocs(t)' = OwnDocs(t)
  BY <1>1 DEF C, IInv, Types, Calls, OwnDocs
<1>4. Types' /\ Frame(t) /\ \A e \in Docs : DocOK(e)'
  BY <1>1 DEF IInv, Types, Calls, Labels, Frame, DocOK
<1>5. CallOK(t)'
  BY <1>2, <1>3 DEF CallOK
<1>6. Expected(C(t).kind, C(t).doc)' = Expected(C(t).kind, C(t).doc)
  BY <1>1, <1>3 DEF Expected
<1>7. ToldOK(t)'
  BY <1>1, <1>2, <1>3, <1>6 DEF ToldOK
<1>8. SharedOK(t)'
  BY <1>2, <1>3, CallsDiffer DEF SharedOK
<1>9. QED
  BY <1>4, <1>5, <1>7, <1>8, OthersKeep

LEMMA ForgetKeeps ==
    ASSUME IInv, NEW t \in Threads, Forget(t)
    PROVE IInv'
<1>1. /\ pc' = [pc EXCEPT ![t] = "idle"] /\ call' = [call EXCEPT ![t] = NoCall]
      /\ got' = [got EXCEPT ![t] = XML_NO_ERROR]
      /\ UNCHANGED <<info, valid, shared, failures, last, own>>
  BY DEF Forget, Goto
<1>2. Types' /\ Frame(t) /\ \A e \in Docs : DocOK(e)'
  BY <1>1 DEF IInv, Types, Calls, Labels, Frame, DocOK, XML_NO_ERROR
<1>3. pc'[t] = "idle" /\ C(t)' = NoCall
  BY <1>1 DEF C, IInv, Types, Calls
<1>4. CallOK(t)' /\ ToldOK(t)' /\ SharedOK(t)'
  BY <1>3, CallsDiffer DEF CallOK, ToldOK, SharedOK
<1>5. QED
  BY <1>2, <1>4, OthersKeep

LEMMA FailSilentlyKeeps ==
    ASSUME IInv, NEW t \in Threads, FailSilently(t)
    PROVE IInv'
<1>1. PICK silence \in Silences :
         call' = [call EXCEPT ![t] = [kind |-> "silent", doc |-> Opening, block |-> silence]]
  BY DEF FailSilently
<1> DEFINE new == [kind |-> "silent", doc |-> Opening, block |-> silence]
<1>2. pc[t] = "idle" /\ UNCHANGED <<info, valid, shared, failures, pc, got, last, own>>
  BY DEF FailSilently
<1>3. new \in Silents /\ new.kind = "silent"
  BY DEF Silents
<1>4. call' = [call EXCEPT ![t] = new]
  BY <1>1
<1> HIDE DEF new
<1>5. Types' /\ Frame(t) /\ \A e \in Docs : DocOK(e)'
  BY <1>2, <1>3, <1>4 DEF IInv, Types, Calls, Frame, DocOK
<1>6. C(t)' = new
  BY <1>4 DEF C, IInv, Types, Calls
<1>7. CallOK(t)' /\ ToldOK(t)' /\ SharedOK(t)'
  BY <1>2, <1>3, <1>6, CallsDiffer DEF CallOK, ToldOK, SharedOK
<1>8. QED
  BY <1>5, <1>7, OthersKeep

LEMMA AskSharedKeeps ==
    ASSUME IInv, NEW t \in Threads, NEW kind \in Kinds, AskShared(t, kind)
    PROVE IInv'
<1> DEFINE new == [C(t) EXCEPT !.kind = kind]
           answer == IF kind = "line" THEN shared.line ELSE shared.code
<1>1. /\ pc[t] = "idle" /\ C(t).kind \in {"set", "silent"}
      /\ call' = [call EXCEPT ![t] = new] /\ pc' = [pc EXCEPT ![t] = "answered"]
      /\ got' = [got EXCEPT ![t] = answer]
      /\ UNCHANGED <<info, valid, shared, failures, last, own>>
  BY DEF AskShared, Goto, C
<1>2. \/ C(t) \in Reports /\ C(t).doc = Opening
      \/ C(t) \in Silents
  BY <1>1, CallsDiffer DEF IInv, CallOK
<1>3. /\ C(t) \in Reports => new \in Reports
      /\ C(t) \in Silents => new \in Silents
      /\ new.kind = kind /\ new.doc = Opening
      /\ new.block = C(t).block /\ answer \in Int
  BY <1>1, <1>2 DEF Reports, Silents, IInv, Types, Calls
<1> HIDE DEF new, answer
<1>4. Types' /\ Frame(t)
  BY <1>1, <1>2, <1>3 DEF IInv, Types, Calls, Labels, Frame
<1>5. \A e \in Docs : DocOK(e)'
  BY <1>1 DEF IInv, DocOK
<1>6. pc'[t] = "answered" /\ C(t)' = new /\ got'[t] = answer
  BY <1>1 DEF C, IInv, Types, Calls
<1>7. CallOK(t)'
  BY <1>2, <1>3, <1>6 DEF CallOK
<1>8. ToldOK(t)'
  BY <1>3, <1>6, CallsDiffer DEF ToldOK
<1>9. SharedOK(t)'
  <2>1. CASE C(t) \in Reports /\ C(t).doc = Opening
    <3>1. own[t] => shared.line = Line[C(t).block.place] /\ shared.code = C(t).block.code
      BY <1>1, <2>1 DEF IInv, SharedOK
    <3>2. own[t] => answer = Answer(kind, C(t).block)
      BY <3>1 DEF Answer, answer
    <3>3. QED
      BY <1>1, <1>3, <1>6, <3>2 DEF SharedOK, Answer
  <2>2. CASE C(t) \in Silents
    BY <1>3, <1>6, <2>2, CallsDiffer DEF SharedOK
  <2>3. QED
    BY <1>2, <2>1, <2>2
<1>10. QED
  BY <1>4, <1>5, <1>7, <1>8, <1>9, OthersKeep

LEMMA SetValidatingKeeps ==
    ASSUME IInv, NEW t \in Threads, NEW d \in Docs, SetValidating(t, d)
    PROVE IInv'
<1>1. /\ pc[t] = "idle" /\ Owner[d] = t /\ valid' = [valid EXCEPT ![d] = ~valid[d]]
      /\ UNCHANGED <<info, shared, failures, pc, call, got, last, own>>
  BY DEF SetValidating, OwnDocs
<1>2. Types' /\ Frame(t) /\ \A e \in Docs : DocOK(e)'
  BY <1>1 DEF IInv, Types, Calls, Frame, DocOK
<1>3. CallOK(t)' /\ ToldOK(t)' /\ SharedOK(t)'
  BY <1>1 DEF IInv, CallOK, ToldOK, SharedOK, C
<1>4. QED
  BY <1>2, <1>3, OthersKeep

-----------------------------------------------------------------------------
(* The invariant, and what it says. *)

THEOREM InitIInv == Init => IInv
<1> SUFFICES ASSUME Init
             PROVE IInv
  OBVIOUS
<1>1. Types
  BY DEF Init, Types, Calls, Labels, XML_NO_ERROR
<1>2. \A d \in Docs : DocOK(d)
  BY DEF Init, DocOK, Unkept
<1>3. ASSUME NEW t \in Threads
      PROVE pc[t] = "idle" /\ C(t) = NoCall
  BY DEF Init, C
<1>4. \A t \in Threads : CallOK(t) /\ ToldOK(t) /\ SharedOK(t)
  BY <1>3, CallsDiffer DEF CallOK, ToldOK, SharedOK
<1>5. QED
  BY <1>1, <1>2, <1>4 DEF IInv

\* One step per operation.
THEOREM NextIInv == IInv /\ [Next]_vars => IInv'
<1> SUFFICES ASSUME IInv, [Next]_vars
             PROVE IInv'
  OBVIOUS
<1>1. CASE UNCHANGED vars
  BY <1>1 DEF vars, IInv, Types, Calls, DocOK, CallOK, ToldOK, SharedOK, C, Expected
<1>2. CASE Next
  BY <1>2, ReportKeeps, KeepInfoKeeps, NoMemoryKeeps, ShareKeeps, AskNothingKeeps, ReadKeeps,
     ClearKeeps, ReturnKeeps, ForgetKeeps, FailSilentlyKeeps, AskSharedKeeps,
     SetValidatingKeeps DEF Next
<1>3. QED
  BY <1>1, <1>2

\* IInv is inductive: it holds in every state that is reached.
THEOREM ErrorsInvariant == Spec => []IInv
<1>1. QED
  BY InitIInv, NextIInv, PTL DEF Spec

\* "Error information is stored per XML-id": a getter tells the last error of its
\* own document, whatever other threads do.
THEOREM ErrorsAreOwn == Spec => []OwnErrors
<1>1. ASSUME IInv, NEW t \in Threads, Answered(t)
      PROVE got[t] = Expected(C(t).kind, C(t).doc)
  <2>1. CallOK(t) /\ ToldOK(t) /\ C(t).doc # Opening
    BY <1>1, ErrorsAssumption DEF IInv, Answered
  <2>2. QED
    BY <1>1, <2>1, CallsDiffer DEF CallOK, ToldOK, Answered
<1>2. IInv => OwnErrors
  BY <1>1 DEF OwnErrors, Expected
<1>3. QED
  BY <1>2, ErrorsInvariant, PTL

\* A scan that fails while a document is opened is told by the static record, with
\* or without memory for its block, unless another thread stores to it; an open that
\* fails before the scan is not.
THEOREM FailedScanIsTold == Spec => []ScanErrorIsTold
<1>1. ASSUME IInv, NEW t \in Threads, AskedOfOpen(t), C(t).block \in Faults, own[t]
      PROVE got[t] = Answer(C(t).kind, C(t).block)
  <2>1. CallOK(t) /\ SharedOK(t) /\ pc[t] = "answered" /\ C(t).doc = Opening
    BY <1>1 DEF IInv, AskedOfOpen
  <2>2. C(t) \in Reports
    BY <1>1, <2>1, CallsDiffer DEF CallOK
  <2>3. QED
    BY <1>1, <2>1, <2>2 DEF SharedOK
<1>2. IInv => ScanErrorIsTold
  BY <1>1 DEF ScanErrorIsTold
<1>3. QED
  BY <1>2, ErrorsInvariant, PTL

\* Blocks, the static record and the calls are well typed, and a thread is in a
\* call on its own document only.
THEOREM ErrorsType == Spec => []TypeOK
<1>1. ASSUME IInv, NEW t \in Threads
      PROVE /\ pc[t] \in {"info", "shared"} => C(t).kind = "set"
            /\ pc[t] \in {"clear", "return"} => C(t).kind \in Kinds /\ C(t).doc \in Docs
            /\ C(t) # NoCall /\ C(t).doc \in Docs => Owner[C(t).doc] = t
  <2>1. CallOK(t) /\ pc[t] \in Labels
    BY <1>1 DEF IInv, Types, Calls
  <2>2. QED
    BY <2>1, ErrorsAssumption DEF CallOK, Labels, Asks, Reports, Silents, OwnDocs
<1>2. IInv => TypeOK
  BY <1>1 DEF IInv, Types, Calls, TypeOK, Labels, Call, Reports, Silents, Asks
<1>3. QED
  BY <1>2, ErrorsInvariant, PTL
=============================================================================
